----------------------------- MODULE Generator -----------------------------
(***************************************************************************)
(* The corpus generator (tools/vectorgen/src/main.rs) together with the    *)
(* book its commands are fed to.  The generator does not simulate the      *)
(* book: it keeps the ids it believes to rest (Gen.live) and picks the     *)
(* targets of its cancels and replaces among them.                         *)
(*                                                                         *)
(* Random choices are nondeterministic.  Prices lie around Mid, which no   *)
(* order carries: resting adds within Spread of it on their own side,      *)
(* immediate-or-cancel orders within Reach of it on the other (twice as   *)
(* far in w2 as in w4).                                                    *)
(***************************************************************************)
EXTENDS OrderBook

CONSTANTS
  Workload,  \* "w1" ... "w5"
  SetupN,    \* adds that build the book
  RunN,      \* commands that are measured; ids are 1 .. SetupN + RunN, and
             \* MaxOrders leaves room for every command
  Mid, Spread, Reach

VARIABLES
  nextId,  \* Gen.next_id
  known,   \* Gen.live, "ids known to be resting"
  made     \* commands generated so far

genVars == <<nextId, known, made>>

\* Gen::range excludes its upper end.
RestingPrice(side) ==
  IF side = "bid" THEN Mid - Spread .. Mid - 2 ELSE Mid + 1 .. Mid + Spread - 1

TakingPrice(side) ==
  IF side = "bid" THEN Mid + 1 .. Mid + Reach - 1 ELSE Mid - Reach + 1 .. Mid - 1

Fresh(command) ==
  /\ Handle(command)
  /\ nextId' = nextId + 1

\* add_cmd: a good-till-cancel order on its own side of Mid
Add ==
  /\ \E side \in Side, qty \in CmdQtys : \E price \in RestingPrice(side) :
       Fresh([cmd |-> "new", id |-> nextId, side |-> side, otype |-> "limit",
              price |-> price, qty |-> qty, tif |-> "gtc"])
  /\ known' = known \cup {nextId}

\* A limit order through Mid that never rests
Take ==
  /\ \E side \in Side, qty \in CmdQtys : \E price \in TakingPrice(side) :
       Fresh([cmd |-> "new", id |-> nextId, side |-> side, otype |-> "limit",
              price |-> price, qty |-> qty, tif |-> "ioc"])
  /\ UNCHANGED known

Market ==
  /\ \E side \in Side, qty \in CmdQtys :
       Fresh([cmd |-> "new", id |-> nextId, side |-> side, otype |-> "market",
              price |-> 0, qty |-> qty, tif |-> "ioc"])
  /\ UNCHANGED known

\* kill_live and a cancel
Drop ==
  \E id \in known :
    /\ Handle([cmd |-> "cancel", id |-> id])
    /\ known' = known \ {id}
    /\ UNCHANGED nextId

\* pick_live and a replace: the side that chooses the price is drawn, not
\* the side of the order.
Move ==
  \E id \in known, side \in Side, qty \in CmdQtys : \E price \in RestingPrice(side) :
    /\ Handle([cmd |-> "replace", id |-> id, price |-> price, qty |-> qty])
    /\ UNCHANGED <<nextId, known>>

\* The commands a workload is made of
RunCommand ==
  CASE Workload = "w1" -> Add
    [] Workload = "w2" -> Take \/ Market
    [] Workload = "w3" -> Drop \/ Move \/ Add
    [] Workload \in {"w4", "w5"} -> Move \/ Drop \/ Take \/ Add

Generate ==
  /\ made < SetupN + RunN
  /\ made' = made + 1
  /\ IF made < SetupN THEN Add ELSE RunCommand

\* The book finishes a command before it is given the next one.
GeneratorInit == Init /\ nextId = 1 /\ known = {} /\ made = 0
GeneratorNext == Generate \/ (Continue /\ UNCHANGED genVars)
GeneratorSpec == GeneratorInit /\ [][GeneratorNext]_<<vars, genVars>>

----------------------------------------------------------------------------
\* Properties

\* The generator's claim about itself (main.rs, lines 6 to 8): every resting
\* add is non-crossing, "so live-id tracking for cancel/replace is exact".
\* Between two commands the ids it believes to rest are those that do.
LiveIdsExact == taker = Idle => known = DOMAIN map
=============================================================================
