---------------------------- MODULE LadderIndex ----------------------------
(***************************************************************************)
(* The ladder price index of one side (LadderIndex in src/index.rs): an    *)
(* array of levels, an occupancy bitmap in words of WordBits, a summary    *)
(* with one bit per word of the bitmap, a count, and a cursor on the best  *)
(* level that is moved only when it has to be.                             *)
(*                                                                         *)
(* A word of the bitmap is the set of its bits: bits is the set of marked  *)
(* indexes and summary the set of marked words.  A level is the number of  *)
(* unit orders in it, which is its total as well.  The book's uses of the  *)
(* index are one step each: level_insert followed by the push, and the     *)
(* removal of an order followed by unlink_level.                           *)
(***************************************************************************)
EXTENDS Integers, FiniteSets, SequencesExt

CONSTANTS
  Span,      \* number of levels: price_max - price_min + 1
  WordBits,  \* 64
  LevelMax   \* bound: orders per level

ASSUME LadderAssumption ==
  Span \in Nat \ {0} /\ WordBits \in Nat \ {0} /\ LevelMax \in Nat \ {0}

VARIABLES side, levels, bits, summary, count, best

vars == <<side, levels, bits, summary, count, best>>

Index == 0 .. Span - 1
Nil   == -1

WordOf(i) == i \div WordBits
Words     == 0 .. WordOf(Span - 1)

IsBetter(i, j) == IF side = "bid" THEN i > j ELSE i < j

Init ==
  /\ side \in {"bid", "ask"}
  /\ levels = [i \in Index |-> 0]
  /\ bits = {}
  /\ summary = {}
  /\ count = 0
  /\ best = Nil

----------------------------------------------------------------------------
\* LadderIndex::level_insert, then Store::push
Enter(i) ==
  /\ levels[i] < LevelMax
  /\ levels' = [levels EXCEPT ![i] = @ + 1]
  /\ IF levels[i] = 0
     THEN /\ bits' = bits \cup {i}
          /\ summary' = summary \cup {WordOf(i)}
          /\ count' = count + 1
          /\ best' = IF best = Nil \/ IsBetter(i, best) THEN i ELSE best
     ELSE UNCHANGED <<bits, summary, count, best>>
  /\ UNCHANGED side

\* LadderIndex::rescan: the rest of the word of from, then the first word
\* the summary has inward of it, one summary word after the other.
BitsOf(marked, w) == {b \in marked : WordOf(b) = w}

RescanAsk(marked, words, from) ==
  LET w    == WordOf(from)
      here == {b \in BitsOf(marked, w) : b >= from}
      up[s \in 0 .. Span + WordBits] ==
        LET sw    == WordOf(s)
            sword == {v \in words : WordOf(v) = sw /\ v >= s}
        IN  IF s \notin Words THEN Nil
            ELSE IF sword # {} THEN Min(BitsOf(marked, Min(sword)))
            ELSE up[sw * WordBits + WordBits]
  IN  IF here # {} THEN Min(here) ELSE up[w + 1]

RescanBid(marked, words, from) ==
  LET w    == WordOf(from)
      here == {b \in BitsOf(marked, w) : b <= from}
      down[s \in -1 .. Span] ==
        LET sw    == WordOf(s)
            sword == {v \in words : WordOf(v) = sw /\ v <= s}
        IN  IF s < 0 THEN Nil
            ELSE IF sword # {} THEN Max(BitsOf(marked, Max(sword)))
            ELSE down[sw * WordBits - 1]
  IN  IF here # {} THEN Max(here) ELSE down[w - 1]

Rescan(marked, words, from) ==
  IF side = "bid" THEN RescanBid(marked, words, from) ELSE RescanAsk(marked, words, from)

\* Mutant: a word that still has bits is cleared in the summary.
WordDropped(marked, w) == summary \ {w}

\* The summary once the bits that are left in the bitmap are marked.
WordSettled(marked, w) == IF BitsOf(marked, w) = {} THEN summary \ {w} ELSE summary

\* Mutant: the cursor stays on the emptied level.
BestKept(i, marked, words) == best

\* The cursor is moved only if it pointed at the emptied level.
BestWithout(i, marked, words) == IF i = best THEN Rescan(marked, words, i) ELSE best

\* Mutant: the count is not brought down.
CountKept == count

CountDown == count - 1

\* An order leaves level i, then LadderIndex::unlink_level
Vacate(i) ==
  /\ levels[i] > 0
  /\ levels' = [levels EXCEPT ![i] = @ - 1]
  /\ IF levels[i] > 1
     THEN UNCHANGED <<bits, summary, count, best>>
     ELSE /\ bits' = bits \ {i}
          /\ summary' = WordSettled(bits', WordOf(i))
          /\ count' = CountDown
          /\ best' = IF count' = 0 THEN Nil ELSE BestWithout(i, bits', summary')
  /\ UNCHANGED side

Next == \E i \in Index : Enter(i) \/ Vacate(i)

Spec == Init /\ [][Next]_vars

----------------------------------------------------------------------------
\* Queries

\* Mutant: the last word is not masked.
SumRangeUnmasked(lo, hi) ==
  LET from[i \in 0 .. Span + WordBits] ==
        LET word == {b \in BitsOf(bits, WordOf(i)) : b >= i}
        IN  IF i > hi THEN 0
            ELSE SumFunctionOnSet(levels, word) + from[WordOf(i) * WordBits + WordBits]
  IN  from[lo]

\* LadderIndex::sum_range over indexes, word by word.
SumRange(lo, hi) ==
  LET from[i \in 0 .. Span + WordBits] ==
        LET word == {b \in BitsOf(bits, WordOf(i)) : b >= i /\ b <= hi}
        IN  IF i > hi THEN 0
            ELSE SumFunctionOnSet(levels, word) + from[WordOf(i) * WordBits + WordBits]
  IN  from[lo]

\* LadderIndex::depth: occupied levels from the best inward; the loop looks
\* at n only after it has added a level.
Depth(n) ==
  LET all == SetToSortSeq(bits, IsBetter)
  IN  IF n \in DOMAIN all THEN SubSeq(all, 1, n) ELSE all

----------------------------------------------------------------------------
\* Properties

TypeOK ==
  /\ side \in {"bid", "ask"}
  /\ levels \in [Index -> 0 .. LevelMax]
  /\ bits \subseteq Index
  /\ summary \subseteq Words
  /\ count \in 0 .. Span
  /\ best \in Index \cup {Nil}

NonEmpty == {i \in Index : levels[i] > 0}

\* The cursor is the best non-empty level after any churn, also when whole
\* words and summary words have emptied in between (matching trusts it).
BestExact ==
  /\ best = Nil <=> NonEmpty = {}
  /\ best # Nil => best \in NonEmpty /\ \A i \in NonEmpty : ~IsBetter(i, best)

\* Bitmap, summary and count all say which levels are occupied.
BitmapExact ==
  /\ bits = NonEmpty
  /\ summary = {WordOf(i) : i \in NonEmpty}
  /\ count = Cardinality(NonEmpty)

\* The fill-or-kill sum over the bitmap is the sum over the levels, for
\* every range, within one word and across several.
SumRangeExact ==
  \A lo, hi \in Index :
    SumRange(lo, hi) = SumFunctionOnSet(levels, {i \in Index : lo <= i /\ i <= hi})

\* "Up to n pairs" (the comment of PriceIndex::depth), for n = 0 too.
DepthAtMostN == \A n \in 0 .. Span : Len(Depth(n)) <= n
=============================================================================
