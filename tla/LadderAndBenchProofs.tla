------------------------ MODULE LadderAndBenchProofs ------------------------
(***************************************************************************)
(* Theorems about two components that share no state with any other.       *)
(*                                                                         *)
(* The ladder price index, for every span, word size and bound: bitmap,    *)
(* summary and count agree with the levels, the cursor is on the best      *)
(* level, and the fill-or-kill sum over the bitmap is the sum over the     *)
(* levels.  The heart is that a rescan finds the best bit left: a word or  *)
(* a summary word that it skips holds nothing.  Its loop is a recursive    *)
(* function on words; the lemmas show first that the function is defined   *)
(* and then, by induction on the words that are left, what its value is.   *)
(*                                                                         *)
(* The barrier of the benchmark, for every number of workers and           *)
(* repetitions: the timed runs start together, and a repetition ends only  *)
(* after all of its workers.                                               *)
(***************************************************************************)
EXTENDS LadderIndex, ScaleBarrier, BasicFacts

----------------------------------------------------------------------------
\* Words

\* Index i lies in the word WordOf(i), which ends where the next one starts.
LEMMA WordBounds ==
  ASSUME NEW i \in Int
  PROVE  /\ WordOf(i) \in Int
         /\ WordOf(i) * WordBits <= i
         /\ i < WordOf(i) * WordBits + WordBits
         /\ WordOf(i) * WordBits \in Int
BY LadderAssumption DEF WordOf

\* A word is before another when it ends before that one starts.
LEMMA WordEnds ==
  ASSUME NEW v \in Int, NEW w \in Int, v < w
  PROVE  v * WordBits + WordBits <= w * WordBits
<1>. DEFINE d == w - v
<1>1. d \in Nat \ {0} /\ w = v + d
  OBVIOUS
<1>. HIDE DEF d
<1>2. (v + d) * WordBits = v * WordBits + d * WordBits
  BY <1>1, LadderAssumption
<1>3. d * WordBits >= WordBits
  BY <1>1, LadderAssumption
<1>4. v * WordBits \in Int /\ d * WordBits \in Int
  BY <1>1, LadderAssumption
<1>. QED  BY <1>1, <1>2, <1>3, <1>4, LadderAssumption

\* The order of words is the order of their indexes.
LEMMA WordMonotone ==
  ASSUME NEW i \in Int, NEW j \in Int
  PROVE  /\ i <= j => WordOf(i) <= WordOf(j)
         /\ WordOf(i) < WordOf(j) => i < j
         /\ j >= WordOf(i) * WordBits + WordBits <=> WordOf(j) > WordOf(i)
         /\ j <= WordOf(i) * WordBits - 1 <=> WordOf(j) < WordOf(i)
<1>. DEFINE v == WordOf(i)
            w == WordOf(j)
            a == v * WordBits
            b == w * WordBits
<1>1. /\ v \in Int /\ a \in Int /\ a <= i /\ i < a + WordBits
      /\ w \in Int /\ b \in Int /\ b <= j /\ j < b + WordBits
  BY WordBounds
<1>2. WordBits \in Nat \ {0}
  BY LadderAssumption
<1>. HIDE DEF v, w
<1>3. (v < w => a + WordBits <= b) /\ (w < v => b + WordBits <= a) /\ (v = w => a = b)
  BY <1>1, WordEnds
<1>. HIDE DEF a, b
<1>4. /\ i <= j => v <= w
      /\ v < w => i < j
      /\ j >= a + WordBits <=> w > v
      /\ j <= a - 1 <=> w < v
  BY <1>1, <1>2, <1>3
<1>. QED  BY <1>4 DEF a, b, v, w

\* An index is not before its word.
LEMMA WordSmaller ==
  ASSUME NEW i \in Nat
  PROVE  WordOf(i) \in 0 .. i
<1>. DEFINE w == WordOf(i)
<1>1. w \in Int /\ w * WordBits <= i /\ i < w * WordBits + WordBits
  BY WordBounds
<1>2. WordOf(0) = 0
  BY LadderAssumption DEF WordOf
<1>3. w >= 0
  BY <1>1, <1>2, WordMonotone
<1>. HIDE DEF w
<1>4. w <= w * WordBits
  BY <1>1, <1>3, LadderAssumption
<1>5. w * WordBits \in Int
  BY <1>1, LadderAssumption
<1>. QED  BY <1>1, <1>3, <1>4, <1>5 DEF w

\* The least and the greatest of some numbers.
LEMMA MinFacts ==
  ASSUME NEW S \in SUBSET Nat, S # {}
  PROVE  Min(S) \in S /\ \A x \in S : Min(S) <= x
<1>1. \E m \in S : \A n \in S : m <= n
  BY LeastNat
<1>. QED  BY <1>1 DEF Min

LEMMA MaxFacts ==
  ASSUME NEW top \in Nat, NEW S \in SUBSET (0 .. top), S # {}
  PROVE  Max(S) \in S /\ \A x \in S : x <= Max(S)
<1>. DEFINE R == {top - x : x \in S}
<1>1. R \in SUBSET Nat /\ R # {}
  <2>1. \A x \in S : top - x \in Nat
    OBVIOUS
  <2>2. PICK x \in S : TRUE
    OBVIOUS
  <2>3. top - x \in R
    OBVIOUS
  <2>. QED  BY <2>1, <2>3
<1>2. PICK m \in R : \A n \in R : m <= n
  BY <1>1, LeastNat
<1>3. PICK x \in S : m = top - x
  BY <1>2
<1>4. \A y \in S : y <= x
  <2>1. \A y \in S : top - x <= top - y
    BY <1>2, <1>3
  <2>. QED  BY <2>1
<1>5. \E z \in S : \A y \in S : z >= y
  BY <1>4
<1>. QED  BY <1>5 DEF Max

----------------------------------------------------------------------------
\* The rescan of an ask side

\* A summary holds the words of the marked indexes.
Summarises(marked, words) ==
  /\ marked \subseteq Index
  /\ words = {WordOf(b) : b \in marked}

LEMMA SummaryFacts ==
  ASSUME NEW marked, NEW words, Summarises(marked, words)
  PROVE  /\ words \subseteq Words
         /\ \A v \in words : BitsOf(marked, v) # {} /\ BitsOf(marked, v) \subseteq Index
         /\ \A b \in marked : WordOf(b) \in words
         /\ Words \subseteq 0 .. Span - 1
         /\ marked \subseteq Index
         /\ Index \subseteq Nat
<1>0. Span \in Nat \ {0} /\ Index \subseteq Nat
  BY LadderAssumption DEF Index
<1>1. \A b \in Index : WordOf(b) \in Words
  <2>. SUFFICES ASSUME NEW b \in Index
                PROVE  WordOf(b) \in Words
    OBVIOUS
  <2>1. b \in Nat /\ Span - 1 \in Nat /\ b <= Span - 1
    BY <1>0 DEF Index
  <2>2. WordOf(b) \in Nat /\ WordOf(Span - 1) \in Nat
    BY <2>1, WordSmaller
  <2>3. WordOf(b) <= WordOf(Span - 1)
    BY <2>1, WordMonotone
  <2>. QED  BY <2>2, <2>3 DEF Words
<1>2. Words \subseteq 0 .. Span - 1
  <2>1. Span - 1 \in Nat
    BY <1>0
  <2>2. WordOf(Span - 1) \in 0 .. Span - 1
    BY <2>1, WordSmaller
  <2>. QED  BY <1>0, <2>2 DEF Words
<1>. QED  BY <1>0, <1>1, <1>2 DEF Summarises, BitsOf

\* The summary words from s on: the domain of the walk and its step.
UpStart == 0 .. Span + WordBits
UpWord(words, s) == {v \in words : WordOf(v) = WordOf(s) /\ v >= s}
UpNext(s) == WordOf(s) * WordBits + WordBits

UpEquation(marked, words, h) ==
  h = [s \in UpStart |->
         LET sw    == WordOf(s)
             sword == {v \in words : WordOf(v) = sw /\ v >= s}
         IN  IF s \notin Words THEN Nil
             ELSE IF sword # {} THEN Min(BitsOf(marked, Min(sword)))
             ELSE h[sw * WordBits + WordBits]]

\* The walk upwards solves its equation ...
LEMMA RescanAskIs ==
  ASSUME NEW marked, NEW words, NEW from
  PROVE  RescanAsk(marked, words, from) =
           LET here == {b \in BitsOf(marked, WordOf(from)) : b >= from}
           IN  IF here # {} THEN Min(here)
               ELSE (CHOOSE h : UpEquation(marked, words, h))[WordOf(from) + 1]
BY DEF RescanAsk, UpEquation, UpStart

\* Looking at a word leads to a later one.
LEMMA UpStep ==
  ASSUME NEW s \in Words
  PROVE  s \in UpStart /\ s + 1 \in UpStart /\ UpNext(s) \in UpStart /\ UpNext(s) > s
<1>1. s \in 0 .. Span - 1
  <2>1. Summarises({}, {})
    BY DEF Summarises
  <2>. QED  BY <2>1, SummaryFacts
<1>2. s \in Int /\ Span \in Nat \ {0} /\ WordBits \in Nat \ {0}
  BY <1>1, LadderAssumption
<1>. DEFINE a == WordOf(s) * WordBits
<1>3. a \in Int /\ a <= s /\ s < a + WordBits
  BY <1>2, WordBounds
<1>. HIDE DEF a
<1>4. a + WordBits \in 0 .. Span + WordBits /\ a + WordBits > s
  BY <1>1, <1>2, <1>3
<1>. QED  BY <1>1, <1>2, <1>4 DEF a, UpStart, UpNext

\* The walk is defined ...
LEMMA UpDefined ==
  ASSUME NEW marked, NEW words, Summarises(marked, words)
  PROVE  \E h : UpEquation(marked, words, h)
<1>. DEFINE E == {s \in UpStart : s \notin Words \/ UpWord(words, s) # {}}
            m == [s \in UpStart |-> Span + WordBits - s]
            nx == [s \in UpStart \ E |-> UpNext(s)]
            b == [s \in UpStart |-> IF s \in Words /\ UpWord(words, s) # {}
                                    THEN Min(BitsOf(marked, Min(UpWord(words, s)))) ELSE Nil]
            c == [s \in UpStart |-> 0]
<1>0. Span \in Nat \ {0} /\ WordBits \in Nat \ {0}
  BY LadderAssumption
<1>1. E \in SUBSET UpStart
  OBVIOUS
<1>2. m \in [UpStart -> Nat]
  BY <1>0 DEF UpStart
<1>3. \A s \in UpStart \ E : s \in Words
  OBVIOUS
<1>4. nx \in [UpStart \ E -> UpStart]
  BY <1>3, UpStep
<1>5. \A s \in UpStart \ E : m[nx[s]] < m[s]
  <2>. SUFFICES ASSUME NEW s \in UpStart \ E
                PROVE  m[nx[s]] < m[s]
    OBVIOUS
  <2>1. nx[s] \in UpStart /\ nx[s] > s /\ s \in Int /\ nx[s] \in Int
    BY <1>0, <1>3, UpStep DEF UpStart
  <2>. HIDE DEF nx
  <2>. QED  BY <1>0, <2>1
<1>6. b \in [UpStart -> Int]
  <2>1. Nil \in Int
    BY DEF Nil
  <2>2. ASSUME NEW s \in UpStart, UpWord(words, s) # {}
        PROVE  Min(BitsOf(marked, Min(UpWord(words, s)))) \in Int
    <3>1. UpWord(words, s) \in SUBSET Nat /\ UpWord(words, s) \subseteq words
      BY SummaryFacts DEF UpWord
    <3>2. Min(UpWord(words, s)) \in words
      BY <2>2, <3>1, MinFacts
    <3>. DEFINE W == BitsOf(marked, Min(UpWord(words, s)))
    <3>3. W # {} /\ W \in SUBSET Nat
      BY <3>2, SummaryFacts
    <3>. HIDE DEF W
    <3>4. Min(W) \in W
      BY <3>3, MinFacts
    <3>5. \A x \in W : x \in Int
      BY <3>3
    <3>6. Min(W) \in Int
      BY <3>4, <3>5
    <3>. QED  BY <3>6 DEF W
  <2>. QED  BY <2>1, <2>2
<1>7. c \in [UpStart -> Int]
  OBVIOUS
<1>. HIDE DEF E, m, nx, b, c
<1>12. EndingWalk(UpStart, E, m, nx)
  BY <1>1, <1>2, <1>4, <1>5 DEF EndingWalk
<1>13. PICK h : AddsUp(UpStart, E, nx, b, c, h)
  BY <1>6, <1>7, <1>12, WalkDefined
<1>8. /\ h \in [UpStart -> Int]
      /\ \A s \in UpStart : h[s] = IF s \in E THEN b[s] ELSE c[s] + h[nx[s]]
  BY <1>13 DEF AddsUp
<1>9. ASSUME NEW s \in UpStart
      PROVE  h[s] = IF s \notin Words THEN Nil
                    ELSE IF UpWord(words, s) # {} THEN Min(BitsOf(marked, Min(UpWord(words, s))))
                    ELSE h[UpNext(s)]
  <2>1. h[s] = IF s \in E THEN b[s] ELSE c[s] + h[nx[s]]
    BY <1>8
  <2>2. CASE s \in E
    BY <2>1, <2>2 DEF E, b
  <2>3. CASE s \notin E
    <3>1. s \in Words /\ UpWord(words, s) = {} /\ nx[s] = UpNext(s) /\ c[s] = 0
      BY <2>3 DEF E, nx, c
    <3>2. UpNext(s) \in UpStart
      BY <3>1, UpStep
    <3>3. h[UpNext(s)] \in Int
      BY <1>8, <3>2
    <3>. QED  BY <2>1, <2>3, <3>1, <3>3
  <2>. QED  BY <2>2, <2>3
<1>10. h = [s \in UpStart |->
              IF s \notin Words THEN Nil
              ELSE IF UpWord(words, s) # {} THEN Min(BitsOf(marked, Min(UpWord(words, s))))
              ELSE h[UpNext(s)]]
  BY <1>8, <1>9
<1>. QED  BY <1>10 DEF UpEquation, UpWord, UpNext

\* ... and finds the least marked index in the words from s on.
LeastFrom(marked, s, r) ==
  IF \E b \in marked : WordOf(b) >= s
  THEN r \in marked /\ WordOf(r) >= s /\ \A b \in marked : WordOf(b) >= s => r <= b
  ELSE r = Nil

\* ... and whatever does finds the next marked level.
LEMMA UpFinds ==
  ASSUME NEW marked, NEW words, Summarises(marked, words),
         NEW h, UpEquation(marked, words, h)
  PROVE  \A s \in UpStart : LeastFrom(marked, s, h[s])
<1>. DEFINE T == {n \in Nat : \A s \in UpStart :
                    Span + WordBits - s <= n => LeastFrom(marked, s, h[s])}
<1>0. /\ Span \in Nat \ {0} /\ WordBits \in Nat \ {0}
      /\ UpStart \subseteq Nat /\ \A s \in UpStart : s <= Span + WordBits
  BY LadderAssumption DEF UpStart
<1>1. \A s \in UpStart :
        h[s] = IF s \notin Words THEN Nil
               ELSE IF UpWord(words, s) # {} THEN Min(BitsOf(marked, Min(UpWord(words, s))))
               ELSE h[UpNext(s)]
  BY DEF UpEquation, UpWord, UpNext
<1>2. /\ words \subseteq Words /\ marked \subseteq Index /\ Index \subseteq Nat
      /\ Words \subseteq 0 .. Span - 1 /\ Words \subseteq Nat
      /\ \A b \in marked : WordOf(b) \in words
      /\ \A v \in words : BitsOf(marked, v) # {} /\ BitsOf(marked, v) \subseteq Nat
  BY SummaryFacts
<1>3. ASSUME NEW s \in UpStart, s \notin Words
      PROVE  LeastFrom(marked, s, h[s])
  <2>1. \A b \in marked : ~(WordOf(b) >= s)
    <3>1. s \in Nat /\ ~(s <= WordOf(Span - 1))
      BY <1>0, <1>3 DEF Words
    <3>2. WordOf(Span - 1) \in Int
      BY <1>0, WordBounds
    <3>3. \A v \in Words : v <= WordOf(Span - 1) /\ v \in Int
      BY <3>2 DEF Words
    <3>4. \A b \in marked : WordOf(b) \in Words
      BY <1>2
    <3>. QED  BY <3>1, <3>2, <3>3, <3>4
  <2>2. h[s] = Nil
    BY <1>1, <1>3
  <2>. QED  BY <2>1, <2>2 DEF LeastFrom
<1>4. ASSUME NEW s \in UpStart, s \in Words, UpWord(words, s) # {}
      PROVE  LeastFrom(marked, s, h[s])
  <2>. DEFINE v == Min(UpWord(words, s))
  <2>1. UpWord(words, s) \in SUBSET Nat
    BY <1>2 DEF UpWord
  <2>2. v \in UpWord(words, s) /\ \A u \in UpWord(words, s) : v <= u
    BY <1>4, <2>1, MinFacts
  <2>3. v \in words /\ v \in Nat /\ WordOf(v) = WordOf(s) /\ v >= s
    BY <1>2, <2>2 DEF UpWord
  <2>4. h[s] = Min(BitsOf(marked, v))
    BY <1>1, <1>4
  <2>. HIDE DEF v
  <2>. DEFINE B == BitsOf(marked, v)
              r == Min(B)
  <2>5. B # {} /\ B \in SUBSET Nat
    BY <1>2, <2>3
  <2>6. r \in B /\ \A b \in B : r <= b
    <3>. HIDE DEF B
    <3>. QED  BY <2>5, MinFacts
  <2>. HIDE DEF r
  <2>7. r \in marked /\ WordOf(r) = v /\ r \in Nat
    BY <1>2, <2>6 DEF BitsOf
  <2>8. ASSUME NEW b \in marked, WordOf(b) >= s
        PROVE  r <= b
    <3>. DEFINE u == WordOf(b)
    <3>1. b \in Nat /\ u \in words /\ u \in Nat /\ u >= s /\ s \in Nat
      BY <1>0, <1>2, <2>8
    <3>. HIDE DEF u
    <3>2. v <= u
      <4>1. CASE WordOf(u) = WordOf(s)
        BY <2>2, <3>1, <4>1 DEF UpWord
      <4>2. CASE WordOf(u) # WordOf(s)
        <5>1. WordOf(s) <= WordOf(u) /\ WordOf(s) \in Int /\ WordOf(u) \in Int
          BY <3>1, WordMonotone, WordBounds
        <5>2. WordOf(v) < WordOf(u)
          BY <2>3, <4>2, <5>1
        <5>. QED  BY <2>3, <3>1, <5>2, WordMonotone
      <4>. QED  BY <4>1, <4>2
    <3>3. CASE u = v
      <4>1. b \in B
        BY <3>3 DEF u, BitsOf
      <4>. QED  BY <2>6, <4>1
    <3>4. CASE u # v
      <4>1. WordOf(r) < WordOf(b)
        BY <2>3, <2>7, <3>1, <3>2, <3>4 DEF u
      <4>2. r < b
        BY <2>7, <3>1, <4>1, WordMonotone
      <4>. QED  BY <2>7, <3>1, <4>2
    <3>. QED  BY <3>3, <3>4
  <2>9. h[s] = r /\ WordOf(r) >= s
    BY <2>3, <2>4, <2>7 DEF r
  <2>. QED  BY <2>7, <2>8, <2>9 DEF LeastFrom
<1>5. ASSUME NEW s \in UpStart, s \in Words, UpWord(words, s) = {},
             LeastFrom(marked, UpNext(s), h[UpNext(s)])
      PROVE  LeastFrom(marked, s, h[s])
  <2>1. h[s] = h[UpNext(s)]
    BY <1>1, <1>5
  <2>2. s \in Nat /\ UpNext(s) \in Nat /\ UpNext(s) > s
    BY <1>0, <1>5, UpStep
  <2>3. ASSUME NEW u \in words
        PROVE  u >= s <=> u >= UpNext(s)
    <3>1. u \in Nat
      BY <1>2
    <3>2. u >= UpNext(s) => u >= s
      BY <2>2, <3>1
    <3>3. ASSUME u >= s
          PROVE  u >= UpNext(s)
      <4>1. WordOf(u) # WordOf(s)
        BY <1>5, <3>3 DEF UpWord
      <4>2. WordOf(s) <= WordOf(u) /\ WordOf(s) \in Int /\ WordOf(u) \in Int
        BY <2>2, <3>1, <3>3, WordMonotone, WordBounds
      <4>3. WordOf(u) > WordOf(s)
        BY <4>1, <4>2
      <4>. QED  BY <2>2, <3>1, <4>3, WordMonotone DEF UpNext
    <3>. QED  BY <3>2, <3>3
  <2>4. \A b \in marked : WordOf(b) >= s <=> WordOf(b) >= UpNext(s)
    BY <1>2, <2>3
  <2>. HIDE DEF T
  <2>5. CASE \E b \in marked : WordOf(b) >= s
    BY <1>5, <2>1, <2>4, <2>5 DEF LeastFrom
  <2>6. CASE ~ \E b \in marked : WordOf(b) >= s
    BY <1>5, <2>1, <2>4, <2>6 DEF LeastFrom
  <2>. QED  BY <2>5, <2>6
<1>6. 0 \in T
  <2>. SUFFICES ASSUME NEW s \in UpStart, Span + WordBits - s <= 0
                PROVE  LeastFrom(marked, s, h[s])
    OBVIOUS
  <2>1. s \notin 0 .. Span - 1
    BY <1>0
  <2>. QED  BY <1>2, <1>3, <2>1
<1>7. ASSUME NEW n \in Nat, n \in T
      PROVE  n + 1 \in T
  <2>. SUFFICES ASSUME NEW s \in UpStart, Span + WordBits - s <= n + 1
                PROVE  LeastFrom(marked, s, h[s])
    OBVIOUS
  <2>1. CASE s \in Words /\ UpWord(words, s) = {}
    <3>1. UpNext(s) \in UpStart /\ UpNext(s) > s
      BY <2>1, UpStep
    <3>. DEFINE t == UpNext(s)
    <3>0. t \in Nat /\ t > s /\ s \in Nat /\ Span \in Nat /\ WordBits \in Nat
      BY <1>0, <3>1
    <3>. HIDE DEF t
    <3>2. Span + WordBits - t <= n
      BY <3>0
    <3>. QED  BY <1>5, <1>7, <2>1, <3>1, <3>2 DEF t
  <2>. QED  BY <1>3, <1>4, <2>1
<1>. HIDE DEF T
<1>8. \A n \in Nat : n \in T
  BY <1>6, <1>7, SetInduction
<1>. SUFFICES ASSUME NEW s \in UpStart
              PROVE  LeastFrom(marked, s, h[s])
  OBVIOUS
<1>9. Span + WordBits - s \in Nat /\ Span + WordBits - s <= Span + WordBits - s
  BY <1>0
<1>10. Span + WordBits - s \in T
  BY <1>8, <1>9
<1>. QED  BY <1>9, <1>10 DEF T

\* The rescan of an ask side finds the least marked index from where it
\* starts, wherever the words that it skips lie.
LEMMA RescanAskFinds ==
  ASSUME NEW marked, NEW words, Summarises(marked, words), NEW from \in Index
  PROVE  LET r == RescanAsk(marked, words, from)
         IN  IF \E b \in marked : b >= from
             THEN r \in marked /\ \A b \in marked : b >= from => r <= b
             ELSE r = Nil
<1>. DEFINE w == WordOf(from)
            here == {b \in BitsOf(marked, w) : b >= from}
            h == CHOOSE h : UpEquation(marked, words, h)
            r == RescanAsk(marked, words, from)
<1>1. UpEquation(marked, words, h)
  BY UpDefined
<1>2. r = IF here # {} THEN Min(here) ELSE h[w + 1]
  BY RescanAskIs
<1>3. /\ marked \subseteq Index /\ Index \subseteq Nat /\ from \in Nat
      /\ \A b \in marked : WordOf(b) \in Words /\ WordOf(b) \in Nat
  BY SummaryFacts
<1>4. w \in Words /\ w \in Nat
  <2>1. Summarises({from}, {w})
    BY DEF Summarises
  <2>. QED  BY <2>1, SummaryFacts
<1>5. w + 1 \in UpStart
  BY <1>4, UpStep
<1>. HIDE DEF h
<1>6. LeastFrom(marked, w + 1, h[w + 1])
  BY <1>1, <1>5, UpFinds
<1>7. \A b \in marked : WordOf(b) >= w + 1 => b >= from
  <2>. SUFFICES ASSUME NEW b \in marked, WordOf(b) >= w + 1
                PROVE  b >= from
    OBVIOUS
  <2>1. WordOf(from) < WordOf(b) /\ b \in Int /\ from \in Int
    BY <1>3, <1>4
  <2>2. from < b
    BY <2>1, WordMonotone
  <2>. QED  BY <2>1, <2>2
<1>8. \A b \in marked : b >= from => b \in here \/ WordOf(b) >= w + 1
  <2>. SUFFICES ASSUME NEW b \in marked, b >= from, b \notin here
                PROVE  WordOf(b) >= w + 1
    OBVIOUS
  <2>1. WordOf(b) # w
    BY DEF BitsOf
  <2>2. WordOf(from) <= WordOf(b)
    BY <1>3, WordMonotone
  <2>. QED  BY <1>3, <1>4, <2>1, <2>2
<1>9. here \in SUBSET Nat /\ here \subseteq marked /\ \A b \in here : b >= from /\ WordOf(b) = w
  BY <1>3 DEF BitsOf
<1>. HIDE DEF here, r
<1>10. CASE here # {}
  <2>1. r \in here /\ \A b \in here : r <= b
    BY <1>2, <1>9, <1>10, MinFacts
  <2>2. ASSUME NEW b \in marked, WordOf(b) >= w + 1
        PROVE  r <= b
    <3>1. WordOf(r) < WordOf(b) /\ r \in Int /\ b \in Int
      BY <1>3, <1>4, <1>9, <2>1, <2>2
    <3>2. r < b
      BY <3>1, WordMonotone
    <3>. QED  BY <3>1, <3>2
  <2>3. r \in marked /\ r >= from
    BY <1>9, <2>1
  <2>4. \A b \in marked : b >= from => r <= b
    BY <1>8, <2>1, <2>2
  <2>. QED  BY <2>3, <2>4 DEF r
<1>11. CASE here = {}
  <2>1. r = h[w + 1]
    BY <1>2, <1>11
  <2>2. \A b \in marked : b >= from <=> WordOf(b) >= w + 1
    BY <1>7, <1>8, <1>11
  <2>. HIDE DEF w
  <2>3. CASE \E b \in marked : b >= from
    BY <1>6, <2>1, <2>2, <2>3 DEF LeastFrom, r
  <2>4. CASE ~ \E b \in marked : b >= from
    BY <1>6, <2>1, <2>2, <2>4 DEF LeastFrom, r
  <2>. QED  BY <2>3, <2>4
<1>. QED  BY <1>10, <1>11

----------------------------------------------------------------------------
\* The rescan of a bid side: the same walk outward, to the words below.

DownStart == -1 .. Span
DownWord(words, s) == {v \in words : WordOf(v) = WordOf(s) /\ v <= s}
DownNext(s) == WordOf(s) * WordBits - 1

DownEquation(marked, words, h) ==
  h = [s \in DownStart |->
         LET sw    == WordOf(s)
             sword == {v \in words : WordOf(v) = sw /\ v <= s}
         IN  IF s < 0 THEN Nil
             ELSE IF sword # {} THEN Max(BitsOf(marked, Max(sword)))
             ELSE h[sw * WordBits - 1]]

\* The same downwards.
LEMMA RescanBidIs ==
  ASSUME NEW marked, NEW words, NEW from
  PROVE  RescanBid(marked, words, from) =
           LET here == {b \in BitsOf(marked, WordOf(from)) : b <= from}
           IN  IF here # {} THEN Max(here)
               ELSE (CHOOSE h : DownEquation(marked, words, h))[WordOf(from) - 1]
BY DEF RescanBid, DownEquation, DownStart

\* Looking at a word leads to an earlier one.
LEMMA DownStep ==
  ASSUME NEW s \in DownStart, ~(s < 0)
  PROVE  s \in Nat /\ DownNext(s) \in DownStart /\ DownNext(s) < s
<1>1. s \in Nat /\ s <= Span /\ Span \in Nat /\ WordBits \in Nat \ {0}
  BY LadderAssumption DEF DownStart
<1>. DEFINE w == WordOf(s)
            a == w * WordBits
<1>2. a \in Int /\ a <= s /\ s < a + WordBits
  BY <1>1, WordBounds
<1>3. w \in Nat
  BY <1>1, WordSmaller
<1>. HIDE DEF w
<1>4. a >= 0
  BY <1>1, <1>3
<1>. HIDE DEF a
<1>5. a - 1 \in -1 .. Span /\ a - 1 < s
  BY <1>1, <1>2, <1>4
<1>. QED  BY <1>1, <1>5 DEF a, w, DownStart, DownNext

\* The walk is defined ...
LEMMA DownDefined ==
  ASSUME NEW marked, NEW words, Summarises(marked, words)
  PROVE  \E h : DownEquation(marked, words, h)
<1>. DEFINE E == {s \in DownStart : s < 0 \/ DownWord(words, s) # {}}
            m == [s \in DownStart |-> s + 1]
            nx == [s \in DownStart \ E |-> DownNext(s)]
            b == [s \in DownStart |-> IF ~(s < 0) /\ DownWord(words, s) # {}
                                      THEN Max(BitsOf(marked, Max(DownWord(words, s)))) ELSE Nil]
            c == [s \in DownStart |-> 0]
<1>0. Span \in Nat \ {0} /\ WordBits \in Nat \ {0}
  BY LadderAssumption
<1>1. E \subseteq DownStart
  OBVIOUS
<1>2. m \in [DownStart -> Nat]
  BY <1>0 DEF DownStart
<1>3. \A s \in DownStart \ E : ~(s < 0)
  OBVIOUS
<1>4. nx \in [DownStart \ E -> DownStart]
  BY <1>3, DownStep
<1>5. \A s \in DownStart \ E : m[nx[s]] < m[s]
  <2>. SUFFICES ASSUME NEW s \in DownStart \ E
                PROVE  m[nx[s]] < m[s]
    OBVIOUS
  <2>1. nx[s] \in DownStart /\ nx[s] < s /\ s \in Int /\ nx[s] \in Int
    BY <1>0, <1>3, DownStep DEF DownStart
  <2>. HIDE DEF nx
  <2>. QED  BY <1>0, <2>1
<1>6. b \in [DownStart -> Int]
  <2>1. Nil \in Int
    BY DEF Nil
  <2>2. ASSUME NEW s \in DownStart, DownWord(words, s) # {}
        PROVE  Max(BitsOf(marked, Max(DownWord(words, s)))) \in Int
    <3>. DEFINE top == Span - 1
    <3>0. top \in Nat /\ Index = 0 .. top /\ words \subseteq 0 .. top
      BY <1>0, SummaryFacts DEF Index
    <3>. HIDE DEF top
    <3>1. DownWord(words, s) \subseteq 0 .. top /\ DownWord(words, s) \subseteq words
      BY <3>0 DEF DownWord
    <3>2. Max(DownWord(words, s)) \in words
      BY <2>2, <3>0, <3>1, MaxFacts
    <3>. DEFINE W == BitsOf(marked, Max(DownWord(words, s)))
    <3>3. W # {} /\ W \subseteq 0 .. top
      BY <3>0, <3>2, SummaryFacts
    <3>. HIDE DEF W
    <3>4. Max(W) \in W
      BY <3>0, <3>3, MaxFacts
    <3>5. \A x \in W : x \in Int
      BY <3>0, <3>3
    <3>6. Max(W) \in Int
      BY <3>4, <3>5
    <3>. QED  BY <3>6 DEF W
  <2>. QED  BY <2>1, <2>2
<1>7. c \in [DownStart -> Int]
  OBVIOUS
<1>. HIDE DEF E, m, nx, b, c
<1>8. EndingWalk(DownStart, E, m, nx)
  BY <1>1, <1>2, <1>4, <1>5 DEF EndingWalk
<1>9. PICK h : AddsUp(DownStart, E, nx, b, c, h)
  BY <1>6, <1>7, <1>8, WalkDefined
<1>10. /\ h \in [DownStart -> Int]
       /\ \A s \in DownStart : h[s] = IF s \in E THEN b[s] ELSE c[s] + h[nx[s]]
  BY <1>9 DEF AddsUp
<1>11. ASSUME NEW s \in DownStart
       PROVE  h[s] = IF s < 0 THEN Nil
                     ELSE IF DownWord(words, s) # {} THEN Max(BitsOf(marked, Max(DownWord(words, s))))
                     ELSE h[DownNext(s)]
  <2>1. h[s] = IF s \in E THEN b[s] ELSE c[s] + h[nx[s]]
    BY <1>10
  <2>2. CASE s \in E
    BY <2>1, <2>2 DEF E, b
  <2>3. CASE s \notin E
    <3>1. ~(s < 0) /\ DownWord(words, s) = {} /\ nx[s] = DownNext(s) /\ c[s] = 0
      BY <2>3 DEF E, nx, c
    <3>2. DownNext(s) \in DownStart
      BY <3>1, DownStep
    <3>3. h[DownNext(s)] \in Int
      BY <1>10, <3>2
    <3>. QED  BY <2>1, <2>3, <3>1, <3>3
  <2>. QED  BY <2>2, <2>3
<1>12. h = [s \in DownStart |->
              IF s < 0 THEN Nil
              ELSE IF DownWord(words, s) # {} THEN Max(BitsOf(marked, Max(DownWord(words, s))))
              ELSE h[DownNext(s)]]
  BY <1>10, <1>11
<1>. QED  BY <1>12 DEF DownEquation, DownWord, DownNext

\* ... and finds the greatest marked index in the words up to s.
GreatestUpTo(marked, s, r) ==
  IF \E b \in marked : WordOf(b) <= s
  THEN r \in marked /\ WordOf(r) <= s /\ \A b \in marked : WordOf(b) <= s => b <= r
  ELSE r = Nil

LEMMA DownFinds ==
  ASSUME NEW marked, NEW words, Summarises(marked, words),
         NEW h, DownEquation(marked, words, h)
  PROVE  \A s \in DownStart : GreatestUpTo(marked, s, h[s])
<1>. DEFINE top == Span - 1
            T == {n \in Nat : \A s \in DownStart : s + 1 <= n => GreatestUpTo(marked, s, h[s])}
<1>0. DownStart \subseteq Int /\ \A s \in DownStart : s + 1 \in Nat
  BY LadderAssumption DEF DownStart
<1>1. \A s \in DownStart :
        h[s] = IF s < 0 THEN Nil
               ELSE IF DownWord(words, s) # {} THEN Max(BitsOf(marked, Max(DownWord(words, s))))
               ELSE h[DownNext(s)]
  BY DEF DownEquation, DownWord, DownNext
<1>2. /\ top \in Nat /\ words \subseteq 0 .. top /\ words \subseteq Nat /\ marked \subseteq Nat
      /\ \A b \in marked : WordOf(b) \in words
      /\ \A v \in words : BitsOf(marked, v) # {} /\ BitsOf(marked, v) \subseteq 0 .. top
  BY LadderAssumption, SummaryFacts DEF Index
<1>. HIDE DEF top
<1>3. ASSUME NEW s \in DownStart, s < 0
      PROVE  GreatestUpTo(marked, s, h[s])
  <2>1. \A u \in words : ~(u <= s)
    BY <1>0, <1>2, <1>3
  <2>2. h[s] = Nil
    BY <1>1, <1>3
  <2>. QED  BY <1>2, <2>1, <2>2 DEF GreatestUpTo
<1>4. ASSUME NEW s \in DownStart, ~(s < 0), DownWord(words, s) # {}
      PROVE  GreatestUpTo(marked, s, h[s])
  <2>. DEFINE v == Max(DownWord(words, s))
  <2>1. DownWord(words, s) \subseteq 0 .. top
    BY <1>2 DEF DownWord
  <2>2. v \in DownWord(words, s) /\ \A u \in DownWord(words, s) : u <= v
    BY <1>2, <1>4, <2>1, MaxFacts
  <2>4. h[s] = Max(BitsOf(marked, v))
    BY <1>1, <1>4
  <2>. HIDE DEF v
  <2>3. v \in words /\ v \in Nat /\ WordOf(v) = WordOf(s) /\ v <= s /\ s \in Nat
    <3>1. v \in words /\ WordOf(v) = WordOf(s) /\ v <= s
      BY <2>2 DEF DownWord
    <3>2. s \in Nat
      BY <1>0, <1>4
    <3>. QED  BY <1>2, <3>1, <3>2
  <2>. DEFINE B == BitsOf(marked, v)
              r == Max(B)
  <2>5. B # {} /\ B \subseteq 0 .. top
    BY <1>2, <2>3
  <2>6. r \in B /\ \A b \in B : b <= r
    <3>. HIDE DEF B
    <3>. QED  BY <1>2, <2>5, MaxFacts
  <2>. HIDE DEF r
  <2>7. r \in marked /\ WordOf(r) = v /\ r \in Nat
    BY <1>2, <2>6 DEF BitsOf
  <2>8. ASSUME NEW b \in marked, WordOf(b) <= s
        PROVE  b <= r
    <3>. DEFINE u == WordOf(b)
    <3>1. b \in Nat /\ u \in words /\ u \in Nat /\ u <= s
      BY <1>2, <2>8
    <3>. HIDE DEF u
    <3>2. u <= v
      <4>1. CASE WordOf(u) = WordOf(s)
        BY <2>2, <3>1, <4>1 DEF DownWord
      <4>2. CASE WordOf(u) # WordOf(s)
        <5>1. WordOf(u) <= WordOf(s) /\ WordOf(s) \in Int /\ WordOf(u) \in Int
          BY <2>3, <3>1, WordMonotone, WordBounds
        <5>2. WordOf(u) < WordOf(v)
          BY <2>3, <4>2, <5>1
        <5>3. u < v
          BY <2>3, <3>1, <5>2, WordMonotone
        <5>. QED  BY <2>3, <3>1, <5>3
      <4>. QED  BY <4>1, <4>2
    <3>3. CASE u = v
      <4>1. b \in B
        BY <3>3 DEF u, BitsOf
      <4>. QED  BY <2>6, <4>1
    <3>4. CASE u # v
      <4>1. WordOf(b) < WordOf(r)
        BY <2>3, <2>7, <3>1, <3>2, <3>4 DEF u
      <4>2. b < r
        BY <2>7, <3>1, <4>1, WordMonotone
      <4>. QED  BY <2>7, <3>1, <4>2
    <3>. QED  BY <3>3, <3>4
  <2>9. h[s] = r /\ WordOf(r) <= s
    BY <2>3, <2>4, <2>7 DEF r
  <2>. QED  BY <2>7, <2>8, <2>9 DEF GreatestUpTo
<1>5. ASSUME NEW s \in DownStart, ~(s < 0), DownWord(words, s) = {},
             GreatestUpTo(marked, DownNext(s), h[DownNext(s)])
      PROVE  GreatestUpTo(marked, s, h[s])
  <2>1. h[s] = h[DownNext(s)]
    BY <1>1, <1>5
  <2>2. s \in Nat /\ DownNext(s) \in Int /\ DownNext(s) < s
    BY <1>0, <1>5, DownStep
  <2>3. ASSUME NEW u \in words
        PROVE  u <= s <=> u <= DownNext(s)
    <3>1. u \in Nat
      BY <1>2
    <3>2. u <= DownNext(s) => u <= s
      BY <2>2, <3>1
    <3>3. ASSUME u <= s
          PROVE  u <= DownNext(s)
      <4>1. WordOf(u) # WordOf(s)
        BY <1>5, <3>3 DEF DownWord
      <4>2. WordOf(u) <= WordOf(s) /\ WordOf(s) \in Int /\ WordOf(u) \in Int
        BY <2>2, <3>1, <3>3, WordMonotone, WordBounds
      <4>3. WordOf(u) < WordOf(s)
        BY <4>1, <4>2
      <4>. QED  BY <2>2, <3>1, <4>3, WordMonotone DEF DownNext
    <3>. QED  BY <3>2, <3>3
  <2>4. \A b \in marked : WordOf(b) <= s <=> WordOf(b) <= DownNext(s)
    BY <1>2, <2>3
  <2>. HIDE DEF T
  <2>5. CASE \E b \in marked : WordOf(b) <= s
    BY <1>5, <2>1, <2>4, <2>5 DEF GreatestUpTo
  <2>6. CASE ~ \E b \in marked : WordOf(b) <= s
    BY <1>5, <2>1, <2>4, <2>6 DEF GreatestUpTo
  <2>. QED  BY <2>5, <2>6
<1>6. 0 \in T
  <2>1. \A s \in DownStart : s + 1 <= 0 => s < 0
    BY <1>0
  <2>. QED  BY <1>3, <2>1
<1>7. ASSUME NEW n \in Nat, n \in T
      PROVE  n + 1 \in T
  <2>. SUFFICES ASSUME NEW s \in DownStart, s + 1 <= n + 1
                PROVE  GreatestUpTo(marked, s, h[s])
    OBVIOUS
  <2>1. CASE ~(s < 0) /\ DownWord(words, s) = {}
    <3>1. s \in Nat /\ DownNext(s) \in DownStart /\ DownNext(s) \in Int /\ DownNext(s) < s
      BY <1>0, <2>1, DownStep
    <3>. DEFINE t == DownNext(s)
    <3>. HIDE DEF t
    <3>2. t + 1 <= n
      <4>1. t \in Int /\ t < s
        BY <3>1 DEF t
      <4>. QED  BY <3>1, <4>1
    <3>. QED  BY <1>5, <1>7, <2>1, <3>1, <3>2 DEF t
  <2>. QED  BY <1>3, <1>4, <2>1
<1>. HIDE DEF T
<1>8. \A n \in Nat : n \in T
  BY <1>6, <1>7, SetInduction
<1>. SUFFICES ASSUME NEW s \in DownStart
              PROVE  GreatestUpTo(marked, s, h[s])
  OBVIOUS
<1>9. s + 1 \in Nat /\ s + 1 <= s + 1
  BY <1>0
<1>10. s + 1 \in T
  BY <1>8, <1>9
<1>. QED  BY <1>9, <1>10 DEF T

\* The rescan of a bid side finds the greatest marked index up to where it
\* starts.
LEMMA RescanBidFinds ==
  ASSUME NEW marked, NEW words, Summarises(marked, words), NEW from \in Index
  PROVE  LET r == RescanBid(marked, words, from)
         IN  IF \E b \in marked : b <= from
             THEN r \in marked /\ \A b \in marked : b <= from => b <= r
             ELSE r = Nil
<1>. DEFINE top == Span - 1
            w == WordOf(from)
            here == {b \in BitsOf(marked, w) : b <= from}
            h == CHOOSE h : DownEquation(marked, words, h)
            r == RescanBid(marked, words, from)
<1>1. DownEquation(marked, words, h)
  BY DownDefined
<1>2. r = IF here # {} THEN Max(here) ELSE h[w - 1]
  BY RescanBidIs
<1>3. /\ top \in Nat /\ marked \subseteq 0 .. top /\ marked \subseteq Nat /\ from \in 0 .. top
      /\ \A b \in marked : WordOf(b) \in Words /\ WordOf(b) \in Nat
  BY LadderAssumption, SummaryFacts DEF Index
<1>4. w \in Nat /\ w - 1 \in DownStart
  <2>1. w \in 0 .. from
    BY <1>3, WordSmaller
  <2>. HIDE DEF w
  <2>. QED  BY <1>3, <2>1, LadderAssumption DEF DownStart
<1>. HIDE DEF h, top
<1>6. GreatestUpTo(marked, w - 1, h[w - 1])
  BY <1>1, <1>4, DownFinds
<1>7. \A b \in marked : WordOf(b) <= w - 1 => b <= from
  <2>. SUFFICES ASSUME NEW b \in marked, WordOf(b) <= w - 1
                PROVE  b <= from
    OBVIOUS
  <2>1. WordOf(b) < WordOf(from) /\ b \in Int /\ from \in Int
    BY <1>3, <1>4
  <2>2. b < from
    BY <2>1, WordMonotone
  <2>. QED  BY <2>1, <2>2
<1>8. \A b \in marked : b <= from => b \in here \/ WordOf(b) <= w - 1
  <2>. SUFFICES ASSUME NEW b \in marked, b <= from, b \notin here
                PROVE  WordOf(b) <= w - 1
    OBVIOUS
  <2>1. WordOf(b) # w
    BY DEF BitsOf
  <2>2. WordOf(b) <= WordOf(from)
    BY <1>3, WordMonotone
  <2>. QED  BY <1>3, <1>4, <2>1, <2>2
<1>9. here \subseteq 0 .. top /\ here \subseteq marked /\ \A b \in here : b <= from /\ WordOf(b) = w
  BY <1>3 DEF BitsOf
<1>. HIDE DEF here, r
<1>10. CASE here # {}
  <2>1. r \in here /\ \A b \in here : b <= r
    BY <1>2, <1>3, <1>9, <1>10, MaxFacts
  <2>2. ASSUME NEW b \in marked, WordOf(b) <= w - 1
        PROVE  b <= r
    <3>1. WordOf(b) < WordOf(r) /\ r \in Int /\ b \in Int
      BY <1>3, <1>4, <1>9, <2>1, <2>2
    <3>2. b < r
      BY <3>1, WordMonotone
    <3>. QED  BY <3>1, <3>2
  <2>3. r \in marked /\ r <= from
    BY <1>9, <2>1
  <2>4. \A b \in marked : b <= from => b <= r
    BY <1>8, <2>1, <2>2
  <2>. QED  BY <2>3, <2>4 DEF r
<1>11. CASE here = {}
  <2>1. r = h[w - 1]
    BY <1>2, <1>11
  <2>2. \A b \in marked : b <= from <=> WordOf(b) <= w - 1
    BY <1>7, <1>8, <1>11
  <2>. HIDE DEF w
  <2>3. CASE \E b \in marked : b <= from
    BY <1>6, <2>1, <2>2, <2>3 DEF GreatestUpTo, r
  <2>4. CASE ~ \E b \in marked : b <= from
    BY <1>6, <2>1, <2>2, <2>4 DEF GreatestUpTo, r
  <2>. QED  BY <2>3, <2>4
<1>. QED  BY <1>10, <1>11

----------------------------------------------------------------------------
\* The inductive invariant

LadderInv == TypeOK /\ BestExact /\ BitmapExact

LEMMA NonEmptyFinite ==
  ASSUME NEW S, S \subseteq Index
  PROVE  IsFiniteSet(S) /\ Cardinality(S) \in 0 .. Span /\ (Cardinality(S) = 0 <=> S = {})
<1>1. IsFiniteSet(Index) /\ Cardinality(Index) = Span /\ Span \in Nat
  BY FS_Interval, LadderAssumption DEF Index
<1>2. IsFiniteSet(S) /\ Cardinality(S) <= Cardinality(Index)
  BY <1>1, FS_Subset
<1>. QED  BY <1>1, <1>2, FS_CardinalityType, FS_EmptySet

LEMMA LadderInit == Init => LadderInv
<1>. SUFFICES ASSUME Init
              PROVE  LadderInv
  OBVIOUS
<1>. USE LadderAssumption
<1>1. NonEmpty = {}
  BY DEF Init, NonEmpty
<1>2. TypeOK
  BY DEF Init, TypeOK
<1>3. BestExact
  BY <1>1 DEF Init, BestExact
<1>4. BitmapExact
  BY <1>1, FS_EmptySet DEF Init, BitmapExact
<1>. QED  BY <1>2, <1>3, <1>4 DEF LadderInv

\* An order that enters a level leaves the index exact.
LEMMA EnterStep ==
  ASSUME LadderInv, NEW i \in Index, Enter(i)
  PROVE  LadderInv'
<1>. USE DEF LadderInv
<1>0. /\ LevelMax \in Nat /\ Index \subseteq Nat /\ levels \in [Index -> 0 .. LevelMax]
      /\ NonEmpty \subseteq Index /\ NonEmpty' \subseteq Index
  BY LadderAssumption DEF TypeOK, NonEmpty, Index
<1>1. levels' = [levels EXCEPT ![i] = @ + 1] /\ levels' \in [Index -> 0 .. LevelMax] /\ side' = side
  BY <1>0 DEF Enter
<1>2. NonEmpty' = NonEmpty \cup {i}
  BY <1>0, <1>1 DEF NonEmpty
<1>3. levels[i] = 0 <=> i \notin NonEmpty
  BY <1>0 DEF NonEmpty
<1>4. BitmapExact'
  <2>1. CASE levels[i] = 0
    <3>1. IsFiniteSet(NonEmpty) /\ Cardinality(NonEmpty) = count
      BY <1>0, NonEmptyFinite DEF BitmapExact
    <3>2. Cardinality(NonEmpty') = count + 1
      BY <1>2, <1>3, <2>1, <3>1, FS_AddElement
    <3>. QED  BY <1>2, <2>1, <3>2 DEF Enter, BitmapExact
  <2>2. CASE levels[i] # 0
    <3>1. NonEmpty' = NonEmpty
      BY <1>2, <1>3, <2>2
    <3>. QED  BY <2>2, <3>1 DEF Enter, BitmapExact
  <2>. QED  BY <2>1, <2>2
<1>5. BestExact'
  <2>1. CASE levels[i] = 0
    <3>1. best' = IF best = Nil \/ IsBetter(i, best) THEN i ELSE best
      BY <2>1 DEF Enter
    <3>2. \A x, y \in Index : IsBetter(x, y)' = IsBetter(x, y)
      BY <1>1 DEF IsBetter
    <3>3. \A x, y, z \in Index : /\ IsBetter(x, y) /\ IsBetter(y, z) => IsBetter(x, z)
                                 /\ ~IsBetter(x, x)
                                 /\ IsBetter(x, y) => ~IsBetter(y, x)
      BY <1>0 DEF IsBetter
    <3>4. \A x \in Index : x # Nil
      BY <1>0 DEF Nil
    <3>5. best \in Index \cup {Nil}
      BY DEF TypeOK
    <3>6. best' # Nil /\ best' \in NonEmpty'
      BY <1>2, <3>1, <3>4 DEF BestExact
    <3>7. ASSUME NEW x \in NonEmpty'
          PROVE  ~IsBetter(x, best')
      <4>1. x \in Index /\ best' \in Index
        BY <1>0, <3>6
      <4>2. CASE best = Nil
        BY <1>2, <2>1, <3>1, <3>3, <4>1, <4>2 DEF BestExact
      <4>3. CASE best # Nil /\ IsBetter(i, best)
        <5>1. x \in NonEmpty => ~IsBetter(x, best)
          BY <4>3 DEF BestExact
        <5>2. best \in Index
          BY <3>5, <4>3
        <5>. QED  BY <1>2, <3>1, <3>3, <4>1, <4>3, <5>1, <5>2
      <4>4. CASE best # Nil /\ ~IsBetter(i, best)
        BY <1>2, <3>1, <4>4 DEF BestExact
      <4>. QED  BY <4>2, <4>3, <4>4
    <3>8. \A x \in NonEmpty' : ~IsBetter(x, best)'
      BY <1>1, <3>7 DEF IsBetter
    <3>. QED  BY <3>6, <3>8 DEF BestExact
  <2>2. CASE levels[i] # 0
    <3>1. NonEmpty' = NonEmpty
      BY <1>2, <1>3, <2>2
    <3>. QED  BY <1>1, <2>2, <3>1 DEF Enter, BestExact, IsBetter
  <2>. QED  BY <2>1, <2>2
<1>6. TypeOK'
  <2>1. Summarises(NonEmpty', summary')
    BY <1>0, <1>4 DEF Summarises, BitmapExact
  <2>2. summary' \subseteq Words /\ bits' \subseteq Index
    BY <1>0, <1>4, <2>1, SummaryFacts DEF BitmapExact
  <2>3. count' \in 0 .. Span
    BY <1>0, <1>4, NonEmptyFinite DEF BitmapExact
  <2>4. best' \in Index \cup {Nil}
    BY <1>0, <1>5 DEF BestExact
  <2>. QED  BY <1>1, <2>2, <2>3, <2>4 DEF TypeOK
<1>. QED  BY <1>4, <1>5, <1>6

\* An order that leaves a level leaves the index exact.
LEMMA VacateStep ==
  ASSUME LadderInv, NEW i \in Index, Vacate(i)
  PROVE  LadderInv'
<1>. USE DEF LadderInv
<1>0. /\ LevelMax \in Nat /\ Index \subseteq Nat /\ levels \in [Index -> 0 .. LevelMax]
      /\ NonEmpty \subseteq Index /\ NonEmpty' \subseteq Index
  BY LadderAssumption DEF TypeOK, NonEmpty, Index
<1>1. levels' = [levels EXCEPT ![i] = @ - 1] /\ levels' \in [Index -> 0 .. LevelMax] /\ side' = side
  BY <1>0 DEF Vacate
<1>2. i \in NonEmpty /\ NonEmpty' = IF levels[i] > 1 THEN NonEmpty ELSE NonEmpty \ {i}
  BY <1>0, <1>1 DEF NonEmpty, Vacate
<1>4. BitmapExact'
  <2>1. CASE ~(levels[i] > 1)
    <3>1. IsFiniteSet(NonEmpty) /\ Cardinality(NonEmpty) = count
      BY <1>0, NonEmptyFinite DEF BitmapExact
    <3>2. Cardinality(NonEmpty') = count - 1
      BY <1>2, <2>1, <3>1, FS_RemoveElement
    <3>3. bits' = NonEmpty'
      BY <1>2, <2>1 DEF Vacate, BitmapExact
    <3>4. summary' = {WordOf(j) : j \in NonEmpty'}
      <4>1. summary' = WordSettled(bits', WordOf(i))
        BY <2>1 DEF Vacate
      <4>2. summary = {WordOf(j) : j \in NonEmpty} /\ bits' = NonEmpty \ {i}
        BY <1>2, <2>1, <3>3 DEF BitmapExact
      <4>. QED  BY <1>2, <2>1, <4>1, <4>2 DEF WordSettled, BitsOf
    <3>. QED  BY <2>1, <3>2, <3>3, <3>4 DEF Vacate, CountDown, BitmapExact
  <2>2. CASE levels[i] > 1
    BY <1>2, <2>2 DEF Vacate, BitmapExact
  <2>. QED  BY <2>1, <2>2
<1>5. BestExact'
  <2>1. CASE ~(levels[i] > 1)
    <3>1. best' = IF count' = 0 THEN Nil ELSE BestWithout(i, bits', summary')
      BY <2>1 DEF Vacate
    <3>2. bits' = NonEmpty' /\ (count' = 0 <=> NonEmpty' = {}) /\ Summarises(bits', summary')
      BY <1>0, <1>4, NonEmptyFinite DEF BitmapExact, Summarises
    <3>3. NonEmpty' = NonEmpty \ {i}
      BY <1>2, <2>1
    <3>4. best # Nil /\ best \in NonEmpty /\ \A x \in NonEmpty : ~IsBetter(x, best)
      BY <1>2 DEF BestExact
    <3>6. \A x \in Index : x # Nil
      BY <1>0 DEF Nil
    <3>7. CASE NonEmpty' = {}
      BY <3>1, <3>2, <3>7 DEF BestExact
    <3>8. CASE NonEmpty' # {} /\ i # best
      <4>1. best' = best
        BY <3>1, <3>2, <3>8 DEF BestWithout
      <4>2. best' \in NonEmpty' /\ \A x \in NonEmpty' : ~IsBetter(x, best')
        BY <3>3, <3>4, <3>8, <4>1
      <4>3. \A x \in NonEmpty' : ~IsBetter(x, best)'
        BY <1>1, <4>2 DEF IsBetter
      <4>4. best' # Nil
        BY <3>4, <4>1
      <4>. QED  BY <3>8, <4>2, <4>3, <4>4 DEF BestExact
    <3>9. CASE NonEmpty' # {} /\ i = best
      <4>1. best' = Rescan(bits', summary', i)
        BY <3>1, <3>2, <3>9 DEF BestWithout
      <4>. DEFINE marked == bits'
                  words == summary'
                  r == Rescan(marked, words, i)
      <4>2. marked # {} /\ marked \subseteq NonEmpty /\ Summarises(marked, words)
        BY <3>2, <3>3, <3>9
      <4>. HIDE DEF marked, words
      <4>3. r \in marked /\ \A x \in marked : ~IsBetter(x, r)
        <5>1. CASE side = "bid"
          <6>1. \A x \in marked : x <= i
            BY <1>0, <3>4, <3>9, <4>2, <5>1 DEF IsBetter
          <6>2. r = RescanBid(marked, words, i)
            BY <5>1 DEF Rescan
          <6>3. r \in marked /\ \A x \in marked : x <= i => x <= r
            BY <4>2, <6>1, <6>2, RescanBidFinds
          <6>. HIDE DEF r
          <6>4. r \in Int /\ \A x \in marked : x \in Int
            <7>1. \A x \in marked : x \in Int
              BY <1>0, <4>2
            <7>. QED  BY <6>3, <7>1
          <6>. QED  BY <5>1, <6>1, <6>3, <6>4 DEF IsBetter
        <5>2. CASE side # "bid"
          <6>1. \A x \in marked : x >= i
            BY <1>0, <3>4, <3>9, <4>2, <5>2 DEF IsBetter
          <6>2. r = RescanAsk(marked, words, i)
            BY <5>2 DEF Rescan
          <6>3. r \in marked /\ \A x \in marked : x >= i => r <= x
            BY <4>2, <6>1, <6>2, RescanAskFinds
          <6>. HIDE DEF r
          <6>4. r \in Int /\ \A x \in marked : x \in Int
            <7>1. \A x \in marked : x \in Int
              BY <1>0, <4>2
            <7>. QED  BY <6>3, <7>1
          <6>. QED  BY <5>2, <6>1, <6>3, <6>4 DEF IsBetter
        <5>. QED  BY <5>1, <5>2
      <4>4. best' = r /\ NonEmpty' = marked
        BY <3>2, <4>1 DEF marked, words
      <4>. HIDE DEF r
      <4>5. best' \in NonEmpty' /\ \A x \in NonEmpty' : ~IsBetter(x, best')
        BY <4>3, <4>4
      <4>6. \A x \in NonEmpty' : ~IsBetter(x, best)'
        BY <1>1, <4>5 DEF IsBetter
      <4>7. best' # Nil
        BY <1>0, <3>6, <4>5
      <4>. QED  BY <3>9, <4>5, <4>6, <4>7 DEF BestExact
    <3>. QED  BY <3>7, <3>8, <3>9
  <2>2. CASE levels[i] > 1
    BY <1>1, <1>2, <2>2 DEF Vacate, BestExact, IsBetter
  <2>. QED  BY <2>1, <2>2
<1>6. TypeOK'
  <2>1. Summarises(NonEmpty', summary')
    BY <1>0, <1>4 DEF Summarises, BitmapExact
  <2>2. summary' \subseteq Words /\ bits' \subseteq Index
    BY <1>0, <1>4, <2>1, SummaryFacts DEF BitmapExact
  <2>3. count' \in 0 .. Span
    BY <1>0, <1>4, NonEmptyFinite DEF BitmapExact
  <2>4. best' \in Index \cup {Nil}
    BY <1>0, <1>5 DEF BestExact
  <2>5. side' \in {"bid", "ask"}
    BY <1>1 DEF TypeOK
  <2>. QED  BY <1>1, <2>2, <2>3, <2>4, <2>5 DEF TypeOK
<1>. QED  BY <1>4, <1>5, <1>6

LEMMA LadderInvariant == Spec => []LadderInv
<1>1. LadderInv /\ [Next]_vars => LadderInv'
  <2>. SUFFICES ASSUME LadderInv, [Next]_vars
                PROVE  LadderInv'
    OBVIOUS
  <2>1. CASE Next
    BY <2>1, EnterStep, VacateStep DEF Next
  <2>2. CASE UNCHANGED vars
    BY <2>2 DEF vars, LadderInv, TypeOK, BestExact, BitmapExact, NonEmpty, IsBetter
  <2>. QED  BY <2>1, <2>2
<1>. QED  BY <1>1, LadderInit, PTL DEF Spec

----------------------------------------------------------------------------
\* The theorems

\* The state of the index has its type: indexes, words and the count stay in
\* range, so that no access of the arrays is out of bounds.
THEOREM LadderTyped == Spec => []TypeOK
<1>1. LadderInv => TypeOK
  BY DEF LadderInv
<1>. QED  BY <1>1, LadderInvariant, PTL

\* Bitmap, summary and count always say which levels hold orders.
THEOREM LadderBitmapExact == Spec => []BitmapExact
<1>1. LadderInv => BitmapExact
  BY DEF LadderInv
<1>. QED  BY <1>1, LadderInvariant, PTL

\* The cursor is always on the best level that holds orders.
THEOREM LadderBestExact == Spec => []BestExact
<1>1. LadderInv => BestExact
  BY DEF LadderInv
<1>. QED  BY <1>1, LadderInvariant, PTL

----------------------------------------------------------------------------
\* The fill-or-kill sum

SumStart == 0 .. Span + WordBits
SumWord(lo, hi) == {b \in BitsOf(bits, WordOf(lo)) : b >= lo /\ b <= hi}

SumWalk(hi, h) ==
  h = [i \in SumStart |->
         LET word == {b \in BitsOf(bits, WordOf(i)) : b >= i /\ b <= hi}
         IN  IF i > hi THEN 0
             ELSE SumFunctionOnSet(levels, word) + h[WordOf(i) * WordBits + WordBits]]

\* The walk of sum_range solves its equation ...
LEMMA SumRangeIs ==
  ASSUME NEW lo, NEW hi
  PROVE  SumRange(lo, hi) = (CHOOSE h : SumWalk(hi, h))[lo]
BY DEF SumRange, SumWalk, SumStart

\* The walk goes to the start of the next word while it is in the range.
LEMMA SumStep ==
  ASSUME NEW hi \in Index, NEW i \in SumStart, ~(i > hi)
  PROVE  i \in Index /\ UpNext(i) \in SumStart /\ UpNext(i) > i
<1>1. /\ Span \in Nat \ {0} /\ WordBits \in Nat \ {0}
      /\ i \in Nat /\ hi \in Nat /\ hi <= Span - 1 /\ i <= hi
  BY LadderAssumption DEF Index, SumStart
<1>. DEFINE a == WordOf(i) * WordBits
<1>2. a \in Int /\ a <= i /\ i < a + WordBits
  BY <1>1, WordBounds
<1>. HIDE DEF a
<1>3. a + WordBits \in 0 .. Span + WordBits /\ a + WordBits > i
  BY <1>1, <1>2
<1>. QED  BY <1>1, <1>3 DEF a, UpNext, SumStart, Index

\* ... which has a solution.
LEMMA SumWalkDefined ==
  ASSUME LadderInv, NEW hi \in Index
  PROVE  \E h : SumWalk(hi, h) /\ h \in [SumStart -> Int]
<1>. DEFINE E == {i \in SumStart : i > hi}
            m == [i \in SumStart |-> Span + WordBits - i]
            nx == [i \in SumStart \ E |-> UpNext(i)]
            b == [i \in SumStart |-> 0]
            c == [i \in SumStart |-> SumFunctionOnSet(levels, SumWord(i, hi))]
<1>0. /\ Span \in Nat \ {0} /\ WordBits \in Nat \ {0}
      /\ levels \in [Index -> Int] /\ bits \subseteq Index
  BY LadderAssumption DEF LadderInv, TypeOK
<1>1. m \in [SumStart -> Nat]
  BY <1>0 DEF SumStart
<1>2. nx \in [SumStart \ E -> SumStart]
  BY SumStep
<1>3. \A i \in SumStart \ E : m[nx[i]] < m[i]
  <2>. SUFFICES ASSUME NEW i \in SumStart \ E
                PROVE  m[nx[i]] < m[i]
    OBVIOUS
  <2>1. nx[i] \in SumStart /\ nx[i] > i /\ i \in Int /\ nx[i] \in Int
    BY <1>0, SumStep DEF SumStart
  <2>. HIDE DEF nx
  <2>. QED  BY <1>0, <2>1
<1>4. b \in [SumStart -> Int]
  OBVIOUS
<1>5. c \in [SumStart -> Int]
  <2>1. \A i \in SumStart : SumWord(i, hi) \in SUBSET Index
    BY <1>0 DEF SumWord, BitsOf
  <2>2. IsFiniteSet(Index)
    BY FS_Interval, LadderAssumption DEF Index
  <2>3. \A S \in SUBSET Index : SumFunctionOnSet(levels, S) \in Int
    BY <1>0, <2>2, SumFacts
  <2>. QED  BY <2>1, <2>3
<1>. HIDE DEF m, nx, b, c
<1>6. EndingWalk(SumStart, E, m, nx)
  BY <1>1, <1>2, <1>3 DEF EndingWalk
<1>. HIDE DEF E
<1>7. PICK h : AddsUp(SumStart, E, nx, b, c, h)
  BY <1>4, <1>5, <1>6, WalkDefined
<1>8. /\ h \in [SumStart -> Int]
      /\ \A i \in SumStart : h[i] = IF i \in E THEN b[i] ELSE c[i] + h[nx[i]]
  BY <1>7 DEF AddsUp
<1>9. \A i \in SumStart :
        h[i] = IF i > hi THEN 0 ELSE SumFunctionOnSet(levels, SumWord(i, hi)) + h[UpNext(i)]
  BY <1>8 DEF E, nx, b, c
<1>10. h = [i \in SumStart |->
              IF i > hi THEN 0 ELSE SumFunctionOnSet(levels, SumWord(i, hi)) + h[UpNext(i)]]
  BY <1>8, <1>9
<1>11. SumWalk(hi, h)
  BY <1>10 DEF SumWalk, SumWord, UpNext
<1>. QED  BY <1>8, <1>11

\* The walk sums the marked levels of the range, and those that are not
\* marked hold nothing.
LEMMA SumRangeFinds ==
  ASSUME LadderInv, NEW lo \in Index, NEW hi \in Index
  PROVE  SumRange(lo, hi) = SumFunctionOnSet(levels, {i \in Index : lo <= i /\ i <= hi})
<1>. DEFINE h == CHOOSE h : SumWalk(hi, h)
            Rest(i) == {b \in bits : i <= b /\ b <= hi}
            Total(S) == SumFunctionOnSet(levels, S)
            T == {n \in Nat : \A i \in SumStart : Span + WordBits - i <= n => h[i] = Total(Rest(i))}
<1>0. /\ Span \in Nat \ {0} /\ WordBits \in Nat \ {0} /\ SumStart \subseteq Nat
      /\ levels \in [Index -> Nat] /\ levels \in [Index -> Int]
      /\ bits \subseteq Index /\ Index \subseteq Nat
      /\ IsFiniteSet(Index) /\ hi \in Nat /\ hi <= Span - 1 /\ lo \in SumStart
      /\ \A i \in SumStart : i <= Span + WordBits
  <2>1. Span \in Nat \ {0} /\ WordBits \in Nat \ {0} /\ LevelMax \in Nat
    BY LadderAssumption
  <2>2. IsFiniteSet(Index) /\ Index \subseteq Nat
    BY <2>1, FS_Interval DEF Index
  <2>3. SumStart \subseteq Nat /\ lo \in SumStart /\ \A i \in SumStart : i <= Span + WordBits
    BY <2>1 DEF Index, SumStart
  <2>4. hi \in Nat /\ hi <= Span - 1
    BY <2>1 DEF Index
  <2>5. levels \in [Index -> 0 .. LevelMax] /\ bits \subseteq Index
    BY DEF LadderInv, TypeOK
  <2>6. levels \in [Index -> Nat] /\ levels \in [Index -> Int]
    BY <2>1, <2>5
  <2>. QED  BY <2>1, <2>2, <2>3, <2>4, <2>5, <2>6
<1>1. SumWalk(hi, h)
  BY SumWalkDefined
<1>2. \A i \in SumStart :
        h[i] = IF i > hi THEN 0 ELSE Total(SumWord(i, hi)) + h[UpNext(i)]
  BY <1>1 DEF SumWalk, SumWord, UpNext
<1>. HIDE DEF h
<1>3. ASSUME NEW i \in SumStart, i > hi
      PROVE  h[i] = Total(Rest(i))
  <2>1. Rest(i) = {}
    <3>. SUFFICES ASSUME NEW b \in bits, i <= b, b <= hi
                  PROVE  FALSE
      OBVIOUS
    <3>1. b \in Nat /\ i \in Nat /\ hi \in Nat
      BY <1>0
    <3>. QED  BY <1>3, <3>1
  <2>2. SumFunctionOnSet(levels, {}) = 0
    BY <1>0, SumFacts
  <2>. QED  BY <1>2, <1>3, <2>1, <2>2
<1>4. ASSUME NEW i \in SumStart, ~(i > hi), h[UpNext(i)] = Total(Rest(UpNext(i)))
      PROVE  h[i] = Total(Rest(i))
  <2>. DEFINE W == SumWord(i, hi)
              R == Rest(UpNext(i))
              n == UpNext(i)
  <2>1. i \in Nat /\ n \in Nat /\ n > i
    BY <1>0, <1>4, SumStep
  <2>2. \A b \in bits : b >= n <=> WordOf(b) > WordOf(i)
    BY <1>0, <2>1, WordMonotone DEF UpNext
  <2>3. \A b \in bits : b >= i => WordOf(i) <= WordOf(b)
    BY <1>0, <2>1, WordMonotone
  <2>4. \A b \in bits : b \in Nat /\ WordOf(b) \in Int
    BY <1>0, WordBounds
  <2>5. WordOf(i) \in Int
    BY <2>1, WordBounds
  <2>. HIDE DEF n
  <2>6. ASSUME NEW b \in bits
        PROVE  /\ b >= i <=> b >= n \/ (WordOf(b) = WordOf(i) /\ b >= i)
               /\ ~(b >= n /\ WordOf(b) = WordOf(i))
    BY <2>1, <2>2, <2>3, <2>4, <2>5
  <2>7. Rest(i) = W \cup R /\ W \cap R = {} /\ W \in SUBSET Index /\ R \in SUBSET Index
    BY <1>0, <2>1, <2>4, <2>6 DEF SumWord, BitsOf, n
  <2>. HIDE DEF W, R
  <2>8. SumFunctionOnSet(levels, W \cup R) = SumFunctionOnSet(levels, W) + SumFunctionOnSet(levels, R)
    <3>1. IsFiniteSet(Index) /\ levels \in [Index -> Int]
      BY <1>0
    <3>2. W \cap R = {} /\ W \in SUBSET Index /\ R \in SUBSET Index
      BY <2>7
    <3>. QED  BY <3>1, <3>2, SumSplit
  <2>9. h[i] = SumFunctionOnSet(levels, W) + SumFunctionOnSet(levels, R)
    BY <1>2, <1>4 DEF W, R
  <2>. QED  BY <2>7, <2>8, <2>9
<1>5. 0 \in T
  <2>. SUFFICES ASSUME NEW i \in SumStart, Span + WordBits - i <= 0
                PROVE  h[i] = Total(Rest(i))
    OBVIOUS
  <2>1. i > hi
    BY <1>0
  <2>. QED  BY <1>3, <2>1
<1>6. ASSUME NEW n \in Nat, n \in T
      PROVE  n + 1 \in T
  <2>. SUFFICES ASSUME NEW i \in SumStart, Span + WordBits - i <= n + 1
                PROVE  h[i] = Total(Rest(i))
    OBVIOUS
  <2>1. CASE ~(i > hi)
    <3>. DEFINE t == UpNext(i)
    <3>1. t \in SumStart /\ t > i /\ t \in Nat /\ i \in Nat
      BY <1>0, <2>1, SumStep
    <3>. HIDE DEF t
    <3>2. Span + WordBits - t <= n
      BY <1>0, <3>1
    <3>3. h[t] = Total(Rest(t))
      BY <1>6, <3>1, <3>2
    <3>. QED  BY <1>4, <2>1, <3>3 DEF t
  <2>. QED  BY <1>3, <2>1
<1>. HIDE DEF T, Rest
<1>7. \A n \in Nat : n \in T
  BY <1>5, <1>6, SetInduction
<1>8. Span + WordBits - lo \in Nat /\ Span + WordBits - lo <= Span + WordBits - lo
  BY <1>0
<1>9. Span + WordBits - lo \in T
  BY <1>7, <1>8
<1>10. h[lo] = Total(Rest(lo))
  BY <1>0, <1>8, <1>9 DEF T
<1>11. SumRange(lo, hi) = Total(Rest(lo))
  BY <1>10, SumRangeIs DEF h
<1>. DEFINE S == Rest(lo)
            A == {i \in Index : lo <= i /\ i <= hi}
<1>12. A \in SUBSET Index /\ S \in SUBSET A /\ \A x \in A \ S : levels[x] = 0
  <2>1. \A x \in Index : x \in bits \/ levels[x] = 0
    BY <1>0 DEF LadderInv, BitmapExact, NonEmpty
  <2>. QED  BY <1>0, <2>1 DEF Rest
<1>. HIDE DEF S, A
<1>13. SumFunctionOnSet(levels, S) = SumFunctionOnSet(levels, A)
  <2>1. IsFiniteSet(Index) /\ levels \in [Index -> Nat]
    BY <1>0
  <2>2. A \in SUBSET Index /\ S \in SUBSET A
    BY <1>12
  <2>. QED  BY <1>12, <2>1, <2>2, SumParts
<1>. QED  BY <1>11, <1>13 DEF S, A

\* The sum that a fill-or-kill check takes over the bitmap, word by word with
\* the first and the last word masked, is the sum over the levels.
THEOREM LadderSumExact == Spec => []SumRangeExact
<1>1. LadderInv => SumRangeExact
  BY SumRangeFinds DEF SumRangeExact
<1>. QED  BY <1>1, LadderInvariant, PTL

----------------------------------------------------------------------------
\* The barrier of the benchmark

\* The workers that have announced themselves.
Announced == {w \in Worker : pc[w] \in {"spinning", "timed", "done"}}

\* ready counts exactly the announced workers, so that main sees Threads of
\* them only when it has spawned all and all have built their books; what it
\* has joined is done, and it joins only what it has released.
BarrierInv ==
  /\ BenchTypeOK
  /\ ready = Cardinality(Announced)
  /\ \A w \in Worker : w > spawned => pc[w] = "unborn"
  /\ \A w \in Worker : pc[w] \in {"timed", "done"} => go
  /\ go => Announced = Worker
  /\ \A w \in Worker : w <= joined => pc[w] = "done"
  /\ joined > 0 => go
  /\ spawned > 0 => rep <= Reps

\* The announced are workers: when there are Threads of them, they are all.
LEMMA AnnouncedFinite ==
  /\ IsFiniteSet(Worker) /\ Cardinality(Worker) = Threads
  /\ IsFiniteSet(Announced)
  /\ Cardinality(Announced) \in 0 .. Threads
  /\ Cardinality(Announced) >= Threads => Announced = Worker
<1>1. IsFiniteSet(Worker) /\ Cardinality(Worker) = Threads
  BY FS_Interval, BarrierAssumption DEF Worker
<1>2. Announced \subseteq Worker
  BY DEF Announced
<1>3. /\ IsFiniteSet(Announced)
      /\ Cardinality(Announced) <= Cardinality(Worker)
      /\ Cardinality(Announced) = Cardinality(Worker) => Announced = Worker
  BY <1>1, <1>2, FS_Subset
<1>4. Cardinality(Announced) \in Nat
  BY <1>3, FS_CardinalityType
<1>. QED  BY <1>1, <1>3, <1>4, BarrierAssumption

\* The invariant holds before the warm-up.
LEMMA StartInv == BenchInit => BarrierInv
<1>. SUFFICES ASSUME BenchInit
              PROVE  BarrierInv
  OBVIOUS
<1>1. Announced = {}
  BY DEF BenchInit, Announced
<1>2. ready = Cardinality(Announced)
  BY <1>1, FS_EmptySet DEF BenchInit
<1>3. BenchTypeOK
  <2>1. pc \in [Worker -> {"unborn", "born", "set_up", "spinning", "timed", "done"}]
    BY DEF BenchInit
  <2>2. go \in BOOLEAN
    BY Zenon DEF BenchInit
  <2>. QED  BY <2>1, <2>2, BarrierAssumption DEF BenchInit, BenchTypeOK
<1>4. \A w \in Worker : pc[w] = "unborn" /\ ~(w <= joined)
  BY DEF BenchInit, Worker
<1>. QED  BY <1>2, <1>3, <1>4 DEF BenchInit, BarrierInv

\* Every step of a worker keeps it.
LEMMA WorkerInv ==
  ASSUME BarrierInv, NEW w \in Worker, WorkerStep(w)
  PROVE  BarrierInv'
<1>. USE DEF BarrierInv
<1>1. CASE SetUp(w)
  <2>1. Announced' = Announced
    BY <1>1 DEF SetUp, Move, Announced, BenchTypeOK
  <2>. QED  BY <1>1, <2>1 DEF SetUp, Move, BenchTypeOK
<1>2. CASE Announce(w)
  <2>1. Announced' = Announced \cup {w} /\ w \notin Announced
    BY <1>2 DEF Announce, Move, Announced, BenchTypeOK
  <2>2. Cardinality(Announced') = Cardinality(Announced) + 1
    BY <2>1, AnnouncedFinite, FS_AddElement
  <2>3. ready' = Cardinality(Announced')
    BY <1>2, <2>2 DEF Announce
  <2>4. Cardinality(Announced') <= Threads
    <3>1. Announced' \subseteq Worker
      BY <2>1 DEF Announced
    <3>. QED  BY <3>1, AnnouncedFinite, FS_Subset
  <2>5. ready' \in 0 .. Threads
    BY <1>2, <2>3, <2>4 DEF Announce, BenchTypeOK
  <2>. QED  BY <1>2, <2>1, <2>3, <2>5 DEF Announce, Move, BenchTypeOK
<1>3. CASE StartTimed(w)
  <2>1. Announced' = Announced
    BY <1>3 DEF StartTimed, Move, Announced, BenchTypeOK
  <2>. QED  BY <1>3, <2>1 DEF StartTimed, Move, BenchTypeOK
<1>4. CASE Finish(w)
  <2>1. Announced' = Announced
    BY <1>4 DEF Finish, Move, Announced, BenchTypeOK
  <2>. QED  BY <1>4, <2>1 DEF Finish, Move, BenchTypeOK
<1>. QED  BY <1>1, <1>2, <1>3, <1>4 DEF WorkerStep

\* Every step of the main thread keeps it.
LEMMA MainInv ==
  ASSUME BarrierInv, MainStep
  PROVE  BarrierInv'
<1>. USE BarrierAssumption DEF BarrierInv
<1>1. CASE Spawn
  <2>1. Announced' = Announced
    BY <1>1 DEF Spawn, Move, Announced, BenchTypeOK
  <2>2. ~go
    BY <1>1 DEF Spawn, Move, Announced, BenchTypeOK, Worker
  <2>. QED  BY <1>1, <2>1, <2>2 DEF Spawn, Move, BenchTypeOK, Worker
<1>2. CASE Release
  <2>1. Announced' = Announced /\ Announced = Worker
    BY <1>2, AnnouncedFinite DEF Release, AllReady, Announced
  <2>. QED  BY <1>2, <2>1 DEF Release, BenchTypeOK
<1>3. CASE Join
  <2>1. Announced' = Announced
    BY <1>3 DEF Join, Announced
  <2>. QED  BY <1>3, <2>1 DEF Join, BenchTypeOK, Worker
<1>4. CASE EndRep
  <2>1. Announced' = {}
    BY <1>4 DEF EndRep, Announced
  <2>2. ready' = Cardinality(Announced')
    BY <1>4, <2>1, FS_EmptySet DEF EndRep, NewFlags
  <2>3. rep <= Reps
    BY <1>4 DEF EndRep, AllJoined, BenchTypeOK, Worker
  <2>4. BenchTypeOK'
    <3>1. pc' \in [Worker -> {"unborn", "born", "set_up", "spinning", "timed", "done"}]
      BY <1>4 DEF EndRep
    <3>2. agg' \subseteq 1 .. Reps
      BY <1>4, <2>3 DEF EndRep, BenchTypeOK
    <3>3. go' \in BOOLEAN
      BY <1>4, Zenon DEF EndRep, NewFlags
    <3>. QED  BY <1>4, <2>3, <3>1, <3>2, <3>3 DEF EndRep, NewFlags, BenchTypeOK
  <2>5. \A w \in Worker : pc'[w] = "unborn" /\ ~(w <= joined')
    BY <1>4 DEF EndRep, Worker
  <2>. QED  BY <1>4, <2>2, <2>4, <2>5 DEF EndRep, NewFlags
<1>. QED  BY <1>1, <1>2, <1>3, <1>4 DEF MainStep

\* The invariant of the barrier, for any number of workers.
LEMMA BarrierInvariant == BenchSpec => []BarrierInv
<1>1. BarrierInv /\ [BenchNext]_benchVars => BarrierInv'
  <2>. SUFFICES ASSUME BarrierInv, [BenchNext]_benchVars
                PROVE  BarrierInv'
    OBVIOUS
  <2>1. CASE UNCHANGED benchVars
    BY <2>1 DEF benchVars, BarrierInv, BenchTypeOK, Announced
  <2>. QED  BY <2>1, WorkerInv, MainInv DEF BenchNext
<1>. QED  BY <1>1, StartInv, PTL DEF BenchSpec

\* The barrier's types; ready never exceeds the number of workers.
THEOREM BarrierTyped == BenchSpec => []BenchTypeOK
BY BarrierInvariant, PTL DEF BarrierInv

\* No worker's clock runs while another builds its book.
THEOREM TimedRunsTogether == BenchSpec => []TimedTogether
<1>1. BarrierInv => TimedTogether
  BY DEF BarrierInv, TimedTogether, Announced
<1>. QED  BY <1>1, BarrierInvariant, PTL

\* Main goes on to the next repetition only when every worker of this one
\* has finished.
THEOREM RepEndsLast == BenchSpec => RepOutlivesItsWorkers
<1>1. BarrierInv /\ [BenchNext]_benchVars => [rep' # rep => \A w \in Worker : pc[w] = "done"]_benchVars
  <2>. SUFFICES ASSUME BarrierInv, BenchNext, rep' # rep
                PROVE  \A w \in Worker : pc[w] = "done"
    OBVIOUS
  <2>1. EndRep
    BY DEF BenchNext, MainStep, WorkerStep, Spawn, Release, Join, SetUp, Announce, StartTimed, Finish
  <2>. QED  BY <2>1 DEF EndRep, AllJoined, BarrierInv, Worker
<1>. QED  BY <1>1, BarrierInvariant, PTL DEF BenchSpec, RepOutlivesItsWorkers
=============================================================================
