----------------------------- MODULE BasicFacts -----------------------------
(***************************************************************************)
(* Facts about numbers, finite sets, sums and lists that the proofs of     *)
(* several modules rest on.                                                *)
(*                                                                         *)
(* Induction is stated over a set, not a predicate, so that it can be used *)
(* first-order: it follows from the theorem that an injection of a finite  *)
(* set into itself is onto.                                                *)
(***************************************************************************)
EXTENDS Integers, FiniteSets, Functions, FiniteSetTheorems, TLAPS, SequencesExt

\* A set with zero that has the successor of each natural in it has them all.
LEMMA SetInduction ==
  ASSUME NEW T, 0 \in T, \A n \in Nat : n \in T => n + 1 \in T
  PROVE  \A n \in Nat : n \in T
<1>. SUFFICES ASSUME NEW n \in Nat, n \notin T
              PROVE  FALSE
  OBVIOUS
<1>. DEFINE F == {m \in 0 .. n : m \notin T}
            f == [m \in F |-> m - 1]
<1>1. IsFiniteSet(F)
  <2>1. IsFiniteSet(0 .. n)
    BY FS_Interval
  <2>. QED  BY <2>1, FS_Subset
<1>2. f \in Injection(F, F)
  <2>1. \A m \in F : m - 1 \in F
    OBVIOUS
  <2>. QED  BY <2>1 DEF Injection, IsInjective
<1>3. f \in Surjection(F, F)
  BY <1>1, <1>2, FS_Injection
<1>4. n \in F
  OBVIOUS
<1>5. PICK m \in F : f[m] = n
  BY <1>3, <1>4 DEF Surjection
<1>. QED  BY <1>5

\* A set of naturals that is not empty has a least element.
LEMMA LeastNat ==
  ASSUME NEW S \in SUBSET Nat, S # {}
  PROVE  \E m \in S : \A n \in S : m <= n
<1>. SUFFICES ASSUME \A m \in S : \E n \in S : n < m
              PROVE  FALSE
  OBVIOUS
<1>. DEFINE T == {n \in Nat : \A m \in 0 .. n : m \notin S}
<1>1. 0 \in T
  OBVIOUS
<1>2. \A n \in Nat : n \in T => n + 1 \in T
  <2>. SUFFICES ASSUME NEW n \in Nat, n \in T, NEW m \in 0 .. n + 1, m \in S
                PROVE  FALSE
    OBVIOUS
  <2>. QED  OBVIOUS
<1>. HIDE DEF T
<1>3. \A n \in Nat : n \in T
  BY <1>1, <1>2, SetInduction
<1>4. \A n \in Nat : n \in 0 .. n /\ n \notin S
  BY <1>3 DEF T
<1>. QED  BY <1>4

\* Counting up modulo c.
LEMMA ModOnce ==
  ASSUME NEW c \in Nat \ {0}, NEW x \in 0 .. 2 * c - 1
  PROVE  x % c = IF x < c THEN x ELSE x - c
OBVIOUS

\* A multiple of the modulus makes no difference.
LEMMA ModMultiple ==
  ASSUME NEW w \in Nat \ {0}, NEW a \in Int, NEW k \in Int
  PROVE  (a + w * k) % w = a % w
<1>. DEFINE r == a % w
            q == a \div w
<1>1. r \in 0 .. w - 1 /\ q \in Int /\ a = r + w * q
  OBVIOUS
<1>. HIDE DEF r, q
<1>2. a + w * k = r + w * (q + k)
  BY <1>1
<1>3. (r + w * (q + k)) % w = r
  <2>. DEFINE m == q + k
  <2>1. m \in Int
    BY <1>1
  <2>. HIDE DEF m
  <2>2. (r + w * m) % w = r
    BY <1>1, <2>1
  <2>. QED  BY <2>2 DEF m
<1>. QED  BY <1>2, <1>3 DEF r

\* Reducing an addend first makes no difference.
LEMMA ModSum ==
  ASSUME NEW w \in Nat \ {0}, NEW a \in Int, NEW b \in Int
  PROVE  ((a % w) + b) % w = (a + b) % w
<1>. DEFINE r == a % w
            q == a \div w
<1>1. r \in Int /\ q \in Int /\ a = r + w * q
  OBVIOUS
<1>. HIDE DEF r, q
<1>2. a + b = (r + b) + w * q
  <2>. DEFINE m == w * q
  <2>1. m \in Int
    BY <1>1
  <2>. HIDE DEF m
  <2>2. a = r + m
    BY <1>1 DEF m
  <2>3. a + b = (r + b) + m
    BY <1>1, <2>1, <2>2
  <2>. QED  BY <2>3 DEF m
<1>3. ((r + b) + w * q) % w = (r + b) % w
  <2>. DEFINE s == r + b
  <2>1. s \in Int
    BY <1>1
  <2>. HIDE DEF s
  <2>2. (s + w * q) % w = s % w
    BY <1>1, <2>1, ModMultiple
  <2>. QED  BY <2>2 DEF s
<1>. QED  BY <1>2, <1>3 DEF r

----------------------------------------------------------------------------
\* Sums.  SumFunctionOnSet is a fold that picks the elements of the set in
\* an order CHOOSE decides; the lemmas say that the order does not matter.

\* The equation of the recursive function in the fold.
SumEquation(f, S, h) ==
  h = [s \in SUBSET S |-> IF s = {} THEN 0
                          ELSE LET x == CHOOSE x \in s : TRUE IN f[x] + h[s \ {x}]]

\* The fold is a solution of the equation, if there is one.
LEMMA SumIs ==
  ASSUME NEW f, NEW S
  PROVE  SumFunctionOnSet(f, S) = (CHOOSE h : SumEquation(f, S, h))[S]
BY DEF SumFunctionOnSet, FoldFunctionOnSet, MapThenFoldSet, SumEquation

\* The equation has a solution ...
LEMMA SumSolvable ==
  ASSUME NEW D, IsFiniteSet(D), NEW f \in [D -> Int]
  PROVE  \E g \in [SUBSET D -> Int] : SumEquation(f, D, g)
<1>. DEFINE Part(n) == {s \in SUBSET D : Cardinality(s) <= n}
            Pick(s) == CHOOSE x \in s : TRUE
            Solves(n, g) == \A s \in Part(n) :
              g[s] = IF s = {} THEN 0 ELSE f[Pick(s)] + g[s \ {Pick(s)}]
            T == {n \in Nat : \E g \in [Part(n) -> Int] : Solves(n, g)}
<1>1. \A s \in SUBSET D : IsFiniteSet(s) /\ Cardinality(s) \in Nat /\ Cardinality(s) <= Cardinality(D)
  BY FS_Subset, FS_CardinalityType
<1>2. \A s \in SUBSET D : s # {} =>
        Pick(s) \in s /\ Cardinality(s \ {Pick(s)}) = Cardinality(s) - 1
  BY <1>1, FS_RemoveElement
<1>. HIDE DEF Pick
<1>3. 0 \in T
  <2>1. \A s \in Part(0) : s = {}
    BY <1>1, FS_EmptySet
  <2>. DEFINE g == [s \in Part(0) |-> 0]
  <2>2. g \in [Part(0) -> Int] /\ Solves(0, g)
    BY <2>1
  <2>. QED  BY <2>2
<1>4. \A n \in Nat : n \in T => n + 1 \in T
  <2>. SUFFICES ASSUME NEW n \in Nat, n \in T
                PROVE  n + 1 \in T
    OBVIOUS
  <2>1. PICK g \in [Part(n) -> Int] : Solves(n, g)
    OBVIOUS
  <2>. DEFINE h == [s \in Part(n + 1) |->
                      IF s = {} THEN 0 ELSE f[Pick(s)] + g[s \ {Pick(s)}]]
  <2>2. \A s \in Part(n + 1) : s # {} => s \ {Pick(s)} \in Part(n) /\ Pick(s) \in D
    BY <1>1, <1>2
  <2>3. h \in [Part(n + 1) -> Int]
    BY <2>2
  <2>4. \A s \in Part(n) : s \in Part(n + 1) /\ h[s] = g[s]
    <3>1. \A s \in Part(n) : s \in Part(n + 1)
      BY <1>1
    <3>. QED  BY <3>1, <2>1
  <2>5. Solves(n + 1, h)
    BY <2>2, <2>4
  <2>. HIDE DEF h, Solves, Part
  <2>. QED  BY <2>3, <2>5
<1>. HIDE DEF T
<1>5. Cardinality(D) \in T
  BY <1>1, <1>3, <1>4, SetInduction
<1>. HIDE DEF Solves, Part
<1>6. PICK g \in [Part(Cardinality(D)) -> Int] : Solves(Cardinality(D), g)
  BY <1>5 DEF T
<1>7. Part(Cardinality(D)) = SUBSET D
  BY <1>1 DEF Part
<1>8. \A s \in SUBSET D : g[s] = IF s = {} THEN 0 ELSE f[Pick(s)] + g[s \ {Pick(s)}]
  BY <1>6, <1>7 DEF Solves
<1>9. g = [s \in SUBSET D |-> IF s = {} THEN 0 ELSE f[Pick(s)] + g[s \ {Pick(s)}]]
  BY <1>6, <1>7, <1>8
<1>10. SumEquation(f, D, g)
  BY <1>9 DEF SumEquation, Pick
<1>. QED  BY <1>6, <1>7, <1>10

\* ... and one only, so that the fold over a subset is that solution there.
LEMMA SumSolution ==
  ASSUME NEW D, IsFiniteSet(D), NEW f \in [D -> Int],
         NEW g \in [SUBSET D -> Int], SumEquation(f, D, g)
  PROVE  \A S \in SUBSET D : SumFunctionOnSet(f, S) = g[S]
<1>. DEFINE Pick(s) == CHOOSE x \in s : TRUE
<1>1. \A s \in SUBSET D : IsFiniteSet(s) /\ Cardinality(s) \in Nat
  BY FS_Subset, FS_CardinalityType
<1>2. \A s \in SUBSET D : s # {} =>
        Pick(s) \in s /\ Cardinality(s \ {Pick(s)}) = Cardinality(s) - 1
  BY <1>1, FS_RemoveElement
<1>3. \A s \in SUBSET D : g[s] = IF s = {} THEN 0 ELSE f[Pick(s)] + g[s \ {Pick(s)}]
  BY DEF SumEquation
<1>. SUFFICES ASSUME NEW S \in SUBSET D
              PROVE  SumFunctionOnSet(f, S) = g[S]
  OBVIOUS
<1>4. SumEquation(f, S, [s \in SUBSET S |-> g[s]])
  BY <1>3 DEF SumEquation
<1>. DEFINE h == CHOOSE h : SumEquation(f, S, h)
<1>5. SumEquation(f, S, h)
  BY <1>4
<1>. HIDE DEF h, Pick
<1>6. \A s \in SUBSET S : h[s] = IF s = {} THEN 0 ELSE f[Pick(s)] + h[s \ {Pick(s)}]
  BY <1>5 DEF SumEquation, Pick
<1>. DEFINE T == {n \in Nat : \A s \in SUBSET S : Cardinality(s) = n => h[s] = g[s]}
<1>7. 0 \in T
  <2>1. \A s \in SUBSET S : Cardinality(s) = 0 => s = {}
    BY <1>1, FS_EmptySet
  <2>. QED  BY <2>1, <1>3, <1>6
<1>8. \A n \in Nat : n \in T => n + 1 \in T
  <2>. SUFFICES ASSUME NEW n \in Nat, n \in T, NEW s \in SUBSET S, Cardinality(s) = n + 1
                PROVE  h[s] = g[s]
    OBVIOUS
  <2>1. s # {}
    <3>1. Cardinality({}) = 0
      BY FS_EmptySet
    <3>2. n + 1 # 0
      OBVIOUS
    <3>. QED  BY <3>1, <3>2, Zenon
  <2>2. s \ {Pick(s)} \in SUBSET S /\ Cardinality(s \ {Pick(s)}) = n
    BY <1>2, <2>1
  <2>3. h[s \ {Pick(s)}] = g[s \ {Pick(s)}]
    BY <2>2
  <2>. QED  BY <2>1, <2>3, <1>3, <1>6
<1>. HIDE DEF T
<1>9. Cardinality(S) \in T
  BY <1>1, <1>7, <1>8, SetInduction
<1>10. h[S] = g[S]
  BY <1>9 DEF T
<1>. QED  BY <1>10, SumIs DEF h

\* What a sum is: zero over no element, and taking out any element of the
\* set takes away its value.
LEMMA SumFacts ==
  ASSUME NEW D, IsFiniteSet(D), NEW f \in [D -> Int]
  PROVE  /\ SumFunctionOnSet(f, {}) = 0
         /\ \A S \in SUBSET D : SumFunctionOnSet(f, S) \in Int
         /\ \A S \in SUBSET D, x \in D :
              x \in S => SumFunctionOnSet(f, S) = f[x] + SumFunctionOnSet(f, S \ {x})
<1>. DEFINE Pick(s) == CHOOSE x \in s : TRUE
<1>1. PICK g \in [SUBSET D -> Int] : SumEquation(f, D, g)
  BY SumSolvable
<1>2. \A S \in SUBSET D : SumFunctionOnSet(f, S) = g[S]
  BY <1>1, SumSolution
<1>3. \A s \in SUBSET D : IsFiniteSet(s) /\ Cardinality(s) \in Nat
  BY FS_Subset, FS_CardinalityType
<1>4. \A s \in SUBSET D : \A x \in s : Cardinality(s \ {x}) = Cardinality(s) - 1
  BY <1>3, FS_RemoveElement
<1>5. \A s \in SUBSET D : g[s] = IF s = {} THEN 0 ELSE f[Pick(s)] + g[s \ {Pick(s)}]
  BY <1>1 DEF SumEquation
<1>6. \A s \in SUBSET D : s # {} => Pick(s) \in s
  OBVIOUS
<1>. HIDE DEF Pick
<1>. DEFINE T == {n \in Nat : \A s \in SUBSET D : Cardinality(s) = n =>
                    \A x \in s : g[s] = f[x] + g[s \ {x}]}
<1>7. 0 \in T
  <2>1. \A s \in SUBSET D : Cardinality(s) = 0 => s = {}
    BY <1>3, FS_EmptySet
  <2>. QED  BY <2>1
<1>8. \A n \in Nat : n \in T => n + 1 \in T
  <2>. SUFFICES ASSUME NEW n \in Nat, n \in T, NEW s \in SUBSET D, Cardinality(s) = n + 1,
                       NEW x \in s
                PROVE  g[s] = f[x] + g[s \ {x}]
    OBVIOUS
  <2>. DEFINE y == Pick(s)
  <2>1. y \in s /\ g[s] = f[y] + g[s \ {y}]
    BY <1>5, <1>6
  <2>. HIDE DEF y
  <2>2. CASE x = y
    BY <2>1, <2>2
  <2>3. CASE x # y
    <3>1. /\ Cardinality(s \ {y}) = n /\ Cardinality(s \ {x}) = n
          /\ x \in s \ {y} /\ y \in s \ {x}
      BY <1>4, <2>1, <2>3
    <3>2. g[s \ {y}] = f[x] + g[(s \ {y}) \ {x}]
      BY <3>1
    <3>3. g[s \ {x}] = f[y] + g[(s \ {x}) \ {y}]
      BY <3>1
    <3>4. (s \ {y}) \ {x} = (s \ {x}) \ {y}
      OBVIOUS
    <3>. DEFINE rest == g[(s \ {x}) \ {y}]
    <3>5. f[x] \in Int /\ f[y] \in Int /\ rest \in Int
      BY <2>1
    <3>6. g[s] = f[y] + (f[x] + rest) /\ g[s \ {x}] = f[y] + rest
      BY <2>1, <3>2, <3>3, <3>4
    <3>. HIDE DEF rest
    <3>. QED  BY <3>5, <3>6
  <2>. QED  BY <2>2, <2>3
<1>. HIDE DEF T
<1>9. \A n \in Nat : n \in T
  BY <1>7, <1>8, SetInduction
<1>10. \A s \in SUBSET D, x \in D : x \in s => g[s] = f[x] + g[s \ {x}]
  BY <1>3, <1>9 DEF T
<1>11. g[{}] = 0
  BY <1>5
<1>12. \A s \in SUBSET D, x \in D : s \ {x} \in SUBSET D /\ {} \in SUBSET D
  OBVIOUS
<1>13. SumFunctionOnSet(f, {}) = 0
  BY <1>2, <1>11
<1>14. \A S \in SUBSET D : SumFunctionOnSet(f, S) \in Int
  BY <1>2
<1>15. ASSUME NEW S \in SUBSET D, NEW x \in D, x \in S
       PROVE  SumFunctionOnSet(f, S) = f[x] + SumFunctionOnSet(f, S \ {x})
  BY <1>2, <1>10, <1>12, <1>15
<1>. QED  BY <1>13, <1>14, <1>15

\* Induction over the subsets of a finite set, one element at a time.
LEMMA SubsetInduction ==
  ASSUME NEW D, IsFiniteSet(D), NEW T, {} \in T,
         \A s \in SUBSET D : \A x \in D \ s : s \in T => s \cup {x} \in T
  PROVE  \A s \in SUBSET D : s \in T
<1>1. \A s \in SUBSET D : IsFiniteSet(s) /\ Cardinality(s) \in Nat
  BY FS_Subset, FS_CardinalityType
<1>2. \A s \in SUBSET D : \A x \in s : Cardinality(s \ {x}) = Cardinality(s) - 1
  BY <1>1, FS_RemoveElement
<1>3. \A s \in SUBSET D : Cardinality(s) = 0 <=> s = {}
  BY <1>1, FS_EmptySet
<1>. DEFINE N == {n \in Nat : \A s \in SUBSET D : Cardinality(s) = n => s \in T}
<1>4. 0 \in N
  BY <1>3
<1>5. ASSUME NEW n \in Nat, n \in N
      PROVE  n + 1 \in N
  <2>. SUFFICES ASSUME NEW s \in SUBSET D, Cardinality(s) = n + 1
                PROVE  s \in T
    OBVIOUS
  <2>1. n + 1 # 0
    OBVIOUS
  <2>2. PICK x \in s : TRUE
    BY <1>3, <2>1, Zenon
  <2>3. Cardinality(s \ {x}) = n
    BY <1>2, <2>2
  <2>4. s \ {x} \in T
    BY <1>5, <2>3
  <2>5. (s \ {x}) \cup {x} = s /\ x \in D \ (s \ {x})
    BY <2>2
  <2>. QED  BY <2>4, <2>5
<1>. HIDE DEF N
<1>6. \A n \in Nat : n \in N
  BY <1>4, <1>5, SetInduction
<1>. QED  BY <1>1, <1>6 DEF N

\* A sum depends on the values at the elements of the set alone, and on them
\* monotonically.
LEMMA SumAtMost ==
  ASSUME NEW D, NEW E, IsFiniteSet(D), IsFiniteSet(E), NEW f \in [D -> Int], NEW g \in [E -> Int],
         NEW S, S \subseteq D, S \subseteq E, \A x \in S : f[x] <= g[x]
  PROVE  SumFunctionOnSet(f, S) <= SumFunctionOnSet(g, S)
<1>. DEFINE T == {s \in SUBSET S : SumFunctionOnSet(f, s) <= SumFunctionOnSet(g, s)}
<1>1. IsFiniteSet(S)
  BY FS_Subset
<1>2. {} \in T
  BY SumFacts
<1>3. ASSUME NEW s \in SUBSET S, NEW x \in S \ s, s \in T
      PROVE  s \cup {x} \in T
  <2>1. (s \cup {x}) \ {x} = s /\ s \cup {x} \in SUBSET D /\ s \cup {x} \in SUBSET E
    OBVIOUS
  <2>2. SumFunctionOnSet(f, s \cup {x}) = f[x] + SumFunctionOnSet(f, s)
    BY <2>1, SumFacts
  <2>3. SumFunctionOnSet(g, s \cup {x}) = g[x] + SumFunctionOnSet(g, s)
    BY <2>1, SumFacts
  <2>4. /\ SumFunctionOnSet(f, s) \in Int /\ SumFunctionOnSet(g, s) \in Int
        /\ f[x] \in Int /\ g[x] \in Int /\ f[x] <= g[x]
    BY SumFacts
  <2>5. SumFunctionOnSet(f, s) <= SumFunctionOnSet(g, s)
    BY <1>3
  <2>. QED  BY <2>2, <2>3, <2>4, <2>5
<1>. HIDE DEF T
<1>4. S \in T
  BY <1>1, <1>2, <1>3, SubsetInduction
<1>. QED  BY <1>4 DEF T

\* Equal values give equal sums.
LEMMA SumSame ==
  ASSUME NEW D, NEW E, IsFiniteSet(D), IsFiniteSet(E), NEW f \in [D -> Int], NEW g \in [E -> Int],
         NEW S, S \subseteq D, S \subseteq E, \A x \in S : f[x] = g[x]
  PROVE  SumFunctionOnSet(f, S) = SumFunctionOnSet(g, S)
<1>1. \A x \in S : f[x] \in Int /\ g[x] \in Int /\ f[x] <= g[x] /\ g[x] <= f[x]
  OBVIOUS
<1>2. /\ SumFunctionOnSet(f, S) <= SumFunctionOnSet(g, S)
      /\ SumFunctionOnSet(g, S) <= SumFunctionOnSet(f, S)
  BY <1>1, SumAtMost
<1>3. SumFunctionOnSet(f, S) \in Int /\ SumFunctionOnSet(g, S) \in Int
  BY SumFacts
<1>. QED  BY <1>2, <1>3

\* Changing one value changes the sum by as much.
LEMMA SumChanged ==
  ASSUME NEW D, IsFiniteSet(D), NEW f \in [D -> Int], NEW g \in [D -> Int],
         NEW S \in SUBSET D, NEW x \in S, \A y \in S \ {x} : f[y] = g[y]
  PROVE  SumFunctionOnSet(g, S) = SumFunctionOnSet(f, S) - f[x] + g[x]
<1>1. SumFunctionOnSet(f, S \ {x}) = SumFunctionOnSet(g, S \ {x})
  BY SumSame
<1>2. /\ SumFunctionOnSet(f, S) = f[x] + SumFunctionOnSet(f, S \ {x})
      /\ SumFunctionOnSet(g, S) = g[x] + SumFunctionOnSet(g, S \ {x})
      /\ SumFunctionOnSet(f, S \ {x}) \in Int
  BY SumFacts
<1>. QED  BY <1>1, <1>2

\* Values that are not negative have a sum that is not, that no part exceeds,
\* and to which zeros contribute nothing.
LEMMA SumParts ==
  ASSUME NEW D, IsFiniteSet(D), NEW f \in [D -> Nat], NEW R \in SUBSET D, NEW S \in SUBSET R
  PROVE  /\ SumFunctionOnSet(f, S) \in Nat
         /\ SumFunctionOnSet(f, S) <= SumFunctionOnSet(f, R)
         /\ (\A x \in R \ S : f[x] = 0) => SumFunctionOnSet(f, S) = SumFunctionOnSet(f, R)
<1>. DEFINE T == {s \in SUBSET R :
                    /\ SumFunctionOnSet(f, S \cap s) \in Nat
                    /\ SumFunctionOnSet(f, S \cap s) <= SumFunctionOnSet(f, s)
                    /\ (\A x \in s \ S : f[x] = 0) =>
                         SumFunctionOnSet(f, S \cap s) = SumFunctionOnSet(f, s)}
<1>0. f \in [D -> Int]
  OBVIOUS
<1>1. IsFiniteSet(R)
  BY FS_Subset
<1>2. {} \in T
  <2>1. S \cap {} = {}
    OBVIOUS
  <2>2. SumFunctionOnSet(f, {}) = 0
    BY <1>0, SumFacts
  <2>. QED  BY <2>1, <2>2
<1>3. ASSUME NEW s \in SUBSET R, NEW x \in R \ s, s \in T
      PROVE  s \cup {x} \in T
  <2>. DEFINE t == s \cup {x}
  <2>1. t \in SUBSET D /\ s \in SUBSET D /\ S \cap s \in SUBSET D /\ t \ {x} = s /\ x \in t /\ x \in D
    OBVIOUS
  <2>2. SumFunctionOnSet(f, t) = f[x] + SumFunctionOnSet(f, s)
    BY <1>0, <2>1, SumFacts
  <2>3. /\ SumFunctionOnSet(f, s) \in Int
        /\ SumFunctionOnSet(f, S \cap s) \in Int
        /\ f[x] \in Nat
    BY <1>0, <2>1, SumFacts
  <2>4. CASE x \in S
    <3>1. /\ S \cap t \in SUBSET D /\ x \in S \cap t
          /\ (S \cap t) \ {x} = S \cap s /\ t \ S = s \ S
      BY <2>4
    <3>2. SumFunctionOnSet(f, S \cap t) = f[x] + SumFunctionOnSet(f, S \cap s)
      BY <1>0, <2>1, <3>1, SumFacts
    <3>. HIDE DEF t
    <3>. QED  BY <1>3, <2>1, <2>2, <2>3, <3>1, <3>2 DEF t
  <2>5. CASE x \notin S
    <3>1. S \cap t = S \cap s /\ s \ S \subseteq t \ S /\ x \in t \ S
      BY <2>5
    <3>. HIDE DEF t
    <3>. QED  BY <1>3, <2>1, <2>2, <2>3, <3>1 DEF t
  <2>. QED  BY <2>4, <2>5
<1>. HIDE DEF T
<1>4. R \in T
  BY <1>1, <1>2, <1>3, SubsetInduction
<1>5. S \cap R = S
  OBVIOUS
<1>. QED  BY <1>4, <1>5 DEF T

\* One value of many that are not negative is at most their sum.
LEMMA SumMember ==
  ASSUME NEW D, IsFiniteSet(D), NEW f \in [D -> Nat], NEW S \in SUBSET D, NEW x \in S
  PROVE  f[x] <= SumFunctionOnSet(f, S)
<1>1. f \in [D -> Int] /\ x \in D /\ f[x] \in Nat
  OBVIOUS
<1>2. SumFunctionOnSet(f, S) = f[x] + SumFunctionOnSet(f, S \ {x})
  BY <1>1, SumFacts
<1>3. SumFunctionOnSet(f, S \ {x}) \in Nat
  BY SumParts
<1>. QED  BY <1>1, <1>2, <1>3

\* Summing the same values under other names gives the same sum.
LEMMA SumRenamed ==
  ASSUME NEW D, NEW E, IsFiniteSet(D), IsFiniteSet(E), NEW f \in [D -> Int], NEW g \in [E -> Int],
         NEW S \in SUBSET D, NEW h \in Bijection(E, S), \A x \in E : g[x] = f[h[x]]
  PROVE  SumFunctionOnSet(g, E) = SumFunctionOnSet(f, S)
<1>. DEFINE Im(s) == {h[x] : x \in s}
            T == {s \in SUBSET E : SumFunctionOnSet(g, s) = SumFunctionOnSet(f, Im(s))}
<1>0. /\ h \in [E -> S] /\ \A x, y \in E : h[x] = h[y] => x = y
      /\ \A y \in S : \E x \in E : h[x] = y
  BY DEF Bijection, Injection, Surjection, IsInjective
<1>1. Im(E) = S
  BY <1>0
<1>2. {} \in T
  <2>1. Im({}) = {}
    OBVIOUS
  <2>. QED  BY <1>1, <2>1, SumFacts
<1>3. ASSUME NEW s \in SUBSET E, NEW x \in E \ s, s \in T
      PROVE  s \cup {x} \in T
  <2>1. /\ s \cup {x} \in SUBSET E /\ (s \cup {x}) \ {x} = s
        /\ Im(s \cup {x}) \in SUBSET D /\ Im(s \cup {x}) \ {h[x]} = Im(s)
        /\ h[x] \in Im(s \cup {x}) /\ h[x] \in D
    BY <1>0
  <2>. HIDE DEF Im
  <2>2. SumFunctionOnSet(g, s \cup {x}) = g[x] + SumFunctionOnSet(g, s)
    BY <1>1, <2>1, SumFacts
  <2>3. SumFunctionOnSet(f, Im(s \cup {x})) = f[h[x]] + SumFunctionOnSet(f, Im(s))
    <3>. DEFINE I == Im(s \cup {x})
                y == h[x]
    <3>1. I \in SUBSET D /\ y \in D /\ y \in I
      BY <2>1
    <3>. HIDE DEF I, y
    <3>2. SumFunctionOnSet(f, I) = f[y] + SumFunctionOnSet(f, I \ {y})
      BY <3>1, SumFacts
    <3>. QED  BY <2>1, <3>2 DEF I, y
  <2>. QED  BY <1>1, <1>3, <2>1, <2>2, <2>3
<1>. HIDE DEF T, Im
<1>4. E \in T
  <2>1. \A s \in SUBSET E : s \in T
    BY <1>2, <1>3, SubsetInduction
  <2>. QED  BY <2>1
<1>. QED  BY <1>1, <1>4 DEF T

----------------------------------------------------------------------------
\* Recursion along a walk

\* Outside of E, nx leads from an element of D to one of a smaller measure m.
EndingWalk(D, E, m, nx) ==
  /\ E \subseteq D /\ m \in [D -> Nat] /\ nx \in [D \ E -> D]
  /\ \A s \in D \ E : m[nx[s]] < m[s]

\* h adds up the values c along the walk and the value b at its end.
AddsUp(D, E, nx, b, c, h) ==
  /\ h \in [D -> Int]
  /\ \A s \in D : h[s] = IF s \in E THEN b[s] ELSE c[s] + h[nx[s]]

\* Such a recursive function exists.
LEMMA WalkDefined ==
  ASSUME NEW D, NEW E, NEW m, NEW nx, EndingWalk(D, E, m, nx),
         NEW b \in [D -> Int], NEW c \in [D -> Int]
  PROVE  \E h : AddsUp(D, E, nx, b, c, h)
<1>0. /\ E \in SUBSET D /\ m \in [D -> Nat] /\ nx \in [D \ E -> D]
      /\ \A s \in D \ E : m[nx[s]] < m[s]
  BY DEF EndingWalk
<1>. DEFINE Near(n) == {s \in D : m[s] < n}
            Solves(n, g) == \A s \in Near(n) : g[s] = IF s \in E THEN b[s] ELSE c[s] + g[nx[s]]
            T == {n \in Nat : \E g \in [D -> Int] : Solves(n, g)}
<1>1. 0 \in T
  <2>1. Near(0) = {}
    BY <1>0
  <2>2. b \in [D -> Int] /\ Solves(0, b)
    BY <2>1
  <2>. QED  BY <2>2
<1>2. ASSUME NEW n \in Nat, n \in T
      PROVE  n + 1 \in T
  <2>1. PICK g \in [D -> Int] : Solves(n, g)
    BY <1>2
  <2>. DEFINE h == [s \in D |-> IF s \in E THEN b[s] ELSE c[s] + g[nx[s]]]
  <2>2. h \in [D -> Int]
    BY <1>0, <2>1
  <2>3. \A s \in Near(n) : h[s] = g[s]
    BY <2>1
  <2>4. \A s \in Near(n + 1) \ E : nx[s] \in Near(n)
    BY <1>0
  <2>5. Solves(n + 1, h)
    BY <1>0, <2>3, <2>4
  <2>. HIDE DEF h, Solves
  <2>. QED  BY <2>2, <2>5
<1>. HIDE DEF T
<1>3. \A n \in Nat : n \in T
  BY <1>1, <1>2, SetInduction
<1>. DEFINE g(n) == CHOOSE g \in [D -> Int] : Solves(n, g)
<1>4. \A n \in Nat : g(n) \in [D -> Int] /\ Solves(n, g(n))
  BY <1>3 DEF T
<1>. DEFINE Same == {k \in Nat : \A s \in D : m[s] < k =>
                       \A i, j \in Nat : m[s] < i /\ m[s] < j => g(i)[s] = g(j)[s]}
<1>. HIDE DEF g
<1>5. 0 \in Same
  BY <1>0
<1>6. ASSUME NEW k \in Nat, k \in Same
      PROVE  k + 1 \in Same
  <2>. SUFFICES ASSUME NEW s \in D, m[s] < k + 1, NEW i \in Nat, NEW j \in Nat, m[s] < i, m[s] < j
                PROVE  g(i)[s] = g(j)[s]
    OBVIOUS
  <2>1. /\ g(i)[s] = IF s \in E THEN b[s] ELSE c[s] + g(i)[nx[s]]
        /\ g(j)[s] = IF s \in E THEN b[s] ELSE c[s] + g(j)[nx[s]]
    BY <1>4
  <2>2. CASE s \in E
    BY <2>1, <2>2
  <2>3. CASE s \notin E
    <3>1. nx[s] \in D /\ m[nx[s]] \in Nat /\ m[s] \in Nat /\ m[nx[s]] < m[s]
      BY <1>0, <2>3
    <3>2. m[nx[s]] < k /\ m[nx[s]] < i /\ m[nx[s]] < j
      BY <3>1
    <3>3. g(i)[nx[s]] = g(j)[nx[s]]
      BY <1>6, <3>1, <3>2
    <3>. QED  BY <2>1, <2>3, <3>3
  <2>. QED  BY <2>2, <2>3
<1>. HIDE DEF Same
<1>7. \A k \in Nat : k \in Same
  BY <1>5, <1>6, SetInduction
<1>8. \A s \in D : \A i, j \in Nat : m[s] < i /\ m[s] < j => g(i)[s] = g(j)[s]
  <2>. SUFFICES ASSUME NEW s \in D
                PROVE  \A i, j \in Nat : m[s] < i /\ m[s] < j => g(i)[s] = g(j)[s]
    OBVIOUS
  <2>1. m[s] \in Nat /\ m[s] + 1 \in Nat /\ m[s] < m[s] + 1
    BY <1>0
  <2>2. m[s] + 1 \in Same
    BY <1>7, <2>1
  <2>. QED  BY <2>1, <2>2 DEF Same
<1>. DEFINE h == [s \in D |-> g(m[s] + 1)[s]]
<1>9. h \in [D -> Int]
  <2>1. \A s \in D : m[s] + 1 \in Nat
    BY <1>0
  <2>. QED  BY <1>4, <2>1
<1>10. ASSUME NEW s \in D
       PROVE  h[s] = IF s \in E THEN b[s] ELSE c[s] + h[nx[s]]
  <2>1. m[s] \in Nat /\ m[s] + 1 \in Nat /\ m[s] < m[s] + 1
    BY <1>0
  <2>2. h[s] = IF s \in E THEN b[s] ELSE c[s] + g(m[s] + 1)[nx[s]]
    BY <1>4, <2>1
  <2>3. CASE s \notin E
    <3>1. nx[s] \in D /\ m[nx[s]] \in Nat /\ m[nx[s]] < m[s]
      BY <1>0, <2>3
    <3>2. m[nx[s]] + 1 \in Nat /\ m[nx[s]] < m[nx[s]] + 1 /\ m[nx[s]] < m[s] + 1
      BY <2>1, <3>1
    <3>3. g(m[nx[s]] + 1)[nx[s]] = g(m[s] + 1)[nx[s]]
      BY <1>8, <2>1, <3>1, <3>2
    <3>. QED  BY <2>2, <2>3, <3>1, <3>3
  <2>. QED  BY <2>2, <2>3
<1>. HIDE DEF h
<1>. QED  BY <1>9, <1>10 DEF AddsUp

\* The sum over two sets that share no element.
LEMMA SumSplit ==
  ASSUME NEW D, IsFiniteSet(D), NEW f \in [D -> Int], NEW A \in SUBSET D, NEW B \in SUBSET D,
         A \cap B = {}
  PROVE  SumFunctionOnSet(f, A \cup B) = SumFunctionOnSet(f, A) + SumFunctionOnSet(f, B)
<1>. DEFINE T == {s \in SUBSET A :
                    SumFunctionOnSet(f, s \cup B) = SumFunctionOnSet(f, s) + SumFunctionOnSet(f, B)}
<1>0. IsFiniteSet(A) /\ SumFunctionOnSet(f, B) \in Int
  BY FS_Subset, SumFacts
<1>1. {} \in T
  <2>1. {} \cup B = B
    OBVIOUS
  <2>2. SumFunctionOnSet(f, {}) = 0
    BY SumFacts
  <2>. QED  BY <1>0, <2>1, <2>2
<1>2. ASSUME NEW s \in SUBSET A, NEW x \in A \ s, s \in T
      PROVE  s \cup {x} \in T
  <2>. DEFINE t == s \cup {x}
              u == t \cup B
  <2>1. /\ t \in SUBSET A /\ t \in SUBSET D /\ u \in SUBSET D /\ x \in D /\ x \in t /\ x \in u
        /\ t \ {x} = s /\ u \ {x} = s \cup B /\ s \in SUBSET D
    OBVIOUS
  <2>. HIDE DEF t, u
  <2>2. SumFunctionOnSet(f, t) = f[x] + SumFunctionOnSet(f, s)
    BY <2>1, SumFacts
  <2>3. SumFunctionOnSet(f, u) = f[x] + SumFunctionOnSet(f, s \cup B)
    BY <2>1, SumFacts
  <2>4. SumFunctionOnSet(f, s) \in Int /\ f[x] \in Int
    BY <2>1, SumFacts
  <2>5. SumFunctionOnSet(f, s \cup B) = SumFunctionOnSet(f, s) + SumFunctionOnSet(f, B)
    BY <1>2
  <2>6. SumFunctionOnSet(f, u) = SumFunctionOnSet(f, t) + SumFunctionOnSet(f, B)
    BY <1>0, <2>2, <2>3, <2>4, <2>5
  <2>. QED  BY <2>1, <2>6 DEF t, u
<1>. HIDE DEF T
<1>3. A \in T
  <2>1. \A s \in SUBSET A : s \in T
    BY <1>0, <1>1, <1>2, SubsetInduction
  <2>. QED  BY <2>1
<1>. QED  BY <1>3 DEF T

----------------------------------------------------------------------------
\* Listing a set in the order of a key

\* f lists the n elements of S, by increasing key.
Listing(f, n, S, key) ==
  /\ f \in [1 .. n -> S]
  /\ \A i, j \in 1 .. n : i < j => key[f[i]] < key[f[j]]
  /\ \A x \in S : \E i \in 1 .. n : f[i] = x

\* A finite set has an element with the greatest key.
LEMMA GreatestKey ==
  ASSUME NEW S, IsFiniteSet(S), S # {}, NEW key \in [S -> Int]
  PROVE  \E x \in S : \A y \in S : key[y] <= key[x]
<1>. DEFINE T == {s \in SUBSET S : s # {} => \E x \in s : \A y \in s : key[y] <= key[x]}
<1>1. {} \in T
  OBVIOUS
<1>2. ASSUME NEW s \in SUBSET S, NEW z \in S \ s, s \in T
      PROVE  s \cup {z} \in T
  <2>1. CASE s = {}
    BY <2>1
  <2>2. CASE s # {}
    <3>1. PICK x \in s : \A y \in s : key[y] <= key[x]
      BY <1>2, <2>2
    <3>2. CASE key[x] <= key[z]
      <4>1. \A y \in s \cup {z} : key[y] <= key[z]
        BY <3>1, <3>2
      <4>. QED  BY <4>1
    <3>3. CASE ~(key[x] <= key[z])
      <4>1. \A y \in s \cup {z} : key[y] <= key[x]
        BY <3>1, <3>3
      <4>. QED  BY <4>1
    <3>. QED  BY <3>2, <3>3
  <2>. QED  BY <2>1, <2>2
<1>. HIDE DEF T
<1>3. \A s \in SUBSET S : s \in T
  BY <1>1, <1>2, SubsetInduction
<1>. QED  BY <1>3 DEF T

\* Every finite set can be listed by a key that tells its elements apart.
LEMMA ListingExists ==
  ASSUME NEW S, IsFiniteSet(S), NEW key \in [S -> Int],
         \A x, y \in S : key[x] = key[y] => x = y
  PROVE  \E f : Listing(f, Cardinality(S), S, key)
<1>. DEFINE T == {n \in Nat : \A s \in SUBSET S :
                    Cardinality(s) = n => \E f : Listing(f, n, s, key)}
<1>0. \A s \in SUBSET S : IsFiniteSet(s) /\ Cardinality(s) \in Nat /\ (Cardinality(s) = 0 <=> s = {})
  BY FS_Subset, FS_CardinalityType, FS_EmptySet
<1>1. 0 \in T
  <2>1. Listing(<< >>, 0, {}, key)
    BY DEF Listing
  <2>. QED  BY <1>0, <2>1
<1>2. ASSUME NEW n \in Nat, n \in T
      PROVE  n + 1 \in T
  <2>. SUFFICES ASSUME NEW s \in SUBSET S, Cardinality(s) = n + 1
                PROVE  \E f : Listing(f, n + 1, s, key)
    OBVIOUS
  <2>1. s # {}
    BY <1>0
  <2>2. PICK x \in s : \A y \in s : key[y] <= key[x]
    <3>1. [y \in s |-> key[y]] \in [s -> Int]
      OBVIOUS
    <3>2. \E x \in s : \A y \in s : [z \in s |-> key[z]][y] <= [z \in s |-> key[z]][x]
      BY <1>0, <2>1, <3>1, GreatestKey
    <3>. QED  BY <3>2
  <2>3. Cardinality(s \ {x}) = n /\ s \ {x} \in SUBSET S
    BY <1>0, FS_RemoveElement
  <2>4. PICK f : Listing(f, n, s \ {x}, key)
    BY <1>2, <2>3
  <2>. DEFINE g == [i \in 1 .. n + 1 |-> IF i = n + 1 THEN x ELSE f[i]]
  <2>5. \A i \in 1 .. n : g[i] = f[i] /\ f[i] \in s \ {x}
    BY <2>4 DEF Listing
  <2>6. g \in [1 .. n + 1 -> s] /\ g[n + 1] = x
    BY <2>5
  <2>7. \A i, j \in 1 .. n + 1 : i < j => key[g[i]] < key[g[j]]
    <3>. SUFFICES ASSUME NEW i \in 1 .. n + 1, NEW j \in 1 .. n + 1, i < j
                  PROVE  key[g[i]] < key[g[j]]
      OBVIOUS
    <3>. HIDE DEF g
    <3>1. CASE j = n + 1
      <4>1. g[i] \in s \ {x}
        BY <2>5, <3>1
      <4>2. key[g[i]] <= key[x] /\ key[g[i]] # key[x]
        BY <2>2, <4>1
      <4>3. key[g[i]] \in Int /\ key[x] \in Int
        BY <4>1
      <4>. QED  BY <2>6, <3>1, <4>2, <4>3
    <3>2. CASE j # n + 1
      BY <2>4, <2>5, <3>2 DEF Listing
    <3>. QED  BY <3>1, <3>2
  <2>8. \A y \in s : \E i \in 1 .. n + 1 : g[i] = y
    <3>. SUFFICES ASSUME NEW y \in s
                  PROVE  \E i \in 1 .. n + 1 : g[i] = y
      OBVIOUS
    <3>. HIDE DEF g
    <3>1. CASE y = x
      BY <2>6, <3>1
    <3>2. CASE y # x
      <4>1. PICK i \in 1 .. n : f[i] = y
        BY <2>4, <3>2 DEF Listing
      <4>. QED  BY <2>5, <4>1
    <3>. QED  BY <3>1, <3>2
  <2>. HIDE DEF g
  <2>9. Listing(g, n + 1, s, key)
    BY <2>6, <2>7, <2>8 DEF Listing
  <2>. QED  BY <2>9
<1>. HIDE DEF T
<1>3. \A n \in Nat : n \in T
  BY <1>1, <1>2, SetInduction
<1>. QED  BY <1>0, <1>3 DEF T

\* The position of an element in the list is its rank by the key.
LEMMA ListingRank ==
  ASSUME NEW S, NEW key \in [S -> Int], NEW n \in Nat, NEW f, Listing(f, n, S, key)
  PROVE  /\ IsFiniteSet(S) /\ Cardinality(S) = n
         /\ \A i, j \in 1 .. n : f[i] = f[j] => i = j
         /\ \A k \in 1 .. n : Cardinality({y \in S : key[y] <= key[f[k]]}) = k
<1>0. /\ f \in [1 .. n -> S] /\ \A i \in 1 .. n : key[f[i]] \in Int
      /\ \A x \in S : \E i \in 1 .. n : f[i] = x
  BY DEF Listing
<1>1. \A i, j \in 1 .. n : f[i] = f[j] => i = j
  <2>. SUFFICES ASSUME NEW i \in 1 .. n, NEW j \in 1 .. n, f[i] = f[j], i # j
                PROVE  FALSE
    OBVIOUS
  <2>1. i < j \/ j < i
    OBVIOUS
  <2>2. key[f[i]] < key[f[j]] \/ key[f[j]] < key[f[i]]
    BY <2>1 DEF Listing
  <2>. QED  BY <1>0, <2>2
<1>2. \A i, j \in 1 .. n : key[f[i]] <= key[f[j]] <=> i <= j
  <2>. SUFFICES ASSUME NEW i \in 1 .. n, NEW j \in 1 .. n
                PROVE  key[f[i]] <= key[f[j]] <=> i <= j
    OBVIOUS
  <2>1. i < j \/ i = j \/ j < i
    OBVIOUS
  <2>2. /\ i < j => key[f[i]] < key[f[j]]
        /\ j < i => key[f[j]] < key[f[i]]
    BY DEF Listing
  <2>. QED  BY <1>0, <2>1, <2>2
<1>3. ASSUME NEW k \in 0 .. n, NEW R, R \in SUBSET S,
             \A i \in 1 .. n : f[i] \in R <=> i <= k
      PROVE  IsFiniteSet(R) /\ Cardinality(R) = k
  <2>. DEFINE g == [i \in 1 .. k |-> f[i]]
  <2>1. g \in Bijection(1 .. k, R)
    <3>1. g \in [1 .. k -> R]
      BY <1>3
    <3>2. \A i, j \in 1 .. k : g[i] = g[j] => i = j
      BY <1>1
    <3>3. \A x \in R : \E i \in 1 .. k : g[i] = x
      <4>. SUFFICES ASSUME NEW x \in R
                    PROVE  \E i \in 1 .. k : f[i] = x
        OBVIOUS
      <4>1. PICK i \in 1 .. n : f[i] = x
        BY <1>0, <1>3
      <4>2. i \in 1 .. k
        BY <1>3, <4>1
      <4>. QED  BY <4>1, <4>2
    <3>. HIDE DEF g
    <3>. QED  BY <3>1, <3>2, <3>3 DEF Bijection, Injection, Surjection, IsInjective
  <2>2. IsFiniteSet(1 .. k) /\ Cardinality(1 .. k) = k
    BY FS_Interval
  <2>. QED  BY <2>1, <2>2, FS_Bijection DEF ExistsBijection
<1>4. IsFiniteSet(S) /\ Cardinality(S) = n
  BY <1>0, <1>3
<1>5. ASSUME NEW k \in 1 .. n
      PROVE  Cardinality({y \in S : key[y] <= key[f[k]]}) = k
  <2>1. \A i \in 1 .. n : f[i] \in {y \in S : key[y] <= key[f[k]]} <=> i <= k
    BY <1>0, <1>2
  <2>. QED  BY <1>3, <2>1
<1>. QED  BY <1>1, <1>4, <1>5

\* The element of a given rank.
AtRank(S, key, k) == CHOOSE x \in S : Cardinality({y \in S : key[y] <= key[x]}) = k

\* So the element of a given rank is the one at that position.
LEMMA ListingIs ==
  ASSUME NEW S, NEW key \in [S -> Int], NEW n \in Nat, NEW f, Listing(f, n, S, key),
         NEW k \in 1 .. n
  PROVE  /\ Cardinality(S) = n
         /\ AtRank(S, key, k) = f[k]
<1>1. /\ Cardinality(S) = n
      /\ \A i \in 1 .. n : Cardinality({y \in S : key[y] <= key[f[i]]}) = i
  BY ListingRank
<1>. DEFINE rank == [x \in S |-> Cardinality({y \in S : key[y] <= key[x]})]
<1>2. \A i \in 1 .. n : rank[f[i]] = i /\ f[i] \in S
  BY <1>1 DEF Listing
<1>. HIDE DEF rank
<1>3. \A x \in S : rank[x] = k => x = f[k]
  BY <1>2 DEF Listing
<1>4. (CHOOSE x \in S : rank[x] = k) = f[k]
  BY <1>2, <1>3
<1>5. (CHOOSE x \in S : rank[x] = k) = AtRank(S, key, k)
  BY DEF rank, AtRank
<1>. QED  BY <1>1, <1>4, <1>5

\* There is one such list only.
LEMMA ListingOnce ==
  ASSUME NEW S, NEW key \in [S -> Int], NEW n \in Nat, NEW f, Listing(f, n, S, key),
         NEW m \in Nat, NEW g, Listing(g, m, S, key)
  PROVE  n = m /\ f = g
<1>1. n = m
  BY ListingRank
<1>2. \A k \in 1 .. n : f[k] = g[k]
  BY <1>1, ListingIs
<1>. QED  BY <1>1, <1>2 DEF Listing

\* No element is listed twice.
LEMMA ListedOnce ==
  ASSUME NEW S, NEW key \in [S -> Int], NEW n \in Nat, NEW f, Listing(f, n, S, key)
  PROVE  \A i, j \in 1 .. n : i # j => f[i] # f[j]
BY ListingRank

\* g is the list f without its element k, and lists T in the order of f.
Fewer(f, n, S, key, k, g, m, T, key2) ==
  /\ k \in 1 .. n /\ m = n - 1 /\ T = S \ {f[k]}
  /\ \A x \in T : key2[x] = key[x]
  /\ g = [j \in 1 .. m |-> IF j < k THEN f[j] ELSE f[j + 1]]

\* One element is taken out of a list.
LEMMA ListingLess ==
  ASSUME NEW S, NEW key \in [S -> Int], NEW n \in Nat, NEW f, Listing(f, n, S, key),
         NEW k, NEW T, NEW key2, NEW m, NEW g, Fewer(f, n, S, key, k, g, m, T, key2)
  PROVE  Listing(g, m, T, key2)
<1>. k \in 1 .. n /\ T = S \ {f[k]} /\ \A x \in T : key2[x] = key[x]
  BY DEF Fewer
<1>m. m = n - 1 /\ g = [j \in 1 .. n - 1 |-> IF j < k THEN f[j] ELSE f[j + 1]]
  BY DEF Fewer
<1>0. /\ f \in [1 .. n -> S] /\ \A i, j \in 1 .. n : i < j => key[f[i]] < key[f[j]]
      /\ \A x \in S : \E i \in 1 .. n : f[i] = x
  BY DEF Listing
<1>1. \A i, j \in 1 .. n : f[i] = f[j] => i = j
  BY ListingRank
<1>2. \A j \in 1 .. n - 1 : \E i \in 1 .. n : /\ g[j] = f[i] /\ i # k
                                              /\ i = IF j < k THEN j ELSE j + 1
  BY <1>m
<1>3. g \in [1 .. n - 1 -> T]
  BY <1>0, <1>1, <1>2, <1>m
<1>4. ASSUME NEW i \in 1 .. n - 1, NEW j \in 1 .. n - 1, i < j
      PROVE  key2[g[i]] < key2[g[j]]
  <2>1. PICK a \in 1 .. n : g[i] = f[a] /\ a = IF i < k THEN i ELSE i + 1
    BY <1>2
  <2>2. PICK b \in 1 .. n : g[j] = f[b] /\ b = IF j < k THEN j ELSE j + 1
    BY <1>2
  <2>3. a < b
    BY <1>4, <2>1, <2>2
  <2>4. key2[g[i]] = key[g[i]] /\ key2[g[j]] = key[g[j]]
    BY <1>3
  <2>5. key[f[a]] < key[f[b]]
    BY <1>0, <2>3
  <2>. QED  BY <2>1, <2>2, <2>4, <2>5
<1>5. ASSUME NEW x \in T
      PROVE  \E j \in 1 .. n - 1 : g[j] = x
  <2>1. PICK i \in 1 .. n : f[i] = x
    BY <1>0
  <2>2. i # k
    BY <2>1
  <2>3. CASE i < k
    <3>1. i \in 1 .. n - 1 /\ g[i] = f[i]
      BY <2>3, <1>m
    <3>. QED  BY <2>1, <3>1
  <2>4. CASE i > k
    <3>1. i - 1 \in 1 .. n - 1 /\ ~(i - 1 < k) /\ i - 1 + 1 = i
      BY <2>4
    <3>2. g[i - 1] = f[i]
      BY <3>1, <1>m
    <3>. QED  BY <2>1, <3>1, <3>2
  <2>. QED  BY <2>2, <2>3, <2>4
<1>6. Listing(g, n - 1, T, key2)
  BY <1>3, <1>4, <1>5 DEF Listing
<1>. QED  BY <1>6, <1>m

\* One is added that comes last.
LEMMA ListingMore ==
  ASSUME NEW S, NEW key \in [S -> Int], NEW n \in Nat, NEW f, Listing(f, n, S, key),
         NEW z, z \notin S, NEW T, T = S \cup {z}, NEW key2, \A x \in S : key2[x] = key[x],
         \A x \in S : key2[x] < key2[z],
         NEW m, m = n + 1, NEW g, g = [j \in 1 .. m |-> IF j = m THEN z ELSE f[j]]
  PROVE  Listing(g, m, T, key2)
<1>m. m = n + 1 /\ g = [j \in 1 .. n + 1 |-> IF j = n + 1 THEN z ELSE f[j]]
  OBVIOUS
<1>0. /\ f \in [1 .. n -> S] /\ \A i, j \in 1 .. n : i < j => key[f[i]] < key[f[j]]
      /\ \A x \in S : \E i \in 1 .. n : f[i] = x
  BY DEF Listing
<1>1. /\ \A j \in 1 .. n : j \in 1 .. n + 1 /\ g[j] = f[j] /\ f[j] \in S
      /\ n + 1 \in 1 .. n + 1 /\ g[n + 1] = z
  BY <1>0, <1>m
<1>3. \A j \in 1 .. n + 1 : j \in 1 .. n \/ j = n + 1
  OBVIOUS
<1>2. g \in [1 .. n + 1 -> T]
  <2>1. \A j \in 1 .. n + 1 : g[j] \in T
    BY <1>1, <1>3
  <2>. QED  BY <2>1, <1>m
<1>4. ASSUME NEW i \in 1 .. n + 1, NEW j \in 1 .. n + 1, i < j
      PROVE  key2[g[i]] < key2[g[j]]
  <2>1. i \in 1 .. n
    BY <1>4
  <2>2. CASE j \in 1 .. n
    BY <1>0, <1>1, <1>4, <2>1, <2>2
  <2>3. CASE j = n + 1
    BY <1>1, <2>1, <2>3
  <2>. QED  BY <1>3, <2>2, <2>3
<1>5. \A x \in T : \E j \in 1 .. n + 1 : g[j] = x
  BY <1>0, <1>1
<1>6. Listing(g, n + 1, T, key2)
  BY <1>2, <1>4, <1>5 DEF Listing
<1>. QED  BY <1>6, <1>m

----------------------------------------------------------------------------
\* Sequences put one behind the other

\* The places of a sequence of sequences, and their order.
Cells(ss, n) == {c \in (1 .. n) \X Nat : c[2] \in 1 .. Len(ss[c[1]])}
Before(a, b) == a[1] < b[1] \/ (a[1] = b[1] /\ a[2] < b[2])

\* pos tells for each place of flat which one of the first n sequences it
\* came from and where it was there.
FlatBy(flat, ss, n, pos) ==
  /\ pos \in [1 .. Len(flat) -> Cells(ss, n)]
  /\ \A i, j \in 1 .. Len(flat) : i < j => Before(pos[i], pos[j])
  /\ \A c \in Cells(ss, n) : \E i \in 1 .. Len(flat) : pos[i] = c
  /\ \A i \in 1 .. Len(flat) : flat[i] = ss[pos[i][1]][pos[i][2]]

LEMMA FlatMore ==
  ASSUME NEW T, NEW ss \in Seq(Seq(T)), NEW n \in Nat, n + 1 \in 1 .. Len(ss),
         NEW flat \in Seq(T), NEW pos, FlatBy(flat, ss, n, pos)
  PROVE  \E q : FlatBy(flat \o ss[n + 1], ss, n + 1, q)
<1>s. PICK s, m : s = ss[n + 1] /\ m = Len(flat)
  OBVIOUS
<1>0. s \in Seq(T) /\ m \in Nat /\ Len(s) \in Nat
  BY <1>s
<1>p. /\ pos \in [1 .. m -> Cells(ss, n)]
      /\ \A i, j \in 1 .. m : i < j => Before(pos[i], pos[j])
      /\ \A c \in Cells(ss, n) : \E i \in 1 .. m : pos[i] = c
      /\ \A i \in 1 .. m : flat[i] = ss[pos[i][1]][pos[i][2]]
  BY <1>s DEF FlatBy
<1>q. PICK q : q = [i \in 1 .. m + Len(s) |-> IF i <= m THEN pos[i] ELSE <<n + 1, i - m>>]
  OBVIOUS
<1>1. /\ flat \o s \in Seq(T) /\ Len(flat \o s) = m + Len(s)
      /\ \A i \in 1 .. m + Len(s) : (flat \o s)[i] = IF i <= m THEN flat[i] ELSE s[i - m]
  BY <1>0, <1>s
<1>2. \A i \in 1 .. m : q[i] = pos[i] /\ pos[i] \in Cells(ss, n)
  <2>. SUFFICES ASSUME NEW i \in 1 .. m
                PROVE  q[i] = pos[i] /\ pos[i] \in Cells(ss, n)
    OBVIOUS
  <2>1. i \in 1 .. m + Len(s) /\ i <= m
    BY <1>0
  <2>. QED  BY <1>p, <1>q, <2>1
<1>3. \A i \in m + 1 .. m + Len(s) : q[i] = <<n + 1, i - m>> /\ i - m \in 1 .. Len(s)
  BY <1>0, <1>q
<1>4. \A c : c \in Cells(ss, n + 1) <=> c \in Cells(ss, n) \/ \E i \in 1 .. Len(s) : c = <<n + 1, i>>
  <2>1. \A k, i : <<k, i>> \in Cells(ss, n + 1) <=>
                    <<k, i>> \in Cells(ss, n) \/ (k = n + 1 /\ i \in 1 .. Len(s))
    BY <1>0, <1>s DEF Cells
  <2>. QED  BY <2>1 DEF Cells
<1>5. q \in [1 .. m + Len(s) -> Cells(ss, n + 1)]
  <2>1. ASSUME NEW i \in 1 .. m + Len(s)
        PROVE  q[i] \in Cells(ss, n + 1)
    <3>1. CASE i <= m
      <4>1. i \in 1 .. m
        BY <1>0, <3>1
      <4>. QED  BY <1>2, <1>4, <4>1
    <3>2. CASE ~(i <= m)
      <4>1. i \in m + 1 .. m + Len(s)
        BY <1>0, <3>2
      <4>. QED  BY <1>3, <1>4, <4>1
    <3>. QED  BY <3>1, <3>2
  <2>. QED  BY <1>q, <2>1
<1>6. \A c \in Cells(ss, n) : c[1] \in 1 .. n
  BY DEF Cells
<1>7. ASSUME NEW i \in 1 .. m + Len(s), NEW j \in 1 .. m + Len(s), i < j
      PROVE  Before(q[i], q[j])
  <2>1. CASE j <= m
    <3>1. i \in 1 .. m /\ j \in 1 .. m
      BY <1>0, <1>7, <2>1
    <3>2. Before(pos[i], pos[j])
      BY <1>7, <1>p, <3>1
    <3>. QED  BY <1>2, <3>1, <3>2
  <2>2. CASE i <= m /\ ~(j <= m)
    <3>1. i \in 1 .. m /\ j \in m + 1 .. m + Len(s)
      BY <1>0, <1>7, <2>2
    <3>2. q[i][1] \in 1 .. n
      BY <1>2, <1>6, <3>1
    <3>3. q[j] = <<n + 1, j - m>>
      BY <1>3, <3>1
    <3>. QED  BY <3>2, <3>3 DEF Before
  <2>3. CASE ~(i <= m)
    <3>1. i \in m + 1 .. m + Len(s) /\ j \in m + 1 .. m + Len(s)
      BY <1>0, <1>7, <2>3
    <3>2. q[i] = <<n + 1, i - m>> /\ q[j] = <<n + 1, j - m>> /\ i - m < j - m
      BY <1>0, <1>3, <1>7, <3>1
    <3>. QED  BY <3>2 DEF Before
  <2>. QED  BY <2>1, <2>2, <2>3
<1>8. ASSUME NEW c \in Cells(ss, n + 1)
      PROVE  \E i \in 1 .. m + Len(s) : q[i] = c
  <2>1. CASE c \in Cells(ss, n)
    <3>1. PICK i \in 1 .. m : pos[i] = c
      BY <1>p, <2>1
    <3>2. i \in 1 .. m + Len(s)
      BY <1>0
    <3>. QED  BY <1>2, <3>1, <3>2
  <2>2. CASE \E i \in 1 .. Len(s) : c = <<n + 1, i>>
    <3>1. PICK i \in 1 .. Len(s) : c = <<n + 1, i>>
      BY <2>2
    <3>2. m + i \in m + 1 .. m + Len(s) /\ m + i \in 1 .. m + Len(s) /\ (m + i) - m = i
      BY <1>0
    <3>. QED  BY <1>3, <3>1, <3>2
  <2>. QED  BY <1>4, <2>1, <2>2
<1>9. ASSUME NEW i \in 1 .. m + Len(s)
      PROVE  (flat \o s)[i] = ss[q[i][1]][q[i][2]]
  <2>1. CASE i <= m
    <3>1. i \in 1 .. m
      BY <1>0, <2>1
    <3>2. flat[i] = ss[pos[i][1]][pos[i][2]]
      BY <1>p, <3>1
    <3>. QED  BY <1>1, <1>2, <2>1, <3>1, <3>2
  <2>2. CASE ~(i <= m)
    <3>1. i \in m + 1 .. m + Len(s)
      BY <1>0, <2>2
    <3>. QED  BY <1>1, <1>3, <2>2, <3>1, <1>s
  <2>. QED  BY <2>1, <2>2
<1>10. FlatBy(flat \o s, ss, n + 1, q)
  BY <1>1, <1>5, <1>7, <1>8, <1>9 DEF FlatBy
<1>. QED  BY <1>10, <1>s

\* h[i] is the first i sequences put one behind the other.
Flattening(h, ss, n, S) ==
  /\ h \in [1 .. n -> S]
  /\ \A i \in 1 .. n : h[i] = IF i = 1 THEN ss[i] ELSE h[i - 1] \o ss[i]

\* What FlattenSeq of the community modules returns.
LEMMA FlattenIs ==
  ASSUME NEW T, NEW ss \in Seq(Seq(T))
  PROVE  /\ FlattenSeq(ss) \in Seq(T)
         /\ \E pos : FlatBy(FlattenSeq(ss), ss, Len(ss), pos)
<1>0. CASE Len(ss) = 0
  <2>1. ss = << >> /\ FlattenSeq(ss) = << >>
    BY <1>0 DEF FlattenSeq
  <2>2. Cells(ss, 0) = {}
    BY DEF Cells
  <2>3. FlatBy(<< >>, ss, 0, << >>)
    BY <2>2 DEF FlatBy
  <2>4. << >> \in Seq(T)
    OBVIOUS
  <2>5. FlatBy(FlattenSeq(ss), ss, Len(ss), << >>)
    BY ONLY <1>0, <2>1, <2>3
  <2>. QED  BY <2>1, <2>4, <2>5
<1>. SUFFICES ASSUME Len(ss) # 0
              PROVE  /\ FlattenSeq(ss) \in Seq(T)
                     /\ \E pos : FlatBy(FlattenSeq(ss), ss, Len(ss), pos)
  BY <1>0
<1>. DEFINE L == Len(ss)
            D == {n \in Nat : n <= L => \E h : Flattening(h, ss, n, Seq(T))}
<1>1. L \in Nat /\ L >= 1 /\ \A i \in 1 .. L : ss[i] \in Seq(T)
  OBVIOUS
<1>2. 0 \in D
  <2>1. Flattening(<< >>, ss, 0, Seq(T))
    BY DEF Flattening
  <2>. QED  BY <2>1
<1>3. ASSUME NEW n \in Nat, n \in D
      PROVE  n + 1 \in D
  <2>. SUFFICES ASSUME n + 1 <= L
                PROVE  \E h : Flattening(h, ss, n + 1, Seq(T))
    OBVIOUS
  <2>1. PICK h : Flattening(h, ss, n, Seq(T))
    BY <1>1, <1>3
  <2>. DEFINE v == IF n = 0 THEN ss[1] ELSE h[n] \o ss[n + 1]
              g == [i \in 1 .. n + 1 |-> IF i = n + 1 THEN v ELSE h[i]]
  <2>2. v \in Seq(T)
    <3>1. n # 0 => h[n] \in Seq(T) /\ ss[n + 1] \in Seq(T)
      BY <1>1, <2>1 DEF Flattening
    <3>. QED  BY <1>1, <3>1
  <2>3. g \in [1 .. n + 1 -> Seq(T)]
    BY <2>1, <2>2 DEF Flattening
  <2>4. ASSUME NEW i \in 1 .. n + 1
        PROVE  g[i] = IF i = 1 THEN ss[i] ELSE g[i - 1] \o ss[i]
    <3>1. CASE i = n + 1
      BY <3>1
    <3>2. CASE i # n + 1
      <4>1. i \in 1 .. n /\ g[i] = h[i]
        BY <3>2
      <4>2. i # 1 => i - 1 \in 1 .. n + 1 /\ i - 1 # n + 1
        BY <4>1
      <4>3. i # 1 => g[i - 1] = h[i - 1]
        BY <4>2
      <4>4. h[i] = IF i = 1 THEN ss[i] ELSE h[i - 1] \o ss[i]
        BY <2>1, <4>1 DEF Flattening
      <4>. HIDE DEF g
      <4>. QED  BY <4>1, <4>3, <4>4
    <3>. QED  BY <3>1, <3>2
  <2>. HIDE DEF g
  <2>5. Flattening(g, ss, n + 1, Seq(T))
    BY <2>3, <2>4 DEF Flattening
  <2>. QED  BY <2>5
<1>. HIDE DEF D
<1>4. \A n \in Nat : n \in D
  BY <1>2, <1>3, SetInduction
<1>5. PICK h0 : Flattening(h0, ss, L, Seq(T))
  BY <1>1, <1>4 DEF D
<1>. DEFINE F == CHOOSE f : f = [i \in 1 .. L |-> IF i = 1 THEN ss[i] ELSE f[i - 1] \o ss[i]]
<1>6. F = [i \in 1 .. L |-> IF i = 1 THEN ss[i] ELSE F[i - 1] \o ss[i]]
  <2>1. h0 = [i \in 1 .. L |-> IF i = 1 THEN ss[i] ELSE h0[i - 1] \o ss[i]]
    BY <1>5 DEF Flattening
  <2>. QED  BY <2>1
<1>7. FlattenSeq(ss) = F[L]
  BY DEF FlattenSeq
<1>. HIDE DEF F, L
<1>. DEFINE G == {n \in Nat : n + 1 <= L => /\ F[n + 1] \in Seq(T)
                                            /\ \E pos : FlatBy(F[n + 1], ss, n + 1, pos)}
<1>8. 0 \in G
  <2>1. F[1] = << >> \o ss[1] /\ ss[1] \in Seq(T)
    BY <1>1, <1>6
  <2>2. Cells(ss, 0) = {}
    BY DEF Cells
  <2>3. FlatBy(<< >>, ss, 0, << >>)
    BY <2>2 DEF FlatBy
  <2>4. << >> \in Seq(T) /\ 0 + 1 \in 1 .. Len(ss)
    BY <1>1 DEF L
  <2>5. \E q : FlatBy(<< >> \o ss[0 + 1], ss, 0 + 1, q)
    BY <2>3, <2>4, FlatMore
  <2>. QED  BY <2>1, <2>5
<1>9. ASSUME NEW n \in Nat, n \in G
      PROVE  n + 1 \in G
  <2>. SUFFICES ASSUME n + 2 <= L
                PROVE  F[n + 2] \in Seq(T) /\ \E pos : FlatBy(F[n + 2], ss, n + 2, pos)
    OBVIOUS
  <2>1. F[n + 2] = F[n + 1] \o ss[n + 2]
    <3>1. n + 2 \in 1 .. L /\ n + 2 # 1 /\ (n + 2) - 1 = n + 1
      BY <1>1
    <3>. QED  BY <1>6, <3>1
  <2>2. F[n + 1] \in Seq(T) /\ \E pos : FlatBy(F[n + 1], ss, n + 1, pos)
    BY <1>1, <1>9
  <2>3. ss[n + 2] \in Seq(T) /\ (n + 1) + 1 \in 1 .. Len(ss) /\ n + 1 \in Nat /\ (n + 1) + 1 = n + 2
    BY <1>1 DEF L
  <2>. HIDE DEF G
  <2>4. \E q : FlatBy(F[n + 1] \o ss[(n + 1) + 1], ss, (n + 1) + 1, q)
    BY <2>2, <2>3, FlatMore
  <2>. QED  BY <2>1, <2>2, <2>3, <2>4
<1>. HIDE DEF G
<1>10. \A n \in Nat : n \in G
  BY <1>8, <1>9, SetInduction
<1>11. L - 1 \in Nat /\ (L - 1) + 1 = L
  BY <1>1
<1>12. F[L] \in Seq(T) /\ \E pos : FlatBy(F[L], ss, L, pos)
  <2>1. L - 1 \in G
    BY <1>10, <1>11
  <2>2. L <= L
    BY <1>1
  <2>. QED  BY <1>11, <2>1, <2>2 DEF G
<1>. QED  BY <1>7, <1>12 DEF L

----------------------------------------------------------------------------
\* Sequences without one element

\* What removing one element of a sequence leaves.
LEMMA RemoveAtElements ==
  ASSUME NEW S, NEW s \in Seq(S), NEW i \in 1 .. Len(s)
  PROVE  /\ RemoveAt(s, i) \in Seq(S)
         /\ Len(RemoveAt(s, i)) = Len(s) - 1
         /\ \A j \in 1 .. Len(s) - 1 :
              RemoveAt(s, i)[j] = IF j < i THEN s[j] ELSE s[j + 1]
<1>. DEFINE a == SubSeq(s, 1, i - 1)
            b == SubSeq(s, i + 1, Len(s))
<1>1. a \in Seq(S) /\ Len(a) = i - 1
  OBVIOUS
<1>2. b \in Seq(S) /\ Len(b) = Len(s) - i
  OBVIOUS
<1>3. \A j \in 1 .. i - 1 : a[j] = s[j]
  OBVIOUS
<1>4. \A j \in 1 .. Len(s) - i : b[j] = s[i + j]
  OBVIOUS
<1>5. RemoveAt(s, i) = a \o b
  BY DEF RemoveAt
<1>. HIDE DEF a, b
<1>6. a \o b \in Seq(S) /\ Len(a \o b) = Len(s) - 1
  BY <1>1, <1>2
<1>7. ASSUME NEW j \in 1 .. Len(s) - 1
      PROVE  (a \o b)[j] = IF j < i THEN s[j] ELSE s[j + 1]
  <2>1. CASE j < i
    <3>1. (a \o b)[j] = a[j]
      BY <1>1, <1>2, <2>1
    <3>. QED  BY <3>1, <1>3, <2>1
  <2>2. CASE ~(j < i)
    <3>1. (a \o b)[j] = b[j - (i - 1)]
      BY <1>1, <1>2, <2>2
    <3>2. j - (i - 1) \in 1 .. Len(s) - i
      BY <2>2
    <3>. QED  BY <3>1, <3>2, <1>4, <2>2
  <2>. QED  BY <2>1, <2>2
<1>. QED  BY <1>5, <1>6, <1>7
=============================================================================
