---------------------------- MODULE FoldTheorems ----------------------------
(***************************************************************************)
(* Folds over finite sets, and folds over sequences by their positions:    *)
(* that they have a value, and induction over them.  Both rest on the      *)
(* least element of a set of numbers.                                      *)
(***************************************************************************)
EXTENDS Integers, FiniteSets, TLAPS, FiniteSetTheorems, WellFoundedInduction

\* A non-empty set of numbers has a least element.
LEMMA LeastNumber ==
  ASSUME NEW T, T \subseteq Nat, T # {}
  PROVE  \E n \in T : \A m \in T : n <= m
<1> DEFINE R == OpToRel(<, Nat)
<1>1. IsWellFoundedOn(R, Nat)
  BY NatLessThanWellFounded
<1>2. PICK n \in T : \A m \in T : ~(<<m, n>> \in R)
  BY <1>1, WFMin, Zenon
<1>3. \A m \in T : m < n => <<m, n>> \in R
  BY DEF OpToRel
<1> HIDE DEF R
<1>4. \A m \in T : ~(m < n)
  BY <1>2, <1>3
<1>5. n \in Nat /\ \A m \in T : m \in Nat
  OBVIOUS
<1> QED BY <1>4, <1>5

\* A non-empty set of numbers up to n has a greatest element.
LEMMA GreatestNumber ==
  ASSUME NEW n \in Nat, NEW T, T \subseteq 0 .. n, T # {}
  PROVE  \E m \in T : \A i \in T : m >= i
<1> DEFINE Down == {n - i : i \in T}
<1>1. \A i \in T : i \in Nat /\ n - i \in Nat
  OBVIOUS
<1>2. Down \subseteq Nat
  BY <1>1
<1>3. Down # {}
  OBVIOUS
<1>4. PICK k \in Down : \A j \in Down : k <= j
  BY <1>2, <1>3, LeastNumber
<1>5. PICK m \in T : k = n - m
  OBVIOUS
<1>6. \A i \in T : n - m <= n - i
  BY <1>4, <1>5
<1> QED BY <1>1, <1>6

\* pick[s] is an element of s.
Picks(S, pick) == \A s \in SUBSET S : s # {} => pick[s] \in s

\* g folds f over the subsets of S, beginning with base: f[x][v] adds x to
\* the value v.
IsFold(S, U, pick, base, f, g) ==
  /\ g \in [SUBSET S -> U]
  /\ g[{}] = base
  /\ \A s \in SUBSET S : s # {} => g[s] = f[pick[s]][g[s \ {pick[s]}]]

\* Induction over the subsets of a finite set S, one element pick[s] taken
\* out of s at a time: what holds of h at {} and is carried to s from the
\* rest of s holds of h at S.  T[s] is the set of values allowed at s.
LEMMA SubsetInduction ==
  ASSUME NEW S, IsFiniteSet(S), NEW pick, Picks(S, pick), NEW h, NEW T,
         h[{}] \in T[{}],
         \A s \in SUBSET S : s # {} /\ h[s \ {pick[s]}] \in T[s \ {pick[s]}] => h[s] \in T[s]
  PROVE  \A s \in SUBSET S : h[s] \in T[s]
<1> DEFINE Bad == {s \in SUBSET S : h[s] \notin T[s]}
           Sizes == {Cardinality(s) : s \in Bad}
<1>1. \A s \in SUBSET S : IsFiniteSet(s) /\ Cardinality(s) \in Nat
  BY FS_Subset, FS_CardinalityType
<1> SUFFICES ASSUME Bad # {} PROVE FALSE
  OBVIOUS
<1>2. Sizes \subseteq Nat /\ Sizes # {}
  BY <1>1
<1>3. PICK n \in Sizes : \A m \in Sizes : n <= m
  BY <1>2, LeastNumber
<1>4. PICK s \in Bad : Cardinality(s) = n
  OBVIOUS
<1>5. s # {} /\ pick[s] \in s
  BY <1>4 DEF Picks
<1> DEFINE r == s \ {pick[s]}
<1>6. r \in SUBSET S /\ Cardinality(r) = Cardinality(s) - 1
  BY <1>1, <1>5, FS_RemoveElement
<1>7. r \in Bad
  BY <1>4, <1>5, <1>6
<1>8. Cardinality(r) >= n
  BY <1>3, <1>7
<1> QED BY <1>1, <1>4, <1>6, <1>8

\* A fold has a value: some function on the subsets of S satisfies its
\* equation.  U holds all values.
LEMMA FoldExists ==
  ASSUME NEW S, IsFiniteSet(S), NEW pick, Picks(S, pick), NEW U, NEW base \in U,
         NEW f \in [S -> [U -> U]]
  PROVE  \E g : IsFold(S, U, pick, base, f, g)
<1> DEFINE Step(g, s) == IF s = {} THEN base ELSE f[pick[s]][g[s \ {pick[s]}]]
           Upto(g, n) == \A s \in SUBSET S : Cardinality(s) <= n => g[s] = Step(g, s)
           Has(n) == \E g \in [SUBSET S -> U] : Upto(g, n)
           Bad == {n \in Nat : ~Has(n)}
<1>1. \A s \in SUBSET S : IsFiniteSet(s) /\ Cardinality(s) \in Nat /\ Cardinality(s) <= Cardinality(S)
  BY FS_Subset, FS_CardinalityType
<1>2. \A s \in SUBSET S : Cardinality(s) = 0 <=> s = {}
  BY <1>1, FS_EmptySet
<1>3. \A s \in SUBSET S : s # {} => /\ s \ {pick[s]} \in SUBSET S
                                   /\ Cardinality(s \ {pick[s]}) = Cardinality(s) - 1
                                   /\ pick[s] \in S
  BY <1>1, FS_RemoveElement DEF Picks
<1>4. Has(0)
  <2> DEFINE g == [s \in SUBSET S |-> base]
  <2>1. g \in [SUBSET S -> U]
    OBVIOUS
  <2>2. \A s \in SUBSET S : Cardinality(s) <= 0 => s = {}
    BY <1>1, <1>2
  <2>3. Upto(g, 0)
    BY <2>2
  <2> QED BY <2>1, <2>3
<1>5. ASSUME NEW n \in Nat, Has(n) PROVE Has(n + 1)
  <2>1. PICK g \in [SUBSET S -> U] : Upto(g, n)
    BY <1>5
  <2> DEFINE k == [s \in SUBSET S |-> IF Cardinality(s) = n + 1 THEN Step(g, s) ELSE g[s]]
  <2>2. ASSUME NEW s \in SUBSET S PROVE Step(g, s) \in U
    <3>1. CASE s = {}
      BY <3>1
    <3>2. CASE s # {}
      <4>1. pick[s] \in S /\ g[s \ {pick[s]}] \in U
        BY <1>3, <3>2
      <4>2. f[pick[s]][g[s \ {pick[s]}]] \in U
        BY <4>1
      <4> QED BY <3>2, <4>2
    <3> QED BY <3>1, <3>2
  <2>3. k \in [SUBSET S -> U]
    BY <2>2
  <2>4. ASSUME NEW s \in SUBSET S, Cardinality(s) <= n + 1 PROVE k[s] = Step(k, s)
    <3>0. s # {} => Cardinality(s \ {pick[s]}) # n + 1 /\ s \ {pick[s]} \in SUBSET S
      BY <1>1, <1>3, <2>4
    <3>1. Step(k, s) = Step(g, s)
      BY <3>0
    <3>2. CASE Cardinality(s) = n + 1
      BY <3>1, <3>2
    <3>3. CASE Cardinality(s) # n + 1
      <4>1. Cardinality(s) <= n
        BY <1>1, <2>4, <3>3
      <4>2. k[s] = g[s] /\ g[s] = Step(g, s)
        BY <2>1, <3>3, <4>1
      <4> QED BY <3>1, <4>2
    <3> QED BY <3>2, <3>3
  <2> HIDE DEF k
  <2> QED BY <2>3, <2>4
<1>6. Bad = {}
  <2> HIDE DEF Has
  <2> SUFFICES ASSUME Bad # {} PROVE FALSE
    OBVIOUS
  <2>1. PICK n \in Bad : \A m \in Bad : n <= m
    BY LeastNumber
  <2>2. n # 0
    BY <1>4
  <2>3. n - 1 \in Nat /\ n - 1 \notin Bad
    BY <2>1, <2>2
  <2>4. Has(n - 1 + 1)
    BY <1>5, <2>3
  <2>5. n - 1 + 1 = n /\ n \in Nat
    BY <2>3
  <2> QED BY <2>1, <2>4, <2>5, Zenon
<1>7. Has(Cardinality(S))
  BY <1>1, <1>6
<1>8. PICK g \in [SUBSET S -> U] : \A s \in SUBSET S : g[s] = Step(g, s)
  BY <1>1, <1>7
<1>9. g[{}] = base /\ \A s \in SUBSET S : s # {} => g[s] = f[pick[s]][g[s \ {pick[s]}]]
  BY <1>8
<1> QED BY <1>9 DEF IsFold
=============================================================================
