---------------------------- MODULE ViewsProofs ----------------------------
(***************************************************************************)
(* What is shown to users, for any number of users, titles and events, and *)
(* what an archive of theirs brings back.                                  *)
(***************************************************************************)
EXTENDS MCViews, FiniteSetTheorems, WellFoundedInduction, TLAPS

(* Totals over finite sets *)

\* Induction over the subsets of a finite set: G is the set of those for which the
\* claim holds.
LEMMA SubsetsInduct ==
  ASSUME NEW S, IsFiniteSet(S), NEW G,
         \A T \in SUBSET S : (\A x \in T : T \ {x} \in G) => T \in G
  PROVE  S \in G
<1>1. SUFFICES ASSUME S \notin G PROVE FALSE
  OBVIOUS
<1> DEFINE Bad == {T \in FiniteSubsetsOf(S) : T \notin G}
<1>2. FiniteSubsetsOf(S) = SUBSET S
  BY FS_FiniteSubsetsOfFinite
<1>3. Bad # {} /\ Bad \subseteq FiniteSubsetsOf(S)
  BY <1>1, <1>2
<1>4. PICK T \in Bad : \A U \in Bad : ~(<<U, T>> \in StrictSubsetOrdering(S))
  <2> HIDE DEF Bad
  <2> QED BY <1>3, FS_StrictSubsetOrderingWellFounded, WFMin
<1>5. T \in SUBSET S /\ T \notin G
  BY <1>2
<1>6. PICK x \in T : T \ {x} \notin G
  BY <1>5
<1>7. T \ {x} \in Bad
  BY <1>2, <1>5, <1>6
<1>8. <<T \ {x}, T>> \in StrictSubsetOrdering(S)
  BY <1>5, <1>6 DEF StrictSubsetOrdering
<1> QED
  BY <1>4, <1>7, <1>8

LEMMA NatInduct ==
  ASSUME NEW G, 0 \in G, \A n \in Nat : n \in G => n + 1 \in G
  PROVE  Nat \subseteq G
<1>1. SUFFICES ASSUME NEW m \in Nat, m \notin G PROVE FALSE
  OBVIOUS
<1> DEFINE Bad == {n \in Nat : n \notin G}
<1>2. PICK n \in Bad : \A k \in Bad : ~(<<k, n>> \in OpToRel(<, Nat))
  <2>1. Bad # {} /\ Bad \subseteq Nat
    BY <1>1
  <2> HIDE DEF Bad
  <2> QED BY <2>1, NatLessThanWellFounded, WFMin
<1>3. n \in Nat \ {0} /\ n - 1 \in Nat /\ n - 1 \notin G
  BY SMT
<1>4. <<n - 1, n>> \in OpToRel(<, Nat)
  BY <1>3 DEF OpToRel
<1> QED
  BY <1>2, <1>3, <1>4

\* What MapThenSumSet removes from a set next.
OneOf(T) == CHOOSE x \in T : TRUE

\* g is a fold over each of the Sets: with the result of the rest, step makes
\* that of a set of the element taken next; b is that of the empty set.
Folds(g, step, b, Sets) ==
  \A T \in Sets : g[T] = IF T = {} THEN b ELSE step[<<OneOf(T), g[T \ {OneOf(T)}]>>]

LEMMA FoldExists ==
  ASSUME NEW S, IsFiniteSet(S), NEW R, NEW b \in R,
         NEW step, \A x \in S : \A y \in R : step[<<x, y>>] \in R
  PROVE  \E g \in [SUBSET S -> R] : Folds(g, step, b, SUBSET S)
<1> DEFINE Upto(n) == {T \in SUBSET S : Cardinality(T) <= n}
           G == {n \in Nat : \E g \in [Upto(n) -> R] : Folds(g, step, b, Upto(n))}
<1>0. \A T \in SUBSET S : IsFiniteSet(T) /\ Cardinality(T) \in Nat /\ Cardinality(T) <= Cardinality(S)
  BY FS_Subset, FS_CardinalityType
<1>1. Upto(0) = {{}}
  BY <1>0, FS_EmptySet
<1>2. 0 \in G
  <2> DEFINE g == [T \in {{}} |-> b]
  <2>1. g \in [{{}} -> R] /\ Folds(g, step, b, {{}})
    BY DEF Folds
  <2> HIDE DEF g
  <2> QED
    BY <1>1, <2>1
<1>3. ASSUME NEW n \in Nat, n \in G PROVE n + 1 \in G
  <2>1. PICK g \in [Upto(n) -> R] : Folds(g, step, b, Upto(n))
    BY <1>3
  <2> DEFINE h == [T \in Upto(n + 1) |-> IF T = {} THEN b ELSE step[<<OneOf(T), g[T \ {OneOf(T)}]>>]]
  <2>2. ASSUME NEW T \in Upto(n + 1), T # {}
        PROVE  OneOf(T) \in S /\ T \ {OneOf(T)} \in Upto(n) /\ T \ {OneOf(T)} \in Upto(n + 1)
    <3>1. OneOf(T) \in T
      BY <2>2 DEF OneOf
    <3>2. Cardinality(T \ {OneOf(T)}) = Cardinality(T) - 1
      BY <1>0, <3>1, FS_RemoveElement
    <3> QED
      BY <1>0, <3>1, <3>2
  <2>3. h \in [Upto(n + 1) -> R]
    BY <2>1, <2>2
  <2>4. \A T \in Upto(n) : T \in Upto(n + 1) /\ h[T] = g[T]
    BY <1>0, <2>1 DEF Folds
  <2> HIDE DEF Upto
  <2>5. Folds(h, step, b, Upto(n + 1))
    BY <2>2, <2>3, <2>4 DEF Folds
  <2> HIDE DEF h
  <2> QED
    BY <2>3, <2>5
<1>4. Cardinality(S) \in G
  <2> HIDE DEF G
  <2> QED
    BY <1>0, <1>2, <1>3, NatInduct
<1>5. Upto(Cardinality(S)) = SUBSET S
  BY <1>0
<1> QED
  BY <1>4, <1>5

\* g[T] is the total of f over each of the sets in D.
Totals(g, f, Sets) ==
  /\ g \in [Sets -> Int]
  /\ \A T \in Sets : g[T] = IF T = {} THEN 0 ELSE f[OneOf(T)] + g[T \ {OneOf(T)}]

LEMMA TotalsExist ==
  ASSUME NEW S, IsFiniteSet(S), NEW f, \A x \in S : f[x] \in Int
  PROVE  \E g : Totals(g, f, SUBSET S)
<1> DEFINE step == [z \in S \X Int |-> f[z[1]] + z[2]]
<1>1. \A x \in S : \A y \in Int : step[<<x, y>>] = f[x] + y
  OBVIOUS
<1> HIDE DEF step
<1>2. \A x \in S : \A y \in Int : step[<<x, y>>] \in Int
  <2>1. ASSUME NEW x \in S, NEW y \in Int PROVE step[<<x, y>>] \in Int
    <3>1. step[<<x, y>>] = f[x] + y /\ f[x] \in Int
      BY <1>1
    <3> QED BY <3>1
  <2> QED BY <2>1
<1>3. PICK g \in [SUBSET S -> Int] : Folds(g, step, 0, SUBSET S)
  <2>1. 0 \in Int
    OBVIOUS
  <2> QED BY <1>2, <2>1, FoldExists, Zenon
<1>4. ASSUME NEW T \in SUBSET S PROVE g[T] = IF T = {} THEN 0 ELSE f[OneOf(T)] + g[T \ {OneOf(T)}]
  <2>1. T # {} => OneOf(T) \in S /\ T \ {OneOf(T)} \in SUBSET S
    BY DEF OneOf
  <2> QED
    BY <1>1, <1>3, <2>1 DEF Folds
<1>5. Totals(g, f, SUBSET S)
  BY <1>4 DEF Totals
<1> QED
  BY <1>5

SumOf(f, S) == MapThenSumSet(LAMBDA x : f[x], S)

LEMMA SumIs ==
  ASSUME NEW S, IsFiniteSet(S), NEW f, \A x \in S : f[x] \in Int
  PROVE  \E g : Totals(g, f, SUBSET S) /\ SumOf(f, S) = g[S]
<1> DEFINE Def(g) == [T \in SUBSET S |-> IF T = {} THEN 0 ELSE f[OneOf(T)] + g[T \ {OneOf(T)}]]
           g == CHOOSE g : g = Def(g)
<1>1. SumOf(f, S) = g[S]
  BY Zenon DEF SumOf, MapThenSumSet, MapThenFoldSet, OneOf
<1>2. PICK h : Totals(h, f, SUBSET S)
  BY TotalsExist
<1>3. h = Def(h)
  BY <1>2 DEF Totals
<1>4. g = Def(g)
  <2> HIDE DEF Def
  <2> QED BY <1>3
<1> HIDE DEF g
<1>5. \A T \in SUBSET S : g[T] = IF T = {} THEN 0 ELSE f[OneOf(T)] + g[T \ {OneOf(T)}]
  BY <1>4
<1> DEFINE G == {T \in SUBSET S : g[T] = h[T]}
<1>6. ASSUME NEW U \in SUBSET S PROVE U \in G
  <2>1. ASSUME NEW T \in SUBSET U, \A x \in T : T \ {x} \in G PROVE T \in G
    <3>1. CASE T = {}
      BY <1>2, <1>5, <3>1 DEF Totals
    <3>2. CASE T # {}
      <4>1. OneOf(T) \in T
        BY <3>2 DEF OneOf
      <4>2. g[T \ {OneOf(T)}] = h[T \ {OneOf(T)}]
        BY <2>1, <4>1
      <4> QED
        BY <1>2, <1>5, <3>2, <4>2 DEF Totals
    <3> QED
      BY <3>1, <3>2
  <2>2. IsFiniteSet(U)
    BY FS_Subset
  <2> HIDE DEF G
  <2> QED BY <2>1, <2>2, SubsetsInduct
<1>7. Totals(g, f, SUBSET S)
  BY <1>2, <1>4, <1>5, <1>6 DEF Totals
<1> QED
  BY <1>1, <1>7

\* Any element may be removed first.
LEMMA TotalsRemove ==
  ASSUME NEW S, IsFiniteSet(S), NEW f, \A x \in S : f[x] \in Int,
         NEW g, Totals(g, f, SUBSET S), NEW U \in SUBSET S, NEW x \in U
  PROVE  g[U] = f[x] + g[U \ {x}]
<1> DEFINE G == {T \in SUBSET S : \A y \in T : g[T] = f[y] + g[T \ {y}]}
<1>1. ASSUME NEW T \in SUBSET S, \A y \in T : T \ {y} \in G PROVE T \in G
  <2> SUFFICES ASSUME NEW y \in T PROVE g[T] = f[y] + g[T \ {y}]
    OBVIOUS
  <2> DEFINE c == OneOf(T)
  <2>1. c \in T /\ g[T] = f[c] + g[T \ {c}]
    BY DEF Totals, OneOf
  <2> HIDE DEF c
  <2>2. CASE y = c
    BY <2>1, <2>2
  <2>3. CASE y # c
    <3> DEFINE R == (T \ {c}) \ {y}
    <3>1. g[T \ {c}] = f[y] + g[R]
      BY <1>1, <2>1, <2>3
    <3>2. R = (T \ {y}) \ {c} /\ R \in SUBSET S
      OBVIOUS
    <3>3. g[T \ {y}] = f[c] + g[R]
      BY <1>1, <2>1, <2>3, <3>2
    <3>4. f[y] \in Int /\ f[c] \in Int /\ g[R] \in Int
      BY <2>1, <3>2 DEF Totals
    <3> HIDE DEF R
    <3> QED
      BY <2>1, <3>1, <3>3, <3>4
  <2> QED
    BY <2>2, <2>3
<1>2. U \in G
  <2>1. IsFiniteSet(U)
    BY FS_Subset
  <2> HIDE DEF G
  <2> QED BY <1>1, <2>1, SubsetsInduct
<1> QED
  BY <1>2

LEMMA TotalsGrow ==
  ASSUME NEW T, IsFiniteSet(T), NEW S \in SUBSET T,
         NEW f, NEW h, \A x \in S : f[x] \in Int /\ f[x] <= h[x], \A x \in S : h[x] \in Int,
         \A x \in T \ S : h[x] \in Nat,
         NEW g, Totals(g, f, SUBSET S), NEW k, Totals(k, h, SUBSET T)
  PROVE  g[S] <= k[T]
<1> DEFINE G == {U \in SUBSET T : g[U \cap S] <= k[U]}
<1>0. IsFiniteSet(S)
  BY FS_Subset
<1>1. ASSUME NEW U \in SUBSET T, \A x \in U : U \ {x} \in G PROVE U \in G
  <2>0. g[U \cap S] \in Int /\ k[U] \in Int
    BY DEF Totals
  <2>1. CASE U = {}
    <3>1. U \cap S = {} /\ {} \in SUBSET S /\ {} \in SUBSET T
      BY <2>1
    <3>2. g[{}] = 0 /\ k[{}] = 0
      BY <3>1 DEF Totals
    <3> QED
      BY <2>1, <3>1, <3>2
  <2>2. CASE U # {}
    <3>1. PICK x \in U : TRUE
      BY <2>2
    <3>2. g[(U \ {x}) \cap S] <= k[U \ {x}] /\ g[(U \ {x}) \cap S] \in Int /\ k[U \ {x}] \in Int
      BY <1>1, <3>1 DEF Totals
    <3>3. k[U] = h[x] + k[U \ {x}] /\ h[x] \in Int
      <4>1. \A y \in T : h[y] \in Int
        OBVIOUS
      <4> QED BY <3>1, <4>1, TotalsRemove
    <3>4. CASE x \in S
      <4> DEFINE V == U \cap S
                 W == (U \ {x}) \cap S
      <4>1. V \in SUBSET S /\ x \in V /\ V \ {x} = W
        BY <3>1, <3>4
      <4> HIDE DEF V, W
      <4>2. g[V] = f[x] + g[W]
        <5>1. \A y \in S : f[y] \in Int
          OBVIOUS
        <5>2. V \in SUBSET S /\ x \in V
          BY <4>1
        <5>3. g[V] = f[x] + g[V \ {x}]
          BY <1>0, <5>1, <5>2, TotalsRemove
        <5> QED BY <4>1, <5>3
      <4>3. f[x] \in Int /\ f[x] <= h[x] /\ g[W] <= k[U \ {x}] /\ g[W] \in Int /\ k[U \ {x}] \in Int
        BY <3>2, <3>4 DEF W
      <4>4. g[V] <= k[U]
        BY <3>3, <4>2, <4>3
      <4> QED
        BY <4>4 DEF V
    <3>5. CASE x \notin S
      <4>1. U \cap S = (U \ {x}) \cap S
        BY <3>5
      <4>2. g[U \cap S] <= k[U \ {x}] /\ g[U \cap S] \in Int /\ h[x] \in Nat
        BY <3>2, <3>5, <4>1
      <4>3. g[U \cap S] <= k[U]
        BY <3>2, <3>3, <4>2
      <4> QED
        BY <4>3
    <3> QED
      BY <3>4, <3>5
  <2> QED
    BY <2>1, <2>2
<1>2. T \in G
  <2> HIDE DEF G
  <2> QED BY <1>1, SubsetsInduct
<1> QED
  BY <1>2

LEMMA EmptyTotal ==
  ASSUME NEW f
  PROVE  SumOf(f, {}) = 0
<1>1. PICK g : Totals(g, f, SUBSET {}) /\ SumOf(f, {}) = g[{}]
  BY FS_EmptySet, SumIs
<1> QED
  BY <1>1 DEF Totals

LEMMA TotalsNat ==
  ASSUME NEW S, IsFiniteSet(S), NEW f, \A x \in S : f[x] \in Nat,
         NEW g, Totals(g, f, SUBSET S)
  PROVE  g[S] \in Nat
<1> DEFINE k == [T \in {{}} |-> 0]
<1>1. /\ {} \in SUBSET S
      /\ \A x \in {} : f[x] \in Int /\ f[x] <= f[x]
      /\ \A x \in {} : f[x] \in Int
      /\ \A x \in S \ {} : f[x] \in Nat
  OBVIOUS
<1>2. Totals(k, f, SUBSET {}) /\ k[{}] = 0
  BY DEF Totals
<1> HIDE DEF k
<1>3. k[{}] <= g[S]
  BY <1>1, <1>2, TotalsGrow, Zenon
<1>4. g[S] \in Int
  BY DEF Totals
<1> QED
  BY <1>2, <1>3, <1>4

LEMMA SumType ==
  ASSUME NEW S, IsFiniteSet(S), NEW f, \A x \in S : f[x] \in Nat
  PROVE  SumOf(f, S) \in Nat
<1>1. PICK g : Totals(g, f, SUBSET S) /\ SumOf(f, S) = g[S]
  <2>1. \A x \in S : f[x] \in Int
    OBVIOUS
  <2> QED BY <2>1, SumIs
<1> QED
  BY <1>1, TotalsNat

\* The total of a function that is nowhere below another is not below its total.
LEMMA SumMonotone ==
  ASSUME NEW S, IsFiniteSet(S), NEW f, NEW h, \A x \in S : f[x] \in Int /\ h[x] \in Int /\ f[x] <= h[x]
  PROVE  SumOf(f, S) \in Int /\ SumOf(h, S) \in Int /\ SumOf(f, S) <= SumOf(h, S)
<1>1. PICK g : Totals(g, f, SUBSET S) /\ SumOf(f, S) = g[S]
  BY SumIs
<1>2. PICK k : Totals(k, h, SUBSET S) /\ SumOf(h, S) = k[S]
  BY SumIs
<1>3. S \in SUBSET S /\ (\A x \in S \ S : h[x] \in Nat) /\ (\A x \in S : h[x] \in Int)
      /\ \A x \in S : f[x] \in Int /\ f[x] <= h[x]
  OBVIOUS
<1>4. g[S] <= k[S]
  BY <1>1, <1>2, <1>3, TotalsGrow
<1> QED
  BY <1>1, <1>2, <1>4 DEF Totals

LEMMA SumGrows ==
  ASSUME NEW T, IsFiniteSet(T), NEW S \in SUBSET T,
         NEW f, NEW h, \A x \in S : f[x] \in Nat /\ f[x] <= h[x], \A x \in T : h[x] \in Nat
  PROVE  SumOf(f, S) <= SumOf(h, T)
<1>0. IsFiniteSet(S)
  BY FS_Subset
<1>1. /\ \A x \in S : f[x] \in Int
      /\ \A x \in S : f[x] \in Int /\ f[x] <= h[x]
      /\ \A x \in S : h[x] \in Int
      /\ \A x \in T \ S : h[x] \in Nat
      /\ \A x \in T : h[x] \in Int
  OBVIOUS
<1>2. PICK g : Totals(g, f, SUBSET S) /\ SumOf(f, S) = g[S]
  BY <1>0, <1>1, SumIs
<1>3. PICK k : Totals(k, h, SUBSET T) /\ SumOf(h, T) = k[T]
  BY <1>1, SumIs
<1> QED
  BY <1>1, <1>2, <1>3, TotalsGrow
-----------------------------------------------------------------------------
(* Insights: the rows *)

Sound ==
  /\ events \in [Event -> Nat]
  /\ \A u \in Users : {u} \notin friends

LEMMA EventsFinite == IsFiniteSet(Event)
<1> DEFINE P1 == Users \X Titles
           P2 == P1 \X BOOLEAN
           P3 == P2 \X BOOLEAN
           P4 == P3 \X Days
           f == [e \in Event |-> <<<<<<<<e.user, e.title>>, e.episode>>, e.edition>>, e.day>>]
<1>1. IsFiniteSet(BOOLEAN)
  <2>1. BOOLEAN = {TRUE} \cup {FALSE}
    OBVIOUS
  <2>2. IsFiniteSet({TRUE})
    BY FS_Singleton
  <2> QED
    BY <2>1, <2>2, FS_AddElement
<1>2. IsFiniteSet(Days)
  BY InsightsAssumption, FS_Interval DEF Days
<1>3. IsFiniteSet(P1)
  BY InsightsAssumption, FS_Product
<1> HIDE DEF P1
<1>4. IsFiniteSet(P2)
  BY <1>1, <1>3, FS_Product
<1> HIDE DEF P2
<1>5. IsFiniteSet(P3)
  BY <1>1, <1>4, FS_Product
<1> HIDE DEF P3
<1>6. IsFiniteSet(P4)
  BY <1>2, <1>5, FS_Product
<1>7. f \in [Event -> P4]
  BY DEF Event, P1, P2, P3
<1>8. ASSUME NEW d \in Event, NEW e \in Event, f[d] = f[e] PROVE d = e
  <2>1. d.user = e.user /\ d.title = e.title /\ d.episode = e.episode /\ d.edition = e.edition /\ d.day = e.day
    BY <1>8
  <2> QED
    BY <2>1 DEF Event
<1> HIDE DEF f, P4
<1>9. f \in Injection(Event, P4)
  BY <1>7, <1>8 DEF Injection, IsInjective
<1> QED
  BY <1>6, <1>9, FS_Injection

LEMMA MineFinite ==
  ASSUME NEW u, NEW span \in {"month", "year", "weekly", "monthly", "all_time"}
  PROVE  /\ Mine(u) \subseteq Event /\ IsFiniteSet(Mine(u))
         /\ InPeriod(Mine(u), span) \subseteq Mine(u) /\ IsFiniteSet(InPeriod(Mine(u), span))
<1>1. Mine(u) \in SUBSET Event
  BY DEF Mine
<1>2. InPeriod(Mine(u), span) \in SUBSET Event /\ InPeriod(Mine(u), span) \subseteq Mine(u)
  BY <1>1 DEF InPeriod
<1> QED
  BY <1>1, <1>2, EventsFinite, FS_Subset

LEMMA NumberIs ==
  ASSUME NEW S
  PROVE  Number(S) = SumOf(events, S)
BY Zenon DEF Number, SumOf

LEMMA NumberType ==
  ASSUME Sound, NEW S \in SUBSET Event
  PROVE  Number(S) \in Nat
<1>1. IsFiniteSet(S) /\ \A x \in S : events[x] \in Nat
  BY EventsFinite, FS_Subset DEF Sound
<1> QED
  BY <1>1, NumberIs, SumType

\* The minutes of the editions of S.
LEMMA MinutesType ==
  ASSUME Sound, NEW S \in SUBSET Event
  PROVE  Total(LAMBDA e : Runtime[e.title], S) \in Nat
<1> DEFINE f == [e \in S |-> events[e] * Runtime[e.title]]
           Def(g) == [T \in SUBSET S |-> IF T = {} THEN 0
                                         ELSE events[OneOf(T)] * Runtime[OneOf(T).title] + g[T \ {OneOf(T)}]]
           g == CHOOSE g : g = Def(g)
<1>1. Total(LAMBDA e : Runtime[e.title], S) = g[S]
  BY Zenon DEF Total, MapThenSumSet, MapThenFoldSet, OneOf
<1>2. IsFiniteSet(S) /\ \A x \in S : f[x] \in Nat
  <2>1. \A x \in S : events[x] \in Nat /\ Runtime[x.title] \in Nat
    BY InsightsAssumption DEF Sound, Event
  <2>2. \A a, b \in Nat : a * b \in Nat
    BY SMT
  <2> QED
    BY <2>1, <2>2, EventsFinite, FS_Subset
<1> HIDE DEF f
<1>3. PICK h : Totals(h, f, SUBSET S)
  <2>1. \A x \in S : f[x] \in Int
    BY <1>2
  <2> QED BY <1>2, <2>1, TotalsExist
<1>4. h = Def(h)
  BY <1>3 DEF Totals, OneOf, f
<1>5. g = Def(g)
  <2> HIDE DEF Def
  <2> QED BY <1>4
<1> HIDE DEF g
<1>6. \A T \in SUBSET S : g[T] = IF T = {} THEN 0 ELSE f[OneOf(T)] + g[T \ {OneOf(T)}]
  BY <1>5 DEF OneOf, f
<1> DEFINE G == {T \in SUBSET S : g[T] = h[T]}
<1>7. ASSUME NEW T \in SUBSET S, \A x \in T : T \ {x} \in G PROVE T \in G
  <2>1. CASE T = {}
    BY <1>3, <1>6, <2>1 DEF Totals
  <2>2. CASE T # {}
    <3>1. g[T \ {OneOf(T)}] = h[T \ {OneOf(T)}]
      BY <1>7, <2>2 DEF OneOf
    <3> QED
      BY <1>3, <1>6, <2>2, <3>1 DEF Totals
  <2> QED
    BY <2>1, <2>2
<1>8. S \in G
  <2> HIDE DEF G
  <2> QED BY <1>2, <1>7, SubsetsInduct
<1>9. h[S] \in Nat
  BY <1>2, <1>3, TotalsNat
<1> QED
  BY <1>1, <1>8, <1>9
-----------------------------------------------------------------------------
(* Insights: boards *)

\* What the board of a period says of the user v.
Standing(v, span) ==
  LET S == InPeriod(Mine(v), span) IN <<Number(S), Hours(BoardMinutes(S)), v>>

Periods == {"month", "year", "weekly", "monthly", "all_time"}

LEMMA StandingType ==
  ASSUME Sound, NEW v \in Users, NEW span \in Periods
  PROVE  /\ Standing(v, span) \in Nat \X Nat \X Nat
         /\ Standing(v, span)[1] = Number(InPeriod(Mine(v), span)) /\ Standing(v, span)[3] = v
<1> DEFINE S == InPeriod(Mine(v), span)
           known == {e \in S : e.edition /\ Runtime[e.title] # 0}
<1>1. S \in SUBSET Event /\ known \in SUBSET Event
  BY MineFinite DEF Periods
<1>2. Number(S) \in Nat /\ Total(LAMBDA e : Runtime[e.title], known) \in Nat
  BY <1>1, NumberType, MinutesType
<1>3. BoardMinutes(S) \in Nat
  BY <1>2 DEF BoardMinutes
<1>4. \A m \in Nat : Hours(m) \in Nat
  BY DEF Hours
<1> QED
  BY <1>2, <1>3, <1>4, InsightsAssumption DEF Standing

LEMMA BoardIs ==
  ASSUME NEW u \in Users, NEW span
  PROVE  /\ FriendsOf(u) \cup {u} \subseteq Users
         /\ Board(u, span) = {Standing(v, span) : v \in FriendsOf(u) \cup {u}}
BY DEF FriendsOf, Board, Standing

LEMMA BoardType ==
  ASSUME Sound, NEW u \in Users, NEW span \in Periods
  PROVE  /\ IsFiniteSet(Board(u, span))
         /\ \A s \in Board(u, span) : s \in Nat \X Nat \X Nat /\ s[3] \in Users /\ s = Standing(s[3], span)
<1> DEFINE C == FriendsOf(u) \cup {u}
           f == [v \in C |-> Standing(v, span)]
<1>1. C \subseteq Users /\ IsFiniteSet(C)
  BY BoardIs, InsightsAssumption, FS_Subset
<1>2. Board(u, span) = {Standing(v, span) : v \in C}
  BY BoardIs
<1> HIDE DEF C
<1>3. f \in Surjection(C, Board(u, span))
  BY <1>2 DEF Surjection
<1>4. IsFiniteSet(Board(u, span))
  <2> HIDE DEF f
  <2> QED BY <1>1, <1>3, FS_Surjection
<1>5. ASSUME NEW s \in Board(u, span)
      PROVE s \in Nat \X Nat \X Nat /\ s[3] \in Users /\ s = Standing(s[3], span)
  <2>1. PICK v \in C : s = Standing(v, span)
    BY <1>2
  <2> QED
    BY <1>1, <2>1, StandingType
<1> QED
  BY <1>4, <1>5

LEMMA AboveOrders ==
  /\ \A s \in Nat \X Nat \X Nat : ~Above(s, s)
  /\ \A s, t, w \in Nat \X Nat \X Nat : Above(s, t) /\ Above(t, w) => Above(s, w)
  /\ \A s, t \in Nat \X Nat \X Nat : s[3] # t[3] => Above(s, t) \/ Above(t, s)
BY DEF Above

\* On every board two users stand in the order of their standings.
LEMMA RankOrders ==
  ASSUME Sound, NEW u \in Users, NEW span \in Periods,
         NEW s \in Board(u, span), NEW t \in Board(u, span)
  PROVE  /\ Rank(Board(u, span), s[3]) < Rank(Board(u, span), t[3]) <=> Above(s, t)
         /\ Rank(Board(u, span), s[3]) = 1 => \A w \in Board(u, span) : ~Above(w, s)
<1> DEFINE Listed == Board(u, span)
           Up(x) == {w \in Listed : Above(w, x)}
<1>1. IsFiniteSet(Listed) /\ \A x \in Listed : x \in Nat \X Nat \X Nat /\ x = Standing(x[3], span)
  BY BoardType
<1> HIDE DEF Listed
<1>2. ASSUME NEW x \in Listed
      PROVE  Rank(Listed, x[3]) = 1 + Cardinality(Up(x)) /\ IsFiniteSet(Up(x)) /\ Cardinality(Up(x)) \in Nat
  <2>1. (CHOOSE y \in Listed : y[3] = x[3]) = x
    BY <1>1
  <2>2. Up(x) \in SUBSET Listed
    OBVIOUS
  <2> QED
    BY <1>1, <2>1, <2>2, FS_Subset, FS_CardinalityType DEF Rank
<1>3. s \in Listed /\ t \in Listed
  BY DEF Listed
<1>4. ASSUME NEW x \in Listed, NEW y \in Listed, Above(x, y) PROVE Cardinality(Up(x)) < Cardinality(Up(y))
  <2>1. Up(x) \in SUBSET Up(y) /\ x \in Up(y) /\ x \notin Up(x)
    BY <1>1, <1>4, AboveOrders
  <2> HIDE DEF Up
  <2>2. Cardinality(Up(x)) <= Cardinality(Up(y)) /\ Cardinality(Up(x)) # Cardinality(Up(y))
    BY <1>2, <2>1, FS_Subset
  <2> QED
    BY <1>2, <2>2
<1>5. Rank(Listed, s[3]) < Rank(Listed, t[3]) <=> Above(s, t)
  <2>1. CASE Above(s, t)
    <3>1. Cardinality(Up(s)) < Cardinality(Up(t))
      BY <1>3, <1>4, <2>1
    <3> HIDE DEF Up
    <3> QED
      BY <1>2, <1>3, <2>1, <3>1
  <2>2. CASE ~Above(s, t)
    <3>1. s = t \/ Above(t, s)
      BY <1>1, <1>3, <2>2, AboveOrders
    <3>2. Cardinality(Up(t)) <= Cardinality(Up(s))
      <4> HIDE DEF Up
      <4> QED BY <1>2, <1>3, <1>4, <3>1
    <3> QED
      BY <1>2, <1>3, <2>2, <3>2
  <2> QED
    BY <2>1, <2>2
<1>6. ASSUME Rank(Listed, s[3]) = 1 PROVE \A w \in Listed : ~Above(w, s)
  <2>1. Cardinality(Up(s)) = 0
    BY <1>2, <1>3, <1>6
  <2>2. Up(s) = {}
    BY <1>2, <1>3, <2>1, FS_EmptySet
  <2> QED
    BY <2>2
<1> QED
  BY <1>5, <1>6 DEF Listed

\* The percentile is 100 if and only if nobody of the circle has more events.
LEMMA PercentileFull ==
  ASSUME Sound, NEW u \in Users, FriendsOf(u) # {}, NEW span \in Periods
  PROVE  Percentile(u, span) = 100 <=>
           \A v \in FriendsOf(u) : Number(InPeriod(Mine(v), span)) <= Number(InPeriod(Mine(u), span))
<1> DEFINE N(v) == Number(InPeriod(Mine(v), span))
           C == FriendsOf(u) \cup {u}
           lower == {v \in C : N(v) <= N(u)}
           c == Cardinality(FriendsOf(u))
           n == Cardinality(lower)
<1>1. IsFiniteSet(FriendsOf(u)) /\ c \in Nat /\ u \notin FriendsOf(u)
  <2>1. FriendsOf(u) \in SUBSET Users /\ u \notin FriendsOf(u)
    BY DEF FriendsOf, Sound
  <2> QED
    BY <2>1, InsightsAssumption, FS_Subset, FS_CardinalityType
<1>2. IsFiniteSet(C) /\ Cardinality(C) = c + 1
  BY <1>1, FS_AddElement
<1>3. \A v \in C : N(v) \in Nat
  BY BoardIs, MineFinite, NumberType DEF Periods
<1>4. Percentile(u, span) = (100 * n) \div (c + 1)
  BY DEF Percentile
<1> HIDE DEF N
<1>5. lower \in SUBSET C /\ IsFiniteSet(lower) /\ n \in Nat /\ n <= c + 1 /\ (n = c + 1 => lower = C)
  <2>1. lower \in SUBSET C
    OBVIOUS
  <2> HIDE DEF lower, C
  <2> QED
    BY <1>2, <2>1, FS_Subset, FS_CardinalityType
<1>6. (100 * n) \div (c + 1) = 100 <=> n = c + 1
  <2> HIDE DEF n, c
  <2>1. \A a, b \in Nat : a <= b + 1 => ((100 * a) \div (b + 1) = 100 <=> a = b + 1)
    BY SMT
  <2> QED
    BY <1>1, <1>5, <2>1
<1>7. n = c + 1 <=> \A v \in FriendsOf(u) : N(v) <= N(u)
  <2>1. ASSUME \A v \in FriendsOf(u) : N(v) <= N(u) PROVE n = c + 1
    <3>1. lower = C
      BY <1>3, <2>1
    <3> QED
      BY <1>2, <3>1
  <2> QED
    BY <1>5, <2>1
<1> QED
  BY <1>4, <1>6, <1>7 DEF N

LEMMA BoardsSound ==
  ASSUME Sound
  PROVE  BoardsAgree
<1> SUFFICES ASSUME NEW u \in Users, FriendsOf(u) # {}
             PROVE  LET board == Board(u, "all_time")
                        weekly == Board(u, "weekly")
                        recap == Recap(u, "all_time")
                        full == recap.percentile = 100
                    IN /\ recap.watched = Dashboard(u).watched
                       /\ Rank(board, u) = 1 => full
                       /\ full => \A s, t \in board : s[3] = u /\ Rank(board, t[3]) < Rank(board, u) => t[1] = s[1]
                       /\ \A v \in FriendsOf(u) :
                            LET other == Board(v, "weekly")
                            IN \A s, t \in weekly \cap other :
                                 Rank(weekly, s[3]) < Rank(weekly, t[3]) <=> Rank(other, s[3]) < Rank(other, t[3])
  BY DEF BoardsAgree
<1> DEFINE board == Board(u, "all_time")
           all == "all_time"
           N(v) == Number(InPeriod(Mine(v), all))
<1>0. all \in Periods /\ "weekly" \in Periods /\ FriendsOf(u) \subseteq Users
  BY DEF Periods, FriendsOf
<1>1. Recap(u, all).watched = N(u) /\ Recap(u, all).percentile = Percentile(u, all)
  BY DEF Recap
<1>2. Dashboard(u).watched = N(u)
  BY DEF Dashboard, DashboardOf, InPeriod
<1>3. Standing(u, all) \in board /\ \A v \in FriendsOf(u) : Standing(v, all) \in board
  BY BoardIs
<1>4. \A v \in Users : Standing(v, all) \in Nat \X Nat \X Nat /\ Standing(v, all)[1] = N(v) /\ Standing(v, all)[3] = v
  BY <1>0, StandingType
<1>5. Percentile(u, all) = 100 <=> \A v \in FriendsOf(u) : N(v) <= N(u)
  BY <1>0, PercentileFull
<1> HIDE DEF N, all
<1>6. ASSUME Rank(board, u) = 1 PROVE Percentile(u, all) = 100
  <2>1. \A w \in board : ~Above(w, Standing(u, all))
    BY <1>0, <1>3, <1>4, <1>6, RankOrders DEF all
  <2>2. ASSUME NEW v \in FriendsOf(u) PROVE N(v) <= N(u)
    <3>1. ~Above(Standing(v, all), Standing(u, all))
      BY <1>3, <2>1
    <3> QED
      BY <1>0, <1>4, <3>1 DEF Above
  <2> QED
    BY <1>5, <2>2
<1>7. ASSUME Percentile(u, all) = 100, NEW s \in board, NEW t \in board, s[3] = u,
             Rank(board, t[3]) < Rank(board, u)
      PROVE  t[1] = s[1]
  <2>1. Above(t, s)
    BY <1>0, <1>7, RankOrders DEF all
  <2>2. /\ s \in Nat \X Nat \X Nat /\ s = Standing(u, all)
        /\ t \in Nat \X Nat \X Nat /\ t = Standing(t[3], all) /\ t[3] \in FriendsOf(u) \cup {u}
    BY <1>0, <1>3, <1>4, <1>7, BoardType, BoardIs DEF all
  <2>3. t[1] = N(t[3]) /\ s[1] = N(u) /\ N(t[3]) <= N(u)
    BY <1>0, <1>4, <1>5, <1>7, <2>2
  <2> QED
    BY <2>1, <2>2, <2>3 DEF Above
<1>8. ASSUME NEW v \in FriendsOf(u), NEW s \in Board(u, "weekly") \cap Board(v, "weekly"),
             NEW t \in Board(u, "weekly") \cap Board(v, "weekly")
      PROVE  Rank(Board(u, "weekly"), s[3]) < Rank(Board(u, "weekly"), t[3])
               <=> Rank(Board(v, "weekly"), s[3]) < Rank(Board(v, "weekly"), t[3])
  BY <1>0, RankOrders
<1> QED
  BY <1>1, <1>2, <1>6, <1>7, <1>8 DEF all

\* Comparing is symmetric.
LEMMA ComparisonSymmetric ==
  Mirrored
<1> SUFFICES ASSUME NEW u \in Users, NEW f \in Users
             PROVE  LET a == HeadToHead(u, f)
                        b == HeadToHead(f, u)
                        Weights(o) == [i \in DOMAIN o |-> GenreWeights(u, f)[o[i]]]
                    IN /\ a.score = b.score /\ a.tier = b.tier /\ a.titles = b.titles /\ a.directors = b.directors
                       /\ {Weights(o) : o \in a.genres} = {Weights(o) : o \in b.genres}
  BY Zenon DEF Mirrored
<1>1. {u, f} = {f, u}
  OBVIOUS
<1>2. GenreWeights(u, f) = GenreWeights(f, u)
  <2> DEFINE U == {e.title : e \in Mine(u)}
             F == {e.title : e \in Mine(f)}
  <2>1. U \in SUBSET Titles /\ F \in SUBSET Titles
    BY DEF Mine, Event
  <2> HIDE DEF U, F
  <2>2. ASSUME NEW S \in SUBSET Titles, NEW g \in DOMAIN TagsOf(S, Genres)
        PROVE  TagsOf(S, Genres)[g] \in Nat
    <3>1. {t \in S : g \in Genres[t]} \in SUBSET Titles
      OBVIOUS
    <3>2. IsFiniteSet({t \in S : g \in Genres[t]})
      BY <3>1, InsightsAssumption, FS_Subset
    <3> QED
      BY <2>2, <3>2, FS_CardinalityType DEF TagsOf
  <2>3. \A a, b \in Nat : a + b = b + a
    OBVIOUS
  <2> DEFINE A == TagsOf(U, Genres)
             C == TagsOf(F, Genres)
  <2>4. \A g \in DOMAIN A \cap DOMAIN C : A[g] + C[g] = C[g] + A[g]
    BY <2>1, <2>2, <2>3
  <2>5. GenreWeights(u, f) = [g \in DOMAIN A \cap DOMAIN C |-> A[g] + C[g]]
    BY Zenon DEF GenreWeights, U, F
  <2>6. GenreWeights(f, u) = [g \in DOMAIN C \cap DOMAIN A |-> C[g] + A[g]]
    BY Zenon DEF GenreWeights, U, F
  <2>7. DOMAIN A \cap DOMAIN C = DOMAIN C \cap DOMAIN A
    OBVIOUS
  <2> HIDE DEF A, C
  <2> QED
    BY <2>4, <2>5, <2>6, <2>7
<1> DEFINE titles(v) == {e.title : e \in Mine(v)}
           Loved(a, b) == {t \in Titles : <<a, t>> \in favorite /\ <<b, t>> \in favorite}
           Common(a, b) == IF Loved(a, b) = {} THEN titles(a) \cap titles(b) ELSE Loved(a, b)
           People2(a, b) == (UNION {Directors[t] : t \in titles(a)}) \cap (UNION {Directors[t] : t \in titles(b)})
           Some(S) == {T \in SUBSET S : Cardinality(T) = IF Cardinality(S) < Top THEN Cardinality(S) ELSE Top}
           Shared(a, b) == IF {a, b} \subseteq profile THEN Score(a, b) ELSE 0
           Tier(n) == CASE n >= 75 -> "Oracle" [] n \in 50..74 -> "Critic"
                        [] n \in 25..49 -> "Regular" [] n < 25 -> "Curious"
<1>3. ASSUME NEW a, NEW b
      PROVE HeadToHead(a, b) =
        [score |-> Shared(a, b), tier |-> Tier(Shared(a, b)), genres |-> Most(GenreWeights(a, b), Top),
         titles |-> Some(Common(a, b)), directors |-> Some(People2(a, b))]
  BY Zenon DEF HeadToHead
<1>4. Common(u, f) = Common(f, u) /\ People2(u, f) = People2(f, u) /\ Shared(u, f) = Shared(f, u)
  BY <1>1 DEF Score
<1> HIDE DEF Common, People2, Shared, Tier, Some
<1>5. HeadToHead(u, f) = HeadToHead(f, u)
  BY <1>2, <1>3, <1>4
<1> QED
  BY <1>5
-----------------------------------------------------------------------------
(* Insights: the analytics page *)

\* What the dashboard counts for the month.
OfMonth(u) == InPeriod(Mine(u), "month")

\* While a page is read and nothing is deleted, the month has no fewer events than the
\* dashboard counted.
PageInv ==
  /\ Sound
  /\ page = [u \in Viewers |-> page[u]]
  /\ \A u \in Viewers :
       /\ page[u].at \in {"none", "events", "tastes", "breakdown", "shown"}
       /\ page[u].at \notin {"none", "events"} => page[u].dashboard.month \in Nat
       /\ page[u].at \in {"tastes", "breakdown"} /\ u \in steady =>
            page[u].dashboard.month <= Number(OfMonth(u))
  /\ PageConsistent

LEMMA OfMonthIs ==
  ASSUME NEW u
  PROVE  /\ OfMonth(u) = {e \in Event : e.user = u /\ events[e] > 0 /\ MonthOf(e.day) = MonthOf(today)}
         /\ OfMonth(u) \in SUBSET Event /\ IsFiniteSet(OfMonth(u))
<1>1. OfMonth(u) = {e \in Event : e.user = u /\ events[e] > 0 /\ MonthOf(e.day) = MonthOf(today)}
  BY DEF OfMonth, InPeriod, Mine
<1>2. OfMonth(u) \in SUBSET Event
  BY <1>1
<1> QED
  BY <1>1, <1>2, EventsFinite, FS_Subset

LEMMA MonthGrows ==
  ASSUME Sound, Sound', today' = today, NEW u,
         \A e \in Event : e.user = u => events[e] <= events'[e]
  PROVE  /\ Number(OfMonth(u)) \in Nat /\ Number(OfMonth(u))' \in Nat
         /\ Number(OfMonth(u)) <= Number(OfMonth(u))'
<1>1. OfMonth(u)' = {e \in Event : e.user = u /\ events'[e] > 0 /\ MonthOf(e.day) = MonthOf(today)}
  BY DEF OfMonth, InPeriod, Mine
<1>2. Number(OfMonth(u))' = SumOf(events', OfMonth(u)')
  BY DEF Number, SumOf, MapThenSumSet, MapThenFoldSet
<1>3. Number(OfMonth(u)) = SumOf(events, OfMonth(u))
  BY NumberIs
<1>4. OfMonth(u)' \in SUBSET Event /\ IsFiniteSet(OfMonth(u)')
  <2>1. OfMonth(u)' \in SUBSET Event
    BY <1>1
  <2> QED
    BY <2>1, EventsFinite, FS_Subset
<1>5. OfMonth(u) \in SUBSET (OfMonth(u)')
  BY <1>1, OfMonthIs DEF Sound
<1>6. /\ \A e \in OfMonth(u) : events[e] \in Nat /\ events[e] <= events'[e]
      /\ \A e \in OfMonth(u)' : events'[e] \in Nat
  BY <1>1, <1>4, OfMonthIs DEF Sound
<1> QED
  BY <1>2, <1>3, <1>4, <1>5, <1>6, OfMonthIs, SumGrows, SumType

\* The last month of the trend is the month of the dashboard.
LEMMA TrendMonth ==
  ASSUME NEW u
  PROVE  TrendOf(Mine(u))[TrendMonths - 1].count = Number(OfMonth(u))
<1> DEFINE In(m) == {e \in Mine(u) : MonthOf(e.day) + TrendMonths - 1 - m = MonthOf(today)}
<1>1. TrendMonths - 1 \in 0..TrendMonths - 1
  BY InsightsAssumption
<1>2. TrendOf(Mine(u))[TrendMonths - 1].count = Number(In(TrendMonths - 1))
  BY <1>1 DEF TrendOf
<1>3. \A e \in Mine(u) : MonthOf(e.day) + TrendMonths - 1 - (TrendMonths - 1) = MonthOf(e.day)
  <2>1. \A e \in Mine(u) : MonthOf(e.day) \in Nat
    BY InsightsAssumption DEF Mine, Event, Days, MonthOf
  <2> QED
    BY <2>1, InsightsAssumption
<1>4. In(TrendMonths - 1) = OfMonth(u)
  BY <1>3 DEF OfMonth, InPeriod
<1> QED
  BY <1>2, <1>4

LEMMA PageInit ==
  Init => PageInv
<1> SUFFICES ASSUME Init PROVE PageInv
  OBVIOUS
<1>1. \A u \in Users : {u} \notin friends
  <2> SUFFICES ASSUME NEW u \in Users, {u} \in friends PROVE FALSE
    OBVIOUS
  <2>1. Cardinality({u}) = 2
    BY DEF Init
  <2>2. Cardinality({u}) = 1
    BY FS_Singleton
  <2> QED
    BY <2>1, <2>2
<1>2. Sound
  BY <1>1 DEF Init, Sound
<1> QED
  BY <1>2 DEF Init, PageInv, PageConsistent

\* What a step does not touch stays as it is for a page.
LEMMA PagesKept ==
  ASSUME PageInv, Sound', today' = today, page' = page, steady' \subseteq steady,
         \A e \in Event : e.user \in steady' => events[e] <= events'[e]
  PROVE  PageInv'
<1>1. ASSUME NEW u \in Viewers, page[u].at \in {"tastes", "breakdown"}, u \in steady'
      PROVE  page[u].dashboard.month <= Number(OfMonth(u))'
  <2>1. page[u].dashboard.month <= Number(OfMonth(u)) /\ page[u].dashboard.month \in Nat
    BY <1>1 DEF PageInv
  <2>2. /\ Number(OfMonth(u)) \in Nat /\ Number(OfMonth(u))' \in Nat
        /\ Number(OfMonth(u)) <= Number(OfMonth(u))'
    BY <1>1, MonthGrows DEF PageInv
  <2> QED
    BY <2>1, <2>2
<1> QED
  BY <1>1 DEF PageInv, PageConsistent

LEMMA PageStep ==
  PageInv /\ [Next]_vars => PageInv'
<1> SUFFICES ASSUME PageInv, [Next]_vars PROVE PageInv'
  OBVIOUS
<1> DEFINE Months(v) == /\ Number(OfMonth(v)) \in Nat /\ Number(OfMonth(v))' \in Nat
                        /\ Number(OfMonth(v)) <= Number(OfMonth(v))'
<1>0. Sound /\ \A e \in Event : events[e] \in Nat
  BY DEF PageInv, Sound
<1>1. ASSUME NEW e \in Event, Log(e) PROVE PageInv'
  <2>1. \A d \in Event : events'[d] = IF d = e THEN events[e] + 1 ELSE events[d]
    BY <1>0, <1>1 DEF Log, Sound
  <2>2. Sound'
    BY <1>0, <1>1, <2>1 DEF Log, Sound
  <2>3. \A d \in Event : events[d] <= events'[d]
    BY <1>0, <2>1
  <2> QED
    BY <1>1, <2>2, <2>3, PagesKept DEF Log
<1>2. ASSUME NEW e \in Event, Delete(e) PROVE PageInv'
  <2>1. \A d \in Event : events'[d] = IF d = e THEN events[e] - 1 ELSE events[d]
    BY <1>0, <1>2 DEF Delete, Sound
  <2>2. Sound'
    BY <1>0, <1>2, <2>1 DEF Delete, Sound
  <2>3. \A d \in Event : d.user \in steady' => events[d] <= events'[d]
    BY <1>0, <1>2, <2>1 DEF Delete
  <2> QED
    BY <1>2, <2>2, <2>3, PagesKept DEF Delete
<1>3. ASSUME NEW u \in Users, NEW t \in Titles, SetState(u, t) PROVE PageInv'
  BY <1>0, <1>3, PagesKept DEF SetState, Sound
<1>4. ASSUME NEW u \in Users, NEW v \in Users, Circle(u, v) PROVE PageInv'
  <2>1. Sound'
    <3>1. \A w \in Users : {w} # {u, v}
      BY <1>4 DEF Circle
    <3> QED
      BY <1>0, <1>4, <3>1 DEF Circle, Sound
  <2> QED
    BY <1>0, <1>4, <2>1, PagesKept DEF Circle
<1>5. ASSUME NEW u \in Users, UpsertTasteProfile(u) PROVE PageInv'
  BY <1>0, <1>5, PagesKept DEF UpsertTasteProfile, Sound
<1>6. CASE NextDay
  BY <1>0, <1>6 DEF NextDay, data, Sound, PageInv, PageConsistent
<1>7. ASSUME NEW u \in Viewers, ReadDashboard(u) PROVE PageInv'
  <2> DEFINE d == DashboardOf(u, page[u].states, page[u].favorites)
  <2>1. /\ page' = [page EXCEPT ![u] = [at |-> "tastes", dashboard |-> d]]
        /\ steady' = steady \cup {u} /\ UNCHANGED <<today, events, friends>>
    BY <1>7 DEF ReadDashboard, data
  <2>2. d.month = Number(OfMonth(u)) /\ Number(OfMonth(u)) \in Nat
    BY <1>0, OfMonthIs, NumberType DEF DashboardOf, OfMonth
  <2> HIDE DEF d
  <2>3. Sound' /\ \A e \in Event : events[e] <= events'[e]
    BY <1>0, <2>1 DEF Sound
  <2>4. \A v \in Viewers : Months(v)
    BY <1>0, <2>1, <2>3, MonthGrows
  <2>5. page'[u].at = "tastes" /\ page'[u].dashboard.month = Number(OfMonth(u))
    BY <2>1, <2>2 DEF PageInv
  <2>6. ASSUME NEW v \in Viewers, v # u PROVE page'[v] = page[v] /\ (v \in steady' <=> v \in steady)
    BY <2>1, <2>6 DEF PageInv
  <2> QED
    BY <2>1, <2>2, <2>3, <2>4, <2>5, <2>6 DEF PageInv, PageConsistent
<1>8. ASSUME NEW u \in Viewers, ReadTastes(u) PROVE PageInv'
  <2>1. PICK n : page' = [page EXCEPT ![u] = [at |-> "breakdown", dashboard |-> page[u].dashboard, match |-> n]]
    BY <1>8 DEF ReadTastes
  <2>2. page[u].at = "tastes" /\ UNCHANGED <<today, events, friends, steady>>
    BY <1>8 DEF ReadTastes, data
  <2>3. Sound' /\ \A e \in Event : events[e] <= events'[e]
    BY <1>0, <2>2 DEF Sound
  <2>4. \A v \in Viewers : Months(v)
    BY <1>0, <2>2, <2>3, MonthGrows
  <2>5. page'[u].at = "breakdown" /\ page'[u].dashboard = page[u].dashboard
    BY <2>1 DEF PageInv
  <2>6. \A v \in Viewers : v # u => page'[v] = page[v]
    BY <2>1 DEF PageInv
  <2> QED
    BY <2>1, <2>2, <2>3, <2>4, <2>5, <2>6 DEF PageInv, PageConsistent
<1>9. ASSUME NEW u \in Viewers, ReadBreakdown(u) PROVE PageInv'
  <2>1. PICK g, d : page' = [page EXCEPT ![u] =
          [at |-> "shown", dashboard |-> page[u].dashboard, match |-> page[u].match,
           genres |-> g, directors |-> d, trend |-> Breakdown(u).trend]]
    BY <1>9 DEF ReadBreakdown
  <2>2. page[u].at = "breakdown" /\ UNCHANGED <<today, events, friends, steady>>
    BY <1>9 DEF ReadBreakdown, data
  <2>3. Sound' /\ \A e \in Event : events[e] <= events'[e]
    BY <1>0, <2>2 DEF Sound
  <2>4. \A v \in Viewers : Months(v)
    BY <1>0, <2>2, <2>3, MonthGrows
  <2>5. page'[u].at = "shown" /\ page'[u].dashboard = page[u].dashboard /\ page'[u].trend = Breakdown(u).trend
    BY <2>1 DEF PageInv
  <2>6. \A v \in Viewers : v # u => page'[v] = page[v]
    BY <2>1 DEF PageInv
  <2>7. ASSUME u \in steady, page[u].dashboard.month > 0
        PROVE  page'[u].trend[TrendMonths - 1].count >= page[u].dashboard.month
    <3>1. page[u].dashboard.month <= Number(OfMonth(u)) /\ page[u].dashboard.month \in Nat
      BY <2>2, <2>7 DEF PageInv
    <3>2. Number(OfMonth(u)) \in Nat
      BY <1>0, OfMonthIs, NumberType
    <3>3. OfMonth(u) # {}
      <4>1. Number({}) = 0
        BY NumberIs, EmptyTotal
      <4> QED
        BY <3>1, <3>2, <2>7, <4>1
    <3>4. {e.title : e \in Mine(u)} # {}
      <4>1. PICK e \in OfMonth(u) : TRUE
        BY <3>3
      <4>2. e \in Mine(u)
        BY <4>1, OfMonthIs DEF Mine
      <4> QED
        BY <4>2
    <3>5. Breakdown(u).trend = TrendOf(Mine(u))
      BY <3>4 DEF Breakdown
    <3> QED
      BY <2>5, <3>1, <3>2, <3>5, TrendMonth
  <2> QED
    <3>1. page' = [v \in Viewers |-> page'[v]]
      BY <2>1 DEF PageInv
    <3>2. PageConsistent'
      BY <2>2, <2>5, <2>6, <2>7 DEF PageInv, PageConsistent
    <3> QED
      BY <2>2, <2>3, <2>4, <2>5, <2>6, <3>1, <3>2 DEF PageInv
<1>10. ASSUME NEW u \in Viewers, ClosePage(u) PROVE PageInv'
  <2>1. page' = [page EXCEPT ![u] = [at |-> "none"]] /\ UNCHANGED <<today, events, friends, steady>>
    BY <1>10 DEF ClosePage, data
  <2>2. Sound' /\ \A e \in Event : events[e] <= events'[e]
    BY <1>0, <2>1 DEF Sound
  <2>3. \A v \in Viewers : Months(v)
    BY <1>0, <2>1, <2>2, MonthGrows
  <2>4. page'[u].at = "none" /\ \A v \in Viewers : v # u => page'[v] = page[v]
    BY <2>1 DEF PageInv
  <2> QED
    BY <2>1, <2>2, <2>3, <2>4 DEF PageInv, PageConsistent
<1>11. ASSUME NEW u \in Viewers, OpenPage(u) PROVE PageInv'
  <2>1. PICK st, fav : page' = [page EXCEPT ![u] = [at |-> "events", states |-> st, favorites |-> fav]]
    BY <1>11 DEF OpenPage
  <2>2. UNCHANGED <<today, events, friends, steady>>
    BY <1>11 DEF OpenPage, data
  <2>3. Sound' /\ \A e \in Event : events[e] <= events'[e]
    BY <1>0, <2>2 DEF Sound
  <2>4. \A v \in Viewers : Months(v)
    BY <1>0, <2>2, <2>3, MonthGrows
  <2>5. page'[u].at = "events" /\ \A v \in Viewers : v # u => page'[v] = page[v]
    BY <2>1 DEF PageInv
  <2> QED
    BY <2>1, <2>2, <2>3, <2>4, <2>5 DEF PageInv, PageConsistent
<1>12. CASE UNCHANGED vars
  BY <1>0, <1>12, PagesKept DEF vars, data, Sound
<1> QED
  BY <1>1, <1>2, <1>3, <1>4, <1>5, <1>6, <1>7, <1>8, <1>9, <1>10, <1>11, <1>12 DEF Next

-----------------------------------------------------------------------------
(* Discovery *)

\* What every open request carries.
Carried == {"at", "what", "checked", "read", "completed", "film", "episode", "friendly",
            "shown", "score", "friend", "epics", "quick"}
ReadSoFar == {"watched", "dropped", "favorite", "rating"}

Smart    == ask.what.mode = "smart"
Steps    == {"friends", "states", "events", "ratings", "catalog"}
SmartSteps == {"events", "accepted", "titles"}

\* What has been so ever since the request began is so now, and was when the request
\* read it: each SELECT adds to what will be left out.
Leaving ==
  /\ mine \in D!MyRows
  /\ ask.at \in {"none", "refused", "shown"} \cup Steps \cup SmartSteps
  /\ ask.at \in Steps \cup SmartSteps =>
       /\ Carried \subseteq DOMAIN ask /\ ReadSoFar \subseteq DOMAIN ask.read
       /\ ask.at \in IF Smart THEN SmartSteps ELSE Steps
       /\ ask.completed \subseteq mine.completed /\ ask.film \subseteq mine.film
       /\ ask.episode \subseteq mine.episode
       /\ ~Smart /\ ask.at \in {"events", "ratings", "catalog"} => ask.completed \subseteq ask.read.watched
       /\ ~Smart /\ ask.at \in {"ratings", "catalog"} => ask.film \subseteq ask.read.watched
       /\ Smart /\ ask.at \in {"accepted", "titles"} => ask.film \cup ask.episode \subseteq ask.read.watched
  /\ FinishedLeftOut

LEMMA LeavingInit ==
  D!Init => Leaving
BY DEF D!Init, Leaving, D!MyRows, FinishedLeftOut, D!FinishedLeftOut, D!Recommended, Steps, SmartSteps

LEMMA ShownAreCandidates ==
  ASSUME NEW S, NEW score, NEW limit, NEW order \in D!Sorted(S, score),
         NEW shown \in D!Rerank(order, score, limit)
  PROVE  D!ToSet(shown) \subseteq S
<1>1. ASSUME NEW T, NEW f, NEW o \in D!Sorted(T, f) PROVE D!ToSet(o) \subseteq T
  BY DEF D!Sorted, D!SetToSeqs, D!ToSet
<1> DEFINE top == [i \in {i \in DOMAIN order : i <= limit} |-> order[i]]
<1>2. D!ToSet(top) \subseteq S
  <2>1. D!ToSet(top) \subseteq D!ToSet(order)
    BY DEF D!ToSet
  <2> QED
    BY <1>1, <2>1
<1>3. \E f : shown \in D!Sorted(D!ToSet(top), f)
  BY Zenon DEF D!Rerank
<1> QED
  BY <1>1, <1>2, <1>3

LEMMA LeavingStep ==
  Leaving /\ [D!Next]_(D!vars) => Leaving'
<1> SUFFICES ASSUME Leaving, [D!Next]_(D!vars) PROVE Leaving'
  OBVIOUS
<1> USE DEF Carried, ReadSoFar, Steps, SmartSteps
<1>1. ASSUME UNCHANGED <<mine, ask>> PROVE Leaving'
  BY <1>1 DEF Leaving, Smart, D!MyRows, FinishedLeftOut, D!FinishedLeftOut, D!Recommended
<1>2. ASSUME NEW t \in Films, D!Edit(t) PROVE Leaving'
  <2>1. mine' \in D!MyRows
    <3>1. ASSUME NEW r \in Scores, mine' = [mine EXCEPT !.rating[t] = r] PROVE mine' \in D!MyRows
      <4>1. mine.rating \in [Films -> Scores \cup {0}]
        BY DEF Leaving, D!MyRows
      <4>2. [mine.rating EXCEPT ![t] = r] \in [Films -> Scores \cup {0}]
        BY <4>1
      <4>3. mine' = [mine EXCEPT !.rating = [mine.rating EXCEPT ![t] = r]]
        BY <3>1
      <4> QED
        BY <4>2, <4>3 DEF Leaving, D!MyRows
    <3>2. ASSUME \E C, E \in SUBSET Films : \/ mine' = [mine EXCEPT !.completed = C, !.dropped = E]
                                           \/ mine' = [mine EXCEPT !.favorite = C]
                                           \/ mine' = [mine EXCEPT !.film = C]
                                           \/ mine' = [mine EXCEPT !.episode = C]
          PROVE  mine' \in D!MyRows
      BY <3>2 DEF Leaving, D!MyRows
    <3>3. /\ mine.completed \cup {t} \in SUBSET Films /\ mine.completed \ {t} \in SUBSET Films
          /\ mine.dropped \cup {t} \in SUBSET Films /\ mine.dropped \ {t} \in SUBSET Films
          /\ mine.favorite \cup {t} \in SUBSET Films /\ mine.episode \cup {t} \in SUBSET Films
          /\ mine.film \cup {t} \in SUBSET Films /\ mine.film \ {t} \in SUBSET Films
      BY DEF Leaving, D!MyRows
    <3> QED
      BY <1>2, <3>1, <3>2, <3>3, Zenon DEF D!Edit
  <2>2. CASE ask.at \notin Steps \cup SmartSteps
    <3>1. ask' = ask
      BY <1>2, <2>2 DEF D!Edit, D!Since, Leaving
    <3> QED
      BY <2>1, <2>2, <3>1 DEF Leaving, Smart, FinishedLeftOut, D!FinishedLeftOut, D!Recommended
  <2>3. CASE ask.at \in Steps \cup SmartSteps
    <3>1. ask' = [ask EXCEPT !.completed = @ \cap mine'.completed, !.film = @ \cap mine'.film,
                             !.episode = @ \cap mine'.episode]
      BY <1>2, <2>3 DEF D!Edit, D!Since
    <3> QED
      BY <2>1, <2>3, <3>1 DEF Leaving, Smart, FinishedLeftOut, D!FinishedLeftOut, D!Recommended
  <2> QED
    BY <2>2, <2>3
<1>3. ASSUME NEW f \in Friends, D!CheckFriend(f) PROVE Leaving'
  BY <1>3 DEF D!CheckFriend, Leaving, Smart, D!MyRows, FinishedLeftOut, D!FinishedLeftOut, D!Recommended
<1>4. ASSUME NEW a \in Asks, D!Begin(a) PROVE Leaving'
  BY <1>4 DEF D!Begin, Leaving, Smart, D!MyRows, FinishedLeftOut, D!FinishedLeftOut, D!Recommended
<1>5. CASE D!ReadVectors
  BY <1>5 DEF D!ReadVectors, Leaving, Smart, D!MyRows, FinishedLeftOut, D!FinishedLeftOut, D!Recommended
<1>6. CASE D!ReadStates
  BY <1>6 DEF D!ReadStates, Leaving, Smart, D!MyRows, FinishedLeftOut, D!FinishedLeftOut, D!Recommended
<1>7. CASE D!ReadEvents
  BY <1>7 DEF D!ReadEvents, Leaving, Smart, D!MyRows, FinishedLeftOut, D!FinishedLeftOut, D!Recommended
<1>8. CASE D!ReadRatings
  BY <1>8 DEF D!ReadRatings, Leaving, Smart, D!MyRows, FinishedLeftOut, D!FinishedLeftOut, D!Recommended
<1>9. CASE D!Recommend
  <2> DEFINE pool == D!Pool(ask.what)
             candidates == D!Candidates(ask.what, ask.read, pool)
             score == [t \in candidates |-> D!Score(ask.what, ask.read, pool, t)]
  <2>1. PICK order \in D!Sorted(candidates, score) :
          \E shown \in D!Rerank(order, score, ask.what.limit) :
            ask' = [ask EXCEPT !.at = "shown", !.shown = shown, !.score = score]
    BY <1>9 DEF D!Recommend
  <2>2. PICK shown \in D!Rerank(order, score, ask.what.limit) :
          ask' = [ask EXCEPT !.at = "shown", !.shown = shown, !.score = score]
    BY <2>1
  <2>3. D!ToSet(shown) \subseteq candidates
    BY <2>1, <2>2, ShownAreCandidates
  <2>4. ~ask.what.watched => candidates \cap ask.read.watched = {}
    BY DEF D!Candidates
  <2> HIDE DEF pool, candidates, score
  <2> QED
    BY <1>9, <2>2, <2>3, <2>4
    DEF D!Recommend, Leaving, Smart, D!MyRows, FinishedLeftOut, D!FinishedLeftOut, D!Recommended
<1>10. CASE D!ReadAccepted
  BY <1>10 DEF D!ReadAccepted, Leaving, Smart, D!MyRows, FinishedLeftOut, D!FinishedLeftOut, D!Recommended
<1>11. CASE D!Partition
  <2>1. PICK epics, quick : /\ (epics \cup quick) \cap ask.read.watched = {}
                            /\ ask' = [ask EXCEPT !.at = "shown", !.epics = epics, !.quick = quick]
    <3>1. \A S : \A T \in D!Firsts(S) : T \subseteq S
      BY DEF D!Firsts, D!Newest
    <3> QED
      BY <1>11, <3>1 DEF D!Partition
  <2> QED
    BY <1>11, <2>1 DEF D!Partition, Leaving, Smart, D!MyRows, FinishedLeftOut, D!FinishedLeftOut, D!Recommended
<1>12. CASE D!End
  BY <1>12 DEF D!End, Leaving, Smart, D!MyRows, FinishedLeftOut, D!FinishedLeftOut, D!Recommended
<1>13. ASSUME NEW t \in Films, D!Publish(t) \/ D!Retire(t) \/ D!AcceptRecommendation(t) PROVE Leaving'
  BY <1>1, <1>13 DEF D!Publish, D!Retire, D!AcceptRecommendation
<1>14. ASSUME NEW f \in Friends, D!Befriend(f) PROVE Leaving'
  BY <1>1, <1>14 DEF D!Befriend
<1>15. CASE D!FailRead
  BY <1>15 DEF D!FailRead, Leaving, Smart, D!MyRows, FinishedLeftOut, D!FinishedLeftOut, D!Recommended
<1>16. CASE UNCHANGED D!vars
  BY <1>1, <1>16 DEF D!vars
<1> QED
  BY <1>2, <1>3, <1>4, <1>5, <1>6, <1>7, <1>8, <1>9, <1>10, <1>11, <1>12, <1>13, <1>14, <1>15, <1>16 DEF D!Next
-----------------------------------------------------------------------------
(* Discovery: the taste of the user *)

LEMMA SumOverIs ==
  ASSUME NEW S, NEW f
  PROVE  D!SumOver(S, f) = SumOf(f, S)
BY Zenon DEF D!SumOver, D!MapThenSumSet, D!MapThenFoldSet, SumOf, MapThenSumSet, MapThenFoldSet

LEMMA SumZero ==
  ASSUME NEW S, IsFiniteSet(S), NEW f, \A x \in S : f[x] = 0
  PROVE  SumOf(f, S) = 0
<1>1. /\ \A x \in S : f[x] \in Int
      /\ \A x \in S : f[x] \in Int /\ f[x] <= f[x]
      /\ S \in SUBSET S /\ \A x \in S \ S : f[x] \in Nat
  OBVIOUS
<1>2. PICK g : Totals(g, f, SUBSET S) /\ SumOf(f, S) = g[S]
  BY <1>1, SumIs
<1> DEFINE z == [T \in SUBSET S |-> 0]
<1>3. Totals(z, f, SUBSET S) /\ z[S] = 0
  <2>1. ASSUME NEW T \in SUBSET S PROVE z[T] = IF T = {} THEN 0 ELSE f[OneOf(T)] + z[T \ {OneOf(T)}]
    BY DEF OneOf
  <2>2. z \in [SUBSET S -> Int] /\ z[S] = 0
    OBVIOUS
  <2> HIDE DEF z
  <2> QED BY <2>1, <2>2, Zenon DEF Totals
<1> HIDE DEF z
<1>4. g[S] <= z[S]
  BY <1>1, <1>2, <1>3, TotalsGrow, Zenon
<1>5. z[S] <= g[S]
  BY <1>1, <1>2, <1>3, TotalsGrow, Zenon
<1>6. g[S] \in Int
  BY <1>2 DEF Totals
<1> QED
  BY <1>2, <1>3, <1>4, <1>5, <1>6

\* What a request has read of the user's rows.
ReadRows == [watched : SUBSET Films, dropped : SUBSET Films, favorite : SUBSET Films,
             rating : [Films -> Scores \cup {0}]]

\* What was read says no worse of any title in hi than in lo.
Kinder(lo, hi) ==
  /\ lo \in ReadRows /\ hi \in ReadRows
  /\ hi.dropped \subseteq lo.dropped /\ lo.favorite \subseteq hi.favorite
  /\ \A t \in Films : lo.rating[t] = hi.rating[t] \/ (lo.rating[t] > 0 /\ lo.rating[t] < hi.rating[t])

\* The totals of a set are those of its subsets too.
LEMMA SumOfPart ==
  ASSUME NEW S, IsFiniteSet(S), NEW f, \A x \in S : f[x] \in Int,
         NEW g, Totals(g, f, SUBSET S), NEW U \in SUBSET S
  PROVE  SumOf(f, U) = g[U]
<1> DEFINE h == [T \in SUBSET U |-> g[T]]
<1>1. /\ IsFiniteSet(U) /\ U \in SUBSET U /\ \A x \in U : f[x] \in Int
      /\ \A x \in U : f[x] \in Int /\ f[x] <= f[x]
      /\ \A x \in U \ U : f[x] \in Nat
  BY FS_Subset
<1>2. Totals(h, f, SUBSET U) /\ h[U] = g[U] /\ g[U] \in Int
  <2>1. ASSUME NEW T \in SUBSET U PROVE h[T] \in Int /\ h[T] = IF T = {} THEN 0 ELSE f[OneOf(T)] + h[T \ {OneOf(T)}]
    BY DEF Totals
  <2>2. h \in [SUBSET U -> Int]
    BY <2>1
  <2> QED BY <2>1, <2>2 DEF Totals
<1>3. PICK k : Totals(k, f, SUBSET U) /\ SumOf(f, U) = k[U]
  BY <1>1, SumIs
<1> HIDE DEF h
<1>4. h[U] <= k[U] /\ k[U] <= h[U]
  BY <1>1, <1>2, <1>3, TotalsGrow, Zenon
<1>5. k[U] \in Int
  BY <1>3 DEF Totals
<1> QED
  BY <1>2, <1>3, <1>4, <1>5

LEMMA SumRemove ==
  ASSUME NEW S, IsFiniteSet(S), NEW f, \A x \in S : f[x] \in Int, NEW y \in S
  PROVE  SumOf(f, S) = f[y] + SumOf(f, S \ {y})
<1>1. PICK g : Totals(g, f, SUBSET S) /\ SumOf(f, S) = g[S]
  BY SumIs
<1>2. S \in SUBSET S /\ S \ {y} \in SUBSET S
  OBVIOUS
<1>3. g[S] = f[y] + g[S \ {y}]
  <2> DEFINE U == S
  <2>1. Totals(g, f, SUBSET S) /\ U \in SUBSET S /\ y \in U
    BY <1>1
  <2> HIDE DEF U
  <2>2. g[U] = f[y] + g[U \ {y}]
    BY <2>1, TotalsRemove
  <2> QED BY <2>2 DEF U
<1>4. SumOf(f, S \ {y}) = g[S \ {y}]
  BY <1>1, <1>2, SumOfPart
<1> QED
  BY <1>1, <1>3, <1>4

\* Totals depend on the values of the set's elements only.
LEMMA SumSame ==
  ASSUME NEW S, IsFiniteSet(S), NEW f, NEW h, \A x \in S : f[x] \in Int /\ h[x] = f[x]
  PROVE  SumOf(f, S) = SumOf(h, S)
<1>1. /\ \A x \in S : f[x] \in Int /\ h[x] \in Int /\ f[x] <= h[x]
      /\ \A x \in S : h[x] \in Int /\ f[x] \in Int /\ h[x] <= f[x]
  OBVIOUS
<1>2. SumOf(f, S) \in Int /\ SumOf(h, S) \in Int /\ SumOf(f, S) <= SumOf(h, S)
  BY <1>1, SumMonotone
<1>3. SumOf(h, S) <= SumOf(f, S)
  BY <1>1, SumMonotone
<1> QED
  BY <1>2, <1>3

LEMMA SumAbove ==
  ASSUME NEW S, IsFiniteSet(S), NEW f, \A x \in S : f[x] \in Nat, NEW y \in S
  PROVE  f[y] <= SumOf(f, S)
<1>1. SumOf(f, S) = f[y] + SumOf(f, S \ {y})
  <2>1. \A x \in S : f[x] \in Int
    OBVIOUS
  <2> QED BY <2>1, SumRemove
<1>2. SumOf(f, S \ {y}) \in Nat
  <2>1. IsFiniteSet(S \ {y}) /\ \A x \in S \ {y} : f[x] \in Nat
    BY FS_Subset
  <2> QED BY <2>1, SumType
<1> QED
  BY <1>1, <1>2

\* All that counts of S are two elements.
LEMMA SumOfTwo ==
  ASSUME NEW S, IsFiniteSet(S), NEW f, \A x \in S : f[x] \in Int,
         NEW y \in S, NEW z \in S, y # z, \A x \in S \ {y, z} : f[x] = 0
  PROVE  SumOf(f, S) = f[y] + f[z]
<1> DEFINE T == S \ {y}
           R == T \ {z}
<1>1. IsFiniteSet(T) /\ IsFiniteSet(R)
  BY FS_Subset
<1>2. (\A x \in T : f[x] \in Int) /\ z \in T /\ \A x \in R : f[x] = 0
  OBVIOUS
<1>3. SumOf(f, S) = f[y] + SumOf(f, T)
  BY SumRemove
<1> HIDE DEF T
<1>4. SumOf(f, T) = f[z] + SumOf(f, R)
  BY <1>1, <1>2, SumRemove
<1> HIDE DEF R
<1>5. SumOf(f, R) = 0
  BY <1>1, <1>2, SumZero
<1> QED
  BY <1>3, <1>4, <1>5

LEMMA RatingType ==
  ASSUME NEW read \in ReadRows, NEW t \in Films
  PROVE  read.rating[t] \in 0..10
<1>1. read.rating \in [Films -> Scores \cup {0}]
  BY DEF ReadRows
<1>2. Scores \cup {0} \subseteq 0..10
  BY DiscoveryHolds DEF D!DiscoveryAssumption
<1> QED
  BY <1>1, <1>2

\* What a rating says of a title that was not dropped.
Likes == [n \in 0..10 |-> IF n >= 8 THEN (n - 5) * 3 ELSE IF n >= 6 THEN 2
                          ELSE IF n >= 4 THEN -4 ELSE IF n >= 1 THEN -8 ELSE 0]

LEMMA LikesGrow ==
  /\ \A n \in 0..10 : Likes[n] \in Int /\ Likes[n] >= -10
  /\ \A m, n \in 0..10 : m > 0 /\ m < n => Likes[m] <= Likes[n]
BY DEF Likes

LEMMA WeightIs ==
  ASSUME NEW read \in ReadRows, NEW t \in Films
  PROVE  D!Weight(read, t) =
           (IF t \in read.dropped THEN -10 ELSE Likes[read.rating[t]]) + IF t \in read.favorite THEN 6 ELSE 0
<1> DEFINE r == read.rating[t]
           liking == CASE t \in read.dropped -> -10
                       [] t \notin read.dropped /\ r >= 8 -> (r - 5) * 3
                       [] t \notin read.dropped /\ r \in 6..7 -> 2
                       [] t \notin read.dropped /\ r \in 4..5 -> -4
                       [] t \notin read.dropped /\ r \in 1..3 -> -8
                       [] t \notin read.dropped /\ r = 0 -> 0
<1>1. D!Weight(read, t) = liking + IF t \in read.favorite THEN 6 ELSE 0
  BY Zenon DEF D!Weight
<1>2. r \in 0..10
  BY RatingType
<1> HIDE DEF r
<1>3. CASE t \in read.dropped
  <2>1. liking = -10
    BY <1>3
  <2> HIDE DEF liking
  <2> QED
    BY <1>1, <1>3, <2>1
<1>4. CASE t \notin read.dropped
  <2>1. Likes[r] = IF r >= 8 THEN (r - 5) * 3 ELSE IF r >= 6 THEN 2
                   ELSE IF r >= 4 THEN -4 ELSE IF r >= 1 THEN -8 ELSE 0
    BY <1>2 DEF Likes
  <2>2. liking = Likes[r]
    BY <1>2, <1>4, <2>1
  <2> HIDE DEF liking
  <2> QED
    BY <1>1, <1>4, <2>2 DEF r
<1> QED
  BY <1>3, <1>4

LEMMA WeightGrows ==
  ASSUME NEW lo, NEW hi, Kinder(lo, hi), NEW t \in Films
  PROVE  D!Weight(lo, t) \in Int /\ D!Weight(hi, t) \in Int /\ D!Weight(lo, t) <= D!Weight(hi, t)
<1>1. lo \in ReadRows /\ hi \in ReadRows
  BY DEF Kinder
<1>2. lo.rating[t] \in 0..10 /\ hi.rating[t] \in 0..10
  BY <1>1, RatingType
<1>3. /\ lo.rating[t] = hi.rating[t] \/ (lo.rating[t] > 0 /\ lo.rating[t] < hi.rating[t])
      /\ t \in hi.dropped => t \in lo.dropped
      /\ t \in lo.favorite => t \in hi.favorite
  BY DEF Kinder
<1> DEFINE x == Likes[lo.rating[t]]
           y == Likes[hi.rating[t]]
<1>4. x \in Int /\ y \in Int /\ x >= -10 /\ y >= -10 /\ x <= y
  <2>1. x \in Int /\ y \in Int /\ x >= -10 /\ y >= -10
    BY <1>2, LikesGrow
  <2>2. CASE lo.rating[t] = hi.rating[t]
    BY <2>1, <2>2
  <2>3. CASE lo.rating[t] > 0 /\ lo.rating[t] < hi.rating[t]
    BY <1>2, <2>1, <2>3, LikesGrow
  <2> QED
    BY <1>3, <2>2, <2>3
<1>5. /\ D!Weight(lo, t) = (IF t \in lo.dropped THEN -10 ELSE x) + IF t \in lo.favorite THEN 6 ELSE 0
      /\ D!Weight(hi, t) = (IF t \in hi.dropped THEN -10 ELSE y) + IF t \in hi.favorite THEN 6 ELSE 0
  BY <1>1, WeightIs
<1> HIDE DEF x, y
<1> QED
  BY <1>3, <1>4, <1>5

\* A user of whom nothing is known likes and dislikes nothing.
LEMMA WeightOfNewcomer ==
  ASSUME NEW read \in ReadRows, NEW t \in Films,
         read.favorite = {}, read.dropped = {}, read.rating[t] = 0
  PROVE  D!Weight(read, t) = 0
<1>1. Likes[0] = 0
  BY DEF Likes
<1> QED
  BY <1>1, WeightIs

LEMMA FilmsFinite ==
  /\ IsFiniteSet(Films)
  /\ \A t \in Films : IsFiniteSet(D!GenreSet(t)) /\ IsFiniteSet(DirectorsOf[t]) /\ IsFiniteSet(ActorsOf[t])
<1>1. \A S : D!IsFiniteSet(S) <=> IsFiniteSet(S)
  BY Zenon DEF D!IsFiniteSet, IsFiniteSet
<1> QED
  BY <1>1, DiscoveryHolds DEF D!DiscoveryAssumption, D!GenreSet

\* What is known of a user adds up to what is liked, of a newcomer too.
LEMMA LikingIs ==
  ASSUME NEW a \in Asks, a.mode # "COLD_START", NEW read \in ReadRows, NEW pool \in SUBSET Films, NEW who, NEW of
  PROVE  D!Liking(a, read, pool, who, of)
           = SumOf([t \in pool |-> IF who \in of[t] THEN D!Weight(read, t) ELSE 0], pool)
<1> DEFINE f == [t \in pool |-> IF who \in of[t] THEN D!Weight(read, t) ELSE 0]
<1>1. CASE D!IsColdStart(a, read)
  <2>1. read.favorite = {} /\ read.dropped = {} /\ \A t \in Films : read.rating[t] = 0
    BY <1>1 DEF D!IsColdStart
  <2>2. \A t \in pool : f[t] = 0
    BY <2>1, WeightOfNewcomer
  <2>3. a.prefers = {}
    BY DiscoveryHolds DEF D!DiscoveryAssumption
  <2>4. IsFiniteSet(pool)
    BY FilmsFinite, FS_Subset
  <2>5. D!Liking(a, read, pool, who, of) = 0
    BY <1>1, <2>3 DEF D!Liking
  <2> HIDE DEF f
  <2>6. SumOf(f, pool) = 0
    BY <2>2, <2>4, SumZero
  <2> QED
    BY <2>5, <2>6 DEF f
<1>2. CASE ~D!IsColdStart(a, read)
  <2>1. D!Liking(a, read, pool, who, of) = D!SumOver(pool, f)
    BY <1>2 DEF D!Liking
  <2> QED
    BY <2>1, SumOverIs, Zenon
<1> QED
  BY <1>1, <1>2

LEMMA LikingGrows ==
  ASSUME NEW a \in Asks, NEW lo, NEW hi, Kinder(lo, hi), NEW pool \in SUBSET Films, NEW who, NEW of
  PROVE  /\ D!Liking(a, lo, pool, who, of) \in Int /\ D!Liking(a, hi, pool, who, of) \in Int
         /\ D!Liking(a, lo, pool, who, of) <= D!Liking(a, hi, pool, who, of)
<1>1. CASE a.mode = "COLD_START"
  <2>1. D!IsColdStart(a, lo) /\ D!IsColdStart(a, hi)
    BY <1>1 DEF D!IsColdStart
  <2>2. D!Liking(a, lo, pool, who, of) = (IF who \in a.prefers THEN 10 ELSE 0)
    BY <2>1 DEF D!Liking
  <2>3. D!Liking(a, hi, pool, who, of) = (IF who \in a.prefers THEN 10 ELSE 0)
    BY <2>1 DEF D!Liking
  <2> QED
    BY <2>2, <2>3
<1>2. CASE a.mode # "COLD_START"
  <2> DEFINE f == [t \in pool |-> IF who \in of[t] THEN D!Weight(lo, t) ELSE 0]
             h == [t \in pool |-> IF who \in of[t] THEN D!Weight(hi, t) ELSE 0]
  <2>1. D!Liking(a, lo, pool, who, of) = SumOf(f, pool) /\ D!Liking(a, hi, pool, who, of) = SumOf(h, pool)
    BY <1>2, LikingIs DEF Kinder
  <2>2. \A t \in pool : f[t] \in Int /\ h[t] \in Int /\ f[t] <= h[t]
    <3>1. ASSUME NEW t \in pool PROVE f[t] \in Int /\ h[t] \in Int /\ f[t] <= h[t]
      <4>1. D!Weight(lo, t) \in Int /\ D!Weight(hi, t) \in Int /\ D!Weight(lo, t) <= D!Weight(hi, t)
        BY WeightGrows
      <4> QED
        BY <4>1
    <3> QED BY <3>1
  <2>3. IsFiniteSet(pool)
    BY FilmsFinite, FS_Subset
  <2> HIDE DEF f, h
  <2> QED
    BY <2>1, <2>2, <2>3, SumMonotone
<1> QED
  BY <1>1, <1>2

\* Of the names of a title, the likings add up to no less.
LEMMA LikingsGrow ==
  ASSUME NEW a \in Asks, NEW lo, NEW hi, Kinder(lo, hi), NEW pool \in SUBSET Films,
         NEW S, IsFiniteSet(S), NEW of
  PROVE  LET f == D!SumOver(S, [x \in S |-> D!Liking(a, lo, pool, x, of)])
             h == D!SumOver(S, [x \in S |-> D!Liking(a, hi, pool, x, of)])
         IN f \in Int /\ h \in Int /\ f <= h
<1> DEFINE f == [x \in S |-> D!Liking(a, lo, pool, x, of)]
           h == [x \in S |-> D!Liking(a, hi, pool, x, of)]
<1>1. \A x \in S : f[x] \in Int /\ h[x] \in Int /\ f[x] <= h[x]
  <2>1. \A x \in S : f[x] = D!Liking(a, lo, pool, x, of) /\ h[x] = D!Liking(a, hi, pool, x, of)
    OBVIOUS
  <2> QED
    BY <2>1, LikingGrows
<1>2. D!SumOver(S, f) = SumOf(f, S) /\ D!SumOver(S, h) = SumOf(h, S)
  BY SumOverIs, Zenon
<1> HIDE DEF f, h
<1>3. D!SumOver(S, f) \in Int /\ D!SumOver(S, h) \in Int /\ D!SumOver(S, f) <= D!SumOver(S, h)
  BY <1>1, <1>2, SumMonotone
<1> QED
  BY <1>3 DEF f, h

LEMMA TasteGrows ==
  ASSUME NEW a \in Asks, NEW lo, NEW hi, Kinder(lo, hi), NEW pool \in SUBSET Films, NEW t \in Films
  PROVE  /\ D!Taste(a, lo, pool, t) \in Int /\ D!Taste(a, hi, pool, t) \in Int
         /\ D!Taste(a, lo, pool, t) <= D!Taste(a, hi, pool, t)
<1> DEFINE G(read) == D!SumOver(D!GenreSet(t),
                        [g \in D!GenreSet(t) |-> D!Liking(a, read, pool, g, [s \in pool |-> D!GenreSet(s)])])
           R(read) == D!SumOver(DirectorsOf[t], [d \in DirectorsOf[t] |-> D!Liking(a, read, pool, d, DirectorsOf)])
           C(read) == D!SumOver(ActorsOf[t], [c \in ActorsOf[t] |-> D!Liking(a, read, pool, c, ActorsOf)])
<1>1. G(lo) \in Int /\ G(hi) \in Int /\ G(lo) <= G(hi)
  <2> DEFINE S == D!GenreSet(t)
             of == [s \in pool |-> D!GenreSet(s)]
  <2>1. IsFiniteSet(S)
    BY FilmsFinite
  <2> HIDE DEF S, of
  <2>2. LET f == D!SumOver(S, [x \in S |-> D!Liking(a, lo, pool, x, of)])
            h == D!SumOver(S, [x \in S |-> D!Liking(a, hi, pool, x, of)])
        IN f \in Int /\ h \in Int /\ f <= h
    BY <2>1, LikingsGrow
  <2> QED BY <2>2, Zenon DEF S, of
<1>2. R(lo) \in Int /\ R(hi) \in Int /\ R(lo) <= R(hi)
  BY FilmsFinite, LikingsGrow
<1>3. C(lo) \in Int /\ C(hi) \in Int /\ C(lo) <= C(hi)
  BY FilmsFinite, LikingsGrow
<1>4. /\ D!Taste(a, lo, pool, t) = 2 * G(lo) + 4 * R(lo) + C(lo)
      /\ D!Taste(a, hi, pool, t) = 2 * G(hi) + 4 * R(hi) + C(hi)
  BY Zenon DEF D!Taste
<1> HIDE DEF G, R, C
<1> QED
  BY <1>1, <1>2, <1>3, <1>4

LEMMA SimilarityType ==
  ASSUME NEW a \in Asks, NEW t \in Films
  PROVE  D!Similarity(a, t) \in Int
<1> DEFINE union == D!GenreSet(t) \cup D!GenreSet(a.seed)
           n == D!Cardinality(D!GenreSet(t) \cap D!GenreSet(a.seed))
           m == D!Cardinality(union)
           genres == IF union = {} THEN 0 ELSE (600 * n) \div m
           people == (IF DirectorsOf[t] \cap DirectorsOf[a.seed] # {} THEN 420 ELSE 0)
                       + (IF ActorsOf[t] \cap ActorsOf[a.seed] # {} THEN 180 ELSE 0)
<1>1. a.seed \in Films \cup {None}
  BY DiscoveryHolds DEF D!DiscoveryAssumption, D!Ask
<1>2. CASE a.seed = None
  BY <1>2 DEF D!Similarity
<1>3. CASE a.seed # None
  <2>1. IsFiniteSet(union) /\ IsFiniteSet(D!GenreSet(t) \cap D!GenreSet(a.seed))
    BY <1>1, <1>3, FilmsFinite, FS_Union, FS_Intersection
  <2>2. \A S : D!Cardinality(S) = Cardinality(S)
    BY Zenon DEF D!Cardinality, Cardinality, D!IsFiniteSet, IsFiniteSet
  <2>3. n \in Nat /\ m \in Nat /\ (union # {} => m > 0)
    BY <2>1, <2>2, FS_CardinalityType, FS_EmptySet
  <2>4. \A x \in Nat, y \in Nat : y > 0 => (600 * x) \div y \in Int
    BY SMT
  <2>5. genres \in Int
    <3> HIDE DEF union, n, m
    <3> QED BY <2>3, <2>4
  <2>6. people \in Int
    OBVIOUS
  <2>7. D!Similarity(a, t) = genres + (IF DirectorsOf[t] \cap DirectorsOf[a.seed] # {} THEN 420 ELSE 0)
                               + (IF ActorsOf[t] \cap ActorsOf[a.seed] # {} THEN 180 ELSE 0)
    BY <1>3, Zenon DEF D!Similarity
  <2> HIDE DEF genres
  <2> QED
    BY <2>5, <2>7
<1> QED
  BY <1>2, <1>3

LEMMA ContextGrows ==
  ASSUME NEW a \in Asks, NEW lo, NEW hi, Kinder(lo, hi), NEW pool \in SUBSET Films, NEW t \in Films
  PROVE  /\ D!Context(a, lo, pool, t) \in Int /\ D!Context(a, hi, pool, t) \in Int
         /\ D!Context(a, lo, pool, t) <= D!Context(a, hi, pool, t)
<1>1. CASE a.mode = "FAVORITE_DIRECTORS"
  <2>1. (\E d \in DirectorsOf[t] : D!Liking(a, lo, pool, d, DirectorsOf) > 0)
          => \E d \in DirectorsOf[t] : D!Liking(a, hi, pool, d, DirectorsOf) > 0
    <3>1. ASSUME NEW d, D!Liking(a, lo, pool, d, DirectorsOf) > 0 PROVE D!Liking(a, hi, pool, d, DirectorsOf) > 0
      <4>1. /\ D!Liking(a, lo, pool, d, DirectorsOf) \in Int /\ D!Liking(a, hi, pool, d, DirectorsOf) \in Int
            /\ D!Liking(a, lo, pool, d, DirectorsOf) <= D!Liking(a, hi, pool, d, DirectorsOf)
        BY LikingGrows
      <4> QED BY <3>1, <4>1
    <3> QED BY <3>1
  <2> DEFINE Liked(read) == \/ a.seed # None /\ DirectorsOf[t] \cap DirectorsOf[a.seed] # {}
                            \/ \E d \in DirectorsOf[t] : D!Liking(a, read, pool, d, DirectorsOf) > 0
  <2>2. Liked(lo) => Liked(hi)
    BY <2>1
  <2>3. /\ D!Context(a, lo, pool, t) = (IF Liked(lo) THEN 960 ELSE 0)
        /\ D!Context(a, hi, pool, t) = (IF Liked(hi) THEN 960 ELSE 0)
    BY <1>1 DEF D!Context
  <2> HIDE DEF Liked
  <2> QED BY <2>2, <2>3
<1>2. CASE a.mode = "BECAUSE_YOU_LIKED"
  <2>1. /\ D!Context(a, lo, pool, t) = (IF a.seed = None THEN 0 ELSE D!Similarity(a, t))
        /\ D!Context(a, hi, pool, t) = (IF a.seed = None THEN 0 ELSE D!Similarity(a, t))
    BY <1>2 DEF D!Context
  <2> QED BY <2>1, SimilarityType
<1>3. CASE a.mode \notin {"FAVORITE_DIRECTORS", "BECAUSE_YOU_LIKED"}
  <2>1. D!Context(a, lo, pool, t) \in {720, 600, 0} /\ D!Context(a, hi, pool, t) = D!Context(a, lo, pool, t)
    BY <1>3 DEF D!Context
  <2> QED BY <2>1
<1> QED
  BY <1>1, <1>2, <1>3

\* Whatever is said better of one title, no title scores less.
LEMMA ScoreGrows ==
  ASSUME NEW a \in Asks, NEW lo, NEW hi, Kinder(lo, hi), NEW pool \in SUBSET Films, NEW t \in Films
  PROVE  D!Score(a, lo, pool, t) <= D!Score(a, hi, pool, t)
<1> DEFINE s == D!Similarity(a, t)
           x == D!Taste(a, lo, pool, t)
           y == D!Taste(a, hi, pool, t)
           c == D!Context(a, lo, pool, t)
           e == D!Context(a, hi, pool, t)
<1>1. s \in Int /\ x \in Int /\ y \in Int /\ x <= y /\ c \in Int /\ e \in Int /\ c <= e
  BY SimilarityType, TasteGrows, ContextGrows
<1>2. /\ D!Score(a, lo, pool, t) = D!Clamp((14 * s + 42 * x + 3 * c + 1080 + 24) \div 48)
      /\ D!Score(a, hi, pool, t) = D!Clamp((14 * s + 42 * y + 3 * e + 1080 + 24) \div 48)
  BY Zenon DEF D!Score
<1> HIDE DEF s, x, y, c, e
<1>3. \A m, n \in Int : m <= n => m \div 48 \in Int /\ n \div 48 \in Int /\ m \div 48 <= n \div 48
  BY SMT
<1> DEFINE m == 14 * s + 42 * x + 3 * c + 1080 + 24
           n == 14 * s + 42 * y + 3 * e + 1080 + 24
<1>4. m \in Int /\ n \in Int /\ m <= n
  BY <1>1
<1>5. D!Score(a, lo, pool, t) = D!Clamp(m \div 48) /\ D!Score(a, hi, pool, t) = D!Clamp(n \div 48)
  BY <1>2
<1> HIDE DEF m, n
<1>6. m \div 48 \in Int /\ n \div 48 \in Int /\ m \div 48 <= n \div 48
  BY <1>3, <1>4
<1>7. \A i, j \in Int : i <= j => D!Clamp(i) <= D!Clamp(j)
  BY DEF D!Clamp
<1> QED
  BY <1>5, <1>6, <1>7

\* The user's rows are typed, and what an open request has read of them.
Asking ==
  /\ Leaving /\ DOMAIN flag \subseteq Films
  /\ ask.at \in Steps \cup SmartSteps => ask.what \in Asks /\ ask.read \in ReadRows

LEMMA AskingInit ==
  D!Init => Asking
<1> SUFFICES ASSUME D!Init PROVE Asking
  OBVIOUS
<1>1. First \subseteq Films
  BY DiscoveryHolds DEF D!DiscoveryAssumption
<1> QED
  BY <1>1, LeavingInit DEF D!Init, Asking, Steps, SmartSteps

LEMMA AskingStep ==
  Asking /\ [D!Next]_(D!vars) => Asking'
<1> SUFFICES ASSUME Asking, [D!Next]_(D!vars) PROVE Asking'
  OBVIOUS
<1>0. Leaving /\ Leaving'
  BY LeavingStep DEF Asking
<1>1. /\ mine \in D!MyRows
      /\ ask.at \in {"none", "refused", "shown"} \cup Steps \cup SmartSteps
      /\ ask.at \in Steps \cup SmartSteps =>
           /\ Carried \subseteq DOMAIN ask /\ ReadSoFar \subseteq DOMAIN ask.read
           /\ ask.what \in Asks /\ ask.read \in ReadRows
  BY <1>0 DEF Asking, Leaving
<1> DEFINE Held == ask.at \in Steps \cup SmartSteps => ask.what \in Asks /\ ask.read \in ReadRows
<1>2. DOMAIN flag' \subseteq Films
  <2>1. ASSUME NEW t \in Films, D!Publish(t) PROVE DOMAIN flag' \subseteq Films
    BY <2>1 DEF D!Publish, Asking
  <2>2. ASSUME NEW t \in Films, D!Retire(t) PROVE DOMAIN flag' \subseteq Films
    BY <2>2 DEF D!Retire, Asking
  <2>3. CASE flag' = flag
    BY <2>3 DEF Asking
  <2> QED
    BY <2>1, <2>2, <2>3 DEF D!Next, D!vars, D!Edit, D!AcceptRecommendation, D!Befriend, D!CheckFriend, D!Begin,
      D!ReadVectors, D!ReadStates, D!ReadEvents, D!ReadRatings, D!Recommend, D!ReadAccepted, D!Partition, D!FailRead, D!End
<1>3. Held'
  <2>1. ASSUME NEW t \in Films, D!Edit(t) PROVE Held'
    BY <1>1, <2>1 DEF D!Edit, D!Since, Carried, Steps, SmartSteps
  <2>2. ASSUME NEW f \in Friends, D!CheckFriend(f) PROVE Held'
    BY <1>1, <2>2 DEF D!CheckFriend, Carried, Steps, SmartSteps
  <2>3. ASSUME NEW a \in Asks, D!Begin(a) PROVE Held'
    <3>1. ask'.what = a /\ ask'.read = [watched |-> {}, dropped |-> {}, favorite |-> {}, rating |-> [t \in Films |-> 0]]
      BY <2>3 DEF D!Begin
    <3> QED
      BY <3>1 DEF ReadRows
  <2>4. CASE D!ReadVectors
    BY <1>1, <2>4 DEF D!ReadVectors, Carried, Steps, SmartSteps
  <2>5. CASE D!ReadStates
    <3>1. ask'.what = ask.what /\ ask'.read = [ask.read EXCEPT !.watched = mine.completed,
               !.dropped = mine.dropped, !.favorite = mine.favorite]
      BY <1>1, <2>5 DEF D!ReadStates, Carried, Steps, SmartSteps
    <3> QED
      BY <1>1, <2>5, <3>1 DEF D!ReadStates, Carried, Steps, SmartSteps, ReadRows, D!MyRows
  <2>6. CASE D!ReadEvents
    <3>1. /\ ask'.what = ask.what
          /\ \E W \in SUBSET Films : ask'.read = [ask.read EXCEPT !.watched = W]
      BY <1>1, <2>6 DEF D!ReadEvents, Carried, Steps, SmartSteps, ReadRows, D!MyRows
    <3> QED
      BY <1>1, <2>6, <3>1 DEF D!ReadEvents, Steps, SmartSteps, ReadRows
  <2>7. CASE D!ReadRatings
    <3>1. ask'.what = ask.what /\ ask'.read = [ask.read EXCEPT !.rating = mine.rating]
      BY <1>1, <2>7 DEF D!ReadRatings, Carried, Steps, SmartSteps
    <3> QED
      BY <1>1, <2>7, <3>1 DEF D!ReadRatings, Steps, SmartSteps, ReadRows, D!MyRows
  <2>8. CASE D!Recommend \/ D!Partition \/ D!End
    <3>1. CASE D!Recommend
      <4>1. PICK shown, score : ask' = [ask EXCEPT !.at = "shown", !.shown = shown, !.score = score]
        BY <3>1, Zenon DEF D!Recommend
      <4>2. ask.at = "catalog"
        BY <3>1 DEF D!Recommend
      <4>3. ask'.at = "shown"
        BY <1>1, <4>1, <4>2 DEF Carried, Steps
      <4> QED
        BY <4>3 DEF Steps, SmartSteps
    <3>2. CASE D!Partition \/ D!End
      <4>1. CASE D!Partition
        <5>1. PICK epics, quick : ask' = [ask EXCEPT !.at = "shown", !.epics = epics, !.quick = quick]
          BY <4>1, Zenon DEF D!Partition
        <5>2. ask.at = "titles"
          BY <4>1 DEF D!Partition
        <5>3. ask'.at = "shown"
          BY <1>1, <5>1, <5>2 DEF Carried, SmartSteps
        <5> QED
          BY <5>3 DEF Steps, SmartSteps
      <4>2. CASE D!End
        BY <4>2 DEF D!End, Steps, SmartSteps
      <4> QED
        BY <3>2, <4>1, <4>2
    <3> QED
      BY <2>8, <3>1, <3>2
  <2>9. CASE D!ReadAccepted
    BY <1>1, <2>9 DEF D!ReadAccepted, Carried, Steps, SmartSteps
  <2>10. CASE ask' = ask
    BY <1>1, <2>10
  <2>11. CASE D!FailRead
    BY <2>11 DEF D!FailRead, Steps, SmartSteps
  <2> QED
    BY <2>1, <2>2, <2>3, <2>4, <2>5, <2>6, <2>7, <2>8, <2>9, <2>10, <2>11
      DEF D!Next, D!vars, D!Publish, D!Retire, D!AcceptRecommendation, D!Befriend
<1> QED
  BY <1>0, <1>2, <1>3 DEF Asking

LEMMA PoolIsOfFilms ==
  ASSUME NEW a, DOMAIN flag \subseteq Films
  PROVE  D!Pool(a) \subseteq Films
BY DEF D!Pool, D!Loaded, D!AkinTo, D!Newest, D!Active

LEMMA AskingTastes ==
  Asking => TasteMonotone
<1> SUFFICES ASSUME Asking, ask.at = "catalog" PROVE D!TasteMonotone
  BY DEF TasteMonotone, D!TasteMonotone
<1> DEFINE a == ask.what
           read == ask.read
           pool == D!Pool(a)
<1>1. a \in Asks /\ read \in ReadRows /\ pool \in SUBSET Films
  BY PoolIsOfFilms DEF Asking, Steps
<1> HIDE DEF pool
<1> SUFFICES ASSUME NEW t \in pool, NEW u \in pool
    PROVE  LET s == D!Score(a, read, pool, u)
           IN /\ \A r \in Scores : r > read.rating[t] /\ read.rating[t] > 0 =>
                   s <= D!Score(a, [read EXCEPT !.rating[t] = r], pool, u)
              /\ s <= D!Score(a, [read EXCEPT !.favorite = @ \cup {t}], pool, u)
              /\ s >= D!Score(a, [read EXCEPT !.dropped = @ \cup {t}], pool, u)
  BY Zenon DEF D!TasteMonotone, pool
<1>2. ASSUME NEW r \in Scores, r > read.rating[t], read.rating[t] > 0
      PROVE  D!Score(a, read, pool, u) <= D!Score(a, [read EXCEPT !.rating[t] = r], pool, u)
  <2>1. Kinder(read, [read EXCEPT !.rating[t] = r])
    BY <1>1, <1>2 DEF Kinder, ReadRows
  <2> QED
    BY <1>1, <2>1, ScoreGrows
<1>3. D!Score(a, read, pool, u) <= D!Score(a, [read EXCEPT !.favorite = @ \cup {t}], pool, u)
  <2>1. Kinder(read, [read EXCEPT !.favorite = @ \cup {t}])
    BY <1>1 DEF Kinder, ReadRows
  <2> QED
    BY <1>1, <2>1, ScoreGrows
<1>4. D!Score(a, [read EXCEPT !.dropped = @ \cup {t}], pool, u) <= D!Score(a, read, pool, u)
  <2>1. Kinder([read EXCEPT !.dropped = @ \cup {t}], read)
    BY <1>1 DEF Kinder, ReadRows
  <2> QED
    BY <1>1, <2>1, ScoreGrows
<1>5. D!Score(a, read, pool, u) >= D!Score(a, [read EXCEPT !.dropped = @ \cup {t}], pool, u)
  BY <1>4
<1> QED
  BY <1>2, <1>3, <1>5
-----------------------------------------------------------------------------
(* Portability: rows *)

LEMMA JoinIs ==
  ASSUME NEW V, NEW s \in Seq(V), NEW u \in Seq(V)
  PROVE  /\ s \o u \in Seq(V) /\ Len(s) \in Nat /\ Len(u) \in Nat
         /\ DOMAIN s = 1..Len(s) /\ DOMAIN u = 1..Len(u) /\ DOMAIN (s \o u) = 1..Len(s) + Len(u)
         /\ \A i \in 1..Len(s) : (s \o u)[i] = s[i]
         /\ \A i \in 1..Len(u) : (s \o u)[Len(s) + i] = u[i]
OBVIOUS

LEMMA AllRowsFold ==
  ASSUME NEW f, IsFiniteSet(DOMAIN f), NEW V, \A x \in DOMAIN f : f[x] \in Seq(V)
  PROVE  \E g \in [SUBSET DOMAIN f -> Seq(V)] :
           /\ \A T \in SUBSET DOMAIN f : g[T] = IF T = {} THEN << >> ELSE g[T \ {OneOf(T)}] \o f[OneOf(T)]
           /\ P!AllRows(f) = g[DOMAIN f]
<1> DEFINE S == DOMAIN f
           Def(h) == [T \in SUBSET S |-> IF T = {} THEN << >> ELSE h[T \ {OneOf(T)}] \o f[OneOf(T)]]
           g == CHOOSE g : g = Def(g)
           step == [z \in S \X Seq(V) |-> z[2] \o f[z[1]]]
<1>1. P!AllRows(f) = g[S]
  BY Zenon DEF P!AllRows, P!FoldSet, P!MapThenFoldSet, OneOf
<1>2. \A x \in S : \A y \in Seq(V) : step[<<x, y>>] = y \o f[x]
  OBVIOUS
<1>3. \A x \in S : \A y \in Seq(V) : step[<<x, y>>] \in Seq(V)
  <2> HIDE DEF step
  <2>1. ASSUME NEW x \in S, NEW y \in Seq(V) PROVE step[<<x, y>>] \in Seq(V)
    <3>1. step[<<x, y>>] = y \o f[x] /\ f[x] \in Seq(V)
      BY <1>2
    <3> QED BY <3>1, JoinIs
  <2> QED BY <2>1
<1> HIDE DEF step
<1>4. PICK h \in [SUBSET S -> Seq(V)] : Folds(h, step, << >>, SUBSET S)
  <2>1. << >> \in Seq(V)
    OBVIOUS
  <2> HIDE DEF S
  <2> QED BY <1>3, <2>1, FoldExists, Zenon DEF S
<1>5. ASSUME NEW T \in SUBSET S PROVE h[T] = IF T = {} THEN << >> ELSE h[T \ {OneOf(T)}] \o f[OneOf(T)]
  <2>1. T # {} => OneOf(T) \in S /\ T \ {OneOf(T)} \in SUBSET S
    BY DEF OneOf
  <2> QED
    BY <1>2, <1>4, <2>1 DEF Folds
<1>6. h = Def(h)
  <2>1. h = [T \in SUBSET S |-> h[T]]
    BY <1>4
  <2> QED BY <1>5, <2>1
<1>7. g = Def(g)
  <2> HIDE DEF Def
  <2> QED BY <1>6
<1> HIDE DEF g
<1>8. \A T \in SUBSET S : g[T] = IF T = {} THEN << >> ELSE g[T \ {OneOf(T)}] \o f[OneOf(T)]
  BY <1>7
<1> DEFINE G == {T \in SUBSET S : g[T] \in Seq(V)}
<1>9. ASSUME NEW U \in SUBSET S PROVE U \in G
  <2>1. ASSUME NEW T \in SUBSET U, \A x \in T : T \ {x} \in G PROVE T \in G
    <3>1. CASE T = {}
      <4>1. T \in SUBSET S /\ g[T] = << >>
        BY <1>8, <3>1
      <4>2. << >> \in Seq(V)
        OBVIOUS
      <4> QED
        BY <4>1, <4>2
    <3>2. CASE T # {}
      <4>1. OneOf(T) \in T
        BY <3>2 DEF OneOf
      <4>2. g[T \ {OneOf(T)}] \in Seq(V) /\ f[OneOf(T)] \in Seq(V)
        BY <2>1, <4>1
      <4>3. g[T] = g[T \ {OneOf(T)}] \o f[OneOf(T)]
        BY <1>8, <3>2
      <4>4. g[T] \in Seq(V)
        BY <4>2, <4>3, JoinIs
      <4> QED
        BY <4>4
    <3> QED
      BY <3>1, <3>2
  <2>2. IsFiniteSet(U)
    BY FS_Subset
  <2> HIDE DEF G
  <2> QED BY <2>1, <2>2, SubsetsInduct
<1>10. g \in [SUBSET S -> Seq(V)]
  <2>1. \A U \in SUBSET S : g[U] \in Seq(V)
    BY <1>9
  <2> QED
    BY <1>7, <2>1
<1> QED
  BY <1>1, <1>8, <1>10

LEMMA AllRowsType ==
  ASSUME NEW f, IsFiniteSet(DOMAIN f), NEW V, \A x \in DOMAIN f : f[x] \in Seq(V)
  PROVE  P!AllRows(f) \in Seq(V)
<1>1. PICK g \in [SUBSET DOMAIN f -> Seq(V)] : P!AllRows(f) = g[DOMAIN f]
  BY AllRowsFold, Zenon
<1> QED
  BY <1>1

\* How often a row is in a sequence of rows.
Often(s, row) == Cardinality({i \in DOMAIN s : s[i] = row})

LEMMA OftenType ==
  ASSUME NEW V, NEW s \in Seq(V), NEW row
  PROVE  IsFiniteSet({i \in DOMAIN s : s[i] = row}) /\ Often(s, row) \in Nat
<1>1. IsFiniteSet(1..Len(s)) /\ DOMAIN s = 1..Len(s)
  BY FS_Interval
<1> QED
  BY <1>1, FS_Subset, FS_CardinalityType DEF Often

LEMMA OftenJoined ==
  ASSUME NEW V, NEW s \in Seq(V), NEW u \in Seq(V), NEW row
  PROVE  Often(s \o u, row) = Often(s, row) + Often(u, row)
<1> DEFINE A == {i \in DOMAIN s : s[i] = row}
           C == {i \in DOMAIN u : u[i] = row}
           E == {i \in DOMAIN (s \o u) : (s \o u)[i] = row}
           n == Len(s)
           shift == [i \in C |-> n + i]
           F == {shift[i] : i \in C}
<1>0. /\ DOMAIN s = 1..n /\ DOMAIN u = 1..Len(u) /\ DOMAIN (s \o u) = 1..n + Len(u) /\ n \in Nat /\ Len(u) \in Nat
      /\ \A i \in 1..n : (s \o u)[i] = s[i]
      /\ \A i \in 1..Len(u) : (s \o u)[n + i] = u[i]
  BY JoinIs
<1>1. IsFiniteSet(A) /\ IsFiniteSet(C)
  BY OftenType
<1>2. E = A \cup F
  <2>1. ASSUME NEW i \in E PROVE i \in A \cup F
    <3>1. i \in 1..n + Len(u) /\ (s \o u)[i] = row
      BY <1>0
    <3>2. CASE i \in 1..n
      BY <1>0, <3>1, <3>2
    <3>3. CASE i \notin 1..n
      <4>1. i - n \in 1..Len(u) /\ n + (i - n) = i
        BY <1>0, <3>1, <3>3
      <4>2. i - n \in C
        BY <1>0, <3>1, <4>1
      <4>3. shift[i - n] = i
        BY <4>1, <4>2
      <4> QED
        BY <4>2, <4>3
    <3> QED
      BY <3>2, <3>3
  <2>2. ASSUME NEW i \in A PROVE i \in E
    BY <1>0
  <2>3. ASSUME NEW i \in C PROVE shift[i] \in E
    BY <1>0
  <2> QED
    BY <2>1, <2>2, <2>3
<1>3. A \cap F = {}
  <2>1. \A i \in A : i <= n
    BY <1>0
  <2>2. \A i \in C : shift[i] = n + i /\ i \in 1..Len(u)
    BY <1>0
  <2> HIDE DEF A, C, shift
  <2>3. ASSUME NEW i \in C PROVE shift[i] \notin A
    BY <1>0, <2>1, <2>2
  <2> QED
    BY <2>3
<1>4. IsFiniteSet(F) /\ Cardinality(F) = Cardinality(C)
  <2>1. shift \in Bijection(C, F)
    <3>1. shift \in [C -> F]
      OBVIOUS
    <3>2. \A i, j \in C : shift[i] = shift[j] => i = j
      BY <1>0
    <3> QED
      BY <3>1, <3>2 DEF Bijection, Injection, Surjection, IsInjective
  <2> HIDE DEF shift, F, C
  <2> QED
    BY <1>1, <2>1, FS_Bijection DEF ExistsBijection
<1> HIDE DEF A, C, F, E
<1>5. Cardinality(A \cup F) = Cardinality(A) + Cardinality(F) - Cardinality(A \cap F)
  BY <1>1, <1>4, FS_Union
<1>6. Cardinality(A) \in Nat /\ Cardinality(F) \in Nat
  BY <1>1, <1>4, FS_CardinalityType
<1>7. Cardinality(E) = Cardinality(A) + Cardinality(C)
  <2>1. Cardinality(A \cap F) = 0
    BY <1>3, FS_EmptySet
  <2> QED
    BY <1>2, <1>4, <1>5, <1>6, <2>1
<1> QED
  BY <1>7, Zenon DEF Often, A, C, E

\* A row is in all rows as often as in those of each element.
LEMMA OftenAll ==
  ASSUME NEW f, IsFiniteSet(DOMAIN f), NEW V, \A x \in DOMAIN f : f[x] \in Seq(V), NEW row
  PROVE  Often(P!AllRows(f), row) = SumOf([x \in DOMAIN f |-> Often(f[x], row)], DOMAIN f)
<1> DEFINE S == DOMAIN f
           c == [x \in S |-> Often(f[x], row)]
<1>1. PICK g \in [SUBSET S -> Seq(V)] :
           /\ \A T \in SUBSET S : g[T] = IF T = {} THEN << >> ELSE g[T \ {OneOf(T)}] \o f[OneOf(T)]
           /\ P!AllRows(f) = g[S]
  BY AllRowsFold
<1>2. \A x \in S : c[x] = Often(f[x], row) /\ c[x] \in Int
  <2>1. ASSUME NEW x \in S PROVE Often(f[x], row) \in Int
    <3>1. f[x] \in Seq(V)
      OBVIOUS
    <3>2. Often(f[x], row) \in Nat
      BY <3>1, OftenType
    <3> QED BY <3>2
  <2> QED BY <2>1
<1> HIDE DEF c
<1>3. PICK k : Totals(k, c, SUBSET S) /\ SumOf(c, S) = k[S]
  BY <1>2, SumIs
<1> DEFINE G == {T \in SUBSET S : Often(g[T], row) = k[T]}
<1>4. ASSUME NEW T \in SUBSET S, \A x \in T : T \ {x} \in G PROVE T \in G
  <2>1. CASE T = {}
    <3>1. g[T] = << >> /\ k[T] = 0
      BY <1>1, <1>3, <2>1 DEF Totals
    <3>2. Often(<< >>, row) = 0
      BY FS_EmptySet DEF Often
    <3> QED
      BY <3>1, <3>2
  <2>2. CASE T # {}
    <3> DEFINE x == OneOf(T)
    <3>1. x \in T
      BY <2>2 DEF OneOf
    <3>2. g[T] = g[T \ {x}] \o f[x] /\ k[T] = c[x] + k[T \ {x}]
      BY <1>1, <1>3, <2>2 DEF Totals
    <3> HIDE DEF x
    <3>3. g[T \ {x}] \in Seq(V) /\ f[x] \in Seq(V) /\ Often(g[T \ {x}], row) = k[T \ {x}]
      BY <1>4, <3>1
    <3>4. Often(g[T], row) = Often(g[T \ {x}], row) + Often(f[x], row)
      BY <3>2, <3>3, OftenJoined
    <3>5. Often(g[T \ {x}], row) \in Nat /\ Often(f[x], row) \in Nat
      BY <3>3, OftenType
    <3>6. Often(g[T], row) = k[T]
      BY <1>2, <3>1, <3>2, <3>3, <3>4, <3>5
    <3> QED
      BY <3>6
  <2> QED
    BY <2>1, <2>2
<1>5. S \in G
  <2> HIDE DEF G, S
  <2> QED BY <1>4, SubsetsInduct DEF S
<1> QED
  BY <1>1, <1>3, <1>5 DEF c

LEMMA OftenTimes ==
  ASSUME NEW n \in Nat, NEW r, NEW row
  PROVE  /\ P!Times(n, r) \in Seq({r})
         /\ Often(P!Times(n, r), row) = IF r = row THEN n ELSE 0
<1>1. P!Times(n, r) = [i \in 1..n |-> r]
  BY DEF P!Times
<1>2. {i \in DOMAIN P!Times(n, r) : P!Times(n, r)[i] = row} = IF r = row THEN 1..n ELSE {}
  BY <1>1
<1>3. Cardinality(1..n) = n /\ Cardinality({}) = 0
  BY FS_Interval, FS_EmptySet
<1>4. P!Times(n, r) \in Seq({r})
  BY <1>1
<1> QED
  BY <1>2, <1>3, <1>4 DEF Often

\* s is a sequence, of whatever rows.
IsRows(s) == s \in Seq({s[i] : i \in DOMAIN s})

LEMMA RowsAre ==
  ASSUME NEW V, NEW s \in Seq(V)
  PROVE  IsRows(s)
<1>1. Len(s) \in Nat /\ s = [i \in 1..Len(s) |-> s[i]] /\ DOMAIN s = 1..Len(s)
  OBVIOUS
<1> QED
  BY <1>1 DEF IsRows

LEMMA RowsFinite ==
  ASSUME NEW s, IsRows(s)
  PROVE  Len(s) \in Nat /\ DOMAIN s = 1..Len(s) /\ IsFiniteSet(DOMAIN s)
<1>1. Len(s) \in Nat /\ DOMAIN s = 1..Len(s)
  BY DEF IsRows
<1>2. IsFiniteSet(1..Len(s))
  BY <1>1, FS_Interval
<1> QED
  BY <1>1, <1>2

LEMMA RowsMade ==
  ASSUME NEW n \in Nat, NEW s, s = [i \in 1..n |-> s[i]]
  PROVE  IsRows(s) /\ Len(s) = n
<1>1. s \in Seq({s[i] : i \in 1..n}) /\ DOMAIN s = 1..n
  OBVIOUS
<1>2. Len(s) = n
  BY <1>1
<1> QED
  BY <1>1, <1>2 DEF IsRows

LEMMA RowsJoined ==
  ASSUME NEW s, NEW u, IsRows(s), IsRows(u)
  PROVE  /\ IsRows(s \o u)
         /\ \A i \in DOMAIN (s \o u) : \/ \E j \in DOMAIN s : (s \o u)[i] = s[j]
                                       \/ \E j \in DOMAIN u : (s \o u)[i] = u[j]
         /\ \A row : Often(s \o u, row) = Often(s, row) + Often(u, row)
<1> DEFINE V == {s[i] : i \in DOMAIN s} \cup {u[i] : i \in DOMAIN u}
<1>1. s \in Seq(V) /\ u \in Seq(V)
  <2>1. /\ Len(s) \in Nat /\ s = [i \in 1..Len(s) |-> s[i]] /\ DOMAIN s = 1..Len(s)
        /\ Len(u) \in Nat /\ u = [i \in 1..Len(u) |-> u[i]] /\ DOMAIN u = 1..Len(u)
    BY DEF IsRows
  <2>2. (\A i \in 1..Len(s) : s[i] \in V) /\ \A i \in 1..Len(u) : u[i] \in V
    BY <2>1
  <2> HIDE DEF V
  <2> QED
    BY <2>1, <2>2
<1>2. s \o u \in Seq(V)
  <2> HIDE DEF V
  <2> QED BY <1>1, JoinIs
<1>3. \A i \in DOMAIN (s \o u) : (s \o u)[i] \in V
  <2> HIDE DEF V
  <2> QED BY <1>2
<1>4. IsRows(s \o u)
  <2> HIDE DEF V
  <2> QED BY <1>2, RowsAre
<1>5. \A row : Often(s \o u, row) = Often(s, row) + Often(u, row)
  <2> HIDE DEF V
  <2> QED BY <1>1, OftenJoined
<1> QED
  BY <1>3, <1>4, <1>5

LEMMA RowsMixed ==
  ASSUME NEW s, NEW u, IsRows(s), IsRows(u), NEW w, w = s \o u
  PROVE  \A i \in DOMAIN w : (\E j \in DOMAIN s : w[i] = s[j]) \/ \E j \in DOMAIN u : w[i] = u[j]
BY RowsJoined

LEMMA RowsOfAll ==
  ASSUME NEW f, IsFiniteSet(DOMAIN f), \A x \in DOMAIN f : IsRows(f[x])
  PROVE  /\ IsRows(P!AllRows(f))
         /\ \A i \in DOMAIN P!AllRows(f) : \E x \in DOMAIN f : \E j \in DOMAIN f[x] : P!AllRows(f)[i] = f[x][j]
         /\ \A row : Often(P!AllRows(f), row) = SumOf([x \in DOMAIN f |-> Often(f[x], row)], DOMAIN f)
<1> DEFINE V == UNION {{f[x][j] : j \in DOMAIN f[x]} : x \in DOMAIN f}
<1>1. ASSUME NEW x \in DOMAIN f PROVE f[x] \in Seq(V)
  <2>1. IsRows(f[x])
    OBVIOUS
  <2> DEFINE s == f[x]
  <2>2. \A i \in DOMAIN s : s[i] \in V
    OBVIOUS
  <2> HIDE DEF V, s
  <2>3. Len(s) \in Nat /\ s = [i \in 1..Len(s) |-> s[i]] /\ DOMAIN s = 1..Len(s)
    BY <2>1 DEF IsRows, s
  <2>4. s \in Seq(V)
    BY <2>2, <2>3
  <2> QED
    BY <2>4 DEF s
<1>2. P!AllRows(f) \in Seq(V)
  <2> HIDE DEF V
  <2> QED BY <1>1, AllRowsType
<1>3. \A i \in DOMAIN P!AllRows(f) : P!AllRows(f)[i] \in V
  <2> HIDE DEF V
  <2> QED BY <1>2
<1>4. IsRows(P!AllRows(f))
  <2> HIDE DEF V
  <2> QED BY <1>2, RowsAre
<1>5. \A row : Often(P!AllRows(f), row) = SumOf([x \in DOMAIN f |-> Often(f[x], row)], DOMAIN f)
  <2> HIDE DEF V
  <2> QED BY <1>1, OftenAll
<1> QED
  BY <1>3, <1>4, <1>5

LEMMA OftenNone ==
  ASSUME NEW s, NEW row, \A i \in DOMAIN s : s[i] # row
  PROVE  Often(s, row) = 0
<1>1. {i \in DOMAIN s : s[i] = row} = {}
  OBVIOUS
<1> QED
  BY <1>1, FS_EmptySet DEF Often

LEMMA RowsOne ==
  ASSUME NEW r
  PROVE  IsRows(<<r>>) /\ \A j \in DOMAIN <<r>> : <<r>>[j] = r
<1>1. <<r>> \in Seq({r}) /\ \A j \in DOMAIN <<r>> : <<r>>[j] = r
  OBVIOUS
<1> QED
  BY <1>1, RowsAre

LEMMA RowsTimes ==
  ASSUME NEW n \in Nat, NEW r
  PROVE  IsRows(P!Times(n, r)) /\ \A j \in DOMAIN P!Times(n, r) : P!Times(n, r)[j] = r /\ n > 0
<1>1. P!Times(n, r) \in Seq({r})
  BY OftenTimes
<1>2. \A j \in DOMAIN P!Times(n, r) : P!Times(n, r)[j] = r /\ n > 0
  BY DEF P!Times
<1> QED
  BY <1>1, <1>2, RowsAre

\* One row for each of a finite set, and as many as there are of each.
LEMMA RowsEach ==
  ASSUME NEW f, IsFiniteSet(DOMAIN f), NEW h, \A x \in DOMAIN f : f[x] = <<h[x]>>
  PROVE  /\ IsRows(P!AllRows(f))
         /\ \A i \in DOMAIN P!AllRows(f) : \E x \in DOMAIN f : P!AllRows(f)[i] = h[x]
<1>1. \A x \in DOMAIN f : IsRows(f[x]) /\ \A j \in DOMAIN f[x] : f[x][j] = h[x]
  <2>1. ASSUME NEW x \in DOMAIN f PROVE IsRows(f[x]) /\ \A j \in DOMAIN f[x] : f[x][j] = h[x]
    <3>1. f[x] = <<h[x]>>
      OBVIOUS
    <3> QED BY <3>1, RowsOne
  <2> QED BY <2>1
<1>2. /\ IsRows(P!AllRows(f))
      /\ \A i \in DOMAIN P!AllRows(f) : \E x \in DOMAIN f : \E j \in DOMAIN f[x] : P!AllRows(f)[i] = f[x][j]
  BY <1>1, RowsOfAll
<1> QED
  BY <1>1, <1>2

LEMMA RowsMany ==
  ASSUME NEW f, IsFiniteSet(DOMAIN f), NEW n, NEW h,
         \A x \in DOMAIN f : n[x] \in Nat /\ f[x] = P!Times(n[x], h[x])
  PROVE  /\ IsRows(P!AllRows(f))
         /\ \A i \in DOMAIN P!AllRows(f) : \E x \in DOMAIN f : n[x] > 0 /\ P!AllRows(f)[i] = h[x]
<1>1. \A x \in DOMAIN f : IsRows(f[x]) /\ \A j \in DOMAIN f[x] : f[x][j] = h[x] /\ n[x] > 0
  <2>1. ASSUME NEW x \in DOMAIN f PROVE IsRows(f[x]) /\ \A j \in DOMAIN f[x] : f[x][j] = h[x] /\ n[x] > 0
    <3>1. n[x] \in Nat /\ f[x] = P!Times(n[x], h[x])
      OBVIOUS
    <3> QED BY <3>1, RowsTimes
  <2> QED BY <2>1
<1>2. /\ IsRows(P!AllRows(f))
      /\ \A i \in DOMAIN P!AllRows(f) : \E x \in DOMAIN f : \E j \in DOMAIN f[x] : P!AllRows(f)[i] = f[x][j]
  BY <1>1, RowsOfAll
<1> QED
  BY <1>1, <1>2
-----------------------------------------------------------------------------
(* Portability: what an archive says *)

LEMMA MaxIs ==
  ASSUME NEW S \in SUBSET Nat, IsFiniteSet(S), S # {}
  PROVE  P!Max(S) \in S /\ \A y \in S : y <= P!Max(S)
<1> DEFINE G == {T \in SUBSET S : T # {} => \E x \in T : \A y \in T : x >= y}
<1>1. ASSUME NEW T \in SUBSET S, \A x \in T : T \ {x} \in G PROVE T \in G
  <2>1. SUFFICES ASSUME T # {} PROVE \E x \in T : \A y \in T : x >= y
    OBVIOUS
  <2>2. PICK z \in T : TRUE
    BY <2>1
  <2>3. CASE T \ {z} = {}
    <3>1. \A y \in T : z >= y
      BY <2>2, <2>3
    <3> QED BY <2>2, <3>1
  <2>4. CASE T \ {z} # {}
    <3>1. PICK x \in T \ {z} : \A y \in T \ {z} : x >= y
      BY <1>1, <2>2, <2>4
    <3>2. CASE x >= z
      BY <3>1, <3>2
    <3>3. CASE ~(x >= z)
      <4>1. z \in Nat /\ x \in Nat /\ \A y \in T \ {z} : y \in Nat /\ x >= y
        BY <3>1
      <4>2. \A y \in T : z >= y
        BY <3>3, <4>1
      <4> QED BY <2>2, <4>2
    <3> QED BY <3>2, <3>3
  <2> QED BY <2>3, <2>4
<1>2. S \in G
  <2> HIDE DEF G
  <2> QED BY <1>1, SubsetsInduct
<1>3. \E x \in S : \A y \in S : x >= y
  BY <1>2
<1>4. P!Max(S) \in S /\ \A y \in S : P!Max(S) >= y
  BY <1>3, Zenon DEF P!Max
<1> QED
  BY <1>4

LEMMA SameCardinality == \A S : P!Cardinality(S) = Cardinality(S) /\ (P!IsFiniteSet(S) <=> IsFiniteSet(S))
BY Zenon DEF P!Cardinality, Cardinality, P!IsFiniteSet, IsFiniteSet

LEMMA DaysAre ==
  /\ P!Max(Past) \in Nat \ {0} /\ MaxImports \in Nat /\ \A d \in Past : d \in Nat \ {0} /\ d <= P!Max(Past)
  /\ imports \in Nat => P!Now \in Nat \ {0} /\ P!Now \notin Past
  /\ \A e \in P!Viewing : e.day \in Nat \ {0}
<1>1. Past \in SUBSET Nat /\ IsFiniteSet(Past) /\ Past # {} /\ Past \subseteq Nat \ {0} /\ MaxImports \in Nat
  BY PortabilityHolds, SameCardinality DEF P!PortabilityAssumption
<1>2. P!Max(Past) \in Past /\ \A d \in Past : d <= P!Max(Past)
  BY <1>1, MaxIs
<1>3. P!Max(Past) \in Nat \ {0}
  BY <1>1, <1>2
<1>4. imports \in Nat => P!Now \in Nat \ {0} /\ P!Now \notin Past
  <2> SUFFICES ASSUME imports \in Nat PROVE P!Now \in Nat \ {0} /\ P!Now \notin Past
    OBVIOUS
  <2>1. P!Now = P!Max(Past) + 1 + imports
    BY DEF P!Now
  <2>2. P!Now \in Nat \ {0} /\ P!Now > P!Max(Past)
    BY <1>3, <2>1
  <2> QED
    BY <1>2, <1>3, <2>2
<1>5. \A e \in P!Viewing : e.day \in Nat \ {0}
  <2>1. ASSUME NEW e \in P!Viewing PROVE e.day \in Past \cup (P!Max(Past) + 1)..(P!Max(Past) + MaxImports)
    BY DEF P!Viewing
  <2>2. \A d \in (P!Max(Past) + 1)..(P!Max(Past) + MaxImports) : d \in Nat \ {0}
    BY <1>1, <1>3
  <2> QED
    BY <1>1, <2>1, <2>2
<1> QED
  BY <1>1, <1>2, <1>3, <1>4, <1>5

LEMMA ViewingsFinite == IsFiniteSet(P!Viewing) /\ IsFiniteSet(Works) /\ IsFiniteSet(Works \X {"own", "event"})
<1> DEFINE Span == Past \cup (P!Max(Past) + 1)..(P!Max(Past) + MaxImports)
           P1 == Works \X Span
           P2 == P1 \X BOOLEAN
           P3 == P2 \X BOOLEAN
           f == [e \in P!Viewing |-> <<<<<<e.title, e.day>>, e.part>>, e.note>>]
<1>1. IsFiniteSet(BOOLEAN) /\ IsFiniteSet({"own", "event"})
  <2>1. BOOLEAN = {TRUE} \cup {FALSE} /\ {"own", "event"} = {"own"} \cup {"event"}
    OBVIOUS
  <2>2. IsFiniteSet({TRUE}) /\ IsFiniteSet({"own"})
    BY FS_Singleton
  <2>3. IsFiniteSet({TRUE} \cup {FALSE}) /\ IsFiniteSet({"own"} \cup {"event"})
    BY <2>2, FS_AddElement
  <2> QED
    BY <2>1, <2>3
<1>2. IsFiniteSet(Works) /\ IsFiniteSet(Past)
  BY PortabilityHolds, SameCardinality DEF P!PortabilityAssumption
<1>3. IsFiniteSet(Span)
  <2>1. IsFiniteSet((P!Max(Past) + 1)..(P!Max(Past) + MaxImports))
    BY DaysAre, FS_Interval
  <2> QED BY <1>2, <2>1, FS_Union
<1> HIDE DEF Span
<1>4. IsFiniteSet(P1)
  BY <1>2, <1>3, FS_Product
<1> HIDE DEF P1
<1>5. IsFiniteSet(P2)
  BY <1>1, <1>4, FS_Product
<1> HIDE DEF P2
<1>6. IsFiniteSet(P3)
  BY <1>1, <1>5, FS_Product
<1>7. f \in [P!Viewing -> P3]
  BY DEF P!Viewing, P1, P2, Span
<1>8. ASSUME NEW d \in P!Viewing, NEW e \in P!Viewing, f[d] = f[e] PROVE d = e
  <2>1. d.title = e.title /\ d.day = e.day /\ d.part = e.part /\ d.note = e.note
    BY <1>8
  <2> QED
    BY <2>1 DEF P!Viewing
<1> HIDE DEF f, P3
<1>9. f \in Injection(P!Viewing, P3)
  BY <1>7, <1>8 DEF Injection, IsInjective
<1>10. IsFiniteSet(P!Viewing)
  BY <1>6, <1>9, FS_Injection
<1>11. IsFiniteSet(Works \X {"own", "event"})
  BY <1>1, <1>2, FS_Product
<1> QED
  BY <1>2, <1>10, <1>11

\* The tables of an account, or of the document made of it, of which rows are made.
Tabled(a) ==
  /\ {"library", "states", "watch_history", "ratings", "notes", "reviews", "lists"} \subseteq DOMAIN a
  /\ a.library \subseteq Works /\ a.reviews \subseteq Works
  /\ a.watch_history \in [P!Viewing -> Nat]
  /\ DOMAIN a.notes = Works \X {"own", "event"}
  /\ \A k \in Works \X {"own", "event"} : a.notes[k] \in Nat
  /\ a.lists = None \/ IsFiniteSet(a.lists)

HistoryRow(e) == [P!About(e.title) EXCEPT !.day = e.day, !.note = e.note]
RowFields == {"id", "display", "name", "year", "plain", "day", "rating", "status", "fav", "note"}

LEMMA AboutIs ==
  ASSUME NEW t
  PROVE  /\ DOMAIN P!About(t) = RowFields
         /\ P!About(t).id = t /\ P!About(t).day = 0 /\ P!About(t).status = None
BY DEF P!About, P!Row, RowFields

LEMMA HistoryRowIs ==
  ASSUME NEW e
  PROVE  /\ DOMAIN HistoryRow(e) = RowFields
         /\ HistoryRow(e).id = e.title /\ HistoryRow(e).day = e.day /\ HistoryRow(e).note = e.note
         /\ HistoryRow(e).status = None
BY DEF HistoryRow, P!About, P!Row, RowFields

LEMMA ConvertedIs ==
  ASSUME NEW r, DOMAIN r = RowFields
  PROVE  /\ P!Converted(r).id = r.id /\ P!Converted(r).note = r.note
         /\ P!Converted(r).status = P!ParseStatus(r.status)
         /\ P!Converted(r).day = IF r.day = 0 /\ P!ParseStatus(r.status) = "COMPLETED" THEN P!Now ELSE r.day
BY DEF P!Converted, RowFields

LEMMA TitledRows ==
  ASSUME NEW S \in SUBSET Works
  PROVE  LET s == P!AllRows([t \in S |-> <<P!About(t)>>])
         IN IsRows(s) /\ \A i \in DOMAIN s : \E t \in S : s[i] = P!About(t)
<1> DEFINE f == [t \in S |-> <<P!About(t)>>]
           h == [t \in S |-> P!About(t)]
<1>1. IsFiniteSet(DOMAIN f)
  BY ViewingsFinite, FS_Subset
<1>2. \A t \in DOMAIN f : f[t] = <<h[t]>>
  OBVIOUS
<1>3. (\A t \in S : h[t] = P!About(t)) /\ DOMAIN f = S
  OBVIOUS
<1> HIDE DEF f, h
<1>4. /\ IsRows(P!AllRows(f))
      /\ \A i \in DOMAIN P!AllRows(f) : \E t \in DOMAIN f : P!AllRows(f)[i] = h[t]
  BY <1>1, <1>2, RowsEach
<1>5. IsRows(P!AllRows(f)) /\ \A i \in DOMAIN P!AllRows(f) : \E t \in S : P!AllRows(f)[i] = P!About(t)
  BY <1>3, <1>4
<1> QED
  BY <1>5, Zenon DEF f

LEMMA RatedRows ==
  ASSUME NEW doc
  PROVE  /\ IsRows(P!RatingRows(doc))
         /\ \A i \in DOMAIN P!RatingRows(doc) : \E t \in Works : \E n :
              doc.ratings[t] # 0 /\ P!RatingRows(doc)[i] = [P!About(t) EXCEPT !.rating = n]
<1> DEFINE S == {t \in Works : doc.ratings[t] # 0}
           f == [t \in S |-> <<[P!About(t) EXCEPT !.rating = doc.ratings[t]]>>]
           h == [t \in S |-> [P!About(t) EXCEPT !.rating = doc.ratings[t]]]
<1>1. IsFiniteSet(DOMAIN f)
  BY ViewingsFinite, FS_Subset
<1>2. \A t \in DOMAIN f : f[t] = <<h[t]>>
  OBVIOUS
<1>3. P!RatingRows(doc) = P!AllRows(f)
  BY Zenon DEF P!RatingRows
<1>4. DOMAIN f = S /\ \A t \in S : h[t] = [P!About(t) EXCEPT !.rating = doc.ratings[t]]
  OBVIOUS
<1> HIDE DEF f, h
<1>5. /\ IsRows(P!AllRows(f))
      /\ \A i \in DOMAIN P!AllRows(f) : \E t \in DOMAIN f : P!AllRows(f)[i] = h[t]
  BY <1>1, <1>2, RowsEach
<1>6. ASSUME NEW i \in DOMAIN P!AllRows(f)
      PROVE  \E t \in Works : \E n : doc.ratings[t] # 0 /\ P!AllRows(f)[i] = [P!About(t) EXCEPT !.rating = n]
  <2>1. PICK t \in S : P!AllRows(f)[i] = h[t]
    BY <1>4, <1>5
  <2> QED
    BY <1>4, <2>1, Zenon
<1> QED
  BY <1>3, <1>5, <1>6

LEMMA NotedRows ==
  ASSUME NEW doc, Tabled(doc)
  PROVE  /\ IsRows(P!NoteRows(doc))
         /\ \A i \in DOMAIN P!NoteRows(doc) : \E k \in Works \X {"own", "event"} :
              doc.notes[k] > 0 /\ P!NoteRows(doc)[i] = P!About(k[1])
<1> DEFINE S == Works \X {"own", "event"}
           f == [k \in S |-> P!Times(doc.notes[k], P!About(k[1]))]
           c == [k \in S |-> doc.notes[k]]
           h == [k \in S |-> P!About(k[1])]
<1>0. DOMAIN doc.notes = S /\ \A k \in S : doc.notes[k] \in Nat
  BY DEF Tabled
<1> HIDE DEF S
<1>1. IsFiniteSet(DOMAIN f)
  BY ViewingsFinite DEF S
<1>2. \A k \in DOMAIN f : c[k] \in Nat /\ f[k] = P!Times(c[k], h[k])
  BY <1>0
<1>3. P!NoteRows(doc) = P!AllRows(f)
  BY <1>0, Zenon DEF P!NoteRows
<1>4. DOMAIN f = S /\ \A k \in S : h[k] = P!About(k[1]) /\ c[k] = doc.notes[k]
  OBVIOUS
<1> HIDE DEF f, h, c
<1>5. /\ IsRows(P!AllRows(f))
      /\ \A i \in DOMAIN P!AllRows(f) : \E k \in DOMAIN f : c[k] > 0 /\ P!AllRows(f)[i] = h[k]
  BY <1>1, <1>2, RowsMany
<1>6. \A i \in DOMAIN P!AllRows(f) : \E k \in S : doc.notes[k] > 0 /\ P!AllRows(f)[i] = P!About(k[1])
  BY <1>4, <1>5
<1> QED
  BY <1>3, <1>5, <1>6 DEF S

LEMMA WatchedRows ==
  ASSUME NEW doc, Tabled(doc)
  PROVE  /\ IsRows(P!HistoryRows(doc))
         /\ \A i \in DOMAIN P!HistoryRows(doc) : \E e \in P!Viewing :
              doc.watch_history[e] > 0 /\ P!HistoryRows(doc)[i] = HistoryRow(e)
         /\ \A row : Often(P!HistoryRows(doc), row) =
              SumOf([e \in P!Viewing |-> IF HistoryRow(e) = row THEN doc.watch_history[e] ELSE 0], P!Viewing)
<1> DEFINE f == [e \in P!Viewing |-> P!Times(doc.watch_history[e], HistoryRow(e))]
           c == [e \in P!Viewing |-> doc.watch_history[e]]
           h == [e \in P!Viewing |-> HistoryRow(e)]
<1>0. \A e \in P!Viewing : doc.watch_history[e] \in Nat
  BY DEF Tabled
<1>1. IsFiniteSet(DOMAIN f)
  BY ViewingsFinite
<1>2. \A e \in DOMAIN f : c[e] \in Nat /\ f[e] = P!Times(c[e], h[e])
  BY <1>0
<1>3. P!HistoryRows(doc) = P!AllRows(f)
  BY Zenon DEF P!HistoryRows, HistoryRow
<1>4. DOMAIN f = P!Viewing /\ \A e \in P!Viewing : h[e] = HistoryRow(e) /\ c[e] = doc.watch_history[e]
  OBVIOUS
<1> HIDE DEF f, h, c
<1>5. /\ IsRows(P!AllRows(f))
      /\ \A i \in DOMAIN P!AllRows(f) : \E e \in DOMAIN f : c[e] > 0 /\ P!AllRows(f)[i] = h[e]
  BY <1>1, <1>2, RowsMany
<1>6. \A i \in DOMAIN P!AllRows(f) : \E e \in P!Viewing : doc.watch_history[e] > 0 /\ P!AllRows(f)[i] = HistoryRow(e)
  BY <1>4, <1>5
<1>7. ASSUME NEW row
      PROVE  Often(P!AllRows(f), row) =
               SumOf([e \in P!Viewing |-> IF HistoryRow(e) = row THEN doc.watch_history[e] ELSE 0], P!Viewing)
  <2> DEFINE u == [e \in DOMAIN f |-> Often(f[e], row)]
             v == [e \in P!Viewing |-> IF HistoryRow(e) = row THEN doc.watch_history[e] ELSE 0]
  <2>1. \A e \in DOMAIN f : IsRows(f[e])
    BY <1>2, RowsTimes
  <2>2. Often(P!AllRows(f), row) = SumOf(u, DOMAIN f)
    BY <1>1, <2>1, RowsOfAll
  <2>3. \A e \in DOMAIN f : Often(f[e], row) = IF h[e] = row THEN c[e] ELSE 0
    <3>1. ASSUME NEW e \in DOMAIN f PROVE Often(f[e], row) = IF h[e] = row THEN c[e] ELSE 0
      <4>1. c[e] \in Nat /\ f[e] = P!Times(c[e], h[e])
        BY <1>2
      <4>2. Often(P!Times(c[e], h[e]), row) = IF h[e] = row THEN c[e] ELSE 0
        BY <4>1, OftenTimes, Zenon
      <4> QED BY <4>1, <4>2
    <3> QED BY <3>1
  <2>4. u = v
    BY <1>4, <2>3
  <2> HIDE DEF u, v
  <2> QED
    BY <1>4, <2>2, <2>4 DEF v
<1> QED
  BY <1>3, <1>5, <1>6, <1>7

LEMMA CollectedRows ==
  ASSUME NEW doc, Tabled(doc)
  PROVE  IsRows(P!ListRows(doc))
<1>1. CASE doc.lists = None
  <2>1. << >> \in Seq({})
    OBVIOUS
  <2> QED
    BY <1>1, <2>1, RowsAre DEF P!ListRows
<1>2. CASE doc.lists # None
  <2> DEFINE f == [i \in doc.lists |-> <<P!About(i.title)>>]
             h == [i \in doc.lists |-> P!About(i.title)]
  <2>1. IsFiniteSet(DOMAIN f) /\ \A i \in DOMAIN f : f[i] = <<h[i]>>
    BY <1>2 DEF Tabled
  <2>2. P!ListRows(doc) = P!AllRows(f)
    BY <1>2, Zenon DEF P!ListRows
  <2> HIDE DEF f, h
  <2> QED
    BY <2>1, <2>2, RowsEach
<1> QED
  BY <1>1, <1>2

\* The rows of a JSON archive that stand for no more than that a title is planned.
PlannedRows(doc) ==
  [i \in DOMAIN P!WatchlistRows(doc) |-> [P!WatchlistRows(doc)[i] EXCEPT !.status = "PLAN_TO_WATCH"]]

LEMMA PlannedRowsAre ==
  ASSUME NEW doc, doc.watchlist \subseteq Works
  PROVE  /\ IsRows(PlannedRows(doc))
         /\ \A i \in DOMAIN PlannedRows(doc) : \E t \in doc.watchlist :
              PlannedRows(doc)[i] = [P!About(t) EXCEPT !.status = "PLAN_TO_WATCH"]
<1> DEFINE s == P!WatchlistRows(doc)
<1>1. IsRows(s) /\ \A i \in DOMAIN s : \E t \in doc.watchlist : s[i] = P!About(t)
  BY TitledRows DEF P!WatchlistRows
<1>2. Len(s) \in Nat /\ DOMAIN s = 1..Len(s)
  BY <1>1, RowsFinite
<1>3. PlannedRows(doc) = [i \in 1..Len(s) |-> PlannedRows(doc)[i]]
  BY <1>2 DEF PlannedRows
<1>4. IsRows(PlannedRows(doc))
  BY <1>2, <1>3, RowsMade
<1>5. DOMAIN PlannedRows(doc) = DOMAIN s
      /\ \A i \in DOMAIN s : PlannedRows(doc)[i] = [s[i] EXCEPT !.status = "PLAN_TO_WATCH"]
  BY DEF PlannedRows
<1> HIDE DEF s
<1> QED
  BY <1>1, <1>4, <1>5

LEMMA LibraryRowsAre ==
  ASSUME NEW doc, Tabled(doc)
  PROVE  /\ IsRows(P!LibraryRows(doc)) /\ IsRows(P!ReviewRows(doc))
         /\ \A i \in DOMAIN P!LibraryRows(doc) : \E t \in doc.library : P!LibraryRows(doc)[i] = P!About(t)
         /\ \A i \in DOMAIN P!ReviewRows(doc) : \E t \in doc.reviews : P!ReviewRows(doc)[i] = P!About(t)
<1>1. doc.library \in SUBSET Works /\ doc.reviews \in SUBSET Works
  BY DEF Tabled
<1> QED
  BY <1>1, TitledRows DEF P!LibraryRows, P!ReviewRows

\* A row of a JSON archive is of a title that is planned, of a title of another table,
\* or of a watch event.
Origin(doc, r) ==
  \/ \E t \in P!Elsewhere(doc) : r.id = t /\ r.day = 0 /\ r.status = None
  \/ \E t \in doc.watchlist : r.id = t /\ r.day = 0 /\ r.status = "PLAN_TO_WATCH"
  \/ \E e \in P!Viewing : doc.watch_history[e] > 0 /\ r = HistoryRow(e)

LEMMA JsonRowsAre ==
  ASSUME NEW doc, Tabled(doc), doc.watchlist \subseteq Works
  PROVE  /\ IsRows(P!JsonRows(doc))
         /\ \A i \in DOMAIN P!JsonRows(doc) :
              /\ DOMAIN P!JsonRows(doc)[i] = RowFields /\ P!JsonRows(doc)[i].id \in Works
              /\ Origin(doc, P!JsonRows(doc)[i])
         /\ \A row : row.day # 0 => Often(P!JsonRows(doc), row) =
              SumOf([e \in P!Viewing |-> IF HistoryRow(e) = row THEN doc.watch_history[e] ELSE 0], P!Viewing)
<1> DEFINE L == P!LibraryRows(doc)
           W == PlannedRows(doc)
           H == P!HistoryRows(doc)
           R == P!RatingRows(doc)
           N == P!NoteRows(doc)
           V == P!ReviewRows(doc)
           Good(s) == \A i \in DOMAIN s : /\ DOMAIN s[i] = RowFields /\ s[i].id \in Works
                                          /\ Origin(doc, s[i])
           Undated(s) == \A i \in DOMAIN s : s[i].day = 0
<1>0. P!JsonRows(doc) = L \o W \o H \o R \o N \o V
  BY Zenon DEF P!JsonRows, PlannedRows
<1>1. /\ doc.library \subseteq P!Elsewhere(doc) /\ doc.reviews \subseteq P!Elsewhere(doc)
      /\ \A t \in Works : doc.ratings[t] # 0 => t \in P!Elsewhere(doc)
      /\ \A k \in Works \X {"own", "event"} : doc.notes[k] > 0 => k[1] \in P!Elsewhere(doc)
      /\ P!Elsewhere(doc) \subseteq Works
  BY DEF P!Elsewhere, Tabled, P!Viewing
<1>2. IsRows(L) /\ Good(L) /\ Undated(L) /\ IsRows(V) /\ Good(V) /\ Undated(V)
  BY <1>1, LibraryRowsAre, AboutIs DEF Origin
<1>3. IsRows(W) /\ Good(W) /\ Undated(W)
  <2>1. \A t : LET r == [P!About(t) EXCEPT !.status = "PLAN_TO_WATCH"]
               IN DOMAIN r = RowFields /\ r.id = t /\ r.day = 0 /\ r.status = "PLAN_TO_WATCH"
    BY AboutIs DEF RowFields
  <2>2. ASSUME NEW i \in DOMAIN W
        PROVE  DOMAIN W[i] = RowFields /\ W[i].id \in Works /\ W[i].day = 0 /\ Origin(doc, W[i])
    <3>1. PICK t \in doc.watchlist : W[i] = [P!About(t) EXCEPT !.status = "PLAN_TO_WATCH"]
      BY PlannedRowsAre
    <3>2. DOMAIN W[i] = RowFields /\ W[i].id = t /\ W[i].day = 0 /\ W[i].status = "PLAN_TO_WATCH"
      BY <2>1, <3>1
    <3> QED
      BY <3>1, <3>2 DEF Origin
  <2> QED
    BY <2>2, PlannedRowsAre
<1>4. IsRows(H) /\ Good(H)
  <2>1. \A e \in P!Viewing : e.title \in Works
    BY DEF P!Viewing
  <2> QED
    BY <2>1, WatchedRows, HistoryRowIs DEF Origin
<1>5. IsRows(R) /\ Good(R) /\ Undated(R)
  <2>1. \A t, n : LET r == [P!About(t) EXCEPT !.rating = n]
                  IN DOMAIN r = RowFields /\ r.id = t /\ r.day = 0 /\ r.status = None
    BY AboutIs DEF RowFields
  <2>2. ASSUME NEW i \in DOMAIN R
        PROVE  DOMAIN R[i] = RowFields /\ R[i].id \in Works /\ R[i].day = 0 /\ Origin(doc, R[i])
    <3>1. PICK t \in Works : \E n : doc.ratings[t] # 0 /\ R[i] = [P!About(t) EXCEPT !.rating = n]
      BY RatedRows
    <3>2. PICK n : doc.ratings[t] # 0 /\ R[i] = [P!About(t) EXCEPT !.rating = n]
      BY <3>1
    <3>3. DOMAIN R[i] = RowFields /\ R[i].id = t /\ R[i].day = 0 /\ R[i].status = None
      BY <2>1, <3>2
    <3> QED
      BY <1>1, <3>2, <3>3 DEF Origin
  <2> QED
    BY <2>2, RatedRows
<1>6. IsRows(N) /\ Good(N) /\ Undated(N)
  <2>1. ASSUME NEW i \in DOMAIN N
        PROVE  DOMAIN N[i] = RowFields /\ N[i].id \in Works /\ N[i].day = 0 /\ Origin(doc, N[i])
    <3>1. PICK k \in Works \X {"own", "event"} : doc.notes[k] > 0 /\ N[i] = P!About(k[1])
      BY NotedRows
    <3>2. k[1] \in P!Elsewhere(doc) /\ k[1] \in Works
      BY <1>1, <3>1
    <3> QED
      BY <3>1, <3>2, AboutIs DEF Origin
  <2> QED
    BY <2>1, NotedRows
<1>7. ASSUME NEW s, IsRows(s), Good(s), NEW u, IsRows(u), Good(u) PROVE IsRows(s \o u) /\ Good(s \o u)
  <2>0. IsRows(s) /\ IsRows(u)
    BY <1>7
  <2>1. IsRows(s \o u)
    BY <2>0, RowsJoined
  <2> DEFINE w == s \o u
  <2>2. w = s \o u
    OBVIOUS
  <2> HIDE DEF w
  <2>3. \A i \in DOMAIN w : (\E j \in DOMAIN s : w[i] = s[j]) \/ \E j \in DOMAIN u : w[i] = u[j]
    BY <2>0, <2>2, RowsMixed
  <2>4. Good(w)
    BY <1>7, <2>3
  <2> QED
    BY <2>1, <2>4 DEF w
<1>8. ASSUME NEW s, Undated(s), NEW row, row.day # 0 PROVE Often(s, row) = 0
  BY <1>8, OftenNone
<1> HIDE DEF Good, Undated, L, W, H, R, N, V
<1>9. IsRows(L \o W) /\ Good(L \o W)
  BY <1>2, <1>3, <1>7
<1>10. IsRows(L \o W \o H) /\ Good(L \o W \o H)
  BY <1>4, <1>7, <1>9
<1>11. IsRows(L \o W \o H \o R) /\ Good(L \o W \o H \o R)
  BY <1>5, <1>7, <1>10
<1>12. IsRows(L \o W \o H \o R \o N) /\ Good(L \o W \o H \o R \o N)
  BY <1>6, <1>7, <1>11
<1>13. IsRows(L \o W \o H \o R \o N \o V) /\ Good(L \o W \o H \o R \o N \o V)
  BY <1>2, <1>7, <1>12
<1>14. ASSUME NEW row, row.day # 0 PROVE Often(P!JsonRows(doc), row) = Often(H, row)
  <2>1. Often(L, row) = 0 /\ Often(W, row) = 0 /\ Often(R, row) = 0 /\ Often(N, row) = 0 /\ Often(V, row) = 0
    BY <1>2, <1>3, <1>5, <1>6, <1>8, <1>14
  <2>2. Often(H, row) \in Nat
    BY <1>4, OftenType DEF IsRows
  <2>3. Often(L \o W, row) = Often(L, row) + Often(W, row)
    BY <1>2, <1>3, RowsJoined
  <2>4. Often(L \o W \o H, row) = Often(L \o W, row) + Often(H, row)
    BY <1>4, <1>9, RowsJoined
  <2>5. Often(L \o W \o H \o R, row) = Often(L \o W \o H, row) + Often(R, row)
    BY <1>5, <1>10, RowsJoined
  <2>6. Often(L \o W \o H \o R \o N, row) = Often(L \o W \o H \o R, row) + Often(N, row)
    BY <1>6, <1>11, RowsJoined
  <2>7. Often(L \o W \o H \o R \o N \o V, row) = Often(L \o W \o H \o R \o N, row) + Often(V, row)
    BY <1>2, <1>12, RowsJoined
  <2> QED
    BY <1>0, <2>1, <2>2, <2>3, <2>4, <2>5, <2>6, <2>7
<1>15. \A row : row.day # 0 => Often(P!JsonRows(doc), row) =
         SumOf([e \in P!Viewing |-> IF HistoryRow(e) = row THEN doc.watch_history[e] ELSE 0], P!Viewing)
  BY <1>14, WatchedRows DEF H
<1> QED
  BY <1>0, <1>13, <1>15 DEF Good
-----------------------------------------------------------------------------
(* Portability: what is uploaded *)

LEMMA RowsMapped ==
  ASSUME NEW s, IsRows(s), NEW u, u = [i \in DOMAIN s |-> u[i]]
  PROVE  IsRows(u)
<1>1. Len(s) \in Nat /\ DOMAIN s = 1..Len(s)
  BY RowsFinite
<1> QED
  BY <1>1, RowsMade

LEMMA RowsKept ==
  ASSUME NEW s, IsRows(s), NEW fields
  PROVE  IsRows(P!Keep(s, fields))
<1>1. P!Keep(s, fields) = [i \in DOMAIN s |-> P!Keep(s, fields)[i]]
  BY DEF P!Keep
<1> QED
  BY <1>1, RowsMapped

LEMMA JoinedRows ==
  ASSUME NEW s, IsRows(s), NEW u, IsRows(u)
  PROVE  IsRows(s \o u)
BY RowsJoined

\* Whatever the format of an archive, what is read of it are rows in an order.
LEMMA RowsOfFile ==
  ASSUME NEW f, f.format \in {"json", "csv", "xlsx", "md"}, Tabled(f.doc), f.doc.watchlist \subseteq Works
  PROVE  IsRows(P!RowsOf(f))
<1> DEFINE d == f.doc
           L == P!LibraryRows(d)
           H == P!HistoryRows(d)
           R == P!RatingRows(d)
           N == P!NoteRows(d)
           V == P!ReviewRows(d)
           C == P!ListRows(d)
<1>1. IsRows(L) /\ IsRows(H) /\ IsRows(R) /\ IsRows(N) /\ IsRows(V) /\ IsRows(C)
  BY LibraryRowsAre, WatchedRows, RatedRows, NotedRows, CollectedRows
<1>2. CASE f.format = "json"
  BY <1>2, JsonRowsAre DEF P!RowsOf
<1>3. CASE f.format = "csv"
  <2>1. P!RowsOf(f) = P!Keep(L \o H \o R \o N \o V \o C, {"display", "note"})
    BY <1>3 DEF P!RowsOf, P!CsvRows, P!CsvTable
  <2> HIDE DEF L, H, R, N, V, C
  <2>2. IsRows(L \o H)
    BY <1>1, JoinedRows
  <2>3. IsRows(L \o H \o R)
    BY <1>1, <2>2, JoinedRows
  <2>4. IsRows(L \o H \o R \o N)
    BY <1>1, <2>3, JoinedRows
  <2>5. IsRows(L \o H \o R \o N \o V)
    BY <1>1, <2>4, JoinedRows
  <2>6. IsRows(L \o H \o R \o N \o V \o C)
    BY <1>1, <2>5, JoinedRows
  <2> QED
    BY <2>1, <2>6, RowsKept
<1>4. CASE f.format = "xlsx"
  <2> DEFINE A == P!Keep(L, {"name", "year"} \cup {"display"})
             B0 == P!Keep(H, {"name", "year"} \cup {"day", "note"})
             E == P!Keep(R \o N \o V \o C, {"name", "year"} \cup {})
  <2>1. P!RowsOf(f) = A \o B0 \o E
    BY <1>4 DEF P!RowsOf, P!XlsxRows, P!Sheet
  <2> HIDE DEF L, H, R, N, V, C
  <2>2. IsRows(R \o N)
    BY <1>1, JoinedRows
  <2>3. IsRows(R \o N \o V)
    BY <1>1, <2>2, JoinedRows
  <2>4. IsRows(R \o N \o V \o C)
    BY <1>1, <2>3, JoinedRows
  <2>5. IsRows(A) /\ IsRows(B0) /\ IsRows(E)
    BY <1>1, <2>4, RowsKept
  <2> HIDE DEF A, B0, E
  <2>6. IsRows(A \o B0)
    BY <2>5, JoinedRows
  <2> QED
    BY <2>1, <2>5, <2>6, JoinedRows
<1>5. CASE f.format = "md"
  <2> DEFINE K == P!Keep(C, {"name", "year"})
             M == [i \in DOMAIN K |-> [K[i] EXCEPT !.plain = FALSE]]
  <2>1. P!RowsOf(f) = M
    BY <1>5 DEF P!RowsOf, P!MarkdownRows, P!TextLines
  <2>2. IsRows(K)
    BY <1>1, RowsKept
  <2> HIDE DEF K
  <2>3. M = [i \in DOMAIN K |-> M[i]]
    OBVIOUS
  <2> HIDE DEF M
  <2> QED
    BY <2>1, <2>2, <2>3, RowsMapped
<1> QED
  BY <1>2, <1>3, <1>4, <1>5

LEMMA PagesAreRows ==
  ASSUME NEW pages, IsRows(pages), \A i \in DOMAIN pages : IsRows(pages[i])
  PROVE  IsRows(P!FlattenSeq(pages))
<1> DEFINE n == Len(pages)
           Joins(g, i) == g[i] = IF i = 1 THEN pages[i] ELSE g[i - 1] \o pages[i]
           Def(g) == [i \in 1..n |-> IF i = 1 THEN pages[i] ELSE g[i - 1] \o pages[i]]
           flatten == CHOOSE g : g = Def(g)
           G == {m \in Nat : m <= n => \E g : g = [i \in 1..m |-> g[i]] /\ \A i \in 1..m : Joins(g, i)}
<1>0. n \in Nat /\ DOMAIN pages = 1..n
  BY RowsFinite
<1>1. CASE n = 0
  BY <1>1 DEF P!FlattenSeq
<1>2. CASE n # 0
  <2>1. P!FlattenSeq(pages) = flatten[n]
    BY <1>2, Zenon DEF P!FlattenSeq
  <2>2. 0 \in G
    <3> DEFINE g == [i \in 1..0 |-> i]
    <3>1. g = [i \in 1..0 |-> g[i]] /\ \A i \in 1..0 : Joins(g, i)
      OBVIOUS
    <3> HIDE DEF g
    <3> QED BY <3>1
  <2>3. ASSUME NEW m \in Nat, m \in G PROVE m + 1 \in G
    <3> SUFFICES ASSUME m + 1 <= n
        PROVE  \E g : g = [i \in 1..m + 1 |-> g[i]] /\ \A i \in 1..m + 1 : Joins(g, i)
      OBVIOUS
    <3>1. PICK g : \A i \in 1..m : Joins(g, i)
      BY <1>0, <2>3
    <3> DEFINE h == [i \in 1..m + 1 |-> IF i = m + 1 THEN (IF i = 1 THEN pages[i] ELSE g[i - 1] \o pages[i]) ELSE g[i]]
    <3>2. h = [i \in 1..m + 1 |-> h[i]]
      OBVIOUS
    <3>3. \A i \in 1..m : h[i] = g[i]
      OBVIOUS
    <3>4. h[m + 1] = IF m + 1 = 1 THEN pages[m + 1] ELSE g[m] \o pages[m + 1]
      OBVIOUS
    <3> HIDE DEF h
    <3>5. ASSUME NEW i \in 1..m + 1 PROVE Joins(h, i)
      <4>1. CASE i = m + 1
        <5>1. i - 1 = m /\ (i # 1 => m \in 1..m)
          BY <4>1
        <5> QED
          BY <3>3, <3>4, <4>1, <5>1
      <4>2. CASE i # m + 1
        <5>1. i \in 1..m /\ (i # 1 => i - 1 \in 1..m)
          BY <4>2
        <5> QED
          BY <3>1, <3>3, <5>1
      <4> QED BY <4>1, <4>2
    <3> QED
      BY <3>2, <3>5
  <2>4. n \in G
    <3> HIDE DEF G
    <3> QED BY <1>0, <2>2, <2>3, NatInduct
  <2>5. PICK h : h = [i \in 1..n |-> h[i]] /\ \A i \in 1..n : Joins(h, i)
    BY <1>0, <2>4
  <2>6. h = Def(h)
    BY <2>5
  <2>7. flatten = Def(flatten)
    <3> HIDE DEF Def
    <3> QED BY <2>6
  <2> HIDE DEF flatten
  <2>8. \A i \in 1..n : Joins(flatten, i)
    BY <2>7
  <2> DEFINE F == {m \in Nat : m \in 1..n => IsRows(flatten[m])}
  <2>9. 0 \in F
    BY <1>0
  <2>10. ASSUME NEW m \in Nat, m \in F PROVE m + 1 \in F
    <3> SUFFICES ASSUME m + 1 \in 1..n PROVE IsRows(flatten[m + 1])
      OBVIOUS
    <3>1. IsRows(pages[m + 1])
      BY <1>0
    <3>2. CASE m = 0
      <4>1. flatten[m + 1] = pages[m + 1]
        BY <2>8, <3>2
      <4> QED BY <3>1, <4>1
    <3>3. CASE m # 0
      <4>1. m \in 1..n
        BY <1>0, <3>3
      <4>2. IsRows(flatten[m])
        BY <2>10, <4>1
      <4>3. flatten[m + 1] = flatten[m] \o pages[m + 1]
        <5>1. Joins(flatten, m + 1) /\ m + 1 # 1 /\ (m + 1) - 1 = m
          BY <2>8, <3>3
        <5> QED BY <5>1
      <4> QED BY <3>1, <4>2, <4>3, JoinedRows
    <3> QED BY <3>2, <3>3
  <2>11. n \in F
    <3> HIDE DEF F
    <3> QED BY <1>0, <2>9, <2>10, NatInduct
  <2> QED
    BY <1>0, <1>2, <2>1, <2>11
<1> QED
  BY <1>1, <1>2

LEMMA ForeignRows ==
  /\ \A s \in Foreign : IsRows(s)
  /\ \A pages \in Pdfs : IsRows(P!PdfText(pages))
<1>1. \A s : P!ToSet(s) = {s[i] : i \in DOMAIN s}
  BY Zenon DEF P!ToSet
<1>2. \A s \in Foreign : IsRows(s)
  BY <1>1, PortabilityHolds DEF P!PortabilityAssumption, IsRows
<1>3. ASSUME NEW pages \in Pdfs PROVE IsRows(P!PdfText(pages))
  <2>1. /\ pages \in Seq(P!ToSet(pages))
        /\ \A s \in P!ToSet(pages) : s \in Seq(P!ToSet(s))
    BY PortabilityHolds DEF P!PortabilityAssumption
  <2>2. IsRows(pages) /\ \A i \in DOMAIN pages : IsRows(pages[i])
    BY <1>1, <2>1 DEF IsRows
  <2> QED
    BY <2>2, PagesAreRows DEF P!PdfText
<1> QED
  BY <1>2, <1>3

LEMMA NthIs ==
  ASSUME NEW n \in Nat, NEW k \in 1..n
  PROVE  P!Nth(1..n, k) = k
<1>1. ASSUME NEW i \in 1..n PROVE P!Cardinality({j \in 1..n : j <= i}) = i
  <2>1. {j \in 1..n : j <= i} = 1..i
    OBVIOUS
  <2>2. Cardinality(1..i) = i
    BY FS_Interval
  <2> QED
    BY <2>1, <2>2, SameCardinality
<1>2. \A i \in 1..n : P!Cardinality({j \in 1..n : j <= i}) = k <=> i = k
  BY <1>1
<1> QED
  BY <1>2 DEF P!Nth

\* Of rows that are all valid, all are taken, in their order.
LEMMA AllValid ==
  ASSUME NEW s, IsRows(s), \A i \in DOMAIN s : P!Valid(P!Converted(s[i]))
  PROVE  LET valid == {i \in DOMAIN s : P!Valid(P!Converted(s[i]))}
         IN [k \in 1..P!Cardinality(valid) |-> P!Converted(s[P!Nth(valid, k)])]
              = [k \in DOMAIN s |-> P!Converted(s[k])]
<1> DEFINE valid == {i \in DOMAIN s : P!Valid(P!Converted(s[i]))}
<1>1. Len(s) \in Nat /\ DOMAIN s = 1..Len(s)
  BY RowsFinite
<1>2. valid = 1..Len(s)
  BY <1>1
<1>3. P!Cardinality(1..Len(s)) = Len(s)
  BY <1>1, FS_Interval, SameCardinality
<1>4. \A k \in 1..Len(s) : P!Nth(valid, k) = k
  BY <1>1, <1>2, NthIs
<1> HIDE DEF valid
<1>5. [k \in 1..P!Cardinality(valid) |-> P!Converted(s[P!Nth(valid, k)])] = [k \in DOMAIN s |-> P!Converted(s[k])]
  BY <1>1, <1>2, <1>3, <1>4
<1> QED
  BY <1>5 DEF valid
-----------------------------------------------------------------------------
(* Portability: the way out and back *)

\* An account, in which the user has no more than one note on a title.
Kept(a) == Tabled(a) /\ \A t \in Works : a.notes[<<t, "own">>] \in {0, 1}

\* What the rows of a JSON archive are taken for.
JsonItems(doc) == [k \in DOMAIN P!JsonRows(doc) |-> P!Converted(P!JsonRows(doc)[k])]

\* A document has every table, and an open export no file beside it.
Written(doc) == Tabled(doc) /\ P!ToSet(P!Tables) \subseteq DOMAIN doc /\ doc.watchlist \subseteq Works

\* The wizard with a JSON archive has exactly its rows, of which none is unsure.
Moving ==
  /\ imports \in Nat /\ Kept(account)
  /\ export # P!NoExport =>
       /\ {"scope", "next", "doc"} \subseteq DOMAIN export /\ file = P!NoFile
       /\ export.next \in 1..9 /\ Written(export.doc)
  /\ file # P!NoFile => file.format \in {"json", "csv", "xlsx", "md"} /\ Written(file.doc)
  /\ DOMAIN wizard = {"at", "from", "items", "verdicts"} /\ IsFiniteSet(DOMAIN wizard.items)
  /\ wizard # P!NoWizard /\ wizard.from = "json" =>
       /\ file # P!NoFile /\ file.format = "json" /\ wizard.items = JsonItems(file.doc)
       /\ wizard.at = "previewed" => \A i \in DOMAIN wizard.items : wizard.verdicts[i].resolution.among = {}

LEMMA TablesAre ==
  /\ P!ToSet(P!Tables) = {"library", "watchlist", "watch_history", "ratings", "states", "notes", "reviews", "lists"}
  /\ Len(P!Tables) = 8 /\ \A i \in 1..8 : P!Tables[i] \in P!ToSet(P!Tables)
<1>1. Len(P!Tables) = 8 /\ DOMAIN P!Tables = 1..8
  BY DEF P!Tables
<1>2. /\ P!Tables[1] = "library" /\ P!Tables[2] = "watchlist" /\ P!Tables[3] = "watch_history"
      /\ P!Tables[4] = "ratings" /\ P!Tables[5] = "states" /\ P!Tables[6] = "notes"
      /\ P!Tables[7] = "reviews" /\ P!Tables[8] = "lists"
  BY DEF P!Tables
<1>3. P!ToSet(P!Tables) = {P!Tables[i] : i \in 1..8}
  BY <1>1 DEF P!ToSet
<1>4. 1..8 = {1, 2, 3, 4, 5, 6, 7, 8}
  OBVIOUS
<1> HIDE DEF P!Tables
<1>5. {P!Tables[i] : i \in 1..8} =
        {"library", "watchlist", "watch_history", "ratings", "states", "notes", "reviews", "lists"}
  BY <1>2, <1>4
<1> QED
  BY <1>1, <1>3, <1>5

LEMMA EmptyIsKept == Kept(P!Empty)
BY DEF P!Empty, Kept, Tabled

LEMMA MovingInit ==
  P!Init => Moving
<1> SUFFICES ASSUME P!Init PROVE Moving
  OBVIOUS
<1>1. Kept(account)
  BY EmptyIsKept DEF P!Init
<1>2. wizard.items = << >> /\ DOMAIN wizard = {"at", "from", "items", "verdicts"}
  BY DEF P!Init, P!NoWizard
<1>3. IsFiniteSet(DOMAIN wizard.items)
  BY <1>2, FS_EmptySet
<1> QED
  BY <1>1, <1>2, <1>3 DEF P!Init, Moving

LEMMA EditKeeps ==
  ASSUME Kept(account), P!Edit
  PROVE  Kept(account')
<1> DEFINE N == Works \X {"own", "event"}
           Same(a) == /\ a.library = account.library /\ a.reviews = account.reviews
                      /\ a.notes = account.notes /\ a.lists = account.lists
<1>0. /\ {"library", "states", "watch_history", "ratings", "notes", "reviews", "lists"} \subseteq DOMAIN account
      /\ account.library \subseteq Works /\ account.reviews \subseteq Works
      /\ account.watch_history \in [P!Viewing -> Nat]
      /\ DOMAIN account.notes = N
      /\ \A k \in N : account.notes[k] \in Nat
      /\ account.lists = None \/ IsFiniteSet(account.lists)
      /\ \A t \in Works : account.notes[<<t, "own">>] \in {0, 1}
  BY DEF Kept, Tabled
<1>1. ASSUME account' \in P!Marked(account) \cup P!Shelved(account) \cup P!Noted(account) \cup P!Reviewed(account)
                      \cup P!Curated(account) \cup P!Collected(account) \cup P!Uncollected(account)
      PROVE  DOMAIN account' = DOMAIN account
  <2>1. CASE account' \in P!Marked(account)
    BY <2>1 DEF P!Marked
  <2>2. CASE account' \in P!Shelved(account)
    BY <2>2 DEF P!Shelved
  <2>3. CASE account' \in P!Noted(account) \cup P!Reviewed(account)
    BY <2>3 DEF P!Noted, P!Reviewed
  <2>4. CASE account' \in P!Curated(account)
    BY <2>4 DEF P!Curated
  <2>5. CASE account' \in P!Collected(account)
    BY <2>5 DEF P!Collected
  <2>6. CASE account' \in P!Uncollected(account)
    BY <2>6 DEF P!Uncollected
  <2> QED
    BY <1>1, <2>1, <2>2, <2>3, <2>4, <2>5, <2>6
<1>2. CASE account' \in P!Logged(account)
  <2>0. DOMAIN account' = DOMAIN account
    <3>1. ASSUME NEW e \in P!Viewing,
                 account' = [account EXCEPT !.watch_history[e] = @ + 1,
                               !.states[e.title].status = IF e.part THEN "WATCHING" ELSE "COMPLETED"]
          PROVE  DOMAIN account' = DOMAIN account
      BY <3>1
    <3>2. ASSUME NEW e \in P!Viewing, account' = [account EXCEPT !.watch_history[e] = @ - 1]
          PROVE  DOMAIN account' = DOMAIN account
      BY <3>2
    <3> QED
      BY <1>2, <3>1, <3>2, Zenon DEF P!Logged
  <2>1. Same(account')
    BY <1>0, <1>2 DEF P!Logged
  <2>2. account'.watch_history \in [P!Viewing -> Nat]
    <3>1. ASSUME NEW e \in P!Viewing,
                 account' = [account EXCEPT !.watch_history[e] = @ + 1,
                               !.states[e.title].status = IF e.part THEN "WATCHING" ELSE "COMPLETED"]
          PROVE  account'.watch_history \in [P!Viewing -> Nat]
      <4>1. account'.watch_history = [account.watch_history EXCEPT ![e] = account.watch_history[e] + 1]
        BY <1>0, <3>1
      <4>2. account.watch_history[e] + 1 \in Nat
        BY <1>0
      <4> QED BY <1>0, <4>1, <4>2
    <3>2. ASSUME NEW e \in P!Viewing, account.watch_history[e] > 0,
                 account' = [account EXCEPT !.watch_history[e] = @ - 1]
          PROVE  account'.watch_history \in [P!Viewing -> Nat]
      <4>1. account'.watch_history = [account.watch_history EXCEPT ![e] = account.watch_history[e] - 1]
        BY <1>0, <3>2
      <4>2. account.watch_history[e] - 1 \in Nat
        BY <1>0, <3>2
      <4> QED BY <1>0, <4>1, <4>2
    <3> QED
      BY <1>2, <3>1, <3>2, Zenon DEF P!Logged
  <2> QED
    BY <1>0, <2>0, <2>1, <2>2 DEF Kept, Tabled
<1>3. CASE account' \in P!Marked(account) \cup P!Curated(account)
  <2>1. /\ account'.library = account.library /\ account'.reviews = account.reviews
        /\ account'.notes = account.notes /\ account'.watch_history = account.watch_history
        /\ account'.lists \in {account.lists, {}, None}
    BY <1>0, <1>3 DEF P!Marked, P!Curated
  <2> QED
    BY <1>0, <1>1, <1>3, <2>1, FS_EmptySet DEF Kept, Tabled
<1>4. CASE account' \in P!Shelved(account)
  <2>1. /\ account'.library \subseteq Works /\ account'.reviews = account.reviews
        /\ account'.notes = account.notes /\ account'.watch_history = account.watch_history
        /\ account'.lists = account.lists
    BY <1>0, <1>4 DEF P!Shelved
  <2> QED
    BY <1>0, <1>1, <1>4, <2>1 DEF Kept, Tabled
<1>5. CASE account' \in P!Noted(account)
  <2>1. /\ account'.library = account.library /\ account'.reviews = account.reviews
        /\ account'.watch_history = account.watch_history /\ account'.lists = account.lists
    BY <1>0, <1>5 DEF P!Noted
  <2>2. PICK t \in Works : account' = [account EXCEPT !.notes[<<t, "own">>] = 1 - @]
    BY <1>5 DEF P!Noted
  <2>3. account'.notes = [account.notes EXCEPT ![<<t, "own">>] = 1 - account.notes[<<t, "own">>]]
    BY <1>0, <2>2
  <2>4. 1 - account.notes[<<t, "own">>] \in {0, 1}
    BY <1>0
  <2>5. /\ DOMAIN account'.notes = N
        /\ \A k \in N : account'.notes[k] \in Nat
        /\ \A u \in Works : account'.notes[<<u, "own">>] \in {0, 1}
    BY <1>0, <2>3, <2>4
  <2> QED
    BY <1>0, <1>1, <1>5, <2>1, <2>5 DEF Kept, Tabled
<1>6. CASE account' \in P!Reviewed(account)
  <2>1. /\ account'.library = account.library /\ account'.reviews \subseteq Works
        /\ account'.notes = account.notes /\ account'.watch_history = account.watch_history
        /\ account'.lists = account.lists
    BY <1>0, <1>6 DEF P!Reviewed
  <2> QED
    BY <1>0, <1>1, <1>6, <2>1 DEF Kept, Tabled
<1>7. CASE account' \in P!Collected(account) \cup P!Uncollected(account)
  <2>1. /\ account'.library = account.library /\ account'.reviews = account.reviews
        /\ account'.notes = account.notes /\ account'.watch_history = account.watch_history
    BY <1>0, <1>7 DEF P!Collected, P!Uncollected
  <2>2. /\ account.lists # None
        /\ \/ \E i : account'.lists = account.lists \cup {i}
           \/ \E i : account'.lists = account.lists \ {i}
    <3>1. CASE account' \in P!Collected(account)
      BY <1>0, <3>1 DEF P!Collected
    <3>2. CASE account' \in P!Uncollected(account)
      BY <1>0, <3>2 DEF P!Uncollected
    <3> QED BY <1>7, <3>1, <3>2
  <2>3. IsFiniteSet(account'.lists)
    BY <1>0, <2>2, FS_AddElement, FS_RemoveElement, FS_Subset
  <2> QED
    BY <1>0, <1>1, <1>7, <2>1, <2>3 DEF Kept, Tabled
<1> QED
  BY <1>2, <1>3, <1>4, <1>5, <1>6, <1>7, Zenon DEF P!Edit

LEMMA TableWritten ==
  ASSUME NEW a, Kept(a), NEW doc, Written(doc), NEW x \in P!ToSet(P!Tables)
  PROVE  Written([doc EXCEPT ![x] = P!Read(a, x)])
<1> DEFINE d == [doc EXCEPT ![x] = P!Read(a, x)]
<1>0. /\ x \in DOMAIN doc /\ DOMAIN d = DOMAIN doc
      /\ \A y \in DOMAIN doc : d[y] = IF y = x THEN P!Read(a, x) ELSE doc[y]
      /\ {"library", "watchlist", "states", "watch_history", "ratings", "notes", "reviews", "lists"}
           \subseteq DOMAIN doc
  BY TablesAre DEF Written
<1> HIDE DEF d
<1>1. Tabled(a) /\ Tabled(doc) /\ doc.watchlist \subseteq Works /\ P!ToSet(P!Tables) \subseteq DOMAIN doc
  BY DEF Kept, Written
<1>2. CASE x = "library"
  <2>1. P!Read(a, x) = a.library
    BY <1>2 DEF P!Read, P!ReadLibraryRows
  <2> QED BY <1>0, <1>1, <1>2, <2>1 DEF Written, Tabled, d
<1>3. CASE x = "watchlist"
  <2>1. P!Read(a, x) \subseteq Works
    BY <1>3 DEF P!Read, P!ReadWatchlistRows, P!Planned
  <2> QED BY <1>0, <1>1, <1>3, <2>1 DEF Written, Tabled, d
<1>4. CASE x = "watch_history"
  <2>1. P!Read(a, x) = a.watch_history
    BY <1>4 DEF P!Read, P!ReadHistoryRows
  <2> QED BY <1>0, <1>1, <1>4, <2>1 DEF Written, Tabled, d
<1>5. CASE x \in {"ratings", "states"}
  BY <1>0, <1>1, <1>5 DEF Written, Tabled, d
<1>6. CASE x = "notes"
  <2>1. P!Read(a, x) = a.notes
    BY <1>6 DEF P!Read, P!ReadNoteRows
  <2> QED BY <1>0, <1>1, <1>6, <2>1 DEF Written, Tabled, d
<1>7. CASE x = "reviews"
  <2>1. P!Read(a, x) = a.reviews
    BY <1>7 DEF P!Read, P!ReadReviewRows
  <2> QED BY <1>0, <1>1, <1>7, <2>1 DEF Written, Tabled, d
<1>8. CASE x = "lists"
  <2>1. P!Read(a, x) = a.lists
    BY <1>8 DEF P!Read, P!ReadListRows
  <2> QED BY <1>0, <1>1, <1>8, <2>1 DEF Written, Tabled, d
<1> QED
  BY <1>2, <1>3, <1>4, <1>5, <1>6, <1>7, <1>8, TablesAre DEF d

LEMMA MovingStays ==
  ASSUME Moving, UNCHANGED <<export, file, wizard, imports>>, Kept(account')
  PROVE  Moving'
BY DEF Moving, JsonItems, P!Converted, P!Now, P!NoWizard, P!NoFile, P!NoExport

LEMMA MovingStart ==
  ASSUME Moving, NEW x \in Scopes, P!StartExport(x)
  PROVE  Moving'
<1> DEFINE doc == [y \in P!ToSet(P!Tables) |-> P!Blank(y)]
<1>1. Written(doc)
  <2>1. Tabled(P!Empty)
    BY EmptyIsKept DEF Kept
  <2>2. P!ToSet(P!Tables) =
          {"library", "watchlist", "watch_history", "ratings", "states", "notes", "reviews", "lists"}
    BY TablesAre
  <2>3. /\ doc.library = P!Empty.library /\ doc.watchlist = {} /\ doc.reviews = P!Empty.reviews
        /\ doc.watch_history = P!Empty.watch_history /\ doc.notes = P!Empty.notes /\ doc.lists = P!Empty.lists
    BY <2>2 DEF P!Blank
  <2>4. DOMAIN doc = P!ToSet(P!Tables)
    OBVIOUS
  <2> HIDE DEF doc
  <2> QED BY <2>1, <2>2, <2>3, <2>4 DEF Written, Tabled
<1> HIDE DEF doc
<1>2. /\ export' = [scope |-> x, next |-> 1, doc |-> doc] /\ file' = P!NoFile /\ file = P!NoFile
      /\ UNCHANGED <<account, wizard, imports, file>>
  BY DEF P!StartExport, doc
<1>3. /\ {"scope", "next", "doc"} \subseteq DOMAIN export' /\ export'.next \in 1..9 /\ Written(export'.doc)
  BY <1>1, <1>2
<1> QED
  BY <1>2, <1>3 DEF Moving, P!NoWizard, P!NoFile

LEMMA MovingRead ==
  ASSUME Moving, P!ReadTable
  PROVE  Moving'
<1> DEFINE x == P!Tables[export.next]
<1>1. /\ export # P!NoExport /\ export.next \in 1..8 /\ x \in P!ToSet(P!Tables)
      /\ {"scope", "next", "doc"} \subseteq DOMAIN export /\ Written(export.doc) /\ file = P!NoFile
  BY TablesAre DEF P!ReadTable, Moving
<1>2. /\ export' = [export EXCEPT !.next = @ + 1,
                     !.doc[x] = IF export.scope \in {"all", x} THEN P!Read(account, x) ELSE @]
      /\ UNCHANGED <<account, file, wizard, imports>>
  BY Zenon DEF P!ReadTable
<1> HIDE DEF x
<1>3. x \in DOMAIN export.doc
  BY <1>1 DEF Written
<1>4. export'.doc = [export.doc EXCEPT
                       ![x] = IF export.scope \in {"all", x} THEN P!Read(account, x) ELSE export.doc[x]]
  BY <1>1, <1>2, Zenon
<1>5. Written(export'.doc)
  <2>1. CASE export.scope \in {"all", x}
    <3>1. export'.doc = [export.doc EXCEPT ![x] = P!Read(account, x)]
      BY <1>4, <2>1
    <3> QED BY <1>1, <3>1, TableWritten DEF Moving
  <2>2. CASE export.scope \notin {"all", x}
    <3>1. DOMAIN export'.doc = DOMAIN export.doc /\ \A y \in DOMAIN export.doc : export'.doc[y] = export.doc[y]
      BY <1>4, <2>2
    <3>2. P!ToSet(P!Tables) =
            {"library", "watchlist", "watch_history", "ratings", "states", "notes", "reviews", "lists"}
      BY TablesAre
    <3> QED BY <1>1, <3>1, <3>2 DEF Written, Tabled
  <2> QED BY <2>1, <2>2
<1>6. DOMAIN export' = DOMAIN export /\ export'.next = export.next + 1
  BY <1>1, <1>2
<1> QED
  BY <1>1, <1>2, <1>5, <1>6 DEF Moving, P!NoWizard, P!NoFile

LEMMA MovingDownload ==
  ASSUME Moving, NEW format, P!Download(format)
  PROVE  Moving'
<1>1. /\ export' = P!NoExport /\ file = P!NoFile /\ Written(export.doc)
      /\ file' = (IF format \in {"json", "csv", "xlsx", "md"}
                  THEN [format |-> format, doc |-> export.doc] ELSE P!NoFile)
      /\ UNCHANGED <<account, wizard, imports>>
  BY DEF P!Download, Moving
<1>2. file' # P!NoFile => file'.format \in {"json", "csv", "xlsx", "md"} /\ Written(file'.doc)
  BY <1>1
<1>3. ~(wizard # P!NoWizard /\ wizard.from = "json")
  BY <1>1 DEF Moving
<1> QED
  BY <1>1, <1>2, <1>3 DEF Moving, P!NoWizard, P!NoFile, P!NoExport

\* The rows of a JSON archive are all valid.
LEMMA ArchiveValid ==
  ASSUME NEW doc, Written(doc)
  PROVE  \A i \in DOMAIN P!JsonRows(doc) : P!Valid(P!Converted(P!JsonRows(doc)[i]))
<1>1. \A i \in DOMAIN P!JsonRows(doc) : DOMAIN P!JsonRows(doc)[i] = RowFields /\ P!JsonRows(doc)[i].id \in Works
  BY JsonRowsAre DEF Written
<1>2. None \notin Works
  BY PortabilityHolds DEF P!PortabilityAssumption
<1> QED
  BY <1>1, <1>2, ConvertedIs DEF P!Valid

LEMMA MovingUpload ==
  ASSUME Moving, NEW s, IsRows(s), NEW from, P!Upload(s, from),
         from = "json" => file # P!NoFile /\ file.format = "json" /\ s = P!JsonRows(file.doc)
  PROVE  Moving'
<1> DEFINE valid == {i \in DOMAIN s : P!Valid(P!Converted(s[i]))}
           items == [k \in 1..P!Cardinality(valid) |-> P!Converted(s[P!Nth(valid, k)])]
<1>1. /\ UNCHANGED <<account, edits, export, file, imports>>
      /\ wizard' = IF items = << >> THEN P!NoWizard
                   ELSE [at |-> "items", from |-> from, items |-> items, verdicts |-> << >>]
  BY Zenon DEF P!Upload
<1>2. IsFiniteSet(DOMAIN items)
  <2>1. IsFiniteSet(DOMAIN s)
    BY RowsFinite
  <2>2. valid \in SUBSET DOMAIN s
    OBVIOUS
  <2> HIDE DEF valid
  <2>3. P!Cardinality(valid) \in Nat
    BY <2>1, <2>2, FS_Subset, FS_CardinalityType, SameCardinality
  <2>4. DOMAIN items = 1..P!Cardinality(valid)
    OBVIOUS
  <2> QED BY <2>3, <2>4, FS_Interval
<1>3. from = "json" => file # P!NoFile /\ file.format = "json" /\ items = JsonItems(file.doc)
  <2> SUFFICES ASSUME from = "json" PROVE file # P!NoFile /\ file.format = "json" /\ items = JsonItems(file.doc)
    OBVIOUS
  <2>1. file # P!NoFile /\ file.format = "json" /\ s = P!JsonRows(file.doc) /\ Written(file.doc)
    BY DEF Moving
  <2>2. \A i \in DOMAIN s : P!Valid(P!Converted(s[i]))
    BY <2>1, ArchiveValid
  <2>3. items = [k \in DOMAIN s |-> P!Converted(s[k])]
    BY <2>2, AllValid
  <2> HIDE DEF items
  <2> QED BY <2>1, <2>3 DEF JsonItems
<1> HIDE DEF items
<1>4. CASE items = << >>
  <2>1. wizard' = P!NoWizard /\ IsFiniteSet({}) /\ DOMAIN P!NoWizard.items = {}
        /\ DOMAIN P!NoWizard = {"at", "from", "items", "verdicts"}
    BY <1>1, <1>4, FS_EmptySet DEF P!NoWizard
  <2> QED
    BY <1>1, <2>1 DEF Moving, P!NoWizard, P!NoFile, P!NoExport
<1>5. CASE items # << >>
  <2>1. wizard' = [at |-> "items", from |-> from, items |-> items, verdicts |-> << >>]
    BY <1>1, <1>5
  <2>2. DOMAIN wizard' = {"at", "from", "items", "verdicts"} /\ wizard'.at = "items"
        /\ wizard'.from = from /\ wizard'.items = items
    BY <2>1
  <2>3. from = "json" => (wizard.items = JsonItems(file.doc))'
    BY <1>1, <1>3, <2>2 DEF JsonItems, P!Converted, P!Now
  <2> QED
    BY <1>1, <1>2, <1>3, <2>2, <2>3 DEF Moving, P!NoFile, P!NoExport
<1> QED
  BY <1>4, <1>5

LEMMA MovingPaste ==
  ASSUME Moving, NEW s, IsRows(s), P!Paste(s)
  PROVE  Moving'
<1> DEFINE items == [i \in DOMAIN s |-> P!Pasted(s[i])]
<1>1. /\ UNCHANGED <<account, edits, export, file, imports>>
      /\ wizard' = [at |-> "items", from |-> "paste", items |-> items, verdicts |-> << >>]
  BY Zenon DEF P!Paste
<1>2. IsFiniteSet(DOMAIN items)
  BY RowsFinite
<1> HIDE DEF items
<1>3. DOMAIN wizard' = {"at", "from", "items", "verdicts"} /\ wizard'.from = "paste" /\ wizard'.items = items
  BY <1>1
<1> QED
  BY <1>1, <1>2, <1>3 DEF Moving, P!NoFile, P!NoExport

\* The items of an archive know their titles.
LEMMA Identified ==
  ASSUME NEW doc, Written(doc), NEW v \in P!AllResolutions(JsonItems(doc))
  PROVE  /\ DOMAIN v = DOMAIN JsonItems(doc)
         /\ \A i \in DOMAIN v : v[i].title = JsonItems(doc)[i].id /\ v[i].among = {}
<1> DEFINE items == JsonItems(doc)
<1>1. DOMAIN v = DOMAIN items /\ \A i \in DOMAIN items : v[i] \in P!Resolutions(items[i])
  BY Zenon DEF P!AllResolutions
<1>2. ASSUME NEW i \in DOMAIN items PROVE items[i].id # None
  <2>1. items[i] = P!Converted(P!JsonRows(doc)[i]) /\ i \in DOMAIN P!JsonRows(doc)
    BY DEF JsonItems
  <2>2. DOMAIN P!JsonRows(doc)[i] = RowFields /\ P!JsonRows(doc)[i].id \in Works
    BY <2>1, JsonRowsAre DEF Written
  <2>3. None \notin Works
    BY PortabilityHolds DEF P!PortabilityAssumption
  <2> QED BY <2>1, <2>2, <2>3, ConvertedIs
<1> HIDE DEF items
<1>3. ASSUME NEW i \in DOMAIN items PROVE v[i].title = items[i].id /\ v[i].among = {}
  <2>1. P!Resolutions(items[i]) = {P!Found(items[i].id, "EXACT_MATCH")}
    BY <1>2, Zenon DEF P!Resolutions
  <2>2. v[i] = P!Found(items[i].id, "EXACT_MATCH")
    BY <1>1, <2>1
  <2> QED BY <2>2 DEF P!Found
<1> QED
  BY <1>1, <1>3 DEF items

LEMMA MovingPreview ==
  ASSUME Moving, P!Preview
  PROVE  Moving'
<1>0. PICK v \in P!AllResolutions(wizard.items) : \E seen :
         wizard' = [wizard EXCEPT !.at = "previewed", !.verdicts =
                      [i \in DOMAIN v |-> [resolution |-> v[i], duplicate |-> seen[i]]]]
  <2>1. PICK v \in P!AllResolutions(wizard.items) :
         wizard' = [wizard EXCEPT !.at = "previewed",
           !.verdicts = [i \in DOMAIN v |->
             [resolution |-> v[i],
              duplicate |-> v[i].title # None /\ P!At(account, v[i].title, wizard.items[i].day) # {}]]]
    BY Zenon DEF P!Preview
  <2> DEFINE seen == [i \in DOMAIN v |-> v[i].title # None /\ P!At(account, v[i].title, wizard.items[i].day) # {}]
             w == [i \in DOMAIN v |->
                    [resolution |-> v[i],
                     duplicate |-> v[i].title # None /\ P!At(account, v[i].title, wizard.items[i].day) # {}]]
             u == [i \in DOMAIN v |-> [resolution |-> v[i], duplicate |-> seen[i]]]
  <2>2. w = u
    OBVIOUS
  <2>3. wizard' = [wizard EXCEPT !.at = "previewed", !.verdicts = w]
    BY <2>1, Zenon
  <2> HIDE DEF w
  <2>4. wizard' = [wizard EXCEPT !.at = "previewed", !.verdicts = u]
    BY <2>2, <2>3
  <2> HIDE DEF seen
  <2> QED BY <2>4
<1>1. PICK seen :
         wizard' = [wizard EXCEPT !.at = "previewed", !.verdicts =
                      [i \in DOMAIN v |-> [resolution |-> v[i], duplicate |-> seen[i]]]]
  BY <1>0
<1> DEFINE w == [i \in DOMAIN v |-> [resolution |-> v[i], duplicate |-> seen[i]]]
<1>2. UNCHANGED <<account, edits, export, file, imports>> /\ wizard.at = "items"
  BY Zenon DEF P!Preview
<1>3. \A i \in DOMAIN v : w[i].resolution = v[i]
  OBVIOUS
<1>4. wizard' = [wizard EXCEPT !.at = "previewed", !.verdicts = w]
  BY <1>1
<1> HIDE DEF w
<1>5. /\ DOMAIN wizard' = DOMAIN wizard /\ wizard'.items = wizard.items /\ wizard'.from = wizard.from
      /\ wizard'.verdicts = w
  BY <1>4 DEF Moving
<1>6. wizard # P!NoWizard
  BY <1>2 DEF P!NoWizard
<1>7. ASSUME wizard.from = "json"
      PROVE  (wizard.items = JsonItems(file.doc))' /\ \A i \in DOMAIN wizard.items : w[i].resolution.among = {}
  <2>1. wizard.items = JsonItems(file.doc) /\ Written(file.doc)
    BY <1>6, <1>7 DEF Moving
  <2>2. DOMAIN v = DOMAIN wizard.items /\ \A i \in DOMAIN v : v[i].among = {}
    BY <2>1, Identified
  <2>3. (wizard.items = JsonItems(file.doc))'
    BY <1>2, <1>5, <2>1 DEF JsonItems, P!Converted, P!Now
  <2> QED
    BY <1>3, <2>2, <2>3
<1> QED
  BY <1>2, <1>5, <1>6, <1>7 DEF Moving, P!NoFile, P!NoExport

LEMMA MovingDisambiguate ==
  ASSUME Moving, NEW i \in DOMAIN wizard.items, NEW t \in Works, P!Disambiguate(i, t)
  PROVE  Moving'
<1>1. wizard.at = "previewed" /\ t \in wizard.verdicts[i].resolution.among
  BY DEF P!Disambiguate
<1>2. wizard # P!NoWizard
  BY <1>1 DEF P!NoWizard
<1>3. wizard.from # "json"
  BY <1>1, <1>2 DEF Moving
<1>4. UNCHANGED <<account, edits, export, file, imports>>
  BY DEF P!Disambiguate
<1>5. /\ DOMAIN wizard' = DOMAIN wizard /\ wizard'.from = wizard.from
      /\ DOMAIN wizard'.items = DOMAIN wizard.items
  BY DEF P!Disambiguate, Moving
<1> QED
  BY <1>2, <1>3, <1>4, <1>5 DEF Moving, P!NoFile, P!NoExport

\* The items that an import takes for a title, and those it makes a watch event of.
ItemsOf(items, at, t) == {i \in DOMAIN items : at[i] = t}
Gained(a, items, at, e) ==
  {i \in DOMAIN items : /\ at[i] = e.title /\ items[i].day = e.day /\ items[i].note = e.note
                        /\ P!ImportsEvent(a, e.title, items[i])}

LEMMA RestoredIs ==
  ASSUME NEW a, Kept(a), NEW items, IsFiniteSet(DOMAIN items), NEW at, NEW keep
  PROVE  /\ Kept(P!Restored(a, items, at, keep))
         /\ \A e \in P!Viewing : P!Restored(a, items, at, keep).watch_history[e] =
              a.watch_history[e] + IF e.part THEN 0 ELSE Cardinality(Gained(a, items, at, e))
<1> DEFINE R == P!Restored(a, items, at, keep)
           N == Works \X {"own", "event"}
           Of(t) == {i \in DOMAIN items : at[i] = t}
           E(e) == {i \in Of(e.title) : /\ items[i].day = e.day /\ items[i].note = e.note
                                        /\ P!ImportsEvent(a, e.title, items[i])}
           M(k) == {i \in Of(k[1]) : P!ImportsNote(a, k[1], items[i])}
<1>0. /\ {"library", "states", "watch_history", "ratings", "notes", "reviews", "lists"} \subseteq DOMAIN a
      /\ a.library \subseteq Works /\ a.reviews \subseteq Works
      /\ a.watch_history \in [P!Viewing -> Nat]
      /\ DOMAIN a.notes = N
      /\ \A k \in N : a.notes[k] \in Nat
      /\ a.lists = None \/ IsFiniteSet(a.lists)
      /\ \A t \in Works : a.notes[<<t, "own">>] \in {0, 1}
  BY DEF Kept, Tabled
<1>1. \A e : IsFiniteSet(E(e)) /\ Cardinality(E(e)) \in Nat /\ P!Cardinality(E(e)) = Cardinality(E(e))
  <2>1. \A e : E(e) \in SUBSET DOMAIN items
    OBVIOUS
  <2> HIDE DEF E
  <2> QED BY <2>1, FS_Subset, FS_CardinalityType, SameCardinality
<1>2. \A k : IsFiniteSet(M(k)) /\ Cardinality(M(k)) \in Nat /\ P!Cardinality(M(k)) = Cardinality(M(k))
  <2>1. \A k : M(k) \in SUBSET DOMAIN items
    OBVIOUS
  <2> HIDE DEF M
  <2> QED BY <2>1, FS_Subset, FS_CardinalityType, SameCardinality
<1> DEFINE history == [e \in P!Viewing |-> a.watch_history[e] + IF e.part THEN 0 ELSE P!Cardinality(E(e))]
           notes == [k \in N |-> a.notes[k] + IF k[2] = "own" THEN 0 ELSE P!Cardinality(M(k))]
<1>3. PICK ratings, states, library :
        /\ library \subseteq Works
        /\ R = [a EXCEPT !.watch_history = history, !.ratings = ratings, !.states = states,
                         !.library = @ \cup library, !.notes = notes]
  <2> DEFINE ratings == [t \in Works |-> IF {i \in Of(t) : items[i].rating # 0} = {} \/ (keep /\ a.ratings[t] # 0)
                                        THEN a.ratings[t]
                                        ELSE items[P!Max({i \in Of(t) : items[i].rating # 0})].rating]
             states == [t \in Works |-> IF Of(t) = {} \/ (keep /\ a.states[t] # P!NoState) THEN a.states[t]
                                       ELSE [status |-> items[P!Max(Of(t))].status, fav |-> items[P!Max(Of(t))].fav]]
             library == {t \in Works : \E i \in Of(t) : items[i].status # "PLAN_TO_WATCH"}
  <2>1. library \subseteq Works
    OBVIOUS
  <2>2. R = [a EXCEPT !.watch_history = history, !.ratings = ratings, !.states = states,
                      !.library = @ \cup library, !.notes = notes]
    BY Zenon DEF P!Restored
  <2> HIDE DEF history, notes, ratings, states, library, R
  <2> QED BY <2>1, <2>2
<1>4. history \in [P!Viewing -> Nat]
  <2> HIDE DEF E
  <2>1. ASSUME NEW e \in P!Viewing
        PROVE  a.watch_history[e] + (IF e.part THEN 0 ELSE P!Cardinality(E(e))) \in Nat
    BY <1>0, <1>1
  <2> QED BY <2>1
<1>5. /\ DOMAIN notes = N /\ \A k \in N : notes[k] \in Nat
      /\ \A t \in Works : notes[<<t, "own">>] \in {0, 1}
  <2> HIDE DEF M
  <2>1. ASSUME NEW k \in N PROVE notes[k] \in Nat
    <3>1. a.notes[k] \in Nat /\ P!Cardinality(M(k)) \in Nat
      BY <1>0, <1>2
    <3> QED BY <3>1
  <2>2. ASSUME NEW t \in Works PROVE notes[<<t, "own">>] \in {0, 1}
    <3>1. <<t, "own">> \in N /\ a.notes[<<t, "own">>] \in {0, 1} /\ <<t, "own">>[2] = "own"
      BY <1>0
    <3>2. notes[<<t, "own">>] = a.notes[<<t, "own">>] + 0
      BY <3>1
    <3> QED BY <3>1, <3>2
  <2> QED BY <2>1, <2>2
<1>6. history = [e \in P!Viewing |-> a.watch_history[e] + IF e.part THEN 0 ELSE Cardinality(E(e))]
  <2> HIDE DEF E
  <2> QED BY <1>1
<1> HIDE DEF history, notes, R, M
<1>7. /\ DOMAIN R = DOMAIN a /\ R.watch_history = history /\ R.notes = notes
      /\ R.library \subseteq Works /\ R.reviews = a.reviews /\ R.lists = a.lists
  BY <1>0, <1>3
<1>8. Kept(R)
  BY <1>0, <1>4, <1>5, <1>7 DEF Kept, Tabled
<1>9. \A e : E(e) = Gained(a, items, at, e)
  BY DEF Gained
<1> HIDE DEF E
<1>10. \A e \in P!Viewing : R.watch_history[e] =
          a.watch_history[e] + IF e.part THEN 0 ELSE Cardinality(Gained(a, items, at, e))
  BY <1>6, <1>7, <1>9
<1> QED
  BY <1>8, <1>10 DEF R

LEMMA MovingApply ==
  ASSUME Moving, NEW keep \in BOOLEAN, P!Apply(keep)
  PROVE  Moving'
<1>1. wizard' = P!NoWizard /\ imports' = imports + 1 /\ UNCHANGED <<edits, export, file>>
  BY DEF P!Apply
<1>2. PICK v : account' \in {account, P!Restored(account, wizard.items, [i \in DOMAIN v |-> v[i].title], keep)}
  BY Zenon DEF P!Apply
<1>3. Kept(account')
  <2>1. Kept(account) /\ IsFiniteSet(DOMAIN wizard.items)
    BY DEF Moving
  <2> DEFINE at == [i \in DOMAIN v |-> v[i].title]
  <2> HIDE DEF at
  <2>2. Kept(P!Restored(account, wizard.items, at, keep))
    BY <2>1, RestoredIs
  <2> QED BY <1>2, <2>1, <2>2 DEF at
<1>4. DOMAIN P!NoWizard.items = {} /\ IsFiniteSet({}) /\ DOMAIN P!NoWizard = {"at", "from", "items", "verdicts"}
  BY FS_EmptySet DEF P!NoWizard
<1> QED
  BY <1>1, <1>3, <1>4 DEF Moving, P!NoWizard, P!NoFile, P!NoExport

LEMMA MovingStep ==
  Moving /\ [P!Next]_(P!vars) => Moving'
<1> SUFFICES ASSUME Moving, [P!Next]_(P!vars) PROVE Moving'
  OBVIOUS
<1>0. Kept(account)
  BY DEF Moving
<1>1. CASE P!Edit
  <2>1. Kept(account')
    BY <1>0, <1>1, EditKeeps
  <2> QED BY <1>1, <2>1, MovingStays DEF P!Edit
<1>2. CASE P!ReadTable
  BY <1>2, MovingRead
<1>3. CASE P!Preview
  BY <1>3, MovingPreview
<1>4. CASE P!Move
  BY <1>4, EmptyIsKept, MovingStays DEF P!Move
<1>5. CASE \E x \in Scopes : P!StartExport(x)
  BY <1>5, MovingStart
<1>6. CASE \E format \in {"json", "csv", "xlsx", "md", "other"} : P!Download(format)
  BY <1>6, MovingDownload
<1>7. CASE file # P!NoFile /\ P!Upload(P!RowsOf(file), file.format)
  <2>1. file.format \in {"json", "csv", "xlsx", "md"} /\ Written(file.doc)
    BY <1>7 DEF Moving
  <2>2. IsRows(P!RowsOf(file))
    BY <2>1, RowsOfFile DEF Written
  <2>3. file.format = "json" => P!RowsOf(file) = P!JsonRows(file.doc)
    BY DEF P!RowsOf
  <2> QED BY <1>7, <2>2, <2>3, MovingUpload
<1>8. CASE \E s \in Foreign : P!Upload(s, "foreign") \/ P!Paste(s)
  <2>1. PICK s \in Foreign : P!Upload(s, "foreign") \/ P!Paste(s)
    BY <1>8
  <2>2. IsRows(s)
    BY ForeignRows
  <2> QED BY <2>1, <2>2, MovingUpload, MovingPaste
<1>9. CASE \E pages \in Pdfs : P!Paste(P!PdfText(pages)) \/ P!Upload(P!PdfText(pages), "foreign")
  <2>1. PICK pages \in Pdfs : P!Paste(P!PdfText(pages)) \/ P!Upload(P!PdfText(pages), "foreign")
    BY <1>9
  <2>2. IsRows(P!PdfText(pages))
    BY ForeignRows
  <2> QED BY <2>1, <2>2, MovingUpload, MovingPaste
<1>10. CASE \E i \in DOMAIN wizard.items, t \in Works : P!Disambiguate(i, t)
  BY <1>10, MovingDisambiguate
<1>11. CASE \E keep \in BOOLEAN : P!Apply(keep)
  BY <1>11, MovingApply
<1>12. CASE UNCHANGED P!vars
  BY <1>0, <1>12, MovingStays DEF P!vars
<1> QED
  BY <1>1, <1>2, <1>3, <1>4, <1>5, <1>6, <1>7, <1>8, <1>9, <1>10, <1>11, <1>12, Zenon DEF P!Next

LEMMA RestoredMarks ==
  ASSUME NEW a, Kept(a), NEW items, NEW at, NEW keep, NEW t \in Works
  PROVE  /\ P!Restored(a, items, at, keep).states[t].status \in
              {a.states[t].status, items[P!Max(ItemsOf(items, at, t))].status}
         /\ ItemsOf(items, at, t) = {} => P!Restored(a, items, at, keep).states[t] = a.states[t]
         /\ t \in P!Restored(a, items, at, keep).library =>
              t \in a.library \/ \E i \in ItemsOf(items, at, t) : items[i].status # "PLAN_TO_WATCH"
<1> DEFINE R == P!Restored(a, items, at, keep)
           Of(u) == {i \in DOMAIN items : at[i] = u}
           states == [u \in Works |-> IF Of(u) = {} \/ (keep /\ a.states[u] # P!NoState) THEN a.states[u]
                                     ELSE [status |-> items[P!Max(Of(u))].status, fav |-> items[P!Max(Of(u))].fav]]
           library == {u \in Works : \E i \in Of(u) : items[i].status # "PLAN_TO_WATCH"}
<1>1. PICK history, ratings, notes :
        R = [a EXCEPT !.watch_history = history, !.ratings = ratings, !.states = states,
                      !.library = @ \cup library, !.notes = notes]
  BY Zenon DEF P!Restored
<1>2. "states" \in DOMAIN a /\ "library" \in DOMAIN a
  BY DEF Kept, Tabled
<1> HIDE DEF R, states, library
<1>3. R.states = states /\ R.library = a.library \cup library
  BY <1>1, <1>2
<1>4. t \in library => \E i \in Of(t) : items[i].status # "PLAN_TO_WATCH"
  BY DEF library
<1>5. states[t] = IF Of(t) = {} \/ (keep /\ a.states[t] # P!NoState) THEN a.states[t]
                  ELSE [status |-> items[P!Max(Of(t))].status, fav |-> items[P!Max(Of(t))].fav]
  BY DEF states
<1>6. Of(t) = ItemsOf(items, at, t)
  BY DEF ItemsOf
<1> HIDE DEF Of
<1> QED
  BY <1>3, <1>4, <1>5, <1>6 DEF R

\* What is imported of a JSON archive are its rows, each for the title it names.
LEMMA RestoresApplies ==
  ASSUME Moving, [P!Next]_(P!vars), P!Restores
  PROVE  /\ Kept(account) /\ imports \in Nat /\ Written(file.doc)
         /\ \E at, keep : /\ account' = P!Restored(account, JsonItems(file.doc), at, keep)
                          /\ \A i \in DOMAIN JsonItems(file.doc) : at[i] = JsonItems(file.doc)[i].id
<1>1. wizard.from = "json" /\ wizard.at = "previewed" /\ wizard'.at = "closed" /\ account' # account
  BY DEF P!Restores
<1>2. wizard # P!NoWizard /\ wizard' # wizard
  BY <1>1 DEF P!NoWizard
<1>3. Kept(account) /\ imports \in Nat /\ Written(file.doc) /\ wizard.items = JsonItems(file.doc)
  BY <1>1, <1>2 DEF Moving
<1>4. \E keep \in BOOLEAN : P!Apply(keep)
  <2>1. ~P!Edit /\ ~P!ReadTable /\ ~P!Move
    BY <1>2 DEF P!Edit, P!ReadTable, P!Move
  <2>2. ~P!Preview
    BY <1>1 DEF P!Preview
  <2>3. ~\E x \in Scopes : P!StartExport(x)
    BY <1>2 DEF P!StartExport
  <2>4. ~\E format \in {"json", "csv", "xlsx", "md", "other"} : P!Download(format)
    BY <1>2 DEF P!Download
  <2>5. \A s, from : ~P!Upload(s, from)
    BY <1>2, Zenon DEF P!Upload
  <2>6. \A s : ~P!Paste(s)
    BY <1>2, Zenon DEF P!Paste
  <2>7. \A i, t : ~P!Disambiguate(i, t)
    <3>1. "at" \in DOMAIN wizard
      BY DEF Moving
    <3> QED BY <1>1, <3>1 DEF P!Disambiguate
  <2>8. ~UNCHANGED P!vars
    BY <1>2 DEF P!vars
  <2> QED
    BY <2>1, <2>2, <2>3, <2>4, <2>5, <2>6, <2>7, <2>8, Zenon DEF P!Next
<1>5. PICK keep \in BOOLEAN : \E v \in P!AllResolutions(wizard.items) :
        account' \in {account, P!Restored(account, wizard.items, [i \in DOMAIN v |-> v[i].title], keep)}
  <2>1. PICK keep \in BOOLEAN : P!Apply(keep)
    BY <1>4
  <2>2. PICK v \in P!AllResolutions(wizard.items) :
          account' = IF P!Fails(account, wizard.items, [i \in DOMAIN v |-> v[i].title]) THEN account
                     ELSE P!Restored(account, wizard.items, [i \in DOMAIN v |-> v[i].title], keep)
    BY <2>1, Zenon DEF P!Apply
  <2>3. account' \in {account, P!Restored(account, wizard.items, [i \in DOMAIN v |-> v[i].title], keep)}
    BY <2>2
  <2> QED BY <2>3
<1>6. PICK v \in P!AllResolutions(wizard.items) :
        account' \in {account, P!Restored(account, wizard.items, [i \in DOMAIN v |-> v[i].title], keep)}
  BY <1>5
<1> DEFINE at == [i \in DOMAIN v |-> v[i].title]
<1>7. \A i \in DOMAIN JsonItems(file.doc) : at[i] = JsonItems(file.doc)[i].id
  BY <1>3, Identified
<1> HIDE DEF at
<1>8. account' = P!Restored(account, JsonItems(file.doc), at, keep)
  BY <1>1, <1>3, <1>6 DEF at
<1> QED
  BY <1>3, <1>7, <1>8

LEMMA ItemIs ==
  ASSUME NEW doc, Written(doc), NEW i \in DOMAIN JsonItems(doc)
  PROVE  LET item == JsonItems(doc)[i]
             r == P!JsonRows(doc)[i]
         IN /\ i \in DOMAIN P!JsonRows(doc) /\ DOMAIN r = RowFields /\ Origin(doc, r)
            /\ item.id = r.id /\ item.note = r.note /\ item.status = P!ParseStatus(r.status)
            /\ item.day = IF r.day = 0 /\ P!ParseStatus(r.status) = "COMPLETED" THEN P!Now ELSE r.day
<1> DEFINE r == P!JsonRows(doc)[i]
<1>1. i \in DOMAIN P!JsonRows(doc) /\ JsonItems(doc)[i] = P!Converted(r)
  BY DEF JsonItems
<1>2. DOMAIN r = RowFields /\ Origin(doc, r)
  BY <1>1, JsonRowsAre DEF Written
<1> HIDE DEF r
<1>3. /\ P!Converted(r).id = r.id /\ P!Converted(r).note = r.note
      /\ P!Converted(r).status = P!ParseStatus(r.status)
      /\ P!Converted(r).day = IF r.day = 0 /\ P!ParseStatus(r.status) = "COMPLETED" THEN P!Now ELSE r.day
  BY <1>2, ConvertedIs
<1> QED
  BY <1>1, <1>2, <1>3 DEF r

LEMMA PlannedItem ==
  ASSUME NEW doc, Written(doc), NEW i \in DOMAIN JsonItems(doc),
         JsonItems(doc)[i].id \notin P!Elsewhere(doc)
  PROVE  JsonItems(doc)[i].status = "PLAN_TO_WATCH" /\ JsonItems(doc)[i].day = 0
<1> DEFINE r == P!JsonRows(doc)[i]
<1>1. /\ Origin(doc, r) /\ JsonItems(doc)[i].id = r.id /\ JsonItems(doc)[i].status = P!ParseStatus(r.status)
      /\ JsonItems(doc)[i].day = IF r.day = 0 /\ P!ParseStatus(r.status) = "COMPLETED" THEN P!Now ELSE r.day
  BY ItemIs
<1> HIDE DEF r
<1>2. \A e \in P!Viewing : doc.watch_history[e] > 0 => e.title \in P!Elsewhere(doc)
  BY DEF P!Elsewhere
<1>3. \A e : HistoryRow(e).id = e.title
  BY HistoryRowIs
<1>4. r.day = 0 /\ r.status = "PLAN_TO_WATCH"
  BY <1>1, <1>2, <1>3 DEF Origin
<1>5. P!ParseStatus(r.status) = "PLAN_TO_WATCH"
  BY <1>4, PortabilityHolds DEF P!ParseStatus, P!PortabilityAssumption
<1> QED
  BY <1>1, <1>4, <1>5

LEMMA ItemsFinite ==
  ASSUME NEW doc, Written(doc)
  PROVE  IsFiniteSet(DOMAIN JsonItems(doc)) /\ DOMAIN JsonItems(doc) \in SUBSET Nat
<1>1. IsRows(P!JsonRows(doc))
  BY JsonRowsAre DEF Written
<1>2. /\ Len(P!JsonRows(doc)) \in Nat /\ DOMAIN P!JsonRows(doc) = 1..Len(P!JsonRows(doc))
      /\ IsFiniteSet(DOMAIN P!JsonRows(doc))
  BY <1>1, RowsFinite
<1>3. DOMAIN JsonItems(doc) = DOMAIN P!JsonRows(doc)
  BY DEF JsonItems
<1> QED
  BY <1>2, <1>3

LEMMA PlannedStep ==
  ASSUME Moving, [P!Next]_(P!vars), P!Restores, NEW t \in file.doc.watchlist \ P!Elsewhere(file.doc)
  PROVE  /\ \A e \in P!Viewing : e.title = t => account'.watch_history[e] = account.watch_history[e]
         /\ account'.states[t].status = "COMPLETED" => account.states[t].status = "COMPLETED"
         /\ t \in account'.library => t \in account.library
<1> DEFINE items == JsonItems(file.doc)
<1>1. Kept(account) /\ imports \in Nat /\ Written(file.doc)
  BY RestoresApplies
<1>2. PICK at, keep : /\ account' = P!Restored(account, items, at, keep)
                      /\ \A i \in DOMAIN items : at[i] = items[i].id
  BY RestoresApplies
<1>3. t \in Works
  BY <1>1 DEF Written
<1>4. \A i \in DOMAIN items : items[i].id = t => items[i].status = "PLAN_TO_WATCH" /\ items[i].day = 0
  BY <1>1, PlannedItem
<1>5. IsFiniteSet(DOMAIN items) /\ DOMAIN items \in SUBSET Nat
  BY <1>1, ItemsFinite
<1> HIDE DEF items
<1>6. Kept(account) /\ IsFiniteSet(DOMAIN items) /\ account' = P!Restored(account, items, at, keep)
  BY <1>1, <1>2, <1>5
<1>7. ASSUME NEW e \in P!Viewing, e.title = t PROVE account'.watch_history[e] = account.watch_history[e]
  <2>1. Gained(account, items, at, e) = {}
    <3>1. ASSUME NEW i \in DOMAIN items, at[i] = e.title, P!ImportsEvent(account, e.title, items[i]) PROVE FALSE
      <4>1. items[i].day = 0
        BY <1>2, <1>4, <1>7, <3>1
      <4> QED BY <3>1, <4>1 DEF P!ImportsEvent
    <3> QED BY <3>1 DEF Gained
  <2>2. account'.watch_history[e] =
          account.watch_history[e] + IF e.part THEN 0 ELSE Cardinality(Gained(account, items, at, e))
    BY <1>6, RestoredIs
  <2>3. account.watch_history[e] \in Nat
    BY <1>1 DEF Kept, Tabled
  <2> QED BY <2>1, <2>2, <2>3, FS_EmptySet
<1> DEFINE Of == ItemsOf(items, at, t)
<1>8. Of = {i \in DOMAIN items : items[i].id = t}
  BY <1>2 DEF ItemsOf
<1> HIDE DEF Of
<1>9. /\ account'.states[t].status \in {account.states[t].status, items[P!Max(Of)].status}
      /\ Of = {} => account'.states[t] = account.states[t]
      /\ t \in account'.library => t \in account.library \/ \E i \in Of : items[i].status # "PLAN_TO_WATCH"
  BY <1>3, <1>6, RestoredMarks DEF Of
<1>10. Of # {} => P!Max(Of) \in Of
  <2>1. Of \in SUBSET DOMAIN items
    BY <1>8
  <2>2. IsFiniteSet(Of) /\ Of \in SUBSET Nat
    BY <1>5, <2>1, FS_Subset
  <2> QED BY <2>2, MaxIs
<1>11. account'.states[t].status = "COMPLETED" => account.states[t].status = "COMPLETED"
  BY <1>4, <1>8, <1>9, <1>10
<1>12. t \in account'.library => t \in account.library
  BY <1>4, <1>8, <1>9
<1> QED
  BY <1>7, <1>11, <1>12

(* The days of a history *)

Sighted(t, d) == {e \in P!Viewing : e.title = t /\ e.day = d}
Seen(t, d, n, part) == [title |-> t, day |-> d, part |-> part, note |-> n]

LEMMA CountIs ==
  ASSUME NEW history, NEW t, NEW d
  PROVE  P!Count(history, t, d) = SumOf(history, Sighted(t, d))
BY Zenon DEF P!Count, P!MapThenSumSet, P!MapThenFoldSet, SumOf, MapThenSumSet, MapThenFoldSet, Sighted

LEMMA SightedFinite ==
  ASSUME NEW t, NEW d
  PROVE  IsFiniteSet(Sighted(t, d)) /\ Sighted(t, d) \in SUBSET P!Viewing
BY ViewingsFinite, FS_Subset DEF Sighted

LEMMA SeenIs ==
  ASSUME NEW t \in Works, NEW d \in Past, NEW n \in BOOLEAN, NEW part \in BOOLEAN
  PROVE  /\ Seen(t, d, n, part) \in P!Viewing
         /\ Seen(t, d, n, part).title = t /\ Seen(t, d, n, part).day = d
         /\ Seen(t, d, n, part).note = n /\ Seen(t, d, n, part).part = part
BY DEF P!Viewing, Seen

LEMMA SeenDiffer ==
  ASSUME NEW t, NEW d
  PROVE  /\ Seen(t, d, FALSE, FALSE) # Seen(t, d, TRUE, FALSE) /\ Seen(t, d, FALSE, FALSE) # Seen(t, d, FALSE, TRUE)
         /\ Seen(t, d, FALSE, FALSE) # Seen(t, d, TRUE, TRUE) /\ Seen(t, d, TRUE, FALSE) # Seen(t, d, FALSE, TRUE)
         /\ Seen(t, d, TRUE, FALSE) # Seen(t, d, TRUE, TRUE) /\ Seen(t, d, FALSE, TRUE) # Seen(t, d, TRUE, TRUE)
BY DEF Seen

LEMMA ViewingIs ==
  ASSUME NEW e \in P!Viewing
  PROVE  /\ e.title \in Works /\ e = Seen(e.title, e.day, e.note, e.part)
         /\ e.note = TRUE \/ e.note = FALSE
         /\ e.part = TRUE \/ e.part = FALSE
BY DEF P!Viewing, Seen

LEMMA SightedAre ==
  ASSUME NEW t \in Works, NEW d \in Past
  PROVE  /\ Sighted(t, d) = {Seen(t, d, FALSE, FALSE), Seen(t, d, TRUE, FALSE),
                             Seen(t, d, FALSE, TRUE), Seen(t, d, TRUE, TRUE)}
         /\ Seen(t, d, FALSE, FALSE) # Seen(t, d, TRUE, FALSE) /\ Seen(t, d, FALSE, FALSE) # Seen(t, d, FALSE, TRUE)
         /\ Seen(t, d, FALSE, FALSE) # Seen(t, d, TRUE, TRUE) /\ Seen(t, d, TRUE, FALSE) # Seen(t, d, FALSE, TRUE)
         /\ Seen(t, d, TRUE, FALSE) # Seen(t, d, TRUE, TRUE) /\ Seen(t, d, FALSE, TRUE) # Seen(t, d, TRUE, TRUE)
<1> DEFINE F == {Seen(t, d, FALSE, FALSE), Seen(t, d, TRUE, FALSE), Seen(t, d, FALSE, TRUE), Seen(t, d, TRUE, TRUE)}
<1>1. ASSUME NEW e \in Sighted(t, d) PROVE e \in F
  <2>1. e = Seen(t, d, e.note, e.part) /\ (e.note = TRUE \/ e.note = FALSE) /\ (e.part = TRUE \/ e.part = FALSE)
    BY ViewingIs DEF Sighted
  <2>2. CASE e.note = TRUE /\ e.part = TRUE
    BY <2>1, <2>2
  <2>3. CASE e.note = TRUE /\ e.part = FALSE
    BY <2>1, <2>3
  <2>4. CASE e.note = FALSE /\ e.part = TRUE
    BY <2>1, <2>4
  <2>5. CASE e.note = FALSE /\ e.part = FALSE
    BY <2>1, <2>5
  <2> QED BY <2>1, <2>2, <2>3, <2>4, <2>5
<1>2. ASSUME NEW n \in BOOLEAN, NEW part \in BOOLEAN PROVE Seen(t, d, n, part) \in Sighted(t, d)
  BY SeenIs DEF Sighted
<1>3. Sighted(t, d) = F
  BY <1>1, <1>2
<1> QED
  BY <1>3, SeenDiffer

LEMMA CountOfFour ==
  ASSUME NEW history, \A e \in P!Viewing : history[e] \in Nat, NEW t \in Works, NEW d \in Past
  PROVE  P!Count(history, t, d) =
           history[Seen(t, d, FALSE, FALSE)] + history[Seen(t, d, TRUE, FALSE)]
             + history[Seen(t, d, FALSE, TRUE)] + history[Seen(t, d, TRUE, TRUE)]
<1> DEFINE a1 == Seen(t, d, FALSE, FALSE)
           a2 == Seen(t, d, TRUE, FALSE)
           b1 == Seen(t, d, FALSE, TRUE)
           b2 == Seen(t, d, TRUE, TRUE)
<1>1. /\ Sighted(t, d) = {a1, a2, b1, b2}
      /\ a1 # a2 /\ a1 # b1 /\ a1 # b2 /\ a2 # b1 /\ a2 # b2 /\ b1 # b2
  BY SightedAre
<1>2. history[a1] \in Int /\ history[a2] \in Int /\ history[b1] \in Int /\ history[b2] \in Int
  <2>1. a1 \in P!Viewing /\ a2 \in P!Viewing /\ b1 \in P!Viewing /\ b2 \in P!Viewing
    BY SeenIs, Zenon
  <2> HIDE DEF a1, a2, b1, b2
  <2> QED BY <2>1
<1> DEFINE S == {a1, a2, b1, b2}
           T == {a2, b1, b2}
<1>3. P!Count(history, t, d) = SumOf(history, S) /\ IsFiniteSet(S)
  BY <1>1, CountIs, SightedFinite, Zenon
<1> HIDE DEF a1, a2, b1, b2
<1>4. a1 # a2 /\ a1 # b1 /\ a1 # b2 /\ a2 # b1 /\ a2 # b2 /\ b1 # b2
  BY <1>1
<1>5. /\ a1 \in S /\ S \ {a1} = T /\ a2 \in T /\ T \ {a2} = {b1, b2}
      /\ (\A u \in S : history[u] \in Int) /\ (\A u \in T : history[u] \in Int)
  BY <1>2, <1>4
<1> HIDE DEF S, T
<1>6. IsFiniteSet(T) /\ IsFiniteSet({b1, b2})
  BY <1>3, <1>5, FS_RemoveElement
<1>7. SumOf(history, {b1, b2}) = history[b1] + history[b2]
  <2> DEFINE R == {b1, b2}
  <2>1. /\ \A u \in R : history[u] \in Int
        /\ b1 \in R /\ b2 \in R /\ b1 # b2 /\ \A u \in R \ {b1, b2} : history[u] = 0
    BY <1>2, <1>4
  <2>2. IsFiniteSet(R)
    BY <1>6
  <2> HIDE DEF R
  <2>3. SumOf(history, R) = history[b1] + history[b2]
    BY <2>1, <2>2, SumOfTwo
  <2> QED BY <2>3 DEF R
<1>8. SumOf(history, S) = history[a1] + SumOf(history, T)
  BY <1>3, <1>5, SumRemove
<1>9. SumOf(history, T) = history[a2] + SumOf(history, {b1, b2})
  BY <1>5, <1>6, SumRemove
<1>10. P!Count(history, t, d) = history[a1] + history[a2] + history[b1] + history[b2]
  BY <1>2, <1>3, <1>7, <1>8, <1>9
<1> QED
  BY <1>10 DEF a1, a2, b1, b2

\* Rows of watch events do not say whether it was an episode.
LEMMA SameHistoryRow ==
  ASSUME NEW d \in P!Viewing, NEW e \in P!Viewing
  PROVE  HistoryRow(d) = HistoryRow(e) <=> d.title = e.title /\ d.day = e.day /\ d.note = e.note
<1>1. HistoryRow(d) = HistoryRow(e) => d.title = e.title /\ d.day = e.day /\ d.note = e.note
  BY HistoryRowIs
<1>2. d.title = e.title /\ d.day = e.day /\ d.note = e.note => HistoryRow(d) = HistoryRow(e)
  BY DEF HistoryRow
<1> QED
  BY <1>1, <1>2

LEMMA CopiesAre ==
  ASSUME NEW doc, Written(doc), NEW t \in Works, NEW d \in Past, NEW n \in BOOLEAN
  PROVE  Often(P!JsonRows(doc), HistoryRow(Seen(t, d, n, FALSE))) =
           doc.watch_history[Seen(t, d, n, FALSE)] + doc.watch_history[Seen(t, d, n, TRUE)]
<1> DEFINE a == Seen(t, d, n, FALSE)
           b == Seen(t, d, n, TRUE)
           f == [e \in P!Viewing |-> IF HistoryRow(e) = HistoryRow(a) THEN doc.watch_history[e] ELSE 0]
<1>1. /\ a \in P!Viewing /\ b \in P!Viewing /\ a # b
      /\ a.title = t /\ a.day = d /\ a.note = n /\ b.title = t /\ b.day = d /\ b.note = n
  BY DEF P!Viewing, Seen
<1>2. \A e \in P!Viewing : e.title = t /\ e.day = d /\ e.note = n => e \in {a, b}
  <2>1. ASSUME NEW e \in P!Viewing, e.title = t, e.day = d, e.note = n PROVE e \in {a, b}
    <3>1. e = Seen(t, d, n, e.part) /\ (e.part = TRUE \/ e.part = FALSE)
      BY <2>1, ViewingIs
    <3>2. CASE e.part = TRUE
      BY <3>1, <3>2
    <3>3. CASE e.part = FALSE
      BY <3>1, <3>3
    <3> QED BY <3>1, <3>2, <3>3
  <2> QED BY <2>1
<1> HIDE DEF a, b
<1>3. \A e \in P!Viewing : HistoryRow(e) = HistoryRow(a) <=> e \in {a, b}
  BY <1>1, <1>2, SameHistoryRow
<1>4. \A e \in P!Viewing : doc.watch_history[e] \in Nat
  BY DEF Written, Tabled
<1>5. Often(P!JsonRows(doc), HistoryRow(a)) = SumOf(f, P!Viewing)
  <2>1. HistoryRow(a).day # 0
    BY <1>1, HistoryRowIs, DaysAre
  <2> QED BY <2>1, JsonRowsAre DEF Written
<1>6. /\ \A e \in P!Viewing : f[e] \in Int
      /\ \A e \in P!Viewing \ {a, b} : f[e] = 0
      /\ f[a] = doc.watch_history[a] /\ f[b] = doc.watch_history[b]
  BY <1>1, <1>3, <1>4
<1> HIDE DEF f
<1>7. SumOf(f, P!Viewing) = f[a] + f[b]
  BY <1>1, <1>6, SumOfTwo, ViewingsFinite
<1> QED
  BY <1>5, <1>6, <1>7 DEF a, b

LEMMA ItemFrom ==
  ASSUME imports \in Nat, NEW doc, Written(doc), NEW e \in P!Viewing, e.day \in Past,
         NEW i \in DOMAIN JsonItems(doc)
  PROVE  JsonItems(doc)[i].id = e.title /\ JsonItems(doc)[i].day = e.day /\ JsonItems(doc)[i].note = e.note
           <=> P!JsonRows(doc)[i] = HistoryRow(e)
<1> DEFINE item == JsonItems(doc)[i]
           r == P!JsonRows(doc)[i]
<1>1. /\ Origin(doc, r) /\ item.id = r.id /\ item.note = r.note
      /\ item.day = IF r.day = 0 /\ P!ParseStatus(r.status) = "COMPLETED" THEN P!Now ELSE r.day
  BY ItemIs
<1>2. e.day # 0 /\ e.day # P!Now
  BY DaysAre
<1> HIDE DEF item, r
<1>3. ASSUME item.id = e.title, item.day = e.day, item.note = e.note PROVE r = HistoryRow(e)
  <2>1. r.day # 0
    BY <1>1, <1>2, <1>3
  <2>2. PICK d \in P!Viewing : r = HistoryRow(d)
    BY <1>1, <2>1 DEF Origin
  <2>3. d.title = e.title /\ d.day = e.day /\ d.note = e.note
    BY <1>1, <1>3, <2>1, <2>2, HistoryRowIs
  <2> QED BY <2>2, <2>3, SameHistoryRow
<1>4. ASSUME r = HistoryRow(e) PROVE item.id = e.title /\ item.day = e.day /\ item.note = e.note
  BY <1>1, <1>2, <1>4, HistoryRowIs
<1> QED
  BY <1>3, <1>4 DEF item, r

\* An import makes as many watch events of a day that has none as the archive has rows of it.
LEMMA GainedIs ==
  ASSUME imports \in Nat, NEW doc, Written(doc), NEW a, NEW at,
         \A i \in DOMAIN JsonItems(doc) : at[i] = JsonItems(doc)[i].id,
         NEW e \in P!Viewing, e.day \in Past, P!At(a, e.title, e.day) = {}
  PROVE  Cardinality(Gained(a, JsonItems(doc), at, e)) = Often(P!JsonRows(doc), HistoryRow(e))
<1> DEFINE items == JsonItems(doc)
<1>1. DOMAIN items = DOMAIN P!JsonRows(doc)
  BY DEF JsonItems
<1>2. \A i \in DOMAIN items : items[i].id = e.title /\ items[i].day = e.day /\ items[i].note = e.note
                                <=> P!JsonRows(doc)[i] = HistoryRow(e)
  BY ItemFrom
<1>3. e.day # 0
  BY DaysAre
<1> HIDE DEF items
<1>4. \A i \in DOMAIN items : items[i].day = e.day => P!ImportsEvent(a, e.title, items[i])
  BY <1>3 DEF P!ImportsEvent
<1>5. \A i \in DOMAIN items : at[i] = items[i].id
  BY DEF items
<1>6. Gained(a, items, at, e) = {i \in DOMAIN P!JsonRows(doc) : P!JsonRows(doc)[i] = HistoryRow(e)}
  BY <1>1, <1>2, <1>4, <1>5 DEF Gained
<1> QED
  BY <1>6 DEF Often, items

LEMMA HistoryStep ==
  ASSUME Moving, [P!Next]_(P!vars), P!Restores, NEW t \in Works, NEW d \in Past
  PROVE  P!Count(account'.watch_history, t, d) =
           IF P!Count(account.watch_history, t, d) > 0 THEN P!Count(account.watch_history, t, d)
           ELSE P!Count(file.doc.watch_history, t, d)
<1> DEFINE doc == file.doc
           items == JsonItems(doc)
           old == account.watch_history
           new == account'.watch_history
<1>1. Kept(account) /\ imports \in Nat /\ Written(doc)
  BY RestoresApplies
<1>2. PICK at, keep : /\ account' = P!Restored(account, items, at, keep)
                      /\ \A i \in DOMAIN items : at[i] = items[i].id
  BY RestoresApplies
<1>3. IsFiniteSet(DOMAIN items)
  BY <1>1, ItemsFinite
<1>4. Kept(account') /\ \A e \in P!Viewing :
        new[e] = old[e] + IF e.part THEN 0 ELSE Cardinality(Gained(account, items, at, e))
  BY <1>1, <1>2, <1>3, RestoredIs
<1>5. /\ \A e \in P!Viewing : old[e] \in Nat
      /\ \A e \in P!Viewing : new[e] \in Nat
      /\ \A e \in P!Viewing : doc.watch_history[e] \in Nat
  BY <1>1, <1>4 DEF Kept, Written, Tabled
<1>6. IsFiniteSet(Sighted(t, d)) /\ Sighted(t, d) \in SUBSET P!Viewing
      /\ \A e \in Sighted(t, d) : e.title = t /\ e.day = d
  BY SightedFinite DEF Sighted
<1> HIDE DEF old, new, items, doc
<1>7. P!At(account, t, d) = {e \in Sighted(t, d) : old[e] > 0}
  BY DEF P!At, Sighted, old
<1>8. CASE \E e \in Sighted(t, d) : old[e] > 0
  <2>1. P!Count(old, t, d) > 0
    <3>1. PICK e \in Sighted(t, d) : old[e] > 0
      BY <1>8
    <3>2. \A x \in Sighted(t, d) : old[x] \in Nat
      BY <1>5, <1>6
    <3>3. old[e] <= SumOf(old, Sighted(t, d)) /\ SumOf(old, Sighted(t, d)) \in Nat
      BY <1>6, <3>2, SumAbove, SumType
    <3> QED BY <3>1, <3>2, <3>3, CountIs
  <2>2. \A e \in Sighted(t, d) : old[e] \in Int /\ new[e] = old[e]
    <3>1. ASSUME NEW e \in Sighted(t, d) PROVE new[e] = old[e]
      <4>1. Gained(account, items, at, e) = {}
        <5>1. P!At(account, t, d) # {} /\ e.title = t /\ e.day = d
          BY <1>6, <1>7, <1>8
        <5> QED BY <5>1 DEF Gained, P!ImportsEvent
      <4>2. new[e] = old[e] + (IF e.part THEN 0 ELSE Cardinality(Gained(account, items, at, e))) /\ old[e] \in Nat
        BY <1>4, <1>5, <1>6
      <4> QED BY <4>1, <4>2, FS_EmptySet
    <3> QED BY <1>5, <1>6, <3>1
  <2>3. SumOf(old, Sighted(t, d)) = SumOf(new, Sighted(t, d))
    BY <1>6, <2>2, SumSame
  <2>4. P!Count(new, t, d) = P!Count(old, t, d)
    BY <2>3, CountIs
  <2> QED BY <2>1, <2>4 DEF old, new
<1>9. CASE ~\E e \in Sighted(t, d) : old[e] > 0
  <2>1. \A e \in Sighted(t, d) : old[e] = 0
    BY <1>5, <1>6, <1>9
  <2>2. P!Count(old, t, d) = 0
    BY <1>6, <2>1, SumZero, CountIs
  <2>3. P!At(account, t, d) = {}
    BY <1>7, <1>9
  <2>4. ASSUME NEW n \in BOOLEAN
        PROVE  /\ new[Seen(t, d, n, TRUE)] = 0
               /\ new[Seen(t, d, n, FALSE)] =
                    doc.watch_history[Seen(t, d, n, FALSE)] + doc.watch_history[Seen(t, d, n, TRUE)]
    <3> DEFINE e == Seen(t, d, n, FALSE)
               b == Seen(t, d, n, TRUE)
    <3>1. /\ e \in P!Viewing /\ e.title = t /\ e.day = d /\ e.part = FALSE
          /\ b \in P!Viewing /\ b.title = t /\ b.day = d /\ b.part = TRUE
      BY DEF P!Viewing, Seen
    <3>2. Often(P!JsonRows(doc), HistoryRow(e)) = doc.watch_history[e] + doc.watch_history[b]
      BY <1>1, CopiesAre
    <3> HIDE DEF e, b
    <3>3. old[e] = 0 /\ old[b] = 0
      BY <2>1, <3>1 DEF Sighted
    <3>4. Cardinality(Gained(account, items, at, e)) = Often(P!JsonRows(doc), HistoryRow(e))
      <4>1. /\ imports \in Nat /\ Written(doc) /\ \A i \in DOMAIN JsonItems(doc) : at[i] = JsonItems(doc)[i].id
            /\ e \in P!Viewing /\ e.day \in Past /\ P!At(account, e.title, e.day) = {}
        BY <1>1, <1>2, <2>3, <3>1 DEF items
      <4> QED BY <4>1, GainedIs DEF items
    <3>5. doc.watch_history[e] \in Nat /\ doc.watch_history[b] \in Nat
      BY <1>5, <3>1
    <3>6. new[b] = 0 /\ new[e] = doc.watch_history[e] + doc.watch_history[b]
      BY <1>4, <3>1, <3>2, <3>3, <3>4, <3>5
    <3> QED BY <3>6 DEF e, b
  <2>5. P!Count(new, t, d) = P!Count(doc.watch_history, t, d)
    <3> DEFINE h == doc.watch_history
               a1 == Seen(t, d, FALSE, FALSE)
               a2 == Seen(t, d, TRUE, FALSE)
               b1 == Seen(t, d, FALSE, TRUE)
               b2 == Seen(t, d, TRUE, TRUE)
    <3>1. P!Count(new, t, d) = new[a1] + new[a2] + new[b1] + new[b2]
      BY <1>5, CountOfFour
    <3>2. P!Count(h, t, d) = h[a1] + h[a2] + h[b1] + h[b2]
      BY <1>5, CountOfFour
    <3>3. new[b1] = 0 /\ new[b2] = 0 /\ new[a1] = h[a1] + h[b1] /\ new[a2] = h[a2] + h[b2]
      BY <2>4
    <3>4. h[a1] \in Nat /\ h[a2] \in Nat /\ h[b1] \in Nat /\ h[b2] \in Nat
      <4>1. a1 \in P!Viewing /\ a2 \in P!Viewing /\ b1 \in P!Viewing /\ b2 \in P!Viewing
        BY SeenIs, Zenon
      <4> HIDE DEF a1, a2, b1, b2
      <4> QED BY <1>5, <4>1
    <3> HIDE DEF h, a1, a2, b1, b2
    <3>5. P!Count(new, t, d) = P!Count(h, t, d)
      BY <3>1, <3>2, <3>3, <3>4
    <3> QED BY <3>5 DEF h
  <2> QED BY <2>2, <2>5 DEF old, new, doc
<1> QED
  BY <1>8, <1>9
-----------------------------------------------------------------------------
(* Browsing *)

Offset   == {"catalog", "history", "watchlist", "library"}
Followed == Offset \cup {"titles", "search titles", "events"}

BrowsingTyped == B!Here \subseteq Rows /\ \A t \in B!Here : rows[t] \in Nat

\* How many of the rows S come before b in the list l.
Ahead(l, S, b) == Cardinality({x \in S : B!Before(l, x, b)})

\* No two of the rows S may be returned in either order.
Strict(l, S) == \A a, b \in S : a # b => B!Before(l, a, b) \/ B!Before(l, b, a)

LEMMA CardinalityIs ==
  ASSUME NEW S PROVE B!Cardinality(S) = Cardinality(S)
BY DEF B!Cardinality, Cardinality

LEMMA HereFinite ==
  IsFiniteSet(B!Here) /\ B!Here \subseteq Rows
<1>1. IsFiniteSet(Rows)
  BY BrowsingHolds DEF B!BrowsingAssumption, B!IsFiniteSet, IsFiniteSet
<1> QED
  BY <1>1, FS_Subset, Zenon DEF B!Here

LEMMA BeforeOrders ==
  ASSUME BrowsingTyped, NEW l, NEW a \in B!Here, NEW b \in B!Here, NEW c \in B!Here
  PROVE  /\ ~B!Before(l, a, a)
         /\ B!Before(l, a, b) => ~B!Before(l, b, a)
         /\ B!Before(l, a, b) /\ B!Before(l, b, c) => B!Before(l, a, c)
<1>1. a \in Nat /\ b \in Nat /\ c \in Nat /\ rows[a] \in Nat /\ rows[b] \in Nat /\ rows[c] \in Nat
  BY BrowsingHolds, HereFinite DEF BrowsingTyped, B!BrowsingAssumption
<1>2. CASE l = "titles"
  <2>1. \A x, y : B!Before(l, x, y) <=> x < y
    BY <1>2 DEF B!Before
  <2> QED
    BY <1>1, <2>1
<1>3. CASE l \in {"search", "search titles"}
  <2>1. \A x, y : B!Before(l, x, y) <=> rows[x] > rows[y] \/ (rows[x] = rows[y] /\ x > y)
    BY <1>3 DEF B!Before
  <2> QED
    BY <1>1, <2>1
<1>4. CASE l \notin {"titles", "search", "search titles"}
  <2>1. \A x, y : B!Before(l, x, y) <=> rows[x] > rows[y]
    BY <1>4 DEF B!Before
  <2> QED
    BY <1>1, <2>1
<1> QED
  BY <1>2, <1>3, <1>4

LEMMA SeqWidens ==
  ASSUME NEW S, NEW T, S \subseteq T, NEW s \in Seq(S) PROVE s \in Seq(T)
OBVIOUS

\* A sequence of all elements of a set.
LEMMA OrdersAreOrders ==
  ASSUME NEW l, NEW S, IsFiniteSet(S), NEW o \in B!Orders(l, S)
  PROVE  /\ Len(o) = Cardinality(S) /\ Len(o) \in Nat /\ DOMAIN o = 1..Len(o) /\ o \in Seq(S)
         /\ B!Once(o)
         /\ \A i \in 1..Len(o) : o[i] \in S
         /\ \A x \in S : \E i \in 1..Len(o) : x = o[i]
<1> DEFINE n == Cardinality(S)
<1>1. n \in Nat
  BY FS_CardinalityType
<1>2. o \in [1..n -> S] /\ \A i, j \in 1..n : i # j => o[i] # o[j]
  BY CardinalityIs DEF B!Orders, B!SetToSeqs
<1> HIDE DEF n
<1>3. Len(o) = n /\ o \in Seq(S) /\ DOMAIN o = 1..n
  BY <1>1, <1>2
<1>4. o \in Injection(1..n, S)
  BY <1>2 DEF Injection, IsInjective
<1>5. IsFiniteSet(1..n) /\ Cardinality(1..n) = n
  BY <1>1, FS_Interval
<1>6. o \in Surjection(1..n, S)
  BY <1>4, <1>5, FS_Injection DEF n
<1>7. \A x \in S : \E i \in 1..n : x = o[i]
  BY <1>2, <1>6 DEF Surjection
<1> QED
  BY <1>1, <1>2, <1>3, <1>7 DEF n, B!Once

\* Where a row stands in a list is how many rows come before it.
LEMMA PlaceIs ==
  ASSUME BrowsingTyped, NEW l, NEW S \in SUBSET B!Here, Strict(l, S), NEW o \in B!Orders(l, S),
         NEW i \in 1..Len(o)
  PROVE  Ahead(l, S, o[i]) = i - 1
<1>1. IsFiniteSet(S)
  BY HereFinite, FS_Subset
<1>2. /\ Len(o) \in Nat /\ DOMAIN o = 1..Len(o) /\ \A k \in 1..Len(o) : o[k] \in S
      /\ \A x \in S : \E k \in 1..Len(o) : x = o[k]
      /\ \A k, j \in 1..Len(o) : k # j => o[k] # o[j]
  BY <1>1, OrdersAreOrders DEF B!Once
<1>3. \A k, j \in 1..Len(o) : k < j => ~B!Before(l, o[j], o[k])
  BY <1>2 DEF B!Orders
<1>4. \A k, j \in 1..Len(o) : k < j => B!Before(l, o[k], o[j])
  <2> SUFFICES ASSUME NEW k \in 1..Len(o), NEW j \in 1..Len(o), k < j PROVE B!Before(l, o[k], o[j])
    OBVIOUS
  <2>1. o[k] \in S /\ o[j] \in S /\ k # j
    BY <1>2
  <2>2. o[k] # o[j] /\ ~B!Before(l, o[j], o[k])
    BY <1>2, <1>3, <2>1 DEF B!Once
  <2> QED
    BY <2>1, <2>2 DEF Strict
<1>5. {x \in S : B!Before(l, x, o[i])} = {o[k] : k \in 1..i - 1}
  <2>0. Len(o) \in Nat /\ i \in Nat /\ i <= Len(o)
    BY <1>2
  <2>1. ASSUME NEW k \in 1..Len(o), B!Before(l, o[k], o[i]) PROVE k < i
    <3>1. o[i] \in B!Here
      BY <1>2
    <3>2. ~B!Before(l, o[i], o[i])
      BY <3>1, BeforeOrders
    <3>3. k # i
      BY <2>1, <3>2
    <3>4. ~(i < k)
      BY <1>3, <2>1
    <3> QED
      BY <2>0, <3>3, <3>4
  <2>2. \A k \in 1..i - 1 : k \in 1..Len(o) /\ k < i
    BY <2>0
  <2>3. {o[k] : k \in 1..i - 1} \subseteq {x \in S : B!Before(l, x, o[i])}
    BY <1>2, <1>4, <2>2
  <2>4. {x \in S : B!Before(l, x, o[i])} \subseteq {o[k] : k \in 1..i - 1}
    <3> SUFFICES ASSUME NEW x \in S, B!Before(l, x, o[i]) PROVE x \in {o[k] : k \in 1..i - 1}
      OBVIOUS
    <3>1. PICK k \in 1..Len(o) : x = o[k]
      BY <1>2
    <3>2. k \in 1..i - 1
      BY <2>0, <2>1, <3>1
    <3> QED
      BY <3>1, <3>2
  <2> QED
    BY <2>3, <2>4
<1>6. DEFINE f == [k \in 1..i - 1 |-> o[k]]
<1>7. f \in Bijection(1..i - 1, {o[k] : k \in 1..i - 1})
  <2>1. f \in Injection(1..i - 1, {o[k] : k \in 1..i - 1})
    <3>1. \A k \in 1..i - 1 : k \in 1..Len(o)
      BY <1>2
    <3> QED
      BY <1>2, <3>1 DEF Injection, IsInjective, B!Once
  <2>2. f \in Surjection(1..i - 1, {o[k] : k \in 1..i - 1})
    BY DEF Surjection
  <2> QED
    BY <2>1, <2>2 DEF Bijection
<1>8. IsFiniteSet(1..i - 1) /\ Cardinality(1..i - 1) = i - 1
  BY FS_Interval
<1>9. Cardinality({o[k] : k \in 1..i - 1}) = i - 1
  BY <1>7, <1>8, FS_Bijection, Zenon DEF ExistsBijection
<1> QED
  BY <1>5, <1>9 DEF Ahead

\* A page has the rows that stand in its places, each once.
LEMMA PageIs ==
  ASSUME NEW S, NEW o \in Seq(S), NEW from \in Nat
  PROVE  /\ B!Page(o, from) \in Seq(S)
         /\ \A x : x \in B!ToSet(B!Page(o, from)) <=>
                   \E i \in 1..Len(o) : x = o[i] /\ from < i /\ i <= from + Limit
         /\ B!Once(o) => B!Once(B!Page(o, from))
<1>1. Limit \in Nat \ {0} /\ Len(o) \in Nat
  BY BrowsingHolds DEF B!BrowsingAssumption
<1> DEFINE to == IF from + Limit > Len(o) THEN Len(o) ELSE from + Limit
           s == SubSeq(o, from + 1, to)
<1>2. B!Page(o, from) = s /\ to \in Nat
  BY <1>1 DEF B!Page
<1>3. to <= Len(o) /\ \A i \in 1..Len(o) : i <= to <=> i <= from + Limit
  BY <1>1
<1> HIDE DEF to
<1>4. /\ s \in Seq(S) /\ DOMAIN s = 1..Len(s) /\ Len(s) = IF from + 1 <= to THEN to - from ELSE 0
      /\ \A i \in 1..Len(s) : s[i] = o[from + i] /\ from + i \in 1..Len(o) /\ from + i <= to
  BY <1>1, <1>2, <1>3
<1> HIDE DEF s
<1>5. ASSUME NEW i \in 1..Len(o), from < i, i <= to PROVE \E j \in 1..Len(s) : s[j] = o[i]
  <2>1. i - from \in 1..Len(s) /\ from + (i - from) = i
    BY <1>1, <1>2, <1>4, <1>5
  <2> QED
    BY <1>4, <2>1
<1>6. \A x : x \in B!ToSet(s) <=> \E i \in 1..Len(o) : x = o[i] /\ from < i /\ i <= from + Limit
  <2>1. \A x : x \in B!ToSet(s) <=> \E j \in 1..Len(s) : x = s[j]
    BY <1>4 DEF B!ToSet
  <2>2. ASSUME NEW j \in 1..Len(s)
        PROVE  \E i \in 1..Len(o) : s[j] = o[i] /\ from < i /\ i <= from + Limit
    <3>1. from < from + j /\ from + j <= from + Limit /\ s[j] = o[from + j] /\ from + j \in 1..Len(o)
      BY <1>1, <1>3, <1>4
    <3> QED
      BY <3>1
  <2>3. ASSUME NEW i \in 1..Len(o), from < i, i <= from + Limit PROVE o[i] \in B!ToSet(s)
    <3>1. PICK j \in 1..Len(s) : s[j] = o[i]
      BY <1>3, <1>5, <2>3
    <3> QED
      BY <2>1, <3>1
  <2>4. ASSUME NEW x, x \in B!ToSet(s) PROVE \E i \in 1..Len(o) : x = o[i] /\ from < i /\ i <= from + Limit
    <3>1. PICK j \in 1..Len(s) : x = s[j]
      BY <2>1, <2>4
    <3> QED
      BY <2>2, <3>1
  <2> QED
    BY <2>3, <2>4, Zenon
<1>7. ASSUME B!Once(o) PROVE B!Once(s)
  <2> SUFFICES ASSUME NEW i \in 1..Len(s), NEW j \in 1..Len(s), i # j PROVE s[i] # s[j]
    BY <1>4, Zenon DEF B!Once
  <2>1. from + i \in DOMAIN o /\ from + j \in DOMAIN o /\ from + i # from + j
    BY <1>4
  <2>2. o[from + i] # o[from + j]
    BY <1>1, <1>7, <2>1 DEF B!Once
  <2> QED
    BY <1>4, <2>2
<1> QED
  BY <1>2, <1>4, <1>6, <1>7

\* Two sequences of different rows, one after the other.
LEMMA AppendedOnce ==
  ASSUME NEW s \in Seq(Rows), NEW q \in Seq(Rows)
  PROVE  /\ s \o q \in Seq(Rows)
         /\ B!ToSet(s \o q) = B!ToSet(s) \cup B!ToSet(q)
         /\ B!Once(s) /\ B!Once(q) /\ B!ToSet(s) \cap B!ToSet(q) = {} => B!Once(s \o q)
<1>1. /\ s \o q \in Seq(Rows) /\ Len(s \o q) = Len(s) + Len(q)
      /\ DOMAIN s = 1..Len(s) /\ DOMAIN q = 1..Len(q) /\ DOMAIN (s \o q) = 1..Len(s) + Len(q)
      /\ \A i \in 1..Len(s) : (s \o q)[i] = s[i]
      /\ \A i \in 1..Len(s) + Len(q) : i > Len(s) => (s \o q)[i] = q[i - Len(s)]
  OBVIOUS
<1> DEFINE c == s \o q
<1> HIDE DEF c
<1>2. /\ Len(s) \in Nat /\ Len(q) \in Nat
      /\ \A i \in 1..Len(q) : c[Len(s) + i] = q[i]
  BY <1>1 DEF c
<1>3. B!ToSet(c) = B!ToSet(s) \cup B!ToSet(q)
  <2>1. B!ToSet(c) \subseteq B!ToSet(s) \cup B!ToSet(q)
    BY <1>1, <1>2 DEF c, B!ToSet
  <2>2. B!ToSet(s) \subseteq B!ToSet(c)
    BY <1>1, <1>2 DEF c, B!ToSet
  <2>3. B!ToSet(q) \subseteq B!ToSet(c)
    <3>1. \A i \in 1..Len(q) : Len(s) + i \in DOMAIN c
      BY <1>1, <1>2 DEF c
    <3> QED
      BY <1>1, <1>2, <3>1 DEF B!ToSet
  <2> QED
    BY <2>1, <2>2, <2>3
<1>4. ASSUME B!Once(s), B!Once(q), B!ToSet(s) \cap B!ToSet(q) = {} PROVE B!Once(c)
  <2> SUFFICES ASSUME NEW i \in 1..Len(s) + Len(q), NEW j \in 1..Len(s) + Len(q), i < j PROVE c[i] # c[j]
    BY <1>1, <1>2 DEF c, B!Once
  <2>1. CASE j <= Len(s)
    BY <1>1, <1>2, <1>4, <2>1 DEF c, B!Once
  <2>2. CASE i > Len(s)
    BY <1>1, <1>2, <1>4, <2>2 DEF c, B!Once
  <2>3. CASE i <= Len(s) /\ j > Len(s)
    <3>1. c[i] \in B!ToSet(s)
      BY <1>1, <1>2, <2>3 DEF c, B!ToSet
    <3>2. c[j] \in B!ToSet(q)
      BY <1>1, <1>2, <2>3 DEF c, B!ToSet
    <3> QED
      BY <1>4, <3>1, <3>2
  <2> QED
    BY <1>2, <2>1, <2>2, <2>3
<1> QED
  BY <1>1, <1>3, <1>4 DEF c

LEMMA PageRows ==
  ASSUME BrowsingTyped, NEW l, Strict(l, B!Here), NEW o \in B!Orders(l, B!Here), NEW from \in Nat
  PROVE  /\ B!Page(o, from) \in Seq(Rows) /\ B!Once(B!Page(o, from))
         /\ B!ToSet(B!Page(o, from)) = {x \in B!Here : from <= Ahead(l, B!Here, x) /\ Ahead(l, B!Here, x) < from + Limit}
         /\ Len(o) \in Nat /\ Len(o) = Cardinality(B!Here)
         /\ \A x \in B!Here : Ahead(l, B!Here, x) \in Nat /\ Ahead(l, B!Here, x) < Len(o)
         /\ B!Page(o, from) = << >> => Len(o) <= from
<1> DEFINE H == B!Here
           s == B!Page(o, from)
<1>1. /\ Len(o) = Cardinality(H) /\ Len(o) \in Nat /\ o \in Seq(H) /\ B!Once(o)
      /\ \A i \in 1..Len(o) : o[i] \in H
      /\ \A x \in H : \E i \in 1..Len(o) : x = o[i]
  BY HereFinite, OrdersAreOrders
<1>2. /\ s \in Seq(H) /\ B!Once(s)
      /\ \A x : x \in B!ToSet(s) <=> \E i \in 1..Len(o) : x = o[i] /\ from < i /\ i <= from + Limit
  BY <1>1, PageIs
<1>3. s \in Seq(Rows)
  BY <1>2, HereFinite, SeqWidens
<1>4. \A i \in 1..Len(o) : Ahead(l, H, o[i]) = i - 1
  BY PlaceIs
<1>5. Limit \in Nat \ {0}
  BY BrowsingHolds DEF B!BrowsingAssumption
<1> DEFINE A(x) == Ahead(l, H, x)
<1>6. Len(o) \in Nat /\ \A x \in H : \E i \in 1..Len(o) : x = o[i] /\ A(x) = i - 1
  BY <1>1, <1>4
<1>7. \A i \in 1..Len(o) : o[i] \in H /\ A(o[i]) = i - 1
  BY <1>1, <1>4
<1>8. \A x : x \in B!ToSet(s) <=> \E i \in 1..Len(o) : x = o[i] /\ from < i /\ i <= from + Limit
  BY <1>2
<1>9. s = << >> => B!ToSet(s) = {}
  BY DEF B!ToSet
<1> HIDE DEF H, s, A
<1>10. B!ToSet(s) = {x \in H : from <= A(x) /\ A(x) < from + Limit}
  <2>1. ASSUME NEW x \in B!ToSet(s) PROVE x \in H /\ from <= A(x) /\ A(x) < from + Limit
    <3>1. PICK i \in 1..Len(o) : x = o[i] /\ from < i /\ i <= from + Limit
      BY <1>8
    <3>2. A(x) = i - 1 /\ x \in H /\ i \in Nat
      BY <1>6, <1>7, <3>1
    <3> QED
      BY <1>5, <3>1, <3>2
  <2>2. ASSUME NEW x \in H, from <= A(x), A(x) < from + Limit PROVE x \in B!ToSet(s)
    <3>1. PICK i \in 1..Len(o) : x = o[i] /\ A(x) = i - 1
      BY <1>6
    <3>2. from < i /\ i <= from + Limit
      BY <1>5, <1>6, <2>2, <3>1
    <3> QED
      BY <1>8, <3>1, <3>2
  <2> QED
    BY <2>1, <2>2
<1>11. \A x \in H : A(x) \in Nat /\ A(x) < Len(o)
  BY <1>6
<1>12. ASSUME s = << >> PROVE Len(o) <= from
  <2> SUFFICES ASSUME from < Len(o) PROVE FALSE
    BY <1>6
  <2>1. from + 1 \in 1..Len(o) /\ from < from + 1 /\ from + 1 <= from + Limit
    BY <1>5, <1>6
  <2>2. o[from + 1] \in B!ToSet(s)
    BY <1>8, <2>1
  <2> QED
    BY <1>9, <1>12, <2>2
<1> QED
  BY <1>1, <1>2, <1>3, <1>10, <1>11, <1>12 DEF H, s, A


\* A page of ids has the first of them, and all if it is short.
LEMMA FirstIds ==
  ASSUME BrowsingTyped, NEW S \in SUBSET B!Here, NEW o \in B!Orders("titles", S)
  PROVE  /\ B!Page(o, 0) \in Seq(Rows) /\ B!Once(B!Page(o, 0)) /\ Len(B!Page(o, 0)) \in Nat
         /\ B!Page(o, 0) = << >> => S = {} /\ B!ToSet(B!Page(o, 0)) = {}
         /\ B!Page(o, 0) # << >> =>
              /\ B!Last(B!Page(o, 0)) \in S
              /\ \A x : x \in B!ToSet(B!Page(o, 0)) <=> x \in S /\ x <= B!Last(B!Page(o, 0))
         /\ Len(B!Page(o, 0)) < Limit => S \subseteq B!ToSet(B!Page(o, 0))
<1> DEFINE s == B!Page(o, 0)
<1>1. IsFiniteSet(S) /\ S \subseteq Rows /\ Rows \subseteq Nat /\ Limit \in Nat \ {0}
  BY HereFinite, FS_Subset, BrowsingHolds DEF B!BrowsingAssumption
<1>2. /\ Len(o) \in Nat /\ DOMAIN o = 1..Len(o) /\ o \in Seq(S) /\ B!Once(o)
      /\ \A i \in 1..Len(o) : o[i] \in S
      /\ \A x \in S : \E i \in 1..Len(o) : x = o[i]
  BY <1>1, OrdersAreOrders
<1>3. s \in Seq(S) /\ B!Once(s)
  BY <1>2, PageIs
<1>4. s \in Seq(Rows)
  BY <1>1, <1>3, SeqWidens
<1>5. \A i \in 1..Len(o) : o[i] \in Nat
  BY <1>1, <1>2
<1>6. \A i, j \in 1..Len(o) : i < j => o[i] < o[j]
  <2> SUFFICES ASSUME NEW i \in 1..Len(o), NEW j \in 1..Len(o), i < j PROVE o[i] < o[j]
    OBVIOUS
  <2>1. ~B!Before("titles", o[j], o[i])
    BY <1>2 DEF B!Orders
  <2>2. ~(o[j] < o[i])
    BY <2>1 DEF B!Before
  <2>3. i # j /\ i \in DOMAIN o /\ j \in DOMAIN o
    BY <1>2
  <2>4. o[i] # o[j]
    BY <1>2, <2>3 DEF B!Once
  <2> QED
    BY <1>5, <2>2, <2>4
<1>14. Len(o) \in Nat
  BY <1>2
<1> DEFINE m == IF Limit > Len(o) THEN Len(o) ELSE Limit
<1>7. m \in Nat /\ m <= Len(o) /\ m <= Limit /\ (m < Limit => m = Len(o)) /\ (Len(o) > 0 => m > 0)
  BY <1>1, <1>14
<1>15. \A i \in 1..m : i \in 1..Len(o) /\ i <= m
  BY <1>7, <1>14
<1>8. Len(s) = m /\ DOMAIN s = 1..m /\ \A i \in 1..m : s[i] = o[i] /\ i \in 1..Len(o)
  <2>1. s = SubSeq(o, 1, m)
    BY <1>1, <1>2 DEF B!Page
  <2>2. o \in Seq(S)
    BY <1>2
  <2> HIDE DEF s, m
  <2> QED
    BY <1>7, <1>14, <1>15, <2>1, <2>2
<1>9. \A x : x \in B!ToSet(s) <=> \E i \in 1..m : x = o[i]
  BY <1>8 DEF B!ToSet
<1>10. s = << >> <=> m = 0
  BY <1>3, <1>8
<1>11. m > 0 => B!Last(s) = o[m]
  BY <1>8 DEF B!Last
<1> HIDE DEF s, m
<1>12. CASE m = 0
  <2>1. S = {} /\ B!ToSet(s) = {} /\ s = << >>
    BY <1>2, <1>7, <1>9, <1>10, <1>12
  <2> QED
    BY <1>3, <1>4, <1>8, <1>12, <2>1 DEF s
<1>13. CASE m > 0
  <2>1. s # << >> /\ m \in 1..Len(o)
    BY <1>7, <1>10, <1>13, <1>14
  <2>2. \A i \in 1..Len(o) : i <= m <=> o[i] <= o[m]
    BY <1>5, <1>6, <1>14, <2>1
  <2>3. ASSUME NEW x \in S, x <= o[m] \/ Len(s) < Limit PROVE x \in B!ToSet(s)
    <3>1. PICK i \in 1..Len(o) : x = o[i]
      BY <1>2
    <3>2. i <= m
      BY <1>7, <1>8, <1>14, <2>2, <2>3, <3>1
    <3>3. i \in 1..m
      BY <1>7, <1>14, <3>2
    <3> QED
      BY <1>9, <3>1, <3>3
  <2>4. ASSUME NEW x \in B!ToSet(s) PROVE x \in S /\ x <= o[m]
    <3>1. PICK i \in 1..m : x = o[i]
      BY <1>9
    <3>2. i \in 1..Len(o) /\ i <= m
      BY <1>15
    <3> QED
      BY <1>2, <2>2, <3>1, <3>2
  <2>5. o[m] \in S
    BY <1>2, <2>1
  <2> QED
    BY <1>3, <1>4, <1>7, <1>8, <1>11, <1>13, <2>1, <2>3, <2>4, <2>5 DEF s
<1> QED
  BY <1>7, <1>12, <1>13

\* The page after an id that has the ids to a new one has all between.
LEMMA KeysetPage ==
  ASSUME BrowsingTyped, NEW last \in Nat, NEW o \in B!Orders("titles", {t \in B!Here : t > last}),
         NEW new, new = IF B!Page(o, 0) = << >> THEN last ELSE B!Last(B!Page(o, 0))
  PROVE  /\ B!Page(o, 0) \in Seq(Rows) /\ B!Once(B!Page(o, 0))
         /\ new \in Nat /\ last <= new
         /\ \A x : x \in B!ToSet(B!Page(o, 0)) <=> x \in B!Here /\ x > last /\ x <= new
         /\ Len(B!Page(o, 0)) < Limit => \A t \in B!Here : t > last => t \in B!ToSet(B!Page(o, 0))
<1> DEFINE S == {t \in B!Here : t > last}
           s == B!Page(o, 0)
           e == B!Last(s)
<1>1. /\ s \in Seq(Rows) /\ B!Once(s)
      /\ s = << >> => S = {} /\ B!ToSet(s) = {}
      /\ s # << >> => e \in S /\ \A x : x \in B!ToSet(s) <=> x \in S /\ x <= e
      /\ Len(s) < Limit => S \subseteq B!ToSet(s)
  BY FirstIds
<1>2. new = IF s = << >> THEN last ELSE e
  OBVIOUS
<1>3. \A t : t \in S <=> t \in B!Here /\ t > last
  OBVIOUS
<1>4. \A t \in S : t \in Nat
  BY HereFinite, BrowsingHolds DEF B!BrowsingAssumption
<1> HIDE DEF S, s, e
<1>5. CASE s = << >>
  BY <1>1, <1>2, <1>3, <1>5 DEF s
<1>6. CASE s # << >>
  BY <1>1, <1>2, <1>3, <1>4, <1>6 DEF s
<1> QED
  BY <1>5, <1>6

Fields == {"list", "at", "from", "total", "last", "shown", "stay", "began", "squeezed", "moved",
           "tied", "quiet"}

\* A walk by keyset has shown what was there all the time up to the last id.
ByKeyset(w) ==
  /\ w.last \in Nat /\ B!Once(w.shown) /\ \A x \in B!ToSet(w.shown) : x <= w.last
  /\ w.at # "end" => w.stay \subseteq B!Here
  /\ \A t \in w.stay : t <= w.last \/ w.at = "end" => t \in B!ToSet(w.shown)

\* A walk by offset has shown those of its rows that stand before the offset, where
\* rows may come, but may not go or move; and what was counted is right if nothing
\* came since.
ByOffset(w) ==
  /\ w.quiet => ~w.squeezed /\ ~w.moved
  /\ w.at # "end" /\ ~w.moved => w.began \subseteq B!Here
  /\ w.at # "end" /\ ~w.moved /\ ~w.squeezed /\ ~w.tied =>
       \A b \in w.began : Ahead(w.list, B!Here, b) < w.from => b \in B!ToSet(w.shown)
  /\ w.at = "page" /\ ~w.moved /\ ~w.squeezed => w.total = Cardinality(B!Here)
  /\ w.at = "end" => w.squeezed \/ w.moved \/ w.tied \/ w.began \subseteq B!ToSet(w.shown)

\* If nothing changes, it has shown them once, and no others.
Undisturbed(w) ==
  /\ w.at # "end" /\ w.quiet => w.began = B!Here
  /\ w.at # "end" /\ w.quiet /\ ~w.tied =>
       /\ B!Once(w.shown)
       /\ \A b : b \in B!ToSet(w.shown) <=> b \in B!Here /\ Ahead(w.list, B!Here, b) < w.from
  /\ w.at = "end" /\ w.quiet /\ ~w.tied => B!Once(w.shown) /\ B!ToSet(w.shown) = w.began

AtOnce(w) ==
  /\ w.at # "end" => w.shown = << >> /\ (w.quiet => w.began = B!Here)
  /\ w.at = "end" /\ w.quiet => B!Once(w.shown) /\ B!ToSet(w.shown) = w.began

Reading(w) ==
  /\ Fields \subseteq DOMAIN w
  /\ w.at \in {"count", "page", "end"}
  /\ w.squeezed \in BOOLEAN /\ w.moved \in BOOLEAN /\ w.tied \in BOOLEAN /\ w.quiet \in BOOLEAN
  /\ w.from \in Nat
  /\ w.list \in Followed => w.shown \in Seq(Rows)
  /\ w.list = "titles" => ByKeyset(w)
  /\ w.list \in Offset => ByOffset(w)
  /\ w.list \in Offset \cup {"search titles"} => Undisturbed(w)
  /\ w.list = "events" => AtOnce(w)

Walking ==
  /\ rows \in [Rows -> B!Keys \cup {None}]
  /\ walk = [c \in Clients |-> walk[c]]
  /\ \A c \in Clients : walk[c] # None => Reading(walk[c])

LEMMA TypedRows ==
  ASSUME rows \in [Rows -> B!Keys \cup {None}] PROVE BrowsingTyped
BY BrowsingHolds DEF BrowsingTyped, B!Here, B!Keys, B!BrowsingAssumption

LEMMA OffsetsGrow ==
  \A m \in Nat : m + Limit \in Nat
BY BrowsingHolds DEF B!BrowsingAssumption

LEMMA OneIsGreater ==
  \A m, n \in Nat : m > n \/ n > m \/ m = n
OBVIOUS

LEMMA AlwaysStrict ==
  ASSUME BrowsingTyped, NEW l, (l \in Offset /\ ~B!Ties) \/ l = "search titles"
  PROVE  Strict(l, B!Here)
<1> SUFFICES ASSUME NEW a \in B!Here, NEW b \in B!Here, a # b
             PROVE  B!Before(l, a, b) \/ B!Before(l, b, a)
  BY DEF Strict
<1>1. a \in Nat /\ b \in Nat /\ rows[a] \in Nat /\ rows[b] \in Nat
  BY BrowsingHolds, HereFinite DEF BrowsingTyped, B!BrowsingAssumption
<1>2. CASE l = "search titles"
  <2>1. rows[a] > rows[b] \/ rows[b] > rows[a] \/ (rows[a] = rows[b] /\ (a > b \/ b > a))
    BY <1>1, OneIsGreater, Zenon
  <2> QED
    BY <1>2, <2>1 DEF B!Before
<1>3. CASE l \in Offset /\ ~B!Ties
  <2>1. rows[a] # rows[b]
    BY <1>3 DEF B!Ties
  <2>2. rows[a] > rows[b] \/ rows[b] > rows[a]
    BY <1>1, <2>1, OneIsGreater, Zenon
  <2> QED
    BY <1>3, <2>2 DEF B!Before, Offset
<1> QED
  BY <1>2, <1>3

\* The walks read rows only through those that are there and their places.
LEMMA ReadingKept ==
  ASSUME rows' = rows, NEW w, Reading(w)
  PROVE  Reading(w)'
<1>1. B!Here' = B!Here
  BY DEF B!Here
<1>2. \A l, b : Ahead(l, B!Here, b)' = Ahead(l, B!Here, b)
  BY <1>1 DEF Ahead, B!Before
<1>3. ByKeyset(w) => ByKeyset(w)'
  BY <1>1 DEF ByKeyset
<1>4. ByOffset(w) => ByOffset(w)'
  BY <1>1, <1>2 DEF ByOffset
<1>5. Undisturbed(w) => Undisturbed(w)'
  BY <1>1, <1>2 DEF Undisturbed
<1>6. AtOnce(w) => AtOnce(w)'
  BY <1>1 DEF AtOnce
<1> QED
  BY <1>3, <1>4, <1>5, <1>6 DEF Reading

\* A walk that is over does not look at the rows again.
LEMMA EndedStays ==
  ASSUME NEW w, Reading(w), w.at = "end"
  PROVE  Reading(w)'
BY DEF Reading, ByKeyset, ByOffset, Undisturbed, AtOnce

\* New rows stand anywhere, and move others only back.
LEMMA Inserted ==
  ASSUME BrowsingTyped, B!Here \subseteq B!Here', NEW w, Reading(w), w.at # "end",
         \A t \in B!Here : rows'[t] = rows[t], IsFiniteSet(B!Here'),
         NEW v, v = [w EXCEPT !.quiet = FALSE, !.squeezed = @ \/ w.at = "page"]
  PROVE  Reading(v)'
<1>1. \A l : \A b \in B!Here : /\ Ahead(l, B!Here, b) \in Nat /\ Ahead(l, B!Here, b)' \in Nat
                               /\ Ahead(l, B!Here, b) <= Ahead(l, B!Here, b)'
  <2> SUFFICES ASSUME NEW l, NEW b \in B!Here
               PROVE  /\ Ahead(l, B!Here, b) \in Nat /\ Ahead(l, B!Here, b)' \in Nat
                      /\ Ahead(l, B!Here, b) <= Ahead(l, B!Here, b)'
    OBVIOUS
  <2>1. \A x \in B!Here : B!Before(l, x, b)' <=> B!Before(l, x, b)
    BY DEF B!Before
  <2>2. /\ IsFiniteSet({x \in B!Here' : B!Before(l, x, b)'})
        /\ {x \in B!Here : B!Before(l, x, b)} \subseteq {x \in B!Here' : B!Before(l, x, b)'}
    BY <2>1, FS_Subset
  <2> QED
    BY <2>2, FS_Subset, FS_CardinalityType DEF Ahead
<1>2. /\ Fields \subseteq DOMAIN v /\ v.list = w.list /\ v.at = w.at /\ v.from = w.from
      /\ v.total = w.total /\ v.last = w.last /\ v.shown = w.shown /\ v.stay = w.stay
      /\ v.began = w.began /\ v.moved = w.moved /\ v.tied = w.tied /\ v.quiet = FALSE
      /\ v.squeezed \in BOOLEAN /\ (v.squeezed <=> w.squeezed \/ w.at = "page")
  BY DEF Reading, Fields
<1>3. w.list = "titles" => ByKeyset(v)'
  BY <1>2 DEF Reading, ByKeyset
<1>4. w.list \in Offset => ByOffset(v)'
  <2> SUFFICES ASSUME ByOffset(w) PROVE ByOffset(v)'
    BY DEF Reading
  <2>1. w.from \in Nat
    BY DEF Reading
  <2>2. ~w.moved => w.began \subseteq B!Here
    BY DEF ByOffset
  <2>3. ASSUME ~w.moved, ~w.squeezed, ~w.tied, NEW b \in w.began, Ahead(w.list, B!Here, b)' < w.from
        PROVE  b \in B!ToSet(w.shown)
    <3>1. Ahead(w.list, B!Here, b) < w.from
      BY <1>1, <2>1, <2>2, <2>3
    <3> QED
      BY <2>3, <3>1 DEF ByOffset
  <2> QED
    BY <1>2, <2>2, <2>3 DEF ByOffset
<1>5. Undisturbed(v)' /\ (w.list = "events" => AtOnce(v)')
  BY <1>2 DEF Reading, Undisturbed, AtOnce
<1> QED
  BY <1>2, <1>3, <1>4, <1>5 DEF Reading

\* Once a row has gone or moved, little is said of a walk by offset.
LEMMA Removed ==
  ASSUME NEW w, Reading(w), w.at # "end", NEW T, T \subseteq w.stay,
         w.list = "titles" => T \subseteq B!Here',
         NEW v, v = [w EXCEPT !.quiet = FALSE, !.moved = TRUE, !.stay = T]
  PROVE  Reading(v)'
<1>1. /\ Fields \subseteq DOMAIN v /\ v.list = w.list /\ v.at = w.at /\ v.from = w.from
      /\ v.total = w.total /\ v.last = w.last /\ v.shown = w.shown /\ v.stay = T
      /\ v.began = w.began /\ v.moved = TRUE /\ v.tied = w.tied /\ v.quiet = FALSE
      /\ v.squeezed = w.squeezed
  BY DEF Reading, Fields
<1>2. w.list = "titles" => ByKeyset(v)'
  BY <1>1 DEF Reading, ByKeyset
<1>3. ByOffset(v)' /\ Undisturbed(v)' /\ (w.list = "events" => AtOnce(v)')
  BY <1>1 DEF Reading, ByOffset, Undisturbed, AtOnce
<1> QED
  BY <1>1, <1>2, <1>3 DEF Reading

\* The first page begins with nothing shown.
LEMMA BeganFresh ==
  ASSUME BrowsingTyped, NEW l, NEW at \in {"count", "page"},
         NEW v, v = [list |-> l, at |-> at, from |-> 0, total |-> 0, last |-> 0, shown |-> << >>,
                     stay |-> B!Here, began |-> B!Here, squeezed |-> FALSE, moved |-> FALSE,
                     tied |-> FALSE, quiet |-> TRUE],
         l \in Offset => at = "count"
  PROVE  Reading(v)
<1>1. B!ToSet(<< >>) = {} /\ B!Once(<< >>) /\ << >> \in Seq(Rows)
  BY DEF B!ToSet, B!Once
<1>2. \A b \in B!Here : b \in Nat /\ b > 0
  BY HereFinite, BrowsingHolds DEF B!BrowsingAssumption
<1>3. \A b \in B!Here : Ahead(l, B!Here, b) \in Nat
  <2> SUFFICES ASSUME NEW b \in B!Here PROVE Ahead(l, B!Here, b) \in Nat
    OBVIOUS
  <2>1. IsFiniteSet({x \in B!Here : B!Before(l, x, b)})
    BY HereFinite, FS_Subset
  <2> QED
    BY <2>1, FS_CardinalityType DEF Ahead
<1>4. ByKeyset(v)
  BY <1>1, <1>2 DEF ByKeyset
<1>5. l \in Offset => ByOffset(v)
  BY <1>1, <1>3 DEF ByOffset
<1>6. Undisturbed(v) /\ AtOnce(v)
  BY <1>1, <1>3 DEF Undisturbed, AtOnce
<1> QED
  BY <1>1, <1>4, <1>5, <1>6 DEF Reading, Fields

\* What is counted is what is there.
LEMMA CountedIs ==
  ASSUME NEW w, Reading(w), w.at = "count",
         NEW v, v = [w EXCEPT !.total = Cardinality(B!Here), !.at = "page"]
  PROVE  Reading(v)
<1>1. /\ Fields \subseteq DOMAIN v /\ v.list = w.list /\ v.at = "page" /\ v.from = w.from
      /\ v.total = Cardinality(B!Here) /\ v.last = w.last /\ v.shown = w.shown /\ v.stay = w.stay
      /\ v.began = w.began /\ v.moved = w.moved /\ v.tied = w.tied /\ v.quiet = w.quiet
      /\ v.squeezed = w.squeezed
  BY DEF Reading, Fields
<1>2. w.list = "titles" => ByKeyset(v)
  BY <1>1 DEF Reading, ByKeyset
<1>3. w.list \in Offset => ByOffset(v)
  BY <1>1 DEF Reading, ByOffset
<1>4. w.list \in Offset \cup {"search titles"} => Undisturbed(v)
  BY <1>1 DEF Reading, Undisturbed
<1>5. w.list = "events" => AtOnce(v)
  BY <1>1 DEF Reading, AtOnce
<1> QED
  BY <1>1, <1>2, <1>3, <1>4, <1>5 DEF Reading

\* A page by keyset.
LEMMA KeysetRead ==
  ASSUME BrowsingTyped, NEW w, Reading(w), w.at = "page", w.list = "titles",
         NEW o \in B!Orders("titles", {t \in B!Here : t > w.last}), NEW s, s = B!Page(o, 0),
         NEW v, v = [w EXCEPT !.last = IF s = << >> THEN @ ELSE B!Last(s), !.shown = @ \o s,
                              !.at = IF Len(s) < Limit THEN "end" ELSE "page"]
  PROVE  Reading(v)
<1> DEFINE new == IF s = << >> THEN w.last ELSE B!Last(s)
<1>1. /\ Fields \subseteq DOMAIN v /\ v.list = "titles" /\ v.at = IF Len(s) < Limit THEN "end" ELSE "page"
      /\ v.from = w.from /\ v.last = new /\ v.shown = w.shown \o s /\ v.stay = w.stay
      /\ v.moved = w.moved /\ v.tied = w.tied /\ v.quiet = w.quiet /\ v.squeezed = w.squeezed
  BY DEF Reading, Fields
<1>2. ByKeyset(w) /\ w.shown \in Seq(Rows) /\ w.last \in Nat
  BY DEF Reading, Followed, ByKeyset
<1>3. /\ s \in Seq(Rows) /\ B!Once(s) /\ new \in Nat /\ w.last <= new
      /\ \A x : x \in B!ToSet(s) <=> x \in B!Here /\ x > w.last /\ x <= new
      /\ Len(s) < Limit => \A t \in B!Here : t > w.last => t \in B!ToSet(s)
  BY <1>2, KeysetPage
<1>4. \A t \in B!Here : t \in Nat
  BY HereFinite, BrowsingHolds DEF B!BrowsingAssumption
<1> HIDE DEF new
<1>5. \A x \in B!ToSet(w.shown) : x <= w.last
  BY <1>2 DEF ByKeyset
<1>6. B!ToSet(w.shown) \cap B!ToSet(s) = {}
  <2> SUFFICES ASSUME NEW x \in B!ToSet(s), x <= w.last PROVE FALSE
    BY <1>5
  <2>1. x \in Nat /\ x > w.last
    BY <1>3, <1>4
  <2> QED
    BY <1>2, <2>1
<1>7. /\ v.shown \in Seq(Rows) /\ B!Once(v.shown)
      /\ B!ToSet(v.shown) = B!ToSet(w.shown) \cup B!ToSet(s)
  BY <1>1, <1>2, <1>3, <1>6, AppendedOnce DEF ByKeyset
<1>8. \A x \in B!ToSet(v.shown) : x <= v.last
  <2> SUFFICES ASSUME NEW x \in B!ToSet(v.shown) PROVE x <= new
    BY <1>1
  <2>1. x \in Rows
    BY <1>7 DEF B!ToSet
  <2>2. x \in Nat
    BY <2>1, BrowsingHolds DEF B!BrowsingAssumption
  <2>3. CASE x \in B!ToSet(w.shown)
    BY <1>2, <1>3, <1>5, <2>2, <2>3
  <2>4. CASE x \in B!ToSet(s)
    BY <1>3, <2>4
  <2> QED
    BY <1>7, <2>3, <2>4
<1>9. \A t \in w.stay : t \in B!Here
  BY <1>2 DEF ByKeyset
<1>10. ASSUME NEW t \in w.stay, t <= new \/ Len(s) < Limit PROVE t \in B!ToSet(v.shown)
  <2>1. CASE t <= w.last
    BY <1>2, <1>7, <2>1 DEF ByKeyset
  <2>2. CASE t > w.last
    BY <1>3, <1>7, <1>9, <1>10, <2>2
  <2> QED
    BY <1>2, <1>4, <1>9, <2>1, <2>2
<1>11. ByKeyset(v)
  BY <1>1, <1>3, <1>7, <1>8, <1>9, <1>10 DEF ByKeyset
<1> QED
  BY <1>1, <1>7, <1>11 DEF Reading, Offset

\* What the next page adds to what was shown, if no two rows are equal.
LEMMA NextPage ==
  ASSUME BrowsingTyped, NEW l, Strict(l, B!Here), NEW o \in B!Orders(l, B!Here), NEW from \in Nat,
         NEW shown \in Seq(Rows), NEW s, s = B!Page(o, from)
  PROVE  /\ s \in Seq(Rows) /\ shown \o s \in Seq(Rows)
         /\ \A b \in B!Here :
              (Ahead(l, B!Here, b) < from => b \in B!ToSet(shown)) /\ Ahead(l, B!Here, b) < from + Limit
                => b \in B!ToSet(shown \o s)
         /\ B!Once(shown) /\ (\A b : b \in B!ToSet(shown) <=> b \in B!Here /\ Ahead(l, B!Here, b) < from) =>
              /\ B!Once(shown \o s)
              /\ \A b : b \in B!ToSet(shown \o s) <=> b \in B!Here /\ Ahead(l, B!Here, b) < from + Limit
         /\ ~(from + Limit < Cardinality(B!Here)) => \A b \in B!Here : Ahead(l, B!Here, b) < from + Limit
         /\ s # << >> /\ ~(from + Limit < Len(o)) => \A b \in B!Here : Ahead(l, B!Here, b) < from + Limit
         /\ s = << >> => \A b \in B!Here : Ahead(l, B!Here, b) < from + Limit
<1> DEFINE A(x) == Ahead(l, B!Here, x)
           c == shown \o s
<1>1. Limit \in Nat \ {0}
  BY BrowsingHolds DEF B!BrowsingAssumption
<1>2. /\ s \in Seq(Rows) /\ B!Once(s) /\ Len(o) \in Nat /\ Len(o) = Cardinality(B!Here)
      /\ \A x : x \in B!ToSet(s) <=> x \in B!Here /\ from <= A(x) /\ A(x) < from + Limit
      /\ \A x \in B!Here : A(x) \in Nat /\ A(x) < Len(o)
      /\ s = << >> => Len(o) <= from
  BY PageRows
<1>3. /\ c \in Seq(Rows) /\ B!ToSet(c) = B!ToSet(shown) \cup B!ToSet(s)
      /\ B!Once(shown) /\ B!Once(s) /\ B!ToSet(shown) \cap B!ToSet(s) = {} => B!Once(c)
  BY <1>2, AppendedOnce
<1> HIDE DEF A, c
<1>4. \A m \in Nat : m < from + Limit <=> m < from \/ (from <= m /\ m < from + Limit)
  BY <1>1
<1>5. \A m \in Nat : ~(m < from /\ from <= m)
  OBVIOUS
<1>6. \A b \in B!Here : (A(b) < from => b \in B!ToSet(shown)) /\ A(b) < from + Limit => b \in B!ToSet(c)
  BY <1>2, <1>3, <1>4, Zenon
<1>7. ASSUME B!Once(shown), \A b : b \in B!ToSet(shown) <=> b \in B!Here /\ A(b) < from
      PROVE  B!Once(c) /\ \A b : b \in B!ToSet(c) <=> b \in B!Here /\ A(b) < from + Limit
  <2>1. B!ToSet(shown) \cap B!ToSet(s) = {}
    <3> SUFFICES ASSUME NEW x \in B!ToSet(shown), x \in B!ToSet(s) PROVE FALSE
      OBVIOUS
    <3>1. A(x) \in Nat /\ A(x) < from /\ from <= A(x)
      BY <1>2, <1>7
    <3> QED
      BY <1>5, <3>1
  <2>2. B!Once(c)
    BY <1>2, <1>3, <1>7, <2>1
  <2>3. \A b : b \in B!ToSet(c) <=> b \in B!Here /\ A(b) < from + Limit
    BY <1>2, <1>3, <1>4, <1>7, Zenon
  <2> QED
    BY <2>2, <2>3
<1>8. ASSUME Len(o) <= from + Limit PROVE \A b \in B!Here : A(b) < from + Limit
  BY <1>1, <1>2, <1>8
<1>9. s = << >> => Len(o) <= from + Limit
  BY <1>1, <1>2
<1>10. ~(from + Limit < Len(o)) => Len(o) <= from + Limit
  BY <1>1, <1>2
<1> QED
  BY <1>2, <1>3, <1>6, <1>7, <1>8, <1>9, <1>10 DEF A, c

\* A page by offset, of a list or of the search for titles.
LEMMA OffsetRead ==
  ASSUME BrowsingTyped, NEW w, Reading(w), w.at = "page", w.list \in Offset \cup {"search titles"},
         NEW o \in B!Orders(w.list, B!Here), NEW s, s = B!Page(o, w.from),
         NEW v, Fields \subseteq DOMAIN v, v.list = w.list, v.from = w.from + Limit, v.shown = w.shown \o s,
         v.began = w.began, v.quiet = w.quiet, v.moved = w.moved, v.squeezed = w.squeezed,
         v.tied \in BOOLEAN, ~v.tied => ~w.tied /\ (w.list \in Offset => ~B!Ties),
         v.at \in {"count", "page", "end"}, w.list \in Offset => v.at # "page",
         v.at = "end" /\ w.list \in Offset => ~(w.from + Limit < w.total),
         v.at = "end" /\ w.list \notin Offset => s = << >> \/ ~(w.from + Limit < Len(o))
  PROVE  Reading(v)
<1> DEFINE A(x) == Ahead(w.list, B!Here, x)
<1>1. /\ w.shown \in Seq(Rows) /\ w.from \in Nat /\ Undisturbed(w)
      /\ w.list \in Offset => ByOffset(w)
  BY DEF Reading, Followed
<1>2. v.from \in Nat
  BY <1>1, OffsetsGrow, Zenon
<1>3. ASSUME ~v.tied
      PROVE  /\ \A b \in B!Here : (A(b) < w.from => b \in B!ToSet(w.shown)) /\ A(b) < v.from
                                    => b \in B!ToSet(v.shown)
             /\ B!Once(w.shown) /\ (\A b : b \in B!ToSet(w.shown) <=> b \in B!Here /\ A(b) < w.from) =>
                  /\ B!Once(v.shown)
                  /\ \A b : b \in B!ToSet(v.shown) <=> b \in B!Here /\ A(b) < v.from
             /\ ~(w.from + Limit < Cardinality(B!Here)) => \A b \in B!Here : A(b) < v.from
             /\ s = << >> \/ ~(w.from + Limit < Len(o)) => \A b \in B!Here : A(b) < v.from
  <2>1. Strict(w.list, B!Here)
    BY <1>3, AlwaysStrict
  <2>2. /\ \A b \in B!Here : (A(b) < w.from => b \in B!ToSet(w.shown)) /\ A(b) < w.from + Limit
                                => b \in B!ToSet(w.shown \o s)
        /\ B!Once(w.shown) /\ (\A b : b \in B!ToSet(w.shown) <=> b \in B!Here /\ A(b) < w.from) =>
             /\ B!Once(w.shown \o s)
             /\ \A b : b \in B!ToSet(w.shown \o s) <=> b \in B!Here /\ A(b) < w.from + Limit
        /\ ~(w.from + Limit < Cardinality(B!Here)) => \A b \in B!Here : A(b) < w.from + Limit
        /\ s # << >> /\ ~(w.from + Limit < Len(o)) => \A b \in B!Here : A(b) < w.from + Limit
        /\ s = << >> => \A b \in B!Here : A(b) < w.from + Limit
    <3> DEFINE l == w.list
               from == w.from
               shown == w.shown
    <3>1. /\ Strict(l, B!Here) /\ o \in B!Orders(l, B!Here) /\ from \in Nat /\ shown \in Seq(Rows)
          /\ s = B!Page(o, from)
      BY <1>1, <2>1
    <3> HIDE DEF l, from, shown
    <3>2. /\ \A b \in B!Here :
               (Ahead(l, B!Here, b) < from => b \in B!ToSet(shown)) /\ Ahead(l, B!Here, b) < from + Limit
                 => b \in B!ToSet(shown \o s)
          /\ B!Once(shown) /\ (\A b : b \in B!ToSet(shown) <=> b \in B!Here /\ Ahead(l, B!Here, b) < from) =>
               /\ B!Once(shown \o s)
               /\ \A b : b \in B!ToSet(shown \o s) <=> b \in B!Here /\ Ahead(l, B!Here, b) < from + Limit
          /\ ~(from + Limit < Cardinality(B!Here)) => \A b \in B!Here : Ahead(l, B!Here, b) < from + Limit
          /\ s # << >> /\ ~(from + Limit < Len(o)) => \A b \in B!Here : Ahead(l, B!Here, b) < from + Limit
          /\ s = << >> => \A b \in B!Here : Ahead(l, B!Here, b) < from + Limit
      BY ONLY BrowsingTyped, <3>1, NextPage
    <3> QED
      BY <3>2, Zenon DEF l, from, shown
  <2> HIDE DEF A
  <2> QED
    BY <2>2, Zenon
<1>4. v.shown \in Seq(Rows)
  <2>1. o \in Seq(B!Here)
    BY HereFinite, OrdersAreOrders
  <2>2. s \in Seq(B!Here)
    BY <1>1, <2>1, PageIs
  <2>3. s \in Seq(Rows)
    BY <2>2, HereFinite, SeqWidens
  <2> QED
    BY <1>1, <2>3, AppendedOnce
<1> HIDE DEF A
<1>5. ASSUME w.list \in Offset PROVE ByOffset(v)
  <2>1. ByOffset(w)
    BY <1>1, <1>5
  <2>2. ~v.moved => v.began \subseteq B!Here
    BY <2>1 DEF ByOffset
  <2>3. ASSUME ~v.moved, ~v.squeezed, ~v.tied, NEW b \in v.began, A(b) < v.from
        PROVE  b \in B!ToSet(v.shown)
    <3>1. A(b) < w.from => b \in B!ToSet(w.shown)
      BY <2>1, <2>3 DEF ByOffset, A
    <3> QED
      BY <1>3, <2>2, <2>3, <3>1
  <2>4. ASSUME ~v.moved, ~v.squeezed, ~v.tied, v.at = "end" PROVE v.began \subseteq B!ToSet(v.shown)
    <3>1. w.total = Cardinality(B!Here)
      BY <2>1, <2>4 DEF ByOffset
    <3>2. \A b \in B!Here : A(b) < v.from
      BY <1>3, <1>5, <2>4, <3>1
    <3> QED
      BY <2>2, <2>3, <2>4, <3>2
  <2>5. v.at # "page" /\ v.list = w.list
    BY <1>5
  <2>6. v.quiet => ~v.squeezed /\ ~v.moved
    BY <2>1 DEF ByOffset
  <2> QED
    BY <2>2, <2>3, <2>4, <2>5, <2>6 DEF ByOffset, A
<1>6. Undisturbed(v)
  <2>1. v.quiet => v.began = B!Here
    BY <1>1 DEF Undisturbed
  <2>2. ASSUME v.quiet, ~v.tied
        PROVE  /\ B!Once(v.shown)
               /\ \A b : b \in B!ToSet(v.shown) <=> b \in B!Here /\ A(b) < v.from
    <3>1. B!Once(w.shown) /\ \A b : b \in B!ToSet(w.shown) <=> b \in B!Here /\ A(b) < w.from
      BY <1>1, <2>2 DEF Undisturbed, A
    <3> QED
      BY <1>3, <2>2, <3>1
  <2>3. ASSUME v.quiet, ~v.tied, v.at = "end" PROVE B!ToSet(v.shown) = v.began
    <3>1. \A b \in B!Here : A(b) < v.from
      <4>1. CASE w.list \in Offset
        <5>1. w.total = Cardinality(B!Here)
          BY <1>1, <2>3, <4>1 DEF ByOffset
        <5> QED
          BY <1>3, <2>3, <4>1, <5>1
      <4>2. CASE w.list \notin Offset
        BY <1>3, <2>3, <4>2
      <4> QED
        BY <4>1, <4>2
    <3> QED
      BY <2>1, <2>2, <2>3, <3>1
  <2> QED
    BY <2>1, <2>2, <2>3 DEF Undisturbed, A
<1>7. w.squeezed \in BOOLEAN /\ w.moved \in BOOLEAN /\ w.quiet \in BOOLEAN
  BY DEF Reading
<1> QED
  BY <1>2, <1>4, <1>5, <1>6, <1>7 DEF Reading, Offset

\* Everything at once.
LEMMA AllRead ==
  ASSUME NEW w, Reading(w), w.at = "page", w.list = "events", NEW o \in B!Orders("events", B!Here),
         NEW v, v = [w EXCEPT !.shown = @ \o o, !.at = "end"]
  PROVE  Reading(v)
<1>1. /\ o \in Seq(B!Here) /\ B!Once(o) /\ \A i \in 1..Len(o) : o[i] \in B!Here
      /\ \A x \in B!Here : \E i \in 1..Len(o) : x = o[i]
  BY HereFinite, OrdersAreOrders
<1>2. o \in Seq(Rows)
  BY <1>1, HereFinite, SeqWidens
<1>3. B!ToSet(o) = B!Here
  BY <1>1, <1>2 DEF B!ToSet
<1>4. w.shown = << >> /\ (w.quiet => w.began = B!Here)
  BY DEF Reading, AtOnce
<1>5. v.shown = o
  BY <1>2, <1>4 DEF Reading, Fields
<1>6. /\ Fields \subseteq DOMAIN v /\ v.list = "events" /\ v.at = "end" /\ v.from = w.from
      /\ v.began = w.began /\ v.moved = w.moved /\ v.tied = w.tied /\ v.quiet = w.quiet
      /\ v.squeezed = w.squeezed
  BY DEF Reading, Fields
<1>7. AtOnce(v)
  BY <1>1, <1>3, <1>4, <1>5, <1>6 DEF AtOnce
<1> QED
  BY <1>2, <1>5, <1>6, <1>7 DEF Reading, Offset

LEMMA WalkingInit ==
  B!Init => Walking
BY DEF B!Init, Walking

\* One client reads on.
LEMMA OneReads ==
  ASSUME Walking, rows' = rows, NEW c \in Clients, NEW v, v = None \/ Reading(v),
         walk' = [walk EXCEPT ![c] = v]
  PROVE  Walking'
<1>1. walk' = [d \in Clients |-> walk'[d]] /\ walk'[c] = v /\ \A d \in Clients : d # c => walk'[d] = walk[d]
  BY DEF Walking
<1>2. ASSUME NEW d \in Clients, walk'[d] # None PROVE Reading(walk[d])'
  <2>1. Reading(walk'[d])
    BY <1>1, <1>2 DEF Walking
  <2>2. \A w : Reading(w) => Reading(w)'
    BY ReadingKept
  <2> QED
    BY <2>1, <2>2
<1> QED
  BY <1>1, <1>2 DEF Walking

\* Nothing is said of what is shown of other lists.
LEMMA NotFollowed ==
  ASSUME NEW v, Fields \subseteq DOMAIN v, v.list \notin Followed, v.at \in {"count", "page", "end"},
         v.squeezed \in BOOLEAN, v.moved \in BOOLEAN, v.tied \in BOOLEAN, v.quiet \in BOOLEAN,
         v.from \in Nat
  PROVE  Reading(v)
BY DEF Reading, Followed, Offset

LEMMA WalkingStep ==
  Walking /\ [B!Next]_(B!vars) => Walking'
<1> SUFFICES ASSUME Walking, [B!Next]_(B!vars) PROVE Walking'
  OBVIOUS
<1>1. BrowsingTyped /\ \A c \in Clients : walk[c] # None => Reading(walk[c])
  BY TypedRows DEF Walking
<1>2. ASSUME NEW t \in Rows, NEW k \in B!Keys, B!Insert(t, k) PROVE Walking'
  <2>1. /\ rows' = [rows EXCEPT ![t] = k] /\ t \notin B!Here
        /\ walk' = [c \in Clients |->
             IF c \notin B!Open THEN walk[c]
             ELSE [walk[c] EXCEPT !.quiet = FALSE, !.squeezed = @ \/ walk[c].at = "page"]]
    BY <1>2 DEF B!Insert
  <2>2. /\ rows' \in [Rows -> B!Keys \cup {None}] /\ B!Here \subseteq B!Here'
        /\ \A x \in B!Here : rows'[x] = rows[x]
    BY <2>1 DEF Walking, B!Here
  <2>3. IsFiniteSet(B!Here')
    <3>1. B!Here' \subseteq Rows
      BY DEF B!Here
    <3>2. IsFiniteSet(Rows)
      BY BrowsingHolds DEF B!BrowsingAssumption, B!IsFiniteSet, IsFiniteSet
    <3> QED
      BY <3>1, <3>2, FS_Subset
  <2>4. ASSUME NEW d \in Clients, walk'[d] # None PROVE Reading(walk[d])'
    <3>1. CASE d \notin B!Open
      <4>1. walk'[d] = walk[d] /\ walk[d].at = "end"
        BY <2>1, <2>4, <3>1 DEF B!Open
      <4>2. \A w : Reading(w) /\ w.at = "end" => Reading(w)'
        BY EndedStays
      <4> QED
        BY <1>1, <2>4, <4>1, <4>2
    <3>2. CASE d \in B!Open
      <4>1. /\ walk[d] # None /\ walk[d].at # "end" /\ Reading(walk[d])
            /\ walk'[d] = [walk[d] EXCEPT !.quiet = FALSE, !.squeezed = @ \/ walk[d].at = "page"]
        BY <1>1, <2>1, <3>2 DEF B!Open
      <4>2. \A w, v : Reading(w) /\ w.at # "end"
                      /\ v = [w EXCEPT !.quiet = FALSE, !.squeezed = @ \/ w.at = "page"] => Reading(v)'
        BY <1>1, <2>2, <2>3, Inserted
      <4> QED
        BY <4>1, <4>2
    <3> QED
      BY <3>1, <3>2
  <2>5. walk' = [c \in Clients |-> walk'[c]]
    BY <2>1
  <2> QED
    BY <2>2, <2>4, <2>5 DEF Walking
<1>15. ASSUME rows' \in [Rows -> B!Keys \cup {None}], NEW W,
              \A c \in B!Open : /\ W[c] \subseteq walk[c].stay
                                /\ walk[c].list = "titles" => W[c] \subseteq B!Here',
              walk' = [c \in Clients |->
                IF c \notin B!Open THEN walk[c]
                ELSE [walk[c] EXCEPT !.quiet = FALSE, !.moved = TRUE, !.stay = W[c]]]
       PROVE  Walking'
  <2>1. ASSUME NEW d \in Clients, walk'[d] # None PROVE Reading(walk[d])'
    <3>1. CASE d \notin B!Open
      <4>1. walk'[d] = walk[d] /\ walk[d].at = "end"
        BY <1>15, <2>1, <3>1 DEF B!Open
      <4>2. \A w : Reading(w) /\ w.at = "end" => Reading(w)'
        BY EndedStays
      <4> QED
        BY <1>1, <2>1, <4>1, <4>2
    <3>2. CASE d \in B!Open
      <4>1. /\ walk[d] # None /\ walk[d].at # "end" /\ Reading(walk[d])
            /\ walk'[d] = [walk[d] EXCEPT !.quiet = FALSE, !.moved = TRUE, !.stay = W[d]]
            /\ W[d] \subseteq walk[d].stay /\ (walk[d].list = "titles" => W[d] \subseteq B!Here')
        BY <1>1, <1>15, <3>2 DEF B!Open
      <4>2. \A w, v, T : Reading(w) /\ w.at # "end" /\ T \subseteq w.stay
                         /\ (w.list = "titles" => T \subseteq B!Here')
                         /\ v = [w EXCEPT !.quiet = FALSE, !.moved = TRUE, !.stay = T] => Reading(v)'
        BY Removed
      <4> QED
        BY <4>1, <4>2
    <3> QED
      BY <3>1, <3>2
  <2>2. walk' = [c \in Clients |-> walk'[c]]
    BY <1>15
  <2> QED
    BY <1>15, <2>1, <2>2 DEF Walking
<1>16. \A c \in B!Open : "stay" \in DOMAIN walk[c] /\ (walk[c].list = "titles" => walk[c].stay \subseteq B!Here)
  BY <1>1 DEF B!Open, Reading, ByKeyset, Fields
<1>3. ASSUME NEW t \in Rows, B!Delete(t) PROVE Walking'
  <2> DEFINE W == [c \in B!Open |-> walk[c].stay \ {t}]
  <2>1. /\ rows' = [rows EXCEPT ![t] = None]
        /\ walk' = [c \in Clients |->
             IF c \notin B!Open THEN walk[c]
             ELSE [walk[c] EXCEPT !.quiet = FALSE, !.moved = TRUE, !.stay = @ \ {t}]]
    BY <1>3 DEF B!Delete
  <2>2. rows' \in [Rows -> B!Keys \cup {None}] /\ B!Here \ {t} \subseteq B!Here'
    BY <2>1 DEF Walking, B!Here
  <2>3. \A c \in B!Open : W[c] \subseteq walk[c].stay /\ (walk[c].list = "titles" => W[c] \subseteq B!Here')
    BY <1>16, <2>2
  <2>4. walk' = [c \in Clients |->
          IF c \notin B!Open THEN walk[c]
          ELSE [walk[c] EXCEPT !.quiet = FALSE, !.moved = TRUE, !.stay = W[c]]]
    BY <2>1
  <2> HIDE DEF W
  <2> QED
    BY <1>15, <2>2, <2>3, <2>4
<1>4. ASSUME NEW t \in Rows, NEW k \in B!Keys, B!Move(t, k) PROVE Walking'
  <2> DEFINE W == [c \in B!Open |-> walk[c].stay]
  <2>1. /\ rows' = [rows EXCEPT ![t] = k] /\ t \in B!Here
        /\ walk' = [c \in Clients |->
             IF c \notin B!Open THEN walk[c] ELSE [walk[c] EXCEPT !.quiet = FALSE, !.moved = TRUE]]
    BY <1>4 DEF B!Move
  <2>2. rows' \in [Rows -> B!Keys \cup {None}] /\ B!Here \subseteq B!Here'
    BY <2>1, BrowsingHolds DEF Walking, B!Here, B!BrowsingAssumption
  <2>3. \A c \in B!Open : W[c] \subseteq walk[c].stay /\ (walk[c].list = "titles" => W[c] \subseteq B!Here')
    BY <1>16, <2>2
  <2>4. \A c \in B!Open : [walk[c] EXCEPT !.quiet = FALSE, !.moved = TRUE]
                            = [walk[c] EXCEPT !.quiet = FALSE, !.moved = TRUE, !.stay = W[c]]
    BY <1>16
  <2>5. walk' = [c \in Clients |->
          IF c \notin B!Open THEN walk[c]
          ELSE [walk[c] EXCEPT !.quiet = FALSE, !.moved = TRUE, !.stay = W[c]]]
    BY <2>1, <2>4
  <2> HIDE DEF W
  <2> QED
    BY <1>15, <2>2, <2>3, <2>5
<1>5. ASSUME NEW c \in Clients, NEW l, B!Begin(c, l) PROVE Walking'
  <2>1. rows' = rows
    BY <1>5 DEF B!Begin
  <2> DEFINE at == IF l \in {"titles", "search", "search titles", "events", "pull"} THEN "page" ELSE "count"
             v == [list |-> l, at |-> at, from |-> 0, total |-> 0, last |-> 0, shown |-> << >>,
                   stay |-> B!Here, began |-> B!Here, squeezed |-> FALSE, moved |-> FALSE,
                   tied |-> FALSE, quiet |-> TRUE]
  <2>2. walk' = [walk EXCEPT ![c] = v]
    BY <1>5 DEF B!Begin
  <2>3. at \in {"count", "page"} /\ (l \in Offset => at = "count")
    BY DEF Offset
  <2>4. Reading(v)
    BY <1>1, <2>3, BeganFresh
  <2> HIDE DEF v
  <2> QED
    BY <2>1, <2>2, <2>4, OneReads
<1>6. ASSUME NEW c \in Clients, B!ListTitles(c) PROVE Walking'
  <2> DEFINE w == walk[c]
  <2>1. rows' = rows /\ w # None /\ w.at = "page" /\ w.list = "titles" /\ Reading(w)
    BY <1>1, <1>6 DEF B!ListTitles
  <2>2. PICK o \in B!Orders("titles", {t \in B!Here : t > w.last}) :
          walk' = [walk EXCEPT ![c] = [[w EXCEPT !.last = IF B!Page(o, 0) = << >> THEN @ ELSE B!Last(B!Page(o, 0))]
                    EXCEPT !.shown = @ \o B!Page(o, 0), !.at = IF Len(B!Page(o, 0)) < Limit THEN "end" ELSE "page"]]
    BY <1>6 DEF B!ListTitles, B!Show
  <2> DEFINE s == B!Page(o, 0)
             v == [w EXCEPT !.last = IF s = << >> THEN @ ELSE B!Last(s), !.shown = @ \o s,
                            !.at = IF Len(s) < Limit THEN "end" ELSE "page"]
  <2>3. walk' = [walk EXCEPT ![c] = v]
    BY <2>2
  <2>4. Reading(v)
    BY <1>1, <2>1, KeysetRead
  <2> HIDE DEF v
  <2> QED
    BY <2>1, <2>3, <2>4, OneReads
<1>7. ASSUME NEW c \in Clients, B!Count(c) PROVE Walking'
  <2> DEFINE w == walk[c]
             v == [w EXCEPT !.total = Cardinality(B!Here), !.at = "page"]
  <2>1. rows' = rows /\ w # None /\ w.at = "count" /\ Reading(w)
    BY <1>1, <1>7 DEF B!Count
  <2>2. walk' = [walk EXCEPT ![c] = v]
    BY <1>7, CardinalityIs DEF B!Count, Walking
  <2>3. Reading(v)
    BY <2>1, CountedIs
  <2> HIDE DEF v
  <2> QED
    BY <2>1, <2>2, <2>3, OneReads
<1>8. ASSUME NEW c \in Clients, NEW l \in Offset \cup {"genre"}, B!ListPage(c, l) PROVE Walking'
  <2> DEFINE w == walk[c]
  <2>1. rows' = rows /\ w # None /\ w.at = "page" /\ w.list = l /\ Reading(w)
    BY <1>1, <1>8 DEF B!ListPage
  <2>2. PICK o \in B!Orders(l, B!Here) :
          walk' = [walk EXCEPT ![c] =
            [[w EXCEPT !.from = @ + Limit, !.tied = @ \/ B!Ties]
               EXCEPT !.shown = @ \o B!Page(IF l = "genre" THEN B!Joined(o) ELSE o, w.from),
                      !.at = IF B!More(w) THEN "count" ELSE "end"]]
    BY <1>8 DEF B!ListPage, B!Show
  <2> DEFINE s == B!Page(IF l = "genre" THEN B!Joined(o) ELSE o, w.from)
             v == [[w EXCEPT !.from = @ + Limit, !.tied = @ \/ B!Ties]
                     EXCEPT !.shown = @ \o s, !.at = IF B!More(w) THEN "count" ELSE "end"]
  <2>3. Fields \subseteq DOMAIN w /\ w.from \in Nat /\ w.tied \in BOOLEAN /\ w.squeezed \in BOOLEAN
        /\ w.moved \in BOOLEAN /\ w.quiet \in BOOLEAN
    BY <2>1 DEF Reading
  <2>4. /\ Fields \subseteq DOMAIN v /\ v.list = l /\ v.from = w.from + Limit /\ v.shown = w.shown \o s
        /\ v.began = w.began /\ v.quiet = w.quiet /\ v.moved = w.moved /\ v.squeezed = w.squeezed
        /\ v.tied = (w.tied \/ B!Ties) /\ v.at = IF B!More(w) THEN "count" ELSE "end"
    BY <2>1, <2>3 DEF Fields
  <2>5. v.tied \in BOOLEAN /\ (~v.tied => ~w.tied /\ ~B!Ties)
    BY <2>3, <2>4
  <2>6. v.at \in {"count", "end"} /\ (v.at = "end" => ~(w.from + Limit < w.total))
    BY <2>4 DEF B!More
  <2>7. v.from \in Nat
    BY <2>3, <2>4, OffsetsGrow, Zenon
  <2> HIDE DEF v
  <2>8. Reading(v)
    <3>1. CASE l = "genre"
      BY <2>3, <2>4, <2>5, <2>6, <2>7, <3>1, NotFollowed DEF Followed, Offset
    <3>2. CASE l \in Offset
      <4>1. s = B!Page(o, w.from)
        BY <3>2 DEF Offset
      <4> HIDE DEF s
      <4> QED
        BY <1>1, <2>1, <2>2, <2>4, <2>5, <2>6, <3>2, <4>1, OffsetRead
    <3> QED
      BY <3>1, <3>2
  <2>9. walk' = [walk EXCEPT ![c] = v]
    BY <2>2 DEF v
  <2> QED
    BY <2>1, <2>8, <2>9, OneReads
<1>9. ASSUME NEW c \in Clients, B!ListEvents(c) PROVE Walking'
  <2> DEFINE w == walk[c]
  <2>1. rows' = rows /\ w # None /\ w.at = "page" /\ w.list = "events" /\ Reading(w)
    BY <1>1, <1>9 DEF B!ListEvents
  <2>2. PICK o \in B!Orders("events", B!Here) : walk' = [walk EXCEPT ![c] = [w EXCEPT !.shown = @ \o o, !.at = "end"]]
    BY <1>9 DEF B!ListEvents, B!Show
  <2> DEFINE v == [w EXCEPT !.shown = @ \o o, !.at = "end"]
  <2>3. Reading(v)
    BY <2>1, AllRead
  <2> HIDE DEF v
  <2>4. walk' = [walk EXCEPT ![c] = v]
    BY <2>2 DEF v
  <2> QED
    BY <2>1, <2>3, <2>4, OneReads
<1>10. ASSUME NEW c \in Clients, B!Search(c) PROVE Walking'
  <2> DEFINE w == walk[c]
  <2>1. rows' = rows /\ w # None /\ w.at = "page" /\ w.list \in {"search", "search titles"} /\ Reading(w)
    BY <1>1, <1>10 DEF B!Search
  <2> DEFINE Counted(o, s) == IF s = << >> THEN 0 ELSE Len(o)
             Read(o, s) ==
               [[w EXCEPT !.from = @ + Limit, !.total = Counted(o, s)]
                  EXCEPT !.shown = @ \o (IF w.list = "search" /\ w.from = 0 THEN B!WithOthers(s) ELSE s),
                         !.at = IF w.from + Limit < Counted(o, s) THEN "page" ELSE "end"]
  <2>2. PICK o \in B!Orders(w.list, B!Here) : walk' = [walk EXCEPT ![c] = Read(o, B!Page(o, w.from))]
    BY <1>10 DEF B!Search, B!Show
  <2> DEFINE s == B!Page(o, w.from)
             v == Read(o, s)
  <2>3. Fields \subseteq DOMAIN w /\ w.from \in Nat /\ w.tied \in BOOLEAN /\ w.squeezed \in BOOLEAN
        /\ w.moved \in BOOLEAN /\ w.quiet \in BOOLEAN
    BY <2>1 DEF Reading
  <2>4. /\ Fields \subseteq DOMAIN v /\ v.list = w.list /\ v.from = w.from + Limit
        /\ w.list = "search titles" => v.shown = w.shown \o s
        /\ v.began = w.began /\ v.quiet = w.quiet /\ v.moved = w.moved /\ v.squeezed = w.squeezed
        /\ v.tied = w.tied /\ v.at = IF w.from + Limit < Counted(o, s) THEN "page" ELSE "end"
    BY <2>1, <2>3 DEF Fields
  <2>5. v.at \in {"page", "end"} /\ (v.at = "end" => s = << >> \/ ~(w.from + Limit < Len(o)))
    <3> HIDE DEF v, s
    <3>1. CASE s = << >>
      BY <2>4, <3>1, Zenon
    <3>2. CASE s # << >>
      <4>1. Counted(o, s) = Len(o)
        BY <3>2
      <4> HIDE DEF Counted
      <4> QED
        BY <2>4, <4>1, Zenon
    <3> QED
      BY <3>1, <3>2
  <2>6. v.from \in Nat
    BY <2>3, <2>4, OffsetsGrow, Zenon
  <2> HIDE DEF v
  <2>7. Reading(v)
    <3>1. CASE w.list = "search"
      BY <2>3, <2>4, <2>5, <2>6, <3>1, NotFollowed DEF Followed, Offset
    <3>2. CASE w.list = "search titles"
      <4>1. s = B!Page(o, w.from) /\ w.list \notin Offset
        BY <3>2 DEF Offset
      <4> HIDE DEF s
      <4> QED
        BY <1>1, <2>1, <2>2, <2>3, <2>4, <2>5, <3>2, <4>1, OffsetRead
    <3> QED
      BY <2>1, <3>1, <3>2
  <2>8. walk' = [walk EXCEPT ![c] = v]
    BY <2>2 DEF v
  <2> QED
    BY <2>1, <2>7, <2>8, OneReads
<1>11. ASSUME NEW c \in Clients, B!Pull(c) PROVE Walking'
  <2> DEFINE w == walk[c]
  <2>1. rows' = rows /\ w # None /\ w.at = "page" /\ w.list = "pull" /\ Reading(w)
    BY <1>1, <1>11 DEF B!Pull
  <2>2. PICK o \in B!Orders("pull", B!Here) :
          walk' = [walk EXCEPT ![c] = [w EXCEPT !.shown = @ \o B!Page(o, 0), !.at = "end"]]
    BY <1>11 DEF B!Pull, B!Show
  <2> DEFINE v == [w EXCEPT !.shown = @ \o B!Page(o, 0), !.at = "end"]
  <2>3. /\ Fields \subseteq DOMAIN v /\ v.list = "pull" /\ v.from = w.from /\ v.at = "end"
        /\ v.quiet = w.quiet /\ v.moved = w.moved /\ v.squeezed = w.squeezed /\ v.tied = w.tied
    BY <2>1 DEF Reading, Fields
  <2>4. Reading(v)
    <3> HIDE DEF v
    <3>1. w.from \in Nat /\ w.tied \in BOOLEAN /\ w.squeezed \in BOOLEAN /\ w.moved \in BOOLEAN /\ w.quiet \in BOOLEAN
      BY <2>1 DEF Reading
    <3> QED
      BY <2>3, <3>1, NotFollowed DEF Followed, Offset
  <2>5. walk' = [walk EXCEPT ![c] = v]
    BY <2>2
  <2> HIDE DEF v
  <2> QED
    BY <2>1, <2>4, <2>5, OneReads
<1>12. ASSUME NEW c \in Clients, B!Close(c) PROVE Walking'
  BY <1>12, OneReads DEF B!Close
<1>13. CASE UNCHANGED B!vars
  <2>1. rows' = rows /\ walk' = walk
    BY <1>13 DEF B!vars
  <2>2. \A w : Reading(w) => Reading(w)'
    BY <2>1, ReadingKept
  <2> QED
    BY <2>1, <2>2 DEF Walking
<1>14. ASSUME NEW c \in Clients, B!ListCatalog(c) \/ B!ListHistory(c) \/ B!ListWatchlist(c) \/ B!ListLibrary(c)
       PROVE  Walking'
  BY <1>8, <1>14 DEF B!ListCatalog, B!ListHistory, B!ListWatchlist, B!ListLibrary, Offset
<1> QED
  BY <1>2, <1>3, <1>4, <1>5, <1>6, <1>7, <1>9, <1>10, <1>11, <1>12, <1>13, <1>14 DEF B!Next

-----------------------------------------------------------------------------
(* Theorems *)

\* One analytics page does not contradict itself: its trend shows for this month no
\* fewer events than its dashboard, though each is read by a query of its own and the
\* user logs films in between, as long as no event is deleted meanwhile.
THEOREM PagesConsistent == Spec => []PageConsistent
<1>1. PageInv => PageConsistent
  BY DEF PageInv
<1> QED
  BY <1>1, PageInit, PageStep, PTL DEF Spec

\* Leaderboard, recap and dashboard count the same events and order users alike, for
\* any number of friends and events: what percentile and rank are computed from.
THEOREM BoardsAlwaysAgree == Spec => []BoardsAgree
<1>1. PageInv => BoardsAgree
  BY BoardsSound DEF PageInv
<1> QED
  BY <1>1, PageInit, PageStep, PTL DEF Spec

\* A comparison of two friends has one score, one tier and the same genres in the
\* same order of weight, whoever of them asks.
THEOREM ComparisonsMirrored == Spec => []Mirrored
<1>1. PageInv => Mirrored
  BY ComparisonSymmetric DEF PageInv
<1> QED
  BY <1>1, PageInit, PageStep, PTL DEF Spec

\* Nothing that was finished before a request began, and has been ever since, is
\* recommended by it, in any mode and for any catalogue, however its SELECTs and the
\* user's edits interleave.
THEOREM NothingFinished == D!Spec => []FinishedLeftOut
<1>1. Leaving => FinishedLeftOut
  BY DEF Leaving
<1> QED
  BY <1>1, LeavingInit, LeavingStep, PTL DEF D!Spec

\* A better rating of a title, or making it a favourite, lowers the score of no title,
\* and dropping one raises none: in every mode, under any filters and with any seed,
\* for any catalogue whose genres, directors and actors overlap as they may.
THEOREM TasteIsMonotone == D!Spec => []TasteMonotone
BY AskingInit, AskingStep, AskingTastes, PTL DEF D!Spec

\* A title that the archive only plans is not watched, completed or put into the
\* library by its import: for any titles, days and tables, whenever the archive was
\* read, whatever account it is imported into and however the user went on meanwhile.
THEOREM PlannedStayPlanned == P!Spec => PlannedNotWatched
<1>1. Moving /\ [P!Next]_(P!vars) =>
        [P!Restores => \A t \in file.doc.watchlist \ P!Elsewhere(file.doc) :
           /\ \A e \in P!Viewing : e.title = t => account'.watch_history[e] = account.watch_history[e]
           /\ account'.states[t].status = "COMPLETED" => account.states[t].status = "COMPLETED"
           /\ t \in account'.library => t \in account.library]_(P!vars)
  BY PlannedStep
<1> QED
  BY <1>1, MovingInit, MovingStep, PTL DEF P!Spec, PlannedNotWatched, P!PlannedNotWatched

\* Each day of an archive's history is in the account after its import, as often as it
\* was there or else as the archive has it, for any history, however often the archive
\* is imported: no watch event is lost on the way out and back or made twice.
THEOREM HistorySurvives == P!Spec => HistoryMoves
<1>1. Moving /\ [P!Next]_(P!vars) =>
        [P!Restores => \A t \in Works, d \in Past :
           LET had == P!Count(account.watch_history, t, d)
           IN P!Count(account'.watch_history, t, d) =
                IF had > 0 THEN had ELSE P!Count(file.doc.watch_history, t, d)]_(P!vars)
  BY HistoryStep
<1> QED
  BY <1>1, MovingInit, MovingStep, PTL DEF P!Spec, HistoryMoves, P!HistoryMoves

\* A walk through the pages of a list ends with each row that was there all the time
\* shown: the titles exactly once, whatever is ingested meanwhile; the offset pages
\* unless a row was removed, sorted anew, counted too early or tied; and every list
\* exactly if nothing changed.  For any number of rows, clients and page size.
THEOREM ListsAreComplete == B!Spec => []ListsComplete
<1>1. Walking => ListsComplete
  BY DEF Walking, Reading, ByKeyset, ByOffset, Undisturbed, AtOnce, Offset, Followed,
     ListsComplete, B!ListsComplete, B!Ended
<1> QED
  BY <1>1, WalkingInit, WalkingStep, PTL DEF B!Spec
=============================================================================
