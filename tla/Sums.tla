--------------------------------- MODULE Sums ---------------------------------
(* Facts about sums over finite sets.  MapThenSumSet is a recursive function   *)
(* that picks the summands in an order of its own, so what it computes is      *)
(* proved by induction on the set: of the subsets a fact fails for, one has no *)
(* smaller one (WFMin).                                                        *)
EXTENDS Integers, FiniteSetsExt, FiniteSetTheorems, TLAPS

\* The sum of g[x] for the members x of S.
Sum(g, S) == MapThenSumSet(LAMBDA x : g[x], S)

-----------------------------------------------------------------------------
(* The recursion.                                                              *)

Pick(s) == CHOOSE x \in s : TRUE

\* One step of the recursion, and the function that obeys it below T.
Unfold(g, f, s) == IF s = {} THEN 0 ELSE g[Pick(s)] + f[s \ {Pick(s)}]
SumsBelow(g, f, T) == f = [s \in SUBSET T |-> Unfold(g, f, s)]

LEMMA PickIsMember ==
    ASSUME NEW s, s # {}
    PROVE  Pick(s) \in s
BY DEF Pick

\* Of the subsets in B, one is such that no smaller one is in B.
LEMMA Smallest ==
    ASSUME NEW T, IsFiniteSet(T), NEW B, B \subseteq SUBSET T, B # {}
    PROVE  \E m \in B : \A s \in SUBSET m : s # m => s \notin B
<1>1. IsWellFoundedOn(StrictSubsetOrdering(T), SUBSET T)
  BY FS_StrictSubsetOrderingWellFounded, FS_FiniteSubsetsOfFinite
<1>2. PICK m \in B : \A s \in B : <<s, m>> \notin StrictSubsetOrdering(T)
  BY <1>1, WFMin
<1>3. ASSUME NEW s \in SUBSET m, s # m, s \in B PROVE FALSE
  <2>1. <<s, m>> \in (SUBSET T) \X (SUBSET T)
    BY <1>3
  <2>2. <<s, m>> \in StrictSubsetOrdering(T)
    BY <1>3, <2>1 DEF StrictSubsetOrdering
  <2>3. QED
    BY <1>2, <1>3, <2>2
<1>4. QED
  BY <1>2, <1>3

\* Two functions that obey the recursion agree where both are defined.
LEMMA SumsAgree ==
    ASSUME NEW g, NEW U, NEW V, IsFiniteSet(U),
           NEW a, SumsBelow(g, a, U), NEW b, SumsBelow(g, b, V)
    PROVE  \A s \in (SUBSET U) \cap (SUBSET V) : a[s] = b[s]
<1> DEFINE B == {s \in (SUBSET U) \cap (SUBSET V) : a[s] # b[s]}
<1>1. SUFFICES ASSUME B # {} PROVE FALSE
  OBVIOUS
<1>2. B \subseteq SUBSET U
  OBVIOUS
<1> HIDE DEF B
<1>3. PICK m \in B : \A s \in SUBSET m : s # m => s \notin B
  BY <1>1, <1>2, Smallest
<1>4. m \in SUBSET U /\ m \in SUBSET V /\ a[m] # b[m]
  BY <1>3 DEF B
<1>5. a[m] = Unfold(g, a, m) /\ b[m] = Unfold(g, b, m)
  BY <1>4 DEF SumsBelow
<1>6. m # {}
  BY <1>4, <1>5 DEF Unfold
<1>7. a[m \ {Pick(m)}] = b[m \ {Pick(m)}]
  <2>1. m \ {Pick(m)} \in SUBSET m /\ m \ {Pick(m)} # m
    BY <1>6, PickIsMember
  <2>2. m \ {Pick(m)} \notin B
    BY <1>3, <2>1
  <2>3. QED
    BY <1>4, <2>2 DEF B
<1>8. QED
  BY <1>4, <1>5, <1>6, <1>7 DEF Unfold

\* A function that obeys the recursion exists.
LEMMA SumsExist ==
    ASSUME NEW g, NEW T, IsFiniteSet(T)
    PROVE  \E f : SumsBelow(g, f, T)
<1> DEFINE B == {s \in SUBSET T : ~ \E f : SumsBelow(g, f, s)}
<1>1. SUFFICES ASSUME B # {} PROVE FALSE
  OBVIOUS
<1>2. B \subseteq SUBSET T
  OBVIOUS
<1>3. PICK m \in B : \A s \in SUBSET m : s # m => s \notin B
  <2> HIDE DEF B
  <2>1. QED
    BY <1>1, <1>2, Smallest
<1>4. IsFiniteSet(m) /\ ~ \E f : SumsBelow(g, f, m)
  BY <1>3, FS_Subset
<1> DEFINE sums(x) == CHOOSE f : SumsBelow(g, f, m \ {x})
           without(s) == CHOOSE x : x \in m /\ x \notin s
           value(s) == sums(without(s))[s]
           whole == [s \in SUBSET m |->
                        IF s = m THEN Unfold(g, sums(Pick(m)), m) ELSE value(s)]
<1>5. ASSUME NEW x \in m PROVE SumsBelow(g, sums(x), m \ {x}) /\ IsFiniteSet(m \ {x})
  <2>1. m \ {x} \in SUBSET m /\ m \ {x} # m /\ m \ {x} \in SUBSET T
    BY <1>2, <1>3
  <2>2. \E f : SumsBelow(g, f, m \ {x})
    BY <1>3, <2>1
  <2>3. SumsBelow(g, sums(x), m \ {x})
    BY <2>2
  <2>4. QED
    BY <1>4, <2>3, FS_RemoveElement
<1>6. ASSUME NEW s \in SUBSET m, s # m PROVE without(s) \in m /\ without(s) \notin s
  <2>1. \E x : x \in m /\ x \notin s
    BY <1>6
  <2>2. QED
    BY <2>1
<1> HIDE DEF B, sums, without
<1>7. ASSUME NEW s \in SUBSET m, NEW x \in m, x \notin s PROVE whole[s] = sums(x)[s]
  <2>1. s # m /\ without(s) \in m /\ without(s) \notin s
    BY <1>6, <1>7
  <2>2. whole[s] = sums(without(s))[s]
    BY <2>1
  <2>3. s \in SUBSET (m \ {x}) /\ s \in SUBSET (m \ {without(s)})
    BY <1>7, <2>1
  <2> DEFINE y == without(s)
  <2>4. y \in m
    BY <2>1
  <2> HIDE DEF whole, y
  <2>5. /\ SumsBelow(g, sums(x), m \ {x}) /\ IsFiniteSet(m \ {x})
        /\ SumsBelow(g, sums(y), m \ {y})
    BY <1>5, <2>4
  <2>6. s \in (SUBSET (m \ {x})) \cap (SUBSET (m \ {y}))
    BY <2>3 DEF y
  <2>7. sums(x)[s] = sums(y)[s]
    BY <2>5, <2>6, SumsAgree
  <2>8. QED
    BY <2>2, <2>7 DEF y
<1>8. ASSUME NEW s \in SUBSET m PROVE whole[s] = Unfold(g, whole, s)
  <2>1. CASE s = m
    <3>1. whole[m] = Unfold(g, sums(Pick(m)), m)
      OBVIOUS
    <3> HIDE DEF whole
    <3>2. CASE m = {}
      BY <2>1, <3>1, <3>2 DEF Unfold
    <3>3. CASE m # {}
      <4>1. Pick(m) \in m /\ m \ {Pick(m)} \in SUBSET m /\ Pick(m) \notin m \ {Pick(m)}
        BY <3>3, PickIsMember
      <4>2. whole[m \ {Pick(m)}] = sums(Pick(m))[m \ {Pick(m)}]
        BY <1>7, <4>1
      <4>3. QED
        BY <2>1, <3>1, <3>3, <4>2 DEF Unfold
    <3>4. QED
      BY <3>2, <3>3
  <2>2. CASE s # m
    <3> HIDE DEF whole
    <3>1. PICK x \in m : x \notin s
      BY <2>2
    <3>2. whole[s] = sums(x)[s] /\ s \in SUBSET (m \ {x})
      BY <1>7, <3>1
    <3>3. sums(x)[s] = Unfold(g, sums(x), s)
      BY <1>5, <3>2 DEF SumsBelow
    <3>4. CASE s = {}
      BY <3>2, <3>3, <3>4 DEF Unfold
    <3>5. CASE s # {}
      <4>1. s \ {Pick(s)} \in SUBSET m /\ x \notin s \ {Pick(s)}
        BY <3>1
      <4>2. whole[s \ {Pick(s)}] = sums(x)[s \ {Pick(s)}]
        BY <1>7, <4>1
      <4>3. QED
        BY <3>2, <3>3, <3>5, <4>2 DEF Unfold
    <3>6. QED
      BY <3>4, <3>5
  <2>3. QED
    BY <2>1, <2>2
<1>9. whole = [s \in SUBSET m |-> whole[s]]
  OBVIOUS
<1> HIDE DEF whole
<1>10. SumsBelow(g, whole, m)
  BY <1>8, <1>9 DEF SumsBelow
<1>11. QED
  BY <1>4, <1>10

\* What MapThenSumSet picks is a function that obeys the recursion.
LEMMA SumIsSum ==
    ASSUME NEW g, NEW S, IsFiniteSet(S)
    PROVE  \E f : SumsBelow(g, f, S) /\ Sum(g, S) = f[S]
<1> DEFINE f == CHOOSE h : SumsBelow(g, h, S)
<1>1. SumsBelow(g, f, S)
  BY SumsExist
<1>2. Sum(g, S) = f[S]
  BY DEF Sum, MapThenSumSet, MapThenFoldSet, SumsBelow, Unfold, Pick
<1> HIDE DEF f
<1>3. QED
  BY <1>1, <1>2

\* The recursion, for the sum itself.
LEMMA SumUnfolds ==
    ASSUME NEW g, NEW S, IsFiniteSet(S), S # {}
    PROVE  Sum(g, S) = g[Pick(S)] + Sum(g, S \ {Pick(S)})
<1> DEFINE T == S \ {Pick(S)}
<1>1. Pick(S) \in S /\ IsFiniteSet(T)
  BY PickIsMember, FS_RemoveElement
<1>2. PICK f : SumsBelow(g, f, S) /\ Sum(g, S) = f[S]
  BY SumIsSum
<1>3. PICK h : SumsBelow(g, h, T) /\ Sum(g, T) = h[T]
  BY <1>1, SumIsSum
<1>4. T \in (SUBSET S) \cap (SUBSET T)
  OBVIOUS
<1>5. f[T] = h[T]
  BY <1>2, <1>3, <1>4, SumsAgree
<1>6. f[S] = Unfold(g, f, S)
  BY <1>2 DEF SumsBelow
<1>7. QED
  BY <1>2, <1>3, <1>5, <1>6 DEF Unfold

-----------------------------------------------------------------------------
(* What a sum is.                                                              *)

\* The sum of nothing.
LEMMA SumOfNone == ASSUME NEW g PROVE Sum(g, {}) = 0
<1>1. PICK f : SumsBelow(g, f, {}) /\ Sum(g, {}) = f[{}]
  BY FS_EmptySet, SumIsSum
<1>2. f[{}] = Unfold(g, f, {})
  BY <1>1 DEF SumsBelow
<1>3. QED
  BY <1>1, <1>2 DEF Unfold

\* A sum is typed, and any one summand may be taken out of it.
LEMMA SumSplits ==
    ASSUME NEW S, IsFiniteSet(S), NEW g, \A x \in S : g[x] \in Int
    PROVE  /\ Sum(g, S) \in Int
           /\ \A x \in S : Sum(g, S) = g[x] + Sum(g, S \ {x})
<1> DEFINE Splits(s) == /\ Sum(g, s) \in Int
                       /\ \A x \in s : Sum(g, s) = g[x] + Sum(g, s \ {x})
           B == {s \in SUBSET S : ~Splits(s)}
<1>1. SUFFICES ASSUME B # {} PROVE FALSE
  OBVIOUS
<1>2. B \subseteq SUBSET S
  OBVIOUS
<1>3. PICK m \in B : \A s \in SUBSET m : s # m => s \notin B
  <2> HIDE DEF B
  <2>1. QED
    BY <1>1, <1>2, Smallest
<1>4. m \in SUBSET S /\ ~Splits(m)
  BY <1>3
<1>5. \A s \in SUBSET m : s # m => Splits(s)
  BY <1>3, <1>4
<1>6. IsFiniteSet(m) /\ \A x \in m : g[x] \in Int
  BY <1>4, FS_Subset
<1> HIDE DEF B
<1>7. m # {}
  BY <1>4, SumOfNone
<1> DEFINE p == Pick(m)
<1>8. p \in m
  BY <1>7, PickIsMember
<1>9. Sum(g, m) = g[p] + Sum(g, m \ {p})
  BY <1>6, <1>7, SumUnfolds
<1> HIDE DEF p
<1>10. Sum(g, m \ {p}) \in Int
  <2>1. m \ {p} \in SUBSET m /\ m \ {p} # m
    BY <1>8
  <2>2. QED
    BY <1>5, <2>1
<1>11. ASSUME NEW x \in m PROVE Sum(g, m) = g[x] + Sum(g, m \ {x})
  <2>1. CASE x = p
    BY <1>9, <2>1
  <2>2. CASE x # p
    <3>1. /\ m \ {p} \in SUBSET m /\ m \ {p} # m /\ x \in m \ {p}
          /\ m \ {x} \in SUBSET m /\ m \ {x} # m /\ p \in m \ {x}
          /\ (m \ {p}) \ {x} \in SUBSET m /\ (m \ {p}) \ {x} # m
      BY <1>8, <1>11, <2>2
    <3>2. (m \ {p}) \ {x} = (m \ {x}) \ {p}
      OBVIOUS
    <3>3. Splits(m \ {p}) /\ Splits(m \ {x}) /\ Splits((m \ {p}) \ {x})
      BY <1>5, <3>1
    <3>4. /\ Sum(g, m \ {p}) = g[x] + Sum(g, (m \ {p}) \ {x})
          /\ Sum(g, m \ {x}) = g[p] + Sum(g, (m \ {p}) \ {x})
          /\ Sum(g, (m \ {p}) \ {x}) \in Int
      BY <3>1, <3>2, <3>3
    <3>5. g[x] \in Int /\ g[p] \in Int
      BY <1>6, <1>8, <1>11
    <3>6. QED
      BY <1>9, <3>4, <3>5
  <2>3. QED
    BY <2>1, <2>2
<1>12. Splits(m)
  BY <1>6, <1>8, <1>9, <1>10, <1>11
<1>13. QED
  BY <1>4, <1>12

\* One summand more.
LEMMA SumGrows ==
    ASSUME NEW S, IsFiniteSet(S), NEW x, x \notin S, NEW g, \A y \in S \cup {x} : g[y] \in Int
    PROVE  Sum(g, S \cup {x}) = Sum(g, S) + g[x]
<1>1. IsFiniteSet(S \cup {x})
  BY FS_AddElement
<1>2. Sum(g, S \cup {x}) = g[x] + Sum(g, (S \cup {x}) \ {x})
  BY <1>1, SumSplits
<1>3. (S \cup {x}) \ {x} = S
  OBVIOUS
<1>4. Sum(g, (S \cup {x}) \ {x}) = Sum(g, S)
  BY <1>3
<1>5. Sum(g, S) \in Int /\ g[x] \in Int
  BY SumSplits
<1>6. QED
  BY <1>2, <1>4, <1>5

\* Only the summands count.
LEMMA SumDepends ==
    ASSUME NEW S, IsFiniteSet(S), NEW g, NEW h, \A x \in S : g[x] = h[x]
    PROVE  Sum(g, S) = Sum(h, S)
<1> DEFINE B == {s \in SUBSET S : Sum(g, s) # Sum(h, s)}
<1>1. SUFFICES ASSUME B # {} PROVE FALSE
  OBVIOUS
<1>2. B \subseteq SUBSET S
  OBVIOUS
<1>3. PICK m \in B : \A s \in SUBSET m : s # m => s \notin B
  <2> HIDE DEF B
  <2>1. QED
    BY <1>1, <1>2, Smallest
<1>4. m \in SUBSET S /\ Sum(g, m) # Sum(h, m)
  BY <1>3
<1>5. m # {} /\ IsFiniteSet(m)
  BY <1>4, SumOfNone, FS_Subset
<1>6. Pick(m) \in m /\ m \ {Pick(m)} \in SUBSET m /\ m \ {Pick(m)} # m
  BY <1>5, PickIsMember
<1>7. Sum(g, m \ {Pick(m)}) = Sum(h, m \ {Pick(m)}) /\ g[Pick(m)] = h[Pick(m)]
  BY <1>3, <1>4, <1>6
<1>8. QED
  BY <1>4, <1>5, <1>7, SumUnfolds

\* One summand changes.
LEMMA SumMoves ==
    ASSUME NEW S, IsFiniteSet(S), NEW x \in S,
           NEW g, \A y \in S : g[y] \in Int,
           NEW h, \A y \in S : h[y] \in Int,
           \A y \in S \ {x} : g[y] = h[y]
    PROVE  Sum(h, S) = Sum(g, S) - g[x] + h[x]
<1>1. IsFiniteSet(S \ {x})
  BY FS_RemoveElement
<1>2. Sum(g, S \ {x}) = Sum(h, S \ {x}) /\ Sum(g, S \ {x}) \in Int
  BY <1>1, SumDepends, SumSplits
<1>3. /\ Sum(g, S) = g[x] + Sum(g, S \ {x})
      /\ Sum(h, S) = h[x] + Sum(h, S \ {x})
  BY SumSplits
<1>4. QED
  BY <1>2, <1>3

\* A sum of nothing but zeros.
LEMMA SumOfZeros ==
    ASSUME NEW S, IsFiniteSet(S), NEW g, \A x \in S : g[x] = 0
    PROVE  Sum(g, S) = 0
<1> DEFINE B == {s \in SUBSET S : Sum(g, s) # 0}
<1>1. SUFFICES ASSUME B # {} PROVE FALSE
  OBVIOUS
<1>2. B \subseteq SUBSET S
  OBVIOUS
<1>3. PICK m \in B : \A s \in SUBSET m : s # m => s \notin B
  <2> HIDE DEF B
  <2>1. QED
    BY <1>1, <1>2, Smallest
<1>4. m \in SUBSET S /\ Sum(g, m) # 0
  BY <1>3
<1>5. m # {} /\ IsFiniteSet(m)
  BY <1>4, SumOfNone, FS_Subset
<1>6. Pick(m) \in m /\ m \ {Pick(m)} \in SUBSET m /\ m \ {Pick(m)} # m
  BY <1>5, PickIsMember
<1>7. Sum(g, m \ {Pick(m)}) = 0 /\ g[Pick(m)] = 0
  BY <1>3, <1>4, <1>6
<1>8. QED
  BY <1>4, <1>5, <1>7, SumUnfolds
=============================================================================
