---------------------- MODULE PriceTimePriorityProofs ------------------------
(***************************************************************************)
(* Price-time priority, whoever keeps the book: sums of quantities, the    *)
(* order in which the makers of a request are taken, and what one fill of  *)
(* a matching loop leaves for the ones after it.  Induction over a number  *)
(* or a finite set is a least counterexample, taken with LeastNat.         *)
(***************************************************************************)
EXTENDS PriceTimePriority, FiniteSetTheorems, SequenceTheorems, WellFoundedInduction, TLAPS

\* A nonempty set of natural numbers has a least element: the intervals up to
\* its members are finite sets, and inclusion is well-founded on those.
LEMMA LeastNat ==
    ASSUME NEW S \in SUBSET Nat, S # {}
    PROVE  \E x \in S : \A y \in S : x <= y
<1> DEFINE T == {0 .. x : x \in S}
<1>1. T \subseteq FiniteSubsetsOf(Nat) /\ T # {}
  <2>1. \A x \in S : 0 .. x \in SUBSET Nat /\ IsFiniteSet(0 .. x) BY FS_Interval
  <2> QED BY <2>1 DEF FiniteSubsetsOf
<1> HIDE DEF T
<1>2. \E t \in T : \A u \in T : <<u, t>> \notin StrictSubsetOrdering(Nat)
  BY <1>1, FS_StrictSubsetOrderingWellFounded, WFMin
<1> USE DEF T
<1>3. PICK x \in S : \A u \in T : <<u, 0 .. x>> \notin StrictSubsetOrdering(Nat)
  BY <1>2
<1>4. ASSUME NEW y \in S, y < x PROVE FALSE
  <2>1. <<0 .. y, 0 .. x>> \notin StrictSubsetOrdering(Nat) BY <1>3
  <2>2. (0 .. y) \subseteq (0 .. x) /\ x \in 0 .. x /\ x \notin 0 .. y BY <1>4
  <2>3. 0 .. y \in SUBSET Nat /\ 0 .. x \in SUBSET Nat OBVIOUS
  <2>4. (0 .. y) # (0 .. x) BY <2>2
  <2> QED BY <2>1, <2>2, <2>3, <2>4, Zenon DEF StrictSubsetOrdering
<1> QED BY <1>4

\* Min and Max, with which the scans for the next level are modelled, exist.
LEMMA MinOfNats ==
    ASSUME NEW S \in SUBSET Nat, S # {}
    PROVE  Min(S) \in S /\ \A y \in S : Min(S) <= y
BY LeastNat DEF Min

\* See MinOfNats.
LEMMA MaxOfNats ==
    ASSUME NEW n \in Nat, NEW S \in SUBSET (0 .. n), S # {}
    PROVE  Max(S) \in S /\ \A y \in S : y <= Max(S)
<1> DEFINE T == {n - x : x \in S}
<1>1. T \in SUBSET Nat  BY \A x \in S : n - x \in Nat
<1>2. T # {} OBVIOUS
<1>3. \E t \in T : \A y \in T : t <= y BY <1>1, <1>2, LeastNat
<1>4. PICK t \in T : \A y \in T : t <= y BY <1>3
<1>5. PICK m \in S : t = n - m OBVIOUS
<1>6. \A y \in S : y <= m 
  <2> TAKE y \in S
  <2>1. t <= n - y BY <1>4
  <2> QED BY <2>1, <1>5
<1> QED BY <1>6 DEF Max
\* Two numbers have the smaller one for a minimum.
LEMMA MinOfTwo ==
    ASSUME NEW x \in Nat, NEW y \in Nat
    PROVE  Min({x, y}) = IF x <= y THEN x ELSE y
<1> DEFINE T == {x, y}
<1>1. T \in SUBSET Nat /\ T # {} OBVIOUS
<1>2. Min(T) \in T /\ \A z \in T : Min(T) <= z BY <1>1, MinOfNats
<1>3. Min(T) <= x /\ Min(T) <= y /\ (Min(T) = x \/ Min(T) = y) BY <1>2
<1> QED BY <1>3
------------------------------------------------------------------------------
(* Sums *)

Picked(s) == CHOOSE x \in s : TRUE

\* What the fold is for a set s, from what it is for smaller ones.
SumStep(iter, f, s) == IF s = {} THEN 0 ELSE f[Picked(s)] + iter[s \ {Picked(s)}]

IsSum(iter, f, S) == iter = [s \in SUBSET S |-> SumStep(iter, f, s)]

\* The subsets of S with up to n elements.
UpTo(S, n) == {s \in SUBSET S : Cardinality(s) <= n}

\* A subset of a finite set is finite and has its first element removed to a
\* smaller one.
LEMMA Smaller ==
    ASSUME NEW S, IsFiniteSet(S), NEW s \in SUBSET S
    PROVE  /\ IsFiniteSet(s) /\ Cardinality(s) \in Nat /\ Cardinality(s) <= Cardinality(S)
           /\ Cardinality(s) = 0 <=> s = {}
           /\ s # {} => Picked(s) \in s
           /\ \A x \in s : Cardinality(s \ {x}) = Cardinality(s) - 1
<1>1. IsFiniteSet(s) /\ Cardinality(s) <= Cardinality(S) BY FS_Subset
<1>2. Cardinality(s) \in Nat BY <1>1, FS_CardinalityType
<1>3. Cardinality(s) = 0 <=> s = {} BY <1>1, FS_EmptySet
<1>4. s # {} => Picked(s) \in s BY DEF Picked
<1>5. \A x \in s : Cardinality(s \ {x}) = Cardinality(s) - 1 BY <1>1, FS_RemoveElement
<1> QED BY <1>1, <1>2, <1>3, <1>4, <1>5

\* The recursion of the fold describes a function.
LEMMA SumExists ==
    ASSUME NEW S, IsFiniteSet(S), NEW f
    PROVE  \E iter : IsSum(iter, f, S)
<1> DEFINE Upto(iter, n) == iter = [s \in UpTo(S, n) |-> SumStep(iter, f, s)]
           Missing == {n \in Nat : ~\E iter : Upto(iter, n)}
<1>1. Missing = {}
  <2> SUFFICES ASSUME Missing # {} PROVE FALSE OBVIOUS
  <2>1. Missing \in SUBSET Nat OBVIOUS
  <2>2. PICK n \in Missing : \A m \in Missing : n <= m BY <2>1, LeastNat
  <2>3. n # 0
    <3> DEFINE g == [s \in UpTo(S, 0) |-> 0]
    <3>1. ASSUME NEW s \in UpTo(S, 0) PROVE SumStep(g, f, s) = 0
      <4>1. s \in SUBSET S /\ Cardinality(s) <= 0 BY DEF UpTo
      <4>2. s = {} BY <4>1, Smaller
      <4> QED BY <4>2 DEF SumStep
    <3>2. Upto(g, 0) BY <3>1
    <3> QED BY <3>2
  <2>4. n - 1 \in Nat /\ n - 1 \notin Missing BY <2>2, <2>3
  <2>5. PICK g : Upto(g, n - 1) BY <2>4
  <2> DEFINE h == [s \in UpTo(S, n) |-> SumStep(g, f, s)]
  <2>6. ASSUME NEW s \in UpTo(S, n) PROVE h[s] = SumStep(h, f, s)
    <3>1. s \in SUBSET S /\ Cardinality(s) <= n BY DEF UpTo
    <3>2. h[s] = SumStep(g, f, s) OBVIOUS
    <3> DEFINE r == s \ {Picked(s)}
    <3>3. CASE s = {} BY <3>2, <3>3 DEF SumStep
    <3>4. CASE s # {}
      <4>1. r \in SUBSET S /\ Cardinality(r) = Cardinality(s) - 1 /\ Cardinality(s) \in Nat
        BY <3>1, <3>4, Smaller
      <4>2. r \in UpTo(S, n - 1) /\ r \in UpTo(S, n) BY <4>1, <3>1, <2>4 DEF UpTo
      <4> HIDE DEF r
      <4>3. g[r] = SumStep(g, f, r) BY <2>5, <4>2
      <4>4. h[r] = SumStep(g, f, r) BY <4>2
      <4> HIDE DEF h
      <4>5. g[r] = h[r] BY <4>3, <4>4
      <4> QED BY <3>2, <3>4, <4>5 DEF SumStep, r
    <3> QED BY <3>3, <3>4
  <2> DEFINE k == [s \in UpTo(S, n) |-> SumStep(h, f, s)]
  <2>7. h = k BY <2>6
  <2>8. Upto(h, n) BY <2>7
  <2> QED BY <2>8, <2>2
<1>2. Cardinality(S) \in Nat BY FS_CardinalityType
<1>3. PICK iter : Upto(iter, Cardinality(S)) BY <1>1, <1>2
<1>4. UpTo(S, Cardinality(S)) = SUBSET S BY Smaller DEF UpTo
<1>5. IsSum(iter, f, S) BY <1>3, <1>4 DEF IsSum
<1> QED BY <1>5

\* ... and only one, whichever set it is taken for and wherever f is the same.
LEMMA SumUnique ==
    ASSUME NEW S, IsFiniteSet(S), NEW T, IsFiniteSet(T), NEW f, NEW g, NEW i, NEW j,
           IsSum(i, f, S), IsSum(j, g, T), NEW u \in SUBSET S, u \in SUBSET T,
           \A x \in u : f[x] = g[x]
    PROVE  i[u] = j[u]
<1> DEFINE Differ == {n \in Nat : \E s \in SUBSET u : Cardinality(s) = n /\ i[s] # j[s]}
<1>1. Differ = {}
  <2> SUFFICES ASSUME Differ # {} PROVE FALSE OBVIOUS
  <2>1. Differ \in SUBSET Nat OBVIOUS
  <2>2. PICK n \in Differ : \A m \in Differ : n <= m BY <2>1, LeastNat
  <2>3. PICK s \in SUBSET u : Cardinality(s) = n /\ i[s] # j[s] BY <2>2
  <2>4. s \in SUBSET S /\ s \in SUBSET T OBVIOUS
  <2>5. i[s] = SumStep(i, f, s) /\ j[s] = SumStep(j, g, s) BY <2>4 DEF IsSum
  <2>6. s # {} BY <2>3, <2>5 DEF SumStep
  <2> DEFINE r == s \ {Picked(s)}
  <2>7. Picked(s) \in s /\ Cardinality(r) = n - 1 /\ n - 1 \in Nat BY <2>3, <2>4, <2>6, Smaller
  <2>8. r \in SUBSET u /\ f[Picked(s)] = g[Picked(s)] BY <2>7
  <2> HIDE DEF r
  <2>9. n - 1 \notin Differ BY <2>2, <2>7
  <2>10. i[r] = j[r] BY <2>7, <2>8, <2>9
  <2> QED BY <2>3, <2>5, <2>6, <2>8, <2>10 DEF SumStep, r
<1>2. IsFiniteSet(u) /\ Cardinality(u) \in Nat BY Smaller
<1> QED BY <1>1, <1>2

\* The sum over a set is what any such function says.
LEMMA SumIs ==
    ASSUME NEW S, IsFiniteSet(S), NEW f, NEW T, IsFiniteSet(T), NEW iter, IsSum(iter, f, T), S \subseteq T
    PROVE  SumFunctionOnSet(f, S) = iter[S]
<1> DEFINE i == CHOOSE it : IsSum(it, f, S)
<1>1. IsSum(i, f, S) BY SumExists
<1>2. SumFunctionOnSet(f, S) = i[S]
  BY DEF SumFunctionOnSet, FoldFunctionOnSet, MapThenFoldSet, IsSum, SumStep, Picked
<1> HIDE DEF i
<1>3. S \in SUBSET S /\ S \in SUBSET T OBVIOUS
<1>4. i[S] = iter[S] BY <1>1, <1>3, SumUnique
<1> QED BY <1>2, <1>4

\* Sums are the same where the functions are.
LEMMA SumSame ==
    ASSUME NEW S, IsFiniteSet(S), NEW f, NEW g, \A x \in S : f[x] = g[x]
    PROVE  SumFunctionOnSet(f, S) = SumFunctionOnSet(g, S)
<1>1. PICK i : IsSum(i, f, S) BY SumExists
<1>2. PICK j : IsSum(j, g, S) BY SumExists
<1>3. S \in SUBSET S OBVIOUS
<1>4. i[S] = j[S] BY <1>1, <1>2, <1>3, SumUnique
<1>5. SumFunctionOnSet(f, S) = i[S] BY <1>1, SumIs
<1>6. SumFunctionOnSet(g, S) = j[S] BY <1>2, SumIs
<1> QED BY <1>4, <1>5, <1>6

\* One element can be taken out first, any one of them.
LEMMA SumTakeOne ==
    ASSUME NEW S, IsFiniteSet(S), NEW f, \A x \in S : f[x] \in Int
    PROVE  /\ SumFunctionOnSet(f, {}) = 0
           /\ SumFunctionOnSet(f, S) \in Int
           /\ \A x \in S : SumFunctionOnSet(f, S) = f[x] + SumFunctionOnSet(f, S \ {x})
<1>1. PICK i : IsSum(i, f, S) BY SumExists
<1>2. ASSUME NEW s \in SUBSET S PROVE i[s] = SumStep(i, f, s) BY <1>1 DEF IsSum
<1> DEFINE Good(s) == i[s] \in Int /\ \A x \in s : i[s] = f[x] + i[s \ {x}]
           Bad == {n \in Nat : \E s \in SUBSET S : Cardinality(s) = n /\ ~Good(s)}
<1>3. Bad = {}
  <2> SUFFICES ASSUME Bad # {} PROVE FALSE OBVIOUS
  <2>1. Bad \in SUBSET Nat OBVIOUS
  <2>2. PICK n \in Bad : \A m \in Bad : n <= m BY <2>1, LeastNat
  <2>3. PICK s \in SUBSET S : Cardinality(s) = n /\ ~Good(s) BY <2>2
  <2>4. \A r \in SUBSET S : Cardinality(r) \in Nat /\ Cardinality(r) < n => Good(r)
    <3> HIDE DEF Good
    <3> QED BY <2>2
  <2>5. s # {}
    <3> SUFFICES ASSUME s = {} PROVE FALSE OBVIOUS
    <3>1. i[s] = 0 BY <1>2 DEF SumStep
    <3> QED BY <2>3, <3>1
  <2> DEFINE p == Picked(s)
             r == s \ {p}
  <2>6. p \in s /\ Cardinality(r) = n - 1 /\ n - 1 \in Nat BY <2>3, <2>5, Smaller
  <2>7. i[s] = f[p] + i[r] BY <1>2, <2>5 DEF SumStep
  <2> HIDE DEF p
  <2>8. Good(r)
    <3>1. r \in SUBSET S OBVIOUS
    <3>2. n - 1 < n OBVIOUS
    <3> HIDE DEF Good, r
    <3> QED BY <3>1, <3>2, <2>4, <2>6
  <2>9. i[s] \in Int BY <2>6, <2>7, <2>8
  <2>10. ASSUME NEW x \in s PROVE i[s] = f[x] + i[s \ {x}]
    <3>1. CASE x = p BY <3>1, <2>7
    <3>2. CASE x # p
      <4> DEFINE q == s \ {x}
                 t == r \ {x}
      <4>1. x \in r /\ p \in q /\ q \ {p} = t BY <2>6, <3>2
      <4>2. q \in SUBSET S /\ Cardinality(q) = n - 1 BY <2>3, Smaller
      <4>3. Good(q)
        <5>1. n - 1 < n OBVIOUS
        <5> HIDE DEF Good, q
        <5> QED BY <5>1, <4>2, <2>4, <2>6
      <4>4. i[q] = f[p] + i[t] BY <4>1, <4>3
      <4>5. i[r] = f[x] + i[t] BY <4>1, <2>8
      <4>6. i[t] \in Int
        <5>1. t \in SUBSET S /\ Cardinality(t) \in Nat /\ Cardinality(t) < n
          <6>1. r \in SUBSET S OBVIOUS
          <6>2. Cardinality(t) = Cardinality(r) - 1 /\ Cardinality(t) \in Nat
            BY <6>1, <4>1, Smaller
          <6> QED BY <6>2, <2>6
        <5> QED BY <5>1, <2>4
      <4>7. f[x] \in Int /\ f[p] \in Int BY <2>6
      <4> QED BY <4>4, <4>5, <4>6, <4>7, <2>7
    <3> QED BY <3>1, <3>2
  <2> QED BY <2>3, <2>9, <2>10
<1>4. S \in SUBSET S /\ {} \in SUBSET S /\ Cardinality(S) \in Nat BY FS_CardinalityType
<1>5. Good(S) BY <1>3, <1>4
<1>6. \A s \in SUBSET S : SumFunctionOnSet(f, s) = i[s] BY <1>1, Smaller, SumIs
<1>7. i[{}] = 0 BY <1>2, <1>4 DEF SumStep
<1>8. \A x \in S : S \ {x} \in SUBSET S OBVIOUS
<1> QED BY <1>4, <1>5, <1>6, <1>7, <1>8

\* A sum of natural numbers is one.
LEMMA SumNat ==
    ASSUME NEW S, IsFiniteSet(S), NEW f, \A x \in S : f[x] \in Nat
    PROVE  SumFunctionOnSet(f, S) \in Nat
<1> DEFINE Bad == {n \in Nat : \E s \in SUBSET S : /\ Cardinality(s) = n
                                                  /\ SumFunctionOnSet(f, s) \notin Nat}
<1> SUFFICES ASSUME Bad # {} PROVE FALSE
  <2>1. S \in SUBSET S /\ Cardinality(S) \in Nat BY FS_CardinalityType
  <2> QED BY <2>1
<1>1. Bad \in SUBSET Nat OBVIOUS
<1>2. PICK n \in Bad : \A m \in Bad : n <= m BY <1>1, LeastNat
<1>3. PICK s \in SUBSET S : Cardinality(s) = n /\ SumFunctionOnSet(f, s) \notin Nat BY <1>2
<1>4. IsFiniteSet(s) /\ \A x \in s : f[x] \in Int BY <1>3, Smaller
<1>5. s # {}
  <2>1. SumFunctionOnSet(f, {}) = 0 BY <1>4, SumTakeOne
  <2> SUFFICES ASSUME s = {} PROVE FALSE OBVIOUS
  <2>2. SumFunctionOnSet(f, s) = 0 BY <2>1, Zenon
  <2> QED BY <1>3, <2>2
<1>6. PICK x \in s : TRUE BY <1>5
<1>7. SumFunctionOnSet(f, s) = f[x] + SumFunctionOnSet(f, s \ {x}) BY <1>4, SumTakeOne
<1>8. Cardinality(s \ {x}) = n - 1 /\ n - 1 \in Nat /\ s \ {x} \in SUBSET S
  <2>1. n # 0 BY <1>3, <1>5, Smaller
  <2> QED BY <2>1, <1>2, <1>3, Smaller
<1>9. SumFunctionOnSet(f, s \ {x}) \in Nat
  <2>1. n - 1 \notin Bad BY <1>2, <1>8
  <2> QED BY <1>8, <2>1
<1> QED BY <1>3, <1>7, <1>9

\* The sum once an element left.
LEMMA SumLess ==
    ASSUME NEW S, IsFiniteSet(S), NEW f, \A y \in S : f[y] \in Int, NEW x \in S,
           NEW g, \A y \in S \ {x} : g[y] = f[y]
    PROVE  SumFunctionOnSet(g, S \ {x}) = SumFunctionOnSet(f, S) - f[x]
<1>1. IsFiniteSet(S \ {x}) BY FS_RemoveElement
<1>2. SumFunctionOnSet(g, S \ {x}) = SumFunctionOnSet(f, S \ {x}) BY <1>1, SumSame
<1>3. SumFunctionOnSet(f, S \ {x}) \in Int BY <1>1, SumTakeOne
<1>4. SumFunctionOnSet(f, S) = f[x] + SumFunctionOnSet(f, S \ {x}) BY SumTakeOne
<1> QED BY <1>2, <1>3, <1>4

\* The sum once an element joined.
LEMMA SumMore ==
    ASSUME NEW S, IsFiniteSet(S), NEW f, \A y \in S : f[y] \in Int, NEW x, x \notin S,
           NEW g, \A y \in S : g[y] = f[y], g[x] \in Int
    PROVE  SumFunctionOnSet(g, S \cup {x}) = SumFunctionOnSet(f, S) + g[x]
<1> DEFINE T == S \cup {x}
<1>1. IsFiniteSet(T) BY FS_AddElement
<1>2. T \ {x} = S OBVIOUS
<1>3. x \in T /\ \A y \in T : g[y] \in Int OBVIOUS
<1> HIDE DEF T
<1>4. SumFunctionOnSet(g, T) = g[x] + SumFunctionOnSet(g, T \ {x}) BY <1>1, <1>3, SumTakeOne
<1>5. SumFunctionOnSet(g, S) = SumFunctionOnSet(f, S) BY SumSame
<1>6. SumFunctionOnSet(f, S) \in Int BY SumTakeOne
<1>7. SumFunctionOnSet(g, T) = g[x] + SumFunctionOnSet(g, S) BY <1>2, <1>4
<1>8. SumFunctionOnSet(g, T) = SumFunctionOnSet(f, S) + g[x] BY <1>5, <1>6, <1>7
<1> QED BY <1>8 DEF T

\* The sum once the function changed at one element.
LEMMA SumChange ==
    ASSUME NEW S, IsFiniteSet(S), NEW f, \A y \in S : f[y] \in Int, NEW x \in S,
           NEW g, \A y \in S \ {x} : g[y] = f[y], g[x] \in Int
    PROVE  SumFunctionOnSet(g, S) = SumFunctionOnSet(f, S) - f[x] + g[x]
<1>1. SumFunctionOnSet(g, S \ {x}) = SumFunctionOnSet(f, S) - f[x] BY SumLess
<1>2. \A y \in S : g[y] \in Int OBVIOUS
<1>3. SumFunctionOnSet(g, S) = g[x] + SumFunctionOnSet(g, S \ {x}) BY <1>2, SumTakeOne
<1>4. SumFunctionOnSet(f, S) \in Int BY SumTakeOne
<1> QED BY <1>1, <1>3, <1>4

\* The sum over two sets apart.
LEMMA SumJoin ==
    ASSUME NEW S, IsFiniteSet(S), NEW T, IsFiniteSet(T), S \cap T = {},
           NEW f, \A x \in S \cup T : f[x] \in Int
    PROVE  SumFunctionOnSet(f, S \cup T) = SumFunctionOnSet(f, S) + SumFunctionOnSet(f, T)
<1> DEFINE Good(u) == SumFunctionOnSet(f, S \cup u) = SumFunctionOnSet(f, S) + SumFunctionOnSet(f, u)
           Bad == {n \in Nat : \E u \in SUBSET T : Cardinality(u) = n /\ ~Good(u)}
<1>1. Bad = {}
  <2> SUFFICES ASSUME Bad # {} PROVE FALSE OBVIOUS
  <2>1. Bad \in SUBSET Nat OBVIOUS
  <2>2. PICK n \in Bad : \A m \in Bad : n <= m BY <2>1, LeastNat
  <2>3. PICK u \in SUBSET T : Cardinality(u) = n /\ ~Good(u) BY <2>2
  <2>4. IsFiniteSet(u) /\ \A x \in u : f[x] \in Int BY <2>3, FS_Subset
  <2>5. SumFunctionOnSet(f, S) \in Int BY SumTakeOne
  <2>6. u # {}
    <3> SUFFICES ASSUME u = {} PROVE FALSE OBVIOUS
    <3>1. SumFunctionOnSet(f, {}) = 0 BY FS_EmptySet, SumTakeOne
    <3>2. S \cup u = S OBVIOUS
    <3>3. SumFunctionOnSet(f, u) = 0 BY <3>1, Zenon
    <3>4. SumFunctionOnSet(f, S \cup u) = SumFunctionOnSet(f, S) BY <3>2, Zenon
    <3> HIDE DEF Bad
    <3> QED BY <2>3, <2>5, <3>3, <3>4
  <2>7. PICK x \in u : TRUE BY <2>6
  <2> DEFINE v == u \ {x}
  <2>8. v \in SUBSET T /\ Cardinality(v) = n - 1 /\ n - 1 \in Nat /\ IsFiniteSet(v)
    BY <2>3, <2>4, <2>6, Smaller
  <2>9. Good(v)
    <3>1. n - 1 \notin Bad BY <2>2, <2>8
    <3> QED BY <2>8, <3>1
  <2>10. S \cup v = (S \cup u) \ {x} OBVIOUS
  <2>11. IsFiniteSet(S \cup u) BY <2>4, FS_Union
  <2>12. SumFunctionOnSet(f, S \cup u) = f[x] + SumFunctionOnSet(f, S \cup v)
    <3>1. \A y \in S \cup u : f[y] \in Int OBVIOUS
    <3>2. x \in S \cup u OBVIOUS
    <3> HIDE DEF Good, Bad, v
    <3> QED BY <2>10, <2>11, <3>1, <3>2, SumTakeOne
  <2>13. SumFunctionOnSet(f, u) = f[x] + SumFunctionOnSet(f, v) BY <2>4, SumTakeOne
  <2>14. SumFunctionOnSet(f, v) \in Int /\ f[x] \in Int BY <2>4, <2>8, SumTakeOne
  <2> HIDE DEF v, Bad
  <2> QED BY <2>3, <2>5, <2>9, <2>12, <2>13, <2>14
<1>2. T \in SUBSET T /\ Cardinality(T) \in Nat BY FS_CardinalityType
<1> QED BY <1>1, <1>2

\* The sum once every element goes by another name.
LEMMA SumRename ==
    ASSUME NEW S, IsFiniteSet(S), NEW f, \A x \in S : f[x] \in Int,
           NEW h, \A x, y \in S : h[x] = h[y] => x = y,
           NEW g, \A x \in S : g[h[x]] = f[x]
    PROVE  SumFunctionOnSet(g, {h[x] : x \in S}) = SumFunctionOnSet(f, S)
<1> DEFINE Im(u) == {h[x] : x \in u}
           Good(u) == IsFiniteSet(Im(u)) /\ SumFunctionOnSet(g, Im(u)) = SumFunctionOnSet(f, u)
           Bad == {n \in Nat : \E u \in SUBSET S : Cardinality(u) = n /\ ~Good(u)}
<1>1. Bad = {}
  <2> SUFFICES ASSUME Bad # {} PROVE FALSE OBVIOUS
  <2>1. Bad \in SUBSET Nat OBVIOUS
  <2>2. PICK n \in Bad : \A m \in Bad : n <= m BY <2>1, LeastNat
  <2>3. PICK u \in SUBSET S : Cardinality(u) = n /\ ~Good(u) BY <2>2
  <2>4. IsFiniteSet(u) /\ \A x \in u : f[x] \in Int BY <2>3, FS_Subset
  <2>5. u # {}
    <3> SUFFICES ASSUME u = {} PROVE FALSE OBVIOUS
    <3>1. \A w : SumFunctionOnSet(w, {}) = 0 BY FS_EmptySet, SumTakeOne
    <3>2. Im(u) = {} OBVIOUS
    <3>3. SumFunctionOnSet(g, Im(u)) = 0 BY <3>1, <3>2, Zenon
    <3>4. SumFunctionOnSet(f, u) = 0 BY <3>1, Zenon
    <3>5. IsFiniteSet(Im(u)) BY <3>2, FS_EmptySet, Zenon
    <3> HIDE DEF Bad, Im
    <3> QED BY <2>3, <3>3, <3>4, <3>5
  <2>6. PICK x \in u : TRUE BY <2>5
  <2> DEFINE v == u \ {x}
  <2>7. v \in SUBSET S /\ Cardinality(v) = n - 1 /\ n - 1 \in Nat /\ IsFiniteSet(v)
    BY <2>3, <2>4, <2>5, Smaller
  <2>8. Good(v)
    <3> HIDE DEF Good, v
    <3>1. n - 1 \notin Bad
      <4>1. n \in Nat OBVIOUS
      <4> HIDE DEF Bad
      <4> QED BY <2>2, <2>7, <4>1
    <3> QED BY <2>7, <3>1
  <2>9. Im(u) = Im(v) \cup {h[x]} /\ h[x] \notin Im(v) /\ \A z \in Im(v) : g[z] \in Int
    BY <2>3, <2>4
  <2>10. g[h[x]] = f[x] /\ f[x] \in Int BY <2>3, <2>4
  <2>11. SumFunctionOnSet(f, u) = f[x] + SumFunctionOnSet(f, v)
    <3> HIDE DEF Im, Good, Bad
    <3> QED BY <2>4, SumTakeOne
  <2>12. IsFiniteSet(Im(v)) BY <2>8
  <2>13. SumFunctionOnSet(g, Im(u)) = SumFunctionOnSet(g, Im(v)) + g[h[x]]
    <3> HIDE DEF Im, Good, Bad, v
    <3> QED BY <2>9, <2>10, <2>12, SumMore
  <2>14. IsFiniteSet(Im(u))
    <3> HIDE DEF Im, Good, Bad, v
    <3> QED BY <2>9, <2>12, FS_AddElement
  <2>15. SumFunctionOnSet(f, v) \in Int BY <2>4, <2>7, SumTakeOne
  <2> HIDE DEF v, Bad, Im
  <2> QED BY <2>3, <2>8, <2>10, <2>11, <2>13, <2>14, <2>15
<1>2. S \in SUBSET S /\ Cardinality(S) \in Nat BY FS_CardinalityType
<1> QED BY <1>1, <1>2

\* The sum of the sums over parts that do not overlap is the sum over the whole.
LEMMA SumOfSums ==
    ASSUME NEW I, IsFiniteSet(I), NEW P, \A i \in I : IsFiniteSet(P[i]),
           \A i, j \in I : i # j => P[i] \cap P[j] = {},
           NEW f, \A i \in I : \A x \in P[i] : f[x] \in Int,
           NEW t, \A i \in I : t[i] = SumFunctionOnSet(f, P[i])
    PROVE  SumFunctionOnSet(t, I) = SumFunctionOnSet(f, UNION {P[i] : i \in I})
<1> DEFINE Im(u) == UNION {P[i] : i \in u}
           Good(u) == IsFiniteSet(Im(u)) /\ SumFunctionOnSet(t, u) = SumFunctionOnSet(f, Im(u))
           Bad == {n \in Nat : \E u \in SUBSET I : Cardinality(u) = n /\ ~Good(u)}
<1>0. \A i \in I : t[i] \in Int
  <2> SUFFICES ASSUME NEW i \in I PROVE t[i] \in Int OBVIOUS
  <2>1. PICK p : p = P[i] OBVIOUS
  <2>2. IsFiniteSet(p) /\ \A x \in p : f[x] \in Int BY <2>1
  <2>3. SumFunctionOnSet(f, p) \in Int BY <2>2, SumTakeOne
  <2> QED BY <2>1, <2>3
<1>1. Bad = {}
  <2> SUFFICES ASSUME Bad # {} PROVE FALSE OBVIOUS
  <2>1. Bad \in SUBSET Nat OBVIOUS
  <2>2. PICK n \in Bad : \A m \in Bad : n <= m BY <2>1, LeastNat
  <2>3. PICK u \in SUBSET I : Cardinality(u) = n /\ ~Good(u) BY <2>2
  <2>4. IsFiniteSet(u) /\ \A x \in u : t[x] \in Int BY <1>0, <2>3, FS_Subset
  <2>5. u # {}
    <3> SUFFICES ASSUME u = {} PROVE FALSE OBVIOUS
    <3>1. \A w : SumFunctionOnSet(w, {}) = 0 BY FS_EmptySet, SumTakeOne
    <3>2. Im(u) = {} OBVIOUS
    <3>3. SumFunctionOnSet(f, Im(u)) = 0 BY <3>1, <3>2, Zenon
    <3>4. SumFunctionOnSet(t, u) = 0 BY <3>1, Zenon
    <3>5. IsFiniteSet(Im(u)) BY <3>2, FS_EmptySet, Zenon
    <3> HIDE DEF Bad, Im
    <3> QED BY <2>3, <3>3, <3>4, <3>5
  <2>6. PICK i \in u : TRUE BY <2>5
  <2> DEFINE v == u \ {i}
  <2>7. v \in SUBSET I /\ Cardinality(v) = n - 1 /\ n - 1 \in Nat /\ IsFiniteSet(v)
    BY <2>3, <2>4, <2>5, Smaller
  <2>8. Good(v)
    <3> HIDE DEF Good, v
    <3>1. n - 1 \notin Bad
      <4>1. n \in Nat OBVIOUS
      <4> HIDE DEF Bad
      <4> QED BY <2>2, <2>7, <4>1
    <3> QED BY <2>7, <3>1
  <2>9. PICK p : p = P[i] OBVIOUS
  <2>10. /\ Im(u) = Im(v) \cup p
         /\ Im(v) \cap p = {}
         /\ \A z \in Im(v) \cup p : f[z] \in Int
         /\ IsFiniteSet(p)
         /\ t[i] = SumFunctionOnSet(f, p)
    BY <2>9
  <2>11. SumFunctionOnSet(t, u) = t[i] + SumFunctionOnSet(t, v)
    <3> HIDE DEF Im, Good, Bad
    <3> QED BY <2>4, SumTakeOne
  <2>12. IsFiniteSet(Im(v)) BY <2>8
  <2>13. SumFunctionOnSet(f, Im(u)) = SumFunctionOnSet(f, Im(v)) + SumFunctionOnSet(f, p)
    <3> HIDE DEF Im, Good, Bad, v
    <3> QED BY <2>10, <2>12, SumJoin
  <2>14. IsFiniteSet(Im(u))
    <3> HIDE DEF Im, Good, Bad, v
    <3>1. IsFiniteSet(p) /\ IsFiniteSet(Im(v)) BY <2>10, <2>12
    <3>2. IsFiniteSet(Im(v) \cup p) BY <3>1, FS_Union
    <3> QED BY <2>10, <3>2
  <2>15. SumFunctionOnSet(t, v) \in Int /\ t[i] \in Int BY <2>4, <2>7, SumTakeOne
  <2> HIDE DEF v, Bad, Im
  <2> QED BY <2>3, <2>8, <2>10, <2>11, <2>13, <2>14, <2>15
<1>2. I \in SUBSET I /\ Cardinality(I) \in Nat BY FS_CardinalityType
<1> QED BY <1>1, <1>2
------------------------------------------------------------------------------
(* Ordering a set *)

\* s lists the elements of S, each one before those it is R-below.
Lists(s, S, R) ==
    /\ s \in SetToSeqs(S)
    /\ \A i, j \in DOMAIN s : i < j => <<s[i], s[j]>> \in R

StrictTotalOrder(R, S) ==
    /\ \A x \in S : <<x, x>> \notin R
    /\ \A x, y, z \in S : <<x, y>> \in R /\ <<y, z>> \in R => <<x, z>> \in R
    /\ \A x, y \in S : x # y => <<x, y>> \in R \/ <<y, x>> \in R

\* A sequence without repetitions that is as long as its set has elements leaves
\* none of them out.
LEMMA SeqsCover ==
    ASSUME NEW S, IsFiniteSet(S), NEW s \in SetToSeqs(S)
    PROVE  /\ Cardinality(S) \in Nat
           /\ DOMAIN s = 1 .. Cardinality(S)
           /\ Len(s) = Cardinality(S)
           /\ s \in Seq(S)
           /\ \A i, j \in DOMAIN s : s[i] = s[j] => i = j
           /\ \A x \in S : \E i \in DOMAIN s : s[i] = x
<1> DEFINE D == 1 .. Cardinality(S)
<1>1. Cardinality(S) \in Nat BY FS_CardinalityType
<1>2. s \in [D -> S] /\ \A i, j \in D : i # j => s[i] # s[j] BY DEF SetToSeqs
<1>3. s \in Injection(D, S) BY <1>2 DEF Injection, IsInjective
<1>4. Cardinality(D) = Cardinality(S) BY <1>1, FS_Interval
<1>5. s \in Surjection(D, S) BY <1>3, <1>4, FS_Injection
<1>6. \A x \in S : \E i \in D : s[i] = x BY <1>5 DEF Surjection
<1>7. s \in Seq(S) /\ Len(s) = Cardinality(S) BY <1>1, <1>2
<1> QED BY <1>1, <1>2, <1>6, <1>7

\* An element that is R-above all the others goes to the end.
LEMMA ListsWithLast ==
    ASSUME NEW S, IsFiniteSet(S), NEW R, NEW m \in S, \A x \in S \ {m} : <<x, m>> \in R,
           NEW u, Lists(u, S \ {m}, R)
    PROVE  \E s : Lists(s, S, R)
<1> DEFINE n == Cardinality(S)
           s == [i \in 1 .. n |-> IF i = n THEN m ELSE u[i]]
<1>1. n \in Nat /\ Cardinality(S \ {m}) = n - 1 /\ IsFiniteSet(S \ {m}) /\ n - 1 \in Nat
  <2>1. n \in Nat /\ Cardinality(S \ {m}) = n - 1 /\ IsFiniteSet(S \ {m})
    BY FS_CardinalityType, FS_RemoveElement
  <2>2. n # 0 BY FS_EmptySet
  <2> HIDE DEF n
  <2> QED BY <2>1, <2>2
<1>2. /\ u \in [1 .. (n - 1) -> S \ {m}]
      /\ \A i, j \in 1 .. (n - 1) : i # j => u[i] # u[j]
      /\ \A i, j \in 1 .. (n - 1) : i < j => <<u[i], u[j]>> \in R
  BY <1>1 DEF Lists, SetToSeqs
<1>3. \A i \in 1 .. n : i = n \/ i \in 1 .. (n - 1) BY <1>1
<1> HIDE DEF n
<1>4. \A i \in 1 .. n : /\ i = n => s[i] = m
                        /\ i # n => s[i] = u[i] /\ s[i] \in S \ {m}
  BY <1>2, <1>3
<1>5. s \in [1 .. n -> S] BY <1>4
<1>6. \A i, j \in 1 .. n : i # j => s[i] # s[j] BY <1>2, <1>3, <1>4
<1>7. \A i, j \in 1 .. n : i < j => <<s[i], s[j]>> \in R
  <2> SUFFICES ASSUME NEW i \in 1 .. n, NEW j \in 1 .. n, i < j PROVE <<s[i], s[j]>> \in R
    OBVIOUS
  <2>1. i # n BY <1>1
  <2> QED BY <1>2, <1>3, <1>4, <2>1
<1> HIDE DEF s
<1>8. Lists(s, S, R) BY <1>5, <1>6, <1>7 DEF Lists, SetToSeqs, n
<1> QED BY <1>8

\* A finite set can be listed in any strict total order.
LEMMA Listing ==
    ASSUME NEW S, IsFiniteSet(S), NEW R, StrictTotalOrder(R, S)
    PROVE  \E s : Lists(s, S, R)
<1> DEFINE Bad == {n \in Nat : \E T \in SUBSET S : Cardinality(T) = n /\ ~\E s : Lists(s, T, R)}
<1> SUFFICES ASSUME Bad # {} PROVE FALSE
  <2>1. S \in SUBSET S /\ Cardinality(S) \in Nat BY FS_CardinalityType
  <2> QED BY <2>1
<1>1. Bad \in SUBSET Nat OBVIOUS
<1>2. PICK n \in Bad : \A m \in Bad : n <= m BY <1>1, LeastNat
<1>3. PICK T \in SUBSET S : Cardinality(T) = n /\ ~\E s : Lists(s, T, R) BY <1>2
<1>4. IsFiniteSet(T) /\ \A x \in T : Cardinality(T \ {x}) = n - 1 BY <1>3, Smaller
<1>5. T # {}
  <2> SUFFICES ASSUME T = {} PROVE FALSE OBVIOUS
  <2>1. Cardinality(T) = 0 BY FS_EmptySet
  <2>2. Lists([i \in {} |-> 0], T, R) BY <2>1 DEF Lists, SetToSeqs
  <2> QED BY <1>3, <2>2
<1>6. n # 0 /\ n - 1 \in Nat BY <1>3, <1>4, <1>5, FS_EmptySet
<1>7. \A x \in T : \E s : Lists(s, T \ {x}, R)
  <2> SUFFICES ASSUME NEW x \in T PROVE \E s : Lists(s, T \ {x}, R) OBVIOUS
  <2>1. n - 1 \notin Bad BY <1>2, <1>6
  <2>2. T \ {x} \in SUBSET S /\ Cardinality(T \ {x}) = n - 1 BY <1>4
  <2> QED BY <1>6, <2>1, <2>2
<1> HIDE DEF Bad
<1>8. PICK x \in T : TRUE BY <1>5
<1>9. PICK t : Lists(t, T \ {x}, R) BY <1>7
<1>10. /\ IsFiniteSet(T \ {x}) /\ Cardinality(T \ {x}) = n - 1
       /\ t \in SetToSeqs(T \ {x})
       /\ \A i, j \in DOMAIN t : i < j => <<t[i], t[j]>> \in R
  BY <1>4, <1>9, FS_RemoveElement DEF Lists
<1>11. /\ DOMAIN t = 1 .. (n - 1)
       /\ t \in [1 .. (n - 1) -> T \ {x}]
       /\ \A y \in T \ {x} : \E i \in DOMAIN t : t[i] = y
  BY <1>10, SeqsCover DEF SetToSeqs
<1>12. PICK m \in T : \A y \in T \ {m} : <<y, m>> \in R
  <2>1. CASE n = 1 BY <2>1, <1>8, <1>11
  <2>2. CASE n # 1
    <3> DEFINE last == t[n - 1]
    <3>1. n - 1 \in 1 .. (n - 1) BY <1>1, <1>2, <1>6, <2>2
    <3>2. last \in T \ {x} BY <3>1, <1>11
    <3>3. \A y \in T \ {x} : y # last => <<y, last>> \in R
      <4> SUFFICES ASSUME NEW y \in T \ {x}, y # last PROVE <<y, last>> \in R OBVIOUS
      <4>1. PICK i \in DOMAIN t : t[i] = y BY <1>11
      <4>2. i < n - 1 BY <4>1, <1>6, <1>11
      <4> QED BY <1>10, <1>11, <3>1, <4>1, <4>2
    <3> HIDE DEF last
    <3>4. CASE <<last, x>> \in R
      <4>1. \A y \in T \ {x} : <<y, x>> \in R BY <3>2, <3>3, <3>4, <1>8 DEF StrictTotalOrder
      <4> QED BY <1>8, <4>1
    <3>5. CASE <<last, x>> \notin R
      <4>1. <<x, last>> \in R BY <3>2, <3>5, <1>8 DEF StrictTotalOrder
      <4>2. \A y \in T \ {last} : <<y, last>> \in R BY <3>3, <4>1
      <4> QED BY <3>2, <4>2
    <3> QED BY <3>4, <3>5
  <2> QED BY <2>1, <2>2
<1>13. PICK u : Lists(u, T \ {m}, R) BY <1>7
<1> QED BY <1>3, <1>4, <1>12, <1>13, ListsWithLast

\* A set is listed in a strict total order in one way.
LEMMA ListsOnce ==
    ASSUME NEW S, IsFiniteSet(S), NEW R, StrictTotalOrder(R, S),
           NEW s, Lists(s, S, R), NEW t, Lists(t, S, R)
    PROVE  s = t
<1> DEFINE n == Cardinality(S)
           Differ == {i \in Nat : i \in 1 .. n /\ s[i] # t[i]}
<1>0. s \in SetToSeqs(S) /\ t \in SetToSeqs(S) BY DEF Lists
<1>a. /\ n \in Nat /\ DOMAIN s = 1 .. n /\ s \in Seq(S)
      /\ \A i, j \in 1 .. n : s[i] = s[j] => i = j
      /\ \A x \in S : \E i \in 1 .. n : s[i] = x
  <2>1. /\ Cardinality(S) \in Nat
        /\ DOMAIN s = 1 .. Cardinality(S)
        /\ s \in Seq(S)
        /\ \A i, j \in DOMAIN s : s[i] = s[j] => i = j
        /\ \A x \in S : \E i \in DOMAIN s : s[i] = x
    BY <1>0, SeqsCover
  <2> QED BY <2>1
<1>b. /\ DOMAIN t = 1 .. n /\ t \in Seq(S)
      /\ \A i, j \in 1 .. n : t[i] = t[j] => i = j
      /\ \A x \in S : \E i \in 1 .. n : t[i] = x
  <2>1. /\ Cardinality(S) \in Nat
        /\ DOMAIN t = 1 .. Cardinality(S)
        /\ t \in Seq(S)
        /\ \A i, j \in DOMAIN t : t[i] = t[j] => i = j
        /\ \A x \in S : \E i \in DOMAIN t : t[i] = x
    BY <1>0, SeqsCover
  <2> QED BY <2>1
<1> HIDE DEF n
<1>1. /\ n \in Nat /\ DOMAIN s = 1 .. n /\ DOMAIN t = 1 .. n
      /\ s \in Seq(S) /\ t \in Seq(S)
      /\ \A i, j \in 1 .. n : s[i] = s[j] => i = j
      /\ \A i, j \in 1 .. n : t[i] = t[j] => i = j
      /\ \A x \in S : (\E i \in 1 .. n : s[i] = x) /\ (\E i \in 1 .. n : t[i] = x)
  BY <1>a, <1>b
<1>2. /\ \A i, j \in 1 .. n : i < j => <<s[i], s[j]>> \in R
      /\ \A i, j \in 1 .. n : i < j => <<t[i], t[j]>> \in R
  BY <1>1 DEF Lists
<1>3. \A i \in 1 .. n : s[i] \in S /\ t[i] \in S BY <1>1
<1>4. \A i \in 1 .. n : i \in Nat BY <1>1
<1>5. Differ = {}
  <2> SUFFICES ASSUME Differ # {} PROVE FALSE OBVIOUS
  <2>1. Differ \in SUBSET Nat OBVIOUS
  <2>2. PICK i \in Differ : \A j \in Differ : i <= j BY <2>1, LeastNat
  <2>3. i \in 1 .. n /\ s[i] # t[i] OBVIOUS
  <2>4. \A j \in 1 .. n : j < i => s[j] = t[j] BY <1>4, <2>2
  <2> HIDE DEF Differ
  <2>5. PICK j \in 1 .. n : t[j] = s[i] BY <1>1, <1>3, <2>3
  <2>6. PICK k \in 1 .. n : s[k] = t[i] BY <1>1, <1>3, <2>3
  <2>7. i < j BY <1>1, <1>4, <2>3, <2>4, <2>5
  <2>8. i < k BY <1>1, <1>4, <2>3, <2>4, <2>6
  <2>9. <<t[i], s[i]>> \in R BY <1>2, <2>3, <2>5, <2>7
  <2>10. <<s[i], t[i]>> \in R BY <1>2, <2>3, <2>6, <2>8
  <2> QED BY <2>3, <2>9, <2>10, <1>3 DEF StrictTotalOrder
<1>6. \A i \in 1 .. n : s[i] = t[i] BY <1>4, <1>5
<1>7. s = [i \in 1 .. n |-> s[i]] /\ t = [i \in 1 .. n |-> t[i]] BY <1>1
<1> QED BY <1>6, <1>7

\* The first element of an order comes first in the listing.
LEMMA ListsFirst ==
    ASSUME NEW S, IsFiniteSet(S), NEW R, NEW m \in S, \A x \in S \ {m} : <<m, x>> \in R,
           NEW u, Lists(u, S \ {m}, R)
    PROVE  Lists(<<m>> \o u, S, R)
<1> DEFINE n == Cardinality(S)
           s == <<m>> \o u
<1>1. n \in Nat /\ Cardinality(S \ {m}) = n - 1 /\ IsFiniteSet(S \ {m}) /\ n - 1 \in Nat
  <2>1. n \in Nat /\ Cardinality(S \ {m}) = n - 1 /\ IsFiniteSet(S \ {m})
    BY FS_CardinalityType, FS_RemoveElement
  <2>2. n # 0 BY FS_EmptySet
  <2> HIDE DEF n
  <2> QED BY <2>1, <2>2
<1>2. /\ u \in [1 .. (n - 1) -> S \ {m}]
      /\ \A i, j \in 1 .. (n - 1) : i # j => u[i] # u[j]
      /\ \A i, j \in 1 .. (n - 1) : i < j => <<u[i], u[j]>> \in R
  BY <1>1 DEF Lists, SetToSeqs
<1> HIDE DEF n
<1>3. u \in Seq(S \ {m}) /\ Len(u) = n - 1 BY <1>1, <1>2
<1>4. /\ DOMAIN s = 1 .. n
      /\ s = [i \in 1 .. n |-> s[i]]
      /\ s[1] = m
      /\ \A i \in 1 .. n : i # 1 => i - 1 \in 1 .. (n - 1) /\ s[i] = u[i - 1]
  <2>1. <<m>> \in Seq(S) /\ Len(<<m>>) = 1 /\ u \in Seq(S) BY <1>3
  <2>2. Len(s) = n /\ s \in Seq(S) BY <2>1, <1>1, <1>3
  <2>3. DOMAIN s = 1 .. n BY <2>2
  <2>5. s = [i \in 1 .. n |-> s[i]] BY <2>2, <2>3
  <2>4. \A i \in 1 .. n : s[i] = IF i <= 1 THEN <<m>>[i] ELSE u[i - 1] BY <2>1, <1>1, <1>3
  <2> QED BY <2>3, <2>4, <2>5, <1>1
<1>5. \A i \in 1 .. n : i # 1 => s[i] \in S \ {m} BY <1>2, <1>4
<1> HIDE DEF s
<1>6. s \in [1 .. n -> S] 
  <2>1. \A i \in 1 .. n : s[i] \in S BY <1>4, <1>5
  <2> QED BY <2>1, <1>4
<1>7. \A i, j \in 1 .. n : i # j => s[i] # s[j]
  <2> SUFFICES ASSUME NEW i \in 1 .. n, NEW j \in 1 .. n, i # j PROVE s[i] # s[j] OBVIOUS
  <2>1. CASE i = 1 BY <2>1, <1>4, <1>5
  <2>2. CASE j = 1 BY <2>2, <1>4, <1>5
  <2>3. CASE i # 1 /\ j # 1
    <3>1. i - 1 # j - 1 BY <1>1
    <3> QED BY <2>3, <3>1, <1>2, <1>4
  <2> QED BY <2>1, <2>2, <2>3
<1>8. \A i, j \in 1 .. n : i < j => <<s[i], s[j]>> \in R
  <2> SUFFICES ASSUME NEW i \in 1 .. n, NEW j \in 1 .. n, i < j PROVE <<s[i], s[j]>> \in R OBVIOUS
  <2>0. j # 1 BY <1>1
  <2>1. CASE i = 1 BY <2>0, <2>1, <1>4, <1>5
  <2>3. CASE i # 1
    <3>1. i - 1 < j - 1 BY <1>1
    <3> QED BY <2>0, <2>3, <3>1, <1>2, <1>4
  <2> QED BY <2>1, <2>3
<1>9. Lists(s, S, R) BY <1>6, <1>7, <1>8, <1>4 DEF Lists, SetToSeqs, n
<1> QED BY <1>9 DEF s
------------------------------------------------------------------------------
(* One book, one request *)

OrderAt == [side: Side, price: Price, qty: Nat]

SamePlace(b, x, y) ==
    b.resting[x].side = b.resting[y].side /\ b.resting[x].price = b.resting[y].price

\* The orders at one side and price form a queue.
Queued(b) ==
    /\ \A x, y : <<x, y>> \in b.before =>
         x \in DOMAIN b.resting /\ y \in DOMAIN b.resting /\ x # y /\ SamePlace(b, x, y)
    /\ \A x, y, z : <<x, y>> \in b.before /\ <<y, z>> \in b.before => <<x, z>> \in b.before
    /\ \A x, y \in DOMAIN b.resting :
         x # y /\ SamePlace(b, x, y) => <<x, y>> \in b.before \/ <<y, x>> \in b.before

\* A book any of the implementations can hold.
Booked(b) ==
    /\ IsFiniteSet(DOMAIN b.resting)
    /\ b.resting \in [DOMAIN b.resting -> OrderAt]
    /\ Queued(b)

\* The quantities of a set of orders add up to a number.
LEMMA TotalIsNat ==
    ASSUME NEW b, Booked(b), NEW S \in SUBSET DOMAIN b.resting
    PROVE  TotalQty(b, S) \in Nat
<1> DEFINE f == [o \in DOMAIN b.resting |-> b.resting[o].qty]
<1>1. IsFiniteSet(S) BY FS_Subset DEF Booked
<1>2. \A x \in S : f[x] \in Nat BY DEF Booked, OrderAt
<1> HIDE DEF f
<1>3. SumFunctionOnSet(f, S) \in Nat BY <1>1, <1>2, SumNat
<1> QED BY <1>3 DEF TotalQty, f

\* A maker gives no more than it has, and no more than is left of the request.
LEMMA FillIs ==
    ASSUME NEW b, Booked(b), NEW r, r.qty \in Nat, NEW o \in Makers(b, r)
    PROVE  /\ o \in DOMAIN b.resting
           /\ b.resting[o].side = Opposite(r.side)
           /\ FillOf(b, r, o) \in Nat
           /\ FillOf(b, r, o) <= b.resting[o].qty
           /\ b.resting[o] \in OrderAt
<1>1. o \in Reached(b, r) /\ o \in DOMAIN b.resting /\ QtyAhead(b, r, o) < r.qty
  BY DEF Makers, Reached
<1>2. b.resting[o] \in OrderAt /\ b.resting[o].side = Opposite(r.side)
  BY <1>1 DEF Booked, Reached
<1>3. QtyAhead(b, r, o) \in Nat
  <2>1. {x \in Reached(b, r) : Outranks(b, x, o)} \in SUBSET DOMAIN b.resting BY DEF Reached
  <2> QED BY <2>1, TotalIsNat DEF QtyAhead
<1>4. b.resting[o].qty \in Nat /\ r.qty - QtyAhead(b, r, o) \in Nat
  BY <1>1, <1>2, <1>3 DEF OrderAt
<1> DEFINE T == {b.resting[o].qty, r.qty - QtyAhead(b, r, o)}
<1>5. T \in SUBSET Nat /\ T # {} BY <1>4
<1>6. Min(T) \in T /\ \A y \in T : Min(T) <= y BY <1>5, MinOfNats
<1>7. FillOf(b, r, o) = Min(T) BY DEF FillOf
<1>8. FillOf(b, r, o) \in Nat /\ FillOf(b, r, o) <= b.resting[o].qty BY <1>5, <1>6, <1>7
<1> QED BY <1>1, <1>2, <1>8

\* What is left of a request once the orders it reaches have been taken.
LEMMA UnfilledIs ==
    ASSUME NEW b, Booked(b), NEW r, r.qty \in Nat
    PROVE  Unfilled(b, r) \in Nat
<1> DEFINE T == {r.qty, TotalQty(b, Reached(b, r))}
<1>1. TotalQty(b, Reached(b, r)) \in Nat
  <2>1. Reached(b, r) \in SUBSET DOMAIN b.resting BY DEF Reached
  <2> QED BY <2>1, TotalIsNat
<1>2. r.qty \in Nat OBVIOUS
<1>3. T \in SUBSET Nat /\ T # {} BY <1>1, <1>2
<1>4. Min(T) \in T /\ \A y \in T : Min(T) <= y BY <1>3, MinOfNats
<1>5. Unfilled(b, r) = r.qty - Min(T) BY DEF Unfilled
<1>6. Min(T) \in Nat /\ Min(T) <= r.qty BY <1>3, <1>4
<1> HIDE DEF T
<1> QED BY <1>2, <1>5, <1>6

\* What the trades leave: fewer orders, where they were, with fewer shares.
LEMMA KeptIs ==
    ASSUME NEW b, Booked(b), NEW r, r.qty \in Nat, NEW kept, kept = AfterTrades(b, r)
    PROVE  /\ DOMAIN kept \subseteq DOMAIN b.resting
           /\ kept \in [DOMAIN kept -> OrderAt]
           /\ \A o \in DOMAIN kept : /\ kept[o].side = b.resting[o].side
                                     /\ kept[o].price = b.resting[o].price
<1>1. /\ DOMAIN kept = DOMAIN b.resting \ Exhausted(b, r)
      /\ kept = [o \in DOMAIN kept |-> kept[o]]
      /\ \A o \in DOMAIN kept : kept[o] = IF o \in Makers(b, r)
                                         THEN [b.resting[o] EXCEPT !.qty = b.resting[o].qty - FillOf(b, r, o)]
                                         ELSE b.resting[o]
  BY DEF AfterTrades
<1>2. ASSUME NEW o \in DOMAIN kept
      PROVE  kept[o] \in OrderAt /\ kept[o].side = b.resting[o].side /\ kept[o].price = b.resting[o].price
  <2>1. o \in DOMAIN b.resting /\ b.resting[o] \in OrderAt BY <1>1, <1>2 DEF Booked
  <2>2. CASE o \in Makers(b, r)
    <3>1. FillOf(b, r, o) \in Nat /\ FillOf(b, r, o) <= b.resting[o].qty BY <2>2, FillIs
    <3>2. b.resting[o].qty - FillOf(b, r, o) \in Nat BY <2>1, <3>1 DEF OrderAt
    <3>3. kept[o] = [b.resting[o] EXCEPT !.qty = b.resting[o].qty - FillOf(b, r, o)] BY <1>1, <2>2
    <3> QED BY <2>1, <3>2, <3>3 DEF OrderAt
  <2>3. CASE o \notin Makers(b, r)
    <3>1. kept[o] = b.resting[o] BY <1>1, <2>3
    <3> QED BY <2>1, <3>1
  <2> QED BY <2>2, <2>3
<1> QED BY <1>1, <1>2

Ranked(b, S) == {pair \in S \X S : Outranks(b, pair[1], pair[2])}

\* Better prices first, and at one price the order of the queue: a total order of
\* the orders a request reaches.
LEMMA RankIsOrder ==
    ASSUME NEW b, Booked(b), NEW r, NEW S \in SUBSET Reached(b, r)
    PROVE  StrictTotalOrder(Ranked(b, S), S)
<1>1. ASSUME NEW x \in S
      PROVE  /\ x \in DOMAIN b.resting
             /\ b.resting[x].side = Opposite(r.side)
             /\ b.resting[x].price \in Int
  <2>1. x \in DOMAIN b.resting /\ b.resting[x].side = Opposite(r.side) BY <1>1 DEF Reached
  <2>2. b.resting[x] \in OrderAt BY <2>1 DEF Booked
  <2> QED BY <2>1, <2>2, OrderAssumption DEF OrderAt
<1>2. \A x, y \in S : <<x, y>> \in Ranked(b, S) <=> Outranks(b, x, y) BY DEF Ranked
<1>3. \A x, y \in S :
        Outranks(b, x, y) <=> \/ BetterPrice(Opposite(r.side), b.resting[x].price, b.resting[y].price)
                              \/ <<x, y>> \in b.before
  BY <1>1 DEF Outranks
<1>4. \A x, y \in S : <<x, y>> \in b.before => x # y /\ b.resting[x].price = b.resting[y].price
  BY DEF Booked, Queued, SamePlace
<1>5. \A x, y, z \in S : <<x, y>> \in b.before /\ <<y, z>> \in b.before => <<x, z>> \in b.before
  BY DEF Booked, Queued
<1>6. \A x, y \in S : x # y /\ b.resting[x].price = b.resting[y].price =>
        <<x, y>> \in b.before \/ <<y, x>> \in b.before
  BY <1>1 DEF Booked, Queued, SamePlace
<1>7. \A x \in S : <<x, x>> \notin Ranked(b, S)
  BY <1>1, <1>2, <1>3, <1>4 DEF BetterPrice
<1>8. \A x, y, z \in S : <<x, y>> \in Ranked(b, S) /\ <<y, z>> \in Ranked(b, S) =>
        <<x, z>> \in Ranked(b, S)
  <2> SUFFICES ASSUME NEW x \in S, NEW y \in S, NEW z \in S,
                      Outranks(b, x, y), Outranks(b, y, z)
               PROVE  Outranks(b, x, z)
    BY <1>2
  <2>1. PICK u, v, w : u = b.resting[x].price /\ v = b.resting[y].price /\ w = b.resting[z].price
    OBVIOUS
  <2>2. u \in Int /\ v \in Int /\ w \in Int BY <1>1, <2>1
  <2>3. BetterPrice(Opposite(r.side), u, v) \/ (u = v /\ <<x, y>> \in b.before) BY <1>3, <1>4, <2>1
  <2>4. BetterPrice(Opposite(r.side), v, w) \/ (v = w /\ <<y, z>> \in b.before) BY <1>3, <1>4, <2>1
  <2>5. BetterPrice(Opposite(r.side), u, w) \/ <<x, z>> \in b.before
    BY <1>5, <2>2, <2>3, <2>4 DEF BetterPrice
  <2> QED BY <1>3, <2>1, <2>5
<1>9. \A x, y \in S : x # y => <<x, y>> \in Ranked(b, S) \/ <<y, x>> \in Ranked(b, S)
  BY <1>1, <1>2, <1>3, <1>6 DEF BetterPrice
<1> QED BY <1>7, <1>8, <1>9 DEF StrictTotalOrder

\* match() takes every maker once.
LEMMA MakersListed ==
    ASSUME NEW b, Booked(b), NEW r, r.qty \in Nat
    PROVE  /\ IsFiniteSet(Makers(b, r))
           /\ MakersInOrder(b, r) \in SetToSeqs(Makers(b, r))
           /\ Lists(MakersInOrder(b, r), Makers(b, r), Ranked(b, Makers(b, r)))
<1> DEFINE M == Makers(b, r)
<1>1. M \in SUBSET Reached(b, r) /\ M \in SUBSET DOMAIN b.resting BY DEF Makers, Reached
<1>2. IsFiniteSet(M) BY <1>1, FS_Subset DEF Booked
<1>3. StrictTotalOrder(Ranked(b, M), M) BY <1>1, RankIsOrder
<1>4. PICK s : Lists(s, M, Ranked(b, M)) BY <1>2, <1>3, Listing
<1>5. s \in SetToSeqs(M) /\ \A i, j \in DOMAIN s : i < j => Outranks(b, s[i], s[j])
  <2>1. s \in SetToSeqs(M) BY <1>4 DEF Lists
  <2>2. \A i, j \in DOMAIN s : i < j => Outranks(b, s[i], s[j]) BY <1>4 DEF Lists, Ranked
  <2> QED BY <2>1, <2>2
<1> HIDE DEF M
<1>6. LET z == MakersInOrder(b, r) IN
        z \in SetToSeqs(M) /\ \A i, j \in DOMAIN z : i < j => Outranks(b, z[i], z[j])
  BY <1>5 DEF MakersInOrder, M
<1>7. PICK z : z = MakersInOrder(b, r) OBVIOUS
<1>8. z \in SetToSeqs(M) /\ \A i, j \in DOMAIN z : i < j => Outranks(b, z[i], z[j])
  BY <1>6, <1>7
<1>9. \A i \in DOMAIN z : z[i] \in M BY <1>8 DEF SetToSeqs
<1>10. Lists(z, M, Ranked(b, M)) BY <1>8, <1>9 DEF Lists, Ranked
<1> QED BY <1>2, <1>7, <1>8, <1>10 DEF M

\* What is known of the trades of a request.
TradesOfMakers(b, r, t) ==
    /\ Len(t) \in Nat
    /\ DOMAIN t = 1 .. Len(t)
    /\ \A i \in DOMAIN t : /\ t[i].maker \in Makers(b, r)
                           /\ t[i].qty = FillOf(b, r, t[i].maker)
                           /\ t[i].price \in Price
    /\ \A i, j \in DOMAIN t : t[i].maker = t[j].maker => i = j
    /\ \A o \in Makers(b, r) : \E i \in DOMAIN t : t[i].maker = o
    /\ t # <<>> => Len(t) \in DOMAIN t

\* The trades of a call are one for each maker, with its fill.
LEMMA TradesAre ==
    ASSUME NEW b, Booked(b), NEW r, r.qty \in Nat
    PROVE  TradesOfMakers(b, r, Trades(b, r))
<1> DEFINE s == MakersInOrder(b, r)
           t == Trades(b, r)
<1>1. /\ Cardinality(Makers(b, r)) \in Nat
      /\ DOMAIN s = 1 .. Cardinality(Makers(b, r))
      /\ s \in Seq(Makers(b, r))
      /\ \A i, j \in DOMAIN s : s[i] = s[j] => i = j
      /\ \A o \in Makers(b, r) : \E i \in DOMAIN s : s[i] = o
  BY MakersListed, SeqsCover
<1>2. t = [i \in DOMAIN s |-> TradeOf(s[i], r.id, b.resting[s[i]].price, FillOf(b, r, s[i]))]
  BY DEF Trades
<1> HIDE DEF s, t
<1>3. DOMAIN t = 1 .. Cardinality(Makers(b, r)) /\ Len(t) = Cardinality(Makers(b, r))
  BY <1>1, <1>2
<1>4. ASSUME NEW i \in DOMAIN t
      PROVE  /\ s[i] \in Makers(b, r)
             /\ t[i].maker = s[i]
             /\ t[i].qty = FillOf(b, r, s[i])
             /\ t[i].price \in Price
  <2>1. i \in DOMAIN s /\ s[i] \in Makers(b, r) BY <1>1, <1>2
  <2>2. b.resting[s[i]] \in OrderAt BY <2>1, FillIs
  <2> QED BY <2>1, <2>2, <1>2 DEF TradeOf, OrderAt
<1>5. DOMAIN t = DOMAIN s BY <1>1, <1>3
<1>6. t # <<>> => Len(t) \in DOMAIN t
  <2>1. Cardinality(Makers(b, r)) = 0 => t = <<>> BY <1>1, <1>2
  <2> QED BY <2>1, <1>1, <1>3
<1> QED BY <1>1, <1>3, <1>4, <1>5, <1>6 DEF TradesOfMakers, t
------------------------------------------------------------------------------
(* One fill *)

\* Orders a book keeps, at their places, stay queued.
LEMMA NarrowBooked ==
    ASSUME NEW b, Booked(b), NEW c, DOMAIN c.resting \subseteq DOMAIN b.resting,
           c.resting \in [DOMAIN c.resting -> OrderAt],
           \A o \in DOMAIN c.resting : /\ c.resting[o].side = b.resting[o].side
                                       /\ c.resting[o].price = b.resting[o].price,
           c.before = Among(b, DOMAIN c.resting)
    PROVE  Booked(c)
<1>1. \A x, y : <<x, y>> \in c.before <=>
        <<x, y>> \in b.before /\ x \in DOMAIN c.resting /\ y \in DOMAIN c.resting
  BY DEF Among
<1>2. \A x, y \in DOMAIN c.resting : SamePlace(c, x, y) <=> SamePlace(b, x, y) BY DEF SamePlace
<1>3. Queued(c) BY <1>1, <1>2 DEF Queued, Booked
<1>4. IsFiniteSet(DOMAIN c.resting) BY FS_Subset DEF Booked
<1> QED BY <1>3, <1>4 DEF Booked

\* A request that wants nothing, or reaches nothing, leaves the book as it is.
LEMMA NothingTaken ==
    ASSUME NEW b, Booked(b), NEW r, r.qty \in Nat, r.qty = 0 \/ Reached(b, r) = {}
    PROVE  /\ AfterTrades(b, r) = b.resting
           /\ Trades(b, r) = <<>>
           /\ Unfilled(b, r) = r.qty
<1>1. Reached(b, r) \in SUBSET DOMAIN b.resting BY DEF Reached
<1>2. Makers(b, r) = {}
  <2> SUFFICES ASSUME NEW o \in Reached(b, r), QtyAhead(b, r, o) < r.qty PROVE FALSE
    BY DEF Makers
  <2>1. {x \in Reached(b, r) : Outranks(b, x, o)} \in SUBSET DOMAIN b.resting BY <1>1
  <2>2. QtyAhead(b, r, o) \in Nat BY <2>1, TotalIsNat DEF QtyAhead
  <2> QED BY <2>2
<1>3. Exhausted(b, r) = {} BY <1>2 DEF Exhausted
<1>4. AfterTrades(b, r) = b.resting
  <2>1. AfterTrades(b, r) = [o \in DOMAIN b.resting |-> b.resting[o]] BY <1>2, <1>3 DEF AfterTrades
  <2> QED BY <2>1 DEF Booked
<1>5. Trades(b, r) = <<>>
  <2>1. MakersInOrder(b, r) \in SetToSeqs({}) BY <1>2, MakersListed
  <2>2. DOMAIN MakersInOrder(b, r) = 1 .. 0 BY <2>1, FS_EmptySet DEF SetToSeqs
  <2> QED BY <2>2 DEF Trades
<1>6. Unfilled(b, r) = r.qty
  <2>1. PICK t : t = TotalQty(b, Reached(b, r)) OBVIOUS
  <2>2. t \in Nat BY <1>1, <2>1, TotalIsNat
  <2>3. Reached(b, r) = {} => t = 0
    <3> SUFFICES ASSUME Reached(b, r) = {} PROVE t = 0 OBVIOUS
    <3>1. t = SumFunctionOnSet([o \in DOMAIN b.resting |-> b.resting[o].qty], {})
      BY <2>1 DEF TotalQty
    <3> QED BY <3>1, FS_EmptySet, SumTakeOne
  <2>4. Unfilled(b, r) = r.qty - Min({r.qty, t}) BY <2>1 DEF Unfilled
  <2>5. Min({r.qty, t}) = 0 BY <2>2, <2>3, MinOfTwo
  <2> QED BY <2>4, <2>5
<1> QED BY <1>4, <1>5, <1>6

\* Order m is the one a request takes first.
First(b, r, m) ==
    /\ m \in Reached(b, r)
    /\ \A x \in Reached(b, r) \ {m} : Outranks(b, m, x)

\* Nothing is ahead of the first order, and it is ahead of all the others.
LEMMA FirstAhead ==
    ASSUME NEW b, Booked(b), NEW r, NEW m, First(b, r, m)
    PROVE  /\ QtyAhead(b, r, m) = 0
           /\ \A o \in Reached(b, r) \ {m} : ~Outranks(b, o, m)
           /\ m \in DOMAIN b.resting /\ b.resting[m].qty \in Nat
<1> DEFINE S == Reached(b, r)
<1>1. S \in SUBSET S /\ S \subseteq DOMAIN b.resting /\ m \in S BY DEF First, Reached
<1>2. StrictTotalOrder(Ranked(b, S), S) BY <1>1, RankIsOrder
<1>3. \A x, y \in S : <<x, y>> \in Ranked(b, S) <=> Outranks(b, x, y) BY DEF Ranked
<1> HIDE DEF S
<1>4. ASSUME NEW x \in S PROVE ~Outranks(b, x, m)
  <2>1. CASE x = m BY <1>1, <1>2, <1>3, <2>1 DEF StrictTotalOrder
  <2>2. CASE x # m
    <3>1. Outranks(b, m, x) BY <2>2 DEF First, S
    <3> QED BY <1>1, <1>2, <1>3, <3>1 DEF StrictTotalOrder
  <2> QED BY <2>1, <2>2
<1>5. {x \in S : Outranks(b, x, m)} = {} BY <1>4
<1>6. QtyAhead(b, r, m) = SumFunctionOnSet([o \in DOMAIN b.resting |-> b.resting[o].qty], {})
  BY <1>5 DEF QtyAhead, TotalQty, S
<1>7. QtyAhead(b, r, m) = 0 BY <1>6, FS_EmptySet, SumTakeOne
<1>8. b.resting[m] \in OrderAt BY <1>1 DEF Booked
<1> QED BY <1>1, <1>4, <1>7, <1>8 DEF S, OrderAt

\* Request k is what is left of request r once it traded q.
LeftOf(r, q, k) ==
    /\ k.id = r.id /\ k.side = r.side /\ k.type = r.type /\ k.price = r.price
    /\ k.qty = r.qty - q

\* Trading q with order m turns book b and request r into c and k, and whatever
\* the request does to the book is the same afterwards.
SameOutcome(b, r, c, k, m, q) ==
    /\ AfterTrades(b, r) = AfterTrades(c, k)
    /\ Unfilled(b, r) = Unfilled(c, k)
    /\ Trades(b, r) = <<TradeOf(m, r.id, b.resting[m].price, q)>> \o Trades(c, k)

\* Book c is book b without order m.
Without(b, m, c) ==
    /\ c.resting = [o \in DOMAIN b.resting \ {m} |-> b.resting[o]]
    /\ c.before = Among(b, DOMAIN c.resting)

\* A book stays one when an order leaves, and the others keep their ranks.
LEMMA WithoutBooked ==
    ASSUME NEW b, Booked(b), NEW m \in DOMAIN b.resting, NEW c, Without(b, m, c)
    PROVE  /\ Booked(c)
           /\ DOMAIN c.resting = DOMAIN b.resting \ {m}
           /\ \A o \in DOMAIN c.resting : c.resting[o] = b.resting[o]
           /\ \A x, y \in DOMAIN c.resting : Outranks(c, x, y) <=> Outranks(b, x, y)
<1>1. /\ DOMAIN c.resting = DOMAIN b.resting \ {m}
      /\ \A o \in DOMAIN c.resting : c.resting[o] = b.resting[o]
      /\ c.resting = [o \in DOMAIN c.resting |-> c.resting[o]]
  BY DEF Without
<1>2. \A o \in DOMAIN c.resting : b.resting[o] \in OrderAt BY <1>1 DEF Booked
<1>3. c.resting \in [DOMAIN c.resting -> OrderAt] BY <1>1, <1>2
<1>4. c.before = Among(b, DOMAIN c.resting) BY DEF Without
<1>5. Booked(c) BY <1>1, <1>3, <1>4, NarrowBooked
<1>6. \A x, y \in DOMAIN c.resting : Outranks(c, x, y) <=> Outranks(b, x, y)
  BY <1>1, <1>4 DEF Outranks, Among
<1> QED BY <1>1, <1>5, <1>6

\* What the first order is out of the way of.
LEMMA WithoutFirst ==
    ASSUME NEW b, Booked(b), NEW r, NEW m, First(b, r, m),
           NEW c, Without(b, m, c), NEW q, NEW k, LeftOf(r, q, k)
    PROVE  /\ Reached(c, k) = Reached(b, r) \ {m}
           /\ TotalQty(b, Reached(b, r)) = b.resting[m].qty + TotalQty(c, Reached(c, k))
           /\ \A o \in Reached(c, k) : QtyAhead(b, r, o) = b.resting[m].qty + QtyAhead(c, k, o)
<1> DEFINE f == [o \in DOMAIN b.resting |-> b.resting[o].qty]
           g == [o \in DOMAIN c.resting |-> c.resting[o].qty]
<1>1. m \in Reached(b, r) /\ m \in DOMAIN b.resting BY DEF First, Reached
<1>2. /\ DOMAIN c.resting = DOMAIN b.resting \ {m}
      /\ \A o \in DOMAIN c.resting : c.resting[o] = b.resting[o]
      /\ \A x, y \in DOMAIN c.resting : Outranks(c, x, y) <=> Outranks(b, x, y)
  BY <1>1, WithoutBooked
<1>3. Reached(c, k) = Reached(b, r) \ {m} BY <1>2 DEF Reached, LeftOf, Takes
<1>4. ASSUME NEW S \in SUBSET DOMAIN b.resting, m \in S
      PROVE  TotalQty(b, S) = b.resting[m].qty + TotalQty(c, S \ {m})
  <2>1. IsFiniteSet(S) /\ IsFiniteSet(S \ {m}) BY <1>4, FS_Subset, FS_RemoveElement DEF Booked
  <2>2. \A o \in S : f[o] \in Int
    <3>1. \A o \in S : b.resting[o] \in OrderAt BY DEF Booked
    <3> QED BY <3>1 DEF OrderAt
  <2>3. \A o \in S \ {m} : f[o] = g[o] BY <1>2
  <2>4. f[m] = b.resting[m].qty BY <1>1
  <2> HIDE DEF f, g
  <2>5. SumFunctionOnSet(f, S) = f[m] + SumFunctionOnSet(f, S \ {m}) BY <1>4, <2>1, <2>2, SumTakeOne
  <2>6. SumFunctionOnSet(f, S \ {m}) = SumFunctionOnSet(g, S \ {m}) BY <2>1, <2>3, SumSame
  <2> QED BY <2>4, <2>5, <2>6 DEF TotalQty, f, g
<1>5. TotalQty(b, Reached(b, r)) = b.resting[m].qty + TotalQty(c, Reached(c, k))
  <2>1. Reached(b, r) \in SUBSET DOMAIN b.resting BY DEF Reached
  <2> QED BY <1>1, <1>3, <1>4, <2>1
<1>6. ASSUME NEW o \in Reached(c, k)
      PROVE  QtyAhead(b, r, o) = b.resting[m].qty + QtyAhead(c, k, o)
  <2> DEFINE S == {x \in Reached(b, r) : Outranks(b, x, o)}
             T == {x \in Reached(c, k) : Outranks(c, x, o)}
  <2>1. S \in SUBSET DOMAIN b.resting BY DEF Reached
  <2>2. m \in S BY <1>1, <1>3 DEF First
  <2>3. T = S \ {m} BY <1>2, <1>3 DEF Reached
  <2> HIDE DEF S, T
  <2>4. TotalQty(b, S) = b.resting[m].qty + TotalQty(c, T) BY <1>4, <2>1, <2>2, <2>3
  <2> QED BY <2>4 DEF QtyAhead, S, T
<1> QED BY <1>3, <1>5, <1>6

\* A fill that uses up the first order commutes with the rest of the matching.
THEOREM WholeFill ==
    ASSUME NEW b, Booked(b), NEW r, r.qty \in Nat, r.qty > 0, NEW m, First(b, r, m),
           b.resting[m].qty <= r.qty,
           NEW c, Without(b, m, c), NEW k, LeftOf(r, b.resting[m].qty, k)
    PROVE  SameOutcome(b, r, c, k, m, b.resting[m].qty)
<1>1. PICK q : q = b.resting[m].qty OBVIOUS
<1>2. /\ m \in Reached(b, r) /\ m \in DOMAIN b.resting /\ q \in Nat /\ QtyAhead(b, r, m) = 0
      /\ q <= r.qty
  BY <1>1, FirstAhead DEF First
<1>3. /\ Booked(c)
      /\ DOMAIN c.resting = DOMAIN b.resting \ {m}
      /\ \A o \in DOMAIN c.resting : c.resting[o] = b.resting[o]
      /\ \A x, y \in DOMAIN c.resting : Outranks(c, x, y) <=> Outranks(b, x, y)
  BY <1>2, WithoutBooked
<1>4. /\ Reached(c, k) = Reached(b, r) \ {m}
      /\ TotalQty(b, Reached(b, r)) = q + TotalQty(c, Reached(c, k))
      /\ \A o \in Reached(c, k) : QtyAhead(b, r, o) = q + QtyAhead(c, k, o)
  BY <1>1, WithoutFirst
<1>5. k.qty = r.qty - q /\ k.qty \in Nat /\ k.id = r.id BY <1>1, <1>2 DEF LeftOf
<1>6. Reached(c, k) \in SUBSET DOMAIN c.resting BY DEF Reached
<1>7. ASSUME NEW o \in Reached(c, k)
      PROVE  /\ QtyAhead(c, k, o) \in Nat
             /\ o \in Makers(b, r) <=> o \in Makers(c, k)
             /\ FillOf(b, r, o) = FillOf(c, k, o)
  <2>1. PICK a : a = QtyAhead(c, k, o) OBVIOUS
  <2>2. a \in Nat
    <3>1. {x \in Reached(c, k) : Outranks(c, x, o)} \in SUBSET DOMAIN c.resting BY <1>6
    <3> QED BY <2>1, <3>1, <1>3, TotalIsNat DEF QtyAhead
  <2>3. QtyAhead(b, r, o) = q + a BY <1>4, <2>1
  <2>4. q + a < r.qty <=> a < k.qty BY <1>2, <1>5, <2>2
  <2>5. o \in Makers(b, r) <=> o \in Makers(c, k) BY <1>4, <2>1, <2>3, <2>4 DEF Makers
  <2>6. r.qty - (q + a) = k.qty - a BY <1>2, <1>5, <2>2
  <2>7. FillOf(b, r, o) = FillOf(c, k, o) BY <1>3, <1>6, <2>1, <2>3, <2>6 DEF FillOf
  <2> QED BY <2>1, <2>2, <2>5, <2>7
<1>8. m \in Makers(b, r) /\ FillOf(b, r, m) = q
  <2>1. m \in Makers(b, r) BY <1>2 DEF Makers
  <2>2. FillOf(b, r, m) = Min({q, r.qty - 0}) BY <1>1, <1>2 DEF FillOf
  <2>3. r.qty - 0 = r.qty OBVIOUS
  <2> QED BY <1>2, <2>1, <2>2, <2>3, MinOfTwo
<1>9. Makers(b, r) = {m} \cup Makers(c, k) /\ m \notin Makers(c, k)
  BY <1>4, <1>7, <1>8 DEF Makers
<1>10. Makers(c, k) \in SUBSET Reached(c, k) BY DEF Makers
<1>11. AfterTrades(b, r) = AfterTrades(c, k)
  <2>1. Exhausted(b, r) = {m} \cup Exhausted(c, k)
    BY <1>1, <1>3, <1>6, <1>7, <1>8, <1>9, <1>10 DEF Exhausted
  <2>2. DOMAIN b.resting \ Exhausted(b, r) = DOMAIN c.resting \ Exhausted(c, k)
    BY <1>3, <2>1
  <2>3. ASSUME NEW o \in DOMAIN c.resting \ Exhausted(c, k)
        PROVE  (IF o \in Makers(b, r) THEN [b.resting[o] EXCEPT !.qty = @ - FillOf(b, r, o)] ELSE b.resting[o])
             = (IF o \in Makers(c, k) THEN [c.resting[o] EXCEPT !.qty = @ - FillOf(c, k, o)] ELSE c.resting[o])
    <3>1. o # m /\ c.resting[o] = b.resting[o] BY <1>3
    <3>2. o \in Makers(b, r) <=> o \in Makers(c, k) BY <1>9, <3>1
    <3>3. o \in Makers(c, k) => FillOf(b, r, o) = FillOf(c, k, o) BY <1>7, <1>10
    <3> QED BY <3>1, <3>2, <3>3
  <2> QED BY <2>2, <2>3 DEF AfterTrades
<1>12. Unfilled(b, r) = Unfilled(c, k)
  <2>1. PICK t : t = TotalQty(c, Reached(c, k)) OBVIOUS
  <2>2. t \in Nat BY <1>3, <1>6, <2>1, TotalIsNat
  <2>3. Unfilled(b, r) = r.qty - Min({r.qty, q + t}) BY <1>4, <2>1 DEF Unfilled
  <2>4. Unfilled(c, k) = k.qty - Min({k.qty, t}) BY <2>1 DEF Unfilled
  <2>5. Min({r.qty, q + t}) = IF r.qty <= q + t THEN r.qty ELSE q + t
    <3>1. q + t \in Nat BY <1>2, <2>2
    <3> QED BY <3>1, MinOfTwo
  <2>6. Min({k.qty, t}) = IF k.qty <= t THEN k.qty ELSE t BY <1>5, <2>2, MinOfTwo
  <2> QED BY <1>2, <1>5, <2>2, <2>3, <2>4, <2>5, <2>6
<1>13. Trades(b, r) = <<TradeOf(m, r.id, b.resting[m].price, q)>> \o Trades(c, k)
  <2> DEFINE s == MakersInOrder(b, r)
             u == MakersInOrder(c, k)
  <2>1. IsFiniteSet(Makers(b, r)) /\ Lists(s, Makers(b, r), Ranked(b, Makers(b, r)))
    BY MakersListed
  <2>2. /\ Lists(u, Makers(c, k), Ranked(c, Makers(c, k)))
        /\ IsFiniteSet(Makers(c, k))
        /\ u \in SetToSeqs(Makers(c, k))
    BY <1>3, <1>5, MakersListed
  <2>3. /\ Cardinality(Makers(c, k)) \in Nat
        /\ DOMAIN u = 1 .. Cardinality(Makers(c, k))
        /\ Len(u) = Cardinality(Makers(c, k))
        /\ u \in Seq(Makers(c, k))
    BY <2>2, SeqsCover
  <2> HIDE DEF s, u
  <2>4. Makers(c, k) = Makers(b, r) \ {m} BY <1>9
  <2>5. s = <<m>> \o u
    <3>1. \A x, y \in Makers(c, k) :
            <<x, y>> \in Ranked(c, Makers(c, k)) => <<x, y>> \in Ranked(b, Makers(b, r))
      BY <1>3, <1>6, <1>9, <1>10 DEF Ranked
    <3>2. \A i \in DOMAIN u : u[i] \in Makers(c, k) BY <2>2 DEF SetToSeqs
    <3>3. Lists(u, Makers(b, r) \ {m}, Ranked(b, Makers(b, r)))
      BY <2>2, <2>4, <3>1, <3>2 DEF Lists
    <3>4. \A x \in Makers(b, r) \ {m} : <<m, x>> \in Ranked(b, Makers(b, r))
      BY <1>4, <1>8, <1>10, <2>4 DEF Ranked, First
    <3>5. Lists(<<m>> \o u, Makers(b, r), Ranked(b, Makers(b, r)))
      BY <1>8, <2>1, <3>3, <3>4, ListsFirst
    <3>6. Makers(b, r) \in SUBSET Reached(b, r) BY DEF Makers
    <3>7. StrictTotalOrder(Ranked(b, Makers(b, r)), Makers(b, r)) BY <3>6, RankIsOrder
    <3> QED BY <2>1, <3>5, <3>7, ListsOnce
  <2> DEFINE n == Cardinality(Makers(c, k))
             w == [i \in DOMAIN u |-> TradeOf(u[i], k.id, c.resting[u[i]].price, FillOf(c, k, u[i]))]
             t == TradeOf(m, r.id, b.resting[m].price, q)
             v == [i \in DOMAIN s |-> TradeOf(s[i], r.id, b.resting[s[i]].price, FillOf(b, r, s[i]))]
  <2>6. Trades(c, k) = w /\ Trades(b, r) = v BY DEF Trades, s, u
  <2>7. n \in Nat /\ u \in Seq(Makers(c, k)) /\ Len(u) = n /\ DOMAIN u = 1 .. n BY <2>3
  <2> HIDE DEF n
  <2>8. /\ DOMAIN s = 1 .. (n + 1)
        /\ s[1] = m
        /\ \A i \in 1 .. (n + 1) : i # 1 => i - 1 \in 1 .. n /\ s[i] = u[i - 1]
    <3>1. <<m>> \in Seq({m} \cup Makers(c, k)) /\ Len(<<m>>) = 1 /\ u \in Seq({m} \cup Makers(c, k))
      BY <2>7
    <3>2. Len(s) = n + 1 /\ s \in Seq({m} \cup Makers(c, k)) BY <2>5, <2>7, <3>1
    <3>3. \A i \in 1 .. (n + 1) : s[i] = IF i <= 1 THEN <<m>>[i] ELSE u[i - 1]
      BY <2>5, <2>7, <3>1
    <3> QED BY <2>7, <3>2, <3>3
  <2>9. v[1] = t BY <1>8, <2>7, <2>8
  <2>10. \A i \in 1 .. (n + 1) : i # 1 => v[i] = w[i - 1]
    <3> SUFFICES ASSUME NEW i \in 1 .. (n + 1), i # 1 PROVE v[i] = w[i - 1] OBVIOUS
    <3>1. i - 1 \in 1 .. n /\ s[i] = u[i - 1] BY <2>8
    <3>2. u[i - 1] \in Makers(c, k) BY <2>7, <3>1
    <3>3. /\ FillOf(b, r, u[i - 1]) = FillOf(c, k, u[i - 1])
          /\ c.resting[u[i - 1]] = b.resting[u[i - 1]]
      BY <1>3, <1>6, <1>7, <1>10, <3>2
    <3> QED BY <1>5, <2>7, <2>8, <3>1, <3>3
  <2> DEFINE X == {t} \cup {w[i] : i \in 1 .. n}
  <2>11. w \in Seq(X) /\ Len(w) = n BY <2>7
  <2>12. DOMAIN v = 1 .. (n + 1) BY <2>8
  <2>13. v = [i \in 1 .. (n + 1) |-> v[i]] BY <2>12
  <2>14. t \in X OBVIOUS
  <2> HIDE DEF w, t, v, X
  <2>15. <<t>> \o w \in Seq(X) /\ Len(<<t>> \o w) = n + 1 BY <2>7, <2>11, <2>14
  <2>16. \A i \in 1 .. (n + 1) : (<<t>> \o w)[i] = IF i <= 1 THEN t ELSE w[i - 1]
    BY <2>7, <2>11, <2>14
  <2>17. \A i \in 1 .. (n + 1) : (<<t>> \o w)[i] = v[i]
    <3> SUFFICES ASSUME NEW i \in 1 .. (n + 1) PROVE (<<t>> \o w)[i] = v[i] OBVIOUS
    <3>1. CASE i = 1 BY <2>7, <2>9, <2>16, <3>1
    <3>2. CASE i # 1
      <4>1. ~(i <= 1) BY <2>7, <3>2
      <4> QED BY <2>10, <2>16, <3>2, <4>1
    <3> QED BY <3>1, <3>2
  <2>18. v = <<t>> \o w
    <3>1. PICK x : x = <<t>> \o w OBVIOUS
    <3>2. x = [i \in 1 .. (n + 1) |-> x[i]] BY <2>7, <2>15, <3>1
    <3>3. \A i \in 1 .. (n + 1) : x[i] = v[i] BY <2>17, <3>1
    <3> QED BY <2>13, <3>1, <3>2, <3>3
  <2> QED BY <2>6, <2>18 DEF t
<1> QED BY <1>1, <1>11, <1>12, <1>13 DEF SameOutcome

\* Book c is book b with order m reduced by q.
Reduced(b, m, q, c) ==
    /\ c.resting = [b.resting EXCEPT ![m].qty = @ - q]
    /\ c.before = b.before

\* A book stays one when an order is reduced.
LEMMA ReducedBooked ==
    ASSUME NEW b, Booked(b), NEW m \in DOMAIN b.resting,
           NEW q \in Nat, q <= b.resting[m].qty, NEW c, Reduced(b, m, q, c)
    PROVE  Booked(c)
<1>1. DOMAIN c.resting = DOMAIN b.resting /\ c.resting = [o \in DOMAIN c.resting |-> c.resting[o]]
  BY DEF Reduced, Booked
<1>2. ASSUME NEW o \in DOMAIN c.resting
      PROVE  /\ c.resting[o] \in OrderAt
             /\ c.resting[o].side = b.resting[o].side
             /\ c.resting[o].price = b.resting[o].price
  <2>1. b.resting[o] \in OrderAt BY <1>1 DEF Booked
  <2>2. CASE o # m
    <3>1. c.resting[o] = b.resting[o] BY <1>1, <2>2 DEF Reduced
    <3> QED BY <2>1, <3>1
  <2>3. CASE o = m
    <3>1. b.resting[m].qty - q \in Nat BY <2>1, <2>3 DEF OrderAt
    <3>2. c.resting[o] = [b.resting[m] EXCEPT !.qty = b.resting[m].qty - q]
      BY <1>1, <2>3 DEF Reduced
    <3> QED BY <2>1, <2>3, <3>1, <3>2 DEF OrderAt
  <2> QED BY <2>2, <2>3
<1>3. c.resting \in [DOMAIN c.resting -> OrderAt] BY <1>1, <1>2
<1>4. \A x, y \in DOMAIN c.resting : SamePlace(c, x, y) <=> SamePlace(b, x, y)
  BY <1>1, <1>2 DEF SamePlace
<1>5. c.before = b.before BY DEF Reduced
<1>6. Queued(c) BY <1>1, <1>4, <1>5 DEF Queued, Booked
<1> QED BY <1>1, <1>3, <1>6 DEF Booked

\* A fill that uses up the request leaves nothing to do for the rest of the matching.
THEOREM PartFill ==
    ASSUME NEW b, Booked(b), NEW r, r.qty \in Nat, r.qty > 0, NEW m, First(b, r, m),
           r.qty < b.resting[m].qty,
           NEW c, Reduced(b, m, r.qty, c), NEW k, LeftOf(r, r.qty, k)
    PROVE  SameOutcome(b, r, c, k, m, r.qty)
<1>1. PICK q : q = b.resting[m].qty OBVIOUS
<1>2. /\ m \in Reached(b, r) /\ m \in DOMAIN b.resting /\ q \in Nat /\ QtyAhead(b, r, m) = 0
      /\ r.qty < q
  BY <1>1, FirstAhead DEF First
<1>3. Booked(c) BY <1>1, <1>2, ReducedBooked
<1>4. k.qty = 0 BY DEF LeftOf
<1>5. AfterTrades(c, k) = c.resting /\ Trades(c, k) = <<>> /\ Unfilled(c, k) = 0
  BY <1>3, <1>4, NothingTaken
<1> DEFINE a == [resting |-> [o \in DOMAIN b.resting \ {m} |-> b.resting[o]],
                 before |-> Among(b, DOMAIN b.resting \ {m})]
<1>6. Without(b, m, a) BY DEF Without
<1>7. LeftOf(r, 0, r) BY DEF LeftOf
<1> HIDE DEF a
<1>8. /\ Booked(a)
      /\ Reached(a, r) = Reached(b, r) \ {m}
      /\ TotalQty(b, Reached(b, r)) = q + TotalQty(a, Reached(a, r))
      /\ \A o \in Reached(a, r) : QtyAhead(b, r, o) = q + QtyAhead(a, r, o)
  BY <1>1, <1>2, <1>6, <1>7, WithoutBooked, WithoutFirst
<1>9. Reached(a, r) \in SUBSET DOMAIN a.resting BY DEF Reached
<1>10. Makers(b, r) = {m}
  <2>1. ASSUME NEW o \in Reached(b, r) \ {m} PROVE ~(QtyAhead(b, r, o) < r.qty)
    <3>1. {x \in Reached(a, r) : Outranks(a, x, o)} \in SUBSET DOMAIN a.resting BY <1>9
    <3>2. QtyAhead(a, r, o) \in Nat BY <1>8, <3>1, TotalIsNat DEF QtyAhead
    <3>3. QtyAhead(b, r, o) = q + QtyAhead(a, r, o) BY <1>8
    <3> QED BY <1>2, <3>2, <3>3
  <2> QED BY <1>2, <2>1 DEF Makers
<1>11. FillOf(b, r, m) = r.qty
  <2>1. FillOf(b, r, m) = Min({q, r.qty - 0}) BY <1>1, <1>2 DEF FillOf
  <2>2. r.qty - 0 = r.qty OBVIOUS
  <2> QED BY <1>2, <2>1, <2>2, MinOfTwo
<1>12. AfterTrades(b, r) = c.resting
  <2>1. Exhausted(b, r) = {} BY <1>1, <1>2, <1>10, <1>11 DEF Exhausted
  <2>2. AfterTrades(b, r) = [o \in DOMAIN b.resting |->
          IF o = m THEN [b.resting[o] EXCEPT !.qty = @ - r.qty] ELSE b.resting[o]]
    BY <1>10, <1>11, <2>1 DEF AfterTrades
  <2> QED BY <2>2 DEF Reduced, Booked
<1>13. Unfilled(b, r) = 0
  <2>1. PICK t : t = TotalQty(a, Reached(a, r)) OBVIOUS
  <2>2. t \in Nat BY <1>8, <1>9, <2>1, TotalIsNat
  <2>3. Unfilled(b, r) = r.qty - Min({r.qty, q + t}) BY <1>8, <2>1 DEF Unfilled
  <2>4. q + t \in Nat /\ r.qty <= q + t BY <1>2, <2>2
  <2>5. Min({r.qty, q + t}) = r.qty BY <2>4, MinOfTwo
  <2> QED BY <2>3, <2>5
<1>14. Trades(b, r) = <<TradeOf(m, r.id, b.resting[m].price, r.qty)>>
  <2> DEFINE s == MakersInOrder(b, r)
  <2>1. s \in SetToSeqs({m}) BY <1>10, MakersListed
  <2>2. DOMAIN s = 1 .. 1 /\ s[1] = m
    <3>1. Cardinality({m}) = 1 BY FS_Singleton
    <3> QED BY <2>1, <3>1 DEF SetToSeqs
  <2>3. Trades(b, r) = [i \in DOMAIN s |->
          TradeOf(s[i], r.id, b.resting[s[i]].price, FillOf(b, r, s[i]))]
    BY DEF Trades
  <2> HIDE DEF s
  <2>4. Trades(b, r) = [i \in 1 .. 1 |-> TradeOf(m, r.id, b.resting[m].price, r.qty)]
    BY <1>11, <2>2, <2>3
  <2> QED BY <2>4
<1>15. <<TradeOf(m, r.id, b.resting[m].price, r.qty)>> \o <<>> = <<TradeOf(m, r.id, b.resting[m].price, r.qty)>>
  OBVIOUS
<1> QED BY <1>5, <1>12, <1>13, <1>14, <1>15 DEF SameOutcome

\* The trades of a request are a sequence.
LEMMA TradesListed ==
    ASSUME NEW b, Booked(b), NEW r, r.qty \in Nat, NEW t, t = Trades(b, r)
    PROVE  t \in Seq({t[i] : i \in DOMAIN t})
<1>1. TradesOfMakers(b, r, t) BY TradesAre
<1>2. PICK n \in Nat : DOMAIN t = 1 .. n BY <1>1 DEF TradesOfMakers
<1>3. t = [i \in DOMAIN t |-> t[i]] BY DEF Trades
<1> DEFINE V == {t[i] : i \in DOMAIN t}
<1>4. \A i \in DOMAIN t : t[i] \in V OBVIOUS
<1> HIDE DEF V
<1>5. t \in [1 .. n -> V] BY <1>2, <1>3, <1>4
<1>6. t \in Seq(V) BY <1>5
<1> QED BY <1>6 DEF V

\* Trades in the order they are made.
LEMMA TradesJoin ==
    ASSUME NEW U, NEW V, NEW s \in Seq(U), NEW x, NEW t \in Seq(V)
    PROVE  /\ s \o <<>> = s
           /\ <<>> \o t = t
           /\ s \o (<<x>> \o t) = Append(s, x) \o t
<1> DEFINE W == U \cup V \cup {x}
<1>1. s \in Seq(W) /\ t \in Seq(W) /\ x \in W OBVIOUS
<1> HIDE DEF W
<1> QED BY <1>1
==============================================================================
