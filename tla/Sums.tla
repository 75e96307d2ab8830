------------------------------- MODULE Sums -------------------------------
(***************************************************************************)
(* Induction over finite sets and numbers, and sums over finite sets: that   *)
(* SumFunction and MapThenSumSet add up each element once, in whatever order. *)
(*                                                                         *)
(* A theorem that takes an operator as a parameter cannot be used by the     *)
(* provers; so the induction over the finite subsets of a set is stated for  *)
(* a set G of sets (SetInduction).                                          *)
(***************************************************************************)
EXTENDS Integers, FiniteSetsExt, Functions, FiniteSetTheorems, WellFoundedInduction, TLAPS

-----------------------------------------------------------------------------
(* Induction. *)

\* What holds for a set when it holds for the set without any one of its elements
\* holds for every finite set: a smallest set for which it fails cannot exist.
LEMMA SetInduction ==
    ASSUME NEW S, IsFiniteSet(S), NEW G,
           \A T \in SUBSET S : (\A x \in T : T \ {x} \in G) => T \in G
    PROVE  SUBSET S \subseteq G
  <1> DEFINE bad == (SUBSET S) \ G
  <1> SUFFICES ASSUME bad # {} PROVE FALSE
    OBVIOUS
  <1>1. IsWellFoundedOn(StrictSubsetOrdering(S), SUBSET S)
    <2>1. FiniteSubsetsOf(S) = SUBSET S
      BY FS_FiniteSubsetsOfFinite
    <2>2. IsWellFoundedOn(StrictSubsetOrdering(S), FiniteSubsetsOf(S))
      BY FS_StrictSubsetOrderingWellFounded
    <2> QED
      BY <2>1, <2>2
  <1>2. PICK T \in bad : \A U \in bad : ~(<<U, T>> \in StrictSubsetOrdering(S))
    BY <1>1, WFMin
  <1>3. ASSUME NEW x \in T
        PROVE  T \ {x} \in G
    <2>1. <<T \ {x}, T>> \in StrictSubsetOrdering(S)
      BY <1>3 DEF StrictSubsetOrdering
    <2> QED
      BY <1>2, <2>1
  <1> QED
    BY <1>2, <1>3

\* Induction from 0 up to n, on the sets 1..k.
LEMMA NatInduct ==
    ASSUME NEW n \in Nat, NEW G, 0 \in G, \A k \in 1..n : k - 1 \in G => k \in G
    PROVE  0..n \subseteq G
  <1> DEFINE S == 1..n
             H == {T \in SUBSET S : \A k \in 0..n : T = 1..k => k \in G}
  <1>1. IsFiniteSet(S)
    BY FS_Interval
  <1>2. ASSUME NEW T \in SUBSET S, \A x \in T : T \ {x} \in H
        PROVE  T \in H
    <2> SUFFICES ASSUME NEW k \in 0..n, T = 1..k
                 PROVE  k \in G
      OBVIOUS
    <2>1. CASE k = 0
      BY <2>1
    <2>2. CASE k # 0
      <3>1. k \in T /\ T \ {k} = 1..(k - 1) /\ k - 1 \in 0..n /\ k \in 1..n
        BY <2>2
      <3>2. k - 1 \in G
        BY <3>1, <1>2
      <3> QED
        BY <3>1, <3>2
    <2> QED
      BY <2>1, <2>2
  <1> HIDE DEF H, S
  <1>3. SUBSET S \subseteq H
    BY <1>1, <1>2, SetInduction
  <1>4. ASSUME NEW k \in 0..n
        PROVE  k \in G
    <2>1. 1..k \in SUBSET S
      BY DEF S
    <2> QED
      BY <1>3, <2>1 DEF H
  <1> QED
    BY <1>4

\* A function on the subsets of T that takes its elements away one by one, in
\* the order that c says, and puts them together again with g.
Folds(h, T, base, c, g) ==
    \A s \in SUBSET T : h[s] = IF s = {} THEN base ELSE g[<<c[s], h[s \ {c[s]}]>>]

\* There is at most one such function ...
LEMMA FoldUnique ==
    ASSUME NEW S, IsFiniteSet(S), NEW base, NEW c, NEW g, NEW h, NEW k,
           \A s \in SUBSET S : s # {} => c[s] \in s,
           Folds(h, S, base, c, g), Folds(k, S, base, c, g)
    PROVE  \A s \in SUBSET S : h[s] = k[s]
  <1> DEFINE G == {s \in SUBSET S : h[s] = k[s]}
  <1>1. ASSUME NEW T \in SUBSET S, \A x \in T : T \ {x} \in G
        PROVE  T \in G
    BY <1>1 DEF Folds
  <1> HIDE DEF G
  <1>2. SUBSET S \subseteq G
    BY <1>1, SetInduction
  <1> QED
    BY <1>2 DEF G

\* ... and there is one, if g has a value for every argument.
LEMMA FoldExists ==
    ASSUME NEW S, IsFiniteSet(S), NEW V, NEW base \in V, NEW c,
           NEW g \in [S \X V -> V],
           \A s \in SUBSET S : s # {} => c[s] \in s
    PROVE  \E h \in [SUBSET S -> V] : Folds(h, S, base, c, g)
  <1> DEFINE P(T) == {h \in [SUBSET T -> V] : Folds(h, T, base, c, g)}
             G == {T \in SUBSET S : P(T) # {}}
  <1>1. ASSUME NEW T \in SUBSET S, \A x \in T : T \ {x} \in G
        PROVE  T \in G
    <2>1. CASE T = {}
      <3> DEFINE h == [s \in SUBSET T |-> base]
      <3>1. h \in P(T)
        BY <2>1 DEF Folds
      <3> QED
        BY <3>1
    <2>2. CASE T # {}
      <3> DEFINE Q(x) == CHOOSE h \in P(T \ {x}) : TRUE
      <3>1. ASSUME NEW x \in T
            PROVE  Q(x) \in P(T \ {x})
        BY <1>1
      <3>2. ASSUME NEW x \in T, NEW y \in T, NEW s \in SUBSET ((T \ {x}) \ {y})
            PROVE  Q(x)[s] = Q(y)[s]
        <4>1. Folds(Q(x), (T \ {x}) \ {y}, base, c, g) /\ Folds(Q(y), (T \ {x}) \ {y}, base, c, g)
          BY <3>1 DEF Folds
        <4>2. IsFiniteSet((T \ {x}) \ {y})
          BY FS_Subset
        <4> HIDE DEF Q
        <4> QED
          BY <4>1, <4>2, FoldUnique
      <3> DEFINE out(s) == CHOOSE x \in T : x \notin s
                 part(s) == Q(out(s))[s]
                 h == [s \in SUBSET T |-> IF s # T THEN part(s)
                                          ELSE g[<<c[T], part(T \ {c[T]})>>]]
      <3>3. ASSUME NEW s \in SUBSET T, s # T
            PROVE  /\ out(s) \in T /\ out(s) \notin s
                   /\ part(s) \in V
                   /\ \A x \in T : x \notin s => part(s) = Q(x)[s]
        <4>1. out(s) \in T /\ out(s) \notin s
          BY <3>3
        <4> HIDE DEF Q, out
        <4>2. Q(out(s)) \in [SUBSET (T \ {out(s)}) -> V]
          BY <4>1, <3>1
        <4>3. s \in SUBSET (T \ {out(s)})
          BY <4>1
        <4>4. ASSUME NEW x \in T, x \notin s
              PROVE  Q(out(s))[s] = Q(x)[s]
          BY <4>1, <4>4, <3>2
        <4> QED
          BY <4>1, <4>2, <4>3, <4>4
      <3>4. c[T] \in T /\ T \ {c[T]} \in SUBSET T /\ T \ {c[T]} # T
        BY <2>2
      <3>5. h \in [SUBSET T -> V]
        <4> HIDE DEF part
        <4>1. g[<<c[T], part(T \ {c[T]})>>] \in V
          BY <3>3, <3>4
        <4> QED
          BY <4>1, <3>3
      <3>6. ASSUME NEW s \in SUBSET T
            PROVE  h[s] = IF s = {} THEN base ELSE g[<<c[s], h[s \ {c[s]}]>>]
        <4>1. CASE s = T
          <5> HIDE DEF part
          <5> QED
            BY <4>1, <3>4, <2>2
        <4>2. CASE s # T
          <5> DEFINE x == out(s)
          <5>1. x \in T /\ x \notin s /\ h[s] = Q(x)[s]
            BY <3>3, <4>2
          <5>2. Q(x) \in P(T \ {x}) /\ s \in SUBSET (T \ {x})
            BY <3>1, <5>1
          <5> HIDE DEF Q, out, x
          <5>3. CASE s = {}
            BY <5>1, <5>2, <5>3 DEF Folds
          <5>4. CASE s # {}
            <6>1. Q(x)[s] = g[<<c[s], Q(x)[s \ {c[s]}]>>]
              BY <5>2, <5>4 DEF Folds
            <6>2. s \ {c[s]} \in SUBSET T /\ s \ {c[s]} # T /\ x \notin s \ {c[s]}
              BY <5>1
            <6>3. h[s \ {c[s]}] = Q(x)[s \ {c[s]}]
              BY <6>2, <5>1, <3>3
            <6> QED
              BY <5>1, <5>4, <6>1, <6>3
          <5> QED
            BY <5>3, <5>4
        <4> QED
          BY <4>1, <4>2
      <3>7. h \in P(T)
        BY <3>5, <3>6 DEF Folds
      <3> QED
        BY <3>7
    <2> QED
      BY <2>1, <2>2
  <1> HIDE DEF G
  <1>2. SUBSET S \subseteq G
    BY <1>1, SetInduction
  <1> QED
    BY <1>2 DEF G

-----------------------------------------------------------------------------
(* Sums. *)

\* The weights of the elements of a finite set.
IsWeights(w, S) == IsFiniteSet(S) /\ w \in [S -> Int]

\* it adds up the weights w of the elements of S, in whatever order.
IsSum(it, S, w) ==
    /\ it[{}] = 0
    /\ \A s \in SUBSET S : s # {} => \E x \in s : it[s] = w[x] + it[s \ {x}]

\* The order does not matter.
LEMMA SumAnyOrder ==
    ASSUME NEW S, NEW w, IsWeights(w, S), NEW it, IsSum(it, S, w)
    PROVE  \A s \in SUBSET S : it[s] \in Int /\ \A y \in s : it[s] = w[y] + it[s \ {y}]
  <1> DEFINE F == {s \in SUBSET S : it[s] \in Int}
             G == {s \in SUBSET S : \A y \in s : it[s] = w[y] + it[s \ {y}]}
  <1>0. IsFiniteSet(S) /\ w \in [S -> Int]
    BY DEF IsWeights
  <1>1. ASSUME NEW T \in SUBSET S, \A x \in T : T \ {x} \in F
        PROVE  T \in F
    <2>1. CASE T = {}
      BY <2>1 DEF IsSum
    <2>2. CASE T # {}
      <3>1. PICK x \in T : it[T] = w[x] + it[T \ {x}]
        BY <2>2 DEF IsSum
      <3> QED
        BY <1>0, <1>1, <3>1
    <2> QED
      BY <2>1, <2>2
  <1> HIDE DEF F
  <1>2. SUBSET S \subseteq F
    BY <1>0, <1>1, SetInduction
  <1>3. \A s \in SUBSET S : it[s] \in Int
    BY <1>2 DEF F
  <1>4. ASSUME NEW T \in SUBSET S, \A x \in T : T \ {x} \in G
        PROVE  T \in G
    <2> SUFFICES ASSUME NEW y \in T
                 PROVE  it[T] = w[y] + it[T \ {y}]
      OBVIOUS
    <2>1. PICK x \in T : it[T] = w[x] + it[T \ {x}]
      BY DEF IsSum
    <2>2. CASE x = y
      BY <2>1, <2>2
    <2>3. CASE x # y
      <3> DEFINE R == (T \ {x}) \ {y}
      <3>1. R = (T \ {y}) \ {x} /\ R \in SUBSET S
        OBVIOUS
      <3>2. it[T \ {x}] = w[y] + it[R] /\ it[T \ {y}] = w[x] + it[R]
        BY <1>4, <2>3, <3>1
      <3>3. it[R] \in Int /\ w[x] \in Int /\ w[y] \in Int
        BY <1>0, <1>3, <3>1
      <3> QED
        BY <2>1, <3>2, <3>3
    <2> QED
      BY <2>2, <2>3
  <1> HIDE DEF G
  <1>5. SUBSET S \subseteq G
    BY <1>0, <1>4, SetInduction
  <1> QED
    BY <1>3, <1>5 DEF G

\* Two such functions agree.
LEMMA SumUnique ==
    ASSUME NEW S, NEW w, IsWeights(w, S),
           NEW it, IsSum(it, S, w), NEW jt, IsSum(jt, S, w)
    PROVE  \A s \in SUBSET S : it[s] = jt[s]
  <1> DEFINE G == {s \in SUBSET S : it[s] = jt[s]}
  <1>0. IsFiniteSet(S)
    BY DEF IsWeights
  <1>1. ASSUME NEW T \in SUBSET S, \A x \in T : T \ {x} \in G
        PROVE  T \in G
    <2>1. CASE T = {}
      BY <2>1 DEF IsSum
    <2>2. CASE T # {}
      <3>1. PICK x \in T : TRUE
        BY <2>2
      <3>2. it[T] = w[x] + it[T \ {x}] /\ jt[T] = w[x] + jt[T \ {x}]
        BY SumAnyOrder
      <3> QED
        BY <1>1, <3>1, <3>2
    <2> QED
      BY <2>1, <2>2
  <1> HIDE DEF G
  <1>2. SUBSET S \subseteq G
    BY <1>0, <1>1, SetInduction
  <1> QED
    BY <1>2 DEF G

\* The functions that MapThenFoldSet takes to add up w in the order c are sums.
AddsInOrder(h, S, w, c) ==
    h = [s \in SUBSET S |-> IF s = {} THEN 0 ELSE w[c[s]] + h[s \ {c[s]}]]

\* There is a sum in any order c, and every sum in order c is a sum.
LEMMA SumsChosen ==
    ASSUME NEW S, NEW w, IsWeights(w, S), NEW c,
           \A s \in SUBSET S : s # {} => c[s] \in s
    PROVE  /\ \E h : AddsInOrder(h, S, w, c)
           /\ \A h : AddsInOrder(h, S, w, c) => IsSum(h, S, w)
  <1> DEFINE g == [p \in S \X Int |-> w[p[1]] + p[2]]
  <1>1. g \in [S \X Int -> Int] /\ 0 \in Int /\ IsFiniteSet(S)
    BY DEF IsWeights
  <1>2. \A x \in S, v \in Int : g[<<x, v>>] = w[x] + v
    OBVIOUS
  <1> HIDE DEF g
  <1>3. PICK h \in [SUBSET S -> Int] : Folds(h, S, 0, c, g)
    BY <1>1, FoldExists
  <1>4. ASSUME NEW s \in SUBSET S
        PROVE  h[s] = IF s = {} THEN 0 ELSE w[c[s]] + h[s \ {c[s]}]
    <2>1. s \ {c[s]} \in SUBSET S
      OBVIOUS
    <2> QED
      BY <1>2, <1>3, <2>1 DEF Folds
  <1>5. AddsInOrder(h, S, w, c)
    BY <1>3, <1>4 DEF AddsInOrder
  <1>6. ASSUME NEW k, AddsInOrder(k, S, w, c)
        PROVE  IsSum(k, S, w)
    <2>1. \A s \in SUBSET S : k[s] = IF s = {} THEN 0 ELSE w[c[s]] + k[s \ {c[s]}]
      BY <1>6 DEF AddsInOrder
    <2> QED
      BY <2>1 DEF IsSum
  <1> QED
    BY <1>5, <1>6

\* SumFunction is defined by the sum in the order of CHOOSE.
LEMMA TotalIsSum ==
    ASSUME NEW S, NEW w, IsWeights(w, S)
    PROVE  \E it : IsSum(it, S, w) /\ SumFunction(w) = it[S]
  <1> DEFINE c == [s \in SUBSET S |-> CHOOSE x \in s : TRUE]
             E(h) == [s \in SUBSET S |-> IF s = {} THEN 0
                        ELSE w[CHOOSE x \in s : TRUE] + h[s \ {CHOOSE x \in s : TRUE}]]
             iter == CHOOSE h : h = E(h)
  <1>1. SumFunction(w) = iter[S]
    BY DEF SumFunction, SumFunctionOnSet, FoldFunctionOnSet, MapThenFoldSet, IsWeights
  <1>2. \A s \in SUBSET S : s # {} => c[s] \in s
    OBVIOUS
  <1>3. \A s \in SUBSET S : c[s] = CHOOSE x \in s : TRUE
    OBVIOUS
  <1> HIDE DEF c
  <1>4. \A h : AddsInOrder(h, S, w, c) <=> h = E(h)
    BY <1>3 DEF AddsInOrder
  <1> HIDE DEF E
  <1>5. PICK h : AddsInOrder(h, S, w, c)
    BY <1>2, SumsChosen
  <1>6. iter = E(iter)
    BY <1>4, <1>5
  <1> HIDE DEF iter
  <1>7. IsSum(iter, S, w)
    BY <1>2, <1>4, <1>6, SumsChosen
  <1> QED
    BY <1>1, <1>7

\* Any way to add up gives the total.
LEMMA TotalOf ==
    ASSUME NEW S, NEW w, IsWeights(w, S), NEW it, IsSum(it, S, w)
    PROVE  it[S] = SumFunction(w)
  <1>1. PICK jt : IsSum(jt, S, w) /\ SumFunction(w) = jt[S]
    BY TotalIsSum
  <1>2. it[S] = jt[S]
    BY <1>1, SumUnique
  <1> QED
    BY <1>1, <1>2

\* A sum is a number, and not negative if no weight is.
LEMMA TotalType ==
    ASSUME NEW S, NEW w, IsWeights(w, S)
    PROVE  /\ SumFunction(w) \in Int
           /\ S = {} => SumFunction(w) = 0
           /\ (\A x \in S : w[x] >= 0) => SumFunction(w) >= 0
  <1>1. PICK it : IsSum(it, S, w) /\ SumFunction(w) = it[S]
    BY TotalIsSum
  <1>2. \A s \in SUBSET S : it[s] \in Int /\ \A y \in s : it[s] = w[y] + it[s \ {y}]
    <2>1. IsSum(it, S, w)
      BY <1>1
    <2> QED
      BY <2>1, SumAnyOrder
  <1>3. S = {} => SumFunction(w) = 0
    BY <1>1 DEF IsSum
  <1>4. ASSUME \A x \in S : w[x] >= 0
        PROVE  SumFunction(w) >= 0
    <2> DEFINE G == {s \in SUBSET S : it[s] >= 0}
    <2>1. ASSUME NEW T \in SUBSET S, \A x \in T : T \ {x} \in G
          PROVE  T \in G
      <3>1. CASE T = {}
        BY <3>1, <1>1 DEF IsSum
      <3>2. CASE T # {}
        <4>1. PICK x \in T : TRUE
          BY <3>2
        <4>2. it[T \ {x}] >= 0 /\ it[T] = w[x] + it[T \ {x}] /\ w[x] >= 0
          BY <2>1, <1>2, <1>4
        <4>3. it[T \ {x}] \in Int /\ w[x] \in Int
          BY <1>2 DEF IsWeights
        <4> QED
          BY <4>2, <4>3
      <3> QED
        BY <3>1, <3>2
    <2> HIDE DEF G
    <2>2. SUBSET S \subseteq G
      BY <2>1, SetInduction DEF IsWeights
    <2> QED
      BY <2>2, <1>1 DEF G
  <1> QED
    BY <1>1, <1>2, <1>3, <1>4

\* One element taken out.
Without(v, w, S, x) == v = [y \in S \ {x} |-> w[y]]

\* Its weight and the sum of the others make the sum.
LEMMA TotalSplit ==
    ASSUME NEW S, NEW w, IsWeights(w, S), NEW x \in S, NEW v, Without(v, w, S, x)
    PROVE  SumFunction(w) = w[x] + SumFunction(v) /\ SumFunction(v) \in Int
  <1> DEFINE R == S \ {x}
  <1>1. PICK it : IsSum(it, S, w) /\ SumFunction(w) = it[S]
    BY TotalIsSum
  <1>2. it[S] = w[x] + it[R]
    BY <1>1, SumAnyOrder
  <1>3. IsWeights(v, R)
    BY FS_RemoveElement DEF IsWeights, Without
  <1>4. IsSum(it, R, v)
    BY <1>1 DEF IsSum, Without
  <1> HIDE DEF R
  <1>5. it[R] = SumFunction(v) /\ SumFunction(v) \in Int
    BY <1>3, <1>4, TotalOf, TotalType
  <1> QED
    BY <1>1, <1>2, <1>5

\* More weights, none of them negative, are not less.
LEMMA SumGrows ==
    ASSUME NEW Q, NEW P, P \subseteq Q, NEW w, IsWeights(w, Q), \A x \in Q : w[x] >= 0,
           NEW v, IsWeights(v, P), \A x \in P : v[x] = w[x],
           NEW it, IsSum(it, P, v), NEW jt, IsSum(jt, Q, w)
    PROVE  it[P] = jt[P] /\ jt[P] \in Int /\ jt[Q] \in Int /\ jt[P] <= jt[Q]
  <1>1. \A s \in SUBSET Q : jt[s] \in Int /\ \A y \in s : jt[s] = w[y] + jt[s \ {y}]
    BY SumAnyOrder
  <1>2. IsSum(jt, P, v)
    <2>1. jt[{}] = 0
      BY DEF IsSum
    <2>2. ASSUME NEW s \in SUBSET P, s # {}
          PROVE  \E x \in s : jt[s] = v[x] + jt[s \ {x}]
      <3>1. PICK x \in s : TRUE
        BY <2>2
      <3>2. jt[s] = w[x] + jt[s \ {x}] /\ v[x] = w[x]
        BY <1>1
      <3> QED
        BY <3>2
    <2> QED
      BY <2>1, <2>2 DEF IsSum
  <1>3. it[P] = jt[P]
    BY <1>2, SumUnique
  <1> DEFINE G == {s \in SUBSET Q : jt[s \cap P] <= jt[s]}
  <1>4. ASSUME NEW T \in SUBSET Q, \A x \in T : T \ {x} \in G
        PROVE  T \in G
    <2>1. CASE T \subseteq P
      <3>1. T \cap P = T /\ jt[T] \in Int
        BY <1>1, <2>1
      <3> QED
        BY <3>1
    <2>2. CASE ~(T \subseteq P)
      <3>1. PICK x \in T : x \notin P
        BY <2>2
      <3>2. (T \ {x}) \cap P = T \cap P
        BY <3>1
      <3>3. jt[T] = w[x] + jt[T \ {x}] /\ jt[T \cap P] <= jt[T \ {x}]
        BY <1>1, <1>4, <3>2
      <3>4. jt[T \ {x}] \in Int /\ jt[T \cap P] \in Int /\ w[x] >= 0 /\ w[x] \in Int
        BY <1>1 DEF IsWeights
      <3> QED
        BY <3>3, <3>4
    <2> QED
      BY <2>1, <2>2
  <1> HIDE DEF G
  <1>5. SUBSET Q \subseteq G
    BY <1>4, SetInduction DEF IsWeights
  <1>6. Q \cap P = P /\ Q \in SUBSET Q /\ P \in SUBSET Q
    OBVIOUS
  <1>7. jt[P] <= jt[Q] /\ jt[P] \in Int /\ jt[Q] \in Int
    BY <1>1, <1>5, <1>6 DEF G
  <1> QED
    BY <1>3, <1>7
=============================================================================
