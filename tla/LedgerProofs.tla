---------------------------- MODULE LedgerProofs ----------------------------
(***************************************************************************)
(* The properties of Ledger for any wallets, amounts and bounds: that        *)
(* GetUnspentTxOuts, GetAddressLedger and /rest/tx tell what they should of   *)
(* every chain the node can have.                                          *)
(*                                                                         *)
(* Those functions are loops over the transactions of the chain, and a       *)
(* property of them needs an induction over the chain.  It is made of the     *)
(* induction over the finite subsets of a set (SetInduction, in Sums): a loop *)
(* has values f[0], ..., f[n] of which each follows from the one before       *)
(* (FoldLeftUnrolls), and a set of numbers that has 0 and k with k - 1 has    *)
(* all of 0..n (NatInduct).  What a loop computes is then shown turn by turn. *)
(*                                                                         *)
(* LedgerInv is the invariant under the properties.                         *)
(***************************************************************************)
EXTENDS Ledger, Sums
-----------------------------------------------------------------------------
(* Induction and loops. *)

\* The turn of a loop over 1..n that comes last is the largest.
LEMMA MaxOf ==
    ASSUME NEW n \in Nat, NEW s \in SUBSET (1..n), s # {}
    PROVE  /\ Max(s) \in s
           /\ \A k \in 1..n : s = 1..k => Max(s) = k
  <1> DEFINE S == 1..n
             G == {T \in SUBSET S : T # {} => \E x \in T : \A y \in T : x >= y}
  <1>1. ASSUME NEW T \in SUBSET S, \A x \in T : T \ {x} \in G
        PROVE  T \in G
    <2> SUFFICES ASSUME NEW x \in T
                 PROVE  \E z \in T : \A y \in T : z >= y
      OBVIOUS
    <2>1. CASE T \ {x} = {}
      BY <2>1
    <2>2. CASE T \ {x} # {}
      <3>1. PICK z \in T \ {x} : \A y \in T \ {x} : z >= y
        BY <1>1, <2>2
      <3> QED
        BY <3>1
    <2> QED
      BY <2>1, <2>2
  <1>2. SUBSET S \subseteq G
    <2>1. IsFiniteSet(S)
      BY FS_Interval
    <2> HIDE DEF S, G
    <2> QED
      BY <2>1, <1>1, SetInduction
  <1>3. \E x \in s : \A y \in s : x >= y
    BY <1>2
  <1>4. Max(s) \in s /\ \A y \in s : Max(s) >= y
    BY <1>3 DEF Max
  <1> QED
    BY <1>4

\* Min is in the set, and no element is smaller.
LEMMA MinOf ==
    ASSUME NEW s \in SUBSET Nat, s # {}
    PROVE  Min(s) \in s /\ \A y \in s : Min(s) <= y
  <1>1. PICK k \in s : TRUE
    OBVIOUS
  <1> DEFINE S == 0..k
             U == {0..n : n \in {i \in s : i <= k}}
  <1>2. U \subseteq SUBSET S /\ S \in U
    OBVIOUS
  <1>3. IsWellFoundedOn(StrictSubsetOrdering(S), SUBSET S)
    <2> HIDE DEF U
    <2>1. IsFiniteSet(S)
      BY FS_Interval
    <2> HIDE DEF S
    <2>2. FiniteSubsetsOf(S) = SUBSET S
      BY <2>1, FS_FiniteSubsetsOfFinite
    <2>3. IsWellFoundedOn(StrictSubsetOrdering(S), FiniteSubsetsOf(S))
      BY FS_StrictSubsetOrderingWellFounded
    <2> QED
      BY <2>2, <2>3
  <1>4. PICK x \in U : \A y \in U : ~(<<y, x>> \in StrictSubsetOrdering(S))
    <2> HIDE DEF S, U
    <2> QED
      BY <1>2, <1>3, WFMin
  <1>5. PICK n \in s : n <= k /\ x = 0..n
    OBVIOUS
  <1>6. ASSUME NEW m \in s, m < n
        PROVE  FALSE
    <2>1. 0..m \in U /\ 0..m \subseteq 0..n /\ 0..m # 0..n
      BY <1>5, <1>6
    <2> QED
      BY <1>2, <1>4, <1>5, <2>1 DEF StrictSubsetOrdering
  <1>7. \A y \in s : n <= y
    BY <1>6
  <1> QED
    BY <1>7 DEF Min

\* One turn of a loop over 1..n: from the turn's number and the value before it
\* to the value after it, which stays in V.
IsTurn(g, n, V) == g \in [(1..n) \X V -> V]

\* The values f[0], ..., f[n] of a loop, ...
IsLoop(f, n, V, base, g) ==
    /\ f \in [0..n -> V]
    /\ f[0] = base
    /\ \A k \in 1..n : f[k] = g[<<k, f[k - 1]>>]

\* ... and the function on sets of turns that FoldLeft defines for it.
IsFold(it, n, V, base, g) ==
    /\ it[{}] = base
    /\ \A s \in SUBSET (1..n) :
           s # {} /\ it[s \ {Max(s)}] \in V => it[s] = g[<<Max(s), it[s \ {Max(s)}]>>]

\* Such a function exists, ...
LEMMA FoldLeftExists ==
    ASSUME NEW n \in Nat, NEW V, NEW base \in V, NEW g, IsTurn(g, n, V)
    PROVE  \E h : /\ h \in [SUBSET (1..n) -> V]
                  /\ IsFold(h, n, V, base, g)
  <1> DEFINE S == 1..n
             c == [s \in SUBSET S |-> Max(s)]
  <1>1. IsFiniteSet(S)
    BY FS_Interval
  <1>2. \A s \in SUBSET S : s # {} => c[s] \in s
    BY MaxOf
  <1>3. g \in [S \X V -> V]
    BY DEF IsTurn
  <1>4. PICK h \in [SUBSET S -> V] : Folds(h, S, base, c, g)
    <2> HIDE DEF S, c
    <2> QED
      BY <1>1, <1>2, <1>3, FoldExists
  <1>5. \A s \in SUBSET S : c[s] = Max(s)
    OBVIOUS
  <1> HIDE DEF c
  <1>6. IsFold(h, n, V, base, g)
    BY <1>4, <1>5 DEF Folds, IsFold
  <1> QED
    BY <1>4, <1>6

\* ... and on the first k turns it is the loop's value after them.
LEMMA FoldLeftUnrolls ==
    ASSUME NEW n \in Nat, NEW V, NEW base \in V, NEW g, IsTurn(g, n, V),
           NEW it, IsFold(it, n, V, base, g)
    PROVE  IsLoop([k \in 0..n |-> it[1..k]], n, V, base, g)
  <1> DEFINE G == {k \in 0..n : it[1..k] \in V}
  <1>1. 1..0 = {} /\ it[1..0] = base
    BY DEF IsFold
  <1>2. ASSUME NEW k \in 1..n, it[1..(k - 1)] \in V
        PROVE  it[1..k] = g[<<k, it[1..(k - 1)]>>] /\ it[1..k] \in V
    <2>1. 1..k \in SUBSET (1..n) /\ 1..k # {} /\ (1..k) \ {k} = 1..(k - 1)
      OBVIOUS
    <2>2. Max(1..k) = k
      BY <2>1, MaxOf
    <2>3. it[1..k] = g[<<k, it[1..(k - 1)]>>]
      BY <1>2, <2>1, <2>2 DEF IsFold
    <2> QED
      BY <1>2, <2>3 DEF IsTurn
  <1>3. 0 \in G
    BY <1>1
  <1>4. \A k \in 1..n : k - 1 \in G => k \in G
    <2> SUFFICES ASSUME NEW k \in 1..n, k - 1 \in G PROVE k \in G
      OBVIOUS
    <2>1. it[1..(k - 1)] \in V
      OBVIOUS
    <2>2. it[1..k] \in V
      BY <1>2, <2>1
    <2>3. k \in 0..n
      OBVIOUS
    <2> QED
      BY <2>2, <2>3
  <1>5. 0..n \subseteq G
    <2> HIDE DEF G
    <2> QED
      BY <1>3, <1>4, NatInduct
  <1>6. \A k \in 0..n : it[1..k] \in V
    BY <1>5
  <1>7. \A k \in 1..n : k \in 0..n /\ k - 1 \in 0..n
    OBVIOUS
  <1> DEFINE f == [k \in 0..n |-> it[1..k]]
  <1>8. f \in [0..n -> V] /\ f[0] = base /\ \A k \in 0..n : f[k] = it[1..k]
    BY <1>1, <1>6
  <1>9. ASSUME NEW k \in 1..n
        PROVE  f[k] = g[<<k, f[k - 1]>>]
    <2>1. f[k] = it[1..k] /\ f[k - 1] = it[1..(k - 1)] /\ it[1..(k - 1)] \in V
      BY <1>6, <1>7, <1>8
    <2> HIDE DEF f
    <2> QED
      BY <2>1, <1>2
  <1> QED
    BY <1>8, <1>9 DEF IsLoop

\* So every loop has its values.
LEMMA LoopExists ==
    ASSUME NEW n \in Nat, NEW V, NEW base \in V, NEW g, IsTurn(g, n, V)
    PROVE  \E f : IsLoop(f, n, V, base, g)
  <1>1. PICK h : IsFold(h, n, V, base, g)
    BY FoldLeftExists
  <1> QED
    BY <1>1, FoldLeftUnrolls
\* The values of a function for which the value at n follows from the one at a
\* tenth of n, unless n is below L.
IsByTenths(f, D, L, V, base, step) ==
    /\ f \in [D -> V]
    /\ \A n \in D : f[n] = IF n < L THEN base[n] ELSE step[<<n, f[n \div 10]>>]

\* A tenth of a number that is not 0 is smaller.
LEMMA Tenth ==
    ASSUME NEW n \in Nat
    PROVE  n \div 10 \in Nat /\ n \div 10 <= n /\ (n # 0 => n \div 10 < n)
  BY SMT

\* Such a function exists.
LEMMA TenthsExist ==
    ASSUME NEW L \in Nat \ {0}, NEW V, NEW base \in [Nat -> V], NEW step \in [Nat \X V -> V]
    PROVE  \E f : IsByTenths(f, Nat, L, V, base, step)
  <1> DEFINE Upto(f, m) == IsByTenths(f, 0..m, L, V, base, step)
  <1>1. ASSUME NEW m \in Nat, NEW f, Upto(f, m), NEW k \in Nat, NEW g, Upto(g, k),
               NEW n \in Nat, n <= m, n <= k
        PROVE  f[n] = g[n]
    <2> DEFINE G == {i \in 0..n : \A j \in 0..i : f[j] = g[j]}
    <2>1. ASSUME NEW j \in 0..n, j # 0 => f[j \div 10] = g[j \div 10]
          PROVE  f[j] = g[j]
      <3>1. j \in 0..m /\ j \in 0..k
        BY <1>1
      <3>2. /\ f[j] = IF j < L THEN base[j] ELSE step[<<j, f[j \div 10]>>]
            /\ g[j] = IF j < L THEN base[j] ELSE step[<<j, g[j \div 10]>>]
        BY <1>1, <3>1 DEF IsByTenths
      <3>3. j = 0 => j < L
        OBVIOUS
      <3> QED
        BY <2>1, <3>2, <3>3
    <2>2. 0 \in G
      BY <2>1
    <2>3. ASSUME NEW i \in 1..n, i - 1 \in G
          PROVE  i \in G
      <3>1. i \div 10 \in 0..(i - 1)
        BY Tenth
      <3>2. f[i \div 10] = g[i \div 10]
        BY <2>3, <3>1
      <3>3. i \in 0..n
        OBVIOUS
      <3>4. f[i] = g[i]
        BY <2>1, <3>2, <3>3
      <3>5. \A j \in 0..i : j = i \/ j \in 0..(i - 1)
        OBVIOUS
      <3> QED
        BY <2>3, <3>3, <3>4, <3>5
    <2> HIDE DEF G
    <2>4. n \in G
      BY <2>2, <2>3, NatInduct
    <2> QED
      BY <2>4 DEF G
  <1>2. ASSUME NEW m \in Nat
        PROVE  \E f : Upto(f, m)
    <2> DEFINE G == {i \in 0..m : \E f : Upto(f, i)}
    <2>1. 0 \in G
      <3> DEFINE f == [n \in 0..0 |-> base[n]]
      <3>1. Upto(f, 0)
        BY DEF IsByTenths
      <3> QED
        BY <3>1
    <2>2. ASSUME NEW i \in 1..m, i - 1 \in G
          PROVE  i \in G
      <3>1. PICK f : Upto(f, i - 1)
        BY <2>2
      <3>2. /\ f \in [0..(i - 1) -> V]
            /\ \A n \in 0..(i - 1) : f[n] = IF n < L THEN base[n] ELSE step[<<n, f[n \div 10]>>]
        BY <3>1 DEF IsByTenths
      <3>3. i \div 10 \in 0..(i - 1)
        BY Tenth
      <3> DEFINE last == IF i < L THEN base[i] ELSE step[<<i, f[i \div 10]>>]
                 h == [n \in 0..i |-> IF n = i THEN last ELSE f[n]]
      <3>4. last \in V
        <4>1. f[i \div 10] \in V /\ i \in Nat
          BY <3>2, <3>3
        <4> QED
          BY <4>1
      <3> HIDE DEF last
      <3>5. h \in [0..i -> V]
        <4>1. \A n \in 0..i : n # i => n \in 0..(i - 1)
          OBVIOUS
        <4> QED
          BY <3>2, <3>4, <4>1
      <3>6. ASSUME NEW n \in 0..i
            PROVE  h[n] = IF n < L THEN base[n] ELSE step[<<n, h[n \div 10]>>]
        <4>1. CASE n = i
          <5>1. h[n \div 10] = f[n \div 10] /\ h[n] = last
            BY <4>1, <3>3
          <5> QED
            BY <4>1, <5>1 DEF last
        <4>2. CASE n # i
          <5>1. n \in 0..(i - 1) /\ n \div 10 \in 0..(i - 1)
            BY <4>2, Tenth
          <5>2. h[n] = f[n] /\ h[n \div 10] = f[n \div 10]
            BY <5>1
          <5> QED
            BY <5>1, <5>2, <3>2
        <4> QED
          BY <4>1, <4>2
      <3> HIDE DEF h
      <3>7. Upto(h, i)
        BY <3>5, <3>6 DEF IsByTenths
      <3>8. i \in 0..m
        OBVIOUS
      <3> HIDE DEF Upto
      <3> QED
        BY <3>7, <3>8
    <2> HIDE DEF G
    <2>3. 0..m \subseteq G
      BY <2>1, <2>2, NatInduct
    <2>4. m \in 0..m
      OBVIOUS
    <2> QED
      BY <2>3, <2>4 DEF G
  <1> DEFINE at(n) == CHOOSE f : Upto(f, n)
             whole == [n \in Nat |-> at(n)[n]]
  <1>3. \A n \in Nat : Upto(at(n), n)
    <2> HIDE DEF Upto
    <2> QED
      BY <1>2
  <1> HIDE DEF at
  <1>4. ASSUME NEW n \in Nat
        PROVE  /\ whole[n] \in V
               /\ whole[n] = IF n < L THEN base[n] ELSE step[<<n, whole[n \div 10]>>]
    <2>1. /\ at(n) \in [0..n -> V]
          /\ at(n)[n] = IF n < L THEN base[n] ELSE step[<<n, at(n)[n \div 10]>>]
      <3>1. n \in 0..n
        OBVIOUS
      <3> QED
        BY <1>3, <3>1 DEF IsByTenths
    <2>2. n \div 10 \in Nat /\ n \div 10 <= n
      BY Tenth
    <2>3. at(n)[n \div 10] = at(n \div 10)[n \div 10]
      <3> DEFINE t == n \div 10
      <3>1. t \in Nat /\ t <= n /\ t <= t
        BY <2>2
      <3> HIDE DEF t
      <3>2. at(n)[t] = at(t)[t]
        BY <1>1, <1>3, <3>1
      <3> QED
        BY <3>2 DEF t
    <2> QED
      BY <2>1, <2>2, <2>3
  <1> HIDE DEF whole
  <1>5. DOMAIN whole = Nat /\ whole = [n \in Nat |-> whole[n]]
    BY DEF whole
  <1>6. IsByTenths(whole, Nat, L, V, base, step)
    BY <1>4, <1>5 DEF IsByTenths
  <1> QED
    BY <1>6
\* And all its values are in V.
LEMMA TenthsType ==
    ASSUME NEW L \in Nat \ {0}, NEW V, NEW base \in [Nat -> V], NEW step \in [Nat \X V -> V],
           NEW h,
           \A n \in Nat : n < L => h[n] = base[n],
           \A n \in Nat : ~(n < L) /\ h[n \div 10] \in V => h[n] = step[<<n, h[n \div 10]>>]
    PROVE  \A n \in Nat : h[n] \in V
  <1> SUFFICES ASSUME NEW m \in Nat PROVE h[m] \in V
    OBVIOUS
  <1> DEFINE G == {k \in 0..m : \A j \in 0..k : h[j] \in V}
  <1>1. ASSUME NEW j \in Nat, j # 0 => h[j \div 10] \in V
        PROVE  h[j] \in V
    <2>1. CASE j < L
      BY <2>1
    <2>2. CASE ~(j < L)
      <3> DEFINE t == j \div 10
      <3>1. h[t] \in V /\ h[j] = step[<<j, h[t]>>]
        BY <1>1, <2>2
      <3> HIDE DEF t
      <3> QED
        BY <3>1
    <2> QED
      BY <2>1, <2>2
  <1>2. 0 \in G
    BY <1>1
  <1>3. ASSUME NEW k \in 1..m, k - 1 \in G
        PROVE  k \in G
    <2>1. k \div 10 \in 0..(k - 1) /\ k \in Nat
      BY Tenth
    <2>2. h[k] \in V
      BY <1>1, <1>3, <2>1
    <2>3. \A j \in 0..k : j = k \/ j \in 0..(k - 1)
      OBVIOUS
    <2> QED
      BY <1>3, <2>2, <2>3
  <1> HIDE DEF G
  <1>4. 0..m \subseteq G
    BY <1>2, <1>3, NatInduct
  <1>5. m \in 0..m
    OBVIOUS
  <1> QED
    BY <1>4, <1>5 DEF G
-----------------------------------------------------------------------------
(* The transactions of a chain, each with its place. *)

Entry == [block : Nat, index : Nat, tx : Transaction]
Blocks == Seq(Seq(Transaction))

\* The transactions of block number b, counted from 1.
EntriesOf(block, b) == [t \in 1..Len(block) |-> [block |-> b - 1, index |-> t - 1, tx |-> block[t]]]

\* It is as long as the block.
LEMMA EntriesOfType ==
    ASSUME NEW block \in Seq(Transaction), NEW b \in Nat \ {0}
    PROVE  EntriesOf(block, b) \in Seq(Entry) /\ Len(EntriesOf(block, b)) = Len(block)
  BY DEF EntriesOf, Entry

\* What the first k of the lists s give together, for each k.
Joins(f, s, X) ==
    /\ f \in [0..Len(s) -> Seq(X)]
    /\ f[0] = <<>>
    /\ \A k \in 1..Len(s) : f[k] = f[k - 1] \o s[k]

\* FlattenSeq joins its lists one after the other.
LEMMA FlattenUnrolls ==
    ASSUME NEW X, NEW s \in Seq(Seq(X)), s # <<>>
    PROVE  \E f : Joins(f, s, X) /\ FlattenSeq(s) = f[Len(s)]
  <1> DEFINE n == Len(s)
             V == Seq(X)
             g == [p \in (1..n) \X V |-> p[2] \o s[p[1]]]
             D(h) == [i \in 1..n |-> IF i = 1 THEN s[i] ELSE h[i - 1] \o s[i]]
             flatten == CHOOSE h : h = D(h)
  <1>1. n \in Nat /\ <<>> \in V /\ 1 \in 1..n /\ n \in 1..n
    OBVIOUS
  <1>2. IsTurn(g, n, V)
    <2>1. \A i \in 1..n, v \in V : v \o s[i] \in V
      OBVIOUS
    <2> QED
      BY <2>1 DEF IsTurn
  <1>3. PICK h : IsLoop(h, n, V, <<>>, g)
    <2> HIDE DEF n, V, g
    <2> QED
      BY <1>1, <1>2, LoopExists
  <1>4. /\ h \in [0..n -> V] /\ h[0] = <<>>
        /\ \A k \in 1..n : h[k] = h[k - 1] \o s[k]
    <2>1. h \in [0..n -> V] /\ h[0] = <<>> /\ \A k \in 1..n : h[k] = g[<<k, h[k - 1]>>]
      BY <1>3 DEF IsLoop
    <2>2. ASSUME NEW k \in 1..n
          PROVE  g[<<k, h[k - 1]>>] = h[k - 1] \o s[k]
      <3>1. k - 1 \in 0..n
        BY <1>1
      <3>2. h[k - 1] \in V
        BY <2>1, <3>1
      <3> QED
        BY <3>2
    <2> QED
      BY <2>1, <2>2
  <1>5. h[1] = s[1]
    <2>1. h[1] = h[0] \o s[1]
      <3> HIDE DEF n, V, g
      <3>1. ASSUME NEW k \in 1..n, k = 1
            PROVE  h[1] = h[0] \o s[1]
        <4>1. h[k] = h[k - 1] \o s[k]
          BY <1>4
        <4>2. k - 1 = 0
          BY <3>1
        <4> QED
          BY <4>1, <4>2, <3>1
      <3> QED
        BY <1>1, <3>1
    <2>2. <<>> \o s[1] = s[1]
      BY <1>1
    <2> QED
      BY <2>1, <2>2, <1>4
  <1> DEFINE u == [i \in 1..n |-> h[i]]
  <1>6. u = D(u)
    <2>1. ASSUME NEW i \in 1..n
          PROVE  u[i] = IF i = 1 THEN s[i] ELSE u[i - 1] \o s[i]
      <3>1. CASE i = 1
        BY <3>1, <1>5
      <3>2. CASE i # 1
        <4>1. i - 1 \in 1..n
          BY <3>2
        <4> QED
          BY <4>1, <3>2, <1>4
      <3> QED
        BY <3>1, <3>2
    <2> QED
      BY <2>1
  <1> HIDE DEF u, D
  <1>7. flatten = D(flatten)
    BY <1>6
  <1> HIDE DEF flatten
  <1>8. FlattenSeq(s) = flatten[n]
    BY DEF FlattenSeq, flatten, D
  <1> DEFINE G == {k \in 0..n : k # 0 => flatten[k] = h[k]}
  <1>9. \A k \in 1..n : k - 1 \in G => k \in G
    <2> SUFFICES ASSUME NEW k \in 1..n, k - 1 \in G PROVE flatten[k] = h[k]
      OBVIOUS
    <2>1. flatten[k] = IF k = 1 THEN s[k] ELSE flatten[k - 1] \o s[k]
      BY <1>7 DEF D
    <2>2. CASE k = 1
      BY <2>1, <2>2, <1>5
    <2>3. CASE k # 1
      <3>1. flatten[k - 1] = h[k - 1]
        BY <2>3
      <3> QED
        BY <2>1, <2>3, <3>1, <1>4
    <2> QED
      BY <2>2, <2>3
  <1>10. 0..n \subseteq G
    <2>1. 0 \in G
      BY <1>1
    <2> HIDE DEF G, n
    <2> QED
      BY <1>1, <1>9, <2>1, NatInduct
  <1>11. FlattenSeq(s) = h[n]
    BY <1>1, <1>8, <1>10
  <1> QED
    BY <1>4, <1>11 DEF Joins

\* An empty list of lists gives an empty list.
LEMMA FlattenJoins ==
    ASSUME NEW X, NEW s \in Seq(Seq(X))
    PROVE  \E f : Joins(f, s, X) /\ FlattenSeq(s) = f[Len(s)]
  <1>1. CASE s = <<>>
    <2> DEFINE f == [k \in {0} |-> <<>>]
    <2>1. Len(s) = 0 /\ 0..Len(s) = {0} /\ 1..Len(s) = {}
      BY <1>1
    <2>2. Joins(f, s, X)
      BY <2>1 DEF Joins
    <2>3. FlattenSeq(s) = f[Len(s)]
      BY <1>1, <2>1 DEF FlattenSeq
    <2> QED
      BY <2>2, <2>3
  <1> QED
    BY <1>1, FlattenUnrolls

\* The transactions of a chain, block by block.
Lists(ch) == [b \in 1..Len(ch) |-> EntriesOf(ch[b], b)]

\* Entries puts the blocks' lists together.
LEMMA ListsOf ==
    ASSUME NEW ch \in Blocks
    PROVE  /\ Lists(ch) \in Seq(Seq(Entry)) /\ Len(Lists(ch)) = Len(ch) /\ Len(ch) \in Nat
           /\ \A b \in 1..Len(ch) : /\ Lists(ch)[b] = EntriesOf(ch[b], b)
                                    /\ ch[b] \in Seq(Transaction)
                                    /\ Lists(ch)[b] \in Seq(Entry)
           /\ Entries(ch) = FlattenSeq(Lists(ch))
  <1>1. \A b \in 1..Len(ch) : ch[b] \in Seq(Transaction) /\ EntriesOf(ch[b], b) \in Seq(Entry)
    BY EntriesOfType DEF Blocks
  <1>2. Len(ch) \in Nat
    BY DEF Blocks
  <1>3. Lists(ch) \in Seq(Seq(Entry)) /\ Len(Lists(ch)) = Len(ch)
    BY <1>1, <1>2 DEF Lists
  <1>4. Entries(ch) = FlattenSeq(Lists(ch))
    BY DEF Entries, EntriesOf, Lists
  <1> QED
    BY <1>1, <1>2, <1>3, <1>4 DEF Lists

\* The first n of two sequences are the same.
SameStart(s, r, n) ==
    /\ n \in Nat /\ n <= Len(s) /\ n <= Len(r)
    /\ \A k \in 1..n : s[k] = r[k]

\* Joining agrees for lists that begin in the same way.
LEMMA JoinsAgree ==
    ASSUME NEW X, NEW s \in Seq(Seq(X)), NEW r \in Seq(Seq(X)),
           NEW f, Joins(f, s, X), NEW h, Joins(h, r, X),
           NEW n, SameStart(s, r, n)
    PROVE  \A k \in 0..n : f[k] = h[k]
  <1>0. n \in Nat /\ n <= Len(s) /\ n <= Len(r) /\ \A k \in 1..n : s[k] = r[k]
    BY DEF SameStart
  <1> DEFINE G == {k \in 0..n : f[k] = h[k]}
  <1>1. 0 \in G
    BY <1>0 DEF Joins
  <1>2. ASSUME NEW k \in 1..n, k - 1 \in G
        PROVE  k \in G
    <2>1. k \in 1..Len(s) /\ k \in 1..Len(r) /\ k \in 0..n
      BY <1>0
    <2>2. f[k - 1] = h[k - 1]
      BY <1>2
    <2>3. f[k] = f[k - 1] \o s[k] /\ h[k] = h[k - 1] \o r[k]
      BY <2>1 DEF Joins
    <2> QED
      BY <2>1, <2>2, <2>3, <1>0
  <1> HIDE DEF G
  <1>3. 0..n \subseteq G
    BY <1>0, <1>1, <1>2, NatInduct
  <1> QED
    BY <1>3 DEF G

\* The list grows with the chain by the transactions of the new block.
LEMMA EntriesAppend ==
    ASSUME NEW ch \in Blocks, NEW block \in Seq(Transaction)
    PROVE  /\ Entries(ch) \in Seq(Entry)
           /\ Entries(Append(ch, block)) = Entries(ch) \o EntriesOf(block, Len(ch) + 1)
  <1> DEFINE n == Len(ch)
             longer == Append(ch, block)
  <1>1. /\ longer \in Blocks /\ Len(longer) = n + 1 /\ n \in Nat
        /\ \A b \in 1..n : longer[b] = ch[b]
        /\ longer[n + 1] = block
    BY DEF Blocks
  <1> HIDE DEF longer, n
  <1>2. /\ \A b \in 1..n : Lists(longer)[b] = Lists(ch)[b]
        /\ Lists(longer)[n + 1] = EntriesOf(block, n + 1)
    BY <1>1 DEF Lists, n
  <1>3. /\ Lists(ch) \in Seq(Seq(Entry)) /\ Len(Lists(ch)) = n
        /\ Entries(ch) = FlattenSeq(Lists(ch))
        /\ Lists(longer) \in Seq(Seq(Entry)) /\ Len(Lists(longer)) = n + 1
        /\ Entries(longer) = FlattenSeq(Lists(longer))
    BY <1>1, ListsOf DEF n
  <1>4. PICK f : Joins(f, Lists(ch), Entry) /\ Entries(ch) = f[n]
    BY <1>3, FlattenJoins
  <1>5. PICK h : Joins(h, Lists(longer), Entry) /\ Entries(longer) = h[n + 1]
    BY <1>3, FlattenJoins
  <1>6. f[n] = h[n] /\ f[n] \in Seq(Entry)
    <2>1. \A k \in 0..n : f[k] = h[k]
      <3>1. n <= Len(Lists(ch)) /\ n <= Len(Lists(longer))
        BY <1>1, <1>3
      <3>2. \A k \in 1..n : Lists(ch)[k] = Lists(longer)[k]
        BY <1>2
      <3> QED
        <4>1. Lists(ch) \in Seq(Seq(Entry)) /\ Lists(longer) \in Seq(Seq(Entry)) /\ n \in Nat
          BY <1>1, <1>3
        <4>2. Joins(f, Lists(ch), Entry) /\ Joins(h, Lists(longer), Entry)
          BY <1>4, <1>5
        <4>3. SameStart(Lists(ch), Lists(longer), n)
          BY <3>1, <3>2, <4>1 DEF SameStart
        <4> QED
          BY <4>1, <4>2, <4>3, JoinsAgree
    <2>2. n \in 0..n
      BY <1>1
    <2> QED
      BY <2>1, <2>2, <1>3, <1>4 DEF Joins
  <1>7. h[n + 1] = h[n] \o Lists(longer)[n + 1]
    <2>1. n + 1 \in 1..Len(Lists(longer)) /\ (n + 1) - 1 = n
      BY <1>1, <1>3
    <2> QED
      BY <2>1, <1>5 DEF Joins
  <1> QED
    BY <1>2, <1>4, <1>5, <1>6, <1>7 DEF n, longer

\* The transaction at place <<b, t>>.
IsPlaced(ch, e) ==
    \E b \in 1..Len(ch) : \E t \in 1..Len(ch[b]) :
        e = [block |-> b - 1, index |-> t - 1, tx |-> ch[b][t]]

\* The list holds transactions of the chain only.
LEMMA EntriesPlaced ==
    ASSUME NEW ch \in Blocks
    PROVE  /\ Entries(ch) \in Seq(Entry)
           /\ \A i \in 1..Len(Entries(ch)) : IsPlaced(ch, Entries(ch)[i])
  <1> DEFINE n == Len(ch)
  <1>1. /\ Lists(ch) \in Seq(Seq(Entry)) /\ Len(Lists(ch)) = n /\ n \in Nat
        /\ \A b \in 1..n : Lists(ch)[b] = EntriesOf(ch[b], b) /\ ch[b] \in Seq(Transaction)
        /\ \A b \in 1..n : Lists(ch)[b] \in Seq(Entry)
        /\ Entries(ch) = FlattenSeq(Lists(ch))
    BY ListsOf
  <1>2. ASSUME NEW b \in 1..n, NEW t \in 1..Len(Lists(ch)[b])
        PROVE  IsPlaced(ch, Lists(ch)[b][t])
    <2>0. Lists(ch)[b] = EntriesOf(ch[b], b) /\ ch[b] \in Seq(Transaction) /\ b \in Nat \ {0}
      BY <1>1
    <2> HIDE DEF n
    <2>1. t \in 1..Len(ch[b])
      BY <2>0, EntriesOfType
    <2>2. Lists(ch)[b][t] = [block |-> b - 1, index |-> t - 1, tx |-> ch[b][t]]
      BY <2>0, <2>1 DEF EntriesOf
    <2> USE DEF n
    <2> QED
      BY <2>1, <2>2 DEF IsPlaced
  <1> HIDE DEF n
  <1>3. PICK f : Joins(f, Lists(ch), Entry) /\ Entries(ch) = f[n]
    BY <1>1, FlattenJoins
  <1> DEFINE G == {k \in 0..n : \A i \in 1..Len(f[k]) : IsPlaced(ch, f[k][i])}
  <1>4. 0 \in G
    BY <1>1, <1>3 DEF Joins
  <1>5. ASSUME NEW k \in 1..n, k - 1 \in G
        PROVE  k \in G
    <2> DEFINE p == f[k - 1]
               q == Lists(ch)[k]
    <2>0. k - 1 \in 0..n /\ k \in 1..Len(Lists(ch))
      BY <1>1
    <2>1. p \in Seq(Entry) /\ q \in Seq(Entry) /\ f[k] = p \o q
      <3>1. p \in Seq(Entry) /\ f[k] = p \o q
        BY <1>1, <1>3, <2>0 DEF Joins
      <3> QED
        BY <3>1, <1>1
    <2>2. \A i \in 1..Len(p) : IsPlaced(ch, p[i])
      BY <1>5
    <2>3. \A i \in 1..Len(q) : IsPlaced(ch, q[i])
      BY <1>2
    <2> HIDE DEF p, q
    <2>4. ASSUME NEW i \in 1..Len(p \o q)
          PROVE  IsPlaced(ch, (p \o q)[i])
      <3>1. \/ i \in 1..Len(p) /\ (p \o q)[i] = p[i]
            \/ i - Len(p) \in 1..Len(q) /\ (p \o q)[i] = q[i - Len(p)]
        BY <2>1
      <3> QED
        BY <3>1, <2>2, <2>3
    <2>5. k \in 0..n
      OBVIOUS
    <2> QED
      BY <2>1, <2>4, <2>5
  <1>6. 0..n \subseteq G
    <2> HIDE DEF G
    <2> QED
      BY <1>1, <1>4, <1>5, NatInduct
  <1>7. n \in 0..n /\ f[n] \in Seq(Entry)
    BY <1>1, <1>3 DEF Joins
  <1> QED
    BY <1>3, <1>6, <1>7
-----------------------------------------------------------------------------
(* Unspent outputs. *)

\* The outputs left after each of the transactions E.
LeavesUnspent(f, E) ==
    /\ f[0] = {}
    /\ \A k \in 1..Len(E) :
           f[k] = {o \in f[k - 1] \cup Created(E[k]) : o.point \notin Spent(E[k])}

\* GetUnspentTxOuts goes through the transactions one by one.
LEMMA UnspentUnrolls ==
    ASSUME NEW ch, Entries(ch) \in Seq(Entry)
    PROVE  \E f : LeavesUnspent(f, Entries(ch)) /\ UnspentTxOuts(ch) = f[Len(Entries(ch))]
  <1> DEFINE E == Entries(ch)
             n == Len(E)
             V == SUBSET (UNION {Created(E[i]) : i \in 1..n})
             next(v, k) == {o \in v \cup Created(E[k]) : o.point \notin Spent(E[k])}
             g == [p \in (1..n) \X V |-> next(p[2], p[1])]
             D(h) == [s \in SUBSET (1..n) |->
                        IF s = {} THEN {} ELSE next(h[s \ {Max(s)}], Max(s))]
             iter == CHOOSE h : h = D(h)
  <1>1. n \in Nat /\ {} \in V /\ DOMAIN E = 1..n
    OBVIOUS
  <1>2. \A k \in 1..n, v \in V : next(v, k) \in V
    OBVIOUS
  <1>3. UnspentTxOuts(ch) = iter[1..n]
    BY <1>1 DEF UnspentTxOuts, FoldLeft, MapThenFoldSet
  <1> HIDE DEF V, next, n, E
  <1>4. IsTurn(g, n, V)
    BY <1>2 DEF IsTurn
  <1>5. \A k \in 1..n, v \in V : g[<<k, v>>] = next(v, k)
    OBVIOUS
  <1> HIDE DEF g
  <1>6. PICK h : h \in [SUBSET (1..n) -> V] /\ IsFold(h, n, V, {}, g)
    BY <1>1, <1>4, FoldLeftExists
  <1>7. h = D(h)
    <2>1. ASSUME NEW s \in SUBSET (1..n), s # {}
          PROVE  h[s] = next(h[s \ {Max(s)}], Max(s))
      <3>1. Max(s) \in 1..n /\ h[s \ {Max(s)}] \in V
        BY <1>1, <1>6, <2>1, MaxOf
      <3> QED
        BY <3>1, <2>1, <1>5, <1>6 DEF IsFold
    <2> QED
      BY <1>6, <2>1 DEF IsFold
  <1> HIDE DEF D
  <1>8. iter = D(iter)
    BY <1>7
  <1> HIDE DEF iter
  <1>9. IsFold(iter, n, V, {}, g)
    <2>1. iter[{}] = {}
      BY <1>8 DEF D
    <2>2. ASSUME NEW s \in SUBSET (1..n), s # {}, iter[s \ {Max(s)}] \in V
          PROVE  iter[s] = g[<<Max(s), iter[s \ {Max(s)}]>>]
      <3>1. iter[s] = next(iter[s \ {Max(s)}], Max(s))
        BY <1>8, <2>2 DEF D
      <3>2. Max(s) \in 1..n
        BY <1>1, <2>2, MaxOf
      <3> QED
        BY <3>1, <3>2, <2>2, <1>5
    <2> QED
      BY <2>1, <2>2 DEF IsFold
  <1> DEFINE f == [k \in 0..n |-> iter[1..k]]
  <1>10. IsLoop(f, n, V, {}, g)
    BY <1>1, <1>4, <1>9, FoldLeftUnrolls
  <1>11. f[n] = iter[1..n]
    BY <1>1
  <1> HIDE DEF f
  <1>12. ASSUME NEW k \in 1..n
         PROVE  f[k] = next(f[k - 1], k)
    <2>1. k - 1 \in 0..n /\ f[k] = g[<<k, f[k - 1]>>]
      BY <1>1, <1>10 DEF IsLoop
    <2>2. f[k - 1] \in V
      BY <2>1, <1>10 DEF IsLoop
    <2> QED
      BY <2>1, <2>2, <1>5
  <1>13. f[0] = {}
    BY <1>10 DEF IsLoop
  <1>14. LeavesUnspent(f, E)
    BY <1>12, <1>13 DEF LeavesUnspent, next, n
  <1> QED
    BY <1>3, <1>11, <1>14 DEF n, E

\* After k transactions the outputs are left that none from their own on spends.
Left(E, k) ==
    UNION {{o \in Created(E[i]) : \A j \in i..k : o.point \notin Spent(E[j])} : i \in 1..k}

LEMMA LeftUnspent ==
    ASSUME NEW E \in Seq(Entry), NEW f, LeavesUnspent(f, E)
    PROVE  \A k \in 0..Len(E) : f[k] = Left(E, k)
  <1> DEFINE n == Len(E)
             left(k) == UNION {{o \in Created(E[i]) : \A j \in i..k : o.point \notin Spent(E[j])} :
                                 i \in 1..k}
             G == {k \in 0..n : f[k] = left(k)}
  <1>1. n \in Nat
    OBVIOUS
  <1> HIDE DEF n
  <1>2. 0 \in G
    <2>1. left(0) = {}
      OBVIOUS
    <2> QED
      BY <2>1, <1>1 DEF LeavesUnspent
  <1>3. ASSUME NEW k \in 1..n, k - 1 \in G
        PROVE  k \in G
    <2>1. f[k] = {o \in left(k - 1) \cup Created(E[k]) : o.point \notin Spent(E[k])}
      <3>1. f[k] = {o \in f[k - 1] \cup Created(E[k]) : o.point \notin Spent(E[k])}
        BY DEF LeavesUnspent, n
      <3>2. f[k - 1] = left(k - 1)
        BY <1>3
      <3> HIDE DEF left
      <3> QED
        BY <3>1, <3>2
    <2>2. ASSUME NEW o, o \in left(k)
          PROVE  o \in left(k - 1) \cup Created(E[k]) /\ o.point \notin Spent(E[k])
      <3>1. PICK i \in 1..k : o \in Created(E[i]) /\ \A j \in i..k : o.point \notin Spent(E[j])
        BY <2>2
      <3>2. o.point \notin Spent(E[k])
        BY <3>1, <1>1
      <3>3. CASE i = k
        BY <3>1, <3>2, <3>3
      <3>4. CASE i # k
        <4>1. i \in 1..(k - 1) /\ \A j \in i..(k - 1) : o.point \notin Spent(E[j])
          BY <3>1, <3>4, <1>1
        <4> QED
          BY <3>1, <3>2, <4>1
      <3> QED
        BY <3>3, <3>4
    <2>3. ASSUME NEW o, o \in left(k - 1) \cup Created(E[k]), o.point \notin Spent(E[k])
          PROVE  o \in left(k)
      <3>1. CASE o \in Created(E[k])
        <4>1. k \in 1..k /\ \A j \in k..k : o.point \notin Spent(E[j])
          BY <2>3, <1>1
        <4> QED
          BY <3>1, <4>1
      <3>2. CASE o \in left(k - 1)
        <4>1. PICK i \in 1..(k - 1) : o \in Created(E[i]) /\ \A j \in i..(k - 1) : o.point \notin Spent(E[j])
          BY <3>2
        <4>2. i \in 1..k /\ \A j \in i..k : j = k \/ j \in i..(k - 1)
          BY <1>1
        <4> QED
          BY <4>1, <4>2, <2>3
      <3> QED
        BY <2>3, <3>1, <3>2
    <2>4. k \in 0..n
      BY <1>1
    <2> HIDE DEF left
    <2>5. f[k] = left(k)
      BY <2>1, <2>2, <2>3
    <2> QED
      BY <2>4, <2>5
  <1>4. 0..n \subseteq G
    <2> HIDE DEF G
    <2> QED
      BY <1>1, <1>2, <1>3, NatInduct
  <1>5. \A k \in 0..n : f[k] = left(k)
    BY <1>4
  <1> QED
    BY <1>5 DEF n, Left
-----------------------------------------------------------------------------
(* Texts. *)

\* A number has digits.
LEMMA DigitsType == \A n \in Nat : Digits[n] \in Seq(0..9) \ {<<>>}
  <1> DEFINE V == Seq(0..9) \ {<<>>}
             L == 10
             D(f) == [n \in Nat |-> IF n < 10 THEN <<n>> ELSE Append(f[n \div 10], n % 10)]
             base == [n \in Nat |-> IF n < 10 THEN <<n>> ELSE <<0>>]
             step == [p \in Nat \X V |-> Append(p[2], p[1] % 10)]
  <1>1. base \in [Nat -> V]
    <2>1. \A n \in 0..9 : <<n>> \in V
      OBVIOUS
    <2> HIDE DEF V
    <2>2. \A n \in Nat : n < 10 => n \in 0..9
      OBVIOUS
    <2>3. 0 \in 0..9
      OBVIOUS
    <2> QED
      BY <2>1, <2>2, <2>3
  <1>2. step \in [Nat \X V -> V]
    <2>1. ASSUME NEW n \in Nat, NEW v \in V
          PROVE  Append(v, n % 10) \in V
      <3>1. n % 10 \in 0..9
        OBVIOUS
      <3>2. v \in Seq(0..9)
        OBVIOUS
      <3> DEFINE d == n % 10
      <3> HIDE DEF d
      <3>3. Append(v, d) \in Seq(0..9) /\ Append(v, d) # <<>>
        BY <3>1, <3>2 DEF d
      <3> QED
        BY <3>3 DEF d
    <2> HIDE DEF V
    <2> QED
      BY <2>1
  <1>3. PICK f : IsByTenths(f, Nat, L, V, base, step)
    <2>1. L \in Nat \ {0}
      OBVIOUS
    <2> HIDE DEF V, L, base, step
    <2> QED
      BY <1>1, <1>2, <2>1, TenthsExist
  <1>4. ASSUME NEW h, h = D(h), NEW n \in Nat
        PROVE  h[n] = IF n < 10 THEN <<n>> ELSE Append(h[n \div 10], n % 10)
    BY <1>4
  <1>5. f = D(f)
    <2>1. /\ f \in [Nat -> V]
          /\ \A n \in Nat : f[n] = IF n < L THEN base[n] ELSE step[<<n, f[n \div 10]>>]
      BY <1>3 DEF IsByTenths
    <2>2. ASSUME NEW n \in Nat
          PROVE  f[n] = IF n < 10 THEN <<n>> ELSE Append(f[n \div 10], n % 10)
      <3>1. f[n \div 10] \in V /\ n \div 10 \in Nat
        BY <2>1, Tenth
      <3> DEFINE t == n \div 10
      <3> HIDE DEF V, t
      <3>2. step[<<n, f[t]>>] = Append(f[t], n % 10)
        BY <3>1 DEF t
      <3> QED
        BY <2>1, <3>2 DEF t
    <2> HIDE DEF V, base, step
    <2> QED
      BY <2>1, <2>2
  <1> HIDE DEF D
  <1>6. Digits = D(Digits)
    <2>1. Digits = CHOOSE h : h = D(h)
      BY DEF Digits, D
    <2> QED
      BY <1>5, <2>1
  <1>7. \A n \in Nat : n < L => Digits[n] = base[n]
    BY <1>4, <1>6
  <1>8. ASSUME NEW n \in Nat, ~(n < L), Digits[n \div 10] \in V
        PROVE  Digits[n] = step[<<n, Digits[n \div 10]>>]
    <2>1. Digits[n] = Append(Digits[n \div 10], n % 10)
      BY <1>4, <1>6, <1>8
    <2> HIDE DEF V, L
    <2> QED
      BY <1>8, <2>1
  <1>9. L \in Nat \ {0}
    OBVIOUS
  <1> HIDE DEF V, L, base, step
  <1>10. \A n \in Nat : Digits[n] \in V
    <2>1. \A n \in Nat : ~(n < L) /\ Digits[n \div 10] \in V => Digits[n] = step[<<n, Digits[n \div 10]>>]
      BY <1>8
    <2> QED
      BY <2>1, <1>1, <1>2, <1>7, <1>9, TenthsType
  <1> QED
    BY <1>10 DEF V

\* The last digit shown is worth something.
LEMMA LastShownType == \A n \in Nat : LastShown[n] \in Nat \ {0}
  <1> DEFINE V == Nat \ {0}
             L == ShownExactly
             D(f) == [n \in Nat |-> IF n < ShownExactly THEN 1 ELSE 10 * f[n \div 10]]
             base == [n \in Nat |-> 1]
             step == [p \in Nat \X V |-> 10 * p[2]]
  <1>1. base \in [Nat -> V]
    OBVIOUS
  <1>2. step \in [Nat \X V -> V]
    <2>1. \A v \in V : 10 * v \in V
      OBVIOUS
    <2> HIDE DEF V
    <2> QED
      BY <2>1
  <1>3. L \in Nat \ {0}
    BY LedgerAssumption
  <1>4. PICK f : IsByTenths(f, Nat, L, V, base, step)
    <2> HIDE DEF V, L, base, step
    <2> QED
      BY <1>1, <1>2, <1>3, TenthsExist
  <1>5. ASSUME NEW h, h = D(h), NEW n \in Nat
        PROVE  h[n] = IF n < ShownExactly THEN 1 ELSE 10 * h[n \div 10]
    BY <1>5
  <1>6. f = D(f)
    <2>1. /\ f \in [Nat -> V]
          /\ \A n \in Nat : f[n] = IF n < L THEN base[n] ELSE step[<<n, f[n \div 10]>>]
      BY <1>4 DEF IsByTenths
    <2>2. ASSUME NEW n \in Nat
          PROVE  f[n] = IF n < ShownExactly THEN 1 ELSE 10 * f[n \div 10]
      <3> DEFINE t == n \div 10
      <3>1. f[t] \in V
        BY <2>1, Tenth
      <3> HIDE DEF V, t
      <3>2. step[<<n, f[t]>>] = 10 * f[t]
        BY <3>1
      <3> QED
        BY <2>1, <3>2 DEF t
    <2> HIDE DEF V, base, step
    <2> QED
      BY <2>1, <2>2
  <1> HIDE DEF D
  <1>7. LastShown = D(LastShown)
    <2>1. LastShown = CHOOSE h : h = D(h)
      BY DEF LastShown, D
    <2> QED
      BY <1>6, <2>1
  <1>8. \A n \in Nat : n < L => LastShown[n] = base[n]
    BY <1>5, <1>7
  <1>9. ASSUME NEW n \in Nat, ~(n < L), LastShown[n \div 10] \in V
        PROVE  LastShown[n] = step[<<n, LastShown[n \div 10]>>]
    <2>1. LastShown[n] = 10 * LastShown[n \div 10]
      BY <1>5, <1>7, <1>9
    <2> HIDE DEF V, L
    <2> QED
      BY <1>9, <2>1
  <1> HIDE DEF V, L, base, step
  <1>10. \A n \in Nat : LastShown[n] \in V
    <2>1. \A n \in Nat : ~(n < L) /\ LastShown[n \div 10] \in V => LastShown[n] = step[<<n, LastShown[n \div 10]>>]
      BY <1>9
    <2> QED
      BY <2>1, <1>1, <1>2, <1>3, <1>8, TenthsType
  <1> QED
    BY <1>10 DEF V

\* An amount is shown with digits and perhaps a minus sign.
LEMMA ShownType == \A amount \in Int : Shown(amount) \in Seq(Symbol)
  <1>1. ASSUME NEW n \in Nat
        PROVE  Rounded(n) \in Nat
    <2> DEFINE unit == LastShown[n]
               q == n \div unit
               up == 2 * (n % unit) > unit \/ (2 * (n % unit) = unit /\ q % 2 = 1)
    <2>1. unit \in Nat \ {0}
      BY LastShownType
    <2>2. q \in Nat
      <3> HIDE DEF unit
      <3> QED
        BY <2>1
    <2>3. Rounded(n) = unit * (IF up THEN q + 1 ELSE q)
      BY DEF Rounded
    <2> HIDE DEF unit, q, up
    <2>4. (IF up THEN q + 1 ELSE q) \in Nat
      BY <2>2
    <2> DEFINE k == IF up THEN q + 1 ELSE q
    <2> HIDE DEF k
    <2>5. unit * k \in Nat
      BY <2>1, <2>4 DEF k
    <2> QED
      BY <2>3, <2>5 DEF k
  <1>2. 0..9 \subseteq Symbol /\ Minus \in Symbol
    BY DEF Symbol
  <1>3. ASSUME NEW n \in Nat
        PROVE  Digits[n] \in Seq(Symbol)
    BY <1>2, DigitsType
  <1> SUFFICES ASSUME NEW amount \in Int PROVE Shown(amount) \in Seq(Symbol)
    OBVIOUS
  <1>4. CASE amount < 0
    <2>1. -amount \in Nat
      BY <1>4
    <2>2. Digits[Rounded(-amount)] \in Seq(Symbol)
      BY <1>1, <1>3, <2>1
    <2>3. <<Minus>> \in Seq(Symbol)
      BY <1>2
    <2> QED
      BY <1>4, <2>2, <2>3 DEF Shown
  <1>5. CASE ~(amount < 0)
    <2>1. Digits[Rounded(amount)] \in Seq(Symbol)
      BY <1>1, <1>3, <1>5
    <2> QED
      BY <1>5, <2>1 DEF Shown
  <1> QED
    BY <1>4, <1>5

\* Lists joined have what is in the lists.
LEMMA FlattenType ==
    ASSUME NEW X, NEW s \in Seq(Seq(X))
    PROVE  FlattenSeq(s) \in Seq(X)
  <1>1. PICK f : Joins(f, s, X) /\ FlattenSeq(s) = f[Len(s)]
    BY FlattenJoins
  <1>2. Len(s) \in 0..Len(s)
    OBVIOUS
  <1> QED
    BY <1>1, <1>2 DEF Joins

\* The text of a transaction is one, and its old id is no part of it.
LEMMA IdType ==
    ASSUME NEW tx, NEW b \in Nat, tx.ins \in Seq(TxOutPoint), tx.outs \in Seq(TxOut)
    PROVE  GetTransactionId(tx, b) \in Id
  <1> DEFINE ins == [i \in 1..Len(tx.ins) |-> InText(tx.ins[i])]
             outs == [o \in 1..Len(tx.outs) |-> OutText(tx.outs[o])]
  <1>1. \A n \in Nat : Digits[n] \in Seq(Symbol) /\ Digits[n] # <<>>
    BY DigitsType DEF Symbol
  <1>2. ASSUME NEW i \in 1..Len(tx.ins)
        PROVE  InText(tx.ins[i]) \in Seq(Symbol)
    <2>1. tx.ins[i] \in TxOutPoint
      OBVIOUS
    <2>2. tx.ins[i][1] \in Nat /\ tx.ins[i][2] \in Nat /\ tx.ins[i][3] \in Nat
      BY <2>1 DEF TxOutPoint
    <2> QED
      BY <1>1, <2>2 DEF InText
  <1>3. ASSUME NEW o \in 1..Len(tx.outs)
        PROVE  OutText(tx.outs[o]) \in Seq(Symbol)
    <2>1. tx.outs[o] \in TxOut
      OBVIOUS
    <2>2. tx.outs[o].address \in Symbol /\ tx.outs[o].amount \in Int
      BY <2>1 DEF TxOut, Symbol
    <2> DEFINE x == <<tx.outs[o].address>>
               y == Shown(tx.outs[o].amount)
    <2>3. x \in Seq(Symbol)
      <3> DEFINE z == tx.outs[o].address
      <3>1. z \in Symbol
        BY <2>2
      <3> HIDE DEF z, Symbol
      <3>2. <<z>> \in Seq(Symbol)
        BY <3>1
      <3> QED
        BY <3>2 DEF z
    <2>5. y \in Seq(Symbol)
      BY <2>2, ShownType
    <2>4. OutText(tx.outs[o]) = x \o y
      BY DEF OutText
    <2> HIDE DEF x, y
    <2> QED
      BY <2>3, <2>4, <2>5
  <1>4. ins \in Seq(Seq(Symbol)) /\ outs \in Seq(Seq(Symbol))
    BY <1>2, <1>3
  <1> HIDE DEF ins, outs
  <1>5. FlattenSeq(ins) \in Seq(Symbol) /\ FlattenSeq(outs) \in Seq(Symbol)
    BY <1>4, FlattenType
  <1> DEFINE u == FlattenSeq(ins)
             v == FlattenSeq(outs)
             d == Digits[b]
  <1>6. u \in Seq(Symbol) /\ v \in Seq(Symbol) /\ d \in Seq(Symbol) /\ d # <<>>
    BY <1>1, <1>5
  <1>7. GetTransactionId(tx, b) = u \o v \o d
    BY DEF GetTransactionId, ins, outs
  <1> HIDE DEF u, v, d
  <1>8. u \o v \o d \in Seq(Symbol) /\ u \o v \o d # <<>>
    BY <1>6
  <1> QED
    BY <1>7, <1>8 DEF Id
-----------------------------------------------------------------------------
(* More about sums. *)

\* v and w are the same weights, f says of what.
Renames(v, w, f, T) == \A t \in T : v[t] = w[f[t]]

\* A sum does not depend on what its terms are called.
LEMMA SumRenamed ==
    ASSUME NEW S, NEW w, IsWeights(w, S), NEW T, NEW v, IsWeights(v, T),
           NEW f \in Bijection(T, S), Renames(v, w, f, T)
    PROVE  SumFunction(v) = SumFunction(w)
  <1>1. PICK it : IsSum(it, S, w) /\ SumFunction(w) = it[S]
    BY TotalIsSum
  <1>2. \A s \in SUBSET S : it[s] \in Int /\ \A y \in s : it[s] = w[y] + it[s \ {y}]
    <2>1. IsSum(it, S, w)
      BY <1>1
    <2> QED
      BY <2>1, SumAnyOrder
  <1>3. f \in [T -> S] /\ (\A a, b \in T : f[a] = f[b] => a = b) /\ (\A x \in S : \E t \in T : f[t] = x)
    BY DEF Bijection, Injection, Surjection, IsInjective
  <1> DEFINE jt == [s \in SUBSET T |-> it[{f[t] : t \in s}]]
  <1>4. jt[{}] = 0
    <2>1. jt[{}] = it[{}]
      OBVIOUS
    <2> QED
      BY <2>1, <1>1 DEF IsSum
  <1>5. ASSUME NEW s \in SUBSET T, NEW x \in s
        PROVE  jt[s] = v[x] + jt[s \ {x}]
    <2> DEFINE F == {f[t] : t \in s}
    <2>1. F \in SUBSET S /\ f[x] \in F
      BY <1>3
    <2>2. F \ {f[x]} = {f[t] : t \in s \ {x}}
      BY <1>3
    <2>3. jt[s] = it[F] /\ jt[s \ {x}] = it[F \ {f[x]}]
      BY <2>2
    <2> HIDE DEF F, jt
    <2>4. it[F] = w[f[x]] + it[F \ {f[x]}]
      BY <1>2, <2>1
    <2> QED
      BY <2>3, <2>4 DEF Renames
  <1>6. jt[T] = it[S]
    <2>1. {f[t] : t \in T} = S
      BY <1>3
    <2> QED
      BY <2>1
  <1> HIDE DEF jt
  <1>7. IsSum(jt, T, v)
    BY <1>4, <1>5 DEF IsSum
  <1>8. jt[T] = SumFunction(v)
    BY <1>7, TotalOf
  <1> QED
    BY <1>1, <1>6, <1>8

\* Sums of sequences.
LEMMA SumAppend ==
    ASSUME NEW s \in Seq(Int), NEW x \in Int
    PROVE  /\ SumFunction(s) \in Int
           /\ SumFunction(Append(s, x)) = SumFunction(s) + x
           /\ SumFunction(Append(s, x)) \in Int
           /\ s = <<>> => SumFunction(s) = 0
  <1> DEFINE n == Len(s)
             S == 1..(n + 1)
             w == Append(s, x)
  <1>1. /\ n \in Nat /\ s \in [1..n -> Int] /\ w \in [S -> Int] /\ w[n + 1] = x /\ n + 1 \in S
        /\ \A y \in 1..n : w[y] = s[y]
    <2>1. n \in Nat /\ s \in [1..n -> Int]
      OBVIOUS
    <2>2. w \in Seq(Int) /\ Len(w) = n + 1
      OBVIOUS
    <2>3. w[n + 1] = x /\ \A y \in 1..n : w[y] = s[y]
      OBVIOUS
    <2>4. w \in [S -> Int]
      <3> HIDE DEF n, w
      <3> QED
        BY <2>1, <2>2
    <2>5. n + 1 \in S
      BY <2>1
    <2> QED
      BY <2>1, <2>3, <2>4, <2>5
  <1>2. [y \in S \ {n + 1} |-> w[y]] = s
    <2>1. S \ {n + 1} = 1..n
      BY <1>1
    <2> HIDE DEF S, w, n
    <2>2. [y \in 1..n |-> w[y]] = [y \in 1..n |-> s[y]]
      BY <1>1
    <2>3. [y \in 1..n |-> s[y]] = s
      BY <1>1
    <2> QED
      BY <2>1, <2>2, <2>3
  <1>3. IsWeights(s, 1..n) /\ IsWeights(w, S)
    BY <1>1, FS_Interval DEF IsWeights
  <1>4. s = <<>> => 1..n = {}
    OBVIOUS
  <1> HIDE DEF n, S, w
  <1>5. SumFunction(s) \in Int /\ SumFunction(w) \in Int /\ (s = <<>> => SumFunction(s) = 0)
    BY <1>3, <1>4, TotalType
  <1>6. SumFunction(w) = x + SumFunction(s)
    <2>1. Without(s, w, S, n + 1)
      BY <1>2 DEF Without
    <2>2. SumFunction(w) = w[n + 1] + SumFunction(s)
      BY <1>1, <1>3, <2>1, TotalSplit
    <2> QED
      BY <1>1, <2>2
  <1> QED
    BY <1>5, <1>6 DEF w
-----------------------------------------------------------------------------
(* Outputs and payments have their types. *)

Output == [point : TxOutPoint, address : Addresses, amount : Int]

\* The values of a function on a finite set are finitely many.
LEMMA ImageFinite ==
    ASSUME NEW S, IsFiniteSet(S), NEW f, f = [x \in S |-> f[x]]
    PROVE  IsFiniteSet({f[x] : x \in S})
  <1> DEFINE T == {f[x] : x \in S}
  <1>1. f \in Surjection(S, T)
    BY DEF Surjection
  <1> QED
    BY <1>1, FS_Surjection

\* A transaction makes finitely many outputs.
LEMMA CreatedFinite ==
    ASSUME NEW e \in Entry
    PROVE  IsFiniteSet(Created(e)) /\ Created(e) \subseteq Output
  <1> DEFINE n == Len(e.tx.outs)
             f == [o \in 1..n |-> [point |-> <<e.block, e.index, o - 1>>,
                                   address |-> e.tx.outs[o].address, amount |-> e.tx.outs[o].amount]]
  <1>1. e.block \in Nat /\ e.index \in Nat /\ e.tx.outs \in Seq(TxOut)
    BY DEF Entry, Transaction, TransactionWith
  <1>2. n \in Nat /\ \A o \in 1..n : e.tx.outs[o] \in TxOut /\ o - 1 \in Nat
    BY <1>1
  <1>3. IsFiniteSet(1..n)
    BY <1>2, FS_Interval
  <1>4. IsFiniteSet({f[o] : o \in 1..n})
    <2> HIDE DEF n
    <2>1. f = [o \in 1..n |-> f[o]]
      OBVIOUS
    <2> HIDE DEF f
    <2> QED
      BY <1>3, <2>1, ImageFinite
  <1>5. \A o \in 1..n : f[o] \in Output
    BY <1>1, <1>2 DEF Output, TxOutPoint, TxOut
  <1>6. Created(e) = {f[o] : o \in 1..n}
    BY DEF Created
  <1> QED
    BY <1>4, <1>5, <1>6

\* Finitely many outputs are unspent, each made by a transaction of the chain.
LEMMA LeavesFinite ==
    ASSUME NEW E \in Seq(Entry), NEW f, LeavesUnspent(f, E)
    PROVE  \A k \in 0..Len(E) : /\ IsFiniteSet(f[k]) /\ f[k] \subseteq Output
                                /\ \A o \in f[k] : \E i \in 1..Len(E) : o \in Created(E[i])
  <1> DEFINE n == Len(E)
  <1>3. n \in Nat /\ \A k \in 1..n : E[k] \in Entry
    OBVIOUS
  <1> DEFINE Good(U) == IsFiniteSet(U) /\ \A o \in U : \E i \in 1..n : o \in Created(E[i])
             G == {k \in 0..n : Good(f[k])}
  <1>4. 0 \in G
    <2>1. f[0] = {} /\ 0 \in 0..n
      BY <1>3 DEF LeavesUnspent
    <2>2. Good({})
      BY FS_EmptySet
    <2> HIDE DEF Good
    <2> QED
      BY <2>1, <2>2
  <1>5. ASSUME NEW k \in 1..n, k - 1 \in G
        PROVE  k \in G
    <2>1. f[k] = {o \in f[k - 1] \cup Created(E[k]) : o.point \notin Spent(E[k])}
      BY DEF LeavesUnspent
    <2>2. IsFiniteSet(f[k - 1] \cup Created(E[k]))
      BY <1>3, <1>5, CreatedFinite, FS_Union
    <2>3. IsFiniteSet(f[k])
      BY <2>1, <2>2, FS_Subset
    <2>4. \A o \in f[k] : \E i \in 1..n : o \in Created(E[i])
      BY <2>1, <1>5
    <2>5. k \in 0..n
      BY <1>3
    <2> QED
      BY <2>3, <2>4, <2>5
  <1>6. 0..n \subseteq G
    <2> HIDE DEF G
    <2> QED
      BY <1>3, <1>4, <1>5, NatInduct
  <1>7. \A k \in 0..n : Good(f[k])
    BY <1>6
  <1>8. \A i \in 1..n : Created(E[i]) \subseteq Output
    BY <1>3, CreatedFinite
  <1> QED
    BY <1>7, <1>8

\* So are the unspent outputs of a chain.
LEMMA UnspentFinite ==
    ASSUME NEW ch \in Blocks
    PROVE  /\ IsFiniteSet(UnspentTxOuts(ch)) /\ UnspentTxOuts(ch) \subseteq Output
           /\ \A o \in UnspentTxOuts(ch) : \E i \in 1..Len(Entries(ch)) : o \in Created(Entries(ch)[i])
  <1>1. Entries(ch) \in Seq(Entry)
    BY EntriesPlaced
  <1>2. PICK f : LeavesUnspent(f, Entries(ch)) /\ UnspentTxOuts(ch) = f[Len(Entries(ch))]
    BY <1>1, UnspentUnrolls
  <1>3. Len(Entries(ch)) \in 0..Len(Entries(ch))
    BY <1>1
  <1> QED
    BY <1>1, <1>2, <1>3, LeavesFinite

\* The sum of some outputs.
LEMMA SumOfType ==
    ASSUME NEW S, IsFiniteSet(S), S \subseteq Output
    PROVE  SumOf(S) \in Int
  <1> DEFINE w == [o \in S |-> o.amount]
  <1>1. \A o \in S : o.amount \in Int
    BY DEF Output
  <1>2. IsWeights(w, S)
    BY <1>1 DEF IsWeights
  <1>3. SumOf(S) = SumFunction(w)
    BY DEF SumOf
  <1> HIDE DEF w
  <1> QED
    BY <1>2, <1>3, TotalType

\* s lists some outputs, each once.
Selected(s, outs) == s \in Seq(outs) /\ s # <<>> /\ IsInjective(s)

\* The orders of a set list its elements, and are worth what they are worth.
LEMMA OrderOf ==
    ASSUME NEW S, IsFiniteSet(S), S \subseteq Output, NEW s \in SetToSeqs(S)
    PROVE  s \in Seq(S) /\ IsInjective(s) /\ Worth(s) = SumOf(S) /\ (S # {} => s # <<>>)
  <1> DEFINE n == Cardinality(S)
             w == [o \in S |-> o.amount]
             v == [i \in 1..Len(s) |-> s[i].amount]
  <1>1. n \in Nat
    BY FS_CardinalityType
  <1>2. s \in [1..n -> S] /\ \A i, j \in 1..n : i # j => s[i] # s[j]
    BY DEF SetToSeqs
  <1> HIDE DEF n
  <1>3. s \in Seq(S) /\ Len(s) = n /\ DOMAIN s = 1..n
    BY <1>1, <1>2
  <1>4. IsInjective(s)
    BY <1>2, <1>3 DEF IsInjective
  <1>5. s \in Injection(1..n, S)
    BY <1>2, <1>4 DEF Injection
  <1>6. IsFiniteSet(1..n) /\ Cardinality(1..n) = n
    BY <1>1, FS_Interval
  <1>7. s \in Surjection(1..n, S)
    <2>1. Cardinality(1..n) = Cardinality(S)
      BY <1>6 DEF n
    <2> QED
      BY <1>5, <1>6, <2>1, FS_Injection
  <1>8. s \in Bijection(1..n, S)
    BY <1>5, <1>7 DEF Bijection
  <1>9. IsWeights(w, S)
    BY DEF IsWeights, Output
  <1>10. \A i \in 1..n : v[i] = w[s[i]] /\ v[i] \in Int
    <2>1. \A i \in 1..n : s[i] \in S
      BY <1>2
    <2> QED
      BY <1>3, <2>1 DEF Output
  <1>11. v \in [1..n -> Int]
    BY <1>3, <1>10
  <1>12. Worth(s) = SumFunction(v) /\ SumOf(S) = SumFunction(w)
    BY DEF Worth, SumOf
  <1> HIDE DEF v, w
  <1>13. SumFunction(v) = SumFunction(w)
    <2>1. IsWeights(v, 1..n)
      BY <1>6, <1>11 DEF IsWeights
    <2>2. Renames(v, w, s, 1..n)
      BY <1>10 DEF Renames
    <2> QED
      BY <1>8, <1>9, <2>1, <2>2, SumRenamed
  <1>14. S # {} => s # <<>>
    BY <1>3, <1>7 DEF Surjection
  <1> QED
    BY <1>3, <1>4, <1>12, <1>13, <1>14

\* tx pays with the outputs s of the sender.
PaysWith(ch, tx, from, to, amount, s) ==
    /\ from \in Addresses /\ to \in Addresses /\ amount \in Int /\ from # to
    /\ Selected(s, UnspentOf(ch, from))
    /\ Worth(s) \in Int /\ Worth(s) >= amount
    /\ tx = Payment(s, from, to, amount)

\* What CreateTransaction returns pays with outputs of the sender.
LEMMA PaymentsMade ==
    ASSUME NEW ch \in Blocks, NEW tx \in AnyPayment(ch)
    PROVE  \E from, to, amount, s : PaysWith(ch, tx, from, to, amount, s)
  <1>1. PICK from \in Addresses, to \in Addresses, amount \in Amounts :
            tx \in CreateTransaction(ch, from, to, amount)
    BY DEF AnyPayment
  <1>2. from # to /\ \E s \in Selections(UnspentOf(ch, from), amount) : tx = Payment(s, from, to, amount)
    BY <1>1 DEF CreateTransaction
  <1>3. PICK s \in Selections(UnspentOf(ch, from), amount) : tx = Payment(s, from, to, amount)
    BY <1>2
  <1>4. PICK S \in SUBSET UnspentOf(ch, from) :
            SumOf(S) >= amount /\ S # {} /\ s \in SetToSeqs(S)
    BY DEF Selections
  <1>5. UnspentOf(ch, from) \subseteq UnspentTxOuts(ch)
    BY DEF UnspentOf
  <1>6. IsFiniteSet(S) /\ S \subseteq Output
    BY <1>5, UnspentFinite, FS_Subset
  <1>7. SumOf(S) \in Int
    BY <1>6, SumOfType
  <1>8. s \in Seq(S) /\ IsInjective(s) /\ Worth(s) = SumOf(S) /\ s # <<>>
    BY <1>4, <1>6, OrderOf
  <1>9. Selected(s, UnspentOf(ch, from))
    <2>1. s \in Seq(UnspentOf(ch, from))
      BY <1>8
    <2> QED
      BY <1>8, <2>1 DEF Selected
  <1>10. amount \in Int
    BY LedgerAssumption
  <1> QED
    BY <1>2, <1>3, <1>4, <1>7, <1>8, <1>9, <1>10 DEF PaysWith

\* A payment is a transaction with a signature and an input, and has no id yet.
LEMMA PaymentType ==
    ASSUME NEW ch \in Blocks, NEW tx \in AnyPayment(ch)
    PROVE  tx \in Transaction /\ tx.signed /\ tx.ins # <<>>
  <1>0. PICK from, to, amount, s : PaysWith(ch, tx, from, to, amount, s)
    BY PaymentsMade
  <1>1. /\ from \in Addresses /\ to \in Addresses /\ amount \in Int
        /\ s \in Seq(UnspentOf(ch, from)) /\ s # <<>>
        /\ Worth(s) \in Int
        /\ tx = Payment(s, from, to, amount)
    BY <1>0 DEF PaysWith, Selected
  <1> DEFINE ins == [i \in 1..Len(s) |-> s[i].point]
             first == <<[address |-> to, amount |-> amount]>>
             change == IF Worth(s) > amount
                       THEN <<[address |-> from, amount |-> Worth(s) - amount]>> ELSE <<>>
  <1>2. ins \in Seq(TxOutPoint) /\ ins # <<>>
    <2>1. \A i \in 1..Len(s) : s[i] \in UnspentOf(ch, from)
      BY <1>1
    <2>2. \A i \in 1..Len(s) : s[i].point \in TxOutPoint
      BY <2>1, UnspentFinite DEF UnspentOf, Output
    <2>3. Len(s) \in Nat /\ Len(s) # 0
      BY <1>1
    <2> QED
      BY <2>2, <2>3
  <1>3. first \in Seq(TxOut)
    BY <1>1 DEF TxOut
  <1>4. change \in Seq(TxOut)
    <2>1. CASE Worth(s) > amount
      <3>1. [address |-> from, amount |-> Worth(s) - amount] \in TxOut
        BY <1>1 DEF TxOut
      <3> QED
        BY <2>1, <3>1
    <2>2. CASE ~(Worth(s) > amount)
      BY <2>2
    <2> QED
      BY <2>1, <2>2
  <1> HIDE DEF ins, first, change
  <1>5. tx = [ins |-> ins, signed |-> TRUE, id |-> NoId, outs |-> first \o change]
    BY <1>1 DEF Payment, ins, first, change
  <1>6. first \o change \in Seq(TxOut)
    BY <1>3, <1>4
  <1> QED
    BY <1>2, <1>5, <1>6 DEF Transaction, TransactionWith

\* What is mined is a transaction.
LEMMA MinedType == Mined \subseteq Transaction
  BY DEF Mined, Transaction, TransactionWith

\* Giving a transaction its id keeps the rest.
LEMMA WithIdType ==
    ASSUME NEW tx \in Transaction, NEW b \in Nat
    PROVE  /\ WithId(tx, b) \in Mined /\ WithId(tx, b) \in Transaction
           /\ WithId(tx, b).ins = tx.ins /\ WithId(tx, b).outs = tx.outs
           /\ WithId(tx, b).signed = tx.signed
           /\ WithId(tx, b).id = GetTransactionId(WithId(tx, b), b)
  <1> DEFINE id == GetTransactionId(tx, b)
             new == WithId(tx, b)
  <1>1. tx.ins \in Seq(TxOutPoint) /\ tx.outs \in Seq(TxOut) /\ tx.signed \in BOOLEAN
    BY DEF Transaction, TransactionWith
  <1>2. id \in Id
    BY <1>1, IdType
  <1> HIDE DEF id
  <1>3. new = [tx EXCEPT !.id = id]
    BY DEF WithId, id
  <1> HIDE DEF new
  <1>4. new = [ins |-> tx.ins, signed |-> tx.signed, outs |-> tx.outs, id |-> id]
    BY <1>3 DEF Transaction, TransactionWith
  <1>5. new \in Mined
    BY <1>1, <1>2, <1>4 DEF Mined, TransactionWith
  <1>6. new.ins = tx.ins /\ new.outs = tx.outs /\ new.signed = tx.signed /\ new.id = id
    BY <1>4
  <1>7. GetTransactionId(new, b) = id
    BY <1>6 DEF GetTransactionId, id
  <1> QED
    BY <1>5, <1>6, <1>7, MinedType DEF new

\* The reward of a block is one to IsCoinbase.
LEMMA CoinbaseIs ==
    ASSUME NEW b, NEW a
    PROVE  IsCoinbase(Coinbase(b, a))
  BY DEF Coinbase, WithId, IsCoinbase

\* The reward of a block.
LEMMA CoinbaseType ==
    ASSUME NEW b \in Nat, NEW a \in Addresses
    PROVE  /\ Coinbase(b, a) \in Mined /\ Coinbase(b, a) \in Transaction
           /\ ~Coinbase(b, a).signed
           /\ Coinbase(b, a).ins = <<<<b, 0, 0>>>>
           /\ Coinbase(b, a).outs = <<[address |-> a, amount |-> COINBASE_REWARD]>>
           /\ Coinbase(b, a).id = GetTransactionId(Coinbase(b, a), b)
           /\ IsCoinbase(Coinbase(b, a))
  <1> DEFINE tx == [ins |-> <<<<b, 0, 0>>>>, signed |-> FALSE,
                    outs |-> <<[address |-> a, amount |-> COINBASE_REWARD]>>, id |-> NoId]
  <1>1. <<b, 0, 0>> \in TxOutPoint /\ [address |-> a, amount |-> COINBASE_REWARD] \in TxOut
    BY LedgerAssumption DEF TxOutPoint, TxOut
  <1>2. tx \in Transaction
    <2>1. <<<<b, 0, 0>>>> \in Seq(TxOutPoint) /\ <<[address |-> a, amount |-> COINBASE_REWARD]>> \in Seq(TxOut)
      BY <1>1
    <2> QED
      BY <2>1 DEF Transaction, TransactionWith
  <1>3. Coinbase(b, a) = WithId(tx, b) /\ ~tx.signed /\ tx.ins = <<<<b, 0, 0>>>>
        /\ tx.outs = <<[address |-> a, amount |-> COINBASE_REWARD]>>
    BY DEF Coinbase
  <1> HIDE DEF tx
  <1>4. /\ Coinbase(b, a) \in Mined /\ Coinbase(b, a) \in Transaction
        /\ ~Coinbase(b, a).signed
        /\ Coinbase(b, a).ins = <<<<b, 0, 0>>>>
        /\ Coinbase(b, a).outs = <<[address |-> a, amount |-> COINBASE_REWARD]>>
        /\ Coinbase(b, a).id = GetTransactionId(Coinbase(b, a), b)
    <2>1. /\ WithId(tx, b) \in Mined /\ WithId(tx, b) \in Transaction
          /\ WithId(tx, b).ins = tx.ins /\ WithId(tx, b).outs = tx.outs
          /\ WithId(tx, b).signed = tx.signed
          /\ WithId(tx, b).id = GetTransactionId(WithId(tx, b), b)
      BY <1>2, WithIdType
    <2> QED
      BY <1>3, <2>1
  <1>5. IsCoinbase(Coinbase(b, a))
    BY CoinbaseIs
  <1> QED
    BY <1>4, <1>5
-----------------------------------------------------------------------------
(* Types. *)

\* What ReQueueTransactions makes of the queue and the block.
ReQueued(q0, block) ==
    FoldLeft(LAMBDA q, tx : IF IsCoinbase(tx) THEN q ELSE Append(q, tx), q0, block)

\* It holds what was in the queue, and the payments of the block.
LEMMA ReQueuedFrom ==
    ASSUME NEW T, NEW P, NEW q0 \in Seq(P), NEW block \in Seq(T),
           \A i \in 1..Len(block) : ~IsCoinbase(block[i]) => block[i] \in P
    PROVE  ReQueued(q0, block) \in Seq(P)
  <1> DEFINE n == Len(block)
             V == Seq(P)
             next(v, k) == IF IsCoinbase(block[k]) THEN v ELSE Append(v, block[k])
             g == [p \in (1..n) \X V |-> next(p[2], p[1])]
             D(h) == [s \in SUBSET (1..n) |->
                        IF s = {} THEN q0 ELSE next(h[s \ {Max(s)}], Max(s))]
             iter == CHOOSE h : h = D(h)
  <1>1. n \in Nat /\ q0 \in V /\ DOMAIN block = 1..n
    OBVIOUS
  <1>2. \A k \in 1..n, v \in V : next(v, k) \in V
    OBVIOUS
  <1>3. ReQueued(q0, block) = iter[1..n]
    BY <1>1 DEF ReQueued, FoldLeft, MapThenFoldSet
  <1> HIDE DEF V, next, n
  <1>4. IsTurn(g, n, V)
    BY <1>2 DEF IsTurn
  <1>5. \A k \in 1..n, v \in V : g[<<k, v>>] = next(v, k)
    OBVIOUS
  <1> HIDE DEF g
  <1>6. PICK h : h \in [SUBSET (1..n) -> V] /\ IsFold(h, n, V, q0, g)
    BY <1>1, <1>4, FoldLeftExists
  <1>7. h = D(h)
    <2>1. ASSUME NEW s \in SUBSET (1..n), s # {}
          PROVE  h[s] = next(h[s \ {Max(s)}], Max(s))
      <3>1. Max(s) \in 1..n /\ h[s \ {Max(s)}] \in V
        BY <1>1, <1>6, <2>1, MaxOf
      <3> QED
        BY <3>1, <2>1, <1>5, <1>6 DEF IsFold
    <2> QED
      BY <1>6, <2>1 DEF IsFold
  <1> HIDE DEF D
  <1>8. iter = D(iter)
    BY <1>7
  <1> HIDE DEF iter
  <1>9. IsFold(iter, n, V, q0, g)
    <2>1. iter[{}] = q0
      BY <1>8 DEF D
    <2>2. ASSUME NEW s \in SUBSET (1..n), s # {}, iter[s \ {Max(s)}] \in V
          PROVE  iter[s] = g[<<Max(s), iter[s \ {Max(s)}]>>]
      <3>1. iter[s] = next(iter[s \ {Max(s)}], Max(s))
        BY <1>8, <2>2 DEF D
      <3>2. Max(s) \in 1..n
        BY <1>1, <2>2, MaxOf
      <3> QED
        BY <3>1, <3>2, <2>2, <1>5
    <2> QED
      BY <2>1, <2>2 DEF IsFold
  <1>10. IsLoop([k \in 0..n |-> iter[1..k]], n, V, q0, g)
    BY <1>1, <1>4, <1>9, FoldLeftUnrolls
  <1>11. iter[1..n] \in V
    BY <1>1, <1>10 DEF IsLoop
  <1> QED
    BY <1>3, <1>11 DEF V

\* A reward and what follows.
LEMMA Prepended ==
    ASSUME NEW X, NEW c \in X, NEW s \in Seq(X)
    PROVE  /\ <<c>> \o s \in Seq(X) /\ Len(<<c>> \o s) = Len(s) + 1
           /\ (<<c>> \o s)[1] = c
           /\ \A t \in 2..Len(<<c>> \o s) : t - 1 \in 1..Len(s) /\ (<<c>> \o s)[t] = s[t - 1]
  <1>1. <<c>> \in Seq(X) /\ Len(<<c>>) = 1 /\ <<c>>[1] = c
    OBVIOUS
  <1> QED
    BY <1>1

\* A block that begins with its reward and goes on with transactions of txs.
IsMined(block, b, a, txs) ==
    /\ block \in Seq(Mined) /\ Len(block) >= 1 /\ block[1] = Coinbase(b, a)
    /\ \A t \in 2..Len(block) : \E tx \in txs : block[t] = WithId(tx, b)

\* A reward and a list of transactions that get their ids make such a block.
LEMMA RewardAndList ==
    ASSUME NEW b \in Nat, NEW a \in Addresses, NEW txs \in SUBSET Transaction,
           NEW s \in Seq(txs), NEW block,
           block = <<Coinbase(b, a)>> \o [i \in 1..Len(s) |-> WithId(s[i], b)]
    PROVE  IsMined(block, b, a, txs)
  <1> DEFINE c == Coinbase(b, a)
             d == [i \in 1..Len(s) |-> WithId(s[i], b)]
  <1>1. \A i \in 1..Len(s) : s[i] \in txs /\ s[i] \in Transaction
    OBVIOUS
  <1>2. c \in Mined
    BY CoinbaseType
  <1>3. \A i \in 1..Len(s) : d[i] = WithId(s[i], b) /\ d[i] \in Mined
    BY <1>1, WithIdType
  <1>4. d \in Seq(Mined) /\ Len(d) = Len(s)
    BY <1>3
  <1>5. block = <<c>> \o d
    OBVIOUS
  <1> HIDE DEF c, d
  <1>6. /\ block \in Seq(Mined) /\ Len(block) = Len(d) + 1 /\ block[1] = c
        /\ \A t \in 2..Len(block) : t - 1 \in 1..Len(d) /\ block[t] = d[t - 1]
    <2> DEFINE joined == <<c>> \o d
    <2>1. /\ joined \in Seq(Mined) /\ Len(joined) = Len(d) + 1 /\ joined[1] = c
          /\ \A t \in 2..Len(joined) : t - 1 \in 1..Len(d) /\ joined[t] = d[t - 1]
      BY <1>2, <1>4, Prepended
    <2> HIDE DEF joined
    <2>2. block = joined
      BY <1>5 DEF joined
    <2> QED
      BY <2>1, <2>2
  <1>7. \A t \in 2..Len(block) : \E tx \in txs : block[t] = WithId(tx, b)
    BY <1>1, <1>3, <1>4, <1>6
  <1>8. Len(block) >= 1
    BY <1>4, <1>6
  <1> QED
    BY <1>6, <1>7, <1>8 DEF IsMined, c

\* What peers may put into their blocks.
PeersPay(ch) == AnyPayment(ch) \cup PeerPayments

\* The blocks of peers are such blocks.
LEMMA PeerBlocksMined ==
    ASSUME NEW ch \in Blocks, NEW block \in PeerBlocks(ch)
    PROVE  /\ \E a \in Addresses : IsMined(block, Len(ch), a, PeersPay(ch))
           /\ PeersPay(ch) \in SUBSET Transaction
           /\ \A tx \in PeersPay(ch) : tx.signed /\ tx.ins # <<>>
  <1>1. PICK a \in Addresses, s \in SeqOf(PeersPay(ch), MaxPeerPayments) :
            block = <<Coinbase(Len(ch), a)>> \o [i \in 1..Len(s) |-> WithId(s[i], Len(ch))]
    <2> DEFINE Row(a, s) == <<Coinbase(Len(ch), a)>> \o [i \in 1..Len(s) |-> WithId(s[i], Len(ch))]
               P == SeqOf(PeersPay(ch), MaxPeerPayments)
    <2>1. PeerBlocks(ch) = {Row(a, s) : a \in Addresses, s \in P}
      BY DEF PeerBlocks, PeersPay
    <2> HIDE DEF Row, P
    <2>2. \E a \in Addresses, s \in P : block = Row(a, s)
      BY <2>1
    <2> QED
      BY <2>2 DEF Row, P
  <1>2. \A tx \in PeersPay(ch) : tx \in Transaction /\ tx.signed /\ tx.ins # <<>>
    BY PaymentType, LedgerAssumption DEF PeersPay
  <1>3. s \in Seq(PeersPay(ch))
    <2>1. PICK m \in 0..MaxPeerPayments : s \in [1..m -> PeersPay(ch)]
      BY <1>1 DEF SeqOf
    <2>2. m \in Nat
      BY LedgerAssumption
    <2> QED
      BY <2>1, <2>2
  <1>4. Len(ch) \in Nat
    BY DEF Blocks
  <1> QED
    BY <1>1, <1>2, <1>3, <1>4, RewardAndList

\* The types that the lemmas ask for.
LEMMA TypeFacts ==
    ASSUME LedgerTypeOK
    PROVE  /\ chain \in Blocks /\ Len(chain) \in Nat
           /\ queue \in Seq(Transaction) /\ unmined \in Seq(Transaction)
           /\ previous \in Blocks /\ Len(previous) \in Nat
  <1>1. Seq(Mined) \subseteq Seq(Transaction)
    BY MinedType
  <1>2. Seq(Seq(Mined)) \subseteq Blocks
    BY <1>1 DEF Blocks
  <1> QED
    BY <1>1, <1>2 DEF LedgerTypeOK

\* So are the blocks this node mines.
LEMMA UnminedMined ==
    ASSUME LedgerTypeOK, CreateUnminedBlock
    PROVE  IsMined(unmined', Len(chain), RewardAddress, ToSet(queue))
  <1>1. Len(chain) \in Nat /\ queue \in Seq(Transaction)
    BY TypeFacts
  <1>2. ToSet(queue) \in SUBSET Transaction /\ queue \in Seq(ToSet(queue))
    BY <1>1 DEF ToSet
  <1>3. unmined' = <<Coinbase(Len(chain), RewardAddress)>> \o
                   [i \in 1..Len(queue) |-> WithId(queue[i], Len(chain))]
    BY DEF CreateUnminedBlock
  <1> QED
    BY <1>1, <1>2, <1>3, LedgerAssumption, RewardAndList

\* Where the block that SyncBlockchain adds comes from.
IsAdded(block, kept) ==
    \/ block \in PeerBlocks(kept) /\ UNCHANGED <<unmined, previous>>
    \/ block = unmined /\ previous = kept /\ unmined # <<>> /\ unmined' = <<>> /\ previous' = <<>>

\* The chain of an update is some blocks of this one and the new one.
LEMMA SyncStep ==
    ASSUME LedgerTypeOK, SyncBlockchain
    PROVE  \E size \in 1..Len(chain) :
               LET kept == SubSeq(chain, 1, size)
               IN  /\ kept \in Seq(Seq(Mined)) /\ kept \in Blocks /\ Len(kept) = size
                   /\ \A b \in 1..size : kept[b] = chain[b]
                   /\ \E block : IsAdded(block, kept) /\ chain' = Append(kept, block)
                   /\ intact' = (intact /\ size = Len(chain))
  <1>1. PICK size \in 1..Min({Len(chain), MaxBlocks - 1}) :
            /\ \E block : IsAdded(block, SubSeq(chain, 1, size))
                          /\ chain' = Append(SubSeq(chain, 1, size), block)
            /\ intact' = (intact /\ size = Len(chain))
    BY DEF SyncBlockchain, IsAdded
  <1>2. Len(chain) \in Nat /\ MaxBlocks - 1 \in Int /\ chain \in Seq(Seq(Mined))
    BY LedgerAssumption DEF LedgerTypeOK
  <1>3. Min({Len(chain), MaxBlocks - 1}) <= Len(chain) /\ Min({Len(chain), MaxBlocks - 1}) \in Int
    <2>1. ASSUME NEW a \in Int, NEW b \in Int
          PROVE  Min({a, b}) <= a /\ Min({a, b}) \in Int
      <3>1. \E x \in {a, b} : \A y \in {a, b} : x <= y
        OBVIOUS
      <3> QED
        BY <3>1 DEF Min
    <2>2. Len(chain) \in Int
      BY <1>2
    <2> QED
      BY <1>2, <2>1, <2>2, Zenon
  <1>4. size \in 1..Len(chain)
    BY <1>2, <1>3
  <1> DEFINE kept == SubSeq(chain, 1, size)
  <1>5. kept \in Seq(Seq(Mined)) /\ Len(kept) = size /\ \A b \in 1..size : kept[b] = chain[b]
    BY <1>2, <1>4
  <1>6. kept \in Blocks
    <2>1. Seq(Mined) \subseteq Seq(Transaction)
      BY MinedType
    <2> HIDE DEF kept
    <2> QED
      BY <1>5, <2>1 DEF Blocks
  <1> QED
    BY <1>1, <1>4, <1>5, <1>6

\* Its block is of mined transactions.
LEMMA AddedType ==
    ASSUME LedgerTypeOK, NEW kept \in Blocks, NEW block, IsAdded(block, kept)
    PROVE  block \in Seq(Mined) /\ block \in Seq(Transaction)
  <1>1. block \in Seq(Mined)
    BY PeerBlocksMined DEF IsAdded, IsMined, LedgerTypeOK
  <1> QED
    BY <1>1, MinedType

\* The genesis block has its type.
LEMMA TypesAtFirst == Init => LedgerTypeOK
  <1> SUFFICES ASSUME Init PROVE LedgerTypeOK
    OBVIOUS
  <1>1. PICK a \in Addresses : chain = <<<<Coinbase(0, a)>>>>
    BY DEF Init
  <1>2. Coinbase(0, a) \in Mined
    BY CoinbaseType
  <1> DEFINE c == Coinbase(0, a)
  <1> HIDE DEF Mined, c
  <1>3. <<<<c>>>> \in Seq(Seq(Mined))
    BY <1>2 DEF c
  <1> QED
    BY <1>1, <1>3, LedgerAssumption DEF Init, LedgerTypeOK, c

(***************************************************************************)
(* Chain, queue and block hold transactions, and those in a block have     *)
(* their ids: neither a payment of an amount of nothing or less, nor a     *)
(* re-queued block, nor the block of a peer puts in anything else.         *)
(***************************************************************************)
THEOREM LedgerTypes == Spec => []LedgerTypeOK
  <1>1. Init => LedgerTypeOK
    BY TypesAtFirst
  <1>2. ASSUME LedgerTypeOK, [Next]_vars
        PROVE  LedgerTypeOK'
    <2>0. chain \in Blocks /\ Len(chain) \in Nat /\ queue \in Seq(Transaction) /\ unmined \in Seq(Transaction)
      BY <1>2, TypeFacts
    <2>1. CASE Pay
      <3>1. PICK tx \in AnyPayment(chain) : queue' = Append(queue, tx)
        BY <2>1 DEF Pay
      <3>2. tx \in Transaction
        BY <2>0, PaymentType
      <3>3. queue' \in Seq(Transaction)
        BY <2>0, <3>1, <3>2
      <3>4. payments' \in 0..MaxPayments
        BY <1>2, <2>1, LedgerAssumption DEF Pay, LedgerTypeOK
      <3> QED
        BY <1>2, <2>1, <3>3, <3>4 DEF Pay, LedgerTypeOK
    <2>2. CASE CreateUnminedBlock
      <3>1. unmined' \in Seq(Mined)
        BY <1>2, <2>2, UnminedMined DEF IsMined
      <3>2. queue' = <<>> /\ previous' = chain /\ UNCHANGED <<chain, payments, updates, intact>>
        BY <2>2 DEF CreateUnminedBlock
      <3> QED
        BY <1>2, <3>1, <3>2 DEF LedgerTypeOK
    <2>3. CASE AddNewBlock
      <3>1. chain' \in Seq(Seq(Mined))
        BY <1>2, <2>3 DEF AddNewBlock, LedgerTypeOK
      <3> QED
        BY <1>2, <2>3, <3>1 DEF AddNewBlock, LedgerTypeOK
    <2>4. CASE ReQueueTransactions
      <3>1. queue' = ReQueued(queue, unmined)
        BY <2>4 DEF ReQueueTransactions, ReQueued
      <3>2. queue' \in Seq(Transaction)
        BY <2>0, <3>1, ReQueuedFrom
      <3>3. unmined' = <<>> /\ previous' = <<>> /\ UNCHANGED <<chain, payments, updates, intact>>
        BY <2>4 DEF ReQueueTransactions
      <3> QED
        BY <1>2, <3>2, <3>3 DEF LedgerTypeOK
    <2>5. CASE SyncBlockchain
      <3>1. PICK size \in 1..Len(chain) :
               LET kept == SubSeq(chain, 1, size)
               IN  /\ kept \in Seq(Seq(Mined)) /\ kept \in Blocks /\ Len(kept) = size
                   /\ \A b \in 1..size : kept[b] = chain[b]
                   /\ \E block : IsAdded(block, kept) /\ chain' = Append(kept, block)
                   /\ intact' = (intact /\ size = Len(chain))
        BY <1>2, <2>5, SyncStep
      <3> DEFINE kept == SubSeq(chain, 1, size)
      <3>2. PICK block : IsAdded(block, kept) /\ chain' = Append(kept, block)
        BY <3>1
      <3>3. kept \in Blocks /\ kept \in Seq(Seq(Mined))
        BY <3>1
      <3> HIDE DEF kept
      <3>4. block \in Seq(Mined)
        BY <1>2, <3>2, <3>3, AddedType
      <3>5. chain' \in Seq(Seq(Mined))
        BY <3>2, <3>3, <3>4
      <3>6. intact' \in BOOLEAN
        BY <3>1
      <3>7. updates' \in 0..MaxUpdates
        BY <1>2, <2>5, LedgerAssumption DEF SyncBlockchain, LedgerTypeOK
      <3>8. queue' = queue /\ payments' = payments
        BY <2>5 DEF SyncBlockchain
      <3>9. unmined' \in Seq(Mined) /\ previous' \in Seq(Seq(Mined))
        <4>1. (unmined' = unmined /\ previous' = previous) \/ (unmined' = <<>> /\ previous' = <<>>)
          BY <3>2 DEF IsAdded
        <4>2. <<>> \in Seq(Mined) /\ <<>> \in Seq(Seq(Mined))
          OBVIOUS
        <4> QED
          BY <1>2, <4>1, <4>2 DEF LedgerTypeOK
      <3> QED
        BY <1>2, <3>5, <3>6, <3>7, <3>8, <3>9 DEF LedgerTypeOK
    <2>6. CASE UNCHANGED vars
      BY <1>2, <2>6 DEF vars, LedgerTypeOK
    <2> QED
      BY <1>2, <2>1, <2>2, <2>3, <2>4, <2>5, <2>6 DEF Next
  <1> QED
    BY <1>1, <1>2, PTL DEF Spec

(***************************************************************************)
(* GetUnspentTxOuts, which takes spent outputs off its list as it goes     *)
(* through the blocks, ends with the outputs that no payment in the same   *)
(* place of the chain or later spends.  It needs of the chain only its     *)
(* type, so it holds as well when outputs are spent twice, or before they  *)
(* are made.                                                               *)
(***************************************************************************)
THEOREM UnspentMeans == Spec => []UnspentIsWhatNobodySpent
  <1>1. ASSUME LedgerTypeOK
        PROVE  UnspentIsWhatNobodySpent
    <2>1. chain \in Blocks
      BY <1>1, TypeFacts
    <2>2. Entries(chain) \in Seq(Entry)
      BY <2>1, EntriesPlaced
    <2>3. PICK f : LeavesUnspent(f, Entries(chain)) /\ UnspentTxOuts(chain) = f[Len(Entries(chain))]
      BY <2>2, UnspentUnrolls
    <2>4. Len(Entries(chain)) \in 0..Len(Entries(chain))
      BY <2>2
    <2>5. UnspentTxOuts(chain) = Left(Entries(chain), Len(Entries(chain)))
      BY <2>2, <2>3, <2>4, LeftUnspent
    <2> QED
      BY <2>5 DEF UnspentIsWhatNobodySpent, Left
  <1> QED
    BY <1>1, LedgerTypes, PTL
-----------------------------------------------------------------------------
(* Payments that were put together on the chain of the node. *)

\* The unspent outputs name their places in the chain.
LEMMA UnspentResolve ==
    ASSUME NEW ch \in Blocks, NEW o \in UnspentTxOuts(ch)
    PROVE  /\ Resolves(ch, o.point) /\ o \in Output
           /\ Resolved(ch, o.point) \in TxOut
           /\ Resolved(ch, o.point).address = o.address
           /\ Resolved(ch, o.point).amount = o.amount
  <1>1. PICK i \in 1..Len(Entries(ch)) : o \in Created(Entries(ch)[i])
    BY UnspentFinite
  <1> DEFINE e == Entries(ch)[i]
  <1>2. PICK b \in 1..Len(ch) : \E t \in 1..Len(ch[b]) :
            e = [block |-> b - 1, index |-> t - 1, tx |-> ch[b][t]]
    BY EntriesPlaced DEF IsPlaced
  <1>3. PICK t \in 1..Len(ch[b]) : e = [block |-> b - 1, index |-> t - 1, tx |-> ch[b][t]]
    BY <1>2
  <1> DEFINE tx == ch[b][t]
  <1>4. e.block = b - 1 /\ e.index = t - 1 /\ e.tx = tx
    BY <1>3
  <1>5. PICK k \in 1..Len(tx.outs) :
            o = [point |-> <<b - 1, t - 1, k - 1>>, address |-> tx.outs[k].address,
                 amount |-> tx.outs[k].amount]
    BY <1>1, <1>4 DEF Created
  <1>6. /\ ch[b] \in Seq(Transaction) /\ tx \in Transaction /\ tx.outs \in Seq(TxOut)
        /\ Len(ch) \in Nat /\ Len(ch[b]) \in Nat /\ Len(tx.outs) \in Nat
    <2>1. ch[b] \in Seq(Transaction) /\ Len(ch) \in Nat
      BY DEF Blocks
    <2>2. tx \in Transaction /\ Len(ch[b]) \in Nat
      BY <2>1
    <2>3. tx.outs \in Seq(TxOut)
      BY <2>2 DEF Transaction, TransactionWith
    <2> HIDE DEF tx
    <2> QED
      BY <2>1, <2>2, <2>3
  <1> DEFINE p == o.point
  <1>7. /\ p[1] = b - 1 /\ p[2] = t - 1 /\ p[3] = k - 1
        /\ o.address = tx.outs[k].address /\ o.amount = tx.outs[k].amount
    BY <1>5
  <1>8. p[1] + 1 = b /\ p[2] + 1 = t /\ p[3] + 1 = k
    BY <1>6, <1>7
  <1>9. Resolves(ch, p) /\ Resolved(ch, p) = tx.outs[k]
    <2>1. p[1] < Len(ch) /\ p[2] < Len(ch[b]) /\ p[3] < Len(tx.outs)
      <3> DEFINE nb == Len(ch)
                 nt == Len(ch[b])
                 nk == Len(tx.outs)
      <3>1. b \in 1..nb /\ t \in 1..nt /\ k \in 1..nk /\ nb \in Nat /\ nt \in Nat /\ nk \in Nat
        BY <1>6
      <3> HIDE DEF nb, nt, nk, p, tx
      <3>2. p[1] < nb /\ p[2] < nt /\ p[3] < nk
        BY <1>7, <3>1
      <3> QED
        BY <3>2 DEF nb, nt, nk
    <2> HIDE DEF p
    <2> QED
      BY <1>8, <2>1 DEF Resolves, Resolved
  <1>10. o \in Output
    BY UnspentFinite
  <1>11. tx.outs[k] \in TxOut
    BY <1>6
  <1> HIDE DEF tx, e
  <1> QED
    BY <1>7, <1>9, <1>10, <1>11

\* What CreateTransaction makes is sound, whatever the amount.
LEMMA PaymentSound ==
    ASSUME NEW ch \in Blocks, NEW tx \in AnyPayment(ch)
    PROVE  IsSound(tx, ch, Len(ch))
  <1>0. PICK from, to, amount, s : PaysWith(ch, tx, from, to, amount, s)
    BY PaymentsMade
  <1>1. /\ from \in Addresses /\ to \in Addresses /\ amount \in Int /\ from # to
        /\ s \in Seq(UnspentOf(ch, from)) /\ s # <<>> /\ IsInjective(s)
        /\ Worth(s) \in Int /\ Worth(s) >= amount
        /\ tx = Payment(s, from, to, amount)
    BY <1>0 DEF PaysWith, Selected
  <1> DEFINE n == Len(s)
             ins == [i \in 1..n |-> s[i].point]
  <1>2. /\ n \in Nat /\ n # 0 /\ DOMAIN s = 1..n
        /\ \A i \in 1..n : s[i] \in UnspentTxOuts(ch) /\ s[i].address = from
    <2>1. n \in Nat /\ n # 0 /\ DOMAIN s = 1..n /\ \A i \in 1..n : s[i] \in UnspentOf(ch, from)
      BY <1>1
    <2> QED
      BY <2>1 DEF UnspentOf
  <1>3. \A i \in 1..n : /\ Resolves(ch, s[i].point) /\ s[i] \in Output
                        /\ Resolved(ch, s[i].point).address = from
                        /\ Resolved(ch, s[i].point).amount = s[i].amount
    BY <1>2, UnspentResolve
  <1>4. tx.signed /\ tx.ins = ins
    BY <1>1 DEF Payment
  <1>5. Len(ins) = n /\ DOMAIN ins = 1..n /\ \A i \in 1..n : ins[i] = s[i].point
    BY <1>2
  <1>6. IsInjective(ins)
    <2>1. ASSUME NEW i \in 1..n, NEW j \in 1..n, s[i].point = s[j].point
          PROVE  i = j
      <3>1. s[i].address = s[j].address /\ s[i].amount = s[j].amount
        BY <1>2, <1>3, <2>1
      <3>2. s[i] \in Output /\ s[j] \in Output
        BY <1>3
      <3>3. s[i] = s[j]
        BY <2>1, <3>1, <3>2 DEF Output
      <3> QED
        BY <1>1, <1>2, <3>3 DEF IsInjective
    <2> HIDE DEF ins, n
    <2> QED
      BY <1>5, <2>1 DEF IsInjective
  <1> HIDE DEF ins
  <1>7. Inputs(ch, tx) = Worth(s)
    <2>1. [i \in 1..Len(tx.ins) |-> Resolved(ch, tx.ins[i]).amount] = [i \in 1..n |-> s[i].amount]
      BY <1>3, <1>4, <1>5
    <2> QED
      BY <2>1 DEF Inputs, Worth
  <1>8. \A i \in 1..n : /\ tx.ins[i][1] < Len(ch) /\ Resolves(ch, tx.ins[i])
                        /\ Resolved(ch, tx.ins[i]).address = from
    BY <1>3, <1>4, <1>5 DEF Resolves
  <1> HIDE DEF n
  <1> DEFINE rest == Worth(s) - amount
             first == [address |-> to, amount |-> amount]
             second == [address |-> from, amount |-> rest]
             outs == tx.outs
  <1>9. \/ Len(outs) = 1 /\ outs[1] = first /\ Worth(s) = amount
        \/ Len(outs) = 2 /\ outs[1] = first /\ outs[2] = second
    <2>1. outs = <<first>> \o IF Worth(s) > amount THEN <<second>> ELSE <<>>
      BY <1>1 DEF Payment
    <2> HIDE DEF first, second, outs
    <2>2. CASE Worth(s) > amount
      <3>1. <<second>> \in Seq({first, second}) /\ Len(<<second>>) = 1 /\ <<second>>[1] = second
        OBVIOUS
      <3>2. /\ Len(<<first>> \o <<second>>) = 1 + 1 /\ (<<first>> \o <<second>>)[1] = first
            /\ \A t \in 2..2 : (<<first>> \o <<second>>)[t] = <<second>>[t - 1]
        BY <3>1, Prepended
      <3>3. (<<first>> \o <<second>>)[2] = second
        BY <3>1, <3>2
      <3> QED
        BY <2>1, <2>2, <3>2, <3>3
    <2>3. CASE ~(Worth(s) > amount)
      <3>1. Worth(s) = amount
        BY <1>1, <2>3
      <3>2. outs = <<first>>
        BY <2>1, <2>3
      <3> QED
        BY <3>1, <3>2
    <2> QED
      BY <2>2, <2>3
  <1>10. Outputs(tx) = Worth(s)
    <2>1. Append(<<>>, amount) \in Seq(Int) /\ rest \in Int /\ amount \in Int /\ <<>> \in Seq(Int)
      BY <1>1
    <2>2. SumFunction(Append(<<>>, amount)) = amount
      <3>1. SumFunction(Append(<<>>, amount)) = SumFunction(<<>>) + amount /\ SumFunction(<<>>) = 0
        BY <2>1, SumAppend
      <3> QED
        BY <2>1, <3>1
    <2>3. CASE Len(outs) = 1 /\ outs[1] = first /\ Worth(s) = amount
      <3>1. [i \in 1..1 |-> outs[i].amount] = Append(<<>>, amount)
        BY <2>3
      <3> QED
        BY <2>2, <2>3, <3>1 DEF Outputs
    <2>4. CASE Len(outs) = 2 /\ outs[1] = first /\ outs[2] = second
      <3>1. [i \in 1..2 |-> outs[i].amount] = Append(Append(<<>>, amount), rest)
        BY <2>4
      <3>2. SumFunction(Append(Append(<<>>, amount), rest)) = amount + rest
        BY <2>1, <2>2, SumAppend
      <3>3. amount + rest = Worth(s)
        BY <1>1
      <3> QED
        BY <2>4, <3>1, <3>2, <3>3 DEF Outputs
    <2> QED
      BY <1>9, <2>3, <2>4
  <1>11. \A i, j \in 1..Len(outs) : i # j => outs[i].address # outs[j].address
    <2>1. first.address = to /\ second.address = from /\ from # to
      BY <1>1
    <2> HIDE DEF first, second, outs
    <2>2. CASE Len(outs) = 1
      BY <2>2
    <2>3. CASE Len(outs) = 2 /\ outs[1] = first /\ outs[2] = second
      <3>1. ASSUME NEW i \in 1..2, NEW j \in 1..2, i # j
            PROVE  (i = 1 /\ j = 2) \/ (i = 2 /\ j = 1)
        BY <3>1, <2>3
      <3> QED
        BY <2>1, <2>3, <3>1
    <2> QED
      BY <1>9, <2>2, <2>3
  <1>12. Len(tx.ins) = n /\ n # 0 /\ IsInjective(tx.ins)
    BY <1>2, <1>4, <1>5, <1>6
  <1> QED
    BY <1>1, <1>4, <1>7, <1>8, <1>10, <1>11, <1>12 DEF IsSound
-----------------------------------------------------------------------------
(* The transactions of the blocks. *)

\* The id plays no part in this.
LEMMA SoundWithId ==
    ASSUME NEW tx \in Transaction, NEW b \in Nat, NEW ch, NEW n, IsSound(tx, ch, n)
    PROVE  IsSound(WithId(tx, b), ch, n)
  <1>1. /\ WithId(tx, b).ins = tx.ins /\ WithId(tx, b).outs = tx.outs
        /\ WithId(tx, b).signed = tx.signed
    BY WithIdType
  <1> QED
    BY <1>1 DEF IsSound, Inputs, Outputs

\* Nor do later blocks.
LEMMA SoundLater ==
    ASSUME NEW ch \in Blocks, NEW block \in Seq(Transaction), NEW tx \in Transaction,
           NEW n \in 0..Len(ch), NEW m \in Nat, n <= m, IsSound(tx, ch, n)
    PROVE  IsSound(tx, Append(ch, block), m)
  <1> DEFINE longer == Append(ch, block)
  <1>1. Len(ch) \in Nat /\ Len(longer) = Len(ch) + 1 /\ \A b \in 1..Len(ch) : longer[b] = ch[b]
    BY DEF Blocks
  <1>2. /\ tx.ins \in Seq(TxOutPoint)
        /\ \A i \in 1..Len(tx.ins) : tx.ins[i][1] \in Nat
    <2>1. tx.ins \in Seq(TxOutPoint)
      BY DEF Transaction, TransactionWith
    <2>2. \A i \in 1..Len(tx.ins) : tx.ins[i] \in TxOutPoint
      BY <2>1
    <2> QED
      BY <2>1, <2>2 DEF TxOutPoint
  <1> HIDE DEF longer
  <1>3. ASSUME NEW i \in 1..Len(tx.ins)
        PROVE  /\ tx.ins[i][1] < m /\ Resolves(longer, tx.ins[i])
               /\ Resolved(longer, tx.ins[i]) = Resolved(ch, tx.ins[i])
    <2>1. tx.ins[i][1] < n /\ Resolves(ch, tx.ins[i])
      BY DEF IsSound
    <2>2. tx.ins[i][1] + 1 \in 1..Len(ch)
      BY <1>1, <1>2, <2>1
    <2>3. longer[tx.ins[i][1] + 1] = ch[tx.ins[i][1] + 1]
      BY <1>1, <2>2
    <2>4. tx.ins[i][1] < m /\ tx.ins[i][1] < Len(longer)
      BY <1>1, <1>2, <2>1
    <2> QED
      BY <2>1, <2>3, <2>4 DEF Resolves, Resolved
  <1>4. Inputs(longer, tx) = Inputs(ch, tx)
    BY <1>3 DEF Inputs
  <1> QED
    BY <1>3, <1>4 DEF IsSound, longer

\* CreateUnminedBlock and the peers make blocks of this shape ...
LEMMA MinedShape ==
    ASSUME NEW b \in Nat, NEW a \in Addresses, NEW txs \in SUBSET Transaction, NEW block,
           IsMined(block, b, a, txs), \A tx \in txs : tx.signed /\ tx.ins # <<>>
    PROVE  HasShape(block, b)
  <1> SUFFICES ASSUME NEW t \in 1..Len(block)
               PROVE  /\ block[t].id = GetTransactionId(block[t], b)
                      /\ t = 1 => \E c \in Addresses : block[1] = Coinbase(b, c)
                      /\ t # 1 => block[t].signed /\ block[t].ins # <<>>
    BY DEF HasShape
  <1>1. CASE t = 1
    BY <1>1, CoinbaseType DEF IsMined
  <1>2. CASE t # 1
    <2>1. t \in 2..Len(block)
      BY <1>2
    <2>2. PICK tx \in txs : block[t] = WithId(tx, b)
      BY <2>1 DEF IsMined
    <2>3. tx \in Transaction /\ tx.signed /\ tx.ins # <<>>
      OBVIOUS
    <2> DEFINE new == WithId(tx, b)
    <2>4. new.signed /\ new.ins # <<>> /\ new.id = GetTransactionId(new, b)
      BY <2>3, WithIdType
    <2> HIDE DEF new
    <2>5. block[t] = new
      BY <2>2 DEF new
    <2> QED
      BY <1>2, <2>4, <2>5
  <1> QED
    BY <1>1, <1>2

\* All of them are sound.
AllSound(txs, ch, b) == \A tx \in txs : IsSound(tx, ch, b)

\* ... whose payments are sound if the payments they put in are.
LEMMA MinedSound ==
    ASSUME NEW b \in Nat, NEW a \in Addresses, NEW txs \in SUBSET Transaction, NEW block,
           IsMined(block, b, a, txs), NEW ch, AllSound(txs, ch, b)
    PROVE  PaysSoundly(block, ch, b)
  BY SoundWithId DEF IsMined, AllSound, PaysSoundly

\* Blocks stay sound when another one is added, sound or not.
LEMMA BlockLater ==
    ASSUME NEW ch \in Blocks, NEW block \in Seq(Transaction), NEW old \in Seq(Transaction),
           NEW n \in 0..Len(ch), NEW m \in Nat, n <= m, PaysSoundly(old, ch, n)
    PROVE  PaysSoundly(old, Append(ch, block), m)
  <1> SUFFICES ASSUME NEW t \in 2..Len(old)
               PROVE  IsSound(old[t], Append(ch, block), m)
    BY DEF PaysSoundly
  <1>1. old[t] \in Transaction /\ IsSound(old[t], ch, n)
    BY DEF PaysSoundly
  <1> QED
    BY <1>1, SoundLater

\* Every block has its shape.
Shaped(ch) == \A b \in 1..Len(ch) : Len(ch[b]) >= 1 /\ HasShape(ch[b], b - 1)

\* One block more.
LEMMA ShapesGrow ==
    ASSUME NEW ch \in Blocks, NEW block, Len(block) >= 1, Shaped(ch), HasShape(block, Len(ch))
    PROVE  Shaped(Append(ch, block))
  <1> DEFINE longer == Append(ch, block)
             n == Len(ch)
  <1>1. /\ n \in Nat /\ Len(longer) = n + 1 /\ longer[n + 1] = block
        /\ \A b \in 1..n : longer[b] = ch[b]
    BY DEF Blocks
  <1> HIDE DEF longer
  <1>2. ASSUME NEW b \in 1..Len(longer)
        PROVE  Len(longer[b]) >= 1 /\ HasShape(longer[b], b - 1)
    <2>1. CASE b = n + 1
      <3>1. b - 1 = n /\ longer[b] = block
        BY <1>1, <2>1
      <3> QED
        BY <3>1
    <2>2. CASE b # n + 1
      <3>1. b \in 1..n /\ longer[b] = ch[b]
        BY <1>1, <2>2
      <3> QED
        BY <3>1 DEF Shaped
    <2> QED
      BY <2>1, <2>2
  <1> QED
    BY <1>2 DEF longer, Shaped

\* One block more of this node.
LEMMA SoundGrows ==
    ASSUME NEW ch \in Blocks, NEW block \in Seq(Transaction),
           SoundChain(ch), PaysSoundly(block, ch, Len(ch))
    PROVE  SoundChain(Append(ch, block))
  <1> DEFINE longer == Append(ch, block)
             n == Len(ch)
  <1>1. /\ n \in Nat /\ Len(longer) = n + 1 /\ longer[n + 1] = block
        /\ \A b \in 1..n : longer[b] = ch[b] /\ ch[b] \in Seq(Transaction)
    BY DEF Blocks
  <1>2. \A b \in 1..n : PaysSoundly(ch[b], longer, b - 1)
    <2> SUFFICES ASSUME NEW b \in 1..n PROVE PaysSoundly(ch[b], longer, b - 1)
      OBVIOUS
    <2>1. /\ b - 1 \in 0..Len(ch) /\ b - 1 \in Nat /\ b - 1 <= b - 1
          /\ ch[b] \in Seq(Transaction) /\ PaysSoundly(ch[b], ch, b - 1)
      BY <1>1 DEF SoundChain
    <2> QED
      BY <2>1, BlockLater
  <1>3. PaysSoundly(block, longer, n)
    <2>1. n \in 0..Len(ch) /\ n <= n
      BY <1>1
    <2> QED
      BY <1>1, <2>1, BlockLater
  <1> HIDE DEF longer
  <1>4. ASSUME NEW b \in 1..Len(longer)
        PROVE  PaysSoundly(longer[b], longer, b - 1)
    <2>1. CASE b = n + 1
      <3>1. b - 1 = n /\ longer[b] = block
        BY <1>1, <2>1
      <3> QED
        BY <3>1, <1>3
    <2>2. CASE b # n + 1
      <3>1. b \in 1..n /\ longer[b] = ch[b]
        BY <1>1, <2>2
      <3> QED
        BY <3>1, <1>2
    <2> QED
      BY <2>1, <2>2
  <1> QED
    BY <1>4 DEF longer, SoundChain

\* The payments of the queue, and of the block being mined, when a block is added.
LEMMA OwnLater ==
    ASSUME LedgerTypeOK, NEW block \in Seq(Transaction), chain' = Append(chain, block)
    PROVE  /\ \A i \in 1..Len(queue) :
                 IsSound(queue[i], chain, Len(chain)) => IsSound(queue[i], chain', Len(chain'))
           /\ PaysSoundly(unmined, chain, Len(chain)) => PaysSoundly(unmined, chain', Len(chain'))
  <1>1. /\ chain \in Blocks /\ Len(chain) \in Nat /\ queue \in Seq(Transaction)
        /\ unmined \in Seq(Transaction)
    BY TypeFacts
  <1>2. Len(chain') = Len(chain) + 1
    BY <1>1 DEF Blocks
  <1>3. Len(chain) \in 0..Len(chain) /\ Len(chain) <= Len(chain') /\ Len(chain') \in Nat
    BY <1>1, <1>2
  <1>4. \A i \in 1..Len(queue) : queue[i] \in Transaction
    BY <1>1
  <1>5. \A tx \in Transaction : IsSound(tx, chain, Len(chain)) => IsSound(tx, chain', Len(chain'))
    BY <1>1, <1>3, SoundLater
  <1>6. PaysSoundly(unmined, chain, Len(chain)) => PaysSoundly(unmined, chain', Len(chain'))
    BY <1>1, <1>3, BlockLater
  <1> QED
    BY <1>4, <1>5, <1>6

\* The genesis block has this.
LEMMA InvariantAtFirst == Init => LedgerInv
  <1> SUFFICES ASSUME Init, LedgerTypeOK PROVE LedgerInv
    BY TypesAtFirst
  <1>1. PICK a \in Addresses : chain = <<<<Coinbase(0, a)>>>>
    BY DEF Init
  <1> DEFINE c == Coinbase(0, a)
  <1>2. c.id = GetTransactionId(c, 0) /\ c = Coinbase(0, a)
    BY CoinbaseType
  <1>3. unmined = <<>> /\ queue = <<>> /\ previous = <<>> /\ chain = <<<<c>>>> /\ intact = TRUE
    BY <1>1 DEF Init
  <1> HIDE DEF c
  <1>4. Len(chain) = 1 /\ chain[1] = <<c>> /\ Len(<<c>>) = 1 /\ <<c>>[1] = c
    BY <1>3
  <1>5. HasShape(<<c>>, 0)
    BY <1>2, <1>4 DEF HasShape
  <1>6. PaysSoundly(<<c>>, chain, 0)
    BY <1>4 DEF PaysSoundly
  <1>7. \A b \in 1..Len(chain) : b = 1 /\ b - 1 = 0
    BY <1>4
  <1>8. HasShape(unmined, Len(previous)) /\ PaysSoundly(unmined, chain, Len(chain))
    BY <1>3 DEF HasShape, PaysSoundly
  <1>9. SoundChain(chain)
    BY <1>4, <1>6, <1>7 DEF SoundChain
  <1> QED
    BY <1>3, <1>4, <1>5, <1>7, <1>8, <1>9 DEF LedgerInv, OwnPaymentsSound

(***************************************************************************)
(* No action spoils the invariant: rewards and payments are made in their  *)
(* shape, wherever they are made; a payment of this node is sound when it  *)
(* is made and stays so whatever blocks are added after the ones it spends *)
(* from; and when an update drops blocks, intact is FALSE from then on.    *)
(***************************************************************************)
LEMMA LedgerInvariant == Spec => []LedgerInv
  <1>1. Init => LedgerInv
    BY InvariantAtFirst
  <1>2. ASSUME LedgerInv, [Next]_vars, LedgerTypeOK'
        PROVE  LedgerInv'
    <2>0. /\ chain \in Blocks /\ Len(chain) \in Nat /\ queue \in Seq(Transaction)
          /\ unmined \in Seq(Transaction) /\ LedgerTypeOK
      BY <1>2, TypeFacts DEF LedgerInv
    <2>i. /\ Shaped(chain) /\ HasShape(unmined, Len(previous))
          /\ \A i \in 1..Len(queue) : queue[i].signed /\ queue[i].ins # <<>>
          /\ intact => /\ \A i \in 1..Len(queue) : IsSound(queue[i], chain, Len(chain))
                       /\ PaysSoundly(unmined, chain, Len(chain))
          /\ updates = 0 => intact /\ SoundChain(chain)
      BY <1>2 DEF LedgerInv, OwnPaymentsSound, Shaped
    <2>g. ASSUME /\ Shaped(chain') /\ HasShape(unmined', Len(previous'))
                 /\ \A i \in 1..Len(queue') : queue'[i].signed /\ queue'[i].ins # <<>>
                 /\ intact' => /\ \A i \in 1..Len(queue') : IsSound(queue'[i], chain', Len(chain'))
                               /\ PaysSoundly(unmined', chain', Len(chain'))
                 /\ updates' = 0 => intact' /\ SoundChain(chain')
          PROVE  LedgerInv'
      BY <1>2, <2>g DEF LedgerInv, OwnPaymentsSound, Shaped
    <2>1. CASE Pay
      <3>1. PICK tx \in AnyPayment(chain) : queue' = Append(queue, tx)
        BY <2>1 DEF Pay
      <3>2. tx.signed /\ tx.ins # <<>> /\ tx \in Transaction /\ IsSound(tx, chain, Len(chain))
        BY <2>0, PaymentType, PaymentSound
      <3>3. UNCHANGED <<chain, unmined, previous, updates, intact>>
        BY <2>1 DEF Pay
      <3>4. \A i \in 1..Len(queue') : (i \in 1..Len(queue) /\ queue'[i] = queue[i]) \/ queue'[i] = tx
        BY <2>0, <3>1, <3>2
      <3>5. /\ \A i \in 1..Len(queue') : queue'[i].signed /\ queue'[i].ins # <<>>
            /\ intact => \A i \in 1..Len(queue') : IsSound(queue'[i], chain, Len(chain))
        BY <2>i, <3>2, <3>4
      <3> QED
        BY <2>g, <2>i, <3>3, <3>5
    <2>2. CASE CreateUnminedBlock
      <3>1. IsMined(unmined', Len(chain), RewardAddress, ToSet(queue))
        BY <2>0, <2>2, UnminedMined
      <3>2. queue' = <<>> /\ previous' = chain /\ UNCHANGED <<chain, updates, intact>>
        BY <2>2 DEF CreateUnminedBlock
      <3>3. /\ ToSet(queue) \in SUBSET Transaction
            /\ \A tx \in ToSet(queue) : tx.signed /\ tx.ins # <<>>
            /\ intact => AllSound(ToSet(queue), chain, Len(chain))
        <4>1. \A tx \in ToSet(queue) : \E i \in 1..Len(queue) : tx = queue[i]
          BY <2>0 DEF ToSet
        <4>2. \A i \in 1..Len(queue) : queue[i] \in Transaction
          BY <2>0
        <4> QED
          BY <2>i, <4>1, <4>2 DEF AllSound
      <3>4. HasShape(unmined', Len(chain))
        BY <2>0, <3>1, <3>3, LedgerAssumption, MinedShape
      <3>5. intact => PaysSoundly(unmined', chain, Len(chain))
        BY <2>0, <3>1, <3>3, LedgerAssumption, MinedSound
      <3>6. Len(queue') = 0
        BY <3>2
      <3> QED
        BY <2>g, <2>i, <3>2, <3>4, <3>5, <3>6
    <2>3. CASE AddNewBlock
      <3>1. unmined # <<>> /\ unmined' = <<>> /\ previous' = <<>> /\ UNCHANGED <<queue, updates, intact>>
        BY <2>3 DEF AddNewBlock
      <3>2. HasShape(unmined', Len(previous')) /\ PaysSoundly(unmined', chain', Len(chain'))
        BY <3>1 DEF HasShape, PaysSoundly
      <3>3. CASE previous = chain
        <4>1. chain' = Append(chain, unmined) /\ Len(unmined) >= 1
          BY <2>0, <2>3, <3>3 DEF AddNewBlock
        <4>2. Shaped(chain')
          BY <2>0, <2>i, <3>3, <4>1, ShapesGrow
        <4>3. intact => \A i \in 1..Len(queue) : IsSound(queue[i], chain', Len(chain'))
          BY <2>0, <2>i, <4>1, OwnLater
        <4>4. updates = 0 => SoundChain(chain')
          BY <2>0, <2>i, <4>1, SoundGrows
        <4> QED
          BY <2>g, <2>i, <3>1, <3>2, <4>2, <4>3, <4>4
      <3>4. CASE previous # chain
        <4>1. chain' = chain
          BY <2>3, <3>4 DEF AddNewBlock
        <4> QED
          BY <2>g, <2>i, <3>1, <3>2, <4>1
      <3> QED
        BY <3>3, <3>4
    <2>4. CASE ReQueueTransactions
      <3> DEFINE P == {tx \in Transaction : /\ tx.signed /\ tx.ins # <<>>
                                            /\ intact => IsSound(tx, chain, Len(chain))}
      <3>1. /\ queue' = ReQueued(queue, unmined) /\ unmined' = <<>> /\ previous' = <<>>
            /\ UNCHANGED <<chain, updates, intact>>
        BY <2>4 DEF ReQueueTransactions, ReQueued
      <3>2. queue \in Seq(P)
        <4>1. \A i \in 1..Len(queue) : queue[i] \in P
          BY <2>0, <2>i
        <4> HIDE DEF P
        <4>2. queue = [i \in 1..Len(queue) |-> queue[i]] /\ Len(queue) \in Nat
          BY <2>0
        <4> QED
          BY <4>1, <4>2
      <3>3. ASSUME NEW t \in 1..Len(unmined), ~IsCoinbase(unmined[t])
            PROVE  unmined[t] \in P
        <4>1. t # 1
          <5> SUFFICES ASSUME t = 1 PROVE FALSE
            OBVIOUS
          <5>1. PICK a \in Addresses : unmined[1] = Coinbase(Len(previous), a)
            BY <2>i DEF HasShape
          <5>2. IsCoinbase(unmined[1])
            BY <5>1, CoinbaseIs
          <5> QED
            BY <3>3, <5>2
        <4>2. t \in 2..Len(unmined) /\ unmined[t] \in Transaction
          BY <2>0, <4>1
        <4>3. unmined[t].signed /\ unmined[t].ins # <<>>
          BY <2>i, <4>1 DEF HasShape
        <4>4. intact => IsSound(unmined[t], chain, Len(chain))
          BY <2>i, <4>2 DEF PaysSoundly
        <4> QED
          BY <4>2, <4>3, <4>4
      <3>4. \A tx \in P : tx.signed /\ tx.ins # <<>> /\ (intact => IsSound(tx, chain, Len(chain)))
        OBVIOUS
      <3> HIDE DEF P
      <3>5. queue' \in Seq(P)
        BY <2>0, <3>1, <3>2, <3>3, ReQueuedFrom
      <3>6. \A i \in 1..Len(queue') : /\ queue'[i].signed /\ queue'[i].ins # <<>>
                                      /\ intact => IsSound(queue'[i], chain, Len(chain))
        BY <3>4, <3>5
      <3>7. HasShape(unmined', Len(previous')) /\ PaysSoundly(unmined', chain, Len(chain))
        BY <3>1 DEF HasShape, PaysSoundly
      <3> QED
        BY <2>g, <2>i, <3>1, <3>6, <3>7
    <2>5. CASE SyncBlockchain
      <3>1. PICK size \in 1..Len(chain) :
               LET kept == SubSeq(chain, 1, size)
               IN  /\ kept \in Seq(Seq(Mined)) /\ kept \in Blocks /\ Len(kept) = size
                   /\ \A b \in 1..size : kept[b] = chain[b]
                   /\ \E block : IsAdded(block, kept) /\ chain' = Append(kept, block)
                   /\ intact' = (intact /\ size = Len(chain))
        BY <2>0, <2>5, SyncStep
      <3> DEFINE kept == SubSeq(chain, 1, size)
      <3>2. PICK block : IsAdded(block, kept) /\ chain' = Append(kept, block)
        BY <3>1
      <3>3. /\ kept \in Blocks /\ Len(kept) = size /\ size \in Nat
            /\ \A b \in 1..size : kept[b] = chain[b]
            /\ intact' = (intact /\ size = Len(chain))
        BY <3>1
      <3>4. intact' => kept = chain /\ intact
        <4>1. size = Len(chain) => kept = chain
          BY <2>0 DEF Blocks
        <4> QED
          BY <3>3, <4>1
      <3>5. queue' = queue /\ updates' # 0
        BY <2>0, <2>5 DEF SyncBlockchain, LedgerTypeOK
      <3> HIDE DEF kept
      <3>6. block \in Seq(Transaction) /\ Len(block) >= 1 /\ HasShape(block, size)
        <4>1. block \in Seq(Transaction)
          BY <2>0, <3>2, <3>3, AddedType
        <4>2. CASE block \in PeerBlocks(kept)
          <5>1. /\ \E a \in Addresses : IsMined(block, size, a, PeersPay(kept))
                /\ PeersPay(kept) \in SUBSET Transaction
                /\ \A tx \in PeersPay(kept) : tx.signed /\ tx.ins # <<>>
            BY <3>3, <4>2, PeerBlocksMined
          <5>2. PICK a \in Addresses : IsMined(block, size, a, PeersPay(kept))
            BY <5>1
          <5>3. HasShape(block, size)
            BY <3>3, <5>1, <5>2, MinedShape
          <5> QED
            BY <4>1, <5>2, <5>3 DEF IsMined
        <4>3. CASE block = unmined /\ previous = kept /\ unmined # <<>>
          <5>1. HasShape(block, size) /\ Len(block) >= 1
            BY <2>0, <2>i, <3>3, <4>3
          <5> QED
            BY <4>1, <5>1
        <4> QED
          BY <3>2, <4>2, <4>3 DEF IsAdded
      <3>7. Shaped(kept)
        <4> SUFFICES ASSUME NEW b \in 1..Len(kept)
                     PROVE  Len(kept[b]) >= 1 /\ HasShape(kept[b], b - 1)
          BY DEF Shaped
        <4>1. b \in 1..Len(chain) /\ kept[b] = chain[b]
          BY <2>0, <3>3
        <4> QED
          BY <2>i, <4>1 DEF Shaped
      <3>8. Shaped(chain')
        BY <3>2, <3>3, <3>6, <3>7, ShapesGrow
      <3>9. (unmined' = unmined /\ previous' = previous) \/ (unmined' = <<>> /\ previous' = <<>>)
        BY <3>2 DEF IsAdded
      <3>10. HasShape(unmined', Len(previous'))
        <4>1. HasShape(<<>>, Len(<<>>))
          BY DEF HasShape
        <4> QED
          BY <2>i, <3>9, <4>1
      <3>11. ASSUME intact'
             PROVE  /\ \A i \in 1..Len(queue) : IsSound(queue[i], chain', Len(chain'))
                    /\ PaysSoundly(unmined', chain', Len(chain'))
        <4>1. chain' = Append(chain, block) /\ intact
          BY <3>2, <3>4, <3>11
        <4>2. /\ \A i \in 1..Len(queue) : IsSound(queue[i], chain', Len(chain'))
              /\ PaysSoundly(unmined, chain', Len(chain'))
          BY <2>0, <2>i, <3>6, <4>1, OwnLater
        <4>3. PaysSoundly(<<>>, chain', Len(chain'))
          BY DEF PaysSoundly
        <4> QED
          BY <3>9, <4>2, <4>3
      <3> QED
        BY <2>g, <2>i, <3>5, <3>8, <3>10, <3>11
    <2>6. CASE UNCHANGED vars
      BY <2>g, <2>i, <2>6 DEF vars
    <2> QED
      BY <1>2, <2>1, <2>2, <2>3, <2>4, <2>5, <2>6 DEF Next
  <1> QED
    BY <1>1, <1>2, LedgerTypes, PTL DEF Spec

(***************************************************************************)
(* The payments that this node makes spend what is there and pay what it   *)
(* is worth, through queue, aborted blocks and back, whatever the users    *)
(* want to pay and whatever the peers put into their blocks, as long as no *)
(* update drops a block.                                                   *)
(***************************************************************************)
THEOREM OwnSound == Spec => []OwnPaymentsSound
  <1>1. LedgerInv => OwnPaymentsSound
    BY DEF LedgerInv
  <1> QED
    BY <1>1, LedgerInvariant, PTL

(***************************************************************************)
(* Every transaction of the chain has the id that calcuateId gives it in   *)
(* its block: a payment that was in aborted blocks has got a new one.      *)
(***************************************************************************)
THEOREM IdsCurrent == Spec => []IdsAreCurrent
  <1>1. ASSUME LedgerInv
        PROVE  IdsAreCurrent
    <2> DEFINE E == Entries(chain)
    <2>1. chain \in Blocks
      BY <1>1, TypeFacts DEF LedgerInv
    <2>2. E \in Seq(Entry) /\ \A i \in 1..Len(E) : IsPlaced(chain, E[i])
      BY <2>1, EntriesPlaced
    <2> HIDE DEF E
    <2>3. \A e \in ToSet(E) : IsPlaced(chain, e)
      BY <2>2 DEF ToSet
    <2>4. ASSUME NEW e \in ToSet(E)
          PROVE  e.tx.id = GetTransactionId(e.tx, e.block)
      <3>1. PICK b \in 1..Len(chain) : \E t \in 1..Len(chain[b]) :
                e = [block |-> b - 1, index |-> t - 1, tx |-> chain[b][t]]
        BY <2>3 DEF IsPlaced
      <3>2. PICK t \in 1..Len(chain[b]) : e = [block |-> b - 1, index |-> t - 1, tx |-> chain[b][t]]
        BY <3>1
      <3>3. e.block = b - 1 /\ e.tx = chain[b][t]
        BY <3>2
      <3>4. HasShape(chain[b], b - 1)
        BY <1>1 DEF LedgerInv
      <3> QED
        BY <3>3, <3>4 DEF HasShape
    <2> QED
      BY <2>4 DEF IdsAreCurrent, E
  <1> QED
    BY <1>1, LedgerInvariant, PTL

\* Weights that are added element by element.
Adds(u, v, w, S) == \A x \in S : w[x] = u[x] + v[x]

\* Weights that add up have sums that add up.
LEMMA SumPlus ==
    ASSUME NEW S, NEW u, IsWeights(u, S), NEW v, IsWeights(v, S), NEW w, IsWeights(w, S),
           Adds(u, v, w, S)
    PROVE  SumFunction(w) = SumFunction(u) + SumFunction(v)
  <1>1. PICK it : IsSum(it, S, u) /\ SumFunction(u) = it[S]
    BY TotalIsSum
  <1>2. PICK jt : IsSum(jt, S, v) /\ SumFunction(v) = jt[S]
    BY TotalIsSum
  <1>3. \A s \in SUBSET S : it[s] \in Int /\ \A y \in s : it[s] = u[y] + it[s \ {y}]
    <2>1. IsSum(it, S, u)
      BY <1>1
    <2> QED
      BY <2>1, SumAnyOrder
  <1>4. \A s \in SUBSET S : jt[s] \in Int /\ \A y \in s : jt[s] = v[y] + jt[s \ {y}]
    <2>1. IsSum(jt, S, v)
      BY <1>2
    <2> QED
      BY <2>1, SumAnyOrder
  <1> DEFINE kt == [s \in SUBSET S |-> it[s] + jt[s]]
  <1>5. kt[{}] = 0
    BY <1>1, <1>2 DEF IsSum
  <1>6. ASSUME NEW s \in SUBSET S, s # {}
        PROVE  \E x \in s : kt[s] = w[x] + kt[s \ {x}]
    <2>1. PICK x \in s : TRUE
      BY <1>6
    <2>2. it[s] = u[x] + it[s \ {x}] /\ jt[s] = v[x] + jt[s \ {x}]
      BY <1>3, <1>4
    <2>3. /\ it[s \ {x}] \in Int /\ jt[s \ {x}] \in Int /\ w[x] = u[x] + v[x]
          /\ u[x] \in Int /\ v[x] \in Int
      BY <1>3, <1>4 DEF Adds, IsWeights
    <2>4. kt[s] = it[s] + jt[s] /\ kt[s \ {x}] = it[s \ {x}] + jt[s \ {x}]
      OBVIOUS
    <2> HIDE DEF kt
    <2>5. kt[s] = w[x] + kt[s \ {x}]
      BY <2>2, <2>3, <2>4
    <2> QED
      BY <2>1, <2>5
  <1>7. kt[S] = it[S] + jt[S]
    OBVIOUS
  <1> HIDE DEF kt
  <1>8. IsSum(kt, S, w)
    BY <1>5, <1>6 DEF IsSum
  <1>9. kt[S] = SumFunction(w)
    BY <1>8, TotalOf
  <1> QED
    BY <1>1, <1>2, <1>7, <1>9

\* v is w on T, and elsewhere w is 0.
Supports(v, w, T, S) ==
    /\ T \subseteq S
    /\ \A x \in T : v[x] = w[x]
    /\ \A x \in S \ T : w[x] = 0

\* Weights of 0 do not count.
LEMMA SumSupport ==
    ASSUME NEW S, NEW w, IsWeights(w, S), NEW T, NEW v, IsWeights(v, T), Supports(v, w, T, S)
    PROVE  SumFunction(w) = SumFunction(v)
  <1>1. PICK it : IsSum(it, T, v) /\ SumFunction(v) = it[T]
    BY TotalIsSum
  <1>2. \A s \in SUBSET T : it[s] \in Int /\ \A y \in s : it[s] = v[y] + it[s \ {y}]
    <2>1. IsSum(it, T, v)
      BY <1>1
    <2> QED
      BY <2>1, SumAnyOrder
  <1> DEFINE jt == [s \in SUBSET S |-> it[s \cap T]]
  <1>3. jt[{}] = 0
    <2>1. {} \cap T = {}
      OBVIOUS
    <2> QED
      BY <1>1, <2>1 DEF IsSum
  <1>4. ASSUME NEW s \in SUBSET S, s # {}
        PROVE  \E x \in s : jt[s] = w[x] + jt[s \ {x}]
    <2>1. PICK x \in s : TRUE
      BY <1>4
    <2>2. jt[s] = it[s \cap T] /\ jt[s \ {x}] = it[(s \ {x}) \cap T] /\ it[s \cap T] \in Int
      BY <1>2
    <2> HIDE DEF jt
    <2>3. CASE x \in T
      <3>1. (s \ {x}) \cap T = (s \cap T) \ {x}
        OBVIOUS
      <3>2. it[s \cap T] = v[x] + it[(s \cap T) \ {x}] /\ v[x] = w[x]
        BY <1>2, <2>3 DEF Supports
      <3>3. jt[s] = w[x] + jt[s \ {x}]
        BY <2>2, <3>1, <3>2
      <3> QED
        BY <3>3
    <2>4. CASE x \notin T
      <3>1. (s \ {x}) \cap T = s \cap T /\ w[x] = 0
        BY <2>4 DEF Supports
      <3>2. jt[s \ {x}] = jt[s] /\ jt[s] \in Int
        BY <2>2, <3>1
      <3>3. jt[s] = w[x] + jt[s \ {x}]
        BY <3>1, <3>2
      <3> QED
        BY <3>3
    <2> QED
      BY <2>3, <2>4
  <1>5. jt[S] = it[T]
    <2>1. S \cap T = T
      BY DEF Supports
    <2> QED
      BY <2>1
  <1> HIDE DEF jt
  <1>6. IsSum(jt, S, w)
    BY <1>3, <1>4 DEF IsSum
  <1>7. jt[S] = SumFunction(w)
    BY <1>6, TotalOf
  <1> QED
    BY <1>1, <1>5, <1>7

\* One weight alone.
LEMMA SumSingle ==
    ASSUME NEW S, NEW w, IsWeights(w, S), NEW x \in S, \A y \in S : y # x => w[y] = 0
    PROVE  SumFunction(w) = w[x]
  <1> DEFINE v == [y \in S \ {x} |-> w[y]]
             z == [y \in {} |-> 0]
  <1>1. Without(v, w, S, x)
    BY DEF Without
  <1>2. IsWeights(v, S \ {x}) /\ IsWeights(z, {})
    BY FS_RemoveElement, FS_EmptySet DEF IsWeights
  <1>3. Supports(z, v, {}, S \ {x})
    BY DEF Supports
  <1> HIDE DEF v, z
  <1>4. SumFunction(w) = w[x] + SumFunction(v)
    BY <1>1, TotalSplit
  <1>5. SumFunction(v) = 0
    BY <1>2, <1>3, SumSupport, TotalType
  <1> QED
    BY <1>4, <1>5 DEF IsWeights

\* Sums of outputs.
LEMMA SumOfUnion ==
    ASSUME NEW A, NEW B, IsFiniteSet(A), IsFiniteSet(B), A \subseteq Output, B \subseteq Output,
           A \cap B = {}
    PROVE  SumOf(A \cup B) = SumOf(A) + SumOf(B)
  <1> DEFINE S == A \cup B
             w == [o \in S |-> o.amount]
             u == [o \in S |-> IF o \in A THEN o.amount ELSE 0]
             v == [o \in S |-> IF o \in B THEN o.amount ELSE 0]
             wa == [o \in A |-> o.amount]
             wb == [o \in B |-> o.amount]
  <1>1. \A o \in S : o.amount \in Int
    BY DEF Output
  <1>2. IsFiniteSet(S)
    BY FS_Union
  <1>3. IsWeights(w, S) /\ IsWeights(u, S) /\ IsWeights(v, S)
    BY <1>1, <1>2 DEF IsWeights
  <1>4. IsWeights(wa, A) /\ IsWeights(wb, B)
    BY <1>1 DEF IsWeights
  <1>5. Adds(u, v, w, S)
    BY <1>1 DEF Adds
  <1>6. Supports(wa, u, A, S) /\ Supports(wb, v, B, S)
    BY DEF Supports
  <1>7. SumOf(S) = SumFunction(w) /\ SumOf(A) = SumFunction(wa) /\ SumOf(B) = SumFunction(wb)
    BY DEF SumOf
  <1> HIDE DEF S, w, u, v, wa, wb
  <1>8. SumFunction(w) = SumFunction(u) + SumFunction(v)
    BY <1>3, <1>5, SumPlus
  <1>9. SumFunction(u) = SumFunction(wa) /\ SumFunction(v) = SumFunction(wb)
    BY <1>3, <1>4, <1>6, SumSupport
  <1> QED
    BY <1>7, <1>8, <1>9 DEF S
-----------------------------------------------------------------------------
(* The order of the transactions. *)

\* The next transaction is in the same block, or the first of the next one.
Follows(x, y) ==
    \/ y.block = x.block /\ y.index = x.index + 1
    \/ y.block = x.block + 1 /\ y.index = 0

Place(ch, b, t) == [block |-> b - 1, index |-> t - 1, tx |-> ch[b][t]]

\* The list s has the transactions of the first k blocks, none left out.
InOrder(s, ch, k) ==
    /\ s \in Seq(Entry)
    /\ k = 0 => s = <<>>
    /\ k > 0 => Len(s) >= 1 /\ s[1].block = 0 /\ s[1].index = 0 /\ s[Len(s)].block = k - 1
    /\ \A i \in 1..Len(s) : i > 1 => Follows(s[i - 1], s[i])
    /\ \A b \in 1..k : \A t \in 1..Len(ch[b]) : \E i \in 1..Len(s) : s[i] = Place(ch, b, t)

\* One more block.
LEMMA InOrderJoined ==
    ASSUME NEW ch \in Blocks, NEW k \in 1..Len(ch), NEW s, InOrder(s, ch, k - 1), Len(ch[k]) >= 1
    PROVE  InOrder(s \o EntriesOf(ch[k], k), ch, k)
  <1> DEFINE q == EntriesOf(ch[k], k)
             r == s \o q
             m == Len(s)
  <1>1. ch[k] \in Seq(Transaction) /\ k \in Nat \ {0} /\ k - 1 \in Nat
    BY DEF Blocks
  <1>2. q \in Seq(Entry) /\ Len(q) = Len(ch[k]) /\ Len(q) \in Nat /\ Len(q) >= 1
    BY <1>1, EntriesOfType
  <1>3. \A t \in 1..Len(q) : q[t] = Place(ch, k, t) /\ q[t].block = k - 1 /\ q[t].index = t - 1
    BY <1>1, <1>2 DEF EntriesOf, Place
  <1>4. s \in Seq(Entry) /\ m \in Nat
    BY DEF InOrder
  <1> HIDE DEF q
  <1>5. /\ r \in Seq(Entry) /\ Len(r) = m + Len(q)
        /\ \A i \in 1..m : r[i] = s[i]
        /\ \A t \in 1..Len(q) : r[m + t] = q[t]
    BY <1>2, <1>4
  <1> HIDE DEF r, m
  <1>6. Len(r) >= 1 /\ r[1].block = 0 /\ r[1].index = 0
    <2>1. CASE k = 1
      <3>1. m = 0
        BY <2>1 DEF InOrder, m
      <3>2. 1 \in 1..Len(q)
        BY <1>2
      <3>3. r[1] = q[1]
        BY <1>5, <3>1, <3>2
      <3> QED
        BY <1>2, <1>3, <1>5, <2>1, <3>1, <3>2, <3>3
    <2>2. CASE k # 1
      <3>1. k - 1 > 0
        BY <1>1, <2>2
      <3>2. m >= 1 /\ s[1].block = 0 /\ s[1].index = 0
        BY <3>1 DEF InOrder, m
      <3>3. r[1] = s[1]
        BY <1>4, <1>5, <3>2
      <3> QED
        BY <1>2, <1>4, <1>5, <3>2, <3>3
    <2> QED
      BY <2>1, <2>2
  <1>7. r[Len(r)].block = k - 1
    <2>1. Len(q) \in 1..Len(q)
      BY <1>2
    <2> QED
      BY <1>3, <1>5, <2>1
  <1>8. ASSUME NEW i \in 1..Len(r), i > 1
        PROVE  Follows(r[i - 1], r[i])
    <2>1. CASE i \in 1..m
      <3>1. i - 1 \in 1..m
        BY <1>4, <1>8, <2>1
      <3>2. r[i] = s[i] /\ r[i - 1] = s[i - 1]
        BY <1>5, <2>1, <3>1
      <3> QED
        BY <1>8, <2>1, <3>2 DEF InOrder, m
    <2>2. CASE i = m + 1
      <3>1. 1 \in 1..Len(q) /\ m >= 1 /\ i - 1 = m /\ m \in 1..m
        BY <1>2, <1>4, <1>8, <2>2
      <3>2. r[i] = q[1] /\ r[i - 1] = s[m]
        BY <1>5, <2>2, <3>1
      <3>3. k - 1 # 0
        BY <1>4, <3>1 DEF InOrder, m
      <3>4. s[m].block = (k - 1) - 1
        BY <1>1, <3>3 DEF InOrder, m
      <3>5. q[1].block = k - 1 /\ q[1].index = 0
        BY <1>3, <3>1
      <3> QED
        BY <1>1, <3>2, <3>4, <3>5 DEF Follows
    <2>3. CASE i > m + 1
      <3> DEFINE t == i - m
      <3>1. t \in 1..Len(q) /\ t - 1 \in 1..Len(q) /\ i = m + t /\ i - 1 = m + (t - 1)
        BY <1>2, <1>4, <1>5, <2>3
      <3>2. r[i] = q[t] /\ r[i - 1] = q[t - 1]
        BY <1>5, <3>1
      <3>3. q[t].block = k - 1 /\ q[t].index = t - 1 /\ q[t - 1].block = k - 1 /\ q[t - 1].index = (t - 1) - 1
        BY <1>3, <3>1
      <3> HIDE DEF t
      <3>4. t - 1 = ((t - 1) - 1) + 1
        BY <3>1
      <3> QED
        BY <3>2, <3>3, <3>4 DEF Follows
    <2> QED
      BY <1>4, <2>1, <2>2, <2>3
  <1>9. ASSUME NEW b \in 1..k, NEW t \in 1..Len(ch[b])
        PROVE  \E i \in 1..Len(r) : r[i] = Place(ch, b, t)
    <2>1. CASE b = k
      <3>1. t \in 1..Len(q) /\ m + t \in 1..Len(r)
        BY <1>2, <1>4, <1>5, <2>1
      <3>2. r[m + t] = Place(ch, b, t)
        BY <1>3, <1>5, <2>1, <3>1
      <3> QED
        BY <3>1, <3>2
    <2>2. CASE b # k
      <3>1. b \in 1..(k - 1)
        BY <1>1, <2>2
      <3>2. PICK i \in 1..m : s[i] = Place(ch, b, t)
        BY <3>1 DEF InOrder, m
      <3>3. i \in 1..Len(r) /\ r[i] = s[i]
        BY <1>2, <1>4, <1>5
      <3> QED
        BY <3>2, <3>3
    <2> QED
      BY <2>1, <2>2
  <1>10. k # 0
    BY <1>1
  <1> HIDE DEF Place, Follows
  <1> QED
    BY <1>5, <1>6, <1>7, <1>8, <1>9, <1>10 DEF InOrder, r, q

\* No block of the chain is empty.
NoneEmpty(ch) == \A b \in 1..Len(ch) : Len(ch[b]) >= 1

\* Entries lists the transactions of the chain in this order, and all of them.
LEMMA EntriesInOrder ==
    ASSUME NEW ch \in Blocks, NoneEmpty(ch)
    PROVE  InOrder(Entries(ch), ch, Len(ch))
  <1> DEFINE n == Len(ch)
  <1>1. /\ Lists(ch) \in Seq(Seq(Entry)) /\ Len(Lists(ch)) = n /\ n \in Nat
        /\ \A b \in 1..n : Lists(ch)[b] = EntriesOf(ch[b], b) /\ Len(ch[b]) >= 1
        /\ Entries(ch) = FlattenSeq(Lists(ch))
    BY ListsOf DEF NoneEmpty
  <1> HIDE DEF n
  <1>2. PICK f : Joins(f, Lists(ch), Entry) /\ Entries(ch) = f[n]
    BY <1>1, FlattenJoins
  <1> DEFINE G == {k \in 0..n : InOrder(f[k], ch, k)}
  <1>3. 0 \in G
    <2>1. f[0] = <<>> /\ 0 \in 0..n
      BY <1>1, <1>2 DEF Joins
    <2>2. InOrder(<<>>, ch, 0)
      BY DEF InOrder
    <2> QED
      BY <2>1, <2>2
  <1>4. ASSUME NEW k \in 1..n, k - 1 \in G
        PROVE  k \in G
    <2>1. k \in 1..Len(ch) /\ k \in 0..n /\ InOrder(f[k - 1], ch, k - 1) /\ Len(ch[k]) >= 1
      BY <1>1, <1>4 DEF n
    <2>2. f[k] = f[k - 1] \o EntriesOf(ch[k], k)
      BY <1>1, <1>2 DEF Joins
    <2>3. InOrder(f[k - 1] \o EntriesOf(ch[k], k), ch, k)
      BY <2>1, InOrderJoined
    <2> QED
      BY <2>1, <2>2, <2>3
  <1>5. 0..n \subseteq G
    <2> HIDE DEF G
    <2> QED
      BY <1>1, <1>3, <1>4, NatInduct
  <1>6. InOrder(f[n], ch, n)
    BY <1>1, <1>5
  <1> QED
    BY <1>2, <1>6 DEF n

\* Of two transactions the one in an earlier place comes first.
Before(x, y) == x.block < y.block \/ (x.block = y.block /\ x.index < y.index)

\* So it is in the list.
LEMMA OrderedFrom ==
    ASSUME NEW ch, NEW n, NEW s, InOrder(s, ch, n)
    PROVE  \A i, j \in 1..Len(s) : i < j => Before(s[i], s[j])
  <1> DEFINE m == Len(s)
             G == {j \in 0..m : \A i \in 1..m : i < j => Before(s[i], s[j])}
  <1>1. s \in Seq(Entry) /\ m \in Nat /\ \A i \in 1..m : s[i] \in Entry
    BY DEF InOrder
  <1> HIDE DEF m
  <1>2. \A i \in 1..m : s[i].block \in Nat /\ s[i].index \in Nat
    BY <1>1 DEF Entry
  <1>3. 0 \in G
    BY <1>1
  <1>4. ASSUME NEW j \in 1..m, j - 1 \in G
        PROVE  j \in G
    <2> SUFFICES ASSUME NEW i \in 1..m, i < j PROVE Before(s[i], s[j])
      BY <1>1
    <2>1. j > 1 /\ j - 1 \in 1..m
      BY <1>1
    <2>2. Follows(s[j - 1], s[j])
      BY <2>1 DEF InOrder, m
    <2>3. CASE i = j - 1
      BY <1>2, <2>1, <2>2, <2>3 DEF Follows, Before
    <2>4. CASE i # j - 1
      <3>1. i < j - 1
        BY <1>1, <2>4
      <3>2. Before(s[i], s[j - 1])
        BY <1>4, <3>1
      <3> QED
        BY <1>2, <2>1, <2>2, <3>2 DEF Follows, Before
    <2> QED
      BY <2>3, <2>4
  <1>5. 0..m \subseteq G
    <2> HIDE DEF G
    <2> QED
      BY <1>1, <1>3, <1>4, NatInduct
  <1>6. \A i, j \in 1..m : i < j => Before(s[i], s[j])
    BY <1>1, <1>5
  <1> QED
    BY <1>6 DEF m
-----------------------------------------------------------------------------
(* Balances. *)

\* A chain whose payments spend outputs of earlier blocks.
IsHonest(ch) ==
    /\ ch \in Blocks /\ NoneEmpty(ch)
    /\ \A b \in 1..Len(ch) : HasShape(ch[b], b - 1) /\ PaysSoundly(ch[b], ch, b - 1)

IsReward(e) == e.index = 0 /\ \E a \in Addresses : e.tx = Coinbase(e.block, a)
IsPayment(e, ch) == e.index # 0 /\ e.tx.signed /\ IsSound(e.tx, ch, e.block)

\* Every transaction of such a chain is one or the other.
LEMMA EntryKinds ==
    ASSUME NEW ch, IsHonest(ch), NEW i \in 1..Len(Entries(ch))
    PROVE  /\ Entries(ch)[i] \in Entry
           /\ IsReward(Entries(ch)[i]) \/ IsPayment(Entries(ch)[i], ch)
  <1> DEFINE e == Entries(ch)[i]
  <1>1. e \in Entry /\ IsPlaced(ch, e)
    BY EntriesPlaced DEF IsHonest
  <1> HIDE DEF e
  <1>2. PICK b \in 1..Len(ch) : \E t \in 1..Len(ch[b]) : e = [block |-> b - 1, index |-> t - 1, tx |-> ch[b][t]]
    BY <1>1 DEF IsPlaced
  <1>3. PICK t \in 1..Len(ch[b]) : e = [block |-> b - 1, index |-> t - 1, tx |-> ch[b][t]]
    BY <1>2
  <1>4. e.block = b - 1 /\ e.index = t - 1 /\ e.tx = ch[b][t]
    BY <1>3
  <1>5. HasShape(ch[b], b - 1) /\ PaysSoundly(ch[b], ch, b - 1)
    BY DEF IsHonest
  <1>6. ASSUME t = 1
        PROVE  IsReward(e)
    <2>2. PICK a \in Addresses : ch[b][1] = Coinbase(b - 1, a)
      BY <1>5, <1>6 DEF HasShape
    <2>3. e.index = 0 /\ e.tx = Coinbase(e.block, a)
      BY <1>4, <1>6, <2>2
    <2> QED
      BY <2>3 DEF IsReward
  <1>7. ASSUME t # 1
        PROVE  IsPayment(e, ch)
    <2>1. t \in 2..Len(ch[b]) /\ t - 1 # 0
      BY <1>7
    <2>2. ch[b][t].signed /\ IsSound(ch[b][t], ch, b - 1)
      BY <1>5, <2>1 DEF HasShape, PaysSoundly
    <2> QED
      BY <1>4, <2>1, <2>2 DEF IsPayment
  <1>8. IsReward(e) \/ IsPayment(e, ch)
    BY <1>6, <1>7
  <1> QED
    BY <1>1, <1>8 DEF e

\* What an input names is an output.
LEMMA ResolvedType ==
    ASSUME NEW ch \in Blocks, NEW p \in TxOutPoint, Resolves(ch, p)
    PROVE  /\ Resolved(ch, p) \in TxOut
           /\ p[1] + 1 \in 1..Len(ch) /\ p[2] + 1 \in 1..Len(ch[p[1] + 1])
           /\ p[3] + 1 \in 1..Len(ch[p[1] + 1][p[2] + 1].outs)
           /\ p[1] \in Nat /\ p[2] \in Nat /\ p[3] \in Nat
  <1> DEFINE b == p[1] + 1
             t == p[2] + 1
             k == p[3] + 1
  <1>1. p[1] \in Nat /\ p[2] \in Nat /\ p[3] \in Nat
    BY DEF TxOutPoint
  <1>2. /\ b - 1 < Len(ch) /\ t - 1 < Len(ch[b]) /\ k - 1 < Len(ch[b][t].outs)
        /\ b \in Nat \ {0} /\ t \in Nat \ {0} /\ k \in Nat \ {0}
        /\ Resolved(ch, p) = ch[b][t].outs[k]
    <2>1. /\ p[1] < Len(ch) /\ p[2] < Len(ch[b]) /\ p[3] < Len(ch[b][t].outs)
          /\ Resolved(ch, p) = ch[b][t].outs[k]
      BY DEF Resolves, Resolved
    <2>2. /\ b \in Nat \ {0} /\ t \in Nat \ {0} /\ k \in Nat \ {0}
          /\ b - 1 = p[1] /\ t - 1 = p[2] /\ k - 1 = p[3]
      BY <1>1
    <2> HIDE DEF b, t, k
    <2> QED
      BY <2>1, <2>2
  <1> HIDE DEF b, t, k
  <1>3. ch \in Seq(Seq(Transaction)) /\ Len(ch) \in Nat
    BY DEF Blocks
  <1>4. b \in 1..Len(ch) /\ ch[b] \in Seq(Transaction)
    BY <1>2, <1>3
  <1>5. t \in 1..Len(ch[b]) /\ ch[b][t] \in Transaction
    BY <1>2, <1>4
  <1>6. ch[b][t].outs \in Seq(TxOut)
    BY <1>5 DEF Transaction, TransactionWith
  <1>7. k \in 1..Len(ch[b][t].outs) /\ ch[b][t].outs[k] \in TxOut
    <2> DEFINE outs == ch[b][t].outs
    <2>1. outs \in Seq(TxOut) /\ k \in Nat \ {0} /\ k - 1 < Len(outs)
      BY <1>2, <1>6
    <2> HIDE DEF outs
    <2>2. k \in 1..Len(outs) /\ outs[k] \in TxOut
      BY <2>1
    <2> QED
      BY <2>2 DEF outs
  <1> QED
    BY <1>1, <1>2, <1>4, <1>5, <1>7 DEF b, t, k

\* The inputs of a payment are worth something.
LEMMA InputsType ==
    ASSUME NEW ch \in Blocks, NEW tx \in Transaction, NEW b, IsSound(tx, ch, b)
    PROVE  /\ Inputs(ch, tx) \in Int
           /\ IsWeights([i \in 1..Len(tx.ins) |-> Resolved(ch, tx.ins[i]).amount], 1..Len(tx.ins))
  <1> DEFINE n == Len(tx.ins)
             w == [i \in 1..n |-> Resolved(ch, tx.ins[i]).amount]
  <1>1. n \in Nat /\ \A i \in 1..n : tx.ins[i] \in TxOutPoint
    <2>1. tx.ins \in Seq(TxOutPoint)
      BY DEF Transaction, TransactionWith
    <2> QED
      BY <2>1
  <1>2. \A i \in 1..n : Resolved(ch, tx.ins[i]) \in TxOut
    BY <1>1, ResolvedType DEF IsSound
  <1>3. w \in [1..n -> Int]
    BY <1>2 DEF TxOut
  <1>4. IsFiniteSet(1..n)
    BY <1>1, FS_Interval
  <1>5. IsWeights(w, 1..n)
    <2> HIDE DEF w, n
    <2> QED
      BY <1>3, <1>4 DEF IsWeights
  <1>6. SumFunction(w) \in Int
    <2> HIDE DEF w, n
    <2> QED
      BY <1>5, TotalType
  <1> QED
    BY <1>5, <1>6 DEF Inputs

\* What an input names was made by this transaction.
IsMadeBy(ch, p, e) ==
    /\ e.block = p[1] /\ e.index = p[2]
    /\ p[3] + 1 \in 1..Len(e.tx.outs)
    /\ e.tx.outs[p[3] + 1] = Resolved(ch, p)
    /\ p \in TxOutPoint /\ Resolved(ch, p) \in TxOut

\* It is an earlier one.
LEMMA InputMade ==
    ASSUME NEW ch, IsHonest(ch), NEW k \in 1..Len(Entries(ch)), IsPayment(Entries(ch)[k], ch),
           NEW i \in 1..Len(Entries(ch)[k].tx.ins)
    PROVE  \E j \in 1..Len(Entries(ch)) :
              j < k /\ IsMadeBy(ch, Entries(ch)[k].tx.ins[i], Entries(ch)[j])
  <1> DEFINE E == Entries(ch)
             n == Len(E)
             e == E[k]
             p == e.tx.ins[i]
             b == p[1] + 1
             t == p[2] + 1
  <1>1. ch \in Blocks /\ NoneEmpty(ch) /\ InOrder(E, ch, Len(ch))
    BY EntriesInOrder DEF IsHonest
  <1>2. e \in Entry /\ E \in Seq(Entry)
    BY <1>1, EntryKinds DEF InOrder
  <1>3. p \in TxOutPoint
    <2>1. e.tx \in Transaction
      BY <1>2 DEF Entry
    <2>2. e.tx.ins \in Seq(TxOutPoint)
      BY <2>1 DEF Transaction, TransactionWith
    <2> QED
      BY <2>2
  <1>4. p[1] < e.block /\ Resolves(ch, p)
    BY DEF IsPayment, IsSound
  <1> HIDE DEF p
  <1>5. /\ b \in 1..Len(ch) /\ t \in 1..Len(ch[b]) /\ p[3] + 1 \in 1..Len(ch[b][t].outs)
        /\ Resolved(ch, p) \in TxOut /\ p[1] \in Nat /\ p[2] \in Nat
    <2>1. ch \in Blocks /\ Resolves(ch, p)
      BY <1>1, <1>4
    <2> QED
      BY <1>3, <2>1, ResolvedType
  <1>6. b - 1 = p[1] /\ t - 1 = p[2]
    <2>1. \A x \in Nat : (x + 1) - 1 = x
      OBVIOUS
    <2> QED
      BY <1>5, <2>1
  <1>7. PICK j \in 1..n : E[j].block = p[1] /\ E[j].index = p[2] /\ E[j].tx = ch[b][t]
    <2> HIDE DEF b, t
    <2>1. \E j \in 1..n : E[j] = Place(ch, b, t)
      BY <1>1, <1>5 DEF InOrder
    <2> QED
      BY <1>6, <2>1 DEF Place
  <1>8. j < k
    <2>0. e.block \in Nat
      BY <1>2 DEF Entry
    <2>1. e.block \in Nat /\ p[1] \in Nat /\ p[1] < e.block /\ E[j].block = p[1]
      BY <1>4, <1>5, <1>7, <2>0
    <2>2. \A x, y \in 1..n : x < y => Before(E[x], E[y])
      BY <1>1, OrderedFrom
    <2>3. ASSUME k < j PROVE FALSE
      <3>1. Before(e, E[j])
        BY <2>2, <2>3
      <3> QED
        BY <2>1, <3>1 DEF Before
    <2>4. j # k
      BY <2>1
    <2> HIDE DEF E, e, n
    <2> QED
      BY <2>3, <2>4
  <1>9. Resolved(ch, p) = E[j].tx.outs[p[3] + 1]
    BY <1>7 DEF Resolved
  <1> HIDE DEF E, b, t
  <1>10. IsMadeBy(ch, p, E[j])
    BY <1>3, <1>5, <1>7, <1>9 DEF IsMadeBy
  <1> QED
    BY <1>8, <1>10 DEF e, p, E

\* What an address gets from a transaction, and what it pays.
Gain(tx, a) == SumFunction(Credit(tx, a))
Loss(ch, tx, a) == IF IsDebit(ch, tx, a) THEN Inputs(ch, tx) ELSE 0

\* A credit is one of the outputs to the address, if there is one.
LEMMA CreditType ==
    ASSUME NEW tx \in Transaction, NEW a
    PROVE  /\ Credit(tx, a) \in Seq(Int) /\ Gain(tx, a) \in Int
           /\ \/ Credit(tx, a) = <<>> /\ Gain(tx, a) = 0 /\ \A i \in 1..Len(tx.outs) : tx.outs[i].address # a
              \/ \E i \in 1..Len(tx.outs) : /\ Credit(tx, a) = <<tx.outs[i].amount>> /\ tx.outs[i].address = a
                                            /\ Gain(tx, a) = tx.outs[i].amount
  <1> DEFINE own == {i \in DOMAIN tx.outs : tx.outs[i].address = a}
             m == Min(own)
  <1>1. tx.outs \in Seq(TxOut)
    BY DEF Transaction, TransactionWith
  <1>2. DOMAIN tx.outs = 1..Len(tx.outs) /\ Len(tx.outs) \in Nat
        /\ \A i \in 1..Len(tx.outs) : tx.outs[i] \in TxOut
    BY <1>1
  <1>3. CASE own = {}
    <2>1. Credit(tx, a) = <<>>
      BY <1>3 DEF Credit
    <2>2. <<>> \in Seq(Int) /\ 0 \in Int
      OBVIOUS
    <2>3. SumFunction(<<>>) = 0
      BY <2>2, SumAppend
    <2> QED
      BY <1>2, <1>3, <2>1, <2>2, <2>3 DEF Gain
  <1>4. CASE own # {}
    <2>1. own \in SUBSET Nat
      BY <1>2
    <2>2. m \in own
      <3> HIDE DEF own
      <3> QED
        BY <1>4, <2>1, MinOf
    <2>3. Credit(tx, a) = <<tx.outs[m].amount>>
      BY <1>4 DEF Credit
    <2>4. m \in 1..Len(tx.outs) /\ tx.outs[m].address = a
      BY <1>2, <2>2
    <2> HIDE DEF m, own
    <2>9. tx.outs[m] \in TxOut
      BY <1>2, <2>4
    <2>5. tx.outs[m].amount \in Int
      BY <2>9 DEF TxOut
    <2> DEFINE x == tx.outs[m].amount
    <2>6. Credit(tx, a) = Append(<<>>, x) /\ <<>> \in Seq(Int) /\ x \in Int
      BY <2>3, <2>5
    <2> HIDE DEF x
    <2>7. Append(<<>>, x) \in Seq(Int) /\ SumFunction(Append(<<>>, x)) = x
      <3>1. SumFunction(Append(<<>>, x)) = SumFunction(<<>>) + x /\ SumFunction(<<>>) = 0
        BY <2>6, SumAppend
      <3> QED
        BY <2>6, <3>1
    <2>8. Gain(tx, a) = x
      BY <2>6, <2>7 DEF Gain
    <2> QED
      BY <2>3, <2>4, <2>6, <2>7, <2>8 DEF x
  <1> QED
    BY <1>3, <1>4

\* One transaction in the ledger of an address.
Booked(ch, tx, a, amounts) ==
    LET credited == amounts \o Credit(tx, a)
    IN  IF IsDebit(ch, tx, a) THEN Debited(ch, credited, tx) ELSE credited

\* A debit takes from the last entry.
LEMMA DebitedSum ==
    ASSUME NEW v \in Seq(Int), NEW ch, NEW tx, Inputs(ch, tx) \in Int
    PROVE  /\ Debited(ch, v, tx) \in Seq(Int) /\ Len(Debited(ch, v, tx)) = Len(v)
           /\ v # <<>> => SumFunction(Debited(ch, v, tx)) = SumFunction(v) - Inputs(ch, tx)
  <1> DEFINE x == Inputs(ch, tx)
             m == Len(v)
             d == [v EXCEPT ![m] = @ - x]
  <1>1. Debited(ch, v, tx) = d
    BY DEF Debited, Inputs
  <1>2. m \in Nat /\ v \in [1..m -> Int]
    OBVIOUS
  <1> HIDE DEF x, m
  <1>7. x \in Int
    BY DEF x
  <1>3. d \in [1..m -> Int]
    <2>1. ASSUME m \in 1..m PROVE v[m] - x \in Int
      BY <1>2, <1>7, <2>1
    <2>2. CASE m \in 1..m
      BY <1>2, <2>1, <2>2
    <2>3. CASE m \notin 1..m
      <3>1. d = v
        BY <1>2, <2>3
      <3> QED
        BY <1>2, <3>1
    <2> QED
      BY <2>2, <2>3
  <1>4. d \in Seq(Int) /\ Len(d) = m
    BY <1>2, <1>3
  <1>5. ASSUME v # <<>>
        PROVE  SumFunction(d) = SumFunction(v) - x
    <2>1. m \in 1..m
      BY <1>2, <1>5 DEF m
    <2> DEFINE u == [y \in (1..m) \ {m} |-> v[y]]
    <2>2. Without(u, v, 1..m, m)
      BY DEF Without
    <2>3. Without(u, d, 1..m, m)
      BY <1>2, <1>3, <2>1 DEF Without
    <2>4. IsWeights(v, 1..m) /\ IsWeights(d, 1..m)
      BY <1>2, <1>3, FS_Interval DEF IsWeights
    <2>5. d[m] = v[m] - x /\ v[m] \in Int /\ x \in Int
      BY <1>2, <2>1 DEF x
    <2> HIDE DEF u, d
    <2>6. SumFunction(v) = v[m] + SumFunction(u) /\ SumFunction(u) \in Int
      BY <2>1, <2>2, <2>4, TotalSplit
    <2>7. SumFunction(d) = d[m] + SumFunction(u)
      BY <2>1, <2>3, <2>4, TotalSplit
    <2> QED
      BY <2>5, <2>6, <2>7
  <1> QED
    BY <1>1, <1>4, <1>5 DEF x, m
\* What the ledger becomes when a transaction is booked.
IsBooked(ch, tx, a, old, new) ==
    /\ new \in Seq(Int)
    /\ Gain(tx, a) \in Int /\ Loss(ch, tx, a) \in Int
    /\ old # <<>> \/ Credit(tx, a) # <<>> => new # <<>>
    /\ old # <<>> \/ ~IsDebit(ch, tx, a) =>
         SumFunction(new) = SumFunction(old) + Gain(tx, a) - Loss(ch, tx, a)

\* A transaction of an honest chain is booked as what it gains less what it costs.
LEMMA BookedType ==
    ASSUME NEW ch, IsHonest(ch), NEW k \in 1..Len(Entries(ch)), NEW a, NEW v \in Seq(Int)
    PROVE  IsBooked(ch, Entries(ch)[k].tx, a, v, Booked(ch, Entries(ch)[k].tx, a, v))
  <1> DEFINE tx == Entries(ch)[k].tx
             c == Credit(tx, a)
             w == v \o c
  <1>1. ch \in Blocks /\ Entries(ch)[k] \in Entry
    BY EntryKinds DEF IsHonest
  <1>2. tx \in Transaction
    BY <1>1 DEF Entry
  <1>3. IsDebit(ch, tx, a) => Inputs(ch, tx) \in Int
    <2> SUFFICES ASSUME IsDebit(ch, tx, a) PROVE Inputs(ch, tx) \in Int
      OBVIOUS
    <2>1. CASE IsReward(Entries(ch)[k])
      <3>1. IsCoinbase(tx)
        BY <2>1, CoinbaseIs DEF IsReward
      <3> QED
        BY <3>1 DEF IsDebit
    <2>2. CASE IsPayment(Entries(ch)[k], ch)
      <3>1. IsSound(tx, ch, Entries(ch)[k].block)
        BY <2>2 DEF IsPayment
      <3> QED
        BY <1>1, <1>2, <3>1, InputsType
    <2> QED
      BY <2>1, <2>2, EntryKinds
  <1> HIDE DEF tx
  <1>4. /\ c \in Seq(Int) /\ Gain(tx, a) \in Int
        /\ (c = <<>> /\ Gain(tx, a) = 0) \/ \E x \in Int : c = <<x>> /\ Gain(tx, a) = x
    BY <1>2, CreditType
  <1>5. SumFunction(v) \in Int
    BY SumAppend
  <1>6. w \in Seq(Int) /\ SumFunction(w) = SumFunction(v) + Gain(tx, a)
        /\ (v # <<>> \/ c # <<>> => w # <<>>)
    <2>1. CASE c = <<>> /\ Gain(tx, a) = 0
      <3>1. w = v
        BY <2>1
      <3> QED
        BY <1>5, <2>1, <3>1
    <2>2. CASE \E x \in Int : c = <<x>> /\ Gain(tx, a) = x
      <3>1. PICK x \in Int : c = <<x>> /\ Gain(tx, a) = x
        BY <2>2
      <3>2. w = Append(v, x)
        BY <3>1
      <3>3. Append(v, x) \in Seq(Int) /\ Append(v, x) # <<>>
        OBVIOUS
      <3> QED
        BY <3>1, <3>2, <3>3, SumAppend
    <2> QED
      BY <1>4, <2>1, <2>2
  <1> HIDE DEF c, w
  <1>7. CASE ~IsDebit(ch, tx, a)
    <2>1. Booked(ch, tx, a, v) = w /\ Loss(ch, tx, a) = 0
      BY <1>7 DEF Booked, Loss, w, c
    <2> QED
      BY <1>4, <1>5, <1>6, <1>7, <2>1 DEF IsBooked, tx, c
  <1>8. CASE IsDebit(ch, tx, a)
    <2>1. Booked(ch, tx, a, v) = Debited(ch, w, tx) /\ Loss(ch, tx, a) = Inputs(ch, tx)
      BY <1>8 DEF Booked, Loss, w, c
    <2>2. Inputs(ch, tx) \in Int
      BY <1>3, <1>8 DEF tx
    <2>3. /\ Debited(ch, w, tx) \in Seq(Int) /\ Len(Debited(ch, w, tx)) = Len(w)
          /\ w # <<>> => SumFunction(Debited(ch, w, tx)) = SumFunction(w) - Inputs(ch, tx)
      BY <1>6, <2>2, DebitedSum
    <2>4. w # <<>> => Debited(ch, w, tx) # <<>>
      BY <1>6, <2>3
    <2>5. v # <<>> => SumFunction(Debited(ch, w, tx)) = SumFunction(v) + Gain(tx, a) - Inputs(ch, tx)
      BY <1>4, <1>5, <1>6, <2>2, <2>3
    <2> QED
      BY <1>4, <1>6, <1>8, <2>1, <2>2, <2>3, <2>4, <2>5 DEF IsBooked, tx, c
  <1> QED
    BY <1>7, <1>8

\* Who pays in an honest chain was credited before.
LEMMA DebitCredited ==
    ASSUME NEW ch, IsHonest(ch), NEW k \in 1..Len(Entries(ch)), NEW a,
           IsDebit(ch, Entries(ch)[k].tx, a)
    PROVE  \E j \in 1..(k - 1) : Credit(Entries(ch)[j].tx, a) # <<>>
  <1> DEFINE e == Entries(ch)[k]
             p == e.tx.ins[1]
             n == Len(Entries(ch))
  <1>1. ~IsCoinbase(e.tx) /\ Resolved(ch, p).address = a
    BY DEF IsDebit
  <1>2. IsPayment(e, ch) /\ e \in Entry
    <2>1. ~IsReward(e)
      BY <1>1, CoinbaseIs DEF IsReward
    <2> QED
      BY <2>1, EntryKinds
  <1>3. 1 \in 1..Len(e.tx.ins)
    <2>1. Len(e.tx.ins) # 0
      BY <1>2 DEF IsPayment, IsSound
    <2>2. e.tx.ins \in Seq(TxOutPoint)
      BY <1>2 DEF Entry, Transaction, TransactionWith
    <2>3. Len(e.tx.ins) \in Nat
      BY <2>2
    <2> QED
      BY <2>1, <2>3
  <1>4. PICK j \in 1..n : j < k /\ IsMadeBy(ch, p, Entries(ch)[j])
    BY <1>2, <1>3, InputMade
  <1>5. Entries(ch)[j].tx \in Transaction
    <2>1. Entries(ch)[j] \in Entry
      BY EntryKinds
    <2> QED
      BY <2>1 DEF Entry
  <1>6. Credit(Entries(ch)[j].tx, a) # <<>>
    <2> DEFINE tx == Entries(ch)[j].tx
               i == p[3] + 1
    <2>1. tx \in Transaction /\ i \in 1..Len(tx.outs) /\ tx.outs[i].address = a
      BY <1>1, <1>4, <1>5 DEF IsMadeBy
    <2> HIDE DEF tx, i
    <2>2. Credit(tx, a) # <<>>
      <3>1. CASE Credit(tx, a) = <<>> /\ \A m \in 1..Len(tx.outs) : tx.outs[m].address # a
        BY <2>1, <3>1
      <3>2. CASE \E m \in 1..Len(tx.outs) : Credit(tx, a) = <<tx.outs[m].amount>>
        BY <3>2
      <3> QED
        BY <2>1, <3>1, <3>2, CreditType
    <2> QED
      BY <2>2 DEF tx
  <1> QED
    BY <1>4, <1>6

\* The values of the loop of GetAddressLedger.
Books(f, ch, a) ==
    /\ f \in [0..Len(Entries(ch)) -> Seq(Int)]
    /\ f[0] = <<>>
    /\ \A k \in 1..Len(Entries(ch)) : f[k] = Booked(ch, Entries(ch)[k].tx, a, f[k - 1])

\* GetAddressLedger goes through the transactions one by one.
LEMMA LedgerUnrolls ==
    ASSUME NEW ch, IsHonest(ch), NEW a
    PROVE  \E f : Books(f, ch, a) /\ AddressLedger(ch, a) = f[Len(Entries(ch))]
  <1> DEFINE E == Entries(ch)
             n == Len(E)
             V == Seq(Int)
             next(v, k) == Booked(ch, E[k].tx, a, v)
             g == [p \in (1..n) \X V |-> next(p[2], p[1])]
             D(h) == [s \in SUBSET (1..n) |->
                        IF s = {} THEN <<>> ELSE next(h[s \ {Max(s)}], Max(s))]
             iter == CHOOSE h : h = D(h)
  <1>0. ch \in Blocks
    BY DEF IsHonest
  <1>1. n \in Nat /\ <<>> \in V /\ DOMAIN E = 1..n
    <2>1. E \in Seq(Entry)
      BY <1>0, EntriesPlaced
    <2> QED
      BY <2>1
  <1>2. \A k \in 1..n, v \in V : next(v, k) \in V
    BY BookedType DEF IsBooked
  <1>3. AddressLedger(ch, a) = iter[1..n]
    BY <1>1 DEF AddressLedger, FoldLeft, MapThenFoldSet, Booked
  <1> HIDE DEF V, next, n, E
  <1>4. IsTurn(g, n, V)
    BY <1>2 DEF IsTurn
  <1>5. \A k \in 1..n, v \in V : g[<<k, v>>] = next(v, k)
    OBVIOUS
  <1> HIDE DEF g
  <1>6. PICK h : h \in [SUBSET (1..n) -> V] /\ IsFold(h, n, V, <<>>, g)
    BY <1>1, <1>4, FoldLeftExists
  <1>7. h = D(h)
    <2>1. ASSUME NEW s \in SUBSET (1..n), s # {}
          PROVE  h[s] = next(h[s \ {Max(s)}], Max(s))
      <3>1. Max(s) \in 1..n /\ h[s \ {Max(s)}] \in V
        BY <1>1, <1>6, <2>1, MaxOf
      <3> QED
        BY <3>1, <2>1, <1>5, <1>6 DEF IsFold
    <2> QED
      BY <1>6, <2>1 DEF IsFold
  <1> HIDE DEF D
  <1>8. iter = D(iter)
    BY <1>7
  <1> HIDE DEF iter
  <1>9. IsFold(iter, n, V, <<>>, g)
    <2>1. iter[{}] = <<>>
      BY <1>8 DEF D
    <2>2. ASSUME NEW s \in SUBSET (1..n), s # {}, iter[s \ {Max(s)}] \in V
          PROVE  iter[s] = g[<<Max(s), iter[s \ {Max(s)}]>>]
      <3>1. iter[s] = next(iter[s \ {Max(s)}], Max(s))
        BY <1>8, <2>2 DEF D
      <3>2. Max(s) \in 1..n
        BY <1>1, <2>2, MaxOf
      <3> QED
        BY <3>1, <3>2, <2>2, <1>5
    <2> QED
      BY <2>1, <2>2 DEF IsFold
  <1> DEFINE f == [k \in 0..n |-> iter[1..k]]
  <1>10. IsLoop(f, n, V, <<>>, g)
    BY <1>1, <1>4, <1>9, FoldLeftUnrolls
  <1>11. f[n] = iter[1..n]
    BY <1>1
  <1> HIDE DEF f
  <1>12. ASSUME NEW k \in 1..n
         PROVE  f[k] = next(f[k - 1], k)
    <2>1. k - 1 \in 0..n /\ f[k] = g[<<k, f[k - 1]>>]
      BY <1>1, <1>10 DEF IsLoop
    <2>2. f[k - 1] \in V
      BY <2>1, <1>10 DEF IsLoop
    <2> QED
      BY <2>1, <2>2, <1>5
  <1>13. f[0] = <<>> /\ f \in [0..n -> V]
    BY <1>10 DEF IsLoop
  <1>14. Books(f, ch, a)
    BY <1>12, <1>13 DEF Books, next, n, E, V
  <1> QED
    BY <1>3, <1>11, <1>14 DEF n, E

\* The balance of an address after each transaction.
Runs(b, ch, a) ==
    /\ b \in [0..Len(Entries(ch)) -> Int]
    /\ b[0] = 0
    /\ \A k \in 1..Len(Entries(ch)) :
         b[k] = b[k - 1] + Gain(Entries(ch)[k].tx, a) - Loss(ch, Entries(ch)[k].tx, a)

\* A debit of an honest chain never finds the ledger empty, so its amount is
\* taken off the balance in any case.
LEMMA BalanceRuns ==
    ASSUME NEW ch, IsHonest(ch), NEW a
    PROVE  \E b : Runs(b, ch, a) /\ AddressBalance(ch, a) = b[Len(Entries(ch))]
  <1> DEFINE E == Entries(ch)
             n == Len(E)
  <1>1. PICK f : Books(f, ch, a) /\ AddressLedger(ch, a) = f[n]
    BY LedgerUnrolls
  <1>2. n \in Nat
    <2>1. E \in Seq(Entry)
      BY EntriesPlaced DEF IsHonest
    <2> QED
      BY <2>1
  <1>3. \A k \in 0..n : f[k] \in Seq(Int) /\ SumFunction(f[k]) \in Int
    <2>1. \A k \in 0..n : f[k] \in Seq(Int)
      BY <1>1 DEF Books
    <2> QED
      BY <2>1, SumAppend
  <1> DEFINE b == [k \in 0..n |-> SumFunction(f[k])]
             G == {k \in 0..n : \A j \in 1..k : Credit(E[j].tx, a) # <<>> => f[k] # <<>>}
  <1>4. b \in [0..n -> Int] /\ \A k \in 0..n : b[k] = SumFunction(f[k])
    BY <1>3
  <1> HIDE DEF b
  <1>5. b[0] = 0
    <2>1. 0 \in 0..n /\ f[0] = <<>> /\ <<>> \in Seq(Int)
      BY <1>1, <1>2 DEF Books
    <2>2. SumFunction(<<>>) = 0
      <3>1. 0 \in Int
        OBVIOUS
      <3> QED
        BY <2>1, <3>1, SumAppend
    <2> QED
      BY <1>4, <2>1, <2>2
  <1>6. ASSUME NEW k \in 1..n
        PROVE  /\ k - 1 \in 0..n /\ k \in 0..n /\ f[k - 1] \in Seq(Int)
               /\ IsBooked(ch, E[k].tx, a, f[k - 1], f[k])
    <2>1. k - 1 \in 0..n /\ k \in 0..n
      BY <1>2
    <2>2. f[k] = Booked(ch, E[k].tx, a, f[k - 1]) /\ f[k - 1] \in Seq(Int)
      BY <1>1, <1>3, <2>1 DEF Books
    <2>3. IsBooked(ch, E[k].tx, a, f[k - 1], Booked(ch, E[k].tx, a, f[k - 1]))
      BY <2>2, BookedType
    <2> QED
      BY <2>1, <2>2, <2>3
  <1>7. 0 \in G
    BY <1>2
  <1>8. ASSUME NEW k \in 1..n, k - 1 \in G
        PROVE  k \in G
    <2> SUFFICES ASSUME NEW j \in 1..k, Credit(E[j].tx, a) # <<>> PROVE f[k] # <<>>
      BY <1>6
    <2>1. f[k - 1] # <<>> \/ Credit(E[k].tx, a) # <<>>
      <3>1. CASE j = k
        BY <3>1
      <3>2. CASE j # k
        <4>1. j \in 1..(k - 1)
          BY <1>2, <3>2
        <4> QED
          BY <1>8, <4>1
      <3> QED
        BY <3>1, <3>2
    <2> QED
      BY <1>6, <2>1 DEF IsBooked
  <1>9. 0..n \subseteq G
    <2> HIDE DEF G
    <2> QED
      BY <1>2, <1>7, <1>8, NatInduct
  <1>10. ASSUME NEW k \in 1..n
         PROVE  b[k] = b[k - 1] + Gain(E[k].tx, a) - Loss(ch, E[k].tx, a)
    <2>1. f[k - 1] # <<>> \/ ~IsDebit(ch, E[k].tx, a)
      <3> SUFFICES ASSUME IsDebit(ch, E[k].tx, a) PROVE f[k - 1] # <<>>
        OBVIOUS
      <3>1. PICK j \in 1..(k - 1) : Credit(E[j].tx, a) # <<>>
        BY DebitCredited
      <3>2. k - 1 \in G
        BY <1>6, <1>9
      <3> QED
        BY <3>1, <3>2
    <2>2. SumFunction(f[k]) = SumFunction(f[k - 1]) + Gain(E[k].tx, a) - Loss(ch, E[k].tx, a)
      BY <1>6, <2>1 DEF IsBooked
    <2> QED
      BY <1>4, <1>6, <2>2
  <1>11. Runs(b, ch, a)
    BY <1>4, <1>5, <1>10 DEF Runs
  <1>12. AddressBalance(ch, a) = b[n]
    BY <1>1, <1>2, <1>4 DEF AddressBalance
  <1> QED
    BY <1>11, <1>12
\* What a transaction gives to each address, and what it takes from each.
Gains(tx) == [a \in Addresses |-> Gain(tx, a)]
Losses(ch, tx) == [a \in Addresses |-> Loss(ch, tx, a)]

\* A transaction gives more than it takes by d.
IsWorth(ch, tx, d) ==
    /\ IsWeights(Gains(tx), Addresses) /\ IsWeights(Losses(ch, tx), Addresses)
    /\ SumFunction(Gains(tx)) = SumFunction(Losses(ch, tx)) + d
    /\ SumFunction(Losses(ch, tx)) \in Int

\* A reward takes nothing.
LEMMA RewardWorth ==
    ASSUME NEW ch, NEW b \in Nat, NEW a0 \in Addresses
    PROVE  IsWorth(ch, Coinbase(b, a0), COINBASE_REWARD)
  <1> DEFINE tx == Coinbase(b, a0)
             R == COINBASE_REWARD
  <1>1. /\ tx \in Transaction /\ IsCoinbase(tx)
        /\ tx.outs = <<[address |-> a0, amount |-> R]>>
    BY CoinbaseType
  <1>2. R \in Int /\ IsFiniteSet(Addresses)
    BY LedgerAssumption
  <1> HIDE DEF tx, R
  <1>3. /\ Len(tx.outs) = 1 /\ tx.outs[1].address = a0 /\ tx.outs[1].amount = R
        /\ \A i \in 1..Len(tx.outs) : i = 1
    BY <1>1
  <1>4. ASSUME NEW a \in Addresses
        PROVE  Gain(tx, a) = IF a = a0 THEN R ELSE 0
    <2>1. CASE Gain(tx, a) = 0 /\ \A i \in 1..Len(tx.outs) : tx.outs[i].address # a
      BY <1>3, <2>1
    <2>2. CASE \E i \in 1..Len(tx.outs) : tx.outs[i].address = a /\ Gain(tx, a) = tx.outs[i].amount
      BY <1>3, <2>2
    <2> QED
      BY <1>1, <2>1, <2>2, CreditType
  <1>5. \A a \in Addresses : Loss(ch, tx, a) = 0
    BY <1>1 DEF Loss, IsDebit
  <1> DEFINE g == Gains(tx)
             l == Losses(ch, tx)
  <1>6. IsWeights(g, Addresses) /\ \A a \in Addresses : g[a] = IF a = a0 THEN R ELSE 0
    BY <1>2, <1>4 DEF IsWeights, Gains
  <1>7. IsWeights(l, Addresses) /\ \A a \in Addresses : l[a] = 0
    BY <1>2, <1>5 DEF IsWeights, Losses
  <1> HIDE DEF g, l
  <1>8. SumFunction(g) = g[a0]
    BY <1>6, SumSingle
  <1>9. SumFunction(l) = l[a0]
    BY <1>7, SumSingle
  <1>10. SumFunction(g) = SumFunction(l) + R /\ SumFunction(l) \in Int
    BY <1>2, <1>6, <1>7, <1>8, <1>9
  <1> QED
    BY <1>6, <1>7, <1>10 DEF IsWorth, g, l, tx, R

\* A payment gives to two addresses at most what it takes from one.
LEMMA PaymentWorth ==
    ASSUME NEW ch \in Blocks, NEW tx \in Transaction, NEW b, IsSound(tx, ch, b)
    PROVE  IsWorth(ch, tx, 0)
  <1> DEFINE m == Len(tx.outs)
             T == {a \in Addresses : \E i \in 1..m : tx.outs[i].address = a}
             g == Gains(tx)
             l == Losses(ch, tx)
             x == Inputs(ch, tx)
             v == [a \in T |-> g[a]]
             u == [i \in 1..m |-> tx.outs[i].amount]
             f == [i \in 1..m |-> tx.outs[i].address]
  <1>1. IsFiniteSet(Addresses) /\ x \in Int /\ x = SumFunction(u)
    BY LedgerAssumption, InputsType DEF IsSound, Outputs
  <1>2. m \in Nat /\ \A i \in 1..m : tx.outs[i] \in TxOut
    <2>1. tx.outs \in Seq(TxOut)
      BY DEF Transaction, TransactionWith
    <2> QED
      BY <2>1
  <1>3. \A i \in 1..m : tx.outs[i].address \in Addresses /\ tx.outs[i].amount \in Int
    BY <1>2 DEF TxOut
  <1>4. \A i, j \in 1..m : i # j => tx.outs[i].address # tx.outs[j].address
    BY DEF IsSound
  <1>5. /\ ~IsCoinbase(tx)
        /\ 1 \in 1..Len(tx.ins)
        /\ \E from \in Addresses : Resolved(ch, tx.ins[1]).address = from
    <2>1. tx.ins \in Seq(TxOutPoint) /\ Len(tx.ins) # 0
      BY DEF Transaction, TransactionWith, IsSound
    <2>2. 1 \in 1..Len(tx.ins)
      BY <2>1
    <2> QED
      BY <2>2 DEF IsSound, IsCoinbase
  <1>6. PICK from \in Addresses : \A a \in Addresses : Loss(ch, tx, a) = IF a = from THEN x ELSE 0
    <2>1. PICK from \in Addresses : Resolved(ch, tx.ins[1]).address = from
      BY <1>5
    <2>2. \A a \in Addresses : IsDebit(ch, tx, a) <=> a = from
      BY <1>5, <2>1 DEF IsDebit
    <2>3. \A a \in Addresses : Loss(ch, tx, a) = IF a = from THEN x ELSE 0
      BY <2>2 DEF Loss
    <2> QED
      BY <2>3
  <1> HIDE DEF x
  <1>7. IsWeights(l, Addresses) /\ \A a \in Addresses : l[a] = IF a = from THEN x ELSE 0
    BY <1>1, <1>6 DEF IsWeights, Losses
  <1>8. SumFunction(l) = x
    <2> HIDE DEF l
    <2>1. \A a \in Addresses : a # from => l[a] = 0
      BY <1>7
    <2>2. SumFunction(l) = l[from]
      BY <1>7, <2>1, SumSingle
    <2> QED
      BY <1>7, <2>2
  <1>9. IsWeights(g, Addresses) /\ \A a \in Addresses : g[a] = Gain(tx, a)
    BY <1>1, CreditType DEF IsWeights, Gains
  <1> HIDE DEF g, l, m
  <1>10. ASSUME NEW a \in Addresses
         PROVE  /\ a \notin T => g[a] = 0
                /\ \A i \in 1..m : tx.outs[i].address = a => g[a] = tx.outs[i].amount
    <2>1. CASE Gain(tx, a) = 0 /\ \A i \in 1..m : tx.outs[i].address # a
      BY <1>9, <2>1
    <2>2. CASE \E i \in 1..m : tx.outs[i].address = a /\ Gain(tx, a) = tx.outs[i].amount
      <3>1. PICK i \in 1..m : tx.outs[i].address = a /\ Gain(tx, a) = tx.outs[i].amount
        BY <2>2
      <3>2. \A j \in 1..m : tx.outs[j].address = a => j = i
        BY <1>4, <3>1
      <3> QED
        BY <1>9, <3>1, <3>2
    <2>3. \/ Gain(tx, a) = 0 /\ \A i \in 1..m : tx.outs[i].address # a
          \/ \E i \in 1..m : tx.outs[i].address = a /\ Gain(tx, a) = tx.outs[i].amount
      BY CreditType DEF m
    <2> QED
      BY <2>1, <2>2, <2>3
  <1>11. T \subseteq Addresses /\ IsFiniteSet(T)
    BY <1>1, FS_Subset
  <1>12. IsWeights(v, T)
    BY <1>9, <1>11 DEF IsWeights
  <1>13. IsWeights(u, 1..m)
    BY <1>2, <1>3, FS_Interval DEF IsWeights
  <1>14. f \in Bijection(1..m, T)
    <2>1. f \in [1..m -> T]
      BY <1>3
    <2>2. \A i, j \in 1..m : f[i] = f[j] => i = j
      BY <1>4
    <2>3. \A a \in T : \E i \in 1..m : f[i] = a
      OBVIOUS
    <2> HIDE DEF f, T
    <2> QED
      BY <2>1, <2>2, <2>3 DEF Bijection, Injection, IsInjective, Surjection
  <1>15. Renames(u, v, f, 1..m)
    <2> SUFFICES ASSUME NEW i \in 1..m PROVE u[i] = v[f[i]]
      BY DEF Renames
    <2>1. f[i] \in T /\ f[i] = tx.outs[i].address /\ f[i] \in Addresses
      BY <1>3
    <2>2. g[f[i]] = tx.outs[i].amount
      BY <1>10, <2>1
    <2> QED
      BY <2>1, <2>2
  <1>16. Supports(v, g, T, Addresses)
    BY <1>10, <1>11 DEF Supports
  <1> HIDE DEF u, v, f, T
  <1>17. SumFunction(u) = SumFunction(v)
    BY <1>12, <1>13, <1>14, <1>15, SumRenamed
  <1>18. SumFunction(g) = SumFunction(v)
    BY <1>9, <1>12, <1>16, SumSupport
  <1>19. SumFunction(g) = SumFunction(l) + 0 /\ SumFunction(l) \in Int
    BY <1>1, <1>8, <1>17, <1>18
  <1> QED
    BY <1>7, <1>9, <1>19 DEF IsWorth, g, l

\* The balances of all addresses after k transactions.
AllRun(B, ch) == \A a \in Addresses : Runs(B[a], ch, a)
TotalAt(B, k) == SumFunction([a \in Addresses |-> B[a][k]])

\* A transaction changes the sum of all balances by what it is worth.
LEMMA TotalStep ==
    ASSUME NEW ch, IsHonest(ch), NEW B, AllRun(B, ch), NEW k \in 1..Len(Entries(ch)), NEW d \in Int,
           IsWorth(ch, Entries(ch)[k].tx, d)
    PROVE  TotalAt(B, k - 1) \in Int /\ TotalAt(B, k) = TotalAt(B, k - 1) + d
  <1> DEFINE n == Len(Entries(ch))
             tx == Entries(ch)[k].tx
             g == Gains(tx)
             l == Losses(ch, tx)
             old == [a \in Addresses |-> B[a][k - 1]]
             new == [a \in Addresses |-> B[a][k]]
             both == [a \in Addresses |-> old[a] + g[a]]
  <1>1. n \in Nat /\ k \in 0..n /\ k - 1 \in 0..n
    <2>1. Entries(ch) \in Seq(Entry)
      BY EntriesPlaced DEF IsHonest
    <2>2. n \in Nat
      BY <2>1
    <2> QED
      BY <2>2
  <1>2. IsFiniteSet(Addresses)
    BY LedgerAssumption
  <1>3. /\ IsWeights(g, Addresses) /\ IsWeights(l, Addresses)
        /\ SumFunction(g) = SumFunction(l) + d /\ SumFunction(l) \in Int
    BY DEF IsWorth
  <1>4. ASSUME NEW a \in Addresses
        PROVE  /\ g[a] \in Int /\ l[a] \in Int /\ old[a] \in Int /\ new[a] \in Int
               /\ new[a] = old[a] + g[a] - l[a]
    <2>1. g[a] = Gain(tx, a) /\ l[a] = Loss(ch, tx, a)
      BY DEF Gains, Losses
    <2>2. g[a] \in Int /\ l[a] \in Int
      BY <1>3 DEF IsWeights
    <2>3. Runs(B[a], ch, a)
      BY DEF AllRun
    <2>4. B[a][k] \in Int /\ B[a][k - 1] \in Int
      BY <1>1, <2>3 DEF Runs
    <2>5. B[a][k] = B[a][k - 1] + Gain(tx, a) - Loss(ch, tx, a)
      BY <2>3 DEF Runs
    <2> QED
      BY <2>1, <2>2, <2>4, <2>5
  <1> HIDE DEF g, l
  <1>5. IsWeights(old, Addresses) /\ IsWeights(new, Addresses) /\ IsWeights(both, Addresses)
    BY <1>2, <1>4 DEF IsWeights
  <1>6. Adds(old, g, both, Addresses)
    BY DEF Adds
  <1>7. Adds(new, l, both, Addresses)
    <2> SUFFICES ASSUME NEW a \in Addresses PROVE both[a] = new[a] + l[a]
      BY DEF Adds
    <2>1. both[a] = old[a] + g[a]
      OBVIOUS
    <2> HIDE DEF both, old, new
    <2> QED
      BY <1>4, <2>1
  <1> HIDE DEF both, old, new
  <1>8. SumFunction(both) = SumFunction(old) + SumFunction(g)
    BY <1>3, <1>5, <1>6, SumPlus
  <1>9. SumFunction(both) = SumFunction(new) + SumFunction(l)
    BY <1>3, <1>5, <1>7, SumPlus
  <1>10. SumFunction(old) \in Int /\ SumFunction(new) \in Int
    BY <1>5, TotalType
  <1>11. SumFunction(new) = SumFunction(old) + d
    BY <1>3, <1>8, <1>9, <1>10
  <1> QED
    BY <1>10, <1>11 DEF TotalAt, old, new
\* Each reward adds to the balances, the payments leave their sum as it is.
LEMMA TotalsFollow ==
    ASSUME NEW ch, IsHonest(ch), NEW B, AllRun(B, ch)
    PROVE  \A k \in 1..Len(Entries(ch)) :
              TotalAt(B, k) = COINBASE_REWARD * (Entries(ch)[k].block + 1)
  <1> DEFINE E == Entries(ch)
             n == Len(E)
             R == COINBASE_REWARD
             G == {k \in 0..n : TotalAt(B, k) = IF k = 0 THEN 0 ELSE R * (E[k].block + 1)}
  <1>1. ch \in Blocks /\ InOrder(E, ch, Len(ch)) /\ IsFiniteSet(Addresses)
    BY EntriesInOrder, LedgerAssumption DEF IsHonest
  <1>2. n \in Nat /\ R \in Int
    <2>1. E \in Seq(Entry)
      BY <1>1, EntriesPlaced
    <2> QED
      BY <2>1, LedgerAssumption
  <1>3. \A k \in 1..n : E[k].block \in Nat /\ E[k].index \in Nat
    <2>1. \A k \in 1..n : E[k] \in Entry
      BY EntryKinds
    <2> QED
      BY <2>1 DEF Entry
  <1>4. 0 \in G
    <2> DEFINE z == [a \in Addresses |-> B[a][0]]
    <2>1. \A a \in Addresses : B[a][0] = 0
      BY DEF AllRun, Runs
    <2>2. IsWeights(z, Addresses)
      BY <1>1, <2>1 DEF IsWeights
    <2>3. RewardAddress \in Addresses /\ \A a \in Addresses : z[a] = 0
      BY <2>1, LedgerAssumption
    <2> HIDE DEF z
    <2>4. SumFunction(z) = z[RewardAddress]
      BY <2>2, <2>3, SumSingle
    <2> QED
      BY <1>2, <2>3, <2>4 DEF TotalAt, z
  <1>5. ASSUME NEW k \in 1..n, k - 1 \in G
        PROVE  k \in G
    <2> DEFINE e == E[k]
    <2>1. k - 1 \in 0..n /\ k \in 0..n
      BY <1>2
    <2>2. \/ k = 1 /\ e.block = 0 /\ e.index = 0
          \/ k > 1 /\ k - 1 \in 1..n /\ Follows(E[k - 1], e)
      <3>1. CASE k = 1
        <4>1. Len(ch) > 0
          <5> SUFFICES ASSUME ~(Len(ch) > 0) PROVE FALSE
            OBVIOUS
          <5>1. Len(ch) \in Nat
            BY <1>1 DEF Blocks
          <5>2. Len(ch) = 0
            BY <5>1
          <5>3. E = <<>>
            BY <1>1, <5>2 DEF InOrder
          <5> QED
            BY <5>3
        <4> QED
          BY <1>1, <3>1, <4>1 DEF InOrder
      <3>2. CASE k # 1
        BY <1>1, <3>2 DEF InOrder
      <3> QED
        BY <3>1, <3>2
    <2>3. TotalAt(B, k - 1) = IF k - 1 = 0 THEN 0 ELSE R * (E[k - 1].block + 1)
      BY <1>5
    <2>4. CASE e.index = 0
      <3>1. PICK a \in Addresses : e.tx = Coinbase(e.block, a)
        <4>1. ~IsPayment(e, ch)
          BY <2>4 DEF IsPayment
        <4>2. IsReward(e)
          BY <4>1, EntryKinds
        <4> QED
          BY <4>2 DEF IsReward
      <3>2. IsWorth(ch, e.tx, R)
        BY <1>3, <3>1, RewardWorth
      <3>3. TotalAt(B, k) = TotalAt(B, k - 1) + R
        BY <1>2, <3>2, TotalStep
      <3>4. TotalAt(B, k - 1) = R * e.block
        <4>1. CASE k = 1
          BY <1>2, <2>2, <2>3, <4>1
        <4>2. CASE k # 1
          <5>1. k - 1 # 0 /\ k - 1 \in 1..n /\ Follows(E[k - 1], e)
            BY <2>2, <4>2
          <5>2. e.block = E[k - 1].block + 1
            BY <1>3, <2>4, <5>1 DEF Follows
          <5> QED
            BY <2>3, <5>1, <5>2
        <4> QED
          BY <4>1, <4>2
      <3>5. R * e.block + R = R * (e.block + 1)
        BY <1>2, <1>3
      <3> QED
        BY <2>1, <3>3, <3>4, <3>5
    <2>5. CASE e.index # 0
      <3>1. IsPayment(e, ch) /\ e \in Entry
        <4>1. ~IsReward(e)
          BY <2>5 DEF IsReward
        <4> QED
          BY <4>1, EntryKinds
      <3>2. IsWorth(ch, e.tx, 0)
        <4>1. e.tx \in Transaction /\ IsSound(e.tx, ch, e.block)
          BY <3>1 DEF IsPayment, Entry
        <4> QED
          BY <1>1, <4>1, PaymentWorth
      <3>3. TotalAt(B, k) = TotalAt(B, k - 1) + 0 /\ TotalAt(B, k - 1) \in Int
        BY <3>2, TotalStep
      <3>4. k - 1 # 0 /\ k - 1 \in 1..n /\ e.block = E[k - 1].block
        <4>1. k > 1 /\ k - 1 \in 1..n /\ Follows(E[k - 1], e)
          BY <2>2, <2>5
        <4> QED
          BY <2>5, <4>1 DEF Follows
      <3>5. TotalAt(B, k) = R * (e.block + 1)
        BY <2>3, <3>3, <3>4
      <3> QED
        BY <2>1, <3>5
    <2> QED
      BY <2>4, <2>5
  <1>6. 0..n \subseteq G
    <2> HIDE DEF G
    <2> QED
      BY <1>2, <1>4, <1>5, NatInduct
  <1> SUFFICES ASSUME NEW k \in 1..n PROVE TotalAt(B, k) = R * (E[k].block + 1)
    OBVIOUS
  <1>7. k \in G /\ k # 0
    BY <1>2, <1>6
  <1> QED
    BY <1>7

\* A chain of sound payments is honest: the shapes of its blocks are sure.
LEMMA HonestChain ==
    ASSUME LedgerInv, SoundChain(chain)
    PROVE  IsHonest(chain)
  <1>1. chain \in Blocks
    BY TypeFacts DEF LedgerInv
  <1> QED
    BY <1>1 DEF LedgerInv, SoundChain, IsHonest, NoneEmpty

\* The genesis block stays.
LEMMA NeverEmpty == Spec => [](Len(chain) >= 1)
  <1>1. Init => Len(chain) >= 1
    BY DEF Init
  <1>2. LedgerTypeOK /\ Len(chain) >= 1 /\ [Next]_vars => (Len(chain) >= 1)'
    <2> SUFFICES ASSUME LedgerTypeOK, Len(chain) >= 1, [Next]_vars
                 PROVE  Len(chain') >= 1
      OBVIOUS
    <2>1. chain \in Blocks /\ Len(chain) \in Nat
      BY TypeFacts
    <2>2. CASE chain' = chain
      BY <2>2
    <2>3. CASE AddNewBlock
      <3>1. chain' = chain \/ chain' = Append(chain, unmined)
        BY <2>3 DEF AddNewBlock
      <3> QED
        BY <2>1, <3>1 DEF Blocks
    <2>4. CASE SyncBlockchain
      <3>1. PICK size \in 1..Len(chain) :
               LET kept == SubSeq(chain, 1, size)
               IN  /\ kept \in Seq(Seq(Mined)) /\ kept \in Blocks /\ Len(kept) = size
                   /\ \A b \in 1..size : kept[b] = chain[b]
                   /\ \E block : IsAdded(block, kept) /\ chain' = Append(kept, block)
                   /\ intact' = (intact /\ size = Len(chain))
        BY <2>4, SyncStep
      <3> DEFINE kept == SubSeq(chain, 1, size)
      <3>2. PICK block : chain' = Append(kept, block)
        BY <3>1
      <3>3. kept \in Blocks /\ Len(kept) \in Nat
        BY <3>1 DEF Blocks
      <3> HIDE DEF kept
      <3> QED
        BY <3>2, <3>3 DEF Blocks
    <2> QED
      BY <2>2, <2>3, <2>4 DEF Next, vars, Pay, CreateUnminedBlock, ReQueueTransactions
  <1> QED
    BY <1>1, <1>2, LedgerTypes, PTL DEF Spec

(***************************************************************************)
(* While every payment of the chain is sound, the balances that            *)
(* GetAddressLedger computes add up to the rewards of the blocks.  Sound   *)
(* payments are not enough: what gives the rewards is that each block      *)
(* begins with its own and has no other, which is LedgerInv.  A payment    *)
(* credits what its outputs are worth and debits what its inputs are worth *)
(* - also when they are spent twice, and when there is no change and the   *)
(* debit replaces an earlier entry.                                        *)
(***************************************************************************)
THEOREM CoinsOnlyMined == Spec => []BalancesAddUp
  <1>1. ASSUME LedgerInv, Len(chain) >= 1
        PROVE  BalancesAddUp
    <2> SUFFICES ASSUME SoundChain(chain)
                 PROVE  SumFunction([a \in Addresses |-> AddressBalance(chain, a)])
                          = COINBASE_REWARD * Len(chain)
      BY DEF BalancesAddUp
    <2> DEFINE E == Entries(chain)
               n == Len(E)
               B == [a \in Addresses |-> CHOOSE b : Runs(b, chain, a) /\ AddressBalance(chain, a) = b[n]]
    <2>1. IsHonest(chain)
      BY <1>1, HonestChain
    <2>2. ASSUME NEW a \in Addresses
          PROVE  Runs(B[a], chain, a) /\ AddressBalance(chain, a) = B[a][n]
      <3>1. \E b : Runs(b, chain, a) /\ AddressBalance(chain, a) = b[n]
        BY <2>1, BalanceRuns
      <3> QED
        BY <3>1
    <2> HIDE DEF B
    <2>3. AllRun(B, chain)
      BY <2>2 DEF AllRun
    <2>4. [a \in Addresses |-> AddressBalance(chain, a)] = [a \in Addresses |-> B[a][n]]
      BY <2>2
    <2>5. chain \in Blocks /\ InOrder(E, chain, Len(chain)) /\ Len(chain) \in Nat
      <3>1. chain \in Blocks /\ NoneEmpty(chain)
        BY <2>1 DEF IsHonest
      <3> QED
        BY <3>1, EntriesInOrder DEF Blocks
    <2>6. n >= 1 /\ n \in Nat /\ E[n].block = Len(chain) - 1
      <3>1. E \in Seq(Entry)
        BY <2>5 DEF InOrder
      <3> QED
        BY <1>1, <2>5, <3>1 DEF InOrder
    <2>7. n \in 1..n
      BY <2>6
    <2>8. TotalAt(B, n) = COINBASE_REWARD * (E[n].block + 1)
      BY <2>1, <2>3, <2>7, TotalsFollow
    <2>9. E[n].block + 1 = Len(chain)
      BY <2>5, <2>6
    <2> QED
      BY <2>4, <2>8, <2>9 DEF TotalAt
  <1> QED
    BY <1>1, LedgerInvariant, NeverEmpty, PTL
-----------------------------------------------------------------------------
(* Balances and unspent outputs. *)

\* The outputs of an address among some.
Own(S, a) == {o \in S : o.address = a}

\* The sum of no output, and of one.
LEMMA SumOfFew ==
    /\ SumOf({}) = 0
    /\ \A o \in Output : SumOf({o}) = o.amount
  <1>1. SumOf({}) = 0
    <2> DEFINE w == [o \in {} |-> o.amount]
    <2>1. IsWeights(w, {})
      BY FS_EmptySet DEF IsWeights
    <2>2. SumOf({}) = SumFunction(w)
      BY DEF SumOf
    <2> HIDE DEF w
    <2> QED
      BY <2>1, <2>2, TotalType
  <1>2. ASSUME NEW o \in Output
        PROVE  SumOf({o}) = o.amount
    <2> DEFINE w == [q \in {o} |-> q.amount]
    <2>1. o.amount \in Int
      BY DEF Output
    <2>2. IsWeights(w, {o}) /\ w[o] = o.amount /\ o \in {o} /\ \A q \in {o} : q # o => w[q] = 0
      BY <2>1, FS_Singleton DEF IsWeights
    <2>3. SumOf({o}) = SumFunction(w)
      BY DEF SumOf
    <2>4. ASSUME NEW S, S = {o}
          PROVE  SumFunction(w) = w[o]
      <3> HIDE DEF w
      <3> QED
        BY <2>2, <2>4, SumSingle
    <2> HIDE DEF w
    <2> QED
      BY <2>2, <2>3, <2>4
  <1> QED
    BY <1>1, <1>2

\* What the output number x of a transaction is.
Makes(e, x) ==
    [point |-> <<e.block, e.index, x - 1>>, address |-> e.tx.outs[x].address, amount |-> e.tx.outs[x].amount]

\* The point of an output tells which it is.
LEMMA UniqueSource ==
    ASSUME NEW ch, IsHonest(ch),
           NEW i \in 1..Len(Entries(ch)), NEW j \in 1..Len(Entries(ch)),
           NEW o \in Created(Entries(ch)[i]), NEW q \in Created(Entries(ch)[j]), o.point = q.point
    PROVE  i = j /\ o = q
  <1> DEFINE d == Entries(ch)[i]
             e == Entries(ch)[j]
  <1>1. d \in Entry /\ e \in Entry
    BY EntryKinds
  <1>2. /\ d.block \in Nat /\ d.index \in Nat /\ e.block \in Nat /\ e.index \in Nat
        /\ d.tx.outs \in Seq(TxOut) /\ e.tx.outs \in Seq(TxOut)
    BY <1>1 DEF Entry, Transaction, TransactionWith
  <1>3. ch \in Blocks /\ InOrder(Entries(ch), ch, Len(ch))
    BY EntriesInOrder DEF IsHonest
  <1>4. (i < j => Before(d, e)) /\ (j < i => Before(e, d))
    BY <1>3, OrderedFrom
  <1>5. PICK x \in 1..Len(d.tx.outs) : o = Makes(d, x)
    BY DEF Created, Makes
  <1>6. PICK y \in 1..Len(e.tx.outs) : q = Makes(e, y)
    BY DEF Created, Makes
  <1>7. i \in Int /\ j \in Int
    OBVIOUS
  <1>11. (i = j => d = e) /\ x \in Int /\ y \in Int
    BY <1>2
  <1> HIDE DEF d, e
  <1>8. d.block = e.block /\ d.index = e.index /\ x - 1 = y - 1
    BY <1>5, <1>6 DEF Makes
  <1>9. i = j
    BY <1>2, <1>4, <1>7, <1>8 DEF Before
  <1>10. x = y
    BY <1>8, <1>11
  <1> QED
    BY <1>5, <1>6, <1>9, <1>10, <1>11

\* What an address gains is what the transaction makes for it.
LEMMA GainIsOwn ==
    ASSUME NEW e \in Entry, NEW a,
           \A i, j \in 1..Len(e.tx.outs) : i # j => e.tx.outs[i].address # e.tx.outs[j].address
    PROVE  SumOf(Own(Created(e), a)) = Gain(e.tx, a)
  <1> DEFINE m == Len(e.tx.outs)
  <1>1. e.tx \in Transaction
    BY DEF Entry
  <1>2. Created(e) = {Makes(e, x) : x \in 1..m}
    BY DEF Created, Makes
  <1>3. \A x : Makes(e, x).address = e.tx.outs[x].address /\ Makes(e, x).amount = e.tx.outs[x].amount
    BY DEF Makes
  <1>4. CASE Gain(e.tx, a) = 0 /\ \A i \in 1..m : e.tx.outs[i].address # a
    <2>1. Own(Created(e), a) = {}
      BY <1>2, <1>3, <1>4 DEF Own
    <2> QED
      BY <1>4, <2>1, SumOfFew
  <1>5. CASE \E i \in 1..m : e.tx.outs[i].address = a /\ Gain(e.tx, a) = e.tx.outs[i].amount
    <2>1. PICK i \in 1..m : e.tx.outs[i].address = a /\ Gain(e.tx, a) = e.tx.outs[i].amount
      BY <1>5
    <2>2. \A j \in 1..m : e.tx.outs[j].address = a => j = i
      BY <2>1
    <2>3. Own(Created(e), a) = {Makes(e, i)}
      BY <1>2, <1>3, <2>1, <2>2 DEF Own
    <2>4. Makes(e, i) \in Output
      BY <1>2, <2>1, CreatedFinite
    <2> QED
      BY <1>3, <2>1, <2>3, <2>4, SumOfFew
  <1> QED
    BY <1>1, <1>4, <1>5, CreditType
\* The output that an input names.
Named(ch, p) == [point |-> p, address |-> Resolved(ch, p).address, amount |-> Resolved(ch, p).amount]

\* It is one that the transaction before it left.
LEMMA InputLeft ==
    ASSUME NEW ch, IsHonest(ch), SpentOnce(ch), NEW k \in 1..Len(Entries(ch)),
           IsPayment(Entries(ch)[k], ch), NEW i \in 1..Len(Entries(ch)[k].tx.ins)
    PROVE  Named(ch, Entries(ch)[k].tx.ins[i]) \in Left(Entries(ch), k - 1)
  <1> DEFINE E == Entries(ch)
             p == E[k].tx.ins[i]
             o == Named(ch, p)
  <1>1. PICK j \in 1..Len(E) : j < k /\ IsMadeBy(ch, p, E[j])
    BY InputMade
  <1>2. p \in Spent(E[k])
    <2>1. ~IsCoinbase(E[k].tx)
      BY DEF IsPayment, IsCoinbase
    <2>2. E[k].tx.ins \in Seq(TxOutPoint)
      <3>1. E[k] \in Entry
        BY EntryKinds
      <3> QED
        BY <3>1 DEF Entry, Transaction, TransactionWith
    <2>3. p \in ToSet(E[k].tx.ins)
      BY <2>2 DEF ToSet
    <2> QED
      BY <2>1, <2>3 DEF Spent
  <1>3. ASSUME NEW l \in j..(k - 1)
        PROVE  p \notin Spent(E[l])
    <2>1. l \in 1..Len(E) /\ l # k
      <3>1. Len(E) \in Nat
        <4>1. E \in Seq(Entry)
          BY EntriesPlaced DEF IsHonest
        <4> QED
          BY <4>1
      <3> QED
        BY <1>1, <3>1
    <2> QED
      BY <1>2, <2>1 DEF SpentOnce
  <1>4. o \in Created(E[j])
    <2> DEFINE x == p[3] + 1
               e == E[j]
    <2>1. /\ e.block = p[1] /\ e.index = p[2] /\ x \in 1..Len(e.tx.outs)
          /\ e.tx.outs[x] = Resolved(ch, p) /\ p \in TxOutPoint
      BY <1>1 DEF IsMadeBy
    <2>2. p = <<p[1], p[2], x - 1>>
      <3> HIDE DEF p
      <3> QED
        BY <2>1 DEF TxOutPoint
    <2> HIDE DEF p, e, x
    <2>3. o = Makes(e, x)
      BY <2>1, <2>2 DEF Named, Makes
    <2> QED
      BY <2>1, <2>3 DEF Created, Makes, e
  <1>5. o.point = p /\ j \in 1..(k - 1)
    BY <1>1 DEF Named
  <1> HIDE DEF o, p
  <1> QED
    BY <1>3, <1>4, <1>5 DEF Left, o, p

\* What a payment takes from the outputs that are left.
Taken(ch, k) == {o \in Left(Entries(ch), k - 1) : o.point \in Spent(Entries(ch)[k])}

\* It takes the outputs that its inputs name, each once, all of one address.
LEMMA PaymentTakes ==
    ASSUME NEW ch, IsHonest(ch), SpentOnce(ch), NEW k \in 1..Len(Entries(ch)),
           IsPayment(Entries(ch)[k], ch), IsFiniteSet(Taken(ch, k)), Taken(ch, k) \subseteq Output
    PROVE  /\ SumOf(Taken(ch, k)) = Inputs(ch, Entries(ch)[k].tx)
           /\ \A o \in Taken(ch, k) : o.address = Resolved(ch, Entries(ch)[k].tx.ins[1]).address
  <1> DEFINE E == Entries(ch)
             tx == E[k].tx
             m == Len(tx.ins)
             O == Taken(ch, k)
             f == [i \in 1..m |-> Named(ch, tx.ins[i])]
             v == [i \in 1..m |-> Resolved(ch, tx.ins[i]).amount]
             w == [o \in O |-> o.amount]
  <1>1. ch \in Blocks /\ E[k] \in Entry /\ tx \in Transaction /\ IsSound(tx, ch, E[k].block)
    <2>1. E[k] \in Entry
      BY EntryKinds
    <2> QED
      BY <2>1 DEF IsHonest, IsPayment, Entry
  <1>2. tx.ins \in Seq(TxOutPoint) /\ m \in Nat /\ DOMAIN tx.ins = 1..m
    <2>1. tx.ins \in Seq(TxOutPoint)
      BY <1>1 DEF Transaction, TransactionWith
    <2> QED
      BY <2>1
  <1>3. Spent(E[k]) = {tx.ins[i] : i \in 1..m}
    <2>1. ~IsCoinbase(tx)
      BY DEF IsPayment, IsCoinbase
    <2> QED
      BY <1>2, <2>1 DEF Spent, ToSet
  <1>4. \A p : Named(ch, p).point = p /\ Named(ch, p).amount = Resolved(ch, p).amount
               /\ Named(ch, p).address = Resolved(ch, p).address
    BY DEF Named
  <1>5. ASSUME NEW i \in 1..m
        PROVE  f[i] \in O
    <2>1. Named(ch, tx.ins[i]) \in Left(E, k - 1)
      BY InputLeft
    <2>2. Named(ch, tx.ins[i]).point \in Spent(E[k])
      BY <1>3, <1>4
    <2> QED
      BY <2>1, <2>2 DEF Taken
  <1>6. \A i, j \in 1..m : f[i] = f[j] => i = j
    <2> SUFFICES ASSUME NEW i \in 1..m, NEW j \in 1..m, f[i] = f[j] PROVE i = j
      OBVIOUS
    <2>1. tx.ins[i] = tx.ins[j]
      BY <1>4
    <2>2. IsInjective(tx.ins)
      BY <1>1 DEF IsSound
    <2> QED
      BY <1>2, <2>1, <2>2 DEF IsInjective
  <1>7. ASSUME NEW o \in O
        PROVE  \E i \in 1..m : f[i] = o
    <2>1. o \in Left(E, k - 1) /\ o.point \in Spent(E[k])
      BY DEF Taken
    <2>2. PICK i \in 1..m : o.point = tx.ins[i]
      BY <1>3, <2>1
    <2>3. f[i] \in Left(E, k - 1) /\ f[i].point = o.point
      BY <1>4, <1>5, <2>2 DEF Taken
    <2>4. \A q \in Left(E, k - 1) : \E j \in 1..Len(E) : q \in Created(E[j])
      <3>1. Len(E) \in Nat
        <4>1. E \in Seq(Entry)
          BY <1>1, EntriesPlaced
        <4> QED
          BY <4>1
      <3>2. 1..(k - 1) \subseteq 1..Len(E)
        BY <3>1
      <3> QED
        BY <3>2 DEF Left
    <2>5. PICK j \in 1..Len(E) : o \in Created(E[j])
      BY <2>1, <2>4
    <2>6. PICK l \in 1..Len(E) : f[i] \in Created(E[l])
      BY <2>3, <2>4
    <2> HIDE DEF f
    <2>7. o = f[i]
      BY <2>3, <2>5, <2>6, UniqueSource
    <2> QED
      BY <2>7
  <1>8. f \in Bijection(1..m, O)
    <2>1. f \in [1..m -> O]
      BY <1>5
    <2> HIDE DEF f, O
    <2> QED
      BY <1>6, <1>7, <2>1 DEF Bijection, Injection, IsInjective, Surjection
  <1>9. IsWeights(v, 1..m)
    BY <1>1, InputsType
  <1>10. IsWeights(w, O)
    BY DEF IsWeights, Output
  <1>11. Renames(v, w, f, 1..m)
    BY <1>4, <1>5 DEF Renames
  <1>12. SumOf(O) = SumFunction(w) /\ Inputs(ch, tx) = SumFunction(v)
    BY DEF SumOf, Inputs
  <1>13. \A o \in O : o.address = Resolved(ch, tx.ins[1]).address
    <2> SUFFICES ASSUME NEW o \in O PROVE o.address = Resolved(ch, tx.ins[1]).address
      OBVIOUS
    <2>1. PICK i \in 1..m : f[i] = o
      BY <1>7
    <2>2. o.address = Resolved(ch, tx.ins[i]).address
      BY <1>4, <2>1
    <2>3. 1 \in 1..m
      BY <1>1, <1>2 DEF IsSound
    <2>4. PICK from \in Addresses : \A x \in 1..m : Resolved(ch, tx.ins[x]).address = from
      BY <1>1 DEF IsSound
    <2> HIDE DEF f, m
    <2> QED
      BY <2>1, <2>2, <2>3, <2>4
  <1> HIDE DEF v, w, f, O
  <1>14. SumFunction(v) = SumFunction(w)
    BY <1>8, <1>9, <1>10, <1>11, SumRenamed
  <1> QED
    BY <1>12, <1>13, <1>14 DEF O
\* The outputs that the first k transactions leave.
LEMMA LeftFacts ==
    ASSUME NEW ch \in Blocks
    PROVE  /\ Left(Entries(ch), 0) = {}
           /\ UnspentTxOuts(ch) = Left(Entries(ch), Len(Entries(ch)))
           /\ \A k \in 0..Len(Entries(ch)) :
                 /\ IsFiniteSet(Left(Entries(ch), k)) /\ Left(Entries(ch), k) \subseteq Output
                 /\ \A o \in Left(Entries(ch), k) : \E i \in 1..k : o \in Created(Entries(ch)[i])
           /\ \A k \in 1..Len(Entries(ch)) :
                 Left(Entries(ch), k) =
                   {o \in Left(Entries(ch), k - 1) \cup Created(Entries(ch)[k]) :
                      o.point \notin Spent(Entries(ch)[k])}
  <1> DEFINE E == Entries(ch)
             n == Len(E)
  <1>1. E \in Seq(Entry)
    BY EntriesPlaced
  <1>2. PICK f : LeavesUnspent(f, E) /\ UnspentTxOuts(ch) = f[n]
    BY <1>1, UnspentUnrolls
  <1>3. \A k \in 0..n : f[k] = Left(E, k)
    BY <1>1, <1>2, LeftUnspent
  <1>4. \A k \in 0..n : IsFiniteSet(f[k]) /\ f[k] \subseteq Output
    BY <1>1, <1>2, LeavesFinite
  <1>5. n \in Nat /\ n \in 0..n /\ 0 \in 0..n
    BY <1>1
  <1>6. ASSUME NEW k \in 1..n
        PROVE  Left(E, k) = {o \in Left(E, k - 1) \cup Created(E[k]) : o.point \notin Spent(E[k])}
    <2>1. k \in 0..n /\ k - 1 \in 0..n
      BY <1>5
    <2>2. f[k] = {o \in f[k - 1] \cup Created(E[k]) : o.point \notin Spent(E[k])}
      BY <1>2 DEF LeavesUnspent
    <2> QED
      BY <1>3, <2>1, <2>2
  <1>7. Left(E, 0) = {}
    BY <1>2, <1>3, <1>5 DEF LeavesUnspent
  <1>8. \A k \in 0..n : \A o \in Left(E, k) : \E i \in 1..k : o \in Created(E[i])
    BY DEF Left
  <1> HIDE DEF E, n
  <1>9. \A k \in 0..n : IsFiniteSet(Left(E, k)) /\ Left(E, k) \subseteq Output
    BY <1>3, <1>4
  <1>10. UnspentTxOuts(ch) = Left(E, n)
    BY <1>2, <1>3, <1>5
  <1> QED
    BY <1>6, <1>7, <1>8, <1>9, <1>10 DEF E, n

\* A transaction takes from each address what it costs it, and does not spend
\* what it makes.
LEMMA TakenIsLoss ==
    ASSUME NEW ch, IsHonest(ch), SpentOnce(ch), NEW k \in 1..Len(Entries(ch)), NEW a,
           IsFiniteSet(Taken(ch, k)), Taken(ch, k) \subseteq Output
    PROVE  /\ SumOf(Own(Taken(ch, k), a)) = Loss(ch, Entries(ch)[k].tx, a)
           /\ \A o \in Created(Entries(ch)[k]) : o.point \notin Spent(Entries(ch)[k])
           /\ \A i, j \in 1..Len(Entries(ch)[k].tx.outs) :
                i # j => Entries(ch)[k].tx.outs[i].address # Entries(ch)[k].tx.outs[j].address
  <1> DEFINE e == Entries(ch)[k]
             O == Taken(ch, k)
  <1>1. e \in Entry
    BY EntryKinds
  <1>2. CASE IsReward(e)
    <2>1. PICK a0 \in Addresses : e.tx = Coinbase(e.block, a0)
      BY <1>2 DEF IsReward
    <2>2. /\ IsCoinbase(e.tx)
          /\ e.tx.outs = <<[address |-> a0, amount |-> COINBASE_REWARD]>>
      BY <1>1, <2>1, CoinbaseType DEF Entry
    <2>3. Spent(e) = {} /\ Loss(ch, e.tx, a) = 0
      BY <2>2 DEF Spent, Loss, IsDebit
    <2>4. Own(O, a) = {}
      BY <2>3 DEF Own, Taken
    <2>5. \A i, j \in 1..Len(e.tx.outs) : i = j
      BY <2>2
    <2> QED
      BY <2>3, <2>4, <2>5, SumOfFew
  <1>3. CASE IsPayment(e, ch)
    <2>1. IsSound(e.tx, ch, e.block) /\ e.tx.signed
      BY <1>3 DEF IsPayment
    <2>2. /\ SumOf(O) = Inputs(ch, e.tx)
          /\ \A o \in O : o.address = Resolved(ch, e.tx.ins[1]).address
      BY <1>3, PaymentTakes
    <2>3. IsDebit(ch, e.tx, a) <=> Resolved(ch, e.tx.ins[1]).address = a
      BY <2>1 DEF IsDebit, IsCoinbase
    <2>4. SumOf(Own(O, a)) = Loss(ch, e.tx, a)
      <3>1. CASE Resolved(ch, e.tx.ins[1]).address = a
        <4>1. Own(O, a) = O
          BY <2>2, <3>1 DEF Own
        <4> QED
          BY <2>2, <2>3, <3>1, <4>1 DEF Loss
      <3>2. CASE Resolved(ch, e.tx.ins[1]).address # a
        <4>1. Own(O, a) = {}
          BY <2>2, <3>2 DEF Own
        <4> QED
          BY <2>3, <3>2, <4>1, SumOfFew DEF Loss
      <3> QED
        BY <3>1, <3>2
    <2>5. ASSUME NEW o \in Created(e), o.point \in Spent(e)
          PROVE  FALSE
      <3>1. o.point[1] = e.block /\ e.block \in Nat
        BY <1>1 DEF Created, Entry
      <3>2. e.tx.ins \in Seq(TxOutPoint)
        BY <1>1 DEF Entry, Transaction, TransactionWith
      <3>3. o.point \in ToSet(e.tx.ins)
        <4>1. ~IsCoinbase(e.tx)
          BY <2>1 DEF IsCoinbase
        <4> QED
          BY <2>5, <4>1 DEF Spent
      <3>4. PICK i \in 1..Len(e.tx.ins) : o.point = e.tx.ins[i]
        BY <3>2, <3>3 DEF ToSet
      <3>5. e.tx.ins[i][1] < e.block
        BY <2>1 DEF IsSound
      <3> QED
        BY <3>1, <3>4, <3>5
    <2>6. \A i, j \in 1..Len(e.tx.outs) : i # j => e.tx.outs[i].address # e.tx.outs[j].address
      BY <2>1 DEF IsSound
    <2> HIDE DEF e, O
    <2> QED
      BY <2>4, <2>5, <2>6 DEF e, O
  <1> QED
    BY <1>2, <1>3, EntryKinds

\* What is left for an address changes as its balance does.
LEMMA LeftStep ==
    ASSUME NEW ch, IsHonest(ch), SpentOnce(ch), NEW k \in 1..Len(Entries(ch)), NEW a
    PROVE  SumOf(Own(Left(Entries(ch), k), a)) =
             SumOf(Own(Left(Entries(ch), k - 1), a)) + Gain(Entries(ch)[k].tx, a)
               - Loss(ch, Entries(ch)[k].tx, a)
  <1> DEFINE E == Entries(ch)
             e == E[k]
             U == Left(E, k - 1)
             V == Left(E, k)
             C == Created(e)
             O == Taken(ch, k)
             kept == Own(U \ O, a)
             gone == Own(O, a)
             new == Own(C, a)
  <1>1. ch \in Blocks /\ e \in Entry
    BY EntryKinds DEF IsHonest
  <1>2. k - 1 \in 0..Len(E) /\ \A i \in 1..(k - 1) : i \in 1..Len(E) /\ i # k
    <2>1. E \in Seq(Entry)
      BY <1>1, EntriesPlaced
    <2>2. Len(E) \in Nat
      BY <2>1
    <2> QED
      BY <2>2
  <1>3. /\ IsFiniteSet(U) /\ U \subseteq Output
        /\ \A o \in U : \E i \in 1..(k - 1) : o \in Created(E[i])
        /\ V = {o \in U \cup C : o.point \notin Spent(e)}
    BY <1>1, <1>2, LeftFacts
  <1>4. IsFiniteSet(C) /\ C \subseteq Output
    BY <1>1, CreatedFinite
  <1>5. O = {o \in U : o.point \in Spent(e)}
    BY DEF Taken
  <1>6. IsFiniteSet(O) /\ O \subseteq Output /\ O \subseteq U
    BY <1>3, <1>5, FS_Subset
  <1>7. /\ SumOf(gone) = Loss(ch, e.tx, a)
        /\ \A o \in C : o.point \notin Spent(e)
        /\ \A i, j \in 1..Len(e.tx.outs) : i # j => e.tx.outs[i].address # e.tx.outs[j].address
    BY <1>6, TakenIsLoss
  <1>8. SumOf(new) = Gain(e.tx, a)
    BY <1>1, <1>7, GainIsOwn
  <1>9. U \cap C = {}
    <2> SUFFICES ASSUME NEW o, o \in U, o \in C PROVE FALSE
      OBVIOUS
    <2>1. PICK i \in 1..(k - 1) : o \in Created(E[i])
      BY <1>3
    <2>2. i \in 1..Len(E) /\ i # k
      BY <1>2
    <2>3. i = k
      BY <2>1, <2>2, UniqueSource
    <2> QED
      BY <2>2, <2>3
  <1>10. V = (U \ O) \cup C
    BY <1>3, <1>5, <1>7
  <1> HIDE DEF E, e, U, V, C, O
  <1>11. Own(V, a) = kept \cup new /\ kept \cap new = {}
    BY <1>9, <1>10 DEF Own
  <1>12. Own(U, a) = kept \cup gone /\ kept \cap gone = {}
    BY <1>6 DEF Own
  <1>13. kept \subseteq U /\ gone \subseteq O /\ new \subseteq C
    BY DEF Own
  <1>14. /\ IsFiniteSet(kept) /\ IsFiniteSet(gone) /\ IsFiniteSet(new)
         /\ kept \subseteq Output /\ gone \subseteq Output /\ new \subseteq Output
    BY <1>3, <1>4, <1>6, <1>13, FS_Subset
  <1> HIDE DEF kept, gone, new
  <1>15. SumOf(kept) \in Int /\ SumOf(gone) \in Int /\ SumOf(new) \in Int
    BY <1>14, SumOfType
  <1>16. SumOf(Own(V, a)) = SumOf(kept) + SumOf(new)
    BY <1>11, <1>14, SumOfUnion
  <1>17. SumOf(Own(U, a)) = SumOf(kept) + SumOf(gone)
    BY <1>12, <1>14, SumOfUnion
  <1>18. SumOf(Own(V, a)) = SumOf(Own(U, a)) + SumOf(new) - SumOf(gone)
    BY <1>15, <1>16, <1>17
  <1> QED
    BY <1>7, <1>8, <1>18 DEF E, e, U, V

(***************************************************************************)
(* While every payment of the chain is sound and no output is spent twice, *)
(* the balance of an address (GetAddressLedger) is what its unspent        *)
(* outputs (GetUnspentTxOuts) are worth: each transaction takes from the   *)
(* outputs left for an address what it debits it, and adds what it credits *)
(* it.                                                                     *)
(***************************************************************************)
THEOREM TwoCountsAgree == Spec => []BalanceIsUnspent
  <1>1. ASSUME LedgerInv
        PROVE  BalanceIsUnspent
    <2> SUFFICES ASSUME SoundChain(chain), SpentOnce(chain), NEW a \in Addresses
                 PROVE  AddressBalance(chain, a) = SumOf(UnspentOf(chain, a))
      BY DEF BalanceIsUnspent
    <2> DEFINE E == Entries(chain)
               n == Len(E)
    <2>1. IsHonest(chain) /\ chain \in Blocks
      BY <1>1, HonestChain DEF IsHonest
    <2>2. PICK b : Runs(b, chain, a) /\ AddressBalance(chain, a) = b[n]
      BY <2>1, BalanceRuns
    <2> DEFINE G == {k \in 0..n : b[k] = SumOf(Own(Left(E, k), a))}
    <2>3. n \in Nat
      <3>1. E \in Seq(Entry)
        BY <2>1, EntriesPlaced
      <3> QED
        BY <3>1
    <2>4. 0 \in G
      <3>1. Own(Left(E, 0), a) = {}
        BY <2>1, LeftFacts DEF Own
      <3>2. b[0] = 0 /\ 0 \in 0..n
        BY <2>2, <2>3 DEF Runs
      <3>3. b[0] = SumOf(Own(Left(E, 0), a))
        BY <3>1, <3>2, SumOfFew
      <3> QED
        BY <3>2, <3>3
    <2>5. ASSUME NEW k \in 1..n, k - 1 \in G
          PROVE  k \in G
      <3>1. k \in 0..n
        BY <2>3
      <3>2. b[k] = b[k - 1] + Gain(E[k].tx, a) - Loss(chain, E[k].tx, a)
        BY <2>2 DEF Runs
      <3>3. SumOf(Own(Left(E, k), a)) =
              SumOf(Own(Left(E, k - 1), a)) + Gain(E[k].tx, a) - Loss(chain, E[k].tx, a)
        BY <2>1, LeftStep
      <3>4. b[k - 1] = SumOf(Own(Left(E, k - 1), a))
        BY <2>5
      <3> QED
        BY <3>1, <3>2, <3>3, <3>4
    <2>6. 0..n \subseteq G
      <3> HIDE DEF G
      <3> QED
        BY <2>3, <2>4, <2>5, NatInduct
    <2>7. b[n] = SumOf(Own(Left(E, n), a))
      BY <2>3, <2>6
    <2>8. UnspentOf(chain, a) = Own(Left(E, n), a)
      BY <2>1, LeftFacts DEF UnspentOf, Own
    <2> QED
      BY <2>2, <2>7, <2>8
  <1> QED
    BY <1>1, LedgerInvariant, PTL
=============================================================================
