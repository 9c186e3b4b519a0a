------------------------ MODULE DisciplineApart_proofs ------------------------
(***************************************************************************)
(* Proofs about DisciplineApart: the composite score of any supervisor     *)
(* under any weights, and what holds of the weights as long as no          *)
(* application was raced or cut, for every number of dimensions and calls. *)
(*                                                                         *)
(* Sums over functions are folds over finite sets, and what they are is    *)
(* shown by induction.  The induction theorems of the library cannot be    *)
(* instantiated here; Induction and SubsetInduction say the same of a set. *)
(***************************************************************************)
EXTENDS DisciplineApart, DisciplineVote_proofs, WellFoundedInduction

(* Induction, for a set of numbers. *)
LEMMA Induction ==
    ASSUME NEW T \in SUBSET Nat, 0 \in T, \A n \in T : n + 1 \in T
    PROVE  T = Nat
  <1> SUFFICES ASSUME Nat \ T # {} PROVE FALSE
    OBVIOUS
  <1>1. PICK n \in Nat \ T : \A m \in Nat \ T : ~(<<m, n>> \in OpToRel(<, Nat))
    <2>1. Nat \ T \subseteq Nat
      OBVIOUS
    <2> QED
      BY <2>1, NatLessThanWellFounded, WFMin
  <1>2. \A m \in Nat \ T : ~(m < n)
    BY <1>1 DEF OpToRel
  <1>3. n # 0 /\ n - 1 \in Nat
    OBVIOUS
  <1>4. n - 1 \in T
    BY <1>2, <1>3
  <1>5. (n - 1) + 1 = n
    OBVIOUS
  <1> QED
    BY <1>4, <1>5

-----------------------------------------------------------------------------
(* The element a fold takes out of a set. *)
Pick(s) == CHOOSE x \in s : TRUE
Parts(S) == SUBSET S

LEMMA PartsHas ==
    ASSUME NEW S
    PROVE  {} \in Parts(S) /\ S \in Parts(S)
  BY DEF Parts

LEMMA PickOne ==
    ASSUME NEW S, IsFiniteSet(S), NEW s \in Parts(S)
    PROVE  /\ IsFiniteSet(s) /\ Cardinality(s) \in Nat
           /\ Cardinality(s) = 0 <=> s = {}
           /\ s # {} => /\ Pick(s) \in s /\ Pick(s) \in S
                        /\ s \ {Pick(s)} \in Parts(S)
                        /\ Cardinality(s \ {Pick(s)}) = Cardinality(s) - 1
  <1>1. IsFiniteSet(s)
    BY FS_Subset DEF Parts
  <1>2. Cardinality(s) \in Nat
    BY <1>1, FS_CardinalityType
  <1>3. Cardinality(s) = 0 <=> s = {}
    BY <1>1, FS_EmptySet
  <1>4. ASSUME s # {} PROVE Pick(s) \in s
    BY <1>4 DEF Pick
  <1>5. ASSUME NEW x \in s PROVE Cardinality(s \ {x}) = Cardinality(s) - 1
    BY <1>1, FS_RemoveElement
  <1> QED
    BY <1>1, <1>2, <1>3, <1>4, <1>5 DEF Parts

(* Induction, for the subsets of a finite set. *)
LEMMA SubsetInduction ==
    ASSUME NEW S, IsFiniteSet(S), NEW T \in SUBSET Parts(S), {} \in T,
           \A s \in Parts(S) : s # {} /\ s \ {Pick(s)} \in T => s \in T
    PROVE  T = Parts(S)
  <1> DEFINE N == {n \in Nat : \A s \in Parts(S) : Cardinality(s) = n => s \in T}
  <1>1. 0 \in N
    BY PickOne
  <1>2. ASSUME NEW n \in N PROVE n + 1 \in N
    <2>1. ASSUME NEW s \in Parts(S), Cardinality(s) = n + 1 PROVE s \in T
      <3>0. s # {}
        BY <2>1, PickOne
      <3>1. s \ {Pick(s)} \in Parts(S) /\ Cardinality(s \ {Pick(s)}) = Cardinality(s) - 1
        BY <3>0, PickOne
      <3>2. Cardinality(s \ {Pick(s)}) = n
        BY <2>1, <3>1
      <3> QED
        BY <3>0, <3>1, <3>2
    <2> QED
      BY <2>1
  <1>3. N = Nat
    <2>1. N \in SUBSET Nat
      OBVIOUS
    <2> HIDE DEF N
    <2> QED
      BY <1>1, <1>2, <2>1, Induction
  <1>4. ASSUME NEW s \in Parts(S) PROVE s \in T
    <2>1. Cardinality(s) \in N
      BY <1>3, PickOne
    <2> QED
      BY <2>1
  <1> QED
    BY <1>4

-----------------------------------------------------------------------------
IsFold(g, S, f, op, base) ==
    \A s \in Parts(S) : g[s] = IF s = {} THEN base ELSE op[f[Pick(s)]][g[s \ {Pick(s)}]]

(* A fold of integers exists, whatever it folds with. *)
LEMMA FoldExists ==
    ASSUME NEW S, IsFiniteSet(S), NEW f \in [S -> Int],
           NEW op \in [Int -> [Int -> Int]], NEW base \in Int
    PROVE  \E g \in [Parts(S) -> Int] : IsFold(g, S, f, op, base)
  <1> DEFINE Good(g, s) ==
                 g[s] = IF s = {} THEN base ELSE op[f[Pick(s)]][g[s \ {Pick(s)}]]
             T == {n \in Nat : \E g \in [Parts(S) -> Int] :
                                   \A s \in Parts(S) : Cardinality(s) <= n => Good(g, s)}
  <1>a. \A s \in Parts(S) : Cardinality(s) \in Nat
    BY PickOne
  <1>b. ASSUME NEW s \in Parts(S), s # {}
        PROVE  /\ Pick(s) \in S /\ s \ {Pick(s)} \in Parts(S)
               /\ Cardinality(s \ {Pick(s)}) = Cardinality(s) - 1
    BY <1>b, PickOne
  <1>1. 0 \in T
    <2> DEFINE z == [s \in Parts(S) |-> base]
    <2>1. z \in [Parts(S) -> Int]
      OBVIOUS
    <2>2. ASSUME NEW s \in Parts(S), Cardinality(s) <= 0 PROVE Good(z, s)
      <3>0. Cardinality(s) = 0
        BY <1>a, <2>2
      <3>1. s = {}
        BY <3>0, PickOne
      <3> QED
        BY <3>1
    <2> QED
      BY <2>1, <2>2
  <1>2. ASSUME NEW n \in T PROVE n + 1 \in T
    <2>1. PICK g \in [Parts(S) -> Int] :
              \A s \in Parts(S) : Cardinality(s) <= n => Good(g, s)
      OBVIOUS
    <2> DEFINE Next1(s) == IF s = {} THEN base ELSE op[f[Pick(s)]][g[s \ {Pick(s)}]]
               h == [s \in Parts(S) |-> Next1(s)]
    <2>2. ASSUME NEW s \in Parts(S) PROVE Next1(s) \in Int
      <3>1. CASE s = {}
        BY <3>1
      <3>2. CASE s # {}
        <4>0. Pick(s) \in S /\ s \ {Pick(s)} \in Parts(S)
          BY <1>b, <3>2
        <4>1. f[Pick(s)] \in Int /\ g[s \ {Pick(s)}] \in Int
          BY <4>0
        <4>2. op[f[Pick(s)]] \in [Int -> Int]
          BY <4>1
        <4>3. op[f[Pick(s)]][g[s \ {Pick(s)}]] \in Int
          BY <4>1, <4>2
        <4> QED
          BY <3>2, <4>3
      <3> QED
        BY <3>1, <3>2
    <2>3. h \in [Parts(S) -> Int]
      BY <2>2
    <2>4. ASSUME NEW s \in Parts(S), Cardinality(s) <= n + 1 PROVE Good(h, s)
      <3>1. CASE s = {}
        BY <3>1
      <3>2. CASE s # {}
        <4> DEFINE t == s \ {Pick(s)}
        <4>0. t \in Parts(S) /\ Cardinality(t) = Cardinality(s) - 1
          BY <1>b, <3>2
        <4>1. t \in Parts(S) /\ Cardinality(t) <= n
          BY <1>a, <2>4, <4>0
        <4>2. g[t] = Next1(t)
          BY <2>1, <4>1
        <4>3. h[t] = g[t]
          BY <4>1, <4>2
        <4> HIDE DEF t
        <4>4. h[s] = op[f[Pick(s)]][g[t]]
          BY <3>2 DEF t
        <4>5. h[s] = op[f[Pick(s)]][h[t]]
          BY <4>3, <4>4
        <4> QED
          BY <3>2, <4>5 DEF t
      <3> QED
        BY <3>1, <3>2
    <2>5. \A s \in Parts(S) : Cardinality(s) <= n + 1 => Good(h, s)
      BY <2>4
    <2> HIDE DEF h, Good
    <2>6. n \in Nat /\ n + 1 \in Nat
      OBVIOUS
    <2> QED
      BY <2>3, <2>5, <2>6
  <1>3. Cardinality(S) \in T
    <2>1. T \in SUBSET Nat
      OBVIOUS
    <2> HIDE DEF T
    <2>2. T = Nat
      BY <1>1, <1>2, <2>1, Induction
    <2> QED
      BY <2>2, FS_CardinalityType
  <1>4. PICK g \in [Parts(S) -> Int] :
            \A s \in Parts(S) : Cardinality(s) <= Cardinality(S) => Good(g, s)
    BY <1>3
  <1>5. \A s \in Parts(S) : Cardinality(s) <= Cardinality(S)
    BY FS_Subset DEF Parts
  <1> QED
    BY <1>4, <1>5 DEF IsFold

(* What a sum is, a step at a time. *)
IsSum(g, S, f) ==
    /\ SumFunction(f) = g[S]
    /\ g[{}] = 0
    /\ \A s \in Parts(S) : s # {} => g[s] = f[Pick(s)] + g[s \ {Pick(s)}]

LEMMA SumUnfolds ==
    ASSUME NEW S, IsFiniteSet(S), NEW f \in [S -> Int]
    PROVE  \E g \in [Parts(S) -> Int] : IsSum(g, S, f)
  <1>a. \A s \in Parts(S) : Cardinality(s) \in Nat
    BY PickOne
  <1>b. ASSUME NEW s \in Parts(S), s # {}
        PROVE  /\ Pick(s) \in S /\ s \ {Pick(s)} \in Parts(S)
               /\ Cardinality(s \ {Pick(s)}) = Cardinality(s) - 1
    BY <1>b, PickOne
  <1> DEFINE Body(g) == [s \in Parts(S) |-> IF s = {} THEN 0 ELSE f[Pick(s)] + g[s \ {Pick(s)}]]
             op == [a \in Int |-> [b \in Int |-> a + b]]
  <1>1. op \in [Int -> [Int -> Int]] /\ \A a, b \in Int : op[a][b] = a + b
    OBVIOUS
  <1>0. op \in [Int -> [Int -> Int]] /\ 0 \in Int
    BY <1>1
  <1> HIDE DEF op
  <1>2. PICK g \in [Parts(S) -> Int] : \A s \in Parts(S) :
            g[s] = IF s = {} THEN 0 ELSE op[f[Pick(s)]][g[s \ {Pick(s)}]]
    <2>1. \E g \in [Parts(S) -> Int] : IsFold(g, S, f, op, 0)
      BY <1>0, FoldExists
    <2> QED
      BY <2>1 DEF IsFold
  <1>3. ASSUME NEW s \in Parts(S)
        PROVE  g[s] = IF s = {} THEN 0 ELSE f[Pick(s)] + g[s \ {Pick(s)}]
    <2>1. CASE s = {}
      BY <1>2, <2>1
    <2>2. CASE s # {}
      <3>1. f[Pick(s)] \in Int /\ g[s \ {Pick(s)}] \in Int
        BY <1>b, <2>2
      <3> QED
        BY <1>1, <1>2, <2>2, <3>1
    <2> QED
      BY <2>1, <2>2
  <1>4. g = Body(g)
    BY <1>3
  <1> DEFINE sum == CHOOSE h : h = Body(h)
  <1>5. SumFunction(f) = sum[S]
    BY DEF SumFunction, SumFunctionOnSet, FoldFunctionOnSet, MapThenFoldSet, Pick, Parts
  <1>6. sum = Body(sum)
    BY <1>4
  <1> HIDE DEF sum
  <1>7. sum[{}] = 0 /\ \A s \in Parts(S) : s # {} => sum[s] = f[Pick(s)] + sum[s \ {Pick(s)}]
    BY <1>6, PartsHas
  <1>8. \A s \in Parts(S) : sum[s] \in Int
    <2> DEFINE T == {s \in Parts(S) : sum[s] \in Int}
    <2>1. {} \in T
      BY <1>7, PartsHas
    <2>2. ASSUME NEW s \in Parts(S), s # {}, s \ {Pick(s)} \in T PROVE s \in T
      <3>1. f[Pick(s)] \in Int /\ sum[s \ {Pick(s)}] \in Int
        BY <1>b, <2>2
      <3>2. sum[s] = f[Pick(s)] + sum[s \ {Pick(s)}]
        BY <1>7, <2>2
      <3> QED
        BY <3>1, <3>2
    <2>3. T \in SUBSET Parts(S)
      OBVIOUS
    <2> HIDE DEF T
    <2>4. T = Parts(S)
      BY <2>1, <2>2, <2>3, SubsetInduction
    <2> QED
      BY <2>4 DEF T
  <1>9. sum \in [Parts(S) -> Int]
    <2>1. sum = [s \in Parts(S) |-> sum[s]]
      BY <1>6
    <2> QED
      BY <1>8, <2>1
  <1> QED
    BY <1>5, <1>7, <1>9 DEF IsSum

(* A product of integers is one. *)
LEMMA ProductType ==
    ASSUME NEW S, IsFiniteSet(S), NEW f \in [S -> Int]
    PROVE  FoldFunction(LAMBDA a, b : a * b, 1, f) \in Int
  <1>a. \A s \in Parts(S) : Cardinality(s) \in Nat
    BY PickOne
  <1>b. ASSUME NEW s \in Parts(S), s # {}
        PROVE  /\ Pick(s) \in S /\ s \ {Pick(s)} \in Parts(S)
               /\ Cardinality(s \ {Pick(s)}) = Cardinality(s) - 1
    BY <1>b, PickOne
  <1> DEFINE Body(g) == [s \in Parts(S) |-> IF s = {} THEN 1 ELSE f[Pick(s)] * g[s \ {Pick(s)}]]
             op == [a \in Int |-> [b \in Int |-> a * b]]
  <1>1. op \in [Int -> [Int -> Int]] /\ \A a, b \in Int : op[a][b] = a * b
    OBVIOUS
  <1>0. op \in [Int -> [Int -> Int]] /\ 1 \in Int
    BY <1>1
  <1> HIDE DEF op
  <1>2. PICK g \in [Parts(S) -> Int] : \A s \in Parts(S) :
            g[s] = IF s = {} THEN 1 ELSE op[f[Pick(s)]][g[s \ {Pick(s)}]]
    <2>1. \E g \in [Parts(S) -> Int] : IsFold(g, S, f, op, 1)
      BY <1>0, FoldExists
    <2> QED
      BY <2>1 DEF IsFold
  <1>3. ASSUME NEW s \in Parts(S)
        PROVE  g[s] = IF s = {} THEN 1 ELSE f[Pick(s)] * g[s \ {Pick(s)}]
    <2>1. CASE s = {}
      BY <1>2, <2>1
    <2>2. CASE s # {}
      <3>1. f[Pick(s)] \in Int /\ g[s \ {Pick(s)}] \in Int
        BY <1>b, <2>2
      <3> QED
        BY <1>1, <1>2, <2>2, <3>1
    <2> QED
      BY <2>1, <2>2
  <1>4. g = Body(g)
    BY <1>3
  <1> DEFINE product == CHOOSE h : h = Body(h)
  <1>5. FoldFunction(LAMBDA a, b : a * b, 1, f) = product[S]
    BY DEF FoldFunction, FoldFunctionOnSet, MapThenFoldSet, Pick, Parts
  <1>6. product = Body(product)
    BY <1>4
  <1> HIDE DEF product
  <1>7. product[{}] = 1 /\ \A s \in Parts(S) : s # {} => product[s] = f[Pick(s)] * product[s \ {Pick(s)}]
    BY <1>6, PartsHas
  <1>8. \A s \in Parts(S) : product[s] \in Int
    <2> DEFINE T == {s \in Parts(S) : product[s] \in Int}
    <2>1. {} \in T
      BY <1>7, PartsHas
    <2>2. ASSUME NEW s \in Parts(S), s # {}, s \ {Pick(s)} \in T PROVE s \in T
      <3>1. f[Pick(s)] \in Int /\ product[s \ {Pick(s)}] \in Int
        BY <1>b, <2>2
      <3>2. product[s] = f[Pick(s)] * product[s \ {Pick(s)}]
        BY <1>7, <2>2
      <3> QED
        BY <3>1, <3>2
    <2>3. T \in SUBSET Parts(S)
      OBVIOUS
    <2> HIDE DEF T
    <2>4. T = Parts(S)
      BY <2>1, <2>2, <2>3, SubsetInduction
    <2> QED
      BY <2>4 DEF T
  <1>9. product \in [Parts(S) -> Int]
    <2>1. product = [s \in Parts(S) |-> product[s]]
      BY <1>6
    <2> QED
      BY <1>8, <2>1
  <1> QED
    BY <1>5, <1>9, PartsHas

LEMMA SumType ==
    ASSUME NEW S, IsFiniteSet(S), NEW f \in [S -> Int]
    PROVE  SumFunction(f) \in Int
  BY SumUnfolds, PartsHas DEF IsSum

LEMMA SumPositive ==
    ASSUME NEW S, IsFiniteSet(S), S # {}, NEW f \in [S -> Int], \A d \in S : f[d] > 0
    PROVE  SumFunction(f) > 0
  <1>1. PICK g \in [Parts(S) -> Int] : IsSum(g, S, f)
    BY SumUnfolds
  <1> DEFINE T == {s \in Parts(S) : s # {} => g[s] > 0}
  <1>2. {} \in T
    BY PartsHas
  <1>3. ASSUME NEW s \in Parts(S), s # {}, s \ {Pick(s)} \in T PROVE s \in T
    <2>1. Pick(s) \in S /\ s \ {Pick(s)} \in Parts(S)
      BY <1>3, PickOne
    <2>2. f[Pick(s)] > 0 /\ f[Pick(s)] \in Int
      BY <2>1
    <2>a. g[s \ {Pick(s)}] \in Int
      BY <2>1
    <2>b. s \ {Pick(s)} # {} => g[s \ {Pick(s)}] > 0
      BY <1>3
    <2>c. s \ {Pick(s)} = {} => g[s \ {Pick(s)}] = 0
      BY <1>1 DEF IsSum
    <2>3. g[s \ {Pick(s)}] >= 0 /\ g[s \ {Pick(s)}] \in Int
      BY <2>a, <2>b, <2>c
    <2>4. g[s] = f[Pick(s)] + g[s \ {Pick(s)}]
      BY <1>1, <1>3 DEF IsSum
    <2> QED
      BY <2>2, <2>3, <2>4
  <1>4. T \in SUBSET Parts(S)
    OBVIOUS
  <1> HIDE DEF T
  <1>5. T = Parts(S)
    BY <1>2, <1>3, <1>4, SubsetInduction
  <1> QED
    BY <1>1, <1>5, PartsHas DEF T, IsSum

-----------------------------------------------------------------------------
(* One more term of a weighted sum. *)
LEMMA WeighOneMore ==
    ASSUME NEW w \in Nat, NEW m \in Int, NEW sw \in Int, NEW sm \in Int,
           NEW lo \in Int, NEW hi \in Int,
           lo <= m, m <= hi, lo * sw <= sm, sm <= hi * sw
    PROVE  lo * (w + sw) <= w * m + sm /\ w * m + sm <= hi * (w + sw)
  <1>1. w * lo <= w * m /\ w * m <= w * hi
    OBVIOUS
  <1>2. lo * (w + sw) = w * lo + lo * sw /\ hi * (w + sw) = w * hi + hi * sw
    OBVIOUS
  <1>3. /\ w * lo \in Int /\ w * m \in Int /\ w * hi \in Int
        /\ lo * sw \in Int /\ hi * sw \in Int
    OBVIOUS
  <1> QED
    BY <1>1, <1>2, <1>3

(* A weighted sum is between the weights times the least and times the       *)
(* greatest number.                                                          *)
LEMMA SumBetween ==
    ASSUME NEW S, IsFiniteSet(S), NEW w \in [S -> Nat], NEW m \in [S -> Int],
           NEW lo \in Int, NEW hi \in Int, \A d \in S : lo <= m[d] /\ m[d] <= hi
    PROVE  /\ lo * SumFunction(w) <= SumFunction([d \in S |-> w[d] * m[d]])
           /\ SumFunction([d \in S |-> w[d] * m[d]]) <= hi * SumFunction(w)
  <1> DEFINE p == [d \in S |-> w[d] * m[d]]
  <1>0. w \in [S -> Int] /\ p \in [S -> Int] /\ \A d \in S : p[d] = w[d] * m[d]
    <2>1. \A d \in S : w[d] * m[d] \in Int
      OBVIOUS
    <2> QED
      BY <2>1
  <1> HIDE DEF p
  <1>1. PICK g \in [Parts(S) -> Int] : IsSum(g, S, w)
    BY <1>0, SumUnfolds
  <1>2. PICK h \in [Parts(S) -> Int] : IsSum(h, S, p)
    BY <1>0, SumUnfolds
  <1> DEFINE T == {s \in Parts(S) : lo * g[s] <= h[s] /\ h[s] <= hi * g[s]}
  <1>3. {} \in T
    <2>1. lo * 0 = 0 /\ hi * 0 = 0
      OBVIOUS
    <2> QED
      BY <1>1, <1>2, <2>1, PartsHas DEF IsSum
  <1>4. ASSUME NEW s \in Parts(S), s # {}, s \ {Pick(s)} \in T PROVE s \in T
    <2> DEFINE x == Pick(s)
               t == s \ {x}
    <2>1. x \in S /\ t \in Parts(S)
      BY <1>4, PickOne
    <2>2. /\ w[x] \in Nat /\ m[x] \in Int /\ g[t] \in Int /\ h[t] \in Int
          /\ lo <= m[x] /\ m[x] <= hi
      BY <2>1
    <2>3. lo * g[t] <= h[t] /\ h[t] <= hi * g[t]
      BY <1>4
    <2>4. g[s] = w[x] + g[t] /\ h[s] = w[x] * m[x] + h[t]
      BY <1>0, <1>1, <1>2, <1>4, <2>1 DEF IsSum
    <2> HIDE DEF x, t
    <2>5. lo * (w[x] + g[t]) <= w[x] * m[x] + h[t] /\ w[x] * m[x] + h[t] <= hi * (w[x] + g[t])
      BY <2>2, <2>3, WeighOneMore
    <2> QED
      BY <2>4, <2>5
  <1>5. T \in SUBSET Parts(S)
    OBVIOUS
  <1> HIDE DEF T
  <1>6. T = Parts(S)
    BY <1>3, <1>4, <1>5, SubsetInduction
  <1>7. lo * g[S] <= h[S] /\ h[S] <= hi * g[S]
    BY <1>6, PartsHas DEF T
  <1> QED
    BY <1>1, <1>2, <1>7 DEF p, IsSum

(* Finitely many numbers have a least and a greatest one. *)
LEMMA Extremes ==
    ASSUME NEW S, IsFiniteSet(S), S # {}, NEW m \in [S -> Int]
    PROVE  \E a, b \in S : \A d \in S : m[a] <= m[d] /\ m[d] <= m[b]
  <1> DEFINE T == {s \in Parts(S) : s = {} \/ \E a, b \in s : \A d \in s : m[a] <= m[d] /\ m[d] <= m[b]}
  <1>1. {} \in T
    BY PartsHas
  <1>2. ASSUME NEW s \in Parts(S), s # {}, s \ {Pick(s)} \in T PROVE s \in T
    <2> DEFINE x == Pick(s)
               t == s \ {x}
    <2>1. x \in s /\ s \subseteq S
      BY <1>2, PickOne DEF Parts
    <2>2. \A d \in s : m[d] \in Int
      BY <2>1
    <2>3. t = {} \/ \E a, b \in t : \A d \in t : m[a] <= m[d] /\ m[d] <= m[b]
      BY <1>2
    <2>4. s = t \cup {x}
      BY <2>1
    <2> HIDE DEF x, t
    <2>5. CASE t = {}
      BY <2>2, <2>4, <2>5
    <2>6. CASE t # {}
      <3>1. PICK a, b \in t : \A d \in t : m[a] <= m[d] /\ m[d] <= m[b]
        BY <2>3, <2>6
      <3>2. PICK a2 \in s : m[a2] <= m[x] /\ m[a2] <= m[a]
        BY <2>2, <2>4
      <3>3. PICK b2 \in s : m[x] <= m[b2] /\ m[b] <= m[b2]
        BY <2>2, <2>4
      <3>4. \A d \in s : m[a2] <= m[d] /\ m[d] <= m[b2]
        BY <2>2, <2>4, <3>1, <3>2, <3>3
      <3> QED
        BY <3>4
    <2> QED
      BY <2>5, <2>6
  <1>3. T \in SUBSET Parts(S)
    OBVIOUS
  <1> HIDE DEF T
  <1>4. T = Parts(S)
    BY <1>1, <1>2, <1>3, SubsetInduction
  <1> QED
    BY <1>4, PartsHas DEF T

-----------------------------------------------------------------------------
(* The scores of a supervisor with ratings, whatever its weights are. *)
LEMMA RatedType ==
    ASSUME NEW ratings \in RatingSets
    PROVE  /\ Rated(ratings) \subseteq AllDims /\ Rated(ratings) # {}
           /\ IsFiniteSet(Rated(ratings))
  <1>1. Rated(ratings) \subseteq AllDims /\ Rated(ratings) # {}
    BY RatingSetsAssumption DEF Rated
  <1>2. IsFiniteSet(AllDims)
    BY ConstantsAssumption, FS_Interval DEF AllDims
  <1> QED
    BY <1>1, <1>2, FS_Subset

LEMMA OfDimType ==
    ASSUME NEW ratings \in RatingSets, NEW d \in Rated(ratings)
    PROVE  /\ IsFiniteSet(OfDim(ratings, d))
           /\ Cardinality(OfDim(ratings, d)) \in Nat \ {0}
  <1>1. OfDim(ratings, d) \subseteq ratings /\ OfDim(ratings, d) # {}
    BY DEF OfDim, Rated
  <1>2. IsFiniteSet(OfDim(ratings, d))
    BY <1>1, FS_Subset, RatingSetsAssumption
  <1> QED
    BY <1>1, <1>2, FS_CardinalityType, FS_EmptySet

LEMMA ScaleType ==
    ASSUME NEW ratings \in RatingSets
    PROVE  Scale(ratings) \in Int
  <1> DEFINE f == [d \in Rated(ratings) |-> Cardinality(OfDim(ratings, d))]
  <1>1. f \in [Rated(ratings) -> Int]
    BY OfDimType
  <1>2. IsFiniteSet(Rated(ratings))
    BY RatedType
  <1> HIDE DEF f
  <1>3. FoldFunction(LAMBDA a, b : a * b, 1, f) \in Int
    BY <1>1, <1>2, ProductType
  <1> QED
    BY <1>3 DEF Scale, f

LEMMA MeanType ==
    ASSUME NEW ratings \in RatingSets, NEW d \in Rated(ratings)
    PROVE  MeanClamp(ratings, d) \in Int
  <1> DEFINE f == [r \in OfDim(ratings, d) |-> r.value]
  <1>1. f \in [OfDim(ratings, d) -> Int]
    BY RatingSetsAssumption DEF OfDim
  <1> HIDE DEF f
  <1>2. SumFunction(f) \in Int
    BY <1>1, OfDimType, SumType
  <1>3. Scale(ratings) \div Cardinality(OfDim(ratings, d)) \in Int
    BY ScaleType, OfDimType
  <1>4. \A a, b \in Int : a * b \in Int
    OBVIOUS
  <1>5. (IF SumFunction(f) > 0 THEN SumFunction(f) ELSE 0) \in Int
    BY <1>2
  <1>6. MeanClamp(ratings, d)
        = (IF SumFunction(f) > 0 THEN SumFunction(f) ELSE 0)
          * (Scale(ratings) \div Cardinality(OfDim(ratings, d)))
    BY DEF MeanClamp, f
  <1> QED
    BY <1>3, <1>4, <1>5, <1>6

(* A weighted mean of the rated dimensions is between two of their means. *)
LEMMA MeansBetween ==
    ASSUME NEW ratings \in RatingSets, NEW w, \A d \in Rated(ratings) : w[d] \in Nat
    PROVE  LET mean == WeightedMean(ratings, w)
           IN  \E a, b \in Rated(ratings) :
                   /\ MeanClamp(ratings, a) * mean.den <= mean.num
                   /\ MeanClamp(ratings, b) * mean.den >= mean.num
  <1> DEFINE S == Rated(ratings)
             v == [d \in S |-> w[d]]
             m == [d \in S |-> MeanClamp(ratings, d)]
             p == [d \in S |-> v[d] * m[d]]
  <1>1. v \in [S -> Nat] /\ m \in [S -> Int]
    BY MeanType
  <1>2. IsFiniteSet(S) /\ S # {}
    BY RatedType
  <1>3. p = [d \in S |-> w[d] * MeanClamp(ratings, d)]
    OBVIOUS
  <1>4. /\ WeightedMean(ratings, w).den = SumFunction(v)
        /\ WeightedMean(ratings, w).num = SumFunction(p)
    BY <1>3 DEF WeightedMean
  <1>5. \A d \in S : m[d] = MeanClamp(ratings, d)
    OBVIOUS
  <1> HIDE DEF S, v, m
  <1>6. PICK a, b \in S : \A d \in S : m[a] <= m[d] /\ m[d] <= m[b]
    BY <1>1, <1>2, Extremes
  <1>7. m[a] \in Int /\ m[b] \in Int
    BY <1>1
  <1>8. m[a] * SumFunction(v) <= SumFunction(p) /\ SumFunction(p) <= m[b] * SumFunction(v)
    BY <1>1, <1>2, <1>6, <1>7, SumBetween
  <1>9. SumFunction(v) \in Int /\ SumFunction(p) \in Int
    <2>1. v \in [S -> Int] /\ p \in [S -> Int]
      <3>1. \A i, j \in Int : i * j \in Int
        OBVIOUS
      <3>2. v \in [S -> Int]
        BY <1>1
      <3> QED
        BY <1>1, <3>1, <3>2
    <2> HIDE DEF p
    <2> QED
      BY <1>2, <2>1, SumType
  <1> HIDE DEF p
  <1>10. m[b] * SumFunction(v) >= SumFunction(p)
    <2>1. m[b] * SumFunction(v) \in Int
      BY <1>7, <1>9
    <2> QED
      BY <1>8, <1>9, <2>1
  <1> QED
    BY <1>4, <1>5, <1>6, <1>8, <1>10 DEF S

(* M7: a rated supervisor has a composite and it is a mean of its means, for  *)
(* weights that are not negative.                                             *)
LEMMA CompositeBetween ==
    ASSUME NEW ratings \in RatingSets, NEW w, \A d \in Rated(ratings) : w[d] \in Nat
    PROVE  LET score == Composite(ratings, w)
           IN  /\ score.den > 0
               /\ \E a, b \in Rated(ratings) :
                      /\ MeanClamp(ratings, a) * score.den <= score.num
                      /\ MeanClamp(ratings, b) * score.den >= score.num
  <1> DEFINE one == [d \in Rated(ratings) |-> 1]
  <1>1. CASE WeightedMean(ratings, w).den > 0
    <2>1. Composite(ratings, w) = WeightedMean(ratings, w)
      BY <1>1 DEF Composite
    <2> QED
      BY <1>1, <2>1, MeansBetween
  <1>2. CASE ~(WeightedMean(ratings, w).den > 0)
    <2>1. Composite(ratings, w) = WeightedMean(ratings, one)
      BY <1>2 DEF Composite
    <2>2. \A d \in Rated(ratings) : one[d] \in Nat /\ one[d] > 0
      OBVIOUS
    <2>3. one \in [Rated(ratings) -> Int]
      OBVIOUS
    <2>4. WeightedMean(ratings, one).den = SumFunction(one)
      <3>1. one = [d \in Rated(ratings) |-> one[d]]
        OBVIOUS
      <3> HIDE DEF one
      <3> QED
        BY <3>1 DEF WeightedMean
    <2> HIDE DEF one
    <2>5. SumFunction(one) > 0
      BY <2>2, <2>3, RatedType, SumPositive
    <2> QED
      BY <2>1, <2>2, <2>4, <2>5, MeansBetween
  <1> QED
    BY <1>1, <1>2

(* The histories leave out nothing of DisciplineVote: its theorems hold.      *)
LEMMA ApartIsVoting ==
    /\ ApartInit => Init
    /\ [ApartNext]_<<vars, disturbed>> => [Next]_vars
  BY DEF ApartInit, ApartNext, vars

(* The statements of all calls find their local variables, as they do in      *)
(* DisciplineVote.                                                            *)
THEOREM ApartTypeCorrect == ApartSpec => []TypeOK
  <1>1. Init => TypeOK
    BY InitType
  <1>2. TypeOK /\ [Next]_vars => TypeOK'
    BY TypeStep
  <1> QED
    BY <1>1, <1>2, ApartIsVoting, PTL DEF ApartSpec

(* M7: whatever calls race and wherever they are cut, a rated supervisor has  *)
(* a composite, and it is between its lowest and its highest public mean.     *)
THEOREM CompositesAreMeans == ApartSpec => []CompositeIsAMean
  <1>1. TypeOK => CompositeIsAMean
    <2> SUFFICES ASSUME TypeOK, NEW ratings \in RatingSets
                 PROVE  LET score == Composite(ratings, weight)
                            means == {MeanClamp(ratings, d) : d \in Rated(ratings)}
                        IN  /\ score.den > 0
                            /\ \E m \in means : m * score.den =< score.num
                            /\ \E m \in means : m * score.den >= score.num
      BY DEF CompositeIsAMean
    <2>1. \A d \in Rated(ratings) : weight[d] \in Nat
      <3>1. weight \in [AllDims -> 0 .. Total] /\ Total \in Nat
        BY ConstantsAssumption DEF TypeOK
      <3>2. Rated(ratings) \subseteq AllDims
        BY RatedType
      <3> QED
        BY <3>1, <3>2
    <2>2. /\ Composite(ratings, weight).den > 0
          /\ \E a, b \in Rated(ratings) :
                 /\ MeanClamp(ratings, a) * Composite(ratings, weight).den
                        <= Composite(ratings, weight).num
                 /\ MeanClamp(ratings, b) * Composite(ratings, weight).den
                        >= Composite(ratings, weight).num
      BY <2>1, CompositeBetween
    <2> QED
      BY <2>2
  <1> QED
    BY <1>1, ApartTypeCorrect, PTL

-----------------------------------------------------------------------------
(***************************************************************************)
(* The inductive invariant of undisturbed applications.  That the weights  *)
(* of a discipline come from one vote whenever nothing is under way needs  *)
(* to be known of the middle of apply_vote: at most one call applies a     *)
(* vote, the dimensions it has written come from its vote and the others   *)
(* all from the one before; the rows of a dimension end at its live weight *)
(* but for the dimension whose row is about to be inserted, and what a     *)
(* call has read of a weight is still the weight.                          *)
(***************************************************************************)
Alone == \A w, x \in Workers : Applying(w) /\ Applying(x) => w = x

Written(w, d) ==
    \/ call[w].pc = "mark"
    \/ call[w].pc = "log" /\ d <= call[w].dim
    \/ call[w].pc \in {"read", "upsert"} /\ d < call[w].dim

WrittenFromVote ==
    \A w \in Workers : Applying(w) =>
        \A d \in AllDims : Written(w, d) => source[d] = call[w].vote

RestFromOne ==
    \A d, e \in AllDims :
        (\A w \in Workers : Applying(w) => (Written(w, d) <=> Written(w, e)))
            => source[d] = source[e]

(* The weight of d after its first i rows. *)
After(d, i) == IF i = 0 THEN EqualWeight ELSE history[d][i].new
Latest(d) == After(d, Len(history[d]))

RowsChain ==
    \A d \in AllDims : \A i \in 1 .. Len(history[d]) : history[d][i].old = After(d, i - 1)

RowsEndLive ==
    \A d \in AllDims :
        (\A w \in Workers : call[w].pc = "log" => call[w].dim # d) => weight[d] = Latest(d)

ReadIsLive ==
    \A w \in Workers : call[w].pc = "upsert" => call[w].old = weight[call[w].dim]

LogIsNext ==
    \A w \in Workers : call[w].pc = "log" =>
        /\ call[w].old = Latest(call[w].dim)
        /\ weight[call[w].dim] = Renormalize(call[w].vote)[call[w].dim]

Undisturbed ==
    /\ Alone
    /\ WrittenFromVote
    /\ RestFromOne
    /\ RowsChain
    /\ RowsEndLive
    /\ ReadIsLive
    /\ LogIsNext

ApartInv == disturbed \in BOOLEAN /\ (disturbed \/ Undisturbed)

(* What the statements of apply_vote have in their local variables. *)
LEMMA ApplyingCalls ==
    ASSUME TypeOK, NEW w \in Workers
    PROVE  /\ Applying(w) => call[w].vote \in Votes
           /\ call[w].pc \in {"read", "upsert", "log"} => call[w].dim \in AllDims
           /\ call[w].pc = "log" =>
                  call[w] = [pc |-> "log", vote |-> call[w].vote, dim |-> call[w].dim,
                             old |-> call[w].old]
  <1>1. call[w] \in Calls
    BY DEF TypeOK
  <1>2. CASE call[w].pc = "mark"
    BY <1>1, <1>2, CallShapes
  <1>3. CASE call[w].pc = "read"
    BY <1>1, <1>3, CallShapes
  <1>4. CASE call[w].pc \in {"upsert", "log"}
    BY <1>1, <1>4, CallShapes
  <1>5. CASE ~Applying(w)
    BY <1>5 DEF Applying
  <1> QED
    BY <1>2, <1>3, <1>4, <1>5 DEF Applying

(* A step outside of apply_vote. *)
LEMMA OutsideStep ==
    ASSUME Undisturbed, Alone', UNCHANGED <<weight, source, history>>,
           \A w \in Workers : call'[w] = call[w] \/ ~(Applying(w) \/ Applying(w)')
    PROVE  Undisturbed'
  <1>1. \A w \in Workers : Applying(w)' <=> Applying(w)
    BY DEF Applying
  <1>2. \A w \in Workers : Applying(w) => call'[w] = call[w]
    BY <1>1
  <1>3. \A w \in Workers : Applying(w) => \A d : Written(w, d)' <=> Written(w, d)
    BY <1>2 DEF Written
  <1>4. \A w \in Workers : \A pc \in {"upsert", "log"} :
            call'[w].pc = pc => call[w].pc = pc /\ call'[w] = call[w]
    BY <1>1, <1>2 DEF Applying
  <1>5. \A w \in Workers : call[w].pc = "log" => call'[w] = call[w]
    BY <1>2 DEF Applying
  <1>6. \A d, i : After(d, i)' = After(d, i)
    BY DEF After
  <1>7. \A d : Latest(d)' = Latest(d)
    BY <1>6 DEF Latest
  <1>8. WrittenFromVote'
    BY <1>1, <1>2, <1>3 DEF Undisturbed, WrittenFromVote
  <1>9. RestFromOne'
    BY <1>1, <1>3 DEF Undisturbed, RestFromOne
  <1>10. RowsChain'
    BY <1>6 DEF Undisturbed, RowsChain
  <1>11. RowsEndLive'
    BY <1>4, <1>5, <1>7 DEF Undisturbed, RowsEndLive
  <1>12. ReadIsLive'
    BY <1>4 DEF Undisturbed, ReadIsLive
  <1>13. LogIsNext'
    BY <1>4, <1>7 DEF Undisturbed, LogIsNext
  <1> QED
    BY <1>8, <1>9, <1>10, <1>11, <1>12, <1>13 DEF Undisturbed

(* The first statement of apply_vote comes up: nothing else applies a vote. *)
LEMMA StartStep ==
    ASSUME TypeOK, Undisturbed, Alone', UNCHANGED <<weight, source, history>>,
           NEW w \in Workers, NEW v, call[w].pc = "tally",
           call' = [call EXCEPT ![w] = [pc |-> "read", vote |-> v, dim |-> 1]]
    PROVE  Undisturbed'
  <1>1. /\ call'[w].pc = "read" /\ call'[w].dim = 1 /\ call'[w].vote = v
        /\ \A x \in Workers \ {w} : call'[x] = call[x]
    BY DEF TypeOK
  <1>2. Applying(w)' /\ ~Applying(w)
    BY <1>1 DEF Applying
  <1>3. \A x \in Workers : ~Applying(x)
    <2>1. ASSUME NEW x \in Workers, Applying(x) PROVE FALSE
      <3>1. x # w
        BY <1>2, <2>1
      <3>2. Applying(x)'
        BY <1>1, <2>1, <3>1 DEF Applying
      <3> QED
        BY <1>2, <3>1, <3>2 DEF Alone
    <2> QED
      BY <2>1
  <1>4. \A x \in Workers : Applying(x)' => x = w
    BY <1>2 DEF Alone
  <1>5. \A d \in AllDims : ~Written(w, d)'
    BY <1>1 DEF Written, AllDims
  <1>6. \A d, e \in AllDims : source[d] = source[e]
    BY <1>3 DEF Undisturbed, RestFromOne
  <1>7. \A x \in Workers : call[x].pc # "log" /\ call'[x].pc # "log" /\ call'[x].pc # "upsert"
    <2>1. \A x \in Workers : call[x].pc # "log" /\ call[x].pc # "upsert"
      BY <1>3 DEF Applying
    <2> QED
      BY <1>1, <2>1
  <1>8. \A d, i : After(d, i)' = After(d, i)
    BY DEF After
  <1>9. \A d : Latest(d)' = Latest(d)
    BY <1>8 DEF Latest
  <1>10. WrittenFromVote'
    BY <1>4, <1>5 DEF WrittenFromVote
  <1>11. RestFromOne'
    BY <1>6 DEF RestFromOne
  <1>12. RowsChain'
    BY <1>8 DEF Undisturbed, RowsChain
  <1>13. RowsEndLive'
    BY <1>7, <1>9 DEF Undisturbed, RowsEndLive
  <1>14. ReadIsLive'
    BY <1>7 DEF ReadIsLive
  <1>15. LogIsNext'
    BY <1>7 DEF LogIsNext
  <1> QED
    BY <1>10, <1>11, <1>12, <1>13, <1>14, <1>15 DEF Undisturbed

(* A step inside of apply_vote is of the only call in it. *)
LEMMA OneApplies ==
    ASSUME TypeOK, Undisturbed, NEW w \in Workers, Applying(w), NEW next,
           call' = [call EXCEPT ![w] = next]
    PROVE  /\ call'[w] = next
           /\ \A x \in Workers \ {w} : call'[x] = call[x]
           /\ \A x \in Workers \ {w} : ~Applying(x) /\ ~Applying(x)'
           /\ \A x \in Workers \ {w} : call[x].pc \notin {"upsert", "log"}
                                       /\ call'[x].pc \notin {"upsert", "log"}
  <1>1. call'[w] = next /\ \A x \in Workers \ {w} : call'[x] = call[x]
    BY DEF TypeOK
  <1>2. \A x \in Workers \ {w} : ~Applying(x)
    BY DEF Undisturbed, Alone
  <1> QED
    BY <1>1, <1>2 DEF Applying

LEMMA ReadStep ==
    ASSUME TypeOK, Undisturbed, Alone', NEW w \in Workers, ReadOldWeight(w)
    PROVE  Undisturbed'
  <1> DEFINE c == call[w]
             next == [pc |-> "upsert", vote |-> c.vote, dim |-> c.dim, old |-> weight[c.dim]]
  <1>1. /\ call' = [call EXCEPT ![w] = next] /\ c.pc = "read"
        /\ UNCHANGED <<weight, source, history>>
    BY DEF ReadOldWeight, Continue, weights
  <1>2. Applying(w)
    BY <1>1 DEF Applying
  <1>3. /\ call'[w] = next
        /\ \A x \in Workers \ {w} : ~Applying(x) /\ ~Applying(x)'
        /\ \A x \in Workers \ {w} : call[x].pc \notin {"upsert", "log"}
                                    /\ call'[x].pc \notin {"upsert", "log"}
    BY <1>1, <1>2, OneApplies
  <1>4. Applying(w)' /\ \A d : Written(w, d)' <=> Written(w, d)
    BY <1>1, <1>3 DEF Applying, Written
  <1>5. \A x \in Workers : call[x].pc # "log" /\ call'[x].pc # "log"
    BY <1>1, <1>3
  <1>6. \A d, i : After(d, i)' = After(d, i)
    BY <1>1 DEF After
  <1>7. \A d : Latest(d)' = Latest(d)
    BY <1>1, <1>6 DEF Latest
  <1>8. call'[w].vote = call[w].vote
    BY <1>3
  <1>9. WrittenFromVote'
    BY <1>1, <1>2, <1>3, <1>4, <1>8 DEF Undisturbed, WrittenFromVote
  <1>10. RestFromOne'
    <2> SUFFICES ASSUME NEW d \in AllDims, NEW e \in AllDims,
                        \A x \in Workers : Applying(x)' => (Written(x, d)' <=> Written(x, e)')
                 PROVE  source[d] = source[e]
      BY <1>1 DEF RestFromOne
    <2>1. Written(w, d) <=> Written(w, e)
      BY <1>4
    <2>2. \A x \in Workers : Applying(x) => (Written(x, d) <=> Written(x, e))
      BY <1>3, <2>1
    <2> QED
      BY <2>2 DEF Undisturbed, RestFromOne
  <1>11. RowsChain'
    BY <1>1, <1>6 DEF Undisturbed, RowsChain
  <1>12. RowsEndLive'
    BY <1>1, <1>5, <1>7 DEF Undisturbed, RowsEndLive
  <1>13. ReadIsLive'
    BY <1>1, <1>3 DEF ReadIsLive
  <1>14. LogIsNext'
    BY <1>5 DEF LogIsNext
  <1> QED
    BY <1>9, <1>10, <1>11, <1>12, <1>13, <1>14 DEF Undisturbed

LEMMA UpsertStep ==
    ASSUME TypeOK, Undisturbed, Alone', NEW w \in Workers, UpsertWeight(w)
    PROVE  Undisturbed'
  <1> DEFINE c == call[w]
             next == [c EXCEPT !.pc = "log"]
  <1>1. /\ call' = [call EXCEPT ![w] = next] /\ c.pc = "upsert"
        /\ weight' = [weight EXCEPT ![c.dim] = Renormalize(c.vote)[c.dim]]
        /\ source' = [source EXCEPT ![c.dim] = c.vote]
        /\ history' = history
    BY DEF UpsertWeight, Continue
  <1>2. Applying(w) /\ c.dim \in AllDims
    BY <1>1, ApplyingCalls DEF Applying
  <1>a. c \in [pc : {"upsert", "log"}, vote : Votes, dim : AllDims, old : 0 .. Total]
    BY <1>1, CallShapes DEF TypeOK
  <1>3. /\ call'[w] = next
        /\ \A x \in Workers \ {w} : ~Applying(x) /\ ~Applying(x)'
        /\ \A x \in Workers \ {w} : call[x].pc \notin {"upsert", "log"}
                                    /\ call'[x].pc \notin {"upsert", "log"}
    BY <1>1, <1>2, OneApplies
  <1>b. next.pc = "log" /\ next.vote = c.vote /\ next.dim = c.dim /\ next.old = c.old
    BY <1>a
  <1>c. \A d \in AllDims : d \in Int
    BY DEF AllDims
  <1>d. /\ \A d \in AllDims : d # c.dim => weight'[d] = weight[d] /\ source'[d] = source[d]
        /\ weight'[c.dim] = Renormalize(c.vote)[c.dim]
        /\ source'[c.dim] = c.vote
    BY <1>1, <1>2 DEF TypeOK
  <1>4. /\ Applying(w)'
        /\ \A d \in AllDims : Written(w, d)' <=> (Written(w, d) \/ d = c.dim)
        /\ ~Written(w, c.dim)
    <2>1. Applying(w)'
      BY <1>3, <1>b DEF Applying
    <2>2. \A d : Written(w, d) <=> d < c.dim
      BY <1>1 DEF Written
    <2>3. \A d : Written(w, d)' <=> d <= c.dim
      BY <1>3, <1>b DEF Written
    <2> QED
      BY <1>2, <1>c, <2>1, <2>2, <2>3
  <1>6. \A d, i : After(d, i)' = After(d, i)
    BY <1>1 DEF After
  <1>7. \A d : Latest(d)' = Latest(d)
    BY <1>1, <1>6 DEF Latest
  <1>9. WrittenFromVote'
    BY <1>2, <1>3, <1>4, <1>b, <1>d DEF Undisturbed, WrittenFromVote
  <1>10. RestFromOne'
    <2> SUFFICES ASSUME NEW d \in AllDims, NEW e \in AllDims,
                        \A x \in Workers : Applying(x)' => (Written(x, d)' <=> Written(x, e)')
                 PROVE  source'[d] = source'[e]
      BY DEF RestFromOne
    <2>1. Written(w, d)' <=> Written(w, e)'
      BY <1>4
    <2>2. CASE Written(w, d)'
      BY <1>3, <1>4, <1>9, <2>1, <2>2 DEF WrittenFromVote
    <2>3. CASE ~Written(w, d)'
      <3>1. /\ ~Written(w, d) /\ ~Written(w, e) /\ d # c.dim /\ e # c.dim
        BY <1>4, <2>1, <2>3
      <3>2. \A x \in Workers : Applying(x) => (Written(x, d) <=> Written(x, e))
        BY <1>3, <3>1
      <3>3. source[d] = source[e]
        BY <3>2 DEF Undisturbed, RestFromOne
      <3> QED
        BY <1>d, <3>1, <3>3
    <2> QED
      BY <2>2, <2>3
  <1>11. RowsChain'
    BY <1>1, <1>6 DEF Undisturbed, RowsChain
  <1>e. \A x \in Workers : call[x].pc # "log"
    BY <1>1, <1>3
  <1>f. \A d \in AllDims : weight[d] = Latest(d)
    BY <1>e DEF Undisturbed, RowsEndLive
  <1>12. RowsEndLive'
    <2> SUFFICES ASSUME NEW d \in AllDims,
                        \A x \in Workers : call'[x].pc = "log" => call'[x].dim # d
                 PROVE  weight'[d] = Latest(d)'
      BY DEF RowsEndLive
    <2>1. d # c.dim
      BY <1>3, <1>b
    <2> QED
      BY <1>7, <1>d, <1>f, <2>1
  <1>13. ReadIsLive'
    BY <1>3, <1>b DEF ReadIsLive
  <1>14. LogIsNext'
    <2>1. c.old = weight[c.dim]
      BY <1>1 DEF Undisturbed, ReadIsLive
    <2>2. c.old = Latest(c.dim)
      BY <1>2, <1>f, <2>1
    <2>3. \A x \in Workers : call'[x].pc = "log" => x = w
      BY <1>3
    <2>4. call'[w].old = Latest(c.dim) /\ call'[w].dim = c.dim /\ call'[w].vote = c.vote
      BY <1>3, <1>b, <2>2
    <2>5. (call[w].old = Latest(call[w].dim))'
      BY <1>1, <2>4 DEF Latest, After
    <2>6. (weight[call[w].dim] = Renormalize(call[w].vote)[call[w].dim])'
      BY <1>d, <2>4
    <2> QED
      BY <2>3, <2>5, <2>6 DEF LogIsNext
  <1> QED
    BY <1>9, <1>10, <1>11, <1>12, <1>13, <1>14 DEF Undisturbed

LEMMA LogStep ==
    ASSUME TypeOK, Undisturbed, Alone', NEW w \in Workers, InsertHistory(w)
    PROVE  Undisturbed'
  <1> DEFINE c == call[w]
             entry == [old |-> c.old, new |-> Renormalize(c.vote)[c.dim], vote |-> c.vote]
             next == IF c.dim = Dims THEN Call("mark", c.vote)
                                     ELSE [pc |-> "read", vote |-> c.vote, dim |-> c.dim + 1]
  <1>1. /\ call' = [call EXCEPT ![w] = next] /\ c.pc = "log"
        /\ history' = [history EXCEPT ![c.dim] = Append(@, entry)]
        /\ weight' = weight /\ source' = source
    BY DEF InsertHistory, Continue, weights
  <1>2. Applying(w) /\ c.dim \in AllDims
    BY <1>1, ApplyingCalls DEF Applying
  <1>3. /\ call'[w] = next
        /\ \A x \in Workers \ {w} : ~Applying(x) /\ ~Applying(x)'
        /\ \A x \in Workers \ {w} : call[x].pc \notin {"upsert", "log"}
                                    /\ call'[x].pc \notin {"upsert", "log"}
    BY <1>1, <1>2, OneApplies
  <1>4. /\ next.pc \in {"mark", "read"} /\ next.vote = c.vote
        /\ next.pc = "mark" => c.dim = Dims
        /\ next.pc = "read" => next.dim = c.dim + 1
    BY DEF Call
  <1>5. Applying(w)'
    BY <1>3, <1>4 DEF Applying
  <1>6. ASSUME NEW d \in AllDims PROVE Written(w, d)' <=> Written(w, d)
    <2>1. d \in Int /\ c.dim \in Int /\ Dims \in Int /\ d <= Dims
      BY <1>2, ConstantsAssumption DEF AllDims
    <2>2. Written(w, d) <=> d <= c.dim
      BY <1>1 DEF Written
    <2>3. CASE next.pc = "mark"
      <3>1. Written(w, d)'
        BY <1>3, <2>3 DEF Written
      <3> QED
        BY <1>4, <2>1, <2>2, <2>3, <3>1
    <2>4. CASE next.pc = "read"
      <3>1. Written(w, d)' <=> d < c.dim + 1
        BY <1>3, <1>4, <2>4 DEF Written
      <3> QED
        BY <2>1, <2>2, <3>1
    <2> QED
      BY <1>4, <2>3, <2>4
  <1>7. \A x \in Workers : call'[x].pc \notin {"upsert", "log"}
    BY <1>3, <1>4
  <1>8. c.old = Latest(c.dim) /\ weight[c.dim] = Renormalize(c.vote)[c.dim]
    BY <1>1 DEF Undisturbed, LogIsNext
  <1>9. WrittenFromVote'
    BY <1>1, <1>2, <1>3, <1>4, <1>6 DEF Undisturbed, WrittenFromVote
  <1>10. RestFromOne'
    <2> SUFFICES ASSUME NEW d \in AllDims, NEW e \in AllDims,
                        \A x \in Workers : Applying(x)' => (Written(x, d)' <=> Written(x, e)')
                 PROVE  source[d] = source[e]
      BY <1>1 DEF RestFromOne
    <2>1. Written(w, d) <=> Written(w, e)
      BY <1>5, <1>6
    <2>2. \A x \in Workers : Applying(x) => (Written(x, d) <=> Written(x, e))
      BY <1>3, <2>1
    <2> QED
      BY <2>2 DEF Undisturbed, RestFromOne
  <1>a. \A d \in AllDims : /\ Len(history[d]) \in Nat
                           /\ d # c.dim => history'[d] = history[d]
                           /\ d = c.dim => history'[d] = Append(history[d], entry)
    <2> SUFFICES ASSUME NEW d \in AllDims
                 PROVE  /\ Len(history[d]) \in Nat
                        /\ d # c.dim => history'[d] = history[d]
                        /\ d = c.dim => history'[d] = Append(history[d], entry)
      OBVIOUS
    <2> HIDE DEF c, entry
    <2>1. history \in [AllDims -> Seq([old : 0 .. Total, new : 0 .. Total, vote : Votes])]
      BY DEF TypeOK
    <2>2. Len(history[d]) \in Nat
      BY <2>1
    <2> QED
      BY <1>1, <2>1, <2>2
  <1>b. ASSUME NEW d \in AllDims, d # c.dim
        PROVE  /\ \A i : After(d, i)' = After(d, i)
               /\ Latest(d)' = Latest(d)
    BY <1>a, <1>b DEF After, Latest
  <1>c. ASSUME NEW d \in AllDims, d = c.dim
        PROVE  /\ Len(history'[d]) = Len(history[d]) + 1
               /\ \A i \in 1 .. Len(history[d]) : history'[d][i] = history[d][i]
               /\ history'[d][Len(history[d]) + 1] = entry
    <2>1. PICK R : history[d] \in Seq(R)
      BY DEF TypeOK
    <2>2. history'[d] = Append(history[d], entry)
      BY <1>a, <1>c
    <2> HIDE DEF entry
    <2> QED
      BY <2>1, <2>2
  <1> HIDE DEF entry
  <1>d. entry.old = Latest(c.dim) /\ entry.new = weight[c.dim]
    BY <1>8 DEF entry
  <1> HIDE DEF c, next
  <1>11. RowsChain'
    <2> SUFFICES ASSUME NEW d \in AllDims, NEW i \in 1 .. Len(history'[d])
                 PROVE  history'[d][i].old = After(d, i - 1)'
      BY DEF RowsChain
    <2>1. CASE d # c.dim
      <3>1. history'[d] = history[d]
        BY <1>a, <2>1
      <3>2. history[d][i].old = After(d, i - 1)
        BY <3>1 DEF Undisturbed, RowsChain
      <3> QED
        BY <1>b, <2>1, <3>1, <3>2
    <2>2. CASE d = c.dim
      <3> DEFINE n == Len(history[d])
      <3>1. n \in Nat /\ i \in 1 .. n + 1
        BY <1>a, <1>c, <2>2
      <3>2. ASSUME NEW j \in 0 .. n PROVE After(d, j)' = After(d, j)
        <4>1. CASE j = 0
          BY <4>1 DEF After
        <4>2. CASE j # 0
          <5>1. j \in 1 .. n
            BY <3>1, <4>2
          <5>2. history'[d][j] = history[d][j]
            BY <1>c, <2>2, <5>1
          <5> QED
            BY <4>2, <5>2 DEF After
        <4> QED
          BY <4>1, <4>2
      <3>3. CASE i \in 1 .. n
        <4>1. history'[d][i] = history[d][i]
          BY <1>c, <2>2, <3>3
        <4>2. history[d][i].old = After(d, i - 1)
          BY <3>3 DEF Undisturbed, RowsChain
        <4>3. i - 1 \in 0 .. n
          BY <3>1, <3>3
        <4> QED
          BY <3>2, <4>1, <4>2, <4>3
      <3>4. CASE i = n + 1
        <4>1. history'[d][i] = entry
          BY <1>c, <2>2, <3>4
        <4>2. i - 1 = n /\ n \in 0 .. n
          BY <3>1, <3>4
        <4>3. After(d, i - 1)' = After(d, n)
          BY <3>2, <4>2
        <4>4. entry.old = After(d, n)
          BY <1>d, <2>2 DEF Latest
        <4> QED
          BY <4>1, <4>3, <4>4
      <3> QED
        BY <3>1, <3>3, <3>4
    <2> QED
      BY <2>1, <2>2
  <1>12. RowsEndLive'
    <2> SUFFICES ASSUME NEW d \in AllDims PROVE weight[d] = Latest(d)'
      BY <1>1 DEF RowsEndLive
    <2>1. CASE d # c.dim
      <3>1. \A x \in Workers : call[x].pc = "log" => call[x].dim # d
        BY <1>3, <2>1 DEF c
      <3>2. weight[d] = Latest(d)
        BY <3>1 DEF Undisturbed, RowsEndLive
      <3> QED
        BY <1>b, <2>1, <3>2
    <2>2. CASE d = c.dim
      <3>1. Len(history'[d]) # 0 /\ history'[d][Len(history'[d])] = entry
        BY <1>a, <1>c, <2>2
      <3>2. Latest(d)' = entry.new
        BY <3>1 DEF Latest, After
      <3> QED
        BY <1>d, <2>2, <3>2
    <2> QED
      BY <2>1, <2>2
  <1>13. ReadIsLive'
    BY <1>7 DEF ReadIsLive
  <1>14. LogIsNext'
    BY <1>7 DEF LogIsNext
  <1> QED
    BY <1>9, <1>10, <1>11, <1>12, <1>13, <1>14 DEF Undisturbed

(* apply_vote is over, whether the vote could be marked or not. *)
LEMMA LeaveStep ==
    ASSUME TypeOK, Undisturbed, Alone', UNCHANGED <<weight, source, history>>,
           NEW w \in Workers, call[w].pc = "mark", Return(w)
    PROVE  Undisturbed'
  <1>1. call' = [call EXCEPT ![w] = Idle] /\ Applying(w)
    BY DEF Return, Continue, Applying
  <1>2. /\ call'[w] = Idle
        /\ \A x \in Workers \ {w} : ~Applying(x) /\ ~Applying(x)'
        /\ \A x \in Workers \ {w} : call[x].pc \notin {"upsert", "log"}
                                    /\ call'[x].pc \notin {"upsert", "log"}
    BY <1>1, OneApplies
  <1>3. ~Applying(w)'
    BY <1>2 DEF Applying, Idle
  <1>4. \A d, e \in AllDims : source[d] = source[e]
    BY <1>1 DEF Undisturbed, WrittenFromVote, Written
  <1>5. \A x \in Workers : call[x].pc \notin {"upsert", "log"} /\ call'[x].pc \notin {"upsert", "log"}
    BY <1>2 DEF Idle
  <1>6. \A d, i : After(d, i)' = After(d, i)
    BY DEF After
  <1>7. \A d : Latest(d)' = Latest(d)
    BY <1>6 DEF Latest
  <1>8. WrittenFromVote'
    BY <1>2, <1>3 DEF WrittenFromVote
  <1>9. RestFromOne'
    BY <1>4 DEF RestFromOne
  <1>10. RowsChain'
    BY <1>6 DEF Undisturbed, RowsChain
  <1>11. RowsEndLive'
    BY <1>5, <1>7 DEF Undisturbed, RowsEndLive
  <1>12. ReadIsLive'
    BY <1>5 DEF ReadIsLive
  <1>13. LogIsNext'
    BY <1>5 DEF LogIsNext
  <1> QED
    BY <1>8, <1>9, <1>10, <1>11, <1>12, <1>13 DEF Undisturbed

LEMMA UndisturbedStep ==
    ASSUME TypeOK, Undisturbed, [Next]_vars, ~Overlap', ~Cut
    PROVE  Undisturbed'
  <1>0. Alone'
    BY DEF Overlap, Alone
  <1> USE DEF weights, polls, Continue, Return
  <1>1. ASSUME NEW w \in Workers, ~Applying(w), NEW next,
               call' = [call EXCEPT ![w] = next],
               next.pc \notin {"read", "upsert", "log", "mark"},
               UNCHANGED <<weight, source, history>>
        PROVE  Undisturbed'
    <2>1. call'[w] = next /\ \A x \in Workers \ {w} : call'[x] = call[x]
      BY <1>1 DEF TypeOK
    <2>2. ~Applying(w)'
      BY <1>1, <2>1 DEF Applying
    <2>3. \A x \in Workers : call'[x] = call[x] \/ ~(Applying(x) \/ Applying(x)')
      BY <1>1, <2>1, <2>2
    <2> QED
      BY <1>0, <1>1, <2>3, OutsideStep
  <1>2. ASSUME NEW w \in Workers, ~Applying(w), call' = [call EXCEPT ![w] = Idle],
               UNCHANGED <<weight, source, history>>
        PROVE  Undisturbed'
    <2>1. Idle.pc \notin {"read", "upsert", "log", "mark"}
      BY DEF Idle
    <2> QED
      BY <1>1, <1>2, <2>1
  <1>3. ASSUME UNCHANGED <<weight, source, history, call>> PROVE Undisturbed'
    <2>1. \A w \in Workers : call'[w] = call[w]
      BY <1>3
    <2> QED
      BY <1>0, <1>3, <2>1, OutsideStep
  <1>4. ASSUME NEW w \in Workers, NEW v \in Votes, Propose(w, v) PROVE Undisturbed'
    <2>1. ~Applying(w) /\ Call("cooldown", v).pc = "cooldown"
      BY <1>4 DEF Propose, Applying, Call
    <2> QED
      BY <1>1, <1>4, <2>1 DEF Propose
  <1>5. ASSUME NEW w \in Workers, CheckCooldown(w) PROVE Undisturbed'
    <2>1. ~Applying(w) /\ Call("propose", call[w].vote).pc = "propose"
      BY <1>5 DEF CheckCooldown, Applying, Call
    <2> QED
      BY <1>1, <1>2, <1>5, <2>1 DEF CheckCooldown
  <1>6. ASSUME NEW w \in Workers, InsertVote(w) PROVE Undisturbed'
    <2>1. ~Applying(w)
      BY <1>6 DEF InsertVote, Applying
    <2> QED
      BY <1>2, <1>6, <2>1 DEF InsertVote
  <1>7. ASSUME NEW w \in Workers, NEW v \in Votes, NEW u \in Users, NEW c \in Choices,
               Ballot(w, v, u, c)
        PROVE  Undisturbed'
    <2>1. ~Applying(w)
      BY <1>7 DEF Ballot, Applying
    <2> QED
      BY <1>1, <1>7, <2>1 DEF Ballot
  <1>8. ASSUME NEW w \in Workers, CheckVoter(w) PROVE Undisturbed'
    <2>1. ~Applying(w)
      BY <1>8 DEF CheckVoter, Applying
    <2>2. [call[w] EXCEPT !.pc = "cast"].pc = "cast"
      <3>1. call[w] \in [pc : {"check", "cast"}, vote : Votes, user : Users, choice : Choices]
        BY <1>8, CallShapes DEF CheckVoter, TypeOK
      <3> QED
        BY <3>1
    <2>3. \/ call' = [call EXCEPT ![w] = [call[w] EXCEPT !.pc = "cast"]]
          \/ call' = [call EXCEPT ![w] = Idle]
      BY <1>8 DEF CheckVoter
    <2>4. UNCHANGED <<weight, source, history>>
      BY <1>8 DEF CheckVoter
    <2>5. CASE call' = [call EXCEPT ![w] = [call[w] EXCEPT !.pc = "cast"]]
      <3> DEFINE next == [call[w] EXCEPT !.pc = "cast"]
      <3>1. next.pc \notin {"read", "upsert", "log", "mark"}
        BY <2>2
      <3>2. call' = [call EXCEPT ![w] = next]
        BY <2>5
      <3> HIDE DEF next
      <3> QED
        BY <1>1, <2>1, <2>4, <3>1, <3>2
    <2> QED
      BY <1>2, <2>1, <2>3, <2>4, <2>5
  <1>9. ASSUME NEW w \in Workers, CastBallot(w) PROVE Undisturbed'
    <2>1. ~Applying(w) /\ UNCHANGED <<weight, source, history>>
      BY <1>9 DEF CastBallot, Applying
    <2> DEFINE next == [pc |-> "tally", vote |-> call[w].vote,
                        yes |-> agree'[call[w].vote], no |-> disagree'[call[w].vote]]
    <2>2. call' = [call EXCEPT ![w] = next] \/ call' = [call EXCEPT ![w] = Idle]
      BY <1>9 DEF CastBallot
    <2>3. next.pc \notin {"read", "upsert", "log", "mark"}
      OBVIOUS
    <2> HIDE DEF next
    <2> QED
      BY <1>1, <1>2, <2>1, <2>2, <2>3
  <1>10. ASSUME NEW w \in Workers, Tally(w) PROVE Undisturbed'
    <2>1. /\ ~Applying(w) /\ call[w].pc = "tally"
          /\ UNCHANGED <<weight, source, history>>
      BY <1>10 DEF Tally, Applying
    <2>2. \/ call' = [call EXCEPT ![w] = [pc |-> "read", vote |-> call[w].vote, dim |-> 1]]
          \/ call' = [call EXCEPT ![w] = Idle]
      BY <1>10 DEF Tally
    <2>3. CASE call' = [call EXCEPT ![w] = [pc |-> "read", vote |-> call[w].vote, dim |-> 1]]
      BY <1>0, <2>1, <2>3, StartStep
    <2> QED
      BY <1>2, <2>1, <2>2, <2>3
  <1>11. ASSUME NEW w \in Workers, MarkApplied(w) PROVE Undisturbed'
    BY <1>0, <1>11, LeaveStep DEF MarkApplied
  <1>12. ASSUME NEW w \in Workers, Fail(w) PROVE Undisturbed'
    <2>1. call' = [call EXCEPT ![w] = Idle] /\ UNCHANGED <<weight, source, history>>
      BY <1>12 DEF Fail
    <2>2. call'[w].pc = "idle"
      BY <2>1 DEF TypeOK, Idle
    <2>3. call[w].pc \notin {"read", "upsert", "log"}
      BY <2>2 DEF Cut
    <2>4. CASE call[w].pc = "mark"
      BY <1>0, <2>1, <2>4, LeaveStep
    <2>5. CASE call[w].pc # "mark"
      <3>1. ~Applying(w)
        BY <2>3, <2>5 DEF Applying
      <3> QED
        BY <1>2, <2>1, <3>1
    <2> QED
      BY <2>4, <2>5
  <1>13. ASSUME NEW d \in AllDims, Thaw(d) PROVE Undisturbed'
    BY <1>3, <1>13 DEF Thaw
  <1>14. ASSUME NEW u \in Users, ChangeEligibility(u) PROVE Undisturbed'
    BY <1>3, <1>14 DEF ChangeEligibility
  <1>15. ASSUME UNCHANGED vars PROVE Undisturbed'
    BY <1>3, <1>15 DEF vars
  <1>16. ASSUME NEW w \in Workers, Advance(w) PROVE Undisturbed'
    BY <1>0, <1>5, <1>6, <1>8, <1>9, <1>10, <1>11, <1>16, ReadStep, UpsertStep, LogStep
       DEF Advance
  <1> QED
    BY <1>4, <1>7, <1>12, <1>13, <1>14, <1>15, <1>16 DEF Next

LEMMA UndisturbedInit == ApartInit => ApartInv
  <1> SUFFICES ASSUME ApartInit PROVE Undisturbed
    BY DEF ApartInit, ApartInv
  <1>1. \A w \in Workers : call[w].pc = "idle"
    BY DEF ApartInit, Init, Idle
  <1>2. \A w \in Workers : ~Applying(w)
    BY <1>1 DEF Applying
  <1>3. \A d \in AllDims : /\ Len(history[d]) = 0 /\ weight[d] = EqualWeight
                           /\ source[d] = NoVote
    BY DEF ApartInit, Init
  <1>4. RowsChain
    BY <1>3 DEF RowsChain
  <1>5. RowsEndLive
    BY <1>3 DEF RowsEndLive, Latest, After
  <1>6. RestFromOne
    BY <1>3 DEF RestFromOne
  <1> QED
    BY <1>1, <1>2, <1>4, <1>5, <1>6
       DEF Undisturbed, Alone, WrittenFromVote, ReadIsLive, LogIsNext

(* While nothing was disturbed the parts of Undisturbed hold at every         *)
(* statement of apply_vote, which is what the theorems below rest on.         *)
THEOREM ApartInvariance == ApartSpec => []ApartInv
  <1>1. TypeOK /\ ApartInv /\ [ApartNext]_<<vars, disturbed>> => ApartInv'
    <2> SUFFICES ASSUME TypeOK, ApartInv, [ApartNext]_<<vars, disturbed>> PROVE ApartInv'
      OBVIOUS
    <2>1. [Next]_vars
      BY ApartIsVoting
    <2>2. CASE UNCHANGED <<vars, disturbed>>
      <3>1. CASE disturbed
        BY <2>2, <3>1 DEF ApartInv
      <3>2. CASE Undisturbed
        <4>1. UNCHANGED <<call, weight, source, history>>
          BY <2>2 DEF vars
        <4>2. Alone' /\ \A w \in Workers : call'[w] = call[w]
          BY <3>2, <4>1 DEF Undisturbed, Alone, Applying
        <4>3. Undisturbed'
          BY <3>2, <4>1, <4>2, OutsideStep
        <4> QED
          BY <2>2, <4>3 DEF ApartInv
      <3> QED
        BY <3>1, <3>2 DEF ApartInv
    <2>3. CASE ApartNext
      <3>0. disturbed' = (disturbed \/ Overlap' \/ Cut)
        BY <2>3 DEF ApartNext
      <3>1. CASE disturbed \/ Overlap' \/ Cut
        BY <3>0, <3>1 DEF ApartInv
      <3>2. CASE ~(disturbed \/ Overlap' \/ Cut)
        <4>1. Undisturbed'
          BY <2>1, <3>2, UndisturbedStep DEF ApartInv
        <4> QED
          BY <3>0, <3>2, <4>1 DEF ApartInv
      <3> QED
        BY <3>1, <3>2
    <2> QED
      BY <2>2, <2>3
  <1> QED
    BY <1>1, UndisturbedInit, ApartTypeCorrect, PTL DEF ApartSpec

LEMMA AtRestNothingApplies == AtRest => \A w \in Workers : ~Applying(w)
  BY DEF AtRest, Applying

LEMMA WholeAtRest == Undisturbed => AppliedAsAWhole
  BY AtRestNothingApplies DEF Undisturbed, RestFromOne, AppliedAsAWhole

(* apply_vote's comment, "All in one transaction", for applications that      *)
(* were neither raced nor cut: they have written all weights or none.         *)
THEOREM ApplicationsAreWhole == ApartSpec => []ApartAppliedAsAWhole
  <1>1. ApartInv => ApartAppliedAsAWhole
    BY WholeAtRest DEF ApartInv, ApartAppliedAsAWhole
  <1> QED
    BY <1>1, ApartInvariance, PTL

(* The history of a dimension explains its weight, for applications that      *)
(* were neither raced nor cut: each row starts where the one before ended and *)
(* the last one ends at the live weight.                                      *)
THEOREM HistoriesExplain == ApartSpec => []ApartHistoryExplainsWeights
  <1>1. Undisturbed => HistoryExplainsWeights
    <2> SUFFICES ASSUME Undisturbed, AtRest, NEW d \in AllDims
                 PROVE  LET h == history[d]
                            Ended(i) == IF i = 0 THEN EqualWeight ELSE h[i].new
                        IN  /\ \A i \in 1 .. Len(h) : h[i].old = Ended(i - 1)
                            /\ weight[d] = Ended(Len(h))
      BY DEF HistoryExplainsWeights
    <2>1. \A i \in 1 .. Len(history[d]) : history[d][i].old = After(d, i - 1)
      BY DEF Undisturbed, RowsChain
    <2>2. weight[d] = Latest(d)
      BY DEF Undisturbed, RowsEndLive, AtRest
    <2> QED
      BY <2>1, <2>2 DEF After, Latest
  <1>2. ApartInv => ApartHistoryExplainsWeights
    BY <1>1 DEF ApartInv, ApartHistoryExplainsWeights
  <1> QED
    BY <1>2, ApartInvariance, PTL

-----------------------------------------------------------------------------
(* The sum of weights of which all but one are alike. *)
LEMMA SumOfAlike ==
    ASSUME NEW D \in AllDims, NEW p \in Int, NEW r \in Int,
           \A d \in AllDims : weight[d] = IF d = D THEN p ELSE r
    PROVE  LET sum[n \in 0 .. Dims] == IF n = 0 THEN 0 ELSE weight[n] + sum[n - 1]
           IN  sum[Dims] = p + (Dims - 1) * r
  <1> DEFINE Body(g) == [n \in 0 .. Dims |-> IF n = 0 THEN 0 ELSE weight[n] + g[n - 1]]
             Closed(n) == n * r + (IF n >= D THEN p - r ELSE 0)
             closed == [n \in 0 .. Dims |-> Closed(n)]
             sum == CHOOSE g : g = Body(g)
  <1>1. Dims \in Nat /\ Dims >= 1 /\ D \in 1 .. Dims
    BY ConstantsAssumption DEF AllDims
  <1>2. Closed(0) = 0
    BY <1>1
  <1>3. ASSUME NEW n \in 1 .. Dims PROVE Closed(n) = weight[n] + Closed(n - 1)
    <2>1. weight[n] = IF n = D THEN p ELSE r
      BY DEF AllDims
    <2>2. n * r = (n - 1) * r + r /\ n * r \in Int /\ (n - 1) * r \in Int
      BY <1>1
    <2>3. CASE n = D
      <3>1. n >= D /\ ~(n - 1 >= D)
        BY <1>1, <2>3
      <3> QED
        BY <2>1, <2>2, <2>3, <3>1
    <2>4. CASE n # D
      <3>1. (n >= D) <=> (n - 1 >= D)
        BY <1>1, <2>4
      <3> QED
        BY <2>1, <2>2, <2>4, <3>1
    <2> QED
      BY <2>3, <2>4
  <1> HIDE DEF Closed
  <1>4. closed = Body(closed)
    <2>1. ASSUME NEW n \in 0 .. Dims PROVE closed[n] = Body(closed)[n]
      <3>1. CASE n = 0
        BY <1>2, <3>1
      <3>2. CASE n # 0
        <4>1. n \in 1 .. Dims /\ n - 1 \in 0 .. Dims
          BY <1>1, <3>2
        <4> QED
          BY <1>3, <3>2, <4>1
      <3> QED
        BY <3>1, <3>2
    <2> QED
      BY <2>1
  <1>5. sum = Body(sum)
    BY <1>4
  <1> HIDE DEF sum
  <1>6. sum[0] = 0 /\ \A n \in 1 .. Dims : sum[n] = weight[n] + sum[n - 1]
    <2>1. \A n \in 0 .. Dims : sum[n] = IF n = 0 THEN 0 ELSE weight[n] + sum[n - 1]
      BY <1>5
    <2> QED
      BY <1>1, <2>1
  <1> DEFINE T == {n \in Nat : n <= Dims => sum[n] = Closed(n)}
  <1>7. 0 \in T
    BY <1>2, <1>6
  <1>8. ASSUME NEW n \in T PROVE n + 1 \in T
    <2>1. CASE n + 1 <= Dims
      <3>1. n + 1 \in 1 .. Dims /\ (n + 1) - 1 = n /\ n <= Dims
        BY <1>1, <2>1
      <3>2. sum[n] = Closed(n)
        BY <3>1
      <3> QED
        BY <1>3, <1>6, <3>1, <3>2
    <2>2. CASE ~(n + 1 <= Dims)
      BY <2>2
    <2> QED
      BY <2>1, <2>2
  <1>9. T \in SUBSET Nat
    OBVIOUS
  <1> HIDE DEF T
  <1>10. T = Nat
    BY <1>7, <1>8, <1>9, Induction
  <1>11. sum[Dims] = Closed(Dims)
    BY <1>1, <1>10 DEF T
  <1>12. Closed(Dims) = p + (Dims - 1) * r
    <2>1. Dims * r = (Dims - 1) * r + r /\ Dims * r \in Int /\ (Dims - 1) * r \in Int
      BY <1>1
    <2>2. Dims >= D
      BY <1>1
    <2> QED
      BY <2>1, <2>2 DEF Closed
  <1> QED
    BY <1>11, <1>12 DEF sum

LEMMA Divided ==
    ASSUME NEW a \in Nat, NEW b \in Nat \ {0}, a % b = 0
    PROVE  a \div b \in Int /\ b * (a \div b) = a
  OBVIOUS

(* renormalize keeps the sum of a discipline's weights at 1.0, for           *)
(* applications that were neither raced nor cut.                              *)
THEOREM WeightsSum == ApartSpec => []ApartWeightsSumToOne
  <1>1. TypeOK /\ WeightsFromQuorum /\ Undisturbed => WeightsSumToOne
    <2> SUFFICES ASSUME TypeOK, WeightsFromQuorum, Undisturbed, AtRest
                 PROVE  LET sum[n \in 0 .. Dims] == IF n = 0 THEN 0 ELSE weight[n] + sum[n - 1]
                        IN  sum[Dims] = Total
      BY DEF WeightsSumToOne
    <2>1. PICK s : \A d \in AllDims : source[d] = s
      BY WholeAtRest DEF AppliedAsAWhole
    <2>2. /\ Dims \in Nat /\ Dims >= 2 /\ 1 \in AllDims /\ Total \in Nat /\ Total % Dims = 0
          /\ s \in Votes \cup {NoVote}
      <3>1. 1 \in AllDims
        BY ConstantsAssumption DEF AllDims
      <3>2. source[1] = s
        BY <2>1, <3>1
      <3> QED
        BY <3>1, <3>2, ConstantsAssumption DEF TypeOK
    <2>3. CASE s = NoVote
      <3>1. EqualWeight \in Int /\ Dims * EqualWeight = Total
        BY <2>2, Divided DEF EqualWeight
      <3>2. \A d \in AllDims : weight[d] = IF d = 1 THEN EqualWeight ELSE EqualWeight
        BY <2>1, <2>3 DEF WeightsFromQuorum
      <3>3. EqualWeight + (Dims - 1) * EqualWeight = Total
        <4>1. (Dims - 1) * EqualWeight = Dims * EqualWeight - EqualWeight
          BY <2>2, <3>1
        <4> QED
          BY <2>2, <3>1, <4>1
      <3> QED
        BY <2>2, <3>1, <3>2, <3>3, SumOfAlike
    <2>4. CASE s # NoVote
      <3> DEFINE p == Proposed[s]
                 r == (Total - Proposed[s]) \div (Dims - 1)
      <3>0. s \in Votes
        BY <2>2, <2>4
      <3>1. /\ p \in Int /\ Total - p \in Nat /\ Dims - 1 \in Nat \ {0}
            /\ (Total - p) % (Dims - 1) = 0 /\ DimOf[s] \in AllDims
        BY <2>2, <3>0, ConstantsAssumption
      <3>2. r \in Int /\ (Dims - 1) * r = Total - p
        BY <3>1, Divided
      <3>3. \A d \in AllDims : weight[d] = IF d = DimOf[s] THEN p ELSE r
        BY <2>1, <2>4 DEF WeightsFromQuorum, Renormalize
      <3> HIDE DEF p, r
      <3>4. p + (Dims - 1) * r = Total
        BY <2>2, <3>1, <3>2
      <3> QED
        BY <3>1, <3>2, <3>3, <3>4, SumOfAlike
    <2> QED
      BY <2>3, <2>4
  <1>2. TypeOK /\ WeightsFromQuorum /\ ApartInv => ApartWeightsSumToOne
    BY <1>1 DEF ApartInv, ApartWeightsSumToOne
  <1>3. Init /\ [][Next]_vars => []WeightsFromQuorum
    BY QuorumHolds DEF Spec
  <1> QED
    BY <1>2, <1>3, ApartIsVoting, ApartTypeCorrect, ApartInvariance, PTL DEF ApartSpec
=============================================================================
