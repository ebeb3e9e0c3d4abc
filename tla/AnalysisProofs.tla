--------------------------- MODULE AnalysisProofs ---------------------------
(***************************************************************************)
(* The reports and the sessions of Analysis are right for every finite set *)
(* of tournaments: ReportsAgree and SessionsEndWithAPause are invariants.  *)
(*                                                                         *)
(* The code computes a figure in one pass over the tournaments, which is a *)
(* fold of the community modules here.  The first sections show that these *)
(* folds have the values they are meant to have, by induction over a set   *)
(* or a number named in the lemma; then come the sums, the downswing, the  *)
(* order of the tournaments, the two dashboards, the hub's views and the   *)
(* sessions.                                                               *)
(***************************************************************************)
EXTENDS Analysis, TLAPS, FiniteSetTheorems, SequenceTheorems, WellFoundedInduction

-----------------------------------------------------------------------------
(* Induction, over sets in place of predicates                             *)

LEMMA LeastNumber == ASSUME NEW S, S \subseteq Nat, S # {} PROVE \E m \in S : \A j \in S : m =< j
<1> DEFINE less == {ss \in Nat \X Nat : ss[1] < ss[2]}
<1>1. IsWellFoundedOn(less, Nat)
  BY NatLessThanWellFounded DEF OpToRel
<1>2. \A i, j \in Nat : i < j => <<i, j>> \in less
  OBVIOUS
<1> HIDE DEF less
<1>3. PICK m \in S : \A j \in S : ~(<<j, m>> \in less)
  BY <1>1, WFMin
<1>4. \A j \in S : ~(j < m)
  BY <1>2, <1>3
<1>q. QED BY <1>4

\* From one number to the next, up to n.
LEMMA UpTo ==
  ASSUME NEW n \in Nat, NEW P, 0 \in P, \A k \in 1 .. n : k - 1 \in P => k \in P
  PROVE  \A k \in 0 .. n : k \in P
<1> SUFFICES ASSUME \E k \in 0 .. n : k \notin P PROVE FALSE
  OBVIOUS
<1>1. PICK m \in {k \in 0 .. n : k \notin P} : \A j \in {k \in 0 .. n : k \notin P} : m =< j
  BY LeastNumber, {k \in 0 .. n : k \notin P} # {}, {k \in 0 .. n : k \notin P} \subseteq Nat
<1>2. m # 0 /\ m \in 1 .. n /\ m - 1 \in 0 .. n
  BY <1>1
<1>3. m - 1 \in P
  BY <1>1, <1>2
<1>q. QED BY <1>1, <1>2, <1>3

\* From 1 on.
LEMMA FromOne ==
  ASSUME NEW n \in Nat \ {0}, NEW P, 1 \in P, \A k \in 1 .. n : k + 1 =< n /\ k \in P => k + 1 \in P
  PROVE  \A k \in 1 .. n : k \in P
<1> DEFINE Q == {k \in 0 .. n : k # 0 => k \in P}
<1>1. 0 \in Q
  OBVIOUS
<1>2. ASSUME NEW k \in 1 .. n, k - 1 \in Q PROVE k \in Q
  <2>1. CASE k = 1
    BY <2>1
  <2>2. CASE k # 1
    <3>1. PICK j : j = k - 1
      OBVIOUS
    <3>2. j \in 1 .. n /\ j + 1 = k /\ j \in P
      BY <1>2, <2>2, <3>1
    <3>q. QED BY <3>2
  <2>q. QED BY <2>1, <2>2
<1>3. \A k \in 0 .. n : k \in Q
  <2> HIDE DEF Q
  <2>q. QED BY <1>1, <1>2, UpTo
<1>q. QED BY <1>3

\* From every smaller set to a set, among the subsets of S.
LEMMA BySubset ==
  ASSUME NEW S, IsFiniteSet(S), NEW P,
         \A T \in SUBSET S : (\A U \in SUBSET T : U # T => U \in P) => T \in P
  PROVE  \A T \in SUBSET S : T \in P
<1> SUFFICES ASSUME NEW T0 \in SUBSET S, T0 \notin P PROVE FALSE
  OBVIOUS
<1> DEFINE sizes == {k \in Nat : \E T \in SUBSET S : T \notin P /\ Cardinality(T) = k}
<1>1. \A T \in SUBSET S : Cardinality(T) \in Nat /\ IsFiniteSet(T)
  BY FS_Subset, FS_CardinalityType
<1>2. Cardinality(T0) \in sizes
  BY <1>1
<1>3. PICK m \in sizes : \A j \in sizes : m =< j
  BY <1>2, LeastNumber, sizes \subseteq Nat, sizes # {}
<1>4. PICK T \in SUBSET S : T \notin P /\ Cardinality(T) = m
  BY <1>3
<1>5. ASSUME NEW U \in SUBSET T, U # T PROVE U \in P
  <2>1. Cardinality(U) =< Cardinality(T) /\ Cardinality(U) # Cardinality(T)
    BY <1>1, <1>5, FS_Subset
  <2>q. QED BY <2>1, <1>1, <1>3, <1>4
<1>q. QED BY <1>4, <1>5

\* One element more at a time.
LEMMA OneByOne ==
  ASSUME NEW S, IsFiniteSet(S), NEW P, {} \in P,
         \A T \in SUBSET S : \A x \in T : T \ {x} \in P => T \in P
  PROVE  \A T \in SUBSET S : T \in P
<1>1. ASSUME NEW T \in SUBSET S, \A U \in SUBSET T : U # T => U \in P
      PROVE  T \in P
  <2>1. CASE T = {}
    BY <2>1
  <2>2. ASSUME NEW x \in T PROVE T \in P
    BY <1>1, T \ {x} \in SUBSET T, T \ {x} # T
  <2>q. QED BY <2>1, <2>2
<1>q. QED BY <1>1, BySubset

-----------------------------------------------------------------------------
(* Folds over a finite set                                                 *)

\* A recursion that takes one element at a time has a solution.
FoldEq(iter, S, pick, base, Op) ==
    iter = [s \in SUBSET S |-> IF s = {} THEN base ELSE Op[<<pick[s], iter[s \ {pick[s]}]>>]]

LEMMA FoldExists ==
  ASSUME NEW S, IsFiniteSet(S), NEW A, NEW pick, NEW base \in A, NEW Op,
         \A T \in SUBSET S : T # {} => pick[T] \in T,
         \A x \in S, v \in A : Op[<<x, v>>] \in A
  PROVE  \E iter \in [SUBSET S -> A] : FoldEq(iter, S, pick, base, Op)
<1> DEFINE Upto(k) == {s \in SUBSET S : Cardinality(s) =< k}
           Solves(iter, k) == iter = [s \in Upto(k) |-> IF s = {} THEN base ELSE Op[<<pick[s], iter[s \ {pick[s]}]>>]]
           n == Cardinality(S)
           P == {k \in Nat : \E iter : Solves(iter, k)}
<1>0. n \in Nat /\ \A T \in SUBSET S : Cardinality(T) \in Nat /\ Cardinality(T) =< n /\ IsFiniteSet(T)
  BY FS_Subset, FS_CardinalityType
<1>1. 0 \in P
  <2> DEFINE iter == [s \in Upto(0) |-> base]
  <2>1. \A s \in Upto(0) : s = {}
    BY <1>0, FS_EmptySet
  <2>2. Solves(iter, 0)
    BY <2>1
  <2>q. QED BY <2>2
<1>2. ASSUME NEW k \in 1 .. n, k - 1 \in P PROVE k \in P
  <2>1. PICK old : Solves(old, k - 1)
    BY <1>2
  <2> DEFINE new == [s \in Upto(k) |-> IF s = {} THEN base ELSE Op[<<pick[s], old[s \ {pick[s]}]>>]]
  <2>2. ASSUME NEW s \in Upto(k), s # {} PROVE s \ {pick[s]} \in Upto(k - 1)
    <3>1. pick[s] \in s /\ IsFiniteSet(s) /\ Cardinality(s) \in Nat
      BY <1>0, <2>2
    <3>2. Cardinality(s \ {pick[s]}) = Cardinality(s) - 1
      BY <3>1, FS_RemoveElement
    <3>q. QED BY <3>1, <3>2
  <2>3. ASSUME NEW s \in Upto(k - 1) PROVE new[s] = old[s]
    <3>1. s \in Upto(k)
      BY <1>0
    <3>2. old[s] = IF s = {} THEN base ELSE Op[<<pick[s], old[s \ {pick[s]}]>>]
      BY <2>1
    <3>q. QED BY <3>1, <3>2
  <2>4. Solves(new, k)
    BY <2>2, <2>3
  <2>5. \E iter : Solves(iter, k)
    <3> HIDE DEF Solves, new
    <3>q. QED BY <2>4
  <2>6. k \in Nat
    BY <1>0
  <2> HIDE DEF Solves
  <2>q. QED BY <2>5, <2>6
<1>3. n \in P
  <2> HIDE DEF P
  <2>q. QED BY <1>0, <1>1, <1>2, UpTo
<1>4. Upto(n) = SUBSET S
  BY <1>0
<1>5. PICK iter : iter = [s \in SUBSET S |-> IF s = {} THEN base ELSE Op[<<pick[s], iter[s \ {pick[s]}]>>]]
  BY <1>3, <1>4
<1> DEFINE Typed == {s \in SUBSET S : iter[s] \in A}
<1>6. ASSUME NEW T \in SUBSET S, \A U \in SUBSET T : U # T => U \in Typed
      PROVE  T \in Typed
  <2>1. CASE T # {}
    <3>1. pick[T] \in T /\ T \ {pick[T]} \in SUBSET T /\ T \ {pick[T]} # T
      BY <2>1
    <3>2. T \ {pick[T]} \in Typed
      BY <3>1, <1>6
    <3>3. iter[T] = Op[<<pick[T], iter[T \ {pick[T]}]>>]
      BY <2>1, <1>5
    <3>4. iter[T \ {pick[T]}] \in A /\ pick[T] \in S
      BY <3>1, <3>2
    <3>5. iter[T] \in A
      BY <3>3, <3>4
    <3>q. QED BY <3>5
  <2>2. CASE T = {}
    BY <2>2, <1>5
  <2>q. QED BY <2>1, <2>2
<1>7. \A s \in SUBSET S : s \in Typed
  <2> HIDE DEF Typed
  <2>q. QED BY <1>6, BySubset
<1>8. iter \in [SUBSET S -> A]
  BY <1>5, <1>7
<1>9. FoldEq(iter, S, pick, base, Op)
  BY <1>5 DEF FoldEq
<1>q. QED BY <1>8, <1>9

-----------------------------------------------------------------------------
(* Sums                                                                    *)

Pick(s) == CHOOSE x \in s : TRUE
SumEq(iter, F, S) ==
    iter = [s \in SUBSET S |-> IF s = {} THEN 0 ELSE F[Pick(s)] + iter[s \ {Pick(s)}]]
\* The sum of F[x] over S, which every Total is.
Sum(F, S) == (CHOOSE iter : SumEq(iter, F, S))[S]
Tables(F, S) == S \subseteq DOMAIN F /\ \A x \in S : F[x] \in Int

LEMMA PickIn == ASSUME NEW s, s # {} PROVE Pick(s) \in s
BY DEF Pick

LEMMA SumEqHolds ==
  ASSUME NEW S, IsFiniteSet(S), NEW F, Tables(F, S)
  PROVE  \E iter \in [SUBSET S -> Int] : SumEq(iter, F, S)
<1> DEFINE pick == [s \in SUBSET S |-> Pick(s)]
           Op == [p \in S \X Int |-> F[p[1]] + p[2]]
<1>1. \A s \in SUBSET S : s # {} => pick[s] \in s
  BY PickIn
<1>2. \A x \in S, v \in Int : Op[<<x, v>>] = F[x] + v /\ Op[<<x, v>>] \in Int
  BY DEF Tables
<1>3. PICK iter \in [SUBSET S -> Int] : FoldEq(iter, S, pick, 0, Op)
  <2> HIDE DEF pick, Op
  <2>1. \A x \in S, v \in Int : Op[<<x, v>>] \in Int
    BY <1>2
  <2>2. 0 \in Int
    OBVIOUS
  <2>q. QED BY <1>1, <2>1, <2>2, FoldExists
<1>4. ASSUME NEW s \in SUBSET S
      PROVE  iter[s] = IF s = {} THEN 0 ELSE F[Pick(s)] + iter[s \ {Pick(s)}]
  <2>1. CASE s = {}
    BY <2>1, <1>3 DEF FoldEq
  <2>2. CASE s # {}
    <3>1. pick[s] = Pick(s) /\ Pick(s) \in S /\ iter[s \ {Pick(s)}] \in Int
      BY <2>2, <1>1, s \ {Pick(s)} \in SUBSET S
    <3>2. iter[s] = Op[<<pick[s], iter[s \ {pick[s]}]>>]
      BY <2>2, <1>3 DEF FoldEq
    <3> HIDE DEF Op, pick
    <3>q. QED BY <2>2, <3>1, <3>2, <1>2
  <2>q. QED BY <2>1, <2>2
<1>q. QED BY <1>4 DEF SumEq

\* A table of sums of all subsets.
Adds(h, F, S) ==
    /\ DOMAIN h = SUBSET S
    /\ h[{}] = 0
    /\ \A s \in SUBSET S : h[s] \in Int /\ \A x \in s : h[s] = F[x] + h[s \ {x}]

\* Whatever solves the equation takes its elements in any order.
LEMMA AnyOrder ==
  ASSUME NEW S, IsFiniteSet(S), NEW F, Tables(F, S), NEW iter, SumEq(iter, F, S)
  PROVE  Adds(iter, F, S)
<1> DEFINE P == {s \in SUBSET S : iter[s] \in Int /\ \A x \in s : iter[s] = F[x] + iter[s \ {x}]}
<1>0. iter[{}] = 0
  BY DEF SumEq
<1>1. ASSUME NEW T \in SUBSET S, \A U \in SUBSET T : U # T => U \in P
      PROVE  T \in P
  <2>1. CASE T = {}
    BY <2>1, <1>0
  <2>2. CASE T # {}
    <3>0. PICK c : c = Pick(T)
      OBVIOUS
    <3>1. c \in T /\ \A x \in T : x \in S /\ F[x] \in Int
      BY <2>2, <3>0, PickIn DEF Tables
    <3>2. iter[T] = F[c] + iter[T \ {c}]
      BY <2>2, <3>0 DEF SumEq
    <3>3. ASSUME NEW x \in T
          PROVE  iter[T \ {x}] \in Int /\ \A y \in T \ {x} : iter[T \ {x}] = F[y] + iter[(T \ {x}) \ {y}]
      <4>1. T \ {x} \in SUBSET T /\ T \ {x} # T
        OBVIOUS
      <4>2. T \ {x} \in P
        BY <4>1, <1>1
      <4>q. QED BY <4>2
    <3>4. iter[T] \in Int
      BY <3>1, <3>2, <3>3
    <3>5. ASSUME NEW x \in T, x # c PROVE iter[T] = F[x] + iter[T \ {x}]
      <4>0. PICK R : R = (T \ {c}) \ {x}
        OBVIOUS
      <4>1. R \in SUBSET T /\ R # T /\ R = (T \ {x}) \ {c}
        BY <4>0
      <4>2. iter[T \ {c}] = F[x] + iter[R]
        BY <3>1, <3>3, <3>5, <4>0
      <4>3. iter[T \ {x}] = F[c] + iter[R]
        BY <3>1, <3>3, <3>5, <4>1
      <4>4. R \in P
        BY <4>1, <1>1
      <4>5. iter[R] \in Int
        BY <4>4
      <4> HIDE DEF P
      <4>q. QED BY <4>2, <4>3, <4>5, <3>1, <3>2
    <3>q. QED BY <3>2, <3>4, <3>5
  <2>q. QED BY <2>1, <2>2
<1>2. \A s \in SUBSET S : s \in P
  <2> HIDE DEF P
  <2>q. QED BY <1>1, BySubset
<1>3. \A s \in SUBSET S : iter[s] \in Int /\ \A x \in s : iter[s] = F[x] + iter[s \ {x}]
  BY <1>2
<1>4. DOMAIN iter = SUBSET S
  BY DEF SumEq
<1> HIDE DEF P
<1>q. QED BY <1>0, <1>3, <1>4 DEF Adds

LEMMA AddsUnique ==
  ASSUME NEW S, IsFiniteSet(S), NEW F, NEW G, Tables(F, S), Tables(G, S), \A x \in S : F[x] = G[x],
         NEW h, Adds(h, F, S), NEW g, Adds(g, G, S)
  PROVE  \A s \in SUBSET S : h[s] = g[s]
<1> DEFINE P == {s \in SUBSET S : h[s] = g[s]}
<1>1. {} \in P
  BY DEF Adds
<1>2. ASSUME NEW T \in SUBSET S, NEW x \in T, T \ {x} \in P PROVE T \in P
  BY <1>2 DEF Adds, Tables
<1>3. \A s \in SUBSET S : s \in P
  <2> HIDE DEF P
  <2>q. QED BY <1>1, <1>2, OneByOne
<1>q. QED BY <1>3

LEMMA SumTable ==
  ASSUME NEW S, IsFiniteSet(S), NEW F, Tables(F, S)
  PROVE  Adds([T \in SUBSET S |-> Sum(F, T)], F, S)
<1>1. PICK iter \in [SUBSET S -> Int] : SumEq(iter, F, S)
  BY SumEqHolds
<1>2. Adds(iter, F, S)
  BY <1>1, AnyOrder
<1>3. ASSUME NEW T \in SUBSET S PROVE Sum(F, T) = iter[T]
  <2>1. IsFiniteSet(T) /\ Tables(F, T)
    BY FS_Subset DEF Tables
  <2>2. PICK own : own = CHOOSE i : SumEq(i, F, T)
    OBVIOUS
  <2>3. SumEq(own, F, T)
    BY <2>1, <2>2, SumEqHolds
  <2>4. Adds(own, F, T)
    BY <2>1, <2>3, AnyOrder
  <2>5. PICK part : part = [s \in SUBSET T |-> iter[s]]
    OBVIOUS
  <2>6. Adds(part, F, T)
    BY <1>2, <2>5 DEF Adds
  <2>7. own[T] = part[T]
    BY <2>1, <2>4, <2>6, AddsUnique
  <2>q. QED BY <2>2, <2>5, <2>7 DEF Sum
<1>4. [T \in SUBSET S |-> Sum(F, T)] = iter
  BY <1>2, <1>3 DEF Adds
<1>q. QED BY <1>2, <1>4

LEMMA SumStep ==
  ASSUME NEW S, IsFiniteSet(S), NEW F, Tables(F, S)
  PROVE  /\ Sum(F, S) \in Int
         /\ Sum(F, {}) = 0
         /\ \A x \in S : Sum(F, S) = F[x] + Sum(F, S \ {x})
<1>1. PICK h : h = [T \in SUBSET S |-> Sum(F, T)]
  OBVIOUS
<1>2. Adds(h, F, S)
  BY <1>1, SumTable
<1>q. QED BY <1>1, <1>2 DEF Adds

\* A table of sums has the sum.
LEMMA SumIs ==
  ASSUME NEW S, IsFiniteSet(S), NEW F, NEW G, Tables(F, S), Tables(G, S), \A x \in S : F[x] = G[x],
         NEW h, Adds(h, F, S)
  PROVE  h[S] = Sum(G, S)
<1>1. PICK g : g = [T \in SUBSET S |-> Sum(G, T)]
  OBVIOUS
<1>2. Adds(g, G, S)
  BY <1>1, SumTable
<1>3. h[S] = g[S]
  BY <1>2, AddsUnique
<1>q. QED BY <1>1, <1>3

LEMMA SumSame ==
  ASSUME NEW S, IsFiniteSet(S), NEW F, NEW G, Tables(F, S), Tables(G, S), \A x \in S : F[x] = G[x]
  PROVE  Sum(F, S) = Sum(G, S)
<1>1. PICK h : h = [T \in SUBSET S |-> Sum(F, T)]
  OBVIOUS
<1>2. Adds(h, F, S)
  BY <1>1, SumTable
<1>3. h[S] = Sum(G, S)
  BY <1>2, SumIs
<1>q. QED BY <1>1, <1>3

LEMMA SumOnes ==
  ASSUME NEW S, IsFiniteSet(S), NEW F, Tables(F, S), \A x \in S : F[x] = 1
  PROVE  Sum(F, S) = Cardinality(S)
<1>1. PICK h : h = [T \in SUBSET S |-> Cardinality(T)]
  OBVIOUS
<1>2. ASSUME NEW T \in SUBSET S
      PROVE  Cardinality(T) \in Int /\ \A x \in T : Cardinality(T) = 1 + Cardinality(T \ {x})
  <2>1. IsFiniteSet(T) /\ Cardinality(T) \in Nat
    BY FS_Subset, FS_CardinalityType
  <2>2. ASSUME NEW x \in T PROVE Cardinality(T) = 1 + Cardinality(T \ {x})
    <3>1. Cardinality(T \ {x}) = Cardinality(T) - 1
      BY <2>1, FS_RemoveElement
    <3>q. QED BY <2>1, <3>1
  <2>q. QED BY <2>1, <2>2
<1>3. Adds(h, F, S)
  BY <1>1, <1>2, FS_EmptySet DEF Adds
<1>4. h[S] = Sum(F, S)
  BY <1>3, SumIs
<1>q. QED BY <1>1, <1>4

LEMMA SumZero ==
  ASSUME NEW S, IsFiniteSet(S), NEW F, Tables(F, S), \A x \in S : F[x] = 0
  PROVE  Sum(F, S) = 0
<1>1. PICK h : h = [T \in SUBSET S |-> 0]
  OBVIOUS
<1>2. Adds(h, F, S)
  BY <1>1 DEF Adds
<1>3. h[S] = Sum(F, S)
  BY <1>2, SumIs
<1>q. QED BY <1>1, <1>3

LEMMA SumMinus ==
  ASSUME NEW S, IsFiniteSet(S), NEW F, NEW G, NEW H, Tables(F, S), Tables(G, S), Tables(H, S),
         \A x \in S : H[x] = F[x] - G[x]
  PROVE  Sum(H, S) = Sum(F, S) - Sum(G, S)
<1>1. PICK f, g : f = [T \in SUBSET S |-> Sum(F, T)] /\ g = [T \in SUBSET S |-> Sum(G, T)]
  OBVIOUS
<1>2. Adds(f, F, S) /\ Adds(g, G, S)
  BY <1>1, SumTable
<1>3. PICK h : h = [T \in SUBSET S |-> f[T] - g[T]]
  OBVIOUS
<1>4. ASSUME NEW T \in SUBSET S, NEW x \in T PROVE h[T] = H[x] + h[T \ {x}]
  <2>1. f[T] = F[x] + f[T \ {x}] /\ g[T] = G[x] + g[T \ {x}]
    BY <1>2 DEF Adds
  <2>2. f[T \ {x}] \in Int /\ g[T \ {x}] \in Int /\ F[x] \in Int /\ G[x] \in Int
    BY <1>2 DEF Adds, Tables
  <2>q. QED BY <2>1, <2>2, <1>3
<1>5. Adds(h, H, S)
  <2>1. h[{}] = 0 /\ DOMAIN h = SUBSET S
    BY <1>2, <1>3 DEF Adds
  <2>2. ASSUME NEW T \in SUBSET S PROVE h[T] \in Int
    <3>1. f[T] \in Int /\ g[T] \in Int
      BY <1>2 DEF Adds
    <3>q. QED BY <1>3, <3>1
  <2>q. QED BY <1>4, <2>1, <2>2 DEF Adds
<1>6. h[S] = Sum(H, S)
  BY <1>5, SumIs
<1>q. QED BY <1>1, <1>3, <1>6

\* The sums of the parts add up to the sum of the whole.
LEMMA SumOfParts ==
  ASSUME NEW S, IsFiniteSet(S), NEW F, Tables(F, S),
         NEW K, IsFiniteSet(K), NEW key, \A x \in S : key[x] \in K
  PROVE  Sum([k \in K |-> Sum(F, {x \in S : key[x] = k})], K) = Sum(F, S)
<1> DEFINE Part(T, k) == {x \in T : key[x] = k}
           Sums(T) == [k \in K |-> Sum(F, Part(T, k))]
<1>1. ASSUME NEW T \in SUBSET S PROVE Tables(Sums(T), K)
  <2>1. ASSUME NEW k \in K PROVE Sum(F, Part(T, k)) \in Int
    <3>1. PICK part : part = Part(T, k)
      OBVIOUS
    <3>2. IsFiniteSet(part) /\ Tables(F, part)
      BY <3>1, FS_Subset DEF Tables
    <3>3. Sum(F, part) \in Int
      BY <3>2, SumStep
    <3>q. QED BY <3>1, <3>3
  <2>q. QED BY <2>1 DEF Tables
<1>2. ASSUME NEW T \in SUBSET S, NEW x \in T
      PROVE  Sum(Sums(T), K) = F[x] + Sum(Sums(T \ {x}), K)
  <2>1. PICK k, A, B, a, b : k = key[x] /\ A = Sums(T) /\ B = Sums(T \ {x}) /\ a = Part(T, k) /\ b = Part(T \ {x}, k)
    OBVIOUS
  <2>2. k \in K /\ x \in a /\ b = a \ {x} /\ a \in SUBSET S
    BY <2>1
  <2>3. IsFiniteSet(a) /\ Tables(F, a)
    BY <2>2, FS_Subset DEF Tables
  <2>4. A[k] = F[x] + B[k]
    <3>1. A[k] = Sum(F, a) /\ B[k] = Sum(F, b)
      BY <2>1, <2>2
    <3>q. QED BY <2>2, <2>3, <3>1, SumStep
  <2>5. \A j \in K \ {k} : A[j] = B[j]
    <3>1. ASSUME NEW j \in K \ {k} PROVE Part(T, j) = Part(T \ {x}, j)
      BY <2>1
    <3>q. QED BY <2>1, <3>1
  <2>6. Tables(A, K) /\ Tables(B, K)
    <3> HIDE DEF Sums
    <3>q. QED BY <1>1, <2>1, T \ {x} \in SUBSET S
  <2>7. Tables(A, K \ {k}) /\ Tables(B, K \ {k}) /\ IsFiniteSet(K \ {k})
    BY <2>6, FS_Subset DEF Tables
  <2>8. Sum(A, K \ {k}) = Sum(B, K \ {k}) /\ Sum(A, K \ {k}) \in Int
    BY <2>5, <2>7, SumSame, SumStep
  <2>9. Sum(A, K) = A[k] + Sum(A, K \ {k}) /\ Sum(B, K) = B[k] + Sum(B, K \ {k})
    BY <2>2, <2>6, SumStep
  <2>10. F[x] \in Int /\ B[k] \in Int
    BY <2>2, <2>6 DEF Tables
  <2>11. Sum(A, K) = F[x] + Sum(B, K)
    BY <2>4, <2>8, <2>9, <2>10
  <2>q. QED BY <2>1, <2>11
<1>3. PICK h : h = [T \in SUBSET S |-> Sum(Sums(T), K)]
  OBVIOUS
<1>4. h[{}] = 0
  <2>1. PICK A : A = Sums({})
    OBVIOUS
  <2>2. \A k \in K : A[k] = 0
    <3>1. Sum(F, {}) = 0
      BY SumStep
    <3>2. ASSUME NEW k \in K PROVE Part({}, k) = {}
      OBVIOUS
    <3>q. QED BY <2>1, <3>1, <3>2
  <2>3. Tables(A, K)
    BY <2>1, <2>2 DEF Tables
  <2>4. Sum(A, K) = 0
    BY <2>2, <2>3, SumZero
  <2>q. QED BY <1>3, <2>1, <2>4
<1>5. ASSUME NEW T \in SUBSET S PROVE h[T] \in Int
  <2>1. PICK A : A = Sums(T)
    OBVIOUS
  <2>2. Sum(A, K) \in Int
    BY <1>1, <2>1, SumStep
  <2>q. QED BY <1>3, <2>1, <2>2
<1>6. Adds(h, F, S)
  <2> HIDE DEF Sums
  <2>1. ASSUME NEW T \in SUBSET S, NEW x \in T PROVE h[T] = F[x] + h[T \ {x}]
    BY <1>2, <1>3, T \ {x} \in SUBSET S
  <2>q. QED BY <1>3, <1>4, <1>5, <2>1 DEF Adds
<1>7. h[S] = Sum(F, S)
  BY <1>6, SumIs
<1>q. QED BY <1>3, <1>7

-----------------------------------------------------------------------------
(* Folds over a sequence, from the left                                    *)

LEMMA Greatest ==
  ASSUME NEW n \in Nat, NEW s \in SUBSET (1 .. n), s # {}
  PROVE  Max(s) \in s /\ \A j \in s : j =< Max(s)
<1> DEFINE below == {n - j : j \in s}
<1>1. PICK m \in below : \A j \in below : m =< j
  <2>1. \A j \in s : n - j \in Nat
    OBVIOUS
  <2>2. below \subseteq Nat /\ below # {}
    BY <2>1
  <2> HIDE DEF below
  <2>q. QED BY <2>2, LeastNumber
<1>2. n - m \in s /\ \A j \in s : n - m >= j
  <2>1. PICK j \in s : m = n - j
    BY <1>1
  <2>2. ASSUME NEW i \in s PROVE j >= i
    BY <1>1, <2>1
  <2>q. QED BY <2>1, <2>2
<1>3. \E x \in s : \A y \in s : x >= y
  BY <1>2
<1>q. QED BY <1>3 DEF Max

LEMMA LastOfInterval ==
  ASSUME NEW k \in Nat \ {0}
  PROVE  Max(1 .. k) = k /\ (1 .. k) \ {k} = 1 .. k - 1 /\ 1 .. k # {}
<1>1. 1 .. k \in SUBSET (1 .. k) /\ 1 .. k # {} /\ k \in 1 .. k
  OBVIOUS
<1>2. Max(1 .. k) \in 1 .. k /\ k =< Max(1 .. k)
  BY <1>1, Greatest
<1>3. (1 .. k) \ {k} = 1 .. k - 1
  OBVIOUS
<1>q. QED BY <1>1, <1>2, <1>3

LeftEq(iter, n, base, Op) ==
    iter = [s \in SUBSET (1 .. n) |-> IF s = {} THEN base ELSE Op[<<Max(s), iter[s \ {Max(s)}]>>]]

LEMMA LeftExists ==
  ASSUME NEW n \in Nat, NEW A, NEW base \in A, NEW Op,
         \A i \in 1 .. n, v \in A : Op[<<i, v>>] \in A
  PROVE  \E iter \in [SUBSET (1 .. n) -> A] : LeftEq(iter, n, base, Op)
<1>1. PICK pick : pick = [s \in SUBSET (1 .. n) |-> Max(s)]
  OBVIOUS
<1>2. IsFiniteSet(1 .. n)
  BY FS_Interval
<1>3. \A s \in SUBSET (1 .. n) : s # {} => pick[s] \in s
  BY <1>1, Greatest
<1>4. PICK iter \in [SUBSET (1 .. n) -> A] : FoldEq(iter, 1 .. n, pick, base, Op)
  BY <1>2, <1>3, FoldExists
<1>5. LeftEq(iter, n, base, Op)
  BY <1>1, <1>4 DEF FoldEq, LeftEq
<1>q. QED BY <1>5

\* The partial sums of a sequence.
PartialSums(v, s) ==
    /\ v \in [0 .. Len(s) -> Int]
    /\ v[0] = 0
    /\ \A k \in 1 .. Len(s) : v[k] = v[k - 1] + s[k]

LEMMA FoldOfSum ==
  ASSUME NEW s \in Seq(Int)
  PROVE  \E v : PartialSums(v, s) /\ FoldLeft(+, 0, s) = v[Len(s)]
<1> DEFINE n == Len(s)
           Eq(iter) == iter = [T \in SUBSET DOMAIN s |->
                            IF T = {} THEN 0
                            ELSE LET x == Max(T) IN iter[T \ {x}] + s[x]]
           Op == [p \in (1 .. n) \X Int |-> p[2] + s[p[1]]]
<1>1. n \in Nat /\ DOMAIN s = 1 .. n /\ \A i \in 1 .. n : s[i] \in Int
  OBVIOUS
<1>2. \E iter : Eq(iter)
  <2>1. \A i \in 1 .. n, v \in Int : Op[<<i, v>>] = v + s[i] /\ Op[<<i, v>>] \in Int
    BY <1>1
  <2> HIDE DEF Op, n
  <2>20. 0 \in Int
    OBVIOUS
  <2>2. PICK iter \in [SUBSET (1 .. n) -> Int] : LeftEq(iter, n, 0, Op)
    BY <1>1, <2>1, <2>20, LeftExists
  <2>3. Eq(iter)
    <3>1. ASSUME NEW T \in SUBSET (1 .. n), T # {}
          PROVE  Op[<<Max(T), iter[T \ {Max(T)}]>>] = iter[T \ {Max(T)}] + s[Max(T)]
      <4>1. Max(T) \in 1 .. n /\ iter[T \ {Max(T)}] \in Int
        BY <1>1, <3>1, <2>2, Greatest, T \ {Max(T)} \in SUBSET (1 .. n)
      <4>q. QED BY <2>1, <4>1
    <3>q. QED BY <1>1, <2>2, <3>1 DEF LeftEq
  <2>q. QED BY <2>3
<1>3. PICK iter : iter = CHOOSE i : Eq(i)
  OBVIOUS
<1>4. Eq(iter)
  BY <1>2, <1>3
<1>5. FoldLeft(+, 0, s) = iter[DOMAIN s]
  BY <1>3 DEF FoldLeft, MapThenFoldSet
<1>6. iter[{}] = 0 /\ \A k \in 1 .. n : iter[1 .. k] = iter[1 .. k - 1] + s[k]
  <2> HIDE DEF n
  <2>1. ASSUME NEW k \in 1 .. n PROVE iter[1 .. k] = iter[1 .. k - 1] + s[k]
    <3>1. k \in Nat \ {0} /\ 1 .. k \in SUBSET DOMAIN s
      BY <1>1
    <3>2. Max(1 .. k) = k /\ (1 .. k) \ {k} = 1 .. k - 1 /\ 1 .. k # {}
      BY <3>1, LastOfInterval
    <3>q. QED BY <1>4, <3>1, <3>2
  <2>q. QED BY <1>4, <2>1
<1> DEFINE v == [k \in 0 .. n |-> iter[1 .. k]]
<1>7. v[0] = 0 /\ \A k \in 1 .. n : v[k] = v[k - 1] + s[k]
  BY <1>1, <1>6
<1>8. \A k \in 0 .. n : v[k] \in Int
  <2> DEFINE P == {k \in 0 .. n : v[k] \in Int}
  <2>1. 0 \in P
    BY <1>1, <1>7
  <2>2. ASSUME NEW k \in 1 .. n, k - 1 \in P PROVE k \in P
    <3>1. k \in 0 .. n
      BY <1>1
    <3> HIDE DEF v
    <3>q. QED BY <1>1, <1>7, <2>2, <3>1
  <2>3. \A k \in 0 .. n : k \in P
    <3> HIDE DEF P
    <3>q. QED BY <1>1, <2>1, <2>2, UpTo
  <2>q. QED BY <2>3
<1>9. PartialSums(v, s) /\ FoldLeft(+, 0, s) = v[Len(s)]
  <2>1. v \in [0 .. n -> Int]
    BY <1>8
  <2>2. v[n] = iter[1 .. n]
    BY <1>1
  <2> HIDE DEF v
  <2>q. QED BY <1>1, <1>5, <1>7, <2>1, <2>2 DEF PartialSums
<1> HIDE DEF v
<1>q. QED BY <1>9

\* What the fold is after each element.
LeftRun(v, iter, n, A, base, Op) ==
    /\ v \in [0 .. n -> A]
    /\ v[0] = base
    /\ \A k \in 1 .. n : v[k] = Op[<<k, v[k - 1]>>]
    /\ v[n] = iter[1 .. n]

\* What is needed of the function a fold chooses.
LeftSolved(iter, n, A, base, Op) ==
    /\ iter[{}] = base
    /\ \A T \in SUBSET (1 .. n) : T # {} /\ iter[T \ {Max(T)}] \in A
            => iter[T] = Op[<<Max(T), iter[T \ {Max(T)}]>>]

LEMMA LeftSteps ==
  ASSUME NEW n \in Nat, NEW A, NEW base \in A, NEW Op,
         \A i \in 1 .. n, a \in A : Op[<<i, a>>] \in A,
         NEW iter, LeftSolved(iter, n, A, base, Op)
  PROVE  \E v : LeftRun(v, iter, n, A, base, Op)
<1>1. ASSUME NEW k \in 1 .. n, iter[1 .. k - 1] \in A PROVE iter[1 .. k] = Op[<<k, iter[1 .. k - 1]>>]
  <2>1. k \in Nat \ {0} /\ 1 .. k \in SUBSET (1 .. n)
    OBVIOUS
  <2>2. Max(1 .. k) = k /\ (1 .. k) \ {k} = 1 .. k - 1 /\ 1 .. k # {}
    BY <2>1, LastOfInterval
  <2>q. QED BY <1>1, <2>1, <2>2 DEF LeftSolved
<1> DEFINE v == [k \in 0 .. n |-> iter[1 .. k]]
           P == {k \in 0 .. n : v[k] \in A}
<1>2. v[0] = base /\ 0 \in P
  <2>1. 1 .. 0 = {} /\ 0 \in 0 .. n
    OBVIOUS
  <2>q. QED BY <2>1 DEF LeftSolved
<1>3. ASSUME NEW k \in 1 .. n PROVE v[k] = iter[1 .. k] /\ v[k - 1] = iter[1 .. k - 1] /\ k \in 0 .. n
  OBVIOUS
<1>4. ASSUME NEW k \in 1 .. n, k - 1 \in P PROVE k \in P
  <2>1. v[k - 1] \in A
    BY <1>4
  <2> HIDE DEF v
  <2>q. QED BY <1>1, <1>3, <2>1
<1>5. \A k \in 0 .. n : v[k] \in A
  <2>1. \A k \in 0 .. n : k \in P
    <3> HIDE DEF P
    <3>q. QED BY <1>2, <1>4, UpTo
  <2>q. QED BY <2>1
<1>6. ASSUME NEW k \in 1 .. n PROVE v[k] = Op[<<k, v[k - 1]>>]
  <2>1. v[k - 1] \in A
    BY <1>5, k - 1 \in 0 .. n
  <2> HIDE DEF v
  <2>q. QED BY <1>1, <1>3, <2>1
<1>7. v \in [0 .. n -> A] /\ v[n] = iter[1 .. n]
  BY <1>5
<1>8. LeftRun(v, iter, n, A, base, Op)
  <2> HIDE DEF v
  <2>q. QED BY <1>2, <1>6, <1>7 DEF LeftRun
<1> HIDE DEF v
<1>q. QED BY <1>8

-----------------------------------------------------------------------------
(* The two passes for the downswing                                        *)

LEMMA MaxOfTwo ==
  ASSUME NEW a \in Int, NEW b \in Int
  PROVE  Max({a, b}) \in {a, b} /\ Max({a, b}) >= a /\ Max({a, b}) >= b
<1>1. \E x \in {a, b} : \A y \in {a, b} : x >= y
  <2>1. CASE a >= b
    BY <2>1
  <2>2. CASE b >= a
    BY <2>2
  <2>q. QED BY <2>1, <2>2
<1>q. QED BY <1>1 DEF Max

Curves == [sum : Int, peak : Int, worst : Int, curve : Seq(Int)]
CurveStep(r, x) ==
    LET sum == r.sum + x
        peak == Max({r.peak, sum})
    IN [sum |-> sum, peak |-> peak, worst |-> Max({r.worst, peak - sum}), curve |-> Append(r.curve, sum)]
NoCurve == [sum |-> 0, peak |-> 0, worst |-> 0, curve |-> <<>>]

LEMMA CurveTyped ==
  ASSUME NEW r \in Curves, NEW x \in Int
  PROVE  CurveStep(r, x) \in Curves
<1>1. PICK sum : sum = r.sum + x
  OBVIOUS
<1>2. sum \in Int /\ r.peak \in Int /\ r.worst \in Int /\ r.curve \in Seq(Int)
  BY <1>1 DEF Curves
<1>3. PICK peak : peak = Max({r.peak, sum})
  OBVIOUS
<1>4. peak \in Int
  BY <1>2, <1>3, MaxOfTwo
<1>5. Max({r.worst, peak - sum}) \in Int
  <2>1. PICK fall \in Int : fall = peak - sum
    BY <1>2, <1>4
  <2>q. QED BY <1>2, <2>1, MaxOfTwo
<1>6. Append(r.curve, sum) \in Seq(Int)
  BY <1>2
<1>q. QED BY <1>1, <1>2, <1>3, <1>4, <1>5, <1>6 DEF CurveStep, Curves

LEMMA DownswingRuns ==
  ASSUME NEW n \in Nat, NEW s, DOMAIN s = 1 .. n, \A i \in 1 .. n : s[i] \in Int
  PROVE  \E v : /\ v \in [0 .. n -> Curves]
                /\ v[0] = NoCurve
                /\ \A k \in 1 .. n : v[k] = CurveStep(v[k - 1], s[k])
                /\ Downswing(s) = v[n]
<1> DEFINE Eq(iter) == iter = [T \in SUBSET DOMAIN s |->
                            IF T = {} THEN NoCurve
                            ELSE LET x == Max(T) IN CurveStep(iter[T \ {x}], s[x])]
<1>1. PICK Op : Op = [p \in (1 .. n) \X Curves |-> CurveStep(p[2], s[p[1]])]
  OBVIOUS
<1>2. NoCurve \in Curves
  BY DEF NoCurve, Curves
<1>3. \A i \in 1 .. n, r \in Curves : Op[<<i, r>>] = CurveStep(r, s[i]) /\ Op[<<i, r>>] \in Curves
  BY <1>1, CurveTyped
<1>4. \E iter : Eq(iter)
  <2>1. PICK iter \in [SUBSET (1 .. n) -> Curves] : LeftEq(iter, n, NoCurve, Op)
    BY <1>2, <1>3, LeftExists
  <2>2. ASSUME NEW T \in SUBSET (1 .. n), T # {}
        PROVE  Op[<<Max(T), iter[T \ {Max(T)}]>>] = CurveStep(iter[T \ {Max(T)}], s[Max(T)])
    <3>1. Max(T) \in 1 .. n /\ iter[T \ {Max(T)}] \in Curves
      BY <2>1, <2>2, Greatest, T \ {Max(T)} \in SUBSET (1 .. n)
    <3>q. QED BY <1>3, <3>1
  <2>3. Eq(iter)
    BY <2>1, <2>2 DEF LeftEq
  <2>q. QED BY <2>3
<1>5. PICK iter : iter = CHOOSE i : Eq(i)
  OBVIOUS
<1>6. Eq(iter)
  BY <1>4, <1>5
<1>7. Downswing(s) = iter[1 .. n]
  BY <1>5 DEF Downswing, FoldLeft, MapThenFoldSet, CurveStep, NoCurve
<1>8. ASSUME NEW T \in SUBSET (1 .. n), T # {}, iter[T \ {Max(T)}] \in Curves
      PROVE  iter[T] = Op[<<Max(T), iter[T \ {Max(T)}]>>]
  <2>1. Max(T) \in 1 .. n
    BY <1>8, Greatest
  <2>2. iter[T] = CurveStep(iter[T \ {Max(T)}], s[Max(T)])
    BY <1>6, <1>8
  <2>q. QED BY <2>1, <2>2, <1>3, <1>8
<1>9. iter[{}] = NoCurve
  BY <1>6
<1>10. PICK v : LeftRun(v, iter, n, Curves, NoCurve, Op)
  <2> HIDE DEF Eq
  <2>1. \A i \in 1 .. n, r \in Curves : Op[<<i, r>>] \in Curves
    BY <1>3
  <2>2. LeftSolved(iter, n, Curves, NoCurve, Op)
    BY <1>8, <1>9 DEF LeftSolved
  <2>q. QED BY <1>2, <2>1, <2>2, LeftSteps
<1>11. \A k \in 1 .. n : v[k] = CurveStep(v[k - 1], s[k])
  <2>1. ASSUME NEW k \in 1 .. n PROVE v[k] = CurveStep(v[k - 1], s[k])
    <3>1. v[k - 1] \in Curves
      BY <1>10, k - 1 \in 0 .. n DEF LeftRun
    <3>q. QED BY <1>3, <1>10, <3>1 DEF LeftRun
  <2>q. QED BY <2>1
<1>q. QED BY <1>7, <1>10, <1>11 DEF LeftRun

Falls == [sum : Int, peak : Int, worst : Int]
FallStep(r, x) ==
    LET sum == r.sum + x
    IN [sum |-> sum, peak |-> Max({r.peak, sum}), worst |-> Max({r.worst, Max({r.peak, sum}) - sum})]
NoFall == [sum |-> 0, peak |-> 0, worst |-> 0]

LEMMA FallTyped ==
  ASSUME NEW r \in Falls, NEW x \in Int
  PROVE  FallStep(r, x) \in Falls
<1>1. PICK sum : sum = r.sum + x
  OBVIOUS
<1>2. sum \in Int /\ r.peak \in Int /\ r.worst \in Int
  BY <1>1 DEF Falls
<1>3. PICK peak : peak = Max({r.peak, sum})
  OBVIOUS
<1>4. peak \in Int
  BY <1>2, <1>3, MaxOfTwo
<1>5. Max({r.worst, peak - sum}) \in Int
  <2>1. PICK fall \in Int : fall = peak - sum
    BY <1>2, <1>4
  <2>q. QED BY <1>2, <2>1, MaxOfTwo
<1>q. QED BY <1>1, <1>2, <1>3, <1>4, <1>5 DEF FallStep, Falls

IsFallRun(v, s, n) ==
    /\ v \in [0 .. n -> Falls]
    /\ v[0] = NoFall
    /\ \A k \in 1 .. n : v[k] = FallStep(v[k - 1], s[k])
    /\ MaxDrawdown(s) = v[n].worst

LEMMA DrawdownRuns ==
  ASSUME NEW n \in Nat, NEW s, DOMAIN s = 1 .. n, \A i \in 1 .. n : s[i] \in Int
  PROVE  \E v : IsFallRun(v, s, n)
<1> DEFINE Eq(iter) == iter = [T \in SUBSET DOMAIN s |->
                            IF T = {} THEN NoFall
                            ELSE LET x == Max(T) IN FallStep(iter[T \ {x}], s[x])]
<1>1. PICK Op : Op = [p \in (1 .. n) \X Falls |-> FallStep(p[2], s[p[1]])]
  OBVIOUS
<1>2. NoFall \in Falls
  BY DEF NoFall, Falls
<1>3. \A i \in 1 .. n, r \in Falls : Op[<<i, r>>] = FallStep(r, s[i]) /\ Op[<<i, r>>] \in Falls
  BY <1>1, FallTyped
<1>4. \E iter : Eq(iter)
  <2>1. PICK iter \in [SUBSET (1 .. n) -> Falls] : LeftEq(iter, n, NoFall, Op)
    BY <1>2, <1>3, LeftExists
  <2>2. ASSUME NEW T \in SUBSET (1 .. n), T # {}
        PROVE  Op[<<Max(T), iter[T \ {Max(T)}]>>] = FallStep(iter[T \ {Max(T)}], s[Max(T)])
    <3>1. Max(T) \in 1 .. n /\ iter[T \ {Max(T)}] \in Falls
      BY <2>1, <2>2, Greatest, T \ {Max(T)} \in SUBSET (1 .. n)
    <3>q. QED BY <1>3, <3>1
  <2>3. Eq(iter)
    BY <2>1, <2>2 DEF LeftEq
  <2>q. QED BY <2>3
<1>5. PICK iter : iter = CHOOSE i : Eq(i)
  OBVIOUS
<1>6. Eq(iter)
  BY <1>4, <1>5
<1>7. MaxDrawdown(s) = iter[1 .. n].worst
  BY <1>5 DEF MaxDrawdown, FoldLeft, MapThenFoldSet, FallStep, NoFall
<1>8. ASSUME NEW T \in SUBSET (1 .. n), T # {}, iter[T \ {Max(T)}] \in Falls
      PROVE  iter[T] = Op[<<Max(T), iter[T \ {Max(T)}]>>]
  <2>1. Max(T) \in 1 .. n
    BY <1>8, Greatest
  <2>2. iter[T] = FallStep(iter[T \ {Max(T)}], s[Max(T)])
    BY <1>6, <1>8
  <2>q. QED BY <2>1, <2>2, <1>3, <1>8
<1>9. iter[{}] = NoFall
  BY <1>6
<1>10. PICK v : LeftRun(v, iter, n, Falls, NoFall, Op)
  <2> HIDE DEF Eq
  <2>1. \A i \in 1 .. n, r \in Falls : Op[<<i, r>>] \in Falls
    BY <1>3
  <2>2. LeftSolved(iter, n, Falls, NoFall, Op)
    BY <1>8, <1>9 DEF LeftSolved
  <2>q. QED BY <1>2, <2>1, <2>2, LeftSteps
<1>11. \A k \in 1 .. n : v[k] = FallStep(v[k - 1], s[k])
  <2>1. ASSUME NEW k \in 1 .. n PROVE v[k] = FallStep(v[k - 1], s[k])
    <3>1. v[k - 1] \in Falls
      BY <1>10, k - 1 \in 0 .. n DEF LeftRun
    <3>q. QED BY <1>3, <1>10, <3>1 DEF LeftRun
  <2>q. QED BY <2>1
<1>12. IsFallRun(v, s, n)
  BY <1>7, <1>10, <1>11 DEF LeftRun, IsFallRun
<1>q. QED BY <1>12

-----------------------------------------------------------------------------
(* What the passes find: the deepest fall of the partial sums              *)

IsPeak(p, P, n) == (\A i \in 0 .. n : P[i] =< p) /\ (\E i \in 0 .. n : P[i] = p)
IsDeepest(w, P, n) ==
    /\ \A i, j \in 0 .. n : i =< j => P[i] - P[j] =< w
    /\ \E i, j \in 0 .. n : i =< j /\ w = P[i] - P[j]

LEMMA OneDeepest ==
  ASSUME NEW n \in Nat, NEW P \in [0 .. n -> Int], NEW w, NEW x, IsDeepest(w, P, n), IsDeepest(x, P, n)
  PROVE  w = x
<1>1. PICK i, j \in 0 .. n : i =< j /\ w = P[i] - P[j]
  BY DEF IsDeepest
<1>2. PICK k, l \in 0 .. n : k =< l /\ x = P[k] - P[l]
  BY DEF IsDeepest
<1>3. w =< x /\ x =< w
  BY <1>1, <1>2 DEF IsDeepest
<1>4. w \in Int /\ x \in Int
  BY <1>1, <1>2
<1>q. QED BY <1>3, <1>4

\* One more sum.
LEMMA DeeperFall ==
  ASSUME NEW n \in Nat, NEW P, \A i \in 0 .. n + 1 : P[i] \in Int,
         NEW peak, IsPeak(peak, P, n), NEW w, IsDeepest(w, P, n),
         NEW p, p = Max({peak, P[n + 1]}), NEW x, x = Max({w, p - P[n + 1]})
  PROVE  IsPeak(p, P, n + 1) /\ IsDeepest(x, P, n + 1)
<1>0. peak \in Int /\ P[n + 1] \in Int /\ w \in Int
  BY DEF IsDeepest, IsPeak
<1>2. p \in {peak, P[n + 1]} /\ p >= peak /\ p >= P[n + 1] /\ p \in Int
  BY <1>0, MaxOfTwo
<1>3. \A i \in 0 .. n + 1 : i \in 0 .. n \/ i = n + 1
  OBVIOUS
<1>4. \A i \in 0 .. n + 1 : P[i] =< p
  BY <1>0, <1>2, <1>3 DEF IsPeak
<1>5. \E i \in 0 .. n + 1 : P[i] = p
  BY <1>2 DEF IsPeak
<1>7. x \in {w, p - P[n + 1]} /\ x >= w /\ x >= p - P[n + 1] /\ x \in Int
  <2>1. PICK f \in Int : f = p - P[n + 1]
    BY <1>0, <1>2
  <2>q. QED BY <1>0, <2>1, MaxOfTwo
<1>8. IsDeepest(x, P, n + 1)
  <2>1. ASSUME NEW i \in 0 .. n + 1, NEW j \in 0 .. n + 1, i =< j PROVE P[i] - P[j] =< x
    <3>1. CASE j = n + 1
      BY <3>1, <1>0, <1>2, <1>4, <1>7
    <3>2. CASE j # n + 1
      <4>1. i \in 0 .. n /\ j \in 0 .. n
        BY <3>2, <2>1
      <4>2. P[i] - P[j] =< w
        BY <4>1, <2>1 DEF IsDeepest
      <4>q. QED BY <4>1, <4>2, <1>0, <1>7
    <3>q. QED BY <3>1, <3>2
  <2>2. \E i, j \in 0 .. n + 1 : i =< j /\ x = P[i] - P[j]
    <3>1. CASE x = w
      <4>1. PICK i, j \in 0 .. n : i =< j /\ w = P[i] - P[j]
        BY DEF IsDeepest
      <4>q. QED BY <3>1, <4>1
    <3>2. CASE x = p - P[n + 1]
      <4>1. PICK i \in 0 .. n + 1 : P[i] = p
        BY <1>5
      <4>2. n + 1 \in 0 .. n + 1 /\ i =< n + 1
        OBVIOUS
      <4>q. QED BY <3>2, <4>1, <4>2
    <3>q. QED BY <3>1, <3>2, <1>7
  <2>q. QED BY <2>1, <2>2 DEF IsDeepest
<1>q. QED BY <1>4, <1>5, <1>8 DEF IsPeak

\* Downswing has the partial sums as its curve and their deepest fall.
LEMMA DownswingIs ==
  ASSUME NEW n \in Nat, NEW s \in Seq(Int), Len(s) = n, NEW P, PartialSums(P, s)
  PROVE  /\ IsDeepest(Downswing(s).worst, P, n)
         /\ Downswing(s).curve = [i \in 1 .. n |-> P[i]]
<1>1. PICK v : /\ v \in [0 .. n -> Curves]
               /\ v[0] = NoCurve
               /\ \A k \in 1 .. n : v[k] = CurveStep(v[k - 1], s[k])
               /\ Downswing(s) = v[n]
  BY DownswingRuns
<1>2. P \in [0 .. n -> Int] /\ P[0] = 0 /\ \A k \in 1 .. n : P[k] = P[k - 1] + s[k]
  BY DEF PartialSums
<1> DEFINE Right(k) == /\ v[k].sum = P[k]
                       /\ v[k].curve = [i \in 1 .. k |-> P[i]]
                       /\ IsPeak(v[k].peak, P, k)
                       /\ IsDeepest(v[k].worst, P, k)
           Q == {k \in 0 .. n : Right(k)}
<1>3. 0 \in Q
  <2>1. 0 \in 0 .. n /\ 0 .. 0 = {0} /\ 1 .. 0 = {}
    OBVIOUS
  <2>2. IsDeepest(v[0].worst, P, 0)
    BY <1>1, <1>2, <2>1 DEF IsDeepest, NoCurve
  <2>3. v[0].curve = [i \in 1 .. 0 |-> P[i]]
    BY <1>1, <2>1 DEF NoCurve
  <2>4. IsPeak(v[0].peak, P, 0)
    BY <1>1, <1>2, <2>1 DEF IsPeak, NoCurve
  <2>q. QED BY <1>1, <1>2, <2>1, <2>2, <2>3, <2>4 DEF NoCurve
<1>4. ASSUME NEW k \in 1 .. n, k - 1 \in Q PROVE k \in Q
  <2>1. PICK old, new, m : old = v[k - 1] /\ new = v[k] /\ m = k - 1
    OBVIOUS
  <2>2. m \in 0 .. n /\ m \in Nat /\ k = m + 1 /\ old \in Curves /\ k \in 0 .. n
    BY <1>1, <2>1
  <2>3. new = CurveStep(old, s[k]) /\ Right(m)
    BY <1>1, <1>4, <2>1
  <2>4. new.sum = P[k] /\ old.sum = P[m]
    BY <2>1, <2>2, <2>3, <1>2 DEF CurveStep
  <2>5. new.peak = Max({old.peak, P[k]}) /\ new.worst = Max({old.worst, new.peak - P[k]})
    <3>1. old.sum + s[k] = P[k]
      BY <2>1, <2>4, <1>2
    <3> HIDE DEF Right
    <3>q. QED BY <2>3, <3>1 DEF CurveStep
  <2>6. IsPeak(new.peak, P, k) /\ IsDeepest(new.worst, P, k)
    <3>1. \A i \in 0 .. m + 1 : P[i] \in Int
      BY <1>2, <2>2
    <3>2. IsPeak(old.peak, P, m) /\ IsDeepest(old.worst, P, m)
      BY <2>1, <2>3
    <3>3. new.peak = Max({old.peak, P[m + 1]}) /\ new.worst = Max({old.worst, new.peak - P[m + 1]})
      BY <2>2, <2>5
    <3>4. IsPeak(new.peak, P, m + 1) /\ IsDeepest(new.worst, P, m + 1)
      BY <2>2, <3>1, <3>2, <3>3, DeeperFall
    <3>q. QED BY <2>2, <3>4
  <2>7. new.curve = [i \in 1 .. k |-> P[i]]
    <3>1. new.curve = Append(old.curve, P[k]) /\ old.curve = [i \in 1 .. m |-> P[i]]
      BY <2>1, <2>3, <2>4 DEF CurveStep
    <3>2. Append([i \in 1 .. m |-> P[i]], P[k]) = [i \in 1 .. k |-> P[i]]
      BY <2>2, <1>2
    <3>q. QED BY <3>1, <3>2
  <2>q. QED BY <2>1, <2>2, <2>4, <2>6, <2>7
<1>5. n \in Q
  <2> HIDE DEF Q
  <2>q. QED BY <1>3, <1>4, UpTo, n \in 0 .. n
<1>q. QED BY <1>1, <1>5

\* So has max_drawdown, which keeps no curve.
LEMMA DrawdownIs ==
  ASSUME NEW n \in Nat, NEW s \in Seq(Int), Len(s) = n, NEW P, PartialSums(P, s)
  PROVE  IsDeepest(MaxDrawdown(s), P, n)
<1>0. PICK v : IsFallRun(v, s, n)
  BY DrawdownRuns
<1>1. /\ v \in [0 .. n -> Falls]
      /\ v[0] = NoFall
      /\ \A k \in 1 .. n : v[k] = FallStep(v[k - 1], s[k])
      /\ MaxDrawdown(s) = v[n].worst
  BY <1>0 DEF IsFallRun
<1>2. P \in [0 .. n -> Int] /\ P[0] = 0 /\ \A k \in 1 .. n : P[k] = P[k - 1] + s[k]
  BY DEF PartialSums
<1> DEFINE Right(k) == /\ v[k].sum = P[k]
                       /\ IsPeak(v[k].peak, P, k)
                       /\ IsDeepest(v[k].worst, P, k)
           Q == {k \in 0 .. n : Right(k)}
<1>3. 0 \in Q
  <2>1. 0 \in 0 .. n /\ 0 .. 0 = {0} /\ 1 .. 0 = {}
    OBVIOUS
  <2>2. IsDeepest(v[0].worst, P, 0)
    BY <1>1, <1>2, <2>1 DEF IsDeepest, NoFall
  <2>4. IsPeak(v[0].peak, P, 0)
    BY <1>1, <1>2, <2>1 DEF IsPeak, NoFall
  <2>q. QED BY <1>1, <1>2, <2>1, <2>2, <2>4 DEF NoFall
<1>4. ASSUME NEW k \in 1 .. n, k - 1 \in Q PROVE k \in Q
  <2>1. PICK old, new, m : old = v[k - 1] /\ new = v[k] /\ m = k - 1
    OBVIOUS
  <2>2. m \in 0 .. n /\ m \in Nat /\ k = m + 1 /\ old \in Falls /\ k \in 0 .. n
    BY <1>1, <2>1
  <2>3. new = FallStep(old, s[k]) /\ Right(m)
    BY <1>1, <1>4, <2>1
  <2>4. new.sum = P[k] /\ old.sum = P[m]
    BY <2>1, <2>2, <2>3, <1>2 DEF FallStep
  <2>5. new.peak = Max({old.peak, P[k]}) /\ new.worst = Max({old.worst, new.peak - P[k]})
    <3>1. old.sum + s[k] = P[k]
      BY <2>1, <2>4, <1>2
    <3> HIDE DEF Right
    <3>q. QED BY <2>3, <3>1 DEF FallStep
  <2>6. IsPeak(new.peak, P, k) /\ IsDeepest(new.worst, P, k)
    <3>1. \A i \in 0 .. m + 1 : P[i] \in Int
      BY <1>2, <2>2
    <3>2. IsPeak(old.peak, P, m) /\ IsDeepest(old.worst, P, m)
      BY <2>1, <2>3
    <3>3. new.peak = Max({old.peak, P[m + 1]}) /\ new.worst = Max({old.worst, new.peak - P[m + 1]})
      BY <2>2, <2>5
    <3>4. IsPeak(new.peak, P, m + 1) /\ IsDeepest(new.worst, P, m + 1)
      BY <2>2, <3>1, <3>2, <3>3, DeeperFall
    <3>q. QED BY <2>2, <3>4
  <2>q. QED BY <2>1, <2>2, <2>4, <2>6
<1>5. n \in Q
  <2> HIDE DEF Q
  <2>q. QED BY <1>3, <1>4, UpTo, n \in 0 .. n
<1>q. QED BY <1>1, <1>5

LEMMA SliceSum ==
  ASSUME NEW n \in Nat, NEW s \in Seq(Int), Len(s) = n, NEW P, PartialSums(P, s),
         NEW i \in 1 .. n, NEW j \in 1 .. n, i =< j
  PROVE  FoldLeft(+, 0, SubSeq(s, i, j)) = P[j] - P[i - 1]
<1>1. PICK t : t = SubSeq(s, i, j)
  OBVIOUS
<1>2. t \in Seq(Int) /\ Len(t) = j - i + 1 /\ \A k \in 1 .. j - i + 1 : t[k] = s[i - 1 + k]
  BY <1>1
<1>3. PICK v : PartialSums(v, t) /\ FoldLeft(+, 0, t) = v[Len(t)]
  BY <1>2, FoldOfSum
<1>4. PICK m \in Nat : m = j - i + 1
  OBVIOUS
<1>5. P \in [0 .. n -> Int] /\ P[0] = 0 /\ \A k \in 1 .. n : P[k] = P[k - 1] + s[k]
  BY DEF PartialSums
<1>6. v \in [0 .. m -> Int] /\ v[0] = 0 /\ \A k \in 1 .. m : v[k] = v[k - 1] + s[i - 1 + k]
  BY <1>2, <1>3, <1>4 DEF PartialSums
<1> DEFINE Q == {k \in 0 .. m : v[k] = P[i - 1 + k] - P[i - 1]}
<1>7. 0 \in Q
  BY <1>5, <1>6
<1>8. ASSUME NEW k \in 1 .. m, k - 1 \in Q PROVE k \in Q
  <2>1. i - 1 + k \in 1 .. n /\ i - 1 + k - 1 \in 0 .. n /\ i - 1 + (k - 1) = i - 1 + k - 1 /\ i - 1 \in 0 .. n
    BY <1>4
  <2>2. v[k - 1] = P[i - 1 + k - 1] - P[i - 1]
    BY <1>8, <2>1
  <2>3. P[i - 1 + k] = P[i - 1 + k - 1] + s[i - 1 + k] /\ v[k] = v[k - 1] + s[i - 1 + k]
    BY <2>1, <1>5, <1>6
  <2>4. P[i - 1 + k - 1] \in Int /\ P[i - 1] \in Int /\ s[i - 1 + k] \in Int
    BY <1>5, <2>1
  <2>5. v[k] = P[i - 1 + k] - P[i - 1]
    BY <2>2, <2>3, <2>4
  <2>q. QED BY <2>5
<1>9. m \in Q
  <2> HIDE DEF Q
  <2>q. QED BY <1>7, <1>8, UpTo, m \in 0 .. m
<1>10. i - 1 + m = j
  BY <1>4
<1>q. QED BY <1>1, <1>2, <1>3, <1>4, <1>9, <1>10

LEMMA EmptySlice ==
  ASSUME NEW s \in Seq(Int), NEW i \in 1 .. Len(s), NEW j \in 1 .. Len(s), i > j
  PROVE  FoldLeft(+, 0, SubSeq(s, i, j)) = 0
<1>1. PICK t : t = SubSeq(s, i, j)
  OBVIOUS
<1>2. t \in Seq(Int) /\ Len(t) = 0
  BY <1>1
<1>3. PICK v : PartialSums(v, t) /\ FoldLeft(+, 0, t) = v[Len(t)]
  BY <1>2, FoldOfSum
<1>q. QED BY <1>1, <1>2, <1>3 DEF PartialSums

\* The worst sum of consecutive results is the deepest fall of the partial sums.
LEMMA WorstFallIs ==
  ASSUME NEW n \in Nat, NEW s \in Seq(Int), Len(s) = n, NEW P, PartialSums(P, s), NEW w, IsDeepest(w, P, n)
  PROVE  WorstFall(s) = w
<1>1. P \in [0 .. n -> Int] /\ DOMAIN s = 1 .. n
  BY DEF PartialSums
<1>3. ASSUME NEW i \in 1 .. n, NEW j \in 1 .. n
      PROVE  -SliceTotal(s, i, j) = IF i =< j THEN P[i - 1] - P[j] ELSE 0
  <2>1. SliceTotal(s, i, j) = IF i =< j THEN P[j] - P[i - 1] ELSE 0
    <3>1. CASE i =< j
      <4>1. FoldLeft(+, 0, SubSeq(s, i, j)) = P[j] - P[i - 1]
        BY ZenonT(30), <3>1, SliceSum
      <4>q. QED BY <4>1, <3>1 DEF SliceTotal
    <3>2. CASE ~(i =< j)
      <4>1. i > j /\ i \in 1 .. Len(s) /\ j \in 1 .. Len(s)
        BY <3>2
      <4>2. FoldLeft(+, 0, SubSeq(s, i, j)) = 0
        BY <4>1, EmptySlice
      <4>q. QED BY <4>2, <3>2 DEF SliceTotal
    <3>q. QED BY <3>1, <3>2
  <2>2. P[j] \in Int /\ P[i - 1] \in Int
    BY <1>1
  <2>q. QED BY <2>1, <2>2
<1> DEFINE S == {0} \cup {-SliceTotal(s, i, j) : i, j \in DOMAIN s}
<1>5. WorstFall(s) = Max(S)
  BY DEF WorstFall
<1>6. w \in Int /\ 0 =< w
  <2>1. 0 \in 0 .. n /\ P[0] - P[0] = 0
    BY <1>1
  <2>q. QED BY <2>1, <1>1 DEF IsDeepest
<1>7. \A x \in S : x \in Int /\ x =< w
  <2>1. ASSUME NEW i \in 1 .. n, NEW j \in 1 .. n
        PROVE  -SliceTotal(s, i, j) \in Int /\ -SliceTotal(s, i, j) =< w
    <3>1. CASE i =< j
      <4>1. i - 1 \in 0 .. n /\ j \in 0 .. n /\ i - 1 =< j
        BY <3>1
      <4>2. PICK a \in 0 .. n : a = i - 1
        BY <4>1
      <4>3. P[a] - P[j] =< w
        BY <4>1, <4>2 DEF IsDeepest
      <4>4. P[a] - P[j] \in Int
        BY <4>1, <1>1
      <4>q. QED BY <4>2, <4>3, <4>4, <3>1, <1>3
    <3>2. CASE ~(i =< j)
      BY <3>2, <1>3, <1>6
    <3>q. QED BY <3>1, <3>2
  <2>2. ASSUME NEW x \in S, x # 0 PROVE \E i, j \in 1 .. n : x = -SliceTotal(s, i, j)
    BY <1>1, <2>2
  <2>q. QED BY <2>1, <2>2, <1>6
<1>8. w \in S
  <2>1. PICK a, b \in 0 .. n : a =< b /\ w = P[a] - P[b]
    BY DEF IsDeepest
  <2>2. CASE a = b
    <3>1. w = 0
      BY <2>1, <2>2, <1>1
    <3>q. QED BY <3>1
  <2>3. CASE a # b
    <3>1. a + 1 \in 1 .. n /\ b \in 1 .. n /\ a + 1 =< b /\ (a + 1) - 1 = a
      BY <2>1, <2>3
    <3>2. PICK i \in 1 .. n : i = a + 1
      BY <3>1
    <3>3. w = -SliceTotal(s, i, b)
      BY <3>1, <3>2, <2>1, <1>3
    <3>4. i \in DOMAIN s /\ b \in DOMAIN s
      BY <3>1, <1>1
    <3>5. \E k, l \in DOMAIN s : w = -SliceTotal(s, k, l)
      BY <3>3, <3>4
    <3>6. w \in {-SliceTotal(s, k, l) : k, l \in DOMAIN s}
      BY <3>5
    <3>q. QED BY <3>6
  <2>q. QED BY <2>2, <2>3
<1> HIDE DEF S
<1>9. Max(S) \in S /\ Max(S) >= w
  <2>1. \E x \in S : \A y \in S : x >= y
    BY <1>6, <1>7, <1>8
  <2>q. QED BY <2>1, <1>8 DEF Max
<1>q. QED BY <1>5, <1>6, <1>7, <1>9

-----------------------------------------------------------------------------
(* The order of the tournaments                                            *)

\* A finite set of the tournaments there may be.
Kept(ts) == IsFiniteSet(ts) /\ ts \subseteq Tournaments

LEMMA Fields ==
  ASSUME NEW t \in Tournaments
  PROVE  /\ t.id \in Int /\ t.start \in Int /\ t.duration \in Int /\ t.ended \in Int /\ t.day \in Int
         /\ t.buyin \in Int /\ t.reward \in Int /\ t.rank \in Int /\ t.players \in Int
         /\ t.multiplier \in Int /\ t.chips \in Int /\ t.hands \in Int
         /\ t.expresso \in BOOLEAN /\ t.completed \in BOOLEAN /\ t.ticket \in BOOLEAN
<1>1. t \in [id : Int, start : Int, duration : Int, ended : Int, day : Int, buyin : Int, reward : Int,
             ticket : BOOLEAN, rank : Int, players : Int, multiplier : Int, chips : Int, hands : Int,
             expresso : BOOLEAN, completed : BOOLEAN]
  BY TournamentsAssumption
<1>q. QED BY <1>1

LEMMA KeptSubset == ASSUME NEW ts, Kept(ts), NEW us \in SUBSET ts PROVE Kept(us)
BY FS_Subset DEF Kept

LEMMA TotalOrder ==
  ASSUME NEW t \in Tournaments, NEW u \in Tournaments
  PROVE  /\ Precedes(t, u) \/ Precedes(u, t) \/ t = u
         /\ ~(Precedes(t, u) /\ Precedes(u, t))
         /\ ~Precedes(t, t)
         /\ \A w \in Tournaments : Precedes(t, u) /\ Precedes(u, w) => Precedes(t, w)
<1>1. \A x \in Tournaments : x.start \in Int /\ x.id \in Int
  BY Fields
<1>2. t.id = u.id => t = u
  BY TournamentsAssumption
<1>q. QED BY <1>1, <1>2 DEF Precedes

Earlier(ts, t) == {u \in ts : Precedes(u, t)}

LEMMA Ranked ==
  ASSUME NEW ts, Kept(ts)
  PROVE  /\ \A t \in ts : Cardinality(Earlier(ts, t)) \in 0 .. Cardinality(ts) - 1
         /\ \A t, u \in ts : Precedes(t, u) => Cardinality(Earlier(ts, t)) < Cardinality(Earlier(ts, u))
<1>1. IsFiniteSet(ts) /\ Cardinality(ts) \in Nat
  BY FS_CardinalityType DEF Kept
<1>2. ASSUME NEW t \in ts
      PROVE  /\ IsFiniteSet(Earlier(ts, t)) /\ Cardinality(Earlier(ts, t)) \in Nat
             /\ Cardinality(Earlier(ts, t)) < Cardinality(ts)
  <2>1. PICK E : E = Earlier(ts, t)
    OBVIOUS
  <2>2. E \in SUBSET ts /\ t \notin E
    BY <2>1, TotalOrder DEF Kept, Earlier
  <2>3. IsFiniteSet(E) /\ Cardinality(E) \in Nat /\ Cardinality(E) =< Cardinality(ts) /\ Cardinality(ts) # Cardinality(E)
    BY <1>1, <2>2, FS_Subset, FS_CardinalityType
  <2>q. QED BY <2>1, <2>3, <1>1
<1>3. ASSUME NEW t \in ts, NEW u \in ts, Precedes(t, u)
      PROVE  Cardinality(Earlier(ts, t)) < Cardinality(Earlier(ts, u))
  <2>1. PICK E, D : E = Earlier(ts, t) /\ D = Earlier(ts, u)
    OBVIOUS
  <2>2. E \in SUBSET D /\ t \in D /\ t \notin E
    BY <1>3, <2>1, TotalOrder DEF Kept, Earlier
  <2>3. IsFiniteSet(D) /\ Cardinality(D) \in Nat /\ Cardinality(E) \in Nat
    BY <1>2, <2>1
  <2>4. Cardinality(E) =< Cardinality(D) /\ Cardinality(D) # Cardinality(E)
    BY <2>2, <2>3, FS_Subset
  <2>q. QED BY <2>1, <2>3, <2>4
<1>q. QED BY <1>1, <1>2, <1>3

LEMMA OrderedIs ==
  ASSUME NEW ts, Kept(ts), NEW n, n = Cardinality(ts), NEW O, O = Ordered(ts)
  PROVE  /\ n \in Nat /\ O \in [1 .. n -> ts]
         /\ \A i, j \in 1 .. n : i < j => Precedes(O[i], O[j])
         /\ \A t \in ts : \E i \in 1 .. n : O[i] = t
<1>1. IsFiniteSet(ts) /\ n \in Nat
  BY FS_CardinalityType DEF Kept
<1>2. PICK r : r = [t \in ts |-> Cardinality(Earlier(ts, t)) + 1]
  OBVIOUS
<1>3. r \in [ts -> 1 .. n]
  BY <1>1, <1>2, Ranked
<1>4. \A t, u \in ts : Precedes(t, u) => r[t] < r[u]
  <2>1. ASSUME NEW t \in ts, NEW u \in ts, Precedes(t, u) PROVE r[t] < r[u]
    <3>1. Cardinality(Earlier(ts, t)) < Cardinality(Earlier(ts, u))
      BY <2>1, Ranked
    <3>2. Cardinality(Earlier(ts, t)) \in Nat /\ Cardinality(Earlier(ts, u)) \in Nat
      BY Ranked
    <3>q. QED BY <3>1, <3>2, <1>2
  <2>q. QED BY <2>1
<1>5. \A t, u \in ts : r[t] = r[u] => t = u
  BY <1>3, <1>4, TotalOrder DEF Kept
<1>6. r \in Injection(ts, 1 .. n)
  BY <1>3, <1>5 DEF Injection, IsInjective
<1>7. IsFiniteSet(1 .. n) /\ Cardinality(1 .. n) = n
  BY <1>1, FS_Interval
<1>8. r \in Surjection(ts, 1 .. n)
  BY <1>1, <1>6, <1>7, FS_Injection
<1>9. \A i \in 1 .. n : \E t \in ts : r[t] = i
  BY <1>8 DEF Surjection
<1>10. O = [i \in 1 .. n |-> CHOOSE t \in ts : Cardinality({u \in ts : Precedes(u, t)}) = i - 1]
  BY DEF Ordered
<1>11. ASSUME NEW i \in 1 .. n PROVE O[i] \in ts /\ r[O[i]] = i
  <2>1. PICK t \in ts : r[t] = i
    BY <1>9
  <2>2. Cardinality({u \in ts : Precedes(u, t)}) = i - 1
    <3>1. Cardinality(Earlier(ts, t)) \in Nat
      BY Ranked
    <3>q. QED BY <2>1, <3>1, <1>2 DEF Earlier
  <2>3. PICK o : o = CHOOSE x \in ts : Cardinality({u \in ts : Precedes(u, x)}) = i - 1
    OBVIOUS
  <2>4. o \in ts /\ Cardinality({u \in ts : Precedes(u, o)}) = i - 1
    BY <2>2, <2>3
  <2>5. r[o] = i
    BY <2>4, <1>2, <1>1 DEF Earlier
  <2>q. QED BY <1>10, <2>3, <2>4, <2>5
<1>12. O \in [1 .. n -> ts]
  BY <1>10, <1>11
<1>13. ASSUME NEW i \in 1 .. n, NEW j \in 1 .. n, i < j PROVE Precedes(O[i], O[j])
  <2>1. O[i] \in ts /\ O[j] \in ts /\ r[O[i]] = i /\ r[O[j]] = j
    BY <1>11
  <2>2. ~Precedes(O[j], O[i]) /\ O[i] # O[j]
    BY <1>4, <1>13, <2>1
  <2>q. QED BY <2>1, <2>2, TotalOrder DEF Kept
<1>14. ASSUME NEW t \in ts PROVE \E i \in 1 .. n : O[i] = t
  BY <1>3, <1>5, <1>11
<1>q. QED BY <1>1, <1>12, <1>13, <1>14

-----------------------------------------------------------------------------
(* The totals of the reports are sums                                      *)

FieldTotal(ts, c) == Total(ts, LAMBDA t : t[c])
NetSum(ts) == Total(ts, NetResult)
Columns == {"buyin", "reward", "duration", "hands", "chips"}

LEMMA TotalIs ==
  ASSUME NEW ts, Kept(ts), NEW c \in Columns
  PROVE  FieldTotal(ts, c) = Sum([t \in ts |-> t[c]], ts) /\ FieldTotal(ts, c) \in Int
<1>1. PICK F : F = [t \in ts |-> t[c]]
  OBVIOUS
<1>2. IsFiniteSet(ts) /\ Tables(F, ts)
  BY <1>1, Fields DEF Tables, Kept, Columns
<1> DEFINE Eq(iter) == iter = [s \in SUBSET ts |->
                            IF s = {} THEN 0 ELSE LET x == CHOOSE x \in s : TRUE IN x[c] + iter[s \ {x}]]
<1>3. ASSUME NEW iter PROVE SumEq(iter, F, ts) <=> Eq(iter)
  <2>1. \A s \in SUBSET ts : s # {} => F[Pick(s)] = Pick(s)[c]
    BY <1>1, PickIn
  <2>2. [s \in SUBSET ts |-> IF s = {} THEN 0 ELSE F[Pick(s)] + iter[s \ {Pick(s)}]]
        = [s \in SUBSET ts |-> IF s = {} THEN 0 ELSE Pick(s)[c] + iter[s \ {Pick(s)}]]
    BY <2>1
  <2>q. QED BY <2>2 DEF SumEq, Pick
<1>4. \E iter : Eq(iter)
  <2>1. PICK iter : SumEq(iter, F, ts)
    BY <1>2, SumEqHolds
  <2>2. Eq(iter)
    BY <1>3, <2>1
  <2> HIDE DEF Eq
  <2>q. QED BY <2>2
<1>5. PICK iter : iter = CHOOSE i : Eq(i)
  OBVIOUS
<1>6. SumEq(iter, F, ts)
  BY <1>3, <1>4, <1>5
<1>7. FieldTotal(ts, c) = iter[ts]
  BY <1>5 DEF FieldTotal, Total, MapThenFoldSet
<1>8. iter[ts] = Sum(F, ts)
  BY <1>2, <1>6, AnyOrder, SumIs
<1>q. QED BY <1>1, <1>2, <1>7, <1>8, SumStep

LEMMA NetIs ==
  ASSUME NEW ts, Kept(ts), NEW F, F = [t \in ts |-> NetResult(t)]
  PROVE  NetSum(ts) = Sum(F, ts) /\ Tables(F, ts) /\ NetSum(ts) \in Int
<1>2. IsFiniteSet(ts) /\ Tables(F, ts)
  BY Fields DEF Tables, Kept, NetResult
<1> DEFINE Eq(iter) == iter = [s \in SUBSET ts |->
                            IF s = {} THEN 0 ELSE LET x == CHOOSE x \in s : TRUE IN NetResult(x) + iter[s \ {x}]]
<1>3. ASSUME NEW iter PROVE SumEq(iter, F, ts) <=> Eq(iter)
  <2>1. \A s \in SUBSET ts : s # {} => F[Pick(s)] = NetResult(Pick(s))
    BY PickIn
  <2>2. [s \in SUBSET ts |-> IF s = {} THEN 0 ELSE F[Pick(s)] + iter[s \ {Pick(s)}]]
        = [s \in SUBSET ts |-> IF s = {} THEN 0 ELSE NetResult(Pick(s)) + iter[s \ {Pick(s)}]]
    BY <2>1
  <2>q. QED BY <2>2 DEF SumEq, Pick
<1>4. \E iter : Eq(iter)
  <2>1. PICK iter : SumEq(iter, F, ts)
    BY <1>2, SumEqHolds
  <2>2. Eq(iter)
    BY <1>3, <2>1
  <2> HIDE DEF Eq
  <2>q. QED BY <2>2
<1>5. PICK iter : iter = CHOOSE i : Eq(i)
  OBVIOUS
<1>6. SumEq(iter, F, ts)
  BY <1>3, <1>4, <1>5
<1>7. NetSum(ts) = iter[ts]
  BY <1>5 DEF NetSum, Total, MapThenFoldSet
<1>8. iter[ts] = Sum(F, ts)
  BY <1>2, <1>6, AnyOrder, SumIs
<1>q. QED BY <1>2, <1>7, <1>8, SumStep

\* What was won less what was paid.
LEMMA NetOfTotals ==
  ASSUME NEW ts, Kept(ts)
  PROVE  NetSum(ts) = FieldTotal(ts, "reward") - FieldTotal(ts, "buyin")
<1>1. PICK F, R, B : F = [t \in ts |-> NetResult(t)] /\ R = [t \in ts |-> t["reward"]] /\ B = [t \in ts |-> t["buyin"]]
  OBVIOUS
<1>2. FieldTotal(ts, "reward") = Sum(R, ts) /\ FieldTotal(ts, "buyin") = Sum(B, ts)
  BY <1>1, TotalIs DEF Columns
<1>3. NetSum(ts) = Sum(F, ts) /\ Tables(F, ts)
  BY <1>1, NetIs
<1>4. IsFiniteSet(ts) /\ Tables(R, ts) /\ Tables(B, ts)
  BY <1>1, Fields DEF Tables, Kept
<1>5. \A t \in ts : F[t] = R[t] - B[t]
  BY <1>1 DEF NetResult
<1>q. QED BY <1>2, <1>3, <1>4, <1>5, SumMinus

LEMMA SumOfFunction == ASSUME NEW fun PROVE SumFunction(fun) = Sum(fun, DOMAIN fun)
BY DEF SumFunction, SumFunctionOnSet, FoldFunctionOnSet, MapThenFoldSet, Sum, SumEq, Pick

\* A breakdown of ts: one line for each value of the key.
Breakdown(groups, ts, key) ==
    /\ DOMAIN groups = {key[t] : t \in ts}
    /\ \A k \in DOMAIN groups : /\ groups[k].games = Cardinality({t \in ts : key[t] = k})
                                /\ groups[k].net = NetSum({t \in ts : key[t] = k})

LEMMA BreakdownAddsUp ==
  ASSUME NEW ts, Kept(ts), NEW groups, NEW key, DOMAIN key = ts, Breakdown(groups, ts, key)
  PROVE  GroupTotals(groups) = [games |-> Cardinality(ts), net |-> NetSum(ts)]
<1>1. PICK K : K = DOMAIN groups
  OBVIOUS
<1>2. IsFiniteSet(ts) /\ \A t \in ts : key[t] \in K
  BY <1>1 DEF Kept, Breakdown
<1>3. IsFiniteSet(K)
  <2>1. PICK f : f = [t \in ts |-> key[t]]
    OBVIOUS
  <2>2. f \in Surjection(ts, K)
    BY <1>1, <2>1 DEF Breakdown, Surjection
  <2>q. QED BY <1>2, <2>2, FS_Surjection
<1>4. ASSUME NEW k \in K PROVE Kept({t \in ts : key[t] = k})
  BY KeptSubset, {t \in ts : key[t] = k} \in SUBSET ts
<1>5. SumFunction([k \in K |-> groups[k].games]) = Cardinality(ts)
  <2>1. PICK F, G, H : /\ F = [t \in ts |-> 1]
                       /\ G = [k \in K |-> groups[k].games]
                       /\ H = [k \in K |-> Sum(F, {t \in ts : key[t] = k})]
    OBVIOUS
  <2>2. Tables(F, ts)
    BY <2>1 DEF Tables
  <2>3. ASSUME NEW k \in K PROVE G[k] = H[k] /\ G[k] \in Int
    <3>1. PICK part : part = {t \in ts : key[t] = k}
      OBVIOUS
    <3>2. IsFiniteSet(part) /\ Tables(F, part) /\ \A t \in part : F[t] = 1
      BY <1>4, <2>1, <3>1 DEF Kept, Tables
    <3>3. Sum(F, part) = Cardinality(part) /\ Cardinality(part) \in Int
      BY <3>2, SumOnes, FS_CardinalityType
    <3>q. QED BY <1>1, <2>1, <3>1, <3>3 DEF Breakdown
  <2>4. Tables(G, K) /\ Tables(H, K)
    BY <2>1, <2>3 DEF Tables
  <2>5. Sum(G, K) = Sum(H, K)
    BY <1>3, <2>3, <2>4, SumSame
  <2>6. Sum(H, K) = Sum(F, ts)
    BY <1>2, <1>3, <2>1, <2>2, SumOfParts
  <2>7. Sum(F, ts) = Cardinality(ts)
    BY <1>2, <2>1, <2>2, SumOnes
  <2>8. SumFunction(G) = Sum(G, K)
    BY <2>1, SumOfFunction
  <2>q. QED BY <2>1, <2>5, <2>6, <2>7, <2>8
<1>6. SumFunction([k \in K |-> groups[k].net]) = NetSum(ts)
  <2>1. PICK F, G, H : /\ F = [t \in ts |-> NetResult(t)]
                       /\ G = [k \in K |-> groups[k].net]
                       /\ H = [k \in K |-> Sum(F, {t \in ts : key[t] = k})]
    OBVIOUS
  <2>2. Tables(F, ts) /\ NetSum(ts) = Sum(F, ts)
    BY <2>1, NetIs
  <2>3. ASSUME NEW k \in K PROVE G[k] = H[k] /\ G[k] \in Int
    <3>1. PICK part : part = {t \in ts : key[t] = k}
      OBVIOUS
    <3>2. PICK f : f = [t \in part |-> NetResult(t)]
      OBVIOUS
    <3>3. Kept(part) /\ NetSum(part) = Sum(f, part) /\ Tables(f, part) /\ NetSum(part) \in Int
      BY <1>4, <3>1, <3>2, NetIs
    <3>4. Tables(F, part) /\ IsFiniteSet(part) /\ \A t \in part : f[t] = F[t]
      BY <2>1, <2>2, <3>1, <3>2, <3>3 DEF Tables, Kept
    <3>5. Sum(f, part) = Sum(F, part)
      BY <3>3, <3>4, SumSame
    <3>q. QED BY <1>1, <2>1, <3>1, <3>3, <3>5 DEF Breakdown
  <2>4. Tables(G, K) /\ Tables(H, K)
    BY <2>1, <2>3 DEF Tables
  <2>5. Sum(G, K) = Sum(H, K)
    BY <1>3, <2>3, <2>4, SumSame
  <2>6. Sum(H, K) = Sum(F, ts)
    BY <1>2, <1>3, <2>1, <2>2, SumOfParts
  <2>8. SumFunction(G) = Sum(G, K)
    BY <2>1, SumOfFunction
  <2>q. QED BY <2>1, <2>2, <2>5, <2>6, <2>8
<1>q. QED BY <1>1, <1>5, <1>6 DEF GroupTotals

-----------------------------------------------------------------------------
(* The two dashboards                                                      *)

LEMMA NetsAre ==
  ASSUME NEW ts, Kept(ts), NEW n, n = Cardinality(ts), NEW s, s = Nets(Ordered(ts))
  PROVE  /\ n \in Nat /\ s \in Seq(Int) /\ Len(s) = n /\ DOMAIN s = 1 .. n
         /\ \A i \in 1 .. n : s[i] = NetResult(Ordered(ts)[i])
<1>1. PICK O : O = Ordered(ts)
  OBVIOUS
<1>2. n \in Nat /\ O \in [1 .. n -> ts]
  BY <1>1, OrderedIs
<1>3. s = [i \in 1 .. n |-> NetResult(O[i])]
  BY <1>1, <1>2 DEF Nets
<1>4. \A i \in 1 .. n : NetResult(O[i]) \in Int
  BY <1>2, Fields DEF NetResult, Kept
<1>q. QED BY <1>1, <1>2, <1>3, <1>4

\* The passes over the results find the worst run of them and the same curve.
LEMMA PassesAgree ==
  ASSUME NEW s \in Seq(Int)
  PROVE  /\ Downswing(s).worst = WorstFall(s)
         /\ MaxDrawdown(s) = WorstFall(s)
         /\ Downswing(s).curve = [i \in DOMAIN s |-> SliceTotal(s, 1, i)]
<1>1. PICK n \in Nat : n = Len(s) /\ DOMAIN s = 1 .. n
  OBVIOUS
<1>2. PICK P : PartialSums(P, s)
  BY FoldOfSum
<1>3. /\ IsDeepest(Downswing(s).worst, P, n) /\ IsDeepest(MaxDrawdown(s), P, n)
      /\ Downswing(s).curve = [i \in 1 .. n |-> P[i]]
  BY <1>1, <1>2, DownswingIs, DrawdownIs
<1>4. WorstFall(s) = Downswing(s).worst /\ WorstFall(s) = MaxDrawdown(s)
  BY <1>1, <1>2, <1>3, WorstFallIs
<1>5. ASSUME NEW i \in 1 .. n PROVE SliceTotal(s, 1, i) = P[i]
  <2>1. 1 \in 1 .. n /\ 1 =< i
    OBVIOUS
  <2>2. FoldLeft(+, 0, SubSeq(s, 1, i)) = P[i] - P[1 - 1]
    BY ZenonT(30), <1>1, <1>2, <2>1, SliceSum
  <2>3. P[1 - 1] = 0 /\ P[i] \in Int
    BY <1>1, <1>2 DEF PartialSums
  <2>4. SliceTotal(s, 1, i) = P[i] - P[1 - 1]
    BY <2>2, Zenon DEF SliceTotal
  <2>q. QED BY <2>3, <2>4
<1>q. QED BY <1>1, <1>3, <1>4, <1>5

LEMMA DashboardFields ==
  ASSUME NEW ts, NEW d, d = Dashboard(ts)
  PROVE  /\ d.games = Cardinality(ts)
         /\ d.hands = FieldTotal(ts, "hands")
         /\ d.buyins = FieldTotal(ts, "buyin")
         /\ d.winnings = FieldTotal(ts, "reward")
         /\ d.net = FieldTotal(ts, "reward") - FieldTotal(ts, "buyin")
         /\ d.roi = Rate(FieldTotal(ts, "reward") - FieldTotal(ts, "buyin"), FieldTotal(ts, "buyin"))
         /\ d.hourly = Rate(60 * (FieldTotal(ts, "reward") - FieldTotal(ts, "buyin")), FieldTotal(ts, "duration"))
         /\ d.downswing = Downswing(Nets(Ordered(ts))).worst
         /\ d.bankroll = Downswing(Nets(Ordered(ts))).curve
<1>1. d.games = Cardinality(ts)
  BY Zenon DEF Dashboard
<1>2. d.hands = FieldTotal(ts, "hands")
  BY Zenon DEF Dashboard, FieldTotal
<1>3. d.buyins = FieldTotal(ts, "buyin")
  BY Zenon DEF Dashboard, FieldTotal
<1>4. d.winnings = FieldTotal(ts, "reward")
  BY Zenon DEF Dashboard, FieldTotal
<1>5. d.net = FieldTotal(ts, "reward") - FieldTotal(ts, "buyin")
  BY Zenon DEF Dashboard, FieldTotal
<1>6. d.roi = Rate(FieldTotal(ts, "reward") - FieldTotal(ts, "buyin"), FieldTotal(ts, "buyin"))
  BY Zenon DEF Dashboard, FieldTotal
<1>7. d.hourly = Rate(60 * (FieldTotal(ts, "reward") - FieldTotal(ts, "buyin")), FieldTotal(ts, "duration"))
  BY Zenon DEF Dashboard, FieldTotal
<1>8. d.downswing = Downswing(Nets(Ordered(ts))).worst /\ d.bankroll = Downswing(Nets(Ordered(ts))).curve
  BY Zenon DEF Dashboard
<1>q. QED BY <1>1, <1>2, <1>3, <1>4, <1>5, <1>6, <1>7, <1>8

WithRank(ts, r) == Cardinality({t \in ts : t.rank = r})
Paid(ts) == Cardinality({t \in ts : t.reward > 0})
ChipKnown(ts) == {t \in ts : t.chips # NoChips}

LEMMA DashboardRates ==
  ASSUME NEW ts, NEW d, d = Dashboard(ts)
  PROVE  /\ d.wins = WithRank(ts, 1) /\ d.seconds = WithRank(ts, 2) /\ d.thirds = WithRank(ts, 3)
         /\ d.itm = Rate(Paid(ts), Cardinality(ts))
         /\ d.headsUpWins = Rate(WithRank(ts, 1), WithRank(ts, 1) + WithRank(ts, 2))
         /\ d.firstElimination = Rate(WithRank(ts, 3), Cardinality(ts))
         /\ d.chipEv = Rate(FieldTotal(ChipKnown(ts), "chips"), Cardinality(ChipKnown(ts)))
         /\ d.chipCoverage = Rate(Cardinality(ChipKnown(ts)), Cardinality(ts))
<1>1. d.wins = WithRank(ts, 1) /\ d.seconds = WithRank(ts, 2) /\ d.thirds = WithRank(ts, 3)
  BY Zenon DEF Dashboard, Having, WithRank
<1>2. d.itm = Rate(Paid(ts), Cardinality(ts))
  BY Zenon DEF Dashboard, Having, Paid
<1>3. d.headsUpWins = Rate(WithRank(ts, 1), WithRank(ts, 1) + WithRank(ts, 2))
  BY Zenon DEF Dashboard, Having, WithRank
<1>4. d.firstElimination = Rate(WithRank(ts, 3), Cardinality(ts))
  BY Zenon DEF Dashboard, Having, WithRank
<1>5. d.chipEv = Rate(FieldTotal(ChipKnown(ts), "chips"), Cardinality(ChipKnown(ts)))
  BY Zenon DEF Dashboard, FieldTotal, ChipKnown
<1>6. d.chipCoverage = Rate(Cardinality(ChipKnown(ts)), Cardinality(ts))
  BY Zenon DEF Dashboard, ChipKnown
<1>q. QED BY <1>1, <1>2, <1>3, <1>4, <1>5, <1>6

MultiplierTotal(ts) == Total(ts, LAMBDA t : t.multiplier)

LEMMA AverageMultipliers ==
  ASSUME NEW ts, NEW g, g = Completed(ts), IsFiniteSet(g), Multiplied(g) # {}
  PROVE  ExpressoBreakdown(ts).averageMultiplier = Dashboard(g).averageMultiplier
<1>1. PICK m, k : m = Multiplied(g) /\ k = Cardinality(m)
  OBVIOUS
<1>2. Dashboard(g).averageMultiplier = Rate(MultiplierTotal(m), Max({1, k}))
  BY Zenon, <1>1 DEF Dashboard, MultiplierTotal
<1>3. ExpressoBreakdown(ts).averageMultiplier = Rate(MultiplierTotal(m), k)
  BY Zenon, <1>1 DEF ExpressoBreakdown, MultiplierTotal
<1>4. k \in Nat /\ k # 0
  <2>1. m \in SUBSET g /\ m # {}
    BY <1>1 DEF Multiplied
  <2>2. IsFiniteSet(m)
    BY <2>1, FS_Subset
  <2>q. QED BY <1>1, <2>1, <2>2, FS_CardinalityType, FS_EmptySet
<1>5. Max({1, k}) = k
  BY <1>4, MaxOfTwo
<1>q. QED BY <1>2, <1>3, <1>5

LEMMA LineIs == ASSUME NEW ts PROVE GroupLine(ts).games = Cardinality(ts) /\ GroupLine(ts).net = NetSum(ts)
<1>1. GroupLine(ts).games = Cardinality(ts)
  BY Zenon DEF GroupLine
<1>2. GroupLine(ts).net = NetSum(ts)
  BY Zenon DEF GroupLine, NetSum
<1>q. QED BY <1>1, <1>2

LEMMA DashboardBreakdowns ==
  ASSUME NEW ts, NEW d, d = Dashboard(ts)
  PROVE  /\ DOMAIN d.byPeriod = {"day", "week", "month"}
         /\ \A p \in {"day", "week", "month"} : Breakdown(d.byPeriod[p], ts, [t \in ts |-> Period(t, p)])
         /\ Breakdown(d.byLimit, ts, [t \in ts |-> t.buyin])
         /\ Breakdown(d.byMultiplier, ts, [t \in ts |-> t.multiplier])
<1>1. DOMAIN d.byPeriod = {"day", "week", "month"}
  BY DEF Dashboard
<1>2. ASSUME NEW p \in {"day", "week", "month"} PROVE Breakdown(d.byPeriod[p], ts, [t \in ts |-> Period(t, p)])
  <2>1. d.byPeriod[p] = [k \in {Period(t, p) : t \in ts} |-> GroupLine({t \in ts : Period(t, p) = k})]
    BY DEF Dashboard, GroupBy
  <2>2. \A k : {t \in ts : [u \in ts |-> Period(u, p)][t] = k} = {t \in ts : Period(t, p) = k}
    OBVIOUS
  <2>q. QED BY ZenonT(30), <2>1, <2>2, LineIs DEF Breakdown
<1>3. Breakdown(d.byLimit, ts, [t \in ts |-> t.buyin])
  <2>1. d.byLimit = [k \in {t.buyin : t \in ts} |-> GroupLine({t \in ts : t.buyin = k})]
    BY DEF Dashboard, GroupBy
  <2>2. PICK key : key = [t \in ts |-> t.buyin]
    OBVIOUS
  <2>3. {key[t] : t \in ts} = {t.buyin : t \in ts} /\ \A k : {t \in ts : key[t] = k} = {t \in ts : t.buyin = k}
    BY <2>2
  <2>4. DOMAIN d.byLimit = {key[t] : t \in ts}
    BY <2>1, <2>3
  <2>5. ASSUME NEW k \in DOMAIN d.byLimit PROVE d.byLimit[k] = GroupLine({t \in ts : key[t] = k})
    <3>1. k \in {t.buyin : t \in ts}
      BY <2>3, <2>4
    <3>2. d.byLimit[k] = GroupLine({t \in ts : t.buyin = k})
      BY <2>1, <3>1
    <3>q. QED BY Zenon, <2>3, <3>2
  <2>6. Breakdown(d.byLimit, ts, key)
    BY <2>4, <2>5, LineIs DEF Breakdown
  <2>q. QED BY <2>2, <2>6
<1>4. Breakdown(d.byMultiplier, ts, [t \in ts |-> t.multiplier])
  <2>1. d.byMultiplier = [k \in {t.multiplier : t \in ts} |-> GroupLine({t \in ts : t.multiplier = k})]
    BY DEF Dashboard, GroupBy
  <2>2. PICK key : key = [t \in ts |-> t.multiplier]
    OBVIOUS
  <2>3. {key[t] : t \in ts} = {t.multiplier : t \in ts} /\ \A k : {t \in ts : key[t] = k} = {t \in ts : t.multiplier = k}
    BY <2>2
  <2>4. DOMAIN d.byMultiplier = {key[t] : t \in ts}
    BY <2>1, <2>3
  <2>5. ASSUME NEW k \in DOMAIN d.byMultiplier PROVE d.byMultiplier[k] = GroupLine({t \in ts : key[t] = k})
    <3>1. k \in {t.multiplier : t \in ts}
      BY <2>3, <2>4
    <3>2. d.byMultiplier[k] = GroupLine({t \in ts : t.multiplier = k})
      BY <2>1, <3>1
    <3>q. QED BY Zenon, <2>3, <3>2
  <2>6. Breakdown(d.byMultiplier, ts, key)
    BY <2>4, <2>5, LineIs DEF Breakdown
  <2>q. QED BY <2>2, <2>6
<1>q. QED BY <1>1, <1>2, <1>3, <1>4

LEMMA ResultsFields ==
  ASSUME NEW ts, NEW r, r = ResultsDashboard(ts), NEW g, g = Completed(ts)
  PROVE  /\ r.games = Cardinality(g)
         /\ r.hands = FieldTotal(g, "hands")
         /\ r.buyins = FieldTotal(g, "buyin")
         /\ r.winnings = FieldTotal(g, "reward")
         /\ r.net = NetSum(g)
         /\ r.hourly = Rate(60 * NetSum(g), FieldTotal(g, "duration"))
         /\ r.wins = Rate(WithRank(g, 1), Cardinality(g))
         /\ r.seconds = Rate(WithRank(g, 2), Cardinality(g))
         /\ r.thirds = Rate(WithRank(g, 3), Cardinality(g))
         /\ r.itm = Rate(Cardinality({t \in g : InTheMoney(t)}), Cardinality(g))
         /\ r.downswing = MaxDrawdown(Nets(Ordered(g)))
<1>1. r.games = Cardinality(g)
  BY Zenon DEF ResultsDashboard
<1>2. r.hands = FieldTotal(g, "hands")
  BY Zenon DEF ResultsDashboard, FieldTotal
<1>3. r.buyins = FieldTotal(g, "buyin")
  BY Zenon DEF ResultsDashboard, FieldTotal
<1>4. r.winnings = FieldTotal(g, "reward")
  BY Zenon DEF ResultsDashboard, FieldTotal
<1>5. r.net = NetSum(g)
  BY Zenon DEF ResultsDashboard, NetSum
<1>6. r.hourly = Rate(60 * NetSum(g), FieldTotal(g, "duration"))
  BY Zenon DEF ResultsDashboard, FieldTotal, NetSum
<1>7. r.wins = Rate(WithRank(g, 1), Cardinality(g))
  BY Zenon DEF ResultsDashboard, Having, WithRank
<1>8. r.seconds = Rate(WithRank(g, 2), Cardinality(g))
  BY Zenon DEF ResultsDashboard, Having, WithRank
<1>9. r.thirds = Rate(WithRank(g, 3), Cardinality(g))
  BY Zenon DEF ResultsDashboard, Having, WithRank
<1>10. r.itm = Rate(Cardinality({t \in g : InTheMoney(t)}), Cardinality(g))
  BY Zenon DEF ResultsDashboard, Having
<1>11. r.downswing = MaxDrawdown(Nets(Ordered(g)))
  BY Zenon DEF ResultsDashboard
<1>q. QED BY <1>1, <1>2, <1>3, <1>4, <1>5, <1>6, <1>7, <1>8, <1>9, <1>10, <1>11

LEMMA ResultsCurve ==
  ASSUME NEW ts, NEW r, r = ResultsDashboard(ts), NEW s, s = Nets(Ordered(Completed(ts)))
  PROVE  r.bankroll = [i \in DOMAIN s |-> SliceTotal(s, 1, i)]
BY Zenon DEF ResultsDashboard, SliceTotal

LEMMA ResultsPeriods ==
  ASSUME NEW ts, NEW r, r = ResultsDashboard(ts), NEW g, g = Completed(ts), NEW p \in {"day", "week", "month"}
  PROVE  Breakdown(r.byPeriod[p], g, [t \in g |-> Period(t, p)])
<1>1. Completed(g) = g
  BY DEF Completed
<1>2. PICK key : key = [t \in g |-> Period(t, p)]
  OBVIOUS
<1>3. {key[t] : t \in g} = {Period(t, p) : t \in g} /\ \A k : {t \in g : key[t] = k} = {t \in g : Period(t, p) = k}
  BY <1>2
<1>4. r.byPeriod[p] = GroupResults(g, p)
  BY DEF ResultsDashboard
<1>5. DOMAIN GroupResults(g, p) = {Period(t, p) : t \in g}
  BY <1>1 DEF GroupResults
<1>6. ASSUME NEW k \in {Period(t, p) : t \in g}
      PROVE  /\ GroupResults(g, p)[k].games = Cardinality({t \in g : Period(t, p) = k})
             /\ GroupResults(g, p)[k].net = NetSum({t \in g : Period(t, p) = k})
  <2>1. GroupResults(g, p)[k].games = Cardinality({t \in g : Period(t, p) = k})
    BY <1>1, Zenon DEF GroupResults
  <2>2. GroupResults(g, p)[k].net = NetSum({t \in g : Period(t, p) = k})
    BY <1>1, Zenon DEF GroupResults, NetSum
  <2>q. QED BY <2>1, <2>2
<1>7. PICK q : q = GroupResults(g, p)
  OBVIOUS
<1>8. DOMAIN q = {key[t] : t \in g}
  BY <1>3, <1>5, <1>7
<1>9. ASSUME NEW k \in DOMAIN q
      PROVE  q[k].games = Cardinality({t \in g : key[t] = k}) /\ q[k].net = NetSum({t \in g : key[t] = k})
  <2>1. PICK part : part = {t \in g : key[t] = k}
    OBVIOUS
  <2>2. part = {t \in g : Period(t, p) = k}
    BY <1>3, <2>1
  <2>3. q[k].games = Cardinality(part) /\ q[k].net = NetSum(part)
    BY Zenon, <1>5, <1>6, <1>7, <2>2
  <2>q. QED BY Zenon, <2>1, <2>3
<1>10. Breakdown(q, g, key)
  BY Zenon, <1>8, <1>9 DEF Breakdown
<1>q. QED BY Zenon, <1>2, <1>4, <1>7, <1>10

LEMMA ExpressoFields ==
  ASSUME NEW ts, NEW x, x = ExpressoBreakdown(ts), NEW g, g = Completed(ts)
  PROVE  /\ x.headsUpWins = ResultsDashboard({t \in g : t.rank \in {1, 2}}).wins
         /\ x.firstElimination = Rate(WithRank({t \in g : t.players = 3}, 3), Cardinality({t \in g : t.players = 3}))
         /\ Breakdown(x.byLimit, g, [t \in g |-> t.buyin])
<1>1. x.headsUpWins = ResultsDashboard({t \in g : t.rank \in {1, 2}}).wins
  BY Zenon DEF ExpressoBreakdown
<1>2. x.firstElimination = Rate(WithRank({t \in g : t.players = 3}, 3), Cardinality({t \in g : t.players = 3}))
  BY Zenon DEF ExpressoBreakdown, Having, WithRank
<1>3. PICK key : key = [t \in g |-> t.buyin]
  OBVIOUS
<1>4. {key[t] : t \in g} = {t.buyin : t \in g} /\ \A k : {t \in g : key[t] = k} = {t \in g : t.buyin = k}
  BY <1>3
<1>5. x.byLimit = [k \in {t.buyin : t \in g} |-> ResultsDashboard({t \in g : t.buyin = k})]
  BY Zenon DEF ExpressoBreakdown
<1>6. ASSUME NEW k \in {t.buyin : t \in g}
      PROVE  x.byLimit[k].games = Cardinality({t \in g : key[t] = k}) /\ x.byLimit[k].net = NetSum({t \in g : key[t] = k})
  <2>1. PICK part : part = {t \in g : key[t] = k}
    OBVIOUS
  <2>2. Completed(part) = part
    BY <2>1 DEF Completed
  <2>3. x.byLimit[k] = ResultsDashboard(part)
    BY <1>4, <1>5, <2>1
  <2>4. PICK y : y = ResultsDashboard(part)
    OBVIOUS
  <2>5. y.games = Cardinality(part) /\ y.net = NetSum(part)
    <3>1. PICK c : c = Completed(part)
      OBVIOUS
    <3>2. y.games = Cardinality(c) /\ y.net = NetSum(c)
      BY ZenonT(30), <2>4, <3>1, ResultsFields
    <3>q. QED BY <2>2, <3>1, <3>2
  <2>q. QED BY <2>1, <2>3, <2>4, <2>5
<1>7. Breakdown(x.byLimit, g, key)
  BY <1>4, <1>5, <1>6 DEF Breakdown
<1>q. QED BY <1>1, <1>2, <1>3, <1>7

\* Among the games that ended heads-up, the hero won those of rank 1.
LEMMA HeadsUpWins ==
  ASSUME NEW g, IsFiniteSet(g), g = Completed(g)
  PROVE  ResultsDashboard({t \in g : t.rank \in {1, 2}}).wins = Rate(WithRank(g, 1), WithRank(g, 1) + WithRank(g, 2))
<1>h. PICK h : h = {t \in g : t.rank \in {1, 2}}
  OBVIOUS
<1>a. PICK a : a = {t \in g : t.rank = 1}
  OBVIOUS
<1>b. PICK b : b = {t \in g : t.rank = 2}
  OBVIOUS
<1>1. h = {t \in g : t.rank \in {1, 2}} /\ a = {t \in g : t.rank = 1} /\ b = {t \in g : t.rank = 2}
  BY <1>h, <1>a, <1>b
<1>2. Completed(h) = h /\ {t \in h : t.rank = 1} = a /\ h = a \cup b /\ a \cap b = {}
  BY <1>1 DEF Completed
<1>3. ResultsDashboard(h).wins = Rate(WithRank(h, 1), Cardinality(h))
  <2>1. PICK y, c : y = ResultsDashboard(h) /\ c = Completed(h)
    OBVIOUS
  <2>2. y.wins = Rate(WithRank(c, 1), Cardinality(c))
    BY <2>1, ResultsFields
  <2>q. QED BY <1>2, <2>1, <2>2
<1>4. a \in SUBSET g /\ b \in SUBSET g
  BY <1>1
<1>5. IsFiniteSet(a) /\ IsFiniteSet(b)
  BY <1>4, FS_Subset
<1>6. Cardinality(a) \in Nat /\ Cardinality(b) \in Nat
  BY <1>5, FS_CardinalityType
<1>7. Cardinality(a \cap b) = 0
  BY <1>2, FS_EmptySet
<1>8. Cardinality(h) = Cardinality(a) + Cardinality(b) - Cardinality(a \cap b)
  BY <1>2, <1>5, FS_Union
<1>9. Cardinality(h) = Cardinality(a) + Cardinality(b)
  BY <1>6, <1>7, <1>8
<1>10. WithRank(h, 1) = Cardinality(a)
  BY <1>2 DEF WithRank
<1>11. WithRank(g, 1) = Cardinality(a) /\ WithRank(g, 2) = Cardinality(b)
  BY <1>1 DEF WithRank
<1>12. ResultsDashboard(h).wins = Rate(WithRank(g, 1), WithRank(g, 1) + WithRank(g, 2))
  BY <1>3, <1>9, <1>10, <1>11
<1>q. QED BY <1>1, <1>12, Zenon

\* Without the hands, a tournament counts with its own chip result or not at all.
LEMMA ChipEvIs ==
  ASSUME NEW ts, NEW g, g = Completed(ts), Kept(g)
  PROVE  ChipEv(ts, [t \in ts |-> <<>>]) = Rate(FieldTotal(ChipKnown(g), "chips"), Cardinality(ChipKnown(g)))
<1>1. PICK no : no = [t \in ts |-> <<>>]
  OBVIOUS
<1>2. ASSUME NEW t \in g PROVE ChipsOf(t, no[t]) = t.chips
  <2>1. t \in ts /\ no[t] = <<>>
    BY <1>1 DEF Completed
  <2>q. QED BY <2>1 DEF ChipsOf
<1>3. PICK k : k = ChipKnown(g)
  OBVIOUS
<1>4. {t \in g : ChipsOf(t, no[t]) # NoChips} = k /\ k \in SUBSET g
  BY <1>2, <1>3 DEF ChipKnown
<1>5. Kept(k)
  BY <1>4, KeptSubset
<1>6. ChipEv(ts, no) = Rate(Total(k, LAMBDA t : ChipsOf(t, no[t])), Cardinality(k))
  BY <1>4, Zenon DEF ChipEv
<1>7. Total(k, LAMBDA t : ChipsOf(t, no[t])) = FieldTotal(k, "chips")
  <2>1. PICK F : F = [t \in k |-> t["chips"]]
    OBVIOUS
  <2>2. IsFiniteSet(k) /\ Tables(F, k)
    BY <2>1, <1>5, Fields DEF Tables, Kept
  <2> DEFINE Eq(iter) == iter = [s \in SUBSET k |->
                          IF s = {} THEN 0 ELSE LET x == CHOOSE x \in s : TRUE IN ChipsOf(x, no[x]) + iter[s \ {x}]]
  <2>3. ASSUME NEW iter PROVE SumEq(iter, F, k) <=> Eq(iter)
    <3>1. \A s \in SUBSET k : s # {} => F[Pick(s)] = ChipsOf(Pick(s), no[Pick(s)])
      BY PickIn, <1>2, <1>4, <2>1
    <3>2. [s \in SUBSET k |-> IF s = {} THEN 0 ELSE F[Pick(s)] + iter[s \ {Pick(s)}]]
          = [s \in SUBSET k |-> IF s = {} THEN 0 ELSE ChipsOf(Pick(s), no[Pick(s)]) + iter[s \ {Pick(s)}]]
      BY <3>1
    <3>q. QED BY <3>2 DEF SumEq, Pick
  <2>4. \E iter : Eq(iter)
    <3>1. PICK iter : SumEq(iter, F, k)
      BY <2>2, SumEqHolds
    <3>2. Eq(iter)
      BY <2>3, <3>1
    <3> HIDE DEF Eq
    <3>q. QED BY <3>2
  <2>5. PICK iter : iter = CHOOSE i : Eq(i)
    OBVIOUS
  <2>6. SumEq(iter, F, k)
    BY <2>3, <2>4, <2>5
  <2>7. Total(k, LAMBDA t : ChipsOf(t, no[t])) = iter[k]
    BY <2>5 DEF Total, MapThenFoldSet
  <2>8. iter[k] = Sum(F, k)
    BY <2>2, <2>6, AnyOrder, SumIs
  <2>9. FieldTotal(k, "chips") = Sum(F, k)
    BY <1>5, <2>1, TotalIs DEF Columns
  <2>q. QED BY <2>7, <2>8, <2>9
<1>q. QED BY <1>1, <1>3, <1>6, <1>7

\* What the application shows is what the analytics package counts.
LEMMA ShownIs ==
  ASSUME Kept(games)
  PROVE  Shown = Completed(Expressos) /\ Kept(Shown) /\ Completed(Shown) = Shown
<1>1. Shown = Completed(Expressos) /\ Completed(Shown) = Shown
  BY DEF Shown, Expressos, Completed, TournamentQuery, Passes, NoFilters
<1>2. Shown \in SUBSET games
  BY DEF Shown, TournamentQuery
<1>q. QED BY <1>1, <1>2, KeptSubset

\* The dashboard is right about what it sums up, and the two dashboards agree
\* (calculate_dashboard of services/queries.py; results.py and chip_ev.py of analytics).
LEMMA DashboardsAgree == ASSUME Kept(games) PROVE DashboardMatchesReference
<1>1. PICK S, E : S = Shown /\ E = Expressos
  OBVIOUS
<1>2. S = Completed(E) /\ Kept(S) /\ Completed(S) = S /\ IsFiniteSet(S)
  BY <1>1, ShownIs DEF Kept
<1>3. PICK d, r, x : d = Dashboard(S) /\ r = ResultsDashboard(E) /\ x = ExpressoBreakdown(E)
  OBVIOUS
<1>4. PICK s : s = Nets(Ordered(S))
  OBVIOUS
<1>5. s \in Seq(Int)
  <2>1. PICK n : n = Cardinality(S)
    OBVIOUS
  <2>q. QED BY <1>2, <1>4, <2>1, NetsAre
<1>6. d.downswing = WorstFall(s) /\ r.downswing = d.downswing /\ r.bankroll = d.bankroll
  <2>1. d.downswing = Downswing(s).worst /\ d.bankroll = Downswing(s).curve
    BY <1>3, <1>4, DashboardFields
  <2>2. r.downswing = MaxDrawdown(s)
    BY <1>2, <1>3, <1>4, ResultsFields
  <2>3. r.bankroll = [i \in DOMAIN s |-> SliceTotal(s, 1, i)]
    BY <1>2, <1>3, <1>4, ResultsCurve
  <2>q. QED BY <2>1, <2>2, <2>3, <1>5, PassesAgree
<1>7. d.net = NetSum(S) /\ d.games = Cardinality(S)
  BY <1>2, <1>3, DashboardFields, NetOfTotals
<1>8. PICK whole : whole = [games |-> d.games, net |-> d.net]
  OBVIOUS
<1>9. ASSUME NEW groups, NEW key, DOMAIN key = S, Breakdown(groups, S, key)
      PROVE  GroupTotals(groups) = whole
  BY <1>2, <1>7, <1>8, <1>9, BreakdownAddsUp
<1>10. \A p \in DOMAIN d.byPeriod : GroupTotals(d.byPeriod[p]) = whole /\ GroupTotals(r.byPeriod[p]) = whole
  <2>1. DOMAIN d.byPeriod = {"day", "week", "month"}
    BY <1>3, DashboardBreakdowns
  <2>2. ASSUME NEW p \in {"day", "week", "month"}
        PROVE  GroupTotals(d.byPeriod[p]) = whole /\ GroupTotals(r.byPeriod[p]) = whole
    <3>1. PICK key : key = [t \in S |-> Period(t, p)]
      OBVIOUS
    <3>2. Breakdown(d.byPeriod[p], S, key)
      BY <1>3, <3>1, DashboardBreakdowns
    <3>3. Breakdown(r.byPeriod[p], S, key)
      BY <1>2, <1>3, <3>1, ResultsPeriods
    <3>q. QED BY <3>1, <3>2, <3>3, <1>9
  <2>q. QED BY <2>1, <2>2
<1>11. GroupTotals(d.byLimit) = whole /\ GroupTotals(x.byLimit) = whole
  <2>1. PICK key : key = [t \in S |-> t.buyin]
    OBVIOUS
  <2>2. Breakdown(d.byLimit, S, key)
    BY <1>3, <2>1, DashboardBreakdowns
  <2>3. Breakdown(x.byLimit, S, key)
    BY <1>2, <1>3, <2>1, ExpressoFields
  <2>q. QED BY <2>1, <2>2, <2>3, <1>9
<1>12. GroupTotals(d.byMultiplier) = whole
  <2>1. PICK key : key = [t \in S |-> t.multiplier]
    OBVIOUS
  <2>2. Breakdown(d.byMultiplier, S, key)
    BY <1>3, <2>1, DashboardBreakdowns
  <2>q. QED BY <2>1, <2>2, <1>9
<1>20. /\ d.hands = FieldTotal(S, "hands") /\ d.buyins = FieldTotal(S, "buyin") /\ d.winnings = FieldTotal(S, "reward")
      /\ d.hourly = Rate(60 * (FieldTotal(S, "reward") - FieldTotal(S, "buyin")), FieldTotal(S, "duration"))
  BY <1>3, DashboardFields
<1>21. /\ d.wins = WithRank(S, 1) /\ d.seconds = WithRank(S, 2) /\ d.thirds = WithRank(S, 3)
      /\ d.headsUpWins = Rate(WithRank(S, 1), WithRank(S, 1) + WithRank(S, 2))
  BY <1>3, DashboardRates
<1>19. S = Completed(E) /\ r = ResultsDashboard(E)
  BY <1>2, <1>3
<1>22. /\ r.games = Cardinality(S) /\ r.hands = FieldTotal(S, "hands") /\ r.buyins = FieldTotal(S, "buyin")
       /\ r.winnings = FieldTotal(S, "reward") /\ r.net = NetSum(S)
       /\ r.hourly = Rate(60 * NetSum(S), FieldTotal(S, "duration"))
  <2>1. r.games = Cardinality(S) /\ r.hands = FieldTotal(S, "hands") /\ r.buyins = FieldTotal(S, "buyin")
    BY ZenonT(30), <1>19, ResultsFields
  <2>2. r.winnings = FieldTotal(S, "reward") /\ r.net = NetSum(S)
    BY <1>19, ResultsFields
  <2>3. r.hourly = Rate(60 * NetSum(S), FieldTotal(S, "duration"))
    BY <1>19, ResultsFields
  <2>q. QED BY <2>1, <2>2, <2>3
<1>23. /\ r.wins = Rate(WithRank(S, 1), Cardinality(S)) /\ r.seconds = Rate(WithRank(S, 2), Cardinality(S))
      /\ r.thirds = Rate(WithRank(S, 3), Cardinality(S))
  BY <1>19, ResultsFields
<1>13. \A f \in {"games", "hands", "buyins", "winnings", "net", "hourly"} : d[f] = r[f]
  <2>1. NetSum(S) = FieldTotal(S, "reward") - FieldTotal(S, "buyin")
    BY <1>2, NetOfTotals
  <2>2. d.hourly = r.hourly
    BY <2>1, <1>20, <1>22
  <2>q. QED BY <2>2, <1>7, <1>20, <1>22
<1>14. r.wins.num = d.wins /\ r.seconds.num = d.seconds /\ r.thirds.num = d.thirds
  <2>1. \A n, m : Rate(n, m).num = n
    BY DEF Rate
  <2>q. QED BY <1>21, <1>23, <2>1
<1>15. x.headsUpWins = d.headsUpWins
  <2>1. PICK h : h = {t \in S : t.rank \in {1, 2}}
    OBVIOUS
  <2>2. x.headsUpWins = ResultsDashboard(h).wins
    BY <1>2, <1>3, <2>1, ExpressoFields
  <2>3. ResultsDashboard(h).wins = Rate(WithRank(S, 1), WithRank(S, 1) + WithRank(S, 2))
    BY <1>2, <2>1, HeadsUpWins
  <2>q. QED BY <1>21, <2>2, <2>3
<1>16. ~(\E t \in S : t.ticket) => r.itm = d.itm
  <2>1. SUFFICES ASSUME ~(\E t \in S : t.ticket) PROVE r.itm = d.itm
    OBVIOUS
  <2>2. {t \in S : InTheMoney(t)} = {t \in S : t.reward > 0}
    BY <2>1 DEF InTheMoney
  <2>3. d.itm = Rate(Cardinality({t \in S : t.reward > 0}), Cardinality(S))
    BY <1>3, DashboardRates DEF Paid
  <2>4. r.itm = Rate(Cardinality({t \in S : InTheMoney(t)}), Cardinality(S))
    BY <1>2, <1>3, ResultsFields
  <2>q. QED BY <2>2, <2>3, <2>4
<1>17. (\A t \in S : t.players = 3) => x.firstElimination = d.firstElimination
  <2>1. SUFFICES ASSUME \A t \in S : t.players = 3 PROVE x.firstElimination = d.firstElimination
    OBVIOUS
  <2>2. PICK three : three = {t \in S : t.players = 3}
    OBVIOUS
  <2>3. three = S
    BY <2>1, <2>2
  <2>4. x.firstElimination = Rate(WithRank(three, 3), Cardinality(three))
    BY <2>2, <1>2, <1>3, ExpressoFields
  <2>5. d.firstElimination = Rate(WithRank(S, 3), Cardinality(S))
    BY <1>3, DashboardRates
  <2>q. QED BY <2>3, <2>4, <2>5
<1>18. ChipEv(E, [t \in E |-> <<>>]) = d.chipEv
  BY <1>2, <1>3, ChipEvIs, DashboardRates
<1>24. Multiplied(S) # {} => x.averageMultiplier = d.averageMultiplier
  BY <1>2, <1>3, AverageMultipliers
<1>q. QED
  BY <1>1, <1>3, <1>4, <1>6, <1>8, <1>10, <1>11, <1>12, <1>13, <1>14, <1>15, <1>16, <1>17, <1>18, <1>24, Zenon
     DEF DashboardMatchesReference

\* The filter of the application and that of the analytics package select the same tournaments.
LEMMA FiltersSelectTheSame == ASSUME Kept(games) PROVE FiltersAgree
<1>1. SUFFICES ASSUME NEW f \in Filters
      PROVE  /\ TournamentQuery(games, [f EXCEPT !.result = "any"]) = FilterTournaments(Expressos, f, "any")
             /\ TournamentQuery(games, [f EXCEPT !.result = "positive"]) = FilterTournaments(Expressos, f, "yes")
             /\ TournamentQuery(games, [f EXCEPT !.result = "negative"])
                    = {t \in FilterTournaments(Expressos, f, "no") : NetResult(t) # 0}
  BY DEF FiltersAgree
<1>2. DOMAIN f = DOMAIN NoFilters
  BY DEF Filters, NoFilters
<1>3. ASSUME NEW result
      PROVE  /\ [f EXCEPT !.result = result].result = result
             /\ \A c \in {"start", "end", "buyin", "multiplier", "rank", "players"} :
                    [f EXCEPT !.result = result][c] = f[c]
  BY <1>2 DEF NoFilters
<1>4. \A t \in games : t.reward \in Int /\ t.buyin \in Int
  BY Fields DEF Kept
<1>5. \A t \in games : /\ (t.reward > t.buyin) <=> NetResult(t) > 0
                       /\ (t.reward < t.buyin) <=> (~(NetResult(t) > 0) /\ NetResult(t) # 0)
  BY <1>4 DEF NetResult
<1> DEFINE Same(t) == /\ t.expresso /\ t.completed
                      /\ f.start = NoFilter \/ t.start >= f.start
                      /\ f.end = NoFilter \/ t.start <= f.end
                      /\ f.buyin = NoFilter \/ t.buyin = f.buyin
                      /\ f.multiplier = NoFilter \/ t.multiplier = f.multiplier
                      /\ f.rank = NoFilter \/ t.rank = f.rank
                      /\ f.players = NoFilter \/ t.players = f.players
<1> DEFINE Ends(t, result) == /\ result = "positive" => t.reward > t.buyin
                              /\ result = "negative" => t.reward < t.buyin
<1>6. ASSUME NEW result
      PROVE  TournamentQuery(games, [f EXCEPT !.result = result]) = {t \in games : Same(t) /\ Ends(t, result)}
  <2>1. PICK g : g = [f EXCEPT !.result = result]
    OBVIOUS
  <2>2. /\ g.result = result /\ g.start = f.start /\ g.end = f.end /\ g.buyin = f.buyin
        /\ g.multiplier = f.multiplier /\ g.rank = f.rank /\ g.players = f.players
    BY <1>3, <2>1
  <2>3. ASSUME NEW t PROVE Passes(t, g) <=> Same(t) /\ Ends(t, result)
    BY <2>2 DEF Passes
  <2> HIDE DEF Same, Ends
  <2>4. TournamentQuery(games, g) = {t \in games : Same(t) /\ Ends(t, result)}
    BY <2>3, Zenon DEF TournamentQuery
  <2>q. QED BY <2>1, <2>4
<1>7. ASSUME NEW positive
      PROVE  FilterTournaments(Expressos, f, positive)
                = {t \in games : Same(t) /\ (positive # "any" => ((NetResult(t) > 0) <=> positive = "yes"))}
  BY DEF FilterTournaments, Completed, Expressos
<1> HIDE DEF Same
<1>8. ASSUME NEW t \in games
      PROVE  /\ Ends(t, "any") /\ (Ends(t, "positive") <=> NetResult(t) > 0)
             /\ (Ends(t, "negative") <=> ~(NetResult(t) > 0) /\ NetResult(t) # 0)
  BY <1>5
<1> HIDE DEF Ends
<1>10. TournamentQuery(games, [f EXCEPT !.result = "any"]) = FilterTournaments(Expressos, f, "any")
  BY <1>6, <1>7, <1>8
<1>11. TournamentQuery(games, [f EXCEPT !.result = "positive"]) = FilterTournaments(Expressos, f, "yes")
  BY <1>6, <1>7, <1>8
<1>12. TournamentQuery(games, [f EXCEPT !.result = "negative"])
         = {t \in FilterTournaments(Expressos, f, "no") : NetResult(t) # 0}
  BY <1>6, <1>7, <1>8
<1>q. QED BY <1>10, <1>11, <1>12

-----------------------------------------------------------------------------
(* The hub                                                                 *)

\* What two sets of tournaments without a common one brought adds up.
LEMMA NetOfUnion ==
  ASSUME NEW ts, Kept(ts), NEW a \in SUBSET ts, NEW b \in SUBSET ts, a \cap b = {}
  PROVE  NetSum(a \cup b) = NetSum(a) + NetSum(b)
<1>1. PICK F : F = [t \in ts |-> NetResult(t)]
  OBVIOUS
<1>2. Tables(F, ts) /\ IsFiniteSet(ts)
  BY <1>1, NetIs DEF Kept
<1>3. PICK h : h = [T \in SUBSET ts |-> Sum(F, T)]
  OBVIOUS
<1>4. Adds(h, F, ts)
  BY <1>2, <1>3, SumTable
<1>5. ASSUME NEW T \in SUBSET ts PROVE NetSum(T) = h[T]
  <2>1. PICK f : f = [t \in T |-> NetResult(t)]
    OBVIOUS
  <2>2. Kept(T) /\ NetSum(T) = Sum(f, T) /\ Tables(f, T)
    BY <2>1, KeptSubset, NetIs
  <2>3. Tables(F, T) /\ IsFiniteSet(T) /\ \A t \in T : f[t] = F[t]
    BY <1>1, <1>2, <2>1, <2>2 DEF Tables, Kept
  <2>4. Sum(f, T) = Sum(F, T)
    BY <2>2, <2>3, SumSame
  <2>q. QED BY <1>3, <2>2, <2>4
<1> DEFINE P == {T \in SUBSET b : h[a \cup T] = h[a] + h[T]}
<1>6. {} \in P
  <2>1. h[a] \in Int /\ h[{}] = 0 /\ a \cup {} = a
    BY <1>4 DEF Adds
  <2>q. QED BY <2>1
<1>7. ASSUME NEW T \in SUBSET b, NEW x \in T, T \ {x} \in P PROVE T \in P
  <2>1. a \cup T \in SUBSET ts /\ x \in a \cup T /\ (a \cup T) \ {x} = a \cup (T \ {x}) /\ T \in SUBSET ts
        /\ T \ {x} \in SUBSET ts /\ a \cup (T \ {x}) \in SUBSET ts
    OBVIOUS
  <2>2. h[a \cup T] = F[x] + h[a \cup (T \ {x})] /\ h[T] = F[x] + h[T \ {x}]
    BY <1>4, <2>1 DEF Adds
  <2>3. F[x] \in Int /\ h[a] \in Int /\ h[T \ {x}] \in Int
    BY <1>2, <1>4, <2>1 DEF Adds, Tables
  <2>4. h[a \cup (T \ {x})] = h[a] + h[T \ {x}]
    BY <1>7
  <2>5. h[a \cup T] = h[a] + h[T]
    BY <2>2, <2>3, <2>4
  <2>q. QED BY <2>5
<1>8. b \in P
  <2>1. IsFiniteSet(b)
    BY <1>2, FS_Subset
  <2>2. \A T \in SUBSET b : T \in P
    <3> HIDE DEF P
    <3>q. QED BY <2>1, <1>6, <1>7, OneByOne
  <2> HIDE DEF P
  <2>q. QED BY <2>2
<1>q. QED BY <1>5, <1>8, a \cup b \in SUBSET ts

Opening(O, k) == {O[i] : i \in 1 .. k}

\* The partial sums of the results are what the first tournaments brought.
LEMMA NetOfOpening ==
  ASSUME NEW ts, Kept(ts), NEW n \in Nat, NEW O \in [1 .. n -> ts],
         \A i, j \in 1 .. n : i < j => Precedes(O[i], O[j]),
         NEW s \in Seq(Int), Len(s) = n, \A i \in 1 .. n : s[i] = NetResult(O[i]),
         NEW P, PartialSums(P, s), NEW k \in 0 .. n
  PROVE  P[k] = NetSum(Opening(O, k))
<1> DEFINE Q == {i \in 0 .. n : P[i] = NetSum(Opening(O, i))}
<1>1. 0 \in Q
  <2>1. Opening(O, 0) = {} /\ 0 \in 0 .. n
    BY DEF Opening
  <2>2. NetSum({}) = 0
    <3>1. PICK e, f : e = {} /\ f = [t \in e |-> NetResult(t)]
      OBVIOUS
    <3>2. Kept(e)
      BY <3>1, KeptSubset, {} \in SUBSET ts
    <3>3. NetSum(e) = Sum(f, e) /\ Tables(f, e) /\ IsFiniteSet(e)
      BY <3>1, <3>2, NetIs DEF Kept
    <3>q. QED BY <3>1, <3>3, SumStep
  <2>3. P[0] = 0
    BY DEF PartialSums
  <2>q. QED BY <2>1, <2>2, <2>3
<1>2. ASSUME NEW i \in 1 .. n, i - 1 \in Q PROVE i \in Q
  <2>1. PICK a, b : a = Opening(O, i - 1) /\ b = {O[i]}
    OBVIOUS
  <2>2. a \in SUBSET ts /\ b \in SUBSET ts /\ Opening(O, i) = a \cup b
    <3>1. (1 .. i) = (1 .. i - 1) \cup {i} /\ i \in 1 .. n /\ \A j \in 1 .. i - 1 : j \in 1 .. n
      OBVIOUS
    <3>q. QED BY <3>1, <2>1 DEF Opening
  <2>3. a \cap b = {}
    <3>1. ASSUME NEW j \in 1 .. i - 1 PROVE O[j] # O[i]
      <4>1. j \in 1 .. n /\ j < i
        OBVIOUS
      <4>2. Precedes(O[j], O[i]) /\ O[i] \in Tournaments
        BY <4>1 DEF Kept
      <4>q. QED BY <4>2, TotalOrder
    <3>q. QED BY <2>1, <3>1 DEF Opening
  <2>4. NetSum(a \cup b) = NetSum(a) + NetSum(b)
    BY <2>2, <2>3, NetOfUnion
  <2>5. NetSum(b) = NetResult(O[i])
    <3>1. PICK f : f = [t \in b |-> NetResult(t)]
      OBVIOUS
    <3>2. Kept(b)
      BY <2>2, KeptSubset
    <3>3. NetSum(b) = Sum(f, b) /\ Tables(f, b) /\ IsFiniteSet(b)
      BY <3>1, <3>2, NetIs DEF Kept
    <3>4. Sum(f, b) = f[O[i]] + Sum(f, b \ {O[i]}) /\ Sum(f, {}) = 0 /\ f[O[i]] \in Int
      BY <2>1, <3>3, SumStep DEF Tables
    <3>5. b \ {O[i]} = {} /\ f[O[i]] = NetResult(O[i])
      BY <2>1, <3>1
    <3>6. PICK x : x = f[O[i]]
      OBVIOUS
    <3>7. Sum(f, b) = x + 0 /\ x \in Int
      BY <3>4, <3>5, <3>6
    <3>8. NetSum(b) = x
      BY <3>3, <3>7
    <3>q. QED BY <3>5, <3>6, <3>8
  <2>6. P[i] = P[i - 1] + s[i] /\ P[i - 1] = NetSum(a)
    BY <1>2, <2>1 DEF PartialSums
  <2>7. P[i] = NetSum(Opening(O, i))
    BY <2>2, <2>4, <2>5, <2>6
  <2>q. QED BY <2>7
<1>3. \A i \in 0 .. n : i \in Q
  <2> HIDE DEF Q
  <2>q. QED BY <1>1, <1>2, UpTo
<1>q. QED BY <1>3

\* The first k tournaments brought what the curve shows after k.
LEMMA CurveIsTotal ==
  ASSUME NEW ts, Kept(ts), NEW n, n = Cardinality(ts), NEW O, O = Ordered(ts), NEW d, d = Dashboard(ts),
         NEW k \in 1 .. n
  PROVE  d.bankroll[k] = NetSum(Opening(O, k))
<1>1. PICK s : s = Nets(Ordered(ts))
  OBVIOUS
<1>2. /\ n \in Nat /\ s \in Seq(Int) /\ Len(s) = n /\ DOMAIN s = 1 .. n
      /\ \A i \in 1 .. n : s[i] = NetResult(O[i])
  BY <1>1, NetsAre
<1>3. /\ O \in [1 .. n -> ts] /\ \A i, j \in 1 .. n : i < j => Precedes(O[i], O[j])
  BY OrderedIs
<1>4. PICK P : PartialSums(P, s)
  BY <1>2, FoldOfSum
<1>5. Downswing(s).curve = [i \in 1 .. n |-> P[i]]
  BY <1>2, <1>4, DownswingIs
<1>6. d.bankroll[k] = P[k]
  <2>1. d.bankroll = Downswing(s).curve
    BY <1>1, DashboardFields
  <2>q. QED BY <2>1, <1>5
<1>7. s \in Seq(Int) /\ Len(s) = n /\ n \in Nat /\ k \in 0 .. n
  BY <1>2
<1>8. P[k] = NetSum(Opening(O, k))
  BY <1>2, <1>3, <1>4, <1>7, NetOfOpening
<1>q. QED BY <1>6, <1>8

\* What nothing outside it precedes comes first.
LEMMA FirstOnes ==
  ASSUME NEW ts, Kept(ts), NEW n, n = Cardinality(ts), NEW O, O = Ordered(ts),
         NEW U \in SUBSET ts, \A t \in ts, u \in U : Precedes(t, u) => t \in U
  PROVE  /\ Cardinality(U) \in 0 .. n
         /\ U = Opening(O, Cardinality(U))
<1>1. /\ n \in Nat /\ O \in [1 .. n -> ts] /\ \A i, j \in 1 .. n : i < j => Precedes(O[i], O[j])
      /\ \A t \in ts : \E i \in 1 .. n : O[i] = t
  BY OrderedIs
<1>2. IsFiniteSet(U) /\ Cardinality(U) \in Nat /\ Cardinality(U) =< n
  BY FS_Subset, FS_CardinalityType DEF Kept
<1> DEFINE J == {i \in 1 .. n : O[i] \in U}
<1>3. PICK m \in 0 .. n : J = 1 .. m
  <2>1. CASE J = {}
    <3>1. J = 1 .. 0
      BY <2>1
    <3>q. QED BY <1>1, <3>1
  <2>2. CASE J # {}
    <3>1. J \in SUBSET (1 .. n)
      OBVIOUS
    <3>2. PICK m : m = Max(J)
      OBVIOUS
    <3>3. m \in J /\ \A i \in J : i =< m
      <4> HIDE DEF J
      <4>q. QED BY <1>1, <2>2, <3>1, <3>2, Greatest
    <3>4. \A i \in 1 .. m : i \in J
      BY <1>1, <3>3
    <3>q. QED BY <3>3, <3>4
  <2>q. QED BY <2>1, <2>2
<1>4. U = Opening(O, m) /\ U = {O[i] : i \in 1 .. m}
  BY <1>1, <1>3 DEF Opening
<1>5. PICK f : f = [i \in 1 .. m |-> O[i]]
  OBVIOUS
<1>6. \A i, j \in 1 .. n : O[i] = O[j] => i = j
  BY <1>1, TotalOrder DEF Kept
<1>7. f \in Surjection(1 .. m, U) /\ f \in Injection(1 .. m, U)
  BY <1>1, <1>3, <1>4, <1>5, <1>6 DEF Surjection, Injection, IsInjective
<1>8. IsFiniteSet(1 .. m) /\ Cardinality(1 .. m) = m
  BY <1>1, FS_Interval
<1>9. Cardinality(U) = m
  BY <1>7, <1>8, FS_Surjection
<1>q. QED BY <1>2, <1>4, <1>9, <1>1

\* The days, in their order.
InOrder(days, m, D) ==
    /\ m = Cardinality(D) /\ m \in Nat
    /\ days \in [1 .. m -> D]
    /\ \A i, j \in 1 .. m : i < j => days[i] < days[j]
    /\ \A k \in D : \E i \in 1 .. m : days[i] = k

\* There is an order: that of tournaments played on them.
LEMMA DaysInOrder ==
  ASSUME NEW ts, Kept(ts), NEW D, D = {t.day : t \in ts}
  PROVE  \E z : InOrder(z, Cardinality(D), D)
<1>1. PICK c : c = [k \in D |-> CHOOSE t \in ts : t.day = k]
  OBVIOUS
<1>2. \A k \in D : c[k] \in ts /\ c[k].day = k
  BY <1>1
<1>3. PICK us : us = {c[k] : k \in D}
  OBVIOUS
<1>4. us \in SUBSET ts /\ Kept(us) /\ IsFiniteSet(us)
  BY <1>2, <1>3, KeptSubset DEF Kept
<1>5. PICK n, O : n = Cardinality(us) /\ O = Ordered(us)
  OBVIOUS
<1>6. /\ n \in Nat /\ O \in [1 .. n -> us]
      /\ \A i, j \in 1 .. n : i < j => Precedes(O[i], O[j])
      /\ \A t \in us : \E i \in 1 .. n : O[i] = t
  BY SMTT(30), <1>4, <1>5, OrderedIs
<1>7. PICK z : z = [i \in 1 .. n |-> O[i].day]
  OBVIOUS
<1>8. \A i \in 1 .. n : z[i] \in D /\ O[i] = c[z[i]]
  BY <1>2, <1>3, <1>6, <1>7
<1>9. ASSUME NEW k \in D PROVE \E i \in 1 .. n : z[i] = k
  <2>1. c[k] \in us
    BY <1>3
  <2>2. PICK i \in 1 .. n : O[i] = c[k]
    BY <1>6, <2>1
  <2>q. QED BY <2>2, <1>2, <1>7
<1>10. ASSUME NEW i \in 1 .. n, NEW j \in 1 .. n, i < j PROVE z[i] < z[j]
  <2>1. O[i] \in Tournaments /\ O[j] \in Tournaments /\ Precedes(O[i], O[j])
    BY <1>4, <1>6, <1>10 DEF Kept
  <2>2. O[i].start =< O[j].start /\ O[i] # O[j]
    BY <2>1, Fields, TotalOrder DEF Precedes
  <2>3. z[i] =< z[j]
    BY <2>1, <2>2, <1>7, TournamentsAssumption
  <2>4. z[i] # z[j]
    BY <2>2, <1>8
  <2>5. z[i] \in Int /\ z[j] \in Int
    BY <2>1, <1>7, Fields
  <2>q. QED BY <2>3, <2>4, <2>5
<1>11. IsFiniteSet(1 .. n) /\ Cardinality(1 .. n) = n
  BY <1>6, FS_Interval
<1>12. \A i, j \in 1 .. n : z[i] = z[j] => i = j
  <2>1. \A i \in 1 .. n : z[i] \in Int
    BY <1>4, <1>6, <1>7, Fields DEF Kept
  <2>q. QED BY <2>1, <1>6, <1>10
<1>13. z \in Injection(1 .. n, D) /\ z \in Surjection(1 .. n, D)
  BY <1>7, <1>8, <1>9, <1>12 DEF Injection, Surjection, IsInjective
<1>14. Cardinality(D) = n
  BY <1>11, <1>13, FS_Surjection
<1>15. InOrder(z, n, D)
  BY <1>6, <1>7, <1>8, <1>9, <1>10, <1>14 DEF InOrder
<1>q. QED BY <1>14, <1>15

\* Days finds it.
LEMMA DaysAre ==
  ASSUME NEW ts, Kept(ts), NEW D, D = {t.day : t \in ts}, NEW days, days = Days(ts)
  PROVE  InOrder(days, Cardinality(D), D)
<1>1. PICK m : m = Cardinality(D)
  OBVIOUS
<1>2. PICK z : InOrder(z, m, D)
  BY <1>1, DaysInOrder
<1>3. m \in Nat /\ z \in [1 .. m -> D]
  BY <1>2 DEF InOrder
<1>4. \A i, j \in 1 .. m : i < j => z[i] < z[j]
  BY <1>2 DEF InOrder
<1>5. \A k \in D : \E i \in 1 .. m : z[i] = k
  BY <1>2 DEF InOrder
<1>6. \A k \in D : k \in Int
  BY Fields DEF Kept
<1>7. \A i, j \in 1 .. m : z[i] = z[j] => i = j
  <2>1. \A i \in 1 .. m : z[i] \in Int
    BY <1>3, <1>6
  <2>q. QED BY <2>1, <1>3, <1>4
<1>8. ASSUME NEW i \in 1 .. m PROVE Cardinality({e \in D : e < z[i]}) = i - 1
  <2>1. PICK below : below = {e \in D : e < z[i]}
    OBVIOUS
  <2>2. PICK f : f = [j \in 1 .. i - 1 |-> z[j]]
    OBVIOUS
  <2>3. i - 1 \in Nat /\ \A j \in 1 .. i - 1 : j \in 1 .. m /\ j < i
    BY <1>3
  <2>4. \A j \in 1 .. i - 1 : z[j] \in below
    BY <1>3, <1>4, <2>1, <2>3
  <2>5. ASSUME NEW e \in below PROVE \E j \in 1 .. i - 1 : z[j] = e
    <3>1. PICK j \in 1 .. m : z[j] = e
      BY <1>5, <2>1
    <3>2. z[j] < z[i] /\ z[j] \in Int /\ z[i] \in Int
      BY <1>3, <1>6, <2>1, <3>1
    <3>3. j < i
      BY <1>3, <1>4, <3>2
    <3>q. QED BY <3>1, <3>3
  <2>6. f \in Surjection(1 .. i - 1, below) /\ f \in Injection(1 .. i - 1, below)
    BY <1>7, <2>2, <2>3, <2>4, <2>5 DEF Surjection, Injection, IsInjective
  <2>7. IsFiniteSet(1 .. i - 1) /\ Cardinality(1 .. i - 1) = i - 1
    BY <2>3, FS_Interval
  <2>q. QED BY <2>1, <2>6, <2>7, FS_Surjection
<1>9. days = [i \in 1 .. m |-> CHOOSE k \in D : Cardinality({e \in D : e < k}) = i - 1]
  BY <1>1 DEF Days
<1>10. ASSUME NEW i \in 1 .. m PROVE days[i] = z[i]
  <2>1. PICK c : c = CHOOSE k \in D : Cardinality({e \in D : e < k}) = i - 1
    OBVIOUS
  <2>2. z[i] \in D /\ Cardinality({e \in D : e < z[i]}) = i - 1
    BY <1>3, <1>8
  <2>3. c \in D /\ Cardinality({e \in D : e < c}) = i - 1
    BY <2>1, <2>2
  <2>4. PICK j \in 1 .. m : z[j] = c
    BY <1>5, <2>3
  <2>5. j - 1 = i - 1
    BY <1>8, <2>3, <2>4
  <2>6. j = i
    BY <2>5, <1>3
  <2>q. QED BY <1>9, <2>1, <2>4, <2>6
<1>11. days = z
  BY <1>3, <1>9, <1>10
<1>q. QED BY <1>1, <1>2, <1>11

\* The trend, day after day.
DayOf(ts, k) == {t \in ts : t.day = k}
UntilDay(ts, k) == {t \in ts : t.day =< k}
TrendRows == [day : Int, games : Int, net : Int, cumulative : Int]
TrendStep(trend, i, days, ts) ==
    LET of == {t \in ts : t.day = days[i]}
        net == NetSum(of)
        so_far == IF trend = <<>> THEN 0 ELSE Last(trend).cumulative
    IN Append(trend, [day |-> days[i], games |-> Cardinality(of), net |-> net, cumulative |-> so_far + net])
TrendOver(days, ts) ==
    FoldLeft(LAMBDA trend, i : TrendStep(trend, i, days, ts), <<>>, [i \in DOMAIN days |-> i])

LEMMA TrendIs == ASSUME NEW ts PROVE Trend(ts) = TrendOver(Days(ts), ts)
BY Zenon DEF Trend, TrendOver, TrendStep, NetSum

LEMMA TrendTyped ==
  ASSUME NEW ts, Kept(ts), NEW days, NEW i, days[i] \in Int, NEW trend \in Seq(TrendRows)
  PROVE  TrendStep(trend, i, days, ts) \in Seq(TrendRows)
<1>1. PICK part : part = {t \in ts : t.day = days[i]}
  OBVIOUS
<1>2. Kept(part)
  BY <1>1, KeptSubset
<1>3. Cardinality(part) \in Int /\ NetSum(part) \in Int
  <2>1. PICK f : f = [t \in part |-> NetResult(t)]
    OBVIOUS
  <2>q. QED BY <2>1, <1>2, NetIs, FS_CardinalityType DEF Kept
<1>4. PICK so_far : so_far = IF trend = <<>> THEN 0 ELSE Last(trend).cumulative
  OBVIOUS
<1>5. so_far \in Int
  <2>1. CASE trend = <<>>
    BY <2>1, <1>4
  <2>2. CASE trend # <<>>
    <3>1. Len(trend) \in 1 .. Len(trend)
      BY <2>2
    <3>2. trend[Len(trend)] \in TrendRows
      BY <3>1
    <3>q. QED BY <2>2, <3>2, <1>4 DEF Last, TrendRows
  <2>q. QED BY <2>1, <2>2
<1>6. TrendStep(trend, i, days, ts)
        = Append(trend, [day |-> days[i], games |-> Cardinality(part), net |-> NetSum(part),
                         cumulative |-> so_far + NetSum(part)])
  BY <1>1, <1>4 DEF TrendStep
<1>7. [day |-> days[i], games |-> Cardinality(part), net |-> NetSum(part),
       cumulative |-> so_far + NetSum(part)] \in TrendRows
  BY <1>3, <1>5 DEF TrendRows
<1>q. QED BY <1>6, <1>7

IsTrendRun(v, days, ts, m) ==
    /\ v \in [0 .. m -> Seq(TrendRows)]
    /\ v[0] = <<>>
    /\ \A k \in 1 .. m : v[k] = TrendStep(v[k - 1], k, days, ts)
    /\ TrendOver(days, ts) = v[m]

LEMMA TrendRuns ==
  ASSUME NEW ts, Kept(ts), NEW m \in Nat, NEW days, DOMAIN days = 1 .. m, \A i \in 1 .. m : days[i] \in Int
  PROVE  \E v : IsTrendRun(v, days, ts, m)
<1> DEFINE Eq(iter) == iter = [T \in SUBSET DOMAIN [i \in DOMAIN days |-> i] |->
                            IF T = {} THEN <<>>
                            ELSE LET x == Max(T) IN TrendStep(iter[T \ {x}], [i \in DOMAIN days |-> i][x], days, ts)]
           A == Seq(TrendRows)
<1>1. PICK Op : Op = [p \in (1 .. m) \X A |-> TrendStep(p[2], p[1], days, ts)]
  OBVIOUS
<1>2. <<>> \in A
  OBVIOUS
<1>3. \A i \in 1 .. m, r \in A : Op[<<i, r>>] = TrendStep(r, i, days, ts) /\ Op[<<i, r>>] \in A
  BY <1>1, TrendTyped
<1>20. DOMAIN [i \in DOMAIN days |-> i] = 1 .. m /\ \A i \in 1 .. m : [j \in DOMAIN days |-> j][i] = i
  OBVIOUS
<1>4. \E iter : Eq(iter)
  <2>0. PICK a : a = A
    OBVIOUS
  <2>1. PICK iter \in [SUBSET (1 .. m) -> a] : LeftEq(iter, m, <<>>, Op)
    <3> HIDE DEF A
    <3>q. QED BY <1>2, <1>3, <2>0, LeftExists
  <2>2. ASSUME NEW T \in SUBSET (1 .. m), T # {}
        PROVE  Op[<<Max(T), iter[T \ {Max(T)}]>>] = TrendStep(iter[T \ {Max(T)}], [i \in DOMAIN days |-> i][Max(T)], days, ts)
    <3>1. Max(T) \in 1 .. m /\ iter[T \ {Max(T)}] \in a
      BY <2>1, <2>2, Greatest, T \ {Max(T)} \in SUBSET (1 .. m)
    <3> HIDE DEF A
    <3>q. QED BY <1>3, <1>20, <2>0, <3>1
  <2>3. Eq(iter)
    BY <1>20, <2>1, <2>2 DEF LeftEq
  <2> HIDE DEF Eq
  <2>q. QED BY <2>3
<1>5. PICK iter : iter = CHOOSE i : Eq(i)
  OBVIOUS
<1>6. Eq(iter)
  BY <1>4, <1>5
<1>7. TrendOver(days, ts) = iter[1 .. m]
  BY <1>5, <1>20 DEF TrendOver, FoldLeft, MapThenFoldSet
<1>8. ASSUME NEW T \in SUBSET (1 .. m), T # {}, iter[T \ {Max(T)}] \in A
      PROVE  iter[T] = Op[<<Max(T), iter[T \ {Max(T)}]>>]
  <2>1. Max(T) \in 1 .. m
    BY <1>8, Greatest
  <2>2. iter[T] = TrendStep(iter[T \ {Max(T)}], Max(T), days, ts)
    BY <1>6, <1>8, <1>20, <2>1
  <2> HIDE DEF A
  <2>q. QED BY <2>1, <2>2, <1>3, <1>8
<1>9. iter[{}] = <<>>
  BY <1>6
<1>10. PICK v : LeftRun(v, iter, m, A, <<>>, Op)
  <2> HIDE DEF Eq, A
  <2>1. \A i \in 1 .. m, r \in A : Op[<<i, r>>] \in A
    BY <1>3
  <2>2. LeftSolved(iter, m, A, <<>>, Op)
    BY <1>8, <1>9 DEF LeftSolved
  <2>q. QED BY <1>2, <2>1, <2>2, LeftSteps
<1>11. \A k \in 1 .. m : v[k] = TrendStep(v[k - 1], k, days, ts)
  <2>1. ASSUME NEW k \in 1 .. m PROVE v[k] = TrendStep(v[k - 1], k, days, ts)
    <3> HIDE DEF A
    <3>1. v[k - 1] \in A
      BY <1>10, k - 1 \in 0 .. m DEF LeftRun
    <3>q. QED BY <1>3, <1>10, <3>1 DEF LeftRun
  <2>q. QED BY <2>1
<1>12. IsTrendRun(v, days, ts, m)
  BY <1>7, <1>10, <1>11 DEF LeftRun, IsTrendRun
<1>q. QED BY <1>12

IsRow(r, k, ts) ==
    r.day = k /\ r.net = NetSum(DayOf(ts, k)) /\ r.cumulative = NetSum(UntilDay(ts, k))

\* Up to a day is up to the day before and on it.
LEMMA DayAfterDay ==
  ASSUME NEW ts, Kept(ts), NEW m, NEW days, InOrder(days, m, {t.day : t \in ts}), NEW k \in 1 .. m
  PROVE  NetSum(UntilDay(ts, days[k]))
            = (IF k = 1 THEN 0 ELSE NetSum(UntilDay(ts, days[k - 1]))) + NetSum(DayOf(ts, days[k]))
<1>1. PICK D : D = {t.day : t \in ts}
  OBVIOUS
<1>2. m \in Nat /\ days \in [1 .. m -> D] /\ \A d \in D : \E i \in 1 .. m : days[i] = d
  BY <1>1 DEF InOrder
<1>3. \A i, j \in 1 .. m : i < j => days[i] < days[j]
  BY <1>1 DEF InOrder
<1>4. \A t \in ts : t.day \in Int
  BY Fields DEF Kept
<1>5. \A i \in 1 .. m : days[i] \in Int
  BY <1>1, <1>2, <1>4
<1>6. \A t \in ts : \E i \in 1 .. m : days[i] = t.day
  BY <1>1, <1>2
<1>7. PICK all, of : all = UntilDay(ts, days[k]) /\ of = DayOf(ts, days[k])
  OBVIOUS
<1>8. all \in SUBSET ts /\ of \in SUBSET ts
  BY <1>7 DEF UntilDay, DayOf
<1>9. NetSum(all) \in Int /\ NetSum(of) \in Int
  <2>1. ASSUME NEW s \in SUBSET ts PROVE NetSum(s) \in Int
    <3>1. PICK f : f = [t \in s |-> NetResult(t)]
      OBVIOUS
    <3>q. QED BY <3>1, KeptSubset, NetIs
  <2>q. QED BY <2>1, <1>8
<1>10. CASE k = 1
  <2>1. ASSUME NEW t \in all PROVE t \in of
    <3>1. t \in ts /\ t.day =< days[1]
      BY <1>7, <1>10, <2>1 DEF UntilDay
    <3>2. PICK i \in 1 .. m : days[i] = t.day
      BY <1>6, <3>1
    <3>3. ~(1 < i)
      BY <1>3, <1>5, <1>10, <3>1, <3>2
    <3>4. i = 1
      BY <3>3, <1>2
    <3>q. QED BY <3>1, <3>2, <3>4, <1>7, <1>10 DEF DayOf
  <2>2. of \subseteq all
    BY <1>4, <1>5, <1>7 DEF DayOf, UntilDay
  <2>3. all = of
    BY <2>1, <2>2
  <2>4. NetSum(all) = 0 + NetSum(of)
    BY <2>3, <1>9
  <2>5. NetSum(UntilDay(ts, days[k])) = 0 + NetSum(DayOf(ts, days[k]))
    BY <2>4, <1>7
  <2>q. QED BY <2>5, <1>10
<1>11. CASE k # 1
  <2>1. k - 1 \in 1 .. m /\ k - 1 < k
    BY <1>2, <1>11
  <2>2. PICK before : before = UntilDay(ts, days[k - 1])
    OBVIOUS
  <2>3. days[k - 1] < days[k] /\ days[k - 1] \in Int /\ days[k] \in Int
    BY <1>3, <1>5, <2>1
  <2>4. before \in SUBSET ts /\ before \cap of = {}
    BY <2>2, <2>3, <1>4, <1>7 DEF UntilDay, DayOf
  <2>5. ASSUME NEW t \in all PROVE t \in before \cup of
    <3>1. t \in ts /\ t.day =< days[k] /\ t.day \in Int
      BY <1>4, <1>7, <2>5 DEF UntilDay
    <3>2. PICK i \in 1 .. m : days[i] = t.day
      BY <1>6, <3>1
    <3>3. ~(k < i)
      BY <1>3, <3>1, <3>2, <2>3
    <3>4. CASE i = k
      BY <3>1, <3>2, <3>4, <1>7 DEF DayOf
    <3>5. CASE i < k
      <4>1. i = k - 1 \/ i < k - 1
        BY <1>2, <3>5
      <4>2. days[i] =< days[k - 1]
        <5>1. CASE i = k - 1
          BY <5>1, <2>3
        <5>2. CASE i < k - 1
          <6>1. days[i] < days[k - 1] /\ days[i] \in Int
            BY <5>2, <1>3, <1>5, <2>1
          <6>q. QED BY <6>1, <2>3
        <5>q. QED BY <4>1, <5>1, <5>2
      <4>q. QED BY <4>2, <3>1, <3>2, <2>2 DEF UntilDay
    <3>6. i = k \/ i < k
      BY <3>3, <1>2
    <3>q. QED BY <3>4, <3>5, <3>6
  <2>6. before \cup of \subseteq all
    BY <2>2, <2>3, <1>4, <1>7 DEF UntilDay, DayOf
  <2>7. all = before \cup of
    BY <2>5, <2>6
  <2>8. NetSum(all) = NetSum(before) + NetSum(of)
    BY <2>4, <2>7, <1>8, NetOfUnion
  <2>q. QED BY <2>2, <2>8, <1>7, <1>11
<1>q. QED BY <1>10, <1>11

LEMMA TrendShows ==
  ASSUME NEW ts, Kept(ts), NEW tr, tr = Trend(ts)
  PROVE  \A i \in DOMAIN tr : \E k \in {t.day : t \in ts} : IsRow(tr[i], k, ts)
<1>1. PICK D, days, m : D = {t.day : t \in ts} /\ days = Days(ts) /\ m = Cardinality(D)
  OBVIOUS
<1>2. InOrder(days, m, D)
  BY <1>1, DaysAre
<1>3. m \in Nat /\ days \in [1 .. m -> D]
  BY <1>2 DEF InOrder
<1>4. DOMAIN days = 1 .. m /\ \A i \in 1 .. m : days[i] \in Int
  BY <1>1, <1>3, Fields DEF Kept
<1>5. PICK v : IsTrendRun(v, days, ts, m)
  BY <1>3, <1>4, TrendRuns
<1>6. tr = v[m]
  BY <1>1, <1>5, TrendIs DEF IsTrendRun
<1>7. /\ v \in [0 .. m -> Seq(TrendRows)] /\ v[0] = <<>>
      /\ \A k \in 1 .. m : v[k] = TrendStep(v[k - 1], k, days, ts)
  BY <1>5 DEF IsTrendRun
<1> DEFINE Q == {k \in 0 .. m : Len(v[k]) = k /\ \A i \in 1 .. k : IsRow(v[k][i], days[i], ts)}
<1>8. 0 \in Q
  BY <1>3, <1>7
<1>9. ASSUME NEW k \in 1 .. m, k - 1 \in Q PROVE k \in Q
  <2>1. PICK old : old = v[k - 1]
    OBVIOUS
  <2>2. old \in Seq(TrendRows) /\ Len(old) = k - 1 /\ \A i \in 1 .. k - 1 : IsRow(old[i], days[i], ts)
    BY <1>7, <1>9, <2>1
  <2>3. PICK of : of = {t \in ts : t.day = days[k]}
    OBVIOUS
  <2>4. PICK so_far : so_far = IF old = <<>> THEN 0 ELSE Last(old).cumulative
    OBVIOUS
  <2>5. so_far = IF k = 1 THEN 0 ELSE NetSum(UntilDay(ts, days[k - 1]))
    <3>1. CASE k = 1
      <4>1. old = <<>>
        BY <2>2, <3>1
      <4>q. QED BY <4>1, <3>1, <2>4
    <3>2. CASE k # 1
      <4>1. k - 1 \in 1 .. k - 1 /\ old # <<>> /\ Len(old) = k - 1
        BY <2>2, <3>2
      <4>2. IsRow(old[k - 1], days[k - 1], ts)
        BY <2>2, <4>1
      <4>q. QED BY <2>4, <3>2, <4>1, <4>2 DEF Last, IsRow
    <3>q. QED BY <3>1, <3>2
  <2>6. PICK row : row = [day |-> days[k], games |-> Cardinality(of), net |-> NetSum(of),
                          cumulative |-> so_far + NetSum(of)]
    OBVIOUS
  <2>7. v[k] = Append(old, row)
    BY <1>7, <2>1, <2>3, <2>4, <2>6 DEF TrendStep
  <2>8. of = DayOf(ts, days[k])
    BY <2>3 DEF DayOf
  <2>9. so_far + NetSum(of) = NetSum(UntilDay(ts, days[k]))
    BY <1>1, <1>2, <2>5, <2>8, DayAfterDay
  <2>10. IsRow(row, days[k], ts)
    BY <2>6, <2>8, <2>9 DEF IsRow
  <2>11. Len(v[k]) = k /\ v[k][k] = row /\ \A i \in 1 .. k - 1 : v[k][i] = old[i]
    BY <2>2, <2>7, <1>3
  <2>12. \A i \in 1 .. k : IsRow(v[k][i], days[i], ts)
    BY <2>2, <2>10, <2>11, <1>3
  <2>13. k \in 0 .. m
    BY <1>3
  <2>q. QED BY <2>11, <2>12, <2>13
<1>10. m \in Q
  <2>1. \A k \in 0 .. m : k \in Q
    <3> HIDE DEF Q
    <3>q. QED BY <1>3, <1>8, <1>9, UpTo
  <2> HIDE DEF Q
  <2>q. QED BY <2>1, <1>3
<1>11. tr \in Seq(TrendRows) /\ Len(tr) = m /\ \A i \in 1 .. m : IsRow(tr[i], days[i], ts)
  BY <1>3, <1>6, <1>7, <1>10
<1>q. QED BY <1>1, <1>3, <1>11

LEMMA ProfileFields ==
  ASSUME NEW ts, NEW p, p = ProfileBreakdown(ts), NEW d, d = Dashboard(ts)
  PROVE  /\ p.games = d.games /\ p.hands = d.hands /\ p.buyins = d.buyins /\ p.winnings = d.winnings
         /\ p.net = d.net /\ p.roi = d.roi /\ p.wins = d.wins /\ p.itm = d.itm
         /\ p.chipEv = d.chipEv /\ p.chipCoverage = d.chipCoverage
<1>1. p.games = d.games
  BY Zenon DEF ProfileBreakdown, Dashboard
<1>2. p.hands = d.hands
  BY Zenon DEF ProfileBreakdown, Dashboard
<1>3. p.buyins = d.buyins
  BY Zenon DEF ProfileBreakdown, Dashboard
<1>4. p.winnings = d.winnings
  BY Zenon DEF ProfileBreakdown, Dashboard
<1>5. p.net = d.net
  BY Zenon DEF ProfileBreakdown, Dashboard
<1>6. p.roi = d.roi
  BY Zenon DEF ProfileBreakdown, Dashboard
<1>7. p.wins = d.wins
  BY Zenon DEF ProfileBreakdown, Dashboard, Having
<1>8. p.itm = d.itm
  BY Zenon DEF ProfileBreakdown, Dashboard, Having
<1>9. p.chipEv = d.chipEv
  BY Zenon DEF ProfileBreakdown, Dashboard
<1>10. p.chipCoverage = d.chipCoverage
  BY Zenon DEF ProfileBreakdown, Dashboard
<1>q. QED BY <1>1, <1>2, <1>3, <1>4, <1>5, <1>6, <1>7, <1>8, <1>9, <1>10

LEMMA HubFields ==
  ASSUME NEW ts, NEW h, h = HubDashboard(ts), NEW d, d = Dashboard(ts)
  PROVE  \A f \in DOMAIN h : h[f] = d[f]
<1>0. DOMAIN h = {"games", "hands", "net", "roi", "wins", "itm"}
  BY DEF HubDashboard
<1>1. h.games = d.games
  BY Zenon DEF HubDashboard, Dashboard
<1>2. h.hands = d.hands
  BY Zenon DEF HubDashboard, Dashboard
<1>3. h.net = d.net
  BY Zenon DEF HubDashboard, Dashboard
<1>4. h.roi = d.roi
  BY Zenon DEF HubDashboard, Dashboard
<1>5. h.wins = d.wins
  BY Zenon DEF HubDashboard, Dashboard, Having
<1>6. h.itm = d.itm
  BY Zenon DEF HubDashboard, Dashboard, Having
<1>q. QED BY <1>0, <1>1, <1>2, <1>3, <1>4, <1>5, <1>6

\* A line of the profile has the games and the net result of a line of the dashboard.
LEMMA ProfileLine ==
  ASSUME NEW ts, Kept(ts)
  PROVE  ProfileBreakdown(ts).games = Cardinality(ts) /\ ProfileBreakdown(ts).net = NetSum(ts)
<1>1. PICK p, d : p = ProfileBreakdown(ts) /\ d = Dashboard(ts)
  OBVIOUS
<1>2. p.games = d.games /\ p.net = d.net
  BY <1>1, ProfileFields
<1>3. d.games = Cardinality(ts) /\ d.net = NetSum(ts)
  BY <1>1, DashboardFields, NetOfTotals
<1>q. QED BY <1>1, <1>2, <1>3

LEMMA ProfileGroups ==
  ASSUME NEW ts, Kept(ts), NEW c, c = ContributorProfile(ts)
  PROVE  /\ Breakdown(c.byLimit, ts, [t \in ts |-> t.buyin])
         /\ Breakdown(c.byMultiplier, ts, [t \in ts |-> t.multiplier])
<1>1. Breakdown(c.byLimit, ts, [t \in ts |-> t.buyin])
  <2>1. c.byLimit = [k \in {t.buyin : t \in ts} |-> ProfileBreakdown({t \in ts : t.buyin = k})]
    BY DEF ContributorProfile
  <2>2. PICK key : key = [t \in ts |-> t.buyin]
    OBVIOUS
  <2>3. {key[t] : t \in ts} = {t.buyin : t \in ts} /\ \A k : {t \in ts : key[t] = k} = {t \in ts : t.buyin = k}
    BY <2>2
  <2>4. DOMAIN c.byLimit = {key[t] : t \in ts}
    BY <2>1, <2>3
  <2>5. ASSUME NEW k \in DOMAIN c.byLimit PROVE c.byLimit[k] = ProfileBreakdown({t \in ts : key[t] = k})
    <3>1. k \in {t.buyin : t \in ts}
      BY <2>3, <2>4
    <3>2. c.byLimit[k] = ProfileBreakdown({t \in ts : t.buyin = k})
      BY <2>1, <3>1
    <3>q. QED BY Zenon, <2>3, <3>2
  <2>6. \A k : Kept({t \in ts : key[t] = k})
    BY KeptSubset, \A k : {t \in ts : key[t] = k} \in SUBSET ts
  <2>7. Breakdown(c.byLimit, ts, key)
    BY <2>4, <2>5, <2>6, ProfileLine DEF Breakdown
  <2>q. QED BY <2>2, <2>7
<1>2. Breakdown(c.byMultiplier, ts, [t \in ts |-> t.multiplier])
  <2>1. c.byMultiplier = [k \in {t.multiplier : t \in ts} |-> ProfileBreakdown({t \in ts : t.multiplier = k})]
    BY DEF ContributorProfile
  <2>2. PICK key : key = [t \in ts |-> t.multiplier]
    OBVIOUS
  <2>3. {key[t] : t \in ts} = {t.multiplier : t \in ts}
        /\ \A k : {t \in ts : key[t] = k} = {t \in ts : t.multiplier = k}
    BY <2>2
  <2>4. DOMAIN c.byMultiplier = {key[t] : t \in ts}
    BY <2>1, <2>3
  <2>5. ASSUME NEW k \in DOMAIN c.byMultiplier PROVE c.byMultiplier[k] = ProfileBreakdown({t \in ts : key[t] = k})
    <3>1. k \in {t.multiplier : t \in ts}
      BY <2>3, <2>4
    <3>2. c.byMultiplier[k] = ProfileBreakdown({t \in ts : t.multiplier = k})
      BY <2>1, <3>1
    <3>q. QED BY Zenon, <2>3, <3>2
  <2>6. \A k : Kept({t \in ts : key[t] = k})
    BY KeptSubset, \A k : {t \in ts : key[t] = k} \in SUBSET ts
  <2>7. Breakdown(c.byMultiplier, ts, key)
    BY <2>4, <2>5, <2>6, ProfileLine DEF Breakdown
  <2>q. QED BY <2>2, <2>7
<1>q. QED BY <1>1, <1>2

LEMMA RecentLength ==
  ASSUME NEW ts, Kept(ts), ts # {}, NEW c, c = ContributorProfile(ts)
  PROVE  Len(c.recent) = Min({RecentLimit, Cardinality(ts)})
<1>1. PICK n, O : n = Cardinality(ts) /\ O = Ordered(ts)
  OBVIOUS
<1>2. n \in Nat /\ O \in [1 .. n -> ts] /\ n # 0
  BY <1>1, OrderedIs, FS_EmptySet DEF Kept
<1>3. O \in Seq(ts) /\ Len(O) = n
  BY <1>2
<1>4. PICK a \in Int : a = n - RecentLimit + 1
  BY <1>2 DEF RecentLimit
<1>5. PICK from : from = Max({1, a})
  OBVIOUS
<1>6. from \in {1, a} /\ from >= 1 /\ from >= a
  BY <1>5, MaxOfTwo
<1>7. from \in 1 .. n
  BY <1>2, <1>4, <1>6 DEF RecentLimit
<1>8. Len(SubSeq(O, from, n)) = n - from + 1
  BY <1>2, <1>3, <1>7
<1>9. c.recent = Reverse(SubSeq(O, from, n))
  BY <1>1, <1>3, <1>4, <1>5, Zenon DEF ContributorProfile
<1>10. PICK s : s = SubSeq(O, from, n)
  OBVIOUS
<1>11. Len(Reverse(s)) = Len(s)
  BY <1>3, <1>7, <1>8, <1>10 DEF Reverse
<1>12. Min({RecentLimit, n}) = n - from + 1
  <2>1. CASE n =< 10
    BY <2>1, <1>2, <1>4, <1>6, <1>7 DEF Min, RecentLimit
  <2>2. CASE n > 10
    BY <2>2, <1>2, <1>4, <1>6, <1>7 DEF Min, RecentLimit
  <2>q. QED BY <2>1, <2>2, <1>2
<1>q. QED BY <1>1, <1>8, <1>9, <1>10, <1>11, <1>12

\* The conclusion of HubMatchesDashboard, of tournaments the hub has.
HubRight(ts) ==
    LET d == Dashboard(ts)
        c == ContributorProfile(ts)
    IN /\ \A f \in {"games", "hands", "buyins", "winnings", "net", "roi", "wins", "itm", "chipEv", "chipCoverage"} :
            c.summary[f] = d[f]
       /\ \A f \in DOMAIN HubDashboard(ts) : HubDashboard(ts)[f] = d[f]
       /\ GroupTotals(c.byLimit) = GroupTotals(d.byLimit)
       /\ GroupTotals(c.byMultiplier) = GroupTotals(d.byMultiplier)
       /\ \A i \in DOMAIN c.trend :
            /\ c.trend[i].cumulative = d.bankroll[Cardinality({t \in ts : t.day =< c.trend[i].day})]
            /\ c.trend[i].net = d.byPeriod["day"][c.trend[i].day].net
       /\ Len(c.recent) = Min({RecentLimit, d.games})

LEMMA HubMatchesIs ==
  HubMatchesDashboard <=> LET ts == {t \in Shown : Shareable(t) /\ Takes(t)} IN ts # {} => HubRight(ts)
BY Zenon DEF HubMatchesDashboard, HubRight

\* The hub shows what the PC shows (contributor_profile and dashboard of community_hub/service.py).
LEMMA HubShowsTheSame == ASSUME Kept(games) PROVE HubMatchesDashboard
<1>1. PICK ts : ts = {t \in Shown : Shareable(t) /\ Takes(t)}
  OBVIOUS
<1>2. Kept(ts)
  <2>1. Kept(Shown) /\ ts \in SUBSET Shown
    BY <1>1, ShownIs
  <2>q. QED BY <2>1, KeptSubset
<1>3. PICK d, c : d = Dashboard(ts) /\ c = ContributorProfile(ts)
  OBVIOUS
<1>4. SUFFICES ASSUME ts # {} PROVE HubRight(ts)
  BY <1>1, HubMatchesIs
<1>5. \A f \in {"games", "hands", "buyins", "winnings", "net", "roi", "wins", "itm", "chipEv", "chipCoverage"} :
         c.summary[f] = d[f]
  <2>1. PICK p : p = ProfileBreakdown(ts)
    OBVIOUS
  <2>2. c.summary = p
    BY <1>3, <2>1, Zenon DEF ContributorProfile
  <2>q. QED BY <1>3, <2>1, <2>2, ProfileFields
<1>6. \A f \in DOMAIN HubDashboard(ts) : HubDashboard(ts)[f] = d[f]
  <2>1. PICK h : h = HubDashboard(ts)
    OBVIOUS
  <2>2. \A f \in DOMAIN h : h[f] = d[f]
    BY <1>3, <2>1, HubFields
  <2>q. QED BY <2>1, <2>2
<1>7. GroupTotals(c.byLimit) = GroupTotals(d.byLimit)
  <2>1. PICK key : key = [t \in ts |-> t.buyin]
    OBVIOUS
  <2>2. Breakdown(c.byLimit, ts, key) /\ Breakdown(d.byLimit, ts, key)
    BY <1>2, <1>3, <2>1, ProfileGroups, DashboardBreakdowns
  <2>q. QED BY <1>2, <2>1, <2>2, BreakdownAddsUp
<1>8. GroupTotals(c.byMultiplier) = GroupTotals(d.byMultiplier)
  <2>1. PICK key : key = [t \in ts |-> t.multiplier]
    OBVIOUS
  <2>2. Breakdown(c.byMultiplier, ts, key) /\ Breakdown(d.byMultiplier, ts, key)
    BY <1>2, <1>3, <2>1, ProfileGroups, DashboardBreakdowns
  <2>q. QED BY <1>2, <2>1, <2>2, BreakdownAddsUp
<1>9. PICK tr : tr = Trend(ts)
  OBVIOUS
<1>10. c.trend = tr
  BY <1>3, <1>9, Zenon DEF ContributorProfile
<1>11. ASSUME NEW i \in DOMAIN tr
       PROVE  /\ tr[i].cumulative = d.bankroll[Cardinality({t \in ts : t.day =< tr[i].day})]
              /\ tr[i].net = d.byPeriod["day"][tr[i].day].net
  <2>1. PICK k \in {t.day : t \in ts} : IsRow(tr[i], k, ts)
    BY <1>2, <1>9, TrendShows
  <2>2. tr[i].day = k /\ tr[i].net = NetSum(DayOf(ts, k)) /\ tr[i].cumulative = NetSum(UntilDay(ts, k))
    BY <2>1 DEF IsRow
  <2>3. PICK U : U = UntilDay(ts, k)
    OBVIOUS
  <2>4. PICK n, O : n = Cardinality(ts) /\ O = Ordered(ts)
    OBVIOUS
  <2>5. U \in SUBSET ts /\ U # {}
    <3>1. PICK t \in ts : t.day = k
      BY <2>1
    <3>2. t.day \in Int
      BY <1>2, Fields DEF Kept
    <3>q. QED BY <2>3, <3>1, <3>2 DEF UntilDay
  <2>6. ASSUME NEW t \in ts, NEW u \in U, Precedes(t, u) PROVE t \in U
    <3>1. t \in Tournaments /\ u \in Tournaments /\ u.day =< k
      BY <1>2, <2>3, <2>5 DEF Kept, UntilDay
    <3>2. t.start =< u.start
      BY <3>1, <2>6, Fields DEF Precedes
    <3>3. t.day =< u.day
      BY <3>1, <3>2, TournamentsAssumption
    <3>4. k \in Int /\ t.day \in Int /\ u.day \in Int
      BY <1>2, <2>1, <3>1, Fields DEF Kept
    <3>q. QED BY <3>1, <3>3, <3>4, <2>3 DEF UntilDay
  <2>7. PICK l : l = Cardinality(U)
    OBVIOUS
  <2>8. l \in 0 .. n /\ U = Opening(O, l)
    BY <1>2, <2>4, <2>5, <2>6, <2>7, FirstOnes
  <2>9. l \in 1 .. n
    <3>1. IsFiniteSet(U)
      BY <1>2, <2>5, FS_Subset DEF Kept
    <3>2. l # 0
      BY <2>5, <2>7, <3>1, FS_EmptySet
    <3>q. QED BY <2>8, <3>2
  <2>10. d.bankroll[l] = NetSum(U)
    BY <1>2, <1>3, <2>4, <2>8, <2>9, CurveIsTotal
  <2>11. {t \in ts : t.day =< tr[i].day} = U
    BY <2>2, <2>3 DEF UntilDay
  <2>12. d.byPeriod["day"][k].net = NetSum(DayOf(ts, k))
    <3>1. PICK key : key = [t \in ts |-> Period(t, "day")]
      OBVIOUS
    <3>2. \A t \in ts : key[t] = t.day
      BY <3>1 DEF Period
    <3>3. Breakdown(d.byPeriod["day"], ts, key)
      BY <1>3, <3>1, DashboardBreakdowns
    <3>4. k \in DOMAIN d.byPeriod["day"]
      BY <2>1, <3>2, <3>3 DEF Breakdown
    <3>5. {t \in ts : key[t] = k} = DayOf(ts, k)
      BY <3>2 DEF DayOf
    <3>q. QED BY <3>3, <3>4, <3>5 DEF Breakdown
  <2>q. QED BY <2>2, <2>3, <2>7, <2>10, <2>11, <2>12
<1>12. Len(c.recent) = Min({RecentLimit, d.games})
  BY <1>2, <1>3, <1>4, RecentLength, DashboardFields
<1>q. QED BY <1>3, <1>5, <1>6, <1>7, <1>8, <1>10, <1>11, <1>12, Zenon DEF HubRight

-----------------------------------------------------------------------------
(* The sessions: a sequence cut into consecutive groups                    *)

\* G are the first k of O, cut after e[1], e[2], ...
Cuts(e, G, O, k) ==
    /\ Len(G) \in Nat \ {0}
    /\ e \in [0 .. Len(G) -> 0 .. k]
    /\ e[0] = 0 /\ e[Len(G)] = k
    /\ \A i \in 1 .. Len(G) : e[i - 1] < e[i] /\ G[i] = SubSeq(O, e[i - 1] + 1, e[i])

\* Where the groups begin.
Starts(e, m) == {e[i] + 1 : i \in 0 .. m - 1}

\* One element more, in a group of its own or in the last one.
Opened(G, t) == Append(G, <<t>>)
Joined(G, t) == Append(Front(G), Append(Last(G), t))

\* H is G and one element more, the l-th, which begins the groups of N.
OneMoreThan(G, H, t, l, N) ==
    (H = Opened(G, t) /\ N = {l}) \/ (H = Joined(G, t) /\ N = {})
CutsOf(e, G, H, O, l, N) ==
    \E f : Cuts(f, H, O, l) /\ Starts(f, Len(H)) = Starts(e, Len(G)) \cup N

LEMMA SingleSlice ==
  ASSUME NEW T, NEW O \in Seq(T), NEW k \in 1 .. Len(O)
  PROVE  SubSeq(O, k, k) = <<O[k]>> /\ O[k] \in T
<1>1. PICK a, b : a = SubSeq(O, k, k) /\ b = <<O[k]>>
  OBVIOUS
<1>2. O[k] \in T
  OBVIOUS
<1>3. a \in Seq(T) /\ Len(a) = 1 /\ a[1] = O[k]
  BY <1>1, <1>2
<1>4. b \in Seq(T) /\ Len(b) = 1 /\ b[1] = O[k]
  BY <1>1, <1>2
<1>5. \A i \in 1 .. Len(a) : a[i] = b[i]
  <2>1. \A i \in 1 .. Len(a) : i = 1
    BY <1>3
  <2>q. QED BY <2>1, <1>3, <1>4
<1>6. a = b
  <2>1. Len(a) = Len(b)
    BY <1>3, <1>4
  <2>2. a \in Seq(T) /\ b \in Seq(T)
    BY <1>3, <1>4
  <2>q. QED BY <2>1, <2>2, <1>5, SeqEqual
<1>q. QED BY <1>1, <1>2, <1>6

LEMMA OneMore ==
  ASSUME NEW T, NEW O \in Seq(T), NEW k \in 1 .. Len(O), NEW l \in 1 .. Len(O), l = k + 1,
         NEW t \in T, t = O[l], NEW G \in Seq(Seq(T)), NEW e, Cuts(e, G, O, k),
         NEW H, NEW N, OneMoreThan(G, H, t, l, N)
  PROVE  H \in Seq(Seq(T)) /\ CutsOf(e, G, H, O, l, N)
<1>0. k + 1 =< Len(O) /\ t = O[k + 1] /\ l = k + 1
  OBVIOUS
<1>1. PICK m : m = Len(G)
  OBVIOUS
<1>2. /\ m \in Nat \ {0} /\ e \in [0 .. m -> 0 .. k] /\ e[0] = 0 /\ e[m] = k
      /\ \A i \in 1 .. m : e[i - 1] < e[i] /\ G[i] = SubSeq(O, e[i - 1] + 1, e[i])
  BY <1>1 DEF Cuts
<1>4. \A i \in 0 .. m : e[i] \in 0 .. k
  BY <1>2
<1>5. CASE H = Opened(G, t) /\ N = {l}
  <2>1. H = Append(G, <<t>>)
    BY <1>5 DEF Opened
  <2>2. /\ H \in Seq(Seq(T)) /\ Len(H) = m + 1 /\ H[m + 1] = <<t>>
        /\ \A i \in 1 .. m : H[i] = G[i]
    BY <1>1, <2>1
  <2>3. PICK f : f = [i \in 0 .. m + 1 |-> IF i = m + 1 THEN k + 1 ELSE e[i]]
    OBVIOUS
  <2>4. f \in [0 .. m + 1 -> 0 .. k + 1] /\ f[m + 1] = k + 1 /\ \A i \in 0 .. m : f[i] = e[i]
    <3>1. \A i \in 0 .. m + 1 : i # m + 1 => i \in 0 .. m
      BY <1>2
    <3>2. \A i \in 0 .. m : i \in 0 .. m + 1 /\ i # m + 1
      BY <1>2
    <3>3. m + 1 \in 0 .. m + 1 /\ k + 1 \in 0 .. k + 1 /\ \A x \in 0 .. k : x \in 0 .. k + 1
      BY <1>2
    <3>q. QED BY <3>1, <3>2, <3>3, <1>4, <2>3
  <2>5. SubSeq(O, k + 1, k + 1) = <<t>>
    BY <1>0, SingleSlice, k + 1 \in 1 .. Len(O)
  <2>6. ASSUME NEW i \in 1 .. m + 1 PROVE f[i - 1] < f[i] /\ H[i] = SubSeq(O, f[i - 1] + 1, f[i])
    <3>1. CASE i = m + 1
      <4>1. f[i - 1] = k /\ f[i] = k + 1
        BY <1>2, <2>4, <3>1
      <4>2. k \in Nat /\ k < k + 1
        OBVIOUS
      <4>3. H[i] = <<t>>
        BY <2>2, <3>1
      <4>q. QED BY <2>5, <4>1, <4>2, <4>3
    <3>2. CASE i # m + 1
      <4>1. i \in 1 .. m /\ i \in 0 .. m /\ i - 1 \in 0 .. m
        BY <1>2, <3>2
      <4>q. QED BY <1>2, <2>2, <2>4, <4>1
    <3>q. QED BY <3>1, <3>2
  <2>7. Cuts(f, H, O, k + 1)
    <3>1. f[0] = 0 /\ m + 1 \in Nat \ {0}
      BY <1>2, <2>4
    <3>q. QED BY <2>2, <2>4, <2>6, <3>1 DEF Cuts
  <2>8. Starts(f, m + 1) = Starts(e, m) \cup {k + 1}
    <3>1. (m + 1) - 1 = m /\ 0 .. m = (0 .. m - 1) \cup {m}
      <4>1. m \in Nat \ {0}
        BY <1>2
      <4>2. (m + 1) - 1 = m
        BY <4>1
      <4>3. \A i : i \in 0 .. m <=> (i \in 0 .. m - 1 \/ i = m)
        BY <4>1
      <4>q. QED BY <4>2, <4>3
    <3>2. \A i \in 0 .. m - 1 : f[i] + 1 = e[i] + 1
      BY <1>2, <2>4
    <3>3. f[m] + 1 = k + 1
      BY <1>2, <2>4
    <3>q. QED BY <3>1, <3>2, <3>3 DEF Starts
  <2>q. QED BY <1>0, <1>1, <1>5, <2>2, <2>7, <2>8 DEF CutsOf
<1>6. CASE H = Joined(G, t) /\ N = {}
  <2>1. PICK g : g = Append(G[m], t)
    OBVIOUS
  <2>2. G[m] \in Seq(T) /\ g \in Seq(T)
    BY <1>1, <1>2, <2>1
  <2>3. H = Append(SubSeq(G, 1, m - 1), g)
    BY <1>1, <1>0, <1>6, <2>1 DEF Joined, Front, Last
  <2>4. /\ SubSeq(G, 1, m - 1) \in Seq(Seq(T)) /\ Len(SubSeq(G, 1, m - 1)) = m - 1
        /\ \A i \in 1 .. m - 1 : SubSeq(G, 1, m - 1)[i] = G[i]
    BY <1>1, <1>2
  <2>5. /\ H \in Seq(Seq(T)) /\ Len(H) = m /\ H[m] = g
        /\ \A i \in 1 .. m - 1 : H[i] = G[i]
    <3>1. PICK front : front = SubSeq(G, 1, m - 1)
      OBVIOUS
    <3>2. front \in Seq(Seq(T)) /\ Len(front) = m - 1 /\ H = Append(front, g) /\ (m - 1) + 1 = m
      BY <1>2, <2>3, <2>4, <3>1
    <3>3. H \in Seq(Seq(T)) /\ Len(H) = m /\ H[m] = g /\ \A i \in 1 .. m - 1 : H[i] = front[i]
      BY <2>2, <3>2
    <3>q. QED BY <2>4, <3>1, <3>3
  <2>6. PICK f : f = [i \in 0 .. m |-> IF i = m THEN k + 1 ELSE e[i]]
    OBVIOUS
  <2>7. f \in [0 .. m -> 0 .. k + 1] /\ f[m] = k + 1 /\ \A i \in 0 .. m : i # m => f[i] = e[i]
    <3>3. m \in 0 .. m /\ k + 1 \in 0 .. k + 1 /\ \A x \in 0 .. k : x \in 0 .. k + 1
      BY <1>2
    <3>q. QED BY <3>3, <1>4, <2>6
  <2>8. ASSUME NEW i \in 1 .. m PROVE f[i - 1] < f[i] /\ H[i] = SubSeq(O, f[i - 1] + 1, f[i])
    <3>1. CASE i = m
      <4>1. PICK a : a = e[m - 1]
        OBVIOUS
      <4>2. a \in 0 .. k /\ a < k /\ G[m] = SubSeq(O, a + 1, k)
        <5>1. m \in 1 .. m /\ m - 1 \in 0 .. m
          BY <1>2
        <5>2. e[m - 1] < e[m] /\ G[m] = SubSeq(O, e[m - 1] + 1, e[m])
          BY <1>2, <5>1
        <5>3. a < k /\ G[m] = SubSeq(O, a + 1, k)
          BY <1>2, <4>1, <5>2
        <5>4. a \in 0 .. k
          BY <1>4, <4>1, <5>1
        <5>q. QED BY <5>3, <5>4
      <4>3. f[i - 1] = a /\ f[i] = k + 1
        BY <1>2, <2>7, <3>1, <4>1
      <4>4. SubSeq(O, a + 1, k + 1) = SubSeq(O, a + 1, k) \o <<t>>
        <5>1. a + 1 \in 1 .. Len(O) /\ k + 1 \in a + 1 .. Len(O) /\ (k + 1) - 1 = k
          BY <4>2
        <5>q. QED BY <5>1, <1>0, SubSeqRecursiveSecond
      <4>5. g = G[m] \o <<t>>
        BY <2>1, <2>2, AppendIsConcat
      <4>6. a \in Nat /\ a < k + 1
        BY <4>2
      <4>7. H[i] = SubSeq(O, a + 1, k + 1)
        BY <2>5, <3>1, <4>2, <4>4, <4>5
      <4>q. QED BY <4>3, <4>6, <4>7
    <3>2. CASE i # m
      <4>1. i \in 1 .. m - 1 /\ i \in 0 .. m /\ i - 1 \in 0 .. m /\ i - 1 # m
        BY <1>2, <3>2
      <4>q. QED BY <1>2, <2>5, <2>7, <3>2, <4>1
    <3>q. QED BY <3>1, <3>2
  <2>9. Cuts(f, H, O, k + 1)
    <3>1. f[0] = 0
      BY <1>2, <2>7
    <3>q. QED BY <1>2, <2>5, <2>7, <2>8, <3>1 DEF Cuts
  <2>10. Starts(f, m) = Starts(e, m)
    <3>1. \A i \in 0 .. m - 1 : f[i] + 1 = e[i] + 1
      BY <1>2, <2>7
    <3>q. QED BY <3>1 DEF Starts
  <2>q. QED BY <1>0, <1>1, <1>6, <2>5, <2>9, <2>10 DEF CutsOf
<1>q. QED BY <1>5, <1>6 DEF OneMoreThan

\* The first group.
LEMMA OneGroup ==
  ASSUME NEW T, NEW O \in Seq(T), 1 =< Len(O)
  PROVE  /\ << <<O[1]>> >> \in Seq(Seq(T))
         /\ \E e : Cuts(e, << <<O[1]>> >>, O, 1) /\ Starts(e, 1) = {1}
<1>1. PICK t \in T : t = O[1]
  BY 1 \in 1 .. Len(O)
<1>2. PICK G : G = << <<t>> >>
  OBVIOUS
<1>3. G \in Seq(Seq(T)) /\ Len(G) = 1 /\ G[1] = <<t>>
  BY <1>2
<1>4. PICK e : e = [i \in 0 .. 1 |-> i]
  OBVIOUS
<1>5. e \in [0 .. 1 -> 0 .. 1] /\ e[0] = 0 /\ e[1] = 1
  BY <1>4
<1>6. SubSeq(O, 1, 1) = <<t>>
  BY <1>1, SingleSlice, 1 \in 1 .. Len(O)
<1>8. Cuts(e, G, O, 1)
  <2>1. ASSUME NEW i \in 1 .. 1 PROVE e[i - 1] < e[i] /\ G[i] = SubSeq(O, e[i - 1] + 1, e[i])
    <3>1. i = 1 /\ e[i - 1] = 0 /\ e[i] = 1 /\ e[i - 1] + 1 = 1 /\ 0 < 1
      BY <1>5
    <3>2. G[i] = SubSeq(O, 1, 1)
      BY <1>3, <1>6, <3>1
    <3>q. QED BY <3>1, <3>2
  <2>2. Len(G) = 1
    BY <1>3
  <2>q. QED BY <2>1, <2>2, <1>5 DEF Cuts
<1>9. Starts(e, 1) = {1}
  BY <1>5 DEF Starts
<1>q. QED BY <1>1, <1>2, <1>3, <1>8, <1>9

\* The groups put one after the other.
LEMMA Flattened ==
  ASSUME NEW T, NEW O \in Seq(T), NEW G \in Seq(Seq(T)), NEW e, Cuts(e, G, O, Len(O))
  PROVE  FlattenSeq(G) = O
<1>1. PICK m, n : m = Len(G) /\ n = Len(O)
  OBVIOUS
<1>2. /\ n \in Nat /\ m \in Nat \ {0} /\ e \in [0 .. m -> 0 .. n] /\ e[0] = 0 /\ e[m] = n
      /\ \A i \in 1 .. m : e[i - 1] < e[i] /\ G[i] = SubSeq(O, e[i - 1] + 1, e[i])
  BY <1>1 DEF Cuts
<1> DEFINE Eq(fl) == fl = [i \in 1 .. Len(G) |-> IF i = 1 THEN G[i] ELSE fl[i - 1] \o G[i]]
<1>3. ASSUME NEW i \in 1 .. m, i # 1 PROVE SubSeq(O, 1, e[i - 1]) \o G[i] = SubSeq(O, 1, e[i])
  <2>1. i - 1 \in 0 .. m /\ i \in 0 .. m
    BY <1>2
  <2>2. PICK a, b : a = e[i - 1] /\ b = e[i]
    OBVIOUS
  <2>3. a \in 0 .. n /\ b \in 0 .. n /\ a < b
    BY <1>2, <2>1, <2>2
  <2>4. 1 \in 1 .. Len(O) + 1 /\ a \in 1 - 1 .. Len(O) /\ b \in a .. Len(O)
    BY <1>1, <2>3
  <2>5. SubSeq(O, 1, a) \o SubSeq(O, a + 1, b) = SubSeq(O, 1, b)
    BY <2>4, ConcatAdjacentSubSeq
  <2>q. QED BY <1>2, <2>2, <2>5
<1>4. \E fl : Eq(fl)
  <2>1. PICK fl : fl = [i \in 1 .. m |-> SubSeq(O, 1, e[i])]
    OBVIOUS
  <2>2. ASSUME NEW i \in 1 .. m PROVE fl[i] = IF i = 1 THEN G[i] ELSE fl[i - 1] \o G[i]
    <3>1. CASE i = 1
      <4>1. e[i - 1] + 1 = 1
        BY <1>2, <3>1
      <4>q. QED BY <1>2, <2>1, <3>1, <4>1
    <3>2. CASE i # 1
      <4>1. i - 1 \in 1 .. m
        BY <1>2, <3>2
      <4>q. QED BY <1>3, <2>1, <3>2, <4>1
    <3>q. QED BY <3>1, <3>2
  <2>3. Eq(fl)
    BY <1>1, <2>1, <2>2
  <2> HIDE DEF Eq
  <2>q. QED BY <2>3
<1>5. PICK fl : fl = CHOOSE f : Eq(f)
  OBVIOUS
<1>6. Eq(fl)
  BY <1>4, <1>5
<1>7. FlattenSeq(G) = fl[m]
  BY <1>1, <1>2, <1>5 DEF FlattenSeq
<1> DEFINE Q == {i \in 0 .. m : i # 0 => fl[i] = SubSeq(O, 1, e[i])}
<1>8. 0 \in Q
  BY <1>2
<1>9. ASSUME NEW i \in 1 .. m, i - 1 \in Q PROVE i \in Q
  <2>1. fl[i] = IF i = 1 THEN G[i] ELSE fl[i - 1] \o G[i]
    BY <1>1, <1>6
  <2>2. CASE i = 1
    <3>1. e[i - 1] + 1 = 1
      BY <1>2, <2>2
    <3>2. G[i] = SubSeq(O, e[i - 1] + 1, e[i])
      BY <1>2
    <3>3. fl[i] = SubSeq(O, 1, e[i])
      BY <2>1, <2>2, <3>1, <3>2
    <3>q. QED BY <1>2, <3>3
  <2>3. CASE i # 1
    <3>1. fl[i - 1] = SubSeq(O, 1, e[i - 1])
      BY <1>9, <2>3
    <3>2. fl[i] = SubSeq(O, 1, e[i])
      BY <1>3, <2>1, <2>3, <3>1
    <3>q. QED BY <1>2, <3>2
  <2>q. QED BY <2>2, <2>3
<1>10. fl[m] = SubSeq(O, 1, n)
  <2>1. \A i \in 0 .. m : i \in Q
    <3> HIDE DEF Q
    <3>q. QED BY <1>2, <1>8, <1>9, UpTo
  <2>2. m \in Q
    <3> HIDE DEF Q
    <3>q. QED BY <2>1, <1>2
  <2>q. QED BY <2>2, <1>2
<1>q. QED BY <1>1, <1>7, <1>10, SubSeqFull

-----------------------------------------------------------------------------
(* The two ways to make sessions, step by step                             *)

LEMMA EndTyped == ASSUME NEW t \in Tournaments PROVE EndOf(t) \in Int /\ t.start \in Int
BY Fields DEF EndOf

PlaceStep(groups, t) ==
    IF groups = <<>> THEN << <<t>> >>
    ELSE IF t.start - EndOf(Last(Last(groups))) > Gap THEN Append(groups, <<t>>)
    ELSE Append(Front(groups), Append(Last(groups), t))

LEMMA PlaceTyped ==
  ASSUME NEW groups \in Seq(Seq(Tournaments)), NEW t \in Tournaments
  PROVE  PlaceStep(groups, t) \in Seq(Seq(Tournaments))
<1>1. <<t>> \in Seq(Tournaments)
  OBVIOUS
<1>2. << <<t>> >> \in Seq(Seq(Tournaments)) /\ Append(groups, <<t>>) \in Seq(Seq(Tournaments))
  BY <1>1
<1>3. CASE groups # <<>>
  <2>1. PICK front, last : front = Front(groups) /\ last = Last(groups)
    OBVIOUS
  <2>2. front \in Seq(Seq(Tournaments)) /\ last \in Seq(Tournaments)
    BY <1>3, <2>1 DEF Front, Last
  <2>3. Append(last, t) \in Seq(Tournaments)
    BY <2>2
  <2>4. Append(front, Append(last, t)) \in Seq(Seq(Tournaments))
    BY <2>2, <2>3
  <2>q. QED BY <1>2, <2>1, <2>4 DEF PlaceStep
<1>q. QED BY <1>2, <1>3 DEF PlaceStep

IsPlaceRun(v, ts, O, n) ==
    /\ v \in [0 .. n -> Seq(Seq(Tournaments))]
    /\ v[0] = <<>>
    /\ \A k \in 1 .. n : v[k] = PlaceStep(v[k - 1], O[k])
    /\ BuildSessions(ts) = v[n]

LEMMA PlaceRuns ==
  ASSUME NEW ts, NEW n \in Nat, NEW O, O = Ordered(ts), O \in [1 .. n -> Tournaments]
  PROVE  \E v : IsPlaceRun(v, ts, O, n)
<1> DEFINE Eq(iter) == iter = [T \in SUBSET DOMAIN O |->
                            IF T = {} THEN <<>>
                            ELSE LET x == Max(T) IN PlaceStep(iter[T \ {x}], O[x])]
           A == Seq(Seq(Tournaments))
<1>1. PICK Op : Op = [p \in (1 .. n) \X A |-> PlaceStep(p[2], O[p[1]])]
  OBVIOUS
<1>2. <<>> \in A
  OBVIOUS
<1>20. DOMAIN O = 1 .. n /\ \A i \in 1 .. n : O[i] \in Tournaments
  OBVIOUS
<1>3. \A i \in 1 .. n, r \in A : Op[<<i, r>>] = PlaceStep(r, O[i]) /\ Op[<<i, r>>] \in A
  BY <1>1, <1>20, PlaceTyped
<1>4. \E iter : Eq(iter)
  <2>0. PICK a : a = A
    OBVIOUS
  <2>1. PICK iter \in [SUBSET (1 .. n) -> a] : LeftEq(iter, n, <<>>, Op)
    <3> HIDE DEF A
    <3>q. QED BY <1>2, <1>3, <2>0, LeftExists
  <2>2. ASSUME NEW T \in SUBSET (1 .. n), T # {}
        PROVE  Op[<<Max(T), iter[T \ {Max(T)}]>>] = PlaceStep(iter[T \ {Max(T)}], O[Max(T)])
    <3>1. Max(T) \in 1 .. n /\ iter[T \ {Max(T)}] \in a
      BY <2>1, <2>2, Greatest, T \ {Max(T)} \in SUBSET (1 .. n)
    <3> HIDE DEF A
    <3>q. QED BY <1>3, <1>20, <2>0, <3>1
  <2>3. Eq(iter)
    BY <1>20, <2>1, <2>2 DEF LeftEq
  <2> HIDE DEF Eq
  <2>q. QED BY <2>3
<1>5. PICK iter : iter = CHOOSE i : Eq(i)
  OBVIOUS
<1>6. Eq(iter)
  BY <1>4, <1>5
<1>7. BuildSessions(ts) = iter[1 .. n]
  BY <1>5, <1>20 DEF BuildSessions, PlaceStep, FoldLeft, MapThenFoldSet
<1>8. ASSUME NEW T \in SUBSET (1 .. n), T # {}, iter[T \ {Max(T)}] \in A
      PROVE  iter[T] = Op[<<Max(T), iter[T \ {Max(T)}]>>]
  <2>1. Max(T) \in 1 .. n
    BY <1>8, Greatest
  <2>2. iter[T] = PlaceStep(iter[T \ {Max(T)}], O[Max(T)])
    BY <1>6, <1>8, <1>20, <2>1
  <2> HIDE DEF A
  <2>q. QED BY <2>1, <2>2, <1>3, <1>8
<1>9. iter[{}] = <<>>
  BY <1>6
<1>10. PICK v : LeftRun(v, iter, n, A, <<>>, Op)
  <2> HIDE DEF Eq, A
  <2>1. \A i \in 1 .. n, r \in A : Op[<<i, r>>] \in A
    BY <1>3
  <2>2. LeftSolved(iter, n, A, <<>>, Op)
    BY <1>8, <1>9 DEF LeftSolved
  <2>q. QED BY <1>2, <2>1, <2>2, LeftSteps
<1>11. \A k \in 1 .. n : v[k] = PlaceStep(v[k - 1], O[k])
  <2>1. ASSUME NEW k \in 1 .. n PROVE v[k] = PlaceStep(v[k - 1], O[k])
    <3> HIDE DEF A
    <3>1. v[k - 1] \in A
      BY <1>10, k - 1 \in 0 .. n DEF LeftRun
    <3>q. QED BY <1>3, <1>10, <3>1 DEF LeftRun
  <2>q. QED BY <2>1
<1>12. IsPlaceRun(v, ts, O, n)
  BY <1>7, <1>10, <1>11 DEF LeftRun, IsPlaceRun
<1>q. QED BY <1>12

Groupings == [groups : Seq(Seq(Tournaments)), current : Seq(Tournaments), end : Int]
NoGroups == [groups |-> <<>>, current |-> <<>>, end |-> 0]
Grouped(ts) == FoldLeft(Placed, NoGroups, Ordered(Completed(ts)))
\* The session under way is one of the sessions.
AllGroups(s) == IF s.current = <<>> THEN s.groups ELSE Append(s.groups, s.current)

LEMMA GroupSessionsIs == ASSUME NEW ts PROVE GroupSessions(ts) = AllGroups(Grouped(ts))
BY Zenon DEF GroupSessions, AllGroups, Grouped, NoGroups

LEMMA PlacedTyped ==
  ASSUME NEW s \in Groupings, NEW t \in Tournaments
  PROVE  Placed(s, t) \in Groupings
<1>1. s.groups \in Seq(Seq(Tournaments)) /\ s.current \in Seq(Tournaments) /\ s.end \in Int
  BY DEF Groupings
<1>2. PICK x : x = EndOf(t)
  OBVIOUS
<1>3. x \in Int /\ Max({s.end, x}) \in Int
  BY <1>1, <1>2, EndTyped, MaxOfTwo
<1>4. <<t>> \in Seq(Tournaments) /\ Append(s.current, t) \in Seq(Tournaments)
      /\ Append(s.groups, s.current) \in Seq(Seq(Tournaments))
  BY <1>1
<1>5. \A g \in {s.groups, Append(s.groups, s.current)}, c \in {<<t>>, Append(s.current, t)}, y \in {x, Max({s.end, x})} :
        [groups |-> g, current |-> c, end |-> y] \in Groupings
  BY <1>1, <1>3, <1>4 DEF Groupings
<1>6. \E g \in {s.groups, Append(s.groups, s.current)}, c \in {<<t>>, Append(s.current, t)}, y \in {x, Max({s.end, x})} :
        Placed(s, t) = [groups |-> g, current |-> c, end |-> y]
  BY <1>2 DEF Placed
<1>q. QED BY <1>5, <1>6

IsPlacedRun(v, ts, O, n) ==
    /\ v \in [0 .. n -> Groupings]
    /\ v[0] = NoGroups
    /\ \A k \in 1 .. n : v[k] = Placed(v[k - 1], O[k])
    /\ Grouped(ts) = v[n]

LEMMA PlacedRuns ==
  ASSUME NEW ts, NEW n \in Nat, NEW O, O = Ordered(Completed(ts)), O \in [1 .. n -> Tournaments]
  PROVE  \E v : IsPlacedRun(v, ts, O, n)
<1> DEFINE Eq(iter) == iter = [T \in SUBSET DOMAIN O |->
                            IF T = {} THEN NoGroups
                            ELSE LET x == Max(T) IN Placed(iter[T \ {x}], O[x])]
           A == Groupings
<1>1. PICK Op : Op = [p \in (1 .. n) \X A |-> Placed(p[2], O[p[1]])]
  OBVIOUS
<1>2. NoGroups \in A
  BY DEF Groupings, NoGroups
<1>20. DOMAIN O = 1 .. n /\ \A i \in 1 .. n : O[i] \in Tournaments
  OBVIOUS
<1>3. \A i \in 1 .. n, r \in A : Op[<<i, r>>] = Placed(r, O[i]) /\ Op[<<i, r>>] \in A
  BY <1>1, <1>20, PlacedTyped
<1>4. \E iter : Eq(iter)
  <2>0. PICK a : a = A
    OBVIOUS
  <2>1. PICK iter \in [SUBSET (1 .. n) -> a] : LeftEq(iter, n, NoGroups, Op)
    <3> HIDE DEF A
    <3>q. QED BY <1>2, <1>3, <2>0, LeftExists
  <2>2. ASSUME NEW T \in SUBSET (1 .. n), T # {}
        PROVE  Op[<<Max(T), iter[T \ {Max(T)}]>>] = Placed(iter[T \ {Max(T)}], O[Max(T)])
    <3>1. Max(T) \in 1 .. n /\ iter[T \ {Max(T)}] \in a
      BY <2>1, <2>2, Greatest, T \ {Max(T)} \in SUBSET (1 .. n)
    <3> HIDE DEF A
    <3>q. QED BY <1>3, <1>20, <2>0, <3>1
  <2>3. Eq(iter)
    BY <1>20, <2>1, <2>2 DEF LeftEq
  <2> HIDE DEF Eq
  <2>q. QED BY <2>3
<1>5. PICK iter : iter = CHOOSE i : Eq(i)
  OBVIOUS
<1>6. Eq(iter)
  BY <1>4, <1>5
<1>7. Grouped(ts) = iter[1 .. n]
  BY <1>5, <1>20 DEF Grouped, NoGroups, FoldLeft, MapThenFoldSet
<1>8. ASSUME NEW T \in SUBSET (1 .. n), T # {}, iter[T \ {Max(T)}] \in A
      PROVE  iter[T] = Op[<<Max(T), iter[T \ {Max(T)}]>>]
  <2>1. Max(T) \in 1 .. n
    BY <1>8, Greatest
  <2>2. iter[T] = Placed(iter[T \ {Max(T)}], O[Max(T)])
    BY <1>6, <1>8, <1>20, <2>1
  <2> HIDE DEF A
  <2>q. QED BY <2>1, <2>2, <1>3, <1>8
<1>9. iter[{}] = NoGroups
  BY <1>6
<1>10. PICK v : LeftRun(v, iter, n, A, NoGroups, Op)
  <2> HIDE DEF Eq, A
  <2>1. \A i \in 1 .. n, r \in A : Op[<<i, r>>] \in A
    BY <1>3
  <2>2. LeftSolved(iter, n, A, NoGroups, Op)
    BY <1>8, <1>9 DEF LeftSolved
  <2>q. QED BY <1>2, <2>1, <2>2, LeftSteps
<1>11. \A k \in 1 .. n : v[k] = Placed(v[k - 1], O[k])
  <2>1. ASSUME NEW k \in 1 .. n PROVE v[k] = Placed(v[k - 1], O[k])
    <3> HIDE DEF A
    <3>1. v[k - 1] \in A
      BY <1>10, k - 1 \in 0 .. n DEF LeftRun
    <3>q. QED BY <1>3, <1>10, <3>1 DEF LeftRun
  <2>q. QED BY <2>1
<1>12. IsPlacedRun(v, ts, O, n)
  BY <1>7, <1>10, <1>11 DEF LeftRun, IsPlacedRun
<1>q. QED BY <1>12

-----------------------------------------------------------------------------
(* Where the sessions of GroupSessions begin                               *)

LEMMA FrontOfAppend ==
  ASSUME NEW T, NEW q \in Seq(T), NEW x \in T
  PROVE  /\ Append(q, x) \in Seq(T) /\ Append(q, x) # <<>>
         /\ Front(Append(q, x)) = q /\ Last(Append(q, x)) = x
<1>1. PICK a, n : a = Append(q, x) /\ n = Len(q)
  OBVIOUS
<1>2. n \in Nat /\ a \in Seq(T) /\ Len(a) = n + 1 /\ a[n + 1] = x /\ \A i \in 1 .. n : a[i] = q[i]
  BY <1>1
<1>3. PICK f : f = SubSeq(a, 1, n)
  OBVIOUS
<1>4. f \in Seq(T) /\ Len(f) = n /\ \A i \in 1 .. n : f[i] = a[i]
  BY <1>2, <1>3
<1>5. \A i \in 1 .. Len(f) : f[i] = q[i]
  BY <1>2, <1>4
<1>6. f = q
  <2>1. Len(f) = Len(q)
    BY <1>1, <1>4
  <2>2. f \in Seq(T)
    BY <1>4
  <2>q. QED BY <2>1, <2>2, <1>5, SeqEqual
<1>7. (n + 1) - 1 = n
  BY <1>2
<1>8. Front(a) = f /\ Last(a) = x
  BY <1>2, <1>3, <1>7 DEF Front, Last
<1>9. a # <<>>
  BY <1>2
<1>q. QED BY <1>1, <1>2, <1>6, <1>8, <1>9

\* The last tournament of the last group.
LEMMA LastPlaced ==
  ASSUME NEW T, NEW O \in Seq(T), NEW k \in 1 .. Len(O), NEW G \in Seq(Seq(T)), NEW e, Cuts(e, G, O, k)
  PROVE  Last(Last(G)) = O[k] /\ G # <<>>
<1>1. PICK m : m = Len(G)
  OBVIOUS
<1>2. m \in Nat \ {0} /\ m \in 1 .. m /\ m - 1 \in 0 .. m /\ e \in [0 .. m -> 0 .. k] /\ e[m] = k
  BY <1>1 DEF Cuts
<1>3. e[m - 1] < e[m] /\ G[m] = SubSeq(O, e[m - 1] + 1, e[m])
  BY <1>1, <1>2 DEF Cuts
<1>4. PICK a, g : a = e[m - 1] /\ g = G[m]
  OBVIOUS
<1>5. a \in 0 .. k /\ a < k /\ g = SubSeq(O, a + 1, k)
  BY <1>2, <1>3, <1>4
<1>6. Len(g) = k - a /\ g[k - a] = O[k]
  BY <1>5
<1>7. Last(G) = g
  BY <1>1, <1>4 DEF Last
<1>8. Last(g) = O[k]
  BY <1>6 DEF Last
<1>9. G # <<>>
  BY <1>1, <1>2
<1>q. QED BY <1>7, <1>8, <1>9

\* A pause before the i-th tournament: everything before it ended long before.
Pauses(O, i) == \A j \in 1 .. i - 1 : O[i].start - EndOf(O[j]) > Gap

InTime(O, n) ==
    O \in [1 .. n -> Tournaments] /\ \A i, j \in 1 .. n : i < j => O[i].start =< O[j].start

\* After k tournaments: they are cut where there is a pause, s.end is the end of one of
\* them, and those that ended later did so long before another one started.
Reached(s, O, k) ==
    /\ \E e : /\ Cuts(e, AllGroups(s), O, k)
              /\ Starts(e, Len(AllGroups(s))) = {i \in 1 .. k : Pauses(O, i)}
    /\ s.current # <<>>
    /\ \E j \in 1 .. k : s.end = EndOf(O[j])
    /\ \A j \in 1 .. k : EndOf(O[j]) =< s.end \/ \E c \in 1 .. k : O[c].start - EndOf(O[j]) > Gap

\* The next tournament starts a session exactly when there is a pause before it.
LEMMA StartsAfterPause ==
  ASSUME NEW n \in Nat, NEW O, InTime(O, n), NEW k \in 1 .. n, k + 1 =< n, NEW s \in Groupings, Reached(s, O, k)
  PROVE  (O[k + 1].start - s.end > Gap) <=> Pauses(O, k + 1)
<1>1. \A i \in 1 .. n : O[i] \in Tournaments
  BY DEF InTime
<1>2. \A i \in 1 .. n : EndOf(O[i]) \in Int /\ O[i].start \in Int
  BY <1>1, EndTyped
<1>3. PICK z : z = O[k + 1].start
  OBVIOUS
<1>4. z \in Int /\ s.end \in Int /\ Gap \in Int
  BY <1>2, <1>3, k + 1 \in 1 .. n, TournamentsAssumption DEF Groupings
<1>5. ASSUME z - s.end > Gap, NEW j \in 1 .. k PROVE z - EndOf(O[j]) > Gap
  <2>1. j \in 1 .. n /\ EndOf(O[j]) \in Int
    BY <1>2
  <2>2. CASE EndOf(O[j]) =< s.end
    BY <1>4, <1>5, <2>1, <2>2
  <2>3. CASE \E c \in 1 .. k : O[c].start - EndOf(O[j]) > Gap
    <3>1. PICK c \in 1 .. k : O[c].start - EndOf(O[j]) > Gap
      BY <2>3
    <3>2. c \in 1 .. n /\ k + 1 \in 1 .. n /\ c < k + 1
      OBVIOUS
    <3>3. O[c].start =< z
      BY <1>3, <3>2 DEF InTime
    <3>q. QED BY <1>2, <1>4, <2>1, <3>1, <3>2, <3>3
  <2>q. QED BY <2>2, <2>3 DEF Reached
<1>6. ASSUME \A j \in 1 .. k : z - EndOf(O[j]) > Gap PROVE z - s.end > Gap
  BY <1>6 DEF Reached
<1>7. (k + 1) - 1 = k
  OBVIOUS
<1>q. QED BY <1>3, <1>5, <1>6, <1>7 DEF Pauses

LEMMA GrownByPlaced ==
  ASSUME NEW s \in Groupings, s.current # <<>>, NEW t \in Tournaments,
         NEW new \in BOOLEAN, new <=> (t.start - s.end > Gap)
  PROVE  /\ AllGroups(s) \in Seq(Seq(Tournaments))
         /\ Placed(s, t).current # <<>>
         /\ new => AllGroups(Placed(s, t)) = Opened(AllGroups(s), t) /\ Placed(s, t).end = EndOf(t)
         /\ ~new => AllGroups(Placed(s, t)) = Joined(AllGroups(s), t) /\ Placed(s, t).end = Max({s.end, EndOf(t)})
<1>1. s.groups \in Seq(Seq(Tournaments)) /\ s.current \in Seq(Tournaments)
  BY DEF Groupings
<1>2. PICK g, c : g = s.groups /\ c = s.current
  OBVIOUS
<1>3. PICK a : a = Append(g, c)
  OBVIOUS
<1>4. AllGroups(s) = a /\ a \in Seq(Seq(Tournaments)) /\ Front(a) = g /\ Last(a) = c
  BY <1>1, <1>2, <1>3, FrontOfAppend DEF AllGroups
<1>5. Append(c, t) # <<>> /\ <<t>> # <<>>
  BY <1>1, <1>2
<1>6. CASE new
  <2>1. Placed(s, t) = [groups |-> a, current |-> <<t>>, end |-> EndOf(t)]
    BY <1>2, <1>3, <1>6 DEF Placed
  <2>2. AllGroups(Placed(s, t)) = Append(a, <<t>>)
    BY <1>5, <2>1 DEF AllGroups
  <2>3. Placed(s, t).current = <<t>> /\ Placed(s, t).end = EndOf(t)
    BY <2>1
  <2>4. Opened(AllGroups(s), t) = Append(a, <<t>>)
    BY <1>4 DEF Opened
  <2>5. Placed(s, t).current # <<>>
    BY <2>3, <1>5
  <2>q. QED BY Zenon, <1>4, <1>6, <2>2, <2>3, <2>4, <2>5
<1>7. CASE ~new
  <2>1. Placed(s, t) = [groups |-> g, current |-> Append(c, t), end |-> Max({s.end, EndOf(t)})]
    BY <1>2, <1>7 DEF Placed
  <2>2. AllGroups(Placed(s, t)) = Append(g, Append(c, t))
    BY <1>5, <2>1 DEF AllGroups
  <2>3. Placed(s, t).current = Append(c, t) /\ Placed(s, t).end = Max({s.end, EndOf(t)})
    BY <2>1
  <2>4. Joined(AllGroups(s), t) = Append(g, Append(c, t))
    BY <1>4 DEF Joined
  <2>5. Placed(s, t).current # <<>>
    BY <2>3, <1>5
  <2>q. QED BY Zenon, <1>4, <1>7, <2>2, <2>3, <2>4, <2>5
<1>q. QED BY <1>6, <1>7

LEMMA NextReached ==
  ASSUME NEW n \in Nat, NEW O, InTime(O, n), NEW k \in 1 .. n, k + 1 =< n, NEW s \in Groupings, Reached(s, O, k)
  PROVE  Reached(Placed(s, O[k + 1]), O, k + 1)
<1>1. \A i \in 1 .. n : O[i] \in Tournaments
  BY DEF InTime
<1>2. O \in Seq(Tournaments) /\ Len(O) = n
  BY DEF InTime
<1>3. PICK t, r : t = O[k + 1] /\ r = Placed(s, t)
  OBVIOUS
<1>20. PICK new \in BOOLEAN : new <=> (t.start - s.end > Gap)
  OBVIOUS
<1>4. t \in Tournaments /\ EndOf(t) \in Int /\ t.start \in Int /\ s.end \in Int /\ Gap \in Int
  BY <1>1, <1>3, k + 1 \in 1 .. n, EndTyped, TournamentsAssumption DEF Groupings
<1>5. new <=> Pauses(O, k + 1)
  <2>1. (O[k + 1].start - s.end > Gap) <=> Pauses(O, k + 1)
    BY StartsAfterPause
  <2>q. QED BY <1>3, <1>20, <2>1
<1>6. s.current # <<>>
  BY DEF Reached
<1>7. /\ AllGroups(s) \in Seq(Seq(Tournaments))
      /\ r.current # <<>>
      /\ new => AllGroups(r) = Opened(AllGroups(s), t) /\ r.end = EndOf(t)
      /\ ~new => AllGroups(r) = Joined(AllGroups(s), t) /\ r.end = Max({s.end, EndOf(t)})
  <2>1. t \in Tournaments
    BY <1>4
  <2>q. QED BY <1>3, <1>6, <1>20, <2>1, GrownByPlaced
<1>8. \E f : Cuts(f, AllGroups(r), O, k + 1) /\ Starts(f, Len(AllGroups(r))) = {i \in 1 .. k + 1 : Pauses(O, i)}
  <2>1. PICK G, H : G = AllGroups(s) /\ H = AllGroups(r)
    OBVIOUS
  <2>2. PICK e : Cuts(e, G, O, k) /\ Starts(e, Len(G)) = {i \in 1 .. k : Pauses(O, i)}
    BY <2>1 DEF Reached
  <2>30. PICK N : N = IF new THEN {k + 1} ELSE {}
    OBVIOUS
  <2>3. (H = Opened(G, t) /\ N = {k + 1}) \/ (H = Joined(G, t) /\ N = {})
    BY <1>7, <2>1, <2>30
  <2>4. PICK f : Cuts(f, H, O, k + 1) /\ Starts(f, Len(H)) = Starts(e, Len(G)) \cup N
    <3>1. PICK l : l = k + 1
      OBVIOUS
    <3>2. O \in Seq(Tournaments) /\ k \in 1 .. Len(O) /\ l \in 1 .. Len(O) /\ t \in Tournaments /\ t = O[l]
      BY <1>2, <1>3, <1>4, <3>1
    <3>3. G \in Seq(Seq(Tournaments)) /\ Cuts(e, G, O, k)
      BY <1>7, <2>1, <2>2
    <3>4. OneMoreThan(G, H, t, l, N)
      BY <2>3, <3>1 DEF OneMoreThan
    <3>5. CutsOf(e, G, H, O, l, N)
      BY <3>1, <3>2, <3>3, <3>4, OneMore
    <3>q. QED BY <3>1, <3>5 DEF CutsOf
  <2>5. 1 .. k + 1 = (1 .. k) \cup {k + 1}
    OBVIOUS
  <2>6. {i \in 1 .. k + 1 : Pauses(O, i)} = {i \in 1 .. k : Pauses(O, i)} \cup (IF Pauses(O, k + 1) THEN {k + 1} ELSE {})
    BY <2>5
  <2>q. QED BY <1>5, <2>1, <2>2, <2>30, <2>4, <2>6
<1>9. k + 1 \in 1 .. k + 1 /\ \A i \in 1 .. k : i \in 1 .. k + 1
  OBVIOUS
<1>10. CASE new
  <2>1. r.end = EndOf(O[k + 1])
    BY <1>3, <1>7, <1>10
  <2>2. ASSUME NEW j \in 1 .. k PROVE O[k + 1].start - EndOf(O[j]) > Gap
    BY <1>5, <1>10, (k + 1) - 1 = k DEF Pauses
  <2>3. ASSUME NEW j \in 1 .. k + 1 PROVE EndOf(O[j]) =< r.end \/ \E c \in 1 .. k + 1 : O[c].start - EndOf(O[j]) > Gap
    <3>1. CASE j = k + 1
      BY <1>3, <1>4, <2>1, <3>1
    <3>2. CASE j # k + 1
      <4>1. j \in 1 .. k
        BY <3>2
      <4>q. QED BY <1>9, <2>2, <4>1
    <3>q. QED BY <3>1, <3>2
  <2>4. Reached(r, O, k + 1)
    BY <1>7, <1>8, <1>9, <2>1, <2>3 DEF Reached
  <2>q. QED BY <1>3, <2>4
<1>11. CASE ~new
  <2>1. r.end \in {s.end, EndOf(t)} /\ r.end >= s.end /\ r.end >= EndOf(t) /\ r.end \in Int
    BY <1>4, <1>7, <1>11, MaxOfTwo
  <2>2. \E j \in 1 .. k + 1 : r.end = EndOf(O[j])
    BY <1>3, <1>9, <2>1 DEF Reached
  <2>3. ASSUME NEW j \in 1 .. k + 1 PROVE EndOf(O[j]) =< r.end \/ \E c \in 1 .. k + 1 : O[c].start - EndOf(O[j]) > Gap
    <3>1. CASE j = k + 1
      BY <1>3, <1>4, <2>1, <3>1
    <3>2. CASE j # k + 1
      <4>1. j \in 1 .. k /\ EndOf(O[j]) \in Int
        BY <3>2, <1>1, EndTyped
      <4>2. EndOf(O[j]) =< s.end \/ \E c \in 1 .. k : O[c].start - EndOf(O[j]) > Gap
        BY <4>1 DEF Reached
      <4>3. EndOf(O[j]) =< s.end => EndOf(O[j]) =< r.end
        BY <1>4, <2>1, <4>1
      <4>q. QED BY <1>9, <4>2, <4>3
    <3>q. QED BY <3>1, <3>2
  <2>4. Reached(r, O, k + 1)
    BY <1>7, <1>8, <2>2, <2>3 DEF Reached
  <2>q. QED BY <1>3, <2>4
<1>q. QED BY <1>10, <1>11

LEMMA FirstReached ==
  ASSUME NEW n \in Nat \ {0}, NEW O, InTime(O, n)
  PROVE  Reached(Placed(NoGroups, O[1]), O, 1)
<1>1. PICK t, r : t = O[1] /\ r = Placed(NoGroups, t)
  OBVIOUS
<1>2. t \in Tournaments /\ EndOf(t) \in Int /\ O \in Seq(Tournaments) /\ 1 =< Len(O)
  BY <1>1, 1 \in 1 .. n, EndTyped DEF InTime
<1>3. r = [groups |-> <<>>, current |-> Append(<<>>, t), end |-> EndOf(t)]
  BY <1>1 DEF Placed, NoGroups
<1>4. Append(<<>>, t) = <<t>> /\ <<t>> # <<>> /\ Append(<<>>, <<t>>) = << <<t>> >>
  BY <1>2
<1>5. r.current # <<>> /\ r.end = EndOf(t) /\ AllGroups(r) = << <<t>> >>
  BY <1>3, <1>4 DEF AllGroups
<1>6. PICK e : Cuts(e, << <<O[1]>> >>, O, 1) /\ Starts(e, 1) = {1}
  BY <1>2, OneGroup
<1>7. {i \in 1 .. 1 : Pauses(O, i)} = {1}
  <2>1. 1 .. 1 = {1} /\ 1 .. 1 - 1 = {}
    OBVIOUS
  <2>q. QED BY <2>1 DEF Pauses
<1>8. Len(<< <<t>> >>) = 1
  OBVIOUS
<1>9. Cuts(e, AllGroups(r), O, 1) /\ Starts(e, Len(AllGroups(r))) = {i \in 1 .. 1 : Pauses(O, i)}
  BY <1>1, <1>5, <1>6, <1>7, <1>8
<1>10. 1 \in 1 .. 1 /\ \A j \in 1 .. 1 : j = 1
  OBVIOUS
<1>11. \A j \in 1 .. 1 : EndOf(O[j]) =< r.end
  BY <1>1, <1>2, <1>5, <1>10
<1>12. \E j \in 1 .. 1 : r.end = EndOf(O[j])
  BY <1>1, <1>5, <1>10
<1>13. Reached(r, O, 1)
  BY <1>5, <1>9, <1>11, <1>12 DEF Reached
<1>q. QED BY <1>1, <1>13

LEMMA AllReached ==
  ASSUME NEW n \in Nat \ {0}, NEW ts, NEW O, InTime(O, n), NEW v, IsPlacedRun(v, ts, O, n)
  PROVE  \A k \in 1 .. n : v[k] \in Groupings /\ Reached(v[k], O, k)
<1>1. v \in [0 .. n -> Groupings] /\ v[0] = NoGroups /\ \A k \in 1 .. n : v[k] = Placed(v[k - 1], O[k])
  BY DEF IsPlacedRun
<1> DEFINE P == {k \in 1 .. n : Reached(v[k], O, k)}
<1>2. 1 \in P
  <2>1. v[1] = Placed(NoGroups, O[1]) /\ 1 \in 1 .. n
    BY <1>1
  <2>q. QED BY <2>1, FirstReached
<1>3. ASSUME NEW k \in 1 .. n, k + 1 =< n, k \in P PROVE k + 1 \in P
  <2>1. PICK s : s = v[k]
    OBVIOUS
  <2>2. s \in Groupings /\ Reached(s, O, k) /\ v[k + 1] = Placed(s, O[k + 1])
    <3>1. k + 1 \in 1 .. n /\ (k + 1) - 1 = k /\ k \in 0 .. n
      BY <1>3
    <3>q. QED BY <3>1, <1>1, <1>3, <2>1
  <2>3. Reached(Placed(s, O[k + 1]), O, k + 1)
    BY <1>3, <2>2, NextReached
  <2>q. QED BY <1>3, <2>2, <2>3
<1> HIDE DEF P
<1>4. \A k \in 1 .. n : k \in P
  <2>1. \A k \in 1 .. n : k + 1 =< n /\ k \in P => k + 1 \in P
    BY <1>3
  <2>q. QED BY <1>2, <2>1, FromOne
<1>q. QED BY <1>1, <1>4 DEF P

\* build_sessions cuts the tournaments too, at every pause at least.
AtPauses(e, G, O, k) == {i \in 1 .. k : Pauses(O, i)} \subseteq Starts(e, Len(G))

LEMMA FirstPlaced ==
  ASSUME NEW T, NEW O \in Seq(T), 1 =< Len(O)
  PROVE  \E e : Cuts(e, << <<O[1]>> >>, O, 1) /\ AtPauses(e, << <<O[1]>> >>, O, 1)
<1>1. PICK e : Cuts(e, << <<O[1]>> >>, O, 1) /\ Starts(e, 1) = {1}
  BY OneGroup
<1>2. Len(<< <<O[1]>> >>) = 1 /\ 1 .. 1 = {1}
  OBVIOUS
<1>q. QED BY <1>1, <1>2 DEF AtPauses

\* A pause before a tournament is one after the tournament started just before it.
LEMMA PauseOpens ==
  ASSUME NEW O, NEW k \in Nat \ {0}, NEW l, l = k + 1, NEW t, t = O[l],
         NEW e, NEW f, NEW G, NEW H, NEW N,
         AtPauses(e, G, O, k), Starts(f, Len(H)) = Starts(e, Len(G)) \cup N,
         (t.start - EndOf(O[k]) > Gap) => l \in N
  PROVE  AtPauses(f, H, O, l)
<1>1. ASSUME NEW i \in 1 .. l, Pauses(O, i) PROVE i \in Starts(f, Len(H))
  <2>1. CASE i = l
    <3>1. k \in 1 .. i - 1
      BY <2>1
    <3>2. O[i].start - EndOf(O[k]) > Gap
      BY <1>1, <3>1 DEF Pauses
    <3>q. QED BY <2>1, <3>2
  <2>2. CASE i # l
    <3>1. i \in 1 .. k
      BY <2>2
    <3>q. QED BY <1>1, <3>1 DEF AtPauses
  <2>q. QED BY <2>1, <2>2
<1>q. QED BY <1>1 DEF AtPauses

LEMMA AllPlaced ==
  ASSUME NEW n \in Nat \ {0}, NEW ts, NEW O, O \in [1 .. n -> Tournaments], NEW w, IsPlaceRun(w, ts, O, n)
  PROVE  \A k \in 1 .. n : w[k] \in Seq(Seq(Tournaments)) /\ \E e : Cuts(e, w[k], O, k) /\ AtPauses(e, w[k], O, k)
<1>1. w \in [0 .. n -> Seq(Seq(Tournaments))] /\ w[0] = <<>> /\ \A k \in 1 .. n : w[k] = PlaceStep(w[k - 1], O[k])
  BY DEF IsPlaceRun
<1>2. O \in Seq(Tournaments) /\ Len(O) = n
  OBVIOUS
<1> DEFINE P == {k \in 1 .. n : \E e : Cuts(e, w[k], O, k) /\ AtPauses(e, w[k], O, k)}
<1>3. 1 \in P
  <2>1. w[1] = PlaceStep(<<>>, O[1]) /\ 1 \in 1 .. n
    BY <1>1
  <2>2. w[1] = << <<O[1]>> >>
    BY <2>1 DEF PlaceStep
  <2>3. \E e : Cuts(e, << <<O[1]>> >>, O, 1) /\ AtPauses(e, << <<O[1]>> >>, O, 1)
    BY <1>2, 1 =< n, FirstPlaced
  <2>q. QED BY <2>1, <2>2, <2>3
<1>4. ASSUME NEW k \in 1 .. n, k + 1 =< n, k \in P PROVE k + 1 \in P
  <2>1. PICK G, H, t, l : G = w[k] /\ H = w[k + 1] /\ t = O[k + 1] /\ l = k + 1
    OBVIOUS
  <2>2. PICK e : Cuts(e, G, O, k) /\ AtPauses(e, G, O, k)
    BY <1>4, <2>1
  <2>3. G \in Seq(Seq(Tournaments)) /\ H = PlaceStep(G, t) /\ t \in Tournaments /\ l \in 1 .. n
    <3>1. k + 1 \in 1 .. n /\ (k + 1) - 1 = k /\ k \in 0 .. n
      BY <1>4
    <3>q. QED BY <3>1, <1>1, <2>1
  <2>4. G # <<>>
    BY <1>2, <2>2, <2>3, LastPlaced
  <2>5. PICK new \in BOOLEAN : new <=> (t.start - EndOf(O[k]) > Gap)
    OBVIOUS
  <2>6. PICK N : OneMoreThan(G, H, t, l, N) /\ (new => l \in N)
    <3>0. Last(Last(G)) = O[k]
      BY <1>2, <2>2, <2>3, LastPlaced
    <3>1. H = IF new THEN Opened(G, t) ELSE Joined(G, t)
      BY <2>3, <2>4, <2>5, <3>0 DEF PlaceStep, Opened, Joined
    <3>2. new => OneMoreThan(G, H, t, l, {l})
      BY <3>1 DEF OneMoreThan
    <3>3. ~new => OneMoreThan(G, H, t, l, {})
      BY <3>1 DEF OneMoreThan
    <3>q. QED BY <3>2, <3>3
  <2>7. CutsOf(e, G, H, O, l, N)
    BY <1>2, <2>1, <2>2, <2>3, <2>6, OneMore
  <2>8. PICK f : Cuts(f, H, O, l) /\ Starts(f, Len(H)) = Starts(e, Len(G)) \cup N
    BY <2>7 DEF CutsOf
  <2>9. AtPauses(f, H, O, l)
    <3>1. k \in Nat \ {0} /\ l = k + 1 /\ t = O[l]
      BY <2>1
    <3>2. AtPauses(e, G, O, k) /\ Starts(f, Len(H)) = Starts(e, Len(G)) \cup N
      BY <2>2, <2>8
    <3>3. (t.start - EndOf(O[k]) > Gap) => l \in N
      BY <2>5, <2>6
    <3>q. QED BY <3>1, <3>2, <3>3, PauseOpens
  <2>q. QED BY <1>4, <2>1, <2>8, <2>9
<1> HIDE DEF P
<1>5. \A k \in 1 .. n : k \in P
  <2>1. \A k \in 1 .. n : k + 1 =< n /\ k \in P => k + 1 \in P
    BY <1>4
  <2>q. QED BY <1>3, <2>1, FromOne
<1>q. QED BY <1>1, <1>5 DEF P

\* No tournament outlasts a later one.
NoneOutlasts(O, n) == \A i, j \in 1 .. n : i < j => EndOf(O[i]) =< EndOf(O[j])

\* Then the last tournament ends last, and the two ways to make sessions do the same.
LEMMA SameGroups ==
  ASSUME NEW n \in Nat \ {0}, NEW ts, NEW O, InTime(O, n), NoneOutlasts(O, n),
         NEW v, IsPlacedRun(v, ts, O, n), NEW w, IsPlaceRun(w, ts, O, n)
  PROVE  w[n] = AllGroups(v[n])
<1>1. /\ v \in [0 .. n -> Groupings] /\ v[0] = NoGroups /\ \A k \in 1 .. n : v[k] = Placed(v[k - 1], O[k])
      /\ w[0] = <<>> /\ \A k \in 1 .. n : w[k] = PlaceStep(w[k - 1], O[k])
  BY DEF IsPlacedRun, IsPlaceRun
<1>2. O \in [1 .. n -> Tournaments] /\ O \in Seq(Tournaments) /\ Len(O) = n
  BY DEF InTime
<1>3. \A k \in 1 .. n : O[k] \in Tournaments /\ EndOf(O[k]) \in Int
  BY <1>2, EndTyped
<1> DEFINE P == {k \in 1 .. n : w[k] = AllGroups(v[k]) /\ v[k].end = EndOf(O[k])}
<1>4. 1 \in P
  <2>1. PICK t : t = O[1]
    OBVIOUS
  <2>2. v[1] = Placed(NoGroups, t) /\ w[1] = PlaceStep(<<>>, t) /\ 1 \in 1 .. n
    BY <1>1, <2>1
  <2>3. v[1] = [groups |-> <<>>, current |-> Append(<<>>, t), end |-> EndOf(t)]
    BY <2>2 DEF Placed, NoGroups
  <2>4. Append(<<>>, t) = <<t>> /\ <<t>> # <<>> /\ Append(<<>>, <<t>>) = << <<t>> >>
    BY <1>3, <2>1, <2>2
  <2>5. v[1].end = EndOf(t) /\ AllGroups(v[1]) = << <<t>> >>
    BY <2>3, <2>4 DEF AllGroups
  <2>6. w[1] = << <<t>> >>
    BY <2>2 DEF PlaceStep
  <2>q. QED BY <2>1, <2>2, <2>5, <2>6
<1>5. ASSUME NEW k \in 1 .. n, k + 1 =< n, k \in P PROVE k + 1 \in P
  <2>1. PICK s, G, t : s = v[k] /\ G = w[k] /\ t = O[k + 1]
    OBVIOUS
  <2>2. /\ s \in Groupings /\ v[k + 1] = Placed(s, t) /\ w[k + 1] = PlaceStep(G, t)
        /\ t \in Tournaments /\ k + 1 \in 1 .. n
    <3>1. k + 1 \in 1 .. n /\ (k + 1) - 1 = k /\ k \in 0 .. n
      BY <1>5
    <3>q. QED BY <3>1, <1>1, <1>2, <2>1
  <2>3. G = AllGroups(s) /\ s.end = EndOf(O[k])
    BY <1>5, <2>1
  <2>4. s.current # <<>>
    <3>1. Reached(s, O, k)
      BY <2>1, AllReached
    <3>q. QED BY <3>1 DEF Reached
  <2>5. PICK new \in BOOLEAN : new <=> (t.start - s.end > Gap)
    OBVIOUS
  <2>6. /\ new => AllGroups(Placed(s, t)) = Opened(G, t) /\ Placed(s, t).end = EndOf(t)
        /\ ~new => AllGroups(Placed(s, t)) = Joined(G, t) /\ Placed(s, t).end = Max({s.end, EndOf(t)})
    BY <2>2, <2>3, <2>4, <2>5, GrownByPlaced
  <2>7. Placed(s, t).end = EndOf(t)
    <3>1. PICK a, b : a = s.end /\ b = EndOf(t)
      OBVIOUS
    <3>2. a \in Int /\ b \in Int /\ a =< b
      BY <1>3, <2>1, <2>2, <2>3, <3>1, k < k + 1 DEF NoneOutlasts
    <3>3. Max({a, b}) = b
      BY <3>2, MaxOfTwo
    <3>q. QED BY <2>6, <3>1, <3>3
  <2>8. G \in Seq(Seq(Tournaments)) /\ \E e : Cuts(e, G, O, k)
    BY <1>2, <2>1, AllPlaced
  <2>9. Last(Last(G)) = O[k] /\ G # <<>>
    BY <1>2, <2>8, LastPlaced
  <2>10. PlaceStep(G, t) = IF new THEN Opened(G, t) ELSE Joined(G, t)
    BY <2>3, <2>5, <2>9 DEF PlaceStep, Opened, Joined
  <2>11. w[k + 1] = AllGroups(v[k + 1])
    BY <2>2, <2>6, <2>10
  <2>q. QED BY <2>1, <2>2, <2>7, <2>11
<1> HIDE DEF P
<1>6. \A k \in 1 .. n : k \in P
  <2>1. \A k \in 1 .. n : k + 1 =< n /\ k \in P => k + 1 \in P
    BY <1>5
  <2>q. QED BY <1>4, <2>1, FromOne
<1>7. n \in P
  BY <1>6
<1>q. QED BY <1>7 DEF P

-----------------------------------------------------------------------------
(* What is said of a session                                               *)

LEMMA LeastIs == ASSUME NEW S \in SUBSET Int, NEW x \in S, \A y \in S : x =< y PROVE Min(S) = x
<1>1. PICK m : m = Min(S)
  OBVIOUS
<1>2. m \in S /\ \A y \in S : m =< y
  BY <1>1 DEF Min
<1>3. m \in Int /\ x \in Int /\ m =< x /\ x =< m
  BY <1>2
<1>q. QED BY <1>1, <1>3

LEMMA GreatestIs == ASSUME NEW S \in SUBSET Int, NEW x \in S, \A y \in S : y =< x PROVE Max(S) = x
<1>0. \A y \in S : x >= y
  OBVIOUS
<1>1. PICK m : m = Max(S)
  OBVIOUS
<1>2. m \in S /\ \A y \in S : m >= y
  BY <1>0, <1>1 DEF Max
<1>3. m \in Int /\ x \in Int /\ m >= x /\ x >= m
  BY <1>0, <1>2
<1>q. QED BY <1>1, <1>3

\* One session: tournaments one after the other, of which none outlasts a later one.
OneSession(g, m) ==
    /\ g \in Seq(Tournaments) /\ Len(g) = m
    /\ \A i, j \in 1 .. m : i < j => Precedes(g[i], g[j])
    /\ NoneOutlasts(g, m)

LEMMA SessionEnds ==
  ASSUME NEW m \in Nat \ {0}, NEW g, OneSession(g, m)
  PROVE  /\ Min({t.start : t \in ToSet(g)}) = g[1].start
         /\ Max({EndOf(t) : t \in ToSet(g)}) = EndOf(Last(g))
<1>1. DOMAIN g = 1 .. m /\ 1 \in 1 .. m /\ m \in 1 .. m /\ \A i \in 1 .. m : g[i] \in Tournaments
  BY DEF OneSession
<1>2. PICK S, E : S = {t.start : t \in ToSet(g)} /\ E = {EndOf(t) : t \in ToSet(g)}
  OBVIOUS
<1>3. S = {g[i].start : i \in 1 .. m} /\ E = {EndOf(g[i]) : i \in 1 .. m}
  BY <1>1, <1>2 DEF ToSet
<1>4. \A i \in 1 .. m : g[i].start \in Int /\ EndOf(g[i]) \in Int
  BY <1>1, EndTyped
<1>5. S \in SUBSET Int /\ E \in SUBSET Int
  BY <1>3, <1>4
<1>6. Min(S) = g[1].start
  <2>1. ASSUME NEW i \in 1 .. m PROVE g[1].start =< g[i].start
    <3>1. CASE i = 1
      BY <1>4, <3>1
    <3>2. CASE i # 1
      <4>1. Precedes(g[1], g[i])
        BY <1>1, <3>2 DEF OneSession
      <4>q. QED BY <1>1, <1>4, <4>1 DEF Precedes
    <3>q. QED BY <3>1, <3>2
  <2>2. PICK x : x = g[1].start
    OBVIOUS
  <2>3. x \in S /\ \A y \in S : x =< y
    BY <1>1, <1>3, <2>1, <2>2
  <2>q. QED BY <1>5, <2>2, <2>3, LeastIs
<1>7. Max(E) = EndOf(g[m])
  <2>1. ASSUME NEW i \in 1 .. m PROVE EndOf(g[i]) =< EndOf(g[m])
    <3>1. CASE i = m
      BY <1>4, <3>1
    <3>2. CASE i # m
      <4>1. i < m
        BY <3>2
      <4>q. QED BY <1>1, <4>1 DEF OneSession, NoneOutlasts
    <3>q. QED BY <3>1, <3>2
  <2>2. PICK x : x = EndOf(g[m])
    OBVIOUS
  <2>3. x \in E /\ \A y \in E : y =< x
    BY <1>1, <1>3, <2>1, <2>2
  <2>q. QED BY <1>5, <2>2, <2>3, GreatestIs
<1>8. Last(g) = g[m]
  BY DEF Last, OneSession
<1>q. QED BY <1>2, <1>6, <1>7, <1>8

LEMMA SessionNets ==
  ASSUME NEW m \in Nat \ {0}, NEW g, OneSession(g, m)
  PROVE  /\ FoldLeft(+, 0, Nets(g)) = NetSum(ToSet(g))
         /\ ToSet(Nets(g)) = {NetResult(t) : t \in ToSet(g)}
<1>1. /\ DOMAIN g = 1 .. m /\ \A i \in 1 .. m : g[i] \in Tournaments
      /\ \A i, j \in 1 .. m : i < j => Precedes(g[i], g[j])
  BY DEF OneSession
<1>2. PICK s, ts : s = Nets(g) /\ ts = ToSet(g)
  OBVIOUS
<1>3. s = [i \in 1 .. m |-> NetResult(g[i])]
  BY <1>1, <1>2 DEF Nets
<1>4. \A i \in 1 .. m : NetResult(g[i]) \in Int
  BY <1>1, Fields DEF NetResult
<1>5. s \in Seq(Int) /\ Len(s) = m /\ DOMAIN s = 1 .. m /\ \A i \in 1 .. m : s[i] = NetResult(g[i])
  BY <1>3, <1>4
<1>6. ts = Opening(g, m)
  BY <1>1, <1>2 DEF ToSet, Opening
<1>7. Kept(ts)
  <2>1. IsFiniteSet(1 .. m)
    BY FS_Interval
  <2>2. PICK f : f = [i \in 1 .. m |-> g[i]]
    OBVIOUS
  <2>3. f \in Surjection(1 .. m, ts) /\ ts \subseteq Tournaments
    BY <1>1, <1>6, <2>2 DEF Opening, Surjection
  <2>q. QED BY <2>1, <2>3, FS_Surjection DEF Kept
<1>8. PICK P : PartialSums(P, s) /\ FoldLeft(+, 0, s) = P[Len(s)]
  BY <1>5, FoldOfSum
<1>9. P[m] = NetSum(ts)
  <2>1. \A i \in 1 .. m : g[i] \in ts
    BY <1>6 DEF Opening
  <2>2. PICK h : h = [i \in 1 .. m |-> g[i]]
    OBVIOUS
  <2>3. h \in [1 .. m -> ts] /\ \A i \in 1 .. m : h[i] = g[i]
    BY <2>1, <2>2
  <2>4. (\A i, j \in 1 .. m : i < j => Precedes(h[i], h[j])) /\ \A i \in 1 .. m : s[i] = NetResult(h[i])
    BY <1>1, <1>5, <2>3
  <2>5. Opening(h, m) = ts
    BY <1>6, <2>3 DEF Opening
  <2>6. m \in 0 .. m /\ m \in Nat
    OBVIOUS
  <2>7. P[m] = NetSum(Opening(h, m))
    <3>1. PartialSums(P, s)
      BY <1>8
    <3>2. s \in Seq(Int) /\ Len(s) = m
      BY <1>5
    <3>q. QED BY <1>7, <2>3, <2>4, <2>6, <3>1, <3>2, NetOfOpening
  <2>q. QED BY <2>5, <2>7
<1>10. FoldLeft(+, 0, s) = NetSum(ts)
  BY <1>5, <1>8, <1>9
<1>11. ToSet(s) = {NetResult(t) : t \in ts}
  <2>1. ToSet(s) = {NetResult(g[i]) : i \in 1 .. m}
    BY <1>5 DEF ToSet
  <2>2. ts = {g[i] : i \in 1 .. m}
    BY <1>6 DEF Opening
  <2>q. QED BY <2>1, <2>2
<1>q. QED BY <1>2, <1>10, <1>11

\* The line of the application's session and the summary of the analytics package.
LinesAgree(g) == \A f \in DOMAIN SessionSummary(g) : SessionLine(g)[f] = SessionSummary(g)[f]

LEMMA LineOfSession ==
  ASSUME NEW m \in Nat \ {0}, NEW g, OneSession(g, m)
  PROVE  LinesAgree(g)
<1>1. PICK a, b, n, u : a = SessionLine(g) /\ b = SessionSummary(g) /\ n = NetSum(ToSet(g)) /\ u = {NetResult(t) : t \in ToSet(g)}
  OBVIOUS
<1>2. PICK x, y : x = g[1].start /\ y = EndOf(Last(g))
  OBVIOUS
<1>3. Min({t.start : t \in ToSet(g)}) = x /\ Max({EndOf(t) : t \in ToSet(g)}) = y
  BY <1>2, SessionEnds
<1>4. FoldLeft(+, 0, Nets(g)) = n /\ ToSet(Nets(g)) = u
  BY <1>1, SessionNets
<1>5. b = [start |-> x, end |-> y, duration |-> Max({0, y - x}), games |-> Len(g), net |-> n, best |-> Max(u), worst |-> Min(u)]
  <2>1. n = Total(ToSet(g), NetResult)
    BY Zenon, <1>1 DEF NetSum
  <2>q. QED BY Zenon, <1>1, <1>3, <2>1 DEF SessionSummary
<1>6. \E c : a = [start |-> x, end |-> y, duration |-> Max({0, y - x}), games |-> Len(g), net |-> n, best |-> Max(u), worst |-> Min(u),
                  curve |-> c]
  BY Zenon, <1>1, <1>2, <1>4 DEF SessionLine
<1>7. DOMAIN b = {"start", "end", "duration", "games", "net", "best", "worst"}
  BY <1>5
<1>8. /\ a.start = b.start /\ a.end = b.end /\ a.duration = b.duration /\ a.games = b.games /\ a.net = b.net
      /\ a.best = b.best /\ a.worst = b.worst
  BY <1>5, <1>6
<1>9. \A f \in DOMAIN b : a[f] = b[f]
  BY <1>7, <1>8
<1>q. QED BY <1>1, <1>9 DEF LinesAgree

\* The first tournaments of the groups.
LEMMA HeadsAre ==
  ASSUME NEW T, NEW O \in Seq(T), NEW k \in 1 .. Len(O), NEW G, NEW e, Cuts(e, G, O, k), DOMAIN G = 1 .. Len(G)
  PROVE  {Head(G[i]) : i \in DOMAIN G} = {O[j] : j \in Starts(e, Len(G))}
<1>1. PICK m \in Nat : m = Len(G)
  BY DEF Cuts
<1>2. \A i \in 1 .. m : Head(G[i]) = O[e[i - 1] + 1]
  <2>1. ASSUME NEW i \in 1 .. m PROVE Head(G[i]) = O[e[i - 1] + 1]
    <3>0. PICK a, b, j, n : a = e[j] /\ b = e[i] /\ j = i - 1 /\ n = Len(O)
      OBVIOUS
    <3>1. a \in 0 .. n /\ b \in 0 .. n /\ a < b /\ G[i] = SubSeq(O, a + 1, b)
      <4>1. i \in 0 .. Len(G) /\ j \in 0 .. Len(G) /\ i \in 1 .. Len(G)
        BY <1>1, <3>0
      <4>2. e[j] \in 0 .. k /\ e[i] \in 0 .. k /\ e[j] < e[i] /\ G[i] = SubSeq(O, e[j] + 1, e[i])
        BY <3>0, <4>1 DEF Cuts
      <4>q. QED BY <3>0, <4>2
    <3>2. a + 1 \in 1 .. Len(O) /\ b \in a + 1 .. Len(O)
      BY <3>0, <3>1
    <3>3. PICK c : c = a + 1
      OBVIOUS
    <3>4. Head(SubSeq(O, c, b)) = O[c]
      BY <3>2, <3>3, HeadTailOfSubSeq
    <3>5. Head(G[i]) = Head(SubSeq(O, c, b))
      BY Zenon, <3>1, <3>3
    <3>q. QED BY <3>0, <3>3, <3>4, <3>5
  <2>q. QED BY <2>1
<1>3. {Head(G[i]) : i \in DOMAIN G} = {O[e[i - 1] + 1] : i \in 1 .. m}
  <2>1. PICK h : h = [i \in 1 .. m |-> Head(G[i])]
    OBVIOUS
  <2>2. {Head(G[i]) : i \in DOMAIN G} = {h[i] : i \in 1 .. m}
    BY Zenon, <1>1, <2>1
  <2>3. \A i \in 1 .. m : h[i] = O[e[i - 1] + 1]
    BY Zenon, <1>2, <2>1
  <2>q. QED BY <2>2, <2>3
<1>4. Starts(e, m) = {e[i - 1] + 1 : i \in 1 .. m}
  <2>1. \A i \in 0 .. m - 1 : i + 1 \in 1 .. m /\ (i + 1) - 1 = i
    OBVIOUS
  <2>2. \A i \in 1 .. m : i - 1 \in 0 .. m - 1
    OBVIOUS
  <2>q. QED BY <2>1, <2>2 DEF Starts
<1>q. QED BY <1>1, <1>3, <1>4

\* A group of tournaments in order is a session.
LEMMA GroupIsSession ==
  ASSUME NEW n \in Nat, NEW O \in Seq(Tournaments), Len(O) = n,
         \A i, j \in 1 .. n : i < j => Precedes(O[i], O[j]), NoneOutlasts(O, n),
         NEW a \in 0 .. n, NEW b \in 0 .. n, a < b, NEW g, g = SubSeq(O, a + 1, b)
  PROVE  OneSession(g, b - a)
<1>1. PICK m : m = b - a
  OBVIOUS
<1>2. g \in Seq(Tournaments) /\ Len(g) = m /\ \A i \in 1 .. m : g[i] = O[a + i] /\ a + i \in 1 .. n
  BY <1>1
<1>3. ASSUME NEW i \in 1 .. m, NEW j \in 1 .. m, i < j
      PROVE  Precedes(g[i], g[j]) /\ EndOf(g[i]) =< EndOf(g[j])
  <2>1. PICK x, y : x = a + i /\ y = a + j
    OBVIOUS
  <2>2. x \in 1 .. n /\ y \in 1 .. n /\ x < y /\ g[i] = O[x] /\ g[j] = O[y]
    BY <1>1, <1>2, <1>3, <2>1
  <2>q. QED BY <2>2 DEF NoneOutlasts
<1>q. QED BY <1>1, <1>2, <1>3 DEF OneSession, NoneOutlasts

\* The same is said of every one of the groups.
LEMMA LinesOfGroups ==
  ASSUME NEW n \in Nat \ {0}, NEW O \in Seq(Tournaments), n = Len(O),
         \A i, j \in 1 .. n : i < j => Precedes(O[i], O[j]), NoneOutlasts(O, n),
         NEW G \in Seq(Seq(Tournaments)), NEW e, Cuts(e, G, O, n)
  PROVE  \A i \in DOMAIN G : LinesAgree(G[i])
<1>1. PICK m \in Nat : m = Len(G)
  OBVIOUS
<1>2. ASSUME NEW i \in 1 .. m PROVE LinesAgree(G[i])
  <2>0. PICK a, b, j : a = e[j] /\ b = e[i] /\ j = i - 1
    OBVIOUS
  <2>1. a \in 0 .. n /\ b \in 0 .. n /\ a < b /\ G[i] = SubSeq(O, a + 1, b)
    <3>1. i \in 0 .. Len(G) /\ j \in 0 .. Len(G) /\ i \in 1 .. Len(G)
      BY <1>1, <2>0
    <3>2. e[j] \in 0 .. n /\ e[i] \in 0 .. n /\ e[j] < e[i] /\ G[i] = SubSeq(O, e[j] + 1, e[i])
      BY <2>0, <3>1 DEF Cuts
    <3>q. QED BY <2>0, <3>2
  <2>2. PICK g, l : g = G[i] /\ l = b - a
    OBVIOUS
  <2>3. a \in 0 .. n /\ b \in 0 .. n /\ a < b /\ l \in Nat \ {0} /\ g = SubSeq(O, a + 1, b)
    BY <2>1, <2>2
  <2>4. OneSession(g, b - a)
    BY <2>3, GroupIsSession
  <2>5. LinesAgree(g)
    BY <2>2, <2>3, <2>4, LineOfSession
  <2>q. QED BY <2>2, <2>5
<1>q. QED BY <1>1, <1>2

\* What SessionsEndWithAPause says of the two lists of groups.
SessionsRight(G, B, O, ts) ==
    /\ FlattenSeq(G) = O
    /\ {O[i] : i \in {j \in DOMAIN O : Pauses(O, j)}} = {Head(G[i]) : i \in DOMAIN G}
    /\ FlattenSeq(B) = O
    /\ {Head(G[i]) : i \in DOMAIN G} \subseteq {Head(B[i]) : i \in DOMAIN B}
    /\ ~Overlap(ts) => B = G /\ \A i \in DOMAIN G : LinesAgree(G[i])

LEMMA SessionsRightIs ==
  SessionsEndWithAPause <=> SessionsRight(GroupSessions(Shown), BuildSessions(Shown), Ordered(Shown), Shown)
BY Zenon DEF SessionsEndWithAPause, SessionsRight, Pauses, LinesAgree

\* Sessions end with a pause (sessions.py of the analytics package), the application's
\* build_sessions cuts the same tournaments and at every pause too, and without an overlap
\* makes the same sessions and says the same of each.
LEMMA SessionsAre == ASSUME Kept(games) PROVE SessionsEndWithAPause
<1>1. PICK ts : ts = Shown
  OBVIOUS
<1>2. PICK O, n : O = Ordered(ts) /\ n = Cardinality(ts)
  OBVIOUS
<1>3. Kept(ts) /\ Completed(ts) = ts
  BY <1>1, ShownIs
<1>4. /\ n \in Nat /\ O \in [1 .. n -> ts] /\ \A i, j \in 1 .. n : i < j => Precedes(O[i], O[j])
      /\ \A i \in 1 .. n : O[i] \in Tournaments
  BY <1>2, <1>3, OrderedIs DEF Kept
<1>5. O \in [1 .. n -> Tournaments] /\ O \in Seq(Tournaments) /\ Len(O) = n /\ DOMAIN O = 1 .. n
  BY <1>4
<1>6. InTime(O, n)
  <2>1. ASSUME NEW i \in 1 .. n, NEW j \in 1 .. n, i < j PROVE O[i].start =< O[j].start
    <3>1. Precedes(O[i], O[j]) /\ O[i].start \in Int /\ O[j].start \in Int
      BY <1>4, <2>1, EndTyped
    <3>q. QED BY <3>1 DEF Precedes
  <2>q. QED BY <1>5, <2>1 DEF InTime
<1>7. PICK v : IsPlacedRun(v, ts, O, n)
  BY <1>2, <1>3, <1>4, <1>5, PlacedRuns
<1>8. PICK w : IsPlaceRun(w, ts, O, n)
  BY <1>2, <1>4, <1>5, PlaceRuns
<1>9. PICK G, B : G = AllGroups(v[n]) /\ B = w[n]
  OBVIOUS
<1>10. GroupSessions(ts) = G /\ BuildSessions(ts) = B
  BY <1>7, <1>8, <1>9, GroupSessionsIs DEF IsPlacedRun, IsPlaceRun
<1> DEFINE Begun == {O[i] : i \in {j \in DOMAIN O : Pauses(O, j)}}
           Heads == {Head(G[i]) : i \in DOMAIN G}
           Built == {Head(B[i]) : i \in DOMAIN B}
<1>11. FlattenSeq(G) = O /\ FlattenSeq(B) = O /\ Begun = Heads /\ Heads \subseteq Built
  <2>1. CASE n = 0
    <3>1. O = <<>> /\ DOMAIN O = {}
      BY <1>5, <2>1
    <3>2. v[0] = NoGroups /\ w[0] = <<>>
      BY <1>7, <1>8 DEF IsPlacedRun, IsPlaceRun
    <3>3. G = <<>> /\ B = <<>>
      BY <1>9, <2>1, <3>2 DEF AllGroups, NoGroups
    <3>4. FlattenSeq(<<>>) = <<>>
      <4>1. Len(<<>>) = 0
        OBVIOUS
      <4>q. QED BY Zenon, <4>1 DEF FlattenSeq
    <3>5. Heads = {}
      <4>1. DOMAIN G = {}
        BY <3>3
      <4>q. QED BY Zenon, <4>1
    <3>6. Begun = {}
      BY <3>1
    <3>q. QED BY <3>1, <3>3, <3>4, <3>5, <3>6
  <2>2. CASE n # 0
    <3>1. n \in Nat \ {0} /\ n \in 1 .. n /\ n \in 1 .. Len(O)
      BY <1>4, <1>5, <2>2
    <3>2. PICK s : s = v[n]
      OBVIOUS
    <3>3. s \in Groupings /\ Reached(s, O, n)
      BY <1>6, <1>7, <3>1, <3>2, AllReached
    <3>4. PICK e : Cuts(e, G, O, n) /\ Starts(e, Len(G)) = {i \in 1 .. n : Pauses(O, i)}
      BY <1>9, <3>2, <3>3 DEF Reached
    <3>5. G \in Seq(Seq(Tournaments))
      <4>1. s.groups \in Seq(Seq(Tournaments)) /\ s.current \in Seq(Tournaments)
        BY <3>3 DEF Groupings
      <4>q. QED BY <1>9, <3>2, <4>1 DEF AllGroups
    <3>6. Cuts(e, G, O, Len(O))
      BY <1>5, <3>4
    <3>7. FlattenSeq(G) = O
      BY <1>5, <3>5, <3>6, Flattened
    <3>8. PICK d : Cuts(d, B, O, n) /\ AtPauses(d, B, O, n)
      BY <1>5, <1>8, <1>9, <3>1, AllPlaced
    <3>9. B \in Seq(Seq(Tournaments))
      BY <1>5, <1>8, <1>9, <3>1, AllPlaced
    <3>10. FlattenSeq(B) = O
      <4>1. Cuts(d, B, O, Len(O))
        BY <1>5, <3>8
      <4>q. QED BY <1>5, <3>9, <4>1, Flattened
    <3>11. Heads = {O[j] : j \in Starts(e, Len(G))}
      <4>1. DOMAIN G = 1 .. Len(G)
        BY <3>5
      <4>2. Cuts(e, G, O, n)
        BY <3>4
      <4>q. QED BY <1>5, <3>1, <4>1, <4>2, HeadsAre
    <3>12. Begun = {O[j] : j \in Starts(e, Len(G))}
      BY <1>5, <3>4
    <3>13. Built = {O[j] : j \in Starts(d, Len(B))}
      <4>1. DOMAIN B = 1 .. Len(B)
        BY <3>9
      <4>2. Cuts(d, B, O, n)
        BY <3>8
      <4>q. QED BY <1>5, <3>1, <4>1, <4>2, HeadsAre
    <3>14. Starts(e, Len(G)) \subseteq Starts(d, Len(B))
      BY <3>4, <3>8 DEF AtPauses
    <3>15. Heads \subseteq Built
      BY <3>11, <3>13, <3>14
    <3>q. QED BY <3>7, <3>10, <3>11, <3>12, <3>15
  <2>q. QED BY <2>1, <2>2
<1>12. ASSUME ~Overlap(ts) PROVE B = G /\ \A i \in DOMAIN G : LinesAgree(G[i])
  <2>1. NoneOutlasts(O, n)
    <3>1. ASSUME NEW i \in 1 .. n, NEW j \in 1 .. n, i < j PROVE EndOf(O[i]) =< EndOf(O[j])
      <4>1. Precedes(O[i], O[j]) /\ O[i] \in ts /\ O[j] \in ts /\ EndOf(O[i]) \in Int /\ EndOf(O[j]) \in Int
        BY <1>4, <3>1, EndTyped
      <4>q. QED BY <1>12, <4>1 DEF Overlap
    <3>q. QED BY <3>1 DEF NoneOutlasts
  <2>2. CASE n = 0
    <3>1. v[0] = NoGroups /\ w[0] = <<>>
      BY <1>7, <1>8 DEF IsPlacedRun, IsPlaceRun
    <3>2. G = <<>> /\ B = <<>>
      BY <1>9, <2>2, <3>1 DEF AllGroups, NoGroups
    <3>q. QED BY <3>2
  <2>3. CASE n # 0
    <3>1. n \in Nat \ {0} /\ n \in 1 .. n /\ n \in 1 .. Len(O)
      BY <1>4, <1>5, <2>3
    <3>2. B = G
      BY <1>6, <1>7, <1>8, <1>9, <2>1, <3>1, SameGroups
    <3>3. PICK e : Cuts(e, B, O, n)
      BY <1>5, <1>8, <1>9, <3>1, AllPlaced
    <3>4. B \in Seq(Seq(Tournaments))
      BY <1>5, <1>8, <1>9, <3>1, AllPlaced
    <3>5. \A i \in DOMAIN B : LinesAgree(B[i])
      <4>1. O \in Seq(Tournaments) /\ n = Len(O)
        BY <1>5
      <4>q. QED BY <1>4, <2>1, <3>1, <3>3, <3>4, <4>1, LinesOfGroups
    <3>q. QED BY <3>2, <3>5
  <2>q. QED BY <2>2, <2>3
<1>13. GroupSessions(Shown) = G /\ BuildSessions(Shown) = B /\ Ordered(Shown) = O
  BY <1>1, <1>2, <1>10
<1>14. SessionsRight(G, B, O, ts)
  BY Zenon, <1>11, <1>12 DEF SessionsRight
<1> HIDE DEF Begun, Heads, Built
<1>q. QED BY Zenon, <1>1, <1>13, <1>14, SessionsRightIs

-----------------------------------------------------------------------------
(* Of the whole specification                                              *)

LEMMA KeepsGames == Spec => []Kept(games)
<1>1. Init => Kept(games)
  BY FS_EmptySet DEF Init, Kept
<1>2. ASSUME Kept(games), [Next]_vars PROVE Kept(games')
  <2>1. CASE \E s \in Setups : Deal(s)
    BY <1>2, <2>1 DEF Deal
  <2>2. CASE Play
    BY <1>2, <2>2 DEF Play
  <2>3. CASE \E r \in 1 .. 3 : ImportHand(r)
    BY <1>2, <2>3 DEF ImportHand
  <2>4. CASE \E t \in Tournaments \ games : ImportTournament(t)
    <3>1. PICK t \in Tournaments : games' = games \cup {t}
      BY <2>4 DEF ImportTournament
    <3>2. IsFiniteSet(games \cup {t})
      BY <1>2, FS_AddElement DEF Kept
    <3>q. QED BY <1>2, <3>1, <3>2 DEF Kept
  <2>5. CASE DeleteAll
    BY <2>5, FS_EmptySet DEF DeleteAll, Kept
  <2>6. CASE UNCHANGED vars
    BY <1>2, <2>6 DEF vars
  <2>q. QED BY <1>2, <2>1, <2>2, <2>3, <2>4, <2>5, <2>6 DEF Next
<1>3. Kept(games)' <=> Kept(games')
  BY DEF Kept
<1>q. QED BY <1>1, <1>2, <1>3, PTL DEF Spec

\* Whatever tournaments the files report, and in whatever order they are imported: the two
\* dashboards of the application, every breakdown and the hub's views show the same games and
\* are right about them (ReportsAgree).
THEOREM ReportsAlwaysAgree == Spec => []ReportsAgree
<1>1. Kept(games) => ReportsAgree
  BY DashboardsAgree, FiltersSelectTheSame, HubShowsTheSame DEF ReportsAgree
<1>q. QED BY <1>1, KeepsGames, PTL

\* A session of the analytics package starts exactly after a pause (group_sessions of
\* analytics/sessions.py), the application starts one there too, and its sessions are these
\* as long as no tournament outlasts a later one (build_sessions of services/queries.py),
\* whatever is imported and deleted.
THEOREM SessionsAlwaysEndWithAPause == Spec => []SessionsEndWithAPause
<1>1. Kept(games) => SessionsEndWithAPause
  BY SessionsAre
<1>q. QED BY <1>1, KeepsGames, PTL

=============================================================================
