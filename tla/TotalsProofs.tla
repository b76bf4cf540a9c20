---------------------------- MODULE TotalsProofs ----------------------------
(***************************************************************************)
(* What the proofs about balances need to know of sums: they are natural   *)
(* numbers, add up over disjoint sets of rows, and compare row by row.     *)
(***************************************************************************)
EXTENDS Totals, FiniteSetTheorems, FunctionTheorems, TLAPS

(* A balance is a natural number of nano-dollars, and the money of         *)
(* finitely many rows is finite.                                           *)
LEMMA UnitsFinite ==
  ASSUME NEW S, NEW amount, IsFiniteSet(S), \A x \in S : amount[x] \in Nat
  PROVE  /\ IsFiniteSet(Units(S, amount))
         /\ Total(S, amount) \in Nat
<1> DEFINE T == {{x} \X (1 .. amount[x]) : x \in S}
           f == [x \in S |-> {x} \X (1 .. amount[x])]
<1>1. f \in Surjection(S, T)
  BY Fun_IsSurj
<1>2. IsFiniteSet(T)
  BY <1>1, FS_Surjection
<1>3. ASSUME NEW U \in T PROVE IsFiniteSet(U)
  <2>1. PICK x \in S : U = {x} \X (1 .. amount[x])
    OBVIOUS
  <2>2. IsFiniteSet({x})
    BY FS_Singleton
  <2>3. 1 \in Int /\ amount[x] \in Int
    OBVIOUS
  <2>4. IsFiniteSet(1 .. amount[x])
    BY <2>3, FS_Interval
  <2> QED
    BY <2>1, <2>2, <2>4, FS_Product
<1>4. IsFiniteSet(Units(S, amount))
  BY <1>2, <1>3, FS_UNION DEF Units
<1> QED
  BY <1>4, FS_CardinalityType DEF Total

(* A query that selects no row sums to zero (COALESCE(SUM(...), 0)).       *)
LEMMA TotalEmpty ==
  ASSUME NEW amount PROVE Total({}, amount) = 0
<1>1. Units({}, amount) = {}
  BY DEF Units
<1> QED
  BY <1>1, FS_EmptySet DEF Total

(* The sum over one row is its amount.                                     *)
LEMMA TotalSingleton ==
  ASSUME NEW x, NEW amount, amount[x] \in Nat
  PROVE  Total({x}, amount) = amount[x]
<1>1. Units({x}, amount) = {x} \X (1 .. amount[x])
  BY DEF Units
<1>2. IsFiniteSet({x}) /\ Cardinality({x}) = 1
  BY FS_Singleton
<1>3. IsFiniteSet(1 .. amount[x]) /\ Cardinality(1 .. amount[x]) = amount[x]
  BY FS_Interval
<1>4. Cardinality({x} \X (1 .. amount[x])) = 1 * amount[x]
  BY <1>2, <1>3, FS_Product
<1>5. 1 * amount[x] = amount[x]
  OBVIOUS
<1> QED
  BY <1>1, <1>4, <1>5, Zenon DEF Total

(* Rows that can be matched one to one with rows of at least their amount  *)
(* sum to no more than those.                                              *)
LEMMA TotalMatched ==
  ASSUME NEW S, NEW T, NEW a, NEW b, IsFiniteSet(T),
         \A y \in T : b[y] \in Nat,
         NEW f \in [S -> T],
         \A x, y \in S : f[x] = f[y] => x = y,
         \A x \in S : a[x] \in Nat /\ a[x] <= b[f[x]]
  PROVE  Total(S, a) <= Total(T, b)
<1> DEFINE g == [u \in Units(S, a) |-> <<f[u[1]], u[2]>>]
<1>1. ASSUME NEW u \in Units(S, a)
      PROVE  u[1] \in S /\ u[2] \in 1 .. a[u[1]] /\ u = <<u[1], u[2]>>
  BY DEF Units
<1>2. ASSUME NEW u \in Units(S, a)
      PROVE  <<f[u[1]], u[2]>> \in Units(T, b)
  <2>1. f[u[1]] \in T /\ u[2] \in 1 .. b[f[u[1]]]
    BY <1>1
  <2>2. <<f[u[1]], u[2]>> \in {f[u[1]]} \X (1 .. b[f[u[1]]])
    BY <2>1
  <2> QED
    BY <2>1, <2>2 DEF Units
<1>3. g \in [Units(S, a) -> Units(T, b)]
  BY <1>2
<1>4. ASSUME NEW u \in Units(S, a), NEW v \in Units(S, a), g[u] = g[v]
      PROVE  u = v
  <2>1. <<f[u[1]], u[2]>> = <<f[v[1]], v[2]>>
    BY <1>4
  <2>2. f[u[1]] = f[v[1]] /\ u[2] = v[2]
    BY <2>1
  <2> QED
    BY <1>1, <2>2
<1>5. g \in Injection(Units(S, a), Units(T, b))
  BY <1>3, <1>4, Fun_IsInj
<1>6. IsFiniteSet(Units(T, b))
  BY UnitsFinite
<1> QED
  BY <1>5, <1>6, FS_Injection DEF Total

(* Fewer rows with no larger amounts sum to no more.                       *)
LEMMA TotalMonotone ==
  ASSUME NEW T, NEW S \in SUBSET T, NEW a, NEW b, IsFiniteSet(T),
         \A y \in T : b[y] \in Nat,
         \A x \in S : a[x] \in Nat /\ a[x] <= b[x]
  PROVE  Total(S, a) <= Total(T, b)
<1> DEFINE f == [x \in S |-> x]
<1>1. f \in [S -> T]
  OBVIOUS
<1>2. \A x, y \in S : f[x] = f[y] => x = y
  OBVIOUS
<1>3. \A x \in S : a[x] \in Nat /\ a[x] <= b[f[x]]
  OBVIOUS
<1> HIDE DEF f
<1> QED
  BY <1>1, <1>2, <1>3, TotalMatched

(* Rows with the same amounts have the same sum.                           *)
LEMMA TotalSame ==
  ASSUME NEW S, NEW a, NEW b, \A x \in S : a[x] = b[x]
  PROVE  Total(S, a) = Total(S, b)
BY DEF Total, Units

(* The sum over two disjoint sets of rows is the sum of their sums.        *)
LEMMA TotalDisjoint ==
  ASSUME NEW S, NEW T, NEW a, IsFiniteSet(S), IsFiniteSet(T),
         S \cap T = {}, \A x \in S \cup T : a[x] \in Nat
  PROVE  Total(S \cup T, a) = Total(S, a) + Total(T, a)
<1>1. Units(S \cup T, a) = Units(S, a) \cup Units(T, a)
  BY DEF Units
<1>2. Units(S, a) \cap Units(T, a) = {}
  <2>1. \A R : \A u \in Units(R, a) : u[1] \in R
    BY DEF Units
  <2> QED
    BY <2>1
<1>3. IsFiniteSet(Units(S, a)) /\ IsFiniteSet(Units(T, a))
  BY UnitsFinite
<1>4. Total(S, a) \in Nat /\ Total(T, a) \in Nat
  BY UnitsFinite
<1>5. Cardinality(Units(S, a) \cup Units(T, a))
        = Cardinality(Units(S, a)) + Cardinality(Units(T, a)) - Cardinality({})
  BY <1>2, <1>3, FS_Union
<1>6. Total(S \cup T, a) = Total(S, a) + Total(T, a) - 0
  BY <1>1, <1>5, FS_EmptySet, Zenon DEF Total
<1> QED
  BY <1>4, <1>6

(* Adding a row adds its amount.                                           *)
LEMMA TotalAdd ==
  ASSUME NEW S, NEW x, NEW a, IsFiniteSet(S), x \notin S,
         \A y \in S \cup {x} : a[y] \in Nat
  PROVE  Total(S \cup {x}, a) = Total(S, a) + a[x]
<1>1. IsFiniteSet({x})
  BY FS_Singleton
<1>2. S \cap {x} = {} /\ a[x] \in Nat
  OBVIOUS
<1>3. Total(S \cup {x}, a) = Total(S, a) + Total({x}, a)
  BY <1>1, <1>2, TotalDisjoint
<1> QED
  BY <1>2, <1>3, TotalSingleton
=============================================================================
