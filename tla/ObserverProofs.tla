--------------------------- MODULE ObserverProofs ---------------------------
(***************************************************************************)
(* What observingReader makes of a response, however reads cut it: proved  *)
(* for every response, every size of a read and every cap. The folds of    *)
(* the library (FoldLeft, FlattenSeq) choose a function on the sets of     *)
(* places of a sequence; the first section shows that they fold it from    *)
(* left to right, so that reading a symbol more is one step more.          *)
(***************************************************************************)
EXTENDS Observer, FiniteSetTheorems, NaturalsInduction, SequenceTheorems, TLAPS

-----------------------------------------------------------------------------
(***************************************************************************)
(* Folds of sequences.                                                     *)
(***************************************************************************)

(* A set of naturals that is not empty has a least element.                *)
LEMMA LeastElement ==
  ASSUME NEW S \in SUBSET Nat, S # {}
  PROVE  \E x \in S : \A y \in S : x <= y
<1>1. PICK x \in S : \A y \in S : ~(<<y, x>> \in OpToRel(<, Nat))
  BY NatLessThanWellFounded, WFMin
<1>2. \A y \in S : ~(y < x)
  BY <1>1 DEF OpToRel
<1> QED
  BY <1>2

(* Induction on the naturals, over a set of them.                          *)
LEMMA FromZero ==
  ASSUME NEW P \in SUBSET Nat, 0 \in P, \A n \in P : n + 1 \in P
  PROVE  P = Nat
<1> DEFINE S == Nat \ P
<1> SUFFICES ASSUME S # {}
             PROVE  FALSE
  OBVIOUS
<1>1. PICK x \in S : \A y \in S : x <= y
  <2> HIDE DEF S
  <2>1. S \in SUBSET Nat
    BY DEF S
  <2> QED
    BY <2>1, LeastElement
<1>2. x # 0 /\ x - 1 \in Nat
  OBVIOUS
<1>3. x - 1 \in P
  BY <1>1, <1>2
<1> QED
  BY <1>1, <1>2, <1>3

(* G is applied n times.                                                   *)
Iterates(h, b, G, n) == h[0] = b /\ \A k \in 1 .. n : h[k] = G[k][h[k - 1]]

(* Applying the functions of G one after another has a result.             *)
LEMMA IteratesSome ==
  ASSUME NEW X, NEW b \in X, NEW G \in [Nat -> [X -> X]], NEW n \in Nat
  PROVE  \E h \in [0 .. n -> X] : Iterates(h, b, G, n)
<1> DEFINE P == {m \in Nat : \E h \in [0 .. m -> X] : Iterates(h, b, G, m)}
<1>1. 0 \in P
  <2>1. [k \in 0 .. 0 |-> b] \in [0 .. 0 -> X] /\ Iterates([k \in 0 .. 0 |-> b], b, G, 0)
    BY DEF Iterates
  <2> QED
    BY <2>1
<1>2. \A m \in P : m + 1 \in P
  <2> TAKE m \in P
  <2>1. PICK h \in [0 .. m -> X] : Iterates(h, b, G, m)
    OBVIOUS
  <2> DEFINE g == [k \in 0 .. m + 1 |-> IF k <= m THEN h[k] ELSE G[k][h[m]]]
  <2>2. g \in [0 .. m + 1 -> X]
    OBVIOUS
  <2>3. Iterates(g, b, G, m + 1)
    <3>1. g[0] = b
      BY <2>1 DEF Iterates
    <3>2. \A k \in 1 .. m + 1 : g[k] = G[k][g[k - 1]]
      BY <2>1 DEF Iterates
    <3> HIDE DEF g
    <3> QED
      BY <3>1, <3>2 DEF Iterates
  <2> QED
    BY <2>2, <2>3
<1>3. P = Nat
  <2> HIDE DEF P
  <2>1. P \in SUBSET Nat
    BY DEF P
  <2> QED
    BY <1>1, <1>2, <2>1, FromZero, Zenon
<1> QED
  BY <1>3

(* Max is the last of some places.                                         *)
LEMMA MaxIsGreatest ==
  ASSUME NEW n \in Nat, NEW T \in SUBSET (1 .. n), T # {}
  PROVE  Max(T) \in T /\ \A y \in T : y <= Max(T)
<1> DEFINE S == {n - t : t \in T}
<1>1. S \in SUBSET Nat /\ S # {}
  <2>1. \A t \in T : n - t \in Nat
    OBVIOUS
  <2> QED
    BY <2>1
<1>2. PICK x \in S : \A y \in S : x <= y
  <2> HIDE DEF S
  <2> QED
    BY <1>1, LeastElement
<1>3. \A t \in T : n - x >= t
  BY <1>2
<1>4. n - x \in T
  BY <1>2
<1>5. \E t \in T : \A y \in T : t >= y
  BY <1>3, <1>4
<1> QED
  BY <1>5 DEF Max

(* What FoldLeft makes of the operator that G is: a function of sets of    *)
(* places, the last of which is applied last.                              *)
FoldsUp(f, b, G, n) ==
  f = [T \in SUBSET (1 .. n) |-> IF T = {} THEN b ELSE G[Max(T)][f[T \ {Max(T)}]]]

(* There is a function on the sets of places that folds as FoldLeft does;  *)
(* it is what the steps that apply G to every set leave behind.            *)
LEMMA FoldsUpSome ==
  ASSUME NEW X, NEW b \in X, NEW G \in [Nat -> [X -> X]], NEW n \in Nat
  PROVE  \E f \in [SUBSET (1 .. n) -> X] : FoldsUp(f, b, G, n)
<1> DEFINE D == SUBSET (1 .. n)
           Y == [D -> X]
           c == [T \in D |-> b]
           H == [k \in Nat |-> [u \in Y |-> [T \in D |-> IF k \in T THEN G[k][u[T]] ELSE u[T]]]]
<1>1. c \in Y /\ H \in [Nat -> [Y -> Y]]
  <2>1. \A k \in Nat, u \in Y, T \in D : (IF k \in T THEN G[k][u[T]] ELSE u[T]) \in X
    OBVIOUS
  <2> QED
    BY <2>1
<1>2. PICK h \in [0 .. n -> Y] : Iterates(h, c, H, n)
  <2> HIDE DEF Y, c, H
  <2> QED
    BY <1>1, IteratesSome
<1>3. \A T \in D : h[0][T] = b
  BY <1>2 DEF Iterates
<1>4. \A k \in 1 .. n, T \in D : h[k][T] = IF k \in T THEN G[k][h[k - 1][T]] ELSE h[k - 1][T]
  <2> SUFFICES ASSUME NEW k \in 1 .. n, NEW T \in D
               PROVE  h[k][T] = IF k \in T THEN G[k][h[k - 1][T]] ELSE h[k - 1][T]
    OBVIOUS
  <2>1. h[k] = H[k][h[k - 1]] /\ h[k - 1] \in Y /\ k \in Nat
    <3> HIDE DEF Y, H
    <3>1. k - 1 \in 0 .. n
      OBVIOUS
    <3> QED
      BY <1>2, <3>1 DEF Iterates
  <2>2. H[k][h[k - 1]] = [S \in D |-> IF k \in S THEN G[k][h[k - 1][S]] ELSE h[k - 1][S]]
    BY <2>1
  <2> QED
    BY <2>1, <2>2
<1>5. \A k \in 0 .. n, T \in D : h[k][T] \in X
  BY <1>2
<1> HIDE DEF c, H
(* From where T has no more elements on, nothing changes.                  *)
<1>6. ASSUME NEW T \in D, NEW m \in 0 .. n, \A y \in T : y <= m
      PROVE  h[n][T] = h[m][T]
  <2> DEFINE P == {k \in Nat : m <= k /\ k <= n => h[k][T] = h[m][T]}
  <2>1. 0 \in P
    OBVIOUS
  <2>2. \A k \in P : k + 1 \in P
    <3> SUFFICES ASSUME NEW k \in P, m <= k + 1, k + 1 <= n
                 PROVE  h[k + 1][T] = h[m][T]
      OBVIOUS
    <3>1. CASE m = k + 1
      BY <3>1
    <3>2. CASE m <= k
      <4>1. h[k][T] = h[m][T] /\ k + 1 \notin T /\ k + 1 \in 1 .. n
        BY <3>2, <1>6
      <4> QED
        BY <4>1, <1>4
    <3> QED
      BY <3>1, <3>2
  <2>3. P = Nat
    <3> HIDE DEF P
    <3>1. P \in SUBSET Nat
      BY DEF P
    <3> QED
      BY <2>1, <2>2, <3>1, FromZero, Zenon
  <2> QED
    BY <2>3
(* Up to m, T and T without m are treated alike.                           *)
<1>7. ASSUME NEW T \in D, NEW m \in 1 .. n, NEW U, U = T \ {m}
      PROVE  h[m - 1][T] = h[m - 1][U]
  <2>0. m - 1 \in Nat /\ U \in D
    BY <1>7
  <2> DEFINE P == {k \in Nat : k <= m - 1 => h[k][T] = h[k][U]}
  <2>1. 0 \in P
    BY <2>0, <1>3
  <2>2. \A k \in P : k + 1 \in P
    <3> SUFFICES ASSUME NEW k \in P, k + 1 <= m - 1
                 PROVE  h[k + 1][T] = h[k + 1][U]
      OBVIOUS
    <3>1. h[k][T] = h[k][U] /\ k + 1 \in 1 .. n /\ (k + 1) - 1 = k
      BY <2>0
    <3>2. k + 1 \in T <=> k + 1 \in U
      BY <1>7
    <3>3. k \in Nat /\ T \in D /\ U \in D
      BY <2>0
    <3> HIDE DEF P, D, Y
    <3>4. PICK j : j = k + 1
      OBVIOUS
    <3>5. /\ h[j][T] = IF j \in T THEN G[j][h[j - 1][T]] ELSE h[j - 1][T]
          /\ h[j][U] = IF j \in U THEN G[j][h[j - 1][U]] ELSE h[j - 1][U]
      BY <1>4, <3>1, <3>3, <3>4, Zenon
    <3> QED
      BY <3>1, <3>2, <3>4, <3>5, Zenon
  <2>3. P = Nat
    <3> HIDE DEF P
    <3>1. P \in SUBSET Nat
      BY DEF P
    <3> QED
      BY <2>1, <2>2, <3>1, FromZero, Zenon
  <2>4. m - 1 \in P
    BY <2>0, <2>3
  <2> QED
    BY <2>4
<1> DEFINE f == [T \in D |-> h[n][T]]
<1>8. f \in [D -> X]
  BY <1>5
<1>9. \A T \in D : f[T] = IF T = {} THEN b ELSE G[Max(T)][f[T \ {Max(T)}]]
  <2> SUFFICES ASSUME NEW T \in D
               PROVE  h[n][T] = IF T = {} THEN b ELSE G[Max(T)][h[n][T \ {Max(T)}]]
    OBVIOUS
  <2>1. CASE T = {}
    <3>1. h[n][T] = h[0][T]
      BY <2>1, <1>6
    <3> QED
      BY <2>1, <3>1, <1>3
  <2>2. CASE T # {}
    <3>1. PICK m \in 1 .. n : m = Max(T) /\ m \in T /\ \A y \in T : y <= m
      BY <2>2, MaxIsGreatest
    <3>2. h[n][T] = h[m][T]
      BY <3>1, <1>6
    <3>3. h[m][T] = G[m][h[m - 1][T \ {m}]]
      <4>1. h[m][T] = G[m][h[m - 1][T]]
        BY <3>1, <1>4
      <4>2. h[m - 1][T] = h[m - 1][T \ {m}]
        BY <1>7
      <4> QED
        BY <4>1, <4>2
    <3>4. T \ {m} \in D /\ m - 1 \in 0 .. n /\ \A y \in T \ {m} : y <= m - 1
      <4>1. \A y \in T \ {m} : y \in 1 .. n /\ y <= m /\ y # m
        BY <3>1
      <4> QED
        BY <4>1
    <3>5. h[n][T \ {m}] = h[m - 1][T \ {m}]
      BY <3>4, <1>6
    <3> QED
      BY <2>2, <3>1, <3>2, <3>3, <3>5
  <2> QED
    BY <2>1, <2>2
<1> HIDE DEF f
<1>10. f = [T \in D |-> IF T = {} THEN b ELSE G[Max(T)][f[T \ {Max(T)}]]]
  BY <1>8, <1>9
<1> QED
  BY <1>8, <1>10 DEF FoldsUp

(* Induction on sequences, over a set of them.                             *)
LEMMA FromEmpty ==
  ASSUME NEW S, NEW P \in SUBSET Seq(S), << >> \in P,
         \A s \in P, x \in S : Append(s, x) \in P
  PROVE  P = Seq(S)
<1> DEFINE N == {n \in Nat : \A s \in Seq(S) : Len(s) = n => s \in P}
<1>1. 0 \in N
  BY EmptySeq
<1>2. \A n \in N : n + 1 \in N
  <2> TAKE n \in N
  <2>0. n + 1 \in Nat
    OBVIOUS
  <2> SUFFICES ASSUME NEW s \in Seq(S), Len(s) = n + 1
               PROVE  s \in P
    BY <2>0, Zenon
  <2>1. s # << >>
    BY EmptySeq
  <2>2. PICK t \in Seq(S), x \in S : s = Append(t, x)
    BY <2>1, SequenceEmptyOrAppend
  <2>3. Len(t) = n /\ Len(t) \in Nat
    BY <2>2, AppendProperties, LenProperties
  <2>4. t \in P
    BY <2>3
  <2> QED
    BY <2>2, <2>4
<1>3. N = Nat
  <2> HIDE DEF N
  <2>1. N \in SUBSET Nat
    BY DEF N
  <2> QED
    BY <1>1, <1>2, <2>1, FromZero, Zenon
<1> QED
  BY <1>3, LenProperties

(* Fold s: op is a function, r what it makes of b and the elements.        *)
Folding(h, op, b, s) == h[0] = b /\ \A k \in 1 .. Len(s) : h[k] = op[h[k - 1]][s[k]]

(* A sequence can be folded by a function.                                 *)
LEMMA FoldingSome ==
  ASSUME NEW S, NEW X, NEW op \in [X -> [S -> X]], NEW b \in X, NEW s \in Seq(S)
  PROVE  \E h \in [0 .. Len(s) -> X] : Folding(h, op, b, s)
<1> DEFINE G == [k \in Nat |-> [u \in X |-> IF k \in 1 .. Len(s) THEN op[u][s[k]] ELSE u]]
<1>0. PICK n \in Nat : n = Len(s)
  BY LenProperties
<1>1. G \in [Nat -> [X -> X]]
  <2>1. \A k \in 1 .. Len(s) : s[k] \in S
    BY ElementOfSeq
  <2>2. \A k \in Nat, u \in X : (IF k \in 1 .. Len(s) THEN op[u][s[k]] ELSE u) \in X
    BY <2>1, Zenon
  <2> QED
    BY <2>2, Zenon
<1>2. PICK h \in [0 .. Len(s) -> X] : Iterates(h, b, G, Len(s))
  <2> HIDE DEF G
  <2> QED
    BY <1>0, <1>1, IteratesSome
<1>3. \A k \in 1 .. Len(s) : h[k] = op[h[k - 1]][s[k]]
  <2> TAKE k \in 1 .. Len(s)
  <2>1. k \in 1 .. n /\ k \in Nat /\ k - 1 \in 0 .. n
    BY <1>0
  <2>2. h[k] = G[k][h[k - 1]] /\ h[k - 1] \in X
    BY <1>0, <1>2, <2>1, Zenon DEF Iterates
  <2> QED
    BY <2>1, <2>2, Zenon
<1> QED
  BY <1>2, <1>3 DEF Folding, Iterates

(* What a sequence folds to depends on its elements alone.                 *)
LEMMA FoldingOnce ==
  ASSUME NEW op, NEW b, NEW S, NEW s \in Seq(S), NEW t \in Seq(S), NEW g, NEW h,
         Len(s) <= Len(t), \A k \in 1 .. Len(s) : s[k] = t[k],
         Folding(g, op, b, s), Folding(h, op, b, t)
  PROVE  g[Len(s)] = h[Len(s)]
<1> DEFINE P == {k \in Nat : k <= Len(s) => g[k] = h[k]}
<1>1. 0 \in P
  BY DEF Folding
<1>2. \A k \in P : k + 1 \in P
  BY DEF Folding
<1>3. P = Nat
  <2> HIDE DEF P
  <2>1. P \in SUBSET Nat
    BY DEF P
  <2> QED
    BY <1>1, <1>2, <2>1, FromZero, Zenon
<1> QED
  BY <1>3

(* What is to be known of an operator on sequences that folds.             *)
Folds(v, op, b, s) == \E h : Folding(h, op, b, s) /\ v = h[Len(s)]

(* One element more is one step more.                                      *)
LEMMA FoldsAppend ==
  ASSUME NEW op, NEW b, NEW S, NEW s \in Seq(S), NEW x \in S, NEW v, NEW w,
         Folds(v, op, b, s), Folds(w, op, b, Append(s, x))
  PROVE  w = op[v][x]
<1>1. PICK g : Folding(g, op, b, s) /\ v = g[Len(s)]
  BY DEF Folds
<1>2. PICK h : Folding(h, op, b, Append(s, x)) /\ w = h[Len(Append(s, x))]
  BY DEF Folds
<1> DEFINE t == Append(s, x)
<1>3. t \in Seq(S) /\ Len(t) = Len(s) + 1 /\ t[Len(s) + 1] = x /\ \A k \in 1 .. Len(s) : s[k] = t[k]
  OBVIOUS
<1>4. g[Len(s)] = h[Len(s)]
  <2>1. Len(s) <= Len(t) /\ Folding(h, op, b, t) /\ t \in Seq(S)
    BY <1>2, <1>3, LenProperties
  <2> HIDE DEF t
  <2> QED
    BY <1>1, <1>3, <2>1, FoldingOnce
<1> HIDE DEF t
<1>5. h[Len(s) + 1] = op[h[Len(s)]][t[Len(s) + 1]]
  BY <1>2, <1>3 DEF t, Folding
<1> QED
  BY <1>1, <1>2, <1>3, <1>4, <1>5 DEF t

(* Nothing folds to what the fold begins with.                             *)
LEMMA FoldsEmpty ==
  ASSUME NEW op, NEW b, NEW v, Folds(v, op, b, << >>)
  PROVE  v = b
BY DEF Folds, Folding

(* FlattenSeq: the pieces one after another.                               *)
Flattens(g, ss) == g = [i \in 1 .. Len(ss) |-> IF i = 1 THEN ss[i] ELSE g[i - 1] \o ss[i]]

(* FlattenSeq by the function its definition chooses.                      *)
LEMMA FlattenDef ==
  ASSUME NEW ss, Len(ss) # 0
  PROVE  FlattenSeq(ss) = (CHOOSE g : Flattens(g, ss))[Len(ss)]
BY Zenon DEF FlattenSeq, Flattens

Chain(h, ss, n) == h[1] = ss[1] /\ \A k \in 1 .. n : h[k] = h[k - 1] \o ss[k]

(* Any chain of concatenations is what FlattenSeq chooses.                 *)
LEMMA FlattenIs ==
  ASSUME NEW ss, NEW n \in Nat \ {0}, n = Len(ss), NEW h, Chain(h, ss, n)
  PROVE  FlattenSeq(ss) = h[n]
<1>0. h[1] = ss[1] /\ \A k \in 1 .. n : h[k] = h[k - 1] \o ss[k]
  BY DEF Chain
<1> DEFINE f == [i \in 1 .. n |-> h[i]]
<1>1. f = [i \in 1 .. n |-> IF i = 1 THEN ss[i] ELSE f[i - 1] \o ss[i]]
  <2>1. \A i \in 1 .. n : f[i] = IF i = 1 THEN ss[i] ELSE f[i - 1] \o ss[i]
    <3> TAKE i \in 1 .. n
    <3>1. f[i] = h[i]
      OBVIOUS
    <3>2. i # 1 => i - 1 \in 1 .. n
      OBVIOUS
    <3>3. i # 1 => f[i - 1] = h[i - 1]
      BY <3>2, Zenon
    <3>4. h[i] = h[i - 1] \o ss[i]
      BY <1>0, Zenon
    <3> HIDE DEF f
    <3> QED
      BY <1>0, <3>1, <3>3, <3>4, Zenon
  <2> QED
    BY <2>1, Zenon
<1> HIDE DEF f
<1>2. Flattens(f, ss)
  BY <1>1 DEF Flattens
<1>3. PICK g : g = (CHOOSE x : Flattens(x, ss)) /\ Flattens(g, ss)
  BY <1>2, Zenon
<1>4. \A i \in 1 .. n : g[i] = IF i = 1 THEN ss[i] ELSE g[i - 1] \o ss[i]
  BY <1>3, Zenon DEF Flattens
<1>5. FlattenSeq(ss) = g[n]
  <2>1. Len(ss) # 0
    OBVIOUS
  <2> QED
    BY <1>3, <2>1, FlattenDef, Zenon
<1> DEFINE P == {k \in Nat : k + 1 <= n => g[k + 1] = h[k + 1]}
<1>6. 0 \in P
  <2>1. g[1] = h[1]
    <3>1. 1 \in 1 .. n
      OBVIOUS
    <3> QED
      BY <1>0, <1>4, <3>1, Zenon
  <2>2. 0 + 1 = 1
    OBVIOUS
  <2> QED
    BY <2>1, <2>2, Zenon
<1>7. \A k \in P : k + 1 \in P
  <2> SUFFICES ASSUME NEW k \in P, (k + 1) + 1 <= n
               PROVE  g[(k + 1) + 1] = h[(k + 1) + 1]
    OBVIOUS
  <2> DEFINE m == (k + 1) + 1
  <2>1. k \in Nat /\ k + 1 <= n
    OBVIOUS
  <2>2. g[k + 1] = h[k + 1]
    BY <2>1, Zenon
  <2>3. m \in 1 .. n /\ m # 1 /\ m - 1 = k + 1
    BY <2>1
  <2> HIDE DEF m
  <2>4. g[m] = g[m - 1] \o ss[m] /\ h[m] = h[m - 1] \o ss[m]
    BY <1>0, <1>4, <2>3, Zenon
  <2>5. g[m] = h[m]
    BY <2>2, <2>3, <2>4, Zenon
  <2> QED
    BY <2>5 DEF m
<1>8. P = Nat
  <2> HIDE DEF P
  <2>1. P \in SUBSET Nat
    BY DEF P
  <2> QED
    BY <1>6, <1>7, <2>1, FromZero, Zenon
<1>9. n - 1 \in P /\ (n - 1) + 1 = n /\ n <= n
  <2> HIDE DEF P
  <2> QED
    BY <1>8
<1> QED
  BY <1>5, <1>9, Zenon

(* FlattenSeq is a fold by concatenation.                                  *)
LEMMA FlattenFolds ==
  ASSUME NEW S, NEW ss \in Seq(Seq(S))
  PROVE  /\ FlattenSeq(ss) \in Seq(S)
         /\ Folds(FlattenSeq(ss), [u \in Seq(S) |-> [v \in Seq(S) |-> u \o v]], << >>, ss)
<1> DEFINE op == [u \in Seq(S) |-> [v \in Seq(S) |-> u \o v]]
<1>1. op \in [Seq(S) -> [Seq(S) -> Seq(S)]]
  BY ConcatProperties
<1>2. \A u, v \in Seq(S) : op[u][v] = u \o v
  OBVIOUS
<1> HIDE DEF op
<1>3. PICK n \in Nat : n = Len(ss)
  BY LenProperties
<1>4. PICK h \in [0 .. n -> Seq(S)] : Folding(h, op, << >>, ss)
  BY <1>1, <1>3, FoldingSome, EmptySeq
<1>5. h[0] = << >>
  BY <1>4 DEF Folding
<1>6. \A k \in 1 .. n : h[k] = h[k - 1] \o ss[k]
  <2> TAKE k \in 1 .. n
  <2>1. h[k] = op[h[k - 1]][ss[k]]
    BY <1>3, <1>4, Zenon DEF Folding
  <2>2. k - 1 \in 0 .. n
    OBVIOUS
  <2>3. h[k - 1] \in Seq(S)
    BY <2>2, Zenon
  <2>4. ss[k] \in Seq(S)
    BY <1>3, ElementOfSeq, Zenon
  <2> QED
    BY <1>2, <2>1, <2>3, <2>4, Zenon
<1>7. FlattenSeq(ss) = h[n]
  <2>1. CASE n = 0
    <3>1. ss = << >>
      BY <1>3, <2>1, EmptySeq
    <3> QED
      BY <1>3, <1>5, <2>1, <3>1 DEF FlattenSeq
  <2>2. CASE n # 0
    <3>1. 1 \in 1 .. n /\ 1 - 1 = 0
      BY <2>2
    <3>2. h[1] = << >> \o ss[1]
      BY <1>5, <1>6, <3>1, Zenon
    <3>3. ss[1] \in Seq(S)
      BY <1>3, <3>1, ElementOfSeq, Zenon
    <3>4. h[1] = ss[1]
      BY <3>2, <3>3, ConcatEmptySeq, Zenon
    <3> QED
      <4>1. n \in Nat \ {0}
        BY <2>2
      <4>2. Chain(h, ss, n)
        BY <1>6, <3>4, Zenon DEF Chain
      <4> QED
        BY <1>3, <4>1, <4>2, FlattenIs, Zenon
  <2> QED
    BY <2>1, <2>2
<1>8. h[n] \in Seq(S)
  <2>1. n \in 0 .. n
    OBVIOUS
  <2> QED
    BY <2>1, Zenon
<1> QED
  BY <1>3, <1>4, <1>7, <1>8 DEF Folds, op

(* A piece more is appended.                                               *)
LEMMA FlattenAppend ==
  ASSUME NEW S, NEW ss \in Seq(Seq(S)), NEW t \in Seq(S)
  PROVE  FlattenSeq(Append(ss, t)) = FlattenSeq(ss) \o t
<1> DEFINE op == [u \in Seq(S) |-> [v \in Seq(S) |-> u \o v]]
<1>1. FlattenSeq(ss) \in Seq(S) /\ Folds(FlattenSeq(ss), op, << >>, ss)
  BY FlattenFolds
<1>2. Append(ss, t) \in Seq(Seq(S))
  OBVIOUS
<1>3. Folds(FlattenSeq(Append(ss, t)), op, << >>, Append(ss, t))
  BY <1>2, FlattenFolds
<1>4. FlattenSeq(Append(ss, t)) = op[FlattenSeq(ss)][t]
  <2> HIDE DEF op
  <2> QED
    BY <1>1, <1>3, FoldsAppend
<1> QED
  BY <1>1, <1>4

(* Of no pieces nothing is made.                                           *)
LEMMA FlattenEmpty == FlattenSeq(<< >>) = << >>
BY DEF FlattenSeq

(* FoldLeft, which folds the set of the places of s from the last one on.  *)
FoldsPlaces(f, op, b, s) ==
  /\ f[{}] = b
  /\ \A T \in SUBSET DOMAIN s :
       T # {} => Max(T) \in DOMAIN s /\ f[T] = op[f[T \ {Max(T)}]][s[Max(T)]]

(* FoldLeft has a function to choose, whenever its operator is a function. *)
LEMMA FoldsPlacesSome ==
  ASSUME NEW S, NEW X, NEW op \in [X -> [S -> X]], NEW b \in X, NEW s \in Seq(S)
  PROVE  \E f \in [SUBSET DOMAIN s -> X] : FoldsPlaces(f, op, b, s)
<1>0. PICK n \in Nat : n = Len(s) /\ DOMAIN s = 1 .. n
  BY LenProperties
<1> DEFINE G == [k \in Nat |-> [u \in X |-> IF k \in 1 .. n THEN op[u][s[k]] ELSE u]]
<1>1. G \in [Nat -> [X -> X]]
  <2>1. \A k \in 1 .. n : s[k] \in S
    BY <1>0, ElementOfSeq
  <2>2. \A k \in Nat, u \in X : (IF k \in 1 .. n THEN op[u][s[k]] ELSE u) \in X
    BY <2>1, Zenon
  <2> QED
    BY <2>2, Zenon
<1>2. \A k \in 1 .. n, u \in X : G[k][u] = op[u][s[k]]
  <2> TAKE k \in 1 .. n, u \in X
  <2>1. k \in Nat
    OBVIOUS
  <2> QED
    BY <2>1, Zenon
<1> HIDE DEF G
<1>3. PICK f \in [SUBSET (1 .. n) -> X] : FoldsUp(f, b, G, n)
  BY <1>1, FoldsUpSome
<1>4. \A T \in SUBSET (1 .. n) : f[T] = IF T = {} THEN b ELSE G[Max(T)][f[T \ {Max(T)}]]
  BY <1>3, Zenon DEF FoldsUp
<1>5. ASSUME NEW T \in SUBSET (1 .. n), T # {}
      PROVE  Max(T) \in 1 .. n /\ f[T] = op[f[T \ {Max(T)}]][s[Max(T)]]
  <2>1. Max(T) \in 1 .. n
    BY <1>5, MaxIsGreatest
  <2>2. T \ {Max(T)} \in SUBSET (1 .. n)
    OBVIOUS
  <2>3. f[T \ {Max(T)}] \in X
    BY <2>2, Zenon
  <2>4. f[T] = G[Max(T)][f[T \ {Max(T)}]]
    BY <1>4, <1>5, Zenon
  <2> QED
    BY <1>2, <2>1, <2>3, <2>4, Zenon
<1>6. f[{}] = b
  BY <1>4, Zenon
<1> QED
  BY <1>0, <1>5, <1>6, Zenon DEF FoldsPlaces

FoldsWithin(f, X, op, b, s) ==
  /\ f[{}] = b
  /\ \A T \in SUBSET DOMAIN s :
       T # {} /\ f[T \ {Max(T)}] \in X => f[T] = op[f[T \ {Max(T)}]][s[Max(T)]]

(* And whichever it chooses folds the sequence.                            *)
LEMMA PlacesFold ==
  ASSUME NEW S, NEW X, NEW op \in [X -> [S -> X]], NEW b \in X, NEW s \in Seq(S), NEW f,
         FoldsWithin(f, X, op, b, s)
  PROVE  f[DOMAIN s] \in X /\ Folds(f[DOMAIN s], op, b, s)
<1>0. PICK n \in Nat : n = Len(s) /\ DOMAIN s = 1 .. n
  BY LenProperties
<1> DEFINE Q(k) == f[1 .. k] \in X /\ (k > 0 => f[1 .. k] = op[f[1 .. k - 1]][s[k]])
           P    == {k \in Nat : k <= n => Q(k)}
<1>w. /\ f[{}] = b
      /\ \A T \in SUBSET DOMAIN s :
           T # {} /\ f[T \ {Max(T)}] \in X => f[T] = op[f[T \ {Max(T)}]][s[Max(T)]]
  BY Zenon DEF FoldsWithin
<1>1. 0 \in P
  <2>1. 1 .. 0 = {} /\ ~(0 > 0)
    OBVIOUS
  <2> QED
    BY <1>w, <2>1, Zenon
<1>2. ASSUME NEW k \in P
      PROVE  k + 1 \in P
  <2>0. k \in Nat /\ k + 1 \in Nat /\ (k + 1) - 1 = k
    OBVIOUS
  <2> SUFFICES ASSUME k + 1 <= n
               PROVE  Q(k + 1)
    BY <2>0, Zenon
  <2> DEFINE T == 1 .. k + 1
  <2>1. T \in SUBSET (1 .. n) /\ T # {} /\ k + 1 \in T /\ T \ {k + 1} = 1 .. k
    <3>1. k + 1 \in T /\ \A y : y \in T => y \in 1 .. n
      BY <2>0
    <3>2. \A y : y \in T \ {k + 1} <=> y \in 1 .. k
      BY <2>0
    <3> QED
      BY <3>1, <3>2
  <2>2. Max(T) = k + 1
    <3>1. Max(T) \in T /\ \A y \in T : y <= Max(T)
      <4> HIDE DEF T
      <4> QED
        BY <2>1, MaxIsGreatest
    <3> QED
      BY <2>0, <3>1
  <2>3. k <= n
    BY <2>0
  <2>4. f[1 .. k] \in X
    BY <2>3, Zenon
  <2> HIDE DEF T, P
  <2>5. f[T] = op[f[1 .. k]][s[k + 1]]
    BY <1>0, <1>w, <2>1, <2>2, <2>4, Zenon
  <2>6. s[k + 1] \in S
    <3>1. k + 1 \in 1 .. Len(s)
      BY <1>0, <2>0
    <3> QED
      BY <3>1, ElementOfSeq, Zenon
  <2>7. f[T] \in X
    BY <2>4, <2>5, <2>6, Zenon
  <2> QED
    BY <2>0, <2>5, <2>7, Zenon DEF T
<1>3. P = Nat
  <2> HIDE DEF P
  <2>1. P \in SUBSET Nat
    BY DEF P
  <2> QED
    BY <1>1, <1>2, <2>1, FromZero, Zenon
<1>4. \A k \in Nat : k <= n => Q(k)
  BY <1>3, Zenon
<1> HIDE DEF P, Q
<1> DEFINE h == [k \in 0 .. n |-> f[1 .. k]]
<1>5. h[0] = b
  <2>1. 1 .. 0 = {} /\ 0 \in 0 .. n
    OBVIOUS
  <2> QED
    BY <1>w, <2>1, Zenon
<1>6. \A k \in 1 .. n : h[k] = op[h[k - 1]][s[k]]
  <2> TAKE k \in 1 .. n
  <2>1. k \in Nat /\ k <= n /\ k > 0 /\ k \in 0 .. n /\ k - 1 \in 0 .. n
    OBVIOUS
  <2> QED
    BY <1>4, <2>1, Zenon DEF Q
<1>7. Folding(h, op, b, s)
  <2> HIDE DEF h
  <2> QED
    BY <1>0, <1>5, <1>6, Zenon DEF Folding
<1>8. n \in Nat /\ n <= n /\ n \in 0 .. n
  OBVIOUS
<1>9. h[n] = f[DOMAIN s] /\ f[DOMAIN s] \in X
  BY <1>0, <1>4, <1>8, Zenon DEF Q
<1> HIDE DEF h
<1> QED
  BY <1>0, <1>7, <1>9, Zenon DEF Folds

-----------------------------------------------------------------------------
(***************************************************************************)
(* The folds of the observer: pieces, payloads, and what is seen and kept  *)
(* of events.                                                              *)
(***************************************************************************)

(* The folds that cut a stream.                                            *)
NoCut == [whole |-> << >>, rest |-> << >>]
Cuts(S) == [whole : Seq(Seq(S)), rest : Seq(S)]
CutOp(S, end) == [c \in Cuts(S) |-> [x \in S |-> Cut(c, x, end)]]

(* Cut, as a function.                                                     *)
LEMMA CutOpType ==
  ASSUME NEW S, NEW end
  PROVE  /\ CutOp(S, end) \in [Cuts(S) -> [S -> Cuts(S)]] /\ NoCut \in Cuts(S)
         /\ \A c \in Cuts(S), x \in S : CutOp(S, end)[c][x] = Cut(c, x, end)
<1>1. \A c \in Cuts(S), x \in S : Cut(c, x, end) \in Cuts(S)
  <2> TAKE c \in Cuts(S), x \in S
  <2>1. c.whole \in Seq(Seq(S)) /\ c.rest \in Seq(S)
    BY DEF Cuts
  <2> DEFINE p == Append(c.rest, x)
  <2>2. p \in Seq(S)
    BY <2>1, AppendProperties
  <2> HIDE DEF p
  <2>3. Append(c.whole, p) \in Seq(Seq(S)) /\ << >> \in Seq(S)
    BY <2>1, <2>2, AppendProperties, EmptySeq
  <2>4. CASE EndsWith(p, end)
    <3>1. Cut(c, x, end) = [whole |-> Append(c.whole, p), rest |-> << >>]
      BY <2>4 DEF Cut, p
    <3> QED
      BY <2>1, <2>3, <3>1 DEF Cuts
  <2>5. CASE ~EndsWith(p, end)
    <3>1. Cut(c, x, end) = [whole |-> c.whole, rest |-> p]
      BY <2>5 DEF Cut, p
    <3> QED
      BY <2>1, <2>2, <3>1 DEF Cuts
  <2> QED
    BY <2>4, <2>5
<1>2. NoCut \in Cuts(S)
  <2>1. << >> \in Seq(S) /\ << >> \in Seq(Seq(S))
    BY EmptySeq
  <2> QED
    BY <2>1, Zenon DEF NoCut, Cuts
<1> QED
  BY <1>1, <1>2, Zenon DEF CutOp

(* What the fold of Pieces chooses: see FoldLeft.                          *)
PlacesCut(f, s, end) ==
  f = [T \in SUBSET DOMAIN s |->
         IF T = {} THEN NoCut ELSE Cut(f[T \ {Max(T)}], s[Max(T)], end)]

(* Pieces by the function its fold chooses.                                *)
LEMMA PiecesDef ==
  ASSUME NEW s, NEW end
  PROVE  Pieces(s, end) = (CHOOSE f : PlacesCut(f, s, end))[DOMAIN s]
BY Zenon DEF Pieces, PlacesCut, FoldLeft, MapThenFoldSet, NoCut

(* Pieces is a fold by Cut.                                                *)
LEMMA PiecesFold ==
  ASSUME NEW S, NEW s \in Seq(S), NEW end
  PROVE  Pieces(s, end) \in Cuts(S) /\ Folds(Pieces(s, end), CutOp(S, end), NoCut, s)
<1> DEFINE op == CutOp(S, end)
           X  == Cuts(S)
<1>1. op \in [X -> [S -> X]] /\ NoCut \in X /\ \A c \in X, x \in S : op[c][x] = Cut(c, x, end)
  BY CutOpType
<1> HIDE DEF op, X
<1>2. PICK g \in [SUBSET DOMAIN s -> X] : FoldsPlaces(g, op, NoCut, s)
  BY <1>1, FoldsPlacesSome
<1>3. \A i \in DOMAIN s : s[i] \in S
  BY LenProperties
<1>4. PlacesCut(g, s, end)
  <2>1. ASSUME NEW T \in SUBSET DOMAIN s
        PROVE  g[T] = IF T = {} THEN NoCut ELSE Cut(g[T \ {Max(T)}], s[Max(T)], end)
    <3>1. CASE T = {}
      BY <1>2, <3>1, Zenon DEF FoldsPlaces
    <3>2. CASE T # {}
      <4>1. Max(T) \in DOMAIN s /\ g[T] = op[g[T \ {Max(T)}]][s[Max(T)]]
        BY <1>2, <3>2, Zenon DEF FoldsPlaces
      <4>2. T \ {Max(T)} \in SUBSET DOMAIN s
        OBVIOUS
      <4>3. g[T \ {Max(T)}] \in X
        BY <4>2, Zenon
      <4> QED
        BY <1>1, <1>3, <3>2, <4>1, <4>3, Zenon
    <3> QED
      BY <3>1, <3>2
  <2> QED
    BY <2>1, Zenon DEF PlacesCut
<1>5. PICK f : f = (CHOOSE x : PlacesCut(x, s, end)) /\ PlacesCut(f, s, end)
  BY <1>4, Zenon
<1>6. f[{}] = NoCut
  BY <1>5, Zenon DEF PlacesCut
<1>7. ASSUME NEW T \in SUBSET DOMAIN s, T # {}, f[T \ {Max(T)}] \in X
      PROVE  f[T] = op[f[T \ {Max(T)}]][s[Max(T)]]
  <2>1. f[T] = Cut(f[T \ {Max(T)}], s[Max(T)], end)
    BY <1>5, <1>7, Zenon DEF PlacesCut
  <2>2. Max(T) \in DOMAIN s
    BY <1>2, <1>7, Zenon DEF FoldsPlaces
  <2> QED
    BY <1>1, <1>3, <1>7, <2>1, <2>2, Zenon
<1>8. f[DOMAIN s] \in X /\ Folds(f[DOMAIN s], op, NoCut, s)
  <2>1. FoldsWithin(f, X, op, NoCut, s)
    BY <1>6, <1>7, Zenon DEF FoldsWithin
  <2> QED
    BY <1>1, <2>1, PlacesFold, Zenon
<1>9. Pieces(s, end) = f[DOMAIN s]
  BY <1>5, PiecesDef, Zenon
<1> QED
  BY <1>8, <1>9, Zenon DEF op, X

(* Pieces, a symbol at a time.                                             *)
LEMMA PiecesAppend ==
  ASSUME NEW S, NEW s \in Seq(S), NEW x \in S, NEW end
  PROVE  Pieces(Append(s, x), end) = Cut(Pieces(s, end), x, end)
<1>1. Append(s, x) \in Seq(S)
  BY AppendProperties
<1>2. Pieces(s, end) \in Cuts(S) /\ Folds(Pieces(s, end), CutOp(S, end), NoCut, s)
  BY PiecesFold
<1>3. Folds(Pieces(Append(s, x), end), CutOp(S, end), NoCut, Append(s, x))
  BY <1>1, PiecesFold
<1>4. Pieces(Append(s, x), end) = CutOp(S, end)[Pieces(s, end)][x]
  BY <1>2, <1>3, FoldsAppend
<1> QED
  BY <1>2, <1>4, CutOpType

(* Nothing is in no pieces.                                                *)
LEMMA PiecesEmpty ==
  ASSUME NEW end
  PROVE  Pieces(<< >>, end) = NoCut
<1>1. << >> \in Seq({})
  BY EmptySeq
<1> QED
  BY <1>1, PiecesFold, FoldsEmpty

(* What is done to each element of a sequence, one after another.          *)
Images(F, s) == [i \in DOMAIN s |-> F[s[i]]]

(* Images are sequences, one after another as well.                        *)
LEMMA ImagesType ==
  ASSUME NEW S, NEW T, NEW F \in [S -> Seq(T)], NEW s \in Seq(S)
  PROVE  Images(F, s) \in Seq(Seq(T)) /\ FlattenSeq(Images(F, s)) \in Seq(T)
<1>1. PICK n \in Nat : n = Len(s) /\ DOMAIN s = 1 .. n /\ \A i \in 1 .. n : s[i] \in S
  BY LenProperties
<1>2. \A i \in 1 .. n : F[s[i]] \in Seq(T)
  BY <1>1, Zenon
<1>3. Images(F, s) = [i \in 1 .. n |-> F[s[i]]]
  BY <1>1, Zenon DEF Images
<1>4. Images(F, s) \in Seq(Seq(T)) /\ Len(Images(F, s)) = n
  <2> DEFINE Q == Seq(T)
  <2>1. \A i \in 1 .. n : F[s[i]] \in Q
    BY <1>2
  <2> HIDE DEF Q
  <2>2. [i \in 1 .. n |-> F[s[i]]] \in Seq(Q) /\ Len([i \in 1 .. n |-> F[s[i]]]) = n
    BY <2>1
  <2> QED
    BY <1>3, <2>2 DEF Q
<1> QED
  BY <1>1, <1>4, FlattenFolds

(* There is an image of each element.                                      *)
LEMMA ImagesLen ==
  ASSUME NEW S, NEW T, NEW F \in [S -> Seq(T)], NEW s \in Seq(S)
  PROVE  Len(Images(F, s)) = Len(s)
<1>1. Images(F, s) \in Seq(Seq(T))
  BY ImagesType
<1>2. DOMAIN Images(F, s) = DOMAIN s
  BY DEF Images
<1>3. DOMAIN s = 1 .. Len(s) /\ Len(s) \in Nat
  BY LenProperties
<1>4. DOMAIN Images(F, s) = 1 .. Len(Images(F, s)) /\ Len(Images(F, s)) \in Nat
  <2> DEFINE u == Images(F, s)
             Q == Seq(T)
  <2>1. u \in Seq(Q)
    BY <1>1
  <2> HIDE DEF u, Q
  <2> QED
    BY <2>1, LenProperties DEF u
<1> HIDE DEF Images
<1> QED
  BY <1>2, <1>3, <1>4

(* An element more adds its image.                                         *)
LEMMA ImagesAppend ==
  ASSUME NEW S, NEW T, NEW F \in [S -> Seq(T)], NEW s \in Seq(S), NEW x \in S
  PROVE  FlattenSeq(Images(F, Append(s, x))) = FlattenSeq(Images(F, s)) \o F[x]
<1> DEFINE t == Append(s, x)
           Q == Seq(T)
<1>1. PICK n \in Nat : n = Len(s) /\ DOMAIN s = 1 .. n /\ \A i \in 1 .. n : s[i] \in S
  BY LenProperties
<1>2. t \in Seq(S) /\ Len(t) = n + 1 /\ t[n + 1] = x /\ \A i \in 1 .. n : t[i] = s[i]
  BY <1>1, AppendProperties
<1>3. F[x] \in Q
  OBVIOUS
<1>4. Images(F, s) \in Seq(Q) /\ Len(Images(F, s)) = n
  <2>1. Images(F, s) \in Seq(Seq(T)) /\ Len(Images(F, s)) = Len(s)
    BY ImagesType, ImagesLen
  <2> QED
    BY <1>1, <2>1, Zenon
<1> HIDE DEF t
<1>5. Images(F, t) \in Seq(Q) /\ Len(Images(F, t)) = n + 1
  <2>1. Images(F, t) \in Seq(Seq(T)) /\ Len(Images(F, t)) = Len(t)
    BY <1>2, ImagesType, ImagesLen
  <2> QED
    BY <1>2, <2>1, Zenon
<1>6. DOMAIN t = 1 .. n + 1
  BY <1>2, LenProperties
<1>7. \A i \in 1 .. n + 1 : Images(F, t)[i] = F[t[i]]
  BY <1>6, Zenon DEF Images
<1>8. \A i \in 1 .. n : Images(F, s)[i] = F[s[i]]
  BY <1>1, Zenon DEF Images
<1>9. Append(Images(F, s), F[x]) = Images(F, t)
  <2> DEFINE u == Append(Images(F, s), F[x])
  <2> HIDE DEF Q
  <2>1. /\ u \in Seq(Q) /\ Len(u) = n + 1 /\ u[n + 1] = F[x]
        /\ \A i \in 1 .. n : u[i] = Images(F, s)[i]
    BY <1>3, <1>4, AppendProperties
  <2>2. \A i \in 1 .. n + 1 : u[i] = Images(F, t)[i]
    <3> TAKE i \in 1 .. n + 1
    <3>1. CASE i \in 1 .. n
      BY <1>2, <1>7, <1>8, <2>1, <3>1, Zenon
    <3>2. CASE i = n + 1
      <4>1. Images(F, t)[i] = F[t[i]]
        BY <1>7, Zenon
      <4>2. t[i] = x /\ u[i] = F[x]
        BY <1>2, <2>1, <3>2
      <4> QED
        BY <4>1, <4>2, Zenon
    <3>3. i \in 1 .. n \/ i = n + 1
      OBVIOUS
    <3> QED
      BY <3>1, <3>2, <3>3, Zenon
  <2> HIDE DEF u
  <2> QED
    BY <1>5, <2>1, <2>2, SeqEqual DEF u
<1> QED
  BY <1>3, <1>4, <1>9, FlattenAppend DEF t

(* F gives sequences of T.                                                 *)
Maps(F, S, T) == F \in [S -> Seq(T)]

(* The images of one sequence after another.                               *)
LEMMA ImagesConcat ==
  ASSUME NEW S, NEW T, NEW F, Maps(F, S, T), NEW s \in Seq(S), NEW t \in Seq(S)
  PROVE  FlattenSeq(Images(F, s \o t)) = FlattenSeq(Images(F, s)) \o FlattenSeq(Images(F, t))
<1> DEFINE P == {v \in Seq(S) :
                   FlattenSeq(Images(F, s \o v)) = FlattenSeq(Images(F, s)) \o FlattenSeq(Images(F, v))}
<1>0. F \in [S -> Seq(T)]
  BY DEF Maps
<1>1. << >> \in P
  <2>1. s \o << >> = s /\ << >> \in Seq(S)
    BY ConcatEmptySeq, EmptySeq
  <2>2. Images(F, << >>) = << >>
    BY DEF Images
  <2>3. FlattenSeq(Images(F, s)) \o << >> = FlattenSeq(Images(F, s))
    BY <1>0, ImagesType, ConcatEmptySeq
  <2> QED
    BY <2>1, <2>2, <2>3, FlattenEmpty, Zenon
<1>2. ASSUME NEW v \in P, NEW x \in S
      PROVE  Append(v, x) \in P
  <2>1. v \in Seq(S) /\ Append(v, x) \in Seq(S) /\ s \o v \in Seq(S)
    BY AppendProperties, ConcatProperties
  <2>2. s \o Append(v, x) = Append(s \o v, x)
    BY <2>1
  <2>3. FlattenSeq(Images(F, Append(s \o v, x))) = FlattenSeq(Images(F, s \o v)) \o F[x]
    BY <1>0, <2>1, ImagesAppend
  <2>4. FlattenSeq(Images(F, Append(v, x))) = FlattenSeq(Images(F, v)) \o F[x]
    BY <1>0, <2>1, ImagesAppend
  <2>5. /\ FlattenSeq(Images(F, s)) \in Seq(T) /\ FlattenSeq(Images(F, v)) \in Seq(T) /\ F[x] \in Seq(T)
    BY <1>0, <2>1, ImagesType
  <2>6. (FlattenSeq(Images(F, s)) \o FlattenSeq(Images(F, v))) \o F[x]
          = FlattenSeq(Images(F, s)) \o (FlattenSeq(Images(F, v)) \o F[x])
    <3>1. \A a, b, c \in Seq(T) : (a \o b) \o c = a \o (b \o c)
      BY ConcatAssociative
    <3> QED
      BY <2>5, <3>1, Zenon
  <2>7. FlattenSeq(Images(F, s \o v)) = FlattenSeq(Images(F, s)) \o FlattenSeq(Images(F, v))
    OBVIOUS
  <2> QED
    BY <2>1, <2>2, <2>3, <2>4, <2>6, <2>7, Zenon
<1>3. P = Seq(S)
  <2> HIDE DEF P
  <2>1. P \in SUBSET Seq(S)
    BY DEF P
  <2> QED
    BY <1>1, <1>2, <2>1, FromEmpty
<1> QED
  BY <1>3

(* The image of an element alone.                                          *)
LEMMA ImagesOne ==
  ASSUME NEW S, NEW T, NEW F \in [S -> Seq(T)], NEW x \in S
  PROVE  FlattenSeq(Images(F, <<x>>)) = F[x]
<1>1. << >> \in Seq(S) /\ <<x>> = Append(<< >>, x)
  OBVIOUS
<1>2. Images(F, << >>) = << >>
  BY DEF Images
<1>3. FlattenSeq(Images(F, <<x>>)) = << >> \o F[x]
  <2>1. FlattenSeq(Images(F, Append(<< >>, x))) = FlattenSeq(Images(F, << >>)) \o F[x]
    BY <1>1, ImagesAppend
  <2> QED
    BY <1>1, <1>2, <2>1, FlattenEmpty, Zenon
<1> QED
  BY <1>3, ConcatEmptySeq

(* The payloads of a stream are those of its parts, in order (observe).    *)
LEMMA PayloadsOf ==
  ASSUME NEW V
  PROVE  /\ Payloads(<< >>) = << >>
         /\ \A s \in Seq(V) : Payloads(s) \in Seq(V)
         /\ \A s \in Seq(V), x \in V : Payloads(Append(s, x)) = Payloads(s) \o Observed(x)
         /\ \A x \in V : Payloads(<<x>>) = Observed(x)
         /\ \A s, t \in Seq(V) : Payloads(s \o t) = Payloads(s) \o Payloads(t)
<1> DEFINE F == [x \in V |-> Observed(x)]
<1>1. F \in [V -> Seq(V)]
  <2>1. \A x \in V : Observed(x) \in Seq(V)
    BY DEF Observed
  <2> QED
    BY <2>1, Zenon
<1>2. \A x \in V : F[x] = Observed(x)
  BY Zenon
<1> HIDE DEF F
<1>3. \A s \in Seq(V) : Payloads(s) = FlattenSeq(Images(F, s))
  <2> TAKE s \in Seq(V)
  <2>1. \A i \in DOMAIN s : s[i] \in V
    BY LenProperties
  <2>2. [i \in DOMAIN s |-> Observed(s[i])] = [i \in DOMAIN s |-> F[s[i]]]
    BY <1>2, <2>1, Zenon
  <2> QED
    BY <2>2, Zenon DEF Payloads, Images
<1>4. Payloads(<< >>) = << >>
  BY FlattenEmpty DEF Payloads
<1>5. ASSUME NEW s \in Seq(V)
      PROVE  Payloads(s) \in Seq(V)
  <2>1. FlattenSeq(Images(F, s)) \in Seq(V)
    BY <1>1, <1>5, ImagesType
  <2> QED
    BY <1>3, <1>5, <2>1, Zenon
<1>6. ASSUME NEW s \in Seq(V), NEW x \in V
      PROVE  Payloads(Append(s, x)) = Payloads(s) \o Observed(x)
  <2>1. Append(s, x) \in Seq(V)
    BY AppendProperties
  <2>2. FlattenSeq(Images(F, Append(s, x))) = FlattenSeq(Images(F, s)) \o F[x]
    BY <1>1, ImagesAppend
  <2> QED
    BY <1>2, <1>3, <2>1, <2>2, Zenon
<1>7. ASSUME NEW x \in V
      PROVE  Payloads(<<x>>) = Observed(x)
  <2>1. <<x>> \in Seq(V)
    OBVIOUS
  <2>2. FlattenSeq(Images(F, <<x>>)) = F[x]
    BY <1>1, ImagesOne
  <2> QED
    BY <1>2, <1>3, <2>1, <2>2, Zenon
<1>8. ASSUME NEW s \in Seq(V), NEW t \in Seq(V)
      PROVE  Payloads(s \o t) = Payloads(s) \o Payloads(t)
  <2>1. s \o t \in Seq(V)
    BY ConcatProperties
  <2>2. Maps(F, V, V)
    BY <1>1 DEF Maps
  <2>3. FlattenSeq(Images(F, s \o t)) = FlattenSeq(Images(F, s)) \o FlattenSeq(Images(F, t))
    BY <1>8, <2>2, ImagesConcat, SMT
  <2>4. Payloads(s) = FlattenSeq(Images(F, s)) /\ Payloads(t) = FlattenSeq(Images(F, t))
    BY <1>3, <1>8, Zenon
  <2>5. Payloads(s \o t) = FlattenSeq(Images(F, s \o t))
    BY <1>3, <2>1, Zenon
  <2> QED
    BY <2>3, <2>4, <2>5, Zenon
<1> QED
  BY <1>4, <1>5, <1>6, <1>7, <1>8, Zenon

(* What is observed of lines is so a line at a time (handleLine).          *)
LEMMA LinesOf ==
  ASSUME NEW V
  PROVE  /\ handleLines(<< >>) = << >>
         /\ \A s \in Seq(V) : handleLine(s) \in Seq(V)
         /\ \A ss \in Seq(Seq(V)) : handleLines(ss) \in Seq(V)
         /\ \A ss \in Seq(Seq(V)), s \in Seq(V) : handleLines(Append(ss, s)) = handleLines(ss) \o handleLine(s)
<1> DEFINE F == [s \in Seq(V) |-> handleLine(s)]
<1>1. \A s \in Seq(V) : handleLine(s) \in Seq(V)
  <2> TAKE s \in Seq(V)
  <2>1. Len(s) \in Nat
    BY LenProperties
  <2>2. Len(s) >= 2 => 2 \in 1 .. Len(s)
    BY <2>1
  <2>3. Len(s) >= 2 => s[2] \in V
    BY <2>2, ElementOfSeq, Zenon
  <2>4. Len(s) >= 2 => <<s[2]>> \in Seq(V)
    BY <2>3
  <2>5. << >> \in Seq(V)
    BY EmptySeq
  <2> QED
    BY <2>4, <2>5, Zenon DEF handleLine, Observed
<1>2. F \in [Seq(V) -> Seq(V)]
  BY <1>1, Zenon
<1>3. \A s \in Seq(V) : F[s] = handleLine(s)
  BY Zenon
<1> HIDE DEF F
<1>4. ASSUME NEW Q, Q = Seq(V)
      PROVE  \A ss \in Seq(Q) : handleLines(ss) = FlattenSeq(Images(F, ss))
  <2> TAKE ss \in Seq(Q)
  <2>1. \A i \in DOMAIN ss : ss[i] \in Q
    BY LenProperties
  <2>2. [i \in DOMAIN ss |-> handleLine(ss[i])] = [i \in DOMAIN ss |-> F[ss[i]]]
    BY <1>3, <1>4, <2>1, Zenon
  <2> QED
    BY <2>2, Zenon DEF handleLines, Images
<1>5. handleLines(<< >>) = << >>
  BY FlattenEmpty DEF handleLines
<1>6. ASSUME NEW ss \in Seq(Seq(V))
      PROVE  handleLines(ss) \in Seq(V)
  BY <1>2, <1>4, <1>6, ImagesType
<1>7. ASSUME NEW ss \in Seq(Seq(V)), NEW s \in Seq(V)
      PROVE  handleLines(Append(ss, s)) = handleLines(ss) \o handleLine(s)
  <2>1. Append(ss, s) \in Seq(Seq(V))
    BY AppendProperties
  <2>2. FlattenSeq(Images(F, Append(ss, s))) = FlattenSeq(Images(F, ss)) \o F[s]
    BY <1>2, ImagesAppend
  <2> QED
    BY <1>3, <1>4, <2>1, <2>2, Zenon
<1> QED
  BY <1>1, <1>5, <1>6, <1>7, Zenon

(* Min is the least of some places.                                        *)
LEMMA LeastIsMin ==
  ASSUME NEW T \in SUBSET Nat, T # {}
  PROVE  Min(T) \in T /\ \A y \in T : Min(T) <= y
<1>1. \E x \in T : \A y \in T : x <= y
  BY LeastElement
<1> QED
  BY <1>1 DEF Min

(* What is observed and what is kept of an event are symbols of it.        *)
LEMMA EventsType ==
  ASSUME NEW V, NEW p \in Seq(V)
  PROVE  /\ eventPayload(p) \in Seq(V) /\ see(p) \in Seq(V) /\ keep(p) \in Seq(V)
         /\ DataLines(p) \in SUBSET Nat
         /\ DataLines(p) # {} => /\ Min(DataLines(p)) \in DataLines(p)
                                 /\ \A y \in DataLines(p) : Min(DataLines(p)) <= y
<1>1. PICK n \in Nat : n = Len(p) /\ \A i \in 1 .. n : p[i] \in V
  BY LenProperties
<1>2. DataLines(p) \in SUBSET Nat /\ \A i \in DataLines(p) : i \in Nat /\ i + 1 \in 1 .. n
  BY <1>1 DEF DataLines
<1>3. DataLines(p) # {} => /\ Min(DataLines(p)) \in DataLines(p)
                           /\ \A y \in DataLines(p) : Min(DataLines(p)) <= y
  BY <1>2, LeastIsMin
<1>4. << >> \in Seq(V)
  BY EmptySeq
<1>5. eventPayload(p) \in Seq(V)
  <2>1. DataLines(p) # {} => p[Min(DataLines(p)) + 1] \in V
    BY <1>1, <1>2, <1>3, Zenon
  <2>2. DataLines(p) # {} => <<p[Min(DataLines(p)) + 1]>> \in Seq(V)
    BY <2>1
  <2> QED
    BY <1>4, <2>2, Zenon DEF eventPayload
<1>6. see(p) \in Seq(V)
  BY <1>5, PayloadsOf, Zenon DEF see
<1>7. keep(p) \in Seq(V)
  BY <1>4, Zenon DEF keep
<1> QED
  BY <1>2, <1>3, <1>5, <1>6, <1>7, Zenon

(* Events are kept one by one (consumeEvents).                             *)
LEMMA KeptOf ==
  ASSUME NEW V
  PROVE  /\ Kept(<< >>) = << >>
         /\ \A ss \in Seq(Seq(V)) : Kept(ss) \in Seq(V)
         /\ \A ss \in Seq(Seq(V)), s \in Seq(V) : Kept(Append(ss, s)) = Kept(ss) \o keep(s)
         /\ \A ss, tt \in Seq(Seq(V)) : Kept(ss \o tt) = Kept(ss) \o Kept(tt)
<1> DEFINE F == [s \in Seq(V) |-> keep(s)]
<1>2. F \in [Seq(V) -> Seq(V)]
  <2>1. \A s \in Seq(V) : keep(s) \in Seq(V)
    BY EventsType, Zenon
  <2> QED
    BY <2>1, Zenon
<1>3. \A s \in Seq(V) : F[s] = keep(s)
  BY Zenon
<1> HIDE DEF F
<1>4. ASSUME NEW Q, Q = Seq(V)
      PROVE  \A ss \in Seq(Q) : Kept(ss) = FlattenSeq(Images(F, ss))
  <2> TAKE ss \in Seq(Q)
  <2>1. \A i \in DOMAIN ss : ss[i] \in Q
    BY LenProperties
  <2>2. [i \in DOMAIN ss |-> keep(ss[i])] = [i \in DOMAIN ss |-> F[ss[i]]]
    BY <1>3, <1>4, <2>1, Zenon
  <2> QED
    BY <2>2, Zenon DEF Kept, Images
<1>5. Kept(<< >>) = << >>
  BY FlattenEmpty DEF Kept
<1>6. ASSUME NEW ss \in Seq(Seq(V))
      PROVE  Kept(ss) \in Seq(V)
  BY <1>2, <1>4, <1>6, ImagesType
<1>7. ASSUME NEW ss \in Seq(Seq(V)), NEW s \in Seq(V)
      PROVE  Kept(Append(ss, s)) = Kept(ss) \o keep(s)
  <2>1. Append(ss, s) \in Seq(Seq(V))
    BY AppendProperties
  <2>2. FlattenSeq(Images(F, Append(ss, s))) = FlattenSeq(Images(F, ss)) \o F[s]
    BY <1>2, ImagesAppend
  <2> QED
    BY <1>3, <1>4, <2>1, <2>2, Zenon
<1>8. ASSUME NEW ss \in Seq(Seq(V)), NEW tt \in Seq(Seq(V))
      PROVE  Kept(ss \o tt) = Kept(ss) \o Kept(tt)
  <2>1. ss \o tt \in Seq(Seq(V))
    BY ConcatProperties
  <2>2. FlattenSeq(Images(F, ss \o tt)) = FlattenSeq(Images(F, ss)) \o FlattenSeq(Images(F, tt))
    <3>1. ASSUME NEW Q, NEW G \in [Q -> Seq(V)], NEW uu \in Seq(Q), NEW vv \in Seq(Q)
          PROVE  FlattenSeq(Images(G, uu \o vv)) = FlattenSeq(Images(G, uu)) \o FlattenSeq(Images(G, vv))
      <4>1. Maps(G, Q, V)
        BY <3>1 DEF Maps
      <4> QED
        BY <3>1, <4>1, ImagesConcat, SMT
    <3> QED
      BY <1>2, <1>8, <3>1, Zenon
  <2>3. \A vv \in Seq(Seq(V)) : Kept(vv) = FlattenSeq(Images(F, vv))
    BY <1>4, Zenon
  <2>4. Kept(ss) = FlattenSeq(Images(F, ss)) /\ Kept(tt) = FlattenSeq(Images(F, tt))
    BY <1>8, <2>3, Zenon
  <2>5. Kept(ss \o tt) = FlattenSeq(Images(F, ss \o tt))
    BY <2>1, <2>3, Zenon
  <2> QED
    BY <2>2, <2>4, <2>5, Zenon
<1> QED
  BY <1>5, <1>6, <1>7, <1>8, Zenon

(* And observed one by one.                                                *)
LEMMA SeenOf ==
  ASSUME NEW V
  PROVE  /\ Seen(<< >>) = << >>
         /\ \A ss \in Seq(Seq(V)) : Seen(ss) \in Seq(V)
         /\ \A ss \in Seq(Seq(V)), s \in Seq(V) : Seen(Append(ss, s)) = Seen(ss) \o see(s)
         /\ \A ss, tt \in Seq(Seq(V)) : Seen(ss \o tt) = Seen(ss) \o Seen(tt)
<1> DEFINE F == [s \in Seq(V) |-> see(s)]
<1>2. F \in [Seq(V) -> Seq(V)]
  <2>1. \A s \in Seq(V) : see(s) \in Seq(V)
    BY EventsType, Zenon
  <2> QED
    BY <2>1, Zenon
<1>3. \A s \in Seq(V) : F[s] = see(s)
  BY Zenon
<1> HIDE DEF F
<1>4. ASSUME NEW Q, Q = Seq(V)
      PROVE  \A ss \in Seq(Q) : Seen(ss) = FlattenSeq(Images(F, ss))
  <2> TAKE ss \in Seq(Q)
  <2>1. \A i \in DOMAIN ss : ss[i] \in Q
    BY LenProperties
  <2>2. [i \in DOMAIN ss |-> see(ss[i])] = [i \in DOMAIN ss |-> F[ss[i]]]
    BY <1>3, <1>4, <2>1, Zenon
  <2> QED
    BY <2>2, Zenon DEF Seen, Images
<1>5. Seen(<< >>) = << >>
  BY FlattenEmpty DEF Seen
<1>6. ASSUME NEW ss \in Seq(Seq(V))
      PROVE  Seen(ss) \in Seq(V)
  BY <1>2, <1>4, <1>6, ImagesType
<1>7. ASSUME NEW ss \in Seq(Seq(V)), NEW s \in Seq(V)
      PROVE  Seen(Append(ss, s)) = Seen(ss) \o see(s)
  <2>1. Append(ss, s) \in Seq(Seq(V))
    BY AppendProperties
  <2>2. FlattenSeq(Images(F, Append(ss, s))) = FlattenSeq(Images(F, ss)) \o F[s]
    BY <1>2, ImagesAppend
  <2> QED
    BY <1>3, <1>4, <2>1, <2>2, Zenon
<1>8. ASSUME NEW ss \in Seq(Seq(V)), NEW tt \in Seq(Seq(V))
      PROVE  Seen(ss \o tt) = Seen(ss) \o Seen(tt)
  <2>1. ss \o tt \in Seq(Seq(V))
    BY ConcatProperties
  <2>2. FlattenSeq(Images(F, ss \o tt)) = FlattenSeq(Images(F, ss)) \o FlattenSeq(Images(F, tt))
    <3>1. ASSUME NEW Q, NEW G \in [Q -> Seq(V)], NEW uu \in Seq(Q), NEW vv \in Seq(Q)
          PROVE  FlattenSeq(Images(G, uu \o vv)) = FlattenSeq(Images(G, uu)) \o FlattenSeq(Images(G, vv))
      <4>1. Maps(G, Q, V)
        BY <3>1 DEF Maps
      <4> QED
        BY <3>1, <4>1, ImagesConcat, SMT
    <3> QED
      BY <1>2, <1>8, <3>1, Zenon
  <2>3. \A vv \in Seq(Seq(V)) : Seen(vv) = FlattenSeq(Images(F, vv))
    BY <1>4, Zenon
  <2>4. Seen(ss) = FlattenSeq(Images(F, ss)) /\ Seen(tt) = FlattenSeq(Images(F, tt))
    BY <1>8, <2>3, Zenon
  <2>5. Seen(ss \o tt) = FlattenSeq(Images(F, ss \o tt))
    BY <2>1, <2>3, Zenon
  <2> QED
    BY <2>2, <2>4, <2>5, Zenon
<1> QED
  BY <1>5, <1>6, <1>7, <1>8, Zenon

(* What the sequences of S do when they are put together.                  *)
Joins(S)      == \A a, b \in Seq(S), e \in S : a \o Append(b, e) = Append(a \o b, e)
Associates(S) == \A a, b, c \in Seq(S) : (a \o b) \o c = a \o (b \o c)

(* Concatenation is associative, also with an element.                     *)
LEMMA SeqJoins == \A S : Joins(S) /\ Associates(S)
<1> TAKE S
<1>1. ASSUME NEW a \in Seq(S), NEW b \in Seq(S), NEW e \in S
      PROVE  a \o Append(b, e) = Append(a \o b, e)
  <2>1. Append(b, e) \in Seq(S) /\ a \o b \in Seq(S) /\ Append(b, e) = b \o <<e>> /\ <<e>> \in Seq(S)
    BY <1>1, AppendProperties, ConcatProperties, AppendIsConcat
  <2>2. Append(a \o b, e) = (a \o b) \o <<e>>
    BY <2>1, AppendIsConcat
  <2>3. (a \o b) \o <<e>> = a \o (b \o <<e>>)
    BY <2>1, ConcatAssociative
  <2> QED
    BY <2>1, <2>2, <2>3, Zenon
<1>2. \A a, b, c \in Seq(S) : (a \o b) \o c = a \o (b \o c)
  BY ConcatAssociative
<1> QED
  BY <1>1, <1>2, Zenon DEF Joins, Associates

(* No piece ends within p.                                                 *)
Uncut(p, end) == Pieces(p, end) = [whole |-> << >>, rest |-> p]

(* A piece ends where its end does, and nowhere else.                      *)
LEMMA CutIs ==
  ASSUME NEW c, NEW x, NEW end
  PROVE  /\ EndsWith(Append(c.rest, x), end) =>
              Cut(c, x, end) = [whole |-> Append(c.whole, Append(c.rest, x)), rest |-> << >>]
         /\ ~EndsWith(Append(c.rest, x), end) =>
              Cut(c, x, end) = [whole |-> c.whole, rest |-> Append(c.rest, x)]
BY DEF Cut

(* Pieces are made of the symbols there are.                               *)
LEMMA PiecesType ==
  ASSUME NEW V, NEW s \in Seq(V), NEW end
  PROVE  Pieces(s, end) \in Cuts(V) /\ Pieces(s, end).rest \in Seq(V)
         /\ Pieces(s, end).whole \in Seq(Seq(V))
         /\ Pieces(s, end) = [whole |-> Pieces(s, end).whole, rest |-> Pieces(s, end).rest]
<1>1. Pieces(s, end) \in Cuts(V)
  BY PiecesFold
<1>2. ASSUME NEW A, NEW B, NEW c \in [whole : A, rest : B]
      PROVE  c.whole \in A /\ c.rest \in B /\ c = [whole |-> c.whole, rest |-> c.rest]
  BY <1>2
<1> QED
  BY <1>1, <1>2, Zenon DEF Cuts

(* In what is left over no piece ends.                                     *)
LEMMA RestUncut ==
  ASSUME NEW V, NEW s \in Seq(V), NEW end
  PROVE  Uncut(Pieces(s, end).rest, end)
<1> DEFINE P == {u \in Seq(V) : Uncut(Pieces(u, end).rest, end)}
<1>1. << >> \in P
  <2>1. Pieces(<< >>, end).rest = << >> /\ << >> \in Seq(V)
    BY PiecesEmpty, EmptySeq DEF NoCut
  <2> QED
    BY <2>1, PiecesEmpty, Zenon DEF Uncut, NoCut
<1>2. ASSUME NEW u \in P, NEW x \in V
      PROVE  Append(u, x) \in P
  <2>1. u \in Seq(V) /\ Append(u, x) \in Seq(V)
    BY AppendProperties
  <2>2. PICK c : c = Pieces(u, end)
    OBVIOUS
  <2>3. c.rest \in Seq(V)
    BY <2>1, <2>2, PiecesType, Zenon
  <2>4. Pieces(Append(u, x), end) = Cut(c, x, end)
    BY <2>1, <2>2, PiecesAppend, Zenon
  <2>5. Pieces(c.rest, end) = [whole |-> << >>, rest |-> c.rest]
    BY <2>2, Zenon DEF Uncut
  <2>6. Pieces(Append(c.rest, x), end) = Cut([whole |-> << >>, rest |-> c.rest], x, end)
    BY <2>3, <2>5, PiecesAppend, Zenon
  <2> DEFINE q == Append(c.rest, x)
             d == [whole |-> << >>, rest |-> c.rest]
  <2>7. CASE EndsWith(q, end)
    <3>1. Cut(c, x, end).rest = << >>
      BY <2>7, CutIs
    <3>2. Pieces(Append(u, x), end).rest = << >>
      BY <2>4, <3>1, Zenon
    <3>3. Uncut(<< >>, end)
      BY PiecesEmpty, Zenon DEF Uncut, NoCut
    <3> QED
      BY <2>1, <3>2, <3>3, Zenon
  <2>8. CASE ~EndsWith(q, end)
    <3>1. Cut(c, x, end).rest = q
      BY <2>8, CutIs
    <3>2. d.rest = c.rest /\ d.whole = << >>
      OBVIOUS
    <3>3. Cut(d, x, end) = [whole |-> << >>, rest |-> q]
      <4> HIDE DEF d
      <4>1. ~EndsWith(Append(d.rest, x), end)
        BY <2>8, <3>2, Zenon
      <4> QED
        BY <3>2, <4>1, CutIs, Zenon
    <3>4. Uncut(q, end)
      BY <2>6, <3>3, Zenon DEF Uncut
    <3> QED
      BY <2>1, <2>4, <3>1, <3>4, Zenon
  <2> QED
    BY <2>7, <2>8
<1>3. P = Seq(V)
  <2> HIDE DEF P
  <2>1. P \in SUBSET Seq(V)
    BY DEF P
  <2> QED
    BY <1>1, <1>2, <2>1, FromEmpty
<1> QED
  BY <1>3

(* However a stream comes in, it is cut at the same places: reading b      *)
(* after s cuts what was left of s, with b, and nothing else (scanEvents,  *)
(* consumeEvents).                                                         *)
LEMMA PiecesCompose ==
  ASSUME NEW V, NEW s \in Seq(V), NEW b \in Seq(V), NEW end
  PROVE  Pieces(s \o b, end) =
           [whole |-> Pieces(s, end).whole \o Pieces(Pieces(s, end).rest \o b, end).whole,
            rest  |-> Pieces(Pieces(s, end).rest \o b, end).rest]
<1>0. PICK r, W : r = Pieces(s, end).rest /\ W = Pieces(s, end).whole /\ r \in Seq(V) /\ W \in Seq(Seq(V))
                  /\ Pieces(s, end) = [whole |-> W, rest |-> r]
  BY PiecesType, Zenon
<1> DEFINE P == {v \in Seq(V) : Pieces(s \o v, end) = [whole |-> W \o Pieces(r \o v, end).whole,
                                                       rest |-> Pieces(r \o v, end).rest]}
<1>1. << >> \in P
  <2>1. s \o << >> = s /\ r \o << >> = r /\ << >> \in Seq(V)
    BY <1>0, ConcatEmptySeq, EmptySeq
  <2>2. Pieces(r, end) = [whole |-> << >>, rest |-> r]
    BY <1>0, RestUncut, Zenon DEF Uncut
  <2>3. Pieces(r, end).whole = << >> /\ Pieces(r, end).rest = r
    BY <2>2
  <2>4. W \o << >> = W
    BY <1>0, ConcatEmptySeq, Zenon
  <2> QED
    BY <1>0, <2>1, <2>3, <2>4, Zenon
<1>2. ASSUME NEW v \in P, NEW x \in V
      PROVE  Append(v, x) \in P
  <2>1. v \in Seq(V) /\ Append(v, x) \in Seq(V) /\ s \o v \in Seq(V) /\ r \o v \in Seq(V)
    BY <1>0, AppendProperties, ConcatProperties
  <2>2. s \o Append(v, x) = Append(s \o v, x) /\ r \o Append(v, x) = Append(r \o v, x)
    <3>1. Joins(V)
      BY SeqJoins, Zenon
    <3> QED
      BY <1>0, <2>1, <3>1, Zenon DEF Joins
  <2>3. PICK c, d : c = Pieces(s \o v, end) /\ d = Pieces(r \o v, end)
    OBVIOUS
  <2>4. d.whole \in Seq(Seq(V)) /\ d.rest \in Seq(V) /\ d = [whole |-> d.whole, rest |-> d.rest]
    BY <2>1, <2>3, PiecesType, Zenon
  <2>5. c = [whole |-> W \o d.whole, rest |-> d.rest]
    BY <2>3, Zenon
  <2>6. c.whole = W \o d.whole /\ c.rest = d.rest
    BY <2>5
  <2>7. Pieces(s \o Append(v, x), end) = Cut(c, x, end) /\ Pieces(r \o Append(v, x), end) = Cut(d, x, end)
    BY <2>1, <2>2, <2>3, PiecesAppend, Zenon
  <2>8. Cut(c, x, end) = [whole |-> W \o Cut(d, x, end).whole, rest |-> Cut(d, x, end).rest]
    <3> DEFINE q == Append(d.rest, x)
    <3>1. CASE EndsWith(q, end)
      <4>1. Cut(d, x, end) = [whole |-> Append(d.whole, q), rest |-> << >>]
        BY <3>1, CutIs, Zenon
      <4>2. Cut(c, x, end) = [whole |-> Append(c.whole, q), rest |-> << >>]
        BY <2>6, <3>1, CutIs, Zenon
      <4>3. q \in Seq(V)
        BY <2>4, AppendProperties
      <4>4. Append(W \o d.whole, q) = W \o Append(d.whole, q)
        <5>1. Joins(Seq(V))
          BY SeqJoins, Zenon
        <5> QED
          BY <1>0, <2>4, <4>3, <5>1, Zenon DEF Joins
      <4>5. Cut(d, x, end).whole = Append(d.whole, q) /\ Cut(d, x, end).rest = << >>
        BY <4>1
      <4> QED
        BY <2>6, <4>2, <4>4, <4>5, Zenon
    <3>2. CASE ~EndsWith(q, end)
      <4>1. Cut(d, x, end) = [whole |-> d.whole, rest |-> q]
        BY <3>2, CutIs, Zenon
      <4>2. Cut(c, x, end) = [whole |-> c.whole, rest |-> q]
        BY <2>6, <3>2, CutIs, Zenon
      <4>5. Cut(d, x, end).whole = d.whole /\ Cut(d, x, end).rest = q
        BY <4>1
      <4> QED
        BY <2>6, <4>2, <4>5, Zenon
    <3> QED
      BY <3>1, <3>2
  <2> QED
    BY <2>1, <2>7, <2>8, Zenon
<1>3. P = Seq(V)
  <2> HIDE DEF P
  <2>1. P \in SUBSET Seq(V)
    BY DEF P
  <2> QED
    BY <1>1, <1>2, <2>1, FromEmpty
<1> QED
  BY <1>0, <1>3, Zenon

-----------------------------------------------------------------------------
(***************************************************************************)
(* What is observed of the events of a stream.                             *)
(***************************************************************************)

(* The end of a line, a prefix and a payload are different symbols.        *)
LEMMA Symbols == Prefix # Nl /\ ~IsPayload(Nl) /\ ~IsPayload(Prefix) /\ Observed(Nl) = << >>
BY DEF Prefix, Nl, Text, IsPayload, Observed

(* What the two ends look like.                                            *)
LEMMA Ends ==
  ASSUME NEW V, NEW q \in Seq(V)
  PROVE  /\ EndsWith(q, lineEnd) <=> Len(q) >= 1 /\ q[Len(q)] = Nl
         /\ EndsWith(q, eventSeparator) <=> Len(q) >= 2 /\ q[Len(q)] = Nl /\ q[Len(q) - 1] = Nl
<1>1. PICK n \in Nat : n = Len(q) /\ \A i \in 1 .. n : q[i] \in V
  BY LenProperties
<1>2. Len(lineEnd) = 1 /\ lineEnd[1] = Nl /\ lineEnd \in Seq({Nl})
  BY DEF lineEnd
<1>3. Len(eventSeparator) = 2 /\ eventSeparator[1] = Nl /\ eventSeparator[2] = Nl /\ eventSeparator \in Seq({Nl})
  BY DEF eventSeparator
<1>4. ASSUME n >= 1
      PROVE  SubSeq(q, n, n) = lineEnd <=> q[n] = Nl
  <2>1. \A i \in n .. n : q[i] \in V \cup {Nl}
    BY <1>1, <1>4
  <2>2. /\ SubSeq(q, n, n) \in Seq(V \cup {Nl}) /\ Len(SubSeq(q, n, n)) = 1
        /\ SubSeq(q, n, n)[1] = q[n]
    BY <2>1, SubSeqProperties
  <2>3. lineEnd \in Seq(V \cup {Nl})
    BY <1>2, SeqMonotonic
  <2>4. q[n] = Nl => SubSeq(q, n, n) = lineEnd
    BY <1>2, <2>2, <2>3, SeqEqual
  <2> QED
    BY <1>2, <2>2, <2>4, Zenon
<1>5. ASSUME n >= 2
      PROVE  SubSeq(q, n - 1, n) = eventSeparator <=> q[n] = Nl /\ q[n - 1] = Nl
  <2>1. \A i \in n - 1 .. n : q[i] \in V \cup {Nl}
    BY <1>1, <1>5
  <2>2. /\ SubSeq(q, n - 1, n) \in Seq(V \cup {Nl}) /\ Len(SubSeq(q, n - 1, n)) = 2
        /\ SubSeq(q, n - 1, n)[1] = q[n - 1] /\ SubSeq(q, n - 1, n)[2] = q[n]
    BY <2>1, SubSeqProperties
  <2>3. eventSeparator \in Seq(V \cup {Nl})
    BY <1>3, SeqMonotonic
  <2>4. q[n] = Nl /\ q[n - 1] = Nl => SubSeq(q, n - 1, n) = eventSeparator
    BY <1>3, <2>2, <2>3, SeqEqual
  <2> QED
    BY <1>3, <2>2, <2>4, Zenon
<1>6. EndsWith(q, lineEnd) <=> 1 <= n /\ SubSeq(q, n, n) = lineEnd
  BY <1>1, <1>2 DEF EndsWith
<1>7. EndsWith(q, eventSeparator) <=> 2 <= n /\ SubSeq(q, n - 1, n) = eventSeparator
  BY <1>1, <1>3 DEF EndsWith
<1> QED
  BY <1>1, <1>4, <1>5, <1>6, <1>7

(* p is how s ends.                                                        *)
IsTail(p, s) == Len(p) <= Len(s) /\ \A i \in 1 .. Len(p) : p[i] = s[Len(s) - Len(p) + i]

(* A tail stays one when a symbol is read, and the end of a stream is a    *)
(* tail of it.                                                             *)
LEMMA TailGrows ==
  ASSUME NEW V, NEW p \in Seq(V), NEW s \in Seq(V), NEW x \in V, IsTail(p, s)
  PROVE  IsTail(Append(p, x), Append(s, x)) /\ IsTail(<< >>, s)
<1>1. PICK n \in Nat, m \in Nat : n = Len(s) /\ m = Len(p) /\ m <= n /\ \A i \in 1 .. m : p[i] = s[n - m + i]
  BY LenProperties DEF IsTail
<1>2. PICK t : t = Append(s, x) /\ Len(t) = n + 1 /\ t[n + 1] = x /\ \A i \in 1 .. n : t[i] = s[i]
  <2>1. Len(Append(s, x)) = n + 1 /\ Append(s, x)[n + 1] = x /\ \A i \in 1 .. n : Append(s, x)[i] = s[i]
    BY <1>1, AppendProperties
  <2> QED
    BY <2>1, Zenon
<1>3. PICK q : q = Append(p, x) /\ Len(q) = m + 1 /\ q[m + 1] = x /\ \A i \in 1 .. m : q[i] = p[i]
  <2>1. Len(Append(p, x)) = m + 1 /\ Append(p, x)[m + 1] = x /\ \A i \in 1 .. m : Append(p, x)[i] = p[i]
    BY <1>1, AppendProperties
  <2> QED
    BY <2>1, Zenon
<1>4. \A i \in 1 .. m + 1 : q[i] = t[(n + 1) - (m + 1) + i]
  <2> TAKE i \in 1 .. m + 1
  <2>1. CASE i \in 1 .. m
    <3>1. n - m + i \in 1 .. n /\ (n + 1) - (m + 1) + i = n - m + i
      BY <1>1, <2>1
    <3> QED
      BY <1>1, <1>2, <1>3, <2>1, <3>1, Zenon
  <2>2. CASE i = m + 1
    <3>1. (n + 1) - (m + 1) + i = n + 1
      BY <1>1, <2>2
    <3> QED
      BY <1>2, <1>3, <2>2, <3>1, Zenon
  <2> QED
    BY <2>1, <2>2
<1>5. m + 1 <= n + 1
  BY <1>1
<1>6. IsTail(q, t)
  BY <1>2, <1>3, <1>4, <1>5, Zenon DEF IsTail
<1>7. IsTail(<< >>, s)
  BY <1>1 DEF IsTail
<1> QED
  BY <1>2, <1>3, <1>6, <1>7, Zenon

(* No event ends within p.                                                 *)
NoEnd(p) == \A i \in 1 .. Len(p) - 1 : ~(p[i] = Nl /\ p[i + 1] = Nl)

(* Where p, the rest of s, begins.                                         *)
AtLine(p, s) == Len(p) = Len(s) \/ s[Len(s) - Len(p)] = Nl

(* Of the event that is being read as much is observed as a reader of      *)
(* every line would: an event has one line of data.                        *)
LEMMA SeeGrows ==
  ASSUME NEW V, NEW p \in Seq(V), NEW s \in Seq(V), NEW x \in V, OneDataLine(Append(s, x)),
         IsTail(p, s), NoEnd(p), AtLine(p, s)
  PROVE  see(Append(p, x)) = see(p) \o Observed(x)
<1>1. PICK n \in Nat, m \in Nat : n = Len(s) /\ m = Len(p) /\ m <= n /\ \A i \in 1 .. m : p[i] = s[n - m + i]
  BY LenProperties DEF IsTail
<1>2. PICK t : t = Append(s, x) /\ Len(t) = n + 1 /\ t[n + 1] = x /\ (\A i \in 1 .. n : t[i] = s[i])
               /\ DOMAIN t = 1 .. n + 1
  <2>1. /\ Len(Append(s, x)) = n + 1 /\ Append(s, x)[n + 1] = x /\ \A i \in 1 .. n : Append(s, x)[i] = s[i]
        /\ Append(s, x) \in Seq(V)
    BY <1>1, AppendProperties
  <2>2. DOMAIN Append(s, x) = 1 .. n + 1
    BY <2>1, LenProperties
  <2> QED
    BY <2>1, <2>2, Zenon
<1>3. PICK q : q = Append(p, x) /\ Len(q) = m + 1 /\ q[m + 1] = x /\ (\A i \in 1 .. m : q[i] = p[i]) /\ q \in Seq(V)
  <2>1. /\ Len(Append(p, x)) = m + 1 /\ Append(p, x)[m + 1] = x /\ \A i \in 1 .. m : Append(p, x)[i] = p[i]
        /\ Append(p, x) \in Seq(V)
    BY <1>1, AppendProperties
  <2> QED
    BY <2>1, Zenon
<1>4. \A i \in 1 .. n + 1 : IsPayload(t[i]) => i > 1 /\ t[i - 1] = Prefix /\ (i > 2 => t[i - 2] = Nl)
  BY <1>2, Zenon DEF OneDataLine, PayloadEndsEvent
<1>5. \A i \in 1 .. m : i \in 1 .. m - 1 => ~(p[i] = Nl /\ p[i + 1] = Nl)
  BY <1>1 DEF NoEnd
<1>6. DataLines(p) = {i \in 1 .. m - 1 : (i = 1 \/ p[i - 1] = Nl) /\ p[i] = Prefix /\ p[i + 1] # Nl}
  BY <1>1, Zenon DEF DataLines
<1>7. DataLines(q) = {i \in 1 .. (m + 1) - 1 : (i = 1 \/ q[i - 1] = Nl) /\ q[i] = Prefix /\ q[i + 1] # Nl}
  BY <1>3, Zenon DEF DataLines
<1>8. DataLines(p) = {i \in DataLines(q) : i # m}
  <2>1. \A i \in 1 .. m - 1 : q[i] = p[i] /\ q[i + 1] = p[i + 1] /\ (i # 1 => q[i - 1] = p[i - 1])
    BY <1>3
  <2>2. \A i : i \in 1 .. m - 1 <=> i \in 1 .. (m + 1) - 1 /\ i # m
    OBVIOUS
  <2> QED
    BY <1>6, <1>7, <2>1, <2>2, Zenon
<1>9. ASSUME IsPayload(x)
       PROVE  m \in DataLines(q)
  <2>1. n + 1 > 1 /\ t[n] = Prefix /\ (n + 1 > 2 => t[n - 1] = Nl)
    <3>1. n + 1 \in 1 .. n + 1 /\ (n + 1) - 1 = n /\ (n + 1) - 2 = n - 1
      OBVIOUS
    <3> QED
      BY <1>2, <1>4, <1>9, <3>1, Zenon
  <2>2. s[n] = Prefix /\ (n > 1 => s[n - 1] = Nl)
    BY <1>2, <2>1
  <2>3. m >= 1
    <3>1. SUFFICES ASSUME m = 0
                   PROVE  FALSE
      OBVIOUS
    <3>2. s[n] = Nl
      BY <1>1, <2>1, <3>1 DEF AtLine
    <3> QED
      BY <2>2, <3>2, Symbols
  <2>4. p[m] = Prefix /\ (m > 1 => p[m - 1] = Nl)
    BY <1>1, <2>2, <2>3
  <2>5. x # Nl
    BY <1>9, Symbols
  <2> QED
    <3>1. m \in 1 .. (m + 1) - 1 /\ (m # 1 => m > 1 /\ m - 1 \in 1 .. m) /\ m \in 1 .. m
      BY <2>3
    <3> QED
      BY <1>3, <1>7, <2>4, <2>5, <3>1, Zenon
<1>10. CASE m \notin DataLines(q)
  <2>1. DataLines(q) = DataLines(p)
    BY <1>8, <1>10, Zenon
  <2>2. eventPayload(q) = eventPayload(p)
    <3>1. CASE DataLines(p) = {}
      BY <2>1, <3>1, Zenon DEF eventPayload
    <3>2. CASE DataLines(p) # {}
      <4>1. Min(DataLines(p)) \in DataLines(p)
        BY <3>2, EventsType
      <4>2. Min(DataLines(p)) + 1 \in 1 .. m
        BY <1>6, <4>1
      <4>3. q[Min(DataLines(p)) + 1] = p[Min(DataLines(p)) + 1]
        BY <1>3, <4>2, Zenon
      <4>4. eventPayload(p) = <<p[Min(DataLines(p)) + 1]>>
        BY <3>2, Zenon DEF eventPayload
      <4>5. eventPayload(q) = <<q[Min(DataLines(q)) + 1]>>
        BY <2>1, <3>2, Zenon DEF eventPayload
      <4> QED
        BY <2>1, <4>3, <4>4, <4>5, Zenon
    <3> QED
      BY <3>1, <3>2
  <2>3. see(q) = see(p)
    BY <2>2, Zenon DEF see
  <2>4. Observed(x) = << >>
    <3>1. CASE ~IsPayload(x)
      BY <3>1 DEF Observed
    <3>2. CASE IsPayload(x)
      BY <1>10, <1>9, <3>2
    <3> QED
      BY <3>1, <3>2
  <2>5. see(p) \o << >> = see(p)
    BY EventsType, ConcatEmptySeq
  <2> QED
    BY <1>3, <2>3, <2>4, <2>5, Zenon
<1>11. CASE m \in DataLines(q)
  <2>1. m \in 1 .. m /\ p[m] = Prefix
    <3>1. m \in 1 .. (m + 1) - 1 /\ q[m] = Prefix
      BY <1>7, <1>11, Zenon
    <3> QED
      BY <1>3, <3>1
  <2>2. DataLines(p) = {}
    <3> SUFFICES ASSUME NEW i \in DataLines(p)
                 PROVE  FALSE
      OBVIOUS
    <3>1. i \in 1 .. m - 1 /\ p[i] = Prefix
      BY <1>6
    <3>2. /\ i \in 1 .. m /\ n - m + i \in 1 .. n + 1 /\ n - m + i \in 1 .. n /\ n - m + i < n
          /\ n - m + m = n /\ n \in 1 .. n + 1 /\ n \in 1 .. n
      BY <1>1, <2>1, <3>1
    <3>3. t[n - m + i] = Prefix /\ t[n] = Prefix
      BY <1>1, <1>2, <2>1, <3>1, <3>2, Zenon
    <3>4. PICK k \in n - m + i .. n - 1 : t[k] = Nl /\ t[k + 1] = Nl
      BY <1>2, <3>2, <3>3, Zenon DEF OneDataLine, DataLinesApart
    <3>5. PICK j \in 1 .. m - 1 : k = n - m + j
      <4>1. k - (n - m) \in 1 .. m - 1 /\ k = n - m + (k - (n - m))
        BY <1>1, <3>1, <3>4
      <4> QED
        BY <4>1
    <3>6. /\ j \in 1 .. m /\ j + 1 \in 1 .. m /\ n - m + j \in 1 .. n /\ n - m + (j + 1) \in 1 .. n
          /\ k + 1 = n - m + (j + 1)
      BY <1>1, <3>5
    <3>7. p[j] = Nl /\ p[j + 1] = Nl
      BY <1>1, <1>2, <3>4, <3>5, <3>6, Zenon
    <3> QED
      BY <1>5, <3>5, <3>6, <3>7, Zenon
  <2>3. DataLines(q) = {m}
    BY <1>8, <1>11, <2>2, Zenon
  <2>4. Min(DataLines(q)) = m
    <3>1. DataLines(q) # {} /\ Min(DataLines(q)) \in DataLines(q)
      BY <1>3, <2>3, EventsType
    <3> QED
      BY <2>3, <3>1, Zenon
  <2>5. eventPayload(q) = <<x>>
    BY <1>3, <2>3, <2>4, Zenon DEF eventPayload
  <2>6. see(q) = Observed(x)
    BY <2>5, PayloadsOf, Zenon DEF see
  <2>7. see(p) = << >>
    BY <2>2, PayloadsOf, Zenon DEF see, eventPayload
  <2>8. << >> \o Observed(x) = Observed(x)
    <3>1. Observed(x) \in Seq(V)
      BY DEF Observed
    <3> QED
      BY <3>1, ConcatEmptySeq
  <2> QED
    BY <1>3, <2>6, <2>7, <2>8, Zenon
<1> QED
  BY <1>10, <1>11

(* A stream that is cut has no more lines of data in an event than it had. *)
LEMMA OneDataLineBefore ==
  ASSUME NEW V, NEW s \in Seq(V), NEW x \in V, OneDataLine(Append(s, x))
  PROVE  OneDataLine(s)
<1>1. PICK n \in Nat : n = Len(s) /\ DOMAIN s = 1 .. n
  BY LenProperties
<1>2. PICK t : t = Append(s, x) /\ Len(t) = n + 1 /\ (\A i \in 1 .. n : t[i] = s[i]) /\ DOMAIN t = 1 .. n + 1
  <2>1. /\ Len(Append(s, x)) = n + 1 /\ \A i \in 1 .. n : Append(s, x)[i] = s[i]
        /\ Append(s, x) \in Seq(V)
    BY <1>1, AppendProperties
  <2>2. DOMAIN Append(s, x) = 1 .. n + 1
    BY <2>1, LenProperties
  <2> QED
    BY <2>1, <2>2, Zenon
<1>3. \A i \in 1 .. n + 1 : IsPayload(t[i]) =>
         /\ i > 1 /\ t[i - 1] = Prefix
         /\ i > 2 => t[i - 2] = Nl
         /\ \A j \in {i + 1, i + 2} : j <= n + 1 => t[j] = Nl
  BY <1>2, Zenon DEF OneDataLine, PayloadEndsEvent
<1>4. ASSUME NEW i \in 1 .. n, IsPayload(s[i])
      PROVE  /\ i > 1 /\ s[i - 1] = Prefix
             /\ i > 2 => s[i - 2] = Nl
             /\ \A j \in {i + 1, i + 2} : j <= n => s[j] = Nl
  <2>1. i \in 1 .. n + 1 /\ IsPayload(t[i])
    BY <1>2, <1>4
  <2>2. i > 1 /\ t[i - 1] = Prefix /\ (i > 2 => t[i - 2] = Nl)
    BY <1>3, <2>1
  <2>3. \A j \in {i + 1, i + 2} : j <= n => t[j] = Nl
    BY <1>3, <2>1
  <2> QED
    BY <1>2, <2>2, <2>3
<1>5. ASSUME NEW i \in 1 .. n, NEW j \in 1 .. n, i < j, s[i] = Prefix, s[j] = Prefix
      PROVE  \E k \in i .. j - 1 : s[k] = Nl /\ s[k + 1] = Nl
  <2>1. i \in 1 .. n + 1 /\ j \in 1 .. n + 1 /\ t[i] = Prefix /\ t[j] = Prefix
    BY <1>2, <1>5
  <2>2. PICK k \in i .. j - 1 : t[k] = Nl /\ t[k + 1] = Nl
    BY <1>2, <1>5, <2>1, Zenon DEF OneDataLine, DataLinesApart
  <2>3. k \in 1 .. n /\ k + 1 \in 1 .. n
    BY <2>2
  <2> QED
    BY <1>2, <2>2, <2>3, Zenon
<1> QED
  BY <1>1, <1>4, <1>5, Zenon DEF OneDataLine, PayloadEndsEvent, DataLinesApart

(* Where the reading of s has got to, and what was observed by then.       *)
BlocksOf(s) ==
  LET p == Pieces(s, eventSeparator).rest
  IN  /\ IsTail(p, s) /\ NoEnd(p) /\ AtLine(p, s)
      /\ Seen(Pieces(s, eventSeparator).whole) \o see(p) = Payloads(s)

(* All the events and what is left of the last one carry the payloads of   *)
(* the stream: none is missed and none comes twice (eventPayload,          *)
(* sawEvents).                                                             *)
LEMMA BlocksSeen ==
  ASSUME NEW V, NEW s \in Seq(V), OneDataLine(s)
  PROVE  Seen(Pieces(s, eventSeparator).whole) \o see(Pieces(s, eventSeparator).rest) = Payloads(s)
<1> DEFINE P == {u \in Seq(V) : OneDataLine(u) => BlocksOf(u)}
<1>0. << >> \in Seq(V) /\ see(<< >>) = << >> /\ << >> \o << >> = << >> /\ see(<< >>) \in Seq(V)
  <2>1. eventPayload(<< >>) = << >>
    <3>1. DataLines(<< >>) = {}
      BY DEF DataLines
    <3> QED
      BY <3>1, Zenon DEF eventPayload
  <2>2. << >> \in Seq(V) /\ << >> \o << >> = << >>
    BY EmptySeq, ConcatEmptySeq
  <2> QED
    BY <2>1, <2>2, PayloadsOf, Zenon DEF see
<1>1. << >> \in P
  <2>1. Pieces(<< >>, eventSeparator).whole = << >> /\ Pieces(<< >>, eventSeparator).rest = << >>
    BY PiecesEmpty DEF NoCut
  <2>2. IsTail(<< >>, << >>) /\ NoEnd(<< >>) /\ AtLine(<< >>, << >>)
    BY DEF IsTail, NoEnd, AtLine
  <2>3. Seen(<< >>) = << >> /\ Payloads(<< >>) = << >>
    BY SeenOf, PayloadsOf, Zenon
  <2>4. BlocksOf(<< >>)
    BY <1>0, <2>1, <2>2, <2>3, Zenon DEF BlocksOf
  <2> QED
    BY <1>0, <2>4
<1>2. ASSUME NEW u \in P, NEW x \in V
      PROVE  Append(u, x) \in P
  <2>1. u \in Seq(V) /\ Append(u, x) \in Seq(V)
    BY AppendProperties
  <2> SUFFICES ASSUME OneDataLine(Append(u, x))
               PROVE  BlocksOf(Append(u, x))
    BY <2>1
  <2>2. PICK c, p : c = Pieces(u, eventSeparator) /\ p = c.rest
    OBVIOUS
  <2>3. c.whole \in Seq(Seq(V)) /\ p \in Seq(V)
    BY <2>1, <2>2, PiecesType, Zenon
  <2>4. IsTail(p, u) /\ NoEnd(p) /\ AtLine(p, u) /\ Seen(c.whole) \o see(p) = Payloads(u)
    <3>1. OneDataLine(u)
      BY <2>1, OneDataLineBefore
    <3>2. BlocksOf(u)
      BY <3>1
    <3> QED
      BY <2>2, <3>2, Zenon DEF BlocksOf
  <2>5. Pieces(Append(u, x), eventSeparator) = Cut(c, x, eventSeparator)
    BY <2>1, <2>2, PiecesAppend, Zenon
  <2>6. see(Append(p, x)) = see(p) \o Observed(x)
    BY <2>1, <2>3, <2>4, SeeGrows
  <2>7. Payloads(Append(u, x)) = Payloads(u) \o Observed(x)
    BY <2>1, PayloadsOf
  <2>8. IsTail(Append(p, x), Append(u, x)) /\ IsTail(<< >>, Append(u, x))
    <3>1. p \in Seq(V) /\ u \in Seq(V) /\ IsTail(p, u)
      BY <2>1, <2>3, <2>4
    <3>2. ASSUME NEW v \in Seq(V), NEW w \in Seq(V), IsTail(v, w)
          PROVE  IsTail(Append(v, x), Append(w, x)) /\ IsTail(<< >>, Append(w, x))
      <4>1. /\ Append(w, x) \in Seq(V) /\ Append(v, x) \in Seq(V)
            /\ IsTail(Append(v, x), Append(w, x))
        BY <3>2, TailGrows, AppendProperties
      <4>2. IsTail(<< >>, Append(w, x))
        BY <4>1, TailGrows
      <4> QED
        BY <4>1, <4>2
    <3> QED
      BY <3>1, <3>2, Zenon
  <2>9. Seen(c.whole) \o see(Append(p, x)) = Payloads(Append(u, x))
    <3>1. Associates(V)
      BY SeqJoins, Zenon
    <3>2. Seen(c.whole) \in Seq(V) /\ see(p) \in Seq(V) /\ Observed(x) \in Seq(V)
      <4>1. Observed(x) \in Seq(V)
        BY DEF Observed
      <4>2. see(p) \in Seq(V)
        BY <2>3, EventsType, Zenon
      <4>3. Seen(c.whole) \in Seq(V)
        BY <2>3, SeenOf, Zenon
      <4> QED
        BY <4>1, <4>2, <4>3
    <3>3. (Seen(c.whole) \o see(p)) \o Observed(x) = Seen(c.whole) \o (see(p) \o Observed(x))
      BY <3>1, <3>2, Zenon DEF Associates
    <3> QED
      BY <2>4, <2>6, <2>7, <3>3, Zenon
  <2>10. PICK q, t : q = Append(p, x) /\ t = Append(u, x)
    OBVIOUS
  <2>11. /\ Len(q) = Len(p) + 1 /\ q[Len(q)] = x /\ (\A i \in 1 .. Len(p) : q[i] = p[i]) /\ q \in Seq(V)
         /\ Len(t) = Len(u) + 1 /\ t[Len(t)] = x /\ (\A i \in 1 .. Len(u) : t[i] = u[i]) /\ t \in Seq(V)
         /\ Len(p) \in Nat /\ Len(u) \in Nat /\ Len(p) <= Len(u)
    <3>1. Len(q) = Len(p) + 1 /\ q[Len(p) + 1] = x /\ (\A i \in 1 .. Len(p) : q[i] = p[i]) /\ q \in Seq(V)
      BY <2>3, <2>10, AppendProperties
    <3>2. Len(t) = Len(u) + 1 /\ t[Len(u) + 1] = x /\ (\A i \in 1 .. Len(u) : t[i] = u[i]) /\ t \in Seq(V)
      BY <2>1, <2>10, AppendProperties
    <3>3. Len(p) \in Nat /\ Len(u) \in Nat /\ Len(p) <= Len(u)
      BY <2>1, <2>3, <2>4, LenProperties DEF IsTail
    <3> QED
      BY <3>1, <3>2, <3>3, Zenon
  <2>12. CASE EndsWith(q, eventSeparator)
    <3>1. Cut(c, x, eventSeparator) = [whole |-> Append(c.whole, q), rest |-> << >>]
      BY <2>2, <2>10, <2>12, CutIs, Zenon
    <3>2. Pieces(t, eventSeparator).whole = Append(c.whole, q) /\ Pieces(t, eventSeparator).rest = << >>
      BY <2>5, <2>10, <3>1
    <3>3. IsTail(<< >>, t) /\ NoEnd(<< >>)
      BY <2>8, <2>10 DEF NoEnd
    <3>4. AtLine(<< >>, t)
      <4>1. t[Len(t)] = Nl
        BY <2>11, <2>12, Ends
      <4>2. Len(<< >>) = 0 /\ Len(t) - 0 = Len(t)
        BY <2>11
      <4> QED
        BY <4>1, <4>2, Zenon DEF AtLine
    <3>5. Seen(Append(c.whole, q)) \o << >> = Payloads(t)
      <4>1. Seen(Append(c.whole, q)) = Seen(c.whole) \o see(q)
        BY <2>3, <2>11, SeenOf, Zenon
      <4>2. Payloads(t) \in Seq(V)
        BY <2>11, PayloadsOf, Zenon
      <4>3. Payloads(t) \o << >> = Payloads(t)
        BY <4>2, ConcatEmptySeq
      <4> QED
        BY <2>9, <2>10, <4>1, <4>3, Zenon
    <3> QED
      BY <1>0, <2>10, <3>2, <3>3, <3>4, <3>5, Zenon DEF BlocksOf
  <2>13. CASE ~EndsWith(q, eventSeparator)
    <3>1. Cut(c, x, eventSeparator) = [whole |-> c.whole, rest |-> q]
      BY <2>2, <2>10, <2>13, CutIs, Zenon
    <3>2. Pieces(t, eventSeparator).whole = c.whole /\ Pieces(t, eventSeparator).rest = q
      BY <2>5, <2>10, <3>1
    <3>3. NoEnd(q)
      <4>1. ~(Len(q) >= 2 /\ q[Len(q)] = Nl /\ q[Len(q) - 1] = Nl)
        BY <2>11, <2>13, Ends
      <4>2. PICK m \in Nat : m = Len(p) /\ Len(q) = m + 1
        BY <2>11
      <4>3. \A i \in 1 .. m - 1 : ~(p[i] = Nl /\ p[i + 1] = Nl)
        BY <2>4, <4>2, Zenon DEF NoEnd
      <4>4. ASSUME NEW i \in 1 .. m
            PROVE  ~(q[i] = Nl /\ q[i + 1] = Nl)
        <5>1. CASE i = m
          <6>1. m + 1 >= 2 /\ (m + 1) - 1 = m
            BY <4>4, <5>1
          <6> QED
            BY <4>1, <4>2, <5>1, <6>1, Zenon
        <5>2. CASE i # m
          <6>1. i \in 1 .. m - 1 /\ i \in 1 .. m /\ i + 1 \in 1 .. m
            BY <4>4, <5>2
          <6>2. q[i] = p[i] /\ q[i + 1] = p[i + 1]
            BY <2>11, <4>2, <6>1, Zenon
          <6> QED
            BY <4>3, <6>1, <6>2, Zenon
        <5> QED
          BY <5>1, <5>2
      <4>5. (m + 1) - 1 = m
        OBVIOUS
      <4> QED
        BY <4>2, <4>4, <4>5, Zenon DEF NoEnd
    <3>4. AtLine(q, t)
      <4>1. CASE Len(p) = Len(u)
        BY <2>11, <4>1 DEF AtLine
      <4>2. CASE Len(p) # Len(u)
        <5>1. u[Len(u) - Len(p)] = Nl
          BY <2>4, <4>2 DEF AtLine
        <5>2. Len(t) - Len(q) = Len(u) - Len(p) /\ Len(u) - Len(p) \in 1 .. Len(u)
          BY <2>11, <4>2
        <5> QED
          BY <2>11, <5>1, <5>2, Zenon DEF AtLine
      <4> QED
        BY <4>1, <4>2
    <3> QED
      BY <2>8, <2>9, <2>10, <3>2, <3>3, <3>4, Zenon DEF BlocksOf
  <2> QED
    BY <2>10, <2>12, <2>13
<1>3. P = Seq(V)
  <2> HIDE DEF P
  <2>1. P \in SUBSET Seq(V)
    BY DEF P
  <2> QED
    BY <1>1, <1>2, <2>1, FromEmpty
<1>4. BlocksOf(s)
  BY <1>3, Zenon
<1> QED
  BY <1>4, Zenon DEF BlocksOf

-----------------------------------------------------------------------------
(***************************************************************************)
(* What is observed of its lines.                                          *)
(***************************************************************************)

(* No line ends within p.                                                  *)
NoLineEnd(p) == \A i \in 1 .. Len(p) : p[i] # Nl

(* Where the cut line p begins: a line of s does, unless the beginning of  *)
(* a line was forgotten.                                                   *)
Begins(p, s) ==
  \/ Len(p) = Len(s)
  \/ s[Len(s) - Len(p)] = Nl
  \/ Len(s) - Len(p) >= 2 /\ s[Len(s) - Len(p)] # Nl /\ s[Len(s) - Len(p) - 1] # Nl

(* p is the line of s that has not ended.                                  *)
LineOf(p, s) == IsTail(p, s) /\ Uncut(p, lineEnd) /\ NoLineEnd(p) /\ Begins(p, s)

(* A payload follows a prefix, and that the end of a line.                 *)
LEMMA DataAt ==
  ASSUME NEW V, NEW s \in Seq(V), NEW x \in V, OneDataLine(Append(s, x)), Observed(x) # << >>
  PROVE  Len(s) >= 1 /\ s[Len(s)] = Prefix /\ (Len(s) > 1 => s[Len(s) - 1] = Nl)
<1>1. PICK n \in Nat : n = Len(s)
  BY LenProperties
<1>2. /\ Len(Append(s, x)) = n + 1 /\ Append(s, x)[n + 1] = x /\ (\A i \in 1 .. n : Append(s, x)[i] = s[i])
      /\ DOMAIN Append(s, x) = 1 .. n + 1
  <2>1. /\ Len(Append(s, x)) = n + 1 /\ Append(s, x)[n + 1] = x /\ (\A i \in 1 .. n : Append(s, x)[i] = s[i])
        /\ Append(s, x) \in Seq(V)
    BY <1>1, AppendProperties
  <2>2. DOMAIN Append(s, x) = 1 .. n + 1
    BY <2>1, LenProperties
  <2> QED
    BY <2>1, <2>2, Zenon
<1>3. IsPayload(x)
  BY Zenon DEF Observed
<1>4. n + 1 \in 1 .. n + 1 /\ (n + 1) - 1 = n /\ (n + 1) - 2 = n - 1
  OBVIOUS
<1>5. n + 1 > 1 /\ Append(s, x)[n] = Prefix /\ (n + 1 > 2 => Append(s, x)[n - 1] = Nl)
  BY <1>2, <1>3, <1>4, Zenon DEF OneDataLine, PayloadEndsEvent
<1> QED
  BY <1>1, <1>2, <1>5

(* Of the line that is being read a payload is observed when it has come.  *)
LEMMA HandleGrows ==
  ASSUME NEW V, NEW p \in Seq(V), NEW s \in Seq(V), NEW x \in V, OneDataLine(Append(s, x)),
         LineOf(p, s)
  PROVE  handleLine(Append(p, x)) = handleLine(p) \o Observed(x)
<1>1. PICK n \in Nat, m \in Nat : n = Len(s) /\ m = Len(p) /\ m <= n /\ \A i \in 1 .. m : p[i] = s[n - m + i]
  BY LenProperties DEF LineOf, IsTail
<1>2. \A i \in 1 .. m : p[i] # Nl
  BY <1>1, Zenon DEF LineOf, NoLineEnd
<1>3. PICK q : q = Append(p, x) /\ Len(q) = m + 1 /\ q[m + 1] = x /\ (\A i \in 1 .. m : q[i] = p[i])
  <2>1. /\ Len(Append(p, x)) = m + 1 /\ Append(p, x)[m + 1] = x /\ \A i \in 1 .. m : Append(p, x)[i] = p[i]
    BY <1>1, AppendProperties
  <2> QED
    BY <2>1, Zenon
<1>4. handleLine(p) \in Seq(V) /\ Observed(x) \in Seq(V)
  <2>1. Observed(x) \in Seq(V)
    BY DEF Observed
  <2> QED
    BY <2>1, LinesOf, Zenon
<1>5. handleLine(p) \o << >> = handleLine(p) /\ << >> \o Observed(x) = Observed(x)
  BY <1>4, ConcatEmptySeq
<1>6. Observed(x) # << >> => n >= 1 /\ s[n] = Prefix /\ (n > 1 => s[n - 1] = Nl)
  BY <1>1, DataAt
<1>7. CASE m >= 2
  <2>1. Observed(x) = << >>
    <3> SUFFICES ASSUME Observed(x) # << >>
                 PROVE  FALSE
      OBVIOUS
    <3>1. n > 1 /\ m - 1 \in 1 .. m /\ n - m + (m - 1) = n - 1
      BY <1>1, <1>7
    <3>2. p[m - 1] = Nl
      BY <1>1, <1>6, <3>1, Zenon
    <3> QED
      BY <1>2, <3>1, <3>2, Zenon
  <2>2. handleLine(q) = handleLine(p)
    <3>1. m + 1 >= 2 /\ 1 \in 1 .. m /\ 2 \in 1 .. m
      BY <1>7
    <3>2. q[1] = p[1] /\ q[2] = p[2] /\ Len(q) >= 2 /\ Len(p) >= 2
      BY <1>1, <1>3, <1>7, <3>1
    <3> QED
      BY <3>2, Zenon DEF handleLine
  <2> QED
    BY <1>3, <1>5, <2>1, <2>2, Zenon
<1>8. CASE m = 1
  <2>1. handleLine(p) = << >>
    BY <1>1, <1>8 DEF handleLine
  <2>2. Len(q) >= 2 /\ q[2] = x /\ q[1] = p[1] /\ p[1] = s[n]
    BY <1>1, <1>3, <1>8
  <2>3. handleLine(q) = Observed(x)
    <3>1. CASE Observed(x) = << >>
      BY <2>2, <3>1 DEF handleLine
    <3>2. CASE Observed(x) # << >>
      <4>1. q[1] = Prefix
        BY <1>6, <2>2, <3>2, Zenon
      <4> QED
        BY <2>2, <4>1, Zenon DEF handleLine
    <3> QED
      BY <3>1, <3>2
  <2> QED
    BY <1>3, <1>5, <2>1, <2>3, Zenon
<1>9. CASE m = 0
  <2>1. handleLine(p) = << >> /\ handleLine(q) = << >>
    <3>1. ~(Len(p) >= 2) /\ ~(Len(q) >= 2)
      BY <1>1, <1>3, <1>9
    <3> QED
      BY <3>1, Zenon DEF handleLine
  <2>2. Observed(x) = << >>
    <3> SUFFICES ASSUME Observed(x) # << >>
                 PROVE  FALSE
      OBVIOUS
    <3>1. n - m = n
      BY <1>9
    <3>2. Len(p) = Len(s) \/ s[n] = Nl \/ (n >= 2 /\ s[n] # Nl /\ s[n - 1] # Nl)
      BY <1>1, <3>1, Zenon DEF LineOf, Begins
    <3>3. Prefix # Nl
      BY Symbols
    <3>4. n >= 2 => n > 1
      OBVIOUS
    <3>5. Len(p) # Len(s)
      BY <1>1, <1>6, <1>9
    <3> QED
      BY <1>6, <3>2, <3>3, <3>4, <3>5, Zenon
  <2> QED
    BY <1>3, <1>5, <2>1, <2>2, Zenon
<1> QED
  BY <1>7, <1>8, <1>9

(* A line ends with its end, and goes on otherwise.                        *)
LEMMA LineGrows ==
  ASSUME NEW V, NEW p \in Seq(V), NEW s \in Seq(V), NEW x \in V, LineOf(p, s)
  PROVE  /\ x = Nl => EndsWith(Append(p, x), lineEnd) /\ LineOf(<< >>, Append(s, x))
         /\ x # Nl => ~EndsWith(Append(p, x), lineEnd) /\ LineOf(Append(p, x), Append(s, x))
<1>1. PICK n \in Nat, m \in Nat : n = Len(s) /\ m = Len(p) /\ m <= n
  BY LenProperties DEF LineOf, IsTail
<1>2. PICK q : /\ q = Append(p, x) /\ Len(q) = m + 1 /\ q[m + 1] = x /\ (\A i \in 1 .. m : q[i] = p[i])
               /\ q \in Seq(V)
  <2>1. /\ Len(Append(p, x)) = m + 1 /\ Append(p, x)[m + 1] = x /\ \A i \in 1 .. m : Append(p, x)[i] = p[i]
        /\ Append(p, x) \in Seq(V)
    BY <1>1, AppendProperties
  <2> QED
    BY <2>1, Zenon
<1>3. PICK t : /\ t = Append(s, x) /\ Len(t) = n + 1 /\ t[n + 1] = x /\ (\A i \in 1 .. n : t[i] = s[i])
               /\ t \in Seq(V)
  <2>1. /\ Len(Append(s, x)) = n + 1 /\ Append(s, x)[n + 1] = x /\ \A i \in 1 .. n : Append(s, x)[i] = s[i]
        /\ Append(s, x) \in Seq(V)
    BY <1>1, AppendProperties
  <2> QED
    BY <2>1, Zenon
<1>4. EndsWith(q, lineEnd) <=> x = Nl
  <2>1. EndsWith(q, lineEnd) <=> Len(q) >= 1 /\ q[Len(q)] = Nl
    BY <1>2, Ends
  <2>2. Len(q) >= 1 /\ q[Len(q)] = x
    BY <1>2
  <2> QED
    BY <2>1, <2>2, Zenon
<1>5. IsTail(q, t)
  BY <1>2, <1>3, TailGrows DEF LineOf
<1>6. IsTail(<< >>, t)
  BY <1>2, <1>3, <1>5, TailGrows
<1>7. ASSUME x = Nl
      PROVE  LineOf(<< >>, t)
  <2>1. t[Len(t) - Len(<< >>)] = Nl
    BY <1>3, <1>7
  <2>2. Uncut(<< >>, lineEnd)
    BY PiecesEmpty, Zenon DEF Uncut, NoCut
  <2>3. NoLineEnd(<< >>)
    BY DEF NoLineEnd
  <2> QED
    BY <1>6, <2>1, <2>2, <2>3, Zenon DEF LineOf, Begins
<1>8. ASSUME x # Nl
      PROVE  LineOf(q, t)
  <2>1. NoLineEnd(q)
    <3>1. \A i \in 1 .. m : p[i] # Nl
      BY <1>1, Zenon DEF LineOf, NoLineEnd
    <3>2. \A i \in 1 .. m + 1 : i \in 1 .. m \/ i = m + 1
      OBVIOUS
    <3> QED
      BY <1>2, <1>8, <3>1, <3>2, Zenon DEF NoLineEnd
  <2>2. Uncut(q, lineEnd)
    <3>1. Pieces(p, lineEnd) = [whole |-> << >>, rest |-> p]
      BY Zenon DEF LineOf, Uncut
    <3>2. PICK d : d = [whole |-> << >>, rest |-> p]
      OBVIOUS
    <3>3. d.rest = p /\ d.whole = << >>
      BY <3>2
    <3>4. Pieces(q, lineEnd) = Cut(d, x, lineEnd)
      BY <1>2, <3>1, <3>2, PiecesAppend, Zenon
    <3>5. Cut(d, x, lineEnd) = [whole |-> << >>, rest |-> q]
      BY <1>2, <1>4, <1>8, <3>3, CutIs, Zenon
    <3> QED
      BY <3>4, <3>5, Zenon DEF Uncut
  <2>3. Begins(q, t)
    <3>1. (n + 1) - (m + 1) = n - m /\ (m + 1 = n + 1 <=> m = n)
      BY <1>1
    <3>2. Len(p) = Len(s) \/ s[n - m] = Nl \/ (n - m >= 2 /\ s[n - m] # Nl /\ s[n - m - 1] # Nl)
      BY <1>1, Zenon DEF LineOf, Begins
    <3>3. CASE m = n
      BY <1>2, <1>3, <3>1, <3>3, Zenon DEF Begins
    <3>4. CASE m # n
      <4>1. n - m \in 1 .. n /\ (n - m >= 2 => n - m - 1 \in 1 .. n)
        BY <1>1, <3>4
      <4>2. t[n - m] = s[n - m] /\ (n - m >= 2 => t[n - m - 1] = s[n - m - 1])
        BY <1>3, <4>1, Zenon
      <4>3. t[n - m] = Nl \/ (n - m >= 2 /\ t[n - m] # Nl /\ t[n - m - 1] # Nl)
        BY <1>1, <3>2, <3>4, <4>2, Zenon
      <4> QED
        BY <1>2, <1>3, <3>1, <4>3, Zenon DEF Begins
    <3> QED
      BY <3>3, <3>4
  <2> QED
    BY <1>5, <2>1, <2>2, <2>3, Zenon DEF LineOf
<1> QED
  BY <1>2, <1>3, <1>4, <1>7, <1>8, Zenon

(* What was observed, and what will be of the line p, is all of s.         *)
Observes(evs, p, s) == evs \o handleLine(p) = Payloads(s)

(* What is observed keeps up with what is read.                            *)
LEMMA ObservesGrows ==
  ASSUME NEW V, NEW e \in Seq(V), NEW r \in Seq(V), NEW t \in Seq(V), NEW x \in V,
         LineOf(r, t), Observes(e, r, t), OneDataLine(Append(t, x))
  PROVE  Observes(e, Append(r, x), Append(t, x))
<1>1. handleLine(Append(r, x)) = handleLine(r) \o Observed(x)
  BY HandleGrows, Zenon
<1>2. Payloads(Append(t, x)) = Payloads(t) \o Observed(x)
  BY PayloadsOf, Zenon
<1>3. handleLine(r) \in Seq(V) /\ Observed(x) \in Seq(V)
  <2>1. Observed(x) \in Seq(V)
    BY DEF Observed
  <2> QED
    BY <2>1, LinesOf, Zenon
<1>4. (e \o handleLine(r)) \o Observed(x) = e \o (handleLine(r) \o Observed(x))
  BY <1>3, ConcatAssociative
<1> QED
  BY <1>1, <1>2, <1>4, Zenon DEF Observes

(* However a stream comes in, its payloads are observed a line at a time   *)
(* (scanEvents).                                                           *)
LEMMA LinesRead ==
  ASSUME NEW V, NEW p \in Seq(V), NEW s \in Seq(V), NEW b \in Seq(V), NEW evs \in Seq(V),
         LineOf(p, s), Observes(evs, p, s), OneDataLine(s \o b)
  PROVE  LET cut == Pieces(p \o b, lineEnd)
         IN  LineOf(cut.rest, s \o b) /\ Observes(evs \o handleLines(cut.whole), cut.rest, s \o b)
<1> DEFINE Whole(v) == Pieces(p \o v, lineEnd).whole
           Rest(v) == Pieces(p \o v, lineEnd).rest
           Done(v) == LineOf(Rest(v), s \o v) /\ Observes(evs \o handleLines(Whole(v)), Rest(v), s \o v)
           P == {v \in Seq(V) : OneDataLine(s \o v) => Done(v)}
<1>1. << >> \in P
  <2>1. p \o << >> = p /\ s \o << >> = s /\ evs \o << >> = evs /\ << >> \in Seq(V)
    BY ConcatEmptySeq, EmptySeq
  <2>2. Pieces(p, lineEnd) = [whole |-> << >>, rest |-> p]
    BY Zenon DEF LineOf, Uncut
  <2>3. Pieces(p, lineEnd).whole = << >> /\ Pieces(p, lineEnd).rest = p
    BY <2>2
  <2>4. handleLines(<< >>) = << >>
    BY LinesOf, Zenon
  <2> QED
    BY <2>1, <2>3, <2>4, Zenon
<1>2. ASSUME NEW v \in P, NEW x \in V
      PROVE  Append(v, x) \in P
  <2>1. v \in Seq(V) /\ Append(v, x) \in Seq(V) /\ s \o v \in Seq(V) /\ p \o v \in Seq(V)
    <3>1. v \in Seq(V)
      OBVIOUS
    <3> HIDE DEF P
    <3> QED
      BY <3>1, AppendProperties, ConcatProperties
  <2>2. s \o Append(v, x) = Append(s \o v, x) /\ p \o Append(v, x) = Append(p \o v, x)
    <3>1. Joins(V)
      BY SeqJoins, Zenon
    <3> QED
      BY <2>1, <3>1, Zenon DEF Joins
  <2> SUFFICES ASSUME OneDataLine(s \o Append(v, x))
               PROVE  Done(Append(v, x))
    BY <2>1
  <2>3. OneDataLine(Append(s \o v, x))
    BY <2>2, Zenon
  <2>4. Done(v)
    <3>1. OneDataLine(s \o v)
      BY <2>1, <2>3, OneDataLineBefore, Zenon
    <3> QED
      BY <3>1, Zenon
  <2> HIDE DEF P
  <2>5. PICK c, e, r, t : /\ c = Pieces(p \o v, lineEnd) /\ r = c.rest /\ e = evs \o handleLines(c.whole)
                          /\ t = s \o v
    OBVIOUS
  <2>6. c.whole \in Seq(Seq(V)) /\ r \in Seq(V)
    BY <2>1, <2>5, PiecesType, Zenon
  <2>7. LineOf(r, t) /\ Observes(e, r, t)
    BY <2>4, <2>5, Zenon
  <2>8. handleLines(c.whole) \in Seq(V)
    BY <2>6, LinesOf, Zenon
  <2>9. e \in Seq(V) /\ r \in Seq(V) /\ t \in Seq(V) /\ Append(r, x) \in Seq(V)
    <3>1. r \in Seq(V) /\ t \in Seq(V)
      BY <2>1, <2>5, <2>6, Zenon
    <3>2. e \in Seq(V)
      BY <2>5, <2>8, ConcatProperties, Zenon
    <3>3. \A u \in Seq(V) : Append(u, x) \in Seq(V)
      BY AppendProperties
    <3> QED
      BY <3>1, <3>2, <3>3, Zenon
  <2>12. Associates(V)
    BY SeqJoins, Zenon
  <2>13. Observes(e, Append(r, x), Append(t, x))
    BY <2>3, <2>5, <2>7, <2>9, ObservesGrows, Zenon
  <2>14. /\ x = Nl => EndsWith(Append(r, x), lineEnd) /\ LineOf(<< >>, Append(t, x))
         /\ x # Nl => ~EndsWith(Append(r, x), lineEnd) /\ LineOf(Append(r, x), Append(t, x))
    BY <2>7, <2>9, LineGrows, Zenon
  <2>15. Pieces(Append(p \o v, x), lineEnd) = Cut(c, x, lineEnd)
    BY <2>1, <2>5, PiecesAppend, Zenon
  <2>16. CASE x = Nl
    <3>1. Cut(c, x, lineEnd) = [whole |-> Append(c.whole, Append(r, x)), rest |-> << >>]
      BY <2>5, <2>14, <2>16, CutIs, Zenon
    <3>2. Whole(Append(v, x)) = Append(c.whole, Append(r, x)) /\ Rest(Append(v, x)) = << >>
      <4>1. Cut(c, x, lineEnd).whole = Append(c.whole, Append(r, x)) /\ Cut(c, x, lineEnd).rest = << >>
        BY <3>1
      <4> QED
        BY <2>2, <2>15, <4>1, Zenon
    <3>3. handleLines(Append(c.whole, Append(r, x))) = handleLines(c.whole) \o handleLine(Append(r, x))
      BY <2>6, <2>9, LinesOf, Zenon
    <3>4. handleLine(Append(r, x)) \in Seq(V)
      BY <2>9, LinesOf, Zenon
    <3>5. (evs \o handleLines(c.whole)) \o handleLine(Append(r, x)) = evs \o (handleLines(c.whole) \o handleLine(Append(r, x)))
      BY <2>8, <2>12, <3>4, Zenon DEF Associates
    <3>6. handleLine(<< >>) = << >>
      BY DEF handleLine
    <3>7. Payloads(Append(t, x)) \o << >> = Payloads(Append(t, x))
      <4>1. Append(t, x) \in Seq(V)
        BY <2>9, AppendProperties
      <4>2. Payloads(Append(t, x)) \in Seq(V)
        BY <4>1, PayloadsOf, Zenon
      <4> QED
        BY <4>2, ConcatEmptySeq
    <3>8. Observes(evs \o handleLines(Append(c.whole, Append(r, x))), << >>, Append(t, x))
      BY <2>5, <2>13, <3>3, <3>5, <3>6, <3>7, Zenon DEF Observes
    <3> QED
      BY <2>2, <2>5, <2>14, <2>16, <3>2, <3>8, Zenon
  <2>17. CASE x # Nl
    <3>1. Cut(c, x, lineEnd) = [whole |-> c.whole, rest |-> Append(r, x)]
      BY <2>5, <2>14, <2>17, CutIs, Zenon
    <3>2. Whole(Append(v, x)) = c.whole /\ Rest(Append(v, x)) = Append(r, x)
      <4>1. Cut(c, x, lineEnd).whole = c.whole /\ Cut(c, x, lineEnd).rest = Append(r, x)
        BY <3>1
      <4> QED
        BY <2>2, <2>15, <4>1, Zenon
    <3> QED
      BY <2>2, <2>5, <2>13, <2>14, <2>17, <3>2, Zenon
  <2> QED
    BY <2>16, <2>17
<1>3. P = Seq(V)
  <2> HIDE DEF P
  <2>1. P \in SUBSET Seq(V)
    BY DEF P
  <2> QED
    BY <1>1, <1>2, <2>1, FromEmpty
<1> QED
  BY <1>3, Zenon

(* A line too long to be kept has no payload: none is lost when it is      *)
(* forgotten (maxObservedBytes).                                           *)
LEMMA LineForgotten ==
  ASSUME NEW V, NEW p \in Seq(V), NEW s \in Seq(V), NEW evs \in Seq(V),
         LineOf(p, s), Observes(evs, p, s), OneDataLine(s), Len(p) > 2
  PROVE  LineOf(<< >>, s) /\ Observes(evs, << >>, s)
<1>1. PICK n \in Nat, m \in Nat : n = Len(s) /\ m = Len(p) /\ m <= n /\ \A i \in 1 .. m : p[i] = s[n - m + i]
  BY LenProperties DEF LineOf, IsTail
<1>2. \A i \in 1 .. m : p[i] # Nl
  BY <1>1, Zenon DEF LineOf, NoLineEnd
<1>3. m >= 3 /\ DOMAIN s = 1 .. n
  BY <1>1, LenProperties
<1>4. handleLine(p) = << >>
  <2>1. ~IsPayload(p[2])
    <3> SUFFICES ASSUME IsPayload(p[2])
                 PROVE  FALSE
      OBVIOUS
    <3>1. 2 \in 1 .. m /\ 3 \in 1 .. m /\ n - m + 2 \in 1 .. n /\ (n - m + 2) + 1 = n - m + 3 /\ n - m + 3 <= n
      BY <1>1, <1>3
    <3>2. IsPayload(s[n - m + 2])
      BY <1>1, <3>1, Zenon
    <3>3. s[n - m + 3] = Nl
      <4>1. \A i \in 1 .. n : IsPayload(s[i]) => \A j \in {i + 1, i + 2} : j <= n => s[j] = Nl
        BY <1>1, <1>3, Zenon DEF OneDataLine, PayloadEndsEvent
      <4>2. \A j \in {(n - m + 2) + 1, (n - m + 2) + 2} : j <= n => s[j] = Nl
        BY <3>1, <3>2, <4>1, Zenon
      <4> QED
        BY <3>1, <4>2, Zenon
    <3>4. p[3] = Nl
      BY <1>1, <3>1, <3>3, Zenon
    <3> QED
      BY <1>2, <3>1, <3>4, Zenon
  <2> QED
    BY <2>1, Zenon DEF handleLine, Observed
<1>5. handleLine(<< >>) = << >>
  BY DEF handleLine
<1>6. Observes(evs, << >>, s)
  BY <1>4, <1>5, Zenon DEF Observes
<1>7. IsTail(<< >>, s) /\ NoLineEnd(<< >>)
  BY <1>1 DEF IsTail, NoLineEnd
<1>8. Uncut(<< >>, lineEnd)
  BY PiecesEmpty, Zenon DEF Uncut, NoCut
<1>9. Begins(<< >>, s)
  <2>1. m \in 1 .. m /\ m - 1 \in 1 .. m /\ n - m + m = n /\ n - m + (m - 1) = n - 1 /\ n >= 2
    BY <1>1, <1>3
  <2>2. s[n] # Nl /\ s[n - 1] # Nl
    BY <1>1, <1>2, <2>1, Zenon
  <2>3. Len(s) - Len(<< >>) = n
    BY <1>1
  <2> QED
    BY <2>1, <2>2, <2>3, Zenon DEF Begins
<1> QED
  BY <1>6, <1>7, <1>8, <1>9, Zenon DEF LineOf

-----------------------------------------------------------------------------
(***************************************************************************)
(* The reader, when nothing is withheld.                                   *)
(***************************************************************************)

(* A reader, Q being the sequences its fields hold.                        *)
ReaderOf(Q) ==
  [upstream : Q, streaming : BOOLEAN, filtering : BOOLEAN, pending : Q, out : Q, srcErr : Errs,
   body : Q, truncated : BOOLEAN, events : Q, done : {"no", "complete", "cut"}, received : Q,
   ended : BOOLEAN, closed : BOOLEAN]

(* The fields of a reader.                                                 *)
LEMMA ReaderFields ==
  ASSUME NEW Q, NEW r \in ReaderOf(Q)
  PROVE  /\ r.upstream \in Q /\ r.streaming \in BOOLEAN /\ r.filtering \in BOOLEAN /\ r.pending \in Q /\ r.out \in Q
         /\ r.srcErr \in Errs /\ r.body \in Q /\ r.truncated \in BOOLEAN /\ r.events \in Q
         /\ r.done \in {"no", "complete", "cut"} /\ r.received \in Q /\ r.ended \in BOOLEAN /\ r.closed \in BOOLEAN
BY DEF ReaderOf

(* x has come from r to where u is still to come.                          *)
Along(x, r, u) == x.upstream = u /\ x.streaming = r.streaming /\ x.filtering = r.filtering

(* What a read that withholds nothing assigns.                             *)
Passing(r, u, pend, tr, evs, bod, rec, e) ==
  [r EXCEPT !.upstream = u, !.pending = pend, !.truncated = tr, !.events = evs, !.body = bod,
            !.received = rec, !.ended = e]

(* To what.                                                                *)
PassTypes(Q, r, u, pend, evs, bod, rec, tr, e) ==
  /\ r \in ReaderOf(Q) /\ u \in Q /\ pend \in Q /\ evs \in Q /\ bod \in Q /\ rec \in Q
  /\ tr \in BOOLEAN /\ e \in BOOLEAN

(* With what outcome.                                                      *)
Passed(x, r, u, pend, tr, evs, bod, rec, e) ==
  /\ x.upstream = u /\ x.streaming = r.streaming /\ x.filtering = r.filtering /\ x.pending = pend /\ x.out = r.out
  /\ x.srcErr = r.srcErr /\ x.body = bod /\ x.truncated = tr /\ x.events = evs /\ x.done = r.done
  /\ x.received = rec /\ x.ended = e /\ x.closed = r.closed

(* The fields after a read that withholds nothing.                         *)
LEMMA PassingFields ==
  ASSUME NEW Q, NEW r, NEW u, NEW pend, NEW tr, NEW evs, NEW bod, NEW rec, NEW e,
         PassTypes(Q, r, u, pend, evs, bod, rec, tr, e)
  PROVE  /\ Passing(r, u, pend, tr, evs, bod, rec, e) \in ReaderOf(Q)
         /\ Passed(Passing(r, u, pend, tr, evs, bod, rec, e), r, u, pend, tr, evs, bod, rec, e)
BY DEF ReaderOf, Passing, PassTypes, Passed

(* x is r after onDone.                                                    *)
Finished(x, r, complete) ==
  /\ x.upstream = r.upstream /\ x.streaming = r.streaming /\ x.filtering = r.filtering /\ x.pending = r.pending
  /\ x.out = r.out /\ x.srcErr = r.srcErr /\ x.body = r.body /\ x.truncated = r.truncated /\ x.events = r.events
  /\ x.received = r.received /\ x.ended = r.ended /\ x.closed = r.closed
  /\ x.done = IF r.done # "no" THEN r.done ELSE IF complete THEN "complete" ELSE "cut"

(* The fields after onDone: only the first outcome counts (finish).        *)
LEMMA FinishFields ==
  ASSUME NEW Q, NEW r \in ReaderOf(Q), NEW complete \in BOOLEAN
  PROVE  finish(r, complete) \in ReaderOf(Q) /\ Finished(finish(r, complete), r, complete)
BY DEF ReaderOf, finish, Finished

(* x is r after a read of b.                                               *)
Handed(r, u, b, e) == [observe([r EXCEPT !.upstream = u], b) EXCEPT !.received = @ \o b, !.ended = e]

(* The caps.                                                               *)
Over(r) == Len(r.pending) > MaxObserved
CutLine(r) == IF Over(r) THEN << >> ELSE r.pending
OverBody(r, b) == ~r.truncated /\ Len(r.body) + Len(b) > MaxObserved
BodyOf(r, b) == IF r.truncated THEN r.body ELSE IF OverBody(r, b) THEN << >> ELSE r.body \o b

(* What a read of a stream that nothing is withheld of assigns (Read,      *)
(* scanEvents).                                                            *)
LEMMA ScanPasses ==
  ASSUME NEW Q, NEW r \in ReaderOf(Q), NEW u, NEW b, NEW e, r.streaming
  PROVE  Handed(r, u, b, e)
           = Passing(r, u, Pieces(CutLine(r) \o b, lineEnd).rest, r.truncated \/ Over(r),
                     r.events \o handleLines(Pieces(CutLine(r) \o b, lineEnd).whole), r.body, r.received \o b, e)
BY DEF ReaderOf, Passing, observe, scanEvents, Handed, Over, CutLine

(* What a read of a body assigns (Read, observe).                          *)
LEMMA BodyPasses ==
  ASSUME NEW Q, NEW r \in ReaderOf(Q), NEW u, NEW b, NEW e, ~r.streaming
  PROVE  Handed(r, u, b, e)
           = Passing(r, u, r.pending, r.truncated \/ OverBody(r, b), r.events, BodyOf(r, b), r.received \o b, e)
BY DEF ReaderOf, Passing, observe, accumulate, Handed, OverBody, BodyOf

(* What the end of a response adds (flush).                                *)
LEMMA FlushPasses ==
  ASSUME NEW Q, NEW r \in ReaderOf(Q)
  PROVE  /\ r.streaming => flush(r) = Passing(r, r.upstream, << >>, r.truncated, r.events \o handleLine(r.pending),
                                             r.body, r.received, r.ended)
         /\ ~r.streaming => flush(r) = Passing(r, r.upstream, r.pending, r.truncated,
                                              r.events \o (IF r.truncated THEN << >> ELSE Payloads(r.body)),
                                              r.body, r.received, r.ended)
BY DEF ReaderOf, Passing, flush

(* What a reader that withholds nothing has made of s, what it read.       *)
PassedOn(r, s) ==
  /\ r.received = s /\ r.out = << >> /\ r.srcErr = "none"
  /\ r.streaming => Observes(r.events, r.pending, s) /\ (~r.ended => LineOf(r.pending, s))
  /\ ~r.streaming => /\ r.truncated \/ r.body = s
                     /\ r.events \in {<< >>, Payloads(s)}
                     /\ ~r.ended => r.events = << >>
  /\ r.done = "complete" =>
       /\ r.ended /\ r.upstream = << >>
       /\ r.events = IF r.truncated /\ ~r.streaming THEN << >> ELSE Payloads(s)

(* x is r after a read that returned an error or not, e.                   *)
HasRead(x, r, e) ==
  x.ended = e /\ x.done = r.done /\ x.closed = r.closed /\ (~x.streaming => x.events = << >>)

(* What r has made of s, when b is read and u is still to come after it.   *)
Reading(V, r, s, b, u, e) ==
  /\ r \in ReaderOf(Seq(V)) /\ s \in Seq(V) /\ b \in Seq(V) /\ u \in Seq(V) /\ e \in BOOLEAN
  /\ PassedOn(r, s) /\ ~r.ended
  /\ r.streaming => OneDataLine(s \o b) /\ OneDataLine(s)

(* A read of a response that nothing is withheld of passes it on, and      *)
(* observes what it read.                                                  *)
LEMMA ReadPasses ==
  ASSUME MaxObserved \in Nat, MaxObserved >= 2,
         NEW V, NEW r, NEW s, NEW b, NEW u, NEW e, Reading(V, r, s, b, u, e),
         NEW x, x = Handed(r, u, b, e)
  PROVE  /\ x \in ReaderOf(Seq(V)) /\ PassedOn(x, s \o b) /\ Along(x, r, u) /\ HasRead(x, r, e)
<1> DEFINE Q == Seq(V)
           t == s \o b
<1>r. /\ r \in ReaderOf(Seq(V)) /\ s \in Seq(V) /\ b \in Seq(V) /\ u \in Seq(V) /\ e \in BOOLEAN
      /\ PassedOn(r, s) /\ ~r.ended /\ (r.streaming => OneDataLine(s \o b) /\ OneDataLine(s))
  BY Zenon DEF Reading
<1>0. t \in Q
  BY <1>r, ConcatProperties
<1>1. /\ r.pending \in Q /\ r.events \in Q /\ r.body \in Q /\ r.streaming \in BOOLEAN /\ r.truncated \in BOOLEAN
      /\ r.received = s /\ r.out = << >> /\ r.srcErr = "none" /\ r.done # "complete"
  <2> HIDE DEF Q
  <2>1. r.pending \in Q /\ r.events \in Q /\ r.body \in Q /\ r.streaming \in BOOLEAN /\ r.truncated \in BOOLEAN
    BY <1>r, ReaderFields, Zenon DEF Q
  <2> QED
    BY <1>r, <2>1, Zenon DEF PassedOn
<1>t. r \in ReaderOf(Q) /\ u \in Q
  BY <1>r
<1>2. CASE r.streaming
  <2> DEFINE c == Pieces(CutLine(r) \o b, lineEnd)
             tr == r.truncated \/ Over(r)
             evs == r.events \o handleLines(c.whole)
  <2>2. Over(r) \in BOOLEAN /\ tr \in BOOLEAN
    <3> HIDE DEF Q, c, evs, t
    <3> QED
      BY <1>1, <1>r, SMT DEF Over
  <2>3. CutLine(r) \in Q /\ LineOf(CutLine(r), s) /\ Observes(r.events, CutLine(r), s)
    <3>1. Observes(r.events, r.pending, s) /\ LineOf(r.pending, s) /\ OneDataLine(s)
      BY <1>2, <1>r, Zenon DEF PassedOn
    <3>2. CASE Over(r)
      <4>1. Len(r.pending) > 2
        <5>1. Len(r.pending) \in Nat
          BY <1>1, LenProperties
        <5>2. PICK k \in Nat : k = Len(r.pending)
          BY <5>1
        <5>3. k > MaxObserved
          BY <3>2, <5>2, Zenon DEF Over
        <5>4. k > 2
          BY <5>3
        <5> QED
          BY <5>2, <5>4, Zenon
      <4>2. LineOf(<< >>, s) /\ Observes(r.events, << >>, s)
        BY <1>1, <1>r, <3>1, <4>1, LineForgotten, Zenon
      <4>3. << >> \in Q
        BY EmptySeq
      <4> QED
        BY <3>2, <4>2, <4>3, Zenon DEF CutLine
    <3>3. CASE ~Over(r)
      BY <1>1, <3>1, <3>3, Zenon DEF CutLine
    <3> QED
      BY <3>2, <3>3, Zenon
  <2>4. PICK p : p = CutLine(r)
    OBVIOUS
  <2>5. p \o b \in Q
    BY <1>r, <2>3, <2>4, ConcatProperties
  <2>6. c.rest \in Q /\ handleLines(c.whole) \in Q
    <3>1. c.rest \in Q /\ c.whole \in Seq(Q)
      BY <2>4, <2>5, PiecesType, Zenon
    <3> QED
      BY <3>1, LinesOf, Zenon
  <2>7. evs \in Q
    <3> HIDE DEF c
    <3> QED
      BY <1>1, <2>6, ConcatProperties
  <2>8. LineOf(c.rest, t) /\ Observes(evs, c.rest, t)
    <3>1. OneDataLine(s \o b)
      BY <1>2, <1>r
    <3>2. LineOf(Pieces(p \o b, lineEnd).rest, s \o b)
          /\ Observes(r.events \o handleLines(Pieces(p \o b, lineEnd).whole), Pieces(p \o b, lineEnd).rest, s \o b)
      BY <1>1, <1>r, <2>3, <2>4, <3>1, LinesRead, Zenon
    <3> QED
      BY <2>4, <3>2, Zenon
  <2>9. x = Passing(r, u, c.rest, tr, evs, r.body, t, e)
    BY <1>1, <1>2, <1>t, ScanPasses, Zenon
  <2> HIDE DEF Q, t, c, tr, evs
  <2>10. PassTypes(Q, r, u, c.rest, evs, r.body, t, tr, e)
    BY <1>0, <1>1, <1>r, <1>t, <2>2, <2>6, <2>7, Zenon DEF PassTypes
  <2>11. x \in ReaderOf(Q) /\ Passed(x, r, u, c.rest, tr, evs, r.body, t, e)
    BY <2>9, <2>10, PassingFields, Zenon
  <2>12. PassedOn(x, t)
    BY <1>1, <1>2, <1>r, <2>8, <2>11, Zenon DEF PassedOn, Passed
  <2> QED
    BY <1>2, <2>11, <2>12, Zenon DEF Q, t, Passed, Along, HasRead
<1>3. CASE ~r.streaming
  <2> DEFINE tr == r.truncated \/ OverBody(r, b)
             bod == BodyOf(r, b)
  <2>2. OverBody(r, b) \in BOOLEAN /\ tr \in BOOLEAN
    <3> HIDE DEF Q, bod, t
    <3> QED
      BY <1>1, <1>r, SMT DEF OverBody
  <2>3. bod \in Q
    <3>1. << >> \in Q
      BY EmptySeq
    <3>2. r.body \o b \in Q
      BY <1>1, <1>r, ConcatProperties
    <3> QED
      BY <1>1, <2>2, <3>1, <3>2, Zenon DEF BodyOf
  <2>4. r.events = << >> /\ (r.truncated \/ r.body = s)
    BY <1>3, <1>r, Zenon DEF PassedOn
  <2>5. tr \/ bod = t
    BY <2>4, Zenon DEF BodyOf
  <2>9. x = Passing(r, u, r.pending, tr, r.events, bod, t, e)
    BY <1>1, <1>3, <1>t, BodyPasses, Zenon
  <2> HIDE DEF Q, t, tr, bod
  <2>10. PassTypes(Q, r, u, r.pending, r.events, bod, t, tr, e)
    BY <1>0, <1>1, <1>r, <1>t, <2>2, <2>3, Zenon DEF PassTypes
  <2>11. x \in ReaderOf(Q) /\ Passed(x, r, u, r.pending, tr, r.events, bod, t, e)
    BY <2>9, <2>10, PassingFields, Zenon
  <2>12. PassedOn(x, t)
    BY <1>1, <1>3, <1>r, <2>4, <2>5, <2>11, Zenon DEF PassedOn, Passed
  <2> QED
    BY <1>3, <2>4, <2>11, <2>12, Zenon DEF Q, t, Passed, Along, HasRead
<1> QED
  BY <1>1, <1>2, <1>3

(* Its end leaves nothing unobserved, but a body over the cap.             *)
LEMMA EndPasses ==
  ASSUME NEW V, NEW r \in ReaderOf(Seq(V)), NEW s \in Seq(V), PassedOn(r, s),
         r.ended, r.upstream = << >>, r.done # "complete", ~r.streaming => r.events = << >>,
         NEW x, x = finish(flush(r), TRUE)
  PROVE  /\ x \in ReaderOf(Seq(V)) /\ PassedOn(x, s) /\ Along(x, r, << >>)
<1> DEFINE Q == Seq(V)
<1>t. r \in ReaderOf(Q)
  OBVIOUS
<1>1. /\ r.upstream \in Q /\ r.pending \in Q /\ r.events \in Q /\ r.body \in Q /\ r.streaming \in BOOLEAN
      /\ r.truncated \in BOOLEAN /\ r.received \in Q /\ r.ended \in BOOLEAN
      /\ r.received = s /\ r.out = << >> /\ r.srcErr = "none"
  <2> HIDE DEF Q
  <2>1. /\ r.upstream \in Q /\ r.pending \in Q /\ r.events \in Q /\ r.body \in Q /\ r.streaming \in BOOLEAN
        /\ r.truncated \in BOOLEAN /\ r.received \in Q /\ r.ended \in BOOLEAN
    BY <1>t, ReaderFields, Zenon
  <2> QED
    BY <2>1, Zenon DEF PassedOn
<1>2. Payloads(s) \in Q /\ << >> \in Q /\ << >> \o Payloads(s) = Payloads(s) /\ << >> \o << >> = << >>
  <2>1. Payloads(s) \in Q
    BY PayloadsOf, Zenon
  <2>2. << >> \in Q
    BY EmptySeq
  <2> QED
    BY <2>1, <2>2, ConcatEmptySeq
<1>3. CASE r.streaming
  <2>1. r.events \o handleLine(r.pending) = Payloads(s)
    BY <1>3, Zenon DEF PassedOn, Observes
  <2>2. Observes(Payloads(s), << >>, s)
    <3>1. handleLine(<< >>) = << >>
      BY DEF handleLine
    <3>2. Payloads(s) \o << >> = Payloads(s)
      BY <1>2, ConcatEmptySeq
    <3> QED
      BY <3>1, <3>2, Zenon DEF Observes
  <2> HIDE DEF Q
  <2>4. PICK y : y = flush(r)
    OBVIOUS
  <2>3. y = Passing(r, r.upstream, << >>, r.truncated, Payloads(s), r.body, r.received, r.ended)
    BY <1>3, <1>t, <2>1, <2>4, FlushPasses, Zenon
  <2>5. PassTypes(Q, r, r.upstream, << >>, Payloads(s), r.body, r.received, r.truncated, r.ended)
    BY <1>1, <1>2, <1>t, Zenon DEF PassTypes
  <2>6. y \in ReaderOf(Q) /\ Passed(y, r, r.upstream, << >>, r.truncated, Payloads(s), r.body, r.received, r.ended)
    BY <2>3, <2>5, PassingFields, Zenon
  <2>7. x \in ReaderOf(Q) /\ Finished(x, y, TRUE)
    BY <2>4, <2>6, FinishFields, Zenon
  <2>8. PassedOn(x, s)
    BY <1>1, <1>3, <2>2, <2>6, <2>7, Zenon DEF PassedOn, Passed, Finished
  <2> QED
    BY <1>3, <2>6, <2>7, <2>8, Zenon DEF Q, Passed, Finished, Along
<1>4. CASE ~r.streaming
  <2>0. r.truncated \/ r.body = s
    BY <1>4, Zenon DEF PassedOn
  <2> DEFINE evs == r.events \o (IF r.truncated THEN << >> ELSE Payloads(r.body))
  <2>1. evs = IF r.truncated THEN << >> ELSE Payloads(s)
    BY <1>2, <1>4, <2>0, Zenon
  <2>2. evs \in Q
    BY <1>2, <2>1, Zenon
  <2>4. PICK y : y = flush(r)
    OBVIOUS
  <2>3. y = Passing(r, r.upstream, r.pending, r.truncated, evs, r.body, r.received, r.ended)
    BY <1>4, <1>t, <2>4, FlushPasses, Zenon
  <2> HIDE DEF Q, evs
  <2>5. PassTypes(Q, r, r.upstream, r.pending, evs, r.body, r.received, r.truncated, r.ended)
    BY <1>1, <1>2, <1>t, <2>2, Zenon DEF PassTypes
  <2>6. y \in ReaderOf(Q) /\ Passed(y, r, r.upstream, r.pending, r.truncated, evs, r.body, r.received, r.ended)
    BY <2>3, <2>5, PassingFields, Zenon
  <2>7. x \in ReaderOf(Q) /\ Finished(x, y, TRUE)
    BY <2>4, <2>6, FinishFields, Zenon
  <2>8. PassedOn(x, s)
    BY <1>1, <1>4, <2>0, <2>1, <2>6, <2>7, Zenon DEF PassedOn, Passed, Finished
  <2> QED
    BY <1>4, <2>6, <2>7, <2>8, Zenon DEF Q, Passed, Finished, Along
<1> QED
  BY <1>1, <1>3, <1>4

-----------------------------------------------------------------------------
(***************************************************************************)
(* The reader, when a chunk is withheld.                                   *)
(***************************************************************************)

(* u as what is taken of it and what is left.                              *)
Splits(V, u, n, b, l) == b \in Seq(V) /\ l \in Seq(V) /\ b \o l = u /\ (n = Len(u) => l = << >>)

(* A sequence cut in two.                                                  *)
LEMMA SplitAt ==
  ASSUME NEW V, NEW u \in Seq(V), NEW n \in 0 .. Len(u)
  PROVE  Splits(V, u, n, SubSeq(u, 1, n), SubSeq(u, n + 1, Len(u)))
<1>1. PICK k \in Nat : k = Len(u) /\ \A i \in 1 .. k : u[i] \in V
  BY LenProperties
<1>2. SubSeq(u, 1, n) \in Seq(V)
  BY <1>1, SubSeqProperties
<1>3. SubSeq(u, n + 1, Len(u)) \in Seq(V)
  BY <1>1, SubSeqProperties
<1>4. SubSeq(u, 1, n) \o SubSeq(u, n + 1, Len(u)) = SubSeq(u, 1, Len(u))
  <2>1. 1 \in 1 .. Len(u) + 1 /\ n \in 1 - 1 .. Len(u) /\ Len(u) \in n .. Len(u)
    BY <1>1
  <2> QED
    BY <2>1, ConcatAdjacentSubSeq
<1>5. SubSeq(u, 1, Len(u)) = u
  BY SubSeqFull
<1>6. n = Len(u) => SubSeq(u, n + 1, Len(u)) = << >>
  BY <1>1, SubSeqEmpty
<1> QED
  BY <1>2, <1>3, <1>4, <1>5, <1>6, Zenon DEF Splits

(* What a reader that withholds has made of s.                             *)
Filtered(r, s) ==
  LET c == Pieces(s, eventSeparator)
  IN  /\ r.srcErr = "none" => r.pending = c.rest /\ r.events = Seen(c.whole) /\ r.received \o r.out = Kept(c.whole)
      /\ r.srcErr # "none" => r.events = Payloads(s) /\ r.received \o r.out = Kept(Append(c.whole, c.rest))
      /\ r.srcErr = "eof" => r.upstream = << >>
      /\ r.ended => r.out = << >> /\ r.srcErr # "none"
      /\ r.done = "complete" => r.srcErr = "eof"

(* What a read that withholds assigns.                                     *)
Filling(r, u, pend, out, evs, err) ==
  [r EXCEPT !.upstream = u, !.pending = pend, !.out = out, !.events = evs, !.srcErr = err]

(* To what.                                                                *)
FillTypes(Q, r, u, pend, out, evs, err) ==
  r \in ReaderOf(Q) /\ u \in Q /\ pend \in Q /\ out \in Q /\ evs \in Q /\ err \in Errs

(* With what outcome.                                                      *)
Filled(x, r, u, pend, out, evs, err) ==
  /\ x.upstream = u /\ x.streaming = r.streaming /\ x.filtering = r.filtering /\ x.pending = pend /\ x.out = out
  /\ x.srcErr = err /\ x.body = r.body /\ x.truncated = r.truncated /\ x.events = evs /\ x.done = r.done
  /\ x.received = r.received /\ x.ended = r.ended /\ x.closed = r.closed

(* The fields after a read that fills what is given out.                   *)
LEMMA FillingFields ==
  ASSUME NEW Q, NEW r, NEW u, NEW pend, NEW out, NEW evs, NEW err, FillTypes(Q, r, u, pend, out, evs, err)
  PROVE  /\ Filling(r, u, pend, out, evs, err) \in ReaderOf(Q)
         /\ Filled(Filling(r, u, pend, out, evs, err), r, u, pend, out, evs, err)
BY DEF ReaderOf, Filling, FillTypes, Filled

(* r after a read of b, with the error err.                                *)
Consumed(r, u, b, err) == [consumeEvents([r EXCEPT !.upstream = u], b) EXCEPT !.srcErr = err]

(* What a read of a stream to be filtered assigns (consumeEvents).         *)
LEMMA ConsumeFills ==
  ASSUME NEW Q, NEW r \in ReaderOf(Q), NEW u, NEW b, NEW err
  PROVE  Consumed(r, u, b, err)
           = Filling(r, u, Pieces(r.pending \o b, eventSeparator).rest,
                     r.out \o Kept(Pieces(r.pending \o b, eventSeparator).whole),
                     r.events \o Seen(Pieces(r.pending \o b, eventSeparator).whole), err)
BY DEF ReaderOf, Filling, Consumed, consumeEvents

(* What its end adds (flushRemainder).                                     *)
LEMMA RemainderFills ==
  ASSUME NEW Q, NEW r \in ReaderOf(Q)
  PROVE  flushRemainder(r)
           = Filling(r, r.upstream, << >>, r.out \o keep(r.pending), r.events \o see(r.pending), r.srcErr)
BY DEF ReaderOf, Filling, flushRemainder

(* x has consumed t in all, and still withholds the remainder.             *)
Consumes(x, r, t, u, err) ==
  /\ x.pending = Pieces(t, eventSeparator).rest
  /\ x.events = Seen(Pieces(t, eventSeparator).whole)
  /\ x.received \o x.out = Kept(Pieces(t, eventSeparator).whole)
  /\ x.upstream = u /\ x.srcErr = err /\ x.streaming = r.streaming /\ x.filtering = r.filtering
  /\ x.ended = r.ended /\ x.done = r.done /\ x.closed = r.closed

(* A read of it keeps whole events, and withholds the last until it is     *)
(* whole.                                                                  *)
LEMMA ConsumeFilters ==
  ASSUME NEW V, NEW r \in ReaderOf(Seq(V)), NEW s \in Seq(V), NEW b \in Seq(V), NEW u \in Seq(V), NEW err \in Errs,
         Filtered(r, s), r.out = << >>, r.srcErr = "none",
         NEW x, x = Consumed(r, u, b, err)
  PROVE  x \in ReaderOf(Seq(V)) /\ Consumes(x, r, s \o b, u, err)
<1> DEFINE Q == Seq(V)
           c == Pieces(s, eventSeparator)
           d == Pieces(c.rest \o b, eventSeparator)
           t == s \o b
           e == Pieces(t, eventSeparator)
<1>1. r \in ReaderOf(Q) /\ u \in Q
  OBVIOUS
<1>2. r.pending = c.rest /\ r.events = Seen(c.whole) /\ r.received = Kept(c.whole) /\ r.received \in Q
  <2>1. r.received \in Q
    <3> HIDE DEF Q
    <3> QED
      BY <1>1, ReaderFields, Zenon
  <2>2. r.received \o << >> = r.received
    BY <2>1, ConcatEmptySeq
  <2>3. r.pending = c.rest /\ r.events = Seen(c.whole) /\ r.received \o r.out = Kept(c.whole)
    BY Zenon DEF Filtered
  <2> QED
    BY <2>1, <2>2, <2>3, Zenon
<1>3. c.rest \in Q /\ c.whole \in Seq(Q)
  BY PiecesType, Zenon
<1>4. c.rest \o b \in Q /\ t \in Q
  <2>1. c.rest \in Q
    BY <1>3
  <2> HIDE DEF c
  <2> QED
    BY <2>1, ConcatProperties
<1>5. d.rest \in Q /\ d.whole \in Seq(Q)
  BY <1>4, PiecesType, Zenon
<1>6. e.whole = c.whole \o d.whole /\ e.rest = d.rest
  <2>1. e = [whole |-> c.whole \o d.whole, rest |-> d.rest]
    BY PiecesCompose, Zenon
  <2> HIDE DEF c, d, e
  <2> QED
    BY <2>1
<1>7. Kept(d.whole) \in Q /\ Seen(e.whole) \in Q
  <2>1. e.whole \in Seq(Q)
    BY <1>4, PiecesType, Zenon
  <2> HIDE DEF d, e
  <2> QED
    BY <1>5, <2>1, KeptOf, SeenOf, Zenon
<1>8. Kept(e.whole) = Kept(c.whole) \o Kept(d.whole) /\ Seen(e.whole) = Seen(c.whole) \o Seen(d.whole)
  <2> HIDE DEF c, d, e
  <2>1. Kept(c.whole \o d.whole) = Kept(c.whole) \o Kept(d.whole)
    BY <1>3, <1>5, KeptOf, Zenon
  <2>2. Seen(c.whole \o d.whole) = Seen(c.whole) \o Seen(d.whole)
    BY <1>3, <1>5, SeenOf, Zenon
  <2> QED
    BY <1>6, <2>1, <2>2, Zenon
<1>9. << >> \o Kept(d.whole) = Kept(d.whole)
  <2> HIDE DEF d
  <2> QED
    BY <1>7, ConcatEmptySeq
<1>10. x = Filling(r, u, e.rest, Kept(d.whole), Seen(e.whole), err)
  <2>1. x = Filling(r, u, d.rest, r.out \o Kept(d.whole), r.events \o Seen(d.whole), err)
    BY <1>1, <1>2, ConsumeFills, Zenon
  <2> HIDE DEF c, d, e, t
  <2> QED
    BY <1>2, <1>6, <1>8, <1>9, <2>1, Zenon
<1> HIDE DEF Q
<1>11. FillTypes(Q, r, u, e.rest, Kept(d.whole), Seen(e.whole), err)
  <2> HIDE DEF c, d, e, t
  <2> QED
    BY <1>1, <1>5, <1>6, <1>7, Zenon DEF FillTypes
<1> HIDE DEF c, d, e
<1>12. x \in ReaderOf(Q) /\ Filled(x, r, u, e.rest, Kept(d.whole), Seen(e.whole), err)
  BY <1>10, <1>11, FillingFields, Zenon
<1> QED
  BY <1>2, <1>8, <1>12, Zenon DEF Consumes, Filled, Q, e

(* Giving out a little more at the end.                                    *)
Regroups(p, q, k) == (p \o q) \o k = p \o (q \o k)

(* Giving out in parts.                                                    *)
LEMMA GivenMore ==
  ASSUME NEW V, NEW p \in Seq(V), NEW q \in Seq(V), NEW k \in Seq(V)
  PROVE  Regroups(p, q, k)
BY ConcatAssociative DEF Regroups

(* With the read that ends it, what was withheld is given out: nothing is  *)
(* kept back from the client but the chunk that the gateway asked for      *)
(* (readFiltered).                                                         *)
LEMMA FillFilters ==
  ASSUME NEW V, NEW r \in ReaderOf(Seq(V)), NEW s \in Seq(V), NEW b \in Seq(V), NEW u \in Seq(V), NEW err \in Errs,
         Filtered(r, s), r.out = << >>, r.srcErr = "none", err = "eof" => u = << >>, OneDataLine(s \o b),
         NEW x, x = IF err = "none" THEN Consumed(r, u, b, err) ELSE flushRemainder(Consumed(r, u, b, err))
  PROVE  /\ x \in ReaderOf(Seq(V)) /\ Filtered(x, s \o b) /\ Along(x, r, u)
<1> DEFINE Q == Seq(V)
           t == s \o b
           e == Pieces(t, eventSeparator)
<1>1. PICK y : y = Consumed(r, u, b, err)
  OBVIOUS
<1>a. y \in ReaderOf(Q) /\ Consumes(y, r, t, u, err)
  BY <1>1, ConsumeFilters, Zenon
<1>2. /\ y \in ReaderOf(Q)
      /\ y.pending = e.rest /\ y.events = Seen(e.whole) /\ y.received \o y.out = Kept(e.whole)
      /\ y.upstream = u /\ y.srcErr = err /\ y.streaming = r.streaming /\ y.filtering = r.filtering
      /\ y.ended = r.ended /\ y.done = r.done /\ y.closed = r.closed
  BY <1>a, Zenon DEF Consumes
<1>3. ~r.ended /\ r.done # "complete"
  <2>1. r.ended => r.srcErr # "none"
    BY Zenon DEF Filtered
  <2>2. r.done = "complete" => r.srcErr = "eof"
    BY Zenon DEF Filtered
  <2> QED
    BY <2>1, <2>2
<1>4. t \in Q /\ e.rest \in Q /\ e.whole \in Seq(Q)
  <2>1. t \in Q
    BY ConcatProperties
  <2> HIDE DEF t
  <2>2. e.rest \in Q /\ e.whole \in Seq(Q)
    BY <2>1, PiecesType, Zenon
  <2> QED
    BY <2>1, <2>2
<1>5. CASE err = "none"
  <2>1. x = y
    BY <1>1, <1>5, Zenon
  <2>2. Filtered(x, t)
    BY <1>2, <1>3, <1>5, <2>1, Zenon DEF Filtered
  <2> QED
    BY <1>2, <2>1, <2>2, Zenon DEF Along
<1>6. CASE err # "none"
  <2>1. y.received \in Q /\ y.out \in Q /\ y.events \in Q /\ y.upstream \in Q
    <3> HIDE DEF Q, e
    <3> QED
      BY <1>2, ReaderFields, Zenon
  <2>2. keep(e.rest) \in Q /\ see(e.rest) \in Q
    <3> HIDE DEF e
    <3> QED
      BY <1>4, EventsType, Zenon
  <2>3. PICK out, evs : out = y.out \o keep(e.rest) /\ evs = y.events \o see(e.rest)
    OBVIOUS
  <2>4. out \in Q /\ evs \in Q
    <3> HIDE DEF e
    <3> QED
      BY <2>1, <2>2, <2>3, ConcatProperties
  <2>5. evs = Payloads(t)
    <3>1. Seen(e.whole) \o see(e.rest) = Payloads(t)
      BY <1>4, BlocksSeen, Zenon
    <3> QED
      BY <1>2, <2>3, <3>1, Zenon
  <2>6. y.received \o out = Kept(Append(e.whole, e.rest))
    <3>1. Kept(Append(e.whole, e.rest)) = Kept(e.whole) \o keep(e.rest)
      <4> HIDE DEF e
      <4> QED
        BY <1>4, KeptOf, Zenon
    <3>2. (y.received \o y.out) \o keep(e.rest) = y.received \o (y.out \o keep(e.rest))
      <4> HIDE DEF e, t
      <4>1. keep(e.rest) \in Seq(V) /\ y.received \in Seq(V) /\ y.out \in Seq(V)
        BY <2>1, <2>2, Zenon
      <4>2. Regroups(y.received, y.out, keep(e.rest))
        BY <4>1, GivenMore, Zenon
      <4> QED
        BY <4>2, Zenon DEF Regroups
    <3> HIDE DEF e, t
    <3> QED
      BY <1>2, <2>3, <3>1, <3>2, Zenon
  <2> HIDE DEF Q
  <2>7. x = Filling(y, u, << >>, out, evs, err)
    <3>1. x = flushRemainder(y)
      BY <1>1, <1>6, Zenon
    <3>2. x = Filling(y, y.upstream, << >>, y.out \o keep(y.pending), y.events \o see(y.pending), y.srcErr)
      BY <1>2, <3>1, RemainderFills, Zenon
    <3> HIDE DEF e, t
    <3> QED
      BY <1>2, <2>3, <3>2, Zenon
  <2>8. FillTypes(Q, y, u, << >>, out, evs, err)
    <3>1. << >> \in Q /\ u \in Q
      BY EmptySeq DEF Q
    <3> HIDE DEF e, t
    <3> QED
      BY <1>2, <2>4, <3>1, Zenon DEF FillTypes
  <2>9. x \in ReaderOf(Q) /\ Filled(x, y, u, << >>, out, evs, err)
    BY <2>7, <2>8, FillingFields, Zenon
  <2>10. Filtered(x, t)
    BY <1>2, <1>3, <1>6, <2>5, <2>6, <2>9, Zenon DEF Filtered, Filled
  <2> QED
    BY <1>2, <2>9, <2>10, Zenon DEF Q, Filled, Along
<1> QED
  BY <1>5, <1>6

-----------------------------------------------------------------------------
(***************************************************************************)
(* The reader: what it has made of a response as far as it has come.       *)
(***************************************************************************)

(* The same of the beginning of a stream.                                  *)
LEMMA OneDataLinePrefix ==
  ASSUME NEW V, NEW s \in Seq(V), NEW b \in Seq(V), OneDataLine(s \o b)
  PROVE  OneDataLine(s)
<1>1. PICK k \in Nat : k = Len(s) /\ DOMAIN s = 1 .. k
  BY LenProperties
<1>2. PICK m \in Nat : m = Len(s \o b) /\ DOMAIN (s \o b) = 1 .. m /\ k <= m
  <2>1. Len(s \o b) = Len(s) + Len(b) /\ Len(b) \in Nat /\ s \o b \in Seq(V)
    BY ConcatProperties, LenProperties
  <2> QED
    BY <1>1, <2>1, LenProperties
<1>3. \A i \in 1 .. k : (s \o b)[i] = s[i]
  BY <1>1, ConcatProperties
<1>4. ASSUME NEW t, t = s \o b
      PROVE  OneDataLine(s)
  <2>1. OneDataLine(t) /\ Len(t) = m /\ DOMAIN t = 1 .. m /\ \A i \in 1 .. k : t[i] = s[i]
    BY <1>2, <1>3, <1>4, Zenon
  <2>2. ASSUME NEW i \in 1 .. k, IsPayload(s[i])
        PROVE  /\ i > 1 /\ s[i - 1] = Prefix
               /\ i > 2 => s[i - 2] = Nl
               /\ \A j \in {i + 1, i + 2} : j <= Len(s) => s[j] = Nl
    <3>1. i \in 1 .. m /\ IsPayload(t[i])
      BY <1>2, <2>1, <2>2
    <3>2. /\ i > 1 /\ t[i - 1] = Prefix
          /\ i > 2 => t[i - 2] = Nl
          /\ \A j \in {i + 1, i + 2} : j <= Len(t) => t[j] = Nl
      BY <2>1, <3>1, Zenon DEF OneDataLine, PayloadEndsEvent
    <3>3. s[i - 1] = Prefix
      <4>1. i - 1 \in 1 .. k
        BY <3>2
      <4> QED
        BY <2>1, <3>2, <4>1, Zenon
    <3>4. ASSUME i > 2
          PROVE  s[i - 2] = Nl
      <4>1. i - 2 \in 1 .. k
        BY <3>4
      <4> QED
        BY <2>1, <3>2, <3>4, <4>1, Zenon
    <3>5. ASSUME NEW j \in {i + 1, i + 2}, j <= Len(s)
          PROVE  s[j] = Nl
      <4>1. j \in 1 .. k /\ j <= Len(t)
        BY <1>1, <1>2, <2>1, <3>5
      <4> QED
        BY <2>1, <3>2, <3>5, <4>1, Zenon
    <3> QED
      BY <3>2, <3>3, <3>4, <3>5, Zenon
  <2>3. ASSUME NEW i \in 1 .. k, NEW j \in 1 .. k, i < j, s[i] = Prefix, s[j] = Prefix
        PROVE  \E h \in i .. j - 1 : s[h] = Nl /\ s[h + 1] = Nl
    <3>1. i \in 1 .. m /\ j \in 1 .. m /\ t[i] = Prefix /\ t[j] = Prefix
      BY <1>2, <2>1, <2>3
    <3>2. PICK h \in i .. j - 1 : t[h] = Nl /\ t[h + 1] = Nl
      BY <2>1, <2>3, <3>1, Zenon DEF OneDataLine, DataLinesApart
    <3>3. h \in 1 .. k /\ h + 1 \in 1 .. k
      BY <3>2
    <3> QED
      BY <2>1, <3>2, <3>3, Zenon
  <2> QED
    BY <1>1, <2>2, <2>3, Zenon DEF OneDataLine, PayloadEndsEvent, DataLinesApart
<1> QED
  BY <1>4, Zenon

(* The client takes what is there, as much as it has room for.             *)
LEMMA TakeFilters ==
  ASSUME NEW V, NEW r \in ReaderOf(Seq(V)), NEW s \in Seq(V), Filtered(r, s),
         NEW n \in 1 .. Len(r.out),
         NEW x, x = [r EXCEPT !.received = @ \o SubSeq(r.out, 1, n), !.out = SubSeq(@, n + 1, Len(@))]
  PROVE  /\ x \in ReaderOf(Seq(V)) /\ Filtered(x, s) /\ Along(x, r, r.upstream)
<1> DEFINE Q == Seq(V)
           b == SubSeq(r.out, 1, n)
           l == SubSeq(r.out, n + 1, Len(r.out))
<1>1. r \in ReaderOf(Q) /\ r.out \in Q /\ r.received \in Q
  <2>1. r \in ReaderOf(Q)
    OBVIOUS
  <2> HIDE DEF Q, b, l
  <2> QED
    BY <2>1, ReaderFields, Zenon
<1>2. b \in Q /\ l \in Q /\ b \o l = r.out
  <2>1. PICK k \in Nat : k = Len(r.out)
    BY <1>1, LenProperties
  <2>2. n \in 0 .. Len(r.out)
    BY <2>1
  <2> QED
    BY <1>1, <2>2, SplitAt, Zenon DEF Splits
<1>3. ~r.ended
  <2>1. r.out # << >>
    <3>1. r.out = << >> => Len(r.out) = 0
      BY EmptySeq
    <3>2. PICK k \in Nat : k = Len(r.out)
      BY <1>1, LenProperties
    <3> QED
      BY <3>1, <3>2
  <2> QED
    BY <2>1, Zenon DEF Filtered
<1>4. r.received \o b \in Q /\ (r.received \o b) \o l = r.received \o r.out
  <2> HIDE DEF b, l
  <2>1. r.received \o b \in Q
    BY <1>1, <1>2, ConcatProperties
  <2>2. Regroups(r.received, b, l)
    BY <1>1, <1>2, GivenMore, Zenon
  <2> QED
    BY <1>2, <2>1, <2>2, Zenon DEF Regroups
<1>5. /\ x \in ReaderOf(Q)
      /\ x.received = r.received \o b /\ x.out = l
      /\ x.upstream = r.upstream /\ x.streaming = r.streaming /\ x.filtering = r.filtering /\ x.pending = r.pending
      /\ x.srcErr = r.srcErr /\ x.events = r.events /\ x.done = r.done /\ x.ended = r.ended
  <2>1. x = [r EXCEPT !.received = r.received \o b, !.out = l]
    OBVIOUS
  <2>2. PICK rec : rec = r.received \o b
    OBVIOUS
  <2> HIDE DEF Q, b, l
  <2> QED
    BY <1>1, <1>2, <1>4, <2>1, <2>2 DEF ReaderOf
<1> HIDE DEF b, l
<1>6. Filtered(x, s)
  BY <1>3, <1>4, <1>5, Zenon DEF Filtered
<1> QED
  BY <1>5, <1>6, Zenon DEF Q, Along

(* The end is told once everything was taken.                              *)
LEMMA EndFilters ==
  ASSUME NEW V, NEW r \in ReaderOf(Seq(V)), NEW s \in Seq(V), Filtered(r, s), r.out = << >>, r.srcErr # "none",
         NEW x, x = IF r.srcErr = "eof" THEN finish([r EXCEPT !.ended = TRUE], TRUE) ELSE [r EXCEPT !.ended = TRUE]
  PROVE  /\ x \in ReaderOf(Seq(V)) /\ Filtered(x, s) /\ Along(x, r, r.upstream)
<1> DEFINE Q == Seq(V)
<1>1. r \in ReaderOf(Q)
  OBVIOUS
<1> HIDE DEF Q
<1>2. /\ x \in ReaderOf(Q)
      /\ x.received = r.received /\ x.out = r.out
      /\ x.upstream = r.upstream /\ x.streaming = r.streaming /\ x.filtering = r.filtering /\ x.pending = r.pending
      /\ x.srcErr = r.srcErr /\ x.events = r.events /\ x.ended = TRUE
      /\ x.done = "complete" => r.done = "complete" \/ r.srcErr = "eof"
  BY <1>1 DEF ReaderOf, finish
<1>3. Filtered(x, s)
  BY <1>2, Zenon DEF Filtered
<1> QED
  BY <1>2, <1>3, Zenon DEF Q, Along

(* What closing the body leaves as it was.                                 *)
Closes(x, r) ==
  /\ x.received = r.received /\ x.out = r.out /\ x.body = r.body /\ x.truncated = r.truncated
  /\ x.upstream = r.upstream /\ x.streaming = r.streaming /\ x.filtering = r.filtering /\ x.pending = r.pending
  /\ x.srcErr = r.srcErr /\ x.events = r.events /\ x.ended = r.ended
  /\ x.done = "complete" => r.done = "complete" \/ r.srcErr = "eof"

(* Closing the body gives nothing out, and is an end only if there was one *)
(* (Close).                                                                *)
LEMMA CloseFields ==
  ASSUME NEW Q, NEW r \in ReaderOf(Q),
         NEW x, x = [finish(r, r.srcErr = "eof") EXCEPT !.closed = TRUE]
  PROVE  x \in ReaderOf(Q) /\ Closes(x, r)
BY DEF ReaderOf, finish, Closes

(* What the reader r has made of the response w as far as it has come.     *)
MadeOf(r, s) ==
  /\ r.filtering => r.streaming /\ Filtered(r, s)
  /\ ~r.filtering => PassedOn(r, s)

(* The invariant of the reader: what came of w is what it made something   *)
(* of.                                                                     *)
Copied(r, w, V) ==
  /\ r \in ReaderOf(Seq(V))
  /\ \E s \in Seq(V) : w = s \o r.upstream /\ MadeOf(r, s)

(* What a reader may be made for.                                          *)
Readable(V, w, streaming, filtering) ==
  w \in Seq(V) /\ streaming \in BOOLEAN /\ filtering \in BOOLEAN /\ (filtering => streaming)

(* What NewReader gives.                                                   *)
Opens(V, w, streaming, filtering) ==
  LET r == NewReader(w, streaming, filtering) IN Copied(r, w, V) /\ r.streaming = streaming

(* A new reader has copied nothing.                                        *)
LEMMA NewCopies ==
  ASSUME NEW V, NEW w, NEW streaming, NEW filtering, Readable(V, w, streaming, filtering)
  PROVE  Opens(V, w, streaming, filtering)
<1>w. w \in Seq(V) /\ streaming \in BOOLEAN /\ filtering \in BOOLEAN /\ (filtering => streaming)
  BY Zenon DEF Readable
<1>n. PICK r : r = NewReader(w, streaming, filtering)
  OBVIOUS
<1> DEFINE Q == Seq(V)
<1>1. w \in Q /\ << >> \in Q /\ << >> \o w = w
  BY <1>w, EmptySeq, ConcatEmptySeq
<1>2. /\ Pieces(<< >>, eventSeparator) = [whole |-> << >>, rest |-> << >>]
      /\ << >> \in Seq(Q) /\ Payloads(<< >>) = << >> /\ Seen(<< >>) = << >> /\ Kept(<< >>) = << >>
      /\ << >> \o << >> = << >>
  <2>1. << >> \in Seq(Q)
    BY EmptySeq
  <2>2. << >> \o << >> = << >>
    BY ConcatEmptySeq, <1>1
  <2>3. Payloads(<< >>) = << >> /\ \A t \in Seq(V) : Payloads(t) \in Seq(V)
    BY PayloadsOf, Zenon
  <2>4. Seen(<< >>) = << >> /\ \A tt \in Seq(Seq(V)) : Seen(tt) \in Seq(V)
    BY SeenOf, Zenon
  <2>5. Kept(<< >>) = << >> /\ \A tt \in Seq(Seq(V)) : Kept(tt) \in Seq(V)
    BY KeptOf, Zenon
  <2>6. Pieces(<< >>, eventSeparator) = [whole |-> << >>, rest |-> << >>]
    BY PiecesEmpty, Zenon DEF NoCut
  <2> QED
    BY <2>1, <2>2, <2>3, <2>4, <2>5, <2>6, Zenon
<1>3. Pieces(<< >>, eventSeparator).whole = << >> /\ Pieces(<< >>, eventSeparator).rest = << >>
  BY <1>2
<1> HIDE DEF Q
<1>4. /\ r \in ReaderOf(Q)
      /\ r.received = << >> /\ r.out = << >> /\ r.upstream = w /\ r.streaming = streaming /\ r.filtering = filtering
      /\ r.pending = << >> /\ r.srcErr = "none" /\ r.events = << >> /\ r.done = "no" /\ r.ended = FALSE
      /\ r.truncated = FALSE /\ r.body = << >>
  BY <1>1, <1>n, <1>w DEF ReaderOf, NewReader, Errs
<1>5. Filtered(r, << >>)
  BY <1>2, <1>3, <1>4, Zenon DEF Filtered
<1>6. Observes(<< >>, << >>, << >>)
  <2>1. handleLine(<< >>) = << >>
    BY DEF handleLine
  <2> QED
    BY <1>2, <2>1, Zenon DEF Observes
<1>7. LineOf(<< >>, << >>)
  <2>1. IsTail(<< >>, << >>) /\ NoLineEnd(<< >>) /\ Begins(<< >>, << >>)
    BY DEF IsTail, NoLineEnd, Begins
  <2>2. Uncut(<< >>, lineEnd)
    BY PiecesEmpty, Zenon DEF Uncut, NoCut
  <2> QED
    BY <2>1, <2>2, Zenon DEF LineOf
<1>8. PassedOn(r, << >>)
  BY <1>2, <1>4, <1>6, <1>7, Zenon DEF PassedOn
<1>9. MadeOf(r, << >>)
  BY <1>4, <1>5, <1>8, <1>w, Zenon DEF MadeOf
<1> QED
  BY <1>1, <1>4, <1>9, <1>n, Zenon DEF Copied, Opens, Q

(* However much a read brings, and in whatever order reads, errors and the *)
(* end come, the reader has made the same of what came (observingReader:   *)
(* Read, readFiltered, Close).                                             *)
LEMMA CopiedStep ==
  ASSUME NEW V, NEW w \in Seq(V), MaxObserved \in Nat, MaxObserved >= 2,
         NEW r, r = reader, NEW x, x = reader',
         Copied(r, w, V), r.streaming => OneDataLine(w), Copy
  PROVE  Copied(x, w, V) /\ x.streaming = r.streaming /\ x.filtering = r.filtering
<1> DEFINE Q == Seq(V)
<1>1. PICK s \in Q : r \in ReaderOf(Q) /\ w = s \o r.upstream /\ MadeOf(r, s)
  BY Zenon DEF Copied
<1>2. r.upstream \in Q /\ r.out \in Q /\ r.srcErr \in Errs
  <2> HIDE DEF Q
  <2> QED
    BY <1>1, ReaderFields, Zenon
<1>3. ASSUME NEW n \in Reads, NEW b, NEW u, b = Taken(n), u = SubSeq(r.upstream, n + 1, Len(r.upstream))
      PROVE  /\ b \in Q /\ u \in Q /\ s \o b \in Q /\ w = (s \o b) \o u
             /\ n = Len(r.upstream) => u = << >>
             /\ r.streaming => OneDataLine(s \o b) /\ OneDataLine(s)
  <2>1. /\ b \in Q /\ u \in Q /\ b \o u = r.upstream /\ (n = Len(r.upstream) => u = << >>)
    <3>1. n \in 0 .. Len(r.upstream)
      BY <1>3 DEF Reads
    <3>2. b = SubSeq(r.upstream, 1, n)
      BY <1>3, Zenon DEF Taken
    <3>3. Splits(V, r.upstream, n, b, u)
      BY <1>2, <1>3, <3>1, <3>2, SplitAt, Zenon
    <3> QED
      BY <3>3, Zenon DEF Splits
  <2>2. s \o b \in Q
    BY <1>1, <2>1, ConcatProperties
  <2>3. Regroups(s, b, u)
    BY <1>1, <2>1, GivenMore, Zenon
  <2>4. w = (s \o b) \o u
    BY <1>1, <2>1, <2>3, Zenon DEF Regroups
  <2>5. r.streaming => OneDataLine(s \o b)
    <3>1. r.streaming => OneDataLine((s \o b) \o u)
      BY <2>4, Zenon
    <3> QED
      BY <2>1, <2>2, <3>1, OneDataLinePrefix, Zenon
  <2>6. r.streaming => OneDataLine(s)
    BY <1>1, <2>1, <2>5, OneDataLinePrefix, Zenon
  <2> QED
    BY <2>1, <2>2, <2>4, <2>5, <2>6, Zenon
<1>4. CASE Read
  <2>1. ~r.filtering /\ ~r.ended /\ PassedOn(r, s)
    BY <1>1, <1>4, Zenon DEF Read, MadeOf
  <2>2. PICK n \in Reads, err \in Errs :
          /\ SourceReads(n, err)
          /\ LET passed == [observe(Source(n), Taken(n)) EXCEPT !.received = @ \o Taken(n),
                                                                !.ended = err # "none"]
             IN  x = IF err = "eof" THEN finish(flush(passed), TRUE) ELSE passed
    BY <1>4, Zenon DEF Read
  <2>3. PICK b, u, e : b = Taken(n) /\ u = SubSeq(r.upstream, n + 1, Len(r.upstream)) /\ e = (err # "none") /\ e \in BOOLEAN
    OBVIOUS
  <2>4. /\ b \in Q /\ u \in Q /\ s \o b \in Q /\ w = (s \o b) \o u
        /\ n = Len(r.upstream) => u = << >>
        /\ r.streaming => OneDataLine(s \o b) /\ OneDataLine(s)
    BY <1>3, <2>3, Zenon
  <2>5. PICK y : y = Handed(r, u, b, e)
    OBVIOUS
  <2>6. x = IF err = "eof" THEN finish(flush(y), TRUE) ELSE y
    BY <2>2, <2>3, <2>5, Zenon DEF Handed, Source
  <2>a. y \in ReaderOf(Q) /\ PassedOn(y, s \o b) /\ Along(y, r, u) /\ HasRead(y, r, e)
    <3> HIDE DEF Q
    <3>1. r \in ReaderOf(Seq(V)) /\ s \in Seq(V) /\ b \in Seq(V) /\ u \in Seq(V) /\ e \in BOOLEAN
      BY <1>1, <2>3, <2>4, Zenon DEF Q
    <3>2. r.streaming => OneDataLine(s \o b) /\ OneDataLine(s)
      BY <2>4, Zenon
    <3>4. Reading(V, r, s, b, u, e)
      BY <2>1, <3>1, <3>2, Zenon DEF Reading
    <3>3. y \in ReaderOf(Seq(V)) /\ PassedOn(y, s \o b) /\ Along(y, r, u) /\ HasRead(y, r, e)
      BY <2>5, <3>4, ReadPasses, Zenon
    <3> QED
      BY <3>3, Zenon DEF Q
  <2>7. /\ y \in ReaderOf(Q) /\ PassedOn(y, s \o b)
        /\ y.upstream = u /\ y.ended = e /\ y.done = r.done /\ y.streaming = r.streaming /\ y.filtering = r.filtering
        /\ y.closed = r.closed /\ (~y.streaming => y.events = << >>)
    BY <2>a, Zenon DEF Along, HasRead
  <2>8. CASE err = "eof"
    <3>1. e = TRUE /\ u = << >>
      BY <2>2, <2>3, <2>4, <2>8, Zenon DEF SourceReads
    <3>2. y.ended /\ y.upstream = << >> /\ y.done # "complete"
      BY <2>1, <2>7, <3>1, Zenon DEF PassedOn
    <3>3. x = finish(flush(y), TRUE)
      BY <2>6, <2>8, Zenon
    <3>a. x \in ReaderOf(Q) /\ PassedOn(x, s \o b) /\ Along(x, y, << >>)
      BY <2>4, <2>7, <3>2, <3>3, EndPasses, Zenon
    <3>4. /\ x \in ReaderOf(Q) /\ PassedOn(x, s \o b) /\ x.upstream = << >> /\ x.streaming = y.streaming
          /\ x.filtering = y.filtering
      BY <3>a, Zenon DEF Along
    <3>5. MadeOf(x, s \o b)
      BY <2>1, <2>7, <3>4, Zenon DEF MadeOf
    <3> QED
      BY <2>4, <2>7, <3>1, <3>4, <3>5, Zenon DEF Copied
  <2>9. CASE err # "eof"
    <3>1. x = y
      BY <2>6, <2>9, Zenon
    <3>2. MadeOf(x, s \o b)
      BY <2>1, <2>7, <3>1, Zenon DEF MadeOf
    <3> QED
      BY <2>4, <2>7, <3>1, <3>2, Zenon DEF Copied
  <2> QED
    BY <2>8, <2>9, Zenon
<1>5. CASE FillFiltered
  <2>1. r.filtering /\ r.streaming /\ Filtered(r, s) /\ r.out = << >> /\ r.srcErr = "none"
    BY <1>1, <1>5, Zenon DEF FillFiltered, MadeOf
  <2>2. PICK n \in Reads, err \in Errs :
          /\ SourceReads(n, err)
          /\ LET consumed == [consumeEvents(Source(n), Taken(n)) EXCEPT !.srcErr = err]
             IN  x = IF err = "none" THEN consumed ELSE flushRemainder(consumed)
    BY <1>5, Zenon DEF FillFiltered
  <2>3. PICK b, u : b = Taken(n) /\ u = SubSeq(r.upstream, n + 1, Len(r.upstream))
    OBVIOUS
  <2>4. /\ b \in Q /\ u \in Q /\ s \o b \in Q /\ w = (s \o b) \o u
        /\ n = Len(r.upstream) => u = << >>
        /\ r.streaming => OneDataLine(s \o b) /\ OneDataLine(s)
    BY <1>3, <2>3, Zenon
  <2>5. x = IF err = "none" THEN Consumed(r, u, b, err) ELSE flushRemainder(Consumed(r, u, b, err))
    BY <2>2, <2>3, Zenon DEF Consumed, Source
  <2>6. err = "eof" => u = << >>
    BY <2>2, <2>4, Zenon DEF SourceReads
  <2>a. x \in ReaderOf(Q) /\ Filtered(x, s \o b) /\ Along(x, r, u)
    BY <1>1, <2>1, <2>4, <2>5, <2>6, FillFilters, Zenon
  <2>7. /\ x \in ReaderOf(Q) /\ Filtered(x, s \o b)
        /\ x.upstream = u /\ x.streaming = r.streaming /\ x.filtering = r.filtering
    BY <2>a, Zenon DEF Along
  <2>8. MadeOf(x, s \o b)
    BY <2>1, <2>7, Zenon DEF MadeOf
  <2> QED
    BY <2>4, <2>7, <2>8, Zenon DEF Copied
<1>6. CASE TakeFiltered
  <2>1. r.filtering /\ r.streaming /\ Filtered(r, s)
    BY <1>1, <1>6, Zenon DEF TakeFiltered, MadeOf
  <2>2. PICK n \in 1 .. Len(r.out) :
          x = [r EXCEPT !.received = @ \o SubSeq(r.out, 1, n), !.out = SubSeq(@, n + 1, Len(@))]
    BY <1>6, Zenon DEF TakeFiltered
  <2>a. x \in ReaderOf(Q) /\ Filtered(x, s) /\ Along(x, r, r.upstream)
    BY <1>1, <2>1, <2>2, TakeFilters, Zenon
  <2>3. /\ x \in ReaderOf(Q) /\ Filtered(x, s)
        /\ x.upstream = r.upstream /\ x.streaming = r.streaming /\ x.filtering = r.filtering
    BY <2>a, Zenon DEF Along
  <2> QED
    BY <1>1, <2>1, <2>3, Zenon DEF Copied, MadeOf
<1>7. CASE EndFiltered
  <2>1. r.filtering /\ r.streaming /\ Filtered(r, s) /\ r.out = << >> /\ r.srcErr # "none"
    BY <1>1, <1>7, Zenon DEF EndFiltered, MadeOf
  <2>2. x = IF r.srcErr = "eof" THEN finish([r EXCEPT !.ended = TRUE], TRUE) ELSE [r EXCEPT !.ended = TRUE]
    BY <1>7, Zenon DEF EndFiltered
  <2>a. x \in ReaderOf(Q) /\ Filtered(x, s) /\ Along(x, r, r.upstream)
    BY <1>1, <2>1, <2>2, EndFilters, Zenon
  <2>3. /\ x \in ReaderOf(Q) /\ Filtered(x, s)
        /\ x.upstream = r.upstream /\ x.streaming = r.streaming /\ x.filtering = r.filtering
    BY <2>a, Zenon DEF Along
  <2> QED
    BY <1>1, <2>1, <2>3, Zenon DEF Copied, MadeOf
<1>8. CASE CloseBody
  <2>1. x = [finish(r, r.srcErr = "eof") EXCEPT !.closed = TRUE]
    BY <1>8, Zenon DEF CloseBody
  <2>2. x \in ReaderOf(Q) /\ Closes(x, r)
    <3> HIDE DEF Q
    <3> QED
      BY <1>1, <2>1, CloseFields, Zenon
  <2>3. Filtered(r, s) => Filtered(x, s)
    BY <2>2, Zenon DEF Filtered, Closes
  <2>4. PassedOn(r, s) => PassedOn(x, s)
    BY <2>2 DEF PassedOn, Closes
  <2>5. MadeOf(x, s)
    BY <1>1, <2>2, <2>3, <2>4, Zenon DEF MadeOf, Closes
  <2>6. Copied(x, w, V)
    BY <1>1, <2>2, <2>5, Zenon DEF Copied, Closes
  <2> QED
    BY <2>2, <2>6, Zenon DEF Closes
<1> QED
  BY <1>4, <1>5, <1>6, <1>7, <1>8, Zenon DEF Copy

(* The first part of a sequence in two.                                    *)
LEMMA BeginningOfJoin ==
  ASSUME NEW V, NEW a \in Seq(V), NEW b \in Seq(V)
  PROVE  /\ SubSeq(a \o b, 1, Len(a)) = a
         /\ Len(a \o b) - Len(b) = Len(a)
<1>1. PICK k \in Nat, n \in Nat : k = Len(a) /\ n = Len(b) /\ Len(a \o b) = k + n
  BY ConcatProperties, LenProperties
<1>2. CASE k = 0
  <2>1. a = << >>
    BY <1>1, <1>2, EmptySeq
  <2>2. SubSeq(a \o b, 1, Len(a)) = << >>
    BY <1>1, <1>2, SubSeqEmpty
  <2> QED
    BY <1>1, <2>1, <2>2
<1>3. CASE k # 0
  <2>1. 1 \in 1 .. Len(a) /\ Len(a) \in 1 .. Len(a)
    BY <1>1, <1>3
  <2>2. SubSeq(a \o b, 1, Len(a)) = SubSeq(a, 1, Len(a))
    BY <2>1, SubSeqOfConcat1
  <2>3. SubSeq(a, 1, Len(a)) = a
    BY SubSeqFull
  <2> QED
    BY <1>1, <2>2, <2>3
<1> QED
  BY <1>2, <1>3

(* a is the beginning of c, b the rest.                                    *)
Completes(a, b, c) == a \o b = c

(* The same, as a prefix.                                                  *)
LEMMA Beginning ==
  ASSUME NEW V, NEW a \in Seq(V), NEW b \in Seq(V), NEW c, Completes(a, b, c)
  PROVE  IsPrefix(a, c) /\ SubSeq(c, 1, Len(c) - Len(b)) = a
<1>1. c = a \o b
  BY DEF Completes
<1>2. PICK k \in Nat, n \in Nat : k = Len(a) /\ n = Len(b) /\ Len(a \o b) = k + n
  BY ConcatProperties, LenProperties
<1>3. SubSeq(c, 1, Len(a)) = a /\ Len(c) - Len(b) = Len(a)
  BY <1>1, BeginningOfJoin, Zenon
<1>4. SubSeq(a, 1, Len(a)) = a
  BY SubSeqFull
<1>5. Len(a) <= Len(c)
  BY <1>1, <1>2
<1> QED
  BY <1>3, <1>4, <1>5, Zenon DEF IsPrefix

(* s as a client is to have it.                                            *)
Shown(r, s) ==
  LET cut == Pieces(s, eventSeparator)
  IN  IF r.filtering THEN Kept(Append(cut.whole, cut.rest)) ELSE s

(* What the copy r of w shows and tells, sent being what was sent of w.    *)
Shows(V, r, w, sent) ==
  /\ sent \in Seq(V) /\ r.events \in Seq(V) /\ Payloads(w) \in Seq(V)
  /\ IsPrefix(r.received, Shown(r, sent))
  /\ r.ended => r.received = Shown(r, sent)
  /\ IsPrefix(r.events, Payloads(sent)) /\ IsPrefix(r.events, Payloads(w))
  /\ r.done = "complete" =>
       /\ sent = w
       /\ r.events = IF r.truncated /\ ~r.streaming THEN << >> ELSE Payloads(w)

(* So a client has what it is to have, and each payload is observed once,  *)
(* in order.                                                               *)
LEMMA CopiedShows ==
  ASSUME NEW V, NEW w \in Seq(V), NEW r, Copied(r, w, V), r.streaming => OneDataLine(w),
         NEW sent, sent = SubSeq(w, 1, Len(w) - Len(r.upstream))
  PROVE  Shows(V, r, w, sent)
<1> DEFINE Q == Seq(V)
<1>1. PICK s \in Q : r \in ReaderOf(Q) /\ w = s \o r.upstream /\ MadeOf(r, s)
  BY Zenon DEF Copied
<1>2. r.upstream \in Q /\ r.out \in Q /\ r.received \in Q /\ r.events \in Q /\ r.pending \in Q
  <2> HIDE DEF Q
  <2> QED
    BY <1>1, ReaderFields, Zenon
<1>3. sent = s
  <2>1. Completes(s, r.upstream, w)
    BY <1>1, Zenon DEF Completes
  <2> QED
    BY <1>2, <2>1, Beginning, Zenon
<1>4. r.streaming => OneDataLine(s)
  <2>1. r.streaming => OneDataLine(s \o r.upstream)
    BY <1>1, Zenon
  <2> QED
    BY <1>1, <1>2, <2>1, OneDataLinePrefix, Zenon
<1>5. r.upstream = << >> => s = w
  <2>1. s \o << >> = s
    BY ConcatEmptySeq
  <2> QED
    BY <1>1, <2>1, Zenon
<1>6. Payloads(s) \in Q /\ Payloads(w) \in Q /\ << >> \in Q
  <2>1. << >> \in Q
    BY EmptySeq
  <2> QED
    BY <2>1, PayloadsOf, Zenon
<1>e. ASSUME NEW more \in Q, Completes(r.events, more, Payloads(s))
      PROVE  IsPrefix(r.events, Payloads(s)) /\ IsPrefix(r.events, Payloads(w))
  <2>1. Payloads(w) = Payloads(s) \o Payloads(r.upstream) /\ Payloads(r.upstream) \in Q
    <3>1. Payloads(r.upstream) \in Q
      BY <1>2, PayloadsOf, Zenon
    <3>2. Payloads(s \o r.upstream) = Payloads(s) \o Payloads(r.upstream)
      BY <1>1, <1>2, PayloadsOf, Zenon
    <3> QED
      BY <1>1, <3>1, <3>2, Zenon
  <2>2. Completes(r.events, more \o Payloads(r.upstream), Payloads(w)) /\ more \o Payloads(r.upstream) \in Q
    <3>1. Regroups(r.events, more, Payloads(r.upstream))
      BY <1>2, <1>e, <2>1, GivenMore, Zenon
    <3>2. more \o Payloads(r.upstream) \in Q
      BY <1>e, <2>1, ConcatProperties
    <3> QED
      BY <1>e, <2>1, <3>1, <3>2, Zenon DEF Completes, Regroups
  <2> QED
    BY <1>2, <1>e, <2>2, Beginning, Zenon
<1>7. CASE r.filtering
  <2> DEFINE c == Pieces(s, eventSeparator)
  <2>1. r.streaming /\ Filtered(r, s)
    BY <1>1, <1>7, Zenon DEF MadeOf
  <2>2. c.rest \in Q /\ c.whole \in Seq(Q)
    BY <1>1, PiecesType, Zenon
  <2> HIDE DEF c
  <2>3. /\ Kept(Append(c.whole, c.rest)) = Kept(c.whole) \o keep(c.rest)
        /\ Kept(c.whole) \in Q
    BY <2>2, KeptOf, Zenon
  <2>4. keep(c.rest) \in Q /\ see(c.rest) \in Q
    BY <2>2, EventsType, Zenon
  <2>5. Shown(r, sent) = Kept(Append(c.whole, c.rest))
    BY <1>3, <1>7, Zenon DEF Shown, c
  <2>6. CASE r.srcErr = "none"
    <3>1. r.events = Seen(c.whole) /\ r.received \o r.out = Kept(c.whole) /\ ~r.ended /\ r.done # "complete"
      <4>1. r.events = Seen(c.whole) /\ r.received \o r.out = Kept(c.whole)
        BY <2>1, <2>6, Zenon DEF Filtered, c
      <4>2. r.ended => r.srcErr # "none"
        BY <2>1, Zenon DEF Filtered
      <4>3. r.done = "complete" => r.srcErr = "eof"
        BY <2>1, Zenon DEF Filtered
      <4> QED
        BY <2>6, <4>1, <4>2, <4>3
    <3>2. Completes(r.received, r.out \o keep(c.rest), Shown(r, sent)) /\ r.out \o keep(c.rest) \in Q
      <4>1. Regroups(r.received, r.out, keep(c.rest))
        BY <1>2, <2>4, GivenMore, Zenon
      <4>2. r.out \o keep(c.rest) \in Q
        BY <1>2, <2>4, ConcatProperties
      <4> QED
        BY <2>3, <2>5, <3>1, <4>1, <4>2, Zenon DEF Completes, Regroups
    <3>3. Completes(r.events, see(c.rest), Payloads(s))
      <4>1. Seen(c.whole) \o see(c.rest) = Payloads(s)
        BY <1>1, <1>4, <2>1, BlocksSeen, Zenon DEF c
      <4> QED
        BY <3>1, <4>1, Zenon DEF Completes
    <3>4. IsPrefix(r.received, Shown(r, sent))
      BY <1>2, <3>2, Beginning, Zenon
    <3>5. IsPrefix(r.events, Payloads(s)) /\ IsPrefix(r.events, Payloads(w))
      BY <1>e, <2>4, <3>3, Zenon
    <3> QED
      BY <1>2, <1>3, <1>6, <3>1, <3>4, <3>5, Zenon DEF Shows, Q
  <2>7. CASE r.srcErr # "none"
    <3>1. /\ r.events = Payloads(s) /\ r.received \o r.out = Shown(r, sent)
          /\ r.srcErr = "eof" => r.upstream = << >>
          /\ r.ended => r.out = << >>
          /\ r.done = "complete" => r.srcErr = "eof"
      BY <2>1, <2>5, <2>7, Zenon DEF Filtered, c
    <3>2. Completes(r.received, r.out, Shown(r, sent))
      BY <3>1, Zenon DEF Completes
    <3>3. Completes(r.events, << >>, Payloads(s))
      <4>1. Payloads(s) \o << >> = Payloads(s)
        BY <1>6, ConcatEmptySeq
      <4> QED
        BY <3>1, <4>1, Zenon DEF Completes
    <3>4. IsPrefix(r.received, Shown(r, sent))
      BY <1>2, <3>2, Beginning, Zenon
    <3>5. IsPrefix(r.events, Payloads(s)) /\ IsPrefix(r.events, Payloads(w))
      BY <1>6, <1>e, <3>3, Zenon
    <3>6. r.ended => r.received = Shown(r, sent)
      <4>1. r.received \o << >> = r.received
        BY <1>2, ConcatEmptySeq
      <4> QED
        BY <3>1, <4>1, Zenon
    <3> QED
      BY <1>2, <1>3, <1>5, <1>6, <2>1, <3>1, <3>4, <3>5, <3>6, Zenon DEF Shows, Q
  <2> QED
    BY <2>6, <2>7, Zenon
<1>8. CASE ~r.filtering
  <2>1. PassedOn(r, s)
    BY <1>1, <1>8, Zenon DEF MadeOf
  <2>2. r.received = Shown(r, sent) /\ Shown(r, sent) = s
    BY <1>3, <1>8, <2>1, Zenon DEF PassedOn, Shown
  <2>3. IsPrefix(r.received, Shown(r, sent))
    <3>1. s \o << >> = s
      BY ConcatEmptySeq
    <3>2. Completes(s, << >>, s)
      BY <3>1, Zenon DEF Completes
    <3>3. IsPrefix(s, s)
      BY <1>6, <3>2, Beginning, Zenon
    <3> QED
      BY <2>2, <3>3, Zenon
  <2>4. IsPrefix(r.events, Payloads(s)) /\ IsPrefix(r.events, Payloads(w))
    <3>1. CASE r.streaming
      <4>1. Completes(r.events, handleLine(r.pending), Payloads(s))
        BY <2>1, <3>1, Zenon DEF PassedOn, Observes, Completes
      <4>2. handleLine(r.pending) \in Q
        BY <1>2, LinesOf, Zenon
      <4> QED
        BY <1>e, <4>1, <4>2, Zenon
    <3>2. CASE ~r.streaming
      <4>1. r.events = << >> \/ r.events = Payloads(s)
        BY <2>1, <3>2 DEF PassedOn
      <4>2. << >> \o Payloads(s) = Payloads(s) /\ Payloads(s) \o << >> = Payloads(s)
        BY <1>6, ConcatEmptySeq
      <4>3. Completes(r.events, << >>, Payloads(s)) \/ Completes(r.events, Payloads(s), Payloads(s))
        BY <4>1, <4>2, Zenon DEF Completes
      <4> QED
        BY <1>6, <1>e, <4>3, Zenon
    <3> QED
      BY <3>1, <3>2, Zenon
  <2>5. r.done = "complete" => /\ sent = w
                               /\ r.events = IF r.truncated /\ ~r.streaming THEN << >> ELSE Payloads(w)
    <3>1. r.done = "complete" => /\ r.upstream = << >>
                                 /\ r.events = IF r.truncated /\ ~r.streaming THEN << >> ELSE Payloads(s)
      BY <2>1, Zenon DEF PassedOn
    <3> QED
      BY <1>3, <1>5, <3>1, Zenon
  <2> QED
    BY <1>2, <1>3, <1>6, <2>2, <2>3, <2>4, <2>5, Zenon DEF Shows, Q
<1> QED
  BY <1>7, <1>8, Zenon DEF Q
=============================================================================
