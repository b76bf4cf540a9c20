---------------------------- MODULE FleetProofs -----------------------------
(***************************************************************************)
(* Gateways that start, crash and are redeployed, for any number of them,  *)
(* of versions, providers and vendor keys: no vendor key is lost to a      *)
(* rotation, the vault stays readable through a change of the master key,  *)
(* and each migration is applied once and in order.                        *)
(***************************************************************************)
EXTENDS Fleet, FiniteSetTheorems, SequenceTheorems, TLAPS

Credential == [key : {"none", "old key", "new key"}, secret : Nat]

Phase == {"down", "migrating", "listing", "verifying", "serving"}

Gateway == [config : Config, phase : Phase, todo : SUBSET (Nat \cup Provider)]

FleetTyped ==
  /\ backend \in {"sqlite", "postgres"}
  /\ schema \in Seq(Nat)
  /\ credentials \in [Provider -> Credential]
  /\ latest \in [Provider -> Nat]
  /\ replica \in [Replica -> Gateway]
  /\ command.phase \in {"idle", "rotating"}
  /\ command.phase = "rotating" => command.batch \in [Provider -> Credential]
  /\ rotated \in BOOLEAN
  /\ secrets \in Nat

FleetStep == [FleetNext]_fleetVars

-----------------------------------------------------------------------------
(***************************************************************************)
(* What a step does to each part of the state.                             *)
(***************************************************************************)

(* Credentials change in Put, Delete and RotateCommit only.                *)
LEMMA CredentialSteps ==
  ASSUME FleetStep
  PROVE  \/ \E r \in Replica, p \in Provider : Put(r, p) \/ Delete(r, p)
         \/ RotateCommit
         \/ UNCHANGED <<credentials, latest, secrets>>
BY DEF FleetStep, FleetNext, fleetVars, Start, applyOne, VerifyList, VerifyOne, Crash, Deploy,
       RotateRead, RotateFail

(* The schema changes in Start and applyOne only.                          *)
LEMMA SchemaSteps ==
  ASSUME FleetStep
  PROVE  (\E r \in Replica : Start(r) \/ applyOne(r)) \/ UNCHANGED schema
BY DEF FleetStep, FleetNext, fleetVars, Put, Delete, VerifyList, VerifyOne, Crash, Deploy,
       RotateRead, RotateCommit, RotateFail

LEMMA FleetInitTyped == FleetInit => FleetTyped
<1> SUFFICES ASSUME FleetInit PROVE FleetTyped
  OBVIOUS
<1>1. credentials \in [Provider -> Credential] /\ latest \in [Provider -> Nat]
  BY DEF FleetInit, None, Credential
<1>2. schema \in Seq(Nat)
  BY EmptySeq DEF FleetInit
<1>3. replica \in [Replica -> Gateway]
  BY DEF FleetInit, Gateway, Config, Phase
<1> QED
  BY <1>1, <1>2, <1>3 DEF FleetInit, FleetTyped, NotRunning

(* The versions still to apply are in the order of their numbers.          *)
LEMMA IntervalInOrder ==
  ASSUME NEW m \in Nat, NEW n \in Nat
  PROVE  /\ InOrder(m + 1 .. n) \in Seq(Nat)
         /\ Len(InOrder(m + 1 .. n)) = IF m > n THEN 0 ELSE n - m
         /\ \A i \in 1 .. Len(InOrder(m + 1 .. n)) : InOrder(m + 1 .. n)[i] = m + i
<1> DEFINE S == m + 1 .. n
           k == IF m > n THEN 0 ELSE n - m
           upto(x) == {q \in S : q <= x}
<1>1. Cardinality(S) = k /\ k \in Nat
  <2>1. m + 1 \in Int /\ n \in Int
    OBVIOUS
  <2>2. Cardinality(S) = IF m + 1 > n THEN 0 ELSE n - (m + 1) + 1
    BY <2>1, FS_Interval
  <2> QED
    BY <2>2
<1>2. ASSUME NEW x \in S
      PROVE  Cardinality(upto(x)) = x - m
  <2>1. upto(x) = m + 1 .. x
    OBVIOUS
  <2>2. m + 1 \in Int /\ x \in Int /\ ~(m + 1 > x)
    OBVIOUS
  <2>3. Cardinality(m + 1 .. x) = x - (m + 1) + 1
    BY <2>2, FS_Interval
  <2>4. x - (m + 1) + 1 = x - m
    BY <2>2
  <2> HIDE DEF upto
  <2> QED
    BY <2>1, <2>3, <2>4
<1>3. ASSUME NEW i \in 1 .. k
      PROVE  (CHOOSE x \in S : Cardinality(upto(x)) = i) = m + i
  <2>1. m + i \in S /\ i \in Int
    <3>1. m <= n
      BY <1>1
    <3> QED
      BY <3>1
  <2>2. \A x \in S : x \in Int
    OBVIOUS
  <2> HIDE DEF upto, S
  <2>3. \A x \in S : Cardinality(upto(x)) = i <=> x = m + i
    BY <1>2, <2>1, <2>2
  <2> QED
    BY <2>1, <2>3
<1>4. InOrder(S) = [i \in 1 .. k |-> m + i]
  BY <1>1, <1>3 DEF InOrder
<1>5. \A i \in 1 .. k : m + i \in Nat
  OBVIOUS
<1> HIDE DEF S
<1>6. InOrder(S) \in [1 .. k -> Nat]
  BY <1>4, <1>5
<1> HIDE DEF k
<1>7. InOrder(S) \in Seq(Nat)
  BY <1>1, <1>6, SeqDef
<1>8. Len(InOrder(S)) = k
  BY <1>1, <1>6, <1>7, LenProperties
<1> QED
  BY <1>4, <1>7, <1>8 DEF S, k

-----------------------------------------------------------------------------

(* What an update of one row does to the table of gateways.                *)
Row(f, g, r) == \A other \in Replica \ {r} : g[other] = f[other]

(* A process that ends.                                                    *)
LEMMA DownRow ==
  ASSUME FleetTyped, NEW r \in Replica
  PROVE  /\ Down(r) \in [Replica -> Gateway] /\ Row(replica, Down(r), r)
         /\ Down(r)[r].phase = "down" /\ Down(r)[r].config = replica[r].config
<1>1. "down" \in Phase /\ {} \in SUBSET (Nat \cup Provider) /\ replica \in [Replica -> Gateway]
  BY DEF Phase, FleetTyped
<1> QED
  BY <1>1 DEF Down, Row, Gateway

-----------------------------------------------------------------------------
(* What each action does to the row of its gateway.                        *)
Kept(r) == /\ replica' \in [Replica -> Gateway] /\ Row(replica, replica', r)
           /\ replica'[r].config = replica[r].config

LEMMA StartRow ==
  ASSUME FleetTyped, NEW r \in Replica, Start(r)
  PROVE  /\ Kept(r)
         /\ \/ /\ replica'[r].phase = "migrating" /\ replica'[r].todo = Missing(r)
               /\ UNCHANGED schema
            \/ /\ replica'[r].phase = "listing"
               /\ schema' = schema \o InOrder(Missing(r))
<1>1. Missing(r) \in SUBSET (Nat \cup Provider)
  BY Binaries DEF Missing
<1>2. "migrating" \in Phase /\ "listing" \in Phase /\ replica \in [Replica -> Gateway]
  BY DEF Phase, FleetTyped
<1>3. CASE backend = "sqlite"
  <2>1. replica' = [replica EXCEPT ![r].phase = "migrating", ![r].todo = Missing(r)] /\ UNCHANGED schema
    BY <1>3 DEF Start
  <2> QED
    BY <1>1, <1>2, <2>1 DEF Kept, Row, Gateway
<1>4. CASE backend # "sqlite"
  <2>1. replica' = [replica EXCEPT ![r].phase = "listing"] /\ schema' = schema \o InOrder(Missing(r))
    BY <1>4 DEF Start
  <2> QED
    BY <1>2, <2>1 DEF Kept, Row, Gateway
<1> QED
  BY <1>3, <1>4

LEMMA ApplyRow ==
  ASSUME FleetTyped, NEW r \in Replica, applyOne(r)
  PROVE  /\ Kept(r) /\ replica[r].phase = "migrating"
         /\ \/ /\ replica[r].todo = {} /\ replica'[r].phase = "listing" /\ UNCHANGED schema
            \/ replica'[r].phase = "down" /\ UNCHANGED schema
            \/ \E n : /\ replica[r].todo # {} /\ n = Lowest(replica[r].todo) /\ ~Conflicts(n)
                     /\ replica'[r].phase = "migrating"
                     /\ replica'[r].todo = replica[r].todo \ {n}
                     /\ schema' = Append(schema, n)
<1>1. "migrating" \in Phase /\ "listing" \in Phase /\ replica \in [Replica -> Gateway]
  BY DEF Phase, FleetTyped
<1>2. replica[r].phase = "migrating"
  BY DEF applyOne
<1>3. CASE replica[r].todo = {}
  <2>1. replica' = [replica EXCEPT ![r].phase = "listing"] /\ UNCHANGED schema
    BY <1>3 DEF applyOne
  <2> QED
    BY <1>1, <1>2, <1>3, <2>1 DEF Kept, Row, Gateway
<1>4. CASE replica[r].todo # {}
  <2> DEFINE n == Lowest(replica[r].todo)
  <2>1. CASE Conflicts(n)
    <3>1. replica' = Down(r) /\ UNCHANGED schema
      BY <1>4, <2>1 DEF applyOne
    <3> QED
      BY <1>2, <3>1, DownRow DEF Kept
  <2>2. CASE ~Conflicts(n)
    <3>1. replica' = [replica EXCEPT ![r].todo = @ \ {n}] /\ schema' = Append(schema, n)
      BY <1>4, <2>2 DEF applyOne
    <3> HIDE DEF n
    <3>2. replica[r].todo \ {n} \in SUBSET (Nat \cup Provider)
      BY <1>1 DEF Gateway
    <3>3. replica' = [replica EXCEPT ![r].todo = replica[r].todo \ {n}]
      BY <1>1, <3>1 DEF Gateway
    <3>4. Kept(r) /\ replica'[r].phase = replica[r].phase /\ replica'[r].todo = replica[r].todo \ {n}
      BY <1>1, <3>2, <3>3 DEF Kept, Row, Gateway
    <3> QED
      BY <1>2, <1>4, <2>2, <3>1, <3>4 DEF n
  <2> QED
    BY <2>1, <2>2
<1> QED
  BY <1>3, <1>4

LEMMA VerifyRow ==
  ASSUME FleetTyped, NEW r \in Replica, VerifyList(r) \/ VerifyOne(r)
  PROVE  /\ Kept(r) /\ replica[r].phase \in {"listing", "verifying"}
         /\ replica'[r].phase \in {"down", "verifying", "serving"}
<1>1. {"verifying", "serving"} \subseteq Phase /\ replica \in [Replica -> Gateway]
  BY DEF Phase, FleetTyped
<1>2. CASE VerifyList(r)
  <2> DEFINE t == {p \in Provider : credentials[p] # None}
  <2>1. t \in SUBSET (Nat \cup Provider)
    OBVIOUS
  <2>2. replica' = [replica EXCEPT ![r].phase = "verifying", ![r].todo = t] /\ replica[r].phase = "listing"
    BY <1>2 DEF VerifyList
  <2> HIDE DEF t
  <2> QED
    BY <1>1, <2>1, <2>2 DEF Kept, Row, Gateway
<1>3. CASE VerifyOne(r)
  <2>1. CASE replica' = [replica EXCEPT ![r].phase = "serving"]
    BY <1>1, <1>3, <2>1 DEF Kept, Row, Gateway, VerifyOne
  <2>2. CASE replica' = Down(r)
    BY <1>3, <2>2, DownRow DEF Kept, VerifyOne
  <2>3. ASSUME NEW p \in replica[r].todo, replica' = [replica EXCEPT ![r].todo = @ \ {p}]
        PROVE  Kept(r) /\ replica'[r].phase = replica[r].phase
    <3>1. replica[r].todo \ {p} \in SUBSET (Nat \cup Provider)
      BY <1>1 DEF Gateway
    <3>2. replica' = [replica EXCEPT ![r].todo = replica[r].todo \ {p}]
      BY <1>1, <2>3 DEF Gateway
    <3> QED
      BY <1>1, <3>1, <3>2 DEF Kept, Row, Gateway
  <2>4. replica[r].phase = "verifying"
    BY <1>3 DEF VerifyOne
  <2>5. \/ replica' = [replica EXCEPT ![r].phase = "serving"] \/ replica' = Down(r)
        \/ \E p \in replica[r].todo : replica' = [replica EXCEPT ![r].todo = @ \ {p}]
    BY <1>3 DEF VerifyOne
  <2> QED
    BY <2>1, <2>2, <2>3, <2>4, <2>5
<1> QED
  BY <1>2, <1>3

LEMMA EndRow ==
  ASSUME FleetTyped, NEW r \in Replica, Crash(r) \/ Deploy(r)
  PROVE  /\ replica' \in [Replica -> Gateway] /\ Row(replica, replica', r)
         /\ replica'[r].phase = "down"
         /\ \/ replica'[r].config = replica[r].config
            \/ replica'[r].config = "both"
            \/ rotated /\ replica'[r].config = "new"
<1>1. {"both", "new"} \subseteq Config
  BY DEF Config
<1>2. CASE replica' = Down(r)
  BY <1>2, DownRow
<1>3. CASE replica' = [Down(r) EXCEPT ![r].config = "both"]
  <2> DEFINE f == Down(r)
  <2>1. f \in [Replica -> Gateway] /\ Row(replica, f, r) /\ f[r].phase = "down"
    BY DownRow
  <2>2. replica' = [f EXCEPT ![r].config = "both"]
    BY <1>3
  <2> HIDE DEF f
  <2> QED
    BY <1>1, <2>1, <2>2 DEF Row, Gateway
<1>4. CASE rotated /\ replica' = [Down(r) EXCEPT ![r].config = "new"]
  <2> DEFINE f == Down(r)
  <2>1. f \in [Replica -> Gateway] /\ Row(replica, f, r) /\ f[r].phase = "down"
    BY DownRow
  <2>2. replica' = [f EXCEPT ![r].config = "new"]
    BY <1>4
  <2> HIDE DEF f
  <2> QED
    BY <1>1, <1>4, <2>1, <2>2 DEF Row, Gateway
<1> QED
  BY <1>2, <1>3, <1>4 DEF Crash, Deploy

(* Gateways change one at a time.                                          *)
LEMMA ReplicaSteps ==
  ASSUME FleetStep
  PROVE  \/ \E r \in Replica : \/ Start(r) \/ applyOne(r) \/ VerifyList(r) \/ VerifyOne(r)
                               \/ Crash(r) \/ Deploy(r)
         \/ UNCHANGED replica
BY DEF FleetStep, FleetNext, fleetVars, Put, Delete, RotateRead, RotateCommit, RotateFail

LEMMA ReplicaTyped ==
  ASSUME FleetTyped, FleetStep
  PROVE  replica' \in [Replica -> Gateway]
<1>1. ASSUME NEW r \in Replica,
             \/ Start(r) \/ applyOne(r) \/ VerifyList(r) \/ VerifyOne(r) \/ Crash(r) \/ Deploy(r)
      PROVE  replica' \in [Replica -> Gateway]
  BY <1>1, StartRow, ApplyRow, VerifyRow, EndRow DEF Kept
<1> QED
  BY <1>1, ReplicaSteps DEF FleetTyped

LEMMA CredentialsTyped ==
  ASSUME FleetTyped, FleetStep
  PROVE  credentials' \in [Provider -> Credential] /\ latest' \in [Provider -> Nat] /\ secrets' \in Nat
<1>1. ASSUME NEW r \in Replica, NEW p \in Provider, Put(r, p)
      PROVE  credentials' \in [Provider -> Credential] /\ latest' \in [Provider -> Nat] /\ secrets' \in Nat
  <2>1. secrets' \in Nat
    BY <1>1 DEF Put, FleetTyped
  <2>2. encrypt(replica[r].config, secrets') \in Credential
    BY <2>1 DEF encrypt, Primary, Credential
  <2> QED
    BY <1>1, <2>1, <2>2 DEF Put, FleetTyped
<1>2. ASSUME NEW r \in Replica, NEW p \in Provider, Delete(r, p)
      PROVE  credentials' \in [Provider -> Credential] /\ latest' \in [Provider -> Nat] /\ secrets' \in Nat
  <2>1. None \in Credential
    BY DEF None, Credential
  <2> QED
    BY <1>2, <2>1 DEF Delete, FleetTyped
<1>3. CASE RotateCommit
  <2>1. \A p \in Provider : encrypt("both", command.batch[p].secret) \in Credential
    BY <1>3 DEF RotateCommit, encrypt, Primary, Credential, FleetTyped
  <2> QED
    BY <1>3, <2>1 DEF RotateCommit, FleetTyped
<1> QED
  BY <1>1, <1>2, <1>3, CredentialSteps DEF FleetTyped

-----------------------------------------------------------------------------
(***************************************************************************)
(* Migrations.                                                             *)
(***************************************************************************)

(* What a gateway has still to apply are the last of its migrations, from  *)
(* one that is applied or the next: another gateway may have gone ahead.   *)
Applying(r) ==
  replica[r].phase = "migrating" =>
    \E k \in Nat \ {0} : k <= Len(schema) + 1 /\ replica[r].todo = k .. Ships[r]

SchemaInvariant ==
  /\ \A i \in DOMAIN schema : schema[i] = i
  /\ \A r \in Replica :
       /\ replica[r].phase \in {"listing", "verifying", "serving"} => Ships[r] <= Len(schema)
       /\ Applying(r)

LEMMA LowestOfInterval ==
  ASSUME NEW k \in Nat, NEW n \in Nat, k <= n
  PROVE  Lowest(k .. n) = k
<1>1. k \in k .. n /\ \A m \in k .. n : m \in Int /\ k <= m
  OBVIOUS
<1>2. \A x \in k .. n : (\A m \in k .. n : x <= m) => x = k
  BY <1>1
<1> QED
  BY <1>1, <1>2 DEF Lowest

(* When the versions applied are 1 to Len(schema), the missing ones of a   *)
(* binary are those after.                                                 *)
LEMMA MissingTail ==
  ASSUME FleetTyped, SchemaInvariant, NEW r \in Replica
  PROVE  Missing(r) = Len(schema) + 1 .. Ships[r] /\ Ships[r] \in Nat /\ Len(schema) \in Nat
<1>1. Ships[r] \in Nat /\ Len(schema) \in Nat /\ DOMAIN schema = 1 .. Len(schema)
  BY Binaries, LenProperties DEF FleetTyped
<1>2. {schema[i] : i \in DOMAIN schema} = 1 .. Len(schema)
  BY <1>1 DEF SchemaInvariant
<1> QED
  BY <1>1, <1>2 DEF Missing

(* A schema that only grows keeps what holds of the other gateways.        *)
LEMMA OthersKept ==
  ASSUME FleetTyped, SchemaInvariant, NEW r \in Replica, Row(replica, replica', r),
         Len(schema') \in Nat, Len(schema) \in Nat, Len(schema) <= Len(schema'),
         NEW other \in Replica \ {r}
  PROVE  /\ replica'[other].phase \in {"listing", "verifying", "serving"} => Ships[other] <= Len(schema')
         /\ Applying(other)'
<1>1. replica'[other] = replica[other] /\ Ships[other] \in Nat
  BY Binaries DEF Row
<1> QED
  BY <1>1 DEF SchemaInvariant, Applying

LEMMA SchemaStart ==
  ASSUME FleetTyped, SchemaInvariant, NEW r \in Replica, Start(r)
  PROVE  SchemaInvariant' /\ schema' \in Seq(Nat)
<1> DEFINE l == Len(schema)
<1>0. Missing(r) = l + 1 .. Ships[r] /\ Ships[r] \in Nat /\ l \in Nat
  BY MissingTail
<1>1. Row(replica, replica', r)
  BY StartRow DEF Kept
<1>2. CASE replica'[r].phase = "migrating" /\ replica'[r].todo = Missing(r) /\ UNCHANGED schema
  <2>1. Applying(r)'
    BY <1>0, <1>2 DEF Applying
  <2>2. \A other \in Replica \ {r} :
          /\ replica'[other].phase \in {"listing", "verifying", "serving"} => Ships[other] <= Len(schema')
          /\ Applying(other)'
    BY <1>0, <1>1, <1>2, OthersKept
  <2> QED
    BY <1>2, <2>1, <2>2 DEF SchemaInvariant, FleetTyped
<1>3. CASE replica'[r].phase = "listing" /\ schema' = schema \o InOrder(Missing(r))
  <2> DEFINE s == InOrder(Missing(r))
  <2>1. s \in Seq(Nat) /\ Len(s) = (IF l > Ships[r] THEN 0 ELSE Ships[r] - l)
        /\ \A i \in 1 .. Len(s) : s[i] = l + i
    BY <1>0, IntervalInOrder
  <2> HIDE DEF s
  <2>2. schema' = schema \o s /\ schema \in Seq(Nat)
    BY <1>3 DEF s, FleetTyped
  <2>3. schema' \in Seq(Nat) /\ Len(schema') = l + Len(s)
        /\ \A i \in 1 .. l + Len(s) : schema'[i] = IF i <= l THEN schema[i] ELSE s[i - l]
    BY <1>0, <2>1, <2>2, ConcatProperties
  <2>4. DOMAIN schema = 1 .. l /\ DOMAIN schema' = 1 .. Len(schema') /\ Len(schema') \in Nat
    BY <2>2, <2>3, LenProperties
  <2>5. \A i \in DOMAIN schema' : schema'[i] = i
    BY <1>0, <2>1, <2>3, <2>4 DEF SchemaInvariant
  <2>6. l <= Len(schema') /\ Ships[r] <= Len(schema')
    BY <1>0, <2>1, <2>3
  <2>7. Applying(r)'
    BY <1>3 DEF Applying
  <2>8. \A other \in Replica \ {r} :
          /\ replica'[other].phase \in {"listing", "verifying", "serving"} => Ships[other] <= Len(schema')
          /\ Applying(other)'
    BY <1>0, <1>1, <2>4, <2>6, OthersKept
  <2> HIDE DEF l
  <2> QED
    BY <2>3, <2>5, <2>6, <2>7, <2>8 DEF SchemaInvariant
<1> QED
  BY <1>2, <1>3, StartRow

LEMMA SchemaApply ==
  ASSUME FleetTyped, SchemaInvariant, NEW r \in Replica, applyOne(r)
  PROVE  SchemaInvariant' /\ schema' \in Seq(Nat)
<1> DEFINE l == Len(schema)
<1>0. Ships[r] \in Nat /\ l \in Nat /\ DOMAIN schema = 1 .. l /\ schema \in Seq(Nat)
  BY Binaries, LenProperties DEF FleetTyped
<1>1. Row(replica, replica', r) /\ replica[r].phase = "migrating"
  BY ApplyRow DEF Kept
<1>2. PICK k \in Nat \ {0} : k <= l + 1 /\ replica[r].todo = k .. Ships[r]
  BY <1>1 DEF SchemaInvariant, Applying
<1>3. CASE UNCHANGED schema /\ (replica'[r].phase = "listing" => replica[r].todo = {})
           /\ replica'[r].phase \in {"down", "listing"}
  <2>1. replica'[r].phase = "listing" => Ships[r] <= l
    BY <1>0, <1>2, <1>3
  <2>2. \A other \in Replica \ {r} :
          /\ replica'[other].phase \in {"listing", "verifying", "serving"} => Ships[other] <= Len(schema')
          /\ Applying(other)'
    BY <1>0, <1>1, <1>3, OthersKept
  <2> QED
    BY <1>0, <1>3, <2>1, <2>2 DEF SchemaInvariant, Applying
<1>4. ASSUME NEW n, replica[r].todo # {}, n = Lowest(replica[r].todo), ~Conflicts(n),
             replica'[r].phase = "migrating", replica'[r].todo = replica[r].todo \ {n},
             schema' = Append(schema, n)
      PROVE  SchemaInvariant' /\ schema' \in Seq(Nat)
  <2>1. k <= Ships[r]
    BY <1>0, <1>2, <1>4
  <2>2. n = k
    BY <1>0, <1>2, <1>4, <2>1, LowestOfInterval
  <2>3. k = l + 1
    <3>1. k \notin DOMAIN schema
      BY <1>4, <2>2 DEF Conflicts, SchemaInvariant
    <3> QED
      BY <1>0, <1>2, <3>1
  <2>4. schema' \in Seq(Nat) /\ Len(schema') = l + 1
        /\ \A i \in 1 .. l + 1 : schema'[i] = IF i <= l THEN schema[i] ELSE k
    BY <1>0, <1>2, <1>4, <2>2, AppendProperties
  <2>5. DOMAIN schema' = 1 .. l + 1
    BY <2>4, LenProperties
  <2>6. \A i \in DOMAIN schema' : schema'[i] = i
    BY <1>0, <2>3, <2>4, <2>5 DEF SchemaInvariant
  <2>7. replica'[r].todo = k + 1 .. Ships[r] /\ k + 1 \in Nat \ {0} /\ k + 1 <= Len(schema') + 1
    BY <1>0, <1>2, <1>4, <2>2, <2>3, <2>4
  <2>8. Applying(r)'
    BY <2>7 DEF Applying
  <2>9. \A other \in Replica \ {r} :
          /\ replica'[other].phase \in {"listing", "verifying", "serving"} => Ships[other] <= Len(schema')
          /\ Applying(other)'
    BY <1>0, <1>1, <2>4, OthersKept
  <2> QED
    BY <1>4, <2>4, <2>6, <2>8, <2>9 DEF SchemaInvariant
<1> QED
  BY <1>3, <1>4, ApplyRow DEF FleetTyped

LEMMA SchemaOther ==
  ASSUME FleetTyped, SchemaInvariant, NEW r \in Replica, UNCHANGED schema, Row(replica, replica', r),
         \/ replica'[r].phase = "down"
         \/ /\ replica[r].phase \in {"listing", "verifying"}
            /\ replica'[r].phase \in {"verifying", "serving"}
  PROVE  SchemaInvariant'
<1>1. Len(schema) \in Nat
  BY LenProperties DEF FleetTyped
<1>2. \A other \in Replica \ {r} :
        /\ replica'[other].phase \in {"listing", "verifying", "serving"} => Ships[other] <= Len(schema')
        /\ Applying(other)'
  BY <1>1, OthersKept
<1> QED
  BY <1>2 DEF SchemaInvariant, Applying

LEMMA SchemaStep ==
  ASSUME FleetTyped, SchemaInvariant, FleetStep
  PROVE  SchemaInvariant' /\ schema' \in Seq(Nat)
<1>1. ASSUME NEW r \in Replica, Start(r) \/ applyOne(r)
      PROVE  SchemaInvariant' /\ schema' \in Seq(Nat)
  BY <1>1, SchemaStart, SchemaApply
<1>2. ASSUME NEW r \in Replica, VerifyList(r) \/ VerifyOne(r) \/ Crash(r) \/ Deploy(r)
      PROVE  SchemaInvariant' /\ schema' \in Seq(Nat)
  <2>1. UNCHANGED schema
    BY <1>2 DEF VerifyList, VerifyOne, Crash, Deploy
  <2>2. Row(replica, replica', r)
    BY <1>2, VerifyRow, EndRow DEF Kept
  <2>3. \/ replica'[r].phase = "down"
        \/ /\ replica[r].phase \in {"listing", "verifying"}
           /\ replica'[r].phase \in {"verifying", "serving"}
    BY <1>2, VerifyRow, EndRow
  <2> QED
    BY <2>1, <2>2, <2>3, SchemaOther DEF FleetTyped
<1>3. CASE UNCHANGED <<schema, replica>>
  BY <1>3 DEF SchemaInvariant, Applying, FleetTyped
<1>4. UNCHANGED replica => UNCHANGED schema \/ \E r \in Replica : Start(r) \/ applyOne(r)
  BY SchemaSteps
<1> QED
  BY <1>1, <1>2, <1>3, <1>4, ReplicaSteps

LEMMA FleetTypedStep ==
  ASSUME FleetTyped, SchemaInvariant, FleetStep
  PROVE  FleetTyped'
<1>1. credentials' \in [Provider -> Credential] /\ latest' \in [Provider -> Nat] /\ secrets' \in Nat
  BY CredentialsTyped
<1>2. replica' \in [Replica -> Gateway] /\ schema' \in Seq(Nat)
  BY ReplicaTyped, SchemaStep
<1>3. /\ UNCHANGED backend
      /\ \/ UNCHANGED <<command, rotated>>
         \/ UNCHANGED rotated /\ command' = [phase |-> "rotating", batch |-> credentials]
         \/ command' = NotRunning /\ rotated' \in {rotated, TRUE}
  BY DEF FleetStep, FleetNext, fleetVars, Start, applyOne, VerifyList, VerifyOne, Crash, Deploy,
         Put, Delete, RotateRead, RotateCommit, RotateFail
<1>4. /\ command'.phase \in {"idle", "rotating"}
      /\ command'.phase = "rotating" => command'.batch \in [Provider -> Credential]
  <2>1. CASE UNCHANGED command
    BY <2>1 DEF FleetTyped
  <2>2. CASE command' = [phase |-> "rotating", batch |-> credentials]
    BY <2>2 DEF FleetTyped
  <2>3. CASE command' = NotRunning
    BY <2>3 DEF NotRunning
  <2> QED
    BY <1>3, <2>1, <2>2, <2>3
<1>5. backend' \in {"sqlite", "postgres"} /\ rotated' \in BOOLEAN
  BY <1>3 DEF FleetTyped
<1> QED
  BY <1>1, <1>2, <1>4, <1>5 DEF FleetTyped

-----------------------------------------------------------------------------
(***************************************************************************)
(* The vault.                                                              *)
(***************************************************************************)

(* What the rotation will write back on PostgreSQL is still what is there, *)
(* as its writers wait; on SQLite its commit finds out.                    *)
BatchIsCurrent ==
  command.phase = "rotating" /\ backend = "postgres" => command.batch = credentials

(* The stages of a change of the master key.                               *)
KeyStages ==
  /\ \A p \in Provider :
       /\ credentials[p] # None => credentials[p].key \in {"old key", "new key"} /\ Replica # {}
       /\ credentials[p].key = "new key" => \E r \in Replica : replica[r].config # "old"
       /\ rotated /\ credentials[p] # None => credentials[p].key = "new key"
  /\ \A r \in Replica :
       /\ replica[r].config = "new" => rotated
       /\ rotated \/ command.phase = "rotating" => replica[r].config # "old"

VaultInvariant == LatestCredential /\ BatchIsCurrent /\ KeyStages

LEMMA VaultInit == FleetInit => VaultInvariant
<1> SUFFICES ASSUME FleetInit PROVE VaultInvariant
  OBVIOUS
<1>1. \A p \in Provider : credentials[p] = None /\ latest[p] = 0
  BY DEF FleetInit
<1>2. None.key = "none" /\ None.secret = 0
  BY DEF None
<1>3. command.phase = "idle" /\ ~rotated /\ \A r \in Replica : replica[r].config = "old"
  BY DEF FleetInit, NotRunning
<1> QED
  BY <1>1, <1>2, <1>3 DEF VaultInvariant, LatestCredential, BatchIsCurrent, KeyStages

(* What the commit overwrites is what the rotation read.                   *)
LEMMA CommitIsCurrent ==
  ASSUME FleetTyped, VaultInvariant, RotateCommit
  PROVE  command.batch = credentials
BY DEF FleetTyped, VaultInvariant, BatchIsCurrent, RotateCommit, UnchangedSinceRead

LEMMA BatchStep ==
  ASSUME FleetTyped, VaultInvariant, FleetStep
  PROVE  BatchIsCurrent'
<1> USE DEF VaultInvariant, BatchIsCurrent
<1>1. ASSUME NEW r \in Replica, NEW p \in Provider, Put(r, p) \/ Delete(r, p)
      PROVE  BatchIsCurrent'
  BY <1>1 DEF Put, Delete, CredentialsLockFree
<1>2. CASE RotateCommit
  BY <1>2 DEF RotateCommit, NotRunning
<1>3. ASSUME NEW config \in Config, RotateRead(config)
      PROVE  BatchIsCurrent'
  BY <1>3 DEF RotateRead
<1>4. CASE RotateFail
  BY <1>4 DEF RotateFail, NotRunning
<1>5. CASE UNCHANGED <<command, backend, credentials>>
  BY <1>5
<1> QED
  BY <1>1, <1>2, <1>3, <1>4, <1>5 DEF FleetStep, FleetNext, fleetVars, Start, applyOne,
     VerifyList, VerifyOne, Crash, Deploy

LEMMA LatestStep ==
  ASSUME FleetTyped, VaultInvariant, FleetStep
  PROVE  LatestCredential'
<1>1. ASSUME NEW r \in Replica, NEW p \in Provider, Put(r, p)
      PROVE  LatestCredential'
  BY <1>1 DEF Put, encrypt, LatestCredential, VaultInvariant, FleetTyped
<1>2. ASSUME NEW r \in Replica, NEW p \in Provider, Delete(r, p)
      PROVE  LatestCredential'
  BY <1>2 DEF Delete, None, LatestCredential, VaultInvariant, FleetTyped
<1>3. CASE RotateCommit
  <2>1. command.batch = credentials
    BY <1>3, CommitIsCurrent
  <2>2. \A p \in Provider : credentials'[p].secret = credentials[p].secret
    BY <1>3, <2>1 DEF RotateCommit, encrypt
  <2> QED
    BY <1>3, <2>2 DEF RotateCommit, LatestCredential, VaultInvariant
<1>4. CASE UNCHANGED <<credentials, latest>>
  BY <1>4 DEF LatestCredential, VaultInvariant
<1> QED
  BY <1>1, <1>2, <1>3, <1>4, CredentialSteps

(* Configurations only go forward, and to the new key alone only after the *)
(* rotation.                                                               *)
LEMMA ConfigsGoForward ==
  ASSUME FleetTyped, FleetStep, NEW r \in Replica
  PROVE  \/ replica'[r].config \in {replica[r].config, "both"}
         \/ rotated /\ replica'[r].config = "new"
<1>1. ASSUME NEW changed \in Replica,
             \/ Start(changed) \/ applyOne(changed) \/ VerifyList(changed) \/ VerifyOne(changed)
      PROVE  replica'[r].config = replica[r].config
  BY <1>1, StartRow, ApplyRow, VerifyRow DEF Kept, Row
<1>2. ASSUME NEW changed \in Replica, Crash(changed) \/ Deploy(changed)
      PROVE  \/ replica'[r].config \in {replica[r].config, "both"}
             \/ rotated /\ replica'[r].config = "new"
  BY <1>2, EndRow DEF Row
<1> QED
  BY <1>1, <1>2, ReplicaSteps

LEMMA KeyStagesStep ==
  ASSUME FleetTyped, VaultInvariant, FleetStep
  PROVE  KeyStages'
<1>1. \A r \in Replica : /\ replica'[r].config = "new" => replica[r].config = "new" \/ rotated
                         /\ replica[r].config # "old" => replica'[r].config # "old"
  BY ConfigsGoForward
<1>2. /\ UNCHANGED rotated \/ RotateCommit
      /\ \/ command'.phase = command.phase
         \/ \E config \in Config : RotateRead(config)
         \/ command'.phase = "idle"
  <2>1. /\ UNCHANGED rotated \/ RotateCommit
        /\ UNCHANGED command \/ (\E config \in Config : RotateRead(config)) \/ command' = NotRunning
    BY DEF FleetStep, FleetNext, fleetVars, Start, applyOne, VerifyList, VerifyOne, Crash, Deploy,
           Put, Delete, RotateCommit, RotateFail, RotateRead
  <2>2. NotRunning.phase = "idle"
    BY DEF NotRunning
  <2> QED
    BY <2>1, <2>2
<1>6. UNCHANGED rotated \/ rotated' = TRUE
  BY <1>2 DEF RotateCommit
<1>3. \A r \in Replica : replica'[r].config = "new" => rotated'
  <2>1. rotated => rotated'
    BY <1>6
  <2> QED
    BY <1>1, <2>1 DEF VaultInvariant, KeyStages
<1>4. rotated' \/ command'.phase = "rotating" => \A r \in Replica : replica'[r].config # "old"
  <2>1. rotated \/ command.phase = "rotating" => \A r \in Replica : replica[r].config # "old"
    BY DEF VaultInvariant, KeyStages
  <2>2. (\E config \in Config : RotateRead(config)) => \A r \in Replica : replica[r].config # "old"
    BY DEF RotateRead
  <2>3. RotateCommit => command.phase = "rotating"
    BY DEF RotateCommit
  <2> QED
    BY <1>1, <1>2, <2>1, <2>2, <2>3
<1> DEFINE Staged(c) ==
      /\ c # None => c.key \in {"old key", "new key"} /\ Replica # {}
      /\ c.key = "new key" => \E r \in Replica : replica'[r].config # "old"
      /\ rotated' /\ c # None => c.key = "new key"
<1>5. \A p \in Provider : Staged(credentials'[p])
  <2>1. ASSUME NEW p \in Provider, UNCHANGED rotated
        PROVE  Staged(credentials[p])
    <3>1. rotated' => rotated
      BY <2>1
    <3> QED
      BY <1>1, <3>1 DEF VaultInvariant, KeyStages
  <2>2. ASSUME NEW r \in Replica, NEW p \in Provider, Put(r, p)
        PROVE  Staged(encrypt(replica[r].config, secrets')) /\ UNCHANGED rotated
    <3>1. UNCHANGED rotated /\ UNCHANGED replica
      BY <2>2 DEF Put
    <3>2. rotated => replica[r].config # "old"
      BY DEF VaultInvariant, KeyStages
    <3> QED
      BY <3>1, <3>2 DEF encrypt, Primary
  <2>3. Staged(None)
    BY DEF None
  <2>4. CASE RotateCommit
    <3>1. command.batch = credentials
      BY <2>4, CommitIsCurrent
    <3>2. ASSUME NEW p \in Provider
          PROVE  Staged(credentials'[p])
      <4>1. CASE credentials[p] = None
        BY <2>3, <2>4, <3>1, <4>1 DEF RotateCommit
      <4>2. CASE credentials[p] # None
        <5>1. credentials'[p] = encrypt("both", credentials[p].secret)
          BY <2>4, <3>1, <4>2 DEF RotateCommit
        <5>2. \A r \in Replica : replica'[r].config # "old"
          BY <1>4, <2>4 DEF RotateCommit
        <5>3. Replica # {}
          BY <4>2 DEF VaultInvariant, KeyStages
        <5>4. credentials'[p].key = "new key"
          <6>1. \A x : encrypt("both", x).key = "new key"
            BY DEF encrypt, Primary
          <6> QED
            BY <5>1, <6>1
        <5> HIDE DEF None
        <5> QED
          BY <5>2, <5>3, <5>4
      <4> QED
        BY <4>1, <4>2
    <3> QED
      BY <3>2
  <2>5. ASSUME NEW r \in Replica, NEW p \in Provider, Put(r, p)
        PROVE  \A q \in Provider : Staged(credentials'[q])
    <3>1. \A q \in Provider : credentials'[q] = credentials[q] \/ credentials'[q] = encrypt(replica[r].config, secrets')
      BY <2>5 DEF Put, FleetTyped
    <3> HIDE DEF Staged
    <3> QED
      BY <2>1, <2>2, <2>5, <3>1
  <2>6. ASSUME NEW r \in Replica, NEW p \in Provider, Delete(r, p)
        PROVE  \A q \in Provider : Staged(credentials'[q])
    <3>1. \A q \in Provider : credentials'[q] = credentials[q] \/ credentials'[q] = None
      BY <2>6 DEF Delete, FleetTyped
    <3>2. UNCHANGED rotated
      BY <2>6 DEF Delete
    <3> HIDE DEF Staged
    <3> QED
      BY <2>1, <2>3, <3>1, <3>2
  <2>7. CASE UNCHANGED credentials /\ UNCHANGED rotated
    BY <2>1, <2>7
  <2> HIDE DEF Staged
  <2> QED
    BY <1>2, <2>4, <2>5, <2>6, <2>7, CredentialSteps
<1> QED
  BY <1>3, <1>4, <1>5 DEF KeyStages

-----------------------------------------------------------------------------
FleetInvariant == FleetTyped /\ SchemaInvariant /\ VaultInvariant

(* The three parts together are inductive.                                 *)
THEOREM FleetInvariantHolds == FleetSpec => []FleetInvariant
<1>1. FleetInit => FleetInvariant
  <2>1. FleetInit => SchemaInvariant
    BY DEF FleetInit, SchemaInvariant, Applying
  <2> QED
    BY <2>1, FleetInitTyped, VaultInit DEF FleetInvariant
<1>2. FleetInvariant /\ FleetStep => FleetInvariant'
  BY FleetTypedStep, SchemaStep, BatchStep, LatestStep, KeyStagesStep DEF FleetInvariant, VaultInvariant
<1> QED
  BY <1>1, <1>2, PTL DEF FleetSpec, FleetStep

(* No vendor key is lost or brought back: the credential of a provider is  *)
(* the one put last, and none after a delete, although a rotation writes   *)
(* back what it read (RotateCredentials, lockCredentialsTx).               *)
THEOREM RotationLosesNoCredential == FleetSpec => []LatestCredential
<1>1. FleetInvariant => LatestCredential
  BY DEF FleetInvariant, VaultInvariant
<1> QED
  BY <1>1, FleetInvariantHolds, PTL

(* A gateway that serves can decrypt every credential, unless it has not   *)
(* been redeployed and one that has stored a new vendor key; and once the  *)
(* rotation succeeded every gateway can, with the new key alone (Put,      *)
(* Rotate, decrypt).                                                       *)
THEOREM VaultStaysReadable == FleetSpec => []ReadableVault
<1>1. FleetInvariant => ReadableVault
  <2> SUFFICES ASSUME FleetInvariant, NEW p \in Provider, credentials[p] # None
               PROVE  /\ rotated => decrypts("new", credentials[p])
                      /\ \A r \in Replica :
                           ~decrypts(replica[r].config, credentials[p])
                           => replica[r].config = "old" /\ \E other \in Replica : replica[other].config # "old"
    BY DEF ReadableVault
  <2>1. KeyStages /\ \A r \in Replica : replica[r].config \in Config
    BY DEF FleetInvariant, VaultInvariant, FleetTyped, Gateway
  <2> QED
    BY <2>1 DEF KeyStages, decrypts, Primary, Previous, Config
<1> QED
  BY <1>1, FleetInvariantHolds, PTL

(* However many gateways of however many versions start at once, and       *)
(* wherever one crashes, each migration is applied once, in order, and a   *)
(* gateway serves with all of its own (migrate, applyOne).                 *)
THEOREM MigrationsInOrder == FleetSpec => []SchemaInOrder
<1>1. FleetInvariant => SchemaInOrder
  BY DEF FleetInvariant, SchemaInvariant, SchemaInOrder
<1> QED
  BY <1>1, FleetInvariantHolds, PTL
=============================================================================
