------------------------------- MODULE Fleet --------------------------------
(***************************************************************************)
(* The gateways that share a database, as they start, are redeployed and   *)
(* crash: cmd/spendlease serve; the migrations a start begins with         *)
(* (internal/store/sqlite, postgres: migrate.go); and the vault            *)
(* (internal/vault, credentials.go) whose master key is changed while they *)
(* run.  The steps of that change are the operators' (docs/self-hosting.md,*)
(* "Rotate the master key").                                               *)
(***************************************************************************)
EXTENDS Integers, Sequences, FiniteSets

CONSTANTS
  Replica, Provider,
  Ships,         \* Ships[r]: the number of migrations r's binary has
  MaxSecret,     \* bound on the vendor keys put
  MaxCrashes     \* bound on the crashes

ASSUME Binaries == Ships \in [Replica -> Nat] /\ MaxSecret \in Nat /\ MaxCrashes \in Nat

VARIABLES
  backend,       \* of the database
  schema,        \* schema_migrations: the versions in the order applied
  credentials,   \* the table of that name; a vendor key is a number
  replica,       \* [config, phase, todo] of each gateway
  command,       \* `keys master rotate`: [phase, batch]
  rotated,       \* it succeeded
  secrets,       \* how many vendor keys have been put
  latest,        \* history: the vendor key put last of each provider, or 0
  crashes

fleetVars == <<backend, schema, credentials, replica, command, rotated, secrets, latest, crashes>>

(* The master keys in a gateway's environment, at each stage: resolved by  *)
(* resolveMasterKeys.                                                      *)
Config == {"old", "both", "new"}

Primary(config)  == IF config = "old" THEN "old key" ELSE "new key"
Previous(config) == IF config = "both" THEN {"old key"} ELSE {}

(* The environments in which `keys master rotate` does not refuse to run.  *)
MayRotate(config) == Previous(config) # {}

None == [key |-> "none", secret |-> 0]
NotRunning == [phase |-> "idle", batch |-> << >>]
Highest == CHOOSE n \in {Ships[r] : r \in Replica} : \A r \in Replica : Ships[r] <= n

FleetInit ==
  /\ backend \in {"sqlite", "postgres"}
  /\ schema = << >>
  /\ credentials = [p \in Provider |-> None] /\ latest = [p \in Provider |-> 0]
  /\ replica = [r \in Replica |-> [config |-> "old", phase |-> "down", todo |-> {}]]
  /\ command = NotRunning /\ rotated = FALSE
  /\ secrets = 0 /\ crashes = 0

-----------------------------------------------------------------------------
(***************************************************************************)
(* The vault.                                                              *)
(***************************************************************************)

decrypts(config, c) == c.key \in {Primary(config)} \union Previous(config)

(* Mutant: a write uses the key the other credentials are under.           *)
MutEncrypt(config, secret) ==
  [key |-> IF Previous(config) # {} THEN "old key" ELSE Primary(config), secret |-> secret]

encrypt(config, secret) == [key |-> Primary(config), secret |-> secret]

(* On PostgreSQL the writers of credentials share an advisory lock, so     *)
(* that the row locks of a rotation (FOR UPDATE) make no one wait longer.  *)
CredentialsLockFree == backend = "sqlite" \/ command.phase = "idle"

(* Put and Delete, from the dashboard or a command in the same environment.*)
Put(r, p) ==
  /\ replica[r].phase = "serving" /\ secrets < MaxSecret /\ CredentialsLockFree
  /\ secrets' = secrets + 1
  /\ credentials' = [credentials EXCEPT ![p] = encrypt(replica[r].config, secrets')]
  /\ latest' = [latest EXCEPT ![p] = secrets']
  /\ UNCHANGED <<backend, schema, replica, command, rotated, crashes>>

Delete(r, p) ==
  /\ replica[r].phase = "serving" /\ CredentialsLockFree
  /\ credentials[p] # None
  /\ credentials' = [credentials EXCEPT ![p] = None]
  /\ latest' = [latest EXCEPT ![p] = 0]
  /\ UNCHANGED <<backend, schema, replica, command, rotated, secrets, crashes>>

-----------------------------------------------------------------------------
(***************************************************************************)
(* Start-up, in the order of serve: the schema, then each credential, then *)
(* requests.  What fails ends the process.                                 *)
(***************************************************************************)

Down(r) == [replica EXCEPT ![r].phase = "down", ![r].todo = {}]

(* Mutant: what is recorded as applied is not looked at.                   *)
MutMissing(r) == 1 .. Ships[r]

Missing(r) == 1 .. Ships[r] \ {schema[i] : i \in DOMAIN schema}

Lowest(S)  == CHOOSE n \in S : \A m \in S : n <= m
InOrder(S) == [i \in 1 .. Cardinality(S) |-> CHOOSE n \in S : Cardinality({m \in S : m <= n}) = i]

(* migrate reads what is applied: of SQLite once and outside a             *)
(* transaction; of PostgreSQL in the one it applies all of them in, under  *)
(* a lock, so that it is one step.                                         *)
Start(r) ==
  /\ replica[r].phase = "down"
  /\ IF backend = "sqlite"
     THEN replica' = [replica EXCEPT ![r].phase = "migrating", ![r].todo = Missing(r)] /\ UNCHANGED schema
     ELSE replica' = [replica EXCEPT ![r].phase = "listing"] /\ schema' = schema \o InOrder(Missing(r))
  /\ UNCHANGED <<backend, credentials, command, rotated, secrets, latest, crashes>>

(* Mutant: a migration is recorded in a transaction of its own.            *)
MutConflicts(n) == FALSE

(* A version is the primary key of its record, and the record is written   *)
(* in the transaction of its migration.                                    *)
Conflicts(n) == \E i \in DOMAIN schema : schema[i] = n

applyOne(r) ==
  /\ replica[r].phase = "migrating"
  /\ IF replica[r].todo = {}
     THEN replica' = [replica EXCEPT ![r].phase = "listing"] /\ UNCHANGED schema
     ELSE LET n == Lowest(replica[r].todo)
          IN  IF Conflicts(n)
              THEN replica' = Down(r) /\ UNCHANGED schema
              ELSE replica' = [replica EXCEPT ![r].todo = @ \ {n}] /\ schema' = Append(schema, n)
  /\ UNCHANGED <<backend, credentials, command, rotated, secrets, latest, crashes>>

(* Verify lists the providers and then reads each credential: one that was *)
(* deleted in between fails it like one that cannot be decrypted.          *)
VerifyList(r) ==
  /\ replica[r].phase = "listing"
  /\ replica' = [replica EXCEPT ![r].phase = "verifying",
                                ![r].todo = {p \in Provider : credentials[p] # None}]
  /\ UNCHANGED <<backend, schema, credentials, command, rotated, secrets, latest, crashes>>

VerifyOne(r) ==
  /\ replica[r].phase = "verifying"
  /\ IF replica[r].todo = {} THEN replica' = [replica EXCEPT ![r].phase = "serving"]
     ELSE \E p \in replica[r].todo :
            replica' = IF credentials[p] # None /\ decrypts(replica[r].config, credentials[p])
                       THEN [replica EXCEPT ![r].todo = @ \ {p}]
                       ELSE Down(r)
  /\ UNCHANGED <<backend, schema, credentials, command, rotated, secrets, latest, crashes>>

Crash(r) ==
  /\ crashes < MaxCrashes /\ replica[r].phase # "down"
  /\ crashes' = crashes + 1 /\ replica' = Down(r)
  /\ UNCHANGED <<backend, schema, credentials, command, rotated, secrets, latest>>

-----------------------------------------------------------------------------
(***************************************************************************)
(* The change of the master key.                                           *)
(***************************************************************************)

(* Steps 3 and 5: a gateway is restarted with the next configuration.      *)
Deploy(r) ==
  /\ \/ replica[r].config = "old"
        /\ replica' = [Down(r) EXCEPT ![r].config = "both"]
     \/ replica[r].config = "both" /\ rotated
        /\ replica' = [Down(r) EXCEPT ![r].config = "new"]
  /\ UNCHANGED <<backend, schema, credentials, command, rotated, secrets, latest, crashes>>

(* Step 4: the command is run when every gateway has both keys.            *)
(* RotateCredentials reads all credentials and decrypts each.              *)
RotateRead(config) ==
  /\ MayRotate(config)
  /\ command.phase = "idle" /\ ~rotated
  /\ \A r \in Replica : replica[r].config # "old"
  /\ \A n \in 1 .. Highest : \E i \in DOMAIN schema : schema[i] = n
  /\ \A p \in Provider : credentials[p] # None => decrypts(config, credentials[p])
  /\ command' = [phase |-> "rotating", batch |-> credentials]
  /\ UNCHANGED <<backend, schema, credentials, replica, rotated, secrets, latest, crashes>>

(* Mutant: the credentials are read with s.db, outside the transaction.    *)
MutUnchangedSinceRead == TRUE

(* A transaction that has read cannot write in SQLite when another process *)
(* has written since.                                                      *)
UnchangedSinceRead == backend = "sqlite" => credentials = command.batch

RotateCommit ==
  /\ command.phase = "rotating" /\ UnchangedSinceRead
  /\ credentials' = [p \in Provider |-> IF command.batch[p] = None THEN credentials[p]
                                        ELSE encrypt("both", command.batch[p].secret)]
  /\ command' = NotRunning /\ rotated' = TRUE
  /\ UNCHANGED <<backend, schema, replica, secrets, latest, crashes>>

(* It is rolled back, for that or any other reason.                        *)
RotateFail ==
  /\ command.phase = "rotating"
  /\ command' = NotRunning
  /\ UNCHANGED <<backend, schema, credentials, replica, rotated, secrets, latest, crashes>>

FleetNext ==
  \/ \E r \in Replica : \/ Start(r) \/ applyOne(r) \/ VerifyList(r) \/ VerifyOne(r)
                        \/ Crash(r) \/ Deploy(r)
                        \/ \E p \in Provider : Put(r, p) \/ Delete(r, p)
  \/ (\E config \in Config : RotateRead(config)) \/ RotateCommit \/ RotateFail

FleetSpec == FleetInit /\ [][FleetNext]_fleetVars

(* A process that ended is started again (docs/self-hosting.md:84), and a  *)
(* start goes on.                                                          *)
FleetFairSpec ==
  /\ FleetSpec
  /\ \A r \in Replica : WF_fleetVars(Start(r) \/ applyOne(r) \/ VerifyList(r) \/ VerifyOne(r))

-----------------------------------------------------------------------------
(***************************************************************************)
(* Properties.                                                             *)
(***************************************************************************)

(* No vendor key is lost or brought back: the credential of a provider is  *)
(* the one put last, and none after a delete, although a rotation writes   *)
(* back what it read (RotateCredentials, lockCredentialsTx).               *)
LatestCredential == \A p \in Provider : credentials[p].secret = latest[p]

(* docs/self-hosting.md:215, no running replica faces a vault it cannot    *)
(* read: a gateway that serves can decrypt every credential, unless it has *)
(* not been redeployed and one that has stored a new vendor key; and once  *)
(* the rotation succeeded every gateway can, with the new key alone        *)
(* (Put, Rotate, Verify, decrypt).                                         *)
ReadableVault ==
  \A p \in Provider : credentials[p] # None =>
    /\ rotated => decrypts("new", credentials[p])
    /\ \A r \in Replica :
         replica[r].phase = "serving" /\ ~decrypts(replica[r].config, credentials[p])
         => replica[r].config = "old" /\ \E other \in Replica : replica[other].config # "old"

(* However many gateways of however many versions start at once, and       *)
(* wherever one crashes, each migration is applied once, in order, and a   *)
(* gateway serves with all of its own (migrate, applyOne).                 *)
SchemaInOrder ==
  /\ \A i \in DOMAIN schema : schema[i] = i
  /\ \A r \in Replica : replica[r].phase = "serving" => Ships[r] <= Len(schema)

(* A start that failed over the migrations of another one, or over a       *)
(* credential that was deleted while it was verified, gets through in the  *)
(* end: always later a gateway serves, or its configuration lacks the key  *)
(* of some credential (Verify, migrate).                                   *)
GatewaysGetThrough ==
  \A r \in Replica :
    []<>(\/ replica[r].phase = "serving"
         \/ \E p \in Provider : credentials[p] # None /\ ~decrypts(replica[r].config, credentials[p]))
=============================================================================
