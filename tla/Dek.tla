-------------------------------- MODULE Dek --------------------------------
(***************************************************************************)
(* The DEK layer of the enclave: DekStore (dek/store.rs), fetch_and_store  *)
(* and rotation_task (dek/mod.rs).                                         *)
(*                                                                         *)
(* fetch_and_store is one call of main at startup and one call per tick of *)
(* the rotation task.  The task is spawned after main's call returned, so  *)
(* there is one call in flight at most and one program counter for it.     *)
(* Each of its awaits is a step of its own: the secret may be replaced     *)
(* between any two of them.  Key material is abstracted to the number of   *)
(* the Secrets Manager version it came from.                               *)
(***************************************************************************)
EXTENDS Naturals, Sequences

CONSTANT MaxVersions    \* bound on the versions ever put in Secrets Manager

ASSUME DekBounds == MaxVersions \in Nat \ {0}

VARIABLES secret,       \* secret[v]: what version v holds; AWSCURRENT is the last
          store,        \* DekStore.inner: the version stored, or NoDek
          fetchPc,      \* where the call of fetch_and_store stands
          caller,       \* who called it
          blob,         \* the version GetSecretValue returned to the call
          asOf,         \* history: AWSCURRENT when the call began
          high,         \* history: the last version stored, across restarts
          env           \* "calm": no longer ends the process from outside

vars == <<secret, store, fetchPc, caller, blob, asOf, high, env>>

NoDek == 0

\* "key32": binary, decrypts to 32 bytes; "otherLength": binary, decrypts to
\* some other length; "string": stored as a string, secret_binary() is None.
Kinds == {"key32", "otherLength", "string"}

\* "off": no process; "loaded": main's call returned Ok and rotation_task is
\* not spawned yet; "waiting": rotation_task awaits its next tick.
FetchPcs == {"off", "get", "decrypt", "store", "loaded", "waiting"}

Current == Len(secret)

Init ==
  /\ secret \in {<<k>> : k \in Kinds}
  /\ store = NoDek
  /\ fetchPc = "off"
  /\ caller = "main"
  /\ blob = NoDek
  /\ asOf = NoDek
  /\ high = NoDek
  /\ env = "crashing"
----------------------------------------------------------------------------
\* The end of the process: the store lives in enclave memory only.
ProcessEnds ==
  /\ fetchPc' = "off"
  /\ store' = NoDek
  /\ blob' = NoDek

\* Mutant: a failed rotation empties the store.
FetchErrClears ==
  IF caller = "main" THEN ProcessEnds
  ELSE fetchPc' = "waiting" /\ blob' = NoDek /\ store' = NoDek

\* Mutant: main ignores the error as rotation_task does.
FetchErrIgnored == fetchPc' = "waiting" /\ blob' = NoDek /\ UNCHANGED store

\* An Err from fetch_and_store: main's `?` ends the process, rotation_task
\* warns, keeps the previous key and awaits the next tick.
FetchErr ==
  IF caller = "main" THEN ProcessEnds
  ELSE fetchPc' = "waiting" /\ blob' = NoDek /\ UNCHANGED store

\* main: DekStore::new() and the call of fetch_and_store.
Start ==
  /\ fetchPc = "off"
  /\ fetchPc' = "get"
  /\ caller' = "main"
  /\ store' = NoDek
  /\ asOf' = Current
  /\ UNCHANGED <<secret, blob, high, env>>

\* main: rotation_task is spawned; its first tick, immediate, is skipped.
SpawnRotation ==
  /\ fetchPc = "loaded"
  /\ fetchPc' = "waiting"
  /\ UNCHANGED <<secret, store, caller, blob, asOf, high, env>>

\* A later tick of the rotation interval.
Tick ==
  /\ fetchPc = "waiting"
  /\ fetchPc' = "get"
  /\ caller' = "rotation_task"
  /\ asOf' = Current
  /\ UNCHANGED <<secret, store, blob, high, env>>

\* Mutant: a client-side cache answers with the version already stored.
SecretReturnedCached == IF store = NoDek THEN Current ELSE store

\* Mutant: startup asks for the version it was deployed with.
SecretReturnedPinned ==
  IF caller = "main" /\ secret[1] # "string" THEN 1 ELSE Current

\* The version get_secret_value returns: no version or stage is asked for.
SecretReturned == Current

GetSecretValue ==
  /\ fetchPc = "get"
  /\ secret[Current] # "string"
  /\ fetchPc' = "decrypt"
  /\ blob' = SecretReturned
  /\ UNCHANGED <<secret, store, caller, asOf, high, env>>

\* The call to Secrets Manager fails, or the secret is not binary.
GetSecretValueErr ==
  /\ fetchPc = "get"
  /\ FetchErr
  /\ UNCHANGED <<secret, caller, asOf, high, env>>

KmsDecrypt ==
  /\ fetchPc = "decrypt"
  /\ fetchPc' = "store"
  /\ UNCHANGED <<secret, store, caller, blob, asOf, high, env>>

\* The call to KMS fails, or its answer holds no plaintext.
KmsDecryptErr ==
  /\ fetchPc = "decrypt"
  /\ FetchErr
  /\ UNCHANGED <<secret, caller, asOf, high, env>>

\* Mutant: no length check.
LengthUnchecked(v) == v # NoDek

\* DekStore::store: key_bytes.len() = KEY_LEN.
LengthOk(v) == secret[v] = "key32"

\* DekStore::store, and the return of fetch_and_store to its caller.
StoreDek ==
  /\ fetchPc = "store"
  /\ LengthOk(blob)
  /\ store' = blob
  /\ high' = blob
  /\ blob' = NoDek
  /\ fetchPc' = IF caller = "main" THEN "loaded" ELSE "waiting"
  /\ UNCHANGED <<secret, caller, asOf, env>>

\* DekStore::store: InvalidLength.
StoreDekErr ==
  /\ fetchPc = "store"
  /\ ~LengthOk(blob)
  /\ FetchErr
  /\ UNCHANGED <<secret, caller, asOf, high, env>>
----------------------------------------------------------------------------
\* The environment: the operator puts a new secret value; the process ends
\* for a reason outside the DEK layer.
PutSecretValue(k) ==
  /\ Current < MaxVersions
  /\ secret' = Append(secret, k)
  /\ UNCHANGED <<store, fetchPc, caller, blob, asOf, high, env>>

Crash ==
  /\ fetchPc # "off"
  /\ env = "crashing"
  /\ ProcessEnds
  /\ UNCHANGED <<secret, caller, asOf, high, env>>

CrashesStop ==
  /\ env = "crashing"
  /\ env' = "calm"
  /\ UNCHANGED <<secret, store, fetchPc, caller, blob, asOf, high>>

Next ==
  \/ Start \/ SpawnRotation \/ Tick
  \/ GetSecretValue \/ GetSecretValueErr
  \/ KmsDecrypt \/ KmsDecryptErr
  \/ StoreDek \/ StoreDekErr
  \/ \E k \in Kinds : PutSecretValue(k)
  \/ Crash \/ CrashesStop

Spec == Init /\ [][Next]_vars

\* The runner restarts the enclave, main and the task run on, and the AWS
\* calls do not fail for ever.  Nothing makes the operator or a crash act.
Fairness ==
  /\ WF_vars(Start) /\ WF_vars(SpawnRotation) /\ WF_vars(Tick)
  /\ SF_vars(GetSecretValue) /\ SF_vars(KmsDecrypt)
  /\ WF_vars(GetSecretValue \/ GetSecretValueErr)
  /\ WF_vars(KmsDecrypt \/ KmsDecryptErr)
  /\ WF_vars(StoreDek \/ StoreDekErr)

FairSpec == Spec /\ Fairness
----------------------------------------------------------------------------
TypeOK ==
  /\ secret \in Seq(Kinds) /\ Len(secret) \in 1..MaxVersions
  /\ store \in 0..MaxVersions /\ blob \in 0..MaxVersions
  /\ asOf \in 0..MaxVersions /\ high \in 0..MaxVersions
  /\ fetchPc \in FetchPcs
  /\ caller \in {"main", "rotation_task"}
  /\ env \in {"crashing", "calm"}

\* The inductive invariant behind the properties below: what is stored was
\* the last version stored, the rotation task runs with a key in the store,
\* and a version in flight was published and is no older than the last one
\* stored and than AWSCURRENT at the start of its fetch.
FetchInv ==
  /\ store \in {NoDek, high}
  /\ high <= Current
  /\ store # NoDek => secret[store] = "key32"
  /\ fetchPc = "off" => store = NoDek
  /\ fetchPc \in {"loaded", "waiting"} => store # NoDek
  /\ caller = "rotation_task" /\ fetchPc # "off" => store # NoDek
  /\ fetchPc \in {"get", "decrypt", "store"} => asOf <= Current
  /\ fetchPc \in {"decrypt", "store"} => blob \in asOf..Current /\ blob >= high /\ blob # NoDek

\* Only a well-formed 256-bit key is ever handed to the handlers: DekStore::store
\* refuses every other length, whatever the secret held when it was fetched.
StoredKeyIsWellFormed == store # NoDek => secret[store] = "key32"

\* The stored version never goes back, neither when secret and KMS answers
\* interleave with puts nor across a restart, whose first fetch is as new.
DekNeverGoesBack == [][high' >= high]_vars

\* The key is lost with the process only: "On rotation failure the previous
\* key is retained" (rotation_task).
KeyLostOnlyWithProcess == [][store # NoDek /\ store' = NoDek => fetchPc' = "off"]_vars

\* A fetch that succeeds stores a key at least as new as the one that was
\* current when it began: a put is picked up by the next successful rotation.
FetchIsFresh == [][StoreDek => store' >= asOf]_vars

\* The DEK layer implements the register of DekRegister.
Register == INSTANCE DekRegister WITH
  Versions <- 1..MaxVersions, Empty <- NoDek, key <- store,
  usable <- {v \in 1..Len(secret) : secret[v] = "key32"}

ImplementsRegister == Register!Spec

\* Once crashes stop, a well-formed key that stays current is eventually the
\* stored one, through failing calls, malformed earlier versions and failed
\* startups (fetch_and_store, rotation_task).
CurrentKeyIsPickedUp ==
  \A v \in 1..MaxVersions :
    (env = "calm" /\ Current = v /\ secret[v] = "key32") ~> (Current > v \/ store = v)
=============================================================================
