------------------------------ MODULE Service ------------------------------
(***************************************************************************)
(* The enclave service: main (main.rs), the DEK layer (Dek), the schema    *)
(* layer (Schemas) and the request handlers (Handlers) in one process.     *)
(***************************************************************************)
EXTENDS Handlers

CONSTANTS Keys, Rank, PageSize, MaxEdits                      \* of Schemas

VARIABLES fetchPc, caller, blob, asOf,                        \* of Dek
          bucket, loadPc, loader, todo, schemas, listed, seen, edits,
                                                              \* of Schemas
          phase,        \* where main stands
          env           \* "calm": no longer ends the process from outside

D == INSTANCE Dek WITH env <- "crashing"
S == INSTANCE Schemas WITH env <- "crashing"

ASSUME ServiceConstants == D!DekBounds /\ S!SchemaConstants

dekVars == <<secret, store, fetchPc, caller, blob, asOf, high>>
schemaVars == <<bucket, cache, loadPc, loader, todo, schemas, listed, seen, edits>>
vars == <<dekVars, schemaVars, phase, requestVars, env>>

\* "down": no process; "dek", "schemas": main awaits the first fetch, the first
\* load; "tls": the tasks are spawned, the listener is not bound yet.
Phases == {"down", "dek", "schemas", "tls", "serving"}

Init ==
  /\ D!Init /\ S!Init
  /\ phase = "down"
  /\ NoRequests
  /\ env = "crashing"
----------------------------------------------------------------------------
(* main, and the end of the process.                                       *)

DekEnds == D!ProcessEnds /\ UNCHANGED <<secret, caller, asOf, high>>
SchemasEnd == S!ProcessEnds /\ UNCHANGED <<bucket, loader, edits>>

\* Mutant: main leaves the first fetch to the rotation task.
BootUnfetched ==
  /\ phase = "down"
  /\ phase' = "dek"
  /\ fetchPc' = "waiting" /\ caller' = "rotation_task"
  /\ UNCHANGED <<secret, store, blob, asOf, high, schemaVars, requestVars, env>>

\* main, steps 1 to 5: a failure of the first four leaves the process down.
Boot ==
  /\ phase = "down"
  /\ phase' = "dek"
  /\ D!Start
  /\ UNCHANGED <<schemaVars, requestVars, env>>

\* Mutant: main leaves the first load to the refresh task.
BootSchemasUnloaded ==
  /\ phase = "dek" /\ fetchPc = "loaded"
  /\ phase' = "schemas"
  /\ loadPc' = "waiting" /\ loader' = "refresh_task"
  /\ UNCHANGED <<bucket, cache, todo, schemas, listed, seen, edits, dekVars, requestVars, env>>

\* main, step 6.
BootSchemas ==
  /\ phase = "dek" /\ fetchPc = "loaded"
  /\ phase' = "schemas"
  /\ S!Start
  /\ UNCHANGED <<dekVars, requestVars, env>>

\* Mutant: main does not await its first load.
SpawnTasksEarly ==
  /\ phase = "schemas"
  /\ phase' = "tls"
  /\ D!SpawnRotation
  /\ UNCHANGED <<schemaVars, requestVars, env>>

\* main, step 8: both background tasks are spawned.
SpawnTasks ==
  /\ phase = "schemas" /\ loadPc = "loaded"
  /\ phase' = "tls"
  /\ D!SpawnRotation /\ S!SpawnRefresh
  /\ UNCHANGED <<requestVars, env>>

\* main, steps 9 and 10: certificate, key, router and listener.
Listen ==
  /\ phase = "tls"
  /\ phase' = "serving"
  /\ UNCHANGED <<dekVars, schemaVars, requestVars, env>>

\* The process ends with both tasks: the certificate cannot be read or the port
\* bound, accept fails (its `?` returns from main) or the enclave is stopped.
ProcessEnds ==
  /\ phase # "down"
  /\ env = "crashing"
  /\ phase' = "down"
  /\ DekEnds /\ SchemasEnd /\ RequestsLost
  /\ UNCHANGED env

\* A step of fetch_and_store; an Err in main ends the process.
InDek(A) ==
  /\ A
  /\ phase' = IF fetchPc' = "off" THEN "down" ELSE phase
  /\ UNCHANGED <<schemaVars, requestVars, env>>

DekOk ==
  \/ InDek(D!Tick) \/ InDek(D!GetSecretValue) \/ InDek(D!KmsDecrypt) \/ InDek(D!StoreDek)

DekErr ==
  \/ InDek(D!GetSecretValueErr) \/ InDek(D!KmsDecryptErr) \/ InDek(D!StoreDekErr)

\* A step of load_all; an Err in main, or a stack overflow in either caller,
\* ends the process and with it the rotation task and the handlers.
InSchemas(A) ==
  /\ A
  /\ IF loadPc' = "off"
     THEN phase' = "down" /\ DekEnds /\ RequestsLost /\ UNCHANGED env
     ELSE UNCHANGED <<phase, dekVars, requestVars, env>>

SchemaOk ==
  \/ InSchemas(S!Tick) \/ InSchemas(S!ListObjects)
  \/ \E k \in Keys : InSchemas(S!GetObject(k))
  \/ InSchemas(S!ReplaceAll)

SchemaErr ==
  \/ InSchemas(S!ListObjectsErr) \/ InSchemas(S!GetObjectErr) \/ InSchemas(S!StackOverflow)

PutSecretValue(k) ==
  D!PutSecretValue(k) /\ UNCHANGED <<phase, schemaVars, requestVars, env>>

CrashesStop ==
  /\ env = "crashing"
  /\ env' = "calm"
  /\ UNCHANGED <<phase, dekVars, schemaVars, requestVars>>

EditObject(k, d) ==
  S!EditObject(k, d) /\ UNCHANGED <<phase, dekVars, requestVars, env>>

\* The handlers run while the process serves and write no shared state.
InHandlers(A) == A /\ UNCHANGED <<dekVars, schemaVars, phase, env>>

Serve(r) ==
  \/ phase = "serving" /\ \E i \in Inputs : InHandlers(Arrive(r, i))
  \/ InHandlers(Handle(r)) \/ InHandlers(Timeout(r)) \/ InHandlers(Disconnect(r))
----------------------------------------------------------------------------
Next ==
  \/ Boot \/ BootSchemas \/ SpawnTasks \/ Listen \/ ProcessEnds
  \/ DekOk \/ DekErr \/ SchemaOk \/ SchemaErr
  \/ \E k \in D!Kinds : PutSecretValue(k)
  \/ \E k \in Keys, d \in S!Contents : EditObject(k, d)
  \/ CrashesStop
  \/ \E r \in Requests : Serve(r)

Spec == Init /\ [][Next]_vars

\* The runner restarts the enclave, main, the tasks and the handlers run on, the
\* AWS calls do not fail for ever, and every request is answered or times out.
\* Nothing makes a client, the operator or a crash act.
Fairness ==
  /\ WF_vars(Boot) /\ WF_vars(BootSchemas) /\ WF_vars(SpawnTasks) /\ WF_vars(Listen)
  /\ SF_vars(InDek(D!GetSecretValue)) /\ SF_vars(InDek(D!KmsDecrypt))
  /\ WF_vars(DekOk \/ DekErr)
  /\ SF_vars(InSchemas(S!ListObjects))
  /\ \A k \in Keys : SF_vars(InSchemas(S!GetObject(k)))
  /\ WF_vars(SchemaOk \/ SchemaErr)
  /\ \A r \in Requests : WF_vars(InHandlers(Proceed(r))) /\ WF_vars(InHandlers(Timeout(r)))

FairSpec == Spec /\ Fairness
----------------------------------------------------------------------------
TypeOK ==
  /\ D!TypeOK /\ S!TypeOK
  /\ phase \in Phases
  /\ RequestTypes
  /\ env \in {"crashing", "calm"}

\* The inductive invariant of startup: which step of main each phase stands for,
\* and that requests are in flight only while the process serves.
PhaseInv ==
  /\ phase = "down" <=> fetchPc = "off"
  /\ phase \in {"down", "dek"} => loadPc = "off"
  /\ loadPc = "off" => /\ cache = S!Empty /\ schemas = S!Empty
                       /\ todo = {} /\ listed = {} /\ seen = S!NothingSeen
  /\ phase = "dek" => caller = "main" /\ fetchPc # "waiting"
  /\ phase = "schemas" => fetchPc = "loaded" /\ loader = "main" /\ loadPc \notin {"off", "waiting"}
  /\ phase \in {"tls", "serving"} =>
       /\ fetchPc = "waiting" \/ (fetchPc # "loaded" /\ caller = "rotation_task")
       /\ loadPc = "waiting" \/ (loadPc \in {"list", "fetch"} /\ loader = "refresh_task")
  /\ \A r \in Requests : pc[r] \in InFlight => phase = "serving"

\* health answers 200 only when, at the time of the answer, there are a key and a
\* schema, though it reads the two at different times.
HealthIsTruthful ==
  [][\A r \in Requests :
       Health(r) /\ answer'[r].status = 200 => store # NoDek /\ cache # S!Empty]_vars

\* The composed service implements its two layers as they were specified alone:
\* main starts each once and in order, and their ends coincide.
ImplementsDek == D!Spec
ImplementsSchemas == S!Spec

\* Every request that reached the service ends, a request whose client never sends
\* the body included (TimeoutLayer, the handlers).
EveryRequestEnds ==
  \A r \in Requests : pc[r] = "body" ~> pc[r] \in {"done", "lost"}

\* Once crashes stop, the secret and the bucket are left alone and both hold what
\* loads, the service comes up and stays up (main, run-enclave.sh's restart).
ServiceComesUp ==
  /\ env = "calm" /\ D!Current = MaxVersions /\ secret[MaxVersions] = "key32"
  /\ edits = MaxEdits /\ \A k \in S!Present : bucket[k] \in Parsable \ Recursive
  ~> [](phase = "serving")
=============================================================================
