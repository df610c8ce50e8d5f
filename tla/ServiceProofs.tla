--------------------------- MODULE ServiceProofs ---------------------------
(***************************************************************************)
(* Proofs about the composed service, for every number of requests, key    *)
(* versions, schema objects and fields.                                    *)
(***************************************************************************)
EXTENDS Service, HandlersProofs, FiniteSetTheorems

\* What the startup argument needs of the types.
PhaseTypes == phase \in Phases /\ pc \in [Requests -> Pcs]

\* The layers' inductive invariants hold inside the service.
LayersInv == D!TypeOK /\ D!FetchInv /\ S!TypeOK /\ S!LoadInv

\* A step of a request, without the frame the service puts around it.
RequestStep(r) ==
  (\E i \in Inputs : Arrive(r, i)) \/ Handle(r) \/ Timeout(r) \/ Disconnect(r)

\* Serving a request moves neither main nor the layers (handlers.rs).
LEMMA ServeIsRequestStep ==
  ASSUME NEW r \in Requests, Serve(r)
  PROVE  RequestStep(r) /\ UNCHANGED <<dekVars, schemaVars, phase, env>>
  BY DEF Serve, InHandlers, RequestStep

\* A step of a request moves that request only, and only in a serving process.
LEMMA HandlersMoveOne ==
  ASSUME PhaseInv, NEW r \in Requests, Serve(r)
  PROVE  phase = "serving" /\ \E x \in Pcs : pc' = [pc EXCEPT ![r] = x]
<1> USE DEF PhaseInv, InFlight, Pcs
<1>1. ASSUME NEW s, NEW p, Done(r, s, p) PROVE pc' = [pc EXCEPT ![r] = "done"]
  BY <1>1 DEF Done
<1>2. ASSUME NEW s, NEW p, Answer(r, s, p) PROVE pc' = [pc EXCEPT ![r] = "done"]
  BY <1>1, <1>2 DEF Answer
<1>3. CASE Timeout(r) \/ RejectBody(r) \/ Health(r)
  BY <1>1, <1>3 DEF Timeout, RejectBody, Health
<1>4. CASE Lookup(r)
  BY <1>2, <1>4 DEF Lookup
<1>5. CASE ReadDek(r)
  BY <1>2, <1>5 DEF ReadDek
<1>6. CASE Encrypt(r)
  BY <1>2, <1>6 DEF Encrypt
<1>7. CASE Decrypt(r)
  BY <1>2, <1>7 DEF Decrypt
<1>8. CASE IsReady(r) \/ Disconnect(r)
  BY <1>8 DEF IsReady, Disconnect
<1>9. CASE phase = "serving" /\ \E i \in Inputs : Arrive(r, i)
  BY <1>9 DEF Arrive
<1> QED BY <1>3, <1>4, <1>5, <1>6, <1>7, <1>8, <1>9 DEF Serve, InHandlers, Handle, BodyArrives, Proceed

\* A step of the fetch keeps to its place in the startup order.
LEMMA DekKeepsPhase ==
  ASSUME phase \in Phases, PhaseInv, DekOk \/ DekErr
  PROVE  PhaseInv'
<1> USE DEF PhaseInv, Phases, InDek, schemaVars, requestVars
<1>1. CASE DekOk
  BY <1>1 DEF DekOk, D!Tick, D!GetSecretValue, D!KmsDecrypt, D!StoreDek
<1>2. CASE DekErr
  BY <1>2 DEF DekErr, D!GetSecretValueErr, D!KmsDecryptErr, D!StoreDekErr, D!FetchErr,
     D!ProcessEnds, InFlight
<1> QED BY <1>1, <1>2

\* So does a step of the load, whose failure ends everything.
LEMMA SchemasKeepPhase ==
  ASSUME phase \in Phases, PhaseInv, SchemaOk \/ SchemaErr
  PROVE  PhaseInv'
<1> USE DEF PhaseInv, Phases, InSchemas, dekVars, requestVars
<1>1. CASE SchemaOk
  BY <1>1 DEF SchemaOk, S!Tick, S!ListObjects, S!GetObject, S!ReplaceAll
<1>2. CASE SchemaErr
  BY <1>2 DEF SchemaErr, S!ListObjectsErr, S!GetObjectErr, S!StackOverflow, S!LoadErr,
     S!ProcessEnds, S!CallEnds, DekEnds, D!ProcessEnds, RequestsLost, InFlight
<1> QED BY <1>1, <1>2

\* Every step keeps main's place and the layers' in step.
LEMMA PhaseStep == PhaseTypes /\ PhaseInv /\ [Next]_vars => PhaseTypes' /\ PhaseInv'
<1> SUFFICES ASSUME PhaseTypes, PhaseInv, [Next]_vars PROVE PhaseTypes' /\ PhaseInv'
  OBVIOUS
<1> USE DEF PhaseTypes
<1>1. CASE Boot \/ BootSchemas \/ SpawnTasks \/ Listen
  BY <1>1 DEF Boot, BootSchemas, SpawnTasks, Listen, PhaseInv, Phases, requestVars, dekVars,
     schemaVars, D!Start, S!Start, D!SpawnRotation, S!SpawnRefresh
<1>2. CASE ProcessEnds
  BY <1>2 DEF ProcessEnds, DekEnds, SchemasEnd, RequestsLost, D!ProcessEnds, S!ProcessEnds,
     S!CallEnds, PhaseInv, Phases, Pcs, InFlight
<1>3. CASE DekOk \/ DekErr
  <2>1. PhaseTypes'
    BY <1>3 DEF DekOk, DekErr, InDek, Phases, requestVars
  <2> QED BY <1>3, <2>1, DekKeepsPhase
<1>4. CASE SchemaOk \/ SchemaErr
  <2>1. PhaseTypes'
    BY <1>4 DEF SchemaOk, SchemaErr, InSchemas, RequestsLost, Phases, Pcs, requestVars
  <2> QED BY <1>4, <2>1, SchemasKeepPhase
<1>5. CASE \/ \E k \in D!Kinds : PutSecretValue(k)
           \/ \E k \in Keys, d \in S!Contents : EditObject(k, d)
           \/ CrashesStop
  BY <1>5 DEF PutSecretValue, EditObject, CrashesStop, D!PutSecretValue, S!EditObject,
     PhaseInv, requestVars, dekVars, schemaVars
<1>6. ASSUME NEW r \in Requests, Serve(r)
      PROVE  PhaseTypes' /\ PhaseInv'
  BY <1>6, ServeIsRequestStep, HandlersMoveOne DEF PhaseInv, dekVars, schemaVars
<1>7. CASE UNCHANGED vars
  BY <1>7 DEF vars, PhaseInv, requestVars, dekVars, schemaVars
<1> QED BY <1>1, <1>2, <1>3, <1>4, <1>5, <1>6, <1>7 DEF Next

\* Every step of the service is a step of the DEK layer or leaves it alone.
LEMMA DekStep == PhaseTypes /\ PhaseInv /\ [Next]_vars => [D!Next]_(D!vars)
<1> SUFFICES ASSUME PhaseTypes, PhaseInv, [Next]_vars PROVE [D!Next]_(D!vars)
  OBVIOUS
<1>1. CASE Boot \/ SpawnTasks
  BY <1>1 DEF Boot, SpawnTasks, D!Next
<1>2. ASSUME DekEnds, fetchPc # "off" PROVE D!Next
  BY <1>2 DEF DekEnds, D!Crash, D!Next
<1>3. CASE ProcessEnds
  BY <1>2, <1>3 DEF ProcessEnds, PhaseInv
<1>4. CASE DekOk \/ DekErr
  BY <1>4 DEF DekOk, DekErr, InDek, D!Next
<1>5. CASE SchemaOk \/ SchemaErr
  <2>1. fetchPc # "off"
    BY <1>5 DEF SchemaOk, SchemaErr, InSchemas, PhaseInv, S!Tick, S!ListObjects, S!GetObject,
       S!ReplaceAll, S!ListObjectsErr, S!GetObjectErr, S!StackOverflow
  <2>2. DekEnds \/ UNCHANGED dekVars
    BY <1>5 DEF SchemaOk, SchemaErr, InSchemas
  <2> QED BY <1>2, <2>1, <2>2 DEF dekVars, D!vars
<1>6. CASE \E k \in D!Kinds : PutSecretValue(k)
  BY <1>6 DEF PutSecretValue, D!Next
<1>7. CASE \/ BootSchemas \/ Listen \/ CrashesStop \/ UNCHANGED vars
           \/ \E k \in Keys, d \in S!Contents : EditObject(k, d)
  BY <1>7 DEF BootSchemas, Listen, CrashesStop, EditObject, vars, dekVars, D!vars
<1>8. ASSUME NEW r \in Requests, Serve(r)
      PROVE  UNCHANGED D!vars
  BY <1>8, ServeIsRequestStep DEF dekVars, D!vars
<1> QED BY <1>1, <1>3, <1>4, <1>5, <1>6, <1>7, <1>8 DEF Next

\* Every step of the service is a step of the schema layer or leaves it alone.
LEMMA SchemasStep == PhaseTypes /\ PhaseInv /\ [Next]_vars => [S!Next]_(S!vars)
<1> SUFFICES ASSUME PhaseTypes, PhaseInv, [Next]_vars PROVE [S!Next]_(S!vars)
  OBVIOUS
<1>1. CASE BootSchemas \/ SpawnTasks
  BY <1>1 DEF BootSchemas, SpawnTasks, S!Next
<1>2. CASE ProcessEnds
  <2>1. CASE loadPc # "off"
    BY <1>2, <2>1 DEF ProcessEnds, SchemasEnd, S!Crash, S!Next
  <2>2. CASE loadPc = "off"
    BY <1>2, <2>2 DEF ProcessEnds, SchemasEnd, S!ProcessEnds, S!CallEnds, PhaseInv, S!vars
  <2> QED BY <2>1, <2>2
<1>3. CASE DekOk \/ DekErr
  BY <1>3 DEF DekOk, DekErr, InDek, schemaVars, S!vars
<1>4. CASE SchemaOk \/ SchemaErr
  BY <1>4 DEF SchemaOk, SchemaErr, InSchemas, S!Next
<1>5. CASE \E k \in Keys, d \in S!Contents : EditObject(k, d)
  BY <1>5 DEF EditObject, S!Next, S!Contents
<1>6. CASE \/ Boot \/ Listen \/ CrashesStop \/ UNCHANGED vars
           \/ \E k \in D!Kinds : PutSecretValue(k)
  BY <1>6 DEF Boot, Listen, CrashesStop, PutSecretValue, vars, schemaVars, S!vars
<1>7. ASSUME NEW r \in Requests, Serve(r)
      PROVE  UNCHANGED S!vars
  BY <1>7, ServeIsRequestStep DEF schemaVars, S!vars
<1> QED BY <1>1, <1>2, <1>3, <1>4, <1>5, <1>6, <1>7 DEF Next

\* main's startup order: which step each phase stands for holds throughout, and
\* a request is in flight only while the process serves.
THEOREM PhaseInvariant == Spec => [](PhaseTypes /\ PhaseInv)
<1>1. Init => PhaseTypes /\ PhaseInv
  BY DEF Init, NoRequests, D!Init, S!Init, PhaseTypes, PhaseInv, Phases, Pcs, InFlight
<1> QED BY <1>1, PhaseStep, PTL DEF Spec

\* The service implements the DEK layer: main starts it once, in order, and every
\* end of the process is one of its crashes.
THEOREM RefinesDek == Spec => ImplementsDek
<1>1. Init => D!Init
  BY DEF Init
<1> QED BY <1>1, DekStep, PhaseInvariant, PTL DEF Spec, ImplementsDek, D!Spec

\* The service implements the schema layer in the same sense.
THEOREM RefinesSchemas == Spec => ImplementsSchemas
<1>1. Init => S!Init
  BY DEF Init
<1> QED BY <1>1, SchemasStep, PhaseInvariant, PTL DEF Spec, ImplementsSchemas, S!Spec

\* The theorems about the two layers, for the layers inside the service.
DP == INSTANCE DekProofs WITH env <- "crashing"
SP == INSTANCE SchemasProofs WITH env <- "crashing"

\* The DEK layer's inductive invariant is preserved by its steps (DekProofs).
LEMMA DekInductive ==
  D!TypeOK /\ D!FetchInv /\ [D!Next]_(D!vars) => D!TypeOK' /\ D!FetchInv'
<1>1. MaxVersions \in Nat \ {0}
  BY ServiceConstants DEF D!DekBounds
<1>2. D!TypeOK = DP!TypeOK /\ D!TypeOK' = DP!TypeOK'
  BY Zenon DEF D!TypeOK, DP!TypeOK, D!Kinds, DP!Kinds, D!FetchPcs, DP!FetchPcs
<1>3. D!FetchInv = DP!FetchInv /\ D!FetchInv' = DP!FetchInv'
  BY Zenon DEF D!FetchInv, DP!FetchInv, D!Current, DP!Current, D!NoDek, DP!NoDek
<1>4. D!vars = DP!vars /\ D!vars' = DP!vars'
  BY Zenon DEF D!vars, DP!vars
<1>5. D!Next = DP!Next
  BY Zenon DEF D!Next, DP!Next, D!Kinds, DP!Kinds, D!PutSecretValue, DP!PutSecretValue, D!Start,
     DP!Start, D!SpawnRotation, DP!SpawnRotation, D!Tick, DP!Tick, D!GetSecretValue,
     DP!GetSecretValue, D!GetSecretValueErr, DP!GetSecretValueErr, D!KmsDecrypt,
     DP!KmsDecrypt, D!KmsDecryptErr, DP!KmsDecryptErr, D!StoreDek, DP!StoreDek,
     D!StoreDekErr, DP!StoreDekErr, D!Crash, DP!Crash, D!CrashesStop,
     DP!CrashesStop, D!FetchErr, DP!FetchErr, D!ProcessEnds, DP!ProcessEnds,
     D!SecretReturned, DP!SecretReturned, D!LengthOk, DP!LengthOk, D!Current,
     DP!Current, D!NoDek, DP!NoDek
<1>6. ASSUME D!TypeOK, D!FetchInv, [D!Next]_(D!vars) PROVE D!TypeOK' /\ D!FetchInv'
  <2>1. DP!TypeOK /\ DP!FetchInv
    BY <1>2, <1>3, <1>6
  <2>2. [DP!Next]_(DP!vars)
    BY <1>4, <1>5, <1>6
  <2>3. DP!TypeOK'
    BY <1>1, <2>1, <2>2, DP!TypeStep
  <2>4. DP!FetchInv'
    BY <1>1, <2>1, <2>2, DP!FetchInvStep
  <2> QED BY <2>3, <2>4, <1>2, <1>3
<1> QED BY <1>6

\* The schema layer's inductive invariant is preserved by its steps (SchemasProofs).
LEMMA SchemasInductive ==
  S!TypeOK /\ S!LoadInv /\ [S!Next]_(S!vars) => S!TypeOK' /\ S!LoadInv'
<1>1. S!SchemaConstants
  BY ServiceConstants
<1>2. S!TypeOK = SP!TypeOK /\ S!TypeOK' = SP!TypeOK'
  BY Zenon DEF S!TypeOK, SP!TypeOK, S!Contents, SP!Contents, S!LoadPcs, SP!LoadPcs, S!Names,
     SP!Names, S!schema_name_from_key, SP!schema_name_from_key, S!Extensions,
     SP!Extensions
<1>3. S!LoadInv = SP!LoadInv /\ S!LoadInv' = SP!LoadInv'
  BY Zenon DEF S!LoadInv, SP!LoadInv, S!ComesFrom, SP!ComesFrom, S!Named, SP!Named, S!Empty,
     SP!Empty, S!Names, SP!Names, S!schema_name_from_key, SP!schema_name_from_key,
     S!Extensions, SP!Extensions
<1>4. S!vars = SP!vars /\ S!vars' = SP!vars'
  BY Zenon DEF S!vars, SP!vars
<1>5. S!Next = SP!Next
  BY Zenon DEF S!Next, SP!Next, S!Cardinality, SP!Cardinality, S!IsFiniteSet, SP!IsFiniteSet,
     S!Names, SP!Names, S!schema_name_from_key, SP!schema_name_from_key,
     S!Extensions, SP!Extensions, S!Empty, SP!Empty, S!NothingSeen, SP!NothingSeen,
     S!Present, SP!Present, S!FirstPage, SP!FirstPage, S!CallEnds, SP!CallEnds,
     S!ProcessEnds, SP!ProcessEnds, S!LoadErr, SP!LoadErr, S!Start, SP!Start,
     S!SpawnRefresh, SP!SpawnRefresh, S!Tick, SP!Tick, S!ListObjects,
     SP!ListObjects, S!ListObjectsErr, SP!ListObjectsErr, S!NextKey, SP!NextKey,
     S!GetObject, SP!GetObject, S!GetObjectErr, SP!GetObjectErr, S!NewMap,
     SP!NewMap, S!Overflows, SP!Overflows, S!ReplaceAll, SP!ReplaceAll,
     S!StackOverflow, SP!StackOverflow, S!EditObject, SP!EditObject, S!Crash,
     SP!Crash, S!CrashesStop, SP!CrashesStop
<1>6. ASSUME S!TypeOK, S!LoadInv, [S!Next]_(S!vars) PROVE S!TypeOK' /\ S!LoadInv'
  <2>1. SP!TypeOK /\ SP!LoadInv
    BY <1>2, <1>3, <1>6
  <2>2. [SP!Next]_(SP!vars)
    BY <1>4, <1>5, <1>6
  <2>3. SP!TypeOK'
    BY <1>1, <2>1, <2>2, SP!TypeStep DEF S!SchemaConstants, S!IsFiniteSet, SP!IsFiniteSet
  <2>4. SP!LoadInv'
    BY <1>1, <2>1, <2>2, SP!LoadInvStep DEF S!SchemaConstants, S!IsFiniteSet, SP!IsFiniteSet
  <2> QED BY <2>3, <2>4, <1>2, <1>3
<1> QED BY <1>6

\* Both layers keep their invariants in the service, because it implements them.
LEMMA LayersInvariant == Spec => []LayersInv
<1>1. Init => LayersInv
  <2>1. S!Init => S!TypeOK /\ S!LoadInv
    BY ServiceConstants DEF S!SchemaConstants, S!Init, S!TypeOK, S!LoadInv, S!Contents,
       S!LoadPcs, S!Empty, S!NothingSeen
  <2>2. ASSUME D!Init PROVE D!TypeOK /\ D!FetchInv
    <3>1. PICK k \in D!Kinds : secret = <<k>>
      BY <2>2 DEF D!Init
    <3>2. secret \in Seq(D!Kinds) /\ Len(secret) \in 1..MaxVersions
      BY <3>1, ServiceConstants DEF D!DekBounds
    <3>3. D!TypeOK
      BY <2>2, <3>2, ServiceConstants DEF D!DekBounds, D!Init, D!TypeOK, D!NoDek, D!FetchPcs
    <3>4. D!FetchInv
      BY <2>2, <3>2 DEF D!Init, D!FetchInv, D!NoDek, D!Current
    <3> QED BY <3>3, <3>4
  <2> QED BY <2>1, <2>2 DEF Init, LayersInv
<1>2. LayersInv /\ PhaseTypes /\ PhaseInv /\ [Next]_vars => LayersInv'
  BY DekStep, SchemasStep, DekInductive, SchemasInductive DEF LayersInv
<1> QED BY <1>1, <1>2, PhaseInvariant, PTL DEF Spec

\* A serving process has a well-formed key, the newest one ever stored.
LEMMA ServingHasKey ==
  ASSUME LayersInv, PhaseInv, phase = "serving"
  PROVE  HasKey
  BY ServiceConstants
     DEF HasKey, LayersInv, PhaseInv, D!DekBounds, D!TypeOK, D!FetchInv, D!NoDek, D!Current

\* What the layers' invariants give the handlers.
LEMMA LayersGive == LayersInv /\ PhaseInv => LayersServe
<1> SUFFICES ASSUME LayersInv, PhaseInv PROVE LayersServe
  OBVIOUS
<1>1. ASSUME NEW r \in Requests, pc[r] \in InFlight PROVE HasKey
  BY <1>1, ServingHasKey DEF PhaseInv
<1>2. DOMAIN cache = S!Names /\ \A h \in S!Names : cache[h] \in Docs \cup {Absent}
  BY DEF LayersInv, S!TypeOK, S!Contents
<1>3. \A h \in S!Names : cache[h] \in (Parsable \ Recursive) \cup {Absent}
  BY DEF LayersInv, S!LoadInv
<1> QED BY <1>1, <1>2, <1>3 DEF LayersServe

\* The key in the store, as a request in flight sees it, is only replaced by a
\* newer one; a version once published keeps its contents.
LEMMA MainKeeps ==
  ASSUME LayersInv, LayersInv', PhaseInv, PhaseInv', ReqInv, [D!Next]_(D!vars),
         UNCHANGED requestVars
  PROVE  ReqInv'
<1>1. /\ high \in Nat /\ high' \in Nat /\ store' \in Nat /\ high <= Len(secret)
      /\ store \in Nat /\ Len(secret) \in Nat
      /\ secret \in Seq(D!Kinds)
  BY ServiceConstants DEF LayersInv, D!DekBounds, D!TypeOK, D!FetchInv, D!Current
<1>2. \/ UNCHANGED <<secret, high>>
      \/ D!StoreDek
      \/ \E k \in D!Kinds : D!PutSecretValue(k)
  BY DEF D!Next, D!vars, D!Start, D!SpawnRotation, D!Tick, D!GetSecretValue,
     D!GetSecretValueErr, D!KmsDecrypt, D!KmsDecryptErr, D!StoreDekErr, D!Crash, D!CrashesStop
<1>3. (\A v \in 1..Len(secret) : secret'[v] = secret[v]) /\ high' >= high
  <2>1. CASE UNCHANGED <<secret, high>>
    BY <1>1, <2>1
  <2>2. CASE D!StoreDek
    BY <1>1, <2>2 DEF D!StoreDek, LayersInv, D!FetchInv
  <2>3. ASSUME NEW k \in D!Kinds, D!PutSecretValue(k)
        PROVE  (\A v \in 1..Len(secret) : secret'[v] = secret[v]) /\ high' >= high
    BY <1>1, <2>3 DEF D!PutSecretValue
  <2> QED BY <1>2, <2>1, <2>2, <2>3
<1>4. ASSUME NEW r \in Requests, pc[r] \in InFlight PROVE store' >= store
  <2>1. phase = "serving" /\ phase' = "serving"
    BY <1>4 DEF PhaseInv, requestVars
  <2>2. store = high /\ store' = high'
    BY <2>1, ServingHasKey DEF HasKey, LayersInv, PhaseInv, D!FetchInv, D!NoDek
  <2> QED BY <1>3, <2>2
<1> QED BY <1>1, <1>3, <1>4, OthersKeep

\* Every step of the service keeps what the handlers maintain.
LEMMA ReqStep ==
  LayersInv /\ LayersInv' /\ PhaseTypes /\ PhaseInv /\ ReqInv /\ [Next]_vars => ReqInv'
<1> SUFFICES ASSUME LayersInv, LayersInv', PhaseTypes, PhaseInv, ReqInv, [Next]_vars
             PROVE  ReqInv'
  OBVIOUS
<1>1. ASSUME RequestsLost, DekEnds PROVE ReqInv'
  BY <1>1, LostKeeps DEF DekEnds
<1>2. ASSUME UNCHANGED requestVars PROVE ReqInv'
  BY <1>2, DekStep, PhaseStep, MainKeeps
<1>3. CASE ProcessEnds
  BY <1>1, <1>3 DEF ProcessEnds
<1>4. CASE SchemaOk \/ SchemaErr
  <2>1. (RequestsLost /\ DekEnds) \/ UNCHANGED requestVars
    BY <1>4 DEF SchemaOk, SchemaErr, InSchemas
  <2> QED BY <1>1, <1>2, <2>1
<1>5. CASE \/ Boot \/ BootSchemas \/ SpawnTasks \/ Listen \/ DekOk \/ DekErr \/ CrashesStop
           \/ \E k \in D!Kinds : PutSecretValue(k)
           \/ \E k \in Keys, d \in S!Contents : EditObject(k, d)
           \/ UNCHANGED vars
  <2>1. UNCHANGED requestVars
    BY <1>5 DEF Boot, BootSchemas, SpawnTasks, Listen, DekOk, DekErr, InDek, CrashesStop,
       PutSecretValue, EditObject, vars
  <2> QED BY <1>2, <2>1
<1>6. ASSUME NEW r \in Requests, Serve(r) PROVE ReqInv'
  <2>1. UNCHANGED keyVars /\ LayersServe /\ HasKey
    BY <1>6, ServeIsRequestStep, HandlersMoveOne, ServingHasKey, LayersGive DEF dekVars, keyVars
  <2> QED BY <1>6, <2>1, ServeIsRequestStep, HandlersKeep, ArriveKeeps DEF RequestStep
<1> QED BY <1>3, <1>4, <1>5, <1>6 DEF Next

\* What the handlers maintain holds throughout.
LEMMA ReqInvariant == Spec => []ReqInv
<1>1. Init => ReqInv
  BY HandlerConstants DEF Init, NoRequests, ReqInv, RequestTypes, RequestInv, AlwaysHasUsableKey,
     KeysFollowRealTime, NoInput, NoAnswer, Ops, Pcs, InFlight, NoDek
<1> QED BY <1>1, ReqStep, LayersInvariant, PhaseInvariant, PTL DEF Spec

\* The state of the service keeps its types.
THEOREM TypeCorrect == Spec => []TypeOK
<1> DEFINE E == env \in {"crashing", "calm"}
<1>1. Init => E
  BY DEF Init
<1>2. E /\ [Next]_vars => E'
  BY ServeIsRequestStep DEF Next, vars, Boot, BootSchemas, SpawnTasks, Listen, ProcessEnds,
     DekOk, DekErr, InDek, SchemaOk, SchemaErr, InSchemas, PutSecretValue, EditObject, CrashesStop
<1>3. LayersInv /\ PhaseTypes /\ ReqInv /\ E => TypeOK
  BY DEF LayersInv, PhaseTypes, ReqInv, TypeOK
<1> HIDE DEF E
<1> QED BY <1>1, <1>2, <1>3, LayersInvariant, PhaseInvariant, ReqInvariant, PTL DEF Spec

\* /encrypt and /decrypt never answer 503, and /encrypt never 500.
THEOREM UsableKey == Spec => []AlwaysHasUsableKey
<1>1. ReqInv => AlwaysHasUsableKey
  BY DEF ReqInv
<1> QED BY <1>1, ReqInvariant, PTL

\* A request that follows another never works with an older key, restarts included.
THEOREM RealTimeKeys == Spec => []KeysFollowRealTime
<1>1. ReqInv => KeysFollowRealTime
  BY DEF ReqInv
<1> QED BY <1>1, ReqInvariant, PTL

\* What the handlers maintain about keys, schemas and order holds for any number
\* of requests, versions and documents (encrypt, decrypt, health).
THEOREM RequestInvariant == Spec => []RequestInv
<1>1. ReqInv => RequestInv
  BY DEF ReqInv
<1> QED BY <1>1, ReqInvariant, PTL

\* With the types, it is what the lemmas about answers rest on.
LEMMA FactsInvariant == Spec => []RequestFacts
<1>1. ReqInv => RequestFacts
  BY DEF ReqInv, RequestFacts
<1> QED BY <1>1, ReqInvariant, PTL

\* Every step of the service keeps answers and work together.
LEMMA WorkStep ==
  RequestFacts /\ WorkInv /\ [Next]_vars => WorkInv'
<1> SUFFICES ASSUME RequestFacts, WorkInv, [Next]_vars PROVE WorkInv'
  OBVIOUS
<1>1. ASSUME RequestsLost PROVE WorkInv'
  <2>1. /\ UNCHANGED <<input, schema, dek, answer>>
        /\ \A r \in Requests : pc'[r] = "done" <=> pc[r] = "done"
    BY <1>1 DEF RequestsLost, InFlight
  <2> QED BY <2>1 DEF WorkInv
<1>2. ASSUME UNCHANGED requestVars PROVE WorkInv'
  BY <1>2 DEF requestVars, WorkInv
<1>3. CASE ProcessEnds \/ SchemaOk \/ SchemaErr
  <2>1. RequestsLost \/ UNCHANGED requestVars
    BY <1>3 DEF ProcessEnds, SchemaOk, SchemaErr, InSchemas
  <2> QED BY <1>1, <1>2, <2>1
<1>4. CASE \/ Boot \/ BootSchemas \/ SpawnTasks \/ Listen \/ DekOk \/ DekErr \/ CrashesStop
           \/ \E k \in D!Kinds : PutSecretValue(k)
           \/ \E k \in Keys, d \in S!Contents : EditObject(k, d)
           \/ UNCHANGED vars
  <2>1. UNCHANGED requestVars
    BY <1>4 DEF Boot, BootSchemas, SpawnTasks, Listen, DekOk, DekErr, InDek, CrashesStop,
       PutSecretValue, EditObject, vars
  <2> QED BY <1>2, <2>1
<1> QED BY <1>3, <1>4, HandlersWork, ServeIsRequestStep DEF Next, RequestStep

\* Answers and work go together throughout.
LEMMA WorkInvariant == Spec => []WorkInv
<1>1. Init => WorkInv
  BY DEF Init, NoRequests, WorkInv, NoAnswer
<1> QED BY <1>1, WorkStep, FactsInvariant, PTL DEF Spec

\* No PII string leaves encrypt in clear, for any documents, payloads and keys,
\* though schema and key are read apart (encrypt, encrypt_pii_fields).
THEOREM PiiIsEncrypted == Spec => []PiiLeavesEncrypted
BY EncryptsPii, FactsInvariant, WorkInvariant, PTL

\* A 200 of decrypt means that each PII token was made under the key it read, for
\* any rotations in between (decrypt, decrypt_field).
THEOREM TokensNeedTheirKey == Spec => []TokensOpenUnderTheirKeyOnly
BY OpensOwnTokens, WorkInvariant, PTL

\* decrypt undoes encrypt under the same key and schema, for any payload: nested
\* tokens and strings that look encrypted included (encrypt, decrypt).
THEOREM DecryptUndoesEncrypt == Spec => []RoundTrip
BY UndoesEncrypt, FactsInvariant, WorkInvariant, PTL

\* health's 200 is true when it is given: the key cannot have gone since is_ready
\* was read, because a process keeps its key as long as it serves (health).
THEOREM HealthTells == Spec => HealthIsTruthful
<1>1. ASSUME LayersInv, PhaseInv, ReqInv, NEW r \in Requests, Health(r), answer'[r].status = 200
      PROVE  store # NoDek /\ cache # S!Empty
  <2>1. store # NoDek
    <3>1. pc[r] \in InFlight
      BY <1>1 DEF Health, InFlight
    <3>2. HasKey
      BY <1>1, <3>1, LayersGive DEF LayersServe
    <3> QED BY <3>2, HandlerConstants DEF HasKey, NoDek
  <2>2. SchemasLoaded > 0
    <3>1. answer'[r].status = IF dek[r] # NoDek /\ SchemasLoaded > 0 THEN 200 ELSE 503
      BY <1>1 DEF Health, Done, ReqInv, RequestTypes
    <3> QED BY <1>1, <3>1
  <2>3. CASE cache = S!Empty
    <3>1. {n \in DOMAIN cache : cache[n] # Absent} = {}
      BY <2>3 DEF S!Empty
    <3> QED BY <2>2, <3>1, FS_EmptySet DEF SchemasLoaded
  <2> QED BY <2>1, <2>3
<1> DEFINE Truth == \A r \in Requests :
              Health(r) /\ answer'[r].status = 200 => store # NoDek /\ cache # S!Empty
<1>2. LayersInv /\ PhaseInv /\ ReqInv => Truth
  BY <1>1
<1>3. LayersInv /\ PhaseInv /\ ReqInv /\ [Next]_vars => [Truth]_vars
  BY <1>2
<1> HIDE DEF Truth
<1>4. Spec => [][Truth]_vars
  BY <1>3, LayersInvariant, PhaseInvariant, ReqInvariant, PTL DEF Spec
<1> QED BY <1>4 DEF Truth, HealthIsTruthful
=============================================================================
