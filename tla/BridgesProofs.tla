---------------------------- MODULE BridgesProofs ----------------------------
(***************************************************************************)
(* Proofs about Bridges: its types, and that no client comes before the    *)
(* bridge it uses, for any number of worker threads and any capacities.    *)
(***************************************************************************)
EXTENDS Bridges, TLAPS

\* How far main has come tells which bridges are bound.
StartupOrder ==
  /\ phase \in {"otlp", "log", "telemetry", "aws", "up"} => "imds" \in listening
  /\ phase \in {"log", "telemetry", "aws", "up"} => "otlp" \in listening
  /\ writer = "Some" => "log" \in listening

\* The inductive invariant: users grows only with bridges that main's position,
\* or the writer it was given, shows to be bound.
IInv == TypeOK /\ StartupOrder /\ BridgesBeforeClients

\* The invariant holds when main begins.
LEMMA InitInv == Init => IInv
  BY BridgeConstants DEF Init, IInv, TypeOK, StartupOrder, BridgesBeforeClients, Threads

\* main's steps (main.rs, up to the AWS clients), failing ones included.
LEMMA MainInv == IInv /\ Main => IInv'
<1> SUFFICES ASSUME IInv, Main PROVE IInv'
  OBVIOUS
<1> USE DEF IInv, TypeOK, StartupOrder, BridgesBeforeClients, Fail, Bind, logVars, connVars
<1>1. CASE StartImdsBridge
  BY <1>1 DEF StartImdsBridge
<1>2. CASE StartOtlpBridge
  BY <1>2 DEF StartOtlpBridge
<1>3. CASE StartLogBridge
  BY <1>3 DEF StartLogBridge
<1>4. CASE InitTelemetry
  BY <1>4 DEF InitTelemetry
<1>5. CASE InitAwsClients
  BY <1>5 DEF InitAwsClients
<1>6. QED
  BY <1>1, <1>2, <1>3, <1>4, <1>5 DEF Main

\* The end of the process and its next start.
LEMMA LifetimeInv == IInv /\ (Crash \/ Restart) => IInv'
<1> SUFFICES ASSUME IInv, Crash \/ Restart PROVE IInv'
  OBVIOUS
<1> USE DEF IInv, TypeOK, StartupOrder, BridgesBeforeClients
<1>1. CASE Crash
  BY <1>1 DEF Crash, Fail, logVars, connVars
<1>2. CASE Restart
  BY <1>2, BridgeConstants DEF Restart
<1>3. QED
  BY <1>1, <1>2

\* A thread logs (SharedTcpWriter): a write fits in the socket.
LEMMA LogInv == ASSUME NEW t \in Threads, IInv, Log(t) \/ Lock(t) \/ Write(t) PROVE IInv'
<1> USE BridgeConstants DEF IInv, TypeOK, StartupOrder, BridgesBeforeClients, mainVars, connVars
<1>1. CASE Log(t)
  BY <1>1 DEF Log
<1>2. CASE Lock(t)
  BY <1>2 DEF Lock
<1>3. CASE Write(t)
  BY <1>3 DEF Write
<1>4. QED
  BY <1>1, <1>2, <1>3

\* The bridge's tasks and the parent touch the log connection only.
LEMMA ConnectionInv ==
  IInv /\ (Bridge \/ CollectorReads \/ ParentStops \/ ParentStarts) => IInv'
<1> SUFFICES ASSUME IInv, Bridge \/ CollectorReads \/ ParentStops \/ ParentStarts PROVE IInv'
  OBVIOUS
<1> USE BridgeConstants DEF IInv, TypeOK, StartupOrder, BridgesBeforeClients, mainVars, logVars, connVars
<1>1. CASE AcceptLog
  BY <1>1 DEF AcceptLog
<1>2. CASE ConnectVsock
  BY <1>2 DEF ConnectVsock
<1>3. CASE CopyUp
  BY <1>3 DEF CopyUp
<1>4. CASE CopyEnds
  BY <1>4 DEF CopyEnds
<1>5. CASE CollectorReads
  BY <1>5 DEF CollectorReads
<1>6. CASE ParentStops
  BY <1>6 DEF ParentStops
<1>7. CASE ParentStarts
  BY <1>7 DEF ParentStarts
<1>8. QED
  BY <1>1, <1>2, <1>3, <1>4, <1>5, <1>6, <1>7 DEF Bridge

\* The invariant is inductive.
LEMMA Inductive == Spec => []IInv
<1>1. ASSUME IInv, [Next]_vars PROVE IInv'
  <2>1. CASE UNCHANGED vars
    BY <1>1, <2>1 DEF IInv, TypeOK, StartupOrder, BridgesBeforeClients, vars, mainVars, logVars, connVars
  <2>2. CASE Next
    BY <1>1, <2>2, MainInv, LifetimeInv, LogInv, ConnectionInv DEF Next
  <2>3. QED
    BY <1>1, <2>1, <2>2
<1>2. QED
  BY InitInv, <1>1, PTL DEF Spec

\* main's startup state and the log path keep their types; the sockets keep to
\* their capacities, for any number of threads that write (SharedTcpWriter).
THEOREM TypeCorrect == Spec => []TypeOK
  BY Inductive, PTL DEF IInv

\* Whichever binds fail and whenever the process is started again, no client
\* uses a bridge that is not bound (main.rs:227, main.rs:234).
THEOREM BridgesFirst == Spec => []BridgesBeforeClients
  BY Inductive, PTL DEF IInv
=============================================================================
