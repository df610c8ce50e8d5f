------------------------------- MODULE Bridges -------------------------------
(***************************************************************************)
(* The enclave side bridges (main.rs): main starts the IMDS, OTLP and log  *)
(* bridges before telemetry and the AWS clients, which connect through     *)
(* them.  The log bridge is followed further: every thread of the tokio    *)
(* runtime that logs writes to one blocking socket behind a mutex          *)
(* (telemetry/log_writer.rs), and the task that drains this socket needs a *)
(* thread of the same runtime.                                             *)
(***************************************************************************)
EXTENDS Naturals, FiniteSets

CONSTANTS Workers,      \* worker threads of the tokio runtime
          MainThread,   \* the thread that runs main's future
          NoThread,
          MaxLogging,   \* bound on workers that log at the same time
          SocketCap,    \* log records the loopback socket holds
          VsockCap      \* log records the vsock stream holds

ASSUME BridgeConstants ==
  /\ IsFiniteSet(Workers)
  /\ MainThread \notin Workers
  /\ NoThread \notin Workers \cup {MainThread}
  /\ MaxLogging \in Nat /\ SocketCap \in Nat \ {0} /\ VsockCap \in Nat \ {0}

Threads == Workers \cup {MainThread}

VARIABLES
  phase,      \* where main is
  listening,  \* the bridges whose local listener is bound
  users,      \* the bridges a local client uses
  writer,     \* the result of start_log_bridge: "None" or "Some"
  thread,     \* each thread: "free", "lock" (waits for the mutex) or "write"
  holder,     \* the thread that holds the mutex of SharedTcpWriter
  conn,       \* the log connection: "none", "queued", "accepted", "relaying",
              \* "cut" (by the parent) or "closed"
  socket,     \* log records in the loopback socket
  vsock,      \* log records in the vsock stream
  parent      \* the proxy and collector on the parent: "up" or "down"

mainVars == <<phase, listening, users, writer>>
logVars  == <<thread, holder>>
connVars == <<conn, socket, vsock>>
vars     == <<mainVars, logVars, connVars, parent>>

Init ==
  /\ phase = "imds"
  /\ listening = {} /\ users = {} /\ writer = "None"
  /\ thread = [t \in Threads |-> "free"] /\ holder = NoThread
  /\ conn = "none" /\ socket = 0 /\ vsock = 0
  /\ parent \in {"up", "down"}

(***************************************************************************)
(* main, up to the AWS clients.                                            *)
(***************************************************************************)

\* A `?` in main ends the process.
Fail ==
  /\ phase' = "ended"
  /\ UNCHANGED <<listening, users, writer, logVars, connVars, parent>>

Bind(bridge, from, to) ==
  /\ phase = from
  /\ phase' = to
  /\ listening' = listening \cup {bridge}
  /\ UNCHANGED <<users, writer, logVars, connVars, parent>>

StartImdsBridge == Bind("imds", "imds", "otlp") \/ (phase = "imds" /\ Fail)

\* Mutant of StartOtlpBridge: a bind error is ignored, as for the log bridge.
StartOtlpBridgeBestEffort ==
  \/ Bind("otlp", "otlp", "log")
  \/ /\ phase = "otlp"
     /\ phase' = "log"
     /\ UNCHANGED <<listening, users, writer, logVars, connVars, parent>>

StartOtlpBridge == Bind("otlp", "otlp", "log") \/ (phase = "otlp" /\ Fail)

\* The local listener takes the writer's connection into its backlog; whether
\* the parent is there plays no part.  A bind or connect error gives None.
StartLogBridge ==
  /\ phase = "log"
  /\ phase' = "telemetry"
  /\ \/ /\ UNCHANGED <<listening, writer, conn>>
     \/ /\ listening' = listening \cup {"log"}
        /\ \/ writer' = "Some" /\ conn' = "queued"
           \/ UNCHANGED <<writer, conn>>
  /\ UNCHANGED <<users, socket, vsock, logVars, parent>>

\* The exporters connect to the OTLP bridge; the second fmt layer is installed
\* when there is a writer.
InitTelemetry ==
  /\ phase = "telemetry"
  /\ \/ /\ phase' = "aws"
        /\ users' = users \cup {"otlp"} \cup {b \in {"log"} : writer = "Some"}
        /\ UNCHANGED <<listening, writer, logVars, connVars, parent>>
     \/ Fail

\* The SDK resolves its credentials through the IMDS bridge.
InitAwsClients ==
  /\ phase = "aws"
  /\ thread[MainThread] = "free"
  /\ \/ /\ phase' = "up"
        /\ users' = users \cup {"imds"}
        /\ UNCHANGED <<listening, writer, logVars, connVars, parent>>
     \/ Fail

\* The process may end at any time once it is up; the runner starts it again.
Crash ==
  /\ phase = "up"
  /\ Fail

Restart ==
  /\ phase = "ended"
  /\ phase' = "imds"
  /\ listening' = {} /\ users' = {} /\ writer' = "None"
  /\ thread' = [t \in Threads |-> "free"] /\ holder' = NoThread
  /\ conn' = "none" /\ socket' = 0 /\ vsock' = 0
  /\ UNCHANGED parent

(***************************************************************************)
(* Logging through SharedTcpWriter.                                        *)
(***************************************************************************)

Logging == {t \in Workers : thread[t] # "free"}

\* A thread emits a record: the stderr layer is done, the writer is next.
Log(t) ==
  /\ "log" \in users /\ phase # "ended"
  /\ thread[t] = "free"
  /\ t \in Workers => Cardinality(Logging) < MaxLogging
  /\ thread' = [thread EXCEPT ![t] = "lock"]
  /\ UNCHANGED <<mainVars, holder, connVars, parent>>

Lock(t) ==
  /\ phase # "ended"
  /\ thread[t] = "lock"
  /\ holder = NoThread
  /\ holder' = t
  /\ thread' = [thread EXCEPT ![t] = "write"]
  /\ UNCHANGED <<mainVars, connVars, parent>>

\* Mutant of Write: an error is retried instead of discarded.
WriteRetries(t) ==
  /\ phase # "ended"
  /\ thread[t] = "write"
  /\ conn # "closed" /\ socket < SocketCap /\ socket' = socket + 1
  /\ holder' = NoThread
  /\ thread' = [thread EXCEPT ![t] = "free"]
  /\ UNCHANGED <<mainVars, conn, vsock, parent>>

\* The blocking write returns when the socket has room, or with an error, which
\* is discarded, when the connection is closed.
Write(t) ==
  /\ phase # "ended"
  /\ thread[t] = "write"
  /\ \/ conn = "closed" /\ UNCHANGED socket
     \/ conn # "closed" /\ socket < SocketCap /\ socket' = socket + 1
  /\ holder' = NoThread
  /\ thread' = [thread EXCEPT ![t] = "free"]
  /\ UNCHANGED <<mainVars, conn, vsock, parent>>

(***************************************************************************)
(* The bridge's tasks, which run on a free worker.                         *)
(***************************************************************************)

WorkerIsFree == phase # "ended" /\ \E t \in Workers : thread[t] = "free"

AcceptLog ==
  /\ WorkerIsFree
  /\ conn = "queued"
  /\ conn' = "accepted"
  /\ UNCHANGED <<mainVars, logVars, socket, vsock, parent>>

\* The task connects to the parent, or returns and drops the TCP stream.
ConnectVsock ==
  /\ WorkerIsFree
  /\ conn = "accepted"
  /\ IF parent = "up" THEN conn' = "relaying" /\ UNCHANGED socket
                      ELSE conn' = "closed" /\ socket' = 0
  /\ UNCHANGED <<mainVars, logVars, vsock, parent>>

CopyUp ==
  /\ WorkerIsFree
  /\ conn = "relaying" /\ parent = "up"
  /\ socket > 0 /\ vsock < VsockCap
  /\ socket' = socket - 1
  /\ vsock' = vsock + 1
  /\ UNCHANGED <<mainVars, logVars, conn, parent>>

\* The parent has closed the stream: a copy ends and select! drops both.  The
\* parent that comes back is another stream, which nothing opens.
CopyEnds ==
  /\ WorkerIsFree
  /\ conn = "cut"
  /\ conn' = "closed"
  /\ socket' = 0
  /\ vsock' = 0
  /\ UNCHANGED <<mainVars, logVars, parent>>

(***************************************************************************)
(* The parent instance.                                                    *)
(***************************************************************************)

CollectorReads ==
  /\ conn = "relaying" /\ vsock > 0 /\ phase # "ended"
  /\ vsock' = vsock - 1
  /\ UNCHANGED <<mainVars, logVars, conn, socket, parent>>

ParentStops ==
  /\ parent = "up"
  /\ parent' = "down"
  /\ conn' = IF conn = "relaying" THEN "cut" ELSE conn
  /\ UNCHANGED <<mainVars, logVars, socket, vsock>>

ParentStarts ==
  /\ parent = "down"
  /\ parent' = "up"
  /\ UNCHANGED <<mainVars, logVars, connVars>>

Main == StartImdsBridge \/ StartOtlpBridge \/ StartLogBridge \/ InitTelemetry \/ InitAwsClients

Bridge == AcceptLog \/ ConnectVsock \/ CopyUp \/ CopyEnds

Next ==
  \/ Main \/ Crash \/ Restart
  \/ \E t \in Threads : Log(t) \/ Lock(t) \/ Write(t)
  \/ Bridge
  \/ CollectorReads \/ ParentStops \/ ParentStarts

Spec == Init /\ [][Next]_vars

\* A thread that can run does; tokio runs a ready task on a free worker; the
\* collector reads.  Strong fairness for the bridge: a worker is free again and
\* again when it is not free all the time.
FairSpec ==
  /\ Spec
  /\ WF_vars(Main)
  /\ \A t \in Threads : WF_vars(Lock(t)) /\ WF_vars(Write(t))
  /\ SF_vars(Bridge)
  /\ WF_vars(CollectorReads)

(***************************************************************************)
(* Properties.                                                             *)
(***************************************************************************)

\* The types of main's startup state and of the log path; the sockets of the
\* log path keep to their capacities.
TypeOK ==
  /\ phase \in {"imds", "otlp", "log", "telemetry", "aws", "up", "ended"}
  /\ listening \subseteq {"imds", "otlp", "log"}
  /\ users \subseteq {"imds", "otlp", "log"}
  /\ writer \in {"None", "Some"}
  /\ thread \in [Threads -> {"free", "lock", "write"}]
  /\ holder \in Threads \cup {NoThread}
  /\ conn \in {"none", "queued", "accepted", "relaying", "cut", "closed"}
  /\ socket \in 0 .. SocketCap
  /\ vsock \in 0 .. VsockCap
  /\ parent \in {"up", "down"}

\* A bridge "must start before" the client that uses it (main.rs:227 and 234):
\* whichever binds fail, no local client is refused by a bridge that is not
\* listening.
BridgesBeforeClients == users \subseteq listening

\* Forwarding logs is "best-effort" (main.rs:240): a thread that holds the
\* writer's mutex is not held up for ever by the log path, whether the parent
\* is there, leaves in the middle or never was.
LogWriteReturns ==
  \A t \in Threads : (thread[t] = "write") ~> (thread[t] = "free" \/ phase = "ended")
=============================================================================
