----------------------------- MODULE NodeProofs -----------------------------
(***************************************************************************)
(* Proofs about Node, for any hosts, proxies and configurations: its types *)
(* and that process and enclave go together, that an enclave is orphaned   *)
(* by a fault only, that calls arrive at and are answered by the service   *)
(* the host names, and that a serving process has both its tasks.          *)
(***************************************************************************)
EXTENDS Node, TLAPS

\* A connection that a call may use leads to the service of its host; one that
\* is still in its handshake may lead anywhere, unless it is to the IMDS bridge.
CallInv(k) ==
  /\ k.pc \in {"connect", "tls", "sent", "ok"} => k.host \in Hosts
  /\ k.pc \in {"tls", "sent", "ok"} => k.conn \in O!Connections /\ k.conn.host = k.host
  /\ k.pc = "tls" /\ k.host \in O!Local => k.conn.peer = Names[k.host]
  /\ k.pc \in {"sent", "ok"} => k.conn.peer = Names[k.host]

PoolInv == \A x \in pool : x \in O!Connections /\ x.peer = Names[x.host]

\* A process past its start has a valid configuration.
ConfigInv ==
  /\ proc \in {"init", "serving"} => O!validate(cfg)
  /\ TasksTick

\* The part of the invariant about the process.
ProcessInv ==
  O!TypeOK /\ PoolInv /\ ConfigInv /\ \A c \in O!Callers : CallInv(calls[c])

\* The inductive invariant of the node.
IInv == TypeOK /\ ProcessInv /\ OrphanOnlyByFault

\* The initial call record, and a failed one, hold no connection.
LEMMA IdleInv ==
  /\ O!Idle \in O!CallType /\ CallInv(O!Idle)
  /\ [O!Idle EXCEPT !.pc = "err"] \in O!CallType /\ CallInv([O!Idle EXCEPT !.pc = "err"])
BY Zenon DEF O!Idle, O!CallType, CallInv, O!InFlight

\* A step that gives one call a good record and leaves the rest alone keeps
\* the invariant.
LEMMA CallStep ==
  ASSUME ProcessInv, NEW c \in O!Callers, NEW k, k \in O!CallType, CallInv(k),
         calls' = [calls EXCEPT ![c] = k],
         UNCHANGED <<cfg, proc, ticking, up>>, pool' \subseteq O!Connections, PoolInv'
  PROVE  ProcessInv'
<1>1. O!TypeOK'
  BY DEF ProcessInv, O!TypeOK
<1>2. ConfigInv'
  BY DEF ProcessInv, ConfigInv, TasksTick, O!TasksTick, O!validate
<1>3. \A d \in O!Callers : CallInv(calls'[d])
  BY DEF ProcessInv, O!TypeOK
<1>4. QED
  BY <1>1, <1>2, <1>3 DEF ProcessInv

\* A call starts, fails, or goes on over a pooled connection of its host.
LEMMA CallInvStep ==
  ASSUME ProcessInv, NEW c \in O!Callers, NEW h \in Hosts, O!Call(c, h)
  PROVE  ProcessInv'
<1> DEFINE k == [O!Idle EXCEPT !.pc = "connect", !.host = h]
<1>1. k \in O!CallType /\ CallInv(k)
  BY Zenon DEF O!Idle, O!CallType, CallInv, O!InFlight
<1>2. /\ calls' = [calls EXCEPT ![c] = k] /\ UNCHANGED <<cfg, proc, ticking, up>>
      /\ pool' \subseteq O!Connections /\ PoolInv'
  BY DEF O!Call, ProcessInv, PoolInv
<1> HIDE DEF k
<1>3. QED
  BY <1>1, <1>2, CallStep, Zenon

\* A call that fails keeps nothing.
LEMMA FailInv ==
  ASSUME ProcessInv, NEW c \in O!Callers, O!Fail(c), UNCHANGED <<cfg, proc, ticking, pool, up>>
  PROVE  ProcessInv'
<1> DEFINE k == [O!Idle EXCEPT !.pc = "err"]
<1>1. /\ k \in O!CallType /\ CallInv(k)
      /\ calls' = [calls EXCEPT ![c] = k] /\ UNCHANGED <<cfg, proc, ticking, up>>
      /\ pool' \subseteq O!Connections /\ PoolInv'
  BY IdleInv DEF O!Fail, ProcessInv, PoolInv
<1> HIDE DEF k
<1>2. QED
  BY <1>1, CallStep, Zenon

\* A pooled connection leads to the service of the host it was opened for.
LEMMA ReuseInv ==
  ASSUME ProcessInv, NEW c \in O!Callers, O!Reuse(c)
  PROVE  ProcessInv'
<1>1. PICK x \in pool :
        /\ x.host = calls[c].host /\ pool' = pool \ {x}
        /\ calls' = [calls EXCEPT ![c].pc = "sent", ![c].conn = x, ![c].reused = TRUE]
  BY Zenon DEF O!Reuse
<1> DEFINE k == [calls[c] EXCEPT !.pc = "sent", !.conn = x, !.reused = TRUE]
<1>2. /\ calls[c] \in O!CallType /\ CallInv(calls[c]) /\ calls[c].pc = "connect"
      /\ x \in O!Connections /\ x.peer = Names[x.host]
  BY <1>1 DEF ProcessInv, PoolInv, O!TypeOK, O!Reuse
<1>3. k \in O!CallType /\ CallInv(k)
  BY <1>1, <1>2, Zenon DEF O!CallType, CallInv, O!InFlight
<1>4. calls' = [calls EXCEPT ![c] = k]
  BY <1>1, Zenon DEF ProcessInv, O!TypeOK
<1>5. /\ UNCHANGED <<cfg, proc, ticking, up>>
      /\ pool' \subseteq O!Connections /\ PoolInv'
  BY <1>1 DEF O!Reuse, ProcessInv, PoolInv
<1> HIDE DEF k
<1>6. QED
  BY <1>3, <1>4, <1>5, CallStep, Zenon

\* A new connection leads to whatever the proxy of its port relays to.
LEMMA ConnectInv ==
  ASSUME ProcessInv, NEW c \in O!Callers, O!Connect(c)
  PROVE  ProcessInv'
<1> DEFINE host == calls[c].host
           port == O!PortFor(host)
           x == [host |-> host, port |-> port, peer |-> Proxies[port], open |-> TRUE]
           k == [calls[c] EXCEPT !.pc = "tls", !.conn = x, !.reused = FALSE]
<1>1. /\ calls[c] \in O!CallType /\ calls[c].pc = "connect" /\ host \in Hosts
      /\ port \in DOMAIN Proxies
  BY DEF ProcessInv, O!TypeOK, CallInv, O!Connect, O!Listening
<1>2. host \in O!Local => port = ImdsPort
  BY DEF O!PortFor
<1>3. host \in O!Local => Proxies[port] = Names[host]
  BY <1>1, <1>2, NodeConstants DEF O!OutboundConstants
<1>4. /\ calls' = [calls EXCEPT ![c].pc = "tls", ![c].conn = x, ![c].reused = FALSE]
      /\ UNCHANGED <<cfg, proc, ticking, up>>
      /\ pool' \subseteq O!Connections /\ PoolInv'
  BY DEF O!Connect, ProcessInv, PoolInv
<1> HIDE DEF host, port
<1>5. x \in O!Connections
  BY <1>1 DEF O!Connections
<1>6. k \in O!CallType /\ CallInv(k)
  BY <1>1, <1>3, <1>5, Zenon DEF O!CallType, CallInv, O!InFlight, host
<1>7. calls' = [calls EXCEPT ![c] = k]
  BY <1>4, Zenon DEF ProcessInv, O!TypeOK
<1> HIDE DEF k
<1>8. QED
  BY <1>4, <1>6, <1>7, CallStep, Zenon

\* The handshake lets through what names the host, and the IMDS bridge.
LEMMA HandshakeInv ==
  ASSUME ProcessInv, NEW c \in O!Callers, O!Handshake(c)
  PROVE  ProcessInv'
<1> DEFINE k == [calls[c] EXCEPT !.pc = "sent"]
<1>1. calls[c] \in O!CallType /\ CallInv(calls[c]) /\ calls[c].pc = "tls"
  BY DEF ProcessInv, O!TypeOK, O!Handshake
<1>2. UNCHANGED <<cfg, proc, ticking, pool, up>>
  BY DEF O!Handshake
<1>3. CASE calls[c].host \in O!Local \/ calls[c].conn.peer = Names[calls[c].host]
  <2>1. k \in O!CallType /\ CallInv(k)
    BY <1>1, <1>3 DEF O!CallType, CallInv, O!InFlight
  <2>2. calls' = [calls EXCEPT ![c] = k]
    BY <1>3 DEF ProcessInv, O!TypeOK, O!Handshake
  <2>3. pool' \subseteq O!Connections /\ PoolInv'
    BY <1>2 DEF ProcessInv, PoolInv
  <2> HIDE DEF k
  <2>4. QED
    BY <1>2, <2>1, <2>2, <2>3, CallStep, Zenon
<1>4. CASE ~(calls[c].host \in O!Local \/ calls[c].conn.peer = Names[calls[c].host])
  BY <1>2, <1>4, FailInv DEF O!Handshake
<1>5. QED
  BY <1>3, <1>4

\* The connection of an answered call goes back to the pool as it was.
LEMMA RespondInv ==
  ASSUME ProcessInv, NEW c \in O!Callers, O!Respond(c)
  PROVE  ProcessInv'
<1> DEFINE k == [calls[c] EXCEPT !.pc = "ok", !.reused = FALSE]
<1>1. calls[c] \in O!CallType /\ CallInv(calls[c]) /\ calls[c].pc = "sent"
  BY DEF ProcessInv, O!TypeOK, O!Respond
<1>2. k \in O!CallType /\ CallInv(k)
  BY <1>1, Zenon DEF O!CallType, CallInv, O!InFlight
<1>3. calls' = [calls EXCEPT ![c] = k]
  BY Zenon DEF ProcessInv, O!TypeOK, O!Respond
<1>4. calls[c].conn \in O!Connections /\ calls[c].conn.peer = Names[calls[c].conn.host]
  BY <1>1 DEF CallInv
<1>5. pool' = pool \union {calls[c].conn} /\ UNCHANGED <<cfg, proc, ticking, up>>
  BY DEF O!Respond
<1>6. pool' \subseteq O!Connections /\ PoolInv'
  BY <1>4, <1>5 DEF ProcessInv, PoolInv
<1> HIDE DEF k
<1>7. QED
  BY <1>2, <1>3, <1>5, <1>6, CallStep, Zenon

\* A closed connection still leads where it did.
LEMMA CloseInv ==
  ASSUME ProcessInv, NEW c \in O!Callers, O!Close(c)
  PROVE  ProcessInv'
<1> DEFINE x == [calls[c].conn EXCEPT !.open = FALSE]
           k == [calls[c] EXCEPT !.conn = x]
<1>1. calls[c] \in O!CallType /\ CallInv(calls[c]) /\ calls[c].pc \in {"tls", "sent"}
  BY DEF ProcessInv, O!TypeOK, O!Close
<1>2. calls[c].conn \in O!Connections
  BY <1>1 DEF CallInv
<1>3. x \in O!Connections /\ x.host = calls[c].conn.host /\ x.peer = calls[c].conn.peer
  BY <1>2, Zenon DEF O!Connections
<1>4. calls' = [calls EXCEPT ![c] = k]
  BY <1>1, <1>2, Zenon DEF ProcessInv, O!TypeOK, O!Close, O!CallType, O!Connections
<1> HIDE DEF x
<1>5. k \in O!CallType /\ CallInv(k)
  BY <1>1, <1>3, Zenon DEF O!CallType, CallInv, O!InFlight
<1>6. /\ UNCHANGED <<cfg, proc, ticking, up>>
      /\ pool' \subseteq O!Connections /\ PoolInv'
  BY DEF O!Close, ProcessInv, PoolInv
<1> HIDE DEF k
<1>7. QED
  BY <1>4, <1>5, <1>6, CallStep, Zenon

\* A broken call fails, or begins again without its connection.
LEMMA BreakInv ==
  ASSUME ProcessInv, NEW c \in O!Callers, O!Break(c)
  PROVE  ProcessInv'
<1> DEFINE k == [calls[c] EXCEPT !.pc = "connect", !.conn = O!NoConn]
<1>1. UNCHANGED <<cfg, proc, ticking, pool, up>>
  BY DEF O!Break
<1>2. CASE O!Fail(c)
  BY <1>1, <1>2, FailInv
<1>3. CASE calls' = [calls EXCEPT ![c].pc = "connect", ![c].conn = O!NoConn]
  <2>1. calls[c] \in O!CallType /\ CallInv(calls[c]) /\ calls[c].pc \in {"tls", "sent"}
    BY DEF ProcessInv, O!TypeOK, O!Break
  <2>2. k \in O!CallType /\ CallInv(k)
    BY <2>1, Zenon DEF O!CallType, CallInv, O!InFlight
  <2>3. calls' = [calls EXCEPT ![c] = k]
    BY <1>3, Zenon DEF ProcessInv, O!TypeOK
  <2>4. pool' \subseteq O!Connections /\ PoolInv'
    BY <1>1 DEF ProcessInv, PoolInv
  <2> HIDE DEF k
  <2>5. QED
    BY <1>1, <2>2, <2>3, <2>4, CallStep, Zenon
<1>4. QED
  BY <1>2, <1>3 DEF O!Break

\* A connection that a stopped proxy has cut still names host and peer.
LEMMA CutInv ==
  ASSUME NEW port
  PROVE  /\ \A x \in O!Connections : /\ O!Cut(x, port) \in O!Connections
                                     /\ O!Cut(x, port).host = x.host
                                     /\ O!Cut(x, port).peer = x.peer
         /\ O!Cut(O!NoConn, port) = O!NoConn
<1>1. \A x \in O!Connections : /\ O!Cut(x, port) \in O!Connections
                               /\ O!Cut(x, port).host = x.host
                               /\ O!Cut(x, port).peer = x.peer
  BY Zenon DEF O!Cut, O!Connections
<1>2. O!Cut(O!NoConn, port) = O!NoConn
  BY Zenon DEF O!Cut, O!NoConn
<1>3. QED
  BY <1>1, <1>2

\* A proxy stops: the connections through it are cut, wherever they are.
LEMMA ProxyStopsInv ==
  ASSUME ProcessInv, NEW port \in DOMAIN Proxies, O!ProxyStops(port)
  PROVE  ProcessInv'
<1>1. UNCHANGED <<cfg, proc, ticking>> /\ up' \subseteq DOMAIN Proxies
  BY DEF O!ProxyStops, ProcessInv, O!TypeOK
<1>2. pool' = {O!Cut(x, port) : x \in pool}
  BY DEF O!ProxyStops
<1>3. pool' \subseteq O!Connections /\ PoolInv'
  <2>1. ASSUME NEW y \in pool' PROVE y \in O!Connections /\ y.peer = Names[y.host]
    <3>1. PICK x \in pool : y = O!Cut(x, port)
      BY <1>2
    <3>2. x \in O!Connections /\ x.peer = Names[x.host]
      BY DEF ProcessInv, PoolInv
    <3>3. QED
      BY <3>1, <3>2, CutInv
  <2>2. QED
    BY <2>1 DEF PoolInv
<1>4. ASSUME NEW c \in O!Callers PROVE calls'[c] \in O!CallType /\ CallInv(calls'[c])
  <2> DEFINE k == [calls[c] EXCEPT !.conn = O!Cut(@, port)]
  <2>1. calls[c] \in O!CallType /\ CallInv(calls[c])
    BY DEF ProcessInv, O!TypeOK
  <2>2. calls'[c] = k \/ calls'[c] = calls[c]
    BY DEF O!ProxyStops
  <2>3. k \in O!CallType
    BY <2>1, CutInv DEF O!CallType
  <2>4. k.pc = calls[c].pc /\ k.host = calls[c].host /\ k.conn = O!Cut(calls[c].conn, port)
    BY <2>1 DEF O!CallType
  <2> HIDE DEF k
  <2>5. k.pc \in {"tls", "sent", "ok"} =>
          /\ k.conn \in O!Connections
          /\ k.conn.host = calls[c].conn.host /\ k.conn.peer = calls[c].conn.peer
    BY <2>1, <2>4, CutInv DEF CallInv
  <2>6. CallInv(k)
    BY <2>1, <2>4, <2>5 DEF CallInv
  <2>7. QED
    BY <2>1, <2>2, <2>3, <2>6
<1>5. calls' \in [O!Callers -> O!CallType]
  <2>1. calls' = [c \in O!Callers |-> calls'[c]]
    BY DEF O!ProxyStops
  <2>2. QED
    BY <1>4, <2>1
<1>6. ConfigInv'
  BY <1>1 DEF ProcessInv, ConfigInv, TasksTick, O!TasksTick, O!validate
<1>7. QED
  BY <1>1, <1>3, <1>4, <1>5, <1>6 DEF ProcessInv, O!TypeOK

\* A closed idle connection is dropped, and a proxy starts.
LEMMA QuietInv ==
  ASSUME ProcessInv,
         \/ \E x \in pool : O!DropIdle(x)
         \/ \E port \in DOMAIN Proxies : O!ProxyStarts(port)
  PROVE  ProcessInv'
<1>1. UNCHANGED <<cfg, proc, ticking, calls>> /\ pool' \subseteq pool /\ up' \subseteq DOMAIN Proxies
  BY DEF O!DropIdle, O!ProxyStarts, ProcessInv, O!TypeOK
<1>2. O!TypeOK' /\ PoolInv'
  BY <1>1 DEF ProcessInv, PoolInv, O!TypeOK
<1>3. ConfigInv'
  BY <1>1 DEF ProcessInv, ConfigInv, TasksTick, O!TasksTick, O!validate
<1>4. QED
  BY <1>1, <1>2, <1>3 DEF ProcessInv

\* main: the process starts, validates its configuration, spawns its tasks and
\* ends.  A valid configuration has no interval that would stop a task.
LEMMA MainInv ==
  ASSUME ProcessInv, O!ProcessStarts \/ O!ProcessEnds \/ O!LoadConfig \/ O!SpawnTasks
  PROVE  ProcessInv'
<1>1. CASE O!ProcessStarts \/ O!LoadConfig
  <2>1. UNCHANGED <<cfg, ticking, calls, pool, up>> /\ proc' \in {"boot", "init"}
    BY <1>1 DEF O!ProcessStarts, O!LoadConfig
  <2>2. ConfigInv'
    BY <1>1, <2>1 DEF O!ProcessStarts, O!LoadConfig, ConfigInv, TasksTick, O!TasksTick, O!validate
  <2>3. QED
    BY <2>1, <2>2 DEF ProcessInv, O!TypeOK, PoolInv
<1>2. CASE O!ProcessEnds
  BY <1>2, IdleInv DEF O!ProcessEnds, ProcessInv, O!TypeOK, PoolInv, ConfigInv, TasksTick, O!TasksTick
<1>3. CASE O!SpawnTasks
  <2>1. /\ UNCHANGED <<cfg, pool, up>> /\ proc' = "serving" /\ O!validate(cfg)
        /\ calls' = [calls EXCEPT !["main"] = O!Idle] /\ ticking' = {t \in O!Tasks : cfg[t] > 0}
    BY <1>3 DEF O!SpawnTasks, ProcessInv, ConfigInv
  <2>2. ticking' = O!Tasks
    BY <2>1 DEF O!validate, O!Tasks
  <2>3. ConfigInv'
    BY <2>1, <2>2 DEF ConfigInv, TasksTick, O!TasksTick, O!validate
  <2>4. O!TypeOK' /\ \A c \in O!Callers : CallInv(calls'[c])
    BY <2>1, <2>2, IdleInv, Zenon DEF ProcessInv, O!TypeOK
  <2>5. QED
    BY <2>1, <2>3, <2>4 DEF ProcessInv, PoolInv
<1>4. QED
  BY <1>1, <1>2, <1>3

\* A step inside the process keeps its invariant and does not end it.
LEMMA InternalInv ==
  ASSUME ProcessInv, O!Internal
  PROVE  ProcessInv' /\ (proc' = "off" <=> proc = "off")
<1>1. CASE O!LoadConfig \/ O!SpawnTasks
  BY <1>1, MainInv DEF O!LoadConfig, O!SpawnTasks
<1>2. ASSUME NEW c \in O!Callers, O!Proceed(c) PROVE ProcessInv' /\ proc' = proc
  <2>1. proc' = proc
    BY <1>2, Zenon DEF O!Proceed, O!Advance, O!Reuse, O!Connect, O!ConnectErr, O!Handshake,
       O!Respond, O!Close, O!Break
  <2>2. CASE O!ConnectErr(c)
    BY <2>2, FailInv, SMTT(30) DEF O!ConnectErr
  <2>3. QED
    BY <1>2, <2>1, <2>2, ReuseInv, ConnectInv, HandshakeInv, RespondInv, CloseInv, BreakInv
       DEF O!Proceed, O!Advance
<1>3. ASSUME NEW c \in O!Callers, NEW h \in Hosts, O!Call(c, h) PROVE ProcessInv' /\ proc' = proc
  BY <1>3, CallInvStep, Zenon DEF O!Call
<1>4. CASE \E port \in DOMAIN Proxies : O!ProxyStops(port)
  BY <1>4, ProxyStopsInv, Zenon DEF O!ProxyStops
<1>5. CASE \/ \E x \in pool : O!DropIdle(x)
           \/ \E port \in DOMAIN Proxies : O!ProxyStarts(port)
  BY <1>5, QuietInv DEF O!DropIdle, O!ProxyStarts
<1>6. QED
  BY <1>1, <1>2, <1>3, <1>4, <1>5 DEF O!Internal

\* The script and the node alone: every way out of the monitor loop, a failing
\* command under set -e included, passes the EXIT trap, which terminates the
\* enclave or fails to.
LEMMA RunnerInv ==
  ASSUME R!TypeOK, OrphanOnlyByFault, R!Next
  PROVE  R!TypeOK' /\ OrphanOnlyByFault'
<1> USE DEF R!TypeOK, R!Scripts, R!Enclaves, OrphanOnlyByFault, R!OrphanOnlyByFault
<1>1. CASE R!StartContainer \/ R!RunEnclave \/ R!RunEnclaveErr
  BY <1>1, Zenon DEF R!StartContainer, R!RunEnclave, R!RunEnclaveErr
<1>2. CASE R!ExtractId \/ R!ExtractIdErr \/ R!SetTrap
  BY <1>2, Zenon DEF R!ExtractId, R!ExtractIdErr, R!SetTrap, R!EndsWithout
<1>3. CASE R!Poll \/ R!PollErr \/ R!TrapTerm \/ R!Exit
  BY <1>3, Zenon DEF R!Poll, R!PollErr, R!TrapTerm, R!Exit, R!Terminate
<1>4. CASE R!Term \/ R!Kill \/ R!EnclaveStops \/ R!EnclaveGone
  BY <1>4, Zenon DEF R!Term, R!Kill, R!EnclaveStops, R!EnclaveGone, R!EndsWithout
<1>5. QED
  BY <1>1, <1>2, <1>3, <1>4 DEF R!Next, R!Script

\* The process follows the enclave: it starts and ends with it.
LEMMA FollowsInv ==
  ASSUME IInv, Follows, enclave' \in R!Enclaves
  PROVE  ProcessInv' /\ (proc' # "off" <=> enclave' = "running")
<1>1. CASE enclave # "running" /\ enclave' = "running"
  BY <1>1, MainInv DEF Follows, IInv, O!ProcessStarts
<1>2. CASE enclave = "running" /\ enclave' # "running"
  BY <1>2, MainInv DEF Follows, IInv, O!ProcessEnds
<1>3. CASE ~(enclave # "running" /\ enclave' = "running")
           /\ ~(enclave = "running" /\ enclave' # "running")
  <2>1. UNCHANGED outboundVars
    BY <1>3 DEF Follows
  <2>2. ProcessInv'
    BY <2>1 DEF IInv, outboundVars, ProcessInv, O!TypeOK, PoolInv, ConfigInv, TasksTick,
       O!TasksTick, O!validate
  <2>3. QED
    BY <1>3, <2>1, <2>2 DEF IInv, TypeOK, outboundVars
<1>4. QED
  BY <1>1, <1>2, <1>3

\* Every step of the node keeps the invariant.
LEMMA Inductive == IInv /\ [Next]_vars => IInv'
<1> SUFFICES ASSUME IInv, [Next]_vars PROVE IInv'
  OBVIOUS
<1>1. ASSUME R!Next, Follows PROVE IInv'
  <2>1. R!TypeOK' /\ OrphanOnlyByFault'
    BY <1>1, RunnerInv DEF IInv, TypeOK
  <2>2. ProcessInv' /\ (proc' # "off" <=> enclave' = "running")
    BY <1>1, <2>1, FollowsInv DEF R!TypeOK
  <2>3. QED
    BY <2>1, <2>2 DEF IInv, TypeOK, ProcessInv
<1>2. ASSUME O!ProcessEnds, R!EnclaveStops PROVE IInv'
  <2>1. R!TypeOK' /\ OrphanOnlyByFault'
    BY <1>2, RunnerInv DEF IInv, TypeOK, R!Next
  <2>2. ProcessInv' /\ proc' = "off" /\ enclave' = "stopped"
    BY <1>2, MainInv DEF IInv, O!ProcessEnds, R!EnclaveStops
  <2>3. QED
    BY <2>1, <2>2 DEF IInv, TypeOK, ProcessInv
<1>3. ASSUME O!Internal, UNCHANGED runnerVars PROVE IInv'
  <2>1. ProcessInv' /\ (proc' = "off" <=> proc = "off")
    BY <1>3, InternalInv DEF IInv
  <2>2. R!TypeOK' /\ OrphanOnlyByFault' /\ enclave' = enclave
    BY <1>3 DEF IInv, TypeOK, runnerVars, R!TypeOK, OrphanOnlyByFault, R!OrphanOnlyByFault
  <2>3. QED
    BY <2>1, <2>2 DEF IInv, TypeOK, ProcessInv
<1>4. CASE UNCHANGED vars
  BY <1>4 DEF vars, runnerVars, outboundVars, IInv, TypeOK, R!TypeOK, ProcessInv, O!TypeOK,
     PoolInv, ConfigInv, TasksTick, O!TasksTick, O!validate, OrphanOnlyByFault, R!OrphanOnlyByFault
<1>5. QED
  BY <1>1, <1>2, <1>3, <1>4 DEF Next, InRunner, InProcess, Ends, R!Next, O!LoadConfigErr, O!StartupErr

\* The node starts without an enclave and without a process.
LEMMA InitInv == Init => IInv
<1> SUFFICES ASSUME Init PROVE IInv
  OBVIOUS
<1>1. R!TypeOK /\ OrphanOnlyByFault
  BY Zenon DEF Init, R!Init, R!TypeOK, R!Scripts, R!Enclaves, OrphanOnlyByFault, R!OrphanOnlyByFault
<1>2. O!TypeOK /\ \A c \in O!Callers : CallInv(calls[c])
  BY IdleInv DEF Init, O!Init, O!TypeOK
<1>3. PoolInv /\ ConfigInv
  BY DEF Init, O!Init, PoolInv, ConfigInv, TasksTick, O!TasksTick
<1>4. proc = "off" /\ enclave = "none"
  BY DEF Init, O!Init, R!Init
<1>5. QED
  BY <1>1, <1>2, <1>3, <1>4 DEF IInv, TypeOK, ProcessInv

-----------------------------------------------------------------------------
(* Routing.                                                                *)

\* A connection in its handshake leads where the connector sends its host.
RouteInv ==
  \A c \in O!Callers :
    calls[c].pc = "tls" => calls[c].conn.peer = Proxies[O!PortFor(calls[c].host)]

\* A step that changes no call into one in its handshake and leaves the peers of
\* those that are alone.
LEMMA RouteKept ==
  ASSUME RouteInv, cfg' = cfg,
         \A c \in O!Callers : calls'[c].pc = "tls" =>
           /\ calls[c].pc = "tls" /\ calls'[c].host = calls[c].host
           /\ calls'[c].conn.peer = calls[c].conn.peer
  PROVE  RouteInv'
BY DEF RouteInv, O!PortFor, O!vsock_port

\* A step of one call leaves the others alone.
LEMMA RouteOne ==
  ASSUME ProcessInv, RouteInv, cfg' = cfg, NEW c \in O!Callers, NEW k,
         calls' = [calls EXCEPT ![c] = k],
         k.pc = "tls" => k.conn.peer = Proxies[O!PortFor(k.host)]
  PROVE  RouteInv'
<1>1. calls \in [O!Callers -> O!CallType]
  BY DEF ProcessInv, O!TypeOK
<1>2. \A h : O!PortFor(h)' = O!PortFor(h)
  BY Zenon DEF O!PortFor, O!vsock_port
<1>3. \A d \in O!Callers : calls'[d] = IF d = c THEN k ELSE calls[d]
  BY <1>1
<1>4. QED
  BY <1>2, <1>3 DEF RouteInv

\* The steps of a call: a new connection goes where PortFor says, and no other step
\* begins a handshake.
LEMMA RouteProceed ==
  ASSUME ProcessInv, RouteInv, NEW c \in O!Callers,
         O!Proceed(c) \/ \E h \in Hosts : O!Call(c, h)
  PROVE  RouteInv'
<1>1. calls \in [O!Callers -> O!CallType] /\ calls[c] \in O!CallType
  BY DEF ProcessInv, O!TypeOK
<1>2. cfg' = cfg
  BY Zenon DEF O!Proceed, O!Advance, O!Reuse, O!Connect, O!ConnectErr, O!Handshake,
     O!Respond, O!Close, O!Break, O!Call
<1>3. CASE O!Connect(c)
  <2> DEFINE host == calls[c].host
             x == [host |-> host, port |-> O!PortFor(host),
                   peer |-> Proxies[O!PortFor(host)], open |-> TRUE]
             k == [calls[c] EXCEPT !.pc = "tls", !.conn = x, !.reused = FALSE]
  <2>1. calls' = [calls EXCEPT ![c] = k]
    BY <1>1, <1>3, Zenon DEF O!Connect
  <2>2. k.conn.peer = Proxies[O!PortFor(k.host)]
    BY <1>1, Zenon DEF O!CallType
  <2> HIDE DEF k
  <2>3. QED
    BY <1>2, <2>1, <2>2, RouteOne, Zenon
<1>4. CASE O!Close(c)
  <2> DEFINE x == [calls[c].conn EXCEPT !.open = FALSE]
             k == [calls[c] EXCEPT !.conn = x]
  <2>1. calls[c].conn \in O!Connections
    BY <1>4 DEF ProcessInv, CallInv, O!Close
  <2>2. x.peer = calls[c].conn.peer
    BY <2>1, Zenon DEF O!Connections
  <2>3. calls' = [calls EXCEPT ![c] = k]
    BY <1>1, <1>4, <2>1, Zenon DEF O!Close, O!CallType, O!Connections
  <2> HIDE DEF x
  <2>4. k.pc = "tls" => k.conn.peer = Proxies[O!PortFor(k.host)]
    BY <1>1, <2>2 DEF O!CallType, RouteInv
  <2> HIDE DEF k
  <2>5. QED
    BY <1>2, <2>3, <2>4, RouteOne, Zenon
<1>5. CASE ~O!Connect(c) /\ ~O!Close(c)
  <2> DEFINE Elsewhere == calls'[c].pc # "tls" /\ \A d \in O!Callers \ {c} : calls'[d] = calls[d]
  <2> SUFFICES Elsewhere
    BY <1>2, RouteKept, SMTT(30)
  <2>1. ASSUME NEW pc, pc # "tls", NEW k, k.pc = pc, calls' = [calls EXCEPT ![c] = k]
        PROVE  Elsewhere
    BY <1>1, <2>1, SMTT(30)
  <2>2. ASSUME O!Fail(c) PROVE Elsewhere
    <3>1. [O!Idle EXCEPT !.pc = "err"].pc = "err"
      BY DEF O!Idle
    <3>2. QED
      BY <2>1, <2>2, <3>1, Zenon DEF O!Fail
  <2>3. ASSUME NEW h \in Hosts, O!Call(c, h) PROVE Elsewhere
    <3>1. [O!Idle EXCEPT !.pc = "connect", !.host = h].pc = "connect"
      BY DEF O!Idle
    <3>2. QED
      BY <2>1, <2>3, <3>1, Zenon DEF O!Call
  <2>4. CASE O!ConnectErr(c)
    BY <2>2, <2>4, Zenon DEF O!ConnectErr
  <2>5. CASE O!Reuse(c)
    <3>1. PICK x \in pool :
            calls' = [calls EXCEPT ![c].pc = "sent", ![c].conn = x, ![c].reused = TRUE]
      BY <2>5, Zenon DEF O!Reuse
    <3>2. QED
      BY <1>1, <3>1, SMTT(30) DEF O!CallType
  <2>6. CASE O!Handshake(c)
    <3>1. CASE calls' = [calls EXCEPT ![c].pc = "sent"]
      BY <1>1, <3>1, SMTT(30) DEF O!CallType
    <3>2. QED
      BY <2>2, <2>6, <3>1, Zenon DEF O!Handshake
  <2>7. CASE O!Respond(c)
    <3>1. calls' = [calls EXCEPT ![c].pc = "ok", ![c].reused = FALSE]
      BY <2>7, Zenon DEF O!Respond
    <3>2. QED
      BY <1>1, <3>1, SMTT(30) DEF O!CallType
  <2>8. CASE O!Break(c)
    <3>1. CASE calls' = [calls EXCEPT ![c].pc = "connect", ![c].conn = O!NoConn]
      BY <1>1, <3>1, SMTT(30) DEF O!CallType
    <3>2. QED
      BY <2>2, <2>8, <3>1, Zenon DEF O!Break
  <2>9. QED
    BY <1>5, <2>3, <2>4, <2>5, <2>6, <2>7, <2>8, Zenon DEF O!Proceed, O!Advance
<1>6. QED
  BY <1>3, <1>4, <1>5

\* A proxy that stops cuts connections and changes no peer.
LEMMA RouteProxyStops ==
  ASSUME ProcessInv, RouteInv, NEW port \in DOMAIN Proxies, O!ProxyStops(port)
  PROVE  RouteInv'
<1>1. cfg' = cfg
  BY DEF O!ProxyStops
<1>2. ASSUME NEW c \in O!Callers, calls'[c].pc = "tls"
      PROVE  /\ calls[c].pc = "tls" /\ calls'[c].host = calls[c].host
             /\ calls'[c].conn.peer = calls[c].conn.peer
  <2> DEFINE k == [calls[c] EXCEPT !.conn = O!Cut(@, port)]
  <2>1. calls[c] \in O!CallType /\ CallInv(calls[c])
    BY DEF ProcessInv, O!TypeOK
  <2>2. calls'[c] = k \/ calls'[c] = calls[c]
    BY DEF O!ProxyStops
  <2>3. k.pc = calls[c].pc /\ k.host = calls[c].host /\ k.conn = O!Cut(calls[c].conn, port)
    BY <2>1 DEF O!CallType
  <2> HIDE DEF k
  <2>4. calls[c].pc = "tls"
    BY <1>2, <2>2, <2>3
  <2>5. O!Cut(calls[c].conn, port).peer = calls[c].conn.peer
    BY <2>1, <2>4, CutInv DEF CallInv
  <2>6. QED
    BY <2>2, <2>3, <2>4, <2>5
<1>3. QED
  BY <1>1, <1>2, RouteKept, Zenon

\* Every step of the node keeps the routes.
LEMMA RouteStep == IInv /\ RouteInv /\ [Next]_vars => RouteInv'
<1> SUFFICES ASSUME IInv, RouteInv, [Next]_vars PROVE RouteInv'
  OBVIOUS
<1>1. ProcessInv
  BY DEF IInv
<1>2. CASE UNCHANGED <<cfg, calls>>
  BY <1>2, RouteKept
<1>3. CASE O!ProcessEnds
  BY <1>3, RouteKept DEF O!ProcessEnds, O!Idle
<1>4. CASE O!Internal
  <2>1. CASE O!SpawnTasks
    <3>1. cfg' = cfg /\ calls' = [calls EXCEPT !["main"] = O!Idle] /\ "main" \in O!Callers
      BY <2>1 DEF O!SpawnTasks, O!Callers
    <3>2. QED
      BY <1>1, <3>1, RouteOne, Zenon DEF O!Idle
  <2>2. CASE O!LoadConfig \/ (\E x \in pool : O!DropIdle(x))
             \/ (\E port \in DOMAIN Proxies : O!ProxyStarts(port))
    BY <1>2, <2>2 DEF O!LoadConfig, O!DropIdle, O!ProxyStarts
  <2>3. QED
    BY <1>1, <1>4, <2>1, <2>2, RouteProceed, RouteProxyStops DEF O!Internal
<1>5. ASSUME Follows PROVE RouteInv'
  BY <1>2, <1>3, <1>5 DEF Follows, O!ProcessStarts, outboundVars
<1>6. QED
  BY <1>2, <1>3, <1>4, <1>5 DEF Next, InRunner, InProcess, Ends, O!LoadConfigErr, O!StartupErr, vars,
     outboundVars

\* With the right base port the connector sends a host to the proxy of its service,
\* if there is one: vsock_port takes the same way for the host as for the service's
\* plain name.
LEMMA PortOfItsService ==
  ASSUME O!BasePortIsRight, NEW h \in Hosts,
         \E port \in DOMAIN Proxies : Proxies[port] = Names[h]
  PROVE  Proxies[O!PortFor(h)] = Names[h]
<1>1. CASE h \in O!Local
  BY <1>1, NodeConstants DEF O!PortFor, O!OutboundConstants
<1>2. CASE h \notin O!Local
  <2> DEFINE plain == <<Names[h], "region">>
  <2>1. /\ Names[h] = IF "s3" \in O!Inside(h) THEN "s3" ELSE Head(h)
        /\ "s3" \in O!Inside(h) => Head(h) \notin {"kms", "secretsmanager"}
        /\ Names[h] # "imds"
    BY <1>2, NodeConstants DEF O!OutboundConstants
  <2>2. Head(plain) = Names[h] /\ O!Inside(plain) = {}
    BY DEF O!Inside
  <2> HIDE DEF plain
  <2>3. \A base : O!vsock_port(h, base) = O!vsock_port(plain, base)
    BY <2>1, <2>2 DEF O!vsock_port
  <2>4. PICK port \in DOMAIN Proxies : Proxies[port] = Names[h]
    OBVIOUS
  <2>5. O!vsock_port(plain, cfg.vsock_proxy_port) = port
    BY <2>1, <2>4 DEF O!BasePortIsRight, plain
  <2>6. QED
    BY <1>2, <2>3, <2>4, <2>5 DEF O!PortFor
<1>3. QED
  BY <1>1, <1>2

\* The invariant holds in every state of the node.
THEOREM Invariant == Spec => []IInv
<1>1. Init => IInv
  BY InitInv
<1>2. IInv /\ [Next]_vars => IInv'
  BY Inductive
<1>3. QED
  BY <1>1, <1>2, PTL DEF Spec

\* Types, and the process runs exactly while nitro-cli shows a running enclave.
THEOREM TypeCorrect == Spec => []TypeOK
<1>1. IInv => TypeOK
  BY DEF IInv
<1>2. QED
  BY <1>1, Invariant, PTL

\* run-enclave.sh leaves an enclave unwatched only after a kill, an exit before
\* its trap, or a terminate-enclave that failed.
THEOREM OrphansByFault == Spec => []OrphanOnlyByFault
<1>1. IInv => OrphanOnlyByFault
  BY DEF IInv
<1>2. QED
  BY <1>1, Invariant, PTL

\* An answer to an AWS client comes from the service its host names, with any
\* base port, any proxies, and any connections left in hyper's pool.
THEOREM AnsweredByName == Spec => []AnsweredByNamedService
<1>1. IInv => AnsweredByNamedService
  BY DEF IInv, ProcessInv, CallInv, AnsweredByNamedService, O!AnsweredByNamedService
<1>2. QED
  BY <1>1, Invariant, PTL

\* Whatever the image is configured with, a serving process rotates and refreshes.
THEOREM ServingTicks == Spec => []TasksTick
<1>1. IInv => TasksTick
  BY DEF IInv, ProcessInv, ConfigInv
<1>2. QED
  BY <1>1, Invariant, PTL

\* With the right base port every connection arrives at the service that its host
\* names, bucket hosts included, through stops of proxies, restarts and connections
\* from hyper's pool (vsock_port, VsockRawConnector::call).
THEOREM RoutedByName == Spec => []RoutedToItsService
<1>1. Init => RouteInv
  BY DEF Init, O!Init, O!Idle, RouteInv
<1>2. IInv /\ RouteInv => RoutedToItsService
  <2> SUFFICES ASSUME IInv, RouteInv, NEW c \in O!Callers, O!BasePortIsRight,
                      calls[c].pc \in {"tls", "sent"},
                      \E port \in DOMAIN Proxies : Proxies[port] = Names[calls[c].host]
               PROVE  calls[c].conn.peer = Names[calls[c].host]
    BY Zenon DEF RoutedToItsService, O!RoutedToItsService
  <2>1. CallInv(calls[c])
    BY DEF IInv, ProcessInv
  <2>2. CASE calls[c].pc = "tls"
    BY <2>1, <2>2, PortOfItsService DEF CallInv, RouteInv
  <2>3. QED
    BY <2>1, <2>2 DEF CallInv
<1>3. QED
  BY <1>1, <1>2, RouteStep, Invariant, PTL DEF Spec
=============================================================================
