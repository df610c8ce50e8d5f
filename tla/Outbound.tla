------------------------------ MODULE Outbound ------------------------------
(***************************************************************************)
(* The enclave's calls to AWS (aws/clients.rs, aws/vsock_connector.rs) and *)
(* the configuration they depend on (config.rs).                           *)
(*                                                                         *)
(* A call goes to the host of its URI over a pooled connection of that     *)
(* host, or over a new one: TCP to the IMDS bridge for a local host, else  *)
(* a vsock port of the parent, where a proxy relays to the one service of  *)
(* its configuration.  TLS is between the enclave and that service.  The   *)
(* proxies stop and are started again by systemd.                          *)
(*                                                                         *)
(* hyper's pool and retry, the TLS check and the SDK are external.         *)
(***************************************************************************)
EXTENDS Naturals, Sequences, FiniteSets

CONSTANTS Hosts,       \* hosts of URIs, as sequences of labels
          Names,       \* the service that each host names
          HostsOf,     \* the hosts that each caller calls
          Configs,     \* configurations an image may be built with
          ParentCid,   \* the parent's vsock CID
          Proxies,     \* port of the parent |-> service its proxy relays to
          ImdsPort,    \* the port of the IMDS bridge and of its proxy
          MaxDown,     \* bound: proxies that are down at once
          PortLimit    \* ports are integers modulo this (2^32 in the code)

VARIABLES cfg,       \* the environment baked into the image
          proc,      \* how far main has come: off, boot, init, serving
          ticking,   \* the background tasks that run
          calls,     \* the call of each caller
          pool,      \* hyper's idle connections
          up         \* the ports whose proxy runs

vars == <<cfg, proc, ticking, calls, pool, up>>

Tasks == {"rotation", "refresh"}
Callers == Tasks \union {"main"}

\* Fields of Config that the model tells apart. "strings": the required ones
\* are all set and not empty.
ConfigType ==
  [strings : BOOLEAN, vsock_proxy_cid : Nat, vsock_proxy_port : 0 .. PortLimit - 1,
   rotation : Nat, refresh : Nat]

Local == {<<"localhost">>, <<"127", "0", "0", "1">>}

\* The labels of a host between dots: neither the first nor the last.
Inside(host) == {host[i] : i \in 2 .. Len(host) - 1}

\* What the instance must satisfy.  Behind the IMDS bridge's port is IMDS.  An AWS
\* host begins with its service, or it is that of a bucket, bucket.s3.region..., and
\* no bucket is called kms or secretsmanager.
OutboundConstants ==
  /\ Hosts \subseteq Seq(STRING) \ {<<>>}
  /\ DOMAIN Names = Hosts
  /\ DOMAIN HostsOf = Callers /\ \A c \in Callers : HostsOf[c] \subseteq Hosts
  /\ MaxDown \in Nat /\ PortLimit \in Nat \ {0}
  /\ DOMAIN Proxies \subseteq 0 .. PortLimit - 1
  /\ ImdsPort \in DOMAIN Proxies
  /\ \A h \in Hosts \intersect Local : Names[h] = Proxies[ImdsPort]
  /\ \A h \in Hosts \ Local :
       /\ Len(h) > 1
       /\ Names[h] = IF "s3" \in Inside(h) THEN "s3" ELSE Head(h)
       /\ "s3" \in Inside(h) => Head(h) \notin {"kms", "secretsmanager"}
       /\ Names[h] # "imds"
  /\ Configs \subseteq ConfigType

\* Mutant: the intervals are not checked.
validateNoIntervals(c) == c.strings /\ c.vsock_proxy_cid # 0

\* Config::from_env: deserialise, then validate.
validate(c) ==
  /\ c.strings
  /\ c.vsock_proxy_cid # 0
  /\ c.rotation > 0
  /\ c.refresh > 0

\* Mutant: path-style S3 hosts only.
vsock_portPathStyle(host, base) ==
  LET offset == CASE Head(host) = "kms" -> 1
                  [] Head(host) = "secretsmanager" -> 2
                  [] Head(host) = "s3" -> 3
                  [] OTHER -> 1
  IN (base + offset) % PortLimit

\* The first case that applies; an unknown host goes to the KMS port.
vsock_port(host, base) ==
  LET offset == IF Head(host) = "kms" THEN 1
                ELSE IF Head(host) = "secretsmanager" THEN 2
                ELSE IF Head(host) = "s3" \/ "s3" \in Inside(host) THEN 3
                ELSE 1
  IN (base + offset) % PortLimit

\* Where a new connection to a host arrives: the connector's choice for an AWS
\* endpoint, the IMDS bridge for a local host.
PortFor(host) ==
  IF host \in Local THEN ImdsPort ELSE vsock_port(host, cfg.vsock_proxy_port)

Listening(port) == cfg.vsock_proxy_cid = ParentCid /\ port \in up

-----------------------------------------------------------------------------

\* A connection: the host it was opened for, the port, the service behind it,
\* and whether it is still relayed and not closed.
Connections ==
  [host : Hosts, port : DOMAIN Proxies,
   peer : {Proxies[p] : p \in DOMAIN Proxies}, open : BOOLEAN]
NoConn == [host |-> <<>>, port |-> 0, peer |-> "none", open |-> FALSE]

InFlight == {"connect", "tls", "sent"}

\* When pc is "ok", conn is the connection the answer came from.
CallType ==
  [pc : InFlight \union {"idle", "ok", "err"}, host : Hosts \union {<<>>},
   conn : Connections \union {NoConn}, reused : BOOLEAN]

Idle == [pc |-> "idle", host |-> <<>>, conn |-> NoConn, reused |-> FALSE]

Init ==
  /\ cfg \in Configs
  /\ proc = "off" /\ ticking = {} /\ pool = {} /\ up = DOMAIN Proxies
  /\ calls = [c \in Callers |-> Idle]

ProcessStarts ==
  /\ proc = "off"
  /\ proc' = "boot"
  /\ UNCHANGED <<cfg, ticking, calls, pool, up>>

\* Connections and calls end with the process.
ProcessEnds ==
  /\ proc # "off"
  /\ proc' = "off" /\ ticking' = {} /\ pool' = {}
  /\ calls' = [c \in Callers |-> Idle]
  /\ UNCHANGED <<cfg, up>>

LoadConfig ==
  /\ proc = "boot" /\ validate(cfg)
  /\ proc' = "init"
  /\ UNCHANGED <<cfg, ticking, calls, pool, up>>

LoadConfigErr ==
  /\ proc = "boot" /\ ~validate(cfg)
  /\ ProcessEnds

\* A call of main that failed for good ends main.
StartupErr ==
  /\ proc = "init" /\ calls["main"].pc = "err"
  /\ ProcessEnds

\* main has awaited the last of its own calls and spawns the tasks; the timer of an
\* interval of zero panics, and its task ends with it.
SpawnTasks ==
  /\ proc = "init" /\ calls["main"].pc = "ok"
  /\ proc' = "serving"
  /\ ticking' = {t \in Tasks : cfg[t] > 0}
  /\ calls' = [calls EXCEPT !["main"] = Idle]
  /\ UNCHANGED <<cfg, pool, up>>

-----------------------------------------------------------------------------

\* The SDK hands a request to VsockAdapter::call.
Call(c, h) ==
  /\ IF c = "main" THEN proc = "init" ELSE proc = "serving" /\ c \in ticking
  /\ h \in HostsOf[c]
  /\ calls[c].pc \notin InFlight
  /\ calls' = [calls EXCEPT ![c] = [Idle EXCEPT !.pc = "connect", !.host = h]]
  /\ UNCHANGED <<cfg, proc, ticking, pool, up>>

\* The pool is keyed by the URI's scheme and authority.
Reuse(c) ==
  /\ calls[c].pc = "connect"
  /\ \E x \in pool :
       /\ x.host = calls[c].host
       /\ pool' = pool \ {x}
       /\ calls' = [calls EXCEPT ![c].pc = "sent", ![c].conn = x, ![c].reused = TRUE]
  /\ UNCHANGED <<cfg, proc, ticking, up>>

Fail(c) ==
  calls' = [calls EXCEPT ![c] = [Idle EXCEPT !.pc = "err"]]

\* VsockRawConnector::call.
Connect(c) ==
  LET host == calls[c].host
      port == PortFor(host)
  IN /\ calls[c].pc = "connect"
     /\ \A x \in pool : x.host # host
     /\ Listening(port)
     /\ calls' = [calls EXCEPT
          ![c].pc = "tls",
          ![c].conn = [host |-> host, port |-> port,
                       peer |-> Proxies[port], open |-> TRUE],
          ![c].reused = FALSE]
     /\ UNCHANGED <<cfg, proc, ticking, pool, up>>

\* Mutant: the connect is tried again, for ever.
ConnectErrRetries(c) ==
  /\ calls[c].pc = "connect"
  /\ \A x \in pool : x.host # calls[c].host
  /\ ~Listening(PortFor(calls[c].host))
  /\ UNCHANGED vars

ConnectErr(c) ==
  /\ calls[c].pc = "connect"
  /\ \A x \in pool : x.host # calls[c].host
  /\ ~Listening(PortFor(calls[c].host))
  /\ Fail(c)
  /\ UNCHANGED <<cfg, proc, ticking, pool, up>>

\* Mutant: any certificate will do.
HandshakeUnchecked(c) ==
  /\ calls[c].pc = "tls" /\ calls[c].conn.open
  /\ calls' = [calls EXCEPT ![c].pc = "sent"]
  /\ UNCHANGED <<cfg, proc, ticking, pool, up>>

\* http for a local host; for https the peer's certificate must name the host.
Handshake(c) ==
  /\ calls[c].pc = "tls" /\ calls[c].conn.open
  /\ IF calls[c].host \in Local \/ calls[c].conn.peer = Names[calls[c].host]
     THEN calls' = [calls EXCEPT ![c].pc = "sent"]
     ELSE Fail(c)
  /\ UNCHANGED <<cfg, proc, ticking, pool, up>>

\* The response is read and the connection is idle again.
Respond(c) ==
  /\ calls[c].pc = "sent" /\ calls[c].conn.open
  /\ calls' = [calls EXCEPT ![c].pc = "ok", ![c].reused = FALSE]
  /\ pool' = pool \union {calls[c].conn}
  /\ UNCHANGED <<cfg, proc, ticking, up>>

\* The peer, or the network between, closes the connection of a call.
Close(c) ==
  /\ calls[c].pc \in {"tls", "sent"} /\ calls[c].conn.open
  /\ calls' = [calls EXCEPT ![c].conn.open = FALSE]
  /\ UNCHANGED <<cfg, proc, ticking, pool, up>>

\* The call finds its connection closed; hyper tries again when it was a pooled one
\* and the request was not sent yet.
Break(c) ==
  /\ calls[c].pc \in {"tls", "sent"} /\ ~calls[c].conn.open
  /\ \/ Fail(c)
     \/ /\ calls[c].reused
        /\ calls' = [calls EXCEPT ![c].pc = "connect", ![c].conn = NoConn]
  /\ UNCHANGED <<cfg, proc, ticking, pool, up>>

\* hyper notices that an idle connection was closed.
DropIdle(x) ==
  /\ pool' = pool \ {x}
  /\ UNCHANGED <<cfg, proc, ticking, calls, up>>

\* The connections through a proxy end with it.
Cut(x, port) == IF x.port = port THEN [x EXCEPT !.open = FALSE] ELSE x

ProxyStops(port) ==
  /\ port \in up
  /\ Cardinality(DOMAIN Proxies \ up) < MaxDown
  /\ up' = up \ {port}
  /\ pool' = {Cut(x, port) : x \in pool}
  /\ calls' = [c \in Callers |->
       IF calls[c].pc \in InFlight
       THEN [calls[c] EXCEPT !.conn = Cut(@, port)]
       ELSE calls[c]]
  /\ UNCHANGED <<cfg, proc, ticking>>

ProxyStarts(port) ==
  /\ port \in DOMAIN Proxies \ up
  /\ up' = up \union {port}
  /\ UNCHANGED <<cfg, proc, ticking, calls, pool>>

\* What the enclave does by itself for a call that is under way.
Advance(c) == Reuse(c) \/ Connect(c) \/ ConnectErr(c) \/ Break(c)

\* A step of such a call; the others need its peer.
Proceed(c) == Advance(c) \/ Handshake(c) \/ Respond(c) \/ Close(c)

\* Steps that neither start nor end the process.
Internal ==
  \/ LoadConfig \/ SpawnTasks
  \/ \E c \in Callers : Proceed(c) \/ \E h \in Hosts : Call(c, h)
  \/ \E x \in pool : DropIdle(x)
  \/ \E port \in DOMAIN Proxies : ProxyStops(port) \/ ProxyStarts(port)

Next ==
  ProcessStarts \/ ProcessEnds \/ LoadConfigErr \/ StartupErr \/ Internal

Spec == Init /\ [][Next]_vars
-----------------------------------------------------------------------------

\* Only configurations, calls and connections of the declared kinds.
TypeOK ==
  /\ cfg \in Configs
  /\ proc \in {"off", "boot", "init", "serving"}
  /\ ticking \subseteq Tasks
  /\ calls \in [Callers -> CallType]
  /\ pool \subseteq Connections
  /\ up \subseteq DOMAIN Proxies

(***************************************************************************)
(* An answer comes from the service that the call's host names, whatever   *)
(* the base port is and whatever proxy the connection went through: a      *)
(* connection that arrives at the wrong service is never used, neither by  *)
(* its own call nor, from the pool, by a later one (clients.rs:134,        *)
(* vsock_connector.rs:38).                                                 *)
(***************************************************************************)
AnsweredByNamedService ==
  \A c \in Callers :
    calls[c].pc = "ok" => calls[c].conn.peer = Names[calls[c].host]

\* The base port puts each service's port where its proxy listens.
BasePortIsRight ==
  \A port \in DOMAIN Proxies :
    Proxies[port] = "imds" \/
      vsock_port(<<Proxies[port], "region">>, cfg.vsock_proxy_port) = port

(***************************************************************************)
(* With the right base port every connection for a service that has a      *)
(* proxy arrives at that service, bucket-prefixed S3 hosts included        *)
(* (vsock_connector.rs:44).                                                *)
(***************************************************************************)
RoutedToItsService ==
  \A c \in Callers :
    LET call == calls[c] IN
    /\ BasePortIsRight /\ call.pc \in {"tls", "sent"}
    /\ \E port \in DOMAIN Proxies : Proxies[port] = Names[call.host]
    => call.conn.peer = Names[call.host]

(***************************************************************************)
(* While the service serves, rotation and refresh run: a configuration     *)
(* whose interval would stop a task's timer is refused at the start        *)
(* (config.rs:121, dek/mod.rs:91, schema/mod.rs:118).                      *)
(***************************************************************************)
TasksTick == proc = "serving" => ticking = Tasks

=============================================================================
