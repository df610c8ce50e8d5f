-------------------------------- MODULE Relay --------------------------------
(***************************************************************************)
(* One connection through handle_connection of the vsock-proxy             *)
(* (vsock-proxy/src/proxy.rs).  The IMDS, OTLP and log bridges of the      *)
(* enclave's main.rs relay each connection with the same calls.            *)
(*                                                                         *)
(* Direction "up" runs from the TCP client to the vsock server, "down"     *)
(* back.  Each direction has a source, the relay's receive queue, the      *)
(* buffer of io::copy, the sink's receive queue, and the sink.             *)
(***************************************************************************)
EXTENDS Naturals, Sequences

CONSTANTS Unit,       \* what one write carries
          MaxSent,    \* MaxSent[d]: bound on what is sent in direction d
          BufCap,     \* capacity of the buffer of io::copy
          Window      \* capacity of the sink's receive queue

Dirs == {"up", "down"}

ASSUME RelayBounds ==
  /\ MaxSent \in [Dirs -> Nat]
  /\ BufCap \in Nat \ {0} /\ Window \in Nat \ {0}

Opp(d) == IF d = "up" THEN "down" ELSE "up"

VARIABLES
  pc,      \* "idle", "connecting", "copying" or "closed"
  sent,    \* history: what the source of d has sent
  src,     \* the source of d: "open", "fin" (ended its side) or "reset"
  queue,   \* received by the relay's socket, not yet read
  buf,     \* read by io::copy, not yet written
  window,  \* written to the sink's socket, not yet read by the sink
  rcvd,    \* history: what the sink of d has read
  sink,    \* the sink of d: "open" or "closed"
  why,     \* history: what ended the relay; a direction when its copy did
  rst      \* history: directions whose source's socket the relay has reset

vars == <<pc, sent, src, queue, buf, window, rcvd, sink, why, rst>>

Empty == [d \in Dirs |-> <<>>]

Init ==
  /\ pc = "idle"
  /\ sent = Empty /\ queue = Empty /\ buf = Empty /\ window = Empty /\ rcvd = Empty
  /\ src = [d \in Dirs |-> "open"]
  /\ sink = [d \in Dirs |-> "open"]
  /\ why = "none"
  /\ rst = {}

(***************************************************************************)
(* The relay.                                                              *)
(***************************************************************************)

\* Both streams are dropped, with what the two copies hold and what was not
\* read.  A socket dropped with unread data is reset, and the peer of a reset
\* socket may lose what it had not read yet.
Drop(reason) ==
  LET unread == {d \in Dirs : queue[d] # <<>>}
  IN  /\ pc' = "closed"
      /\ why' = reason
      /\ rst' = unread
      /\ queue' = Empty
      /\ buf' = Empty
      /\ \E lost \in SUBSET {Opp(d) : d \in unread} :
            window' = [d \in Dirs |-> IF d \in lost THEN <<>> ELSE window[d]]
      /\ UNCHANGED <<sent, src, rcvd, sink>>

\* The accept loop spawns a task for the connection.
Accept ==
  /\ pc = "idle"
  /\ pc' = "connecting"
  /\ UNCHANGED <<sent, src, queue, buf, window, rcvd, sink, why, rst>>

\* VsockStream::connect, then both copies start.
Connect ==
  /\ pc = "connecting"
  /\ pc' = "copying"
  /\ UNCHANGED <<sent, src, queue, buf, window, rcvd, sink, why, rst>>

\* The connect fails: the task returns and the TCP stream is dropped.
ConnectErr ==
  /\ pc = "connecting"
  /\ Drop("connect")

\* Mutant of Read: a read puts its data before what the buffer still holds.
ReadOverwrites(d) ==
  /\ pc = "copying"
  /\ queue[d] # <<>>
  /\ Len(buf[d]) < BufCap
  /\ buf' = [buf EXCEPT ![d] = <<Head(queue[d])>> \o @]
  /\ queue' = [queue EXCEPT ![d] = Tail(@)]
  /\ UNCHANGED <<pc, sent, src, window, rcvd, sink, why, rst>>

\* io::copy reads while its buffer has room.
Read(d) ==
  /\ pc = "copying"
  /\ queue[d] # <<>>
  /\ Len(buf[d]) < BufCap
  /\ buf' = [buf EXCEPT ![d] = Append(@, Head(queue[d]))]
  /\ queue' = [queue EXCEPT ![d] = Tail(@)]
  /\ UNCHANGED <<pc, sent, src, window, rcvd, sink, why, rst>>

\* Mutant of Write: a short write is taken for a full one.
WriteShort(d) ==
  /\ pc = "copying"
  /\ buf[d] # <<>>
  /\ Len(window[d]) < Window
  /\ window' = [window EXCEPT ![d] = IF sink[d] = "open" THEN Append(@, Head(buf[d])) ELSE @]
  /\ buf' = [buf EXCEPT ![d] = <<>>]
  /\ UNCHANGED <<pc, sent, src, queue, rcvd, sink, why, rst>>

\* io::copy writes what it holds as far as the sink's socket takes it.  A write
\* may succeed before the relay's kernel knows that the sink has closed.
Write(d) ==
  /\ pc = "copying"
  /\ buf[d] # <<>>
  /\ \/ /\ sink[d] = "open"
        /\ Len(window[d]) < Window
        /\ window' = [window EXCEPT ![d] = Append(@, Head(buf[d]))]
     \/ /\ sink[d] = "closed"
        /\ UNCHANGED window
  /\ buf' = [buf EXCEPT ![d] = Tail(@)]
  /\ UNCHANGED <<pc, sent, src, queue, rcvd, sink, why, rst>>

\* Mutant of AtEnd: the copy returns at the end of its source and leaves what
\* it holds unwritten.
AtEndUnflushed(d) == src[d] = "fin" /\ queue[d] = <<>>

\* The copy of d has read the end of its source.
AtEnd(d) == src[d] = "fin" /\ queue[d] = <<>> /\ buf[d] = <<>>

\* Mutant of CopyEnds: join! instead of select!, which waits for both copies.
CopyEndsJoined(d) ==
  /\ pc = "copying"
  /\ \A e \in Dirs : AtEnd(e)
  /\ Drop(d)

\* The copy of d returns at the end of its source, once all is written.
\* select! then drops the other copy wherever it is.
CopyEnds(d) ==
  /\ pc = "copying"
  /\ AtEnd(d)
  /\ Drop(d)

\* A read from a reset socket or a write to a closed one fails; the error ends
\* that copy and select! drops the other.
CopyFails(d) ==
  /\ pc = "copying"
  /\ \/ src[d] = "reset" /\ Len(buf[d]) < BufCap
     \/ sink[d] = "closed" /\ buf[d] # <<>>
  /\ Drop("error")

RelayStep(d) == Read(d) \/ Write(d) \/ CopyEnds(d) \/ CopyFails(d)

(***************************************************************************)
(* The two ends and the network.                                           *)
(***************************************************************************)

\* The server is there once the vsock stream is.
Present(d) == d = "up" \/ pc = "copying" \/ (pc = "closed" /\ why # "connect")

\* A source sends.  A closed relay answers with a reset.
Send(d) ==
  /\ Present(d)
  /\ src[d] = "open"
  /\ Len(sent[d]) < MaxSent[d]
  /\ \E u \in Unit :
       /\ sent' = [sent EXCEPT ![d] = Append(@, u)]
       /\ queue' = IF pc = "closed" THEN queue
                   ELSE [queue EXCEPT ![d] = Append(@, u)]
  /\ IF pc = "closed"
       THEN /\ rst' = rst \cup {d}
            /\ \E w \in {window[Opp(d)], <<>>} : window' = [window EXCEPT ![Opp(d)] = w]
       ELSE UNCHANGED <<rst, window>>
  /\ UNCHANGED <<pc, src, buf, rcvd, sink, why>>

\* A source shuts down its sending side and goes on reading.
HalfClose(d) ==
  /\ Present(d)
  /\ src[d] = "open"
  /\ src' = [src EXCEPT ![d] = "fin"]
  /\ UNCHANGED <<pc, sent, queue, buf, window, rcvd, sink, why, rst>>

\* The end that is the source of d closes its socket, or resets it; what it
\* had not read is gone, and after a reset so is what the relay had not read.
Leave(d) ==
  /\ Present(d)
  /\ sink[Opp(d)] = "open"
  /\ sink' = [sink EXCEPT ![Opp(d)] = "closed"]
  /\ window' = [window EXCEPT ![Opp(d)] = <<>>]
  /\ \/ /\ src' = [src EXCEPT ![d] = IF @ = "open" THEN "fin" ELSE @]
        /\ UNCHANGED queue
     \/ /\ src' = [src EXCEPT ![d] = "reset"]
        /\ queue' = [queue EXCEPT ![d] = <<>>]
  /\ UNCHANGED <<pc, sent, buf, rcvd, why, rst>>

\* A sink reads.
Receive(d) ==
  /\ sink[d] = "open"
  /\ window[d] # <<>>
  /\ rcvd' = [rcvd EXCEPT ![d] = Append(@, Head(window[d]))]
  /\ window' = [window EXCEPT ![d] = Tail(@)]
  /\ UNCHANGED <<pc, sent, src, queue, buf, sink, why, rst>>

\* The connection is over for both ends.
Over ==
  /\ pc = "closed"
  /\ UNCHANGED vars

Ends(d) == Send(d) \/ HalfClose(d) \/ Leave(d) \/ Receive(d)

Next ==
  \/ Accept \/ Connect \/ ConnectErr \/ Over
  \/ \E d \in Dirs : RelayStep(d) \/ Ends(d)

Spec == Init /\ [][Next]_vars

\* tokio polls a ready task and select! both copies; a connect returns; both
\* ends read what arrives for them.
FairSpec ==
  /\ Spec
  /\ WF_vars(Accept)
  /\ WF_vars(Connect \/ ConnectErr)
  /\ \A d \in Dirs : WF_vars(RelayStep(d)) /\ WF_vars(Receive(d))

(***************************************************************************)
(* Properties.                                                             *)
(***************************************************************************)

\* The types of the state of handle_connection and of the sockets around it.
TypeOK ==
  /\ pc \in {"idle", "connecting", "copying", "closed"}
  /\ sent \in [Dirs -> Seq(Unit)]
  /\ src \in [Dirs -> {"open", "fin", "reset"}]
  /\ queue \in [Dirs -> Seq(Unit)]
  /\ buf \in [Dirs -> Seq(Unit)]
  /\ window \in [Dirs -> Seq(Unit)]
  /\ rcvd \in [Dirs -> Seq(Unit)]
  /\ sink \in [Dirs -> {"open", "closed"}]
  /\ why \in Dirs \cup {"none", "connect", "error"}
  /\ rst \subseteq Dirs

\* While the two copies run, a direction whose ends are both there has lost,
\* repeated and reordered nothing: what was sent is what was read, followed by
\* what is under way in the queue, the buffer of io::copy and the window.
NothingLostWhileCopying ==
  pc # "closed" =>
    \A d \in Dirs : src[d] # "reset" /\ sink[d] = "open"
                    => rcvd[d] \o window[d] \o buf[d] \o queue[d] = sent[d]

\* select! drops the other copy, never the one that ended: when the copy of d
\* ended the relay, all that was sent in d was written, and it reaches its sink
\* unless the sink left or had its socket reset for what the relay left unread.
EndedDirectionIsDelivered ==
  \A d \in Dirs : why = d /\ sink[d] = "open" /\ Opp(d) \notin rst
                  => rcvd[d] \o window[d] = sent[d]

P == INSTANCE Pipe

\* Whatever the ends, the network and select! do, each sink reads what its
\* source sent, in order and without gaps, until the relay stops: one direction
\* never shows a hole, even when its copy was dropped in the middle.
ImplementsPipe == P!PipeSpec

\* "When either half closes, both tasks shut down" (proxy.rs:6): once one end
\* has ended its side, both streams are eventually dropped, so that a finished
\* connection holds no task and no socket.
EndClosesBoth == \A d \in Dirs : (src[d] # "open") ~> (pc = "closed")
=============================================================================
