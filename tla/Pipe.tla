-------------------------------- MODULE Pipe --------------------------------
(***************************************************************************)
(* What a relayed connection promises: two independent channels, one per   *)
(* direction, that hand over what was sent, in order, without gaps and     *)
(* without duplicates.  Either channel may stop at any point.              *)
(***************************************************************************)
EXTENDS Naturals, Sequences

CONSTANTS Dirs,     \* the two directions
          Unit      \* what one write carries

VARIABLES sent,     \* sent[d]: all that the source of d has sent
          rcvd      \* rcvd[d]: all that the sink of d has read

pvars == <<sent, rcvd>>

PipeInit ==
  /\ sent = [d \in Dirs |-> <<>>]
  /\ rcvd = [d \in Dirs |-> <<>>]

Put(d) ==
  /\ \E u \in Unit : sent' = [sent EXCEPT ![d] = Append(@, u)]
  /\ UNCHANGED rcvd

Take(d) ==
  /\ Len(rcvd[d]) < Len(sent[d])
  /\ rcvd' = [rcvd EXCEPT ![d] = Append(@, sent[d][Len(@) + 1])]
  /\ UNCHANGED sent

PipeNext == \E d \in Dirs : Put(d) \/ Take(d)

PipeSpec == PipeInit /\ [][PipeNext]_pvars
=============================================================================
