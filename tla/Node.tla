-------------------------------- MODULE Node --------------------------------
(***************************************************************************)
(* An enclave node: the runner (Runner) and the service's process with its *)
(* calls through the parent's proxies (Outbound).  The process starts with *)
(* the enclave and each ends with the other: the process is the enclave's  *)
(* PID 1 (scripts/enclave-entrypoint.sh).                                  *)
(***************************************************************************)
EXTENDS Naturals, Sequences

CONSTANTS Hosts, Names, HostsOf, Configs, ParentCid, Proxies, ImdsPort, PortLimit, MaxDown

VARIABLES script, enclave, term, faulty,             \* of Runner
          cfg, proc, ticking, calls, pool, up        \* of Outbound

R == INSTANCE Runner
O == INSTANCE Outbound

ASSUME NodeConstants == O!OutboundConstants

runnerVars == <<script, enclave, term, faulty>>
outboundVars == <<cfg, proc, ticking, calls, pool, up>>
vars == <<runnerVars, outboundVars>>

Init == R!Init /\ O!Init

\* What a step of the runner or of the node does to the process.
Follows ==
  CASE enclave # "running" /\ enclave' = "running" -> O!ProcessStarts
    [] enclave = "running" /\ enclave' # "running" -> O!ProcessEnds
    [] OTHER -> UNCHANGED outboundVars

InRunner(A) == A /\ Follows
InProcess(A) == A /\ UNCHANGED runnerVars

\* The process ends by itself: main returns an error, or it crashes.
Ends(A) == A /\ R!EnclaveStops

Next ==
  \/ InRunner(R!StartContainer) \/ InRunner(R!RunEnclave)
  \/ InRunner(R!RunEnclaveErr) \/ InRunner(R!Script)
  \/ InRunner(R!Term) \/ InRunner(R!Kill) \/ InRunner(R!EnclaveGone)
  \/ Ends(O!ProcessEnds) \/ Ends(O!LoadConfigErr) \/ Ends(O!StartupErr)
  \/ InProcess(O!Internal)

(***************************************************************************)
(* Kubernetes starts what has ended; the script and the process go on.     *)
(* Strong fairness where something else may come first each time: a launch *)
(* does not fail for ever, and signals leave the script time to poll.      *)
(* Nothing is assumed of the peers of a call.                              *)
(***************************************************************************)
Fairness ==
  /\ WF_vars(InRunner(R!StartContainer))
  /\ SF_vars(InRunner(R!RunEnclave))
  /\ WF_vars(InRunner(R!Script)) /\ SF_vars(InRunner(R!Poll))
  /\ WF_vars(InRunner(R!EnclaveGone))
  /\ \A c \in O!Callers : WF_vars(InProcess(O!Advance(c)))

Spec == Init /\ [][Next]_vars /\ Fairness
-----------------------------------------------------------------------------

\* The types of both parts; a process runs exactly in a running enclave.
TypeOK == R!TypeOK /\ O!TypeOK /\ (proc # "off" <=> enclave = "running")

\* Runner!OrphanOnlyByFault, for the composed node.
OrphanOnlyByFault == R!OrphanOnlyByFault

\* Outbound!AnsweredByNamedService, for the composed node.
AnsweredByNamedService == O!AnsweredByNamedService

\* Outbound!RoutedToItsService, for the composed node.
RoutedToItsService == O!RoutedToItsService

\* Outbound!TasksTick, for the composed node.
TasksTick == O!TasksTick

(***************************************************************************)
(* An enclave that stopped, is gone or was never launched is followed by a *)
(* running one, whatever signals, kills and errors the script meets        *)
(* (run-enclave.sh:101-121), with a refused configuration too.             *)
(***************************************************************************)
EnclaveComesBack == enclave # "running" ~> enclave = "running"

(***************************************************************************)
(* A TERM or INT ends the runner's container, though the handler returns   *)
(* into the monitor loop and more signals may follow, unless               *)
(* terminate-enclave fails (run-enclave.sh:78-83, 101-121).                *)
(***************************************************************************)
TermEndsContainer == term ~> (script = "down" \/ faulty)

(***************************************************************************)
(* Only a silent peer holds a call: it returns, or its process ends, or it *)
(* stays for ever on one connection that is open.  Refused connects,       *)
(* stopped proxies, closed connections and retries on pooled ones neither  *)
(* keep a call waiting nor send it round in circles (clients.rs:65-74);    *)
(* nothing in the code ends the wait for an open one (clients.rs:97).      *)
(***************************************************************************)
OnlyPeersHoldCalls ==
  \A c \in O!Callers :
    calls[c].pc \in O!InFlight ~>
      \/ calls[c].pc \notin O!InFlight
      \/ [](calls[c].pc \in {"tls", "sent"} /\ calls[c].conn.open)

=============================================================================
