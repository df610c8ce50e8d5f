------------------------------- MODULE Runner -------------------------------
(***************************************************************************)
(* The enclave runner (scripts/run-enclave.sh), entrypoint of the runner's *)
(* container: it launches the enclave, sets its trap, and polls until the  *)
(* enclave is gone.  Kubernetes starts the container again whenever it has *)
(* ended (deploy/daemonset-enclave.yaml), and may signal or kill it.       *)
(*                                                                         *)
(* The node holds one enclave at a time: CID and reserved memory are the   *)
(* same for every launch.  Whether an enclave survives a container that    *)
(* ends without terminating it is left open.                               *)
(***************************************************************************)

VARIABLES script,    \* where the script stands
          enclave,   \* what nitro-cli describe-enclaves shows
          term,      \* a TERM or INT waits for the foreground command to end
          faulty     \* history: a fault since the last launch, as listed below

vars == <<script, enclave, term, faulty>>

\* "down": no container; "launch", "extract", "trap": sections 2 and 3;
\* "monitor": the loop; "exit": exit was called and the EXIT trap is set.
Scripts == {"down", "launch", "extract", "trap", "monitor", "exit"}

\* "none"; "running"; "stopped": listed, in another state than RUNNING.
Enclaves == {"none", "running", "stopped"}

\* Faults: the container is killed or the script exits before it has set its
\* trap (EndsWithout), or terminate-enclave fails (Terminate).

Init == script = "down" /\ enclave = "none" /\ term = FALSE /\ faulty = FALSE

\* The container ends in a way that does not terminate the enclave; with the
\* container's processes the enclave may end too.
EndsWithout ==
  /\ script' = "down" /\ term' = FALSE /\ faulty' = TRUE
  /\ enclave' \in {enclave, "none"}

StartContainer ==
  /\ script = "down"
  /\ script' = "launch"
  /\ UNCHANGED <<enclave, term, faulty>>

\* nitro-cli run-enclave; it needs the CID and the memory.
RunEnclave ==
  /\ script = "launch" /\ enclave = "none"
  /\ script' = "extract" /\ enclave' = "running" /\ faulty' = FALSE
  /\ UNCHANGED term

RunEnclaveErr ==
  /\ script = "launch"
  /\ script' = "down"
  /\ UNCHANGED <<enclave, term, faulty>>

ExtractId ==
  /\ script = "extract"
  /\ script' = "trap"
  /\ UNCHANGED <<enclave, term, faulty>>

\* awk and jq find no EnclaveID: exit 1, and the trap is not set yet.
ExtractIdErr ==
  /\ script = "extract"
  /\ EndsWithout

\* trap cleanup EXIT TERM INT; the console starts in the background.
SetTrap ==
  /\ script = "trap"
  /\ script' = "monitor"
  /\ UNCHANGED <<enclave, term, faulty>>

\* terminate-enclave, whose failure is ignored.
Terminate ==
  \/ enclave' = "none" /\ UNCHANGED faulty
  \/ UNCHANGED enclave /\ faulty' = TRUE

\* Mutant: the loop polls on when the enclave is not listed.
PollListedOnly ==
  /\ script = "monitor" /\ ~term
  /\ script' = IF enclave = "stopped" THEN "exit" ELSE "monitor"
  /\ UNCHANGED <<enclave, term, faulty>>

\* One round: sleep, describe-enclaves, exit 1 unless the enclave is RUNNING.
Poll ==
  /\ script = "monitor" /\ ~term
  /\ script' = IF enclave = "running" THEN "monitor" ELSE "exit"
  /\ UNCHANGED <<enclave, term, faulty>>

\* describe-enclaves or jq fails: set -e exits.
PollErr ==
  /\ script = "monitor" /\ ~term
  /\ script' = "exit"
  /\ UNCHANGED <<enclave, term, faulty>>

\* Mutant: the handler of TERM and INT leaves the enclave to the EXIT trap.
TrapTermWaits ==
  /\ script = "monitor" /\ term
  /\ term' = FALSE
  /\ UNCHANGED <<script, enclave, faulty>>

\* The trap runs when the foreground command has ended; cleanup does not exit,
\* so the loop goes on.
TrapTerm ==
  /\ script = "monitor" /\ term
  /\ Terminate
  /\ term' = FALSE
  /\ UNCHANGED script

\* Mutant: the trap is set for TERM and INT only.
ExitUntrapped ==
  /\ script = "exit"
  /\ script' = "down" /\ term' = FALSE
  /\ UNCHANGED <<enclave, faulty>>

\* The EXIT trap: cleanup, and the container ends.
Exit ==
  /\ script = "exit"
  /\ Terminate
  /\ script' = "down" /\ term' = FALSE

\* As PID 1 the script is not ended by TERM before it has set its trap.
Term ==
  /\ script \in {"monitor", "exit"}
  /\ term' = TRUE
  /\ UNCHANGED <<script, enclave, faulty>>

\* KILL at the end of the grace period, or by the kernel.
Kill ==
  /\ script # "down"
  /\ EndsWithout

\* The service's process ends, and the enclave with it.
EnclaveStops ==
  /\ enclave = "running"
  /\ enclave' = "stopped"
  /\ UNCHANGED <<script, term, faulty>>

\* The hypervisor has released it.
EnclaveGone ==
  /\ enclave = "stopped"
  /\ enclave' = "none"
  /\ UNCHANGED <<script, term, faulty>>

Script ==
  \/ ExtractId \/ ExtractIdErr \/ SetTrap
  \/ Poll \/ PollErr \/ TrapTerm \/ Exit

Next ==
  \/ StartContainer \/ RunEnclave \/ RunEnclaveErr \/ Script
  \/ Term \/ Kill \/ EnclaveStops \/ EnclaveGone

Spec == Init /\ [][Next]_vars

\* Only states the script and the node can be in.
TypeOK ==
  /\ script \in Scripts /\ enclave \in Enclaves
  /\ term \in BOOLEAN /\ faulty \in BOOLEAN

(***************************************************************************)
(* An enclave that no runner watches is left behind by a fault: a killed   *)
(* container, an exit before the trap, or a terminate-enclave that failed  *)
(* and was ignored (run-enclave.sh:81).  In particular every exit of the   *)
(* monitor loop, set -e included, goes through cleanup.                    *)
(***************************************************************************)
OrphanOnlyByFault ==
  script \in {"down", "launch"} /\ enclave # "none" => faulty

=============================================================================
