---------------------------- MODULE DekRegister ----------------------------
(***************************************************************************)
(* What the DEK layer (crates/enclave/src/dek) promises to the handlers:   *)
(* a register that only ever holds a usable published key version, that    *)
(* never goes back to an older version, not even across a restart of the   *)
(* process, and that is emptied only by the end of the process.            *)
(***************************************************************************)
EXTENDS Naturals

CONSTANTS Versions,     \* the key versions that may be published
          Empty         \* the register's content when no DEK is stored

VARIABLES usable,       \* published versions that are well-formed 256-bit keys
          key,          \* the version held, or Empty
          high          \* the last version held, across restarts (0: none yet)

vars == <<usable, key, high>>

Init ==
  /\ usable \subseteq Versions
  /\ key = Empty
  /\ high = 0

\* A new version is published; it is newer than every usable one.
Publish ==
  /\ \E v \in Versions : (\A u \in usable : u < v) /\ usable' = usable \cup {v}
  /\ UNCHANGED <<key, high>>

Adopt ==
  /\ \E v \in usable : v >= high /\ key' = v /\ high' = v
  /\ UNCHANGED usable

Lose ==
  /\ key' = Empty
  /\ UNCHANGED <<usable, high>>

Next == Publish \/ Adopt \/ Lose

Spec == Init /\ [][Next]_vars
=============================================================================
