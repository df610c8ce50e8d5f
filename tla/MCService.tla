----------------------------- MODULE MCService -----------------------------
(***************************************************************************)
(* Instances of Service for TLC: one schema object, two PII fields of      *)
(* which the documents mark one or both, payloads with each kind of value. *)
(***************************************************************************)
EXTENDS Service, TLC

CONSTANTS one, both, bad, rec

MCKeys == {<<"user", "json">>}
MCRank == [k \in MCKeys |-> 1]
MCPii == [d \in Parsable \ Recursive |-> IF d = one THEN {"a"} ELSE {"a", "b"}]
MCHeaders == {<<"user">>}
MCAllHeaders == MCHeaders \cup {NoHeader}
MCPayloads == {[a |-> Plain("text"), b |-> Plain("v1text")]}
MCSymmetry == Permutations(Requests)
=============================================================================
