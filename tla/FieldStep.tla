----------------------------- MODULE FieldStep -----------------------------
(***************************************************************************)
(* What the handlers are promised by encrypt_pii_fields and                *)
(* decrypt_pii_fields (server/handlers.rs): in one step, every PII field   *)
(* is encrypted or decrypted once, or the call fails as a whole.  This is  *)
(* the step that Service takes; Traversal implements it path by path.      *)
(***************************************************************************)
EXTENDS FieldCipher

VARIABLES call,     \* the operation, its payload, the PII fields and the DEK
          result    \* what it returned

Idle == [status |-> "idle", payload |-> <<>>]
NoResult == [status |-> "none", payload |-> <<>>]
Ok(p) == [status |-> "ok", payload |-> p]
Err == [status |-> "err", payload |-> <<>>]

Init == result = Idle

\* A handler calls one of the two with its own clones.
Call ==
  /\ result # NoResult
  /\ result' = NoResult

\* build_cipher succeeds: DekStore holds 32-byte keys only.
Return ==
  /\ result = NoResult
  /\ result' =
       CASE call.op = "encrypt" -> Ok(encrypt_pii_fields(call.payload, call.fields, call.dek))
         [] call.op = "decrypt" ->
              IF DecryptFails(call.payload, call.fields, call.dek, TRUE)
              THEN Err
              ELSE Ok(decrypt_pii_fields(call.payload, call.fields))
  /\ UNCHANGED call

Next == Call \/ Return

Spec == Init /\ [][Next]_<<call, result>>
=============================================================================
