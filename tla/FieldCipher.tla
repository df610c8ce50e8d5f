---------------------------- MODULE FieldCipher ----------------------------
(***************************************************************************)
(* The field cipher (crypto/cipher.rs) and its use on the PII fields of a  *)
(* payload (the leaves of encrypt_at_path and decrypt_at_path in           *)
(* server/handlers.rs), over an ideal deterministic AEAD.                  *)
(*                                                                         *)
(* A field's value is what it was before this service touched it, base,    *)
(* and the DEK versions it has been encrypted under since, innermost       *)
(* first.  Encryption is deterministic (the nonce is derived from DEK and  *)
(* plaintext), so this identifies the string.  A payload maps the fields a *)
(* schema may mark as PII to their values.                                 *)
(***************************************************************************)
EXTENDS Naturals, Sequences

\* "text": a string that does not start with "v1."; "v1text": one that does
\* and is not a token of this service; "other": absent or not a string.
Bases == {"text", "v1text", "other"}

Plain(b) == [base |-> b, layers |-> <<>>]

IsString(v) == v.base # "other"

\* s.starts_with("v1."): a token has the prefix, and so may a plain string.
StartsWithV1(v) == v.layers # <<>> \/ v.base = "v1text"

\* The string is a token: EncryptedField::from_str accepts what to_string_repr
\* wrote, and a plain "v1text" is malformed or fails authentication.
IsToken(v) == v.layers # <<>>

\* encrypt_field and to_string_repr: one more layer, under version k.
encrypt_field(v, k) == [v EXCEPT !.layers = Append(@, k)]

\* Mutant: an unauthenticated mode decrypts under any key.
AuthenticatesAny(v, k) == IsToken(v)

\* The AEAD opens a token under the key that made it only.
Authenticates(v, k) == IsToken(v) /\ v.layers[Len(v.layers)] = k

\* decrypt_field: the outermost layer is removed.
decrypt_field(v) == [v EXCEPT !.layers = SubSeq(@, 1, Len(@) - 1)]

\* Mutant: a string that looks encrypted is not encrypted again.
EncryptsUnlessV1(v) == IsString(v) /\ ~StartsWithV1(v)

\* The leaf of encrypt_at_path: every string is encrypted.
Encrypts(v) == IsString(v)

\* The leaf of decrypt_at_path: a string that starts with "v1." is decrypted.
Decrypts(v) == IsString(v) /\ StartsWithV1(v)

\* build_cipher succeeds (built) or every field it is needed for fails.
EncryptFails(p, F, built) == ~built /\ \E f \in F : Encrypts(p[f])

\* encrypt_pii_fields over the PII fields F.
encrypt_pii_fields(p, F, k) ==
  [f \in DOMAIN p |-> IF f \in F /\ Encrypts(p[f]) THEN encrypt_field(p[f], k) ELSE p[f]]

\* decrypt_pii_fields returns Err as soon as one field cannot be decrypted.
DecryptFails(p, F, k, built) ==
  \E f \in F : Decrypts(p[f]) /\ ~(built /\ Authenticates(p[f], k))

\* decrypt_pii_fields otherwise.
decrypt_pii_fields(p, F) ==
  [f \in DOMAIN p |-> IF f \in F /\ Decrypts(p[f]) THEN decrypt_field(p[f]) ELSE p[f]]
=============================================================================
