----------------------------- MODULE Traversal -----------------------------
(***************************************************************************)
(* encrypt_pii_fields and decrypt_pii_fields (server/handlers.rs): the     *)
(* loop over a schema's PII paths and the walk of each path through the    *)
(* payload.  pii_paths is a HashSet, so the loop takes its paths in any    *)
(* order.                                                                  *)
(*                                                                         *)
(* A string is what parse_path tells apart: its parts between dots, each   *)
(* with the number of "[]" it ends in.  The empty string is one empty part.*)
(*                                                                         *)
(* A JSON payload is a function from the addresses of its leaves to their  *)
(* values (FieldCipher).  An address is a sequence of hops from the root:  *)
(* a key of an object and the indexes that follow it, one for each array.  *)
(* The indexes into an array at the root follow NoKey.                     *)
(***************************************************************************)
EXTENDS FieldCipher

CONSTANTS Docs,       \* schema documents
          Texts,      \* what a part of a string may be, before its brackets
          Payloads,   \* payloads a client begins with
          Deks,       \* DEK versions a handler may have cloned
          MaxLayers   \* how often a client sends a payload back to encrypt

VARIABLES paths,    \* paths[d]: the pii_paths of document d's CachedSchema
          job,      \* the arguments of the call: op, payload, doc, paths, dek
          work,     \* the payload as it is being rewritten
          pending,  \* paths the loop has not taken yet
          answer    \* what the call returned

callVars == <<job, work, pending, answer>>

Values == [base : Bases, layers : Seq(Deks)]
IsPayload(p) == p \in [DOMAIN p -> Values]

Part(text, brackets) == [text |-> text, brackets |-> brackets]
Strings == Seq([text : Texts, brackets : Nat]) \ {<<>>}
NoKey == <<>>
Addresses == UNION {DOMAIN p : p \in Payloads}

ASSUME TraversalConstants ==
  /\ MaxLayers \in Nat
  /\ \A p \in Payloads : IsPayload(p)
  /\ Addresses \subseteq Seq([key : Strings \cup {NoKey}, items : Seq(Nat)])

Ops == {"encrypt", "decrypt"}
Idle == [status |-> "idle", payload |-> <<>>]
NoAnswer == [status |-> "none", payload |-> <<>>]
Ok(p) == [status |-> "ok", payload |-> p]
Err == [status |-> "err", payload |-> <<>>]

Call(op, p, d, ps, k) == [op |-> op, payload |-> p, doc |-> d, paths |-> ps, dek |-> k]

\* Mutant: the array suffix is taken for a part of the key.
SegmentsUnstripped(part) == [key |-> <<part>>, items |-> 0]

\* One part of path.split('.'): a Key, and an ArrayItem if strip_suffix takes one
\* "[]" off.
Segments(part) ==
  IF part.brackets > 0
  THEN [key |-> <<Part(part.text, part.brackets - 1)>>, items |-> 1]
  ELSE [key |-> <<part>>, items |-> 0]

parse_path(path) == [i \in DOMAIN path |-> Segments(path[i])]

\* The segments that lead to address a: one ArrayItem for every index.
Follow(a) == [i \in DOMAIN a |-> [key |-> a[i].key, items |-> Len(a[i].items)]]

\* encrypt_at_path and decrypt_at_path descend from the root by segment; a key
\* that is absent and a value of another kind than the segment end the walk.
Reaches(p, a) == Follow(a) = parse_path(p)

Leaves(w, p) == {a \in DOMAIN w : Reaches(p, a)}

NoCall ==
  /\ job = Call("none", <<>>, "none", {}, 0)
  /\ work = <<>> /\ pending = {}
  /\ answer = Idle

MayNest(p) == \A a \in DOMAIN p : Len(p[a].layers) < MaxLayers

\* What the client sends next: the same payload or the one it was answered.
Sendable ==
  IF answer = Idle THEN Payloads
  ELSE {job.payload} \cup {p \in {answer.payload} : answer.status = "ok"}

\* A handler calls one of the two with its clone of the CachedSchema.
Start(op, p, d, k) ==
  /\ answer # NoAnswer
  /\ op = "encrypt" => MayNest(p)
  /\ job' = Call(op, p, d, paths[d], k)
  /\ work' = p
  /\ pending' = paths[d]
  /\ answer' = NoAnswer

\* Mutant: the loop stops at the first path that leads nowhere.
EncryptPathGivesUp(p) ==
  /\ job.op = "encrypt" /\ answer = NoAnswer /\ p \in pending
  /\ work' = encrypt_pii_fields(work, Leaves(work, p), job.dek)
  /\ pending' = IF Leaves(work, p) = {} THEN {} ELSE pending \ {p}
  /\ UNCHANGED <<job, answer>>

\* One round of encrypt_pii_fields: encrypt_at_path on path p.
EncryptPath(p) ==
  /\ job.op = "encrypt" /\ answer = NoAnswer /\ p \in pending
  /\ work' = encrypt_pii_fields(work, Leaves(work, p), job.dek)
  /\ pending' = pending \ {p}
  /\ UNCHANGED <<job, answer>>

\* Mutant: a path that fails is skipped.
DecryptPathSkips(p) ==
  /\ job.op = "decrypt" /\ answer = NoAnswer /\ p \in pending
  /\ work' = IF DecryptFails(work, Leaves(work, p), job.dek, TRUE)
             THEN work ELSE decrypt_pii_fields(work, Leaves(work, p))
  /\ pending' = pending \ {p}
  /\ UNCHANGED <<job, answer>>

\* One round of decrypt_pii_fields: decrypt_at_path on path p.  Its `?` leaves
\* the loop, and the handler drops the half-decrypted payload.
DecryptPath(p) ==
  /\ job.op = "decrypt" /\ answer = NoAnswer /\ p \in pending
  /\ IF DecryptFails(work, Leaves(work, p), job.dek, TRUE)
     THEN answer' = Err /\ UNCHANGED <<work, pending>>
     ELSE /\ work' = decrypt_pii_fields(work, Leaves(work, p))
          /\ pending' = pending \ {p}
          /\ UNCHANGED answer
  /\ UNCHANGED job

\* The loop is done and the handler answers with the payload.
Return ==
  /\ answer = NoAnswer /\ pending = {}
  /\ answer' = Ok(work)
  /\ UNCHANGED <<job, work, pending>>

Round == \E p \in pending : EncryptPath(p) \/ DecryptPath(p)
----------------------------------------------------------------------------
\* A call's arguments, and what its loop makes of them: it follows the paths of
\* the call only and keeps the payload's shape.
Called ==
  /\ job = Call(job.op, job.payload, job.doc, job.paths, job.dek)
  /\ job.op \in Ops /\ job.doc \in Docs /\ job.dek \in Deks
  /\ job.paths \subseteq Strings /\ pending \subseteq job.paths
  /\ DOMAIN job.payload \subseteq Addresses
  /\ IsPayload(job.payload) /\ work \in [DOMAIN job.payload -> Values]
  /\ answer \in {NoAnswer, Err, Ok(work)}

\* The PII fields of the call: the leaves some path leads to.
PiiLeaves == {a \in DOMAIN job.payload : \E p \in job.paths : Reaches(p, a)}

\* Those whose path the loop has taken.
Treated ==
  {a \in DOMAIN job.payload : \E p \in job.paths \ pending : Reaches(p, a)}

\* The loop invariant of encrypt_pii_fields and decrypt_pii_fields: whatever the
\* order of the paths, what was reached so far was rewritten exactly once and
\* without failure, and everything else is as it was sent.
LoopInv ==
  /\ job.op = "encrypt" => work = encrypt_pii_fields(job.payload, Treated, job.dek)
  /\ job.op = "decrypt" =>
       /\ ~DecryptFails(job.payload, Treated, job.dek, TRUE)
       /\ work = decrypt_pii_fields(job.payload, Treated)
       /\ answer = Err => DecryptFails(job.payload, PiiLeaves, job.dek, TRUE)
  /\ answer.status = "ok" => pending = {}

F == INSTANCE FieldStep WITH
       call <- [op |-> job.op, payload |-> job.payload, fields |-> PiiLeaves, dek |-> job.dek],
       result <- answer

\* The loop implements the single step that Service takes: in whatever order the
\* HashSet yields the paths, the answer is that of encrypting or decrypting all
\* PII leaves at once, or failing as a whole (encrypt_pii_fields, decrypt_pii_fields).
ImplementsFieldStep == F!Spec
=============================================================================
