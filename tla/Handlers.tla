------------------------------ MODULE Handlers ------------------------------
(***************************************************************************)
(* The request handlers (server/handlers.rs) behind the router's timeout   *)
(* (server/router.rs).  They read the DEK store and the schema cache and   *)
(* write neither: Service composes their steps with the layers that do.    *)
(*                                                                         *)
(* A handler is split at its awaits and at its reads of shared state:      *)
(* between any two of its steps the rotation and the refresh task, other   *)
(* requests, the 30 s timeout, the client's disconnect and the end of the  *)
(* process may come.  A schema's PII paths are abstracted to a set of      *)
(* fields, a payload to the values of those fields (FieldCipher).          *)
(***************************************************************************)
EXTENDS FieldCipher, FiniteSets

CONSTANTS MaxVersions,  \* bound on the versions of the secret
          Docs,         \* contents of schema objects
          Parsable, Recursive,   \* those that parse, those with a $ref cycle
          Absent,       \* no object, no cache entry
          Fields,       \* fields a payload may have
          Pii,          \* Pii[d]: the PII fields of document d
          Requests,     \* requests, each sent once
          Headers,      \* X-Schema-Name values, NoHeader among them or not
          NoHeader,     \* the header is missing or not ASCII
          Payloads      \* payloads of the clients' first requests

VARIABLES secret,       \* of Dek: what each version of the secret holds
          store,        \* of Dek: the version in the DekStore, or NoDek
          high,         \* of Dek, history: the newest version ever stored
          cache,        \* of Schemas: the SchemaCache
          pc,           \* pc[r]: where request r stands
          input,        \* input[r]: what the client sent
          schema,       \* schema[r]: the CachedSchema its handler cloned
          dek,          \* dek[r]: the DekBytes its handler cloned (health: is_ready)
          answer,       \* answer[r]: status and payload
          counted,      \* requests counted in encrypt_requests, decrypt_requests
          before        \* history: before[r]: requests done when r arrived

Values == [base : Bases, layers : Seq(1..MaxVersions)]

ASSUME HandlerConstants ==
  /\ MaxVersions \in Nat \ {0}
  /\ Pii \in [Parsable \ Recursive -> SUBSET Fields]
  /\ Payloads \subseteq [Fields -> Values]

requestVars == <<pc, input, schema, dek, answer, counted, before>>

Ops == {"encrypt", "decrypt", "health"}
NoDek == 0
NoPayload == <<>>
NoInput == [op |-> "health", header |-> NoHeader, payload |-> NoPayload]
NoAnswer == [status |-> 0, payload |-> NoPayload]

\* "body": the JSON body is awaited; "dek": dek_store.current() is awaited;
\* "crypt": key and schema are cloned; "len": health has seen is_ready.
InFlight == {"body", "dek", "crypt", "len"}
Pcs == InFlight \cup {"idle", "done", "lost"}

\* Before the listener is bound no request has been sent.
NoRequests ==
  /\ pc = [r \in Requests |-> "idle"]
  /\ input = [r \in Requests |-> NoInput]
  /\ schema = [r \in Requests |-> Absent]
  /\ dek = [r \in Requests |-> NoDek]
  /\ answer = [r \in Requests |-> NoAnswer]
  /\ counted = {}
  /\ before = [r \in Requests |-> {}]

\* The connections of an ended process are gone, with their handlers.
RequestsLost ==
  /\ pc' = [r \in Requests |-> IF pc[r] \in InFlight THEN "lost" ELSE pc[r]]
  /\ UNCHANGED <<input, schema, dek, answer, counted, before>>

\* A client sends a payload of its own or one it got in an earlier answer.
Sendable ==
  Payloads \cup {answer[q].payload : q \in {q \in Requests : answer[q].payload # NoPayload}}

Inputs ==
  [op : {"encrypt", "decrypt"}, header : Headers, payload : Sendable]
    \cup {NoInput}

Arrive(r, i) ==
  /\ pc[r] = "idle"
  /\ pc' = [pc EXCEPT ![r] = "body"]
  /\ input' = [input EXCEPT ![r] = i]
  /\ before' = [before EXCEPT ![r] = {q \in Requests : pc[q] = "done"}]
  /\ UNCHANGED <<schema, dek, answer, counted>>

Done(r, status, payload) ==
  /\ pc' = [pc EXCEPT ![r] = "done"]
  /\ answer' = [answer EXCEPT ![r] = [status |-> status, payload |-> payload]]
  /\ UNCHANGED <<input, before>>

\* Every return of encrypt and decrypt counts the request once.
Answer(r, status, payload) ==
  Done(r, status, payload) /\ counted' = counted \cup {r}

\* axum refuses the body: the handler is not called.
RejectBody(r) ==
  /\ pc[r] = "body" /\ input[r].op # "health"
  /\ Done(r, 422, NoPayload)
  /\ UNCHANGED <<schema, dek, counted>>

\* encrypt and decrypt up to their await: header, then SchemaCache::get.
Lookup(r) ==
  /\ pc[r] = "body" /\ input[r].op # "health"
  /\ LET h == input[r].header
         found == h \in DOMAIN cache /\ cache[h] # Absent
     IN IF found
        THEN /\ pc' = [pc EXCEPT ![r] = "dek"]
             /\ schema' = [schema EXCEPT ![r] = cache[h]]
             /\ UNCHANGED <<input, answer, counted, before>>
        ELSE Answer(r, 400, NoPayload) /\ UNCHANGED schema
  /\ UNCHANGED dek

\* dek_store.current().
ReadDek(r) ==
  /\ pc[r] = "dek"
  /\ IF store = NoDek
     THEN Answer(r, 503, NoPayload) /\ UNCHANGED dek
     ELSE /\ pc' = [pc EXCEPT ![r] = "crypt"]
          /\ dek' = [dek EXCEPT ![r] = store]
          /\ UNCHANGED <<input, answer, counted, before>>
  /\ UNCHANGED schema

\* build_cipher accepts a key of KEY_LEN bytes only.
CipherBuilt(k) == secret[k] = "key32"

\* encrypt after its await.
Encrypt(r) ==
  /\ pc[r] = "crypt" /\ input[r].op = "encrypt"
  /\ LET p == input[r].payload  F == Pii[schema[r]] IN
     IF EncryptFails(p, F, CipherBuilt(dek[r]))
     THEN Answer(r, 500, NoPayload)
     ELSE Answer(r, 200, encrypt_pii_fields(p, F, dek[r]))
  /\ UNCHANGED <<schema, dek>>

\* decrypt after its await.
Decrypt(r) ==
  /\ pc[r] = "crypt" /\ input[r].op = "decrypt"
  /\ LET p == input[r].payload  F == Pii[schema[r]] IN
     IF DecryptFails(p, F, dek[r], CipherBuilt(dek[r]))
     THEN Answer(r, 500, NoPayload)
     ELSE Answer(r, 200, decrypt_pii_fields(p, F))
  /\ UNCHANGED <<schema, dek>>

\* health: is_ready, and after that await the cache's len.
IsReady(r) ==
  /\ pc[r] = "body" /\ input[r].op = "health"
  /\ pc' = [pc EXCEPT ![r] = "len"]
  /\ dek' = [dek EXCEPT ![r] = store]
  /\ UNCHANGED <<input, schema, answer, counted, before>>

SchemasLoaded == Cardinality({n \in DOMAIN cache : cache[n] # Absent})

Health(r) ==
  /\ pc[r] = "len"
  /\ Done(r, IF dek[r] # NoDek /\ SchemasLoaded > 0 THEN 200 ELSE 503, NoPayload)
  /\ UNCHANGED <<schema, dek, counted>>

\* Mutant: the timeout covers the handler and not the body it waits for.
TimeoutOfHandler(r) ==
  /\ pc[r] = "dek"
  /\ Done(r, 408, NoPayload)
  /\ UNCHANGED <<schema, dek, counted>>

\* TimeoutLayer drops a handler at an await and answers for it.
Timeout(r) ==
  /\ pc[r] \in {"body", "dek"}
  /\ Done(r, 408, NoPayload)
  /\ UNCHANGED <<schema, dek, counted>>

\* The connection fails: its handler is dropped at an await.
Disconnect(r) ==
  /\ pc[r] \in {"body", "dek"}
  /\ pc' = [pc EXCEPT ![r] = "lost"]
  /\ UNCHANGED <<input, schema, dek, answer, counted, before>>

\* The body of a request is there, whole or not what axum accepts.
BodyArrives(r) == RejectBody(r) \/ Lookup(r)

\* What the server does by itself: it is the client that sends the body.
Proceed(r) == ReadDek(r) \/ Encrypt(r) \/ Decrypt(r) \/ IsReady(r) \/ Health(r)

Handle(r) == BodyArrives(r) \/ Proceed(r)
----------------------------------------------------------------------------
RequestTypes ==
  /\ pc \in [Requests -> Pcs]
  /\ input \in [Requests ->
       [op : Ops, header : Headers \cup {NoHeader}, payload : [Fields -> Values] \cup {NoPayload}]]
  /\ schema \in [Requests -> Docs \cup {Absent}]
  /\ dek \in [Requests -> 0..MaxVersions]
  /\ answer \in [Requests -> [status : {0, 200, 400, 408, 422, 500, 503},
                              payload : [Fields -> Values] \cup {NoPayload}]]
  /\ counted \subseteq Requests
  /\ before \in [Requests -> SUBSET Requests]

\* The inductive invariant of the handlers: a cloned key was stored, so it is well
\* formed and no newer than the newest one stored; a request that has not reached
\* its clone has none; a cloned schema is a resolved one; what precedes a request
\* is done and worked with no key newer than the stored one.
RequestInv ==
  \A r \in Requests :
    /\ dek[r] # NoDek => dek[r] <= high /\ secret[dek[r]] = "key32"
    /\ pc[r] \in {"idle", "body", "dek"} => dek[r] = NoDek
    /\ pc[r] = "crypt" => dek[r] # NoDek
    /\ pc[r] = "len" => input[r].op = "health"
    /\ pc[r] \in {"dek", "crypt"} => schema[r] \in Parsable \ Recursive
    /\ input[r].op # "health" => input[r].payload \in [Fields -> Values]
    /\ pc[r] \in InFlight => \A q \in before[r] : dek[q] <= store
    /\ \A q \in before[r] : pc[q] = "done"
    /\ pc[r] = "idle" => before[r] = {} /\ answer[r] = NoAnswer

\* A request is only taken by a process that has a well-formed key, and keeps
\* one through failed rotations: /encrypt and /decrypt never answer 503 and
\* /encrypt never 500 (main's order of startup, encrypt, decrypt).
AlwaysHasUsableKey ==
  \A r \in Requests :
    /\ input[r].op # "health" => answer[r].status # 503
    /\ input[r].op = "encrypt" => answer[r].status # 500

\* Keys follow real time: a request that arrives after another was answered never
\* works with an older key, across rotations, failures and restarts (DekStore::current).
KeysFollowRealTime ==
  \A r \in Requests : \A q \in before[r] : dek[r] # NoDek => dek[q] <= dek[r]

\* What encrypt returned, decrypt under the same key and schema turns back into
\* what was sent, strings that look encrypted and nested tokens included.
RoundTrip ==
  \A q, r \in Requests :
    /\ input[q].op = "encrypt" /\ answer[q].status = 200
    /\ input[r].op = "decrypt" /\ input[r].payload = answer[q].payload
    /\ pc[r] = "done" /\ dek[r] = dek[q] /\ schema[r] = schema[q]
    => answer[r] = [status |-> 200, payload |-> input[q].payload]

\* No PII string leaves encrypt in clear: every string at a field that its schema
\* marks is a token under the key it read, whatever it looked like before.
PiiLeavesEncrypted ==
  \A r \in Requests :
    input[r].op = "encrypt" /\ answer[r].status = 200 =>
      \A f \in Pii[schema[r]] :
        LET v == answer[r].payload[f] IN
        IsString(v) => IsToken(v) /\ v.layers[Len(v.layers)] = dek[r]

\* A token opens under the key that made it only: when decrypt answers 200, every
\* PII token it was sent was made under the key it read, whatever rotations
\* happened since (decrypt_field's authentication).
TokensOpenUnderTheirKeyOnly ==
  \A r \in Requests :
    input[r].op = "decrypt" /\ answer[r].status = 200 =>
      \A f \in Pii[schema[r]] :
        LET v == input[r].payload[f] IN
        IsString(v) /\ IsToken(v) => v.layers[Len(v.layers)] = dek[r]
=============================================================================
