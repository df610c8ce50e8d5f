--------------------------- MODULE HandlersProofs ---------------------------
(***************************************************************************)
(* Proofs about Handlers: what the handlers maintain, given what the       *)
(* layers they read from give them, and what an answer says about the      *)
(* request it answers.                                                     *)
(***************************************************************************)
EXTENDS Handlers, SequenceTheorems, TLAPS

\* What a handler reads of the DEK layer.
keyVars == <<secret, store, high>>

\* The store holds a well-formed key, the newest one ever stored.
HasKey == store = high /\ store \in 1..MaxVersions /\ secret[store] = "key32"

\* What the layers give the handlers: a key as long as there are requests in
\* flight, and schemas that are resolved.
LayersServe ==
  /\ \A r \in Requests : pc[r] \in InFlight => HasKey
  /\ \A h \in DOMAIN cache : cache[h] # Absent => cache[h] \in (Parsable \ Recursive) \cap Docs

\* encrypt_pii_fields maps payloads to payloads.
LEMMA EncryptTyped ==
  ASSUME NEW p \in [Fields -> Values], NEW F, NEW k \in 1..MaxVersions
  PROVE  encrypt_pii_fields(p, F, k) \in [Fields -> Values]
<1>1. ASSUME NEW v \in Values PROVE encrypt_field(v, k) \in Values
  <2>1. Append(v.layers, k) \in Seq(1..MaxVersions)
    BY DEF Values
  <2> QED BY <2>1, Zenon DEF Values, encrypt_field
<1> QED BY <1>1 DEF encrypt_pii_fields

\* decrypt_pii_fields maps payloads to payloads.
LEMMA DecryptTyped ==
  ASSUME NEW p \in [Fields -> Values], NEW F
  PROVE  decrypt_pii_fields(p, F) \in [Fields -> Values]
<1>1. ASSUME NEW v \in Values PROVE decrypt_field(v) \in Values
  <2> DEFINE s == v.layers  n == Len(s) - 1
  <2>1. s \in Seq(1..MaxVersions) /\ v.base \in Bases
    BY DEF Values
  <2> HIDE DEF s
  <2>2. Len(s) \in Nat /\ s \in [1..Len(s) -> 1..MaxVersions]
    BY <2>1, LenProperties, Zenon
  <2>3. n \in Int /\ \A i \in 1..n : s[i] \in 1..MaxVersions
    BY <2>2
  <2>4. SubSeq(s, 1, n) \in Seq(1..MaxVersions)
    BY <2>3, SubSeqProperties
  <2> QED BY <2>1, <2>4 DEF s, Values, decrypt_field
<1> QED BY <1>1 DEF decrypt_pii_fields

\* What the handlers maintain.
ReqInv == RequestTypes /\ RequestInv /\ AlwaysHasUsableKey /\ KeysFollowRealTime

\* What the handlers maintain survives the end of a request, with any answer but
\* the ones AlwaysHasUsableKey excludes.
LEMMA DoneKeeps ==
  ASSUME ReqInv, NEW r \in Requests, pc[r] \in InFlight,
         NEW s \in {200, 400, 408, 422, 500, 503}, NEW p \in [Fields -> Values] \cup {NoPayload},
         Done(r, s, p), UNCHANGED <<schema, dek, keyVars>>, counted' \in {counted, counted \cup {r}},
         input[r].op # "health" => s # 503,
         input[r].op = "encrypt" => s # 500
  PROVE  ReqInv'
<1> USE DEF ReqInv, RequestTypes, InFlight
<1>1. RequestTypes'
  BY DEF Done, Pcs
<1>2. RequestInv'
  BY DEF Done, RequestInv, keyVars, NoAnswer
<1>3. AlwaysHasUsableKey'
  BY DEF Done, AlwaysHasUsableKey
<1>4. KeysFollowRealTime'
  BY DEF Done, KeysFollowRealTime
<1> QED BY <1>1, <1>2, <1>3, <1>4

\* It survives a step of main or a layer that leaves the requests alone.
LEMMA OthersKeep ==
  ASSUME ReqInv, UNCHANGED requestVars, high \in Nat, high' \in Nat, high' >= high,
         Len(secret) \in Nat, high <= Len(secret),
         \A v \in 1..Len(secret) : secret'[v] = secret[v],
         store \in Nat, store' \in Nat,
         store' >= store \/ \A r \in Requests : pc[r] \notin InFlight
  PROVE  ReqInv'
<1> USE DEF ReqInv, RequestTypes, requestVars
<1>1. RequestTypes'
  OBVIOUS
<1>2. ASSUME NEW r \in Requests, dek[r] # NoDek
      PROVE  dek[r] <= high' /\ secret'[dek[r]] = "key32"
  <2>1. dek[r] \in 1..MaxVersions /\ dek[r] <= high /\ secret[dek[r]] = "key32"
    BY <1>2, HandlerConstants DEF RequestInv, NoDek
  <2>2. dek[r] \in 1..Len(secret)
    BY <2>1, HandlerConstants
  <2> QED BY <2>1, <2>2
<1>3. ASSUME NEW r \in Requests, pc[r] \in InFlight, NEW q \in before[r]
      PROVE  dek[q] <= store'
  <2>1. dek[q] <= store /\ dek[q] \in Int /\ store' >= store
    BY <1>3, HandlerConstants DEF RequestInv
  <2> QED BY <2>1
<1>4. RequestInv'
  BY <1>2, <1>3 DEF RequestInv
<1>5. AlwaysHasUsableKey' /\ KeysFollowRealTime'
  BY DEF AlwaysHasUsableKey, KeysFollowRealTime
<1> QED BY <1>1, <1>4, <1>5

\* It survives the end of the process, which loses the requests in flight.
LEMMA LostKeeps ==
  ASSUME ReqInv, RequestsLost, UNCHANGED <<secret, high>>
  PROVE  ReqInv'
<1> USE DEF ReqInv, RequestTypes, RequestsLost, InFlight
<1>1. RequestTypes'
  BY DEF Pcs
<1>2. RequestInv'
  BY DEF RequestInv
<1>3. AlwaysHasUsableKey' /\ KeysFollowRealTime'
  BY DEF AlwaysHasUsableKey, KeysFollowRealTime
<1> QED BY <1>1, <1>2, <1>3

\* It survives encrypt and decrypt up to their await: a clone of a resolved schema.
LEMMA LookupKeeps ==
  ASSUME LayersServe, ReqInv, NEW r \in Requests, Lookup(r), UNCHANGED keyVars
  PROVE  ReqInv'
<1> DEFINE h == input[r].header
<1>1. CASE h \in DOMAIN cache /\ cache[h] # Absent
  <2>1. cache[h] \in Parsable \ Recursive /\ cache[h] \in Docs \cup {Absent}
    BY <1>1 DEF LayersServe
  <2>2. /\ pc[r] = "body" /\ pc' = [pc EXCEPT ![r] = "dek"]
        /\ schema' = [schema EXCEPT ![r] = cache[h]]
        /\ UNCHANGED <<input, answer, counted, before, dek>>
    BY <1>1 DEF Lookup
  <2>3. RequestTypes'
    BY <2>1, <2>2 DEF ReqInv, RequestTypes, Pcs, InFlight
  <2>4. RequestInv'
    <3>1. UNCHANGED <<store, secret, high, input, answer, before, dek>>
      BY <2>2 DEF keyVars
    <3>2. /\ pc'[r] = "dek" /\ schema'[r] \in Parsable \ Recursive
          /\ \A q \in Requests \ {r} : pc'[q] = pc[q] /\ schema'[q] = schema[q]
          /\ \A q \in Requests : pc[q] = "done" => pc'[q] = "done"
      BY <2>1, <2>2 DEF ReqInv, RequestTypes
    <3>3. RequestInv
      BY DEF ReqInv
    <3> HIDE DEF h
    <3>4. \A q \in Requests :
            /\ dek'[q] # NoDek => dek'[q] <= high' /\ secret'[dek'[q]] = "key32"
            /\ input'[q].op # "health" => input'[q].payload \in [Fields -> Values]
            /\ pc'[q] = "idle" => before'[q] = {} /\ answer'[q] = NoAnswer
      <4>1. \A q \in Requests : pc'[q] = "idle" => pc[q] = "idle"
        BY <3>2
      <4> QED BY <3>1, <3>3, <4>1, Zenon DEF RequestInv
    <3>5. \A q \in Requests :
            /\ pc'[q] \in {"idle", "body", "dek"} => dek'[q] = NoDek
            /\ pc'[q] = "crypt" => dek'[q] # NoDek
            /\ pc'[q] = "len" => input'[q].op = "health"
            /\ pc'[q] \in {"dek", "crypt"} => schema'[q] \in Parsable \ Recursive
      <4>1. dek'[r] = NoDek
        BY <2>2, <3>1, <3>3 DEF RequestInv
      <4>2. ASSUME NEW q \in Requests, q # r
            PROVE  /\ pc'[q] = pc[q] /\ schema'[q] = schema[q]
                   /\ dek'[q] = dek[q] /\ input'[q] = input[q]
        BY <3>1, <3>2, <4>2
      <4> QED BY <3>2, <3>3, <4>1, <4>2 DEF RequestInv
    <3>6. \A q \in Requests :
            /\ pc'[q] \in InFlight => \A b \in before'[q] : dek'[b] <= store'
            /\ \A b \in before'[q] : pc'[b] = "done"
      BY <2>2, <3>1, <3>2, <3>3, SMTT(90) DEF RequestInv, InFlight
    <3> QED BY <3>4, <3>5, <3>6 DEF RequestInv
  <2>5. AlwaysHasUsableKey'
    BY <2>2 DEF ReqInv, AlwaysHasUsableKey
  <2>6. KeysFollowRealTime'
    BY <2>2 DEF ReqInv, KeysFollowRealTime
  <2> QED BY <2>3, <2>4, <2>5, <2>6 DEF ReqInv
<1>2. CASE ~(h \in DOMAIN cache /\ cache[h] # Absent)
  <2>1. pc[r] \in InFlight /\ Answer(r, 400, NoPayload) /\ UNCHANGED <<schema, dek>>
    BY <1>2 DEF Lookup, InFlight
  <2> QED BY <2>1, DoneKeeps DEF Answer
<1> QED BY <1>1, <1>2

\* It survives a handler's read of the key, which finds the newest ever stored:
\* the clone of encrypt and decrypt, and health's is_ready.
LEMMA CloneKeeps ==
  ASSUME ReqInv, NEW r \in Requests, NEW x \in {"crypt", "len"},
         pc[r] \in {"body", "dek"}, pc' = [pc EXCEPT ![r] = x],
         x = "len" => input[r].op = "health",
         x = "crypt" => pc[r] = "dek",
         dek' = [dek EXCEPT ![r] = store],
         UNCHANGED <<input, answer, counted, before, schema, keyVars>>,
         store = high, store \in 1..MaxVersions, secret[store] = "key32", MaxVersions \in Nat
  PROVE  ReqInv'
<1>1. RequestTypes'
  BY DEF ReqInv, RequestTypes, Pcs, InFlight
<1>2. RequestInv'
  BY DEF ReqInv, RequestTypes, RequestInv, keyVars, NoDek, InFlight
<1>3. AlwaysHasUsableKey'
  BY DEF ReqInv, AlwaysHasUsableKey
<1>4. KeysFollowRealTime'
  BY DEF ReqInv, RequestTypes, RequestInv, KeysFollowRealTime, NoDek, InFlight
<1> QED BY <1>1, <1>2, <1>3, <1>4 DEF ReqInv

\* It survives the work of encrypt, which cannot fail with a well-formed key.
LEMMA EncryptKeeps ==
  ASSUME ReqInv, NEW r \in Requests, Encrypt(r), UNCHANGED keyVars, MaxVersions \in Nat
  PROVE  ReqInv'
<1> DEFINE p == input[r].payload  e == encrypt_pii_fields(p, Pii[schema[r]], dek[r])
<1>1. pc[r] = "crypt" /\ input[r].op = "encrypt" /\ UNCHANGED <<schema, dek>>
  BY DEF Encrypt
<1>2. p \in [Fields -> Values] /\ dek[r] \in 1..MaxVersions /\ CipherBuilt(dek[r])
  BY <1>1 DEF ReqInv, RequestTypes, RequestInv, CipherBuilt, NoDek
<1>3. Answer(r, 200, e)
  BY <1>2 DEF Encrypt, EncryptFails
<1>4. e \in [Fields -> Values] \cup {NoPayload}
  BY <1>2, EncryptTyped
<1> HIDE DEF e
<1>5. Done(r, 200, e) /\ counted' \in {counted, counted \cup {r}} /\ pc[r] \in InFlight
  BY <1>1, <1>3 DEF Answer, InFlight
<1>6. 200 \in {200, 400, 408, 422, 500, 503} /\ 200 # 503 /\ 200 # 500
  OBVIOUS
<1> QED BY <1>1, <1>4, <1>5, <1>6, DoneKeeps

\* It survives the work of decrypt, whether or not every token opens.
LEMMA DecryptKeeps ==
  ASSUME ReqInv, NEW r \in Requests, Decrypt(r), UNCHANGED keyVars
  PROVE  ReqInv'
<1> DEFINE p == input[r].payload  e == decrypt_pii_fields(p, Pii[schema[r]])
<1>1. pc[r] = "crypt" /\ input[r].op = "decrypt" /\ UNCHANGED <<schema, dek>>
  BY DEF Decrypt
<1>2. Answer(r, 500, NoPayload) \/ Answer(r, 200, e)
  BY DEF Decrypt
<1>3. p \in [Fields -> Values]
  BY <1>1 DEF ReqInv, RequestInv
<1>4. e \in [Fields -> Values] \cup {NoPayload}
  BY <1>3, DecryptTyped
<1> HIDE DEF e
<1>5. PICK s \in {200, 500}, a \in {NoPayload, e} : Answer(r, s, a)
  BY <1>2
<1>6. /\ Done(r, s, a) /\ counted' \in {counted, counted \cup {r}} /\ pc[r] \in InFlight
      /\ a \in [Fields -> Values] \cup {NoPayload}
  BY <1>1, <1>4, <1>5 DEF Answer, InFlight
<1>7. s \in {200, 400, 408, 422, 500, 503} /\ s # 503
  OBVIOUS
<1> QED BY <1>1, <1>6, <1>7, DoneKeeps

\* It survives the loss of a connection.
LEMMA DisconnectKeeps ==
  ASSUME ReqInv, NEW r \in Requests, Disconnect(r), UNCHANGED keyVars
  PROVE  ReqInv'
<1>1. /\ pc' = [pc EXCEPT ![r] = "lost"]
      /\ UNCHANGED <<input, schema, dek, answer, counted, before>>
      /\ pc[r] \in {"body", "dek"}
  BY DEF Disconnect
<1>2. RequestTypes'
  BY <1>1 DEF ReqInv, RequestTypes, Pcs
<1>3. RequestInv'
  BY <1>1 DEF ReqInv, RequestTypes, RequestInv, InFlight, keyVars
<1>4. AlwaysHasUsableKey'
  BY <1>1 DEF ReqInv, AlwaysHasUsableKey
<1>5. KeysFollowRealTime'
  BY <1>1 DEF ReqInv, KeysFollowRealTime
<1> QED BY <1>2, <1>3, <1>4, <1>5 DEF ReqInv

\* Every step of a handler, of the timeout and of the connection keeps it.
LEMMA HandlersKeep ==
  ASSUME LayersServe, ReqInv, UNCHANGED keyVars, NEW r \in Requests,
         Handle(r) \/ Timeout(r) \/ Disconnect(r)
  PROVE  ReqInv'
<1>1. ASSUME pc[r] \in InFlight PROVE HasKey /\ MaxVersions \in Nat
  BY <1>1, HandlerConstants DEF LayersServe
<1>2. CASE RejectBody(r) \/ Timeout(r)
  <2>1. PICK s \in {408, 422} : Done(r, s, NoPayload)
    BY <1>2 DEF RejectBody, Timeout
  <2>2. pc[r] \in InFlight /\ UNCHANGED <<schema, dek, counted>>
    BY <1>2 DEF RejectBody, Timeout, InFlight
  <2> QED BY <2>1, <2>2, DoneKeeps
<1>3. CASE Health(r)
  <2>1. input[r].op = "health"
    BY <1>3 DEF Health, ReqInv, RequestInv
  <2> QED BY <1>3, <2>1, DoneKeeps DEF Health, InFlight
<1>4. CASE ReadDek(r)
  <2>1. pc[r] = "dek" /\ pc[r] \in InFlight
    BY <1>4 DEF ReadDek, InFlight
  <2>2. store \in 1..MaxVersions
    BY <1>1, <2>1 DEF HasKey
  <2>3. /\ pc' = [pc EXCEPT ![r] = "crypt"] /\ dek' = [dek EXCEPT ![r] = store]
        /\ UNCHANGED <<input, answer, counted, before, schema>>
    BY <1>4, <2>2 DEF ReadDek, NoDek
  <2> QED BY <1>1, <2>1, <2>3, CloneKeeps, Zenon DEF HasKey
<1>5. CASE IsReady(r)
  <2>1. /\ pc[r] = "body" /\ pc[r] \in InFlight /\ input[r].op = "health"
        /\ pc' = [pc EXCEPT ![r] = "len"] /\ dek' = [dek EXCEPT ![r] = store]
        /\ UNCHANGED <<input, answer, counted, before, schema>>
    BY <1>5 DEF IsReady, InFlight
  <2> QED BY <1>1, <2>1, CloneKeeps, Zenon DEF HasKey
<1>6. CASE Encrypt(r)
  BY <1>6, EncryptKeeps, HandlerConstants
<1> QED BY <1>1, <1>2, <1>3, <1>4, <1>5, <1>6, LookupKeeps, DecryptKeeps, DisconnectKeeps
        DEF Handle, BodyArrives, Proceed

\* What a client sends has the types of a request, its replays of answers included.
LEMMA InputsTyped ==
  ASSUME RequestTypes, NEW i \in Inputs
  PROVE  /\ i \in [op : Ops, header : Headers \cup {NoHeader},
                    payload : [Fields -> Values] \cup {NoPayload}]
         /\ i.op # "health" => i.payload \in [Fields -> Values]
<1>1. Sendable \subseteq [Fields -> Values]
  BY HandlerConstants DEF Sendable, RequestTypes
<1> QED BY <1>1 DEF Inputs, NoInput, Ops

\* The arrival of a request, which follows every answered one, keeps it.
LEMMA ArriveKeeps ==
  ASSUME HasKey, ReqInv, UNCHANGED keyVars, NEW r \in Requests, NEW i \in Inputs,
         Arrive(r, i)
  PROVE  ReqInv'
<1>1. /\ pc[r] = "idle"
      /\ pc' = [pc EXCEPT ![r] = "body"] /\ input' = [input EXCEPT ![r] = i]
      /\ before' = [before EXCEPT ![r] = {q \in Requests : pc[q] = "done"}]
      /\ UNCHANGED <<keyVars, schema, dek, answer, counted>>
  BY DEF Arrive
<1>2. /\ i \in [op : Ops, header : Headers \cup {NoHeader},
                payload : [Fields -> Values] \cup {NoPayload}]
      /\ i.op # "health" => i.payload \in [Fields -> Values]
  BY InputsTyped DEF ReqInv
<1>3. RequestTypes'
  BY <1>1, <1>2 DEF ReqInv, RequestTypes, Pcs, InFlight
<1>4. ASSUME NEW q \in Requests PROVE dek[q] <= store
  BY <1>1, HandlerConstants
     DEF HasKey, ReqInv, RequestTypes, RequestInv, NoDek
<1>5. RequestInv'
  <2>1. UNCHANGED <<store, secret, high, schema, dek, answer>>
    BY <1>1 DEF keyVars
  <2>2. /\ pc[r] = "idle" /\ pc'[r] = "body"
        /\ input'[r].op # "health" => input'[r].payload \in [Fields -> Values]
        /\ before'[r] \subseteq Requests
        /\ \A b \in before'[r] : pc[b] = "done"
    BY <1>1, <1>2 DEF ReqInv, RequestTypes
  <2>3. /\ \A q \in Requests \ {r} : pc'[q] = pc[q] /\ input'[q] = input[q] /\ before'[q] = before[q]
        /\ \A q \in Requests : before[q] \subseteq Requests
    BY <1>1 DEF ReqInv, RequestTypes
  <2>4. RequestInv
    BY DEF ReqInv
  <2>5. \A q \in Requests :
          /\ dek'[q] # NoDek => dek'[q] <= high' /\ secret'[dek'[q]] = "key32"
          /\ input'[q].op # "health" => input'[q].payload \in [Fields -> Values]
          /\ pc'[q] = "idle" => before'[q] = {} /\ answer'[q] = NoAnswer
    <3>1. ASSUME NEW q \in Requests, q # r
          PROVE  pc'[q] = pc[q] /\ input'[q] = input[q] /\ before'[q] = before[q]
      BY <2>3, <3>1
    <3>2. pc'[r] # "idle"
      BY <2>2
    <3>3. \A q \in Requests : dek'[q] # NoDek => dek'[q] <= high' /\ secret'[dek'[q]] = "key32"
      BY <2>1, <2>4, Zenon DEF RequestInv
    <3>4. \A q \in Requests : input'[q].op # "health" => input'[q].payload \in [Fields -> Values]
      BY <2>2, <2>4, <3>1, Zenon DEF RequestInv
    <3>5. \A q \in Requests : pc'[q] = "idle" => before'[q] = {} /\ answer'[q] = NoAnswer
      <4>1. \A q \in Requests : pc'[q] = "idle" => pc[q] = "idle" /\ before'[q] = before[q]
        BY <3>1, <3>2
      <4> QED BY <2>1, <2>4, <4>1, Zenon DEF RequestInv
    <3> QED BY <3>3, <3>4, <3>5, Zenon
  <2>6. \A q \in Requests :
          /\ pc'[q] \in {"idle", "body", "dek"} => dek'[q] = NoDek
          /\ pc'[q] = "crypt" => dek'[q] # NoDek
          /\ pc'[q] = "len" => input'[q].op = "health"
          /\ pc'[q] \in {"dek", "crypt"} => schema'[q] \in Parsable \ Recursive
    BY <2>1, <2>2, <2>3, <2>4, <1>4, SMTT(90) DEF RequestInv, InFlight
  <2>7. \A q \in Requests :
          /\ pc'[q] \in InFlight => \A b \in before'[q] : dek'[b] <= store'
          /\ \A b \in before'[q] : pc'[b] = "done"
    <3>1. \A b \in Requests : pc[b] = "done" => pc'[b] = "done"
      BY <2>2, <2>3
    <3>2. \A b \in Requests : dek'[b] <= store'
      BY <1>4, <2>1
    <3>3. \A q \in Requests \ {r} : \A b \in before'[q] : pc[b] = "done" /\ b \in Requests
      BY <2>3, <2>4, Zenon DEF RequestInv
    <3>4. \A q \in Requests : \A b \in before'[q] : pc[b] = "done" /\ b \in Requests
      BY <2>2, <3>3, SMTT(90)
    <3> QED BY <3>1, <3>2, <3>4, SMTT(90)
  <2> QED BY <2>5, <2>6, <2>7, SMTT(90) DEF RequestInv
<1>6. AlwaysHasUsableKey'
  BY <1>1, SMTT(90) DEF ReqInv, RequestTypes, RequestInv, AlwaysHasUsableKey, NoAnswer
<1>7. KeysFollowRealTime'
  BY <1>1, SMTT(90) DEF ReqInv, RequestTypes, RequestInv, KeysFollowRealTime
<1> QED BY <1>3, <1>5, <1>6, <1>7, SMTT(90) DEF ReqInv

\* What the lemmas use of the handlers' own invariant.
RequestFacts == RequestTypes /\ RequestInv

\* A PII string that looks encrypted does not open under version k.
Unopened(p, F, k) == \E f \in F : Decrypts(p[f]) /\ ~Authenticates(p[f], k)

\* An answered request was encrypted or decrypted with the key and the schema it
\* cloned, failed to decrypt under them, or never had a key.
Outcome(op, p, F, k, status, result) ==
  /\ op = "encrypt" /\ status = 200 =>
       k # NoDek /\ F \subseteq Fields /\ result = encrypt_pii_fields(p, F, k)
  /\ op = "decrypt" /\ status = 200 =>
       ~Unopened(p, F, k) /\ result = decrypt_pii_fields(p, F)
  /\ op = "decrypt" /\ status = 500 => Unopened(p, F, k)
  /\ op # "health" /\ status \notin {200, 500} => k = NoDek

WorkInv ==
  \A r \in Requests :
    /\ pc[r] # "done" => answer[r].status = 0
    /\ pc[r] = "done" => Outcome(input[r].op, input[r].payload, Pii[schema[r]], dek[r],
                                 answer[r].status, answer[r].payload)

\* What Outcome asks of each kind of answer.
LEMMA Outcomes ==
  ASSUME NEW op, NEW p, NEW F, NEW k, NEW s, NEW x
  PROVE  /\ op = "health" => Outcome(op, p, F, k, s, x)
         /\ k = NoDek /\ s # 200 /\ s # 500 => Outcome(op, p, F, k, s, x)
         /\ op = "encrypt" /\ s = 200 /\ k # NoDek /\ F \subseteq Fields
              /\ x = encrypt_pii_fields(p, F, k) => Outcome(op, p, F, k, s, x)
         /\ op = "decrypt" /\ s = 500 /\ Unopened(p, F, k) => Outcome(op, p, F, k, s, x)
         /\ op = "decrypt" /\ s = 200 /\ ~Unopened(p, F, k)
              /\ x = decrypt_pii_fields(p, F) => Outcome(op, p, F, k, s, x)
BY SMTT(90) DEF Outcome

\* The end of a request with an answer that fits it.
LEMMA WorkDone ==
  ASSUME RequestFacts, WorkInv, NEW r \in Requests, NEW s, NEW p, Done(r, s, p),
         UNCHANGED <<schema, dek>>,
         Outcome(input[r].op, input[r].payload, Pii[schema[r]], dek[r], s, p)
  PROVE  WorkInv'
<1>1. /\ UNCHANGED <<input, schema, dek>> /\ pc' = [pc EXCEPT ![r] = "done"]
      /\ answer' = [answer EXCEPT ![r] = [status |-> s, payload |-> p]]
  BY SMTT(90) DEF Done
<1>2. DOMAIN pc = Requests /\ DOMAIN answer = Requests
  BY SMTT(90) DEF RequestFacts, RequestTypes
<1>3. ASSUME NEW q \in Requests, q # r
      PROVE  pc'[q] = pc[q] /\ answer'[q] = answer[q]
  BY <1>1, <1>2, <1>3, SMTT(90)
<1>4. pc'[r] = "done" /\ answer'[r].status = s /\ answer'[r].payload = p
  BY <1>1, <1>2, SMTT(90)
<1> QED BY <1>1, <1>3, <1>4, SMTT(90) DEF WorkInv

\* A step of a request that does not answer it.
LEMMA WorkGoesOn ==
  ASSUME RequestFacts, WorkInv, NEW r \in Requests, NEW x \in Pcs, x # "done", pc[r] # "done",
         pc' = [pc EXCEPT ![r] = x], UNCHANGED answer,
         \A q \in Requests \ {r} : /\ input'[q] = input[q] /\ schema'[q] = schema[q]
                                   /\ dek'[q] = dek[q]
  PROVE  WorkInv'
<1>1. pc'[r] = x /\ \A q \in Requests \ {r} : pc'[q] = pc[q]
  BY SMTT(90) DEF RequestFacts, RequestTypes
<1>2. answer[r].status = 0
  BY SMTT(90) DEF WorkInv
<1>3. ASSUME NEW q \in Requests, q # r
      PROVE  /\ pc'[q] = pc[q] /\ answer'[q] = answer[q] /\ input'[q] = input[q]
             /\ schema'[q] = schema[q] /\ dek'[q] = dek[q]
  BY <1>1, <1>3, SMTT(90)
<1> QED BY <1>1, <1>2, <1>3, SMTT(90) DEF WorkInv

\* encrypt answers what it computed.
LEMMA EncryptWorks ==
  ASSUME RequestFacts, WorkInv, NEW r \in Requests, Encrypt(r)
  PROVE  WorkInv'
<1> DEFINE F == Pii[schema[r]]  e == encrypt_pii_fields(input[r].payload, F, dek[r])
<1>1. /\ pc[r] = "crypt" /\ input[r].op = "encrypt" /\ UNCHANGED <<schema, dek>>
      /\ dek[r] # NoDek /\ CipherBuilt(dek[r]) /\ schema[r] \in Parsable \ Recursive
  BY SMTT(90) DEF Encrypt, RequestFacts, RequestInv, CipherBuilt
<1>2. Done(r, 200, e)
  BY <1>1, SMTT(90) DEF Encrypt, EncryptFails, Answer
<1>3. F \subseteq Fields
  BY <1>1, HandlerConstants, SMTT(90)
<1>4. Outcome(input[r].op, input[r].payload, F, dek[r], 200, e)
  BY <1>1, <1>3, Outcomes, SMTT(90)
<1> HIDE DEF e
<1> QED BY <1>1, <1>2, <1>4, WorkDone, SMTT(90)

\* decrypt answers what it computed, or 500 because a field did not open.
LEMMA DecryptWorks ==
  ASSUME RequestFacts, WorkInv, NEW r \in Requests, Decrypt(r)
  PROVE  WorkInv'
<1> DEFINE F == Pii[schema[r]]  e == decrypt_pii_fields(input[r].payload, F)
<1>1. /\ pc[r] = "crypt" /\ input[r].op = "decrypt" /\ UNCHANGED <<schema, dek>>
      /\ CipherBuilt(dek[r])
  BY SMTT(90) DEF Decrypt, RequestFacts, RequestInv, CipherBuilt
<1>2. \/ Unopened(input[r].payload, F, dek[r]) /\ Done(r, 500, NoPayload)
      \/ ~Unopened(input[r].payload, F, dek[r]) /\ Done(r, 200, e)
  BY <1>1, SMTT(90) DEF Decrypt, DecryptFails, Unopened, Answer
<1>3. CASE Unopened(input[r].payload, F, dek[r]) /\ Done(r, 500, NoPayload)
  <2>1. Outcome(input[r].op, input[r].payload, F, dek[r], 500, NoPayload)
    BY <1>1, <1>3, Outcomes, SMTT(90)
  <2> QED BY <1>1, <1>3, <2>1, WorkDone, SMTT(90)
<1>4. CASE ~Unopened(input[r].payload, F, dek[r]) /\ Done(r, 200, e)
  <2>1. Outcome(input[r].op, input[r].payload, F, dek[r], 200, e)
    BY <1>1, <1>4, Outcomes, SMTT(90)
  <2> HIDE DEF e
  <2> QED BY <1>1, <1>4, <2>1, WorkDone, SMTT(90)
<1> QED BY <1>2, <1>3, <1>4, SMTT(90)

\* An answer before the key is read.
LEMMA KeylessAnswerWorks ==
  ASSUME RequestFacts, WorkInv, NEW r \in Requests, NEW s \in {400, 408, 422, 503},
         pc[r] \in {"body", "dek"}, Done(r, s, NoPayload), UNCHANGED <<schema, dek>>
  PROVE  WorkInv'
<1>1. dek[r] = NoDek
  BY SMTT(90) DEF RequestFacts, RequestInv
<1>2. s # 200 /\ s # 500
  BY SMTT(90)
<1>3. Outcome(input[r].op, input[r].payload, Pii[schema[r]], dek[r], s, NoPayload)
  BY <1>1, <1>2, Outcomes, SMTT(90)
<1> QED BY <1>3, WorkDone, SMTT(90)

\* Every step of a request keeps its answer and its work together.
LEMMA HandlersWork ==
  ASSUME RequestFacts, WorkInv, NEW r \in Requests,
         (\E i \in Inputs : Arrive(r, i)) \/ Handle(r) \/ Timeout(r) \/ Disconnect(r)
  PROVE  WorkInv'
<1>1. CASE (\E i \in Inputs : Arrive(r, i)) \/ Disconnect(r) \/ IsReady(r)
  <2>1. PICK x \in {"body", "lost", "len"} : pc' = [pc EXCEPT ![r] = x]
    BY <1>1, SMTT(90) DEF Arrive, Disconnect, IsReady
  <2>2. x \in Pcs /\ x # "done" /\ pc[r] # "done" /\ UNCHANGED answer
    BY <1>1, <2>1, SMTT(90) DEF Arrive, Disconnect, IsReady, Pcs, InFlight
  <2>3. \A q \in Requests \ {r} : /\ input'[q] = input[q] /\ schema'[q] = schema[q]
                                  /\ dek'[q] = dek[q]
    BY <1>1, SMTT(90) DEF Arrive, Disconnect, IsReady, RequestFacts, RequestTypes
  <2> QED BY <2>1, <2>2, <2>3, WorkGoesOn, Zenon
<1>2. CASE Timeout(r) \/ RejectBody(r)
  <2>1. Done(r, 408, NoPayload) \/ Done(r, 422, NoPayload)
    BY <1>2, Zenon DEF Timeout, RejectBody
  <2>2. pc[r] \in {"body", "dek"} /\ UNCHANGED <<schema, dek>>
    BY <1>2, SMTT(90) DEF Timeout, RejectBody
  <2>3. CASE Done(r, 408, NoPayload)
    BY <2>2, <2>3, KeylessAnswerWorks, SMTT(90)
  <2>4. CASE Done(r, 422, NoPayload)
    BY <2>2, <2>4, KeylessAnswerWorks, SMTT(90)
  <2> QED BY <2>1, <2>3, <2>4, SMTT(90)
<1>3. CASE Lookup(r)
  <2>1. CASE Answer(r, 400, NoPayload) /\ UNCHANGED schema
    <3>1. pc[r] \in {"body", "dek"} /\ UNCHANGED <<schema, dek>>
      BY <1>3, <2>1, SMTT(90) DEF Lookup
    <3>2. Done(r, 400, NoPayload)
      BY <2>1, Zenon DEF Answer
    <3> QED BY <3>1, <3>2, KeylessAnswerWorks, SMTT(90)
  <2>2. CASE ~(Answer(r, 400, NoPayload) /\ UNCHANGED schema)
    <3>1. /\ pc' = [pc EXCEPT ![r] = "dek"] /\ UNCHANGED <<input, answer, dek>>
          /\ schema' = [schema EXCEPT ![r] = cache[input[r].header]] /\ pc[r] = "body"
      BY <1>3, <2>2, SMTT(90) DEF Lookup
    <3>2. "dek" \in Pcs /\ \A q \in Requests \ {r} : schema'[q] = schema[q]
      BY <3>1, SMTT(90) DEF Pcs, InFlight, RequestFacts, RequestTypes
    <3> QED BY <3>1, <3>2, WorkGoesOn, Zenon
  <2> QED BY <2>1, <2>2, SMTT(90)
<1>4. CASE ReadDek(r)
  <2>1. CASE Answer(r, 503, NoPayload) /\ UNCHANGED dek
    <3>1. pc[r] \in {"body", "dek"} /\ UNCHANGED <<schema, dek>>
      BY <1>4, <2>1, SMTT(90) DEF ReadDek
    <3>2. Done(r, 503, NoPayload)
      BY <2>1, Zenon DEF Answer
    <3> QED BY <3>1, <3>2, KeylessAnswerWorks, SMTT(90)
  <2>2. CASE ~(Answer(r, 503, NoPayload) /\ UNCHANGED dek)
    <3>1. /\ pc' = [pc EXCEPT ![r] = "crypt"] /\ UNCHANGED <<input, answer, schema>>
          /\ dek' = [dek EXCEPT ![r] = store] /\ pc[r] = "dek"
      BY <1>4, <2>2, SMTT(90) DEF ReadDek
    <3>2. "crypt" \in Pcs /\ \A q \in Requests \ {r} : dek'[q] = dek[q]
      BY <3>1, SMTT(90) DEF Pcs, InFlight, RequestFacts, RequestTypes
    <3> QED BY <3>1, <3>2, WorkGoesOn, ZenonT(90)
  <2> QED BY <2>1, <2>2, SMTT(90)
<1>5. CASE Health(r)
  <2>1. pc[r] = "len" /\ UNCHANGED <<schema, dek>>
    BY <1>5, SMTT(90) DEF Health
  <2>2. input[r].op = "health"
    BY <2>1, Zenon DEF RequestFacts, RequestInv
  <2>3. PICK s : Done(r, s, NoPayload)
    BY <1>5, ZenonT(90) DEF Health
  <2>4. Outcome(input[r].op, input[r].payload, Pii[schema[r]], dek[r], s, NoPayload)
    BY <2>2, Outcomes, Zenon
  <2> QED BY <2>1, <2>3, <2>4, WorkDone, SMTT(90)
<1> QED BY <1>1, <1>2, <1>3, <1>4, <1>5, EncryptWorks, DecryptWorks, SMTT(90) DEF Handle, BodyArrives, Proceed

\* Removing the last element undoes an Append.
LEMMA AppendThenDrop ==
  ASSUME NEW s \in Seq(1..MaxVersions), NEW k \in 1..MaxVersions
  PROVE  /\ Append(s, k) # <<>> /\ Append(s, k)[Len(Append(s, k))] = k
         /\ SubSeq(Append(s, k), 1, Len(Append(s, k)) - 1) = s
<1>1. Len(s) \in Nat /\ s \in [1..Len(s) -> 1..MaxVersions]
  BY LenProperties, Zenon
<1>2. /\ Append(s, k) \in Seq(1..MaxVersions) /\ Len(Append(s, k)) = Len(s) + 1
      /\ Append(s, k)[Len(s) + 1] = k
      /\ \A i \in 1..Len(s) : Append(s, k)[i] = s[i]
  BY <1>1, AppendProperties, SMTT(90)
<1> DEFINE t == SubSeq(Append(s, k), 1, Len(s))
<1>3. t \in Seq(1..MaxVersions) /\ Len(t) = Len(s) /\ \A i \in 1..Len(s) : t[i] = Append(s, k)[i]
  <2>1. \A i \in 1..Len(s) : Append(s, k)[i] \in 1..MaxVersions
    BY <1>1, <1>2, SMTT(90)
  <2>2. 1 \in Int /\ Len(s) \in Int
    BY <1>1, SMTT(90)
  <2> QED BY <1>1, <1>2, <2>1, <2>2, SubSeqProperties, SMTT(90)
<1> HIDE DEF t
<1>4. t = s
  BY <1>1, <1>2, <1>3, SeqEqual, SMTT(90)
<1>5. Append(s, k) # <<>>
  BY <1>1, <1>2, SMTT(90)
<1> QED BY <1>1, <1>2, <1>4, <1>5, SMTT(90) DEF t

\* decrypt_field undoes encrypt_field, whose result is a token under its key.
LEMMA FieldRoundTrip ==
  ASSUME NEW v \in Values, NEW k \in 1..MaxVersions
  PROVE  /\ IsToken(encrypt_field(v, k)) /\ Authenticates(encrypt_field(v, k), k)
         /\ decrypt_field(encrypt_field(v, k)) = v
         /\ IsString(encrypt_field(v, k)) = IsString(v)
         /\ encrypt_field(v, k).layers[Len(encrypt_field(v, k).layers)] = k
<1> DEFINE t == Append(v.layers, k)
           e == encrypt_field(v, k)
           d == decrypt_field(e)
<1>1. v.layers \in Seq(1..MaxVersions) /\ v.base \in Bases
  BY SMTT(90) DEF Values
<1>2. t # <<>> /\ t[Len(t)] = k /\ SubSeq(t, 1, Len(t) - 1) = v.layers /\ t \in Seq(1..MaxVersions)
  BY <1>1, AppendThenDrop, SMTT(90)
<1>3. e = [v EXCEPT !.layers = t]
  BY SMTT(90) DEF encrypt_field
<1> HIDE DEF t, e
<1>4. e \in Values /\ e.base = v.base /\ e.layers = t
  BY <1>2, <1>3, SMTT(90) DEF Values
<1>5. d = [e EXCEPT !.layers = v.layers]
  BY <1>2, <1>4, Zenon DEF decrypt_field
<1> HIDE DEF d
<1>6. d = v
  BY <1>1, <1>4, <1>5, SMTT(90) DEF Values
<1> QED BY <1>2, <1>4, <1>6, SMTT(90) DEF IsToken, Authenticates, IsString, d, e

\* decrypt_pii_fields opens what encrypt_pii_fields wrote, and undoes it.
LEMMA PayloadRoundTrip ==
  ASSUME NEW p \in [Fields -> Values], NEW F \in SUBSET Fields, NEW k \in 1..MaxVersions
  PROVE  /\ ~Unopened(encrypt_pii_fields(p, F, k), F, k)
         /\ decrypt_pii_fields(encrypt_pii_fields(p, F, k), F) = p
         /\ \A f \in F : LET v == encrypt_pii_fields(p, F, k)[f]
                         IN  IsString(v) => IsToken(v) /\ v.layers[Len(v.layers)] = k
<1> DEFINE e == encrypt_pii_fields(p, F, k)
           d == decrypt_pii_fields(e, F)
<1>1. /\ DOMAIN e = Fields
      /\ \A f \in Fields : e[f] = IF f \in F /\ IsString(p[f]) THEN encrypt_field(p[f], k) ELSE p[f]
  BY SMTT(90) DEF encrypt_pii_fields, Encrypts
<1>2. /\ d = [f \in Fields |-> IF f \in F /\ Decrypts(e[f]) THEN decrypt_field(e[f]) ELSE e[f]]
  BY <1>1, SMTT(90) DEF decrypt_pii_fields
<1> HIDE DEF e, d
<1>3. ASSUME NEW f \in F, IsString(p[f])
      PROVE  /\ Decrypts(e[f]) /\ Authenticates(e[f], k) /\ decrypt_field(e[f]) = p[f]
             /\ IsToken(e[f]) /\ e[f].layers[Len(e[f].layers)] = k
  <2>1. e[f] = encrypt_field(p[f], k) /\ p[f] \in Values
    BY <1>1, <1>3, SMTT(90)
  <2>2. IsString(e[f]) /\ IsToken(e[f])
    BY <1>3, <2>1, FieldRoundTrip, SMTT(90)
  <2>3. Decrypts(e[f])
    BY <2>2, SMTT(90) DEF Decrypts, StartsWithV1, IsToken
  <2> QED BY <2>1, <2>3, FieldRoundTrip, SMTT(90)
<1>4. ASSUME NEW f \in F, ~IsString(p[f]) PROVE e[f] = p[f] /\ ~Decrypts(e[f]) /\ ~IsString(e[f])
  BY <1>1, <1>4, SMTT(90) DEF Decrypts
<1>5. ~Unopened(e, F, k)
  BY <1>3, <1>4, SMTT(90) DEF Unopened
<1>6. d = p
  BY <1>1, <1>2, <1>3, <1>4, SMTT(90)
<1>7. \A f \in F : IsString(e[f]) => IsToken(e[f]) /\ e[f].layers[Len(e[f].layers)] = k
  BY <1>3, <1>4, Zenon
<1> QED BY <1>5, <1>6, <1>7, Zenon DEF e, d

\* The inductive facts about a request that was encrypted.
LEMMA EncryptedFacts ==
  ASSUME RequestFacts, WorkInv, NEW r \in Requests,
         input[r].op = "encrypt", answer[r].status = 200
  PROVE  /\ input[r].payload \in [Fields -> Values] /\ Pii[schema[r]] \in SUBSET Fields
         /\ dek[r] \in 1..MaxVersions
         /\ answer[r].payload = encrypt_pii_fields(input[r].payload, Pii[schema[r]], dek[r])
<1>1. /\ dek[r] \in 0..MaxVersions /\ input[r].payload \in [Fields -> Values]
  BY SMTT(90) DEF RequestFacts, RequestTypes, RequestInv
<1>2. Outcome(input[r].op, input[r].payload, Pii[schema[r]], dek[r],
              answer[r].status, answer[r].payload)
  BY SMTT(90) DEF WorkInv
<1>3. /\ dek[r] # NoDek /\ Pii[schema[r]] \subseteq Fields
      /\ answer[r].payload = encrypt_pii_fields(input[r].payload, Pii[schema[r]], dek[r])
  BY <1>2, SMTT(90) DEF Outcome
<1>4. dek[r] \in 1..MaxVersions
  BY <1>1, <1>3, HandlerConstants, SMTT(90) DEF NoDek
<1> QED BY <1>1, <1>3, <1>4, SMTT(90)

\* An encrypted answer holds tokens of the request's key where its schema has PII.
LEMMA EncryptsPii == RequestFacts /\ WorkInv => PiiLeavesEncrypted
<1>1. ASSUME RequestFacts, WorkInv, NEW r \in Requests,
             input[r].op = "encrypt", answer[r].status = 200, NEW f \in Pii[schema[r]]
      PROVE  LET v == answer[r].payload[f]
             IN  IsString(v) => IsToken(v) /\ v.layers[Len(v.layers)] = dek[r]
  <2> DEFINE p == input[r].payload  F == Pii[schema[r]]  k == dek[r]
  <2>1. /\ p \in [Fields -> Values] /\ F \in SUBSET Fields /\ k \in 1..MaxVersions
        /\ answer[r].payload = encrypt_pii_fields(p, F, k)
    BY <1>1, EncryptedFacts, SMTT(90)
  <2> HIDE DEF p, F, k
  <2>2. \A g \in F : LET v == encrypt_pii_fields(p, F, k)[g]
                    IN  IsString(v) => IsToken(v) /\ v.layers[Len(v.layers)] = k
    BY <2>1, PayloadRoundTrip, ZenonT(90)
  <2>3. f \in F
    BY <1>1, Zenon DEF F
  <2>4. encrypt_pii_fields(p, F, k)[f] = answer[r].payload[f]
    BY <2>1, SMTT(90)
  <2>5. k = dek[r]
    BY Zenon DEF k
  <2> QED BY <2>2, <2>3, <2>4, <2>5, SMTT(90)
<1> QED BY <1>1, ZenonT(90) DEF PiiLeavesEncrypted

\* A payload that was decrypted held no token of another key.
LEMMA OpensOwnTokens == WorkInv => TokensOpenUnderTheirKeyOnly
<1>1. ASSUME WorkInv, NEW r \in Requests, input[r].op = "decrypt", answer[r].status = 200,
             NEW f \in Pii[schema[r]], IsString(input[r].payload[f]), IsToken(input[r].payload[f])
      PROVE  input[r].payload[f].layers[Len(input[r].payload[f].layers)] = dek[r]
  <2>1. Outcome(input[r].op, input[r].payload, Pii[schema[r]], dek[r],
                answer[r].status, answer[r].payload)
    BY <1>1, SMTT(90) DEF WorkInv
  <2>2. ~Unopened(input[r].payload, Pii[schema[r]], dek[r])
    BY <1>1, <2>1, Zenon DEF Outcome
  <2> QED BY <1>1, <2>2, SMTT(90) DEF Unopened, Decrypts, StartsWithV1, IsToken, Authenticates
<1> QED BY <1>1, SMTT(90) DEF TokensOpenUnderTheirKeyOnly

\* A request that decrypts an encrypted answer under its key and schema undoes it.
LEMMA UndoesEncrypt == RequestFacts /\ WorkInv => RoundTrip
<1>1. ASSUME RequestFacts, WorkInv, NEW q \in Requests, NEW r \in Requests,
             input[q].op = "encrypt", answer[q].status = 200,
             input[r].op = "decrypt", input[r].payload = answer[q].payload,
             pc[r] = "done", dek[r] = dek[q], schema[r] = schema[q]
      PROVE  answer[r] = [status |-> 200, payload |-> input[q].payload]
  <2> DEFINE p == input[q].payload  F == Pii[schema[q]]  k == dek[q]
  <2>1. /\ p \in [Fields -> Values] /\ F \in SUBSET Fields /\ k \in 1..MaxVersions
        /\ input[r].payload = encrypt_pii_fields(p, F, k)
    BY <1>1, EncryptedFacts, SMTT(90)
  <2>2. Outcome("decrypt", input[r].payload, F, k, answer[r].status, answer[r].payload)
    BY <1>1, SMTT(90) DEF WorkInv
  <2> HIDE DEF p, F, k
  <2>3. ~Unopened(input[r].payload, F, k) /\ decrypt_pii_fields(input[r].payload, F) = p
    <3>1. /\ ~Unopened(encrypt_pii_fields(p, F, k), F, k)
          /\ decrypt_pii_fields(encrypt_pii_fields(p, F, k), F) = p
      BY <2>1, PayloadRoundTrip, ZenonT(90)
    <3> QED BY <2>1, <3>1, Zenon
  <2>4. k # NoDek
    BY <2>1, HandlerConstants, SMTT(90) DEF NoDek
  <2>5. answer[r].status = 200 /\ answer[r].payload = p
    BY <2>2, <2>3, <2>4, SMTT(90) DEF Outcome
  <2>6. answer[r] = [status |-> answer[r].status, payload |-> answer[r].payload]
    BY <1>1, SMTT(90) DEF RequestFacts, RequestTypes
  <2> QED BY <2>5, <2>6, SMTT(90) DEF p
<1> QED BY <1>1, SMTT(90) DEF RoundTrip
=============================================================================
