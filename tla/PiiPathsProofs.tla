--------------------------- MODULE PiiPathsProofs ---------------------------
(***************************************************************************)
(* For all documents, payloads and keys: the loop over PII paths rewrites  *)
(* every leaf at most once and implements the single step that Service     *)
(* takes, and what it rewrites is what the document marks.                 *)
(***************************************************************************)
EXTENDS PiiPaths, TLAPS

Parts == [text : Texts, brackets : Nat]

\* A string is a sequence of parts that is not empty.
LEMMA StringFacts ==
  ASSUME NEW w \in Strings
  PROVE  /\ w \in Seq(Parts) /\ Len(w) \in Nat \ {0} /\ DOMAIN w = 1..Len(w)
         /\ \A i \in 1..Len(w) : w[i] \in Parts /\ w[i] = Part(w[i].text, w[i].brackets)
  <1>1. w \in Seq(Parts) /\ w # <<>>
    BY DEF Strings, Parts
  <1>2. Len(w) \in Nat /\ DOMAIN w = 1..Len(w) /\ Len(w) # 0
    BY <1>1
  <1>3. ASSUME NEW i \in 1..Len(w)
        PROVE  w[i] \in Parts /\ w[i] = Part(w[i].text, w[i].brackets)
    <2>1. w[i] \in Parts
      BY <1>1, <1>2
    <2> QED
      BY <2>1 DEF Parts, Part
  <1> QED
    BY <1>1, <1>2, <1>3

\* strip_suffix and the key it leaves tell the part they were made from.
LEMMA SegmentsInjective ==
  ASSUME NEW u \in [text : Texts, brackets : Nat], NEW v \in [text : Texts, brackets : Nat],
         Segments(u) = Segments(v)
  PROVE  u = v
  <1>1. /\ u = Part(u.text, u.brackets) /\ u.brackets \in Nat
        /\ v = Part(v.text, v.brackets) /\ v.brackets \in Nat
    BY DEF Part
  <1>2. CASE u.brackets > 0
    <2>1. v.brackets > 0
      BY <1>2 DEF Segments
    <2>2. Part(u.text, u.brackets - 1) = Part(v.text, v.brackets - 1)
      BY <1>2, <2>1 DEF Segments
    <2> QED
      BY <1>1, <1>2, <2>1, <2>2 DEF Part
  <1>3. CASE ~(u.brackets > 0)
    <2>1. ~(v.brackets > 0)
      BY <1>3 DEF Segments
    <2> QED
      BY <1>3, <2>1 DEF Segments
  <1> QED
    BY <1>2, <1>3

\* A leaf is reached by one path only: parse_path reads no two strings alike.
LEMMA OnePathPerLeaf ==
  ASSUME NEW p \in Strings, NEW q \in Strings, NEW a, Reaches(p, a), Reaches(q, a)
  PROVE  p = q
  <1>1. parse_path(p) = parse_path(q)
    BY DEF Reaches
  <1>2. p \in Seq([text : Texts, brackets : Nat]) /\ q \in Seq([text : Texts, brackets : Nat])
    BY DEF Strings
  <1>3. DOMAIN p = DOMAIN q
    BY <1>1, Zenon DEF parse_path
  <1>4. ASSUME NEW i \in DOMAIN p PROVE p[i] = q[i]
    <2>1. Segments(p[i]) = Segments(q[i])
      BY <1>1, <1>3 DEF parse_path
    <2>2. p[i] \in [text : Texts, brackets : Nat] /\ q[i] \in [text : Texts, brackets : Nat]
      BY <1>3, StringFacts DEF Parts
    <2> QED
      BY <2>1, <2>2, SegmentsInjective
  <1> QED
    BY <1>2, <1>3, <1>4

\* encrypt_field and decrypt_field turn values into values.
LEMMA CipherTypes ==
  ASSUME NEW v \in Values, NEW k \in Deks
  PROVE  /\ encrypt_field(v, k) \in Values
         /\ v.layers # <<>> => decrypt_field(v) \in Values
  <1>1. v.layers \in Seq(Deks) /\ v.base \in Bases
    BY DEF Values
  <1>2. Append(v.layers, k) \in Seq(Deks)
    BY <1>1
  <1>3. v.layers # <<>> => SubSeq(v.layers, 1, Len(v.layers) - 1) \in Seq(Deks)
    BY <1>1
  <1> QED
    BY <1>1, <1>2, <1>3, Zenon DEF encrypt_field, decrypt_field, Values

\* encrypt_pii_fields keeps the shape of a payload.
LEMMA EncryptTypes ==
  ASSUME NEW w, IsPayload(w), NEW S, NEW k \in Deks
  PROVE  encrypt_pii_fields(w, S, k) \in [DOMAIN w -> Values]
  BY CipherTypes DEF encrypt_pii_fields, IsPayload

\* decrypt_pii_fields keeps the shape of a payload when it does not fail.
LEMMA DecryptTypes ==
  ASSUME NEW w, IsPayload(w), NEW S, S \subseteq DOMAIN w, NEW k \in Deks,
         ~DecryptFails(w, S, k, TRUE)
  PROVE  decrypt_pii_fields(w, S) \in [DOMAIN w -> Values]
  <1>1. ASSUME NEW f \in DOMAIN w, f \in S, Decrypts(w[f])
        PROVE  decrypt_field(w[f]) \in Values
    <2>1. w[f].layers # <<>>
      BY <1>1 DEF DecryptFails, Authenticates, IsToken
    <2> QED
      BY <2>1, CipherTypes DEF IsPayload
  <1> QED
    BY <1>1 DEF decrypt_pii_fields, IsPayload

\* Taking the loop's rounds in turn or at once is the same: encrypting the leaves
\* S, then others T, is encrypting both.
LEMMA EncryptInRounds ==
  ASSUME NEW w, NEW S, NEW T, NEW k, S \cap T = {}
  PROVE  encrypt_pii_fields(encrypt_pii_fields(w, S, k), T, k) = encrypt_pii_fields(w, S \cup T, k)
  BY DEF encrypt_pii_fields

\* The same of decrypt_pii_fields.
LEMMA DecryptInRounds ==
  ASSUME NEW w, NEW S, NEW T, S \cap T = {}
  PROVE  decrypt_pii_fields(decrypt_pii_fields(w, S), T) = decrypt_pii_fields(w, S \cup T)
  BY DEF decrypt_pii_fields

\* A round of decrypt_pii_fields fails on what it was sent, not on what earlier
\* rounds made of it.
LEMMA DecryptFailsInRounds ==
  ASSUME NEW w, NEW S, NEW T, S \cap T = {}, T \subseteq DOMAIN w, NEW k
  PROVE  DecryptFails(decrypt_pii_fields(w, S), T, k, TRUE) <=> DecryptFails(w, T, k, TRUE)
  <1>1. \A f \in T : decrypt_pii_fields(w, S)[f] = w[f]
    BY DEF decrypt_pii_fields
  <1> QED
    BY <1>1 DEF DecryptFails

\* One round adds the leaves of its path, and those were not treated before.
LEMMA RoundTreats ==
  ASSUME Called, NEW p \in pending, job' = job, pending' = pending \ {p}
  PROVE  /\ Treated \cap Leaves(work, p) = {}
         /\ Treated' = Treated \cup Leaves(work, p)
         /\ Leaves(work, p) \subseteq DOMAIN job.payload
  <1>1. DOMAIN work = DOMAIN job.payload
    BY DEF Called
  <1>2. p \in job.paths /\ job.paths \subseteq Strings
    BY DEF Called
  <1> QED
    BY <1>1, <1>2, OnePathPerLeaf DEF Treated, Leaves

\* When no path is left every PII leaf has been treated.
LEMMA AllTreated ==
  pending = {} => Treated = PiiLeaves
  BY DEF Treated, PiiLeaves

\* Without leaves to treat a payload stays as it is.
LEMMA NothingToTreat ==
  ASSUME NEW w, IsPayload(w), NEW k
  PROVE  /\ encrypt_pii_fields(w, {}, k) = w
         /\ decrypt_pii_fields(w, {}) = w
         /\ ~DecryptFails(w, {}, k, TRUE)
  BY DEF encrypt_pii_fields, decrypt_pii_fields, DecryptFails, IsPayload
----------------------------------------------------------------------------
TravInv == (NoCall \/ Called) /\ LoopInv

\* The three results of a call are told apart.
LEMMA Answers ==
  /\ NoAnswer # Err
  /\ \A p : Ok(p) # NoAnswer /\ Ok(p) # Err /\ Ok(p).status = "ok" /\ Ok(p).payload = p
  /\ NoAnswer.status # "ok" /\ Err.status # "ok"
  BY DEF NoAnswer, Err, Ok

\* Only a call runs a loop.
LEMMA InCall == TravInv /\ answer = NoAnswer => Called
  BY DEF TravInv, NoCall, NoAnswer, Idle

\* Before the first call.
LEMMA NoCallInv == NoCall => TravInv
  BY DEF NoCall, TravInv, LoopInv, Call, Idle

\* A new call begins with an untouched payload and all paths of its document.
LEMMA StartInv ==
  ASSUME TravInv, NEW op \in Ops, NEW p \in Sendable, NEW d \in Docs, NEW k \in Deks,
         paths[d] \subseteq Strings, Start(op, p, d, k)
  PROVE  Called' /\ LoopInv'
  <1>1. IsPayload(p) /\ DOMAIN p \subseteq Addresses
    <2>1. CASE NoCall
      <3>1. p \in Payloads
        BY <2>1 DEF NoCall, Sendable
      <3> QED
        BY <3>1, TraversalConstants DEF Addresses
    <2>2. CASE Called /\ p = job.payload
      BY <2>2 DEF Called
    <2>3. CASE Called /\ answer.status = "ok" /\ p = answer.payload
      <3>1. answer = Ok(work)
        BY <2>3, Answers DEF Called
      <3>2. p = work
        BY <2>3, <3>1, Answers
      <3> QED
        BY <2>3, <3>2 DEF Called, IsPayload
    <2>4. Called => answer # Idle
      BY DEF Called, NoAnswer, Err, Ok, Idle
    <2> QED
      BY <2>1, <2>2, <2>3, <2>4 DEF Sendable, TravInv
  <1>2. /\ job' = Call(op, p, d, paths[d], k)
        /\ work' = p /\ pending' = paths[d] /\ answer' = NoAnswer
    BY DEF Start
  <1>3. /\ job'.op = op /\ job'.payload = p /\ job'.doc = d /\ job'.paths = paths[d]
        /\ job'.dek = k
    BY <1>2 DEF Call
  <1>4. Called'
    BY <1>1, <1>2, <1>3 DEF Called, IsPayload
  <1>5. Treated' = {}
    BY <1>2, <1>3 DEF Treated
  <1>6. LoopInv'
    BY <1>1, <1>2, <1>3, <1>5, NothingToTreat, Answers, Zenon DEF LoopInv
  <1> QED
    BY <1>4, <1>6

\* A round of encrypt_pii_fields.
LEMMA EncryptPathInv ==
  ASSUME TravInv, NEW p \in pending, EncryptPath(p)
  PROVE  TravInv'
  <1> DEFINE L == Leaves(work, p)
  <1>1. /\ job' = job /\ answer' = answer /\ pending' = pending \ {p}
        /\ work' = encrypt_pii_fields(work, L, job.dek)
        /\ job.op = "encrypt" /\ answer = NoAnswer
    BY DEF EncryptPath
  <1>2. Called /\ work = encrypt_pii_fields(job.payload, Treated, job.dek)
    BY <1>1, InCall DEF TravInv, LoopInv
  <1>3. Treated \cap L = {} /\ Treated' = Treated \cup L
    BY <1>1, <1>2, RoundTreats
  <1>4. work' = encrypt_pii_fields(job.payload, Treated', job.dek)
    BY <1>1, <1>2, <1>3, EncryptInRounds
  <1>5. work' \in [DOMAIN job.payload -> Values]
    <2>1. IsPayload(work) /\ DOMAIN work = DOMAIN job.payload /\ job.dek \in Deks
      BY <1>2 DEF Called, IsPayload
    <2> HIDE DEF L
    <2> QED
      BY <1>1, <2>1, EncryptTypes
  <1>6. Called'
    BY <1>1, <1>2, <1>5 DEF Called
  <1>7. LoopInv'
    BY <1>1, <1>4, Answers DEF LoopInv
  <1> QED
    BY <1>6, <1>7 DEF TravInv

\* A round of decrypt_pii_fields that fails: it fails on a PII leaf of the call.
LEMMA DecryptPathErrInv ==
  ASSUME TravInv, NEW p \in pending, DecryptPath(p),
         DecryptFails(work, Leaves(work, p), job.dek, TRUE)
  PROVE  TravInv' /\ answer' = Err
  <1> DEFINE L == Leaves(work, p)
  <1>1. /\ job' = job /\ answer' = Err /\ pending' = pending /\ work' = work
        /\ job.op = "decrypt" /\ answer = NoAnswer
    BY DEF DecryptPath
  <1>2. /\ Called /\ work = decrypt_pii_fields(job.payload, Treated)
        /\ ~DecryptFails(job.payload, Treated, job.dek, TRUE)
    BY <1>1, InCall, Zenon DEF TravInv, LoopInv
  <1>3. L \subseteq PiiLeaves /\ Treated \cap L = {} /\ L \subseteq DOMAIN job.payload
    <2>1. /\ DOMAIN work = DOMAIN job.payload /\ p \in job.paths
          /\ job.paths \subseteq Strings
      BY <1>2 DEF Called
    <2> QED
      BY <2>1, OnePathPerLeaf DEF PiiLeaves, Treated, Leaves
  <1>4. DecryptFails(job.payload, L, job.dek, TRUE)
    <2> HIDE DEF L
    <2>1. DecryptFails(work, L, job.dek, TRUE)
      BY Zenon DEF L
    <2> QED
      BY <1>2, <1>3, <2>1, DecryptFailsInRounds, Zenon
  <1>5. DecryptFails(job.payload, PiiLeaves, job.dek, TRUE)
    BY <1>3, <1>4 DEF DecryptFails
  <1>6. Called'
    BY <1>1, <1>2 DEF Called
  <1>7. Treated' = Treated /\ PiiLeaves' = PiiLeaves
    BY <1>1 DEF Treated, PiiLeaves
  <1>8. LoopInv'
    BY <1>1, <1>2, <1>5, <1>7, Answers, Zenon DEF LoopInv
  <1> QED
    BY <1>1, <1>6, <1>8 DEF TravInv

\* A round of decrypt_pii_fields that succeeds.
LEMMA DecryptPathOkInv ==
  ASSUME TravInv, NEW p \in pending, DecryptPath(p),
         ~DecryptFails(work, Leaves(work, p), job.dek, TRUE)
  PROVE  TravInv' /\ answer' = answer
  <1> DEFINE L == Leaves(work, p)
  <1>1. /\ job' = job /\ answer' = answer /\ pending' = pending \ {p}
        /\ work' = decrypt_pii_fields(work, L)
        /\ job.op = "decrypt" /\ answer = NoAnswer
    BY DEF DecryptPath
  <1>2. /\ Called /\ work = decrypt_pii_fields(job.payload, Treated)
        /\ ~DecryptFails(job.payload, Treated, job.dek, TRUE)
    BY <1>1, InCall, Zenon DEF TravInv, LoopInv
  <1>3. Treated \cap L = {} /\ Treated' = Treated \cup L /\ L \subseteq DOMAIN job.payload
    BY <1>1, <1>2, RoundTreats
  <1> HIDE DEF L
  <1>4. work' = decrypt_pii_fields(job.payload, Treated')
    BY <1>1, <1>2, <1>3, DecryptInRounds
  <1>5. ~DecryptFails(work, L, job.dek, TRUE)
    BY Zenon DEF L
  <1>6. ~DecryptFails(job.payload, L, job.dek, TRUE)
    BY <1>2, <1>3, <1>5, DecryptFailsInRounds, Zenon
  <1>7. ~DecryptFails(job.payload, Treated', job.dek, TRUE)
    BY <1>2, <1>3, <1>6 DEF DecryptFails
  <1>8. work' \in [DOMAIN job.payload -> Values]
    <2>1. IsPayload(work) /\ DOMAIN work = DOMAIN job.payload /\ job.dek \in Deks
      BY <1>2, SMTT(30) DEF Called, IsPayload
    <2> QED
      BY <1>1, <1>3, <1>5, <2>1, DecryptTypes, Zenon
  <1>9. Called'
    BY <1>1, <1>2, <1>8 DEF Called
  <1>10. LoopInv'
    BY <1>1, <1>4, <1>7, Answers, Zenon DEF LoopInv
  <1> QED
    BY <1>1, <1>9, <1>10 DEF TravInv

\* The end of the loop.
LEMMA ReturnInv ==
  ASSUME TravInv, Return
  PROVE  TravInv'
  <1>1. /\ job' = job /\ work' = work /\ pending' = pending /\ answer' = Ok(work)
        /\ pending = {} /\ answer = NoAnswer
    BY DEF Return
  <1>2. Treated' = Treated
    BY <1>1 DEF Treated
  <1>3. Called'
    BY <1>1, InCall DEF Called
  <1>4. LoopInv'
    BY <1>1, <1>2, Answers, Zenon DEF TravInv, LoopInv
  <1> QED
    BY <1>3, <1>4 DEF TravInv

----------------------------------------------------------------------------
(* The resolver: the strings it writes and the calls it makes.             *)

\* format!("{prefix}[]") has one more "[]" at its end.
LEMMA BracketedFacts ==
  ASSUME NEW w \in Strings
  PROVE  /\ Bracketed(w) \in Strings /\ Len(Bracketed(w)) = Len(w)
         /\ Bracketed(w)[Len(w)] = Part(w[Len(w)].text, w[Len(w)].brackets + 1)
         /\ \A i \in 1..(Len(w) - 1) : Bracketed(w)[i] = w[i]
  <1> DEFINE n == Len(w)
             v == Part(w[n].text, w[n].brackets + 1)
  <1>1. Bracketed(w) = [w EXCEPT ![n] = v]
    BY DEF Bracketed
  <1>2. w \in Seq(Parts) /\ n \in 1..Len(w) /\ w[n] \in Parts
    BY StringFacts
  <1>3. v \in Parts
    BY <1>2 DEF Parts, Part
  <1> HIDE DEF v
  <1>4. [w EXCEPT ![n] = v] \in Seq(Parts) /\ Len([w EXCEPT ![n] = v]) = Len(w)
    BY <1>2, <1>3
  <1>5. Bracketed(w) # <<>>
    BY <1>1, <1>2, <1>4
  <1>6. Bracketed(w) \in Strings
    BY <1>1, <1>4, <1>5 DEF Strings, Parts
  <1>7. Bracketed(w)[n] = v /\ \A i \in 1..(n - 1) : Bracketed(w)[i] = w[i]
    BY <1>1, <1>2
  <1> QED
    BY <1>1, <1>4, <1>6, <1>7 DEF v

\* format!("{prefix}.{name}") is the parts of the prefix and then those of the name.
LEMMA DottedFacts ==
  ASSUME NEW w \in Strings, NEW n \in Strings
  PROVE  /\ Dotted(w, n) \in Strings
         /\ w = EmptyString => Dotted(w, n) = n
         /\ w # EmptyString =>
              /\ Len(Dotted(w, n)) = Len(w) + Len(n)
              /\ \A i \in 1..Len(w) : Dotted(w, n)[i] = w[i]
              /\ \A i \in 1..Len(n) : Dotted(w, n)[Len(w) + i] = n[i]
  <1>1. w \in Seq(Parts) /\ n \in Seq(Parts) /\ Len(w) \in Nat \ {0} /\ Len(n) \in Nat \ {0}
    BY StringFacts
  <1>2. /\ w \o n \in Seq(Parts) /\ Len(w \o n) = Len(w) + Len(n)
        /\ \A i \in 1..Len(w) : (w \o n)[i] = w[i]
        /\ \A i \in 1..Len(n) : (w \o n)[Len(w) + i] = n[i]
    BY <1>1
  <1>3. w \o n \in Strings
    BY <1>1, <1>2 DEF Strings, Parts
  <1> QED
    BY <1>2, <1>3 DEF Dotted

\* A sequence of one element.
LEMMA Singleton ==
  ASSUME NEW S, NEW e \in S
  PROVE  <<e>> \in Seq(S) /\ Len(<<e>>) = 1 /\ <<e>>[1] = e /\ <<e>> # <<>>
  OBVIOUS

\* The same, the other way round.
LEMMA OfLengthOne ==
  ASSUME NEW S, NEW q \in Seq(S), Len(q) = 1
  PROVE  q = <<q[1]>> /\ q[1] \in S
  <1>1. q[1] \in S
    OBVIOUS
  <1>2. q = [i \in 1..1 |-> q[i]]
    OBVIOUS
  <1>3. [i \in 1..1 |-> q[i]] = <<q[1]>>
    OBVIOUS
  <1> QED
    BY <1>1, <1>2, <1>3, Zenon

\* The prefix "" that resolve_pii_paths begins with.
LEMMA EmptyStringFacts ==
  EmptyString \in Strings /\ Len(EmptyString) = 1 /\ EmptyString[1] = Part("", 0)
  <1>1. Part("", 0) \in Parts
    BY ApiConstants, Zenon DEF Part, Parts
  <1>2. /\ <<Part("", 0)>> \in Seq(Parts) /\ <<Part("", 0)>> # <<>>
        /\ Len(<<Part("", 0)>>) = 1 /\ <<Part("", 0)>>[1] = Part("", 0)
    BY <1>1, Singleton, Zenon
  <1> QED
    BY <1>2, Zenon DEF EmptyString, Name, Strings, Parts

\* What a call of walk_schema calls in turn.
LEMMA CallsAre ==
  ASSUME NEW api, NEW s, NEW w, NEW t, NEW v
  PROVE  <<t, v>> \in Calls(api, s, w) <=>
           \/ t \in Items(api, s) /\ v = Bracketed(w)
           \/ \E n \in DOMAIN api.schemas[s].props : t \in Property(api, s, n) /\ v = Dotted(w, n)
  <1> DEFINE B == {<<u, Bracketed(w)>> : u \in Items(api, s)}
             D(n) == {<<u, Dotted(w, n)>> : u \in Property(api, s, n)}
             N == DOMAIN api.schemas[s].props
  <1>1. Calls(api, s, w) = B \cup UNION {D(n) : n \in N}
    BY Zenon DEF Calls
  <1>2. <<t, v>> \in B <=> t \in Items(api, s) /\ v = Bracketed(w)
    OBVIOUS
  <1>3. \A n : <<t, v>> \in D(n) <=> t \in Property(api, s, n) /\ v = Dotted(w, n)
    OBVIOUS
  <1> HIDE DEF B, D, N
  <1>4. <<t, v>> \in UNION {D(n) : n \in N} <=> \E n \in N : <<t, v>> \in D(n)
    BY Zenon
  <1> QED
    BY <1>1, <1>2, <1>3, <1>4 DEF N

\* A reference and an inline schema lead to schemas of the document (resolve_ref).
LEMMA BelowAreSchemas ==
  ASSUME NEW api, NEW s, NEW n
  PROVE  Items(api, s) \subseteq DOMAIN api.schemas /\ Property(api, s, n) \subseteq DOMAIN api.schemas
  BY DEF Items, Property, Resolved

\* The calls are pairs of a schema of the document and a string.
LEMMA CallsTyped ==
  ASSUME NEW d \in Docs, NEW s \in DOMAIN Api[d].schemas, NEW w \in Strings
  PROVE  Calls(Api[d], s, w) \subseteq (DOMAIN Api[d].schemas) \X Strings
  <1>1. \A n \in DOMAIN Api[d].schemas[s].props : n \in Strings
    BY ApiConstants, Zenon
  <1>2. Bracketed(w) \in Strings
    BY BracketedFacts
  <1>3. \A n \in DOMAIN Api[d].schemas[s].props : Dotted(w, n) \in Strings
    BY <1>1, DottedFacts
  <1> QED
    BY <1>2, <1>3, BelowAreSchemas DEF Calls
----------------------------------------------------------------------------
(* No marked schema that a path can express is missed.                     *)

Hops == [key : Strings \cup {NoKey}, items : Nat]

\* The string for the first i hops of x, and for the key of the last one alone.
Upto(x, i) ==
  IF i = 0 THEN EmptyString ELSE [k \in 1..i |-> Part(x[k].key[1].text, x[k].items)]
Mid(x, i) == [k \in 1..i |-> Part(x[k].key[1].text, IF k = i THEN 0 ELSE x[k].items)]

\* The schemas c describe the segments x, and the last one is marked.
MarkedAlong(d, c, x) ==
  /\ x \in Seq(Hops) /\ x # <<>> /\ Expressible(x)
  /\ c \in [0..Len(x) -> DOMAIN Api[d].schemas]
  /\ Describes(Api[d], c, x) /\ Api[d].schemas[c[Len(x)]].pii

\* walk_schema is still to be called before hop i, or between its key and its item.
Waits(d, c, x, i) ==
  \/ <<c[i - 1], Upto(x, i - 1)>> \in todo[d]
  \/ /\ x[i].items = 1
     /\ \E k \in Property(Api[d], c[i - 1], x[i].key) :
          c[i] \in Items(Api[d], k) /\ <<k, Mid(x, i)>> \in todo[d]

Complete ==
  \A d \in Docs : \A c, x :
    MarkedAlong(d, c, x) =>
      Upto(x, Len(x)) \in paths[d] \/ \E i \in 1..Len(x) : Waits(d, c, x, i)

\* A plain name is one part with text.
LEMMA PlainNameIs ==
  ASSUME NEW n \in Strings \cup {NoKey}, PlainName(n)
  PROVE  n \in Strings /\ n # NoKey /\ Len(n) = 1 /\ n[1] = Part(n[1].text, 0)
         /\ n[1].text \in Texts \ {""}
  <1>1. n # NoKey /\ n \in Strings /\ Len(n) = 1
    <2>1. Len(NoKey) = 0
      BY DEF NoKey
    <2>2. Len(n) = 1
      BY Zenon DEF PlainName
    <2>3. n # NoKey
      BY <2>1, <2>2
    <2> QED
      BY <2>2, <2>3, Zenon
  <1>2. n[1] \in Parts /\ n[1] = Part(n[1].text, n[1].brackets)
    BY <1>1, StringFacts
  <1>3. n[1].text \in Texts
    BY <1>2, SMTT(30) DEF Parts
  <1> QED
    BY <1>1, <1>2, <1>3, Zenon DEF PlainName

\* What expressible segments consist of.
LEMMA ExpressibleHops ==
  ASSUME NEW x \in Seq(Hops), Expressible(x), NEW i \in 1..Len(x)
  PROVE  /\ x[i].key \in Strings /\ x[i].key # NoKey /\ Len(x[i].key) = 1
         /\ x[i].key[1] = Part(x[i].key[1].text, 0)
         /\ x[i].key[1].text \in Texts \ {""}
         /\ x[i].items \in {0, 1}
         /\ x[i] = [key |-> x[i].key, items |-> x[i].items]
  <1>1. x[i] \in Hops
    OBVIOUS
  <1>2. PlainName(x[i].key) /\ x[i].items \in {0, 1}
    BY DEF Expressible
  <1>3. x[i].key \in Strings \cup {NoKey} /\ x[i] = [key |-> x[i].key, items |-> x[i].items]
    BY <1>1 DEF Hops
  <1> QED
    BY <1>2, <1>3, PlainNameIs, Zenon

\* The prefixes are strings.
LEMMA UptoTyped ==
  ASSUME NEW x \in Seq(Hops), Expressible(x), NEW i \in 0..Len(x)
  PROVE  Upto(x, i) \in Strings /\ (i > 0 => Upto(x, i) # EmptyString /\ Len(Upto(x, i)) = i)
  <1>1. CASE i = 0
    <2>1. Upto(x, i) = EmptyString /\ ~(i > 0)
      BY <1>1 DEF Upto
    <2> QED
      BY <2>1, EmptyStringFacts, Zenon
  <1>2. CASE i > 0
    <2> DEFINE u == [k \in 1..i |-> Part(x[k].key[1].text, x[k].items)]
    <2>1. ASSUME NEW k \in 1..i PROVE Part(x[k].key[1].text, x[k].items) \in Parts
      <3>1. k \in 1..Len(x)
        OBVIOUS
      <3>2. x[k].key[1].text \in Texts /\ x[k].items \in {0, 1}
        BY <3>1, ExpressibleHops, Zenon
      <3> QED
        BY <3>2 DEF Part, Parts
    <2>2. u \in [1..i -> Parts]
      BY <2>1
    <2>3. u \in Seq(Parts) /\ Len(u) = i
      BY <2>2, <1>2
    <2>4. u[1].text # ""
      <3>1. 1 \in 1..Len(x) /\ 1 \in 1..i
        BY <1>2
      <3>2. u[1] = Part(x[1].key[1].text, x[1].items)
        BY <3>1
      <3> QED
        BY <3>1, <3>2, ExpressibleHops, Zenon DEF Part
    <2>5. u # EmptyString
      <3>1. EmptyString[1].text = ""
        <4>1. Part("", 0).text = ""
          BY DEF Part
        <4> QED
          BY <4>1, EmptyStringFacts, Zenon
      <3> QED
        BY <2>4, <3>1, Zenon
    <2>6. u # <<>>
      BY <1>2, <2>3
    <2>7. Upto(x, i) = u
      BY <1>2 DEF Upto
    <2> HIDE DEF u
    <2> QED
      BY <1>2, <2>3, <2>5, <2>6, <2>7 DEF Strings, Parts
  <1> QED
    BY <1>1, <1>2

\* A property's path is its parent's path and its own name (path in walk_schema).
LEMMA MidIsDotted ==
  ASSUME NEW x \in Seq(Hops), Expressible(x), NEW i \in 1..Len(x)
  PROVE  Dotted(Upto(x, i - 1), x[i].key) = Mid(x, i) /\ Mid(x, i) \in Strings
  <1> DEFINE w == Upto(x, i - 1)
             n == x[i].key
  <1>1. w \in Strings /\ n \in Strings /\ Len(n) = 1 /\ n[1] = Part(n[1].text, 0)
    <2>1. i - 1 \in 0..Len(x)
      OBVIOUS
    <2> QED
      BY <2>1, UptoTyped, ExpressibleHops, Zenon
  <1> HIDE DEF w, n
  <1>2. Dotted(w, n) \in Strings
    BY <1>1, DottedFacts
  <1>3. DOMAIN Mid(x, i) = 1..i
    BY DEF Mid
  <1>4. CASE i = 1
    <2>1. w = EmptyString
      BY <1>4 DEF Upto, w
    <2>2. Dotted(w, n) = n
      BY <1>1, <2>1, DottedFacts
    <2>3. n \in Seq(Parts)
      BY <1>1, StringFacts
    <2>4. n = <<Part(n[1].text, 0)>>
      BY <1>1, <2>3
    <2>5. Mid(x, i) = <<Part(n[1].text, 0)>>
      BY <1>4 DEF Mid, n
    <2> QED
      BY <1>2, <2>2, <2>4, <2>5 DEF w, n
  <1>5. CASE i > 1
    <2>1. w # EmptyString /\ Len(w) = i - 1
      BY <1>5, UptoTyped DEF w
    <2>2. /\ Len(Dotted(w, n)) = i
          /\ \A k \in 1..(i - 1) : Dotted(w, n)[k] = w[k]
          /\ Dotted(w, n)[i] = n[1]
      <3>1. /\ Len(Dotted(w, n)) = Len(w) + Len(n)
            /\ \A k \in 1..Len(w) : Dotted(w, n)[k] = w[k]
            /\ \A k \in 1..Len(n) : Dotted(w, n)[Len(w) + k] = n[k]
        BY <1>1, <2>1, DottedFacts, Zenon
      <3>2. 1 \in 1..Len(n) /\ Len(w) + 1 = i /\ Len(w) + Len(n) = i
        BY <1>1, <2>1
      <3> QED
        BY <2>1, <3>1, <3>2, Zenon
    <2>3. DOMAIN Dotted(w, n) = 1..i
      BY <1>2, <2>2, StringFacts
    <2>4. \A k \in 1..(i - 1) : w[k] = Part(x[k].key[1].text, x[k].items)
      BY <1>5 DEF Upto, w
    <2>5. \A k \in 1..i : Dotted(w, n)[k] = Mid(x, i)[k]
      BY <1>1, <2>2, <2>4 DEF Mid, n
    <2>6. Dotted(w, n) \in Seq(Parts)
      BY <1>2, StringFacts
    <2> QED
      BY <1>2, <1>3, <2>3, <2>5, <2>6 DEF Mid, w, n
  <1> QED
    BY <1>4, <1>5

\* An array's items have the path of the array with "[]" (array_path in walk_schema).
LEMMA UptoIsMid ==
  ASSUME NEW x \in Seq(Hops), Expressible(x), NEW i \in 1..Len(x)
  PROVE  /\ x[i].items = 0 => Upto(x, i) = Mid(x, i)
         /\ x[i].items = 1 => Upto(x, i) = Bracketed(Mid(x, i))
  <1>1. x[i].items = 0 => Upto(x, i) = Mid(x, i)
    BY SMTT(30) DEF Upto, Mid
  <1>2. ASSUME x[i].items = 1 PROVE Upto(x, i) = Bracketed(Mid(x, i))
    <2>1. Mid(x, i) \in Strings /\ Len(Mid(x, i)) = i
      BY MidIsDotted DEF Mid
    <2>2. Mid(x, i)[i] = Part(x[i].key[1].text, 0)
      BY DEF Mid
    <2>3. Bracketed(Mid(x, i)) = [Mid(x, i) EXCEPT ![i] = Part(x[i].key[1].text, 1)]
      BY <2>1, <2>2 DEF Bracketed, Part
    <2> DEFINE word(k) == Part(x[k].key[1].text, x[k].items)
    <2>4. Upto(x, i) = [k \in 1..i |-> word(k)]
      BY DEF Upto
    <2>5. DOMAIN Mid(x, i) = 1..i /\ word(i) = Part(x[i].key[1].text, 1)
      BY <1>2 DEF Mid
    <2>6. \A k \in 1..i : k # i => Mid(x, i)[k] = word(k)
      BY DEF Mid
    <2> HIDE DEF word
    <2>7. [Mid(x, i) EXCEPT ![i] = word(i)] = [k \in 1..i |-> word(k)]
      BY <2>5, <2>6, Zenon
    <2> QED
      BY <2>3, <2>4, <2>5, <2>7
  <1> QED
    BY <1>1, <1>2

\* parse_path reads back what the resolver wrote.
LEMMA ParseUpto ==
  ASSUME NEW x \in Seq(Hops), Expressible(x), x # <<>>
  PROVE  parse_path(Upto(x, Len(x))) = x
  <1>1. Len(x) > 0 /\ x = [k \in 1..Len(x) |-> x[k]]
    OBVIOUS
  <1>2. Upto(x, Len(x)) = [k \in 1..Len(x) |-> Part(x[k].key[1].text, x[k].items)]
    BY <1>1 DEF Upto
  <1>3. ASSUME NEW k \in 1..Len(x)
        PROVE  Segments(Part(x[k].key[1].text, x[k].items)) = x[k]
    <2>1. /\ x[k].items \in {0, 1} /\ x[k] = [key |-> x[k].key, items |-> x[k].items]
          /\ x[k].key \in Seq(Parts) /\ Len(x[k].key) = 1
          /\ x[k].key[1] = Part(x[k].key[1].text, 0)
      BY ExpressibleHops, StringFacts, Zenon
    <2>2. x[k].key = <<Part(x[k].key[1].text, 0)>>
      BY <2>1
    <2> QED
      BY <2>1, <2>2 DEF Segments, Part
  <1> QED
    BY <1>1, <1>2, <1>3 DEF parse_path

\* Through no array, and through one.
LEMMA DownIs ==
  ASSUME NEW api, NEW k \in DOMAIN api.schemas, NEW t
  PROVE  /\ Down(api, k, 0, t) <=> t = k
         /\ Down(api, k, 1, t) <=> t \in Items(api, k)
  <1>1. ASSUME t = k PROVE Down(api, k, 0, t)
    <2> DEFINE m == [j \in 0..0 |-> k]
    <2>1. m \in [0..0 -> DOMAIN api.schemas] /\ m[0] = k /\ \A j \in 1..0 : m[j] \in Items(api, m[j - 1])
      OBVIOUS
    <2> QED
      BY <1>1, <2>1, Zenon DEF Down
  <1>2. ASSUME t \in Items(api, k) PROVE Down(api, k, 1, t)
    <2> DEFINE m == [j \in 0..1 |-> IF j = 0 THEN k ELSE t]
    <2>1. t \in DOMAIN api.schemas
      BY <1>2, BelowAreSchemas, Zenon
    <2>2. m \in [0..1 -> DOMAIN api.schemas] /\ m[0] = k /\ m[1] = t
      BY <2>1
    <2>3. \A j \in 1..1 : j = 1 /\ j - 1 = 0
      OBVIOUS
    <2>4. \A j \in 1..1 : m[j] \in Items(api, m[j - 1])
      BY <1>2, <2>2, <2>3, Zenon
    <2> QED
      BY <2>2, <2>4, Zenon DEF Down
  <1>3. Down(api, k, 0, t) => t = k
    BY DEF Down
  <1>4. ASSUME Down(api, k, 1, t) PROVE t \in Items(api, k)
    <2>1. PICK m : m[0] = k /\ m[1] = t /\ \A j \in 1..1 : m[j] \in Items(api, m[j - 1])
      BY <1>4 DEF Down
    <2>2. 1 \in 1..1 /\ 1 - 1 = 0
      OBVIOUS
    <2> QED
      BY <2>1, <2>2
  <1> QED
    BY <1>1, <1>2, <1>3, <1>4

\* A hop along a key, and one that goes on to an item.
LEMMA HopIs ==
  ASSUME NEW api, NEW s, NEW hop, NEW t, hop.key # NoKey
  PROVE  /\ hop.items = 0 => (Hop(api, s, hop, t) <=> t \in Property(api, s, hop.key))
         /\ hop.items = 1 =>
              (Hop(api, s, hop, t) <=> \E k \in Property(api, s, hop.key) : t \in Items(api, k))
  <1>1. Hop(api, s, hop, t) <=> \E k \in Property(api, s, hop.key) : Down(api, k, hop.items, t)
    BY Zenon DEF Hop
  <1>2. \A k \in Property(api, s, hop.key) : k \in DOMAIN api.schemas
    BY BelowAreSchemas
  <1>3. \A k \in Property(api, s, hop.key) :
          (Down(api, k, 0, t) <=> t = k) /\ (Down(api, k, 1, t) <=> t \in Items(api, k))
    BY <1>2, DownIs
  <1> QED
    BY <1>1, <1>3

\* A property is one of those that walk_schema iterates over.
LEMMA CallForProperty ==
  ASSUME NEW api, NEW s, NEW w, NEW n, NEW t \in Property(api, s, n)
  PROVE  <<t, Dotted(w, n)>> \in Calls(api, s, w)
  <1>1. n \in DOMAIN api.schemas[s].props
    BY DEF Property
  <1> QED
    BY <1>1, CallsAre

\* Along a hop, walk_schema calls itself for the next schema, once or in two steps.
LEMMA NextCall ==
  ASSUME NEW d \in Docs, NEW c, NEW x, MarkedAlong(d, c, x), NEW i \in 1..Len(x)
  PROVE  /\ x[i].items \in {0, 1}
         /\ x[i].items = 0 => <<c[i], Upto(x, i)>> \in Calls(Api[d], c[i - 1], Upto(x, i - 1))
         /\ x[i].items = 1 =>
              /\ \E k \in Property(Api[d], c[i - 1], x[i].key) :
                   c[i] \in Items(Api[d], k) /\ <<k, Mid(x, i)>> \in Calls(Api[d], c[i - 1], Upto(x, i - 1))
              /\ \A k : c[i] \in Items(Api[d], k) =>
                   <<c[i], Upto(x, i)>> \in Calls(Api[d], k, Mid(x, i))
  <1>1. x \in Seq(Hops) /\ Expressible(x) /\ Hop(Api[d], c[i - 1], x[i], c[i])
    BY DEF MarkedAlong, Describes
  <1>2. x[i].items \in {0, 1} /\ x[i].key # NoKey
    BY <1>1, ExpressibleHops, Zenon
  <1>3. Dotted(Upto(x, i - 1), x[i].key) = Mid(x, i)
    BY <1>1, MidIsDotted, Zenon
  <1>4. ASSUME x[i].items = 0
        PROVE  <<c[i], Upto(x, i)>> \in Calls(Api[d], c[i - 1], Upto(x, i - 1))
    <2>1. c[i] \in Property(Api[d], c[i - 1], x[i].key)
      BY <1>1, <1>2, <1>4, HopIs, Zenon
    <2>2. Upto(x, i) = Mid(x, i)
      BY <1>1, <1>4, UptoIsMid, Zenon
    <2> QED
      BY <1>3, <2>1, <2>2, CallForProperty, Zenon
  <1>5. ASSUME x[i].items = 1
        PROVE  \E k \in Property(Api[d], c[i - 1], x[i].key) :
                 c[i] \in Items(Api[d], k) /\ <<k, Mid(x, i)>> \in Calls(Api[d], c[i - 1], Upto(x, i - 1))
    <2>1. PICK k \in Property(Api[d], c[i - 1], x[i].key) : c[i] \in Items(Api[d], k)
      BY <1>1, <1>2, <1>5, HopIs, Zenon
    <2>2. <<k, Mid(x, i)>> \in Calls(Api[d], c[i - 1], Upto(x, i - 1))
      BY <1>3, <2>1, CallForProperty, Zenon
    <2> QED
      BY <2>1, <2>2
  <1>6. ASSUME x[i].items = 1, NEW k, c[i] \in Items(Api[d], k)
        PROVE  <<c[i], Upto(x, i)>> \in Calls(Api[d], k, Mid(x, i))
    <2>1. Upto(x, i) = Bracketed(Mid(x, i))
      BY <1>1, <1>6, UptoIsMid, Zenon
    <2> QED
      BY <1>6, <2>1, CallsAre, Zenon
  <1> QED
    BY <1>2, <1>4, <1>5, <1>6, Zenon

\* A call of walk_schema takes itself off the calls to make, adds those it makes
\* and inserts their paths if they are PII.
LEMMA WalkDoes ==
  ASSUME TypeOK, NEW d \in Docs, NEW s, NEW w, walk_schema(d, s, w)
  PROVE  /\ <<s, w>> \in todo[d] /\ s \in DOMAIN Api[d].schemas /\ w \in Strings
         /\ todo' = [e \in Docs |-> IF e = d THEN (todo[d] \ {<<s, w>>}) \cup Calls(Api[d], s, w) ELSE todo[e]]
         /\ \A e \in Docs : e # d => todo'[e] = todo[e] /\ paths'[e] = paths[e]
         /\ todo'[d] = (todo[d] \ {<<s, w>>}) \cup Calls(Api[d], s, w)
         /\ DOMAIN paths' = Docs
         /\ \A v : v \in paths'[d] <=>
              v \in paths[d] \/ \E t : <<t, v>> \in Calls(Api[d], s, w) /\ Api[d].schemas[t].pii
         /\ UNCHANGED callVars
  <1> DEFINE calls == Calls(Api[d], s, w)
             new == {q[2] : q \in {q \in calls : Api[d].schemas[q[1]].pii}}
  <1>1. <<s, w>> \in todo[d] /\ UNCHANGED callVars
    BY DEF walk_schema
  <1>2. <<s, w>> \in (DOMAIN Api[d].schemas) \X Strings
    BY <1>1 DEF TypeOK
  <1>3. s \in DOMAIN Api[d].schemas /\ w \in Strings
    BY <1>2
  <1>4. todo' = [todo EXCEPT ![d] = (todo[d] \ {<<s, w>>}) \cup calls]
    BY DEF walk_schema
  <1>5. paths' = [paths EXCEPT ![d] = paths[d] \cup new]
    BY DEF walk_schema
  <1>6. DOMAIN todo = Docs /\ todo = [e \in Docs |-> todo[e]] /\ paths \in [Docs -> SUBSET Strings]
    BY DEF TypeOK
  <1>7. calls \subseteq (DOMAIN Api[d].schemas) \X Strings
    BY <1>3, CallsTyped
  <1> HIDE DEF calls
  <1>8. \A v : v \in new <=> \E t : <<t, v>> \in calls /\ Api[d].schemas[t].pii
    <2>1. ASSUME NEW v \in new PROVE \E t : <<t, v>> \in calls /\ Api[d].schemas[t].pii
      <3>1. PICK q \in calls : Api[d].schemas[q[1]].pii /\ v = q[2]
        OBVIOUS
      <3>2. q = <<q[1], q[2]>>
        BY <1>7
      <3> QED
        BY <3>1, <3>2, Zenon
    <2>2. ASSUME NEW v, NEW t, <<t, v>> \in calls, Api[d].schemas[t].pii PROVE v \in new
      <3>1. <<t, v>>[1] = t /\ <<t, v>>[2] = v
        OBVIOUS
      <3> QED
        BY <2>2, <3>1, Zenon
    <2> QED
      BY <2>1, <2>2, Zenon
  <1> HIDE DEF new
  <1>9. todo' = [e \in Docs |-> IF e = d THEN (todo[d] \ {<<s, w>>}) \cup calls ELSE todo[e]]
    BY <1>4, <1>6, Zenon
  <1>10. \A e \in Docs : e # d => todo'[e] = todo[e] /\ paths'[e] = paths[e]
    BY <1>5, <1>6, <1>9
  <1>11. todo'[d] = (todo[d] \ {<<s, w>>}) \cup calls
    BY <1>9
  <1>12. DOMAIN paths' = Docs /\ paths'[d] = paths[d] \cup new
    BY <1>5, <1>6
  <1> QED
    BY <1>1, <1>3, <1>8, <1>9, <1>10, <1>11, <1>12, Zenon DEF calls

\* Before the walk every root is to be visited.
LEMMA InitComplete == Init => Complete
  <1> SUFFICES ASSUME Init, NEW d \in Docs, NEW c, NEW x, MarkedAlong(d, c, x)
               PROVE  \E i \in 1..Len(x) : Waits(d, c, x, i)
    BY DEF Complete
  <1>1. x \in Seq(Hops) /\ x # <<>> /\ c[0] \in Roots(Api[d])
    BY DEF MarkedAlong, Describes
  <1>2. 1 \in 1..Len(x) /\ 1 - 1 = 0
    BY <1>1
  <1>3. <<c[0], EmptyString>> \in todo[d]
    BY <1>1 DEF Init
  <1>4. Upto(x, 0) = EmptyString
    BY DEF Upto
  <1> QED
    BY <1>2, <1>3, <1>4, Zenon DEF Waits

\* walk_schema misses no marked schema: what it does not insert itself it leaves to
\* a call that is to be made.
LEMMA WalkComplete ==
  ASSUME TypeOK, Complete, NEW d \in Docs, NEW s, NEW w, walk_schema(d, s, w)
  PROVE  Complete'
  <1> SUFFICES ASSUME NEW e \in Docs, NEW c, NEW x, MarkedAlong(e, c, x)
               PROVE  Upto(x, Len(x)) \in paths'[e] \/ \E i \in 1..Len(x) : Waits(e, c, x, i)'
    BY SMTT(30) DEF Complete, MarkedAlong
  <1>1. Upto(x, Len(x)) \in paths[e] \/ \E i \in 1..Len(x) : Waits(e, c, x, i)
    BY DEF Complete
  <1>2. CASE e # d
    <2>1. todo'[e] = todo[e] /\ paths'[e] = paths[e]
      BY <1>2, WalkDoes, Zenon
    <2> QED
      BY <1>1, <2>1, Zenon DEF Waits
  <1>3. CASE e = d /\ Upto(x, Len(x)) \in paths[e]
    BY <1>3, WalkDoes, Zenon
  <1>4. ASSUME e = d, NEW i \in 1..Len(x), Waits(e, c, x, i)
        PROVE  Upto(x, Len(x)) \in paths'[e] \/ \E j \in 1..Len(x) : Waits(e, c, x, j)'
    <2> DEFINE calls == Calls(Api[e], s, w)
    <2>1. todo'[e] = (todo[e] \ {<<s, w>>}) \cup calls
      BY <1>4, WalkDoes, ZenonT(40)
    <2>2. /\ x \in Seq(Hops) /\ x # <<>> /\ c \in [0..Len(x) -> DOMAIN Api[e].schemas]
          /\ Api[e].schemas[c[Len(x)]].pii
      BY DEF MarkedAlong
    <2>3. ASSUME <<c[i], Upto(x, i)>> \in calls
          PROVE  Upto(x, Len(x)) \in paths'[e] \/ \E j \in 1..Len(x) : Waits(e, c, x, j)'
      <3>1. CASE i = Len(x)
        BY <1>4, <2>2, <2>3, <3>1, WalkDoes, Zenon
      <3>2. CASE i # Len(x)
        <4>1. i + 1 \in 1..Len(x) /\ (i + 1) - 1 = i
          BY <2>2, <3>2, SMTT(30)
        <4>2. <<c[i], Upto(x, i)>> \in todo'[e]
          BY <2>1, <2>3, SMTT(30)
        <4>3. Waits(e, c, x, i + 1)'
          BY <4>1, <4>2, SMTT(30) DEF Waits
        <4> QED
          BY <4>1, <4>3
      <3> QED
        BY <3>1, <3>2
    <2>4. CASE <<c[i - 1], Upto(x, i - 1)>> \in todo[e]
      <3>1. CASE <<c[i - 1], Upto(x, i - 1)>> # <<s, w>>
        BY <2>1, <2>4, <3>1, SMTT(30) DEF Waits
      <3>2. CASE c[i - 1] = s /\ Upto(x, i - 1) = w
        <4>1. CASE x[i].items = 0
          BY <2>3, <3>2, <4>1, NextCall
        <4>2. CASE x[i].items = 1
          <5>1. PICK k \in Property(Api[e], c[i - 1], x[i].key) :
                  c[i] \in Items(Api[e], k) /\ <<k, Mid(x, i)>> \in calls
            BY <3>2, <4>2, NextCall, Zenon
          <5>2. <<k, Mid(x, i)>> \in todo'[e]
            BY <2>1, <5>1
          <5> QED
            BY <4>2, <5>1, <5>2, Zenon DEF Waits
        <4> QED
          BY <4>1, <4>2, NextCall, Zenon
      <3> QED
        BY <3>1, <3>2, SMTT(30)
    <2>5. CASE x[i].items = 1 /\ \E k \in Property(Api[e], c[i - 1], x[i].key) :
                 c[i] \in Items(Api[e], k) /\ <<k, Mid(x, i)>> \in todo[e]
      <3>1. PICK k \in Property(Api[e], c[i - 1], x[i].key) :
              c[i] \in Items(Api[e], k) /\ <<k, Mid(x, i)>> \in todo[e]
        BY <2>5, SMTT(30)
      <3>2. CASE <<k, Mid(x, i)>> # <<s, w>>
        BY <2>1, <2>5, <3>1, <3>2, Zenon DEF Waits
      <3>3. CASE k = s /\ Mid(x, i) = w
        BY <2>3, <2>5, <3>1, <3>3, NextCall, Zenon
      <3> QED
        BY <3>2, <3>3
    <2> QED
      BY <1>4, <2>4, <2>5, Zenon DEF Waits
  <1> QED
    BY <1>1, <1>2, <1>3, <1>4, SMTT(30)

\* Completeness is of the calls to make and of the paths only.
LEMMA CompleteKept ==
  ASSUME Complete, todo' = todo, paths' = paths
  PROVE  Complete'
  <1> SUFFICES ASSUME NEW d \in Docs, NEW c, NEW x, MarkedAlong(d, c, x)
               PROVE  Upto(x, Len(x)) \in paths'[d] \/ \E i \in 1..Len(x) : Waits(d, c, x, i)'
    BY DEF Complete, MarkedAlong
  <1>1. Upto(x, Len(x)) \in paths[d] \/ \E i \in 1..Len(x) : Waits(d, c, x, i)
    BY DEF Complete
  <1> QED
    BY <1>1, Zenon DEF Waits
----------------------------------------------------------------------------
(* No path is written that leads to an unmarked leaf.                      *)

\* Strings that stand for expressible segments.
Simple(w) == \A i \in 1..Len(w) : w[i].text # "" /\ w[i].brackets \in {0, 1}

\* Schemas from a root to s describe the segments of w.
LeadsTo(d, w, s) ==
  \E c \in [0..Len(w) -> DOMAIN Api[d].schemas] :
    Describes(Api[d], c, parse_path(w)) /\ c[Len(w)] = s

SoundCall(d, s, w) ==
  IF w = EmptyString THEN s \in Roots(Api[d]) ELSE Simple(w) => LeadsTo(d, w, s)

Sound ==
  \A d \in Docs : PlainDocument(Api[d]) =>
    /\ \A s, w : <<s, w>> \in todo[d] => SoundCall(d, s, w)
    /\ \A w \in paths[d] : Simple(w) => MarkedBy(Api[d], parse_path(w))

\* The segments of a string, one hop for each part.
LEMMA ParseFacts ==
  ASSUME NEW w \in Strings
  PROVE  /\ Len(parse_path(w)) = Len(w) /\ parse_path(w) # <<>>
         /\ \A i \in 1..Len(w) : parse_path(w)[i] = Segments(w[i])
  <1>1. DOMAIN w = 1..Len(w) /\ Len(w) \in Nat \ {0}
    BY StringFacts
  <1>2. parse_path(w) = [i \in 1..Len(w) |-> Segments(w[i])]
    BY <1>1 DEF parse_path
  <1> QED
    BY <1>1, <1>2

\* The hop of a part with text and at most one "[]".
LEMMA SimpleSegments ==
  ASSUME NEW u \in Parts
  PROVE  /\ u.brackets = 0 => Segments(u) = [key |-> <<u>>, items |-> 0]
         /\ u.brackets = 1 => Segments(u) = [key |-> <<Part(u.text, 0)>>, items |-> 1]
  BY DEF Segments, Parts

\* A string of one part is the key that is read from it.
LEMMA NameIsKey ==
  ASSUME NEW n \in Strings, PlainName(n)
  PROVE  Segments(n[1]) = [key |-> n, items |-> 0] /\ n # NoKey /\ Len(n) = 1 /\ n # EmptyString
  <1>1. n[1] = Part(n[1].text, 0) /\ Len(n) = 1 /\ n # NoKey /\ n[1].text # ""
    BY PlainNameIs, Zenon
  <1>2. n \in Seq(Parts)
    BY StringFacts
  <1>3. n = <<n[1]>> /\ n[1] \in Parts
    BY <1>1, <1>2, OfLengthOne, Zenon
  <1>4. n[1].brackets = 0
    BY Zenon DEF PlainName
  <1>5. Segments(n[1]) = [key |-> n, items |-> 0]
    BY <1>3, <1>4, SimpleSegments, Zenon
  <1>6. Part("", 0).text = ""
    BY DEF Part
  <1>7. n # EmptyString
    BY <1>1, <1>6, EmptyStringFacts, Zenon
  <1> QED
    BY <1>1, <1>5, <1>7, Zenon

\* The call for a property of a root.
LEMMA RootPropertySound ==
  ASSUME NEW d \in Docs, NEW s \in Roots(Api[d]), NEW n \in Strings, PlainName(n),
         NEW t \in Property(Api[d], s, n)
  PROVE  LeadsTo(d, n, t)
  <1> DEFINE c == [j \in 0..1 |-> IF j = 0 THEN s ELSE t]
  <1>1. s \in DOMAIN Api[d].schemas /\ t \in DOMAIN Api[d].schemas
    BY BelowAreSchemas DEF Roots
  <1>2. c \in [0..1 -> DOMAIN Api[d].schemas] /\ c[0] = s /\ c[1] = t
    BY <1>1
  <1> HIDE DEF c
  <1>3. Len(n) = 1 /\ n # NoKey /\ Segments(n[1]) = [key |-> n, items |-> 0]
    BY NameIsKey, Zenon
  <1>4. Len(parse_path(n)) = 1 /\ parse_path(n)[1] = [key |-> n, items |-> 0]
    BY <1>3, ParseFacts
  <1>5. Hop(Api[d], s, [key |-> n, items |-> 0], t)
    <2> DEFINE hop == [key |-> n, items |-> 0]
    <2>1. hop.key = n /\ hop.items = 0
      OBVIOUS
    <2> HIDE DEF hop
    <2>2. Hop(Api[d], s, hop, t)
      BY <1>3, <2>1, HopIs, Zenon
    <2> QED
      BY <2>2 DEF hop
  <1>6. \A i \in 1..1 : i = 1 /\ i - 1 = 0
    OBVIOUS
  <1>7. Describes(Api[d], c, parse_path(n))
    BY <1>2, <1>4, <1>5, <1>6, Zenon DEF Describes
  <1> QED
    BY <1>2, <1>3, <1>7, Zenon DEF LeadsTo

\* The call for a property further down.
LEMMA PropertySound ==
  ASSUME NEW d \in Docs, NEW w \in Strings, w # EmptyString, NEW s, LeadsTo(d, w, s),
         NEW n \in Strings, PlainName(n), NEW t \in Property(Api[d], s, n)
  PROVE  LeadsTo(d, Dotted(w, n), t)
  <1> DEFINE v == Dotted(w, n)
             L == Len(w)
  <1>1. PICK b \in [0..L -> DOMAIN Api[d].schemas] : Describes(Api[d], b, parse_path(w)) /\ b[L] = s
    BY DEF LeadsTo
  <1>2. Len(n) = 1 /\ n # NoKey /\ Segments(n[1]) = [key |-> n, items |-> 0]
    BY NameIsKey, Zenon
  <1>3. v \in Strings /\ Len(v) = L + 1 /\ v[L + 1] = n[1] /\ \A i \in 1..L : v[i] = w[i]
    <2>1. /\ Dotted(w, n) \in Strings /\ Len(Dotted(w, n)) = Len(w) + Len(n)
          /\ \A i \in 1..Len(w) : Dotted(w, n)[i] = w[i]
          /\ \A i \in 1..Len(n) : Dotted(w, n)[Len(w) + i] = n[i]
      BY DottedFacts, Zenon
    <2>2. 1 \in 1..Len(n)
      BY <1>2
    <2> QED
      BY <1>2, <2>1, <2>2, Zenon
  <1>4. L \in Nat \ {0}
    BY StringFacts
  <1>5. t \in DOMAIN Api[d].schemas
    BY BelowAreSchemas
  <1> DEFINE c == [j \in 0..(L + 1) |-> IF j = L + 1 THEN t ELSE b[j]]
  <1>6. c \in [0..(L + 1) -> DOMAIN Api[d].schemas] /\ c[L + 1] = t /\ \A i \in 0..L : c[i] = b[i]
    BY <1>1, <1>4, <1>5, SMTT(30)
  <1> HIDE DEF c, v, L
  <1>7. /\ Len(parse_path(v)) = L + 1 /\ Len(parse_path(w)) = L
        /\ \A i \in 1..L : parse_path(v)[i] = parse_path(w)[i]
        /\ parse_path(v)[L + 1] = [key |-> n, items |-> 0]
    <2>1. /\ Len(parse_path(v)) = L + 1
          /\ \A i \in 1..(L + 1) : parse_path(v)[i] = Segments(v[i])
      BY <1>3, ParseFacts
    <2>2. Len(parse_path(w)) = L /\ \A i \in 1..L : parse_path(w)[i] = Segments(w[i])
      BY ParseFacts DEF L
    <2>3. L + 1 \in 1..(L + 1) /\ 1..L \subseteq 1..(L + 1)
      BY <1>4
    <2>4. \A i \in 1..L : parse_path(v)[i] = parse_path(w)[i]
      BY <1>3, <2>1, <2>2, <2>3
    <2>5. parse_path(v)[L + 1] = [key |-> n, items |-> 0]
      BY <1>2, <1>3, <2>1, <2>3, Zenon
    <2> QED
      BY <2>1, <2>2, <2>4, <2>5
  <1>8. Hop(Api[d], s, [key |-> n, items |-> 0], t)
    <2> DEFINE hop == [key |-> n, items |-> 0]
    <2>1. hop.key = n /\ hop.items = 0
      OBVIOUS
    <2> HIDE DEF hop
    <2>2. Hop(Api[d], s, hop, t)
      BY <1>2, <2>1, HopIs, Zenon
    <2> QED
      BY <2>2 DEF hop
  <1>9. b[0] \in Roots(Api[d]) /\ \A i \in 1..L : Hop(Api[d], b[i - 1], parse_path(w)[i], b[i])
    BY <1>1, <1>7 DEF Describes
  <1>10. ASSUME NEW i \in 1..(L + 1) PROVE Hop(Api[d], c[i - 1], parse_path(v)[i], c[i])
    <2>1. CASE i = L + 1
      <3>1. i - 1 = L /\ L \in 0..L
        BY <1>4, <2>1
      <3> QED
        BY <1>1, <1>6, <1>7, <1>8, <2>1, <3>1, Zenon
    <2>2. CASE i # L + 1
      <3>1. i \in 1..L /\ i \in 0..L /\ i - 1 \in 0..L
        BY <1>4, <2>2
      <3> QED
        BY <1>6, <1>7, <1>9, <3>1, Zenon
    <2> QED
      BY <2>1, <2>2
  <1>11. c[0] \in Roots(Api[d])
    BY <1>4, <1>6, <1>9
  <1>12. Describes(Api[d], c, parse_path(v))
    BY <1>7, <1>10, <1>11, Zenon DEF Describes
  <1> QED
    BY <1>3, <1>6, <1>12, Zenon DEF LeadsTo, v

\* The call for the items of an array.
LEMMA ItemsSound ==
  ASSUME NEW d \in Docs, NEW w \in Strings, w[Len(w)].brackets = 0, NEW s, LeadsTo(d, w, s),
         NEW t \in Items(Api[d], s)
  PROVE  LeadsTo(d, Bracketed(w), t)
  <1> DEFINE v == Bracketed(w)
             L == Len(w)
             key == <<w[L]>>
  <1>1. PICK b \in [0..L -> DOMAIN Api[d].schemas] : Describes(Api[d], b, parse_path(w)) /\ b[L] = s
    BY SMTT(30) DEF LeadsTo
  <1>2. /\ v \in Strings /\ Len(v) = L /\ v[L] = Part(w[L].text, w[L].brackets + 1)
        /\ \A i \in 1..(L - 1) : v[i] = w[i]
    BY BracketedFacts
  <1>3. L \in Nat \ {0} /\ w[L] \in Parts /\ w[L] = Part(w[L].text, 0)
    <2>1. Len(w) \in Nat \ {0} /\ \A i \in 1..Len(w) : w[i] \in Parts /\ w[i] = Part(w[i].text, w[i].brackets)
      BY StringFacts, Zenon
    <2>2. Len(w) \in 1..Len(w)
      BY <2>1
    <2> QED
      BY <2>1, <2>2, Zenon
  <1>4. t \in DOMAIN Api[d].schemas
    BY BelowAreSchemas, Zenon
  <1> DEFINE c == [b EXCEPT ![L] = t]
  <1>5. c \in [0..L -> DOMAIN Api[d].schemas] /\ c[L] = t /\ \A i \in 0..(L - 1) : c[i] = b[i]
    BY <1>1, <1>3, <1>4
  <1>6. Segments(w[L]) = [key |-> key, items |-> 0]
    BY <1>3, SimpleSegments, Zenon
  <1>7. Segments(v[L]) = [key |-> key, items |-> 1]
    <2>1. v[L] = Part(w[L].text, 1)
      BY <1>2
    <2>2. v[L].text = w[L].text /\ v[L].brackets = 1
      BY <2>1 DEF Part
    <2>3. v[L] \in Parts
      BY <1>3, <2>1 DEF Part, Parts
    <2>4. Segments(v[L]) = [key |-> <<Part(v[L].text, 0)>>, items |-> 1]
      BY <2>2, <2>3, SimpleSegments, Zenon
    <2> QED
      BY <1>3, <2>2, <2>4, Zenon
  <1> HIDE DEF c, v, L
  <1>8. /\ Len(parse_path(v)) = L /\ Len(parse_path(w)) = L
        /\ \A i \in 1..(L - 1) : parse_path(v)[i] = parse_path(w)[i]
        /\ parse_path(v)[L] = [key |-> key, items |-> 1]
        /\ parse_path(w)[L] = [key |-> key, items |-> 0]
    <2>1. Len(parse_path(v)) = L /\ \A i \in 1..L : parse_path(v)[i] = Segments(v[i])
      BY <1>2, ParseFacts, SMTT(30)
    <2>2. Len(parse_path(w)) = L /\ \A i \in 1..L : parse_path(w)[i] = Segments(w[i])
      BY ParseFacts DEF L
    <2>3. L \in 1..L /\ 1..(L - 1) \subseteq 1..L
      BY <1>3, SMTT(30)
    <2>4. \A i \in 1..(L - 1) : parse_path(v)[i] = parse_path(w)[i]
      BY <1>2, <2>1, <2>2, <2>3
    <2>5. parse_path(v)[L] = Segments(v[L]) /\ parse_path(w)[L] = Segments(w[L])
      BY <2>1, <2>2, <2>3, Zenon
    <2> QED
      BY <1>6, <1>7, <2>1, <2>2, <2>4, <2>5, Zenon
  <1>9. b[0] \in Roots(Api[d]) /\ \A i \in 1..L : Hop(Api[d], b[i - 1], parse_path(w)[i], b[i])
    BY <1>1, <1>8, SMTT(30) DEF Describes
  <1>10. Hop(Api[d], b[L - 1], [key |-> key, items |-> 1], t)
    <2> DEFINE h0 == [key |-> key, items |-> 0]
               h1 == [key |-> key, items |-> 1]
    <2>1. h0.key = key /\ h0.items = 0 /\ h1.key = key /\ h1.items = 1
      OBVIOUS
    <2>2. key # NoKey
      BY DEF NoKey
    <2>3. L \in 1..L
      BY <1>3
    <2>4. Hop(Api[d], b[L - 1], h0, s)
      BY <1>1, <1>8, <1>9, <2>3, Zenon
    <2> HIDE DEF h0, h1, key
    <2>5. s \in Property(Api[d], b[L - 1], key)
      BY <2>1, <2>2, <2>4, HopIs, Zenon
    <2>6. Hop(Api[d], b[L - 1], h1, t)
      BY <2>1, <2>2, <2>5, HopIs, Zenon
    <2> QED
      BY <2>6, SMTT(30) DEF h1
  <1>11. ASSUME NEW i \in 1..L PROVE Hop(Api[d], c[i - 1], parse_path(v)[i], c[i])
    <2>1. i - 1 \in 0..(L - 1)
      BY <1>3
    <2>2. c[i - 1] = b[i - 1]
      BY <1>5, <2>1
    <2>3. CASE i = L
      BY <1>5, <1>8, <1>10, <2>2, <2>3, Zenon
    <2>4. CASE i # L
      <3>1. i \in 1..(L - 1) /\ i \in 0..(L - 1)
        BY <1>3, <2>4, SMTT(30)
      <3> QED
        BY <1>5, <1>8, <1>9, <2>2, <3>1, Zenon
    <2> QED
      BY <2>3, <2>4
  <1>12. c[0] \in Roots(Api[d])
    BY <1>3, <1>5, <1>9
  <1>13. Describes(Api[d], c, parse_path(v))
    BY <1>8, <1>11, <1>12, Zenon DEF Describes
  <1> QED
    BY <1>2, <1>5, <1>13, Zenon DEF LeadsTo, v

\* The prefixes of a simple string are simple.
LEMMA SimplePrefix ==
  ASSUME NEW w \in Strings
  PROVE  /\ Simple(Bracketed(w)) => Simple(w) /\ w # EmptyString /\ w[Len(w)].brackets = 0
         /\ Bracketed(w) # EmptyString
         /\ \A n \in Strings : w # EmptyString =>
              Dotted(w, n) # EmptyString /\ (Simple(Dotted(w, n)) => Simple(w))
  <1> DEFINE v == Bracketed(w)
             L == Len(w)
  <1>1. /\ v \in Strings /\ Len(v) = L /\ v[L] = Part(w[L].text, w[L].brackets + 1)
        /\ \A i \in 1..(L - 1) : v[i] = w[i]
    BY BracketedFacts
  <1>2. L \in Nat \ {0}
    BY StringFacts
  <1>3. w[L] \in Parts /\ w[L].brackets \in Nat
    BY <1>2, StringFacts DEF Parts
  <1>4. v[L].text = w[L].text /\ v[L].brackets = w[L].brackets + 1
    BY <1>1 DEF Part
  <1> HIDE DEF v, L
  <1>5. EmptyString[1].text = "" /\ EmptyString[1].brackets = 0 /\ Len(EmptyString) = 1
    <2>1. Part("", 0).text = "" /\ Part("", 0).brackets = 0
      BY DEF Part
    <2> QED
      BY <2>1, EmptyStringFacts, Zenon
  <1>6. v # EmptyString
    <2> SUFFICES ASSUME v = EmptyString PROVE FALSE
      OBVIOUS
    <2>1. L = 1
      BY <1>1, <1>5, Zenon
    <2>2. w[L].brackets + 1 = 0
      BY <1>4, <1>5, <2>1, Zenon
    <2> QED
      BY <1>3, <2>2
  <1>7. ASSUME Simple(v) PROVE Simple(w) /\ w # EmptyString /\ w[L].brackets = 0
    <2>1. \A i \in 1..L : v[i].text # "" /\ v[i].brackets \in {0, 1}
      BY <1>1, <1>7, Zenon DEF Simple
    <2>2. L \in 1..L
      BY <1>2
    <2>3. w[L].brackets = 0 /\ w[L].text # ""
      <3>1. v[L].text # "" /\ v[L].brackets \in {0, 1}
        BY <2>1, <2>2, Zenon
      <3>2. w[L].brackets + 1 \in {0, 1}
        BY <1>4, <3>1, Zenon
      <3>3. \A k \in Nat : k + 1 \in {0, 1} => k = 0
        OBVIOUS
      <3> QED
        BY <1>3, <1>4, <3>1, <3>2, <3>3, Zenon
    <2>4. ASSUME NEW i \in 1..L PROVE w[i].text # "" /\ w[i].brackets \in {0, 1}
      <3>1. CASE i = L
        BY <2>3, <3>1, Zenon
      <3>2. CASE i \in 1..(L - 1)
        BY <1>1, <2>1, <3>2, Zenon
      <3>3. i = L \/ i \in 1..(L - 1)
        BY <1>2
      <3> QED
        BY <3>1, <3>2, <3>3, Zenon
    <2>5. w # EmptyString
      BY <1>2, <1>5, <2>3, Zenon DEF L
    <2> QED
      BY <2>3, <2>4, <2>5, Zenon DEF Simple, L
  <1>8. ASSUME NEW n \in Strings, w # EmptyString
        PROVE  Dotted(w, n) # EmptyString /\ (Simple(Dotted(w, n)) => Simple(w))
    <2>1. Len(Dotted(w, n)) = Len(w) + Len(n) /\ \A i \in 1..Len(w) : Dotted(w, n)[i] = w[i]
      BY <1>8, DottedFacts, Zenon
    <2>2. Len(n) \in Nat \ {0} /\ Len(w) \in Nat \ {0}
      BY StringFacts
    <2>3. Dotted(w, n) # EmptyString
      <3>1. Len(Dotted(w, n)) # 1
        BY <2>1, <2>2
      <3> QED
        BY <1>5, <3>1, Zenon
    <2>4. 1..Len(w) \subseteq 1..Len(Dotted(w, n))
      BY <2>1, <2>2
    <2> QED
      BY <2>1, <2>3, <2>4, Zenon DEF Simple
  <1> QED
    BY <1>6, <1>7, <1>8 DEF v, L

\* The calls that a sound call makes are sound, in a document with plain names.
LEMMA CallSound ==
  ASSUME NEW d \in Docs, PlainDocument(Api[d]), NEW s \in DOMAIN Api[d].schemas, NEW w \in Strings,
         SoundCall(d, s, w), NEW t, NEW v, <<t, v>> \in Calls(Api[d], s, w)
  PROVE  v # EmptyString /\ SoundCall(d, t, v)
  <1>1. CASE t \in Items(Api[d], s) /\ v = Bracketed(w)
    <2>1. v # EmptyString
      BY <1>1, SimplePrefix, Zenon
    <2>2. ASSUME Simple(v) PROVE LeadsTo(d, v, t)
      <3>1. Simple(w) /\ w # EmptyString /\ w[Len(w)].brackets = 0
        BY <1>1, <2>2, SimplePrefix, Zenon
      <3>2. LeadsTo(d, w, s)
        BY <3>1, Zenon DEF SoundCall
      <3> QED
        BY <1>1, <3>1, <3>2, ItemsSound, Zenon
    <2> QED
      BY <2>1, <2>2, Zenon DEF SoundCall
  <1>2. ASSUME NEW n \in DOMAIN Api[d].schemas[s].props, t \in Property(Api[d], s, n), v = Dotted(w, n)
        PROVE  v # EmptyString /\ SoundCall(d, t, v)
    <2>1. n \in Strings /\ PlainName(n)
      BY ApiConstants, Zenon DEF PlainDocument
    <2>2. CASE w = EmptyString
      <3>1. v = n /\ s \in Roots(Api[d]) /\ n # EmptyString
        BY <1>2, <2>1, <2>2, DottedFacts, NameIsKey, Zenon DEF SoundCall
      <3>2. LeadsTo(d, n, t)
        BY <1>2, <2>1, <3>1, RootPropertySound, Zenon
      <3> QED
        BY <3>1, <3>2, Zenon DEF SoundCall
    <2>3. CASE w # EmptyString
      <3>1. v # EmptyString /\ (Simple(v) => Simple(w))
        BY <1>2, <2>1, <2>3, SimplePrefix, Zenon
      <3>2. ASSUME Simple(v) PROVE LeadsTo(d, v, t)
        <4>1. LeadsTo(d, w, s)
          BY <2>3, <3>1, <3>2, Zenon DEF SoundCall
        <4> QED
          BY <1>2, <2>1, <2>3, <4>1, PropertySound, Zenon
      <3> QED
        BY <3>1, <3>2, Zenon DEF SoundCall
    <2> QED
      BY <2>2, <2>3, SMTT(30)
  <1>3. \/ t \in Items(Api[d], s) /\ v = Bracketed(w)
        \/ \E n \in DOMAIN Api[d].schemas[s].props : t \in Property(Api[d], s, n) /\ v = Dotted(w, n)
    BY CallsAre
  <1> QED
    BY <1>1, <1>2, <1>3, Zenon

\* Before the walk.
LEMMA InitSound == Init => Sound
  <1> SUFFICES ASSUME Init, NEW d \in Docs
               PROVE  /\ \A s, w : <<s, w>> \in todo[d] => SoundCall(d, s, w)
                      /\ \A w \in paths[d] : Simple(w) => MarkedBy(Api[d], parse_path(w))
    BY DEF Sound
  <1>1. paths[d] = {} /\ todo[d] = {<<s, EmptyString>> : s \in Roots(Api[d])}
    BY DEF Init
  <1>2. \A s, w : <<s, w>> \in todo[d] => s \in Roots(Api[d]) /\ w = EmptyString
    BY <1>1, SMTT(30)
  <1> QED
    BY <1>1, <1>2, Zenon DEF SoundCall

\* walk_schema inserts the paths of marked schemas only, and calls itself with the
\* path of the schema it descends to.
LEMMA WalkSound ==
  ASSUME TypeOK, Sound, NEW d \in Docs, NEW s, NEW w, walk_schema(d, s, w)
  PROVE  Sound'
  <1> SUFFICES ASSUME NEW e \in Docs, PlainDocument(Api[e])
               PROVE  /\ \A t, v : <<t, v>> \in todo'[e] => SoundCall(e, t, v)
                      /\ \A v \in paths'[e] : Simple(v) => MarkedBy(Api[e], parse_path(v))
    BY SMTT(30) DEF Sound
  <1>1. /\ \A t, v : <<t, v>> \in todo[e] => SoundCall(e, t, v)
        /\ \A v \in paths[e] : Simple(v) => MarkedBy(Api[e], parse_path(v))
    BY SMTT(30) DEF Sound
  <1>2. CASE e # d
    BY <1>1, <1>2, WalkDoes, Zenon
  <1>3. CASE e = d
    <2>1. /\ <<s, w>> \in todo[e] /\ s \in DOMAIN Api[e].schemas /\ w \in Strings
          /\ todo'[e] = (todo[e] \ {<<s, w>>}) \cup Calls(Api[e], s, w)
          /\ \A v : v \in paths'[e] <=>
               v \in paths[e] \/ \E t : <<t, v>> \in Calls(Api[e], s, w) /\ Api[e].schemas[t].pii
      BY <1>3, WalkDoes, Zenon
    <2>2. ASSUME NEW t, NEW v, <<t, v>> \in Calls(Api[e], s, w)
          PROVE  v # EmptyString /\ SoundCall(e, t, v)
      BY <1>1, <2>1, <2>2, CallSound, Zenon
    <2>3. ASSUME NEW t, NEW v, <<t, v>> \in Calls(Api[e], s, w), Api[e].schemas[t].pii, Simple(v)
          PROVE  MarkedBy(Api[e], parse_path(v))
      <3>1. LeadsTo(e, v, t)
        BY <2>2, <2>3, Zenon DEF SoundCall
      <3>2. PICK c \in [0..Len(v) -> DOMAIN Api[e].schemas] :
              Describes(Api[e], c, parse_path(v)) /\ c[Len(v)] = t
        BY <3>1, Zenon DEF LeadsTo
      <3>3. <<t, v>> \in (DOMAIN Api[e].schemas) \X Strings
        BY <2>1, <2>3, CallsTyped
      <3>4. v \in Strings
        BY <3>3
      <3>5. Len(parse_path(v)) = Len(v) /\ parse_path(v) # <<>>
        BY <3>4, ParseFacts, Zenon
      <3> QED
        BY <2>3, <3>2, <3>5, Zenon DEF MarkedBy
    <2>4. \A t, v : <<t, v>> \in todo'[e] => SoundCall(e, t, v)
      BY <1>1, <2>1, <2>2
    <2>5. \A v \in paths'[e] : Simple(v) => MarkedBy(Api[e], parse_path(v))
      BY <1>1, <2>1, <2>3, Zenon
    <2> QED
      BY <2>4, <2>5
  <1> QED
    BY <1>2, <1>3
----------------------------------------------------------------------------
(* The inductive invariant, and what follows from it.                      *)

PathsInv == TypeOK /\ LoopInv /\ Complete /\ Sound

\* Before anything is resolved.
LEMMA InitInv == Init => PathsInv
  <1> SUFFICES ASSUME Init PROVE TypeOK /\ LoopInv
    BY InitComplete, InitSound, SMTT(30) DEF PathsInv
  <1>1. NoCall
    BY DEF Init
  <1>2. LoopInv
    BY <1>1, NoCallInv DEF TravInv
  <1>3. todo = [d \in Docs |-> todo[d]] /\ paths \in [Docs -> SUBSET Strings]
    BY DEF Init
  <1>4. ASSUME NEW d \in Docs PROVE todo[d] \subseteq (DOMAIN Api[d].schemas) \X Strings
    <2>1. todo[d] = {<<s, EmptyString>> : s \in Roots(Api[d])}
      BY DEF Init
    <2>2. Roots(Api[d]) \subseteq DOMAIN Api[d].schemas
      BY DEF Roots
    <2>3. EmptyString \in Strings
      BY EmptyStringFacts, Zenon
    <2>4. \A s \in Roots(Api[d]) : <<s, EmptyString>> \in (DOMAIN Api[d].schemas) \X Strings
      BY <2>2, <2>3
    <2> QED
      BY <2>1, <2>4, Zenon
  <1> QED
    BY <1>1, <1>2, <1>3, <1>4 DEF TypeOK

\* A call of walk_schema.
LEMMA WalkInv ==
  ASSUME PathsInv, NEW d \in Docs, NEW s, NEW w, walk_schema(d, s, w)
  PROVE  PathsInv'
  <1>1. TypeOK
    BY DEF PathsInv
  <1>2. Complete' /\ Sound'
    BY <1>1, WalkComplete, WalkSound, SMTT(30) DEF PathsInv
  <1>3. UNCHANGED <<job, work, pending, answer>> /\ <<s, w>> \in todo[d]
    BY <1>1, WalkDoes, SMTT(30) DEF callVars
  <1>4. LoopInv'
    BY <1>3, Zenon DEF PathsInv, LoopInv, Treated, PiiLeaves
  <1>5. NoCall
    BY <1>1, <1>3 DEF TypeOK, Loaded
  <1>6. NoCall'
    BY <1>3, <1>5 DEF NoCall
  <1>7. \A e \in Docs : todo'[e] \subseteq (DOMAIN Api[e].schemas) \X Strings
    <2>1. Calls(Api[d], s, w) \subseteq (DOMAIN Api[d].schemas) \X Strings
      BY <1>1, WalkDoes, CallsTyped, Zenon
    <2>2. todo'[d] \subseteq todo[d] \cup Calls(Api[d], s, w)
      <3>1. todo'[d] = (todo[d] \ {<<s, w>>}) \cup Calls(Api[d], s, w)
        BY <1>1 DEF walk_schema, TypeOK
      <3> QED
        BY <3>1, Zenon
    <2>3. \A e \in Docs : e # d => todo'[e] = todo[e]
      BY <1>1, WalkDoes, Zenon
    <2>4. \A e \in Docs : todo[e] \subseteq (DOMAIN Api[e].schemas) \X Strings
      BY <1>1 DEF TypeOK
    <2> QED
      BY <2>1, <2>2, <2>3, <2>4
  <1>8. todo' = [e \in Docs |-> todo'[e]]
    BY <1>1, WalkDoes, Zenon
  <1>9. paths' \in [Docs -> SUBSET Strings]
    <2>1. paths' = [paths EXCEPT ![d] = paths'[d]]
      BY <1>1 DEF walk_schema, TypeOK
    <2>2. paths'[d] \subseteq Strings
      <3>1. Calls(Api[d], s, w) \subseteq (DOMAIN Api[d].schemas) \X Strings
        BY <1>1, WalkDoes, CallsTyped, Zenon
      <3>2. ASSUME NEW v \in paths'[d] PROVE v \in Strings
        <4>1. v \in paths[d] \/ \E t : <<t, v>> \in Calls(Api[d], s, w)
          BY <1>1, WalkDoes, Zenon
        <4>2. paths[d] \subseteq Strings
          BY <1>1 DEF TypeOK
        <4> QED
          BY <3>1, <4>1, <4>2, Zenon
      <3> QED
        BY <3>2
    <2> QED
      BY <1>1, <2>1, <2>2 DEF TypeOK
  <1> QED
    BY <1>2, <1>4, <1>6, <1>7, <1>8, <1>9 DEF PathsInv, TypeOK

\* What a step of a handler does to its call.
LEMMA ServeKeepsCall ==
  ASSUME PathsInv, Serve
  PROVE  Called' /\ LoopInv' /\ job'.paths = paths[job'.doc] /\ job'.doc \in Docs
  <1>1. TravInv /\ paths \in [Docs -> SUBSET Strings]
    BY DEF PathsInv, TypeOK, TravInv
  <1>2. ASSUME NEW op \in Ops, NEW p \in Sendable, NEW d \in Docs, NEW k \in Deks, Start(op, p, d, k)
        PROVE  Called' /\ LoopInv' /\ job'.paths = paths[job'.doc]
    <2>1. Called' /\ LoopInv'
      BY <1>1, <1>2, StartInv
    <2>2. job'.paths = paths[d] /\ job'.doc = d
      BY <1>2, SMTT(30) DEF Start, Call
    <2> QED
      BY <2>1, <2>2
  <1>3. ASSUME TravInv', job' = job, answer = NoAnswer
        PROVE  Called' /\ LoopInv' /\ job'.paths = paths[job'.doc]
    <2>1. Called /\ job.paths = paths[job.doc]
      BY <1>3 DEF PathsInv, TypeOK, NoCall, NoAnswer, Idle
    <2>2. job'.op # "none"
      BY <1>3, <2>1 DEF Called, Ops
    <2>3. ~NoCall'
      BY <2>2, SMTT(30) DEF NoCall, Call
    <2> QED
      BY <1>3, <2>1, <2>3 DEF TravInv
  <1>4. ASSUME NEW p \in pending, EncryptPath(p)
        PROVE  Called' /\ LoopInv' /\ job'.paths = paths[job'.doc]
    BY <1>1, <1>3, <1>4, EncryptPathInv, SMTT(30) DEF EncryptPath
  <1>5. ASSUME NEW p \in pending, DecryptPath(p)
        PROVE  Called' /\ LoopInv' /\ job'.paths = paths[job'.doc]
    <2>1. TravInv'
      BY <1>1, <1>5, DecryptPathErrInv, DecryptPathOkInv, Zenon
    <2> QED
      BY <1>3, <1>5, <2>1 DEF DecryptPath
  <1>6. ASSUME Return
        PROVE  Called' /\ LoopInv' /\ job'.paths = paths[job'.doc]
    BY <1>1, <1>3, <1>6, ReturnInv DEF Return
  <1>7. Called' /\ LoopInv' /\ job'.paths = paths[job'.doc]
    BY <1>2, <1>4, <1>5, <1>6, Zenon DEF Serve, Round
  <1> QED
    BY <1>7 DEF Called

\* A step of a handler.
LEMMA ServeInv ==
  ASSUME PathsInv, Serve
  PROVE  PathsInv'
  <1>1. Called' /\ LoopInv' /\ job'.paths = paths[job'.doc]
    BY ServeKeepsCall
  <1>2. todo' = todo /\ paths' = paths /\ Loaded
    BY DEF Serve
  <1>3. Complete'
    BY <1>2, CompleteKept DEF PathsInv
  <1>4. Sound'
    BY <1>2, Zenon DEF PathsInv, Sound
  <1>5. TypeOK'
    BY <1>1, <1>2 DEF PathsInv, TypeOK, Loaded
  <1> QED
    BY <1>1, <1>3, <1>4, <1>5 DEF PathsInv

\* Every step keeps the invariant.
LEMMA StepInv == PathsInv /\ [Next]_vars => PathsInv'
  <1> SUFFICES ASSUME PathsInv, [Next]_vars PROVE PathsInv'
    OBVIOUS
  <1>1. CASE UNCHANGED vars
    <2>1. /\ todo' = todo /\ paths' = paths
          /\ job' = job /\ work' = work /\ pending' = pending /\ answer' = answer
      BY <1>1, SMTT(30) DEF vars, callVars
    <2>2. Complete' /\ Sound'
      BY <2>1, CompleteKept DEF PathsInv, Sound
    <2>3. LoopInv'
      BY <2>1, Zenon DEF PathsInv, LoopInv, Treated, PiiLeaves
    <2>4. TypeOK'
      BY <2>1, Zenon DEF PathsInv, TypeOK, NoCall, Called, Loaded
    <2> QED
      BY <2>2, <2>3, <2>4 DEF PathsInv
  <1>2. CASE Serve
    BY <1>2, ServeInv
  <1>3. CASE \E d \in Docs : \E c \in todo[d] : walk_schema(d, c[1], c[2])
    BY <1>3, WalkInv
  <1> QED
    BY <1>1, <1>2, <1>3 DEF Next

\* Types, loop invariant, completeness and soundness together are inductive.
LEMMA Inductive == Spec => []PathsInv
  BY InitInv, StepInv, PTL DEF Spec

\* The resolver's calls and paths are of its document, the payload keeps its shape
\* and the pending paths are the document's (walk_schema, encrypt_pii_fields).
THEOREM TypeCorrect == Spec => []TypeOK
  <1>1. PathsInv => TypeOK
    BY DEF PathsInv
  <1> QED
    BY <1>1, Inductive, PTL

\* Whatever the order of the paths, what was reached so far was rewritten exactly
\* once and the rest is as it was sent (the loops' state between two paths).
THEOREM LoopInvariant == Spec => []LoopInv
  <1>1. PathsInv => LoopInv
    BY DEF PathsInv
  <1> QED
    BY <1>1, Inductive, PTL

\* What a call has answered, and with which paths.
LEMMA Answered ==
  ASSUME PathsInv, answer.status = "ok"
  PROVE  /\ Called /\ Loaded /\ job.paths = paths[job.doc] /\ answer.payload = work
         /\ job.op = "encrypt" => work = encrypt_pii_fields(job.payload, PiiLeaves, job.dek)
         /\ job.op = "decrypt" => work = decrypt_pii_fields(job.payload, PiiLeaves)
  <1>1. ~NoCall
    BY DEF NoCall, Idle
  <1>2. Called /\ Loaded /\ job.paths = paths[job.doc]
    BY <1>1, SMTT(30) DEF PathsInv, TypeOK
  <1>3. answer = Ok(work)
    BY <1>2, Answers DEF Called
  <1>4. answer.payload = work
    BY <1>3, Answers
  <1>5. Treated = PiiLeaves
    BY AllTreated DEF PathsInv, LoopInv
  <1> QED
    BY <1>2, <1>4, <1>5, Zenon DEF PathsInv, LoopInv

\* The segments of an address of a payload.
LEMMA FollowTyped ==
  ASSUME NEW a \in Addresses
  PROVE  /\ Follow(a) \in Seq(Hops) /\ DOMAIN a = 1..Len(Follow(a))
         /\ \A i \in DOMAIN a : Follow(a)[i].key = a[i].key
  <1> DEFINE H == [key : Strings \cup {NoKey}, items : Seq(Nat)]
  <1>1. a \in Seq(H)
    BY TraversalConstants, Zenon
  <1>2. ASSUME NEW h \in H PROVE [key |-> h.key, items |-> Len(h.items)] \in Hops
    BY DEF Hops
  <1> HIDE DEF H
  <1>3. DOMAIN a = 1..Len(a) /\ Len(a) \in Nat /\ \A i \in 1..Len(a) : a[i] \in H
    BY <1>1
  <1>4. Follow(a) = [i \in 1..Len(a) |-> [key |-> a[i].key, items |-> Len(a[i].items)]]
    BY <1>3 DEF Follow
  <1>5. Follow(a) \in [1..Len(a) -> Hops]
    BY <1>2, <1>3, <1>4
  <1>6. Follow(a) \in Seq(Hops) /\ Len(Follow(a)) = Len(a)
    BY <1>3, <1>5
  <1> QED
    BY <1>3, <1>4, <1>6

\* Once a document is resolved, a path leads to every marked address that a path
\* can express.
LEMMA MarkedIsReached ==
  ASSUME PathsInv, NEW d \in Docs, todo[d] = {}, NEW a \in Addresses,
         a \in Marked[d], Expressible(Follow(a))
  PROVE  \E p \in paths[d] : Reaches(p, a)
  <1> DEFINE x == Follow(a)
  <1>1. MarkedBy(Api[d], x) /\ x \in Seq(Hops)
    BY FollowTyped DEF Marked
  <1>2. x # <<>>
    BY <1>1, Zenon DEF MarkedBy
  <1>3. PICK c \in [0..Len(x) -> DOMAIN Api[d].schemas] :
          Describes(Api[d], c, x) /\ Api[d].schemas[c[Len(x)]].pii
    BY <1>1, Zenon DEF MarkedBy
  <1>4. MarkedAlong(d, c, x)
    BY <1>1, <1>2, <1>3, Zenon DEF MarkedAlong
  <1> HIDE DEF x
  <1>5. \A i : ~Waits(d, c, x, i)
    BY Zenon DEF Waits
  <1>6. Upto(x, Len(x)) \in paths[d]
    BY <1>4, <1>5, Zenon DEF PathsInv, Complete
  <1>7. parse_path(Upto(x, Len(x))) = x
    BY <1>1, <1>2, <1>4, ParseUpto, Zenon DEF MarkedAlong
  <1> QED
    BY <1>6, <1>7, Zenon DEF Reaches, x

\* Every string that the document marks is answered as a token under the call's
\* DEK, wherever a path can express its address (resolve_pii_paths, parse_path and
\* encrypt_pii_fields together).
THEOREM EncryptsWhatIsMarked == Spec => []MarkedLeavesEncrypted
  <1>1. ASSUME PathsInv PROVE MarkedLeavesEncrypted
    <2> SUFFICES ASSUME job.op = "encrypt", answer.status = "ok", NEW a \in DOMAIN answer.payload,
                        a \in Marked[job.doc], Expressible(Follow(a)), IsString(job.payload[a])
                 PROVE  Encrypted(answer.payload[a])
      BY Zenon DEF MarkedLeavesEncrypted
    <2>1. /\ Called /\ Loaded /\ job.paths = paths[job.doc] /\ answer.payload = work
          /\ work = encrypt_pii_fields(job.payload, PiiLeaves, job.dek)
      BY <1>1, Answered, Zenon
    <2>2. a \in DOMAIN job.payload /\ a \in Addresses /\ job.payload[a] \in Values
      BY <2>1, SMTT(30) DEF Called, IsPayload
    <2>3. job.doc \in Docs /\ job.dek \in Deks /\ todo[job.doc] = {}
      BY <2>1 DEF Called, Loaded
    <2>4. a \in PiiLeaves
      BY <1>1, <2>1, <2>2, <2>3, MarkedIsReached, Zenon DEF PiiLeaves
    <2>5. work[a] = encrypt_field(job.payload[a], job.dek)
      BY <2>1, <2>2, <2>4, SMTT(30) DEF encrypt_pii_fields, Encrypts
    <2>6. work[a].layers = Append(job.payload[a].layers, job.dek)
      BY <2>2, <2>5, SMTT(30) DEF encrypt_field, Values
    <2>7. job.payload[a].layers \in Seq(Deks)
      BY <2>2, SMTT(30) DEF Values
    <2>8. ASSUME NEW q \in Seq(Deks), NEW k \in Deks
          PROVE  Append(q, k) # <<>> /\ Append(q, k)[Len(Append(q, k))] = k
      BY SMTT(30)
    <2>9. work[a].layers # <<>> /\ work[a].layers[Len(work[a].layers)] = job.dek
      BY <2>3, <2>6, <2>7, <2>8, ZenonT(40)
    <2> QED
      BY <2>1, <2>9 DEF Encrypted
  <1> QED
    BY <1>1, Inductive, PTL

\* A path that leads to an address with plain keys is simple (parse_path).
LEMMA ReachedIsSimple ==
  ASSUME NEW p \in Strings, NEW a \in Addresses, PlainKeys(a), Reaches(p, a)
  PROVE  Simple(p)
  <1> SUFFICES ASSUME NEW i \in 1..Len(p)
               PROVE  p[i].text # "" /\ p[i].brackets \in {0, 1}
    BY Zenon DEF Simple
  <1>1. p[i] \in Parts /\ p[i].brackets \in Nat /\ p[i] = Part(p[i].text, p[i].brackets)
    BY StringFacts DEF Parts
  <1>2. Follow(a) = parse_path(p) /\ Len(parse_path(p)) = Len(p) /\ parse_path(p)[i] = Segments(p[i])
    BY ParseFacts DEF Reaches
  <1>3. i \in DOMAIN a /\ Follow(a)[i].key = a[i].key
    BY <1>2, FollowTyped
  <1>4. Segments(p[i]).key = a[i].key
    BY <1>2, <1>3, Zenon
  <1>5. a[i].key = NoKey \/ PlainName(a[i].key)
    BY <1>3, Zenon DEF PlainKeys
  <1>6. CASE p[i].brackets > 0
    <2> DEFINE q == Part(p[i].text, p[i].brackets - 1)
    <2>1. a[i].key = <<q>>
      BY <1>4, <1>6, SMTT(30) DEF Segments
    <2>2. q.text = p[i].text /\ q.brackets = p[i].brackets - 1
      BY DEF Part
    <2> HIDE DEF q
    <2>3. <<q>> # NoKey /\ <<q>>[1] = q
      BY DEF NoKey
    <2>4. q.brackets = 0 /\ q.text # ""
      BY <1>5, <2>1, <2>3, Zenon DEF PlainName
    <2>5. \A k \in Nat : k - 1 = 0 => k \in {0, 1}
      OBVIOUS
    <2> QED
      BY <1>1, <2>2, <2>4, <2>5, Zenon
  <1>7. CASE ~(p[i].brackets > 0)
    <2>1. a[i].key = <<p[i]>>
      BY <1>4, <1>7 DEF Segments
    <2>2. <<p[i]>> # NoKey /\ <<p[i]>>[1] = p[i]
      BY SMTT(30) DEF NoKey
    <2> QED
      BY <1>5, <2>1, <2>2, Zenon DEF PlainName
  <1> QED
    BY <1>6, <1>7, Zenon

\* A leaf that no component marks comes back as it was sent, where names and keys
\* are plain (resolve_pii_paths, parse_path, encrypt_pii_fields, decrypt_pii_fields).
THEOREM ChangesOnlyWhatIsMarked == Spec => []OnlyMarkedLeavesChange
  <1>1. ASSUME PathsInv PROVE OnlyMarkedLeavesChange
    <2> SUFFICES ASSUME answer.status = "ok", PlainDocument(Api[job.doc]), NEW a \in DOMAIN answer.payload,
                        a \notin Marked[job.doc], PlainKeys(a)
                 PROVE  answer.payload[a] = job.payload[a]
      BY Zenon DEF OnlyMarkedLeavesChange
    <2>1. Called /\ job.paths = paths[job.doc] /\ answer.payload = work
      BY <1>1, Answered, Zenon
    <2>2. /\ a \in DOMAIN job.payload /\ a \in Addresses
          /\ job.doc \in Docs /\ job.op \in Ops /\ job.paths \subseteq Strings
      BY <2>1, SMTT(30) DEF Called
    <2>3. ASSUME NEW p \in job.paths, Reaches(p, a) PROVE FALSE
      <3>1. Simple(p)
        BY <2>2, <2>3, ReachedIsSimple
      <3>2. MarkedBy(Api[job.doc], parse_path(p))
        BY <1>1, <2>1, <2>2, <2>3, <3>1, Zenon DEF PathsInv, Sound
      <3>3. MarkedBy(Api[job.doc], Follow(a))
        BY <2>3, <3>2, Zenon DEF Reaches
      <3> QED
        BY <2>2, <3>3, SMTT(30) DEF Marked
    <2>4. a \notin PiiLeaves
      BY <2>3, SMTT(30) DEF PiiLeaves
    <2>5. CASE job.op = "encrypt"
      <3>1. work = encrypt_pii_fields(job.payload, PiiLeaves, job.dek)
        BY <1>1, <2>5, Answered, Zenon
      <3> QED
        BY <2>1, <2>2, <2>4, <3>1 DEF encrypt_pii_fields
    <2>6. CASE job.op = "decrypt"
      <3>1. work = decrypt_pii_fields(job.payload, PiiLeaves)
        BY <1>1, <2>6, Answered, Zenon
      <3> QED
        BY <2>1, <2>2, <2>4, <3>1 DEF decrypt_pii_fields
    <2> QED
      BY <2>2, <2>5, <2>6 DEF Ops
  <1> QED
    BY <1>1, Inductive, PTL
----------------------------------------------------------------------------
(* The refinement.                                                         *)

\* FieldStep's operators are those of FieldCipher.
LEMMA SameOperators ==
  /\ F!NoResult = NoAnswer /\ F!Err = Err
  /\ \A p : F!Ok(p) = Ok(p)
  /\ \A p, S, k : F!encrypt_pii_fields(p, S, k) = encrypt_pii_fields(p, S, k)
  /\ \A p, S : F!decrypt_pii_fields(p, S) = decrypt_pii_fields(p, S)
  /\ \A p, S, k : F!DecryptFails(p, S, k, TRUE) <=> DecryptFails(p, S, k, TRUE)
  <1>1. /\ F!NoResult = NoAnswer /\ F!Err = Err
        /\ \A p : F!Ok(p) = Ok(p)
    BY DEF F!NoResult, F!Err, F!Ok, NoAnswer, Err, Ok
  <1>2. \A p, S, k : F!encrypt_pii_fields(p, S, k) = encrypt_pii_fields(p, S, k)
    BY DEF F!encrypt_pii_fields, encrypt_pii_fields, F!Encrypts, Encrypts, F!IsString, IsString,
           F!encrypt_field, encrypt_field
  <1>3. \A p, S : F!decrypt_pii_fields(p, S) = decrypt_pii_fields(p, S)
    BY DEF F!decrypt_pii_fields, decrypt_pii_fields, F!Decrypts, Decrypts, F!IsString, IsString,
           F!StartsWithV1, StartsWithV1, F!decrypt_field, decrypt_field
  <1>4. \A p, S, k : F!DecryptFails(p, S, k, TRUE) <=> DecryptFails(p, S, k, TRUE)
    BY DEF F!DecryptFails, DecryptFails, F!Decrypts, Decrypts, F!IsString, IsString,
           F!StartsWithV1, StartsWithV1, F!Authenticates, Authenticates, F!IsToken, IsToken
  <1> QED
    BY <1>1, <1>2, <1>3, <1>4, Zenon

Abstract == [op |-> job.op, payload |-> job.payload, fields |-> PiiLeaves, dek |-> job.dek]

\* A round that ends the call in failure is the one step's failure.
LEMMA ErrRefines ==
  ASSUME TravInv', job' = job, job.op = "decrypt", answer = NoAnswer, answer' = Err
  PROVE  F!Return
  <1>1. PiiLeaves' = PiiLeaves
    BY DEF PiiLeaves
  <1>2. DecryptFails(job.payload, PiiLeaves, job.dek, TRUE)
    BY <1>1, Zenon DEF TravInv, LoopInv
  <1>3. F!DecryptFails(job.payload, PiiLeaves, job.dek, TRUE)
    BY <1>2, SameOperators, Zenon
  <1>4. Abstract' = Abstract
    BY <1>1, SMTT(30) DEF Abstract
  <1> QED
    BY <1>3, <1>4, SameOperators, SMTT(30) DEF F!Return, Abstract

\* The end of the loop is the one step's success.
LEMMA ReturnRefines ==
  ASSUME TravInv, Return
  PROVE  F!Return
  <1>1. /\ job' = job /\ answer' = Ok(work) /\ pending = {} /\ answer = NoAnswer
    BY DEF Return
  <1>2. Treated = PiiLeaves
    BY <1>1, AllTreated
  <1>3. PiiLeaves' = PiiLeaves
    BY <1>1 DEF PiiLeaves
  <1>4. Abstract' = Abstract
    BY <1>1, <1>3 DEF Abstract
  <1>5. CASE job.op = "encrypt"
    <2>1. answer' = F!Ok(F!encrypt_pii_fields(job.payload, PiiLeaves, job.dek))
      BY <1>1, <1>2, <1>5, SameOperators DEF TravInv, LoopInv
    <2> QED
      BY <1>1, <1>4, <1>5, <2>1, SameOperators, SMTT(30) DEF F!Return, Abstract
  <1>6. CASE job.op = "decrypt"
    <2>1. /\ answer' = F!Ok(F!decrypt_pii_fields(job.payload, PiiLeaves))
          /\ ~F!DecryptFails(job.payload, PiiLeaves, job.dek, TRUE)
      BY <1>1, <1>2, <1>6, SameOperators, Zenon DEF TravInv, LoopInv
    <2> QED
      BY <1>1, <1>4, <1>6, <2>1, SameOperators DEF F!Return, Abstract
  <1> QED
    BY <1>1, <1>5, <1>6, InCall DEF Called, Ops

\* Every step is a step of FieldStep or leaves its state alone.
LEMMA StepRefines ==
  PathsInv /\ PathsInv' /\ [Next]_vars => [F!Next]_<<Abstract, answer>>
  <1> SUFFICES ASSUME PathsInv, PathsInv', [Next]_vars PROVE [F!Next]_<<Abstract, answer>>
    OBVIOUS
  <1>1. TravInv /\ TravInv'
    BY SMTT(30) DEF PathsInv, TypeOK, TravInv
  <1>2. CASE UNCHANGED vars \/ \E d \in Docs : \E c \in todo[d] : walk_schema(d, c[1], c[2])
    <2>1. job' = job /\ answer' = answer
      BY <1>2, Zenon DEF vars, walk_schema, callVars
    <2> QED
      BY <2>1, SMTT(30) DEF Abstract, PiiLeaves
  <1>3. CASE \E op \in Ops, p \in Sendable, d \in Docs, k \in Deks : Start(op, p, d, k)
    BY <1>3, SameOperators DEF Start, F!Next, F!Call
  <1>4. CASE \E p \in pending : EncryptPath(p)
    BY <1>4 DEF EncryptPath, Abstract, PiiLeaves
  <1>5. ASSUME NEW p \in pending, DecryptPath(p)
        PROVE  [F!Next]_<<Abstract, answer>>
    <2>1. job' = job /\ job.op = "decrypt" /\ answer = NoAnswer
      BY <1>5 DEF DecryptPath
    <2>2. CASE answer' = Err
      BY <1>1, <2>1, <2>2, ErrRefines, SMTT(30) DEF F!Next
    <2>3. CASE answer' = answer
      BY <2>1, <2>3 DEF Abstract, PiiLeaves
    <2> QED
      BY <1>1, <1>5, <2>2, <2>3, DecryptPathErrInv, DecryptPathOkInv, Zenon
  <1>6. CASE Return
    BY <1>1, <1>6, ReturnRefines DEF F!Next
  <1> QED
    BY <1>2, <1>3, <1>4, <1>5, <1>6, Zenon DEF Next, Serve, Round

\* The loops over the PII paths implement the one step that the service's
\* handlers take (encrypt_pii_fields, decrypt_pii_fields).
THEOREM RefinesFieldStep == Spec => ImplementsFieldStep
  <1>1. Init => F!Init
    BY DEF Init, NoCall, Idle, F!Init, F!Idle
  <1>2. PathsInv /\ PathsInv' /\ [Next]_vars => [F!Next]_<<Abstract, answer>>
    BY StepRefines
  <1> QED
    BY <1>1, <1>2, Inductive, PTL DEF Spec, ImplementsFieldStep, F!Spec, Abstract
=============================================================================
