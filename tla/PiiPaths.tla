------------------------------ MODULE PiiPaths ------------------------------
(***************************************************************************)
(* From a schema document to the leaves that are encrypted: the resolver   *)
(* (schema/resolver.rs) writes each PII path as a string, and the handlers *)
(* (Traversal) read it back and follow it through the payload.             *)
(*                                                                         *)
(* A document is a table of schemas, inline ones included, and maps the    *)
(* names in components/schemas to one of them or to a reference.           *)
(***************************************************************************)
EXTENDS Traversal

CONSTANT Api    \* Api[d]: the OpenAPI document d, with its components and schemas

VARIABLE todo   \* todo[d]: the calls of walk_schema on d that are still to be made

vars == <<todo, paths, callVars>>

Name(text) == <<Part(text, 0)>>
EmptyString == Name("")

\* walk_schema looks at the property names of objects and the items of arrays, and
\* a boolean x-pii extension.
ASSUME ApiConstants ==
  /\ "" \in Texts
  /\ \A d \in Docs : \A s \in DOMAIN Api[d].schemas :
       /\ Api[d].schemas[s].pii \in BOOLEAN
       /\ DOMAIN Api[d].schemas[s].props \subseteq Strings

\* Mutant: an inner property is known by its own name alone.
DottedForgets(prefix, name) == name

\* format!("{prefix}.{name}") and format!("{prefix}[]").
Dotted(prefix, name) == IF prefix = EmptyString THEN name ELSE prefix \o name
Bracketed(prefix) ==
  [prefix EXCEPT ![Len(prefix)] = Part(@.text, @.brackets + 1)]

\* A ReferenceOr<Schema>.
Item(s) == <<"item", s>>
Ref(n) == <<"ref", n>>

\* resolve_ref and the Item case beside it: {} for None.
Resolved(api, r) ==
  {s \in DOMAIN api.schemas :
     \/ r = Item(s)
     \/ \E n \in DOMAIN api.components : r = Ref(n) /\ api.components[n] = Item(s)}

\* The schema of property n of s, and of the items of s.
Property(api, s, n) ==
  IF api.schemas[s].kind = "object" /\ n \in DOMAIN api.schemas[s].props
  THEN Resolved(api, api.schemas[s].props[n]) ELSE {}
Items(api, s) ==
  IF api.schemas[s].kind = "array"
  THEN UNION {Resolved(api, i) : i \in api.schemas[s].items} ELSE {}

\* The calls that walk_schema(api, s, prefix) makes.
Calls(api, s, prefix) ==
  {<<t, Bracketed(prefix)>> : t \in Items(api, s)}
  \cup UNION {{<<t, Dotted(prefix, n)>> : t \in Property(api, s, n)}
              : n \in DOMAIN api.schemas[s].props}

\* resolve_pii_paths walks every component that is not a reference, from "".
Roots(api) == {s \in DOMAIN api.schemas : \E n \in DOMAIN api.components : api.components[n] = Item(s)}

Loaded == \A d \in Docs : todo[d] = {}

\* replace_all resolves one document after the other.
Resolving == CHOOSE d \in Docs : todo[d] # {}

\* One call of walk_schema: it inserts the paths of the PII schemas below s into
\* out, and calls itself on every schema below s, in some order.
walk_schema(d, s, prefix) ==
  /\ d = Resolving /\ <<s, prefix>> \in todo[d]
  /\ LET calls == Calls(Api[d], s, prefix)
     IN /\ todo' = [todo EXCEPT ![d] = (@ \ {<<s, prefix>>}) \cup calls]
        /\ paths' = [paths EXCEPT ![d] = @ \cup {c[2] : c \in {c \in calls : Api[d].schemas[c[1]].pii}}]
  /\ UNCHANGED callVars

Init ==
  /\ todo = [d \in Docs |-> {<<s, EmptyString>> : s \in Roots(Api[d])}]
  /\ paths = [d \in Docs |-> {}]
  /\ NoCall

\* A request is served once the cache holds the documents.
Serve ==
  /\ Loaded
  /\ \/ \E op \in Ops, p \in Sendable, d \in Docs, k \in Deks : Start(op, p, d, k)
     \/ Round
     \/ Return
  /\ UNCHANGED <<todo, paths>>

Next ==
  \/ \E d \in Docs : \E c \in todo[d] : walk_schema(d, c[1], c[2])
  \/ Serve

Spec == Init /\ [][Next]_vars

\* The calls to make and the paths are of the document, and no handler runs
\* before every document is resolved (replace_all).
TypeOK ==
  /\ todo = [d \in Docs |-> todo[d]] /\ paths \in [Docs -> SUBSET Strings]
  /\ \A d \in Docs : todo[d] \subseteq (DOMAIN Api[d].schemas) \X Strings
  /\ NoCall \/ (Called /\ Loaded /\ job.paths = paths[job.doc])
----------------------------------------------------------------------------
(* What the marks of a document mean, with no path written or parsed.      *)

\* The array k describes the n-fold items t.
Down(api, k, n, t) ==
  \E m \in [0..n -> DOMAIN api.schemas] :
    m[0] = k /\ m[n] = t /\ \A j \in 1..n : m[j] \in Items(api, m[j - 1])

\* One hop leads from schema s to schema t: along a key and through its arrays.
Hop(api, s, hop, t) ==
  \E k \in IF hop.key = NoKey THEN {s} ELSE Property(api, s, hop.key) : Down(api, k, hop.items, t)

\* The schemas c describe the values along the segments x, from the root on.
Describes(api, c, x) ==
  c[0] \in Roots(api) /\ \A i \in 1..Len(x) : Hop(api, c[i - 1], x[i], c[i])

\* Some component, taken for the payload's own schema, marks what x leads to.
MarkedBy(api, x) ==
  /\ x # <<>>
  /\ \E c \in [0..Len(x) -> DOMAIN api.schemas] :
       Describes(api, c, x) /\ api.schemas[c[Len(x)]].pii

Marked == [d \in Docs |-> {a \in Addresses : MarkedBy(Api[d], Follow(a))}]

PlainName(n) == Len(n) = 1 /\ n[1].brackets = 0 /\ n[1].text # ""
PlainDocument(api) == \A s \in DOMAIN api.schemas : \A n \in DOMAIN api.schemas[s].props : PlainName(n)
PlainKeys(x) == \A i \in DOMAIN x : x[i].key = NoKey \/ PlainName(x[i].key)

\* What the path language can express: plain names, and no arrays of arrays.
Expressible(x) == \A i \in DOMAIN x : PlainName(x[i].key) /\ x[i].items \in {0, 1}

Encrypted(v) == v.layers # <<>> /\ v.layers[Len(v.layers)] = job.dek

\* Every string that the document marks leaves encrypt_pii_fields as a token,
\* through $refs, arrays of strings and of objects and whatever else the document
\* holds, if its address is one that a path can express.  A marked object marks a
\* string in its own place, not the strings inside it.
MarkedLeavesEncrypted ==
  job.op = "encrypt" /\ answer.status = "ok" =>
    \A a \in DOMAIN answer.payload :
      a \in Marked[job.doc] /\ Expressible(Follow(a)) /\ IsString(job.payload[a])
        => Encrypted(answer.payload[a])

\* Nothing else is rewritten: a leaf that no component marks comes
\* back as it was sent, by encrypt and by decrypt (resolve_pii_paths, parse_path),
\* where the names in the document and the leaf's keys are plain.
OnlyMarkedLeavesChange ==
  answer.status = "ok" /\ PlainDocument(Api[job.doc]) =>
    \A a \in DOMAIN answer.payload :
      a \notin Marked[job.doc] /\ PlainKeys(a) => answer.payload[a] = job.payload[a]

\* "Encrypt all PII string fields in `payload` according to `pii_paths`." (the doc
\* of encrypt_pii_fields), with pii_paths "all dot-notation paths to properties
\* marked `x-pii: true`" (the doc of resolve_pii_paths).
AllMarkedLeavesEncrypted ==
  job.op = "encrypt" /\ answer.status = "ok" =>
    \A a \in DOMAIN answer.payload :
      a \in Marked[job.doc] /\ IsString(job.payload[a]) => Encrypted(answer.payload[a])
=============================================================================
