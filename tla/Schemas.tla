------------------------------ MODULE Schemas ------------------------------
(***************************************************************************)
(* The schema layer of the enclave: load_all and refresh_task              *)
(* (schema/mod.rs) and SchemaCache (schema/cache.rs).                      *)
(*                                                                         *)
(* load_all is one call of main at startup and one call per tick of the    *)
(* refresh task, spawned after main's call returned: one call at most is   *)
(* in flight.  It lists the bucket, then fetches the objects one by one in *)
(* listing order; objects may be put or deleted between any two steps.     *)
(* A document is abstracted to a model value and to whether it parses and  *)
(* whether its $refs are recursive (then resolve_pii_paths does not end:   *)
(* the stack overflows and the process aborts).                            *)
(***************************************************************************)
EXTENDS Naturals, FiniteSets, Sequences

CONSTANTS Keys,         \* S3 object keys below the prefix: <<stem, ext>> or <<stem>>
          Rank,         \* Rank[k]: place of k in S3's listing order
          Docs,         \* contents an object may have
          Parsable,     \* those that are UTF-8 and parse as an OpenAPI document
          Recursive,    \* those of them with a cycle of $refs
          Absent,       \* no object under a key, no schema under a name
          PageSize,     \* keys in one list_objects_v2 page (1000 in S3)
          MaxEdits      \* bound on the puts and deletes in the bucket

ASSUME SchemaConstants ==
  /\ IsFiniteSet(Keys)
  /\ Rank \in [Keys -> Nat]
  /\ \A j, k \in Keys : Rank[j] = Rank[k] => j = k
  /\ Recursive \subseteq Parsable /\ Parsable \subseteq Docs /\ Absent \notin Docs
  /\ PageSize \in Nat /\ MaxEdits \in Nat

VARIABLES bucket,       \* bucket[k]: the object under k, or Absent
          cache,        \* SchemaCache.inner: the schema under each name, or Absent
          loadPc,       \* where the call of load_all stands
          loader,       \* who called it
          todo,         \* listed keys it has still to fetch
          schemas,      \* its local map of parsed schemas
          listed,       \* history: the keys it listed
          seen,         \* history: what each key held since the listing
          edits,        \* puts and deletes so far
          env           \* "calm": no longer ends the process from outside

vars == <<bucket, cache, loadPc, loader, todo, schemas, listed, seen, edits, env>>

Extensions == {"yaml", "yml", "json"}

\* One extension is stripped; the prefix is left out of the model's keys.
schema_name_from_key(k) ==
  IF Len(k) = 2 /\ k[2] \in Extensions THEN <<k[1]>> ELSE k

Names == {schema_name_from_key(k) : k \in Keys}

Empty == [n \in Names |-> Absent]
NothingSeen == [k \in Keys |-> {}]

\* "off": no process; "loaded": main's call returned Ok and refresh_task is
\* not spawned yet; "waiting": refresh_task awaits its next tick.
LoadPcs == {"off", "list", "fetch", "loaded", "waiting"}

Init ==
  /\ bucket \in [Keys -> Docs \cup {Absent}]
  /\ cache = Empty
  /\ loadPc = "off"
  /\ loader = "main"
  /\ todo = {}
  /\ schemas = Empty
  /\ listed = {}
  /\ seen = NothingSeen
  /\ edits = 0 /\ env = "crashing"
----------------------------------------------------------------------------
Present == {k \in Keys : bucket[k] # Absent}

\* list_objects_v2 is called once: a continuation token is not followed.
FirstPage(S) == {k \in S : Cardinality({j \in S : Rank[j] < Rank[k]}) < PageSize}

\* The locals of load_all are gone when it returns.
CallEnds == todo' = {} /\ schemas' = Empty /\ listed' = {} /\ seen' = NothingSeen

ProcessEnds == loadPc' = "off" /\ cache' = Empty /\ CallEnds

\* Mutant: a failed refresh publishes what it had fetched.
LoadErrPublishes ==
  IF loader = "main" THEN ProcessEnds
  ELSE loadPc' = "waiting" /\ CallEnds /\ cache' = schemas

\* An Err from load_all: main's `?` ends the process, refresh_task warns,
\* keeps the previous cache and awaits the next tick.
LoadErr ==
  IF loader = "main" THEN ProcessEnds
  ELSE loadPc' = "waiting" /\ CallEnds /\ UNCHANGED cache

\* main: SchemaCache::new() and the call of load_all.
Start ==
  /\ loadPc = "off"
  /\ loadPc' = "list"
  /\ loader' = "main"
  /\ cache' = Empty
  /\ UNCHANGED <<bucket, todo, schemas, listed, seen, edits, env>>

\* main: refresh_task is spawned; its first tick, immediate, is skipped.
SpawnRefresh ==
  /\ loadPc = "loaded"
  /\ loadPc' = "waiting"
  /\ UNCHANGED <<bucket, cache, loader, todo, schemas, listed, seen, edits, env>>

Tick ==
  /\ loadPc = "waiting"
  /\ loadPc' = "list"
  /\ loader' = "refresh_task"
  /\ UNCHANGED <<bucket, cache, todo, schemas, listed, seen, edits, env>>

\* An empty listing is only warned about.
ListObjects ==
  /\ loadPc = "list"
  /\ loadPc' = "fetch"
  /\ listed' = FirstPage(Present)
  /\ todo' = listed'
  /\ schemas' = Empty
  /\ seen' = [k \in Keys |-> {bucket[k]} \ {Absent}]
  /\ UNCHANGED <<bucket, cache, loader, edits, env>>

ListObjectsErr ==
  /\ loadPc = "list"
  /\ LoadErr
  /\ UNCHANGED <<bucket, loader, edits, env>>

\* Mutant: the objects are fetched in any order.
NextKeyAny(k) == k \in todo

\* The listed keys are fetched in listing order.
NextKey(k) == k \in todo /\ \A j \in todo : Rank[k] <= Rank[j]

\* get_object, the body, UTF-8 and the parse of the next listed object; a later
\* key of the same name overwrites an earlier one in the local map.
GetObject(k) ==
  /\ loadPc = "fetch"
  /\ NextKey(k)
  /\ bucket[k] \in Parsable
  /\ schemas' = [schemas EXCEPT ![schema_name_from_key(k)] = bucket[k]]
  /\ todo' = todo \ {k}
  /\ UNCHANGED <<bucket, cache, loadPc, loader, listed, seen, edits, env>>

\* The call fails, the object is gone or it does not parse: load_all gives up.
GetObjectErr ==
  /\ loadPc = "fetch"
  /\ todo # {}
  /\ LoadErr
  /\ UNCHANGED <<bucket, loader, edits, env>>

\* Mutant: the new schemas are merged into the old map.
NewMapMerged == [n \in Names |-> IF schemas[n] = Absent THEN cache[n] ELSE schemas[n]]

\* SchemaCache::replace_all publishes the local map as it is.
NewMap == schemas

Overflows == \E n \in Names : schemas[n] \in Recursive

\* replace_all resolves every document's PII paths, then swaps the whole map.
ReplaceAll ==
  /\ loadPc = "fetch"
  /\ todo = {}
  /\ ~Overflows
  /\ cache' = NewMap
  /\ loadPc' = IF loader = "main" THEN "loaded" ELSE "waiting"
  /\ CallEnds
  /\ UNCHANGED <<bucket, loader, edits, env>>

\* resolve_pii_paths recurses without end on recursive $refs: the process aborts.
StackOverflow ==
  /\ loadPc = "fetch"
  /\ todo = {}
  /\ Overflows
  /\ ProcessEnds
  /\ UNCHANGED <<bucket, loader, edits, env>>
----------------------------------------------------------------------------
\* The environment: the operator puts or deletes an object; the process ends
\* for a reason outside the schema layer.
EditObject(k, d) ==
  /\ edits < MaxEdits
  /\ edits' = edits + 1
  /\ bucket[k] # d
  /\ bucket' = [bucket EXCEPT ![k] = d]
  /\ seen' = IF loadPc = "fetch" THEN [seen EXCEPT ![k] = @ \cup ({d} \ {Absent})]
             ELSE seen
  /\ UNCHANGED <<cache, loadPc, loader, todo, schemas, listed, env>>

Crash ==
  /\ loadPc # "off"
  /\ env = "crashing"
  /\ ProcessEnds
  /\ UNCHANGED <<bucket, loader, edits, env>>

CrashesStop ==
  /\ env = "crashing"
  /\ env' = "calm"
  /\ UNCHANGED <<bucket, cache, loadPc, loader, todo, schemas, listed, seen, edits>>

Next ==
  \/ Start \/ SpawnRefresh \/ Tick
  \/ ListObjects \/ ListObjectsErr
  \/ \E k \in Keys : GetObject(k)
  \/ GetObjectErr
  \/ ReplaceAll \/ StackOverflow
  \/ \E k \in Keys, d \in Docs \cup {Absent} : EditObject(k, d)
  \/ Crash \/ CrashesStop

Spec == Init /\ [][Next]_vars

\* The runner restarts the enclave, main and the task run on, and no S3 call
\* fails for ever.  Nothing makes the operator or a crash act.
Fairness ==
  /\ WF_vars(Start) /\ WF_vars(SpawnRefresh) /\ WF_vars(Tick)
  /\ SF_vars(ListObjects) /\ \A k \in Keys : SF_vars(GetObject(k))
  /\ WF_vars(ListObjects \/ ListObjectsErr)
  /\ WF_vars((\E k \in Keys : GetObject(k)) \/ GetObjectErr)
  /\ WF_vars(ReplaceAll \/ StackOverflow)

FairSpec == Spec /\ Fairness
----------------------------------------------------------------------------
Contents == Docs \cup {Absent}

TypeOK ==
  /\ bucket \in [Keys -> Contents]
  /\ cache \in [Names -> Contents] /\ schemas \in [Names -> Contents]
  /\ loadPc \in LoadPcs
  /\ loader \in {"main", "refresh_task"}
  /\ todo \subseteq Keys /\ listed \subseteq Keys
  /\ seen \in [Keys -> SUBSET Docs]
  /\ edits \in 0..MaxEdits /\ env \in {"crashing", "calm"}

Named(S, n) == {k \in S : schema_name_from_key(k) = n}

\* m is what a map of the objects under S must be: a schema for exactly the
\* names of S, each held since the listing by the last listed key of its name.
ComesFrom(m, S) ==
  \A n \in Names :
    IF Named(S, n) = {} THEN m[n] = Absent
    ELSE \E k \in Named(S, n) :
           /\ \A j \in Named(S, n) : Rank[j] <= Rank[k]
           /\ m[n] \in seen[k]

\* The inductive invariant: the local map comes from the keys fetched so far,
\* which precede the ones still to fetch.
LoadInv ==
  /\ todo \subseteq listed
  /\ \A k \in listed \ todo, j \in todo : Rank[k] < Rank[j]
  /\ loadPc = "fetch" => ComesFrom(schemas, listed \ todo)
  /\ loadPc = "fetch" => \A k \in Keys : bucket[k] # Absent => bucket[k] \in seen[k]
  /\ \A n \in Names : schemas[n] \in Parsable \cup {Absent}
  /\ \A n \in Names : cache[n] \in (Parsable \ Recursive) \cup {Absent}
  /\ loadPc = "off" => cache = Empty

\* The cache only ever holds documents that parse and whose PII paths could be
\* resolved, whatever was put in the bucket (load_all, replace_all).
CachedSchemasAreResolved ==
  \A n \in Names : cache[n] \in (Parsable \ Recursive) \cup {Absent}

\* While the process lives the cache changes only to the complete result of one
\* load: no failed or half-done load shows, removed schemas are gone, and of two
\* keys with one name the last listed wins (load_all, replace_all).
RefreshIsAllOrNothing ==
  [][cache' # cache /\ loadPc' # "off" => ComesFrom(cache', listed)]_vars

\* The map of all objects in the bucket: of one name, the last listed.
Image == [n \in Names |->
  LET ks == Named(Present, n)
  IN IF ks = {} THEN Absent
     ELSE bucket[CHOOSE k \in ks : \A j \in ks : Rank[j] <= Rank[k]]]

\* "Fetch all OpenAPI schema files from S3 and atomically replace the cache."
\* (load_all, refresh_task): once crashes stop, the bucket is left alone and holds
\* only documents that load, the cache eventually serves exactly these, through
\* failing calls and failed startups.
BucketIsServed ==
  (env = "calm" /\ edits = MaxEdits /\ \A k \in Present : bucket[k] \in Parsable \ Recursive)
    ~> (cache = Image)

\* "On refresh failure the previous cache contents are retained and a warning
\* is emitted; the service continues to operate with stale schemas."
\* (refresh_task): nothing in a refresh ends the process.
RefreshNeverEndsService ==
  [][env = "calm" /\ loader = "refresh_task" /\ loadPc # "off" => loadPc' # "off"]_vars
=============================================================================
