--------------------------- MODULE SchemasProofs ---------------------------
(***************************************************************************)
(* Proofs about Schemas for every set of keys and documents, every listing *)
(* order and every bound.                                                  *)
(***************************************************************************)
EXTENDS Schemas, TLAPS

\* Every key has its name among Names.
LEMMA NameOfKey == \A k \in Keys : schema_name_from_key(k) \in Names
  BY DEF Names

\* A page of the listing is a set of keys with an object.
LEMMA PageIsPresent == FirstPage(Present) \subseteq Present /\ Present \subseteq Keys
  BY DEF FirstPage, Present

\* Every step of the schema layer preserves the types of its state.
LEMMA TypeStep == TypeOK /\ [Next]_vars => TypeOK'
<1> SUFFICES ASSUME TypeOK, [Next]_vars PROVE TypeOK'
  OBVIOUS
<1> USE SchemaConstants DEF TypeOK, Contents, LoadPcs, Empty, NothingSeen
<1>1. CASE Start \/ SpawnRefresh \/ Tick
  BY <1>1 DEF Start, SpawnRefresh, Tick
<1>2. CASE ListObjects
  BY <1>2, PageIsPresent DEF ListObjects
<1>3. CASE ListObjectsErr \/ GetObjectErr \/ StackOverflow \/ Crash
  BY <1>3 DEF ListObjectsErr, GetObjectErr, StackOverflow, Crash, LoadErr,
     ProcessEnds, CallEnds
<1>4. ASSUME NEW k \in Keys, GetObject(k) PROVE TypeOK'
  BY <1>4, NameOfKey DEF GetObject
<1>5. CASE ReplaceAll
  BY <1>5 DEF ReplaceAll, NewMap, CallEnds
<1>6. ASSUME NEW k \in Keys, NEW d \in Docs \cup {Absent}, EditObject(k, d) PROVE TypeOK'
  BY <1>6 DEF EditObject
<1>7. CASE CrashesStop \/ UNCHANGED vars
  BY <1>7 DEF CrashesStop, vars
<1> QED BY <1>1, <1>2, <1>3, <1>4, <1>5, <1>6, <1>7 DEF Next

\* The schema layer's state keeps its types.
THEOREM TypeCorrect == Spec => []TypeOK
<1>1. Init => TypeOK
  BY SchemaConstants DEF Init, TypeOK, Contents, LoadPcs, Empty, NothingSeen
<1> QED BY <1>1, TypeStep, PTL DEF Spec

\* Fetching the next listed key extends the local map as LoadInv says: the key
\* comes after all fetched ones, so its document is the one its name must have.
LEMMA GetObjectExtends ==
  ASSUME TypeOK, LoadInv, NEW k \in Keys, GetObject(k)
  PROVE  ComesFrom(schemas', listed \ todo')
<1> DEFINE D == listed \ todo
           nk == schema_name_from_key(k)
<1>1. listed \ todo' = D \cup {k} /\ k \notin D
  BY DEF GetObject, NextKey, LoadInv
<1>2. \A j \in D : Rank[j] <= Rank[k]
  BY SchemaConstants DEF LoadInv, GetObject, NextKey, TypeOK
<1>3. bucket[k] \in seen[k] /\ bucket[k] # Absent
  BY SchemaConstants DEF GetObject, LoadInv
<1> SUFFICES ASSUME NEW n \in Names
             PROVE  IF Named(D \cup {k}, n) = {} THEN schemas'[n] = Absent
                    ELSE \E i \in Named(D \cup {k}, n) :
                           /\ \A j \in Named(D \cup {k}, n) : Rank[j] <= Rank[i]
                           /\ schemas'[n] \in seen[i]
  BY <1>1 DEF ComesFrom
<1>4. CASE n = nk
  <2>1. k \in Named(D \cup {k}, n)
    BY <1>4 DEF Named
  <2>2. \A j \in Named(D \cup {k}, n) : Rank[j] <= Rank[k]
    BY <1>2, SchemaConstants DEF Named
  <2>3. schemas'[n] = bucket[k]
    BY <1>4, NameOfKey DEF GetObject, TypeOK
  <2> QED BY <1>3, <2>1, <2>2, <2>3
<1>5. CASE n # nk
  <2>1. Named(D \cup {k}, n) = Named(D, n)
    BY <1>5 DEF Named
  <2>2. schemas'[n] = schemas[n]
    BY <1>5 DEF GetObject, TypeOK
  <2>3. ComesFrom(schemas, D)
    BY DEF LoadInv, GetObject
  <2> QED BY <2>1, <2>2, <2>3 DEF ComesFrom
<1> QED BY <1>4, <1>5

\* An edit of the bucket during a load only adds to what the keys have held.
LEMMA EditKeepsOrigin ==
  ASSUME TypeOK, LoadInv, NEW k \in Keys, NEW d \in Docs \cup {Absent},
         EditObject(k, d), loadPc = "fetch"
  PROVE  ComesFrom(schemas, listed \ todo)'
<1>1. \A i \in Keys : seen[i] \subseteq seen'[i]
  BY DEF EditObject, TypeOK
<1>2. ComesFrom(schemas, listed \ todo)
  BY DEF LoadInv
<1>3. \A n \in Names : Named(listed \ todo, n) \subseteq Keys
  BY DEF Named, TypeOK
<1> QED BY <1>1, <1>2, <1>3 DEF ComesFrom, Named, EditObject

\* Every step preserves the inductive invariant.
LEMMA LoadInvStep == TypeOK /\ LoadInv /\ [Next]_vars => LoadInv'
<1> SUFFICES ASSUME TypeOK, LoadInv, [Next]_vars PROVE LoadInv'
  OBVIOUS
<1> USE SchemaConstants
<1>1. CASE Start \/ SpawnRefresh \/ Tick
  BY <1>1 DEF Start, SpawnRefresh, Tick, LoadInv, Empty
<1>2. CASE ListObjects
  <2>1. ComesFrom(schemas, listed \ todo)'
    BY <1>2 DEF ListObjects, ComesFrom, Named, Empty
  <2>2. \A k \in Keys : bucket'[k] # Absent => bucket'[k] \in seen'[k]
    BY <1>2 DEF ListObjects, TypeOK
  <2> QED BY <1>2, <2>1, <2>2 DEF ListObjects, LoadInv, Empty
<1>3. CASE ListObjectsErr \/ GetObjectErr \/ StackOverflow \/ Crash
  BY <1>3 DEF ListObjectsErr, GetObjectErr, StackOverflow, Crash, LoadErr,
     ProcessEnds, CallEnds, LoadInv, Empty
<1>4. ASSUME NEW k \in Keys, GetObject(k) PROVE LoadInv'
  <2>1. ComesFrom(schemas, listed \ todo)'
    BY <1>4, GetObjectExtends DEF GetObject, ComesFrom, Named
  <2>2. \A i \in listed' \ todo', j \in todo' : Rank[i] < Rank[j]
    BY <1>4 DEF GetObject, NextKey, LoadInv, TypeOK
  <2>3. \A n \in Names : schemas'[n] \in Parsable \cup {Absent}
    BY <1>4 DEF GetObject, LoadInv, TypeOK
  <2> QED BY <1>4, <2>1, <2>2, <2>3 DEF GetObject, LoadInv
<1>5. CASE ReplaceAll
  <2>1. \A n \in Names : cache'[n] \in (Parsable \ Recursive) \cup {Absent}
    BY <1>5 DEF ReplaceAll, NewMap, Overflows, LoadInv
  <2> QED BY <1>5, <2>1 DEF ReplaceAll, CallEnds, LoadInv, Empty
<1>6. ASSUME NEW k \in Keys, NEW d \in Docs \cup {Absent}, EditObject(k, d) PROVE LoadInv'
  <2>1. loadPc' = "fetch" => ComesFrom(schemas, listed \ todo)'
    BY <1>6, EditKeepsOrigin DEF EditObject
  <2>2. loadPc' = "fetch" => \A i \in Keys : bucket'[i] # Absent => bucket'[i] \in seen'[i]
    BY <1>6 DEF EditObject, LoadInv, TypeOK
  <2> QED BY <1>6, <2>1, <2>2 DEF EditObject, LoadInv
<1>7. CASE CrashesStop \/ UNCHANGED vars
  BY <1>7 DEF CrashesStop, vars, LoadInv, ComesFrom, Named
<1> QED BY <1>1, <1>2, <1>3, <1>4, <1>5, <1>6, <1>7 DEF Next

\* The local map of a load always comes from the keys fetched so far.
THEOREM LoadInvariant == Spec => []LoadInv
<1>1. Init => LoadInv
  BY SchemaConstants DEF Init, LoadInv, Empty
<1> QED BY <1>1, LoadInvStep, TypeCorrect, PTL DEF Spec

\* The cache never holds a document that does not parse or resolve.
THEOREM CacheResolved == Spec => []CachedSchemasAreResolved
<1>1. LoadInv => CachedSchemasAreResolved
  BY DEF LoadInv, CachedSchemasAreResolved
<1> QED BY <1>1, LoadInvariant, PTL

\* A living process's cache only changes to the complete result of one load.
THEOREM AllOrNothing == Spec => RefreshIsAllOrNothing
<1> DEFINE A == cache' # cache /\ loadPc' # "off" => ComesFrom(cache', listed)
<1>1. TypeOK /\ LoadInv /\ [Next]_vars => [A]_vars
  <2> SUFFICES ASSUME TypeOK, LoadInv, Next, cache' # cache, loadPc' # "off"
               PROVE  ComesFrom(cache', listed)
    OBVIOUS
  <2>1. CASE ReplaceAll
    <3>1. listed \ todo = listed /\ cache' = schemas /\ ComesFrom(schemas, listed \ todo)
      BY <2>1 DEF ReplaceAll, NewMap, LoadInv
    <3> QED BY <3>1
  <2>2. CASE Start
    BY <2>2 DEF Start, LoadInv
  <2> QED BY <2>1, <2>2 DEF Next, SpawnRefresh, Tick, ListObjects, ListObjectsErr,
          GetObject, GetObjectErr, StackOverflow, EditObject, Crash, CrashesStop, LoadErr, ProcessEnds
<1> QED BY <1>1, TypeCorrect, LoadInvariant, PTL DEF Spec, RefreshIsAllOrNothing
=============================================================================
