----------------------------- MODULE DekProofs -----------------------------
(***************************************************************************)
(* Proofs about Dek for every value of its bounds.                         *)
(***************************************************************************)
EXTENDS Dek, TLAPS

\* The initial state has the declared types.
LEMMA TypeInit == Init => TypeOK
<1> SUFFICES ASSUME Init PROVE TypeOK
  OBVIOUS
<1>1. PICK k \in Kinds : secret = <<k>>
  BY DEF Init
<1>2. secret \in Seq(Kinds) /\ Len(secret) \in 1..MaxVersions
  BY <1>1, DekBounds
<1> QED BY <1>2, DekBounds DEF Init, TypeOK, NoDek, FetchPcs

\* Every step of the DEK layer preserves the types of its state.
LEMMA TypeStep == TypeOK /\ [Next]_vars => TypeOK'
<1> SUFFICES ASSUME TypeOK, [Next]_vars PROVE TypeOK'
  OBVIOUS
<1> USE DekBounds DEF TypeOK, FetchPcs, NoDek, Current
<1>1. CASE Start \/ SpawnRotation \/ Tick
  BY <1>1 DEF Start, SpawnRotation, Tick
<1>2. CASE GetSecretValue \/ KmsDecrypt \/ StoreDek
  BY <1>2 DEF GetSecretValue, SecretReturned, KmsDecrypt, StoreDek
<1>3. CASE GetSecretValueErr \/ KmsDecryptErr \/ StoreDekErr \/ Crash \/ CrashesStop
  BY <1>3 DEF CrashesStop, GetSecretValueErr, KmsDecryptErr, StoreDekErr, FetchErr, ProcessEnds, Crash
<1>4. ASSUME NEW k \in Kinds, PutSecretValue(k) PROVE TypeOK'
  BY <1>4 DEF PutSecretValue
<1>5. CASE UNCHANGED vars
  BY <1>5 DEF vars
<1> QED BY <1>1, <1>2, <1>3, <1>4, <1>5 DEF Next

\* The DEK layer's state keeps its types, whatever interleaves with a fetch.
THEOREM TypeCorrect == Spec => []TypeOK
  BY TypeInit, TypeStep, PTL DEF Spec

\* Every step preserves the inductive invariant.
LEMMA FetchInvStep == TypeOK /\ FetchInv /\ [Next]_vars => FetchInv'
<1> SUFFICES ASSUME TypeOK, FetchInv, [Next]_vars PROVE FetchInv'
  OBVIOUS
<1> USE DekBounds DEF TypeOK, FetchInv, NoDek, Current
<1>1. CASE Start \/ SpawnRotation \/ Tick
  BY <1>1 DEF Start, SpawnRotation, Tick
<1>2. CASE GetSecretValue \/ KmsDecrypt
  BY <1>2 DEF GetSecretValue, SecretReturned, KmsDecrypt
<1>3. CASE StoreDek
  BY <1>3 DEF StoreDek, LengthOk
<1>4. CASE GetSecretValueErr \/ KmsDecryptErr \/ StoreDekErr \/ Crash \/ CrashesStop
  BY <1>4 DEF CrashesStop, GetSecretValueErr, KmsDecryptErr, StoreDekErr, FetchErr, ProcessEnds, Crash
<1>5. ASSUME NEW k \in Kinds, PutSecretValue(k) PROVE FetchInv'
  BY <1>5 DEF PutSecretValue
<1>6. CASE UNCHANGED vars
  BY <1>6 DEF vars
<1> QED BY <1>1, <1>2, <1>3, <1>4, <1>5, <1>6 DEF Next

\* The inductive invariant: a version in flight is never older than the stored
\* one, so it cannot make the store go back when it arrives.
THEOREM FetchInvariant == Spec => []FetchInv
<1>1. Init => FetchInv
  BY DEF Init, FetchInv, NoDek, Current
<1> QED BY <1>1, FetchInvStep, TypeCorrect, PTL DEF Spec

\* DekStore only ever holds a key of the right length.
THEOREM WellFormedKey == Spec => []StoredKeyIsWellFormed
<1>1. FetchInv => StoredKeyIsWellFormed
  BY DEF FetchInv, StoredKeyIsWellFormed
<1> QED BY <1>1, FetchInvariant, PTL

\* No step makes the stored version go back, restarts included.
THEOREM NeverGoesBack == Spec => DekNeverGoesBack
<1>1. TypeOK /\ FetchInv /\ [Next]_vars => [high' >= high]_vars
  BY DEF TypeOK, FetchInv, Next, vars, Start, SpawnRotation, Tick, GetSecretValue,
     GetSecretValueErr, KmsDecrypt, KmsDecryptErr, StoreDek, StoreDekErr,
     PutSecretValue, Crash, CrashesStop
<1> QED BY <1>1, TypeCorrect, FetchInvariant, PTL DEF Spec, DekNeverGoesBack

\* A failed rotation retains the key: it is lost with the process only.
THEOREM KeyRetained == Spec => KeyLostOnlyWithProcess
<1>1. TypeOK /\ FetchInv /\ [Next]_vars
        => [store # NoDek /\ store' = NoDek => fetchPc' = "off"]_vars
  <2> SUFFICES ASSUME TypeOK, FetchInv, Next, store # NoDek, store' = NoDek
               PROVE  fetchPc' = "off"
    BY DEF vars
  <2>1. CASE Start
    BY <2>1 DEF Start, FetchInv, TypeOK, NoDek
  <2> QED BY <2>1 DEF TypeOK, FetchInv, Next, SpawnRotation, Tick, GetSecretValue,
          GetSecretValueErr, KmsDecrypt, KmsDecryptErr, StoreDek, StoreDekErr,
          PutSecretValue, Crash, CrashesStop, FetchErr, ProcessEnds, NoDek
<1> QED BY <1>1, TypeCorrect, FetchInvariant, PTL DEF Spec, KeyLostOnlyWithProcess

\* A successful fetch stores a key as new as AWSCURRENT when it began.
THEOREM Fresh == Spec => FetchIsFresh
<1>1. FetchInv /\ TypeOK /\ [Next]_vars => [StoreDek => store' >= asOf]_vars
  BY DEF FetchInv, TypeOK, StoreDek, Current
<1> QED BY <1>1, TypeCorrect, FetchInvariant, PTL DEF Spec, FetchIsFresh

\* A put adds the version it publishes to the usable ones, if it is well-formed.
LEMMA PutPublishes ==
  ASSUME TypeOK, NEW k \in Kinds, PutSecretValue(k)
  PROVE  [Register!Next]_Register!vars
<1> DEFINE U == {v \in 1..Len(secret) : secret[v] = "key32"}
           n == Len(secret) + 1
<1>1. /\ Len(secret') = n /\ secret'[n] = k /\ n \in 1..MaxVersions
      /\ \A v \in 1..Len(secret) : secret'[v] = secret[v]
  BY DekBounds DEF TypeOK, PutSecretValue, Current
<1>2. CASE k = "key32"
  <2>1. U' = U \cup {n}
    BY <1>1, <1>2 DEF TypeOK
  <2>2. \A u \in U : u < n
    BY DEF TypeOK
  <2>3. Register!Publish
    BY <1>1, <2>1, <2>2 DEF Register!Publish, PutSecretValue
  <2> QED BY <2>3 DEF Register!Next
<1>3. CASE k # "key32"
  <2>1. U' = U
    BY <1>1, <1>3 DEF TypeOK
  <2> QED BY <2>1 DEF Register!vars, PutSecretValue
<1> QED BY <1>2, <1>3

\* Every other step adopts a usable version, loses the key or shows nothing.
LEMMA RegisterStep ==
  TypeOK /\ FetchInv /\ [Next]_vars => [Register!Next]_Register!vars
<1> SUFFICES ASSUME TypeOK, FetchInv, [Next]_vars
             PROVE  [Register!Next]_Register!vars
  OBVIOUS
<1>1. CASE SpawnRotation \/ Tick \/ GetSecretValue \/ KmsDecrypt \/ CrashesStop \/ UNCHANGED vars
  BY <1>1 DEF CrashesStop, SpawnRotation, Tick, GetSecretValue, KmsDecrypt, vars, Register!vars
<1>2. CASE StoreDek
  BY <1>2 DEF StoreDek, LengthOk, FetchInv, TypeOK, Current, NoDek,
     Register!Next, Register!Adopt
<1>3. CASE Start \/ GetSecretValueErr \/ KmsDecryptErr \/ StoreDekErr \/ Crash
  BY <1>3 DEF Start, GetSecretValueErr, KmsDecryptErr, StoreDekErr, Crash, FetchErr,
     ProcessEnds, Register!Next, Register!Lose, Register!vars
<1> QED BY <1>1, <1>2, <1>3, PutPublishes DEF Next

\* The DEK layer, with its awaits, failures and restarts, implements the
\* register of DekRegister.
THEOREM RefinesRegister == Spec => ImplementsRegister
<1>1. Init => Register!Init
  BY DekBounds, TypeInit DEF Init, Register!Init, NoDek, TypeOK
<1> QED BY <1>1, RegisterStep, TypeCorrect, FetchInvariant, PTL
        DEF Spec, ImplementsRegister, Register!Spec
=============================================================================
