# A TLA+ model of nitro-enc-svc

nitro-enc-svc encrypts and decrypts the PII fields of JSON payloads inside an
AWS Nitro Enclave. This directory holds TLA+ modules that model the enclave
service, the TLC configurations that check them on small instances, and TLAPS
proofs of their safety properties for every value of the constants.

Paths below are relative to `src/crates/enclave/src/` unless they start with
`src/`.

## The system

| Part | Code | Module |
|---|---|---|
| DEK store, fetch, rotation | `dek/` | `Dek`, abstract spec `DekRegister` |
| Schema cache, load, refresh | `schema/mod.rs`, `schema/cache.rs` | `Schemas` |
| Field cipher and its use on leaves | `crypto/cipher.rs`, leaves in `server/handlers.rs` | `FieldCipher` |
| Handlers, router | `server/` | `Handlers` |
| Startup and process lifetime | `main.rs` | `Service`, which composes the above |
| Path parser, loop over PII paths, walk through a payload | `server/handlers.rs` | `Traversal`, abstract spec `FieldStep` |
| PII path resolver | `schema/resolver.rs` | `PiiPaths`; its non-termination in `Schemas` |
| IMDS, OTLP and log bridges | `main.rs`, `telemetry/log_writer.rs` | `Bridges`, and `Relay` for a connection |
| vsock-proxy sidecar | `src/crates/vsock-proxy/` | `Relay`, abstract spec `Pipe` |
| AWS clients over vsock, configuration | `aws/`, `config.rs` | `Outbound` |
| Enclave runner | `src/scripts/run-enclave.sh`, `enclave-entrypoint.sh` | `Runner` |
| A node: runner, enclave, outbound calls | the above | `Node` |
| TLS, telemetry, protocol types | `server/tls.rs`, `telemetry/`, `src/crates/common/` | outcomes only |
| Deployment and infrastructure | `src/terraform/`, `src/deploy/`, `src/scripts/deploy.sh`, ... | no |

How they interact. `main` fetches the data encryption key (DEK) from Secrets
Manager, decrypts it with KMS and stores it. It then loads all schemas from S3
into the cache, spawns a rotation task and a refresh task that repeat those two
calls on a timer, and accepts TLS connections. A request names a schema in a
header; its handler clones that schema, clones the current DEK, and encrypts or
decrypts the fields the schema marks with `x-pii`. Key and cache live in memory
only; a restart begins again from AWS. Clients reach the enclave through the
vsock-proxy on the parent; the enclave reaches IMDS and the telemetry collector
through three bridges `main` starts first. Proxy and bridges relay a connection
in the same way. Calls to AWS go over vsock to proxies on the parent, one port
per service, with TLS from end to end. On the parent a script launches the
enclave, watches it and terminates it; Kubernetes restarts the script.

## The modules

**`Dek`** (`dek/mod.rs`, `dek/store.rs`). Key material is the number of the
secret's version. `fetch_and_store` is three steps, one per await
(`GetSecretValue`, `KmsDecrypt`, `StoreDek`), each with an error twin; `FetchErr`
says what an error does to each of the two callers. `secret` is the history of
versions, of three kinds: 32 bytes, another length, or stored as a string. The
variables `asOf` and `high` are history variables the properties need.

**`DekRegister`** is what the DEK layer promises: a register that is empty or
holds a usable version and moves forward only. `Dek` implements it.

**`Schemas`** (`schema/mod.rs`, `schema/cache.rs`). `load_all` lists once
(`ListObjects`), fetches one object per step in listing order (`GetObject`) and
publishes (`ReplaceAll`). The bucket may change between any two steps. A
document is a model value; the model knows whether it parses and whether its
`$ref`s form a cycle. On a cycle `walk_schema` does not return and the process
aborts (`StackOverflow`). `seen` and `listed` are history variables.

**`FieldCipher`** (`crypto/cipher.rs`). A field's value is its original content
and the key versions wrapped around it since. Encryption is deterministic
(the nonce comes from key and plaintext), so this identifies the string. The
AEAD is ideal: a token opens under the key that made it and no other.

**`Handlers`** (`server/handlers.rs`, `server/router.rs`) has the requests. A
handler is split at its awaits and its reads of shared state; it reads the
store and the cache and writes neither. `Timeout` is the router's
`TimeoutLayer`; the body comes from the client (`BodyArrives`) and may never come. A client may send back any payload it was answered.

**`Service`** composes the two layers, by INSTANCE, with the handlers and adds
`main` (`phase`). `ProcessEnds` is any end of the process, an error from
`accept` included; a request that was in flight is then `lost`.

**`FieldStep`** is `encrypt_pii_fields` and `decrypt_pii_fields` as `Handlers` uses
them: all PII fields in one step, or an error. **`Traversal`**
(`server/handlers.rs`) is the code behind it: the loop takes the paths from
a `HashSet` in any order, `parse_path` splits each into segments, and
`encrypt_at_path` and `decrypt_at_path` follow the segments through a JSON tree.
A string is its parts between dots, each with its number of trailing `[]`, which
is what `parse_path` tells apart. A tree is a function from the addresses of its
leaves to their values; an address is a sequence of hops, each a key with the
array indexes that follow it. `Traversal` implements `FieldStep`.

**`PiiPaths`** adds where the paths come from. A document is a table of schemas
with the references between them. `walk_schema` is one call of the function: it
inserts the paths of the PII schemas right below its schema and adds the calls it
makes to `todo`; `replace_all` is done when no call is left. The order of calls
is left open, which the code fixes; the set of paths does not depend on it. The
reference definition, `Marked`, says which addresses a document marks by a chain
of schemas that describes the values on the way there; it writes no path.

**`Relay`** (`src/crates/vsock-proxy/src/proxy.rs`) is one connection:
`handle_connection` with its two copies and the `select!` that drops both when
one ends. A direction is a queue at the relay's socket, the buffer of `io::copy`
and the sink's window, each with a capacity. The ends send, half-close, close
and reset at any time. A socket dropped with unread data is reset, and its peer
may then lose what it had not read. The connections of the bridges make the same
calls; connections share no state, so one is enough. `why` and `rst` are history
variables.

**`Pipe`** is what a relayed connection promises: two FIFO channels that may stop
anywhere and never show a gap. `Relay` implements it.

**`Bridges`** (`main.rs`, `telemetry/log_writer.rs`, `telemetry/init.rs`) starts
the bridges in `main`'s order with failing binds, then follows the log path:
`SharedTcpWriter` is a mutex and a blocking socket used from every thread, and
the bridge's tasks (`AcceptLog`, `ConnectVsock`, `CopyUp`, `CopyEnds`) take a
step only on a worker that is free. Records are counted, not identified.

The writer connects to the bridge's own listener, so it exists even if the
parent does not listen on 4318; `main.rs:93` suggests otherwise.

**`Runner`** (`src/scripts/run-enclave.sh`) is the script between its commands:
launch, extraction of the id, trap, monitor loop, exit. A signal waits for the
foreground command; a command may fail under `set -e`; the container may be
killed at any point. An orphan, an enclave whose runner ended without
terminating it, makes every launch fail until it goes; one that still runs goes
on serving, watched by nobody. `faulty` is a history variable: since the launch
the container was killed, the script exited before its trap was set, or
`terminate-enclave` failed.

**`Outbound`** (`aws/vsock_connector.rs`, `aws/clients.rs`, `config.rs`) is a call
of `main`, of rotation or of refresh: `vsock_port` picks the port from the host's
labels (modulo 2^32 in the code), the connection goes to whichever service that
port's proxy relays to, TLS checks the name, and the connection may return to
the pool. Proxies stop and start, and a peer may close a connection or say
nothing. A configuration is validated at every start.
hyper's pool, TLS and the SDK are external.

**`Node`** composes the two: the process is the enclave's PID 1, so each starts
and ends with the other.

**`MC*`** give the constants values for TLC. **`*Proofs`** hold the theorems.

## The runs

| Run | Shows |
|---|---|
| `dek` | The stored key never goes back (restarts included), survives failed rotations, and is as new as the start of its fetch; the layer implements `DekRegister`; a well-formed current key is eventually stored |
| `schemas` | A load shows all or nothing of its result; only resolvable documents are cached; a bucket that fits one listing page and is left alone is eventually served exactly |
| `service_rotation` | Two requests against rotations and restarts: no 503 and no encrypt 500, keys follow real time, decrypt undoes encrypt, a token opens under its key only |
| `service` | PII leaves encrypted though schema and key are read apart; health is truthful; the composition implements both layers; every request ends, even if its client never sends the body; the service comes up and stays up |
| `pii_paths` | Exactly the marked leaves whose address a path can express are rewritten, once, in whatever order the paths come, through `$ref`s, arrays, marked objects (a string in the object's own place, not the strings inside it) and repeated encryption; the loop implements the step of `Handlers` |
| `relay` | A relayed connection loses, repeats and reorders nothing while it runs, delivers in full the direction that ended it, and implements `Pipe`; when one end ends its side, both streams are eventually dropped |
| `bridges` | No client finds its bridge unbound; a log write returns while one worker is not logging, whatever the parent does |
| `node` | An enclave is left without a runner by a fault only; an answer comes from the service the host names even with a wrong base port; with the right one every call arrives at its service; a serving process has both its tasks; the enclave comes back; a TERM ends the container; nothing but a silent peer holds a call |

Four runs show where a doc and the code disagree; TLC is expected to find the
violation.

| Run | The doc says | The code does |
|---|---|---|
| `schemas_recursive` | `schema/mod.rs:111`: a failed refresh retains the cache and the service continues | recursive `$ref`s overflow the stack and end the process |
| `schemas_paged` | `schema/mod.rs:32`: all schema files are fetched | the bucket is listed once; with more keys than a page holds (1000 in S3) the schemas beyond it are never served |
| `bridges_starved` | `main.rs:240`: the log bridge is best-effort | the write blocks; with a full socket and all workers logging, no worker is left to drain it |
| `pii_paths_all` | `server/handlers.rs:314`: all PII string fields are encrypted, for all paths of `schema/resolver.rs:15` | a path through an array of arrays, from a root array or through a name with a dot leads nowhere, and the string stays in clear |

`BucketIsServed` is one property: it passes in `schemas`, where a page holds all
keys, and fails in `schemas_paged`, where it does not. In the same way
`LogWriteReturns` passes in `bridges` and fails in `bridges_starved`.

Two smaller disagreements have no run: the log writer noted under `Bridges`, and
`src/README.md:527`, which says that non-encrypted fields are left unchanged where
the code (and `server/handlers.rs:329`) takes every string that starts with `v1.`
for a token.

### Bounds

- `MaxVersions` (4 in `dek`): enough for a stored key, one in flight, a newer
  one put meanwhile and a malformed one. 2 in `service_rotation`: one rotation
  between any two steps of the two requests.
- `MaxEdits` (2): one change before and one during a load. Three keys of two
  names, so that two keys collide.
- `PageSize`: 3 in `schemas`, all keys; 2 in `schemas_paged`, one key is beyond
  the first page.
- Two requests are what a pair property (`RoundTrip`, `KeysFollowRealTime`)
  needs. `Requests` is symmetric there; the run checks invariants only, so the
  symmetry is sound. `service` has one request, one key version, more documents
  and one edit (`MaxEdits`), which can fall between any two steps of the request.
- `MaxLayers` (2) in `pii_paths`: a payload can be encrypted again, and a token of
  one key under another. The four documents have each construct of the resolver:
  references (to a component, to another reference, to nothing), lists, lists of
  lists, nested objects and odd names. The payloads have the shapes the documents
  describe. `Texts` holds the names in use; strings are unbounded, and no
  document of the run has a reference cycle.
- `MaxDown` (1) in `node`: one proxy down at a time; a call uses one. The three
  configurations are the right one, a base port one too high (S3 calls arrive at
  the IMDS proxy) and a zero interval. `PortLimit` (16) stands for 2^32.
- `MaxSent` (3 up, 2 down), `BufCap` (2), `Window` (1): the buffer of `io::copy`
  can be full with one unit behind it, and each window with one; two kinds of `Unit` make a reordering visible.
- `MaxLogging` is the number of workers that log at once: one less than the
  workers in `bridges`, all of them in `bridges_starved`. The code has no such
  bound. `SocketCap` and `VsockCap` (1) stand for the kernel's buffers, whose
  size only sets how many records it takes to fill them.

No run turns deadlock checking off.

### Fairness

Weak fairness of the steps of `main`, of the tasks and of the handlers: tokio
polls a ready task. The timeout of a request fires (weak fairness of `Timeout`);
a body need not arrive (no fairness of `BodyArrives`). Strong fairness of the successful AWS calls: a call that is
retried on every tick does not fail for ever. Restart (`Start`, `Boot`) is fair
because the runner launches the enclave again, which `EnclaveComesBack` shows.
Nothing makes a client, the operator or a crash act; liveness is claimed once crashes have stopped
(`env = "calm"`). Every AWS call is assumed to return: the connector ignores the
SDK's timeout settings (`aws/clients.rs:97`), so a call that hangs is outside
what `dek` and `schemas` show of liveness.

In `Relay` and `Bridges` a vsock connect returns, and the ends and the collector
read what arrives. This is an assumption on the peers: a peer that stays
connected and never reads holds a relay, or the log writer, as long as it likes.
In `Node` Kubernetes starts what has ended, a launch does not fail for ever once
no enclave is there, a stopped enclave eventually goes, and signals leave the
script time to poll. A call has weak fairness of the enclave's own steps only
(`Advance`); its peer may answer, close or stay silent. `OnlyPeersHoldCalls` is
what holds then. A call on an open connection to a silent peer waits for ever,
because no timeout of the code ends it (`aws/clients.rs:97`). In the instance no
two callers use one host at the same time, as with the SDK's cached credentials;
callers that shared one could, in principle, feed each other broken pooled connections.
The bridge's tasks have strong fairness, because a worker is free from time to
time rather than always.

## The proofs

All theorems hold for every value of the constants under the named assumptions
`DekBounds`, `SchemaConstants`, `HandlerConstants`, `ServiceConstants`,
`TraversalConstants`, `ApiConstants`, `RelayBounds`, `BridgeConstants` and
`NodeConstants`, which TLC evaluates in the runs. Every safety property of a passing
run is proved.

- `DekProofs`: types; `FetchInv`; from it `StoredKeyIsWellFormed`,
  `DekNeverGoesBack`, `KeyLostOnlyWithProcess`, `FetchIsFresh`, and that `Dek`
  implements `DekRegister`. `FetchInv` is needed because `high' >= high` says
  nothing about a version in flight: it adds that a fetched version is no older
  than the newest one stored and than `asOf`.
- `SchemasProofs`: types; `LoadInv`; from it `CachedSchemasAreResolved` and
  `RefreshIsAllOrNothing`. `LoadInv` says that the local map comes from the keys
  already fetched and that those precede the rest in listing order.
- `ServiceProofs`: types; `PhaseInv`; that the service implements `Dek` and
  `Schemas`; `RequestInv`, with it `AlwaysHasUsableKey` and `KeysFollowRealTime`;
  `HealthIsTruthful`; and, from `HandlersProofs`, `PiiLeavesEncrypted`,
  `TokensOpenUnderTheirKeyOnly` and `RoundTrip`. `PhaseInv` ties `main`'s phase
  to the two layers, so the layers' own step lemmas apply inside the composition.
- `HandlersProofs` has the lemmas about the requests, one per handler, and those
  about what is answered. Its invariant `WorkInv` is needed because the last three
  properties speak of finished requests and say nothing while one runs: an
  answered request was encrypted or decrypted with the key and schema it cloned,
  failed to decrypt under them, or never had a key. `PayloadRoundTrip` is the fact
  about the cipher: decryption opens and undoes encryption, for payloads of any
  size and any nesting of tokens.
- `PiiPathsProofs`: types, `LoopInv`, `MarkedLeavesEncrypted`,
  `OnlyMarkedLeavesChange`, and that `Traversal` implements `FieldStep`, for any
  documents (reference cycles included), paths and trees. The argument has three
  parts.
  - The loop: `parse_path` is injective (`SegmentsInjective`), so a leaf has one
    path (`OnePathPerLeaf`) and no order of the loop treats it twice.
  - The walk misses nothing (`Complete`): for every chain of schemas from a root
    to a marked schema along hops that a path can express, its path is written
    or some call along the chain is still in `todo`. With `todo` empty every
    such address has its path.
  - The walk adds nothing (`Sound`): in a document with plain names, every call in
    `todo` and every path, as long as it has no `[][]`, comes from such a chain
    of schemas; a step of the walk extends the chain by a key or an array.

  Both speak of calls still to be made, which the properties do not; this is the
  strengthening. `MarkedLeavesEncrypted` is about addresses a path can express
  (plain keys, no array of arrays). `OnlyMarkedLeavesChange` is about documents and
  payloads with plain keys: the path of an array of arrays, `a[][]`, is read as the
  items of a key `a[]`, and would rewrite them in a payload that has such a key.
- `RelayProofs`: types, `NothingLostWhileCopying`, `EndedDirectionIsDelivered`,
  and that `Relay` implements `Pipe`. The two properties speak of directions whose
  ends are there; the invariant (`Flow`, `Ended`) adds that what was read, and
  what is on its way behind it, is always a beginning of what was sent. Moving a
  unit from the front of one queue to the end of the one before it keeps this
  (`UnitMoves`).
- `BridgesProofs`: types, which include the capacities of the sockets, and
  `BridgesBeforeClients`, for any number of threads.
- `NodeProofs`: types, `OrphanOnlyByFault`, `AnsweredByNamedService`,
  `RoutedToItsService`, `TasksTick`.
  The invariant adds that a pooled connection leads to the service its host names
  (`PoolInv`), that a connection past its handshake does too (`CallInv`), and that
  a process past its start has a valid configuration (`ConfigInv`).

`RoutedToItsService` needs to know how hosts and services correspond, which
`OutboundConstants` says: a host begins with its service's label or is a bucket's
under `s3`, and no bucket is called `kms` or `secretsmanager`.

The types of every component with a proof module are proved and not checked again
by the runs.

Only model-checked: all liveness (the prover has neither fairness nor ENABLED),
that is `CurrentKeyIsPickedUp`, `BucketIsServed`, `EveryRequestEnds`,
`ServiceComesUp`, `EndClosesBoth`, `LogWriteReturns`, `EnclaveComesBack`,
`TermEndsContainer` and `OnlyPeersHoldCalls`; and the four violations above, which
are false.

## Not modelled

- Formatting, logging, metrics other than the two request counters. `counted`
  holds the requests those count: the ones a handler answers, not the ones the
  timeout or the extractor answers. No property is about it.
- TLS handshakes and PEM parsing are library code; their outcomes are modelled.
  The tunnelled HTTP itself is not.
- The `config` crate's reading of the environment, and the defaults: a
  configuration is a record of the fields that other parts depend on. The configuration of the
  vsock-proxy is a constant of `Outbound` (`Proxies`).
- The `poll_*` functions of the connector's streams delegate to the socket; a
  call sees a response or a break.
- The extractor's several refusals are one status, 422.
- A bucket whose own name is the label `kms` or `secretsmanager` would be routed
  to that service's port and refused by TLS; `OutboundConstants` leaves it out.
- Whether an enclave survives a runner that was killed is left open in `Runner`:
  both happen.
- Protocol types and error types are plain data. The infrastructure code and the
  operators' scripts are declarative or run once.
