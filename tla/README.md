# A TLA+ verification of the Willow Go SDK

`willow-go` is the client library of the Willow network: it signs transactions
and submits them to a node's API, reads and queries data through the API or
through indexers, follows GraphQL subscriptions over WebSockets, stores files on
storage nodes, and checks some of what it is told (headers, proofs, manifests).
This directory models the parts whose correctness is hard to test: what happens
when several goroutines share a client, when an answer is lost, late or stale,
when a call is repeated, and when a server serves what it likes. TLC checks the models
on small instances; TLAPS proves the most important properties for every value of the
constants.

## Inventory

| Component | State | Operations | Hard behaviour |
|---|---|---|---|
| Nonces and signed writes (`nonces.go`, `postTx` in `client.go`, `submit` in `files.go`) | per DID: highest base seen, nonces seen used, a claim per nonce handed out | `take`, `reserve`, `begin`, `settle`, `observe`; the calls around them: a write, `WithNonce`, `NextNonce`, `WaitUntilLanded`, a file submission | the state is read before the lock is taken; answers are lost, late or stale; a write is sent again; holds on the client and on the node run from different moments; the window is full; the end of the nonce range |
| Indexer discovery (`indexers.go`) | the cached answer of `/indexers`, its age | `List`, `ForSubgrove`, `Invalidate`, `Evict` | a request between two lock sections |
| Subscriptions (`subscriptions.go`) | connection, attempt counter, last indexer, channel, `err`, `done` | `Subscribe`, the loop, `pump`, `Unsubscribe` | drops, reconnects, a full channel, cancellation anywhere, failover through a shared cache |
| Routed queries (`indexing.go`) | none of their own; they evict from the cache | `routeQuery` by source | several candidates failing in different ways, a truthful `Fallback`, answers too large |
| Light client (`lightclient/`) | trusted state, last error, sync goroutine | trust on first use, `VerifyHeader`, `SyncToLatest`, import/export, `Start`, `Stop` | check and update under different locks, start and stop in any order |
| HTTP client (`client.go`, `errors.go`, signing in `auth.go`) | identity, computed-field registry, light client | `doRequest`, `requestData`, `doWithRetry`, envelope decoding, `SetIdentity` | retries of requests whose answer was lost, one-time signatures, an identity that changes between attempts |
| Files (`files.go`) | none; the chain and the storage node keep it | upload, download, delete, storage-node deregistration, list | failure between transaction and chunks, uploads and downloads of one key at once, sizes that do not fit, silent storage nodes |
| Signed messages (`signed_messages.go`), registrations (`consensus/register_subgrove.go`) | none | a message per kind of transaction, the bincode of a registration | two transactions with one message, defaults the chain fills in, rules the chain has and the builder lacks |
| Completeness (`completeness*.go`) | none | fetch a commitment and the matched logs, hash, compare | a hash without clear boundaries, answers about another block |
| Ethereum state proofs (`eth_state.go`) | none | `GetState`, `GetCall`, `Erc20Balance`; RLP, trie walk | claims not tied to the root, exclusion proofs, lengths that wrap |
| GroveDB proofs (`grovedb/`, deprecated) | none | proof decoding, stack machine, layer walk | order and side of children, work that doubles per layer |
| Bounded bodies (`internal/httpbody`), manifest, computed fields | none | capped reads, validation, callbacks per row | limits at the boundary |
| Data, registration, privacy, token, validators, schema, ERC-8004, devnet | none | build and send one request | little beyond the shared HTTP client, messages and `signedWrite` |

Interactions: every signed write goes through `signedWrite` or `submitSigned` and
so through the one allocator of the `Client`, signed over a message of
`signed_messages.go`; routed queries and subscriptions share one `Indexers`, whose
cache each may evict from; every read of the API goes through `doWithRetry`.

What makes each correct: **writes**: no two in flight under one nonce, no write
runs twice, a write of which every report is a refusal never runs, knowledge of used nonces is true and
never lost, claims lapse, waits return. **Subscriptions**: payloads in order and
without gaps within a connection, a bounded number of attempts, a truthful `Err`, an
`Unsubscribe` that returns. **Light client**: the trusted header stays above its
anchor. **Routing**: at most three candidates, best first, and a truthful source.
**Requests**: no attempt is a replay, the result is what the API said. **Files**: a
key is an atomic register. **Messages**: one signature, one meaning. **Proofs**:
what is accepted is what the root commits to, and an honest proof is accepted.

## Modules

| Module | Models |
|---|---|
| `NonceAllocator` | `nonceAllocator`: accounts, claims and every operation as operators on an account |
| `AccountChain` | external: the node as the SDK uses it (nonce window, CheckTx, mempool with its holds, blocks, another client of the same DID, RPC and API answers) |
| `SignedWrites` | the calls over the two: goroutines, requests in flight, outcomes, retries; and the mapping to `WriteLedger` |
| `WriteLedger` | abstract: signed writes as entries of a ledger, without claims, holds, reads, answers or a mempool |
| `Indexers` | the discovery cache and its callers |
| `Subscriptions` | one subscription, extending `Indexers` |
| `RoutedQueries` | concurrent routed queries, extending `Indexers` |
| `LightClient` | the trusted header, the calls that replace it, the background loop |
| `ApiRequests` | `doRequest`, `requestData`, `doWithRetry`, `newAPIRequest`, the decoding of answers |
| `FileRegister` | abstract: one file key as an atomic register |
| `Files` | the file operations, request by request, and the mapping to `FileRegister` |
| `RegisterSubgrove` | `RegisterSubgroveUnsignedBincode` |
| `ChainRegistration` | external: the chain's type of a registration, its reading of JSON and of bincode |
| `SignedMessages` | the messages and checks of `signed_messages.go`, over `RegisterSubgrove` |
| `ReadRegistrations` | external: what the chain reads a registration as (`ChainRegistration`), given to `SignedMessages` as a constant, and the bincode compared with it |
| `EthState` | Ethereum state reads and the trie walk |
| `Rlp` | the RLP decoder and encoders of `eth_state.go`, on bytes |
| `Completeness` | the completeness check of a block's events |
| `GroveDB` | the GroveDB proof decoder and stack machine, over `LayerWalk` |
| `LayerWalk` | the walk of a GroveDB proof's layers, one proven key per step |
| `MC...` | constants for TLC; `MCServedProofs` puts the four proof checks side by side |
| `SignedWrites_proofs`, `Subscriptions_proofs`, `RoutedQueries_proofs`, `LightClient_proofs`, `ApiRequests_proofs`, `Files_proofs`, `ServedProofs_proofs` (`Completeness`, `EthState`, `Rlp`, `SignedMessages` and `LayerWalk`) | theorems |
| `SequenceFacts` | lemmas about concatenation, flattening and separated lines that the proofs share |

In every module an operator under the comment "Mutation:" is a plausible bug in
place of the definition after it; nothing uses it but the sensitivity checks listed
under `mutants` in `PROJECT.json`, each of which makes its property fail.

### NonceAllocator, AccountChain, SignedWrites

An account is `[base, used, claims]`, as `nonceAccount`. A claim keeps its
in-flight count and, for the times `reserved` and `held`, the ticks of `NonceHold`
left (0 when unset or lapsed), because the code only compares their age with
`NonceHold`. Each critical section of the mutex is one step; the request before
it (`ReadRPC`, `ReadAPI`, `ReadFails`) and the submission after it (`Post`, the
network's `Forward`, `Fail`, `Settle`) are steps of their own, so an answer may be
as old as the interleaving makes it. `merge` is part of every operation that calls
it. Nonces are 0..`MaxUint64` with a small `MaxUint64`, and the last
`NonceWindow` + 1 of them are refused, as in the code.

A write in `Writes` is one thing the caller wants done, possibly sent several
times. What the code reports of a submission is `Report`: a `WriteResult`, or a
`WriteError` with `MayLand`, with `ErrNonceUsed`, or with neither, and it depends on
that submission alone: the client keeps nothing of an earlier one. `reports` (history)
collects them. `status` is what the caller, who is external, makes of what it was told
(`Remembers`): nothing sent or refused (`new`), a
nonce from `NextNonce` (`reserved`), `MayLand`, accepted, used, landed. Callers
do what the documentation of `WriteError` and `WithNonce` asks: a write that may
have landed is sent again only under its nonce, also when the last attempt was
refused, for an earlier one may be pending. The code leaves remembering that to the
caller (see Further disagreements). Writes in `FileWrites` take a
nonce with `NextNonce` and use `submitSigned`. `CallerNonces` are nonces a caller
makes up for `WithNonce`. The constants `Retried` and `MaxAttempts` bound how
often each write is sent.

The chain is external. The node admits a nonce in the window that is neither
used nor held by a pending transaction, holds it for `NonceHold` from admission,
and applies, refuses (using the nonce) or drops transactions in any order.
A submission given up by the client may still be forwarded later (`late`).

`WriteLedger` is what is left of this for a caller: a write is clear while nothing sent
of it can run, open while something may, and closed once its caller was told that its
nonce is used. It runs at most once, while it is open, under its own nonce, which no
transaction used before; its nonce changes only while it is clear, and it is cleared
again only if it has not run. `KeepsLedger` maps a write's `status`, that is, what a caller who forgets no
report knows of it, and whether a submission of it is under way, to its phase (`PhaseOf`), and the account's base and
used nonces to what is known. That a write runs at most once (`AtMostOnce`) and that
no step forgets a used nonce (`KnowledgeGrows`) are parts of it: the runs check them in
`KeepsLedger`, and each is also a theorem of its own.

### Indexers, Subscriptions

`Indexers` keeps the ticks the cache has left, whether it holds an answer, and for
each caller whether its `List` has a request in flight or an answer not yet stored.
`ForSubgrove` filters and sorts as the code does (stable, by score): the positions
picked, `Arranged` by the order the comparison defines; `Evict` arranges the positions
kept by the list's own order. `explicit` says
whether the client was made with an indexer URL: then discovery answers with the
synthetic entry and asks nobody.

`Subscriptions` is one goroutine whose `pc` is the place it can block in. A frame
is a kind and a number (the position in what servers ever sent), which lets order
and gaps be stated; frames that change nothing (other ids, pings, frames that are
not JSON) are left out. `attempts`, `delay`, `lastDID`, `delivered` and `err` are
the code's variables; `tries`, `firstSent`, `reason` and `lastEnd` are history.
`MaxSent` bounds the numbers, not the payloads: when they are used up and every frame
was received or lost, the numbers begin again (`Renumber`), so a server may deliver on
each of any number of connections, and each payload resets the counter of attempts.
`Subscribe`'s own first attempt is the same sequence of steps with `handed` false:
it fails instead of retrying. The delay is an `int64` that overflows at `MaxInt64`;
a product that does not fit is converted to the smallest or the largest value,
which are the two results Go's targets produce.

### RoutedQueries

Each caller makes one query. Its record holds what `routeQuery` keeps in local
variables: the candidates left, `hadCandidates`, `tooLarge`, and the
`RoutedQueryResult`. Finding candidates uses the steps of `Indexers`, so queries
meet each other's evictions and stored answers; a 5xx evicts in the same step in
which the next candidate is taken. `asked`, `list`, `serving` and `listed` are
history. What a request carries and how its answer is decoded (`unwrapResponse`) is
abstracted to: answered, failed, 5xx, too large.

### LightClient

A call is nowhere, fetching from the n-th endpoint, or holds a block: to check, to
update to, or to trust on first use. `Verify` is the part of
`verifyAndUpdateHeader` under `RLock`, `Update` the part under `Lock`, and `Goto`
sends a loop whose sync returned back to its `select`, on what `lc.ctx` is then.
The checks are those of `VerifyHeader`, with validators and listed signatures as
sequences; blocks come from the constant `Blocks`. The trusted state carries the
header it was synced from (`anchor`, history). The loop of the i-th `Start` is
thread i; a second close of `syncDone` panics and ends everything. Endpoints are
assumed to answer in the shape the code decodes.

### ApiRequests

A call is a goroutine in `doRequest` or, if it is in `Enveloped`, in `requestData`. Its
record holds `doWithRetry`'s locals. `Attempt` builds, signs and sends one attempt in a
step: the identity of that moment signs it, and a route that `carriesReadRights`
(`Gated`) gets a nonce of its own, which the API takes once. The API is external: it
serves what is on the wire at any time, long after the caller gave up included, with
any status and body of `Answers`. `ResultOf` is the decoding of an answer that is no
5xx: the body is read first, then the status, then the envelope. `sent`, `granted` and
`replays` are history. The backoff is capped after every product, so the model
assumes only that `MaxBackoff` times the factor fits an `int64`.

### FileRegister, Files

`FileRegister` is what a caller of the file operations relies on: a write takes effect
at one instant or never, and never after it was answered "no"; a read returns what the
key held at one instant between its call and its return, or an error.

`Files` has the requests: the manifest's transaction, then each chunk, for an upload;
the manifest, then each chunk, for a download. `Land` is the block, in which the chain
may also refuse. A chunk is stored under the content hash of the URL and the index, a
later one replacing it. A request that times out may have been served. The chain's
answers are external: the API answers the chain's manifest, possibly with other sizes
(`Shapes`; the code checks sizes because it does not trust them), and the storage node
serves anything in `Served` or what it holds. What `AtomicFile` does need is that the
API's content hash is the chain's: there is no proof of it in the code. `misled` is
history: the downloads that were answered something else than chain and storage node
hold. Bytes are numbers 0..255; the constants assume that a chunk of `ChunkSize` is one
`Download` reads (`ChunkSize <= ChunkCap`: 256 KiB against 2 MiB in the code).
The refinement maps a call's place to the register's `stage`, its manifest to
what it writes or saw, and the mempool to the writes that can still take effect.

### SignedMessages, RegisterSubgrove, ChainRegistration

A text is a sequence of tokens (`Token`), so that a line break followed by a label is a
text, and a message is one text: its kind and its lines with a separator between them
(`JoinedBy`), so that where a line ends is nowhere but in the text. `Sign` builds the
message of a transaction or refuses; `Deliver` gives the chain the signed transaction's JSON (in which bytes that
are not UTF-8 have become U+FFFD), `Present` any transaction with the same signature,
and `Encode` gives the bincode writer JSON of any form. The chain rebuilds the message
and runs what was signed. `Takes` are the rules the code documents of it: no line
break, DIDs (`IsDID`), subgrove ids (`IsSubgroveID`), the schema (`IsSchema`), a
rotation's grants and epoch, a revocation's parts, and a registration's initial grant
and lists. They are written from what the comments say of the chain, the checks
(`validateWillowDID`, `checkChainSchema` and the others) from the code; the two share only
the classes of characters. `RegisterSubgrove`
writes the bincode of a registration field by field from its JSON, `ChainRegistration`
describes the chain's type as data (names, defaults, enum variants) and reads JSON and
bincode by that description; the two share no definition.

What the chain reads a registration as is the constant operator `RegistrationMeans`,
because `ChainRegistration` is `RECURSIVE`; the run gives it `ChainMeans` of
`ReadRegistrations`. `RegistrationsAssumption` says that equal bincode is of
registrations with one meaning: it is what `RegistrationReadsBack` checks for each
registration, and TLC checks the assumption itself for each pair. `SchemaOf` is
what a schema's text parses as, and `SchemasAssumption` says that its members are a
sequence. Of two forms of JSON
`RegistrationReadsBack` excepts each by name: a payload on a variant without fields
(`{"Never": {}}`, written as `Bare` puts it), and `{"AmdSev": null}`, which the chain
would read and the code refuses. `TxsAssumption` gives
the fields of each kind of transaction; `PrintedAssumption` says that decimal and hex
digits hold no separator and are of one number or byte string, and that SHA-256 has no
collisions.

### EthState, Rlp, Completeness, GroveDB

The checks of what a server proves. Hashes are tags without collisions. `EthState`
walks one served node per step; a node is decoded already, and `Rlp` models how bytes
become items, one item per step, with Go's slices (a slice outside its bytes panics).
`Holds` and `Absent` are the reference: what a trie with that root holds, independent
of the walk. They are stated over `Entries`, the pairs of path and value under a
reference. `Entries` is a constant operator whose defining equation at each node
(`EntriesOf`) is the assumption `EntriesAreTheTries`; `MCEthState` gives it by recursion
over the tries of the run, and TLC checks the assumption there. In `Rlp` a length read
as a `uint64` stops growing past `MaxLength` (2^31 - 1): it is then more than any bytes
there are, and stays so. Its assumptions say that what honest indexers encode
(`SentAreNodes`) and what nobody encoded (`RawAreBytes`) are bytes, fewer than that,
which the cap on answers in `httpbody` sees to. `Completeness` hashes with the
identity on bytes, so that a boundary that is not in the hash is visible; the counts
of topics and of data bytes are `uint32`, taken modulo `Limit32`, and what is served is
assumed shorter than that (`MatchedLogs`), because `httpbody` caps the answer far below
2^32 bytes. `GroveDB`
encodes small groves as an honest prover would, plain and inverted, and compares what
the decoder, stack machine and walk return with the grove; `Forged` holds bytes no
prover wrote. The decoder, including the limit on nesting, and the stack machine are
recursive operators. The walk, `verifyLayerProof`, is the step machine of `LayerWalk`:
its recursive calls are frames on a stack (the layer's path, what its Merk proof gave,
the keys left of it and the keys walked), and a step takes the innermost frame past one
key, into a lower layer, or back to its caller. What running a Merk proof gives is the
constant `MerkResult` there, which the run sets to the stack machine. A stack of frames
always has a next step, so a walk ends because its envelope is finite. `layersRun` and
`calls` are history: the layers whose Merk proof was run, and how often one was.
An honest proof is not always accepted: the code checks that a layer looks like an AVL
tree and counts a collapsed node as one level, so a layer that shows one side of its root
as a hash and three levels or more of the other is refused. `ProofReadsBack` says
so (`LooksUneven`): such a proof fails, and every other is read back.

## Runs

`expect: pass`:

| Run | Question | Bounds |
|---|---|---|
| `SignedWritesPair` | Is the allocator's bookkeeping right when a write and a file write of one DID run concurrently, and is what it knows kept when older answers are merged? (`ExclusiveInFlight`, `HandedOutInWindow`, `KeepsLedger`) | window 2, hold 1 tick, nonces 0..5, no retries |
| `SignedWritesRetry` | Does a write sent again run at most once, and one all of whose reports are refusals never, and is every report of a used nonce true? Is that the abstract ledger? (`HeldWhilePending`, `RefusedNeverRuns`, `ReportsAreTrue`, `KeepsLedger`) | one write sent twice, one transaction of another client, hold 2, nonces 0..6, made-up nonces below, in and above the window |
| `SignedWritesLive` | Do claims lapse and waits return? (`ClaimsLapse`, `WaitReturns`) | as above without the retry, nonces 0..5, hold 1, an RPC endpoint, no file writes |
| `Subscription` | While another goroutine uses the cache: is the stream in order and without gaps within a connection, does `Err` say why it ended, is all final once `Done` is closed, are attempts bounded, does `Unsubscribe` return wherever the loop is, does the subscription end if no connection lasts and deliveries cease? (`InOrder`, `NoneLost`, `ErrTellsWhy`, `FinalOnceDone`, `AttemptsBounded`, `UnsubscribeReturns`, `GivesUp`) | one indexer that comes and goes or an explicit one, reconnecting, or the API, not reconnecting; cache of 1 tick, 1 attempt, frames numbered 1 and 2 and again, channel of 1 |
| `LightClientShared` | Is the trusted header always above its anchor, does `Stop` return and leave no sync behind, do calls return when endpoints fail? (`NeverBelowItsAnchor`, `QuietAfterStop`, `CallsReturn`) | a caller and the loop of one `Start`, 2 endpoints, 3 blocks (one signed by too few), a clock of 0..2 with a trusting period of 1 |
| `RoutedQueries` | Does every query ask the best indexers only, never replace a too large answer by the API's, flag its fallbacks, and return? (`AtMostTheBest`, `TooLargeIsFinal`, `FallbackIsTrue`, `QueriesReturn`) | 2 queries of any source, 3 indexers of which 2 are asked, or an explicit one, 2 registries, cache of 1 tick |
| `ApiRequests` | Is no attempt taken for a replay, is the result true to what the API did, does every call return? (`NeverAReplay`, `ResultIsTrue`, `RequestsReturn`) | a gated, enveloped and a plain call, 1 retry each, one identity that comes and goes, an answer for each way an answer is treated |
| `FileTransfer` | Is the key an atomic register, are the results of uploads true, are honest downloads accepted, do lengths never wrap, do calls return? (`AtomicFile`, `UploadIsTrue`, `HonestIsAccepted`, `WantNeverWraps`, `CallsReturn`) | a download, an upload, and an upload, delete or deregistration; files of 0, 1 and 3 chunks of 2 bytes, of which one shares a chunk with the other; sizes with a chunk too many, too few, none, or over the cap; no client timeout |
| `SignedMessages` | Does a signature stand for one meaning, does the chain take what was signed, by every rule the code documents, is the bincode the chain's struct? (`OnlyWhatWasSigned`, `SignedIsTaken`, `RegistrationReadsBack`) | every kind of transaction, with texts that hold a line break and a label or are not UTF-8, DIDs, ids and schemas that break each rule, and registrations with each part absent, present, at its default, malformed and with a payload on a variant without fields |
| `ServedProofs` | Is what a walk accepts what the root holds, and is no true claim refused? Is RLP read back, and no slice out of its bytes? Is a complete set exactly the committed one? Is a GroveDB proof read as what was proved, in bounded work? (`WalkedIsHeld`, `TrueClaimTaken`, `RlpReadsBack`, `CompleteIsExact`, `ProofReadsBack`, `LayersRunOnce`) | keys of 2 nibbles and tries with every kind of node; strings at the lengths where headers change and every string of 3 bytes at which the decoder's cases change; two-valued bytes and up to 2 logs; trees of up to 4 nodes shown in every way, AVL trees of four levels with any nodes collapsed, up to 3 layers, every cut of a proof |

`expect: violation`, each a sentence of the repository that the code does not keep:

| Run | Sentence | What happens |
|---|---|---|
| `SubscriptionBackoff` | the delay "doubles on each consecutive failure up to MaxReconnectBackoff" | past 2^63 ns the conversion may yield a negative delay, which is not capped |
| `LightClientHeight` | "and then each later header SyncToLatest accepts" | a caller's sync and the loop's both check their headers against the pinned one at height 1; the loop installs height 3, then the caller height 2 |

Why the bounds are enough: the allocator treats all nonces of the window alike
apart from their order, so a window of two has a lower and a higher nonce, a full
window and a gap; two writes give every pairing of calls, and the theorems below
cover any number of them; a hold of one or two ticks lapses both before and after
each other event. For a subscription one attempt is the first and the last, a channel
of one is full and not full, and two numbers at a time span two connections, any number of
times over. For the light client
two threads give every pairing of calls, two endpoints a first and a last, and the
header, the clock and the trusting period each pass their check and fail it; the
theorems cover any number of threads. For routing, two candidates of three indexers
leave one out, and two queries are what it takes for one to see the other's eviction.
For requests one retry separates the first from the last attempt, and the theorems
cover any number. For files, three calls are what it takes for a download to see two
uploads of different data, three chunks make an odd level and have a short last one,
and the theorems cover any contents and sizes. Messages are compared pairwise over all
transactions of the instance, and removing any one clause of the builders' checks breaks
`SignedIsTaken` there. A layer refused for its height needs three levels beside a
collapsed node, which the AVL trees of four levels have. `CHECK_DEADLOCK` is off because the systems do stop: all
calls have returned, all writes are sent and all nonces used, or the subscription has
ended.

## Fairness

`SignedWrites!Fairness`: a goroutine that can step does (the Go scheduler), a
submission nobody answers fails (the HTTP client has a timeout), and time passes.
A poll of `WaitUntilLanded` asks the RPC endpoint first each time, so its read is
strongly fair: if the endpoint can be reached again and again, some poll reaches
it. The node owes nothing: no transaction needs to be applied. Without an RPC endpoint
the API's answer has no bitmap, and `WaitReturns` asks for a return only once the base is
past the nonce; the run has an endpoint.

`Subscriptions!LoopFairness`: the goroutine steps when it can, and requests and
handshakes whose context is done fail. Nothing is assumed of server, API or
consumer, and `UnsubscribeReturns` holds with that alone. `GivesUp` itself assumes
that no connection lasts, that from some time on none delivers a payload (a payload resets
the counter of attempts, so a server that delivers one on each connection keeps the
subscription going for ever, as the comment on it says), and (`Answering`)
that the consumer reads, that discovery requests end, and that a
server answers the handshake or drops the socket: the code sets no deadline for
`connection_ack`, so without this a silent server keeps the loop waiting until
`Unsubscribe`.

`RoutedQueries` and `LightClient`: requests end, because the HTTP client has a
timeout, and goroutines run. The end of the loop is strongly fair: a `select` that
finds its context done and a tick may take the tick, but a sync with a context that
is done fails at once, and the next `select` finds the context alone.

`ApiRequests`: goroutines run, timers fire and an attempt ends, because the HTTP
client has a timeout. Nothing is assumed of the API. `Files`: only the timer of a
request is fair (`TimesOut`); chain, API and storage node may stay silent for ever.
With `ClientTimeout` 0, as in the run, it is the code's own `fileRequestTimeout` that
ends the request.

## Proofs

The first nine theorems are about `SignedWrites!Spec`, for every window, hold, largest nonce
and set of writes allowed by the assumptions of `NonceAllocator` and
`SignedWrites` (positive window and hold, a range of nonces larger than the window,
disjoint sets of own and others' writes).

- `TypeCorrect`: types (no run repeats it). `TypeOK` is inductive by itself; lemmas say that
  each operation of the allocator returns an account.
- `NoncesAreExclusive`: `ExclusiveInFlight` and `NoLeakedCount`. Not inductive
  alone: `settle` must know that a claim counts at most one submission, so the
  invariant `ClaimInv` adds `ClaimsCountOne`. The argument per action: `take`
  picks a nonce without a claim, `begin` refuses one in flight, `merge` drops a
  counted claim only with the nonce seen used, and `settle` uncounts only its own.
- `WritesRunAtMostOnce` and `RefusedWritesNeverRun`: `AtMostOnce` and
  `RefusedNeverRuns`. The invariant
  (`OnceParts`) adds that everything of a write that may still land is signed under
  its current nonce (`OneNoncePerWrite`), one submission per attempt
  (`OneSubmissionPerAttempt`), that a write that took effect used its nonce, and
  what is known while the first attempt is in flight (`FirstAttempt`).
  `RefusedNeverRuns` is over `reports`, what the code said, and not over what the caller
  remembers; that a caller whose reports are all refusals has status `new` or `reserved`
  is an invariant of its own (`MemoryOfReports`). A second
  effect would need the nonce to be used twice; a fresh nonce is signed only when
  nothing of the write can land.
- `KnowledgeIsTrue`: `ReportsAreTrue`, with `SoundParts` adding that stored answers, however old, were true (`ReadIsSound`,
  `AnswerIsSound`).
- `KnowledgeIsKept`: the action property `KnowledgeGrows` (in the runs a part of
  `KeepsLedger`), from the lemma that
  `merge` keeps what was known.
- `NoncesAreInWindow`: `HandedOutInWindow`. What `take` picks is in the window of the
  base it knows, which may be old; since that base is true (`SoundParts`) and the
  chain's only grows, the nonce is in or below the chain's window (`WindowInv`).

- `HeldNoncesStayTaken`: `HeldWhilePending`. The property only says that the claim is
  live, which time breaks unless one knows for how long: `HeldInv` says that for every
  admitted transaction either its submission has yet to be answered, and is counted,
  or the claim's hold has at least as many ticks left as the node's. The outcome that
  settles the submission sets the hold to the full `NonceHold`; `settle` with any other
  outcome and `merge` leave it, or find the nonce used.

- `WritesKeepTheLedger`: `Spec => KeepsLedger`, that is, signed writes implement
  `WriteLedger!Spec`. The invariant is that of the two theorems on runs together with the
  truth of what is known (`LedgerInv`). Each step is then a step of the ledger or a
  stutter: a write runs in the ledger when the block applies it, and since everything
  of it that may still land is signed under its current nonce, that nonce was free; a
  refusal clears a write only when nothing of it is left that could run.

Five are about `Subscriptions!Spec`, for every limit, backoff, channel capacity, set
of indexers and use of the shared cache:

- `AttemptsAreBounded`: `AttemptsBounded`. The attempts since the last payload
  (`tries`) and the code's counter differ between a delivery and the disconnect
  that resets the counter, so `CounterInv` adds that `tries` is at most `attempts`,
  that it is 0 in a connection that delivered, and that `attempts` keeps the limit.
- `DoneIsFinal`: the action property `FinalOnceDone`, from the invariant that a
  closed `Done` finds the loop in its deferred calls (`DoneInv`).
- `ErrorsAreTrue`: `ErrTellsWhy`. `ErrInv` adds that no error is recorded before the
  loop returns, that a closed or broken link agrees with how the last connection
  ended, and that there is a connection only while the loop pumps.

- `PayloadsAreInOrder` and `NoPayloadIsLost`: `InOrder` and `NoneLost`. Both are about
  the pipeline from the last payload received through channel and loop to the socket.
  `StreamInv` says that it rises, that numbers of the current connection follow each
  other without gap (`Stream`), that it ends with the last number sent while the
  link is up, a completion is on its way or was the end (`CaughtUp`), that nothing
  follows a completion, and where the loop can be while there is a link. Each
  step takes from one part of the pipeline and adds to the next, or cuts its end when
  a socket drops.

Three are about `RoutedQueries!Spec`, for any number of queries and candidates, any
registry and use of the shared cache:

- `TooLargeIsAlwaysFinal` and `FallbackIsAlwaysTrue`: `TooLargeIsFinal` and
  `FallbackIsTrue`. Both follow from what a query met on its way to where it is
  (`Sound`): before it asks, nothing; while it asks it has had candidates; when it asks
  the API no answer was too large, and it had candidates exactly if one failed it,
  which holds because a query that had candidates leaves them only after the last one
  failed. Nothing is assumed of what the cache holds: the proof needs no types.
- `OnlyTheBestAreTried`: `AtMostTheBest`. What `ForSubgrove` returns is shown to be an
  arrangement of the serving entries that no later entry beats, of which
  `MaxIndexerCandidates` are kept; `BestInv` then says that a query's asked and
  remaining candidates together are that choice, and a step moves one from the
  remaining to the asked.

Two are about `LightClient!Spec`, for any blocks, endpoints, callers and calls of
`Start`:

- `SyncStaysAboveItsAnchor`: `NeverBelowItsAnchor`. The height itself is not
  monotonic (`LightClientHeight`); what survives the gap between check and update is
  that a call about to update holds a block later than the anchor of the header it
  was checked against (`SoundCall`), whatever is trusted by then.
- `StopIsQuiet`: `QuietAfterStop`, from `QuietInv`: `Stop` returns only after
  `syncDone` is closed, closing it is the loop's last step, and a loop that ended has
  no call.

Three are about `ApiRequests!Spec`, for any calls, identities, answers and retry
configuration that satisfies the assumptions (the first backoff is not above the cap,
the factor is a positive integer):

- `RequestsTyped`: types. `TypeOK` needs that a call that waits has attempts left
  (`WaitsBelow`).
- `NothingIsReplayed`: `NeverAReplay`. `FreshNonces` says that a nonce is on the wire
  in one request only and not both on the wire and taken: each attempt draws its own.
- `ResultsAreTrue`: `ResultIsTrue`. `Accounted` ties the attempts sent to the code's
  counter at each place a call can be in, and an answer a call holds to what the API
  did.

Five are about `Files!Spec`, for any calls, contents, sizes answered and bytes
served:

- `FilesTyped`: types.
- `LengthsNeverWrap`: `WantNeverWraps`, because a download fetches only under a
  manifest that passed `checkFileShape`, and its index stays below the chunk count.
- `FilesAreAtomic`: `Spec => AtomicFile`, that is, the file operations implement
  `FileRegister!Spec`. The invariant (`FilesInv`) ties a call's place to its operation,
  manifest and outcome and says whose transaction may be in the mempool: never one of
  a call that returned a refusal. Each step is then a step of the register or a
  stutter: the register's read happens when `Metadata` answers, and a download that
  succeeds returns data whose hash is the manifest's, so exactly the content seen,
  whichever chunks it was put together from.
- `HonestDownloadsPass` and `UploadsAreStored`: `HonestIsAccepted` and `UploadIsTrue`.
  `HonestInv` says that every manifest on the chain or on its way is that of a content,
  that every chunk stored is the piece of the content its key names (so there is one
  per key), that an upload holds the pieces of its content and has stored those
  before its index, and that a download that was not misled holds the first pieces.
  The pieces of a content have the lengths `Download` expects and flatten to the
  content, for every length and chunk size; equal pieces have equal hashes and so an
  equal Merkle root.

One is about `Completeness!CompletenessSpec`, for any logs, blocks and widths:

- `CompleteMeansComplete`: `CompleteIsExact`. The core is `HashIsOfOneSet`: two
  sequences of logs that parse and have the same bytes are the same. Each log's bytes
  tell their own length (fixed width of address and topics, counts before topics and
  data), so two streams agree log by log (`LogsAreApart`). `CompletenessInv` adds that
  the commitment gone by is that of the subgrove and block asked for. Assumed:
  Keccak separates texts, and counts fit a `uint32`.

Two are about `EthState!EthSpec`, for any tries, requests, answers and nodes:

- `WalkedResultsAreHeld` and `TrueClaimsAreTaken`: `WalkedIsHeld` and `TrueClaimTaken`.
  `WalkInv` says of a walk under way: what the expected hash holds at the rest of the
  key is what the trie holds at the whole key, the claims walked before are held,
  and the storage root walked is the one of the account that was shown. A lemma per kind
  of node (leaf, extension, branch) says what following it does to the rest of the
  key, and what it shows when it ends the walk. Assumed: `Entries` is what the tries
  hold, and a branch has a child for every nibble.

One is about `Rlp!RlpSpec`, for any bytes and any nodes sent:

- `RlpIsReadBack`: `RlpReadsBack`. `RlpInv` says that the decoder stands inside its
  payload and, when the bytes were encoded, that the items read so far are the first
  of those written and the position is the length of their encodings. A header is read
  as it was written at whatever number of bytes its length takes (`HeadedIsRead`), and
  a length that is not refused fits in the bytes there are, so no slice is outside
  them; a compact path is read back by its parity and its leaf flag.

One is about `LayerWalk!WalkSpec`, for any envelope and whatever running a Merk proof
gives:

- `LayersAreRunOnce`: `LayersRunOnce`. `LayersInv` says how the frames nest (the path of
  each extends those below it, each by a key walked there: `NestedFrames`) and that a layer
  run below a frame is below a key the frame has walked (`RunBelowWalked`). So a key that
  is not walked yet leads to a layer that was not run. That the walk of `GroveDB` is one of
  `WalkSpec` is how its next-state relation is written: it starts a walk with
  `verifyDecoded` or `RefuseEnvelope` and goes on with `WalkStep`.

Two are about `SignedMessages!Spec`, for any transactions:

- `SignatureIsOfOne`: `OnlyWhatWasSigned`. What is signed has no line break inside a
  line (no ':' inside a part, for a revocation); lines that hold no separator are the
  finest that give a text (`LinesSplit` of `SequenceFacts`): of any others that give it
  there are no more, as many are the same, and one without a separator is among the
  finest. So a message with the same text begins with the same kind, which says how many
  lines there are, and these are the same lines; each line's label and value are its own. A
  rotation's kind does not say how many: its line "Grants: " is the only one with that
  label in either message, so it is the same line and the number is the same. Then
  what was sent is what was signed, up to the bytes JSON replaced; a registration is
  the same through its hash and `RegistrationsAssumption`.
- `WhatIsSignedIsTaken`: `SignedIsTaken`. What the builders let through has no byte that
  is not UTF-8, so it is sent as it was signed, and their checks imply the chain's,
  rule by rule: `DIDsTaken`, `IDsTaken`, `ListsTaken`, `SchemasTaken` and
  `RegistrationsTaken`, put together in `SignedTakes`;
  only the subgrove id of a revocation is not looked at. That a registration whose
  bincode was written can be read is taken from `RegistrationsAssumption`: the theorem
  shows the other rules of a registration, and the run checks this one on its instance.

  The invariant of both (`MessagesInv`) adds that what is signed is the message of the
  owner's transaction.

Inductions over data (what flattening computes and how it is undone) are written
as a least counterexample, from the lemma `LeastMember` of `SequenceFacts`: the
library's induction theorems take an operator, which these provers do not instantiate.

Only model-checked: liveness, which is out of the prover's reach (`ENABLED`); and
`RegistrationReadsBack` and `ProofReadsBack`, whose readers and writers are `RECURSIVE`
operators over nested data, with which the prover loses its arithmetic backend.

## Further disagreements

Known disagreements of comment and code that are not runs of their own:

- `submitSigned` "sends nothing while a submission under the nonce from this client is
  in flight" (`nonces.go:697`), but a read that shows the nonce used (the first
  transaction landed, its answer is under way) makes `merge` drop the claim with its
  count, and `begin` without a state then finds nothing. The chain refuses the second,
  so `AtMostOnce` still holds.
- Without `MayLand`, "the answer said CheckTx refused the write before it reached the
  mempool, so it will not run, unless the refusal is ErrNonceUsed" (`nonces.go:118`), but
  `writeOnce` goes by the last submission alone (`nonces.go:679`): a write fails in
  transit, the API forwards it later, CheckTx refuses the retry under `WithNonce`, and
  the retry's `WriteError` comes without `MayLand` while the first attempt is pending.
  `RefusedNeverRuns` is therefore about writes of which no report was anything else.
- "A field the chain requires that is missing, null, or of the wrong type is refused"
  (`consensus/register_subgrove.go:24`), but the payload of a variant without fields is
  not looked at (`enumParts`, read only for variants that have fields): `{"Never": {}}`,
  `{"Indefinite": 5}` and `{"ConsensusExecution": 5}` are written as the bare variant.
- "failover to a different indexer is automatic" (`subscriptions.go:171`), but when the
  cache has expired by the time of the reconnect the eviction changes nothing, and the
  refetched list has the same indexer first.
- Auto is "indexer if one serves this subgrove, else validator. Sets Fallback=true when
  it falls back" (`indexers.go:21`), but after a 5xx to one query evicted the only
  indexer, the fresh cache has no candidate for the rest of its 30 s, and the API's
  answer is returned unflagged.
- A light client that is started again after `Stop`, or twice, closes `syncDone` twice
  and panics, and its second `Stop` returns at once.
- `Invalidate` "forces the next List to re-fetch", but a `List` in flight stores its
  older answer afterwards.
- `resolveAndConnect` says it evicts "any last-failed indexer first", but
  `lastIndexerDID` is set only by a successful connect.
- `ChunkUploadError` says the storage node does not hold the file whole; when the
  answer to the last chunk is lost, it may.
- `revokeSubgroveKeyMessage` does not look for bytes that are not UTF-8, as the other
  builders do; `SignedIsTaken` exempts it.
- A branch node with an embedded child (a list in the list) makes `rlpDecodeList`
  refuse the whole branch; `TrueClaimTaken` is about what the walk says of a claim, not
  about a node it cannot read. Likewise the AVL check of the stack machine refuses an honest
  GroveDB proof in which one side is collapsed to a hash while the other is three
  levels deep; `ProofReadsBack` states it.
- Trust on first use, when it started without a trusted state, replaces one pinned or
  imported meanwhile. The new header is then the anchor, so `NeverBelowItsAnchor`, which
  only bounds the header by its anchor, does not forbid it, and no comment does.
- A negative `MaxRetries` makes `doWithRetry` return neither answer nor error, which
  `doRequest` dereferences; `ApiRequests` assumes it is not negative.

## Not modelled

The components marked `not_modelled` in `PROJECT.json`, with the reasons there:
field-by-field serialization, one-request helpers without state, example programs. Of
the modelled ones: `SelectBestEndpoint` and the status fields of the light client;
`GetOrCreateLightClient`; listing files; hex, base64, padding and ABI conversions of
`eth_state.go`; the functions of `grovedb` that compare a result with an expected root
(one equality each), `QuickVerify` and the `Verifier` wrapper. Cryptography
(signatures, hashes, encryption), wording of errors and HTTP details are outside. The
text of a CheckTx refusal, which `refusalOutcome` parses, is abstracted to what it says:
that the nonce is held, that it is used, or neither. `WithNonce` under a nonce of an
earlier attempt assumes the caller sends the same write, as its comment demands.

## Plan

In order:

1. The rest of the light client: `SelectBestEndpoint`, `GetSyncStatus`'s unlocked
   fields, `GetOrCreateLightClient`.
2. Capped reads and JSON limits, manifest validation, the order of computed fields.
