# TLA+ development for DRS

DRS issues and verifies delegation receipts: signed statements by which a
principal lets another act for it, chained by hash from a root to an
invocation. This directory specifies the verification service, `drs-verify`, in
TLA+, checks it with TLC on small instances, and proves with TLAPS what the
checks say of safety.
Paths below are relative to `src/drs-verify`.

## 1. The system

| Component | State | Operations | Hard part |
|---|---|---|---|
| Chain verification (`pkg/verify/chain.go`) | none of its own | `Chain`: blocks A to F, then store and timestamp report | order of the checks; what neighbour checks imply for a whole chain; the pool of Block C |
| Policy (`pkg/policy/evaluate.go`) | none | `Evaluate`, `CheckAttenuation` | absent values, wildcards, path traversal |
| Remote status list (`pkg/revocation/status.go`) | snapshot, `fetchedAt`, two mutexes | `IsRevoked`, `WarmUp`, `Ready` | two locks around one snapshot, stale data, outages |
| Local revocations (`pkg/revocation/local.go`, `file.go`, `admin_handler.go`) | set, append-only log | `Revoke`, `IsRevoked`, load at start | short writes, fsync, crash |
| Nonce stores (`pkg/nonce/store.go`, `redis.go`) | map jti to time, or Redis keys | `Check` | capacity, lazy expiry, lost replies |
| Request path (`cmd/server/main.go`, `pkg/middleware/*.go`) | requests in flight | `/verify`, MCP and A2A middleware, `/admin/revoke` | clock, revocations and nonce are read at different moments; restart |
| Rate limiter (`pkg/middleware/ratelimit.go`) | token buckets in an LRU | `Middleware` | eviction of a limited client, forwarded addresses |
| DID resolver (`pkg/resolver/did.go`) | key LRU, inflight map, circuit states | `Resolve` | singleflight, cancellation, breaker, eviction, DNS that changes its mind |
| Receipt stores, Tier 3 (`pkg/store/*.go`, `pkg/anchor/tier3store.go`) | files or LRU | `Put`, `Get`, `Delete` | lazy removal racing a write; a token missing or cut short |
| RFC 3161 (`pkg/anchor/rfc3161.go`) | none | `Timestamp`, `VerifyTimestampTrusted` | which certificate, which signature, which bytes, which time |
| Process (`cmd/server/main.go`, `pkg/config`, health, metrics) | what main has started | start-up, serving, signal, drain, exit | order of start-up; nothing lost in the drain, no wait for ever |
| Body binding digest, operator file | none, read once | | little |
| Rust core (`drs-core`), TypeScript SDK (`drs-sdk`), MCP packages (`packages`) | none, or a client | issue, verify, translate, call the verifier | agreement with the Go port |

Interactions. `main` loads the configuration, starts the components in order
and serves. A request passes the rate limiter (an admin request a second one
inside it), is decoded, and goes through `verify.Chain`, which resolves the
issuers in parallel (each worker calls the resolver), checks structure,
signatures, attenuation, policy and time, and asks the status cache and the
local revocations; it then stores the receipts, with a timestamp each in Tier 3,
and may report on the stored timestamps. Only a valid chain reaches
`CheckNonceReplay`, which claims the jti; the middleware then checks that the
body is the one the invocation was signed over. `/admin/revoke` changes the
local revocations, and a file-backed store logs them before it answers.
`/readyz` tells an orchestrator whether to route requests here.

What makes the parts correct: a verdict never exceeds any grant of the chain;
revocations and key rotations arrive in bounded time and are not forgotten; a
jti is accepted at most once per TTL; a reported timestamp was made for that
receipt; a resolver never connects to a private address; no client takes more
than its share; a caller always gets an answer, and a stopped process stops;
and an outage makes the service refuse rather than accept. The places where
this can go wrong and a test would hardly show it are the "hazards" of
`PROJECT.json`.

## 2. Modules

| Module | Models | Extends or instantiates |
|---|---|---|
| `StatusCache` | `status.go` | |
| `Readiness` | `/readyz` and an orchestrator | extends `StatusCache` |
| `NonceClaims` | what `nonce.Checker` promises (abstract) | |
| `NonceStore` | `nonce.Store` | |
| `RedisStore` | `nonce.RedisStore` on an external Redis | instantiates `NonceClaims` |
| `VerifyServer` | request path, admin endpoint, restarts | extends `NonceStore`, instantiates `RedisStore` |
| `RevocationFile` | `FileBackedRevocationStore` and its disk | |
| `Policy` | `evaluate.go` | |
| `ChainVerify` | the checks of `verify.Chain` as an operator | extends `Policy` |
| `DelegationChain` | receipts in circulation, bundles, verdicts | extends `ChainVerify` |
| `IssuerPool` | `resolveIssuersParallel` | |
| `Rfc3161` | the checks of `rfc3161.go` as operators | |
| `TimestampTokens` | authorities, tokens, the report on a token | extends `Rfc3161` |
| `ReceiptStore` | the stores and `Tier3Store` under `Chain` | extends `Rfc3161` |
| `ChainCalls` | concurrent calls of `Chain`: pool, store, report | extends `ReceiptStore`, instantiates `IssuerPool` |
| `DIDMethods` | identifiers and DID documents | |
| `Resolver` | `Resolve` for one DID | extends `DIDMethods` |
| `RateLimiter` | `middleware.RateLimiter` as a value | |
| `Process` | `main` and `config.Load` | |
| `Service` | the front of the running service | extends `RateLimiter`, `Process` |
| `StatusCacheProofs`, `ResolverProofs`, `ServiceProofs`, `ChainCallsProofs` | theorems | extend the module of the same name |
| `ServerProofs`, `DelegationProofs`, `RevocationProofs`, `TimestampProofs` | theorems | extend `VerifyServer`, `DelegationChain` (with `Policy`), `RevocationFile`, `TimestampTokens` |
| `MC...` | values for TLC | |

A definition marked "Mutant" stands before the one it alters: a plausible slip
in that code, which makes TLC find the property violated that `PROJECT.json`
names with it.

### StatusCache, Readiness
`hasSnapshot`, `bitstring`, `fetchedAt` are the fields of `StatusCache`,
`initMu` and `refreshMu` its mutexes (who holds them), and `pc` is where each
goroutine is: a request that calls `IsRevoked`, or the boot goroutine that
calls `WarmUp`. There is one action per section of code between two points at
which another goroutine can be seen: the lock-free reads (`CheckSnapshot`,
`CheckTTL`), each lock, each re-check under a lock, the moment at which the
endpoint's list is taken (`FetchServed`), the publication (`Publish`), the
failures, and the final `Read`. A bit list is the set of indices it revokes; an
index outside `Covered` is beyond its end and makes `IsRevoked` return an
error. The issuer only ever adds revocations. `Readiness` lets requests in only
while `Ready` answers.

The branch of `refresh` for an empty base URL is left out: `main` does not
create the cache then.

### NonceClaims, NonceStore, RedisStore, VerifyServer
`NonceClaims` says what `Check` promises: an atomic claim that lives for TTL.
`NonceStore` is the map with lazy expiry; its mutex makes `Check` one action.
`RedisStore` is one `SET NX EX` whose reply may be lost with the command
executed or not. The refinement maps the claims to the entries that have not
expired.

In `VerifyServer` each request is a goroutine with stages: Blocks A to D, E (the
one place where `Chain` reads the clock), F, nonce, body binding. Time, other
requests, `/admin/revoke` and a restart come between any two stages. With a
revocation file an admin request may fail in the append or the fsync (answered
500) and leave part of a line; `durable` has the indices whose lines began a
line, and these a restart reads back. It may read more, what failed appends
left, and it may lose an index that was appended to a cut line: module
`RevocationFile` has the bytes, this one what follows for requests. Without a
file a restart forgets the local revocations. A bundle
is `forged` when it fails a check of A to D (module `DelegationChain` says
which do); a genuine one may fail there too. The remote status list and the
body digest are nondeterministic outcomes (the first is module `StatusCache`).
Requests refused before any state is read (method, size, header, JSON) have no
effect and are not actions. `config` is chosen once, in the initial state.

### RevocationFile
The file is a sequence of bytes (digits and newlines), of which the first
`synced` are on the disk. `Revoke` is two actions, write and fsync, each of
which can fail; a restart reads the log back, and a power loss keeps any prefix
that includes the synced bytes. `LineSpans`, `ParseUint` and `Load` are
`loadExisting`: a line that does not parse, here one whose number exceeds
`MaxIndex` (2^64 - 1 in the code), is skipped with a warning. The scanner's
limit of 64 KB for a line, which would stop the load, is not modelled: it takes
thousands of cut lines in a row.

### Policy, ChainVerify, DelegationChain
`ChainVerify!Chain` gives the error code of the first check that fails, in the
order of the code. A hash is a record that holds what was hashed; a signature
names its signer, or is unreadable: another algorithm, not three parts, not
base64, not canonical. `Policy` splits resource URIs (of one scheme) into segments
and normalises them as `normalizeResourceURI` does: one round of unescaping,
in either case of the hexadecimal digits, then `..` segments; an escaped slash
becomes a separator of the normalised string. Costs are integers.

`DelegationChain` puts receipts into circulation, without assuming that their
issuers are honest: any content, any claimed parent. Someone then presents a
sequence of them with an invocation. The properties compare the verdict with
the lineage that the hashes commit to, not with the order of presentation; the
history variable `line` records it when a receipt is signed. A root's
`prev_dr_hash` is null (`NoHash`), which is the hash of nothing.

### IssuerPool, ReceiptStore, ChainCalls
`IssuerPool` is Block C's fan-out: a goroutine per unique issuer, a semaphore,
a buffered channel that is drained after `wg.Wait`. `ReceiptStore` is what comes
after Block F. Files are sequences of blocks with a modification time, and
every system call is a step: open with truncation, write (into the open file,
even if its name has been removed), stat, remove, read. A tier is 0 (memory), 1
(files) or 3 (files and an authority whose answer may be missing, rejected or
of another size than the last). `ChainCalls` puts both together for concurrent
calls; the verdict of the checks in between is a choice. A restart, which may
follow a panic in Block C, keeps the files as they are. `Delete` has no caller in the server and is left out.

### Rfc3161, TimestampTokens
A token is the record its parse yields; a digest holds what was hashed and
under which algorithm, a signature the key that made it and the content it
covers. `Rfc3161` has every check of `VerifyTimestamp` and
`VerifyTimestampTrusted` in order, with the choice of the signer's certificate
among those the token carries, and `crypto/x509` chain building as an external
operator (`LeadsTo`): any number of intermediates of the token, each a CA, valid
at the time of the stamp and allowed to be used for timestamps, up to a root of
the pool that is so too, or that is the leaf itself. In `TimestampTokens` authorities sign hashes, and a token found in the
store is one of their replies, or anything put together from parts that exist.
What certification authorities promise is the assumption `TrustAnchors`.

### DIDMethods, Resolver
`DIDMethods` is what `Resolve` reads out of an identifier and out of a DID
document, by the classes of strings that the code tells apart: `base58Decode`
returns an error for a character outside its alphabet, and panics for one
outside its table of 256 (`Panics`). `Resolver` is one
DID of any method. Traffic for other DIDs appears as the LRU caches dropping
this DID's entries (`CacheEvicts`, `CircuitEvicts`); a leader that holds a
dropped circuit state records its outcome where nobody looks (`orphaned`).
`Resolve` is split at `inflightMu` and at the cache: lookup, join, circuit, host
check, dial, connection, fetch, close of the shared channel, delete, add. Each
of the two DNS lookups may get another answer. A client can disconnect while
its call waits or fetches. A panic ends the process with every call in it
(stage "dead": no call of a dead process is in any other), and a restart, after
a panic or without one, begins with empty caches. `FetchTimeout` stands for the lookups and the HTTP
client's timeout together.

### RateLimiter, Process, Service
A limiter is a value, as `main` builds two and nests them. Buckets count
`Token`-ths of a request, so a rate need not be a whole number. A bucket has an
identity: a request keeps the one it was given even if the cache drops it
meanwhile. `Process` has `config.Load` as the set of environments it accepts,
the stages of `main` in order, the serving goroutine and its error channel, and
every way to exit, a panic of a goroutine that recovers nothing among them.
`Service` composes them: requests with any
`X-Forwarded-For` in front of or behind a proxy, and what becomes of requests
in flight when the process ends.

## 3. Runs

Passing runs, with the number of distinct states:

| Run | Instance | Shows | States |
|---|---|---|---|
| `status_calls` | 2 callers and boot, 1 index, TTL 1, timeout 1, clock to 3 | `AtMostOneFetch`, `FailClosed`, `RevocationPropagates`, `NoRollback`, `CallsReturn` | 357,553 |
| `server_requests` | 2 requests, 2 invocations, capacity 1, TTL 2, clock to 3, 1 restart; nonces in memory with a revocation file, or in Redis without | `ReplaySpacing`, `ForgedNeverBurns`, `RevokedNeverServed`, `MemoryBounded`, `RefusedOnlyWhenFull`, `ImplementsClaims` | 3.3 million |
| `file_faults` | indices 1 and 12, largest index 111, 10 bytes, all faults | `WholeLinesAreDurable`, `NothingInvented` | 101,506 |
| `chain_bundles` | 3 receipts of 3 principals in any arrangement, or 3 hops of grants, or of policies; depth limit 3 | `AuthenticLineage`, `WithinEveryGrant`, `LeafLimitsBindAll` | 3.8 million |
| `chain_calls` | 2 calls that share a receipt, tiers 0, 1 and 3, tokens of 1 and 2 blocks, pool of 1 slot for 2 issuers | `UnwarnedIsStored`, `SoloReportVerifies`, `StoredIsResolved`, `PoolNeverStuck` | 3.3 million |
| `timestamp_tokens` | 2 authorities (one expiring, one under two intermediates), 7 certificates, thousands of forged tokens, 2 receipts | `TimestampVouched`, `GenuineAccepted` | 1.05 million |
| `resolver_calls` | 2 callers, 2 keys, TTL 1, threshold 2, cooldown 1, clock to 3, public, private and mixed DNS answers | `SingleFlight`, `RotationPropagates`, `PublicPeersOnly`, `BacksOff`, `ResolutionsReturn` | 698,298 |
| `service_front` | 2 clients, 2 requests in flight, table of 1 client, 9 environments | `ClientShare`, `SharedLimit`, `DrainLosesNothing`, `StopEnds` | 718,712 |

Why the bounds are enough to be interesting. In `status_calls` and
`resolver_calls` the clock passes TTL plus one fetch, so the bound of the
propagation properties is reached and crossed; two callers are enough for one
to be inside a critical section while the other has read and not yet acted, and
the boot goroutine is a third. With capacity below the number of jtis the nonce
map fills, evicts and overflows; with a table of one client every second client
evicts the first while a request of the first still holds its bucket. One index
that is a prefix of the other lets a cut line be read as either, and with 111
as the largest index two joined lines can make an index or a number too large
for one. Three hops are
the fewest at which a middle receipt can hide something of the root from the
leaf. Tokens of two sizes make a shorter write over a longer file visible. One
slot for two issuers makes the pool queue. The two configurations of
`server_requests` are those in which a restart keeps one store and loses the
other. An index beyond the list's end is not
in the instance of `status_calls`; the proofs cover it.

`chain_bundles` varies links, grants or policies within one behaviour, not all
at once: the code checks them in separate loops. Symmetry is used where every
property is a state or action property: over requests in `server_requests` and
over receipts in `timestamp_tokens`.

`RevokedNeverServed` and `ReplaySpacing` are about what the deployment can
remember: their histories end with an in-memory store at a restart, and a
revocation that was appended to a cut line counts until the next one.
`ResolutionsReturn` says that every call of `Resolve` returns unless the process
ends with all its calls, which a panic of one of them makes it do (below).
`DrainLosesNothing` names the deadline and a panic as what may cut a request
off. `ClientShare` is about clients whose bucket the table never dropped; what
eviction can gain is bounded by `SharedLimit` alone.

Runs that end in a violation, each of what the repository says of the program:

| Run | The repository says | The run shows |
|---|---|---|
| `server_replay` | `MaxInvocationAge` "closes that window" (chain.go:94-97) | the age test is `>` and the TTL test is `<`: at age exactly TTL the jti is free and the invocation still fresh; an `iat` ahead of the clock widens this by the skew |
| `file_torn` | a nil from `Revoke` "survives process restart" (file.go:19-21) | a short write leaves part of a line, the next revocation is appended to it, and both are read back as another index |
| `chain_denied` | "child policy must be a subset of parent policy" (chain.go:359) | a middle receipt drops a denial and its child grants the permission; the leaf policy handed on grants what the root denies (this invocation's own arguments are still held to the root by D1) |
| `readiness_gated` | `WarmUp` is called "to prevent readiness deadlock in orchestrators that gate traffic on /readyz" (status.go:135-136) | `main` calls it once; if that call fails nothing fetches a list until a request is routed here, and none is |

`readiness_gated` assumes requests wherever they are routed and an endpoint that
serves a fetch that is made again and again.

Further remarks from reading the code, without a run of their own:
- `Chain` "never panics" (chain.go:107), but `base58Decode` looks characters up
  in a table of 256 before it checks them (did.go:669): a character from U+0100
  on, in a did:key or in a multibase key of a served document, panics in a
  goroutine of Block C that recovers nothing (chain.go:610-616), which ends the
  process. It is the action `Panic` of `Resolver` and of `Service`;
- after a failed refresh every goroutine that waited on `refreshMu` fetches
  again, one by one (status.go:84-103);
- the inflight entry of a DID is deleted before its key is cached (did.go:364),
  so a call in between resolves again, one after the other, although did.go:110-112
  speaks of a single resolution;
- a did:web resolution failure is reported as INVALID_SIGNATURE because
  `classifySignatureError` looks for the texts of did:key errors (chain.go:745);
- a client that disconnects during a fetch counts as a failure of the endpoint
  (did.go:489);
- two calls that store the same receipt can see each other's token truncated or
  removed (chain.go:473-474, filesystem.go:60 and 84); the false report lasts for
  one response;
- `TSA_URL` without `STORE_DIR` is accepted, although config.go:58-60 calls the
  directory required;
- without `TSA_ROOT_CERT_PEM`, `main` logs that system roots are used
  (main.go:155), and chain.go:91 and config.go:77 say so too, but with a nil
  pool `VerifyTimestampTrusted` refuses (rfc3161.go:282);
- until `main` has bound the metrics listener and asked for signals it already
  serves, and a failure or a signal then drops what is in flight.

Deadlock checking is on except in `service_front` (a process ends) and
`readiness_gated` (the clock is bounded and no request is routed).

### Fairness
`StatusCache!FairSpec`: weak fairness of each goroutine's own steps (Go's
scheduler runs every runnable goroutine), and strong fairness of taking a lock,
because `sync.Mutex` hands the lock to a waiter that has starved for 1 ms. A
fetch ends because the HTTP client has a timeout of ten seconds; in the models
the clock does not pass the deadline of a fetch that is still running.
`Resolver!FairSpec`: weak fairness of each call's steps, cancellation excluded;
none of a restart.
`Service!FairSpec`: weak fairness of `main`, whose `Shutdown` context has a
deadline of 30 s, and of the serving goroutine once the listener is closed; none
of handlers, clients or signals. No fairness is assumed of the issuer, the
endpoint or evictions.

## 4. Proofs

Every invariant and every safety property of the passing runs is a theorem, for
any values of the constants and under the assumptions (`ASSUME`) of the
modules, which TLC evaluates in each run.

`StatusCacheProofs`: `TypeCorrect`, `OneFetch` (`AtMostOneFetch`),
`FailsClosed`, `RevocationsArrive` (`RevocationPropagates`) and `NeverRollsBack`.
They rest on `IndInv` of `StatusCache`. `AtMostOneFetch` is not inductive: two
mutexes guard the fetches, and what keeps their holders apart is that first
fetches happen while there is no snapshot and refreshes only after
(`SnapshotFirst`), together with who may be in which section
(`LockDiscipline`). `NoRollback` needs that a body fetched under `refreshMu`
contains the snapshot (`ListsGrow`). `RevocationPropagates` needs the ages of
each list in hand (`ListAges`): a body is as old as the start of its fetch, a
snapshot at most one fetch older than its date, and a call that reads without a
failed refresh of its own reads one dated at most TTL before it started.

`ServerProofs`: `TypeCorrect`, `ReplaysApart` (`ReplaySpacing`), `NoForgedClaim`
(`ForgedNeverBurns`), `RevokedRefused` (`RevokedNeverServed`), `BoundedMemory`,
`RoomFromExpired` (`RefusedOnlyWhenFull`), and `KeepsContract`: the nonce store
of the running server, of either kind, implements `NonceClaims`. What a check
does to the claims is stated once (`NonceClaimed`) and holds for both stores.
`ReplaySpacing` is about requests that were served, and is not inductive: a
request between its claim and its response will be served with an old claim
time. `HoldersApart` keeps those as far from the served ones as the served are
from each other, and `ClaimsRecorded` says that any claim younger than TTL is
the store's entry, so that a new claim is a TTL away from all. `KeepsContract`
does not need them: it goes by the cases of each store's `Check`, a tick and a
restart. `RevokedNeverServed` needs `RevocationsKnown`: every index
an admin was told of, since the last loss, is in the local set, and nothing is
durable without a file.

`ResolverProofs`: `TypeCorrect`, `OneFlight` (`SingleFlight`), `NoPrivatePeer`
(`PublicPeersOnly`), `RotationReaches` (`RotationPropagates`) and `Backoff`
(`BacksOff`), from `IndInv` of `Resolver`: the leader is the one caller in a
leading section while the channel is open (`Flight`), an address in hand has
been vetted (`Vetted`), a key in hand and a cached key are no older than the
start of the fetch or the expiry allows (`Clocks`, `KeyInHand`, `KeyAges`), and
an open circuit is the trace of recorded failures (`Backing`). The end of the
process leaves none of these anything to say (the case of `Forget`).

`TimestampProofs`: `TypeCorrect`, `Vouched` (`TimestampVouched`) and
`GenuineIsAccepted` (`GenuineAccepted`). The first follows the signature from
the certificate that the token selects to the signed attributes, and from their
digest to the TSTInfo; `TrustAnchors` closes it. The second goes the other way:
whatever else the reply carries, and in any order, the selection by issuer and
serial finds the signer (`SignerIsFound`), its attributes bind the TSTInfo
(`OwnAttributesBind`), a chain stays one when more certificates come with it
(`MoreLeadsTo`), and each check passes (`ReplyVerifies`). It rests on
`EmbeddedAssumption`: an authority embeds its own certificate, which has the
timestamping purpose, and no two certificates of one reply share issuer and
serial.

`DelegationProofs`, about operators: `AttenuationSound` (a child that passes
`CheckAttenuation` and keeps its parent's denials admits only what the parent
admits) and `AttenuationComposes` (neighbour checks bind every ancestor, if
denials are kept). The premise on denials is what `chain_denied` shows to be
missing from the code. About `DelegationChain`: `TypeCorrect`, `Authentic`
(`AuthenticLineage`), `EveryGrantHolds` (`WithinEveryGrant`) and `LeafBinds`
(`LeafLimitsBindAll`), from `IndInv`: a recorded lineage is its receipt after
the lineage of the parent whose hash it names (`Lines`), and a verdict is
`Chain`'s of a bundle of receipts in circulation (`Answered`). One lemma per
check says what its acceptance means for neighbours (`HashesLink`,
`IssuersLink`, `SignaturesHold`, `CommandsNarrow`, `EachAttenuates`,
`WindowsOpen`, ...); an accepted sequence is then shown, position by position,
to be the lineage of its last receipt, and limits carry from the leaf to every
ancestor by transitivity. This is for chains of any length and receipts of any
content, so none of the three concerns of `chain_bundles` is a restriction here.

`RevocationProofs`: `TypeCorrect`, `WholeLinesSurvive` (`WholeLinesAreDurable`)
and `OnlyWhatWasAsked` (`NothingInvented`). The first needs that a revocation
counted as whole has a line of its own within the synced bytes (`DurableInv`),
which appending and a power loss both leave alone (`LineAt` of a prefix). The
second needs that, as long as no line was cut, the file ends at the start of a
line, so that the next write makes a new one (`AskedInv`). What `ParseUint`
computes is not used, only that it reads back what was written
(`DecimalAssumption`).

`ChainCallsProofs`: `TypeCorrect` (`StoreTypeOK`), `StoredUnlessWarned`
(`UnwarnedIsStored`), `ResolvedBeforeStore` (`StoredIsResolved`), `NeverStuck`
(`PoolNeverStuck`) and `OwnTokensVerify` (`SoloReportVerifies`), for any number
of concurrent calls. `Types` says where a call can be and with what in hand
(`Calling`). `ReceiptInv` adds that a receipt's file is empty or whole
(`EmptyOrWhole`) and, being no token file, is never removed under a writer
(`Writing`). `PoolInv` adds that every issuer of the chain has its goroutine,
and that one which is done with a key has resolved it in this call (`Pooled`);
that some goroutine can always move follows by counting slots and room in the
channel. `SoloInv` is the long one: a call that
nobody overlapped finds each token it was granted whole in its file (`Stored`),
removes none of them as expired (`NotOwn`), and its report on a granted token
is that of `VerifyTimestampTrusted` (`GrantedVerifies`), which accepts it under
`AuthorityAssumption`: the configured roots vouch for the authority's
certificate.

`ServiceProofs`: `TypeCorrect`, `SharedBudget` (`SharedLimit`), `ClientBudget`
(`ClientShare`) and `DrainIsSafe` (`DrainLosesNothing`), from `IInv`.
`SharedAccount` and `ClientAccounts` balance what went past a limiter against
what is left in the bucket; a client's account is void once its bucket was
evicted (`dropped`), and until then a request about to ask holds that very
bucket (`Counted`). That a new bucket gets an identity nobody holds is a
counting argument over the table and the requests in flight, which is why
`Requests` is finite. `ProcessInv` orders the stages of `main` and of the
serving goroutine, and `Drained` says that `Shutdown` returned with nothing in
flight.

Other assumptions are of the kind the code or its format justifies: sentinel
values (`None`, `NoAttrs`, `Garbled`) are no values of the type they stand
beside (`SentinelAssumption`), and no receipt is in a chain twice, since each
names the hash of the one before it (`ChainsAssumption`).

Only model-checked: liveness under fairness, which is out of the prover's reach
(`CallsReturn`, `ResolutionsReturn`, `StopEnds`), and the runs that end in a
violation.

## 5. Not modelled, and the plan

Not modelled:
- DER, the encoding of X.509, signatures and base58 arithmetic: libraries, or
  functions of bytes without state. Tokens whose signer is named by a key
  identifier (version 3) and that carry several certificates fall back to the
  first of them in the code; `Rfc3161` has that, and `GenuineAccepted` excludes it.
- the canonical JSON comparison of the body binding: `VerifyServer` takes its
  outcome as a choice;
- counters of the metrics package, which nothing reads, and `operator/config.go`,
  which no part of the server calls;
- `Delete` of the stores, which no part of the server calls;
- a nonce TTL of zero or less, which `config.Load` lets through;
- the Rust core, the TypeScript SDK and MCP packages, and the example agent.

Next, in this order:
1. SDK issuance (`issue.ts`, `bundle.ts`) against `ChainVerify`: which issued
   chains the verifier accepts; a child without `exp` under a bounded parent.
2. The Rust chain verification against `ChainVerify`: where the two ports
   differ, list semantics first.
3. The TypeScript middleware and client as the far ends of a verification call.
