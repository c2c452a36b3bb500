------------------------------ MODULE Resolver ------------------------------
(***************************************************************************)
(* resolver.Resolver for one DID: the key cache, the map of resolutions in *)
(* flight, the circuit breaker, and the address that a fetch connects to,  *)
(* under concurrent calls of Resolve.                                      *)
(*                                                                         *)
(* Traffic for other DIDs shows as the two LRU caches dropping this DID's  *)
(* entries at any time.  The endpoint of a did:web replaces its key by the *)
(* next version; every DNS lookup may give another answer.  A panic of the *)
(* resolving goroutine, which nothing recovers, ends the process.          *)
(***************************************************************************)
EXTENDS DIDMethods, Integers, FiniteSets

CONSTANTS Callers,      \* goroutines that call Resolve
          NoOne,        \* nobody leads a resolution
          TTL,          \* how long a cached key is used
          FetchTimeout, \* didWebFetchTimeout
          Threshold,    \* cbThreshold: failures that open the circuit
          Cooldown,     \* cbCooldown
          Identifiers,  \* the DIDs considered
          Documents(_), \* documents in which a key is the first usable one
          OtherDocuments, \* all other documents
          Answers,      \* DNS answers: sequences of addresses
          Private,      \* privateRanges
          NoAddress,
          MaxKey,       \* bound on key rotations
          MaxTime       \* bound on the clock

ASSUME ResolverConstants ==
  /\ NoOne \notin Callers
  /\ TTL \in Nat /\ Cooldown \in Nat /\ MaxTime \in Nat
  /\ FetchTimeout \in Nat \ {0}
  /\ Threshold \in Nat \ {0}
  /\ MaxKey \in Nat \ {0}

ASSUME ResolverInputs ==
  /\ Identifiers \subseteq Identifier
  /\ \A k \in 1 .. MaxKey : \A d \in Documents(k) : extractEd25519FromDIDDocument(d) = k
  /\ \A d \in OtherDocuments : extractEd25519FromDIDDocument(d) \in {NoKey, Panics}
  /\ (\A a \in Answers : 1 \in DOMAIN a) /\ NoAddress \notin Private

VARIABLES did,           \* the DID
          now,
          current,       \* the key the endpoint serves
          retiredAt,     \* when each key was replaced
          cachedKey, expiry,           \* the cache entry; cachedKey = NoKey: none
          leader, done, sharedKey,     \* the entry of the inflight map, if any
          failures, openUntil,         \* the circuit state
          orphaned,      \* the LRU dropped the circuit state the leader holds
          pc, startedAt, fetchStart,   \* each call
          peer,          \* the address the leader connects to
          key,           \* the key in hand or returned; NoKey is an error
          \* history
          lastFailure    \* when the circuit last recorded a failure

endpoint == <<did, current, retiredAt>>
cache    == <<cachedKey, expiry>>
flight   == <<leader, done, sharedKey, peer>>
circuit  == <<failures, openUntil, orphaned>>
calls    == <<pc, startedAt, fetchStart, key>>
vars     == <<now, endpoint, cache, flight, circuit, calls, lastFailure>>

Time   == 0 .. MaxTime
Never  == MaxTime + 1
Closed == -1

Contacting == {"check", "dial", "connect", "fetch"}
Leading == {"circuit", "close", "delete", "add"} \cup Contacting
Stages  == {"idle", "lookup", "join", "wait", "return", "dead"} \cup Leading

Addresses == UNION {{a[i] : i \in DOMAIN a} : a \in Answers}

TypeOK ==
  /\ did \in Identifiers
  /\ peer \in Addresses \cup {NoAddress}
  /\ now \in Time
  /\ current \in 1 .. MaxKey
  /\ retiredAt \in [1 .. MaxKey -> 0 .. Never]
  /\ cachedKey \in NoKey .. MaxKey
  /\ expiry \in 0 .. MaxTime + TTL
  /\ leader \in Callers \cup {NoOne}
  /\ done \in BOOLEAN
  /\ sharedKey \in NoKey .. MaxKey
  /\ failures \in 0 .. Threshold
  /\ openUntil \in {Closed} \cup 0 .. MaxTime + Cooldown
  /\ orphaned \in BOOLEAN
  /\ pc \in [Callers -> Stages]
  /\ startedAt \in [Callers -> Time]
  /\ fetchStart \in [Callers -> Time]
  /\ key \in [Callers -> NoKey .. MaxKey]
  /\ lastFailure \in Time

Init ==
  /\ did \in Identifiers
  /\ peer = NoAddress
  /\ now = 0
  /\ current = 1
  /\ retiredAt = [k \in 1 .. MaxKey |-> Never]
  /\ cachedKey = NoKey /\ expiry = 0
  /\ leader = NoOne /\ done = FALSE /\ sharedKey = NoKey
  /\ failures = 0 /\ openUntil = Closed /\ orphaned = FALSE
  /\ pc = [p \in Callers |-> "idle"]
  /\ startedAt = [p \in Callers |-> 0]
  /\ fetchStart = [p \in Callers |-> 0]
  /\ key = [p \in Callers |-> NoKey]
  /\ lastFailure = 0

---------------------------------------------------------------------------
(* The environment *)

\* Time passes, but not past the deadline of a resolution in flight.
Tick ==
  /\ now < MaxTime
  /\ \A p \in Callers : pc[p] \in Leading => now < fetchStart[p] + FetchTimeout
  /\ now' = now + 1
  /\ UNCHANGED <<endpoint, cache, flight, circuit, calls, lastFailure>>

\* The owner of the DID publishes a new key.
Rotate ==
  /\ did.method = "web" /\ current < MaxKey
  /\ current' = current + 1
  /\ retiredAt' = [retiredAt EXCEPT ![current] = now]
  /\ UNCHANGED <<did, now, cache, flight, circuit, calls, lastFailure>>

\* Other DIDs push this one out of the key cache, or out of the circuit states;
\* a leader then holds a state that nobody else will see.
CacheEvicts ==
  /\ cachedKey # NoKey
  /\ cachedKey' = NoKey /\ expiry' = 0
  /\ UNCHANGED <<now, endpoint, flight, circuit, calls, lastFailure>>

CircuitEvicts ==
  /\ failures > 0 \/ \E p \in Callers : pc[p] \in Contacting
  /\ failures' = 0
  /\ openUntil' = Closed
  /\ orphaned' = \E p \in Callers : pc[p] \in Contacting
  /\ lastFailure' = 0
  /\ UNCHANGED <<now, endpoint, cache, flight, calls>>

\* The process has ended, with all its calls and all that it remembers.
Forget(stage) ==
  /\ pc' = [q \in Callers |-> stage]
  /\ startedAt' = [q \in Callers |-> 0] /\ fetchStart' = [q \in Callers |-> 0]
  /\ key' = [q \in Callers |-> NoKey]
  /\ cachedKey' = NoKey /\ expiry' = 0
  /\ leader' = NoOne /\ done' = FALSE /\ sharedKey' = NoKey /\ peer' = NoAddress
  /\ failures' = 0 /\ openUntil' = Closed /\ orphaned' = FALSE
  /\ lastFailure' = 0
  /\ UNCHANGED <<now, endpoint>>

\* It is started again, after a panic or because it was killed.
Restart == Forget("idle")

---------------------------------------------------------------------------
(* Resolve *)

GoTo(p, stage) == pc' = [pc EXCEPT ![p] = stage]
Return(p, k)   == GoTo(p, "idle") /\ key' = [key EXCEPT ![p] = k]

Call(p) ==
  /\ pc[p] = "idle"
  /\ GoTo(p, "lookup")
  /\ startedAt' = [startedAt EXCEPT ![p] = now]
  /\ key' = [key EXCEPT ![p] = NoKey]
  /\ UNCHANGED <<now, endpoint, cache, flight, circuit, fetchStart, lastFailure>>

\* Mutant: the fast path does not look at the expiry.
LookupUnexpiring(p) ==
  /\ pc[p] = "lookup"
  /\ IF cachedKey # NoKey
     THEN Return(p, cachedKey)
     ELSE GoTo(p, "join") /\ UNCHANGED key
  /\ UNCHANGED <<now, endpoint, cache, flight, circuit, startedAt, fetchStart, lastFailure>>

\* The fast path under cacheMu; an expired entry is removed.
Lookup(p) ==
  /\ pc[p] = "lookup"
  /\ IF cachedKey # NoKey /\ now < expiry
     THEN Return(p, cachedKey) /\ UNCHANGED cache
     ELSE /\ cachedKey' = NoKey /\ expiry' = 0
          /\ GoTo(p, "join")
          /\ UNCHANGED key
  /\ UNCHANGED <<now, endpoint, flight, circuit, startedAt, fetchStart, lastFailure>>

\* Mutant: the inflight map is not consulted.
JoinAlone(p) ==
  /\ pc[p] = "join"
  /\ leader' = p /\ done' = FALSE /\ sharedKey' = NoKey
  /\ GoTo(p, "circuit")
  /\ fetchStart' = [fetchStart EXCEPT ![p] = now]
  /\ UNCHANGED <<now, endpoint, cache, circuit, peer, startedAt, key, lastFailure>>

\* Under inflightMu: wait for the resolution in flight, or lead a new one.
\* An entry whose done is closed already answers at once.
Join(p) ==
  /\ pc[p] = "join"
  /\ IF leader # NoOne
     THEN /\ GoTo(p, IF done THEN "return" ELSE "wait")
          /\ key' = [key EXCEPT ![p] = IF done THEN sharedKey ELSE NoKey]
          /\ UNCHANGED <<flight, fetchStart>>
     ELSE /\ leader' = p /\ UNCHANGED peer /\ done' = FALSE /\ sharedKey' = NoKey
          /\ GoTo(p, "circuit")
          /\ fetchStart' = [fetchStart EXCEPT ![p] = now]
          /\ UNCHANGED key
  /\ UNCHANGED <<now, endpoint, cache, circuit, startedAt, lastFailure>>

\* A follower whose leader has closed done returns the shared result.
FollowerReturns(p) ==
  /\ pc[p] = "return"
  /\ GoTo(p, "idle")
  /\ UNCHANGED <<now, endpoint, cache, flight, circuit, startedAt, fetchStart, key, lastFailure>>

\* A follower's own context ends first (or wins the select).
FollowerCancelled(p) ==
  /\ pc[p] \in {"wait", "return"}
  /\ Return(p, NoKey)
  /\ UNCHANGED <<now, endpoint, cache, flight, circuit, startedAt, fetchStart, lastFailure>>

\* resolveUncached, for a did:key, an unsupported method or a did:web that gives
\* no URL: the answer is in the identifier, and the circuit is not involved.
ResolveOffline(p) ==
  /\ pc[p] = "circuit" /\ ~ NeedsFetch(did) /\ resolveOffline(did) # Panics
  /\ key' = [key EXCEPT ![p] = resolveOffline(did)]
  /\ GoTo(p, "close")
  /\ UNCHANGED <<now, endpoint, cache, flight, circuit, startedAt, fetchStart, lastFailure>>

\* isOpen: fail fast, or, once the cooldown is over, reset and let this call
\* through as the probe.
CheckCircuit(p) ==
  /\ pc[p] = "circuit" /\ NeedsFetch(did)
  /\ IF openUntil # Closed /\ now <= openUntil
     THEN GoTo(p, "close") /\ UNCHANGED <<openUntil, orphaned>>
     ELSE GoTo(p, "check") /\ openUntil' = Closed /\ orphaned' = FALSE
  /\ UNCHANGED <<now, endpoint, cache, flight, failures, startedAt, fetchStart,
                 key, lastFailure>>

\* Mutant: the circuit opens at the threshold only, so a failed probe leaves it closed.
RecordFailureOnce ==
  IF orphaned THEN UNCHANGED <<failures, openUntil, lastFailure>>
  ELSE /\ failures' = IF failures < Threshold THEN failures + 1 ELSE failures
       /\ openUntil' = IF failures + 1 = Threshold THEN now + Cooldown ELSE openUntil
       /\ lastFailure' = now

\* recordFailure; the failure count is only ever compared with the threshold.
RecordFailure ==
  IF orphaned THEN UNCHANGED <<failures, openUntil, lastFailure>>
  ELSE /\ failures' = IF failures < Threshold THEN failures + 1 ELSE failures
       /\ openUntil' = IF failures + 1 >= Threshold THEN now + Cooldown ELSE openUntil
       /\ lastFailure' = now

\* recordSuccess
RecordSuccess ==
  IF orphaned THEN UNCHANGED <<failures, openUntil>>
  ELSE failures' = 0 /\ openUntil' = Closed

\* The resolution is over without a key: a failure of the endpoint.
Fails(p) ==
  /\ RecordFailure
  /\ GoTo(p, "close")
  /\ peer' = NoAddress
  /\ UNCHANGED <<now, endpoint, cache, leader, done, sharedKey, orphaned,
                 startedAt, fetchStart, key>>

isPrivate(answer) == \E i \in DOMAIN answer : answer[i] \in Private

\* isPrivateHost, before the request: a host with a private address is refused,
\* and nothing is recorded.
CheckHost(p) ==
  /\ pc[p] = "check"
  /\ \E answer \in Answers : GoTo(p, IF isPrivate(answer) THEN "close" ELSE "dial")
  /\ UNCHANGED <<now, endpoint, cache, flight, circuit, startedAt, fetchStart,
                 key, lastFailure>>

\* safeDialContext looks the host up again, refuses any private address and
\* keeps the first.  (An idle connection that is reused was dialled like this.)
SafeDial(p) ==
  /\ pc[p] = "dial"
  /\ \E answer \in Answers :
       IF isPrivate(answer) THEN Fails(p)
       ELSE /\ peer' = answer[1]
            /\ GoTo(p, "connect")
            /\ UNCHANGED <<now, endpoint, cache, leader, done, sharedKey, circuit,
                           startedAt, fetchStart, key, lastFailure>>

\* Mutant: the connection is made by host name, which is looked up once more.
Connect_ByName(p) ==
  /\ pc[p] = "connect"
  /\ \E answer \in Answers : peer' = answer[1]
  /\ GoTo(p, "fetch")
  /\ UNCHANGED <<now, endpoint, cache, leader, done, sharedKey, circuit, startedAt,
                 fetchStart, key, lastFailure>>

\* The connection is made to that address.
Connect(p) ==
  /\ pc[p] = "connect"
  /\ GoTo(p, "fetch")
  /\ UNCHANGED <<now, endpoint, cache, flight, circuit, startedAt, fetchStart,
                 key, lastFailure>>

\* A document with a key.
FetchServed(p) ==
  /\ pc[p] = "fetch"
  /\ RecordSuccess
  /\ lastFailure' = 0
  /\ \E doc \in Documents(current) :
       key' = [key EXCEPT ![p] = extractEd25519FromDIDDocument(doc)]
  /\ GoTo(p, "close")
  /\ peer' = NoAddress
  /\ UNCHANGED <<now, endpoint, cache, leader, done, sharedKey, orphaned,
                 startedAt, fetchStart>>

\* A document without one.
FetchUseless(p) ==
  /\ pc[p] = "fetch"
  /\ \E doc \in OtherDocuments : extractEd25519FromDIDDocument(doc) = NoKey
  /\ Fails(p)

\* base58Decode panics on the identifier, or on a key of the document, in a
\* goroutine of resolveIssuersParallel: done stays open and the process ends.
Panic(p) ==
  /\ \/ pc[p] = "circuit" /\ ~ NeedsFetch(did) /\ resolveOffline(did) = Panics
     \/ pc[p] = "fetch" /\ \E doc \in OtherDocuments : extractEd25519FromDIDDocument(doc) = Panics
  /\ Forget("dead")

\* A lookup, the connection or the request fails or times out, a redirect, a
\* status other than 200, too large a body, or the client of the leader's
\* request disconnects, whose context error is recorded like any other.
ContactFails(p) == pc[p] \in Contacting /\ Fails(p)

\* Mutant: done is closed for a successful resolution only.
CloseOnSuccess(p) ==
  /\ pc[p] = "close"
  /\ done' = (key[p] # NoKey)
  /\ sharedKey' = key[p]
  /\ pc' = [q \in Callers |-> IF q = p THEN "delete"
                              ELSE IF pc[q] = "wait" /\ key[p] # NoKey THEN "return" ELSE pc[q]]
  /\ key' = [q \in Callers |-> IF pc[q] = "wait" THEN key[p] ELSE key[q]]
  /\ UNCHANGED <<now, endpoint, cache, leader, peer, circuit, startedAt, fetchStart, lastFailure>>

\* The result is shared: close(e.done) wakes every follower.
Close(p) ==
  /\ pc[p] = "close"
  /\ done' = TRUE
  /\ sharedKey' = key[p]
  /\ pc' = [q \in Callers |-> IF q = p THEN "delete"
                              ELSE IF pc[q] = "wait" THEN "return" ELSE pc[q]]
  /\ key' = [q \in Callers |-> IF pc[q] = "wait" THEN key[p] ELSE key[q]]
  /\ UNCHANGED <<now, endpoint, cache, leader, peer, circuit, startedAt, fetchStart,
                 lastFailure>>

\* delete(r.inflight, did); an error is returned without touching the cache.
Delete(p) ==
  /\ pc[p] = "delete"
  /\ leader' = NoOne /\ done' = FALSE /\ sharedKey' = NoKey
  /\ GoTo(p, IF key[p] = NoKey THEN "idle" ELSE "add")
  /\ UNCHANGED <<now, endpoint, cache, circuit, peer, startedAt, fetchStart, key, lastFailure>>

\* Mutant: the entry lives for twice the TTL.
AddTwice(p) ==
  /\ pc[p] = "add"
  /\ cachedKey' = key[p]
  /\ expiry' = now + 2 * TTL
  /\ GoTo(p, "idle")
  /\ fetchStart' = [fetchStart EXCEPT ![p] = 0]
  /\ UNCHANGED <<now, endpoint, flight, circuit, startedAt, key, lastFailure>>

Add(p) ==
  /\ pc[p] = "add"
  /\ cachedKey' = key[p]
  /\ expiry' = now + TTL
  /\ GoTo(p, "idle")
  /\ fetchStart' = [fetchStart EXCEPT ![p] = 0]
  /\ UNCHANGED <<now, endpoint, flight, circuit, startedAt, key, lastFailure>>

---------------------------------------------------------------------------
\* A step that nothing but the scheduler can delay.
Runs(p) ==
  \/ Lookup(p) \/ Join(p) \/ FollowerReturns(p) \/ ResolveOffline(p) \/ CheckCircuit(p)
  \/ CheckHost(p) \/ SafeDial(p) \/ Connect(p)
  \/ FetchServed(p) \/ FetchUseless(p) \/ ContactFails(p) \/ Panic(p)
  \/ Close(p) \/ Delete(p) \/ Add(p)

Next ==
  \/ Tick \/ Rotate \/ CacheEvicts \/ CircuitEvicts \/ Restart
  \/ \E p \in Callers : Call(p) \/ Runs(p) \/ FollowerCancelled(p)

Spec == Init /\ [][Next]_vars

\* The scheduler runs every runnable goroutine, the mutexes are held only for
\* single steps, and the client's timeout ends every fetch.
FairSpec == Spec /\ \A p \in Callers : WF_vars(Runs(p))

---------------------------------------------------------------------------
(* Properties *)

\* Singleflight: however lookups, joins, evictions and cancellations
\* interleave, the endpoint never sees two requests for this DID at once.
SingleFlight ==
  \A p, q \in Callers : pc[p] \in Contacting /\ pc[q] \in Contacting => p = q

\* A key that the owner has replaced is returned by no call that starts more
\* than TTL plus one fetch later, whether it comes from the cache, from the
\* call's own fetch or from the fetch of another goroutine.
RotationPropagates ==
  \A p \in Callers :
    pc[p] = "idle" /\ key[p] # NoKey =>
      retiredAt[key[p]] >= startedAt[p] - TTL - FetchTimeout

\* The resolver connects to no private address (and so sends it no request),
\* whatever DNS answers to each of the lookups of one resolution: the check
\* before the request, the dialer's own, and any the connection might need.
PublicPeersOnly ==
  \A p \in Callers : pc[p] = "fetch" => peer \notin Private

\* The breaker backs off: an endpoint that has failed Threshold times in a row
\* is asked again only after a cooldown without a request, and again after
\* every failed probe.
BacksOff ==
  [][\A p \in Callers :
       pc[p] = "circuit" /\ pc'[p] = "check" /\ failures >= Threshold =>
         now > lastFailure + Cooldown]_vars

\* Every call of Resolve returns, unless the process ends with all its calls: no
\* follower is left waiting for a leader that failed, was cancelled, found the
\* circuit open or panicked.
ResolutionsReturn ==
  \A p \in Callers : pc[p] \notin {"idle", "dead"} ~> pc[p] \in {"idle", "dead"}

---------------------------------------------------------------------------
(* The inductive invariant behind the safety properties (ResolverProofs). *)

\* Whoever resolves is the entry of the inflight map.
Flight == \A p \in Callers : pc[p] \in Leading \ {"add"} => leader = p

\* What a leader connects to has been looked at.
Vetted == \A p \in Callers : pc[p] \in {"connect", "fetch"} => peer \notin Private

\* A call has no key before its resolution, or that of its leader, is over; the
\* shared key is the leader's.
KeyInHand ==
  /\ \A p \in Callers :
       pc[p] \in {"lookup", "join", "wait", "circuit"} \cup Contacting => key[p] = NoKey
  /\ sharedKey # NoKey => leader \in Callers /\ pc[leader] = "delete" /\ sharedKey = key[leader]

\* Nothing starts in the future, a resolution ends within its timeout, and keys
\* that have not been replaced are marked so.
Clocks ==
  /\ \A p \in Callers :
       /\ startedAt[p] <= now
       /\ pc[p] \in Leading => fetchStart[p] <= now /\ now <= fetchStart[p] + FetchTimeout
  /\ expiry <= now + TTL
  /\ \A k \in 1 .. MaxKey : k >= current => retiredAt[k] = Never
  /\ did.method # "web" => current = FirstKey

\* How old a key can be: in the cache, in a leader's hand, in an answer.
KeyAges ==
  /\ cachedKey # NoKey => retiredAt[cachedKey] >= expiry - TTL - FetchTimeout
  /\ \A p \in Callers : key[p] # NoKey =>
       /\ pc[p] \in Leading => retiredAt[key[p]] >= fetchStart[p]
       /\ pc[p] \in {"return", "idle"} =>
            retiredAt[key[p]] >= startedAt[p] - TTL - FetchTimeout

\* A circuit at its threshold is open, or its cooldown is over.
Backing ==
  /\ orphaned => failures = 0
  /\ failures >= Threshold =>
       \/ openUntil = lastFailure + Cooldown
       \/ openUntil = Closed /\ now > lastFailure + Cooldown

IndInv == TypeOK /\ Flight /\ Vetted /\ KeyInHand /\ Clocks /\ KeyAges /\ Backing
============================================================================
