---------------------------- MODULE StatusCache ----------------------------
(***************************************************************************)
(* revocation.StatusCache: the cached copy of the issuer's Bitstring       *)
(* Status List that Block F of the verifier consults.                      *)
(*                                                                         *)
(* Every IsRevoked call runs in a request goroutine of its own.  A first   *)
(* fetch is serialised by initMu, a TTL refresh by refreshMu: two          *)
(* different locks guard the one publication of a snapshot.  The RWMutex   *)
(* mu is held only for single reads and writes of the snapshot, each of    *)
(* which is one step here.                                                 *)
(*                                                                         *)
(* The list itself is abstracted to the set of indices whose bit is set.   *)
(* The issuer only ever sets bits.                                         *)
(***************************************************************************)
EXTENDS Integers, FiniteSets

CONSTANTS Callers,      \* request goroutines that call IsRevoked
          Main,         \* the goroutine of main(), which runs WarmUp at boot
          NoOne,        \* an unlocked mutex
          Indices,      \* status list indices that receipts carry
          Covered,      \* the indices inside the published list's length
          TTL,          \* StatusListCacheTTLSecs
          FetchTimeout, \* what bounds one refresh: httpClient.Timeout, fetchTimeout
          MaxTime       \* bound on the clock

ASSUME StatusCacheConstants ==
  /\ Main \notin Callers
  /\ NoOne \notin Callers \cup {Main}
  /\ Indices # {}
  /\ Covered \subseteq Indices
  /\ TTL \in Nat
  /\ FetchTimeout \in Nat \ {0}
  /\ MaxTime \in Nat

VARIABLES now,          \* the wall clock
          revokedAt,    \* when the issuer set each index's bit
          hasSnapshot, bitstring, fetchedAt,   \* the published snapshot
          initMu, refreshMu,                   \* who holds each mutex
          pc,           \* where each goroutine is in its call
          idx,          \* the index asked for
          startedAt,    \* when the call began
          fetchStart,   \* when the goroutine's latest fetch began
          body,         \* the list read by the fetch in progress
          failed,       \* a TTL refresh of this call failed
          answer        \* what the latest call returned

snapshot == <<hasSnapshot, bitstring, fetchedAt>>
mutexes  == <<initMu, refreshMu>>
locals   == <<idx, startedAt, fetchStart, body, failed, answer>>
vars     == <<now, revokedAt, snapshot, mutexes, pc, locals>>

Procs == Callers \cup {Main}
Never == MaxTime + 1
Time  == 0 .. MaxTime

\* The list the issuer serves at this moment.
Published == {i \in Covered : revokedAt[i] # Never}

\* Is the goroutine inside ensureInitialSnapshot's, or the TTL path's, lock?
InitSection    == {"initCheck", "initFetch", "initPublish"}
RefreshSection == {"refreshCheck", "fetch", "publish"}
Fetching       == {"initFetch", "initPublish", "fetch", "publish"}
Stages == InitSection \cup RefreshSection \cup
          {"idle", "done", "checkSnapshot", "initLock", "checkTTL",
           "refreshLock", "read"}
Answers == {"none", "revoked", "notRevoked", "cancelled", "noSnapshot",
            "outOfRange"}

TypeOK ==
  /\ now \in Time
  /\ revokedAt \in [Covered -> 0 .. Never]
  /\ hasSnapshot \in BOOLEAN
  /\ bitstring \subseteq Covered
  /\ fetchedAt \in Time
  /\ initMu \in Procs \cup {NoOne}
  /\ refreshMu \in Procs \cup {NoOne}
  /\ pc \in [Procs -> Stages]
  /\ idx \in [Procs -> Indices]
  /\ startedAt \in [Procs -> Time]
  /\ fetchStart \in [Procs -> Time]
  /\ body \in [Procs -> SUBSET Covered]
  /\ failed \in [Procs -> BOOLEAN]
  /\ answer \in [Procs -> Answers]

\* main() builds the cache and calls WarmUp before the server listens.
Init ==
  /\ now = 0
  /\ revokedAt \in [Covered -> {0, Never}]
  /\ hasSnapshot = FALSE
  /\ bitstring = {}
  /\ fetchedAt = 0
  /\ initMu = NoOne
  /\ refreshMu = NoOne
  /\ pc = [p \in Procs |-> IF p = Main THEN "initLock" ELSE "idle"]
  /\ idx = [p \in Procs |-> CHOOSE i \in Indices : TRUE]
  /\ startedAt = [p \in Procs |-> 0]
  /\ fetchStart = [p \in Procs |-> 0]
  /\ body = [p \in Procs |-> {}]
  /\ failed = [p \in Procs |-> FALSE]
  /\ answer = [p \in Procs |-> "none"]

---------------------------------------------------------------------------
(* The environment. *)

\* Time passes, but not past the deadline of a fetch in flight.
Tick ==
  /\ now < MaxTime
  /\ \A p \in Procs : pc[p] \in Fetching => now < fetchStart[p] + FetchTimeout
  /\ now' = now + 1
  /\ UNCHANGED <<revokedAt, snapshot, mutexes, pc, locals>>

\* The issuer sets the bit of index i.
IssuerRevokes(i) ==
  /\ revokedAt[i] = Never
  /\ revokedAt' = [revokedAt EXCEPT ![i] = now]
  /\ UNCHANGED <<now, snapshot, mutexes, pc, locals>>

---------------------------------------------------------------------------
(* IsRevoked *)

Return(p, result) ==
  /\ pc' = [pc EXCEPT ![p] = IF p = Main THEN "done" ELSE "idle"]
  /\ answer' = [answer EXCEPT ![p] = result]

\* A request reaches Block F for a receipt with status list index i.  The
\* server takes requests once main's WarmUp has returned, whatever it returned.
Call(p, i) ==
  /\ pc[p] = "idle"
  /\ pc[Main] = "done"
  /\ idx' = [idx EXCEPT ![p] = i]
  /\ startedAt' = [startedAt EXCEPT ![p] = now]
  /\ failed' = [failed EXCEPT ![p] = FALSE]
  /\ answer' = [answer EXCEPT ![p] = "none"]
  /\ pc' = [pc EXCEPT ![p] = "checkSnapshot"]
  /\ UNCHANGED <<now, revokedAt, snapshot, mutexes, fetchStart, body>>

\* The first look of a call: its context may be cancelled already; otherwise
\* the path depends on whether a snapshot was ever published.
CheckSnapshot(p) ==
  /\ pc[p] = "checkSnapshot"
  /\ \/ Return(p, "cancelled")
     \/ /\ pc' = [pc EXCEPT ![p] = IF hasSnapshot THEN "checkTTL" ELSE "initLock"]
        /\ UNCHANGED answer
  /\ UNCHANGED <<now, revokedAt, snapshot, mutexes, idx, startedAt, fetchStart,
                 body, failed>>

\* What follows a successful ensureInitialSnapshot.
AfterInit(p) == IF p = Main THEN "done" ELSE "checkTTL"

InitLock(p) ==
  /\ pc[p] = "initLock"
  /\ initMu = NoOne
  /\ initMu' = p
  /\ pc' = [pc EXCEPT ![p] = "initCheck"]
  /\ UNCHANGED <<now, revokedAt, snapshot, refreshMu, locals>>

\* Mutant: no second look under initMu.
InitCheckMissing(p) ==
  /\ pc[p] = "initCheck"
  /\ pc' = [pc EXCEPT ![p] = "initFetch"]
  /\ fetchStart' = [fetchStart EXCEPT ![p] = now]
  /\ UNCHANGED <<now, revokedAt, snapshot, mutexes, idx, startedAt, body, failed, answer>>

\* ensureInitialSnapshot looks again under the lock before it fetches.
InitCheck(p) ==
  /\ pc[p] = "initCheck"
  /\ IF hasSnapshot
     THEN /\ initMu' = NoOne
          /\ pc' = [pc EXCEPT ![p] = AfterInit(p)]
          /\ UNCHANGED fetchStart
     ELSE /\ pc' = [pc EXCEPT ![p] = "initFetch"]
          /\ fetchStart' = [fetchStart EXCEPT ![p] = now]
          /\ UNCHANGED initMu
  /\ UNCHANGED <<now, revokedAt, snapshot, refreshMu, idx, startedAt, body,
                 failed, answer>>

CheckTTL(p) ==
  /\ pc[p] = "checkTTL"
  /\ pc' = [pc EXCEPT ![p] = IF now - fetchedAt > TTL THEN "refreshLock" ELSE "read"]
  /\ UNCHANGED <<now, revokedAt, snapshot, mutexes, locals>>

\* Mutant: refreshes are not serialised.
RefreshUnlocked(p) ==
  /\ pc[p] = "refreshLock"
  /\ refreshMu' = p
  /\ pc' = [pc EXCEPT ![p] = "refreshCheck"]
  /\ UNCHANGED <<now, revokedAt, snapshot, initMu, locals>>

RefreshLock(p) ==
  /\ pc[p] = "refreshLock"
  /\ refreshMu = NoOne
  /\ refreshMu' = p
  /\ pc' = [pc EXCEPT ![p] = "refreshCheck"]
  /\ UNCHANGED <<now, revokedAt, snapshot, initMu, locals>>

\* IsRevoked looks at the TTL again under refreshMu before it fetches.
RefreshCheck(p) ==
  /\ pc[p] = "refreshCheck"
  /\ IF now - fetchedAt > TTL
     THEN /\ pc' = [pc EXCEPT ![p] = "fetch"]
          /\ fetchStart' = [fetchStart EXCEPT ![p] = now]
          /\ UNCHANGED refreshMu
     ELSE /\ pc' = [pc EXCEPT ![p] = "read"]
          /\ refreshMu' = NoOne
          /\ UNCHANGED fetchStart
  /\ UNCHANGED <<now, revokedAt, snapshot, initMu, idx, startedAt, body, failed,
                 answer>>

\* The final read: the bit, or an error for an index outside the list.
Read(p) ==
  /\ pc[p] = "read"
  /\ Return(p, IF idx[p] \notin Covered THEN "outOfRange"
               ELSE IF idx[p] \in bitstring THEN "revoked" ELSE "notRevoked")
  /\ UNCHANGED <<now, revokedAt, snapshot, mutexes, idx, startedAt, fetchStart,
                 body, failed>>

---------------------------------------------------------------------------
(* refresh *)

\* The endpoint answers with the list of this moment.
FetchServed(p) ==
  /\ pc[p] \in {"initFetch", "fetch"}
  /\ body' = [body EXCEPT ![p] = Published]
  /\ pc' = [pc EXCEPT ![p] = IF pc[p] = "initFetch" THEN "initPublish" ELSE "publish"]
  /\ UNCHANGED <<now, revokedAt, snapshot, mutexes, idx, startedAt, fetchStart,
                 failed, answer>>

\* Mutant: the snapshot is dated with its expiry.
PublishExpiry(p) ==
  /\ pc[p] \in {"initPublish", "publish"}
  /\ hasSnapshot' = TRUE
  /\ bitstring' = body[p]
  /\ fetchedAt' = now + TTL
  /\ IF pc[p] = "initPublish"
     THEN initMu' = NoOne /\ pc' = [pc EXCEPT ![p] = AfterInit(p)] /\ UNCHANGED refreshMu
     ELSE refreshMu' = NoOne /\ pc' = [pc EXCEPT ![p] = "read"] /\ UNCHANGED initMu
  /\ body' = [body EXCEPT ![p] = {}]
  /\ UNCHANGED <<now, revokedAt, idx, startedAt, fetchStart, failed, answer>>

\* refresh publishes a whole body, dates it now, and releases the lock.
Publish(p) ==
  /\ pc[p] \in {"initPublish", "publish"}
  /\ hasSnapshot' = TRUE
  /\ bitstring' = body[p]
  /\ fetchedAt' = now
  /\ IF pc[p] = "initPublish"
     THEN /\ initMu' = NoOne
          /\ pc' = [pc EXCEPT ![p] = AfterInit(p)]
          /\ UNCHANGED refreshMu
     ELSE /\ refreshMu' = NoOne
          /\ pc' = [pc EXCEPT ![p] = "read"]
          /\ UNCHANGED initMu
  /\ body' = [body EXCEPT ![p] = {}]
  /\ UNCHANGED <<now, revokedAt, idx, startedAt, fetchStart, failed, answer>>

\* Mutant: a failed first fetch is treated like a failed refresh.
InitFetchFailsOpen(p) ==
  /\ pc[p] \in {"initFetch", "initPublish"}
  /\ initMu' = NoOne
  /\ pc' = [pc EXCEPT ![p] = IF p = Main THEN "done" ELSE "read"]
  /\ body' = [body EXCEPT ![p] = {}]
  /\ UNCHANGED <<now, revokedAt, snapshot, refreshMu, idx, startedAt, fetchStart,
                 failed, answer>>

\* Any failure of a first fetch (transport, status, size, truncation, timeout)
\* is returned to the caller: IsRevoked fails closed, WarmUp logs.
InitFetchFails(p) ==
  /\ pc[p] \in {"initFetch", "initPublish"}
  /\ initMu' = NoOne
  /\ Return(p, "noSnapshot")
  /\ body' = [body EXCEPT ![p] = {}]
  /\ UNCHANGED <<now, revokedAt, snapshot, refreshMu, idx, startedAt, fetchStart,
                 failed>>

\* Mutant: a failed refresh restarts the TTL, so that others do not retry.
RefreshFailsBackOff(p) ==
  /\ pc[p] \in {"fetch", "publish"}
  /\ refreshMu' = NoOne
  /\ fetchedAt' = now
  /\ failed' = [failed EXCEPT ![p] = TRUE]
  /\ pc' = [pc EXCEPT ![p] = "read"]
  /\ body' = [body EXCEPT ![p] = {}]
  /\ UNCHANGED <<now, revokedAt, hasSnapshot, bitstring, initMu, idx, startedAt,
                 fetchStart, answer>>

\* Mutant: the error path does not unlock.
RefreshFailsLocked(p) ==
  /\ pc[p] \in {"fetch", "publish"}
  /\ failed' = [failed EXCEPT ![p] = TRUE]
  /\ pc' = [pc EXCEPT ![p] = "read"]
  /\ body' = [body EXCEPT ![p] = {}]
  /\ UNCHANGED <<now, revokedAt, snapshot, mutexes, idx, startedAt, fetchStart, answer>>

\* A failed TTL refresh is logged, and the stale snapshot is served.
RefreshFails(p) ==
  /\ pc[p] \in {"fetch", "publish"}
  /\ refreshMu' = NoOne
  /\ failed' = [failed EXCEPT ![p] = TRUE]
  /\ pc' = [pc EXCEPT ![p] = "read"]
  /\ body' = [body EXCEPT ![p] = {}]
  /\ UNCHANGED <<now, revokedAt, snapshot, initMu, idx, startedAt, fetchStart,
                 answer>>

---------------------------------------------------------------------------
TakesLock(p) == InitLock(p) \/ RefreshLock(p)

\* A step that nothing but the scheduler can delay.
Runs(p) ==
  \/ CheckSnapshot(p) \/ InitCheck(p) \/ CheckTTL(p) \/ RefreshCheck(p)
  \/ Read(p) \/ FetchServed(p) \/ Publish(p) \/ InitFetchFails(p)
  \/ RefreshFails(p)

Next ==
  \/ Tick
  \/ \E i \in Covered : IssuerRevokes(i)
  \/ \E p \in Callers, i \in Indices : Call(p, i)
  \/ \E p \in Procs : TakesLock(p) \/ Runs(p)

Spec == Init /\ [][Next]_vars

\* Go's scheduler runs every runnable goroutine, sync.Mutex hands the lock to
\* a waiter that has starved for 1ms, and the client timeout ends every fetch.
Fairness == \A p \in Procs : WF_vars(Runs(p)) /\ SF_vars(TakesLock(p))

FairSpec == Spec /\ Fairness

---------------------------------------------------------------------------
(* Properties *)

\* Although first fetches and TTL refreshes are serialised by two different
\* mutexes, never do two goroutines fetch or publish at the same time
\* (ensureInitialSnapshot against the TTL path of IsRevoked).
AtMostOneFetch ==
  \A p, q \in Procs : pc[p] \in Fetching /\ pc[q] \in Fetching => p = q

\* IsRevoked's fail-closed guarantee: a verdict is only ever given from a
\* published snapshot, whatever failed at boot and however calls interleave.
FailClosed ==
  (\E p \in Procs : answer[p] \in {"revoked", "notRevoked"}) => hasSnapshot

\* A revocation that the issuer published is reported by every call that starts
\* more than TTL plus one fetch later, unless a refresh failed in that very
\* call: a caller that only waited for another's refresh never answers from
\* data older than that.
RevocationPropagates ==
  \A p \in Callers :
    answer[p] = "notRevoked" /\ ~failed[p] =>
      revokedAt[idx[p]] >= startedAt[p] - TTL - FetchTimeout

\* A refresh never replaces a snapshot by an older list: once the cache has
\* reported an index revoked, no later snapshot forgets it.
NoRollback == [][bitstring \subseteq bitstring']_vars

\* Every call returns: neither the mutexes nor a hanging endpoint can park a
\* verification for ever.
CallsReturn == \A p \in Procs : pc[p] # "idle" ~> pc[p] \in {"idle", "done"}
---------------------------------------------------------------------------
(* The inductive invariant behind the safety properties *)

\* A goroutine is inside a critical section exactly when it holds the mutex.
LockDiscipline ==
  \A p \in Procs :
    /\ pc[p] \in InitSection <=> initMu = p
    /\ pc[p] \in RefreshSection <=> refreshMu = p

\* First fetches happen before there is a snapshot, everything else after:
\* this is what keeps the two critical sections apart.
SnapshotFirst ==
  \A p \in Procs :
    /\ pc[p] \in {"initFetch", "initPublish"} => ~hasSnapshot
    /\ pc[p] \in RefreshSection \cup {"checkTTL", "refreshLock", "read"} => hasSnapshot

\* A list in hand is never behind the published one.
ListsGrow ==
  /\ bitstring \subseteq Published
  /\ ~hasSnapshot => bitstring = {}
  /\ \A p \in Procs : body[p] \subseteq Published
  /\ \A p \in Procs : pc[p] = "publish" => bitstring \subseteq body[p]

\* How old a list in hand, the snapshot, and the snapshot about to be read are.
ListAges ==
  /\ fetchedAt <= now
  /\ \A i \in Covered : revokedAt[i] # Never => revokedAt[i] <= now
  /\ hasSnapshot =>
       \A i \in Covered \ bitstring : revokedAt[i] >= fetchedAt - FetchTimeout
  /\ \A p \in Procs :
       /\ startedAt[p] <= now
       /\ pc[p] \in Fetching => fetchStart[p] <= now /\ now <= fetchStart[p] + FetchTimeout
       /\ pc[p] \in {"initPublish", "publish"} =>
            \A i \in Covered \ body[p] : revokedAt[i] >= fetchStart[p]
       /\ pc[p] = "read" /\ ~failed[p] => fetchedAt >= startedAt[p] - TTL
       /\ answer[p] = "notRevoked" => idx[p] \in Covered

IndInv ==
  /\ TypeOK
  /\ LockDiscipline
  /\ SnapshotFirst
  /\ FailClosed
  /\ ListsGrow
  /\ ListAges
  /\ RevocationPropagates
============================================================================
