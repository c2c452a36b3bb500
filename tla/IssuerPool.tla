----------------------------- MODULE IssuerPool -----------------------------
(***************************************************************************)
(* resolveIssuersParallel (pkg/verify/chain.go): one goroutine per unique  *)
(* issuer, at most BlockCConcurrency of them resolving, one send each into *)
(* a buffered channel that is drained only after all of them are done.     *)
(* The pool of a call is its own; what Resolve does is module Resolver.    *)
(***************************************************************************)
EXTENDS Naturals, FiniteSets

CONSTANTS Calls,              \* calls of Chain
          DIDs,               \* issuers
          BlockCConcurrency

VARIABLE worker               \* worker[c][d]: the goroutine of issuer d

\* A goroutine waits for the semaphore, resolves, and is done once its result
\* is in the channel.
Stages == {"none", "queued", "resolving", "key", "error"}

NoWorkers == [c \in Calls |-> [d \in DIDs |-> "none"]]

PoolInit == worker = NoWorkers

In(c, stages) == {d \in DIDs : worker[c][d] \in stages}

\* The set of issuers is the deduplication: repeated issuers are one goroutine.
PoolStart(c, dids) ==
  worker' = [worker EXCEPT ![c] = [d \in DIDs |-> IF d \in dids THEN "queued" ELSE "none"]]

SlotFree(c) == Cardinality(In(c, {"resolving"})) < BlockCConcurrency

Acquire(c, d) ==
  /\ worker[c][d] = "queued"
  /\ SlotFree(c)
  /\ worker' = [worker EXCEPT ![c][d] = "resolving"]

\* Mutant: the channel holds as many results as there are semaphore slots.
Buffer_Slots(c) == BlockCConcurrency

\* The capacity of results is len(unique).
Buffer(c) == Cardinality(In(c, Stages \ {"none"}))

RoomForResult(c) == Cardinality(In(c, {"key", "error"})) < Buffer(c)

\* Resolve returns and the result is sent (the channel must have room), the
\* semaphore is released and wg.Done called.
Finish(c, d, outcome) ==
  /\ worker[c][d] = "resolving"
  /\ RoomForResult(c)
  /\ worker' = [worker EXCEPT ![c][d] = outcome]

\* wg.Wait has returned; the drain finds an error, or every key.
Joined(c) == In(c, {"queued", "resolving"}) = {}

\* Mutant: an error is noticed only when nothing resolved.
Drained_AnyKey(c, ok) ==
  /\ Joined(c)
  /\ ok = (In(c, {"key"}) # {})
  /\ worker' = [worker EXCEPT ![c] = [d \in DIDs |-> "none"]]

Drained(c, ok) ==
  /\ Joined(c)
  /\ ok = (In(c, {"error"}) = {})
  /\ worker' = [worker EXCEPT ![c] = [d \in DIDs |-> "none"]]

\* Some goroutine of the pool can go on, or wg.Wait returns.
CanMove(c) == \/ In(c, {"queued"}) # {} /\ SlotFree(c)
              \/ In(c, {"resolving"}) # {} /\ RoomForResult(c)
              \/ Joined(c)
=============================================================================
