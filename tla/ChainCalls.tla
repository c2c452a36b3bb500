----------------------------- MODULE ChainCalls -----------------------------
(***************************************************************************)
(* The parts of verify.Chain that take time and touch shared state: the    *)
(* pool that resolves the issuers (IssuerPool), then the store and the     *)
(* timestamp report (ReceiptStore). The checks in between are one choice   *)
(* of verdict here; module ChainVerify has them.                           *)
(***************************************************************************)
EXTENDS ReceiptStore

CONSTANTS DIDs, BlockCConcurrency,
          Chains(_),      \* the chains a caller may present
          Issuers(_)      \* the issuers of a chain and of its invocation

VARIABLES worker,
          resolved        \* history: the issuers that resolved to a key in this call

P == INSTANCE IssuerPool WITH Calls <- Callers

ASSUME PoolAssumption == BlockCConcurrency \in Nat \ {0} /\ IsFiniteSet(DIDs)

\* Every receipt names the hash of the one before it: none is in a chain twice.
ASSUME ChainsAssumption ==
  \A c \in Callers : \A chain \in Chains(c) :
    /\ chain \in Seq(Receipts) /\ chain # << >>
    /\ \A i, j \in DOMAIN chain : chain[i] = chain[j] => i = j
    /\ Issuers(chain) \subseteq DIDs

vars == <<storeVars, worker, resolved>>

Init == StoreInit /\ P!PoolInit /\ resolved = [c \in Callers |-> {}]

\* A bundle passes blocks A and B; block C starts with its issuers.
Arrive(c, chain, timestamps) ==
  /\ Begin(c, chain, timestamps, "resolve")
  /\ P!PoolStart(c, Issuers(chain))
  /\ resolved' = [resolved EXCEPT ![c] = {}]

AcquireSlot(c, d) == pc[c] = "resolve" /\ P!Acquire(c, d) /\ UNCHANGED <<storeVars, resolved>>

Resolves(c, d) ==
  /\ pc[c] = "resolve"
  /\ P!Finish(c, d, "key")
  /\ resolved' = [resolved EXCEPT ![c] = @ \cup {d}]
  /\ UNCHANGED storeVars

ResolveFails(c, d) ==
  /\ pc[c] = "resolve"
  /\ P!Finish(c, d, "error")
  /\ UNCHANGED <<storeVars, resolved>>

\* The call returns an error code before anything is stored: an issuer did not
\* resolve, or one of the checks of blocks C to F fails.
Refuse(c) ==
  /\ pc[c] = "resolve"
  /\ \E ok \in BOOLEAN : P!Drained(c, ok)
  /\ Return(c)
  /\ UNCHANGED resolved

\* Every issuer has resolved and blocks C to F pass.
Verified(c) ==
  /\ pc[c] = "resolve"
  /\ P!Drained(c, TRUE)
  /\ pc' = [pc EXCEPT ![c] = "put"]
  /\ UNCHANGED <<fileVars, job, report, kept, damaged, anchored, solo, resolved>>

Store(c) == StoreStep(c) /\ UNCHANGED <<worker, resolved>>

Restart == StoreRestart /\ worker' = P!NoWorkers /\ resolved' = [c \in Callers |-> {}]

Step(c) == \/ \E d \in DIDs : AcquireSlot(c, d) \/ Resolves(c, d) \/ ResolveFails(c, d)
           \/ Refuse(c) \/ Verified(c)
           \/ Store(c)

Next == \/ \E c \in Callers, ts \in BOOLEAN : \E ch \in Chains(c) : Arrive(c, ch, ts)
        \/ \E c \in Callers : Step(c)
        \/ StoreTick /\ UNCHANGED <<worker, resolved>>
        \/ Restart

Spec == Init /\ [][Next]_vars

-----------------------------------------------------------------------------
\* A call reaches the store only with a key for every issuer, from this very
\* call: the drain after wg.Wait lets no failed resolution through.
StoredIsResolved ==
  \A c \in Callers : pc[c] \notin {"idle", "resolve"} => Issuers(job[c].chain) \subseteq resolved[c]

\* wg.Wait runs before the results are drained, and the workers share a
\* semaphore (chain.go, the INVARIANT comment): a call that resolves its issuers
\* is never stuck, whatever the number of issuers and of slots.
PoolNeverStuck == \A c \in Callers : pc[c] = "resolve" => P!CanMove(c)
=============================================================================
