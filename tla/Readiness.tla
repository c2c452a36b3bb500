----------------------------- MODULE Readiness -----------------------------
(***************************************************************************)
(* The /readyz endpoint and an orchestrator that routes requests by it:    *)
(* StatusCache, with calls only while health.readiness answers 200.        *)
(***************************************************************************)
EXTENDS StatusCache

\* StatusCache.Ready, and health.readiness for a configured status list.
Ready == hasSnapshot

\* A request the orchestrator has routed here.
RoutedCall(p, i) == Ready /\ Call(p, i)

GatedNext ==
  \/ Tick
  \/ \E i \in Covered : IssuerRevokes(i)
  \/ \E p \in Callers, i \in Indices : RoutedCall(p, i)
  \/ \E p \in Procs : TakesLock(p) \/ Runs(p)

\* Requests keep coming wherever they are routed, and the endpoint does not fail
\* for ever: a fetch that is made again and again succeeds.
GatedSpec ==
  /\ Init /\ [][GatedNext]_vars
  /\ Fairness
  /\ \A p \in Callers : WF_vars(\E i \in Indices : RoutedCall(p, i))
  /\ \A p \in Procs : SF_vars(FetchServed(p)) /\ SF_vars(Publish(p))

---------------------------------------------------------------------------
\* "Call this during server initialization to prevent readiness deadlock in
\* orchestrators that gate traffic on /readyz" (WarmUp): a server whose status
\* list can be fetched becomes ready.
BecomesReady == <>Ready
============================================================================
