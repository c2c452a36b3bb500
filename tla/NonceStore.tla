----------------------------- MODULE NonceStore -----------------------------
(***************************************************************************)
(* nonce.Store: the in-memory replay store.  Entries expire lazily: an     *)
(* expired entry stays in the map until its own jti is checked again or    *)
(* until a check finds the map full.  Check runs under one mutex and is    *)
(* one step.                                                               *)
(***************************************************************************)
EXTENDS Integers, FiniteSets

CONSTANTS Jtis,        \* invocation identifiers
          Absent,      \* a jti that is not in the map
          TTL,         \* NonceStoreTTLSecs; what Config.Load leaves unchecked
          MaxEntries,  \* NonceStoreMaxEntries
          MaxTime      \* bound on the clock

ASSUME NonceStoreConstants ==
  /\ IsFiniteSet(Jtis)
  /\ Absent \notin Int
  /\ TTL \in Nat \ {0}
  /\ MaxEntries \in Nat
  /\ MaxTime \in Nat

VARIABLES now,      \* the clock, in seconds
          seen,     \* the map: when each jti was inserted
          result    \* the latest Check and its outcome

nonceVars == <<now, seen, result>>

Time == 0 .. MaxTime

Entries(s)    == {j \in Jtis : s[j] # Absent}
Expired(s, j) == s[j] # Absent /\ now - s[j] >= TTL
Live(j)       == seen[j] # Absent /\ now - seen[j] < TTL

\* Mutant: off by one.
FullLate(s) == Cardinality(Entries(s)) > MaxEntries

Full(s) == Cardinality(Entries(s)) >= MaxEntries

Outcomes == {"ok", "replay", "error"}

NonceTypeOK ==
  /\ now \in Time
  /\ seen \in [Jtis -> Time \cup {Absent}]
  /\ result \in {<<>>} \cup (Jtis \X Outcomes)

NonceInit ==
  /\ now = 0
  /\ seen = [j \in Jtis |-> Absent]
  /\ result = <<>>

\* "Expired - remove and allow re-use."
Forget(j) == [seen EXCEPT ![j] = Absent]

\* Mutants: the whole map is dropped at capacity; nothing is.
EvictAll(s)  == IF Full(s) THEN [k \in Jtis |-> Absent] ELSE s
EvictNone(s) == s

\* "Evict expired entries if at capacity."
Evict(s) ==
  IF Full(s) THEN [k \in Jtis |-> IF Expired(s, k) THEN Absent ELSE s[k]] ELSE s

Check(j) ==
  /\ IF Live(j)
     THEN result' = <<j, "replay">> /\ UNCHANGED seen
     ELSE LET kept == Evict(Forget(j)) IN
          IF Full(kept)
          THEN result' = <<j, "error">> /\ seen' = kept
          ELSE result' = <<j, "ok">> /\ seen' = [kept EXCEPT ![j] = now]
  /\ UNCHANGED now

Tick ==
  /\ now < MaxTime
  /\ now' = now + 1
  /\ UNCHANGED <<seen, result>>

---------------------------------------------------------------------------
(* Properties *)

\* However long the traffic, Check never lets the map outgrow maxEntries.
CapacityBound == Cardinality(Entries(seen)) <= MaxEntries
============================================================================
