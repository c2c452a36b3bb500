-------------------------- MODULE ResolverProofs --------------------------
(***************************************************************************)
(* The safety properties of Resolver, for any number of callers, any DNS   *)
(* answers and documents, any threshold, cooldown, TTL and timeout.        *)
(* IndInv is inductive; each of its parts is a lemma.                      *)
(***************************************************************************)
EXTENDS Resolver, TLAPS

\* safeDialContext has a first address to connect to.
LEMMA FirstAddress ==
  ASSUME NEW a \in Answers
  PROVE  a[1] \in Addresses
BY ResolverInputs DEF Addresses

\* The key that a document of the endpoint's yields.
LEMMA DocumentKeys ==
  ASSUME NEW k \in 1 .. MaxKey, NEW d \in Documents(k)
  PROVE  extractEd25519FromDIDDocument(d) = k
BY ResolverInputs

\* NoKey and every version are values of a key.
LEMMA Keys == NoKey \in NoKey .. MaxKey /\ \A k \in 1 .. MaxKey : k \in NoKey .. MaxKey
BY ResolverConstants DEF NoKey

\* A failure of the endpoint is recorded in its circuit state.
LEMMA FailsTyped ==
  ASSUME IndInv, NEW p \in Callers, Fails(p)
  PROVE  TypeOK'
<1>0. /\ now \in 0 .. MaxTime /\ openUntil \in {Closed} \cup 0 .. MaxTime + Cooldown
      /\ MaxTime \in Nat /\ Cooldown \in Nat
  BY ResolverConstants DEF IndInv, TypeOK, Time
<1>2. openUntil' \in {Closed} \cup 0 .. MaxTime + Cooldown
  <2>1. openUntil' = openUntil \/ openUntil' = now + Cooldown
    BY DEF Fails, RecordFailure
  <2> QED
    BY <1>0, <2>1
<1> USE ResolverConstants DEF IndInv, TypeOK, Time, Closed, endpoint, cache
<1>1. failures' \in 0 .. Threshold /\ lastFailure' \in Time
  BY DEF Fails, RecordFailure
<1>3. pc' \in [Callers -> Stages]
  BY DEF Fails, GoTo, Stages, Leading
<1> QED
  BY <1>1, <1>2, <1>3 DEF Fails

\* Every step keeps the types.
LEMMA TypeStep ==
  ASSUME IndInv, [Next]_vars
  PROVE  TypeOK'
<1> USE ResolverConstants, Keys DEF IndInv, TypeOK, Leading, Contacting, Time, Never,
     endpoint, cache, flight, circuit, calls
<1>1. CASE Tick
  BY <1>1 DEF Tick, Stages
<1>2. CASE Rotate
  BY <1>2 DEF Rotate, Stages
<1>3. CASE CacheEvicts
  BY <1>3 DEF CacheEvicts, Stages
<1>4. CASE CircuitEvicts
  BY <1>4 DEF CircuitEvicts, Stages
<1>5. ASSUME NEW p \in Callers, Call(p) PROVE TypeOK'
  BY <1>5 DEF Call, GoTo, Stages
<1>6. ASSUME NEW p \in Callers, Lookup(p) PROVE TypeOK'
  <2>1. CASE cachedKey # NoKey /\ now < expiry
    BY <1>6, <2>1 DEF Lookup, GoTo, Return, Stages
  <2>2. CASE ~ (cachedKey # NoKey /\ now < expiry)
    <3>1. pc' \in [Callers -> Stages] /\ cachedKey' = NoKey /\ expiry' = 0 /\ key' = key
      BY <1>6, <2>2 DEF Lookup, GoTo, Stages
    <3> QED
      BY <1>6, <3>1 DEF Lookup
  <2> QED
    BY <2>1, <2>2
<1>7. ASSUME NEW p \in Callers, Join(p) PROVE TypeOK'
  <2>1. CASE leader # NoOne
    <3>1. pc' \in [Callers -> Stages]
      BY <1>7, <2>1 DEF Join, GoTo, Stages
    <3>2. key' \in [Callers -> NoKey .. MaxKey]
      BY <1>7, <2>1 DEF Join
    <3> QED
      BY <1>7, <2>1, <3>1, <3>2 DEF Join
  <2>2. CASE leader = NoOne
    BY <1>7, <2>2 DEF Join, GoTo, Stages
  <2> QED
    BY <2>1, <2>2
<1>8. ASSUME NEW p \in Callers, FollowerReturns(p) PROVE TypeOK'
  BY <1>8 DEF FollowerReturns, GoTo, Stages
<1>9. ASSUME NEW p \in Callers, FollowerCancelled(p) PROVE TypeOK'
  BY <1>9 DEF FollowerCancelled, GoTo, Return, Stages
<1>10. ASSUME NEW p \in Callers, ResolveOffline(p) PROVE TypeOK'
  <2>1. resolveOffline(did) \in {NoKey, FirstKey}
    BY <1>10 DEF ResolveOffline, resolveOffline, resolveDidKey
  <2>2. resolveOffline(did) \in NoKey .. MaxKey
    BY <2>1 DEF NoKey, FirstKey
  <2>3. pc' \in [Callers -> Stages]
    BY <1>10 DEF ResolveOffline, GoTo, Stages
  <2> QED
    BY <1>10, <2>2, <2>3 DEF ResolveOffline
<1>11. ASSUME NEW p \in Callers, CheckCircuit(p) PROVE TypeOK'
  BY <1>11 DEF CheckCircuit, GoTo, Stages
<1>12. ASSUME NEW p \in Callers, CheckHost(p) PROVE TypeOK'
  BY <1>12 DEF CheckHost, GoTo, Stages
<1>13. ASSUME NEW p \in Callers, SafeDial(p) PROVE TypeOK'
  <2>1. CASE Fails(p)
    BY <2>1, FailsTyped
  <2>2. CASE ~ Fails(p)
    BY <1>13, <2>2, FirstAddress DEF SafeDial, GoTo, Stages
  <2> QED
    BY <2>1, <2>2
<1>14. ASSUME NEW p \in Callers, Connect(p) PROVE TypeOK'
  BY <1>14 DEF Connect, GoTo, Stages
<1>15. ASSUME NEW p \in Callers, FetchServed(p) PROVE TypeOK'
  <2>1. failures' \in 0 .. Threshold /\ openUntil' \in {Closed} \cup 0 .. MaxTime + Cooldown
    BY <1>15 DEF FetchServed, RecordSuccess
  <2>2. key' \in [Callers -> NoKey .. MaxKey]
    BY <1>15, DocumentKeys DEF FetchServed
  <2>3. pc' \in [Callers -> Stages]
    BY <1>15 DEF FetchServed, GoTo, Stages
  <2>4. lastFailure' \in Time /\ orphaned' = orphaned /\ peer' = NoAddress /\ sharedKey' = sharedKey
    BY <1>15 DEF FetchServed
  <2> QED
    BY <1>15, <2>1, <2>2, <2>3, <2>4 DEF FetchServed
<1>16. ASSUME NEW p \in Callers, FetchUseless(p) PROVE TypeOK'
  BY <1>16, FailsTyped DEF FetchUseless
<1>17. ASSUME NEW p \in Callers, ContactFails(p) PROVE TypeOK'
  BY <1>17, FailsTyped DEF ContactFails
<1>18. ASSUME NEW p \in Callers, Close(p) PROVE TypeOK'
  BY <1>18 DEF Close, Stages
<1>19. ASSUME NEW p \in Callers, Delete(p) PROVE TypeOK'
  <2>1. pc' \in [Callers -> Stages]
    BY <1>19 DEF Delete, GoTo, Stages
  <2> QED
    BY <1>19, <2>1 DEF Delete
<1>20. ASSUME NEW p \in Callers, Add(p) PROVE TypeOK'
  BY <1>20 DEF Add, GoTo, Stages
<1>21. CASE UNCHANGED vars
  BY <1>21 DEF vars, Stages
<1>22. ASSUME NEW stage \in {"idle", "dead"}, Forget(stage) PROVE TypeOK'
  <2>1. pc' \in [Callers -> Stages] /\ key' \in [Callers -> NoKey .. MaxKey]
    BY <1>22 DEF Forget, Stages
  <2>2. startedAt' \in [Callers -> Time] /\ fetchStart' \in [Callers -> Time]
    BY <1>22 DEF Forget
  <2>3. openUntil' = Closed /\ failures' = 0 /\ expiry' = 0 /\ lastFailure' = 0
    BY <1>22 DEF Forget
  <2>4. /\ failures' \in 0 .. Threshold /\ expiry' \in 0 .. MaxTime + TTL
        /\ lastFailure' \in Time
    BY <2>3
  <2>5. did' = did /\ now' = now /\ current' = current /\ retiredAt' = retiredAt
    BY <1>22 DEF Forget
  <2>6. cachedKey' = NoKey /\ sharedKey' = NoKey /\ leader' = NoOne /\ peer' = NoAddress
    BY <1>22 DEF Forget
  <2>7. done' = FALSE /\ orphaned' = FALSE
    BY <1>22 DEF Forget
  <2> QED
    BY <2>1, <2>2, <2>3, <2>4, <2>5, <2>6, <2>7
<1> QED
  BY <1>1, <1>2, <1>3, <1>4, <1>5, <1>6, <1>7, <1>8, <1>9, <1>10, <1>11, <1>12,
     <1>13, <1>14, <1>15, <1>16, <1>17, <1>18, <1>19, <1>20, <1>21,
     <1>22 DEF Next, Runs, Restart, Panic

\* One leader at a time.
LEMMA FlightStep ==
  ASSUME IndInv, [Next]_vars
  PROVE  Flight'
<1> USE ResolverConstants DEF IndInv, TypeOK, Leading, Contacting, Time, Never, NoKey,
     Closed, endpoint, cache, flight, circuit, calls
<1>1. CASE Tick
  BY <1>1 DEF Tick, Flight
<1>2. CASE Rotate
  BY <1>2 DEF Rotate, Flight
<1>3. CASE CacheEvicts
  BY <1>3 DEF CacheEvicts, Flight
<1>4. CASE CircuitEvicts
  BY <1>4 DEF CircuitEvicts, Flight
<1>5. ASSUME NEW p \in Callers, Call(p) PROVE Flight'
  BY <1>5 DEF Call, GoTo, Flight
<1>6. ASSUME NEW p \in Callers, Lookup(p) PROVE Flight'
  BY <1>6 DEF Lookup, GoTo, Return, Flight
<1>7. ASSUME NEW p \in Callers, Join(p) PROVE Flight'
  BY <1>7 DEF Join, GoTo, Flight
<1>8. ASSUME NEW p \in Callers, FollowerReturns(p) PROVE Flight'
  BY <1>8 DEF FollowerReturns, GoTo, Flight
<1>9. ASSUME NEW p \in Callers, FollowerCancelled(p) PROVE Flight'
  BY <1>9 DEF FollowerCancelled, GoTo, Return, Flight
<1>10. ASSUME NEW p \in Callers, ResolveOffline(p) PROVE Flight'
  BY <1>10 DEF ResolveOffline, GoTo, resolveOffline, resolveDidKey, Panics, FirstKey, Flight
<1>11. ASSUME NEW p \in Callers, CheckCircuit(p) PROVE Flight'
  BY <1>11 DEF CheckCircuit, GoTo, Flight
<1>12. ASSUME NEW p \in Callers, CheckHost(p) PROVE Flight'
  BY <1>12 DEF CheckHost, GoTo, Flight
<1>13. ASSUME NEW p \in Callers, SafeDial(p) PROVE Flight'
  BY <1>13 DEF SafeDial, GoTo, Fails, RecordFailure, isPrivate, Flight
<1>14. ASSUME NEW p \in Callers, Connect(p) PROVE Flight'
  BY <1>14 DEF Connect, GoTo, Flight
<1>15. ASSUME NEW p \in Callers, FetchServed(p) PROVE Flight'
  BY <1>15 DEF FetchServed, GoTo, RecordSuccess, Flight
<1>16. ASSUME NEW p \in Callers, FetchUseless(p) PROVE Flight'
  BY <1>16 DEF FetchUseless, GoTo, Fails, RecordFailure, Flight
<1>17. ASSUME NEW p \in Callers, ContactFails(p) PROVE Flight'
  BY <1>17 DEF ContactFails, GoTo, Fails, RecordFailure, Flight
<1>18. ASSUME NEW p \in Callers, Close(p) PROVE Flight'
  BY <1>18 DEF Close, Flight
<1>19. ASSUME NEW p \in Callers, Delete(p) PROVE Flight'
  BY <1>19 DEF Delete, GoTo, Flight
<1>20. ASSUME NEW p \in Callers, Add(p) PROVE Flight'
  BY <1>20 DEF Add, GoTo, Flight
<1>21. CASE UNCHANGED vars
  BY <1>21 DEF vars, Flight
<1>22. ASSUME NEW stage \in {"idle", "dead"}, Forget(stage) PROVE Flight'
  BY <1>22 DEF Forget, Flight
<1> QED
  BY <1>1, <1>2, <1>3, <1>4, <1>5, <1>6, <1>7, <1>8, <1>9, <1>10, <1>11, <1>12,
     <1>13, <1>14, <1>15, <1>16, <1>17, <1>18, <1>19, <1>20, <1>21,
     <1>22 DEF Next, Runs, Restart, Panic

\* No lookup of another kind comes between the check of an address and its use.
LEMMA VettedStep ==
  ASSUME IndInv, [Next]_vars
  PROVE  Vetted'
<1> USE ResolverConstants DEF IndInv, TypeOK, Leading, Contacting, Time, Never, NoKey,
     Closed, endpoint, cache, flight, circuit, calls
<1>1. CASE Tick
  BY <1>1 DEF Tick, Vetted, Flight
<1>2. CASE Rotate
  BY <1>2 DEF Rotate, Vetted, Flight
<1>3. CASE CacheEvicts
  BY <1>3 DEF CacheEvicts, Vetted, Flight
<1>4. CASE CircuitEvicts
  BY <1>4 DEF CircuitEvicts, Vetted, Flight
<1>5. ASSUME NEW p \in Callers, Call(p) PROVE Vetted'
  BY <1>5 DEF Call, GoTo, Vetted, Flight
<1>6. ASSUME NEW p \in Callers, Lookup(p) PROVE Vetted'
  BY <1>6 DEF Lookup, GoTo, Return, Vetted, Flight
<1>7. ASSUME NEW p \in Callers, Join(p) PROVE Vetted'
  BY <1>7 DEF Join, GoTo, Vetted, Flight
<1>8. ASSUME NEW p \in Callers, FollowerReturns(p) PROVE Vetted'
  BY <1>8 DEF FollowerReturns, GoTo, Vetted, Flight
<1>9. ASSUME NEW p \in Callers, FollowerCancelled(p) PROVE Vetted'
  BY <1>9 DEF FollowerCancelled, GoTo, Return, Vetted, Flight
<1>10. ASSUME NEW p \in Callers, ResolveOffline(p) PROVE Vetted'
  BY <1>10 DEF ResolveOffline, GoTo, resolveOffline, resolveDidKey, Panics, FirstKey,
     Vetted, Flight
<1>11. ASSUME NEW p \in Callers, CheckCircuit(p) PROVE Vetted'
  BY <1>11 DEF CheckCircuit, GoTo, Vetted, Flight
<1>12. ASSUME NEW p \in Callers, CheckHost(p) PROVE Vetted'
  BY <1>12 DEF CheckHost, GoTo, Vetted, Flight
<1>13. ASSUME NEW p \in Callers, SafeDial(p) PROVE Vetted'
  BY <1>13, ResolverInputs DEF SafeDial, GoTo, Fails, RecordFailure, isPrivate,
     Vetted, Flight
<1>14. ASSUME NEW p \in Callers, Connect(p) PROVE Vetted'
  BY <1>14 DEF Connect, GoTo, Vetted, Flight
<1>15. ASSUME NEW p \in Callers, FetchServed(p) PROVE Vetted'
  BY <1>15, ResolverInputs DEF FetchServed, GoTo, RecordSuccess, Vetted, Flight
<1>16. ASSUME NEW p \in Callers, FetchUseless(p) PROVE Vetted'
  BY <1>16, ResolverInputs DEF FetchUseless, GoTo, Fails, RecordFailure, Vetted,
     Flight
<1>17. ASSUME NEW p \in Callers, ContactFails(p) PROVE Vetted'
  BY <1>17, ResolverInputs DEF ContactFails, GoTo, Fails, RecordFailure, Vetted,
     Flight
<1>18. ASSUME NEW p \in Callers, Close(p) PROVE Vetted'
  BY <1>18 DEF Close, Vetted, Flight
<1>19. ASSUME NEW p \in Callers, Delete(p) PROVE Vetted'
  BY <1>19 DEF Delete, GoTo, Vetted, Flight
<1>20. ASSUME NEW p \in Callers, Add(p) PROVE Vetted'
  BY <1>20 DEF Add, GoTo, Vetted, Flight
<1>21. CASE UNCHANGED vars
  BY <1>21 DEF vars, Vetted, Flight
<1>22. ASSUME NEW stage \in {"idle", "dead"}, Forget(stage) PROVE Vetted'
  BY <1>22, ResolverInputs DEF Forget, Vetted
<1> QED
  BY <1>1, <1>2, <1>3, <1>4, <1>5, <1>6, <1>7, <1>8, <1>9, <1>10, <1>11, <1>12,
     <1>13, <1>14, <1>15, <1>16, <1>17, <1>18, <1>19, <1>20, <1>21,
     <1>22 DEF Next, Runs, Restart, Panic

\* Keys appear at the end of a resolution only.
LEMMA KeyInHandStep ==
  ASSUME IndInv, [Next]_vars
  PROVE  KeyInHand'
<1> USE ResolverConstants DEF IndInv, TypeOK, Leading, Contacting, Time, Never, NoKey,
     Closed, endpoint, cache, flight, circuit, calls
<1>1. CASE Tick
  BY <1>1 DEF Tick, KeyInHand, Flight
<1>2. CASE Rotate
  BY <1>2 DEF Rotate, KeyInHand, Flight
<1>3. CASE CacheEvicts
  BY <1>3 DEF CacheEvicts, KeyInHand, Flight
<1>4. CASE CircuitEvicts
  BY <1>4 DEF CircuitEvicts, KeyInHand, Flight
<1>5. ASSUME NEW p \in Callers, Call(p) PROVE KeyInHand'
  BY <1>5 DEF Call, GoTo, KeyInHand, Flight
<1>6. ASSUME NEW p \in Callers, Lookup(p) PROVE KeyInHand'
  BY <1>6 DEF Lookup, GoTo, Return, KeyInHand, Flight
<1>7. ASSUME NEW p \in Callers, Join(p) PROVE KeyInHand'
  BY <1>7 DEF Join, GoTo, KeyInHand, Flight
<1>8. ASSUME NEW p \in Callers, FollowerReturns(p) PROVE KeyInHand'
  BY <1>8 DEF FollowerReturns, GoTo, KeyInHand, Flight
<1>9. ASSUME NEW p \in Callers, FollowerCancelled(p) PROVE KeyInHand'
  BY <1>9 DEF FollowerCancelled, GoTo, Return, KeyInHand, Flight
<1>10. ASSUME NEW p \in Callers, ResolveOffline(p) PROVE KeyInHand'
  BY <1>10 DEF ResolveOffline, GoTo, resolveOffline, resolveDidKey, Panics, FirstKey,
     KeyInHand, Flight
<1>11. ASSUME NEW p \in Callers, CheckCircuit(p) PROVE KeyInHand'
  BY <1>11 DEF CheckCircuit, GoTo, KeyInHand, Flight
<1>12. ASSUME NEW p \in Callers, CheckHost(p) PROVE KeyInHand'
  BY <1>12 DEF CheckHost, GoTo, KeyInHand, Flight
<1>13. ASSUME NEW p \in Callers, SafeDial(p) PROVE KeyInHand'
  BY <1>13 DEF SafeDial, GoTo, Fails, RecordFailure, isPrivate, KeyInHand, Flight
<1>14. ASSUME NEW p \in Callers, Connect(p) PROVE KeyInHand'
  BY <1>14 DEF Connect, GoTo, KeyInHand, Flight
<1>15. ASSUME NEW p \in Callers, FetchServed(p) PROVE KeyInHand'
  BY <1>15, DocumentKeys DEF FetchServed, GoTo, RecordSuccess, KeyInHand, Flight
<1>16. ASSUME NEW p \in Callers, FetchUseless(p) PROVE KeyInHand'
  BY <1>16 DEF FetchUseless, GoTo, Fails, RecordFailure, KeyInHand, Flight
<1>17. ASSUME NEW p \in Callers, ContactFails(p) PROVE KeyInHand'
  BY <1>17 DEF ContactFails, GoTo, Fails, RecordFailure, KeyInHand, Flight
<1>18. ASSUME NEW p \in Callers, Close(p) PROVE KeyInHand'
  BY <1>18 DEF Close, KeyInHand, Flight
<1>19. ASSUME NEW p \in Callers, Delete(p) PROVE KeyInHand'
  BY <1>19 DEF Delete, GoTo, KeyInHand, Flight
<1>20. ASSUME NEW p \in Callers, Add(p) PROVE KeyInHand'
  BY <1>20 DEF Add, GoTo, KeyInHand, Flight
<1>21. CASE UNCHANGED vars
  BY <1>21 DEF vars, KeyInHand, Flight
<1>22. ASSUME NEW stage \in {"idle", "dead"}, Forget(stage) PROVE KeyInHand'
  BY <1>22 DEF Forget, KeyInHand
<1> QED
  BY <1>1, <1>2, <1>3, <1>4, <1>5, <1>6, <1>7, <1>8, <1>9, <1>10, <1>11, <1>12,
     <1>13, <1>14, <1>15, <1>16, <1>17, <1>18, <1>19, <1>20, <1>21,
     <1>22 DEF Next, Runs, Restart, Panic

\* Time does not pass a resolution that is due.
LEMMA ClocksStep ==
  ASSUME IndInv, [Next]_vars
  PROVE  Clocks'
<1> USE ResolverConstants DEF IndInv, TypeOK, Leading, Contacting, Time, Never, NoKey,
     Closed, endpoint, cache, flight, circuit, calls, FirstKey
<1>1. CASE Tick
  BY <1>1 DEF Tick, Clocks
<1>2. CASE Rotate
  BY <1>2 DEF Rotate, Clocks
<1>3. CASE CacheEvicts
  BY <1>3 DEF CacheEvicts, Clocks
<1>4. CASE CircuitEvicts
  BY <1>4 DEF CircuitEvicts, Clocks
<1>5. ASSUME NEW p \in Callers, Call(p) PROVE Clocks'
  BY <1>5 DEF Call, GoTo, Clocks
<1>6. ASSUME NEW p \in Callers, Lookup(p) PROVE Clocks'
  BY <1>6 DEF Lookup, GoTo, Return, Clocks
<1>7. ASSUME NEW p \in Callers, Join(p) PROVE Clocks'
  BY <1>7 DEF Join, GoTo, Clocks
<1>8. ASSUME NEW p \in Callers, FollowerReturns(p) PROVE Clocks'
  BY <1>8 DEF FollowerReturns, GoTo, Clocks
<1>9. ASSUME NEW p \in Callers, FollowerCancelled(p) PROVE Clocks'
  BY <1>9 DEF FollowerCancelled, GoTo, Return, Clocks
<1>10. ASSUME NEW p \in Callers, ResolveOffline(p) PROVE Clocks'
  BY <1>10 DEF ResolveOffline, GoTo, resolveOffline, resolveDidKey, Panics, FirstKey, Clocks
<1>11. ASSUME NEW p \in Callers, CheckCircuit(p) PROVE Clocks'
  BY <1>11 DEF CheckCircuit, GoTo, Clocks
<1>12. ASSUME NEW p \in Callers, CheckHost(p) PROVE Clocks'
  BY <1>12 DEF CheckHost, GoTo, Clocks
<1>13. ASSUME NEW p \in Callers, SafeDial(p) PROVE Clocks'
  BY <1>13 DEF SafeDial, GoTo, Fails, RecordFailure, isPrivate, Clocks
<1>14. ASSUME NEW p \in Callers, Connect(p) PROVE Clocks'
  BY <1>14 DEF Connect, GoTo, Clocks
<1>15. ASSUME NEW p \in Callers, FetchServed(p) PROVE Clocks'
  BY <1>15 DEF FetchServed, GoTo, RecordSuccess, Clocks
<1>16. ASSUME NEW p \in Callers, FetchUseless(p) PROVE Clocks'
  BY <1>16 DEF FetchUseless, GoTo, Fails, RecordFailure, Clocks
<1>17. ASSUME NEW p \in Callers, ContactFails(p) PROVE Clocks'
  BY <1>17 DEF ContactFails, GoTo, Fails, RecordFailure, Clocks
<1>18. ASSUME NEW p \in Callers, Close(p) PROVE Clocks'
  BY <1>18 DEF Close, Clocks
<1>19. ASSUME NEW p \in Callers, Delete(p) PROVE Clocks'
  BY <1>19 DEF Delete, GoTo, Clocks
<1>20. ASSUME NEW p \in Callers, Add(p) PROVE Clocks'
  BY <1>20 DEF Add, GoTo, Clocks
<1>21. CASE UNCHANGED vars
  BY <1>21 DEF vars, Clocks
<1>22. ASSUME NEW stage \in {"idle", "dead"}, Forget(stage) PROVE Clocks'
  BY <1>22 DEF Forget, Clocks
<1> QED
  BY <1>1, <1>2, <1>3, <1>4, <1>5, <1>6, <1>7, <1>8, <1>9, <1>10, <1>11, <1>12,
     <1>13, <1>14, <1>15, <1>16, <1>17, <1>18, <1>19, <1>20, <1>21,
     <1>22 DEF Next, Runs, Restart, Panic

\* Keys stay as young as the cache and the timeout allow.
LEMMA KeyAgesStep ==
  ASSUME IndInv, [Next]_vars
  PROVE  KeyAges'
<1> USE ResolverConstants DEF IndInv, TypeOK, Leading, Contacting, Time, Never, NoKey,
     Closed, endpoint, cache, flight, circuit, calls, FirstKey
<1>1. CASE Tick
  BY <1>1 DEF Tick, KeyAges, KeyInHand, Clocks, Flight
<1>2. CASE Rotate
  BY <1>2 DEF Rotate, KeyAges, KeyInHand, Clocks, Flight
<1>3. CASE CacheEvicts
  BY <1>3 DEF CacheEvicts, KeyAges, KeyInHand, Clocks, Flight
<1>4. CASE CircuitEvicts
  BY <1>4 DEF CircuitEvicts, KeyAges, KeyInHand, Clocks, Flight
<1>5. ASSUME NEW p \in Callers, Call(p) PROVE KeyAges'
  BY <1>5 DEF Call, GoTo, KeyAges, KeyInHand, Clocks, Flight
<1>6. ASSUME NEW p \in Callers, Lookup(p) PROVE KeyAges'
  <2>1. CASE cachedKey # NoKey /\ now < expiry
    <3>1. retiredAt[cachedKey] >= startedAt[p] - TTL - FetchTimeout
      BY <2>1 DEF KeyAges, Clocks
    <3>2. key' = [key EXCEPT ![p] = cachedKey] /\ pc' = [pc EXCEPT ![p] = "idle"]
      BY <1>6, <2>1 DEF Lookup, GoTo, Return
    <3> QED
      BY <1>6, <2>1, <3>1, <3>2 DEF Lookup, KeyAges
  <2>2. CASE ~ (cachedKey # NoKey /\ now < expiry)
    BY <1>6, <2>2 DEF Lookup, GoTo, KeyAges
  <2> QED
    BY <2>1, <2>2
<1>7. ASSUME NEW p \in Callers, Join(p) PROVE KeyAges'
  <2>1. CASE leader # NoOne /\ done
    <3>1. sharedKey # NoKey => retiredAt[sharedKey] >= startedAt[p] - TTL - FetchTimeout
      BY <2>1 DEF KeyAges, KeyInHand, Clocks
    <3> QED
      BY <1>7, <2>1, <3>1 DEF Join, GoTo, KeyAges
  <2>2. CASE leader # NoOne /\ ~ done
    BY <1>7, <2>2 DEF Join, GoTo, KeyAges
  <2>3. CASE leader = NoOne
    BY <1>7, <2>3 DEF Join, GoTo, KeyAges, KeyInHand
  <2> QED
    BY <2>1, <2>2, <2>3
<1>8. ASSUME NEW p \in Callers, FollowerReturns(p) PROVE KeyAges'
  BY <1>8 DEF FollowerReturns, GoTo, KeyAges, KeyInHand, Clocks, Flight
<1>9. ASSUME NEW p \in Callers, FollowerCancelled(p) PROVE KeyAges'
  BY <1>9 DEF FollowerCancelled, GoTo, Return, KeyAges, KeyInHand, Clocks, Flight
<1>10. ASSUME NEW p \in Callers, ResolveOffline(p) PROVE KeyAges'
  <2>1. resolveOffline(did) # NoKey => did.method = "key" /\ resolveOffline(did) = FirstKey
    BY <1>10 DEF ResolveOffline, resolveOffline, resolveDidKey
  <2>2. resolveOffline(did) # NoKey => retiredAt[resolveOffline(did)] = Never
    BY <2>1 DEF Clocks
  <2> QED
    BY <1>10, <2>2 DEF ResolveOffline, GoTo, KeyAges, Clocks
<1>11. ASSUME NEW p \in Callers, CheckCircuit(p) PROVE KeyAges'
  BY <1>11 DEF CheckCircuit, GoTo, KeyAges, KeyInHand, Clocks, Flight
<1>12. ASSUME NEW p \in Callers, CheckHost(p) PROVE KeyAges'
  BY <1>12 DEF CheckHost, GoTo, KeyAges, KeyInHand, Clocks, Flight
<1>13. ASSUME NEW p \in Callers, SafeDial(p) PROVE KeyAges'
  BY <1>13 DEF SafeDial, GoTo, Fails, RecordFailure, isPrivate, KeyAges, KeyInHand,
     Clocks, Flight
<1>14. ASSUME NEW p \in Callers, Connect(p) PROVE KeyAges'
  BY <1>14 DEF Connect, GoTo, KeyAges, KeyInHand, Clocks, Flight
<1>15. ASSUME NEW p \in Callers, FetchServed(p) PROVE KeyAges'
  BY <1>15, DocumentKeys DEF FetchServed, GoTo, RecordSuccess, KeyAges, KeyInHand,
     Clocks, Flight
<1>16. ASSUME NEW p \in Callers, FetchUseless(p) PROVE KeyAges'
  BY <1>16 DEF FetchUseless, GoTo, Fails, RecordFailure, KeyAges, KeyInHand, Clocks,
     Flight
<1>17. ASSUME NEW p \in Callers, ContactFails(p) PROVE KeyAges'
  BY <1>17 DEF ContactFails, GoTo, Fails, RecordFailure, KeyAges, KeyInHand, Clocks,
     Flight
<1>18. ASSUME NEW p \in Callers, Close(p) PROVE KeyAges'
  BY <1>18 DEF Close, KeyAges, KeyInHand, Clocks, Flight
<1>19. ASSUME NEW p \in Callers, Delete(p) PROVE KeyAges'
  BY <1>19 DEF Delete, GoTo, KeyAges, KeyInHand, Clocks, Flight
<1>20. ASSUME NEW p \in Callers, Add(p) PROVE KeyAges'
  BY <1>20 DEF Add, GoTo, KeyAges, KeyInHand, Clocks, Flight
<1>21. CASE UNCHANGED vars
  BY <1>21 DEF vars, KeyAges, KeyInHand, Clocks, Flight
<1>22. ASSUME NEW stage \in {"idle", "dead"}, Forget(stage) PROVE KeyAges'
  BY <1>22 DEF Forget, KeyAges
<1> QED
  BY <1>1, <1>2, <1>3, <1>4, <1>5, <1>6, <1>7, <1>8, <1>9, <1>10, <1>11, <1>12,
     <1>13, <1>14, <1>15, <1>16, <1>17, <1>18, <1>19, <1>20, <1>21,
     <1>22 DEF Next, Runs, Restart, Panic

\* The circuit opens again after every failed probe.
LEMMA BackingStep ==
  ASSUME IndInv, [Next]_vars
  PROVE  Backing'
<1> USE ResolverConstants DEF IndInv, TypeOK, Leading, Contacting, Time, Never, NoKey,
     Closed, endpoint, cache, flight, circuit, calls
<1>1. CASE Tick
  BY <1>1 DEF Tick, Backing
<1>2. CASE Rotate
  BY <1>2 DEF Rotate, Backing
<1>3. CASE CacheEvicts
  BY <1>3 DEF CacheEvicts, Backing
<1>4. CASE CircuitEvicts
  BY <1>4 DEF CircuitEvicts, Backing
<1>5. ASSUME NEW p \in Callers, Call(p) PROVE Backing'
  BY <1>5 DEF Call, GoTo, Backing
<1>6. ASSUME NEW p \in Callers, Lookup(p) PROVE Backing'
  BY <1>6 DEF Lookup, GoTo, Return, Backing
<1>7. ASSUME NEW p \in Callers, Join(p) PROVE Backing'
  BY <1>7 DEF Join, GoTo, Backing
<1>8. ASSUME NEW p \in Callers, FollowerReturns(p) PROVE Backing'
  BY <1>8 DEF FollowerReturns, GoTo, Backing
<1>9. ASSUME NEW p \in Callers, FollowerCancelled(p) PROVE Backing'
  BY <1>9 DEF FollowerCancelled, GoTo, Return, Backing
<1>10. ASSUME NEW p \in Callers, ResolveOffline(p) PROVE Backing'
  BY <1>10 DEF ResolveOffline, GoTo, resolveOffline, resolveDidKey, Panics, FirstKey,
     Backing
<1>11. ASSUME NEW p \in Callers, CheckCircuit(p) PROVE Backing'
  <2>1. CASE openUntil # Closed /\ now <= openUntil
    BY <1>11, <2>1 DEF CheckCircuit, Backing
  <2>2. CASE openUntil # Closed /\ now > openUntil
    BY <1>11, <2>2 DEF CheckCircuit, Backing
  <2>3. CASE openUntil = Closed
    BY <1>11, <2>3 DEF CheckCircuit, Backing
  <2> QED
    BY <2>1, <2>2, <2>3
<1>12. ASSUME NEW p \in Callers, CheckHost(p) PROVE Backing'
  BY <1>12 DEF CheckHost, GoTo, Backing
<1>13. ASSUME NEW p \in Callers, SafeDial(p) PROVE Backing'
  <2>1. CASE Fails(p)
    BY <2>1 DEF Fails, RecordFailure, Backing
  <2>2. CASE ~ Fails(p)
    BY <1>13, <2>2 DEF SafeDial, Backing
  <2> QED
    BY <2>1, <2>2
<1>14. ASSUME NEW p \in Callers, Connect(p) PROVE Backing'
  BY <1>14 DEF Connect, GoTo, Backing
<1>15. ASSUME NEW p \in Callers, FetchServed(p) PROVE Backing'
  BY <1>15 DEF FetchServed, GoTo, RecordSuccess, Backing
<1>16. ASSUME NEW p \in Callers, FetchUseless(p) PROVE Backing'
  BY <1>16 DEF FetchUseless, GoTo, Fails, RecordFailure, Backing
<1>17. ASSUME NEW p \in Callers, ContactFails(p) PROVE Backing'
  BY <1>17 DEF ContactFails, GoTo, Fails, RecordFailure, Backing
<1>18. ASSUME NEW p \in Callers, Close(p) PROVE Backing'
  BY <1>18 DEF Close, Backing
<1>19. ASSUME NEW p \in Callers, Delete(p) PROVE Backing'
  BY <1>19 DEF Delete, GoTo, Backing
<1>20. ASSUME NEW p \in Callers, Add(p) PROVE Backing'
  BY <1>20 DEF Add, GoTo, Backing
<1>21. CASE UNCHANGED vars
  BY <1>21 DEF vars, Backing
<1>22. ASSUME NEW stage \in {"idle", "dead"}, Forget(stage) PROVE Backing'
  BY <1>22 DEF Forget, Backing
<1> QED
  BY <1>1, <1>2, <1>3, <1>4, <1>5, <1>6, <1>7, <1>8, <1>9, <1>10, <1>11, <1>12,
     <1>13, <1>14, <1>15, <1>16, <1>17, <1>18, <1>19, <1>20, <1>21,
     <1>22 DEF Next, Runs, Restart, Panic

\* The initial state.
LEMMA InitEstablishes == Init => IndInv
<1> SUFFICES ASSUME Init PROVE IndInv
  OBVIOUS
<1> USE ResolverConstants, ResolverInputs DEF Init, Time, Never, NoKey, Closed, Leading, Contacting, FirstKey
<1>1. TypeOK
  <2>1. retiredAt \in [1 .. MaxKey -> 0 .. Never] /\ pc \in [Callers -> Stages]
    BY DEF Stages
  <2>2. key \in [Callers -> NoKey .. MaxKey] /\ startedAt \in [Callers -> Time]
    OBVIOUS
  <2>3. openUntil \in {Closed} \cup 0 .. MaxTime + Cooldown /\ expiry \in 0 .. MaxTime + TTL
    OBVIOUS
  <2>4. fetchStart \in [Callers -> Time] /\ lastFailure \in Time /\ current \in 1 .. MaxKey
    OBVIOUS
  <2>5. failures \in 0 .. Threshold /\ cachedKey \in NoKey .. MaxKey /\ sharedKey \in NoKey .. MaxKey
    OBVIOUS
  <2>6. now \in Time /\ did \in Identifiers /\ peer = NoAddress /\ leader = NoOne
    OBVIOUS
  <2>7. done \in BOOLEAN /\ orphaned \in BOOLEAN
    OBVIOUS
  <2> HIDE DEF Init, Time, Never, NoKey, Closed
  <2> QED
    BY <2>1, <2>2, <2>3, <2>4, <2>5, <2>6, <2>7 DEF TypeOK
<1>2. Flight /\ Vetted /\ KeyInHand
  BY DEF Flight, Vetted, KeyInHand
<1>3. Clocks /\ KeyAges /\ Backing
  BY DEF Clocks, KeyAges, Backing
<1> QED
  BY <1>1, <1>2, <1>3 DEF IndInv

\* The parts of IndInv hold in every state of Resolve's callers, its caches and
\* its circuit.
THEOREM Inductive == Spec => []IndInv
<1>1. IndInv /\ [Next]_vars => IndInv'
  BY TypeStep, FlightStep, VettedStep, KeyInHandStep, ClocksStep, KeyAgesStep,
     BackingStep DEF IndInv
<1> QED
  BY InitEstablishes, <1>1, PTL DEF Spec

\* Every variable of the resolver keeps its type.
THEOREM TypeCorrect == Spec => []TypeOK
<1>1. IndInv => TypeOK
  BY DEF IndInv
<1> QED
  BY Inductive, <1>1, PTL

\* The inflight map keeps the requests for one DID apart: a leader is the entry
\* of the map from its insertion to its deletion.
THEOREM OneFlight == Spec => []SingleFlight
<1>1. IndInv => SingleFlight
  BY DEF IndInv, Flight, SingleFlight, Leading, Contacting
<1> QED
  BY Inductive, <1>1, PTL

\* safeDialContext connects to an address that it has looked at, whatever DNS
\* answered before.
THEOREM NoPrivatePeer == Spec => []PublicPeersOnly
<1>1. IndInv => PublicPeersOnly
  BY DEF IndInv, Vetted, PublicPeersOnly
<1> QED
  BY Inductive, <1>1, PTL

\* A replaced key is returned by no call that starts more than TTL plus one
\* timeout later, through the cache or through the inflight map.
THEOREM RotationReaches == Spec => []RotationPropagates
<1>1. IndInv => RotationPropagates
  BY DEF IndInv, KeyAges, RotationPropagates
<1> QED
  BY Inductive, <1>1, PTL

\* An endpoint at its failure threshold is left alone for a cooldown, after
\* every failed probe too.
THEOREM Backoff == Spec => BacksOff
<1> DEFINE Probe(p) == pc[p] = "circuit" /\ pc'[p] = "check" /\ failures >= Threshold
                         => now > lastFailure + Cooldown
<1>1. ASSUME IndInv, Next, NEW p \in Callers,
             pc[p] = "circuit", pc'[p] = "check", failures >= Threshold
      PROVE  now > lastFailure + Cooldown
  <2>1. CheckCircuit(p)
    BY <1>1 DEF Next, Runs, IndInv, TypeOK, Tick, Rotate, CacheEvicts, CircuitEvicts, Call,
       Lookup, Join, FollowerReturns, FollowerCancelled, ResolveOffline, CheckCircuit,
       CheckHost, SafeDial, Connect, FetchServed, FetchUseless, ContactFails, Fails, Close,
       Delete, Add, Restart, Panic, Forget, GoTo, Return, calls, Contacting
  <2> QED
    BY <1>1, <2>1, ResolverConstants
    DEF CheckCircuit, GoTo, IndInv, Backing, TypeOK, Time, Closed
<1>2. IndInv /\ [Next]_vars => [\A p \in Callers : Probe(p)]_vars
  BY <1>1
<1> QED
  BY Inductive, <1>2, PTL DEF Spec, BacksOff
===========================================================================
