------------------------ MODULE StatusCacheProofs ------------------------
(***************************************************************************)
(* The safety properties of StatusCache, for any number of goroutines, any *)
(* set of indices and any TTL, fetch timeout and clock bound.              *)
(*                                                                         *)
(* IndInv is inductive.  Each of its parts is a lemma of its own below:    *)
(* the part holds after a step of Next that starts in IndInv.              *)
(***************************************************************************)
EXTENDS StatusCache, TLAPS

\* Every step keeps the types.
LEMMA TypeStep ==
  ASSUME IndInv, [Next]_vars
  PROVE  TypeOK'
<1> USE StatusCacheConstants DEF IndInv, Procs, Never, Time
<1>1. CASE Tick
  BY <1>1 DEF Tick, TypeOK, Stages, InitSection, RefreshSection, Answers,
     Published, snapshot, mutexes, locals
<1>2. ASSUME NEW i \in Covered, IssuerRevokes(i) PROVE TypeOK'
  BY <1>2 DEF IssuerRevokes, TypeOK, Stages, InitSection, RefreshSection,
     Answers, Published, snapshot, mutexes, locals
<1>3. ASSUME NEW p \in Callers, NEW i \in Indices, Call(p, i) PROVE TypeOK'
  BY <1>3 DEF Call, TypeOK, Stages, InitSection, RefreshSection, Answers,
     Published, snapshot, mutexes, locals
<1>4. ASSUME NEW p \in Procs, CheckSnapshot(p) PROVE TypeOK'
  BY <1>4 DEF CheckSnapshot, Return, TypeOK, Stages, InitSection,
     RefreshSection, Answers, Published, snapshot, mutexes, locals
<1>5. ASSUME NEW p \in Procs, InitLock(p) PROVE TypeOK'
  BY <1>5 DEF InitLock, TypeOK, Stages, InitSection, RefreshSection, Answers,
     Published, snapshot, mutexes, locals
<1>6. ASSUME NEW p \in Procs, InitCheck(p) PROVE TypeOK'
  BY <1>6 DEF InitCheck, AfterInit, TypeOK, Stages, InitSection, RefreshSection,
     Answers, Published, snapshot, mutexes, locals
<1>7. ASSUME NEW p \in Procs, CheckTTL(p) PROVE TypeOK'
  BY <1>7 DEF CheckTTL, TypeOK, Stages, InitSection, RefreshSection, Answers,
     Published, snapshot, mutexes, locals
<1>8. ASSUME NEW p \in Procs, RefreshLock(p) PROVE TypeOK'
  BY <1>8 DEF RefreshLock, TypeOK, Stages, InitSection, RefreshSection, Answers,
     Published, snapshot, mutexes, locals
<1>9. ASSUME NEW p \in Procs, RefreshCheck(p) PROVE TypeOK'
  BY <1>9 DEF RefreshCheck, TypeOK, Stages, InitSection, RefreshSection,
     Answers, Published, snapshot, mutexes, locals
<1>10. ASSUME NEW p \in Procs, Read(p) PROVE TypeOK'
  BY <1>10 DEF Read, Return, TypeOK, Stages, InitSection, RefreshSection,
     Answers, Published, snapshot, mutexes, locals
<1>11. ASSUME NEW p \in Procs, FetchServed(p) PROVE TypeOK'
  BY <1>11 DEF FetchServed, TypeOK, Stages, InitSection, RefreshSection,
     Answers, Published, snapshot, mutexes, locals
<1>12. ASSUME NEW p \in Procs, Publish(p) PROVE TypeOK'
  BY <1>12 DEF Publish, AfterInit, TypeOK, Stages, InitSection, RefreshSection,
     Answers, Published, snapshot, mutexes, locals
<1>13. ASSUME NEW p \in Procs, InitFetchFails(p) PROVE TypeOK'
  BY <1>13 DEF InitFetchFails, Return, TypeOK, Stages, InitSection,
     RefreshSection, Answers, Published, snapshot, mutexes, locals
<1>14. ASSUME NEW p \in Procs, RefreshFails(p) PROVE TypeOK'
  BY <1>14 DEF RefreshFails, TypeOK, Stages, InitSection, RefreshSection,
     Answers, Published, snapshot, mutexes, locals
<1>15. CASE UNCHANGED vars
  BY <1>15 DEF vars, snapshot, mutexes, locals, TypeOK, Stages, InitSection,
     RefreshSection, Answers, Published, snapshot, mutexes, locals
<1> QED
  BY <1>1, <1>2, <1>3, <1>4, <1>5, <1>6, <1>7, <1>8, <1>9, <1>10, <1>11, <1>12,
     <1>13, <1>14, <1>15 DEF Next, Runs, TakesLock

\* The mutexes guard their sections.
LEMMA LockStep ==
  ASSUME IndInv, [Next]_vars
  PROVE  LockDiscipline'
<1> USE StatusCacheConstants DEF IndInv, Procs, Never, Time
<1>1. CASE Tick
  BY <1>1 DEF Tick, LockDiscipline, TypeOK, InitSection, RefreshSection,
     snapshot, mutexes, locals
<1>2. ASSUME NEW i \in Covered, IssuerRevokes(i) PROVE LockDiscipline'
  BY <1>2 DEF IssuerRevokes, LockDiscipline, TypeOK, InitSection,
     RefreshSection, snapshot, mutexes, locals
<1>3. ASSUME NEW p \in Callers, NEW i \in Indices, Call(p, i) PROVE LockDiscipline'
  BY <1>3 DEF Call, LockDiscipline, TypeOK, InitSection, RefreshSection,
     snapshot, mutexes, locals
<1>4. ASSUME NEW p \in Procs, CheckSnapshot(p) PROVE LockDiscipline'
  BY <1>4 DEF CheckSnapshot, Return, LockDiscipline, TypeOK, InitSection,
     RefreshSection, snapshot, mutexes, locals
<1>5. ASSUME NEW p \in Procs, InitLock(p) PROVE LockDiscipline'
  BY <1>5 DEF InitLock, LockDiscipline, TypeOK, InitSection, RefreshSection,
     snapshot, mutexes, locals
<1>6. ASSUME NEW p \in Procs, InitCheck(p) PROVE LockDiscipline'
  BY <1>6 DEF InitCheck, AfterInit, LockDiscipline, TypeOK, InitSection,
     RefreshSection, snapshot, mutexes, locals
<1>7. ASSUME NEW p \in Procs, CheckTTL(p) PROVE LockDiscipline'
  BY <1>7 DEF CheckTTL, LockDiscipline, TypeOK, InitSection, RefreshSection,
     snapshot, mutexes, locals
<1>8. ASSUME NEW p \in Procs, RefreshLock(p) PROVE LockDiscipline'
  BY <1>8 DEF RefreshLock, LockDiscipline, TypeOK, InitSection, RefreshSection,
     snapshot, mutexes, locals
<1>9. ASSUME NEW p \in Procs, RefreshCheck(p) PROVE LockDiscipline'
  BY <1>9 DEF RefreshCheck, LockDiscipline, TypeOK, InitSection, RefreshSection,
     snapshot, mutexes, locals
<1>10. ASSUME NEW p \in Procs, Read(p) PROVE LockDiscipline'
  BY <1>10 DEF Read, Return, LockDiscipline, TypeOK, InitSection,
     RefreshSection, snapshot, mutexes, locals
<1>11. ASSUME NEW p \in Procs, FetchServed(p) PROVE LockDiscipline'
  BY <1>11 DEF FetchServed, LockDiscipline, TypeOK, InitSection, RefreshSection,
     snapshot, mutexes, locals
<1>12. ASSUME NEW p \in Procs, Publish(p) PROVE LockDiscipline'
  BY <1>12 DEF Publish, AfterInit, LockDiscipline, TypeOK, InitSection,
     RefreshSection, snapshot, mutexes, locals
<1>13. ASSUME NEW p \in Procs, InitFetchFails(p) PROVE LockDiscipline'
  BY <1>13 DEF InitFetchFails, Return, LockDiscipline, TypeOK, InitSection,
     RefreshSection, snapshot, mutexes, locals
<1>14. ASSUME NEW p \in Procs, RefreshFails(p) PROVE LockDiscipline'
  BY <1>14 DEF RefreshFails, LockDiscipline, TypeOK, InitSection,
     RefreshSection, snapshot, mutexes, locals
<1>15. CASE UNCHANGED vars
  BY <1>15 DEF vars, snapshot, mutexes, locals, LockDiscipline, TypeOK,
     InitSection, RefreshSection, snapshot, mutexes, locals
<1> QED
  BY <1>1, <1>2, <1>3, <1>4, <1>5, <1>6, <1>7, <1>8, <1>9, <1>10, <1>11, <1>12,
     <1>13, <1>14, <1>15 DEF Next, Runs, TakesLock

\* First fetches only without a snapshot; everything else only with one.
LEMMA SnapshotStep ==
  ASSUME IndInv, [Next]_vars
  PROVE  SnapshotFirst'
<1> USE StatusCacheConstants DEF IndInv, Procs, Never, Time
<1>1. CASE Tick
  BY <1>1 DEF Tick, SnapshotFirst, LockDiscipline, TypeOK, InitSection,
     RefreshSection, snapshot, mutexes, locals
<1>2. ASSUME NEW i \in Covered, IssuerRevokes(i) PROVE SnapshotFirst'
  BY <1>2 DEF IssuerRevokes, SnapshotFirst, LockDiscipline, TypeOK, InitSection,
     RefreshSection, snapshot, mutexes, locals
<1>3. ASSUME NEW p \in Callers, NEW i \in Indices, Call(p, i) PROVE SnapshotFirst'
  BY <1>3 DEF Call, SnapshotFirst, LockDiscipline, TypeOK, InitSection,
     RefreshSection, snapshot, mutexes, locals
<1>4. ASSUME NEW p \in Procs, CheckSnapshot(p) PROVE SnapshotFirst'
  BY <1>4 DEF CheckSnapshot, Return, SnapshotFirst, LockDiscipline, TypeOK,
     InitSection, RefreshSection, snapshot, mutexes, locals
<1>5. ASSUME NEW p \in Procs, InitLock(p) PROVE SnapshotFirst'
  BY <1>5 DEF InitLock, SnapshotFirst, LockDiscipline, TypeOK, InitSection,
     RefreshSection, snapshot, mutexes, locals
<1>6. ASSUME NEW p \in Procs, InitCheck(p) PROVE SnapshotFirst'
  BY <1>6 DEF InitCheck, AfterInit, SnapshotFirst, LockDiscipline, TypeOK,
     InitSection, RefreshSection, snapshot, mutexes, locals
<1>7. ASSUME NEW p \in Procs, CheckTTL(p) PROVE SnapshotFirst'
  BY <1>7 DEF CheckTTL, SnapshotFirst, LockDiscipline, TypeOK, InitSection,
     RefreshSection, snapshot, mutexes, locals
<1>8. ASSUME NEW p \in Procs, RefreshLock(p) PROVE SnapshotFirst'
  BY <1>8 DEF RefreshLock, SnapshotFirst, LockDiscipline, TypeOK, InitSection,
     RefreshSection, snapshot, mutexes, locals
<1>9. ASSUME NEW p \in Procs, RefreshCheck(p) PROVE SnapshotFirst'
  BY <1>9 DEF RefreshCheck, SnapshotFirst, LockDiscipline, TypeOK, InitSection,
     RefreshSection, snapshot, mutexes, locals
<1>10. ASSUME NEW p \in Procs, Read(p) PROVE SnapshotFirst'
  BY <1>10 DEF Read, Return, SnapshotFirst, LockDiscipline, TypeOK, InitSection,
     RefreshSection, snapshot, mutexes, locals
<1>11. ASSUME NEW p \in Procs, FetchServed(p) PROVE SnapshotFirst'
  BY <1>11 DEF FetchServed, SnapshotFirst, LockDiscipline, TypeOK, InitSection,
     RefreshSection, snapshot, mutexes, locals
<1>12. ASSUME NEW p \in Procs, Publish(p) PROVE SnapshotFirst'
  BY <1>12 DEF Publish, AfterInit, SnapshotFirst, LockDiscipline, TypeOK,
     InitSection, RefreshSection, snapshot, mutexes, locals
<1>13. ASSUME NEW p \in Procs, InitFetchFails(p) PROVE SnapshotFirst'
  BY <1>13 DEF InitFetchFails, Return, SnapshotFirst, LockDiscipline, TypeOK,
     InitSection, RefreshSection, snapshot, mutexes, locals
<1>14. ASSUME NEW p \in Procs, RefreshFails(p) PROVE SnapshotFirst'
  BY <1>14 DEF RefreshFails, SnapshotFirst, LockDiscipline, TypeOK, InitSection,
     RefreshSection, snapshot, mutexes, locals
<1>15. CASE UNCHANGED vars
  BY <1>15 DEF vars, snapshot, mutexes, locals, SnapshotFirst, LockDiscipline,
     TypeOK, InitSection, RefreshSection, snapshot, mutexes, locals
<1> QED
  BY <1>1, <1>2, <1>3, <1>4, <1>5, <1>6, <1>7, <1>8, <1>9, <1>10, <1>11, <1>12,
     <1>13, <1>14, <1>15 DEF Next, Runs, TakesLock

\* No step gives a verdict without a snapshot.
LEMMA FailClosedStep ==
  ASSUME IndInv, [Next]_vars
  PROVE  FailClosed'
<1> USE StatusCacheConstants DEF IndInv, Procs, Never, Time
<1>1. CASE Tick
  BY <1>1 DEF Tick, FailClosed, SnapshotFirst, TypeOK, RefreshSection, snapshot,
     mutexes, locals
<1>2. ASSUME NEW i \in Covered, IssuerRevokes(i) PROVE FailClosed'
  BY <1>2 DEF IssuerRevokes, FailClosed, SnapshotFirst, TypeOK, RefreshSection,
     snapshot, mutexes, locals
<1>3. ASSUME NEW p \in Callers, NEW i \in Indices, Call(p, i) PROVE FailClosed'
  BY <1>3 DEF Call, FailClosed, SnapshotFirst, TypeOK, RefreshSection, snapshot,
     mutexes, locals
<1>4. ASSUME NEW p \in Procs, CheckSnapshot(p) PROVE FailClosed'
  BY <1>4 DEF CheckSnapshot, Return, FailClosed, SnapshotFirst, TypeOK,
     RefreshSection, snapshot, mutexes, locals
<1>5. ASSUME NEW p \in Procs, InitLock(p) PROVE FailClosed'
  BY <1>5 DEF InitLock, FailClosed, SnapshotFirst, TypeOK, RefreshSection,
     snapshot, mutexes, locals
<1>6. ASSUME NEW p \in Procs, InitCheck(p) PROVE FailClosed'
  BY <1>6 DEF InitCheck, AfterInit, FailClosed, SnapshotFirst, TypeOK,
     RefreshSection, snapshot, mutexes, locals
<1>7. ASSUME NEW p \in Procs, CheckTTL(p) PROVE FailClosed'
  BY <1>7 DEF CheckTTL, FailClosed, SnapshotFirst, TypeOK, RefreshSection,
     snapshot, mutexes, locals
<1>8. ASSUME NEW p \in Procs, RefreshLock(p) PROVE FailClosed'
  BY <1>8 DEF RefreshLock, FailClosed, SnapshotFirst, TypeOK, RefreshSection,
     snapshot, mutexes, locals
<1>9. ASSUME NEW p \in Procs, RefreshCheck(p) PROVE FailClosed'
  BY <1>9 DEF RefreshCheck, FailClosed, SnapshotFirst, TypeOK, RefreshSection,
     snapshot, mutexes, locals
<1>10. ASSUME NEW p \in Procs, Read(p) PROVE FailClosed'
  BY <1>10 DEF Read, Return, FailClosed, SnapshotFirst, TypeOK, RefreshSection,
     snapshot, mutexes, locals
<1>11. ASSUME NEW p \in Procs, FetchServed(p) PROVE FailClosed'
  BY <1>11 DEF FetchServed, FailClosed, SnapshotFirst, TypeOK, RefreshSection,
     snapshot, mutexes, locals
<1>12. ASSUME NEW p \in Procs, Publish(p) PROVE FailClosed'
  BY <1>12 DEF Publish, AfterInit, FailClosed, SnapshotFirst, TypeOK,
     RefreshSection, snapshot, mutexes, locals
<1>13. ASSUME NEW p \in Procs, InitFetchFails(p) PROVE FailClosed'
  BY <1>13 DEF InitFetchFails, Return, FailClosed, SnapshotFirst, TypeOK,
     RefreshSection, snapshot, mutexes, locals
<1>14. ASSUME NEW p \in Procs, RefreshFails(p) PROVE FailClosed'
  BY <1>14 DEF RefreshFails, FailClosed, SnapshotFirst, TypeOK, RefreshSection,
     snapshot, mutexes, locals
<1>15. CASE UNCHANGED vars
  BY <1>15 DEF vars, snapshot, mutexes, locals, FailClosed, SnapshotFirst,
     TypeOK, RefreshSection, snapshot, mutexes, locals
<1> QED
  BY <1>1, <1>2, <1>3, <1>4, <1>5, <1>6, <1>7, <1>8, <1>9, <1>10, <1>11, <1>12,
     <1>13, <1>14, <1>15 DEF Next, Runs, TakesLock

\* The lists in hand stay ahead of the published one.
LEMMA ListsStep ==
  ASSUME IndInv, [Next]_vars
  PROVE  ListsGrow'
<1> USE StatusCacheConstants DEF IndInv, Procs, Never, Time
<1>1. CASE Tick
  BY <1>1 DEF Tick, ListsGrow, SnapshotFirst, LockDiscipline, TypeOK,
     InitSection, RefreshSection, Published, snapshot, mutexes, locals
<1>2. ASSUME NEW i \in Covered, IssuerRevokes(i) PROVE ListsGrow'
  BY <1>2 DEF IssuerRevokes, ListsGrow, SnapshotFirst, LockDiscipline, TypeOK,
     InitSection, RefreshSection, Published, snapshot, mutexes, locals
<1>3. ASSUME NEW p \in Callers, NEW i \in Indices, Call(p, i) PROVE ListsGrow'
  BY <1>3 DEF Call, ListsGrow, SnapshotFirst, LockDiscipline, TypeOK,
     InitSection, RefreshSection, Published, snapshot, mutexes, locals
<1>4. ASSUME NEW p \in Procs, CheckSnapshot(p) PROVE ListsGrow'
  BY <1>4 DEF CheckSnapshot, Return, ListsGrow, SnapshotFirst, LockDiscipline,
     TypeOK, InitSection, RefreshSection, Published, snapshot, mutexes, locals
<1>5. ASSUME NEW p \in Procs, InitLock(p) PROVE ListsGrow'
  BY <1>5 DEF InitLock, ListsGrow, SnapshotFirst, LockDiscipline, TypeOK,
     InitSection, RefreshSection, Published, snapshot, mutexes, locals
<1>6. ASSUME NEW p \in Procs, InitCheck(p) PROVE ListsGrow'
  BY <1>6 DEF InitCheck, AfterInit, ListsGrow, SnapshotFirst, LockDiscipline,
     TypeOK, InitSection, RefreshSection, Published, snapshot, mutexes, locals
<1>7. ASSUME NEW p \in Procs, CheckTTL(p) PROVE ListsGrow'
  BY <1>7 DEF CheckTTL, ListsGrow, SnapshotFirst, LockDiscipline, TypeOK,
     InitSection, RefreshSection, Published, snapshot, mutexes, locals
<1>8. ASSUME NEW p \in Procs, RefreshLock(p) PROVE ListsGrow'
  BY <1>8 DEF RefreshLock, ListsGrow, SnapshotFirst, LockDiscipline, TypeOK,
     InitSection, RefreshSection, Published, snapshot, mutexes, locals
<1>9. ASSUME NEW p \in Procs, RefreshCheck(p) PROVE ListsGrow'
  BY <1>9 DEF RefreshCheck, ListsGrow, SnapshotFirst, LockDiscipline, TypeOK,
     InitSection, RefreshSection, Published, snapshot, mutexes, locals
<1>10. ASSUME NEW p \in Procs, Read(p) PROVE ListsGrow'
  BY <1>10 DEF Read, Return, ListsGrow, SnapshotFirst, LockDiscipline, TypeOK,
     InitSection, RefreshSection, Published, snapshot, mutexes, locals
<1>11. ASSUME NEW p \in Procs, FetchServed(p) PROVE ListsGrow'
  BY <1>11 DEF FetchServed, ListsGrow, SnapshotFirst, LockDiscipline, TypeOK,
     InitSection, RefreshSection, Published, snapshot, mutexes, locals
<1>12. ASSUME NEW p \in Procs, Publish(p) PROVE ListsGrow'
  BY <1>12 DEF Publish, AfterInit, ListsGrow, SnapshotFirst, LockDiscipline,
     TypeOK, InitSection, RefreshSection, Published, snapshot, mutexes, locals
<1>13. ASSUME NEW p \in Procs, InitFetchFails(p) PROVE ListsGrow'
  BY <1>13 DEF InitFetchFails, Return, ListsGrow, SnapshotFirst, LockDiscipline,
     TypeOK, InitSection, RefreshSection, Published, snapshot, mutexes, locals
<1>14. ASSUME NEW p \in Procs, RefreshFails(p) PROVE ListsGrow'
  BY <1>14 DEF RefreshFails, ListsGrow, SnapshotFirst, LockDiscipline, TypeOK,
     InitSection, RefreshSection, Published, snapshot, mutexes, locals
<1>15. CASE UNCHANGED vars
  BY <1>15 DEF vars, snapshot, mutexes, locals, ListsGrow, SnapshotFirst,
     LockDiscipline, TypeOK, InitSection, RefreshSection, Published, snapshot,
     mutexes, locals
<1> QED
  BY <1>1, <1>2, <1>3, <1>4, <1>5, <1>6, <1>7, <1>8, <1>9, <1>10, <1>11, <1>12,
     <1>13, <1>14, <1>15 DEF Next, Runs, TakesLock

\* The ages of the lists stay bounded.
LEMMA AgesStep ==
  ASSUME IndInv, [Next]_vars
  PROVE  ListAges'
<1> USE StatusCacheConstants DEF IndInv, Procs, Never, Time
<1>1. CASE Tick
  BY <1>1 DEF Tick, ListAges, SnapshotFirst, TypeOK, RefreshSection, Fetching,
     Published, snapshot, mutexes, locals
<1>2. ASSUME NEW i \in Covered, IssuerRevokes(i) PROVE ListAges'
  BY <1>2 DEF IssuerRevokes, ListAges, SnapshotFirst, TypeOK, RefreshSection,
     Fetching, Published, snapshot, mutexes, locals
<1>3. ASSUME NEW p \in Callers, NEW i \in Indices, Call(p, i) PROVE ListAges'
  BY <1>3 DEF Call, ListAges, SnapshotFirst, TypeOK, RefreshSection, Fetching,
     Published, snapshot, mutexes, locals
<1>4. ASSUME NEW p \in Procs, CheckSnapshot(p) PROVE ListAges'
  BY <1>4 DEF CheckSnapshot, Return, ListAges, SnapshotFirst, TypeOK,
     RefreshSection, Fetching, Published, snapshot, mutexes, locals
<1>5. ASSUME NEW p \in Procs, InitLock(p) PROVE ListAges'
  BY <1>5 DEF InitLock, ListAges, SnapshotFirst, TypeOK, RefreshSection,
     Fetching, Published, snapshot, mutexes, locals
<1>6. ASSUME NEW p \in Procs, InitCheck(p) PROVE ListAges'
  BY <1>6 DEF InitCheck, AfterInit, ListAges, SnapshotFirst, TypeOK,
     RefreshSection, Fetching, Published, snapshot, mutexes, locals
<1>7. ASSUME NEW p \in Procs, CheckTTL(p) PROVE ListAges'
  BY <1>7 DEF CheckTTL, ListAges, SnapshotFirst, TypeOK, RefreshSection,
     Fetching, Published, snapshot, mutexes, locals
<1>8. ASSUME NEW p \in Procs, RefreshLock(p) PROVE ListAges'
  BY <1>8 DEF RefreshLock, ListAges, SnapshotFirst, TypeOK, RefreshSection,
     Fetching, Published, snapshot, mutexes, locals
<1>9. ASSUME NEW p \in Procs, RefreshCheck(p) PROVE ListAges'
  BY <1>9 DEF RefreshCheck, ListAges, SnapshotFirst, TypeOK, RefreshSection,
     Fetching, Published, snapshot, mutexes, locals
<1>10. ASSUME NEW p \in Procs, Read(p) PROVE ListAges'
  BY <1>10 DEF Read, Return, ListAges, SnapshotFirst, TypeOK, RefreshSection,
     Fetching, Published, snapshot, mutexes, locals
<1>11. ASSUME NEW p \in Procs, FetchServed(p) PROVE ListAges'
  BY <1>11 DEF FetchServed, ListAges, SnapshotFirst, TypeOK, RefreshSection,
     Fetching, Published, snapshot, mutexes, locals
<1>12. ASSUME NEW p \in Procs, Publish(p) PROVE ListAges'
  BY <1>12 DEF Publish, AfterInit, ListAges, SnapshotFirst, TypeOK,
     RefreshSection, Fetching, Published, snapshot, mutexes, locals
<1>13. ASSUME NEW p \in Procs, InitFetchFails(p) PROVE ListAges'
  BY <1>13 DEF InitFetchFails, Return, ListAges, SnapshotFirst, TypeOK,
     RefreshSection, Fetching, Published, snapshot, mutexes, locals
<1>14. ASSUME NEW p \in Procs, RefreshFails(p) PROVE ListAges'
  BY <1>14 DEF RefreshFails, ListAges, SnapshotFirst, TypeOK, RefreshSection,
     Fetching, Published, snapshot, mutexes, locals
<1>15. CASE UNCHANGED vars
  BY <1>15 DEF vars, snapshot, mutexes, locals, ListAges, SnapshotFirst, TypeOK,
     RefreshSection, Fetching, Published, snapshot, mutexes, locals
<1> QED
  BY <1>1, <1>2, <1>3, <1>4, <1>5, <1>6, <1>7, <1>8, <1>9, <1>10, <1>11, <1>12,
     <1>13, <1>14, <1>15 DEF Next, Runs, TakesLock

\* A verdict given is not older than the bound.
LEMMA PropagatesStep ==
  ASSUME IndInv, [Next]_vars
  PROVE  RevocationPropagates'
<1> USE StatusCacheConstants DEF IndInv, Procs, Never, Time
<1>1. CASE Tick
  BY <1>1 DEF Tick, RevocationPropagates, ListAges, SnapshotFirst, TypeOK,
     RefreshSection, snapshot, mutexes, locals
<1>2. ASSUME NEW i \in Covered, IssuerRevokes(i) PROVE RevocationPropagates'
  BY <1>2 DEF IssuerRevokes, RevocationPropagates, ListAges, SnapshotFirst,
     TypeOK, RefreshSection, snapshot, mutexes, locals
<1>3. ASSUME NEW p \in Callers, NEW i \in Indices, Call(p, i) PROVE RevocationPropagates'
  BY <1>3 DEF Call, RevocationPropagates, ListAges, SnapshotFirst, TypeOK,
     RefreshSection, snapshot, mutexes, locals
<1>4. ASSUME NEW p \in Procs, CheckSnapshot(p) PROVE RevocationPropagates'
  BY <1>4 DEF CheckSnapshot, Return, RevocationPropagates, ListAges,
     SnapshotFirst, TypeOK, RefreshSection, snapshot, mutexes, locals
<1>5. ASSUME NEW p \in Procs, InitLock(p) PROVE RevocationPropagates'
  BY <1>5 DEF InitLock, RevocationPropagates, ListAges, SnapshotFirst, TypeOK,
     RefreshSection, snapshot, mutexes, locals
<1>6. ASSUME NEW p \in Procs, InitCheck(p) PROVE RevocationPropagates'
  BY <1>6 DEF InitCheck, AfterInit, RevocationPropagates, ListAges,
     SnapshotFirst, TypeOK, RefreshSection, snapshot, mutexes, locals
<1>7. ASSUME NEW p \in Procs, CheckTTL(p) PROVE RevocationPropagates'
  BY <1>7 DEF CheckTTL, RevocationPropagates, ListAges, SnapshotFirst, TypeOK,
     RefreshSection, snapshot, mutexes, locals
<1>8. ASSUME NEW p \in Procs, RefreshLock(p) PROVE RevocationPropagates'
  BY <1>8 DEF RefreshLock, RevocationPropagates, ListAges, SnapshotFirst,
     TypeOK, RefreshSection, snapshot, mutexes, locals
<1>9. ASSUME NEW p \in Procs, RefreshCheck(p) PROVE RevocationPropagates'
  BY <1>9 DEF RefreshCheck, RevocationPropagates, ListAges, SnapshotFirst,
     TypeOK, RefreshSection, snapshot, mutexes, locals
<1>10. ASSUME NEW p \in Procs, Read(p) PROVE RevocationPropagates'
  BY <1>10 DEF Read, Return, RevocationPropagates, ListAges, SnapshotFirst,
     TypeOK, RefreshSection, snapshot, mutexes, locals
<1>11. ASSUME NEW p \in Procs, FetchServed(p) PROVE RevocationPropagates'
  BY <1>11 DEF FetchServed, RevocationPropagates, ListAges, SnapshotFirst,
     TypeOK, RefreshSection, snapshot, mutexes, locals
<1>12. ASSUME NEW p \in Procs, Publish(p) PROVE RevocationPropagates'
  BY <1>12 DEF Publish, AfterInit, RevocationPropagates, ListAges,
     SnapshotFirst, TypeOK, RefreshSection, snapshot, mutexes, locals
<1>13. ASSUME NEW p \in Procs, InitFetchFails(p) PROVE RevocationPropagates'
  BY <1>13 DEF InitFetchFails, Return, RevocationPropagates, ListAges,
     SnapshotFirst, TypeOK, RefreshSection, snapshot, mutexes, locals
<1>14. ASSUME NEW p \in Procs, RefreshFails(p) PROVE RevocationPropagates'
  BY <1>14 DEF RefreshFails, RevocationPropagates, ListAges, SnapshotFirst,
     TypeOK, RefreshSection, snapshot, mutexes, locals
<1>15. CASE UNCHANGED vars
  BY <1>15 DEF vars, snapshot, mutexes, locals, RevocationPropagates, ListAges,
     SnapshotFirst, TypeOK, RefreshSection, snapshot, mutexes, locals
<1> QED
  BY <1>1, <1>2, <1>3, <1>4, <1>5, <1>6, <1>7, <1>8, <1>9, <1>10, <1>11, <1>12,
     <1>13, <1>14, <1>15 DEF Next, Runs, TakesLock

\* The boot state satisfies the inductive invariant.
LEMMA InitEstablishes == Init => IndInv
<1> SUFFICES ASSUME Init PROVE IndInv
  OBVIOUS
<1> USE StatusCacheConstants DEF Init, Procs, Never, Time
<1>1. TypeOK
  <2>1. (CHOOSE i \in Indices : TRUE) \in Indices
    OBVIOUS
  <2>2. idx \in [Procs -> Indices]
    BY <2>1
  <2>3. revokedAt \in [Covered -> 0 .. Never]
    OBVIOUS
  <2>4. pc \in [Procs -> Stages]
    BY DEF Stages, InitSection, RefreshSection
  <2>5. failed \in [Procs -> BOOLEAN] /\ hasSnapshot \in BOOLEAN
    OBVIOUS
  <2>6. answer \in [Procs -> Answers] /\ body \in [Procs -> SUBSET Covered]
    BY DEF Answers
  <2>7. startedAt \in [Procs -> Time] /\ fetchStart \in [Procs -> Time]
        /\ now \in Time /\ fetchedAt \in Time
    OBVIOUS
  <2> HIDE DEF Procs, Time, Never
  <2> QED
    BY <2>2, <2>3, <2>4, <2>5, <2>6, <2>7 DEF TypeOK
<1>2. LockDiscipline
  BY DEF LockDiscipline, InitSection, RefreshSection
<1>3. SnapshotFirst
  BY DEF SnapshotFirst, RefreshSection
<1>4. FailClosed /\ RevocationPropagates
  BY DEF FailClosed, RevocationPropagates
<1>5. ListsGrow
  BY DEF ListsGrow, Published
<1>6. ListAges
  BY DEF ListAges, Fetching
<1> QED
  BY <1>1, <1>2, <1>3, <1>4, <1>5, <1>6 DEF IndInv

\* IndInv holds of every reachable state of the cache.
THEOREM Inductive == Spec => []IndInv
<1>1. IndInv /\ [Next]_vars => IndInv'
  BY TypeStep, LockStep, SnapshotStep, FailClosedStep, ListsStep, AgesStep,
     PropagatesStep DEF IndInv
<1> QED
  BY InitEstablishes, <1>1, PTL DEF Spec

\* Every variable of the cache keeps its type.
THEOREM TypeCorrect == Spec => []TypeOK
<1>1. IndInv => TypeOK
  BY DEF IndInv
<1> QED
  BY Inductive, <1>1, PTL

\* initMu and refreshMu together admit one fetch at a time: a first fetch and
\* a TTL refresh cannot overlap, because the first needs that no snapshot is
\* published and the second that one is.
THEOREM OneFetch == Spec => []AtMostOneFetch
<1>1. IndInv => AtMostOneFetch
  BY StatusCacheConstants
  DEF IndInv, LockDiscipline, SnapshotFirst, AtMostOneFetch, Fetching,
      InitSection, RefreshSection, Procs
<1> QED
  BY Inductive, <1>1, PTL

\* No verdict without a published snapshot.
THEOREM FailsClosed == Spec => []FailClosed
<1>1. IndInv => FailClosed
  BY DEF IndInv
<1> QED
  BY Inductive, <1>1, PTL

\* No verdict older than the TTL and one fetch.
THEOREM RevocationsArrive == Spec => []RevocationPropagates
<1>1. IndInv => RevocationPropagates
  BY DEF IndInv
<1> QED
  BY Inductive, <1>1, PTL

\* Published snapshots only ever grow.
THEOREM NeverRollsBack == Spec => NoRollback
<1>1. IndInv /\ [Next]_vars => [bitstring \subseteq bitstring']_vars
  <2> SUFFICES ASSUME IndInv, [Next]_vars PROVE bitstring \subseteq bitstring'
    OBVIOUS
  <2>1. ASSUME NEW p \in Procs, Publish(p) PROVE bitstring \subseteq bitstring'
    BY <2>1 DEF Publish, IndInv, ListsGrow, SnapshotFirst
  <2>2. ASSUME Next, ~ \E p \in Procs : Publish(p) PROVE bitstring' = bitstring
    BY <2>2 DEF Next, Runs, TakesLock, Tick, IssuerRevokes, Call, CheckSnapshot,
       InitLock, InitCheck, CheckTTL, RefreshLock, RefreshCheck, Read,
       FetchServed, InitFetchFails, RefreshFails, snapshot
  <2>3. CASE UNCHANGED vars
    BY <2>3 DEF vars, snapshot
  <2> QED
    BY <2>1, <2>2, <2>3
<1> QED
  BY Inductive, <1>1, PTL DEF Spec, NoRollback
============================================================================
