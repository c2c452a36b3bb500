---------------------------- MODULE ServerProofs ----------------------------
(***************************************************************************)
(* Replay protection, genuineness and revocation of the request path, for  *)
(* any number of requests, invocations, configurations and restarts.  What *)
(* either nonce store does to the claims is in NonceClaimed; the steps of a *)
(* request need no more of it.                                             *)
(***************************************************************************)
EXTENDS VerifyServer, FiniteSetTheorems, TLAPS

USE NonceStoreConstants, VerifyServerConstants DEF Time

\* The outcomes of a check.
LEMMA Typed ==
  /\ \A j \in Jtis, o \in Outcomes : <<j, o>> \in {<<>>} \cup (Jtis \X Outcomes)
  /\ Outcomes = {"ok", "replay", "error"}
BY DEF Outcomes

\* A check of either store claims a jti that is not live, or changes no live
\* claim; it leaves live claims of other jtis alone.
LEMMA NonceClaimed ==
  ASSUME TypeOK, NEW j \in Jtis, ClaimNonce(j)
  PROVE  /\ NonceTypeOK' /\ now' = now
         /\ \A k \in Jtis : Live(k) => seen'[k] = seen[k]
         /\ \A k \in Jtis : seen'[k] # Absent => seen[k] # Absent \/ k = j
         /\ result'[2] = "ok" => ~Live(j) /\ seen'[j] = now
<1>1. CASE config.backend = "memory"
  <2>1. Check(j)
    BY <1>1 DEF ClaimNonce
  <2>2. now' = now
    BY <2>1 DEF Check
  <2>3. CASE Live(j)
    BY <2>1, <2>2, <2>3 DEF Check, TypeOK, NonceTypeOK, Outcomes
  <2>4. CASE ~Live(j)
    <3> DEFINE kept == Evict(Forget(j))
    <3>1. kept \in [Jtis -> Time \cup {Absent}]
      BY DEF Evict, Forget, TypeOK, NonceTypeOK
    <3>2. \A k \in Jtis : Live(k) => kept[k] = seen[k]
      BY <2>4 DEF Evict, Forget, Expired, Live, TypeOK, NonceTypeOK
    <3>3. \A k \in Jtis : kept[k] # Absent => seen[k] # Absent
      BY DEF Evict, Forget, TypeOK, NonceTypeOK
    <3>4. \/ result' = <<j, "error">> /\ seen' = kept
          \/ result' = <<j, "ok">> /\ seen' = [kept EXCEPT ![j] = now]
      BY <2>1, <2>4 DEF Check
    <3> HIDE DEF kept
    <3>5. seen' \in [Jtis -> Time \cup {Absent}]
      BY <3>1, <3>4 DEF TypeOK, NonceTypeOK
    <3>6. NonceTypeOK'
      BY <2>2, <3>4, <3>5, Typed DEF TypeOK, NonceTypeOK
    <3> QED
      BY <2>2, <2>4, <3>1, <3>2, <3>3, <3>4, <3>6
  <2> QED
    BY <2>3, <2>4
<1>2. CASE config.backend # "memory"
  <2>1. Redis!Check(j)
    BY <1>2 DEF ClaimNonce
  <2>2. /\ now' = now
        /\ seen' = seen \/ (~Live(j) /\ seen' = [seen EXCEPT ![j] = now])
        /\ \E o \in Outcomes : result' = <<j, o>>
        /\ result'[2] = "ok" => ~Live(j) /\ seen' = [seen EXCEPT ![j] = now]
    BY <2>1 DEF Redis!Check, Redis!SetNX, Redis!Exists, Live, Outcomes
  <2>3. seen' \in [Jtis -> Time \cup {Absent}]
    BY <2>2 DEF TypeOK, NonceTypeOK
  <2>4. NonceTypeOK'
    BY <2>2, <2>3, Typed DEF TypeOK, NonceTypeOK
  <2> QED
    BY <2>2, <2>4 DEF TypeOK, NonceTypeOK
<1> QED
  BY <1>1, <1>2

---------------------------------------------------------------------------
(* Type correctness *)

\* There is an invocation.
LEMMA NoJtiTyped == NoJti \in Jtis
BY DEF NoJti

\* Serving appends a time.
LEMMA ServedTyped ==
  ASSUME TypeOK, NEW j \in Jtis, NEW t \in Time, served' = [served EXCEPT ![j] = Append(@, t)]
  PROVE  served' \in [Jtis -> Seq(Time)]
BY DEF TypeOK

\* The parts of TypeOK.
RequestsTyped ==
  /\ pc \in [Requests -> Stages]
  /\ jti \in [Requests -> Jtis]
  /\ forged \in [Requests -> BOOLEAN]
  /\ route \in [Requests -> {"middleware", "verify"}]
  /\ claimedAt \in [Requests -> Time]
  /\ knownRevoked \in [Requests -> SUBSET Indices]

RestTyped ==
  /\ config \in Configs
  /\ localRevoked \subseteq Indices
  /\ durable \subseteq Indices
  /\ atLineStart \in BOOLEAN
  /\ everRevoked \subseteq Indices
  /\ presented \subseteq Jtis
  /\ restarts \in 0 .. MaxRestarts

ServedIsTyped == served \in [Jtis -> Seq(Time)]

\* TypeOK in parts that each suit the provers: nonce store, requests, sets, sequences.
LEMMA TypeParts == TypeOK <=> NonceTypeOK /\ RequestsTyped /\ RestTyped /\ ServedIsTyped
BY DEF TypeOK, RequestsTyped, RestTyped, ServedIsTyped

\* The same of the next state.
LEMMA TypePartsPrime ==
  TypeOK' <=> NonceTypeOK' /\ RequestsTyped' /\ RestTyped' /\ ServedIsTyped'
BY DEF TypeOK, RequestsTyped, RestTyped, ServedIsTyped

\* A request that ends leaves typed slots.
LEMMA RespondTyped ==
  ASSUME RequestsTyped, NEW r \in Requests, Respond(r)
  PROVE  RequestsTyped'
BY NoJtiTyped DEF RequestsTyped, Respond, Stages

\* So does one that goes on.
LEMMA GoToTyped ==
  ASSUME RequestsTyped, NEW r \in Requests, NEW stage \in Stages, GoTo(r, stage)
  PROVE  RequestsTyped'
BY DEF RequestsTyped, GoTo

\* An untouched nonce store stays typed.
LEMMA NonceSame == ASSUME NonceTypeOK, UNCHANGED nonceVars PROVE NonceTypeOK'
BY DEF NonceTypeOK, nonceVars

\* Initial states are typed.
LEMMA InitTyped == ASSUME Init PROVE TypeOK
<1>1. NonceTypeOK
  BY DEF Init, NonceInit, NonceTypeOK
<1>2. RequestsTyped
  BY NoJtiTyped DEF Init, RequestsTyped, Stages
<1>3. RestTyped
  BY DEF Init, RestTyped
<1>4. ServedIsTyped
  BY DEF Init, ServedIsTyped
<1> QED
  BY <1>1, <1>2, <1>3, <1>4, TypeParts

\* Every step keeps the types.
LEMMA TypeStep == ASSUME TypeOK, [Next]_vars PROVE TypeOK'
<1>0. NonceTypeOK /\ RequestsTyped /\ RestTyped /\ ServedIsTyped
  BY TypeParts
<1>1. CASE ClockTick
  <2>1. NonceTypeOK'
    BY <1>0, <1>1 DEF ClockTick, Tick, NonceTypeOK
  <2>2. RequestsTyped' /\ RestTyped' /\ ServedIsTyped'
    BY <1>0, <1>1 DEF ClockTick, reqVars, revVars, histVars, RequestsTyped, RestTyped, ServedIsTyped
  <2> QED
    BY <2>1, <2>2, TypePartsPrime
<1>2. CASE Restart
  <2>0. /\ seen' = seen \/ seen' = [j \in Jtis |-> Absent]
        /\ served' = served \/ served' = [j \in Jtis |-> <<>>]
        /\ now' = now /\ result' = result
    BY <1>2 DEF Restart
  <2>1. NonceTypeOK'
    BY <1>0, <2>0 DEF NonceTypeOK
  <2>2. RequestsTyped'
    BY <1>2, NoJtiTyped DEF Restart, RequestsTyped, Stages
  <2>3. ServedIsTyped'
    <3>1. <<>> \in Seq(Time)
      OBVIOUS
    <3>2. CASE served' = [j \in Jtis |-> <<>>]
      BY <3>1, <3>2 DEF ServedIsTyped
    <3> QED
      BY <1>0, <2>0, <3>2 DEF ServedIsTyped
  <2>4. RestTyped'
    BY <1>0, <1>2 DEF Restart, RestTyped
  <2> QED
    BY <2>1, <2>2, <2>3, <2>4, TypePartsPrime
<1>3. ASSUME NEW i \in Indices, AdminRevoke(i) PROVE TypeOK'
  <2>1. NonceTypeOK'
    BY <1>0, <1>3, NonceSame DEF AdminRevoke
  <2>2. RequestsTyped' /\ ServedIsTyped'
    BY <1>0, <1>3 DEF AdminRevoke, reqVars, RequestsTyped, ServedIsTyped
  <2>3. RestTyped'
    BY <1>0, <1>3 DEF AdminRevoke, RestTyped
  <2> QED
    BY <2>1, <2>2, <2>3, TypePartsPrime
<1>7. CASE AdminRevokeFails
  <2>1. NonceTypeOK'
    BY <1>0, <1>7, NonceSame DEF AdminRevokeFails
  <2>2. RequestsTyped' /\ ServedIsTyped'
    BY <1>0, <1>7 DEF AdminRevokeFails, reqVars, histVars, RequestsTyped, ServedIsTyped
  <2>3. RestTyped'
    BY <1>0, <1>7 DEF AdminRevokeFails, histVars, RestTyped
  <2> QED
    BY <2>1, <2>2, <2>3, TypePartsPrime
<1>4. ASSUME NEW r \in Requests, Step(r) PROVE TypeOK'
  <2>1. CASE BlocksAtoD(r) \/ BlockE(r) \/ BlockF(r)
    <3>1. UNCHANGED <<config, nonceVars, revVars, restarts, histVars>>
      BY <2>1 DEF BlocksAtoD, BlockE, BlockF
    <3>2. Respond(r) \/ \E stage \in Stages : GoTo(r, stage)
      BY <2>1 DEF BlocksAtoD, BlockE, BlockF, RemoteRefuses, Stages
    <3>3. RequestsTyped'
      BY <1>0, <3>2, RespondTyped, GoToTyped
    <3>4. NonceTypeOK'
      BY <1>0, <3>1, NonceSame
    <3>5. RestTyped' /\ ServedIsTyped'
      BY <1>0, <3>1 DEF revVars, histVars, RestTyped, ServedIsTyped
    <3> QED
      BY <3>3, <3>4, <3>5, TypePartsPrime
  <2>2. CASE CheckNonceReplay(r)
    <3>1. jti[r] \in Jtis /\ now \in Time
      BY <1>0 DEF RequestsTyped, NonceTypeOK
    <3>2. NonceTypeOK'
      BY <2>2, <3>1, NonceClaimed DEF CheckNonceReplay
    <3>3. RequestsTyped'
      <4>1. CASE Respond(r)
        BY <1>0, <4>1, RespondTyped
      <4>2. CASE ~Respond(r)
        BY <1>0, <2>2, <3>1, <4>2 DEF CheckNonceReplay, RequestsTyped, Stages
      <4> QED
        BY <4>1, <4>2
    <3>4. RestTyped'
      BY <1>0, <2>2 DEF CheckNonceReplay, Serve, revVars, histVars, RestTyped
    <3>5. ServedIsTyped'
      BY <1>0, <2>2, <3>1, ServedTyped DEF CheckNonceReplay, Serve, revVars, histVars, ServedIsTyped
    <3> QED
      BY <3>2, <3>3, <3>4, <3>5, TypePartsPrime
  <2>3. CASE CheckRequestBinding(r)
    <3>1. jti[r] \in Jtis /\ claimedAt[r] \in Time
      BY <1>0 DEF RequestsTyped
    <3>2. NonceTypeOK'
      BY <1>0, <2>3, NonceSame DEF CheckRequestBinding
    <3>3. RequestsTyped'
      BY <1>0, <2>3, RespondTyped DEF CheckRequestBinding
    <3>4. RestTyped'
      BY <1>0, <2>3 DEF CheckRequestBinding, Serve, revVars, histVars, RestTyped
    <3>5. ServedIsTyped'
      BY <1>0, <2>3, <3>1, ServedTyped DEF CheckRequestBinding, Serve, revVars, histVars, ServedIsTyped
    <3> QED
      BY <3>2, <3>3, <3>4, <3>5, TypePartsPrime
  <2> QED
    BY <1>4, <2>1, <2>2, <2>3 DEF Step
<1>5. ASSUME NEW r \in Requests, NEW j \in Jtis, NEW f \in BOOLEAN,
             NEW rt \in {"middleware", "verify"}, Arrive(r, j, f, rt)
      PROVE  TypeOK'
  <2>1. NonceTypeOK'
    BY <1>0, <1>5, NonceSame DEF Arrive
  <2>2. RequestsTyped'
    BY <1>0, <1>5 DEF Arrive, RequestsTyped, RestTyped, Stages
  <2>3. RestTyped' /\ ServedIsTyped'
    BY <1>0, <1>5 DEF Arrive, revVars, RestTyped, ServedIsTyped
  <2> QED
    BY <2>1, <2>2, <2>3, TypePartsPrime
<1>6. CASE UNCHANGED vars
  <2>1. NonceTypeOK'
    BY <1>0, <1>6, NonceSame DEF vars
  <2>2. RequestsTyped' /\ RestTyped' /\ ServedIsTyped'
    BY <1>0, <1>6 DEF vars, reqVars, revVars, histVars, RequestsTyped, RestTyped, ServedIsTyped
  <2> QED
    BY <2>1, <2>2, TypePartsPrime
<1> QED
  BY <1>1, <1>2, <1>3, <1>4, <1>5, <1>6, <1>7 DEF Next

\* Every step of the server keeps every variable in its type.
THEOREM TypeCorrect == Spec => []TypeOK
BY InitTyped, TypeStep, PTL DEF Spec

---------------------------------------------------------------------------
(* The claims of requests *)

\* What serving a request adds to the claim times of its jti.
LEMMA ServedGrows ==
  ASSUME TypeOK, NEW j \in Jtis, NEW t \in Time,
         served' = [served EXCEPT ![j] = Append(@, t)]
  PROVE  /\ \A k \in Jtis \ {j} : served'[k] = served[k]
         /\ \E last \in Nat :
              /\ DOMAIN served[j] = 1 .. last
              /\ DOMAIN served'[j] = 1 .. last + 1
              /\ served'[j][last + 1] = t
              /\ \A n \in 1 .. last : served'[j][n] = served[j][n]
<1>1. /\ \A k \in Jtis \ {j} : served'[k] = served[k]
      /\ served[j] \in Seq(Time) /\ served'[j] = Append(served[j], t)
  BY DEF TypeOK
<1>2. Len(served[j]) \in Nat
  BY <1>1
<1> QED
  BY <1>1, <1>2

\* Indices of a sequence and of one that is longer by one.
LEMMA Intervals ==
  ASSUME NEW last \in Nat
  PROVE  /\ \A n \in 1 .. last + 1 : n \in 1 .. last \/ n = last + 1
         /\ \A a, b \in 1 .. last + 1 : a < b => a \in 1 .. last
OBVIOUS

\* The same for the sets of claim times.
LEMMA ServedAtGrows ==
  ASSUME TypeOK, NEW j \in Jtis, NEW t \in Time,
         served' = [served EXCEPT ![j] = Append(@, t)]
  PROVE  /\ \A k \in Jtis \ {j} : ServedAt(k)' = ServedAt(k)
         /\ ServedAt(j)' \subseteq ServedAt(j) \cup {t}
<1>1. \A k \in Jtis \ {j} : ServedAt(k)' = ServedAt(k)
  BY ServedGrows DEF ServedAt
<1>2. ASSUME NEW u, u \in ServedAt(j)', u # t
      PROVE  u \in ServedAt(j)
  <2>1. PICK last \in Nat :
              /\ DOMAIN served[j] = 1 .. last
              /\ DOMAIN served'[j] = 1 .. last + 1
              /\ served'[j][last + 1] = t
              /\ \A n \in 1 .. last : served'[j][n] = served[j][n]
    BY ServedGrows
  <2>2. PICK n \in 1 .. last + 1 : u = served'[j][n]
    BY <1>2, <2>1 DEF ServedAt
  <2>3. n \in 1 .. last
    BY <1>2, <2>1, <2>2, Intervals
  <2> QED
    BY <2>1, <2>2, <2>3 DEF ServedAt
<1> QED
  BY <1>1, <1>2

\* Spacing survives a serve whose claim is apart from all that were served.
LEMMA SpacingGrows ==
  ASSUME TypeOK, ReplaySpacing, NEW j \in Jtis, NEW t \in Time,
         served' = [served EXCEPT ![j] = Append(@, t)],
         \A u \in ServedAt(j) : Apart(t, u)
  PROVE  ReplaySpacing'
<1>1. PICK last \in Nat :
              /\ DOMAIN served[j] = 1 .. last
              /\ DOMAIN served'[j] = 1 .. last + 1
              /\ served'[j][last + 1] = t
              /\ \A n \in 1 .. last : served'[j][n] = served[j][n]
  BY ServedGrows
<1>2. \A n \in 1 .. last : Apart(t, served[j][n]) /\ Apart(served[j][n], t)
  BY <1>1 DEF ServedAt, Apart
<1>3. ASSUME NEW k \in Jtis, NEW a \in DOMAIN served[k], NEW b \in DOMAIN served[k], a < b
      PROVE  Apart(served[k][a], served[k][b])
  BY <1>3 DEF ReplaySpacing, Apart
<1>4. ASSUME NEW a \in 1 .. last + 1, NEW b \in 1 .. last + 1, a < b
      PROVE  Apart(served'[j][a], served'[j][b])
  <2>1. a \in 1 .. last
    BY <1>4, Intervals
  <2>2. CASE b \in 1 .. last
    BY <1>1, <1>3, <1>4, <2>1, <2>2
  <2>3. CASE b = last + 1
    BY <1>1, <1>2, <2>1, <2>3
  <2> QED
    BY <2>2, <2>3, Intervals
<1>5. ASSUME NEW k \in Jtis, NEW a \in DOMAIN served'[k], NEW b \in DOMAIN served'[k], a < b
      PROVE  Apart(served'[k][a], served'[k][b])
  <2>1. CASE k = j
    BY <1>1, <1>4, <1>5, <2>1
  <2>2. CASE k # j
    BY <1>3, <1>5, <2>2, ServedGrows
  <2> QED
    BY <2>1, <2>2
<1> QED
  BY <1>5 DEF ReplaySpacing, Apart

\* Claim times are numbers.
LEMMA ClaimTimesTyped ==
  ASSUME TypeOK, NEW j \in Jtis
  PROVE  /\ \A u \in ServedAt(j) : u \in Int
         /\ \A u \in HoldingAt(j) : u \in Int
         /\ now \in Int /\ TTL \in Int
<1>1. served[j] \in Seq(Time)
  BY DEF TypeOK
<1>2. \A n \in DOMAIN served[j] : served[j][n] \in Time
  BY <1>1
<1> QED
  BY <1>2 DEF TypeOK, NonceTypeOK, ServedAt, HoldingAt

\* A step that claims and serves nothing, and at most ends requests, keeps the
\* claims as they were.
LEMMA ClaimsKept ==
  ASSUME TypeOK, ClaimsApart, served' = served, now' = now,
         \A k \in Jtis : Live(k) => seen'[k] = seen[k],
         \A r \in Requests : pc'[r] = "binding" =>
           pc[r] = "binding" /\ jti'[r] = jti[r] /\ claimedAt'[r] = claimedAt[r]
  PROVE  ClaimsApart'
<1>1. ReplaySpacing'
  BY DEF ClaimsApart, ReplaySpacing
<1>2. \A j \in Jtis : ServedAt(j)' = ServedAt(j) /\ HoldingAt(j)' \subseteq HoldingAt(j)
  BY DEF ServedAt, HoldingAt, Holding
<1>3. ASSUME NEW j \in Jtis, NEW u \in ClaimTimes(j)'
      PROVE  u <= now' /\ (now' - u < TTL => seen'[j] = u)
  <2>1. u \in ClaimTimes(j) /\ u \in Int /\ now \in Int
    BY <1>2, <1>3, ClaimTimesTyped DEF ClaimTimes
  <2>2. u <= now /\ (now - u < TTL => seen[j] = u)
    BY <2>1 DEF ClaimsApart, ClaimsRecorded
  <2>3. now - u < TTL => Live(j)
    BY <2>1, <2>2 DEF Live
  <2> QED
    BY <2>2, <2>3
<1>4. HoldersApart'
  BY <1>2 DEF ClaimsApart, HoldersApart, Holding, Apart
<1> QED
  BY <1>1, <1>3, <1>4 DEF ClaimsApart, ClaimsRecorded

\* A jti that is not live was claimed a TTL ago or earlier.
LEMMA OldClaims ==
  ASSUME TypeOK, ClaimsApart, NEW j \in Jtis, ~Live(j)
  PROVE  \A u \in ClaimTimes(j) : u \in Int /\ Apart(now, u) /\ Apart(u, now)
<1> SUFFICES ASSUME NEW u \in ClaimTimes(j)
             PROVE  u \in Int /\ Apart(now, u) /\ Apart(u, now)
  OBVIOUS
<1>1. u \in Int /\ now \in Int /\ TTL \in Int
  BY ClaimTimesTyped DEF ClaimTimes
<1>2. now - u < TTL => seen[j] = u
  BY DEF ClaimsApart, ClaimsRecorded
<1>3. now - u >= TTL
  BY <1>1, <1>2 DEF Live
<1> QED
  BY <1>1, <1>3 DEF Apart

\* The claim of a request, and its end on the route /verify.
LEMMA ClaimsStep ==
  ASSUME TypeOK, ClaimsApart, NEW r \in Requests, CheckNonceReplay(r)
  PROVE  ClaimsApart'
<1>0. /\ jti[r] \in Jtis /\ now \in Time
      /\ ClaimNonce(jti[r]) /\ pc[r] = "nonce"
  BY DEF TypeOK, NonceTypeOK, CheckNonceReplay
<1>j. PICK j \in Jtis : j = jti[r]
  BY <1>0
<1>1. /\ now' = now
      /\ \A k \in Jtis : Live(k) => seen'[k] = seen[k]
      /\ result'[2] = "ok" => ~Live(j) /\ seen'[j] = now
  BY <1>0, NonceClaimed, <1>j
<1>2. CASE result'[2] # "ok"
  <2>1. Respond(r) /\ served' = served
    BY <1>2 DEF CheckNonceReplay, revVars, histVars
  <2>2. \A s \in Requests : pc'[s] = "binding" =>
           pc[s] = "binding" /\ jti'[s] = jti[s] /\ claimedAt'[s] = claimedAt[s]
    BY <2>1 DEF Respond, TypeOK
  <2> QED
    BY <1>1, <2>1, <2>2, ClaimsKept
<1>3. CASE result'[2] = "ok"
  <2>1. /\ \A u \in ClaimTimes(j) : u \in Int /\ Apart(now, u) /\ Apart(u, now)
        /\ j \in Jtis /\ seen'[j] = now
    BY <1>0, <1>1, <1>3, OldClaims, <1>j
  <2>2. /\ \A k \in Jtis \ {j} : ClaimTimes(k)' = ClaimTimes(k)
        /\ ClaimTimes(j)' \subseteq ClaimTimes(j) \cup {now}
        /\ ReplaySpacing' /\ HoldersApart'
    <3>1. CASE route[r] = "verify"
      <4>1. Respond(r) /\ served' = [served EXCEPT ![j] = Append(@, now)]
        BY <1>j, <1>3, <3>1 DEF CheckNonceReplay, Serve
      <4>2. \A s \in Requests, k \in Jtis :
              Holding(s, k)' => Holding(s, k) /\ claimedAt'[s] = claimedAt[s] /\ s # r
        BY <4>1 DEF Respond, Holding, TypeOK
      <4>3. \A s \in Requests, k \in Jtis : Holding(s, k) => Holding(s, k)'
        BY <1>0, <4>1 DEF Respond, Holding, TypeOK
      <4>4. \A k \in Jtis : HoldingAt(k)' = HoldingAt(k)
        BY <4>2, <4>3 DEF HoldingAt
      <4>5. /\ \A k \in Jtis \ {j} : ServedAt(k)' = ServedAt(k)
            /\ ServedAt(j)' \subseteq ServedAt(j) \cup {now}
        BY <1>0, <2>1, <4>1, ServedAtGrows
      <4>6. ReplaySpacing'
        BY <1>0, <2>1, <4>1, SpacingGrows DEF ClaimsApart, ClaimTimes
      <4>7. ASSUME NEW s \in Requests, NEW k \in Jtis, Holding(s, k)'
            PROVE  /\ \A u \in ServedAt(k)' : Apart(claimedAt'[s], u)
                   /\ \A q \in Requests \ {s} : Holding(q, k)' =>
                        Apart(claimedAt'[s], claimedAt'[q])
        <5>1. Holding(s, k) /\ claimedAt'[s] = claimedAt[s]
          BY <4>2, <4>7
        <5>2. /\ \A u \in ServedAt(k) : Apart(claimedAt[s], u)
              /\ \A q \in Requests \ {s} : Holding(q, k) => Apart(claimedAt[s], claimedAt[q])
          BY <5>1 DEF ClaimsApart, HoldersApart
        <5>3. k = j => Apart(claimedAt[s], now)
          BY <2>1, <5>1 DEF ClaimTimes, HoldingAt
        <5> QED
          BY <4>2, <4>5, <5>1, <5>2, <5>3
      <4>8. HoldersApart'
        BY <4>7 DEF HoldersApart, Apart
      <4> QED
        BY <4>4, <4>5, <4>6, <4>8 DEF ClaimTimes
    <3>2. CASE route[r] # "verify"
      <4>1. /\ served' = served /\ jti' = jti
            /\ pc' = [pc EXCEPT ![r] = "binding"]
            /\ claimedAt' = [claimedAt EXCEPT ![r] = now]
        BY <1>3, <3>2 DEF CheckNonceReplay, revVars, histVars
      <4>2. \A s \in Requests \ {r}, k \in Jtis :
              Holding(s, k)' = Holding(s, k) /\ claimedAt'[s] = claimedAt[s]
        BY <4>1 DEF Holding, TypeOK
      <4>3. \A k \in Jtis : /\ ~Holding(r, k)
                            /\ Holding(r, k)' => k = j
                            /\ claimedAt'[r] = now
        BY <1>j, <1>0, <4>1 DEF Holding, TypeOK
      <4>4. \A k \in Jtis : ServedAt(k)' = ServedAt(k)
        BY <4>1 DEF ServedAt
      <4>5. /\ \A k \in Jtis \ {j} : HoldingAt(k)' = HoldingAt(k)
            /\ HoldingAt(j)' \subseteq HoldingAt(j) \cup {now}
        BY <4>2, <4>3 DEF HoldingAt
      <4>6. ReplaySpacing'
        BY <4>1 DEF ClaimsApart, ReplaySpacing
      <4>7. ASSUME NEW s \in Requests, NEW k \in Jtis, Holding(s, k)'
            PROVE  /\ \A u \in ServedAt(k)' : Apart(claimedAt'[s], u)
                   /\ \A q \in Requests \ {s} : Holding(q, k)' =>
                        Apart(claimedAt'[s], claimedAt'[q])
        <5>1. CASE s = r
          <6>1. k = j /\ claimedAt'[s] = now
            BY <4>3, <4>7, <5>1
          <6>2. \A q \in Requests \ {s} : Holding(q, k)' => claimedAt'[q] \in HoldingAt(j)
            BY <4>2, <5>1, <6>1 DEF HoldingAt
          <6> QED
            BY <2>1, <4>4, <6>1, <6>2 DEF ClaimTimes
        <5>2. CASE s # r
          <6>1. Holding(s, k) /\ claimedAt'[s] = claimedAt[s]
            BY <4>2, <4>7, <5>2
          <6>2. /\ \A u \in ServedAt(k) : Apart(claimedAt[s], u)
                /\ \A q \in Requests \ {s} : Holding(q, k) => Apart(claimedAt[s], claimedAt[q])
            BY <6>1 DEF ClaimsApart, HoldersApart
          <6>3. k = j => Apart(claimedAt[s], now)
            BY <2>1, <6>1 DEF ClaimTimes, HoldingAt
          <6> QED
            BY <4>2, <4>3, <4>4, <6>1, <6>2, <6>3
        <5> QED
          BY <5>1, <5>2
      <4>8. HoldersApart'
        BY <4>7 DEF HoldersApart, Apart
      <4> QED
        BY <4>4, <4>5, <4>6, <4>8 DEF ClaimTimes
    <3> QED
      BY <3>1, <3>2
  <2>3. ASSUME NEW k \in Jtis, NEW u \in ClaimTimes(k)'
        PROVE  u <= now' /\ (now' - u < TTL => seen'[k] = u)
    <3>1. CASE u = now /\ k = j
      BY <1>0, <1>1, <2>1, <3>1
    <3>2. CASE u \in ClaimTimes(k)
      <4>1. u \in Int /\ now \in Int
        BY <3>2, ClaimTimesTyped DEF ClaimTimes
      <4>2. u <= now /\ (now - u < TTL => seen[k] = u)
        BY <3>2 DEF ClaimsApart, ClaimsRecorded
      <4>3. now - u < TTL => Live(k)
        BY <4>1, <4>2 DEF Live
      <4> QED
        BY <1>1, <4>2, <4>3
    <3> QED
      BY <2>2, <2>3, <3>1, <3>2
  <2> QED
    BY <2>2, <2>3 DEF ClaimsApart, ClaimsRecorded
<1> QED
  BY <1>2, <1>3

\* The end of a request that has claimed.
LEMMA BindingStep ==
  ASSUME TypeOK, ClaimsApart, NEW r \in Requests, CheckRequestBinding(r)
  PROVE  ClaimsApart'
<1>0. PICK j \in Jtis : j = jti[r]
  BY DEF TypeOK
<1>1. PICK t \in Time : t = claimedAt[r]
  BY DEF TypeOK
<1>2. Respond(r) /\ Holding(r, j) /\ UNCHANGED nonceVars
  BY <1>0 DEF CheckRequestBinding, Holding
<1>3. \A s \in Requests, k \in Jtis :
        Holding(s, k)' => Holding(s, k) /\ claimedAt'[s] = claimedAt[s] /\ s # r
  BY <1>2 DEF Respond, Holding, TypeOK
<1>4. CASE served' = served
  <2>1. \A s \in Requests : pc'[s] = "binding" =>
           pc[s] = "binding" /\ jti'[s] = jti[s] /\ claimedAt'[s] = claimedAt[s]
    BY <1>2 DEF Respond, TypeOK
  <2> QED
    BY <1>2, <1>4, <2>1, ClaimsKept DEF nonceVars
<1>5. CASE served' # served
  <2>1. served' = [served EXCEPT ![j] = Append(@, t)]
    BY <1>0, <1>1, <1>5 DEF CheckRequestBinding, Serve, revVars, histVars
  <2>2. t \in HoldingAt(j)
    BY <1>1, <1>2 DEF HoldingAt
  <2>3. /\ \A u \in ServedAt(j) : Apart(t, u)
        /\ \A s \in Requests \ {r} : Holding(s, j) => Apart(t, claimedAt[s])
    BY <1>1, <1>2 DEF ClaimsApart, HoldersApart
  <2>4. /\ \A k \in Jtis \ {j} : ServedAt(k)' = ServedAt(k)
        /\ ServedAt(j)' \subseteq ServedAt(j) \cup {t}
    BY <2>1, ServedAtGrows
  <2>5. ReplaySpacing'
    BY <2>1, <2>3, SpacingGrows DEF ClaimsApart
  <2>6. \A k \in Jtis : HoldingAt(k)' \subseteq HoldingAt(k)
    BY <1>3 DEF HoldingAt
  <2>7. \A k \in Jtis : ClaimTimes(k)' \subseteq ClaimTimes(k)
    BY <2>2, <2>4, <2>6 DEF ClaimTimes
  <2>8. ClaimsRecorded'
    BY <1>2, <2>7 DEF ClaimsApart, ClaimsRecorded, nonceVars
  <2>9. ASSUME NEW s \in Requests, NEW k \in Jtis, Holding(s, k)'
        PROVE  /\ \A u \in ServedAt(k)' : Apart(claimedAt'[s], u)
               /\ \A q \in Requests \ {s} : Holding(q, k)' =>
                    Apart(claimedAt'[s], claimedAt'[q])
    <3>1. Holding(s, k) /\ claimedAt'[s] = claimedAt[s] /\ s # r
      BY <1>3, <2>9
    <3>2. /\ \A u \in ServedAt(k) : Apart(claimedAt[s], u)
          /\ \A q \in Requests \ {s} : Holding(q, k) => Apart(claimedAt[s], claimedAt[q])
      BY <3>1 DEF ClaimsApart, HoldersApart
    <3>3. k = j => Apart(claimedAt[s], t)
      BY <1>1, <1>2, <3>1, <3>2
    <3> QED
      BY <1>3, <2>4, <3>1, <3>2, <3>3
  <2>10. HoldersApart'
    BY <2>9 DEF HoldersApart, Apart
  <2> QED
    BY <2>5, <2>8, <2>10 DEF ClaimsApart
<1> QED
  BY <1>4, <1>5

\* Claims grow old, and stay recorded for as long as they are young.
LEMMA TickStep ==
  ASSUME TypeOK, ClaimsApart, ClockTick
  PROVE  ClaimsApart'
<1>0. /\ now' = now + 1 /\ seen' = seen /\ served' = served
      /\ pc' = pc /\ jti' = jti /\ claimedAt' = claimedAt
  BY DEF ClockTick, Tick, reqVars, revVars, histVars
<1>1. \A j \in Jtis : ServedAt(j)' = ServedAt(j) /\ HoldingAt(j)' = HoldingAt(j)
  BY <1>0 DEF ServedAt, HoldingAt, Holding
<1>2. ASSUME NEW j \in Jtis, NEW u \in ClaimTimes(j)'
      PROVE  u <= now' /\ (now' - u < TTL => seen'[j] = u)
  <2>1. u \in ClaimTimes(j) /\ u \in Int /\ now \in Int /\ TTL \in Int
    BY <1>1, <1>2, ClaimTimesTyped DEF ClaimTimes
  <2>2. u <= now /\ (now - u < TTL => seen[j] = u)
    BY <2>1 DEF ClaimsApart, ClaimsRecorded
  <2> QED
    BY <1>0, <2>1, <2>2
<1>3. ReplaySpacing' /\ HoldersApart'
  BY <1>0, <1>1 DEF ClaimsApart, ReplaySpacing, HoldersApart, Holding, Apart
<1> QED
  BY <1>2, <1>3 DEF ClaimsApart, ClaimsRecorded

\* A restart that loses the store loses its history; one that does not keeps both.
LEMMA RestartStep ==
  ASSUME TypeOK, ClaimsApart, Restart
  PROVE  ClaimsApart'
<1>0. now' = now /\ \A r \in Requests : pc'[r] # "binding"
  BY DEF Restart
<1>1. CASE config.backend = "memory"
  <2>1. served' = [j \in Jtis |-> <<>>]
    BY <1>1 DEF Restart
  <2>2. \A j \in Jtis : DOMAIN served'[j] = {}
    BY <2>1
  <2>3. \A j \in Jtis : ServedAt(j)' = {} /\ HoldingAt(j)' = {}
    BY <1>0, <2>2 DEF ServedAt, HoldingAt, Holding
  <2>4. ReplaySpacing'
    BY <2>2 DEF ReplaySpacing
  <2>5. HoldersApart'
    BY <1>0 DEF HoldersApart, Holding
  <2>6. ClaimsRecorded'
    BY <2>3 DEF ClaimsRecorded, ClaimTimes
  <2> QED
    BY <2>4, <2>5, <2>6 DEF ClaimsApart
<1>2. CASE config.backend # "memory"
  BY <1>0, <1>2, ClaimsKept DEF Restart
<1> QED
  BY <1>1, <1>2

\* At first nothing is claimed.
LEMMA InitClaims == ASSUME Init PROVE ClaimsApart
<1>1. \A j \in Jtis : DOMAIN served[j] = {}
  BY DEF Init
<1>2. \A r \in Requests : pc[r] # "binding"
  BY DEF Init
<1>3. \A j \in Jtis : ServedAt(j) = {} /\ HoldingAt(j) = {}
  BY <1>1, <1>2 DEF ServedAt, HoldingAt, Holding
<1>4. ReplaySpacing
  BY <1>1 DEF ReplaySpacing
<1>5. HoldersApart
  BY <1>2 DEF HoldersApart, Holding
<1>6. ClaimsRecorded
  BY <1>3 DEF ClaimsRecorded, ClaimTimes
<1> QED
  BY <1>4, <1>5, <1>6 DEF ClaimsApart

\* Every step keeps claims apart.
LEMMA ClaimsInvariant == ASSUME TypeOK, ClaimsApart, [Next]_vars PROVE ClaimsApart'
<1>1. ASSUME NEW i \in Indices, AdminRevoke(i) PROVE ClaimsApart'
  BY <1>1, ClaimsKept DEF AdminRevoke, nonceVars, reqVars
<1>5. CASE AdminRevokeFails
  BY <1>5, ClaimsKept DEF AdminRevokeFails, nonceVars, reqVars, histVars
<1>2. ASSUME NEW r \in Requests, Step(r) PROVE ClaimsApart'
  <2>1. CASE BlocksAtoD(r) \/ BlockE(r) \/ BlockF(r)
    <3>1. UNCHANGED <<nonceVars, histVars>>
      BY <2>1 DEF BlocksAtoD, BlockE, BlockF
    <3>2. Respond(r) \/ \E stage \in Stages \ {"binding"} : GoTo(r, stage)
      BY <2>1 DEF BlocksAtoD, BlockE, BlockF, RemoteRefuses, Stages
    <3>3. \A s \in Requests : pc'[s] = "binding" =>
             pc[s] = "binding" /\ jti'[s] = jti[s] /\ claimedAt'[s] = claimedAt[s]
      BY <3>2 DEF Respond, GoTo, TypeOK
    <3> QED
      BY <3>1, <3>3, ClaimsKept DEF nonceVars, revVars, histVars
  <2> QED
    BY <1>2, <2>1, ClaimsStep, BindingStep DEF Step
<1>3. ASSUME NEW r \in Requests, NEW j \in Jtis, NEW f \in BOOLEAN,
             NEW rt \in {"middleware", "verify"}, Arrive(r, j, f, rt)
      PROVE  ClaimsApart'
  <2>1. /\ served' = served /\ claimedAt' = claimedAt /\ UNCHANGED nonceVars
        /\ pc' = [pc EXCEPT ![r] = "chain"] /\ jti' = [jti EXCEPT ![r] = j]
    BY <1>3 DEF Arrive
  <2>2. \A s \in Requests : pc'[s] = "binding" =>
             pc[s] = "binding" /\ jti'[s] = jti[s] /\ claimedAt'[s] = claimedAt[s]
    BY <2>1 DEF TypeOK
  <2> QED
    BY <2>1, <2>2, ClaimsKept DEF nonceVars
<1>4. CASE UNCHANGED vars
  BY <1>4, ClaimsKept DEF vars, nonceVars, reqVars, revVars, histVars
<1> QED
  BY <1>1, <1>2, <1>3, <1>4, <1>5, TickStep, RestartStep DEF Next

\* However requests interleave, and with either store, the requests served for
\* one jti claimed it at least a TTL apart.
THEOREM ReplaysApart == Spec => []ReplaySpacing
<1>1. ASSUME TypeOK /\ ClaimsApart, [Next]_vars PROVE (TypeOK /\ ClaimsApart)'
  BY <1>1, TypeStep, ClaimsInvariant
<1>2. TypeOK /\ ClaimsApart => ReplaySpacing
  BY DEF ClaimsApart
<1> QED
  BY <1>1, <1>2, InitTyped, InitClaims, PTL DEF Spec

---------------------------------------------------------------------------
(* Genuine requests *)

\* Every step lets only genuine requests past Blocks A to D.
LEMMA GenuineStep == ASSUME TypeOK, OnlyGenuine, [Next]_vars PROVE OnlyGenuine'
<1>1. CASE ClockTick
  BY <1>1 DEF ClockTick, Tick, reqVars, revVars, histVars, OnlyGenuine
<1>2. CASE Restart
  <2>1. seen' = seen \/ seen' = [j \in Jtis |-> Absent]
    BY <1>2 DEF Restart
  <2>2. presented' = presented /\ \A r \in Requests : pc'[r] = "idle"
    BY <1>2 DEF Restart
  <2> QED
    BY <2>1, <2>2 DEF OnlyGenuine
<1>3. ASSUME NEW i \in Indices, AdminRevoke(i) PROVE OnlyGenuine'
  BY <1>3 DEF AdminRevoke, nonceVars, reqVars, OnlyGenuine
<1>7. CASE AdminRevokeFails
  BY <1>7 DEF AdminRevokeFails, nonceVars, reqVars, histVars, OnlyGenuine
<1>4. ASSUME NEW r \in Requests, Step(r) PROVE OnlyGenuine'
  <2>0. presented' = presented
    BY <1>4 DEF Step, BlocksAtoD, BlockE, BlockF, CheckNonceReplay, CheckRequestBinding,
                Serve, revVars, histVars
  <2>1. CASE BlocksAtoD(r) \/ BlockE(r) \/ BlockF(r)
    <3>1. UNCHANGED nonceVars
      BY <2>1 DEF BlocksAtoD, BlockE, BlockF
    <3>2. \/ Respond(r)
          \/ /\ \E stage \in {"temporal", "revocation", "nonce"} : GoTo(r, stage)
             /\ jti[r] \in presented
      BY <2>1 DEF BlocksAtoD, BlockE, BlockF, RemoteRefuses, OnlyGenuine
    <3> QED
      BY <2>0, <3>1, <3>2 DEF Respond, GoTo, OnlyGenuine, TypeOK, nonceVars
  <2>2. CASE CheckNonceReplay(r)
    <3>1. /\ jti[r] \in Jtis /\ jti[r] \in presented /\ ClaimNonce(jti[r])
      BY <2>2 DEF CheckNonceReplay, OnlyGenuine, TypeOK
    <3>2. \A j \in Jtis : seen'[j] # Absent => j \in presented
      BY <3>1, NonceClaimed DEF OnlyGenuine
    <3>3. \/ Respond(r)
          \/ jti' = jti /\ forged' = forged /\ pc' = [pc EXCEPT ![r] = "binding"]
      BY <2>2 DEF CheckNonceReplay
    <3> QED
      BY <2>0, <3>1, <3>2, <3>3 DEF Respond, OnlyGenuine, TypeOK
  <2>3. CASE CheckRequestBinding(r)
    <3>1. Respond(r) /\ seen' = seen
      BY <2>3 DEF CheckRequestBinding, nonceVars
    <3> QED
      BY <2>0, <3>1 DEF Respond, OnlyGenuine, TypeOK
  <2> QED
    BY <1>4, <2>1, <2>2, <2>3 DEF Step
<1>5. ASSUME NEW r \in Requests, NEW j \in Jtis, NEW f \in BOOLEAN,
             NEW rt \in {"middleware", "verify"}, Arrive(r, j, f, rt)
      PROVE  OnlyGenuine'
  <2>1. /\ pc' = [pc EXCEPT ![r] = "chain"] /\ jti' = [jti EXCEPT ![r] = j]
        /\ forged' = [forged EXCEPT ![r] = f] /\ seen' = seen
        /\ presented \subseteq presented' /\ (~f => j \in presented')
    BY <1>5 DEF Arrive, nonceVars
  <2>2. ASSUME NEW s \in Requests
        PROVE  \/ pc'[s] = "idle"
               \/ pc'[s] = "chain" /\ (~forged'[s] => jti'[s] \in presented')
               \/ pc'[s] \in {"temporal", "revocation", "nonce", "binding"} /\ jti'[s] \in presented'
    BY <2>1 DEF OnlyGenuine, TypeOK
  <2> QED
    BY <2>1, <2>2 DEF OnlyGenuine
<1>6. CASE UNCHANGED vars
  BY <1>6 DEF vars, nonceVars, reqVars, revVars, histVars, OnlyGenuine
<1> QED
  BY <1>1, <1>2, <1>3, <1>4, <1>5, <1>6, <1>7 DEF Next

\* No forged bundle consumes a jti: a live claim is of an invocation that a
\* genuine request presented.
THEOREM NoForgedClaim == Spec => []ForgedNeverBurns
<1>1. ASSUME Init PROVE OnlyGenuine
  BY <1>1 DEF Init, NonceInit, OnlyGenuine
<1>2. ASSUME TypeOK /\ OnlyGenuine, [Next]_vars PROVE (TypeOK /\ OnlyGenuine)'
  BY <1>2, TypeStep, GenuineStep
<1>3. TypeOK /\ OnlyGenuine => ForgedNeverBurns
  BY DEF OnlyGenuine, ForgedNeverBurns, Live
<1> QED
  BY <1>1, <1>2, <1>3, InitTyped, PTL DEF Spec

---------------------------------------------------------------------------
(* Revocation *)

\* Every step keeps what admins were told, and Block F holds requests to it.
LEMMA KnownStep == ASSUME TypeOK, RevocationsKnown, [Next]_vars PROVE RevocationsKnown'
<1>1. CASE ClockTick
  BY <1>1 DEF ClockTick, reqVars, revVars, histVars, RevocationsKnown
<1>2. CASE Restart
  <2>1. everRevoked' \subseteq localRevoked'
    BY <1>2 DEF Restart, RevocationsKnown
  <2> QED
    BY <1>2, <2>1 DEF Restart, RevocationsKnown
<1>3. ASSUME NEW i \in Indices, AdminRevoke(i) PROVE RevocationsKnown'
  BY <1>3 DEF AdminRevoke, reqVars, RevocationsKnown
<1>7. CASE AdminRevokeFails
  BY <1>7 DEF AdminRevokeFails, reqVars, histVars, RevocationsKnown
<1>4. ASSUME NEW r \in Requests, Step(r) PROVE RevocationsKnown'
  <2>0. UNCHANGED <<config, durable, everRevoked, localRevoked>>
    BY <1>4 DEF Step, BlocksAtoD, BlockE, BlockF, CheckNonceReplay, CheckRequestBinding,
                Serve, revVars, histVars
  <2>1. CASE Respond(r)
    BY <2>0, <2>1 DEF Respond, RevocationsKnown, TypeOK
  <2>2. CASE BlocksAtoD(r) /\ ~Respond(r)
    BY <2>0, <2>2 DEF BlocksAtoD, GoTo, RevocationsKnown, TypeOK
  <2>3. CASE BlockE(r) /\ ~Respond(r)
    BY <2>0, <2>3 DEF BlockE, GoTo, RevocationsKnown, TypeOK
  <2>4. CASE BlockF(r) /\ ~Respond(r)
    BY <2>0, <2>4 DEF BlockF, RemoteRefuses, GoTo, RevocationsKnown, TypeOK
  <2>5. CASE CheckNonceReplay(r) /\ ~Respond(r)
    BY <2>0, <2>5 DEF CheckNonceReplay, RevocationsKnown, TypeOK
  <2> QED
    BY <1>4, <2>1, <2>2, <2>3, <2>4, <2>5 DEF Step, CheckRequestBinding
<1>5. ASSUME NEW r \in Requests, NEW j \in Jtis, NEW f \in BOOLEAN,
             NEW rt \in {"middleware", "verify"}, Arrive(r, j, f, rt)
      PROVE  RevocationsKnown'
  BY <1>5 DEF Arrive, revVars, RevocationsKnown, TypeOK
<1>6. CASE UNCHANGED vars
  BY <1>6 DEF vars, reqVars, revVars, histVars, RevocationsKnown
<1> QED
  BY <1>1, <1>2, <1>3, <1>4, <1>5, <1>6, <1>7 DEF Next

\* No request that came after /admin/revoke had answered is served under the
\* revoked index.
THEOREM RevokedRefused == Spec => RevokedNeverServed
<1>1. ASSUME Init PROVE RevocationsKnown
  BY <1>1 DEF Init, RevocationsKnown
<1>2. ASSUME TypeOK /\ RevocationsKnown, [Next]_vars PROVE (TypeOK /\ RevocationsKnown)'
  BY <1>2, TypeStep, KnownStep
<1>3. TypeOK /\ RevocationsKnown /\ [Next]_vars =>
        [\A r \in Requests :
           /\ pc[r] \in {"nonce", "binding"} /\ pc'[r] = "idle"
           /\ served'[jti[r]] # served[jti[r]]
           /\ restarts' = restarts
           => Index[jti[r]] \notin knownRevoked[r]]_vars
  BY DEF RevocationsKnown
<1> QED
  BY <1>1, <1>2, <1>3, InitTyped, PTL DEF Spec, RevokedNeverServed

---------------------------------------------------------------------------
(* The nonce store under the server *)

\* A step of the server is a tick, a restart, a check of one jti, or nothing to
\* the nonce store.
LEMMA NonceSteps ==
  ASSUME TypeOK, [Next]_vars
  PROVE  /\ config' = config
         /\ \/ ClockTick
            \/ Restart
            \/ \E j \in Jtis : ClaimNonce(j)
            \/ UNCHANGED nonceVars
<1>1. ASSUME NEW i \in Indices, AdminRevoke(i) PROVE UNCHANGED <<config, nonceVars>>
  BY <1>1 DEF AdminRevoke
<1>7. CASE AdminRevokeFails
  BY <1>7 DEF AdminRevokeFails
<1>2. ASSUME NEW r \in Requests, Step(r)
      PROVE  config' = config /\ (UNCHANGED nonceVars \/ ClaimNonce(jti[r]))
  BY <1>2 DEF Step, BlocksAtoD, BlockE, BlockF, CheckNonceReplay, CheckRequestBinding
<1>3. ASSUME NEW r \in Requests, NEW j \in Jtis, NEW f \in BOOLEAN,
             NEW rt \in {"middleware", "verify"}, Arrive(r, j, f, rt)
      PROVE  UNCHANGED <<config, nonceVars>>
  BY <1>3 DEF Arrive
<1>4. CASE ClockTick \/ Restart
  BY <1>4 DEF ClockTick, Restart
<1>5. CASE UNCHANGED vars
  BY <1>5 DEF vars
<1>6. \A r \in Requests : jti[r] \in Jtis
  BY DEF TypeOK
<1> QED
  BY <1>1, <1>2, <1>3, <1>4, <1>5, <1>6, <1>7 DEF Next

\* The map that the in-memory store keeps when it has made room for j.
LEMMA Kept ==
  ASSUME TypeOK, NEW j \in Jtis, NEW kept, kept = Evict(Forget(j))
  PROVE  /\ kept \in [Jtis -> Time \cup {Absent}]
         /\ Entries(kept) \subseteq Entries(seen)
         /\ Full(kept) => Entries(kept) \subseteq {k \in Jtis : Live(k)}
         /\ IsFiniteSet(Entries(kept)) /\ IsFiniteSet(Entries(seen))
<1>1. kept \in [Jtis -> Time \cup {Absent}]
  BY DEF Evict, Forget, TypeOK, NonceTypeOK
<1>2. Entries(kept) \subseteq Entries(seen)
  BY DEF Entries, Evict, Forget, TypeOK, NonceTypeOK
<1>3. ASSUME Full(kept) PROVE Entries(kept) \subseteq {k \in Jtis : Live(k)}
  <2>1. Full(Forget(j))
    BY <1>3 DEF Evict
  <2>2. kept = [k \in Jtis |-> IF Expired(Forget(j), k) THEN Absent ELSE Forget(j)[k]]
    BY <2>1 DEF Evict
  <2>3. Forget(j) \in [Jtis -> Time \cup {Absent}] /\ Forget(j) = [seen EXCEPT ![j] = Absent]
    BY DEF Forget, TypeOK, NonceTypeOK
  <2>4. ASSUME NEW k \in Jtis, kept[k] # Absent PROVE Live(k)
    <3>1. ~Expired(Forget(j), k) /\ Forget(j)[k] # Absent
      BY <2>2, <2>4
    <3>2. seen[k] # Absent /\ Forget(j)[k] = seen[k]
      BY <2>3, <3>1 DEF TypeOK, NonceTypeOK
    <3>3. seen[k] \in Time /\ now \in Time
      BY <3>2 DEF TypeOK, NonceTypeOK
    <3> QED
      BY <3>1, <3>2, <3>3 DEF Expired, Live
  <2> QED
    BY <2>4 DEF Entries
<1>4. Entries(kept) \subseteq Jtis /\ Entries(seen) \subseteq Jtis
  BY DEF Entries
<1> QED
  BY <1>1, <1>2, <1>3, <1>4, FS_Subset

\* The in-memory map never outgrows its bound.
THEOREM BoundedMemory == Spec => []MemoryBounded
<1>1. ASSUME Init PROVE MemoryBounded
  <2>1. Entries(seen) = {}
    BY <1>1 DEF Init, NonceInit, Entries
  <2> QED
    BY <2>1, FS_EmptySet DEF MemoryBounded, CapacityBound
<1>2. ASSUME TypeOK, MemoryBounded, [Next]_vars PROVE MemoryBounded'
  <2>1. CASE config.backend # "memory"
    BY <1>2, <2>1, NonceSteps DEF MemoryBounded
  <2>2. CASE config.backend = "memory"
    <3>0. Cardinality(Entries(seen)) <= MaxEntries
      BY <1>2, <2>2 DEF MemoryBounded, CapacityBound
    <3>1. CASE seen' = seen
      BY <3>0, <3>1 DEF MemoryBounded, CapacityBound, Entries
    <3>2. CASE Restart
      <4>1. Entries(seen') = {}
        BY <2>2, <3>2 DEF Restart, Entries
      <4> QED
        BY <4>1, FS_EmptySet DEF MemoryBounded, CapacityBound
    <3>3. ASSUME NEW j \in Jtis, ClaimNonce(j), seen' # seen PROVE MemoryBounded'
      <4>1. PICK kept : kept = Evict(Forget(j))
        OBVIOUS
      <4>2. \/ seen' = kept
            \/ ~Full(kept) /\ seen' = [kept EXCEPT ![j] = now]
        BY <2>2, <3>3, <4>1 DEF ClaimNonce, Check
      <4>3. /\ Cardinality(Entries(kept)) <= Cardinality(Entries(seen))
            /\ Cardinality(Entries(kept)) \in Nat /\ Cardinality(Entries(seen)) \in Nat
            /\ IsFiniteSet(Entries(kept))
        BY <1>2, <4>1, Kept, FS_Subset, FS_CardinalityType
      <4>4. CASE seen' = kept
        <5>1. Cardinality(Entries(seen')) <= MaxEntries
          BY <3>0, <4>3, <4>4
        <5> QED
          BY <5>1 DEF MemoryBounded, CapacityBound
      <4>5. CASE ~Full(kept) /\ seen' = [kept EXCEPT ![j] = now]
        <5>0. kept \in [Jtis -> Time \cup {Absent}] /\ now # Absent
          BY <1>2, <4>1, Kept DEF TypeOK, NonceTypeOK
        <5>1. Entries(seen') = Entries(kept) \cup {j}
          BY <4>5, <5>0 DEF Entries
        <5>2. Cardinality(Entries(kept)) + 1 <= MaxEntries
          BY <4>3, <4>5 DEF Full
        <5>3. \/ Cardinality(Entries(kept) \cup {j}) = Cardinality(Entries(kept))
              \/ Cardinality(Entries(kept) \cup {j}) = Cardinality(Entries(kept)) + 1
          BY <4>3, FS_AddElement, Zenon
        <5>4. Cardinality(Entries(kept) \cup {j}) \in Nat
          BY <4>3, FS_AddElement, FS_CardinalityType
        <5>5. Cardinality(Entries(seen')) <= MaxEntries
          BY <4>3, <5>1, <5>2, <5>3, <5>4
        <5> QED
          BY <5>5 DEF MemoryBounded, CapacityBound
      <4> QED
        BY <4>2, <4>4, <4>5
    <3> QED
      BY <1>2, <3>1, <3>2, <3>3, NonceSteps DEF ClockTick, Tick, nonceVars
  <2> QED
    BY <2>1, <2>2
<1>3. ASSUME TypeOK /\ MemoryBounded, [Next]_vars PROVE (TypeOK /\ MemoryBounded)'
  BY <1>2, <1>3, TypeStep
<1> QED
  BY <1>1, <1>3, InitTyped, PTL DEF Spec

\* No caller is refused for want of room unless maxEntries claims are live.
THEOREM RoomFromExpired == Spec => RefusedOnlyWhenFull
<1>1. ASSUME TypeOK, [Next]_vars, NEW j \in Jtis, config.backend = "memory",
             result' = <<j, "error">>, result' # result
      PROVE  Cardinality({k \in Jtis : Live(k)}) >= MaxEntries
  <2>1. PICK i \in Jtis : ClaimNonce(i)
    BY <1>1, NonceSteps DEF ClockTick, Tick, Restart, nonceVars
  <2>2. Check(i)
    BY <1>1, <2>1 DEF ClaimNonce
  <2>3. PICK kept : kept = Evict(Forget(i))
    OBVIOUS
  <2>4. Full(kept)
    BY <1>1, <2>2, <2>3 DEF Check
  <2>5. IsFiniteSet({k \in Jtis : Live(k)})
    BY FS_Subset
  <2>6. Entries(kept) \subseteq {k \in Jtis : Live(k)}
    BY <1>1, <2>3, <2>4, Kept
  <2>7. /\ Cardinality(Entries(kept)) <= Cardinality({k \in Jtis : Live(k)})
        /\ Cardinality(Entries(kept)) \in Nat
        /\ Cardinality({k \in Jtis : Live(k)}) \in Nat
    BY <2>5, <2>6, FS_Subset, FS_CardinalityType
  <2> QED
    BY <2>4, <2>7 DEF Full
<1>2. TypeOK /\ [Next]_vars =>
        [\A j \in Jtis :
           /\ config.backend = "memory"
           /\ result' = <<j, "error">> /\ result' # result
           => Cardinality({k \in Jtis : Live(k)}) >= MaxEntries]_vars
  BY <1>1
<1> QED
  BY <1>2, TypeCorrect, PTL DEF Spec, RefusedOnlyWhenFull

---------------------------------------------------------------------------
(* The contract of nonce.Checker *)

\* The claims of the contract are the store's entries that have not expired.
LEMMA LiveIsLive ==
  ASSUME TypeOK, NEW j \in Jtis
  PROVE  /\ Redis!Claims!IsLive(j) <=> Live(j)
         /\ Redis!Exists(j) <=> Live(j)
<1>1. Redis!Exists(j) <=> Live(j)
  BY DEF Redis!Exists, Live
<1>2. Live(j) => seen[j] \in 0 .. MaxTime
  BY DEF Live, TypeOK, NonceTypeOK
<1>3. Redis!Claims!IsLive(j) <=> Redis!Exists(j)
  BY <1>1, <1>2 DEF Redis!Claims!IsLive, Redis!LiveClaims
<1> QED
  BY <1>1, <1>3

\* The claims after a check that changes no live entry, except for j's.
LEMMA ClaimsAfter ==
  ASSUME TypeOK, NEW j \in Jtis, now' = now,
         \A k \in Jtis : Live(k) => seen'[k] = seen[k],
         \A k \in Jtis : k # j => seen'[k] = seen[k] \/ seen'[k] = Absent
  PROVE  /\ seen'[j] = now => Redis!LiveClaims' = Redis!LiveClaims \cup {<<j, now>>}
         /\ ~(seen'[j] # Absent /\ now - seen'[j] < TTL) \/ seen'[j] = seen[j] =>
              Redis!LiveClaims' = Redis!LiveClaims
<1> DEFINE Lives(k) == seen'[k] # Absent /\ now - seen'[k] < TTL
<1>1. Redis!LiveClaims' = {<<k, seen'[k]>> : k \in {i \in Jtis : Lives(i)}}
  BY DEF Redis!LiveClaims, Redis!Exists
<1>2. Redis!LiveClaims = {<<k, seen[k]>> : k \in {i \in Jtis : Live(i)}}
  BY DEF Redis!LiveClaims, Redis!Exists, Live
<1>3. \A k \in Jtis \ {j} : /\ Live(k) <=> Lives(k)
                            /\ Live(k) => seen'[k] = seen[k]
  BY DEF Live
<1>4. now \in Int /\ TTL \in Nat \ {0} /\ Absent # now
  BY DEF TypeOK, NonceTypeOK
<1>5. ASSUME seen'[j] = now
      PROVE  Redis!LiveClaims' = Redis!LiveClaims \cup {<<j, now>>}
  <2>1. Lives(j)
    BY <1>4, <1>5
  <2>2. Live(j) => seen[j] = now
    BY <1>5
  <2> HIDE DEF Lives
  <2> QED
    BY <1>1, <1>2, <1>3, <1>5, <2>1, <2>2
<1>6. ASSUME ~Lives(j) \/ seen'[j] = seen[j]
      PROVE  Redis!LiveClaims' = Redis!LiveClaims
  <2>1. /\ Live(j) <=> Lives(j)
        /\ Live(j) => seen'[j] = seen[j]
    BY <1>6 DEF Live
  <2> HIDE DEF Lives
  <2> QED
    BY <1>1, <1>2, <1>3, <2>1
<1> QED
  BY <1>5, <1>6

\* A check of the in-memory store is a step of the contract.
LEMMA MemoryCheck ==
  ASSUME TypeOK, NEW j \in Jtis, config.backend = "memory", ClaimNonce(j)
  PROVE  Redis!Claims!Next
<1>0. Check(j) /\ now' = now
  BY DEF ClaimNonce, Check
<1>1. CASE Live(j)
  <2>1. result' = <<j, "replay">> /\ seen' = seen
    BY <1>0, <1>1 DEF Check
  <2>2. Redis!LiveClaims' = Redis!LiveClaims
    BY <1>0, <2>1, ClaimsAfter
  <2>3. Redis!Claims!Refuse(j)
    BY <1>0, <1>1, <2>1, <2>2, LiveIsLive DEF Redis!Claims!Refuse
  <2> QED
    BY <2>3 DEF Redis!Claims!Next
<1>2. CASE ~Live(j)
  <2>0. PICK kept : kept = Evict(Forget(j))
    OBVIOUS
  <2>1. \/ result' = <<j, "error">> /\ seen' = kept
        \/ result' = <<j, "ok">> /\ seen' = [kept EXCEPT ![j] = now]
    BY <1>0, <1>2, <2>0 DEF Check
  <2>2. kept \in [Jtis -> Time \cup {Absent}]
    BY <2>0, Kept
  <2>3. Forget(j) \in [Jtis -> Time \cup {Absent}] /\ Forget(j) = [seen EXCEPT ![j] = Absent]
    BY DEF Forget, TypeOK, NonceTypeOK
  <2>4. \A k \in Jtis : kept[k] = Forget(j)[k] \/ kept[k] = Absent
    BY <2>0, <2>3 DEF Evict
  <2>5. kept[j] = Absent /\ \A k \in Jtis : k # j => kept[k] = seen[k] \/ kept[k] = Absent
    BY <2>3, <2>4 DEF TypeOK, NonceTypeOK
  <2>6. \A k \in Jtis : Live(k) => seen'[k] = seen[k]
    BY NonceClaimed
  <2>7. CASE result' = <<j, "error">> /\ seen' = kept
    <3>1. Redis!LiveClaims' = Redis!LiveClaims
      BY <1>0, <2>5, <2>6, <2>7, ClaimsAfter
    <3>2. Redis!Claims!Fail(j)
      BY <1>0, <2>7, <3>1 DEF Redis!Claims!Fail
    <3> QED
      BY <3>2 DEF Redis!Claims!Next
  <2>8. CASE result' = <<j, "ok">> /\ seen' = [kept EXCEPT ![j] = now]
    <3>1. seen'[j] = now /\ \A k \in Jtis : k # j => seen'[k] = seen[k] \/ seen'[k] = Absent
      BY <2>2, <2>5, <2>8
    <3>2. Redis!LiveClaims' = Redis!LiveClaims \cup {<<j, now>>}
      BY <1>0, <2>6, <3>1, ClaimsAfter
    <3>3. Redis!Claims!Claim(j)
      BY <1>0, <1>2, <2>8, <3>2, LiveIsLive DEF Redis!Claims!Claim
    <3> QED
      BY <3>3 DEF Redis!Claims!Next
  <2> QED
    BY <2>1, <2>7, <2>8
<1> QED
  BY <1>1, <1>2

\* So is one of the Redis store, lost replies included.
LEMMA RedisCheck ==
  ASSUME TypeOK, NEW j \in Jtis, config.backend # "memory", ClaimNonce(j)
  PROVE  Redis!Claims!Next
<1>0. Redis!Check(j) /\ now' = now
  BY DEF ClaimNonce, Redis!Check
<1>1. \/ seen' = seen /\ result' = <<j, "error">>
      \/ seen' = seen /\ Live(j) /\ result' = <<j, "replay">>
      \/ /\ ~Live(j) /\ seen' = [seen EXCEPT ![j] = now]
         /\ result' \in {<<j, "ok">>, <<j, "error">>}
  BY <1>0, LiveIsLive DEF Redis!Check, Redis!SetNX
<1>2. CASE seen' = seen
  <2>1. Redis!LiveClaims' = Redis!LiveClaims
    BY <1>0, <1>2, ClaimsAfter
  <2>2. CASE result' = <<j, "error">>
    <3>1. Redis!Claims!Fail(j)
      BY <1>0, <2>1, <2>2 DEF Redis!Claims!Fail
    <3> QED
      BY <3>1 DEF Redis!Claims!Next
  <2>3. CASE Live(j) /\ result' = <<j, "replay">>
    <3>1. Redis!Claims!Refuse(j)
      BY <1>0, <2>1, <2>3, LiveIsLive DEF Redis!Claims!Refuse
    <3> QED
      BY <3>1 DEF Redis!Claims!Next
  <2>4. CASE ~Live(j) /\ seen' = [seen EXCEPT ![j] = now]
    <3>1. seen[j] = now /\ now \in Int /\ Absent # now
      BY <1>2, <2>4 DEF TypeOK, NonceTypeOK
    <3> QED
      BY <2>4, <3>1 DEF Live
  <2> QED
    BY <1>1, <2>2, <2>3, <2>4
<1>3. CASE /\ ~Live(j) /\ seen' = [seen EXCEPT ![j] = now]
           /\ result' \in {<<j, "ok">>, <<j, "error">>}
  <2>1. /\ seen'[j] = now /\ \A k \in Jtis : k # j => seen'[k] = seen[k]
        /\ \A k \in Jtis : Live(k) => seen'[k] = seen[k]
    BY <1>3 DEF TypeOK, NonceTypeOK
  <2>2. Redis!LiveClaims' = Redis!LiveClaims \cup {<<j, now>>}
    BY <1>0, <2>1, ClaimsAfter
  <2>3. ~Redis!Claims!IsLive(j)
    BY <1>3, LiveIsLive
  <2>4. Redis!Claims!Claim(j) \/ Redis!Claims!Fail(j)
    BY <1>0, <1>3, <2>2, <2>3 DEF Redis!Claims!Claim, Redis!Claims!Fail
  <2> QED
    BY <2>4 DEF Redis!Claims!Next
<1> QED
  BY <1>1, <1>2, <1>3

\* Claims of the contract die of age, as the store's entries do.
LEMMA TickOfClaims ==
  ASSUME TypeOK, ClockTick
  PROVE  Redis!Claims!Next
<1>0. now < MaxTime /\ now' = now + 1 /\ seen' = seen /\ result' = result
  BY DEF ClockTick, Tick
<1>1. now \in Int /\ \A k \in Jtis : seen[k] # Absent => seen[k] \in Int
  BY DEF TypeOK, NonceTypeOK
<1>2. \A k \in Jtis : Redis!Exists(k)' <=> Redis!Exists(k) /\ now' - seen[k] < TTL
  BY <1>0, <1>1 DEF Redis!Exists
<1>3. Redis!LiveClaims' = {<<k, seen[k]>> : k \in {i \in Jtis : Redis!Exists(i)'}}
  BY <1>0 DEF Redis!LiveClaims
<1>4. Redis!LiveClaims' = {c \in Redis!LiveClaims : now' - c[2] < TTL}
  BY <1>2, <1>3 DEF Redis!LiveClaims
<1>5. Redis!Claims!Tick
  BY <1>0, <1>4 DEF Redis!Claims!Tick
<1> QED
  BY <1>5 DEF Redis!Claims!Next

\* The nonce store of the running service implements the contract of
\* nonce.Checker, with either backend; with Redis across restarts as well.
THEOREM KeepsContract == Spec => ImplementsClaims
<1>1. ASSUME TypeOK, [Next]_vars, config.backend = "redis" \/ restarts' = restarts
      PROVE  [Redis!Claims!Next]_<<now, Redis!LiveClaims, result>>
  <2>1. CASE ClockTick
    BY <1>1, <2>1, TickOfClaims
  <2>2. ASSUME NEW j \in Jtis, ClaimNonce(j)
        PROVE  [Redis!Claims!Next]_<<now, Redis!LiveClaims, result>>
    BY <1>1, <2>2, MemoryCheck, RedisCheck
  <2>3. CASE UNCHANGED nonceVars
    BY <2>3 DEF nonceVars, Redis!LiveClaims, Redis!Exists
  <2>4. CASE Restart
    <3>1. restarts' # restarts
      BY <1>1, <2>4 DEF Restart, TypeOK
    <3>2. UNCHANGED nonceVars
      BY <1>1, <2>4, <3>1 DEF Restart, nonceVars
    <3> QED
      BY <2>3, <3>2
  <2> QED
    BY <1>1, <2>1, <2>2, <2>3, <2>4, NonceSteps
<1>2. TypeOK /\ [Next]_vars =>
        [config.backend = "redis" \/ restarts' = restarts =>
           [Redis!Claims!Next]_<<now, Redis!LiveClaims, result>>]_vars
  BY <1>1
<1> QED
  BY <1>2, TypeCorrect, PTL DEF Spec, ImplementsClaims
=============================================================================
