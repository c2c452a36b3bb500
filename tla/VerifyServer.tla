---------------------------- MODULE VerifyServer ----------------------------
(***************************************************************************)
(* The request path of drs-verify, composed with a nonce store and the     *)
(* operator's local revocations: many requests in flight, the clock, the   *)
(* admin endpoint and restarts of the process.                             *)
(*                                                                         *)
(* A request presents one invocation, named by its jti.  verify.Chain      *)
(* reads the clock once (Block E), then the revocation state (Block F),    *)
(* then stores the receipts, which can take a TSA round trip per receipt;  *)
(* only after it returns is the jti claimed.  Time, other requests and an  *)
(* admin revocation can all come in between.                               *)
(***************************************************************************)
EXTENDS NonceStore, Sequences

CONSTANTS Requests,     \* request goroutines
          Iat,          \* the iat of each invocation
          Nbf, Exp,     \* the window in which its receipts are all valid
          NoExp,        \* receipts without exp
          Index,        \* the status list index of its receipts
          NoIndex,      \* receipts without one
          Skew,         \* invocationClockSkew
          Configs,      \* the configurations to consider
          MaxRestarts   \* bound on restarts

Indices == {Index[j] : j \in Jtis} \ {NoIndex}

\* NonceStoreBackend, BindingMode, and whether REVOCATION_STORE_PATH is set.
AllConfigs == [backend : {"memory", "redis"},
               binding : {"off", "lenient", "enforced"},
               persist : BOOLEAN]

ASSUME VerifyServerConstants ==
  /\ Jtis # {}
  /\ Iat \in [Jtis -> Int]
  /\ Nbf \in [Jtis -> Int]
  /\ Exp \in [Jtis -> Int \cup {NoExp}]
  /\ Skew \in Nat
  /\ Configs \subseteq AllConfigs
  /\ MaxRestarts \in Nat

VARIABLES config,        \* read once, at start-up
          pc,            \* where each request is
          jti,           \* the invocation it presents
          forged,        \* does the bundle fail one of Blocks A to D?
          route,         \* "middleware" (MCP, A2A) or "verify" (POST /verify)
          claimedAt,     \* when it claimed its jti
          localRevoked,  \* the local revocation store
          durable,       \* those of it whose lines began a line of its file
          atLineStart,   \* the next line appended does so, too
          restarts,
          \* history
          knownRevoked,  \* indices revoked by an admin when the request came
          everRevoked,   \* indices whose revocation the admin was told of
          presented,     \* invocations some genuine request presented
          served         \* claim times of the requests served, per jti

reqVars  == <<pc, jti, forged, route, claimedAt, knownRevoked>>
revVars  == <<localRevoked, durable, atLineStart>>
histVars == <<everRevoked, presented, served>>
vars     == <<config, nonceVars, reqVars, revVars, restarts, histVars>>

Redis == INSTANCE RedisStore

Stages == {"idle", "chain", "temporal", "revocation", "nonce", "binding"}

TypeOK ==
  /\ config \in Configs
  /\ NonceTypeOK
  /\ pc \in [Requests -> Stages]
  /\ jti \in [Requests -> Jtis]
  /\ forged \in [Requests -> BOOLEAN]
  /\ route \in [Requests -> {"middleware", "verify"}]
  /\ claimedAt \in [Requests -> Time]
  /\ knownRevoked \in [Requests -> SUBSET Indices]
  /\ localRevoked \subseteq Indices
  /\ durable \subseteq Indices
  /\ atLineStart \in BOOLEAN
  /\ everRevoked \subseteq Indices
  /\ presented \subseteq Jtis
  /\ restarts \in 0 .. MaxRestarts
  /\ served \in [Jtis -> Seq(Time)]

\* What the slot of an ended request names; nothing reads it.
NoJti == CHOOSE j \in Jtis : TRUE

Init ==
  /\ config \in Configs
  /\ NonceInit
  /\ pc = [r \in Requests |-> "idle"]
  /\ jti = [r \in Requests |-> NoJti]
  /\ forged = [r \in Requests |-> FALSE]
  /\ route = [r \in Requests |-> "verify"]
  /\ claimedAt = [r \in Requests |-> 0]
  /\ knownRevoked = [r \in Requests |-> {}]
  /\ localRevoked = {} /\ durable = {} /\ atLineStart = TRUE
  /\ restarts = 0
  /\ everRevoked = {}
  /\ presented = {}
  /\ served = [j \in Jtis |-> <<>>]

---------------------------------------------------------------------------
(* Steps of a request *)

\* The handler writes its response and ends.
Respond(r) ==
  /\ pc' = [pc EXCEPT ![r] = "idle"]
  /\ jti' = [jti EXCEPT ![r] = NoJti]
  /\ forged' = [forged EXCEPT ![r] = FALSE]
  /\ route' = [route EXCEPT ![r] = "verify"]
  /\ claimedAt' = [claimedAt EXCEPT ![r] = 0]
  /\ knownRevoked' = [knownRevoked EXCEPT ![r] = {}]

GoTo(r, stage) ==
  /\ pc' = [pc EXCEPT ![r] = stage]
  /\ UNCHANGED <<jti, forged, route, claimedAt, knownRevoked>>

\* Next.ServeHTTP runs, or /verify answers valid.
Serve(r, at) ==
  /\ served' = [served EXCEPT ![jti[r]] = Append(@, at)]
  /\ UNCHANGED <<everRevoked, presented>>

\* A request arrives with a bundle that could be decoded.
Arrive(r, j, f, rt) ==
  /\ pc[r] = "idle"
  /\ pc' = [pc EXCEPT ![r] = "chain"]
  /\ jti' = [jti EXCEPT ![r] = j]
  /\ forged' = [forged EXCEPT ![r] = f]
  /\ route' = [route EXCEPT ![r] = rt]
  /\ knownRevoked' = [knownRevoked EXCEPT ![r] = everRevoked]
  /\ presented' = IF f THEN presented ELSE presented \cup {j}
  /\ UNCHANGED <<config, nonceVars, claimedAt, revVars, restarts, everRevoked, served>>

\* Mutant: the nonce is committed whether or not the chain is valid.
CommitFirst(r) ==
  /\ pc[r] = "chain"
  /\ GoTo(r, IF forged[r] THEN "nonce" ELSE "temporal")
  /\ UNCHANGED <<config, nonceVars, revVars, restarts, histVars>>

\* Blocks A to D: structure, signatures, policy.  A genuine bundle can fail
\* too, for instance when a did:web issuer cannot be resolved.
BlocksAtoD(r) ==
  /\ pc[r] = "chain"
  /\ \/ Respond(r)
     \/ ~forged[r] /\ GoTo(r, "temporal")
  /\ UNCHANGED <<config, nonceVars, revVars, restarts, histVars>>

\* MaxInvocationAge is the nonce store's TTL.
InvocationFresh(j) == Iat[j] <= now + Skew /\ now - Iat[j] <= TTL
ReceiptsValid(j)   == now >= Nbf[j] /\ (Exp[j] # NoExp => now <= Exp[j])

BlockE(r) ==
  /\ pc[r] = "temporal"
  /\ IF InvocationFresh(jti[r]) /\ ReceiptsValid(jti[r])
     THEN GoTo(r, "revocation")
     ELSE Respond(r)
  /\ UNCHANGED <<config, nonceVars, revVars, restarts, histVars>>

\* The issuer's status list (module StatusCache) says revoked or cannot be read.
RemoteRefuses(r) == Index[jti[r]] # NoIndex /\ Respond(r)

\* Mutant: local revocations are not consulted.
BlockFRemoteOnly(r) ==
  /\ pc[r] = "revocation"
  /\ RemoteRefuses(r) \/ GoTo(r, "nonce")
  /\ UNCHANGED <<config, nonceVars, revVars, restarts, histVars>>

\* Block F: the status list, then the operator's revocations.  Until the jti is
\* claimed, Chain stores the receipts; a failure of the store is only a warning.
BlockF(r) ==
  /\ pc[r] = "revocation"
  /\ \/ RemoteRefuses(r)
     \/ Index[jti[r]] \in localRevoked /\ Respond(r)
     \/ Index[jti[r]] \notin localRevoked /\ GoTo(r, "nonce")
  /\ UNCHANGED <<config, nonceVars, revVars, restarts, histVars>>

ClaimNonce(j) == IF config.backend = "memory" THEN Check(j) ELSE Redis!Check(j)

\* Mutant: only a replay is refused; an error of the store is let pass.
NonceFailsOpen(r) ==
  /\ pc[r] = "nonce"
  /\ ClaimNonce(jti[r])
  /\ IF result'[2] = "replay"
     THEN Respond(r) /\ UNCHANGED histVars
     ELSE Respond(r) /\ Serve(r, now)
  /\ UNCHANGED <<config, revVars, restarts>>

\* Mutant: the request remembers when its claim ends.
ClaimEndKept(r) ==
  /\ pc[r] = "nonce"
  /\ ClaimNonce(jti[r])
  /\ IF result'[2] # "ok"
     THEN Respond(r)
     ELSE /\ pc' = [pc EXCEPT ![r] = "binding"]
          /\ claimedAt' = [claimedAt EXCEPT ![r] = now + TTL]
          /\ UNCHANGED <<jti, forged, route, knownRevoked>>
  /\ UNCHANGED <<config, revVars, restarts, histVars>>

\* CheckNonceReplay: a replay is answered 409, any other error 503.
CheckNonceReplay(r) ==
  /\ pc[r] = "nonce"
  /\ ClaimNonce(jti[r])
  /\ \/ result'[2] # "ok" /\ Respond(r) /\ UNCHANGED histVars
     \/ result'[2] = "ok" /\ route[r] = "verify" /\ Respond(r) /\ Serve(r, now)
     \/ /\ result'[2] = "ok" /\ route[r] = "middleware"
        /\ pc' = [pc EXCEPT ![r] = "binding"]
        /\ claimedAt' = [claimedAt EXCEPT ![r] = now]
        /\ UNCHANGED <<jti, forged, route, knownRevoked, histVars>>
  /\ UNCHANGED <<config, revVars, restarts>>

\* checkRequestBinding: an unreadable body is refused unless the mode is off,
\* a mismatch only when it is enforced.  The jti stays claimed.
CheckRequestBinding(r) ==
  /\ pc[r] = "binding"
  /\ \/ Serve(r, claimedAt[r])
     \/ config.binding # "off" /\ UNCHANGED histVars
  /\ Respond(r)
  /\ UNCHANGED <<config, nonceVars, revVars, restarts>>

---------------------------------------------------------------------------
(* The environment *)

\* AdminRevokeHandler answers 200.  With a file, a line has been appended and
\* synced; it joins what an append that failed may have left (RevocationFile).
AdminRevoke(i) ==
  /\ localRevoked' = localRevoked \cup {i}
  /\ durable' = IF config.persist /\ atLineStart THEN durable \cup {i} ELSE durable
  /\ atLineStart' = TRUE
  /\ everRevoked' = everRevoked \cup {i}
  /\ UNCHANGED <<config, nonceVars, reqVars, restarts, presented, served>>

\* The append or the fsync fails, which is answered 500: the set is left alone,
\* the file ends anywhere in the line.
AdminRevokeFails ==
  /\ config.persist
  /\ atLineStart' \in BOOLEAN
  /\ UNCHANGED <<config, nonceVars, reqVars, localRevoked, durable, restarts, histVars>>

\* The process is killed and started again: requests in flight are lost, and
\* so is what was only in memory.  The history of a lost store ends with it.
\* The file gives back the whole lines that were synced, and may give back
\* anything of calls that failed or were never answered.
Restart ==
  /\ restarts < MaxRestarts
  /\ restarts' = restarts + 1
  /\ pc' = [r \in Requests |-> "idle"]
  /\ jti' = [r \in Requests |-> NoJti]
  /\ forged' = [r \in Requests |-> FALSE]
  /\ route' = [r \in Requests |-> "verify"]
  /\ claimedAt' = [r \in Requests |-> 0]
  /\ knownRevoked' = [r \in Requests |-> {}]
  /\ IF config.backend = "memory"
     THEN seen' = [j \in Jtis |-> Absent] /\ served' = [j \in Jtis |-> <<>>]
     ELSE UNCHANGED <<seen, served>>
  /\ everRevoked' = durable
  /\ IF config.persist
     THEN /\ \E read \in SUBSET Indices : localRevoked' = durable \cup read
          /\ atLineStart' \in BOOLEAN
     ELSE localRevoked' = {} /\ UNCHANGED atLineStart
  /\ UNCHANGED <<config, now, result, durable, presented>>

ClockTick == Tick /\ UNCHANGED <<config, reqVars, revVars, restarts, histVars>>

---------------------------------------------------------------------------
Step(r) ==
  \/ BlocksAtoD(r) \/ BlockE(r) \/ BlockF(r)
  \/ CheckNonceReplay(r) \/ CheckRequestBinding(r)

Next ==
  \/ ClockTick
  \/ Restart
  \/ AdminRevokeFails
  \/ \E i \in Indices : AdminRevoke(i)
  \/ \E r \in Requests :
       \/ Step(r)
       \/ \E j \in Jtis, f \in BOOLEAN, rt \in {"middleware", "verify"} :
            Arrive(r, j, f, rt)

Spec == Init /\ [][Next]_vars

---------------------------------------------------------------------------
(* Properties *)

\* Replay protection end to end: requests served for one jti claimed it at
\* least one TTL apart, however requests interleave and whichever of the two
\* stores is used; with Redis, across restarts as well.
ReplaySpacing ==
  \A j \in Jtis : \A a, b \in DOMAIN served[j] :
    a < b => \/ served[j][a] - served[j][b] >= TTL
             \/ served[j][b] - served[j][a] >= TTL

\* "Verify first, commit nonce only on a valid chain": a forged bundle that
\* names a jti never consumes it, so a claim is live only if some genuine
\* request presented that jti.
ForgedNeverBurns == \A j \in Jtis : Live(j) => j \in presented

\* After /admin/revoke has answered, no request that comes in later is served
\* under the revoked index; with REVOCATION_STORE_PATH set, not even after a
\* restart, unless its line was appended to one that an earlier failure had cut
\* (AckedIsDurable of RevocationFile).  Requests already past Block F may still
\* be served.
RevokedNeverServed ==
  [][\A r \in Requests :
       /\ pc[r] \in {"nonce", "binding"} /\ pc'[r] = "idle"
       /\ served'[jti[r]] # served[jti[r]]
       /\ restarts' = restarts
       => Index[jti[r]] \notin knownRevoked[r]]_vars

\* The nonce store of the running service keeps the Checker contract of
\* NonceClaims, whichever backend it is: the lazily expiring map at capacity, or
\* Redis with lost replies.  Every step of the server is a step of the contract
\* or leaves its claims alone; with Redis, restarts included.
ImplementsClaims ==
  [][config.backend = "redis" \/ restarts' = restarts =>
       [Redis!Claims!Next]_<<now, Redis!LiveClaims, result>>]_vars

\* However long the traffic, the in-memory map never outgrows maxEntries.
MemoryBounded == config.backend = "memory" => CapacityBound

\* The in-memory store refuses a claim for want of room only when maxEntries
\* claims are live: lazily kept expired entries never cost a caller its request.
RefusedOnlyWhenFull ==
  [][\A j \in Jtis :
       /\ config.backend = "memory"
       /\ result' = <<j, "error">> /\ result' # result
       => Cardinality({k \in Jtis : Live(k)}) >= MaxEntries]_vars

\* "rejecting stale invocations closes that window" (Deps.MaxInvocationAge):
\* once a jti has been evicted, the invocation is too old to be accepted again.
AcceptedOnce == \A j \in Jtis : Len(served[j]) <= 1

---------------------------------------------------------------------------
(* Inductive invariants: ClaimsApart for ReplaySpacing, OnlyGenuine for      *)
(* ForgedNeverBurns, RevocationsKnown for RevokedNeverServed.                *)

\* A request between its claim and its response.
Holding(r, j) == pc[r] = "binding" /\ jti[r] = j

\* The times at which a request that was served, or may yet be, claimed j.
ServedAt(j)   == {served[j][n] : n \in DOMAIN served[j]}
HoldingAt(j)  == {claimedAt[r] : r \in {s \in Requests : Holding(s, j)}}
ClaimTimes(j) == ServedAt(j) \cup HoldingAt(j)

\* No claim is from the future, and one younger than TTL is the store's entry.
ClaimsRecorded ==
  \A j \in Jtis : \A t \in ClaimTimes(j) : t <= now /\ (now - t < TTL => seen[j] = t)

Apart(t, u) == t - u >= TTL \/ u - t >= TTL

\* A request that has claimed is as far from the others as the served are.
HoldersApart ==
  \A r \in Requests : \A j \in Jtis : Holding(r, j) =>
    /\ \A t \in ServedAt(j) : Apart(claimedAt[r], t)
    /\ \A s \in Requests \ {r} : Holding(s, j) => Apart(claimedAt[r], claimedAt[s])

\* Past Blocks A to D every request is genuine, and only such requests claim.
OnlyGenuine ==
  /\ \A r \in Requests :
       \/ pc[r] = "idle"
       \/ pc[r] = "chain" /\ (~forged[r] => jti[r] \in presented)
       \/ pc[r] \in {"temporal", "revocation", "nonce", "binding"} /\ jti[r] \in presented
  /\ \A j \in Jtis : seen[j] # Absent => j \in presented

\* What an admin was told is revoked is in the store, without a file nothing is
\* durable, and past Block F no request is under an index that was revoked when
\* it came.
RevocationsKnown ==
  /\ config.persist \/ durable = {}
  /\ everRevoked \subseteq localRevoked
  /\ \A r \in Requests :
       /\ knownRevoked[r] \subseteq everRevoked
       /\ pc[r] \in {"nonce", "binding"} => Index[jti[r]] \notin knownRevoked[r]

ClaimsApart == ReplaySpacing /\ ClaimsRecorded /\ HoldersApart
============================================================================
