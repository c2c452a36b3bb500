------------------------------ MODULE Service ------------------------------
(***************************************************************************)
(* The front of drs-verify: the process main runs, the two rate limiters   *)
(* every request goes through, the admin endpoint's nested in everybody's, *)
(* with many requests in flight, clients that send any X-Forwarded-For     *)
(* they like, and the signal that ends it all.  What a handler does is in  *)
(* VerifyServer and ChainCalls; here it runs and ends.                     *)
(***************************************************************************)
EXTENDS RateLimiter, Process

CONSTANTS Clients,      \* addresses of clients
          Admins,       \* those that call /admin/revoke as well
          Proxy,        \* the address of the reverse proxy, when there is one
          Requests,     \* request goroutines
          PerIPRPS, GlobalRPS,             \* RATE_LIMIT_PER_IP, RATE_LIMIT_GLOBAL
          adminPerIPRPS, adminGlobalRPS

ASSUME ServiceConstants ==
  /\ {PerIPRPS, GlobalRPS, adminPerIPRPS, adminGlobalRPS} \subseteq Nat
  /\ Proxy \notin Clients /\ Admins \subseteq Clients
  /\ IsFiniteSet(Requests)
  /\ Ids = 1 .. CacheSize + Cardinality(Requests)

VARIABLES lim,     \* rateLimiter and adminLimiter
          req,     \* the requests
          \* history, in Token-ths of a request, per limiter
          drawn,   \* what each client was let at the shared bucket, beyond its rate
          passed,  \* what went past the limiter, beyond the shared rate
          dropped  \* clients whose bucket the cache has dropped

frontVars == <<lim, req, drawn, passed, dropped>>
vars      == <<processVars, frontVars>>

Limiters == {"main", "admin"}
Paths    == {"/verify", "/admin/revoke"}

\* No request.
Idle == [pc |-> "idle", client |-> Proxy, ip |-> Proxy, path |-> "/verify",
         at |-> "main", ref |-> 0]

TypeOK ==
  /\ ProcessTypeOK
  /\ \A l \in Limiters :
       /\ lim[l].global \in 0 .. GlobalBurst(lim[l].globalRate)
       /\ \A i \in Ids : lim[l].bucket[i] \in 0 .. IPBurst(lim[l].perIPRate)
       /\ Len(lim[l].perIP) <= CacheSize
  /\ req \in [Requests -> [pc : {"idle", "ip", "global", "past"},
                           client : Clients \cup {Proxy}, ip : Clients \cup {Proxy},
                           path : Paths, at : Limiters, ref : Ids \cup {0}]]

\* What a process starts with, and leaves nothing of.
Fresh(l) == IF l = "main" THEN NewRateLimiter(PerIPRPS, GlobalRPS)
                          ELSE NewRateLimiter(adminPerIPRPS, adminGlobalRPS)

NoDraws == [l \in Limiters |-> [c \in Clients |-> 0]]

Init ==
  /\ ProcessInit
  /\ lim = [l \in Limiters |-> Fresh(l)]
  /\ req = [r \in Requests |-> Idle]
  /\ drawn = NoDraws
  /\ passed = [l \in Limiters |-> 0]
  /\ dropped = [l \in Limiters |-> {}]

InFlight == {r \in Requests : req[r].pc # "idle"}

\* Buckets of limiter l that a request in flight refers to.
Held(l) == {req[r].ref : r \in {s \in InFlight : req[s].at = l}}

\* TRUST_PROXY is set only behind a proxy that appends the client's address.
Remote(c)      == IF env.trustProxy THEN Proxy ELSE c
Header(c, says) == IF env.trustProxy THEN Append(says, c) ELSE says

---------------------------------------------------------------------------
(* Steps of a request.  Each limiter is consulted under locks of its own, so *)
(* requests interleave between any two of these.                             *)

Respond(r) == req' = [req EXCEPT ![r] = Idle]

\* q enters the Middleware of limiter l: it is given the bucket of its address.
Enter(r, l, q) ==
  LET out == Evicts(lim[l], q.ip) IN
  /\ lim' = [lim EXCEPT ![l] = GetOrCreate(@, q.ip, Held(l))]
  /\ req' = [req EXCEPT ![r] = [q EXCEPT !.pc = "ip", !.at = l,
                                         !.ref = Given(lim[l], q.ip, Held(l))]]
  /\ dropped' = [dropped EXCEPT ![l] = @ \cup out]
  /\ drawn' = [drawn EXCEPT ![l] = [c \in Clients |-> IF c \in out THEN 0 ELSE @[c]]]

\* A request that is not a health probe; says is the header the client sent.
Arrive(r, c, path, says) ==
  /\ Accepting
  /\ path = "/admin/revoke" => c \in Admins
  /\ req[r].pc = "idle"
  /\ Enter(r, "main",
       [Idle EXCEPT !.client = c, !.path = path,
          !.ip = clientIP(env.trustProxy, Header(c, says), Remote(c), Clients \cup {Proxy})])
  /\ UNCHANGED <<processVars, passed>>

\* A request of c may now take from the shared bucket of l.  (The account of a
\* client the cache has dropped is closed.)
Charge(l, c) ==
  drawn' = IF c \in dropped[l] THEN drawn ELSE [drawn EXCEPT ![l][c] = @ + Token]

\* limiter.Allow(): 429 when the client's own bucket is empty.
AllowIP(r) ==
  LET l == req[r].at IN
  /\ Running /\ req[r].pc = "ip"
  /\ IF IPAllows(lim[l], req[r].ref)
     THEN /\ lim' = [lim EXCEPT ![l] = TakeIP(@, req[r].ref)]
          /\ Charge(l, req[r].client)
          /\ req' = [req EXCEPT ![r].pc = "global"]
     ELSE Respond(r) /\ UNCHANGED <<lim, drawn>>
  /\ UNCHANGED <<processVars, passed, dropped>>

\* rl.global.Allow(): 429 when the shared bucket is empty; the client's own
\* token is spent all the same.
AllowGlobal(r) ==
  LET l == req[r].at IN
  /\ Running /\ req[r].pc = "global"
  /\ IF GlobalAllows(lim[l])
     THEN /\ lim' = [lim EXCEPT ![l] = TakeGlobal(@)]
          /\ passed' = [passed EXCEPT ![l] = @ + Token]
          /\ req' = [req EXCEPT ![r].pc = "past", ![r].ref = 0]
     ELSE Respond(r) /\ UNCHANGED <<lim, passed>>
  /\ UNCHANGED <<processVars, drawn, dropped>>

\* The mux leads /admin/revoke to a limiter of its own.
ToAdmin(r) ==
  /\ Running /\ req[r].pc = "past"
  /\ req[r].path = "/admin/revoke" /\ req[r].at = "main"
  /\ Enter(r, "admin", req[r])
  /\ UNCHANGED <<processVars, passed>>

\* The handler runs, and ends.
Handle(r) ==
  /\ Running /\ req[r].pc = "past"
  /\ req[r].path = "/admin/revoke" => req[r].at = "admin"
  /\ Respond(r)
  /\ UNCHANGED <<processVars, lim, drawn, passed, dropped>>

---------------------------------------------------------------------------
(* The process, with the requests it carries *)

\* An ended process takes its requests and its limiters with it.
Carry ==
  IF exit' = "running"
  THEN UNCHANGED frontVars
  ELSE /\ req' = [r \in Requests |-> Idle]
       /\ lim' = [l \in Limiters |-> Fresh(l)]
       /\ drawn' = NoDraws
       /\ passed' = [l \in Limiters |-> 0]
       /\ dropped' = [l \in Limiters |-> {}]

Main     == MainSteps(InFlight) /\ Carry
Deadline == ShutdownDeadline(InFlight) /\ Carry
Serving  == (Bind \/ ServeFails \/ ServeClosed) /\ Carry
OSSignal == Signal /\ Carry

\* A handler of /verify panics in a goroutine that resolves an issuer.  (One in
\* the handler's own goroutine is recovered by net/http, and ends like Handle.)
Panic(r) ==
  /\ req[r].pc = "past" /\ req[r].path = "/verify"
  /\ GoroutinePanics
  /\ Carry

\* A second passes: buckets refill, and so do the accounts.
Tick ==
  /\ Running /\ serve # "none"
  /\ lim' = [l \in Limiters |-> Refill(lim[l])]
  /\ drawn' = [l \in Limiters |->
                 [c \in Clients |-> Max({0, drawn[l][c] - lim[l].perIPRate})]]
  /\ passed' = [l \in Limiters |-> Max({0, passed[l] - lim[l].globalRate})]
  /\ UNCHANGED <<processVars, req, dropped>>

---------------------------------------------------------------------------
Step(r) == AllowIP(r) \/ AllowGlobal(r) \/ ToAdmin(r) \/ Handle(r)

Next ==
  \/ Main \/ Deadline \/ Serving \/ OSSignal \/ Tick
  \/ \E r \in Requests :
       \/ Step(r) \/ Panic(r)
       \/ \E c \in Clients, path \in Paths :
            \E says \in {<<>>} \cup {<<d>> : d \in Clients \ {c}} : Arrive(r, c, path, says)

Spec == Init /\ [][Next]_vars

\* main runs, and wakes when the 30 s of Shutdown are over; so does the serving
\* goroutine.  Nothing makes a handler end in time or a signal come.
FairSpec ==
  /\ Spec
  /\ WF_vars(Main \/ Deadline)
  /\ WF_vars(ServeClosed /\ Carry)

---------------------------------------------------------------------------
(* Properties *)

\* A client's share: what one client takes from the budget all share, in any
\* stretch of time, is at most its own burst and its own rate.  However many of
\* its requests run at once, whatever it writes into X-Forwarded-For and however
\* often it is refused, it cannot exceed its limit or use up other clients'
\* budget; neither towards /verify nor towards /admin/revoke.  (Stated until the
\* cache drops the client's bucket; then only SharedLimit holds.)
ClientShare ==
  \A l \in Limiters : \A c \in Clients \ dropped[l] :
    drawn[l][c] <= IPBurst(lim[l].perIPRate)

\* Whatever the cache of client buckets drops, what passes a limiter in any
\* stretch of time is at most twice a second's budget and the sustained rate.
SharedLimit ==
  \A l \in Limiters : passed[l] <= GlobalBurst(lim[l].globalRate)

\* "draining in-flight requests": once main listens for signals, a request in
\* flight is cut off by the 30 s deadline, by a failure of the listener or by a
\* panic (see Panic of Resolver), and by nothing else; and the revocation
\* file and the Redis client are closed only when no request can use them any more.
DrainLosesNothing ==
  [][/\ main \in {"select", "shutdown", "drain"}
     /\ serverErr # <<"error">>
     /\ InFlight # {}
     => exit' \in {"running", "deadline", "panic"} /\ ~closed']_vars

\* A process that was told to stop stops, however long its handlers take:
\* no wait of main's is for something that may never come.
StopEnds == (main = "shutdown") ~> (exit # "running")
============================================================================
