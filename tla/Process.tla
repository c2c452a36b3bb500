------------------------------ MODULE Process ------------------------------
(***************************************************************************)
(* The life of a drs-verify process: config.Load, the components main      *)
(* starts in order, the goroutine that serves, the signal, the drain.      *)
(* What is in flight is a parameter of the steps that depend on it.        *)
(***************************************************************************)
EXTENDS Naturals, Sequences

CONSTANT Environments   \* the environments a process may be started in

\* What Load and main tell apart in the environment variables.  numbers:
\* one cannot be parsed ("bad"), DID_CACHE_SIZE is not positive ("nocache").
Environment ==
  [numbers        : {"ok", "bad", "nocache"},
   backend        : {"memory", "redis", "other"},   \* NONCE_STORE_BACKEND
   redisURL       : BOOLEAN,
   trustProxy     : BOOLEAN,
   revocationPath : BOOLEAN,                        \* REVOCATION_STORE_PATH
   storeDir       : BOOLEAN,
   tsaRoot        : {"unset", "pem", "garbage"},    \* TSA_ROOT_CERT_PEM
   tls            : {"neither", "both", "one"},     \* TLS_CERT_FILE, TLS_KEY_FILE
   metrics        : BOOLEAN]                        \* METRICS_ADDR

ASSUME ProcessConstants == Environments \subseteq Environment

VARIABLES env,        \* the environment of this process
          main,       \* where main is
          serve,      \* the goroutine that runs ListenAndServe
          serverErr,  \* the channel it reports on, of capacity 1
          closed,     \* main's deferred Close calls have run
          exit        \* how the process ended

processVars == <<env, main, serve, serverErr, closed, exit>>

MainStages == {"load", "stores", "tls", "listen", "metrics",
               "select", "shutdown", "drain", "gone"}

ProcessTypeOK ==
  /\ env \in Environments
  /\ main \in MainStages
  /\ serve \in {"none", "starting", "serving", "returned"}
  /\ serverErr \in {<<>>, <<"nil">>, <<"error">>}
  /\ closed \in BOOLEAN
  /\ exit \in {"running", "clean", "error", "deadline", "killed", "panic"}

ProcessInit ==
  /\ env \in Environments
  /\ main = "load"
  /\ serve = "none"
  /\ serverErr = <<>>
  /\ closed = FALSE
  /\ exit = "running"

Running == exit = "running"

\* Shutdown has closed the listener, or none was opened.
Accepting == Running /\ serve = "serving" /\ main \notin {"shutdown", "drain"}

---------------------------------------------------------------------------
(* main *)

GoTo(stage) == main' = stage /\ UNCHANGED exit

\* os.Exit: deferred calls do not run.
Exit(how) ==
  /\ exit' = how
  /\ main' = "gone"
  /\ UNCHANGED closed

\* main returns: the revocation file and the Redis client are closed.
Return ==
  /\ exit' = "clean"
  /\ main' = "gone"
  /\ closed' = TRUE

\* config.Load returns no error.
Loads(e) ==
  /\ e.numbers # "bad"
  /\ e.backend = "redis" => e.redisURL
  /\ e.backend \in {"memory", "redis"}
  /\ ~(e.trustProxy /\ e.backend = "memory")

\* config.Load, then the resolver, whose cache needs a positive size.  WarmUp
\* (module StatusCache) follows; its failure is a warning.
LoadConfig ==
  /\ main = "load"
  /\ IF Loads(env) /\ env.numbers # "nocache"
     THEN GoTo("stores") /\ UNCHANGED closed
     ELSE Exit("error")
  /\ UNCHANGED <<env, serve, serverErr>>

\* Is there something to open that may not open?
External == env.revocationPath \/ env.storeDir \/ env.backend = "redis"

\* The revocation file, the receipt store, the TSA roots, the nonce store.
OpenStores ==
  /\ main = "stores"
  /\ \/ env.tsaRoot # "garbage" /\ GoTo("tls") /\ UNCHANGED closed
     \/ (External \/ env.tsaRoot = "garbage") /\ Exit("error")
  /\ UNCHANGED <<env, serve, serverErr>>

CheckTLS ==
  /\ main = "tls"
  /\ IF env.tls = "one" THEN Exit("error") ELSE GoTo("listen") /\ UNCHANGED closed
  /\ UNCHANGED <<env, serve, serverErr>>

\* The serving goroutine is started; it has yet to bind.
Listen ==
  /\ main = "listen"
  /\ serve' = "starting"
  /\ GoTo("metrics")
  /\ UNCHANGED <<env, serverErr, closed>>

\* metrics.StartServer binds, if METRICS_ADDR is set; when it cannot, the process
\* exits although requests may already be served.  Then main asks for signals.
StartMetrics ==
  /\ main = "metrics"
  /\ \/ GoTo("select") /\ UNCHANGED closed
     \/ env.metrics /\ Exit("error")
  /\ UNCHANGED <<env, serve, serverErr>>

\* select, first case: the server has ended by itself.
ServerEnded ==
  /\ main = "select"
  /\ serverErr # <<>>
  /\ serverErr' = <<>>
  /\ IF serverErr = <<"error">> THEN Exit("error") ELSE Return
  /\ UNCHANGED <<env, serve>>

\* SIGTERM or SIGINT.  Until main has asked for signals it ends the process.
\* Then it wakes the select's second case, and srv.Shutdown begins, which closes
\* the listener; another signal changes nothing.
Signal ==
  /\ Running /\ main \notin {"shutdown", "drain"}
  /\ IF main = "select" THEN GoTo("shutdown") /\ UNCHANGED closed ELSE Exit("killed")
  /\ UNCHANGED <<env, serve, serverErr>>

\* Mutant: Close instead of Shutdown.
ShutdownReturns_Close(inFlight) ==
  /\ main = "shutdown"
  /\ GoTo("drain")
  /\ UNCHANGED <<env, serve, serverErr, closed>>

\* Shutdown returns when nothing is in flight.  The metrics server is stopped
\* next, within 5 s; its failure is only logged.
ShutdownReturns(inFlight) ==
  /\ main = "shutdown"
  /\ inFlight = {}
  /\ GoTo("drain")
  /\ UNCHANGED <<env, serve, serverErr, closed>>

\* 30 s are over.
ShutdownDeadline(inFlight) ==
  /\ main = "shutdown"
  /\ inFlight # {}
  /\ Exit("deadline")
  /\ UNCHANGED <<env, serve, serverErr>>

\* <-serverErr, after which main returns or exits.
DrainServerErr ==
  /\ main = "drain"
  /\ serverErr # <<>>
  /\ serverErr' = <<>>
  /\ IF serverErr = <<"error">> THEN Exit("error") ELSE Return
  /\ UNCHANGED <<env, serve>>

\* A goroutine that nothing recovers panics (module Resolver): the Go runtime
\* ends the process, wherever main is.
GoroutinePanics ==
  /\ Running
  /\ Exit("panic")
  /\ UNCHANGED <<env, serve, serverErr>>

MainSteps(inFlight) ==
  \/ LoadConfig \/ OpenStores \/ CheckTLS \/ Listen \/ StartMetrics
  \/ ServerEnded \/ ShutdownReturns(inFlight) \/ DrainServerErr

---------------------------------------------------------------------------
(* The serving goroutine *)

Report(err) == serverErr' = Append(serverErr, err) /\ serve' = "returned"

Bind ==
  /\ Running
  /\ serve = "starting" /\ main \notin {"shutdown", "drain"}
  /\ serve' = "serving"
  /\ UNCHANGED <<env, main, serverErr, closed, exit>>

\* The address is taken, a certificate cannot be read, or Accept fails.
ServeFails ==
  /\ Running
  /\ serve \in {"starting", "serving"} /\ main \notin {"shutdown", "drain"}
  /\ Report("error")
  /\ UNCHANGED <<env, main, closed, exit>>

\* Mutant: ErrServerClosed is not reported.
ServeClosed_Silent ==
  /\ Running
  /\ serve \in {"starting", "serving"} /\ main \in {"shutdown", "drain"}
  /\ serve' = "returned"
  /\ UNCHANGED <<env, main, serverErr, closed, exit>>

\* ErrServerClosed, once Shutdown has begun.
ServeClosed ==
  /\ Running
  /\ serve \in {"starting", "serving"} /\ main \in {"shutdown", "drain"}
  /\ Report("nil")
  /\ UNCHANGED <<env, main, closed, exit>>

============================================================================
