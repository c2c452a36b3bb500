----------------------------- MODULE MCService -----------------------------
(* Service for TLC.                                                        *)
EXTENDS Service, TLC

CONSTANTS c1, c2, r1, r2

\* A developer's process, and a deployment with everything configured.
Plain ==
  [numbers |-> "ok", backend |-> "memory", redisURL |-> FALSE, trustProxy |-> FALSE,
   revocationPath |-> FALSE, storeDir |-> FALSE,
   tsaRoot |-> "unset", tls |-> "neither", metrics |-> FALSE]

Deployed ==
  [numbers |-> "ok", backend |-> "redis", redisURL |-> TRUE, trustProxy |-> TRUE,
   revocationPath |-> TRUE, storeDir |-> TRUE,
   tsaRoot |-> "pem", tls |-> "both", metrics |-> TRUE]

\* And every way to get one setting wrong.
Refused ==
  {[Plain EXCEPT !.numbers = "bad"], [Plain EXCEPT !.numbers = "nocache"],
   [Plain EXCEPT !.backend = "redis"], [Plain EXCEPT !.backend = "other"],
   [Plain EXCEPT !.trustProxy = TRUE], [Plain EXCEPT !.tls = "one"],
   [Plain EXCEPT !.tsaRoot = "garbage"]}

MCEnvironments == {Plain, Deployed} \cup Refused
MCIds == 1 .. CacheSize + Cardinality(Requests)
============================================================================
