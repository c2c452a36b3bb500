--------------------------- MODULE MCVerifyServer ---------------------------
(* VerifyServer for TLC: a standing delegation with a status list index and *)
(* one that expires, with an iat within the clock skew.                     *)
EXTENDS VerifyServer, TLC

CONSTANTS j1, j2, i1

MCIat   == j1 :> 0 @@ j2 :> 2
MCNbf   == j1 :> 0 @@ j2 :> 1
MCExp   == j1 :> NoExp @@ j2 :> 3
MCIndex == j1 :> i1 @@ j2 :> NoIndex

\* Revocations outlive a restart in one, claims in the other.
MCConfigs == {[backend |-> "memory", binding |-> "off", persist |-> TRUE],
              [backend |-> "redis", binding |-> "lenient", persist |-> FALSE]}

Goroutines == Permutations(Requests)
============================================================================
