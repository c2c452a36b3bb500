----------------------------- MODULE RedisStore -----------------------------
(***************************************************************************)
(* nonce.RedisStore: Check is one SET key NX EX ttl round trip.  The Redis *)
(* server (external) drops a key when its TTL is over and executes the     *)
(* command atomically; the reply can be lost, or the 250 ms deadline can   *)
(* pass, with the command executed or not.                                 *)
(***************************************************************************)
EXTENDS Integers

CONSTANTS Jtis, Absent, TTL, MaxTime

VARIABLES now, seen, result

\* Does the key exist on the server?
Exists(j) == seen[j] # Absent /\ now - seen[j] < TTL

\* SET NX on the server.
SetNX(j) == seen' = IF Exists(j) THEN seen ELSE [seen EXCEPT ![j] = now]

Check(j) ==
  /\ \/ SetNX(j) /\ result' = <<j, IF Exists(j) THEN "replay" ELSE "ok">>
     \/ SetNX(j) /\ result' = <<j, "error">>
     \/ UNCHANGED seen /\ result' = <<j, "error">>
  /\ UNCHANGED now

\* The claims of NonceClaims.
LiveClaims == {<<j, seen[j]>> : j \in {k \in Jtis : Exists(k)}}

Claims == INSTANCE NonceClaims WITH live <- LiveClaims
============================================================================
