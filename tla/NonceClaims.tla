---------------------------- MODULE NonceClaims ----------------------------
(***************************************************************************)
(* What nonce.Checker promises: Check is an atomic "claim-if-new".  A claim *)
(* lives for TTL; while it lives nobody else's claim of that jti succeeds, *)
(* and a claim that is not live is never reported as a replay.  A checker  *)
(* may fail instead of answering, and a failed check may have claimed the  *)
(* jti all the same.                                                       *)
(***************************************************************************)
EXTENDS Integers

CONSTANTS Jtis,      \* invocation identifiers
          TTL,       \* how long a claim lives
          MaxTime    \* bound on the clock

VARIABLES now,       \* the clock
          live,      \* the live claims: pairs of a jti and the time of its claim
          result     \* the latest check and its outcome

\* Before the first check.
NoResult == <<>>

IsLive(j) == \E t \in 0 .. MaxTime : <<j, t>> \in live

Init ==
  /\ now = 0
  /\ live = {}
  /\ result = NoResult

\* Claims die of age and of nothing else.
Tick ==
  /\ now < MaxTime
  /\ now' = now + 1
  /\ live' = {c \in live : now' - c[2] < TTL}
  /\ UNCHANGED result

Claim(j) ==
  /\ ~IsLive(j)
  /\ live' = live \cup {<<j, now>>}
  /\ result' = <<j, "ok">>
  /\ UNCHANGED now

Refuse(j) ==
  /\ IsLive(j)
  /\ result' = <<j, "replay">>
  /\ UNCHANGED <<now, live>>

\* No answer.  The claim may have been made before the failure.
Fail(j) ==
  /\ \/ live' = live
     \/ ~IsLive(j) /\ live' = live \cup {<<j, now>>}
  /\ result' = <<j, "error">>
  /\ UNCHANGED now

Next == Tick \/ \E j \in Jtis : Claim(j) \/ Refuse(j) \/ Fail(j)

Spec == Init /\ [][Next]_<<now, live, result>>
============================================================================
