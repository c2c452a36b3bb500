-------------------------- MODULE MCRevocationFile --------------------------
(* RevocationFile for TLC: one index is a prefix of the other. *)
EXTENDS RevocationFile, TLC

MCDecimal == 1 :> <<1>> @@ 12 :> <<1, 2>>
============================================================================
