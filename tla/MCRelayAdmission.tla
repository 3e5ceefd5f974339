-------------------------- MODULE MCRelayAdmission -------------------------
(* Small instances of RelayAdmission. *)
EXTENDS RelayAdmission, TLC

CONSTANTS t1, t2

\* One token expires in the first seconds, the other near the end.
MCExpiry == (t1 :> 1) @@ (t2 :> 3)

ChallengeSymmetry == Permutations(Challenge)

=============================================================================
