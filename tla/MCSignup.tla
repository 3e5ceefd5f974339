------------------------------ MODULE MCSignup ------------------------------
(* Two numbers behind one address, for TLC. *)
EXTENDS Signup, TLC

CONSTANTS p, q

MCPhones == {p, q}
MCKey == {p, q, "ip"}
MCTopLimit == [k \in MCKey |-> IF k = "ip" THEN 2 ELSE 1]
NumberSymmetry == Permutations(MCPhones)

=============================================================================
