---------------------------- MODULE MCUsernames -----------------------------
(* Three accounts, two nicknames and two transactions, for TLC: one slot at *)
(* the least width, three at the next.                                      *)
EXTENDS Usernames, TLC

MCSlotCount == [w \in 1 .. 2 |-> 2 ^ w - 1]
ClaimSymmetry == Permutations(User) \cup Permutations(Nick) \cup Permutations(Tx)

=============================================================================
