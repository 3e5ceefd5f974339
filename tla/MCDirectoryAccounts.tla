------------------------ MODULE MCDirectoryAccounts ------------------------
(* Small instances of DirectoryAccounts. *)
EXTENDS DirectoryAccounts, TLC

Symmetry == Permutations(UserId) \cup Permutations(Req) \cup Permutations(Link)

============================================================================
