------------------------ MODULE MCDirectoryRestore -------------------------
(* Small instances of DirectoryRestore. *)
EXTENDS DirectoryRestore, TLC

Symmetry == Permutations(Req)

============================================================================
