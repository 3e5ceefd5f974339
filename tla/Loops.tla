------------------------------- MODULE Loops -------------------------------
(***************************************************************************)
(* What the loops over a list compute, as operators that a proof can use:  *)
(* the elements that pass a test, in their order (retain, a SELECT with a  *)
(* WHERE), a running total (+= in the body), and lists one after another   *)
(* (a loop in a loop).  The test is membership in a set and not an         *)
(* operator, so that facts can be stated for any test (LoopProofs).        *)
(* Also what it is for one list to be found in another.                    *)
(***************************************************************************)
EXTENDS Naturals, Sequences

\* The elements of s that are in V, in the order of s.
Filter(s, V) ==
    LET upTo[k \in 0 .. Len(s)] ==
            IF k = 0 THEN <<>>
            ELSE IF s[k] \in V THEN Append(upTo[k - 1], s[k]) ELSE upTo[k - 1]
    IN  upTo[Len(s)]

\* The sum of a sequence of numbers.
Total(s) ==
    LET upTo[k \in 0 .. Len(s)] == IF k = 0 THEN 0 ELSE upTo[k - 1] + s[k]
    IN  upTo[Len(s)]

\* Sequences one after another.
Joined(seqs) ==
    LET upTo[k \in 0 .. Len(seqs)] == IF k = 0 THEN <<>> ELSE upTo[k - 1] \o seqs[k]
    IN  upTo[Len(seqs)]

\* All of s is found in t, in its order, with other elements between.
IsSubsequence(s, t) ==
    \E at \in [1 .. Len(s) -> 1 .. Len(t)] :
        /\ \A i, j \in 1 .. Len(s) : i < j => at[i] < at[j]
        /\ \A i \in 1 .. Len(s) : t[at[i]] = s[i]

=============================================================================
