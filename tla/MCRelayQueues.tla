--------------------------- MODULE MCRelayQueues ---------------------------
(* Small instances of RelayQueues. *)
EXTENDS RelayQueues

CONSTANTS q1, q2, q3

\* Two messages of different sizes.
TwoEnvelopes == {[id |-> 1, len |-> 1], [id |-> 2, len |-> 2]}

\* A roster of two mailboxes, and one that names a mailbox twice.  A member
\* that was never created makes a fan-out target without a deque.
PairRosters == {<<q1, q2>>, <<q1, q1>>}

WatchOne == {<<q1>>}

=============================================================================
