-------------------------- MODULE DeliveryService --------------------------
(***************************************************************************)
(* What the relay promises its clients, with no process, memory, file or   *)
(* crash in it: queues that exist for good, an epoch per group inbox that  *)
(* each accepted commit moves by one, and for every mailbox the set of     *)
(* envelopes it still owes its owner.  An envelope enters the backlog of   *)
(* every mailbox it is for in one step, and leaves a backlog only because  *)
(* the owner acknowledged its message id.                                  *)
(***************************************************************************)
EXTENDS Naturals, Sequences

CONSTANTS QueueId, Envelope

VARIABLES
    queue,      \* QueueId -> [kind, epoch, roster]
    backlog     \* QueueId -> SUBSET Envelope

Absent == [kind |-> "none", epoch |-> 0, roster |-> <<>>]

Members(q) ==
    {m \in {queue[q].roster[i] : i \in 1 .. Len(queue[q].roster)} :
        queue[m].kind = "mailbox"}

Init ==
    /\ queue = [q \in QueueId |-> Absent]
    /\ backlog = [q \in QueueId |-> {}]

\* A name that is no queue becomes a mailbox or an inbox, once.
CreateQueue(q) ==
    /\ queue[q].kind = "none"
    /\ queue'[q].kind \in {"mailbox", "inbox"}
    /\ queue' = [queue EXCEPT ![q] = queue'[q]]
    /\ UNCHANGED backlog

\* Every queue of targets owes env to its owner.
Owe(targets, env) ==
    backlog' = [q \in QueueId |->
                  IF q \in targets THEN backlog[q] \cup {env} ELSE backlog[q]]

Post(q, env) ==
    /\ queue[q].kind = "mailbox"
    /\ Owe({q}, env)
    /\ UNCHANGED queue

Broadcast(q, env) ==
    /\ queue[q].kind = "inbox"
    /\ Owe(Members(q), env)
    /\ UNCHANGED queue

\* One commit wins the current epoch of the inbox.
Commit(q, env) ==
    /\ queue[q].kind = "inbox"
    /\ queue' = [queue EXCEPT ![q].epoch = @ + 1]
    /\ Owe(Members(q), env)

Acknowledge(q, id) ==
    /\ backlog' = [backlog EXCEPT ![q] = {env \in @ : env.id # id}]
    /\ UNCHANGED queue

Next ==
    \E q \in QueueId :
        \/ CreateQueue(q)
        \/ \E env \in Envelope :
              \/ Post(q, env)
              \/ Broadcast(q, env)
              \/ Commit(q, env)
              \/ Acknowledge(q, env.id)

Spec == Init /\ [][Next]_<<queue, backlog>>

=============================================================================
