---------------------------- MODULE RelayQueues ----------------------------
(***************************************************************************)
(* The relay's queue store and Delivery Service (relay/src/state.rs): the  *)
(* mailboxes, the group inboxes with their epochs, the subscribers, and    *)
(* the SQLite tables everything durable is written through to.             *)
(*                                                                         *)
(* One mutex guards the whole state, so a handler runs alone.  A handler   *)
(* that writes to the database is still two steps here: up to and          *)
(* including its committed transaction, and everything after it (the       *)
(* memory update, the pushes, the Ok reply).  Between the two only the     *)
(* environment moves: the process may die, and a connection may close.     *)
(* A handler that returns an error before it changed anything is a         *)
(* stuttering step and has no action of its own.                           *)
(*                                                                         *)
(* Proof of work and attestation, which come before a queue is created,    *)
(* are the module RelayAdmission.                                          *)
(***************************************************************************)
EXTENDS Integers, Sequences, Loops

CONSTANTS
    QueueId,          \* names a queue can be given
    Conn,             \* connections, each with the channel its pushes go to
    Envelope,         \* records [id, len]: message_id, padded_ciphertext.len()
    Rosters,          \* the fan_out_to lists clients create inboxes with
    WatchLists,       \* the queue_ids lists clients subscribe with
    InitialEpochs,    \* the initial_epoch values clients create inboxes with
    MaxMessageSize,   \* limits::MAX_MESSAGE_SIZE
    MaxQueueDepth,    \* limits::MAX_QUEUE_DEPTH
    MaxStorageBytes,  \* limits::MAX_STORAGE_BYTES
    RateLimit,        \* limits::RATE_LIMIT_PER_QUEUE_PER_MINUTE
    MaxSeq,           \* bound: copies ever sent, with a row or without
    MaxEpoch,         \* bound: the largest epoch an inbox reaches
    MaxPushes         \* bound: pushes on a channel when it re-subscribes

ASSUME EnvelopeAssumption == Envelope \subseteq [id : Nat, len : Nat]

ASSUME ListsAssumption ==
    /\ Rosters \subseteq Seq(QueueId)
    /\ WatchLists \subseteq Seq(QueueId)

ASSUME BoundsAssumption ==
    /\ InitialEpochs \subseteq Nat
    /\ MaxMessageSize \in Nat
    /\ MaxQueueDepth \in Nat
    /\ MaxStorageBytes \in Nat
    /\ RateLimit \in Nat
    /\ MaxSeq \in Nat
    /\ MaxEpoch \in Nat
    /\ MaxPushes \in Nat

VARIABLES
    dbQueues,         \* tables queues and roster: QueueId -> Queue
    dbPending,        \* table pending: its rows [queue, env] in the order of seq
    dbSeq,            \* how far pending.seq has counted (a target that is only
                      \* notified leaves a gap, which no one observes)
    queues,           \* Inner.queues without the deques: QueueId -> Queue
    pending,          \* the VecDeque of each mailbox: QueueId -> Seq(Envelope)
    bytesUsed,        \* Inner.storage_bytes_used
    sentThisMinute,   \* QueueEntry.sent_this_minute
    subscribers,      \* Inner.subscribers: the channels watching each queue
    status,           \* "up", "poisoned" (a panic under the mutex), "down"
    request,          \* the handler whose transaction committed, or NoRequest
    conn,             \* the state of each connection
    channel,          \* everything pushed on each connection's channel
    promised,         \* history: [queue, env] an Ok reply was given for and
                      \* that the recipient has not acked
    wins              \* history: commits accepted per inbox and target epoch

dbVars  == <<dbQueues, dbPending, dbSeq>>
memVars == <<queues, pending, bytesUsed, sentThisMinute, subscribers>>
netVars == <<conn, channel>>
vars    == <<dbVars, memVars, netVars, status, request, promised, wins>>

Epochs == 0 .. MaxEpoch

Queue == [kind : {"none", "mailbox", "inbox"}, epoch : Nat, roster : Seq(QueueId)]

NoQueue == [kind |-> "none", epoch |-> 0, roster |-> <<>>]

Mailbox == [kind |-> "mailbox", epoch |-> 0, roster |-> <<>>]

GroupInbox(epoch, roster) ==
    [kind |-> "inbox", epoch |-> epoch, roster |-> roster]

Row == [queue : QueueId, env : Envelope]

NoRequest == [op |-> "none"]

Request ==
    {NoRequest}
        \cup [op : {"create"}, queue : QueueId]
        \cup [op : {"mailbox"}, queue : QueueId, env : Envelope]
        \cup [op : {"group"}, queue : QueueId, env : Envelope, commit : BOOLEAN]
        \cup [op : {"ack"}, queue : QueueId, id : {e.id : e \in Envelope}]

Idle == status = "up" /\ request = NoRequest

IsMailbox(q) == queues[q].kind = "mailbox"

Mailboxes == {q \in QueueId : IsMailbox(q)}

\* The rows of the pending table, and those of one queue.
Rows      == {dbPending[i] : i \in 1 .. Len(dbPending)}
RowsOf(q) == [queue : {q}, env : Envelope]

Envelopes(rows) == [i \in 1 .. Len(rows) |-> rows[i].env]

\* The sum of padded_ciphertext.len() that storage_bytes_used keeps.
Bytes(envs) == Total([i \in 1 .. Len(envs) |-> envs[i].len])

-----------------------------------------------------------------------------
(* Startup *)

Init ==
    /\ dbQueues = [q \in QueueId |-> NoQueue]
    /\ dbPending = <<>>
    /\ dbSeq = 0
    /\ queues = [q \in QueueId |-> NoQueue]
    /\ pending = [q \in QueueId |-> <<>>]
    /\ bytesUsed = 0
    /\ sentThisMinute = [q \in QueueId |-> 0]
    /\ subscribers = [q \in QueueId |-> {}]
    /\ status = "up"
    /\ request = NoRequest
    /\ conn = [c \in Conn |-> "closed"]
    /\ channel = [c \in Conn |-> <<>>]
    /\ promised = {}
    /\ wins = [q \in QueueId |-> [e \in Epochs |-> 0]]

\* SELECT ... FROM pending ORDER BY seq, for one queue.
Backlog(q) == Envelopes(Filter(dbPending, RowsOf(q)))

StoredBytes == Bytes(Envelopes(dbPending))

\* RelayState::open on the file a previous process left behind.  Subscribers
\* and rate windows are memory only and start empty.
Open ==
    /\ status = "down"
    /\ status' = "up"
    /\ queues' = dbQueues
    /\ pending' = [q \in QueueId |->
                     IF dbQueues[q].kind = "mailbox" THEN Backlog(q) ELSE <<>>]
    /\ bytesUsed' = StoredBytes
    /\ sentThisMinute' = [q \in QueueId |-> 0]
    /\ subscribers' = [q \in QueueId |-> {}]
    /\ UNCHANGED <<dbVars, netVars, request, promised, wins>>

-----------------------------------------------------------------------------
(* Creating queues *)

\* fresh_queue_id: 32 random bytes that are no queue yet, and that no client
\* can have named in a roster before.
Fresh(q) ==
    /\ queues[q].kind = "none"
    /\ \A p \in QueueId : \A i \in 1 .. Len(queues[p].roster) : queues[p].roster[i] # q

\* The database half of creating a queue: one INSERT for a mailbox, one
\* transaction with the roster rows for an inbox.
Create(q, entry) ==
    /\ Idle
    /\ Fresh(q)
    /\ dbQueues' = [dbQueues EXCEPT ![q] = entry]
    /\ request' = [op |-> "create", queue |-> q]
    /\ UNCHANGED <<dbPending, dbSeq, memVars, netVars, status, promised, wins>>

CreateMailbox(q) == Create(q, Mailbox)

CreateGroupInbox(q, epoch, roster) ==
    /\ \A i \in 1 .. Len(roster) : roster[i] # q
    /\ Create(q, GroupInbox(epoch, roster))

\* The memory half: the entry goes into the map and the reply is sent.
CreateDone ==
    /\ status = "up"
    /\ request.op = "create"
    /\ queues' = [queues EXCEPT ![request.queue] = dbQueues[request.queue]]
    /\ pending' = [pending EXCEPT ![request.queue] = <<>>]
    /\ sentThisMinute' = [sentThisMinute EXCEPT ![request.queue] = 0]
    /\ request' = NoRequest
    /\ UNCHANGED <<dbVars, bytesUsed, subscribers, netVars, status, promised, wins>>

-----------------------------------------------------------------------------
(* Subscribing and notifying *)

\* Mutant of DrainOf: only the oldest entry is drained.
DrainOldest(q) == IF pending[q] = <<>> THEN <<>>
                  ELSE <<[queue |-> q, env |-> pending[q][1]]>>

DrainOf(q) == [k \in 1 .. Len(pending[q]) |-> [queue |-> q, env |-> pending[q][k]]]

\* The unacked backlog of each mailbox of the list, in turn.
Drained(list) == Joined([i \in 1 .. Len(list) |-> DrainOf(list[i])])

\* subscribe: first the channel is registered for every queue, closed channels
\* and an earlier registration of the same channel being dropped; then the
\* unacked backlog of each mailbox is drained to it, in the order of the list.
\* Pushes to a channel whose connection is gone fail, and end the drain.
Subscribe(c, list) ==
    LET watched == {list[i] : i \in 1 .. Len(list)}
    IN  /\ Idle
        /\ conn[c] = "open"
        /\ Len(channel[c]) <= MaxPushes
        /\ subscribers' = [q \in QueueId |->
                             IF q \in watched
                             THEN {d \in subscribers[q] : conn[d] = "open"} \cup {c}
                             ELSE subscribers[q]]
        /\ channel' = [channel EXCEPT ![c] = @ \o Drained(list)]
        /\ UNCHANGED <<dbVars, queues, pending, bytesUsed, sentThisMinute,
                       conn, status, request, promised, wins>>

\* env for each queue of a list: what is pushed, and what is stored.
Tagged(list, env) == [i \in 1 .. Len(list) |-> [queue |-> list[i], env |-> env]]

\* The queues a channel watches.
Watched(c) == {q \in QueueId : c \in subscribers[q]}

\* What the deque of q gets: a copy each time it is named, if it is a mailbox.
Copies(targets, env, q) ==
    IF IsMailbox(q) THEN [i \in 1 .. Len(Filter(targets, {q})) |-> env] ELSE <<>>

\* push_and_notify, for each queue of targets in turn: a mailbox keeps a copy,
\* and every subscriber whose channel still has a receiver gets a push, the
\* others being pruned.
PushAndNotify(targets, env) ==
    /\ pending' = [q \in QueueId |-> pending[q] \o Copies(targets, env, q)]
    /\ bytesUsed' = bytesUsed + env.len * Len(Filter(targets, Mailboxes))
    /\ channel' = [c \in Conn |->
                     IF conn[c] = "open"
                     THEN channel[c] \o Tagged(Filter(targets, Watched(c)), env)
                     ELSE channel[c]]
    /\ subscribers' = [q \in QueueId |->
                         IF \E i \in 1 .. Len(targets) : targets[i] = q
                         THEN {c \in subscribers[q] : conn[c] = "open"}
                         ELSE subscribers[q]]

-----------------------------------------------------------------------------
(* Sending *)

\* check_and_bump_rate_limit: the count it starts from, elapsed telling
\* whether a minute has passed since the window started.
Window(q, elapsed) == IF elapsed THEN 0 ELSE sentThisMinute[q]

WithinRate(q, elapsed) == Window(q, elapsed) < RateLimit

BumpRateLimit(q, elapsed) ==
    sentThisMinute' = [sentThisMinute EXCEPT
        ![q] = IF WithinRate(q, elapsed) THEN Window(q, elapsed) + 1
                                         ELSE Window(q, elapsed)]

WouldExceedStorageBound(env, targets) ==
    bytesUsed + env.len * targets > MaxStorageBytes

\* Mutant of Stored: the filter on mailboxes is missing.
StoredUnfiltered(targets) == targets

\* The members of a fan-out list that get a row (stored_targets): one that is
\* not a mailbox is notified but has no deque and no row.
Stored(targets) == Filter(targets, Mailboxes)

\* send_to_mailbox up to its INSERT.  The depth and the rate are checked
\* before the storage bound, so a send refused for storage has still used up
\* one of the sender's sends.
SendToMailbox(q, env, elapsed) ==
    /\ Idle
    /\ env.len <= MaxMessageSize
    /\ IsMailbox(q)
    /\ Len(pending[q]) < MaxQueueDepth
    /\ dbSeq + 1 <= MaxSeq
    /\ BumpRateLimit(q, elapsed)
    /\ IF WithinRate(q, elapsed) /\ ~WouldExceedStorageBound(env, 1)
       THEN /\ dbPending' = Append(dbPending, [queue |-> q, env |-> env])
            /\ dbSeq' = dbSeq + 1
            /\ request' = [op |-> "mailbox", queue |-> q, env |-> env]
       ELSE UNCHANGED <<dbPending, dbSeq, request>>
    /\ UNCHANGED <<dbQueues, queues, pending, bytesUsed, subscribers,
                   netVars, status, promised, wins>>

SendToMailboxDone ==
    /\ status = "up"
    /\ request.op = "mailbox"
    /\ PushAndNotify(<<request.queue>>, request.env)
    /\ promised' = promised \cup {[queue |-> request.queue, env |-> request.env]}
    /\ request' = NoRequest
    /\ UNCHANGED <<dbVars, queues, sentThisMinute, conn, status, wins>>

\* Mutant of EpochMatches: a commit for an epoch already left is let through.
EpochNotAhead(q, target) == target <= queues[q].epoch

\* A commit must name the epoch the inbox stands at.
EpochMatches(q, target) == target = queues[q].epoch

\* send_to_group_inbox up to the commit of its transaction, which advances the
\* epoch (for a commit) and inserts every fan-out row at once.
SendToGroupInbox(q, commit, target, env, elapsed) ==
    LET roster == queues[q].roster
    IN  /\ Idle
        /\ env.len <= MaxMessageSize
        /\ queues[q].kind = "inbox"
        /\ commit => EpochMatches(q, target) /\ queues[q].epoch < MaxEpoch
        /\ ~WouldExceedStorageBound(env, Len(roster))
        /\ dbSeq + Len(roster) <= MaxSeq
        /\ BumpRateLimit(q, elapsed)
        /\ IF WithinRate(q, elapsed)
           THEN /\ dbQueues' = IF commit THEN [dbQueues EXCEPT ![q].epoch = @ + 1]
                                         ELSE dbQueues
                /\ dbPending' = dbPending \o Tagged(Stored(roster), env)
                /\ dbSeq' = dbSeq + Len(roster)
                /\ wins' = IF commit THEN [wins EXCEPT ![q][target] = @ + 1]
                                     ELSE wins
                /\ request' = [op |-> "group", queue |-> q, env |-> env,
                               commit |-> commit]
           ELSE UNCHANGED <<dbQueues, dbPending, dbSeq, wins, request>>
        /\ UNCHANGED <<queues, pending, bytesUsed, subscribers, netVars,
                       status, promised>>

\* The mailboxes an Ok reply to a fan-out speaks for.
Recipients(roster) == {roster[i] : i \in 1 .. Len(roster)} \cap Mailboxes

SendToGroupInboxDone ==
    LET roster == queues[request.queue].roster
    IN  /\ status = "up"
        /\ request.op = "group"
        /\ queues' = IF request.commit
                     THEN [queues EXCEPT ![request.queue].epoch = @ + 1]
                     ELSE queues
        /\ PushAndNotify(roster, request.env)
        /\ promised' = promised \cup
             {[queue |-> m, env |-> request.env] : m \in Recipients(roster)}
        /\ request' = NoRequest
        /\ UNCHANGED <<dbVars, sentThisMinute, conn, status, wins>>

-----------------------------------------------------------------------------
(* Acknowledging *)

\* Mutant of Ack: the DELETE does not say which queue.
AckEverywhere(q, id) ==
    /\ Idle
    /\ dbPending' = Filter(dbPending, {r \in Row : r.env.id # id})
    /\ promised' = {p \in promised : p.queue # q \/ p.env.id # id}
    /\ request' = [op |-> "ack", queue |-> q, id |-> id]
    /\ UNCHANGED <<dbQueues, dbSeq, memVars, netVars, status, wins>>

\* ack up to its DELETE: every copy of the message in that queue goes.
Ack(q, id) ==
    /\ Idle
    /\ dbPending' = Filter(dbPending, {r \in Row : r.queue # q \/ r.env.id # id})
    /\ promised' = {p \in promised : p.queue # q \/ p.env.id # id}
    /\ request' = [op |-> "ack", queue |-> q, id |-> id]
    /\ UNCHANGED <<dbQueues, dbSeq, memVars, netVars, status, wins>>

\* Mutant of Retained: one copy is dropped, where the DELETE removes them all.
RetainedRest(envs, id) ==
    IF envs # <<>> /\ Head(envs).id = id THEN Tail(envs) ELSE envs

\* What retain keeps of a deque, and what it drops.
Retained(envs, id) == Filter(envs, {e \in Envelope : e.id # id})
Released(envs, id) == Filter(envs, {e \in Envelope : e.id = id})

\* The memory half: the deque drops its copies and their bytes are freed
\* (saturating_sub).
AckDone ==
    LET q     == request.queue
        freed == Bytes(Released(pending[q], request.id))
    IN  /\ status = "up"
        /\ request.op = "ack"
        /\ pending' = [pending EXCEPT ![q] = Retained(@, request.id)]
        /\ bytesUsed' = IF freed > bytesUsed THEN 0 ELSE bytesUsed - freed
        /\ request' = NoRequest
        /\ UNCHANGED <<dbVars, queues, sentThisMinute, subscribers, netVars,
                       status, promised, wins>>

-----------------------------------------------------------------------------
(* The environment: connections, the disk and the process *)

\* A new connection comes with a new channel, so a name is used again only
\* when no sender of the old channel is left.
Connect(c) ==
    /\ status # "down"
    /\ conn[c] = "closed"
    /\ \A q \in QueueId : c \notin subscribers[q]
    /\ conn' = [conn EXCEPT ![c] = "open"]
    /\ UNCHANGED <<dbVars, memVars, channel, status, request, promised, wins>>

\* The connection's tasks end and drop the channel's receiver: from here on
\* is_closed() holds and a push fails.
Disconnect(c) ==
    /\ conn[c] = "open"
    /\ conn' = [conn EXCEPT ![c] = "closed"]
    /\ channel' = [channel EXCEPT ![c] = <<>>]
    /\ UNCHANGED <<dbVars, memVars, status, request, promised, wins>>

\* A write fails: the handler's expect() panics with the mutex held.  The
\* transaction rolls back, the mutex is poisoned, and every later lock()
\* panics too, while the accept loop keeps running.
PersistenceFails ==
    /\ Idle
    /\ status' = "poisoned"
    /\ UNCHANGED <<dbVars, memVars, netVars, request, promised, wins>>

\* kill -9 at any point: memory and connections are lost, the file stays.
Crash ==
    /\ status # "down"
    /\ status' = "down"
    /\ request' = NoRequest
    /\ conn' = [c \in Conn |-> "closed"]
    /\ channel' = [c \in Conn |-> <<>>]
    /\ queues' = [q \in QueueId |-> NoQueue]
    /\ pending' = [q \in QueueId |-> <<>>]
    /\ bytesUsed' = 0
    /\ sentThisMinute' = [q \in QueueId |-> 0]
    /\ subscribers' = [q \in QueueId |-> {}]
    /\ UNCHANGED <<dbVars, promised, wins>>

-----------------------------------------------------------------------------
Handler ==
    \/ \E q \in QueueId : CreateMailbox(q)
    \/ \E q \in QueueId, e \in InitialEpochs, r \in Rosters : CreateGroupInbox(q, e, r)
    \/ \E c \in Conn, l \in WatchLists : Subscribe(c, l)
    \/ \E q \in QueueId, env \in Envelope, old \in BOOLEAN : SendToMailbox(q, env, old)
    \/ \E q \in QueueId, commit \in BOOLEAN, t \in Epochs, env \in Envelope, old \in BOOLEAN :
          SendToGroupInbox(q, commit, t, env, old)
    \/ \E q \in QueueId, env \in Envelope : Ack(q, env.id)

Completion ==
    \/ CreateDone
    \/ SendToMailboxDone
    \/ SendToGroupInboxDone
    \/ AckDone

Environment ==
    \/ \E c \in Conn : Connect(c) \/ Disconnect(c)
    \/ PersistenceFails
    \/ Crash

Next == Handler \/ Completion \/ Environment \/ Open

Spec == Init /\ [][Next]_vars

-----------------------------------------------------------------------------
(* Properties *)

\* The file, the queue map and the history have their types.
QueuesTypeOK ==
    /\ dbQueues \in [QueueId -> Queue]
    /\ dbPending \in Seq(Row)
    /\ dbSeq \in Nat
    /\ queues \in [QueueId -> Queue]
    /\ status \in {"up", "poisoned", "down"}
    /\ request \in Request
    /\ promised \subseteq [queue : QueueId, env : Envelope]
    /\ wins \in [QueueId -> [Epochs -> Nat]]

\* The types of what a running process keeps in memory.
MemoryTypeOK ==
    /\ pending \in [QueueId -> Seq(Envelope)]
    /\ bytesUsed \in Nat
    /\ subscribers \in [QueueId -> SUBSET Conn]
    /\ conn \in [Conn -> {"open", "closed"}]
    /\ channel \in [Conn -> Seq([queue : QueueId, env : Envelope])]

\* Every variable has its type; in particular a rate window never counts past
\* the limit.
TypeOK ==
    /\ QueuesTypeOK
    /\ MemoryTypeOK
    /\ sentThisMinute \in [QueueId -> 0 .. RateLimit]

\* The DS ordering rule: of all the commits ever sent for one epoch of one
\* group inbox, the relay accepts at most one, across crashes and restarts
\* (send_to_group_inbox, "there is no window where two callers can both
\* observe the pre-bump epoch").
OneCommitPerEpoch == \A q \in QueueId, e \in Epochs : wins[q][e] <= 1

\* Durable before acknowledged: a message the relay has replied Ok to is on
\* disk for every mailbox it was for until that mailbox acks it, whatever
\* crashes and restarts come between ("the Ok reply must never outlive a crash
\* that loses the message").
AcknowledgedIsDurable ==
    \A p \in promised : \E r \in Rows : r.queue = p.queue /\ r.env = p.env

\* Between requests memory is exactly what a restart would rebuild from the
\* file: the same queues, epochs and rosters, each backlog with the same
\* copies in the same order, and the same byte count (write-through).
MemoryMirrorsDisk ==
    Idle =>
        /\ queues = dbQueues
        /\ \A q \in QueueId : pending[q] = Backlog(q)
        /\ bytesUsed = StoredBytes

\* At-least-once, in order: whatever a mailbox holds, each live channel that
\* subscribed to it has been pushed all of it, in the order it was stored, by
\* the drain of subscribe or by push_and_notify.
BacklogReachesSubscribers ==
    \A q \in QueueId : \A c \in subscribers[q] :
        conn[c] = "open" =>
            IsSubsequence([i \in 1 .. Len(pending[q]) |->
                             [queue |-> q, env |-> pending[q][i]]],
                          channel[c])

\* Inbox q is left alone, or its epoch moves by one and some envelope gets a
\* new row in every mailbox of its roster.
MovesWithFanOut(q) ==
    dbQueues[q].kind = "inbox" /\ dbQueues'[q] # dbQueues[q] =>
        /\ dbQueues'[q] = [dbQueues[q] EXCEPT !.epoch = @ + 1]
        /\ \E env \in Envelope : \A i \in 1 .. Len(dbQueues[q].roster) :
             dbQueues[dbQueues[q].roster[i]].kind = "mailbox" =>
                \E k \in Len(dbPending) + 1 .. Len(dbPending') :
                    dbPending'[k] = [queue |-> dbQueues[q].roster[i], env |-> env]

\* An epoch moves by one, and only together with the rows that carry the
\* winning commit to every member mailbox ("the epoch advance and its fan-out
\* land together or not at all").
EpochMovesWithFanOut == [][\A q \in QueueId : MovesWithFanOut(q)]_vars

\* The envelopes the file holds for a mailbox, without order or multiplicity.
Owed(q) == {r.env : r \in {x \in Rows : x.queue = q}}

DS == INSTANCE DeliveryService
        WITH queue <- dbQueues, backlog <- [q \in QueueId |-> Owed(q)]

\* The relay implements the Delivery Service: what the file holds moves only
\* by whole creations, posts, fan-outs, commits that name the current epoch,
\* and acknowledgements.  A crash at any point, a restart, a failed write and
\* the memory half of every handler are invisible.
ImplementsDeliveryService == DS!Spec

\* While the process runs, its queue map is the one on disk, except for what
\* the handler in progress has written and not yet applied.
MapFollowsDisk ==
    status = "up" =>
        dbQueues = CASE request.op = "create" ->
                          [queues EXCEPT ![request.queue] = dbQueues[request.queue]]
                     [] request.op = "group" /\ request.commit ->
                          [queues EXCEPT ![request.queue].epoch = @ + 1]
                     [] OTHER -> queues

\* A handler whose transaction committed has its rows on disk.
RequestIsDurable ==
    /\ status # "up" => request = NoRequest
    /\ request.op = "mailbox" => request.env \in Owed(request.queue)
    /\ request.op = "group" =>
         \A m \in Recipients(queues[request.queue].roster) : request.env \in Owed(m)

\* Only epochs the inbox has left behind have been won.
WinsAreBehind ==
    \A q \in QueueId, e \in Epochs :
        wins[q][e] > 0 => dbQueues[q].kind = "inbox" /\ e < dbQueues[q].epoch

\* The inductive invariant behind the Delivery Service rule and durability.
QueuesInv ==
    /\ QueuesTypeOK
    /\ MapFollowsDisk
    /\ RequestIsDurable
    /\ WinsAreBehind
    /\ OneCommitPerEpoch
    /\ AcknowledgedIsDurable

\* A row is in a mailbox, which has one deque: on disk, and in the map of a
\* running process.  A queue being created is in the map no earlier than in
\* the file, and so has no row yet.
RowsHaveMailboxes ==
    /\ \A r \in Rows : dbQueues[r.queue].kind = "mailbox"
    /\ status = "up" => Rows \subseteq {r \in Row : IsMailbox(r.queue)}
    /\ request.op = "create" => queues[request.queue].kind = "none"

\* The file and the deques agree, but for the rows of a send, or without those
\* of an ack, that the handler in progress has yet to apply.
BehindBySend(targets, env) ==
    /\ \A q \in QueueId : Backlog(q) = pending[q] \o Copies(targets, env, q)
    /\ StoredBytes = bytesUsed + env.len * Len(Filter(targets, Mailboxes))

BehindByAck(p, id) ==
    /\ \A q \in QueueId :
         Backlog(q) = IF q = p THEN Retained(pending[q], id) ELSE pending[q]
    /\ StoredBytes + Bytes(Released(pending[p], id)) = bytesUsed

UpToDate ==
    /\ \A q \in QueueId : Backlog(q) = pending[q]
    /\ StoredBytes = bytesUsed

\* MemoryMirrorsDisk at every step of a running process.
MemoryFollowsFile ==
    status = "up" =>
        CASE request.op = "mailbox" -> BehindBySend(<<request.queue>>, request.env)
          [] request.op = "group" ->
               BehindBySend(queues[request.queue].roster, request.env)
          [] request.op = "ack" -> BehindByAck(request.queue, request.id)
          [] OTHER -> UpToDate

\* The inductive invariant behind the two properties of the deques.
DequesInv ==
    /\ MemoryTypeOK
    /\ RowsHaveMailboxes
    /\ MemoryFollowsFile
    /\ BacklogReachesSubscribers

============================================================================
