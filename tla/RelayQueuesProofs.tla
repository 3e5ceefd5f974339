------------------------- MODULE RelayQueuesProofs --------------------------
(***************************************************************************)
(* Proofs about the relay's state (relay/src/state.rs).  RelayQueues, for  *)
(* every set of queues, envelopes, rosters and connections and every value *)
(* of the limits: the Delivery Service accepts one commit per epoch, what  *)
(* it has acknowledged is on disk, an epoch moves only with its fan-out,   *)
(* and the relay implements DeliveryService; memory is what a restart      *)
(* would read, every live subscriber has been pushed the whole backlog in  *)
(* order, and the limits on the rate and on the storage hold.              *)
(*                                                                         *)
(* The argument for the deques: between a write and its memory half, the   *)
(* file is ahead of memory by exactly the request in progress.  What the   *)
(* loops over rows, deques and channels make of that step is computed with *)
(* the lemmas of LoopProofs.                                               *)
(***************************************************************************)
EXTENDS RelayQueues, LoopProofs, TLAPS

\* The shape of the handler in progress, by its operation.
LEMMA RequestShape ==
  ASSUME request \in Request
  PROVE  /\ request.op \in {"none", "create", "mailbox", "group", "ack"}
         /\ request.op # "none" => request.queue \in QueueId
         /\ request.op \in {"mailbox", "group"} => request.env \in Envelope
         /\ request.op = "group" => request.commit \in BOOLEAN
         /\ request.op = "none" => request = NoRequest
  BY DEF Request, NoRequest

\* A handler starts only when memory and disk agree.
LEMMA IdleAgrees ==
  ASSUME QueuesInv, Idle
  PROVE  dbQueues = queues /\ request.op = "none"
  BY DEF QueuesInv, MapFollowsDisk, Idle, NoRequest

\* The queue entries that the handlers build are queues.
LEMMA EntriesAreQueues ==
  /\ NoQueue \in Queue
  /\ Mailbox \in Queue
  /\ \A e \in InitialEpochs, r \in Rosters : GroupInbox(e, r) \in Queue
  <1>1. << >> \in Seq(QueueId)
    OBVIOUS
  <1>2. NoQueue \in Queue
    BY Zenon, <1>1 DEF NoQueue, Queue
  <1>3. Mailbox \in Queue
    BY <1>1 DEF Mailbox, Queue
  <1>4. ASSUME NEW e \in InitialEpochs, NEW r \in Rosters
        PROVE  GroupInbox(e, r) \in Queue
    <2>1. e \in Nat /\ r \in Seq(QueueId)
      BY ListsAssumption, BoundsAssumption
    <2> QED
      BY <2>1 DEF GroupInbox, Queue
  <1> QED
    BY <1>2, <1>3, <1>4

\* A queue whose epoch advances is a queue.
LEMMA AdvancedIsQueue ==
  ASSUME NEW x \in Queue
  PROVE  [x EXCEPT !.epoch = @ + 1] \in Queue
  <1>1. x.epoch + 1 \in Nat
    BY DEF Queue
  <1> QED
    BY Zenon, <1>1 DEF Queue

\* The initial state satisfies the invariant.
LEMMA QueuesInvInit == Init => QueuesInv
  <1> SUFFICES ASSUME Init PROVE QueuesInv
    BY Zenon
  <1>0. << >> \in Seq(Row)
    OBVIOUS
  <1>1. QueuesTypeOK
    BY Zenon, <1>0, EntriesAreQueues DEF Init, QueuesTypeOK, Request
  <1>2. MapFollowsDisk
    BY Zenon DEF Init, MapFollowsDisk, NoRequest
  <1>3. RequestIsDurable
    BY Zenon DEF Init, RequestIsDurable, NoRequest
  <1>4. WinsAreBehind /\ OneCommitPerEpoch /\ AcknowledgedIsDurable
    BY DEF Init, WinsAreBehind, OneCommitPerEpoch, AcknowledgedIsDurable, Rows
  <1> QED
    BY <1>1, <1>2, <1>3, <1>4 DEF QueuesInv

-----------------------------------------------------------------------------
(* Each action preserves the invariant. *)

\* A step that leaves the table alone leaves its rows.
LEMMA SameRows ==
  ASSUME UNCHANGED dbPending
  PROVE  Rows' = Rows /\ Rows \subseteq Rows'
  BY Zenon DEF Rows

\* What the invariant says of a state holds of any state with the same file,
\* queue map, status, request and history.
LEMMA QueuesInvFrame ==
  ASSUME QueuesInv,
         UNCHANGED <<dbVars, queues, status, request, promised, wins>>
  PROVE  QueuesInv'
  <1>1. (QueuesTypeOK /\ MapFollowsDisk)'
    BY DEF QueuesInv, QueuesTypeOK, MapFollowsDisk, dbVars
  <1>2. RequestIsDurable'
    BY DEF QueuesInv, RequestIsDurable, Owed, Rows, Recipients, Mailboxes, IsMailbox, dbVars
  <1>3. (WinsAreBehind)'
    BY Zenon DEF QueuesInv, WinsAreBehind, dbVars
  <1>4. OneCommitPerEpoch'
    BY Zenon DEF QueuesInv, OneCommitPerEpoch
  <1>5. AcknowledgedIsDurable'
    BY Zenon, SameRows DEF QueuesInv, AcknowledgedIsDurable, dbVars
  <1> QED
    BY <1>1, <1>2, <1>3, <1>4, <1>5 DEF QueuesInv

\* The rows of the table have their type.
LEMMA RowsTyped ==
  ASSUME dbPending \in Seq(Row)
  PROVE  \A r \in Rows : r \in Row /\ r.queue \in QueueId
  <1>1. Rows \subseteq Row
    BY DEF Rows
  <1> QED
    BY Zenon, <1>1 DEF Row

\* Rows that are added to the table leave what was promised on disk.
LEMMA MoreRows ==
  ASSUME Rows \subseteq Rows', AcknowledgedIsDurable, promised' = promised
  PROVE  AcknowledgedIsDurable'
  BY Zenon DEF AcknowledgedIsDurable

\* Creating a queue, up to the committed transaction.
LEMMA CreateInv ==
  ASSUME QueuesInv, NEW q \in QueueId, NEW entry \in Queue, Create(q, entry)
  PROVE  QueuesInv'
  <1> USE DEF Create, memVars, netVars
  <1>1. dbQueues = queues /\ request.op = "none"
    BY Zenon, IdleAgrees
  <1>2. QueuesTypeOK'
    BY Zenon DEF QueuesInv, QueuesTypeOK, Request
  <1>3. MapFollowsDisk'
    BY <1>1 DEF QueuesInv, QueuesTypeOK, MapFollowsDisk, Idle
  <1>4. RequestIsDurable'
    BY Zenon DEF QueuesInv, RequestIsDurable, Idle
  <1>5. WinsAreBehind'
    BY <1>1 DEF QueuesInv, QueuesTypeOK, WinsAreBehind, Fresh
  <1>6. OneCommitPerEpoch' /\ AcknowledgedIsDurable'
    BY Zenon, SameRows, MoreRows DEF QueuesInv, OneCommitPerEpoch
  <1> QED
    BY Zenon, <1>2, <1>3, <1>4, <1>5, <1>6 DEF QueuesInv

\* Creating a queue, the memory half.
LEMMA CreateDoneInv ==
  ASSUME QueuesInv, CreateDone
  PROVE  QueuesInv'
  <1> USE DEF CreateDone, dbVars, netVars
  <1>1. request.queue \in QueueId
    BY Zenon, RequestShape DEF QueuesInv, QueuesTypeOK
  <1>2. queues' = dbQueues
    BY Zenon, <1>1 DEF QueuesInv, QueuesTypeOK, MapFollowsDisk
  <1>3. QueuesTypeOK'
    BY Zenon, <1>2 DEF QueuesInv, QueuesTypeOK, Request
  <1>4. MapFollowsDisk'
    BY Zenon, <1>2 DEF MapFollowsDisk, NoRequest
  <1>5. RequestIsDurable'
    BY DEF RequestIsDurable, NoRequest
  <1>6. WinsAreBehind' /\ OneCommitPerEpoch' /\ AcknowledgedIsDurable'
    BY Zenon, SameRows, MoreRows DEF QueuesInv, WinsAreBehind, OneCommitPerEpoch
  <1> QED
    BY <1>3, <1>4, <1>5, <1>6 DEF QueuesInv

\* The rows that a send adds: one for each recipient, with the envelope.
LEMMA SentRows ==
  ASSUME NEW s \in Seq(Row), NEW targets \in Seq(QueueId), NEW env \in Envelope
  PROVE  /\ Tagged(Stored(targets), env) \in Seq(Row)
         /\ s \o Tagged(Stored(targets), env) \in Seq(Row)
         /\ Elements(Tagged(Stored(targets), env)) =
              {[queue |-> m, env |-> env] : m \in Recipients(targets)}
         /\ Elements(s \o Tagged(Stored(targets), env)) =
              Elements(s) \cup {[queue |-> m, env |-> env] : m \in Recipients(targets)}
  <1>1. PICK stored \in Seq(QueueId) : stored = Stored(targets)
    BY Zenon, FilterBasics DEF Stored
  <1>2. Elements(stored) = Recipients(targets)
    <2>1. Elements(Filter(targets, Mailboxes)) = Elements(targets) \cap Mailboxes
      BY Zenon, FilterElements
    <2>2. Recipients(targets) = Elements(targets) \cap Mailboxes
      BY Zenon DEF Recipients, Elements
    <2> QED
      BY Zenon, <1>1, <2>1, <2>2 DEF Stored
  <1>3. \A i \in 1 .. Len(stored) : [queue |-> stored[i], env |-> env] \in Row
    BY DEF Row
  <1>a. Tagged(stored, env) \in Seq(Row)
    BY <1>3 DEF Tagged
  <1>4. PICK t \in Seq(Row) : t = Tagged(stored, env)
    BY Zenon, <1>a
  <1>5. Elements(t) = {[queue |-> m, env |-> env] : m \in Elements(stored)}
    BY <1>4 DEF Elements, Tagged
  <1>6. s \o t \in Seq(Row) /\ Elements(s \o t) = Elements(s) \cup Elements(t)
    BY ElementsConcat, ConcatAt
  <1> QED
    BY Zenon, <1>1, <1>2, <1>4, <1>5, <1>6

\* A mailbox send is a send to a list of one.
LEMMA SentToOne ==
  ASSUME NEW q \in QueueId, IsMailbox(q), NEW s \in Seq(Row), NEW env \in Envelope
  PROVE  /\ Append(s, [queue |-> q, env |-> env]) = s \o Tagged(Stored(<<q>>), env)
         /\ Recipients(<<q>>) = {q}
         /\ <<q>> \in Seq(QueueId)
  <1>1. <<q>> \in Seq(QueueId) /\ <<q>> = Append(<<>>, q) /\ <<>> \in Seq(QueueId)
    OBVIOUS
  <1>2. q \in Mailboxes
    BY Zenon DEF Mailboxes
  <1>3. Filter(Append(<<>>, q), Mailboxes) = Append(Filter(<<>>, Mailboxes), q)
    BY Zenon, <1>1, <1>2, FilterAppend
  <1>4. Stored(<<q>>) = <<q>>
    BY Zenon, <1>1, <1>3, FilterBasics DEF Stored
  <1>5. Tagged(<<q>>, env) = <<[queue |-> q, env |-> env]>>
    BY DEF Tagged
  <1>6. PICK row \in Row : row = [queue |-> q, env |-> env]
    BY Zenon DEF Row
  <1>7. Append(s, row) = s \o <<row>>
    OBVIOUS
  <1>8. Recipients(<<q>>) = {q}
    BY <1>2 DEF Recipients
  <1> QED
    BY Zenon, <1>1, <1>4, <1>5, <1>6, <1>7, <1>8

\* What a send adds to the file is, for every recipient, the envelope.
LEMMA SendOwes ==
  ASSUME dbPending \in Seq(Row), NEW STATE targets, targets \in Seq(QueueId),
         NEW env \in Envelope, dbPending' = dbPending \o Tagged(Stored(targets), env)
  PROVE  /\ dbPending' \in Seq(Row)
         /\ Rows \subseteq Rows'
         /\ \A q \in QueueId : Owed(q)' = IF q \in Recipients(targets)
                                          THEN Owed(q) \cup {env} ELSE Owed(q)
  <1> DEFINE new == {[queue |-> m, env |-> env] : m \in Recipients(targets)}
  <1>1. Rows = Elements(dbPending) /\ Rows' = Elements(dbPending')
    BY Zenon DEF Rows, Elements
  <1>2. dbPending' \in Seq(Row) /\ Rows' = Rows \cup new
    BY Zenon, <1>1, SentRows
  <1> SUFFICES ASSUME NEW q \in QueueId
               PROVE  Owed(q)' = IF q \in Recipients(targets)
                                 THEN Owed(q) \cup {env} ELSE Owed(q)
    BY Zenon, <1>2
  <1>3. CASE q \in Recipients(targets)
    <2>1. [queue |-> q, env |-> env] \in new
      BY Zenon, <1>3
    <2>2. \A r \in new : r.env = env
      OBVIOUS
    <2> QED
      BY <1>2, <1>3, <2>1, <2>2 DEF Owed
  <1>4. CASE q \notin Recipients(targets)
    <2>1. \A r \in new : r.queue # q
      BY <1>4
    <2> QED
      BY <1>2, <1>4, <2>1 DEF Owed
  <1> QED
    BY Zenon, <1>3, <1>4

\* A mailbox send, up to its INSERT.
LEMMA SendToMailboxInv ==
  ASSUME QueuesInv, NEW q \in QueueId, NEW env \in Envelope, NEW old \in BOOLEAN,
         SendToMailbox(q, env, old)
  PROVE  QueuesInv'
  <1> USE DEF SendToMailbox, netVars
  <1>1. CASE ~(WithinRate(q, old) /\ ~WouldExceedStorageBound(env, 1))
    BY Zenon, <1>1, QueuesInvFrame DEF dbVars
  <1>2. CASE WithinRate(q, old) /\ ~WouldExceedStorageBound(env, 1)
    <2>1. dbQueues = queues /\ request.op = "none"
      BY IdleAgrees
    <2>2. dbPending \in Seq(Row) /\ dbSeq \in Nat
      BY Zenon DEF QueuesInv, QueuesTypeOK
    <2>3. /\ dbPending' = dbPending \o Tagged(Stored(<<q>>), env)
          /\ Recipients(<<q>>) = {q}
          /\ <<q>> \in Seq(QueueId)
      BY Zenon, <1>2, <2>2, SentToOne
    <2>4. /\ dbPending' \in Seq(Row)
          /\ Rows \subseteq Rows'
          /\ \A p \in QueueId : Owed(p)' = IF p \in {q} THEN Owed(p) \cup {env} ELSE Owed(p)
      BY Zenon, <2>2, <2>3, SendOwes
    <2>5. QueuesTypeOK'
      <3>1. request' \in Request
        BY <1>2 DEF Request
      <3>2. dbSeq' \in Nat
        BY <1>2, <2>2
      <3> QED
        BY Zenon, <2>4, <3>1, <3>2 DEF QueuesInv, QueuesTypeOK
    <2>6. MapFollowsDisk'
      BY <1>2, <2>1 DEF MapFollowsDisk
    <2>7. RequestIsDurable'
      <3>1. env \in Owed(q)'
        BY Zenon, <2>4
      <3> QED
        BY <1>2, <3>1 DEF RequestIsDurable, Idle
    <2>8. WinsAreBehind' /\ OneCommitPerEpoch' /\ AcknowledgedIsDurable'
      BY Zenon, <2>4, MoreRows DEF QueuesInv, WinsAreBehind, OneCommitPerEpoch
    <2> QED
      BY Zenon, <2>5, <2>6, <2>7, <2>8 DEF QueuesInv
  <1> QED
    BY Zenon, <1>1, <1>2

\* A mailbox send, the memory half and the Ok reply.
LEMMA SendToMailboxDoneInv ==
  ASSUME QueuesInv, SendToMailboxDone
  PROVE  QueuesInv'
  <1> USE DEF SendToMailboxDone, dbVars
  <1>1. request.queue \in QueueId /\ request.env \in Envelope
    BY Zenon, RequestShape DEF QueuesInv, QueuesTypeOK
  <1>2. QueuesTypeOK'
    BY <1>1 DEF QueuesInv, QueuesTypeOK, Request
  <1>3. MapFollowsDisk' /\ RequestIsDurable'
    BY DEF QueuesInv, MapFollowsDisk, RequestIsDurable, NoRequest
  <1>4. AcknowledgedIsDurable'
    <2>1. request.env \in Owed(request.queue)
      BY DEF QueuesInv, RequestIsDurable
    <2>2. \E r \in Rows : r.queue = request.queue /\ r.env = request.env
      BY Zenon, <2>1 DEF Owed
    <2>3. Rows' = Rows
      BY Zenon DEF Rows
    <2> QED
      BY <2>2, <2>3 DEF QueuesInv, AcknowledgedIsDurable
  <1>5. WinsAreBehind' /\ OneCommitPerEpoch'
    BY Zenon DEF QueuesInv, WinsAreBehind, OneCommitPerEpoch
  <1> QED
    BY <1>2, <1>3, <1>4, <1>5 DEF QueuesInv

\* A group send, up to the commit of its transaction.
LEMMA SendToGroupInboxInv ==
  ASSUME QueuesInv, NEW q \in QueueId, NEW commit \in BOOLEAN, NEW target \in Epochs,
         NEW env \in Envelope, NEW old \in BOOLEAN,
         SendToGroupInbox(q, commit, target, env, old)
  PROVE  QueuesInv'
  <1> DEFINE roster == queues[q].roster
  <1> USE DEF SendToGroupInbox, netVars
  <1>1. CASE ~WithinRate(q, old)
    BY Zenon, <1>1, QueuesInvFrame DEF dbVars
  <1>2. CASE WithinRate(q, old)
    <2>1. dbQueues = queues /\ request.op = "none"
      BY Zenon, IdleAgrees
    <2>2. /\ dbPending \in Seq(Row)
          /\ dbSeq \in Nat
          /\ roster \in Seq(QueueId)
          /\ queues[q] \in Queue
      BY Zenon DEF QueuesInv, QueuesTypeOK, Queue
    <2>3. dbPending' = dbPending \o Tagged(Stored(roster), env)
      BY Zenon, <1>2
    <2>a. /\ dbPending' \in Seq(Row)
          /\ Rows \subseteq Rows'
          /\ \A p \in QueueId : Owed(p)' = IF p \in Recipients(roster)
                                           THEN Owed(p) \cup {env} ELSE Owed(p)
      BY Zenon, <2>2, <2>3, SendOwes
    <2>4. request' = [op |-> "group", queue |-> q, env |-> env, commit |-> commit]
      BY Zenon, <1>2
    <2>5. dbQueues' = IF commit THEN [dbQueues EXCEPT ![q].epoch = @ + 1] ELSE dbQueues
      BY Zenon, <1>2
    <2>6. wins' = IF commit THEN [wins EXCEPT ![q][target] = @ + 1] ELSE wins
      BY Zenon, <1>2
    <2>7. QueuesTypeOK'
      <3>1. dbPending' \in Seq(Row)
        BY Zenon, <2>a
      <3>2. request' \in Request
        BY Zenon, <2>4 DEF Request
      <3>3. dbQueues' \in [QueueId -> Queue]
        <4>1. [queues[q] EXCEPT !.epoch = @ + 1] \in Queue
          BY Zenon, <2>2, AdvancedIsQueue
        <4>2. dbQueues' = IF commit
                          THEN [dbQueues EXCEPT ![q] = [queues[q] EXCEPT !.epoch = @ + 1]]
                          ELSE dbQueues
          BY <2>1, <2>5
        <4> QED
          BY <4>1, <4>2 DEF QueuesInv, QueuesTypeOK
      <3>4. wins' \in [QueueId -> [Epochs -> Nat]]
        BY <2>6 DEF QueuesInv, QueuesTypeOK
      <3>5. dbSeq' \in Nat
        BY <1>2, <2>2
      <3> QED
        BY Zenon, <3>1, <3>2, <3>3, <3>4, <3>5 DEF QueuesInv, QueuesTypeOK
    <2>8. MapFollowsDisk'
      BY <2>1, <2>4, <2>5 DEF MapFollowsDisk
    <2>9. RequestIsDurable'
      <3>1. \A m \in Recipients(roster) : m \in QueueId /\ env \in Owed(m)'
        BY Zenon, <2>a DEF Recipients, Mailboxes
      <3>2. Recipients(queues[q].roster)' = Recipients(roster) /\ queues' = queues
        BY Zenon DEF Recipients, Mailboxes, IsMailbox
      <3> QED
        BY Zenon, <2>4, <3>1, <3>2 DEF RequestIsDurable, Idle
    <2>10. commit => wins[q][target] = 0
      <3>1. commit => target = dbQueues[q].epoch
        BY Zenon, <2>1 DEF EpochMatches
      <3>2. wins[q][target] \in Nat /\ dbQueues[q].epoch \in Nat
        BY <2>1, <2>2 DEF QueuesInv, QueuesTypeOK, Queue
      <3> QED
        BY <3>1, <3>2 DEF QueuesInv, WinsAreBehind
    <2>11. WinsAreBehind'
      <3> SUFFICES ASSUME NEW p \in QueueId, NEW e \in Epochs, wins'[p][e] > 0
                   PROVE  dbQueues'[p].kind = "inbox" /\ e < dbQueues'[p].epoch
        BY Zenon DEF WinsAreBehind
      <3>1. CASE commit /\ p = q /\ e = target
        BY <2>1, <2>2, <2>5, <3>1 DEF Queue, QueuesInv, QueuesTypeOK, EpochMatches
      <3>2. CASE ~(commit /\ p = q /\ e = target)
        <4>1. wins'[p][e] = wins[p][e]
          BY Zenon, <2>6, <3>2 DEF QueuesInv, QueuesTypeOK
        <4>2. dbQueues[p].kind = "inbox" /\ e < dbQueues[p].epoch
          BY <4>1 DEF QueuesInv, WinsAreBehind
        <4>3. dbQueues'[p].kind = dbQueues[p].kind /\
                dbQueues'[p].epoch \in {dbQueues[p].epoch, dbQueues[p].epoch + 1}
          BY Zenon, <2>5 DEF QueuesInv, QueuesTypeOK, Queue
        <4>4. e \in Int /\ dbQueues[p].epoch \in Nat
          BY DEF QueuesInv, QueuesTypeOK, Queue, Epochs
        <4> QED
          BY <4>2, <4>3, <4>4
      <3> QED
        BY Zenon, <3>1, <3>2
    <2>12. OneCommitPerEpoch'
      <3> SUFFICES ASSUME NEW p \in QueueId, NEW e \in Epochs
                   PROVE  wins'[p][e] <= 1
        BY DEF OneCommitPerEpoch
      <3>1. CASE commit /\ p = q /\ e = target
        BY <2>6, <2>10, <3>1 DEF QueuesInv, QueuesTypeOK
      <3>2. CASE ~(commit /\ p = q /\ e = target)
        BY <2>6, <3>2 DEF QueuesInv, QueuesTypeOK, OneCommitPerEpoch
      <3> QED
        BY <3>1, <3>2
    <2>13. AcknowledgedIsDurable'
      BY Zenon, <2>a, MoreRows DEF QueuesInv
    <2> QED
      BY <2>7, <2>8, <2>9, <2>11, <2>12, <2>13 DEF QueuesInv
  <1> QED
    BY Zenon, <1>1, <1>2

\* A group send, the memory half and the Ok reply.
LEMMA SendToGroupInboxDoneInv ==
  ASSUME QueuesInv, SendToGroupInboxDone
  PROVE  QueuesInv'
  <1> DEFINE q == request.queue
             roster == queues[q].roster
  <1> USE DEF SendToGroupInboxDone, dbVars
  <1>1. q \in QueueId /\ request.env \in Envelope /\ request.commit \in BOOLEAN
    BY Zenon, RequestShape DEF QueuesInv, QueuesTypeOK
  <1>2. queues' = dbQueues
    BY Zenon, <1>1 DEF QueuesInv, MapFollowsDisk
  <1>3. roster \in Seq(QueueId)
    BY Zenon, <1>1 DEF QueuesInv, QueuesTypeOK, Queue
  <1>4. promised' = promised \cup
          {[queue |-> m, env |-> request.env] : m \in Recipients(roster)}
    BY Zenon
  <1>5. QueuesTypeOK'
    <2>1. Recipients(roster) \subseteq QueueId
      BY Zenon DEF Recipients, Mailboxes
    <2>2. promised' \subseteq [queue : QueueId, env : Envelope]
      BY <1>1, <1>4, <2>1 DEF QueuesInv, QueuesTypeOK
    <2> QED
      BY Zenon, <1>2, <2>2 DEF QueuesInv, QueuesTypeOK, Request
  <1>6. MapFollowsDisk' /\ RequestIsDurable'
    BY Zenon, <1>2 DEF MapFollowsDisk, RequestIsDurable, NoRequest
  <1>7. AcknowledgedIsDurable'
    <2> SUFFICES ASSUME NEW p \in promised'
                 PROVE  \E r \in Rows : r.queue = p.queue /\ r.env = p.env
      BY Zenon, SameRows DEF AcknowledgedIsDurable
    <2>1. CASE p \in promised
      BY Zenon, <2>1 DEF QueuesInv, AcknowledgedIsDurable
    <2>2. CASE p \notin promised
      <3>1. PICK m \in Recipients(roster) : p = [queue |-> m, env |-> request.env]
        BY Zenon, <1>4, <2>2
      <3>2. request.env \in Owed(m)
        BY Zenon, <3>1 DEF QueuesInv, RequestIsDurable
      <3> QED
        BY Zenon, <3>1, <3>2 DEF Owed
    <2> QED
      BY Zenon, <2>1, <2>2
  <1>8. WinsAreBehind' /\ OneCommitPerEpoch'
    BY Zenon DEF QueuesInv, WinsAreBehind, OneCommitPerEpoch
  <1> QED
    BY <1>5, <1>6, <1>7, <1>8 DEF QueuesInv

\* The rows that the DELETE of an acknowledgement leaves.
LEMMA AckedRows ==
  ASSUME dbPending \in Seq(Row), NEW q, NEW id,
         dbPending' = Filter(dbPending, {r \in Row : r.queue # q \/ r.env.id # id})
  PROVE  /\ dbPending' \in Seq(Row)
         /\ Rows' = {r \in Rows : r.queue # q \/ r.env.id # id}
  <1>1. Rows = Elements(dbPending) /\ Rows' = Elements(dbPending')
    BY Zenon DEF Rows, Elements
  <1>2. /\ dbPending' \in Seq(Row)
        /\ Rows' = Rows \cap {r \in Row : r.queue # q \/ r.env.id # id}
    BY Zenon, <1>1, FilterBasics, FilterElements
  <1>3. Rows \subseteq Row
    BY DEF Rows
  <1> QED
    BY Zenon, <1>2, <1>3

\* An acknowledgement, up to its DELETE: it takes away only rows of messages
\* that are no longer promised.
LEMMA AckInv ==
  ASSUME QueuesInv, NEW q \in QueueId, NEW env \in Envelope, Ack(q, env.id)
  PROVE  QueuesInv'
  <1> USE DEF Ack, memVars, netVars
  <1>1. dbQueues = queues /\ request.op = "none"
    BY IdleAgrees
  <1>2. dbPending' \in Seq(Row) /\ Rows' = {r \in Rows : r.queue # q \/ r.env.id # env.id}
    BY Zenon, AckedRows DEF QueuesInv, QueuesTypeOK
  <1>3. QueuesTypeOK'
    BY Zenon, <1>2 DEF QueuesInv, QueuesTypeOK, Request
  <1>4. MapFollowsDisk' /\ RequestIsDurable'
    BY <1>1 DEF MapFollowsDisk, RequestIsDurable, Idle
  <1>5. AcknowledgedIsDurable'
    BY <1>2 DEF QueuesInv, AcknowledgedIsDurable
  <1>6. WinsAreBehind' /\ OneCommitPerEpoch'
    BY DEF QueuesInv, WinsAreBehind, OneCommitPerEpoch
  <1> QED
    BY Zenon, <1>3, <1>4, <1>5, <1>6 DEF QueuesInv

\* An acknowledgement, the memory half.
LEMMA AckDoneInv ==
  ASSUME QueuesInv, AckDone
  PROVE  QueuesInv'
  <1> USE DEF AckDone, dbVars
  <1>1. queues' = dbQueues /\ queues = dbQueues
    BY DEF QueuesInv, MapFollowsDisk
  <1>2. QueuesTypeOK'
    BY Zenon DEF QueuesInv, QueuesTypeOK, Request
  <1>3. MapFollowsDisk' /\ RequestIsDurable'
    BY Zenon, <1>1 DEF MapFollowsDisk, RequestIsDurable, NoRequest
  <1>4. AcknowledgedIsDurable' /\ WinsAreBehind' /\ OneCommitPerEpoch'
    BY Zenon, SameRows, MoreRows DEF QueuesInv, WinsAreBehind, OneCommitPerEpoch
  <1> QED
    BY <1>2, <1>3, <1>4 DEF QueuesInv

\* A crash loses memory and the handler in progress, and a failed write loses
\* nothing; neither touches the file.
LEMMA CrashInv ==
  ASSUME QueuesInv, Crash \/ PersistenceFails
  PROVE  QueuesInv'
  <1> USE DEF Crash, PersistenceFails, dbVars, memVars
  <1>1. QueuesTypeOK'
    BY EntriesAreQueues DEF QueuesInv, QueuesTypeOK, Request
  <1>2. MapFollowsDisk' /\ RequestIsDurable'
    BY DEF MapFollowsDisk, RequestIsDurable, NoRequest, Idle
  <1>3. AcknowledgedIsDurable' /\ WinsAreBehind' /\ OneCommitPerEpoch'
    BY Zenon, SameRows, MoreRows DEF QueuesInv, WinsAreBehind, OneCommitPerEpoch
  <1> QED
    BY Zenon, <1>1, <1>2, <1>3 DEF QueuesInv

\* A restart rebuilds the map from the file.
LEMMA OpenInv ==
  ASSUME QueuesInv, Open
  PROVE  QueuesInv'
  <1> USE DEF Open, dbVars
  <1>1. request = NoRequest
    BY Zenon DEF QueuesInv, RequestIsDurable
  <1>2. QueuesTypeOK'
    BY Zenon DEF QueuesInv, QueuesTypeOK
  <1>3. MapFollowsDisk' /\ RequestIsDurable'
    BY Zenon, <1>1 DEF MapFollowsDisk, RequestIsDurable, NoRequest
  <1>4. AcknowledgedIsDurable' /\ WinsAreBehind' /\ OneCommitPerEpoch'
    BY Zenon, SameRows, MoreRows DEF QueuesInv, WinsAreBehind, OneCommitPerEpoch
  <1> QED
    BY <1>2, <1>3, <1>4 DEF QueuesInv

\* Every step preserves the invariant.
LEMMA QueuesInvNext == QueuesInv /\ [Next]_vars => QueuesInv'
  <1> SUFFICES ASSUME QueuesInv, [Next]_vars PROVE QueuesInv'
    BY Zenon
  <1>1. CASE UNCHANGED vars
    BY Zenon, <1>1, QueuesInvFrame DEF vars, dbVars, memVars
  <1>2. ASSUME NEW q \in QueueId, CreateMailbox(q)
        PROVE  QueuesInv'
    BY <1>2, CreateInv, EntriesAreQueues DEF CreateMailbox
  <1>3. ASSUME NEW q \in QueueId, NEW e \in InitialEpochs, NEW r \in Rosters,
               CreateGroupInbox(q, e, r)
        PROVE  QueuesInv'
    BY <1>3, CreateInv, EntriesAreQueues DEF CreateGroupInbox
  <1>4. ASSUME NEW c \in Conn, NEW l \in WatchLists, Subscribe(c, l)
        PROVE  QueuesInv'
    BY <1>4, QueuesInvFrame DEF Subscribe
  <1>5. ASSUME NEW q \in QueueId, NEW env \in Envelope, NEW old \in BOOLEAN,
               SendToMailbox(q, env, old)
        PROVE  QueuesInv'
    BY <1>5, SendToMailboxInv
  <1>6. ASSUME NEW q \in QueueId, NEW commit \in BOOLEAN, NEW t \in Epochs,
               NEW env \in Envelope, NEW old \in BOOLEAN,
               SendToGroupInbox(q, commit, t, env, old)
        PROVE  QueuesInv'
    BY <1>6, SendToGroupInboxInv
  <1>7. ASSUME NEW q \in QueueId, NEW env \in Envelope, Ack(q, env.id)
        PROVE  QueuesInv'
    BY <1>7, AckInv
  <1>8. CASE Completion
    BY <1>8, CreateDoneInv, SendToMailboxDoneInv, SendToGroupInboxDoneInv, AckDoneInv
       DEF Completion
  <1>9. ASSUME NEW c \in Conn, Connect(c) \/ Disconnect(c)
        PROVE  QueuesInv'
    BY <1>9, QueuesInvFrame DEF Connect, Disconnect, memVars
  <1>10. CASE PersistenceFails \/ Crash \/ Open
    BY Zenon, <1>10, CrashInv, OpenInv
  <1> QED
    BY <1>1, <1>2, <1>3, <1>4, <1>5, <1>6, <1>7, <1>8, <1>9, <1>10
       DEF Next, Handler, Environment

\* The inductive invariant holds of the relay.
THEOREM QueuesInvHolds == Spec => []QueuesInv
  <1>1. Init => QueuesInv
    BY QueuesInvInit
  <1>2. QueuesInv /\ [Next]_vars => QueuesInv'
    BY QueuesInvNext
  <1> QED
    BY <1>1, <1>2, PTL DEF Spec

\* The Delivery Service rule, for any number of inboxes, clients and crashes:
\* no epoch of an inbox is won twice.
THEOREM DeliveryServiceRule == Spec => []OneCommitPerEpoch
  BY QueuesInvHolds, PTL DEF QueuesInv

\* Durable before acknowledged, for any number of mailboxes, messages and
\* crashes.
THEOREM AcknowledgedStaysDurable == Spec => []AcknowledgedIsDurable
  BY QueuesInvHolds, PTL DEF QueuesInv

\* What is concatenated comes behind.
LEMMA NewIsBehind ==
  ASSUME NEW s \in Seq(Row), NEW new \in Seq(Row), NEW x \in Elements(new)
  PROVE  \E k \in Len(s) + 1 .. Len(s \o new) : (s \o new)[k] = x
  <1>1. PICK j \in 1 .. Len(new) : new[j] = x
    BY DEF Elements
  <1>2. /\ Len(s) + j \in Len(s) + 1 .. Len(s \o new)
        /\ (s \o new)[Len(s) + j] = x
    BY <1>1
  <1> QED
    BY <1>2

\* An epoch moves only in the transaction of a group send, which puts its
\* rows behind every row of the table.
LEMMA EpochStep ==
  ASSUME QueuesInv, Next, NEW q \in QueueId
  PROVE  MovesWithFanOut(q)
  <1> SUFFICES ASSUME dbQueues[q].kind = "inbox", dbQueues'[q] # dbQueues[q]
               PROVE  MovesWithFanOut(q)
    BY Zenon DEF MovesWithFanOut
  <1>1. dbQueues \in [QueueId -> Queue] /\ dbPending \in Seq(Row)
    BY DEF QueuesInv, QueuesTypeOK
  <1>2. ~\E p \in QueueId, entry \in Queue : Create(p, entry)
    BY <1>1, IdleAgrees DEF Create, Fresh
  <1>3. PICK p \in QueueId, commit \in BOOLEAN, t \in Epochs, env \in Envelope,
             old \in BOOLEAN : SendToGroupInbox(p, commit, t, env, old)
    BY Zenon, <1>2, EntriesAreQueues
       DEF Next, Handler, Completion, Environment, CreateMailbox, CreateGroupInbox, Subscribe,
           SendToMailbox, Ack, CreateDone, SendToMailboxDone, SendToGroupInboxDone, AckDone,
           Connect, Disconnect, PersistenceFails, Crash, Open, dbVars
  <1>4. WithinRate(p, old) /\ commit /\ p = q
    BY Zenon, <1>1, <1>3 DEF SendToGroupInbox
  <1>5. dbQueues = queues
    BY Zenon, <1>3, IdleAgrees DEF SendToGroupInbox
  <1> DEFINE roster == dbQueues[q].roster
  <1>6. /\ dbQueues' = [dbQueues EXCEPT ![q].epoch = @ + 1]
        /\ dbPending' = dbPending \o Tagged(Stored(roster), env)
    BY Zenon, <1>3, <1>4, <1>5 DEF SendToGroupInbox
  <1>7. roster \in Seq(QueueId)
    BY <1>1 DEF Queue
  <1>8. ASSUME NEW i \in 1 .. Len(roster), dbQueues[roster[i]].kind = "mailbox"
        PROVE  \E k \in Len(dbPending) + 1 .. Len(dbPending') :
                 dbPending'[k] = [queue |-> roster[i], env |-> env]
    <2>1. roster[i] \in Recipients(roster)
      BY <1>5, <1>7, <1>8 DEF Recipients, Mailboxes, IsMailbox
    <2>2. PICK new \in Seq(Row) : new = Tagged(Stored(roster), env)
      BY Zenon, <1>1, <1>7, SentRows
    <2>3. Elements(new) = {[queue |-> m, env |-> env] : m \in Recipients(roster)}
      BY <1>1, <1>7, <2>2, SentRows
    <2>4. PICK x \in Elements(new) : x = [queue |-> roster[i], env |-> env]
      BY Zenon, <2>1, <2>3
    <2>5. \E k \in Len(dbPending) + 1 .. Len(dbPending \o new) : (dbPending \o new)[k] = x
      BY <1>1, NewIsBehind
    <2>6. dbPending' = dbPending \o new
      BY Zenon, <1>6, <2>2
    <2> QED
      BY Zenon, <2>4, <2>5, <2>6
  <1> QED
    BY Zenon, <1>1, <1>6, <1>8 DEF MovesWithFanOut

\* The epoch advance and its fan-out land together or not at all, for any
\* roster and at every crash point.
THEOREM EpochAdvanceIsAtomic == Spec => EpochMovesWithFanOut
  <1>1. QueuesInv /\ [Next]_vars => [\A q \in QueueId : MovesWithFanOut(q)]_vars
    BY Zenon, EpochStep
  <1> QED
    BY <1>1, QueuesInvHolds, PTL DEF Spec, EpochMovesWithFanOut

-----------------------------------------------------------------------------
(* The relay implements the Delivery Service. *)

\* The abstract backlog of a state.
OwedTo == [q \in QueueId |-> Owed(q)]

\* The initial state of the relay is one of the service.
LEMMA ServiceInit == Init => DS!Init
  BY DEF Init, DS!Init, DS!Absent, NoQueue, Owed, Rows

\* Every step of the relay is a step of the service or leaves it alone.
LEMMA ServiceStep ==
  ASSUME QueuesInv, [Next]_vars
  PROVE  [DS!Next]_<<dbQueues, OwedTo>>
  <1> SUFFICES ASSUME ~UNCHANGED <<dbQueues, OwedTo>>
               PROVE  DS!Next
    BY Zenon
  <1>0. dbQueues \in [QueueId -> Queue] /\ dbPending \in Seq(Row)
    BY DEF QueuesInv, QueuesTypeOK
  <1>a. dbPending' = dbPending => OwedTo' = OwedTo
    BY DEF OwedTo, Owed, Rows
  <1>1. ASSUME NEW q \in QueueId, NEW entry, entry.kind \in {"mailbox", "inbox"},
               Create(q, entry)
        PROVE  DS!CreateQueue(q)
    <2>1. dbQueues[q].kind = "none"
      BY Zenon, <1>1, IdleAgrees DEF Create, Fresh
    <2>2. OwedTo' = OwedTo
      BY <1>1, <1>a DEF Create
    <2> QED
      BY <1>0, <1>1, <2>1, <2>2 DEF Create, DS!CreateQueue, OwedTo
  <1>2. ASSUME NEW q \in QueueId, NEW env \in Envelope, NEW old \in BOOLEAN,
               SendToMailbox(q, env, old)
        PROVE  DS!Post(q, env)
    <2>1. dbQueues[q].kind = "mailbox" /\ dbQueues' = dbQueues
      BY <1>2, IdleAgrees DEF SendToMailbox, IsMailbox
    <2>2. dbPending' = Append(dbPending, [queue |-> q, env |-> env])
      BY <1>2, <1>a DEF SendToMailbox
    <2>3. /\ dbPending' = dbPending \o Tagged(Stored(<<q>>), env)
          /\ Recipients(<<q>>) = {q}
          /\ <<q>> \in Seq(QueueId)
      BY Zenon, <1>0, <1>2, <2>2, SentToOne DEF SendToMailbox
    <2>4. OwedTo' = [p \in QueueId |->
                       IF p \in {q} THEN OwedTo[p] \cup {env} ELSE OwedTo[p]]
      <3>1. \A p \in QueueId : Owed(p)' = IF p \in {q} THEN Owed(p) \cup {env} ELSE Owed(p)
        BY Zenon, <1>0, <2>3, SendOwes
      <3> QED
        BY Zenon, <3>1 DEF OwedTo
    <2> QED
      BY <2>1, <2>4 DEF DS!Post, DS!Owe, OwedTo
  <1>3. ASSUME NEW q \in QueueId, NEW commit \in BOOLEAN, NEW t \in Epochs,
               NEW env \in Envelope, NEW old \in BOOLEAN,
               SendToGroupInbox(q, commit, t, env, old)
        PROVE  DS!Broadcast(q, env) \/ DS!Commit(q, env)
    <2> DEFINE roster == dbQueues[q].roster
    <2>1. dbQueues[q].kind = "inbox" /\ roster = queues[q].roster /\ queues = dbQueues
      BY <1>3, IdleAgrees DEF SendToGroupInbox
    <2>2. WithinRate(q, old)
      BY <1>3, <1>a DEF SendToGroupInbox
    <2>3. dbPending' = dbPending \o Tagged(Stored(roster), env)
      BY <1>3, <2>1, <2>2 DEF SendToGroupInbox
    <2>4. roster \in Seq(QueueId)
      BY <1>0 DEF Queue
    <2>5. \A p \in QueueId : p \in Recipients(roster) <=> p \in DS!Members(q)
      BY Zenon, <2>1 DEF DS!Members, Recipients, Mailboxes, IsMailbox
    <2>6. OwedTo' = [p \in QueueId |->
                       IF p \in DS!Members(q) THEN OwedTo[p] \cup {env} ELSE OwedTo[p]]
      <3>1. \A p \in QueueId : Owed(p)' = IF p \in Recipients(roster)
                                          THEN Owed(p) \cup {env} ELSE Owed(p)
        BY Zenon, <1>0, <2>3, <2>4, SendOwes
      <3> QED
        BY <2>5, <3>1 DEF OwedTo
    <2>7. dbQueues' = IF commit THEN [dbQueues EXCEPT ![q].epoch = @ + 1] ELSE dbQueues
      BY Zenon, <1>3, <2>2 DEF SendToGroupInbox
    <2> QED
      BY Zenon, <2>1, <2>6, <2>7 DEF DS!Broadcast, DS!Commit, DS!Owe, OwedTo
  <1>4. ASSUME NEW q \in QueueId, NEW env \in Envelope, Ack(q, env.id)
        PROVE  DS!Acknowledge(q, env.id)
    <2>1. \A p \in QueueId : Owed(p)' =
            IF p = q THEN {e \in Owed(p) : e.id # env.id} ELSE Owed(p)
      <3>1. Rows' = {r \in Rows : r.queue # q \/ r.env.id # env.id}
        BY Zenon, <1>0, <1>4, AckedRows DEF Ack
      <3> QED
        BY <3>1 DEF Owed
    <2> QED
      BY Zenon, <1>4, <2>1 DEF Ack, DS!Acknowledge
  <1>5. ASSUME Completion \/ Open \/ Crash \/ PersistenceFails \/
               (\E c \in Conn : Connect(c) \/ Disconnect(c)) \/
               (\E c \in Conn, l \in WatchLists : Subscribe(c, l)) \/
               UNCHANGED vars
        PROVE  FALSE
    BY <1>5, <1>a DEF Completion, CreateDone, SendToMailboxDone, SendToGroupInboxDone,
         AckDone, Open, Crash, PersistenceFails, Connect, Disconnect, Subscribe, dbVars, vars
  <1>6. \A q \in QueueId : CreateMailbox(q) => DS!CreateQueue(q)
    BY <1>1 DEF CreateMailbox, Mailbox
  <1>7. \A q \in QueueId, e \in InitialEpochs, r \in Rosters :
          CreateGroupInbox(q, e, r) => DS!CreateQueue(q)
    BY <1>1 DEF CreateGroupInbox, GroupInbox
  <1> QED
    BY <1>2, <1>3, <1>4, <1>5, <1>6, <1>7 DEF Next, Handler, Environment, DS!Next

\* The relay, with its process, its memory, its connections and its crashes,
\* implements the Delivery Service.
THEOREM RelayImplementsDeliveryService == Spec => ImplementsDeliveryService
  <1>1. Init => DS!Init
    BY ServiceInit
  <1>2. QueuesInv /\ [Next]_vars => [DS!Next]_<<dbQueues, [q \in QueueId |-> Owed(q)]>>
    BY ServiceStep DEF OwedTo
  <1> QED
    BY <1>1, <1>2, QueuesInvHolds, PTL DEF Spec, DS!Spec, ImplementsDeliveryService

-----------------------------------------------------------------------------
(* The deques, the byte count and the pushes: what the loops compute. *)

\* What the loops read of a row or an envelope, and what they make of one.
EnvOf       == [r \in Row |-> r.env]
RowLen      == [r \in Row |-> r.env.len]
RowFor(env) == [q \in QueueId |-> [queue |-> q, env |-> env]]
InQueue(q)  == [e \in Envelope |-> [queue |-> q, env |-> e]]

\* Each takes what it reads to what it makes.
LEMMA LoopMaps ==
  /\ Maps(EnvOf, Row, Envelope)
  /\ Maps(RowLen, Row, Nat)
  /\ \A env \in Envelope : Maps(RowFor(env), QueueId, Row)
  /\ \A q \in QueueId : Maps(InQueue(q), Envelope, Row)
  <1>1. \A r \in Row : r.env \in Envelope
    BY Zenon DEF Row
  <1>2. \A e \in Envelope : e.len \in Nat
    BY EnvelopeAssumption
  <1>3. \A q \in QueueId, env \in Envelope : [queue |-> q, env |-> env] \in Row
    BY Zenon DEF Row
  <1>4. Maps(EnvOf, Row, Envelope)
    BY Zenon, <1>1 DEF Maps, EnvOf
  <1>5. Maps(RowLen, Row, Nat)
    BY Zenon, <1>1, <1>2 DEF Maps, RowLen
  <1>6. \A env \in Envelope : Maps(RowFor(env), QueueId, Row)
    BY Zenon, <1>3 DEF Maps, RowFor
  <1>7. \A q \in QueueId : Maps(InQueue(q), Envelope, Row)
    BY Zenon, <1>3 DEF Maps, InQueue
  <1> QED
    BY Zenon, <1>4, <1>5, <1>6, <1>7

\* The envelopes of rows, and their bytes.
LEMMA EnvelopesMapped ==
  ASSUME NEW rows \in Seq(Row)
  PROVE  /\ Envelopes(rows) = Mapped(EnvOf, rows)
         /\ Envelopes(rows) \in Seq(Envelope)
         /\ Bytes(Envelopes(rows)) = Total(Mapped(RowLen, rows))
  <1>1. Len(rows) \in Nat /\ \A i \in 1 .. Len(rows) : rows[i] \in Row
    OBVIOUS
  <1>2. \A r \in Row : r.env \in Envelope /\ EnvOf[r] = r.env /\ RowLen[r] = r.env.len
    BY Zenon DEF EnvOf, RowLen, Row
  <1>3. Envelopes(rows) = Mapped(EnvOf, rows)
    BY <1>1, <1>2 DEF Envelopes, Mapped
  <1>4. Envelopes(rows) \in Seq(Envelope) /\ Len(Envelopes(rows)) = Len(rows)
    BY <1>1, <1>2 DEF Envelopes
  <1>5. \A i \in 1 .. Len(rows) : Envelopes(rows)[i].len = RowLen[rows[i]]
    BY Zenon, <1>1, <1>2 DEF Envelopes
  <1>6. [i \in 1 .. Len(Envelopes(rows)) |-> Envelopes(rows)[i].len] = Mapped(RowLen, rows)
    BY Zenon, <1>4, <1>5 DEF Mapped
  <1> QED
    BY Zenon, <1>3, <1>4, <1>6 DEF Bytes

\* The rows and the pushes of one envelope.
LEMMA TaggedMapped ==
  ASSUME NEW list \in Seq(QueueId), NEW env \in Envelope
  PROVE  /\ Tagged(list, env) = Mapped(RowFor(env), list)
         /\ Tagged(list, env) \in Seq(Row)
         /\ Len(Tagged(list, env)) = Len(list)
  <1>1. Len(list) \in Nat /\ \A i \in 1 .. Len(list) : list[i] \in QueueId
    OBVIOUS
  <1>2. \A i \in 1 .. Len(list) : RowFor(env)[list[i]] = [queue |-> list[i], env |-> env]
    BY Zenon, <1>1 DEF RowFor
  <1>3. Tagged(list, env) = Mapped(RowFor(env), list)
    BY Zenon, <1>2 DEF Tagged, Mapped
  <1>4. \A i \in 1 .. Len(list) : [queue |-> list[i], env |-> env] \in Row
    BY Zenon, <1>1 DEF Row
  <1>5. Tagged(list, env) \in Seq(Row) /\ Len(Tagged(list, env)) = Len(list)
    BY <1>1, <1>4 DEF Tagged
  <1> QED
    BY Zenon, <1>3, <1>5

\* The backlog of q that rows hold.
BacklogIn(rows, q) == Envelopes(Filter(rows, RowsOf(q)))

\* env as often as list is long.
Repeated(list, env) == [i \in 1 .. Len(list) |-> env]

\* The copies a deque gets of the targets of a send.
LEMMA CopiesMapped ==
  ASSUME NEW targets \in Seq(QueueId), NEW env \in Envelope, NEW q \in QueueId
  PROVE  /\ IsMailbox(q) => Filter(Stored(targets), {q}) = Filter(targets, {q})
         /\ ~IsMailbox(q) => Filter(Stored(targets), {q}) = <<>>
         /\ Copies(targets, env, q) = Repeated(Filter(Stored(targets), {q}), env)
  <1>1. Filter(Stored(targets), {q}) = Filter(targets, Mailboxes \cap {q})
    <2>1. FilterTwice(targets, Mailboxes, {q})
      BY Zenon, FilterFilter
    <2> QED
      BY Zenon, <2>1 DEF FilterTwice, Stored
  <1>2. CASE IsMailbox(q)
    <2>1. Agree(QueueId, Mailboxes \cap {q}, {q})
      BY Zenon, <1>2 DEF Agree, Mailboxes
    <2>2. KeepAlike(targets, Mailboxes \cap {q}, {q})
      BY Zenon, <2>1, FilterSame
    <2> QED
      BY Zenon, <1>1, <1>2, <2>2 DEF Copies, Repeated, KeepAlike
  <1>3. CASE ~IsMailbox(q)
    <2>1. \A x \in QueueId : x \notin Mailboxes \cap {q}
      BY Zenon, <1>3 DEF Mailboxes
    <2>2. Filter(targets, Mailboxes \cap {q}) = <<>>
      BY Zenon, <2>1, FilterNone
    <2>3. Repeated(<<>>, env) = <<>>
      BY DEF Repeated
    <2> QED
      BY Zenon, <1>1, <1>3, <2>2, <2>3 DEF Copies
  <1> QED
    BY Zenon, <1>2, <1>3

\* A send puts its copies behind each backlog.
LEMMA BacklogOfSend ==
  ASSUME NEW s \in Seq(Row), NEW targets \in Seq(QueueId), NEW env \in Envelope, NEW q \in QueueId
  PROVE  BacklogIn(s \o Tagged(Stored(targets), env), q) =
           BacklogIn(s, q) \o Copies(targets, env, q)
  <1>1. PICK stored \in Seq(QueueId) : stored = Stored(targets)
    BY Zenon, FilterBasics DEF Stored
  <1>2. PICK mine \in Seq(QueueId) : mine = Filter(stored, {q})
    BY Zenon, FilterBasics
  <1>3. PICK t \in Seq(Row) : t = Tagged(stored, env) /\ t = Mapped(RowFor(env), stored)
    BY Zenon, TaggedMapped
  <1>4. PICK old \in Seq(Row) : old = Filter(s, RowsOf(q))
    BY Zenon, FilterBasics
  <1>5. PICK new \in Seq(Row) : new = Filter(t, RowsOf(q))
    BY Zenon, FilterBasics
  <1>6. Filter(s \o t, RowsOf(q)) = old \o new
    <2>1. FilterSplits(s, t, RowsOf(q))
      BY Zenon, FilterConcat
    <2> QED
      BY Zenon, <1>4, <1>5, <2>1 DEF FilterSplits
  <1>7. new = Mapped(RowFor(env), mine)
    <2>1. \A x \in QueueId : x \in {q} <=> RowFor(env)[x] \in RowsOf(q)
      BY DEF RowFor, RowsOf
    <2>2. PICK g : g = RowFor(env) /\ Maps(g, QueueId, Row)
      BY Zenon, LoopMaps
    <2>3. PICK V, W : V = RowsOf(q) /\ W = {q}
      BY Zenon
    <2>4. Tests(g, QueueId, V, W)
      BY Zenon, <2>1, <2>2, <2>3 DEF Tests
    <2>5. FilterCommutes(g, stored, V, W)
      BY Zenon, <2>2, <2>4, FilterMapped
    <2> QED
      BY Zenon, <1>2, <1>3, <1>5, <2>2, <2>3, <2>5 DEF FilterCommutes
  <1>8. Envelopes(new) = Repeated(mine, env)
    <2>1. new = Tagged(mine, env) /\ Len(new) = Len(mine)
      BY Zenon, <1>7, TaggedMapped
    <2> QED
      BY <2>1 DEF Envelopes, Tagged, Repeated
  <1>9. Envelopes(old \o new) = Envelopes(old) \o Envelopes(new)
    <2>1. Mapped(EnvOf, old \o new) = Mapped(EnvOf, old) \o Mapped(EnvOf, new)
      <3>1. PICK g : g = EnvOf /\ Maps(g, Row, Envelope)
        BY Zenon, LoopMaps
      <3>2. MappedSplits(g, old, new)
        BY Zenon, <3>1, MappedConcat
      <3> QED
        BY Zenon, <3>1, <3>2 DEF MappedSplits
    <2>2. old \o new \in Seq(Row)
      OBVIOUS
    <2> QED
      BY Zenon, <2>1, <2>2, EnvelopesMapped
  <1>10. Copies(targets, env, q) = Repeated(mine, env)
    BY Zenon, <1>1, <1>2, CopiesMapped
  <1> QED
    BY Zenon, <1>1, <1>3, <1>4, <1>6, <1>8, <1>9, <1>10 DEF BacklogIn

\* A send adds its length for every copy stored.
LEMMA BytesOfSend ==
  ASSUME NEW s \in Seq(Row), NEW targets \in Seq(QueueId), NEW env \in Envelope
  PROVE  Bytes(Envelopes(s \o Tagged(Stored(targets), env))) =
           Bytes(Envelopes(s)) + env.len * Len(Filter(targets, Mailboxes))
  <1>1. PICK stored \in Seq(QueueId) : stored = Filter(targets, Mailboxes)
    BY Zenon, FilterBasics
  <1>2. PICK t \in Seq(Row) : t = Tagged(stored, env) /\ Len(t) = Len(stored)
    BY Zenon, TaggedMapped
  <1>3. s \o t \in Seq(Row)
    OBVIOUS
  <1>4. Mapped(RowLen, s \o t) = Mapped(RowLen, s) \o Mapped(RowLen, t)
    <2>1. MappedSplits(RowLen, s, t)
      BY Zenon, LoopMaps, MappedConcat
    <2> QED
      BY Zenon, <2>1 DEF MappedSplits
  <1>5. /\ Mapped(RowLen, s) \in Seq(Nat)
        /\ Mapped(RowLen, t) \in Seq(Nat) /\ Len(Mapped(RowLen, t)) = Len(t)
    BY LoopMaps DEF Maps, Mapped
  <1>6. \A i \in 1 .. Len(t) : Mapped(RowLen, t)[i] = env.len
    <2> SUFFICES ASSUME NEW i \in 1 .. Len(t) PROVE Mapped(RowLen, t)[i] = env.len
      BY Zenon
    <2>1. t[i] \in Row /\ Mapped(RowLen, t)[i] = RowLen[t[i]]
      BY DEF Mapped
    <2>2. t[i] = [queue |-> stored[i], env |-> env]
      BY Zenon, <1>2 DEF Tagged
    <2>3. RowLen[t[i]] = t[i].env.len
      BY Zenon, <2>1 DEF RowLen
    <2> QED
      BY <2>1, <2>2, <2>3
  <1>7. env.len \in Nat
    BY EnvelopeAssumption
  <1>8. Total(Mapped(RowLen, t)) = env.len * Len(stored)
    BY Zenon, <1>2, <1>5, <1>6, <1>7, TotalCopies
  <1>9. Total(Mapped(RowLen, s \o t)) = Total(Mapped(RowLen, s)) + env.len * Len(stored)
    BY Zenon, <1>4, <1>5, <1>8, TotalConcat
  <1> QED
    BY Zenon, <1>1, <1>2, <1>3, <1>9, EnvelopesMapped DEF Stored

\* The rows the DELETE of an ack keeps, and the envelopes of one message.
KeptRows(p, id)  == {r \in Row : r.queue # p \/ r.env.id # id}
EnvsNotOf(id)    == {e \in Envelope : e.id # id}
EnvsOf(id)       == {e \in Envelope : e.id = id}
RowsWith(V)      == {r \in Row : r.env \in V}

\* A test of a backlog is a test of the rows it is read from.
LEMMA BacklogFiltered ==
  ASSUME NEW s \in Seq(Row), NEW p \in QueueId, NEW V
  PROVE  Filter(BacklogIn(s, p), V) = Envelopes(Filter(s, RowsOf(p) \cap RowsWith(V)))
  <1>1. PICK mine \in Seq(Row) : mine = Filter(s, RowsOf(p))
    BY Zenon, FilterBasics
  <1>2. PICK g : g = EnvOf /\ Maps(g, Row, Envelope)
    BY Zenon, LoopMaps
  <1>3. Tests(g, Row, V, RowsWith(V))
    BY Zenon, <1>2 DEF Tests, EnvOf, RowsWith
  <1>4. FilterCommutes(g, mine, V, RowsWith(V))
    BY Zenon, <1>2, <1>3, FilterMapped
  <1>5. Filter(mine, RowsWith(V)) = Filter(s, RowsOf(p) \cap RowsWith(V))
    <2>1. FilterTwice(s, RowsOf(p), RowsWith(V))
      BY Zenon, FilterFilter
    <2> QED
      BY Zenon, <1>1, <2>1 DEF FilterTwice
  <1>6. Filter(mine, RowsWith(V)) \in Seq(Row)
    BY Zenon, FilterBasics
  <1>7. Envelopes(mine) = Mapped(g, mine)
    BY Zenon, <1>2, EnvelopesMapped
  <1>8. Envelopes(Filter(mine, RowsWith(V))) = Mapped(g, Filter(mine, RowsWith(V)))
    BY Zenon, <1>2, <1>6, EnvelopesMapped
  <1> QED
    BY Zenon, <1>1, <1>4, <1>5, <1>7, <1>8 DEF BacklogIn, FilterCommutes

\* The backlog of q when an ack to p has turned the rows before into after.
AckLeaves(before, after, p, q, id) ==
    /\ q = p => BacklogIn(after, q) = Retained(BacklogIn(before, q), id)
    /\ q # p => BacklogIn(after, q) = BacklogIn(before, q)

\* An ack takes the copies of its message out of one backlog.
LEMMA BacklogOfAck ==
  ASSUME NEW s \in Seq(Row), NEW p \in QueueId, NEW q \in QueueId, NEW id
  PROVE  AckLeaves(s, Filter(s, KeptRows(p, id)), p, q, id)
  <1>1. Filter(Filter(s, KeptRows(p, id)), RowsOf(q)) = Filter(s, KeptRows(p, id) \cap RowsOf(q))
    <2>1. FilterTwice(s, KeptRows(p, id), RowsOf(q))
      BY Zenon, FilterFilter
    <2> QED
      BY Zenon, <2>1 DEF FilterTwice
  <1>2. \A r \in Row : r \in RowsOf(q) <=> r.queue = q
    BY DEF Row, RowsOf
  <1>3. CASE q = p
    <2>1. \A r \in Row : r \in KeptRows(p, id) \cap RowsOf(q) <=>
                           r \in RowsOf(q) \cap RowsWith(EnvsNotOf(id))
      BY Zenon, <1>2, <1>3 DEF KeptRows, RowsWith, EnvsNotOf, Row
    <2>2. PICK X, Y : X = KeptRows(p, id) \cap RowsOf(q) /\ Y = RowsOf(q) \cap RowsWith(EnvsNotOf(id))
      BY Zenon
    <2>3. Agree(Row, X, Y)
      BY Zenon, <2>1, <2>2 DEF Agree
    <2>4. KeepAlike(s, X, Y)
      BY Zenon, <2>3, FilterSame
    <2>5. Filter(BacklogIn(s, q), EnvsNotOf(id)) = Envelopes(Filter(s, Y))
      BY Zenon, <2>2, BacklogFiltered
    <2> QED
      BY Zenon, <1>1, <1>3, <2>2, <2>4, <2>5 DEF AckLeaves, BacklogIn, Retained, EnvsNotOf, KeepAlike
  <1>4. CASE q # p
    <2>1. \A r \in Row : r \in KeptRows(p, id) \cap RowsOf(q) <=> r \in RowsOf(q)
      BY Zenon, <1>2, <1>4 DEF KeptRows
    <2>2. PICK X, Y : X = KeptRows(p, id) \cap RowsOf(q) /\ Y = RowsOf(q)
      BY Zenon
    <2>3. Agree(Row, X, Y)
      BY Zenon, <2>1, <2>2 DEF Agree
    <2>4. KeepAlike(s, X, Y)
      BY Zenon, <2>3, FilterSame
    <2> QED
      BY Zenon, <1>1, <1>4, <2>2, <2>4 DEF AckLeaves, BacklogIn, KeepAlike
  <1> QED
    BY Zenon, <1>3, <1>4

\* The bytes on disk go down by those of the copies the deque drops.
LEMMA BytesOfAck ==
  ASSUME NEW s \in Seq(Row), NEW p \in QueueId, NEW id
  PROVE  /\ Bytes(Envelopes(s)) \in Nat
         /\ Bytes(Envelopes(Filter(s, KeptRows(p, id)))) \in Nat
         /\ Bytes(Released(BacklogIn(s, p), id)) \in Nat
         /\ Bytes(Envelopes(s)) = Bytes(Envelopes(Filter(s, KeptRows(p, id))))
                                    + Bytes(Released(BacklogIn(s, p), id))
  <1>1. PICK K : K = KeptRows(p, id)
    BY Zenon
  <1>2. PICK g : g = RowLen /\ Maps(g, Row, Nat)
    BY Zenon, LoopMaps
  <1>3. PICK kept \in Seq(Row) : kept = Filter(s, K)
    BY Zenon, FilterBasics
  <1>4. PICK gone \in Seq(Row) : gone = Filter(s, Row \ K)
    BY Zenon, FilterBasics
  <1>5. SumSplits(g, s, kept, gone)
    <2>1. SumSplits(g, s, Filter(s, K), Filter(s, Row \ K))
      BY Zenon, <1>2, TotalSplit
    <2> QED
      BY Zenon, <1>3, <1>4, <2>1
  <1>6. \A r \in Row : r \in RowsOf(p) \cap RowsWith(EnvsOf(id)) <=> r \in Row \ K
    <2>1. \A r \in Row : (r \in RowsOf(p) <=> r.queue = p) /\ r.env \in Envelope
      BY DEF Row, RowsOf
    <2> QED
      BY Zenon, <1>1, <2>1 DEF KeptRows, RowsWith, EnvsOf
  <1>7. PICK X, Y : X = RowsOf(p) \cap RowsWith(EnvsOf(id)) /\ Y = Row \ K
    BY Zenon
  <1>8. KeepAlike(s, X, Y)
    <2>1. Agree(Row, X, Y)
      BY Zenon, <1>6, <1>7 DEF Agree
    <2> QED
      BY Zenon, <2>1, FilterSame
  <1>9. Filter(BacklogIn(s, p), EnvsOf(id)) = Envelopes(gone)
    <2>1. Filter(BacklogIn(s, p), EnvsOf(id)) = Envelopes(Filter(s, X))
      BY Zenon, <1>7, BacklogFiltered
    <2> QED
      BY Zenon, <1>4, <1>7, <1>8, <2>1 DEF KeepAlike
  <1>10. Released(BacklogIn(s, p), id) = Envelopes(gone)
    BY Zenon, <1>9 DEF Released, EnvsOf
  <1>11. /\ Bytes(Envelopes(s)) = Total(Mapped(g, s))
         /\ Bytes(Envelopes(kept)) = Total(Mapped(g, kept))
         /\ Bytes(Envelopes(gone)) = Total(Mapped(g, gone))
    BY Zenon, <1>2, EnvelopesMapped
  <1> QED
    BY Zenon, <1>1, <1>3, <1>5, <1>10, <1>11 DEF SumSplits

-----------------------------------------------------------------------------
(* Each action preserves the invariant of the deques. *)

\* A deque with its queue on every envelope, as it is pushed.
LEMMA DrainMapped ==
  ASSUME NEW q \in QueueId, NEW envs \in Seq(Envelope)
  PROVE  /\ [i \in 1 .. Len(envs) |-> [queue |-> q, env |-> envs[i]]] = Mapped(InQueue(q), envs)
         /\ Mapped(InQueue(q), envs) \in Seq(Row)
  <1>1. Len(envs) \in Nat /\ \A i \in 1 .. Len(envs) : envs[i] \in Envelope
    OBVIOUS
  <1>2. \A i \in 1 .. Len(envs) :
          /\ InQueue(q)[envs[i]] = [queue |-> q, env |-> envs[i]]
          /\ InQueue(q)[envs[i]] \in Row
    BY Zenon, <1>1 DEF InQueue, Row
  <1>3. [i \in 1 .. Len(envs) |-> [queue |-> q, env |-> envs[i]]] = Mapped(InQueue(q), envs)
    BY Zenon, <1>2 DEF Mapped
  <1>4. Mapped(InQueue(q), envs) \in Seq(Row)
    <2>1. PICK g : g = InQueue(q) /\ Maps(g, Envelope, Row)
      BY Zenon, LoopMaps
    <2>2. Mapped(g, envs) \in Seq(Row)
      BY <2>1 DEF Mapped, Maps
    <2> QED
      BY Zenon, <2>1, <2>2
  <1> QED
    BY Zenon, <1>3, <1>4

\* What channel c of a live connection has got of mailbox q.
Reaches(envs, q, pushed) == IsSubsequence(Mapped(InQueue(q), envs), pushed)

\* BacklogReachesSubscribers, a queue and a channel at a time.
LEMMA ReachesMeans ==
  ASSUME pending \in [QueueId -> Seq(Envelope)]
  PROVE  BacklogReachesSubscribers <=>
           \A q \in QueueId : \A c \in subscribers[q] :
              conn[c] = "open" => Reaches(pending[q], q, channel[c])
  <1>1. \A q \in QueueId : pending[q] \in Seq(Envelope)
    BY Zenon
  <1>2. \A q \in QueueId :
          [i \in 1 .. Len(pending[q]) |-> [queue |-> q, env |-> pending[q][i]]]
            = Mapped(InQueue(q), pending[q])
    BY Zenon, <1>1, DrainMapped
  <1> QED
    BY Zenon, <1>2 DEF BacklogReachesSubscribers, Reaches

\* The same after a step.
LEMMA ReachesNext ==
  ASSUME pending' \in [QueueId -> Seq(Envelope)],
         \A q \in QueueId : \A c \in subscribers'[q] :
            conn'[c] = "open" => Reaches(pending'[q], q, channel'[c])
  PROVE  BacklogReachesSubscribers'
  <1>1. \A q \in QueueId : pending'[q] \in Seq(Envelope)
    BY Zenon
  <1>2. \A q \in QueueId :
          [i \in 1 .. Len(pending'[q]) |-> [queue |-> q, env |-> pending'[q][i]]]
            = Mapped(InQueue(q), pending'[q])
    BY Zenon, <1>1, DrainMapped
  <1> QED
    BY Zenon, <1>2 DEF BacklogReachesSubscribers, Reaches

\* The types of what a push adds.
LEMMA PushTypes ==
  ASSUME MemoryTypeOK, NEW targets \in Seq(QueueId), NEW env \in Envelope
  PROVE  /\ \A q \in QueueId : Copies(targets, env, q) \in Seq(Envelope)
         /\ Len(Filter(targets, Mailboxes)) \in Nat
         /\ \A c \in Conn : Tagged(Filter(targets, Watched(c)), env) \in Seq(Row)
  <1>1. \A q \in QueueId : Copies(targets, env, q) \in Seq(Envelope)
    <2> SUFFICES ASSUME NEW q \in QueueId PROVE Copies(targets, env, q) \in Seq(Envelope)
      BY Zenon
    <2>1. PICK mine \in Seq(QueueId) : mine = Filter(targets, {q})
      BY Zenon, FilterBasics
    <2> QED
      BY <2>1 DEF Copies
  <1>2. PICK stored \in Seq(QueueId) : stored = Filter(targets, Mailboxes)
    BY Zenon, FilterBasics
  <1>3. Len(stored) \in Nat
    OBVIOUS
  <1>4. \A c \in Conn : Tagged(Filter(targets, Watched(c)), env) \in Seq(Row)
    BY Zenon, FilterBasics, TaggedMapped
  <1> QED
    BY Zenon, <1>1, <1>2, <1>3, <1>4

\* The copies a deque gets are pushed to the channels that watch it.
LEMMA CopiesArePushed ==
  ASSUME NEW targets \in Seq(QueueId), NEW env \in Envelope, NEW q \in QueueId,
         NEW c \in Conn, c \in subscribers[q]
  PROVE  Reaches(Copies(targets, env, q), q, Tagged(Filter(targets, Watched(c)), env))
  <1>1. PICK seen \in Seq(QueueId) : seen = Filter(targets, Watched(c))
    BY Zenon, FilterBasics
  <1>2. PICK mine \in Seq(QueueId) : mine = Filter(targets, {q})
    BY Zenon, FilterBasics
  <1>3. PICK g : g = RowFor(env) /\ Maps(g, QueueId, Row)
    BY Zenon, LoopMaps
  <1>4. Tagged(seen, env) = Mapped(g, seen) /\ Mapped(g, seen) \in Seq(Row)
    BY Zenon, <1>3, TaggedMapped
  <1>5. CASE IsMailbox(q)
    <2>1. mine = Filter(seen, {q})
      <3>1. FilterTwice(targets, Watched(c), {q})
        BY Zenon, FilterFilter
      <3>2. Agree(QueueId, Watched(c) \cap {q}, {q})
        BY Zenon DEF Agree, Watched
      <3>3. KeepAlike(targets, Watched(c) \cap {q}, {q})
        BY Zenon, <3>2, FilterSame
      <3> QED
        BY Zenon, <1>1, <1>2, <3>1, <3>3 DEF FilterTwice, KeepAlike
    <2>2. IsSubsequence(mine, seen)
      BY Zenon, <2>1, SubsequenceFilter
    <2>3. IsSubsequence(Mapped(g, mine), Mapped(g, seen))
      BY Zenon, <1>3, <2>2, SubsequenceMapped
    <2>4. \A i \in 1 .. Len(mine) : mine[i] = q
      <3>1. mine \in Seq(QueueId \cap {q})
        BY Zenon, <1>2, FilterTyped
      <3> QED
        BY <3>1
    <2>5. PICK envs : envs = Repeated(mine, env)
      BY Zenon
    <2>6. Copies(targets, env, q) = envs
      BY Zenon, <1>2, <1>5, <2>5 DEF Copies, Repeated
    <2>7. Mapped(InQueue(q), envs) = Mapped(g, mine)
      <3>1. Len(mine) \in Nat /\ Len(envs) = Len(mine) /\ \A i \in 1 .. Len(mine) : envs[i] = env
        BY <2>5 DEF Repeated
      <3>2. InQueue(q)[env] = [queue |-> q, env |-> env] /\ g[q] = [queue |-> q, env |-> env]
        BY Zenon, <1>3 DEF InQueue, RowFor
      <3> QED
        BY Zenon, <2>4, <3>1, <3>2 DEF Mapped
    <2> QED
      BY Zenon, <1>1, <1>4, <2>3, <2>6, <2>7 DEF Reaches
  <1>6. CASE ~IsMailbox(q)
    <2>1. Copies(targets, env, q) = <<>> /\ Mapped(InQueue(q), <<>>) = <<>>
      BY <1>6 DEF Copies, Mapped
    <2>2. IsSubsequence(<<>>, Mapped(g, seen))
      BY Zenon, <1>4, SubsequenceBasics
    <2> QED
      BY Zenon, <1>1, <1>4, <2>1, <2>2 DEF Reaches
  <1> QED
    BY Zenon, <1>5, <1>6

\* A table that is left alone has the same rows, backlogs and bytes.
LEMMA SameFile ==
  ASSUME UNCHANGED dbPending
  PROVE  /\ Rows' = Rows
         /\ \A q \in QueueId : Backlog(q)' = Backlog(q)
         /\ StoredBytes' = StoredBytes
  BY Zenon DEF Rows, Backlog, StoredBytes

\* The backlogs and the bytes of the table have their types, and a queue with
\* no row has no backlog.
LEMMA FileTypes ==
  ASSUME dbPending \in Seq(Row)
  PROVE  /\ \A q \in QueueId : Backlog(q) \in Seq(Envelope)
         /\ \A q \in QueueId : Backlog(q) = BacklogIn(dbPending, q)
         /\ StoredBytes \in Nat
         /\ \A q \in QueueId : (\A r \in Rows : r.queue # q) => Backlog(q) = <<>>
  <1>1. \A q \in QueueId : Filter(dbPending, RowsOf(q)) \in Seq(Row)
    BY Zenon, FilterBasics
  <1>2. \A q \in QueueId : Backlog(q) \in Seq(Envelope)
    BY Zenon, <1>1, EnvelopesMapped DEF Backlog
  <1>3. StoredBytes \in Nat
    <2>1. PICK g : g = RowLen /\ Maps(g, Row, Nat)
      BY Zenon, LoopMaps
    <2>2. Mapped(g, dbPending) \in Seq(Nat)
      BY <2>1 DEF Mapped, Maps
    <2>3. Total(Mapped(g, dbPending)) \in Nat
      BY Zenon, <2>2, TotalAppend
    <2> QED
      BY Zenon, <2>1, <2>3, EnvelopesMapped DEF StoredBytes
  <1>4. ASSUME NEW q \in QueueId, \A r \in Rows : r.queue # q
        PROVE  Backlog(q) = <<>>
    <2>1. dbPending \in Seq(Rows)
      BY DEF Rows
    <2>2. \A r \in Rows : r \notin RowsOf(q)
      BY <1>4 DEF RowsOf
    <2>3. Filter(dbPending, RowsOf(q)) = <<>>
      BY Zenon, <2>1, <2>2, FilterNone
    <2>4. Envelopes(<<>>) = <<>>
      BY DEF Envelopes
    <2> QED
      BY Zenon, <2>3, <2>4 DEF Backlog
  <1> QED
    BY Zenon, <1>2, <1>3, <1>4 DEF Backlog, BacklogIn

\* The bytes of a deque are a number.
LEMMA BytesType ==
  ASSUME NEW envs \in Seq(Envelope)
  PROVE  Bytes(envs) \in Nat
  <1>1. \A i \in 1 .. Len(envs) : envs[i].len \in Nat
    BY EnvelopeAssumption
  <1>2. [i \in 1 .. Len(envs) |-> envs[i].len] \in Seq(Nat)
    BY <1>1
  <1> QED
    BY Zenon, <1>2, TotalAppend DEF Bytes

\* More in a deque and more on a channel.
LEMMA ReachesMore ==
  ASSUME NEW q \in QueueId, NEW envs \in Seq(Envelope), NEW more \in Seq(Envelope),
         NEW pushed \in Seq(Row), NEW new \in Seq(Row),
         Reaches(envs, q, pushed), Reaches(more, q, new)
  PROVE  Reaches(envs \o more, q, pushed \o new)
  <1>1. PICK g : g = InQueue(q) /\ Maps(g, Envelope, Row)
    BY Zenon, LoopMaps
  <1>2. Mapped(g, envs) \in Seq(Row) /\ Mapped(g, more) \in Seq(Row)
    BY Zenon, <1>1, DrainMapped
  <1>3. IsSubsequence(Mapped(g, envs), pushed) /\ IsSubsequence(Mapped(g, more), new)
    BY Zenon, <1>1 DEF Reaches
  <1>4. IsSubsequence(Mapped(g, envs) \o Mapped(g, more), pushed \o new)
    BY Zenon, <1>2, <1>3, SubsequenceConcat
  <1>5. MappedSplits(g, envs, more)
    BY Zenon, <1>1, MappedConcat
  <1> QED
    BY Zenon, <1>1, <1>4, <1>5 DEF Reaches, MappedSplits

\* push_and_notify keeps the types, and every copy reaches the subscribers.
LEMMA PushInv ==
  ASSUME MemoryTypeOK, BacklogReachesSubscribers, UNCHANGED conn,
         NEW targets \in Seq(QueueId), NEW env \in Envelope, PushAndNotify(targets, env)
  PROVE  MemoryTypeOK' /\ BacklogReachesSubscribers'
  <1> USE DEF PushAndNotify
  <1>1. /\ \A q \in QueueId : Copies(targets, env, q) \in Seq(Envelope)
        /\ Len(Filter(targets, Mailboxes)) \in Nat
        /\ \A c \in Conn : Tagged(Filter(targets, Watched(c)), env) \in Seq(Row)
    BY Zenon, PushTypes
  <1>2. /\ \A q \in QueueId : pending[q] \in Seq(Envelope)
        /\ \A c \in Conn : channel[c] \in Seq(Row)
        /\ \A q \in QueueId : subscribers[q] \subseteq Conn
        /\ bytesUsed \in Nat /\ conn \in [Conn -> {"open", "closed"}]
    BY Zenon DEF MemoryTypeOK, Row
  <1>3. \A A : \A s, t \in Seq(A) : s \o t \in Seq(A)
    BY Zenon, ConcatAt
  <1>4. pending' \in [QueueId -> Seq(Envelope)]
    BY Zenon, <1>1, <1>2, <1>3
  <1>5. channel' \in [Conn -> Seq(Row)]
    <2>1. \A c \in Conn : channel[c] \o Tagged(Filter(targets, Watched(c)), env) \in Seq(Row)
      BY Zenon, <1>1, <1>2, <1>3
    <2> QED
      BY Zenon, <1>2, <2>1
  <1>6. subscribers' \in [QueueId -> SUBSET Conn] /\ \A q \in QueueId : subscribers'[q] \subseteq subscribers[q]
    BY Zenon, <1>2
  <1>7. bytesUsed' \in Nat
    <2>1. env.len \in Nat
      BY EnvelopeAssumption
    <2>2. env.len * Len(Filter(targets, Mailboxes)) \in Nat
      BY Zenon, <1>1, <2>1, ProductType
    <2>3. \A x, y \in Nat : x + y \in Nat
      OBVIOUS
    <2> QED
      BY Zenon, <1>2, <2>2, <2>3
  <1>8. MemoryTypeOK'
    BY Zenon, <1>2, <1>4, <1>5, <1>6, <1>7 DEF MemoryTypeOK, Row
  <1>9. ASSUME NEW q \in QueueId, NEW c \in subscribers'[q], conn'[c] = "open"
        PROVE  Reaches(pending'[q], q, channel'[c])
    <2>1. c \in Conn /\ c \in subscribers[q] /\ conn[c] = "open"
      BY Zenon, <1>2, <1>6, <1>9
    <2>2. Reaches(pending[q], q, channel[c])
      BY Zenon, <2>1, ReachesMeans DEF MemoryTypeOK
    <2>3. Reaches(Copies(targets, env, q), q, Tagged(Filter(targets, Watched(c)), env))
      BY Zenon, <2>1, CopiesArePushed
    <2>4. Reaches(pending[q] \o Copies(targets, env, q), q,
                  channel[c] \o Tagged(Filter(targets, Watched(c)), env))
      BY Zenon, <1>1, <1>2, <2>1, <2>2, <2>3, ReachesMore
    <2> QED
      BY Zenon, <2>1, <2>4
  <1>10. BacklogReachesSubscribers'
    BY Zenon, <1>4, <1>9, ReachesNext
  <1> QED
    BY Zenon, <1>8, <1>10

\* What the handler in progress has yet to apply, by its operation.
LEMMA FollowsCases ==
  ASSUME MemoryFollowsFile, status = "up"
  PROVE  /\ request.op \in {"none", "create"} => UpToDate
         /\ request.op = "mailbox" => BehindBySend(<<request.queue>>, request.env)
         /\ request.op = "group" => BehindBySend(queues[request.queue].roster, request.env)
         /\ request.op = "ack" => BehindByAck(request.queue, request.id)
  BY DEF MemoryFollowsFile

\* When no handler has anything to apply, memory is up to date.
LEMMA FollowsIdle ==
  ASSUME UpToDate', request'.op \in {"none", "create"}
  PROVE  MemoryFollowsFile'
  BY DEF MemoryFollowsFile

\* Memory that is up to date stays so when nothing of it changes.
LEMMA SameUpToDate ==
  ASSUME UpToDate, UNCHANGED <<dbPending, pending, bytesUsed>>
  PROVE  UpToDate'
  BY Zenon, SameFile DEF UpToDate

\* What the invariant says of a state holds of any state with the same file,
\* memory, connections, status and request.
LEMMA DequesInvFrame ==
  ASSUME DequesInv,
         UNCHANGED <<dbQueues, dbPending, queues, pending, bytesUsed, subscribers,
                     conn, channel, status, request>>
  PROVE  DequesInv'
  <1>1. MemoryTypeOK'
    BY Zenon DEF DequesInv, MemoryTypeOK
  <1>2. RowsHaveMailboxes'
    BY Zenon, SameFile DEF DequesInv, RowsHaveMailboxes, IsMailbox
  <1>3. MemoryFollowsFile'
    <2>1. \A t, e, q : Copies(t, e, q)' = Copies(t, e, q)
      BY Zenon DEF Copies, IsMailbox
    <2>2. Mailboxes' = Mailboxes
      BY Zenon DEF Mailboxes, IsMailbox
    <2>3. /\ UpToDate' <=> UpToDate
          /\ \A t, e : BehindBySend(t, e)' <=> BehindBySend(t, e)
          /\ \A p, id : BehindByAck(p, id)' <=> BehindByAck(p, id)
      BY Zenon, <2>1, <2>2, SameFile DEF UpToDate, BehindBySend, BehindByAck
    <2> QED
      BY Zenon, <2>3 DEF DequesInv, MemoryFollowsFile
  <1>4. BacklogReachesSubscribers'
    BY Zenon DEF DequesInv, BacklogReachesSubscribers
  <1> QED
    BY Zenon, <1>1, <1>2, <1>3, <1>4 DEF DequesInv

\* The initial state satisfies the invariant.
LEMMA DequesInvInit == Init => DequesInv
  <1> SUFFICES ASSUME Init PROVE DequesInv
    BY Zenon
  <1>1. <<>> \in Seq(Envelope) /\ <<>> \in Seq(Row) /\ 0 \in Nat /\ <<>> \in Seq(Nat)
    OBVIOUS
  <1>2. MemoryTypeOK
    BY Zenon, <1>1 DEF Init, MemoryTypeOK, Row
  <1>3. Rows = {}
    BY DEF Init, Rows
  <1>4. RowsHaveMailboxes
    BY Zenon, <1>3 DEF Init, RowsHaveMailboxes, NoRequest
  <1>5. UpToDate
    <2>1. dbPending = <<>> /\ bytesUsed = 0 /\ pending = [q \in QueueId |-> <<>>]
      BY Zenon DEF Init
    <2>2. \A q \in QueueId : Backlog(q) = <<>>
      BY Zenon, <1>1, <1>3, <2>1, FileTypes
    <2>3. Envelopes(<<>>) = <<>> /\ [i \in 1 .. Len(<<>>) |-> <<>>[i].len] = <<>>
      BY DEF Envelopes
    <2>4. Total(<<>>) = 0
      BY Zenon, <1>1, TotalAppend
    <2>5. StoredBytes = 0
      BY Zenon, <2>1, <2>3, <2>4 DEF StoredBytes, Bytes
    <2> QED
      BY Zenon, <2>1, <2>2, <2>5 DEF UpToDate
  <1>6. MemoryFollowsFile
    BY Zenon, <1>5 DEF Init, MemoryFollowsFile, NoRequest
  <1>7. BacklogReachesSubscribers
    BY Zenon DEF Init, BacklogReachesSubscribers
  <1> QED
    BY Zenon, <1>2, <1>4, <1>6, <1>7 DEF DequesInv

\* Creating a queue, up to the committed transaction: a new queue has no row.
LEMMA CreateDeques ==
  ASSUME QueuesInv, DequesInv, NEW q \in QueueId, NEW entry \in Queue, Create(q, entry)
  PROVE  DequesInv'
  <1> USE DEF Create, memVars, netVars
  <1>1. dbQueues = queues /\ request.op = "none" /\ status = "up"
    BY Zenon, IdleAgrees DEF Idle
  <1>2. MemoryTypeOK' /\ BacklogReachesSubscribers'
    BY Zenon DEF DequesInv, MemoryTypeOK, BacklogReachesSubscribers
  <1>3. RowsHaveMailboxes'
    <2>1. dbQueues[q].kind = "none" /\ dbQueues \in [QueueId -> Queue]
      BY Zenon, <1>1 DEF Fresh, QueuesInv, QueuesTypeOK
    <2>2. \A r \in Rows : r \in Row /\ r.queue \in QueueId
      BY Zenon, RowsTyped DEF QueuesInv, QueuesTypeOK
    <2>3. \A r \in Rows : dbQueues[r.queue].kind = "mailbox" /\ dbQueues'[r.queue] = dbQueues[r.queue]
      BY <2>1, <2>2 DEF DequesInv, RowsHaveMailboxes
    <2>4. \A r \in Rows' : dbQueues'[r.queue].kind = "mailbox"
      BY Zenon, <2>3, SameFile
    <2>5. Rows' \subseteq {r \in Row : IsMailbox(r.queue)'}
      BY Zenon, <1>1, SameFile DEF DequesInv, RowsHaveMailboxes, IsMailbox
    <2>6. queues'[request'.queue].kind = "none"
      BY DEF Fresh
    <2> QED
      BY Zenon, <2>4, <2>5, <2>6 DEF RowsHaveMailboxes
  <1>4. MemoryFollowsFile'
    <2>1. UpToDate'
      BY Zenon, <1>1, FollowsCases, SameUpToDate DEF DequesInv
    <2>2. request'.op = "create"
      OBVIOUS
    <2> QED
      BY Zenon, <2>1, <2>2, FollowsIdle
  <1> QED
    BY Zenon, <1>2, <1>3, <1>4 DEF DequesInv

\* Creating a queue, the memory half: the deque starts empty, like the table.
LEMMA CreateDoneDeques ==
  ASSUME QueuesInv, DequesInv, CreateDone
  PROVE  DequesInv'
  <1> USE DEF CreateDone, dbVars, netVars
  <1>1. PICK p \in QueueId : p = request.queue
    BY Zenon, RequestShape DEF QueuesInv, QueuesTypeOK
  <1>2. queues[p].kind = "none"
    BY Zenon, <1>1 DEF DequesInv, RowsHaveMailboxes
  <1>3. /\ dbPending \in Seq(Row)
        /\ queues \in [QueueId -> Queue]
        /\ pending \in [QueueId -> Seq(Envelope)]
        /\ <<>> \in Seq(Envelope)
    BY DEF QueuesInv, QueuesTypeOK, DequesInv, MemoryTypeOK
  <1>4. \A r \in Rows : r \in Row /\ IsMailbox(r.queue) /\ r.queue # p
    BY Zenon, <1>2 DEF DequesInv, RowsHaveMailboxes, IsMailbox
  <1>5. UpToDate /\ Backlog(p) = <<>>
    BY Zenon, <1>3, <1>4, FileTypes, FollowsCases DEF DequesInv
  <1>6. pending' = pending
    BY <1>1, <1>3, <1>5 DEF UpToDate
  <1>7. MemoryTypeOK' /\ BacklogReachesSubscribers'
    BY Zenon, <1>6 DEF DequesInv, MemoryTypeOK, BacklogReachesSubscribers
  <1>8. RowsHaveMailboxes'
    <2>1. \A r \in Rows : r.queue \in QueueId /\ IsMailbox(r.queue)'
      BY <1>1, <1>3, <1>4 DEF IsMailbox, Row
    <2>2. \A r \in Rows : dbQueues'[r.queue].kind = "mailbox"
      BY Zenon DEF DequesInv, RowsHaveMailboxes
    <2>3. request'.op = "none"
      BY DEF NoRequest
    <2> QED
      BY Zenon, <1>4, <2>1, <2>2, <2>3, SameFile DEF RowsHaveMailboxes
  <1>9. MemoryFollowsFile'
    BY Zenon, <1>5, <1>6, SameUpToDate, FollowsIdle DEF NoRequest
  <1> QED
    BY Zenon, <1>7, <1>8, <1>9 DEF DequesInv

\* The rows of a send are in mailboxes, and memory is behind by just them.
LEMMA SendDeques ==
  ASSUME dbPending \in Seq(Row), UpToDate, RowsHaveMailboxes, status = "up", dbQueues = queues,
         NEW targets \in Seq(QueueId), NEW env \in Envelope,
         dbPending' = dbPending \o Tagged(Stored(targets), env),
         UNCHANGED <<queues, pending, bytesUsed>>
  PROVE  /\ BehindBySend(targets, env)'
         /\ \A r \in Rows' : r \in Row /\ IsMailbox(r.queue)
  <1>1. \A q : Copies(targets, env, q)' = Copies(targets, env, q)
    BY Zenon DEF Copies, IsMailbox
  <1>2. Mailboxes' = Mailboxes
    BY Zenon DEF Mailboxes, IsMailbox
  <1>3. dbPending' \in Seq(Row)
    BY Zenon, SentRows
  <1>4. ASSUME NEW q \in QueueId
        PROVE  Backlog(q)' = pending'[q] \o Copies(targets, env, q)'
    <2>1. BacklogIn(dbPending', q) = BacklogIn(dbPending, q) \o Copies(targets, env, q)
      BY Zenon, BacklogOfSend
    <2>2. Backlog(q)' = BacklogIn(dbPending', q)
      BY Zenon DEF Backlog, BacklogIn
    <2>3. BacklogIn(dbPending, q) = pending[q]
      BY Zenon DEF UpToDate, Backlog, BacklogIn
    <2> QED
      BY Zenon, <1>1, <2>1, <2>2, <2>3
  <1>5. StoredBytes' = bytesUsed' + env.len * Len(Filter(targets, Mailboxes))'
    <2>1. Bytes(Envelopes(dbPending')) =
            Bytes(Envelopes(dbPending)) + env.len * Len(Filter(targets, Mailboxes))
      BY Zenon, BytesOfSend
    <2>2. StoredBytes' = Bytes(Envelopes(dbPending'))
      BY Zenon DEF StoredBytes
    <2>3. Bytes(Envelopes(dbPending)) = bytesUsed
      BY Zenon DEF UpToDate, StoredBytes
    <2> QED
      BY Zenon, <1>2, <2>1, <2>2, <2>3
  <1>6. ASSUME NEW r \in Rows' PROVE r \in Row /\ IsMailbox(r.queue)
    <2>1. r \in Elements(dbPending')
      BY Zenon DEF Rows, Elements
    <2>2. Elements(dbPending') =
            Elements(dbPending) \cup {[queue |-> m, env |-> env] : m \in Recipients(targets)}
      BY Zenon, SentRows
    <2>3. CASE r \in Elements(dbPending)
      BY Zenon, <2>3 DEF RowsHaveMailboxes, Rows, Elements
    <2>4. CASE r \notin Elements(dbPending)
      <3>1. PICK m \in Recipients(targets) : r = [queue |-> m, env |-> env]
        BY Zenon, <2>1, <2>2, <2>4
      <3>2. m \in QueueId /\ IsMailbox(m)
        BY Zenon DEF Recipients, Mailboxes
      <3>3. r.queue = m /\ r \in Row
        BY <3>1, <3>2 DEF Row
      <3> QED
        BY Zenon, <3>2, <3>3
    <2> QED
      BY Zenon, <2>3, <2>4
  <1> QED
    BY Zenon, <1>4, <1>5, <1>6 DEF BehindBySend

\* A mailbox send, up to its INSERT.
LEMMA SendToMailboxDeques ==
  ASSUME QueuesInv, DequesInv, NEW q \in QueueId, NEW env \in Envelope, NEW old \in BOOLEAN,
         SendToMailbox(q, env, old)
  PROVE  DequesInv'
  <1> USE DEF SendToMailbox, netVars
  <1>1. CASE ~(WithinRate(q, old) /\ ~WouldExceedStorageBound(env, 1))
    BY Zenon, <1>1, DequesInvFrame
  <1>2. CASE WithinRate(q, old) /\ ~WouldExceedStorageBound(env, 1)
    <2>1. dbQueues = queues /\ request.op = "none" /\ status = "up"
      BY Zenon, IdleAgrees DEF Idle
    <2>2. dbPending \in Seq(Row) /\ UpToDate /\ RowsHaveMailboxes
      BY Zenon, <2>1, FollowsCases DEF QueuesInv, QueuesTypeOK, DequesInv
    <2>3. /\ dbPending' = dbPending \o Tagged(Stored(<<q>>), env)
          /\ <<q>> \in Seq(QueueId)
      BY Zenon, <1>2, <2>2, SentToOne
    <2>4. /\ BehindBySend(<<q>>, env)'
          /\ \A r \in Rows' : r \in Row /\ IsMailbox(r.queue)
      BY Zenon, <2>1, <2>2, <2>3, SendDeques
    <2>5. request' = [op |-> "mailbox", queue |-> q, env |-> env]
      BY Zenon, <1>2
    <2>6. MemoryTypeOK' /\ BacklogReachesSubscribers'
      BY Zenon DEF DequesInv, MemoryTypeOK, BacklogReachesSubscribers
    <2>7. RowsHaveMailboxes'
      BY Zenon, <2>1, <2>4, <2>5 DEF RowsHaveMailboxes, IsMailbox
    <2>8. MemoryFollowsFile'
      <3>1. request'.op = "mailbox" /\ request'.queue = q /\ request'.env = env
        BY <2>5
      <3> QED
        BY Zenon, <2>4, <3>1 DEF MemoryFollowsFile
    <2> QED
      BY Zenon, <2>6, <2>7, <2>8 DEF DequesInv
  <1> QED
    BY Zenon, <1>1, <1>2

\* A group send, up to the commit of its transaction.
LEMMA SendToGroupInboxDeques ==
  ASSUME QueuesInv, DequesInv, NEW q \in QueueId, NEW commit \in BOOLEAN, NEW target \in Epochs,
         NEW env \in Envelope, NEW old \in BOOLEAN,
         SendToGroupInbox(q, commit, target, env, old)
  PROVE  DequesInv'
  <1> USE DEF SendToGroupInbox, netVars
  <1>1. CASE ~WithinRate(q, old)
    BY Zenon, <1>1, DequesInvFrame
  <1>2. CASE WithinRate(q, old)
    <2>1. dbQueues = queues /\ request.op = "none" /\ status = "up"
      BY Zenon, IdleAgrees DEF Idle
    <2>2. dbPending \in Seq(Row) /\ UpToDate /\ RowsHaveMailboxes /\ queues \in [QueueId -> Queue]
      BY Zenon, <2>1, FollowsCases DEF QueuesInv, QueuesTypeOK, DequesInv
    <2>3. PICK roster \in Seq(QueueId) : roster = queues[q].roster
      BY Zenon, <2>2 DEF Queue
    <2>4. dbPending' = dbPending \o Tagged(Stored(roster), env)
      BY Zenon, <1>2, <2>3
    <2>5. /\ BehindBySend(roster, env)'
          /\ \A r \in Rows' : r \in Row /\ IsMailbox(r.queue)
      BY Zenon, <2>1, <2>2, <2>4, SendDeques
    <2>6. request' = [op |-> "group", queue |-> q, env |-> env, commit |-> commit]
      BY Zenon, <1>2
    <2>7. MemoryTypeOK' /\ BacklogReachesSubscribers'
      BY Zenon DEF DequesInv, MemoryTypeOK, BacklogReachesSubscribers
    <2>8. RowsHaveMailboxes'
      <3>1. \A r \in Rows' : r.queue \in QueueId
        BY Zenon, <2>5 DEF Row
      <3>2. dbQueues' = IF commit THEN [dbQueues EXCEPT ![q].epoch = @ + 1] ELSE dbQueues
        BY Zenon, <1>2
      <3>3. \A p \in QueueId : dbQueues'[p].kind = queues[p].kind
        BY <2>1, <2>2, <3>2 DEF Queue
      <3> QED
        BY Zenon, <2>1, <2>5, <2>6, <3>1, <3>3 DEF RowsHaveMailboxes, IsMailbox
    <2>9. MemoryFollowsFile'
      <3>1. request'.op = "group" /\ request'.queue = q /\ request'.env = env
        BY <2>6
      <3> QED
        BY Zenon, <2>3, <2>5, <3>1 DEF MemoryFollowsFile
    <2> QED
      BY Zenon, <2>7, <2>8, <2>9 DEF DequesInv
  <1> QED
    BY Zenon, <1>1, <1>2

\* push_and_notify applies just what memory was behind by.
LEMMA PushCatchesUp ==
  ASSUME NEW targets \in Seq(QueueId), NEW env \in Envelope, BehindBySend(targets, env),
         PushAndNotify(targets, env), UNCHANGED dbPending
  PROVE  UpToDate'
  BY Zenon, SameFile DEF UpToDate, BehindBySend, PushAndNotify

\* A mailbox send, the memory half and the Ok reply.
LEMMA SendToMailboxDoneDeques ==
  ASSUME QueuesInv, DequesInv, SendToMailboxDone
  PROVE  DequesInv'
  <1> USE DEF SendToMailboxDone, dbVars
  <1>1. PICK q \in QueueId : q = request.queue
    BY Zenon, RequestShape DEF QueuesInv, QueuesTypeOK
  <1>2. PICK env \in Envelope : env = request.env
    BY Zenon, RequestShape DEF QueuesInv, QueuesTypeOK
  <1>3. PICK targets \in Seq(QueueId) : targets = <<q>>
    <2>1. <<q>> \in Seq(QueueId)
      OBVIOUS
    <2> QED
      BY Zenon, <2>1
  <1>4. PushAndNotify(targets, env) /\ UNCHANGED <<dbPending, conn>>
    BY Zenon, <1>1, <1>2, <1>3
  <1>5. BehindBySend(targets, env)
    BY Zenon, <1>1, <1>2, <1>3, FollowsCases DEF DequesInv
  <1>6. MemoryTypeOK' /\ BacklogReachesSubscribers'
    BY Zenon, <1>4, PushInv DEF DequesInv
  <1>7. UpToDate'
    BY Zenon, <1>4, <1>5, PushCatchesUp
  <1>8. RowsHaveMailboxes'
    BY Zenon, SameFile DEF DequesInv, RowsHaveMailboxes, IsMailbox, NoRequest
  <1>9. MemoryFollowsFile'
    BY Zenon, <1>7, FollowsIdle DEF NoRequest
  <1> QED
    BY Zenon, <1>6, <1>8, <1>9 DEF DequesInv

\* A group send, the memory half and the Ok reply.
LEMMA SendToGroupInboxDoneDeques ==
  ASSUME QueuesInv, DequesInv, SendToGroupInboxDone
  PROVE  DequesInv'
  <1> USE DEF SendToGroupInboxDone, dbVars
  <1>1. PICK q \in QueueId : q = request.queue
    BY Zenon, RequestShape DEF QueuesInv, QueuesTypeOK
  <1>2. PICK env \in Envelope : env = request.env
    BY Zenon, RequestShape DEF QueuesInv, QueuesTypeOK
  <1>a. queues \in [QueueId -> Queue] /\ dbPending \in Seq(Row)
    BY Zenon DEF QueuesInv, QueuesTypeOK
  <1>3. PICK targets \in Seq(QueueId) : targets = queues[q].roster
    BY Zenon, <1>a DEF Queue
  <1>4. PushAndNotify(targets, env) /\ UNCHANGED <<dbPending, conn>>
    BY Zenon, <1>1, <1>2, <1>3
  <1>5. BehindBySend(targets, env)
    BY Zenon, <1>1, <1>2, <1>3, FollowsCases DEF DequesInv
  <1>6. MemoryTypeOK' /\ BacklogReachesSubscribers'
    BY Zenon, <1>4, PushInv DEF DequesInv
  <1>7. UpToDate'
    BY Zenon, <1>4, <1>5, PushCatchesUp
  <1>8. RowsHaveMailboxes'
    <2>1. \A p \in QueueId : queues'[p].kind = queues[p].kind
      BY <1>a DEF Queue
    <2>2. \A r \in Rows : r.queue \in QueueId
      BY Zenon, <1>a, RowsTyped
    <2>3. \A r \in Rows : IsMailbox(r.queue)' /\ r \in Row /\ dbQueues'[r.queue].kind = "mailbox"
      BY Zenon, <2>1, <2>2 DEF DequesInv, RowsHaveMailboxes, IsMailbox
    <2>4. request'.op = "none"
      BY DEF NoRequest
    <2> QED
      BY Zenon, <2>3, <2>4, SameFile DEF RowsHaveMailboxes
  <1>9. MemoryFollowsFile'
    BY Zenon, <1>7, FollowsIdle DEF NoRequest
  <1> QED
    BY Zenon, <1>6, <1>8, <1>9 DEF DequesInv

\* An acknowledgement, up to its DELETE.
LEMMA AckDeques ==
  ASSUME QueuesInv, DequesInv, NEW p \in QueueId, NEW id, Ack(p, id)
  PROVE  DequesInv'
  <1> USE DEF Ack, memVars, netVars
  <1>1. dbQueues = queues /\ request.op = "none" /\ status = "up"
    BY Zenon, IdleAgrees DEF Idle
  <1>2. dbPending \in Seq(Row) /\ UpToDate
    BY Zenon, <1>1, FollowsCases DEF QueuesInv, QueuesTypeOK, DequesInv
  <1>3. MemoryTypeOK' /\ BacklogReachesSubscribers'
    BY Zenon DEF DequesInv, MemoryTypeOK, BacklogReachesSubscribers
  <1>4. Rows' \subseteq Rows
    <2>1. Rows' = {r \in Rows : r.queue # p \/ r.env.id # id}
      BY Zenon, <1>2, AckedRows
    <2> QED
      BY Zenon, <2>1
  <1>5. request'.op = "ack" /\ request'.queue = p /\ request'.id = id
    OBVIOUS
  <1>6. RowsHaveMailboxes'
    BY Zenon, <1>1, <1>4, <1>5 DEF DequesInv, RowsHaveMailboxes, IsMailbox
  <1>7. dbPending' = Filter(dbPending, KeptRows(p, id))
    BY Zenon DEF KeptRows
  <1>8. \A q \in QueueId : BacklogIn(dbPending, q) = pending[q]
    BY Zenon, <1>2 DEF UpToDate, Backlog, BacklogIn
  <1>9. ASSUME NEW q \in QueueId
        PROVE  Backlog(q)' = IF q = p THEN Retained(pending'[q], id) ELSE pending'[q]
    <2>1. /\ q = p => BacklogIn(dbPending', q) = Retained(BacklogIn(dbPending, q), id)
          /\ q # p => BacklogIn(dbPending', q) = BacklogIn(dbPending, q)
      <3>1. AckLeaves(dbPending, Filter(dbPending, KeptRows(p, id)), p, q, id)
        BY Zenon, <1>2, BacklogOfAck
      <3> QED
        BY Zenon, <1>7, <3>1 DEF AckLeaves
    <2>2. Backlog(q)' = BacklogIn(dbPending', q)
      BY Zenon DEF Backlog, BacklogIn
    <2> QED
      BY Zenon, <1>8, <2>1, <2>2
  <1>10. StoredBytes' + Bytes(Released(pending'[p], id)) = bytesUsed'
    <2>1. Bytes(Envelopes(dbPending)) = Bytes(Envelopes(dbPending')) + Bytes(Released(pending[p], id))
      BY Zenon, <1>2, <1>7, <1>8, BytesOfAck
    <2>2. StoredBytes' = Bytes(Envelopes(dbPending')) /\ bytesUsed = Bytes(Envelopes(dbPending))
      BY Zenon, <1>2 DEF StoredBytes, UpToDate
    <2> QED
      BY Zenon, <2>1, <2>2
  <1>11. BehindByAck(p, id)'
    BY Zenon, <1>9, <1>10 DEF BehindByAck
  <1>12. MemoryFollowsFile'
    BY Zenon, <1>5, <1>11 DEF MemoryFollowsFile
  <1> QED
    BY Zenon, <1>3, <1>6, <1>12 DEF DequesInv

\* An acknowledgement, the memory half: the deque drops what the table has
\* dropped, and what is left has still been pushed in order.
LEMMA AckDoneDeques ==
  ASSUME QueuesInv, DequesInv, AckDone
  PROVE  DequesInv'
  <1> USE DEF AckDone, dbVars, netVars
  <1>1. PICK p \in QueueId : p = request.queue
    BY Zenon, RequestShape DEF QueuesInv, QueuesTypeOK
  <1>2. PICK id : id = request.id
    BY Zenon
  <1>3. /\ dbPending \in Seq(Row) /\ bytesUsed \in Nat
        /\ pending \in [QueueId -> Seq(Envelope)]
        /\ \A c \in Conn : channel[c] \in Seq(Row)
        /\ \A q \in QueueId : subscribers[q] \subseteq Conn
    BY Zenon DEF QueuesInv, QueuesTypeOK, DequesInv, MemoryTypeOK, Row
  <1>4. BehindByAck(p, id)
    BY Zenon, <1>1, <1>2, FollowsCases DEF DequesInv
  <1>5. pending[p] \in Seq(Envelope)
    BY Zenon, <1>3
  <1>6. PICK kept \in Seq(Envelope) : kept = Retained(pending[p], id)
    BY Zenon, <1>5, FilterBasics DEF Retained
  <1>7. pending' = [pending EXCEPT ![p] = kept]
    BY Zenon, <1>1, <1>2, <1>6
  <1>8. pending' \in [QueueId -> Seq(Envelope)] /\ pending'[p] = kept
        /\ \A q \in QueueId : q # p => pending'[q] = pending[q]
    BY Zenon, <1>3, <1>7
  <1>9. bytesUsed' = StoredBytes /\ StoredBytes \in Nat
    <2>1. Released(pending[p], id) \in Seq(Envelope)
      BY Zenon, <1>5, FilterBasics DEF Released
    <2>2. PICK freed \in Nat : freed = Bytes(Released(pending[p], id))
      BY Zenon, <2>1, BytesType
    <2>3. StoredBytes \in Nat
      BY Zenon, <1>3, FileTypes
    <2>4. StoredBytes + freed = bytesUsed
      BY Zenon, <1>4, <2>2 DEF BehindByAck
    <2>5. bytesUsed' = IF freed > bytesUsed THEN 0 ELSE bytesUsed - freed
      BY Zenon, <1>1, <1>2, <2>2
    <2> QED
      BY <1>3, <2>3, <2>4, <2>5
  <1>10. MemoryTypeOK'
    BY Zenon, <1>8, <1>9 DEF DequesInv, MemoryTypeOK
  <1>11. UpToDate'
    <2>1. \A q \in QueueId : Backlog(q) = pending'[q]
      BY Zenon, <1>4, <1>6, <1>8 DEF BehindByAck
    <2> QED
      BY Zenon, <1>9, <2>1, SameFile DEF UpToDate
  <1>12. RowsHaveMailboxes'
    BY Zenon, SameFile DEF DequesInv, RowsHaveMailboxes, IsMailbox, NoRequest
  <1>13. ASSUME NEW q \in QueueId, NEW c \in subscribers'[q], conn'[c] = "open"
         PROVE  Reaches(pending'[q], q, channel'[c])
    <2>1. Reaches(pending[q], q, channel[c])
      BY Zenon, <1>3, <1>13, ReachesMeans DEF DequesInv
    <2>2. CASE q # p
      BY Zenon, <1>8, <2>1, <2>2
    <2>3. CASE q = p
      <3>1. PICK g : g = InQueue(q) /\ Maps(g, Envelope, Row)
        BY Zenon, LoopMaps
      <3>2. IsSubsequence(kept, pending[p])
        BY Zenon, <1>5, <1>6, SubsequenceFilter DEF Retained
      <3>3. IsSubsequence(Mapped(g, kept), Mapped(g, pending[p]))
        BY Zenon, <1>5, <3>1, <3>2, SubsequenceMapped
      <3>4. Mapped(g, kept) \in Seq(Row) /\ Mapped(g, pending[p]) \in Seq(Row)
        BY Zenon, <1>5, <3>1, DrainMapped
      <3>5. channel[c] \in Seq(Row)
        BY Zenon, <1>3, <1>13
      <3>6. IsSubsequence(Mapped(g, pending[p]), channel[c])
        BY Zenon, <2>1, <2>3, <3>1 DEF Reaches
      <3>7. IsSubsequence(Mapped(g, kept), channel[c])
        BY Zenon, <3>3, <3>4, <3>5, <3>6, SubsequenceTransitive
      <3> QED
        BY Zenon, <1>8, <2>3, <3>1, <3>7 DEF Reaches
    <2> QED
      BY Zenon, <2>2, <2>3
  <1>14. BacklogReachesSubscribers'
    BY Zenon, <1>8, <1>13, ReachesNext
  <1>15. MemoryFollowsFile'
    BY Zenon, <1>11, FollowsIdle DEF NoRequest
  <1> QED
    BY Zenon, <1>10, <1>12, <1>14, <1>15 DEF DequesInv

\* The drain of a subscription, and the part of each mailbox in it.
LEMMA DrainedFacts ==
  ASSUME pending \in [QueueId -> Seq(Envelope)], NEW list \in Seq(QueueId)
  PROVE  /\ Drained(list) \in Seq(Row)
         /\ \A q \in Elements(list) : Reaches(pending[q], q, Drained(list))
  <1>1. \A q \in QueueId : DrainOf(q) = Mapped(InQueue(q), pending[q]) /\ DrainOf(q) \in Seq(Row)
    <2>1. \A q \in QueueId : pending[q] \in Seq(Envelope)
      BY Zenon
    <2> QED
      BY Zenon, <2>1, DrainMapped DEF DrainOf
  <1>2. PICK parts : parts = [i \in 1 .. Len(list) |-> DrainOf(list[i])]
    BY Zenon
  <1>3. \A i \in 1 .. Len(list) : list[i] \in QueueId
    OBVIOUS
  <1>4. \A i \in 1 .. Len(list) : DrainOf(list[i]) \in Seq(Row)
    BY Zenon, <1>1, <1>3
  <1>5. parts \in Seq(Seq(Row)) /\ Len(parts) = Len(list)
    BY <1>2, <1>4
  <1>6. Drained(list) = Joined(parts)
    BY Zenon, <1>2 DEF Drained
  <1>7. Joined(parts) \in Seq(Row)
    <2>1. <<>> \in Seq(Row)
      OBVIOUS
    <2> QED
      BY Zenon, <1>5, <2>1, JoinedAppend
  <1>8. ASSUME NEW q \in Elements(list)
        PROVE  Reaches(pending[q], q, Joined(parts))
    <2>1. PICK i \in 1 .. Len(list) : list[i] = q
      BY Zenon DEF Elements
    <2>2. i \in 1 .. Len(parts) /\ parts[i] = DrainOf(q)
      BY Zenon, <1>2, <1>5, <2>1
    <2>3. IsSubsequence(parts[i], Joined(parts))
      BY Zenon, <1>5, <2>2, SubsequenceJoined
    <2> QED
      BY Zenon, <1>1, <1>3, <2>1, <2>2, <2>3 DEF Reaches
  <1> QED
    BY Zenon, <1>6, <1>7, <1>8

\* What has reached a channel is still there, or in front, when it gets more.
LEMMA ReachesLonger ==
  ASSUME NEW q \in QueueId, NEW envs \in Seq(Envelope),
         NEW pushed \in Seq(Row), NEW new \in Seq(Row), Reaches(envs, q, pushed)
  PROVE  Reaches(envs, q, pushed \o new) /\ Reaches(envs, q, new \o pushed)
  <1>1. PICK drain \in Seq(Row) : drain = Mapped(InQueue(q), envs)
    BY Zenon, DrainMapped
  <1> QED
    BY Zenon, <1>1, SubsequenceLonger DEF Reaches

\* subscribe: the new subscriber gets the backlog of each mailbox, and the
\* others keep what they have.
LEMMA SubscribeDeques ==
  ASSUME QueuesInv, DequesInv, NEW c \in Conn, NEW list \in WatchLists, Subscribe(c, list)
  PROVE  DequesInv'
  <1> USE DEF Subscribe, dbVars
  <1>1. list \in Seq(QueueId)
    BY Zenon, ListsAssumption
  <1>2. /\ pending \in [QueueId -> Seq(Envelope)]
        /\ channel \in [Conn -> Seq(Row)]
        /\ subscribers \in [QueueId -> SUBSET Conn]
    BY Zenon DEF DequesInv, MemoryTypeOK, Row
  <1>3. /\ Drained(list) \in Seq(Row)
        /\ \A q \in Elements(list) : Reaches(pending[q], q, Drained(list))
    BY Zenon, <1>1, <1>2, DrainedFacts
  <1>4. channel[c] \in Seq(Row) /\ channel[c] \o Drained(list) \in Seq(Row)
    BY Zenon, <1>2, <1>3, ConcatAt
  <1>5. channel' = [channel EXCEPT ![c] = channel[c] \o Drained(list)]
    BY Zenon
  <1>6. /\ channel' \in [Conn -> Seq(Row)]
        /\ channel'[c] = channel[c] \o Drained(list)
        /\ \A d \in Conn : d # c => channel'[d] = channel[d]
    BY Zenon, <1>2, <1>4, <1>5
  <1>7. subscribers' = [q \in QueueId |->
                          IF q \in Elements(list)
                          THEN {d \in subscribers[q] : conn[d] = "open"} \cup {c}
                          ELSE subscribers[q]]
    BY Zenon DEF Elements
  <1>8. subscribers' \in [QueueId -> SUBSET Conn]
    <2>1. ASSUME NEW q \in QueueId
          PROVE  /\ subscribers[q] \in SUBSET Conn
                 /\ {d \in subscribers[q] : conn[d] = "open"} \cup {c} \in SUBSET Conn
      BY Zenon, <1>2
    <2> QED
      BY <1>7, <2>1
  <1>9. MemoryTypeOK'
    BY Zenon, <1>6, <1>8 DEF DequesInv, MemoryTypeOK, Row
  <1>10. RowsHaveMailboxes'
    BY Zenon, SameFile DEF DequesInv, RowsHaveMailboxes, IsMailbox
  <1>11. MemoryFollowsFile'
    <2>1. request.op = "none" /\ status = "up"
      BY Zenon, IdleAgrees DEF Idle
    <2> QED
      BY Zenon, <2>1, FollowsCases, SameUpToDate, FollowsIdle DEF DequesInv
  <1>12. ASSUME NEW q \in QueueId, NEW d \in subscribers'[q], conn'[d] = "open"
         PROVE  Reaches(pending'[q], q, channel'[d])
    <2>1. pending[q] \in Seq(Envelope) /\ d \in Conn
      BY Zenon, <1>2, <1>8
    <2>2. CASE d \in subscribers[q]
      <3>1. Reaches(pending[q], q, channel[d])
        BY Zenon, <1>2, <1>12, <2>2, ReachesMeans DEF DequesInv
      <3>2. CASE d # c
        BY Zenon, <1>6, <2>1, <3>1, <3>2
      <3>3. CASE d = c
        BY Zenon, <1>3, <1>4, <1>6, <2>1, <3>1, <3>3, ReachesLonger
      <3> QED
        BY Zenon, <3>2, <3>3
    <2>3. CASE d \notin subscribers[q]
      <3>1. d = c /\ q \in Elements(list)
        BY Zenon, <1>7, <2>3
      <3> QED
        BY Zenon, <1>3, <1>4, <1>6, <2>1, <3>1, ReachesLonger
    <2> QED
      BY Zenon, <2>2, <2>3
  <1>13. BacklogReachesSubscribers'
    BY Zenon, <1>2, <1>12, ReachesNext
  <1> QED
    BY Zenon, <1>9, <1>10, <1>11, <1>13 DEF DequesInv

\* A connection that opens is in no list of subscribers, and one that closes
\* has no receiver.
LEMMA ConnectionDeques ==
  ASSUME DequesInv, NEW c \in Conn, Connect(c) \/ Disconnect(c)
  PROVE  DequesInv'
  <1> USE DEF Connect, Disconnect, dbVars, memVars
  <1>1. /\ conn \in [Conn -> {"open", "closed"}]
        /\ channel \in [Conn -> Seq(Row)]
        /\ subscribers \in [QueueId -> SUBSET Conn]
    BY Zenon DEF DequesInv, MemoryTypeOK, Row
  <1>2. <<>> \in Seq(Row)
    OBVIOUS
  <1>3. conn' \in [Conn -> {"open", "closed"}] /\ channel' \in [Conn -> Seq(Row)]
    BY Zenon, <1>1, <1>2
  <1>4. MemoryTypeOK'
    BY Zenon, <1>3 DEF DequesInv, MemoryTypeOK, Row
  <1>5. ASSUME NEW q \in QueueId, NEW d \in subscribers[q], conn'[d] = "open"
        PROVE  conn[d] = "open" /\ channel'[d] = channel[d]
    <2>1. d \in Conn
      BY Zenon, <1>1
    <2> QED
      BY <1>1, <1>5, <2>1
  <1>6. BacklogReachesSubscribers'
    BY Zenon, <1>5 DEF DequesInv, BacklogReachesSubscribers
  <1>7. RowsHaveMailboxes'
    BY Zenon, SameFile DEF DequesInv, RowsHaveMailboxes, IsMailbox
  <1>8. MemoryFollowsFile'
    <2>1. \A t, e, q : Copies(t, e, q)' = Copies(t, e, q)
      BY Zenon DEF Copies, IsMailbox
    <2>2. Mailboxes' = Mailboxes
      BY Zenon DEF Mailboxes, IsMailbox
    <2>3. /\ UpToDate' <=> UpToDate
          /\ \A t, e : BehindBySend(t, e)' <=> BehindBySend(t, e)
          /\ \A p, id : BehindByAck(p, id)' <=> BehindByAck(p, id)
      BY Zenon, <2>1, <2>2, SameFile DEF UpToDate, BehindBySend, BehindByAck
    <2> QED
      BY Zenon, <2>3 DEF DequesInv, MemoryFollowsFile
  <1> QED
    BY Zenon, <1>4, <1>6, <1>7, <1>8 DEF DequesInv

\* A crash loses memory and a failed write ends every handler; the rows stay
\* in their mailboxes.
LEMMA CrashDeques ==
  ASSUME DequesInv, Crash \/ PersistenceFails
  PROVE  DequesInv'
  <1> USE DEF Crash, PersistenceFails, dbVars, memVars, netVars
  <1>1. <<>> \in Seq(Envelope) /\ <<>> \in Seq(Row) /\ 0 \in Nat
    OBVIOUS
  <1>2. MemoryTypeOK'
    <2>1. CASE PersistenceFails
      BY Zenon, <2>1 DEF DequesInv, MemoryTypeOK
    <2>2. CASE Crash
      BY Zenon, <1>1, <2>2 DEF MemoryTypeOK, Row
    <2> QED
      BY Zenon, <2>1, <2>2
  <1>3. status' # "up" /\ request'.op = "none"
    BY DEF NoRequest, Idle
  <1>4. RowsHaveMailboxes'
    BY Zenon, <1>3, SameFile DEF DequesInv, RowsHaveMailboxes
  <1>5. MemoryFollowsFile'
    BY Zenon, <1>3 DEF MemoryFollowsFile
  <1>6. BacklogReachesSubscribers'
    BY Zenon DEF DequesInv, BacklogReachesSubscribers
  <1> QED
    BY Zenon, <1>2, <1>4, <1>5, <1>6 DEF DequesInv

\* A restart reads the deques and the byte count from the file.
LEMMA OpenDeques ==
  ASSUME QueuesInv, DequesInv, Open
  PROVE  DequesInv'
  <1> USE DEF Open, dbVars, netVars
  <1>1. request = NoRequest /\ dbPending \in Seq(Row)
    BY Zenon DEF QueuesInv, QueuesTypeOK, RequestIsDurable
  <1>2. /\ \A q \in QueueId : Backlog(q) \in Seq(Envelope)
        /\ StoredBytes \in Nat
        /\ \A q \in QueueId : (\A r \in Rows : r.queue # q) => Backlog(q) = <<>>
    BY Zenon, <1>1, FileTypes
  <1>3. \A q \in QueueId : pending'[q] = Backlog(q)
    BY Zenon, <1>2 DEF DequesInv, RowsHaveMailboxes
  <1>4. pending' = [q \in QueueId |-> pending'[q]]
    BY Zenon
  <1>5. MemoryTypeOK'
    BY Zenon, <1>2, <1>3, <1>4 DEF DequesInv, MemoryTypeOK
  <1>6. RowsHaveMailboxes'
    BY Zenon, <1>1, RowsTyped, SameFile DEF DequesInv, RowsHaveMailboxes, IsMailbox, NoRequest
  <1>7. UpToDate'
    BY Zenon, <1>3, SameFile DEF UpToDate
  <1>8. MemoryFollowsFile'
    BY Zenon, <1>1, <1>7, FollowsIdle DEF NoRequest
  <1>9. BacklogReachesSubscribers'
    BY Zenon DEF BacklogReachesSubscribers
  <1> QED
    BY Zenon, <1>5, <1>6, <1>8, <1>9 DEF DequesInv

\* Every step preserves the invariant.
LEMMA DequesInvNext == QueuesInv /\ DequesInv /\ [Next]_vars => DequesInv'
  <1> SUFFICES ASSUME QueuesInv, DequesInv, [Next]_vars PROVE DequesInv'
    BY Zenon
  <1>1. CASE UNCHANGED vars
    BY Zenon, <1>1, DequesInvFrame DEF vars, dbVars, memVars, netVars
  <1>2. ASSUME NEW q \in QueueId, CreateMailbox(q)
        PROVE  DequesInv'
    BY Zenon, <1>2, CreateDeques, EntriesAreQueues DEF CreateMailbox
  <1>3. ASSUME NEW q \in QueueId, NEW e \in InitialEpochs, NEW r \in Rosters,
               CreateGroupInbox(q, e, r)
        PROVE  DequesInv'
    BY Zenon, <1>3, CreateDeques, EntriesAreQueues DEF CreateGroupInbox
  <1>4. ASSUME NEW c \in Conn, NEW l \in WatchLists, Subscribe(c, l)
        PROVE  DequesInv'
    BY Zenon, <1>4, SubscribeDeques
  <1>5. ASSUME NEW q \in QueueId, NEW env \in Envelope, NEW old \in BOOLEAN,
               SendToMailbox(q, env, old)
        PROVE  DequesInv'
    BY Zenon, <1>5, SendToMailboxDeques
  <1>6. ASSUME NEW q \in QueueId, NEW commit \in BOOLEAN, NEW t \in Epochs,
               NEW env \in Envelope, NEW old \in BOOLEAN,
               SendToGroupInbox(q, commit, t, env, old)
        PROVE  DequesInv'
    BY Zenon, <1>6, SendToGroupInboxDeques
  <1>7. ASSUME NEW q \in QueueId, NEW env \in Envelope, Ack(q, env.id)
        PROVE  DequesInv'
    BY Zenon, <1>7, AckDeques
  <1>8. CASE Completion
    BY Zenon, <1>8, CreateDoneDeques, SendToMailboxDoneDeques, SendToGroupInboxDoneDeques,
       AckDoneDeques DEF Completion
  <1>9. ASSUME NEW c \in Conn, Connect(c) \/ Disconnect(c)
        PROVE  DequesInv'
    BY Zenon, <1>9, ConnectionDeques
  <1>10. CASE PersistenceFails \/ Crash \/ Open
    BY Zenon, <1>10, CrashDeques, OpenDeques
  <1> QED
    BY Zenon, <1>1, <1>2, <1>3, <1>4, <1>5, <1>6, <1>7, <1>8, <1>9, <1>10
       DEF Next, Handler, Environment

\* The inductive invariant of the deques holds of the relay.
THEOREM DequesInvHolds == Spec => []DequesInv
  <1>1. Init => DequesInv
    BY DequesInvInit
  <1>2. QueuesInv /\ DequesInv /\ [Next]_vars => DequesInv'
    BY DequesInvNext
  <1> QED
    BY <1>1, <1>2, QueuesInvHolds, PTL DEF Spec

\* Write-through, for any number of queues, messages and crashes: between
\* requests memory is exactly what a restart would read from the file.
THEOREM MemoryIsWrittenThrough == Spec => []MemoryMirrorsDisk
  <1>1. QueuesInv /\ DequesInv => MemoryMirrorsDisk
    <2> SUFFICES ASSUME QueuesInv, DequesInv, Idle
                 PROVE  /\ queues = dbQueues
                        /\ \A q \in QueueId : pending[q] = Backlog(q)
                        /\ bytesUsed = StoredBytes
      BY Zenon DEF MemoryMirrorsDisk
    <2>1. dbQueues = queues /\ request.op = "none" /\ status = "up"
      BY Zenon, IdleAgrees DEF Idle
    <2>2. UpToDate
      BY Zenon, <2>1, FollowsCases DEF DequesInv
    <2> QED
      BY Zenon, <2>1, <2>2 DEF UpToDate
  <1> QED
    BY <1>1, QueuesInvHolds, DequesInvHolds, PTL

\* At-least-once and in order, for any number of queues, channels and
\* messages: whatever a mailbox holds has been pushed to every live subscriber.
THEOREM SubscribersAreServed == Spec => []BacklogReachesSubscribers
  BY DequesInvHolds, PTL DEF DequesInv

-----------------------------------------------------------------------------
(* The limits *)

\* A rate window never counts past the limit.
RateTyped == sentThisMinute \in [QueueId -> 0 .. RateLimit]

\* check_and_bump_rate_limit stops at the limit.
LEMMA BumpTyped ==
  ASSUME RateTyped, NEW q \in QueueId, NEW old \in BOOLEAN, BumpRateLimit(q, old)
  PROVE  RateTyped'
  <1>1. sentThisMinute[q] \in 0 .. RateLimit /\ 0 \in 0 .. RateLimit
    BY BoundsAssumption DEF RateTyped
  <1>2. PICK w \in 0 .. RateLimit : w = Window(q, old)
    BY Zenon, <1>1 DEF Window
  <1>3. w < RateLimit => w + 1 \in 0 .. RateLimit
    BY BoundsAssumption
  <1>4. PICK v \in 0 .. RateLimit : sentThisMinute' = [sentThisMinute EXCEPT ![q] = v]
    BY Zenon, <1>2, <1>3 DEF BumpRateLimit, WithinRate
  <1> QED
    BY Zenon, <1>4 DEF RateTyped

\* Every step keeps the rate windows within the limit.
LEMMA RateTypedNext == RateTyped /\ [Next]_vars => RateTyped'
  <1> SUFFICES ASSUME RateTyped, [Next]_vars PROVE RateTyped'
    BY Zenon
  <1>0. 0 \in 0 .. RateLimit
    BY BoundsAssumption
  <1>1. CASE UNCHANGED sentThisMinute
    BY Zenon, <1>1 DEF RateTyped
  <1>2. ASSUME NEW q \in QueueId, NEW old \in BOOLEAN, BumpRateLimit(q, old)
        PROVE  RateTyped'
    BY Zenon, <1>2, BumpTyped
  <1>3. CASE Crash \/ Open
    BY Zenon, <1>0, <1>3 DEF Crash, Open, RateTyped
  <1>4. CASE CreateDone
    BY Zenon, <1>0, <1>4 DEF CreateDone, RateTyped
  <1>5. CASE Handler
    <2>1. CASE \/ \E q \in QueueId : CreateMailbox(q)
               \/ \E q \in QueueId, e \in InitialEpochs, r \in Rosters : CreateGroupInbox(q, e, r)
               \/ \E c \in Conn, l \in WatchLists : Subscribe(c, l)
               \/ \E q \in QueueId, env \in Envelope : Ack(q, env.id)
      BY Zenon, <1>1, <2>1 DEF CreateMailbox, CreateGroupInbox, Create, Subscribe, Ack, memVars
    <2>2. CASE \E q \in QueueId, env \in Envelope, old \in BOOLEAN : SendToMailbox(q, env, old)
      BY Zenon, <1>2, <2>2 DEF SendToMailbox
    <2>3. CASE \E q \in QueueId, commit \in BOOLEAN, t \in Epochs, env \in Envelope,
                 old \in BOOLEAN : SendToGroupInbox(q, commit, t, env, old)
      <3>1. PICK q \in QueueId, commit \in BOOLEAN, t \in Epochs, env \in Envelope,
                 old \in BOOLEAN : SendToGroupInbox(q, commit, t, env, old)
        BY Zenon, <2>3
      <3>2. BumpRateLimit(q, old)
        BY Zenon, <3>1 DEF SendToGroupInbox
      <3> QED
        BY Zenon, <1>2, <3>2
    <2> QED
      BY Zenon, <1>5, <2>1, <2>2, <2>3 DEF Handler
  <1>6. CASE SendToMailboxDone \/ SendToGroupInboxDone \/ AckDone
    BY Zenon, <1>1, <1>6 DEF SendToMailboxDone, SendToGroupInboxDone, AckDone
  <1>7. CASE \/ \E c \in Conn : Connect(c) \/ Disconnect(c)
             \/ PersistenceFails
             \/ UNCHANGED vars
    BY Zenon, <1>1, <1>7 DEF Connect, Disconnect, PersistenceFails, memVars, vars
  <1> QED
    BY Zenon, <1>3, <1>4, <1>5, <1>6, <1>7 DEF Next, Completion, Environment

\* Every variable keeps its type, and no queue takes more sends in a minute
\* than RateLimit (check_and_bump_rate_limit), for any limit.
THEOREM TypesHold == Spec => []TypeOK
  <1>1. Init => RateTyped
    <2> SUFFICES ASSUME Init PROVE RateTyped
      BY Zenon
    <2>1. 0 \in 0 .. RateLimit
      BY BoundsAssumption
    <2>2. sentThisMinute = [q \in QueueId |-> 0]
      BY Zenon DEF Init
    <2> QED
      BY Zenon, <2>1, <2>2 DEF RateTyped
  <1>2. RateTyped /\ [Next]_vars => RateTyped'
    BY RateTypedNext
  <1>3. QueuesInv /\ DequesInv /\ RateTyped => TypeOK
    BY Zenon DEF QueuesInv, DequesInv, RateTyped, TypeOK
  <1> QED
    BY <1>1, <1>2, <1>3, QueuesInvHolds, DequesInvHolds, PTL DEF Spec

\* The ciphertext the relay keeps for the mailboxes, on disk and by its own
\* count, stays within MAX_STORAGE_BYTES (would_exceed_storage_bound), through
\* fan-outs that repeat a member and through crashes between a write and the
\* count of it.
StorageBounded == StoredBytes <= MaxStorageBytes /\ bytesUsed <= MaxStorageBytes

\* A send that passed the check leaves the file within the bound.
LEMMA SendFits ==
  ASSUME dbPending \in Seq(Row), StoredBytes = bytesUsed,
         NEW targets \in Seq(QueueId), NEW env \in Envelope,
         ~WouldExceedStorageBound(env, Len(targets)),
         dbPending' = dbPending \o Tagged(Stored(targets), env)
  PROVE  StoredBytes' <= MaxStorageBytes
  <1>1. PICK n \in Nat : n = Len(Filter(targets, Mailboxes))
    <2>1. PICK f \in Seq(QueueId) : f = Filter(targets, Mailboxes)
      BY Zenon, FilterBasics
    <2>2. Len(f) \in Nat
      OBVIOUS
    <2> QED
      BY Zenon, <2>1, <2>2
  <1>2. PICK m \in Nat : m = Len(targets)
    OBVIOUS
  <1>3. n <= m
    BY Zenon, <1>1, <1>2, FilterShorter
  <1>4. PICK l \in Nat : l = env.len
    BY EnvelopeAssumption
  <1>5. PICK x \in Nat : x = l * n
    BY Zenon, ProductType
  <1>6. PICK y \in Nat : y = l * m
    BY Zenon, ProductType
  <1>7. x <= y
    BY Zenon, <1>3, <1>5, <1>6, ProductGrows
  <1>8. PICK b \in Nat : b = bytesUsed
    BY Zenon, FileTypes
  <1>9. StoredBytes' = b + x
    BY Zenon, <1>1, <1>4, <1>5, <1>8, BytesOfSend DEF StoredBytes
  <1>10. ~(b + y > MaxStorageBytes)
    BY Zenon, <1>2, <1>4, <1>6, <1>8 DEF WouldExceedStorageBound
  <1>11. b + x <= MaxStorageBytes
    BY <1>7, <1>10, BoundsAssumption
  <1> QED
    BY Zenon, <1>9, <1>11

\* send_to_mailbox checks the bound for its one copy.
LEMMA MailboxFits ==
  ASSUME QueuesInv, DequesInv, StorageBounded,
         NEW q \in QueueId, NEW env \in Envelope, NEW old \in BOOLEAN, SendToMailbox(q, env, old)
  PROVE  StorageBounded'
  <1> USE DEF SendToMailbox
  <1>1. request.op = "none" /\ status = "up" /\ dbPending \in Seq(Row)
    BY Zenon, IdleAgrees DEF Idle, QueuesInv, QueuesTypeOK
  <1>2. StoredBytes = bytesUsed
    BY Zenon, <1>1, FollowsCases DEF DequesInv, UpToDate
  <1>3. CASE WithinRate(q, old) /\ ~WouldExceedStorageBound(env, 1)
    <2>1. /\ dbPending' = dbPending \o Tagged(Stored(<<q>>), env)
          /\ <<q>> \in Seq(QueueId)
      BY Zenon, <1>1, <1>3, SentToOne
    <2>2. Len(<<q>>) = 1
      OBVIOUS
    <2>3. ~WouldExceedStorageBound(env, Len(<<q>>))
      BY Zenon, <1>3, <2>2
    <2> QED
      BY Zenon, <1>1, <1>2, <2>1, <2>3, SendFits DEF StorageBounded
  <1>4. CASE ~(WithinRate(q, old) /\ ~WouldExceedStorageBound(env, 1))
    BY Zenon, <1>4, SameFile DEF StorageBounded
  <1> QED
    BY Zenon, <1>3, <1>4

\* send_to_group_inbox checks it for as many copies as the roster has entries.
LEMMA FanOutFits ==
  ASSUME QueuesInv, DequesInv, StorageBounded,
         NEW q \in QueueId, NEW commit \in BOOLEAN, NEW t \in Epochs,
         NEW env \in Envelope, NEW old \in BOOLEAN, SendToGroupInbox(q, commit, t, env, old)
  PROVE  StorageBounded'
  <1> USE DEF SendToGroupInbox
  <1>1. /\ request.op = "none" /\ status = "up" /\ dbPending \in Seq(Row)
        /\ dbQueues = queues /\ dbQueues \in [QueueId -> Queue]
    BY Zenon, IdleAgrees DEF Idle, QueuesInv, QueuesTypeOK
  <1>2. StoredBytes = bytesUsed
    BY Zenon, <1>1, FollowsCases DEF DequesInv, UpToDate
  <1>3. PICK roster \in Seq(QueueId) : roster = queues[q].roster
    BY <1>1 DEF Queue
  <1>4. CASE WithinRate(q, old)
    BY Zenon, <1>1, <1>2, <1>3, <1>4, SendFits DEF StorageBounded
  <1>5. CASE ~WithinRate(q, old)
    BY Zenon, <1>5, SameFile DEF StorageBounded
  <1> QED
    BY Zenon, <1>4, <1>5

\* An ack takes rows out of the file.
LEMMA AckFits ==
  ASSUME QueuesInv, StorageBounded, NEW q \in QueueId, NEW id, Ack(q, id)
  PROVE  StorageBounded'
  <1>1. dbPending \in Seq(Row)
    BY Zenon DEF QueuesInv, QueuesTypeOK
  <1>2. dbPending' = Filter(dbPending, KeptRows(q, id)) /\ bytesUsed' = bytesUsed
    BY Zenon DEF Ack, KeptRows, memVars
  <1>3. PICK now \in Nat : now = StoredBytes
    BY Zenon, <1>1, BytesOfAck DEF StoredBytes
  <1>4. PICK then \in Nat : then = StoredBytes'
    BY Zenon, <1>1, <1>2, BytesOfAck DEF StoredBytes
  <1>5. PICK freed \in Nat : now = then + freed
    BY Zenon, <1>1, <1>2, <1>3, <1>4, BytesOfAck DEF StoredBytes
  <1>6. now <= MaxStorageBytes => then <= MaxStorageBytes
    BY <1>5, BoundsAssumption
  <1> QED
    BY Zenon, <1>2, <1>3, <1>4, <1>6 DEF StorageBounded

\* Every step keeps the bound.  The memory half of a handler, and a restart,
\* bring the count to what the file holds.
LEMMA StorageNext == QueuesInv /\ DequesInv /\ StorageBounded /\ [Next]_vars => StorageBounded'
  <1> SUFFICES ASSUME QueuesInv, DequesInv, StorageBounded, [Next]_vars
               PROVE  StorageBounded'
    BY Zenon
  <1>1. DequesInv'
    BY Zenon, DequesInvNext
  <1>2. CASE UNCHANGED <<dbPending, bytesUsed>>
    BY Zenon, <1>2, SameFile DEF StorageBounded
  <1>3. CASE UNCHANGED dbPending /\ status' = "up" /\ request'.op = "none"
    <2>1. StoredBytes' = bytesUsed'
      BY Zenon, <1>1, <1>3 DEF DequesInv, MemoryFollowsFile, UpToDate
    <2> QED
      BY Zenon, <1>3, <2>1, SameFile DEF StorageBounded
  <1>4. ASSUME NEW q \in QueueId, NEW env \in Envelope, NEW old \in BOOLEAN,
               SendToMailbox(q, env, old)
        PROVE  StorageBounded'
    BY Zenon, <1>4, MailboxFits
  <1>5. ASSUME NEW q \in QueueId, NEW commit \in BOOLEAN, NEW t \in Epochs,
               NEW env \in Envelope, NEW old \in BOOLEAN,
               SendToGroupInbox(q, commit, t, env, old)
        PROVE  StorageBounded'
    BY Zenon, <1>5, FanOutFits
  <1>6. ASSUME NEW q \in QueueId, NEW env \in Envelope, Ack(q, env.id)
        PROVE  StorageBounded'
    BY Zenon, <1>6, AckFits
  <1>7. CASE \/ \E q \in QueueId : CreateMailbox(q)
             \/ \E q \in QueueId, e \in InitialEpochs, r \in Rosters : CreateGroupInbox(q, e, r)
             \/ \E c \in Conn, l \in WatchLists : Subscribe(c, l)
    BY Zenon, <1>2, <1>7 DEF CreateMailbox, CreateGroupInbox, Create, Subscribe, dbVars, memVars
  <1>8. CASE Completion \/ Open
    <2>1. NoRequest.op = "none"
      BY DEF NoRequest
    <2>2. UNCHANGED dbPending /\ status' = "up" /\ request' = NoRequest
      BY Zenon, <1>8 DEF Completion, CreateDone, SendToMailboxDone, SendToGroupInboxDone, AckDone,
         Open, dbVars, QueuesInv, RequestIsDurable
    <2> QED
      BY Zenon, <1>3, <2>1, <2>2
  <1>9. CASE Crash
    <2>1. 0 <= MaxStorageBytes
      BY BoundsAssumption
    <2> QED
      BY Zenon, <1>9, <2>1, SameFile DEF Crash, dbVars, StorageBounded
  <1>10. CASE \/ \E c \in Conn : Connect(c) \/ Disconnect(c)
              \/ PersistenceFails
              \/ UNCHANGED vars
    BY Zenon, <1>2, <1>10 DEF Connect, Disconnect, PersistenceFails, dbVars, memVars, vars
  <1> QED
    BY Zenon, <1>4, <1>5, <1>6, <1>7, <1>8, <1>9, <1>10 DEF Next, Handler, Environment

\* The storage bound holds across fan-outs, acks and crashes, for any bound and
\* any lengths.
THEOREM StorageIsBounded == Spec => []StorageBounded
  <1>1. Init => StorageBounded
    <2> SUFFICES ASSUME Init PROVE StorageBounded
      BY Zenon
    <2>1. status = "up" /\ request.op = "none"
      BY DEF Init, NoRequest
    <2>2. StoredBytes = bytesUsed
      BY Zenon, <2>1, DequesInvInit, FollowsCases DEF DequesInv, UpToDate
    <2>3. 0 <= MaxStorageBytes
      BY BoundsAssumption
    <2> QED
      BY Zenon, <2>2, <2>3 DEF Init, StorageBounded
  <1>2. QueuesInv /\ DequesInv /\ StorageBounded /\ [Next]_vars => StorageBounded'
    BY StorageNext
  <1> QED
    BY <1>1, <1>2, QueuesInvHolds, DequesInvHolds, PTL DEF Spec

=============================================================================
