---------------------------- MODULE RelayClient ----------------------------
(***************************************************************************)
(* The client's end of one relay connection (engine/src/relay_client.rs):  *)
(* calls made concurrently through a pending map, the writer task with its *)
(* channel, and the reader task that routes replies and, when it ends,     *)
(* marks the connection closed and drops the map.                          *)
(*                                                                         *)
(* A call is named by its request id, which the atomic counter never hands *)
(* out twice.  slot[k] is the call's oneshot channel: the sender is in the *)
(* map while it is "live", and was used or dropped after that.             *)
(***************************************************************************)
EXTENDS Naturals, Sequences, FiniteSets

CONSTANT Call      \* the request ids of the calls made

ASSUME CallAssumption == Call \subseteq Nat \ {0}

VARIABLES
    pc,        \* "start", "registered", "waiting", "returned", "cancelled"
    slot,      \* "none", "live", "answered", "dropped"
    answer,    \* the id of the reply in an answered slot, else 0
    got,       \* what the call returned: "none", "ok", "closed"
    map,       \* Pending.map
    closed,    \* Pending.closed
    outbox,    \* the writer task's channel
    writer,    \* "running", "ended"
    socket,    \* "open", "closed"
    atRelay,   \* requests the relay has not answered
    replies,   \* replies on the wire
    reader     \* "running", "exiting" (loop left), "ended"

vars == <<pc, slot, answer, got, map, closed, outbox, writer, socket, atRelay, replies, reader>>

callVars == <<pc, slot, answer, got>>
lockVars == <<map, closed>>
wireVars == <<socket, atRelay, replies>>

Init ==
    /\ pc = [k \in Call |-> "start"]
    /\ slot = [k \in Call |-> "none"]
    /\ answer = [k \in Call |-> 0]
    /\ got = [k \in Call |-> "none"]
    /\ map = {}
    /\ closed = FALSE
    /\ outbox = <<>>
    /\ writer = "running"
    /\ socket = "open"
    /\ atRelay = {}
    /\ replies = <<>>
    /\ reader = "running"

-----------------------------------------------------------------------------
(* call *)

Return(k, result) ==
    /\ pc' = [pc EXCEPT ![k] = "returned"]
    /\ got' = [got EXCEPT ![k] = result]

MayRegister == ~closed

\* The locked block: refuse, or put the sender into the map.
Register(k) ==
    /\ pc[k] = "start"
    /\ IF MayRegister
       THEN /\ map' = map \cup {k}
            /\ slot' = [slot EXCEPT ![k] = "live"]
            /\ pc' = [pc EXCEPT ![k] = "registered"]
            /\ UNCHANGED got
       ELSE Return(k, "closed") /\ UNCHANGED <<map, slot>>
    /\ UNCHANGED <<answer, closed, outbox, writer, wireVars, reader>>

\* The frame goes to the writer task; if that has ended the entry is taken
\* out again, which drops its sender.
Send(k) ==
    /\ pc[k] = "registered"
    /\ IF writer = "running"
       THEN /\ outbox' = Append(outbox, k)
            /\ pc' = [pc EXCEPT ![k] = "waiting"]
            /\ UNCHANGED <<map, slot, got>>
       ELSE /\ map' = map \ {k}
            /\ slot' = [slot EXCEPT ![k] = IF k \in map THEN "dropped" ELSE @]
            /\ Return(k, "closed")
            /\ UNCHANGED outbox
    /\ UNCHANGED <<answer, closed, writer, wireVars, reader>>

\* rx.await: the reply, or ConnectionClosed when the sender was dropped.
Await(k) ==
    /\ pc[k] = "waiting"
    /\ slot[k] # "live"
    /\ Return(k, IF slot[k] = "answered" THEN "ok" ELSE "closed")
    /\ UNCHANGED <<slot, answer, lockVars, outbox, writer, wireVars, reader>>

\* The caller drops the future while it waits.
Cancel(k) ==
    /\ pc[k] = "waiting"
    /\ pc' = [pc EXCEPT ![k] = "cancelled"]
    /\ UNCHANGED <<slot, answer, got, lockVars, outbox, writer, wireVars, reader>>

-----------------------------------------------------------------------------
(* The writer task *)

\* A frame reaches the relay; one written to a closed socket may still be taken
\* by the kernel, and is lost.
WriterWrites ==
    /\ writer = "running"
    /\ outbox # <<>>
    /\ outbox' = Tail(outbox)
    /\ atRelay' = IF socket = "open" THEN atRelay \cup {Head(outbox)} ELSE atRelay
    /\ UNCHANGED <<callVars, lockVars, writer, socket, replies, reader>>

WriterFails ==
    /\ writer = "running"
    /\ outbox # <<>>
    /\ socket = "closed"
    /\ writer' = "ended"
    /\ outbox' = <<>>
    /\ UNCHANGED <<callVars, lockVars, wireVars, reader>>

-----------------------------------------------------------------------------
(* The reader task *)

\* Mutant of Target: replies go to the calls in the order they were made.
OldestCall(id) == IF map = {} THEN id ELSE CHOOSE k \in map : \A j \in map : k <= j

\* The entry a reply is for.
Target(id) == id

\* A reply is routed by its id; if the entry is gone it is discarded.
ReaderReads ==
    LET k == Target(Head(replies))
    IN  /\ reader = "running"
        /\ replies # <<>>
        /\ replies' = Tail(replies)
        /\ map' = map \ {k}
        /\ slot' = IF k \in map THEN [slot EXCEPT ![k] = "answered"] ELSE slot
        /\ answer' = IF k \in map THEN [answer EXCEPT ![k] = Head(replies)] ELSE answer
        /\ UNCHANGED <<pc, got, closed, outbox, writer, socket, atRelay, reader>>

\* Any read error: the loop is left, with or without replies unread.
ReaderStops ==
    /\ reader = "running"
    /\ socket = "closed"
    /\ reader' = "exiting"
    /\ UNCHANGED <<callVars, lockVars, outbox, writer, wireVars>>

\* Mutant of ReaderCloses: the flag is set and the map left as it is.
ReaderLeavesMap ==
    /\ reader = "exiting"
    /\ reader' = "ended"
    /\ closed' = TRUE
    /\ UNCHANGED <<callVars, map, outbox, writer, wireVars>>

\* The locked block at the end: the flag is set and every sender dropped.
ReaderCloses ==
    /\ reader = "exiting"
    /\ reader' = "ended"
    /\ closed' = TRUE
    /\ slot' = [k \in Call |-> IF k \in map THEN "dropped" ELSE slot[k]]
    /\ map' = {}
    /\ UNCHANGED <<pc, answer, got, outbox, writer, wireVars>>

-----------------------------------------------------------------------------
(* The relay and the network *)

\* The relay answers in any order it likes, or never.
RelayReplies(k) ==
    /\ socket = "open"
    /\ k \in atRelay
    /\ atRelay' = atRelay \ {k}
    /\ replies' = Append(replies, k)
    /\ UNCHANGED <<callVars, lockVars, outbox, writer, socket, reader>>

SocketCloses ==
    /\ socket = "open"
    /\ socket' = "closed"
    /\ atRelay' = {}
    /\ UNCHANGED <<callVars, lockVars, outbox, writer, replies, reader>>

-----------------------------------------------------------------------------
CallStep(k) == Register(k) \/ Send(k) \/ Await(k)
WriterStep  == WriterWrites \/ WriterFails
ReaderStep  == ReaderReads \/ ReaderStops \/ ReaderCloses

Next ==
    \/ \E k \in Call : CallStep(k) \/ Cancel(k) \/ RelayReplies(k)
    \/ WriterStep
    \/ ReaderStep
    \/ SocketCloses

\* The runtime polls what can go on.  The reader cannot be kept from the end of
\* a dead connection by replies, of which there are finitely many.
Fairness ==
    /\ \A k \in Call : WF_vars(CallStep(k))
    /\ WF_vars(WriterStep)
    /\ WF_vars(ReaderStep)

Spec == Init /\ [][Next]_vars /\ Fairness

-----------------------------------------------------------------------------
(* Properties *)

\* Every variable has its type.
TypeOK ==
    /\ pc \in [Call -> {"start", "registered", "waiting", "returned", "cancelled"}]
    /\ slot \in [Call -> {"none", "live", "answered", "dropped"}]
    /\ answer \in [Call -> Call \cup {0}]
    /\ got \in [Call -> {"none", "ok", "closed"}]
    /\ map \subseteq Call
    /\ closed \in BOOLEAN
    /\ outbox \in Seq(Call)
    /\ writer \in {"running", "ended"}
    /\ socket \in {"open", "closed"}
    /\ atRelay \subseteq Call
    /\ replies \in Seq(Call)
    /\ reader \in {"running", "exiting", "ended"}

\* A call returns the reply to its own request or ConnectionClosed, whatever
\* order replies come in and whichever callers gave up ("the reply is discarded,
\* not misrouted").
RepliesMatch ==
    \A k \in Call :
        /\ answer[k] \in {0, k}
        /\ got[k] = "ok" => answer[k] = k

\* A call that still waits for its oneshot has its sender in the map of a
\* connection that is not closed, so someone is left to answer or to drop it.
\* Without the closed flag a call made after the reader ended would wait
\* forever.
WaitingIsAnswerable ==
    \A k \in Call :
        pc[k] \in {"registered", "waiting"} /\ slot[k] = "live" => k \in map /\ ~closed

\* The flag is set exactly when the reader has ended, and then the map is empty
\* for good; the senders in the map are those of calls that were made, and live.
MapFollowsCalls ==
    /\ closed = (reader = "ended")
    /\ closed => map = {}
    /\ \A k \in Call : pc[k] = "start" => k \notin map /\ slot[k] = "none"
    /\ \A k \in map : slot[k] = "live"
    /\ \A k \in Call : slot[k] = "answered" => answer[k] = k

\* The inductive invariant behind both.
ClientInv ==
    /\ TypeOK
    /\ MapFollowsCalls
    /\ RepliesMatch
    /\ WaitingIsAnswerable

=============================================================================
