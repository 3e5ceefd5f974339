----------------------------- MODULE RelayLink -----------------------------
(***************************************************************************)
(* A relay connection end to end: the client's half (RelayClient: the      *)
(* calls, their pending map, the writer and the reader task) joined to the *)
(* relay's half (RelayConnection: the handler, forward and writer tasks).  *)
(* What one side writes is what the other side reads, so a step on the     *)
(* wire is a step of both.                                                 *)
(*                                                                         *)
(* The relay's writer task is relay_writer here, the client's is writer.   *)
(***************************************************************************)
EXTENDS RelayClient

CONSTANTS
    MaxPushes      \* bound: pushes not yet written

ASSUME LinkAssumption == MaxPushes \in Nat \ {0}

VARIABLES peer, inbound, sent, handler, out, relay_writer, pushes, forward,
          subscribed, replied, poisoned

Relay == INSTANCE RelayConnection WITH writer <- relay_writer

relayVars == <<peer, inbound, sent, handler, out, relay_writer, pushes, forward,
               subscribed, replied, poisoned>>

linkVars == <<vars, relayVars>>

LinkInit == Init /\ Relay!ConnectionInit

-----------------------------------------------------------------------------
(* Steps on the wire *)

\* The client's writer writes a request: the relay has it to read, if the
\* connection is still there.
RequestWritten ==
    /\ WriterWrites
    /\ IF socket = "open"
       THEN \E op \in {"subscribe", "other", "garbled"} : Relay!ClientSends(op, Head(outbox))
       ELSE UNCHANGED relayVars

\* The relay's writer writes a reply: the client has it to read, if the
\* connection is still there.
ReplyWritten ==
    /\ Relay!WriteFrame
    /\ Head(out).op = "reply"
    /\ IF peer = "open" THEN RelayReplies(Head(out).n) ELSE UNCHANGED vars

\* The relay's writer writes a push, which the client's reader passes on to
\* push_rx and no call sees.
PushWritten ==
    /\ Relay!WriteFrame
    /\ Head(out).op = "push"
    /\ UNCHANGED vars

\* The network fails, or the client's process ends.
ConnectionLost ==
    /\ SocketCloses
    /\ \E clean \in BOOLEAN : Relay!ClientCloses(clean)

\* The relay has dropped both halves of its stream.
RelayDropsStream ==
    /\ Relay!StreamDropped
    /\ SocketCloses
    /\ Relay!ClientCloses(TRUE)

-----------------------------------------------------------------------------
(* Steps of one side *)

CallMoves(k) == CallStep(k) /\ UNCHANGED relayVars

CallCancelled(k) == Cancel(k) /\ UNCHANGED relayVars

ClientWriter == RequestWritten \/ (WriterFails /\ UNCHANGED relayVars)

ClientReader == ReaderStep /\ UNCHANGED relayVars

RelayHandler == Relay!Handler /\ UNCHANGED vars

RelayForward == Relay!Forward /\ UNCHANGED vars

RelayWriter ==
    \/ ReplyWritten
    \/ PushWritten
    \/ (Relay!WriteFails \/ Relay!WriterEnds) /\ UNCHANGED vars

RelayPushes == Relay!RelayPushes /\ UNCHANGED vars

RestOfRelay == (Relay!OtherSubscribes \/ Relay!Poison) /\ UNCHANGED vars

LinkNext ==
    \/ \E k \in Call : CallMoves(k) \/ CallCancelled(k)
    \/ ClientWriter
    \/ ClientReader
    \/ RelayHandler
    \/ RelayForward
    \/ RelayWriter
    \/ RelayDropsStream
    \/ RelayPushes
    \/ RestOfRelay
    \/ ConnectionLost

\* Both runtimes poll what can go on; nothing makes the connection fail, the
\* queues get messages, or other connections act.
LinkFairness ==
    /\ \A k \in Call : WF_linkVars(CallMoves(k))
    /\ WF_linkVars(ClientWriter)
    /\ WF_linkVars(ClientReader)
    /\ WF_linkVars(RelayHandler)
    /\ WF_linkVars(RelayForward)
    /\ WF_linkVars(RelayWriter)
    /\ WF_linkVars(RelayDropsStream)

LinkSpec == LinkInit /\ [][LinkNext]_linkVars /\ LinkFairness

-----------------------------------------------------------------------------
(* Properties *)

\* For as long as the connection is up, the client sees replies in the order in
\* which it wrote its requests and pushes in the order the relay made them, none
\* twice and none left out: the two kinds share one queue of the relay's writer
\* and overtake only each other.
FramesInOrder ==
    peer = "open" =>
        /\ handler = "reading" =>
             replied \o Relay!NumbersOf(out, "reply") \o Relay!Numbers(inbound) = sent
        /\ forward = "running" =>
             Relay!NumbersOf(out, "push") \o pushes = [i \in 1 .. Relay!InFlight |-> i]

\* The handler is gone and the connection's sender in RelayState.subscribers
\* keeps the two tasks it spawned, and the socket, alive.
Orphaned == handler \in {"failed", "panicked"} /\ subscribed

\* Every call returns or is given up, whether the connection stays up or goes
\* down at any point.  The one exception is a connection whose handler stopped
\* on a frame it could not read, or on the poisoned lock, after it had
\* subscribed: the relay no longer reads from it and does not close it either.
CallsReturn ==
    \A k \in Call :
        pc[k] \in {"start", "registered", "waiting"} ~>
            (pc[k] \in {"returned", "cancelled"} \/ Orphaned)

\* On a busy queue no connection is leaked: when the queues a connection watches
\* keep getting messages, then once its client is gone the next pushes make a
\* write fail, and all three tasks of the relay end.
BusyConnectionEnds ==
    SF_linkVars(RelayPushes) =>
        ((peer # "open" /\ subscribed) ~> (Relay!Ended \/ poisoned))

=============================================================================
