-------------------------- MODULE RelayConnection --------------------------
(***************************************************************************)
(* One client connection of the relay (relay/src/net.rs): the three tasks  *)
(* of handle_connection, the two channels between them, the socket, and    *)
(* the sender of the connection's pushes that RelayState keeps in its      *)
(* subscribers.                                                            *)
(*                                                                         *)
(*   handler   reads frames, calls RelayState::handle, queues the replies  *)
(*   forward   moves pushes from the connection's channel to the writer    *)
(*   writer    writes replies and pushes to the socket                     *)
(*                                                                         *)
(* A channel is closed for its receiver when every sender is gone.  The    *)
(* handler holds a sender of both channels, forward one of the writer's,   *)
(* and RelayState one of the push channel once the client has subscribed.  *)
(*                                                                         *)
(* A request carries the id its client gave it, which the reply echoes.    *)
(* Pushes carry their place in the line of those not yet written, so that  *)
(* the order of an unbounded run can be checked in a finite model.         *)
(* RelayLink joins this end of the connection with the client's.           *)
(***************************************************************************)
EXTENDS Integers, Sequences, Loops

CONSTANTS
    MaxPushes      \* bound: pushes not yet written

VARIABLES
    peer,          \* the client's end: "open", "closed", "reset" once a write
                   \* has reached the closed end
    inbound,       \* frames the client has sent and the handler not yet read
    sent,          \* the ids of the requests the client has sent, in order;
                   \* kept, like replied, while the connection is up
    handler,       \* "reading", "draining" (out_tx dropped, waiting for the
                   \* writer), "done", "failed" (returned Err), "panicked"
    out,           \* the writer's channel
    writer,        \* "running", "done"
    pushes,        \* the connection's push channel
    forward,       \* "running", "done"
    subscribed,    \* a sender of the push channel is in RelayState.subscribers
    replied,       \* the ids of the replies the client has seen, in order
    poisoned       \* the state's mutex is poisoned

clientVars == <<peer, inbound, sent>>
stateVars  == <<subscribed, poisoned>>

\* The replies, or the pushes, among some frames.
FramesOf(frames, op) ==
    Filter(frames, {frames[i] : i \in {j \in 1 .. Len(frames) : frames[j].op = op}})

Numbers(frames) == [i \in 1 .. Len(frames) |-> frames[i].n]

NumbersOf(frames, op) == Numbers(FramesOf(frames, op))

\* The pushes not yet written.
InFlight == Len(pushes) + Len(FramesOf(out, "push"))

ConnectionInit ==
    /\ peer = "open"
    /\ inbound = <<>>
    /\ sent = <<>>
    /\ handler = "reading"
    /\ out = <<>>
    /\ writer = "running"
    /\ pushes = <<>>
    /\ forward = "running"
    /\ subscribed = FALSE
    /\ replied = <<>>
    /\ poisoned = FALSE

-----------------------------------------------------------------------------
(* The client and the rest of the relay *)

\* Request n arrives.  "garbled" is a frame read_frame refuses: longer than
\* twice MAX_MESSAGE_SIZE, or undecodable.
ClientSends(op, n) ==
    /\ peer = "open"
    /\ inbound' = Append(inbound, [op |-> op, n |-> n])
    /\ sent' = Append(sent, n)
    /\ UNCHANGED <<peer, handler, out, writer, pushes, forward, stateVars, replied>>

\* The client's end goes away: between two frames, which the handler reads as a
\* clean end, or in the middle of one or with a reset, which is an error.
ClientCloses(clean) ==
    /\ peer = "open"
    /\ peer' = "closed"
    /\ inbound' = IF clean THEN inbound
                  ELSE Append(inbound, [op |-> "garbled", n |-> 0])
    /\ sent' = <<>>
    /\ replied' = <<>>
    /\ UNCHANGED <<handler, out, writer, pushes, forward, stateVars>>

\* push_and_notify for a queue this connection watches: the push is queued,
\* or the sender pruned when the receiver is gone.
RelayPushes ==
    /\ ~poisoned
    /\ subscribed
    /\ IF forward = "running"
       THEN /\ InFlight < MaxPushes
            /\ pushes' = Append(pushes, InFlight + 1)
            /\ UNCHANGED subscribed
       ELSE /\ subscribed' = FALSE
            /\ UNCHANGED pushes
    /\ UNCHANGED <<clientVars, handler, out, writer, forward, poisoned, replied>>

\* Another connection subscribes to the same queue: a sender whose receiver is
\* gone is dropped (is_closed).
OtherSubscribes ==
    /\ ~poisoned
    /\ subscribed
    /\ forward = "done"
    /\ subscribed' = FALSE
    /\ UNCHANGED <<clientVars, handler, out, writer, pushes, forward, poisoned, replied>>

\* Some handler, of this or another connection, panics with the lock held.
Poison ==
    /\ ~poisoned
    /\ poisoned' = TRUE
    /\ UNCHANGED <<clientVars, handler, out, writer, pushes, forward, subscribed, replied>>

-----------------------------------------------------------------------------
(* The handler *)

\* Mutant of Reply: replies are put in front of the pushes waiting to be written.
ReplyFirst(frame) == out' = <<[op |-> "reply", n |-> frame.n]>> \o out

\* out_tx.send with the reply that echoes the request's id.
Reply(frame) == out' = Append(out, [op |-> "reply", n |-> frame.n])

\* One turn of the loop.  The request takes effect whether or not its reply
\* can still be queued; the loop ends when it cannot.
HandleFrame ==
    /\ handler = "reading"
    /\ inbound # <<>>
    /\ Head(inbound).op # "garbled"
    /\ ~poisoned
    /\ inbound' = Tail(inbound)
    /\ subscribed' = (subscribed \/ Head(inbound).op = "subscribe")
    /\ IF writer = "running"
       THEN Reply(Head(inbound)) /\ UNCHANGED handler
       ELSE handler' = "draining" /\ UNCHANGED out
    /\ UNCHANGED <<peer, sent, writer, pushes, forward, poisoned, replied>>

\* lock().unwrap() on the poisoned mutex: the task unwinds and drops what it
\* holds; the two tasks it spawned live on.
HandlerPanics ==
    /\ handler = "reading"
    /\ inbound # <<>>
    /\ Head(inbound).op # "garbled"
    /\ poisoned
    /\ handler' = "panicked"
    /\ inbound' = Tail(inbound)
    /\ UNCHANGED <<peer, sent, out, writer, pushes, forward, stateVars, replied>>

\* Any read error but a clean end: the function returns at once.
ReadFails ==
    /\ handler = "reading"
    /\ inbound # <<>>
    /\ Head(inbound).op = "garbled"
    /\ handler' = "failed"
    /\ inbound' = Tail(inbound)
    /\ UNCHANGED <<peer, sent, out, writer, pushes, forward, stateVars, replied>>

\* ReadFrameError::Closed: the loop ends and out_tx is dropped.
ReadCloses ==
    /\ handler = "reading"
    /\ inbound = <<>>
    /\ peer # "open"
    /\ handler' = "draining"
    /\ UNCHANGED <<clientVars, out, writer, pushes, forward, stateVars, replied>>

\* writer_task.await returns; forward is aborted and its receiver dropped.
HandlerReturns ==
    /\ handler = "draining"
    /\ writer = "done"
    /\ handler' = "done"
    /\ forward' = "done"
    /\ pushes' = <<>>
    /\ UNCHANGED <<clientVars, out, writer, stateVars, replied>>

Handler == HandleFrame \/ HandlerPanics \/ ReadFails \/ ReadCloses \/ HandlerReturns

-----------------------------------------------------------------------------
(* The forward task *)

\* Every sender of the push channel is gone.  The handler keeps its own until
\* it returns.
PushSendersGone == handler \notin {"reading", "draining"} /\ ~subscribed

\* A push is passed on, or the task ends because the writer is gone.
ForwardPush ==
    /\ forward = "running"
    /\ pushes # <<>>
    /\ IF writer = "running"
       THEN /\ out' = Append(out, [op |-> "push", n |-> Head(pushes)])
            /\ pushes' = Tail(pushes)
            /\ UNCHANGED forward
       ELSE /\ forward' = "done"
            /\ pushes' = <<>>
            /\ UNCHANGED out
    /\ UNCHANGED <<clientVars, handler, writer, stateVars, replied>>

ForwardEnds ==
    /\ forward = "running"
    /\ pushes = <<>>
    /\ PushSendersGone
    /\ forward' = "done"
    /\ UNCHANGED <<clientVars, handler, out, writer, pushes, stateVars, replied>>

Forward == ForwardPush \/ ForwardEnds

-----------------------------------------------------------------------------
(* The writer task *)

\* Every sender of the writer's channel is gone.
OutSendersGone == handler # "reading" /\ forward = "done"

\* A push has been written: those behind it move up in the line.
MovedUp(frame) == IF frame.op = "push" THEN [frame EXCEPT !.n = @ - 1] ELSE frame

\* The frame reaches a client that is still there; the first one written after
\* the client closed may be taken by the kernel and lost.
WriteFrame ==
    LET frame == Head(out)
    IN  /\ writer = "running"
        /\ out # <<>>
        /\ peer # "reset"
        /\ peer' = IF peer = "open" THEN "open" ELSE "reset"
        /\ out' = IF frame.op = "push"
                  THEN [i \in 1 .. Len(out) - 1 |-> MovedUp(out[i + 1])] ELSE Tail(out)
        /\ pushes' = IF frame.op = "push"
                     THEN [i \in 1 .. Len(pushes) |-> pushes[i] - 1] ELSE pushes
        /\ replied' = IF peer = "open" /\ frame.op = "reply"
                      THEN Append(replied, frame.n) ELSE replied
        /\ UNCHANGED <<inbound, sent, handler, writer, forward, stateVars>>

\* Mutant of WriteFails: the error is ignored and the next frame tried.
WriteErrorIgnored ==
    /\ writer = "running"
    /\ out # <<>>
    /\ peer # "open"
    /\ out' = Tail(out)
    /\ UNCHANGED <<clientVars, handler, writer, pushes, forward, stateVars, replied>>

\* write_frame fails: the task ends and drops the frames it was to write.
WriteFails ==
    /\ writer = "running"
    /\ out # <<>>
    /\ peer # "open"
    /\ writer' = "done"
    /\ out' = <<>>
    /\ UNCHANGED <<clientVars, handler, pushes, forward, stateVars, replied>>

WriterEnds ==
    /\ writer = "running"
    /\ out = <<>>
    /\ OutSendersGone
    /\ writer' = "done"
    /\ UNCHANGED <<clientVars, handler, out, pushes, forward, stateVars, replied>>

Writer == WriteFrame \/ WriteFails \/ WriterEnds

-----------------------------------------------------------------------------
(* The connection as a whole *)

\* Both halves of the stream are dropped, and with them the socket.
StreamDropped == handler \in {"done", "failed", "panicked"} /\ writer = "done"

Ended == StreamDropped /\ forward = "done"

=============================================================================
