------------------------- MODULE RelayAccessProofs --------------------------
(***************************************************************************)
(* What stands between a client and its queues.  The client, for any set   *)
(* of calls: replies are never misrouted, and a call that waits always has *)
(* someone left to answer or to drop its channel, against any relay and so *)
(* against the one it is joined to in RelayLink.  Then RelayAdmission, and *)
(* the order of the frames on a connection.                                *)
(***************************************************************************)
EXTENDS RelayLink, RelayAdmission, LoopProofs, TLAPS

\* What the channels and the map hold: calls.
MapTyped ==
    /\ map \subseteq Call
    /\ atRelay \subseteq Call
    /\ outbox \in Seq(Call)
    /\ replies \in Seq(Call)

\* A new connection satisfies the invariant.
LEMMA ClientInvInit == Init => ClientInv
  <1> SUFFICES ASSUME Init PROVE ClientInv
    BY Zenon
  <1> USE DEF Init
  <1>1. TypeOK
    <2>1. (closed \in BOOLEAN)
      BY Zenon DEF ClientInv, TypeOK
    <2>2. (map \subseteq Call /\ atRelay \subseteq Call)
      BY Zenon DEF ClientInv, TypeOK
    <2>3. (outbox \in Seq(Call) /\ replies \in Seq(Call))
      BY DEF ClientInv, TypeOK
    <2> QED
      BY Zenon, <2>1, <2>2, <2>3 DEF ClientInv, TypeOK
  <1>2. MapFollowsCalls
    BY Zenon DEF ClientInv, TypeOK, MapFollowsCalls, RepliesMatch, WaitingIsAnswerable
  <1>3. RepliesMatch
    BY Zenon DEF ClientInv, TypeOK, MapFollowsCalls, RepliesMatch, WaitingIsAnswerable
  <1>4. WaitingIsAnswerable
    BY Zenon DEF ClientInv, TypeOK, MapFollowsCalls, RepliesMatch, WaitingIsAnswerable
  <1> QED
    BY Zenon, <1>1, <1>2, <1>3, <1>4 DEF ClientInv

\* A step that changes nothing keeps the invariant.
LEMMA ClientInvStutter ==
  ASSUME ClientInv, UNCHANGED vars
  PROVE  ClientInv'
  BY Zenon DEF ClientInv, TypeOK, MapFollowsCalls, RepliesMatch, WaitingIsAnswerable, vars

\* The locked block at the start of a call keeps the map of a closed connection
\* empty.
LEMMA RegisterInv ==
  ASSUME ClientInv, NEW k \in Call, Register(k)
  PROVE  ClientInv'
  <1>a. /\ UNCHANGED <<answer, closed, outbox, writer, socket, atRelay, replies, reader>>
        /\ pc[k] = "start"
    BY Zenon DEF Register, wireVars
  <1>b. \/ /\ ~closed
           /\ map' = map \cup {k}
           /\ slot' = [slot EXCEPT ![k] = "live"]
           /\ pc' = [pc EXCEPT ![k] = "registered"]
           /\ got' = got
        \/ /\ pc' = [pc EXCEPT ![k] = "returned"]
           /\ got' = [got EXCEPT ![k] = "closed"]
           /\ UNCHANGED <<map, slot>>
    BY Zenon DEF Register, MayRegister, Return
  <1>c. MapTyped
    BY Zenon DEF ClientInv, TypeOK, MapTyped
  <1>1. TypeOK'
    <2>1. closed' \in BOOLEAN
      BY Zenon, <1>a DEF ClientInv, TypeOK
    <2>2. MapTyped'
      BY Zenon, <1>a, <1>b, <1>c DEF MapTyped
    <2> QED
      BY Zenon, <1>a, <1>b, <2>1, <2>2 DEF ClientInv, TypeOK, MapTyped
  <1>2. MapFollowsCalls'
    <2>1. closed' = (reader' = "ended")
      BY Zenon, <1>a DEF ClientInv, MapFollowsCalls
    <2>2. closed' => map' = {}
      BY Zenon, <1>a, <1>b DEF ClientInv, MapFollowsCalls
    <2>3. \A j \in Call : pc'[j] = "start" => j \notin map' /\ slot'[j] = "none"
      BY <1>a, <1>b DEF ClientInv, TypeOK, MapFollowsCalls
    <2>4. \A j \in map' : slot'[j] = "live"
      BY <1>a, <1>b DEF ClientInv, TypeOK, MapFollowsCalls
    <2>5. \A j \in Call : slot'[j] = "answered" => answer'[j] = j
      BY <1>a, <1>b DEF ClientInv, TypeOK, MapFollowsCalls
    <2> QED
      BY Zenon, <2>1, <2>2, <2>3, <2>4, <2>5 DEF MapFollowsCalls
  <1>3. RepliesMatch'
    BY <1>a, <1>b DEF ClientInv, TypeOK, MapFollowsCalls, RepliesMatch, WaitingIsAnswerable
  <1>4. WaitingIsAnswerable'
    BY <1>a, <1>b DEF ClientInv, TypeOK, MapFollowsCalls, RepliesMatch, WaitingIsAnswerable
  <1> QED
    BY Zenon, <1>1, <1>2, <1>3, <1>4 DEF ClientInv

\* A registered call puts its frame in the outbox, or finds the writer gone.
LEMMA SendInv ==
  ASSUME ClientInv, NEW k \in Call, Send(k)
  PROVE  ClientInv'
  <1>a. /\ UNCHANGED <<answer, closed, writer, socket, atRelay, replies, reader>>
        /\ pc[k] = "registered"
    BY Zenon DEF Send, wireVars
  <1>b. \/ /\ outbox' = Append(outbox, k)
           /\ pc' = [pc EXCEPT ![k] = "waiting"]
           /\ UNCHANGED <<map, slot, got>>
        \/ /\ map' = map \ {k}
           /\ slot' = [slot EXCEPT ![k] = IF k \in map THEN "dropped" ELSE @]
           /\ pc' = [pc EXCEPT ![k] = "returned"]
           /\ got' = [got EXCEPT ![k] = "closed"]
           /\ outbox' = outbox
    BY Zenon DEF Send, Return
  <1>c. MapTyped
    BY Zenon DEF ClientInv, TypeOK, MapTyped
  <1>1. TypeOK'
    <2>1. closed' \in BOOLEAN
      BY Zenon, <1>a DEF ClientInv, TypeOK
    <2>2. MapTyped'
      <3>1. map' \subseteq Call
        <4>1. map' \subseteq map
          BY Zenon, <1>b
        <4> QED
          BY Zenon, <4>1, <1>c DEF MapTyped
      <3>2. outbox' \in Seq(Call)
        <4>1. outbox' = Append(outbox, k) \/ outbox' = outbox
          BY Zenon, <1>b
        <4> QED
          BY <4>1, <1>c DEF MapTyped
      <3> QED
        BY Zenon, <3>1, <3>2, <1>a, <1>c DEF MapTyped
    <2> QED
      BY Zenon, <1>a, <1>b, <2>1, <2>2 DEF ClientInv, TypeOK, MapTyped
  <1>2. MapFollowsCalls'
    <2>1. closed' = (reader' = "ended")
      BY Zenon, <1>a DEF ClientInv, MapFollowsCalls
    <2>2. closed' => map' = {}
      BY Zenon, <1>a, <1>b DEF ClientInv, MapFollowsCalls
    <2>3. \A j \in Call : pc'[j] = "start" => j \notin map' /\ slot'[j] = "none"
      BY <1>a, <1>b DEF ClientInv, TypeOK, MapFollowsCalls
    <2>4. \A j \in map' : slot'[j] = "live"
      BY <1>a, <1>b DEF ClientInv, TypeOK, MapFollowsCalls
    <2>5. \A j \in Call : slot'[j] = "answered" => answer'[j] = j
      BY <1>a, <1>b DEF ClientInv, TypeOK, MapFollowsCalls
    <2> QED
      BY Zenon, <2>1, <2>2, <2>3, <2>4, <2>5 DEF MapFollowsCalls
  <1>3. RepliesMatch'
    BY <1>a, <1>b DEF ClientInv, TypeOK, MapFollowsCalls, RepliesMatch, WaitingIsAnswerable
  <1>4. WaitingIsAnswerable'
    BY <1>a, <1>b DEF ClientInv, TypeOK, MapFollowsCalls, RepliesMatch, WaitingIsAnswerable
  <1> QED
    BY Zenon, <1>1, <1>2, <1>3, <1>4 DEF ClientInv

\* A call takes its answer, or is cancelled.
LEMMA AwaitInv ==
  ASSUME ClientInv, NEW k \in Call, Await(k) \/ Cancel(k)
  PROVE  ClientInv'
  <1> USE DEF Await, Cancel, Return, wireVars, lockVars
  <1>1. TypeOK'
    <2>1. (closed \in BOOLEAN)'
      BY Zenon DEF ClientInv, TypeOK
    <2>2. (map \subseteq Call /\ atRelay \subseteq Call)'
      BY Zenon DEF ClientInv, TypeOK
    <2>3. (outbox \in Seq(Call) /\ replies \in Seq(Call))'
      BY Zenon DEF ClientInv, TypeOK
    <2> QED
      BY Zenon, <2>1, <2>2, <2>3 DEF ClientInv, TypeOK
  <1>2. MapFollowsCalls'
    BY DEF ClientInv, TypeOK, MapFollowsCalls, RepliesMatch, WaitingIsAnswerable
  <1>3. RepliesMatch'
    BY DEF ClientInv, TypeOK, MapFollowsCalls, RepliesMatch, WaitingIsAnswerable
  <1>4. WaitingIsAnswerable'
    BY DEF ClientInv, TypeOK, MapFollowsCalls, RepliesMatch, WaitingIsAnswerable
  <1> QED
    BY Zenon, <1>1, <1>2, <1>3, <1>4 DEF ClientInv

\* Routing by id: the slot that is filled is the one the reply names.
LEMMA ReaderReadsInv ==
  ASSUME ClientInv, ReaderReads
  PROVE  ClientInv'
  <1> DEFINE k == Head(replies)
  <1>a. k \in Call /\ replies' \in Seq(Call)
    BY DEF ClientInv, TypeOK, ReaderReads
  <1>b. /\ map' = map \ {k}
        /\ slot' = IF k \in map THEN [slot EXCEPT ![k] = "answered"] ELSE slot
        /\ answer' = IF k \in map THEN [answer EXCEPT ![k] = k] ELSE answer
        /\ reader' = "running" /\ reader = "running"
        /\ UNCHANGED <<pc, got, closed, outbox, writer, socket, atRelay>>
    BY Zenon DEF ReaderReads, Target
  <1> HIDE DEF k
  <1>1. TypeOK'
    <2>1. (closed \in BOOLEAN)'
      BY Zenon, <1>a, <1>b DEF ClientInv, TypeOK
    <2>2. (map \subseteq Call /\ atRelay \subseteq Call)'
      BY Zenon, <1>a, <1>b DEF ClientInv, TypeOK
    <2>3. (outbox \in Seq(Call) /\ replies \in Seq(Call))'
      BY Zenon, <1>a, <1>b DEF ClientInv, TypeOK
    <2> QED
      BY Zenon, <1>a, <1>b, <2>1, <2>2, <2>3 DEF ClientInv, TypeOK
  <1>2. MapFollowsCalls'
    BY <1>a, <1>b DEF ClientInv, TypeOK, MapFollowsCalls, RepliesMatch, WaitingIsAnswerable
  <1>3. RepliesMatch'
    BY Zenon, <1>a, <1>b
       DEF ClientInv, TypeOK, MapFollowsCalls, RepliesMatch, WaitingIsAnswerable
  <1>4. WaitingIsAnswerable'
    BY Zenon, <1>a, <1>b
       DEF ClientInv, TypeOK, MapFollowsCalls, RepliesMatch, WaitingIsAnswerable
  <1> QED
    BY Zenon, <1>1, <1>2, <1>3, <1>4 DEF ClientInv

\* The reader stops, then closes the map.
LEMMA ReaderEndsInv ==
  ASSUME ClientInv, ReaderStops \/ ReaderCloses
  PROVE  ClientInv'
  <1> USE DEF ReaderStops, ReaderCloses, callVars, lockVars, wireVars
  <1>1. TypeOK'
    <2>1. (closed \in BOOLEAN)'
      BY Zenon DEF ClientInv, TypeOK
    <2>2. (map \subseteq Call /\ atRelay \subseteq Call)'
      BY Zenon DEF ClientInv, TypeOK
    <2>3. (outbox \in Seq(Call) /\ replies \in Seq(Call))'
      BY Zenon DEF ClientInv, TypeOK
    <2> QED
      BY Zenon, <2>1, <2>2, <2>3 DEF ClientInv, TypeOK
  <1>2. MapFollowsCalls'
    <2>1. closed' = (reader' = "ended")
      BY Zenon DEF ClientInv, MapFollowsCalls
    <2>2. map' = {} \/ (map' = map /\ slot' = slot)
      <3>1. CASE ReaderStops
        BY Zenon, <3>1
      <3>2. CASE ReaderCloses
        BY Zenon, <3>2
      <3> QED
        BY ONLY <3>1, <3>2, ReaderStops \/ ReaderCloses
    <2>3. closed' => map' = {}
      BY Zenon DEF ClientInv, MapFollowsCalls
    <2>4. UNCHANGED <<pc, answer>>
      BY Zenon
    <2>5. \A k \in Call : slot'[k] = slot[k] \/ (k \in map /\ slot'[k] = "dropped")
      BY Zenon
    <2>6. \A k \in Call : pc'[k] = "start" => k \notin map' /\ slot'[k] = "none"
      BY Zenon, <2>2, <2>4, <2>5 DEF ClientInv, MapFollowsCalls
    <2>7. \A k \in map' : slot'[k] = "live"
      BY Zenon, <2>2 DEF ClientInv, MapFollowsCalls
    <2>8. \A k \in Call : slot'[k] = "answered" => answer'[k] = k
      BY Zenon, <2>4, <2>5 DEF ClientInv, MapFollowsCalls
    <2> QED
      BY Zenon, <2>1, <2>3, <2>6, <2>7, <2>8 DEF MapFollowsCalls
  <1>3. RepliesMatch'
    BY DEF ClientInv, TypeOK, MapFollowsCalls, RepliesMatch, WaitingIsAnswerable
  <1>4. WaitingIsAnswerable'
    BY DEF ClientInv, TypeOK, MapFollowsCalls, RepliesMatch, WaitingIsAnswerable
  <1> QED
    BY Zenon, <1>1, <1>2, <1>3, <1>4 DEF ClientInv

\* The writer sends a frame, or ends.
LEMMA WriterInv ==
  ASSUME ClientInv, WriterStep
  PROVE  ClientInv'
  <1>a. /\ UNCHANGED <<pc, slot, answer, got, map, closed, replies, reader>>
        /\ writer' \in {writer, "ended"} /\ socket' \in {socket, "closed"}
    BY Zenon DEF WriterStep, WriterWrites, WriterFails, callVars, lockVars, wireVars
  <1>b. \/ /\ outbox # <<>>
           /\ outbox' = Tail(outbox)
           /\ atRelay' = atRelay \cup {Head(outbox)} \/ atRelay' = atRelay
        \/ outbox' = <<>> /\ atRelay' = atRelay
    BY Zenon DEF WriterStep, WriterWrites, WriterFails, callVars, lockVars, wireVars
  <1>c. MapTyped
    BY Zenon DEF ClientInv, TypeOK, MapTyped
  <1>1. TypeOK'
    <2>1. closed' \in BOOLEAN
      BY Zenon, <1>a DEF ClientInv, TypeOK
    <2>2. MapTyped'
      <3>1. outbox' \in Seq(Call)
        <4>1. outbox' = <<>> \/ (outbox # <<>> /\ outbox' = Tail(outbox))
          BY Zenon, <1>b
        <4>2. outbox \in Seq(Call)
          BY Zenon, <1>c DEF MapTyped
        <4>3. outbox # <<>> => Tail(outbox) \in Seq(Call)
          BY <4>2
        <4>4. <<>> \in Seq(Call)
          OBVIOUS
        <4> QED
          BY Zenon, <4>1, <4>3, <4>4
      <3>2. atRelay' \subseteq Call
        <4>1. outbox # <<>> => Head(outbox) \in Call
          BY <1>c DEF MapTyped
        <4>2. \/ atRelay' = atRelay
              \/ outbox # <<>> /\ atRelay' = atRelay \cup {Head(outbox)}
          BY Zenon, <1>b
        <4>3. atRelay \subseteq Call
          BY Zenon, <1>c DEF MapTyped
        <4> QED
          BY Zenon, <4>1, <4>2, <4>3
      <3> QED
        BY Zenon, <3>1, <3>2, <1>a, <1>c DEF MapTyped
    <2> QED
      BY Zenon, <1>a, <2>1, <2>2 DEF ClientInv, TypeOK, MapTyped
  <1>2. MapFollowsCalls'
    BY Zenon, <1>a DEF ClientInv, MapFollowsCalls
  <1>3. RepliesMatch'
    BY Zenon, <1>a DEF ClientInv, RepliesMatch
  <1>4. WaitingIsAnswerable'
    BY Zenon, <1>a DEF ClientInv, WaitingIsAnswerable
  <1> QED
    BY Zenon, <1>1, <1>2, <1>3, <1>4 DEF ClientInv

\* The socket closes, or the relay replies.
LEMMA NetworkInv ==
  ASSUME ClientInv, SocketCloses \/ \E k \in Call : RelayReplies(k)
  PROVE  ClientInv'
  <1>a. /\ UNCHANGED <<pc, slot, answer, got, map, closed, outbox, reader>>
        /\ writer' \in {writer, "ended"} /\ socket' \in {socket, "closed"}
    BY Zenon DEF SocketCloses, RelayReplies, callVars, lockVars
  <1>b. \/ atRelay' = {} /\ replies' = replies
        \/ \E k \in Call : atRelay' = atRelay \ {k} /\ replies' = Append(replies, k)
    BY Zenon DEF SocketCloses, RelayReplies, callVars, lockVars
  <1>c. MapTyped
    BY Zenon DEF ClientInv, TypeOK, MapTyped
  <1>1. TypeOK'
    <2>1. closed' \in BOOLEAN
      BY Zenon, <1>a DEF ClientInv, TypeOK
    <2>2. (map \subseteq Call /\ atRelay \subseteq Call)'
      BY Zenon, <1>a, <1>b, <1>c DEF MapTyped
    <2>3. (outbox \in Seq(Call))'
      BY Zenon, <1>a, <1>c DEF MapTyped
    <2>4. replies \in Seq(Call)
      BY Zenon, <1>c DEF MapTyped
    <2>5. (replies \in Seq(Call))'
      BY <1>b, <2>4
    <2> QED
      BY Zenon, <1>a, <2>1, <2>2, <2>3, <2>5 DEF ClientInv, TypeOK
  <1>2. MapFollowsCalls'
    BY Zenon, <1>a DEF ClientInv, MapFollowsCalls
  <1>3. RepliesMatch'
    BY Zenon, <1>a DEF ClientInv, RepliesMatch
  <1>4. WaitingIsAnswerable'
    BY Zenon, <1>a DEF ClientInv, WaitingIsAnswerable
  <1> QED
    BY Zenon, <1>1, <1>2, <1>3, <1>4 DEF ClientInv

\* Every step keeps the invariant.
LEMMA ClientInvNext ==
  ASSUME ClientInv, [Next]_vars
  PROVE  ClientInv'
  BY Zenon, ClientInvStutter, RegisterInv, SendInv, AwaitInv, ReaderReadsInv, ReaderEndsInv,
     WriterInv, NetworkInv
     DEF Next, CallStep, ReaderStep

\* The invariant holds in every reachable state, for any set of calls.
THEOREM ClientInvHolds == Spec => []ClientInv
  BY ClientInvInit, ClientInvNext, PTL DEF Spec

\* The reader task never hands a caller the reply to another request (the
\* pending map of relay_client.rs).
THEOREM RepliesAlwaysMatch == Spec => []RepliesMatch
  <1>1. ClientInv => RepliesMatch
    BY Zenon DEF ClientInv
  <1> QED
    BY <1>1, ClientInvHolds, PTL

\* No call is left waiting on a sender nobody will use or drop (Pending.closed).
THEOREM NoCallIsOrphaned == Spec => []WaitingIsAnswerable
  <1>1. ClientInv => WaitingIsAnswerable
    BY Zenon DEF ClientInv
  <1> QED
    BY <1>1, ClientInvHolds, PTL

-----------------------------------------------------------------------------
(* The connection end to end *)

\* A step of the connection is one the client can take against some relay, or
\* leaves the client alone: the relay of net.rs answers only what it was sent.
LEMMA LinkStep == ClientInv /\ [LinkNext]_linkVars => [Next]_vars
  <1> SUFFICES ASSUME ClientInv, [LinkNext]_linkVars PROVE [Next]_vars
    BY Zenon
  <1>1. CASE \E k \in Call : CallMoves(k) \/ CallCancelled(k)
    BY <1>1, Zenon DEF CallMoves, CallCancelled, Next
  <1>2. CASE ClientWriter
    BY <1>2, Zenon DEF ClientWriter, RequestWritten, Next, WriterStep
  <1>3. CASE ClientReader
    BY <1>3, Zenon DEF ClientReader, Next
  <1>4. CASE RelayWriter
    <2>1. CASE ReplyWritten
      <3>1. RelayReplies(Head(out).n) \/ UNCHANGED vars
        BY <2>1, Zenon DEF ReplyWritten
      <3>2. RelayReplies(Head(out).n) => Head(out).n \in Call
        BY Zenon DEF RelayReplies, ClientInv, TypeOK
      <3> QED
        BY <3>1, <3>2, Zenon DEF Next
    <2> QED
      BY <1>4, <2>1, Zenon DEF RelayWriter, PushWritten
  <1>5. CASE RelayDropsStream \/ ConnectionLost
    BY <1>5, Zenon DEF RelayDropsStream, ConnectionLost, Next
  <1>6. CASE RelayHandler \/ RelayForward \/ RelayPushes \/ RestOfRelay
    BY <1>6, Zenon DEF RelayHandler, RelayForward, RelayPushes, RestOfRelay
  <1>7. CASE UNCHANGED linkVars
    BY <1>7, Zenon DEF linkVars
  <1> QED
    BY <1>1, <1>2, <1>3, <1>4, <1>5, <1>6, <1>7, Zenon DEF LinkNext

\* End to end, over the relay's three tasks: no caller is handed another
\* request's reply, and none is left with a sender nobody will use or drop.
THEOREM CallsAreSafeEndToEnd == LinkSpec => [](RepliesMatch /\ WaitingIsAnswerable)
  <1>1. LinkInit => Init
    BY Zenon DEF LinkInit
  <1>2. ClientInv => RepliesMatch /\ WaitingIsAnswerable
    BY Zenon DEF ClientInv
  <1> QED
    BY <1>1, <1>2, LinkStep, ClientInvInit, ClientInvNext, PTL DEF LinkSpec

-----------------------------------------------------------------------------
(* Admission, for every set of challenges and tokens, every expiry and every *)
(* cap: a challenge and a token each pay for at most one queue, the books    *)
(* stay within the cap, and a recent challenge is honoured.                  *)

USE AdmissionAssumption

\* The initial state satisfies the invariant.
LEMMA AdmissionInvInit == AdmissionInit => AdmissionInv
  BY DEF AdmissionInit, AdmissionInv, AdmissionTypeOK, ChallengesBounded, OrderIsRecent,
         PaymentsAreKnown,
         ChallengePaysOnce, SpentIsRemembered, TokenPaysOnce

\* Issuing a challenge.
LEMMA IssueInv ==
  ASSUME AdmissionInv, NEW c \in Challenge, IssuePowChallenge(c)
  PROVE  AdmissionInv'
  <1> DEFINE excess == Excess
             evicted == {order[i] : i \in 1 .. excess}
             kept == SubSeq(order, excess + 1, Len(order))
  <1>1. /\ order \in Seq(Challenge) /\ issued \in Seq(Challenge)
        /\ Len(order) <= Cap /\ Len(order) <= Len(issued)
        /\ outstanding = {order[i] : i \in 1 .. Len(order)} \ known
    BY Zenon DEF AdmissionInv, AdmissionTypeOK, ChallengesBounded, OrderIsRecent
  <1>2. excess = IF Len(order) = Cap THEN 1 ELSE 0
    BY <1>1 DEF Excess
  <1>a. excess \in Nat /\ excess <= Len(order) /\ Len(order) \in Nat /\ Len(issued) \in Nat
    BY <1>1, <1>2
  <1>4. order' = Append(kept, c) /\ issued' = Append(issued, c)
    BY Zenon DEF IssuePowChallenge
  <1>5. outstanding' = (outstanding \ evicted) \cup {c}
    BY Zenon DEF IssuePowChallenge
  <1> HIDE DEF excess
  <1>3. /\ kept \in Seq(Challenge)
        /\ Len(kept) = Len(order) - excess
        /\ \A i \in 1 .. Len(kept) : kept[i] = order[excess + i]
    BY <1>1, <1>a, SMTT(60)
  <1> HIDE DEF kept, evicted
  <1>6. /\ order' \in Seq(Challenge) /\ issued' \in Seq(Challenge)
        /\ Len(order') = Len(kept) + 1 /\ Len(issued') = Len(issued) + 1
        /\ \A i \in 1 .. Len(kept) : order'[i] = order[excess + i]
        /\ order'[Len(kept) + 1] = c
        /\ \A i \in 1 .. Len(issued) : issued'[i] = issued[i]
        /\ issued'[Len(issued) + 1] = c
    BY <1>1, <1>3, <1>4
  <1>7. AdmissionTypeOK'
    BY Zenon, <1>5, <1>6 DEF AdmissionInv, AdmissionTypeOK, IssuePowChallenge
  <1>8. OrderIsRecent'
    <2>1. Len(order') <= Len(issued') /\ (Len(order') < Len(issued') => Len(order') = Cap)
      BY <1>1, <1>2, <1>a, <1>3, <1>6 DEF AdmissionInv, OrderIsRecent
    <2>2. \A i \in 1 .. Len(order') : order'[i] = issued'[Len(issued') - Len(order') + i]
      <3> SUFFICES ASSUME NEW i \in 1 .. Len(order')
                   PROVE  order'[i] = issued'[Len(issued') - Len(order') + i]
        BY Zenon
      <3>1. CASE i = Len(kept) + 1
        BY <1>1, <1>a, <1>3, <1>6, <3>1
      <3>2. CASE i \in 1 .. Len(kept)
        <4>1. order'[i] = order[excess + i] /\ excess + i \in 1 .. Len(order)
          BY <1>1, <1>2, <1>a, <1>3, <1>6, <3>2
        <4>2. order[excess + i] = issued[Len(issued) - Len(order) + (excess + i)]
          BY Zenon, <4>1 DEF AdmissionInv, OrderIsRecent
        <4>3. Len(issued) - Len(order) + (excess + i) \in 1 .. Len(issued)
          BY <1>1, <1>a, <4>1
        <4>4. Len(issued') - Len(order') + i = Len(issued) - Len(order) + (excess + i)
          BY <1>a, <1>3, <1>6, i \in Int
        <4> QED
          BY Zenon, <1>6, <4>1, <4>2, <4>3, <4>4
      <3> QED
        BY <1>1, <1>a, <1>3, <1>6, <3>1, <3>2
    <2>3. \A i, j \in 1 .. Len(issued') : issued'[i] = issued'[j] => i = j
      <3>1. \A i \in 1 .. Len(issued) : issued[i] # c
        BY Zenon DEF IssuePowChallenge
      <3>2. \A i, j \in 1 .. Len(issued) : issued[i] = issued[j] => i = j
        BY Zenon DEF AdmissionInv, OrderIsRecent
      <3> SUFFICES ASSUME NEW i \in 1 .. Len(issued'), NEW j \in 1 .. Len(issued'),
                          issued'[i] = issued'[j]
                   PROVE  i = j
        BY Zenon
      <3>3. \A k \in 1 .. Len(issued') : k \in 1 .. Len(issued) \/ k = Len(issued) + 1
        BY <1>a, <1>6
      <3> QED
        BY Zenon, <1>6, <3>1, <3>2, <3>3
    <2>4. outstanding' = {order'[i] : i \in 1 .. Len(order')} \ known'
      <3>1. ASSUME NEW i \in 1 .. Len(order), NEW j \in 1 .. Len(order), order[i] = order[j]
            PROVE  i = j
        <4>1. order[i] = issued[Len(issued) - Len(order) + i] /\
                order[j] = issued[Len(issued) - Len(order) + j]
          BY Zenon DEF AdmissionInv, OrderIsRecent
        <4>2. Len(issued) - Len(order) + i \in 1 .. Len(issued) /\
                Len(issued) - Len(order) + j \in 1 .. Len(issued)
          BY <1>1
        <4>3. Len(issued) - Len(order) + i = Len(issued) - Len(order) + j
          BY Zenon, <3>1, <4>1, <4>2 DEF AdmissionInv, OrderIsRecent
        <4> QED
          BY <1>1, <4>3
      <3>2. {order[i] : i \in 1 .. Len(order)} \ evicted = {kept[i] : i \in 1 .. Len(kept)}
        <4>1. \A i \in 1 .. Len(order) : i \notin 1 .. excess => i - excess \in 1 .. Len(kept) /\
                 excess + (i - excess) = i
          BY <1>1, <1>2, <1>a, <1>3
        <4>2. \A i \in 1 .. Len(kept) : excess + i \in 1 .. Len(order) /\ excess + i \notin 1 .. excess
          BY <1>1, <1>2, <1>a, <1>3
        <4>3. 1 .. excess \subseteq 1 .. Len(order)
          BY <1>1, <1>2
        <4>4. ASSUME NEW i \in 1 .. Len(order), order[i] \notin evicted
              PROVE  \E k \in 1 .. Len(kept) : kept[k] = order[i]
          <5>1. i \notin 1 .. excess
            BY Zenon, <4>4 DEF evicted
          <5> QED
            BY Zenon, <1>3, <4>1, <5>1
        <4>5. ASSUME NEW k \in 1 .. Len(kept)
              PROVE  kept[k] \notin evicted /\ \E i \in 1 .. Len(order) : order[i] = kept[k]
          <5>1. kept[k] = order[excess + k]
            BY Zenon, <1>3
          <5>2. \A i \in 1 .. excess : order[i] # order[excess + k]
            BY Zenon, <3>1, <4>2, <4>3
          <5> QED
            BY Zenon, <4>2, <5>1, <5>2 DEF evicted
        <4> QED
          BY <4>4, <4>5
      <3>3. {order'[i] : i \in 1 .. Len(order')} = {kept[i] : i \in 1 .. Len(kept)} \cup {c}
        <4>1. \A i \in 1 .. Len(kept) : order'[i] = kept[i]
          BY Zenon, <1>3, <1>6
        <4>2. Len(kept) \in Nat
          BY <1>3
        <4>3. 1 .. Len(order') = (1 .. Len(kept)) \cup {Len(kept) + 1}
          BY <1>6, <4>2
        <4>4. order'[Len(kept) + 1] = c
          BY Zenon, <1>3, <1>6
        <4> QED
          BY <4>1, <4>3, <4>4
      <3>4. c \notin known /\ known' = known
        BY Zenon DEF IssuePowChallenge
      <3> QED
        BY Zenon, <1>1, <1>5, <3>2, <3>3, <3>4
    <2> QED
      BY Zenon, <2>1, <2>2, <2>3, <2>4 DEF OrderIsRecent
  <1>9. ChallengesBounded'
    BY <1>1, <1>2, <1>a, <1>3, <1>6, <1>8 DEF ChallengesBounded, OrderIsRecent
  <1>10. PaymentsAreKnown' /\ ChallengePaysOnce' /\ SpentIsRemembered' /\ TokenPaysOnce'
    BY Zenon
       DEF AdmissionInv, PaymentsAreKnown, ChallengePaysOnce, SpentIsRemembered, TokenPaysOnce,
           IsExpired, IssuePowChallenge
  <1> QED
    BY Zenon, <1>7, <1>8, <1>9, <1>10 DEF AdmissionInv

\* Counting one more in a book of counts leaves a book of counts.
LEMMA BumpType ==
  ASSUME NEW S, NEW f \in [S -> Nat], NEW x \in S
  PROVE  [f EXCEPT ![x] = @ + 1] \in [S -> Nat]
  OBVIOUS

\* A request that passes the attestation gate, with or without a right
\* solution.
LEMMA CreateQueueInv ==
  ASSUME AdmissionInv, NEW c \in Challenge, NEW solved \in BOOLEAN,
         NEW t \in Token \cup {NoToken}, CreateQueue(c, solved, t)
  PROVE  AdmissionInv'
  <1> USE DEF CreateQueue
  <1>1. AdmissionTypeOK'
    <2> USE DEF AdmissionInv, AdmissionTypeOK
    <2>1. spent' \subseteq Token
      BY Zenon DEF Pruned, TokenAccepted
    <2>2. outstanding' \subseteq Challenge /\ known' \subseteq Challenge
      BY Zenon
    <2>3. paidWith \in [Challenge -> Nat] /\ redeemed \in [Token -> Nat]
      BY Zenon
    <2>4. \/ paidWith' = [paidWith EXCEPT ![c] = @ + 1]
          \/ paidWith' = paidWith
      BY Zenon
    <2>5. \/ t \in Token /\ redeemed' = [redeemed EXCEPT ![t] = @ + 1]
          \/ redeemed' = redeemed
      BY Zenon
    <2> HIDE DEF CreateQueue, AdmissionInv, AdmissionTypeOK
    <2>6. paidWith' \in [Challenge -> Nat]
      BY <2>3, <2>4, BumpType
    <2>7. redeemed' \in [Token -> Nat]
      BY <2>3, <2>5, BumpType
    <2> QED
      BY Zenon, <2>1, <2>2, <2>6, <2>7 DEF CreateQueue, AdmissionInv, AdmissionTypeOK
  <1>2. c \in outstanding => paidWith[c] = 0
    BY DEF AdmissionInv, AdmissionTypeOK, OrderIsRecent, PaymentsAreKnown
  <1>3. OrderIsRecent' /\ ChallengesBounded'
    BY DEF AdmissionInv, OrderIsRecent, ChallengesBounded
  <1>3a. ASSUME NEW d \in Challenge
         PROVE  paidWith'[d] <= 1 /\ (paidWith'[d] > 0 => d \in known')
    <2>1. /\ paidWith \in [Challenge -> Nat]
          /\ paidWith[d] <= 1
          /\ paidWith[d] > 0 => d \in known
      BY Zenon DEF AdmissionInv, AdmissionTypeOK, PaymentsAreKnown, ChallengePaysOnce
    <2>2. known' = known \cup {c}
      BY Zenon
    <2>3. \/ c \in outstanding /\ paidWith' = [paidWith EXCEPT ![c] = @ + 1]
          \/ paidWith' = paidWith
      BY Zenon DEF PowAccepted
    <2> HIDE DEF CreateQueue
    <2> QED
      BY <1>2, <2>1, <2>2, <2>3
  <1>4. PaymentsAreKnown' /\ ChallengePaysOnce'
    BY Zenon, <1>3a DEF PaymentsAreKnown, ChallengePaysOnce
  <1>5. ASSUME GateOn, NEW u \in Token
        PROVE  redeemed'[u] <= 1 /\ (redeemed'[u] > 0 => u \in spent' \/ now' >= Expiry[u])
    <2>1. /\ redeemed[u] \in Nat /\ redeemed[u] <= 1 /\ now \in Nat
          /\ redeemed[u] > 0 => u \in spent \/ now >= Expiry[u]
      BY Zenon, <1>5
         DEF AdmissionInv, AdmissionTypeOK, TokenPaysOnce, SpentIsRemembered, IsExpired
    <2>2. spent' = Pruned \cup {t} /\ now' = now /\ t \in Token
      BY Zenon, <1>5 DEF TokenAccepted
    <2>3. CASE u # t
      <3>1. redeemed'[u] = redeemed[u]
        BY Zenon, <2>3 DEF AdmissionInv, AdmissionTypeOK
      <3> QED
        BY <2>1, <2>2, <3>1 DEF Pruned
    <2>4. CASE u = t
      <3>1. redeemed[u] = 0
        BY <1>5, <2>1, <2>4 DEF TokenAccepted, IsExpired, Pruned
      <3>2. redeemed'[u] \in {redeemed[u], redeemed[u] + 1}
        BY Zenon, <2>2, <2>4 DEF AdmissionInv, AdmissionTypeOK
      <3> QED
        BY <2>2, <2>4, <3>1, <3>2
    <2> QED
      BY Zenon, <2>3, <2>4
  <1>6. TokenPaysOnce' /\ SpentIsRemembered'
    BY Zenon, <1>5 DEF TokenPaysOnce, SpentIsRemembered, IsExpired
  <1> QED
    BY Zenon, <1>1, <1>3, <1>4, <1>6 DEF AdmissionInv

\* A replay is refused, and a second passes: what is forgotten has expired.
LEMMA ReplayAndTickInv ==
  ASSUME AdmissionInv, Tick \/ \E t \in Token : RefuseReplay(t)
  PROVE  AdmissionInv'
  <1> USE DEF Tick, RefuseReplay
  <1>1. AdmissionTypeOK'
    BY DEF AdmissionInv, AdmissionTypeOK, Pruned
  <1>2. UNCHANGED <<outstanding, order, issued, known, paidWith, redeemed>>
    BY Zenon
  <1>5. OrderIsRecent' /\ ChallengesBounded'
    BY <1>2 DEF AdmissionInv, OrderIsRecent, ChallengesBounded
  <1>6. PaymentsAreKnown' /\ ChallengePaysOnce'
    BY Zenon, <1>2 DEF AdmissionInv, PaymentsAreKnown, ChallengePaysOnce
  <1>3. TokenPaysOnce'
    BY Zenon DEF AdmissionInv, TokenPaysOnce
  <1>4. SpentIsRemembered'
    BY DEF AdmissionInv, AdmissionTypeOK, SpentIsRemembered, IsExpired, Pruned
  <1> QED
    BY Zenon, <1>1, <1>3, <1>4, <1>5, <1>6 DEF AdmissionInv

\* A restart forgets every book, and the challenges of the old process are
\* never generated again.
LEMMA RestartInv ==
  ASSUME AdmissionInv, Restart
  PROVE  AdmissionInv'
  <1> USE DEF Restart
  <1>1. AdmissionTypeOK'
    BY DEF AdmissionInv, AdmissionTypeOK
  <1>2. OrderIsRecent' /\ ChallengesBounded'
    BY DEF OrderIsRecent, ChallengesBounded
  <1>3. PaymentsAreKnown' /\ ChallengePaysOnce' /\ TokenPaysOnce' /\ SpentIsRemembered'
    BY DEF AdmissionInv, PaymentsAreKnown, ChallengePaysOnce, TokenPaysOnce, SpentIsRemembered
  <1> QED
    BY Zenon, <1>1, <1>2, <1>3 DEF AdmissionInv

\* The invariant speaks only of the variables.
LEMMA StutterInv ==
  ASSUME AdmissionInv, UNCHANGED admissionVars
  PROVE  AdmissionInv'
  <1>1. AdmissionTypeOK' /\ ChallengesBounded'
    BY Zenon DEF admissionVars, AdmissionInv, AdmissionTypeOK, ChallengesBounded
  <1>2. OrderIsRecent'
    BY Zenon DEF admissionVars, AdmissionInv, OrderIsRecent
  <1>3. PaymentsAreKnown' /\ ChallengePaysOnce' /\ TokenPaysOnce'
    BY Zenon DEF admissionVars, AdmissionInv, PaymentsAreKnown, ChallengePaysOnce, TokenPaysOnce
  <1>4. SpentIsRemembered'
    BY Zenon DEF admissionVars, AdmissionInv, SpentIsRemembered, IsExpired
  <1> QED
    BY Zenon, <1>1, <1>2, <1>3, <1>4 DEF AdmissionInv

\* The inductive invariant holds of the admission books.
THEOREM AdmissionInvHolds == AdmissionSpec => []AdmissionInv
  <1>1. AdmissionInit => AdmissionInv
    BY Zenon, AdmissionInvInit
  <1>2. AdmissionInv /\ [AdmissionNext]_admissionVars => AdmissionInv'
    BY Zenon, IssueInv, CreateQueueInv, ReplayAndTickInv, RestartInv, StutterInv
       DEF AdmissionNext
  <1> QED
    BY <1>1, <1>2, PTL DEF AdmissionSpec

\* One challenge pays for one queue, across restarts; one token pays for one
\* queue in the life of a process, whatever its expiry and however often expired
\* nonces are pruned (consume_pow and consume_attestation).
THEOREM PaymentsSpentOnce == AdmissionSpec => []PaysOnce
  BY AdmissionInvHolds, PTL DEF AdmissionInv, PaysOnce

\* The books stay within the cap.
THEOREM ChallengeBooksBounded == AdmissionSpec => []ChallengesBounded
  BY AdmissionInvHolds, PTL DEF AdmissionInv

\* A challenge that no request has named is redeemable until the cap's worth
\* of newer challenges was issued.
THEOREM RecentChallengesHonoured == AdmissionSpec => []RecentChallengeHonoured
  <1>1. AdmissionInv => RecentChallengeHonoured
    <2> SUFFICES ASSUME AdmissionInv, NEW i \in 1 .. Len(issued),
                        Len(issued) - i < Cap, issued[i] \notin known
                 PROVE  issued[i] \in outstanding
      BY Zenon DEF RecentChallengeHonoured
    <2> DEFINE k == i - (Len(issued) - Len(order))
    <2>1. Len(order) \in Nat /\ Len(issued) \in Nat
      BY DEF AdmissionInv, AdmissionTypeOK
    <2>2. k \in 1 .. Len(order) /\ Len(issued) - Len(order) + k = i
      BY <2>1 DEF AdmissionInv, OrderIsRecent
    <2>3. order[k] = issued[i]
      BY Zenon, <2>2 DEF AdmissionInv, OrderIsRecent
    <2> QED
      BY <2>2, <2>3 DEF AdmissionInv, OrderIsRecent
  <1> QED
    BY <1>1, AdmissionInvHolds, PTL

-----------------------------------------------------------------------------
(* The order of frames, for any number of calls and of pushes. *)

HIDE AdmissionAssumption

\* What the client writes, and what the relay's writer is to write.
Request == [op : {"subscribe", "other", "garbled"}, n : Call \cup {0}]
Frame   == [op : {"reply"}, n : Call \cup {0}] \cup [op : {"push"}, n : Int]

\* The frames of one kind.
Kind(op) == {f \in Frame : f.op = op}

\* The number of a frame.
NumberIn == [f \in Frame |-> f.n]

\* A frame with its place in line one less, if it is a push.
Raised == [f \in Frame |-> Relay!MovedUp(f)]

\* The instance's loop is the one the lemmas are about.
LEMMA SameFilter == ASSUME NEW s, NEW V PROVE Relay!Filter(s, V) = Filter(s, V)
  BY Zenon DEF Relay!Filter, Filter

\* The numbers of one kind of frame, as a filter and a map.
LEMMA NumbersAreMapped ==
  ASSUME NEW s \in Seq(Frame), NEW op
  PROVE  /\ Relay!NumbersOf(s, op) = Mapped(NumberIn, Filter(s, Kind(op)))
         /\ Len(Relay!FramesOf(s, op)) = Len(Relay!NumbersOf(s, op))
  <1>1. PICK V : V = {s[i] : i \in {j \in 1 .. Len(s) : s[j].op = op}}
    BY Zenon
  <1>2. PICK A : A = Elements(s)
    BY Zenon
  <1>3. s \in Seq(A)
    BY <1>2 DEF Elements
  <1>4. Agree(A, V, Kind(op))
    <2>1. \A i \in 1 .. Len(s) : s[i] \in Frame
      OBVIOUS
    <2> QED
      BY Zenon, <1>1, <1>2, <2>1 DEF Agree, Elements, Kind
  <1>5. KeepAlike(s, V, Kind(op))
    BY Zenon, <1>3, <1>4, FilterSame
  <1>6. Relay!FramesOf(s, op) = Filter(s, Kind(op))
    BY Zenon, <1>1, <1>5, SameFilter DEF Relay!FramesOf, KeepAlike
  <1>7. PICK t \in Seq(Frame) : t = Filter(s, Kind(op))
    BY Zenon, FilterBasics
  <1>8. [i \in 1 .. Len(t) |-> t[i].n] = Mapped(NumberIn, t) /\ Len(Mapped(NumberIn, t)) = Len(t)
    BY DEF Mapped, NumberIn
  <1> QED
    BY Zenon, <1>6, <1>7, <1>8 DEF Relay!NumbersOf, Relay!Numbers

\* NumberIn and Raised as functions.
LEMMA FrameMaps ==
  /\ Maps(NumberIn, Frame, Int \cup Call)
  /\ Maps(Raised, Frame, Frame)
  <1>1. Call \subseteq Int
    BY CallAssumption
  <1>2. ASSUME NEW f \in Frame PROVE Relay!MovedUp(f) \in Frame
    BY DEF Relay!MovedUp, Frame
  <1>3. ASSUME NEW f \in Frame PROVE f.n \in Int \cup Call
    BY <1>1 DEF Frame
  <1> QED
    BY Zenon, <1>2, <1>3 DEF Maps, NumberIn, Raised

\* The numbers of pushes, and of replies.
LEMMA NumbersTyped ==
  ASSUME NEW s \in Seq(Frame)
  PROVE  /\ Relay!NumbersOf(s, "push") \in Seq(Int)
         /\ Relay!NumbersOf(s, "reply") \in Seq(Call \cup {0})
  <1>1. Filter(s, Kind("push")) \in Seq(Frame \cap Kind("push"))
    BY Zenon, FilterTyped
  <1>2. Filter(s, Kind("reply")) \in Seq(Frame \cap Kind("reply"))
    BY Zenon, FilterTyped
  <1>3. ASSUME NEW t \in Seq(Frame \cap Kind("push")) PROVE Mapped(NumberIn, t) \in Seq(Int)
    BY DEF Mapped, NumberIn, Kind, Frame
  <1>4. ASSUME NEW t \in Seq(Frame \cap Kind("reply"))
        PROVE  Mapped(NumberIn, t) \in Seq(Call \cup {0})
    BY DEF Mapped, NumberIn, Kind, Frame
  <1> QED
    BY Zenon, <1>1, <1>2, <1>3, <1>4, NumbersAreMapped

\* One more frame.
LEMMA NumbersAppend ==
  ASSUME NEW s \in Seq(Frame), NEW f \in Frame, NEW op
  PROVE  Relay!NumbersOf(Append(s, f), op)
           = IF f.op = op THEN Append(Relay!NumbersOf(s, op), f.n) ELSE Relay!NumbersOf(s, op)
  <1>1. Append(s, f) \in Seq(Frame)
    BY Zenon, AppendExtends
  <1>2. Filter(Append(s, f), Kind(op))
          = IF f \in Kind(op) THEN Append(Filter(s, Kind(op)), f) ELSE Filter(s, Kind(op))
    BY Zenon, FilterAppend
  <1>3. f \in Kind(op) <=> f.op = op
    BY Zenon DEF Kind
  <1>4. PICK t \in Seq(Frame) : t = Filter(s, Kind(op))
    BY Zenon, FilterBasics
  <1>5. Mapped(NumberIn, Append(t, f)) = Append(Mapped(NumberIn, t), NumberIn[f])
    BY FrameMaps, MappedFacts
  <1>6. NumberIn[f] = f.n
    BY Zenon DEF NumberIn
  <1> QED
    BY Zenon, <1>1, <1>2, <1>3, <1>4, <1>5, <1>6, NumbersAreMapped

\* The first frame.
LEMMA NumbersFirst ==
  ASSUME NEW s \in Seq(Frame), s # <<>>, NEW op
  PROVE  Relay!NumbersOf(s, op)
           = (IF Head(s).op = op THEN <<Head(s).n>> ELSE <<>>) \o Relay!NumbersOf(Tail(s), op)
  <1>1. Head(s) \in Frame /\ Tail(s) \in Seq(Frame)
    OBVIOUS
  <1>2. Filter(s, Kind(op))
          = (IF Head(s) \in Kind(op) THEN <<Head(s)>> ELSE <<>>) \o Filter(Tail(s), Kind(op))
    BY FilterFirst
  <1>3. Head(s) \in Kind(op) <=> Head(s).op = op
    BY Zenon, <1>1 DEF Kind
  <1>4. PICK t \in Seq(Frame) : t = Filter(Tail(s), Kind(op))
    BY Zenon, <1>1, FilterBasics
  <1>5. PICK h \in Seq(Frame) : h = <<Head(s)>>
    <2>1. <<Head(s)>> \in Seq(Frame)
      BY <1>1
    <2> QED
      BY Zenon, <2>1
  <1>6. Mapped(NumberIn, h \o t) = Mapped(NumberIn, h) \o Mapped(NumberIn, t)
    <2>1. MappedSplits(NumberIn, h, t)
      BY Zenon, FrameMaps, MappedConcat
    <2> QED
      BY Zenon, <2>1 DEF MappedSplits
  <1>7. Mapped(NumberIn, h) = <<Head(s).n>>
    BY <1>1, <1>5 DEF NumberIn, Mapped
  <1>8. <<>> \o t = t /\ <<>> \o Mapped(NumberIn, t) = Mapped(NumberIn, t)
    <2>1. Mapped(NumberIn, t) \in Seq(Int \cup Call)
      BY <1>1, FrameMaps, MappedFacts
    <2> QED
      BY <2>1
  <1>9. CASE Head(s).op = op
    BY Zenon, <1>1, <1>2, <1>3, <1>4, <1>5, <1>6, <1>7, <1>9, NumbersAreMapped
  <1>10. CASE Head(s).op # op
    BY Zenon, <1>1, <1>2, <1>3, <1>4, <1>8, <1>10, NumbersAreMapped
  <1> QED
    BY Zenon, <1>9, <1>10

\* A push written moves the others up and leaves the replies alone.
LEMMA NumbersMovedUp ==
  ASSUME NEW s \in Seq(Frame), NEW t, t = [i \in 1 .. Len(s) |-> Relay!MovedUp(s[i])]
  PROVE  /\ t \in Seq(Frame)
         /\ Relay!NumbersOf(t, "reply") = Relay!NumbersOf(s, "reply")
         /\ LET a == Relay!NumbersOf(s, "push")
            IN  Relay!NumbersOf(t, "push") = [i \in 1 .. Len(a) |-> a[i] - 1]
  <1>1. t = Mapped(Raised, s)
    BY DEF Mapped, Raised
  <1>2. t \in Seq(Frame)
    <2>1. Mapped(Raised, s) \in Seq(Frame)
      <3>1. s # <<>> => Head(s) \in Frame
        OBVIOUS
      <3>2. Relay!MovedUp([op |-> "push", n |-> 0]) \in Frame
        BY DEF Relay!MovedUp, Frame
      <3> QED
        BY <3>2, FrameMaps, MappedFacts
    <2> QED
      BY Zenon, <1>1, <2>1
  <1>3. ASSUME NEW f \in Frame
        PROVE  /\ Raised[f].op = f.op /\ Raised[f] \in Frame
               /\ NumberIn[Raised[f]] = IF f.op = "push" THEN f.n - 1 ELSE f.n
    BY DEF Raised, NumberIn, Relay!MovedUp, Frame
  <1>4. ASSUME NEW op
        PROVE  Filter(t, Kind(op)) = Mapped(Raised, Filter(s, Kind(op)))
    <2>1. Tests(Raised, Frame, Kind(op), Kind(op))
      BY Zenon, <1>3 DEF Tests, Kind
    <2>2. FilterCommutes(Raised, s, Kind(op), Kind(op))
      BY Zenon, <2>1, FrameMaps, FilterMapped
    <2> QED
      BY Zenon, <1>1, <2>2 DEF FilterCommutes
  <1>5. Relay!NumbersOf(t, "reply") = Relay!NumbersOf(s, "reply")
    <2>1. PICK u \in Seq(Frame \cap Kind("reply")) : u = Filter(s, Kind("reply"))
      BY Zenon, FilterTyped
    <2>2. ASSUME NEW i \in 1 .. Len(u) PROVE u[i] \in Frame /\ u[i].op = "reply"
      BY DEF Kind
    <2>3. Mapped(NumberIn, Mapped(Raised, u)) = Mapped(NumberIn, u)
      <3>1. Len(Mapped(Raised, u)) = Len(u) /\ u \in Seq(Frame)
        BY DEF Mapped
      <3>2. \A i \in 1 .. Len(u) : NumberIn[Mapped(Raised, u)[i]] = NumberIn[u[i]]
        BY Zenon, <1>3, <2>2 DEF Mapped, NumberIn
      <3> QED
        BY Zenon, <3>1, <3>2 DEF Mapped
    <2> QED
      BY Zenon, <1>2, <1>4, <2>1, <2>3, NumbersAreMapped
  <1>6. PICK u \in Seq(Frame \cap Kind("push")) : u = Filter(s, Kind("push"))
    BY Zenon, FilterTyped
  <1>7. ASSUME NEW i \in 1 .. Len(u) PROVE u[i] \in Frame /\ u[i].op = "push"
    BY DEF Kind
  <1>8. Mapped(NumberIn, Mapped(Raised, u))
          = [i \in 1 .. Len(Mapped(NumberIn, u)) |-> Mapped(NumberIn, u)[i] - 1]
    <2>1. Len(Mapped(Raised, u)) = Len(u) /\ Len(Mapped(NumberIn, u)) = Len(u)
      BY DEF Mapped
    <2>2. \A i \in 1 .. Len(u) : NumberIn[Mapped(Raised, u)[i]] = Mapped(NumberIn, u)[i] - 1
      BY Zenon, <1>3, <1>7 DEF Mapped, NumberIn
    <2>3. PICK m : m = Mapped(NumberIn, u)
      BY Zenon
    <2>4. PICK r : r = Mapped(Raised, u)
      BY Zenon
    <2>5. [i \in 1 .. Len(r) |-> NumberIn[r[i]]] = [i \in 1 .. Len(m) |-> m[i] - 1]
      BY Zenon, <2>1, <2>2, <2>3, <2>4
    <2>6. Mapped(NumberIn, r) = [i \in 1 .. Len(r) |-> NumberIn[r[i]]]
      BY Zenon DEF Mapped
    <2> QED
      BY Zenon, <2>3, <2>4, <2>5, <2>6
  <1>9. Relay!NumbersOf(t, "push") = Mapped(NumberIn, Mapped(Raised, u))
    BY Zenon, <1>2, <1>4, <1>6, NumbersAreMapped
  <1>10. Relay!NumbersOf(s, "push") = Mapped(NumberIn, u)
    BY Zenon, <1>6, NumbersAreMapped
  <1> QED
    BY Zenon, <1>2, <1>5, <1>8, <1>9, <1>10

\* The requests read, in order.
LEMMA RequestNumbers ==
  ASSUME NEW s \in Seq(Request), NEW r \in Request
  PROVE  /\ Relay!Numbers(s) \in Seq(Call \cup {0})
         /\ Relay!Numbers(Append(s, r)) = Append(Relay!Numbers(s), r.n)
         /\ s # <<>> => /\ Relay!Numbers(s) # <<>>
                        /\ Relay!Numbers(Tail(s)) = Tail(Relay!Numbers(s))
                        /\ Head(s).n = Head(Relay!Numbers(s))
  <1>1. Relay!Numbers(s) \in Seq(Call \cup {0}) /\ Len(Relay!Numbers(s)) = Len(s)
    <2>a. \A k \in 1 .. Len(s) : s[k] \in Request
      OBVIOUS
    <2>b. \A f \in Request : f.n \in Call \cup {0}
      BY DEF Request
    <2>1. \A k \in 1 .. Len(s) : s[k].n \in Call \cup {0}
      BY Zenon, <2>a, <2>b
    <2>2. PICK m : m = [k \in 1 .. Len(s) |-> s[k].n]
      BY Zenon
    <2>3. m \in Seq(Call \cup {0}) /\ Len(m) = Len(s)
      BY <2>1, <2>2
    <2> QED
      BY Zenon, <2>2, <2>3 DEF Relay!Numbers
  <1>2. Relay!Numbers(Append(s, r)) = Append(Relay!Numbers(s), r.n)
    BY DEF Relay!Numbers, Request
  <1>3. CASE s # <<>>
    <2>1. Relay!Numbers(s) # <<>>
      BY <1>1, <1>3
    <2>2. Relay!Numbers(Tail(s)) = Tail(Relay!Numbers(s))
      BY <1>3 DEF Relay!Numbers
    <2>3. Head(s).n = Head(Relay!Numbers(s))
      BY <1>3 DEF Relay!Numbers
    <2> QED
      BY Zenon, <1>1, <1>2, <2>1, <2>2, <2>3
  <1> QED
    BY Zenon, <1>1, <1>2, <1>3

\* The pushes on their way to a connection, numbered from 1: those already in
\* the writer's channel, then those still in the push channel.
Ordered(a, p) == a \o p = [i \in 1 .. Len(p) + Len(a) |-> i]

\* Pushes in order stay in order as one more is queued.
LEMMA OrderedQueued ==
  ASSUME NEW a \in Seq(Int), NEW p \in Seq(Int), Ordered(a, p)
  PROVE  Ordered(a, Append(p, Len(p) + Len(a) + 1))
  <1>1. PICK n \in Nat : n = Len(p) + Len(a)
    OBVIOUS
  <1>a. a \o p \in Seq(Int) /\ Len(a \o p) = n
    BY <1>1
  <1>2. PICK q \in Seq(Int) : q = a \o p /\ Len(q) = n
    BY Zenon, <1>a
  <1>3. a \o Append(p, n + 1) = Append(q, n + 1) /\ Len(Append(p, n + 1)) + Len(a) = n + 1
    BY <1>1, <1>2
  <1>4. q = [i \in 1 .. n |-> i]
    BY Zenon, <1>1, <1>2 DEF Ordered
  <1>5. Append(q, n + 1) = [i \in 1 .. n + 1 |-> i]
    BY <1>4
  <1> QED
    BY Zenon, <1>1, <1>3, <1>5 DEF Ordered

\* They stay in order as the first of the channel is passed on.
LEMMA OrderedForwarded ==
  ASSUME NEW a \in Seq(Int), NEW p \in Seq(Int), p # <<>>, Ordered(a, p)
  PROVE  Ordered(Append(a, Head(p)), Tail(p))
  <1>1. /\ Append(a, Head(p)) \o Tail(p) = a \o p
        /\ Len(Tail(p)) + Len(Append(a, Head(p))) = Len(p) + Len(a)
    OBVIOUS
  <1> QED
    BY Zenon, <1>1 DEF Ordered

\* They stay in order as the first is written and the rest move up.
LEMMA OrderedWritten ==
  ASSUME NEW x \in Int, NEW b \in Seq(Int), NEW p \in Seq(Int), Ordered(<<x>> \o b, p)
  PROVE  Ordered([i \in 1 .. Len(b) |-> b[i] - 1], [i \in 1 .. Len(p) |-> p[i] - 1])
  <1>1. PICK c : c = [i \in 1 .. Len(b) |-> b[i] - 1]
    BY Zenon
  <1>2. PICK q : q = [i \in 1 .. Len(p) |-> p[i] - 1]
    BY Zenon
  <1>3. c \in Seq(Int) /\ Len(c) = Len(b) /\ \A i \in 1 .. Len(b) : c[i] = b[i] - 1
    BY <1>1
  <1>4. q \in Seq(Int) /\ Len(q) = Len(p) /\ \A i \in 1 .. Len(p) : q[i] = p[i] - 1
    BY <1>2
  <1>5. PICK n \in Nat : n = Len(p) + Len(b)
    OBVIOUS
  <1>6. /\ (<<x>> \o b) \o p \in Seq(Int)
        /\ Len(p) + Len(<<x>> \o b) = n + 1
        /\ \A i \in 1 .. Len(b) : ((<<x>> \o b) \o p)[i + 1] = b[i]
        /\ \A i \in 1 .. Len(p) : ((<<x>> \o b) \o p)[Len(b) + i + 1] = p[i]
    BY <1>5
  <1>7. (<<x>> \o b) \o p = [i \in 1 .. n + 1 |-> i]
    BY Zenon, <1>6 DEF Ordered
  <1>8. /\ \A i \in 1 .. Len(b) : b[i] = i + 1
        /\ \A i \in 1 .. Len(p) : p[i] = Len(b) + i + 1
    <2>1. \A i \in 1 .. Len(b) : i + 1 \in 1 .. n + 1
      BY <1>5
    <2>2. \A i \in 1 .. Len(p) : Len(b) + i + 1 \in 1 .. n + 1
      BY <1>5
    <2> QED
      BY Zenon, <1>6, <1>7, <2>1, <2>2
  <1>9. c \o q = [i \in 1 .. n |-> i]
    <2>1. /\ c \o q \in Seq(Int)
          /\ Len(c \o q) = n
          /\ \A i \in 1 .. n : (c \o q)[i] = IF i <= Len(b) THEN c[i] ELSE q[i - Len(b)]
      <3>1. c \o q \in Seq(Int) /\ IsConcat(c \o q, c, q)
        BY Zenon, <1>3, <1>4, ConcatAt
      <3> QED
        BY Zenon, <1>3, <1>4, <1>5, <3>1 DEF IsConcat
    <2>2. ASSUME NEW i \in 1 .. n PROVE (c \o q)[i] = i
      <3>1. CASE i <= Len(b)
        <4>1. i \in 1 .. Len(b) /\ (i + 1) - 1 = i
          BY <1>5, <3>1
        <4> QED
          BY Zenon, <1>3, <1>8, <2>1, <3>1, <4>1
      <3>2. CASE ~(i <= Len(b))
        <4>1. i - Len(b) \in 1 .. Len(p)
          BY <1>5, <3>2
        <4>2. p[i - Len(b)] = Len(b) + (i - Len(b)) + 1 /\ q[i - Len(b)] = p[i - Len(b)] - 1
          BY Zenon, <1>4, <1>8, <4>1
        <4>3. Len(b) + (i - Len(b)) + 1 - 1 = i
          BY <1>5
        <4>4. (c \o q)[i] = q[i - Len(b)]
          BY Zenon, <2>1, <3>2
        <4> QED
          BY <4>2, <4>3, <4>4
      <3> QED
        BY Zenon, <3>1, <3>2
    <2> QED
      BY Zenon, <2>1, <2>2, CountingUp
  <1> QED
    BY Zenon, <1>1, <1>2, <1>3, <1>4, <1>5, <1>9 DEF Ordered

\* Replies, the request in hand and requests in line, as a request is written, as
\* it is read and answered, and as its reply is written.
SentTurn(r, m, i, x)  == (r \o m) \o Append(i, x) = Append((r \o m) \o i, x)
ReadTurn(r, m, i)     == (r \o Append(m, Head(i))) \o Tail(i) = (r \o m) \o i
WroteTurn(r, m, i, x) == (Append(r, x) \o m) \o i = (r \o (<<x>> \o m)) \o i

\* None of the three changes the order.
LEMMA RepliesOrdered ==
  ASSUME NEW A, NEW r \in Seq(A), NEW m \in Seq(A), NEW i \in Seq(A), NEW x \in A
  PROVE  /\ SentTurn(r, m, i, x)
         /\ i # <<>> => ReadTurn(r, m, i)
         /\ WroteTurn(r, m, i, x)
  <1>1. (r \o m) \o Append(i, x) = Append((r \o m) \o i, x)
    OBVIOUS
  <1>2. ASSUME i # <<>> PROVE (r \o Append(m, Head(i))) \o Tail(i) = (r \o m) \o i
    <2>1. PICK y \in A : y = Head(i)
      BY <1>2
    <2>2. Tail(i) \in Seq(A) /\ i = <<y>> \o Tail(i)
      BY <1>2, <2>1
    <2>3. PICK j \in Seq(A) : j = Tail(i)
      BY Zenon, <2>2
    <2>4. Turn(r, m, y, j)
      BY Zenon, ConcatTurn
    <2> QED
      BY Zenon, <2>1, <2>2, <2>3, <2>4 DEF Turn
  <1>3. Append(r, x) \o m = r \o (<<x>> \o m)
    OBVIOUS
  <1> QED
    BY Zenon, <1>1, <1>2, <1>3 DEF SentTurn, ReadTurn, WroteTurn

\* The types of the relay's half.
LinkTyped ==
    /\ inbound \in Seq(Request)
    /\ sent \in Seq(Call \cup {0})
    /\ out \in Seq(Frame)
    /\ pushes \in Seq(Int)
    /\ replied \in Seq(Call \cup {0})

\* The two orders of FramesInOrder.
RepliesInLine == (replied \o Relay!NumbersOf(out, "reply")) \o Relay!Numbers(inbound) = sent
PushesInLine  == Ordered(Relay!NumbersOf(out, "push"), pushes)

\* FramesInOrder with what it rests on.
FramesInv ==
    /\ LinkTyped
    /\ peer = "open" /\ handler = "reading" => RepliesInLine
    /\ peer = "open" /\ forward = "running" => PushesInLine

\* The pushes not yet written, counted by their numbers.
LEMMA InFlightCount ==
  ASSUME NEW s \in Seq(Frame), NEW p \in Seq(Int)
  PROVE  Len(p) + Len(Relay!FramesOf(s, "push")) = Len(p) + Len(Relay!NumbersOf(s, "push"))
  BY Zenon, NumbersAreMapped

\* The invariant gives the property.
LEMMA FramesInvGives == FramesInv => FramesInOrder
  <1> SUFFICES ASSUME FramesInv, peer = "open"
               PROVE  /\ handler = "reading" => RepliesInLine
                      /\ forward = "running" =>
                           Relay!NumbersOf(out, "push") \o pushes = [i \in 1 .. Relay!InFlight |-> i]
    BY Zenon DEF FramesInOrder, RepliesInLine
  <1>1. Relay!InFlight = Len(pushes) + Len(Relay!NumbersOf(out, "push"))
    BY Zenon, InFlightCount DEF FramesInv, LinkTyped, Relay!InFlight
  <1> QED
    BY Zenon, <1>1 DEF FramesInv, PushesInLine, Ordered

\* A new connection.
LEMMA FramesInvInit == LinkInit => FramesInv
  <1> SUFFICES ASSUME LinkInit PROVE FramesInv
    BY Zenon
  <1>1. inbound = <<>> /\ sent = <<>> /\ out = <<>> /\ pushes = <<>> /\ replied = <<>>
    BY Zenon DEF LinkInit, Relay!ConnectionInit
  <1>2. LinkTyped
    BY <1>1 DEF LinkTyped
  <1>3. <<>> \in Seq(Frame) /\ Relay!Numbers(<<>>) = <<>> /\ <<>> \o <<>> = <<>>
    BY DEF Relay!Numbers
  <1>4. \A op : Relay!NumbersOf(<<>>, op) = <<>>
    <2>1. Filter(<<>>, Kind("push")) = <<>> /\ \A op : Filter(<<>>, Kind(op)) = <<>>
      BY Zenon, FilterBasics
    <2>2. Mapped(NumberIn, <<>>) = <<>>
      BY DEF Mapped
    <2> QED
      BY Zenon, <1>3, <2>1, <2>2, NumbersAreMapped
  <1>5. Ordered(<<>>, <<>>)
    BY DEF Ordered
  <1> QED
    BY Zenon, <1>1, <1>2, <1>3, <1>4, <1>5 DEF FramesInv, RepliesInLine, PushesInLine

\* A request arrives.
LEMMA RequestArrives ==
  ASSUME FramesInv, NEW op \in {"subscribe", "other", "garbled"}, NEW x \in Call,
         Relay!ClientSends(op, x)
  PROVE  FramesInv'
  <1>1. PICK r : r = [op |-> op, n |-> x]
    BY Zenon
  <1>2. r \in Request /\ r.n = x
    BY <1>1 DEF Request
  <1>3. /\ inbound' = Append(inbound, r) /\ sent' = Append(sent, x)
        /\ out' = out /\ pushes' = pushes /\ replied' = replied
        /\ peer' = peer /\ handler' = handler /\ forward' = forward
    BY Zenon, <1>1 DEF Relay!ClientSends
  <1>4. LinkTyped'
    BY <1>2, <1>3 DEF FramesInv, LinkTyped
  <1>5. RepliesInLine => RepliesInLine'
    <2>1. /\ Relay!Numbers(inbound) \in Seq(Call \cup {0})
          /\ Relay!Numbers(inbound') = Append(Relay!Numbers(inbound), x)
      BY Zenon, <1>2, <1>3, RequestNumbers DEF FramesInv, LinkTyped
    <2>2. PICK m \in Seq(Call \cup {0}) : m = Relay!NumbersOf(out, "reply")
      BY Zenon, NumbersTyped DEF FramesInv, LinkTyped
    <2>3. PICK i \in Seq(Call \cup {0}) : i = Relay!Numbers(inbound)
      BY Zenon, <2>1
    <2>4. x \in Call \cup {0} /\ replied \in Seq(Call \cup {0})
      BY Zenon DEF FramesInv, LinkTyped
    <2>5. SentTurn(replied, m, i, x)
      BY Zenon, <2>4, RepliesOrdered
    <2> QED
      BY Zenon, <1>3, <2>1, <2>2, <2>3, <2>5 DEF RepliesInLine, SentTurn
  <1> QED
    BY Zenon, <1>3, <1>4, <1>5 DEF FramesInv, PushesInLine

\* The client's end goes away.
LEMMA ClientGoes ==
  ASSUME FramesInv, NEW clean \in BOOLEAN, Relay!ClientCloses(clean)
  PROVE  FramesInv'
  <1>1. PICK r : r = [op |-> "garbled", n |-> 0]
    BY Zenon
  <1>2. r \in Request
    BY <1>1 DEF Request
  <1>3. /\ inbound' = inbound \/ inbound' = Append(inbound, r)
        /\ sent' = <<>> /\ out' = out /\ pushes' = pushes /\ replied' = <<>>
        /\ peer' = "closed"
    BY Zenon, <1>1 DEF Relay!ClientCloses
  <1>4. LinkTyped'
    <2>1. <<>> \in Seq(Call \cup {0})
      OBVIOUS
    <2> QED
      BY Zenon, <1>2, <1>3, <2>1, AppendExtends DEF FramesInv, LinkTyped
  <1>5. peer' # "open"
    BY <1>3
  <1> QED
    BY Zenon, <1>4, <1>5 DEF FramesInv

\* push_and_notify queues a push, or drops the sender.
LEMMA PushQueued ==
  ASSUME FramesInv, Relay!RelayPushes
  PROVE  FramesInv'
  <1>1. /\ UNCHANGED <<inbound, sent, out, replied, peer, handler, forward>>
        /\ \/ pushes' = Append(pushes, Relay!InFlight + 1)
           \/ pushes' = pushes /\ forward # "running"
    BY Zenon DEF Relay!RelayPushes, Relay!clientVars
  <1>2. PICK a \in Seq(Int) : a = Relay!NumbersOf(out, "push")
    BY Zenon, NumbersTyped DEF FramesInv, LinkTyped
  <1>3. Relay!InFlight + 1 = Len(pushes) + Len(a) + 1
    BY Zenon, <1>2, InFlightCount DEF FramesInv, LinkTyped, Relay!InFlight
  <1>4. pushes \in Seq(Int) /\ Len(pushes) + Len(a) + 1 \in Int
    BY DEF FramesInv, LinkTyped
  <1>5. LinkTyped'
    BY Zenon, <1>1, <1>3, <1>4, AppendExtends DEF FramesInv, LinkTyped
  <1>6. Ordered(a, pushes) => Ordered(a, Append(pushes, Len(pushes) + Len(a) + 1))
    BY Zenon, <1>4, OrderedQueued
  <1> QED
    BY Zenon, <1>1, <1>2, <1>3, <1>5, <1>6 DEF FramesInv, RepliesInLine, PushesInLine

\* The handler reads a request and queues its reply.
LEMMA FrameHandled ==
  ASSUME FramesInv, Relay!HandleFrame
  PROVE  FramesInv'
  <1>1. /\ UNCHANGED <<sent, pushes, replied, peer, forward>>
        /\ inbound # <<>> /\ inbound' = Tail(inbound)
        /\ \/ /\ out' = Append(out, [op |-> "reply", n |-> Head(inbound).n])
              /\ handler' = handler
           \/ handler' = "draining" /\ out' = out
    BY Zenon DEF Relay!HandleFrame, Relay!Reply
  <1>2. PICK f : f = [op |-> "reply", n |-> Head(inbound).n]
    BY Zenon
  <1>3. Head(inbound) \in Request /\ Tail(inbound) \in Seq(Request)
    BY <1>1 DEF FramesInv, LinkTyped
  <1>4. f \in Frame /\ f.op = "reply" /\ f.n = Head(inbound).n /\ f.n \in Call \cup {0}
    BY <1>2, <1>3 DEF Frame, Request
  <1>5. LinkTyped'
    BY Zenon, <1>1, <1>2, <1>3, <1>4, AppendExtends DEF FramesInv, LinkTyped
  <1>6. CASE handler' = "draining" /\ out' = out
    <2>1. handler' # "reading"
      BY <1>6
    <2> QED
      BY Zenon, <1>1, <1>5, <1>6, <2>1 DEF FramesInv, PushesInLine
  <1>7. CASE out' = Append(out, f) /\ handler' = handler
    <2>1. /\ Relay!NumbersOf(out', "reply") = Append(Relay!NumbersOf(out, "reply"), f.n)
          /\ Relay!NumbersOf(out', "push") = Relay!NumbersOf(out, "push")
      <3>1. "reply" # "push"
        OBVIOUS
      <3>2. Relay!NumbersOf(out', "push") = Relay!NumbersOf(out, "push")
        BY Zenon, <1>4, <1>7, <3>1, NumbersAppend DEF FramesInv, LinkTyped
      <3> QED
        BY Zenon, <1>4, <1>7, <3>2, NumbersAppend DEF FramesInv, LinkTyped
    <2>2. PICK i \in Seq(Call \cup {0}) : i = Relay!Numbers(inbound)
      BY Zenon, <1>3, RequestNumbers DEF FramesInv, LinkTyped
    <2>3. i # <<>> /\ Relay!Numbers(inbound') = Tail(i) /\ f.n = Head(i)
      BY Zenon, <1>1, <1>3, <1>4, <2>2, RequestNumbers DEF FramesInv, LinkTyped
    <2>4. PICK m \in Seq(Call \cup {0}) : m = Relay!NumbersOf(out, "reply")
      BY Zenon, NumbersTyped DEF FramesInv, LinkTyped
    <2>5. ReadTurn(replied, m, i)
      <3>1. replied \in Seq(Call \cup {0})
        BY Zenon DEF FramesInv, LinkTyped
      <3> QED
        BY Zenon, <1>4, <2>3, <3>1, RepliesOrdered
    <2>6. RepliesInLine => RepliesInLine'
      BY Zenon, <1>1, <1>7, <2>1, <2>2, <2>3, <2>4, <2>5 DEF RepliesInLine, ReadTurn
    <2> QED
      BY Zenon, <1>1, <1>5, <1>7, <2>1, <2>6 DEF FramesInv, PushesInLine
  <1> QED
    BY Zenon, <1>1, <1>2, <1>6, <1>7

\* The handler stops, on a frame or at the end of the stream.
LEMMA HandlerStops ==
  ASSUME FramesInv,
         Relay!HandlerPanics \/ Relay!ReadFails \/ Relay!ReadCloses \/ Relay!HandlerReturns
  PROVE  FramesInv'
  <1>1. CASE Relay!HandlerPanics \/ Relay!ReadFails
    <2>1. /\ UNCHANGED <<sent, out, pushes, replied, peer, forward>>
          /\ inbound # <<>> /\ inbound' = Tail(inbound)
          /\ handler' = "panicked" \/ handler' = "failed"
      BY Zenon, <1>1 DEF Relay!HandlerPanics, Relay!ReadFails
    <2>2. handler' # "reading"
      BY <2>1
    <2>3. Tail(inbound) \in Seq(Request)
      BY <2>1 DEF FramesInv, LinkTyped
    <2> QED
      BY Zenon, <2>1, <2>2, <2>3 DEF FramesInv, LinkTyped, PushesInLine
  <1>2. CASE Relay!ReadCloses
    <2>1. /\ UNCHANGED <<inbound, sent, out, pushes, replied, peer, forward>>
          /\ handler' = "draining"
      BY Zenon, <1>2 DEF Relay!ReadCloses, Relay!clientVars
    <2>2. handler' # "reading"
      BY <2>1
    <2> QED
      BY Zenon, <2>1, <2>2 DEF FramesInv, LinkTyped, PushesInLine
  <1>3. CASE Relay!HandlerReturns
    <2>1. /\ UNCHANGED <<inbound, sent, out, replied, peer>>
          /\ handler' = "done" /\ forward' = "done" /\ pushes' = <<>>
      BY Zenon, <1>3 DEF Relay!HandlerReturns, Relay!clientVars
    <2>2. handler' # "reading" /\ forward' # "running" /\ pushes' \in Seq(Int)
      BY <2>1
    <2> QED
      BY Zenon, <2>1, <2>2 DEF FramesInv, LinkTyped
  <1> QED
    BY Zenon, <1>1, <1>2, <1>3

\* The forward task passes a push on, or ends.
LEMMA PushForwarded ==
  ASSUME FramesInv, Relay!Forward
  PROVE  FramesInv'
  <1>1. CASE forward' = "done"
    <2>1. /\ UNCHANGED <<inbound, sent, out, replied, peer, handler>>
          /\ pushes' = pushes \/ pushes' = <<>>
      <3>1. CASE Relay!ForwardEnds
        BY Zenon, <3>1 DEF Relay!ForwardEnds, Relay!clientVars
      <3>2. CASE Relay!ForwardPush
        <4>1. forward = "running" /\ "running" # "done"
          BY <3>2 DEF Relay!ForwardPush
        <4> QED
          BY Zenon, <1>1, <3>2, <4>1 DEF Relay!ForwardPush, Relay!clientVars
      <3> QED
        BY Zenon, <3>1, <3>2 DEF Relay!Forward
    <2>2. forward' # "running" /\ <<>> \in Seq(Int)
      BY <1>1
    <2> QED
      BY Zenon, <2>1, <2>2 DEF FramesInv, LinkTyped, RepliesInLine
  <1>2. CASE forward' = forward
    <2>1. /\ UNCHANGED <<inbound, sent, replied, peer, handler>>
          /\ pushes # <<>>
          /\ out' = Append(out, [op |-> "push", n |-> Head(pushes)])
          /\ pushes' = Tail(pushes)
      <3>1. "running" # "done"
        OBVIOUS
      <3> QED
        BY Zenon, <1>2, <3>1 DEF Relay!Forward, Relay!ForwardPush, Relay!ForwardEnds,
                                 Relay!clientVars
    <2>2. PICK f : f = [op |-> "push", n |-> Head(pushes)]
      BY Zenon
    <2>3. Head(pushes) \in Int /\ Tail(pushes) \in Seq(Int)
      BY <2>1 DEF FramesInv, LinkTyped
    <2>4. f \in Frame /\ f.op = "push" /\ f.n = Head(pushes)
      BY <2>2, <2>3 DEF Frame
    <2>5. LinkTyped'
      BY Zenon, <2>1, <2>2, <2>3, <2>4, AppendExtends DEF FramesInv, LinkTyped
    <2>6. Relay!NumbersOf(out', "reply") = Relay!NumbersOf(out, "reply")
      <3>1. "reply" # "push"
        OBVIOUS
      <3> QED
        BY Zenon, <2>1, <2>2, <2>4, <3>1, NumbersAppend DEF FramesInv, LinkTyped
    <2>7. Relay!NumbersOf(out', "push") = Append(Relay!NumbersOf(out, "push"), Head(pushes))
      BY Zenon, <2>1, <2>2, <2>4, NumbersAppend DEF FramesInv, LinkTyped
    <2>8. PushesInLine => PushesInLine'
      BY Zenon, <2>1, <2>7, OrderedForwarded, NumbersTyped
         DEF PushesInLine, FramesInv, LinkTyped
    <2> QED
      BY Zenon, <1>2, <2>1, <2>5, <2>6, <2>8 DEF FramesInv, RepliesInLine
  <1> QED
    BY Zenon, <1>1, <1>2 DEF Relay!Forward, Relay!ForwardPush, Relay!ForwardEnds

\* The relay's writer writes a reply.
LEMMA ReplyIsWritten ==
  ASSUME FramesInv, Relay!WriteFrame, Head(out).op # "push"
  PROVE  FramesInv'
  <1>1. PICK f : f = Head(out)
    BY Zenon
  <1>2. /\ UNCHANGED <<inbound, sent, handler, forward, pushes>>
        /\ out # <<>> /\ out' = Tail(out)
        /\ peer' = IF peer = "open" THEN "open" ELSE "reset"
        /\ replied' = IF peer = "open" /\ f.op = "reply" THEN Append(replied, f.n) ELSE replied
    BY Zenon, <1>1 DEF Relay!WriteFrame
  <1>3. f \in Frame /\ Tail(out) \in Seq(Frame)
    BY <1>1, <1>2 DEF FramesInv, LinkTyped
  <1>4. f.op = "reply" /\ f.n \in Call \cup {0}
    BY <1>1, <1>3 DEF Frame
  <1>5. LinkTyped'
    BY Zenon, <1>2, <1>3, <1>4, AppendExtends DEF FramesInv, LinkTyped
  <1>6. CASE peer # "open"
    <2>1. peer' # "open"
      BY <1>2, <1>6
    <2> QED
      BY Zenon, <1>5, <2>1 DEF FramesInv
  <1>7. CASE peer = "open"
    <2>1. peer' = peer /\ replied' = Append(replied, f.n)
      BY Zenon, <1>2, <1>4, <1>7
    <2>2. "reply" # "push"
      OBVIOUS
    <2>3. PICK m \in Seq(Call \cup {0}) : m = Relay!NumbersOf(out', "reply")
      BY Zenon, <1>5, NumbersTyped DEF LinkTyped
    <2>4. Relay!NumbersOf(out, "reply") = <<f.n>> \o m
      BY Zenon, <1>1, <1>2, <1>4, <2>3, NumbersFirst DEF FramesInv, LinkTyped
    <2>5. Relay!NumbersOf(out, "push") = Relay!NumbersOf(out', "push")
      <3>1. PICK a \in Seq(Int) : a = Relay!NumbersOf(out', "push")
        BY Zenon, <1>5, NumbersTyped DEF LinkTyped
      <3>2. <<>> \o a = a
        OBVIOUS
      <3>3. Relay!NumbersOf(out, "push") = <<>> \o a
        BY Zenon, <1>1, <1>2, <1>4, <2>2, <3>1, NumbersFirst DEF FramesInv, LinkTyped
      <3> QED
        BY Zenon, <3>1, <3>2, <3>3
    <2>6. PICK i \in Seq(Call \cup {0}) : i = Relay!Numbers(inbound)
      <3>1. [op |-> "garbled", n |-> 0] \in Request
        BY DEF Request
      <3> QED
        BY Zenon, <3>1, RequestNumbers DEF FramesInv, LinkTyped
    <2>7. WroteTurn(replied, m, i, f.n)
      <3>1. replied \in Seq(Call \cup {0})
        BY Zenon DEF FramesInv, LinkTyped
      <3> QED
        BY Zenon, <1>4, <3>1, RepliesOrdered
    <2>8. RepliesInLine => RepliesInLine'
      BY Zenon, <1>2, <2>1, <2>3, <2>4, <2>6, <2>7 DEF RepliesInLine, WroteTurn
    <2> QED
      BY Zenon, <1>2, <1>5, <2>1, <2>5, <2>8 DEF FramesInv, PushesInLine
  <1> QED
    BY Zenon, <1>6, <1>7

\* The relay's writer writes a push.
LEMMA PushIsWritten ==
  ASSUME FramesInv, Relay!WriteFrame, Head(out).op = "push"
  PROVE  FramesInv'
  <1>1. PICK f : f = Head(out)
    BY Zenon
  <1>2. /\ UNCHANGED <<inbound, sent, handler, forward>>
        /\ out # <<>>
        /\ out' = [i \in 1 .. Len(out) - 1 |-> Relay!MovedUp(out[i + 1])]
        /\ pushes' = [i \in 1 .. Len(pushes) |-> pushes[i] - 1]
        /\ peer' = IF peer = "open" THEN "open" ELSE "reset"
        /\ replied' = IF peer = "open" /\ f.op = "reply" THEN Append(replied, f.n) ELSE replied
    BY Zenon, <1>1 DEF Relay!WriteFrame
  <1>3. f \in Frame /\ Tail(out) \in Seq(Frame)
    BY <1>1, <1>2 DEF FramesInv, LinkTyped
  <1>4. f.op = "push" /\ f.n \in Int /\ "reply" # "push"
    BY <1>1, <1>3 DEF Frame
  <1>5. PICK s \in Seq(Frame) : s = Tail(out)
    BY Zenon, <1>3
  <1>6. out' = [i \in 1 .. Len(s) |-> Relay!MovedUp(s[i])]
    <2>1. Len(s) = Len(out) - 1 /\ \A i \in 1 .. Len(s) : s[i] = out[i + 1]
      BY <1>2, <1>5 DEF FramesInv, LinkTyped
    <2> QED
      BY Zenon, <1>2, <2>1
  <1>7. PICK b \in Seq(Int) : b = Relay!NumbersOf(s, "push")
    BY Zenon, NumbersTyped
  <1>8. /\ out' \in Seq(Frame)
        /\ Relay!NumbersOf(out', "reply") = Relay!NumbersOf(s, "reply")
        /\ Relay!NumbersOf(out', "push") = [i \in 1 .. Len(b) |-> b[i] - 1]
    BY Zenon, <1>6, <1>7, NumbersMovedUp
  <1>9. replied' = replied
    BY Zenon, <1>2, <1>4
  <1>10. pushes \in Seq(Int) /\ [i \in 1 .. Len(pushes) |-> pushes[i] - 1] \in Seq(Int)
    BY DEF FramesInv, LinkTyped
  <1>11. LinkTyped'
    BY Zenon, <1>2, <1>8, <1>9, <1>10 DEF FramesInv, LinkTyped
  <1>12. CASE peer # "open"
    <2>1. peer' # "open"
      BY <1>2, <1>12
    <2> QED
      BY Zenon, <1>11, <2>1 DEF FramesInv
  <1>13. CASE peer = "open"
    <2>1. peer' = peer
      BY Zenon, <1>2, <1>13
    <2>2. Relay!NumbersOf(out, "reply") = Relay!NumbersOf(s, "reply")
      <3>1. PICK m \in Seq(Call \cup {0}) : m = Relay!NumbersOf(s, "reply")
        BY Zenon, NumbersTyped
      <3>2. <<>> \o m = m
        OBVIOUS
      <3>3. Relay!NumbersOf(out, "reply") = <<>> \o m
        BY Zenon, <1>1, <1>2, <1>4, <1>5, <3>1, NumbersFirst DEF FramesInv, LinkTyped
      <3> QED
        BY Zenon, <3>1, <3>2, <3>3
    <2>3. Relay!NumbersOf(out, "push") = <<f.n>> \o b
      BY Zenon, <1>1, <1>2, <1>4, <1>5, <1>7, NumbersFirst DEF FramesInv, LinkTyped
    <2>4. PushesInLine => PushesInLine'
      BY Zenon, <1>2, <1>4, <1>8, <1>10, <2>3, OrderedWritten DEF PushesInLine
    <2> QED
      BY Zenon, <1>2, <1>8, <1>9, <1>11, <2>1, <2>2, <2>4 DEF FramesInv, RepliesInLine
  <1> QED
    BY Zenon, <1>12, <1>13

\* The writer gives up, or has nothing left to write.
LEMMA WriterStops ==
  ASSUME FramesInv, Relay!WriteFails \/ Relay!WriterEnds
  PROVE  FramesInv'
  <1>1. /\ UNCHANGED <<inbound, sent, pushes, replied, peer, handler, forward>>
        /\ out' = out \/ (out' = <<>> /\ peer # "open")
    BY Zenon DEF Relay!WriteFails, Relay!WriterEnds, Relay!clientVars
  <1>2. <<>> \in Seq(Frame)
    OBVIOUS
  <1> QED
    BY Zenon, <1>1, <1>2 DEF FramesInv, LinkTyped, RepliesInLine, PushesInLine

\* A step of either half, of both, or of the connection keeps the frames in order.
LEMMA FramesInvNext == ClientInv /\ FramesInv /\ [LinkNext]_linkVars => FramesInv'
  <1> SUFFICES ASSUME ClientInv, FramesInv, [LinkNext]_linkVars PROVE FramesInv'
    BY Zenon
  <1>1. ASSUME UNCHANGED relayVars PROVE FramesInv'
    BY Zenon, <1>1 DEF relayVars, FramesInv, LinkTyped, RepliesInLine, PushesInLine
  <1>2. CASE \E k \in Call : CallMoves(k) \/ CallCancelled(k)
    BY Zenon, <1>1, <1>2 DEF CallMoves, CallCancelled
  <1>3. CASE ClientWriter
    <2>1. ASSUME WriterWrites PROVE Head(outbox) \in Call
      <3>1. outbox \in Seq(Call) /\ outbox # <<>>
        BY Zenon, <2>1 DEF WriterWrites, ClientInv, TypeOK
      <3> QED
        BY <3>1
    <2> QED
      BY Zenon, <1>1, <1>3, <2>1, RequestArrives DEF ClientWriter, RequestWritten
  <1>4. CASE ClientReader
    BY Zenon, <1>1, <1>4 DEF ClientReader
  <1>5. CASE RelayHandler
    BY Zenon, <1>5, FrameHandled, HandlerStops DEF RelayHandler, Relay!Handler
  <1>6. CASE RelayForward
    BY Zenon, <1>6, PushForwarded DEF RelayForward
  <1>7. CASE RelayWriter
    <2>1. "reply" # "push"
      OBVIOUS
    <2> QED
      BY Zenon, <1>7, <2>1, ReplyIsWritten, PushIsWritten, WriterStops
         DEF RelayWriter, ReplyWritten, PushWritten
  <1>8. CASE RelayDropsStream \/ ConnectionLost
    BY Zenon, <1>8, ClientGoes DEF RelayDropsStream, ConnectionLost
  <1>9. CASE RelayPushes
    BY Zenon, <1>9, PushQueued DEF RelayPushes
  <1>10. CASE RestOfRelay
    BY Zenon, <1>10 DEF RestOfRelay, Relay!OtherSubscribes, Relay!Poison, Relay!clientVars,
                        FramesInv, LinkTyped, RepliesInLine, PushesInLine
  <1>11. CASE UNCHANGED linkVars
    BY Zenon, <1>1, <1>11 DEF linkVars
  <1> QED
    BY Zenon, <1>2, <1>3, <1>4, <1>5, <1>6, <1>7, <1>8, <1>9, <1>10, <1>11 DEF LinkNext

\* On a connection that is up, replies come in the order of the requests and
\* pushes in the order the relay made them, none lost and none twice, however
\* the six tasks of the two ends interleave: for any number of calls and pushes.
THEOREM FramesArriveInOrder == LinkSpec => []FramesInOrder
  <1>1. LinkInit => Init
    BY Zenon DEF LinkInit
  <1> QED
    BY <1>1, LinkStep, ClientInvInit, ClientInvNext, FramesInvInit, FramesInvNext,
       FramesInvGives, PTL DEF LinkSpec

=============================================================================
