---------------------------- MODULE ChatEngine ----------------------------
(***************************************************************************)
(* The clients of one conversation (engine/src/chat_engine.rs), each with  *)
(* its MLS session (core/src/session.rs), its encrypted store              *)
(* (core/src/storage.rs) and its connection to the relay, from the moment  *)
(* they are paired.  The relay is what RelayQueues implements: it stores   *)
(* an envelope for every member and pushes it to those connected, accepts  *)
(* one commit per epoch, and forgets an envelope when its owner acks it.   *)
(* An accepted envelope is stored for all members in one transaction, so   *)
(* one log gives every mailbox its order: a mailbox, and the pushes of a   *)
(* connection, are sets of positions in it, read from the lowest.          *)
(*                                                                         *)
(* An engine is one object with &mut self methods, so a client does one    *)
(* thing at a time; it is interrupted only where it awaits.  A call is a   *)
(* request on the connection, the relay's step, and the reply, and the     *)
(* connection may die before, between and after them.                      *)
(***************************************************************************)
EXTENDS Integers, Sequences, FiniteSets

CONSTANTS
    Client,        \* the members of the group
    FaultKinds,    \* which of "drop", "reject", "giveup", "crash" may happen
    MaxFaults,     \* bound: how many faults happen
    MaxApps,       \* bound: calls of send_message
    MaxCommits     \* bound: calls of commit_self_update

ASSUME EngineAssumption ==
    /\ IsFiniteSet(Client)
    /\ FaultKinds \subseteq {"drop", "reject", "giveup", "crash"}
    /\ MaxFaults \in Nat /\ MaxApps \in Nat /\ MaxCommits \in Nat

VARIABLES
    relayEpoch,    \* the group inbox's epoch
    log,           \* the envelopes the relay accepted, in order
    mailbox,       \* the relay's unacked backlog per client, as positions
    link,          \* the client's connection: "up", "down"
    requests,      \* requests on the connection the relay has not handled
    reply,         \* the reply to the send in progress, "none" if not there yet
    pushes,        \* RelayClient.push_rx and what is on the wire towards it,
                   \* as positions
    pc,            \* what the client is doing, see PC
    current,       \* the envelope of the send in progress
    epoch,         \* the MLS session's epoch
    staged,        \* the session holds a pending commit
    seen,          \* ChatEngine.seen
    events,        \* ChatEngine.pending_events: the messages among them
    store,         \* what resume would read: [epoch, staged, seen]
    shown,         \* history: messages next_event returned
    merged,        \* history: the commits each client merged, with the epoch
    nextId, apps, commits, faults   \* counters of the bounds

relayVars   == <<relayEpoch, log, mailbox>>
connVars    == <<link, requests, reply, pushes>>
sessionVars == <<epoch, staged, merged>>
boundVars   == <<nextId, apps, commits, faults>>
vars == <<relayVars, connVars, pc, current, sessionVars, seen, events, store,
          shown, boundVars>>

\* "rebuild": the winning commit was merged, the own one is to be built again;
\* "failed": an engine call returned an error that ends the caller's loop;
\* "down": the process is gone.
PC == {"idle", "sending", "committing", "conflicted", "rebuild", "failed", "down"}

MaxEpoch == MaxCommits + 1

Epochs == 1 .. MaxEpoch

Env == [id : Nat, from : Client, commit : BOOLEAN, epoch : Nat]

NoEnv(c) == [id |-> 0, from |-> c, commit |-> FALSE, epoch |-> 0]

Positions == 1 .. Len(log)

Fault(kind) ==
    /\ kind \in FaultKinds
    /\ faults < MaxFaults
    /\ faults' = faults + 1

Init ==
    /\ relayEpoch = 1
    /\ log = <<>>
    /\ mailbox = [c \in Client |-> {}]
    /\ link = [c \in Client |-> "up"]
    /\ requests = [c \in Client |-> <<>>]
    /\ reply = [c \in Client |-> "none"]
    /\ pushes = [c \in Client |-> {}]
    /\ pc = [c \in Client |-> "idle"]
    /\ current = [c \in Client |-> NoEnv(c)]
    /\ epoch = [c \in Client |-> 1]
    /\ staged = [c \in Client |-> FALSE]
    /\ seen = [c \in Client |-> {}]
    /\ events = [c \in Client |-> <<>>]
    /\ store = [c \in Client |-> [epoch |-> 1, staged |-> FALSE, seen |-> {}]]
    /\ shown = [c \in Client |-> <<>>]
    /\ merged = [c \in Client |-> {}]
    /\ nextId = 1 /\ apps = 0 /\ commits = 0 /\ faults = 0

-----------------------------------------------------------------------------
(* The relay, as the clients see it *)

\* Mutant of Accepts: a commit for an epoch already left is accepted.
AcceptsStale(env) == env.commit => env.epoch <= relayEpoch

\* The Delivery Service rule.
Accepts(env) == env.commit => env.epoch = relayEpoch

\* The members connected.
Online == {d \in Client : link[d] = "up"}

\* The next position, added for the members of a set.
Placed(rows, members) ==
    [d \in Client |-> IF d \in members THEN rows[d] \cup {Len(log) + 1} ELSE rows[d]]

\* Mutant of FanOut: nothing is stored for a member that is not connected.
FanOutToOnline(env) ==
    /\ log' = Append(log, env)
    /\ mailbox' = Placed(mailbox, Online)
    /\ pushes' = Placed(pushes, Online)

\* An accepted envelope is stored for every member and pushed to those connected.
FanOut(env) ==
    /\ log' = Append(log, env)
    /\ mailbox' = Placed(mailbox, Client)
    /\ pushes' = Placed(pushes, Online)

\* The relay handles the oldest request of a connection.
RelayHandles(c) ==
    LET r == Head(requests[c])
    IN  /\ link[c] = "up"
        /\ requests[c] # <<>>
        /\ requests' = [requests EXCEPT ![c] = Tail(@)]
        /\ \/ /\ r.op = "ack"
              /\ mailbox' = [mailbox EXCEPT ![c] = {i \in @ : log[i].id # r.env.id}]
              /\ UNCHANGED <<relayEpoch, log, reply, pushes>>
           \/ /\ r.op = "send"
              /\ Accepts(r.env)
              /\ FanOut(r.env)
              /\ relayEpoch' = IF r.env.commit THEN relayEpoch + 1 ELSE relayEpoch
              /\ reply' = [reply EXCEPT ![c] = "ok"]
           \/ /\ r.op = "send"
              /\ ~Accepts(r.env)
              /\ reply' = [reply EXCEPT ![c] = "conflict"]
              /\ UNCHANGED <<relayVars, pushes>>
    /\ UNCHANGED <<link, pc, current, sessionVars, seen, events, store, shown, boundVars>>

\* A send refused for its rate or for storage.
RelayRejects(c) ==
    /\ link[c] = "up"
    /\ requests[c] # <<>>
    /\ Head(requests[c]).op = "send"
    /\ Fault("reject")
    /\ requests' = [requests EXCEPT ![c] = Tail(@)]
    /\ reply' = [reply EXCEPT ![c] = "rejected"]
    /\ UNCHANGED <<relayVars, link, pushes, pc, current, sessionVars, seen, events,
                   store, shown, nextId, apps, commits>>

\* The connection dies: requests not handled are lost, and so are a reply and
\* pushes that have not reached the client's reader task.
Drop(c) ==
    /\ link[c] = "up"
    /\ Fault("drop")
    /\ link' = [link EXCEPT ![c] = "down"]
    /\ requests' = [requests EXCEPT ![c] = <<>>]
    /\ \E r \in {reply[c], "none"} : reply' = [reply EXCEPT ![c] = r]
    /\ \E last \in pushes[c] \cup {0} :
         pushes' = [pushes EXCEPT ![c] = {i \in @ : i <= last}]
    /\ UNCHANGED <<relayVars, pc, current, sessionVars, seen, events, store, shown,
                   nextId, apps, commits>>

-----------------------------------------------------------------------------
(* The engine *)

\* Mutant of Persist: the seen ids are not written.
PersistSessionOnly(c) ==
    store' = [store EXCEPT ![c] = [epoch |-> epoch'[c], staged |-> staged'[c],
                                   seen |-> @.seen]]

\* persist: session and seen ids in one transaction.
Persist(c) ==
    store' = [store EXCEPT ![c] = [epoch |-> epoch'[c], staged |-> staged'[c],
                                   seen |-> seen'[c]]]

\* A request goes out on a connection that is up; on one that is closed the
\* call fails at once and the caller's loop reconnects.
Call(c, op, env) ==
    requests' = [requests EXCEPT ![c] =
                   IF link[c] = "up" THEN Append(@, [op |-> op, env |-> env]) ELSE @]

\* reconnect: a new RelayClient, its push_rx filled by the subscription with
\* the whole unacked backlog; what the old one had buffered is dropped.
Reconnected(c, first) ==
    /\ link' = [link EXCEPT ![c] = "up"]
    /\ pushes' = [pushes EXCEPT ![c] = mailbox[c]]
    /\ requests' = [requests EXCEPT ![c] = first]
    /\ reply' = [reply EXCEPT ![c] = "none"]

\* send_message up to its request.  The seen entry, which suppresses the own
\* echo, is persisted before the envelope is sent.
SendMessage(c) ==
    LET env == [id |-> nextId, from |-> c, commit |-> FALSE, epoch |-> epoch[c]]
    IN  /\ pc[c] = "idle"
        /\ apps < MaxApps
        /\ apps' = apps + 1
        /\ nextId' = nextId + 1
        /\ seen' = [seen EXCEPT ![c] = @ \cup {env.id}]
        /\ pc' = [pc EXCEPT ![c] = "sending"]
        /\ current' = [current EXCEPT ![c] = env]
        /\ Call(c, "send", env)
        /\ UNCHANGED <<sessionVars, link, reply, pushes, relayVars, events, shown,
                       commits, faults>>
        /\ Persist(c)

\* One turn of commit_self_update's loop up to its request: self_update stages
\* a commit, which is neither seen nor persisted until it has won.
BuildCommit(c) ==
    LET env == [id |-> nextId, from |-> c, commit |-> TRUE, epoch |-> epoch[c]]
    IN  /\ ~staged[c]
        /\ nextId' = nextId + 1
        /\ staged' = [staged EXCEPT ![c] = TRUE]
        /\ pc' = [pc EXCEPT ![c] = "committing"]
        /\ current' = [current EXCEPT ![c] = env]
        /\ Call(c, "send", env)
        /\ UNCHANGED <<epoch, merged, link, reply, pushes, relayVars, seen, events,
                       store, shown, apps, faults>>

CommitSelfUpdate(c) ==
    /\ pc[c] = "idle"
    /\ commits < MaxCommits
    /\ commits' = commits + 1
    /\ BuildCommit(c)

RebuildCommit(c) ==
    /\ pc[c] = "rebuild"
    /\ BuildCommit(c)
    /\ UNCHANGED commits

\* The connection died under the send: reconnect, and send the same envelope
\* again.
Resend(c) ==
    /\ pc[c] \in {"sending", "committing"}
    /\ link[c] = "down"
    /\ reply[c] = "none"
    /\ Reconnected(c, <<[op |-> "send", env |-> current[c]]>>)
    /\ UNCHANGED <<relayVars, pc, current, sessionVars, seen, events, store, shown,
                   boundVars>>

\* send_message returns, Ok or with the relay's rejection.
SendReturns(c) ==
    /\ pc[c] = "sending"
    /\ reply[c] # "none"
    /\ pc' = [pc EXCEPT ![c] = "idle"]
    /\ reply' = [reply EXCEPT ![c] = "none"]
    /\ UNCHANGED <<relayVars, link, requests, pushes, current, sessionVars, seen,
                   events, store, shown, boundVars>>

\* merge_pending_commit, then persist.
MergePending(c) ==
    /\ epoch' = [epoch EXCEPT ![c] = @ + 1]
    /\ staged' = [staged EXCEPT ![c] = FALSE]
    /\ merged' = [merged EXCEPT ![c] = @ \cup {[epoch |-> epoch[c], id |-> current[c].id]}]

CommitAccepted(c) ==
    /\ pc[c] = "committing"
    /\ reply[c] = "ok"
    /\ pc' = [pc EXCEPT ![c] = "idle"]
    /\ reply' = [reply EXCEPT ![c] = "none"]
    /\ seen' = [seen EXCEPT ![c] = @ \cup {current[c].id}]
    /\ MergePending(c)
    /\ Persist(c)
    /\ UNCHANGED <<relayVars, link, requests, pushes, current, events, shown, boundVars>>

\* EpochConflict: the stale commit is discarded, and pushes are pumped until
\* the winner has moved the epoch.
CommitConflicts(c) ==
    /\ pc[c] = "committing"
    /\ reply[c] = "conflict"
    /\ pc' = [pc EXCEPT ![c] = "conflicted"]
    /\ reply' = [reply EXCEPT ![c] = "none"]
    /\ staged' = [staged EXCEPT ![c] = FALSE]
    /\ UNCHANGED <<relayVars, link, requests, pushes, current, epoch, merged, seen,
                   events, store, shown, boundVars>>

\* Any other rejection: the call fails and leaves the commit staged.
CommitRejected(c) ==
    /\ pc[c] = "committing"
    /\ reply[c] = "rejected"
    /\ pc' = [pc EXCEPT ![c] = "idle"]
    /\ reply' = [reply EXCEPT ![c] = "none"]
    /\ UNCHANGED <<relayVars, link, requests, pushes, current, sessionVars, seen,
                   events, store, shown, boundVars>>

\* What process_incoming can decrypt: a message or commit of the session's own
\* epoch (no past epochs are kept) that another member made.  That an envelope
\* cannot be processed twice either is left out here, and shown by AppliedOnce.
CanProcess(c, env) == env.epoch = epoch[c] /\ env.from # c

\* Mutant of Apply: a commit is processed but its staged commit not merged.
ApplyUnmerged(c, env) ==
    /\ events' = IF env.commit THEN events ELSE [events EXCEPT ![c] = Append(@, env.id)]
    /\ UNCHANGED sessionVars

\* Mutant of Apply: the drain of a commit swallows the messages it pumps.
ApplySwallowed(c, env) ==
    IF env.commit
    THEN /\ epoch' = [epoch EXCEPT ![c] = @ + 1]
         /\ staged' = [staged EXCEPT ![c] = FALSE]
         /\ merged' = [merged EXCEPT ![c] = @ \cup {[epoch |-> env.epoch, id |-> env.id]}]
         /\ UNCHANGED events
    ELSE /\ events' = IF pc[c] = "conflicted" THEN events
                      ELSE [events EXCEPT ![c] = Append(@, env.id)]
         /\ UNCHANGED sessionVars

\* process_incoming and the event it produces; a commit is merged at once.
Apply(c, env) ==
    IF env.commit
    THEN /\ epoch' = [epoch EXCEPT ![c] = @ + 1]
         /\ staged' = [staged EXCEPT ![c] = FALSE]
         /\ merged' = [merged EXCEPT ![c] = @ \cup {[epoch |-> env.epoch, id |-> env.id]}]
         /\ UNCHANGED events
    ELSE /\ events' = [events EXCEPT ![c] = Append(@, env.id)]
         /\ UNCHANGED sessionVars

\* Mutant of AfterPump: the drain does not notice that the epoch moved.
AfterPumpDrains(c) == UNCHANGED pc

\* What follows a push: a commit that was waiting for the winner is built again.
AfterPump(c) ==
    pc' = [pc EXCEPT ![c] = IF @ = "conflicted" /\ epoch'[c] # epoch[c]
                            THEN "rebuild" ELSE @]

\* Who calls pump_one: next_event, once no event is buffered any more, and a
\* commit that lost its epoch, whatever is buffered.
Pumping(c) == \/ pc[c] = "idle" /\ events[c] = <<>>
              \/ pc[c] = "conflicted"

\* pump_one on a push:
\* a new envelope is applied, persisted and acked, one that was seen before is
\* acked only, and one the session cannot process fails the call with its id
\* already in the seen set and no ack.  The ack's reply is not waited for: the
\* caller may drop the future there, and what follows does not depend on it.
Pump(c) ==
    \E i \in pushes[c] :
        LET env == log[i]
        IN  /\ Pumping(c)
            /\ \A j \in pushes[c] : i <= j
            /\ pushes' = [pushes EXCEPT ![c] = @ \ {i}]
            /\ \/ /\ env.id \in seen[c]
                  /\ Call(c, "ack", env)
                  /\ UNCHANGED <<pc, seen, sessionVars, events, store>>
               \/ /\ env.id \notin seen[c]
                  /\ CanProcess(c, env)
                  /\ seen' = [seen EXCEPT ![c] = @ \cup {env.id}]
                  /\ Apply(c, env)
                  /\ Persist(c)
                  /\ Call(c, "ack", env)
                  /\ AfterPump(c)
               \/ /\ env.id \notin seen[c]
                  /\ ~CanProcess(c, env)
                  /\ seen' = [seen EXCEPT ![c] = @ \cup {env.id}]
                  /\ pc' = [pc EXCEPT ![c] = "failed"]
                  /\ UNCHANGED <<requests, sessionVars, events, store>>
            /\ UNCHANGED <<relayVars, link, reply, current, shown, boundVars>>

\* pump_one on a closed channel, once what it had buffered is handled.
PumpReconnects(c) ==
    /\ Pumping(c)
    /\ link[c] = "down"
    /\ pushes[c] = {}
    /\ Reconnected(c, <<>>)
    /\ UNCHANGED <<relayVars, pc, current, sessionVars, seen, events, store, shown,
                   boundVars>>

\* Reconnecting fails: 40 attempts, or the new connection died before the
\* subscription.
ReconnectFails(c) ==
    /\ \/ pc[c] \in {"sending", "committing"} /\ reply[c] = "none"
       \/ Pumping(c) /\ pushes[c] = {}
    /\ link[c] = "down"
    /\ Fault("giveup")
    /\ pc' = [pc EXCEPT ![c] = "failed"]
    /\ UNCHANGED <<relayVars, connVars, current, sessionVars, seen, events, store,
                   shown, nextId, apps, commits>>

\* next_event hands the oldest event to the caller.
NextEvent(c) ==
    /\ pc[c] = "idle"
    /\ events[c] # <<>>
    /\ shown' = [shown EXCEPT ![c] = Append(@, Head(events[c]))]
    /\ events' = [events EXCEPT ![c] = Tail(@)]
    /\ UNCHANGED <<relayVars, connVars, pc, current, sessionVars, seen, store, boundVars>>

\* The process dies, with everything but the store.
Crash(c) ==
    /\ pc[c] # "down"
    /\ Fault("crash")
    /\ pc' = [pc EXCEPT ![c] = "down"]
    /\ link' = [link EXCEPT ![c] = "down"]
    /\ requests' = [requests EXCEPT ![c] = <<>>]
    /\ reply' = [reply EXCEPT ![c] = "none"]
    /\ pushes' = [pushes EXCEPT ![c] = {}]
    /\ events' = [events EXCEPT ![c] = <<>>]
    /\ UNCHANGED <<relayVars, current, sessionVars, seen, store, shown, nextId, apps,
                   commits>>

\* Mutant of Restored: the seen set starts empty.
RestoredUnseen(c) ==
    /\ epoch' = [epoch EXCEPT ![c] = store[c].epoch]
    /\ staged' = [staged EXCEPT ![c] = store[c].staged]
    /\ seen' = [seen EXCEPT ![c] = {}]

Restored(c) ==
    /\ epoch' = [epoch EXCEPT ![c] = store[c].epoch]
    /\ staged' = [staged EXCEPT ![c] = store[c].staged]
    /\ seen' = [seen EXCEPT ![c] = store[c].seen]

\* resume: the state of the last persist, and the backlog on a new connection.
Resume(c) ==
    /\ pc[c] = "down"
    /\ pc' = [pc EXCEPT ![c] = "idle"]
    /\ Restored(c)
    /\ Reconnected(c, <<>>)
    /\ UNCHANGED <<relayVars, current, merged, events, store, shown, boundVars>>

-----------------------------------------------------------------------------
\* What a client does on its own once it was called, or when its caller loops
\* on next_event.
Engine(c) ==
    \/ RebuildCommit(c) \/ Resend(c) \/ SendReturns(c)
    \/ CommitAccepted(c) \/ CommitConflicts(c) \/ CommitRejected(c)
    \/ Pump(c) \/ PumpReconnects(c) \/ NextEvent(c) \/ Resume(c)

Next ==
    \E c \in Client :
        \/ SendMessage(c) \/ CommitSelfUpdate(c)
        \/ Engine(c)
        \/ RelayHandles(c)
        \/ RelayRejects(c) \/ Drop(c) \/ ReconnectFails(c) \/ Crash(c)

\* The caller loops on next_event, the runtime polls, the relay serves its
\* connections and a process that died is started again; no one has to send.
Fairness == \A c \in Client : WF_vars(Engine(c)) /\ WF_vars(RelayHandles(c))

Spec == Init /\ [][Next]_vars /\ Fairness

-----------------------------------------------------------------------------
(* Properties *)

\* The commits accepted at an epoch.
Winners(e) == {log[i].id : i \in {j \in Positions : log[j].commit /\ log[j].epoch = e}}

\* All clients stand in one group: what a client merged at an epoch is the one
\* commit the relay accepted for it, through conflicts, resends, crashes and
\* restarts, so two clients at the same epoch hold the same keys.
GroupAgreement ==
    \A c \in Client :
        /\ \A m \in merged[c] : Winners(m.epoch) = {m.id}
        /\ \A e \in 1 .. epoch[c] - 1 : \E m \in merged[c] : m.epoch = e

\* No message is applied twice, although envelopes are resent by senders,
\* redelivered on every subscription, and replayed after a crash: the seen set
\* keeps replays, on which the session would fail, away from it.
AppliedOnce ==
    \A c \in Client :
        LET all == shown[c] \o events[c]
        IN  \A i, j \in 1 .. Len(all) : all[i] = all[j] => i = j

\* An envelope leaves a mailbox only after the client's store knows it: a crash
\* at any point either finds it in the backlog again or finds it seen
\* (pump_one, "Persist before the ack").
AckedIsPersisted ==
    \A c \in Client, i \in Positions : i \in mailbox[c] \/ log[i].id \in store[c].seen

\* A client that waits for the winner of its epoch has that winner in its
\* mailbox, so it cannot wait for something that never comes.
WinnerIsQueued ==
    \A c \in Client : pc[c] = "conflicted" =>
        \E i \in mailbox[c] : log[i].commit /\ log[i].epoch = epoch[c]

\* A message reached the client behind the commit that ended its epoch: it was
\* accepted after that commit, or the commit is the client's own and was merged
\* while the message waited among the pushes.  The session keeps no keys of an
\* epoch it has left, so pump_one fails on the message.
Overtaken(c) ==
    \E i, j \in Positions :
        /\ ~log[i].commit /\ log[i].from # c /\ log[i].id \notin store[c].seen
        /\ log[j].commit /\ log[j].epoch = log[i].epoch
        /\ log[j].from = c \/ (\A k \in 1 .. j : log[k].id # log[i].id)

\* The relay accepted the client's commit and the reply is lost: the resent one
\* conflicts with itself, and the winner waited for is the own echo.
Disowned(c) ==
    \E i \in Positions :
        /\ log[i].commit /\ log[i].from = c
        /\ log[i] = current[c] => reply[c] # "ok"
        /\ \A m \in merged[c] : m.id # log[i].id

\* The two ends of an engine call that no retry mends.
Stuck(c) == Overtaken(c) \/ Disowned(c)

\* Every commit_self_update that was called returns, whoever wins the races and
\* whichever connection drops: the loser discards, processes the winner and
\* rebuilds until its own lands.  Except where its own accepted commit was
\* disowned, or a message was overtaken by a commit.
CommitsReturn ==
    \A c \in Client :
        pc[c] \in {"committing", "conflicted", "rebuild"} ~> pc[c] = "idle" \/ Stuck(c)

\* Every client reaches every epoch the relay reaches.  core/src/session.rs on
\* discard_pending_commit: "what the loser of a concurrent-commit conflict does
\* before processing the winner (amendment A1: "the group must converge")".
Converges ==
    \A c \in Client, e \in Epochs : relayEpoch >= e ~> epoch[c] >= e

\* A client behind the relay catches up with it, over drops, rejections, messages
\* and racing commits together, with the two exceptions that the engine has.
CatchesUp ==
    \A c \in Client : epoch[c] < relayEpoch ~> epoch[c] = relayEpoch \/ Stuck(c)

\* The accepted messages of others that a client has not shown.
Owed(c) ==
    {i \in Positions : /\ ~log[i].commit /\ log[i].from # c
                       /\ \A k \in 1 .. Len(shown[c]) : shown[c][k] # log[i].id}

\* Every message the relay accepted is shown by every other client, one that a
\* commit's drain pumped included: what a dead connection swallowed is in the
\* backlog of the next subscription, and what the drain displaced is buffered.
\* engine/src/chat_engine.rs on commit_self_update: "Application messages
\* displaced by the drain are buffered for `next_event`, never lost."  Except at
\* a client where a commit overtook a message or whose own commit was disowned;
\* a crash, which loses the buffer of messages already acked, is not part of it.
MessagesShown ==
    \A c \in Client : Owed(c) # {} ~> Owed(c) = {} \/ Stuck(c)

-----------------------------------------------------------------------------
(* What the safety properties rest on *)

TypeOK ==
    /\ relayEpoch \in Nat \ {0}
    /\ log \in Seq(Env)
    /\ mailbox \in [Client -> SUBSET Positions]
    /\ link \in [Client -> {"up", "down"}]
    /\ requests \in [Client -> Seq([op : {"send", "ack"}, env : Env])]
    /\ reply \in [Client -> {"none", "ok", "conflict", "rejected"}]
    /\ pushes \in [Client -> SUBSET Positions]
    /\ pc \in [Client -> PC]
    /\ current \in [Client -> Env]
    /\ epoch \in [Client -> Nat \ {0}]
    /\ staged \in [Client -> BOOLEAN]
    /\ seen \in [Client -> SUBSET Nat]
    /\ events \in [Client -> Seq(Nat)]
    /\ store \in [Client -> [epoch : Nat \ {0}, staged : BOOLEAN, seen : SUBSET Nat]]
    /\ shown \in [Client -> Seq(Nat)]
    /\ merged \in [Client -> SUBSET [epoch : Nat, id : Nat]]
    /\ nextId \in Nat \ {0} /\ apps \in Nat /\ commits \in Nat /\ faults \in Nat

\* The relay's epoch counts the commits accepted, one for each epoch behind it.
OneWinnerPerEpoch ==
    /\ \A i \in Positions : log[i].commit => log[i].epoch \in 1 .. relayEpoch - 1
    /\ \A e \in 1 .. relayEpoch - 1 : \E i \in Positions : log[i].commit /\ log[i].epoch = e
    /\ \A i, j \in Positions :
          log[i].commit /\ log[j].commit /\ log[i].epoch = log[j].epoch => i = j

\* An id names one envelope.
IdsName ==
    /\ \A i \in Positions : log[i].id \in 1 .. nextId - 1
    /\ \A i, j \in Positions : log[i].id = log[j].id => log[i] = log[j]

\* What a client sends has an id of its own, and a commit that anybody has seen
\* was accepted.
CurrentIsNamed(c) ==
    /\ current[c].id < nextId
    /\ \A x \in seen[c] : x < nextId
    /\ \A i \in Positions : log[i].id = current[c].id => log[i] = current[c]
    /\ \A d \in Client :
          /\ current[d].id = current[c].id => d = c \/ current[c].id = 0
          /\ current[c].commit /\ current[c].id \in seen[d] =>
                 \E i \in Positions : log[i].id = current[c].id

\* At most one send is on a connection, the one its client waits for; an ack
\* names an envelope that is in the store.
RequestsAreCurrent(c) ==
    /\ \A i \in 1 .. Len(requests[c]) :
          LET r == requests[c][i]
          IN  /\ r.op = "ack" => r.env.id \in store[c].seen
              /\ r.op = "send" =>
                    /\ r.env = current[c]
                    /\ pc[c] \in {"sending", "committing"}
                    /\ reply[c] = "none"
                    /\ \A j \in 1 .. Len(requests[c]) : requests[c][j].op = "send" => i = j
    /\ link[c] = "down" => requests[c] = <<>>
    /\ reply[c] # "none" => pc[c] \in {"sending", "committing"}
    /\ pc[c] \in {"sending", "committing"} => current[c].id # 0
    /\ pc[c] = "sending" => ~current[c].commit
    /\ pc[c] = "committing" => current[c].commit /\ current[c].epoch = epoch[c]

\* A reply tells what the relay did, and who lost an epoch is behind the relay.
RepliesAreTrue(c) ==
    /\ epoch[c] <= relayEpoch
    /\ reply[c] = "ok" => \E i \in Positions : log[i] = current[c]
    /\ reply[c] = "conflict" => pc[c] = "committing"
    /\ reply[c] = "conflict" \/ pc[c] = "conflicted" => epoch[c] < relayEpoch

\* The store holds the session's epoch and, while the engine runs, all it has
\* seen; of the commits accepted, it has seen none that it did not merge.
StoreIsCurrent(c) ==
    /\ store[c].epoch = epoch[c]
    /\ store[c].seen \subseteq seen[c]
    /\ pc[c] \notin {"failed", "down"} => store[c].seen = seen[c]
    /\ \A i \in Positions :
          log[i].commit /\ log[i].id \in store[c].seen => log[i].epoch < epoch[c]
    /\ \A i \in 1 .. Len(shown[c]) : shown[c][i] \in store[c].seen
    /\ \A i \in 1 .. Len(events[c]) : events[c][i] \in store[c].seen

ChatInv ==
    /\ TypeOK /\ OneWinnerPerEpoch /\ IdsName
    /\ \A c \in Client :
          CurrentIsNamed(c) /\ RequestsAreCurrent(c) /\ RepliesAreTrue(c) /\ StoreIsCurrent(c)
    /\ GroupAgreement /\ AppliedOnce /\ AckedIsPersisted

=============================================================================
