----------------------------- MODULE FfiEngine -----------------------------
(***************************************************************************)
(* The engine object the app holds (ffi/src/lib.rs): calls that block on a *)
(* caller's thread, the engine threads they spawn, each the owner of one   *)
(* core engine (engine/src/chat_engine.rs), and the SQLCipher database     *)
(* that a relaunched process resumes from.  The relay is one mailbox for   *)
(* each engine that connected; peers scan the links this device hands out. *)
(*                                                                         *)
(* The app calls create_contact_link and pair_with_link on its main        *)
(* thread, "ui", and send on others.  An engine thread is named by its     *)
(* number, and the mailbox and the identity it makes by the same number.   *)
(* A group is named by the scan that founded it: a peer's scans count from *)
(* 1, this device's own scan by engine e is MaxScans + e; 0 is no group.   *)
(*                                                                         *)
(* Left out: attestation tokens, the dispatch thread, the backup calls,    *)
(* acks that are lost (ChatEngine) and the messages' contents.             *)
(***************************************************************************)
EXTENDS Integers, Sequences, FiniteSets

CONSTANTS
    Senders,       \* threads that call send
    MaxEngines,    \* engine threads ever spawned
    MaxLinks,      \* links asked for
    MaxScans,      \* scans of this device's links by peers
    MaxMessages,   \* messages from peers, and messages sent
    MaxFaults,     \* process deaths, and engines that no caller gets
    Stub           \* TRUE: a restored backup may name a contact

Engine == 1..MaxEngines
Caller == {"ui"} \cup Senders

None == -1         \* no identity; 0 is the identity of the backup

ASSUME FfiAssumption ==
    /\ "ui" \notin Senders
    /\ {MaxEngines, MaxLinks, MaxScans, MaxMessages, MaxFaults} \subseteq Nat
    /\ Stub \in BOOLEAN

VARIABLES
    disk,      \* the "engine" and "session" rows; mailbox 0: no "engine" row
    blob,      \* the "ui.state" row
    ui,        \* Shared.store and Shared.seq
    backend,   \* the engine whose command sender ChatEngine.backend holds, or 0
    eng,       \* the engine threads
    queue,     \* their command channels
    caller,    \* what each caller's thread blocks on
    mailbox,   \* unacknowledged pushes
    linkAt,    \* the mailbox each link handed out names, 0 before
    orphaned,  \* history: an engine connected, or was saved, that no caller got
    links, scans, sent, faults   \* counters of the bounds

vars == <<disk, blob, ui, backend, eng, queue, caller, mailbox, linkAt,
          orphaned, links, scans, sent, faults>>

bounds   == <<links, scans, sent>>
counters == <<bounds, faults, orphaned>>
relay    == <<mailbox, linkAt>>
uiVars   == <<blob, ui>>

NoEngine == [pc |-> "unborn", kind |-> "none", link |-> 0, init |-> "none", identity |-> None,
             mailbox |-> 0, group |-> 0, kps |-> {}, conv |-> FALSE, got |-> 0]

Idle == [pc |-> "idle", on |-> 0]

\* A first launch, or one of new_from_backup, with the contact of the backup as an
\* unpaired conversation.
Init ==
    /\ \E identity \in {None, 0}, conv \in {FALSE, Stub} :
        /\ conv => identity = 0
        /\ disk = [identity |-> identity, mailbox |-> 0, group |-> 0, kps |-> {}]
        /\ ui = [conv |-> conv, ids |-> <<>>, seq |-> 1]
        /\ blob = ui
    /\ backend = 0
    /\ eng = [e \in Engine |-> NoEngine]
    /\ queue = [e \in Engine |-> <<>>]
    /\ caller = [c \in Caller |-> Idle]
    /\ mailbox = [e \in Engine |-> <<>>]
    /\ linkAt = [k \in 1..MaxLinks |-> 0]
    /\ orphaned = FALSE
    /\ links = 0 /\ scans = 0 /\ sent = 0 /\ faults = 0

-----------------------------------------------------------------------------
(* Threads and channels *)

Unborn == {e \in Engine : eng[e].pc = "unborn"}
NextEngine == CHOOSE e \in Unborn : \A d \in Unborn : e <= d

\* The receiving half of e's command channel still exists.
Open(e) == eng[e].pc \in {"resuming", "serving"}

\* Someone holds a sender of e's command channel.
Held(e) == backend = e \/ \E c \in Caller : caller[c].on = e

\* Mutant of Waiting: something keeps the reply senders.
WaitingNone(e) == {}

\* The callers whose reply senders are in e's queue.
Waiting(e) == {c \in Caller : caller[c] = [pc |-> "reply", on |-> e]}

\* The thread returns: its queued commands are dropped and their callers get
\* "engine stopped".
End(e, init) ==
    /\ eng' = [eng EXCEPT ![e] = [NoEngine EXCEPT !.pc = "ended", !.init = init]]
    /\ queue' = [queue EXCEPT ![e] = <<>>]
    /\ caller' = [c \in Caller |-> IF c \in Waiting(e) THEN Idle ELSE caller[c]]

\* create_group and add_members: e founds a group with the peer it scanned.
Founded(r, e) == [r EXCEPT !.group = MaxScans + e]

\* join_from_welcome: the key package of the link is used up.
Joined(r, welcome, group) == [r EXCEPT !.group = group, !.kps = @ \ {welcome}]

\* contact_link: a key package in memory, not yet saved.
Linked(r, link) == [r EXCEPT !.kps = @ \cup {link}]

\* Store.commit of the engine record and the session snapshot of r.
Saved(r) == [identity |-> r.identity, mailbox |-> r.mailbox, group |-> r.group, kps |-> r.kps]

\* persist_ui: best effort, a failed write is not looked at.
PersistUi == blob' \in {ui', blob}

\* Record a message under the next id.
Record ==
    /\ ui' = [ui EXCEPT !.ids = Append(@, ui.seq), !.seq = @ + 1]
    /\ PersistUi

\* create_conversation: upsert.
CreateConversation ==
    /\ ui' = [ui EXCEPT !.conv = TRUE]
    /\ PersistUi

-----------------------------------------------------------------------------
(* Callers *)

Ask(c, e, cmd) ==
    /\ queue' = [queue EXCEPT ![e] = Append(@, [cmd |-> cmd, from |-> c])]
    /\ caller' = [caller EXCEPT ![c] = [pc |-> "reply", on |-> e]]

Spawn(c, kind, link) ==
    /\ Unborn # {}
    /\ eng' = [eng EXCEPT ![NextEngine].pc = "spawned", ![NextEngine].kind = kind,
                          ![NextEngine].link = link]
    /\ caller' = [caller EXCEPT ![c] = [pc |-> "init", on |-> NextEngine]]

\* create_contact_link: a running engine is asked, else one is spawned.  With a
\* stopped engine behind backend it returns "" and changes nothing.
CreateContactLink ==
    /\ caller["ui"] = Idle
    /\ links < MaxLinks
    /\ links' = links + 1
    /\ \/ /\ backend # 0
          /\ Open(backend)
          /\ Ask("ui", backend, links + 1)
          /\ UNCHANGED eng
       \/ /\ backend = 0
          /\ Spawn("ui", "listen", links + 1)
          /\ UNCHANGED queue
    /\ UNCHANGED <<disk, uiVars, backend, relay, orphaned, scans, sent, faults>>

\* pair_with_link: refused while there is a backend.
PairWithLink ==
    /\ caller["ui"] = Idle
    /\ backend = 0
    /\ Spawn("ui", "scan", 0)
    /\ UNCHANGED <<disk, uiVars, backend, queue, relay, counters>>

\* If orphan, what a thread made has no caller to get it.
Unclaimed(orphan) ==
    /\ orphan => faults < MaxFaults
    /\ faults' = IF orphan THEN faults + 1 ELSE faults
    /\ orphaned' = (orphaned \/ orphan)

\* recv_timeout of the init channel.
Initialised(c) ==
    LET e == caller[c].on
    IN  /\ caller[c].pc = "init"
        /\ eng[e].init # "none"
        /\ backend' = IF eng[e].init = "ok" THEN e ELSE backend
        /\ caller' = [caller EXCEPT ![c] = Idle]
        /\ UNCHANGED <<disk, uiVars, eng, queue, relay, counters>>

\* Thirty seconds without a word from the thread, which goes on.
InitTimesOut(c) ==
    LET e == caller[c].on
    IN  /\ caller[c].pc = "init"
        /\ eng[e].init = "none"
        /\ Unclaimed(eng[e].pc \notin {"spawned", "connecting"})
        /\ caller' = [caller EXCEPT ![c] = Idle]
        /\ UNCHANGED <<disk, uiVars, backend, eng, queue, relay, bounds>>

\* send: the conversation must be known and an engine be there.
Send(c) ==
    /\ c \in Senders
    /\ caller[c] = Idle
    /\ ui.conv
    /\ backend # 0
    /\ Open(backend)
    /\ sent < MaxMessages
    /\ sent' = sent + 1
    /\ Ask(c, backend, 0)
    /\ UNCHANGED <<disk, uiVars, backend, eng, relay, orphaned, links, scans, faults>>

-----------------------------------------------------------------------------
(* An engine thread until it serves *)

\* Mutant of Identity: every connect makes a fresh session.
IdentityFresh(e) == e

\* restored_session: an identity without an engine record is picked up, else a
\* fresh session is made.
Identity(e) == IF disk.mailbox = 0 /\ disk.identity # None THEN disk.identity ELSE e

Begin(e) ==
    /\ eng[e].pc = "spawned"
    /\ eng' = [eng EXCEPT ![e].pc = "connecting", ![e].identity = Identity(e)]
    /\ UNCHANGED <<disk, uiVars, backend, queue, caller, relay, counters>>

\* connect_with_session, and for a scan the rest of pair_with_link_using.
Connected(e) ==
    /\ eng[e].pc = "connecting"
    /\ Unclaimed(~Held(e))
    /\ LET r == [eng[e] EXCEPT !.pc = "attaching", !.mailbox = e]
       IN  eng' = [eng EXCEPT ![e] = IF r.kind = "scan" THEN Founded(r, e) ELSE r]
    /\ UNCHANGED <<disk, uiVars, backend, queue, caller, relay, bounds>>

\* The relay, or the disk, fails.
StartFails(e) ==
    /\ eng[e].pc \in {"connecting", "attaching"}
    /\ End(e, "err")
    /\ UNCHANGED <<disk, uiVars, backend, relay, counters>>

\* contact_link fails after attach_disk: what was saved stays, the thread ends.
LinkFails(e) ==
    /\ eng[e].pc = "announcing"
    /\ eng[e].kind = "listen"
    /\ Unclaimed(Held(e))
    /\ End(e, "err")
    /\ UNCHANGED <<disk, uiVars, backend, relay, bounds>>

\* attach_disk.
Attach(e) ==
    /\ eng[e].pc = "attaching"
    /\ disk' = Saved(eng[e])
    /\ eng' = [eng EXCEPT ![e].pc = "announcing"]
    /\ UNCHANGED <<uiVars, backend, queue, caller, relay, counters>>

\* contact_link, whose key package is in memory only, or create_conversation;
\* then init_tx.send and actor_loop.
Announce(e) ==
    /\ eng[e].pc = "announcing"
    /\ \/ /\ eng[e].kind = "listen"
          /\ eng' = [eng EXCEPT ![e] = [Linked(@, @.link) EXCEPT !.pc = "serving", !.init = "ok"]]
          /\ linkAt' = [linkAt EXCEPT ![eng[e].link] = eng[e].mailbox]
          /\ UNCHANGED uiVars
       \/ /\ eng[e].kind = "scan"
          /\ eng' = [eng EXCEPT ![e].pc = "serving", ![e].init = "ok", ![e].conv = TRUE]
          /\ CreateConversation
          /\ UNCHANGED linkAt
    /\ UNCHANGED <<disk, backend, queue, caller, mailbox, counters>>

\* Mutant of ResumedConversation: what was saved is taken to be paired.
ResumedPaired == TRUE

\* The conversation a resumed engine starts with: the UI's first.
ResumedConversation == ui.conv

\* spawn_resume: the core engine as it was saved.
Resumed(e) ==
    /\ eng[e].pc = "resuming"
    /\ eng' = [eng EXCEPT ![e] = [@ EXCEPT
            !.pc = "serving", !.identity = disk.identity, !.mailbox = disk.mailbox,
            !.group = disk.group, !.kps = disk.kps, !.conv = ResumedConversation]]
    /\ UNCHANGED <<disk, uiVars, backend, queue, caller, relay, counters>>

\* An attempt failed: the commands waiting are turned down (reject_offline).
ResumeFails(e) ==
    /\ eng[e].pc = "resuming"
    /\ queue[e] # <<>>
    /\ queue' = [queue EXCEPT ![e] = <<>>]
    /\ caller' = [c \in Caller |-> IF c \in Waiting(e) THEN Idle ELSE caller[c]]
    /\ UNCHANGED <<disk, uiVars, backend, eng, relay, counters>>

-----------------------------------------------------------------------------
(* actor_loop *)

\* Mutant of LacksConversation: the check at the top of the loop is dropped.
LacksNothing(e) == FALSE

\* The top of the loop: a paired engine without a conversation makes one.
LacksConversation(e) == ~eng[e].conv /\ eng[e].group # 0

MakesConversation(e) ==
    /\ eng[e].pc = "serving"
    /\ LacksConversation(e)
    /\ eng' = [eng EXCEPT ![e].conv = TRUE]
    /\ CreateConversation
    /\ UNCHANGED <<disk, backend, queue, caller, relay, counters>>

\* At the select.
Selecting(e) == eng[e].pc = "serving" /\ ~LacksConversation(e)

\* handle_command.  A send saves the session before it is tried and is recorded
\* whether the relay took it or not; without a group it does neither.
HandleCommand(e) ==
    /\ Selecting(e)
    /\ queue[e] # <<>>
    /\ LET q == Head(queue[e])
       IN  /\ queue' = [queue EXCEPT ![e] = Tail(@)]
           /\ caller' = [caller EXCEPT ![q.from] = Idle]
           /\ \/ /\ q.cmd # 0
                 /\ eng' = [eng EXCEPT ![e] = Linked(@, q.cmd)]
                 /\ linkAt' = [linkAt EXCEPT ![q.cmd] = eng[e].mailbox]
                 /\ UNCHANGED <<disk, uiVars>>
              \/ /\ q.cmd = 0
                 /\ IF eng[e].group # 0
                    THEN Record /\ disk' = Saved(eng[e])
                    ELSE UNCHANGED <<disk, uiVars>>
                 /\ UNCHANGED <<eng, linkAt>>
    /\ UNCHANGED <<backend, mailbox, counters>>

\* The next push of e's mailbox.
Pushed(e) == Head(mailbox[eng[e].mailbox])
HasPush(e) == Selecting(e) /\ mailbox[eng[e].mailbox] # <<>>

\* await_pairing: a Welcome for a key package the session holds is joined,
\* saved and acknowledged.
Pairs(e) ==
    /\ HasPush(e)
    /\ ~eng[e].conv
    /\ Pushed(e).welcome \in eng[e].kps
    /\ LET r == Joined(eng[e], Pushed(e).welcome, Pushed(e).group)
       IN  eng' = [eng EXCEPT ![e] = r] /\ disk' = Saved(r)
    /\ mailbox' = [mailbox EXCEPT ![eng[e].mailbox] = Tail(@)]
    /\ UNCHANGED <<uiVars, backend, queue, caller, linkAt, counters>>

\* pump_one: a message of the group is applied, saved and acknowledged.
Pumps(e) ==
    /\ HasPush(e)
    /\ eng[e].conv
    /\ Pushed(e).welcome = 0
    /\ Pushed(e).group = eng[e].group
    /\ eng' = [eng EXCEPT ![e].got = @ + 1]
    /\ disk' = Saved(eng[e])
    /\ mailbox' = [mailbox EXCEPT ![eng[e].mailbox] = Tail(@)]
    /\ UNCHANGED <<uiVars, backend, queue, caller, linkAt, counters>>

\* A push the session cannot use is an error of next_event or await_pairing: the
\* loop returns and the push stays unacknowledged.
Chokes(e) ==
    /\ HasPush(e)
    /\ IF eng[e].conv
       THEN Pushed(e).welcome # 0 \/ Pushed(e).group # eng[e].group
       ELSE Pushed(e).welcome \notin eng[e].kps
    /\ End(e, eng[e].init)
    /\ UNCHANGED <<disk, uiVars, backend, relay, counters>>

\* forward_event of a message.
Forwards(e) ==
    /\ Selecting(e)
    /\ eng[e].got > 0
    /\ eng' = [eng EXCEPT ![e].got = @ - 1]
    /\ Record
    /\ UNCHANGED <<disk, backend, queue, caller, relay, counters>>

\* Every sender of the command channel is gone.
Abandoned(e) ==
    /\ Selecting(e)
    /\ ~Held(e)
    /\ End(e, eng[e].init)
    /\ UNCHANGED <<disk, uiVars, backend, relay, counters>>

\* reconnect gives up.
Disconnects(e) ==
    /\ Selecting(e)
    /\ End(e, eng[e].init)
    /\ UNCHANGED <<disk, uiVars, backend, relay, counters>>

-----------------------------------------------------------------------------
(* Outside *)

\* A peer scans link k, at any time after it was handed out: the Welcome goes
\* to the mailbox the link names.
PeerScans(k) ==
    /\ linkAt[k] # 0
    /\ scans < MaxScans
    /\ scans' = scans + 1
    /\ mailbox' = [mailbox EXCEPT ![linkAt[k]] = Append(@, [welcome |-> k, group |-> scans + 1])]
    /\ UNCHANGED <<disk, uiVars, backend, eng, queue, caller, linkAt, orphaned, links, sent, faults>>

\* The peer of a group that is saved, or that an engine is in, sends to it.
PeerSends(r) ==
    /\ r.group # 0
    /\ sent < MaxMessages
    /\ sent' = sent + 1
    /\ mailbox' = [mailbox EXCEPT ![r.mailbox] = Append(@, [welcome |-> 0, group |-> r.group])]
    /\ UNCHANGED <<disk, uiVars, backend, eng, queue, caller, linkAt, orphaned, links, scans, faults>>

\* The UI state of a relaunched process.
Relaunched == blob

\* The process dies and is launched again: new_persistent.
Restart ==
    /\ faults < MaxFaults
    /\ faults' = faults + 1
    /\ disk.mailbox # 0 => Unborn # {}
    /\ ui' = Relaunched
    /\ LET resumes == disk.mailbox # 0
           dead == [e \in Engine |-> IF eng[e].pc = "unborn" THEN NoEngine
                                     ELSE [NoEngine EXCEPT !.pc = "ended"]]
       IN  /\ eng' = IF resumes THEN [dead EXCEPT ![NextEngine].pc = "resuming"] ELSE dead
           /\ backend' = IF resumes THEN NextEngine ELSE 0
    /\ queue' = [e \in Engine |-> <<>>]
    /\ caller' = [c \in Caller |-> Idle]
    /\ UNCHANGED <<disk, blob, relay, orphaned, links, scans, sent>>

-----------------------------------------------------------------------------
CallerStep(c) == Initialised(c) \/ InitTimesOut(c)

EngineStep(e) ==
    \/ Begin(e) \/ Connected(e) \/ StartFails(e) \/ Attach(e) \/ LinkFails(e)
    \/ Announce(e) \/ Resumed(e) \/ ResumeFails(e) \/ MakesConversation(e) \/ HandleCommand(e)
    \/ Pairs(e) \/ Pumps(e) \/ Chokes(e) \/ Forwards(e) \/ Abandoned(e)

Next ==
    \/ CreateContactLink \/ PairWithLink
    \/ \E c \in Caller : Send(c) \/ CallerStep(c)
    \/ \E e \in Engine : EngineStep(e) \/ Disconnects(e) \/ PeerSends(eng[e])
    \/ PeerSends(disk)
    \/ \E k \in 1..MaxLinks : PeerScans(k)
    \/ Restart

\* Threads are scheduled, an attempt to reach the relay ends one way or the
\* other, and a resume that is retried for ever succeeds in the end.
Fairness ==
    /\ \A c \in Caller : WF_vars(CallerStep(c))
    /\ \A e \in Engine : WF_vars(EngineStep(e))

Spec == Init /\ [][Next]_vars /\ Fairness

-----------------------------------------------------------------------------
(* Properties *)

\* The identity and the pairing a device has saved are the ones it keeps, through
\* every launch and whichever engine thread saves ("identity, pairing, MLS state
\* ... all survive process death"): peers verified the identity, and the backup
\* holds it.  Excepted: a thread that connects after its caller timed out saves
\* its own over what a retry saved, and a start that failed after its save is
\* retried with an identity of its own.  The counter of message ids survives
\* too: no two messages of the history share one, though a relaunch goes back to
\* the counter last saved.
SavedStateKept ==
    [][/\ ~orphaned =>
            /\ disk.identity # None => disk'.identity = disk.identity
            /\ disk.group # 0 => disk'.group = disk.group
       /\ \A i, j \in DOMAIN ui'.ids : i # j => ui'.ids[i] # ui'.ids[j]]_<<disk, orphaned, ui>>

\* The conversation of r may be the stub of the contact that the backup named.
Restored(r) == Stub /\ r.identity = 0

\* An engine that is not paired waits for a pairing, not for the events of a
\* conversation: the Welcome that arrives would stop it.  Excepted: an engine
\* that no caller got replaced the saved pairing but not the UI's conversation;
\* and a restored device, once relaunched, whose resumed engine takes the UI's
\* stub for its conversation, although new_from_backup's comment says that "the
\* normal pairing flow re-pairs it".
UnpairedAwaitsPairing ==
    ~orphaned => \A e \in Engine :
        eng[e].pc = "serving" /\ eng[e].conv =>
            eng[e].group # 0 \/ (eng[e].kind = "none" /\ Restored(eng[e]))

\* A call returns: what it waits for answers, ends or times out.
CallsReturn ==
    \A c \in Caller : caller[c] # Idle ~> caller[c] = Idle

\* A saved pairing gets its conversation, if need be after a relaunch that
\* found the UI's blob lagging, or an engine that no caller got replaced it.
PairingShown ==
    disk.group # 0 ~> ui.conv \/ orphaned

=============================================================================
