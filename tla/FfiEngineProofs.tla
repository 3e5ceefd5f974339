-------------------------- MODULE FfiEngineProofs --------------------------
(***************************************************************************)
(* The engine object of the app, for any threads, links, scans, messages   *)
(* and process deaths: what a device saved stays saved, no two messages    *)
(* share an id, and an engine that is not paired waits for a pairing.      *)
(*                                                                         *)
(* The argument: as long as every thread that saved has a caller to get    *)
(* it, one thread at most is past its connect, the one the app waits for   *)
(* or the one it holds; it alone saves, so it has what the disk has; and a *)
(* thread connects only where nothing was saved before.                    *)
(***************************************************************************)
EXTENDS FfiEngine, WellFoundedInduction, TLAPS

-----------------------------------------------------------------------------
(* The inductive invariant *)

\* A thread with its engine, the two rows, the UI state, a caller, a push and
\* a command.
Thread == [pc : {"unborn", "spawned", "connecting", "attaching", "announcing",
                 "resuming", "serving", "ended"},
           kind : {"none", "listen", "scan"}, link : Nat, init : {"none", "ok", "err"},
           identity : Int, mailbox : {0} \cup Engine, group : Nat, kps : SUBSET Nat,
           conv : BOOLEAN, got : Int]
Rows == [identity : Int, mailbox : {0} \cup Engine, group : Nat, kps : SUBSET Nat]
UiState == [conv : BOOLEAN, ids : Seq(Nat), seq : Nat]
Wait == [pc : {"idle", "init", "reply"}, on : {0} \cup Engine]
Push == [welcome : Nat, group : Nat]
Command == [cmd : Nat, from : Caller]

\* Every variable the argument is about has its type.
EngineTyped ==
    /\ disk \in Rows
    /\ ui \in UiState /\ blob \in UiState
    /\ backend \in {0} \cup Engine
    /\ eng \in [Engine -> Thread]
    /\ queue \in [Engine -> Seq(Command)]
    /\ caller \in [Caller -> Wait]
    /\ mailbox \in [Engine -> Seq(Push)]
    /\ orphaned \in BOOLEAN
    /\ links \in Nat /\ scans \in Nat

\* The app waits for thread e to start.
Awaits(e) == caller["ui"] = [pc |-> "init", on |-> e]

\* Who waits for whom: for a start only the app, while it holds no engine, and
\* for an answer only callers of the engine that it holds, whose commands alone
\* are queued.
Called ==
    /\ \A c \in Caller :
        \/ caller[c] = Idle
        \/ caller[c] = [pc |-> "reply", on |-> backend] /\ backend # 0
        \/ c = "ui" /\ backend = 0 /\ \E e \in Engine : Awaits(e)
    /\ \A e \in Engine : queue[e] # <<>> => backend = e
    /\ backend # 0 => eng[backend].pc \in {"resuming", "serving", "ended"}

\* What a thread is, by where it stands.
Stands(e) ==
    /\ eng[e].init # "none" => eng[e].pc \in {"serving", "ended"}
    /\ eng[e].conv => eng[e].pc = "serving"
    /\ eng[e].pc \in {"unborn", "resuming"} => eng[e].kind = "none"
    /\ eng[e].pc \in {"attaching", "announcing"} =>
        /\ eng[e].mailbox = e
        /\ eng[e].kind = "scan" => eng[e].group # 0
    /\ eng[e].pc = "serving" => eng[e].mailbox # 0
    /\ eng[e].pc = "resuming" => disk.mailbox # 0
    /\ eng[e].pc \in {"connecting", "attaching"} /\ disk.mailbox = 0 /\ disk.identity # None =>
        eng[e].identity = disk.identity

\* No message id is used twice, or is still to be used.
Numbered(r) ==
    /\ \A i \in DOMAIN r.ids : r.ids[i] < r.seq
    /\ \A i, j \in DOMAIN r.ids : i # j => r.ids[i] # r.ids[j]

\* The one thread past its connect is awaited or held, and has what is saved.
Sole(e) ==
    /\ eng[e].pc \in {"attaching", "announcing"} => Awaits(e)
    /\ eng[e].pc = "resuming" => backend = e
    /\ eng[e].pc = "serving" => backend = e \/ (Awaits(e) /\ eng[e].init = "ok")
    /\ eng[e].pc = "attaching" => disk.mailbox = 0
    /\ eng[e].pc \in {"announcing", "serving"} =>
        /\ eng[e].identity = disk.identity
        /\ eng[e].group = disk.group

\* Something was saved only by a thread that is held, or whose start is over or
\* cannot fail any more.
Kept ==
    disk.mailbox # 0 =>
        \/ backend # 0
        \/ \E e \in Engine : Awaits(e) /\ (eng[e].pc = "announcing" \/ eng[e].init = "ok")

\* A conversation is one of a saved pairing, or the stub of a restored contact.
HasPeer(r) == r.group # 0 \/ Restored(r)

Conversing(r) ==
    r.pc = "serving" /\ r.conv => r.group # 0 \/ (r.kind = "none" /\ Restored(r))

Paired ==
    /\ ui.conv \/ blob.conv => HasPeer(disk)
    /\ \A e \in Engine : Conversing(eng[e])

\* The inductive invariant.
EngineInv ==
    /\ EngineTyped
    /\ Called
    /\ \A e \in Engine : Stands(e)
    /\ disk.mailbox = 0 => disk.group = 0
    /\ Numbered(ui) /\ Numbered(blob)
    /\ orphaned \/ (Kept /\ \A e \in Engine : Sole(e))
    /\ orphaned \/ Paired

-----------------------------------------------------------------------------
(* Threads and callers *)

\* Threads are numbered from 1; the app's main thread is a caller.
LEMMA Numbering == Engine \subseteq Nat /\ 0 \notin Engine /\ "ui" \in Caller
  <1>1. Engine \subseteq Nat /\ 0 \notin Engine
    BY FfiAssumption DEF Engine
  <1> QED BY Zenon, <1>1 DEF Caller

\* The next id is larger than every id before it, so it is none of them.
LEMMA NextIdIsNew ==
    ASSUME NEW s \in Seq(Nat), NEW n \in Nat, \A i \in DOMAIN s : s[i] < n,
           \A i, j \in DOMAIN s : i # j => s[i] # s[j]
    PROVE  /\ Append(s, n) \in Seq(Nat) /\ n + 1 \in Nat
           /\ \A i \in DOMAIN Append(s, n) : Append(s, n)[i] < n + 1
           /\ \A i, j \in DOMAIN Append(s, n) : i # j => Append(s, n)[i] # Append(s, n)[j]
  OBVIOUS

\* The group of a thread's own scan is one.
LEMMA ScanIsGroup == \A e \in Engine : MaxScans + e \in Nat /\ MaxScans + e # 0
  <1>1. MaxScans \in Nat
    BY Zenon, FfiAssumption
  <1>2. \A e \in Engine : e \in Nat /\ e # 0
    BY Zenon, Numbering
  <1> QED BY <1>1, <1>2

\* The next thread is one that was not started yet.
LEMMA NextIsUnborn == ASSUME Unborn # {} PROVE NextEngine \in Unborn
  <1>1. Unborn \subseteq Nat
    BY Zenon, Numbering DEF Unborn
  <1>2. \E e \in Unborn : \A d \in Unborn : <<d, e>> \notin OpToRel(<, Nat)
    BY Zenon, <1>1, WFMin, NatLessThanWellFounded
  <1>3. PICK e \in Unborn : \A d \in Unborn : <<d, e>> \notin OpToRel(<, Nat)
    BY Zenon, <1>2
  <1>4. \A d \in Unborn : ~(d < e)
    BY Zenon, <1>1, <1>3 DEF OpToRel
  <1>5. \A d \in Unborn : e <= d
    BY <1>1, <1>4
  <1> QED BY Zenon, <1>5 DEF NextEngine

\* What a caller waits for tells the three kinds of callers apart.
LEMMA WaitsDiffer ==
    ASSUME NEW e, NEW d
    PROVE  /\ [pc |-> "init", on |-> e] # Idle
           /\ [pc |-> "init", on |-> e] # [pc |-> "reply", on |-> d]
           /\ [pc |-> "init", on |-> e] = [pc |-> "init", on |-> d] => e = d
           /\ [pc |-> "reply", on |-> e] # Idle
           /\ [pc |-> "reply", on |-> e] = [pc |-> "reply", on |-> d] => e = d
  BY Zenon DEF Idle

\* While the app waits for a start it holds no engine, and nobody else waits.
LEMMA AwaitedAlone ==
    ASSUME Called, NEW e \in Engine, Awaits(e)
    PROVE  /\ backend = 0
           /\ \A d \in Engine : Awaits(d) => d = e
           /\ \A c \in Caller : c = "ui" \/ caller[c] = Idle
  <1>1. backend = 0
    BY Zenon, Numbering, WaitsDiffer DEF Called, Awaits
  <1>2. \A d \in Engine : Awaits(d) => d = e
    BY Zenon, WaitsDiffer DEF Awaits
  <1>3. \A c \in Caller : c = "ui" \/ caller[c] = Idle
    BY Zenon, <1>1 DEF Called
  <1> QED BY Zenon, <1>1, <1>2, <1>3

\* Past its connect.
Past == {"attaching", "announcing", "resuming", "serving"}

\* As long as every thread that saved has a caller, one at most is past its connect.
LEMMA OnePast ==
    ASSUME EngineInv, ~orphaned, NEW e \in Engine, NEW d \in Engine,
           eng[e].pc \in Past, eng[d].pc \in Past
    PROVE  d = e
  <1>1. /\ backend = e \/ Awaits(e)
        /\ backend = d \/ Awaits(d)
    BY Zenon DEF EngineInv, Sole, Past
  <1>2. CASE Awaits(e)
    BY Zenon, <1>1, <1>2, Numbering, AwaitedAlone DEF EngineInv
  <1>3. CASE Awaits(d)
    BY Zenon, <1>1, <1>3, Numbering, AwaitedAlone DEF EngineInv
  <1> QED BY Zenon, <1>1, <1>2, <1>3

\* Callers and queues stay as they are while thread e moves on.
LEMMA CallersStay ==
    ASSUME EngineInv, NEW e \in Engine, NEW r, eng' = [eng EXCEPT ![e] = r],
           UNCHANGED <<backend, queue, caller>>,
           backend = e => r.pc \in {"resuming", "serving", "ended"}
    PROVE  Called' /\ (\A d \in Engine : Awaits(d)' <=> Awaits(d))
  <1>1. \A d \in Engine : eng'[d] = IF d = e THEN r ELSE eng[d]
    BY Zenon DEF EngineInv, EngineTyped
  <1>2. \A d \in Engine : Awaits(d)' <=> Awaits(d)
    BY Zenon DEF Awaits
  <1>3. backend' # 0 => eng'[backend'].pc \in {"resuming", "serving", "ended"}
    BY Zenon, <1>1 DEF EngineInv, EngineTyped, Called
  <1> QED BY Zenon, <1>2, <1>3 DEF EngineInv, Called

\* What holds of a thread holds while the thread and what it is compared with stay.
LEMMA ThreadStays ==
    ASSUME EngineInv, NEW e \in Engine, eng'[e] = eng[e], UNCHANGED <<disk, backend, orphaned>>,
           Awaits(e)' <=> Awaits(e)
    PROVE  Stands(e)' /\ (orphaned' \/ Sole(e)')
  <1>1. Stands(e) /\ (orphaned \/ Sole(e))
    BY Zenon DEF EngineInv
  <1>2. Stands(e)'
    BY Zenon, <1>1 DEF Stands
  <1>3. ASSUME Sole(e) PROVE Sole(e)'
    BY Zenon, <1>3 DEF Sole
  <1> QED BY Zenon, <1>1, <1>2, <1>3

\* A step of thread e that changes what is saved only where e is the one that
\* may save.
LEMMA ThreadMoves ==
    ASSUME EngineInv, EngineTyped', Called', NEW e \in Engine, NEW r,
           eng' = [eng EXCEPT ![e] = r], backend' = backend, orphaned => orphaned',
           \A d \in Engine : Awaits(d)' <=> Awaits(d),
           \/ disk' = disk
           \/ /\ disk'.mailbox # 0 /\ orphaned' = orphaned
              /\ eng[e].pc \in {"attaching", "serving"}
              /\ r.pc \in {"announcing", "serving"},
           \/ orphaned'
           \/ eng[e].pc = "announcing" \/ eng[e].init = "ok" => r.pc = "announcing" \/ r.init = "ok",
           Stands(e)', orphaned' \/ Sole(e)', Numbered(ui)', Numbered(blob)',
           orphaned' \/ (ui'.conv \/ blob'.conv => HasPeer(disk')),
           orphaned' \/ Conversing(r)
    PROVE  EngineInv'
  <1>1. eng'[e] = r /\ \A d \in Engine \ {e} : eng'[d] = eng[d]
    BY Zenon DEF EngineInv, EngineTyped
  <1>2. disk'.mailbox = 0 => disk'.group = 0
    BY Zenon DEF EngineInv
  <1>3. ASSUME NEW d \in Engine PROVE Stands(d)'
    <2>1. CASE d = e
      BY Zenon, <2>1
    <2>2. CASE d # e
      <3>1. eng'[d] = eng[d] /\ Stands(d)
        BY Zenon, <1>1, <2>2 DEF EngineInv
      <3> QED BY Zenon, <3>1 DEF Stands
    <2> QED BY Zenon, <2>1, <2>2
  <1>4. ASSUME ~orphaned', NEW d \in Engine PROVE Sole(d)'
    <2>1. CASE d = e
      BY Zenon, <1>4, <2>1
    <2>2. CASE d # e /\ disk' = disk
      <3>1. Sole(d) /\ eng'[d] = eng[d]
        BY Zenon, <1>1, <1>4, <2>2 DEF EngineInv
      <3> QED BY Zenon, <2>2, <3>1 DEF Sole
    <2>3. CASE d # e /\ eng[e].pc \in {"attaching", "serving"} /\ orphaned' = orphaned
      <3>1. eng[d].pc \notin Past
        BY Zenon, <1>4, <2>3, OnePast DEF Past
      <3> QED BY Zenon, <1>1, <2>3, <3>1 DEF Sole, Past
    <2> QED BY Zenon, <2>1, <2>2, <2>3
  <1>5. ASSUME ~orphaned' PROVE Kept'
    <2>1. CASE disk' = disk
      BY Zenon, <1>1, <1>5, <2>1 DEF EngineInv, Kept
    <2>2. CASE r.pc \in {"announcing", "serving"}
      BY Zenon, <1>1, <1>4, <1>5, <2>2, Numbering DEF Kept, Sole
    <2> QED BY Zenon, <2>1, <2>2
  <1>6. ASSUME ~orphaned' PROVE Paired'
    <2>1. Paired
      BY Zenon, <1>6 DEF EngineInv
    <2>2. ASSUME NEW d \in Engine PROVE Conversing(eng'[d])
      BY Zenon, <1>1, <1>6, <2>1 DEF Paired
    <2> QED BY Zenon, <1>6, <2>2 DEF Paired
  <1> QED BY Zenon, <1>2, <1>3, <1>4, <1>5, <1>6 DEF EngineInv

-----------------------------------------------------------------------------
(* A thread until it serves *)

\* A step of thread e that saves nothing; the UI's state may change with it.
LEMMA ThreadStep ==
    ASSUME EngineInv, NEW e \in Engine, NEW r \in Thread, eng' = [eng EXCEPT ![e] = r],
           UNCHANGED <<disk, backend, queue, caller, mailbox, links, scans>>,
           ui' \in UiState, blob' \in {ui', blob}, Numbered(ui)',
           orphaned' \in BOOLEAN, orphaned => orphaned',
           backend = e => r.pc \in {"resuming", "serving", "ended"},
           eng[e].pc = "announcing" \/ eng[e].init = "ok" => r.pc = "announcing" \/ r.init = "ok",
           Stands(e)', orphaned' \/ Sole(e)',
           orphaned' \/ (ui'.conv => ui.conv \/ HasPeer(disk)),
           orphaned' \/ Conversing(r)
    PROVE  EngineInv'
  <1>1. EngineTyped'
    BY Zenon DEF EngineInv, EngineTyped
  <1>2. Called' /\ \A d \in Engine : Awaits(d)' <=> Awaits(d)
    BY Zenon, CallersStay
  <1>3. Numbered(blob)'
    BY Zenon DEF EngineInv, Numbered
  <1>4. orphaned' \/ (ui'.conv \/ blob'.conv => HasPeer(disk'))
    BY Zenon DEF EngineInv, Paired
  <1> QED BY Zenon, <1>1, <1>2, <1>3, <1>4, ThreadMoves

\* restored_session.
LEMMA BeginKeeps == ASSUME EngineInv, NEW e \in Engine, Begin(e) PROVE EngineInv'
  <1>1. PICK i : i = Identity(e)
    BY Zenon
  <1>2. PICK r : r = [eng[e] EXCEPT !.pc = "connecting", !.identity = i]
    BY Zenon
  <1>3. /\ eng[e] \in Thread /\ eng[e].pc = "spawned" /\ eng[e].init = "none"
        /\ ~eng[e].conv /\ eng \in [Engine -> Thread]
    BY Zenon DEF Begin, EngineInv, EngineTyped, Stands
  <1>4. i \in Int /\ (disk.mailbox = 0 /\ disk.identity # None => i = disk.identity)
    BY <1>1, Numbering DEF EngineInv, EngineTyped, Rows, Identity
  <1>5. /\ r \in Thread /\ r.pc = "connecting" /\ r.identity = i /\ r.init = "none"
        /\ ~r.conv
    BY Zenon, <1>2, <1>3, <1>4 DEF Thread
  <1>6. /\ eng' = [eng EXCEPT ![e] = r]
        /\ UNCHANGED <<disk, ui, blob, backend, queue, caller, mailbox, orphaned, links, scans>>
    BY Zenon, <1>1, <1>2, <1>3 DEF Begin, uiVars, relay, counters, bounds
  <1>7. backend # e
    BY Zenon, <1>3, Numbering DEF EngineInv, Called
  <1>8. eng'[e] = r
    BY Zenon, <1>3, <1>6
  <1>9. Stands(e)' /\ Sole(e)'
    BY Zenon, <1>4, <1>5, <1>6, <1>8 DEF Stands, Sole
  <1>10. ui' \in UiState /\ blob' = blob /\ Numbered(ui)' /\ (orphaned => orphaned') /\ orphaned' \in BOOLEAN
    BY Zenon, <1>6 DEF EngineInv, EngineTyped, Numbered
  <1>11. Conversing(r)
    BY Zenon, <1>5 DEF Conversing
  <1> QED BY Zenon, <1>3, <1>5, <1>6, <1>7, <1>9, <1>10, <1>11, ThreadStep

\* A thread that connects is awaited, or goes on alone; where it is awaited
\* nothing was saved before.
LEMMA ConnectsFirst ==
    ASSUME EngineInv, ~orphaned, NEW e \in Engine, eng[e].pc = "connecting", Held(e)
    PROVE  Awaits(e) /\ disk.mailbox = 0
  <1>1. backend # e
    BY Zenon, Numbering DEF EngineInv, Called
  <1>2. eng[e].init = "none"
    BY Zenon DEF EngineInv, EngineTyped, Stands
  <1>3. PICK c \in Caller : caller[c].on = e
    BY Zenon, <1>1, <1>2 DEF Held
  <1>4. caller[c] # Idle /\ caller[c] # [pc |-> "reply", on |-> backend]
    BY <1>1, <1>2, <1>3, Numbering DEF Idle
  <1>5. PICK d \in Engine : c = "ui" /\ Awaits(d)
    BY Zenon, <1>4 DEF EngineInv, Called
  <1>6. d = e
    BY <1>3, <1>5 DEF Awaits
  <1>7. Awaits(e) /\ backend = 0
    BY Zenon, <1>5, <1>6, AwaitedAlone DEF EngineInv
  <1> QED BY Zenon, <1>1, <1>2, <1>7, AwaitedAlone DEF EngineInv, Kept

\* connect_with_session.
LEMMA ConnectedKeeps == ASSUME EngineInv, NEW e \in Engine, Connected(e) PROVE EngineInv'
  <1>1. PICK q : q = [eng[e] EXCEPT !.pc = "attaching", !.mailbox = e]
    BY Zenon
  <1>2. PICK r : r = IF q.kind = "scan" THEN Founded(q, e) ELSE q
    BY Zenon
  <1>3. /\ eng[e] \in Thread /\ eng[e].pc = "connecting" /\ eng[e].init = "none"
        /\ ~eng[e].conv /\ eng \in [Engine -> Thread] /\ Stands(e)
    BY Zenon DEF Connected, EngineInv, EngineTyped, Stands
  <1>4. MaxScans + e \in Nat /\ MaxScans + e # 0
    BY Zenon, ScanIsGroup
  <1>5. /\ q \in Thread /\ q.pc = "attaching" /\ q.mailbox = e /\ q.init = "none"
        /\ q.identity = eng[e].identity /\ ~q.conv
    BY Zenon, <1>1, <1>3 DEF Thread
  <1>6. /\ r \in Thread /\ r.pc = "attaching" /\ r.mailbox = e /\ r.init = "none"
        /\ r.identity = eng[e].identity /\ ~r.conv /\ (r.kind = "scan" => r.group # 0)
    BY Zenon, <1>2, <1>4, <1>5 DEF Thread, Founded
  <1>7. /\ eng' = [eng EXCEPT ![e] = r] /\ orphaned' = (orphaned \/ ~Held(e))
        /\ UNCHANGED <<disk, ui, blob, backend, queue, caller, mailbox, links, scans>>
    BY Zenon, <1>1, <1>2 DEF Connected, Unclaimed, uiVars, relay, bounds
  <1>8. eng'[e] = r /\ backend # e /\ (orphaned => orphaned') /\ orphaned' \in BOOLEAN
    BY Zenon, <1>3, <1>7, Numbering DEF EngineInv, Called
  <1>9. Stands(e)'
    BY Zenon, <1>3, <1>6, <1>7, <1>8 DEF Stands
  <1>10. ASSUME ~orphaned' PROVE Sole(e)'
    <2>1. Awaits(e) /\ disk.mailbox = 0
      BY Zenon, <1>3, <1>7, <1>10, ConnectsFirst
    <2>2. Awaits(e)' /\ disk'.mailbox = 0
      BY Zenon, <1>7, <2>1 DEF Awaits
    <2> QED BY <1>6, <1>8, <2>2 DEF Sole
  <1>11. ui' \in UiState /\ blob' = blob /\ Numbered(ui)'
    BY Zenon, <1>7 DEF EngineInv, EngineTyped, Numbered
  <1>12. Conversing(r)
    BY Zenon, <1>6 DEF Conversing
  <1> QED BY Zenon, <1>3, <1>6, <1>7, <1>8, <1>9, <1>10, <1>11, <1>12, ThreadStep

\* attach_disk: nothing was saved before.
LEMMA AttachKeeps == ASSUME EngineInv, NEW e \in Engine, Attach(e) PROVE EngineInv'
  <1>1. PICK r : r = [eng[e] EXCEPT !.pc = "announcing"]
    BY Zenon
  <1>2. /\ eng[e] \in Thread /\ eng[e].pc = "attaching" /\ eng[e].init = "none"
        /\ ~eng[e].conv /\ eng \in [Engine -> Thread] /\ eng[e].mailbox = e
        /\ (eng[e].kind = "scan" => eng[e].group # 0)
    BY Zenon DEF Attach, EngineInv, EngineTyped, Stands
  <1>3. /\ r \in Thread /\ r.pc = "announcing" /\ r.init = "none" /\ ~r.conv /\ r.mailbox = e
        /\ (r.kind = "scan" => r.group # 0)
        /\ r.identity = eng[e].identity /\ r.group = eng[e].group
    BY Zenon, <1>1, <1>2 DEF Thread
  <1>4. /\ eng' = [eng EXCEPT ![e] = r] /\ disk' = Saved(eng[e])
        /\ UNCHANGED <<ui, blob, backend, queue, caller, mailbox, orphaned, links, scans>>
    BY Zenon, <1>1, <1>2 DEF Attach, uiVars, relay, counters, bounds
  <1>5. /\ disk' \in Rows /\ disk'.mailbox = e
        /\ disk'.identity = r.identity /\ disk'.group = r.group
    BY Zenon, <1>2, <1>3, <1>4 DEF Saved, Rows, Thread
  <1>6. EngineTyped'
    BY Zenon, <1>3, <1>4, <1>5 DEF EngineInv, EngineTyped
  <1>7. backend # e /\ disk'.mailbox # 0
    BY Zenon, <1>2, <1>5, Numbering DEF EngineInv, Called
  <1>8. UNCHANGED <<backend, queue, caller>>
    BY Zenon, <1>4
  <1>9. Called' /\ \A d \in Engine : Awaits(d)' <=> Awaits(d)
    BY Zenon, <1>4, <1>7, <1>8, CallersStay
  <1>10. eng'[e] = r
    BY Zenon, <1>2, <1>4
  <1>11. Stands(e)'
    BY <1>3, <1>10 DEF Stands
  <1>12. orphaned' \/ Sole(e)'
    BY Zenon, <1>2, <1>3, <1>4, <1>5, <1>9, <1>10 DEF EngineInv, Sole
  <1>13. Numbered(ui)' /\ Numbered(blob)'
    BY Zenon, <1>4 DEF EngineInv, Numbered
  <1>14. ASSUME ~orphaned', ui'.conv \/ blob'.conv PROVE HasPeer(disk')
    <2>1. disk.mailbox = 0 /\ disk.group = 0 /\ HasPeer(disk)
      BY Zenon, <1>2, <1>4, <1>14 DEF EngineInv, Paired, Sole
    <2>2. Stub /\ disk.identity = 0 /\ disk.identity # None
      BY <2>1 DEF HasPeer, Restored, None
    <2>3. disk'.identity = 0
      BY Zenon, <1>2, <1>3, <1>5, <2>1, <2>2 DEF EngineInv, Stands
    <2> QED BY Zenon, <2>2, <2>3 DEF HasPeer, Restored
  <1>15. Conversing(r)
    BY Zenon, <1>3 DEF Conversing
  <1> QED BY Zenon, <1>2, <1>3, <1>4, <1>6, <1>7, <1>9, <1>11, <1>12, <1>13, <1>14, <1>15, ThreadMoves

\* A message gets an id of its own.
LEMMA RecordNumbers ==
    ASSUME ui \in UiState, Numbered(ui), Record
    PROVE  ui' \in UiState /\ blob' \in {ui', blob} /\ Numbered(ui)' /\ ui'.conv = ui.conv
  <1>1. ui.ids \in Seq(Nat) /\ ui.seq \in Nat
    BY Zenon DEF UiState
  <1>2. PICK s : s = Append(ui.ids, ui.seq)
    BY Zenon
  <1>3. PICK n : n = ui.seq + 1
    BY Zenon
  <1>4. /\ s \in Seq(Nat) /\ n \in Nat
        /\ \A i \in DOMAIN s : s[i] < n
        /\ \A i, j \in DOMAIN s : i # j => s[i] # s[j]
    <2>1. /\ Append(ui.ids, ui.seq) \in Seq(Nat) /\ ui.seq + 1 \in Nat
          /\ \A i \in DOMAIN Append(ui.ids, ui.seq) : Append(ui.ids, ui.seq)[i] < ui.seq + 1
          /\ \A i, j \in DOMAIN Append(ui.ids, ui.seq) :
                i # j => Append(ui.ids, ui.seq)[i] # Append(ui.ids, ui.seq)[j]
      BY Zenon, <1>1, NextIdIsNew DEF Numbered
    <2> QED BY Zenon, <1>2, <1>3, <2>1
  <1>5. ui' = [ui EXCEPT !.ids = s, !.seq = n]
    BY Zenon, <1>2, <1>3 DEF Record, UiState
  <1>6. ui'.ids = s /\ ui'.seq = n /\ ui'.conv = ui.conv /\ ui' \in UiState
    BY Zenon, <1>4, <1>5 DEF UiState
  <1>7. Numbered(ui)'
    BY Zenon, <1>4, <1>6 DEF Numbered
  <1> QED BY Zenon, <1>6, <1>7 DEF Record, PersistUi

\* A conversation leaves the messages alone.
LEMMA ShownNumbers ==
    ASSUME ui \in UiState, Numbered(ui), CreateConversation
    PROVE  ui' \in UiState /\ blob' \in {ui', blob} /\ Numbered(ui)'
  <1>1. ui'.ids = ui.ids /\ ui'.seq = ui.seq /\ ui' \in UiState
    BY Zenon DEF CreateConversation, UiState
  <1>2. Numbered(ui)'
    BY Zenon, <1>1 DEF Numbered
  <1> QED BY Zenon, <1>1, <1>2 DEF CreateConversation, PersistUi

\* contact_link or create_conversation, and init_tx.send.
LEMMA AnnounceKeeps == ASSUME EngineInv, NEW e \in Engine, Announce(e) PROVE EngineInv'
  <1>1. /\ eng[e] \in Thread /\ eng[e].pc = "announcing" /\ eng[e].init = "none"
        /\ ~eng[e].conv /\ eng \in [Engine -> Thread] /\ eng[e].mailbox = e
        /\ (eng[e].kind = "scan" => eng[e].group # 0)
        /\ ui \in UiState /\ Numbered(ui)
    BY Zenon DEF Announce, EngineInv, EngineTyped, Stands
  <1>2. /\ UNCHANGED <<disk, backend, queue, caller, mailbox, links, scans>> /\ orphaned' = orphaned
        /\ (orphaned => orphaned') /\ orphaned' \in BOOLEAN
    BY Zenon DEF Announce, counters, bounds, EngineInv, EngineTyped
  <1>3. PICK r : /\ eng' = [eng EXCEPT ![e] = r] /\ r \in Thread /\ r.pc = "serving" /\ r.init = "ok"
                 /\ r.mailbox = e /\ r.identity = eng[e].identity /\ r.group = eng[e].group
                 /\ (r.conv => eng[e].kind = "scan")
                 /\ \/ CreateConversation /\ eng[e].kind = "scan"
                    \/ ui' = ui /\ blob' = blob
    <2>1. CASE eng[e].kind = "listen"
      <3>1. PICK r : r = [Linked(eng[e], eng[e].link) EXCEPT !.pc = "serving", !.init = "ok"]
        BY Zenon
      <3>2. eng' = [eng EXCEPT ![e] = r] /\ ui' = ui /\ blob' = blob
        BY Zenon, <1>1, <2>1, <3>1 DEF Announce, uiVars
      <3>3. /\ r \in Thread /\ r.pc = "serving" /\ r.init = "ok" /\ r.mailbox = e /\ ~r.conv
            /\ r.identity = eng[e].identity /\ r.group = eng[e].group
        BY Zenon, <1>1, <3>1 DEF Linked, Thread
      <3> QED BY Zenon, <3>2, <3>3
    <2>2. CASE eng[e].kind = "scan"
      <3>1. PICK r : r = [eng[e] EXCEPT !.pc = "serving", !.init = "ok", !.conv = TRUE]
        BY Zenon
      <3>2. eng' = [eng EXCEPT ![e] = r] /\ CreateConversation
        BY Zenon, <1>1, <2>2, <3>1 DEF Announce
      <3>3. /\ r \in Thread /\ r.pc = "serving" /\ r.init = "ok" /\ r.mailbox = e
            /\ r.identity = eng[e].identity /\ r.group = eng[e].group
        BY Zenon, <1>1, <3>1 DEF Thread
      <3> QED BY Zenon, <2>2, <3>2, <3>3
    <2> QED BY Zenon, <2>1, <2>2 DEF Announce
  <1>4. ui' \in UiState /\ blob' \in {ui', blob} /\ Numbered(ui)'
    BY Zenon, <1>1, <1>3, ShownNumbers DEF Numbered
  <1>5. eng'[e] = r /\ backend # e /\ e # 0
    BY Zenon, <1>1, <1>3, Numbering DEF EngineInv, Called
  <1>6. Stands(e)'
    BY Zenon, <1>3, <1>5 DEF Stands
  <1>7. orphaned' \/ Sole(e)'
    BY Zenon, <1>1, <1>2, <1>3, <1>5 DEF EngineInv, Sole, Awaits
  <1>8. orphaned' \/ (ui'.conv => ui.conv \/ HasPeer(disk))
    BY Zenon, <1>1, <1>2, <1>3 DEF EngineInv, Sole, HasPeer
  <1>9. Conversing(r)
    BY Zenon, <1>1, <1>3 DEF Conversing
  <1> QED BY Zenon, <1>1, <1>2, <1>3, <1>4, <1>5, <1>6, <1>7, <1>8, <1>9, ThreadStep

\* spawn_resume: the engine has what was saved.
LEMMA ResumedKeeps == ASSUME EngineInv, NEW e \in Engine, Resumed(e) PROVE EngineInv'
  <1>1. PICK r : r = [eng[e] EXCEPT
            !.pc = "serving", !.identity = disk.identity, !.mailbox = disk.mailbox,
            !.group = disk.group, !.kps = disk.kps, !.conv = ui.conv]
    BY Zenon
  <1>2. /\ eng[e] \in Thread /\ eng[e].pc = "resuming" /\ eng[e].init = "none"
        /\ eng \in [Engine -> Thread] /\ disk.mailbox # 0 /\ eng[e].kind = "none"
    BY Zenon DEF Resumed, EngineInv, EngineTyped, Stands
  <1>3. disk \in Rows /\ ui \in UiState
    BY Zenon DEF EngineInv, EngineTyped
  <1>4. /\ r \in Thread /\ r.pc = "serving" /\ r.init = "none" /\ r.mailbox = disk.mailbox
        /\ r.identity = disk.identity /\ r.group = disk.group /\ r.conv = ui.conv
        /\ r.kind = "none"
    BY Zenon, <1>1, <1>2, <1>3 DEF Thread, Rows, UiState
  <1>5. /\ eng' = [eng EXCEPT ![e] = r] /\ ui' = ui /\ blob' = blob /\ orphaned' = orphaned
        /\ UNCHANGED <<disk, backend, queue, caller, mailbox, links, scans>>
    BY Zenon, <1>1, <1>2 DEF Resumed, ResumedConversation, uiVars, relay, counters, bounds
  <1>6. eng'[e] = r
    BY Zenon, <1>2, <1>5
  <1>7. Stands(e)'
    BY Zenon, <1>2, <1>4, <1>5, <1>6 DEF Stands
  <1>8. orphaned' \/ Sole(e)'
    BY Zenon, <1>2, <1>4, <1>5, <1>6 DEF EngineInv, Sole
  <1>9. ui' \in UiState /\ blob' \in {ui', blob} /\ Numbered(ui)' /\ (orphaned => orphaned') /\ orphaned' \in BOOLEAN
    BY Zenon, <1>5 DEF EngineInv, EngineTyped, Numbered
  <1>10. orphaned' \/ Conversing(r)
    BY Zenon, <1>4, <1>5 DEF EngineInv, Paired, Conversing, HasPeer, Restored
  <1> QED BY Zenon, <1>2, <1>4, <1>5, <1>7, <1>8, <1>9, <1>10, ThreadStep

-----------------------------------------------------------------------------
(* Threads that answer or end *)

\* Callers that do not wait for a start are let go, and commands dropped, while
\* thread e moves on.
LEMMA CallersReleased ==
    ASSUME EngineInv, NEW e \in Engine, NEW r, eng' = [eng EXCEPT ![e] = r],
           backend' = backend,
           \A d \in Engine : queue[d] = <<>> => queue'[d] = <<>>,
           \A c \in Caller : caller'[c] = caller[c] \/ (caller'[c] = Idle /\ caller[c].pc # "init"),
           backend = e => r.pc \in {"resuming", "serving", "ended"}
    PROVE  Called' /\ (\A d \in Engine : Awaits(d)' <=> Awaits(d))
  <1>1. \A d \in Engine : eng'[d] = IF d = e THEN r ELSE eng[d]
    BY Zenon DEF EngineInv, EngineTyped
  <1>2. \A d \in Engine : Awaits(d) => caller["ui"].pc = "init"
    BY DEF Awaits
  <1>3. \A d \in Engine : Awaits(d)' <=> Awaits(d)
    BY Zenon, <1>2, Numbering, WaitsDiffer DEF Awaits
  <1>4. backend' # 0 => eng'[backend'].pc \in {"resuming", "serving", "ended"}
    BY Zenon, <1>1 DEF EngineInv, EngineTyped, Called
  <1>5. \A c \in Caller :
            \/ caller'[c] = Idle
            \/ caller'[c] = [pc |-> "reply", on |-> backend'] /\ backend' # 0
            \/ c = "ui" /\ backend' = 0 /\ \E d \in Engine : Awaits(d)'
    BY Zenon, <1>3 DEF EngineInv, Called
  <1> QED BY Zenon, <1>3, <1>4, <1>5 DEF EngineInv, Called

\* The callers let go when a thread ends or an attempt to resume fails.
LEMMA Freed ==
    ASSUME EngineInv, NEW e \in Engine,
           caller' = [c \in Caller |-> IF c \in Waiting(e) THEN Idle ELSE caller[c]]
    PROVE  /\ caller' \in [Caller -> Wait]
           /\ \A c \in Caller : caller'[c] = caller[c] \/ (caller'[c] = Idle /\ caller[c].pc # "init")
  <1>1. Idle \in Wait
    BY Zenon DEF Idle, Wait
  <1>2. caller' \in [Caller -> Wait]
    BY Zenon, <1>1 DEF EngineInv, EngineTyped
  <1>3. \A c \in Waiting(e) : caller[c].pc # "init"
    BY DEF Waiting
  <1> QED BY Zenon, <1>2, <1>3

\* A queue is emptied.
LEMMA Emptied ==
    ASSUME EngineInv, NEW e \in Engine, queue' = [queue EXCEPT ![e] = <<>>]
    PROVE  /\ queue' \in [Engine -> Seq(Command)]
           /\ \A d \in Engine : queue[d] = <<>> => queue'[d] = <<>>
  <1>1. <<>> \in Seq(Command)
    OBVIOUS
  <1> QED BY Zenon, <1>1 DEF EngineInv, EngineTyped

\* A step of thread e that leaves the disk and the UI alone.
LEMMA QuietStep ==
    ASSUME EngineInv, NEW e \in Engine, NEW r \in Thread, eng' = [eng EXCEPT ![e] = r],
           UNCHANGED <<disk, ui, blob, backend, orphaned>>, links' \in Nat, scans' \in Nat,
           mailbox' \in [Engine -> Seq(Push)],
           queue' \in [Engine -> Seq(Command)], caller' \in [Caller -> Wait],
           Called', \A d \in Engine : Awaits(d)' <=> Awaits(d),
           eng[e].pc = "announcing" \/ eng[e].init = "ok" => r.pc = "announcing" \/ r.init = "ok",
           Stands(e)', orphaned' \/ Sole(e)',
           r.pc = "serving" /\ r.conv =>
               /\ eng[e].pc = "serving" /\ eng[e].conv
               /\ r.group = eng[e].group /\ r.kind = eng[e].kind /\ r.identity = eng[e].identity
    PROVE  EngineInv'
  <1>1. EngineTyped'
    BY Zenon DEF EngineInv, EngineTyped
  <1>2. Numbered(ui)' /\ Numbered(blob)'
    BY Zenon DEF EngineInv, Numbered
  <1>3. orphaned' \/ (ui'.conv \/ blob'.conv => HasPeer(disk'))
    BY Zenon DEF EngineInv, Paired
  <1>4. orphaned' \/ Conversing(r)
    BY Zenon DEF EngineInv, Paired, Conversing, Restored
  <1> QED BY Zenon, <1>1, <1>2, <1>3, <1>4, ThreadMoves

\* A thread that was not started, or is gone.
LEMMA EmptyThread ==
    /\ NoEngine \in Thread /\ NoEngine.pc = "unborn" /\ NoEngine.kind = "none"
    /\ NoEngine.init = "none" /\ NoEngine.conv = FALSE
  BY DEF NoEngine, Thread, None

\* A thread returns.
LEMMA EndKeeps ==
    ASSUME EngineInv, NEW e \in Engine, NEW init \in {"none", "ok", "err"}, End(e, init),
           UNCHANGED <<disk, ui, blob, backend, mailbox, orphaned, links, scans>>,
           eng[e].pc # "announcing", eng[e].init = "ok" => init = "ok"
    PROVE  EngineInv'
  <1>1. PICK r : r = [NoEngine EXCEPT !.pc = "ended", !.init = init]
    BY Zenon
  <1>2. r \in Thread /\ r.pc = "ended" /\ r.init = init /\ ~r.conv
    BY Zenon, <1>1, EmptyThread DEF Thread
  <1>3. eng' = [eng EXCEPT ![e] = r]
    BY Zenon, <1>1 DEF End
  <1>4. /\ caller' \in [Caller -> Wait]
        /\ \A c \in Caller : caller'[c] = caller[c] \/ (caller'[c] = Idle /\ caller[c].pc # "init")
    BY Zenon, Freed DEF End
  <1>5. /\ queue' \in [Engine -> Seq(Command)]
        /\ \A d \in Engine : queue[d] = <<>> => queue'[d] = <<>>
    BY Zenon, Emptied DEF End
  <1>6. Called' /\ (\A d \in Engine : Awaits(d)' <=> Awaits(d))
    BY Zenon, <1>2, <1>3, <1>4, <1>5, CallersReleased
  <1>7. eng'[e] = r
    BY Zenon, <1>3 DEF EngineInv, EngineTyped
  <1>8. Stands(e)' /\ Sole(e)'
    BY Zenon, <1>2, <1>7 DEF Stands, Sole
  <1>9. mailbox' \in [Engine -> Seq(Push)] /\ links' \in Nat /\ scans' \in Nat
    BY Zenon DEF EngineInv, EngineTyped
  <1> QED BY Zenon, <1>2, <1>3, <1>4, <1>5, <1>6, <1>8, <1>9, QuietStep

\* The relay or the disk fails, a push cannot be used, every sender of the
\* commands is gone, or reconnect gives up.
LEMMA EndsKeep ==
    ASSUME EngineInv, NEW e \in Engine,
           StartFails(e) \/ Chokes(e) \/ Abandoned(e) \/ Disconnects(e)
    PROVE  EngineInv'
  <1>1. UNCHANGED <<disk, ui, blob, backend, mailbox, orphaned, links, scans>>
    BY Zenon DEF StartFails, Chokes, Abandoned, Disconnects, uiVars, relay, counters, bounds
  <1>2. eng[e].init \in {"none", "ok", "err"} /\ Stands(e)
    BY Zenon DEF EngineInv, EngineTyped, Thread
  <1>3. CASE StartFails(e)
    <2>1. eng[e].pc # "announcing" /\ eng[e].init # "ok" /\ End(e, "err")
      BY Zenon, <1>2, <1>3 DEF StartFails, Stands
    <2> QED BY Zenon, <1>1, <2>1, EndKeeps
  <1>4. CASE Chokes(e) \/ Abandoned(e) \/ Disconnects(e)
    <2>1. eng[e].pc # "announcing" /\ End(e, eng[e].init)
      BY Zenon, <1>4 DEF Chokes, Abandoned, Disconnects, HasPush, Selecting
    <2> QED BY Zenon, <1>1, <1>2, <2>1, EndKeeps
  <1> QED BY Zenon, <1>3, <1>4

\* contact_link fails: whoever waited for the thread, it left what it saved.
LEMMA LinkFailsKeeps == ASSUME EngineInv, NEW e \in Engine, LinkFails(e) PROVE EngineInv'
  <1>1. PICK r : r = [NoEngine EXCEPT !.pc = "ended", !.init = "err"]
    BY Zenon
  <1>2. r \in Thread /\ r.pc = "ended" /\ r.init = "err" /\ ~r.conv
    BY Zenon, <1>1, EmptyThread DEF Thread
  <1>3. /\ eng' = [eng EXCEPT ![e] = r] /\ eng[e].pc = "announcing"
        /\ UNCHANGED <<disk, ui, blob, backend, mailbox, links, scans>>
        /\ orphaned' = (orphaned \/ Held(e))
    BY Zenon, <1>1 DEF LinkFails, End, Unclaimed, uiVars, relay, bounds
  <1>4. orphaned' = TRUE
    <2>1. orphaned \/ Awaits(e)
      BY Zenon, <1>3 DEF EngineInv, Sole
    <2>2. Awaits(e) => Held(e)
      BY Numbering DEF Awaits, Held
    <2> QED BY Zenon, <1>3, <2>1, <2>2
  <1>5. /\ caller' \in [Caller -> Wait]
        /\ \A c \in Caller : caller'[c] = caller[c] \/ (caller'[c] = Idle /\ caller[c].pc # "init")
    BY Zenon, Freed DEF LinkFails, End
  <1>6. /\ queue' \in [Engine -> Seq(Command)]
        /\ \A d \in Engine : queue[d] = <<>> => queue'[d] = <<>>
    BY Zenon, Emptied DEF LinkFails, End
  <1>7. Called' /\ (\A d \in Engine : Awaits(d)' <=> Awaits(d))
    BY Zenon, <1>2, <1>3, <1>5, <1>6, CallersReleased
  <1>8. EngineTyped'
    BY Zenon, <1>2, <1>3, <1>4, <1>5, <1>6 DEF EngineInv, EngineTyped
  <1>9. eng'[e] = r
    BY Zenon, <1>3 DEF EngineInv, EngineTyped
  <1>10. Stands(e)'
    BY Zenon, <1>2, <1>9 DEF Stands
  <1>11. Numbered(ui)' /\ Numbered(blob)'
    BY Zenon, <1>3 DEF EngineInv, Numbered
  <1> QED BY Zenon, <1>3, <1>4, <1>7, <1>8, <1>10, <1>11, ThreadMoves

\* reject_offline.
LEMMA ResumeFailsKeeps == ASSUME EngineInv, NEW e \in Engine, ResumeFails(e) PROVE EngineInv'
  <1>1. /\ eng[e] \in Thread /\ eng[e].pc = "resuming" /\ eng \in [Engine -> Thread]
        /\ Stands(e) /\ eng[e].init = "none"
    BY Zenon DEF ResumeFails, EngineInv, EngineTyped, Stands
  <1>2. /\ UNCHANGED <<disk, ui, blob, backend, orphaned>>
        /\ mailbox' \in [Engine -> Seq(Push)] /\ links' \in Nat /\ scans' \in Nat
    BY Zenon DEF ResumeFails, uiVars, relay, counters, bounds, EngineInv, EngineTyped
  <1>3. eng' = [eng EXCEPT ![e] = eng[e]] /\ eng' = eng
    BY Zenon, <1>1 DEF ResumeFails
  <1>4. /\ caller' \in [Caller -> Wait]
        /\ \A c \in Caller : caller'[c] = caller[c] \/ (caller'[c] = Idle /\ caller[c].pc # "init")
    BY Zenon, Freed DEF ResumeFails
  <1>5. /\ queue' \in [Engine -> Seq(Command)]
        /\ \A d \in Engine : queue[d] = <<>> => queue'[d] = <<>>
    BY Zenon, Emptied DEF ResumeFails
  <1>6. Called' /\ (\A d \in Engine : Awaits(d)' <=> Awaits(d))
    BY Zenon, <1>1, <1>2, <1>3, <1>4, <1>5, CallersReleased
  <1>7. Stands(e)' /\ (orphaned' \/ Sole(e)')
    BY Zenon, <1>2, <1>3, <1>6, ThreadStays
  <1> QED BY Zenon, <1>1, <1>2, <1>3, <1>4, <1>5, <1>6, <1>7, QuietStep

\* The top of the loop: a paired engine without a conversation makes one.
LEMMA MakesConversationKeeps ==
    ASSUME EngineInv, NEW e \in Engine, MakesConversation(e) PROVE EngineInv'
  <1>1. PICK r : r = [eng[e] EXCEPT !.conv = TRUE]
    BY Zenon
  <1>2. /\ eng[e] \in Thread /\ eng[e].pc = "serving" /\ eng[e].group # 0 /\ Stands(e)
        /\ eng \in [Engine -> Thread] /\ ui \in UiState /\ Numbered(ui) /\ CreateConversation
    BY Zenon DEF MakesConversation, LacksConversation, EngineInv, EngineTyped
  <1>3. /\ r \in Thread /\ r.pc = "serving" /\ r.init = eng[e].init /\ r.mailbox = eng[e].mailbox
        /\ r.identity = eng[e].identity /\ r.group = eng[e].group
    BY Zenon, <1>1, <1>2 DEF Thread
  <1>4. /\ eng' = [eng EXCEPT ![e] = r]
        /\ UNCHANGED <<disk, backend, queue, caller, mailbox, links, scans>>
        /\ orphaned' = orphaned /\ (orphaned => orphaned') /\ orphaned' \in BOOLEAN
    BY Zenon, <1>1, <1>2 DEF MakesConversation, relay, counters, bounds, EngineInv, EngineTyped
  <1>5. ui' \in UiState /\ blob' \in {ui', blob} /\ Numbered(ui)'
    BY Zenon, <1>2, ShownNumbers
  <1>6. eng'[e] = r
    BY Zenon, <1>2, <1>4
  <1>7. Stands(e)'
    BY Zenon, <1>2, <1>3, <1>4, <1>6 DEF Stands
  <1>8. orphaned' \/ Sole(e)'
    BY Zenon, <1>2, <1>3, <1>4, <1>6 DEF EngineInv, Sole, Awaits
  <1>9. orphaned' \/ (ui'.conv => ui.conv \/ HasPeer(disk))
    BY Zenon, <1>2, <1>4 DEF EngineInv, Sole, HasPeer
  <1>10. Conversing(r)
    BY Zenon, <1>2, <1>3 DEF Conversing
  <1> QED BY Zenon, <1>2, <1>3, <1>4, <1>5, <1>7, <1>8, <1>9, <1>10, ThreadStep

\* forward_event.
LEMMA ForwardsKeeps == ASSUME EngineInv, NEW e \in Engine, Forwards(e) PROVE EngineInv'
  <1>1. PICK r : r = [eng[e] EXCEPT !.got = eng[e].got - 1]
    BY Zenon
  <1>2. /\ eng[e] \in Thread /\ eng[e].pc = "serving" /\ Stands(e)
        /\ eng \in [Engine -> Thread] /\ ui \in UiState /\ Numbered(ui) /\ Record
    BY Zenon DEF Forwards, Selecting, EngineInv, EngineTyped
  <1>3. /\ r \in Thread /\ r.pc = "serving" /\ r.init = eng[e].init /\ r.mailbox = eng[e].mailbox
        /\ r.identity = eng[e].identity /\ r.group = eng[e].group /\ r.conv = eng[e].conv
        /\ r.kind = eng[e].kind
    BY <1>1, <1>2 DEF Thread
  <1>4. eng' = [eng EXCEPT ![e] = r]
    BY Zenon, <1>1, <1>2 DEF Forwards
  <1>5. /\ UNCHANGED <<disk, backend, queue, caller, mailbox, links, scans>>
        /\ orphaned' = orphaned /\ (orphaned => orphaned') /\ orphaned' \in BOOLEAN
    BY Zenon DEF Forwards, relay, counters, bounds, EngineInv, EngineTyped
  <1>6. ui' \in UiState /\ blob' \in {ui', blob} /\ Numbered(ui)' /\ ui'.conv = ui.conv
    BY Zenon, <1>2, RecordNumbers
  <1>7. eng'[e] = r
    BY Zenon, <1>2, <1>4
  <1>8. Stands(e)'
    BY Zenon, <1>2, <1>3, <1>5, <1>7 DEF Stands
  <1>9. orphaned' \/ Sole(e)'
    BY Zenon, <1>2, <1>3, <1>5, <1>7 DEF EngineInv, Sole, Awaits
  <1>10. orphaned' \/ Conversing(r)
    BY Zenon, <1>2, <1>3, <1>5 DEF EngineInv, Paired, Conversing, Restored
  <1> QED BY Zenon, <1>2, <1>3, <1>4, <1>5, <1>6, <1>8, <1>9, <1>10, ThreadStep

\* A serving thread saves what it has, its group kept or its first one.
LEMMA SavingStep ==
    ASSUME EngineInv, NEW e \in Engine, NEW r \in Thread, eng' = [eng EXCEPT ![e] = r],
           eng[e].pc = "serving", r.pc = "serving", r.init = eng[e].init, r.conv = eng[e].conv,
           r.kind = eng[e].kind, r.mailbox = eng[e].mailbox, r.identity = eng[e].identity,
           r.group = eng[e].group \/ (eng[e].group = 0 /\ ~eng[e].conv),
           disk' = Saved(r), UNCHANGED <<backend, orphaned, links, scans>>,
           mailbox' \in [Engine -> Seq(Push)],
           queue' \in [Engine -> Seq(Command)], caller' \in [Caller -> Wait],
           Called', \A d \in Engine : Awaits(d)' <=> Awaits(d),
           ui' \in UiState, blob' \in {ui', blob}, Numbered(ui)', ui'.conv = ui.conv
    PROVE  EngineInv'
  <1>1. /\ disk' \in Rows /\ disk'.mailbox = r.mailbox
        /\ disk'.identity = r.identity /\ disk'.group = r.group
    BY Zenon DEF Saved, Rows, Thread
  <1>2. EngineTyped'
    BY Zenon, <1>1 DEF EngineInv, EngineTyped
  <1>3. eng'[e] = r /\ Stands(e) /\ disk'.mailbox # 0
    BY Zenon, <1>1 DEF EngineInv, EngineTyped, Stands
  <1>4. Stands(e)'
    BY Zenon, <1>3 DEF Stands
  <1>5. orphaned' \/ Sole(e)'
    BY Zenon, <1>1, <1>3 DEF EngineInv, Sole
  <1>6. Numbered(blob)'
    BY Zenon DEF EngineInv, Numbered
  <1>7. ASSUME ~orphaned' PROVE ui'.conv \/ blob'.conv => HasPeer(disk')
    <2>1. /\ ui'.conv \/ blob'.conv => HasPeer(disk)
          /\ eng[e].group = disk.group /\ eng[e].identity = disk.identity
      BY Zenon, <1>7 DEF EngineInv, Paired, Sole
    <2> QED BY Zenon, <1>1, <2>1 DEF HasPeer, Restored
  <1>8. orphaned' \/ Conversing(r)
    BY Zenon DEF EngineInv, Paired, Conversing, Restored
  <1> QED BY Zenon, <1>2, <1>3, <1>4, <1>5, <1>6, <1>7, <1>8, ThreadMoves

\* A serving thread's mailbox, and the push at its head.
LEMMA HeadPush ==
    ASSUME EngineInv, NEW e \in Engine, HasPush(e),
           mailbox' = [mailbox EXCEPT ![eng[e].mailbox] = Tail(@)]
    PROVE  /\ Pushed(e) \in Push
           /\ mailbox' \in [Engine -> Seq(Push)]
  <1>1. eng[e].pc = "serving" /\ eng[e] \in Thread /\ eng[e].mailbox # 0
    BY Zenon DEF HasPush, Selecting, EngineInv, EngineTyped, Stands
  <1>2. PICK m \in Engine : m = eng[e].mailbox
    BY Zenon, <1>1 DEF Thread
  <1>3. mailbox \in [Engine -> Seq(Push)] /\ mailbox[m] \in Seq(Push) /\ mailbox[m] # <<>>
    BY Zenon, <1>2 DEF HasPush, EngineInv, EngineTyped
  <1>4. Head(mailbox[m]) \in Push /\ Tail(mailbox[m]) \in Seq(Push)
    BY <1>3
  <1>5. mailbox' = [mailbox EXCEPT ![m] = Tail(mailbox[m])]
    BY Zenon, <1>2, <1>3
  <1> QED BY Zenon, <1>2, <1>3, <1>4, <1>5 DEF Pushed

\* await_pairing.
LEMMA PairsKeeps == ASSUME EngineInv, NEW e \in Engine, Pairs(e) PROVE EngineInv'
  <1>1. PICK p : p = Pushed(e)
    BY Zenon
  <1>2. PICK r : r = [eng[e] EXCEPT !.group = p.group, !.kps = eng[e].kps \ {p.welcome}]
    BY Zenon
  <1>3. /\ eng[e] \in Thread /\ eng[e].pc = "serving" /\ eng \in [Engine -> Thread]
        /\ ~eng[e].conv /\ eng[e].group = 0
    BY Zenon DEF Pairs, HasPush, Selecting, LacksConversation, EngineInv, EngineTyped
  <1>4. p \in Push /\ mailbox' \in [Engine -> Seq(Push)]
    BY Zenon, <1>1, HeadPush DEF Pairs
  <1>5. /\ r \in Thread /\ r.pc = "serving" /\ r.init = eng[e].init /\ r.mailbox = eng[e].mailbox
        /\ r.identity = eng[e].identity /\ r.conv = eng[e].conv /\ r.kind = eng[e].kind
    BY Zenon, <1>2, <1>3, <1>4 DEF Thread, Push
  <1>6. Joined(eng[e], p.welcome, p.group) = r
    BY Zenon, <1>2, <1>3 DEF Joined, Thread
  <1>7. eng' = [eng EXCEPT ![e] = r] /\ disk' = Saved(r)
    BY Zenon, <1>1, <1>6 DEF Pairs
  <1>8. UNCHANGED <<backend, queue, caller>> /\ UNCHANGED <<backend, orphaned, links, scans>>
    BY Zenon DEF Pairs, counters, bounds
  <1>9. Called' /\ \A d \in Engine : Awaits(d)' <=> Awaits(d)
    BY Zenon, <1>5, <1>7, <1>8, CallersStay
  <1>10. /\ queue' \in [Engine -> Seq(Command)] /\ caller' \in [Caller -> Wait]
         /\ ui' \in UiState /\ blob' \in {ui', blob} /\ Numbered(ui)' /\ ui'.conv = ui.conv
    BY Zenon, <1>8 DEF Pairs, uiVars, EngineInv, EngineTyped, Numbered
  <1> QED BY Zenon, <1>3, <1>4, <1>5, <1>7, <1>8, <1>9, <1>10, SavingStep

\* pump_one.
LEMMA PumpsKeeps == ASSUME EngineInv, NEW e \in Engine, Pumps(e) PROVE EngineInv'
  <1>1. PICK r : r = [eng[e] EXCEPT !.got = eng[e].got + 1]
    BY Zenon
  <1>2. eng[e] \in Thread /\ eng[e].pc = "serving" /\ eng \in [Engine -> Thread]
    BY Zenon DEF Pumps, HasPush, Selecting, EngineInv, EngineTyped
  <1>3. /\ r \in Thread /\ r.pc = "serving" /\ r.init = eng[e].init /\ r.mailbox = eng[e].mailbox
        /\ r.identity = eng[e].identity /\ r.conv = eng[e].conv /\ r.group = eng[e].group
        /\ r.kind = eng[e].kind /\ Saved(r) = Saved(eng[e])
    BY <1>1, <1>2 DEF Thread, Saved
  <1>4. eng' = [eng EXCEPT ![e] = r]
    BY Zenon, <1>1, <1>2 DEF Pumps
  <1>5. mailbox' \in [Engine -> Seq(Push)] /\ disk' = Saved(r)
    BY Zenon, <1>3, HeadPush DEF Pumps
  <1>6. UNCHANGED <<backend, queue, caller>> /\ UNCHANGED <<backend, orphaned, links, scans>>
    BY Zenon DEF Pumps, counters, bounds
  <1>7. Called' /\ \A d \in Engine : Awaits(d)' <=> Awaits(d)
    BY Zenon, <1>3, <1>4, <1>6, CallersStay
  <1>8. /\ queue' \in [Engine -> Seq(Command)] /\ caller' \in [Caller -> Wait]
        /\ ui' \in UiState /\ blob' \in {ui', blob} /\ Numbered(ui)' /\ ui'.conv = ui.conv
    BY Zenon, <1>6 DEF Pumps, uiVars, EngineInv, EngineTyped, Numbered
  <1> QED BY Zenon, <1>2, <1>3, <1>4, <1>5, <1>6, <1>7, <1>8, SavingStep

\* handle_command.
LEMMA HandleCommandKeeps == ASSUME EngineInv, NEW e \in Engine, HandleCommand(e) PROVE EngineInv'
  <1>1. PICK q : q = Head(queue[e])
    BY Zenon
  <1>2. /\ eng[e] \in Thread /\ eng[e].pc = "serving" /\ eng \in [Engine -> Thread] /\ Stands(e)
        /\ queue \in [Engine -> Seq(Command)] /\ queue[e] # <<>> /\ caller \in [Caller -> Wait]
        /\ ui \in UiState /\ Numbered(ui)
    BY Zenon DEF HandleCommand, Selecting, EngineInv, EngineTyped
  <1>3. q \in Command /\ Tail(queue[e]) \in Seq(Command)
    BY <1>1, <1>2
  <1>4. q.from \in Caller /\ q.cmd \in Nat /\ Idle \in Wait
    BY Zenon, <1>3 DEF Command, Wait, Idle
  <1>5. queue' = [queue EXCEPT ![e] = Tail(queue[e])] /\ caller' = [caller EXCEPT ![q.from] = Idle]
    BY Zenon, <1>1, <1>2 DEF HandleCommand
  <1>6. /\ queue' \in [Engine -> Seq(Command)] /\ caller' \in [Caller -> Wait]
        /\ \A d \in Engine : queue[d] = <<>> => queue'[d] = <<>>
    BY Zenon, <1>2, <1>3, <1>4, <1>5
  <1>7. backend = e /\ backend # 0
    BY Zenon, <1>2, Numbering DEF EngineInv, Called
  <1>8. ASSUME NEW c \in Caller PROVE caller[c].pc # "init"
    <2>1. caller[c] = Idle \/ caller[c] = [pc |-> "reply", on |-> backend]
      BY Zenon, <1>7 DEF EngineInv, Called
    <2> QED BY <2>1 DEF Idle
  <1>9. \A c \in Caller : caller'[c] = caller[c] \/ (caller'[c] = Idle /\ caller[c].pc # "init")
    BY Zenon, <1>2, <1>5, <1>8
  <1>10. UNCHANGED <<backend, orphaned, links, scans>> /\ mailbox' \in [Engine -> Seq(Push)]
    BY Zenon DEF HandleCommand, counters, bounds, EngineInv, EngineTyped
  <1>11. ASSUME NEW r, eng' = [eng EXCEPT ![e] = r], r.pc = "serving"
         PROVE  Called' /\ (\A d \in Engine : Awaits(d)' <=> Awaits(d))
    BY Zenon, <1>6, <1>9, <1>10, <1>11, CallersReleased
  <1>12. CASE q.cmd # 0
    <2>1. PICK r : r = [eng[e] EXCEPT !.kps = eng[e].kps \cup {q.cmd}]
      BY Zenon
    <2>2. /\ r \in Thread /\ r.pc = "serving" /\ r.init = eng[e].init /\ r.mailbox = eng[e].mailbox
          /\ r.identity = eng[e].identity /\ r.conv = eng[e].conv /\ r.group = eng[e].group
          /\ r.kind = eng[e].kind
      BY Zenon, <1>2, <1>4, <2>1 DEF Thread
    <2>3. Linked(eng[e], q.cmd) = r
      BY Zenon, <1>2, <2>1 DEF Linked, Thread
    <2>4. /\ eng' = [eng EXCEPT ![e] = r] /\ UNCHANGED <<disk, ui, blob, backend, orphaned>>
          /\ links' \in Nat /\ scans' \in Nat
      BY Zenon, <1>1, <1>2, <1>10, <1>12, <2>3 DEF HandleCommand, uiVars, EngineInv, EngineTyped
    <2>5. eng'[e] = r
      BY Zenon, <1>2, <2>4
    <2>6. Called' /\ (\A d \in Engine : Awaits(d)' <=> Awaits(d))
      BY Zenon, <1>11, <2>2, <2>4
    <2>7. Stands(e)' /\ (orphaned' \/ Sole(e)')
      BY Zenon, <1>2, <2>2, <2>4, <2>5, <2>6 DEF EngineInv, Stands, Sole
    <2> QED BY Zenon, <1>2, <1>6, <1>10, <2>2, <2>4, <2>6, <2>7, QuietStep
  <1>13. CASE q.cmd = 0
    <2>1. eng' = [eng EXCEPT ![e] = eng[e]] /\ eng' = eng
      BY Zenon, <1>1, <1>2, <1>13 DEF HandleCommand
    <2>2. Called' /\ (\A d \in Engine : Awaits(d)' <=> Awaits(d))
      BY Zenon, <1>2, <1>11, <2>1
    <2>3. CASE eng[e].group # 0
      <3>1. Record /\ disk' = Saved(eng[e])
        BY Zenon, <1>1, <1>13, <2>3 DEF HandleCommand
      <3>2. ui' \in UiState /\ blob' \in {ui', blob} /\ Numbered(ui)' /\ ui'.conv = ui.conv
        BY Zenon, <1>2, <3>1, RecordNumbers
      <3> QED BY Zenon, <1>2, <1>6, <1>10, <2>1, <2>2, <3>1, <3>2, SavingStep
    <2>4. CASE eng[e].group = 0
      <3>1. UNCHANGED <<disk, ui, blob, backend, orphaned>> /\ links' \in Nat /\ scans' \in Nat
        BY Zenon, <1>1, <1>10, <1>13, <2>4 DEF HandleCommand, uiVars, EngineInv, EngineTyped
      <3>2. Stands(e)' /\ (orphaned' \/ Sole(e)')
        BY Zenon, <2>1, <2>2, <3>1, ThreadStays
      <3> QED BY Zenon, <1>2, <1>6, <1>10, <2>1, <2>2, <3>1, <3>2, QuietStep
    <2> QED BY Zenon, <2>3, <2>4
  <1> QED BY Zenon, <1>12, <1>13

-----------------------------------------------------------------------------
(* Calls, peers and relaunches *)

\* A caller puts a command in the queue of the engine the app holds.
LEMMA AskKeeps ==
    ASSUME EngineInv, NEW c \in Caller, NEW cmd \in Nat, backend # 0, caller[c] = Idle,
           Ask(c, backend, cmd), UNCHANGED <<disk, ui, blob, backend, eng, mailbox, orphaned>>,
           links' \in Nat, scans' \in Nat
    PROVE  EngineInv'
  <1>1. PICK e \in Engine : e = backend
    BY Zenon DEF EngineInv, EngineTyped
  <1>2. /\ eng[e] \in Thread /\ eng \in [Engine -> Thread] /\ Stands(e)
        /\ queue \in [Engine -> Seq(Command)] /\ caller \in [Caller -> Wait]
        /\ mailbox' \in [Engine -> Seq(Push)]
    BY Zenon DEF EngineInv, EngineTyped
  <1>3. PICK w : w = [pc |-> "reply", on |-> e]
    BY Zenon
  <1>4. PICK q : q = [cmd |-> cmd, from |-> c]
    BY Zenon
  <1>5. w \in Wait /\ q \in Command
    BY Zenon, <1>3, <1>4 DEF Wait, Command
  <1>6. Append(queue[e], q) \in Seq(Command)
    BY <1>2, <1>5
  <1>7. queue' = [queue EXCEPT ![e] = Append(queue[e], q)] /\ caller' = [caller EXCEPT ![c] = w]
    BY Zenon, <1>1, <1>2, <1>3, <1>4 DEF Ask
  <1>8. queue' \in [Engine -> Seq(Command)] /\ caller' \in [Caller -> Wait]
    BY Zenon, <1>2, <1>5, <1>6, <1>7
  <1>9. \A d \in Engine : ~Awaits(d) /\ ~Awaits(d)'
    <2>1. \A d \in Engine : ~Awaits(d)
      BY Zenon, AwaitedAlone DEF EngineInv
    <2> QED BY Zenon, <1>2, <1>3, <1>7, <2>1, Numbering, WaitsDiffer DEF Awaits
  <1>10. Called'
    <2>1. \A d \in Caller : caller'[d] = Idle \/ caller'[d] = [pc |-> "reply", on |-> backend']
      BY Zenon, <1>1, <1>2, <1>3, <1>7 DEF EngineInv, Called
    <2>2. \A d \in Engine : queue'[d] # <<>> => backend' = d
      BY Zenon, <1>1, <1>2, <1>7 DEF EngineInv, Called
    <2> QED BY Zenon, <2>1, <2>2 DEF EngineInv, Called
  <1>11. eng' = [eng EXCEPT ![e] = eng[e]] /\ eng' = eng
    BY Zenon, <1>2
  <1>12. Stands(e)' /\ (orphaned' \/ Sole(e)')
    BY Zenon, <1>9, <1>11, ThreadStays
  <1> QED BY Zenon, <1>2, <1>8, <1>9, <1>10, <1>11, <1>12, QuietStep

\* The app waits for nobody and holds no engine.
LEMMA NobodyWaits ==
    ASSUME EngineInv, caller["ui"] = Idle, backend = 0
    PROVE  /\ \A c \in Caller : caller[c] = Idle
           /\ \A e \in Engine : queue[e] = <<>> /\ ~Awaits(e)
           /\ orphaned \/ disk.mailbox = 0
  <1>1. \A e \in Engine : ~Awaits(e)
    BY Zenon, WaitsDiffer DEF Awaits
  <1>2. \A c \in Caller : caller[c] = Idle
    BY Zenon, <1>1 DEF EngineInv, Called
  <1>3. \A e \in Engine : queue[e] = <<>>
    BY Zenon, Numbering DEF EngineInv, Called
  <1> QED BY Zenon, <1>1, <1>2, <1>3 DEF EngineInv, Kept

\* A thread is started only where nothing is saved.
LEMMA SpawnKeeps ==
    ASSUME EngineInv, NEW kind \in {"listen", "scan"}, NEW link \in Nat,
           caller["ui"] = Idle, backend = 0, Spawn("ui", kind, link),
           UNCHANGED <<disk, ui, blob, backend, queue, mailbox, orphaned, scans>>, links' \in Nat
    PROVE  EngineInv'
  <1>1. PICK e \in Engine : e = NextEngine /\ eng[e].pc = "unborn"
    BY Zenon, NextIsUnborn DEF Spawn, Unborn
  <1>2. PICK r : r = [eng[e] EXCEPT !.pc = "spawned", !.kind = kind, !.link = link]
    BY Zenon
  <1>3. PICK w : w = [pc |-> "init", on |-> e]
    BY Zenon
  <1>4. /\ eng[e] \in Thread /\ eng \in [Engine -> Thread] /\ caller \in [Caller -> Wait]
        /\ eng[e].init = "none" /\ ~eng[e].conv
    BY Zenon, <1>1 DEF EngineInv, EngineTyped, Stands
  <1>5. r \in Thread /\ r.pc = "spawned" /\ r.init = "none" /\ ~r.conv
    BY Zenon, <1>2, <1>4 DEF Thread
  <1>6. eng' = [eng EXCEPT ![e] = r]
    BY Zenon, <1>1, <1>2, <1>4 DEF Spawn
  <1>7. caller' = [caller EXCEPT !["ui"] = w]
    BY Zenon, <1>1, <1>3 DEF Spawn
  <1>8. w \in Wait
    BY Zenon, <1>3 DEF Wait
  <1>9. eng' \in [Engine -> Thread] /\ caller' \in [Caller -> Wait]
    BY Zenon, <1>4, <1>5, <1>6, <1>7, <1>8
  <1>10. EngineTyped'
    BY Zenon, <1>9 DEF EngineInv, EngineTyped
  <1>11. /\ \A c \in Caller : caller[c] = Idle
         /\ \A d \in Engine : queue[d] = <<>> /\ ~Awaits(d)
         /\ orphaned \/ disk.mailbox = 0
    BY Zenon, NobodyWaits
  <1>12. /\ Awaits(e)'
         /\ \A c \in Caller : c = "ui" \/ caller'[c] = Idle
    BY Zenon, <1>3, <1>4, <1>7, <1>11, Numbering DEF Awaits
  <1>13. Called'
    BY Zenon, <1>11, <1>12 DEF Called
  <1>14. eng'[e] = r /\ \A d \in Engine \ {e} : eng'[d] = eng[d]
    BY Zenon, <1>4, <1>6
  <1>15. Stands(e)' /\ Sole(e)'
    BY Zenon, <1>5, <1>14 DEF Stands, Sole
  <1>16. ASSUME NEW d \in Engine, d # e PROVE Stands(d)' /\ (orphaned' \/ Sole(d)')
    <2>1. eng'[d] = eng[d] /\ Stands(d) /\ (orphaned \/ Sole(d))
      BY Zenon, <1>14, <1>16 DEF EngineInv
    <2>2. Stands(d)'
      BY Zenon, <2>1 DEF Stands
    <2>3. orphaned' \/ Sole(d)'
      BY Zenon, <1>11, <2>1, Numbering DEF Sole
    <2> QED BY Zenon, <2>2, <2>3
  <1>17. orphaned' \/ Kept'
    BY Zenon, <1>11 DEF Kept
  <1>18. orphaned' \/ Paired'
    <2>1. orphaned \/ Paired
      BY Zenon DEF EngineInv
    <2>2. Conversing(r)
      BY Zenon, <1>5 DEF Conversing
    <2> QED BY Zenon, <1>14, <2>1, <2>2 DEF Paired
  <1>19. Numbered(ui)' /\ Numbered(blob)' /\ (disk'.mailbox = 0 => disk'.group = 0)
    BY Zenon DEF EngineInv, Numbered
  <1> QED BY Zenon, <1>10, <1>13, <1>15, <1>16, <1>17, <1>18, <1>19 DEF EngineInv

\* create_contact_link, pair_with_link and send.
LEMMA CallsKeep ==
    ASSUME EngineInv, CreateContactLink \/ PairWithLink \/ \E c \in Caller : Send(c)
    PROVE  EngineInv'
  <1>1. links \in Nat /\ scans \in Nat /\ links + 1 \in Nat /\ 0 \in Nat
    BY DEF EngineInv, EngineTyped
  <1>2. CASE CreateContactLink
    <2>1. /\ caller["ui"] = Idle /\ links' \in Nat /\ scans' \in Nat /\ "ui" \in Caller
          /\ UNCHANGED <<disk, ui, blob, backend, mailbox, orphaned, scans>>
      BY Zenon, <1>1, <1>2, Numbering DEF CreateContactLink, uiVars, relay
    <2>2. CASE backend # 0
      <3>1. Ask("ui", backend, links + 1) /\ UNCHANGED <<disk, ui, blob, backend, eng, mailbox, orphaned>>
        BY Zenon, <1>2, <2>1, <2>2 DEF CreateContactLink
      <3> QED BY Zenon, <1>1, <2>1, <2>2, <3>1, AskKeeps
    <2>3. CASE backend = 0
      <3>1. /\ Spawn("ui", "listen", links + 1)
            /\ UNCHANGED <<disk, ui, blob, backend, queue, mailbox, orphaned, scans>>
        BY Zenon, <1>2, <2>1, <2>3 DEF CreateContactLink
      <3> QED BY Zenon, <1>1, <2>1, <2>3, <3>1, SpawnKeeps
    <2> QED BY Zenon, <2>2, <2>3
  <1>3. CASE PairWithLink
    <2>1. /\ caller["ui"] = Idle /\ backend = 0 /\ Spawn("ui", "scan", 0) /\ links' \in Nat
          /\ UNCHANGED <<disk, ui, blob, backend, queue, mailbox, orphaned, scans>>
      BY Zenon, <1>1, <1>3 DEF PairWithLink, uiVars, relay, counters, bounds
    <2> QED BY Zenon, <1>1, <2>1, SpawnKeeps
  <1>4. ASSUME NEW c \in Caller, Send(c) PROVE EngineInv'
    <2>1. /\ caller[c] = Idle /\ backend # 0 /\ Ask(c, backend, 0)
          /\ UNCHANGED <<disk, ui, blob, backend, eng, mailbox, orphaned>>
          /\ links' \in Nat /\ scans' \in Nat
      BY Zenon, <1>1, <1>4 DEF Send, uiVars, relay
    <2> QED BY Zenon, <1>1, <2>1, AskKeeps
  <1> QED BY Zenon, <1>2, <1>3, <1>4

\* Who waits for a start.
LEMMA StartAwaited ==
    ASSUME EngineInv, NEW c \in Caller, caller[c].pc = "init"
    PROVE  c = "ui" /\ caller[c].on \in Engine /\ Awaits(caller[c].on)
  <1>1. caller[c] # Idle /\ caller[c] # [pc |-> "reply", on |-> backend]
    BY DEF Idle
  <1>2. PICK e \in Engine : c = "ui" /\ Awaits(e)
    BY Zenon, <1>1 DEF EngineInv, Called
  <1>3. caller[c].on = e
    BY <1>2 DEF Awaits
  <1> QED BY Zenon, <1>2, <1>3

\* The wait for a start is over: the app takes the engine, or the thread failed
\* or did not connect yet, or it goes on alone.
LEMMA StartOver ==
    ASSUME EngineInv, NEW e \in Engine, Awaits(e), caller' = [caller EXCEPT !["ui"] = Idle],
           UNCHANGED <<disk, ui, blob, eng, queue, mailbox, links, scans>>,
           orphaned' \in BOOLEAN, orphaned => orphaned',
           \/ backend' = e /\ eng[e].init = "ok"
           \/ /\ backend' = 0
              /\ orphaned' \/ eng[e].init = "err"
                 \/ (eng[e].pc \in {"spawned", "connecting"} /\ eng[e].init = "none")
    PROVE  EngineInv'
  <1>1. Idle \in Wait
    BY Zenon DEF Idle, Wait
  <1>2. backend' \in {0} \cup Engine /\ caller' \in [Caller -> Wait]
    BY Zenon, <1>1 DEF EngineInv, EngineTyped
  <1>3. EngineTyped'
    BY Zenon, <1>2 DEF EngineInv, EngineTyped
  <1>4. /\ backend = 0
        /\ \A d \in Engine : Awaits(d) => d = e
        /\ \A c \in Caller : caller'[c] = Idle
    BY Zenon, Numbering, AwaitedAlone DEF EngineInv, EngineTyped
  <1>5. \A d \in Engine : queue'[d] = <<>>
    BY Zenon, <1>4, Numbering DEF EngineInv, Called
  <1>6. eng[e].init # "none" => eng[e].pc \in {"serving", "ended"}
    BY Zenon DEF EngineInv, Stands
  <1>7. Called'
    BY Zenon, <1>4, <1>5, <1>6 DEF Called
  <1>8. \A d \in Engine : Stands(d)'
    BY Zenon DEF EngineInv, Stands
  <1>9. ASSUME ~orphaned', NEW d \in Engine PROVE Sole(d)'
    <2>1. Sole(d)
      BY Zenon, <1>9 DEF EngineInv
    <2>2. CASE d = e
      BY Zenon, <1>4, <1>6, <1>9, <2>1, <2>2, Numbering DEF Sole
    <2>3. CASE d # e
      BY Zenon, <1>4, <2>1, <2>3, Numbering DEF Sole
    <2> QED BY Zenon, <2>2, <2>3
  <1>10. ASSUME ~orphaned' PROVE Kept'
    BY Zenon, <1>4, <1>6, <1>10, Numbering DEF EngineInv, Kept
  <1>11. orphaned' \/ Paired'
    BY Zenon DEF EngineInv, Paired
  <1>12. Numbered(ui)' /\ Numbered(blob)' /\ (disk'.mailbox = 0 => disk'.group = 0)
    BY Zenon DEF EngineInv, Numbered
  <1> QED BY Zenon, <1>3, <1>7, <1>8, <1>9, <1>10, <1>11, <1>12 DEF EngineInv

\* recv_timeout of the init channel, and the timeout.
LEMMA CallerStepKeeps == ASSUME EngineInv, NEW c \in Caller, CallerStep(c) PROVE EngineInv'
  <1>1. PICK e : e = caller[c].on
    BY Zenon
  <1>2. c = "ui" /\ e \in Engine /\ Awaits(e)
    BY Zenon, <1>1, StartAwaited DEF CallerStep, Initialised, InitTimesOut
  <1>3. /\ caller' = [caller EXCEPT !["ui"] = Idle]
        /\ UNCHANGED <<disk, ui, blob, eng, queue, mailbox, links, scans>>
    BY Zenon, <1>2 DEF CallerStep, Initialised, InitTimesOut, uiVars, relay, counters, bounds
  <1>4. backend = 0 /\ orphaned \in BOOLEAN
    BY Zenon, <1>2, AwaitedAlone DEF EngineInv, EngineTyped
  <1>5. eng[e].init \in {"none", "ok", "err"}
    BY Zenon, <1>2 DEF EngineInv, EngineTyped, Thread
  <1>6. CASE Initialised(c)
    <2>1. orphaned' \in BOOLEAN /\ (orphaned => orphaned') /\ eng[e].init # "none"
      BY Zenon, <1>1, <1>4, <1>6 DEF Initialised, counters
    <2>2. (backend' = e /\ eng[e].init = "ok") \/ (backend' = 0 /\ eng[e].init = "err")
      BY Zenon, <1>1, <1>4, <1>5, <1>6, <2>1 DEF Initialised
    <2> QED BY Zenon, <1>2, <1>3, <2>1, <2>2, StartOver
  <1>7. CASE InitTimesOut(c)
    <2>1. orphaned' \in BOOLEAN /\ (orphaned => orphaned') /\ eng[e].init = "none" /\ backend' = 0
      BY Zenon, <1>1, <1>4, <1>7 DEF InitTimesOut, Unclaimed
    <2>2. orphaned' \/ eng[e].pc \in {"spawned", "connecting"}
      BY Zenon, <1>1, <1>7 DEF InitTimesOut, Unclaimed
    <2> QED BY Zenon, <1>2, <1>3, <2>1, <2>2, StartOver
  <1> QED BY Zenon, <1>6, <1>7 DEF CallerStep

\* A step of the relay, or none at all.
LEMMA OutsideKeeps ==
    ASSUME EngineInv, UNCHANGED <<disk, ui, blob, backend, eng, queue, caller, orphaned, links>>,
           mailbox' \in [Engine -> Seq(Push)], scans' \in Nat
    PROVE  EngineInv'
  <1>1. EngineTyped'
    BY Zenon DEF EngineInv, EngineTyped
  <1>2. Called' /\ \A e \in Engine : Awaits(e)' <=> Awaits(e)
    BY Zenon DEF EngineInv, Called, Awaits
  <1>3. \A e \in Engine : Stands(e)' /\ (orphaned' \/ Sole(e)')
    BY Zenon, <1>2 DEF EngineInv, Stands, Sole
  <1>4. orphaned' \/ Kept'
    BY Zenon, <1>2 DEF EngineInv, Kept
  <1>5. orphaned' \/ Paired'
    BY Zenon DEF EngineInv, Paired
  <1>6. Numbered(ui)' /\ Numbered(blob)' /\ (disk'.mailbox = 0 => disk'.group = 0)
    BY Zenon DEF EngineInv, Numbered
  <1> QED BY Zenon, <1>1, <1>2, <1>3, <1>4, <1>5, <1>6 DEF EngineInv

\* A push is appended to a mailbox.
LEMMA Delivered ==
    ASSUME EngineInv, NEW m, NEW p \in Push, mailbox' = [mailbox EXCEPT ![m] = Append(@, p)]
    PROVE  mailbox' \in [Engine -> Seq(Push)]
  <1>1. mailbox \in [Engine -> Seq(Push)]
    BY Zenon DEF EngineInv, EngineTyped
  <1>2. CASE m \in Engine
    <2>1. mailbox[m] \in Seq(Push) /\ mailbox' = [mailbox EXCEPT ![m] = Append(mailbox[m], p)]
      BY Zenon, <1>1, <1>2
    <2>2. Append(mailbox[m], p) \in Seq(Push)
      BY <2>1
    <2> QED BY Zenon, <1>1, <1>2, <2>1, <2>2
  <1>3. CASE m \notin Engine
    BY Zenon, <1>1, <1>3
  <1> QED BY Zenon, <1>2, <1>3

\* A peer scans a link, or sends to a group.
LEMMA PeersKeep ==
    ASSUME EngineInv, \/ \E k \in 1..MaxLinks : PeerScans(k)
                      \/ PeerSends(disk)
                      \/ \E e \in Engine : PeerSends(eng[e])
    PROVE  EngineInv'
  <1>1. scans \in Nat /\ scans + 1 \in Nat /\ disk.group \in Nat
    BY DEF EngineInv, EngineTyped, Rows
  <1>2. \A e \in Engine : eng[e].group \in Nat
    BY Zenon DEF EngineInv, EngineTyped, Thread
  <1>3. \A k \in Nat, g \in Nat : [welcome |-> k, group |-> g] \in Push
    BY Zenon DEF Push
  <1>4. \A k \in 1..MaxLinks : k \in Nat
    BY FfiAssumption
  <1>5. UNCHANGED <<disk, ui, blob, backend, eng, queue, caller, orphaned, links>> /\ scans' \in Nat
    BY Zenon, <1>1 DEF PeerScans, PeerSends, uiVars
  <1>6. mailbox' \in [Engine -> Seq(Push)]
    <2>1. ASSUME NEW k \in 1..MaxLinks, PeerScans(k) PROVE mailbox' \in [Engine -> Seq(Push)]
      BY Zenon, <1>1, <1>3, <1>4, <2>1, Delivered DEF PeerScans
    <2>2. ASSUME NEW r, r.group \in Nat, PeerSends(r) PROVE mailbox' \in [Engine -> Seq(Push)]
      BY Zenon, <1>1, <1>3, <2>2, Delivered DEF PeerSends
    <2> QED BY Zenon, <1>1, <1>2, <2>1, <2>2
  <1> QED BY Zenon, <1>5, <1>6, OutsideKeeps

\* new_persistent: what was saved is resumed.
LEMMA RestartKeeps == ASSUME EngineInv, Restart PROVE EngineInv'
  <1>1. PICK gone : gone = [NoEngine EXCEPT !.pc = "ended"]
    BY Zenon
  <1>2. PICK dead : dead = [e \in Engine |-> IF eng[e].pc = "unborn" THEN NoEngine ELSE gone]
    BY Zenon
  <1>3. gone \in Thread /\ gone.pc = "ended" /\ gone.kind = "none" /\ gone.init = "none" /\ ~gone.conv
    BY <1>1, EmptyThread DEF Thread
  <1>4. /\ dead \in [Engine -> Thread]
        /\ \A e \in Engine : /\ dead[e].pc \in {"unborn", "ended"} /\ dead[e].kind = "none"
                             /\ dead[e].init = "none" /\ ~dead[e].conv
    BY Zenon, <1>2, <1>3, EmptyThread
  <1>5. /\ UNCHANGED <<disk, blob, mailbox, orphaned, links, scans>> /\ ui' = blob
        /\ queue' = [e \in Engine |-> <<>>] /\ caller' = [c \in Caller |-> Idle]
        /\ eng' = IF disk.mailbox # 0 THEN [dead EXCEPT ![NextEngine].pc = "resuming"] ELSE dead
        /\ backend' = IF disk.mailbox # 0 THEN NextEngine ELSE 0
    BY Zenon, <1>1, <1>2 DEF Restart, Relaunched, relay
  <1>6. /\ \A e \in Engine : /\ eng'[e] \in Thread /\ eng'[e].kind = "none"
                             /\ eng'[e].init = "none" /\ ~eng'[e].conv
        /\ \A e \in Engine : \/ eng'[e].pc \in {"unborn", "ended"}
                             \/ eng'[e].pc = "resuming" /\ backend' = e /\ disk.mailbox # 0
        /\ eng' = [e \in Engine |-> eng'[e]]
        /\ \/ disk.mailbox = 0 /\ backend' = 0
           \/ backend' \in Engine /\ eng'[backend'].pc = "resuming"
    <2>1. CASE disk.mailbox = 0
      BY Zenon, <1>4, <1>5, <2>1
    <2>2. CASE disk.mailbox # 0
      <3>1. PICK n \in Engine : n = NextEngine
        BY Zenon, <2>2, NextIsUnborn DEF Restart, Unborn
      <3>2. PICK r : r = [dead[n] EXCEPT !.pc = "resuming"]
        BY Zenon
      <3>3. r \in Thread /\ r.pc = "resuming" /\ r.kind = "none" /\ r.init = "none" /\ ~r.conv
        BY <1>4, <3>2 DEF Thread
      <3>4. eng' = [dead EXCEPT ![n] = r] /\ backend' = n
        BY Zenon, <1>4, <1>5, <2>2, <3>1, <3>2
      <3> QED BY Zenon, <1>4, <2>2, <3>3, <3>4
    <2> QED BY Zenon, <2>1, <2>2
  <1>7. Idle \in Wait /\ <<>> \in Seq(Command)
    BY DEF Idle, Wait
  <1>8. eng' \in [Engine -> Thread] /\ backend' \in {0} \cup Engine
    BY Zenon, <1>6
  <1>9. EngineTyped'
    BY Zenon, <1>5, <1>7, <1>8 DEF EngineInv, EngineTyped
  <1>10. Called'
    BY Zenon, <1>5, <1>6 DEF Called
  <1>11. \A e \in Engine : Stands(e)' /\ Sole(e)'
    BY Zenon, <1>5, <1>6 DEF Stands, Sole
  <1>12. Kept'
    BY Zenon, <1>5, <1>6, Numbering DEF Kept
  <1>13. orphaned' \/ Paired'
    BY Zenon, <1>5, <1>6 DEF EngineInv, Paired, Conversing
  <1>14. Numbered(ui)' /\ Numbered(blob)' /\ (disk'.mailbox = 0 => disk'.group = 0)
    BY Zenon, <1>5 DEF EngineInv, Numbered
  <1> QED BY Zenon, <1>9, <1>10, <1>11, <1>12, <1>13, <1>14 DEF EngineInv

-----------------------------------------------------------------------------
(* The theorems *)

\* The first launch satisfies the invariant.
LEMMA EngineInvInit == Init => EngineInv
  <1> SUFFICES ASSUME Init PROVE EngineInv
    BY Zenon
  <1>1. /\ Idle \in Wait /\ <<>> \in Seq(Command) /\ <<>> \in Seq(Push)
        /\ 0 \in Nat /\ Stub \in BOOLEAN
    BY FfiAssumption DEF Idle, Wait
  <1>2. /\ disk \in Rows /\ ui \in UiState /\ disk.mailbox = 0 /\ disk.group = 0
        /\ ui.ids = <<>> /\ blob = ui
        /\ (ui.conv => Stub /\ disk.identity = 0)
    <2>1. PICK i \in {None, 0}, c \in {FALSE, Stub} :
            /\ c => i = 0
            /\ disk = [identity |-> i, mailbox |-> 0, group |-> 0, kps |-> {}]
            /\ ui = [conv |-> c, ids |-> <<>>, seq |-> 1]
            /\ blob = ui
      BY Zenon DEF Init
    <2>2. i \in Int /\ c \in BOOLEAN /\ (c => Stub)
      <3>1. {None, 0} \subseteq Int
        BY DEF None
      <3>2. CASE c = FALSE
        BY Zenon, <2>1, <3>1, <3>2
      <3>3. CASE c = Stub
        BY Zenon, <1>1, <2>1, <3>1, <3>3
      <3> QED BY Zenon, <2>1, <3>2, <3>3
    <2>3. <<>> \in Seq(Nat) /\ 1 \in Nat
      OBVIOUS
    <2>4. disk \in Rows /\ ui \in UiState
      BY Zenon, <1>1, <2>1, <2>2, <2>3 DEF Rows, UiState
    <2> QED BY Zenon, <2>1, <2>2, <2>4
  <1>3. EngineTyped
    BY Zenon, <1>1, <1>2, EmptyThread DEF Init, EngineTyped
  <1>4. /\ \A e \in Engine : /\ eng[e].pc = "unborn" /\ eng[e].kind = "none"
                             /\ eng[e].init = "none" /\ ~eng[e].conv
        /\ backend = 0
    BY Zenon, EmptyThread DEF Init
  <1>5. Called
    BY Zenon, <1>4 DEF Init, Called
  <1>6. \A e \in Engine : Stands(e) /\ Sole(e)
    BY Zenon, <1>4 DEF Stands, Sole
  <1>7. Kept /\ Paired
    BY Zenon, <1>2, <1>4 DEF Kept, Paired, Conversing, HasPeer, Restored
  <1>8. Numbered(ui) /\ Numbered(blob)
    BY <1>2 DEF Numbered
  <1> QED BY Zenon, <1>2, <1>3, <1>5, <1>6, <1>7, <1>8 DEF EngineInv

\* Every step keeps the invariant.
LEMMA EngineInvStep == EngineInv /\ [Next]_vars => EngineInv'
  <1> SUFFICES ASSUME EngineInv, [Next]_vars PROVE EngineInv'
    BY Zenon
  <1>1. CASE CreateContactLink \/ PairWithLink \/ \E c \in Caller : Send(c)
    BY Zenon, <1>1, CallsKeep
  <1>2. CASE \E c \in Caller : CallerStep(c)
    BY Zenon, <1>2, CallerStepKeeps
  <1>3. ASSUME NEW e \in Engine, EngineStep(e) \/ Disconnects(e) PROVE EngineInv'
    BY Zenon, <1>3, BeginKeeps, ConnectedKeeps, AttachKeeps, AnnounceKeeps, ResumedKeeps,
       ResumeFailsKeeps, MakesConversationKeeps, HandleCommandKeeps, PairsKeeps, PumpsKeeps,
       ForwardsKeeps, EndsKeep, LinkFailsKeeps DEF EngineStep
  <1>4. CASE \/ \E k \in 1..MaxLinks : PeerScans(k)
             \/ PeerSends(disk)
             \/ \E e \in Engine : PeerSends(eng[e])
    BY Zenon, <1>4, PeersKeep
  <1>5. CASE Restart
    BY Zenon, <1>5, RestartKeeps
  <1>6. CASE vars' = vars
    BY Zenon, <1>6, OutsideKeeps DEF vars, EngineInv, EngineTyped
  <1> QED BY Zenon, <1>1, <1>2, <1>3, <1>4, <1>5, <1>6 DEF Next

\* The invariant holds of every behaviour.
LEMMA EngineInvHolds == Spec => []EngineInv
  BY EngineInvInit, EngineInvStep, PTL DEF Spec

\* An engine that serves without a pairing waits for one: it has a conversation
\* only where it has a group, however launches, links, scans, failures and
\* timeouts fall, as long as every thread that saved something has a caller; or
\* it was resumed on a device restored from a backup that named a contact.
THEOREM UnpairedAwaits == Spec => []UnpairedAwaitsPairing
  <1>1. EngineInv => UnpairedAwaitsPairing
    BY Zenon DEF EngineInv, Paired, Conversing, UnpairedAwaitsPairing
  <1> QED BY <1>1, EngineInvHolds, PTL

\* A step that saves keeps the identity and the pairing saved before.
LEMMA SavesKeep ==
    ASSUME EngineInv, [Next]_vars, ~orphaned
    PROVE  /\ disk.identity # None => disk'.identity = disk.identity
           /\ disk.group # 0 => disk'.group = disk.group
  <1>1. ASSUME NEW e \in Engine, Attach(e)
        PROVE  /\ disk.identity # None => disk'.identity = disk.identity
               /\ disk.group = 0
    <2>1. disk'.identity = eng[e].identity
      BY Zenon, <1>1 DEF Attach, Saved
    <2>2. disk.mailbox = 0 /\ eng[e].pc = "attaching"
      BY Zenon, <1>1 DEF Attach, EngineInv, Sole
    <2> QED BY Zenon, <2>1, <2>2 DEF EngineInv, Stands
  <1>2. ASSUME NEW e \in Engine, eng[e].pc = "serving", NEW r, disk' = Saved(r),
               r.identity = eng[e].identity, r.group = eng[e].group \/ eng[e].group = 0
        PROVE  /\ disk'.identity = disk.identity
               /\ disk.group # 0 => disk'.group = disk.group
    <2>1. disk'.identity = r.identity /\ disk'.group = r.group
      BY Zenon, <1>2 DEF Saved
    <2>2. eng[e].identity = disk.identity /\ eng[e].group = disk.group
      BY Zenon, <1>2 DEF EngineInv, Sole
    <2> QED BY Zenon, <1>2, <2>1, <2>2
  <1>3. ASSUME NEW e \in Engine, Pumps(e) \/ HandleCommand(e), disk' # disk
        PROVE  /\ disk'.identity = disk.identity
               /\ disk.group # 0 => disk'.group = disk.group
    <2>1. eng[e].pc = "serving" /\ disk' = Saved(eng[e])
      BY Zenon, <1>3 DEF Pumps, HandleCommand, HasPush, Selecting
    <2> QED BY Zenon, <1>2, <2>1
  <1>4. ASSUME NEW e \in Engine, Pairs(e)
        PROVE  /\ disk'.identity = disk.identity
               /\ disk.group # 0 => disk'.group = disk.group
    <2>1. PICK r : r = Joined(eng[e], Pushed(e).welcome, Pushed(e).group)
      BY Zenon
    <2>2. eng[e].pc = "serving" /\ eng[e].group = 0 /\ disk' = Saved(r)
      BY Zenon, <1>4, <2>1 DEF Pairs, HasPush, Selecting, LacksConversation
    <2>3. eng[e] \in Thread
      BY Zenon DEF EngineInv, EngineTyped
    <2>4. r.identity = eng[e].identity
      BY Zenon, <2>1, <2>3 DEF Joined, Thread
    <2> QED BY Zenon, <1>2, <2>2, <2>4
  <1>5. \/ disk' = disk
        \/ \E e \in Engine : Attach(e) \/ Pairs(e) \/ Pumps(e) \/ HandleCommand(e)
    BY Zenon DEF Next, CallerStep, EngineStep, CreateContactLink, PairWithLink, Send, Initialised,
       InitTimesOut, Begin, Connected, StartFails, LinkFails, Announce, Resumed, ResumeFails,
       MakesConversation, Chokes, Forwards, Abandoned, Disconnects, PeerScans, PeerSends, Restart,
       vars
  <1> QED BY Zenon, <1>1, <1>3, <1>4, <1>5

\* What a device saved is what it keeps: the identity and the pairing, whichever
\* thread saves, through any number of launches, as long as every
\* thread that saved has a caller; and no two messages of the history share an id, though a relaunch goes
\* back to the counter last saved.
THEOREM SavedIsKept == Spec => SavedStateKept
  <1>1. ASSUME EngineInv, EngineInv', [Next]_vars
        PROVE  [/\ ~orphaned =>
                    /\ disk.identity # None => disk'.identity = disk.identity
                    /\ disk.group # 0 => disk'.group = disk.group
                /\ \A i, j \in DOMAIN ui'.ids : i # j => ui'.ids[i] # ui'.ids[j]]_<<disk, orphaned, ui>>
    BY Zenon, <1>1, SavesKeep DEF EngineInv, Numbered
  <1> QED BY <1>1, EngineInvHolds, PTL DEF Spec, SavedStateKept


=============================================================================
