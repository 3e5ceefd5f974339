-------------------------- MODULE ChatEngineProofs --------------------------
(***************************************************************************)
(* For any number of clients and any bounds: the clients of a conversation *)
(* agree on every epoch they reach, apply no message twice, acknowledge    *)
(* nothing they have not stored, and who lost an epoch finds its winner in *)
(* the mailbox.                                                            *)
(***************************************************************************)
EXTENDS ChatEngine, TLAPS

-----------------------------------------------------------------------------
(* The invariant, client by client, and the steps that merge nothing *)

\* What the properties say of one client.
Agrees(c) ==
    /\ \A m \in merged[c] : Winners(m.epoch) = {m.id}
    /\ \A e \in 1 .. epoch[c] - 1 : \E m \in merged[c] : m.epoch = e

Once(c) ==
    LET all == shown[c] \o events[c]
    IN  \A i, j \in 1 .. Len(all) : all[i] = all[j] => i = j

Persisted(c) == \A i \in Positions : i \in mailbox[c] \/ log[i].id \in store[c].seen

\* What the invariant says of one client alone.
Own(c) ==
    /\ RequestsAreCurrent(c) /\ RepliesAreTrue(c) /\ StoreIsCurrent(c)
    /\ Agrees(c) /\ Once(c) /\ Persisted(c)

\* Nothing the invariant looks at changes for client d.
Same(d) ==
    /\ mailbox'[d] = mailbox[d] /\ link'[d] = link[d]
    /\ requests'[d] = requests[d] /\ reply'[d] = reply[d]
    /\ pc'[d] = pc[d] /\ current'[d] = current[d] /\ epoch'[d] = epoch[d]
    /\ seen'[d] = seen[d] /\ store'[d] = store[d] /\ merged'[d] = merged[d]
    /\ events'[d] = events[d] /\ shown'[d] = shown[d]

\* The invariant, client by client.
LEMMA ByClient ==
    ChatInv <=> /\ TypeOK /\ OneWinnerPerEpoch /\ IdsName
                /\ \A c \in Client : CurrentIsNamed(c) /\ Own(c)
  BY Zenon DEF ChatInv, Own, Agrees, Once, Persisted, GroupAgreement, AppliedOnce, AckedIsPersisted

\* A client nothing changes for keeps what the invariant says of it.
LEMMA SameOwn ==
    ASSUME NEW d \in Client, Own(d), Same(d), log' = log, relayEpoch' = relayEpoch
    PROVE  Own(d)'
  <1>1. RequestsAreCurrent(d)'
    BY DEF Own, RequestsAreCurrent, Same
  <1>2. RepliesAreTrue(d)'
    BY Zenon DEF Own, RepliesAreTrue, Same, Positions
  <1>3. StoreIsCurrent(d)'
    BY Zenon DEF Own, StoreIsCurrent, Same, Positions
  <1>4. Agrees(d)'
    <2>1. \A e : Winners(e)' = Winners(e)
      BY Zenon DEF Winners, Positions
    <2> QED BY Zenon, <2>1 DEF Own, Agrees, Same
  <1>5. Once(d)'
    BY Zenon DEF Own, Once, Same
  <1>6. Persisted(d)'
    BY Zenon DEF Own, Persisted, Same, Positions
  <1> QED BY Zenon, <1>1, <1>2, <1>3, <1>4, <1>5, <1>6 DEF Own

\* Names, after a step that sends at most one new envelope.
LEMMA NamesKept ==
    ASSUME ChatInv, NEW c \in Client, TypeOK', log' = log, nextId' \in {nextId, nextId + 1},
           \A d \in Client \ {c} : current'[d] = current[d] /\ seen'[d] = seen[d],
           current'[c] = current[c] \/ (current'[c].id = nextId /\ nextId' = nextId + 1),
           \A x \in seen'[c] : \/ x \in seen[c]
                               \/ x = nextId /\ nextId' = nextId + 1 /\ ~current'[c].commit
                               \/ \E i \in Positions : log[i].id = x
    PROVE  IdsName' /\ \A d \in Client : CurrentIsNamed(d)'
  <1>1. nextId \in Nat /\ nextId' \in Nat
    BY Zenon DEF ChatInv, TypeOK
  <1>2. IdsName'
    BY <1>1 DEF ChatInv, IdsName, Positions
  <1>3. \A d \in Client : current[d].id \in Nat /\ current'[d].id \in Nat /\ seen[d] \subseteq Nat
    BY Zenon DEF ChatInv, TypeOK, Env
  <1>4. \A i \in Positions : log[i].id \in Nat /\ log[i].id < nextId
    BY <1>1 DEF ChatInv, IdsName
  <1>5. \A d \in Client : \A x \in seen[d] : x < nextId
    BY Zenon DEF ChatInv, CurrentIsNamed
  <1>6. ASSUME NEW d \in Client PROVE current'[d].id < nextId'
    BY <1>1, <1>3, <1>6 DEF ChatInv, CurrentIsNamed
  <1>7. ASSUME NEW d \in Client, NEW x \in seen'[d] PROVE x < nextId'
    <2>1. x \in Nat
      BY Zenon, <1>7 DEF TypeOK
    <2> QED BY <1>1, <1>4, <1>5, <1>7, <2>1
  <1>8. ASSUME NEW d \in Client, NEW i \in Positions, log[i].id = current'[d].id
        PROVE  log[i] = current'[d]
    BY <1>3, <1>4, <1>8 DEF ChatInv, CurrentIsNamed
  <1>9. ASSUME NEW d \in Client, NEW e \in Client, current'[e].id = current'[d].id
        PROVE  e = d \/ current'[d].id = 0
    BY <1>1, <1>3, <1>9 DEF ChatInv, CurrentIsNamed
  <1>10. ASSUME NEW d \in Client, NEW e \in Client, current'[d].commit, current'[d].id \in seen'[e]
         PROVE  \E i \in Positions : log[i].id = current'[d].id
    <2>1. CASE current'[d] = current[d]
      <3>1. current[d].id # nextId
        BY <1>1, <1>3 DEF ChatInv, CurrentIsNamed
      <3>2. CASE current[d].id \in seen[e]
        BY <1>10, <2>1, <3>2 DEF ChatInv, CurrentIsNamed
      <3> QED BY <1>10, <2>1, <3>1, <3>2
    <2>2. CASE d = c /\ current'[c].id = nextId
      <3>1. nextId \notin seen[e]
        BY <1>1, <1>5
      <3> QED BY Zenon, <1>10, <2>2, <3>1
    <2> QED BY Zenon, <2>1, <2>2
  <1> QED BY <1>2, <1>6, <1>7, <1>8, <1>9, <1>10 DEF CurrentIsNamed, Positions

\* A step of one client, or of the relay for one client, that accepts nothing.
LEMMA LocalStep ==
    ASSUME ChatInv, NEW c \in Client, TypeOK', log' = log, relayEpoch' = relayEpoch,
           nextId' \in {nextId, nextId + 1},
           \A d \in Client \ {c} : Same(d),
           current'[c] = current[c] \/ (current'[c].id = nextId /\ nextId' = nextId + 1),
           \A x \in seen'[c] : \/ x \in seen[c]
                               \/ x = nextId /\ nextId' = nextId + 1 /\ ~current'[c].commit
                               \/ \E i \in Positions : log[i].id = x,
           Own(c)'
    PROVE  ChatInv'
  <1>1. \A d \in Client \ {c} : current'[d] = current[d] /\ seen'[d] = seen[d]
    BY Zenon DEF Same
  <1>2. IdsName' /\ \A d \in Client : CurrentIsNamed(d)'
    BY Zenon, <1>1, NamesKept
  <1>3. OneWinnerPerEpoch'
    BY DEF ChatInv, OneWinnerPerEpoch, Positions
  <1>4. ASSUME NEW d \in Client PROVE Own(d)'
    BY Zenon, ByClient, SameOwn
  <1>5. TypeOK' /\ OneWinnerPerEpoch' /\ IdsName' /\ \A d \in Client : CurrentIsNamed(d)' /\ Own(d)'
    BY Zenon, <1>2, <1>3, <1>4
  <1> QED BY Zenon, <1>5, ByClient DEF ChatInv, Own, Agrees, Once, Persisted, GroupAgreement, AppliedOnce, AckedIsPersisted

-----------------------------------------------------------------------------
(* Sequences *)

\* A sequence with an element appended.
LEMMA Appended ==
    ASSUME NEW S, NEW s \in Seq(S), NEW x \in S
    PROVE  /\ Append(s, x) \in Seq(S)
           /\ Len(Append(s, x)) = Len(s) + 1
           /\ Append(s, x)[Len(s) + 1] = x
           /\ \A i \in 1 .. Len(s) : Append(s, x)[i] = s[i]
  OBVIOUS

\* A sequence without its head.
LEMMA Tailed ==
    ASSUME NEW S, NEW s \in Seq(S), s # <<>>
    PROVE  /\ Tail(s) \in Seq(S)
           /\ Len(s) \in Nat \ {0}
           /\ Len(Tail(s)) = Len(s) - 1
           /\ \A i \in 1 .. Len(s) - 1 : Tail(s)[i] = s[i + 1]
           /\ Head(s) = s[1] /\ s[1] \in S
  OBVIOUS

\* An event handed to the caller leaves the two sequences together the same.
LEMMA HandedOver ==
    ASSUME NEW S, NEW s \in Seq(S), NEW t \in Seq(S), t # <<>>
    PROVE  Append(s, Head(t)) \o Tail(t) = s \o t
  OBVIOUS

\* A concatenation begins with its first part.
LEMMA Begins ==
    ASSUME NEW s \in Seq(Nat), NEW t \in Seq(Nat)
    PROVE  \A i \in 1 .. Len(s) : i \in 1 .. Len(s \o t) /\ (s \o t)[i] = s[i]
  <1>1. Len(s \o t) = Len(s) + Len(t) /\ Len(s) \in Nat /\ Len(t) \in Nat
    OBVIOUS
  <1>2. \A i \in 1 .. Len(s) : (s \o t)[i] = s[i]
    OBVIOUS
  <1> QED BY <1>1, <1>2

\* One more, new, element keeps a concatenation free of repetitions.
LEMMA StillOnce ==
    ASSUME NEW s \in Seq(Nat), NEW t \in Seq(Nat), NEW x \in Nat,
           \A i, j \in 1 .. Len(s \o t) : (s \o t)[i] = (s \o t)[j] => i = j,
           \A i \in 1 .. Len(s) : s[i] # x,
           \A i \in 1 .. Len(t) : t[i] # x
    PROVE  \A i, j \in 1 .. Len(s \o Append(t, x)) :
              (s \o Append(t, x))[i] = (s \o Append(t, x))[j] => i = j
  <1>1. s \o t \in Seq(Nat) /\ Len(s \o t) = Len(s) + Len(t)
    OBVIOUS
  <1>2. s \o Append(t, x) = Append(s \o t, x)
    OBVIOUS
  <1>3. \A i \in 1 .. Len(s \o t) : (s \o t)[i] # x
    OBVIOUS
  <1> DEFINE u == s \o t
  <1>4. u \in Seq(Nat) /\ (\A i \in 1 .. Len(u) : u[i] # x)
        /\ (\A i, j \in 1 .. Len(u) : u[i] = u[j] => i = j)
    BY Zenon, <1>1, <1>3
  <1> HIDE DEF u
  <1>5. \A i, j \in 1 .. Len(Append(u, x)) : Append(u, x)[i] = Append(u, x)[j] => i = j
    <2>1. /\ Len(Append(u, x)) = Len(u) + 1 /\ Append(u, x)[Len(u) + 1] = x
          /\ \A i \in 1 .. Len(u) : Append(u, x)[i] = u[i]
      BY <1>4, Appended
    <2>2. Len(u) \in Nat
      BY <1>4
    <2>3. \A i \in 1 .. Len(Append(u, x)) : i = Len(u) + 1 \/ i \in 1 .. Len(u)
      BY <2>1, <2>2
    <2> QED BY Zenon, <1>4, <2>1, <2>3
  <1> QED BY Zenon, <1>2, <1>5 DEF u

-----------------------------------------------------------------------------
(* The initial state *)

\* The conversation starts within the invariant.
LEMMA ChatInitially == Init => ChatInv
  <1> SUFFICES ASSUME Init PROVE ChatInv
    BY Zenon
  <1>1. TypeOK
    BY EngineAssumption DEF Init, TypeOK, Env, NoEnv, PC, Positions
  <1>2. Positions = {}
    BY DEF Init, Positions
  <1>3. OneWinnerPerEpoch /\ IdsName /\ AckedIsPersisted
    BY <1>2 DEF Init, OneWinnerPerEpoch, IdsName, AckedIsPersisted
  <1>4. ASSUME NEW c \in Client
        PROVE  CurrentIsNamed(c) /\ RequestsAreCurrent(c) /\ RepliesAreTrue(c) /\ StoreIsCurrent(c)
    BY <1>2 DEF Init, CurrentIsNamed, RequestsAreCurrent, RepliesAreTrue, StoreIsCurrent, NoEnv
  <1>5. GroupAgreement
    BY DEF Init, GroupAgreement
  <1>6. AppliedOnce
    BY DEF Init, AppliedOnce
  <1> QED BY Zenon, <1>1, <1>3, <1>4, <1>5, <1>6 DEF ChatInv

-----------------------------------------------------------------------------
(* The engine's steps *)

\* What the properties say of a client whose session, store and mailbox stay.
LEMMA SessionSame ==
    ASSUME NEW c \in Client, ChatInv, log' = log, mailbox'[c] = mailbox[c], epoch'[c] = epoch[c],
           merged'[c] = merged[c], shown'[c] = shown[c], events'[c] = events[c],
           store[c].seen \subseteq store'[c].seen
    PROVE  Agrees(c)' /\ Once(c)' /\ Persisted(c)'
  <1>1. Own(c)
    BY Zenon, ByClient
  <1>2. \A e : Winners(e)' = Winners(e)
    BY Zenon DEF Winners, Positions
  <1>3. Agrees(c)'
    BY Zenon, <1>1, <1>2 DEF Own, Agrees
  <1>4. Once(c)'
    BY Zenon, <1>1 DEF Own, Once
  <1>5. Persisted(c)'
    BY Zenon, <1>1 DEF Own, Persisted, Positions
  <1> QED BY Zenon, <1>3, <1>4, <1>5

\* A request is a send or an ack.
LEMMA Ops ==
    ASSUME NEW s \in Seq([op : {"send", "ack"}, env : Env])
    PROVE  \A k \in 1 .. Len(s) : s[k].op \in {"send", "ack"}
  <1> DEFINE S == [op : {"send", "ack"}, env : Env]
  <1>1. s \in Seq(S) /\ \A x \in S : x.op \in {"send", "ack"}
    BY Zenon
  <1> HIDE DEF S
  <1>2. \A k \in 1 .. Len(s) : s[k] \in S
    BY <1>1
  <1> QED BY Zenon, <1>1, <1>2

\* The requests of a client that called.
LEMMA Called ==
    ASSUME NEW c \in Client, TypeOK, NEW op \in {"send", "ack"}, NEW env \in Env, Call(c, op, env)
    PROVE  /\ requests' \in [Client -> Seq([op : {"send", "ack"}, env : Env])]
           /\ \A d \in Client \ {c} : requests'[d] = requests[d]
           /\ link[c] = "down" => requests'[c] = requests[c]
           /\ \A i \in 1 .. Len(requests'[c]) :
                 \/ i \in 1 .. Len(requests[c]) /\ requests'[c][i] = requests[c][i]
                 \/ i = Len(requests[c]) + 1 /\ requests'[c][i] = [op |-> op, env |-> env]
  <1> DEFINE r == [op |-> op, env |-> env]
             S == [op : {"send", "ack"}, env : Env]
  <1>1. r \in S /\ requests[c] \in Seq(S)
    BY Zenon DEF TypeOK
  <1>2. requests'[c] = Append(requests[c], r) \/ requests'[c] = requests[c]
    BY Zenon DEF Call, TypeOK
  <1>3. /\ requests' \in [Client -> Seq(S)] /\ \A d \in Client \ {c} : requests'[d] = requests[d]
        /\ link[c] = "down" => requests'[c] = requests[c]
    BY Zenon, <1>1, Appended DEF Call, TypeOK
  <1>4. ASSUME NEW i \in 1 .. Len(requests'[c])
        PROVE  \/ i \in 1 .. Len(requests[c]) /\ requests'[c][i] = requests[c][i]
               \/ i = Len(requests[c]) + 1 /\ requests'[c][i] = r
    <2>1. CASE requests'[c] = requests[c]
      BY Zenon, <1>4, <2>1
    <2>2. CASE requests'[c] = Append(requests[c], r)
      <3> HIDE DEF r, S
      <3>1. /\ Len(Append(requests[c], r)) = Len(requests[c]) + 1
            /\ Append(requests[c], r)[Len(requests[c]) + 1] = r
            /\ \A k \in 1 .. Len(requests[c]) : Append(requests[c], r)[k] = requests[c][k]
        BY <1>1, Appended
      <3>2. Len(requests[c]) \in Nat
        BY <1>1
      <3> QED BY <1>4, <2>2, <3>1, <3>2
    <2> QED BY Zenon, <1>2, <2>1, <2>2
  <1> QED BY Zenon, <1>3, <1>4

\* A message is sent.
LEMMA SendMessageInv == ASSUME ChatInv, NEW c \in Client, SendMessage(c) PROVE ChatInv'
  <1> DEFINE env == [id |-> nextId, from |-> c, commit |-> FALSE, epoch |-> epoch[c]]
  <1>1. /\ TypeOK /\ Own(c) /\ nextId \in Nat \ {0}
        /\ env \in Env /\ env.id = nextId /\ ~env.commit
    BY Zenon, ByClient DEF TypeOK, Env
  <1>2. /\ pc[c] = "idle" /\ nextId' = nextId + 1 /\ log' = log /\ relayEpoch' = relayEpoch
        /\ seen' = [seen EXCEPT ![c] = @ \cup {nextId}]
        /\ pc' = [pc EXCEPT ![c] = "sending"]
        /\ current' = [current EXCEPT ![c] = env]
        /\ store' = [store EXCEPT ![c] = [epoch |-> epoch'[c], staged |-> staged'[c],
                                          seen |-> seen'[c]]]
        /\ Call(c, "send", env)
        /\ UNCHANGED <<mailbox, link, reply, pushes, epoch, staged, merged, events, shown, commits, faults>>
        /\ apps' = apps + 1
    BY Zenon DEF SendMessage, Persist, relayVars, sessionVars
  <1> HIDE DEF env
  <1>3. /\ requests' \in [Client -> Seq([op : {"send", "ack"}, env : Env])]
        /\ \A d \in Client \ {c} : requests'[d] = requests[d]
        /\ link[c] = "down" => requests'[c] = requests[c]
        /\ \A i \in 1 .. Len(requests'[c]) :
              \/ i \in 1 .. Len(requests[c]) /\ requests'[c][i] = requests[c][i]
              \/ i = Len(requests[c]) + 1 /\ requests'[c][i] = [op |-> "send", env |-> env]
    BY Zenon, <1>1, <1>2, Called
  <1>4. /\ seen'[c] = seen[c] \cup {nextId} /\ pc'[c] = "sending" /\ current'[c] = env
        /\ store'[c].epoch = epoch[c] /\ store'[c].seen = seen[c] \cup {nextId}
        /\ reply'[c] = reply[c] /\ epoch'[c] = epoch[c]
    BY Zenon, <1>1, <1>2 DEF TypeOK
  <1>5. TypeOK'
    <2>1. seen' \in [Client -> SUBSET Nat] /\ pc' \in [Client -> PC] /\ current' \in [Client -> Env]
      BY Zenon, <1>1, <1>2 DEF TypeOK, PC
    <2>2. store' \in [Client -> [epoch : Nat \ {0}, staged : BOOLEAN, seen : SUBSET Nat]]
      BY <1>1, <1>2, <2>1 DEF TypeOK
    <2>3. Positions' = Positions
      BY Zenon, <1>2 DEF Positions
    <2>4. nextId' \in Nat \ {0} /\ apps' \in Nat /\ commits' \in Nat /\ faults' \in Nat
      BY <1>1, <1>2 DEF TypeOK
    <2> QED BY Zenon, <1>1, <1>2, <1>3, <2>1, <2>2, <2>3, <2>4 DEF TypeOK
  <1>6. \A d \in Client \ {c} : Same(d)
    BY <1>1, <1>2, <1>3 DEF TypeOK, Same
  <1>7. store[c].seen = seen[c] /\ reply[c] = "none"
    BY Zenon, <1>1, <1>2 DEF Own, StoreIsCurrent, RequestsAreCurrent
  <1>8. RequestsAreCurrent(c)'
    <2>1. \A i \in 1 .. Len(requests[c]) : requests[c][i].op # "send" /\
              (requests[c][i].op = "ack" => requests[c][i].env.id \in seen[c])
      BY SMTT(20), <1>1, <1>2, <1>7 DEF Own, RequestsAreCurrent
    <2>2. ASSUME NEW i \in 1 .. Len(requests'[c])
          PROVE  /\ requests'[c][i].op = "ack" => requests'[c][i].env.id \in store'[c].seen
                 /\ requests'[c][i].op = "send" => requests'[c][i].env = env /\ i = Len(requests[c]) + 1
      BY SMTT(20), <1>3, <1>4, <2>1
    <2>3. link'[c] = "down" => requests'[c] = <<>>
      BY Zenon, <1>1, <1>2, <1>3 DEF Own, RequestsAreCurrent
    <2> QED BY Zenon, <1>1, <1>4, <1>7, <2>2, <2>3 DEF RequestsAreCurrent
  <1>9. RepliesAreTrue(c)'
    BY Zenon, <1>1, <1>2, <1>4, <1>7 DEF Own, RepliesAreTrue
  <1>10. StoreIsCurrent(c)'
    <2>1. \A i \in Positions : log[i].id # nextId
      BY <1>1 DEF ChatInv, IdsName
    <2> QED BY Zenon, <1>1, <1>2, <1>4, <1>7, <2>1 DEF Own, StoreIsCurrent, Positions
  <1>11. Agrees(c)' /\ Once(c)' /\ Persisted(c)'
    BY Zenon, <1>2, <1>4, <1>7, SessionSame
  <1>12. Own(c)'
    BY Zenon, <1>8, <1>9, <1>10, <1>11 DEF Own
  <1> QED BY Zenon, <1>1, <1>2, <1>4, <1>5, <1>6, <1>12, LocalStep

\* A commit is built.
LEMMA BuildCommitInv ==
    ASSUME ChatInv, NEW c \in Client, pc[c] \in {"idle", "rebuild"}, BuildCommit(c),
           commits' \in Nat
    PROVE  ChatInv'
  <1> DEFINE env == [id |-> nextId, from |-> c, commit |-> TRUE, epoch |-> epoch[c]]
  <1>1. /\ TypeOK /\ Own(c) /\ nextId \in Nat \ {0}
        /\ env \in Env /\ env.id = nextId /\ env.commit /\ env.epoch = epoch[c]
    BY Zenon, ByClient DEF TypeOK, Env
  <1>2. /\ nextId' = nextId + 1 /\ log' = log /\ relayEpoch' = relayEpoch
        /\ pc' = [pc EXCEPT ![c] = "committing"]
        /\ current' = [current EXCEPT ![c] = env]
        /\ staged' = [staged EXCEPT ![c] = TRUE]
        /\ Call(c, "send", env)
        /\ UNCHANGED <<mailbox, link, reply, pushes, epoch, merged, seen, events, store, shown, apps, faults>>
    BY Zenon DEF BuildCommit, relayVars
  <1> HIDE DEF env
  <1>3. /\ requests' \in [Client -> Seq([op : {"send", "ack"}, env : Env])]
        /\ \A d \in Client \ {c} : requests'[d] = requests[d]
        /\ link[c] = "down" => requests'[c] = requests[c]
        /\ \A i \in 1 .. Len(requests'[c]) :
              \/ i \in 1 .. Len(requests[c]) /\ requests'[c][i] = requests[c][i]
              \/ i = Len(requests[c]) + 1 /\ requests'[c][i] = [op |-> "send", env |-> env]
    BY Zenon, <1>1, <1>2, Called
  <1>4. pc'[c] = "committing" /\ current'[c] = env
    BY Zenon, <1>1, <1>2 DEF TypeOK
  <1>5. TypeOK'
    <2>1. pc' \in [Client -> PC] /\ current' \in [Client -> Env] /\ staged' \in [Client -> BOOLEAN]
      BY Zenon, <1>1, <1>2 DEF TypeOK, PC
    <2>2. Positions' = Positions
      BY Zenon, <1>2 DEF Positions
    <2>3. nextId' \in Nat \ {0}
      BY <1>1, <1>2
    <2> QED BY Zenon, <1>1, <1>2, <1>3, <2>1, <2>2, <2>3 DEF TypeOK
  <1>6. \A d \in Client \ {c} : Same(d)
    BY Zenon, <1>1, <1>2, <1>3 DEF TypeOK, Same
  <1>7. store[c].seen = seen[c] /\ reply[c] = "none"
    BY Zenon, <1>1 DEF Own, StoreIsCurrent, RequestsAreCurrent
  <1>8. RequestsAreCurrent(c)'
    <2>1. \A i \in 1 .. Len(requests[c]) : requests[c][i].op # "send" /\
              (requests[c][i].op = "ack" => requests[c][i].env.id \in store[c].seen)
      BY Zenon, <1>1, <1>2, <1>7 DEF Own, RequestsAreCurrent
    <2>2. ASSUME NEW i \in 1 .. Len(requests'[c])
          PROVE  /\ requests'[c][i].op = "ack" => requests'[c][i].env.id \in store'[c].seen
                 /\ requests'[c][i].op = "send" => requests'[c][i].env = env /\ i = Len(requests[c]) + 1
      <3> DEFINE r == [op |-> "send", env |-> env]
      <3>1. r.op = "send" /\ r.env = env /\ store'[c] = store[c]
        BY Zenon, <1>2
      <3>2. \/ i \in 1 .. Len(requests[c]) /\ requests'[c][i] = requests[c][i]
            \/ i = Len(requests[c]) + 1 /\ requests'[c][i] = r
        BY Zenon, <1>3, <2>2
      <3> HIDE DEF r
      <3>3. CASE i \in 1 .. Len(requests[c]) /\ requests'[c][i] = requests[c][i]
        BY Zenon, <2>1, <3>1, <3>3
      <3>4. CASE i = Len(requests[c]) + 1 /\ requests'[c][i] = r
        BY Zenon, <3>1, <3>4
      <3> QED BY Zenon, <3>2, <3>3, <3>4
    <2>3. link'[c] = "down" => requests'[c] = <<>>
      BY Zenon, <1>1, <1>2, <1>3 DEF Own, RequestsAreCurrent
    <2> QED BY Zenon, <1>1, <1>2, <1>4, <1>7, <2>2, <2>3 DEF RequestsAreCurrent
  <1>9. RepliesAreTrue(c)'
    BY Zenon, <1>1, <1>2, <1>4, <1>7 DEF Own, RepliesAreTrue
  <1>10. StoreIsCurrent(c)'
    BY Zenon, <1>1, <1>2, <1>4, <1>7 DEF Own, StoreIsCurrent, Positions
  <1>11. Agrees(c)' /\ Once(c)' /\ Persisted(c)'
    BY Zenon, <1>2, SessionSame
  <1>12. Own(c)'
    BY Zenon, <1>8, <1>9, <1>10, <1>11 DEF Own
  <1> QED BY Zenon, <1>1, <1>2, <1>4, <1>5, <1>6, <1>12, LocalStep

\* A client with nothing on its connection that waits for no reply.
LEMMA Unconnected ==
    ASSUME NEW c \in Client, requests'[c] = <<>>, reply'[c] = "none",
           pc'[c] \in {"idle", "failed", "down"}, epoch'[c] <= relayEpoch'
    PROVE  RequestsAreCurrent(c)' /\ RepliesAreTrue(c)'
  <1>1. ~\E i \in 1 .. Len(requests'[c]) : TRUE
    OBVIOUS
  <1>2. pc'[c] \notin {"sending", "committing"} /\ pc'[c] # "conflicted"
    BY Zenon
  <1>3. RequestsAreCurrent(c)'
    BY Zenon, <1>1, <1>2 DEF RequestsAreCurrent
  <1>4. RepliesAreTrue(c)'
    BY Zenon, <1>2 DEF RepliesAreTrue
  <1> QED BY Zenon, <1>3, <1>4

\* A step that moves requests, a reply and the program counter of one client.
LEMMA QuietStep ==
    ASSUME ChatInv, NEW c \in Client, TypeOK',
           UNCHANGED <<relayEpoch, log, mailbox, current, epoch, merged, seen, events, store, shown, nextId>>,
           \A d \in Client \ {c} : /\ link'[d] = link[d] /\ requests'[d] = requests[d]
                                   /\ reply'[d] = reply[d] /\ pc'[d] = pc[d],
           pc'[c] \in {"failed", "down"} \/ pc[c] \notin {"failed", "down"},
           RequestsAreCurrent(c)', RepliesAreTrue(c)'
    PROVE  ChatInv'
  <1>1. Own(c)
    BY Zenon, ByClient
  <1>2. \A d \in Client \ {c} : Same(d)
    BY Zenon DEF Same
  <1>3. StoreIsCurrent(c)'
    BY Zenon, <1>1 DEF Own, StoreIsCurrent, Positions
  <1>4. Agrees(c)' /\ Once(c)' /\ Persisted(c)'
    BY Zenon, SessionSame
  <1>5. Own(c)'
    BY Zenon, <1>3, <1>4 DEF Own
  <1> QED BY Zenon, <1>2, <1>5, LocalStep

\* A call returns, or loses its epoch.
LEMMA ReturnInv ==
    ASSUME ChatInv, NEW c \in Client, SendReturns(c) \/ CommitConflicts(c) \/ CommitRejected(c)
    PROVE  ChatInv'
  <1>1. TypeOK /\ Own(c)
    BY Zenon, ByClient
  <1>2. /\ UNCHANGED <<relayEpoch, log, mailbox, current, epoch, merged, seen, events, store, shown, nextId>>
        /\ UNCHANGED <<link, requests, pushes, apps, commits, faults>>
        /\ reply' = [reply EXCEPT ![c] = "none"]
        /\ reply[c] # "none" /\ pc[c] \in {"sending", "committing"}
        /\ \/ pc' = [pc EXCEPT ![c] = "idle"]
           \/ pc' = [pc EXCEPT ![c] = "conflicted"] /\ reply[c] = "conflict"
        /\ staged' \in [Client -> BOOLEAN]
    BY Zenon, <1>1 DEF SendReturns, CommitConflicts, CommitRejected, relayVars, sessionVars, boundVars, TypeOK
  <1>3. reply'[c] = "none" /\ (pc'[c] = "idle" \/ (pc'[c] = "conflicted" /\ reply[c] = "conflict"))
    <2>1. pc \in [Client -> PC] /\ reply \in [Client -> {"none", "ok", "conflict", "rejected"}]
      BY Zenon, <1>1 DEF TypeOK
    <2>2. CASE pc' = [pc EXCEPT ![c] = "idle"]
      BY Zenon, <1>2, <2>1, <2>2
    <2>3. CASE pc' = [pc EXCEPT ![c] = "conflicted"] /\ reply[c] = "conflict"
      BY Zenon, <1>2, <2>1, <2>3
    <2> QED BY Zenon, <1>2, <2>2, <2>3
  <1>4. TypeOK'
    <2>1. pc' \in [Client -> PC] /\ reply' \in [Client -> {"none", "ok", "conflict", "rejected"}]
      BY Zenon, <1>1, <1>2 DEF TypeOK, PC
    <2>2. Positions' = Positions
      BY Zenon, <1>2 DEF Positions
    <2> QED BY Zenon, <1>1, <1>2, <2>1, <2>2 DEF TypeOK
  <1>5. \A d \in Client \ {c} : /\ link'[d] = link[d] /\ requests'[d] = requests[d]
                                /\ reply'[d] = reply[d] /\ pc'[d] = pc[d]
    BY Zenon, <1>1, <1>2 DEF TypeOK
  <1>6. RequestsAreCurrent(c)'
    <2>1. \A i \in 1 .. Len(requests[c]) : /\ requests[c][i].op # "send"
                                           /\ requests[c][i].op = "ack" => requests[c][i].env.id \in store[c].seen
      BY Zenon, <1>1, <1>2 DEF Own, RequestsAreCurrent
    <2>2. link[c] = "down" => requests[c] = <<>>
      BY Zenon, <1>1 DEF Own, RequestsAreCurrent
    <2> QED BY Zenon, <1>2, <1>3, <2>1, <2>2 DEF RequestsAreCurrent
  <1>7. RepliesAreTrue(c)'
    BY Zenon, <1>1, <1>2, <1>3 DEF Own, RepliesAreTrue, Positions
  <1> QED BY Zenon, <1>2, <1>3, <1>4, <1>5, <1>6, <1>7, QuietStep

\* The two callers of pump_one.
LEMMA Pumps == ASSUME NEW c \in Client, Pumping(c) PROVE pc[c] \in {"idle", "conflicted"}
  BY Zenon DEF Pumping

\* A new connection, with the send that was under way or without one.
LEMMA ReconnectInv ==
    ASSUME ChatInv, NEW c \in Client, Resend(c) \/ PumpReconnects(c)
    PROVE  ChatInv'
  <1>1. TypeOK /\ Own(c)
    BY Zenon, ByClient
  <1> DEFINE r == [op |-> "send", env |-> current[c]]
  <1>2. /\ UNCHANGED <<relayEpoch, log, mailbox, current, epoch, staged, merged, seen, events, store, shown, nextId>>
        /\ UNCHANGED <<pc, apps, commits, faults>>
        /\ link' = [link EXCEPT ![c] = "up"]
        /\ pushes' = [pushes EXCEPT ![c] = mailbox[c]]
        /\ reply' = [reply EXCEPT ![c] = "none"]
        /\ \/ requests' = [requests EXCEPT ![c] = <<r>>] /\ pc[c] \in {"sending", "committing"}
           \/ requests' = [requests EXCEPT ![c] = <<>>] /\ pc[c] \in {"idle", "conflicted"}
    BY Zenon, Pumps DEF Resend, PumpReconnects, Reconnected, relayVars, sessionVars, boundVars
  <1>3. r \in [op : {"send", "ack"}, env : Env] /\ r.op = "send" /\ r.env = current[c]
    BY Zenon, <1>1 DEF TypeOK
  <1> HIDE DEF r
  <1>4. /\ reply'[c] = "none"
        /\ \/ requests'[c] = <<r>> /\ pc[c] \in {"sending", "committing"}
           \/ requests'[c] = <<>> /\ pc[c] \in {"idle", "conflicted"}
    BY Zenon, <1>1, <1>2 DEF TypeOK
  <1>5. TypeOK'
    <2>1. /\ link' \in [Client -> {"up", "down"}] /\ pushes' \in [Client -> SUBSET Positions]
          /\ reply' \in [Client -> {"none", "ok", "conflict", "rejected"}]
      BY Zenon, <1>1, <1>2 DEF TypeOK
    <2>2. <<r>> \in Seq([op : {"send", "ack"}, env : Env])
      BY <1>3
    <2>4. requests' \in [Client -> Seq([op : {"send", "ack"}, env : Env])]
      <3> DEFINE S == Seq([op : {"send", "ack"}, env : Env])
      <3>1. <<>> \in S
        OBVIOUS
      <3>2. requests \in [Client -> S]
        BY Zenon, <1>1 DEF TypeOK
      <3>4. <<r>> \in S
        BY Zenon, <2>2
      <3> HIDE DEF S
      <3>3. requests' \in [Client -> S]
        BY Zenon, <1>2, <3>1, <3>2, <3>4
      <3> QED BY Zenon, <3>3 DEF S
    <2>3. Positions' = Positions
      BY Zenon, <1>2 DEF Positions
    <2> QED BY Zenon, <1>1, <1>2, <2>1, <2>3, <2>4 DEF TypeOK
  <1>6. \A d \in Client \ {c} : /\ link'[d] = link[d] /\ requests'[d] = requests[d]
                                /\ reply'[d] = reply[d] /\ pc'[d] = pc[d]
    BY Zenon, <1>1, <1>2 DEF TypeOK
  <1>7. RequestsAreCurrent(c)'
    <2>1. link'[c] = "up"
      BY Zenon, <1>1, <1>2 DEF TypeOK
    <2>4. /\ pc[c] \in {"sending", "committing"} => current[c].id # 0
          /\ pc[c] = "sending" => ~current[c].commit
          /\ pc[c] = "committing" => current[c].commit /\ current[c].epoch = epoch[c]
      BY Zenon, <1>1 DEF Own, RequestsAreCurrent
    <2>2. CASE requests'[c] = <<>>
      <3>1. ~\E i \in 1 .. Len(requests'[c]) : TRUE
        BY <2>2
      <3>2. link'[c] # "down" /\ reply'[c] = "none"
        BY Zenon, <1>4, <2>1
      <3>3. pc'[c] = pc[c] /\ current'[c] = current[c] /\ epoch'[c] = epoch[c]
        BY Zenon, <1>2
      <3> QED BY Zenon, <2>4, <3>1, <3>2, <3>3 DEF RequestsAreCurrent
    <2>3. CASE requests'[c] = <<r>> /\ pc[c] \in {"sending", "committing"}
      <3>1. Len(requests'[c]) = 1 /\ requests'[c][1] = r
        BY <2>3
      <3> QED BY <1>2, <1>3, <1>4, <2>1, <2>3, <2>4, <3>1 DEF RequestsAreCurrent
    <2> QED BY Zenon, <1>4, <2>2, <2>3
  <1>8. RepliesAreTrue(c)'
    BY Zenon, <1>1, <1>2, <1>4 DEF Own, RepliesAreTrue, Positions
  <1> QED BY Zenon, <1>2, <1>4, <1>5, <1>6, <1>7, <1>8, QuietStep

\* Reconnecting fails.
LEMMA ReconnectFailsInv == ASSUME ChatInv, NEW c \in Client, ReconnectFails(c) PROVE ChatInv'
  <1>1. TypeOK /\ Own(c)
    BY Zenon, ByClient
  <1>2. /\ UNCHANGED <<relayEpoch, log, mailbox, current, epoch, staged, merged, seen, events, store, shown, nextId>>
        /\ UNCHANGED <<link, requests, reply, pushes, apps, commits>>
        /\ link[c] = "down" /\ reply[c] = "none" /\ faults' = faults + 1
        /\ pc' = [pc EXCEPT ![c] = "failed"]
    <2>1. reply[c] = "none"
      BY Zenon, <1>1, Pumps DEF ReconnectFails, Own, RequestsAreCurrent
    <2> QED BY Zenon, <2>1 DEF ReconnectFails, Fault, relayVars, connVars, sessionVars, boundVars
  <1>3. pc'[c] = "failed"
    BY Zenon, <1>1, <1>2 DEF TypeOK
  <1>4. TypeOK'
    <2>1. pc' \in [Client -> PC] /\ faults' \in Nat
      BY <1>1, <1>2 DEF TypeOK, PC
    <2>2. Positions' = Positions
      BY Zenon, <1>2 DEF Positions
    <2> QED BY Zenon, <1>1, <1>2, <2>1, <2>2 DEF TypeOK
  <1>5. \A d \in Client \ {c} : /\ link'[d] = link[d] /\ requests'[d] = requests[d]
                                /\ reply'[d] = reply[d] /\ pc'[d] = pc[d]
    BY Zenon, <1>1, <1>2 DEF TypeOK
  <1>6. requests[c] = <<>> /\ epoch[c] <= relayEpoch
    BY Zenon, <1>1, <1>2 DEF Own, RequestsAreCurrent, RepliesAreTrue
  <1>7. RequestsAreCurrent(c)' /\ RepliesAreTrue(c)'
    BY Zenon, <1>2, <1>3, <1>6, Unconnected
  <1> QED BY Zenon, <1>2, <1>3, <1>4, <1>5, <1>7, QuietStep

\* The caller takes an event.
LEMMA NextEventInv == ASSUME ChatInv, NEW c \in Client, NextEvent(c) PROVE ChatInv'
  <1>1. TypeOK /\ Own(c)
    BY Zenon, ByClient
  <1>2. /\ UNCHANGED <<relayEpoch, log, mailbox, link, requests, reply, pushes, pc, current,
                      epoch, staged, merged, seen, store, nextId, apps, commits, faults>>
        /\ events[c] # <<>>
        /\ shown' = [shown EXCEPT ![c] = Append(@, Head(events[c]))]
        /\ events' = [events EXCEPT ![c] = Tail(@)]
    BY Zenon DEF NextEvent, relayVars, connVars, sessionVars, boundVars
  <1>3. shown \in [Client -> Seq(Nat)] /\ events \in [Client -> Seq(Nat)]
    BY Zenon, <1>1 DEF TypeOK
  <1>4. shown[c] \in Seq(Nat) /\ events[c] \in Seq(Nat)
    BY Zenon, <1>3
  <1>5. shown'[c] = Append(shown[c], Head(events[c])) /\ events'[c] = Tail(events[c])
    BY Zenon, <1>2, <1>3
  <1>6. /\ Head(events[c]) = events[c][1] /\ events[c][1] \in Nat /\ Tail(events[c]) \in Seq(Nat)
        /\ Len(events[c]) \in Nat \ {0} /\ Len(Tail(events[c])) = Len(events[c]) - 1
        /\ \A i \in 1 .. Len(events[c]) - 1 : Tail(events[c])[i] = events[c][i + 1]
    BY Zenon, <1>2, <1>4, Tailed
  <1>7. /\ Append(shown[c], Head(events[c])) \in Seq(Nat)
        /\ Len(shown'[c]) = Len(shown[c]) + 1 /\ Len(shown[c]) \in Nat
        /\ shown'[c][Len(shown[c]) + 1] = events[c][1]
        /\ \A i \in 1 .. Len(shown[c]) : shown'[c][i] = shown[c][i]
    BY <1>4, <1>5, <1>6, Appended
  <1>8. TypeOK'
    <2>1. shown' \in [Client -> Seq(Nat)] /\ events' \in [Client -> Seq(Nat)]
      BY Zenon, <1>2, <1>3, <1>6, <1>7
    <2>2. Positions' = Positions
      BY Zenon, <1>2 DEF Positions
    <2> QED BY Zenon, <1>1, <1>2, <2>1, <2>2 DEF TypeOK
  <1>9. \A d \in Client \ {c} : Same(d)
    BY Zenon, <1>2, <1>3 DEF Same
  <1>10. RequestsAreCurrent(c)' /\ RepliesAreTrue(c)'
    BY Zenon, <1>1, <1>2 DEF Own, RequestsAreCurrent, RepliesAreTrue, Positions
  <1>11. StoreIsCurrent(c)'
    <2>1. ASSUME NEW i \in 1 .. Len(shown'[c]) PROVE shown'[c][i] \in store[c].seen
      <3>1. CASE i = Len(shown[c]) + 1
        <4>1. 1 \in 1 .. Len(events[c])
          BY <1>6
        <4> QED BY Zenon, <1>1, <1>7, <3>1, <4>1 DEF Own, StoreIsCurrent
      <3>2. CASE i \in 1 .. Len(shown[c])
        BY Zenon, <1>1, <1>7, <3>2 DEF Own, StoreIsCurrent
      <3> QED BY <1>7, <2>1, <3>1, <3>2
    <2>2. ASSUME NEW i \in 1 .. Len(events'[c]) PROVE events'[c][i] \in store[c].seen
      <3>1. i + 1 \in 1 .. Len(events[c]) /\ events'[c][i] = events[c][i + 1]
        BY <1>5, <1>6, <2>2
      <3> QED BY Zenon, <1>1, <3>1 DEF Own, StoreIsCurrent
    <2> QED BY Zenon, <1>1, <1>2, <2>1, <2>2 DEF Own, StoreIsCurrent, Positions
  <1>12. Once(c)'
    <2>1. shown'[c] \o events'[c] = shown[c] \o events[c]
      BY Zenon, <1>2, <1>4, <1>5, HandedOver
    <2> QED BY Zenon, <1>1, <2>1 DEF Own, Once
  <1>13. Agrees(c)' /\ Persisted(c)'
    <2>1. \A e : Winners(e)' = Winners(e)
      BY Zenon, <1>2 DEF Winners, Positions
    <2> QED BY Zenon, <1>1, <1>2, <2>1 DEF Own, Agrees, Persisted, Positions
  <1>14. Own(c)'
    BY Zenon, <1>10, <1>11, <1>12, <1>13 DEF Own
  <1> QED BY Zenon, <1>2, <1>8, <1>9, <1>14, LocalStep

\* The process dies: what it had shown is in the store, what it had not is in
\* the mailbox or in the store.
LEMMA CrashInv == ASSUME ChatInv, NEW c \in Client, Crash(c) PROVE ChatInv'
  <1>1. TypeOK /\ Own(c)
    BY Zenon, ByClient
  <1>2. /\ UNCHANGED <<relayEpoch, log, mailbox, current, epoch, staged, merged, seen, store, shown,
                      nextId, apps, commits>>
        /\ faults' = faults + 1
        /\ pc' = [pc EXCEPT ![c] = "down"]
        /\ link' = [link EXCEPT ![c] = "down"]
        /\ requests' = [requests EXCEPT ![c] = <<>>]
        /\ reply' = [reply EXCEPT ![c] = "none"]
        /\ pushes' = [pushes EXCEPT ![c] = {}]
        /\ events' = [events EXCEPT ![c] = <<>>]
    BY Zenon DEF Crash, Fault, relayVars, sessionVars
  <1>3. /\ pc'[c] = "down" /\ link'[c] = "down" /\ requests'[c] = <<>> /\ reply'[c] = "none"
        /\ events'[c] = <<>>
    BY Zenon, <1>1, <1>2 DEF TypeOK
  <1>4. TypeOK'
    <2>1. /\ pc' \in [Client -> PC] /\ link' \in [Client -> {"up", "down"}]
          /\ reply' \in [Client -> {"none", "ok", "conflict", "rejected"}]
          /\ pushes' \in [Client -> SUBSET Positions] /\ faults' \in Nat
      BY <1>1, <1>2 DEF TypeOK, PC
    <2>2. events' \in [Client -> Seq(Nat)]
      BY <1>1, <1>2 DEF TypeOK
    <2>3. requests' \in [Client -> Seq([op : {"send", "ack"}, env : Env])]
      <3>1. requests \in [Client -> Seq([op : {"send", "ack"}, env : Env])]
        BY Zenon, <1>1 DEF TypeOK
      <3>2. <<>> \in Seq([op : {"send", "ack"}, env : Env])
        OBVIOUS
      <3> QED BY Zenon, <1>2, <3>1, <3>2
    <2>4. Positions' = Positions
      BY <1>2 DEF Positions
    <2> QED BY Zenon, <1>1, <1>2, <2>1, <2>2, <2>3, <2>4 DEF TypeOK
  <1>5. \A d \in Client \ {c} : Same(d)
    BY Zenon, <1>1, <1>2 DEF TypeOK, Same
  <1>6. RequestsAreCurrent(c)' /\ RepliesAreTrue(c)'
    <2>1. epoch[c] <= relayEpoch
      BY Zenon, <1>1 DEF Own, RepliesAreTrue
    <2> QED BY Zenon, <1>2, <1>3, <2>1, Unconnected
  <1>7. StoreIsCurrent(c)'
    <2>1. StoreIsCurrent(c)
      BY Zenon, <1>1 DEF Own
    <2>2. ~\E i \in 1 .. Len(events'[c]) : TRUE
      BY <1>3
    <2> QED BY Zenon, <1>2, <1>3, <2>1, <2>2 DEF StoreIsCurrent, Positions
  <1>8. Once(c)'
    <2>1. shown[c] \in Seq(Nat) /\ events[c] \in Seq(Nat)
      BY Zenon, <1>1 DEF TypeOK
    <2>2. shown'[c] = shown[c] /\ shown[c] \o <<>> = shown[c]
      BY <1>2, <2>1
    <2>3. \A i \in 1 .. Len(shown[c]) : /\ i \in 1 .. Len(shown[c] \o events[c])
                                        /\ (shown[c] \o events[c])[i] = shown[c][i]
      BY Zenon, <2>1, Begins
    <2>4. \A i, j \in 1 .. Len(shown[c]) : shown[c][i] = shown[c][j] => i = j
      BY Zenon, <1>1, <2>3 DEF Own, Once
    <2> QED BY Zenon, <1>3, <2>2, <2>4 DEF Once
  <1>9. Agrees(c)' /\ Persisted(c)'
    <2>1. \A e : Winners(e)' = Winners(e)
      BY Zenon, <1>2 DEF Winners, Positions
    <2> QED BY Zenon, <1>1, <1>2, <2>1 DEF Own, Agrees, Persisted, Positions
  <1>10. Own(c)'
    BY Zenon, <1>6, <1>7, <1>8, <1>9 DEF Own
  <1> QED BY Zenon, <1>2, <1>4, <1>5, <1>10, LocalStep

\* The process starts again from its store.
LEMMA ResumeInv == ASSUME ChatInv, NEW c \in Client, Resume(c) PROVE ChatInv'
  <1>1. TypeOK /\ Own(c)
    BY Zenon, ByClient
  <1>2. /\ UNCHANGED <<relayEpoch, log, mailbox, current, merged, events, store, shown,
                      nextId, apps, commits, faults>>
        /\ pc[c] = "down"
        /\ pc' = [pc EXCEPT ![c] = "idle"]
        /\ epoch' = [epoch EXCEPT ![c] = store[c].epoch]
        /\ staged' = [staged EXCEPT ![c] = store[c].staged]
        /\ seen' = [seen EXCEPT ![c] = store[c].seen]
        /\ link' = [link EXCEPT ![c] = "up"]
        /\ pushes' = [pushes EXCEPT ![c] = mailbox[c]]
        /\ requests' = [requests EXCEPT ![c] = <<>>]
        /\ reply' = [reply EXCEPT ![c] = "none"]
    BY Zenon DEF Resume, Restored, Reconnected, relayVars, boundVars
  <1>3. /\ pc'[c] = "idle" /\ requests'[c] = <<>> /\ reply'[c] = "none" /\ link'[c] = "up"
        /\ epoch'[c] = store[c].epoch /\ seen'[c] = store[c].seen
    BY <1>1, <1>2 DEF TypeOK
  <1>4. TypeOK'
    <2>1. /\ pc' \in [Client -> PC] /\ link' \in [Client -> {"up", "down"}]
          /\ reply' \in [Client -> {"none", "ok", "conflict", "rejected"}]
          /\ pushes' \in [Client -> SUBSET Positions]
      BY Zenon, <1>1, <1>2 DEF TypeOK, PC
    <2>2. /\ epoch' \in [Client -> Nat \ {0}] /\ staged' \in [Client -> BOOLEAN]
          /\ seen' \in [Client -> SUBSET Nat]
      BY Zenon, <1>1, <1>2 DEF TypeOK
    <2>3. requests' \in [Client -> Seq([op : {"send", "ack"}, env : Env])]
      <3>1. requests \in [Client -> Seq([op : {"send", "ack"}, env : Env])]
        BY Zenon, <1>1 DEF TypeOK
      <3>2. <<>> \in Seq([op : {"send", "ack"}, env : Env])
        OBVIOUS
      <3> QED BY Zenon, <1>2, <3>1, <3>2
    <2>4. Positions' = Positions
      BY Zenon, <1>2 DEF Positions
    <2> QED BY Zenon, <1>1, <1>2, <2>1, <2>2, <2>3, <2>4 DEF TypeOK
  <1>5. \A d \in Client \ {c} : Same(d)
    BY <1>1, <1>2 DEF TypeOK, Same
  <1>6. epoch'[c] = epoch[c] /\ seen'[c] \subseteq seen[c]
    BY Zenon, <1>1, <1>3 DEF Own, StoreIsCurrent
  <1>7. RequestsAreCurrent(c)' /\ RepliesAreTrue(c)'
    <2>1. epoch[c] <= relayEpoch
      BY Zenon, <1>1 DEF Own, RepliesAreTrue
    <2> QED BY Zenon, <1>2, <1>3, <1>6, <2>1, Unconnected
  <1>8. StoreIsCurrent(c)'
    BY Zenon, <1>1, <1>2, <1>3, <1>6 DEF Own, StoreIsCurrent, Positions
  <1>9. Agrees(c)' /\ Once(c)' /\ Persisted(c)'
    BY Zenon, <1>2, <1>6, SessionSame
  <1>10. Own(c)'
    BY Zenon, <1>7, <1>8, <1>9 DEF Own
  <1> QED BY Zenon, <1>2, <1>4, <1>5, <1>6, <1>10, LocalStep


-----------------------------------------------------------------------------
(* The relay's steps *)

\* The connection dies.
LEMMA DropInv == ASSUME ChatInv, NEW c \in Client, Drop(c) PROVE ChatInv'
  <1>1. TypeOK /\ Own(c)
    BY Zenon, ByClient
  <1>2. /\ UNCHANGED <<relayEpoch, log, mailbox, current, epoch, staged, merged, seen, events, store, shown, nextId>>
        /\ UNCHANGED <<pc, apps, commits>>
        /\ faults' = faults + 1
        /\ link' = [link EXCEPT ![c] = "down"]
        /\ requests' = [requests EXCEPT ![c] = <<>>]
    BY Zenon DEF Drop, Fault, relayVars, sessionVars
  <1>3. PICK r \in {reply[c], "none"} : reply' = [reply EXCEPT ![c] = r]
    BY Zenon DEF Drop
  <1>4. PICK last \in pushes[c] \cup {0} : pushes' = [pushes EXCEPT ![c] = {i \in @ : i <= last}]
    BY Zenon DEF Drop
  <1>5. link'[c] = "down" /\ requests'[c] = <<>> /\ reply'[c] \in {reply[c], "none"}
    BY Zenon, <1>1, <1>2, <1>3 DEF TypeOK
  <1>6. TypeOK'
    <2>5. link' \in [Client -> {"up", "down"}] /\ faults' \in Nat
      BY <1>1, <1>2 DEF TypeOK
    <2>6. reply \in [Client -> {"none", "ok", "conflict", "rejected"}]
      BY Zenon, <1>1 DEF TypeOK
    <2>7. r \in {"none", "ok", "conflict", "rejected"}
      BY Zenon, <1>3, <2>6
    <2>1. reply' \in [Client -> {"none", "ok", "conflict", "rejected"}]
      BY Zenon, <1>3, <2>6, <2>7
    <2>2. pushes' \in [Client -> SUBSET Positions]
      BY Zenon, <1>1, <1>4 DEF TypeOK
    <2>3. requests' \in [Client -> Seq([op : {"send", "ack"}, env : Env])]
      <3>1. requests \in [Client -> Seq([op : {"send", "ack"}, env : Env])]
        BY Zenon, <1>1 DEF TypeOK
      <3>2. <<>> \in Seq([op : {"send", "ack"}, env : Env])
        OBVIOUS
      <3> QED BY Zenon, <1>2, <3>1, <3>2
    <2>4. Positions' = Positions
      BY Zenon, <1>2 DEF Positions
    <2> QED BY Zenon, <1>1, <1>2, <2>1, <2>2, <2>3, <2>4, <2>5 DEF TypeOK
  <1>7. \A d \in Client \ {c} : /\ link'[d] = link[d] /\ requests'[d] = requests[d]
                                /\ reply'[d] = reply[d] /\ pc'[d] = pc[d]
    BY Zenon, <1>1, <1>2, <1>3 DEF TypeOK
  <1>8. RequestsAreCurrent(c)'
    <2>1. /\ reply[c] # "none" => pc[c] \in {"sending", "committing"}
          /\ pc[c] \in {"sending", "committing"} => current[c].id # 0
          /\ pc[c] = "sending" => ~current[c].commit
          /\ pc[c] = "committing" => current[c].commit /\ current[c].epoch = epoch[c]
      BY Zenon, <1>1 DEF Own, RequestsAreCurrent
    <2> QED BY <1>2, <1>5, <2>1 DEF RequestsAreCurrent
  <1>9. RepliesAreTrue(c)'
    BY Zenon, <1>1, <1>2, <1>5 DEF Own, RepliesAreTrue, Positions
  <1> QED BY Zenon, <1>2, <1>6, <1>7, <1>8, <1>9, QuietStep

\* The requests after the relay took the oldest one.
LEMMA Handled ==
    ASSUME ChatInv, NEW c \in Client, requests[c] # <<>>,
           requests' = [requests EXCEPT ![c] = Tail(@)]
    PROVE  /\ requests' \in [Client -> Seq([op : {"send", "ack"}, env : Env])]
           /\ \A d \in Client \ {c} : requests'[d] = requests[d]
           /\ 1 \in 1 .. Len(requests[c])
           /\ Head(requests[c]) = requests[c][1]
           /\ requests[c][1] \in [op : {"send", "ack"}, env : Env]
           /\ \A i \in 1 .. Len(requests'[c]) :
                 /\ i + 1 \in 1 .. Len(requests[c])
                 /\ requests'[c][i] = requests[c][i + 1]
                 /\ requests'[c][i].op \in {"send", "ack"}
  <1> DEFINE S == [op : {"send", "ack"}, env : Env]
  <1>1. requests \in [Client -> Seq(S)]
    BY Zenon DEF ChatInv, TypeOK
  <1>2. \A x \in S : x.op \in {"send", "ack"}
    BY Zenon
  <1> HIDE DEF S
  <1>3. requests[c] \in Seq(S) /\ requests'[c] = Tail(requests[c])
    BY Zenon, <1>1
  <1>4. /\ Tail(requests[c]) \in Seq(S) /\ Len(requests[c]) \in Nat \ {0}
        /\ Len(Tail(requests[c])) = Len(requests[c]) - 1
        /\ \A i \in 1 .. Len(requests[c]) - 1 : Tail(requests[c])[i] = requests[c][i + 1]
        /\ Head(requests[c]) = requests[c][1] /\ requests[c][1] \in S
    BY Zenon, <1>3, Tailed
  <1>5. requests' \in [Client -> Seq(S)] /\ \A d \in Client \ {c} : requests'[d] = requests[d]
    BY Zenon, <1>1, <1>4
  <1>6. \A i \in 1 .. Len(requests'[c]) :
           i + 1 \in 1 .. Len(requests[c]) /\ requests'[c][i] = requests[c][i + 1]
    <2>1. Len(requests'[c]) = Len(requests[c]) - 1 /\ Len(requests[c]) \in Nat
      BY Zenon, <1>3, <1>4
    <2>2. \A i \in 1 .. Len(requests[c]) - 1 : requests'[c][i] = requests[c][i + 1]
      BY Zenon, <1>3, <1>4
    <2>3. \A i \in 1 .. Len(requests[c]) - 1 : i + 1 \in 1 .. Len(requests[c])
      BY <2>1
    <2> QED BY Zenon, <2>1, <2>2, <2>3
  <1>7. \A i \in 1 .. Len(requests'[c]) : requests'[c][i] \in S
    <2>1. requests'[c] \in Seq(S)
      BY Zenon, <1>5
    <2> QED BY <2>1
  <1>8. 1 \in 1 .. Len(requests[c])
    BY <1>4
  <1>9. \A i \in 1 .. Len(requests'[c]) : requests'[c][i].op \in {"send", "ack"}
    BY Zenon, <1>2, <1>7
  <1>10. requests[c][1] \in S /\ requests' \in [Client -> Seq(S)]
    BY Zenon, <1>4, <1>5
  <1> QED BY <1>4, <1>5, <1>6, <1>8, <1>9, <1>10, Zenon DEF S

\* The oldest request was the send: it is what its client waits for, and acks remain.
LEMMA SendHandled ==
    ASSUME ChatInv, NEW c \in Client, link[c] = "up", requests[c] # <<>>,
           requests' = [requests EXCEPT ![c] = Tail(@)], Head(requests[c]).op = "send"
    PROVE  /\ Head(requests[c]).env = current[c]
           /\ pc[c] \in {"sending", "committing"}
           /\ reply[c] = "none"
           /\ \A i \in 1 .. Len(requests'[c]) :
                 requests'[c][i].op = "ack" /\ requests'[c][i].env.id \in store[c].seen
  <1>1. RequestsAreCurrent(c)
    BY Zenon DEF ChatInv
  <1>2. /\ 1 \in 1 .. Len(requests[c]) /\ Head(requests[c]) = requests[c][1]
        /\ \A i \in 1 .. Len(requests'[c]) :
                 /\ i + 1 \in 1 .. Len(requests[c])
                 /\ requests'[c][i] = requests[c][i + 1]
                 /\ requests'[c][i].op \in {"send", "ack"}
    BY Zenon, Handled
  <1>3. requests[c][1].op = "send"
    BY Zenon, <1>2
  <1>4. /\ requests[c][1].env = current[c] /\ pc[c] \in {"sending", "committing"} /\ reply[c] = "none"
        /\ \A j \in 1 .. Len(requests[c]) : requests[c][j].op = "send" => 1 = j
    BY Zenon, <1>1, <1>2, <1>3 DEF RequestsAreCurrent
  <1>5. ASSUME NEW i \in 1 .. Len(requests'[c])
        PROVE  requests'[c][i].op = "ack" /\ requests'[c][i].env.id \in store[c].seen
    <2>1. i + 1 # 1
      BY <1>5
    <2>2. requests[c][i + 1].op = "ack"
      BY Zenon, <1>2, <1>4, <2>1
    <2> QED BY Zenon, <1>1, <1>2, <2>2 DEF RequestsAreCurrent
  <1> QED BY Zenon, <1>2, <1>4, <1>5

\* The relay refuses a send.
LEMMA RefusedInv ==
    ASSUME ChatInv, NEW c \in Client, link[c] = "up", requests[c] # <<>>,
           requests' = [requests EXCEPT ![c] = Tail(@)], Head(requests[c]).op = "send",
           NEW x \in {"conflict", "rejected"}, reply' = [reply EXCEPT ![c] = x],
           x = "conflict" => ~Accepts(Head(requests[c]).env),
           UNCHANGED <<relayEpoch, log, mailbox, current, epoch, staged, merged, seen, events, store, shown, nextId>>,
           UNCHANGED <<link, pc, pushes, apps, commits>>, faults' \in Nat
    PROVE  ChatInv'
  <1>1. TypeOK /\ Own(c)
    BY Zenon, ByClient
  <1>2. /\ Head(requests[c]).env = current[c]
        /\ pc[c] \in {"sending", "committing"}
        /\ \A i \in 1 .. Len(requests'[c]) :
              requests'[c][i].op = "ack" /\ requests'[c][i].env.id \in store[c].seen
    BY Zenon, SendHandled
  <1>3. /\ requests' \in [Client -> Seq([op : {"send", "ack"}, env : Env])]
        /\ \A d \in Client \ {c} : requests'[d] = requests[d]
    BY Zenon, Handled
  <1>4. reply'[c] = x
    BY Zenon, <1>1 DEF TypeOK
  <1>5. TypeOK'
    <2>1. reply' \in [Client -> {"none", "ok", "conflict", "rejected"}]
      BY Zenon, <1>1 DEF TypeOK
    <2>2. Positions' = Positions
      BY Zenon DEF Positions
    <2> QED BY Zenon, <1>1, <1>3, <2>1, <2>2 DEF TypeOK
  <1>6. \A d \in Client \ {c} : /\ link'[d] = link[d] /\ requests'[d] = requests[d]
                                /\ reply'[d] = reply[d] /\ pc'[d] = pc[d]
    BY Zenon, <1>1, <1>3 DEF TypeOK
  <1>7. RequestsAreCurrent(c)'
    <2>1. /\ pc[c] \in {"sending", "committing"} => current[c].id # 0
          /\ pc[c] = "sending" => ~current[c].commit
          /\ pc[c] = "committing" => current[c].commit /\ current[c].epoch = epoch[c]
      BY Zenon, <1>1 DEF Own, RequestsAreCurrent
    <2> QED BY Zenon, <1>2, <1>4, <2>1 DEF RequestsAreCurrent
  <1>8. RepliesAreTrue(c)'
    <2>1. CASE x = "rejected"
      BY Zenon, <1>1, <1>2, <1>4, <2>1 DEF Own, RepliesAreTrue, Positions
    <2>2. CASE x = "conflict"
      <3>1. current[c].commit /\ current[c].epoch # relayEpoch
        BY Zenon, <1>2, <2>2 DEF Accepts
      <3>2. pc[c] = "committing" /\ current[c].epoch = epoch[c]
        BY Zenon, <1>1, <1>2, <3>1 DEF Own, RequestsAreCurrent
      <3>3. epoch[c] < relayEpoch
        <4>1. epoch[c] \in Nat /\ relayEpoch \in Nat /\ epoch[c] <= relayEpoch
          BY Zenon, <1>1 DEF TypeOK, Own, RepliesAreTrue
        <4> QED BY <3>1, <3>2, <4>1
      <3> QED BY Zenon, <1>1, <1>4, <2>2, <3>2, <3>3 DEF Own, RepliesAreTrue, Positions
    <2> QED BY Zenon, <2>1, <2>2
  <1> QED BY Zenon, <1>2, <1>5, <1>6, <1>7, <1>8, QuietStep

\* The relay turns a send down: nothing is logged, and the reply says so.
LEMMA RelayRejectsInv == ASSUME ChatInv, NEW c \in Client, RelayRejects(c) PROVE ChatInv'
  <1>1. faults' \in Nat
    BY DEF RelayRejects, Fault, ChatInv, TypeOK
  <1> QED BY Zenon, <1>1, RefusedInv DEF RelayRejects, relayVars, sessionVars

\* The relay forgets an envelope that was acknowledged.
LEMMA AckInv ==
    ASSUME ChatInv, NEW c \in Client, link[c] = "up", requests[c] # <<>>,
           requests' = [requests EXCEPT ![c] = Tail(@)], Head(requests[c]).op = "ack",
           mailbox' = [mailbox EXCEPT ![c] = {i \in @ : log[i].id # Head(requests[c]).env.id}],
           UNCHANGED <<relayEpoch, log, current, epoch, staged, merged, seen, events, store, shown, nextId>>,
           UNCHANGED <<link, reply, pc, pushes, apps, commits, faults>>
    PROVE  ChatInv'
  <1>1. TypeOK /\ Own(c)
    BY Zenon, ByClient
  <1>2. /\ requests' \in [Client -> Seq([op : {"send", "ack"}, env : Env])]
        /\ \A d \in Client \ {c} : requests'[d] = requests[d]
        /\ 1 \in 1 .. Len(requests[c]) /\ Head(requests[c]) = requests[c][1]
        /\ \A i \in 1 .. Len(requests'[c]) :
              i + 1 \in 1 .. Len(requests[c]) /\ requests'[c][i] = requests[c][i + 1]
    BY Zenon, Handled
  <1>3. requests[c][1].env.id \in store[c].seen
    <2>1. requests[c][1].op = "ack"
      BY Zenon, <1>2
    <2> QED BY Zenon, <1>1, <1>2, <2>1 DEF Own, RequestsAreCurrent
  <1>4. /\ mailbox' \in [Client -> SUBSET Positions]
        /\ \A d \in Client \ {c} : mailbox'[d] = mailbox[d]
        /\ \A i \in mailbox[c] : i \in mailbox'[c] \/ log[i].id = requests[c][1].env.id
    <2>1. mailbox \in [Client -> SUBSET Positions]
      BY Zenon, <1>1 DEF TypeOK
    <2>2. mailbox'[c] = {i \in mailbox[c] : log[i].id # requests[c][1].env.id}
      BY Zenon, <1>2, <2>1
    <2> QED BY Zenon, <2>1, <2>2
  <1>5. TypeOK'
    <2>1. Positions' = Positions
      BY Zenon DEF Positions
    <2> QED BY Zenon, <1>1, <1>2, <1>4, <2>1 DEF TypeOK
  <1>6. \A d \in Client \ {c} : Same(d)
    BY Zenon, <1>2, <1>4 DEF Same
  <1>7. RequestsAreCurrent(c)'
    <2>1. ASSUME NEW i \in 1 .. Len(requests'[c])
          PROVE  /\ requests'[c][i].op = "ack" => requests'[c][i].env.id \in store[c].seen
                 /\ requests'[c][i].op = "send" =>
                       /\ requests'[c][i].env = current[c]
                       /\ pc[c] \in {"sending", "committing"}
                       /\ reply[c] = "none"
      BY <1>1, <1>2, <2>1 DEF Own, RequestsAreCurrent
    <2>2. ASSUME NEW i \in 1 .. Len(requests'[c]), NEW j \in 1 .. Len(requests'[c]),
                 requests'[c][i].op = "send", requests'[c][j].op = "send"
          PROVE  i = j
      <3>1. /\ i + 1 \in 1 .. Len(requests[c]) /\ requests[c][i + 1].op = "send"
            /\ j + 1 \in 1 .. Len(requests[c]) /\ requests[c][j + 1].op = "send"
        BY Zenon, <1>2, <2>2
      <3>2. i + 1 = j + 1
        BY Zenon, <1>1, <3>1 DEF Own, RequestsAreCurrent
      <3> QED BY <2>2, <3>2
    <2>3. /\ reply[c] # "none" => pc[c] \in {"sending", "committing"}
          /\ pc[c] \in {"sending", "committing"} => current[c].id # 0
          /\ pc[c] = "sending" => ~current[c].commit
          /\ pc[c] = "committing" => current[c].commit /\ current[c].epoch = epoch[c]
      BY Zenon, <1>1 DEF Own, RequestsAreCurrent
    <2> QED BY Zenon, <2>1, <2>2, <2>3 DEF RequestsAreCurrent
  <1>8. RepliesAreTrue(c)' /\ StoreIsCurrent(c)'
    BY Zenon, <1>1 DEF Own, RepliesAreTrue, StoreIsCurrent, Positions
  <1>9. Agrees(c)' /\ Once(c)'
    <2>1. \A e : Winners(e)' = Winners(e)
      BY Zenon DEF Winners, Positions
    <2> QED BY Zenon, <1>1, <2>1 DEF Own, Agrees, Once
  <1>10. Persisted(c)'
    BY Zenon, <1>1, <1>3, <1>4 DEF Own, Persisted, Positions
  <1>11. Own(c)'
    BY Zenon, <1>7, <1>8, <1>9, <1>10 DEF Own
  <1> QED BY Zenon, <1>5, <1>6, <1>11, LocalStep

-----------------------------------------------------------------------------
(* A commit is merged *)

\* A commit accepted is the only one of its epoch.
LEMMA WinnerIs ==
    ASSUME ChatInv, NEW i \in Positions, log[i].commit
    PROVE  Winners(log[i].epoch) = {log[i].id} /\ log[i].epoch \in 1 .. relayEpoch - 1
  BY DEF ChatInv, OneWinnerPerEpoch, Winners

\* The client merges the commit at position i, its own or another's.
LEMMA MergeInv ==
    ASSUME ChatInv, NEW c \in Client, NEW i \in Positions, log[i].commit, log[i].epoch = epoch[c],
           TypeOK', \A d \in Client \ {c} : Same(d),
           UNCHANGED <<relayEpoch, log, mailbox, link, current, events, shown, nextId>>,
           pc[c] \notin {"failed", "down"}, pc'[c] \in {"idle", "rebuild"}, reply'[c] = "none",
           \A k \in 1 .. Len(requests'[c]) :
              requests'[c][k].op = "ack" /\ requests'[c][k].env.id \in seen'[c],
           link[c] = "down" => requests'[c] = <<>>,
           epoch'[c] = epoch[c] + 1, seen'[c] = seen[c] \cup {log[i].id},
           store'[c].seen = seen'[c], store'[c].epoch = epoch'[c],
           merged'[c] = merged[c] \cup {[epoch |-> epoch[c], id |-> log[i].id]}
    PROVE  ChatInv'
  <1>1. TypeOK /\ Own(c)
    BY Zenon, ByClient
  <1>2. Winners(epoch[c]) = {log[i].id} /\ epoch[c] \in 1 .. relayEpoch - 1
    BY Zenon, WinnerIs
  <1>3. epoch[c] \in Nat /\ relayEpoch \in Nat
    BY Zenon, <1>1 DEF TypeOK
  <1>4. store[c].seen = seen[c]
    BY Zenon, <1>1 DEF Own, StoreIsCurrent
  <1>5. RequestsAreCurrent(c)'
    BY Zenon DEF RequestsAreCurrent
  <1>6. RepliesAreTrue(c)'
    BY <1>2, <1>3 DEF RepliesAreTrue
  <1>7. StoreIsCurrent(c)'
    <2>1. ASSUME NEW j \in Positions, log[j].commit, log[j].id \in seen'[c]
          PROVE  log[j].epoch < epoch[c] + 1
      <3>1. CASE log[j].id \in store[c].seen
        <4>1. log[j].epoch < epoch[c]
          BY SMTT(20), <1>1, <2>1, <3>1 DEF Own, StoreIsCurrent
        <4>2. log[j].epoch \in 1 .. relayEpoch - 1
          BY SMTT(20), <2>1, WinnerIs
        <4> QED BY <1>3, <4>1, <4>2
      <3>2. CASE log[j].id = log[i].id
        <4>1. log[j] = log[i]
          BY Zenon, <3>2 DEF ChatInv, IdsName
        <4> QED BY <1>3, <4>1
      <3> QED BY Zenon, <1>4, <2>1, <3>1, <3>2
    <2>2. /\ \A k \in 1 .. Len(shown[c]) : shown[c][k] \in seen'[c]
          /\ \A k \in 1 .. Len(events[c]) : events[c][k] \in seen'[c]
      BY Zenon, <1>1, <1>4 DEF Own, StoreIsCurrent
    <2> QED BY Zenon, <2>1, <2>2 DEF StoreIsCurrent, Positions
  <1>8. Agrees(c)'
    <2>1. \A e : Winners(e)' = Winners(e)
      BY Zenon DEF Winners, Positions
    <2>2. \A m \in merged'[c] : Winners(m.epoch) = {m.id}
      BY <1>1, <1>2 DEF Own, Agrees
    <2>3. ASSUME NEW e \in 1 .. epoch[c] PROVE \E m \in merged'[c] : m.epoch = e
      <3>1. CASE e = epoch[c]
        <4> DEFINE w == [epoch |-> epoch[c], id |-> log[i].id]
        <4>1. w \in merged'[c] /\ w.epoch = e
          BY Zenon, <3>1
        <4> HIDE DEF w
        <4> QED BY Zenon, <4>1
      <3>2. CASE e \in 1 .. epoch[c] - 1
        BY Zenon, <1>1, <3>2 DEF Own, Agrees
      <3> QED BY SMTT(20), <1>3, <2>3, <3>1, <3>2
    <2>4. 1 .. epoch'[c] - 1 = 1 .. epoch[c]
      BY <1>3
    <2> QED BY Zenon, <2>1, <2>2, <2>3, <2>4 DEF Agrees
  <1>9. Once(c)' /\ Persisted(c)'
    BY Zenon, <1>1, <1>4 DEF Own, Once, Persisted, Positions
  <1>10. Own(c)'
    BY Zenon, <1>5, <1>6, <1>7, <1>8, <1>9 DEF Own
  <1>11. \A x \in seen'[c] : x \in seen[c] \/ \E k \in Positions : log[k].id = x
    BY Zenon
  <1> QED BY Zenon, <1>10, <1>11, LocalStep

\* The own commit won.
LEMMA CommitAcceptedInv == ASSUME ChatInv, NEW c \in Client, CommitAccepted(c) PROVE ChatInv'
  <1>1. TypeOK /\ Own(c)
    BY Zenon, ByClient
  <1>2. /\ pc[c] = "committing" /\ reply[c] = "ok"
        /\ pc' = [pc EXCEPT ![c] = "idle"]
        /\ reply' = [reply EXCEPT ![c] = "none"]
        /\ seen' = [seen EXCEPT ![c] = @ \cup {current[c].id}]
        /\ epoch' = [epoch EXCEPT ![c] = @ + 1]
        /\ staged' = [staged EXCEPT ![c] = FALSE]
        /\ merged' = [merged EXCEPT ![c] = @ \cup {[epoch |-> epoch[c], id |-> current[c].id]}]
        /\ store' = [store EXCEPT ![c] = [epoch |-> epoch'[c], staged |-> staged'[c], seen |-> seen'[c]]]
        /\ UNCHANGED <<relayEpoch, log, mailbox, link, requests, pushes, current, events, shown,
                       nextId, apps, commits, faults>>
    BY Zenon DEF CommitAccepted, MergePending, Persist, relayVars, boundVars
  <1>3. PICK i \in Positions : log[i] = current[c]
    BY Zenon, <1>1, <1>2 DEF Own, RepliesAreTrue
  <1>4. log[i].commit /\ log[i].epoch = epoch[c]
    BY Zenon, <1>1, <1>2, <1>3 DEF Own, RequestsAreCurrent
  <1>5. current[c].id \in Nat /\ epoch[c] \in Nat
    BY Zenon, <1>1 DEF TypeOK, Env
  <1>6. /\ pc'[c] = "idle" /\ reply'[c] = "none" /\ epoch'[c] = epoch[c] + 1
        /\ seen'[c] = seen[c] \cup {current[c].id} /\ staged'[c] = FALSE
        /\ merged'[c] = merged[c] \cup {[epoch |-> epoch[c], id |-> current[c].id]}
    BY Zenon, <1>1, <1>2 DEF TypeOK
  <1>7. store'[c] = [epoch |-> epoch'[c], staged |-> staged'[c], seen |-> seen'[c]]
    BY Zenon, <1>1, <1>2 DEF TypeOK
  <1>8. TypeOK'
    <2>1. /\ pc' \in [Client -> PC] /\ staged' \in [Client -> BOOLEAN]
          /\ reply' \in [Client -> {"none", "ok", "conflict", "rejected"}]
      BY Zenon, <1>1, <1>2 DEF TypeOK, PC
    <2>2. epoch' \in [Client -> Nat \ {0}] /\ seen' \in [Client -> SUBSET Nat]
      BY <1>1, <1>2, <1>5 DEF TypeOK
    <2>3. merged' \in [Client -> SUBSET [epoch : Nat, id : Nat]]
      BY SMTT(20), <1>1, <1>2, <1>5 DEF TypeOK
    <2>4. store' \in [Client -> [epoch : Nat \ {0}, staged : BOOLEAN, seen : SUBSET Nat]]
      BY Zenon, <1>1, <1>2, <2>1, <2>2 DEF TypeOK
    <2>5. Positions' = Positions
      BY Zenon, <1>2 DEF Positions
    <2> QED BY Zenon, <1>1, <1>2, <2>1, <2>2, <2>3, <2>4, <2>5 DEF TypeOK
  <1>9. \A d \in Client \ {c} : Same(d)
    BY Zenon, <1>1, <1>2 DEF TypeOK, Same
  <1>10. \A k \in 1 .. Len(requests'[c]) :
            requests'[c][k].op = "ack" /\ requests'[c][k].env.id \in seen'[c]
    <2>1. requests[c] \in Seq([op : {"send", "ack"}, env : Env])
      BY Zenon, <1>1 DEF TypeOK
    <2>2. \A k \in 1 .. Len(requests[c]) : requests[c][k].op \in {"send", "ack"}
      BY Zenon, <2>1, Ops
    <2>3. \A k \in 1 .. Len(requests[c]) :
             requests[c][k].op = "ack" /\ requests[c][k].env.id \in store[c].seen
      BY Zenon, <1>1, <1>2, <2>2 DEF Own, RequestsAreCurrent
    <2>4. store[c].seen \subseteq seen'[c]
      BY Zenon, <1>1, <1>6 DEF Own, StoreIsCurrent
    <2> QED BY Zenon, <1>2, <2>3, <2>4
  <1>11. link[c] = "down" => requests'[c] = <<>>
    BY Zenon, <1>1, <1>2 DEF Own, RequestsAreCurrent
  <1>12. store'[c].seen = seen'[c] /\ store'[c].epoch = epoch'[c]
    BY <1>7
  <1>13. /\ pc[c] \notin {"failed", "down"} /\ pc'[c] \in {"idle", "rebuild"}
         /\ reply'[c] = "none" /\ epoch'[c] = epoch[c] + 1
    BY Zenon, <1>2, <1>6
  <1>14. /\ seen'[c] = seen[c] \cup {log[i].id}
         /\ merged'[c] = merged[c] \cup {[epoch |-> epoch[c], id |-> log[i].id]}
    BY <1>3, <1>6
  <1>15. UNCHANGED <<relayEpoch, log, mailbox, link, current, events, shown, nextId>>
    BY Zenon, <1>2
  <1> QED BY Zenon, <1>4, <1>8, <1>9, <1>10, <1>11, <1>12, <1>13, <1>14, <1>15, MergeInv

-----------------------------------------------------------------------------
(* A push is handled *)

\* What is at a position of the log is an envelope.
LEMMA LogIsEnv == ASSUME TypeOK, NEW i \in Positions PROVE log[i] \in Env
  <1>1. log \in Seq(Env)
    BY Zenon DEF TypeOK
  <1> QED BY <1>1 DEF Positions

\* Between calls no send is on the connection and no reply waits.
LEMMA NoSend ==
    ASSUME ChatInv, NEW c \in Client, pc[c] \in {"idle", "conflicted"}
    PROVE  /\ reply[c] = "none" /\ store[c].seen = seen[c]
           /\ \A k \in 1 .. Len(requests[c]) :
                 requests[c][k].op = "ack" /\ requests[c][k].env.id \in seen[c]
  <1>1. TypeOK /\ Own(c)
    BY Zenon, ByClient
  <1>2. \A k \in 1 .. Len(requests[c]) : requests[c][k].op \in {"send", "ack"}
    <2>1. requests[c] \in Seq([op : {"send", "ack"}, env : Env])
      BY Zenon, <1>1 DEF TypeOK
    <2> QED BY Zenon, <2>1, Ops
  <1>3. store[c].seen = seen[c]
    BY Zenon, <1>1 DEF Own, StoreIsCurrent
  <1> QED BY Zenon, <1>1, <1>2, <1>3 DEF Own, RequestsAreCurrent

\* The requests of a client that acknowledges what it has stored.
LEMMA Acked ==
    ASSUME ChatInv, NEW c \in Client, pc[c] \in {"idle", "conflicted"}, NEW env \in Env,
           Call(c, "ack", env), seen[c] \subseteq seen'[c], env.id \in seen'[c]
    PROVE  /\ requests' \in [Client -> Seq([op : {"send", "ack"}, env : Env])]
           /\ \A d \in Client \ {c} : requests'[d] = requests[d]
           /\ link[c] = "down" => requests'[c] = <<>>
           /\ \A k \in 1 .. Len(requests'[c]) :
                 requests'[c][k].op = "ack" /\ requests'[c][k].env.id \in seen'[c]
  <1> DEFINE r == [op |-> "ack", env |-> env]
  <1>1. r.op = "ack" /\ r.env = env
    BY Zenon
  <1>2. /\ requests' \in [Client -> Seq([op : {"send", "ack"}, env : Env])]
        /\ \A d \in Client \ {c} : requests'[d] = requests[d]
        /\ link[c] = "down" => requests'[c] = requests[c]
        /\ \A k \in 1 .. Len(requests'[c]) :
              \/ k \in 1 .. Len(requests[c]) /\ requests'[c][k] = requests[c][k]
              \/ k = Len(requests[c]) + 1 /\ requests'[c][k] = r
    BY Zenon, Called DEF ChatInv
  <1> HIDE DEF r
  <1>3. link[c] = "down" => requests[c] = <<>>
    BY Zenon DEF ChatInv, RequestsAreCurrent
  <1>4. ASSUME NEW k \in 1 .. Len(requests'[c])
        PROVE  requests'[c][k].op = "ack" /\ requests'[c][k].env.id \in seen'[c]
    <2>1. CASE k \in 1 .. Len(requests[c]) /\ requests'[c][k] = requests[c][k]
      BY <2>1, NoSend
    <2>2. CASE requests'[c][k] = r
      BY Zenon, <1>1, <2>2
    <2> QED BY <1>2, <1>4, <2>1, <2>2
  <1> QED BY Zenon, <1>2, <1>3, <1>4

\* An envelope seen before is acknowledged only.
LEMMA PumpSeenInv ==
    ASSUME ChatInv, NEW c \in Client, NEW i \in pushes[c], pc[c] \in {"idle", "conflicted"},
           pushes' = [pushes EXCEPT ![c] = @ \ {i}],
           log[i].id \in seen[c], Call(c, "ack", log[i]),
           UNCHANGED <<relayEpoch, log, mailbox, current, epoch, staged, merged, seen, events, store, shown, nextId>>,
           UNCHANGED <<link, reply, pc, apps, commits, faults>>
    PROVE  ChatInv'
  <1>1. TypeOK /\ Own(c)
    BY Zenon, ByClient
  <1>2. pushes \in [Client -> SUBSET Positions] /\ i \in Positions
    BY Zenon, <1>1 DEF TypeOK
  <1>3. log[i] \in Env
    BY Zenon, <1>1, <1>2, LogIsEnv
  <1>4. /\ requests' \in [Client -> Seq([op : {"send", "ack"}, env : Env])]
        /\ \A d \in Client \ {c} : requests'[d] = requests[d]
        /\ link[c] = "down" => requests'[c] = <<>>
        /\ \A k \in 1 .. Len(requests'[c]) :
              requests'[c][k].op = "ack" /\ requests'[c][k].env.id \in seen[c]
    BY Zenon, <1>3, Acked
  <1>5. TypeOK'
    <2>1. pushes' \in [Client -> SUBSET Positions]
      BY Zenon, <1>2
    <2>2. Positions' = Positions
      BY Zenon DEF Positions
    <2> QED BY Zenon, <1>1, <1>4, <2>1, <2>2 DEF TypeOK
  <1>6. RequestsAreCurrent(c)'
    <2>1. reply[c] = "none" /\ store[c].seen = seen[c]
      BY Zenon, NoSend
    <2> QED BY Zenon, <1>4, <2>1 DEF RequestsAreCurrent
  <1>7. RepliesAreTrue(c)'
    BY Zenon, <1>1 DEF Own, RepliesAreTrue, Positions
  <1> QED BY Zenon, <1>4, <1>5, <1>6, <1>7, QuietStep

\* An envelope the session cannot process ends the caller's loop; the store does not know it.
LEMMA PumpFailsInv ==
    ASSUME ChatInv, NEW c \in Client, NEW i \in pushes[c], pc[c] \in {"idle", "conflicted"},
           pushes' = [pushes EXCEPT ![c] = @ \ {i}],
           seen' = [seen EXCEPT ![c] = @ \cup {log[i].id}],
           pc' = [pc EXCEPT ![c] = "failed"],
           UNCHANGED <<relayEpoch, log, mailbox, current, epoch, staged, merged, events, store, shown, nextId>>,
           UNCHANGED <<link, requests, reply, apps, commits, faults>>
    PROVE  ChatInv'
  <1>1. TypeOK /\ Own(c)
    BY Zenon, ByClient
  <1>2. pushes \in [Client -> SUBSET Positions] /\ i \in Positions
    BY Zenon, <1>1 DEF TypeOK
  <1>3. log[i].id \in Nat
    <2>1. log[i] \in Env
      BY Zenon, <1>1, <1>2, LogIsEnv
    <2> QED BY Zenon, <2>1 DEF Env
  <1>4. pc'[c] = "failed" /\ seen'[c] = seen[c] \cup {log[i].id}
    BY Zenon, <1>1 DEF TypeOK
  <1>5. TypeOK'
    <2>1. pushes' \in [Client -> SUBSET Positions]
      BY Zenon, <1>2
    <2>2. Positions' = Positions
      BY Zenon DEF Positions
    <2>3. seen' \in [Client -> SUBSET Nat] /\ pc' \in [Client -> PC]
      BY Zenon, <1>1, <1>3 DEF TypeOK, PC
    <2> QED BY Zenon, <1>1, <2>1, <2>2, <2>3 DEF TypeOK
  <1>6. \A d \in Client \ {c} : Same(d)
    BY Zenon, <1>1 DEF TypeOK, Same
  <1>7. RequestsAreCurrent(c)'
    <2>1. /\ reply[c] = "none" /\ store[c].seen = seen[c]
          /\ \A k \in 1 .. Len(requests[c]) :
                 requests[c][k].op = "ack" /\ requests[c][k].env.id \in seen[c]
      BY Zenon, NoSend
    <2>2. link[c] = "down" => requests[c] = <<>>
      BY Zenon, <1>1 DEF Own, RequestsAreCurrent
    <2> QED BY <1>4, <2>1, <2>2 DEF RequestsAreCurrent
  <1>8. RepliesAreTrue(c)'
    <2>1. reply[c] = "none" /\ epoch[c] <= relayEpoch
      BY Zenon, <1>1, NoSend DEF Own, RepliesAreTrue
    <2> QED BY Zenon, <1>4, <2>1 DEF RepliesAreTrue
  <1>9. StoreIsCurrent(c)'
    BY Zenon, <1>1, <1>4 DEF Own, StoreIsCurrent, Positions
  <1>10. Agrees(c)' /\ Once(c)' /\ Persisted(c)'
    BY Zenon, SessionSame
  <1>11. Own(c)'
    BY Zenon, <1>7, <1>8, <1>9, <1>10 DEF Own
  <1>12. \A x \in seen'[c] : x \in seen[c] \/ \E k \in Positions : log[k].id = x
    BY <1>2, <1>4
  <1> QED BY Zenon, <1>5, <1>6, <1>11, <1>12, LocalStep

\* A message is applied, stored and acknowledged.
LEMMA PumpMessageInv ==
    ASSUME ChatInv, NEW c \in Client, NEW i \in pushes[c], pc[c] \in {"idle", "conflicted"},
           pushes' = [pushes EXCEPT ![c] = @ \ {i}],
           log[i].id \notin seen[c], ~log[i].commit,
           seen' = [seen EXCEPT ![c] = @ \cup {log[i].id}],
           events' = [events EXCEPT ![c] = Append(@, log[i].id)],
           Persist(c), Call(c, "ack", log[i]), pc' = pc,
           UNCHANGED <<relayEpoch, log, mailbox, current, epoch, staged, merged, shown, nextId>>,
           UNCHANGED <<link, reply, apps, commits, faults>>
    PROVE  ChatInv'
  <1>1. TypeOK /\ Own(c)
    BY Zenon, ByClient
  <1>2. pushes \in [Client -> SUBSET Positions] /\ i \in Positions
    BY Zenon, <1>1 DEF TypeOK
  <1>3. log[i] \in Env
    BY Zenon, <1>1, <1>2, LogIsEnv
  <1>4. log[i].id \in Nat
    BY Zenon, <1>3 DEF Env
  <1>5. /\ seen'[c] = seen[c] \cup {log[i].id} /\ events'[c] = Append(events[c], log[i].id)
        /\ store'[c] = [epoch |-> epoch[c], staged |-> staged[c], seen |-> seen'[c]]
    BY Zenon, <1>1 DEF TypeOK, Persist
  <1>6. store'[c].epoch = epoch[c] /\ store'[c].seen = seen'[c]
    BY <1>5
  <1>7. /\ requests' \in [Client -> Seq([op : {"send", "ack"}, env : Env])]
        /\ \A d \in Client \ {c} : requests'[d] = requests[d]
        /\ link[c] = "down" => requests'[c] = <<>>
        /\ \A k \in 1 .. Len(requests'[c]) :
              requests'[c][k].op = "ack" /\ requests'[c][k].env.id \in seen'[c]
    BY Zenon, <1>3, <1>5, Acked
  <1>8. reply[c] = "none" /\ store[c].seen = seen[c]
    BY Zenon, NoSend
  <1>9. shown[c] \in Seq(Nat) /\ events[c] \in Seq(Nat)
    BY Zenon, <1>1 DEF TypeOK
  <1>10. /\ Append(events[c], log[i].id) \in Seq(Nat)
         /\ Len(events'[c]) = Len(events[c]) + 1 /\ Len(events[c]) \in Nat
         /\ events'[c][Len(events[c]) + 1] = log[i].id
         /\ \A k \in 1 .. Len(events[c]) : events'[c][k] = events[c][k]
    BY <1>4, <1>5, <1>9, Appended
  <1>11. /\ \A k \in 1 .. Len(shown[c]) : shown[c][k] \in seen[c]
         /\ \A k \in 1 .. Len(events[c]) : events[c][k] \in seen[c]
    BY Zenon, <1>1, <1>8 DEF Own, StoreIsCurrent
  <1>12. TypeOK'
    <2>1. pushes' \in [Client -> SUBSET Positions]
      BY Zenon, <1>2
    <2>2. Positions' = Positions
      BY Zenon DEF Positions
    <2>3. seen' \in [Client -> SUBSET Nat]
      BY Zenon, <1>1, <1>4 DEF TypeOK
    <2>4. store' \in [Client -> [epoch : Nat \ {0}, staged : BOOLEAN, seen : SUBSET Nat]]
      BY Zenon, <1>1, <2>3 DEF TypeOK, Persist
    <2>5. events' \in [Client -> Seq(Nat)]
      BY Zenon, <1>1, <1>10 DEF TypeOK
    <2> QED BY Zenon, <1>1, <1>7, <2>1, <2>2, <2>3, <2>4, <2>5 DEF TypeOK
  <1>13. \A d \in Client \ {c} : Same(d)
    BY Zenon, <1>1, <1>7 DEF TypeOK, Same, Persist
  <1>14. RequestsAreCurrent(c)'
    BY Zenon, <1>6, <1>7, <1>8 DEF RequestsAreCurrent
  <1>15. RepliesAreTrue(c)'
    BY Zenon, <1>1 DEF Own, RepliesAreTrue, Positions
  <1>16. StoreIsCurrent(c)'
    <2>1. ASSUME NEW j \in Positions, log[j].commit, log[j].id \in seen'[c]
          PROVE  log[j].epoch < epoch[c]
      <3>1. log[j].id # log[i].id
        <4>1. log[j].id = log[i].id => log[j] = log[i]
          BY Zenon, <1>2 DEF ChatInv, IdsName
        <4> QED BY Zenon, <2>1, <4>1
      <3> QED BY Zenon, <1>1, <1>5, <1>8, <2>1, <3>1 DEF Own, StoreIsCurrent
    <2>2. \A k \in 1 .. Len(events'[c]) : events'[c][k] \in seen'[c]
      <3>1. ASSUME NEW k \in 1 .. Len(events'[c]) PROVE events'[c][k] \in seen'[c]
        <4>1. k = Len(events[c]) + 1 \/ k \in 1 .. Len(events[c])
          BY <1>10, <3>1
        <4> QED BY Zenon, <1>5, <1>10, <1>11, <4>1
      <3> QED BY Zenon, <3>1
    <2> QED BY Zenon, <1>5, <1>6, <1>11, <2>1, <2>2 DEF StoreIsCurrent, Positions
  <1>17. Once(c)'
    <2>1. /\ \A k \in 1 .. Len(shown[c]) : shown[c][k] # log[i].id
          /\ \A k \in 1 .. Len(events[c]) : events[c][k] # log[i].id
      BY Zenon, <1>11
    <2>2. \A k, j \in 1 .. Len(shown[c] \o events[c]) :
             (shown[c] \o events[c])[k] = (shown[c] \o events[c])[j] => k = j
      BY Zenon, <1>1 DEF Own, Once
    <2> DEFINE s == shown[c]
               t == events[c]
               x == log[i].id
    <2>3. /\ s \in Seq(Nat) /\ t \in Seq(Nat) /\ x \in Nat
          /\ \A k \in 1 .. Len(s) : s[k] # x
          /\ \A k \in 1 .. Len(t) : t[k] # x
          /\ \A k, j \in 1 .. Len(s \o t) : (s \o t)[k] = (s \o t)[j] => k = j
      BY Zenon, <1>4, <1>9, <2>1, <2>2
    <2>4. shown'[c] \o events'[c] = s \o Append(t, x)
      BY Zenon, <1>5
    <2> HIDE DEF s, t, x
    <2>5. \A k, j \in 1 .. Len(s \o Append(t, x)) :
             (s \o Append(t, x))[k] = (s \o Append(t, x))[j] => k = j
      BY Zenon, <2>3, StillOnce
    <2> QED BY <2>4, <2>5, Zenon DEF Once
  <1>18. Agrees(c)' /\ Persisted(c)'
    <2>1. \A e : Winners(e)' = Winners(e)
      BY Zenon DEF Winners, Positions
    <2>2. store[c].seen \subseteq store'[c].seen
      BY Zenon, <1>5, <1>6, <1>8
    <2> QED BY Zenon, <1>1, <2>1, <2>2 DEF Own, Agrees, Persisted, Positions
  <1>19. Own(c)'
    BY Zenon, <1>14, <1>15, <1>16, <1>17, <1>18 DEF Own
  <1>20. \A x \in seen'[c] : x \in seen[c] \/ \E k \in Positions : log[k].id = x
    BY Zenon, <1>2, <1>5
  <1> QED BY Zenon, <1>12, <1>13, <1>19, <1>20, LocalStep

\* Another's commit is merged, stored and acknowledged.
LEMMA PumpCommitInv ==
    ASSUME ChatInv, NEW c \in Client, NEW i \in pushes[c], pc[c] \in {"idle", "conflicted"},
           pushes' = [pushes EXCEPT ![c] = @ \ {i}],
           log[i].commit, log[i].epoch = epoch[c],
           seen' = [seen EXCEPT ![c] = @ \cup {log[i].id}],
           epoch' = [epoch EXCEPT ![c] = @ + 1],
           staged' = [staged EXCEPT ![c] = FALSE],
           merged' = [merged EXCEPT ![c] = @ \cup {[epoch |-> log[i].epoch, id |-> log[i].id]}],
           Persist(c), Call(c, "ack", log[i]), AfterPump(c),
           UNCHANGED <<relayEpoch, log, mailbox, current, events, shown, nextId>>,
           UNCHANGED <<link, reply, apps, commits, faults>>
    PROVE  ChatInv'
  <1>1. TypeOK /\ Own(c)
    BY Zenon, ByClient
  <1>2. pushes \in [Client -> SUBSET Positions] /\ i \in Positions
    BY Zenon, <1>1 DEF TypeOK
  <1>3. log[i] \in Env
    BY Zenon, <1>1, <1>2, LogIsEnv
  <1>4. log[i].id \in Nat /\ epoch[c] \in Nat \ {0}
    BY Zenon, <1>1, <1>3 DEF Env, TypeOK
  <1>5. /\ seen'[c] = seen[c] \cup {log[i].id} /\ epoch'[c] = epoch[c] + 1 /\ staged'[c] = FALSE
        /\ merged'[c] = merged[c] \cup {[epoch |-> epoch[c], id |-> log[i].id]}
        /\ store'[c] = [epoch |-> epoch'[c], staged |-> staged'[c], seen |-> seen'[c]]
    BY Zenon, <1>1 DEF TypeOK, Persist
  <1>6. store'[c].epoch = epoch'[c] /\ store'[c].seen = seen'[c]
    BY <1>5
  <1>7. /\ requests' \in [Client -> Seq([op : {"send", "ack"}, env : Env])]
        /\ \A d \in Client \ {c} : requests'[d] = requests[d]
        /\ link[c] = "down" => requests'[c] = <<>>
        /\ \A k \in 1 .. Len(requests'[c]) :
              requests'[c][k].op = "ack" /\ requests'[c][k].env.id \in seen'[c]
    BY Zenon, <1>3, <1>5, Acked
  <1>8. reply'[c] = "none"
    BY Zenon, NoSend
  <1>9. pc' \in [Client -> PC] /\ pc'[c] \in {"idle", "rebuild"} /\ \A d \in Client \ {c} : pc'[d] = pc[d]
    <2>1. epoch'[c] # epoch[c]
      BY <1>4, <1>5
    <2> QED BY Zenon, <1>1, <2>1 DEF TypeOK, AfterPump, PC
  <1>10. TypeOK'
    <2>1. pushes' \in [Client -> SUBSET Positions]
      BY Zenon, <1>2
    <2>2. Positions' = Positions
      BY Zenon DEF Positions
    <2>7. /\ seen \in [Client -> SUBSET Nat] /\ epoch \in [Client -> Nat \ {0}]
          /\ merged \in [Client -> SUBSET [epoch : Nat, id : Nat]]
      BY Zenon, <1>1 DEF TypeOK
    <2>3. seen' \in [Client -> SUBSET Nat] /\ epoch' \in [Client -> Nat \ {0}]
      BY SMTT(20), <1>4, <2>7
    <2>4. staged' \in [Client -> BOOLEAN]
      BY Zenon, <1>1 DEF TypeOK
    <2>5. store' \in [Client -> [epoch : Nat \ {0}, staged : BOOLEAN, seen : SUBSET Nat]]
      BY Zenon, <1>1, <2>3, <2>4 DEF TypeOK, Persist
    <2>6. merged' \in [Client -> SUBSET [epoch : Nat, id : Nat]]
      BY <1>4, <2>7
    <2> QED BY Zenon, <1>1, <1>7, <1>9, <2>1, <2>2, <2>3, <2>4, <2>5, <2>6 DEF TypeOK
  <1>11. \A d \in Client \ {c} : Same(d)
    BY Zenon, <1>1, <1>7, <1>9 DEF TypeOK, Same, Persist
  <1>12. pc[c] \notin {"failed", "down"}
    BY Zenon
  <1> QED BY Zenon, <1>2, <1>5, <1>6, <1>7, <1>8, <1>9, <1>10, <1>11, <1>12, MergeInv

\* A push is handled.
LEMMA PumpInv == ASSUME ChatInv, NEW c \in Client, Pump(c) PROVE ChatInv'
  <1>1. PICK i \in pushes[c] :
            /\ pc[c] \in {"idle", "conflicted"}
            /\ pushes' = [pushes EXCEPT ![c] = @ \ {i}]
            /\ \/ /\ log[i].id \in seen[c]
                  /\ Call(c, "ack", log[i])
                  /\ UNCHANGED <<pc, seen, sessionVars, events, store>>
               \/ /\ log[i].id \notin seen[c]
                  /\ CanProcess(c, log[i])
                  /\ seen' = [seen EXCEPT ![c] = @ \cup {log[i].id}]
                  /\ Apply(c, log[i])
                  /\ Persist(c)
                  /\ Call(c, "ack", log[i])
                  /\ AfterPump(c)
               \/ /\ log[i].id \notin seen[c]
                  /\ seen' = [seen EXCEPT ![c] = @ \cup {log[i].id}]
                  /\ pc' = [pc EXCEPT ![c] = "failed"]
                  /\ UNCHANGED <<requests, sessionVars, events, store>>
            /\ UNCHANGED <<relayVars, link, reply, current, shown, boundVars>>
    BY Zenon, Pumps DEF Pump
  <1>2. /\ UNCHANGED <<relayEpoch, log, mailbox, current, shown, nextId>>
        /\ UNCHANGED <<link, reply, apps, commits, faults>>
    BY Zenon, <1>1 DEF relayVars, boundVars
  <1>3. CASE log[i].id \in seen[c] /\ Call(c, "ack", log[i])
             /\ UNCHANGED <<pc, seen, sessionVars, events, store>>
    <2>1. UNCHANGED <<pc, seen, epoch, staged, merged, events, store>>
      BY Zenon, <1>3 DEF sessionVars
    <2> QED BY Zenon, <1>1, <1>2, <1>3, <2>1, PumpSeenInv
  <1>4. CASE /\ log[i].id \notin seen[c] /\ CanProcess(c, log[i])
             /\ seen' = [seen EXCEPT ![c] = @ \cup {log[i].id}]
             /\ Apply(c, log[i]) /\ Persist(c) /\ Call(c, "ack", log[i]) /\ AfterPump(c)
    <2>1. CASE log[i].commit
      <3>1. /\ epoch' = [epoch EXCEPT ![c] = @ + 1] /\ staged' = [staged EXCEPT ![c] = FALSE]
            /\ merged' = [merged EXCEPT ![c] = @ \cup {[epoch |-> log[i].epoch, id |-> log[i].id]}]
            /\ UNCHANGED events /\ log[i].epoch = epoch[c]
        BY Zenon, <1>4, <2>1 DEF Apply, CanProcess
      <3> QED BY Zenon, <1>1, <1>2, <1>4, <2>1, <3>1, PumpCommitInv
    <2>2. CASE ~log[i].commit
      <3>1. /\ events' = [events EXCEPT ![c] = Append(@, log[i].id)]
            /\ UNCHANGED <<epoch, staged, merged>>
        BY Zenon, <1>4, <2>2 DEF Apply, sessionVars
      <3>2. pc' = pc
        <4>1. pc \in [Client -> PC]
          BY Zenon DEF ChatInv, TypeOK
        <4>2. pc' = [pc EXCEPT ![c] = pc[c]]
          BY Zenon, <1>4, <3>1 DEF AfterPump
        <4> QED BY Zenon, <4>1, <4>2
      <3> QED BY Zenon, <1>1, <1>2, <1>4, <2>2, <3>1, <3>2, PumpMessageInv
    <2> QED BY Zenon, <2>1, <2>2
  <1>5. CASE /\ seen' = [seen EXCEPT ![c] = @ \cup {log[i].id}]
             /\ pc' = [pc EXCEPT ![c] = "failed"]
             /\ UNCHANGED <<requests, sessionVars, events, store>>
    <2>1. UNCHANGED <<requests, epoch, staged, merged, events, store>>
      BY Zenon, <1>5 DEF sessionVars
    <2> QED BY Zenon, <1>1, <1>2, <1>5, <2>1, PumpFailsInv
  <1> QED BY Zenon, <1>1, <1>3, <1>4, <1>5

-----------------------------------------------------------------------------
(* The relay accepts an envelope *)

\* The log after an envelope was accepted.
LEMMA Logged ==
    ASSUME TypeOK, NEW env \in Env, log' = Append(log, env)
    PROVE  /\ log' \in Seq(Env)
           /\ Len(log) + 1 \notin Positions
           /\ Positions' = Positions \cup {Len(log) + 1}
           /\ log'[Len(log) + 1] = env
           /\ \A i \in Positions : log'[i] = log[i]
  <1>1. log \in Seq(Env) /\ Len(log) \in Nat
    BY DEF TypeOK
  <1>2. /\ Append(log, env) \in Seq(Env) /\ Len(Append(log, env)) = Len(log) + 1
        /\ Append(log, env)[Len(log) + 1] = env
        /\ \A i \in 1 .. Len(log) : Append(log, env)[i] = log[i]
    BY SMTT(20), <1>1, Appended
  <1>3. Len(log') = Len(log) + 1 /\ 1 .. Len(log) + 1 = (1 .. Len(log)) \cup {Len(log) + 1}
        /\ Len(log) + 1 \notin 1 .. Len(log)
    BY <1>1, <1>2
  <1> QED BY <1>2, <1>3 DEF Positions

\* A client whose requests and state stay as they are keeps what is said of its requests.
LEMMA RequestsSame ==
    ASSUME NEW d \in Client, RequestsAreCurrent(d), requests'[d] = requests[d], reply'[d] = reply[d],
           UNCHANGED <<link, pc, current, epoch, store>>
    PROVE  RequestsAreCurrent(d)'
  BY Zenon DEF RequestsAreCurrent

\* An envelope is accepted: one more for everybody, and if it is a commit the
\* only one of the epoch the relay then leaves.
LEMMA AcceptInv ==
    ASSUME ChatInv, NEW c \in Client, link[c] = "up", requests[c] # <<>>,
           requests' = [requests EXCEPT ![c] = Tail(@)], Head(requests[c]).op = "send",
           Accepts(Head(requests[c]).env), FanOut(Head(requests[c]).env),
           relayEpoch' = IF Head(requests[c]).env.commit THEN relayEpoch + 1 ELSE relayEpoch,
           reply' = [reply EXCEPT ![c] = "ok"],
           UNCHANGED <<link, pc, current, epoch, staged, merged, seen, events, store, shown>>,
           UNCHANGED <<nextId, apps, commits, faults>>
    PROVE  ChatInv'
  <1> DEFINE n == Len(log) + 1
             w == current[c]
  <1>1. /\ TypeOK /\ OneWinnerPerEpoch /\ IdsName
        /\ \A d \in Client : CurrentIsNamed(d) /\ Own(d)
    BY Zenon, ByClient
  <1>2. /\ Head(requests[c]).env = w /\ pc[c] \in {"sending", "committing"} /\ reply[c] = "none"
        /\ \A i \in 1 .. Len(requests'[c]) :
              requests'[c][i].op = "ack" /\ requests'[c][i].env.id \in store[c].seen
    BY Zenon, SendHandled
  <1>3. /\ requests' \in [Client -> Seq([op : {"send", "ack"}, env : Env])]
        /\ \A d \in Client \ {c} : requests'[d] = requests[d]
    BY Zenon, Handled
  <1>4. /\ w \in Env /\ w.id \in Nat /\ w.epoch \in Nat /\ w.commit \in BOOLEAN
        /\ relayEpoch \in Nat \ {0} /\ nextId \in Nat
    <2>1. w \in Env
      BY Zenon, <1>1 DEF TypeOK
    <2> QED BY Zenon, <1>1, <2>1 DEF TypeOK, Env
  <1>5. w.id # 0 /\ w.id < nextId
    BY Zenon, <1>1, <1>2 DEF Own, RequestsAreCurrent, CurrentIsNamed
  <1>6. w.commit => w.epoch = relayEpoch
    BY Zenon, <1>2 DEF Accepts
  <1>7. relayEpoch' = IF w.commit THEN relayEpoch + 1 ELSE relayEpoch
    BY Zenon, <1>2
  <1>8. /\ log' = Append(log, w) /\ mailbox' = Placed(mailbox, Client)
        /\ pushes' = Placed(pushes, Online)
    BY Zenon, <1>2 DEF FanOut
  <1>9. /\ log' \in Seq(Env) /\ n \notin Positions /\ Positions' = Positions \cup {n}
        /\ log'[n] = w /\ \A i \in Positions : log'[i] = log[i]
    BY Zenon, <1>1, <1>4, <1>8, Logged
  <1>10. \A d \in Client : mailbox'[d] = mailbox[d] \cup {n}
    BY Zenon, <1>8 DEF Placed
  <1>11. /\ mailbox' \in [Client -> SUBSET Positions'] /\ pushes' \in [Client -> SUBSET Positions']
    BY Zenon, <1>1, <1>8, <1>9 DEF TypeOK, Placed
  <1>12. \A i \in Positions : log[i].id = w.id => log[i] = w
    BY Zenon, <1>1 DEF CurrentIsNamed
  <1>13. \A d \in Client : w.id = current[d].id => d = c
    BY Zenon, <1>1, <1>5 DEF CurrentIsNamed
  <1>14. /\ relayEpoch' \in Nat \ {0} /\ relayEpoch <= relayEpoch'
         /\ \A d \in Client : epoch[d] \in Nat
    BY <1>1, <1>4, <1>7 DEF TypeOK
  <1>15. TypeOK'
    <2>1. reply' \in [Client -> {"none", "ok", "conflict", "rejected"}]
      BY Zenon, <1>1 DEF TypeOK
    <2> QED BY Zenon, <1>1, <1>3, <1>9, <1>11, <1>14, <2>1 DEF TypeOK
  <1>16. reply'[c] = "ok" /\ \A d \in Client \ {c} : reply'[d] = reply[d]
    BY Zenon, <1>1 DEF TypeOK
  <1> HIDE DEF n, w
  <1>17. OneWinnerPerEpoch'
    <2>1. ASSUME NEW i \in Positions, log[i].commit PROVE log[i].epoch \in 1 .. relayEpoch - 1
      BY Zenon, <1>1, <2>1 DEF OneWinnerPerEpoch
    <2>2. ASSUME NEW i \in Positions', log'[i].commit PROVE log'[i].epoch \in 1 .. relayEpoch' - 1
      <3>1. CASE i \in Positions
        <4>1. log[i].epoch \in 1 .. relayEpoch - 1 /\ log'[i] = log[i]
          BY Zenon, <1>9, <2>1, <2>2, <3>1
        <4> QED BY <1>4, <1>14, <4>1
      <3>2. CASE i = n
        BY <1>4, <1>6, <1>7, <1>9, <2>2, <3>2
      <3> QED BY Zenon, <1>9, <3>1, <3>2
    <2>3. ASSUME NEW e \in 1 .. relayEpoch' - 1
          PROVE  \E i \in Positions' : log'[i].commit /\ log'[i].epoch = e
      <3>1. CASE e \in 1 .. relayEpoch - 1
        <4>1. PICK i \in Positions : log[i].commit /\ log[i].epoch = e
          BY Zenon, <1>1, <3>1 DEF OneWinnerPerEpoch
        <4> QED BY Zenon, <1>9, <4>1
      <3>2. CASE w.commit /\ e = relayEpoch
        BY Zenon, <1>6, <1>9, <3>2
      <3> QED BY <1>4, <1>7, <2>3, <3>1, <3>2
    <2>4. ASSUME NEW i \in Positions', NEW j \in Positions', log'[i].commit, log'[j].commit,
                 log'[i].epoch = log'[j].epoch
          PROVE  i = j
      <3>1. \A k \in Positions : log'[k].commit /\ w.commit => log'[k].epoch # w.epoch
        BY <1>4, <1>6, <1>9, <2>1
      <3>2. CASE i \in Positions /\ j \in Positions
        BY Zenon, <1>1, <1>9, <2>4, <3>2 DEF OneWinnerPerEpoch
      <3> QED BY Zenon, <1>9, <2>4, <3>1, <3>2
    <2> QED BY Zenon, <2>2, <2>3, <2>4 DEF OneWinnerPerEpoch
  <1>18. IdsName'
    <2>1. ASSUME NEW i \in Positions' PROVE log'[i].id \in 1 .. nextId - 1
      BY <1>1, <1>4, <1>5, <1>9, <2>1 DEF IdsName
    <2>2. ASSUME NEW i \in Positions', NEW j \in Positions', log'[i].id = log'[j].id
          PROVE  log'[i] = log'[j]
      BY Zenon, <1>1, <1>9, <1>12, <2>2 DEF IdsName
    <2> QED BY Zenon, <2>1, <2>2 DEF IdsName
  <1>19. ASSUME NEW d \in Client PROVE CurrentIsNamed(d)'
    <2>1. CurrentIsNamed(d)
      BY <1>1
    <2>2. ASSUME NEW i \in Positions', log'[i].id = current[d].id PROVE log'[i] = current[d]
      <3>1. CASE i \in Positions
        BY Zenon, <1>9, <2>1, <2>2, <3>1 DEF CurrentIsNamed
      <3>2. CASE i = n
        BY Zenon, <1>9, <1>13, <2>2, <3>2 DEF w
      <3> QED BY Zenon, <1>9, <3>1, <3>2
    <2>3. ASSUME NEW e \in Client, current[d].commit, current[d].id \in seen[e]
          PROVE  \E i \in Positions' : log'[i].id = current[d].id
      <3>1. PICK i \in Positions : log[i].id = current[d].id
        BY Zenon, <2>1, <2>3 DEF CurrentIsNamed
      <3> QED BY Zenon, <1>9, <3>1
    <2> QED BY Zenon, <2>1, <2>2, <2>3 DEF CurrentIsNamed
  <1>20. ASSUME NEW d \in Client PROVE Own(d)'
    <2>1. Own(d)
      BY Zenon, <1>1
    <2>2. RequestsAreCurrent(d)'
      <3>1. CASE d = c
        <4>1. /\ pc[c] \in {"sending", "committing"} => current[c].id # 0
              /\ pc[c] = "sending" => ~current[c].commit
              /\ pc[c] = "committing" => current[c].commit /\ current[c].epoch = epoch[c]
          BY Zenon, <1>1 DEF Own, RequestsAreCurrent
        <4> QED BY Zenon, <1>2, <3>1, <4>1 DEF RequestsAreCurrent
      <3>2. CASE d # c
        <4>1. requests'[d] = requests[d] /\ reply'[d] = reply[d]
          BY Zenon, <1>3, <1>16, <3>2
        <4>2. RequestsAreCurrent(d) /\ UNCHANGED <<link, pc, current, epoch, store>>
          BY Zenon, <2>1 DEF Own
        <4> QED BY Zenon, <4>1, <4>2, RequestsSame
      <3> QED BY Zenon, <3>1, <3>2
    <2>3. RepliesAreTrue(d)'
      <3>1. epoch[d] <= relayEpoch' /\ (epoch[d] < relayEpoch => epoch[d] < relayEpoch')
        <4>1. epoch[d] <= relayEpoch
          BY Zenon, <2>1 DEF Own, RepliesAreTrue
        <4> QED BY <1>4, <1>14, <4>1
      <3>2. CASE d = c
        <4>1. \E i \in Positions' : log'[i] = current[c]
          BY Zenon, <1>9 DEF w
        <4> QED BY Zenon, <1>2, <1>16, <3>1, <3>2, <4>1 DEF RepliesAreTrue
      <3>3. CASE d # c
        <4>1. reply'[d] = reply[d]
          BY Zenon, <1>16, <3>3
        <4>2. reply[d] = "ok" => \E i \in Positions' : log'[i] = current[d]
          BY Zenon, <1>9, <2>1 DEF Own, RepliesAreTrue
        <4>3. /\ reply[d] = "conflict" => pc[d] = "committing"
              /\ reply[d] = "conflict" \/ pc[d] = "conflicted" => epoch[d] < relayEpoch
          BY Zenon, <2>1 DEF Own, RepliesAreTrue
        <4> QED BY Zenon, <3>1, <4>1, <4>2, <4>3 DEF RepliesAreTrue
      <3> QED BY Zenon, <3>2, <3>3
    <2>4. StoreIsCurrent(d)'
      <3>1. ASSUME NEW i \in Positions', log'[i].commit, log'[i].id \in store[d].seen
            PROVE  log'[i].epoch < epoch[d]
        <4>1. CASE i \in Positions
          BY Zenon, <1>9, <2>1, <3>1, <4>1 DEF Own, StoreIsCurrent
        <4>2. CASE i = n
          <5>1. w.commit /\ w.id \in seen[d]
            BY Zenon, <1>9, <2>1, <3>1, <4>2 DEF Own, StoreIsCurrent
          <5>2. PICK k \in Positions : log[k].id = w.id
            BY Zenon, <1>1, <5>1 DEF CurrentIsNamed, w
          <5>3. log[k] = w
            BY Zenon, <1>12, <5>2
          <5>4. w.epoch \in 1 .. relayEpoch - 1
            BY Zenon, <1>1, <5>1, <5>3 DEF OneWinnerPerEpoch
          <5>5. FALSE
            <6>1. w.epoch = relayEpoch
              BY Zenon, <1>6, <5>1
            <6>2. relayEpoch \in Nat
              BY Zenon, <1>4
            <6> QED BY <5>4, <6>1, <6>2
          <5> QED BY Zenon, <5>5
        <4> QED BY Zenon, <1>9, <4>1, <4>2
      <3> QED BY Zenon, <2>1, <3>1 DEF Own, StoreIsCurrent
    <2>5. Agrees(d)'
      <3>1. ASSUME NEW m \in merged[d] PROVE Winners(m.epoch)' = {m.id}
        <4>1. Winners(m.epoch) = {m.id}
          BY Zenon, <2>1 DEF Own, Agrees
        <4>2. PICK k \in Positions : log[k].commit /\ log[k].epoch = m.epoch
          BY Zenon, <4>1 DEF Winners
        <4>3. m.epoch \in 1 .. relayEpoch - 1
          BY Zenon, <1>1, <4>2 DEF OneWinnerPerEpoch
        <4>4. ~(w.commit /\ w.epoch = m.epoch)
          BY <1>4, <1>6, <4>3
        <4>5. Winners(m.epoch)' = Winners(m.epoch)
          BY SMTT(20), <1>9, <4>4 DEF Winners
        <4> QED BY <4>1, <4>5
      <3> QED BY Zenon, <2>1, <3>1 DEF Own, Agrees
    <2>6. Once(d)' /\ Persisted(d)'
      BY Zenon, <1>9, <1>10, <2>1 DEF Own, Once, Persisted
    <2> QED BY Zenon, <2>2, <2>3, <2>4, <2>5, <2>6 DEF Own
  <1> QED BY Zenon, <1>15, <1>17, <1>18, <1>19, <1>20
          DEF ChatInv, Own, Agrees, Once, Persisted, GroupAgreement, AppliedOnce, AckedIsPersisted

\* The relay handles the oldest request of a client.
LEMMA RelayHandlesInv == ASSUME ChatInv, NEW c \in Client, RelayHandles(c) PROVE ChatInv'
  <1> DEFINE r == Head(requests[c])
  <1>1. /\ link[c] = "up" /\ requests[c] # <<>>
        /\ requests' = [requests EXCEPT ![c] = Tail(@)]
        /\ UNCHANGED <<link, pc, current, epoch, staged, merged, seen, events, store, shown>>
        /\ UNCHANGED <<nextId, apps, commits, faults>>
    BY Zenon DEF RelayHandles, sessionVars, boundVars
  <1>2. \/ /\ r.op = "ack"
           /\ mailbox' = [mailbox EXCEPT ![c] = {i \in @ : log[i].id # r.env.id}]
           /\ UNCHANGED <<relayEpoch, log, reply, pushes>>
        \/ /\ r.op = "send" /\ Accepts(r.env) /\ FanOut(r.env)
           /\ relayEpoch' = IF r.env.commit THEN relayEpoch + 1 ELSE relayEpoch
           /\ reply' = [reply EXCEPT ![c] = "ok"]
        \/ /\ r.op = "send" /\ ~Accepts(r.env)
           /\ reply' = [reply EXCEPT ![c] = "conflict"]
           /\ UNCHANGED <<relayEpoch, log, mailbox, pushes>>
    BY Zenon DEF RelayHandles, relayVars
  <1>3. CASE /\ r.op = "ack"
             /\ mailbox' = [mailbox EXCEPT ![c] = {i \in @ : log[i].id # r.env.id}]
             /\ UNCHANGED <<relayEpoch, log, reply, pushes>>
    BY Zenon, <1>1, <1>3, AckInv
  <1>4. CASE /\ r.op = "send" /\ Accepts(r.env) /\ FanOut(r.env)
             /\ relayEpoch' = IF r.env.commit THEN relayEpoch + 1 ELSE relayEpoch
             /\ reply' = [reply EXCEPT ![c] = "ok"]
    BY Zenon, <1>1, <1>4, AcceptInv
  <1>5. CASE /\ r.op = "send" /\ ~Accepts(r.env)
             /\ reply' = [reply EXCEPT ![c] = "conflict"]
             /\ UNCHANGED <<relayEpoch, log, mailbox, pushes>>
    <2>1. faults' \in Nat
      BY <1>1 DEF ChatInv, TypeOK
    <2> QED BY Zenon, <1>1, <1>5, <2>1, RefusedInv
  <1> QED BY Zenon, <1>2, <1>3, <1>4, <1>5

-----------------------------------------------------------------------------
(* The theorems *)

\* Every step keeps the invariant.
LEMMA ChatStep == ChatInv /\ [Next]_vars => ChatInv'
  <1> SUFFICES ASSUME ChatInv, [Next]_vars PROVE ChatInv'
    BY Zenon
  <1>1. CASE UNCHANGED vars
    <2>1. /\ UNCHANGED <<relayEpoch, log, mailbox, link, requests, reply, pushes, pc, current>>
          /\ UNCHANGED <<epoch, staged, merged, seen, events, store, shown>>
          /\ UNCHANGED <<nextId, apps, commits, faults>>
      BY Zenon, <1>1 DEF vars, relayVars, connVars, sessionVars, boundVars
    <2>2. TypeOK'
      BY Zenon, <2>1 DEF ChatInv, TypeOK, Positions
    <2>3. \A d \in Client : Same(d) /\ CurrentIsNamed(d)'
      BY Zenon, <2>1 DEF ChatInv, CurrentIsNamed, Same, Positions
    <2>4. OneWinnerPerEpoch' /\ IdsName'
      BY Zenon, <2>1 DEF ChatInv, OneWinnerPerEpoch, IdsName, Positions
    <2>5. ASSUME NEW d \in Client PROVE Own(d)'
      BY Zenon, <2>1, <2>3, ByClient, SameOwn
    <2> QED BY Zenon, <2>2, <2>3, <2>4, <2>5
            DEF ChatInv, Own, Agrees, Once, Persisted, GroupAgreement, AppliedOnce, AckedIsPersisted
  <1>2. CASE Next
    <2>1. PICK c \in Client :
             \/ SendMessage(c) \/ CommitSelfUpdate(c) \/ RebuildCommit(c)
             \/ Resend(c) \/ PumpReconnects(c)
             \/ SendReturns(c) \/ CommitConflicts(c) \/ CommitRejected(c)
             \/ CommitAccepted(c) \/ Pump(c) \/ NextEvent(c) \/ Resume(c)
             \/ RelayHandles(c) \/ RelayRejects(c) \/ Drop(c) \/ ReconnectFails(c) \/ Crash(c)
      BY Zenon, <1>2 DEF Next, Engine
    <2>2. CASE SendMessage(c)
      BY Zenon, <2>2, SendMessageInv
    <2>3. CASE CommitSelfUpdate(c) \/ RebuildCommit(c)
      <3>1. commits' \in Nat /\ pc[c] \in {"idle", "rebuild"} /\ BuildCommit(c)
        BY <2>3 DEF CommitSelfUpdate, RebuildCommit, ChatInv, TypeOK
      <3> QED BY Zenon, <3>1, BuildCommitInv
    <2>4. CASE Resend(c) \/ PumpReconnects(c)
      BY <2>4, ReconnectInv
    <2>5. CASE SendReturns(c) \/ CommitConflicts(c) \/ CommitRejected(c)
      BY Zenon, <2>5, ReturnInv
    <2>6. CASE CommitAccepted(c)
      BY Zenon, <2>6, CommitAcceptedInv
    <2>7. CASE Pump(c)
      BY Zenon, <2>7, PumpInv
    <2>8. CASE NextEvent(c)
      BY Zenon, <2>8, NextEventInv
    <2>9. CASE Resume(c) \/ Crash(c)
      BY Zenon, <2>9, ResumeInv, CrashInv
    <2>10. CASE RelayHandles(c)
      BY Zenon, <2>10, RelayHandlesInv
    <2>11. CASE RelayRejects(c) \/ Drop(c)
      BY Zenon, <2>11, RelayRejectsInv, DropInv
    <2>12. CASE ReconnectFails(c)
      BY Zenon, <2>12, ReconnectFailsInv
    <2> QED BY Zenon, <2>1, <2>2, <2>3, <2>4, <2>5, <2>6, <2>7, <2>8, <2>9, <2>10, <2>11, <2>12
  <1> QED BY Zenon, <1>1, <1>2

\* The invariant holds in every state.
THEOREM ChatIsSafe == Spec => []ChatInv
  BY ChatInitially, ChatStep, PTL DEF Spec

\* However many clients race, whatever is lost, resent, replayed or restarted:
\* what a client merged at an epoch is the one commit the relay accepted for it.
THEOREM GroupsAgree == Spec => []GroupAgreement
  <1>1. ChatInv => GroupAgreement
    BY Zenon DEF ChatInv
  <1> QED BY <1>1, ChatIsSafe, PTL

\* No message is applied twice by any client.
THEOREM MessagesApplyOnce == Spec => []AppliedOnce
  <1>1. ChatInv => AppliedOnce
    BY Zenon DEF ChatInv
  <1> QED BY <1>1, ChatIsSafe, PTL

\* pump_one persists before it acks: what left a mailbox is in its owner's store.
THEOREM AcksFollowPersists == Spec => []AckedIsPersisted
  <1>1. ChatInv => AckedIsPersisted
    BY Zenon DEF ChatInv
  <1> QED BY <1>1, ChatIsSafe, PTL

\* commit_self_update's drain waits for a commit that is in its mailbox.
THEOREM WinnersAreQueued == Spec => []WinnerIsQueued
  <1>1. ChatInv => WinnerIsQueued
    <2>1. SUFFICES ASSUME ChatInv, NEW c \in Client, pc[c] = "conflicted"
                   PROVE  \E i \in mailbox[c] : log[i].commit /\ log[i].epoch = epoch[c]
      BY Zenon DEF WinnerIsQueued
    <2>2. TypeOK /\ OneWinnerPerEpoch /\ Own(c)
      BY Zenon, <2>1, ByClient
    <2>3. epoch[c] \in Nat \ {0} /\ relayEpoch \in Nat /\ epoch[c] < relayEpoch
      BY <2>1, <2>2 DEF TypeOK, Own, RepliesAreTrue
    <2>7. epoch[c] \in 1 .. relayEpoch - 1 /\ ~(epoch[c] < epoch[c])
      BY <2>3
    <2>4. PICK i \in Positions : log[i].commit /\ log[i].epoch = epoch[c]
      BY Zenon, <2>2, <2>7 DEF OneWinnerPerEpoch
    <2>5. log[i].id \notin store[c].seen
      BY Zenon, <2>2, <2>4, <2>7 DEF Own, StoreIsCurrent
    <2>6. i \in mailbox[c]
      BY Zenon, <2>2, <2>4, <2>5 DEF Own, Persisted
    <2> QED BY Zenon, <2>4, <2>6
  <1> QED BY <1>1, ChatIsSafe, PTL

=============================================================================
