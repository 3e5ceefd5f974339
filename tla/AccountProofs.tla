--------------------------- MODULE AccountProofs ----------------------------
(***************************************************************************)
(* The account on both of its sides: its row in the directory and its      *)
(* backup on the device.                                                   *)
(*                                                                         *)
(* The directory, for any numbers, accounts, links and handlers at once:   *)
(* one account per number, the cooldown, what an erasure leaves behind,    *)
(* and each contact link handed out once.                                  *)
(*                                                                         *)
(* Recovery on the device, for any PINs and any number of changes, failed  *)
(* uploads and deaths: the words restore, the PIN of the backup is the one *)
(* of the device, and the backup forgets nothing.  The argument: every     *)
(* bundle there is, wherever it is, is wrapped twice around the key that   *)
(* sealed it; what the screens, the tasks and the uploads may be doing     *)
(* together leaves one change at a time open; and an upload numbered with  *)
(* the last change carries the words, the PIN and the payload the device   *)
(* has.                                                                    *)
(***************************************************************************)
EXTENDS DirectoryAccounts, Recovery, TLAPS

-----------------------------------------------------------------------------
(* Directory: the inductive invariant *)

\* A handler has a number until it has an account.  The number it found free is
\* in no cooldown, and the account it writes for is not erased, unless that
\* erasure raced it.
Sound(q) ==
    /\ q.at \in {"cooldown", "create"} => q.phone \in Phone /\ q.op \in {"signup", "verify"}
    /\ q.at \in {"mark", "session", "act"} \cup Open => q.user # NoUser
    /\ q.at \in {"mark", "session"} => q.op = "verify"
    /\ q.at \in Open => q.op = "delete"
    /\ q.at = "create" /\ q.phone \notin raced => ~InCooldown(q.phone)
    /\ q.user # NoUser => users[q.user] # NoRow
    /\ q.op \in Writes /\ q.user # NoUser /\ users[q.user].deleted => q.user \in raced

\* The number whose cooldown a transaction inserted is still its account's, unless
\* another erasure of the account came first.
Remembers(x) ==
    /\ tx[x].cooled # {}
    /\ \A c \in tx[x].cooled :
           \/ c[1] = users[req[x].user].phone
           \/ users[req[x].user].deleted /\ c[1] \in raced

\* No other handler writes for the account, so that a table holds no more of it
\* than what the transaction has deleted.
Alone(x) == \A y \in Req \ {x} : req[y].op \in Writes => req[y].user # req[x].user
AllDeleted(x) ==
    /\ req[x].at \in {"backups", "sessions", "commit"} /\ bootstrap[req[x].user] # NoLink
           => req[x].user \in tx[x].links
    /\ req[x].at \in {"sessions", "commit"} /\ req[x].user \in backups
           => req[x].user \in tx[x].backups
    /\ req[x].at = "commit" => \A s \in sessions : s[1] = req[x].user => s \in tx[x].sessions
SoundTx(x) == req[x].at \in Open => Remembers(x) /\ (tx[x].met \/ (Alone(x) /\ AllDeleted(x)))

\* A live row has a number that is in no cooldown, a tombstone has none and leaves
\* nothing, each unless its erasure raced a handler.
SoundRow(u) ==
    users[u] # NoRow =>
        IF users[u].deleted
        THEN users[u].phone = NoPhone /\ (u \notin raced => LeavesNothing(u))
        ELSE /\ users[u].phone \in Phone
             /\ users[u].phone \notin raced => ~InCooldown(users[u].phone)

\* A link is not uploaded yet, on offer once, or handed out once.
Links ==
    /\ \A l \in Link : handed[l] <= 1 /\ (l \in fresh => handed[l] = 0)
    /\ \A u \in UserId : bootstrap[u] # NoLink =>
           /\ bootstrap[u] \notin fresh /\ handed[bootstrap[u]] = 0
           /\ \A v \in UserId : bootstrap[v] = bootstrap[u] => u = v

\* The inductive invariant.
AccountsInv ==
    /\ TypeOK
    /\ \A r \in Req : Sound(req[r])
    /\ \A r \in Req : SoundTx(r)
    /\ \A u \in UserId : SoundRow(u)
    /\ OneLiveAccount
    /\ Links

\* The tables start empty.
LEMMA AccountsInit == Init => AccountsInv
  <1> SUFFICES ASSUME Init PROVE AccountsInv
    BY Zenon
  <1>1. TypeOK
    <2>1. NoTx \in Tx
      BY Zenon DEF NoTx, Tx
    <2>2. Idle \in Request
      BY Zenon DEF Idle, Request, Step
    <2> QED BY <2>1, <2>2, ValueAssumption DEF Init, TypeOK, Session
  <1>2. ASSUME NEW r \in Req PROVE Sound(req[r]) /\ SoundTx(r)
    BY Zenon DEF Init, Sound, SoundTx, Idle, Open, Writes
  <1>3. ASSUME NEW u \in UserId PROVE SoundRow(u)
    BY Zenon DEF Init, SoundRow
  <1>4. OneLiveAccount
    BY Zenon DEF Init, OneLiveAccount, Live
  <1>5. Links
    BY DEF Init, Links
  <1> QED BY Zenon, <1>1, <1>2, <1>3, <1>4, <1>5 DEF AccountsInv

-----------------------------------------------------------------------------
(* Directory: the handlers *)

\* One handler moves on, and what the others hold stays sound.
LEMMA HandlersMove ==
    ASSUME AccountsInv, NEW r \in Req, NEW q \in Request, req' = [req EXCEPT ![r] = q],
           Sound(q)', \A y \in Request : Sound(y) => Sound(y)'
    PROVE  req' \in [Req -> Request] /\ \A x \in Req : Sound(req[x])'
  <1>1. req \in [Req -> Request] /\ \A x \in Req : Sound(req[x])
    BY Zenon DEF AccountsInv, TypeOK
  <1>2. req'[r] = q /\ \A x \in Req \ {r} : req'[x] = req[x]
    BY Zenon, <1>1
  <1>3. ASSUME NEW x \in Req PROVE Sound(req[x])'
    <2>1. CASE x = r
      BY <1>2, <2>1 DEF Sound, InCooldown
    <2>2. CASE x # r
      <3>1. req'[x] = req[x] /\ req[x] \in Request
        BY Zenon, <1>1, <1>2, <2>2
      <3>2. PICK y \in Request : y = req[x] /\ Sound(y)'
        BY Zenon, <1>1, <3>1
      <3> QED BY Zenon, <3>1, <3>2 DEF Sound, InCooldown
    <2> QED BY Zenon, <2>1, <2>2
  <1> QED BY Zenon, <1>1, <1>3

\* A handler that waits is sound whatever the tables hold.
LEMMA IdleSound == Idle \in Request /\ Sound(Idle) /\ Sound(Idle)' /\ Idle.at \notin Open /\
                   Idle.op \notin Writes
  BY Zenon DEF Idle, Request, Step, Sound, Open, Writes

\* A transaction that goes on, and the others may have met its account.
Grows(x) ==
    /\ tx'[x].cooled = tx[x].cooled /\ tx'[x].links = tx[x].links
    /\ tx'[x].backups = tx[x].backups /\ tx'[x].sessions = tx[x].sessions
    /\ tx[x].met => tx'[x].met

\* A handler moves on to q, outside of a transaction; one that is given an account to
\* write for meets the transactions that erase it.
Moves(r, q) ==
    /\ req' = [req EXCEPT ![r] = q] /\ q.at \notin Open
    /\ tx' \in [Req -> Tx] /\ \A x \in Req \ {r} : Grows(x)
    /\ q.op \in Writes => \/ q.user = NoUser
                          \/ q.op = req[r].op /\ q.user = req[r].user
                          \/ \A x \in Erasing(q.user) : tx'[x].met

\* The tables get no new row of v.
NoMore(v) ==
    /\ bootstrap'[v] \in {bootstrap[v], NoLink}
    /\ v \in backups' => v \in backups
    /\ \A s \in sessions' : s[1] = v => s \in sessions

\* The transactions stay sound when a handler outside of one moves on.
LEMMA TxKept ==
    ASSUME AccountsInv, NEW r \in Req, NEW q \in Request, Moves(r, q), raced \subseteq raced',
           \A v \in UserId : users[v] # NoRow =>
               users'[v].phone = users[v].phone /\ users'[v].deleted = users[v].deleted,
           \A v \in UserId : (req[r].op \in Writes /\ req[r].user = v) \/ NoMore(v)
    PROVE  \A x \in Req : SoundTx(x)'
  <1> SUFFICES ASSUME NEW x \in Req, req'[x].at \in Open PROVE SoundTx(x)'
    BY Zenon DEF SoundTx
  <1>1. /\ req \in [Req -> Request] /\ req'[r] = q /\ \A y \in Req \ {r} : req'[y] = req[y]
        /\ q.at \notin Open
    BY Zenon DEF AccountsInv, TypeOK, Moves
  <1>2. x # r /\ req'[x] = req[x] /\ Grows(x)
    BY Zenon, <1>1 DEF Moves
  <1>3. PICK v \in UserId : v = req[x].user /\ users[v] # NoRow
    BY Zenon, <1>1, <1>2 DEF AccountsInv, Sound, Request
  <1>4. Remembers(x) /\ (tx[x].met \/ (Alone(x) /\ AllDeleted(x)))
    BY Zenon, <1>2 DEF AccountsInv, SoundTx
  <1>5. users'[v].phone = users[v].phone /\ users'[v].deleted = users[v].deleted
    BY Zenon, <1>3
  <1>6. Remembers(x)'
    BY Zenon, <1>2, <1>3, <1>4, <1>5 DEF Remembers, Grows
  <1>7. CASE tx'[x].met
    BY Zenon, <1>6, <1>7 DEF SoundTx
  <1>8. CASE ~tx'[x].met
    <2>1. Alone(x) /\ AllDeleted(x)
      BY Zenon, <1>2, <1>4, <1>8 DEF Grows
    <2>2. ~(req[r].op \in Writes /\ req[r].user = v)
      BY Zenon, <1>2, <1>3, <2>1 DEF Alone
    <2>3. q.op \in Writes => q.user # v
      <3>1. x \in Erasing(v) /\ v # NoUser
        BY Zenon, <1>2, <1>3, ValueAssumption DEF Erasing
      <3> QED BY Zenon, <1>8, <2>2, <3>1 DEF Moves
    <2>4. Alone(x)'
      BY Zenon, <1>1, <1>2, <1>3, <2>1, <2>3 DEF Alone
    <2>5. NoMore(v)
      BY Zenon, <2>2
    <2>6. AllDeleted(x)'
      BY Zenon, <1>2, <1>3, <2>1, <2>5 DEF AllDeleted, NoMore, Grows
    <2> QED BY Zenon, <1>6, <2>4, <2>6 DEF SoundTx
  <1> QED BY Zenon, <1>7, <1>8

\* A step that writes no table keeps what is said about them.
LEMMA OnlyHandlers ==
    ASSUME AccountsInv, NEW r \in Req, NEW q \in Request, Moves(r, q), Sound(q),
           UNCHANGED <<users, cooldown, sessions, bootstrap, backups, fresh, handed, raced, clock>>
    PROVE  AccountsInv'
  <1>1. \A y \in Request : Sound(y) => Sound(y)'
    BY DEF Sound, InCooldown
  <1>2. req' \in [Req -> Request] /\ \A x \in Req : Sound(req[x])'
    BY Zenon, <1>1, HandlersMove DEF Moves
  <1>3. TypeOK'
    BY Zenon, <1>2 DEF AccountsInv, TypeOK, Moves
  <1>4. \A u \in UserId : SoundRow(u)'
    BY Zenon DEF AccountsInv, SoundRow, LeavesNothing, InCooldown
  <1>5. OneLiveAccount' /\ Links'
    BY Zenon DEF AccountsInv, OneLiveAccount, Live, Links
  <1>6. \A v \in UserId : NoMore(v)
    BY Zenon DEF NoMore
  <1>7. \A x \in Req : SoundTx(x)'
    BY Zenon, <1>6, TxKept
  <1> QED BY Zenon, <1>2, <1>3, <1>4, <1>5, <1>7 DEF AccountsInv

\* What a handler's step says of the transactions.
LEMMA TxFacts ==
    ASSUME AccountsInv, NEW r \in Req
    PROVE  /\ UNCHANGED tx => tx' \in [Req -> Tx] /\ \A x \in Req \ {r} : Grows(x)
           /\ tx' = [tx EXCEPT ![r] = NoTx] =>
                  tx' \in [Req -> Tx] /\ \A x \in Req \ {r} : Grows(x)
           /\ \A op, u : tx' = Met(op, u) =>
                  /\ tx' \in [Req -> Tx] /\ \A x \in Req \ {r} : Grows(x)
                  /\ op \in Writes => \A x \in Erasing(u) : tx'[x].met
  <1>1. tx \in [Req -> Tx] /\ NoTx \in Tx
    BY Zenon DEF AccountsInv, TypeOK, NoTx, Tx
  <1>2. UNCHANGED tx => tx' \in [Req -> Tx] /\ \A x \in Req \ {r} : Grows(x)
    BY Zenon, <1>1 DEF Grows
  <1>3. ASSUME tx' = [tx EXCEPT ![r] = NoTx]
        PROVE  tx' \in [Req -> Tx] /\ \A x \in Req \ {r} : Grows(x)
    BY Zenon, <1>1, <1>3 DEF Grows
  <1>4. ASSUME NEW op, NEW u, tx' = Met(op, u)
        PROVE  /\ tx' \in [Req -> Tx] /\ \A x \in Req \ {r} : Grows(x)
               /\ op \in Writes => \A x \in Erasing(u) : tx'[x].met
    <2>1. ASSUME NEW x \in Req
          PROVE  LET t == [tx[x] EXCEPT !.met = TRUE] IN
                 /\ t \in Tx /\ t.cooled = tx[x].cooled /\ t.links = tx[x].links
                 /\ t.backups = tx[x].backups /\ t.sessions = tx[x].sessions /\ t.met
      BY Zenon, <1>1 DEF Tx
    <2>2. ASSUME NEW x \in Req PROVE tx'[x] \in Tx /\ Grows(x)
      <3>1. tx'[x] = tx[x] \/ tx'[x] = [tx[x] EXCEPT !.met = TRUE]
        BY Zenon, <1>4 DEF Met
      <3> QED BY Zenon, <1>1, <2>1, <3>1 DEF Grows
    <2>3. tx' \in [Req -> Tx]
      BY Zenon, <1>4, <2>2 DEF Met
    <2>4. ASSUME op \in Writes, NEW x \in Erasing(u) PROVE tx'[x].met
      <3>1. x \in Req /\ tx'[x] = [tx[x] EXCEPT !.met = TRUE]
        BY Zenon, <1>4, <2>4 DEF Met, Erasing
      <3> QED BY Zenon, <2>1, <3>1
    <2> QED BY Zenon, <2>2, <2>3, <2>4
  <1> QED BY Zenon, <1>2, <1>3, <1>4

\* A request arrives, passes or fails the cooldown check, authenticates, stops.
LEMMA HandlersKeep ==
    ASSUME AccountsInv, NEW r \in Req,
           \/ \E p \in Phone, op \in {"signup", "verify"} : Begin(r, op, p)
           \/ \E t \in sessions, op \in AuthedOp : Authenticate(r, op, t)
           \/ CheckCooldown(r) \/ Abandon(r)
    PROVE  AccountsInv'
  <1>1. req[r] \in Request /\ Sound(req[r])
    BY Zenon DEF AccountsInv, TypeOK
  <1>2. ASSUME NEW p \in Phone, NEW op \in {"signup", "verify"}, Begin(r, op, p) PROVE AccountsInv'
    <2> DEFINE q == [op |-> op, at |-> "cooldown", phone |-> p, user |-> NoUser]
    <2>1. q \in Request /\ Sound(q)
      BY Zenon DEF Request, Op, Step, Sound, Open, Writes
    <2>2. Moves(r, q)
      BY Zenon, <1>2, TxFacts DEF Begin, Moves, Open
    <2> QED BY Zenon, <1>2, <2>1, <2>2, OnlyHandlers DEF Begin
  <1>3. ASSUME NEW t \in sessions, NEW op \in AuthedOp, Authenticate(r, op, t) PROVE AccountsInv'
    <2> DEFINE q == [op |-> op, at |-> "act", phone |-> NoPhone, user |-> t[1]]
    <2>1. t[1] \in UserId /\ Live(t[1])
      BY Zenon, <1>3 DEF AccountsInv, TypeOK, Session, Authenticate, SessionValid
    <2>2. q \in Request /\ Sound(q)
      BY Zenon, <2>1, ValueAssumption DEF Request, Op, AuthedOp, Step, Sound, Live, Open
    <2>3. Moves(r, q)
      BY Zenon, <1>3, TxFacts DEF Authenticate, Moves, Open
    <2> QED BY Zenon, <1>3, <2>2, <2>3, OnlyHandlers DEF Authenticate
  <1>4. CASE CheckCooldown(r)
    <2> DEFINE q == [req[r] EXCEPT !.at = "create"]
    <2>1. ASSUME MayRegister(req[r].phone)
          PROVE  q \in Request /\ Sound(q) /\ q.at \notin Open /\ q.op = req[r].op /\
                 q.user = req[r].user
      <3>1. /\ req[r].phone \in Phone /\ req[r].op \in {"signup", "verify"} /\ q.at = "create"
            /\ q.phone = req[r].phone /\ q.user = req[r].user /\ q.op = req[r].op
        BY Zenon, <1>1, <1>4 DEF Request, Step, Sound, CheckCooldown
      <3>2. q \in Request
        BY Zenon, <1>1 DEF Request, Step
      <3> QED BY Zenon, <1>1, <2>1, <3>1, <3>2 DEF Sound, MayRegister, Open
    <2>2. req' = [req EXCEPT ![r] = IF MayRegister(req[r].phone) THEN q ELSE Idle]
      BY Zenon, <1>1, <1>4 DEF CheckCooldown
    <2>3. CASE MayRegister(req[r].phone)
      <3>1. Moves(r, q)
        BY Zenon, <1>4, <2>1, <2>2, <2>3, TxFacts DEF CheckCooldown, Moves
      <3> QED BY Zenon, <1>4, <2>1, <2>3, <3>1, OnlyHandlers DEF CheckCooldown
    <2>4. CASE ~MayRegister(req[r].phone)
      <3>1. Moves(r, Idle)
        BY Zenon, <1>4, <2>2, <2>4, IdleSound, TxFacts DEF CheckCooldown, Moves
      <3> QED BY Zenon, <1>4, <3>1, IdleSound, OnlyHandlers DEF CheckCooldown
    <2> QED BY Zenon, <2>3, <2>4
  <1>5. CASE Abandon(r)
    <2>1. Moves(r, Idle)
      BY Zenon, <1>5, IdleSound, TxFacts DEF Abandon, Moves
    <2> QED BY Zenon, <1>5, <2>1, IdleSound, OnlyHandlers DEF Abandon
  <1> QED BY Zenon, <1>2, <1>3, <1>4, <1>5

-----------------------------------------------------------------------------
(* Directory: the tables *)

\* A handler with an account in hand.
LEMMA InHandFacts ==
    ASSUME AccountsInv, NEW r \in Req, req[r].at \in {"mark", "session", "act"} \cup Open
    PROVE  /\ req[r].user \in UserId /\ users[req[r].user] \in Row
           /\ req[r].op \in Writes /\ users[req[r].user].deleted => req[r].user \in raced
  <1>1. Sound(req[r]) /\ req[r] \in Request /\ users \in [UserId -> Row \cup {NoRow}]
    BY Zenon DEF AccountsInv, TypeOK
  <1>2. req[r].user # NoUser /\ req[r].user \in UserId
    BY Zenon, <1>1 DEF Sound, Request
  <1> QED BY Zenon, <1>1, <1>2 DEF Sound

\* A flag of a row in hand is set: the row keeps its number and its life.
LEMMA RowTouched ==
    ASSUME AccountsInv, NEW r \in Req, NEW q \in Request, Moves(r, q), Sound(q)',
           NEW u \in UserId, NEW new \in Row, users[u] \in Row, users' = [users EXCEPT ![u] = new],
           new.phone = users[u].phone, new.deleted = users[u].deleted,
           \/ users[u].deleted => u \in raced
           \/ ~users[u].searchable /\ ~users[u].verified => ~new.searchable /\ ~new.verified,
           UNCHANGED <<cooldown, sessions, bootstrap, backups, fresh, handed, raced, clock>>
    PROVE  AccountsInv'
  <1>1. /\ users \in [UserId -> Row \cup {NoRow}] /\ users' \in [UserId -> Row \cup {NoRow}]
        /\ users'[u] = new /\ \A v \in UserId \ {u} : users'[v] = users[v]
    BY Zenon DEF AccountsInv, TypeOK
  <1>2. users[u] # NoRow /\ new # NoRow
    BY Zenon, ValueAssumption DEF Row
  <1>3. ASSUME NEW v \in UserId
        PROVE  /\ users'[v] # NoRow <=> users[v] # NoRow
               /\ users[v] # NoRow => /\ users'[v].deleted = users[v].deleted
                                      /\ users'[v].phone = users[v].phone
    BY Zenon, <1>1, <1>2
  <1>4. ASSUME NEW y \in Request, Sound(y) PROVE Sound(y)'
    <2>1. y.user \in UserId \cup {NoUser}
      BY Zenon DEF Request
    <2> QED BY Zenon, <1>3, <1>4, <2>1 DEF Sound, InCooldown
  <1>5. req' \in [Req -> Request] /\ \A x \in Req : Sound(req[x])'
    BY Zenon, <1>4, HandlersMove DEF Moves
  <1>6. TypeOK'
    BY Zenon, <1>1, <1>5 DEF AccountsInv, TypeOK, Moves
  <1>7. ASSUME NEW v \in UserId PROVE SoundRow(v)'
    <2>1. SoundRow(v)
      BY Zenon DEF AccountsInv
    <2>2. CASE v = u
      <3>1. users[u].deleted /\ u \notin raced /\ LeavesNothing(u) => LeavesNothing(u)'
        BY Zenon, <1>1 DEF LeavesNothing
      <3> QED BY Zenon, <1>1, <1>2, <2>1, <2>2, <3>1 DEF SoundRow, InCooldown
    <2>3. CASE v # u
      <3>1. users'[v] = users[v]
        BY Zenon, <1>1, <2>3
      <3> QED BY <2>1, <3>1 DEF SoundRow, LeavesNothing, InCooldown
    <2> QED BY Zenon, <2>2, <2>3
  <1>8. OneLiveAccount'
    BY <1>3 DEF AccountsInv, OneLiveAccount, Live
  <1>9. Links'
    BY Zenon DEF AccountsInv, Links
  <1>10. \A v \in UserId : NoMore(v)
    BY Zenon DEF NoMore
  <1>11. \A x \in Req : SoundTx(x)'
    BY Zenon, <1>3, <1>10, TxKept
  <1> QED BY Zenon, <1>5, <1>6, <1>7, <1>8, <1>9, <1>11 DEF AccountsInv

\* mark_verified, set_searchable and claim_username set a flag of such a row.
LEMMA FlagsKeep ==
    ASSUME AccountsInv, NEW r \in Req, MarkVerified(r) \/ SetSearchable(r) \/ ClaimUsername(r)
    PROVE  AccountsInv'
  <1>1. req[r] \in Request /\ Sound(req[r]) /\ users \in [UserId -> Row \cup {NoRow}]
    BY Zenon DEF AccountsInv, TypeOK
  <1>2. req[r].at \in {"mark", "act"}
    BY Zenon DEF MarkVerified, SetSearchable, ClaimUsername, Acts
  <1>3. PICK u \in UserId :
          /\ u = req[r].user /\ users[u] \in Row
          /\ req[r].op \in Writes /\ users[u].deleted => u \in raced
    BY Zenon, <1>2, InHandFacts
  <1>4. CASE MarkVerified(r)
    <2> DEFINE new == [users[u] EXCEPT !.verified = TRUE]
    <2> PICK q : q = [req[r] EXCEPT !.at = "session"]
      BY Zenon
    <2>1. /\ q \in Request /\ q.at = "session" /\ q.user = u /\ q.op = req[r].op
          /\ req[r].op = "verify" /\ q.op \in Writes
      BY Zenon, <1>1, <1>3, <1>4 DEF Request, Step, Sound, MarkVerified, Writes
    <2>2. new \in Row /\ new.phone = users[u].phone /\ new.deleted = users[u].deleted
      BY Zenon, <1>3 DEF Row
    <2> new # NoRow
      BY Zenon, <2>2, ValueAssumption DEF Row
    <2>3. req' = [req EXCEPT ![r] = q] /\ users' = [users EXCEPT ![u] = new]
      BY Zenon, <1>1, <1>3, <1>4, <2>1 DEF MarkVerified
    <2>4. users'[u] = new /\ raced' = raced
      BY Zenon, <1>1, <1>3, <1>4, <2>3 DEF MarkVerified
    <2>5. u # NoUser /\ users'[u] # NoRow /\ (users'[u].deleted => u \in raced')
      BY Zenon, <1>3, <2>1, <2>2, <2>4, ValueAssumption
    <2>6. Sound(q)'
      BY ONLY <2>1, <2>5 DEF Sound, Open
    <2>7. Moves(r, q)
      BY Zenon, <1>3, <1>4, <2>1, <2>3, TxFacts DEF MarkVerified, Moves, Open
    <2> QED BY Zenon, <1>3, <1>4, <2>1, <2>2, <2>3, <2>6, <2>7, RowTouched DEF MarkVerified
  <1>5. ASSUME NEW on \in BOOLEAN, Acts(r, IF on THEN "searchable" ELSE "hide"), SetSearchable(r),
               users' = [users EXCEPT ![u].searchable = on]
        PROVE  AccountsInv'
    <2> DEFINE new == [users[u] EXCEPT !.searchable = on]
    <2>1. new \in Row /\ new.phone = users[u].phone /\ new.deleted = users[u].deleted
      BY Zenon, <1>3 DEF Row
    <2>2. req' = [req EXCEPT ![r] = Idle] /\ users' = [users EXCEPT ![u] = new]
      BY Zenon, <1>1, <1>3, <1>5 DEF Acts
    <2>3. Moves(r, Idle)
      BY Zenon, <1>5, <2>2, IdleSound, TxFacts DEF SetSearchable, Moves
    <2>4. \/ users[u].deleted => u \in raced
          \/ ~users[u].searchable /\ ~users[u].verified => ~new.searchable /\ ~new.verified
      <3>1. CASE on
        BY Zenon, <1>3, <1>5, <3>1 DEF Acts, Writes
      <3>2. CASE ~on
        BY Zenon, <1>3, <3>2 DEF Row
      <3> QED BY Zenon, <3>1, <3>2
    <2> QED BY Zenon, <1>3, <1>5, <2>1, <2>2, <2>3, <2>4, IdleSound, RowTouched DEF SetSearchable
  <1>6. CASE ClaimUsername(r)
    <2> DEFINE new == [users[u] EXCEPT !.named = TRUE]
    <2>1. new \in Row /\ new.phone = users[u].phone /\ new.deleted = users[u].deleted
      BY Zenon, <1>3 DEF Row
    <2>2. req' = [req EXCEPT ![r] = Idle] /\ users' = [users EXCEPT ![u] = new]
      BY Zenon, <1>1, <1>3, <1>6 DEF ClaimUsername, Acts
    <2>3. Moves(r, Idle)
      BY Zenon, <1>6, <2>2, IdleSound, TxFacts DEF ClaimUsername, Moves
    <2>4. ~users[u].searchable /\ ~users[u].verified => ~new.searchable /\ ~new.verified
      BY Zenon, <1>3 DEF Row
    <2> QED BY Zenon, <1>3, <1>6, <2>1, <2>2, <2>3, <2>4, IdleSound, RowTouched DEF ClaimUsername
  <1> QED BY Zenon, <1>3, <1>4, <1>5, <1>6 DEF SetSearchable

\* find_or_create_pending_user gives a number its account, or finds it.
LEMMA FindOrCreateKeeps == ASSUME AccountsInv, NEW r \in Req, FindOrCreatePendingUser(r)
                           PROVE  AccountsInv'
  <1>1. req[r] \in Request /\ Sound(req[r]) /\ users \in [UserId -> Row \cup {NoRow}]
    BY Zenon DEF AccountsInv, TypeOK
  <1>2. PICK p \in Phone : p = req[r].phone /\ (p \notin raced => ~InCooldown(p))
    BY Zenon, <1>1 DEF FindOrCreatePendingUser, Sound
  <1> UNCHANGED <<cooldown, sessions, bootstrap, backups, fresh, handed, raced, clock>>
    BY Zenon DEF FindOrCreatePendingUser
  <1>3. PICK u \in UserId :
          /\ FindOrCreate(p, u)
          /\ req' = [req EXCEPT ![r] = IF @.op = "signup" THEN Idle
                                       ELSE [@ EXCEPT !.at = "mark", !.user = u]]
          /\ tx' = Met(req[r].op, u)
    BY Zenon, <1>2 DEF FindOrCreatePendingUser
  <1>4. PICK q \in Request : /\ q = Idle \/ (q.at = "mark" /\ q.user = u /\ q.op = "verify")
                            /\ Moves(r, q)
    <2> DEFINE found == [req[r] EXCEPT !.at = "mark", !.user = u]
    <2>1. found \in Request /\ found.at = "mark" /\ found.user = u /\ found.op = req[r].op
      BY Zenon, <1>1 DEF Request, Step
    <2>2. req' = [req EXCEPT ![r] = IF req[r].op = "signup" THEN Idle ELSE found]
      BY Zenon, <1>1, <1>3
    <2>3. CASE req[r].op = "signup"
      <3>1. Moves(r, Idle)
        BY Zenon, <1>3, <2>2, <2>3, IdleSound, TxFacts DEF Moves
      <3> QED BY Zenon, <3>1, IdleSound
    <2>4. CASE req[r].op # "signup"
      <3>1. req[r].op = "verify"
        BY Zenon, <1>1, <2>4 DEF FindOrCreatePendingUser, Sound
      <3>2. Moves(r, found)
        BY Zenon, <1>3, <2>1, <2>2, <2>4, TxFacts DEF Moves, Open
      <3> QED BY Zenon, <2>1, <3>1, <3>2
    <2> QED BY Zenon, <2>3, <2>4
  <1>5. CASE u \in Owners(p) /\ UNCHANGED users
    <2>1. Live(u)
      BY Zenon, <1>5 DEF Owners
    <2>2. Sound(q)
      BY Zenon, <1>4, <2>1, IdleSound, ValueAssumption DEF Sound, Live, Open
    <2> QED BY Zenon, <1>4, <1>5, <2>2, OnlyHandlers
  <1>6. CASE /\ Owners(p) = {} /\ users[u] = NoRow
             /\ users' = [users EXCEPT ![u] = PendingRow(p)]
    <2>1. /\ PendingRow(p) \in Row /\ PendingRow(p).phone = p /\ ~PendingRow(p).deleted
      BY Zenon DEF PendingRow, Row
    <2> PendingRow(p) # NoRow
      BY Zenon, <2>1, ValueAssumption DEF Row
    <2>2. /\ users' \in [UserId -> Row \cup {NoRow}] /\ users'[u] = PendingRow(p)
          /\ \A v \in UserId \ {u} : users'[v] = users[v]
      BY Zenon, <1>1, <1>6, <2>1
    <2>3. ASSUME NEW y \in Request, Sound(y) PROVE Sound(y)'
      <3>1. y.user \in UserId \cup {NoUser}
        BY Zenon DEF Request
      <3>2. y.user # NoUser => y.user # u
        BY Zenon, <1>6, <2>3 DEF Sound
      <3> QED BY Zenon, <1>2, <2>2, <2>3, <3>1, <3>2 DEF Sound, InCooldown
    <2>4. Sound(q)'
      BY <1>4, <2>1, <2>2, IdleSound, ValueAssumption DEF Sound, Open
    <2>5. req' \in [Req -> Request] /\ \A x \in Req : Sound(req[x])'
      BY Zenon, <1>4, <2>3, <2>4, HandlersMove DEF Moves
    <2>6. TypeOK'
      BY Zenon, <1>2, <1>4, <2>2, <2>5 DEF AccountsInv, TypeOK, Moves
    <2>7. ASSUME NEW v \in UserId PROVE SoundRow(v)'
      <3>1. CASE v = u
        BY <1>2, <2>1, <2>2, <3>1 DEF SoundRow, InCooldown
      <3>2. CASE v # u
        <4>1. users'[v] = users[v] /\ SoundRow(v)
          BY Zenon, <2>2, <3>2 DEF AccountsInv
        <4> QED BY Zenon, <1>2, <4>1 DEF SoundRow, LeavesNothing, InCooldown
      <3> QED BY Zenon, <3>1, <3>2
    <2>8. OneLiveAccount'
      <3>1. \A v \in UserId : Live(v) => users[v].phone # p
        BY Zenon, <1>6 DEF Owners
      <3> QED BY <2>1, <2>2, <3>1 DEF AccountsInv, OneLiveAccount, Live
    <2>9. Links'
      BY Zenon, <1>2 DEF AccountsInv, Links
    <2>10. \A v \in UserId : NoMore(v)
      BY Zenon DEF NoMore
    <2>11. \A v \in UserId : users[v] # NoRow => users'[v] = users[v]
      BY Zenon, <1>6, <2>2
    <2>12. \A x \in Req : SoundTx(x)'
      BY Zenon, <1>4, <2>10, <2>11, TxKept
    <2> QED BY Zenon, <2>5, <2>6, <2>7, <2>8, <2>9, <2>12 DEF AccountsInv
  <1> QED BY Zenon, <1>3, <1>5, <1>6 DEF FindOrCreate

\* What a handler stores for its account is not left behind by an erasure that it
\* did not race.
LEMMA StoresKeep ==
    ASSUME AccountsInv, NEW r \in Req, CreateSession(r) \/ UpsertBackup(r) \/ SetPairingBootstrap(r)
    PROVE  AccountsInv'
  <1>1. req[r].at \in {"mark", "session", "act"}
    BY Zenon DEF CreateSession, UpsertBackup, SetPairingBootstrap, Acts
  <1> req[r].op \in Writes
    BY Zenon DEF CreateSession, UpsertBackup, SetPairingBootstrap, Acts, Writes, AccountsInv, Sound
  <1>2. PICK u \in UserId : u = req[r].user /\ (users[u].deleted => u \in raced)
    BY Zenon, <1>1, InHandFacts
  <1>3. /\ UNCHANGED <<users, cooldown, handed, raced, clock>>
        /\ req' = [req EXCEPT ![r] = Idle] /\ Moves(r, Idle)
    BY Zenon, IdleSound, TxFacts DEF CreateSession, UpsertBackup, SetPairingBootstrap, Acts, Moves
  <1>4. \A y \in Request : Sound(y) => Sound(y)'
    BY Zenon, <1>3 DEF Sound, InCooldown
  <1>5. req' \in [Req -> Request] /\ \A x \in Req : Sound(req[x])'
    BY Zenon, <1>3, <1>4, IdleSound, HandlersMove
  <1>6. /\ sessions' \subseteq sessions \cup {<<u, clock>>} /\ backups' \subseteq backups \cup {u}
    BY Zenon, <1>2 DEF AccountsInv, TypeOK, CreateSession, UpsertBackup, SetPairingBootstrap
  <1>7. /\ bootstrap' \in [UserId -> Link \cup {NoLink}] /\ fresh' \subseteq Link
        /\ \A v \in UserId \ {u} : bootstrap'[v] = bootstrap[v]
    BY <1>2 DEF AccountsInv, TypeOK, CreateSession, UpsertBackup, SetPairingBootstrap
  <1>8. TypeOK'
    <2>1. <<u, clock>> \in Session
      BY Zenon DEF AccountsInv, TypeOK, Session
    <2> QED BY Zenon, <1>3, <1>5, <1>6, <1>7, <2>1 DEF AccountsInv, TypeOK, Moves
  <1>9. ASSUME NEW v \in UserId PROVE SoundRow(v)'
    <2>1. SoundRow(v)
      BY Zenon DEF AccountsInv
    <2>2. CASE v = u
      BY Zenon, <1>2, <1>3, <2>1, <2>2 DEF SoundRow, InCooldown
    <2>3. CASE v # u
      <3>1. LeavesNothing(v) => LeavesNothing(v)'
        BY <1>3, <1>6, <1>7, <2>3 DEF LeavesNothing
      <3> QED BY Zenon, <1>3, <2>1, <3>1 DEF SoundRow, InCooldown
    <2> QED BY Zenon, <2>2, <2>3
  <1>10. OneLiveAccount'
    BY Zenon, <1>3 DEF AccountsInv, OneLiveAccount, Live
  <1>11. Links'
    <2>1. CASE UNCHANGED <<bootstrap, fresh>>
      BY Zenon, <1>3, <2>1 DEF AccountsInv, Links
    <2>2. ASSUME NEW l \in fresh, bootstrap' = [bootstrap EXCEPT ![u] = l], fresh' = fresh \ {l}
          PROVE  Links'
      <3>1. /\ l \in Link /\ l # NoLink /\ handed[l] = 0 /\ bootstrap'[u] = l
            /\ \A v \in UserId : bootstrap[v] # l
        BY <2>2, ValueAssumption DEF AccountsInv, TypeOK, Links
      <3> QED BY <1>3, <1>7, <2>2, <3>1 DEF AccountsInv, Links
    <2> QED BY Zenon, <1>2, <2>1, <2>2 DEF CreateSession, UpsertBackup, SetPairingBootstrap
  <1>12. ASSUME NEW v \in UserId, v # u PROVE NoMore(v)
    BY <1>6, <1>7, <1>12 DEF NoMore
  <1>13. \A x \in Req : SoundTx(x)'
    BY Zenon, <1>2, <1>3, <1>12, IdleSound, TxKept
  <1> QED BY Zenon, <1>5, <1>8, <1>9, <1>10, <1>11, <1>13 DEF AccountsInv

\* A link on offer is taken off it as it is handed out.
LEMMA ConsumeKeeps == ASSUME AccountsInv, NEW r \in Req, ConsumePairingBootstrap(r)
                      PROVE  AccountsInv'
  <1>1. /\ UNCHANGED <<users, cooldown, sessions, backups, fresh, raced, clock>>
        /\ req' = [req EXCEPT ![r] = Idle] /\ Moves(r, Idle)
    BY Zenon, IdleSound, TxFacts DEF ConsumePairingBootstrap, Acts, Moves
  <1>2. PICK u \in UserId :
          /\ bootstrap[u] # NoLink /\ bootstrap' = [bootstrap EXCEPT ![u] = NoLink]
          /\ handed' = [handed EXCEPT ![bootstrap[u]] = @ + 1]
    BY Zenon DEF ConsumePairingBootstrap, Offers, Taken
  <1>3. PICK l \in Link : l = bootstrap[u]
    BY Zenon, <1>2 DEF AccountsInv, TypeOK
  <1>4. /\ handed' \in [Link -> Nat] /\ handed'[l] = handed[l] + 1
        /\ \A k \in Link \ {l} : handed'[k] = handed[k]
    BY <1>2, <1>3 DEF AccountsInv, TypeOK
  <1>5. /\ bootstrap' \in [UserId -> Link \cup {NoLink}] /\ bootstrap'[u] = NoLink
        /\ \A v \in UserId \ {u} : bootstrap'[v] = bootstrap[v]
    BY Zenon, <1>2 DEF AccountsInv, TypeOK
  <1>6. \A y \in Request : Sound(y) => Sound(y)'
    BY Zenon, <1>1 DEF Sound, InCooldown
  <1>7. req' \in [Req -> Request] /\ \A x \in Req : Sound(req[x])'
    BY Zenon, <1>1, <1>6, IdleSound, HandlersMove
  <1>8. TypeOK'
    BY Zenon, <1>1, <1>4, <1>5, <1>7 DEF AccountsInv, TypeOK, Moves
  <1>9. ASSUME NEW v \in UserId PROVE SoundRow(v)'
    <2>1. bootstrap'[v] \in {bootstrap[v], NoLink}
      BY Zenon, <1>5
    <2>2. LeavesNothing(v) => LeavesNothing(v)'
      BY Zenon, <1>1, <2>1 DEF LeavesNothing
    <2> QED BY Zenon, <1>1, <2>2 DEF AccountsInv, SoundRow, InCooldown
  <1>10. OneLiveAccount'
    BY Zenon, <1>1 DEF AccountsInv, OneLiveAccount, Live
  <1>11. Links'
    <2>1. handed[l] = 0 /\ l \notin fresh /\ \A v \in UserId \ {u} : bootstrap[v] # l
      BY Zenon, <1>2, <1>3 DEF AccountsInv, Links
    <2>2. ASSUME NEW k \in Link PROVE handed'[k] <= 1 /\ (k \in fresh' => handed'[k] = 0)
      BY <1>1, <1>4, <2>1 DEF AccountsInv, Links
    <2>3. ASSUME NEW v \in UserId, bootstrap'[v] # NoLink
          PROVE  /\ bootstrap'[v] \notin fresh' /\ handed'[bootstrap'[v]] = 0
                 /\ \A w \in UserId : bootstrap'[w] = bootstrap'[v] => v = w
      <3>1. v # u /\ bootstrap'[v] = bootstrap[v] /\ bootstrap[v] \in Link \ {l}
        BY Zenon, <1>5, <2>1, <2>3 DEF AccountsInv, TypeOK
      <3> QED BY <1>1, <1>4, <1>5, <2>3, <3>1 DEF AccountsInv, Links
    <2> QED BY Zenon, <2>2, <2>3 DEF Links
  <1>12. \A v \in UserId : NoMore(v)
    BY Zenon, <1>1, <1>5 DEF NoMore
  <1>13. \A x \in Req : SoundTx(x)'
    BY Zenon, <1>1, <1>12, IdleSound, TxKept
  <1> QED BY Zenon, <1>7, <1>8, <1>9, <1>10, <1>11, <1>13 DEF AccountsInv

\* Time only ends cooldowns.
LEMMA TickKeeps == ASSUME AccountsInv, Tick PROVE AccountsInv'
  <1>1. clock \in Nat /\ clock' = clock + 1 /\ clock' \in 0 .. MaxTime
    BY ValueAssumption DEF AccountsInv, TypeOK, Tick
  <1>2. UNCHANGED <<users, cooldown, sessions, bootstrap, backups, req, tx, fresh, handed, raced>>
    BY Zenon DEF Tick
  <1>3. ASSUME NEW p, ~InCooldown(p) PROVE ~InCooldown(p)'
    <2>1. \A c \in cooldown : c[2] \in Int
      BY DEF AccountsInv, TypeOK
    <2> QED BY <1>1, <1>2, <1>3, <2>1, ValueAssumption DEF InCooldown
  <1>4. TypeOK'
    BY Zenon, <1>1, <1>2 DEF AccountsInv, TypeOK
  <1>5. ASSUME NEW r \in Req PROVE Sound(req[r])'
    <2>1. PICK q : q = req[r] /\ q = req'[r] /\ Sound(q)
      BY Zenon, <1>2 DEF AccountsInv
    <2>2. Sound(q)'
      BY Zenon, <1>2, <1>3, <2>1 DEF Sound
    <2> QED BY Zenon, <2>1, <2>2 DEF Sound, InCooldown
  <1>6. ASSUME NEW u \in UserId PROVE SoundRow(u)'
    <2>1. LeavesNothing(u) => LeavesNothing(u)'
      BY Zenon, <1>2 DEF LeavesNothing
    <2>2. ~InCooldown(users[u].phone) => ~InCooldown(users[u].phone)'
      <3>1. PICK p : p = users[u].phone /\ p = users'[u].phone
        BY Zenon, <1>2
      <3>2. ~InCooldown(p) => ~InCooldown(p)'
        BY Zenon, <1>3
      <3> QED BY Zenon, <3>1, <3>2 DEF InCooldown
    <2> QED BY Zenon, <1>2, <2>1, <2>2 DEF AccountsInv, SoundRow
  <1>7. OneLiveAccount' /\ Links'
    BY Zenon, <1>2 DEF AccountsInv, OneLiveAccount, Live, Links
  <1>8. \A x \in Req : SoundTx(x)'
    BY Zenon, <1>2 DEF AccountsInv, SoundTx, Remembers, Alone, AllDeleted
  <1> QED BY Zenon, <1>4, <1>5, <1>6, <1>7, <1>8 DEF AccountsInv

\* A statement of an erasure shows in no table: its own transaction is what it may
\* disturb.
LEMMA ProceedsKeeps ==
    ASSUME AccountsInv, NEW r \in Req, NEW at \in Open, NEW t \in Tx, Proceeds(r, at, t),
           req[r].op = "delete", req[r].user # NoUser,
           ASSUME req'[r].at = at, req'[r].user = req[r].user, tx'[r] = t, Alone(r) => Alone(r)'
           PROVE  SoundTx(r)'
    PROVE  AccountsInv'
  <1>1. req[r] \in Request /\ Sound(req[r]) /\ req \in [Req -> Request] /\ tx \in [Req -> Tx]
    BY Zenon DEF AccountsInv, TypeOK
  <1>2. UNCHANGED <<users, cooldown, sessions, bootstrap, backups, fresh, handed, raced, clock>>
    BY Zenon DEF Proceeds
  <1>3. PICK q : q = [req[r] EXCEPT !.at = at]
    BY Zenon
  <1>4. q \in Request /\ q.at = at /\ q.op = "delete" /\ q.user = req[r].user
    BY Zenon, <1>1, <1>3 DEF Request, Step
  <1>5. req' = [req EXCEPT ![r] = q] /\ tx' = [tx EXCEPT ![r] = t]
    BY Zenon, <1>1, <1>3 DEF Proceeds
  <1>6. /\ req'[r] = q /\ \A x \in Req \ {r} : req'[x] = req[x]
        /\ tx'[r] = t /\ \A x \in Req \ {r} : tx'[x] = tx[x]
    BY Zenon, <1>1, <1>5
  <1>7. Sound(q)
    BY Zenon, <1>1, <1>4 DEF Sound, Open, Writes
  <1>8. \A y \in Request : Sound(y) => Sound(y)'
    BY Zenon, <1>2 DEF Sound, InCooldown
  <1>9. req' \in [Req -> Request] /\ \A x \in Req : Sound(req[x])'
    BY Zenon, <1>4, <1>5, <1>7, <1>8, HandlersMove
  <1>10. TypeOK'
    BY Zenon, <1>1, <1>2, <1>5, <1>9 DEF AccountsInv, TypeOK
  <1>11. \A u \in UserId : SoundRow(u)'
    BY Zenon, <1>2 DEF AccountsInv, SoundRow, LeavesNothing, InCooldown
  <1>12. OneLiveAccount' /\ Links'
    BY Zenon, <1>2 DEF AccountsInv, OneLiveAccount, Live, Links
  <1>13. ASSUME NEW x \in Req PROVE SoundTx(x)'
    <2>1. CASE x = r
      <3>1. Alone(r) => Alone(r)'
        BY Zenon, <1>4, <1>6 DEF Alone
      <3> QED BY Zenon, <1>4, <1>6, <2>1, <3>1
    <2>2. CASE x # r
      <3>1. req'[x] = req[x] /\ tx'[x] = tx[x] /\ SoundTx(x)
        BY Zenon, <1>6, <2>2 DEF AccountsInv
      <3>2. Alone(x) => Alone(x)'
        <4>1. \A y \in Req : req'[y].op \in Writes => req'[y] = req[y]
          BY Zenon, <1>4, <1>6 DEF Writes
        <4> QED BY Zenon, <3>1, <4>1 DEF Alone
      <3>3. (Remembers(x) => Remembers(x)') /\ (AllDeleted(x) => AllDeleted(x)')
        BY Zenon, <1>2, <3>1 DEF Remembers, AllDeleted
      <3> QED BY Zenon, <3>1, <3>2, <3>3 DEF SoundTx
    <2> QED BY Zenon, <2>1, <2>2
  <1> QED BY Zenon, <1>9, <1>10, <1>11, <1>12, <1>13 DEF AccountsInv

\* The statements before the commit: each records what it deletes.
LEMMA StatementsKeep ==
    ASSUME AccountsInv, NEW r \in Req,
           \/ EraseBegins(r) \/ EraseUpdates(r) \/ EraseLinks(r) \/ EraseBackups(r)
           \/ EraseSessions(r)
    PROVE  AccountsInv'
  <1>1. req[r] \in Request /\ Sound(req[r]) /\ SoundTx(r) /\ tx[r] \in Tx
    BY Zenon DEF AccountsInv, TypeOK
  <1>2. req[r].at \in {"mark", "session", "act"} \cup Open /\ req[r].op = "delete"
    BY Zenon, <1>1
       DEF EraseBegins, EraseUpdates, EraseLinks, EraseBackups, EraseSessions, Open, Sound
  <1>3. PICK u \in UserId : u = req[r].user /\ users[u] \in Row /\ u # NoUser
    BY Zenon, <1>2, InHandFacts, ValueAssumption
  <1>4. UNCHANGED <<users, sessions, bootstrap, backups, raced>>
    BY Zenon DEF EraseBegins, EraseUpdates, EraseLinks, EraseBackups, EraseSessions, Proceeds
  <1>5. CASE EraseBegins(r)
    <2> DEFINE c == <<users[u].phone, clock>>
    <2>1. PICK t : t = [NoTx EXCEPT !.cooled = {c}, !.met = (u \in InHand(r))]
      BY Zenon
    <2>2. c \in (Phone \cup {NoPhone}) \X (0 .. MaxTime) /\ c[1] = users[u].phone
      BY Zenon, <1>3 DEF Row, AccountsInv, TypeOK
    <2>3. t \in Tx /\ t.cooled = {c} /\ t.met = (u \in InHand(r))
      <3>1. (u \in InHand(r)) \in BOOLEAN
        OBVIOUS
      <3> QED BY Zenon, <2>1, <2>2, <3>1 DEF NoTx, Tx
    <2>4. t.met \/ Alone(r)
      BY Zenon, <1>3, <2>3 DEF InHand, Alone
    <2>5. Proceeds(r, "update", t)
      BY Zenon, <1>3, <1>5, <2>1 DEF EraseBegins
    <2>6. ASSUME req'[r].at = "update", req'[r].user = req[r].user, tx'[r] = t, Alone(r) => Alone(r)'
          PROVE  SoundTx(r)'
      <3>1. Remembers(r)'
        BY Zenon, <1>3, <1>4, <2>2, <2>3, <2>6 DEF Remembers
      <3> QED BY Zenon, <2>4, <2>6, <3>1 DEF SoundTx, AllDeleted
    <2> QED BY Zenon, <1>2, <1>3, <2>3, <2>5, <2>6, ProceedsKeeps DEF Open
  <1>6. ASSUME NEW at \in Open, NEW t \in Tx, req[r].at \in Open, Proceeds(r, at, t),
               t.cooled = tx[r].cooled, t.met = tx[r].met,
               req'[r].at = at /\ req'[r].user = u /\ tx'[r] = t /\ AllDeleted(r) => AllDeleted(r)'
        PROVE  AccountsInv'
    <2>1. ASSUME req'[r].at = at, req'[r].user = req[r].user, tx'[r] = t, Alone(r) => Alone(r)'
          PROVE  SoundTx(r)'
      <3>1. Remembers(r) => Remembers(r)'
        BY Zenon, <1>4, <1>6, <2>1 DEF Remembers
      <3> QED BY Zenon, <1>1, <1>3, <1>6, <2>1, <3>1 DEF SoundTx
    <2> QED BY Zenon, <1>2, <1>3, <1>6, <2>1, ProceedsKeeps
  <1>7. CASE EraseUpdates(r)
    <2>1. req'[r].at = "links" => AllDeleted(r)'
      BY Zenon DEF AllDeleted
    <2> QED BY Zenon, <1>1, <1>6, <1>7, <2>1 DEF EraseUpdates, Open
  <1>8. CASE EraseLinks(r)
    <2>1. PICK t : t = [tx[r] EXCEPT !.links = {v \in {u} : bootstrap[v] # NoLink}]
      BY Zenon
    <2>2. /\ t \in Tx /\ t.cooled = tx[r].cooled /\ t.met = tx[r].met
          /\ t.links = {v \in {u} : bootstrap[v] # NoLink}
      BY Zenon, <1>1, <2>1 DEF Tx
    <2>3. req'[r].at = "backups" /\ req'[r].user = u /\ tx'[r] = t => AllDeleted(r)'
      BY Zenon, <1>4, <2>2 DEF AllDeleted
    <2>4. Proceeds(r, "backups", t) /\ req[r].at = "links"
      BY Zenon, <1>3, <1>8, <2>1 DEF EraseLinks
    <2> QED BY Zenon, <1>6, <2>2, <2>3, <2>4 DEF Open
  <1>9. CASE EraseBackups(r)
    <2>1. PICK t : t = [tx[r] EXCEPT !.backups = {u} \cap backups]
      BY Zenon
    <2>2. /\ t \in Tx /\ t.cooled = tx[r].cooled /\ t.met = tx[r].met
          /\ t.links = tx[r].links /\ t.backups = {u} \cap backups
      BY Zenon, <1>1, <2>1 DEF Tx
    <2>3. Proceeds(r, "sessions", t) /\ req[r].at = "backups"
      BY Zenon, <1>3, <1>9, <2>1 DEF EraseBackups
    <2>4. req'[r].at = "sessions" /\ req'[r].user = u /\ tx'[r] = t /\ AllDeleted(r) => AllDeleted(r)'
      BY Zenon, <1>3, <1>4, <2>2, <2>3 DEF AllDeleted
    <2> QED BY Zenon, <1>6, <2>2, <2>3, <2>4 DEF Open
  <1>10. CASE EraseSessions(r)
    <2>1. PICK t : t = [tx[r] EXCEPT !.sessions = {s \in sessions : s[1] = u}]
      BY Zenon
    <2>2. /\ t \in Tx /\ t.cooled = tx[r].cooled /\ t.met = tx[r].met
          /\ t.links = tx[r].links /\ t.backups = tx[r].backups
          /\ t.sessions = {s \in sessions : s[1] = u}
      BY Zenon, <1>1, <2>1 DEF Tx, AccountsInv, TypeOK
    <2>3. Proceeds(r, "commit", t) /\ req[r].at = "sessions"
      BY Zenon, <1>3, <1>10, <2>1 DEF EraseSessions
    <2>4. req'[r].at = "commit" /\ req'[r].user = u /\ tx'[r] = t /\ AllDeleted(r) => AllDeleted(r)'
      BY Zenon, <1>3, <1>4, <2>2, <2>3 DEF AllDeleted
    <2> QED BY Zenon, <1>6, <2>2, <2>3, <2>4 DEF Open
  <1> QED BY Zenon, <1>5, <1>7, <1>8, <1>9, <1>10

\* An erasure that commits leaves nothing of its account, unless it was met, and
\* starts the cooldown of a number that no other account has.
LEMMA CommitKeeps == ASSUME AccountsInv, NEW r \in Req, EraseCommits(r) PROVE AccountsInv'
  <1>1. /\ req[r].at = "commit" /\ req' = [req EXCEPT ![r] = Idle]
        /\ tx' = [tx EXCEPT ![r] = NoTx]
    BY Zenon DEF EraseCommits
  <1> req[r].at \in Open
    BY Zenon, <1>1 DEF Open
  <1>2. PICK u \in UserId : u = req[r].user /\ users[u] \in Row
    BY Zenon, InHandFacts
  <1>3. Remembers(r) /\ (tx[r].met \/ (Alone(r) /\ AllDeleted(r))) /\ tx[r] \in Tx
    BY Zenon DEF AccountsInv, TypeOK, SoundTx
  <1>4. /\ cooldown' = cooldown \cup tx[r].cooled
        /\ users' = [users EXCEPT ![u] = Scrubbed(users[u])]
        /\ bootstrap' = [v \in UserId |-> IF v \in tx[r].links THEN NoLink ELSE bootstrap[v]]
        /\ backups' = backups \ tx[r].backups
        /\ sessions' = sessions \ tx[r].sessions
        /\ raced' = raced \cup (IF tx[r].met THEN {u} ELSE {}) \cup
                     ({c[1] : c \in tx[r].cooled} \cap Cleared(r))
        /\ UNCHANGED <<fresh, handed, clock>>
    BY Zenon, <1>2 DEF EraseCommits, AccountsInv, TypeOK
  <1>5. PICK new \in Row : /\ users'[u] = new /\ new # NoRow /\ new.deleted /\ new.phone = NoPhone
                           /\ ~new.searchable /\ ~new.verified
    <2>1. /\ Scrubbed(users[u]) \in Row /\ Scrubbed(users[u]).deleted
          /\ Scrubbed(users[u]).phone = NoPhone
          /\ ~Scrubbed(users[u]).searchable /\ ~Scrubbed(users[u]).verified
      BY Zenon, <1>2 DEF Scrubbed, Row
    <2>2. Scrubbed(users[u]) # NoRow
      BY Zenon, <2>1, ValueAssumption DEF Row
    <2> QED BY Zenon, <1>4, <2>1, <2>2 DEF AccountsInv, TypeOK
  <1>6. /\ users' \in [UserId -> Row \cup {NoRow}]
        /\ \A v \in UserId \ {u} : users'[v] = users[v]
    BY Zenon, <1>4, <1>5 DEF AccountsInv, TypeOK
  <1>7. /\ req' \in [Req -> Request] /\ req'[r] = Idle /\ \A x \in Req \ {r} : req'[x] = req[x]
        /\ tx' \in [Req -> Tx] /\ \A x \in Req \ {r} : tx'[x] = tx[x]
    <2>1. NoTx \in Tx
      BY Zenon DEF NoTx, Tx
    <2> QED BY Zenon, <1>1, <2>1, IdleSound DEF AccountsInv, TypeOK
  <1>8. /\ raced \subseteq raced'
        /\ ~tx[r].met => \A x \in Req \ {r} : req[x].op \in Writes => req[x].user # u
        /\ tx[r].met => u \in raced'
    BY Zenon, <1>2, <1>3, <1>4 DEF Alone
  <1>9. ASSUME NEW x \in Req \ {r}, NEW c \in tx[r].cooled,
               \/ req[x].at = "create" /\ req[x].phone = c[1]
               \/ \E d \in tx[x].cooled : d[1] = c[1]
        PROVE  c[1] \in raced'
    <2>1. c[1] \in Phone \cup {NoPhone}
      BY Zenon, <1>3 DEF Tx
    <2> QED BY Zenon, <1>4, <1>9, <2>1 DEF Cleared
  <1>10. ASSUME NEW n, \A c \in tx[r].cooled : c[1] # n, ~InCooldown(n) PROVE ~InCooldown(n)'
    BY Zenon, <1>4, <1>10 DEF InCooldown
  <1>11. ASSUME NEW x \in Req PROVE Sound(req[x])'
    <2>1. CASE x = r
      BY Zenon, <1>7, <2>1, IdleSound DEF Sound, InCooldown
    <2>2. CASE x # r
      <3>1. PICK q \in Request : q = req[x] /\ q = req'[x] /\ Sound(q)
        BY Zenon, <1>7, <2>2 DEF AccountsInv, TypeOK
      <3>2. q.op \in Writes /\ q.user = u => u \in raced'
        BY Zenon, <1>8, <2>2, <3>1
      <3>3. q.at = "create" /\ q.phone \notin raced' =>
              q.phone \notin raced /\ \A c \in tx[r].cooled : c[1] # q.phone
        BY Zenon, <1>8, <1>9, <2>2, <3>1
      <3>4. q.user # NoUser /\ q.user # u => users'[q.user] = users[q.user]
        BY Zenon, <1>6 DEF Request
      <3>5. Sound(q)'
        BY Zenon, <1>5, <1>8, <1>10, <3>1, <3>2, <3>3, <3>4 DEF Sound
      <3> QED BY Zenon, <3>1, <3>5 DEF Sound, InCooldown
    <2> QED BY Zenon, <2>1, <2>2
  <1>12. /\ bootstrap' \in [UserId -> Link \cup {NoLink}]
         /\ \A v \in UserId : bootstrap'[v] \in {bootstrap[v], NoLink}
         /\ u \in tx[r].links => bootstrap'[u] = NoLink
    BY Zenon, <1>4 DEF AccountsInv, TypeOK
  <1>13. TypeOK'
    <2>1. raced' \subseteq UserId \cup Phone \cup {NoPhone}
      BY Zenon, <1>4 DEF AccountsInv, TypeOK, Cleared
    <2>2. cooldown' \subseteq (Phone \cup {NoPhone}) \X (0 .. MaxTime)
      BY Zenon, <1>3, <1>4 DEF AccountsInv, TypeOK, Tx
    <2> QED BY Zenon, <1>4, <1>6, <1>7, <1>12, <2>1, <2>2 DEF AccountsInv, TypeOK
  <1>14. SoundRow(u) /\ users[u] # NoRow
    BY Zenon, <1>2, ValueAssumption DEF AccountsInv, Row
  <1>15. ASSUME NEW v \in UserId PROVE SoundRow(v)'
    <2>1. CASE v = u
      <3>1. ~tx[r].met => LeavesNothing(u)'
        BY Zenon, <1>1, <1>2, <1>3, <1>4, <1>5, <1>12 DEF LeavesNothing, AllDeleted
      <3> QED BY Zenon, <1>5, <1>8, <2>1, <3>1 DEF SoundRow
    <2>2. CASE v # u
      <3>1. /\ users'[v] = users[v] /\ bootstrap'[v] \in {bootstrap[v], NoLink} /\ SoundRow(v)
        BY Zenon, <1>6, <1>12, <2>2 DEF AccountsInv
      <3>2. LeavesNothing(v) => LeavesNothing(v)'
        BY Zenon, <1>4, <3>1 DEF LeavesNothing
      <3>3. CASE users[v] # NoRow /\ ~users[v].deleted /\ users[v].phone \notin raced
        <4>1. PICK n \in Phone : n = users[v].phone /\ n = users'[v].phone /\ ~InCooldown(n)
          BY Zenon, <3>1, <3>3 DEF SoundRow
        <4>2. users[u].phone # n
          BY Zenon, <1>14, <2>2, <3>3, <4>1, ValueAssumption
             DEF SoundRow, AccountsInv, OneLiveAccount, Live
        <4>3. \A c \in tx[r].cooled : c[1] # n
          BY Zenon, <1>2, <1>3, <3>3, <4>1, <4>2 DEF Remembers
        <4>4. ~InCooldown(n)'
          BY Zenon, <1>10, <4>1, <4>3
        <4> QED BY Zenon, <3>1, <3>3, <4>1, <4>4 DEF SoundRow, InCooldown
      <3> QED BY Zenon, <1>8, <3>1, <3>2, <3>3 DEF SoundRow
    <2> QED BY Zenon, <2>1, <2>2
  <1>16. OneLiveAccount'
    BY <1>5, <1>6 DEF AccountsInv, OneLiveAccount, Live
  <1>17. Links'
    <2>1. \A v \in UserId : bootstrap'[v] # NoLink => bootstrap'[v] = bootstrap[v]
      BY Zenon, <1>12
    <2> QED BY Zenon, <1>4, <2>1 DEF AccountsInv, Links
  <1>18. ASSUME NEW x \in Req PROVE SoundTx(x)'
    <2>1. CASE x = r
      BY Zenon, <1>7, <2>1, IdleSound DEF SoundTx
    <2>2. CASE x # r /\ req[x].at \in Open
      <3>1. req'[x] = req[x] /\ tx'[x] = tx[x] /\ SoundTx(x)
        BY Zenon, <1>7, <2>2 DEF AccountsInv
      <3>2. PICK v \in UserId : v = req[x].user
        BY Zenon, <2>2, InHandFacts
      <3>3. Remembers(x)'
        <4>1. CASE v # u
          <5>1. users'[v] = users[v]
            BY Zenon, <1>6, <4>1
          <5> QED BY Zenon, <1>8, <2>2, <3>1, <3>2, <5>1 DEF SoundTx, Remembers
        <4>2. CASE v = u
          <5>1. ASSUME NEW d \in tx[x].cooled PROVE d[1] = NoPhone \/ d[1] \in raced'
            <6>1. CASE users[u].deleted
              BY Zenon, <1>8, <1>14, <2>2, <3>1, <3>2, <4>2, <6>1 DEF SoundTx, Remembers, SoundRow
            <6>2. CASE ~users[u].deleted
              <7>1. d[1] = users[u].phone
                BY Zenon, <2>2, <3>1, <3>2, <4>2, <6>2 DEF SoundTx, Remembers
              <7>2. PICK c \in tx[r].cooled : c[1] = users[u].phone
                BY Zenon, <1>2, <1>3, <6>2 DEF Remembers
              <7> QED BY Zenon, <1>9, <2>2, <7>1, <7>2
            <6> QED BY Zenon, <6>1, <6>2
          <5> QED BY Zenon, <1>5, <2>2, <3>1, <3>2, <4>2, <5>1 DEF SoundTx, Remembers
        <4> QED BY Zenon, <4>1, <4>2
      <3>4. Alone(x) => Alone(x)'
        BY Zenon, <1>7, <3>1, IdleSound DEF Alone
      <3>5. AllDeleted(x) => AllDeleted(x)'
        BY Zenon, <1>4, <1>12, <3>1, <3>2 DEF AllDeleted
      <3> QED BY Zenon, <2>2, <3>1, <3>3, <3>4, <3>5 DEF SoundTx
    <2>3. CASE x # r /\ req[x].at \notin Open
      BY Zenon, <1>7, <2>3 DEF SoundTx
    <2> QED BY Zenon, <2>1, <2>2, <2>3
  <1> QED BY Zenon, <1>11, <1>13, <1>15, <1>16, <1>17, <1>18 DEF AccountsInv

-----------------------------------------------------------------------------
\* Every step keeps the invariant.
LEMMA AccountsStep == AccountsInv /\ [Next]_vars => AccountsInv'
  <1> SUFFICES ASSUME AccountsInv, [Next]_vars PROVE AccountsInv'
    BY Zenon
  <1>1. CASE UNCHANGED vars
    <2>1. TypeOK' /\ OneLiveAccount' /\ Links'
      BY Zenon, <1>1 DEF vars, AccountsInv, TypeOK, OneLiveAccount, Live, Links
    <2>2. \A r \in Req : Sound(req[r])'
      BY Zenon, <1>1 DEF vars, AccountsInv, Sound, InCooldown
    <2>3. \A r \in Req : SoundTx(r)'
      BY Zenon, <1>1 DEF vars, AccountsInv, SoundTx, Remembers, Alone, AllDeleted
    <2>4. \A u \in UserId : SoundRow(u)'
      BY Zenon, <1>1 DEF vars, AccountsInv, SoundRow, LeavesNothing, InCooldown
    <2> QED BY Zenon, <2>1, <2>2, <2>3, <2>4 DEF AccountsInv
  <1> QED BY Zenon, <1>1, HandlersKeep, FlagsKeep, FindOrCreateKeeps, StoresKeep, ConsumeKeeps,
             StatementsKeep, CommitKeeps, TickKeeps
             DEF Next, EraseUser

\* The invariant holds throughout.
LEMMA AccountsAlways == Spec => []AccountsInv
  BY AccountsInit, AccountsStep, PTL DEF Spec

\* Every variable keeps its type.
THEOREM AccountsTyped == Spec => []TypeOK
  <1>1. AccountsInv => TypeOK
    BY Zenon DEF AccountsInv
  <1> QED BY <1>1, AccountsAlways, PTL

\* A number has at most one live account, however its signups, verifications and
\* erasures interleave.
THEOREM OneAccountPerNumber == Spec => []OneLiveAccount
  <1>1. AccountsInv => OneLiveAccount
    BY Zenon DEF AccountsInv
  <1> QED BY <1>1, AccountsAlways, PTL

\* A number in cooldown has no account, unless a handler had passed the check when
\* the erasure committed, or a second erasure of the account was under way.
THEOREM CooldownIsKept == Spec => []NoAccountInCooldown
  <1>1. AccountsInv => NoAccountInCooldown
    BY Zenon DEF AccountsInv, SoundRow, NoAccountInCooldown, Live
  <1> QED BY <1>1, AccountsAlways, PTL

\* What erase_user removes stays removed, unless another handler had the account to
\* write for while the transaction was open.
THEOREM ErasureIsComplete == Spec => []ErasedLeavesNothing
  <1>1. AccountsInv => ErasedLeavesNothing
    BY Zenon DEF AccountsInv, SoundRow, ErasedLeavesNothing
  <1> QED BY <1>1, AccountsAlways, PTL

\* A contact link reaches at most one requester.
THEOREM LinksHandedOnce == Spec => []LinkHandedOnce
  <1>1. AccountsInv => LinkHandedOnce
    BY Zenon DEF AccountsInv, Links, LinkHandedOnce
  <1> QED BY <1>1, AccountsAlways, PTL

-----------------------------------------------------------------------------
(* Recovery: the inductive invariant *)

\* What a backup holds, and a key wrapped with a secret.
Payload == [identity : Nat, contact : BOOLEAN]
Wrap == [secret : Nat, bk : Nat]

\* A bundle both of whose wraps hold the key of its blob.
Whole == {b \in [blob : [bk : Nat, payload : Payload], w_pin : Wrap, w_phrase : Wrap] :
            b.w_pin.bk = b.blob.bk /\ b.w_phrase.bk = b.blob.bk}

\* The store, a screen's or the uploader's coroutine, an upload, the screens.
Disk == [bk : Nat, bundle : Whole \cup {NoBundle}, identity : Nat,
         contact : {None, "stub", "paired"}]
Coroutine == [pc : {"idle", "delay", "holds", "waits"}, bundle : Whole \cup {NoBundle}, at : Nat]
Upload == [by : {"screen", "uploader", None}, bundle : Whole, at : Nat, done : BOOLEAN]
Stage == Onboarding \cup {"Main", "VerifyPin", "NewPin", "RetryUpload", "Done"}

\* Every variable of the device has its type.
DeviceTyped ==
    /\ disk \in Disk
    /\ backend \in BOOLEAN
    /\ screen \in Stage
    /\ fetched \in Whole \cup {NoBundle}
    /\ task \in [{"screen", "uploader"} -> Coroutine]
    /\ requests \subseteq Upload
    /\ backup \in Whole \cup {NoBundle}
    /\ changes \in Nat /\ faults \in Nat /\ deaths \in Nat
    /\ phrase \in Nat /\ enrolledAt \in Nat
    /\ excused \in BOOLEAN /\ reenrolled \in BOOLEAN
    /\ adopted \in BOOLEAN /\ late \in BOOLEAN

\* A screen waits for its upload; a task has read the bundle it uploads.
Busy == task["screen"].pc # "idle"
Uploading(k) == task[k].pc \in {"holds", "waits"}

\* The store holds the bundle of an enrollment that stands.
Enrolled == screen \notin {"SetPin", "Lost", "RestoreNewPin"} \/ Busy

\* What the screens, the tasks and the uploads may be doing together.
Staged ==
    /\ Enrolled => disk.bundle \in Whole /\ disk.bk = disk.bundle.blob.bk
    /\ task["screen"].pc # "delay"
    /\ Busy => screen \in {"SetPin", "NewPin", "RetryUpload", "RestoreNewPin"}
    /\ task["uploader"].pc # "idle" => screen \notin Onboarding
    /\ \A k \in {"screen", "uploader"} :
        Uploading(k) => task[k].bundle \in Whole /\ task[k].at <= changes
    /\ Busy => task["screen"].at = changes
    /\ \A r \in requests :
        /\ r.at <= changes
        /\ r.by # None => /\ task[r.by].pc = "waits"
                          /\ r.bundle = task[r.by].bundle /\ r.at = task[r.by].at
    /\ screen = "RestoreNewPin" => fetched \in Whole /\ fetched.w_phrase.secret = phrase
    /\ enrolledAt <= changes
    /\ screen = "SetPin" => enrolledAt = changes
    /\ phrase = IF screen = "SetPin" THEN 0 ELSE enrolledAt

\* The directory took the screen's upload.
UploadTaken == \E r \in requests : r.by = "screen" /\ r.done

\* Which words open a bundle: the ones the last enrollment drew.
Worded ==
    /\ screen = "SetPin" /\ Busy => disk.bundle.w_phrase.secret = enrolledAt
    /\ ~adopted =>
        /\ Enrolled => disk.bundle.w_phrase.secret = enrolledAt
        /\ \A k \in {"screen", "uploader"} :
            Uploading(k) => task[k].bundle.w_phrase.secret = enrolledAt
        /\ \A r \in requests : r.at < enrolledAt \/ r.bundle.w_phrase.secret = enrolledAt
    /\ ~reenrolled => (screen # "SetPin" \/ UploadTaken =>
                          backup \in Whole /\ backup.w_phrase.secret = enrolledAt)

\* The screen claims nothing is left to do about the PIN.
Settled == screen \notin Telling /\ ~Busy

\* Which PIN opens a bundle: the device's, if no change came after.
Pinned ==
    /\ Enrolled =>
        /\ \A k \in {"screen", "uploader"} : Uploading(k) /\ task[k].at = changes =>
            task[k].bundle.w_pin.secret = disk.bundle.w_pin.secret
        /\ \A r \in requests : r.at = changes =>
            r.bundle.w_pin.secret = disk.bundle.w_pin.secret
    /\ ~excused /\ (Settled \/ UploadTaken) =>
        backup.w_pin.secret = disk.bundle.w_pin.secret

\* Payload p has what payload q has.
Covers(p, q) == (q.contact => p.contact) /\ q.identity \in {0, p.identity}

\* What the uploader sends is all there is.
Complete(p) == p = backup_payload(disk)

\* While no upload came late: what a device may upload covers what the row has.
Remembered ==
    /\ Enrolled => Covers(backup_payload(disk), disk.bundle.blob.payload)
    /\ Busy => Covers(disk.bundle.blob.payload, task["screen"].bundle.blob.payload)
    /\ task["uploader"].pc # "idle" =>
        /\ disk.contact # None /\ disk.identity # 0
        /\ screen # "Main" \/ Uploading("uploader") => Complete(disk.bundle.blob.payload)
        /\ Uploading("uploader") => Complete(task["uploader"].bundle.blob.payload)
        /\ Busy => Complete(task["screen"].bundle.blob.payload)
    /\ screen = "RestoreNewPin" /\ Busy =>
        Covers(fetched.blob.payload, task["screen"].bundle.blob.payload)
    /\ ~late /\ backup # NoBundle =>
        /\ Enrolled => Covers(disk.bundle.blob.payload, backup.blob.payload)
        /\ Busy => Covers(task["screen"].bundle.blob.payload, backup.blob.payload)
        /\ screen = "SetPin" => Covers(backup_payload(disk), backup.blob.payload)
        /\ screen = "RestoreNewPin" => Covers(fetched.blob.payload, backup.blob.payload)

\* The inductive invariant.
RecoveryInv == DeviceTyped /\ Staged /\ Worded /\ Pinned /\ Remembered

\* A change has a number of its own.
LEMMA ChangesCount == \A n \in Nat : n + 1 # n
  OBVIOUS

\* A payload covers itself.
LEMMA CoversSelf == ASSUME NEW p PROVE Covers(p, p)
  BY Zenon DEF Covers

\* What covers a covering payload covers the payload.
LEMMA CoversChain ==
    ASSUME NEW p, NEW q, NEW r, Covers(p, q), Covers(q, r) PROVE Covers(p, r)
  BY Zenon DEF Covers

\* An upload nobody awaits any more is one that was awaited, under no name.
LEMMA AbandonedAre ==
    ASSUME DeviceTyped, NEW K, NEW q \in Abandoned(K)
    PROVE  /\ q \in Upload
           /\ \/ q \in requests /\ q.by \notin K
              \/ /\ q.by = None /\ ~q.done
                 /\ \E r \in requests : r.by \in K /\ r.bundle = q.bundle /\ r.at = q.at
  <1>1. requests \subseteq Upload
    BY Zenon DEF DeviceTyped
  <1>2. CASE q \in requests /\ q.by \notin K
    BY Zenon, <1>1, <1>2
  <1>3. CASE \E r \in requests : r.by \in K /\ ~r.done /\ q = [r EXCEPT !.by = None]
    <2>1. PICK r \in requests : r.by \in K /\ ~r.done /\ q = [r EXCEPT !.by = None]
      BY Zenon, <1>3
    <2>2. r \in Upload
      BY Zenon, <1>1
    <2>3. q.by = None /\ q.done = r.done /\ q.bundle = r.bundle /\ q.at = r.at /\ q \in Upload
      BY Zenon, <2>1, <2>2 DEF Upload
    <2> QED
      BY Zenon, <2>1, <2>3
  <1> QED
    BY Zenon, <1>2, <1>3 DEF Abandoned

\* The uploads, once the tasks in K await none.
Awaited(K) ==
    \A q \in requests' :
        /\ q \in Upload
        /\ \/ q \in requests /\ q.by \notin K
           \/ /\ q.by = None /\ ~q.done
              /\ \E r \in requests : r.by \in K /\ r.bundle = q.bundle /\ r.at = q.at

\* When callers stop waiting, their uploads stay on the way, under no name.
LEMMA AbandonedAwaited ==
    ASSUME DeviceTyped, NEW K, requests' = Abandoned(K) PROVE Awaited(K)
  <1> SUFFICES ASSUME NEW q \in Abandoned(K)
               PROVE  /\ q \in Upload
                      /\ \/ q \in requests /\ q.by \notin K
                         \/ /\ q.by = None /\ ~q.done
                            /\ \E r \in requests : r.by \in K /\ r.bundle = q.bundle /\ r.at = q.at
    BY Zenon DEF Awaited
  <1> QED
    BY AbandonedAre, Zenon

\* A task that never awaited anything.
LEMMA NoTaskTyped == NoTask \in Coroutine
  BY Zenon DEF NoTask, Coroutine

-----------------------------------------------------------------------------
(* Recovery: the screens that change no bundle, and the contacts *)

\* The user turns a page.
LEMMA TurnsKeeps ==
    ASSUME RecoveryInv, screen \in {"ShowPhrase", "VerifyPin"},
           screen' = IF screen = "ShowPhrase" THEN "Main" ELSE "NewPin",
           UNCHANGED <<disk, backend, fetched, task, requests, backup, changes, faults, deaths,
                       phrase, enrolledAt, excused, reenrolled, adopted, late>>
    PROVE  RecoveryInv'
  <1>1. DeviceTyped'
    BY Zenon DEF RecoveryInv, DeviceTyped, Stage
  <1>2. Staged'
    BY Zenon DEF RecoveryInv, Staged, Enrolled, Busy, Uploading, Onboarding
  <1>3. Worded'
    BY Zenon DEF RecoveryInv, Worded, Enrolled, Uploading
  <1>4. Pinned'
    BY Zenon DEF RecoveryInv, Pinned, Enrolled, Busy, Uploading, UploadTaken, Settled, Telling
  <1>5. Remembered'
    BY Zenon DEF RecoveryInv, Remembered, Enrolled, Busy, Uploading, Complete
  <1> QED
    BY Zenon, <1>1, <1>2, <1>3, <1>4, <1>5 DEF RecoveryInv

\* The words are noted.
LEMMA PhraseNotedKeeps == ASSUME RecoveryInv, PhraseNoted PROVE RecoveryInv'
  BY Zenon, TurnsKeeps DEF PhraseNoted, counters, userHistory

\* The current PIN, or the words, are shown to be known.
LEMMA VerifyKeeps == ASSUME RecoveryInv, NEW secret, Verify(secret) PROVE RecoveryInv'
  BY Zenon, TurnsKeeps DEF Verify, counters, userHistory

\* The words, without a PIN, lead to the choice of a new one.
LEMMA RestoreByPhraseKeeps == ASSUME RecoveryInv, RestoreByPhrase PROVE RecoveryInv'
  <1>1. /\ screen = "Lost" /\ backup # NoBundle /\ backup.w_phrase.secret = phrase
        /\ fetched' = backup /\ screen' = "RestoreNewPin"
        /\ UNCHANGED <<disk, backend, task, requests, backup, changes, faults, deaths, phrase,
                       enrolledAt, excused, reenrolled, adopted, late>>
    BY Zenon DEF RestoreByPhrase, counters, userHistory
  <1>2. DeviceTyped /\ backup \in Whole
    BY Zenon, <1>1 DEF RecoveryInv, DeviceTyped
  <1>3. ~Busy /\ task["uploader"].pc = "idle"
    BY Zenon, <1>1 DEF RecoveryInv, Staged, Onboarding
  <1>4. ~Busy' /\ ~Enrolled' /\ ~Settled' /\ \A k \in {"screen", "uploader"} : ~Uploading(k)'
    BY Zenon, <1>1, <1>3 DEF Busy, Uploading, Enrolled, Settled, Telling
  <1>5. \A r \in requests : r.by = None
    BY Zenon, <1>3 DEF RecoveryInv, Staged, DeviceTyped, Upload, Busy
  <1>6. ~UploadTaken'
    BY Zenon, <1>1, <1>5 DEF UploadTaken, None
  <1>7. DeviceTyped'
    BY Zenon, <1>1, <1>2 DEF DeviceTyped, Stage, Onboarding
  <1>8. Staged'
    BY Zenon, <1>1, <1>2, <1>3, <1>4 DEF RecoveryInv, Staged
  <1>9. Worded'
    BY Zenon, <1>1, <1>4 DEF RecoveryInv, Worded
  <1>10. Pinned'
    BY Zenon, <1>4, <1>6 DEF Pinned
  <1>11. Remembered'
    BY Zenon, <1>1, <1>3, <1>4, CoversSelf DEF Remembered
  <1> QED
    BY Zenon, <1>7, <1>8, <1>9, <1>10, <1>11 DEF RecoveryInv

\* The store's identity or contact is filled in, its bundle stays.
LEMMA FilledInKeeps ==
    ASSUME RecoveryInv, disk' \in Disk, backend' \in BOOLEAN,
           disk'.bundle = disk.bundle, disk'.bk = disk.bk,
           disk.identity \in {0, disk'.identity}, disk.contact # None => disk'.contact # None,
           UNCHANGED <<screen, fetched, task, requests, backup, changes, faults, deaths,
                       phrase, enrolledAt, excused, reenrolled, adopted, late>>
    PROVE  RecoveryInv'
  <1>1. DeviceTyped'
    BY Zenon DEF RecoveryInv, DeviceTyped
  <1>2. Staged'
    BY Zenon DEF RecoveryInv, Staged, Enrolled, Busy, Uploading
  <1>3. Worded'
    BY Zenon DEF RecoveryInv, Worded, Enrolled, Busy, Uploading, UploadTaken
  <1>4. Pinned'
    BY Zenon DEF RecoveryInv, Pinned, Enrolled, Busy, Uploading, UploadTaken, Settled
  <1>5. Covers(backup_payload(disk)', backup_payload(disk))
    BY Zenon DEF Covers, backup_payload, strip_snapshot_to_identity
  <1>6. disk.contact # None /\ disk.identity # 0 => backup_payload(disk)' = backup_payload(disk)
    BY Zenon DEF backup_payload, strip_snapshot_to_identity
  <1>7. Remembered'
    BY <1>5, <1>6, CoversChain DEF RecoveryInv, Remembered, Enrolled, Busy, Uploading, Complete
  <1> QED
    BY Zenon, <1>1, <1>2, <1>3, <1>4, <1>7 DEF RecoveryInv

\* The engine connects for the first time.
LEMMA ConnectKeeps == ASSUME RecoveryInv, Connect PROVE RecoveryInv'
  <1>1. disk \in Disk /\ deaths + 1 \in Nat
    BY DEF RecoveryInv, DeviceTyped
  <1>2. PICK i \in Nat : disk' = [disk EXCEPT !.identity = i] /\ disk.identity \in {0, i}
    BY Zenon, <1>1 DEF Connect, Connected, Disk
  <1>3. /\ disk' \in Disk /\ disk'.bundle = disk.bundle /\ disk'.bk = disk.bk
        /\ disk'.identity = i /\ disk'.contact = disk.contact
    BY Zenon, <1>1, <1>2 DEF Disk
  <1> QED
    BY Zenon, <1>2, <1>3, FilledInKeeps DEF Connect, counters, userHistory

\* A peer pairs with the device.
LEMMA PeerPairsKeeps == ASSUME RecoveryInv, PeerPairs PROVE RecoveryInv'
  <1>1. disk \in Disk /\ backend \in BOOLEAN
    BY Zenon DEF RecoveryInv, DeviceTyped
  <1>2. disk' = [disk EXCEPT !.contact = "paired"] /\ backend' = backend
    BY Zenon DEF PeerPairs
  <1>3. /\ disk' \in Disk /\ disk'.bundle = disk.bundle /\ disk'.bk = disk.bk
        /\ disk'.identity = disk.identity /\ disk'.contact # None
    BY Zenon, <1>1, <1>2 DEF Disk, None
  <1> QED
    BY Zenon, <1>3, FilledInKeeps DEF PeerPairs, counters, userHistory

\* pairWithLink: the contact is there, and the uploader's delay starts.
LEMMA PairWithKeeps == ASSUME RecoveryInv, PairWith PROVE RecoveryInv'
  <1>1. /\ screen = "Main" /\ backend' = TRUE
        /\ disk' = [Connected(disk) EXCEPT !.contact = "paired"]
        /\ task' = [task EXCEPT !["uploader"] = [NoTask EXCEPT !.pc = "delay"]]
        /\ requests' = Abandoned({"uploader"})
        /\ UNCHANGED <<screen, fetched, backup, changes, faults, deaths, phrase,
                       enrolledAt, excused, reenrolled, adopted, late>>
    BY Zenon DEF PairWith, schedule, counters, userHistory
  <1>2. DeviceTyped /\ disk \in Disk /\ deaths \in Nat
    BY Zenon DEF RecoveryInv, DeviceTyped
  <1>3. PICK i \in Nat : /\ disk' = [disk EXCEPT !.identity = i, !.contact = "paired"]
                         /\ disk.identity \in {0, i} /\ i # 0
    <2>1. deaths + 1 \in Nat /\ deaths + 1 # 0 /\ disk.identity \in Nat
      BY <1>2 DEF Disk
    <2> QED
      BY Zenon, <1>1, <2>1 DEF Connected
  <1>4. /\ disk' \in Disk /\ disk'.bundle = disk.bundle /\ disk'.bk = disk.bk
        /\ disk'.identity = i /\ disk'.contact = "paired"
    BY Zenon, <1>2, <1>3 DEF Disk
  <1>5. /\ task'["screen"] = task["screen"] /\ task'["uploader"].pc = "delay"
        /\ task' \in [{"screen", "uploader"} -> Coroutine]
    BY Zenon, <1>1, <1>2 DEF DeviceTyped, NoTask, Coroutine
  <1>6. Awaited({"uploader"})
    BY Zenon, <1>1, <1>2, AbandonedAwaited
  <1>7. Enrolled /\ Enrolled' /\ ~Busy /\ ~Busy' /\ \A k \in {"screen", "uploader"} : ~Uploading(k)'
    BY Zenon, <1>1, <1>5 DEF RecoveryInv, Staged, Enrolled, Busy, Uploading
  <1>8. \A q \in requests' : q.by = None
    BY Zenon, <1>6, <1>7 DEF RecoveryInv, Staged, Upload, Busy, Awaited
  <1>9. \A q \in requests' : \E r \in requests : r.bundle = q.bundle /\ r.at = q.at
    BY Zenon, <1>6 DEF Awaited
  <1>10. DeviceTyped'
    BY Zenon, <1>1, <1>2, <1>4, <1>5, <1>6 DEF DeviceTyped, Awaited
  <1>11. Staged'
    BY <1>1, <1>4, <1>7, <1>8, <1>9 DEF RecoveryInv, Staged, Onboarding
  <1>12. Worded'
    BY <1>1, <1>4, <1>7, <1>9 DEF RecoveryInv, Worded
  <1>13. Pinned'
    <2>1. ~UploadTaken' /\ (Settled' <=> Settled)
      BY Zenon, <1>1, <1>7, <1>8 DEF UploadTaken, Settled, None
    <2> QED
      BY <2>1, <1>1, <1>4, <1>7, <1>9 DEF RecoveryInv, Pinned
  <1>14. Remembered'
    <2>1. Covers(backup_payload(disk)', backup_payload(disk))
      BY Zenon, <1>3, <1>4 DEF Covers, backup_payload, strip_snapshot_to_identity, None
    <2>2. Covers(backup_payload(disk)', disk'.bundle.blob.payload)
      BY Zenon, <2>1, <1>4, <1>7, CoversChain DEF RecoveryInv, Remembered
    <2> QED
      BY Zenon, <2>2, <1>1, <1>3, <1>4, <1>7 DEF RecoveryInv, Remembered, None
  <1> QED
    BY Zenon, <1>10, <1>11, <1>12, <1>13, <1>14 DEF RecoveryInv

-----------------------------------------------------------------------------
(* Recovery: uploads *)

\* A coroutine sends the bundle that it holds.
LEMMA PutKeeps ==
    ASSUME RecoveryInv, NEW k \in {"screen", "uploader"}, Put(k) PROVE RecoveryInv'
  <1>1. /\ task[k].pc = "holds" /\ task' = [task EXCEPT ![k].pc = "waits"]
        /\ requests' = requests \cup {[by |-> k, bundle |-> task[k].bundle,
                                       at |-> task[k].at, done |-> FALSE]}
        /\ UNCHANGED <<disk, backend, screen, fetched, backup, changes, faults, deaths,
                       phrase, enrolledAt, excused, reenrolled, adopted, late>>
    BY Zenon DEF Put, counters, userHistory
  <1>2. PICK n : n = [by |-> k, bundle |-> task[k].bundle, at |-> task[k].at, done |-> FALSE]
    BY Zenon
  <1>3. task[k] \in Coroutine /\ task[k].bundle \in Whole /\ task[k].at <= changes
    BY Zenon, <1>1 DEF RecoveryInv, DeviceTyped, Staged, Uploading
  <1>4. n \in Upload /\ n.by = k /\ n.bundle = task[k].bundle /\ n.at = task[k].at /\ ~n.done
    BY Zenon, <1>2, <1>3 DEF Upload, Coroutine
  <1>5. task' \in [{"screen", "uploader"} -> Coroutine]
    BY <1>1 DEF RecoveryInv, DeviceTyped, Coroutine
  <1>6. \A j \in {"screen", "uploader"} :
            /\ task'[j].pc = IF j = k THEN "waits" ELSE task[j].pc
            /\ task'[j].bundle = task[j].bundle /\ task'[j].at = task[j].at
    BY <1>1 DEF RecoveryInv, DeviceTyped
  <1>7. requests' = requests \cup {n}
    BY Zenon, <1>1, <1>2
  <1>8. DeviceTyped'
    BY Zenon, <1>1, <1>4, <1>5, <1>7 DEF RecoveryInv, DeviceTyped
  <1>9. (Busy' <=> Busy) /\ (\A j \in {"screen", "uploader"} : Uploading(j)' <=> Uploading(j))
    BY <1>1 DEF Busy, Uploading
  <1>10. /\ (Enrolled' <=> Enrolled) /\ (UploadTaken' <=> UploadTaken) /\ (Settled' <=> Settled)
         /\ task'["screen"].pc # "delay" \/ task["screen"].pc = "delay"
         /\ task'["uploader"].pc = "idle" <=> task["uploader"].pc = "idle"
    BY <1>1, <1>9 DEF Enrolled, UploadTaken, Settled
  <1>11. Staged'
    <2>1. ASSUME NEW r \in requests'
          PROVE  /\ r.at <= changes
                 /\ r.by # None => /\ task'[r.by].pc = "waits"
                                   /\ r.bundle = task'[r.by].bundle /\ r.at = task'[r.by].at
      <3>1. CASE r = n
        BY Zenon, <3>1, <1>3, <1>4, <1>6
      <3>2. CASE r \in requests
        <4>1. r \in Upload
          BY Zenon, <3>2 DEF RecoveryInv, DeviceTyped
        <4> QED
          BY <3>2, <4>1, <1>6 DEF RecoveryInv, Staged, Upload
      <3> QED
        BY Zenon, <3>1, <3>2, <1>7
    <2> QED
      BY <2>1, <1>1, <1>9, <1>10 DEF RecoveryInv, Staged
  <1>12. Worded'
    BY <1>1, <1>9, <1>10 DEF RecoveryInv, Worded, Uploading
  <1>13. Pinned'
    BY <1>1, <1>10 DEF RecoveryInv, Pinned, Uploading
  <1>14. backup_payload(disk)' = backup_payload(disk)
    BY Zenon, <1>1
  <1>15. Remembered'
    BY <1>1, <1>9, <1>10 DEF RecoveryInv, Remembered, Complete
  <1> QED
    BY Zenon, <1>8, <1>11, <1>12, <1>13, <1>15 DEF RecoveryInv

\* The directory stores an upload, in any order with the others.
LEMMA AppliesKeeps ==
    ASSUME RecoveryInv, NEW r \in requests, Applies(r) PROVE RecoveryInv'
  <1>1. /\ ~r.done /\ backup' = r.bundle
        /\ excused' = (r.at # changes)
        /\ reenrolled' = (adopted \/ r.at < enrolledAt)
        /\ late' = (late \/ r.by = None)
        /\ UNCHANGED <<disk, backend, screen, fetched, task, changes, faults, deaths,
                       phrase, enrolledAt, adopted>>
    BY Zenon DEF Applies, counters
  <1>2. r \in Upload
    BY Zenon DEF RecoveryInv, DeviceTyped
  <1>3. PICK n : n = [r EXCEPT !.done = TRUE]
    BY Zenon
  <1>4. n \in Upload /\ n.by = r.by /\ n.bundle = r.bundle /\ n.at = r.at
    BY Zenon, <1>2, <1>3 DEF Upload
  <1>5. \A q \in requests' : q \in requests \/ (q = n /\ r.by # None)
    BY Zenon, <1>3 DEF Applies
  <1>6. DeviceTyped'
    <2>1. requests' \subseteq Upload
      BY Zenon, <1>4, <1>5 DEF RecoveryInv, DeviceTyped
    <2>2. excused' \in BOOLEAN /\ reenrolled' \in BOOLEAN /\ late' \in BOOLEAN
      BY Zenon, <1>1
    <2>3. r.bundle \in Whole
      BY Zenon, <1>2 DEF Upload
    <2> QED
      BY Zenon, <1>1, <2>1, <2>3 DEF RecoveryInv, DeviceTyped
  <1>7. Staged'
    BY Zenon, <1>1, <1>4, <1>5 DEF RecoveryInv, Staged, Enrolled, Busy, Uploading
  <1>8. r.bundle \in Whole
    BY Zenon, <1>2 DEF Upload
  <1>9. (UploadTaken' => Busy) /\ (Settled => Enrolled) /\ (Busy => Enrolled)
    BY <1>4, <1>5 DEF RecoveryInv, Staged, UploadTaken, Settled, Enrolled, Busy, Telling, None
  <1>10. Worded'
    <2>1. ~reenrolled' => ~adopted /\ ~(r.at < enrolledAt)
      BY Zenon, <1>1
    <2> QED
      BY Zenon, <2>1, <1>1, <1>4, <1>5, <1>8
         DEF RecoveryInv, Worded, Enrolled, Busy, Uploading
  <1>11. Pinned'
    <2>1. ~excused' => r.at = changes
      BY Zenon, <1>1
    <2> QED
      BY Zenon, <2>1, <1>1, <1>4, <1>5, <1>9
         DEF RecoveryInv, Pinned, Enrolled, Busy, Uploading, Settled
  <1>12. Remembered'
    <2>1. ~late' => ~late /\ r.by \in {"screen", "uploader"}
      BY Zenon, <1>1, <1>2 DEF Upload
    <2>2. backup_payload(disk)' = backup_payload(disk)
      BY Zenon, <1>1
    <2>3. CASE late'
      BY Zenon, <2>3, <1>1 DEF RecoveryInv, Remembered, Enrolled, Busy, Uploading, Complete
    <2>4. CASE ~late' /\ r.by = "screen"
      <3>1. Busy /\ Enrolled /\ backup' = task["screen"].bundle
        BY Zenon, <2>4, <1>1 DEF RecoveryInv, Staged, Busy, Enrolled, None
      <3>2. Covers(backup_payload(disk), task["screen"].bundle.blob.payload)
        BY Zenon, <3>1, CoversChain DEF RecoveryInv, Remembered
      <3> QED
        BY Zenon, <3>1, <3>2, <1>1, CoversSelf
           DEF RecoveryInv, Remembered, Uploading, Complete
    <2>5. CASE ~late' /\ r.by = "uploader"
      <3>1. /\ Uploading("uploader") /\ backup' = task["uploader"].bundle
            /\ task["uploader"].pc # "idle" /\ screen \notin {"SetPin", "RestoreNewPin"}
        BY Zenon, <2>5, <1>1 DEF RecoveryInv, Staged, Uploading, None, Onboarding
      <3>2. /\ backup'.blob.payload = backup_payload(disk)
            /\ disk.bundle.blob.payload = backup_payload(disk)
            /\ Busy => task["screen"].bundle.blob.payload = backup_payload(disk)
        BY Zenon, <3>1 DEF RecoveryInv, Remembered, Complete
      <3> QED
        BY Zenon, <3>1, <1>1 DEF RecoveryInv, Remembered, Enrolled, Busy, Complete
    <2> QED
      BY Zenon, <2>1, <2>3, <2>4, <2>5
  <1> QED
    BY Zenon, <1>6, <1>7, <1>10, <1>11, <1>12 DEF RecoveryInv

\* The directory's answer reaches the screen, which moves on.
LEMMA AnsweredScreenKeeps == ASSUME RecoveryInv, Answered("screen") PROVE RecoveryInv'
  <1>1. /\ requests' = {r \in requests : r.by # "screen"}
        /\ task' = [task EXCEPT !["screen"] = NoTask]
        /\ screen' = NextStage[screen]
        /\ phrase' = IF screen = "SetPin" THEN disk.bundle.w_phrase.secret ELSE phrase
        /\ UNCHANGED <<disk, backend, fetched, backup, changes, faults, deaths,
                       enrolledAt, excused, reenrolled, adopted, late>>
    BY Zenon DEF Answered, counters
  <1>2. UploadTaken /\ Busy /\ Enrolled /\ DeviceTyped
    BY Zenon DEF Answered, RecoveryInv, Staged, UploadTaken, Busy, Enrolled, None
  <1>3. screen \in {"SetPin", "NewPin", "RetryUpload", "RestoreNewPin"}
    BY Zenon, <1>2 DEF RecoveryInv, Staged
  <1>4. /\ screen = "SetPin" => screen' = "ShowPhrase"
        /\ screen = "RestoreNewPin" => screen' = "Main"
        /\ screen \in {"NewPin", "RetryUpload"} => screen' = "Done"
    BY <1>1 DEF NextStage
  <1>5. /\ task'["screen"].pc = "idle" /\ task'["uploader"] = task["uploader"]
        /\ task' \in [{"screen", "uploader"} -> Coroutine]
    BY Zenon, <1>1, <1>2, NoTaskTyped DEF DeviceTyped, NoTask
  <1>6. phrase' = enrolledAt /\ enrolledAt \in Nat
    BY Zenon, <1>1, <1>2 DEF RecoveryInv, Staged, Worded, DeviceTyped
  <1>7. DeviceTyped'
    BY <1>1, <1>2, <1>3, <1>4, <1>5, <1>6 DEF DeviceTyped, Stage, Onboarding
  <1>8. ~Busy' /\ Enrolled' /\ ~Uploading("screen")' /\ ~UploadTaken'
    BY Zenon, <1>1, <1>3, <1>4, <1>5 DEF Busy, Enrolled, Uploading, UploadTaken
  <1>9. Uploading("uploader")' <=> Uploading("uploader")
    BY Zenon, <1>5 DEF Uploading
  <1>10. Staged'
    <2>1. \A q \in requests' :
            /\ q.at <= changes
            /\ q.by # None => /\ task'[q.by].pc = "waits"
                              /\ q.bundle = task'[q.by].bundle /\ q.at = task'[q.by].at
      BY <1>1 DEF RecoveryInv, Staged
    <2>2. screen' # "SetPin" /\ screen' # "RestoreNewPin"
      BY Zenon, <1>3, <1>4
    <2>3. task'["uploader"].pc # "idle" => screen' \notin Onboarding
      BY Zenon, <1>3, <1>4, <1>5 DEF RecoveryInv, Staged, Onboarding
    <2> QED
      BY <2>2, <2>3, <1>1, <1>2, <1>5, <1>6, <1>8, <1>9 DEF RecoveryInv, Staged
  <1>11. Worded'
    BY <1>1, <1>2, <1>8, <1>9 DEF RecoveryInv, Worded
  <1>12. Pinned'
    BY <1>1, <1>2, <1>8, <1>9 DEF RecoveryInv, Pinned
  <1>13. Remembered'
    <2>1. backup_payload(disk)' = backup_payload(disk)
      BY Zenon, <1>1
    <2>2. screen' # "SetPin" /\ screen' # "RestoreNewPin" /\ screen # "Main"
      BY Zenon, <1>3, <1>4
    <2> QED
      BY Zenon, <2>2, <1>1, <1>2, <1>5, <1>8, <1>9 DEF RecoveryInv, Remembered, Complete
  <1> QED
    BY Zenon, <1>7, <1>10, <1>11, <1>12, <1>13 DEF RecoveryInv

\* The device is lost, and only the backup and the words are left.
LEMMA DeviceLostKeeps == ASSUME RecoveryInv, DeviceLost PROVE RecoveryInv'
  <1>1. /\ screen \notin Onboarding /\ screen' = "Lost" /\ deaths' = deaths + 1
        /\ disk' = Empty /\ backend' = FALSE
        /\ task' = [k \in DOMAIN task |-> NoTask]
        /\ requests' = Abandoned(DOMAIN task)
        /\ UNCHANGED <<fetched, backup, changes, faults, phrase, enrolledAt, excused, reenrolled, adopted, late>>
    BY Zenon DEF DeviceLost, userHistory
  <1>2. DeviceTyped /\ DOMAIN task = {"screen", "uploader"}
    BY Zenon DEF RecoveryInv, DeviceTyped
  <1>3. /\ task' \in [{"screen", "uploader"} -> Coroutine]
        /\ \A j \in {"screen", "uploader"} : task'[j].pc = "idle"
    BY Zenon, <1>1, <1>2, NoTaskTyped DEF NoTask
  <1>4. Awaited({"screen", "uploader"})
    BY Zenon, <1>1, <1>2, AbandonedAwaited
  <1>5. Empty \in Disk
    BY Zenon DEF Empty, Disk
  <1>6. DeviceTyped'
    <2>1. requests' \subseteq Upload
      BY Zenon, <1>4 DEF Awaited
    <2>2. screen' \in Stage /\ deaths' \in Nat /\ disk' \in Disk
      BY <1>1, <1>2, <1>5 DEF DeviceTyped, Stage, Onboarding
    <2> QED
      BY Zenon, <2>1, <2>2, <1>1, <1>2, <1>3 DEF DeviceTyped
  <1>7. ~Busy' /\ ~Enrolled' /\ ~Settled' /\ ~UploadTaken' /\ screen # "SetPin"
    BY Zenon, <1>1, <1>3, <1>4
       DEF Busy, Enrolled, Settled, UploadTaken, Telling, Onboarding, Awaited
  <1>8. \A j \in {"screen", "uploader"} : ~Uploading(j)'
    BY Zenon, <1>3 DEF Uploading
  <1>9. Staged'
    <2>1. \A q \in requests' : q.at <= changes /\ q.by = None
      BY <1>4 DEF RecoveryInv, Staged, Upload, Awaited
    <2> QED
      BY Zenon, <2>1, <1>1, <1>3, <1>7, <1>8 DEF RecoveryInv, Staged
  <1>10. Worded'
    BY <1>1, <1>4, <1>7, <1>8 DEF RecoveryInv, Worded, Awaited
  <1>11. Pinned'
    BY Zenon, <1>7 DEF Pinned
  <1>12. Remembered'
    BY Zenon, <1>1, <1>3, <1>7 DEF Remembered
  <1> QED
    BY Zenon, <1>6, <1>9, <1>10, <1>11, <1>12 DEF RecoveryInv

-----------------------------------------------------------------------------
(* Recovery: the calls that leave a bundle in the store *)

\* backup_bundle_current, on a store that has a bundle.
LEMMA CurrentLeaves ==
    ASSUME NEW d \in Disk, d.bundle \in Whole, d.bk = d.bundle.blob.bk,
           NEW e, e = backup_bundle_current(d)
    PROVE  /\ e \in Disk /\ e.bundle \in Whole /\ e.bk = e.bundle.blob.bk
           /\ e.bundle.w_phrase = d.bundle.w_phrase /\ e.bundle.w_pin = d.bundle.w_pin
           /\ e.bundle.blob.payload = backup_payload(d)
           /\ e.identity = d.identity /\ e.contact = d.contact
  <1>1. backup_payload(d) \in Payload
    BY Zenon DEF backup_payload, strip_snapshot_to_identity, Payload, Disk
  <1>2. PICK p : p = backup_payload(d)
    BY Zenon
  <1>3. PICK b : b = [d.bundle EXCEPT !.blob = [bk |-> d.bk, payload |-> p]]
    BY Zenon
  <1>4. e = [d EXCEPT !.bundle = b]
    BY Zenon, <1>2, <1>3 DEF backup_bundle_current, seal_blob
  <1>5. /\ b.blob = [bk |-> d.bk, payload |-> p]
        /\ b.w_pin = d.bundle.w_pin /\ b.w_phrase = d.bundle.w_phrase
    BY <1>3
  <1>6. b \in Whole
    BY Zenon, <1>1, <1>2, <1>3 DEF Whole
  <1>7. e.bk = d.bk /\ e.bundle = b /\ e.identity = d.identity /\ e.contact = d.contact
    BY <1>4
  <1>8. e \in Disk
    BY Zenon, <1>4, <1>6 DEF Disk
  <1> QED
    BY <1>2, <1>5, <1>6, <1>7, <1>8

\* Opening ChangePin refreshes the bundle.
LEMMA OpenChangePinKeeps == ASSUME RecoveryInv, OpenChangePin PROVE RecoveryInv'
  <1>1. /\ screen = "Main" /\ screen' = "VerifyPin" /\ disk' = backup_bundle_current(disk)
        /\ UNCHANGED <<backend, fetched, task, requests, backup, changes, faults, deaths,
                       phrase, enrolledAt, excused, reenrolled, adopted, late>>
    BY Zenon DEF OpenChangePin, counters, userHistory
  <1>2. Enrolled /\ ~Busy
    BY Zenon, <1>1 DEF RecoveryInv, Staged, Enrolled
  <1>3. /\ disk' \in Disk /\ disk'.bundle \in Whole /\ disk'.bk = disk'.bundle.blob.bk
        /\ disk'.bundle.w_phrase = disk.bundle.w_phrase /\ disk'.bundle.w_pin = disk.bundle.w_pin
        /\ disk'.bundle.blob.payload = backup_payload(disk)
        /\ disk'.identity = disk.identity /\ disk'.contact = disk.contact
    BY <1>1, <1>2, CurrentLeaves DEF RecoveryInv, DeviceTyped, Staged
  <1>4. backup_payload(disk)' = backup_payload(disk)
    BY Zenon, <1>3 DEF backup_payload, strip_snapshot_to_identity
  <1>5. DeviceTyped'
    BY Zenon, <1>1, <1>3 DEF RecoveryInv, DeviceTyped, Stage
  <1>6. Staged'
    BY Zenon, <1>1, <1>3 DEF RecoveryInv, Staged, Busy, Uploading, Onboarding
  <1>7. Worded'
    BY Zenon, <1>1, <1>3 DEF RecoveryInv, Worded, Enrolled, Uploading
  <1>8. Pinned'
    BY <1>1, <1>3
       DEF RecoveryInv, Pinned, Enrolled, Busy, Uploading, UploadTaken, Settled, Telling
  <1>9. Remembered'
    BY <1>1, <1>3, <1>4, CoversSelf, CoversChain
       DEF RecoveryInv, Remembered, Enrolled, Busy, Uploading, Complete
  <1> QED
    BY Zenon, <1>5, <1>6, <1>7, <1>8, <1>9 DEF RecoveryInv

\* The delay is over: the bundle is refreshed and the uploader holds it.
LEMMA ElapseKeeps == ASSUME RecoveryInv, Elapse PROVE RecoveryInv'
  <1>1. /\ task["uploader"].pc = "delay" /\ disk' = backup_bundle_current(disk)
        /\ task' = [task EXCEPT !["uploader"] =
                        [pc |-> "holds", bundle |-> disk'.bundle, at |-> changes]]
        /\ UNCHANGED <<backend, screen, fetched, requests, backup, changes, faults, deaths,
                       phrase, enrolledAt, excused, reenrolled, adopted, late>>
    BY Zenon DEF Elapse, Holding, counters, userHistory
  <1>2. DeviceTyped /\ disk \in Disk /\ changes \in Nat
    BY Zenon DEF RecoveryInv, DeviceTyped
  <1>3. screen \notin Onboarding /\ screen \notin {"SetPin", "Lost", "RestoreNewPin"} /\ Enrolled
    BY Zenon, <1>1 DEF RecoveryInv, Staged, Enrolled, Onboarding
  <1>4. /\ disk' \in Disk /\ disk'.bundle \in Whole /\ disk'.bk = disk'.bundle.blob.bk
        /\ disk'.bundle.w_phrase = disk.bundle.w_phrase /\ disk'.bundle.w_pin = disk.bundle.w_pin
        /\ disk'.bundle.blob.payload = backup_payload(disk)
        /\ disk'.identity = disk.identity /\ disk'.contact = disk.contact
    BY <1>1, <1>2, <1>3, CurrentLeaves DEF RecoveryInv, Staged
  <1>5. PICK n : n = [pc |-> "holds", bundle |-> disk'.bundle, at |-> changes]
    BY Zenon
  <1>6. n \in Coroutine /\ n.pc = "holds" /\ n.bundle = disk'.bundle /\ n.at = changes
    BY Zenon, <1>2, <1>4, <1>5 DEF Coroutine
  <1>7. /\ task'["uploader"] = n /\ task'["screen"] = task["screen"]
        /\ task' \in [{"screen", "uploader"} -> Coroutine]
    BY Zenon, <1>1, <1>2, <1>5, <1>6 DEF DeviceTyped
  <1>8. /\ (Busy' <=> Busy) /\ (Enrolled' <=> Enrolled)
        /\ (UploadTaken' <=> UploadTaken) /\ (Settled' <=> Settled)
        /\ (Uploading("screen")' <=> Uploading("screen")) /\ Uploading("uploader")'
    BY Zenon, <1>1, <1>7 DEF Busy, Enrolled, UploadTaken, Settled, Uploading
  <1>9. DeviceTyped'
    BY Zenon, <1>1, <1>2, <1>4, <1>7 DEF DeviceTyped
  <1>10. Staged'
    <2>1. \A r \in requests : r.by \in {"screen", None}
      BY Zenon, <1>1 DEF RecoveryInv, Staged, DeviceTyped, Upload
    <2>2. \A r \in requests :
            /\ r.at <= changes
            /\ r.by # None => /\ task'[r.by].pc = "waits"
                              /\ r.bundle = task'[r.by].bundle /\ r.at = task'[r.by].at
      BY <2>1, <1>7 DEF RecoveryInv, Staged
    <2>3. n.bundle \in Whole /\ n.at <= changes
      BY <1>2, <1>4, <1>6
    <2> QED
      BY <2>3, <1>1, <1>4, <1>7, <1>8 DEF RecoveryInv, Staged
  <1>11. Worded'
    <2>1. ~adopted /\ Enrolled => n.bundle.w_phrase.secret = enrolledAt
      BY Zenon, <1>4, <1>6 DEF RecoveryInv, Worded
    <2>2. ~adopted => \A k \in {"screen", "uploader"} :
            Uploading(k)' => task'[k].bundle.w_phrase.secret = enrolledAt
      BY Zenon, <1>3, <1>7, <1>8, <2>1 DEF RecoveryInv, Worded
    <2> QED BY Zenon, <1>1, <1>4, <1>8, <2>2 DEF RecoveryInv, Worded
  <1>12. Pinned'
    BY Zenon, <1>1, <1>4, <1>7, <1>8 DEF RecoveryInv, Pinned
  <1>13. Remembered'
    <2>1. backup_payload(disk)' = backup_payload(disk)
      BY Zenon, <1>4 DEF backup_payload, strip_snapshot_to_identity
    <2>2. Busy => Covers(backup_payload(disk), task["screen"].bundle.blob.payload)
      BY Zenon, <1>3, CoversChain DEF RecoveryInv, Remembered
    <2>3. ~late /\ backup # NoBundle => Covers(backup_payload(disk), backup.blob.payload)
      BY Zenon, <1>3, CoversChain DEF RecoveryInv, Remembered
    <2> QED
      BY Zenon, <2>1, <2>3, <1>1, <1>4, <1>7, <1>8, CoversSelf
         DEF RecoveryInv, Remembered, Complete
  <1> QED
    BY Zenon, <1>9, <1>10, <1>11, <1>12, <1>13 DEF RecoveryInv

\* new_from_backup: the store of the bundle, which says no less than it.
LEMMA RestoreLeaves ==
    ASSUME NEW b \in Whole, NEW d, d = new_from_backup(b, b.blob.bk)
    PROVE  /\ d \in Disk /\ d.bundle = b /\ d.bk = b.blob.bk
           /\ Covers(backup_payload(d), b.blob.payload)
  <1>1. b.blob.bk \in Nat /\ b.blob.payload \in Payload
    BY Zenon DEF Whole
  <1>2. b.blob.payload.identity \in Nat /\ b.blob.payload.contact \in BOOLEAN
    BY Zenon, <1>1 DEF Payload
  <1>3. PICK c : c = IF b.blob.payload.contact THEN "stub" ELSE "none"
    BY Zenon
  <1>4. d = [bk |-> b.blob.bk, bundle |-> b, identity |-> b.blob.payload.identity, contact |-> c]
    BY Zenon, <1>3 DEF new_from_backup, None
  <1>5. d \in Disk
    BY <1>1, <1>2, <1>3, <1>4 DEF Disk, None
  <1>6. Covers(backup_payload(d), b.blob.payload)
    BY <1>2, <1>3, <1>4 DEF Covers, backup_payload, strip_snapshot_to_identity, None
  <1> QED
    BY <1>4, <1>5, <1>6

\* The store is the bundle of the row, opened with its PIN.
LEMMA RestoreByPinKeeps == ASSUME RecoveryInv, RestoreByPin PROVE RecoveryInv'
  <1>1. /\ screen = "Lost" /\ backup # NoBundle /\ changes' = changes + 1
        /\ disk' = new_from_backup(backup, backup.w_pin.bk) /\ screen' = "Main"
        /\ UNCHANGED <<backend, fetched, task, requests, backup, faults, deaths, phrase,
                       enrolledAt, excused, reenrolled, late>>
        /\ adopted' = (adopted \/ reenrolled)
    BY Zenon DEF RestoreByPin
  <1>2. DeviceTyped /\ changes \in Nat /\ backup \in Whole
    BY Zenon, <1>1 DEF RecoveryInv, DeviceTyped
  <1>3. backup.w_pin.bk = backup.blob.bk
    BY Zenon, <1>2 DEF Whole
  <1>4. /\ disk' \in Disk /\ disk'.bundle = backup /\ disk'.bk = backup.blob.bk
        /\ Covers(backup_payload(disk)', backup.blob.payload)
    BY Zenon, <1>1, <1>2, <1>3, RestoreLeaves
  <1>5. ~Busy /\ task["uploader"].pc = "idle"
    BY Zenon, <1>1 DEF RecoveryInv, Staged, Onboarding
  <1>6. ~Busy' /\ \A k \in {"screen", "uploader"} : ~Uploading(k)'
    BY Zenon, <1>1, <1>5 DEF Busy, Uploading
  <1>7. \A r \in requests : r.by = None /\ r.at \in Nat /\ r.at <= changes
    BY Zenon, <1>5 DEF RecoveryInv, Staged, DeviceTyped, Upload, Busy
  <1>8. DeviceTyped'
    <2>1. adopted' \in BOOLEAN
      BY Zenon, <1>1
    <2> QED
      BY <2>1, <1>1, <1>2, <1>4 DEF DeviceTyped, Stage
  <1>9. Staged'
    <2>1. \A r \in requests : r.at <= changes'
      BY <1>1, <1>2, <1>7
    <2>2. enrolledAt' <= changes' /\ phrase' = enrolledAt'
      BY <1>1 DEF RecoveryInv, Staged, DeviceTyped
    <2> QED
      BY Zenon, <2>1, <2>2, <1>1, <1>2, <1>4, <1>5, <1>6, <1>7 DEF RecoveryInv, Staged
  <1>10. Worded'
    BY Zenon, <1>1, <1>4, <1>6 DEF RecoveryInv, Worded
  <1>11. Pinned'
    <2>1. \A r \in requests : r.at # changes'
      BY <1>1, <1>2, <1>7
    <2> QED
      BY Zenon, <2>1, <1>1, <1>4, <1>6 DEF Pinned
  <1>12. Remembered'
    BY Zenon, <1>1, <1>4, <1>5, <1>6, CoversSelf DEF Remembered
  <1> QED
    BY Zenon, <1>8, <1>9, <1>10, <1>11, <1>12 DEF RecoveryInv

-----------------------------------------------------------------------------
(* Recovery: tasks that stop *)

\* The tasks in K no longer await their uploads, and nothing else but the
\* stage changes.
Stopped(K) ==
    /\ \A k \in {"screen", "uploader"} : task'[k] = IF k \in K THEN NoTask ELSE task[k]
    /\ task' \in [{"screen", "uploader"} -> Coroutine]
    /\ UNCHANGED <<disk, backup, changes, phrase, enrolledAt, reenrolled, adopted, late>>
    /\ backend' \in BOOLEAN /\ faults' \in Nat /\ deaths' \in Nat

StageAfter(K) ==
    /\ screen' \in Stage /\ fetched' \in Whole \cup {NoBundle}
    /\ screen' = "SetPin" <=> screen = "SetPin"
    /\ screen' = "RestoreNewPin" => screen = "RestoreNewPin" /\ fetched' = fetched
    /\ screen' \notin {"SetPin", "Lost", "RestoreNewPin"} =>
            screen \notin {"SetPin", "Lost", "RestoreNewPin"}
    /\ "screen" \notin K => screen' = screen
    /\ screen \notin Onboarding => screen' \notin Onboarding
    /\ screen' # "Main" => screen # "Main"

ExcusedAfter(K) ==
    /\ excused' \in BOOLEAN
    /\ ~excused' => ~excused
    /\ ~excused' /\ screen' \notin Telling =>
            (screen \notin Telling /\ ~Busy) \/ "screen" \notin K

\* Coroutines stop, whatever became of their uploads.
LEMMA StoppedKeeps ==
    ASSUME RecoveryInv, NEW K \in SUBSET {"screen", "uploader"},
           Stopped(K), Awaited(K), StageAfter(K), ExcusedAfter(K)
    PROVE  RecoveryInv'
  <1>1. DeviceTyped'
    <2>1. requests' \subseteq Upload
      BY Zenon DEF Awaited
    <2> QED
      BY Zenon, <2>1 DEF RecoveryInv, DeviceTyped, Stopped, StageAfter, ExcusedAfter
  <1>2. NoTask.pc = "idle"
    BY Zenon DEF NoTask
  <1>3. \A k \in {"screen", "uploader"} :
            task'[k].pc # "idle" => k \notin K /\ task'[k] = task[k]
    BY Zenon, <1>2 DEF Stopped
  <1>4. /\ Busy' => Busy /\ "screen" \notin K /\ screen' = screen /\ task'["screen"] = task["screen"]
        /\ \A k \in {"screen", "uploader"} :
              Uploading(k)' => Uploading(k) /\ task'[k] = task[k]
    BY Zenon, <1>3 DEF Busy, Uploading, StageAfter
  <1>5. (Enrolled' => Enrolled) /\ (Busy => Enrolled)
    BY Zenon, <1>4 DEF Enrolled, StageAfter
  <1>6. /\ UploadTaken' => UploadTaken /\ "screen" \notin K
        /\ \A q \in requests' : \E r \in requests : r.bundle = q.bundle /\ r.at = q.at
    BY Zenon DEF Awaited, UploadTaken
  <1>7. Staged'
    <2>1. ASSUME NEW q \in requests'
          PROVE  /\ q.at <= changes
                 /\ q.by # None => /\ task'[q.by].pc = "waits"
                                   /\ q.bundle = task'[q.by].bundle /\ q.at = task'[q.by].at
      <3>1. q.at <= changes
        BY Zenon, <1>6 DEF RecoveryInv, Staged
      <3>2. ASSUME q.by # None
            PROVE  /\ task'[q.by].pc = "waits"
                   /\ q.bundle = task'[q.by].bundle /\ q.at = task'[q.by].at
        <4>1. q \in requests /\ q.by \in {"screen", "uploader"} /\ q.by \notin K
          BY Zenon, <3>2 DEF Awaited, Upload
        <4>2. task'[q.by] = task[q.by]
          BY Zenon, <4>1 DEF Stopped
        <4> QED
          BY Zenon, <3>2, <4>1, <4>2 DEF RecoveryInv, Staged
      <3> QED
        BY Zenon, <3>1, <3>2
    <2>2. task'["screen"].pc # "delay"
      BY Zenon, <1>2 DEF RecoveryInv, Staged, Stopped
    <2>3. task'["uploader"].pc # "idle" => screen' \notin Onboarding
      BY Zenon, <1>3 DEF RecoveryInv, Staged, StageAfter
    <2> QED
      BY <2>1, <2>2, <2>3, <1>4, <1>5 DEF RecoveryInv, Staged, Stopped, StageAfter
  <1>8. Worded'
    BY <1>4, <1>5, <1>6 DEF RecoveryInv, Worded, Stopped, StageAfter
  <1>9. Pinned'
    <2>1. ~excused' /\ Settled' => Settled /\ ~excused
      BY Zenon, <1>2 DEF Settled, Busy, Stopped, StageAfter, ExcusedAfter
    <2> QED
      BY <2>1, <1>4, <1>5, <1>6 DEF RecoveryInv, Pinned, Stopped, ExcusedAfter
  <1>10. Remembered'
    <2>1. backup_payload(disk)' = backup_payload(disk)
      BY Zenon DEF Stopped
    <2> QED
      BY Zenon, <1>3, <1>4, <1>5 DEF RecoveryInv, Remembered, Complete, Stopped, StageAfter
  <1> QED
    BY Zenon, <1>1, <1>7, <1>8, <1>9, <1>10 DEF RecoveryInv

\* The directory's answer reaches the uploader.
LEMMA AnsweredUploaderKeeps == ASSUME RecoveryInv, Answered("uploader") PROVE RecoveryInv'
  <1>1. DeviceTyped /\ {"uploader"} \in SUBSET {"screen", "uploader"}
    BY Zenon DEF RecoveryInv
  <1>2. Stopped({"uploader"})
    BY Zenon, <1>1, NoTaskTyped DEF Stopped, Answered, counters, DeviceTyped
  <1>3. Awaited({"uploader"})
    BY Zenon, <1>1 DEF Awaited, Answered, DeviceTyped
  <1>4. StageAfter({"uploader"}) /\ ExcusedAfter({"uploader"})
    BY Zenon, <1>1 DEF StageAfter, ExcusedAfter, Answered, DeviceTyped
  <1> QED
    BY <1>2, <1>3, <1>4, StoppedKeeps, Zenon

\* An upload fails, or the answer to it is lost.
LEMMA FailedKeeps ==
    ASSUME RecoveryInv, NEW k \in {"screen", "uploader"}, Failed(k) PROVE RecoveryInv'
  <1>1. DeviceTyped /\ {k} \in SUBSET {"screen", "uploader"}
    BY Zenon DEF RecoveryInv
  <1>2. Stopped({k})
    BY <1>1, NoTaskTyped DEF Stopped, Failed, userHistory, DeviceTyped
  <1>3. Awaited({k})
    BY Zenon, <1>1, AbandonedAwaited DEF Failed
  <1>4. k = "screen" => screen \in {"SetPin", "NewPin", "RetryUpload", "RestoreNewPin"}
    BY Zenon DEF RecoveryInv, Staged, Busy, Failed
  <1>5. StageAfter({k})
    BY Zenon, <1>1 DEF StageAfter, Failed, AfterFailure, DeviceTyped, Stage, Onboarding
  <1>6. ExcusedAfter({k})
    BY Zenon, <1>1, <1>4
       DEF ExcusedAfter, Failed, AfterFailure, userHistory, DeviceTyped, Telling
  <1> QED
    BY <1>2, <1>3, <1>5, <1>6, StoppedKeeps, Zenon

\* The user leaves the screen.
LEMMA LeaveKeeps == ASSUME RecoveryInv, Leave PROVE RecoveryInv'
  <1>1. DeviceTyped /\ {"screen"} \in SUBSET {"screen", "uploader"}
    BY Zenon DEF RecoveryInv
  <1>2. Stopped({"screen"})
    BY Zenon, <1>1, NoTaskTyped DEF Stopped, Leave, counters, DeviceTyped
  <1>3. Awaited({"screen"})
    BY Zenon, <1>1, AbandonedAwaited DEF Leave
  <1>4. StageAfter({"screen"})
    BY Zenon, <1>1 DEF StageAfter, Leave, DeviceTyped, Stage, Onboarding
  <1>5. excused' \in BOOLEAN /\ (~excused' => ~excused /\ ~MidChange)
    BY Zenon DEF Leave
  <1>6. ~MidChange => screen \notin Telling /\ ~Busy
    BY Zenon DEF Leave, MidChange, Telling, Busy, RecoveryInv, Staged
  <1>7. ExcusedAfter({"screen"})
    BY Zenon, <1>5, <1>6 DEF ExcusedAfter
  <1> QED
    BY <1>2, <1>3, <1>4, <1>7, StoppedKeeps, Zenon

\* The app dies.
LEMMA AppDiesKeeps == ASSUME RecoveryInv, AppDies PROVE RecoveryInv'
  <1>1. DeviceTyped /\ DOMAIN task = {"screen", "uploader"}
    BY Zenon DEF RecoveryInv, DeviceTyped
  <1>2. Stopped({"screen", "uploader"})
    BY <1>1, NoTaskTyped DEF Stopped, AppDies, DeviceTyped
  <1>3. Awaited({"screen", "uploader"})
    BY Zenon, <1>1, AbandonedAwaited DEF AppDies
  <1>4. screen' = IF screen \in {"SetPin", "ShowPhrase", "Lost"} THEN screen
                  ELSE IF screen = "RestoreNewPin" THEN "Lost" ELSE "Main"
    BY Zenon DEF AppDies, Reopened
  <1>5. StageAfter({"screen", "uploader"})
    BY Zenon, <1>4 DEF StageAfter, AppDies, Stage, Onboarding
  <1>6. excused' \in BOOLEAN /\ (~excused' => ~excused /\ ~MidChange)
    BY Zenon DEF AppDies
  <1>7. ~MidChange /\ screen' \notin Telling => screen \notin Telling /\ ~Busy
    BY Zenon, <1>4 DEF MidChange, Telling, Busy, RecoveryInv, Staged
  <1>8. ExcusedAfter({"screen", "uploader"})
    BY Zenon, <1>6, <1>7 DEF ExcusedAfter
  <1> QED
    BY Zenon, <1>2, <1>3, <1>5, <1>8, StoppedKeeps

-----------------------------------------------------------------------------
(* Recovery: the screen's uploads *)

\* The screen's coroutine left a bundle in the store and holds it.
Left ==
    /\ ~Busy /\ screen \in {"SetPin", "NewPin", "RetryUpload", "RestoreNewPin"}
    /\ disk' \in Disk /\ disk'.bundle \in Whole /\ disk'.bk = disk'.bundle.blob.bk
    /\ task' = [task EXCEPT !["screen"] =
                    [pc |-> "holds", bundle |-> disk'.bundle, at |-> changes']]
    /\ changes' \in {changes, changes + 1}
    /\ UNCHANGED <<backend, screen, fetched, requests, backup, faults, deaths,
                   phrase, excused, reenrolled, adopted, late>>
    /\ enrolledAt' = IF screen = "SetPin" THEN changes' ELSE enrolledAt

\* Its words, its PIN and its payload.
WordsLeft ==
    /\ screen = "SetPin" => changes' = changes + 1 /\ disk'.bundle.w_phrase.secret = changes'
    /\ screen # "SetPin" /\ ~adopted => disk'.bundle.w_phrase.secret = enrolledAt

PinLeft ==
    changes' = changes => screen = "RetryUpload" /\ disk'.bundle.w_pin = disk.bundle.w_pin

PayloadLeft ==
    /\ Covers(backup_payload(disk)', disk'.bundle.blob.payload)
    /\ ~late /\ backup # NoBundle => Covers(disk'.bundle.blob.payload, backup.blob.payload)
    /\ screen = "SetPin" => backup_payload(disk)' = backup_payload(disk)
    /\ screen = "RestoreNewPin" => Covers(fetched.blob.payload, disk'.bundle.blob.payload)
    /\ task["uploader"].pc # "idle" =>
            /\ disk'.contact = disk.contact /\ disk'.identity = disk.identity
            /\ disk'.bundle.blob.payload = backup_payload(disk)

\* The screen's coroutine takes over a bundle that was just saved.
LEMMA UploadsKeeps ==
    ASSUME RecoveryInv, Left, WordsLeft, PinLeft, PayloadLeft PROVE RecoveryInv'
  <1>1. DeviceTyped /\ changes \in Nat /\ changes' \in Nat /\ disk'.bundle \in Whole
    BY DEF RecoveryInv, DeviceTyped, Left
  <1>2. PICK n \in Coroutine : /\ task' = [task EXCEPT !["screen"] = n]
                               /\ n.pc = "holds" /\ n.bundle = disk'.bundle /\ n.at = changes'
    <2>1. [pc |-> "holds", bundle |-> disk'.bundle, at |-> changes'] \in Coroutine
      BY Zenon, <1>1 DEF Coroutine
    <2> QED
      BY Zenon, <2>1 DEF Left
  <1>3. /\ task'["screen"] = n /\ task'["uploader"] = task["uploader"]
        /\ task' \in [{"screen", "uploader"} -> Coroutine]
    BY Zenon, <1>1, <1>2 DEF DeviceTyped
  <1>4. DeviceTyped'
    BY <1>1, <1>3 DEF DeviceTyped, Left
  <1>5. Busy' /\ Enrolled' /\ Uploading("screen")' /\ (Uploading("uploader")' <=> Uploading("uploader"))
    BY Zenon, <1>2, <1>3 DEF Busy, Enrolled, Uploading
  <1>6. \A r \in requests : /\ r.at \in Nat /\ r.at <= changes /\ r.by \in {"uploader", None}
                            /\ r.by # None => /\ task["uploader"].pc = "waits"
                                              /\ r.bundle = task["uploader"].bundle
                                              /\ r.at = task["uploader"].at
    BY Zenon DEF RecoveryInv, Staged, DeviceTyped, Upload, Left, Busy
  <1>7. ~Settled' /\ ~UploadTaken'
    BY Zenon, <1>5, <1>6 DEF Settled, UploadTaken, Left, None
  <1>8. screen \in {"SetPin", "RestoreNewPin"} => task["uploader"].pc = "idle" /\ ~Uploading("uploader")
    BY Zenon DEF RecoveryInv, Staged, Onboarding, Uploading
  <1>9. Uploading("uploader") => /\ task["uploader"].bundle \in Whole
                                 /\ task["uploader"].at \in Nat /\ task["uploader"].at <= changes
    BY Zenon DEF RecoveryInv, Staged, DeviceTyped, Coroutine
  <1>10. Staged'
    <2>1. \A r \in requests :
            /\ r.at <= changes'
            /\ r.by # None => /\ task'[r.by].pc = "waits"
                              /\ r.bundle = task'[r.by].bundle /\ r.at = task'[r.by].at
      BY <1>1, <1>6 DEF Left
    <2>2. /\ enrolledAt' <= changes' /\ (screen = "SetPin" => enrolledAt' = changes')
          /\ phrase' = IF screen' = "SetPin" THEN 0 ELSE enrolledAt'
      BY DEF RecoveryInv, Staged, DeviceTyped, Left
    <2>3. n.bundle \in Whole /\ n.at <= changes' /\ n.at = changes' /\ n.pc # "delay"
      BY <1>1, <1>2
    <2>4. Uploading("uploader") => task["uploader"].bundle \in Whole /\ task["uploader"].at <= changes'
      BY <1>1, <1>9 DEF Left
    <2> QED
      BY Zenon, <2>1, <2>2, <2>3, <2>4, <1>3, <1>5 DEF RecoveryInv, Staged, Left
  <1>11. Worded'
    <2>1. \A r \in requests : screen = "SetPin" => r.at < enrolledAt'
      BY <1>1, <1>6 DEF Left, WordsLeft
    <2> QED
      BY Zenon, <2>1, <1>3, <1>5, <1>7, <1>8 DEF RecoveryInv, Worded, Left, WordsLeft
  <1>12. Pinned'
    <2>1. CASE changes' = changes
      <3>1. Enrolled /\ disk'.bundle.w_pin = disk.bundle.w_pin
        BY Zenon, <2>1 DEF Enrolled, PinLeft
      <3> QED
        BY <3>1, <2>1, <1>2, <1>3, <1>5, <1>7 DEF RecoveryInv, Pinned, Left
    <2>2. CASE changes' # changes
      <3>1. /\ \A r \in requests : r.at # changes'
            /\ Uploading("uploader") => task["uploader"].at # changes'
        BY <2>2, <1>1, <1>6, <1>9 DEF Left
      <3> QED
        BY Zenon, <3>1, <1>3, <1>5, <1>7 DEF Pinned, Left
    <2> QED
      BY Zenon, <2>1, <2>2
  <1>13. Remembered'
    <2>1. task["uploader"].pc # "idle" => backup_payload(disk)' = backup_payload(disk)
      BY Zenon DEF PayloadLeft, backup_payload, strip_snapshot_to_identity
    <2> QED
      BY Zenon, <2>1, <1>3, <1>5, CoversSelf
         DEF RecoveryInv, Remembered, Complete, Left, PayloadLeft
  <1> QED
    BY Zenon, <1>4, <1>10, <1>11, <1>12, <1>13 DEF RecoveryInv

\* A PIN is a number.
LEMMA PinsAreNumbers == ASSUME NEW pin \in Pins PROVE pin \in Nat
  BY Zenon, RecoveryAssumption

\* backup_enroll.
LEMMA EnrollLeaves ==
    ASSUME NEW d \in Disk, NEW pin \in Nat, changes \in Nat, NEW e, e = backup_enroll(d, pin)
    PROVE  /\ e \in Disk /\ e.bundle \in Whole /\ e.bk = e.bundle.blob.bk
           /\ e.bundle.w_phrase.secret = changes + 1
           /\ e.bundle.blob.payload = backup_payload(d)
           /\ e.identity = d.identity /\ e.contact = d.contact
  <1>1. backup_payload(d) \in Payload
    BY Zenon DEF backup_payload, strip_snapshot_to_identity, Payload, Disk
  <1>2. PICK p : p = backup_payload(d)
    BY Zenon
  <1>3. PICK b : b = [blob |-> [bk |-> changes + 1, payload |-> p],
                      w_pin |-> [secret |-> pin, bk |-> changes + 1],
                      w_phrase |-> [secret |-> changes + 1, bk |-> changes + 1]]
    BY Zenon
  <1>4. e = [d EXCEPT !.bk = changes + 1, !.bundle = b]
    BY Zenon, <1>2, <1>3 DEF backup_enroll, build_bundle, seal_blob, wrap_bk, Fresh
  <1>5. b \in Whole
    BY <1>1, <1>2, <1>3 DEF Whole, Wrap
  <1>6. e.bk = changes + 1 /\ e.bundle = b /\ e.identity = d.identity /\ e.contact = d.contact
    BY <1>4
  <1>7. changes + 1 \in Nat
    OBVIOUS
  <1>8. e \in Disk
    BY Zenon, <1>4, <1>5, <1>7 DEF Disk
  <1>9. b.blob.bk = changes + 1 /\ b.blob.payload = p /\ b.w_phrase.secret = changes + 1
    BY Zenon, <1>3
  <1> QED
    BY Zenon, <1>2, <1>5, <1>6, <1>8, <1>9

\* The backup is enrolled: new words, a new key.
LEMMA EnrollKeeps == ASSUME RecoveryInv, NEW pin \in Pins, Enroll(pin) PROVE RecoveryInv'
  <1>1. /\ screen = "SetPin" /\ ~Busy /\ changes' = changes + 1 /\ enrolledAt' = changes + 1
        /\ disk' = backup_enroll(disk, pin)
        /\ task' = [task EXCEPT !["screen"] =
                        [pc |-> "holds", bundle |-> disk'.bundle, at |-> changes']]
        /\ UNCHANGED <<backend, screen, fetched, requests, backup, faults, deaths, phrase,
                       excused, reenrolled, adopted, late>>
    BY Zenon DEF Enroll, Uploads, Holding, Busy
  <1>2. disk \in Disk /\ changes \in Nat /\ pin \in Nat
    BY Zenon, PinsAreNumbers DEF RecoveryInv, DeviceTyped
  <1>3. /\ disk' \in Disk /\ disk'.bundle \in Whole /\ disk'.bk = disk'.bundle.blob.bk
        /\ disk'.bundle.w_phrase.secret = changes + 1
        /\ disk'.bundle.blob.payload = backup_payload(disk)
        /\ disk'.identity = disk.identity /\ disk'.contact = disk.contact
    BY <1>1, <1>2, EnrollLeaves
  <1>4. backup_payload(disk)' = backup_payload(disk)
    BY Zenon, <1>3 DEF backup_payload, strip_snapshot_to_identity
  <1>5. ~late /\ backup # NoBundle => Covers(backup_payload(disk), backup.blob.payload)
    BY Zenon, <1>1 DEF RecoveryInv, Remembered
  <1>6. changes' # changes
    BY Zenon, <1>1, <1>2, ChangesCount
  <1>7. Left /\ WordsLeft /\ PinLeft /\ PayloadLeft
    BY <1>1, <1>3, <1>4, <1>5, CoversSelf DEF Left, WordsLeft, PinLeft, PayloadLeft
  <1> QED
    BY Zenon, <1>7, UploadsKeeps

\* The upload is tried again.
LEMMA RetryUploadKeeps == ASSUME RecoveryInv, retryUpload PROVE RecoveryInv'
  <1>1. /\ screen = "RetryUpload" /\ ~Busy /\ disk' = backup_bundle_current(disk)
        /\ task' = [task EXCEPT !["screen"] =
                        [pc |-> "holds", bundle |-> disk'.bundle, at |-> changes']]
        /\ UNCHANGED <<backend, screen, fetched, requests, backup, changes, faults, deaths,
                       phrase, enrolledAt, excused, reenrolled, adopted, late>>
    BY Zenon DEF retryUpload, Uploads, Holding, Busy, counters, userHistory
  <1>2. disk \in Disk /\ changes \in Nat /\ Enrolled
    BY Zenon, <1>1 DEF RecoveryInv, DeviceTyped, Enrolled
  <1>3. /\ disk' \in Disk /\ disk'.bundle \in Whole /\ disk'.bk = disk'.bundle.blob.bk
        /\ disk'.bundle.w_phrase = disk.bundle.w_phrase /\ disk'.bundle.w_pin = disk.bundle.w_pin
        /\ disk'.bundle.blob.payload = backup_payload(disk)
        /\ disk'.identity = disk.identity /\ disk'.contact = disk.contact
    BY <1>1, <1>2, CurrentLeaves DEF RecoveryInv, Staged
  <1>4. backup_payload(disk)' = backup_payload(disk)
    BY Zenon, <1>3 DEF backup_payload, strip_snapshot_to_identity
  <1>5. ~late /\ backup # NoBundle => Covers(backup_payload(disk), backup.blob.payload)
    BY Zenon, <1>2, CoversChain DEF RecoveryInv, Remembered
  <1>6. ~adopted => disk'.bundle.w_phrase.secret = enrolledAt
    BY Zenon, <1>2, <1>3 DEF RecoveryInv, Worded
  <1>7. Left /\ WordsLeft /\ PinLeft /\ PayloadLeft
    BY Zenon, <1>1, <1>3, <1>4, <1>5, <1>6, CoversSelf
       DEF Left, WordsLeft, PinLeft, PayloadLeft
  <1> QED
    BY Zenon, <1>7, UploadsKeeps

\* backup_rewrap_pin, on a store that has a bundle.
LEMMA RewrapLeaves ==
    ASSUME NEW d \in Disk, d.bundle \in Whole, d.bk = d.bundle.blob.bk,
           NEW pin \in Nat, NEW e, e = backup_rewrap_pin(d, pin)
    PROVE  /\ e \in Disk /\ e.bundle \in Whole /\ e.bk = e.bundle.blob.bk
           /\ e.bundle.w_phrase = d.bundle.w_phrase /\ e.bundle.blob = d.bundle.blob
           /\ e.identity = d.identity /\ e.contact = d.contact
  <1>1. PICK b : b = [d.bundle EXCEPT !.w_pin = [secret |-> pin, bk |-> d.bk]]
    BY Zenon
  <1>2. e = [d EXCEPT !.bundle = b]
    BY Zenon, <1>1 DEF backup_rewrap_pin, wrap_bk
  <1>3. /\ b.w_pin = [secret |-> pin, bk |-> d.bk]
        /\ b.blob = d.bundle.blob /\ b.w_phrase = d.bundle.w_phrase
    BY <1>1
  <1>4. b \in Whole
    BY Zenon, <1>1 DEF Whole, Wrap
  <1>5. e.bk = d.bk /\ e.bundle = b /\ e.identity = d.identity /\ e.contact = d.contact
    BY Zenon, <1>2 DEF Disk
  <1>6. e \in Disk
    BY Zenon, <1>2, <1>4 DEF Disk
  <1> QED
    BY Zenon, <1>3, <1>4, <1>5, <1>6

\* The PIN is changed on a device that has its engine.
LEMMA ApplyNewPinKeeps ==
    ASSUME RecoveryInv, NEW pin \in Pins, applyNewPin(pin) PROVE RecoveryInv'
  <1>1. /\ screen = "NewPin" /\ ~Busy /\ changes' = changes + 1
        /\ disk' = backup_rewrap_pin(disk, pin)
        /\ task' = [task EXCEPT !["screen"] =
                        [pc |-> "holds", bundle |-> disk'.bundle, at |-> changes']]
        /\ UNCHANGED <<backend, screen, fetched, requests, backup, faults, deaths, phrase,
                       enrolledAt, excused, reenrolled, adopted, late>>
    BY Zenon DEF applyNewPin, Uploads, Holding, Busy, userHistory
  <1>2. disk \in Disk /\ changes \in Nat /\ pin \in Nat /\ Enrolled
    BY Zenon, <1>1, PinsAreNumbers DEF RecoveryInv, DeviceTyped, Enrolled
  <1>3. /\ disk' \in Disk /\ disk'.bundle \in Whole /\ disk'.bk = disk'.bundle.blob.bk
        /\ disk'.bundle.w_phrase = disk.bundle.w_phrase /\ disk'.bundle.blob = disk.bundle.blob
        /\ disk'.identity = disk.identity /\ disk'.contact = disk.contact
    BY <1>1, <1>2, RewrapLeaves DEF RecoveryInv, Staged
  <1>4. backup_payload(disk)' = backup_payload(disk)
    BY Zenon, <1>3 DEF backup_payload, strip_snapshot_to_identity
  <1>5. /\ ~late /\ backup # NoBundle => Covers(disk.bundle.blob.payload, backup.blob.payload)
        /\ Covers(backup_payload(disk), disk.bundle.blob.payload)
        /\ task["uploader"].pc # "idle" => disk.bundle.blob.payload = backup_payload(disk)
    BY Zenon, <1>1, <1>2 DEF RecoveryInv, Remembered, Complete
  <1>6. changes' # changes
    BY Zenon, <1>1, <1>2, ChangesCount
  <1>7. ~adopted => disk'.bundle.w_phrase.secret = enrolledAt
    BY Zenon, <1>2, <1>3 DEF RecoveryInv, Worded
  <1>8. Left /\ WordsLeft /\ PinLeft /\ PayloadLeft
    BY Zenon, <1>1, <1>3, <1>4, <1>5, <1>6, <1>7 DEF Left, WordsLeft, PinLeft, PayloadLeft
  <1> QED
    BY Zenon, <1>8, UploadsKeeps

\* A device restored by the words gets a new PIN.
LEMMA RestoreNewPinKeeps ==
    ASSUME RecoveryInv, NEW pin \in Pins, RestoreNewPin(pin) PROVE RecoveryInv'
  <1>1. PICK d : d = new_from_backup(fetched, fetched.w_phrase.bk)
    BY Zenon
  <1>2. /\ screen = "RestoreNewPin" /\ ~Busy /\ changes' = changes + 1
        /\ disk' = backup_rewrap_pin(d, pin)
        /\ task' = [task EXCEPT !["screen"] =
                        [pc |-> "holds", bundle |-> disk'.bundle, at |-> changes']]
        /\ UNCHANGED <<backend, screen, fetched, requests, backup, faults, deaths, phrase,
                       enrolledAt, excused, reenrolled, adopted, late>>
    BY Zenon, <1>1 DEF RestoreNewPin, Uploads, Holding, Busy, userHistory
  <1>3. changes \in Nat /\ pin \in Nat /\ fetched \in Whole /\ fetched.w_phrase.secret = enrolledAt
    BY Zenon, <1>2, PinsAreNumbers DEF RecoveryInv, DeviceTyped, Staged
  <1>4. fetched.w_phrase.bk = fetched.blob.bk
    BY Zenon, <1>3 DEF Whole
  <1>5. /\ d \in Disk /\ d.bundle = fetched /\ d.bk = fetched.blob.bk
        /\ Covers(backup_payload(d), fetched.blob.payload)
    BY Zenon, <1>1, <1>3, <1>4, RestoreLeaves
  <1>6. /\ disk' \in Disk /\ disk'.bundle \in Whole /\ disk'.bk = disk'.bundle.blob.bk
        /\ disk'.bundle.w_phrase = fetched.w_phrase /\ disk'.bundle.blob = fetched.blob
        /\ disk'.identity = d.identity /\ disk'.contact = d.contact
    BY <1>2, <1>3, <1>5, RewrapLeaves
  <1>7. backup_payload(disk)' = backup_payload(d)
    BY Zenon, <1>6 DEF backup_payload, strip_snapshot_to_identity
  <1>8. task["uploader"].pc = "idle"
    BY Zenon, <1>2 DEF RecoveryInv, Staged, Onboarding
  <1>9. ~late /\ backup # NoBundle => Covers(fetched.blob.payload, backup.blob.payload)
    BY Zenon, <1>2 DEF RecoveryInv, Remembered
  <1>10. changes' # changes
    BY Zenon, <1>2, <1>3, ChangesCount
  <1>11. Left /\ WordsLeft /\ PinLeft /\ PayloadLeft
    BY <1>2, <1>3, <1>5, <1>6, <1>7, <1>8, <1>9, CoversSelf
       DEF Left, WordsLeft, PinLeft, PayloadLeft
  <1> QED
    BY Zenon, <1>11, UploadsKeeps

-----------------------------------------------------------------------------
(* Recovery: what the device promises *)

\* A new device satisfies the invariant.
LEMMA RecoveryInvInit == RecoveryInit => RecoveryInv
  <1> SUFFICES ASSUME RecoveryInit PROVE RecoveryInv
    BY Zenon
  <1>1. Empty \in Disk /\ NoTask \in Coroutine /\ NoTask.pc = "idle"
    BY Zenon DEF Empty, Disk, NoTask, Coroutine
  <1>2. DeviceTyped
    BY Zenon, <1>1 DEF RecoveryInit, DeviceTyped, Stage, Onboarding
  <1>3. ~Busy /\ ~Enrolled /\ ~Settled /\ ~UploadTaken
    BY Zenon, <1>1 DEF RecoveryInit, Busy, Enrolled, Settled, UploadTaken, Telling
  <1>4. \A k \in {"screen", "uploader"} : task[k].pc = "idle" /\ ~Uploading(k)
    <2>1. task = [k \in {"screen", "uploader"} |-> NoTask]
      BY Zenon DEF RecoveryInit
    <2>2. \A k \in {"screen", "uploader"} : task[k] = NoTask
      BY Zenon, <2>1
    <2> QED
      BY Zenon, <1>1, <2>2 DEF Uploading
  <1>5. Staged /\ Worded /\ Pinned /\ Remembered
    BY <1>3, <1>4 DEF RecoveryInit, Staged, Worded, Pinned, Remembered
  <1> QED
    BY Zenon, <1>2, <1>5 DEF RecoveryInv

\* Every step keeps the invariant.
LEMMA RecoveryInvStep == RecoveryInv /\ [RecoveryNext]_recoveryVars => RecoveryInv'
  <1> SUFFICES ASSUME RecoveryInv, [RecoveryNext]_recoveryVars PROVE RecoveryInv'
    BY Zenon
  <1>1. CASE \E pin \in Pins : Enroll(pin) \/ applyNewPin(pin) \/ RestoreNewPin(pin)
    BY <1>1, EnrollKeeps, ApplyNewPinKeeps, RestoreNewPinKeeps, Zenon
  <1>2. CASE PhraseNoted \/ OpenChangePin \/ retryUpload \/ Leave
    BY <1>2, PhraseNotedKeeps, OpenChangePinKeeps, RetryUploadKeeps, LeaveKeeps, Zenon
  <1>3. CASE \E secret \in Pins \cup {phrase} : Verify(secret)
    BY <1>3, VerifyKeeps, Zenon
  <1>4. CASE RestoreByPin \/ RestoreByPhrase
    BY <1>4, RestoreByPinKeeps, RestoreByPhraseKeeps, Zenon
  <1>5. CASE Connect \/ PeerPairs \/ PairWith \/ Elapse
    BY <1>5, ConnectKeeps, PeerPairsKeeps, PairWithKeeps, ElapseKeeps, Zenon
  <1>6. CASE \E k \in {"screen", "uploader"} : Put(k) \/ Answered(k) \/ Failed(k)
    BY Zenon, <1>6, PutKeeps, AnsweredScreenKeeps, AnsweredUploaderKeeps, FailedKeeps
  <1>7. CASE \E r \in requests : Applies(r)
    BY <1>7, AppliesKeeps, Zenon
  <1>8. CASE AppDies \/ DeviceLost
    BY <1>8, AppDiesKeeps, DeviceLostKeeps, Zenon
  <1>9. CASE UNCHANGED recoveryVars
    <2>1. /\ UNCHANGED <<disk, backend, screen, fetched, task, requests, backup, changes, faults>>
          /\ UNCHANGED <<deaths, phrase, enrolledAt, excused, reenrolled, adopted, late>>
      BY Zenon, <1>9 DEF recoveryVars
    <2>2. DeviceTyped' /\ Staged'
      BY <2>1 DEF RecoveryInv, DeviceTyped, Staged, Enrolled, Busy, Uploading
    <2>3. Worded' /\ Pinned'
      BY Zenon, <2>1
         DEF RecoveryInv, Worded, Pinned, Enrolled, Busy, Uploading, UploadTaken, Settled
    <2>4. backup_payload(disk)' = backup_payload(disk)
      BY Zenon, <2>1
    <2>5. Remembered'
      BY Zenon, <2>1 DEF RecoveryInv, Remembered, Complete, Enrolled, Busy, Uploading
    <2> QED
      BY Zenon, <2>2, <2>3, <2>5 DEF RecoveryInv
  <1> QED
    BY <1>1, <1>2, <1>3, <1>4, <1>5, <1>6, <1>7, <1>8, <1>9, Zenon DEF RecoveryNext

\* The invariant holds of every behaviour.
LEMMA RecoveryInvHolds == RecoverySpec => []RecoveryInv
  BY RecoveryInvInit, RecoveryInvStep, PTL DEF RecoverySpec

(* The words the user was shown open the row, and the PIN's wrap holds the  *)
(* same key, whatever was uploaded since (core/src/backup.rs build_bundle,  *)
(* backup_rewrap_pin; App.kt enroll), unless the row is, or a device was    *)
(* restored from, an enrollment that was given up and arrived last.         *)
THEOREM TheWordsRestore == RecoverySpec => []PhraseRestores
  <1>1. RecoveryInv => PhraseRestores
    <2> SUFFICES ASSUME RecoveryInv, backup # NoBundle
                 PROVE  /\ backup.w_pin.bk = backup.blob.bk /\ backup.w_phrase.bk = backup.blob.bk
                        /\ phrase # 0 => backup.w_phrase.secret = phrase \/ reenrolled
      BY Zenon DEF PhraseRestores
    <2>1. backup.w_pin.bk = backup.blob.bk /\ backup.w_phrase.bk = backup.blob.bk
      BY Zenon DEF RecoveryInv, DeviceTyped, Whole
    <2>2. phrase # 0 /\ ~reenrolled => backup.w_phrase.secret = phrase
      BY Zenon DEF RecoveryInv, Staged, Worded
    <2> QED
      BY Zenon, <2>1, <2>2
  <1> QED
    BY <1>1, RecoveryInvHolds, PTL

(* Changes that were seen through leave the row with the PIN of the device, *)
(* however their uploads fail, are retried and interleave with others.  Not *)
(* after a change that the user left or that died midway, nor after an      *)
(* upload of an earlier bundle came last: ChangePinScreen is silent there.  *)
THEOREM SeenThroughPinsAgree == RecoverySpec => []PinsAgree
  <1>1. RecoveryInv => PinsAgree
    BY Zenon DEF RecoveryInv, Pinned, Settled, Busy, PinsAgree
  <1> QED
    BY <1>1, RecoveryInvHolds, PTL

(* No awaited upload takes an identity or a contact out of the backup       *)
(* (backup_payload, backup_bundle_current, BackupUploader.schedule).        *)
THEOREM BackupRemembers == RecoverySpec => BackupNeverForgets
  <1>1. RecoveryInv /\ [RecoveryNext]_recoveryVars =>
          [(backup # NoBundle /\ ~late') =>
            /\ backup.blob.payload.contact => backup'.blob.payload.contact
            /\ backup.blob.payload.identity \in {0, backup'.blob.payload.identity}]_recoveryVars
    <2> SUFFICES ASSUME RecoveryInv, [RecoveryNext]_recoveryVars, backup # NoBundle, ~late'
                 PROVE  Covers(backup'.blob.payload, backup.blob.payload)
      BY Zenon DEF Covers
    <2>1. CASE backup' = backup
      BY Zenon, <2>1, CoversSelf
    <2>2. CASE \E r \in requests : Applies(r)
      <3>1. PICK r \in requests : Applies(r)
        BY Zenon, <2>2
      <3>2. backup' = r.bundle /\ ~late /\ r.by # None
        BY Zenon, <3>1 DEF Applies
      <3>3. r.by \in {"screen", "uploader"} /\ r.bundle = task[r.by].bundle /\ task[r.by].pc = "waits"
        BY Zenon, <3>2 DEF RecoveryInv, DeviceTyped, Staged, Upload
      <3>4. CASE r.by = "screen"
        BY Zenon, <3>2, <3>3, <3>4 DEF RecoveryInv, Remembered, Busy
      <3>5. CASE r.by = "uploader"
        <4>1. Enrolled /\ Uploading("uploader") /\ task["uploader"].pc # "idle"
          BY Zenon, <3>3, <3>5 DEF RecoveryInv, Staged, Enrolled, Onboarding, Uploading
        <4>2. task["uploader"].bundle.blob.payload = disk.bundle.blob.payload
          BY Zenon, <4>1 DEF RecoveryInv, Remembered, Complete
        <4> QED
          BY Zenon, <4>1, <4>2, <3>2, <3>3, <3>5 DEF RecoveryInv, Remembered
      <3> QED
        BY Zenon, <3>3, <3>4, <3>5
    <2>3. (\E r \in requests : Applies(r)) \/ backup' = backup
      BY Zenon
         DEF RecoveryNext, recoveryVars, Enroll, applyNewPin, RestoreNewPin, PhraseNoted,
             OpenChangePin, retryUpload, Leave, Verify, RestoreByPin, RestoreByPhrase,
             Connect, PeerPairs, PairWith, Elapse, Put, Answered, Failed, AppDies,
             DeviceLost
    <2> QED
      BY Zenon, <2>1, <2>2, <2>3
  <1> QED
    BY <1>1, RecoveryInvHolds, PTL DEF RecoverySpec, BackupNeverForgets

=============================================================================
