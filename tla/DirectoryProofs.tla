-------------------------- MODULE DirectoryProofs ---------------------------
(***************************************************************************)
(* The directory's claims of usernames and its restores, for any accounts, *)
(* nicknames, widths, transactions, requests and tokens.                   *)
(*                                                                         *)
(* Usernames: the argument is about what only grows.  While no slot of a   *)
(* nickname is given up, the slots taken under it only grow; a width in    *)
(* use, or chosen by a transaction, was chosen when every narrower one was *)
(* full; so a claim that would narrow the nickname has a slot that is      *)
(* taken by now, and meets the UNIQUE constraint.                          *)
(*                                                                         *)
(* Restores: the row counts the wrong PINs, its lockout ends no sooner     *)
(* than all the lockouts so far take, and the one transaction that may     *)
(* compare a PIN holds the row.                                            *)
(***************************************************************************)
EXTENDS Usernames, DirectoryRestore, TLAPS

-----------------------------------------------------------------------------
(* Claims of usernames *)

\* Every width narrower than w is full under nickname n.
FullBelow(n, w) == \A x \in Width : x < w => 1 .. SlotCount[x] \subseteq Taken(n)

\* Transactions that have read a width, and that have chosen a slot.
Reading == {"taken", "upsert", "update"}
Writing == {"upsert", "update"}

\* The inductive invariant.
UsernamesInv ==
    /\ ClaimTypeOK
    /\ \A u, v \in User :
         u # v /\ nickname[u] # NoNick /\ nickname[u] = nickname[v] =>
             discriminator[u] # discriminator[v]
    /\ \A n \in Nick \ released : FullBelow(n, widths[n])
    /\ \A t \in Tx : tx[t].at \in Reading /\ tx[t].nick \notin released =>
         FullBelow(tx[t].nick, tx[t].width)
    /\ \A t \in Tx : tx[t].at \in Writing =>
         /\ tx[t].slot \in 1 .. SlotCount[tx[t].width]
         /\ t \notin overtaken => tx[t].slot \notin Taken(tx[t].nick)
    /\ \A b \in buried :
         /\ b.user \in deleted /\ nickname[b.user] = b.nick /\ b.nick # NoNick
         /\ discriminator[b.user] = b.slot
         /\ \A t \in Tx : tx[t] = NoClaim \/ tx[t].user # b.user

\* A transaction's fields, by where it stands.
LEMMA TxTypes ==
    ASSUME ClaimTypeOK, NEW t \in Tx
    PROVE  /\ tx[t] = NoClaim \/ tx[t].at \in {"width"} \cup Reading
           /\ tx[t] # NoClaim <=> tx[t].at # "idle"
           /\ tx[t].at \in {"width"} \cup Reading => tx[t].user \in User /\ tx[t].nick \in Nick
           /\ tx[t].at \in Reading => tx[t].width \in Width
           /\ tx[t].at \in Writing => tx[t].slot \in Nat
  <1>1. CASE tx[t] = NoClaim
    BY <1>1 DEF NoClaim, Reading, Writing
  <1>2. CASE tx[t] \in [at : {"width"}, user : User, nick : Nick]
    BY <1>2 DEF NoClaim, Reading, Writing
  <1>3. CASE tx[t] \in [at : {"taken"}, user : User, nick : Nick, width : Width]
    BY <1>3 DEF NoClaim, Reading, Writing
  <1>4. CASE tx[t] \in [at : {"upsert", "update"}, user : User, nick : Nick, width : Width, slot : Nat]
    BY <1>4 DEF NoClaim, Reading, Writing
  <1> QED BY Zenon, <1>1, <1>2, <1>3, <1>4 DEF ClaimTypeOK

\* Nothing is claimed at first.
LEMMA UsernamesInitially == ClaimInit => UsernamesInv
  <1> SUFFICES ASSUME ClaimInit PROVE UsernamesInv
    BY Zenon
  <1>1. ClaimTypeOK
    BY Zenon DEF ClaimInit, ClaimTypeOK
  <1>2. \A t \in Tx : tx[t].at = "idle"
    BY Zenon DEF ClaimInit, NoClaim
  <1>3. \A n \in Nick : FullBelow(n, widths[n])
    BY UsernamesAssumption DEF ClaimInit, FullBelow, Width
  <1> QED BY Zenon, <1>1, <1>2, <1>3 DEF ClaimInit, UsernamesInv, Reading, Writing

\* A step that changes no row, and one transaction at most, keeps what the others
\* have: what remains is the transaction that moved.
LEMMA TxMoves ==
    ASSUME UsernamesInv, NEW t \in Tx, UNCHANGED <<rows, released, buried>>,
           NEW r, tx' = [tx EXCEPT ![t] = r], ClaimTypeOK',
           overtaken \ {t} \subseteq overtaken',
           t \in overtaken => t \in overtaken' \/ r.at \notin Writing,
           r = NoClaim \/ (tx[t] # NoClaim /\ r.user = tx[t].user) \/ r.user \notin deleted,
           r.at \in Reading /\ r.nick \notin released => FullBelow(r.nick, r.width),
           r.at \in Writing => /\ r.slot \in 1 .. SlotCount[r.width]
                               /\ t \notin overtaken' => r.slot \notin Taken(r.nick)
    PROVE  UsernamesInv'
  <1>1. /\ nickname' = nickname /\ discriminator' = discriminator /\ deleted' = deleted
        /\ widths' = widths /\ released' = released /\ buried' = buried
    BY Zenon DEF rows
  <1>2. \A n : Taken(n)' = Taken(n)
    BY Zenon, <1>1 DEF Taken
  <1>3. \A n, w : FullBelow(n, w) => FullBelow(n, w)'
    BY Zenon, <1>1, <1>2 DEF FullBelow
  <1>4. tx'[t] = r /\ \A o \in Tx \ {t} : tx'[o] = tx[o]
    BY DEF UsernamesInv, ClaimTypeOK
  <1>5. ASSUME NEW n \in Nick \ released PROVE FullBelow(n, widths[n])'
    BY Zenon, <1>1, <1>3 DEF UsernamesInv
  <1>6. ASSUME NEW o \in Tx, tx'[o].at \in Reading, tx'[o].nick \notin released
        PROVE  FullBelow(tx[o].nick, tx[o].width)'
    <2>1. FullBelow(tx'[o].nick, tx'[o].width)
      BY <1>4, <1>6 DEF UsernamesInv
    <2> QED BY Zenon, <1>3, <2>1
  <1>7. ASSUME NEW o \in Tx, tx'[o].at \in Writing
        PROVE  /\ tx'[o].slot \in 1 .. SlotCount[tx'[o].width]
               /\ o \notin overtaken' => tx'[o].slot \notin Taken(tx[o].nick)'
    <2>1. CASE o = t
      BY Zenon, <1>2, <1>4, <1>7, <2>1
    <2>2. CASE o # t
      BY <1>2, <1>4, <1>7, <2>2 DEF UsernamesInv
    <2> QED BY Zenon, <2>1, <2>2
  <1>8. ASSUME NEW b \in buried' PROVE \A o \in Tx : tx'[o] = NoClaim \/ tx'[o].user # b.user
    BY <1>1, <1>4 DEF UsernamesInv
  <1> QED BY <1>1, <1>5, <1>6, <1>7, <1>8 DEF UsernamesInv

\* Giving up: an abort, a conflict, or no slot left.
LEMMA IdleInv ==
    ASSUME UsernamesInv, NEW t \in Tx, tx' = [tx EXCEPT ![t] = NoClaim], UNCHANGED <<rows, claimHistory>>
    PROVE  UsernamesInv'
  <1>1. ClaimTypeOK'
    BY Zenon DEF UsernamesInv, ClaimTypeOK, rows, claimHistory
  <1>2. NoClaim.at = "idle"
    BY Zenon DEF NoClaim
  <1> QED BY Zenon, <1>1, <1>2, TxMoves DEF claimHistory, Reading, Writing

\* A claim begins.
LEMMA BeginInv ==
    ASSUME UsernamesInv, NEW t \in Tx, NEW u \in User, NEW n \in Nick, Begin(t, u, n)
    PROVE  UsernamesInv'
  <1> DEFINE r == [at |-> "width", user |-> u, nick |-> n]
  <1>1. /\ tx' = [tx EXCEPT ![t] = r] /\ u \notin deleted /\ overtaken' = overtaken \ {t}
        /\ UNCHANGED <<rows, released, buried>>
    BY Zenon DEF Begin
  <1>2. ClaimTypeOK'
    BY <1>1 DEF UsernamesInv, ClaimTypeOK, rows
  <1>3. r.at \notin Reading /\ r.at \notin Writing /\ r.user \notin deleted
    BY Zenon, <1>1 DEF Reading, Writing
  <1> QED BY Zenon, <1>1, <1>2, <1>3, TxMoves

\* The width read was in use, or is the least.
LEMMA ReadWidthInv == ASSUME UsernamesInv, NEW t \in Tx, ReadWidth(t) PROVE UsernamesInv'
  <1> DEFINE n == tx[t].nick
             w == Max2(widths[n], MinWidth)
             r == [at |-> "taken", user |-> tx[t].user, nick |-> n, width |-> w]
  <1>1. tx[t] # NoClaim /\ tx[t].user \in User /\ n \in Nick /\ widths[n] \in Width \cup {0}
    BY Zenon, TxTypes DEF UsernamesInv, ReadWidth, Reading, ClaimTypeOK
  <1>2. w \in Width /\ \A x \in Width : x < w => x < widths[n]
    BY <1>1, UsernamesAssumption DEF Max2, Width
  <1>3. n \notin released => FullBelow(n, w)
    BY Zenon, <1>1, <1>2 DEF UsernamesInv, FullBelow
  <1>4. tx' = [tx EXCEPT ![t] = r] /\ UNCHANGED <<rows, claimHistory>>
    BY Zenon DEF ReadWidth
  <1> HIDE DEF w
  <1>5. r \in [at : {"taken"}, user : User, nick : Nick, width : Width]
    BY Zenon, <1>1, <1>2
  <1>6. ClaimTypeOK'
    BY Zenon, <1>4, <1>5 DEF UsernamesInv, ClaimTypeOK, rows, claimHistory
  <1>7. r.at \notin Writing /\ r.user = tx[t].user /\ r.nick = n /\ r.width = w
    BY Zenon DEF Writing
  <1> HIDE DEF r
  <1> QED BY Zenon, <1>1, <1>3, <1>4, <1>6, <1>7, TxMoves DEF claimHistory

\* The width chosen is full below, and the slot free.
LEMMA ReadTakenInv == ASSUME UsernamesInv, NEW t \in Tx, ReadTaken(t) PROVE UsernamesInv'
  <1> DEFINE n == tx[t].nick
  <1>1. tx[t] # NoClaim /\ tx[t].user \in User /\ n \in Nick /\ tx[t].width \in Width
    BY Zenon, TxTypes DEF UsernamesInv, ReadTaken, Reading
  <1>2. CASE tx' = [tx EXCEPT ![t] = NoClaim]
    BY Zenon, <1>2, IdleInv DEF ReadTaken
  <1>3. ASSUME NEW v \in Width, NEW s \in Free(n, v), Widened(n, tx[t].width, v),
               tx' = [tx EXCEPT ![t] = [at |-> "upsert", user |-> tx[t].user, nick |-> n,
                                        width |-> v, slot |-> s]]
        PROVE  UsernamesInv'
    <2> DEFINE r == [at |-> "upsert", user |-> tx[t].user, nick |-> n, width |-> v, slot |-> s]
    <2>1. UNCHANGED <<rows, claimHistory>>
      BY Zenon DEF ReadTaken
    <2>2. s \in 1 .. SlotCount[v] /\ s \notin Taken(n)
      BY Zenon, <1>3 DEF Free
    <2>3. SlotCount[v] \in Nat /\ s \in Nat
      BY <1>3, <2>2, UsernamesAssumption DEF Width
    <2>4. n \notin released => FullBelow(n, v)
      <3> SUFFICES ASSUME n \notin released, NEW x \in Width, x < v
                   PROVE  1 .. SlotCount[x] \subseteq Taken(n)
        BY Zenon DEF FullBelow
      <3>1. CASE x < tx[t].width
        BY Zenon, <1>1, <3>1 DEF UsernamesInv, FullBelow, ReadTaken, Reading
      <3>2. CASE ~(x < tx[t].width)
        <4>1. x \in tx[t].width .. v - 1
          BY <1>1, <1>3, <3>2, UsernamesAssumption DEF Width
        <4>2. Free(n, x) = {}
          BY Zenon, <1>3, <4>1 DEF Widened
        <4> QED BY Zenon, <4>2 DEF Free
      <3> QED BY Zenon, <3>1, <3>2
    <2>5. r \in [at : {"upsert", "update"}, user : User, nick : Nick, width : Width, slot : Nat]
      BY Zenon, <1>1, <1>3, <2>3
    <2>6. ClaimTypeOK'
      BY Zenon, <1>3, <2>1, <2>5 DEF UsernamesInv, ClaimTypeOK, rows, claimHistory
    <2>7. r.user = tx[t].user /\ r.nick = n /\ r.width = v /\ r.slot = s
      BY Zenon
    <2> HIDE DEF r
    <2> QED BY Zenon, <1>1, <1>3, <2>1, <2>2, <2>4, <2>6, <2>7, TxMoves DEF claimHistory, r
  <1> QED BY Zenon, <1>2, <1>3 DEF ReadTaken

\* The lock is taken.
LEMMA UpsertInv == ASSUME UsernamesInv, NEW t \in Tx, UpsertWidth(t) PROVE UsernamesInv'
  <1> DEFINE r == [tx[t] EXCEPT !.at = "update"]
  <1>1. /\ tx[t].at = "upsert" /\ tx[t] # NoClaim
        /\ tx[t] \in [at : {"upsert", "update"}, user : User, nick : Nick, width : Width, slot : Nat]
    BY DEF UsernamesInv, ClaimTypeOK, UpsertWidth, NoClaim
  <1>2. tx' = [tx EXCEPT ![t] = r] /\ UNCHANGED <<rows, claimHistory>>
    BY Zenon DEF UpsertWidth
  <1>3. r \in [at : {"upsert", "update"}, user : User, nick : Nick, width : Width, slot : Nat]
    BY Zenon, <1>1
  <1>4. /\ r.user = tx[t].user /\ r.nick = tx[t].nick /\ r.width = tx[t].width
        /\ r.slot = tx[t].slot /\ r.at \in Writing
    BY Zenon, <1>1 DEF Writing
  <1>5. ClaimTypeOK'
    BY Zenon, <1>2, <1>3 DEF UsernamesInv, ClaimTypeOK, rows, claimHistory
  <1>6. /\ tx[t].nick \notin released => FullBelow(tx[t].nick, tx[t].width)
        /\ tx[t].slot \in 1 .. SlotCount[tx[t].width]
        /\ t \notin overtaken => tx[t].slot \notin Taken(tx[t].nick)
    BY Zenon, <1>1 DEF UsernamesInv, Reading, Writing
  <1> HIDE DEF r
  <1> QED BY Zenon, <1>1, <1>2, <1>4, <1>5, <1>6, TxMoves DEF claimHistory

\* What a commit does to the slots taken: under a nickname that loses none, they
\* only grow; under another than the one claimed, none is added.
LEMMA CommitTaken ==
    ASSUME UsernamesInv, NEW t \in Tx, Commit(t), NEW n \in Nick
    PROVE  /\ n \notin released' => Taken(n) \subseteq Taken(n)'
           /\ n # tx[t].nick => Taken(n)' \subseteq Taken(n)
  <1> DEFINE u == tx[t].user
  <1>1. /\ u \in User /\ tx[t].nick \in Nick
        /\ nickname' = [nickname EXCEPT ![u] = tx[t].nick]
        /\ discriminator' = [discriminator EXCEPT ![u] = tx[t].slot]
        /\ released' = released \cup ({nickname[u]} \ {NoNick})
    BY Zenon, TxTypes DEF Commit, UsernamesInv, Reading
  <1>2. \A v \in User \ {u} : nickname'[v] = nickname[v] /\ discriminator'[v] = discriminator[v]
    BY <1>1 DEF UsernamesInv, ClaimTypeOK
  <1>3. nickname'[u] = tx[t].nick
    BY Zenon, <1>1 DEF UsernamesInv, ClaimTypeOK
  <1>4. n \notin released' => nickname[u] # n
    BY Zenon, <1>1, UsernamesAssumption
  <1> QED BY <1>2, <1>3, <1>4 DEF Taken

\* A claim commits.
LEMMA CommitInv == ASSUME UsernamesInv, NEW t \in Tx, Commit(t) PROVE UsernamesInv'
  <1> DEFINE u == tx[t].user
             n == tx[t].nick
             s == tx[t].slot
  <1>1. /\ u \in User /\ n \in Nick /\ tx[t].width \in Width /\ s \in Nat
        /\ tx[t].at = "update" /\ tx[t] # NoClaim /\ ~Conflicts(t)
    BY Zenon, TxTypes DEF Commit, UsernamesInv, Reading, Writing, NoClaim
  <1>2. /\ nickname' = [nickname EXCEPT ![u] = n] /\ discriminator' = [discriminator EXCEPT ![u] = s]
        /\ widths' = [widths EXCEPT ![n] = tx[t].width]
        /\ released' = released \cup ({nickname[u]} \ {NoNick})
        /\ overtaken' = overtaken \cup {o \in Tx \ {t} : tx[o].at \in Writing /\ tx[o].nick = n}
        /\ tx' = [tx EXCEPT ![t] = NoClaim]
        /\ deleted' = deleted /\ buried' = buried
    BY Zenon DEF Commit, Writing
  <1>3. /\ nickname'[u] = n /\ discriminator'[u] = s
        /\ \A v \in User \ {u} : nickname'[v] = nickname[v] /\ discriminator'[v] = discriminator[v]
    BY <1>1, <1>2 DEF UsernamesInv, ClaimTypeOK
  <1>4. tx'[t] = NoClaim /\ \A o \in Tx \ {t} : tx'[o] = tx[o]
    BY Zenon, <1>2 DEF UsernamesInv, ClaimTypeOK
  <1>5. ClaimTypeOK'
    BY <1>1, <1>2 DEF UsernamesInv, ClaimTypeOK
  <1>6. ASSUME NEW m \in Nick, m \notin released', NEW w, FullBelow(m, w) PROVE FullBelow(m, w)'
    BY Zenon, <1>6, CommitTaken DEF FullBelow
  <1>7. \A a, b \in User : a # b /\ nickname'[a] # NoNick /\ nickname'[a] = nickname'[b] =>
            discriminator'[a] # discriminator'[b]
    BY <1>1, <1>3 DEF UsernamesInv, Conflicts
  <1>8. ASSUME NEW m \in Nick, m \notin released' PROVE FullBelow(m, widths[m])'
    <2>1. FullBelow(m, widths'[m])
      <3>1. m \notin released
        BY Zenon, <1>2, <1>8
      <3>2. CASE m = n
        <4>1. widths'[m] = tx[t].width
          BY Zenon, <1>1, <1>2, <3>2 DEF UsernamesInv, ClaimTypeOK
        <4>2. FullBelow(n, tx[t].width)
          BY Zenon, <1>1, <3>1, <3>2 DEF UsernamesInv, Reading
        <4> QED BY Zenon, <3>2, <4>1, <4>2
      <3>3. CASE m # n
        <4>1. widths'[m] = widths[m]
          BY Zenon, <1>2, <3>3 DEF UsernamesInv, ClaimTypeOK
        <4> QED BY Zenon, <3>1, <4>1 DEF UsernamesInv
      <3> QED BY Zenon, <3>2, <3>3
    <2> QED BY Zenon, <1>6, <1>8, <2>1
  <1>9. ASSUME NEW o \in Tx, tx'[o].at \in Reading, tx'[o].nick \notin released'
        PROVE  FullBelow(tx[o].nick, tx[o].width)'
    <2>1. o # t
      BY <1>4, <1>9 DEF NoClaim, Reading
    <2>2. tx'[o] = tx[o] /\ tx[o].nick \in Nick /\ tx[o].nick \notin released
      BY <1>2, <1>4, <1>9, <2>1, TxTypes DEF UsernamesInv
    <2>3. FullBelow(tx'[o].nick, tx'[o].width)
      BY Zenon, <1>9, <2>2 DEF UsernamesInv
    <2> QED BY Zenon, <1>6, <1>9, <2>2, <2>3
  <1>10. ASSUME NEW o \in Tx, tx'[o].at \in Writing
         PROVE  /\ tx'[o].slot \in 1 .. SlotCount[tx'[o].width]
                /\ o \notin overtaken' => tx'[o].slot \notin Taken(tx[o].nick)'
    <2>1. o # t
      BY <1>4, <1>10 DEF NoClaim, Writing
    <2>2. tx'[o] = tx[o] /\ tx[o].nick \in Nick
      BY Zenon, <1>4, <1>10, <2>1, TxTypes DEF UsernamesInv, Reading, Writing
    <2>3. tx[o].slot \in 1 .. SlotCount[tx[o].width] /\ (o \notin overtaken => tx[o].slot \notin Taken(tx[o].nick))
      BY Zenon, <1>10, <2>2 DEF UsernamesInv
    <2>4. o \notin overtaken' => o \notin overtaken /\ tx[o].nick # n
      BY Zenon, <1>2, <1>10, <2>1, <2>2
    <2>5. tx[o].nick # n => Taken(tx[o].nick)' \subseteq Taken(tx[o].nick)
      <3>1. PICK m \in Nick : m = tx[o].nick
        BY Zenon, <2>2
      <3>2. m # n => Taken(m)' \subseteq Taken(m)
        BY Zenon, CommitTaken
      <3> QED BY Zenon, <2>2, <3>1, <3>2
    <2> QED BY Zenon, <2>2, <2>3, <2>4, <2>5
  <1>11. ASSUME NEW b \in buried'
         PROVE  /\ b.user \in deleted' /\ nickname'[b.user] = b.nick /\ b.nick # NoNick
                /\ discriminator'[b.user] = b.slot
                /\ \A o \in Tx : tx'[o] = NoClaim \/ tx'[o].user # b.user
    <2>1. /\ b \in buried /\ b.user # u /\ b.user \in User
      BY <1>1, <1>2 DEF UsernamesInv, ClaimTypeOK
    <2> QED BY <1>2, <1>3, <1>4, <2>1 DEF UsernamesInv
  <1> QED BY Zenon, <1>5, <1>7, <1>8, <1>9, <1>10, <1>11 DEF UsernamesInv

\* An erasure leaves the handle where it is.
LEMMA EraseInv == ASSUME UsernamesInv, NEW u \in User, Erase(u) PROVE UsernamesInv'
  <1>1. /\ deleted' = deleted \cup {u} /\ buried' = buried \cup Buried(u)
        /\ nickname' = nickname /\ discriminator' = discriminator /\ widths' = widths
        /\ tx' = tx /\ released' = released /\ overtaken' = overtaken
    BY Zenon DEF Erase
  <1>2. ClaimTypeOK'
    BY Zenon, <1>1 DEF UsernamesInv, ClaimTypeOK
  <1>3. \A n : Taken(n)' = Taken(n)
    BY Zenon, <1>1 DEF Taken
  <1>4. \A n, w : FullBelow(n, w) => FullBelow(n, w)'
    BY Zenon, <1>3 DEF FullBelow
  <1>5. ASSUME NEW b \in buried'
        PROVE  /\ b.user \in deleted' /\ nickname'[b.user] = b.nick /\ b.nick # NoNick
               /\ discriminator'[b.user] = b.slot
               /\ \A o \in Tx : tx'[o] = NoClaim \/ tx'[o].user # b.user
    <2>1. CASE b \in buried
      BY Zenon, <1>1, <2>1 DEF UsernamesInv
    <2>2. CASE b \in Buried(u)
      BY <1>1, <2>2 DEF Buried
    <2> QED BY Zenon, <1>1, <2>1, <2>2
  <1>6. ASSUME NEW o \in Tx, tx'[o].at \in Reading, tx'[o].nick \notin released'
        PROVE  FullBelow(tx[o].nick, tx[o].width)'
    BY Zenon, <1>1, <1>4, <1>6 DEF UsernamesInv
  <1>7. ASSUME NEW n \in Nick \ released' PROVE FullBelow(n, widths[n])'
    BY Zenon, <1>1, <1>4 DEF UsernamesInv
  <1>8. ASSUME NEW o \in Tx, tx'[o].at \in Writing
        PROVE  /\ tx'[o].slot \in 1 .. SlotCount[tx'[o].width]
               /\ o \notin overtaken' => tx'[o].slot \notin Taken(tx[o].nick)'
    BY Zenon, <1>1, <1>3, <1>8 DEF UsernamesInv
  <1>9. \A a, b \in User : a # b /\ nickname'[a] # NoNick /\ nickname'[a] = nickname'[b] =>
            discriminator'[a] # discriminator'[b]
    BY Zenon, <1>1 DEF UsernamesInv
  <1> QED BY Zenon, <1>2, <1>5, <1>6, <1>7, <1>8, <1>9 DEF UsernamesInv

\* Every step keeps the invariant.
LEMMA UsernamesStep == UsernamesInv /\ [ClaimNext]_claimVars => UsernamesInv'
  <1> SUFFICES ASSUME UsernamesInv, [ClaimNext]_claimVars PROVE UsernamesInv'
    BY Zenon
  <1>1. CASE UNCHANGED claimVars
    BY <1>1 DEF claimVars, UsernamesInv, ClaimTypeOK, FullBelow, Taken
  <1>2. ASSUME NEW t \in Tx, Conflict(t) \/ Abort(t) PROVE UsernamesInv'
    BY Zenon, <1>2, IdleInv DEF Conflict, Abort
  <1> QED BY Zenon, <1>1, <1>2, BeginInv, ReadWidthInv, ReadTakenInv, UpsertInv, CommitInv,
             EraseInv
             DEF ClaimNext

\* The invariant holds throughout.
LEMMA UsernamesInvariant == ClaimSpec => []UsernamesInv
  BY UsernamesInitially, UsernamesStep, PTL DEF ClaimSpec

\* A handle always names one account.
THEOREM HandlesResolve == ClaimSpec => []HandleResolves
  <1>1. UsernamesInv => HandleResolves
    BY DEF UsernamesInv, ClaimTypeOK, HandleResolves, find_user_by_handle
  <1> QED BY <1>1, UsernamesInvariant, PTL

\* The handle of an erased account is nobody else's.
THEOREM ErasedHandlesReserved == ClaimSpec => []ErasedHandleReserved
  <1>1. UsernamesInv => ErasedHandleReserved
    BY DEF UsernamesInv, ClaimTypeOK, ErasedHandleReserved
  <1> QED BY <1>1, UsernamesInvariant, PTL

\* A claim that nobody overtakes gets its slot.
THEOREM LoneClaimsSucceed == ClaimSpec => []LoneClaimSucceeds
  <1>1. ASSUME UsernamesInv, NEW t \in Tx, tx[t].at = "update", Conflicts(t) PROVE t \in overtaken
    <2>1. tx[t].slot \in Taken(tx[t].nick)
      BY Zenon, <1>1 DEF Conflicts, Taken
    <2> QED BY Zenon, <1>1, <2>1 DEF UsernamesInv, Writing
  <1>2. UsernamesInv => LoneClaimSucceeds
    BY Zenon, <1>1 DEF LoneClaimSucceeds
  <1> QED BY <1>2, UsernamesInvariant, PTL

\* While no slot of a nickname is given up, its width never shrinks.
THEOREM WidthsOnlyWiden == ClaimSpec => WidthOnlyWidens
  <1>1. ASSUME UsernamesInv, NEW t \in Tx, Commit(t), NEW n \in Nick \ released'
        PROVE  widths'[n] >= widths[n]
    <2>1. /\ tx[t].user \in User /\ tx[t].nick \in Nick /\ tx[t].width \in Width
          /\ tx[t].at = "update" /\ ~Conflicts(t)
          /\ widths' = [widths EXCEPT ![tx[t].nick] = tx[t].width]
          /\ released' = released \cup ({nickname[tx[t].user]} \ {NoNick})
      BY Zenon, <1>1, TxTypes DEF Commit, UsernamesInv, Reading
    <2>2. widths \in [Nick -> Width \cup {0}] /\ widths[n] \in Nat /\ tx[t].width \in Nat
      <3>1. widths \in [Nick -> Width \cup {0}]
        BY Zenon, <1>1 DEF UsernamesInv, ClaimTypeOK
      <3>2. widths[n] \in Width \cup {0}
        BY Zenon, <3>1
      <3> QED BY <2>1, <3>1, <3>2, UsernamesAssumption DEF Width
    <2>3. CASE n # tx[t].nick
      <3>1. widths'[n] = widths[n]
        BY Zenon, <2>1, <2>2, <2>3
      <3> QED BY <2>2, <3>1
    <2>4. CASE n = tx[t].nick
      <3>1. widths'[n] = tx[t].width
        BY Zenon, <2>1, <2>2, <2>4
      <3>2. ASSUME tx[t].width < widths[n] PROVE FALSE
        <4>1. 1 .. SlotCount[tx[t].width] \subseteq Taken(n)
          BY Zenon, <1>1, <2>1, <3>2 DEF UsernamesInv, FullBelow
        <4>2. tx[t].slot \in 1 .. SlotCount[tx[t].width]
          BY Zenon, <1>1, <2>1 DEF UsernamesInv, Writing
        <4>3. PICK v \in User : nickname[v] = n /\ discriminator[v] = tx[t].slot
          BY Zenon, <4>1, <4>2 DEF Taken
        <4>4. v # tx[t].user
          BY Zenon, <1>1, <2>1, <4>3, UsernamesAssumption
        <4> QED BY Zenon, <2>1, <2>4, <4>3, <4>4 DEF Conflicts
      <3> QED BY <2>2, <3>1, <3>2
    <2> QED BY Zenon, <2>3, <2>4
  <1>2. ASSUME UsernamesInv, [ClaimNext]_claimVars, widths' # widths
        PROVE  \E t \in Tx : Commit(t)
    BY Zenon, <1>2
       DEF ClaimNext, claimVars, rows, Begin, ReadWidth, ReadTaken, UpsertWidth, Conflict,
           Abort, Erase
  <1>3. UsernamesInv /\ [ClaimNext]_claimVars => [\A n \in Nick \ released' : widths'[n] >= widths[n]]_widths
    BY Zenon, <1>1, <1>2
  <1> QED BY <1>3, UsernamesInvariant, PTL DEF ClaimSpec, WidthOnlyWidens

-----------------------------------------------------------------------------
(* Restores *)

\* The transaction that holds the row is the one comparing.
Held ==
    /\ \A r \in Req : req[r].at = "compare" => rowLock = r
    /\ rowLock \in Req => row # NoRow

\* The row counts the wrong PINs, and its lockout ends no sooner than all the
\* lockouts so far take.
Counted ==
    /\ row # NoRow => /\ row.attempts = wrong
                      /\ wrong >= 10 => row.until >= since + LockTime(wrong \div 10)
    /\ row = NoRow => wrong = 0
    /\ since <= clock

\* A request that compares read the row it holds, and a PIN only past the lockout.
Comparing(q) ==
    q.at = "compare" =>
        /\ q.attempts = wrong /\ q.now <= clock
        /\ q.pin => q.now >= since + LockTime(wrong \div 10)

\* Nothing is left to hand out of an erased account, unless a request raced it.
Gone ==
    ~live /\ ~raced => row = NoRow /\ \A r \in Req : req[r].at \notin {"upsert", "consume"}

\* The inductive invariant.
RestoreInv ==
    /\ TypeOK
    /\ Held
    /\ Counted
    /\ \A r \in Req : Comparing(req[r])
    /\ GuessingIsSlow
    /\ Gone

\* What requests are.
Slot == Request \cup {Idle}

\* An idle slot takes a request up.
LEMMA IdleMoves == ASSUME NEW step \in Step
                   PROVE  /\ [Idle EXCEPT !.at = step] \in Request
                          /\ [Idle EXCEPT !.at = step].at = step
  BY Zenon DEF Request, Idle

\* A token is presented, with a PIN or a phrase.
LEMMA Presented ==
    ASSUME NEW t \in Token, NEW pin \in BOOLEAN, NEW right \in BOOLEAN
    PROVE  [at |-> "check", token |-> t, pin |-> pin, right |-> right, now |-> 0,
            attempts |-> 0] \in Request
  BY Zenon DEF Request, Step

\* The service starts with a fresh bundle and nobody asking.
LEMMA RestoreInit == Init => RestoreInv
  <1> SUFFICES ASSUME Init PROVE RestoreInv
    BY Zenon
  <1>1. TypeOK
    BY Zenon, RestoreAssumption DEF Init, TypeOK, Clean, Row
  <1>2. Clean # NoRow /\ Clean.attempts = 0
    BY RestoreAssumption DEF Clean
  <1>3. Held /\ Counted /\ GuessingIsSlow /\ Gone
    BY <1>2, RestoreAssumption DEF Init, Held, Counted, GuessingIsSlow, Gone, Idle
  <1>4. ASSUME NEW r \in Req PROVE Comparing(req[r])
    BY Zenon DEF Init, Comparing, Idle
  <1> QED BY Zenon, <1>1, <1>3, <1>4 DEF RestoreInv

\* One more wrong PIN: the tenth costs a lockout, the others none.
LEMMA NextLockout ==
    ASSUME NEW n \in Nat
    PROVE  IF (n + 1) % 10 = 0
           THEN /\ n + 1 >= 10
                /\ LockTime((n + 1) \div 10) = LockTime(n \div 10) + LockoutHours((n + 1) \div 10)
           ELSE (n + 1) \div 10 = n \div 10 /\ (n + 1 >= 10 => n >= 10)
  <1>1. PICK k \in Nat, d \in 0 .. 9 : n = 10 * k + d /\ k = n \div 10
    OBVIOUS
  <1>2. CASE d = 9
    <2>1. (n + 1) % 10 = 0 /\ (n + 1) \div 10 = k + 1
      BY <1>1, <1>2
    <2>2. LockTime(k + 1) = LockTime(k) + LockoutHours(k + 1)
      BY DEF LockTime, LockoutHours
    <2> QED BY <1>1, <1>2, <2>1, <2>2
  <1>3. CASE d # 9
    <2>1. (n + 1) % 10 # 0 /\ (n + 1) \div 10 = k
      BY <1>1, <1>3
    <2> QED BY <1>1, <1>3, <2>1
  <1> QED BY Zenon, <1>2, <1>3

\* The lockouts take a number of hours, and k * 10 wrong PINs as many as one less.
LEMMA LockTimeNat == ASSUME NEW n \in Nat PROVE LockTime(n \div 10) \in Nat
  <1>1. PICK k \in Nat : k = n \div 10
    OBVIOUS
  <1> QED BY <1>1 DEF LockTime

\* Facts of the state, in the form the steps use.
LEMMA RestoreFacts ==
    ASSUME RestoreInv
    PROVE  /\ req \in [Req -> Slot] /\ \A r \in Req : Comparing(req[r])
           /\ wrong \in Nat /\ since \in Nat /\ clock \in Nat /\ since <= clock
           /\ row # NoRow => row \in Row
           /\ rowLock = NoReq => \A r \in Req : req[r].at # "compare"
  BY Zenon, RestoreAssumption DEF RestoreInv, TypeOK, Slot, Held, Counted

\* A request moves on without touching the row.
LEMMA RequestMoves ==
    ASSUME RestoreInv, NEW r \in Req, NEW q \in Slot, req' = [req EXCEPT ![r] = q],
           q.at # "compare", q.at \in {"upsert", "consume"} => live \/ raced,
           UNCHANGED <<live, row, rowLock, clock, wrong, since, raced>>,
           session' \in BOOLEAN, tokens' \in [Token -> Nat], minted' \subseteq Token,
           handed' \in [Token -> Nat]
    PROVE  RestoreInv'
  <1>1. /\ req' \in [Req -> Slot] /\ req'[r] = q
        /\ \A x \in Req \ {r} : req'[x] = req[x]
    BY Zenon, RestoreFacts
  <1>2. TypeOK'
    BY Zenon, <1>1 DEF RestoreInv, TypeOK, Slot
  <1>3. Held'
    BY Zenon, <1>1 DEF RestoreInv, Held
  <1>4. Counted' /\ GuessingIsSlow'
    BY Zenon DEF RestoreInv, Counted, GuessingIsSlow
  <1>5. ASSUME NEW x \in Req PROVE Comparing(req[x])'
    BY Zenon, <1>1 DEF RestoreInv, Comparing
  <1>6. Gone'
    BY Zenon, <1>1 DEF RestoreInv, Gone
  <1> QED BY Zenon, <1>2, <1>3, <1>4, <1>5, <1>6 DEF RestoreInv

\* The moves of a slot: to a step other than comparing, or to its end.
LEMMA SlotMoves ==
    ASSUME RestoreInv, NEW r \in Req
    PROVE  /\ Idle \in Slot /\ Idle.at = "idle"
           /\ \A step \in Step : [req[r] EXCEPT !.at = step] \in Slot
                                 /\ [req[r] EXCEPT !.at = step].at = step
           /\ \A step \in Step : Goes(r, step) => req' = [req EXCEPT ![r] = [req[r] EXCEPT !.at = step]]
           /\ Ends(r) => req' = [req EXCEPT ![r] = Idle]
  <1>1. req \in [Req -> Slot] /\ req[r] \in Slot
    BY Zenon, RestoreFacts
  <1>2. ASSUME NEW step \in Step
        PROVE  [req[r] EXCEPT !.at = step] \in Slot /\ [req[r] EXCEPT !.at = step].at = step
    <2>1. CASE req[r] \in Request
      BY Zenon, <1>2, <2>1 DEF Slot, Request
    <2>2. CASE req[r] = Idle
      BY Zenon, <2>2, IdleMoves DEF Slot
    <2> QED BY Zenon, <1>1, <2>1, <2>2 DEF Slot
  <1> QED BY Zenon, <1>1, <1>2 DEF Slot, Idle, Goes, Ends

\* What a request does beside the row: /restore/begin, the token, the answer.
LEMMA RequestsKeep ==
    ASSUME RestoreInv, NEW r \in Req,
           \/ RestoreBegin(r) \/ FindUserByPhoneHash(r) \/ BackupSalts(r)
           \/ CreateSession(r) \/ CreateRestoreToken(r)
           \/ \E t \in minted, pin, right \in BOOLEAN : RestoreComplete(r, t, pin, right)
           \/ RestoreTokenUser(r) \/ ConsumeRestoreToken(r) \/ PutBackup(r)
    PROVE  RestoreInv'
  <1>1. /\ session \in BOOLEAN /\ tokens \in [Token -> Nat] /\ minted \subseteq Token
        /\ handed \in [Token -> Nat] /\ clock \in Nat
    BY Zenon DEF RestoreInv, TypeOK
  <1>2. ASSUME NEW step \in Step, Goes(r, step), step # "compare",
               step \in {"upsert", "consume"} => live \/ raced,
               UNCHANGED <<live, row, rowLock, clock, wrong, since, raced>>,
               session' \in BOOLEAN, tokens' = tokens, minted' = minted, handed' = handed
        PROVE  RestoreInv'
    <2>1. PICK q \in Slot : q.at = step /\ req' = [req EXCEPT ![r] = q]
      BY Zenon, <1>2, SlotMoves
    <2> QED BY Zenon, <1>1, <1>2, <2>1, RequestMoves
  <1>3. ASSUME Ends(r), UNCHANGED <<live, row, rowLock, clock, wrong, since, raced>>,
               session' = session, tokens' \in [Token -> Nat], minted' \subseteq Token,
               handed' \in [Token -> Nat]
        PROVE  RestoreInv'
    BY <1>1, <1>3, SlotMoves, RequestMoves
  <1>4. CASE RestoreBegin(r) \/ FindUserByPhoneHash(r) \/ BackupSalts(r) \/ CreateSession(r)
    BY Zenon, <1>1, <1>2, <1>3, <1>4
       DEF RestoreBegin, FindUserByPhoneHash, BackupSalts, CreateSession, history, Step
  <1>5. CASE CreateRestoreToken(r)
    <2>1. tokens' \in [Token -> Nat] /\ minted' \subseteq Token
      BY <1>1, <1>5, RestoreAssumption DEF CreateRestoreToken
    <2> QED BY Zenon, <1>1, <1>3, <1>5, <2>1 DEF CreateRestoreToken, history
  <1>6. ASSUME NEW t \in minted, NEW pin \in BOOLEAN, NEW right \in BOOLEAN,
               RestoreComplete(r, t, pin, right)
        PROVE  RestoreInv'
    <2> DEFINE q == [at |-> "check", token |-> t, pin |-> pin, right |-> right, now |-> 0,
                     attempts |-> 0]
    <2> t \in Token
      BY Zenon, <1>1
    <2>1. q \in Request
      BY Presented, Zenon
    <2>2. q \in Slot /\ q.at = "check"
      BY Zenon, <2>1 DEF Slot
    <2> QED BY Zenon, <1>1, <1>6, <2>2, RequestMoves DEF RestoreComplete, history
  <1>7. CASE RestoreTokenUser(r)
    BY <1>1, <1>2, <1>3, <1>7 DEF RestoreTokenUser, history, Step
  <1>8. CASE ConsumeRestoreToken(r)
    <2>1. tokens' \in [Token -> Nat] /\ handed' \in [Token -> Nat]
      <3>1. CASE req[r].token \in Token
        BY <1>1, <1>8, <3>1 DEF ConsumeRestoreToken, Without
      <3>2. CASE req[r].token \notin Token
        <4>1. tokens' = tokens /\ handed' = handed
          BY Zenon, <1>1, <1>8, <3>2 DEF ConsumeRestoreToken, Without
        <4> QED BY Zenon, <1>1, <4>1
      <3> QED BY Zenon, <3>1, <3>2
    <2> QED BY Zenon, <1>1, <1>3, <1>8, <2>1 DEF ConsumeRestoreToken
  <1>9. CASE PutBackup(r)
    BY Zenon, <1>1, <1>2, <1>9 DEF PutBackup, history, Step
  <1> QED BY Zenon, <1>4, <1>5, <1>6, <1>7, <1>8, <1>9

\* The row is taken for a comparison, or the request is turned away.
LEMMA SelectKeeps == ASSUME RestoreInv, NEW r \in Req, SelectForUpdate(r) PROVE RestoreInv'
  <1>1. /\ rowLock = NoReq /\ req[r].at = "verify"
        /\ UNCHANGED <<live, row, session, tokens, minted, clock, wrong, since, handed, raced>>
    BY Zenon DEF SelectForUpdate, RowFree, history
  <1>2. CASE Ends(r) /\ UNCHANGED rowLock
    <2>1. /\ session' \in BOOLEAN /\ tokens' \in [Token -> Nat] /\ minted' \subseteq Token
          /\ handed' \in [Token -> Nat]
      BY Zenon, <1>1 DEF RestoreInv, TypeOK
    <2> QED BY Zenon, <1>1, <1>2, <2>1, SlotMoves, RequestMoves
  <1>3. CASE /\ row # NoRow /\ ~Refused(r)
             /\ req' = [req EXCEPT ![r].at = "compare", ![r].now = clock, ![r].attempts = row.attempts]
             /\ rowLock' = r
    <2>1. /\ req \in [Req -> Slot] /\ req[r] \in Request /\ clock \in Nat /\ row \in Row
          /\ wrong \in Nat /\ since \in Nat /\ since <= clock
      <3>1. req[r] \in Slot /\ Idle.at # "verify"
        BY Zenon, RestoreFacts DEF Idle
      <3> QED BY Zenon, <1>1, <1>3, <3>1, RestoreFacts DEF Slot
    <2>2. PICK q \in Request : /\ q.at = "compare" /\ q.now = clock /\ q.attempts = row.attempts
                               /\ q.pin = req[r].pin /\ req' = [req EXCEPT ![r] = q]
      <3> DEFINE q == [[[req[r] EXCEPT !.at = "compare"] EXCEPT !.now = clock]
                         EXCEPT !.attempts = row.attempts]
      <3>1. /\ q \in Request /\ q.at = "compare" /\ q.now = clock /\ q.attempts = row.attempts
            /\ q.pin = req[r].pin
        BY Zenon, <2>1 DEF Request, Step, Row
      <3>2. req' = [req EXCEPT ![r] = q]
        BY Zenon, <1>3, <2>1
      <3> QED BY Zenon, <3>1, <3>2
    <2>3. /\ req' \in [Req -> Slot] /\ req'[r] = q /\ \A x \in Req \ {r} : req'[x] = req[x]
      BY Zenon, <2>1, <2>2 DEF Slot
    <2>4. \A x \in Req : req[x].at # "compare"
      BY Zenon, <1>1, RestoreFacts
    <2>5. TypeOK'
      BY Zenon, <1>1, <1>3, <2>3 DEF RestoreInv, TypeOK, Slot
    <2>6. Held' /\ Counted' /\ GuessingIsSlow'
      BY Zenon, <1>1, <1>3, <2>3, <2>4 DEF RestoreInv, Held, Counted, GuessingIsSlow
    <2>7. Comparing(q)
      <3>1. row.attempts = wrong /\ (wrong >= 10 => row.until >= since + LockTime(wrong \div 10))
        BY Zenon, <1>3 DEF RestoreInv, Counted
      <3>2. q.pin => row.until <= clock
        <4>1. q.pin => ~(row.until > clock)
          BY <1>3, <2>2, Zenon DEF Refused, IsLocked
        <4>2. row.until \in Nat
          BY Zenon, <2>1 DEF Row
        <4> QED BY <2>1, <4>1, <4>2
      <3>3. wrong < 10 => LockTime(wrong \div 10) = 0
        <4>1. wrong < 10 => wrong \div 10 = 0
          BY <2>1
        <4> QED BY Zenon, <4>1 DEF LockTime
      <3>4. PICK hours \in Nat : hours = LockTime(wrong \div 10)
        BY Zenon, <2>1, LockTimeNat
      <3>5. row.until \in Nat
        BY Zenon, <2>1 DEF Row
      <3>6. q.pin => clock >= since + hours
        BY <2>1, <3>1, <3>2, <3>3, <3>4, <3>5
      <3> QED BY <2>1, <2>2, <3>1, <3>4, <3>6 DEF Comparing
    <2>8. ASSUME NEW x \in Req PROVE Comparing(req[x])'
      BY Zenon, <1>1, <2>3, <2>4, <2>7 DEF Comparing
    <2>9. Gone'
      BY Zenon, <1>1, <1>3, <2>2, <2>3 DEF RestoreInv, Gone
    <2> QED BY Zenon, <2>5, <2>6, <2>8, <2>9 DEF RestoreInv
  <1> QED BY Zenon, <1>2, <1>3 DEF SelectForUpdate

\* The count starts again: a right answer, an upload.
LEMMA ResetKeeps ==
    ASSUME RestoreInv, NEW r \in Req, NEW q \in Slot, req' = [req EXCEPT ![r] = q],
           q.at # "compare", rowLock' = NoReq, row' = Clean,
           wrong' = 0, since' = clock, live \/ raced,
           UNCHANGED <<live, session, tokens, minted, clock, handed, raced>>,
           \A x \in Req \ {r} : req[x].at # "compare"
    PROVE  RestoreInv'
  <1>1. /\ req' \in [Req -> Slot] /\ req'[r] = q /\ \A x \in Req \ {r} : req'[x] = req[x]
    BY Zenon, RestoreFacts
  <1>2. clock \in Nat /\ Clean \in Row /\ Clean.attempts = 0 /\ Clean # NoRow
    <2>1. Clean \in Row /\ Clean.attempts = 0
      BY Zenon DEF Clean, Row
    <2> QED BY Zenon, <2>1, RestoreFacts, RestoreAssumption DEF Row
  <1>3. TypeOK'
    BY Zenon, <1>1, <1>2 DEF RestoreInv, TypeOK, Slot
  <1>4. Held' /\ Counted' /\ GuessingIsSlow' /\ Gone'
    BY <1>1, <1>2, RestoreAssumption DEF Held, Counted, GuessingIsSlow, Gone
  <1>5. ASSUME NEW x \in Req PROVE Comparing(req[x])'
    BY Zenon, <1>1 DEF Comparing
  <1> QED BY Zenon, <1>3, <1>4, <1>5 DEF RestoreInv

\* An upload waits for the row.
LEMMA UpsertKeeps == ASSUME RestoreInv, NEW r \in Req, UpsertBackup(r) PROVE RestoreInv'
  <1>1. /\ rowLock = NoReq /\ rowLock' = rowLock /\ req[r].at = "upsert" /\ Ends(r)
        /\ row' = Clean /\ wrong' = 0 /\ since' = clock
        /\ UNCHANGED <<live, session, tokens, minted, clock, handed, raced>>
    BY Zenon DEF UpsertBackup, RowFree
  <1>2. live \/ raced
    BY Zenon, <1>1 DEF RestoreInv, Gone
  <1>3. \A x \in Req : req[x].at # "compare"
    BY Zenon, <1>1, RestoreFacts
  <1> QED BY <1>1, <1>2, <1>3, SlotMoves, ResetKeeps

\* A comparison counts a wrong PIN in the row it read, and starts the lockout from
\* when it read it.
LEMMA CompareKeeps == ASSUME RestoreInv, NEW r \in Req, Compare(r) PROVE RestoreInv'
  <1>1. /\ req[r].at = "compare" /\ rowLock' = NoReq
        /\ UNCHANGED <<live, session, tokens, minted, clock, handed, raced>>
    BY Zenon DEF Compare
  <1>2. /\ rowLock = r /\ row # NoRow /\ \A x \in Req \ {r} : req[x].at # "compare"
        /\ live \/ raced
    BY Zenon, <1>1 DEF RestoreInv, Held, Gone
  <1>3. PICK q \in Request : q = req[r]
    <2>1. Idle.at # "compare" /\ req[r] \in Slot
      BY Zenon, RestoreFacts DEF Idle
    <2> QED BY Zenon, <1>1, <2>1 DEF Slot
  <1>4. /\ q.attempts = wrong /\ q.now <= clock /\ q.now \in Nat
        /\ q.pin => q.now >= since + LockTime(wrong \div 10)
    BY Zenon, <1>1, <1>3, RestoreFacts DEF Comparing, Request
  <1>5. /\ wrong \in Nat /\ since \in Nat /\ clock \in Nat /\ since <= clock /\ row \in Row
        /\ row.attempts = wrong
        /\ wrong >= 10 => row.until >= since + LockTime(wrong \div 10)
    BY Zenon, <1>2, RestoreFacts DEF RestoreInv, Counted
  <1>6. CASE req[r].right
    <2>1. /\ row' = Clean /\ wrong' = 0 /\ since' = clock
          /\ req' = [req EXCEPT ![r] = [req[r] EXCEPT !.at = "consume", !.now = 0, !.attempts = 0]]
      BY Zenon, <1>2, <1>6, RestoreFacts DEF Compare, Updated
    <2>2. PICK p \in Request : p.at = "consume" /\ req' = [req EXCEPT ![r] = p]
      <3> DEFINE p == [[[q EXCEPT !.at = "consume"] EXCEPT !.now = 0] EXCEPT !.attempts = 0]
      <3>1. p \in Request /\ p.at = "consume"
        BY Zenon DEF Request, Step
      <3>2. req' = [req EXCEPT ![r] = p]
        BY <1>3, <2>1
      <3> QED BY Zenon, <3>1, <3>2
    <2>3. p \in Slot
      BY Zenon DEF Slot
    <2> QED BY Zenon, <1>1, <1>2, <2>1, <2>2, <2>3, ResetKeeps
  <1>7. CASE ~req[r].right
    <2>1. Ends(r) /\ since' = since
      BY Zenon, <1>7 DEF Compare
    <2>2. /\ req' \in [Req -> Slot] /\ req'[r] = Idle /\ \A x \in Req \ {r} : req'[x] = req[x]
      BY <2>1, SlotMoves, RestoreFacts
    <2>3. \A x \in Req : req'[x].at # "compare"
      BY <1>2, <2>2 DEF Idle
    <2>4. ASSUME wrong' \in Nat, row' \in Row, row'.attempts = wrong',
                 wrong' >= 10 => row'.until >= since + LockTime(wrong' \div 10), GuessingIsSlow'
          PROVE  RestoreInv'
      <3>1. row' # NoRow
        BY Zenon, <2>4, RestoreAssumption DEF Row
      <3>2. TypeOK'
        BY Zenon, <1>1, <2>1, <2>2, <2>4, RestoreAssumption DEF RestoreInv, TypeOK, Slot
      <3>3. Held' /\ Counted' /\ \A x \in Req : Comparing(req[x])'
        BY Zenon, <1>1, <1>5, <2>1, <2>3, <2>4, <3>1, RestoreAssumption
           DEF Held, Counted, Comparing
      <3>4. Gone'
        BY Zenon, <1>1, <1>2 DEF Gone
      <3> QED BY Zenon, <2>4, <3>2, <3>3, <3>4 DEF RestoreInv
    <2>5. CASE ~req[r].pin
      <3>1. row' = row /\ wrong' = wrong
        BY Zenon, <1>7, <2>5 DEF Compare
      <3>2. GuessingIsSlow'
        BY Zenon, <1>1, <2>1, <3>1 DEF RestoreInv, GuessingIsSlow
      <3> QED BY Zenon, <1>5, <2>4, <3>1, <3>2
    <2>6. CASE req[r].pin
      <3>1. wrong' = wrong + 1 /\ row' = AfterWrong(q)
        BY Zenon, <1>2, <1>3, <1>7, <2>6 DEF Compare, Updated
      <3>2. PICK hours \in Nat : hours = LockTime(wrong \div 10)
        BY Zenon, <1>5, LockTimeNat
      <3>3. q.now >= since + hours
        BY <1>3, <1>4, <2>6, <3>2
      <3>4. GuessingIsSlow'
        <4>1. clock >= since + hours
          BY <1>4, <1>5, <3>2, <3>3
        <4> QED BY <1>1, <1>5, <2>1, <3>1, <3>2, <4>1 DEF GuessingIsSlow
      <3>5. CASE (wrong + 1) % 10 = 0
        <4>1. /\ wrong + 1 >= 10
              /\ LockTime((wrong + 1) \div 10) = hours + LockoutHours((wrong + 1) \div 10)
          BY Zenon, <1>5, <3>2, <3>5, NextLockout
        <4>2. row' = [attempts |-> wrong + 1, until |-> q.now + LockoutHours((wrong + 1) \div 10)]
          BY Zenon, <1>4, <3>1, <3>5 DEF AfterWrong
        <4>3. PICK more \in Nat : more = LockoutHours((wrong + 1) \div 10)
          BY Zenon DEF LockoutHours
        <4>4. row'.attempts = wrong + 1 /\ row'.until = q.now + more /\ row' \in Row
          BY <1>4, <1>5, <4>2, <4>3 DEF Row
        <4> QED BY <1>4, <1>5, <2>4, <3>1, <3>2, <3>3, <3>4, <4>1, <4>3, <4>4
      <3>6. CASE (wrong + 1) % 10 # 0
        <4>1. (wrong + 1) \div 10 = wrong \div 10 /\ (wrong + 1 >= 10 => wrong >= 10)
          BY Zenon, <1>5, <3>6, NextLockout
        <4>2. row' = [row EXCEPT !.attempts = wrong + 1]
          BY Zenon, <1>4, <3>1, <3>6 DEF AfterWrong
        <4>3. row'.attempts = wrong + 1 /\ row'.until = row.until /\ row' \in Row
          BY <1>5, <4>2 DEF Row
        <4> QED BY <1>5, <2>4, <3>1, <3>4, <4>1, <4>3
      <3> QED BY Zenon, <3>5, <3>6
    <2> QED BY Zenon, <2>5, <2>6
  <1> QED BY Zenon, <1>6, <1>7

\* An erasure waits for the row too, and what is under way then races it.
LEMMA EraseKeeps == ASSUME RestoreInv, EraseUser PROVE RestoreInv'
  <1>1. /\ rowLock = NoReq /\ live' = FALSE /\ row' = NoRow /\ session' = FALSE
        /\ wrong' = 0 /\ since' = clock
        /\ raced' = (\E r \in Req : req[r].at \in {"upsert", "consume"})
        /\ UNCHANGED <<rowLock, tokens, minted, req, clock, handed>>
    BY Zenon DEF EraseUser, RowFree, RowErased
  <1>2. \A r \in Req : req[r].at # "compare"
    BY Zenon, <1>1, RestoreFacts
  <1>3. TypeOK'
    BY Zenon, <1>1 DEF RestoreInv, TypeOK
  <1>4. Held' /\ Counted' /\ GuessingIsSlow' /\ Gone'
    <2>1. clock \in Nat
      BY Zenon, RestoreFacts
    <2> QED BY <1>1, <1>2, <2>1, RestoreAssumption DEF Held, Counted, GuessingIsSlow, Gone
  <1>5. ASSUME NEW r \in Req PROVE Comparing(req[r])'
    BY Zenon, <1>1, <1>2 DEF Comparing
  <1> QED BY Zenon, <1>3, <1>4, <1>5 DEF RestoreInv

\* A dropped handler or a restart rolls a comparison back.
LEMMA RollbackKeeps == ASSUME RestoreInv, Restart \/ \E r \in Req : Abandon(r) PROVE RestoreInv'
  <1>1. UNCHANGED <<live, row, session, minted, clock, wrong, since, handed, raced>>
    BY Zenon DEF Restart, Abandon, history
  <1>2. /\ rowLock' \in {rowLock, NoReq} /\ tokens' \in [Token -> Nat] /\ req' \in [Req -> Slot]
        /\ \A x \in Req : req'[x] = Idle \/ (req'[x] = req[x] /\ (rowLock = x => rowLock' = x))
    <2>1. CASE Restart
      BY Zenon, <2>1 DEF Restart, Slot
    <2>2. ASSUME NEW r \in Req, Abandon(r)
          PROVE  /\ rowLock' \in {rowLock, NoReq} /\ tokens' \in [Token -> Nat]
                 /\ req' \in [Req -> Slot]
                 /\ \A x \in Req : req'[x] = Idle \/ (req'[x] = req[x] /\ (rowLock = x => rowLock' = x))
      <3>1. tokens' \in [Token -> Nat] /\ req \in [Req -> Slot]
        BY Zenon, <2>2, RestoreFacts DEF RestoreInv, TypeOK, Abandon
      <3> QED BY Zenon, <2>2, <3>1 DEF Abandon, Ends, Slot
    <2> QED BY Zenon, <2>1, <2>2
  <1>3. TypeOK'
    BY Zenon, <1>1, <1>2 DEF RestoreInv, TypeOK, Slot
  <1>4. Held' /\ Gone'
    BY <1>1, <1>2, RestoreAssumption DEF RestoreInv, Held, Gone, Idle
  <1>5. Counted' /\ GuessingIsSlow'
    BY Zenon, <1>1 DEF RestoreInv, Counted, GuessingIsSlow
  <1>6. ASSUME NEW x \in Req PROVE Comparing(req[x])'
    BY <1>1, <1>2 DEF RestoreInv, Comparing, Idle
  <1> QED BY Zenon, <1>3, <1>4, <1>5, <1>6 DEF RestoreInv

\* Time passing only adds to what was waited.
LEMMA ClockKeeps == ASSUME RestoreInv, Tick PROVE RestoreInv'
  <1>1. /\ clock' = clock + 1
        /\ UNCHANGED <<live, row, rowLock, session, tokens, minted, req, wrong, since, handed, raced>>
    BY Zenon DEF Tick, history
  <1>2. clock \in Nat /\ wrong \in Nat /\ since \in Nat /\ since <= clock
    BY Zenon, RestoreFacts
  <1>3. TypeOK'
    BY <1>1, <1>2 DEF RestoreInv, TypeOK
  <1>4. Held' /\ Gone' /\ Counted'
    BY <1>1, <1>2 DEF RestoreInv, Held, Gone, Counted
  <1>5. GuessingIsSlow'
    <2>1. wrong > 0 => LockTime((wrong - 1) \div 10) \in Nat
      <3>1. wrong > 0 => wrong - 1 \in Nat
        BY <1>2
      <3> QED BY Zenon, <3>1, LockTimeNat
    <2> QED BY <1>1, <1>2, <2>1 DEF RestoreInv, GuessingIsSlow
  <1>6. ASSUME NEW r \in Req PROVE Comparing(req[r])'
    <2>1. req[r].at = "compare" => req[r].now \in Nat
      <3>1. req[r] \in Slot /\ Idle.at # "compare"
        BY Zenon, RestoreFacts DEF Idle
      <3> QED BY Zenon, <3>1 DEF Slot, Request
    <2> QED BY <1>1, <1>2, <2>1 DEF RestoreInv, Comparing
  <1> QED BY Zenon, <1>3, <1>4, <1>5, <1>6 DEF RestoreInv

-----------------------------------------------------------------------------
\* Every step keeps the invariant.
LEMMA RestoreStep == RestoreInv /\ [Next]_vars => RestoreInv'
  <1> SUFFICES ASSUME RestoreInv, [Next]_vars PROVE RestoreInv'
    BY Zenon
  <1>1. CASE UNCHANGED vars
    BY Zenon, <1>1 DEF vars, RestoreInv, TypeOK, Held, Counted, Comparing, GuessingIsSlow, Gone
  <1> QED BY Zenon, <1>1, RequestsKeep, SelectKeeps, CompareKeeps, UpsertKeeps, EraseKeeps,
             RollbackKeeps, ClockKeeps
             DEF Next

\* The invariant holds throughout.
LEMMA RestoreAlways == Spec => []RestoreInv
  BY RestoreInit, RestoreStep, PTL DEF Spec

\* Guesses of a PIN cost the lockouts between them, however many requests guess at
\* once, are dropped or restarted: verify_backup_auth loses no attempt.
THEOREM GuessesCostLockouts == Spec => []GuessingIsSlow
  <1>1. RestoreInv => GuessingIsSlow
    BY Zenon DEF RestoreInv
  <1> QED BY <1>1, RestoreAlways, PTL

\* A bundle is handed out only while the account lives, unless an upload or an
\* answer raced its erasure.
THEOREM ErasedIsNotRestored == Spec => ErasedNotRestored
  <1>1. RestoreInv /\ [Next]_vars => [handed' # handed => live \/ raced]_vars
    <2> SUFFICES ASSUME RestoreInv, Next, handed' # handed PROVE live \/ raced
      BY Zenon DEF vars
    <2>1. PICK r \in Req : ConsumeRestoreToken(r)
      BY Zenon
         DEF Next, RestoreBegin, FindUserByPhoneHash, BackupSalts, CreateSession,
             CreateRestoreToken, RestoreComplete, RestoreTokenUser, SelectForUpdate, Compare,
             PutBackup, UpsertBackup, Abandon, EraseUser, Restart, Tick, history
    <2> QED BY Zenon, <2>1 DEF RestoreInv, Gone, ConsumeRestoreToken
  <1> QED BY <1>1, RestoreAlways, PTL DEF Spec, ErasedNotRestored

=============================================================================
