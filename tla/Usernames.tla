----------------------------- MODULE Usernames ------------------------------
(***************************************************************************)
(* Claiming a username at the directory (directory/src/store.rs over       *)
(* username.rs): the transactions of PUT /username, the erasures that run  *)
(* beside them, and the lookups that read what they left.                  *)
(*                                                                         *)
(* A transaction reads at READ COMMITTED: each SELECT sees what was        *)
(* committed when it ran.  The upsert of the width locks that nickname's   *)
(* row until the end, and the UPDATE of the user meets the table's         *)
(* UNIQUE (nickname, discriminator), tombstones included; what a           *)
(* transaction wrote appears at its commit.  A transaction that fails, or  *)
(* whose connection or process dies, rolls back.  Left out: which strings  *)
(* are nicknames (validate_nickname refuses the rest before any SQL), and  *)
(* the digits of a handle: format_handle pads the slot to the width.       *)
(***************************************************************************)
EXTENDS Integers, FiniteSets

CONSTANTS
    User,         \* accounts
    Nick,         \* nicknames
    NoNick,       \* NULL
    Tx,           \* transactions that run at a time
    MinWidth,     \* MIN_DISCRIMINATOR_WIDTH, 2 in the code
    MaxWidth,     \* the widest, 9 in the code
    SlotCount     \* slot_count: the last discriminator of each width

ASSUME UsernamesAssumption ==
    /\ NoNick \notin Nick
    /\ MinWidth \in Nat \ {0} /\ MaxWidth \in Nat /\ MinWidth <= MaxWidth
    /\ SlotCount \in [MinWidth .. MaxWidth -> Nat]
    /\ \A v, w \in MinWidth .. MaxWidth : v <= w => SlotCount[v] <= SlotCount[w]

VARIABLES
    nickname, discriminator,   \* the columns of users; 0 for NULL
    deleted,      \* the users whose deleted_at is set
    widths,       \* nickname_widths, 0 where there is no row
    tx,           \* the transactions
    released,     \* history: nicknames a slot of which was given up
    buried,       \* history: handles whose owner was erased, with no claim under way
    overtaken     \* history: transactions that another claim of the nickname
                  \* committed in front of

claimVars == <<nickname, discriminator, deleted, widths, tx, released, buried, overtaken>>
rows == <<nickname, discriminator, deleted, widths>>
claimHistory == <<released, buried, overtaken>>

Width == MinWidth .. MaxWidth
NoClaim == [at |-> "idle"]

ClaimInit ==
    /\ nickname = [u \in User |-> NoNick]
    /\ discriminator = [u \in User |-> 0]
    /\ deleted = {}
    /\ widths = [n \in Nick |-> 0]
    /\ tx = [t \in Tx |-> NoClaim]
    /\ released = {}
    /\ buried = {}
    /\ overtaken = {}

Max2(a, b) == IF a >= b THEN a ELSE b

-----------------------------------------------------------------------------
(* PUT /username *)

\* A caller with a session: their account is not erased yet.
Begin(t, u, n) ==
    /\ tx[t] = NoClaim
    /\ u \notin deleted
    /\ tx' = [tx EXCEPT ![t] = [at |-> "width", user |-> u, nick |-> n]]
    /\ overtaken' = overtaken \ {t}
    /\ UNCHANGED <<rows, released, buried>>

\* SELECT width; the least one if there is no row.
ReadWidth(t) ==
    /\ tx[t].at = "width"
    /\ tx' = [tx EXCEPT ![t] = [at |-> "taken", user |-> tx[t].user, nick |-> tx[t].nick,
                                width |-> Max2(widths[tx[t].nick], MinWidth)]]
    /\ UNCHANGED <<rows, claimHistory>>

\* Mutant of Taken: erased users are left out.
TakenByLiving(n) == {discriminator[u] : u \in {v \in User \ deleted : nickname[v] = n}}

\* SELECT discriminator: every row of the nickname, the caller's own and the
\* tombstones included.
Taken(n) == {discriminator[u] : u \in {v \in User : nickname[v] = n}}

\* first_free_slot.
Free(n, w) == (1 .. SlotCount[w]) \ Taken(n)

\* The loop: the first width from the one read on that has a free slot.
Widened(n, w, v) ==
    /\ w <= v
    /\ Free(n, v) # {}
    /\ \A x \in w .. v - 1 : Free(n, x) = {}

\* SELECT, and the choice of a slot; no width may have one.
ReadTaken(t) ==
    /\ tx[t].at = "taken"
    /\ \/ \E v \in Width : \E s \in Free(tx[t].nick, v) :
            /\ Widened(tx[t].nick, tx[t].width, v)
            /\ \A f \in Free(tx[t].nick, v) : s <= f
            /\ tx' = [tx EXCEPT ![t] = [at |-> "upsert", user |-> tx[t].user, nick |-> tx[t].nick,
                                        width |-> v, slot |-> s]]
       \/ /\ \A v \in Width : ~Widened(tx[t].nick, tx[t].width, v)
          /\ tx' = [tx EXCEPT ![t] = NoClaim]
    /\ UNCHANGED <<rows, claimHistory>>

\* INSERT ... ON CONFLICT DO UPDATE: waits for whoever holds the nickname's row.
UpsertWidth(t) ==
    /\ tx[t].at = "upsert"
    /\ \A o \in Tx \ {t} : ~(tx[o].at = "update" /\ tx[o].nick = tx[t].nick)
    /\ tx' = [tx EXCEPT ![t].at = "update"]
    /\ UNCHANGED <<rows, claimHistory>>

\* Mutant of Conflicts: no UNIQUE (nickname, discriminator).
NeverConflicts(t) == FALSE

\* The UPDATE would repeat another row's handle.
Conflicts(t) ==
    \E u \in User \ {tx[t].user} :
        nickname[u] = tx[t].nick /\ discriminator[u] = tx[t].slot

\* The UPDATE fails, and the transaction with it.
Conflict(t) ==
    /\ tx[t].at = "update"
    /\ Conflicts(t)
    /\ tx' = [tx EXCEPT ![t] = NoClaim]
    /\ UNCHANGED <<rows, claimHistory>>

\* The UPDATE and the commit; the caller is answered.
Commit(t) ==
    /\ tx[t].at = "update"
    /\ ~Conflicts(t)
    /\ LET u == tx[t].user
           n == tx[t].nick
       IN  /\ nickname' = [nickname EXCEPT ![u] = n]
           /\ discriminator' = [discriminator EXCEPT ![u] = tx[t].slot]
           /\ widths' = [widths EXCEPT ![n] = tx[t].width]
           /\ released' = released \cup ({nickname[u]} \ {NoNick})
           /\ overtaken' = overtaken \cup
                {o \in Tx \ {t} : tx[o].at \in {"upsert", "update"} /\ tx[o].nick = n}
    /\ tx' = [tx EXCEPT ![t] = NoClaim]
    /\ UNCHANGED <<deleted, buried>>

\* The database or the process fails: a rollback.
Abort(t) ==
    /\ tx[t] # NoClaim
    /\ tx' = [tx EXCEPT ![t] = NoClaim]
    /\ UNCHANGED <<rows, claimHistory>>

-----------------------------------------------------------------------------
(* DELETE /account *)

\* The handle an erasure leaves on the tombstone, if no claim is about to change it.
Buried(u) ==
    IF nickname[u] = NoNick \/ \E t \in Tx : tx[t] # NoClaim /\ tx[t].user = u THEN {}
    ELSE {[user |-> u, nick |-> nickname[u], slot |-> discriminator[u]]}

\* Mutant of Erase: the nickname is scrubbed with the rest.
EraseScrubbing(u) ==
    /\ u \notin deleted
    /\ deleted' = deleted \cup {u}
    /\ buried' = buried \cup Buried(u)
    /\ nickname' = [nickname EXCEPT ![u] = NoNick]
    /\ discriminator' = [discriminator EXCEPT ![u] = 0]
    /\ UNCHANGED <<widths, tx, released, overtaken>>

\* erase_user keeps the handle on the tombstone.
Erase(u) ==
    /\ u \notin deleted
    /\ deleted' = deleted \cup {u}
    /\ buried' = buried \cup Buried(u)
    /\ UNCHANGED <<nickname, discriminator, widths, tx, released, overtaken>>

ClaimNext ==
    \/ \E t \in Tx :
         \/ \E u \in User, n \in Nick : Begin(t, u, n)
         \/ ReadWidth(t) \/ ReadTaken(t) \/ UpsertWidth(t) \/ Conflict(t) \/ Commit(t) \/ Abort(t)
    \/ \E u \in User : Erase(u)

ClaimSpec == ClaimInit /\ [][ClaimNext]_claimVars

-----------------------------------------------------------------------------
(* Properties *)

\* Every variable has its type.
ClaimTypeOK ==
    /\ nickname \in [User -> Nick \cup {NoNick}]
    /\ discriminator \in [User -> Nat]
    /\ deleted \subseteq User
    /\ widths \in [Nick -> Width \cup {0}]
    /\ tx \in [Tx ->
         {NoClaim} \cup [at : {"width"}, user : User, nick : Nick]
                   \cup [at : {"taken"}, user : User, nick : Nick, width : Width]
                   \cup [at : {"upsert", "update"}, user : User, nick : Nick, width : Width, slot : Nat]]
    /\ released \subseteq Nick
    /\ overtaken \subseteq Tx

\* find_user_by_handle.
find_user_by_handle(n, s) ==
    {u \in User \ deleted : nickname[u] = n /\ discriminator[u] = s}

\* A handle names one account: looking up the handle of a live account finds
\* that account alone, and no tombstone answers to it as well.
HandleResolves ==
    \A u \in User \ deleted : nickname[u] # NoNick =>
        /\ find_user_by_handle(nickname[u], discriminator[u]) = {u}
        /\ \A d \in deleted : <<nickname[d], discriminator[d]>> # <<nickname[u], discriminator[u]>>

\* The width of a nickname never shrinks as long as nobody who had a slot of it
\* claimed another: a claim that chose its slot before others filled and widened
\* the nickname cannot commit (username.rs, "that width only ever widens, never
\* shrinks").
WidthOnlyWidens ==
    [][\A n \in Nick \ released' : widths'[n] >= widths[n]]_widths

\* The slot of an erased account is reserved for good: nobody else ever gets its
\* handle, unless a claim of that account's own was under way at its erasure.
ErasedHandleReserved ==
    \A b \in buried : \A u \in User \ {b.user} :
        <<nickname[u], discriminator[u]>> # <<b.nick, b.slot>>

\* A claim meets the UNIQUE constraint only if another claim of that nickname
\* committed since it read the slots taken: alone, it always finds a slot that
\* it can have.
LoneClaimSucceeds ==
    \A t \in Tx : tx[t].at = "update" /\ Conflicts(t) => t \in overtaken

=============================================================================
