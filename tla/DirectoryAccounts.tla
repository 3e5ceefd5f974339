------------------------- MODULE DirectoryAccounts -------------------------
(***************************************************************************)
(* Accounts of the directory service: directory/src/api.rs over            *)
(* directory/src/store.rs.  A handler is a request that interleaves with   *)
(* the others between any two of its store calls.  A store call is one SQL *)
(* statement; claim_username is a transaction of one effect.  erase_user   *)
(* is a transaction of six statements: others interleave with them, see    *)
(* its effects at the commit, and wait for the rows it holds.              *)
(*                                                                         *)
(* Left out: the feature flags, the rate limits, which discriminator a     *)
(* username gets, the restore path (DirectoryRestore), and the             *)
(* handlers that only read.                                                *)
(***************************************************************************)
EXTENDS Integers

CONSTANTS
    Phone,        \* phone numbers, one per phone_hash
    UserId,       \* ids the users table can still give out
    Link,         \* contact links, each uploaded at most once
    Req,          \* requests the service handles at a time
    NoPhone, NoRow, NoUser, NoLink,
    CooldownLen,  \* PHONE_COOLDOWN_HOURS, in ticks
    SessionTTL,   \* SESSION_TTL_DAYS, in ticks
    MaxTime       \* bound on the clock

ASSUME ValueAssumption ==
    /\ NoPhone \notin Phone /\ NoLink \notin Link /\ NoUser \notin UserId
    /\ NoRow \notin [phone : Phone \cup {NoPhone}, verified : BOOLEAN,
                     searchable : BOOLEAN, named : BOOLEAN, deleted : BOOLEAN]
    /\ CooldownLen \in Nat /\ SessionTTL \in Nat /\ MaxTime \in Nat

VARIABLES
    users,      \* the users table: a row, live or tombstone, or NoRow
    cooldown,   \* phone_cooldown: the (phone, time) of each erasure
    sessions,   \* the sessions table: (user, time), each with its client's token
    bootstrap,  \* pairing_bootstrap: the link a user has on offer
    backups,    \* the users with a row in backups
    req,        \* each request slot's handler and where it stands
    tx,         \* what the erasure of a request slot has written, uncommitted
    fresh,      \* links no client has uploaded yet
    handed,     \* how often each link was handed to a requester
    raced,      \* history: accounts another handler wrote for during their erasure,
                \* numbers one had cleared or was erasing when it committed
    clock

vars == <<users, cooldown, sessions, bootstrap, backups, req, tx, fresh,
          handed, raced, clock>>

Row == [phone : Phone \cup {NoPhone}, verified : BOOLEAN, searchable : BOOLEAN,
        named : BOOLEAN, deleted : BOOLEAN]
Session == UserId \X (0..MaxTime)
Op == {"signup", "verify", "delete", "searchable", "hide", "offer", "pair",
       "backup", "username"}
Open == {"update", "links", "backups", "sessions", "commit"}
Step == {"cooldown", "create", "mark", "session", "act", "-"} \cup Open
Request == [op : Op \cup {"idle"}, at : Step, phone : Phone \cup {NoPhone},
            user : UserId \cup {NoUser}]
Idle == [op |-> "idle", at |-> "-", phone |-> NoPhone, user |-> NoUser]

(* A transaction: the cooldown inserted, the rows deleted; and, a history,   *)
(* whether another handler had the account to write for meanwhile.          *)
Tx == [cooled : SUBSET ((Phone \cup {NoPhone}) \X (0..MaxTime)), links : SUBSET UserId,
       backups : SUBSET UserId, sessions : SUBSET Session, met : BOOLEAN]
NoTx == [cooled |-> {}, links |-> {}, backups |-> {}, sessions |-> {}, met |-> FALSE]

(* Every variable has its type. *)
TypeOK ==
    /\ users \in [UserId -> Row \cup {NoRow}]
    /\ cooldown \subseteq (Phone \cup {NoPhone}) \X (0..MaxTime)
    /\ sessions \subseteq Session
    /\ bootstrap \in [UserId -> Link \cup {NoLink}]
    /\ backups \subseteq UserId
    /\ req \in [Req -> Request]
    /\ tx \in [Req -> Tx]
    /\ fresh \subseteq Link
    /\ handed \in [Link -> Nat]
    /\ raced \subseteq UserId \cup Phone \cup {NoPhone}
    /\ clock \in 0..MaxTime

Live(u) == users[u] # NoRow /\ ~users[u].deleted

Init ==
    /\ users = [u \in UserId |-> NoRow]
    /\ cooldown = {} /\ sessions = {}
    /\ bootstrap = [u \in UserId |-> NoLink]
    /\ backups = {}
    /\ req = [r \in Req |-> Idle]
    /\ tx = [r \in Req |-> NoTx]
    /\ fresh = Link
    /\ handed = [l \in Link |-> 0]
    /\ raced = {}
    /\ clock = 0

InCooldown(p) == \E c \in cooldown : c[1] = p /\ c[2] > clock - CooldownLen

(* The transactions that erase u, and the ones that updated its row: the     *)
(* row is locked until they end.                                            *)
Erasing(u) == {x \in Req : req[x].at \in Open /\ req[x].user = u}
Locked(u) == \E x \in Erasing(u) : req[x].at # "update"

(* A handler that writes rows of an account is given u.                      *)
Writes == {"verify", "searchable", "offer", "backup"}
Met(op, u) ==
    [x \in Req |-> IF op \in Writes /\ x \in Erasing(u) THEN [tx[x] EXCEPT !.met = TRUE]
                                                      ELSE tx[x]]

----------------------------------------------------------------------------
(* /signup and /verify.  Both reach the cooldown check once the phone       *)
(* normalises; /verify only with a code the vendor approved.                *)

Begin(r, op, p) ==
    /\ req[r] = Idle
    /\ req' = [req EXCEPT ![r] = [op |-> op, at |-> "cooldown", phone |-> p,
                                  user |-> NoUser]]
    /\ UNCHANGED <<users, cooldown, sessions, bootstrap, backups, tx,
                   fresh, handed, raced, clock>>

(* Mutant: ET14: /verify and /signup without the cooldown check. *)
MayRegisterAlways(p) == TRUE

MayRegister(p) == ~InCooldown(p)

CheckCooldown(r) ==
    /\ req[r].at = "cooldown"
    /\ req' = [req EXCEPT ![r] = IF MayRegister(@.phone)
                                 THEN [@ EXCEPT !.at = "create"]
                                 ELSE Idle]
    /\ UNCHANGED <<users, cooldown, sessions, bootstrap, backups, tx,
                   fresh, handed, raced, clock>>

(* find_or_create_pending_user: one upsert against the unique index on the  *)
(* live rows' phone_hash, which waits for a row that is being updated.      *)
Owners(p) == {u \in UserId : Live(u) /\ users[u].phone = p}

PendingRow(p) == [phone |-> p, verified |-> FALSE, searchable |-> FALSE,
                  named |-> FALSE, deleted |-> FALSE]

(* Mutant: ET15: an insert that no live row of the number can stop. *)
FindOrCreateBlind(p, u) ==
    users[u] = NoRow /\ users' = [users EXCEPT ![u] = PendingRow(p)]

FindOrCreate(p, u) ==
    \/ u \in Owners(p) /\ UNCHANGED users
    \/ /\ Owners(p) = {} /\ users[u] = NoRow
       /\ users' = [users EXCEPT ![u] = PendingRow(p)]

FindOrCreatePendingUser(r) ==
    /\ req[r].at = "create"
    /\ \A u \in Owners(req[r].phone) : ~Locked(u)
    /\ \E u \in UserId :
        /\ FindOrCreate(req[r].phone, u)
        /\ req' = [req EXCEPT ![r] = IF @.op = "signup" THEN Idle
                                     ELSE [@ EXCEPT !.at = "mark", !.user = u]]
        /\ tx' = Met(req[r].op, u)
    /\ UNCHANGED <<cooldown, sessions, bootstrap, backups, fresh,
                   handed, raced, clock>>

MarkVerified(r) ==
    /\ req[r].at = "mark"
    /\ ~Locked(req[r].user)
    /\ users' = [users EXCEPT ![req[r].user].verified = TRUE]
    /\ req' = [req EXCEPT ![r].at = "session"]
    /\ UNCHANGED <<cooldown, sessions, bootstrap, backups, tx, fresh,
                   handed, raced, clock>>

CreateSession(r) ==
    /\ req[r].at = "session"
    /\ sessions' = sessions \cup {<<req[r].user, clock>>}
    /\ req' = [req EXCEPT ![r] = Idle]
    /\ UNCHANGED <<users, cooldown, bootstrap, backups, tx, fresh, handed, raced, clock>>

----------------------------------------------------------------------------
(* The authenticated handlers: authenticate, then one store call.           *)

SessionValid(t) == t[2] > clock - SessionTTL /\ Live(t[1])

Authenticate(r, op, t) ==
    /\ req[r] = Idle
    /\ SessionValid(t)
    /\ req' = [req EXCEPT ![r] = [op |-> op, at |-> "act", phone |-> NoPhone,
                                  user |-> t[1]]]
    /\ tx' = Met(op, t[1])
    /\ UNCHANGED <<users, cooldown, sessions, bootstrap, backups, fresh, handed,
                   raced, clock>>

Acts(r, op) == req[r].op = op /\ req[r].at = "act" /\ req' = [req EXCEPT ![r] = Idle]

(* Mutant: ET2: the tombstone stays verified. *)
ScrubbedVerified(row) == [row EXCEPT !.phone = NoPhone, !.searchable = FALSE,
                                     !.deleted = TRUE]

Scrubbed(row) == [row EXCEPT !.phone = NoPhone, !.searchable = FALSE,
                             !.verified = FALSE, !.deleted = TRUE]

(* What the handlers other than r have in hand: the account one writes for,  *)
(* the number one found free of a cooldown or is erasing.                   *)
InHand(r) == {req[x].user : x \in {y \in Req \ {r} : req[y].op \in Writes}} \ {NoUser}
Cleared(r) ==
    {n \in Phone \cup {NoPhone} :
        \E x \in Req \ {r} : \/ req[x].at = "create" /\ req[x].phone = n
                            \/ \E c \in tx[x].cooled : c[1] = n}

(* The transaction goes on with the statement `at'.                         *)
Proceeds(r, at, wrote) ==
    /\ req' = [req EXCEPT ![r].at = at]
    /\ tx' = [tx EXCEPT ![r] = wrote]
    /\ UNCHANGED <<users, cooldown, sessions, bootstrap, backups, fresh, handed,
                   raced, clock>>

(* erase_user, a statement at a time: the phone_hash is read and its cooldown *)
(* inserted; the row is updated; what the other tables hold then is deleted. *)
EraseBegins(r) ==
    LET u == req[r].user IN
    /\ req[r].op = "delete" /\ req[r].at = "act"
    /\ Proceeds(r, "update", [NoTx EXCEPT !.cooled = {<<users[u].phone, clock>>},
                                          !.met = (u \in InHand(r))])

EraseUpdates(r) ==
    /\ req[r].at = "update"
    /\ ~Locked(req[r].user)
    /\ Proceeds(r, "links", tx[r])

EraseLinks(r) ==
    LET u == req[r].user IN
    /\ req[r].at = "links"
    /\ Proceeds(r, "backups", [tx[r] EXCEPT !.links = {v \in {u} : bootstrap[v] # NoLink}])

EraseBackups(r) ==
    /\ req[r].at = "backups"
    /\ Proceeds(r, "sessions", [tx[r] EXCEPT !.backups = {req[r].user} \cap backups])

EraseSessions(r) ==
    /\ req[r].at = "sessions"
    /\ Proceeds(r, "commit", [tx[r] EXCEPT !.sessions = {s \in sessions : s[1] = req[r].user}])

EraseCommits(r) ==
    LET u == req[r].user IN
    /\ req[r].at = "commit"
    /\ req' = [req EXCEPT ![r] = Idle]
    /\ tx' = [tx EXCEPT ![r] = NoTx]
    /\ cooldown' = cooldown \cup tx[r].cooled
    /\ users' = [users EXCEPT ![u] = Scrubbed(@)]
    /\ bootstrap' = [v \in UserId |-> IF v \in tx[r].links THEN NoLink ELSE bootstrap[v]]
    /\ backups' = backups \ tx[r].backups
    /\ sessions' = sessions \ tx[r].sessions
    /\ raced' = raced \cup (IF tx[r].met THEN {u} ELSE {}) \cup
                 ({c[1] : c \in tx[r].cooled} \cap Cleared(r))
    /\ UNCHANGED <<fresh, handed, clock>>

EraseUser(r) ==
    \/ EraseBegins(r) \/ EraseUpdates(r) \/ EraseLinks(r) \/ EraseBackups(r)
    \/ EraseSessions(r) \/ EraseCommits(r)

(* The search hash the caller sends stands or falls with `searchable'.      *)
SetSearchable(r) ==
    /\ \E on \in BOOLEAN :
        /\ Acts(r, IF on THEN "searchable" ELSE "hide")
        /\ ~Locked(req[r].user)
        /\ users' = [users EXCEPT ![req[r].user].searchable = on]
    /\ UNCHANGED <<cooldown, sessions, bootstrap, backups, tx, fresh,
                   handed, raced, clock>>

(* claim_username, by what it leaves in the row.                            *)
ClaimUsername(r) ==
    /\ Acts(r, "username")
    /\ ~Locked(req[r].user)
    /\ users' = [users EXCEPT ![req[r].user].named = TRUE]
    /\ UNCHANGED <<cooldown, sessions, bootstrap, backups, tx, fresh,
                   handed, raced, clock>>

(* An upsert, or a delete, waits for the transaction that deleted the row.   *)
LinkDeleted(u) == \E x \in Req : u \in tx[x].links

SetPairingBootstrap(r) ==
    /\ Acts(r, "offer")
    /\ ~LinkDeleted(req[r].user)
    /\ \E l \in fresh :
        /\ bootstrap' = [bootstrap EXCEPT ![req[r].user] = l]
        /\ fresh' = fresh \ {l}
    /\ UNCHANGED <<users, cooldown, sessions, backups, tx, handed, raced, clock>>

UpsertBackup(r) ==
    /\ Acts(r, "backup")
    /\ \A x \in Req : req[r].user \notin tx[x].backups
    /\ backups' = backups \cup {req[r].user}
    /\ UNCHANGED <<users, cooldown, sessions, bootstrap, tx, fresh, handed,
                   raced, clock>>

(* consume_pairing_bootstrap: DELETE ... RETURNING, for a searchable target. *)
Offers(u) == bootstrap[u] # NoLink /\ Live(u) /\ users[u].searchable

(* Mutant: The link is read and stays on offer. *)
TakenRead(u) == bootstrap

Taken(u) == [bootstrap EXCEPT ![u] = NoLink]

ConsumePairingBootstrap(r) ==
    /\ Acts(r, "pair")
    /\ \E u \in UserId :
        /\ Offers(u)
        /\ ~LinkDeleted(u)
        /\ bootstrap' = Taken(u)
        /\ handed' = [handed EXCEPT ![bootstrap[u]] = @ + 1]
    /\ UNCHANGED <<users, cooldown, sessions, backups, tx, fresh, raced, clock>>

----------------------------------------------------------------------------
(* A handler stops at any await: the vendor or the database failed it, a    *)
(* check refused it, or its client went away.  Its transaction is rolled    *)
(* back.                                                                    *)
Abandon(r) ==
    /\ req[r] # Idle
    /\ req' = [req EXCEPT ![r] = Idle]
    /\ tx' = [tx EXCEPT ![r] = NoTx]
    /\ UNCHANGED <<users, cooldown, sessions, bootstrap, backups, fresh, handed,
                   raced, clock>>

Tick ==
    /\ clock < MaxTime
    /\ clock' = clock + 1
    /\ UNCHANGED <<users, cooldown, sessions, bootstrap, backups, req,
                   tx, fresh, handed, raced>>

AuthedOp == Op \ {"signup", "verify"}

Next ==
    \/ \E r \in Req, p \in Phone, op \in {"signup", "verify"} : Begin(r, op, p)
    \/ \E r \in Req, t \in sessions, op \in AuthedOp : Authenticate(r, op, t)
    \/ \E r \in Req :
        \/ CheckCooldown(r) \/ FindOrCreatePendingUser(r)
        \/ MarkVerified(r) \/ CreateSession(r)
        \/ EraseUser(r) \/ SetSearchable(r) \/ ClaimUsername(r)
        \/ SetPairingBootstrap(r) \/ UpsertBackup(r)
        \/ ConsumePairingBootstrap(r)
        \/ Abandon(r)
    \/ Tick

Spec == Init /\ [][Next]_vars

----------------------------------------------------------------------------
(* Properties *)

(* However signups, verifications and erasures of one number interleave,    *)
(* at most one live account has it: find_or_create_pending_user is one      *)
(* statement, and erasure frees the number in the statement that tombstones *)
(* the row (ET15).                                                          *)
OneLiveAccount ==
    \A u, v \in UserId :
        Live(u) /\ Live(v) /\ users[u].phone = users[v].phone => u = v

(* No account exists for a number whose last account was erased less than   *)
(* PHONE_COOLDOWN_HOURS ago (OQ5, ET14), unless a handler had found the     *)
(* number free of a cooldown just before that erasure committed, or a       *)
(* second erasure of the account was under way.                             *)
NoAccountInCooldown ==
    \A u \in UserId :
        Live(u) /\ users[u].phone \notin raced => ~InCooldown(users[u].phone)

LeavesNothing(u) ==
    /\ users[u].phone = NoPhone
    /\ ~users[u].searchable /\ ~users[u].verified
    /\ bootstrap[u] = NoLink
    /\ u \notin backups
    /\ \A s \in sessions : s[1] # u

(* What erase_user removes stays removed: a tombstone has no number, and no *)
(* session, pairing bootstrap or recovery bundle is left of its account     *)
(* (T15, T19, T25, ET2: the bootstrap "must not survive the account it was  *)
(* issued for"), unless another handler had the account to write for while  *)
(* the erasure's transaction was open: what it inserts after the DELETE of  *)
(* its table stays.  The username stays in the tombstone, although the      *)
(* comment on erase_user has the nickname scrubbed too.                     *)
ErasedLeavesNothing ==
    \A u \in UserId \ raced :
        users[u] # NoRow /\ users[u].deleted => LeavesNothing(u)

(* A contact link, which holds a one-time KeyPackage, reaches at most one   *)
(* requester (T25).                                                         *)
LinkHandedOnce == \A l \in Link : handed[l] <= 1

=============================================================================
