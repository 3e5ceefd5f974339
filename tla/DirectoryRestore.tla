-------------------------- MODULE DirectoryRestore --------------------------
(***************************************************************************)
(* Restore of one account from its recovery bundle: /restore/begin,        *)
(* /restore/complete and /backup of directory/src/api.rs, with the PIN     *)
(* lockout of DirectoryStore::verify_backup_auth.  Handlers interleave     *)
(* between store calls; verify_backup_auth is a transaction that holds the *)
(* bundle's row from its SELECT ... FOR UPDATE to its commit.              *)
(*                                                                         *)
(* The clock counts hours.  A PIN or phrase is right or wrong; salts,      *)
(* hashes and the ciphertexts are left out.                                *)
(***************************************************************************)
EXTENDS Integers

CONSTANTS
    Req,        \* requests the service handles at a time
    Token,      \* restore tokens, each minted at most once
    NoReq, NoToken, NoRow,
    TokenTTL,   \* RESTORE_TOKEN_TTL_SECS, in ticks, rounded up
    MaxTime     \* bound on the clock

ASSUME RestoreAssumption ==
    /\ NoReq \notin Req /\ NoToken \notin Token
    /\ NoRow \notin [attempts : Nat, until : Nat]
    /\ TokenTTL \in Nat /\ MaxTime \in Nat

VARIABLES
    live,      \* the account is not erased
    row,       \* backups: pin_attempts and locked_until (0 for NULL), or NoRow
    rowLock,   \* the request whose transaction holds the row
    session,   \* the account has a row in sessions
    tokens,    \* restore_tokens: token -> expires_at, 0 when absent
    minted,    \* tokens ever created
    req,       \* each request slot
    clock,
    wrong,     \* history: wrong PINs answered since the attempts were last zero
    since,     \* history: when that was
    handed,    \* history: bundles handed out for each token
    raced      \* history: an upload was under way when the account was erased

vars == <<live, row, rowLock, session, tokens, minted, req, clock, wrong, since,
          handed, raced>>
history == <<wrong, since, handed, raced>>

Row == [attempts : Nat, until : Nat]
Step == {"find", "salts", "session", "token", "check", "verify", "compare",
         "consume", "upsert"}
Request == [at : Step, token : Token \cup {NoToken}, pin : BOOLEAN,
            right : BOOLEAN, now : Nat, attempts : Nat]
Idle == [at |-> "idle", token |-> NoToken, pin |-> FALSE, right |-> FALSE,
         now |-> 0, attempts |-> 0]

(* Every variable has its type. *)
TypeOK ==
    /\ live \in BOOLEAN
    /\ row \in Row \cup {NoRow}
    /\ rowLock \in Req \cup {NoReq}
    /\ session \in BOOLEAN
    /\ tokens \in [Token -> Nat]
    /\ minted \subseteq Token
    /\ req \in [Req -> Request \cup {Idle}]
    /\ clock \in Nat
    /\ wrong \in Nat /\ since \in Nat
    /\ handed \in [Token -> Nat]
    /\ raced \in BOOLEAN

Clean == [attempts |-> 0, until |-> 0]

\* A verified account that has a session and has uploaded its bundle.
Init ==
    /\ live = TRUE /\ session = TRUE
    /\ row = Clean
    /\ rowLock = NoReq
    /\ tokens = [t \in Token |-> 0]
    /\ minted = {}
    /\ req = [r \in Req |-> Idle]
    /\ clock = 1
    /\ wrong = 0 /\ since = 1
    /\ handed = [t \in Token |-> 0]
    /\ raced = FALSE

Goes(r, step) == req' = [req EXCEPT ![r].at = step]
Ends(r) == req' = [req EXCEPT ![r] = Idle]

----------------------------------------------------------------------------
(* restore_begin, after the vendor approved the code *)

RestoreBegin(r) ==
    /\ req[r] = Idle
    /\ minted # Token
    /\ Goes(r, "find")
    /\ UNCHANGED <<live, row, rowLock, session, tokens, minted, clock, history>>

FindUserByPhoneHash(r) ==
    /\ req[r].at = "find"
    /\ IF live THEN Goes(r, "salts") ELSE Ends(r)
    /\ UNCHANGED <<live, row, rowLock, session, tokens, minted, clock, history>>

BackupSalts(r) ==
    /\ req[r].at = "salts"
    /\ IF row # NoRow THEN Goes(r, "session") ELSE Ends(r)
    /\ UNCHANGED <<live, row, rowLock, session, tokens, minted, clock, history>>

CreateSession(r) ==
    /\ req[r].at = "session"
    /\ session' = TRUE
    /\ Goes(r, "token")
    /\ UNCHANGED <<live, row, rowLock, tokens, minted, clock, history>>

CreateRestoreToken(r) ==
    /\ req[r].at = "token"
    /\ \E t \in Token \ minted :
        /\ tokens' = [tokens EXCEPT ![t] = clock + TokenTTL]
        /\ minted' = minted \cup {t}
    /\ Ends(r)
    /\ UNCHANGED <<live, row, rowLock, session, clock, history>>

----------------------------------------------------------------------------
(* restore_complete *)

RestoreComplete(r, t, pin, right) ==
    /\ req[r] = Idle
    /\ req' = [req EXCEPT ![r] = [at |-> "check", token |-> t, pin |-> pin,
                                  right |-> right, now |-> 0, attempts |-> 0]]
    /\ UNCHANGED <<live, row, rowLock, session, tokens, minted, clock, history>>

\* restore_token_user: an expired token is dropped on the way.
RestoreTokenUser(r) ==
    LET t == req[r].token IN
    /\ req[r].at = "check"
    /\ IF tokens[t] > clock
       THEN Goes(r, "verify") /\ UNCHANGED tokens
       ELSE Ends(r) /\ tokens' = [tokens EXCEPT ![t] = 0]
    /\ UNCHANGED <<live, row, rowLock, session, minted, clock, history>>

\* FOR UPDATE, UPDATE and DELETE wait for the transaction that holds the row.
RowFree == rowLock = NoReq

IsLocked == row.until > clock

Refused(r) == req[r].pin /\ IsLocked

\* The SELECT, and the early returns: no bundle, or a PIN under lockout.
SelectForUpdate(r) ==
    /\ req[r].at = "verify"
    /\ RowFree
    /\ IF row = NoRow \/ Refused(r)
       THEN Ends(r) /\ UNCHANGED rowLock
       ELSE /\ req' = [req EXCEPT ![r].at = "compare", ![r].now = clock,
                                   ![r].attempts = row.attempts]
            /\ rowLock' = r
    /\ UNCHANGED <<live, row, session, tokens, minted, clock, history>>

LockoutHours(n) == IF n <= 1 THEN 1 ELSE IF n = 2 THEN 4 ELSE 24

\* Mutant of AfterWrong: a lockout starts the count again.
AfterWrongAnew(q) ==
    LET n == q.attempts + 1
    IN  IF n % 10 = 0
        THEN [attempts |-> 0, until |-> q.now + LockoutHours(n \div 10)]
        ELSE [row EXCEPT !.attempts = n]

\* The row after a wrong PIN, from the attempts and the time request q read.
AfterWrong(q) ==
    LET n == q.attempts + 1
    IN  IF n % 10 = 0
        THEN [attempts |-> n, until |-> q.now + LockoutHours(n \div 10)]
        ELSE [row EXCEPT !.attempts = n]

\* An UPDATE changes the row if there still is one.
Updated(new) == IF row = NoRow THEN NoRow ELSE new

\* The comparison, the UPDATE and the commit.
Compare(r) ==
    /\ req[r].at = "compare"
    /\ rowLock' = NoReq
    /\ IF req[r].right
       THEN /\ row' = Updated(Clean)
            /\ req' = [req EXCEPT ![r] = [@ EXCEPT !.at = "consume", !.now = 0,
                                                   !.attempts = 0]]
            /\ wrong' = 0 /\ since' = clock
       ELSE /\ row' = IF req[r].pin THEN Updated(AfterWrong(req[r])) ELSE row
            /\ Ends(r)
            /\ wrong' = IF req[r].pin THEN wrong + 1 ELSE wrong
            /\ UNCHANGED since
    /\ UNCHANGED <<live, session, tokens, minted, clock, handed, raced>>

Without(t) == [tokens EXCEPT ![t] = 0]

\* consume_restore_token and the answer with the bundle.
ConsumeRestoreToken(r) ==
    LET t == req[r].token IN
    /\ req[r].at = "consume"
    /\ tokens' = Without(t)
    /\ handed' = [handed EXCEPT ![t] = @ + 1]
    /\ Ends(r)
    /\ UNCHANGED <<live, row, rowLock, session, minted, clock, wrong, since, raced>>

----------------------------------------------------------------------------
(* put_backup, once authenticated, and erase_user *)

PutBackup(r) ==
    /\ req[r] = Idle
    /\ live /\ session
    /\ Goes(r, "upsert")
    /\ UNCHANGED <<live, row, rowLock, session, tokens, minted, clock, history>>

UpsertBackup(r) ==
    /\ req[r].at = "upsert"
    /\ RowFree
    /\ row' = Clean
    /\ wrong' = 0 /\ since' = clock
    /\ Ends(r)
    /\ UNCHANGED <<live, rowLock, session, tokens, minted, clock, handed, raced>>

\* Mutant of RowErased: the bundle survives the account.
RowKept == row

RowErased == NoRow

EraseUser ==
    /\ live /\ session
    /\ RowFree
    /\ live' = FALSE
    /\ row' = RowErased
    /\ session' = FALSE
    /\ wrong' = 0 /\ since' = clock
    /\ raced' = (\E r \in Req : req[r].at \in {"upsert", "consume"})
    /\ UNCHANGED <<rowLock, tokens, minted, req, clock, handed>>

----------------------------------------------------------------------------
\* A handler is dropped at an await, and its transaction rolled back.
Abandon(r) ==
    /\ req[r] # Idle
    /\ Ends(r)
    /\ rowLock' = IF rowLock = r THEN NoReq ELSE rowLock
    /\ UNCHANGED <<live, row, session, tokens, minted, clock, history>>

\* The service restarts: restore tokens live in memory only.
Restart ==
    /\ tokens' = [t \in Token |-> 0]
    /\ req' = [r \in Req |-> Idle]
    /\ rowLock' = NoReq
    /\ UNCHANGED <<live, row, session, minted, clock, history>>

Tick ==
    /\ clock < MaxTime
    /\ clock' = clock + 1
    /\ UNCHANGED <<live, row, rowLock, session, tokens, minted, req, history>>

Next ==
    \/ \E r \in Req :
        \/ RestoreBegin(r) \/ FindUserByPhoneHash(r) \/ BackupSalts(r)
        \/ CreateSession(r) \/ CreateRestoreToken(r)
        \/ \E t \in minted, pin, right \in BOOLEAN : RestoreComplete(r, t, pin, right)
        \/ RestoreTokenUser(r) \/ SelectForUpdate(r) \/ Compare(r)
        \/ ConsumeRestoreToken(r)
        \/ PutBackup(r) \/ UpsertBackup(r)
        \/ Abandon(r)
    \/ EraseUser \/ Restart \/ Tick

Spec == Init /\ [][Next]_vars

----------------------------------------------------------------------------
(* Properties *)

\* The hours the first k lockouts take together.
LockTime(k) == IF k = 0 THEN 0 ELSE IF k = 1 THEN 1 ELSE 5 + 24 * (k - 2)

\* Guessing a PIN is slow: since the attempts were last reset, the wrong PINs
\* answered have cost all the lockouts between them, ten at a time, 1, 4 and
\* then 24 hours each, however many requests guess at once and wherever they
\* are dropped (verify_backup_auth: "the attempt counter can never lose an
\* increment").
GuessingIsSlow == wrong > 0 => clock - since >= LockTime((wrong - 1) \div 10)

\* The bundle of an erased account is handed to nobody, whatever restore was
\* under way, unless an upload or an answer raced the erasure.
ErasedNotRestored ==
    [][handed' # handed => live \/ raced]_vars

=============================================================================
