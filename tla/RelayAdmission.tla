-------------------------- MODULE RelayAdmission --------------------------
(***************************************************************************)
(* What a client must pay before the relay creates a queue for it          *)
(* (relay/src/state.rs): a solved proof-of-work challenge the relay issued *)
(* and, when the directory's key is configured, an unspent and unexpired   *)
(* attestation token.  Both books are kept in memory only.                 *)
(*                                                                         *)
(* Creating the queue itself is RelayQueues; here it is the payment.       *)
(***************************************************************************)
EXTENDS Integers, FiniteSets, Sequences

CONSTANTS
    Challenge,     \* the random challenges; none is generated twice
    Token,         \* the directory's tokens, named by their nonces
    NoToken,       \* a request without a token
    Expiry,        \* Token -> the unix second a token expires at
    GateOn,        \* whether a directory key is configured
    Cap,           \* limits::MAX_OUTSTANDING_POW_CHALLENGES
    MaxClock       \* bound: the last second of the run

ASSUME AdmissionAssumption ==
    /\ NoToken \notin Token
    /\ Expiry \in [Token -> Nat]
    /\ GateOn \in BOOLEAN
    /\ Cap \in Nat \ {0}
    /\ MaxClock \in Nat

VARIABLES
    now,           \* now_unix()
    outstanding,   \* Inner.outstanding_challenges
    order,         \* Inner.challenge_order
    spent,         \* Inner.spent_tokens, each with its own expiry
    issued,        \* history: the challenges issued since the process started
    known,         \* history: the challenges a request has named, or that an
                   \* earlier process issued
    paidWith,      \* history: queues created per challenge
    redeemed       \* history: queues created per token since the start

admissionVars == <<now, outstanding, order, spent, issued, known, paidWith, redeemed>>

AdmissionInit ==
    /\ now = 0
    /\ outstanding = {}
    /\ order = <<>>
    /\ spent = {}
    /\ issued = <<>>
    /\ known = {}
    /\ paidWith = [c \in Challenge |-> 0]
    /\ redeemed = [t \in Token |-> 0]

\* Mutant of Excess: room is made for one more than is needed.
ExcessEarly == IF Len(order) + 1 >= Cap THEN Len(order) - Cap + 2 ELSE 0

\* How many challenges the loop of issue_pow_challenge pops.
Excess == IF Len(order) >= Cap THEN Len(order) - Cap + 1 ELSE 0

\* issue_pow_challenge: while the order queue is at the cap its head is popped
\* and forgotten, then the new challenge is recorded.  The queue also holds
\* challenges that were consumed already.
IssuePowChallenge(c) ==
    LET evicted == {order[i] : i \in 1 .. Excess}
    IN  /\ \A i \in 1 .. Len(issued) : issued[i] # c
        /\ c \notin known
        /\ outstanding' = (outstanding \ evicted) \cup {c}
        /\ order' = Append(SubSeq(order, Excess + 1, Len(order)), c)
        /\ issued' = Append(issued, c)
        /\ UNCHANGED <<now, spent, known, paidWith, redeemed>>

\* Mutant of IsExpired: the token is still good in the second it expires.
IsExpiredLate(t) == now > Expiry[t]

\* AttestationToken::is_expired.
IsExpired(t) == now >= Expiry[t]

\* spent_tokens.retain: nonces are forgotten once their token has expired.
Pruned == {t \in spent : Expiry[t] > now}

\* consume_attestation for a token that is there, signed and unexpired (any
\* other is refused before anything changes): it must not be spent, and is
\* spent from now on.
TokenAccepted(t) ==
    GateOn => t \in Token /\ ~IsExpired(t) /\ t \notin Pruned

\* consume_pow: the challenge is gone whether or not the solution is right.
PowAccepted(c, solved) == c \in outstanding /\ solved

\* create_mailbox and create_group_inbox up to the fresh queue id.  The token
\* is consumed first, so a wrong solution costs the token and the challenge.
CreateQueue(c, solved, t) ==
    /\ TokenAccepted(t)
    /\ spent' = IF GateOn THEN Pruned \cup {t} ELSE spent
    /\ outstanding' = outstanding \ {c}
    /\ known' = known \cup {c}
    /\ IF PowAccepted(c, solved)
       THEN /\ paidWith' = [paidWith EXCEPT ![c] = @ + 1]
            /\ redeemed' = IF t \in Token THEN [redeemed EXCEPT ![t] = @ + 1]
                                          ELSE redeemed
       ELSE UNCHANGED <<paidWith, redeemed>>
    /\ UNCHANGED <<now, order, issued>>

\* A spent token presented again: refused, after the expired nonces were
\* dropped.
RefuseReplay(t) ==
    /\ GateOn
    /\ ~IsExpired(t)
    /\ t \in Pruned
    /\ spent' = Pruned
    /\ UNCHANGED <<now, outstanding, order, issued, known, paidWith, redeemed>>

Tick ==
    /\ now < MaxClock
    /\ now' = now + 1
    /\ UNCHANGED <<outstanding, order, spent, issued, known, paidWith, redeemed>>

\* The process is killed and RelayState::open starts from the file, which
\* holds neither challenges nor spent tokens.
Restart ==
    /\ outstanding' = {}
    /\ order' = <<>>
    /\ spent' = {}
    /\ issued' = <<>>
    /\ known' = known \cup {issued[i] : i \in 1 .. Len(issued)}
    /\ redeemed' = [t \in Token |-> 0]
    /\ UNCHANGED <<now, paidWith>>

AdmissionNext ==
    \/ \E c \in Challenge : IssuePowChallenge(c)
    \/ \E c \in Challenge, solved \in BOOLEAN, t \in Token \cup {NoToken} :
          CreateQueue(c, solved, t)
    \/ \E t \in Token : RefuseReplay(t)
    \/ Tick
    \/ Restart

AdmissionSpec == AdmissionInit /\ [][AdmissionNext]_admissionVars

-----------------------------------------------------------------------------
(* Properties *)

\* Every variable has its type.
AdmissionTypeOK ==
    /\ now \in Nat
    /\ outstanding \subseteq Challenge
    /\ order \in Seq(Challenge)
    /\ spent \subseteq Token
    /\ issued \in Seq(Challenge)
    /\ known \subseteq Challenge
    /\ paidWith \in [Challenge -> Nat]
    /\ redeemed \in [Token -> Nat]

\* Both books of challenges stay within the cap, and no challenge is
\* outstanding that eviction would never reach, so asking for challenges
\* without solving them cannot grow the relay's memory.
ChallengesBounded ==
    /\ Len(order) <= Cap
    /\ outstanding \subseteq {order[i] : i \in 1 .. Len(order)}

\* One solved challenge pays for one queue, whatever retries, evictions and
\* restarts come between.
ChallengePaysOnce == \A c \in Challenge : paidWith[c] <= 1

\* While the gate is on, one token pays for at most one queue in the life of
\* a process: a nonce is forgotten only when its token has expired, and from
\* that second on the token is refused as expired (consume_attestation).
TokenPaysOnce == GateOn => \A t \in Token : redeemed[t] <= 1

\* A queue is paid for with a challenge and, while the gate is on, a token that
\* no other queue was paid for with.
PaysOnce == ChallengePaysOnce /\ TokenPaysOnce

\* A challenge no request has named yet can still be redeemed as long as fewer
\* than the cap were issued after it.
RecentChallengeHonoured ==
    \A i \in 1 .. Len(issued) :
        Len(issued) - i < Cap /\ issued[i] \notin known =>
            issued[i] \in outstanding

\* The order queue is the newest end of what was issued, and the outstanding
\* challenges are those of it that no request has named.
OrderIsRecent ==
    /\ Len(order) <= Len(issued)
    /\ Len(order) < Len(issued) => Len(order) = Cap
    /\ \A i \in 1 .. Len(order) : order[i] = issued[Len(issued) - Len(order) + i]
    /\ \A i, j \in 1 .. Len(issued) : issued[i] = issued[j] => i = j
    /\ outstanding = {order[i] : i \in 1 .. Len(order)} \ known

\* Only a challenge a request has named has paid for a queue.
PaymentsAreKnown == \A c \in Challenge : paidWith[c] > 0 => c \in known

\* A token that paid for a queue is remembered until it expires.
SpentIsRemembered ==
    GateOn => \A t \in Token : redeemed[t] > 0 => t \in spent \/ IsExpired(t)

\* The inductive invariant behind the admission properties.
AdmissionInv ==
    /\ AdmissionTypeOK
    /\ ChallengesBounded
    /\ OrderIsRecent
    /\ PaymentsAreKnown
    /\ ChallengePaysOnce
    /\ SpentIsRemembered
    /\ TokenPaysOnce

=============================================================================
