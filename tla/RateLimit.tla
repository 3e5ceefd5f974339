----------------------------- MODULE RateLimit -----------------------------
(***************************************************************************)
(* The directory's rate limiter (directory/src/ratelimit.rs): one fixed    *)
(* window of counted calls per key, in a map behind one mutex that dies    *)
(* with the process.                                                       *)
(*                                                                         *)
(* A key is a bucket (caller, phone or address) with a number.  The limit  *)
(* comes with each call and may differ from one call to the next: search   *)
(* takes it from the caller's tier.  admitted is the history of the calls  *)
(* let through, by key.                                                    *)
(***************************************************************************)
EXTENDS Naturals, Sequences

CONSTANTS
    Key,          \* (Bucket, u64)
    TopLimit,     \* the largest limit a key is ever called with
    Period,       \* the length of a window, 60 s in the code
    MaxTime       \* bound: the clock stops here

ASSUME LimiterAssumption ==
    /\ TopLimit \in [Key -> Nat \ {0}]
    /\ Period \in Nat \ {0}
    /\ MaxTime \in Nat

VARIABLES
    now,          \* Instant::now()
    windows,      \* RateLimiter.windows
    admitted      \* history: when the calls of this process were let through

limiterVars == <<now, windows, admitted>>

NoWindow == [count |-> 0, started |-> 0]

LimiterInit ==
    /\ now = 0
    /\ windows = [k \in Key |-> NoWindow]
    /\ admitted = [k \in Key |-> <<>>]

\* Mutant of Entered: a window never runs out.
EnteredForever(k) ==
    IF windows[k].count = 0 THEN [count |-> 0, started |-> now] ELSE windows[k]

\* The window a call finds: a new one if there was none, or the last has run out.
\* A window that exists has counted the call that opened it.
Entered(k) ==
    IF windows[k].count = 0 \/ now - windows[k].started >= Period
    THEN [count |-> 0, started |-> now]
    ELSE windows[k]

\* Mutant of Refuses: one call too many is let through.
RefusesLate(k, limit) == Entered(k).count > limit

Refuses(k, limit) == Entered(k).count >= limit

\* The calls of bump, one per key of ks, that return true in one request.  They
\* lock the map one after the other, but on keys of different buckets.
Admit(ks, limit) ==
    /\ \A k \in ks : ~Refuses(k, limit[k])
    /\ windows' = [k \in Key |-> IF k \in ks THEN [Entered(k) EXCEPT !.count = @ + 1]
                                             ELSE windows[k]]
    /\ admitted' = [k \in Key |-> IF k \in ks THEN Append(admitted[k], now) ELSE admitted[k]]
    /\ UNCHANGED now

Tick ==
    /\ now < MaxTime
    /\ now' = now + 1
    /\ UNCHANGED <<windows, admitted>>

\* "State resets on restart."
Restart ==
    /\ windows' = [k \in Key |-> NoWindow]
    /\ admitted' = [k \in Key |-> <<>>]
    /\ UNCHANGED now

\* The limits a request may come with.
Limits == {limit \in [Key -> Nat] : \A k \in Key : limit[k] \in 1 .. TopLimit[k]}

\* A call that is refused changes nothing.
LimiterNext ==
    \/ \E ks \in SUBSET Key, limit \in Limits : Admit(ks, limit)
    \/ Tick
    \/ Restart

LimiterSpec == LimiterInit /\ [][LimiterNext]_limiterVars

-----------------------------------------------------------------------------
(* Properties *)

\* Every variable has its type.
LimiterTypeOK ==
    /\ now \in Nat
    /\ windows \in [Key -> [count : Nat, started : Nat]]
    /\ admitted \in [Key -> Seq(Nat)]

\* However calls fall around the edge of a window, no stretch of one period sees
\* more than twice the limit less one of them let through ("guesses per minute
\* against one number's OTP").
BurstsBounded ==
    \A k \in Key : \A i, j \in 1 .. Len(admitted[k]) :
        j - i >= 2 * TopLimit[k] - 1 => admitted[k][j] - admitted[k][i] >= Period

\* A call is refused only if as many calls as the limit were let through on that
\* same key within the last period: no other key's traffic counts, and a caller
\* that has been quiet for a period is not refused.
RefusalEarned ==
    \A k \in Key : \A limit \in 1 .. TopLimit[k] :
        Refuses(k, limit) =>
            /\ Len(admitted[k]) >= limit
            /\ now - admitted[k][Len(admitted[k]) + 1 - limit] < Period

\* What makes both inductive, for the log of one key, its window and its limit.
\* The window has counted exactly the last calls let through, the first of them
\* at its start; and all calls but those and the limit - 1 before them came a
\* full period before that start.
Consistent(log, count, started, time, limit) ==
    /\ count <= limit
    /\ count <= Len(log)
    /\ count = 0 => Len(log) = 0
    /\ count > 0 => started <= time /\ log[Len(log) + 1 - count] = started
    /\ \A i \in 1 .. Len(log) :
         /\ log[i] <= time
         /\ i + count + limit <= Len(log) + 1 => log[i] + Period <= started
    /\ \A i, j \in 1 .. Len(log) :
         /\ i <= j => log[i] <= log[j]
         /\ j - i >= 2 * limit - 1 => log[i] + Period <= log[j]

\* The inductive invariant.
LimiterInv ==
    /\ LimiterTypeOK
    /\ \A k \in Key :
         Consistent(admitted[k], windows[k].count, windows[k].started, now, TopLimit[k])

=============================================================================
