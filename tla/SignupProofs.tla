---------------------------- MODULE SignupProofs ----------------------------
(***************************************************************************)
(* Signing up, for any numbers, limits and bounds: the limiter's two       *)
(* bounds, for every set of keys, every limit and every length of the      *)
(* period, and that the handlers use it so; the gate end to end; and what  *)
(* the screen says.                                                        *)
(***************************************************************************)
EXTENDS Signup, TLAPS

-----------------------------------------------------------------------------
(* The limiter *)

\* The limiter starts with no window and no call let through.
LEMMA LimiterInitInv == LimiterInit => LimiterInv
  BY LimiterAssumption DEF LimiterInit, LimiterInv, LimiterTypeOK, Consistent, NoWindow

\* The elements of a log with one more call.
LEMMA AppendFacts ==
    ASSUME NEW log \in Seq(Nat), NEW t \in Nat
    PROVE  /\ Append(log, t) \in Seq(Nat)
           /\ Len(log) \in Nat
           /\ Len(Append(log, t)) = Len(log) + 1
           /\ Append(log, t)[Len(log) + 1] = t
           /\ \A i \in 1 .. Len(log) : Append(log, t)[i] = log[i] /\ log[i] \in Nat
  OBVIOUS

\* One more call in a window that has not run out.
LEMMA CountsOn ==
    ASSUME NEW log \in Seq(Nat), NEW c \in Nat, NEW s \in Nat, NEW t \in Nat, NEW M \in Nat, 0 < M,
           Consistent(log, c, s, t, M), 0 < c, c < M
    PROVE  Consistent(Append(log, t), c + 1, s, t, M)
  <1> DEFINE n == Len(log)
             new == Append(log, t)
  <1>1. PICK m \in Nat : m = n
    BY Zenon, AppendFacts
  <1>2. /\ Len(new) = m + 1 /\ new[m + 1] = t
        /\ \A i \in 1 .. m : new[i] = log[i] /\ log[i] \in Nat
    BY Zenon, <1>1, AppendFacts
  <1>3. /\ c <= m /\ s <= t /\ log[m + 1 - c] = s
        /\ \A i \in 1 .. m : log[i] <= t /\ (i + c + M <= m + 1 => log[i] + Period <= s)
        /\ \A i, j \in 1 .. m : /\ i <= j => log[i] <= log[j]
                                /\ j - i >= 2 * M - 1 => log[i] + Period <= log[j]
    BY Zenon, <1>1 DEF Consistent
  <1> HIDE DEF n, new
  <1>4. new[m + 1 - c] = s
    BY <1>2, <1>3
  <1>5. ASSUME NEW i \in 1 .. m + 1
        PROVE  new[i] <= t /\ (i + c + M <= m + 1 => new[i] + Period <= s)
    <2>1. CASE i = m + 1
      BY ONLY <1>2, <2>1, 0 < M
    <2>2. CASE i # m + 1
      <3>1. i \in 1 .. m
        BY <2>2
      <3> QED BY ONLY Zenon, <1>2, <1>3, <3>1
    <2> QED BY Zenon, <2>1, <2>2
  <1>6. ASSUME NEW i \in 1 .. m + 1, NEW j \in 1 .. m + 1
        PROVE  /\ i <= j => new[i] <= new[j]
               /\ j - i >= 2 * M - 1 => new[i] + Period <= new[j]
    <2>1. CASE j = m + 1
      <3>1. i <= j => new[i] <= new[j]
        BY Zenon, <1>2, <1>5, <2>1
      <3>2. j - i >= 2 * M - 1 => i \in 1 .. m /\ i + c + M <= m + 1
        BY ONLY <2>1, 0 < M, c < M
      <3>3. ASSUME j - i >= 2 * M - 1 PROVE new[i] + Period <= new[j]
        <4>1. i \in 1 .. m /\ log[i] + Period <= s
          BY ONLY <1>3, <3>2, <3>3
        <4>2. new[i] = log[i] /\ log[i] \in Nat /\ new[j] = t
          BY ONLY <1>2, <2>1, <4>1
        <4> QED BY ONLY <1>3, <4>1, <4>2, LimiterAssumption
      <3> QED BY <3>1, <3>3
    <2>2. CASE j # m + 1
      <3>1. j \in 1 .. m
        BY <2>2
      <3>2. j - i >= 2 * M - 1 \/ i <= j => i \in 1 .. m
        BY <3>1
      <3> QED BY Zenon, <1>2, <1>3, <3>1, <3>2
    <2> QED BY Zenon, <2>1, <2>2
  <1>7. Len(new) + 1 - (c + 1) = m + 1 - c
    BY <1>2
  <1>8. \A i \in 1 .. Len(new) : i + (c + 1) + M <= Len(new) + 1 => i + c + M <= m + 1
    BY <1>2
  <1>9. c + 1 <= M /\ c + 1 <= Len(new) /\ c + 1 # 0 /\ s <= t
    BY <1>2, <1>3
  <1>10. \A i \in 1 .. Len(new) :
           new[i] <= t /\ (i + (c + 1) + M <= Len(new) + 1 => new[i] + Period <= s)
    BY ONLY <1>2, <1>5, <1>8
  <1>11. \A i, j \in 1 .. Len(new) :
           /\ i <= j => new[i] <= new[j]
           /\ j - i >= 2 * M - 1 => new[i] + Period <= new[j]
    BY ONLY <1>2, <1>6
  <1>12. Consistent(new, c + 1, s, t, M)
    BY ONLY <1>4, <1>7, <1>9, <1>10, <1>11 DEF Consistent
  <1> QED BY Zenon, <1>12 DEF new

\* The call that opens a window.
LEMMA CountsAfresh ==
    ASSUME NEW log \in Seq(Nat), NEW c \in Nat, NEW s \in Nat, NEW t \in Nat, NEW M \in Nat, 0 < M,
           Consistent(log, c, s, t, M), c = 0 \/ s + Period <= t
    PROVE  Consistent(Append(log, t), 1, t, t, M)
  <1> DEFINE n == Len(log)
             new == Append(log, t)
  <1>1. PICK m \in Nat : m = n
    BY Zenon, AppendFacts
  <1>2. /\ Len(new) = m + 1 /\ new[m + 1] = t
        /\ \A i \in 1 .. m : new[i] = log[i] /\ log[i] \in Nat
    BY Zenon, <1>1, AppendFacts
  <1>3. /\ c <= M /\ c <= m
        /\ c = 0 => m = 0
        /\ c > 0 => log[m + 1 - c] = s
        /\ \A i \in 1 .. m : log[i] <= t
        /\ \A i, j \in 1 .. m : /\ i <= j => log[i] <= log[j]
                                /\ j - i >= 2 * M - 1 => log[i] + Period <= log[j]
    BY Zenon, <1>1 DEF Consistent
  <1> HIDE DEF n, new
  <1>4. ASSUME NEW i \in 1 .. m, i + M <= m + 1
        PROVE  log[i] + Period <= t
    <2>1. c > 0 /\ m + 1 - c \in 1 .. m /\ i <= m + 1 - c
      BY <1>3, <1>4
    <2>2. log[i] <= s
      BY Zenon, <1>3, <2>1
    <2> QED BY <1>2, <2>1, <2>2, LimiterAssumption
  <1>5. ASSUME NEW i \in 1 .. m + 1
        PROVE  new[i] <= t /\ (i + M <= m + 1 => new[i] + Period <= t)
    <2>1. i + M <= m + 1 => i \in 1 .. m
      OBVIOUS
    <2>2. new[i] <= t
      <3>1. CASE i = m + 1
        BY <1>2, <3>1
      <3>2. CASE i # m + 1
        <4>1. i \in 1 .. m
          BY <3>2
        <4> QED BY Zenon, <1>2, <1>3, <4>1
      <3> QED BY Zenon, <3>1, <3>2
    <2>3. i + M <= m + 1 => new[i] + Period <= t
      BY ONLY <1>2, <1>4, <2>1
    <2> QED BY Zenon, <2>2, <2>3
  <1>6. ASSUME NEW i \in 1 .. m + 1, NEW j \in 1 .. m + 1
        PROVE  /\ i <= j => new[i] <= new[j]
               /\ j - i >= 2 * M - 1 => new[i] + Period <= new[j]
    <2>1. CASE j = m + 1
      <3>1. i <= j => new[i] <= new[j]
        BY Zenon, <1>2, <1>5, <2>1
      <3>2. j - i >= 2 * M - 1 => i + M <= m + 1
        BY <2>1
      <3>3. j - i >= 2 * M - 1 => new[i] + Period <= new[j]
        BY Zenon, <1>2, <1>5, <2>1, <3>2
      <3> QED BY Zenon, <3>1, <3>3
    <2>2. CASE j # m + 1
      <3>1. j \in 1 .. m
        BY <2>2
      <3>2. j - i >= 2 * M - 1 \/ i <= j => i \in 1 .. m
        BY <3>1
      <3> QED BY Zenon, <1>2, <1>3, <3>1, <3>2
    <2> QED BY Zenon, <2>1, <2>2
  <1>7. Len(new) + 1 - 1 = m + 1
    BY <1>2
  <1>8. \A i \in 1 .. Len(new) : i + 1 + M <= Len(new) + 1 => i + M <= m + 1
    BY <1>2
  <1>9. 1 <= M /\ 1 <= Len(new) /\ t <= t
    BY <1>2
  <1>10. \A i \in 1 .. Len(new) :
           new[i] <= t /\ (i + 1 + M <= Len(new) + 1 => new[i] + Period <= t)
    BY ONLY <1>2, <1>5, <1>8
  <1>11. \A i, j \in 1 .. Len(new) :
           /\ i <= j => new[i] <= new[j]
           /\ j - i >= 2 * M - 1 => new[i] + Period <= new[j]
    BY ONLY <1>2, <1>6
  <1>12. Consistent(new, 1, t, t, M)
    BY ONLY <1>2, <1>7, <1>9, <1>10, <1>11 DEF Consistent
  <1> QED BY Zenon, <1>12 DEF new

\* What a call that is let through does to its key.
LEMMA AdmitOwnKey ==
    ASSUME LimiterInv, NEW k \in Key, NEW limit \in Nat, limit <= TopLimit[k], ~Refuses(k, limit)
    PROVE  LET w == [Entered(k) EXCEPT !.count = @ + 1]
           IN  /\ w \in [count : Nat, started : Nat]
               /\ Append(admitted[k], now) \in Seq(Nat)
               /\ Consistent(Append(admitted[k], now), w.count, w.started, now, TopLimit[k])
  <1> DEFINE w == [Entered(k) EXCEPT !.count = @ + 1]
  <1>1. /\ now \in Nat /\ admitted[k] \in Seq(Nat) /\ windows[k] \in [count : Nat, started : Nat]
        /\ TopLimit[k] \in Nat /\ 0 < TopLimit[k] /\ Period \in Nat
        /\ Consistent(admitted[k], windows[k].count, windows[k].started, now, TopLimit[k])
    BY LimiterAssumption DEF LimiterInv, LimiterTypeOK
  <1>2. CASE windows[k].count = 0 \/ now - windows[k].started >= Period
    <2>1. w = [count |-> 1, started |-> now]
      BY <1>2 DEF Entered
    <2>2. windows[k].count = 0 \/ windows[k].started + Period <= now
      BY <1>1, <1>2
    <2>3. Consistent(Append(admitted[k], now), 1, now, now, TopLimit[k])
      BY Zenon, <1>1, <2>2, CountsAfresh
    <2> QED BY <1>1, <2>1, <2>3
  <1>3. CASE ~(windows[k].count = 0 \/ now - windows[k].started >= Period)
    <2>1. w = [count |-> windows[k].count + 1, started |-> windows[k].started]
      BY <1>1, <1>3 DEF Entered
    <2>2. 0 < windows[k].count /\ windows[k].count < TopLimit[k]
      BY <1>1, <1>3 DEF Entered, Refuses
    <2>3. Consistent(Append(admitted[k], now), windows[k].count + 1, windows[k].started,
                     now, TopLimit[k])
      BY Zenon, <1>1, <2>2, CountsOn
    <2> QED BY <1>1, <2>1, <2>3
  <1> QED BY Zenon, <1>2, <1>3

\* Calls that are let through keep the invariant.
LEMMA AdmitInv ==
    ASSUME LimiterInv, NEW ks \in SUBSET Key, NEW limit \in Limits, Admit(ks, limit)
    PROVE  LimiterInv'
  <1> DEFINE w(k) == [Entered(k) EXCEPT !.count = @ + 1]
  <1>1. ASSUME NEW k \in ks
        PROVE  /\ windows'[k] = w(k) /\ admitted'[k] = Append(admitted[k], now)
               /\ w(k) \in [count : Nat, started : Nat] /\ Append(admitted[k], now) \in Seq(Nat)
               /\ Consistent(Append(admitted[k], now), w(k).count, w(k).started, now, TopLimit[k])
    <2>1. k \in Key /\ limit[k] \in Nat /\ limit[k] <= TopLimit[k] /\ ~Refuses(k, limit[k])
      BY LimiterAssumption DEF Admit, Limits
    <2>2. windows'[k] = w(k) /\ admitted'[k] = Append(admitted[k], now)
      BY Zenon, <2>1 DEF Admit
    <2> QED BY Zenon, <2>1, <2>2, AdmitOwnKey
  <1> HIDE DEF w
  <1>2. ASSUME NEW k \in Key, k \notin ks
        PROVE  windows'[k] = windows[k] /\ admitted'[k] = admitted[k]
    BY Zenon, <1>2 DEF Admit
  <1>3. /\ now' = now
        /\ DOMAIN windows' = Key /\ windows' = [k \in Key |-> windows'[k]]
        /\ DOMAIN admitted' = Key /\ admitted' = [k \in Key |-> admitted'[k]]
    BY Zenon DEF Admit
  <1>4. ASSUME NEW k \in Key
        PROVE  /\ windows'[k] \in [count : Nat, started : Nat] /\ admitted'[k] \in Seq(Nat)
               /\ Consistent(admitted'[k], windows'[k].count, windows'[k].started, now', TopLimit[k])
    <2>1. CASE k \in ks
      BY Zenon, <1>1, <1>3, <2>1
    <2>2. CASE k \notin ks
      BY Zenon, <1>2, <1>3, <2>2 DEF LimiterInv, LimiterTypeOK
    <2> QED BY Zenon, <2>1, <2>2
  <1>5. LimiterTypeOK'
    BY Zenon, <1>3, <1>4 DEF LimiterInv, LimiterTypeOK
  <1> QED BY Zenon, <1>4, <1>5 DEF LimiterInv

\* Time passing keeps the invariant.
LEMMA TickInv == ASSUME LimiterInv, Tick PROVE LimiterInv'
  <1>1. now \in Nat /\ now' = now + 1 /\ windows' = windows /\ admitted' = admitted
    BY Zenon DEF LimiterInv, LimiterTypeOK, Tick
  <1>2. LimiterTypeOK'
    BY <1>1 DEF LimiterInv, LimiterTypeOK
  <1>3. ASSUME NEW log \in Seq(Nat), NEW c \in Nat, NEW s \in Nat, NEW t \in Nat, NEW M \in Nat,
               Consistent(log, c, s, t, M)
        PROVE  Consistent(log, c, s, t + 1, M)
    <2>1. \A i \in 1 .. Len(log) : log[i] \in Nat
      OBVIOUS
    <2>2. /\ \A i \in 1 .. Len(log) : log[i] <= t + 1
          /\ c > 0 => s <= t + 1
      BY <1>3, <2>1 DEF Consistent
    <2> QED BY Zenon, <1>3, <2>2 DEF Consistent
  <1>4. ASSUME NEW k \in Key
        PROVE  Consistent(admitted'[k], windows'[k].count, windows'[k].started, now', TopLimit[k])
    <2>1. /\ admitted[k] \in Seq(Nat) /\ windows[k].count \in Nat /\ windows[k].started \in Nat
          /\ TopLimit[k] \in Nat /\ 0 < TopLimit[k]
          /\ Consistent(admitted[k], windows[k].count, windows[k].started, now, TopLimit[k])
      BY LimiterAssumption DEF LimiterInv, LimiterTypeOK
    <2> QED BY Zenon, <1>1, <1>3, <2>1
  <1> QED BY Zenon, <1>2, <1>4 DEF LimiterInv

\* Every step keeps the invariant.
LEMMA LimiterStepInv == LimiterInv /\ [LimiterNext]_limiterVars => LimiterInv'
  <1> SUFFICES ASSUME LimiterInv, [LimiterNext]_limiterVars PROVE LimiterInv'
    BY Zenon
  <1>1. CASE UNCHANGED limiterVars
    BY <1>1 DEF limiterVars, LimiterInv, LimiterTypeOK
  <1>2. ASSUME NEW ks \in SUBSET Key, NEW limit \in Limits, Admit(ks, limit)
        PROVE  LimiterInv'
    BY Zenon, <1>2, AdmitInv
  <1>3. CASE Tick
    BY Zenon, <1>3, TickInv
  <1>4. CASE Restart
    BY <1>4, LimiterAssumption DEF Restart, NoWindow, LimiterInv, LimiterTypeOK, Consistent
  <1> QED BY Zenon, <1>1, <1>2, <1>3, <1>4 DEF LimiterNext

\* The invariant holds throughout.
LEMMA LimiterInvariant == LimiterSpec => []LimiterInv
  BY LimiterInitInv, LimiterStepInv, PTL DEF LimiterSpec

\* Twice the limit less one is all that gets through in any period.
THEOREM BurstsAreBounded == LimiterSpec => []BurstsBounded
  <1>1. LimiterInv => BurstsBounded
    <2> SUFFICES ASSUME LimiterInv, NEW k \in Key,
                        NEW i \in 1 .. Len(admitted[k]), NEW j \in 1 .. Len(admitted[k]),
                        j - i >= 2 * TopLimit[k] - 1
                 PROVE  admitted[k][j] - admitted[k][i] >= Period
      BY Zenon DEF BurstsBounded
    <2>1. admitted[k] \in Seq(Nat)
      BY Zenon DEF LimiterInv, LimiterTypeOK
    <2>2. Consistent(admitted[k], windows[k].count, windows[k].started, now, TopLimit[k])
      BY Zenon DEF LimiterInv
    <2>3. admitted[k][i] + Period <= admitted[k][j]
      BY ONLY <2>2, j - i >= 2 * TopLimit[k] - 1 DEF Consistent
    <2>4. admitted[k][i] \in Nat /\ admitted[k][j] \in Nat
      BY ONLY <2>1
    <2>5. \A a, b, p \in Nat : a + p <= b => b - a >= p
      OBVIOUS
    <2> QED BY ONLY <2>3, <2>4, <2>5, LimiterAssumption
  <1> QED BY <1>1, LimiterInvariant, PTL

\* A count at the limit, in a window that has not run out, is of calls within
\* the period.
LEMMA CountIsRecent ==
    ASSUME NEW log \in Seq(Nat), NEW c \in Nat, NEW s \in Nat, NEW t \in Nat, NEW M \in Nat,
           NEW limit \in Nat, 0 < limit, limit <= M, Consistent(log, c, s, t, M), c >= limit, t - s < Period
    PROVE  Len(log) >= limit /\ t - log[Len(log) + 1 - limit] < Period
  <1>1. PICK m \in Nat : m = Len(log)
    BY Zenon, AppendFacts
  <1>2. /\ c <= m /\ log[m + 1 - c] = s
        /\ \A i, j \in 1 .. m : i <= j => log[i] <= log[j]
    BY <1>1 DEF Consistent
  <1>3. /\ m + 1 - c \in 1 .. m /\ m + 1 - limit \in 1 .. m /\ m + 1 - c <= m + 1 - limit
    BY <1>2
  <1>4. PICK a \in 1 .. m, b \in 1 .. m : a = m + 1 - c /\ b = m + 1 - limit /\ a <= b
    BY Zenon, <1>3
  <1>5. s <= log[b] /\ log[b] \in Nat
    <2>1. log[a] = s
      BY Zenon, <1>2, <1>4
    <2>2. log[a] <= log[b]
      BY ONLY <1>2, <1>4
    <2> QED BY <1>1, <2>1, <2>2
  <1>6. m >= limit /\ t - log[b] < Period
    BY <1>2, <1>5, LimiterAssumption
  <1> QED BY Zenon, <1>1, <1>4, <1>6

\* Only a key's own recent calls get a call refused.
THEOREM RefusalsAreEarned == LimiterSpec => []RefusalEarned
  <1>1. LimiterInv => RefusalEarned
    <2> SUFFICES ASSUME LimiterInv, NEW k \in Key, NEW limit \in 1 .. TopLimit[k], Refuses(k, limit)
                 PROVE  /\ Len(admitted[k]) >= limit
                        /\ now - admitted[k][Len(admitted[k]) + 1 - limit] < Period
      BY Zenon DEF RefusalEarned
    <2>1. /\ now \in Nat /\ TopLimit[k] \in Nat /\ 0 < TopLimit[k] /\ Period \in Nat
          /\ admitted[k] \in Seq(Nat) /\ windows[k].count \in Nat /\ windows[k].started \in Nat
          /\ Consistent(admitted[k], windows[k].count, windows[k].started, now, TopLimit[k])
      BY LimiterAssumption DEF LimiterInv, LimiterTypeOK
    <2>2. windows[k].count >= limit /\ now - windows[k].started < Period
      BY <2>1 DEF Refuses, Entered
    <2>3. limit \in Nat /\ 0 < limit /\ limit <= TopLimit[k]
      BY <2>1
    <2> QED BY Zenon, <2>1, <2>2, <2>3, CountIsRecent
  <1> QED BY <1>1, LimiterInvariant, PTL

-----------------------------------------------------------------------------
(* The gate *)

\* The steps before a code was approved.
Early == {"Welcome", "PhoneEntry", "AwaitingOtp", "RestorePhone", "RestoreOtp"}

\* The requests of the steps after it.
Late == {"claim", "enroll", "pin", "phrase", "newPin"}

\* The inductive invariant: a request of a later step carries an approved number
\* too, since it outlives the step that launched it, and even its screen.
GateInv ==
    /\ VerificationGates
    /\ \A j \in jobs : j.kind \in Handled \cup Late /\ (j.kind \in Late => j.phone \in approved)
    /\ \A j \in saving : j.phone \in approved

\* The flow starts with no number at all.
LEMMA GateInit == Init => GateInv
  BY DEF Init, OnboardingInit, VerificationInit, GateInv, VerificationGates, At

\* What goes on without a screen is a later request.
LEMMA DisposedGates ==
    ASSUME GateInv, NEW gone, gone \subseteq jobs, Disposed(gone)
    PROVE  \A j \in saving' : j.phone \in approved
  BY Zenon DEF GateInv, Disposed, Late

\* Only a code the vendor approved makes verify_phone return.
LEMMA OnlyApproved == ASSUME NEW outcome, outcome \in Checks, verify_phone(outcome) = "ok"
                      PROVE  outcome = "approved"
  BY Zenon
     DEF verify_phone, Checks, Statuses, Transport, classify_check_failure, classify_status,
         classify_transport

\* A handler never takes an approval back.
LEMMA ApprovalsStay ==
    ASSUME NEW j, NEW outcome, NEW status, Handle(j, outcome, status)
    PROVE  approved \subseteq approved'
  <1>1. ASSUME NEW o, VendorChecks(j.phone, o) \/ VendorStarts(j.phone, o) \/ UNCHANGED vendorVars
        PROVE  approved \subseteq approved'
    BY Zenon, <1>1 DEF VendorChecks, VendorStarts, vendorVars
  <1>2. CASE signup(j.phone, status)
    BY <1>1, <1>2 DEF signup, TurnedAway
  <1>3. CASE verify(j.phone, outcome, status)
    BY <1>1, <1>3 DEF verify, TurnedAway
  <1>4. CASE restore_begin(j.phone, outcome, status)
    BY <1>1, <1>4 DEF restore_begin
  <1> QED BY Zenon, <1>2, <1>3, <1>4 DEF Handle

\* A code check answered with 200 approved the number.
LEMMA SuccessApproves ==
    ASSUME NEW j, NEW outcome, Handle(j, outcome, 200), j.kind \in {"verify", "begin"}
    PROVE  j.phone \in approved'
  <1>1. ASSUME outcome \in Checks, VendorChecks(j.phone, outcome),
               \/ verify_phone(outcome) = "ok"
               \/ 200 = StatusOf(verify_phone(outcome))
        PROVE  j.phone \in approved'
    <2>1. verify_phone(outcome) \in {"ok", "CodeRejected", "Unavailable", "Other"}
      BY <1>1 DEF verify_phone, Checks, Statuses, Transport, classify_check_failure,
                  classify_status, classify_transport
    <2>2. verify_phone(outcome) = "ok"
      BY <1>1, <2>1 DEF StatusOf
    <2>3. outcome = "approved"
      BY Zenon, <1>1, <2>2, OnlyApproved
    <2> QED BY Zenon, <1>1, <2>3 DEF VendorChecks, Transport
  <1>2. CASE verify(j.phone, outcome, 200)
    BY <1>1, <1>2 DEF verify, TurnedAway
  <1>3. CASE restore_begin(j.phone, outcome, 200)
    BY <1>1, <1>3 DEF restore_begin
  <1> QED BY <1>2, <1>3 DEF Handle

\* A failure never moves the flow past the code.
LEMMA FailureGates ==
    ASSUME GateInv, NEW j \in jobs, NEW u \in BOOLEAN, Fails(j, u), approved \subseteq approved'
    PROVE  GateInv'
  <1>1. jobs' \subseteq jobs /\ session' = session /\ saving' = saving
    BY Zenon DEF Fails
  <1>2. state' = state \/ state'.step \in Early
    BY DEF Fails, nextAfterVerifyError, nextAfterSendError, At, Held, Early
  <1> QED BY Zenon, <1>1, <1>2 DEF GateInv, VerificationGates, Early

\* An answer moves the flow on only with an approved number.
LEMMA AnsweredGates == ASSUME GateInv, NEW j \in jobs, Answered(j) PROVE GateInv'
  <1>1. PICK outcome \in Checks \cup {"none"}, status \in Answers :
          /\ Handle(j, outcome, status)
          /\ IF status = 200 THEN Succeeds(j, TRUE) ELSE Fails(j, status = 503)
          /\ judged' = JudgedBy(j, outcome, status)
    BY Zenon DEF Answered
  <1>2. approved \subseteq approved' /\ j.kind \in Handled
    BY <1>1, ApprovalsStay DEF Answered
  <1>3. CASE status = 200
    <2>1. Succeeds(j, TRUE)
      BY Zenon, <1>1, <1>3
    <2>2. jobs' \subseteq jobs /\ session' = session /\ saving' = saving
      <3>1. Goal[j.kind] # "Done"
        BY <1>2 DEF Goal, Handled
      <3> QED BY Zenon, <2>1, <3>1 DEF Succeeds
    <2>3. state'.step \in Early \/ state'.phone \in approved'
      <3>1. CASE j.kind \in {"verify", "begin"}
        <4>1. j.phone \in approved'
          BY <1>1, <1>3, <3>1, SuccessApproves
        <4>2. state'.phone = j.phone
          BY Zenon, <2>1, <3>1 DEF Succeeds, nextAfterVerify, At
        <4> QED BY <4>1, <4>2
      <3>2. CASE j.kind \in {"signup", "restoreSignup"}
        <4>1. state' = At(Goal[j.kind], j.phone)
          BY Zenon, <2>1, <3>2 DEF Succeeds
        <4>2. Goal["signup"] = "AwaitingOtp" /\ Goal["restoreSignup"] = "RestoreOtp"
          BY Zenon DEF Goal
        <4> QED BY Zenon, <3>2, <4>1, <4>2 DEF At, Early
      <3> QED BY Zenon, <1>2, <3>1, <3>2 DEF Handled
    <2> QED BY Zenon, <1>2, <2>2, <2>3 DEF GateInv, VerificationGates, Early
  <1>4. CASE status # 200
    <2>1. Fails(j, status = 503)
      BY Zenon, <1>1, <1>4
    <2> QED BY Zenon, <1>2, <2>1, FailureGates
  <1> QED BY Zenon, <1>3, <1>4

\* A later request carries an approved number from step to step.
LEMMA ElsewhereGates == ASSUME GateInv, NEW j \in jobs, AnsweredElsewhere(j) PROVE GateInv'
  <1>1. approved' = approved /\ j.kind \in Late /\ j.phone \in approved
    BY Zenon DEF GateInv, AnsweredElsewhere, verificationVars, vendorVars
  <1>2. CASE Succeeds(j, TRUE)
    <2>1. jobs' \subseteq jobs
      BY Zenon, <1>2 DEF Succeeds
    <2>2. state'.phone = j.phone /\ session' \in {session, j.phone}
      BY Zenon, <1>1, <1>2 DEF Succeeds, At, Late
    <2>3. \A i \in saving' : i.phone \in approved
      BY Zenon, <1>2, DisposedGates DEF Succeeds, GateInv
    <2> QED BY Zenon, <1>1, <2>1, <2>2, <2>3 DEF GateInv, VerificationGates
  <1>3. CASE Fails(j, FALSE)
    BY Zenon, <1>1, <1>3, FailureGates
  <1> QED BY Zenon, <1>2, <1>3 DEF AnsweredElsewhere

\* A button launches the request of the step on screen.
LEMMA LaunchGates ==
    ASSUME GateInv, NEW kind, NEW phone, NEW tracked, Launch(kind, phone, tracked),
           kind \in Handled \cup Late, kind \in Late => phone \in approved, approved' = approved
    PROVE  GateInv'
  <1>1. jobs' = jobs \cup {[id |-> requests + 1, kind |-> kind, phone |-> phone]}
    BY Zenon DEF Launch
  <1>2. state' = state /\ session' = session /\ saving' = saving
    BY Zenon DEF Launch
  <1> QED BY <1>1, <1>2 DEF GateInv, VerificationGates

\* What is tapped, typed or recreated takes nobody past the code.
LEMMA TapsGate == ASSUME GateInv, Taps PROVE GateInv'
  <1>1. approved' = approved
    BY Zenon DEF Taps, verificationVars, vendorVars
  <1>2. CASE EditCode
    <2>1. jobs' = jobs /\ session' = session /\ saving' = saving /\ state'.step \in Early
      BY <1>2 DEF EditCode, Early
    <2> QED BY Zenon, <1>1, <2>1 DEF GateInv, VerificationGates, Early
  <1>3. CASE ForgotPin
    <2>1. /\ jobs' = jobs /\ session' = session /\ saving' = saving
          /\ state'.phone = state.phone
      BY Zenon, <1>3 DEF ForgotPin, At
    <2>2. state.step \notin Early
      BY Zenon, <1>3 DEF ForgotPin, Early
    <2> QED BY Zenon, <1>1, <2>1, <2>2 DEF GateInv, VerificationGates, Early
  <1>4. ASSUME NEW phone \in Phones, SubmitPhone(phone) PROVE GateInv'
    BY Zenon, <1>1, <1>4, LaunchGates DEF SubmitPhone, Handled, Late
  <1>5. CASE Resend
    BY Zenon, <1>1, <1>5, LaunchGates DEF Resend, Handled, Late
  <1>6. CASE Submit
    <2>1. /\ state.step \in DOMAIN Button
          /\ Launch(Button[state.step], state.phone, Button[state.step] = "verify")
      BY Zenon, <1>6 DEF Submit
    <2>2. CASE state.step = "AwaitingOtp"
      BY <1>1, <2>1, <2>2, LaunchGates DEF Button, Handled, Late
    <2>3. CASE state.step = "RestoreOtp"
      BY <1>1, <2>1, <2>3, LaunchGates DEF Button, Handled, Late
    <2>4. CASE state.step \notin {"AwaitingOtp", "RestoreOtp"}
      <3>1. state.step \notin Early /\ Button[state.step] \in Late
        BY <2>1, <2>4 DEF Button, Early, Late
      <3>2. state.phone \in approved
        BY Zenon, <3>1 DEF GateInv, VerificationGates, Early
      <3> QED BY Zenon, <1>1, <2>1, <3>1, <3>2, LaunchGates
    <2> QED BY Zenon, <2>2, <2>3, <2>4
  <1> QED BY Zenon, <1>2, <1>3, <1>4, <1>5, <1>6 DEF Taps

\* Nor does going back, finishing or a rotation.
LEMMA MovesGate == ASSUME GateInv, Moves PROVE GateInv'
  <1>1. approved' = approved
    BY Zenon DEF Moves, verificationVars, vendorVars
  <1>2. ASSUME NEW step \in Early, goTo(At(step, "none")) PROVE GateInv'
    <2>1. /\ jobs' \subseteq jobs /\ session' = session /\ saving' = saving
          /\ state'.step \in Early
      BY Zenon, <1>2 DEF goTo, At
    <2> QED BY Zenon, <1>1, <2>1 DEF GateInv, VerificationGates, Early
  <1>3. CASE Start
    BY Zenon, <1>2, <1>3 DEF Start, Early
  <1>4. CASE Back
    <2>1. state.step \in DOMAIN Previous /\ goTo(At(Previous[state.step], "none"))
      BY Zenon, <1>4 DEF Back
    <2>2. Previous[state.step] \in Early
      BY Zenon, <2>1 DEF Previous, Early
    <2> QED BY Zenon, <1>2, <2>1, <2>2
  <1>5. CASE Complete
    <2>1. jobs' = {} /\ session' = state.phone /\ state'.phone = state.phone
      BY Zenon, <1>5 DEF Complete, At
    <2>2. state.phone \in approved
      BY Zenon, <1>5 DEF Complete, GateInv, VerificationGates
    <2>3. \A j \in saving' : j.phone \in approved
      BY Zenon, <1>5, DisposedGates DEF Complete
    <2> QED BY Zenon, <1>1, <2>1, <2>2, <2>3 DEF GateInv, VerificationGates
  <1>6. CASE Rotate
    <2>1. /\ jobs' = {} /\ session' = session
          /\ \/ state' = state
             \/ state'.step \in Early
             \/ session # "none" /\ state'.phone = session
      BY Zenon, <1>6 DEF Rotate, Saved, At, Early
    <2>2. \A j \in saving' : j.phone \in approved
      BY Zenon, <1>6, DisposedGates DEF Rotate
    <2> QED BY Zenon, <1>1, <2>1, <2>2 DEF GateInv, VerificationGates, Early
  <1> QED BY Zenon, <1>3, <1>4, <1>5, <1>6 DEF Moves

\* Every step keeps the gate.
LEMMA GateStep == GateInv /\ [Next]_vars => GateInv'
  <1> SUFFICES ASSUME GateInv, [Next]_vars PROVE GateInv'
    BY Zenon
  <1>1. ASSUME UNCHANGED <<state, session, jobs, saving>>, approved \subseteq approved' PROVE GateInv'
    BY Zenon, <1>1 DEF GateInv, VerificationGates
  <1>2. CASE UNCHANGED vars
    BY <1>1, <1>2 DEF vars, appVars, verificationVars, vendorVars
  <1>3. ASSUME NEW j \in jobs, ConnectionFails(j) PROVE GateInv'
    BY Zenon, <1>3, FailureGates DEF ConnectionFails, verificationVars, vendorVars
  <1>4. ASSUME NEW j \in orphans, OrphanHandled(j) PROVE GateInv'
    BY Zenon, <1>1, <1>4, ApprovalsStay DEF OrphanHandled, appVars
  <1>5. CASE Elsewhere
    BY Zenon, <1>1, <1>5 DEF Elsewhere, Expire, Redeploy, appVars, vendorVars
  <1>6. CASE EndsUnseen
    <2>1. PICK j \in saving : SavesLate(j)
      BY Zenon, <1>6 DEF EndsUnseen
    <2>2. /\ UNCHANGED <<state, jobs, approved>> /\ saving' \subseteq saving
          /\ session' \in {session, j.phone}
      BY Zenon, <1>6, <2>1 DEF EndsUnseen, SavesLate, verificationVars, vendorVars
    <2> QED BY Zenon, <2>2 DEF GateInv, VerificationGates
  <1> QED BY Zenon, <1>2, <1>3, <1>4, <1>5, <1>6, AnsweredGates, ElsewhereGates, MovesGate, TapsGate
             DEF Next

\* No session and no step past the code without the vendor's approval of that
\* number, whatever is lost, late, repeated, restarted or refused.
THEOREM VerificationAlwaysGates == Spec => []VerificationGates
  <1>1. GateInv => VerificationGates
    BY Zenon DEF GateInv
  <1> QED BY <1>1, GateInit, GateStep, PTL DEF Spec

-----------------------------------------------------------------------------
(* The handlers and the limiter *)

\* A handler calls the limiter as the limiter expects, or not at all.
LEMMA HandlersBump ==
    ASSUME NEW j, NEW outcome, NEW status, Handle(j, outcome, status), j.phone \in Phones
    PROVE  LimiterNext \/ UNCHANGED limiterVars
  <1>1. TopLimit \in Limits /\ "ip" \in Key /\ j.phone \in Key
    BY LimiterAssumption, VerificationAssumption DEF Limits
  <1>2. ASSUME NEW ks \in SUBSET Key, Admit(ks, TopLimit) PROVE LimiterNext
    BY <1>1, <1>2 DEF LimiterNext
  <1>3. CASE signup(j.phone, status)
    BY Zenon, <1>1, <1>2, <1>3 DEF signup, TurnedAway
  <1>4. CASE verify(j.phone, outcome, status)
    BY <1>1, <1>2, <1>4 DEF verify, TurnedAway
  <1>5. CASE restore_begin(j.phone, outcome, status)
    BY Zenon, <1>5 DEF restore_begin
  <1> QED BY Zenon, <1>3, <1>4, <1>5 DEF Handle

\* The numbers asked about are the ones the user submitted.
NumbersInv ==
    /\ state.step \in {"AwaitingOtp", "RestoreOtp"} => state.phone \in Phones
    /\ \A j \in jobs : j.kind \in Handled \cup Late /\ (j.kind \in Handled => j.phone \in Phones)
    /\ \A j \in orphans : j.kind \in Handled /\ j.phone \in Phones

\* What keeps it: where the step, the requests and the orphans may come from.
LEMMA NumbersKept ==
    ASSUME NumbersInv, jobs' \subseteq jobs,
           \A j \in orphans' \ orphans : j \in jobs /\ j.kind \in Handled,
           \/ state' = state
           \/ state'.step \notin {"AwaitingOtp", "RestoreOtp"}
           \/ state'.phone \in Phones
    PROVE  NumbersInv'
  BY Zenon DEF NumbersInv

\* Requests that are given up become orphans, or are lost.
LEMMA LeavesNumbers ==
    ASSUME NEW gone, gone \subseteq jobs, Leaves(gone)
    PROVE  \A j \in orphans' \ orphans : j \in jobs /\ j.kind \in Handled
  BY Zenon DEF Leaves, netVars

\* A success hands the number on.
LEMMA SucceedsNumbers ==
    ASSUME NumbersInv, NEW j \in jobs, Succeeds(j, TRUE), orphans' = orphans
    PROVE  NumbersInv'
  <1>1. jobs' \subseteq jobs
    BY Zenon DEF Succeeds
  <1>2. state'.step \notin {"AwaitingOtp", "RestoreOtp"} \/ state'.phone \in Phones
    <2>1. CASE j.kind = "verify"
      BY Zenon, <2>1 DEF Succeeds, nextAfterVerify, At
    <2>2. CASE j.kind \in Handled \ {"verify"}
      BY Zenon, <2>2 DEF Succeeds, At, NumbersInv
    <2>3. CASE j.kind \in Late
      <3>1. state' = At(Goal[j.kind], j.phone)
        BY Zenon, <2>3 DEF Succeeds, Late
      <3>2. Goal[j.kind] \notin {"AwaitingOtp", "RestoreOtp"}
        BY <2>3 DEF Goal, Late
      <3> QED BY Zenon, <3>1, <3>2 DEF At
    <2> QED BY Zenon, <2>1, <2>2, <2>3 DEF NumbersInv
  <1> QED BY Zenon, <1>1, <1>2, NumbersKept

\* A failure stays with the number.
LEMMA FailsNumbers ==
    ASSUME NumbersInv, NEW j \in jobs, NEW u \in BOOLEAN, Fails(j, u),
           \A i \in orphans' \ orphans : i \in jobs /\ i.kind \in Handled
    PROVE  NumbersInv'
  <1>1. jobs' \subseteq jobs
    BY Zenon DEF Fails
  <1>2. CASE j.kind \in {"verify", "signup", "restoreSignup"}
    <2>1. j.phone \in Phones
      BY Zenon, <1>2 DEF NumbersInv, Handled
    <2>2. \/ state' = state
          \/ state'.step \notin {"AwaitingOtp", "RestoreOtp"}
          \/ state'.phone = j.phone
      BY <1>2 DEF Fails, nextAfterVerifyError, nextAfterSendError, At, Held
    <2> QED BY Zenon, <1>1, <2>1, <2>2, NumbersKept
  <1>3. CASE j.kind \notin {"verify", "signup", "restoreSignup"}
    BY Zenon, <1>1, <1>3, NumbersKept DEF Fails
  <1> QED BY Zenon, <1>2, <1>3

\* A button asks about the number of its step.
LEMMA LaunchNumbers ==
    ASSUME NumbersInv, NEW kind, NEW phone, NEW tracked, Launch(kind, phone, tracked),
           kind \in Handled \cup Late, kind \in Handled => phone \in Phones, orphans' = orphans
    PROVE  NumbersInv'
  <1>1. jobs' = jobs \cup {[id |-> requests + 1, kind |-> kind, phone |-> phone]}
    BY Zenon DEF Launch
  <1>2. state' = state
    BY Zenon DEF Launch
  <1> QED BY <1>1, <1>2 DEF NumbersInv

\* Taps and edits keep the number.
LEMMA TapsNumbers == ASSUME NumbersInv, Taps PROVE NumbersInv'
  <1>1. orphans' = orphans
    BY Zenon DEF Taps, netVars
  <1>2. CASE EditCode
    <2>1. jobs' = jobs /\ state'.phone = state.phone /\ state.step = "AwaitingOtp"
      BY <1>2 DEF EditCode
    <2> QED BY Zenon, <1>1, <2>1 DEF NumbersInv
  <1>3. CASE ForgotPin
    <2>1. jobs' = jobs /\ state'.step = "RestorePhrase"
      BY Zenon, <1>3 DEF ForgotPin, At
    <2> QED BY Zenon, <1>1, <2>1, NumbersKept
  <1>4. ASSUME NEW phone \in Phones, SubmitPhone(phone) PROVE NumbersInv'
    BY Zenon, <1>1, <1>4, LaunchNumbers DEF SubmitPhone, Handled
  <1>5. CASE Resend
    <2>1. state.phone \in Phones
      BY Zenon, <1>5 DEF Resend, NumbersInv
    <2> QED BY Zenon, <1>1, <1>5, <2>1, LaunchNumbers DEF Resend, Handled
  <1>6. CASE Submit
    <2>1. /\ state.step \in DOMAIN Button
          /\ Launch(Button[state.step], state.phone, Button[state.step] = "verify")
      BY Zenon, <1>6 DEF Submit
    <2>2. \/ state.step \in {"AwaitingOtp", "RestoreOtp"} /\ Button[state.step] \in Handled
          \/ Button[state.step] \in Late /\ Button[state.step] \notin Handled
      BY <2>1 DEF Button, Handled, Late
    <2>3. Button[state.step] \in Handled => state.phone \in Phones
      BY Zenon, <2>2 DEF NumbersInv
    <2> QED BY Zenon, <1>1, <2>1, <2>2, <2>3, LaunchNumbers
  <1> QED BY Zenon, <1>2, <1>3, <1>4, <1>5, <1>6 DEF Taps

\* Moving leaves the number behind, or keeps it.
LEMMA MovesNumbers == ASSUME NumbersInv, Moves PROVE NumbersInv'
  <1>1. ASSUME jobs' \subseteq jobs PROVE \A j \in orphans' \ orphans : j \in jobs /\ j.kind \in Handled
    BY Zenon, LeavesNumbers DEF Moves
  <1>2. ASSUME NEW step, step \notin {"AwaitingOtp", "RestoreOtp"}, goTo(At(step, "none"))
        PROVE  NumbersInv'
    <2>1. jobs' \subseteq jobs /\ state'.step = step
      BY Zenon, <1>2 DEF goTo, At
    <2> QED BY Zenon, <1>1, <1>2, <2>1, NumbersKept
  <1>3. CASE Start
    BY <1>2, <1>3 DEF Start
  <1>4. CASE Back
    <2>1. state.step \in DOMAIN Previous /\ goTo(At(Previous[state.step], "none"))
      BY Zenon, <1>4 DEF Back
    <2>2. Previous[state.step] \notin {"AwaitingOtp", "RestoreOtp"}
      BY Zenon, <2>1 DEF Previous
    <2> QED BY Zenon, <1>2, <2>1, <2>2
  <1>5. CASE Complete
    <2>1. jobs' = {} /\ state'.step = "Done"
      BY Zenon, <1>5 DEF Complete, At
    <2> QED BY Zenon, <1>1, <2>1, NumbersKept
  <1>6. CASE Rotate
    <2>1. jobs' = {} /\ (state' = state \/ state'.step \in {"RestorePhone", "Done"})
      BY Zenon, <1>6 DEF Rotate, Saved, At
    <2> QED BY Zenon, <1>1, <2>1, NumbersKept
  <1> QED BY Zenon, <1>3, <1>4, <1>5, <1>6 DEF Moves

\* Nothing has been asked at first.
LEMMA NumbersInitially == Init => NumbersInv
  BY DEF Init, OnboardingInit, NumbersInv, At

\* Every step keeps the numbers.
LEMMA NumbersStep == NumbersInv /\ [Next]_vars => NumbersInv'
  <1> SUFFICES ASSUME NumbersInv, [Next]_vars PROVE NumbersInv'
    BY Zenon
  <1>1. ASSUME UNCHANGED appVars, orphans' \subseteq orphans PROVE NumbersInv'
    BY Zenon, <1>1, NumbersKept DEF appVars
  <1>2. CASE UNCHANGED vars
    BY Zenon, <1>1, <1>2 DEF vars, netVars
  <1>3. ASSUME NEW j \in jobs, Answered(j) PROVE NumbersInv'
    <2>1. PICK outcome \in Checks \cup {"none"}, status \in Answers :
            /\ Handle(j, outcome, status)
            /\ IF status = 200 THEN Succeeds(j, TRUE) ELSE Fails(j, status = 503)
            /\ judged' = JudgedBy(j, outcome, status)
      BY <1>3, Zenon DEF Answered
    <2>2. orphans' = orphans
      BY Zenon, <1>3 DEF Answered, netVars
    <2>3. CASE status = 200
      BY Zenon, <2>1, <2>2, <2>3, SucceedsNumbers
    <2>4. CASE status # 200
      <3>1. Fails(j, status = 503) /\ (status = 503) \in BOOLEAN
        BY <2>1, <2>4
      <3> QED BY Zenon, <2>2, <3>1, FailsNumbers
    <2> QED BY <2>3, <2>4
  <1>4. ASSUME NEW j \in jobs, AnsweredElsewhere(j) PROVE NumbersInv'
    BY Zenon, <1>4, SucceedsNumbers, FailsNumbers DEF AnsweredElsewhere, netVars
  <1>5. ASSUME NEW j \in jobs, ConnectionFails(j) PROVE NumbersInv'
    BY Zenon, <1>5, FailsNumbers, LeavesNumbers DEF ConnectionFails
  <1>6. ASSUME NEW j \in orphans, OrphanHandled(j) PROVE NumbersInv'
    BY Zenon, <1>1, <1>6 DEF OrphanHandled
  <1>7. CASE Elsewhere
    BY Zenon, <1>1, <1>7 DEF Elsewhere, netVars
  <1>8. CASE EndsUnseen
    BY Zenon, <1>8, NumbersKept DEF EndsUnseen, SavesLate, netVars
  <1> QED BY Zenon, <1>2, <1>3, <1>4, <1>5, <1>6, <1>7, <1>8, MovesNumbers, TapsNumbers DEF Next

\* Every step of the whole is a step of the limiter, or none of its business.
LEMMA StepsBump == NumbersInv /\ [Next]_vars => [LimiterNext]_limiterVars
  <1> SUFFICES ASSUME NumbersInv, [Next]_vars PROVE LimiterNext \/ UNCHANGED limiterVars
    BY Zenon
  <1>1. CASE UNCHANGED vars
    BY Zenon, <1>1 DEF vars, verificationVars
  <1>2. ASSUME NEW j \in jobs, Answered(j) PROVE LimiterNext \/ UNCHANGED limiterVars
    <2>1. PICK outcome \in Checks \cup {"none"}, status \in Answers :
            /\ Handle(j, outcome, status)
            /\ IF status = 200 THEN Succeeds(j, TRUE) ELSE Fails(j, status = 503)
            /\ judged' = JudgedBy(j, outcome, status)
      BY <1>2, Zenon DEF Answered
    <2>2. j.phone \in Phones
      BY <1>2 DEF Answered, NumbersInv
    <2> QED BY Zenon, <2>1, <2>2, HandlersBump
  <1>3. ASSUME NEW j \in orphans, OrphanHandled(j) PROVE LimiterNext \/ UNCHANGED limiterVars
    <2>1. PICK outcome \in Checks \cup {"none"}, status \in Answers : Handle(j, outcome, status)
      BY <1>3, Zenon DEF OrphanHandled
    <2>2. j.phone \in Phones
      BY Zenon, <1>3 DEF NumbersInv
    <2> QED BY Zenon, <2>1, <2>2, HandlersBump
  <1>4. ASSUME UNCHANGED verificationVars PROVE UNCHANGED limiterVars
    BY Zenon, <1>4 DEF verificationVars
  <1>5. CASE Elsewhere
    BY Zenon, <1>5 DEF Elsewhere, LimiterNext, Expire, Redeploy
  <1>6. CASE Moves \/ Taps \/ EndsUnseen
    BY Zenon, <1>4, <1>6 DEF Moves, Taps, EndsUnseen
  <1>7. ASSUME NEW j \in jobs, AnsweredElsewhere(j) \/ ConnectionFails(j)
        PROVE  UNCHANGED limiterVars
    BY Zenon, <1>4, <1>7 DEF AnsweredElsewhere, ConnectionFails
  <1> QED BY Zenon, <1>1, <1>2, <1>3, <1>5, <1>6, <1>7 DEF Next

\* The handlers use the limiter as its specification has it, so both its bounds
\* hold of the whole.
THEOREM SignupImplementsLimiter == Spec => LimiterSpec /\ []BurstsBounded /\ []RefusalEarned
  <1>1. Init => LimiterInit
    BY Zenon DEF Init, VerificationInit
  <1>2. Spec => LimiterSpec
    BY <1>1, NumbersInitially, NumbersStep, StepsBump, PTL DEF Spec, LimiterSpec
  <1> QED BY <1>2, BurstsAreBounded, RefusalsAreEarned, PTL

-----------------------------------------------------------------------------
(* What is on the screen *)

\* The requests whose failure decides what the screen says about the code.
Telling == {"verify", "signup", "restoreSignup"}

\* The steps without a number.
Blank == {"Welcome", "PhoneEntry", "RestorePhone"}

\* The flow, as long as no request of an earlier step runs on: at most one request,
\* for the number submitted, under a spinner; a hold that a check earned only
\* where no code was judged, and no hold where another request runs; and a session
\* only at the end.
Flow ==
    /\ \A j, k \in jobs : j = k
    /\ \A j \in jobs : loading /\ j.phone = number /\ (j.kind \in Telling \/ ~state.held)
    /\ state.phone = IF state.step \in Blank THEN "none" ELSE number
    /\ state.held =>
        /\ state.step \in {"PhoneEntry", "AwaitingOtp"}
        /\ ~error
        /\ state.attempts > 0 => ~judged
    /\ session \in {"none", number}
    /\ session # "none" => jobs = {} /\ state.step = "Done"
    /\ saving = {}

\* The inductive invariant.
FlowInv == ~strayed => Flow

\* Nothing goes on without a screen until something strays.
LEMMA DisposedFlow ==
    ASSUME NEW gone, Disposed(gone), ~strayed'
    PROVE  ~strayed /\ saving' = saving
  BY Zenon DEF Disposed

\* The flow starts on a blank screen.
LEMMA FlowInit == Init => FlowInv
  BY DEF Init, OnboardingInit, FlowInv, Flow, At, Blank

\* A success shows the next step, with the number of the request.
LEMMA SucceedsFlow ==
    ASSUME FlowInv, NumbersInv, NEW j \in jobs, Succeeds(j, TRUE)
    PROVE  FlowInv'
  <1> SUFFICES ASSUME ~strayed' PROVE Flow'
    BY Zenon DEF FlowInv
  <1>1. /\ state'.phone = j.phone /\ state'.held = FALSE
        /\ state'.step = IF j.kind = "verify" THEN "ClaimUsername" ELSE Goal[j.kind]
    BY Zenon DEF Succeeds, nextAfterVerify, At
  <1>2. j.kind \in Handled \cup Late
    BY Zenon DEF NumbersInv
  <1>3. state'.step \notin Blank /\ (Goal[j.kind] = "Done" => state'.step = "Done")
    BY <1>1, <1>2 DEF Goal, Handled, Late, Blank
  <1>4. ~strayed /\ saving' = saving /\ number' = number
    <2>1. \/ Disposed(jobs \ {j})
          \/ strayed' = strayed /\ saving' = saving
      BY Zenon DEF Succeeds
    <2>2. ~strayed /\ saving' = saving
      <3>1. CASE Disposed(jobs \ {j})
        BY Zenon, <3>1, DisposedFlow
      <3>2. CASE strayed' = strayed /\ saving' = saving
        BY Zenon, <3>2
      <3> QED BY Zenon, <2>1, <3>1, <3>2
    <2> QED BY Zenon, <2>2 DEF Succeeds
  <1>5. /\ \A k \in jobs : k = j
        /\ j.phone = number /\ session = "none" /\ saving = {}
    BY Zenon, <1>4 DEF FlowInv, Flow
  <1>6. jobs' = {} /\ session' = IF Goal[j.kind] = "Done" THEN j.phone ELSE "none"
    BY Zenon, <1>5 DEF Succeeds
  <1> QED BY Zenon, <1>1, <1>3, <1>4, <1>5, <1>6 DEF Flow

\* A failure stays on the step, and a check holds only what was not judged.
LEMMA FailsFlow ==
    ASSUME FlowInv, NEW j \in jobs, NEW u \in BOOLEAN, Fails(j, u),
           IF j.kind = "verify" THEN ~judged' \/ ~u ELSE judged' => judged
    PROVE  FlowInv'
  <1> SUFFICES ASSUME ~strayed' PROVE Flow'
    BY Zenon DEF FlowInv
  <1>1. UNCHANGED <<session, saving, number, strayed>> /\ Flow
    BY Zenon DEF FlowInv, Fails
  <1>2. jobs' = {} /\ j.phone = number /\ session = "none" /\ saving = {}
    BY Zenon, <1>1 DEF Flow, Fails
  <1>3. CASE j.kind = "verify"
    <2>1. state' = nextAfterVerifyError(j.phone, u) /\ error' = ~u
      BY Zenon, <1>3 DEF Fails
    <2>2. state'.step = "AwaitingOtp" /\ state'.phone = j.phone /\ state'.held = u
      BY Zenon, <2>1 DEF nextAfterVerifyError, At, Held
    <2> QED BY Zenon, <1>1, <1>2, <1>3, <2>1, <2>2 DEF Flow, Blank
  <1>4. CASE j.kind \in {"signup", "restoreSignup"}
    <2>1. state' = nextAfterSendError(j.phone, u) /\ error' = ~state'.held
      BY Zenon, <1>4 DEF Fails
    <2>2. \/ state' = state
          \/ state'.step = "AwaitingOtp" /\ state'.phone = number /\ state'.attempts = 0
          \/ state'.step = "PhoneEntry" /\ state'.phone = "none" /\ state'.attempts = 0
      BY Zenon, <1>2, <2>1 DEF nextAfterSendError, Held
    <2>3. ~(0 > 0)
      OBVIOUS
    <2>4. state'.held =>
            /\ state'.step \in {"PhoneEntry", "AwaitingOtp"} /\ ~error'
            /\ state'.attempts > 0 => ~judged'
      BY Zenon, <1>1, <1>4, <2>1, <2>2, <2>3 DEF Flow
    <2>5. state'.phone = IF state'.step \in Blank THEN "none" ELSE number'
      BY Zenon, <1>1, <2>2 DEF Flow, Blank
    <2> QED BY Zenon, <1>1, <1>2, <2>4, <2>5 DEF Flow
  <1>5. CASE j.kind \notin Telling
    <2>1. state' = state /\ ~state.held
      BY Zenon, <1>1, <1>5 DEF Fails, Telling, Flow
    <2> QED BY Zenon, <1>1, <1>2, <2>1 DEF Flow
  <1> QED BY Zenon, <1>3, <1>4, <1>5 DEF Telling

\* A button launches only when nothing else of the flow runs.
LEMMA LaunchFlow ==
    ASSUME FlowInv, NEW kind, NEW phone, NEW tracked, Launch(kind, phone, tracked),
           judged' = judged, state.step # "Done",
           ~strayed => /\ kind \in Telling \/ ~state.held
                       /\ number' = phone
                       /\ state.phone = IF state.step \in Blank THEN "none" ELSE phone
    PROVE  FlowInv'
  <1> SUFFICES ASSUME ~strayed' PROVE Flow'
    BY Zenon DEF FlowInv
  <1>1. /\ jobs' = jobs \cup {[id |-> requests + 1, kind |-> kind, phone |-> phone]}
        /\ loading' = TRUE /\ error' = FALSE /\ ~loading
        /\ UNCHANGED <<state, session, saving, strayed>>
    BY Zenon DEF Launch, Enabled
  <1>2. Flow /\ ~strayed
    BY Zenon, <1>1 DEF FlowInv
  <1>3. jobs = {} /\ session = "none" /\ saving = {}
    BY Zenon, <1>1, <1>2 DEF Flow
  <1>4. jobs' = {[id |-> requests + 1, kind |-> kind, phone |-> phone]}
    BY Zenon, <1>1, <1>3
  <1>5. /\ \A j, k \in jobs' : j = k
        /\ \A j \in jobs' : loading' /\ j.phone = number' /\ (j.kind \in Telling \/ ~state'.held)
    BY <1>1, <1>2, <1>4
  <1> QED BY Zenon, <1>1, <1>2, <1>3, <1>5 DEF Flow

\* Taps and edits keep to the flow.
LEMMA TapsFlow == ASSUME FlowInv, Taps PROVE FlowInv'
  <1>1. judged' = judged
    BY Zenon DEF Taps
  <1>2. ~strayed => Flow
    BY Zenon DEF FlowInv
  <1>3. CASE EditCode
    <2>1. /\ UNCHANGED <<loading, error, jobs, saving, session, number, strayed>>
          /\ state.held /\ state' = [state EXCEPT !.held = FALSE]
      BY Zenon, <1>3 DEF EditCode
    <2>2. /\ state'.step = state.step /\ state'.phone = state.phone
          /\ state'.attempts = state.attempts
      BY <2>1
    <2>3. ASSUME ~strayed PROVE Flow'
      BY Zenon, <1>1, <1>2, <2>1, <2>2, <2>3 DEF Flow
    <2> QED BY Zenon, <2>1, <2>3 DEF FlowInv
  <1>4. CASE ForgotPin
    <2>1. /\ UNCHANGED <<loading, jobs, saving, session, number, strayed>>
          /\ state.step = "RestorePin" /\ state' = At("RestorePhrase", state.phone)
      BY Zenon, <1>4 DEF ForgotPin
    <2>2. state'.step = "RestorePhrase" /\ state'.phone = state.phone /\ state'.held = FALSE
      BY Zenon, <2>1 DEF At
    <2>3. ASSUME ~strayed PROVE Flow'
      BY Zenon, <1>2, <2>1, <2>2, <2>3 DEF Flow, Blank
    <2> QED BY Zenon, <2>1, <2>3 DEF FlowInv
  <1>5. ASSUME NEW phone \in Phones, SubmitPhone(phone) PROVE FlowInv'
    <2>1. state.step \in {"PhoneEntry", "RestorePhone"} /\ number' = phone
      BY Zenon, <1>5 DEF SubmitPhone
    <2>2. ~strayed => state.phone = "none"
      BY <1>2, <2>1 DEF Flow, Blank
    <2>3. PICK kind \in Telling : Launch(kind, phone, TRUE)
      BY Zenon, <1>5 DEF SubmitPhone, Telling
    <2> QED BY Zenon, <1>1, <2>1, <2>2, <2>3, LaunchFlow DEF Blank
  <1>6. CASE Resend
    <2>1. state.step \in {"AwaitingOtp", "RestoreOtp"} /\ number' = number
      BY Zenon, <1>6 DEF Resend
    <2>2. ~strayed => state.phone = number
      BY <1>2, <2>1 DEF Flow, Blank
    <2>3. PICK kind \in Telling : Launch(kind, state.phone, TRUE)
      BY Zenon, <1>6 DEF Resend, Telling
    <2> QED BY Zenon, <1>1, <2>1, <2>2, <2>3, LaunchFlow DEF Blank
  <1>7. CASE Submit
    <2>1. /\ state.step \in DOMAIN Button /\ number' = number
          /\ Launch(Button[state.step], state.phone, Button[state.step] = "verify")
      BY Zenon, <1>7 DEF Submit
    <2>2. state.step \notin Blank \cup {"Done"}
      BY Zenon, <2>1 DEF Button, Blank
    <2>3. ~strayed => state.phone = number
      BY Zenon, <1>2, <2>2 DEF Flow
    <2>4. ASSUME ~strayed PROVE Button[state.step] \in Telling \/ ~state.held
      <3>1. state.held => state.step \in {"PhoneEntry", "AwaitingOtp"}
        BY Zenon, <1>2, <2>4 DEF Flow
      <3> QED BY <2>2, <3>1 DEF Button, Blank, Telling
    <2> QED BY Zenon, <1>1, <2>1, <2>2, <2>3, <2>4, LaunchFlow
  <1> QED BY Zenon, <1>3, <1>4, <1>5, <1>6, <1>7 DEF Taps

\* Moving starts the flow afresh, or ends it.
LEMMA MovesFlow == ASSUME FlowInv, Moves PROVE FlowInv'
  <1> SUFFICES ASSUME ~strayed' PROVE Flow'
    BY Zenon DEF FlowInv
  <1>1. judged' = judged
    BY Zenon DEF Moves
  <1>2. ~strayed => Flow
    BY Zenon DEF FlowInv
  <1>3. ASSUME NEW step \in Blank, state.step # "Done", goTo(At(step, "none")) PROVE Flow'
    <2>1. /\ state' = At(step, "none") /\ number' = "none"
          /\ session' = session /\ saving' = saving
          /\ jobs' = jobs \ Cancelled /\ strayed' = (strayed \/ \E j \in jobs : j.id # inFlight)
      BY Zenon, <1>3 DEF goTo
    <2>2. session = "none" /\ saving = {}
      BY Zenon, <1>2, <1>3, <2>1 DEF Flow
    <2>3. jobs' = {}
      BY Zenon, <2>1 DEF Cancelled
    <2>4. state'.step = step /\ state'.phone = "none" /\ state'.held = FALSE
      BY Zenon, <2>1 DEF At
    <2> QED BY Zenon, <2>1, <2>2, <2>3, <2>4 DEF Flow
  <1>4. CASE Start
    BY <1>3, <1>4 DEF Start, Blank
  <1>5. CASE Back
    <2>1. state.step \in DOMAIN Previous /\ goTo(At(Previous[state.step], "none"))
      BY Zenon, <1>5 DEF Back
    <2>2. Previous[state.step] \in Blank /\ state.step # "Done"
      BY Zenon, <2>1 DEF Previous, Blank
    <2> QED BY Zenon, <1>3, <2>1, <2>2
  <1>6. CASE Complete
    <2>1. /\ state.step = "ShowPhrase" /\ jobs' = {} /\ session' = state.phone
          /\ number' = number /\ state' = At("Done", state.phone)
      BY Zenon, <1>6 DEF Complete
    <2>2. ~strayed /\ saving' = saving
      BY Zenon, <1>6, DisposedFlow DEF Complete
    <2>3. state'.step = "Done" /\ state'.phone = state.phone /\ state'.held = FALSE
      BY Zenon, <2>1 DEF At
    <2>4. state.phone = number /\ saving = {}
      BY Zenon, <1>2, <2>1, <2>2 DEF Flow, Blank
    <2> QED BY Zenon, <2>1, <2>2, <2>3, <2>4 DEF Flow, Blank
  <1>7. CASE Rotate
    <2>1. /\ jobs' = {} /\ error' = FALSE /\ UNCHANGED <<session, number>> /\ state.step # "Done"
          /\ state' = IF session = "none" THEN Saved(state) ELSE At("Done", session)
      BY Zenon, <1>7 DEF Rotate
    <2>2. ~strayed /\ saving' = saving
      BY Zenon, <1>7, DisposedFlow DEF Rotate
    <2>3. session = "none" /\ saving = {} /\ Flow
      BY Zenon, <1>2, <2>1, <2>2 DEF Flow
    <2>4. \/ state' = state
          \/ state'.step = "RestorePhone" /\ state'.phone = "none" /\ state'.held = FALSE
      BY Zenon, <2>1, <2>3 DEF Saved, At
    <2> QED BY Zenon, <1>1, <2>1, <2>2, <2>3, <2>4 DEF Flow, Blank
  <1> QED BY Zenon, <1>4, <1>5, <1>6, <1>7 DEF Moves

\* A code the vendor judged is never answered with a 503.
LEMMA JudgedIsToldSo ==
    ASSUME NEW j, NEW outcome \in Verdicts, NEW status, Handle(j, outcome, status)
    PROVE  status # 503
  <1>1. outcome # "none" /\ outcome \in {"approved", "pending", "404"}
    BY Zenon DEF Verdicts
  <1>2. verify_phone(outcome) \in {"ok", "CodeRejected"}
    BY Zenon, <1>1 DEF verify_phone, Statuses, Transport, classify_check_failure
  <1>3. ASSUME IF verify_phone(outcome) = "ok" THEN status \in {200, 400, 404, 500}
                                               ELSE status = StatusOf(verify_phone(outcome))
        PROVE  status # 503
    BY <1>2, <1>3 DEF StatusOf
  <1>4. CASE verify(j.phone, outcome, status)
    BY <1>1, <1>3, <1>4 DEF verify
  <1>5. CASE restore_begin(j.phone, outcome, status)
    BY <1>1, <1>3, <1>5 DEF restore_begin
  <1> QED BY <1>1, <1>4, <1>5 DEF Handle

\* Every step keeps the flow.
LEMMA FlowStep == NumbersInv /\ FlowInv /\ [Next]_vars => FlowInv'
  <1> SUFFICES ASSUME NumbersInv, FlowInv, [Next]_vars PROVE FlowInv'
    BY Zenon
  <1>1. ASSUME UNCHANGED appVars, judged' = judged PROVE FlowInv'
    BY Zenon, <1>1 DEF appVars, FlowInv, Flow
  <1>2. CASE UNCHANGED vars
    BY Zenon, <1>1, <1>2 DEF vars
  <1>3. ASSUME NEW j \in jobs, Answered(j) PROVE FlowInv'
    <2>1. PICK outcome \in Checks \cup {"none"}, status \in Answers :
            /\ Handle(j, outcome, status)
            /\ IF status = 200 THEN Succeeds(j, TRUE) ELSE Fails(j, status = 503)
            /\ judged' = JudgedBy(j, outcome, status)
      BY <1>3, Zenon DEF Answered
    <2>2. CASE status = 200
      BY Zenon, <2>1, <2>2, SucceedsFlow
    <2>3. CASE status # 200
      <3>1. PICK u \in BOOLEAN : u = (status = 503)
        BY Zenon
      <3>2. Fails(j, u)
        BY Zenon, <2>1, <2>3, <3>1
      <3>3. IF j.kind = "verify" THEN ~judged' \/ ~u ELSE judged' => judged
        <4>1. outcome \in Verdicts => status # 503
          BY <2>1, JudgedIsToldSo
        <4>2. judged' = IF j.kind = "verify" THEN outcome \in Verdicts ELSE judged
          BY Zenon, <2>1, <2>3 DEF JudgedBy
        <4> QED BY Zenon, <3>1, <4>1, <4>2
      <3> QED BY Zenon, <3>2, <3>3, FailsFlow
    <2> QED BY Zenon, <2>2, <2>3
  <1>4. ASSUME NEW j \in jobs, AnsweredElsewhere(j) PROVE FlowInv'
    <2>1. j.kind # "verify" /\ judged' = judged
      BY Zenon, <1>4 DEF AnsweredElsewhere, Handled
    <2>2. CASE Succeeds(j, TRUE)
      BY Zenon, <2>2, SucceedsFlow
    <2>3. CASE Fails(j, FALSE)
      <3>1. IF j.kind = "verify" THEN ~judged' \/ ~FALSE ELSE judged' => judged
        BY Zenon, <2>1
      <3> QED BY Zenon, <2>3, <3>1, FailsFlow
    <2> QED BY Zenon, <1>4, <2>2, <2>3 DEF AnsweredElsewhere
  <1>5. ASSUME NEW j \in jobs, ConnectionFails(j) PROVE FlowInv'
    BY Zenon, <1>5, FailsFlow DEF ConnectionFails
  <1>6. ASSUME NEW j \in orphans, OrphanHandled(j) PROVE FlowInv'
    BY Zenon, <1>1, <1>6 DEF OrphanHandled
  <1>7. CASE Elsewhere
    BY Zenon, <1>1, <1>7 DEF Elsewhere
  <1>8. CASE EndsUnseen
    <2>1. saving # {} /\ strayed' = strayed
      BY Zenon, <1>8 DEF EndsUnseen, SavesLate
    <2> QED BY Zenon, <2>1 DEF FlowInv, Flow
  <1> QED BY Zenon, <1>2, <1>3, <1>4, <1>5, <1>6, <1>7, <1>8, MovesFlow, TapsFlow DEF Next

\* The invariant of the flow gives both of what follows.
LEMMA FlowIsKept == Spec => []NumberKept /\ []HeldIsHonest
  <1>1. FlowInv => NumberKept /\ HeldIsHonest
    BY Zenon DEF FlowInv, Flow, NumberKept, HeldIsHonest
  <1> QED BY <1>1, FlowInit, FlowStep, NumbersInitially, NumbersStep, PTL DEF Spec

\* The screen and the session carry the number submitted last, as long as no
\* request of an earlier step was left running.
THEOREM NumberIsKept == Spec => []NumberKept
  BY FlowIsKept, PTL

\* "Your code is fine" is shown only without an error; and after a check, only
\* about a code whose verdict the directory was not told.  Both as long as no
\* request of an earlier step was left running; of the hold after a failed Resend
\* the first alone is claimed.
THEOREM HoldIsHonest == Spec => []HeldIsHonest
  BY FlowIsKept, PTL

=============================================================================
