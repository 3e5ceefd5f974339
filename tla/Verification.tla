---------------------------- MODULE Verification ----------------------------
(***************************************************************************)
(* Phone verification at the directory (directory/src/api.rs, verify.rs):  *)
(* the handlers of POST /signup, /verify and /restore/begin, the limiter   *)
(* in front of the first two, the OTP vendor behind all three, and what    *)
(* the code makes of each answer the vendor can give.                      *)
(*                                                                         *)
(* The vendor is external.  It holds one verification per number, which    *)
(* an approval uses up and time expires; a request that times out may      *)
(* have reached it.  Whether a number is well formed, in cooldown or known *)
(* and whether the database answers are left open: DirectoryAccounts       *)
(* models the rows.  All callers share one address.                        *)
(***************************************************************************)
EXTENDS RateLimit, FiniteSets

CONSTANT Phones          \* the numbers

ASSUME VerificationAssumption ==
    /\ "ip" \notin Phones
    /\ Key = Phones \cup {"ip"}

VARIABLES
    accounts_enabled,    \* Config.accounts_enabled
    code,                \* the vendor: number -> "none", "live" or "dead"
    approved             \* history: numbers the vendor approved a code of

vendorVars == <<code, approved>>
verificationVars == <<accounts_enabled, vendorVars, limiterVars>>

VerificationInit ==
    /\ LimiterInit
    /\ accounts_enabled = TRUE
    /\ code = [p \in Phones |-> "none"]
    /\ approved = {}

-----------------------------------------------------------------------------
(* The vendor's answers, and their meaning *)

Statuses == {"404", "4xx", "429", "5xx"}
Transport == {"timeout", "connect", "broken"}

\* An outage or throttling of the vendor's is Unavailable, the rest is ours to fix.
classify_status(status) == IF status \in {"5xx", "429"} THEN "Unavailable" ELSE "Other"

classify_transport(e) == IF e \in {"timeout", "connect"} THEN "Unavailable" ELSE "Other"

\* Mutant of classify_check_failure: an expired code is taken for an outage.
ExpiredIsOutage(status) ==
    IF status = "404" THEN "Unavailable" ELSE classify_status(status)

\* A check of a verification that is no more is a plain no.
classify_check_failure(status) ==
    IF status = "404" THEN "CodeRejected" ELSE classify_status(status)

\* send_code.
Sent(outcome) ==
    CASE outcome = "created"     -> "ok"
      [] outcome \in Statuses    -> classify_status(outcome)
      [] OTHER                   -> classify_transport(outcome)

\* Mutant of verify_phone: a code that could not be checked passes.
SoftGate(outcome) ==
    IF outcome = "approved" \/ outcome \in Transport THEN "ok" ELSE "CodeRejected"

\* verify, and verify_phone around it: the number's hash is returned for an
\* approved code and nothing else.
verify_phone(outcome) ==
    CASE outcome = "approved"    -> "ok"
      [] outcome = "pending"     -> "CodeRejected"
      [] outcome \in Statuses    -> classify_check_failure(outcome)
      [] outcome \in Transport   -> classify_transport(outcome)
      [] OTHER                   -> "Other"

\* The HTTP status of a failure.
StatusOf(failure) ==
    IF failure = "CodeRejected" THEN 400 ELSE IF failure = "Unavailable" THEN 503 ELSE 500

-----------------------------------------------------------------------------
(* The vendor *)

\* A verification is started, or the request fails: a timeout may hide a success.
VendorStarts(p, outcome) ==
    /\ outcome \in {"created"} \cup Statuses \cup Transport
    /\ \/ outcome \in {"created", "timeout", "broken"} /\ code' = [code EXCEPT ![p] = "live"]
       \/ outcome # "created" /\ UNCHANGED code
    /\ UNCHANGED approved

\* A code is checked: the right one, a wrong one, or one nobody waits for; or
\* the request fails, and may have used the code up.
VendorChecks(p, outcome) ==
    \/ /\ outcome \in {"approved", "garbled", "timeout", "broken"}
       /\ code[p] = "live"
       /\ code' = [code EXCEPT ![p] = "dead"]
       /\ approved' = approved \cup {p}
    \/ /\ \/ outcome = "pending" /\ code[p] = "live"
          \/ outcome = "404" /\ code[p] # "live"
          \/ outcome \in {"4xx", "429", "5xx", "garbled"} \cup Transport
       /\ UNCHANGED vendorVars

\* The vendor's clock: a verification expires.
Expire(p) ==
    /\ code[p] = "live"
    /\ code' = [code EXCEPT ![p] = "dead"]
    /\ UNCHANGED <<accounts_enabled, approved, limiterVars>>

\* The directory restarts, perhaps with the feature switched.
Redeploy ==
    /\ Restart
    /\ accounts_enabled' \in BOOLEAN
    /\ UNCHANGED vendorVars

-----------------------------------------------------------------------------
(* The handlers: status is what the caller is answered *)

\* The feature is off, or the address has made too many requests.
TurnedAway(status) ==
    /\ \/ ~accounts_enabled /\ status = 503
       \/ accounts_enabled /\ Refuses("ip", TopLimit["ip"]) /\ status = 429
    /\ UNCHANGED <<vendorVars, limiterVars>>

\* A malformed number, cooldown and a failing hash or database stop it before
\* the vendor; a failing database after.
signup(p, status) ==
    /\ UNCHANGED accounts_enabled
    /\ \/ TurnedAway(status)
       \/ /\ accounts_enabled
          /\ Admit({"ip"}, TopLimit)
          /\ \/ status \in {400, 500} /\ UNCHANGED vendorVars
             \/ \E outcome \in {"created"} \cup Statuses \cup Transport :
                  /\ IF Sent(outcome) = "ok" THEN status \in {200, 500}
                                             ELSE status = StatusOf(Sent(outcome))
                  /\ VendorStarts(p, outcome)

Checks == {"approved", "pending", "garbled"} \cup Statuses \cup Transport

\* The number is counted once it is known to be well formed, before the vendor is
\* asked; an approved code still meets the cooldown and the database.
verify(p, outcome, status) ==
    /\ UNCHANGED accounts_enabled
    /\ \/ TurnedAway(status) /\ outcome = "none"
       \/ /\ accounts_enabled
          /\ Admit({"ip"}, TopLimit)
          /\ \/ status = 400
             \/ status = 429 /\ Refuses(p, TopLimit[p])
          /\ outcome = "none"
          /\ UNCHANGED vendorVars
       \/ /\ accounts_enabled
          /\ outcome \in Checks
          /\ IF verify_phone(outcome) = "ok" THEN status \in {200, 400, 500}
                                             ELSE status = StatusOf(verify_phone(outcome))
          /\ Admit({"ip", p}, TopLimit)
          /\ VendorChecks(p, outcome)

\* The same check without the limiter; the number may have no account or backup.
restore_begin(p, outcome, status) ==
    /\ UNCHANGED <<accounts_enabled, limiterVars>>
    /\ \/ /\ status = IF accounts_enabled THEN 400 ELSE 503
          /\ outcome = "none"
          /\ UNCHANGED vendorVars
       \/ /\ accounts_enabled
          /\ outcome \in Checks
          /\ IF verify_phone(outcome) = "ok" THEN status \in {200, 404, 500}
                                             ELSE status = StatusOf(verify_phone(outcome))
          /\ VendorChecks(p, outcome)

=============================================================================
