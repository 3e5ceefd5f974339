---------------------------- MODULE Onboarding -----------------------------
(***************************************************************************)
(* The app's onboarding flow (app/.../onboarding/Onboarding.kt, with the   *)
(* enroll and restore callbacks of App.kt): the step on screen, and the    *)
(* requests its buttons launch into a scope that outlives the step.        *)
(*                                                                         *)
(* sendCode and the verify button keep their job in inFlight, which goTo   *)
(* cancels; the other buttons launch a job nobody holds.  A button that    *)
(* launches is disabled while loading; the back row never is.  A session   *)
(* token, a restore token and a bundle belong to the number they were      *)
(* issued for, so a step carries the number alone.  Left out: what is      *)
(* typed other than the number, the resend cooldown, a mistyped PIN.       *)
(***************************************************************************)
EXTENDS Naturals

CONSTANTS
    MaxRequests,    \* bound: requests launched
    MaxRotations    \* bound: times the screen is recreated

ASSUME OnboardingAssumption == {MaxRequests, MaxRotations} \subseteq Nat

VARIABLES
    state,      \* the step, with its number, held and attempts
    loading,    \* the spinner
    error,      \* there is a message in the error line
    inFlight,   \* the job goTo cancels, 0 for null
    jobs,       \* the requests running
    saving,     \* the restores that go on after their screen is gone
    session,    \* the number of the session saved, or "none"
    requests, rotations,   \* counters of the bounds
    number,     \* history: the number last submitted and not backed out of
    strayed     \* history: the user left a step whose request went on

appVars == <<state, loading, error, inFlight, jobs, saving, session, requests, rotations,
             number, strayed>>

At(step, phone) == [step |-> step, phone |-> phone, held |-> FALSE, attempts |-> 0]
Held(step, phone, n) == [step |-> step, phone |-> phone, held |-> TRUE, attempts |-> n]

OnboardingInit ==
    /\ state = At("Welcome", "none")
    /\ loading = FALSE
    /\ error = FALSE
    /\ inFlight = 0
    /\ jobs = {}
    /\ saving = {}
    /\ session = "none"
    /\ requests = 0
    /\ rotations = 0
    /\ number = "none"
    /\ strayed = FALSE

\* The flow leaves the screen and its scope is cancelled.  A restore past its last
\* suspension point does not notice, and goes on.
Disposed(gone) ==
    \E past \in SUBSET {j \in gone : j.kind \in {"pin", "newPin"}} :
        /\ saving' = saving \cup past
        /\ strayed' = (strayed \/ past # {})

-----------------------------------------------------------------------------
(* Moving between steps without a request *)

\* Mutant of Cancelled: nothing is cancelled.
CancelledNone == {}

\* The job a transition cancels, if it still runs.
Cancelled == {j \in jobs : j.id = inFlight}

goTo(next) ==
    /\ jobs' = jobs \ Cancelled
    /\ inFlight' = 0
    /\ loading' = FALSE
    /\ error' = FALSE
    /\ state' = next
    /\ number' = "none"
    /\ strayed' = (strayed \/ \E j \in jobs : j.id # inFlight)
    /\ UNCHANGED <<saving, session, requests, rotations>>

\* "Get started" and "Restore account".
Start ==
    /\ state.step = "Welcome"
    /\ \E step \in {"PhoneEntry", "RestorePhone"} : goTo(At(step, "none"))

Previous ==
    [step \in {"PhoneEntry", "AwaitingOtp", "RestorePhone", "RestoreOtp"} |->
        CASE step = "AwaitingOtp" -> "PhoneEntry"
          [] step = "RestoreOtp"  -> "RestorePhone"
          [] OTHER                -> "Welcome"]

\* The back row, and "Use a different number".
Back ==
    /\ state.step \in DOMAIN Previous
    /\ goTo(At(Previous[state.step], "none"))

\* The code in the field changes.
EditCode ==
    /\ state.step = "AwaitingOtp"
    /\ state.held
    /\ state' = [state EXCEPT !.held = FALSE]
    /\ UNCHANGED <<loading, error, inFlight, jobs, saving, session, requests, rotations, number,
                   strayed>>

\* "Forgot PIN?": a bare assignment.
ForgotPin ==
    /\ state.step = "RestorePin"
    /\ ~loading
    /\ state' = At("RestorePhrase", state.phone)
    /\ UNCHANGED <<loading, error, inFlight, jobs, saving, session, requests, rotations, number,
                   strayed>>

-----------------------------------------------------------------------------
(* Launching a request *)

\* A button that launches can be tapped.
Enabled == ~loading

Launch(kind, phone, tracked) ==
    /\ Enabled
    /\ requests < MaxRequests
    /\ requests' = requests + 1
    /\ loading' = TRUE
    /\ error' = FALSE
    /\ jobs' = jobs \cup {[id |-> requests + 1, kind |-> kind, phone |-> phone]}
    /\ inFlight' = IF tracked THEN requests + 1 ELSE inFlight
    /\ UNCHANGED <<state, saving, session, rotations, strayed>>

\* The number is submitted: sendCode.
SubmitPhone(phone) ==
    /\ \/ state.step = "PhoneEntry" /\ Launch("signup", phone, TRUE)
       \/ state.step = "RestorePhone" /\ Launch("restoreSignup", phone, TRUE)
    /\ number' = phone

\* "Resend code": sendCode again.
Resend ==
    /\ \/ state.step = "AwaitingOtp" /\ Launch("signup", state.phone, TRUE)
       \/ state.step = "RestoreOtp" /\ Launch("restoreSignup", state.phone, TRUE)
    /\ UNCHANGED number

\* The other buttons, by step.  Only verify is held in inFlight.
Button ==
    [AwaitingOtp   |-> "verify", ClaimUsername |-> "claim", SetPin |-> "enroll",
     RestoreOtp    |-> "begin",  RestorePin    |-> "pin",   RestorePhrase |-> "phrase",
     RestoreNewPin |-> "newPin"]

Submit ==
    /\ state.step \in DOMAIN Button
    /\ Launch(Button[state.step], state.phone, Button[state.step] = "verify")
    /\ UNCHANGED number

\* The phrase was written down: onComplete.
Complete ==
    /\ state.step = "ShowPhrase"
    /\ state' = At("Done", state.phone)
    /\ session' = state.phone
    /\ jobs' = {}
    /\ Disposed(jobs)
    /\ UNCHANGED <<loading, error, inFlight, requests, rotations, number>>

-----------------------------------------------------------------------------
(* A request ends *)

\* Where each request leads when it succeeds.
Goal ==
    [signup |-> "AwaitingOtp", restoreSignup |-> "RestoreOtp", verify |-> "ClaimUsername",
     claim  |-> "SetPin",      enroll |-> "ShowPhrase",        begin  |-> "RestorePin",
     phrase |-> "RestoreNewPin", pin |-> "Done",               newPin |-> "Done"]

\* The gate: the answer must say verified.
nextAfterVerify(phone, verified) ==
    IF verified THEN At("ClaimUsername", phone) ELSE Held("AwaitingOtp", phone, 0)

\* The directory answered as hoped.  The step is written whatever is on screen;
\* with the session saved the flow is gone, and its scope with it.
Succeeds(j, verified) ==
    /\ j \in jobs
    /\ state' = IF j.kind = "verify" THEN nextAfterVerify(j.phone, verified)
                                     ELSE At(Goal[j.kind], j.phone)
    /\ loading' = FALSE
    /\ \/ /\ Goal[j.kind] = "Done"
          /\ session' = j.phone
          /\ jobs' = {}
          /\ Disposed(jobs \ {j})
       \/ /\ Goal[j.kind] # "Done"
          /\ jobs' = jobs \ {j}
          /\ UNCHANGED <<session, saving, strayed>>
    /\ UNCHANGED <<error, inFlight, requests, rotations, number>>

\* A failed verify: held if the directory could not check the code (503).
nextAfterVerifyError(phone, unavailable) ==
    IF unavailable
    THEN Held("AwaitingOtp", phone, 1 + IF state.step = "AwaitingOtp" THEN state.attempts ELSE 0)
    ELSE At("AwaitingOtp", phone)

\* A failed signup: held, by the step that has a hold, for a 503.
nextAfterSendError(phone, unavailable) ==
    IF ~unavailable \/ state.step \in {"RestorePhone", "RestoreOtp"} THEN state
    ELSE IF state.step = "AwaitingOtp" THEN Held("AwaitingOtp", phone, 0)
    ELSE Held("PhoneEntry", "none", 0)

\* The directory refused (a 503 says it is unavailable), or was not reached.
Fails(j, unavailable) ==
    /\ j \in jobs
    /\ jobs' = jobs \ {j}
    /\ loading' = FALSE
    /\ \/ /\ j.kind = "verify"
          /\ state' = nextAfterVerifyError(j.phone, unavailable)
          /\ error' = ~unavailable
       \/ /\ j.kind \in {"signup", "restoreSignup"}
          /\ state' = nextAfterSendError(j.phone, unavailable)
          /\ error' = ~state'.held
       \/ /\ j.kind \notin {"verify", "signup", "restoreSignup"}
          /\ error' = TRUE
          /\ UNCHANGED state
    /\ UNCHANGED <<inFlight, saving, session, requests, rotations, number, strayed>>

\* A restore without a screen ends: the session is saved, or newFromBackup throws.
SavesLate(j) ==
    /\ j \in saving
    /\ saving' = saving \ {j}
    /\ session' \in {session, j.phone}
    /\ UNCHANGED <<state, loading, error, inFlight, jobs, requests, rotations, number, strayed>>

-----------------------------------------------------------------------------
(* The screen is recreated *)

\* OnboardingStateSaver: the steps that hold key material restart the restore.
Saved(s) ==
    IF s.step \in {"RestorePin", "RestorePhrase", "RestoreNewPin"}
    THEN At("RestorePhone", "none")
    ELSE s

\* Error, loading and inFlight are not saved.  The app looks for a saved session.
Rotate ==
    /\ state.step # "Done"
    /\ rotations < MaxRotations
    /\ rotations' = rotations + 1
    /\ state' = IF session = "none" THEN Saved(state) ELSE At("Done", session)
    /\ jobs' = {}
    /\ Disposed(jobs)
    /\ loading' = FALSE
    /\ error' = FALSE
    /\ inFlight' = 0
    /\ UNCHANGED <<session, requests, number>>

=============================================================================
