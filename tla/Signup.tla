------------------------------- MODULE Signup -------------------------------
(***************************************************************************)
(* Signing up and restoring, end to end: the app's onboarding flow, the    *)
(* directory's verification handlers behind it, and the network between.   *)
(*                                                                         *)
(* The directory handles a request and the app takes the answer in one     *)
(* step, since nothing else the app does depends on the directory's state. *)
(* A request whose answer is lost, or whose job the app cancelled, may     *)
(* still reach the directory later.  The requests past the code (username, *)
(* recovery) go to handlers modelled elsewhere; here they end either way.  *)
(***************************************************************************)
EXTENDS Onboarding, Verification

CONSTANT MaxFaults \* bound: requests under way that the app forgot, and restarts
                   \* of the directory

ASSUME SignupAssumption ==
    /\ "none" \notin Phones
    /\ MaxFaults \in Nat

VARIABLES
    orphans,       \* requests on their way whose answer nobody awaits
    faults,        \* counter of the bound
    judged         \* history: the directory learnt the vendor's verdict on the code
                   \* last submitted for signup, and sent no other code since

netVars == <<orphans, faults>>
vars == <<appVars, verificationVars, netVars, judged>>

Init ==
    /\ OnboardingInit
    /\ VerificationInit
    /\ orphans = {}
    /\ faults = 0
    /\ judged = FALSE

-----------------------------------------------------------------------------
\* The requests the handlers of Verification answer.
Handled == {"signup", "restoreSignup", "verify", "begin"}

\* The handler of a request, with what the vendor was asked and said.
Handle(j, outcome, status) ==
    \/ j.kind \in {"signup", "restoreSignup"} /\ outcome = "none" /\ signup(j.phone, status)
    \/ j.kind = "verify" /\ verify(j.phone, outcome, status)
    \/ j.kind = "begin" /\ restore_begin(j.phone, outcome, status)

\* The vendor's judgements of a code.
Verdicts == {"approved", "pending", "404"}

\* Whether the code last submitted is judged, once a request is answered.
JudgedBy(j, outcome, status) ==
    CASE j.kind = "verify"                -> outcome \in Verdicts
      [] j.kind = "signup" /\ status = 200 -> FALSE
      [] OTHER                             -> judged

\* What a caller may be answered.
Answers == {200, 400, 404, 429, 500, 503}

\* A request is answered.  /verify answers 200 with verified: true, always.
Answered(j) ==
    /\ j \in jobs
    /\ j.kind \in Handled
    /\ \E outcome \in Checks \cup {"none"}, status \in Answers :
         /\ Handle(j, outcome, status)
         /\ IF status = 200 THEN Succeeds(j, TRUE) ELSE Fails(j, status = 503)
         /\ judged' = JudgedBy(j, outcome, status)
    /\ UNCHANGED netVars

\* A later request is answered, by handlers that are not modelled here.
AnsweredElsewhere(j) ==
    /\ j \in jobs
    /\ j.kind \notin Handled
    /\ Succeeds(j, TRUE) \/ Fails(j, FALSE)
    /\ UNCHANGED <<verificationVars, netVars, judged>>

\* What becomes of requests the app stopped waiting for: lost, or under way.
Leaves(gone) ==
    \/ UNCHANGED netVars
    \/ \E j \in {g \in gone : g.kind \in Handled} :
         /\ faults < MaxFaults
         /\ faults' = faults + 1
         /\ orphans' = orphans \cup {j}

\* No answer arrives: an exception without a status.
ConnectionFails(j) ==
    /\ j \in jobs
    /\ j.kind \in Handled
    /\ Fails(j, FALSE)
    /\ Leaves({j})
    /\ judged' = (judged /\ j.kind # "verify")
    /\ UNCHANGED verificationVars

\* A request nobody awaits is handled after all.
OrphanHandled(j) ==
    /\ j \in orphans
    /\ orphans' = orphans \ {j}
    /\ \E outcome \in Checks \cup {"none"}, status \in Answers :
         Handle(j, outcome, status)
    /\ UNCHANGED <<appVars, faults, judged>>

\* A tap, an edit, or the screen recreated.
Moves ==
    /\ Start \/ Back \/ Complete \/ Rotate
    /\ Leaves(jobs \ jobs')
    /\ UNCHANGED <<verificationVars, judged>>

Taps ==
    /\ \/ EditCode \/ ForgotPin \/ Resend \/ Submit
       \/ \E phone \in Phones : SubmitPhone(phone)
    /\ UNCHANGED <<verificationVars, netVars, judged>>

\* A restore ends that lost its screen.
EndsUnseen ==
    /\ \E j \in saving : SavesLate(j)
    /\ UNCHANGED <<verificationVars, netVars, judged>>

\* Time passes at the limiter, a code expires, the directory restarts.
Elsewhere ==
    /\ \/ Tick /\ UNCHANGED <<accounts_enabled, vendorVars, netVars>>
       \/ \E p \in Phones : Expire(p) /\ UNCHANGED netVars
       \/ /\ Redeploy
          /\ faults < MaxFaults
          /\ faults' = faults + 1
          /\ UNCHANGED orphans
    /\ UNCHANGED <<appVars, judged>>

Next ==
    \/ \E j \in jobs : Answered(j) \/ AnsweredElsewhere(j) \/ ConnectionFails(j)
    \/ \E j \in orphans : OrphanHandled(j)
    \/ Moves \/ Taps \/ EndsUnseen \/ Elsewhere

Spec == Init /\ [][Next]_vars

-----------------------------------------------------------------------------
(* Properties *)

\* The flow, and the session it ends in, carry the number the user submitted
\* last and has not backed out of ("every transition cancels whatever the step
\* you're leaving started"), while every request left behind was one that could
\* be cancelled, so for the signup path.
NumberKept == ~strayed => {state.phone, session} \subseteq {"none", number}

\* "Your code is fine" is never shown with an error; and a hold that a check
\* earned ("held is true iff the directory never checked the code") is never about
\* a code whose verdict the directory was told, however the vendor, the limiter
\* and the handlers answer.  Two holds are not covered: the one of a Resend that
\* met an outage (attempts = 0), which shows the same words about a code that may
\* have been rejected; and one whose check the vendor made while its answer was
\* lost, where the code may be used up.
HeldIsHonest ==
    state.held /\ ~strayed =>
        /\ ~error
        /\ state.attempts > 0 => ~judged

\* Nobody gets past the code, on either path, with a number the vendor has not
\* approved a code of: not through an outage, a late answer, a request handled
\* after it was given up, a restart or a rotation.
VerificationGates ==
    /\ state.step \notin {"Welcome", "PhoneEntry", "AwaitingOtp", "RestorePhone", "RestoreOtp"} =>
           state.phone \in approved
    /\ session # "none" => session \in approved

=============================================================================
