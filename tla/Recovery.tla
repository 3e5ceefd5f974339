------------------------------ MODULE Recovery ------------------------------
(***************************************************************************)
(* Account recovery seen from the device: the bundle in the encrypted      *)
(* store (core/src/backup.rs and the backup_* calls of ffi/src/lib.rs), the *)
(* three screens that upload it (App.kt enroll and restore,                *)
(* ChangePinScreen.kt), the debounced BackupUploader.kt, and the           *)
(* directory's row.  An FFI call holds the store's mutex, so it is one     *)
(* step; between it and the answer to its upload the user may leave, the   *)
(* app may die, the device may be lost and the other task may upload.      *)
(*                                                                         *)
(* A key, a phrase and an identity are numbered as they are drawn; a       *)
(* wrapped key is the pair of secret and key, an auth hash goes with its   *)
(* wrap.  Left out: a mistyped secret (DirectoryRestore counts those),     *)
(* session expiry, storage errors.                                         *)
(***************************************************************************)
EXTENDS Naturals

CONSTANTS
    NoBundle,
    Pins,          \* PINs the user may choose, as numbers that are no phrase's
    MaxChanges,    \* enrollments, PIN changes and restores
    MaxFaults,     \* uploads whose answer is an error
    MaxDeaths      \* app deaths and lost devices

ASSUME RecoveryAssumption ==
    /\ {MaxChanges, MaxFaults, MaxDeaths} \subseteq Nat
    /\ Pins \subseteq Nat /\ \A p \in Pins : p > MaxChanges

VARIABLES
    disk,        \* kv of the encrypted store, with the contact
    backend,     \* the engine has a conversation task
    screen,      \* the onboarding or ChangePin stage, or "Main"
    fetched,     \* the bundle RestoreNewPin carries
    task,        \* the screen's coroutine and the uploader's
    requests,    \* uploads on their way, with the task that awaits each
    backup,      \* the account's row of backups
    changes, faults, deaths,   \* counters of the bounds
    phrase,      \* history: the phrase shown to the user
    enrolledAt,  \* history: the change that was the last enrollment
    excused,     \* history: the PIN was left changed here only, or set back
    reenrolled,  \* history: an enrollment that was retried arrived last
    adopted,     \* history: a device was restored from that one
    late         \* history: an upload nobody awaited arrived

recoveryVars == <<disk, backend, screen, fetched, task, requests, backup, changes, faults,
          deaths, phrase, enrolledAt, excused, reenrolled, adopted, late>>
userHistory == <<phrase, enrolledAt, excused, reenrolled, adopted, late>>
counters == <<changes, faults, deaths>>

None == "none"
Onboarding == {"SetPin", "ShowPhrase", "Lost", "RestoreNewPin"}
Empty == [bk |-> 0, bundle |-> NoBundle, identity |-> 0, contact |-> None]
NoTask == [pc |-> "idle", bundle |-> NoBundle, at |-> 0]

RecoveryInit ==
    /\ disk = Empty
    /\ backend = FALSE
    /\ screen = "SetPin"
    /\ fetched = NoBundle
    /\ task = [k \in {"screen", "uploader"} |-> NoTask]
    /\ requests = {}
    /\ backup = NoBundle
    /\ changes = 0 /\ faults = 0 /\ deaths = 0
    /\ phrase = 0 /\ enrolledAt = 0
    /\ excused = FALSE /\ reenrolled = FALSE /\ adopted = FALSE /\ late = FALSE

-----------------------------------------------------------------------------
(* core/src/backup.rs *)

wrap_bk(secret, bk) == [secret |-> secret, bk |-> bk]
seal_blob(bk, payload) == [bk |-> bk, payload |-> payload]

build_bundle(pin, words, bk, payload) ==
    [blob |-> seal_blob(bk, payload),
     w_pin |-> wrap_bk(pin, bk), w_phrase |-> wrap_bk(words, bk)]

\* A secret unwraps the key it was given, and the key opens what it sealed.
Opens(wrap, secret, blob) == wrap.secret = secret /\ wrap.bk = blob.bk

-----------------------------------------------------------------------------
(* The backup_* calls: what each leaves in the store *)

\* The group and the MLS storage stay out of the backup.
strip_snapshot_to_identity(d) == d.identity

backup_payload(d) ==
    [identity |-> strip_snapshot_to_identity(d), contact |-> d.contact # None]

\* generate_phrase and random_bytes: neither was drawn before.
Fresh == changes + 1

backup_enroll(d, pin) ==
    [d EXCEPT !.bk = Fresh,
              !.bundle = build_bundle(pin, Fresh, Fresh, backup_payload(d))]

\* Mutant of backup_bundle_current: the blob is sealed once, at enrollment.
BundleAsStored(d) == d

backup_bundle_current(d) ==
    [d EXCEPT !.bundle.blob = seal_blob(d.bk, backup_payload(d))]

\* Mutant of backup_rewrap_pin: a new key for the new PIN.
RewrapFreshKey(d, pin) ==
    [d EXCEPT !.bk = Fresh,
              !.bundle.blob = seal_blob(Fresh, backup_payload(d)),
              !.bundle.w_pin = wrap_bk(pin, Fresh)]

backup_rewrap_pin(d, pin) == [d EXCEPT !.bundle.w_pin = wrap_bk(pin, d.bk)]

\* Mutant of new_from_backup: the identity of the blob is not written.
RestoreWithoutIdentity(b, bk) ==
    [bk |-> bk, bundle |-> b, identity |-> 0,
     contact |-> IF b.blob.payload.contact THEN "stub" ELSE None]

\* A PIN is tried on its wrap, anything else on the phrase's.
backup_verify_secret(d, secret) ==
    secret = (IF secret \in Pins THEN d.bundle.w_pin ELSE d.bundle.w_phrase).secret

\* The restored contact is a stub until it is paired with again.
new_from_backup(b, bk) ==
    [bk |-> bk, bundle |-> b, identity |-> b.blob.payload.identity,
     contact |-> IF b.blob.payload.contact THEN "stub" ELSE None]

-----------------------------------------------------------------------------
(* Uploads *)

\* A task read a bundle off the store and is about to send it.
Holding(d, at) == [pc |-> "holds", bundle |-> d.bundle, at |-> at]

Put(k) ==
    /\ task[k].pc = "holds"
    /\ task' = [task EXCEPT ![k].pc = "waits"]
    /\ requests' = requests \cup
        {[by |-> k, bundle |-> task[k].bundle, at |-> task[k].at, done |-> FALSE]}
    /\ UNCHANGED <<disk, backend, screen, fetched, backup, counters, userHistory>>

\* put_backup and upsert_backup.
Applies(r) ==
    /\ ~r.done
    /\ backup' = r.bundle
    /\ requests' = (requests \ {r}) \cup
                   (IF r.by = None THEN {} ELSE {[r EXCEPT !.done = TRUE]})
    /\ excused' = (r.at # changes)
    /\ reenrolled' = (adopted \/ r.at < enrolledAt)
    /\ late' = (late \/ r.by = None)
    /\ UNCHANGED <<disk, backend, screen, fetched, task, counters, phrase, enrolledAt,
                   adopted>>

\* The requests once the tasks in K no longer await theirs.
Abandoned(K) ==
    {r \in requests : r.by \notin K} \cup
    {[r EXCEPT !.by = None] : r \in {q \in requests : q.by \in K /\ ~q.done}}

\* The screen's answer to an upload that worked.
NextStage == [SetPin |-> "ShowPhrase", RestoreNewPin |-> "Main",
              NewPin |-> "Done", RetryUpload |-> "Done"]

Answered(k) ==
    /\ \E r \in requests : r.by = k /\ r.done
    /\ requests' = {r \in requests : r.by # k}
    /\ task' = [task EXCEPT ![k] = NoTask]
    /\ screen' = IF k = "screen" THEN NextStage[screen] ELSE screen
    /\ phrase' = IF k = "screen" /\ screen = "SetPin"
                 THEN disk.bundle.w_phrase.secret ELSE phrase
    /\ UNCHANGED <<disk, backend, fetched, backup, counters, enrolledAt, excused,
                   reenrolled, adopted, late>>

\* Mutant of AfterFailure: the failed upload is not shown.
FailureIsDone == IF screen = "NewPin" THEN "Done" ELSE screen

AfterFailure == IF screen = "NewPin" THEN "RetryUpload" ELSE screen

\* The directory refuses, cannot be reached, or its answer is lost.
Failed(k) ==
    /\ task[k].pc = "waits"
    /\ faults < MaxFaults
    /\ requests' = Abandoned({k})
    /\ task' = [task EXCEPT ![k] = NoTask]
    /\ screen' = IF k = "screen" THEN AfterFailure ELSE screen
    /\ faults' = faults + 1
    /\ UNCHANGED <<disk, backend, fetched, backup, changes, deaths, userHistory>>

-----------------------------------------------------------------------------
(* The screens.  A button is disabled while its coroutine runs. *)

\* The screen's coroutine after its FFI call left d in the store.
Uploads(d, at) ==
    /\ disk' = d
    /\ task' = [task EXCEPT !["screen"] = Holding(d, at)]

Enroll(pin) ==
    /\ screen = "SetPin"
    /\ task["screen"].pc = "idle"
    /\ changes < MaxChanges
    /\ changes' = changes + 1
    /\ enrolledAt' = changes + 1
    /\ Uploads(backup_enroll(disk, pin), changes + 1)
    /\ UNCHANGED <<backend, screen, fetched, requests, backup, faults, deaths, phrase,
                   excused, reenrolled, adopted, late>>

PhraseNoted ==
    /\ screen = "ShowPhrase"
    /\ screen' = "Main"
    /\ UNCHANGED <<disk, backend, fetched, task, requests, backup, counters, userHistory>>

\* Opening the screen asks whether there is an enrollment, and so refreshes it.
OpenChangePin ==
    /\ screen = "Main"
    /\ screen' = "VerifyPin"
    /\ disk' = backup_bundle_current(disk)
    /\ UNCHANGED <<backend, fetched, task, requests, backup, counters, userHistory>>

\* The current PIN, or the recovery phrase.
Verify(secret) ==
    /\ screen = "VerifyPin"
    /\ backup_verify_secret(disk, secret)
    /\ screen' = "NewPin"
    /\ UNCHANGED <<disk, backend, fetched, task, requests, backup, counters, userHistory>>

applyNewPin(pin) ==
    /\ screen = "NewPin"
    /\ task["screen"].pc = "idle"
    /\ changes < MaxChanges
    /\ changes' = changes + 1
    /\ Uploads(backup_rewrap_pin(disk, pin), changes + 1)
    /\ UNCHANGED <<backend, screen, fetched, requests, backup, faults, deaths, userHistory>>

retryUpload ==
    /\ screen = "RetryUpload"
    /\ task["screen"].pc = "idle"
    /\ Uploads(backup_bundle_current(disk), changes)
    /\ UNCHANGED <<backend, screen, fetched, requests, backup, counters, userHistory>>

\* The PIN may have changed on this device alone.
MidChange == screen = "RetryUpload" \/ (screen = "NewPin" /\ task["screen"].pc # "idle")

\* The back arrow, enabled throughout, and the Done button.
Leave ==
    /\ screen \in {"VerifyPin", "NewPin", "RetryUpload", "Done"}
    /\ screen' = "Main"
    /\ task' = [task EXCEPT !["screen"] = NoTask]
    /\ requests' = Abandoned({"screen"})
    /\ excused' = (excused \/ MidChange)
    /\ UNCHANGED <<disk, backend, fetched, backup, counters, phrase, enrolledAt,
                   reenrolled, adopted, late>>

\* Restore with the PIN of the row.
RestoreByPin ==
    /\ screen = "Lost"
    /\ backup # NoBundle
    /\ Opens(backup.w_pin, backup.w_pin.secret, backup.blob)
    /\ changes < MaxChanges
    /\ changes' = changes + 1
    /\ disk' = new_from_backup(backup, backup.w_pin.bk)
    /\ screen' = "Main"
    /\ adopted' = (adopted \/ reenrolled)
    /\ UNCHANGED <<backend, fetched, task, requests, backup, faults, deaths, phrase,
                   enrolledAt, excused, reenrolled, late>>

RestoreByPhrase ==
    /\ screen = "Lost"
    /\ backup # NoBundle
    /\ backup.w_phrase.secret = phrase
    /\ fetched' = backup
    /\ screen' = "RestoreNewPin"
    /\ UNCHANGED <<disk, backend, task, requests, backup, counters, userHistory>>

\* deleteDbFile, newFromBackup with the phrase, and the forced fresh PIN.
RestoreNewPin(pin) ==
    /\ screen = "RestoreNewPin"
    /\ task["screen"].pc = "idle"
    /\ changes < MaxChanges
    /\ Opens(fetched.w_phrase, phrase, fetched.blob)
    /\ changes' = changes + 1
    /\ Uploads(backup_rewrap_pin(new_from_backup(fetched, fetched.w_phrase.bk), pin),
               changes + 1)
    /\ UNCHANGED <<backend, screen, fetched, requests, backup, faults, deaths, userHistory>>

-----------------------------------------------------------------------------
(* Contacts, and the uploader *)

\* The store once an engine connected, under the identity it holds or draws (a
\* second one only after a device was lost).
Connected(d) == [d EXCEPT !.identity = IF @ = 0 THEN deaths + 1 ELSE @]

\* createContactLink at launch.
Connect ==
    /\ screen \notin Onboarding
    /\ ~backend
    /\ backend' = TRUE
    /\ disk' = Connected(disk)
    /\ UNCHANGED <<screen, fetched, task, requests, backup, counters, userHistory>>

\* A peer used the link: the contact appears, no upload is scheduled.
PeerPairs ==
    /\ backend
    /\ disk.contact # "paired"
    /\ disk' = [disk EXCEPT !.contact = "paired"]
    /\ UNCHANGED <<backend, screen, fetched, task, requests, backup, counters, userHistory>>

\* schedule: the pending job is cancelled and the delay starts again.
schedule ==
    /\ task' = [task EXCEPT !["uploader"] = [NoTask EXCEPT !.pc = "delay"]]
    /\ requests' = Abandoned({"uploader"})

\* pairWithLink, which an engine that has a conversation refuses.
PairWith ==
    /\ screen = "Main"
    /\ ~backend
    /\ backend' = TRUE
    /\ disk' = [Connected(disk) EXCEPT !.contact = "paired"]
    /\ schedule
    /\ UNCHANGED <<screen, fetched, backup, counters, userHistory>>

Elapse ==
    /\ task["uploader"].pc = "delay"
    /\ disk' = backup_bundle_current(disk)
    /\ task' = [task EXCEPT !["uploader"] = Holding(disk', changes)]
    /\ UNCHANGED <<backend, screen, fetched, requests, backup, counters, userHistory>>

-----------------------------------------------------------------------------
(* Deaths *)

\* What the next launch opens: onboarding saves its step, but not a bundle.
Reopened ==
    CASE screen \in {"SetPin", "ShowPhrase", "Lost"} -> screen
      [] screen = "RestoreNewPin" -> "Lost"
      [] OTHER -> "Main"

AppDies ==
    /\ deaths < MaxDeaths
    /\ deaths' = deaths + 1
    /\ screen' = Reopened
    /\ fetched' = NoBundle
    /\ task' = [k \in DOMAIN task |-> NoTask]
    /\ requests' = Abandoned(DOMAIN task)
    /\ backend' = (disk.contact = "paired")
    /\ excused' = (excused \/ MidChange)
    /\ UNCHANGED <<disk, backup, changes, faults, phrase, enrolledAt, reenrolled, adopted,
                   late>>

DeviceLost ==
    /\ screen \notin Onboarding
    /\ deaths < MaxDeaths
    /\ deaths' = deaths + 1
    /\ disk' = Empty
    /\ screen' = "Lost"
    /\ task' = [k \in DOMAIN task |-> NoTask]
    /\ requests' = Abandoned(DOMAIN task)
    /\ backend' = FALSE
    /\ UNCHANGED <<fetched, backup, changes, faults, userHistory>>

-----------------------------------------------------------------------------

RecoveryNext ==
    \/ \E pin \in Pins : Enroll(pin) \/ applyNewPin(pin) \/ RestoreNewPin(pin)
    \/ PhraseNoted \/ OpenChangePin \/ retryUpload \/ Leave
    \/ \E secret \in Pins \cup {phrase} : Verify(secret)
    \/ RestoreByPin \/ RestoreByPhrase
    \/ Connect \/ PeerPairs \/ PairWith \/ Elapse
    \/ \E k \in {"screen", "uploader"} : Put(k) \/ Answered(k) \/ Failed(k)
    \/ \E r \in requests : Applies(r)
    \/ AppDies \/ DeviceLost

RecoverySpec == RecoveryInit /\ [][RecoveryNext]_recoveryVars

\* The uploader's coroutine runs on, its delay ends, and the directory works
\* through the requests that reach it.
Fairness ==
    /\ WF_recoveryVars(Elapse)
    /\ WF_recoveryVars(Put("uploader"))
    /\ WF_recoveryVars(Answered("uploader"))
    /\ WF_recoveryVars(\E r \in requests : r.by = "uploader" /\ Applies(r))

FairSpec == RecoverySpec /\ Fairness

-----------------------------------------------------------------------------
(* Properties *)

(* Once the five words were shown, they restore the account: whatever was  *)
(* uploaded since, by whichever task, the row is still wrapped under those *)
(* words, and both wraps hold the key that sealed the blob.  Except while  *)
(* the row is that of a first enrollment that failed here and reached the  *)
(* directory after its retry, until an upload of this device replaces it;  *)
(* for good, if a device was restored from it with its PIN.                *)
PhraseRestores ==
    backup # NoBundle =>
        /\ backup.w_pin.bk = backup.blob.bk
        /\ backup.w_phrase.bk = backup.blob.bk
        /\ phrase # 0 => backup.w_phrase.secret = phrase \/ reenrolled

\* The stages that tell the user the directory may not have the new PIN.
Telling == {"SetPin", "Lost", "RestoreNewPin", "RetryUpload"}

(* The PIN that restores the account is the PIN of the device, unless the  *)
(* screen says otherwise or is still working on it.  Excused, until the    *)
(* next upload of the device arrives: the user left or the app died in the *)
(* middle of a change, or an upload of an earlier bundle arrived last.     *)
(* There the PINs differ and no screen tells, although ChangePinScreen has *)
(* its retry because "silence would mean divergence".                      *)
PinsAgree ==
    (screen \notin Telling /\ task["screen"].pc = "idle" /\ ~excused)
        => backup.w_pin.secret = disk.bundle.w_pin.secret

(* An identity that reached the backup stays in it, and so does a contact, *)
(* across refreshes, PIN changes and restores, unless an upload that no    *)
(* task awaited any more arrived.                                          *)
BackupNeverForgets ==
    [][(backup # NoBundle /\ ~late') =>
        /\ backup.blob.payload.contact => backup'.blob.payload.contact
        /\ backup.blob.payload.identity \in {0, backup'.blob.payload.identity}]_recoveryVars

(* A contact added on this device is in the backup after the debounce, if  *)
(* no upload fails and the app lives on: BackupUploader's promise.         *)
UploadsCatchUp ==
    \A f \in 0..MaxFaults, d \in 0..MaxDeaths :
        (task["uploader"].pc = "delay" /\ faults = f /\ deaths = d) ~>
            \/ /\ backup # NoBundle
               /\ backup.blob.payload = [identity |-> disk.identity, contact |-> TRUE]
            \/ faults > f \/ deaths > d

=============================================================================
