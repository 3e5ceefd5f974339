# Rosette in TLA+

A model of the parts of Rosette whose correctness depends on order: the relay
that stores and forwards, the connection between it and a client, the client
engine that sends, commits and resumes, the engine object the app holds, the
app's onboarding and recovery screens, and the directory that verifies numbers,
keeps accounts, hands out usernames and guards recovery bundles. TLC checks each
part on a small instance. TLAPS proves every safety property of every part for
every instance (see Proofs); liveness stays with TLC.

Source paths below are relative to `src/`; Kotlin files are under
`app/composeApp/src/commonMain/kotlin/chat/app/`.

## The system

| Part | State | Operations | Talks to |
|---|---|---|---|
| relay queue store (`relay/src/state.rs`) | queues, group epochs and rosters, backlog, byte count, subscribers, rate windows; all but the last two in SQLite | create mailbox, create group inbox, subscribe, send to mailbox, send to group inbox, ack, open | relay connections |
| relay admission (`relay/src/state.rs`) | outstanding challenges with their order, spent attestation nonces, in memory | issue challenge, consume attestation, consume proof of work | queue creation |
| relay connection (`relay/src/net.rs`) | three tasks, two channels, the socket | read and handle, forward a push, write a frame | queue store, client |
| relay client (`engine/src/relay_client.rs`) | pending map with its closed flag, two tasks, push channel | call, cancel, reader, writer | relay connection, chat engine |
| chat engine (`engine/src/chat_engine.rs`, `core/src/session.rs`) | MLS session, seen ids, pending events, SQLCipher store | pair, send, commit, pump, next event, reconnect, resume | relay client, FFI engine |
| FFI engine (`ffi/src/lib.rs`) | one thread per conversation, command channel, UI state in memory and on disk | create link, pair, send, resume, backup calls | chat engine, app |
| app (`onboarding/`, `settings/`, `directory/`, `App.kt`) | onboarding step and its requests, Change PIN stage, debounced upload, session | the screens' buttons and coroutines | FFI engine, directory |
| phone verification (`directory/src/api.rs`, `verify.rs`) | none of its own; the vendor's pending and approved codes | signup, verify, restore begin, up to the database | app, rate limiter, OTP vendor |
| rate limiter (`directory/src/ratelimit.rs`) | one fixed window per bucket and key, in memory | check and bump | directory handlers |
| directory accounts (`directory/src/api.rs`, `store.rs`) | users, cooldowns, sessions, pairing bootstraps, backups in Postgres | signup, verify, delete, searchable, bootstrap upload and request, backup upload | app, verification |
| usernames (`directory/src/username.rs`, `store.rs`) | nickname and discriminator of each user, width of each nickname | claim, erase, lookup by handle | directory handlers |
| directory restore (`directory/src/api.rs`, `store.rs`) | bundle row with attempts and lockout, restore tokens in memory | begin, complete, upload | app |
| search (`directory/src/`) | none | ranked lookups | directory handlers |
| wire formats, proof of work, auth tags, TLS, links (`proto/`, `core/`) | none | pure functions | all |
| command line, servers' `main`, site | none | start-up, static pages | none |

Envelopes travel from one client's engine through its relay client, a relay
connection and the queue store to the mailboxes of the group's members, and are
pushed to subscribed connections until acked. Commits are ordered by the relay
alone: a group inbox accepts one per epoch. Everything a client needs after a
process death is in its encrypted store; what it needs after the loss of the
device is the recovery bundle in the directory.

## Modules

| Module | Models | State and actions |
|---|---|---|
| `DeliveryService` | what the relay promises | per inbox the epoch, per mailbox the messages owed; one action accepts a commit and owes it to all members |
| `Loops` (`LoopProofs`) | the loops over a list: what `retain` or a `WHERE` keeps, a running total, lists one after another | operators only; `RelayQueues` and `RelayConnection` are written with them |
| `RelayQueues` (`MCRelayQueues`, `RelayQueuesProofs`) | `RelayState` and its SQLite file | memory and disk apart, the pending table as the sequence of its rows by `seq`; each request of `handle` is an action that may fail at its transaction; `Crash` and `Open` |
| `RelayAdmission` (`MCRelayAdmission`, `RelayAccessProofs`) | challenges and attestation | the challenge map and its order queue, the spent set with expiries, a clock |
| `RelayConnection` (`RelayAccessProofs`) | `handle_connection` | handler, forwarder and writer as tasks over their channels, a peer that closes, a mutex that can be poisoned |
| `RelayClient` | `RelayClient::connect` and `call` | calls at each await point, the pending map, reader and writer, cancellation |
| `RelayLink` (`RelayAccessProofs`) | one connection end to end | `RelayClient` and an instance of `RelayConnection` over one stream in each direction; a frame written at one end is the frame read at the other |
| `ChatEngine` (`ChatEngineProofs`) | `ChatEngine` and `ChatSession` of paired clients | session, staged commit, seen ids, disk; steps between the awaits of send, commit, pump and reconnect; the relay as one log of accepted envelopes, in which mailboxes and pushes are sets of positions |
| `FfiEngine` (`FfiEngineProofs`) | `ChatEngine` of the FFI crate | engine threads from spawn to stop, their channels, callers that block, UI blob and engine rows on disk, process death |
| `RateLimit` (`SignupProofs`) | `check_and_bump` | a window per key, a clock, the restart that forgets; the calls let through as history |
| `Verification` | the verifying handlers and the vendor | pending codes, approvals, the vendor's every answer and what the handlers make of it |
| `Onboarding` | `OnboardingFlow` | the step, the spinner, requests that are cancelled or not by `goTo`, recreation of the screen, a restore that goes on without it |
| `Signup` (`MCSignup`, `SignupProofs`) | signing up end to end | `Onboarding`, `Verification` and `RateLimit` composed: each request of the flow is answered by a handler behind its limits |
| `Recovery` (`AccountProofs`) | the device's side of recovery | the bundle on disk, the screens and the uploader as tasks, uploads in flight, the directory's row, app death, device loss |
| `DirectoryAccounts` (`MCDirectoryAccounts`, `AccountProofs`) | handlers that write accounts | request slots that interleave between store calls; a statement is a step, the statements of `erase_user` included: what its transaction wrote (`tx`) is seen at its commit, and the rows it holds make others wait |
| `DirectoryRestore` (`MCDirectoryRestore`, `DirectoryProofs`) | restore handlers and lockout | the bundle row with its `FOR UPDATE` lock, attempts, tokens, clock, restart |
| `Usernames` (`MCUsernames`, `DirectoryProofs`) | `claim_username` and erasure | a claim as the statements of its transaction under READ COMMITTED, with the row lock of the width upsert and the unique index |

How the modules fit: `RelayQueues` implements `DeliveryService` (checked as a
refinement and proved); `ChatEngine` uses the relay by the rule that refinement
establishes (`Accepts`, `FanOut`) and assumes of a call what `RelayLink` shows:
it returns with its own reply or an error. `FfiEngine` uses the engine by what a
save, a pairing and a pump do. `Signup` implements `RateLimit`'s specification
(proved), so what the limiter promises alone it promises there.
`Recovery` uses the directory by what `put_backup` leaves in the row;
`DirectoryRestore` looks at the row's counters instead of its content.

Data are abstracted throughout: an envelope is a record of what it does to the
receiver, a ciphertext is the name of the key that opens it, a PIN is right or
wrong, a number or a name is a model value. Control is kept: every guard, early
return, error path and save. Bounds are named constants in the guards.

## Runs

Passing runs check every state of the instance; those with temporal properties
also every fair behaviour.

| Run | Instance | What it shows |
|---|---|---|
| `relay_queues` | 3 queues, 2 envelopes, 1 connection, depth 2, 3 bytes of storage, epochs to 3 | `OneCommitPerEpoch`, `AcknowledgedIsDurable`, `MemoryMirrorsDisk` (memory equals what `open` would rebuild), `BacklogReachesSubscribers`, `ImplementsDeliveryService` |
| `relay_admission` | 5 challenges, 2 tokens, cap 2, 3 ticks | `PaysOnce` (a challenge or a token pays for one queue), `RecentChallengeHonoured` (eviction never hits one of the newest) |
| `relay_link` | 2 calls, 2 pushes in flight, cancellation, loss at any point | `RepliesMatch`, `FramesInOrder`, `CallsReturn`, `BusyConnectionEnds` (no task outlives a client whose queues stay busy) |
| `chat_engine` | 2 clients, 1 message, 2 commits, 2 faults of any kind (drop, rejection, failed reconnect, crash) | `GroupAgreement`, `AppliedOnce`, `AckedIsPersisted`, `WinnerIsQueued` |
| `chat_liveness` | 2 clients, 1 message, 2 commits, 1 drop or rejection, all in any order | `CommitsReturn`, `CatchesUp`, `MessagesShown`, each but where a client is `Stuck` |
| `directory_accounts` | 1 number, 2 accounts, 2 links, 2 handlers at a time, 1 tick | `OneLiveAccount`, `NoAccountInCooldown`, `ErasedLeavesNothing`, `LinkHandedOnce` |
| `directory_restore` | 2 handlers, 1 token, 7 hours | `GuessingIsSlow` (every tenth wrong PIN is paid for), `ErasedNotRestored` |
| `ffi_engine` | 2 engine threads, 2 links, 2 scans, 2 messages, a backup that may have named a contact, 1 process death or thread that no caller got | `UnpairedAwaitsPairing`, `SavedStateKept`, `CallsReturn`, `PairingShown` |
| `signup` | 2 numbers behind one address, limits 2 per address and 1 per number, 4 requests, 2 recreations, 1 request handled after the app forgot it or restart of the directory | `NumberKept`, `HeldIsHonest`, `VerificationGates`, `BurstsBounded`, `RefusalEarned` |
| `usernames` | 3 accounts, 2 nicknames, 2 transactions, 1 slot at the first width and 3 at the second | `WidthOnlyWidens`, `ErasedHandleReserved`, `LoneClaimSucceeds` |
| `recovery` | 2 PINs, 3 enrolments, changes or restores, 1 failed upload, 1 death or loss | `PhraseRestores`, `PinsAgree`, `BackupNeverForgets`, `UploadsCatchUp` |
| `lost_commit_reply` (violation) | 2 clients, 1 commit, 1 dropped connection, the specification of `chat_liveness` | `Converges` fails: see Findings |

Each property of a passing run is broken by a mutant of the code it is about
(`PROJECT.json`, "mutants"): an operator next to the original, marked `Mutant of`.
`GuessingIsSlow` also fails when `RowFree` is `TRUE`, that is without the
`FOR UPDATE` of `verify_backup_auth`; the counterexample is deep, so the listed
mutant is a quicker one.

### Why the bounds are enough

Two clients, two handlers, two transactions or two tasks are the fewest that
race, and every race named in the hazards is between two. Two commits let one
lose to the other, and the message and the fault fall before, between or after
them; two engine threads let one that timed out meet its successor,
or one be resumed after a death; `Cap` 2 with five challenges evicts several,
consumed or not; seven hours contain the first two lockouts (1 and 4 hours) and
the guesses after them. Two numbers let a request for one land on a screen for
the other; a limit of 2 with a period of 2 ticks lets a burst straddle the edge
of a window. Three accounts fill the one slot of the first width and make the
nickname widen while a claim is between its reads and its writes. One tick is
enough to end a cooldown or a session, and accounts erased and created at one
time or the next are the cases `InCooldown` tells apart. Two recreations let one
find the session that a restore saved after the other. Numbers that
only grow in the code stop at a bound, and pushes carry their place in the line
of those not yet written. Symmetry is used for challenges, accounts, links,
numbers, nicknames, transactions and directory requests, in runs that check no
liveness.

Deadlock is checked in `relay_queues`, `relay_admission`, `directory_accounts`
and `directory_restore`. The other runs have programs that really end: a closed
connection, calls that have all returned, accounts that are all erased, or a
user with no moves left under the bounds.

### Fairness

- `RelayLink`: weak fairness of each call, of the client's two tasks and of the
  relay's three; the runtime polls a woken task, and a stream whose owners are
  gone is dropped. None of the network or the user. `BusyConnectionEnds` says in
  its own premise that pushes go on.
- `ChatEngine`: weak fairness of each engine (`Engine`: the steps of the call it
  is in, and `next_event`, which the actor loop calls whenever it is idle) and of
  the relay's handling of each connection. None of a single step of an engine: a
  commit that waits for the winner is all that engine does. None of faults, and
  none of sending.
- `FfiEngine`: weak fairness of each thread's steps and of each caller's return
  (an answer or its timeout); an attempt to reach the relay ends one way or the
  other, and a resume that is retried for ever succeeds in the end. None of the
  user, the peer or a disconnection.
- `Recovery`: weak fairness of the uploader's delay, its steps and the
  directory's handling of its request; the property is conditional on no upload
  failing and no death.

## Proofs

| Module | Theorem | Says |
|---|---|---|
| `RelayQueuesProofs` | `DeliveryServiceRule` | `Spec => []OneCommitPerEpoch` |
| | `AcknowledgedStaysDurable` | `Spec => []AcknowledgedIsDurable` |
| | `EpochAdvanceIsAtomic` | an inbox's epoch moves on disk in the step that stores its commit for every member |
| | `RelayImplementsDeliveryService` | `Spec => DS!Spec` under the refinement mapping |
| | `MemoryIsWrittenThrough` | `Spec => []MemoryMirrorsDisk`: queues, deques in their order, and byte count |
| | `SubscribersAreServed` | `Spec => []BacklogReachesSubscribers` |
| | `StorageIsBounded` | the ciphertext on disk, and the relay's count of it, stay within `MaxStorageBytes` |
| | `TypesHold` | `Spec => []TypeOK`; in particular no rate window counts past the limit |
| `LoopProofs` | (lemmas only) | what `Filter`, `Total`, `Joined` and `IsSubsequence` compute, for all sequences |
| `RelayAccessProofs` | `PaymentsSpentOnce`, `ChallengeBooksBounded`, `RecentChallengesHonoured` | admission, for any cap, clock and tokens |
| | `RepliesAlwaysMatch`, `NoCallIsOrphaned` | relay client against any relay, for any number of calls |
| | `CallsAreSafeEndToEnd` | the same two for `RelayLink`: its steps are steps of the client or leave it alone |
| | `FramesArriveInOrder` | `LinkSpec => []FramesInOrder`, for any number of calls and pushes |
| `ChatEngineProofs` | `GroupsAgree` | `Spec => []GroupAgreement`, for any clients and any number of messages, commits and faults |
| | `MessagesApplyOnce`, `AcksFollowPersists`, `WinnersAreQueued` | the same for `AppliedOnce`, `AckedIsPersisted`, `WinnerIsQueued` |
| `FfiEngineProofs` | `SavedIsKept` | `Spec => SavedStateKept`, for any threads, links, scans, messages and deaths |
| | `UnpairedAwaits` | `Spec => []UnpairedAwaitsPairing`, on new devices and on restored ones |
| `SignupProofs` | `BurstsAreBounded`, `RefusalsAreEarned` | the limiter, for any keys, limits and period |
| | `VerificationAlwaysGates` | `Spec => []VerificationGates` |
| | `NumberIsKept`, `HoldIsHonest` | `Spec => []NumberKept`, `Spec => []HeldIsHonest` |
| | `SignupImplementsLimiter` | `Spec => LimiterSpec`, and so both its bounds |
| `AccountProofs` | `OneAccountPerNumber`, `CooldownIsKept`, `ErasureIsComplete`, `LinksHandedOnce` | the four properties of `directory_accounts`, for any numbers, accounts, links, handlers and times |
| | `TheWordsRestore`, `SeenThroughPinsAgree`, `BackupRemembers` | `PhraseRestores`, `PinsAgree` and `BackupNeverForgets`, for any PINs and any number of changes, failures and deaths |
| `DirectoryProofs` | `HandlesResolve`, `ErasedHandlesReserved`, `LoneClaimsSucceed`, `WidthsOnlyWiden` | usernames, for any accounts, nicknames, transactions and widths |
| | `GuessesCostLockouts`, `ErasedIsNotRestored` | `Spec => []GuessingIsSlow`, `Spec => ErasedNotRestored`, for any number of requests and tokens |

Assumptions are the `ASSUME`s of the modules: bounds are naturals (`Cap`, limits
and the period not zero), envelopes, rosters and watch lists have their types,
calls are positive numbers, the clients are finitely many, a wider discriminator
has at least the slots of a narrower one, a PIN is none of the words that
enrolments draw, and the values that stand for "none" are no values. TLC
evaluates each of them. The bounds that cap the state space (`MaxSeq`, `MaxEpoch`,
`MaxClock`, `MaxFaults` and the like) are arbitrary in the proofs.

*Queue store.* `OneCommitPerEpoch` is not inductive: a commit accepted at an
epoch must be behind the inbox's epoch on disk (`WinsAreBehind`), memory must
follow the disk while the relay runs (`MapFollowsDisk`) or the epoch compared
would not be the one written, and a request between its transaction and its
answer must have its rows on disk (`RequestIsDurable`).
`QueuesInv` is the conjunction of these with the types and the two properties.
The refinement maps the queue and roster tables to the service's queues, and the
pending rows to what each mailbox is owed; a step that writes neither is a
stutter.

*Deques and subscribers.* `MemoryMirrorsDisk` speaks of the states between
requests and says nothing of the ones in which a handler has written and not yet
applied. `MemoryFollowsFile` says for those how far memory is behind: by one copy
for each time a mailbox is named (`BehindBySend`), by the copies of one message
(`BehindByAck`), or not at all. Rows are in mailboxes (`RowsHaveMailboxes`), or
`open` would count bytes that no ack ever frees. `DequesInv` adds the types and
`BacklogReachesSubscribers`, which is kept because what a deque gets in a step is
a subsequence of what every subscriber's channel gets in it. That the two halves of
a handler agree is a statement about loops: `WHERE queue_id = ...` after an append
or a delete, and the sum of lengths, against `push_back`, `retain` and a running
count. `LoopProofs` has those facts.

*Limits.* A send is checked against the bound with the length of the roster, and
stores at most that many rows. The count it is checked with is the file's
(`DequesInv`), so the file stays within the bound, and a restart or the end of a
handler brings the count back to the file (`StorageBounded`).

*Loops.* A loop is a recursive function over positions, local to its operator, and
a test is membership in a set. The prover has no induction over sequences for a
formula given by name, so each statement is made the membership of a sequence in a
set (`EverySequence`, from the least number principle), which it can use.
Conclusions that are cited often have names (`FilterSplits`, `MappedSplits`,
`SumSplits`), so that a citation matches them as they are.

*Admission.* The order queue is the tail of what was issued, all of it or `Cap`
long, and the map is that tail without the challenges some request has named
(`OrderIsRecent`); what paid has been named (`PaymentsAreKnown`); a token that
paid is in the spent set or expired (`SpentIsRemembered`). `AdmissionInv` adds the
types, the bound on the books and the two pay-once properties.

*Client and link.* The closed flag is up exactly when the reader has ended, and
then the map is empty; every registered sender is live; an answered one holds the
reply to its own id (`MapFollowsCalls`). `ClientInv` adds the types and the two
properties. The client is specified against a relay that may do anything, so for
the link it is enough that each joint step projects to a client step.
`FramesInOrder` is inductive with the types of the channels (`FramesInv`): an
answer moves its number from the requests to the replies in the writer's channel, a
forwarded push from one channel to the end of the other, and a written frame leaves
from the front, where selecting the replies or the pushes of a queue commutes with
appending to it and with taking its head.

*Chat engine.* Agreement alone is not inductive: a client merges its own commit
on a reply and another's on a push, so both must be tied to what the relay
accepted. `ChatInv` says that the relay's epoch counts its commits, one for each
epoch behind it (`OneWinnerPerEpoch`); that an id names one envelope, resent or
not (`IdsName`, `CurrentIsNamed`); that a connection holds at most the send its
client waits for and acks of what is stored, and a dead one nothing
(`RequestsAreCurrent`); that a reply tells what the relay did and a loser is
behind it (`RepliesAreTrue`); and that the store has the session's epoch and all
the engine has seen, none of it a commit it has yet to merge (`StoreIsCurrent`).
The last is what a crash needs: what is read back is what was acted on. The
proof states the invariant client by client: first the steps that merge nothing,
then the relay's, then the merging ones.

*FFI engine.* A save replaces what is on disk, so what was saved is kept only if
the thread that saves has it. `EngineInv` says that, as long as no thread made
something that no caller got (`orphaned`), one thread at most is past its connect, the one the app
waits for or the one it holds, and has the identity and the group on disk
(`Sole`); and that something is saved only under an engine that is held, or whose
start is over or cannot fail any more (`Kept`). So a thread is spawned, and
connects, only where nothing was saved. Callers wait for one start, or for
answers of the engine that is held (`Called`), and a conversation is one of a
saved pairing, or the stub of a restored device that was relaunched (`Paired`). The ids of a history are below its counter, in memory
and on disk (`Numbered`), so a relaunch that goes back to the saved counter goes
back to the saved history too.

*Limiter.* The window has counted exactly the last calls let through, the first
of them at its start, and all calls but those and the `limit - 1` before them came
a full period earlier (`Consistent`). A window that expires forgets its count but
not that distance, which gives twice the limit less one.

*Signup.* A request of a step after the code outlives the step that launched it,
so it must carry an approved number too, and so must a restore that goes on
without its screen (`GateInv`). The limiter's theorems come
from the refinement: what a request does to the windows of its address and its
number is one step of the limiter, and nothing but a request, the clock and a
restart touches them; it needs that requests carry numbers that have a window
(`NumbersInv`). What the screen shows is tied to the requests (`FlowInv`): while
none of an earlier step is left running there is one request at most, it carries
the number submitted last, and while the hold is shown it is one that tells of
the code, whose verdict the directory was not told if a check earned the hold; a
session means that nothing runs any more.

*Accounts.* Handlers act on what they read some steps before. `AccountsInv` says
what an earlier check is still worth at each step (`Sound`): a handler about to
create has a number that is in no cooldown, and one that has an account has one
that is not erased, each unless the erasure raced it. `SoundTx` says what an open
transaction is worth: the cooldown it inserted is of the number its account still
has (`Remembers`), and unless another handler had the account to write for since
it began (`met`), none has (`Alone`), so that each table it is past holds no row of
the account that it did not delete (`AllDeleted`). This is what a commit needs to
leave nothing. The rows agree with it (`SoundRow`): a tombstone has no number and
leaves nothing. A link is unused, on offer in one place, or handed out once
(`Links`).

*Restore.* The row counts the wrong PINs exactly, and its lockout ends no sooner
than all the lockouts so far take (`Counted`); a request that compares holds the
row (`Held`), so what it read is what is there, and it read it past the lockout
(`Comparing`). Without the row lock `Comparing` is not kept. `Gone` says that an
erased account has no row, and no request about to write or hand out one, unless
it raced the erasure.

*Recovery.* Every bundle, on the device, in a coroutine, on its way or stored, has
both wraps around the key of its blob (`Whole`); what screens, tasks and uploads
may be doing together leaves one change open at a time (`Staged`); an upload that
is numbered with the last enrolment has its words (`Worded`), one numbered with
the last change has the device's PIN (`Pinned`), and its payload covers the stored
one (`Remembered`). `RecoveryInv` is the conjunction. A row that a
late enrolment wrote, and what was restored from it with its PIN, is followed
(`adopted`), so that the exception of the words ends where an upload of the device
replaces it. Each part names the histories the properties except: `reenrolled`,
`excused`, `late`.

*Usernames.* While no slot of a nickname is given up, the slots taken only grow;
a width in use, or chosen by a transaction, was chosen when every narrower one
was full (`FullBelow`); so a claim that would narrow the nickname holds a slot
that is taken by now, and meets the unique index. A tombstone has no claim of
its own account left running, or it is not counted as buried.

The inductive invariants (`QueuesInv`, `DequesInv`, `AdmissionInv`, `ClientInv`,
`FramesInv`, `ChatInv`, `EngineInv`, `LimiterInv`, `GateInv`, `FlowInv`,
`AccountsInv`, `UsernamesInv`, `RestoreInv`, `RecoveryInv`), and `StorageBounded`,
also hold under TLC on the instances of the runs; they are not listed as
properties of those runs, since the proofs cover them.

Only model-checked:

- all liveness (`CallsReturn`, `BusyConnectionEnds`, `CommitsReturn`, `CatchesUp`,
  `MessagesShown`, `PairingShown`, `UploadsCatchUp`): fairness is out of the
  prover's reach.

## Findings and divergences

`lost_commit_reply`: a commit the relay accepted, whose reply is lost with the
connection, is sent again by `commit_self_update`. The relay answers
`EpochConflict`, the author discards its staged commit and waits for the winner,
which is that commit; it cannot process its own commit, and stays behind the
group. `core/src/session.rs:328` has "the group must converge".

Met while modelling. Each is behaviour of the modelled code that is named in a
hazard or excepted in a property; none has a run of its own:

- Relay: fan-out ignores the depth bound (`state.rs:577`), `Subscribe` adds to the
  watched set although `proto/src/wire.rs:92` says it replaces it, spent attestation
  nonces do not survive a restart. On an idle queue the tasks of a connection wait
  for each other after the client left; a connection whose handler failed or
  panicked while subscribed is neither read nor closed, so the calls of its client
  wait until that client gives up (`Orphaned`, which `CallsReturn` excepts).
- Chat engine: a message that a commit overtakes cannot be decrypted any more, and
  each redelivery of it fails a pump (`Overtaken`; with `Disowned`, the finding
  above, it is what the liveness properties except). A crash loses the messages
  that are buffered and acked. A commit that the relay refuses for its rate or storage limit stays staged, and
  self-updates of that client fail until it merges another's commit.
- FFI engine: a link scanned twice stops the paired engine, at each launch; the
  key package of a link not yet saved is lost in a restart; a thread that outlives
  its thirty seconds can overwrite the rows of its successor, and a start whose
  link fails after its save is retried with another identity (`orphaned`, which
  `SavedStateKept`, `UnpairedAwaitsPairing` and `PairingShown` except). On a
  restored device that is relaunched, the stub contact makes the resumed engine
  wait for messages (`Restored`), where a comment in `new_from_backup`
  (`ffi/src/lib.rs:462`) has the normal flow pair it again.
- Onboarding: requests that `goTo` does not cancel land on later steps, and a
  restore past its last suspension point saves its session after its screen is
  gone (`strayed`). `Onboarding.kt:248` has the hold "true **iff** the directory
  never checked" the code; a resend answered with 503 after a rejected code shows
  it too, and so does a check that timed out although the vendor approved the
  code, which is spent. `HeldIsHonest` covers neither.
- Recovery: a PIN change left in the middle, or overtaken by the debounced upload,
  leaves the directory with the old PIN and nothing on the device says so
  (`excused`, until the next upload arrives), where `ChangePinScreen` has its retry
  because "silence would mean divergence"; an
  enrolment that was retried can arrive last; a device that never scanned a link
  does not upload the identity it drew.
- Directory: a request that authenticated before an erasure commits can store
  after it, or between two statements of it, and what it stores stays (`raced`);
  `store.rs:418` has the bootstrap not survive the account. Of two erasures of one
  account the second can commit its cooldown when the number has a new one. The
  cooldown is read before the vendor is asked, two requests can both redeem one restore
  token with a right proof, and `restore_begin` is not behind the limiter.
- Usernames: of two concurrent claims of one slot the later fails on the unique
  index (`store.rs:246` has them resolve to different discriminators). A width can
  shrink once a rename released a slot (`username.rs:10` has "never shrinks";
  `released`). A claim under way when its account is erased moves the tombstone to
  another handle (`store.rs:384` has the slot "permanently reserved"; `buried`
  excepts it). `store.rs:382` has the nickname scrubbed; the row keeps it.

## Not modelled

- Search and lookups: read-only. Their one write is a limiter window, which
  `RateLimit` covers for any key and limit.
- The dispatch thread of the FFI engine: one receiver that calls a listener in the
  order of its channel. What could go wrong is inside the listener, in the
  platforms' code.
- A `RelayClient` that is dropped: its reader task and its socket stay until the
  relay or the network ends them. The engine drops one when it reconnects or stops,
  and nothing reads the old one's channels after that.
- Session expiry in the app: a 401 clears the session and shows onboarding, which
  is where `Signup` starts. The directory client and the other screens: one
  request, one answer.
- Wire formats, framing, proof-of-work hashing, auth tags, links, padding, phone
  normalisation, safety numbers: pure functions on byte strings. The modules use
  their results. The repository's round-trip and fuzz tests are the better tool.
- OpenMLS, SQLCipher, Postgres, TLS and the OTP vendor: external. They appear by
  what the code relies on (a staged commit, an atomic save, a row lock, an answer).
- Command line, start-up, deployment and the site: I/O without shared state.
- A relay of several processes, or several relays: the code has neither.

`ChatEngine` is not composed with `RelayQueues` step by step: the refinement to
`DeliveryService` is what it uses, and the product of the two is beyond TLC at
bounds where either is interesting.
