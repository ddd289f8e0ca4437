# Formal models of quoky-platform

TLA+ modules that model the parts of quoky-platform where order, failure and
concurrency decide correctness, the TLC configurations that check them on small
instances, and TLAPS proofs of the most important results. `PROJECT.json` lists
components, runs, hazards and theorems and maps every modelled definition to the
source lines it stands for.

## The system

quoky-platform is one Node.js process (`apps/quoky`) around a platform-neutral
core (`packages/core`), a SQLite store (`packages/storage-sqlite`), chat adapters
(Discord, Telegram), AI providers and connectors. JavaScript runs one thing at a
time, so two activities interleave exactly where one of them awaits; the chat
adapters start a turn per message without waiting for the previous one, a timer
chain fires reminders, and the operations UI decides approvals over HTTP. The
database is synchronous and every repository write is one transaction; the
process may die between any two of them and launchd starts it again.

| Component | State | Operations | Interacts with | What is hard | What makes it correct |
|---|---|---|---|---|---|
| Reminder table (`reminder-repository.ts`) | rows with status, occurrence, retry count, firing token, version | createWithinLimit, cancel, claimDue, completeFiring, reactivate | dispatcher, owner turns | compare-and-set on token and version | closed transitions, active limit |
| Reminder dispatcher (`reminder-dispatch-service.ts`) | the batch in flight | recoverInterrupted, dispatchDue | table, notification sink, calendar | crash after send, uncertain sends, catch-up, retries | at most once per occurrence, true outcome |
| Tick driver (`reminder-tick-driver.ts`) | driver state, timer, in-flight promise | start, onTimer, stop | dispatcher, process | stop racing a tick or the recovery | ticks never overlap, the chain never dies |
| Owner turns (`reminder-conversation-service.ts`) | last action | create, cancel, undo | table, calendar | an undo reads before and writes after an await | a stale undo changes nothing |
| Notification sink (`adapter-discord/src/notification.ts`) | none | deliver | dispatcher | timeouts: was it sent? | SENT, NOT_SENT and UNCERTAIN mean what they say |
| Keyed mutex and session lock (`keyed-mutex.ts`, `session-write-lock.ts`) | a promise chain per key, live holds | run, saveFields, releasePointer | every session and approval writer | re-entrancy, stale holds, entry removal | mutual exclusion, arrival order, no lost update |
| Approvals (`approval-manager.ts`, `approval-decision-service.ts`) | approval rows | request, decide, revoke, expire | chat turns, operations UI, flows | two decisions at once, expiry racing approval | one final decision, never after expiry |
| Connector writes (`connector-write-flow.ts`, `-executor.ts`, receipt repository) | anchor task, session pointer, receipt | propose, approve, execute, revoke, expire, reconcile | approvals, session, external service | crash between prepare and send; stop during execution | at most one send per approval |
| Code-change chain (`conversation-runtime/{apply,git-commit-push,git-pr-merge}-layer.ts`, the git, workspace and hosting managers) | the anchor the session points at, approval rows, the WorkspaceChange row | request, decide, execute, discard, reset, per stage | approvals, session, git, hosting provider | stale anchors of overlapping turns, crash after a decision, unverified mutations | nothing is mutated without every approval on the way |
| Instance lock (`ops/instance-lock.ts`) | generation files beside the database | acquire, release | process start and exit, the host | no atomic takeover: list, read, create and verify are separate calls of separate processes | one owner of the database, and somebody always gets it |
| Telegram inbound (`telegram-platform-adapter.ts`, `telegram-offset-store.ts`) | offset in memory and on disk, held album, run generation | start, poll, hand over, persist, stop | Bot API, core runtime, file intake | lost answers, crash around the confirmation, restart beside an old run | nothing lost, nothing twice, in order |
| Tasks, work items, handoffs | status rows | transitions | approvals, execution | long chains of legal calls | closed transitions |
| Backup, egress budget | files, counters | rotate, charge | process start and stop | crash between two file operations | bounded loss |

The remaining packages (providers, connectors, adapters, text grammars) are I/O
or text transformations; `PROJECT.json` names each with the reason it is left
out.

## Owner reminders

`ReminderDomain` holds the row and the pure functions of `domain/reminder.ts` and
`reminder-schedule.ts`; `ReminderSystem` composes repository, dispatcher, tick
driver and owner turns into one state machine; `OccurrenceDelivery` is the
promise as the owner sees it, which `ReminderSystem` implements: a reminder is active
until it is canceled or has ended, only a cancel can be taken back, and a message goes out
only for a reminder that is active at that moment, never before its occurrence and once
per occurrence; `MCReminder` gives the
constants small values; `ReminderProofs` and `ReminderTableProofs` hold the theorems.

How state and actions correspond to the code:

* `rows` is the reminders table. `sent` is a history variable: what actually
  reached the owner, in order.
* `driver`, `timer`, `tick` are `ReminderTickDriver.stateValue`, its timer and
  `inFlight`; `snap` is what `claimDue` or `listFiring` returned to the tick, and
  `tick.now` the one clock reading of the batch.
* `undos` are undo turns between the read of the row and the write, `lastAction`
  the recorded cancel they undo.
* One action is the code from one await to the next. `OnTimer` includes the claim,
  `Complete` the plan and the compare-and-set, `EndTick` the re-arming in `track`.
* Calls that return without a write (LIMIT_REACHED, IN_FLIGHT, ALREADY_FINAL,
  NOT_FOUND, a stopped kill switch) are disabled rather than stuttering actions.
  The undo of a create is a cancel. `skipMissedOccurrence` of the domain module is
  not used by the dispatcher.
* The sink is modelled by its contract: SENT was transmitted, NOT_SENT was not,
  UNCERTAIN may have been. The clock never goes back and may advance between any
  two steps, so a process suspended anywhere is covered.
* A recurrence is the set of its instants: uneven gaps need no special case.
* `UndoRead` takes the clock when it reads the row. The code takes the turn's `now`, which
  `turn-handler-layer.ts:274` reads just before. The row must still have the version that an
  earlier turn's cancel left, so it is the same row at both moments.
* `Life` maps a row to what the owner sees: SCHEDULED and FIRING are active, a CANCELED row
  whose occurrence was never answered can still be taken back, everything else has ended.

### Runs

| Run | Instance | Shows |
|---|---|---|
| `reminder_safety` | two reminders, clock 0..3, batches of two, one retry, one crash or stop, storage may throw | `TypeOK`, `AtMostOnce`, `OutcomeIsTrue`, `TicksNeverOverlap`, `DeliverySpec` |
| `reminder_undo` | two undo turns, active limit 1, reminders enabled or not | `WithinActiveLimit`, `OnceEndsForGood`, `LegalTransitions` |
| `reminder_liveness` | fairness, one crash or stop | `NoStuckFiring`, `DueIsDispatched`, `FiringIsSettled` |

Bounds. Two reminders are enough for a batch with a "later" member, for ordering
ties and for the active limit; two occurrences within the clock bound and one
beyond it exercise catch-up, skipping and advancing; one retry exercises both
sides of the limit; two attempt ids let a stale token meet a newer claim; one
halt at any point covers crash, clean stop and forced stop, and the state after it
is again a start state. Deadlock is not checked where the bounded clock stops the
system; it is checked in the liveness run, where the process always has a step.

Fairness. `WF_vars(Progress)`: the steps of the process itself are eventually
taken. launchd restarts the process, SQLite calls return, and the sink bounds each
delivery by its timeouts. Nothing is assumed of the owner, the clock, crashes or
shutdowns.

### Proofs

`ReminderProofs` proves, for every set of reminders, every recurrence, every retry
limit, batch limit and any number of halts, turns and storage errors:

* `InvHolds`: the inductive invariant `Inv`;
* `TypeCorrect`: `TypeOK`;
* `AtMostOnceHolds`: `AtMostOnce`;
* `TicksNeverOverlapHolds`: `TicksNeverOverlap`, which is inductive as it stands.

`AtMostOnce` is not inductive: a row, a batch in flight or a pending undo could
hold an occurrence that was already sent. `Inv` says that whatever may still be
sent lies strictly above everything sent: `HistoryInv` for the history itself,
`RowsInv` for every scheduled row (for FIRING rows the claimed occurrence may equal
the last one sent, which is why recovery must not send it), `TickInv` for the batch
(snapshot and table agree under the token of the claim, and the reminder being
delivered is not yet sent), `UndoInv` for the rows that pending undos would write.
There is one lemma per action. The assumptions are those named in
`ReminderDomain` and `ReminderSystem`; the essential one is that a recurrence
always has a next occurrence and a latest past one.

`ReminderTableProofs` builds on `Inv` and proves the rest of the runs' safety properties,
under the same assumptions. `RowStep` first reduces every step of every actor to the few
ways a row can move (created, cancelled, claimed, settled, undone), so that
`LegalTransitionsHolds` is about those alone.

* `OutcomeIsTrueHolds` and `OnceEndsForGoodHolds` rest on `OutcomeInv`: recorded outcomes
  follow the history, and a row version that an undo may still find (the recorded last
  action, an undo turn past its read) was never followed by a delivery or an end. Without
  the second part an old undo could set a finished one-time reminder back.
* `WithinActiveLimitHolds` needs only that the active rows are a finite set that grows
  where the limit is tested (`LimitInv`).
* `DeliveryRefined`, that `ReminderSystem` implements `OccurrenceDelivery`, needs `RowStep`
  for the life of a reminder and the agreement of tick and table in `TickInv` for the send:
  what is being delivered is FIRING under the token of the claim, so nobody can have
  canceled it since, and its occurrence has come.
* `NoStuckFiringHolds` rests on `FiringInv`: while the driver starts or runs, every FIRING
  row is in the hand of the tick or the recovery in flight, under the token of that claim,
  so the compare-and-set that settles it cannot miss.

Only model-checked: the liveness properties `DueIsDispatched` and `FiringIsSettled`.

## Keyed mutex and session row

`KeyedMutex` is `util/keyed-mutex.ts`, the lock under every session, approval and
actor-metadata write. A call of `run` is a member of `Calls`; `queues[k]` is the map
entry of key `k` (the tail a new call waits for), `prev` the tail a call waits for,
`active` the set of live holds, `under` the hold a re-entrant call came with. `issued`
and `number` are history: who came when. The actions are `RunQueued` and `RunNested`
(the two branches of `run`), `Enter` (the previous tail settled), `Leave` and
`LeaveNested` (the work resolved or rejected), `Settle` (the tail settles) and `Drop`
(the entry is removed if it is still this tail). `FifoMutex` is the promise: callers of
a key enter one at a time in arrival order. The mutex cannot enforce one thing, and the
model assumes it of callers, because all of them do it: a holder awaits the calls it
makes with its hold, one at a time, and before its own work ends. A hold that is used
later than that is modelled; it queues like any other call.

`SessionWrites` composes the mutex with the Session row and its writers
(`session-write-lock.ts`, `session-manager.ts`): every turn has a copy of the row from
its start (`mine`), queues, re-reads the row inside the lock (`live`) and saves its own
fields onto it. Reading and saving are separate steps. `close` saves the caller's whole
copy, as its contract says, so `NoLostUpdate` makes no claim about the fields a close
overwrites. A field holds the call that wrote it last, so that any lost write shows.

| Run | Instance | Shows |
|---|---|---|
| `keyed_mutex` | four calls, two keys, fair | `MutualExclusion`, `NoLeak` (a drained key keeps no entry), `FifoSpec` (refinement of `FifoMutex`), `EveryCallEnters` |
| `session_writes` | three writers, one session | `NoLostUpdate`, `ClosedForGood`, `PointerTakenOnlyByOwner` |
| `session_reanchor` | the same | a closed session is re-anchored: see Findings |

Bounds. Four calls are a holder, its nested call and two that queue behind it, which
covers a drop that races a new arrival on the same key, while the other key shows that
entries do not mix. Three writers are a holding section, a writer inside it and one
that waits with an old copy. Calls are used once, so both systems end; deadlock is
therefore not checked and `EveryCallEnters` takes its place. Fairness: promise
reactions run, and every work ends (its storage calls return); nothing is assumed of
when a call is made.

`KeyedMutexProofs` proves for any set of keys and calls: `MutexInvHolds` (the
inductive invariant), `MutualExclusionHolds`, `FifoRefined` (the mutex implements
`FifoMutex`) and `NoLeakHolds` (with `EntryInv`: an entry is never a dropped call). Mutual exclusion alone is not inductive. The invariant numbers the calls
of each key by arrival and says that the map entry is the newest call of its key, or
absent once all of them have been dropped; that a call waits for the one numbered just
before it, or came when nothing was left to wait for; that every call before one that
entered has been dropped; and that live holds are exactly the running calls. Of two
calls running at once the earlier one would have to be dropped already.

`SessionWritesProofs` proves the composition, for any number of sessions and writers:
`SessionUsesMutex` shows that every step of the writers is a step of the mutex or leaves it
alone, so that `MutexInv` holds of them, and `WriterInvHolds` that what a writer read inside
the lock is still the row when it saves. The latter needs that re-entrant writers run one at
a time, under a section that does not write itself. `NoLostUpdateHolds`,
`ClosedForGoodHolds` and `PointerTakenOnlyByOwnerHolds` follow step by step. What stays with
TLC is `EveryCallEnters` and the violated `ClosedNeverReanchored`.

## Connector writes

`ConnectorWrite` composes the flow (`connector-write-flow.ts`), the executor, the
receipt table, the decision service and the start of a chat turn, for one session. A
write `w` is its approval row, its anchor task and its receipt, which the code ties
together with ids. Chat turns and operations-UI requests are `Turns`; `turn[t]` holds
what the running function has in its local variables (its copy of the session pointer,
its copy of the anchor, its clock reading).

* One action is the code from one await to the next. Where a lock that the turn holds
  guards what it reads and writes, the read and the write are one action.
* The approval lock and the session write lock appear as their holders;
  `KeyedMutexProofs` justifies that. Every section takes the approval lock first
  (`exclusive`) and hands its session hold to the writers it calls
  (`MayEnterSession`).
* A turn goes `Receive`, `ReleaseExpired`, `Find`, `FindApproval`, `Route`; the UI
  enters at `ReceiveUi` and locates its anchor under the locks (`Peek`, `LocateUi`).
  `Decide`, `Expire`, `Revoke` and `Claim` are the decisions inside the section.
* `Consume` to `ReturnPointer` are `execute` and `executeOnce` after the claim;
  `DisplacedPointer` to `Withdraw` are `propose` and `createAnchor`. `CloseSave` and
  `RestorePointer` are `close`, from wherever it is called; `next` says where it
  returns to.
* An expired and a denied approval are both REJECTED. The re-check of binding and
  allow-list at the claim is a free choice to close. `sent` is a history variable. A
  write whose outcome is UNCERTAIN may or may not have reached the service.
* `new` and `Unused` bound the ids; the bounds on turns, on crashes and storage errors
  together (`MaxFaults`) and on the clock are the `Max` constants.
* Awaits on SQLite complete within one drain of the microtask queue, so some of the
  interleavings are hard to time in the running process. The model allows them all:
  nothing in the flow relies on that timing.

Left out: the choice of a target (AWAITING_CHOICE), the kill switch and the undo of a
write, session reset while a write is open, other sessions, and the deduplication of
equal payloads.

| Run | Instance | Shows |
|---|---|---|
| `connector_writes` | two writes, two turns at once of four in all, one crash or storage error, TTL 1, clock 0..1, fair | `AtMostOneSend`, `SentOnlyApproved`, `OutcomeIsTrue`, `PointerKept`, `ClosedReleasesPointer`, `EveryTurnEnds` |
| `connector_orphan` | two turns that propose at once | a pending approval is left unreachable: see Findings |

Bounds. One write needs three turns (propose, approve, execute); four let a second
request displace the first, or a withdrawal, a UI decision or a second execution race
it. Two turns at once are enough for every race between two copies of an anchor. TTL 1
and clock 1 put expiry of the approval or lapse of the grant at any point. The session
points at another flow's task before the first request; the proofs cover a session that
points at nothing, and any number of faults. Turns are bounded, so the system ends:
deadlock is not checked and `EveryTurnEnds` is.

Fairness. `WF_vars(Step(t))` for every turn: storage and promise reactions return and
each writer bounds its call by a timeout. Failures, crashes, new turns and the clock
are not fair. Weak fairness of a turn that waits for a lock is enough in this instance
because only finitely many others can take it; in general the queue of `KeyedMutex`
gives it.

`ConnectorWriteProofs` proves `TypeOK` and the five invariants of that run for any
number of writes, turns, crashes and errors, any lifetime and any clock, from
`ConnectorAssumption` alone. None of them is inductive. `ConnectorInv` has three parts:

* `KnownInv`: the rows of a write fit together, a turn at a given place knows what the place
  requires, whoever is in a section holds the session lock, and no two turns create the same
  write;
* `SendInv`: before its claim nothing of a write was executed, at most one turn executes it,
  and what that turn is about to record is true. It carries `AtMostOneSend`,
  `SentOnlyApproved` and `OutcomeIsTrue`: a stale copy of an anchor does not pass the claim,
  because the claim re-reads the row under the approval lock;
* `CloseInv`: as long as nothing failed, only a turn that is about to move the pointer leaves
  it on a closed anchor. It carries `ClosedReleasesPointer`.

`EveryTurnEnds` and the violated `NoUnreachableApproval` stay with TLC.

## The code-change chain

`CodeChangeChain` follows one conversation from a shown preview to a cleaned-up remote
branch: apply, commit, push, pull request, merge and remote cleanup each have a request
turn, a decision and an execution turn of their own; patching, validating, synchronising
main and deleting the local branch need no approval of their own but the ones before them.

* The progress is one anchor, which the session's pointer leads to. `ApplyAsked` to
  `CleanupAsked`, `ApplyDecided` to `CleanupDecided` and `PatchStep` to `CleanupStep` hold,
  one per handler, what that handler starts from, where it moves the anchor and which
  request it re-reads; `Request`, `RecordDecision`, `Check` and `Act` are what the handlers
  have in common. The text guards of the routing decide which handler runs and are a free
  choice; a refused reply of any kind is `GiveUp`.
* A turn copies the anchor when it starts (`snap`) and builds the next one from the copy
  (`next`). The anchor is written without comparison (`WriteAnchor`), so of two overlapping
  turns the later one wins; only `Discard` and a rejected apply compare before they clear.
* A decision re-reads the request inside the locks (`freshPending`), records it and then
  moves the anchor: two steps, `RecordDecision` and `AnchorDecision`. A reset denies the
  request and then closes the session: `ResetDeny` and `ResetClose`. Between the two writes
  the process may die (`Crash`), or the second one may throw, of the task, the session
  pointer or the session (`StoreFails`), which releases the locks and ends the turn. `torn`
  is history: the requests whose decision was never followed. Chat decides on its copy, the operations UI locates the live anchor. `LATE`
  is a request whose lifetime ran out: it can still be denied, never approved.
* Git, workspace and hosting provider are external. `acted[s]` counts the mutations of step
  `s`; `Dirty` to `ChangeApplied` are the managers' own checks against them, `Reuses` their
  idempotent answers, `ActFails` a call that throws before or after the mutation.
  `mergeCommit` is kept because an `alreadyMerged` answer has none and the synchronisation
  of main is then refused.
* `ReleasePr` is the execution turn of a pull request whose approved title and body no longer
  match their hash: the anchor steps back to GIT_PUSHED and forgets the request.
* The WorkspaceChange row (`change`) is written before and after the patch is applied, for a
  single update or for a change set. A write that fails may have changed the workspace: the
  row is then PARTIALLY_APPLIED, or stays APPLYING when the writer throws, and only a row
  known to be unchanged is tried again (`Retryable`).

| Run | Instance | Shows |
|---|---|---|
| `chain_safety` | two turns at once and the UI, six requests, one overlap, one crash, one failing call or save | `TypeOK`, `EveryMutationGranted`, `OneDecision`, `StrandedOnlyByLostWrite` |

Bounds. Six requests are one for each gate on the way to the end; a shorter way leaves some
to ask again after a denial, an expiry, a lost race or a step back. Two turns and the UI are three deciders for one
request. One overlap is a pair of turns with copies of the same anchor, or one turn that
sleeps over any number of others; one crash and one failing call or save may fall on any step.
Requests are bounded, so the system ends and deadlock is not checked.

`EveryMutationGranted` is the point of the chain: a mutation implies an APPROVED request of
every gate on the way to it, although a step re-reads only its own. `StrandedOnlyByLostWrite`
says when an open conversation waits for a request that is already decided: only when the
write that follows that very decision, the anchor or the close of a reset, was lost to a
crash or to a storage error. No race of turns, UI, clock and reset gets there without one. A
further reset is the way out.

`CodeChangeChainProofs` proves all four, for any number of turns, requests, overlaps,
crashes and failing calls, from `ChainAssumption` alone. `ChainInv` carries
`EveryMutationGranted`: every anchor, live or copied by a turn, has all the gates behind its
status approved, and a waiting one names a request of its own gate, so whichever copy a late
write restores it claims no more than was granted. `StrandInv` carries
`StrandedOnlyByLostWrite`: the request of a waiting anchor that is not yet written is open and
nobody else's, no two anchors name one request, and a decided request stays anchored only
while its decision is being followed, or is in `torn`. `OneDecision` is a property of the steps.

Left out: how a preview comes about (planning, scope clarification, patch text), read-only
status turns, plan approvals and credential overrides, which precede the chain, and the
kill switch of the merge stage (it only refuses).

## Instance lock

`InstanceLock` is `apps/quoky/src/ops/instance-lock.ts`, with every file-system call a step
of its own since the contenders are operating-system processes. `files` are the generation
files, the highest of which is the lock's state; `List`, `Read`, `Create`, `Verify`,
`Backoff` and `Collect` are the acquire loop, `Exit`, `ReadOwn`, `Mark` and
`CollectReleased` the release, `Unlink` one deletion of either clean-up. `ReadVanished` and
`ReadFails` are the two ways the read of the judged file gives no text: it is gone, or
`readOrUndefined` dropped an error; both cost the round. `Crash` ends a process anywhere,
which is also what any other throwing call of the acquire loop does; `Reboot` ends all of them, may
lose or tear unsynced files and changes the boot id. Process numbers are reused, by the
program itself and, as a fault, by unrelated programs; the code then refuses the start,
which is the safe side. `beaten` is history: who has seen a new generation since its
listing.

A listing of the few files is one directory read. A file system on which a listing can miss
both a file that is being removed and one created meanwhile is outside the model. A starter
can be refused by an owner that is in its exit handler; launchd starts it again.

| Run | Instance | Shows |
|---|---|---|
| `instance_lock` | three starts, two process numbers, two rounds, one fault, one reboot, fair | `TypeOK`, `OneOwner`, `TopNeverRemoved`, `LostRoundMeansProgress`, `SomeoneStarts` |

Bounds. Three starts are an owner that ends, one that takes over and one that sleeps
between its judgement and its create, the case the second listing is for. Two process
numbers make the third start reuse one. Every process ends and is not started again, so
deadlock is not checked. Fairness: a live process makes its next file-system call
(`WF_vars(Step(p))`); starting, exiting and faults are free.

`InstanceLockProofs` proves `TypeOK`, `OneOwner`, `TopNeverRemoved` and `LostRoundMeansProgress` for
any number of starts, numbers, rounds, faults and reboots, from the inductive invariant
`LockInv`. `OneOwner` alone is not inductive. `FileInv` says an owner's file is there and
is the highest, `RemovalInv` that whatever a listing marked for removal has a higher file
above it, so clean-ups never touch the top however old their listing; `JudgedInv` that the
judged generation or a higher one is still there; and `FreeInv`, the heart of it, that a
starter about to create the generation after a live process's one is already overtaken by
a higher file, so that its verification fails. `NewsInv` keeps a listing true for as long
as nobody created anything, which gives `LostRoundMeansProgress`. That property allows one
loss of a round without a contender, a failed read of a file that is there (see Findings).
The only assumption is
`LockAssumption`.

## Telegram polling

`TelegramPolling` is the inbound side of the Telegram adapter and its offset file against
the Bot API's queue. `getUpdates(offset)` deletes what lies below the offset; what it
returns stays until a later call names a higher one.

* `mem` are the adapter's fields, `group` the album held back, `file` the offset file,
  `run[r]` the loop of the r-th `start()` with the abort signal `aborted`. `stop()` gives up
  on a loop that still fetches files, so an old loop may run beside a new one.
* `PollStart`, `Answer`, `TooLarge`, `PollFails` and `PollEnds` are `poll`; `HandleNext` is
  one entry of `handleBatch`, in its cases `SkipRepeated`, `CollectPart`, `FlushFirst`,
  `HandText`, `FetchFiles` and `Drop`; `IntakeDone` is `handOver` after the download;
  `EndBatch` the flush at the end. The call of the handler (`HandText`, `IntakeDone`) and
  the move of the offset with its save (`Advance`) are two steps, with a crash or a stop
  possible between them; a run in between is at "handed".
* `LoadOffset` uses the file unless it is more than a day old, or, as a fault, missing,
  unreadable, corrupt, of another bot or version, or from the future. `Persist` may fail.
* `Arrive`, `Confirmed`, `Batches`, `Silence` and `Renumber` are the server as the adapter
  uses it: a day without updates makes what it holds expire, and after `Week` silent days it
  may number from a lower value. A restarted numbering never meets an old id in the model;
  the code's skip of an update whose id happens to equal a saved offset is left out.
* An update is a text, a file, an album part, something that is not admitted, or too large
  to fetch. The halving of the limit after a too-large answer is `single`.

| Run | Instance | Shows |
|---|---|---|
| `telegram_polling` | an album part and an update of every kind, two runs, one lost answer, failed save or unusable file, one crash, a silent day (`Week` 1) anywhere, fair | `TypeOK`, `NothingLost`, `AtMostOnce`, `InOrder`, `Delivered` |
| `telegram_stale_offset` | the same without faults | an offset older than a day deletes an update nobody has seen: see Findings |

Bounds. Two updates are an album of two parts, or a message behind an album, a file or an
oversized update; two runs are a restart in the same or in a new process. The first update is
an album part: it takes the longest way to the runtime, and once it has expired or was handed
over the second one, of any kind, is alone. `Week` 1 lets the server restart its numbering
after one silent day; the adapter does not tell one such day from seven. `InPlay` stops the
server when no run is left to look.

The two exceptions in the properties are history variables:

* `forgotten` (of `AtMostOnce`): handed over, and a later run cannot know. The process died
  between the hand-over and the move of the offset, the save failed, or the file could not be
  used at a later start.
* `swallowed` (of `NothingLost`): deleted by an offset of an earlier numbering after an
  `outage`, a silent day that fell where `poll()` does not measure silence. That is any day on
  which the process is up and its loop is not between two polls with no album held: an
  identity check that keeps failing, a stopped adapter, a suspended call, a batch or an album
  in hand. A restart of the numbering, or a new `start()`, between the silent day and the
  next poll counts as well.

Fairness. Each loop goes on (`WF_vars(Loop(r))`: calls, sleeps and downloads are bounded by
timeouts), the identity gate resolves and a stop runs to its end. `Delivered` is stated
while polling goes on (`Serving`): an oversized update with no offset known cannot be
skipped and blocks polling until it expires.

`TelegramPollingProofs` proves `TypeOK`, `AtMostOnce`, `InOrder` and `NothingLost` for any
number of updates, runs, crashes, faults and silent days, any album size and any number of
rounds, wherever the silent days, crashes and failing saves fall.

The only assumption is `TelegramAssumption`; that `Week` is at least one day keeps the server
from restarting its numbering while updates are coming in. The argument has two layers.
`RunInv` says what runs, album and process may look like: an aborted run can only be fetching
files, and every stage holds only what belongs to it. `StepCases` then describes every step by
what it does to the one run that may still hand updates over (`LiveStep`), and the other
invariants are proved over these descriptions. `IdInv`: ids grow in the order of sending, apart
from one restart, and a restarted numbering never reaches the old ids. `HeldInv`: the batch
lies at or above the offset and after what is being fetched. `OffsetInv`: both offsets are in
range, the file holds what was saved last, and a file older than a day is past nothing that
the server still has. On these rest

* `OnceInv`: both offsets are past everything that was handed over, is not `forgotten` and is
  still on the server, and nothing in hand is such an update. The delicate case is a save that is skipped
  because the offset equals the last saved one: only `OffsetInv` tells that the file is then
  not stale;
* `OrderInv`: whatever is open, on the server and sent before something in hand is in hand as
  well, so nothing can be left behind a later update;
* `LossInv`: what is pending is on the server, and an offset of the present numbering has not
  passed it (`PendingKept`); as long as there was no `outage` neither offset is of an earlier
  numbering, and on a silent day nothing is in hand and both offsets are given up
  (`Watched`). So only an old offset after an outage can delete something pending, and that
  is what `swallowed` records.

`Delivered` stays with TLC.


## Findings

* `session_reanchor`: `saveFields` re-reads the live row but not its status, so a turn
  that opened the session before a reset anchors the closed row afterwards. The comment
  on `SessionManager.close` says a closed session is never re-anchored.
* `connector_orphan`: `displacedPointer` closes an approved grant it supersedes but not
  a pending one. Of two turns that looked before either had proposed, the second takes
  the pointer and the first approval stays PENDING with nothing pointing at it.
  `propose` means never to leave an unreachable pending approval behind.

* `telegram_stale_offset`: `start()` loads the stored offset once, before the identity check,
  or keeps the one of a stopped adapter, and `poll()` measures silence from its own start.
  After an identity outage or a stop of more than a day the loop polls with an offset that is
  older than a day, and if the server restarted its numbering meanwhile, new updates are
  deleted unseen. The comment on `TELEGRAM_OFFSET_MAX_AGE_MS` says such an offset is never
  used.

Smaller differences between comment and code that have no run of their own:

* `readOrUndefined` (`instance-lock.ts:302`) drops every error, so a lock file that is there
  and stays unreadable costs a starter all its rounds, and it refuses with no other process
  there. The comment on `MAX_ROUNDS` says every extra round is caused by a concurrent starter
  making progress; `LostRoundMeansProgress` names the exception.
* "the turn is never handed over twice" (`telegram-platform-adapter.ts:802`) does not hold of
  what `forgotten` collects; `AtMostOnce` names the exception.

* `dispatchDue` reads the clock once per batch, so the later reminders of a batch are
  measured against an old `now`; `domain/reminder.ts:136` says a recurring occurrence
  older than the grace *when it is dispatched* is never sent.
* The reconciliation of old receipts is retried after a failure
  (`connector-write-flow.ts:1576`), possibly over the receipt of a write that is being
  sent at that moment. Its receipt becomes UNCERTAIN and the outcome SENT is not recorded
  on it, although the executor says it was. `OutcomeIsTrue` still holds: UNCERTAIN claims
  nothing.

## What is proved and what is only model-checked

| Result | Any instance (TLAPS) | Small instance (TLC) |
|---|---|---|
| Reminders: `TypeOK`, `AtMostOnce`, `TicksNeverOverlap`, `DeliverySpec` | yes | yes |
| Reminders: `OutcomeIsTrue`, `OnceEndsForGood`, `LegalTransitions`, `WithinActiveLimit`, `NoStuckFiring` | yes | yes |
| Keyed mutex: `MutualExclusion`, `NoLeak`, `FifoSpec` | yes | yes |
| Session row: `NoLostUpdate`, `ClosedForGood`, `PointerTakenOnlyByOwner` | yes | yes |
| Connector writes: `TypeOK`, `AtMostOneSend`, `SentOnlyApproved`, `OutcomeIsTrue`, `PointerKept`, `ClosedReleasesPointer` | yes (`TypeOK` only here) | yes |
| Instance lock: `OneOwner`, `TopNeverRemoved`, `LostRoundMeansProgress`, `TypeOK` | yes | yes |
| Code-change chain: `TypeOK`, `EveryMutationGranted`, `OneDecision`, `StrandedOnlyByLostWrite` | yes | yes |
| Telegram polling: `TypeOK`, `AtMostOnce`, `InOrder`, `NothingLost` | yes | yes |
| Every liveness property | | yes |

The prover has no rule for fairness or ENABLED, so liveness stays with TLC. Every safety
property that a passing run checks is also proved.

## Not modelled

* Text: the reminder grammar, natural-language routing and selection, response composition,
  listings and previews are pure transformations of strings; the models replace them by a
  free choice of what the owner asked.
* I/O without state of its own: AI providers, read connectors, the command, workspace and
  MCP tools, rendering and sending of the chat adapters, the operations UI's pages.
* Row mapping and migrations of the SQLite store; its transactions are the atomic steps.
* Work items and handoffs, the execution orchestrator, continuation and local continuity,
  provider dispatch and selection, agent runs, memory, the backup job, egress budget and
  ledger, actor metadata: they have state and are open (see the plan).

## Plan

1. Owner reminders: done (model, runs, theorems).
2. Keyed mutex and session row: done (model, runs, theorems).
3. Connector writes: the core is done (model, runs, theorems). To come: the kill switch with
   the actor-metadata lock, the choice of a target, reset of the session, undo.
4. Code-change chain: done (model, run, theorems). Plan approvals, credential overrides
   and the creation of a preview are open.
5. Instance lock: done (model, run, theorems). Telegram polling: done for the inbound side
   (model, run, theorems).
6. Notification sink fallback, egress budget, backup job, surface grants and actor
   metadata, provider dispatch commit, agent run bounds, memory removal.
