--------------------------- MODULE ReminderSystem ---------------------------
(***************************************************************************)
(* Owner reminders end to end: the SQLite repository                       *)
(* (packages/storage-sqlite/src/reminder-repository.ts), the dispatcher    *)
(* (packages/core/.../reminder-dispatch-service.ts), the tick driver       *)
(* (apps/quoky/src/reminders/reminder-tick-driver.ts) and the owner's      *)
(* create, cancel and undo turns (reminder-conversation-service.ts), in a  *)
(* process that may crash or be stopped at any point and is started again. *)
(*                                                                         *)
(* A repository operation is one IMMEDIATE transaction, and JavaScript     *)
(* runs without preemption between two awaits: each action below is the    *)
(* code from one await to the next.                                        *)
(***************************************************************************)
EXTENDS ReminderDomain, Sequences

CONSTANTS
  Turns,          \* concurrent chat turns that may each carry an undo
  MaxHalts,       \* bound on crashes and shutdowns
  EnabledChoices, \* values QUOKY_REMINDERS_ENABLED may have at a start
  StoreMayFail    \* whether a repository call may throw (REMINDER_STORAGE_BUSY)

ASSUME SystemAssumption ==
  MaxHalts \in Nat /\ EnabledChoices \subseteq BOOLEAN /\ StoreMayFail \in BOOLEAN

VARIABLES
  clock,       \* wall-clock time, never set back
  rows,        \* the reminders table
  sent,        \* history: the occurrences of each reminder that were transmitted
  proc,        \* "up" or "down"
  enabled,     \* QUOKY_REMINDERS_ENABLED of this process
  driver,      \* ReminderTickDriver.stateValue
  timer,       \* whether the tick timer is armed
  tick,        \* the recovery or tick in flight (ReminderTickDriver.inFlight)
  snap,        \* the rows listFiring/claimDue returned to it
  lastAction,  \* the owner's last cancel: the row and its version
  undos,       \* undo turns between their read and their write
  halts        \* crashes and shutdowns so far

vars == <<clock, rows, sent, proc, enabled, driver, timer, tick, snap, lastAction, undos, halts>>

storeVars == <<rows, sent>>
procVars == <<proc, enabled, driver, timer, tick, snap, halts>>
ownerVars == <<lastAction, undos>>

IdleTick ==
  [pc |-> "idle", now |-> 0, attempt |-> NoAttempt, todo |-> {}, cur |-> 0, occ |-> Absent,
   result |-> "NONE", gone |-> FALSE]

NoAction == [id |-> 0, ver |-> Absent]
NoUndo == [id |-> 0, ver |-> Absent, row |-> NoReminder]

DriverState == {"IDLE", "DISABLED", "STARTING", "RUNNING", "STOPPED", "STOP_FORCED"}

Init ==
  /\ clock = 0
  /\ rows = [r \in Ids |-> NoReminder]
  /\ sent = [r \in Ids |-> <<>>]
  /\ proc = "down"
  /\ enabled = FALSE
  /\ driver = "IDLE"
  /\ timer = FALSE
  /\ tick = IdleTick
  /\ snap = [r \in Ids |-> NoReminder]
  /\ lastAction = NoAction
  /\ undos = [t \in Turns |-> NoUndo]
  /\ halts = 0

AdvanceClock ==
  /\ clock < MaxTime
  /\ clock' = clock + 1
  /\ UNCHANGED <<storeVars, procVars, ownerVars>>

----------------------------------------------------------------------------
(* The owner's turns.  They need a running process with reminders enabled. *)

OwnerTurn == proc = "up" /\ enabled

ActiveRows == {r \in Ids : rows[r].status \in ActiveStatus}

BelowLimit == Cardinality(ActiveRows) < MaxActive

\* createWithinLimit: below the limit, the next display number is given out.
Create(r, recurring, event, at) ==
  /\ OwnerTurn
  /\ rows[r].status = "NONE"
  /\ \A q \in Ids : q < r => rows[q].status # "NONE"
  /\ BelowLimit
  /\ IF recurring THEN ~event /\ IsNext(at, clock) /\ at \in Occurrences
                  ELSE at >= clock + MinLead
  /\ rows' = [rows EXCEPT ![r] = Draft(recurring, event, at, clock)]
  /\ UNCHANGED <<clock, sent, procVars, ownerVars>>

\* A plausible bug: anything not yet canceled can be canceled.
CancelAnything(r) ==
  /\ OwnerTurn
  /\ rows[r].status \notin {"NONE", "CANCELED"}
  /\ rows' = [rows EXCEPT ![r] = CancelReminder(rows[r], clock)]
  /\ lastAction' = [id |-> r, ver |-> clock]
  /\ UNCHANGED <<clock, sent, procVars, undos>>

\* cancel: only a SCHEDULED row; FIRING answers IN_FLIGHT and a final one ALREADY_FINAL.
Cancel(r) ==
  /\ OwnerTurn
  /\ rows[r].status = "SCHEDULED"
  /\ rows' = [rows EXCEPT ![r] = CancelReminder(rows[r], clock)]
  /\ lastAction' = [id |-> r, ver |-> clock]
  /\ UNCHANGED <<clock, sent, procVars, undos>>

\* actionUndo up to the await of the calendar re-check or of the repository: the row is read,
\* compared with the version recorded at the cancel, and its reactivated form is computed.  The
\* turn's `now' was read by TurnHandlerLayer when it built the handler's input, with nothing but
\* this row's read in between.
UndoRead(t, at) ==
  LET r == lastAction.id IN
  /\ OwnerTurn
  /\ undos[t] = NoUndo
  /\ r # 0
  /\ rows[r].status = "CANCELED" /\ rows[r].ver = lastAction.ver
  /\ IF rows[r].recurring THEN at \in Occurrences /\ IsNext(at, clock)
     ELSE /\ at >= clock + MinLead
          /\ rows[r].event => at = rows[r].at   \* an event-relative one only at its own time
  /\ undos' = [undos EXCEPT ![t] =
                 [id |-> r, ver |-> lastAction.ver,
                  row |-> ReactivateReminder(rows[r], clock, at)]]
  /\ UNCHANGED <<clock, storeVars, procVars, lastAction>>

\* A plausible bug: the compare-and-set of the undo compares the status only.
ReactivateAnyVersion(t) ==
  LET u == undos[t] IN
  /\ OwnerTurn
  /\ u # NoUndo
  /\ undos' = [undos EXCEPT ![t] = NoUndo]
  /\ IF rows[u.id].status = "CANCELED" /\ BelowLimit
     THEN /\ rows' = [rows EXCEPT ![u.id] = u.row]
          /\ lastAction' = NoAction
     ELSE UNCHANGED <<rows, lastAction>>
  /\ UNCHANGED <<clock, sent, procVars>>

\* A plausible bug: the undo does not count the active reminders again.
ReactivateOverLimit(t) ==
  LET u == undos[t] IN
  /\ OwnerTurn
  /\ u # NoUndo
  /\ undos' = [undos EXCEPT ![t] = NoUndo]
  /\ IF rows[u.id].status = "CANCELED" /\ rows[u.id].ver = u.ver
     THEN /\ rows' = [rows EXCEPT ![u.id] = u.row]
          /\ lastAction' = NoAction
     ELSE UNCHANGED <<rows, lastAction>>
  /\ UNCHANGED <<clock, sent, procVars>>

\* reactivate: one transaction, compare-and-set on CANCELED and the version, within the limit.
\* CHANGED, LIMIT_REACHED and a re-check that no longer finds the event leave everything as it is.
Reactivate(t) ==
  LET u == undos[t] IN
  /\ OwnerTurn
  /\ u # NoUndo
  /\ undos' = [undos EXCEPT ![t] = NoUndo]
  /\ IF rows[u.id].status = "CANCELED" /\ rows[u.id].ver = u.ver /\ BelowLimit
     THEN /\ rows' = [rows EXCEPT ![u.id] = u.row]
          /\ lastAction' = NoAction
     ELSE UNCHANGED <<rows, lastAction>>
  /\ UNCHANGED <<clock, sent, procVars>>

\* The undo turn ends without a write (the event moved, is gone or is unreadable).
UndoRefused(t) ==
  /\ OwnerTurn
  /\ undos[t].row.event
  /\ undos' = [undos EXCEPT ![t] = NoUndo]
  /\ UNCHANGED <<clock, storeVars, procVars, lastAction>>

----------------------------------------------------------------------------
(* The repository calls of the dispatcher. *)

\* completeFiring: the compare-and-set on FIRING and the attempt id, else CONFLICT.
CompleteFiring(r, attemptId, plan) ==
  rows' = IF rows[r].status = "FIRING" /\ rows[r].token = attemptId
          THEN [rows EXCEPT ![r] = ApplyFiringCompletion(rows[r], plan)]
          ELSE rows

\* A repository call that throws writes nothing; the row stays as it is.
CompleteOrThrow(r, attemptId, plan) ==
  \/ CompleteFiring(r, attemptId, plan)
  \/ StoreMayFail /\ rows' = rows

\* ORDER BY next_fire_at ASC, id ASC; ids are random, so a tie may go either way.
Before(f, q, r) == f[q].fireAt <= f[r].fireAt

IsFirst(r) == r \in tick.todo /\ \A q \in tick.todo : Before(snap, r, q)

\* What is due is claimed in order, at most TickLimit rows.
DueRows == {r \in Ids : rows[r].status = "SCHEDULED" /\ rows[r].fireAt <= clock}

IsBatch(S) ==
  /\ Cardinality(S) <= TickLimit
  /\ \A q \in DueRows \ S : Cardinality(S) = TickLimit /\ \A r \in S : Before(rows, r, q)

----------------------------------------------------------------------------
(* The tick driver. *)

Stopping == driver \in {"STOPPED", "STOP_FORCED"}

Boot(e) ==
  /\ proc = "down"
  /\ proc' = "up"
  /\ enabled' = e
  /\ UNCHANGED <<clock, storeVars, driver, timer, tick, snap, halts, ownerVars>>

\* start() with reminders disabled: no recovery, no timer.
StartDisabled ==
  /\ proc = "up" /\ driver = "IDLE" /\ ~enabled
  /\ driver' = "DISABLED"
  /\ UNCHANGED <<clock, storeVars, proc, enabled, timer, tick, snap, halts, ownerVars>>

\* A plausible bug: the chain is armed at once, nothing is recovered.
StartUnrecovered ==
  /\ proc = "up" /\ driver = "IDLE" /\ enabled
  /\ driver' = "RUNNING"
  /\ timer' = TRUE
  /\ UNCHANGED <<clock, storeVars, proc, enabled, tick, snap, halts, ownerVars>>

\* start(): recovery lists the FIRING rows first (a failed list recovers nothing).
Start ==
  LET firing == {r \in Ids : rows[r].status = "FIRING"} IN
  /\ proc = "up" /\ driver = "IDLE" /\ enabled
  /\ driver' = "STARTING"
  /\ \E found \in {firing} \cup (IF StoreMayFail THEN {{}} ELSE {}) :
       /\ tick' = [IdleTick EXCEPT !.pc = "recovering", !.now = clock, !.todo = found]
       /\ snap' = [r \in Ids |-> IF r \in found THEN rows[r] ELSE NoReminder]
  /\ UNCHANGED <<clock, storeVars, proc, enabled, timer, halts, ownerVars>>

NextFrom(row, after) == NextOccurrenceAfter(LaterOf(after, row.occ))

\* A plausible bug: the interrupted reminder is put back instead of ending uncertain.
RequeueRecovered(row, now) ==
  [status |-> "SCHEDULED", at |-> Absent, occ |-> row.occ, fireAt |-> now,
   attempt |-> row.attempt, last |-> NoOutcome, ver |-> now]

\* recoverInterrupted: an interrupted row may have been delivered, so it ends UNCERTAIN unsent.
RecoveryPlan(row, now) ==
  PlanFiringCompletion(row, "UNCERTAIN", row.occ, NextFrom(row, now), now)

RecoverOne(r) ==
  /\ proc = "up" /\ tick.pc = "recovering" /\ IsFirst(r)
  /\ CompleteOrThrow(r, snap[r].token, RecoveryPlan(snap[r], tick.now))
  /\ tick' = [tick EXCEPT !.todo = @ \ {r}]
  /\ UNCHANGED <<clock, sent, proc, enabled, driver, timer, snap, halts, ownerVars>>

\* Recovery settled: the chain is armed unless stop() came first.
EndRecovery ==
  /\ proc = "up" /\ tick.pc = "recovering" /\ tick.todo = {}
  /\ tick' = IdleTick
  /\ snap' = [r \in Ids |-> NoReminder]
  /\ driver' = IF driver = "STARTING" THEN "RUNNING" ELSE driver
  /\ timer' = (driver = "STARTING")
  /\ UNCHANGED <<clock, storeVars, proc, enabled, halts, ownerVars>>

\* The claim of one tick, under a fresh attempt id.
ClaimDue(S, a) ==
  /\ rows' = [r \in Ids |-> IF r \in S THEN ClaimReminder(rows[r], a, clock) ELSE rows[r]]
  /\ snap' = [r \in Ids |-> IF r \in S THEN rows'[r] ELSE NoReminder]
  /\ tick' = [IdleTick EXCEPT !.pc = "loop", !.now = clock, !.attempt = a, !.todo = S]

\* A plausible bug: the chain re-arms when a tick starts instead of when it settles.
OnTimerArmed(S, a) ==
  /\ proc = "up" /\ timer /\ driver = "RUNNING"
  /\ \A r \in Ids : rows[r].token # a
  /\ S \subseteq DueRows /\ IsBatch(S)
  /\ ClaimDue(S, a)
  /\ UNCHANGED <<clock, sent, proc, enabled, driver, timer, halts, ownerVars>>

\* onTimer: one tick claims what is due.  (A claimDue that throws changes nothing: the tick ends
\* and the chain is armed again.)
OnTimer(S, a) ==
  /\ proc = "up" /\ timer /\ driver = "RUNNING"
  /\ \A r \in Ids : rows[r].token # a
  /\ S \subseteq DueRows /\ IsBatch(S)
  /\ timer' = FALSE
  /\ ClaimDue(S, a)
  /\ UNCHANGED <<clock, sent, proc, enabled, driver, halts, ownerVars>>

\* A plausible bug: the chain is armed again only by a tick that claimed nothing.
EndTickDisarmed ==
  /\ proc = "up" /\ tick.pc = "loop" /\ (tick.todo = {} \/ Stopping)
  /\ tick' = IdleTick
  /\ snap' = [r \in Ids |-> NoReminder]
  /\ timer' = (driver = "RUNNING" /\ \A r \in Ids : snap[r] = NoReminder)
  /\ UNCHANGED <<clock, storeVars, proc, enabled, driver, halts, ownerVars>>

\* The batch is done, or a stop was asked for: the unstarted rest stays FIRING.
EndTick ==
  /\ proc = "up" /\ tick.pc = "loop" /\ (tick.todo = {} \/ Stopping)
  /\ tick' = IdleTick
  /\ snap' = [r \in Ids |-> NoReminder]
  /\ timer' = (driver = "RUNNING")
  /\ UNCHANGED <<clock, storeVars, proc, enabled, driver, halts, ownerVars>>

\* stop(): disarms the chain; a tick in flight is awaited.
Stop ==
  /\ proc = "up" /\ ~Stopping /\ halts < MaxHalts
  /\ driver' = "STOPPED"
  /\ timer' = FALSE
  /\ halts' = halts + 1
  /\ UNCHANGED <<clock, storeVars, proc, enabled, tick, snap, ownerVars>>

\* The bounded wait of stop() elapsed with a tick still in flight.
StopTimeout ==
  /\ proc = "up" /\ driver = "STOPPED" /\ tick.pc # "idle"
  /\ driver' = "STOP_FORCED"
  /\ UNCHANGED <<clock, storeVars, proc, enabled, timer, tick, snap, halts, ownerVars>>

\* Everything but the database is lost with the process.
GoDown ==
  /\ proc' = "down" /\ enabled' = FALSE /\ driver' = "IDLE" /\ timer' = FALSE
  /\ tick' = IdleTick
  /\ snap' = [r \in Ids |-> NoReminder]
  /\ undos' = [t \in Turns |-> NoUndo]
  /\ UNCHANGED <<clock, storeVars, lastAction>>

\* The process exits once stop() returned.
Exit ==
  /\ proc = "up"
  /\ driver = "STOP_FORCED" \/ (driver = "STOPPED" /\ tick.pc = "idle")
  /\ GoDown
  /\ UNCHANGED halts

Crash ==
  /\ proc = "up" /\ ~Stopping /\ halts < MaxHalts
  /\ GoDown
  /\ halts' = halts + 1

----------------------------------------------------------------------------
(* The dispatcher: one reminder of the batch at a time. *)

BackToLoop ==
  [tick EXCEPT !.pc = "loop", !.cur = 0, !.occ = Absent, !.result = "NONE", !.gone = FALSE]

\* shouldContinue() is asked before each reminder of the batch.
Takes(r) == proc = "up" /\ tick.pc = "loop" /\ ~Stopping /\ IsFirst(r)

\* A recurring occurrence past the catch-up grace is skipped, never sent.
SkipMissed(r) ==
  /\ Takes(r)
  /\ Skips(snap[r], tick.now)
  /\ CompleteOrThrow(r, tick.attempt,
       PlanAdvance("SKIPPED_MISSED", DueOccurrence(snap[r].occ, tick.now),
                   NextOccurrenceAfter(tick.now), tick.now))
  /\ tick' = [tick EXCEPT !.todo = @ \ {r}]
  /\ UNCHANGED <<clock, sent, proc, enabled, driver, timer, snap, halts, ownerVars>>

\* An event-relative reminder re-reads its event first; any other is composed and sent.
StartOne(r) ==
  /\ Takes(r)
  /\ ~Skips(snap[r], tick.now)
  /\ tick' = [tick EXCEPT !.pc = IF snap[r].event THEN "rechecking" ELSE "delivering",
                          !.todo = @ \ {r}, !.cur = r,
                          !.occ = DeliveredOccurrence(snap[r], tick.now),
                          !.result = "NONE", !.gone = FALSE]
  /\ UNCHANGED <<clock, storeVars, proc, enabled, driver, timer, snap, halts, ownerVars>>

\* dispatchEventReminder: unchanged, moved earlier or unreadable is delivered; an event that is
\* gone or became all-day (gone) is answered by a note.
RecheckDelivers(gone) ==
  /\ proc = "up" /\ tick.pc = "rechecking"
  /\ tick' = [tick EXCEPT !.pc = "delivering", !.gone = gone]
  /\ UNCHANGED <<clock, storeVars, proc, enabled, driver, timer, snap, halts, ownerVars>>

\* The event moved later: the reminder moves with it, nothing is sent.
RecheckMovedLater(due) ==
  /\ proc = "up" /\ tick.pc = "rechecking"
  /\ due > tick.now /\ due # tick.occ
  /\ CompleteOrThrow(tick.cur, tick.attempt, PlanEventReschedule(due, tick.now))
  /\ tick' = BackToLoop
  /\ UNCHANGED <<clock, sent, proc, enabled, driver, timer, snap, halts, ownerVars>>

\* NotificationSink.deliver: SENT is a confirmed message, NOT_SENT a confirmed non-transmission,
\* UNCERTAIN (a thrown deliver too) may have been transmitted.
Transmitted(result) ==
  CASE result = "SENT" -> {TRUE} [] result = "UNCERTAIN" -> BOOLEAN [] OTHER -> {FALSE}

\* deliverOnce: the single send of this claim.
Deliver(result) ==
  /\ proc = "up" /\ tick.pc = "delivering"
  /\ \E t \in Transmitted(result) :
       sent' = IF t THEN [sent EXCEPT ![tick.cur] = Append(@, tick.occ)] ELSE sent
  /\ tick' = [tick EXCEPT !.pc = "delivered", !.result = result]
  /\ UNCHANGED <<clock, rows, proc, enabled, driver, timer, snap, halts, ownerVars>>

DeliveryPlan(row) ==
  IF tick.gone THEN PlanEventCanceled(row, tick.result, tick.now)
  ELSE PlanFiringCompletion(row, tick.result, tick.occ,
                            NextFrom(row, LaterOf(tick.now, tick.occ)), tick.now)

\* The outcome is recorded under the attempt id of the claim.
Complete ==
  /\ proc = "up" /\ tick.pc = "delivered"
  /\ CompleteOrThrow(tick.cur, tick.attempt, DeliveryPlan(snap[tick.cur]))
  /\ tick' = BackToLoop
  /\ UNCHANGED <<clock, sent, proc, enabled, driver, timer, snap, halts, ownerVars>>

----------------------------------------------------------------------------

Owner ==
  \/ \E r \in Ids, rec \in BOOLEAN, ev \in BOOLEAN, at \in Time \cup Occurrences :
       Create(r, rec, ev, at)
  \/ \E r \in Ids : Cancel(r)
  \/ \E t \in Turns, at \in Time \cup Occurrences : UndoRead(t, at)
  \/ \E t \in Turns : Reactivate(t)
  \/ \E t \in Turns : UndoRefused(t)

Lifecycle ==
  \/ \E e \in EnabledChoices : Boot(e)
  \/ Start \/ StartDisabled \/ EndRecovery \/ EndTick
  \/ \E r \in Ids : RecoverOne(r)
  \/ \E S \in SUBSET DueRows, a \in Attempts : OnTimer(S, a)
  \/ Stop \/ StopTimeout \/ Exit \/ Crash

Dispatch ==
  \/ \E r \in Ids : SkipMissed(r)
  \/ \E r \in Ids : StartOne(r)
  \/ \E gone \in BOOLEAN : RecheckDelivers(gone)
  \/ \E due \in Time : RecheckMovedLater(due)
  \/ \E result \in DeliveryResult : Deliver(result)
  \/ Complete

Next == AdvanceClock \/ Owner \/ Lifecycle \/ Dispatch

Spec == Init /\ [][Next]_vars

\* The process makes progress while it runs and is started again when it is down: launchd keeps it
\* alive, every repository call returns, and the sink bounds each delivery by its send timeout.
\* The owner, the clock, crashes and shutdowns may stay away.
Progress ==
  \/ \E e \in EnabledChoices : Boot(e)
  \/ Start \/ StartDisabled \/ EndRecovery \/ EndTick \/ Exit
  \/ \E r \in Ids : RecoverOne(r)
  \/ \E S \in SUBSET DueRows, a \in Attempts : OnTimer(S, a)
  \/ Dispatch

FairSpec == Spec /\ WF_vars(Progress)

----------------------------------------------------------------------------
(* Properties. *)

TickPc == {"idle", "recovering", "loop", "rechecking", "delivering", "delivered"}

Tick ==
  [pc : TickPc, now : Time, attempt : Attempts \cup {NoAttempt}, todo : SUBSET Ids,
   cur : Ids \cup {0}, occ : Instant, result : DeliveryResult \cup {"NONE"}, gone : BOOLEAN]

Action == [id : Ids \cup {0}, ver : Instant]
Undo == [id : Ids \cup {0}, ver : Instant, row : Reminder]

\* Type correctness of the whole state: the table, the tick in flight and the undo turns.
TypeOK ==
  /\ clock \in Time
  /\ rows \in [Ids -> Reminder]
  /\ sent \in [Ids -> Seq(Nat)]
  /\ proc \in {"up", "down"}
  /\ enabled \in BOOLEAN
  /\ driver \in DriverState
  /\ timer \in BOOLEAN
  /\ tick \in Tick
  /\ snap \in [Ids -> Reminder]
  /\ lastAction \in Action
  /\ undos \in [Turns -> Undo]
  /\ halts \in 0..MaxHalts

\* At most once per occurrence, never back to an earlier one, over retries, catch-up, undo,
\* crashes and recovery: the transmitted occurrences of a reminder strictly increase.
AtMostOnce ==
  \A r \in Ids : \A i, j \in 1..Len(sent[r]) : i < j => sent[r][i] < sent[r][j]

WasSent(r, o) == \E i \in 1..Len(sent[r]) : sent[r][i] = o

\* The outcome shown to the owner is true: SENT was transmitted, FAILED and SKIPPED_MISSED were
\* not (DELIVERY_UNCERTAIN promises nothing).
OutcomeIsTrue ==
  \A r \in Ids :
    /\ rows[r].last.outcome = "SENT" => WasSent(r, rows[r].last.occ)
    /\ rows[r].last.outcome \in {"FAILED", "SKIPPED_MISSED"} => ~WasSent(r, rows[r].last.occ)

\* createWithinLimit and reactivate keep the owner within the active limit, whatever fires,
\* retries or is undone in between.
WithinActiveLimit == Cardinality(ActiveRows) <= MaxActive

\* A one-time reminder whose occurrence ended stays ended: no undo, retry or recovery schedules
\* it again, so a reminder answered by "the event is gone" never fires later.
OnceEndsForGood ==
  [][\A r \in Ids :
       ~rows[r].recurring /\ rows[r].last.outcome # "NONE"
         => rows'[r].status \in FinalStatus /\ rows'[r].last = rows[r].last]_rows

\* The chain is armed only when no recovery and no tick is in flight: two ticks never overlap,
\* and the defensive branch of onTimer is never taken.
TicksNeverOverlap == timer => tick.pc = "idle" /\ driver = "RUNNING"

\* Between ticks of a running driver no row is left FIRING (storage errors aside): whatever a
\* crash or a stop left behind was settled by recovery, and a tick settles its whole batch.
NoStuckFiring ==
  driver = "RUNNING" /\ tick.pc = "idle" /\ ~StoreMayFail
    => \A r \in Ids : rows[r].status # "FIRING"

\* A row moves only along the closed transition table; the one exception is the undo of the
\* owner's cancel (CANCELED to SCHEDULED), by an undo turn of that very reminder.
LegalTransitions ==
  [][\A r \in Ids :
       rows'[r].status # rows[r].status =>
         \/ rows[r].status = "NONE" /\ rows'[r].status = "SCHEDULED"
         \/ rows[r].status # "NONE" /\ rows'[r].status \in TRANSITIONS[rows[r].status]
         \/ /\ rows[r].status = "CANCELED" /\ rows'[r].status = "SCHEDULED"
            /\ \E t \in Turns : undos[t].id = r /\ undos'[t] = NoUndo]_rows

\* What the owner sees of a row: SCHEDULED and FIRING are active, and a CANCELED row whose
\* occurrence was never answered can still be taken back.
LifeOf(row) ==
  CASE row.status = "NONE" -> "none"
    [] row.status \in ActiveStatus -> "active"
    [] row.status = "CANCELED" /\ (row.recurring \/ row.last.outcome = "NONE") -> "canceled"
    [] OTHER -> "ended"

Life == [r \in Ids |-> LifeOf(rows[r])]

Delivery == INSTANCE OccurrenceDelivery WITH life <- Life, time <- clock

\* ReminderSystem implements OccurrenceDelivery: whatever cancels, undos, crashes and recoveries
\* fall between the claim of a reminder and its single send, nothing is transmitted for a reminder
\* that the owner sees canceled or ended, and nothing before its occurrence.
DeliverySpec == Delivery!Spec

IsDue(r) == rows[r].status = "SCHEDULED" /\ rows[r].fireAt <= clock

\* A due reminder is taken up, whatever crashes and shutdowns intervene.
DueIsDispatched == \A r \in Ids : IsDue(r) ~> ~IsDue(r)

\* A reminder being fired is settled (storage errors aside), also when the process died under it.
FiringIsSettled == \A r \in Ids : rows[r].status = "FIRING" ~> rows[r].status # "FIRING"

=============================================================================
