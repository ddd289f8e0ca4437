--------------------------- MODULE ReminderDomain ---------------------------
(***************************************************************************)
(* The pure reminder domain: the stored row, the closed lifecycle and the  *)
(* functions that compute where a FIRING reminder goes                     *)
(* (packages/core/src/domain/reminder.ts and                               *)
(* packages/core/src/application/reminders/reminder-schedule.ts).          *)
(*                                                                         *)
(* Instants are natural numbers.  A recurring schedule (DAILY or WEEKLY)   *)
(* is the set Occurrences of its instants, so that uneven gaps (weekdays,  *)
(* daylight saving) need no separate treatment.  Bodies, titles, zones and *)
(* the TEXT/BRIEF distinction only change the delivered text and are left  *)
(* out.                                                                    *)
(***************************************************************************)
EXTENDS Integers, FiniteSets

CONSTANTS
  Ids,          \* the #N numbers of the owner's reminders, 1, 2, ...
  MaxTime,      \* bound on the clock
  Occurrences,  \* the instants of a recurring schedule
  Attempts,     \* firing attempt ids (the CAS tokens)
  NoAttempt,    \* the absent firingAttemptId
  MaxRetries,   \* REMINDER_LIMITS.maxRetries
  Backoff,      \* REMINDER_LIMITS.retryBackoffMinutes, by retries already used
  Grace,        \* REMINDER_LIMITS.recurringCatchUpGraceMs
  MinLead,      \* REMINDER_LIMITS.minLeadMs
  MaxActive,    \* REMINDER_LIMITS.maxActivePerActor
  TickLimit     \* REMINDER_LIMITS.maxDeliveriesPerTick

Time == 0..MaxTime

\* An absent optional instant (occurrenceAt and nextFireAt of a terminal row).
Absent == -1

\* o is the first occurrence strictly after t.
IsNext(o, t) == o > t /\ \A p \in Occurrences : p > t => o <= p

Past(t) == {o \in Occurrences : o <= t}

ASSUME IdsAssumption == Ids \subseteq Nat \ {0}

ASSUME TimeAssumption == MaxTime \in Nat /\ Grace \in Nat /\ MinLead \in Nat \ {0}

ASSUME AttemptAssumption == NoAttempt \notin Attempts

ASSUME RetryAssumption ==
  /\ MaxRetries \in Nat
  /\ Backoff \in [0 .. (MaxRetries - 1) -> Nat \ {0}]

\* A recurrence repeats at least weekly: there is always a next occurrence, and a
\* latest one among those that have passed.
ASSUME OccurrencesAssumption ==
  /\ Occurrences \subseteq Nat
  /\ \A t \in Time : \E o \in Occurrences : IsNext(o, t)
  /\ \A t \in Time : Past(t) = {} \/ \E o \in Past(t) : \A p \in Past(t) : p <= o

ASSUME BoundAssumption == MaxActive \in Nat /\ TickLimit \in Nat

----------------------------------------------------------------------------
(* The row.  "NONE" stands for a number that was never given out. *)

ActiveStatus == {"SCHEDULED", "FIRING"}
FinalStatus == {"COMPLETED", "CANCELED", "FAILED", "DELIVERY_UNCERTAIN"}
ReminderStatus == ActiveStatus \cup FinalStatus

OccurrenceOutcome == {"SENT", "FAILED", "DELIVERY_UNCERTAIN", "SKIPPED_MISSED"}
NoOutcome == [outcome |-> "NONE", occ |-> Absent]
LastOutcome == [outcome : OccurrenceOutcome, occ : Nat] \cup {NoOutcome}

Instant == Nat \cup {Absent}

Reminder ==
  [status    : ReminderStatus \cup {"NONE"},
   recurring : BOOLEAN,
   event     : BOOLEAN,                    \* event-relative (ONCE only)
   at        : Instant,                    \* the instant of a ONCE schedule
   occ       : Instant,                    \* occurrenceAt
   fireAt    : Instant,                    \* nextFireAt
   attempt   : 0..MaxRetries,              \* retries used for this occurrence
   token     : Attempts \cup {NoAttempt},  \* firingAttemptId
   last      : LastOutcome,                \* lastOutcome
   ver       : Instant]                    \* updatedAt, the undo CAS version

NoReminder ==
  [status |-> "NONE", recurring |-> FALSE, event |-> FALSE, at |-> Absent, occ |-> Absent,
   fireAt |-> Absent, attempt |-> 0, token |-> NoAttempt, last |-> NoOutcome, ver |-> Absent]

\* The closed table of legal moves: what each status may become.
TRANSITIONS ==
  [s \in ReminderStatus |->
     CASE s = "SCHEDULED" -> {"FIRING", "CANCELED", "SCHEDULED"}
       [] s = "FIRING" -> {"COMPLETED", "SCHEDULED", "FAILED", "DELIVERY_UNCERTAIN", "CANCELED"}
       [] OTHER -> {}]

----------------------------------------------------------------------------
(* Schedule arithmetic. *)

\* The first occurrence strictly after t.
NextOccurrenceAfter(t) == CHOOSE o \in Occurrences : IsNext(o, t)

\* The occurrence that is due at `now' when `occ' was claimed: the latest one that passed,
\* never an earlier one than the claimed occurrence.
DueOccurrence(occ, now) ==
  LET candidates == {occ} \cup Past(now)
  IN  CHOOSE o \in candidates : \A p \in candidates : p <= o

LaterOf(a, b) == IF a >= b THEN a ELSE b

\* decideMissedOccurrence: a ONCE reminder is always delivered, however late.
Skips(row, now) ==
  row.recurring /\ now - DueOccurrence(row.occ, now) > Grace

DeliveredOccurrence(row, now) ==
  IF row.recurring THEN DueOccurrence(row.occ, now) ELSE row.occ

----------------------------------------------------------------------------
(* Moves of a row that is not FIRING. *)

\* createReminderDraft.
Draft(recurring, event, firstFireAt, now) ==
  [NoReminder EXCEPT !.status = "SCHEDULED", !.recurring = recurring, !.event = event,
                     !.at = IF recurring THEN Absent ELSE firstFireAt,
                     !.occ = firstFireAt, !.fireAt = firstFireAt, !.ver = now]

\* claimReminder: SCHEDULED -> FIRING.
ClaimReminder(row, attemptId, now) ==
  [row EXCEPT !.status = "FIRING", !.token = attemptId, !.ver = now]

\* cancelReminder: SCHEDULED -> CANCELED.
CancelReminder(row, now) ==
  [row EXCEPT !.status = "CANCELED", !.occ = Absent, !.fireAt = Absent,
              !.token = NoAttempt, !.ver = now]

\* reactivateReminder: CANCELED -> SCHEDULED, the undo of a cancel.
ReactivateReminder(row, now, nextFireAt) ==
  [row EXCEPT !.status = "SCHEDULED", !.at = IF row.recurring THEN @ ELSE nextFireAt,
              !.occ = nextFireAt, !.fireAt = nextFireAt, !.attempt = 0,
              !.token = NoAttempt, !.ver = now]

----------------------------------------------------------------------------
(* Completion of a FIRING row. *)

DeliveryResult == {"SENT", "NOT_SENT_RETRYABLE", "NOT_SENT", "UNCERTAIN"}

Completion ==
  [status : {"SCHEDULED"} \cup FinalStatus, at : Instant, occ : Instant, fireAt : Instant,
   attempt : 0..MaxRetries, last : LastOutcome, ver : Nat]

\* A plausible bug: one retry too many.
RetriesOnceMore(row, result) == result = "NOT_SENT_RETRYABLE" /\ row.attempt <= MaxRetries

Retries(row, result) == result = "NOT_SENT_RETRYABLE" /\ row.attempt < MaxRetries

\* The final outcome of an occurrence.
FinalOutcome(result) ==
  CASE result = "SENT"      -> "SENT"
    [] result = "UNCERTAIN" -> "DELIVERY_UNCERTAIN"
    [] OTHER                -> "FAILED"

\* ONCE_FINAL_STATUS.
OnceFinalStatus(outcome) == IF outcome = "SENT" THEN "COMPLETED" ELSE outcome

\* A recurring reminder leaves the occurrence `occ' for `next'.
PlanAdvance(outcome, occ, next, now) ==
  [status |-> "SCHEDULED", at |-> Absent, occ |-> next, fireAt |-> next, attempt |-> 0,
   last |-> [outcome |-> outcome, occ |-> occ], ver |-> now]

\* The backoff of the next retry; past the table, its last entry.
BackoffOf(attempt) == IF attempt < MaxRetries THEN Backoff[attempt] ELSE Backoff[MaxRetries - 1]

PlanRetry(row, occ, now) ==
  [status |-> "SCHEDULED", at |-> Absent, occ |-> occ, fireAt |-> now + BackoffOf(row.attempt),
   attempt |-> row.attempt + 1, last |-> NoOutcome, ver |-> now]

PlanOnceFinal(row, status, outcome, occ, now) ==
  [status |-> status, at |-> Absent, occ |-> Absent, fireAt |-> Absent,
   attempt |-> row.attempt, last |-> [outcome |-> outcome, occ |-> occ], ver |-> now]

\* A plausible bug: an uncertain send is retried like a confirmed failure.
RetryUncertainPlan(row, result, occ, next, now) ==
  IF result \in {"NOT_SENT_RETRYABLE", "UNCERTAIN"} /\ row.attempt < MaxRetries
  THEN PlanRetry(row, occ, now)
  ELSE IF row.recurring THEN PlanAdvance(FinalOutcome(result), occ, next, now)
  ELSE PlanOnceFinal(row, OnceFinalStatus(FinalOutcome(result)), FinalOutcome(result), occ, now)

\* A plausible bug: an uncertain send is recorded as a confirmed failure.
OptimisticPlan(row, result, occ, next, now) ==
  LET outcome == IF result = "UNCERTAIN" THEN "FAILED" ELSE FinalOutcome(result)
  IN  IF Retries(row, result) THEN PlanRetry(row, occ, now)
      ELSE IF row.recurring THEN PlanAdvance(outcome, occ, next, now)
      ELSE PlanOnceFinal(row, OnceFinalStatus(outcome), outcome, occ, now)

\* planFiringCompletion for a delivery result of the occurrence `occ'.
PlanFiringCompletion(row, result, occ, next, now) ==
  LET outcome == FinalOutcome(result)
  IN  IF Retries(row, result) THEN PlanRetry(row, occ, now)
      ELSE IF row.recurring THEN PlanAdvance(outcome, occ, next, now)
      ELSE PlanOnceFinal(row, OnceFinalStatus(outcome), outcome, occ, now)

\* planEventRescheduleCompletion: the event moved later, nothing was sent.
PlanEventReschedule(due, now) ==
  [status |-> "SCHEDULED", at |-> due, occ |-> due, fireAt |-> due, attempt |-> 0,
   last |-> NoOutcome, ver |-> now]

\* planEventCanceledCompletion: the event is gone; a note was sent instead.
PlanEventCanceled(row, result, now) ==
  IF Retries(row, result) THEN PlanRetry(row, row.occ, now)
  ELSE PlanOnceFinal(row, "CANCELED", FinalOutcome(result), row.occ, now)

\* applyFiringCompletion: the stored row after a planned completion.
ApplyFiringCompletion(row, plan) ==
  [status |-> plan.status, recurring |-> row.recurring, event |-> row.event,
   at |-> IF plan.at = Absent THEN row.at ELSE plan.at,
   occ |-> plan.occ, fireAt |-> plan.fireAt, attempt |-> plan.attempt, token |-> NoAttempt,
   last |-> IF plan.last = NoOutcome THEN row.last ELSE plan.last,
   ver |-> plan.ver]

=============================================================================
