--------------------------- MODULE ReminderProofs ---------------------------
(***************************************************************************)
(* Proofs about ReminderSystem, for every set of reminders, every          *)
(* recurrence, every bound and every number of crashes: type correctness,  *)
(* at-most-once delivery of every occurrence, and ticks that never         *)
(* overlap.                                                                *)
(*                                                                         *)
(* The inductive invariant follows an occurrence from the table through    *)
(* the tick: whatever may still be sent lies above everything that was     *)
(* sent, and a row under an undo turn either still lies there or has been  *)
(* given a later version, so that the compare-and-set refuses it.          *)
(***************************************************************************)
EXTENDS ReminderSystem, TLAPS

SentBelow(r, o) == \A i \in 1..Len(sent[r]) : sent[r][i] < o
SentUpTo(r, o) == \A i \in 1..Len(sent[r]) : sent[r][i] <= o

\* Nothing is sent ahead of time.
HistoryInv == \A r \in Ids : SentUpTo(r, clock)

\* A row that waits lies above what was sent; a row being fired was due when it was claimed.
RowOK(r) ==
  /\ rows[r].event => ~rows[r].recurring
  /\ rows[r].ver <= clock
  /\ rows[r].status = "SCHEDULED" =>
       /\ rows[r].occ \in Nat /\ rows[r].fireAt \in Nat /\ rows[r].occ <= rows[r].fireAt
       /\ SentBelow(r, rows[r].occ)
  /\ rows[r].status = "FIRING" => rows[r].occ \in Nat /\ rows[r].occ <= rows[r].ver

RowsInv == \A r \in Ids : RowOK(r)

\* The snapshot of a row that is still to be settled is the stored row.
Held(r) == snap[r] = rows[r] /\ rows[r].status = "FIRING" /\ rows[r].ver <= tick.now

Sending == {"rechecking", "delivering", "delivered"}

TodoOK(r) ==
  /\ Held(r)
  /\ tick.pc = "recovering" => SentUpTo(r, tick.now)
  /\ tick.pc # "recovering" => rows[r].ver = tick.now /\ SentBelow(r, rows[r].occ)

CurOK ==
  /\ tick.cur \in Ids /\ tick.cur \notin tick.todo
  /\ Held(tick.cur) /\ rows[tick.cur].ver = tick.now
  /\ tick.occ \in Nat /\ rows[tick.cur].occ <= tick.occ /\ tick.occ <= tick.now
  /\ ~rows[tick.cur].recurring => tick.occ = rows[tick.cur].occ
  /\ tick.pc = "rechecking" \/ tick.gone => rows[tick.cur].event
  /\ tick.pc = "delivered" => tick.result \in DeliveryResult
  /\ SentUpTo(tick.cur, tick.occ)
  /\ ~(tick.pc = "delivered" /\ tick.result \in {"SENT", "UNCERTAIN"}) => SentBelow(tick.cur, tick.occ)

TickInv ==
  /\ tick.now <= clock
  /\ tick.pc = "idle" => tick.todo = {}
  /\ \A r \in tick.todo : TodoOK(r)
  /\ tick.pc \in Sending => CurOK

\* The reactivated row of a pending undo lies above what was sent, or the version has moved on.
UndoOK(t) ==
  LET u == undos[t] IN
  u # NoUndo =>
    /\ u.id \in Ids
    /\ u.row.status = "SCHEDULED"
    /\ u.row.event => ~u.row.recurring
    /\ u.row.occ \in Nat /\ u.row.fireAt = u.row.occ
    /\ u.ver <= u.row.ver /\ u.row.ver < u.row.occ /\ u.row.ver <= clock
    /\ SentBelow(u.id, u.row.occ) \/ rows[u.id].ver > u.ver

UndoInv == \A t \in Turns : UndoOK(t)

Inv == TypeOK /\ HistoryInv /\ RowsInv /\ TickInv /\ UndoInv

----------------------------------------------------------------------------
(* The schedule arithmetic. *)

\* nextOccurrenceAfter always finds an occurrence, strictly after its argument.
LEMMA NextIsLater ==
  ASSUME NEW t \in Time
  PROVE  NextOccurrenceAfter(t) \in Nat /\ NextOccurrenceAfter(t) > t
<1>1. PICK o \in Occurrences : IsNext(o, t)
  BY OccurrencesAssumption
<1>2. NextOccurrenceAfter(t) \in Occurrences /\ IsNext(NextOccurrenceAfter(t), t)
  BY <1>1 DEF NextOccurrenceAfter
<1> QED
  BY <1>2, OccurrencesAssumption DEF IsNext

\* The occurrence to deliver is never before the claimed one and never in the future.
LEMMA DueIsBetween ==
  ASSUME NEW occ \in Nat, NEW now \in Time, occ <= now
  PROVE  /\ DueOccurrence(occ, now) \in Nat
         /\ occ <= DueOccurrence(occ, now) /\ DueOccurrence(occ, now) <= now
<1> DEFINE C == {occ} \cup Past(now)
<1>0. now \in Nat
  BY TimeAssumption DEF Time
<1>1. C \subseteq Nat /\ \A p \in C : p <= now
  BY <1>0, OccurrencesAssumption DEF Past
<1>2. \E o \in C : \A p \in C : p <= o
  <2>1. CASE Past(now) = {}
    BY <2>1
  <2>2. CASE Past(now) # {}
    <3>1. PICK o \in Past(now) : \A p \in Past(now) : p <= o
      BY <2>2, OccurrencesAssumption
    <3>2. o \in C /\ o \in Nat
      BY <1>1
    <3>3. CASE occ <= o
      BY <3>1, <3>2, <3>3
    <3>4. CASE ~(occ <= o)
      BY <3>1, <3>2, <3>4, <1>1
    <3> QED
      BY <3>3, <3>4
  <2> QED
    BY <2>1, <2>2
<1>3. DueOccurrence(occ, now) \in C /\ \A p \in C : p <= DueOccurrence(occ, now)
  BY <1>2 DEF DueOccurrence
<1> QED
  BY <1>1, <1>3

----------------------------------------------------------------------------
(* What a completion writes. *)

\* A plan for the reminder r that keeps what waits above what was sent.
Sound(r, plan) ==
  /\ plan \in Completion
  /\ plan.ver = tick.now
  /\ plan.status = "SCHEDULED" =>
       plan.occ \in Nat /\ plan.fireAt \in Nat /\ plan.occ <= plan.fireAt /\ SentBelow(r, plan.occ)

LEMMA AppliedType ==
  ASSUME NEW row \in Reminder, NEW plan \in Completion
  PROVE  ApplyFiringCompletion(row, plan) \in Reminder
<1> DEFINE newAt == IF plan.at = Absent THEN row.at ELSE plan.at
           newLast == IF plan.last = NoOutcome THEN row.last ELSE plan.last
<1>1. /\ row.recurring \in BOOLEAN /\ row.event \in BOOLEAN /\ row.at \in Instant
      /\ row.last \in LastOutcome
  BY DEF Reminder
<1>2. /\ plan.status \in ReminderStatus \cup {"NONE"} /\ plan.at \in Instant /\ plan.occ \in Instant
      /\ plan.fireAt \in Instant /\ plan.attempt \in 0..MaxRetries /\ plan.last \in LastOutcome
      /\ plan.ver \in Instant
  BY DEF Completion, ReminderStatus, ActiveStatus, Instant
<1>3. newAt \in Instant /\ newLast \in LastOutcome
  BY <1>1, <1>2
<1>4. ApplyFiringCompletion(row, plan) =
        [status |-> plan.status, recurring |-> row.recurring, event |-> row.event, at |-> newAt,
         occ |-> plan.occ, fireAt |-> plan.fireAt, attempt |-> plan.attempt, token |-> NoAttempt,
         last |-> newLast, ver |-> plan.ver]
  BY DEF ApplyFiringCompletion
<1> HIDE DEF newAt, newLast
<1> QED
  BY <1>1, <1>2, <1>3, <1>4 DEF Reminder

LEMMA AdvancePlan ==
  ASSUME NEW outcome \in OccurrenceOutcome, NEW occ \in Nat, NEW next \in Nat, NEW now \in Nat
  PROVE  LET p == PlanAdvance(outcome, occ, next, now) IN
         p \in Completion /\ p.ver = now /\ p.occ = next /\ p.fireAt = next
<1>1. [outcome |-> outcome, occ |-> occ] \in LastOutcome
  BY DEF LastOutcome
<1>2. Absent \in Instant /\ next \in Instant /\ 0 \in 0..MaxRetries
  BY RetryAssumption DEF Instant
<1> QED
  BY <1>1, <1>2 DEF PlanAdvance, Completion

LEMMA RetryPlan ==
  ASSUME NEW row \in Reminder, NEW occ \in Nat, NEW now \in Nat, row.attempt < MaxRetries
  PROVE  LET p == PlanRetry(row, occ, now) IN
         p \in Completion /\ p.ver = now /\ p.occ = occ /\ p.fireAt \in Nat /\ p.fireAt >= now
<1>1. NoOutcome \in LastOutcome
  BY DEF LastOutcome
<1>2. row.attempt \in 0..(MaxRetries - 1) /\ row.attempt + 1 \in 0..MaxRetries
  BY RetryAssumption DEF Reminder
<1>3. BackoffOf(row.attempt) \in Nat
  BY <1>2, RetryAssumption DEF BackoffOf
<1>4. now + BackoffOf(row.attempt) \in Nat /\ now + BackoffOf(row.attempt) >= now
  BY <1>3
<1>5. Absent \in Instant /\ occ \in Instant /\ now + BackoffOf(row.attempt) \in Instant
  BY <1>4 DEF Instant
<1> QED
  BY <1>1, <1>2, <1>4, <1>5 DEF PlanRetry, Completion

LEMMA FinalPlan ==
  ASSUME NEW row \in Reminder, NEW status \in FinalStatus, NEW outcome \in OccurrenceOutcome,
         NEW occ \in Nat, NEW now \in Nat
  PROVE  LET p == PlanOnceFinal(row, status, outcome, occ, now) IN
         p \in Completion /\ p.ver = now /\ p.status = status
<1>1. [outcome |-> outcome, occ |-> occ] \in LastOutcome
  BY DEF LastOutcome
<1>2. Absent \in Instant /\ row.attempt \in 0..MaxRetries
  BY DEF Instant, Reminder
<1> QED
  BY <1>1, <1>2 DEF PlanOnceFinal, Completion

LEMMA OutcomeTypes ==
  ASSUME NEW result \in DeliveryResult
  PROVE  FinalOutcome(result) \in OccurrenceOutcome /\ OnceFinalStatus(FinalOutcome(result)) \in FinalStatus
BY DEF DeliveryResult, FinalOutcome, OccurrenceOutcome, OnceFinalStatus, FinalStatus

\* A completed occurrence is retried only after a confirmed non-transmission, else it is left behind.
LEMMA FiringPlan ==
  ASSUME NEW row \in Reminder, NEW result \in DeliveryResult, NEW occ \in Nat, NEW next \in Nat,
         NEW now \in Nat
  PROVE  LET p == PlanFiringCompletion(row, result, occ, next, now) IN
         /\ p \in Completion /\ p.ver = now
         /\ p.status = "SCHEDULED" =>
              \/ Retries(row, result) /\ p.occ = occ /\ p.fireAt \in Nat /\ p.fireAt >= now
              \/ p.occ = next /\ p.fireAt = next
<1>1. CASE Retries(row, result)
  <2>1. row.attempt < MaxRetries
    BY <1>1 DEF Retries
  <2>2. PlanFiringCompletion(row, result, occ, next, now) = PlanRetry(row, occ, now)
    BY <1>1 DEF PlanFiringCompletion
  <2> QED
    BY <1>1, <2>1, <2>2, RetryPlan
<1>2. CASE ~Retries(row, result) /\ row.recurring
  <2>1. PlanFiringCompletion(row, result, occ, next, now)
          = PlanAdvance(FinalOutcome(result), occ, next, now)
    BY <1>2 DEF PlanFiringCompletion
  <2> QED
    BY <2>1, AdvancePlan, OutcomeTypes
<1>3. CASE ~Retries(row, result) /\ ~row.recurring
  <2>1. PlanFiringCompletion(row, result, occ, next, now)
          = PlanOnceFinal(row, OnceFinalStatus(FinalOutcome(result)), FinalOutcome(result), occ, now)
    BY <1>3 DEF PlanFiringCompletion
  <2>2. "SCHEDULED" \notin FinalStatus
    BY DEF FinalStatus
  <2> QED
    BY <2>1, <2>2, FinalPlan, OutcomeTypes
<1> QED
  BY <1>1, <1>2, <1>3

LEMMA EventCanceledPlan ==
  ASSUME NEW row \in Reminder, NEW result \in DeliveryResult, row.occ \in Nat, NEW now \in Nat
  PROVE  LET p == PlanEventCanceled(row, result, now) IN
         /\ p \in Completion /\ p.ver = now
         /\ p.status = "SCHEDULED" =>
              Retries(row, result) /\ p.occ = row.occ /\ p.fireAt \in Nat /\ p.fireAt >= now
<1>1. CASE Retries(row, result)
  <2>1. row.attempt < MaxRetries
    BY <1>1 DEF Retries
  <2> QED
    BY <1>1, <2>1, RetryPlan DEF PlanEventCanceled
<1>2. CASE ~Retries(row, result)
  <2>1. "CANCELED" \in FinalStatus
    BY DEF FinalStatus
  <2> QED
    BY <1>2, <2>1, FinalPlan, OutcomeTypes DEF PlanEventCanceled
<1> QED
  BY <1>1, <1>2

LEMMA ReschedulePlan ==
  ASSUME NEW due \in Nat, NEW now \in Nat
  PROVE  LET p == PlanEventReschedule(due, now) IN
         p \in Completion /\ p.ver = now /\ p.occ = due /\ p.fireAt = due
<1>1. NoOutcome \in LastOutcome /\ due \in Instant /\ 0 \in 0..MaxRetries
  BY RetryAssumption DEF LastOutcome, Instant
<1> QED
  BY <1>1 DEF PlanEventReschedule, Completion

\* completeFiring (or its failure) with a sound plan keeps the table and the pending undos in order.
LEMMA CompletionKeeps ==
  ASSUME Inv, NEW r \in Ids, NEW a, NEW plan, Sound(r, plan), Held(r),
         CompleteOrThrow(r, a, plan), UNCHANGED <<clock, sent, undos>>
  PROVE  /\ rows' \in [Ids -> Reminder]
         /\ \A q \in Ids \ {r} : rows'[q] = rows[q]
         /\ RowsInv' /\ UndoInv'
<1> USE DEF Inv
<1>1. CASE rows' = rows
  <2>1. RowsInv'
    BY <1>1 DEF RowsInv, RowOK, SentBelow
  <2>2. UndoInv'
    BY <1>1 DEF UndoInv, UndoOK, SentBelow
  <2> QED
    BY <1>1, <2>1, <2>2 DEF TypeOK
<1>2. CASE rows' = [rows EXCEPT ![r] = ApplyFiringCompletion(rows[r], plan)]
  <2> DEFINE new == ApplyFiringCompletion(rows[r], plan)
  <2>0. rows \in [Ids -> Reminder] /\ rows[r] \in Reminder /\ tick \in Tick /\ clock \in Time
    BY DEF TypeOK
  <2>1. new \in Reminder
    BY <2>0, AppliedType DEF Sound
  <2>2. rows' \in [Ids -> Reminder] /\ rows'[r] = new /\ \A q \in Ids \ {r} : rows'[q] = rows[q]
    BY <1>2, <2>0, <2>1
  <2>3. /\ new.status = plan.status /\ new.occ = plan.occ /\ new.fireAt = plan.fireAt
        /\ new.ver = tick.now /\ new.event = rows[r].event /\ new.recurring = rows[r].recurring
    BY <2>0 DEF ApplyFiringCompletion, Reminder, Sound
  <2>4. plan.status # "FIRING"
    BY DEF Sound, Completion, FinalStatus
  <2>5. tick.now <= clock
    BY DEF TickInv
  <2>6. RowsInv'
    <3> SUFFICES ASSUME NEW q \in Ids PROVE RowOK(q)'
      BY DEF RowsInv
    <3>1. CASE q = r
      <4>1. rows[r].event => ~rows[r].recurring
        BY DEF RowsInv, RowOK
      <4> QED
        BY <3>1, <4>1, <2>2, <2>3, <2>4, <2>5 DEF RowOK, Sound, SentBelow
    <3>2. CASE q # r
      BY <3>2, <2>2 DEF RowsInv, RowOK, SentBelow
    <3> QED
      BY <3>1, <3>2
  <2>7. UndoInv'
    <3> SUFFICES ASSUME NEW t \in Turns PROVE UndoOK(t)'
      BY DEF UndoInv
    <3>1. UndoOK(t)
      BY DEF UndoInv
    <3>2. undos[t] \in Undo /\ rows[r].ver <= tick.now
      BY DEF TypeOK, Held
    <3>3. undos[t].ver \in Int /\ rows[r].ver \in Int /\ tick.now \in Int
      BY <2>0, <3>2, TimeAssumption DEF Undo, Reminder, Tick, Time, Instant, Absent
    <3> QED
      BY <3>1, <3>2, <3>3, <2>2, <2>3 DEF UndoOK, SentBelow
  <2> QED
    BY <2>2, <2>6, <2>7
<1> QED
  BY <1>1, <1>2 DEF CompleteOrThrow, CompleteFiring

----------------------------------------------------------------------------
(* The invariant is inductive: one lemma per action. *)

LEMMA InvTypes ==
  ASSUME Inv
  PROVE  /\ clock \in Nat /\ tick.now \in Nat /\ tick.now \in Time
         /\ \A r \in Ids : rows[r] \in Reminder /\ rows[r].ver \in Int /\ sent[r] \in Seq(Nat)
         /\ \A r \in Ids : \A i \in 1..Len(sent[r]) : sent[r][i] \in Nat
         /\ \A t \in Turns : undos[t] \in Undo /\ undos[t].ver \in Int /\ undos[t].row.ver \in Int
<1>1. clock \in Nat /\ tick.now \in Nat /\ tick.now \in Time
  BY TimeAssumption DEF Inv, TypeOK, Time, Tick
<1>2. \A r \in Ids : rows[r] \in Reminder /\ rows[r].ver \in Int /\ sent[r] \in Seq(Nat)
  BY DEF Inv, TypeOK, Reminder, Instant, Absent
<1>3. \A t \in Turns : undos[t] \in Undo /\ undos[t].ver \in Int /\ undos[t].row.ver \in Int
  BY DEF Inv, TypeOK, Undo, Reminder, Instant, Absent
<1> QED
  BY <1>1, <1>2, <1>3

LEMMA InitInv == Init => Inv
<1> SUFFICES ASSUME Init PROVE Inv
  OBVIOUS
<1>1. NoReminder \in Reminder
  <2>1. NoOutcome \in LastOutcome /\ Absent \in Instant /\ 0 \in 0..MaxRetries
    BY RetryAssumption DEF LastOutcome, Instant
  <2> QED
    BY <2>1 DEF NoReminder, Reminder
<1>2. 0 \in Time
  BY TimeAssumption DEF Time
<1>3. IdleTick \in Tick
  BY <1>2 DEF IdleTick, Tick, TickPc, Instant
<1>4. TypeOK
  <2>1. NoAction \in Action /\ NoUndo \in Undo
    BY <1>1 DEF NoAction, Action, NoUndo, Undo, Instant
  <2>2. sent \in [Ids -> Seq(Nat)] /\ rows \in [Ids -> Reminder] /\ snap \in [Ids -> Reminder]
        /\ undos \in [Turns -> Undo]
    BY <1>1, <2>1 DEF Init
  <2>3. halts \in 0..MaxHalts
    BY SystemAssumption DEF Init
  <2> QED
    BY <1>2, <1>3, <2>1, <2>2, <2>3 DEF Init, TypeOK, DriverState
<1>5. HistoryInv
  BY DEF Init, HistoryInv, SentUpTo
<1>6. RowsInv
  BY DEF Init, RowsInv, RowOK, NoReminder, Absent
<1>7. TickInv
  BY DEF Init, TickInv, IdleTick, Sending
<1>8. UndoInv
  BY DEF Init, UndoInv, UndoOK
<1> QED
  BY <1>4, <1>5, <1>6, <1>7, <1>8 DEF Inv

LEMMA AdvanceClockInv == ASSUME Inv, AdvanceClock PROVE Inv'
<1> USE DEF AdvanceClock, storeVars, procVars, ownerVars
<1>0. clock' = clock + 1 /\ clock < MaxTime /\ clock \in Nat /\ MaxTime \in Nat
  BY InvTypes, TimeAssumption
<1>1. TypeOK'
  BY <1>0 DEF Inv, TypeOK, Time
<1>2. HistoryInv'
  BY <1>0, InvTypes DEF Inv, HistoryInv, SentUpTo
<1>3. RowsInv'
  BY <1>0, InvTypes DEF Inv, RowsInv, RowOK, SentBelow
<1>4. TickInv'
  BY <1>0, InvTypes DEF Inv, TickInv, TodoOK, CurOK, Held, SentBelow, SentUpTo
<1>5. UndoInv'
  <2> SUFFICES ASSUME NEW t \in Turns PROVE UndoOK(t)'
    BY DEF UndoInv
  <2>1. UndoOK(t) /\ undos[t].row.ver \in Int
    BY InvTypes DEF Inv, UndoInv
  <2> QED
    BY <1>0, <2>1 DEF UndoOK, SentBelow
<1> QED
  BY <1>1, <1>2, <1>3, <1>4, <1>5 DEF Inv

\* The owner's write of one row: never a row being fired, and its version does not go back.
OwnerWrites(r, row) ==
  /\ rows' = [rows EXCEPT ![r] = row]
  /\ clock' = clock /\ sent' = sent /\ tick' = tick /\ snap' = snap
  /\ rows[r].status # "FIRING" /\ row.status # "FIRING"
  /\ row.event => ~row.recurring
  /\ rows[r].ver <= row.ver /\ row.ver <= clock
  /\ row.status = "SCHEDULED" =>
       row.occ \in Nat /\ row.fireAt \in Nat /\ row.occ <= row.fireAt /\ SentBelow(r, row.occ)

\* Create, Cancel and Reactivate leave the tick in flight and the other undo turns in order.
LEMMA OwnerWrite ==
  ASSUME Inv, NEW r \in Ids, NEW row \in Reminder, OwnerWrites(r, row)
  PROVE  /\ rows' \in [Ids -> Reminder] /\ HistoryInv' /\ RowsInv' /\ TickInv'
         /\ \A t \in Turns : undos'[t] = undos[t] => UndoOK(t)'
<1> USE DEF OwnerWrites
<1>1. rows' \in [Ids -> Reminder] /\ rows'[r] = row /\ \A q \in Ids \ {r} : rows'[q] = rows[q]
  BY DEF Inv, TypeOK
<1>2. HistoryInv'
  BY DEF Inv, HistoryInv, SentUpTo
<1>3. RowsInv'
  BY <1>1 DEF Inv, RowsInv, RowOK, SentBelow
<1>4. tick \in Tick
  BY DEF Inv, TypeOK
<1>5. TickInv'
  <2>1. r \notin tick.todo /\ (tick.pc \in Sending => tick.cur # r)
    BY DEF Inv, TickInv, TodoOK, CurOK, Held
  <2>2. \A q \in tick.todo : TodoOK(q)'
    BY <2>1, <1>1, <1>4 DEF Inv, TickInv, TodoOK, Held, SentBelow, SentUpTo, Tick
  <2>3. tick.pc \in Sending => CurOK'
    BY <2>1, <1>1 DEF Inv, TickInv, CurOK, Held, SentBelow, SentUpTo
  <2> QED
    BY <2>2, <2>3 DEF Inv, TickInv
<1>6. ASSUME NEW t \in Turns, undos'[t] = undos[t] PROVE UndoOK(t)'
  <2>1. UndoOK(t) /\ undos[t].ver \in Int /\ rows[r].ver \in Int /\ row.ver \in Int
    BY InvTypes DEF Inv, UndoInv, Reminder, Instant, Absent
  <2> QED
    BY <1>1, <1>6, <2>1 DEF UndoOK, SentBelow
<1> QED
  BY <1>1, <1>2, <1>3, <1>5, <1>6

LEMMA NoReminderType == NoReminder \in Reminder /\ NoUndo \in Undo /\ IdleTick \in Tick
<1>1. NoReminder \in Reminder
  <2>1. NoOutcome \in LastOutcome /\ Absent \in Instant /\ 0 \in 0..MaxRetries
    BY RetryAssumption DEF LastOutcome, Instant
  <2> QED
    BY <2>1 DEF NoReminder, Reminder
<1>2. 0 \in Time
  BY TimeAssumption DEF Time
<1> QED
  BY <1>1, <1>2 DEF NoUndo, Undo, IdleTick, Tick, TickPc, Instant

LEMMA CreateInv ==
  ASSUME Inv, NEW r \in Ids, NEW rec \in BOOLEAN, NEW ev \in BOOLEAN,
         NEW at \in Time \cup Occurrences, Create(r, rec, ev, at)
  PROVE  Inv'
<1> DEFINE row == Draft(rec, ev, at, clock)
<1>1. at \in Nat /\ clock \in Nat /\ at > clock
  <2>1. at \in Nat
    BY TimeAssumption, OccurrencesAssumption DEF Time
  <2>2. clock \in Nat
    BY InvTypes
  <2> QED
    BY <2>1, <2>2, TimeAssumption DEF Create, IsNext
<1>2. row \in Reminder
  <2>1. NoOutcome \in LastOutcome /\ Absent \in Instant /\ 0 \in 0..MaxRetries
    BY RetryAssumption DEF LastOutcome, Instant
  <2>2. at \in Instant /\ clock \in Instant
    BY <1>1 DEF Instant
  <2>3. (IF rec THEN Absent ELSE at) \in Instant
    BY <2>1, <2>2
  <2> QED
    BY <2>1, <2>2, <2>3 DEF Draft, NoReminder, Reminder, ReminderStatus, ActiveStatus
<1>3. /\ row.status = "SCHEDULED" /\ row.event = ev /\ row.recurring = rec /\ row.occ = at
      /\ row.fireAt = at /\ row.ver = clock
  BY DEF Draft, NoReminder
<1>4. (ev => ~rec) /\ rows[r].status = "NONE" /\ rows' = [rows EXCEPT ![r] = row]
      /\ UNCHANGED <<clock, sent, procVars, ownerVars>>
  BY DEF Create
<1>5. SentBelow(r, at)
  BY <1>1, InvTypes DEF Inv, HistoryInv, SentUpTo, SentBelow
<1>6. rows[r].ver <= clock
  BY DEF Inv, RowsInv, RowOK
<1>a. OwnerWrites(r, row)
  <2> HIDE DEF row
  <2> QED
    BY <1>1, <1>3, <1>4, <1>5, <1>6 DEF OwnerWrites, procVars
<1>7. /\ rows' \in [Ids -> Reminder] /\ HistoryInv' /\ RowsInv' /\ TickInv'
      /\ \A t \in Turns : undos'[t] = undos[t] => UndoOK(t)'
  BY <1>2, <1>a, OwnerWrite
<1>8. TypeOK'
  BY <1>4, <1>7 DEF Inv, TypeOK, procVars, ownerVars
<1> QED
  BY <1>4, <1>7, <1>8 DEF Inv, UndoInv, ownerVars

LEMMA CancelInv == ASSUME Inv, NEW r \in Ids, Cancel(r) PROVE Inv'
<1> DEFINE row == CancelReminder(rows[r], clock)
<1>1. clock \in Nat /\ rows[r] \in Reminder
  BY InvTypes
<1>2. row \in Reminder
  BY <1>1 DEF CancelReminder, Reminder, ReminderStatus, FinalStatus, Instant
<1>3. row.status = "CANCELED" /\ row.event = rows[r].event /\ row.recurring = rows[r].recurring
      /\ row.ver = clock
  BY <1>1 DEF CancelReminder, Reminder
<1>4. rows[r].status = "SCHEDULED" /\ rows' = [rows EXCEPT ![r] = row]
      /\ UNCHANGED <<clock, sent, procVars, undos>> /\ lastAction' = [id |-> r, ver |-> clock]
  BY DEF Cancel
<1>5. rows[r].ver <= clock /\ (rows[r].event => ~rows[r].recurring)
  BY DEF Inv, RowsInv, RowOK
<1>a. OwnerWrites(r, row)
  <2> HIDE DEF row
  <2> QED
    BY <1>1, <1>3, <1>4, <1>5 DEF OwnerWrites, procVars
<1>6. /\ rows' \in [Ids -> Reminder] /\ HistoryInv' /\ RowsInv' /\ TickInv'
      /\ \A t \in Turns : undos'[t] = undos[t] => UndoOK(t)'
  BY <1>2, <1>a, OwnerWrite
<1>7. lastAction' \in Action
  BY <1>1, <1>4 DEF Action, Instant
<1>8. TypeOK'
  BY <1>4, <1>6, <1>7 DEF Inv, TypeOK, procVars
<1> QED
  BY <1>4, <1>6, <1>8 DEF Inv, UndoInv

LEMMA UndoReadInv ==
  ASSUME Inv, NEW t \in Turns, NEW at \in Time \cup Occurrences, UndoRead(t, at)
  PROVE  Inv'
<1> DEFINE r == lastAction.id
           row == ReactivateReminder(rows[r], clock, at)
           new == [id |-> r, ver |-> lastAction.ver, row |-> row]
<1>0. r \in Ids /\ lastAction.ver \in Instant
  BY DEF UndoRead, Inv, TypeOK, Action
<1>1. clock \in Nat /\ rows[r] \in Reminder /\ at \in Nat /\ at > clock
  <2>1. at \in Nat
    BY TimeAssumption, OccurrencesAssumption DEF Time
  <2>2. clock \in Nat /\ rows[r] \in Reminder
    BY <1>0, InvTypes
  <2> QED
    BY <2>1, <2>2, TimeAssumption DEF UndoRead, IsNext
<1>2. row \in Reminder
  <2>1. (IF rows[r].recurring THEN rows[r].at ELSE at) \in Instant /\ at \in Instant
        /\ clock \in Instant /\ 0 \in 0..MaxRetries
    BY <1>1, RetryAssumption DEF Reminder, Instant
  <2> QED
    BY <1>1, <2>1 DEF ReactivateReminder, Reminder, ReminderStatus, ActiveStatus
<1>3. /\ row.status = "SCHEDULED" /\ row.event = rows[r].event /\ row.recurring = rows[r].recurring
      /\ row.occ = at /\ row.fireAt = at /\ row.ver = clock
  BY <1>1 DEF ReactivateReminder, Reminder
<1>4. rows[r].ver = lastAction.ver /\ undos' = [undos EXCEPT ![t] = new]
      /\ UNCHANGED <<clock, storeVars, procVars, lastAction>>
  BY DEF UndoRead
<1>5. rows[r].ver <= clock /\ (rows[r].event => ~rows[r].recurring)
  BY <1>0 DEF Inv, RowsInv, RowOK
<1>6. SentBelow(r, at)
  BY <1>0, <1>1, InvTypes DEF Inv, HistoryInv, SentUpTo, SentBelow
<1> HIDE DEF row
<1>7. new \in Undo
  BY <1>0, <1>2 DEF Undo
<1>8. undos' \in [Turns -> Undo] /\ undos'[t] = new /\ \A q \in Turns \ {t} : undos'[q] = undos[q]
  BY <1>4, <1>7 DEF Inv, TypeOK
<1>9. TypeOK'
  BY <1>4, <1>8 DEF Inv, TypeOK, storeVars, procVars
<1>10. HistoryInv' /\ RowsInv' /\ TickInv'
  BY <1>4 DEF Inv, HistoryInv, RowsInv, RowOK, TickInv, TodoOK, CurOK, Held, SentBelow, SentUpTo,
              storeVars, procVars
<1>11. UndoInv'
  <2> SUFFICES ASSUME NEW q \in Turns PROVE UndoOK(q)'
    BY DEF UndoInv
  <2>1. CASE q = t
    BY <2>1, <1>0, <1>1, <1>3, <1>4, <1>5, <1>6, <1>8 DEF UndoOK, SentBelow, storeVars
  <2>2. CASE q # t
    BY <2>2, <1>4, <1>8 DEF Inv, UndoInv, UndoOK, SentBelow, storeVars
  <2> QED
    BY <2>1, <2>2
<1> QED
  BY <1>9, <1>10, <1>11 DEF Inv

\* The version compared by reactivate refuses a row that was sent since the undo turn read it.
LEMMA ReactivateInv == ASSUME Inv, NEW t \in Turns, Reactivate(t) PROVE Inv'
<1> DEFINE u == undos[t]
<1>1. u \in Undo /\ u # NoUndo /\ undos' = [undos EXCEPT ![t] = NoUndo]
      /\ UNCHANGED <<clock, sent, procVars>>
  BY InvTypes DEF Reactivate
<1>2. undos' \in [Turns -> Undo] /\ undos'[t] = NoUndo /\ \A q \in Turns \ {t} : undos'[q] = undos[q]
  BY <1>1, NoReminderType DEF Inv, TypeOK
<1>3. UndoOK(t)
  BY DEF Inv, UndoInv
<1>4. CASE rows[u.id].status = "CANCELED" /\ rows[u.id].ver = u.ver /\ BelowLimit
  <2>1. rows' = [rows EXCEPT ![u.id] = u.row] /\ lastAction' = NoAction
    BY <1>4 DEF Reactivate
  <2>2. u.id \in Ids /\ u.row \in Reminder /\ u.ver \in Int /\ rows[u.id].ver \in Int
        /\ u.row.ver \in Int /\ clock \in Nat
    BY <1>1, <1>3, InvTypes DEF UndoOK, Undo
  <2>3. SentBelow(u.id, u.row.occ)
    BY <1>1, <1>3, <1>4, <2>2 DEF UndoOK
  <2>4. /\ u.row.status = "SCHEDULED" /\ u.row.occ \in Nat /\ u.row.fireAt = u.row.occ
        /\ u.row.event => ~u.row.recurring
        /\ rows[u.id].ver <= u.row.ver /\ u.row.ver <= clock
    BY <1>1, <1>3, <1>4 DEF UndoOK
  <2>a. OwnerWrites(u.id, u.row)
    BY <1>1, <1>4, <2>1, <2>2, <2>3, <2>4 DEF OwnerWrites, procVars
  <2>5. /\ rows' \in [Ids -> Reminder] /\ HistoryInv' /\ RowsInv' /\ TickInv'
        /\ \A q \in Turns : undos'[q] = undos[q] => UndoOK(q)'
    BY <2>2, <2>a, OwnerWrite
  <2>6. UndoInv'
    BY <1>2, <2>5 DEF UndoInv, UndoOK
  <2>7. NoAction \in Action
    BY DEF NoAction, Action, Instant
  <2>8. TypeOK'
    BY <1>1, <1>2, <2>1, <2>5, <2>7 DEF Inv, TypeOK, procVars
  <2> QED
    BY <2>5, <2>6, <2>8 DEF Inv
<1>5. CASE ~(rows[u.id].status = "CANCELED" /\ rows[u.id].ver = u.ver /\ BelowLimit)
  <2>1. UNCHANGED <<rows, lastAction>>
    BY <1>5 DEF Reactivate
  <2>2. TypeOK'
    BY <1>1, <1>2, <2>1 DEF Inv, TypeOK, procVars
  <2>3. HistoryInv' /\ RowsInv' /\ TickInv'
    BY <1>1, <2>1 DEF Inv, HistoryInv, RowsInv, RowOK, TickInv, TodoOK, CurOK, Held, SentBelow,
                      SentUpTo, procVars
  <2>4. UndoInv'
    BY <1>1, <1>2, <2>1 DEF Inv, UndoInv, UndoOK, SentBelow
  <2> QED
    BY <2>2, <2>3, <2>4 DEF Inv
<1> QED
  BY <1>4, <1>5

LEMMA UndoRefusedInv == ASSUME Inv, NEW t \in Turns, UndoRefused(t) PROVE Inv'
<1> USE DEF storeVars, procVars
<1>1. undos' = [undos EXCEPT ![t] = NoUndo] /\ UNCHANGED <<clock, storeVars, procVars, lastAction>>
  BY DEF UndoRefused
<1>2. undos' \in [Turns -> Undo] /\ undos'[t] = NoUndo /\ \A q \in Turns \ {t} : undos'[q] = undos[q]
  BY <1>1, NoReminderType DEF Inv, TypeOK
<1>3. TypeOK'
  BY <1>1, <1>2 DEF Inv, TypeOK
<1>4. HistoryInv' /\ RowsInv' /\ TickInv'
  BY <1>1 DEF Inv, HistoryInv, RowsInv, RowOK, TickInv, TodoOK, CurOK, Held, SentBelow, SentUpTo
<1>5. UndoInv'
  BY <1>1, <1>2 DEF Inv, UndoInv, UndoOK, SentBelow
<1> QED
  BY <1>3, <1>4, <1>5 DEF Inv

LEMMA StoreKept ==
  ASSUME Inv, UNCHANGED <<clock, rows, sent, undos>>
  PROVE  HistoryInv' /\ RowsInv' /\ UndoInv'
BY DEF Inv, HistoryInv, RowsInv, RowOK, UndoInv, UndoOK, SentBelow, SentUpTo

LEMMA TickKept ==
  ASSUME Inv, UNCHANGED <<clock, rows, sent, tick, snap>>
  PROVE  TickInv'
BY DEF Inv, TickInv, TodoOK, CurOK, Held, SentBelow, SentUpTo

LEMMA TickEnds ==
  ASSUME Inv, tick' = IdleTick, clock' = clock
  PROVE  TickInv'
BY InvTypes DEF TickInv, IdleTick, Sending

LEMMA BootInv == ASSUME Inv, NEW e \in EnabledChoices, Boot(e) PROVE Inv'
<1> USE DEF Boot, storeVars, ownerVars
<1>1. TypeOK'
  BY SystemAssumption DEF Inv, TypeOK
<1> QED
  BY <1>1, StoreKept, TickKept DEF Inv

LEMMA StartDisabledInv == ASSUME Inv, StartDisabled PROVE Inv'
<1> USE DEF StartDisabled, storeVars, ownerVars
<1>1. TypeOK'
  BY DEF Inv, TypeOK, DriverState
<1> QED
  BY <1>1, StoreKept, TickKept DEF Inv

LEMMA StartInv == ASSUME Inv, Start PROVE Inv'
<1> USE DEF storeVars, ownerVars
<1>1. UNCHANGED <<clock, rows, sent, undos, proc, enabled, timer, halts, lastAction>>
      /\ driver' = "STARTING"
  BY DEF Start
<1>2. PICK found \in SUBSET {r \in Ids : rows[r].status = "FIRING"} :
        /\ tick' = [IdleTick EXCEPT !.pc = "recovering", !.now = clock, !.todo = found]
        /\ snap' = [r \in Ids |-> IF r \in found THEN rows[r] ELSE NoReminder]
  BY DEF Start
<1>3. tick' \in Tick /\ tick'.pc = "recovering" /\ tick'.now = clock /\ tick'.todo = found
  BY <1>2, NoReminderType DEF Inv, TypeOK, Tick, TickPc, IdleTick
<1>4. snap' \in [Ids -> Reminder]
  BY <1>2, NoReminderType DEF Inv, TypeOK
<1>5. TypeOK'
  BY <1>1, <1>3, <1>4 DEF Inv, TypeOK, DriverState
<1>6. TickInv'
  <2>1. ASSUME NEW r \in found PROVE TodoOK(r)'
    <3>1. r \in Ids /\ rows[r].status = "FIRING" /\ rows[r].ver <= clock /\ SentUpTo(r, clock)
      BY <1>2 DEF Inv, RowsInv, RowOK, HistoryInv
    <3> QED
      BY <1>1, <1>2, <1>3, <3>1 DEF TodoOK, Held, SentUpTo
  <2> QED
    BY <1>1, <1>3, <2>1, InvTypes DEF TickInv, Sending
<1> QED
  BY <1>1, <1>5, <1>6, StoreKept DEF Inv

\* A row leaves the batch (todo): what is left of it is untouched.
LEMMA TodoShrinks ==
  ASSUME Inv, NEW r \in Ids, NEW todo \in SUBSET tick.todo, r \notin todo,
         tick'.todo = todo, tick'.now = tick.now,
         tick.pc # "idle", (tick'.pc = "recovering") = (tick.pc = "recovering"),
         UNCHANGED <<clock, sent, snap>>, \A q \in Ids \ {r} : rows'[q] = rows[q]
  PROVE  \A q \in todo : TodoOK(q)'
<1> SUFFICES ASSUME NEW q \in todo PROVE TodoOK(q)'
  OBVIOUS
<1>1. q \in Ids \ {r} /\ TodoOK(q)
  BY DEF Inv, TypeOK, Tick, TickInv
<1> QED
  BY <1>1 DEF TodoOK, Held, SentBelow, SentUpTo

LEMMA RecoverOneInv == ASSUME Inv, NEW r \in Ids, RecoverOne(r) PROVE Inv'
<1> USE DEF ownerVars
<1> DEFINE plan == RecoveryPlan(snap[r], tick.now)
           next == NextFrom(snap[r], tick.now)
<1>1. /\ tick.pc = "recovering" /\ r \in tick.todo /\ CompleteOrThrow(r, snap[r].token, plan)
      /\ tick' = [tick EXCEPT !.todo = @ \ {r}]
      /\ UNCHANGED <<clock, sent, proc, enabled, driver, timer, snap, halts, lastAction, undos>>
  BY DEF RecoverOne, IsFirst
<1>2. Held(r) /\ SentUpTo(r, tick.now) /\ rows[r] \in Reminder /\ tick.now \in Time
      /\ tick.now \in Nat
  BY <1>1, InvTypes DEF Inv, TickInv, TodoOK
<1>3. snap[r].occ \in Nat /\ snap[r].occ <= tick.now /\ snap[r] \in Reminder
  BY <1>2, InvTypes DEF Inv, RowsInv, RowOK, Held
<1>4. next \in Nat /\ next > tick.now
  BY <1>2, <1>3, NextIsLater DEF NextFrom, LaterOf
<1>5. Sound(r, plan)
  <2>1. "UNCERTAIN" \in DeliveryResult /\ ~Retries(snap[r], "UNCERTAIN")
    BY DEF DeliveryResult, Retries
  <2>2. /\ plan \in Completion /\ plan.ver = tick.now
        /\ plan.status = "SCHEDULED" => plan.occ = next /\ plan.fireAt = next
    BY <1>2, <1>3, <1>4, <2>1, FiringPlan DEF RecoveryPlan
  <2>3. SentBelow(r, next)
    BY <1>2, <1>4, InvTypes DEF SentUpTo, SentBelow
  <2> QED
    BY <1>4, <2>2, <2>3 DEF Sound
<1> HIDE DEF plan
<1>6. /\ rows' \in [Ids -> Reminder] /\ \A q \in Ids \ {r} : rows'[q] = rows[q]
      /\ RowsInv' /\ UndoInv'
  BY <1>1, <1>2, <1>5, CompletionKeeps
<1>7. tick \in Tick
  BY DEF Inv, TypeOK
<1>8. tick' \in Tick /\ tick'.todo = tick.todo \ {r} /\ tick'.now = tick.now
      /\ tick'.pc = "recovering"
  BY <1>1, <1>7 DEF Tick
<1>9. TypeOK'
  BY <1>1, <1>6, <1>8 DEF Inv, TypeOK
<1>10. HistoryInv'
  BY <1>1 DEF Inv, HistoryInv, SentUpTo
<1>11. TickInv'
  <2>1. \A q \in tick'.todo : TodoOK(q)'
    BY <1>1, <1>6, <1>8, TodoShrinks
  <2> QED
    BY <1>1, <1>8, <2>1 DEF Inv, TickInv, Sending
<1> QED
  BY <1>6, <1>9, <1>10, <1>11 DEF Inv

LEMMA NoSnapType == [r \in Ids |-> NoReminder] \in [Ids -> Reminder]
BY NoReminderType

LEMMA EndRecoveryInv == ASSUME Inv, EndRecovery PROVE Inv'
<1> USE DEF EndRecovery, storeVars, ownerVars
<1>1. TypeOK'
  BY NoReminderType, NoSnapType DEF Inv, TypeOK, DriverState
<1> QED
  BY <1>1, StoreKept, TickEnds DEF Inv

LEMMA EndTickInv == ASSUME Inv, EndTick PROVE Inv'
<1> USE DEF EndTick, storeVars, ownerVars
<1>1. TypeOK'
  BY NoReminderType, NoSnapType DEF Inv, TypeOK
<1> QED
  BY <1>1, StoreKept, TickEnds DEF Inv

LEMMA StopInv == ASSUME Inv, Stop PROVE Inv'
<1> USE DEF Stop, storeVars, ownerVars
<1>0. halts' \in 0..MaxHalts
  BY SystemAssumption DEF Inv, TypeOK
<1>1. TypeOK'
  BY <1>0 DEF Inv, TypeOK, DriverState
<1> QED
  BY <1>1, StoreKept, TickKept DEF Inv

LEMMA StopTimeoutInv == ASSUME Inv, StopTimeout PROVE Inv'
<1> USE DEF StopTimeout, storeVars, ownerVars
<1>1. TypeOK'
  BY DEF Inv, TypeOK, DriverState
<1> QED
  BY <1>1, StoreKept, TickKept DEF Inv

\* A crash or an exit loses the tick and the undo turns; the table and the history stay.
LEMMA GoDownInv == ASSUME Inv, GoDown, halts' \in 0..MaxHalts PROVE Inv'
<1> USE DEF GoDown, storeVars
<1>0. undos' \in [Turns -> Undo] /\ snap' \in [Ids -> Reminder] /\ tick' \in Tick
  BY NoReminderType, NoSnapType
<1>1. TypeOK'
  BY <1>0 DEF Inv, TypeOK, DriverState
<1>2. HistoryInv' /\ RowsInv'
  BY DEF Inv, HistoryInv, RowsInv, RowOK, SentBelow, SentUpTo
<1>3. UndoInv'
  BY DEF UndoInv, UndoOK
<1> QED
  BY <1>1, <1>2, <1>3, TickEnds DEF Inv

LEMMA DownInv == ASSUME Inv, Exit \/ Crash PROVE Inv'
<1>1. GoDown
  BY DEF Exit, Crash
<1>2. halts' \in 0..MaxHalts
  BY SystemAssumption DEF Exit, Crash, Inv, TypeOK
<1> QED
  BY <1>1, <1>2, GoDownInv

LEMMA OnTimerInv ==
  ASSUME Inv, NEW S \in SUBSET DueRows, NEW a \in Attempts, OnTimer(S, a)
  PROVE  Inv'
<1> USE DEF ownerVars
<1>1. /\ UNCHANGED <<clock, sent, proc, enabled, driver, halts, lastAction, undos>> /\ timer' = FALSE
      /\ rows' = [r \in Ids |-> IF r \in S THEN ClaimReminder(rows[r], a, clock) ELSE rows[r]]
      /\ snap' = [r \in Ids |-> IF r \in S THEN rows'[r] ELSE NoReminder]
      /\ tick' = [IdleTick EXCEPT !.pc = "loop", !.now = clock, !.attempt = a, !.todo = S]
  BY DEF OnTimer, ClaimDue
<1>2. S \subseteq Ids /\ clock \in Nat /\ \A r \in S : rows[r].status = "SCHEDULED" /\ rows[r].fireAt <= clock
  BY InvTypes DEF DueRows
<1>3. ASSUME NEW r \in S
      PROVE  /\ rows'[r] \in Reminder /\ rows'[r].status = "FIRING" /\ rows'[r].ver = clock
             /\ rows'[r].occ = rows[r].occ /\ rows'[r].event = rows[r].event
             /\ rows'[r].recurring = rows[r].recurring
  <2>1. rows'[r] = ClaimReminder(rows[r], a, clock) /\ rows[r] \in Reminder
    BY <1>1, <1>2, InvTypes
  <2> QED
    BY <1>2, <2>1 DEF ClaimReminder, Reminder, ReminderStatus, ActiveStatus, Instant
<1>4. \A r \in Ids \ S : rows'[r] = rows[r] /\ rows[r] \in Reminder
  BY <1>1, InvTypes
<1>5. rows' \in [Ids -> Reminder]
  BY <1>1, <1>3, <1>4
<1>6. snap' \in [Ids -> Reminder] /\ \A r \in S : snap'[r] = rows'[r]
  BY <1>1, <1>2, <1>5, NoReminderType
<1>7. tick' \in Tick /\ tick'.pc = "loop" /\ tick'.now = clock /\ tick'.todo = S
  BY <1>1, <1>2, NoReminderType DEF Inv, TypeOK, Tick, TickPc, IdleTick
<1>8. TypeOK'
  BY <1>1, <1>5, <1>6, <1>7 DEF Inv, TypeOK
<1>9. HistoryInv'
  BY <1>1 DEF Inv, HistoryInv, SentUpTo
<1>10. ASSUME NEW r \in S
       PROVE  rows[r].occ \in Nat /\ rows[r].occ <= clock /\ SentBelow(r, rows[r].occ)
              /\ (rows[r].event => ~rows[r].recurring) /\ rows[r].ver <= clock
  BY <1>2 DEF Inv, RowsInv, RowOK
<1>11. RowsInv'
  <2> SUFFICES ASSUME NEW r \in Ids PROVE RowOK(r)'
    BY DEF RowsInv
  <2>1. CASE r \in S
    BY <2>1, <1>1, <1>2, <1>3, <1>10 DEF RowOK
  <2>2. CASE r \notin S
    BY <2>2, <1>1, <1>4 DEF Inv, RowsInv, RowOK, SentBelow
  <2> QED
    BY <2>1, <2>2
<1>12. TickInv'
  <2>1. ASSUME NEW r \in S PROVE TodoOK(r)'
    <3>1. SentBelow(r, rows[r].occ)'
      BY <1>1, <1>3, <1>10 DEF SentBelow
    <3> QED
      BY <3>1, <1>1, <1>2, <1>3, <1>6, <1>7 DEF TodoOK, Held, SentBelow
  <2> QED
    BY <1>1, <1>2, <1>7, <2>1 DEF TickInv, Sending
<1>13. UndoInv'
  <2> SUFFICES ASSUME NEW t \in Turns PROVE UndoOK(t)'
    BY DEF UndoInv
  <2>1. UndoOK(t) /\ undos[t].ver \in Int
    BY InvTypes DEF Inv, UndoInv
  <2>2. \A r \in Ids : rows'[r].ver >= rows[r].ver /\ rows[r].ver \in Int /\ rows'[r].ver \in Int
    BY <1>2, <1>3, <1>4, <1>10, InvTypes
  <2>3. undos'[t] = undos[t] /\ clock' = clock /\ sent' = sent
    BY <1>1
  <2> QED
    BY <2>1, <2>2, <2>3 DEF UndoOK, SentBelow
<1> QED
  BY <1>8, <1>9, <1>11, <1>12, <1>13 DEF Inv

----------------------------------------------------------------------------
(* The dispatcher. *)

\* What holds of a reminder the loop takes up.
LEMMA TakenFacts ==
  ASSUME Inv, NEW r \in Ids, Takes(r)
  PROVE  /\ tick.pc = "loop" /\ r \in tick.todo /\ Held(r) /\ rows[r].ver = tick.now
         /\ SentBelow(r, rows[r].occ) /\ rows[r] \in Reminder /\ snap[r] = rows[r]
         /\ rows[r].occ \in Nat /\ rows[r].occ <= tick.now /\ tick.now \in Time /\ tick.now \in Nat
         /\ DueOccurrence(rows[r].occ, tick.now) \in Nat
         /\ rows[r].occ <= DueOccurrence(rows[r].occ, tick.now)
         /\ DueOccurrence(rows[r].occ, tick.now) <= tick.now
<1>1. tick.pc = "loop" /\ r \in tick.todo
  BY DEF Takes, IsFirst
<1>2. Held(r) /\ rows[r].ver = tick.now /\ SentBelow(r, rows[r].occ) /\ snap[r] = rows[r]
  BY <1>1 DEF Inv, TickInv, TodoOK, Held
<1>3. rows[r] \in Reminder /\ tick.now \in Time /\ tick.now \in Nat
  BY InvTypes
<1>4. rows[r].occ \in Nat /\ rows[r].occ <= tick.now
  BY <1>2 DEF Inv, RowsInv, RowOK, Held
<1> QED
  BY <1>1, <1>2, <1>3, <1>4, DueIsBetween

\* What lies above everything sent stays above it when it grows.
LEMMA SentBelowGrows ==
  ASSUME Inv, NEW r \in Ids, NEW o \in Nat, NEW p \in Nat, SentBelow(r, o), o <= p
  PROVE  SentBelow(r, p)
<1>1. sent[r] \in Seq(Nat)
  BY DEF Inv, TypeOK
<1>2. ASSUME NEW i \in 1..Len(sent[r]) PROVE sent[r][i] < p
  <2>1. sent[r][i] \in Nat
    BY <1>1
  <2>2. sent[r][i] < o
    BY <1>2 DEF SentBelow
  <2> QED
    BY <2>1, <2>2
<1> QED
  BY <1>2 DEF SentBelow

LEMMA SkipMissedInv == ASSUME Inv, NEW r \in Ids, SkipMissed(r) PROVE Inv'
<1> USE DEF ownerVars
<1> DEFINE due == DueOccurrence(snap[r].occ, tick.now)
           next == NextOccurrenceAfter(tick.now)
           plan == PlanAdvance("SKIPPED_MISSED", due, next, tick.now)
<1>1. /\ Takes(r) /\ CompleteOrThrow(r, tick.attempt, plan)
      /\ tick' = [tick EXCEPT !.todo = @ \ {r}]
      /\ UNCHANGED <<clock, sent, proc, enabled, driver, timer, snap, halts, lastAction, undos>>
  BY DEF SkipMissed
<1>2. next \in Nat /\ next > tick.now
  BY <1>1, TakenFacts, NextIsLater
<1>3. Sound(r, plan)
  <2>1. "SKIPPED_MISSED" \in OccurrenceOutcome
    BY DEF OccurrenceOutcome
  <2>2. plan \in Completion /\ plan.ver = tick.now /\ plan.occ = next /\ plan.fireAt = next
    BY <1>1, <1>2, <2>1, TakenFacts, AdvancePlan
  <2>3. SentBelow(r, next)
    <3>1. rows[r].occ \in Nat /\ rows[r].occ <= next /\ SentBelow(r, rows[r].occ)
      <4>1. rows[r].occ \in Nat /\ rows[r].occ <= tick.now /\ tick.now \in Nat
        BY <1>1, TakenFacts
      <4>2. SentBelow(r, rows[r].occ)
        BY <1>1, TakenFacts
      <4> HIDE DEF next
      <4> QED
        BY <1>2, <4>1, <4>2
    <3> HIDE DEF next
    <3> QED
      BY <1>2, <3>1, SentBelowGrows
  <2> HIDE DEF plan, next
  <2> QED
    BY <1>2, <2>2, <2>3 DEF Sound
<1> HIDE DEF plan
<1>4. /\ rows' \in [Ids -> Reminder] /\ \A q \in Ids \ {r} : rows'[q] = rows[q]
      /\ RowsInv' /\ UndoInv'
  BY <1>1, <1>3, TakenFacts, CompletionKeeps
<1>5. tick \in Tick /\ tick.pc = "loop"
  BY <1>1, TakenFacts DEF Inv, TypeOK
<1>6. tick' \in Tick /\ tick'.todo = tick.todo \ {r} /\ tick'.now = tick.now /\ tick'.pc = "loop"
  BY <1>1, <1>5 DEF Tick
<1>7. TypeOK'
  BY <1>1, <1>4, <1>6 DEF Inv, TypeOK
<1>8. HistoryInv'
  BY <1>1 DEF Inv, HistoryInv, SentUpTo
<1>9. TickInv'
  <2>1. \A q \in tick'.todo : TodoOK(q)'
    BY <1>1, <1>4, <1>5, <1>6, TodoShrinks
  <2> QED
    BY <1>1, <1>6, <2>1 DEF Inv, TickInv, Sending
<1> QED
  BY <1>4, <1>7, <1>8, <1>9 DEF Inv

LEMMA StartOneInv == ASSUME Inv, NEW r \in Ids, StartOne(r) PROVE Inv'
<1> USE DEF ownerVars, storeVars
<1> DEFINE occ == DeliveredOccurrence(snap[r], tick.now)
           pc == IF snap[r].event THEN "rechecking" ELSE "delivering"
<1>1. /\ Takes(r)
      /\ tick' = [tick EXCEPT !.pc = pc, !.todo = @ \ {r}, !.cur = r, !.occ = occ,
                              !.result = "NONE", !.gone = FALSE]
      /\ UNCHANGED <<clock, rows, sent, proc, enabled, driver, timer, snap, halts, lastAction, undos>>
  BY DEF StartOne
<1>2. /\ occ \in Nat /\ rows[r].occ <= occ /\ occ <= tick.now
      /\ ~rows[r].recurring => occ = rows[r].occ
  BY <1>1, TakenFacts DEF DeliveredOccurrence
<1>3. tick \in Tick /\ tick.pc = "loop" /\ r \in tick.todo
  BY <1>1, TakenFacts DEF Inv, TypeOK
<1>4. SentBelow(r, occ) /\ SentUpTo(r, occ)
  <2>1. SentBelow(r, rows[r].occ) /\ rows[r].occ \in Nat
    BY <1>1, TakenFacts
  <2>2. \A i \in 1..Len(sent[r]) : sent[r][i] \in Nat
    BY InvTypes
  <2> HIDE DEF occ
  <2> QED
    BY <1>2, <2>1, <2>2 DEF SentBelow, SentUpTo
<1> HIDE DEF occ
<1>5. /\ tick' \in Tick /\ tick'.todo = tick.todo \ {r} /\ tick'.now = tick.now /\ tick'.pc = pc
      /\ tick'.cur = r /\ tick'.occ = occ /\ tick'.gone = FALSE /\ tick'.pc # "recovering"
  BY <1>1, <1>2, <1>3 DEF Tick, TickPc, Instant
<1>6. TypeOK'
  BY <1>1, <1>5 DEF Inv, TypeOK
<1>7. TickInv'
  <2>1. \A q \in tick'.todo : TodoOK(q)'
    <3>1. tick.pc # "idle" /\ (tick'.pc = "recovering") = (tick.pc = "recovering")
      BY <1>3, <1>5
    <3>2. tick.todo \ {r} \in SUBSET tick.todo /\ r \notin tick.todo \ {r}
      OBVIOUS
    <3>3. \A q \in Ids \ {r} : rows'[q] = rows[q]
      BY <1>1
    <3>4. UNCHANGED <<clock, sent, snap>>
      BY <1>1
    <3> HIDE DEF pc
    <3> QED
      BY <1>5, <3>1, <3>2, <3>3, <3>4, TodoShrinks
  <2>2. CurOK'
    <3>1. Held(r) /\ rows[r].ver = tick.now /\ snap[r] = rows[r]
      BY <1>1, TakenFacts
    <3>2. Held(tick.cur)' /\ rows'[r].ver = tick'.now
      BY <3>1, <1>1, <1>5 DEF Held
    <3>3. SentBelow(tick.cur, tick.occ)' /\ SentUpTo(tick.cur, tick.occ)'
      BY <1>1, <1>4, <1>5 DEF SentBelow, SentUpTo
    <3> QED
      BY <1>1, <1>2, <1>5, <3>1, <3>2, <3>3 DEF CurOK
  <2> QED
    BY <1>1, <1>3, <1>5, <2>1, <2>2 DEF Inv, TickInv
<1> QED
  BY <1>1, <1>6, <1>7, StoreKept DEF Inv

LEMMA RecheckDeliversInv == ASSUME Inv, NEW gone \in BOOLEAN, RecheckDelivers(gone) PROVE Inv'
<1> USE DEF ownerVars, storeVars
<1>1. /\ tick.pc = "rechecking" /\ tick' = [tick EXCEPT !.pc = "delivering", !.gone = gone]
      /\ UNCHANGED <<clock, rows, sent, proc, enabled, driver, timer, snap, halts, lastAction, undos>>
  BY DEF RecheckDelivers
<1>2. tick \in Tick
  BY DEF Inv, TypeOK
<1>3. /\ tick' \in Tick /\ tick'.todo = tick.todo /\ tick'.now = tick.now /\ tick'.pc = "delivering"
      /\ tick'.cur = tick.cur /\ tick'.occ = tick.occ /\ tick'.gone = gone
  BY <1>1, <1>2 DEF Tick, TickPc
<1>4. TypeOK'
  BY <1>1, <1>3 DEF Inv, TypeOK
<1>5. TickInv'
  <2>1. \A q \in tick.todo : TodoOK(q)'
    BY <1>1, <1>3 DEF Inv, TickInv, TodoOK, Held, SentBelow, SentUpTo
  <2>2. CurOK'
    BY <1>1, <1>3 DEF Inv, TickInv, Sending, CurOK, Held, SentBelow, SentUpTo
  <2> QED
    BY <1>1, <1>3, <2>1, <2>2 DEF Inv, TickInv
<1> QED
  BY <1>1, <1>4, <1>5, StoreKept DEF Inv

\* The current reminder is settled and the loop goes on with the rest of the batch.
LEMMA BackToLoopInv ==
  ASSUME Inv, tick.pc \in Sending, NEW plan, Sound(tick.cur, plan),
         CompleteOrThrow(tick.cur, tick.attempt, plan), tick' = BackToLoop,
         UNCHANGED <<clock, sent, proc, enabled, driver, timer, snap, halts, lastAction, undos>>
  PROVE  Inv'
<1>1. tick \in Tick /\ tick.cur \in Ids /\ Held(tick.cur) /\ tick.cur \notin tick.todo
  BY DEF Inv, TypeOK, TickInv, CurOK
<1>2. /\ rows' \in [Ids -> Reminder] /\ \A q \in Ids \ {tick.cur} : rows'[q] = rows[q]
      /\ RowsInv' /\ UndoInv'
  BY <1>1, CompletionKeeps
<1>3. tick' \in Tick /\ tick'.todo = tick.todo /\ tick'.now = tick.now /\ tick'.pc = "loop"
  BY <1>1 DEF BackToLoop, Tick, TickPc, Instant
<1>4. TypeOK'
  BY <1>2, <1>3 DEF Inv, TypeOK
<1>5. HistoryInv'
  BY DEF Inv, HistoryInv, SentUpTo
<1>6. TickInv'
  <2>1. tick.pc # "idle" /\ (tick'.pc = "recovering") = (tick.pc = "recovering")
    BY <1>3 DEF Sending
  <2>2. \A q \in tick'.todo : TodoOK(q)'
    BY <1>1, <1>2, <1>3, <2>1, TodoShrinks
  <2> QED
    BY <1>3, <2>2 DEF Inv, TickInv, Sending
<1> QED
  BY <1>2, <1>4, <1>5, <1>6 DEF Inv

LEMMA RecheckMovedLaterInv == ASSUME Inv, NEW due \in Time, RecheckMovedLater(due) PROVE Inv'
<1> USE DEF ownerVars
<1> DEFINE plan == PlanEventReschedule(due, tick.now)
<1>1. /\ tick.pc = "rechecking" /\ due > tick.now /\ CompleteOrThrow(tick.cur, tick.attempt, plan)
      /\ tick' = BackToLoop
      /\ UNCHANGED <<clock, sent, proc, enabled, driver, timer, snap, halts, lastAction, undos>>
  BY DEF RecheckMovedLater
<1>2. due \in Nat /\ tick.now \in Nat
  BY InvTypes, TimeAssumption DEF Time
<1>3. CurOK
  BY <1>1 DEF Inv, TickInv, Sending
<1>4. SentBelow(tick.cur, due)
  <2>1. \A i \in 1..Len(sent[tick.cur]) : sent[tick.cur][i] \in Nat
    BY <1>3, InvTypes DEF CurOK
  <2> QED
    BY <1>1, <1>2, <1>3, <2>1 DEF CurOK, SentBelow, SentUpTo
<1>5. plan \in Completion /\ plan.ver = tick.now /\ plan.occ = due /\ plan.fireAt = due
  BY <1>2, ReschedulePlan
<1> HIDE DEF plan
<1>6. Sound(tick.cur, plan)
  BY <1>2, <1>4, <1>5 DEF Sound
<1> QED
  BY <1>1, <1>6, BackToLoopInv DEF Sending

\* The single send of a claim: above everything sent before it.
LEMMA DeliverFacts ==
  ASSUME Inv, NEW result \in DeliveryResult, Deliver(result)
  PROVE  /\ tick.pc = "delivering" /\ CurOK /\ SentBelow(tick.cur, tick.occ)
         /\ \/ sent' = sent
            \/ /\ sent' = [sent EXCEPT ![tick.cur] = Append(@, tick.occ)]
               /\ result \in {"SENT", "UNCERTAIN"}
<1>1. tick.pc = "delivering"
  BY DEF Deliver
<1>2. CurOK
  BY <1>1 DEF Inv, TickInv, Sending
<1>3. SentBelow(tick.cur, tick.occ)
  BY <1>1, <1>2 DEF CurOK
<1>4. PICK t \in Transmitted(result) :
        sent' = IF t THEN [sent EXCEPT ![tick.cur] = Append(@, tick.occ)] ELSE sent
  BY DEF Deliver
<1>5. t => result \in {"SENT", "UNCERTAIN"}
  BY DEF Transmitted, DeliveryResult
<1> QED
  BY <1>1, <1>2, <1>3, <1>4, <1>5

LEMMA DeliverInv == ASSUME Inv, NEW result \in DeliveryResult, Deliver(result) PROVE Inv'
<1> USE DEF ownerVars
<1> DEFINE c == tick.cur
<1>1. /\ tick' = [tick EXCEPT !.pc = "delivered", !.result = result]
      /\ UNCHANGED <<clock, rows, proc, enabled, driver, timer, snap, halts, lastAction, undos>>
  BY DEF Deliver
<1>2. tick.pc = "delivering" /\ CurOK /\ c \in Ids /\ tick.occ \in Nat /\ tick.occ <= tick.now
      /\ tick.now <= clock /\ tick.now \in Nat /\ clock \in Nat
  BY DeliverFacts, InvTypes DEF CurOK, Inv, TickInv
<1>3. tick \in Tick /\ sent \in [Ids -> Seq(Nat)]
  BY DEF Inv, TypeOK
<1>4. /\ tick' \in Tick /\ tick'.todo = tick.todo /\ tick'.now = tick.now /\ tick'.pc = "delivered"
      /\ tick'.cur = c /\ tick'.occ = tick.occ /\ tick'.gone = tick.gone /\ tick'.result = result
  BY <1>1, <1>3 DEF Tick, TickPc
<1>5. /\ sent' \in [Ids -> Seq(Nat)] /\ \A q \in Ids \ {c} : sent'[q] = sent[q]
      /\ SentUpTo(c, tick.occ)'
      /\ result \notin {"SENT", "UNCERTAIN"} => sent' = sent
  <2>1. CASE sent' = sent
    BY <2>1, <1>2, <1>3, <1>4 DEF CurOK, SentUpTo
  <2>2. CASE /\ sent' = [sent EXCEPT ![c] = Append(@, tick.occ)]
             /\ result \in {"SENT", "UNCERTAIN"}
    <3>1. sent'[c] = Append(sent[c], tick.occ) /\ \A q \in Ids \ {c} : sent'[q] = sent[q]
      BY <2>2, <1>2, <1>3
    <3>2. sent[c] \in Seq(Nat) /\ Append(sent[c], tick.occ) \in Seq(Nat)
      BY <1>2, <1>3
    <3>3. sent' \in [Ids -> Seq(Nat)]
      BY <2>2, <3>2, <1>2, <1>3
    <3>4. \A i \in 1..Len(sent'[c]) : sent'[c][i] <= tick.occ
      <4>1. SentBelow(c, tick.occ)
        BY DeliverFacts
      <4> QED
        BY <4>1, <3>1, <3>2, <1>2 DEF SentBelow
    <3> QED
      BY <2>2, <3>1, <3>3, <3>4, <1>4 DEF SentUpTo
  <2> QED
    BY <2>1, <2>2, DeliverFacts
<1>6. TypeOK'
  BY <1>1, <1>4, <1>5 DEF Inv, TypeOK
<1>7. HistoryInv'
  <2> SUFFICES ASSUME NEW q \in Ids PROVE SentUpTo(q, clock)'
    BY DEF HistoryInv
  <2>1. CASE q = c
    <3>1. \A i \in 1..Len(sent'[c]) : sent'[c][i] <= tick.occ /\ sent'[c][i] \in Nat
      BY <1>2, <1>4, <1>5 DEF SentUpTo
    <3> QED
      BY <2>1, <3>1, <1>1, <1>2 DEF SentUpTo
  <2>2. CASE q # c
    BY <2>2, <1>1, <1>5 DEF Inv, HistoryInv, SentUpTo
  <2> QED
    BY <2>1, <2>2
<1>8. rows[c].status = "FIRING" /\ rows[c].ver = tick.now /\ c \notin tick.todo
  BY <1>2 DEF CurOK, Held
<1>9. RowsInv'
  <2> SUFFICES ASSUME NEW q \in Ids PROVE RowOK(q)'
    BY DEF RowsInv
  <2>1. RowOK(q)
    BY DEF Inv, RowsInv
  <2>2. CASE q = c
    BY <2>1, <2>2, <1>1, <1>8 DEF RowOK
  <2>3. CASE q # c
    BY <2>1, <2>3, <1>1, <1>5 DEF RowOK, SentBelow
  <2> QED
    BY <2>2, <2>3
<1>10. TickInv'
  <2>1. ASSUME NEW q \in tick.todo PROVE TodoOK(q)'
    <3>1. q \in Ids \ {c} /\ TodoOK(q)
      BY <1>3, <1>8 DEF Inv, TickInv, Tick
    <3> QED
      BY <3>1, <1>1, <1>2, <1>4, <1>5 DEF TodoOK, Held, SentBelow
  <2>2. CurOK'
    <3>1. Held(tick.cur)'
      BY <1>1, <1>2, <1>4 DEF CurOK, Held
    <3>2. SentUpTo(tick.cur, tick.occ)'
      BY <1>4, <1>5 DEF SentUpTo
    <3>3. result \notin {"SENT", "UNCERTAIN"} => SentBelow(tick.cur, tick.occ)'
      BY <1>4, <1>5, DeliverFacts DEF SentBelow
    <3> QED
      BY <3>1, <3>2, <3>3, <1>1, <1>2, <1>4 DEF CurOK
  <2> QED
    BY <1>1, <1>2, <1>4, <2>1, <2>2 DEF TickInv
<1>11. UndoInv'
  <2> SUFFICES ASSUME NEW t \in Turns PROVE UndoOK(t)'
    BY DEF UndoInv
  <2> DEFINE u == undos[t]
  <2>1. UndoOK(t) /\ undos'[t] = u /\ u.ver \in Int /\ u.row.ver \in Int
    BY <1>1, InvTypes DEF Inv, UndoInv
  <2>2. CASE u = NoUndo \/ u.id # c
    BY <2>1, <2>2, <1>1, <1>5 DEF UndoOK, SentBelow
  <2>3. CASE u # NoUndo /\ u.id = c
    <3>1. u.row.occ \in Nat /\ u.ver < u.row.occ
      BY <2>1, <2>3 DEF UndoOK
    <3>2. CASE tick.occ >= u.row.occ
      <4>1. rows[c].ver > u.ver
        BY <3>1, <3>2, <2>1, <1>2, <1>8
      <4> QED
        BY <4>1, <2>1, <2>3, <1>1 DEF UndoOK
    <3>3. CASE tick.occ < u.row.occ
      <4>1. \A i \in 1..Len(sent'[c]) : sent'[c][i] <= tick.occ /\ sent'[c][i] \in Nat
        BY <1>2, <1>4, <1>5 DEF SentUpTo
      <4>2. \A i \in 1..Len(sent'[c]) : sent'[c][i] < u.row.occ
        BY <4>1, <3>1, <3>3, <1>2
      <4> QED
        BY <4>2, <2>1, <2>3, <1>1 DEF UndoOK, SentBelow
    <3> QED
      BY <3>1, <3>2, <3>3, <1>2
  <2> QED
    BY <2>2, <2>3
<1> QED
  BY <1>6, <1>7, <1>9, <1>10, <1>11 DEF Inv

LEMMA CompleteInv == ASSUME Inv, Complete PROVE Inv'
<1> USE DEF ownerVars
<1> DEFINE c == tick.cur
           plan == DeliveryPlan(snap[c])
           next == NextFrom(snap[c], LaterOf(tick.now, tick.occ))
<1>1. /\ tick.pc = "delivered" /\ CompleteOrThrow(c, tick.attempt, plan) /\ tick' = BackToLoop
      /\ UNCHANGED <<clock, sent, proc, enabled, driver, timer, snap, halts, lastAction, undos>>
  BY DEF Complete
<1>2. CurOK
  BY <1>1 DEF Inv, TickInv, Sending
<1>3. /\ c \in Ids /\ snap[c] = rows[c] /\ snap[c] \in Reminder /\ tick.occ \in Nat
      /\ snap[c].occ <= tick.occ /\ tick.occ <= tick.now /\ tick.now \in Time /\ tick.now \in Nat
      /\ snap[c].occ \in Nat
  BY <1>2, InvTypes DEF CurOK, Held, Inv, RowsInv, RowOK
<1>4. next \in Nat /\ next > tick.occ /\ next > tick.now
  BY <1>3, NextIsLater DEF NextFrom, LaterOf
<1>5. tick.result \in DeliveryResult
  BY <1>1, <1>2 DEF CurOK
<1>6. Retries(snap[c], tick.result) => SentBelow(c, tick.occ)
  BY <1>1, <1>2 DEF Retries, CurOK
<1>7. SentBelow(c, next)
  <2>1. \A i \in 1..Len(sent[c]) : sent[c][i] \in Nat
    BY <1>3, InvTypes
  <2> HIDE DEF next
  <2> QED
    BY <1>2, <1>3, <1>4, <2>1 DEF CurOK, SentBelow, SentUpTo
<1>8. Sound(c, plan)
  <2>1. CASE tick.gone
    <3>1. plan = PlanEventCanceled(snap[c], tick.result, tick.now)
      BY <2>1 DEF DeliveryPlan
    <3>2. tick.occ = snap[c].occ
      BY <2>1, <1>2, <1>3 DEF CurOK, Inv, RowsInv, RowOK
    <3>3. /\ plan \in Completion /\ plan.ver = tick.now
          /\ plan.status = "SCHEDULED" =>
               /\ Retries(snap[c], tick.result) /\ plan.occ = snap[c].occ /\ plan.fireAt \in Nat
               /\ plan.fireAt >= tick.now
      BY <1>3, <1>5, <3>1, EventCanceledPlan
    <3> HIDE DEF plan
    <3> QED
      BY <1>3, <1>6, <3>2, <3>3 DEF Sound
  <2>2. CASE ~tick.gone
    <3>1. plan = PlanFiringCompletion(snap[c], tick.result, tick.occ, next, tick.now)
      BY <2>2 DEF DeliveryPlan
    <3>2. /\ plan \in Completion /\ plan.ver = tick.now
          /\ plan.status = "SCHEDULED" =>
               \/ /\ Retries(snap[c], tick.result) /\ plan.occ = tick.occ /\ plan.fireAt \in Nat
                  /\ plan.fireAt >= tick.now
               \/ plan.occ = next /\ plan.fireAt = next
      BY <1>3, <1>4, <1>5, <3>1, FiringPlan
    <3> HIDE DEF plan, next
    <3> QED
      BY <1>3, <1>4, <1>6, <1>7, <3>2 DEF Sound
  <2> QED
    BY <2>1, <2>2
<1> HIDE DEF plan
<1> QED
  BY <1>1, <1>8, BackToLoopInv DEF Sending

----------------------------------------------------------------------------
(* The theorems. *)

LEMMA NextInv == ASSUME Inv, Next PROVE Inv'
<1>1. CASE AdvanceClock
  BY <1>1, AdvanceClockInv
<1>2. CASE Owner
  BY <1>2, CreateInv, CancelInv, UndoReadInv, ReactivateInv, UndoRefusedInv DEF Owner
<1>3. CASE Lifecycle
  BY <1>3, BootInv, StartInv, StartDisabledInv, EndRecoveryInv, EndTickInv, RecoverOneInv,
     OnTimerInv, StopInv, StopTimeoutInv, DownInv DEF Lifecycle
<1>4. CASE Dispatch
  BY <1>4, SkipMissedInv, StartOneInv, RecheckDeliversInv, RecheckMovedLaterInv, DeliverInv,
     CompleteInv DEF Dispatch
<1> QED
  BY <1>1, <1>2, <1>3, <1>4 DEF Next

LEMMA StutterInv == ASSUME Inv, UNCHANGED vars PROVE Inv'
<1> USE DEF vars
<1>1. TypeOK'
  BY DEF Inv, TypeOK
<1> QED
  BY <1>1, StoreKept, TickKept DEF Inv

\* The whole inductive invariant holds in every reachable state, whatever the reminders, the
\* recurrence, the bounds, the crashes and the concurrent undo turns.
THEOREM InvHolds == Spec => []Inv
<1>1. Inv /\ [Next]_vars => Inv'
  BY NextInv, StutterInv
<1> QED
  BY InitInv, <1>1, PTL DEF Spec

\* The state stays well typed: no completion, retry or undo writes a malformed row.
THEOREM TypeCorrect == Spec => []TypeOK
<1>1. Inv => TypeOK
  BY DEF Inv
<1> QED
  BY InvHolds, <1>1, PTL

\* Only deliverOnce changes the history, and what it sends lies above everything sent before.
LEMMA SentStep ==
  ASSUME Inv, [Next]_vars
  PROVE  \/ sent' = sent
         \/ \E r \in Ids : \E o \in Nat :
              SentBelow(r, o) /\ sent' = [sent EXCEPT ![r] = Append(@, o)]
<1>1. CASE \E result \in DeliveryResult : Deliver(result)
  <2>1. PICK result \in DeliveryResult : Deliver(result)
    BY <1>1
  <2>2. tick.cur \in Ids /\ tick.occ \in Nat
    BY <2>1, DeliverFacts DEF CurOK
  <2> QED
    BY <2>1, <2>2, DeliverFacts
<1>2. CASE UNCHANGED vars
  BY <1>2 DEF vars
<1>3. CASE AdvanceClock \/ Owner
  BY <1>3 DEF AdvanceClock, Owner, Create, Cancel, UndoRead, Reactivate, UndoRefused, storeVars
<1>4. CASE Lifecycle
  BY <1>4 DEF Lifecycle, Boot, Start, StartDisabled, EndRecovery, EndTick, RecoverOne, OnTimer, Stop,
     StopTimeout, Exit, Crash, GoDown, storeVars
<1>5. CASE Dispatch /\ ~(\E result \in DeliveryResult : Deliver(result))
  BY <1>5 DEF Dispatch, SkipMissed, StartOne, RecheckDelivers, RecheckMovedLater, Complete, storeVars
<1> QED
  BY <1>1, <1>2, <1>3, <1>4, <1>5 DEF Next

LEMMA AtMostOnceStep == ASSUME Inv, AtMostOnce, [Next]_vars PROVE AtMostOnce'
<1>1. CASE sent' = sent
  BY <1>1 DEF AtMostOnce
<1>2. CASE \E r \in Ids : \E o \in Nat :
             SentBelow(r, o) /\ sent' = [sent EXCEPT ![r] = Append(@, o)]
  <2>1. PICK r \in Ids, o \in Nat : SentBelow(r, o) /\ sent' = [sent EXCEPT ![r] = Append(@, o)]
    BY <1>2
  <2>2. sent \in [Ids -> Seq(Nat)]
    BY DEF Inv, TypeOK
  <2>3. sent'[r] = Append(sent[r], o) /\ sent[r] \in Seq(Nat)
    BY <2>1, <2>2
  <2>4. /\ Len(sent'[r]) = Len(sent[r]) + 1 /\ sent'[r][Len(sent[r]) + 1] = o
        /\ \A i \in 1..Len(sent[r]) : sent'[r][i] = sent[r][i]
    BY <2>3
  <2>5. \A q \in Ids \ {r} : sent'[q] = sent[q]
    BY <2>1, <2>2
  <2> SUFFICES ASSUME NEW q \in Ids, NEW i \in 1..Len(sent'[q]), NEW j \in 1..Len(sent'[q]), i < j
               PROVE  sent'[q][i] < sent'[q][j]
    BY DEF AtMostOnce
  <2>6. CASE q = r
    <3>1. Len(sent[r]) \in Nat
      BY <2>3
    <3>2. i \in 1..Len(sent[r])
      BY <2>4, <2>6, <3>1
    <3>3. CASE j \in 1..Len(sent[r])
      BY <2>4, <2>6, <3>2, <3>3 DEF AtMostOnce
    <3>4. CASE j = Len(sent[r]) + 1
      BY <2>1, <2>4, <2>6, <3>2, <3>4 DEF SentBelow
    <3> QED
      BY <2>4, <2>6, <3>1, <3>3, <3>4
  <2>7. CASE q # r
    BY <2>5, <2>7 DEF AtMostOnce
  <2> QED
    BY <2>6, <2>7
<1> QED
  BY <1>1, <1>2, SentStep

\* At most once per occurrence (ADR-0101 D4/D6), for every schedule and through every crash,
\* recovery, retry and undo.
THEOREM AtMostOnceHolds == Spec => []AtMostOnce
<1>1. Init => AtMostOnce
  BY DEF Init, AtMostOnce
<1> QED
  BY InvHolds, <1>1, AtMostOnceStep, PTL DEF Spec

\* ReminderTickDriver: the timer is armed only while nothing is in flight and the driver runs,
\* so that a callback never starts a tick beside another one or beside the recovery.
THEOREM TicksNeverOverlapHolds == Spec => []TicksNeverOverlap
<1>1. Init => TicksNeverOverlap
  BY DEF Init, TicksNeverOverlap
<1>2. ASSUME TicksNeverOverlap, [Next]_vars PROVE TicksNeverOverlap'
  <2> USE <1>2 DEF TicksNeverOverlap
  <2>1. CASE UNCHANGED <<driver, timer, tick>>
    BY <2>1
  <2>2. CASE AdvanceClock \/ Owner \/ UNCHANGED vars
    BY <2>1, <2>2 DEF AdvanceClock, Owner, Create, Cancel, UndoRead, Reactivate, UndoRefused,
                      procVars, vars
  <2>3. CASE Lifecycle
    <3>1. ASSUME NEW e \in EnabledChoices, Boot(e) PROVE TicksNeverOverlap'
      BY <3>1, <2>1 DEF Boot
    <3>2. CASE Start \/ StartDisabled \/ Stop \/ StopTimeout \/ Exit \/ Crash
      BY <3>2 DEF Start, StartDisabled, Stop, StopTimeout, Exit, Crash, GoDown
    <3>3. CASE EndRecovery
      <4>1. tick'.pc = "idle"
        BY <3>3 DEF EndRecovery, IdleTick
      <4>2. CASE driver = "STARTING"
        BY <3>3, <4>1, <4>2 DEF EndRecovery
      <4>3. CASE driver # "STARTING"
        BY <3>3, <4>3 DEF EndRecovery
      <4> QED
        BY <4>2, <4>3
    <3>4. CASE EndTick
      <4>1. tick'.pc = "idle" /\ driver' = driver
        BY <3>4 DEF EndTick, IdleTick
      <4>2. CASE driver = "RUNNING"
        BY <4>1, <4>2
      <4>3. CASE driver # "RUNNING"
        BY <3>4, <4>3 DEF EndTick
      <4> QED
        BY <4>2, <4>3
    <3>5. ASSUME NEW r \in Ids, RecoverOne(r) PROVE TicksNeverOverlap'
      BY <3>5 DEF RecoverOne
    <3>6. ASSUME NEW S \in SUBSET DueRows, NEW a \in Attempts, OnTimer(S, a)
          PROVE  TicksNeverOverlap'
      BY <3>6 DEF OnTimer
    <3> QED
      BY <2>3, <3>1, <3>2, <3>3, <3>4, <3>5, <3>6 DEF Lifecycle
  <2>4. CASE Dispatch
    <3>1. tick.pc # "idle" /\ UNCHANGED timer
      BY <2>4 DEF Dispatch, SkipMissed, StartOne, Takes, RecheckDelivers, RecheckMovedLater, Deliver,
                  Complete
    <3> QED
      BY <3>1
  <2> QED
    BY <1>2, <2>2, <2>3, <2>4 DEF Next
<1> QED
  BY <1>1, <1>2, PTL DEF Spec

=============================================================================
