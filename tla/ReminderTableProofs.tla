------------------------ MODULE ReminderTableProofs ------------------------
(***************************************************************************)
(* More about ReminderSystem, on top of ReminderProofs: the outcome shown  *)
(* to the owner is true, a one-time reminder that ended stays ended, rows  *)
(* move along the transition table and within the active limit, no row is  *)
(* left FIRING between ticks, and ReminderSystem implements                *)
(* OccurrenceDelivery.                                                     *)
(*                                                                         *)
(* Every argument starts from RowStep: the six ways a step changes a row.  *)
(* OutcomeInv ties the recorded outcome to the history, and the versions   *)
(* that the owner's undo compares to what happened since: a row that was   *)
(* claimed after it was canceled has a later version, because an undo      *)
(* schedules it strictly ahead.                                            *)
(***************************************************************************)
EXTENDS ReminderProofs, FiniteSetTheorems

\* The outcome is what the history says of its occurrence.
Truth(r, last) ==
  /\ last.outcome = "SENT" => WasSent(r, last.occ)
  /\ last.outcome \in {"FAILED", "SKIPPED_MISSED"} => ~WasSent(r, last.occ)

Ended(row) == ~row.recurring /\ row.last.outcome # "NONE"

\* The recorded outcome lies behind the row: before its version and before what it waits for.
LastOK(row) ==
  row.last.outcome # "NONE" =>
    /\ row.last.occ \in Nat /\ row.last.occ <= row.ver
    /\ row.status \in ActiveStatus => row.last.occ < row.occ

OutcomeOK(r) ==
  /\ LastOK(rows[r]) /\ Truth(r, rows[r].last)
  /\ Ended(rows[r]) => rows[r].status \in FinalStatus

\* Since r was canceled at version v: it cannot be due, fire or end without a later version.
Since(r, v) ==
  /\ v <= rows[r].ver
  /\ rows[r].status # "NONE"
  /\ rows[r].status = "SCHEDULED" => v < rows[r].fireAt
  /\ rows[r].status = "FIRING" => v < rows[r].ver
  /\ Ended(rows[r]) => v < rows[r].ver

\* What a pending undo would write is true unless its version is stale.
PendingOK(t) ==
  LET u == undos[t] IN
  u # NoUndo =>
    /\ Since(u.id, u.ver)
    /\ LastOK(u.row) /\ ~Ended(u.row)
    /\ Truth(u.id, u.row.last) \/ u.ver < rows[u.id].ver

OutcomeInv ==
  /\ \A r \in Ids : OutcomeOK(r)
  /\ lastAction.id # 0 => Since(lastAction.id, lastAction.ver)
  /\ \A t \in Turns : PendingOK(t)
  /\ tick.pc = "delivered" /\ tick.result = "SENT" => WasSent(tick.cur, tick.occ)

\* The rows the tick or the recovery in flight still has to settle.
InHand == tick.todo \cup (IF tick.pc \in Sending THEN {tick.cur} ELSE {})

\* A tick holds its rows under its own attempt id, and while the driver starts or runs every
\* FIRING row is in hand.
FiringInv ==
  /\ tick.pc \notin {"idle", "recovering"} => \A r \in InHand : rows[r].token = tick.attempt
  /\ driver \in {"STARTING", "RUNNING"} /\ ~StoreMayFail =>
       \A r \in Ids : rows[r].status = "FIRING" => r \in InHand

LimitInv == IsFiniteSet(ActiveRows) /\ Cardinality(ActiveRows) <= MaxActive

----------------------------------------------------------------------------
(* How a step changes a row *)

Creates(r) ==
  /\ rows[r].status = "NONE"
  /\ rows'[r].status = "SCHEDULED" /\ rows'[r].last = NoOutcome /\ rows'[r].ver = clock

Cancels(r) ==
  /\ rows[r].status = "SCHEDULED"
  /\ rows'[r].status = "CANCELED" /\ rows'[r].ver = clock
  /\ rows'[r].recurring = rows[r].recurring /\ rows'[r].last = rows[r].last

Revives(r) ==
  \E t \in Turns :
    /\ undos[t] # NoUndo /\ undos[t].id = r /\ undos'[t] = NoUndo
    /\ rows[r].status = "CANCELED" /\ rows[r].ver = undos[t].ver
    /\ rows'[r] = undos[t].row

Claims(r) ==
  /\ rows[r].status = "SCHEDULED" /\ rows[r].fireAt <= clock
  /\ rows'[r].status = "FIRING" /\ rows'[r].ver = clock
  /\ rows'[r].occ = rows[r].occ
  /\ rows'[r].recurring = rows[r].recurring /\ rows'[r].last = rows[r].last

\* A completion that keeps the last outcome goes on with the occurrence or a later one; a recorded
\* outcome is true, and only a recurring row goes on after it.
Records(r, status, last, occ, fireAt) ==
  /\ status \in {"SCHEDULED"} \cup FinalStatus
  /\ status = "SCHEDULED" => occ \in Nat /\ fireAt \in Nat /\ tick.now <= fireAt
  /\ \/ /\ last = rows[r].last
        /\ status = "SCHEDULED" /\ rows[r].occ <= occ
     \/ /\ last.outcome # "NONE" /\ last.occ \in Nat /\ last.occ <= tick.now /\ Truth(r, last)
        /\ status = "SCHEDULED" => rows[r].recurring /\ last.occ < occ

Settles(r) ==
  /\ rows[r].status = "FIRING" /\ rows[r].ver <= tick.now
  /\ rows'[r].recurring = rows[r].recurring /\ rows'[r].ver = tick.now
  /\ Records(r, rows'[r].status, rows'[r].last, rows'[r].occ, rows'[r].fireAt)

RowMove(r) ==
  rows'[r] = rows[r] \/ Creates(r) \/ Cancels(r) \/ Revives(r) \/ Claims(r) \/ Settles(r)

\* Only one row at a time becomes active, and only below the limit.
Adds == \E r \in Ids : BelowLimit /\ \A q \in Ids \ {r} : rows'[q] = rows[q]

NothingAdded == \A r \in Ids : ~Creates(r) /\ ~Revives(r)

LEMMA RowFields ==
  ASSUME NEW row \in Reminder
  PROVE  /\ row.ver \in Int /\ row.occ \in Int /\ row.fireAt \in Int /\ row.last \in LastOutcome
         /\ row.recurring \in BOOLEAN
BY DEF Reminder, Instant, Absent

LEMMA LastFields ==
  ASSUME NEW last \in LastOutcome
  PROVE  /\ last.occ \in Int
         /\ last.outcome = "NONE" <=> last = NoOutcome
BY DEF LastOutcome, NoOutcome, OccurrenceOutcome, Absent

LEMMA Statuses ==
  /\ "NONE" \notin FinalStatus \cup ActiveStatus /\ "SCHEDULED" \notin FinalStatus
  /\ "FIRING" \notin FinalStatus /\ "CANCELED" \in FinalStatus /\ ActiveStatus = {"SCHEDULED", "FIRING"}
BY DEF FinalStatus, ActiveStatus

LEMMA NotSentAbove ==
  ASSUME Inv, NEW r \in Ids, NEW o \in Nat, NEW p \in Nat, SentBelow(r, o), o <= p
  PROVE  ~WasSent(r, p)
<1>1. \A i \in 1..Len(sent[r]) : sent[r][i] \in Nat
  BY InvTypes
<1> QED
  BY <1>1 DEF WasSent, SentBelow

----------------------------------------------------------------------------
(* What a completion records *)

PlanRecords(r, plan) ==
  /\ plan \in Completion /\ plan.ver = tick.now
  /\ Records(r, plan.status, IF plan.last = NoOutcome THEN rows[r].last ELSE plan.last, plan.occ, plan.fireAt)

LEMMA SettleMoves ==
  ASSUME Inv, NEW r \in Ids, NEW a, NEW plan, Held(r), PlanRecords(r, plan),
         CompleteOrThrow(r, a, plan)
  PROVE  \A q \in Ids : rows'[q] = rows[q] \/ (q = r /\ Settles(q))
<1> DEFINE new == ApplyFiringCompletion(rows[r], plan)
<1>1. rows \in [Ids -> Reminder]
  BY DEF Inv, TypeOK
<1>2. CASE rows' = rows
  BY <1>2
<1>3. CASE rows' = [rows EXCEPT ![r] = new]
  <2>1. rows'[r] = new /\ \A q \in Ids \ {r} : rows'[q] = rows[q]
    BY <1>1, <1>3
  <2>2. /\ new.status = plan.status /\ new.occ = plan.occ /\ new.fireAt = plan.fireAt
        /\ new.ver = tick.now /\ new.recurring = rows[r].recurring
        /\ new.last = IF plan.last = NoOutcome THEN rows[r].last ELSE plan.last
    BY DEF ApplyFiringCompletion, PlanRecords
  <2> HIDE DEF new
  <2>3. Settles(r)
    BY <2>1, <2>2 DEF Settles, PlanRecords, Held
  <2> QED
    BY <2>1, <2>3
<1> QED
  BY <1>2, <1>3 DEF CompleteOrThrow, CompleteFiring

\* A retry keeps the outcome and the occurrence.
LEMMA RetryRecords ==
  ASSUME Inv, NEW r \in Ids, NEW occ \in Nat, rows[r].occ <= occ, rows[r].attempt < MaxRetries
  PROVE  PlanRecords(r, PlanRetry(rows[r], occ, tick.now))
<1> DEFINE plan == PlanRetry(rows[r], occ, tick.now)
<1>1. rows[r] \in Reminder /\ tick.now \in Nat
  BY InvTypes
<1>2. plan \in Completion /\ plan.ver = tick.now /\ plan.occ = occ /\ plan.fireAt \in Nat /\ plan.fireAt >= tick.now
  BY <1>1, RetryPlan
<1>3. plan.status = "SCHEDULED" /\ plan.last = NoOutcome
  BY DEF PlanRetry
<1> HIDE DEF plan
<1>4. PlanRecords(r, plan)
  BY <1>1, <1>2, <1>3 DEF PlanRecords, Records
<1> QED
  BY <1>4 DEF plan

\* A recurring row leaves an occurrence with a true outcome.
LEMMA AdvanceRecords ==
  ASSUME Inv, NEW r \in Ids, rows[r].recurring, NEW outcome \in OccurrenceOutcome, NEW occ \in Nat,
         NEW next \in Nat, occ <= tick.now, tick.now < next,
         Truth(r, [outcome |-> outcome, occ |-> occ])
  PROVE  PlanRecords(r, PlanAdvance(outcome, occ, next, tick.now))
<1> DEFINE plan == PlanAdvance(outcome, occ, next, tick.now)
           last == [outcome |-> outcome, occ |-> occ]
<1>1. tick.now \in Nat
  BY InvTypes
<1>2. plan \in Completion /\ plan.ver = tick.now /\ plan.occ = next /\ plan.fireAt = next
  BY <1>1, AdvancePlan
<1>3. plan.status = "SCHEDULED" /\ plan.last = last
  BY DEF PlanAdvance
<1>4. last.outcome = outcome /\ last.occ = occ /\ outcome # "NONE" /\ last # NoOutcome
  BY DEF OccurrenceOutcome, NoOutcome
<1> HIDE DEF plan, last
<1>5. Truth(r, last)
  BY DEF last
<1>6. PlanRecords(r, plan)
  BY <1>1, <1>2, <1>3, <1>4, <1>5 DEF PlanRecords, Records
<1> QED
  BY <1>6 DEF plan

\* A one-time row ends with a true outcome.
LEMMA FinalRecords ==
  ASSUME Inv, NEW r \in Ids, NEW status \in FinalStatus, NEW outcome \in OccurrenceOutcome,
         NEW occ \in Nat, occ <= tick.now, Truth(r, [outcome |-> outcome, occ |-> occ])
  PROVE  PlanRecords(r, PlanOnceFinal(rows[r], status, outcome, occ, tick.now))
<1> DEFINE plan == PlanOnceFinal(rows[r], status, outcome, occ, tick.now)
           last == [outcome |-> outcome, occ |-> occ]
<1>1. tick.now \in Nat /\ rows[r] \in Reminder
  BY InvTypes
<1>2. plan \in Completion /\ plan.ver = tick.now /\ plan.status = status
  BY <1>1, FinalPlan
<1>3. plan.last = last
  BY DEF PlanOnceFinal
<1>4. last.outcome = outcome /\ last.occ = occ /\ outcome # "NONE" /\ last # NoOutcome
  BY DEF OccurrenceOutcome, NoOutcome
<1> HIDE DEF plan, last
<1>5. Truth(r, last)
  BY DEF last
<1>6. PlanRecords(r, plan)
  BY <1>1, <1>2, <1>3, <1>4, <1>5, Statuses DEF PlanRecords, Records
<1> QED
  BY <1>6 DEF plan

\* planFiringCompletion: a retry, or the outcome of the delivery.
LEMMA FiringRecords ==
  ASSUME Inv, NEW r \in Ids, NEW result \in DeliveryResult, NEW occ \in Nat, NEW next \in Nat,
         rows[r].occ <= occ, occ <= tick.now, tick.now < next,
         ~Retries(rows[r], result) => Truth(r, [outcome |-> FinalOutcome(result), occ |-> occ])
  PROVE  PlanRecords(r, PlanFiringCompletion(rows[r], result, occ, next, tick.now))
<1>1. CASE Retries(rows[r], result)
  BY <1>1, RetryRecords DEF Retries, PlanFiringCompletion
<1>2. CASE ~Retries(rows[r], result) /\ rows[r].recurring
  BY <1>2, AdvanceRecords, OutcomeTypes DEF PlanFiringCompletion
<1>3. CASE ~Retries(rows[r], result) /\ ~rows[r].recurring
  BY <1>3, FinalRecords, OutcomeTypes DEF PlanFiringCompletion
<1> QED
  BY <1>1, <1>2, <1>3

LEMMA UncertainTruth ==
  ASSUME NEW r \in Ids, NEW occ
  PROVE  Truth(r, [outcome |-> FinalOutcome("UNCERTAIN"), occ |-> occ])
BY DEF Truth, FinalOutcome

LEMMA RecoveryRecords ==
  ASSUME Inv, NEW r \in Ids, RecoverOne(r)
  PROVE  Held(r) /\ PlanRecords(r, RecoveryPlan(snap[r], tick.now))
<1> DEFINE next == NextFrom(snap[r], tick.now)
<1>1. Held(r) /\ rows[r] \in Reminder /\ tick.now \in Time /\ tick.now \in Nat
  BY InvTypes DEF RecoverOne, IsFirst, Inv, TickInv, TodoOK
<1>2. snap[r] = rows[r] /\ rows[r].occ \in Nat /\ rows[r].occ <= tick.now
  BY <1>1, InvTypes DEF Inv, RowsInv, RowOK, Held
<1>3. next \in Nat /\ next > tick.now
  BY <1>1, <1>2, NextIsLater DEF NextFrom, LaterOf
<1>4. "UNCERTAIN" \in DeliveryResult
  BY DEF DeliveryResult
<1> HIDE DEF next
<1>5. Truth(r, [outcome |-> FinalOutcome("UNCERTAIN"), occ |-> rows[r].occ])
  BY UncertainTruth
<1>6. PlanRecords(r, PlanFiringCompletion(rows[r], "UNCERTAIN", rows[r].occ, next, tick.now))
  BY <1>1, <1>2, <1>3, <1>4, <1>5, FiringRecords
<1> QED
  BY <1>1, <1>2, <1>6 DEF RecoveryPlan, next

LEMMA SkipRecords ==
  ASSUME Inv, NEW r \in Ids, SkipMissed(r)
  PROVE  /\ Held(r)
         /\ PlanRecords(r, PlanAdvance("SKIPPED_MISSED", DueOccurrence(snap[r].occ, tick.now),
                                       NextOccurrenceAfter(tick.now), tick.now))
<1> DEFINE due == DueOccurrence(rows[r].occ, tick.now)
           next == NextOccurrenceAfter(tick.now)
<1>1. /\ Held(r) /\ snap[r] = rows[r] /\ due \in Nat /\ rows[r].occ <= due /\ due <= tick.now
      /\ rows[r].occ \in Nat /\ SentBelow(r, rows[r].occ) /\ rows[r].recurring /\ tick.now \in Time
  BY TakenFacts DEF SkipMissed, Skips
<1>2. next \in Nat /\ next > tick.now
  BY <1>1, NextIsLater
<1> HIDE DEF due, next
<1>3. ~WasSent(r, due)
  BY <1>1, NotSentAbove
<1>4. Truth(r, [outcome |-> "SKIPPED_MISSED", occ |-> due]) /\ "SKIPPED_MISSED" \in OccurrenceOutcome
  BY <1>3 DEF Truth, OccurrenceOutcome
<1>5. PlanRecords(r, PlanAdvance("SKIPPED_MISSED", due, next, tick.now))
  BY <1>1, <1>2, <1>4, AdvanceRecords
<1> QED
  BY <1>1, <1>5 DEF due, next

LEMMA RescheduleRecords ==
  ASSUME Inv, NEW due \in Time, RecheckMovedLater(due)
  PROVE  /\ tick.cur \in Ids /\ Held(tick.cur)
         /\ PlanRecords(tick.cur, PlanEventReschedule(due, tick.now))
<1> DEFINE plan == PlanEventReschedule(due, tick.now)
<1>1. due \in Nat /\ tick.now \in Nat /\ due > tick.now
  BY InvTypes, TimeAssumption DEF Time, RecheckMovedLater
<1>2. CurOK
  BY DEF Inv, TickInv, Sending, RecheckMovedLater
<1>3. /\ tick.cur \in Ids /\ Held(tick.cur) /\ rows[tick.cur].occ \in Nat
      /\ rows[tick.cur].occ <= tick.now
  BY <1>2 DEF CurOK, Held, Inv, RowsInv, RowOK
<1>4. plan \in Completion /\ plan.ver = tick.now /\ plan.occ = due /\ plan.fireAt = due
  BY <1>1, ReschedulePlan
<1>5. plan.last = NoOutcome /\ plan.status = "SCHEDULED"
  BY DEF PlanEventReschedule
<1> HIDE DEF plan
<1>6. PlanRecords(tick.cur, plan)
  BY <1>1, <1>3, <1>4, <1>5 DEF PlanRecords, Records
<1> QED
  BY <1>3, <1>6 DEF plan

\* The result of the single send is recorded as it was.
LEMMA DeliveryRecords ==
  ASSUME Inv, OutcomeInv, Complete
  PROVE  tick.cur \in Ids /\ Held(tick.cur) /\ PlanRecords(tick.cur, DeliveryPlan(snap[tick.cur]))
<1> DEFINE c == tick.cur
           next == NextFrom(rows[c], LaterOf(tick.now, tick.occ))
<1>1. tick.pc = "delivered" /\ CurOK
  BY DEF Complete, Inv, TickInv, Sending
<1>2. /\ c \in Ids /\ Held(c) /\ snap[c] = rows[c] /\ rows[c] \in Reminder /\ tick.occ \in Nat
      /\ rows[c].occ <= tick.occ /\ tick.occ <= tick.now /\ tick.now \in Time /\ tick.now \in Nat
      /\ rows[c].occ \in Nat /\ tick.result \in DeliveryResult
  BY <1>1, InvTypes DEF CurOK, Held, Inv, RowsInv, RowOK
<1>3. next \in Nat /\ next > tick.now
  BY <1>2, NextIsLater DEF NextFrom, LaterOf
<1>4. Truth(c, [outcome |-> FinalOutcome(tick.result), occ |-> tick.occ])
  <2>1. CASE tick.result \in {"SENT", "UNCERTAIN"}
    BY <1>1, <2>1 DEF OutcomeInv, Truth, FinalOutcome
  <2>2. CASE tick.result \notin {"SENT", "UNCERTAIN"}
    <3>1. ~WasSent(c, tick.occ)
      BY <1>1, <1>2, <2>2, NotSentAbove DEF CurOK
    <3> QED
      BY <2>2, <3>1 DEF Truth, FinalOutcome
  <2> QED
    BY <2>1, <2>2
<1> HIDE DEF next
<1>5. CASE ~tick.gone
  <2>1. PlanRecords(c, PlanFiringCompletion(rows[c], tick.result, tick.occ, next, tick.now))
    BY <1>2, <1>3, <1>4, FiringRecords
  <2> QED
    BY <1>2, <1>5, <2>1 DEF DeliveryPlan, next
<1>6. CASE tick.gone
  <2>1. tick.occ = rows[c].occ
    BY <1>1, <1>2, <1>6 DEF CurOK, Inv, RowsInv, RowOK
  <2>2. DeliveryPlan(snap[c]) = PlanEventCanceled(rows[c], tick.result, tick.now)
    BY <1>2, <1>6 DEF DeliveryPlan
  <2>3. CASE Retries(rows[c], tick.result)
    BY <1>2, <2>2, <2>3, RetryRecords DEF Retries, PlanEventCanceled
  <2>4. CASE ~Retries(rows[c], tick.result)
    <3>1. PlanRecords(c, PlanOnceFinal(rows[c], "CANCELED", FinalOutcome(tick.result), tick.occ, tick.now))
      BY <1>2, <1>4, FinalRecords, OutcomeTypes, Statuses
    <3> QED
      BY <1>2, <2>1, <2>2, <2>4, <3>1 DEF PlanEventCanceled
  <2> QED
    BY <2>3, <2>4
<1> QED
  BY <1>5, <1>6

----------------------------------------------------------------------------
(* Every step moves rows in one of the six ways *)

LEMMA RevivedRow ==
  ASSUME Inv, NEW r \in Ids, Creates(r) \/ Revives(r)
  PROVE  /\ rows[r].status \in {"NONE", "CANCELED"} /\ rows'[r].status = "SCHEDULED"
         /\ Revives(r) => rows[r].status = "CANCELED"
<1>1. ASSUME Revives(r)
      PROVE  rows[r].status = "CANCELED" /\ rows'[r].status = "SCHEDULED"
  <2>1. PICK t \in Turns : /\ undos[t] # NoUndo /\ rows[r].status = "CANCELED"
                          /\ rows'[r] = undos[t].row
    BY <1>1 DEF Revives
  <2>2. UndoOK(t)
    BY DEF Inv, UndoInv
  <2> QED
    BY <2>1, <2>2 DEF UndoOK
<1> QED
  BY <1>1 DEF Creates

LEMMA OwnerRowSteps ==
  ASSUME Inv, Owner
  PROVE  /\ \A r \in Ids : RowMove(r)
         /\ NothingAdded \/ Adds
         /\ sent' = sent
<1>0. rows \in [Ids -> Reminder] /\ undos \in [Turns -> Undo]
  BY DEF Inv, TypeOK
<1>1. ASSUME NEW r \in Ids, NEW rec \in BOOLEAN, NEW ev \in BOOLEAN,
             NEW at \in Time \cup Occurrences, Create(r, rec, ev, at)
      PROVE  Creates(r) /\ BelowLimit /\ \A q \in Ids \ {r} : rows'[q] = rows[q]
  <2>1. rows[r].status = "NONE" /\ rows' = [rows EXCEPT ![r] = Draft(rec, ev, at, clock)] /\ BelowLimit
    BY <1>1 DEF Create
  <2>2. rows'[r] = Draft(rec, ev, at, clock) /\ \A q \in Ids \ {r} : rows'[q] = rows[q]
    BY <1>0, <2>1
  <2>3. /\ Draft(rec, ev, at, clock).status = "SCHEDULED" /\ Draft(rec, ev, at, clock).ver = clock
        /\ Draft(rec, ev, at, clock).last = NoOutcome
    BY DEF Draft, NoReminder
  <2> QED
    BY <2>1, <2>2, <2>3 DEF Creates
<1>2. ASSUME NEW r \in Ids, Cancel(r)
      PROVE  Cancels(r) /\ \A q \in Ids \ {r} : rows'[q] = rows[q]
  <2>1. rows[r].status = "SCHEDULED" /\ rows' = [rows EXCEPT ![r] = CancelReminder(rows[r], clock)]
    BY <1>2 DEF Cancel
  <2>2. /\ rows'[r] = CancelReminder(rows[r], clock) /\ rows[r] \in Reminder
        /\ \A q \in Ids \ {r} : rows'[q] = rows[q]
    BY <1>0, <2>1
  <2>3. LET new == CancelReminder(rows[r], clock) IN
        /\ new.status = "CANCELED" /\ new.ver = clock
        /\ new.recurring = rows[r].recurring /\ new.last = rows[r].last
    BY <2>2 DEF CancelReminder, Reminder
  <2> QED
    BY <2>1, <2>2, <2>3 DEF Cancels
<1>3. ASSUME NEW t \in Turns, Reactivate(t)
      PROVE  \/ rows' = rows
             \/ /\ undos[t].id \in Ids /\ Revives(undos[t].id) /\ BelowLimit
                /\ \A q \in Ids \ {undos[t].id} : rows'[q] = rows[q]
  <2> DEFINE u == undos[t]
  <2>1. u # NoUndo /\ undos' = [undos EXCEPT ![t] = NoUndo]
    BY <1>3 DEF Reactivate
  <2>2. u.id \in Ids
    BY <2>1 DEF Inv, UndoInv, UndoOK
  <2>3. CASE rows[u.id].status = "CANCELED" /\ rows[u.id].ver = u.ver /\ BelowLimit
    <3>1. rows' = [rows EXCEPT ![u.id] = u.row]
      BY <1>3, <2>3 DEF Reactivate
    <3>2. rows'[u.id] = u.row /\ undos'[t] = NoUndo /\ \A q \in Ids \ {u.id} : rows'[q] = rows[q]
      BY <1>0, <2>1, <2>2, <3>1
    <3> QED
      BY <2>1, <2>2, <2>3, <3>2 DEF Revives
  <2>4. CASE ~(rows[u.id].status = "CANCELED" /\ rows[u.id].ver = u.ver /\ BelowLimit)
    BY <1>3, <2>4 DEF Reactivate
  <2> QED
    BY <2>3, <2>4
<1>4. ASSUME NEW t \in Turns, UndoRefused(t) \/ \E at \in Time \cup Occurrences : UndoRead(t, at)
      PROVE  rows' = rows
  BY <1>4 DEF UndoRefused, UndoRead, storeVars
<1>5. sent' = sent
  BY DEF Owner, Create, Cancel, UndoRead, Reactivate, UndoRefused, storeVars
<1>6. CASE rows' = rows
  <2>1. NothingAdded
    <3> SUFFICES ASSUME NEW r \in Ids, Creates(r) \/ Revives(r) PROVE FALSE
      BY DEF NothingAdded
    <3>1. rows[r].status \in {"NONE", "CANCELED"} /\ rows'[r].status = "SCHEDULED"
      BY RevivedRow
    <3> QED
      BY <1>6, <3>1
  <2> QED
    BY <1>5, <1>6, <2>1 DEF RowMove
<1>7. CASE \E r \in Ids : Cancel(r)
  <2>1. \A r \in Ids : rows'[r] = rows[r] \/ Cancels(r)
    BY <1>2, <1>7
  <2>2. NothingAdded
    <3> SUFFICES ASSUME NEW r \in Ids, Creates(r) \/ Revives(r) PROVE FALSE
      BY DEF NothingAdded
    <3>1. rows[r].status \in {"NONE", "CANCELED"} /\ rows'[r].status = "SCHEDULED"
      BY RevivedRow
    <3> QED
      BY <2>1, <3>1 DEF Cancels
  <2> QED
    BY <1>5, <2>1, <2>2 DEF RowMove
<1> QED
  BY <1>1, <1>3, <1>4, <1>5, <1>6, <1>7 DEF Owner, RowMove, Adds

LEMMA LifecycleRowSteps ==
  ASSUME Inv, Lifecycle
  PROVE  /\ \A r \in Ids : rows'[r] = rows[r] \/ Claims(r) \/ Settles(r)
         /\ sent' = sent
<1>1. sent' = sent
  BY DEF Lifecycle, Boot, Start, StartDisabled, EndRecovery, EndTick, RecoverOne, OnTimer, Stop,
         StopTimeout, Exit, Crash, GoDown, storeVars
<1>2. ASSUME NEW r \in Ids, RecoverOne(r)
      PROVE  \A q \in Ids : rows'[q] = rows[q] \/ Settles(q)
  <2>1. CompleteOrThrow(r, snap[r].token, RecoveryPlan(snap[r], tick.now))
    BY <1>2 DEF RecoverOne
  <2> QED
    BY <1>2, <2>1, RecoveryRecords, SettleMoves
<1>3. ASSUME NEW S \in SUBSET DueRows, NEW a \in Attempts, OnTimer(S, a)
      PROVE  \A r \in Ids : rows'[r] = rows[r] \/ Claims(r)
  <2> SUFFICES ASSUME NEW r \in Ids PROVE rows'[r] = rows[r] \/ Claims(r)
    OBVIOUS
  <2>1. rows'[r] = IF r \in S THEN ClaimReminder(rows[r], a, clock) ELSE rows[r]
    BY <1>3 DEF OnTimer, ClaimDue
  <2>2. r \in S => rows[r].status = "SCHEDULED" /\ rows[r].fireAt <= clock
    BY DEF DueRows
  <2>3. rows[r] \in Reminder
    BY InvTypes
  <2> QED
    BY <2>1, <2>2, <2>3 DEF Claims, ClaimReminder, Reminder
<1>4. CASE \/ \E e \in EnabledChoices : Boot(e)
           \/ Start \/ StartDisabled \/ EndRecovery \/ EndTick \/ Stop \/ StopTimeout \/ Exit \/ Crash
  <2>1. rows' = rows
    BY <1>4 DEF Boot, Start, StartDisabled, EndRecovery, EndTick, Stop, StopTimeout, Exit, Crash,
                GoDown, storeVars
  <2> QED
    BY <1>1, <2>1
<1> QED
  BY <1>1, <1>2, <1>3, <1>4 DEF Lifecycle

LEMMA DispatchRowSteps ==
  ASSUME Inv, OutcomeInv, Dispatch
  PROVE  \A r \in Ids : rows'[r] = rows[r] \/ (Settles(r) /\ sent' = sent)
<1>1. ASSUME NEW r \in Ids, SkipMissed(r)
      PROVE  \A q \in Ids : rows'[q] = rows[q] \/ (Settles(q) /\ sent' = sent)
  BY <1>1, SkipRecords, SettleMoves DEF SkipMissed
<1>2. ASSUME NEW due \in Time, RecheckMovedLater(due)
      PROVE  \A q \in Ids : rows'[q] = rows[q] \/ (Settles(q) /\ sent' = sent)
  BY <1>2, RescheduleRecords, SettleMoves DEF RecheckMovedLater
<1>3. CASE Complete
  BY <1>3, DeliveryRecords, SettleMoves DEF Complete
<1>4. CASE \/ \E r \in Ids : StartOne(r)
           \/ \E gone \in BOOLEAN : RecheckDelivers(gone)
           \/ \E result \in DeliveryResult : Deliver(result)
  BY <1>4 DEF StartOne, RecheckDelivers, Deliver, storeVars
<1> QED
  BY <1>1, <1>2, <1>3, <1>4 DEF Dispatch

LEMMA RowStep ==
  ASSUME Inv, OutcomeInv, [Next]_vars
  PROVE  /\ \A r \in Ids : RowMove(r)
         /\ NothingAdded \/ Adds
<1>1. CASE \A r \in Ids : rows'[r] = rows[r] \/ Claims(r) \/ Settles(r)
  <2>1. NothingAdded
    BY <1>1, RevivedRow DEF NothingAdded, Claims, Settles
  <2> QED
    BY <1>1, <2>1 DEF RowMove
<1>2. CASE Owner
  BY <1>2, OwnerRowSteps
<1>3. CASE AdvanceClock \/ UNCHANGED vars
  BY <1>1, <1>3 DEF AdvanceClock, vars, storeVars
<1> QED
  BY <1>1, <1>2, <1>3, LifecycleRowSteps, DispatchRowSteps DEF Next

----------------------------------------------------------------------------
(* A move keeps the recorded outcome true and the versions in order *)

\* The moves, in the form the invariant needs: r goes to the row new.
KeepsOutcome(r, new) ==
  /\ LastOK(new) /\ Truth(r, new.last)
  /\ Ended(new) => new.status \in FinalStatus

KeepsSince(r, new) ==
  /\ rows[r].ver <= new.ver
  /\ \A v \in Int : Since(r, v) =>
       /\ v <= new.ver
       /\ new.status # "NONE"
       /\ new.status = "SCHEDULED" => v < new.fireAt
       /\ new.status = "FIRING" => v < new.ver
       /\ Ended(new) => v < new.ver

LEMMA MoveFacts ==
  ASSUME Inv, Inv', OutcomeInv, NEW r \in Ids
  PROVE  /\ rows[r] \in Reminder /\ rows'[r] \in Reminder /\ clock \in Nat /\ tick.now \in Nat
         /\ rows[r].ver \in Int /\ rows[r].occ \in Int /\ rows[r].fireAt \in Int
         /\ rows'[r].ver \in Int /\ rows'[r].occ \in Int /\ rows'[r].fireAt \in Int
         /\ rows[r].last \in LastOutcome /\ rows'[r].last \in LastOutcome
         /\ rows[r].recurring \in BOOLEAN /\ rows[r].ver <= clock
         /\ LastOK(rows[r]) /\ Truth(r, rows[r].last)
         /\ Ended(rows[r]) => rows[r].status \in FinalStatus
<1>1. rows[r] \in Reminder /\ rows'[r] \in Reminder /\ clock \in Nat /\ tick.now \in Nat
  <2>1. rows[r] \in Reminder /\ clock \in Nat /\ tick.now \in Nat
    BY InvTypes
  <2>2. rows'[r] \in Reminder
    BY DEF Inv, TypeOK
  <2> QED
    BY <2>1, <2>2
<1>2. rows[r].ver <= clock
  BY DEF Inv, RowsInv, RowOK
<1>3. OutcomeOK(r)
  BY DEF OutcomeInv
<1> QED
  BY <1>1, <1>2, <1>3, RowFields DEF OutcomeOK

LEMMA CreatesKeeps ==
  ASSUME Inv, Inv', OutcomeInv, NEW r \in Ids, Creates(r)
  PROVE  KeepsOutcome(r, rows'[r]) /\ KeepsSince(r, rows'[r])
<1>1. rows[r].ver <= clock /\ rows'[r].last = NoOutcome /\ rows'[r].last.outcome = "NONE"
  BY MoveFacts DEF Creates, NoOutcome
<1>2. KeepsOutcome(r, rows'[r])
  BY <1>1 DEF KeepsOutcome, LastOK, Truth, Ended
<1>3. KeepsSince(r, rows'[r])
  BY <1>1 DEF KeepsSince, Since, Creates
<1> QED
  BY <1>2, <1>3

LEMMA CancelsKeeps ==
  ASSUME Inv, Inv', OutcomeInv, NEW r \in Ids, Cancels(r)
  PROVE  KeepsOutcome(r, rows'[r]) /\ KeepsSince(r, rows'[r])
<1>1. /\ rows[r].ver \in Int /\ clock \in Nat /\ rows[r].ver <= clock /\ LastOK(rows[r])
      /\ Truth(r, rows[r].last) /\ rows'[r].ver = clock
      /\ rows'[r].status = "CANCELED" /\ rows[r].status = "SCHEDULED"
      /\ rows'[r].last = rows[r].last /\ rows'[r].recurring = rows[r].recurring
      /\ rows[r].last.occ \in Int
  BY MoveFacts, LastFields DEF Cancels
<1>2. ~Ended(rows[r]) /\ ~Ended(rows'[r])
  BY <1>1, MoveFacts, Statuses DEF Ended
<1>3. KeepsOutcome(r, rows'[r])
  BY <1>1, <1>2, Statuses DEF KeepsOutcome, LastOK
<1>4. KeepsSince(r, rows'[r])
  BY <1>1, <1>2 DEF KeepsSince, Since
<1> QED
  BY <1>3, <1>4

LEMMA RevivesKeeps ==
  ASSUME Inv, Inv', OutcomeInv, NEW r \in Ids, Revives(r)
  PROVE  KeepsOutcome(r, rows'[r]) /\ KeepsSince(r, rows'[r])
<1>1. PICK t \in Turns : /\ undos[t] # NoUndo /\ undos[t].id = r
                         /\ rows[r].status = "CANCELED" /\ rows[r].ver = undos[t].ver
                         /\ rows'[r] = undos[t].row
  BY DEF Revives
<1>2. UndoOK(t) /\ PendingOK(t)
  BY DEF Inv, UndoInv, OutcomeInv
<1>3. /\ rows'[r].status = "SCHEDULED" /\ rows'[r].fireAt = rows'[r].occ
      /\ rows[r].ver <= rows'[r].ver /\ rows'[r].ver < rows'[r].occ
  BY <1>1, <1>2 DEF UndoOK
<1>4. rows[r].ver \in Int /\ rows'[r].ver \in Int /\ rows'[r].occ \in Int
  BY MoveFacts
<1>5. LastOK(rows'[r]) /\ ~Ended(rows'[r]) /\ Truth(r, rows'[r].last)
  BY <1>1, <1>2, <1>4 DEF PendingOK
<1>6. KeepsOutcome(r, rows'[r])
  BY <1>5 DEF KeepsOutcome
<1>7. KeepsSince(r, rows'[r])
  BY <1>3, <1>4, <1>5 DEF KeepsSince, Since
<1> QED
  BY <1>6, <1>7

LEMMA ClaimsKeeps ==
  ASSUME Inv, Inv', OutcomeInv, NEW r \in Ids, Claims(r)
  PROVE  KeepsOutcome(r, rows'[r]) /\ KeepsSince(r, rows'[r])
<1>1. /\ rows[r].ver \in Int /\ clock \in Nat /\ rows[r].ver <= clock /\ LastOK(rows[r])
      /\ Truth(r, rows[r].last) /\ rows'[r].ver = clock
      /\ rows'[r].status = "FIRING" /\ rows[r].status = "SCHEDULED"
      /\ rows'[r].last = rows[r].last /\ rows'[r].recurring = rows[r].recurring
      /\ rows'[r].occ = rows[r].occ /\ rows[r].fireAt <= clock /\ rows[r].fireAt \in Int
      /\ rows[r].last.occ \in Int
  BY MoveFacts, LastFields DEF Claims
<1>2. ~Ended(rows[r]) /\ ~Ended(rows'[r])
  BY <1>1, MoveFacts, Statuses DEF Ended
<1>3. KeepsOutcome(r, rows'[r])
  BY <1>1, <1>2, Statuses DEF KeepsOutcome, LastOK
<1>4. KeepsSince(r, rows'[r])
  BY <1>1, <1>2 DEF KeepsSince, Since
<1> QED
  BY <1>3, <1>4

LEMMA SettlesKeeps ==
  ASSUME Inv, Inv', OutcomeInv, NEW r \in Ids, Settles(r)
  PROVE  KeepsOutcome(r, rows'[r]) /\ KeepsSince(r, rows'[r])
<1> DEFINE row == rows[r]
           new == rows'[r]
<1>1. /\ row.ver \in Int /\ tick.now \in Nat /\ row.ver <= tick.now /\ LastOK(row)
      /\ Truth(r, row.last) /\ new.ver = tick.now /\ row.status = "FIRING"
      /\ new.recurring = row.recurring /\ row.last.occ \in Int /\ row.occ \in Int
      /\ Records(r, new.status, new.last, new.occ, new.fireAt)
  BY MoveFacts, LastFields DEF Settles
<1>2. ~Ended(row)
  BY MoveFacts, Statuses DEF Settles
<1> HIDE DEF row, new
<1>3. new.status # "NONE" /\ new.status # "FIRING"
  BY <1>1, Statuses DEF Records
<1>4. new.status = "SCHEDULED" => new.fireAt \in Nat /\ new.occ \in Nat /\ tick.now <= new.fireAt
  BY <1>1 DEF Records
<1>5. CASE new.last = row.last /\ new.status = "SCHEDULED" /\ row.occ <= new.occ
  <2>1. ~Ended(new)
    BY <1>1, <1>2, <1>5 DEF Ended
  <2>2. LastOK(new)
    BY <1>1, <1>4, <1>5, Statuses DEF LastOK
  <2>3. KeepsOutcome(r, new)
    BY <1>1, <1>5, <2>1, <2>2 DEF KeepsOutcome
  <2>4. KeepsSince(r, new)
    BY <1>1, <1>3, <1>4, <1>5, <2>1 DEF KeepsSince, Since, row
  <2> QED
    BY <2>3, <2>4 DEF new
<1>6. CASE /\ new.last.outcome # "NONE" /\ new.last.occ \in Nat /\ new.last.occ <= tick.now
           /\ Truth(r, new.last)
           /\ new.status = "SCHEDULED" => row.recurring /\ new.last.occ < new.occ
  <2>1. LastOK(new)
    BY <1>1, <1>3, <1>6, Statuses DEF LastOK
  <2>2. Ended(new) => new.status \in FinalStatus
    BY <1>1, <1>6 DEF Ended, Records
  <2>3. KeepsOutcome(r, new)
    BY <1>6, <2>1, <2>2 DEF KeepsOutcome
  <2>4. KeepsSince(r, new)
    BY <1>1, <1>3, <1>4 DEF KeepsSince, Since, row
  <2> QED
    BY <2>3, <2>4 DEF new
<1> QED
  BY <1>1, <1>5, <1>6 DEF Records, row

LEMMA RowsKept ==
  ASSUME Inv, Inv', OutcomeInv, [Next]_vars, NEW r \in Ids
  PROVE  KeepsOutcome(r, rows'[r]) /\ KeepsSince(r, rows'[r])
<1>1. CASE rows'[r] = rows[r]
  <2>1. KeepsOutcome(r, rows[r])
    BY MoveFacts DEF KeepsOutcome
  <2>2. KeepsSince(r, rows[r])
    BY MoveFacts DEF KeepsSince, Since
  <2> QED
    BY <1>1, <2>1, <2>2
<1>2. RowMove(r)
  BY RowStep
<1> QED
  BY <1>1, <1>2, CreatesKeeps, CancelsKeeps, RevivesKeeps, ClaimsKeeps, SettlesKeeps DEF RowMove

LEMMA SinceKept ==
  ASSUME Inv, Inv', OutcomeInv, [Next]_vars, NEW r \in Ids, NEW v \in Int, Since(r, v)
  PROVE  Since(r, v)'
BY RowsKept DEF KeepsSince, Since

----------------------------------------------------------------------------
(* The other variables the outcome depends on *)

LEMMA DeliverOrKept ==
  ASSUME Inv, [Next]_vars
  PROVE  \/ \E result \in DeliveryResult : Deliver(result)
         \/ sent' = sent /\ (tick'.pc = "delivered" => tick' = tick)
<1>1. CASE AdvanceClock \/ Owner \/ UNCHANGED vars
  BY <1>1 DEF AdvanceClock, Owner, Create, Cancel, UndoRead, Reactivate, UndoRefused, storeVars,
              procVars, vars
<1>2. CASE Lifecycle
  <2>1. CASE \E r \in Ids : RecoverOne(r)
    <3>1. sent' = sent /\ \E r \in Ids : tick' = [tick EXCEPT !.todo = @ \ {r}]
      BY <2>1 DEF RecoverOne
    <3> QED
      BY <2>1, <3>1 DEF RecoverOne
  <2>2. CASE (\E e \in EnabledChoices : Boot(e)) \/ StartDisabled \/ Stop \/ StopTimeout
    BY <2>2 DEF Boot, StartDisabled, Stop, StopTimeout, storeVars
  <2>3. CASE EndRecovery \/ EndTick \/ Exit \/ Crash
    <3>1. sent' = sent /\ tick' = IdleTick
      BY <2>3 DEF EndRecovery, EndTick, Exit, Crash, GoDown, storeVars
    <3> QED
      BY <3>1 DEF IdleTick
  <2>4. CASE Start
    BY <2>4 DEF Start, IdleTick, storeVars
  <2>5. CASE \E S \in SUBSET DueRows, a \in Attempts : OnTimer(S, a)
    BY <2>5 DEF OnTimer, ClaimDue, IdleTick
  <2> QED
    BY <1>2, <2>1, <2>2, <2>3, <2>4, <2>5 DEF Lifecycle
<1>3. CASE Dispatch /\ ~(\E result \in DeliveryResult : Deliver(result))
  <2>1. CASE \E r \in Ids : SkipMissed(r) \/ StartOne(r)
    <3>1. sent' = sent /\ tick.pc = "loop"
      BY <2>1 DEF SkipMissed, StartOne, Takes, storeVars
    <3>2. tick'.pc # "delivered"
      BY <2>1, <3>1 DEF Inv, TypeOK, Tick, SkipMissed, StartOne
    <3> QED
      BY <3>1, <3>2
  <2>2. CASE (\E gone \in BOOLEAN : RecheckDelivers(gone)) \/ (\E due \in Time : RecheckMovedLater(due)) \/ Complete
    BY <2>2 DEF Inv, TypeOK, Tick, RecheckDelivers, RecheckMovedLater, Complete, BackToLoop,
         storeVars
  <2> QED
    BY <1>3, <2>1, <2>2 DEF Dispatch
<1> QED
  BY <1>1, <1>2, <1>3 DEF Next

\* The history only grows, by the occurrence in delivery.
LEMMA WasSentStep ==
  ASSUME Inv, [Next]_vars, NEW r \in Ids, NEW o
  PROVE  /\ WasSent(r, o) => WasSent(r, o)'
         /\ WasSent(r, o)' => \/ WasSent(r, o)
                              \/ tick.pc = "delivering" /\ r = tick.cur /\ o = tick.occ
<1>1. CASE sent' = sent
  BY <1>1 DEF WasSent
<1>2. CASE \E result \in DeliveryResult : Deliver(result) /\ sent' # sent
  <2>1. PICK result \in DeliveryResult : Deliver(result) /\ sent' # sent
    BY <1>2
  <2>2. tick.pc = "delivering" /\ tick.cur \in Ids /\ tick.occ \in Nat
        /\ sent' = [sent EXCEPT ![tick.cur] = Append(@, tick.occ)]
    BY <2>1, DeliverFacts DEF CurOK
  <2>3. sent \in [Ids -> Seq(Nat)]
    BY DEF Inv, TypeOK
  <2>4. CASE r # tick.cur
    <3>1. sent'[r] = sent[r]
      BY <2>2, <2>3, <2>4
    <3> QED
      BY <3>1 DEF WasSent
  <2>5. CASE r = tick.cur
    <3>1. sent'[r] = Append(sent[r], tick.occ) /\ sent[r] \in Seq(Nat)
      BY <2>2, <2>3, <2>5
    <3>2. /\ Len(sent'[r]) = Len(sent[r]) + 1 /\ sent'[r][Len(sent[r]) + 1] = tick.occ
          /\ \A i \in 1..Len(sent[r]) : sent'[r][i] = sent[r][i]
          /\ Len(sent[r]) \in Nat
      BY <3>1, <2>2
    <3>3. WasSent(r, o) => WasSent(r, o)'
      BY <3>2 DEF WasSent
    <3>4. ASSUME NEW i \in 1..Len(sent'[r]), sent'[r][i] = o, o # tick.occ PROVE WasSent(r, o)
      <4>1. i \in 1..Len(sent[r])
        BY <3>2, <3>4
      <4> QED
        BY <3>2, <3>4, <4>1 DEF WasSent
    <3>5. WasSent(r, o)' => WasSent(r, o) \/ o = tick.occ
      BY <3>4 DEF WasSent
    <3> QED
      BY <2>2, <2>5, <3>3, <3>5
  <2> QED
    BY <2>4, <2>5
<1> QED
  BY <1>1, <1>2, DeliverOrKept

LEMMA ActionStep ==
  ASSUME [Next]_vars
  PROVE  \/ lastAction' = lastAction \/ lastAction' = NoAction
         \/ \E r \in Ids : Cancel(r)
BY DEF Next, AdvanceClock, Owner, Create, UndoRead, Reactivate, UndoRefused, Lifecycle, Boot, Start,
   StartDisabled, EndRecovery, EndTick, RecoverOne, OnTimer, Stop, StopTimeout, Exit, Crash, GoDown,
   Dispatch, SkipMissed, StartOne, RecheckDelivers, RecheckMovedLater, Deliver, Complete,
       ownerVars, vars

LEMMA UndoStep ==
  ASSUME Inv, [Next]_vars, NEW t \in Turns
  PROVE  \/ undos'[t] = undos[t] \/ undos'[t] = NoUndo
         \/ \E at \in Time \cup Occurrences : UndoRead(t, at)
<1>1. undos \in [Turns -> Undo]
  BY DEF Inv, TypeOK
<1>2. CASE Owner
  <2>1. CASE \E q \in Turns : Reactivate(q) \/ UndoRefused(q)
    BY <1>1, <2>1 DEF Reactivate, UndoRefused
  <2>2. CASE \E q \in Turns, at \in Time \cup Occurrences : UndoRead(q, at)
    <3>1. PICK q \in Turns, at \in Time \cup Occurrences : UndoRead(q, at)
      BY <2>2
    <3>2. CASE q = t
      BY <3>1, <3>2
    <3>3. CASE q # t
      BY <1>1, <3>1, <3>3 DEF UndoRead
    <3> QED
      BY <3>2, <3>3
  <2>3. CASE undos' = undos
    BY <2>3
  <2> QED
    BY <1>2, <2>1, <2>2, <2>3 DEF Owner, Create, Cancel, ownerVars
<1>3. CASE Exit \/ Crash
  BY <1>3 DEF Exit, Crash, GoDown
<1>4. CASE undos' = undos
  BY <1>4
<1> QED
  BY <1>2, <1>3, <1>4 DEF Next, AdvanceClock, Lifecycle, Boot, Start,
   StartDisabled, EndRecovery, EndTick, RecoverOne, OnTimer, Stop, StopTimeout,
   Dispatch, SkipMissed, StartOne, RecheckDelivers, RecheckMovedLater, Deliver, Complete,
       ownerVars, vars

----------------------------------------------------------------------------
(* OutcomeInv is inductive *)

LEMMA InitOutcome == Init => OutcomeInv
<1> SUFFICES ASSUME Init PROVE OutcomeInv
  OBVIOUS
<1>1. \A r \in Ids : rows[r].last.outcome = "NONE"
  BY DEF Init, NoReminder, NoOutcome
<1>2. \A r \in Ids : OutcomeOK(r)
  BY <1>1 DEF OutcomeOK, LastOK, Truth, Ended
<1>3. lastAction.id = 0 /\ tick.pc = "idle" /\ \A t \in Turns : undos[t] = NoUndo
  BY DEF Init, NoAction, IdleTick
<1> QED
  BY <1>2, <1>3 DEF OutcomeInv, PendingOK

LEMMA CurIsFiring ==
  ASSUME Inv, tick.pc = "delivering"
  PROVE  /\ tick.cur \in Ids /\ rows[tick.cur].status = "FIRING"
         /\ tick.occ \in Nat /\ rows[tick.cur].occ <= tick.occ
BY DEF Inv, TickInv, Sending, CurOK, Held

LEMMA OutcomeOKStep ==
  ASSUME Inv, Inv', OutcomeInv, [Next]_vars, NEW r \in Ids
  PROVE  OutcomeOK(r)'
<1>0. PICK last : last = rows'[r].last
  OBVIOUS
<1>1. LastOK(rows'[r]) /\ Truth(r, last) /\ (Ended(rows'[r]) => rows'[r].status \in FinalStatus)
  BY <1>0, RowsKept DEF KeepsOutcome
<1>2. \/ tick.pc = "delivering" /\ r = tick.cur /\ last.occ = tick.occ
      \/ WasSent(r, last.occ)' <=> WasSent(r, last.occ)
  BY WasSentStep
<1>3. CASE tick.pc = "delivering" /\ r = tick.cur /\ last.occ = tick.occ
  <2>1. CASE rows' = rows
    <3>1. LastOK(rows[r]) /\ rows[r].status = "FIRING" /\ rows[r].occ <= tick.occ /\ tick.occ \in Nat
          /\ rows[r].last.occ = tick.occ /\ rows[r].occ \in Int
      BY <1>0, <1>3, <2>1, CurIsFiring, MoveFacts
    <3>2. last.outcome = "NONE"
      BY <1>0, <2>1, <3>1, Statuses DEF LastOK
    <3> QED
      BY <1>0, <1>1, <3>2 DEF OutcomeOK, Truth
  <2>2. CASE rows' # rows
    <3>1. sent' = sent
      BY <2>2, DeliverOrKept DEF Deliver
    <3> QED
      BY <1>0, <1>1, <3>1 DEF OutcomeOK, Truth, WasSent
  <2> QED
    BY <2>1, <2>2
<1>4. CASE WasSent(r, last.occ)' <=> WasSent(r, last.occ)
  BY <1>0, <1>1, <1>4 DEF OutcomeOK, Truth
<1> QED
  BY <1>2, <1>3, <1>4

\* The undo read: the row was canceled at the version it still has, so it has not ended.
LEMMA UndoReadPending ==
  ASSUME Inv, OutcomeInv, NEW t \in Turns, NEW at \in Time \cup Occurrences, UndoRead(t, at)
  PROVE  PendingOK(t)'
<1> DEFINE r == lastAction.id
           row == ReactivateReminder(rows[r], clock, at)
           u == [id |-> r, ver |-> lastAction.ver, row |-> row]
<1>1. /\ r \in Ids /\ r # 0 /\ rows[r].status = "CANCELED" /\ rows[r].ver = lastAction.ver
      /\ rows' = rows /\ sent' = sent
  BY DEF UndoRead, storeVars, Inv, TypeOK, Action
<1>2. undos'[t] = u
  BY DEF UndoRead, Inv, TypeOK
<1>3. /\ rows[r] \in Reminder /\ rows[r].ver \in Int /\ clock \in Nat /\ rows[r].ver <= clock
      /\ OutcomeOK(r) /\ Since(r, lastAction.ver) /\ rows[r].last.occ \in Int
  BY <1>1, InvTypes, RowFields, LastFields DEF Inv, RowsInv, RowOK, OutcomeInv
<1>4. ~Ended(rows[r])
  BY <1>1, <1>3 DEF Since
<1>5. at \in Nat /\ at > clock
  <2>1. at \in Nat
    BY TimeAssumption, OccurrencesAssumption DEF Time
  <2> QED
    BY <1>3, <2>1, TimeAssumption DEF UndoRead, IsNext
<1>6. /\ row.status = "SCHEDULED" /\ row.recurring = rows[r].recurring /\ row.last = rows[r].last
      /\ row.occ = at /\ row.ver = clock
  BY <1>3 DEF ReactivateReminder, Reminder
<1> HIDE DEF row
<1>7. ~Ended(row)
  BY <1>4, <1>6 DEF Ended
<1>8. LastOK(row)
  BY <1>3, <1>5, <1>6 DEF LastOK, OutcomeOK
<1>9. Truth(r, row.last)
  BY <1>3, <1>6 DEF OutcomeOK
<1>10. u.id = r /\ u.ver = lastAction.ver /\ u.row = row
  OBVIOUS
<1> HIDE DEF u
<1> QED
  BY <1>1, <1>2, <1>3, <1>7, <1>8, <1>9, <1>10 DEF PendingOK, Since, Truth, WasSent

LEMMA PendingStep ==
  ASSUME Inv, Inv', OutcomeInv, [Next]_vars, NEW t \in Turns
  PROVE  PendingOK(t)'
<1>1. CASE undos'[t] = NoUndo
  BY <1>1 DEF PendingOK
<1>2. CASE undos'[t] = undos[t] /\ undos[t] # NoUndo
  <2>1. PICK u : u = undos[t]
    OBVIOUS
  <2>2. /\ u.id \in Ids /\ u.ver \in Int /\ Since(u.id, u.ver) /\ LastOK(u.row) /\ ~Ended(u.row)
        /\ Truth(u.id, u.row.last) \/ u.ver < rows[u.id].ver
    BY <1>2, <2>1, InvTypes DEF OutcomeInv, PendingOK, Inv, UndoInv, UndoOK
  <2>3. Since(u.id, u.ver)'
    BY <2>2, SinceKept
  <2>4. rows[u.id].ver <= rows'[u.id].ver /\ rows[u.id].ver \in Int /\ rows'[u.id].ver \in Int
    BY <2>2, RowsKept, MoveFacts DEF KeepsSince
  <2>5. Truth(u.id, u.row.last)' \/ u.ver < rows'[u.id].ver
    <3>1. CASE u.ver < rows[u.id].ver
      BY <2>2, <2>4, <3>1
    <3>2. CASE ~(u.ver < rows[u.id].ver)
      <4>1. ~(tick.pc = "delivering" /\ u.id = tick.cur)
        BY <2>2, <3>2, CurIsFiring DEF Since
      <4>2. WasSent(u.id, u.row.last.occ)' <=> WasSent(u.id, u.row.last.occ)
        BY <2>2, <4>1, WasSentStep
      <4> QED
        BY <2>2, <3>2, <4>2 DEF Truth
    <3> QED
      BY <3>1, <3>2
  <2>6. undos'[t] = u
    BY <1>2, <2>1
  <2> QED
    BY <2>2, <2>3, <2>5, <2>6 DEF PendingOK
<1>3. CASE \E at \in Time \cup Occurrences : UndoRead(t, at)
  BY <1>3, UndoReadPending
<1> QED
  BY <1>1, <1>2, <1>3, UndoStep

LEMMA ActionPending ==
  ASSUME Inv, Inv', OutcomeInv, [Next]_vars, lastAction'.id # 0
  PROVE  Since(lastAction.id, lastAction.ver)'
<1>1. CASE lastAction' = lastAction
  <2>1. PICK a : a = lastAction
    OBVIOUS
  <2>2. a.id \in Ids /\ a.ver \in Int /\ Since(a.id, a.ver)
    BY <1>1, <2>1 DEF Inv, TypeOK, Action, Instant, Absent, OutcomeInv
  <2>3. Since(a.id, a.ver)'
    BY <2>2, SinceKept
  <2> QED
    BY <1>1, <2>1, <2>3 DEF Since
<1>2. CASE lastAction' = NoAction
  BY <1>2 DEF NoAction
<1>3. CASE \E r \in Ids : Cancel(r)
  <2>1. PICK r \in Ids : Cancel(r)
    BY <1>3
  <2>2. lastAction'.id = r /\ lastAction'.ver = clock /\ clock \in Nat
    BY <2>1, InvTypes DEF Cancel
  <2>3. PICK new : new = rows'[r]
    OBVIOUS
  <2>4. new.status = "CANCELED" /\ new.ver = clock
    <3>1. rows'[r] = CancelReminder(rows[r], clock) /\ rows[r] \in Reminder
      BY <2>1 DEF Cancel, Inv, TypeOK
    <3> QED
      BY <2>3, <3>1 DEF CancelReminder, Reminder
  <2>5. ~Ended(new)
    <3>1. ~Ended(rows[r]) /\ rows[r] \in Reminder
      BY <2>1, MoveFacts, Statuses DEF Cancel
    <3>2. new = CancelReminder(rows[r], clock)
      BY <2>1, <2>3 DEF Cancel, Inv, TypeOK
    <3>3. new.recurring = rows[r].recurring /\ new.last = rows[r].last
      BY <3>1, <3>2 DEF CancelReminder, Reminder
    <3> QED
      BY <3>1, <3>3 DEF Ended
  <2> QED
    BY <2>2, <2>3, <2>4, <2>5 DEF Since
<1> QED
  BY <1>1, <1>2, <1>3, ActionStep

LEMMA DeliveredTruth ==
  ASSUME Inv, Inv', OutcomeInv, [Next]_vars, tick'.pc = "delivered", tick'.result = "SENT"
  PROVE  WasSent(tick.cur, tick.occ)'
<1>1. CASE tick' = tick
  <2>1. tick.cur \in Ids /\ tick.occ \in Nat /\ WasSent(tick.cur, tick.occ)
    BY <1>1 DEF OutcomeInv, Inv, TickInv, Sending, CurOK
  <2>2. PICK c \in Ids, o \in Nat : c = tick.cur /\ o = tick.occ
    BY <2>1
  <2>3. WasSent(c, o)'
    BY <2>1, <2>2, WasSentStep
  <2> QED
    BY <1>1, <2>2, <2>3 DEF WasSent
<1>2. CASE \E result \in DeliveryResult : Deliver(result)
  <2>1. PICK result \in DeliveryResult : Deliver(result)
    BY <1>2
  <2>2. tick' = [tick EXCEPT !.pc = "delivered", !.result = result] /\ tick \in Tick
    BY <2>1 DEF Deliver, Inv, TypeOK
  <2>3. result = "SENT" /\ tick'.cur = tick.cur /\ tick'.occ = tick.occ
    BY <2>2 DEF Tick
  <2>4. PICK c \in Ids, o \in Nat : c = tick.cur /\ o = tick.occ
    BY <2>1, DeliverFacts DEF CurOK
  <2>5. sent' = [sent EXCEPT ![c] = Append(@, o)] /\ sent \in [Ids -> Seq(Nat)]
    BY <2>1, <2>3, <2>4 DEF Deliver, Transmitted, Inv, TypeOK
  <2>6. sent'[c] = Append(sent[c], o) /\ sent[c] \in Seq(Nat)
    BY <2>5
  <2>7. Len(sent'[c]) = Len(sent[c]) + 1 /\ sent'[c][Len(sent[c]) + 1] = o /\ Len(sent[c]) \in Nat
    BY <2>6
  <2>8. Len(sent[c]) + 1 \in 1..Len(sent'[c])
    BY <2>7
  <2> QED
    BY <2>3, <2>4, <2>7, <2>8 DEF WasSent
<1> QED
  BY <1>1, <1>2, DeliverOrKept

LEMMA OutcomeStep == ASSUME Inv, Inv', OutcomeInv, [Next]_vars PROVE OutcomeInv'
BY OutcomeOKStep, PendingStep, ActionPending, DeliveredTruth DEF OutcomeInv

\* The recorded outcomes follow the history, and a version the owner's undo may still find was
\* never followed by a delivery or an end.
THEOREM OutcomeInvHolds == Spec => []OutcomeInv
BY InvHolds, InitOutcome, OutcomeStep, PTL DEF Spec

\* The outcome shown to the owner is true, through every crash, recovery, retry and undo.
THEOREM OutcomeIsTrueHolds == Spec => []OutcomeIsTrue
<1>1. OutcomeInv => OutcomeIsTrue
  BY DEF OutcomeInv, OutcomeOK, Truth, OutcomeIsTrue
<1> QED
  BY OutcomeInvHolds, <1>1, PTL

----------------------------------------------------------------------------
(* Ended for good, the transition table and the active limit *)

LEMMA EndedStep ==
  ASSUME Inv, OutcomeInv, [Next]_vars, NEW r \in Ids, Ended(rows[r])
  PROVE  rows'[r].status \in FinalStatus /\ rows'[r].last = rows[r].last
<1>1. rows[r].status \in FinalStatus
  BY DEF OutcomeInv, OutcomeOK
<1>2. rows[r].status \notin {"NONE", "SCHEDULED", "FIRING"}
  BY <1>1, Statuses
<1>3. ~Revives(r)
  <2> SUFFICES ASSUME NEW t \in Turns, undos[t] # NoUndo, undos[t].id = r,
        rows[r].ver = undos[t].ver
               PROVE  FALSE
    BY DEF Revives
  <2>1. Since(r, rows[r].ver) /\ rows[r].ver \in Int
    BY InvTypes DEF OutcomeInv, PendingOK
  <2> QED
    BY <2>1 DEF Since
<1>4. RowMove(r)
  BY RowStep
<1> QED
  BY <1>1, <1>2, <1>3, <1>4 DEF RowMove, Creates, Cancels, Claims, Settles

\* ONCE reminders: what ended (delivered, failed, uncertain, or its event gone) never fires again,
\* because an undo still in flight finds a later version.
THEOREM OnceEndsForGoodHolds == Spec => OnceEndsForGood
<1>1. Inv /\ OutcomeInv /\ [Next]_vars =>
        [\A r \in Ids :
           ~rows[r].recurring /\ rows[r].last.outcome # "NONE"
             => rows'[r].status \in FinalStatus /\ rows'[r].last = rows[r].last]_rows
  BY EndedStep DEF Ended
<1> QED
  BY InvHolds, OutcomeInvHolds, <1>1, PTL DEF Spec, OnceEndsForGood

LEMMA TransitionStep ==
  ASSUME Inv, OutcomeInv, [Next]_vars, NEW r \in Ids, rows'[r].status # rows[r].status
  PROVE  \/ rows[r].status = "NONE" /\ rows'[r].status = "SCHEDULED"
         \/ rows[r].status # "NONE" /\ rows'[r].status \in TRANSITIONS[rows[r].status]
         \/ /\ rows[r].status = "CANCELED" /\ rows'[r].status = "SCHEDULED"
            /\ \E t \in Turns : undos[t].id = r /\ undos'[t] = NoUndo
<1>1. /\ TRANSITIONS["SCHEDULED"] = {"FIRING", "CANCELED", "SCHEDULED"}
      /\ TRANSITIONS["FIRING"] = {"COMPLETED", "SCHEDULED", "FAILED", "DELIVERY_UNCERTAIN", "CANCELED"}
  BY DEF TRANSITIONS, ReminderStatus, ActiveStatus, FinalStatus
<1>2. CASE Creates(r)
  BY <1>2 DEF Creates
<1>3. CASE Cancels(r) \/ Claims(r)
  BY <1>1, <1>3 DEF Cancels, Claims
<1>4. CASE Settles(r)
  <2>1. rows[r].status = "FIRING" /\ rows'[r].status \in {"SCHEDULED"} \cup FinalStatus
    BY <1>4 DEF Settles, Records
  <2> QED
    BY <1>1, <2>1 DEF FinalStatus
<1>5. CASE Revives(r)
  <2>1. rows[r].status = "CANCELED" /\ rows'[r].status = "SCHEDULED"
    BY <1>5, RevivedRow
  <2> QED
    BY <1>5, <2>1 DEF Revives
<1>6. RowMove(r)
  BY RowStep
<1> QED
  BY <1>2, <1>3, <1>4, <1>5, <1>6 DEF RowMove

\* assertTransition's table, for every step of every actor; only an undo turn of the reminder itself
\* brings it back from CANCELED.
THEOREM LegalTransitionsHolds == Spec => LegalTransitions
<1>1. Inv /\ OutcomeInv /\ [Next]_vars =>
        [\A r \in Ids :
           rows'[r].status # rows[r].status =>
             \/ rows[r].status = "NONE" /\ rows'[r].status = "SCHEDULED"
             \/ rows[r].status # "NONE" /\ rows'[r].status \in TRANSITIONS[rows[r].status]
             \/ /\ rows[r].status = "CANCELED" /\ rows'[r].status = "SCHEDULED"
                /\ \E t \in Turns : undos[t].id = r /\ undos'[t] = NoUndo]_rows
  BY TransitionStep
<1> QED
  BY InvHolds, OutcomeInvHolds, <1>1, PTL DEF Spec, LegalTransitions

LEMMA ActiveKept ==
  ASSUME Inv, OutcomeInv, [Next]_vars, NEW r \in Ids, ~Creates(r), ~Revives(r),
         rows'[r].status \in ActiveStatus
  PROVE  rows[r].status \in ActiveStatus
<1>1. RowMove(r)
  BY RowStep
<1> QED
  BY <1>1, Statuses DEF RowMove, Cancels, Claims, Settles

LEMMA LimitStep == ASSUME Inv, OutcomeInv, LimitInv, [Next]_vars PROVE LimitInv'
<1>1. IsFiniteSet(ActiveRows) /\ Cardinality(ActiveRows) <= MaxActive
      /\ Cardinality(ActiveRows) \in Nat /\ MaxActive \in Nat
  BY FS_CardinalityType, BoundAssumption DEF LimitInv
<1>2. CASE NothingAdded
  <2>1. ActiveRows' \subseteq ActiveRows
    BY <1>2, ActiveKept DEF NothingAdded, ActiveRows
  <2>2. /\ IsFiniteSet(ActiveRows') /\ Cardinality(ActiveRows') <= Cardinality(ActiveRows)
        /\ Cardinality(ActiveRows') \in Nat
    BY <1>1, <2>1, FS_Subset, FS_CardinalityType
  <2> QED
    BY <1>1, <2>2 DEF LimitInv
<1>3. CASE Adds
  <2>1. PICK r \in Ids : BelowLimit /\ \A q \in Ids \ {r} : rows'[q] = rows[q]
    BY <1>3 DEF Adds
  <2>2. ActiveRows' \subseteq ActiveRows \cup {r}
    BY <2>1 DEF ActiveRows
  <2>3. /\ IsFiniteSet(ActiveRows \cup {r})
        /\ Cardinality(ActiveRows \cup {r}) <= Cardinality(ActiveRows) + 1
        /\ Cardinality(ActiveRows \cup {r}) \in Nat
    <3> DEFINE S == ActiveRows
    <3> HIDE DEF S
    <3>1. IsFiniteSet(S) /\ Cardinality(S) \in Nat
      BY <1>1 DEF S
    <3>2. /\ IsFiniteSet(S \cup {r})
          /\ Cardinality(S \cup {r}) = IF r \in S THEN Cardinality(S) ELSE Cardinality(S) + 1
      BY <3>1, FS_AddElement
    <3>3. Cardinality(S \cup {r}) \in Nat /\ Cardinality(S \cup {r}) <= Cardinality(S) + 1
      BY <3>1, <3>2
    <3> QED
      BY <3>2, <3>3 DEF S
  <2>4. /\ IsFiniteSet(ActiveRows') /\ Cardinality(ActiveRows') <= Cardinality(ActiveRows \cup {r})
        /\ Cardinality(ActiveRows') \in Nat
    BY <2>2, <2>3, FS_Subset, FS_CardinalityType
  <2> QED
    BY <1>1, <2>1, <2>3, <2>4 DEF LimitInv, BelowLimit
<1> QED
  BY <1>2, <1>3, RowStep

\* maxActivePerActor: whatever is created, retried, fired or undone in any interleaving.
THEOREM WithinActiveLimitHolds == Spec => []WithinActiveLimit
<1>1. Init => LimitInv
  <2> SUFFICES ASSUME Init PROVE LimitInv
    OBVIOUS
  <2>1. ActiveRows = {}
    BY DEF Init, ActiveRows, NoReminder, ActiveStatus
  <2> QED
    BY <2>1, FS_EmptySet, BoundAssumption DEF LimitInv
<1>2. LimitInv => WithinActiveLimit
  BY DEF LimitInv, WithinActiveLimit
<1> QED
  BY InvHolds, OutcomeInvHolds, <1>1, <1>2, LimitStep, PTL DEF Spec

----------------------------------------------------------------------------
(* No row is left FIRING between ticks *)

IsFiring(r) == rows[r].status = "FIRING"

LEMMA HandHeld ==
  ASSUME Inv, NEW r \in InHand
  PROVE  r \in Ids /\ Held(r)
<1>1. tick \in Tick /\ tick.todo \subseteq Ids
  BY DEF Inv, TypeOK, Tick
<1>2. CASE r \in tick.todo
  BY <1>1, <1>2 DEF Inv, TickInv, TodoOK
<1>3. CASE tick.pc \in Sending /\ r = tick.cur
  BY <1>3 DEF Inv, TickInv, CurOK
<1> QED
  BY <1>2, <1>3 DEF InHand

LEMMA IdleHand ==
  ASSUME Inv, tick.pc = "idle"
  PROVE  InHand = {}
BY DEF Inv, TickInv, InHand, Sending

\* The owner's turns leave the rows being fired alone, and make no other row FIRING.
LEMMA OwnerLeavesFiring ==
  ASSUME Inv, Owner, NEW r \in Ids
  PROVE  /\ IsFiring(r) => rows'[r] = rows[r]
         /\ IsFiring(r)' => rows'[r] = rows[r]
<1>0. rows \in [Ids -> Reminder]
  BY DEF Inv, TypeOK
<1>1. ASSUME NEW q \in Ids, NEW rec \in BOOLEAN, NEW ev \in BOOLEAN,
             NEW at \in Time \cup Occurrences, Create(q, rec, ev, at), rows'[r] # rows[r]
      PROVE  rows[r].status = "NONE" /\ rows'[r].status = "SCHEDULED"
  <2>1. rows'[r] = Draft(rec, ev, at, clock) /\ rows[r].status = "NONE"
    BY <1>0, <1>1 DEF Create
  <2> QED
    BY <2>1 DEF Draft, NoReminder
<1>2. ASSUME NEW q \in Ids, Cancel(q), rows'[r] # rows[r]
      PROVE  rows[r].status = "SCHEDULED" /\ rows'[r].status = "CANCELED"
  <2>1. rows'[r] = CancelReminder(rows[r], clock) /\ rows[r].status = "SCHEDULED" /\ rows[r] \in Reminder
    BY <1>0, <1>2 DEF Cancel
  <2> QED
    BY <2>1 DEF CancelReminder, Reminder
<1>3. ASSUME NEW t \in Turns, Reactivate(t), rows'[r] # rows[r]
      PROVE  rows[r].status = "CANCELED" /\ rows'[r].status = "SCHEDULED"
  <2>1. undos[t] # NoUndo /\ rows[r].status = "CANCELED" /\ rows'[r] = undos[t].row
    BY <1>0, <1>3 DEF Reactivate
  <2> QED
    BY <2>1 DEF Inv, UndoInv, UndoOK
<1>4. CASE rows'[r] # rows[r]
  BY <1>1, <1>2, <1>3, <1>4 DEF Owner, UndoRead, UndoRefused, storeVars, IsFiring
<1> QED
  BY <1>4

\* A completion under the right attempt id takes the row out of FIRING.
LEMMA CompletionSettles ==
  ASSUME Inv, NEW r \in Ids, NEW a, NEW plan, Held(r), plan.status # "FIRING",
         CompleteOrThrow(r, a, plan)
  PROVE  /\ \A q \in Ids \ {r} : rows'[q] = rows[q]
         /\ ~StoreMayFail /\ rows[r].token = a => ~IsFiring(r)'
<1> DEFINE new == ApplyFiringCompletion(rows[r], plan)
<1>1. rows \in [Ids -> Reminder]
  BY DEF Inv, TypeOK
<1>2. new.status = plan.status
  BY DEF ApplyFiringCompletion
<1>3. rows' = rows \/ rows' = [rows EXCEPT ![r] = new]
  BY DEF CompleteOrThrow, CompleteFiring
<1>4. ~StoreMayFail /\ rows[r].token = a => rows' = [rows EXCEPT ![r] = new]
  BY DEF CompleteOrThrow, CompleteFiring, Held
<1> HIDE DEF new
<1> QED
  BY <1>1, <1>2, <1>3, <1>4 DEF IsFiring

\* One row of the hand is settled and leaves it.
LEMMA SettledLeavesHand ==
  ASSUME Inv, FiringInv, NEW r \in Ids, NEW a, NEW plan, Held(r), PlanRecords(r, plan),
         CompleteOrThrow(r, a, plan), rows[r].token = a,
         InHand' = InHand \ {r}, tick'.attempt = tick.attempt, driver' = driver,
         tick'.pc \in {"idle", "recovering"} \/ tick.pc \notin {"idle", "recovering"}
  PROVE  FiringInv'
<1>1. plan.status # "FIRING"
  BY Statuses DEF PlanRecords, Records
<1>2. /\ \A q \in Ids \ {r} : rows'[q] = rows[q]
      /\ ~StoreMayFail => ~IsFiring(r)'
  BY <1>1, CompletionSettles
<1>3. InHand \subseteq Ids
  BY HandHeld
<1> QED
  BY <1>2, <1>3 DEF FiringInv, IsFiring

LEMMA HandKept ==
  ASSUME Inv, FiringInv, tick'.pc = tick.pc \/ {tick'.pc, tick.pc} \subseteq Sending,
         InHand' = InHand, tick'.attempt = tick.attempt,
         driver' = driver \/ driver' \notin {"STARTING", "RUNNING"},
         \A r \in Ids : /\ IsFiring(r) => rows'[r] = rows[r]
                        /\ IsFiring(r)' => rows'[r] = rows[r]
  PROVE  FiringInv'
<1>1. \A r \in InHand : r \in Ids /\ rows'[r] = rows[r]
  BY HandHeld DEF Held, IsFiring
<1>2. \A r \in Ids : rows'[r].status = "FIRING" => rows[r].status = "FIRING"
  BY DEF IsFiring
<1> QED
  BY <1>1, <1>2 DEF FiringInv, Sending

LEMMA QuietFiring ==
  ASSUME Inv, FiringInv,
         \/ AdvanceClock \/ Owner \/ UNCHANGED vars
         \/ \E e \in EnabledChoices : Boot(e)
         \/ StartDisabled \/ Stop \/ StopTimeout
  PROVE  FiringInv'
<1>1. tick' = tick /\ (driver' = driver \/ driver' \notin {"STARTING", "RUNNING"})
  BY DEF AdvanceClock, Owner, Create, Cancel, UndoRead, Reactivate, UndoRefused, Boot,
           StartDisabled,
         Stop, StopTimeout, procVars, vars
<1>2. Owner \/ rows' = rows
  BY DEF AdvanceClock, Boot, StartDisabled, Stop, StopTimeout, storeVars, vars
<1>3. \A r \in Ids : /\ IsFiring(r) => rows'[r] = rows[r]
                     /\ IsFiring(r)' => rows'[r] = rows[r]
  BY <1>2, OwnerLeavesFiring
<1>4. InHand' = InHand
  BY <1>1 DEF InHand
<1> QED
  BY <1>1, <1>3, <1>4, HandKept

LEMMA StartFiring == ASSUME Inv, FiringInv, Start PROVE FiringInv'
<1>1. PICK found \in SUBSET Ids :
        /\ found = {r \in Ids : rows[r].status = "FIRING"} \/ StoreMayFail
        /\ tick' = [IdleTick EXCEPT !.pc = "recovering", !.now = clock, !.todo = found]
  BY DEF Start
<1>2. tick'.pc = "recovering" /\ tick'.todo = found /\ rows' = rows
  BY <1>1 DEF Start, IdleTick, storeVars
<1> QED
  BY <1>1, <1>2 DEF FiringInv, InHand, Sending

LEMMA EndFiring == ASSUME Inv, FiringInv, EndRecovery \/ EndTick \/ Exit \/ Crash PROVE FiringInv'
<1>1. tick' = IdleTick /\ rows' = rows
  BY DEF EndRecovery, EndTick, Exit, Crash, GoDown, storeVars
<1>2. tick'.pc = "idle" /\ tick'.todo = {}
  BY <1>1 DEF IdleTick
<1>3. CASE Exit \/ Crash
  BY <1>2, <1>3 DEF FiringInv, Exit, Crash, GoDown
<1>4. CASE EndRecovery \/ EndTick
  <2>1. driver' \in {"STARTING", "RUNNING"} => driver \in {"STARTING", "RUNNING"} /\ InHand = {}
    BY <1>4 DEF EndRecovery, EndTick, Stopping, InHand, Sending
  <2> QED
    BY <1>1, <1>2, <2>1 DEF FiringInv
<1> QED
  BY <1>3, <1>4

LEMMA OnTimerFiring ==
  ASSUME Inv, FiringInv, TicksNeverOverlap, NEW S \in SUBSET DueRows, NEW a \in Attempts,
           OnTimer(S, a)
  PROVE  FiringInv'
<1>1. InHand = {} /\ driver = "RUNNING"
  BY IdleHand DEF OnTimer, TicksNeverOverlap
<1>2. tick'.pc = "loop" /\ tick'.todo = S /\ tick'.attempt = a /\ S \subseteq Ids
  BY DEF OnTimer, ClaimDue, IdleTick, DueRows
<1>3. InHand' = S
  BY <1>2 DEF InHand, Sending
<1>4. \A r \in Ids \ S : rows'[r] = rows[r]
  BY DEF OnTimer, ClaimDue
<1>5. \A r \in S : rows'[r].token = a
  <2> SUFFICES ASSUME NEW r \in S PROVE rows'[r].token = a
    OBVIOUS
  <2>1. rows'[r] = ClaimReminder(rows[r], a, clock) /\ rows[r] \in Reminder
    BY <1>2, InvTypes DEF OnTimer, ClaimDue
  <2> QED
    BY <2>1 DEF ClaimReminder, Reminder
<1> QED
  BY <1>1, <1>2, <1>3, <1>4, <1>5 DEF FiringInv

LEMMA RecoverOneFiring == ASSUME Inv, FiringInv, NEW r \in Ids, RecoverOne(r) PROVE FiringInv'
<1>1. /\ tick.pc = "recovering" /\ r \in tick.todo /\ tick' = [tick EXCEPT !.todo = @ \ {r}]
      /\ driver' = driver /\ CompleteOrThrow(r, snap[r].token, RecoveryPlan(snap[r], tick.now))
  BY DEF RecoverOne, IsFirst
<1>2. tick'.pc = "recovering" /\ tick'.todo = tick.todo \ {r} /\ tick'.attempt = tick.attempt
  BY <1>1 DEF Inv, TypeOK, Tick
<1>3. InHand' = InHand \ {r}
  BY <1>1, <1>2 DEF InHand, Sending
<1>4. Held(r) /\ PlanRecords(r, RecoveryPlan(snap[r], tick.now)) /\ rows[r].token = snap[r].token
  BY RecoveryRecords DEF Held
<1> QED
  BY <1>1, <1>2, <1>3, <1>4, SettledLeavesHand

LEMMA SkipFiring == ASSUME Inv, FiringInv, NEW r \in Ids, SkipMissed(r) PROVE FiringInv'
<1> DEFINE plan == PlanAdvance("SKIPPED_MISSED", DueOccurrence(snap[r].occ, tick.now),
                               NextOccurrenceAfter(tick.now), tick.now)
<1>1. /\ tick.pc = "loop" /\ r \in tick.todo /\ tick' = [tick EXCEPT !.todo = @ \ {r}]
      /\ driver' = driver /\ CompleteOrThrow(r, tick.attempt, plan)
  BY DEF SkipMissed, Takes, IsFirst
<1>2. tick'.pc = "loop" /\ tick'.todo = tick.todo \ {r} /\ tick'.attempt = tick.attempt
  BY <1>1 DEF Inv, TypeOK, Tick
<1>3. InHand' = InHand \ {r}
  BY <1>1, <1>2 DEF InHand, Sending
<1>4. Held(r) /\ PlanRecords(r, plan)
  BY SkipRecords
<1>5. rows[r].token = tick.attempt
  BY <1>1 DEF FiringInv, InHand
<1> HIDE DEF plan
<1> QED
  BY <1>1, <1>2, <1>3, <1>4, <1>5, SettledLeavesHand

LEMMA StartOneFiring == ASSUME Inv, FiringInv, NEW r \in Ids, StartOne(r) PROVE FiringInv'
<1>1. tick.pc = "loop" /\ r \in tick.todo /\ rows' = rows /\ driver' = driver
  BY DEF StartOne, Takes, IsFirst, storeVars
<1>2. /\ tick'.pc \in {"rechecking", "delivering"} /\ tick'.todo = tick.todo \ {r} /\ tick'.cur = r
      /\ tick'.attempt = tick.attempt
  BY DEF StartOne, Inv, TypeOK, Tick
<1>3. InHand = tick.todo /\ InHand' = tick.todo
  BY <1>1, <1>2 DEF InHand, Sending
<1> QED
  BY <1>1, <1>2, <1>3 DEF FiringInv

LEMMA DeliveryFiring ==
  ASSUME Inv, FiringInv,
         \/ \E gone \in BOOLEAN : RecheckDelivers(gone)
         \/ \E result \in DeliveryResult : Deliver(result)
  PROVE  FiringInv'
<1>1. rows' = rows /\ driver' = driver /\ tick.pc \in Sending
  BY DEF RecheckDelivers, Deliver, Sending, storeVars
<1>2. /\ tick'.pc \in Sending /\ tick'.todo = tick.todo /\ tick'.cur = tick.cur
      /\ tick'.attempt = tick.attempt
  BY DEF RecheckDelivers, Deliver, Sending, Inv, TypeOK, Tick
<1>3. InHand' = InHand
  BY <1>1, <1>2 DEF InHand
<1> QED
  BY <1>1, <1>2, <1>3, HandKept

LEMMA CompletionFiring ==
  ASSUME Inv, FiringInv, NEW plan, tick.pc \in Sending, PlanRecords(tick.cur, plan),
         CompleteOrThrow(tick.cur, tick.attempt, plan), tick' = BackToLoop, driver' = driver
  PROVE  FiringInv'
<1>1. tick.cur \in Ids /\ Held(tick.cur) /\ tick.cur \notin tick.todo
  BY DEF Inv, TickInv, CurOK
<1>2. tick'.pc = "loop" /\ tick'.todo = tick.todo /\ tick'.attempt = tick.attempt
  BY DEF BackToLoop, Inv, TypeOK, Tick
<1>3. InHand' = InHand \ {tick.cur}
  BY <1>1, <1>2 DEF InHand, Sending
<1>4. rows[tick.cur].token = tick.attempt
  BY DEF FiringInv, InHand, Sending
<1>5. tick.pc \notin {"idle", "recovering"}
  BY DEF Sending
<1>6. PICK c \in Ids : c = tick.cur
  BY <1>1
<1> QED
  BY <1>1, <1>2, <1>3, <1>4, <1>5, <1>6, SettledLeavesHand

LEMMA FiringStep ==
  ASSUME Inv, OutcomeInv, TicksNeverOverlap, FiringInv, [Next]_vars
  PROVE  FiringInv'
<1>1. CASE Lifecycle
  BY <1>1, QuietFiring, StartFiring, EndFiring, OnTimerFiring, RecoverOneFiring DEF Lifecycle
<1>2. ASSUME NEW due \in Time, RecheckMovedLater(due) PROVE FiringInv'
  BY <1>2, RescheduleRecords, CompletionFiring DEF RecheckMovedLater, Sending
<1>3. CASE Complete
  BY <1>3, DeliveryRecords, CompletionFiring DEF Complete, Sending
<1>4. CASE Dispatch
  BY <1>2, <1>3, <1>4, SkipFiring, StartOneFiring, DeliveryFiring DEF Dispatch
<1> QED
  BY <1>1, <1>4, QuietFiring DEF Next

\* Between the ticks of a running driver, and once recovery is done, every reminder that a crash, a
\* stop or an earlier tick left FIRING is settled, unless the store threw.
THEOREM NoStuckFiringHolds == Spec => []NoStuckFiring
<1>1. Init => FiringInv
  BY DEF Init, FiringInv, IdleTick
<1>2. Inv /\ FiringInv => NoStuckFiring
  BY IdleHand DEF FiringInv, NoStuckFiring
<1> QED
  BY InvHolds, OutcomeInvHolds, TicksNeverOverlapHolds, <1>1, <1>2, FiringStep, PTL DEF Spec

----------------------------------------------------------------------------
(* What the owner sees: ReminderSystem implements OccurrenceDelivery *)

LEMMA LifePhase ==
  ASSUME NEW row
  PROVE  LifeOf(row) \in {"none", "active", "canceled", "ended"}
BY DEF LifeOf

LEMMA ActiveLife ==
  ASSUME NEW row, row.status \in ActiveStatus
  PROVE  LifeOf(row) = "active"
BY DEF LifeOf, ActiveStatus

LifeMoves(r) ==
  \/ LifeOf(rows'[r]) = LifeOf(rows[r])
  \/ LifeOf(rows[r]) = "none" /\ LifeOf(rows'[r]) = "active"
  \/ LifeOf(rows[r]) = "active" /\ LifeOf(rows'[r]) \in {"canceled", "ended"}
  \/ LifeOf(rows[r]) = "canceled" /\ LifeOf(rows'[r]) = "active"

\* The undo finds the row under the version of its cancel, so nothing has ended it since.
LEMMA RevivedWasCanceled ==
  ASSUME Inv, OutcomeInv, NEW r \in Ids, Revives(r)
  PROVE  LifeOf(rows[r]) = "canceled" /\ LifeOf(rows'[r]) = "active"
<1>1. PICK t \in Turns :
        /\ undos[t] # NoUndo /\ undos[t].id = r
        /\ rows[r].status = "CANCELED" /\ rows[r].ver = undos[t].ver
  BY DEF Revives
<1>2. Since(r, rows[r].ver)
  BY <1>1 DEF OutcomeInv, PendingOK
<1>3. rows[r].ver \in Int
  BY InvTypes, RowFields
<1>4. rows[r].recurring \/ rows[r].last.outcome = "NONE"
  BY <1>2, <1>3 DEF Since, Ended
<1>5. LifeOf(rows[r]) = "canceled"
  BY <1>1, <1>4 DEF LifeOf, ActiveStatus
<1>6. rows'[r].status = "SCHEDULED"
  BY RevivedRow
<1> QED
  BY <1>5, <1>6, ActiveLife, Statuses

LEMMA LifeStep ==
  ASSUME Inv, OutcomeInv, [Next]_vars, NEW r \in Ids
  PROVE  LifeMoves(r)
<1>1. CASE rows'[r] = rows[r]
  BY <1>1 DEF LifeMoves
<1>2. CASE Creates(r)
  <2>1. LifeOf(rows[r]) = "none" /\ LifeOf(rows'[r]) = "active"
    BY <1>2, ActiveLife, Statuses DEF Creates, LifeOf
  <2> QED
    BY <2>1 DEF LifeMoves
<1>3. CASE Cancels(r)
  <2>1. ~Ended(rows[r])
    BY <1>3, Statuses DEF Cancels, OutcomeInv, OutcomeOK
  <2>2. rows'[r].recurring \/ rows'[r].last.outcome = "NONE"
    BY <1>3, <2>1 DEF Cancels, Ended
  <2>3. LifeOf(rows'[r]) = "canceled"
    BY <1>3, <2>2 DEF Cancels, LifeOf, ActiveStatus
  <2>4. LifeOf(rows[r]) = "active"
    BY <1>3, ActiveLife, Statuses DEF Cancels
  <2> QED
    BY <2>3, <2>4 DEF LifeMoves
<1>4. CASE Revives(r)
  BY <1>4, RevivedWasCanceled DEF LifeMoves
<1>5. CASE Claims(r)
  <2>1. LifeOf(rows[r]) = "active" /\ LifeOf(rows'[r]) = "active"
    BY <1>5, ActiveLife, Statuses DEF Claims
  <2> QED
    BY <2>1 DEF LifeMoves
<1>6. CASE Settles(r)
  <2>1. LifeOf(rows[r]) = "active"
    BY <1>6, ActiveLife, Statuses DEF Settles
  <2>2. rows'[r].status \in {"SCHEDULED"} \cup FinalStatus
    BY <1>6 DEF Settles, Records
  <2>3. LifeOf(rows'[r]) # "none"
    BY <2>2 DEF LifeOf, FinalStatus, ActiveStatus
  <2> QED
    BY <2>1, <2>3, LifePhase DEF LifeMoves
<1>7. RowMove(r)
  BY RowStep
<1> QED
  BY <1>1, <1>2, <1>3, <1>4, <1>5, <1>6, <1>7 DEF RowMove

\* Only AdvanceClock moves the clock, only Deliver sends, and neither touches a row.
LEMMA OneThingAtATime ==
  ASSUME Inv, [Next]_vars
  PROVE  \/ clock' = clock + 1 /\ rows' = rows /\ sent' = sent
         \/ /\ clock' = clock /\ rows' = rows
            /\ \E result \in DeliveryResult : Deliver(result)
         \/ clock' = clock /\ sent' = sent
<1>1. CASE AdvanceClock
  BY <1>1 DEF AdvanceClock, storeVars
<1>2. CASE Owner
  BY <1>2 DEF Owner, Create, Cancel, UndoRead, Reactivate, UndoRefused, storeVars
<1>3. CASE Lifecycle
  BY <1>3 DEF Lifecycle, Boot, Start, StartDisabled, EndRecovery, EndTick, RecoverOne, OnTimer,
              Stop, StopTimeout, Exit, Crash, GoDown, storeVars
<1>4. CASE \E result \in DeliveryResult : Deliver(result)
  BY <1>4 DEF Deliver
<1>5. CASE Dispatch /\ ~(\E result \in DeliveryResult : Deliver(result))
  BY <1>5 DEF Dispatch, SkipMissed, StartOne, RecheckDelivers, RecheckMovedLater, Complete, storeVars
<1>6. CASE UNCHANGED vars
  BY <1>6 DEF vars
<1> QED
  BY <1>1, <1>2, <1>3, <1>4, <1>5, <1>6 DEF Next

\* A send is for a claimed row, at or after its occurrence and above everything sent before.
LEMMA SendsOnlyActive ==
  ASSUME Inv, NEW result \in DeliveryResult, Deliver(result), sent' # sent
  PROVE  /\ tick.cur \in Ids /\ tick.occ \in 0..clock
         /\ LifeOf(rows[tick.cur]) = "active" /\ SentBelow(tick.cur, tick.occ)
         /\ sent' = [sent EXCEPT ![tick.cur] = Append(@, tick.occ)]
<1>1. CurOK /\ SentBelow(tick.cur, tick.occ) /\ sent' = [sent EXCEPT ![tick.cur] = Append(@, tick.occ)]
  BY DeliverFacts
<1>2. tick.cur \in Ids /\ tick.occ \in Nat /\ tick.occ <= tick.now /\ rows[tick.cur].status = "FIRING"
  BY <1>1 DEF CurOK, Held
<1>3. tick.now \in Nat /\ clock \in Nat /\ tick.now <= clock
  BY InvTypes, TimeAssumption DEF Inv, TickInv, TypeOK, Time
<1> QED
  BY <1>1, <1>2, <1>3, ActiveLife, Statuses

LEMMA DeliveryStep ==
  ASSUME Inv, OutcomeInv, [Next]_vars
  PROVE  [Delivery!Next]_<<Life, sent, clock>>
<1>1. CASE clock' = clock + 1 /\ rows' = rows /\ sent' = sent
  <2>1. Life' = Life
    BY <1>1 DEF Life
  <2> QED
    BY <1>1, <2>1 DEF Delivery!Next, Delivery!Pass
<1>2. ASSUME NEW result \in DeliveryResult, Deliver(result), clock' = clock, rows' = rows, sent' # sent
      PROVE  Delivery!Next
  <2>1. /\ tick.cur \in Ids /\ tick.occ \in 0..clock
        /\ LifeOf(rows[tick.cur]) = "active" /\ SentBelow(tick.cur, tick.occ)
        /\ sent' = [sent EXCEPT ![tick.cur] = Append(@, tick.occ)]
    BY <1>2, SendsOnlyActive
  <2>2. clock \in Nat
    BY TimeAssumption DEF Inv, TypeOK, Time
  <2>3. Life' = Life /\ Life[tick.cur] = "active" /\ tick.occ <= clock
    BY <1>2, <2>1, <2>2 DEF Life
  <2>4. Delivery!Transmit(tick.cur, tick.occ)
    BY <1>2, <2>1, <2>3 DEF Delivery!Transmit, Delivery!Fresh, SentBelow
  <2> QED
    BY <2>1, <2>4 DEF Delivery!Next
<1>3. CASE clock' = clock /\ sent' = sent
  <2>1. \A r \in Ids : Life[r] = LifeOf(rows[r]) /\ Life'[r] = LifeOf(rows'[r])
    BY DEF Life
  <2>2. Life' \in [Ids -> Delivery!Phase]
    BY LifePhase DEF Life, Delivery!Phase
  <2>3. ASSUME NEW r \in Ids PROVE Life'[r] = Life[r] \/ <<Life[r], Life'[r]>> \in Delivery!Legal
    BY <2>1, <2>3, LifeStep DEF LifeMoves, Delivery!Legal
  <2> QED
    BY <1>3, <2>2, <2>3 DEF Delivery!Next, Delivery!Change
<1>4. CASE clock' = clock /\ rows' = rows /\ sent' = sent
  BY <1>3, <1>4
<1> QED
  BY <1>1, <1>2, <1>3, <1>4, OneThingAtATime

\* ReminderSystem implements OccurrenceDelivery: a reminder lives as the owner was told, and the
\* single send of a claim is for a reminder that is active, whose occurrence has come and was not
\* transmitted before.
THEOREM DeliveryRefined == Spec => DeliverySpec
<1>1. ASSUME Init PROVE Delivery!Init
  <2>0. NoReminder.status = "NONE"
    BY DEF NoReminder
  <2>1. LifeOf(NoReminder) = "none"
    BY <2>0, Statuses DEF LifeOf
  <2>2. \A r \in Ids : rows[r] = NoReminder
    BY <1>1 DEF Init
  <2>3. Life = [r \in Ids |-> "none"]
    BY <2>1, <2>2 DEF Life
  <2> QED
    BY <1>1, <2>3 DEF Init, Delivery!Init
<1> QED
  BY InvHolds, OutcomeInvHolds, <1>1, DeliveryStep, PTL DEF Spec, DeliverySpec, Delivery!Spec

=============================================================================
