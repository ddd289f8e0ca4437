--------------------------- MODULE ConnectorWrite ---------------------------
(***************************************************************************)
(* A connector write (packages/core/src/application/connector-writes): an  *)
(* owner's request to change something outside (a comment, a post, a       *)
(* calendar event) is shown, approved, claimed and sent at most once.      *)
(*                                                                         *)
(* Chat turns and requests of the operations UI run concurrently on one    *)
(* session.  One action is what a turn does from one await to the next;    *)
(* where the rows read and written are guarded by a lock the turn holds,   *)
(* the read and the write are one action.  The approval lock and the       *)
(* session write lock are the mutexes of KeyedMutex, modelled by their     *)
(* holders.  A write w stands for its approval, its anchor task and its    *)
(* receipt (idempotency key `cwr:<approval id>').  The service that is     *)
(* written to, and the owner, are external.                                *)
(***************************************************************************)
EXTENDS Integers

CONSTANTS
  Writes,
  Turns,       \* activities that may be in flight at once
  None,
  Home,        \* what the session pointed at before: another flow's task, or None
  TTL,         \* PENDING_APPROVAL_TTL_MS
  MaxClock, MaxTurns, MaxFaults   \* bounds

ASSUME ConnectorAssumption ==
  /\ None \notin Writes \cup Turns /\ Home \notin Writes
  /\ TTL \in Nat \ {0}
  /\ MaxClock \in Nat /\ MaxTurns \in Nat /\ MaxFaults \in Nat

VARIABLES
  clock,
  approval, requestedAt,       \* the approval rows
  anchor,                      \* the anchor in the task row's metadata
  pointer,                     \* Session.activeTaskId
  receipt,                     \* the receipt rows
  reconciled,                  \* ConnectorWriteFlow.reconciled
  approvalLock, sessionLock,   \* who holds them
  turn,                        \* what each turn is doing
  sent,                        \* history: how often the write reached the service
  turns, crashes, errors       \* how many there have been

rows == <<approval, requestedAt, anchor, pointer, receipt>>
locks == <<approvalLock, sessionLock>>
counts == <<turns, crashes, errors>>
vars == <<clock, rows, reconciled, locks, turn, sent, counts>>

Outcomes == {"SENT", "NOT_SENT", "UNCERTAIN"}

AnchorStatus ==
  {"none", "APPROVAL_PENDING", "APPROVED", "EXECUTING", "CLOSED"} \cup Outcomes

Anchor == [status : AnchorStatus, approvedAt : Nat, prev : Writes \cup {Home, None}]

NoAnchor == [status |-> "none", approvedAt |-> 0, prev |-> None]

\* Nothing in flight.  ptr is the pointer in the turn's copy of the session, w the write it is
\* about, view its copy of an anchor, now its clock reading, next where a close goes on, new the
\* id its request will have.
NoTurn ==
  [pc |-> "idle", op |-> "none", ptr |-> None, w |-> None, view |-> NoAnchor, now |-> 0,
   next |-> "idle", new |-> None, outcome |-> "none"]

Init ==
  /\ clock = 0
  /\ approval = [w \in Writes |-> "none"]
  /\ requestedAt = [w \in Writes |-> 0]
  /\ anchor = [w \in Writes |-> NoAnchor]
  /\ pointer = Home
  /\ receipt = [w \in Writes |-> "none"]
  /\ reconciled = FALSE
  /\ approvalLock = [w \in Writes |-> None]
  /\ sessionLock = None
  /\ turn = [t \in Turns |-> NoTurn]
  /\ sent = [w \in Writes |-> 0]
  /\ turns = 0 /\ crashes = 0 /\ errors = 0

----------------------------------------------------------------------------

\* openAnchorOf.
OpenAnchor(p) == p \in Writes /\ anchor[p].status \notin {"none", "CLOSED"}

\* isConnectorWriteAnchorLapsed.
Lapsed(a, now) == a.status = "APPROVED" /\ now - a.approvedAt >= TTL

\* remainingMs(approval) <= 0.
Expired(w) == clock - requestedAt[w] >= TTL

At(t, pc) == turn[t].pc = pc

\* Whether turn t may do a step under the session lock: it holds it, or it is free.
MayEnterSession(t) == sessionLock \in {None, t}

Unlock(t) ==
  /\ approvalLock' = [w \in Writes |-> IF approvalLock[w] = t THEN None ELSE approvalLock[w]]
  /\ sessionLock' = IF sessionLock = t THEN None ELSE sessionLock

\* The turn is over; leaving its sections released what it held.
End(t) == turn' = [turn EXCEPT ![t] = NoTurn] /\ Unlock(t)

Become(t, r) == turn' = [turn EXCEPT ![t] = r] /\ UNCHANGED locks

GoOn(t, pc) == Become(t, [turn[t] EXCEPT !.pc = pc])

\* close(): save the turn's copy of the anchor as CLOSED, then hand the pointer back.
Closing(t, w, view, next) ==
  [turn[t] EXCEPT !.pc = "close", !.w = w, !.view = view, !.next = next]

----------------------------------------------------------------------------
(* The start of a chat turn. *)

\* The touch returns the live session.
Receive(t) ==
  /\ At(t, "idle") /\ turns < MaxTurns /\ sessionLock = None
  /\ turns' = turns + 1
  /\ Become(t, [NoTurn EXCEPT !.pc = "lapse", !.ptr = pointer])
  /\ UNCHANGED <<clock, rows, reconciled, sent, crashes, errors>>

\* releaseExpired: a lapsed grant is closed; the turn goes on with the pointer handed back.
ReleaseExpired(t) ==
  /\ At(t, "lapse")
  /\ LET p == turn[t].ptr IN
       IF OpenAnchor(p) /\ Lapsed(anchor[p], clock)
       THEN Become(t, [Closing(t, p, anchor[p], "find") EXCEPT !.ptr = anchor[p].prev])
       ELSE GoOn(t, "find")
  /\ UNCHANGED <<clock, rows, reconciled, sent, counts>>

\* find: the anchor the turn's pointer names.
Find(t) ==
  /\ At(t, "find")
  /\ LET p == turn[t].ptr IN
       IF OpenAnchor(p)
       THEN Become(t, [turn[t] EXCEPT !.w = p, !.view = anchor[p],
                         !.pc = IF anchor[p].status = "APPROVAL_PENDING" THEN "findApproval" ELSE "route"])
       ELSE Become(t, [turn[t] EXCEPT !.w = None, !.view = NoAnchor, !.pc = "route"])
  /\ UNCHANGED <<clock, rows, reconciled, sent, counts>>

\* find, its approval: one that was decided meanwhile closes the anchor; one that expired is
\* recorded denied (once: a turn that lost to another decision goes on with what it finds).
FindApproval(t) ==
  /\ At(t, "findApproval")
  /\ LET w == turn[t].w IN
       IF approval[w] # "PENDING" THEN Become(t, Closing(t, w, turn[t].view, "route"))
       ELSE IF Expired(w) /\ turn[t].op # "expire"
       THEN Become(t, [turn[t] EXCEPT !.op = "expire", !.pc = "lockApproval"])
       ELSE GoOn(t, "route")
  /\ UNCHANGED <<clock, rows, reconciled, sent, counts>>

\* Bound: a new request takes one of the ids that are left.
Unused(w) == approval[w] = "none" /\ \A t \in Turns : turn[t].new # w

\* handleConnectorWriteAnchorTurn: what the owner's message asks of the anchor found.  A pending
\* approval takes every message; otherwise a message may be a new request.
Route(t) ==
  /\ At(t, "route")
  /\ \/ /\ turn[t].view.status = "APPROVAL_PENDING"
        /\ \E op \in {"approve", "deny"} :
             Become(t, [turn[t] EXCEPT !.op = op, !.pc = "lockApproval"])
     \/ /\ turn[t].view.status = "APPROVED"
        /\ \E op \in {"execute", "revoke"} :
             Become(t, [turn[t] EXCEPT !.op = op, !.now = clock, !.pc = "lockApproval"])
     \/ /\ turn[t].view.status # "APPROVAL_PENDING"
        /\ \E w \in Writes : Unused(w) /\ Become(t, [turn[t] EXCEPT !.new = w, !.pc = "displace"])
     \/ End(t)
  /\ UNCHANGED <<clock, rows, reconciled, sent, counts>>

\* decideFromOpsUi.
ReceiveUi(t) ==
  /\ At(t, "idle") /\ turns < MaxTurns
  /\ turns' = turns + 1
  /\ \E w \in Writes, op \in {"uiApprove", "uiDeny"} :
       /\ approval[w] # "none"
       /\ Become(t, [NoTurn EXCEPT !.pc = "lockApproval", !.op = op, !.w = w])
  /\ UNCHANGED <<clock, rows, reconciled, sent, crashes, errors>>

----------------------------------------------------------------------------
(* exclusive: the approval lock, then the session lock. *)

LockApproval(t) ==
  /\ At(t, "lockApproval") /\ approvalLock[turn[t].w] = None
  /\ approvalLock' = [approvalLock EXCEPT ![turn[t].w] = t]
  /\ turn' = [turn EXCEPT ![t].pc = IF turn[t].op \in {"uiApprove", "uiDeny"} THEN "peek" ELSE "lockSession"]
  /\ UNCHANGED <<clock, rows, reconciled, sessionLock, sent, counts>>

\* The UI looks for the holder before it takes its session lock.
Peek(t) ==
  /\ At(t, "peek")
  /\ LET w == turn[t].w IN
       IF approval[w] = "PENDING" /\ pointer = w /\ anchor[w].status = "APPROVAL_PENDING"
       THEN GoOn(t, "lockSession")
       ELSE End(t)
  /\ UNCHANGED <<clock, rows, reconciled, sent, counts>>

LockSession(t) ==
  /\ At(t, "lockSession") /\ sessionLock = None
  /\ sessionLock' = t
  /\ turn' = [turn EXCEPT ![t].pc = turn[t].op]
  /\ UNCHANGED <<clock, rows, reconciled, approvalLock, sent, counts>>

\* locateForDecision: both are read again; an anchor whose approval was decided is closed.
LocateUi(t) ==
  /\ At(t, "uiApprove") \/ At(t, "uiDeny")
  /\ LET w == turn[t].w
         op == IF At(t, "uiApprove") THEN "approve" ELSE "deny"
     IN  IF ~OpenAnchor(pointer) \/ anchor[pointer].status # "APPROVAL_PENDING" THEN End(t)
         ELSE IF approval[pointer] # "PENDING" THEN Become(t, Closing(t, pointer, anchor[pointer], "idle"))
         ELSE IF pointer # w THEN End(t)
         ELSE Become(t, [turn[t] EXCEPT !.view = anchor[w], !.op = op, !.pc = op])
  /\ UNCHANGED <<clock, rows, reconciled, sent, counts>>

----------------------------------------------------------------------------
(* The decisions, inside the section. *)

\* expire: whoever decided first wins, and the turn looks again.
Expire(t) ==
  /\ At(t, "expire")
  /\ LET w == turn[t].w IN
       IF approval[w] = "PENDING"
       THEN /\ approval' = [approval EXCEPT ![w] = "REJECTED"]
            /\ Become(t, Closing(t, w, turn[t].view, "idle"))
       ELSE /\ turn' = [turn EXCEPT ![t].pc = "reopen"]
            /\ Unlock(t)
            /\ UNCHANGED approval
  /\ UNCHANGED <<clock, requestedAt, anchor, pointer, receipt, reconciled, sent, counts>>

Reopen(t) ==
  /\ At(t, "reopen")
  /\ Become(t, [turn[t] EXCEPT !.pc = "find", !.ptr = pointer])
  /\ UNCHANGED <<clock, rows, reconciled, sent, counts>>

\* decideConnectorWriteUnlocked: only a PENDING approval is decided, and an expired one is denied.
Decide(t) ==
  /\ At(t, "approve") \/ At(t, "deny")
  /\ LET w == turn[t].w
         approved == At(t, "approve") /\ ~Expired(w)
     IN  IF approval[w] # "PENDING" THEN End(t) /\ UNCHANGED approval
         ELSE /\ approval' = [approval EXCEPT ![w] = IF approved THEN "APPROVED" ELSE "REJECTED"]
              /\ IF approved THEN GoOn(t, "record") ELSE Become(t, Closing(t, w, turn[t].view, "idle"))
  /\ UNCHANGED <<clock, requestedAt, anchor, pointer, receipt, reconciled, sent, counts>>

\* recordApproval.
RecordApproval(t) ==
  /\ At(t, "record")
  /\ anchor' = [anchor EXCEPT ![turn[t].w] =
                  [turn[t].view EXCEPT !.status = "APPROVED", !.approvedAt = clock]]
  /\ End(t)
  /\ UNCHANGED <<clock, approval, requestedAt, pointer, receipt, reconciled, sent, counts>>

\* A plausible bug: the turn's own copy of the anchor decides instead of the live one.
RevokeFromCopy(t) ==
  /\ At(t, "revoke")
  /\ LET w == turn[t].w IN
       /\ approval' = [approval EXCEPT ![w] = IF @ = "APPROVED" THEN "REJECTED" ELSE @]
       /\ Become(t, Closing(t, w, turn[t].view, "idle"))
  /\ UNCHANGED <<clock, requestedAt, anchor, pointer, receipt, reconciled, sent, counts>>

\* revokeConnectorWrite: only a grant that is still APPROVED is withdrawn.
Revoke(t) ==
  /\ At(t, "revoke")
  /\ LET w == turn[t].w IN
       IF anchor[w].status # "APPROVED" THEN End(t) /\ UNCHANGED approval
       ELSE /\ approval' = [approval EXCEPT ![w] = IF @ = "APPROVED" THEN "REJECTED" ELSE @]
            /\ Become(t, Closing(t, w, anchor[w], "idle"))
  /\ UNCHANGED <<clock, requestedAt, anchor, pointer, receipt, reconciled, sent, counts>>

\* claimGrant, up to the consume: the live anchor and approval prove the grant, and the target
\* must still be allowed.
Claim(t) ==
  /\ At(t, "execute")
  /\ LET w == turn[t].w IN
       \/ /\ anchor[w].status # "APPROVED"
          /\ End(t)
       \/ /\ anchor[w].status = "APPROVED"
          /\ Become(t, Closing(t, w, anchor[w], "idle"))
       \/ /\ anchor[w].status = "APPROVED" /\ ~Lapsed(anchor[w], turn[t].now)
          /\ approval[w] = "APPROVED"
          /\ Become(t, [turn[t] EXCEPT !.view = anchor[w], !.pc = "consume"])
  /\ UNCHANGED <<clock, rows, reconciled, sent, counts>>

\* The grant is consumed, and the section left, before anything is sent.
Consume(t) ==
  /\ At(t, "consume")
  /\ LET consumed == [turn[t].view EXCEPT !.status = "EXECUTING"] IN
       /\ anchor' = [anchor EXCEPT ![turn[t].w] = consumed]
       /\ turn' = [turn EXCEPT ![t].view = consumed, ![t].pc = "reconcile"]
  /\ Unlock(t)
  /\ UNCHANGED <<clock, approval, requestedAt, pointer, receipt, reconciled, sent, counts>>

----------------------------------------------------------------------------
(* close, saveAnchor. *)

\* A plausible bug: a close that leaves the pointer.
CloseKeepingPointer(t) ==
  /\ At(t, "close")
  /\ anchor' = [anchor EXCEPT ![turn[t].w] = [turn[t].view EXCEPT !.status = "CLOSED"]]
  /\ IF turn[t].next = "idle" THEN End(t)
     ELSE Become(t, [turn[t] EXCEPT !.pc = turn[t].next, !.w = None, !.view = NoAnchor])
  /\ UNCHANGED <<clock, approval, requestedAt, pointer, receipt, reconciled, sent, counts>>

CloseSave(t) ==
  /\ At(t, "close")
  /\ anchor' = [anchor EXCEPT ![turn[t].w] = [turn[t].view EXCEPT !.status = "CLOSED"]]
  /\ GoOn(t, "restore")
  /\ UNCHANGED <<clock, approval, requestedAt, pointer, receipt, reconciled, sent, counts>>

\* A plausible bug: the hold is not passed on, so the call queues behind its own section.
RestoreWithoutHold(t) ==
  /\ At(t, "restore") /\ sessionLock = None
  /\ pointer' = IF pointer = turn[t].w THEN turn[t].view.prev ELSE pointer
  /\ IF turn[t].next = "idle" THEN End(t)
     ELSE Become(t, [turn[t] EXCEPT !.pc = turn[t].next, !.w = None, !.view = NoAnchor])
  /\ UNCHANGED <<clock, approval, requestedAt, anchor, receipt, reconciled, sent, counts>>

\* Compare and set, under the session lock.
RestorePointer(t) ==
  /\ At(t, "restore") /\ MayEnterSession(t)
  /\ pointer' = IF pointer = turn[t].w THEN turn[t].view.prev ELSE pointer
  /\ IF turn[t].next = "idle" THEN End(t)
     ELSE Become(t, [turn[t] EXCEPT !.pc = turn[t].next, !.w = None, !.view = NoAnchor])
  /\ UNCHANGED <<clock, approval, requestedAt, anchor, receipt, reconciled, sent, counts>>

----------------------------------------------------------------------------
(* execute, after the claim. *)

\* reconcileOnce: receipts that an earlier process left PREPARED become UNCERTAIN.
Reconcile(t) ==
  /\ At(t, "reconcile")
  /\ reconciled' = TRUE
  /\ receipt' = [w \in Writes |->
                   IF ~reconciled /\ receipt[w] = "PREPARED" THEN "UNCERTAIN" ELSE receipt[w]]
  /\ GoOn(t, "prepare")
  /\ UNCHANGED <<clock, approval, requestedAt, anchor, pointer, sent, counts>>

\* It failed: the write runs all the same, and the next one tries again.
ReconcileFails(t) ==
  /\ At(t, "reconcile") /\ ~reconciled /\ crashes + errors < MaxFaults
  /\ errors' = errors + 1
  /\ GoOn(t, "prepare")
  /\ UNCHANGED <<clock, rows, reconciled, sent, turns, crashes>>

\* executeOnce: the PREPARED receipt; with one already there, nothing is sent.
Prepare(t) ==
  /\ At(t, "prepare")
  /\ LET w == turn[t].w IN
       IF receipt[w] = "none"
       THEN /\ receipt' = [receipt EXCEPT ![w] = "PREPARED"]
            /\ GoOn(t, "send")
       ELSE /\ UNCHANGED receipt
            /\ Become(t, [turn[t] EXCEPT !.pc = "finish",
                            !.outcome = IF receipt[w] = "PREPARED" THEN "UNCERTAIN" ELSE receipt[w]])
  /\ UNCHANGED <<clock, approval, requestedAt, anchor, pointer, reconciled, sent, counts>>

\* The receipt could not be written, or the surface check before it refused: nothing was sent.
PrepareFails(t) ==
  /\ At(t, "prepare") /\ crashes + errors < MaxFaults
  /\ errors' = errors + 1
  /\ Become(t, [turn[t] EXCEPT !.pc = "finish", !.outcome = "NOT_SENT"])
  /\ UNCHANGED <<clock, rows, reconciled, sent, turns, crashes>>

\* A plausible bug: a call without an answer is made again.
SendWithRetry(t) ==
  /\ At(t, "send")
  /\ \E o \in Outcomes, reached \in {0, 1} :
       /\ o = "SENT" => reached = 1
       /\ o = "NOT_SENT" => reached = 0
       /\ sent' = [sent EXCEPT ![turn[t].w] = @ + reached]
       /\ Become(t, [turn[t] EXCEPT !.pc = IF o = "UNCERTAIN" THEN "send" ELSE "complete", !.outcome = o])
  /\ UNCHANGED <<clock, rows, reconciled, counts>>

\* The writer is called (the last surface check may still refuse: NOT_SENT).  A call that throws
\* or answers badly is UNCERTAIN: it may have reached the service.
Send(t) ==
  /\ At(t, "send")
  /\ \E o \in Outcomes, reached \in {0, 1} :
       /\ o = "SENT" => reached = 1
       /\ o = "NOT_SENT" => reached = 0
       /\ sent' = [sent EXCEPT ![turn[t].w] = @ + reached]
       /\ Become(t, [turn[t] EXCEPT !.pc = "complete", !.outcome = o])
  /\ UNCHANGED <<clock, rows, reconciled, counts>>

\* complete: only a PREPARED receipt changes.
Complete(t) ==
  /\ At(t, "complete")
  /\ receipt' = [receipt EXCEPT ![turn[t].w] = IF @ = "PREPARED" THEN turn[t].outcome ELSE @]
  /\ GoOn(t, "finish")
  /\ UNCHANGED <<clock, approval, requestedAt, anchor, pointer, reconciled, sent, counts>>

\* A plausible bug: a failure to record is reported like a failure to send.
CompleteFailsUnsent(t) ==
  /\ At(t, "complete") /\ crashes + errors < MaxFaults
  /\ errors' = errors + 1
  /\ Become(t, [turn[t] EXCEPT !.pc = "finish", !.outcome = "NOT_SENT"])
  /\ UNCHANGED <<clock, rows, reconciled, sent, turns, crashes>>

\* The outcome could not be recorded: uncertain once the writer was called, not sent when the last
\* surface check had refused the call.
CompleteFails(t) ==
  /\ At(t, "complete") /\ crashes + errors < MaxFaults
  /\ errors' = errors + 1
  /\ \E o \in {"UNCERTAIN", "NOT_SENT"} :
       /\ o = "NOT_SENT" => turn[t].outcome = "NOT_SENT"
       /\ Become(t, [turn[t] EXCEPT !.pc = "finish", !.outcome = o])
  /\ UNCHANGED <<clock, rows, reconciled, sent, turns, crashes>>

\* The terminal anchor.
Finish(t) ==
  /\ At(t, "finish")
  /\ anchor' = [anchor EXCEPT ![turn[t].w] = [turn[t].view EXCEPT !.status = turn[t].outcome]]
  /\ GoOn(t, "return")
  /\ UNCHANGED <<clock, approval, requestedAt, pointer, receipt, reconciled, sent, counts>>

\* With nothing displaced the pointer stays, so that a repeated phrase is answered from it.
ReturnPointer(t) ==
  /\ At(t, "return") /\ MayEnterSession(t)
  /\ pointer' = IF pointer = turn[t].w /\ turn[t].view.prev # None THEN turn[t].view.prev ELSE pointer
  /\ End(t)
  /\ UNCHANGED <<clock, approval, requestedAt, anchor, receipt, reconciled, sent, counts>>

----------------------------------------------------------------------------
(* propose. *)

\* displacedPointer: the live pointer.
DisplacedPointer(t) ==
  /\ At(t, "displace")
  /\ Become(t, [turn[t] EXCEPT !.pc = "displaced", !.ptr = pointer])
  /\ UNCHANGED <<clock, rows, reconciled, sent, counts>>

\* A plausible bug: the new anchor displaces the anchor it finds.
DisplacedItself(t) ==
  /\ At(t, "displaced")
  /\ LET p == turn[t].ptr IN
       IF p \in Writes /\ anchor[p].status = "APPROVED"
       THEN Become(t, [turn[t] EXCEPT !.pc = "supersede", !.w = p, !.view = anchor[p]])
       ELSE Become(t, [turn[t] EXCEPT !.pc = "request", !.view = [NoAnchor EXCEPT !.prev = p]])
  /\ UNCHANGED <<clock, rows, reconciled, sent, counts>>

\* displacedPointer: what the new anchor will hand the pointer back to (view.prev): the pointer,
\* or what one of our own anchors displaced.  An approved grant is closed on the way.
Displaced(t) ==
  /\ At(t, "displaced")
  /\ LET p == turn[t].ptr IN
       IF p \notin Writes
       THEN Become(t, [turn[t] EXCEPT !.pc = "request", !.view = [NoAnchor EXCEPT !.prev = p]])
       ELSE Become(t, [turn[t] EXCEPT !.w = p, !.view = anchor[p],
                         !.pc = IF anchor[p].status = "APPROVED" THEN "supersede" ELSE "request"])
  /\ UNCHANGED <<clock, rows, reconciled, sent, counts>>

Supersede(t) ==
  /\ At(t, "supersede")
  /\ anchor' = [anchor EXCEPT ![turn[t].w] = [turn[t].view EXCEPT !.status = "CLOSED"]]
  /\ GoOn(t, "request")
  /\ UNCHANGED <<clock, approval, requestedAt, pointer, receipt, reconciled, sent, counts>>

\* requestForRisk: a fresh PENDING approval.
RequestForRisk(t) ==
  /\ At(t, "request")
  /\ approval' = [approval EXCEPT ![turn[t].new] = "PENDING"]
  /\ requestedAt' = [requestedAt EXCEPT ![turn[t].new] = clock]
  /\ Become(t, [turn[t] EXCEPT !.pc = "saveTask", !.w = turn[t].new])
  /\ UNCHANGED <<clock, anchor, pointer, receipt, reconciled, sent, counts>>

\* createAnchor: the task, then the pointer.
SaveTask(t) ==
  /\ At(t, "saveTask")
  /\ anchor' = [anchor EXCEPT ![turn[t].w] =
                  [status |-> "APPROVAL_PENDING", approvedAt |-> 0, prev |-> turn[t].view.prev]]
  /\ GoOn(t, "point")
  /\ UNCHANGED <<clock, approval, requestedAt, pointer, receipt, reconciled, sent, counts>>

PointAtAnchor(t) ==
  /\ At(t, "point") /\ MayEnterSession(t)
  /\ pointer' = turn[t].w
  /\ End(t)
  /\ UNCHANGED <<clock, approval, requestedAt, anchor, receipt, reconciled, sent, counts>>

\* createAnchor threw: the approval is rejected.
CreateAnchorFails(t) ==
  /\ At(t, "saveTask") \/ At(t, "point")
  /\ crashes + errors < MaxFaults
  /\ errors' = errors + 1
  /\ GoOn(t, "withdraw")
  /\ UNCHANGED <<clock, rows, reconciled, sent, turns, crashes>>

Withdraw(t) ==
  /\ At(t, "withdraw")
  /\ approval' = [approval EXCEPT ![turn[t].w] = IF @ = "PENDING" THEN "REJECTED" ELSE @]
  /\ End(t)
  /\ UNCHANGED <<clock, requestedAt, anchor, pointer, receipt, reconciled, sent, counts>>

----------------------------------------------------------------------------

\* Any other storage call that throws ends the turn (ConversationRuntime.handle).
Throws(t) ==
  /\ turn[t].pc \notin {"idle", "lockApproval", "lockSession", "reconcile", "prepare", "send",
                        "complete", "saveTask", "point"}
  /\ crashes + errors < MaxFaults
  /\ errors' = errors + 1
  /\ End(t)
  /\ UNCHANGED <<clock, rows, reconciled, sent, turns, crashes>>

\* The process dies and is started again: the rows stay.
Crash ==
  /\ crashes + errors < MaxFaults
  /\ crashes' = crashes + 1
  /\ turn' = [t \in Turns |-> NoTurn]
  /\ approvalLock' = [w \in Writes |-> None]
  /\ sessionLock' = None
  /\ reconciled' = FALSE
  /\ UNCHANGED <<clock, rows, sent, turns, errors>>

Tick ==
  /\ clock < MaxClock
  /\ clock' = clock + 1
  /\ UNCHANGED <<rows, reconciled, locks, turn, sent, counts>>

Step(t) ==
  \/ ReleaseExpired(t) \/ Find(t) \/ FindApproval(t) \/ Route(t)
  \/ LockApproval(t) \/ Peek(t) \/ LockSession(t) \/ LocateUi(t)
  \/ Expire(t) \/ Reopen(t) \/ Decide(t) \/ RecordApproval(t) \/ Revoke(t)
  \/ Claim(t) \/ Consume(t) \/ CloseSave(t) \/ RestorePointer(t)
  \/ Reconcile(t) \/ Prepare(t) \/ Send(t) \/ Complete(t) \/ Finish(t) \/ ReturnPointer(t)
  \/ DisplacedPointer(t) \/ Displaced(t) \/ Supersede(t) \/ RequestForRisk(t)
  \/ SaveTask(t) \/ PointAtAnchor(t) \/ Withdraw(t)

Fails(t) ==
  \/ ReconcileFails(t) \/ PrepareFails(t) \/ CompleteFails(t) \/ CreateAnchorFails(t) \/ Throws(t)

Next ==
  \/ \E t \in Turns : Receive(t) \/ ReceiveUi(t) \/ Step(t) \/ Fails(t)
  \/ Crash
  \/ Tick

Spec == Init /\ [][Next]_vars

\* Storage and promise reactions return, and a writer bounds its call by a timeout.
FairSpec == Spec /\ \A t \in Turns : WF_vars(Step(t))

----------------------------------------------------------------------------
(* Properties. *)

\* Type correctness of rows, locks and turns.
TypeOK ==
  /\ approval \in [Writes -> {"none", "PENDING", "APPROVED", "REJECTED"}]
  /\ requestedAt \in [Writes -> Nat]
  /\ anchor \in [Writes -> Anchor]
  /\ pointer \in Writes \cup {Home, None}
  /\ receipt \in [Writes -> {"none", "PREPARED"} \cup Outcomes]
  /\ reconciled \in BOOLEAN
  /\ approvalLock \in [Writes -> Turns \cup {None}]
  /\ sessionLock \in Turns \cup {None}
  /\ sent \in [Writes -> Nat]

\* An approved write reaches the service at most once, over concurrent turns that ask for it,
\* uncertain answers, failed records and crashes.
AtMostOneSend == \A w \in Writes : sent[w] <= 1

\* What was sent is recorded approved for ever: a denied, expired or withdrawn write is never
\* sent, and a write that was sent is never recorded as withdrawn.
SentOnlyApproved == \A w \in Writes : sent[w] > 0 => approval[w] = "APPROVED"

\* SENT and NOT_SENT, on the anchor (what the owner is told) and on the receipt, are true.
OutcomeIsTrue ==
  \A w \in Writes : \A status \in {anchor[w].status, receipt[w]} :
    /\ status = "SENT" => sent[w] = 1
    /\ status = "NOT_SENT" => sent[w] = 0

\* However requests displace each other, what the session pointed at before them is one step
\* away: the pointer is there, or on an anchor that hands it back.
PointerKept ==
  pointer # Home => pointer \in Writes /\ anchor[pointer].prev = Home

\* Nothing closed keeps the pointer once its turn is over, unless a crash or a failed write
\* came between the close and the hand-back.
ClosedReleasesPointer ==
  (crashes = 0 /\ errors = 0 /\ \A t \in Turns : At(t, "idle"))
    => (pointer \in Writes => anchor[pointer].status # "CLOSED")

\* Everyone who waits for the approval and the session lock gets them: every turn ends.
EveryTurnEnds == \A t \in Turns : ~At(t, "idle") ~> At(t, "idle")

\* "Never leave an unreachable PENDING CRITICAL approval behind": with nothing in flight, the
\* session points at the anchor of every pending approval.
NoUnreachableApproval ==
  (\A t \in Turns : At(t, "idle")) => \A w \in Writes : approval[w] = "PENDING" => pointer = w

=============================================================================
