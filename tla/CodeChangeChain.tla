--------------------------- MODULE CodeChangeChain ---------------------------
(***************************************************************************)
(* The code-change chain of one conversation: a shown preview is applied,  *)
(* committed, pushed, opened as a pull request, merged, synchronised and   *)
(* cleaned up, one explicit turn at a time                                 *)
(* (conversation-runtime/{apply,git-commit-push,git-pr-merge}-layer.ts),   *)
(* each risky step behind an approval of its own                           *)
(* (approval-decision-service.ts, approval-manager.ts).                    *)
(*                                                                         *)
(* The progress is one anchor, held by a task row the session points at;   *)
(* every transition writes a fresh task and moves the pointer, so the      *)
(* anchor is modelled by the value pointed at.  A turn reads the anchor    *)
(* when it starts and builds the next one from that copy.  Inbound turns   *)
(* run concurrently; the operations UI decides next to them.  A decision   *)
(* holds the approval's lock and the session write lock; with one session  *)
(* the second one alone orders the decisions.                              *)
(*                                                                         *)
(* The workspace, git and the hosting provider are external: acted[s] is   *)
(* how often step s changed them.                                          *)
(***************************************************************************)
EXTENDS Integers, FiniteSets

CONSTANTS
  Turns,          \* chat turns that may be in flight at once
  Ui,             \* the operations UI
  None,
  MaxApprovals, MaxOverlaps, MaxCrashes, MaxErrors    \* bounds

ASSUME ChainAssumption ==
  /\ Ui \notin Turns /\ None \notin Turns \cup {Ui}
  /\ MaxApprovals \in Nat \ {0} /\ MaxOverlaps \in Nat
  /\ MaxCrashes \in Nat /\ MaxErrors \in Nat

VARIABLES
  anchor,       \* the anchor the session's pointer leads to
  closed,       \* Session.status = CLOSED
  approval,     \* the approval rows, in the order they were requested
  change,       \* the WorkspaceChange row of the patch set, and how its operations are applied
  lock,         \* who holds the session write lock
  turn,         \* what each turn is doing
  acted,        \* how often a step changed the workspace, the repository or the remote
  torn,         \* history: decided requests whose next write, of the anchor or the close, was lost
  overlaps,     \* how often a turn started while another one was in flight
  crashes, errors

vars == <<anchor, closed, approval, change, lock, turn, acted, torn, overlaps, crashes, errors>>

Procs == Turns \cup {Ui}
Ids == 1..MaxApprovals

Gates == {"apply", "commit", "push", "pr", "merge", "cleanup"}

\* What each request turn starts from and the status its anchor then waits in.
ApplyAsked == [from |-> "ELIGIBLE", pending |-> "AWAITING_APPROVAL"]
CommitAsked == [from |-> "WORKSPACE_APPLIED", pending |-> "COMMIT_APPROVAL_PENDING"]
PushAsked == [from |-> "GIT_COMMITTED", pending |-> "PUSH_APPROVAL_PENDING"]
PrAsked == [from |-> "GIT_PUSHED", pending |-> "PR_APPROVAL_PENDING"]
MergeAsked == [from |-> "PR_CREATED", pending |-> "MERGE_APPROVAL_PENDING"]
CleanupAsked == [from |-> "BRANCH_CLEANED", pending |-> "REMOTE_BRANCH_CLEANUP_PENDING"]

Asked ==
  [apply |-> ApplyAsked, commit |-> CommitAsked, push |-> PushAsked,
   pr |-> PrAsked, merge |-> MergeAsked, cleanup |-> CleanupAsked]

\* Where each decision moves the anchor.  A rejected apply clears it.
ApplyDecided == [approved |-> "APPROVED", rejected |-> "none"]
CommitDecided == [approved |-> "COMMIT_APPROVED", rejected |-> "WORKSPACE_APPLIED"]
PushDecided == [approved |-> "PUSH_APPROVED", rejected |-> "GIT_COMMITTED"]
PrDecided == [approved |-> "PR_APPROVED", rejected |-> "GIT_PUSHED"]
MergeDecided == [approved |-> "MERGE_APPROVED", rejected |-> "PR_CREATED"]
CleanupDecided == [approved |-> "REMOTE_BRANCH_CLEANUP_APPROVED", rejected |-> "BRANCH_CLEANED"]

Decided ==
  [apply |-> ApplyDecided, commit |-> CommitDecided, push |-> PushDecided,
   pr |-> PrDecided, merge |-> MergeDecided, cleanup |-> CleanupDecided]

\* The execution turns.  `grant' is the gate whose APPROVED request they re-read, if any.
PatchStep == [from |-> "APPROVED", to |-> "PATCH_READY", grant |-> "apply"]
WriteStep == [from |-> "PATCH_READY", to |-> "WORKSPACE_APPLIED", grant |-> "none"]
ValidateStep == [from |-> "WORKSPACE_APPLIED", to |-> "WORKSPACE_APPLIED", grant |-> "none"]
CommitStep == [from |-> "COMMIT_APPROVED", to |-> "GIT_COMMITTED", grant |-> "commit"]
PushStep == [from |-> "PUSH_APPROVED", to |-> "GIT_PUSHED", grant |-> "push"]
PrStep == [from |-> "PR_APPROVED", to |-> "PR_CREATED", grant |-> "pr"]
MergeStep == [from |-> "MERGE_APPROVED", to |-> "PR_MERGED", grant |-> "merge"]
SyncStep == [from |-> "PR_MERGED", to |-> "MAIN_SYNCED", grant |-> "none"]
LocalStep == [from |-> "MAIN_SYNCED", to |-> "BRANCH_CLEANED", grant |-> "none"]
CleanupStep ==
  [from |-> "REMOTE_BRANCH_CLEANUP_APPROVED", to |-> "REMOTE_BRANCH_CLEANED",
   grant |-> "cleanup"]

Step ==
  [patch |-> PatchStep, write |-> WriteStep, validate |-> ValidateStep,
   commit |-> CommitStep, push |-> PushStep, pr |-> PrStep, merge |-> MergeStep,
   sync |-> SyncStep, local |-> LocalStep, cleanup |-> CleanupStep]

Steps == DOMAIN Step

\* The order of the chain: how far an anchor is.
Stage ==
  [none |-> 0, ELIGIBLE |-> 1, AWAITING_APPROVAL |-> 2, APPROVED |-> 3, PATCH_READY |-> 4,
   WORKSPACE_APPLIED |-> 5, COMMIT_APPROVAL_PENDING |-> 6, COMMIT_APPROVED |-> 7,
   GIT_COMMITTED |-> 8, PUSH_APPROVAL_PENDING |-> 9, PUSH_APPROVED |-> 10, GIT_PUSHED |-> 11,
   PR_APPROVAL_PENDING |-> 12, PR_APPROVED |-> 13, PR_CREATED |-> 14,
   MERGE_APPROVAL_PENDING |-> 15, MERGE_APPROVED |-> 16, PR_MERGED |-> 17, MAIN_SYNCED |-> 18,
   BRANCH_CLEANED |-> 19, REMOTE_BRANCH_CLEANUP_PENDING |-> 20,
   REMOTE_BRANCH_CLEANUP_APPROVED |-> 21, REMOTE_BRANCH_CLEANED |-> 22]

Statuses == DOMAIN Stage

\* An anchor: its status, the approval of the gate it is at or passed last, and whether it
\* carries mergeCommitHash.
Anchor == [status : Statuses, id : Ids \cup {None}, mergeCommit : BOOLEAN]

NoAnchor == [status |-> "none", id |-> None, mergeCommit |-> FALSE]

ApprovalStatus == {"none", "PENDING", "LATE", "APPROVED", "REJECTED"}

NoTurn == [pc |-> "idle", snap |-> NoAnchor, what |-> "none", id |-> None, next |-> NoAnchor]

Init ==
  /\ anchor = [NoAnchor EXCEPT !.status = "ELIGIBLE"]
  /\ closed = FALSE
  /\ approval = [i \in Ids |-> [gate |-> "apply", status |-> "none"]]
  /\ change = [set |-> FALSE, status |-> "none"]
  /\ lock = None
  /\ turn = [p \in Procs |-> NoTurn]
  /\ acted = [s \in Steps |-> 0]
  /\ torn = {}
  /\ overlaps = 0 /\ crashes = 0 /\ errors = 0

----------------------------------------------------------------------------

GateAt(status) == {g \in Gates : Asked[g].pending = status}

Pending(i) == approval[i].status \in {"PENDING", "LATE"}

\* pendingApprovalIdOf, for an anchor that waits at a gate.
Waits(a) == GateAt(a.status) # {}

Done(s) == acted[s] > 0

\* What the managers find in the repository and on the remote before they act.
Dirty == Done("write") /\ ~Done("commit")         \* commitFiles: the change, and nothing else
AtCommit == Done("commit")                        \* pushApprovedCommit: HEAD is the commit
MergeKnown(a) == a.mergeCommit                    \* syncMain: the anchor names the merge commit
PullRequestOpen == Done("pr")                     \* createPullRequest: reuse
HeadMerged == Done("merge")                       \* mergePullRequest: alreadyMerged
MainAtMerge == Done("sync")                       \* syncMain: nothing to fast-forward
BranchGone == Done("local")                       \* deleteMergedLocalBranch: absent
RemoteBranchGone == Done("cleanup")               \* deleteRemoteBranch: absent
ChangeApplied == change.status = "APPLIED"        \* begin: the change row of the patch set

\* begin: a single update is attempted again, a change set only while the workspace is known
\* to be unchanged (isChangeSetRetryable).  What is not attempted ends the turn.
Retryable == change.set => change.status \in {"FAILED", "ROLLED_BACK"}

\* The reads a request or an execution turn starts with.  Each may also fail, which ends the
\* turn (see GiveUp).
MayAsk(g) == (g = "commit" => Dirty) /\ (g = "push" => AtCommit)

MayAct(s, a) ==
  /\ (s = "commit" => Dirty) /\ (s = "push" => AtCommit) /\ (s = "sync" => MergeKnown(a))
  /\ (s = "write" => ChangeApplied \/ Retryable)

\* The step finds its work already done and succeeds without a mutation.
Reuses(s) ==
  \/ s = "pr" /\ PullRequestOpen
  \/ s = "merge" /\ HeadMerged
  \/ s = "sync" /\ MainAtMerge
  \/ s = "local" /\ BranchGone
  \/ s = "cleanup" /\ RemoteBranchGone
  \/ s = "write" /\ ChangeApplied

----------------------------------------------------------------------------
(* Turns *)

Set(p, pc, snap, what, id, next) ==
  turn' = [turn EXCEPT ![p] =
             [pc |-> pc, snap |-> snap, what |-> what, id |-> id, next |-> next]]

Idle(p) == turn' = [turn EXCEPT ![p] = NoTurn]

\* A turn starts: findPending / findAnchor.
Receive(t) ==
  /\ turn[t].pc = "idle" /\ ~closed /\ anchor # NoAnchor
  /\ Set(t, "routed", anchor, "none", None, NoAnchor)
  /\ IF \E o \in Turns : turn[o].pc # "idle"
     THEN overlaps < MaxOverlaps /\ overlaps' = overlaps + 1 ELSE UNCHANGED overlaps
  /\ UNCHANGED <<anchor, closed, approval, change, lock, acted, torn, crashes, errors>>

\* Any check of the turn fails, or the message asks for nothing this anchor can do: the reply
\* changes no state.
GiveUp(t) ==
  /\ turn[t].pc = "routed" \/ (turn[t].pc = "checked" /\ turn[t].what # "write")
  /\ Idle(t)
  /\ UNCHANGED <<anchor, closed, approval, change, lock, acted, torn, overlaps, crashes, errors>>

\* ApprovalManager.requestForRisk: the row, before the anchor that names it.
Request(t, g) ==
  /\ turn[t].pc = "routed" /\ turn[t].snap.status = Asked[g].from
  /\ MayAsk(g)
  /\ \E i \in Ids :
       /\ \A j \in Ids : approval[j].status = "none" <=> j >= i
       /\ approval' = [approval EXCEPT ![i] = [gate |-> g, status |-> "PENDING"]]
       /\ Set(t, "write", turn[t].snap, "request", i,
              [turn[t].snap EXCEPT !.status = Asked[g].pending, !.id = i])
  /\ UNCHANGED <<anchor, closed, change, lock, acted, torn, overlaps, crashes, errors>>

\* ApplyPreviewFlow.anchor: a fresh task, then the pointer, under the session write lock.
WriteAnchor(t) ==
  /\ turn[t].pc = "write" /\ lock = None
  /\ anchor' = turn[t].next
  /\ Idle(t)
  /\ UNCHANGED <<closed, approval, change, lock, acted, torn, overlaps, crashes, errors>>

\* handlePreviewDiscardTurn: clearIfCurrent compares with the live anchor under the lock.
Discard(t) ==
  /\ turn[t].pc = "routed" /\ turn[t].snap.status = "ELIGIBLE" /\ lock = None
  /\ anchor' = IF anchor = turn[t].snap THEN NoAnchor ELSE anchor
  /\ Idle(t)
  /\ UNCHANGED <<closed, approval, change, lock, acted, torn, overlaps, crashes, errors>>

----------------------------------------------------------------------------
(* Decisions *)

\* The lifetime of an approval runs out.
Deadline(i) ==
  /\ approval[i].status = "PENDING"
  /\ approval' = [approval EXCEPT ![i].status = "LATE"]
  /\ UNCHANGED <<anchor, closed, change, lock, turn, acted, torn, overlaps, crashes, errors>>

\* anchorAfterRejection.
Rejected(a, g) ==
  IF Decided[g].rejected = "none" THEN NoAnchor
  ELSE [a EXCEPT !.status = Decided[g].rejected, !.id = None]

\* A variant of RecordDecision that trusts the copy and does not re-read the row.
RecordStale(p, a, approve) ==
  \E g \in GateAt(a.status) :
    /\ approval' = [approval EXCEPT ![a.id].status = IF approve THEN "APPROVED" ELSE "REJECTED"]
    /\ Set(p, "decided", a, IF approve THEN "approve" ELSE "reject", a.id,
           IF approve THEN [a EXCEPT !.status = Decided[g].approved] ELSE Rejected(a, g))
    /\ lock' = p
    /\ UNCHANGED <<anchor, closed, change, acted, torn, overlaps, crashes, errors>>

\* freshPending, expiredBeforeApprove and ApprovalManager.decide, inside both locks: the row
\* is recorded first.  An expired request is denied whatever was asked.
RecordDecision(p, a, approve) ==
  \E g \in GateAt(a.status) :
    /\ Pending(a.id)
    /\ LET granted == approve /\ approval[a.id].status = "PENDING" IN
       /\ approval' = [approval EXCEPT ![a.id].status = IF granted THEN "APPROVED" ELSE "REJECTED"]
       /\ Set(p, "decided", a, IF granted THEN "approve" ELSE "reject", a.id,
              IF granted THEN [a EXCEPT !.status = Decided[g].approved] ELSE Rejected(a, g))
    /\ lock' = p
    /\ UNCHANGED <<anchor, closed, change, acted, torn, overlaps, crashes, errors>>

\* A chat turn decides on the copy it read; what another transition settled meanwhile is left
\* alone (lostToOpsUi, anchoredUnavailable).
Decide(t) ==
  /\ turn[t].pc = "routed" /\ lock = None
  /\ \E approve \in BOOLEAN : RecordDecision(t, turn[t].snap, approve)

\* decideFromOpsUi locates the holder again inside its lock, so it decides on the live anchor
\* of a conversation that is still open.
UiDecide ==
  /\ turn[Ui].pc = "idle" /\ lock = None /\ ~closed
  /\ \E approve \in BOOLEAN : RecordDecision(Ui, anchor, approve)

\* A variant of AnchorDecision that returns early, with the lock, when the anchor is cleared.
AnchorKeepingLock(p) ==
  /\ turn[p].pc = "decided"
  /\ anchor' = IF turn[p].next = NoAnchor /\ anchor # turn[p].snap THEN anchor ELSE turn[p].next
  /\ lock' = IF turn[p].next = NoAnchor THEN lock ELSE None
  /\ Idle(p)
  /\ UNCHANGED <<closed, approval, change, acted, torn, overlaps, crashes, errors>>

\* The anchor follows the decision.  A rejected apply only clears the anchor it was read from.
AnchorDecision(p) ==
  /\ turn[p].pc = "decided"
  /\ anchor' = IF turn[p].next = NoAnchor /\ anchor # turn[p].snap THEN anchor ELSE turn[p].next
  /\ lock' = None
  /\ Idle(p)
  /\ UNCHANGED <<closed, approval, change, acted, torn, overlaps, crashes, errors>>

\* resetConversation: the pending request of the turn's lookup is denied, under the same locks;
\* one that is decided by now is left alone.
ResetDeny(t) ==
  LET a == turn[t].snap IN
  /\ turn[t].pc = "routed" /\ lock = None
  /\ IF Waits(a) /\ Pending(a.id)
     THEN /\ approval' = [approval EXCEPT ![a.id].status = "REJECTED"]
          /\ Set(t, "denied", a, "reject", a.id, NoAnchor)
     ELSE UNCHANGED approval /\ Set(t, "denied", a, "none", None, NoAnchor)
  /\ lock' = t
  /\ UNCHANGED <<anchor, closed, change, acted, torn, overlaps, crashes, errors>>

\* A variant of ResetClose that leaves the session open.
ResetKeepsOpen(t) ==
  /\ turn[t].pc = "denied"
  /\ lock' = None
  /\ Idle(t)
  /\ UNCHANGED <<anchor, closed, approval, change, acted, torn, overlaps, crashes, errors>>

\* The session is closed by a write of its own, and the locks are free again.
ResetClose(t) ==
  /\ turn[t].pc = "denied"
  /\ closed' = TRUE
  /\ lock' = None
  /\ Idle(t)
  /\ UNCHANGED <<anchor, approval, change, acted, torn, overlaps, crashes, errors>>

----------------------------------------------------------------------------
(* Execution *)

\* The live request re-read before a step: APPROVED, through the anchor's own id.
Granted(s, a) ==
  Step[s].grant = "none" \/ (a.id # None /\ approval[a.id].status = "APPROVED")

\* begin: the change row is APPLYING before a file is touched.  The row is created for a patch
\* of one update, or for a change set.
Begin(s) ==
  IF s = "write"
  THEN \E set \in BOOLEAN :
         /\ change.status = "none" \/ set = change.set
         /\ change' = [set |-> set, status |-> "APPLYING"]
  ELSE UNCHANGED change

\* A variant of Check that relies on the request alone and not on the anchor's status.
CheckAnyStatus(t, s) ==
  LET a == turn[t].snap
      to == [a EXCEPT !.status = Step[s].to, !.mergeCommit = @ /\ s # "merge"] IN
  /\ turn[t].pc = "routed"
  /\ Granted(s, a) /\ MayAct(s, a) /\ ~Reuses(s)
  /\ Set(t, "checked", a, s, a.id, to)
  /\ Begin(s)
  /\ UNCHANGED <<anchor, closed, approval, lock, acted, torn, overlaps, crashes, errors>>

\* Everything an execution turn reads before it acts.  What is already done is only recorded.
Check(t, s) ==
  LET a == turn[t].snap
      to == [a EXCEPT !.status = Step[s].to, !.mergeCommit = @ /\ s # "merge"] IN
  /\ turn[t].pc = "routed" /\ a.status = Step[s].from
  /\ Granted(s, a) /\ MayAct(s, a)
  /\ IF Reuses(s)
     THEN Set(t, "write", a, "reuse", a.id, to) /\ UNCHANGED change
     ELSE /\ Set(t, "checked", a, s, a.id, to)
          /\ Begin(s)
  /\ UNCHANGED <<anchor, closed, approval, lock, acted, torn, overlaps, crashes, errors>>

\* The approved title and body of a pull request do not match their hash any more: the anchor
\* steps back to GIT_PUSHED and forgets the request.
ReleasePr(t) ==
  LET a == turn[t].snap IN
  /\ turn[t].pc = "routed" /\ a.status = PrStep.from
  /\ Granted("pr", a)
  /\ errors < MaxErrors /\ errors' = errors + 1
  /\ Set(t, "write", a, "none", None, [a EXCEPT !.status = "GIT_PUSHED", !.id = None])
  /\ UNCHANGED <<anchor, closed, approval, change, lock, acted, torn, overlaps, crashes>>

\* The external system refuses what another turn did after the check: nothing to commit, a
\* patch that no longer applies, a second pull request, merge or delete.  A repeated push is a
\* no-op, and a command may run again.
Refuses(s) == s \notin {"patch", "validate", "push"} /\ Done(s)

Recorded(a, s) == IF s = "merge" THEN [a EXCEPT !.mergeCommit = TRUE] ELSE a

\* The single mutating call, and its answer.
Act(t) ==
  LET s == turn[t].what IN
  /\ turn[t].pc = "checked"
  /\ ~Refuses(s)
  /\ acted' = [acted EXCEPT ![s] = IF s \in {"patch", "validate", "push"} THEN 1 ELSE @ + 1]
  /\ Set(t, IF s = "write" THEN "applied" ELSE "write", turn[t].snap, s, turn[t].id,
         Recorded(turn[t].next, s))
  /\ UNCHANGED <<anchor, closed, approval, change, lock, torn, overlaps, crashes, errors>>

\* How a write that does not succeed leaves the change row: a single update FAILED and a change
\* set ROLLED_BACK when no file changed, PARTIALLY_APPLIED when the rollback failed too or the
\* results do not match, and APPLYING when the writer throws.
FailedChange(mutated) ==
  {"APPLYING"} \cup {status \in {"PARTIALLY_APPLIED"} : change.set}
    \cup {status \in {IF change.set THEN "ROLLED_BACK" ELSE "FAILED"} : ~mutated}

\* The call throws or its result cannot be verified; the mutation may have happened.  The
\* anchor stays.
ActFails(t) ==
  LET s == turn[t].what IN
  /\ turn[t].pc = "checked"
  /\ \E mutated \in BOOLEAN :
       /\ IF Refuses(s) THEN ~mutated /\ UNCHANGED errors
          ELSE errors < MaxErrors /\ errors' = errors + 1
       /\ acted' = IF mutated THEN [acted EXCEPT ![s] = 1] ELSE acted
       /\ IF s = "write"
          THEN \E status \in FailedChange(mutated) : change' = [change EXCEPT !.status = status]
          ELSE UNCHANGED change
  /\ Idle(t)
  /\ UNCHANGED <<anchor, closed, approval, lock, torn, overlaps, crashes>>

\* WorkspaceWriteManager.finish: the outcome is saved on the change row, then the turn anchors.
FinishChange(t) ==
  /\ turn[t].pc = "applied"
  /\ change' = [change EXCEPT !.status = "APPLIED"]
  /\ turn' = [turn EXCEPT ![t].pc = "write"]
  /\ UNCHANGED <<anchor, closed, approval, lock, acted, torn, overlaps, crashes, errors>>

\* The request a turn has decided, while the write that follows the decision is still to come.
Unfollowed(p) == {i \in Ids : turn[p].pc \in {"decided", "denied"} /\ turn[p].id = i}

\* A save throws, of the task or the session pointer (anchor), of the session (close) or of the
\* change row (finish): the turn ends and its locks are released, with what was saved before.
StoreFails(p) ==
  /\ turn[p].pc \in {"write", "applied", "decided", "denied"}
  /\ errors < MaxErrors /\ errors' = errors + 1
  /\ torn' = torn \cup Unfollowed(p)
  /\ lock' = IF lock = p THEN None ELSE lock
  /\ Idle(p)
  /\ UNCHANGED <<anchor, closed, approval, change, acted, overlaps, crashes>>

\* The process ends and starts again; the rows are durable, the turns and the locks are not.
Crash ==
  /\ crashes < MaxCrashes
  /\ crashes' = crashes + 1
  /\ torn' = torn \cup UNION {Unfollowed(p) : p \in Procs}
  /\ turn' = [p \in Procs |-> NoTurn]
  /\ lock' = None
  /\ UNCHANGED <<anchor, closed, approval, change, acted, overlaps, errors>>

----------------------------------------------------------------------------

TurnStep(t) ==
  \/ Receive(t) \/ GiveUp(t) \/ WriteAnchor(t) \/ Discard(t) \/ Decide(t)
  \/ ResetDeny(t) \/ ResetClose(t) \/ ReleasePr(t)
  \/ \E g \in Gates : Request(t, g)
  \/ \E s \in Steps : Check(t, s)
  \/ Act(t) \/ ActFails(t) \/ FinishChange(t)

Next ==
  \/ \E t \in Turns : TurnStep(t)
  \/ UiDecide
  \/ \E p \in Procs : AnchorDecision(p) \/ StoreFails(p)
  \/ \E i \in Ids : Deadline(i)
  \/ Crash

Spec == Init /\ [][Next]_vars

----------------------------------------------------------------------------
(* Properties *)

TurnState ==
  [pc : {"idle", "routed", "checked", "applied", "decided", "denied", "write"},
   snap : Anchor,
   what : {"none", "request", "reuse", "approve", "reject"} \cup Steps,
   id : Ids \cup {None}, next : Anchor]

ChangeRow ==
  [set : BOOLEAN,
   status : {"none", "APPLYING", "APPLIED", "FAILED", "ROLLED_BACK", "PARTIALLY_APPLIED"}]

\* The values of the variables; the lock is held by whoever recorded a decision and has not
\* followed it with the anchor or the close yet.
TypeOK ==
  /\ anchor \in Anchor
  /\ closed \in BOOLEAN /\ torn \subseteq Ids
  /\ approval \in [Ids -> [gate : Gates, status : ApprovalStatus]]
  /\ change \in ChangeRow
  /\ lock \in Procs \cup {None}
  /\ turn \in [Procs -> TurnState]
  /\ \A p \in Procs : lock = p <=> turn[p].pc \in {"decided", "denied"}
  /\ acted \in [Steps -> Nat]
  /\ overlaps \in 0..MaxOverlaps /\ crashes \in 0..MaxCrashes /\ errors \in 0..MaxErrors

GateGranted(g) == \E i \in Ids : approval[i] = [gate |-> g, status |-> "APPROVED"]

\* Nothing touches the workspace, the repository or the remote unless the owner approved every
\* gate on the way to it, each with a request of its own: whatever turns, UI decisions, resets,
\* expiries and crashes interleave, and however stale the anchor a turn works on.
EveryMutationGranted ==
  \A s \in Steps : Done(s) =>
    \A g \in Gates : Stage[Decided[g].approved] <= Stage[Step[s].from] => GateGranted(g)

\* One decision per request, and never an approval after its lifetime: chat, the operations
\* UI, an expiry and a reset race for the same row (freshPending inside both locks).
OneDecision ==
  [][\A i \in Ids : approval'[i] # approval[i] =>
       <<approval[i].status, approval'[i].status>> \in
         {<<"none", "PENDING">>, <<"PENDING", "LATE">>, <<"PENDING", "APPROVED">>,
          <<"PENDING", "REJECTED">>, <<"LATE", "REJECTED">>}]_vars

Stranded == ~closed /\ lock = None /\ Waits(anchor) /\ ~Pending(anchor.id)

\* A conversation that waits at a gate waits for a request that can still be decided: no race
\* of two turns, the UI, the clock and a reset leaves a decided request anchored.  Only a lost
\* write does: the decision is recorded, and then the process dies or the save throws before
\* the anchor has moved (anchor) or the session is closed (resetConversation).
StrandedOnlyByLostWrite == Stranded => anchor.id \in torn

=============================================================================
