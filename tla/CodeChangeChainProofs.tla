------------------------ MODULE CodeChangeChainProofs ------------------------
(***************************************************************************)
(* CodeChangeChain for any number of turns, requests, overlaps, crashes    *)
(* and failing calls: nothing is changed without every approval on the way *)
(* to it, and every request is decided once.                               *)
(*                                                                         *)
(* The inductive invariant speaks of every anchor there is, the live one   *)
(* and the copies in the turns: all gates its status has passed are        *)
(* granted, and one that waits at a gate names a request of that gate.     *)
(***************************************************************************)
EXTENDS CodeChangeChain, TLAPS

\* The gates that lie behind a status.
Passed(status) == {g \in Gates : Stage[Decided[g].approved] <= Stage[status]}

\* What a request row may do in one step.
RowStep(i) ==
  /\ <<approval[i].status, approval'[i].status>> \in
       {<<"none", "PENDING">>, <<"PENDING", "LATE">>, <<"PENDING", "APPROVED">>,
        <<"PENDING", "REJECTED">>, <<"LATE", "REJECTED">>}
  /\ approval[i].status # "none" => approval'[i].gate = approval[i].gate

RowsStep == \A i \in Ids : approval'[i] # approval[i] => RowStep(i)

AnchorOK(a) ==
  /\ \A g \in Passed(a.status) : GateGranted(g)
  /\ \A g \in GateAt(a.status) :
       a.id \in Ids /\ approval[a.id].gate = g /\ approval[a.id].status # "none"

\* The same of the next state, for an anchor of this one.
StaysOK(a) ==
  /\ \A g \in Passed(a.status) : GateGranted(g)'
  /\ \A g \in GateAt(a.status) :
       a.id \in Ids /\ approval'[a.id].gate = g /\ approval'[a.id].status # "none"

TurnOK(p) ==
  /\ AnchorOK(turn[p].snap) /\ AnchorOK(turn[p].next)
  /\ turn[p].pc = "checked" => turn[p].what \in Steps /\ turn[p].snap.status = Step[turn[p].what].from

MutationsOK ==
  \A s \in Steps : acted[s] > 0 => \A g \in Passed(Step[s].from) : GateGranted(g)

ChainInv ==
  /\ TypeOK
  /\ AnchorOK(anchor)
  /\ \A p \in Procs : TurnOK(p)
  /\ MutationsOK

----------------------------------------------------------------------------
(* The tables of the chain *)

LEMMA TableNames ==
  /\ Steps = {"patch", "write", "validate", "commit", "push", "pr", "merge", "sync", "local", "cleanup"}
  /\ Statuses = {"none", "ELIGIBLE", "AWAITING_APPROVAL", "APPROVED", "PATCH_READY",
                 "WORKSPACE_APPLIED", "COMMIT_APPROVAL_PENDING", "COMMIT_APPROVED",
                 "GIT_COMMITTED", "PUSH_APPROVAL_PENDING", "PUSH_APPROVED", "GIT_PUSHED",
                 "PR_APPROVAL_PENDING", "PR_APPROVED", "PR_CREATED", "MERGE_APPROVAL_PENDING",
                 "MERGE_APPROVED", "PR_MERGED", "MAIN_SYNCED", "BRANCH_CLEANED",
                 "REMOTE_BRANCH_CLEANUP_PENDING", "REMOTE_BRANCH_CLEANUP_APPROVED",
                 "REMOTE_BRANCH_CLEANED"}
BY DEF Steps, Step, Statuses, Stage

\* The decided stages, in order.
LEMMA DecidedStages ==
  /\ Stage[Decided["apply"].approved] = 3 /\ Stage[Decided["commit"].approved] = 7
  /\ Stage[Decided["push"].approved] = 10 /\ Stage[Decided["pr"].approved] = 13
  /\ Stage[Decided["merge"].approved] = 16 /\ Stage[Decided["cleanup"].approved] = 21
BY DEF Stage, Decided, ApplyDecided, CommitDecided, PushDecided, PrDecided, MergeDecided, CleanupDecided

LEMMA PendingStages ==
  /\ Stage[Asked["apply"].pending] = 2 /\ Stage[Asked["commit"].pending] = 6
  /\ Stage[Asked["push"].pending] = 9 /\ Stage[Asked["pr"].pending] = 12
  /\ Stage[Asked["merge"].pending] = 15 /\ Stage[Asked["cleanup"].pending] = 20
BY DEF Stage, Asked, ApplyAsked, CommitAsked, PushAsked, PrAsked, MergeAsked, CleanupAsked

LEMMA FromStages ==
  /\ Stage[Asked["apply"].from] = 1 /\ Stage[Asked["commit"].from] = 5
  /\ Stage[Asked["push"].from] = 8 /\ Stage[Asked["pr"].from] = 11
  /\ Stage[Asked["merge"].from] = 14 /\ Stage[Asked["cleanup"].from] = 19
BY DEF Stage, Asked, ApplyAsked, CommitAsked, PushAsked, PrAsked, MergeAsked, CleanupAsked

LEMMA RejectedStages ==
  /\ Stage[Decided["apply"].rejected] = 0 /\ Stage[Decided["commit"].rejected] = 5
  /\ Stage[Decided["push"].rejected] = 8 /\ Stage[Decided["pr"].rejected] = 11
  /\ Stage[Decided["merge"].rejected] = 14 /\ Stage[Decided["cleanup"].rejected] = 19
BY DEF Stage, Decided, ApplyDecided, CommitDecided, PushDecided, PrDecided, MergeDecided, CleanupDecided

\* Asking passes no gate, a decision at most its own, an approved one exactly that.
LEMMA GateTable ==
  ASSUME NEW g \in Gates
  PROVE  /\ Passed(Asked[g].pending) \subseteq Passed(Asked[g].from)
         /\ Passed(Decided[g].rejected) \subseteq Passed(Asked[g].pending)
         /\ Passed(Decided[g].approved) \subseteq Passed(Asked[g].pending) \cup {g}
BY DecidedStages, PendingStages, FromStages, RejectedStages DEF Passed, Gates

\* A step passes no gate.
LEMMA StepTable ==
  ASSUME NEW s \in Steps
  PROVE  /\ Passed(Step[s].to) \subseteq Passed(Step[s].from)
         /\ Step[s].to \in Statuses /\ Step[s].from \in Statuses
         /\ GateAt(Step[s].to) = {}
<1>1. s \in {"patch", "write", "validate", "commit", "push", "pr", "merge", "sync", "local", "cleanup"}
  BY TableNames
<1> USE <1>1, DecidedStages
        DEF Step, PatchStep, WriteStep, ValidateStep, CommitStep, PushStep, PrStep, MergeStep,
            SyncStep, LocalStep, CleanupStep
<1>2. Step[s].to \in Statuses /\ Step[s].from \in Statuses
  BY TableNames
<1>3. GateAt(Step[s].to) = {}
  BY DEF GateAt, Gates, Asked, ApplyAsked, CommitAsked, PushAsked, PrAsked, MergeAsked, CleanupAsked
<1>4. \A g \in Gates : Stage[Decided[g].approved] <= Stage[Step[s].to]
                          => Stage[Decided[g].approved] <= Stage[Step[s].from]
  BY DEF Gates, Stage
<1> QED
  BY <1>2, <1>3, <1>4 DEF Passed

LEMMA GateNames ==
  ASSUME NEW g \in Gates
  PROVE  /\ Asked[g].pending \in Statuses /\ Asked[g].from \in Statuses
         /\ Decided[g].approved \in Statuses /\ Decided[g].rejected \in Statuses
         /\ GateAt(Asked[g].pending) = {g}
         /\ GateAt(Decided[g].approved) = {} /\ GateAt(Decided[g].rejected) = {}
BY TableNames
DEF Gates, GateAt, Asked, ApplyAsked, CommitAsked, PushAsked, PrAsked, MergeAsked, CleanupAsked,
    Decided, ApplyDecided, CommitDecided, PushDecided, PrDecided, MergeDecided, CleanupDecided

LEMMA NoAnchorOK == NoAnchor \in Anchor /\ AnchorOK(NoAnchor)
<1>1. "none" \in Statuses /\ Stage["none"] = 0
  BY TableNames DEF Stage
<1>2. Passed("none") = {}
  BY <1>1, DecidedStages DEF Passed, Gates
<1>3. GateAt("none") = {}
  BY DEF GateAt, Gates, Asked, ApplyAsked, CommitAsked, PushAsked, PrAsked, MergeAsked, CleanupAsked
<1> QED
  BY <1>1, <1>2, <1>3 DEF NoAnchor, Anchor, AnchorOK

----------------------------------------------------------------------------
(* What a step keeps *)

\* A grant is for good.
LEMMA StableGrant ==
  ASSUME TypeOK, RowsStep, NEW g \in Gates, GateGranted(g)
  PROVE  GateGranted(g)'
<1>1. PICK i \in Ids : approval[i] = [gate |-> g, status |-> "APPROVED"]
  BY DEF GateGranted
<1>2. approval[i].status = "APPROVED"
  BY <1>1
<1>3. approval'[i] = approval[i]
  BY <1>2 DEF RowsStep, RowStep
<1> QED
  BY <1>1, <1>3 DEF GateGranted, Ids

LEMMA StableAnchor ==
  ASSUME TypeOK, RowsStep
  PROVE  \A a \in Anchor : AnchorOK(a) => StaysOK(a)
<1> SUFFICES ASSUME NEW a \in Anchor, AnchorOK(a) PROVE StaysOK(a)
  OBVIOUS
<1>1. \A g \in Passed(a.status) : GateGranted(g)'
  BY StableGrant DEF AnchorOK, Passed
<1>2. ASSUME NEW g \in GateAt(a.status)
      PROVE  a.id \in Ids /\ approval'[a.id].gate = g /\ approval'[a.id].status # "none"
  BY <1>2 DEF AnchorOK, RowsStep, RowStep
<1> QED
  BY <1>1, <1>2 DEF StaysOK

\* A step of one process: what it leaves alone stays as it should be.
LEMMA Combine ==
  ASSUME ChainInv, TypeOK', RowsStep, NEW p \in Procs,
         \A q \in Procs : q # p => turn'[q] = turn[q],
         AnchorOK(anchor)', TurnOK(p)',
         \A s \in Steps : acted'[s] > 0 =>
            acted[s] > 0 \/ \A g \in Passed(Step[s].from) : GateGranted(g)'
  PROVE  ChainInv'
<1>1. ASSUME NEW q \in Procs, q # p PROVE TurnOK(q)'
  <2>1. turn[q].snap \in Anchor /\ turn[q].next \in Anchor
    BY DEF ChainInv, TypeOK, TurnState
  <2>2. StaysOK(turn[q].snap) /\ StaysOK(turn[q].next)
    BY <2>1, StableAnchor DEF ChainInv, TurnOK
  <2>3. AnchorOK(turn[q].snap)' /\ AnchorOK(turn[q].next)'
    BY <1>1, <2>2 DEF StaysOK, AnchorOK
  <2> QED
    BY <1>1, <2>3 DEF ChainInv, TurnOK
<1>2. MutationsOK'
  <2>1. ASSUME NEW s \in Steps, acted[s] > 0, NEW g \in Passed(Step[s].from) PROVE GateGranted(g)'
    BY <2>1, StableGrant DEF ChainInv, MutationsOK, Passed
  <2> QED
    BY <2>1 DEF MutationsOK
<1> QED
  BY <1>1, <1>2 DEF ChainInv

----------------------------------------------------------------------------
(* The initial state and the steps *)


LEMMA NoTurnType == NoTurn \in TurnState
BY NoAnchorOK DEF NoTurn, TurnState

LEMMA InitChainInv == Init => ChainInv
<1> SUFFICES ASSUME Init PROVE ChainInv
  OBVIOUS
<1>1. "ELIGIBLE" \in Statuses /\ Stage["ELIGIBLE"] = 1
  BY TableNames DEF Stage
<1>2. Passed("ELIGIBLE") = {}
  BY <1>1, DecidedStages DEF Passed, Gates
<1>3. GateAt("ELIGIBLE") = {}
  BY DEF GateAt, Gates, Asked, ApplyAsked, CommitAsked, PushAsked, PrAsked, MergeAsked, CleanupAsked
<1>4. anchor \in Anchor /\ anchor.status = "ELIGIBLE"
  BY <1>1, NoAnchorOK DEF Init, Anchor, NoAnchor
<1>5. AnchorOK(anchor)
  BY <1>2, <1>3, <1>4 DEF AnchorOK
<1>6. TypeOK
  <2>1. turn \in [Procs -> TurnState] /\ \A p \in Procs : turn[p].pc = "idle"
    BY NoTurnType DEF Init, NoTurn
  <2>2. \A p \in Procs : lock = p <=> turn[p].pc \in {"decided", "denied"}
    BY <2>1, ChainAssumption DEF Init, Procs
  <2>3. approval \in [Ids -> [gate : Gates, status : ApprovalStatus]]
    BY DEF Init, Gates, ApprovalStatus
  <2>4. closed \in BOOLEAN /\ torn \subseteq Ids /\ lock = None /\ change \in ChangeRow
    BY DEF Init, ChangeRow
  <2>5. /\ acted \in [Steps -> Nat]
        /\ overlaps \in 0..MaxOverlaps /\ crashes \in 0..MaxCrashes /\ errors \in 0..MaxErrors
    BY ChainAssumption DEF Init
  <2> QED
    BY <1>4, <2>1, <2>2, <2>3, <2>4, <2>5 DEF TypeOK
<1>7. \A p \in Procs : TurnOK(p)
  BY NoAnchorOK DEF Init, TurnOK, NoTurn
<1>8. MutationsOK
  BY DEF Init, MutationsOK
<1> QED
  BY <1>5, <1>6, <1>7, <1>8 DEF ChainInv

\* A turn moves on without touching the requests: the anchors it then holds, and the live one,
\* were there before.
LEMMA QuietStep ==
  ASSUME ChainInv, NEW p \in Procs, NEW x \in TurnState,
         turn' = [turn EXCEPT ![p] = x], UNCHANGED approval,
         AnchorOK(x.snap), AnchorOK(x.next),
         x.pc = "checked" => x.what \in Steps /\ x.snap.status = Step[x.what].from,
         anchor' \in Anchor, AnchorOK(anchor'),
         x.pc \notin {"decided", "denied"}, lock' = (IF lock = p THEN None ELSE lock),
         closed' \in BOOLEAN, torn' \subseteq Ids, change' \in ChangeRow,
         acted' \in [Steps -> Nat], overlaps' \in 0..MaxOverlaps, crashes' \in 0..MaxCrashes,
         errors' \in 0..MaxErrors,
         \A s \in Steps : acted'[s] > 0 =>
            acted[s] > 0 \/ \A g \in Passed(Step[s].from) : GateGranted(g)
  PROVE  ChainInv' /\ RowsStep
<1>1. RowsStep
  BY DEF RowsStep
<1>2. turn \in [Procs -> TurnState] /\ turn'[p] = x /\ \A q \in Procs : q # p => turn'[q] = turn[q]
  BY DEF ChainInv, TypeOK
<1>3. TypeOK'
  <2>1. ASSUME NEW q \in Procs PROVE (lock' = q <=> turn'[q].pc \in {"decided", "denied"})
    BY <1>2, ChainAssumption DEF ChainInv, TypeOK, Procs
  <2>2. lock' \in Procs \cup {None} /\ turn' \in [Procs -> TurnState]
    BY <1>2 DEF ChainInv, TypeOK
  <2> QED
    BY <2>1, <2>2 DEF ChainInv, TypeOK
<1>4. \A g \in Gates : GateGranted(g)' <=> GateGranted(g)
  BY DEF GateGranted, Ids
<1>5. AnchorOK(anchor)'
  BY <1>4 DEF AnchorOK, Passed
<1>6. TurnOK(p)'
  BY <1>2, <1>4 DEF TurnOK, AnchorOK, Passed
<1>7. \A s \in Steps : acted'[s] > 0 =>
            acted[s] > 0 \/ \A g \in Passed(Step[s].from) : GateGranted(g)'
  BY <1>4 DEF Passed
<1> QED
  BY <1>1, <1>2, <1>3, <1>5, <1>6, <1>7, Combine

\* The facts about a turn that the steps below start from.
LEMMA TurnFacts ==
  ASSUME ChainInv, NEW p \in Procs
  PROVE  /\ turn[p] \in TurnState /\ turn[p].snap \in Anchor /\ turn[p].next \in Anchor
         /\ AnchorOK(turn[p].snap) /\ AnchorOK(turn[p].next)
         /\ anchor \in Anchor /\ AnchorOK(anchor)
         /\ NoAnchor \in Anchor /\ AnchorOK(NoAnchor) /\ NoTurn \in TurnState
         /\ NoTurn.snap = NoAnchor /\ NoTurn.next = NoAnchor /\ NoTurn.pc = "idle"
         /\ turn[p].pc \notin {"decided", "denied"} => lock # p
BY NoAnchorOK, NoTurnType DEF ChainInv, TypeOK, TurnOK, TurnState, NoTurn

LEMMA ReceiveInv ==
  ASSUME ChainInv, NEW t \in Turns, Receive(t)
  PROVE  ChainInv' /\ RowsStep
<1> DEFINE x == [pc |-> "routed", snap |-> anchor, what |-> "none", id |-> None, next |-> NoAnchor]
<1>1. t \in Procs
  BY DEF Procs
<1>2. x \in TurnState /\ turn' = [turn EXCEPT ![t] = x] /\ x.snap = anchor /\ x.next = NoAnchor /\ x.pc = "routed"
  BY <1>1, TurnFacts DEF Receive, Set, TurnState
<1>3. overlaps' \in 0..MaxOverlaps
  BY ChainAssumption DEF Receive, ChainInv, TypeOK
<1>4. UNCHANGED <<anchor, closed, approval, change, lock, acted, torn, crashes, errors>> /\ lock # t
  BY <1>1, TurnFacts DEF Receive
<1> HIDE DEF x
<1> QED
  BY <1>1, <1>2, <1>3, <1>4, TurnFacts, QuietStep DEF ChainInv, TypeOK

LEMMA GiveUpInv ==
  ASSUME ChainInv, NEW t \in Turns, GiveUp(t)
  PROVE  ChainInv' /\ RowsStep
<1>1. t \in Procs
  BY DEF Procs
<1>2. UNCHANGED <<anchor, closed, approval, change, lock, acted, torn, overlaps, crashes, errors>> /\ lock # t
  BY <1>1, TurnFacts DEF GiveUp
<1> QED
  BY <1>1, <1>2, TurnFacts, QuietStep DEF ChainInv, TypeOK, GiveUp, Idle

LEMMA WriteAnchorInv ==
  ASSUME ChainInv, NEW t \in Turns, WriteAnchor(t)
  PROVE  ChainInv' /\ RowsStep
<1>1. t \in Procs
  BY DEF Procs
<1>2. UNCHANGED <<closed, approval, change, lock, acted, torn, overlaps, crashes, errors>> /\ lock # t
  BY <1>1, TurnFacts DEF WriteAnchor
<1>3. anchor' \in Anchor /\ AnchorOK(anchor')
  BY <1>1, TurnFacts DEF WriteAnchor
<1> QED
  BY <1>1, <1>2, <1>3, TurnFacts, QuietStep DEF ChainInv, TypeOK, WriteAnchor, Idle

LEMMA DiscardInv ==
  ASSUME ChainInv, NEW t \in Turns, Discard(t)
  PROVE  ChainInv' /\ RowsStep
<1>1. t \in Procs
  BY DEF Procs
<1>2. UNCHANGED <<closed, approval, change, lock, acted, torn, overlaps, crashes, errors>> /\ lock # t
  BY <1>1, TurnFacts DEF Discard
<1>3. anchor' \in Anchor /\ AnchorOK(anchor')
  BY <1>1, TurnFacts DEF Discard
<1> QED
  BY <1>1, <1>2, <1>3, TurnFacts, QuietStep DEF ChainInv, TypeOK, Discard, Idle

LEMMA AnchorDecisionInv ==
  ASSUME ChainInv, NEW p \in Procs, AnchorDecision(p)
  PROVE  ChainInv' /\ RowsStep
<1>1. UNCHANGED <<closed, approval, change, acted, torn, overlaps, crashes, errors>> /\ lock = p /\ lock' = None
  BY DEF AnchorDecision, ChainInv, TypeOK
<1>2. anchor' \in Anchor /\ AnchorOK(anchor')
  BY TurnFacts DEF AnchorDecision
<1> QED
  BY <1>1, <1>2, TurnFacts, QuietStep DEF ChainInv, TypeOK, AnchorDecision, Idle

LEMMA FinishChangeInv ==
  ASSUME ChainInv, NEW t \in Turns, FinishChange(t)
  PROVE  ChainInv' /\ RowsStep
<1> DEFINE x == [turn[t] EXCEPT !.pc = "write"]
<1>1. t \in Procs
  BY DEF Procs
<1>2. x \in TurnState /\ turn' = [turn EXCEPT ![t] = x] /\ x.snap = turn[t].snap
      /\ x.next = turn[t].next /\ x.pc = "write"
  BY <1>1, TurnFacts DEF FinishChange, TurnState
<1>3. UNCHANGED <<anchor, closed, approval, lock, acted, torn, overlaps, crashes, errors>> /\ lock # t
      /\ change' \in ChangeRow
  BY <1>1, TurnFacts DEF FinishChange, ChainInv, TypeOK, ChangeRow
<1> HIDE DEF x
<1> QED
  BY <1>1, <1>2, <1>3, TurnFacts, QuietStep DEF ChainInv, TypeOK

LEMMA CheckInv ==
  ASSUME ChainInv, NEW t \in Turns, NEW s \in Steps, Check(t, s)
  PROVE  ChainInv' /\ RowsStep
<1> DEFINE a == turn[t].snap
           to == [a EXCEPT !.status = Step[s].to, !.mergeCommit = @ /\ s # "merge"]
<1>1. t \in Procs
  BY DEF Procs
<1>2. a \in Anchor /\ AnchorOK(a) /\ a.status = Step[s].from
  BY <1>1, TurnFacts DEF Check
<1>3. to \in Anchor /\ to.status = Step[s].to
  BY <1>2, StepTable DEF Anchor
<1>4. AnchorOK(to)
  BY <1>2, <1>3, StepTable DEF AnchorOK
<1> HIDE DEF to
<1>5. PICK pc \in {"write", "checked"}, what \in {"reuse", s} :
        /\ turn' = [turn EXCEPT ![t] =
                      [pc |-> pc, snap |-> a, what |-> what, id |-> a.id, next |-> to]]
        /\ pc = "checked" => what = s
  BY DEF Check, Set, to
<1> DEFINE x == [pc |-> pc, snap |-> a, what |-> what, id |-> a.id, next |-> to]
<1>6. a.id \in Ids \cup {None}
  BY <1>2 DEF Anchor
<1>7. /\ x \in TurnState /\ x.snap = a /\ x.next = to /\ x.pc \notin {"decided", "denied"}
      /\ x.pc = "checked" => x.what \in Steps /\ x.snap.status = Step[x.what].from
  BY <1>2, <1>3, <1>5, <1>6 DEF TurnState
<1>8. /\ UNCHANGED <<anchor, closed, approval, lock, acted, torn, overlaps, crashes, errors>>
      /\ lock # t
      /\ change' \in ChangeRow
  BY <1>1, TurnFacts DEF Check, Begin, ChainInv, TypeOK, ChangeRow
<1> HIDE DEF x, a
<1>9. turn' = [turn EXCEPT ![t] = x]
  BY <1>5 DEF x
<1> QED
  BY <1>1, <1>2, <1>4, <1>7, <1>8, <1>9, TurnFacts, QuietStep DEF ChainInv, TypeOK

LEMMA ActInv ==
  ASSUME ChainInv, NEW t \in Turns, Act(t)
  PROVE  ChainInv' /\ RowsStep
<1> DEFINE s == turn[t].what
           to == Recorded(turn[t].next, s)
           x == [pc |-> IF s = "write" THEN "applied" ELSE "write", snap |-> turn[t].snap,
                 what |-> s, id |-> turn[t].id, next |-> to]
<1>1. t \in Procs
  BY DEF Procs
<1>2. s \in Steps /\ turn[t].snap.status = Step[s].from /\ \A g \in Passed(Step[s].from) : GateGranted(g)
  BY <1>1 DEF Act, ChainInv, TurnOK, AnchorOK
<1>3. to \in Anchor /\ to.status = turn[t].next.status /\ to.id = turn[t].next.id
  BY <1>1, TurnFacts DEF Recorded, Anchor
<1>4. AnchorOK(to)
  BY <1>1, <1>3, TurnFacts DEF AnchorOK
<1>5. turn' = [turn EXCEPT ![t] = x]
  BY DEF Act, Set
<1>6. turn[t].id \in Ids \cup {None}
  BY <1>1, TurnFacts DEF TurnState
<1> HIDE DEF to
<1>7. x \in TurnState /\ x.snap = turn[t].snap /\ x.next = to /\ x.pc \in {"applied", "write"}
  BY <1>1, <1>2, <1>3, <1>6, TurnFacts DEF TurnState
<1>8. /\ UNCHANGED <<anchor, closed, approval, change, lock, torn, overlaps, crashes, errors>>
      /\ lock # t
  BY <1>1, TurnFacts DEF Act
<1>9. acted' \in [Steps -> Nat] /\ \A r \in Steps : r # s => acted'[r] = acted[r]
  <2>1. acted \in [Steps -> Nat] /\ acted[s] + 1 \in Nat
    BY <1>2 DEF ChainInv, TypeOK
  <2>2. acted' = [acted EXCEPT ![s] = 1] \/ acted' = [acted EXCEPT ![s] = acted[s] + 1]
    BY <1>2, <2>1 DEF Act
  <2> QED
    BY <2>1, <2>2
<1>10. \A r \in Steps : acted'[r] > 0 =>
            acted[r] > 0 \/ \A g \in Passed(Step[r].from) : GateGranted(g)
  BY <1>2, <1>9
<1> HIDE DEF x, s
<1> QED
  BY <1>1, <1>4, <1>5, <1>7, <1>8, <1>9, <1>10, TurnFacts, QuietStep DEF ChainInv, TypeOK

LEMMA ActFailsInv ==
  ASSUME ChainInv, NEW t \in Turns, ActFails(t)
  PROVE  ChainInv' /\ RowsStep
<1> DEFINE s == turn[t].what
<1>1. t \in Procs
  BY DEF Procs
<1>2. s \in Steps /\ \A g \in Passed(Step[s].from) : GateGranted(g)
  BY <1>1 DEF ActFails, ChainInv, TurnOK, AnchorOK
<1>3. /\ UNCHANGED <<anchor, closed, approval, lock, torn, overlaps, crashes>>
      /\ lock # t
      /\ errors' \in 0..MaxErrors
  BY <1>1, TurnFacts, ChainAssumption DEF ActFails, ChainInv, TypeOK
<1>6. change' \in ChangeRow
  <2>1. change \in ChangeRow
    BY DEF ChainInv, TypeOK
  <2>2. PICK mutated \in BOOLEAN :
          (\E status \in FailedChange(mutated) : change' = [change EXCEPT !.status = status]) \/ change' = change
    BY DEF ActFails
  <2>3. \A status \in FailedChange(mutated) :
          status \in {"APPLYING", "PARTIALLY_APPLIED", "ROLLED_BACK", "FAILED"}
    BY DEF FailedChange
  <2> QED
    BY <2>1, <2>2, <2>3 DEF ChangeRow
<1>4. acted' \in [Steps -> Nat] /\ \A r \in Steps : r # s => acted'[r] = acted[r]
  <2>1. acted \in [Steps -> Nat]
    BY DEF ChainInv, TypeOK
  <2>2. acted' = [acted EXCEPT ![s] = 1] \/ acted' = acted
    BY DEF ActFails
  <2> QED
    BY <1>2, <2>1, <2>2
<1>5. \A r \in Steps : acted'[r] > 0 =>
            acted[r] > 0 \/ \A g \in Passed(Step[r].from) : GateGranted(g)
  BY <1>2, <1>4
<1> HIDE DEF s
<1> QED
  BY <1>1, <1>3, <1>4, <1>5, <1>6, TurnFacts, QuietStep DEF ChainInv, TypeOK, ActFails, Idle

----------------------------------------------------------------------------
(* The steps that change a request *)

\* A row that was not asked for yet, or not decided, moves on: everything else stays.
LEMMA RowChange ==
  ASSUME ChainInv, NEW i \in Ids, NEW row \in [gate : Gates, status : ApprovalStatus],
         approval' = [approval EXCEPT ![i] = row],
         <<approval[i].status, row.status>> \in
           {<<"none", "PENDING">>, <<"PENDING", "LATE">>, <<"PENDING", "APPROVED">>,
            <<"PENDING", "REJECTED">>, <<"LATE", "REJECTED">>},
         approval[i].status # "none" => row.gate = approval[i].gate
  PROVE  /\ RowsStep /\ approval' \in [Ids -> [gate : Gates, status : ApprovalStatus]]
         /\ approval'[i] = row
<1>1. approval \in [Ids -> [gate : Gates, status : ApprovalStatus]]
  BY DEF ChainInv, TypeOK
<1>2. approval'[i] = row /\ \A j \in Ids : j # i => approval'[j] = approval[j]
  BY <1>1
<1> QED
  BY <1>1, <1>2 DEF RowsStep, RowStep

\* A process decides or asks: it takes over `x', whose anchors are right in the next state.
LEMMA RowStepInv ==
  ASSUME ChainInv, RowsStep, approval' \in [Ids -> [gate : Gates, status : ApprovalStatus]],
         NEW p \in Procs, NEW x \in TurnState, turn' = [turn EXCEPT ![p] = x],
         StaysOK(x.snap), StaysOK(x.next), x.pc # "checked",
         lock' = (IF x.pc \in {"decided", "denied"} THEN p ELSE lock),
         turn[p].pc \notin {"decided", "denied"}, x.pc \in {"decided", "denied"} => lock = None, closed' \in BOOLEAN,
         UNCHANGED <<anchor, change, acted, torn, overlaps, crashes, errors>>
  PROVE  ChainInv'
<1>1. turn \in [Procs -> TurnState] /\ turn'[p] = x /\ \A q \in Procs : q # p => turn'[q] = turn[q]
  BY DEF ChainInv, TypeOK
<1>2. TypeOK'
  <2>1. ASSUME NEW q \in Procs PROVE (lock' = q <=> turn'[q].pc \in {"decided", "denied"})
    <3>1. (lock = q <=> turn[q].pc \in {"decided", "denied"}) /\ (lock = p <=> turn[p].pc \in {"decided", "denied"})
          /\ None # q
      BY ChainAssumption DEF ChainInv, TypeOK, Procs
    <3> QED
      BY <1>1, <3>1
  <2>2. lock' \in Procs \cup {None} /\ turn' \in [Procs -> TurnState]
    BY <1>1 DEF ChainInv, TypeOK
  <2> QED
    BY <2>1, <2>2 DEF ChainInv, TypeOK
<1>3. AnchorOK(anchor)'
  <2>1. anchor \in Anchor /\ AnchorOK(anchor)
    BY DEF ChainInv, TypeOK
  <2>2. StaysOK(anchor)
    BY <2>1, StableAnchor DEF ChainInv
  <2> QED
    BY <2>2 DEF StaysOK, AnchorOK
<1>4. TurnOK(p)'
  <2>1. AnchorOK(turn[p].snap)' /\ AnchorOK(turn[p].next)'
    BY <1>1 DEF StaysOK, AnchorOK
  <2> QED
    BY <1>1, <2>1 DEF TurnOK
<1> QED
  BY <1>1, <1>2, <1>3, <1>4, Combine

\* Copies that were right stay right.
LEMMA CopiesStay ==
  ASSUME ChainInv, RowsStep, NEW p \in Procs
  PROVE  StaysOK(turn[p].snap) /\ StaysOK(turn[p].next) /\ StaysOK(anchor) /\ StaysOK(NoAnchor)
<1>1. /\ AnchorOK(turn[p].snap) /\ AnchorOK(turn[p].next) /\ AnchorOK(anchor) /\ AnchorOK(NoAnchor)
      /\ turn[p].snap \in Anchor /\ turn[p].next \in Anchor /\ anchor \in Anchor /\ NoAnchor \in Anchor
  BY TurnFacts
<1>2. \A a \in Anchor : AnchorOK(a) => StaysOK(a)
  BY StableAnchor DEF ChainInv
<1> QED
  BY <1>1, <1>2

LEMMA RequestInv ==
  ASSUME ChainInv, NEW t \in Turns, NEW g \in Gates, Request(t, g)
  PROVE  ChainInv' /\ RowsStep
<1> DEFINE a == turn[t].snap
<1>1. t \in Procs
  BY DEF Procs
<1>2. PICK i \in Ids :
        /\ \A j \in Ids : approval[j].status = "none" <=> j >= i
        /\ approval' = [approval EXCEPT ![i] = [gate |-> g, status |-> "PENDING"]]
        /\ Set(t, "write", a, "request", i, [a EXCEPT !.status = Asked[g].pending, !.id = i])
  BY DEF Request
<1> DEFINE to == [a EXCEPT !.status = Asked[g].pending, !.id = i]
           x == [pc |-> "write", snap |-> a, what |-> "request", id |-> i, next |-> to]
<1>3. a \in Anchor /\ AnchorOK(a) /\ a.status = Asked[g].from /\ turn[t].pc = "routed"
  BY <1>1, TurnFacts DEF Request
<1>4. approval[i].status = "none"
  BY <1>2 DEF Ids
<1>5. /\ RowsStep /\ approval' \in [Ids -> [gate : Gates, status : ApprovalStatus]]
      /\ approval'[i] = [gate |-> g, status |-> "PENDING"]
  <2> DEFINE row == [gate |-> g, status |-> "PENDING"]
  <2>1. row \in [gate : Gates, status : ApprovalStatus] /\ row.status = "PENDING"
    BY DEF ApprovalStatus
  <2> HIDE DEF row
  <2>2. approval' = [approval EXCEPT ![i] = row]
    BY <1>2 DEF row
  <2>3. approval'[i] = row /\ RowsStep /\ approval' \in [Ids -> [gate : Gates, status : ApprovalStatus]]
    BY <1>4, <2>1, <2>2, RowChange
  <2> QED
    BY <2>3 DEF row
<1>6. to \in Anchor /\ to.status = Asked[g].pending /\ to.id = i
  BY <1>3, GateNames DEF Anchor
<1>7. StaysOK(a)
  BY <1>1, <1>5, CopiesStay
<1>8. StaysOK(to)
  <2>1. \A h \in Passed(to.status) : GateGranted(h)'
    BY <1>3, <1>6, <1>7, GateTable DEF StaysOK
  <2>2. GateAt(to.status) = {g}
    BY <1>6, GateNames
  <2> QED
    BY <1>5, <1>6, <2>1, <2>2 DEF StaysOK
<1>9. turn' = [turn EXCEPT ![t] = x]
  BY <1>2 DEF Set
<1> HIDE DEF to
<1>10. x \in TurnState /\ x.snap = a /\ x.next = to /\ x.pc = "write"
  BY <1>3, <1>6 DEF TurnState
<1>11. UNCHANGED <<anchor, closed, change, lock, acted, torn, overlaps, crashes, errors>> /\ closed' \in BOOLEAN
  BY DEF Request, ChainInv, TypeOK
<1> HIDE DEF a, x
<1> QED
  BY <1>1, <1>3, <1>5, <1>7, <1>8, <1>9, <1>10, <1>11, RowStepInv

\* What is decided is the request the anchor names, and the anchor that follows has passed
\* that gate only if it is granted.
LEMMA RecordDecisionInv ==
  ASSUME ChainInv, NEW p \in Procs, NEW a \in Anchor, AnchorOK(a), NEW approve \in BOOLEAN,
         lock = None, RecordDecision(p, a, approve)
  PROVE  ChainInv' /\ RowsStep
<1>1. PICK g \in GateAt(a.status) :
        /\ Pending(a.id)
        /\ LET granted == approve /\ approval[a.id].status = "PENDING" IN
           /\ approval' = [approval EXCEPT ![a.id].status = IF granted THEN "APPROVED" ELSE "REJECTED"]
           /\ Set(p, "decided", a, IF granted THEN "approve" ELSE "reject", a.id,
                  IF granted THEN [a EXCEPT !.status = Decided[g].approved] ELSE Rejected(a, g))
        /\ lock' = p
        /\ UNCHANGED <<anchor, closed, change, acted, torn, overlaps, crashes, errors>>
  BY DEF RecordDecision
<1> DEFINE granted == approve /\ approval[a.id].status = "PENDING"
           outcome == IF granted THEN "APPROVED" ELSE "REJECTED"
           row == [approval[a.id] EXCEPT !.status = outcome]
           to == IF granted THEN [a EXCEPT !.status = Decided[g].approved] ELSE Rejected(a, g)
           x == [pc |-> "decided", snap |-> a, what |-> IF granted THEN "approve" ELSE "reject",
                 id |-> a.id, next |-> to]
<1>2. g \in Gates /\ a.status = Asked[g].pending /\ a.id \in Ids /\ approval[a.id].gate = g
  BY DEF GateAt, AnchorOK
<1>3. approval[a.id] \in [gate : Gates, status : ApprovalStatus]
  BY <1>2 DEF ChainInv, TypeOK
<1>4. row \in [gate : Gates, status : ApprovalStatus] /\ row.status = outcome /\ row.gate = g
  BY <1>2, <1>3 DEF ApprovalStatus
<1>5. <<approval[a.id].status, outcome>> \in
           {<<"PENDING", "APPROVED">>, <<"PENDING", "REJECTED">>, <<"LATE", "REJECTED">>}
  BY <1>1 DEF Pending
<1>6. approval' = [approval EXCEPT ![a.id] = row]
  BY <1>1, <1>2, <1>3 DEF ChainInv, TypeOK
<1> HIDE DEF row
<1>7. RowsStep /\ approval' \in [Ids -> [gate : Gates, status : ApprovalStatus]] /\ approval'[a.id] = row
  BY <1>2, <1>4, <1>5, <1>6, RowChange
<1>8. StaysOK(a)
  BY <1>7, StableAnchor DEF ChainInv
<1>9. to \in Anchor /\ StaysOK(to)
  <2>1. CASE granted
    <3>1. to \in Anchor /\ to.status = Decided[g].approved
      BY <1>2, <2>1, GateNames DEF Anchor
    <3>2. GateGranted(g)'
      <4>1. approval'[a.id] = [gate |-> g, status |-> "APPROVED"]
        BY <1>2, <1>3, <1>7, <2>1 DEF row
      <4> QED
        BY <1>2, <4>1 DEF GateGranted, Ids
    <3>3. \A h \in Passed(to.status) : GateGranted(h)'
      BY <1>2, <1>8, <3>1, <3>2, GateTable DEF StaysOK
    <3> QED
      BY <1>2, <3>1, <3>3, GateNames DEF StaysOK
  <2>2. CASE ~granted /\ Decided[g].rejected = "none"
    BY <1>7, <2>2, CopiesStay, NoAnchorOK DEF Rejected
  <2>3. CASE ~granted /\ Decided[g].rejected # "none"
    <3>1. to \in Anchor /\ to.status = Decided[g].rejected
      BY <1>2, <2>3, GateNames DEF Anchor, Rejected
    <3>2. \A h \in Passed(to.status) : GateGranted(h)'
      BY <1>2, <1>8, <3>1, GateTable DEF StaysOK
    <3> QED
      BY <1>2, <3>1, <3>2, GateNames DEF StaysOK
  <2> QED
    BY <2>1, <2>2, <2>3
<1>10. turn' = [turn EXCEPT ![p] = x]
  BY <1>1 DEF Set
<1> HIDE DEF to
<1>11. x \in TurnState /\ x.snap = a /\ x.next = to /\ x.pc = "decided"
  BY <1>2, <1>9 DEF TurnState
<1>12. turn[p].pc \notin {"decided", "denied"} /\ closed' \in BOOLEAN
  BY <1>1, ChainAssumption DEF ChainInv, TypeOK, Procs
<1> HIDE DEF x
<1> QED
  BY <1>1, <1>7, <1>8, <1>9, <1>10, <1>11, <1>12, RowStepInv

LEMMA DecideInv ==
  ASSUME ChainInv, NEW t \in Turns, Decide(t)
  PROVE  ChainInv' /\ RowsStep
<1>1. t \in Procs
  BY DEF Procs
<1> QED
  BY <1>1, TurnFacts, RecordDecisionInv DEF Decide

LEMMA UiDecideInv ==
  ASSUME ChainInv, UiDecide
  PROVE  ChainInv' /\ RowsStep
<1>1. Ui \in Procs
  BY DEF Procs
<1> QED
  BY <1>1, TurnFacts, RecordDecisionInv DEF UiDecide

LEMMA ResetDenyInv ==
  ASSUME ChainInv, NEW t \in Turns, ResetDeny(t)
  PROVE  ChainInv' /\ RowsStep
<1> DEFINE a == turn[t].snap
<1>1. t \in Procs
  BY DEF Procs
<1>2. /\ RowsStep /\ approval' \in [Ids -> [gate : Gates, status : ApprovalStatus]]
  <2>1. CASE Waits(a) /\ Pending(a.id)
    <3> DEFINE row == [approval[a.id] EXCEPT !.status = "REJECTED"]
    <3>1. a.id \in Ids
      BY <1>1, <2>1, TurnFacts DEF Waits, AnchorOK
    <3>2. approval[a.id] \in [gate : Gates, status : ApprovalStatus] /\ approval' = [approval EXCEPT ![a.id] = row]
      BY <2>1, <3>1 DEF ResetDeny, ChainInv, TypeOK
    <3>3. row \in [gate : Gates, status : ApprovalStatus] /\ row.status = "REJECTED"
          /\ row.gate = approval[a.id].gate
      BY <3>2 DEF ApprovalStatus
    <3>4. approval[a.id].status \in {"PENDING", "LATE"}
      BY <2>1 DEF Pending
    <3> HIDE DEF row, a
    <3> QED
      BY <3>1, <3>2, <3>3, <3>4, RowChange
  <2>2. CASE ~(Waits(a) /\ Pending(a.id))
    BY <2>2 DEF ResetDeny, RowsStep, ChainInv, TypeOK
  <2> QED
    BY <2>1, <2>2
<1>3. PICK what \in {"reject", "none"}, id \in Ids \cup {None} :
        turn' = [turn EXCEPT ![t] =
                   [pc |-> "denied", snap |-> a, what |-> what, id |-> id, next |-> NoAnchor]]
  BY <1>1, TurnFacts DEF ResetDeny, Set, Anchor
<1> DEFINE x == [pc |-> "denied", snap |-> a, what |-> what, id |-> id, next |-> NoAnchor]
<1>4. x \in TurnState /\ x.snap = a /\ x.next = NoAnchor /\ x.pc = "denied"
  BY <1>1, TurnFacts DEF TurnState
<1>5. /\ UNCHANGED <<anchor, closed, change, acted, torn, overlaps, crashes, errors>>
      /\ closed' \in BOOLEAN /\ turn[t].pc = "routed" /\ lock = None /\ lock' = t
  BY DEF ResetDeny, ChainInv, TypeOK
<1>6. StaysOK(a) /\ StaysOK(NoAnchor)
  BY <1>1, <1>2, CopiesStay
<1> HIDE DEF x, a
<1>7. turn' = [turn EXCEPT ![t] = x]
  BY <1>3 DEF x
<1> QED
  BY <1>1, <1>2, <1>4, <1>5, <1>6, <1>7, RowStepInv

LEMMA ResetCloseInv ==
  ASSUME ChainInv, NEW t \in Turns, ResetClose(t)
  PROVE  ChainInv' /\ RowsStep
<1>1. t \in Procs
  BY DEF Procs
<1>2. /\ UNCHANGED <<anchor, approval, change, acted, torn, overlaps, crashes, errors>>
      /\ closed' \in BOOLEAN /\ lock = t /\ lock' = None
  BY <1>1 DEF ResetClose, ChainInv, TypeOK
<1> QED
  BY <1>1, <1>2, TurnFacts, QuietStep DEF ChainInv, TypeOK, ResetClose, Idle

LEMMA StoreFailsInv ==
  ASSUME ChainInv, NEW p \in Procs, StoreFails(p)
  PROVE  ChainInv' /\ RowsStep
<1>1. /\ UNCHANGED <<anchor, closed, approval, change, acted, overlaps, crashes>>
      /\ errors' \in 0..MaxErrors /\ lock' = (IF lock = p THEN None ELSE lock)
  BY ChainAssumption DEF StoreFails, ChainInv, TypeOK
<1>2. torn' \subseteq Ids
  BY DEF StoreFails, Unfollowed, ChainInv, TypeOK
<1> QED
  BY <1>1, <1>2, TurnFacts, QuietStep DEF ChainInv, TypeOK, StoreFails, Idle

\* GIT_PUSHED has fewer gates behind it than PR_APPROVED, and waits for nothing.
LEMMA ReleasedTable ==
  /\ "GIT_PUSHED" \in Statuses /\ GateAt("GIT_PUSHED") = {}
  /\ Passed("GIT_PUSHED") \subseteq Passed("PR_APPROVED") /\ PrStep.from = "PR_APPROVED"
<1>1. Stage["GIT_PUSHED"] = 11 /\ Stage["PR_APPROVED"] = 13
  BY DEF Stage
<1>2. GateAt("GIT_PUSHED") = {}
  BY DEF GateAt, Gates, Asked, ApplyAsked, CommitAsked, PushAsked, PrAsked, MergeAsked, CleanupAsked
<1>3. Passed("GIT_PUSHED") \subseteq Passed("PR_APPROVED")
  BY <1>1, DecidedStages DEF Passed, Gates
<1> QED
  BY <1>2, <1>3, TableNames DEF PrStep

LEMMA ReleasePrInv ==
  ASSUME ChainInv, NEW t \in Turns, ReleasePr(t)
  PROVE  ChainInv' /\ RowsStep
<1> DEFINE a == turn[t].snap
           to == [a EXCEPT !.status = "GIT_PUSHED", !.id = None]
           x == [pc |-> "write", snap |-> a, what |-> "none", id |-> None, next |-> to]
<1>1. t \in Procs
  BY DEF Procs
<1>2. a \in Anchor /\ AnchorOK(a) /\ a.status = "PR_APPROVED"
  BY <1>1, TurnFacts, ReleasedTable DEF ReleasePr
<1>3. to \in Anchor /\ to.status = "GIT_PUSHED"
  BY <1>2, ReleasedTable DEF Anchor
<1>4. AnchorOK(to)
  BY <1>2, <1>3, ReleasedTable DEF AnchorOK
<1>5. turn' = [turn EXCEPT ![t] = x]
  BY DEF ReleasePr, Set
<1> HIDE DEF to
<1>6. x \in TurnState /\ x.snap = a /\ x.next = to /\ x.pc = "write"
  BY <1>2, <1>3 DEF TurnState
<1>7. /\ UNCHANGED <<anchor, closed, approval, change, lock, acted, torn, overlaps, crashes>>
      /\ lock # t /\ errors' \in 0..MaxErrors
  BY <1>1, TurnFacts, ChainAssumption DEF ReleasePr, ChainInv, TypeOK
<1> HIDE DEF x, a
<1> QED
  BY <1>1, <1>2, <1>4, <1>5, <1>6, <1>7, TurnFacts, QuietStep DEF ChainInv, TypeOK

LEMMA DeadlineInv ==
  ASSUME ChainInv, NEW i \in Ids, Deadline(i)
  PROVE  ChainInv' /\ RowsStep
<1> DEFINE row == [approval[i] EXCEPT !.status = "LATE"]
<1>1. approval[i] \in [gate : Gates, status : ApprovalStatus] /\ approval' = [approval EXCEPT ![i] = row]
  BY DEF Deadline, ChainInv, TypeOK
<1>2. row \in [gate : Gates, status : ApprovalStatus] /\ row.status = "LATE" /\ row.gate = approval[i].gate
  BY <1>1 DEF ApprovalStatus
<1>3. approval[i].status = "PENDING"
  BY DEF Deadline
<1> HIDE DEF row
<1>4. RowsStep /\ approval' \in [Ids -> [gate : Gates, status : ApprovalStatus]]
  BY <1>1, <1>2, <1>3, RowChange
<1>5. Ui \in Procs /\ UNCHANGED <<anchor, closed, change, lock, turn, acted, torn, overlaps, crashes, errors>>
  BY DEF Procs, Deadline
<1>6. TypeOK'
  BY <1>4, <1>5 DEF ChainInv, TypeOK
<1>7. AnchorOK(anchor)' /\ TurnOK(Ui)'
  <2>1. StaysOK(turn[Ui].snap) /\ StaysOK(turn[Ui].next) /\ StaysOK(anchor)
    BY <1>4, <1>5, CopiesStay
  <2>2. AnchorOK(anchor)' /\ AnchorOK(turn[Ui].snap)' /\ AnchorOK(turn[Ui].next)'
    BY <1>5, <2>1 DEF StaysOK, AnchorOK
  <2> QED
    BY <1>5, <2>2 DEF ChainInv, TurnOK
<1> QED
  BY <1>4, <1>5, <1>6, <1>7, Combine

LEMMA CrashInv ==
  ASSUME ChainInv, Crash
  PROVE  ChainInv' /\ RowsStep
<1>1. RowsStep
  BY DEF Crash, RowsStep
<1>2. /\ \A p \in Procs : turn'[p] = NoTurn
      /\ lock' = None /\ UNCHANGED <<anchor, closed, approval, change, acted, overlaps, errors>>
  BY DEF Crash
<1>3. TypeOK'
  <2>1. turn' \in [Procs -> TurnState]
    BY NoTurnType DEF Crash
  <2>2. \A p \in Procs : lock' = p <=> turn'[p].pc \in {"decided", "denied"}
    BY <1>2, ChainAssumption DEF NoTurn, Procs
  <2>3. torn' \subseteq Ids
    BY DEF Crash, Unfollowed, ChainInv, TypeOK
  <2>4. crashes' \in 0..MaxCrashes
    BY ChainAssumption DEF Crash, ChainInv, TypeOK
  <2> QED
    BY <1>2, <2>1, <2>2, <2>3, <2>4 DEF ChainInv, TypeOK
<1>4. \A g : GateGranted(g)' <=> GateGranted(g)
  BY <1>2 DEF GateGranted, Ids
<1>5. AnchorOK(anchor)'
  BY <1>2, <1>4 DEF ChainInv, AnchorOK
<1>6. \A p \in Procs : TurnOK(p)'
  BY <1>2, <1>4, NoAnchorOK DEF TurnOK, NoTurn, AnchorOK
<1>7. MutationsOK'
  BY <1>2, <1>4 DEF ChainInv, MutationsOK
<1> QED
  BY <1>1, <1>3, <1>5, <1>6, <1>7 DEF ChainInv

LEMMA NextInv ==
  ASSUME ChainInv, [Next]_vars
  PROVE  ChainInv' /\ RowsStep
<1>1. CASE Next
  BY <1>1, ReceiveInv, GiveUpInv, WriteAnchorInv, DiscardInv, DecideInv, ResetDenyInv, ResetCloseInv,
     RequestInv, ReleasePrInv, StoreFailsInv, CheckInv, ActInv, ActFailsInv, FinishChangeInv, UiDecideInv, AnchorDecisionInv, DeadlineInv,
     CrashInv DEF Next, TurnStep
<1>2. CASE UNCHANGED vars
  <2>1. RowsStep /\ (\A g : GateGranted(g)' <=> GateGranted(g)) /\ TypeOK'
    BY <1>2 DEF vars, RowsStep, GateGranted, Ids, ChainInv, TypeOK
  <2>2. AnchorOK(anchor)' /\ MutationsOK'
    BY <1>2, <2>1 DEF vars, ChainInv, AnchorOK, MutationsOK
  <2>3. \A p \in Procs : TurnOK(p)'
    BY <1>2, <2>1 DEF vars, ChainInv, TurnOK, AnchorOK
  <2> QED
    BY <2>1, <2>2, <2>3 DEF ChainInv
<1> QED
  BY <1>1, <1>2

----------------------------------------------------------------------------
(* Which anchors wait for which request *)

\* Two anchors that wait for the same request.
Same(a, b) == Waits(a) /\ Waits(b) /\ a.id = b.id

\* An anchor that waits and is not written yet is nobody else's, and its request is open.
FreshInv ==
  \A p \in Procs : Waits(turn[p].next) =>
    /\ turn[p].pc = "write" /\ Pending(turn[p].next.id)
    /\ ~Same(anchor, turn[p].next)
    /\ \A q \in Procs : ~Same(turn[q].snap, turn[p].next)
    /\ \A q \in Procs : q # p => ~Same(turn[q].next, turn[p].next)

\* Of the others there is one for each request.
OneAnchorInv ==
  /\ \A p \in Procs : Same(turn[p].snap, anchor) => turn[p].snap = anchor
  /\ \A p, q \in Procs : Same(turn[p].snap, turn[q].snap) => turn[p].snap = turn[q].snap

\* The turn that decided the request of the live anchor has yet to move it or to close.
Following(p) ==
  turn[p].pc \in {"decided", "denied"} /\ turn[p].snap = anchor /\ turn[p].id = anchor.id

\* The anchor waits for a decided request only while its decision is being followed, or when
\* the write that follows it was lost.
FollowedInv ==
  ~closed /\ Waits(anchor) /\ ~Pending(anchor.id) =>
    anchor.id \in torn \/ \E p \in Procs : Following(p)

StrandInv == FreshInv /\ OneAnchorInv /\ FollowedInv

LEMMA NeverWaits ==
  /\ ~Waits(NoAnchor) /\ ~Waits(NoTurn.snap) /\ ~Waits(NoTurn.next)
  /\ \A s \in Steps : \A a : a.status = Step[s].to => ~Waits(a)
<1>1. GateAt("none") = {}
  BY DEF GateAt, Gates, Asked, ApplyAsked, CommitAsked, PushAsked, PrAsked, MergeAsked, CleanupAsked
<1>2. NoAnchor.status = "none" /\ NoTurn.snap = NoAnchor /\ NoTurn.next = NoAnchor
  BY DEF NoAnchor, NoTurn
<1> QED
  BY <1>1, <1>2, StepTable DEF Waits

LEMMA InitStrandInv == Init => StrandInv
<1> SUFFICES ASSUME Init PROVE StrandInv
  OBVIOUS
<1>1. ~Waits(anchor)
  BY DEF Init, NoAnchor, Waits, GateAt, Gates, Asked, ApplyAsked, CommitAsked, PushAsked, PrAsked,
         MergeAsked, CleanupAsked
<1>2. \A p \in Procs : turn[p] = NoTurn
  BY DEF Init
<1> QED
  BY <1>1, <1>2, NeverWaits DEF StrandInv, FreshInv, OneAnchorInv, FollowedInv, Following, Same

\* A turn moves on with a copy it had, the live anchor or none, and nothing new to wait for.
LEMMA QuietStrand ==
  ASSUME ChainInv, StrandInv, NEW p \in Procs, NEW x,
         turn' = [turn EXCEPT ![p] = x], UNCHANGED <<anchor, approval, torn, closed>>,
         x.snap \in {turn[p].snap, anchor, NoAnchor}, ~Waits(x.next), turn[p].pc \notin {"decided", "denied"}
  PROVE  StrandInv'
<1>1. turn'[p] = x /\ \A q \in Procs : q # p => turn'[q] = turn[q]
  BY DEF ChainInv, TypeOK
<1>2. FreshInv'
  BY <1>1, NeverWaits DEF StrandInv, FreshInv, Same, Pending
<1>3. OneAnchorInv'
  BY <1>1, NeverWaits DEF StrandInv, OneAnchorInv, Same
<1>4. FollowedInv'
  BY <1>1 DEF StrandInv, FollowedInv, Following, Pending
<1> QED
  BY <1>2, <1>3, <1>4 DEF StrandInv

LEMMA ReceiveStrand ==
  ASSUME ChainInv, StrandInv, NEW t \in Turns, Receive(t)
  PROVE  StrandInv'
<1> DEFINE x == [pc |-> "routed", snap |-> anchor, what |-> "none", id |-> None, next |-> NoAnchor]
<1>1. t \in Procs
  BY DEF Procs
<1>2. turn' = [turn EXCEPT ![t] = x] /\ x.snap = anchor /\ x.next = NoAnchor
  BY DEF Receive, Set
<1>3. UNCHANGED <<anchor, approval, torn, closed>> /\ turn[t].pc \notin {"decided", "denied"}
  BY DEF Receive
<1> HIDE DEF x
<1> QED
  BY <1>1, <1>2, <1>3, NeverWaits, QuietStrand

LEMMA EndStrand ==
  ASSUME ChainInv, StrandInv, NEW t \in Turns, GiveUp(t) \/ ActFails(t)
  PROVE  StrandInv'
<1>1. t \in Procs
  BY DEF Procs
<1>2. turn' = [turn EXCEPT ![t] = NoTurn] /\ NoTurn.snap = NoAnchor
  BY DEF GiveUp, ActFails, Idle, NoTurn
<1>3. UNCHANGED <<anchor, approval, torn, closed>> /\ turn[t].pc \notin {"decided", "denied"}
  BY DEF GiveUp, ActFails
<1> QED
  BY <1>1, <1>2, <1>3, NeverWaits, QuietStrand

LEMMA CheckStrand ==
  ASSUME ChainInv, StrandInv, NEW t \in Turns, NEW s \in Steps, Check(t, s)
  PROVE  StrandInv'
<1> DEFINE a == turn[t].snap
           to == [a EXCEPT !.status = Step[s].to, !.mergeCommit = @ /\ s # "merge"]
<1>1. t \in Procs
  BY DEF Procs
<1>2. a \in Anchor
  BY <1>1, TurnFacts
<1>3. to.status = Step[s].to
  BY <1>2 DEF Anchor
<1> HIDE DEF to
<1>4. PICK pc \in {"write", "checked"}, what \in {"reuse", s} :
        turn' = [turn EXCEPT ![t] = [pc |-> pc, snap |-> a, what |-> what, id |-> a.id, next |-> to]]
  BY DEF Check, Set, to
<1> DEFINE x == [pc |-> pc, snap |-> a, what |-> what, id |-> a.id, next |-> to]
<1>5. x.snap = turn[t].snap /\ x.next = to
  OBVIOUS
<1>6. UNCHANGED <<anchor, approval, torn, closed>> /\ turn[t].pc \notin {"decided", "denied"}
  BY DEF Check
<1> HIDE DEF x, a
<1>7. turn' = [turn EXCEPT ![t] = x]
  BY <1>4 DEF x
<1> QED
  BY <1>1, <1>3, <1>5, <1>6, <1>7, NeverWaits, QuietStrand

LEMMA ActStrand ==
  ASSUME ChainInv, StrandInv, NEW t \in Turns, Act(t) \/ FinishChange(t)
  PROVE  StrandInv'
<1>1. t \in Procs
  BY DEF Procs
<1>2. ~Waits(turn[t].next) /\ turn[t].pc \notin {"decided", "denied"} /\ UNCHANGED <<anchor, approval, torn, closed>>
  BY <1>1 DEF Act, FinishChange, StrandInv, FreshInv
<1>3. CASE Act(t)
  <2> DEFINE to == Recorded(turn[t].next, turn[t].what)
             x == [pc |-> IF turn[t].what = "write" THEN "applied" ELSE "write",
                   snap |-> turn[t].snap, what |-> turn[t].what, id |-> turn[t].id, next |-> to]
  <2>1. to.status = turn[t].next.status
    BY <1>1, TurnFacts DEF Recorded, Anchor
  <2>2. turn' = [turn EXCEPT ![t] = x] /\ x.snap = turn[t].snap /\ x.next = to
    BY <1>3 DEF Act, Set
  <2>3. ~Waits(to)
    BY <1>2, <2>1 DEF Waits
  <2> HIDE DEF x, to
  <2> QED
    BY <1>1, <1>2, <2>2, <2>3, QuietStrand
<1>4. CASE FinishChange(t)
  <2> DEFINE x == [turn[t] EXCEPT !.pc = "write"]
  <2>1. turn' = [turn EXCEPT ![t] = x] /\ x.snap = turn[t].snap /\ x.next = turn[t].next
    BY <1>1, <1>4, TurnFacts DEF FinishChange, TurnState
  <2> HIDE DEF x
  <2> QED
    BY <1>1, <1>2, <2>1, QuietStrand
<1> QED
  BY <1>3, <1>4

\* The anchor is written: it was nobody else's.  An anchor that is cleared, or follows a
\* decision, waits for nothing.
LEMMA WriteAnchorStrand ==
  ASSUME ChainInv, StrandInv, NEW t \in Turns, WriteAnchor(t)
  PROVE  StrandInv'
<1>1. t \in Procs /\ anchor' = turn[t].next /\ UNCHANGED <<approval, torn, closed>>
  BY DEF Procs, WriteAnchor
<1>2. turn'[t] = NoTurn /\ \A q \in Procs : q # t => turn'[q] = turn[q]
  BY <1>1 DEF WriteAnchor, Idle, ChainInv, TypeOK
<1>3. FreshInv'
  BY <1>1, <1>2, NeverWaits DEF StrandInv, FreshInv, Same, Pending
<1>4. OneAnchorInv'
  BY <1>1, <1>2, NeverWaits DEF StrandInv, FreshInv, OneAnchorInv, Same
<1>5. FollowedInv'
  BY <1>1 DEF StrandInv, FreshInv, FollowedInv, Following, Pending
<1> QED
  BY <1>3, <1>4, <1>5 DEF StrandInv

LEMMA ClearStrand ==
  ASSUME ChainInv, StrandInv, NEW p \in Procs, turn' = [turn EXCEPT ![p] = NoTurn],
         UNCHANGED <<approval, torn, closed>>,
         ~Waits(anchor') \/ (anchor' = anchor /\ (turn[p].pc \in {"decided", "denied"} => anchor # turn[p].snap))
  PROVE  StrandInv'
<1>1. turn'[p] = NoTurn /\ \A q \in Procs : q # p => turn'[q] = turn[q]
  BY DEF ChainInv, TypeOK
<1>2. FreshInv'
  BY <1>1, NeverWaits DEF StrandInv, FreshInv, Same, Pending
<1>3. OneAnchorInv'
  BY <1>1, NeverWaits DEF StrandInv, OneAnchorInv, Same
<1>4. FollowedInv'
  BY <1>1 DEF StrandInv, FollowedInv, Following, Pending
<1> QED
  BY <1>2, <1>3, <1>4 DEF StrandInv

LEMMA DiscardStrand ==
  ASSUME ChainInv, StrandInv, NEW t \in Turns, Discard(t)
  PROVE  StrandInv'
<1>1. t \in Procs
  BY DEF Procs
<1> QED
  BY <1>1, NeverWaits, ClearStrand DEF Discard, Idle

LEMMA AnchorDecisionStrand ==
  ASSUME ChainInv, StrandInv, NEW p \in Procs, AnchorDecision(p)
  PROVE  StrandInv'
<1>1. ~Waits(turn[p].next)
  BY DEF AnchorDecision, StrandInv, FreshInv
<1> QED
  BY <1>1, NeverWaits, ClearStrand DEF AnchorDecision, Idle

\* The fresh request is in no anchor yet: those that wait name requests that were asked for.
LEMMA RequestStrand ==
  ASSUME ChainInv, StrandInv, NEW t \in Turns, NEW g \in Gates, Request(t, g)
  PROVE  StrandInv'
<1> DEFINE a == turn[t].snap
<1>1. t \in Procs
  BY DEF Procs
<1>2. PICK i \in Ids :
        /\ \A j \in Ids : approval[j].status = "none" <=> j >= i
        /\ approval' = [approval EXCEPT ![i] = [gate |-> g, status |-> "PENDING"]]
        /\ Set(t, "write", a, "request", i, [a EXCEPT !.status = Asked[g].pending, !.id = i])
  BY DEF Request
<1> DEFINE to == [a EXCEPT !.status = Asked[g].pending, !.id = i]
           x == [pc |-> "write", snap |-> a, what |-> "request", id |-> i, next |-> to]
<1>3. approval[i].status = "none"
  BY <1>2 DEF Ids
<1>4. to.id = i
  BY <1>1, TurnFacts DEF Anchor
<1>5. \A b \in Anchor : AnchorOK(b) /\ Waits(b) => b.id \in Ids /\ b.id # i
  BY <1>3 DEF AnchorOK, Waits
<1>6. /\ Waits(anchor) => anchor.id \in Ids /\ anchor.id # i
      /\ \A q \in Procs : Waits(turn[q].snap) => turn[q].snap.id \in Ids /\ turn[q].snap.id # i
      /\ \A q \in Procs : Waits(turn[q].next) => turn[q].next.id \in Ids /\ turn[q].next.id # i
  BY <1>1, <1>5, TurnFacts
<1>7. approval'[i].status = "PENDING" /\ \A j \in Ids : j # i => approval'[j] = approval[j]
  BY <1>2 DEF ChainInv, TypeOK
<1>8. turn[t].pc = "routed" /\ UNCHANGED <<anchor, torn, closed>>
  BY DEF Request
<1>9. turn' = [turn EXCEPT ![t] = x] /\ x.snap = turn[t].snap /\ x.next = to /\ x.pc = "write"
  BY <1>2 DEF Set
<1> HIDE DEF x, to, a
<1>10. turn'[t] = x /\ \A q \in Procs : q # t => turn'[q] = turn[q]
  BY <1>1, <1>9 DEF ChainInv, TypeOK
<1>11. FreshInv'
  BY <1>4, <1>6, <1>7, <1>8, <1>9, <1>10 DEF StrandInv, FreshInv, Same, Pending
<1>12. OneAnchorInv'
  BY <1>8, <1>9, <1>10 DEF StrandInv, OneAnchorInv, Same
<1>13. FollowedInv'
  BY <1>1, <1>6, <1>7, <1>8, <1>9, <1>10 DEF StrandInv, FollowedInv, Following, Pending
<1> QED
  BY <1>11, <1>12, <1>13 DEF StrandInv

\* A decision ends the waiting of one anchor: the live one is that anchor, or waits for
\* another request.
LEMMA RecordDecisionStrand ==
  ASSUME ChainInv, StrandInv, NEW p \in Procs, NEW a, a \in {turn[p].snap, anchor},
         NEW approve \in BOOLEAN, lock = None, RecordDecision(p, a, approve)
  PROVE  StrandInv'
<1>g. PICK g \in GateAt(a.status) :
        \E outcome, what, to :
          /\ approval' = [approval EXCEPT ![a.id].status = outcome]
          /\ Set(p, "decided", a, what, a.id, to)
          /\ to = [a EXCEPT !.status = Decided[g].approved] \/ to = Rejected(a, g)
          /\ UNCHANGED <<anchor, closed, torn>>
  BY DEF RecordDecision
<1>1. PICK outcome, what, to :
        /\ approval' = [approval EXCEPT ![a.id].status = outcome]
        /\ Set(p, "decided", a, what, a.id, to)
        /\ to = [a EXCEPT !.status = Decided[g].approved] \/ to = Rejected(a, g)
        /\ UNCHANGED <<anchor, closed, torn>>
  BY <1>g
<1> DEFINE x == [pc |-> "decided", snap |-> a, what |-> what, id |-> a.id, next |-> to]
<1>2. a \in Anchor /\ AnchorOK(a) /\ g \in Gates
  BY TurnFacts DEF GateAt
<1>3. Waits(a) /\ a.id \in Ids
  BY <1>1, <1>2 DEF Waits, AnchorOK
<1>4. ~Waits(to)
  <2>1. to.status = Decided[g].approved \/ to.status = Decided[g].rejected \/ to = NoAnchor
    BY <1>1, <1>2 DEF Rejected, Anchor
  <2> QED
    BY <1>2, <2>1, GateNames, NeverWaits DEF Waits
<1>5. \A j \in Ids : j # a.id => approval'[j] = approval[j]
  BY <1>1 DEF ChainInv, TypeOK
<1>6. turn' = [turn EXCEPT ![p] = x] /\ x.snap = a /\ x.next = to /\ x.pc = "decided" /\ x.id = a.id
  BY <1>1 DEF Set
<1> HIDE DEF x
<1>7. turn'[p] = x /\ \A q \in Procs : q # p => turn'[q] = turn[q]
  BY <1>6 DEF ChainInv, TypeOK
<1>8. \A q \in Procs : turn[q].pc \notin {"decided", "denied"}
  BY ChainAssumption DEF ChainInv, TypeOK, Procs
<1>9. /\ Waits(anchor) => anchor.id \in Ids
      /\ \A q \in Procs : Waits(turn[q].next) => turn[q].next.id \in Ids
  BY TurnFacts DEF AnchorOK, Waits
<1>10. FreshInv'
  BY <1>1, <1>3, <1>4, <1>5, <1>6, <1>7, <1>9 DEF StrandInv, FreshInv, Same, Pending
<1>11. OneAnchorInv'
  BY <1>1, <1>6, <1>7 DEF StrandInv, OneAnchorInv, Same
<1>12. FollowedInv'
  BY <1>1, <1>3, <1>5, <1>6, <1>7, <1>8, <1>9
  DEF StrandInv, OneAnchorInv, FollowedInv, Following, Same, Pending
<1> QED
  BY <1>10, <1>11, <1>12 DEF StrandInv

LEMMA ResetDenyStrand ==
  ASSUME ChainInv, StrandInv, NEW t \in Turns, ResetDeny(t)
  PROVE  StrandInv'
<1> DEFINE a == turn[t].snap
<1>1. t \in Procs /\ UNCHANGED <<anchor, closed, torn>> /\ turn[t].pc = "routed" /\ lock = None
  BY DEF Procs, ResetDeny
<1>2. PICK what, id :
        /\ turn' = [turn EXCEPT ![t] =
                      [pc |-> "denied", snap |-> a, what |-> what, id |-> id, next |-> NoAnchor]]
        /\ approval' = approval \/ (Waits(a) /\ id = a.id)
        /\ \A j \in Ids : approval'[j] = approval[j] \/ (Waits(a) /\ j = a.id)
  BY DEF ResetDeny, Set, ChainInv, TypeOK
<1> DEFINE x == [pc |-> "denied", snap |-> a, what |-> what, id |-> id, next |-> NoAnchor]
<1>3. x.pc = "denied" /\ x.snap = turn[t].snap /\ x.next = NoAnchor /\ x.id = id
  OBVIOUS
<1>4. turn' = [turn EXCEPT ![t] = x]
  BY <1>2
<1> HIDE DEF x
<1>5. turn'[t] = x /\ \A q \in Procs : q # t => turn'[q] = turn[q]
  BY <1>1, <1>4 DEF ChainInv, TypeOK
<1>6. /\ Waits(anchor) => anchor.id \in Ids
      /\ \A q \in Procs : Waits(turn[q].next) => turn[q].next.id \in Ids
  BY <1>1, TurnFacts DEF AnchorOK, Waits
<1>7. \A q \in Procs : turn[q].pc \notin {"decided", "denied"}
  BY <1>1, ChainAssumption DEF ChainInv, TypeOK, Procs
<1>8. FreshInv'
  BY <1>1, <1>2, <1>3, <1>5, <1>6, NeverWaits DEF StrandInv, FreshInv, Same, Pending
<1>9. OneAnchorInv'
  BY <1>1, <1>3, <1>5 DEF StrandInv, OneAnchorInv, Same
<1>10. FollowedInv'
  <2> SUFFICES ASSUME ~closed, Waits(anchor), ~Pending(anchor.id)', anchor.id \notin torn
               PROVE  Following(t)'
    BY <1>1 DEF FollowedInv
  <2>1. Pending(anchor.id)
    BY <1>7 DEF StrandInv, FollowedInv, Following
  <2>2. approval'[anchor.id] # approval[anchor.id]
    BY <1>1, <2>1 DEF Pending
  <2>3. Waits(a) /\ anchor.id = a.id /\ id = a.id
    BY <1>2, <1>6, <2>2
  <2>4. a = anchor
    BY <1>1, <2>3 DEF StrandInv, OneAnchorInv, Same
  <2> QED
    BY <1>1, <1>3, <1>5, <2>3, <2>4 DEF Following
<1> QED
  BY <1>8, <1>9, <1>10 DEF StrandInv

\* A turn that held the lock ends: the session is closed, or the request is torn.
LEMMA HolderEnds ==
  ASSUME ChainInv, StrandInv, NEW p \in Procs, ResetClose(p) \/ StoreFails(p)
  PROVE  StrandInv'
<1>1. turn'[p] = NoTurn /\ \A q \in Procs : q # p => turn'[q] = turn[q]
  BY DEF ResetClose, StoreFails, Idle, ChainInv, TypeOK
<1>2. UNCHANGED <<anchor, approval>>
  BY DEF ResetClose, StoreFails
<1>3. FreshInv'
  BY <1>1, <1>2, NeverWaits DEF StrandInv, FreshInv, Same, Pending
<1>4. OneAnchorInv'
  BY <1>1, <1>2, NeverWaits DEF StrandInv, OneAnchorInv, Same
<1>5. FollowedInv'
  <2>1. CASE ResetClose(p)
    BY <2>1 DEF ResetClose, FollowedInv
  <2>2. CASE StoreFails(p)
    <3> SUFFICES ASSUME ~closed, Waits(anchor), ~Pending(anchor.id), anchor.id \notin torn'
                 PROVE  \E q \in Procs : Following(q)'
      BY <1>2, <2>2 DEF StoreFails, FollowedInv, Following, Pending
    <3>1. anchor.id \in Ids
      BY TurnFacts DEF AnchorOK, Waits
    <3>2. anchor.id \notin torn /\ anchor.id \notin Unfollowed(p)
      BY <2>2 DEF StoreFails
    <3>3. PICK q \in Procs : Following(q)
      BY <3>2 DEF StrandInv, FollowedInv
    <3>4. q # p
      BY <3>1, <3>2, <3>3 DEF Following, Unfollowed
    <3> QED
      BY <1>1, <1>2, <3>3, <3>4 DEF Following
  <2> QED
    BY <2>1, <2>2
<1> QED
  BY <1>3, <1>4, <1>5 DEF StrandInv

LEMMA ReleasePrStrand ==
  ASSUME ChainInv, StrandInv, NEW t \in Turns, ReleasePr(t)
  PROVE  StrandInv'
<1> DEFINE to == [turn[t].snap EXCEPT !.status = "GIT_PUSHED", !.id = None]
           x == [pc |-> "write", snap |-> turn[t].snap, what |-> "none", id |-> None, next |-> to]
<1>1. t \in Procs
  BY DEF Procs
<1>2. to.status = "GIT_PUSHED"
  BY <1>1, TurnFacts DEF Anchor
<1>3. turn' = [turn EXCEPT ![t] = x] /\ x.snap = turn[t].snap /\ x.next = to
  BY DEF ReleasePr, Set
<1>4. UNCHANGED <<anchor, approval, torn, closed>> /\ turn[t].pc \notin {"decided", "denied"}
  BY DEF ReleasePr
<1>5. ~Waits(to)
  BY <1>2, ReleasedTable DEF Waits
<1> HIDE DEF x, to
<1> QED
  BY <1>1, <1>3, <1>4, <1>5, QuietStrand

LEMMA DeadlineStrand ==
  ASSUME ChainInv, StrandInv, NEW i \in Ids, Deadline(i)
  PROVE  StrandInv'
<1>1. UNCHANGED <<anchor, closed, turn, torn>>
  BY DEF Deadline
<1>2. \A j \in Ids : Pending(j)' <=> Pending(j)
  BY DEF Deadline, Pending, ChainInv, TypeOK
<1>3. /\ Waits(anchor) => anchor.id \in Ids
      /\ \A q \in Procs : Waits(turn[q].next) => turn[q].next.id \in Ids
  BY TurnFacts DEF AnchorOK, Waits, ChainInv, TypeOK
<1>4. FreshInv'
  BY <1>1, <1>2, <1>3 DEF StrandInv, FreshInv, Same, Pending
<1>5. OneAnchorInv'
  BY <1>1 DEF StrandInv, OneAnchorInv, Same
<1>6. FollowedInv'
  BY <1>1, <1>2, <1>3 DEF StrandInv, FollowedInv, Following, Pending
<1> QED
  BY <1>4, <1>5, <1>6 DEF StrandInv

LEMMA CrashStrand ==
  ASSUME ChainInv, StrandInv, Crash
  PROVE  StrandInv'
<1>1. \A p \in Procs : turn'[p] = NoTurn
  BY DEF Crash
<1>2. UNCHANGED <<anchor, closed, approval>> /\ torn \subseteq torn' /\ \A p \in Procs : Unfollowed(p) \subseteq torn'
  BY DEF Crash
<1>3. FreshInv' /\ OneAnchorInv'
  BY <1>1, NeverWaits DEF FreshInv, OneAnchorInv, Same
<1>4. FollowedInv'
  <2>1. Waits(anchor) => anchor.id \in Ids
    BY DEF ChainInv, AnchorOK, Waits
  <2>2. \A p \in Procs : Following(p) /\ anchor.id \in Ids => anchor.id \in torn'
    BY <1>2 DEF Following, Unfollowed
  <2> QED
    BY <1>2, <2>1, <2>2 DEF StrandInv, FollowedInv, Following, Pending
<1> QED
  BY <1>3, <1>4 DEF StrandInv

LEMMA NextStrandInv ==
  ASSUME ChainInv, StrandInv, [Next]_vars
  PROVE  StrandInv'
<1>1. CASE Next
  <2>1. ASSUME NEW t \in Turns, Decide(t) PROVE StrandInv'
    <3>1. t \in Procs
      BY DEF Procs
    <3> QED
      BY <2>1, <3>1, RecordDecisionStrand DEF Decide
  <2>2. ASSUME UiDecide PROVE StrandInv'
    <3>1. Ui \in Procs
      BY DEF Procs
    <3> QED
      BY <2>2, <3>1, RecordDecisionStrand DEF UiDecide
  <2>3. \A t \in Turns : t \in Procs
    BY DEF Procs
  <2> QED
    BY <1>1, <2>1, <2>2, <2>3, ReceiveStrand, EndStrand, WriteAnchorStrand, DiscardStrand,
       ResetDenyStrand, HolderEnds, ReleasePrStrand, RequestStrand, CheckStrand, ActStrand, AnchorDecisionStrand, DeadlineStrand, CrashStrand
    DEF Next, TurnStep
<1>2. CASE UNCHANGED vars
  BY <1>2 DEF vars, StrandInv, FreshInv, OneAnchorInv, FollowedInv, Following, Same, Pending
<1> QED
  BY <1>1, <1>2

----------------------------------------------------------------------------
(* The theorems *)

\* The invariant of the chain: every anchor, live or copied, has its gates granted.
THEOREM ChainInvHolds == Spec => []ChainInv
<1>1. ChainInv /\ [Next]_vars => ChainInv'
  BY NextInv
<1> QED
  BY <1>1, InitChainInv, PTL DEF Spec

\* Every reachable state is well typed, and the lock is held by whoever recorded a decision
\* and has not anchored it yet.
THEOREM TypeCorrect == Spec => []TypeOK
<1>1. ChainInv => TypeOK
  BY DEF ChainInv
<1> QED
  BY <1>1, ChainInvHolds, PTL

\* Nothing touches the workspace, the repository or the remote without an approved request of
\* every gate on the way to it.
THEOREM EveryMutationGrantedHolds == Spec => []EveryMutationGranted
<1>1. ChainInv => EveryMutationGranted
  BY DEF ChainInv, MutationsOK, EveryMutationGranted, Passed, Done
<1> QED
  BY <1>1, ChainInvHolds, PTL

\* Every request is decided once, and never approved after its lifetime.
THEOREM OneDecisionHolds == Spec => OneDecision
<1>1. ChainInv /\ [Next]_vars => (\A i \in Ids : approval'[i] # approval[i] =>
         <<approval[i].status, approval'[i].status>> \in
           {<<"none", "PENDING">>, <<"PENDING", "LATE">>, <<"PENDING", "APPROVED">>,
            <<"PENDING", "REJECTED">>, <<"LATE", "REJECTED">>})
  BY NextInv DEF RowsStep, RowStep
<1> QED
  BY <1>1, ChainInvHolds, PTL DEF Spec, OneDecision

\* A conversation waits for a request that is already decided only when the write that was to
\* follow that decision, of the anchor or of the closed session, was lost to a crash or an error.
THEOREM StrandedOnlyByLostWriteHolds == Spec => []StrandedOnlyByLostWrite
<1>1. Init => ChainInv /\ StrandInv
  BY InitChainInv, InitStrandInv
<1>2. ChainInv /\ StrandInv /\ [Next]_vars => (ChainInv /\ StrandInv)'
  BY NextInv, NextStrandInv
<1>3. ChainInv /\ StrandInv => StrandedOnlyByLostWrite
  BY ChainAssumption
  DEF ChainInv, TypeOK, StrandInv, FollowedInv, Following, StrandedOnlyByLostWrite, Stranded, Procs
<1> QED
  BY <1>1, <1>2, <1>3, PTL DEF Spec

=============================================================================
