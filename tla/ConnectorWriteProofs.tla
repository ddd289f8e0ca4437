------------------------ MODULE ConnectorWriteProofs ------------------------
(***************************************************************************)
(* ConnectorWrite for any number of writes, turns, crashes and storage     *)
(* errors: an approved write is sent at most once and only as approved,    *)
(* what the owner is told of it is true, and the session's pointer is      *)
(* handed back.                                                            *)
(*                                                                         *)
(* Three inductive invariants build on each other.  KnownInv says what the *)
(* turns' copies are worth: a write a turn names has its anchor, and every *)
(* anchor hands the pointer back to where it was before all of them.       *)
(* SendInv says that a write that may still be claimed is untouched, and   *)
(* that at most one turn is past the claim.  CloseInv says who will move   *)
(* the pointer off a closed anchor.                                        *)
(***************************************************************************)
EXTENDS ConnectorWrite, TLAPS

Ui == {"uiApprove", "uiDeny"}

\* Inside the approval and the session lock.
Section == {"expire", "approve", "deny", "record", "revoke", "execute", "consume"} \cup Ui

\* Past the claim, up to the terminal anchor.
Executing == {"reconcile", "prepare", "send", "complete", "finish"}

\* A new request whose approval row is not there yet.
Proposing == {"displace", "displaced", "supersede", "request"}

\* At work on the anchor in the turn's copy.
Viewing ==
  {"findApproval", "close", "restore", "supersede", "expire", "approve", "deny", "record",
   "revoke", "execute", "consume", "return"} \cup Executing

Pc ==
  {"idle", "lapse", "find", "route", "lockApproval", "peek", "lockSession", "reopen",
   "displace", "displaced", "request", "saveTask", "point", "withdraw"} \cup Ui \cup Viewing

Turn ==
  [pc : Pc, op : {"none", "expire", "approve", "deny", "revoke", "execute"} \cup Ui,
   ptr : Writes \cup {Home, None}, w : Writes \cup {None}, view : Anchor, now : Nat,
   next : {"idle", "find", "route"}, new : Writes \cup {None}, outcome : Outcomes \cup {"none"}]

\* The UI names a write before it has seen its anchor.
UiWaits(x) == x.pc \in {"lockApproval", "peek"} /\ x.op \in Ui

\* The write is named because its anchor was seen.
KnowsWrite(x) == x.w # None /\ x.pc \notin {"saveTask", "point", "withdraw"} /\ ~UiWaits(x)

Waiting(x) == x.pc \in {"lockApproval", "lockSession"}

\* How the parts of a turn belong together.
ShapeOK(x) ==
  /\ Waiting(x) => x.op # "none" /\ x.w # None
  /\ x.pc \in {"peek"} \cup Ui => x.op \in Ui /\ x.w # None
  /\ x.view.status # "none" => x.w # None /\ x.view.prev = Home
  /\ x.pc \in Viewing \/ (Waiting(x) /\ x.op \notin Ui) => x.view.status # "none"
  /\ x.pc \in {"request", "saveTask", "point"} => x.view.prev = Home
  /\ x.pc = "displaced" => x.ptr \in Writes \cup {Home}
  /\ x.pc \in Proposing => x.new # None
  /\ x.pc \in {"saveTask", "point", "withdraw"} => x.new = x.w /\ x.w # None

\* What a turn may rely on.
RefOK(x) ==
  /\ x.ptr \in Writes => anchor[x.ptr].status # "none"
  /\ KnowsWrite(x) => anchor[x.w].status # "none"
  /\ UiWaits(x) => approval[x.w] # "none"
  /\ x.pc \in Proposing => approval[x.new] = "none"
  /\ x.pc \in {"saveTask", "point"} => approval[x.w] # "none"
  /\ x.pc = "saveTask" => anchor[x.w].status = "none"

RowOK(w) ==
  /\ approval[w] = "none" => anchor[w].status = "none"
  /\ anchor[w].status # "none" => anchor[w].prev = Home

PointerOK == pointer = Home \/ (pointer \in Writes /\ anchor[pointer].status # "none")

Types ==
  /\ TypeOK
  /\ turn \in [Turns -> Turn]
  /\ clock \in Nat /\ turns \in Nat /\ crashes \in Nat /\ errors \in Nat

KnownInv ==
  /\ Types
  /\ PointerOK
  /\ \A w \in Writes : RowOK(w)
  /\ \A t \in Turns : ShapeOK(turn[t]) /\ RefOK(turn[t])
  /\ \A t \in Turns : turn[t].pc \in Section => sessionLock = t
  /\ \A s, t \in Turns : turn[s].new = turn[t].new /\ turn[s].new # None => s = t

\* Nothing of the write has been executed and no turn is past its claim.
Fresh(w) ==
  /\ receipt[w] = "none" /\ sent[w] = 0
  /\ \A t \in Turns : turn[t].w = w => turn[t].pc \notin Executing

Truthful(status, w) == (status = "SENT" => sent[w] = 1) /\ (status = "NOT_SENT" => sent[w] = 0)

WriteOK(w) ==
  /\ anchor[w].status \in {"none", "APPROVAL_PENDING", "APPROVED"} => Fresh(w)
  /\ approval[w] \in {"none", "PENDING"} => anchor[w].status \in {"none", "APPROVAL_PENDING"}
  /\ sent[w] \in {0, 1}
  /\ sent[w] = 1 => approval[w] = "APPROVED"
  /\ Truthful(anchor[w].status, w) /\ Truthful(receipt[w], w)

\* What a turn may do to its write.
SendOK(x) ==
  /\ x.pc \in {"record", "consume"} => Fresh(x.w) /\ approval[x.w] = "APPROVED"
  /\ x.pc \in {"close", "supersede"} => approval[x.w] \in {"APPROVED", "REJECTED"}
  /\ x.pc \in Executing =>
       approval[x.w] = "APPROVED" /\ anchor[x.w].status \in {"EXECUTING", "CLOSED"}
  /\ x.pc \in {"reconcile", "prepare"} => receipt[x.w] = "none" /\ sent[x.w] = 0
  /\ x.pc = "send" => receipt[x.w] \in {"PREPARED", "UNCERTAIN"} /\ sent[x.w] = 0
  /\ x.pc \in {"complete", "finish"} => x.outcome \in Outcomes /\ Truthful(x.outcome, x.w)

SendInv ==
  /\ \A w \in Writes : WriteOK(w)
  /\ \A t \in Turns : SendOK(turn[t])
  /\ \A s, t \in Turns :
       turn[s].pc \in Executing /\ turn[t].pc \in Executing /\ turn[s].w = turn[t].w => s = t

\* Nobody but its creator knows a write the session does not point at yet.
CreatedOK(t) ==
  turn[t].pc = "point" =>
    /\ anchor[turn[t].w].status = "APPROVAL_PENDING" /\ pointer # turn[t].w
    /\ \A s \in Turns \ {t} :
         turn[s].ptr # turn[t].w /\ (KnowsWrite(turn[s]) => turn[s].w # turn[t].w)

\* The turn will move the pointer.
Moves(x) == (x.pc = "restore" /\ x.w = pointer) \/ x.pc \in {"request", "saveTask", "point"}

ReleasedOK ==
  crashes = 0 /\ errors = 0 /\ pointer \in Writes /\ anchor[pointer].status = "CLOSED"
    => \E t \in Turns : Moves(turn[t])

CloseInv == (\A t \in Turns : CreatedOK(t)) /\ ReleasedOK

ConnectorInv == KnownInv /\ SendInv /\ CloseInv

----------------------------------------------------------------------------
(* A turn moves on *)

USE ConnectorAssumption

LEMMA NoTurnFacts ==
  /\ NoAnchor \in Anchor /\ NoTurn \in Turn /\ ShapeOK(NoTurn)
  /\ NoTurn.pc = "idle" /\ NoTurn.w = None /\ NoTurn.new = None /\ NoTurn.view = NoAnchor
  /\ NoTurn.ptr = None /\ NoAnchor.status = "none"
BY DEF NoAnchor, Anchor, AnchorStatus, NoTurn, Turn, Pc, ShapeOK, Waiting, Viewing, Proposing, Ui,
       Outcomes, Executing

LEMMA NoTurnRef == RefOK(NoTurn)
BY NoTurnFacts DEF RefOK, KnowsWrite, UiWaits, Proposing

LEMMA InitKnown == Init => KnownInv
<1> SUFFICES ASSUME Init PROVE KnownInv
  OBVIOUS
<1>1. TypeOK
  BY NoTurnFacts DEF Init, TypeOK
<1>2. turn \in [Turns -> Turn] /\ \A t \in Turns : turn[t] = NoTurn
  BY NoTurnFacts DEF Init
<1>3. Types
  BY <1>1, <1>2 DEF Types, Init
<1>4. \A w \in Writes : RowOK(w)
  BY NoTurnFacts DEF Init, RowOK
<1> QED
  BY <1>2, <1>3, <1>4, NoTurnFacts, NoTurnRef DEF KnownInv, PointerOK, Init, Section, Ui

\* The locks after a step of turn t.
LockStep(t) ==
  /\ approvalLock' \in [Writes -> Turns \cup {None}]
  /\ sessionLock' \in Turns \cup {None}
  /\ \A s \in Turns \ {t} : sessionLock = s => sessionLock' = s

\* The number a turn asks for is its own.
OwnNew(t, x) == x.new \in {turn[t].new, None} \/ \A s \in Turns : turn[s].new # x.new

\* What the rows may do while other turns rely on them.
RowsStep(t) ==
  \A w \in Writes :
    /\ approval[w] # "none" => approval'[w] # "none"
    /\ anchor[w].status # "none" => anchor'[w].status # "none"
    /\ approval[w] = "none" /\ approval'[w] # "none" => w = turn[t].new
    /\ anchor[w].status = "none" /\ anchor'[w].status # "none" => w = turn[t].new

RowTypes ==
  /\ approval' \in [Writes -> {"none", "PENDING", "APPROVED", "REJECTED"}]
  /\ requestedAt' \in [Writes -> Nat]
  /\ anchor' \in [Writes -> Anchor]
  /\ receipt' \in [Writes -> {"none", "PREPARED"} \cup Outcomes]
  /\ sent' \in [Writes -> Nat]

Counts == clock' \in Nat /\ turns' \in Nat /\ crashes' \in Nat /\ errors' \in Nat /\ reconciled' \in BOOLEAN

LEMMA KnownStep ==
  ASSUME KnownInv, NEW t \in Turns, NEW x \in Turn, turn' = [turn EXCEPT ![t] = x],
         LockStep(t), RowTypes, Counts, RowsStep(t), OwnNew(t, x),
         PointerOK', \A w \in Writes : RowOK(w)',
         ShapeOK(x), RefOK(turn[t])', x.pc \in Section => sessionLock' = t
  PROVE  KnownInv'
<1>1. turn \in [Turns -> Turn] /\ turn'[t] = x /\ \A s \in Turns \ {t} : turn'[s] = turn[s]
  BY DEF KnownInv, Types
<1>2. Types'
  <2>1. pointer' \in Writes \cup {Home, None}
    BY DEF PointerOK
  <2>2. TypeOK'
    BY <2>1 DEF TypeOK, RowTypes, LockStep, Counts
  <2> QED
    BY <1>1, <2>2 DEF Types, Counts
<1>3. ASSUME NEW s \in Turns \ {t} PROVE ShapeOK(turn[s])' /\ RefOK(turn[s])'
  <2>1. ShapeOK(turn[s]) /\ RefOK(turn[s]) /\ turn[s] \in Turn
    BY <1>1 DEF KnownInv
  <2>2. turn[s].w \in Writes \cup {None} /\ turn[s].new \in Writes \cup {None}
        /\ turn[s].ptr \in Writes \cup {Home, None}
    BY <2>1 DEF Turn
  <2>3. turn[s].new # None => turn[s].new # turn[t].new
    BY DEF KnownInv
  <2>4. ShapeOK(turn[s])'
    BY <1>1, <2>1 DEF ShapeOK, Waiting
  <2> DEFINE y == turn[s]
  <2>a. y.ptr \in Writes => anchor'[y.ptr].status # "none"
    BY <2>1 DEF RefOK, RowsStep
  <2>b. KnowsWrite(y) => anchor'[y.w].status # "none"
    BY <2>1, <2>2 DEF RefOK, RowsStep, KnowsWrite
  <2>c. UiWaits(y) => approval'[y.w] # "none"
    BY <2>1, <2>2 DEF RefOK, RowsStep, UiWaits, ShapeOK, Waiting
  <2>d. y.pc \in Proposing => approval'[y.new] = "none"
    BY <2>1, <2>2, <2>3 DEF RefOK, RowsStep, ShapeOK
  <2>e. y.pc \in {"saveTask", "point"} => approval'[y.w] # "none"
    BY <2>1, <2>2 DEF RefOK, RowsStep, ShapeOK
  <2>f. y.pc = "saveTask" => anchor'[y.w].status = "none"
    BY <2>1, <2>2, <2>3 DEF RefOK, RowsStep, ShapeOK
  <2>5. RefOK(turn[s])'
    BY <1>1, <2>a, <2>b, <2>c, <2>d, <2>e, <2>f DEF RefOK, KnowsWrite, UiWaits
  <2> QED
    BY <2>4, <2>5
<1>4. ShapeOK(turn[t])' /\ RefOK(turn[t])'
  BY <1>1 DEF ShapeOK, Waiting
<1>5. \A s \in Turns : turn'[s].pc \in Section => sessionLock' = s
  BY <1>1 DEF KnownInv, LockStep
<1>6. \A r, s \in Turns : turn'[r].new = turn'[s].new /\ turn'[r].new # None => r = s
  BY <1>1 DEF KnownInv, OwnNew
<1> QED
  BY <1>2, <1>3, <1>4, <1>5, <1>6 DEF KnownInv

LEMMA TurnFacts ==
  ASSUME ConnectorInv, NEW t \in Turns
  PROVE  /\ turn[t] \in Turn /\ ShapeOK(turn[t]) /\ RefOK(turn[t]) /\ SendOK(turn[t])
         /\ turn[t].w \in Writes \cup {None} /\ turn[t].new \in Writes \cup {None}
         /\ turn[t].ptr \in Writes \cup {Home, None} /\ turn[t].view \in Anchor
         /\ turn[t].pc \in Section => sessionLock = t
BY DEF ConnectorInv, KnownInv, Types, SendInv, Turn

\* A write is learned from the pointer.
Learns(t, x) ==
  /\ x.ptr \in {turn[t].ptr, pointer, Home, None}
  /\ KnowsWrite(x) =>
       (KnowsWrite(turn[t]) /\ x.w = turn[t].w) \/ x.w \in {turn[t].ptr, pointer}

LEMMA CreatedOthers ==
  ASSUME ConnectorInv, NEW t \in Turns, NEW x \in Turn, turn' = [turn EXCEPT ![t] = x],
         Learns(t, x),
         pointer' \in {pointer, Home} \/ (turn[t].pc = "point" /\ pointer' = turn[t].w),
         \A w \in Writes : anchor'[w] # anchor[w] =>
           w = turn[t].w /\ (KnowsWrite(turn[t]) \/ turn[t].pc = "saveTask")
  PROVE  \A s \in Turns \ {t} : CreatedOK(s)'
<1>1. turn \in [Turns -> Turn] /\ turn'[t] = x /\ \A s \in Turns \ {t} : turn'[s] = turn[s]
  BY DEF ConnectorInv, KnownInv, Types
<1> SUFFICES ASSUME NEW s \in Turns \ {t}, turn'[s].pc = "point" PROVE CreatedOK(s)'
  BY DEF CreatedOK
<1>2. s # t /\ turn'[s] = turn[s] /\ turn[s].pc = "point"
  BY <1>1
<1> DEFINE w == turn[s].w
<1>3. /\ w \in Writes /\ turn[s].new = w
      /\ anchor[w].status = "APPROVAL_PENDING" /\ pointer # w
      /\ \A r \in Turns \ {s} : turn[r].ptr # w /\ (KnowsWrite(turn[r]) => turn[r].w # w)
  BY <1>2, TurnFacts DEF ConnectorInv, CloseInv, CreatedOK, ShapeOK
<1>4. turn[t].pc \in {"saveTask", "point"} => turn[t].w # w
  BY <1>2, <1>3, TurnFacts DEF ConnectorInv, KnownInv, ShapeOK
<1>5. anchor'[w] = anchor[w] /\ pointer' # w
  BY <1>2, <1>3, <1>4
<1>6. x.ptr # w /\ (KnowsWrite(x) => x.w # w)
  BY <1>2, <1>3 DEF Learns
<1>7. \A r \in Turns \ {s} : turn'[r].ptr # w /\ (KnowsWrite(turn'[r]) => turn'[r].w # w)
  BY <1>1, <1>3, <1>6
<1> QED
  BY <1>2, <1>3, <1>5, <1>7 DEF CreatedOK, KnowsWrite, UiWaits

LEMMA CreatedStep ==
  ASSUME ConnectorInv, NEW t \in Turns, NEW x \in Turn, turn' = [turn EXCEPT ![t] = x],
         Learns(t, x), x.pc # "point",
         pointer' \in {pointer, Home} \/ (turn[t].pc = "point" /\ pointer' = turn[t].w),
         \A w \in Writes : anchor'[w] # anchor[w] =>
           w = turn[t].w /\ (KnowsWrite(turn[t]) \/ turn[t].pc = "saveTask")
  PROVE  \A s \in Turns : CreatedOK(s)'
<1>1. \A s \in Turns \ {t} : CreatedOK(s)'
  BY CreatedOthers
<1>2. turn'[t] = x
  BY DEF ConnectorInv, KnownInv, Types
<1> QED
  BY <1>1, <1>2 DEF CreatedOK

\* A turn moves on and changes no row.
LEMMA QuietStep ==
  ASSUME ConnectorInv, NEW t \in Turns, NEW x \in Turn, turn' = [turn EXCEPT ![t] = x],
         LockStep(t), Counts, OwnNew(t, x), UNCHANGED <<rows, sent>>,
         ShapeOK(x), RefOK(x), x.pc \in Section => sessionLock' = t,
         SendOK(x), x.pc \in Executing => turn[t].pc \in Executing /\ x.w = turn[t].w,
         Learns(t, x), x.pc # "point",
         crashes' = crashes,
         errors' = errors + 1 \/ (errors' = errors /\ ~Moves(turn[t]))
  PROVE  ConnectorInv'
<1>1. turn \in [Turns -> Turn] /\ turn'[t] = x /\ \A s \in Turns \ {t} : turn'[s] = turn[s]
  BY DEF ConnectorInv, KnownInv, Types
<1>2. KnownInv'
  <2>1. RowTypes /\ RowsStep(t)
    BY DEF RowTypes, RowsStep, rows, ConnectorInv, KnownInv, Types, TypeOK
  <2>2. PointerOK' /\ \A w \in Writes : RowOK(w)'
    BY DEF PointerOK, RowOK, rows, ConnectorInv, KnownInv
  <2>3. RefOK(turn[t])'
    BY <1>1 DEF RefOK, rows, KnowsWrite, UiWaits
  <2> QED
    BY <2>1, <2>2, <2>3, KnownStep DEF ConnectorInv
<1>3. SendInv'
  <2>1. ASSUME NEW s \in Turns, turn'[s].pc \in Executing
        PROVE  turn[s].pc \in Executing /\ turn'[s].w = turn[s].w
    BY <1>1, <2>1
  <2>2. \A w \in Writes : Fresh(w) => Fresh(w)'
    BY <2>1 DEF Fresh, rows
  <2>3. \A w \in Writes : WriteOK(w)'
    BY <2>2 DEF ConnectorInv, SendInv, WriteOK, Truthful, rows
  <2>4. ASSUME NEW s \in Turns PROVE SendOK(turn[s])'
    <3>1. SendOK(turn'[s]) /\ turn'[s] \in Turn /\ ShapeOK(turn'[s])
      BY <1>1 DEF ConnectorInv, SendInv, KnownInv
    <3>2. turn'[s].pc \in {"record", "consume"} => turn'[s].w \in Writes
      BY <3>1 DEF Turn, ShapeOK, Viewing
    <3> QED
      BY <2>2, <3>1, <3>2 DEF SendOK, Truthful, rows
  <2> QED
    BY <2>1, <2>3, <2>4 DEF ConnectorInv, SendInv
<1>4. CloseInv'
  <2>1. \A s \in Turns : CreatedOK(s)'
    BY CreatedStep DEF rows
  <2>2. ReleasedOK'
    <3>1. SUFFICES ASSUME crashes' = 0, errors' = 0, pointer' \in Writes, anchor'[pointer'].status = "CLOSED"
                   PROVE  \E s \in Turns : Moves(turn[s])'
      BY DEF ReleasedOK
    <3>2. errors = 0 /\ crashes = 0 /\ ~Moves(turn[t])
      BY <3>1 DEF ConnectorInv, KnownInv, Types
    <3>3. PICK s \in Turns : Moves(turn[s])
      BY <3>1, <3>2 DEF ConnectorInv, CloseInv, ReleasedOK, rows
    <3> QED
      BY <1>1, <3>2, <3>3 DEF Moves, rows
  <2> QED
    BY <2>1, <2>2 DEF CloseInv
<1> QED
  BY <1>2, <1>3, <1>4 DEF ConnectorInv

LEMMA Locks ==
  ASSUME ConnectorInv, NEW t \in Turns, UNCHANGED locks \/ Unlock(t)
  PROVE  LockStep(t)
<1>1. approvalLock \in [Writes -> Turns \cup {None}] /\ sessionLock \in Turns \cup {None}
  BY DEF ConnectorInv, KnownInv, Types, TypeOK
<1>2. CASE UNCHANGED locks
  BY <1>1, <1>2 DEF locks, LockStep
<1>3. CASE Unlock(t)
  BY <1>1, <1>3 DEF Unlock, LockStep
<1> QED
  BY <1>2, <1>3

LEMMA WriteFacts ==
  ASSUME ConnectorInv, NEW w \in Writes
  PROVE  anchor[w] \in Anchor /\ RowOK(w) /\ WriteOK(w)
BY DEF ConnectorInv, KnownInv, Types, TypeOK, SendInv

LEMMA PointerFacts ==
  ASSUME ConnectorInv
  PROVE  /\ pointer \in Writes \cup {Home}
         /\ pointer \in Writes => anchor[pointer].status # "none"
BY DEF ConnectorInv, KnownInv, PointerOK

\* The bookkeeping of a step that neither crashes nor fails.
LEMMA SameCounts ==
  ASSUME ConnectorInv, UNCHANGED <<clock, reconciled, counts>>
  PROVE  Counts /\ crashes' = crashes /\ errors' = errors
BY DEF Counts, counts, ConnectorInv, KnownInv, Types, TypeOK

LEMMA EndStep ==
  ASSUME ConnectorInv, NEW t \in Turns, End(t), UNCHANGED <<rows, sent>>, Counts,
         crashes' = crashes, errors' = errors + 1 \/ (errors' = errors /\ ~Moves(turn[t]))
  PROVE  ConnectorInv'
<1>1. SendOK(NoTurn) /\ Learns(t, NoTurn) /\ OwnNew(t, NoTurn)
  BY NoTurnFacts DEF SendOK, Learns, KnowsWrite, OwnNew, Executing
<1>2. LockStep(t) /\ turn' = [turn EXCEPT ![t] = NoTurn]
  BY Locks DEF End
<1>3. NoTurn.pc \notin Section \cup Executing
  BY NoTurnFacts DEF Section, Executing, Ui
<1> QED
  BY <1>1, <1>2, <1>3, NoTurnFacts, NoTurnRef, QuietStep

----------------------------------------------------------------------------
(* The start of a chat turn *)

LEMMA ReceiveInv ==
  ASSUME ConnectorInv, NEW t \in Turns, Receive(t)
  PROVE  ConnectorInv'
<1> DEFINE x == [NoTurn EXCEPT !.pc = "lapse", !.ptr = pointer]
<1>1. turn' = [turn EXCEPT ![t] = x] /\ LockStep(t) /\ turn[t].pc = "idle"
  BY Locks DEF Receive, Become, At
<1>2. Counts /\ UNCHANGED <<rows, sent, crashes, errors>>
  BY DEF Receive, Counts, ConnectorInv, KnownInv, Types, TypeOK
<1>3. x \in Turn /\ x.pc = "lapse" /\ x.ptr = pointer /\ x.w = None /\ x.new = None /\ x.view = NoAnchor
  BY NoTurnFacts, PointerFacts DEF Turn, Pc, NoTurn
<1> HIDE DEF x
<1>4. ShapeOK(x) /\ RefOK(x) /\ x.pc \notin Section \cup Executing
  BY <1>3, NoTurnFacts, PointerFacts
  DEF ShapeOK, RefOK, Waiting, Ui, Viewing, Proposing, KnowsWrite, UiWaits, Section, Executing
<1>5. SendOK(x) /\ Learns(t, x) /\ OwnNew(t, x) /\ ~Moves(turn[t])
  BY <1>1, <1>3 DEF SendOK, Learns, KnowsWrite, OwnNew, Moves, Executing
<1> QED
  BY <1>1, <1>2, <1>3, <1>4, <1>5, QuietStep

\* What is common to the steps that change no row and count nothing.
Quiet(t, x) ==
  /\ turn' = [turn EXCEPT ![t] = x]
  /\ UNCHANGED <<rows, sent, clock, reconciled, counts>>

\* The turn goes on with the write and the pointer it has.
Goes(t, x) ==
  /\ x.ptr = turn[t].ptr /\ x.w = turn[t].w /\ x.view = turn[t].view /\ x.new = turn[t].new
  /\ KnowsWrite(x) => KnowsWrite(turn[t])

LEMMA GoesOn ==
  ASSUME ConnectorInv, NEW t \in Turns, NEW x \in Turn, Quiet(t, x), Goes(t, x), LockStep(t),
         ShapeOK(x), ~Moves(turn[t]), x.pc \in Section => sessionLock' = t,
         UiWaits(x) => approval[x.w] # "none", SendOK(x),
         x.pc \notin Proposing \cup Executing \cup {"saveTask", "point"}
  PROVE  ConnectorInv'
<1>1. RefOK(x)
  BY TurnFacts DEF RefOK, Goes
<1>2. Learns(t, x) /\ OwnNew(t, x)
  BY DEF Learns, OwnNew, Goes
<1>3. Counts /\ crashes' = crashes /\ errors' = errors /\ UNCHANGED <<rows, sent>>
  BY SameCounts DEF Quiet
<1> QED
  BY <1>1, <1>2, <1>3, QuietStep DEF Quiet

LEMMA ClosingFacts ==
  ASSUME ConnectorInv, NEW t \in Turns, NEW w \in Writes, NEW view \in Anchor,
         NEW next \in {"idle", "find", "route"}, NEW x, x = Closing(t, w, view, next)
  PROVE  /\ x \in Turn /\ x.pc = "close" /\ x.w = w /\ x.view = view /\ x.next = next
         /\ x.ptr = turn[t].ptr /\ x.new = turn[t].new /\ x.op = turn[t].op
<1>1. "close" \in Pc
  BY DEF Pc, Viewing
<1>2. turn[t] \in Turn
  BY TurnFacts
<1>3. x = [turn[t] EXCEPT !.pc = "close", !.w = w, !.view = view, !.next = next]
  BY DEF Closing
<1> QED
  BY <1>1, <1>2, <1>3 DEF Turn

\* The turn starts to close an anchor.
LEMMA StartsClosing ==
  ASSUME ConnectorInv, NEW t \in Turns, NEW x \in Turn, Quiet(t, x), LockStep(t),
         x.pc = "close", x.w \in Writes, x.ptr \in {turn[t].ptr, Home}, x.new = turn[t].new,
         x.view.status # "none", x.view.prev = Home,
         anchor[x.w].status # "none", approval[x.w] \in {"APPROVED", "REJECTED"},
         (KnowsWrite(turn[t]) /\ x.w = turn[t].w) \/ x.w \in {turn[t].ptr, pointer},
         ~Moves(turn[t])
  PROVE  ConnectorInv'
<1>1. ShapeOK(x) /\ RefOK(x)
  BY TurnFacts DEF ShapeOK, RefOK, Waiting, Ui, Viewing, Proposing, UiWaits
<1>2. SendOK(x) /\ Learns(t, x) /\ OwnNew(t, x) /\ x.pc \notin Section \cup Executing
  BY DEF SendOK, Learns, OwnNew, Executing, Section, Ui
<1>3. Counts /\ crashes' = crashes /\ errors' = errors /\ UNCHANGED <<rows, sent>>
  BY SameCounts DEF Quiet
<1> QED
  BY <1>1, <1>2, <1>3, QuietStep DEF Quiet

\* An approved anchor has its decision.
LEMMA ApprovedFacts ==
  ASSUME ConnectorInv, NEW w \in Writes, anchor[w].status = "APPROVED"
  PROVE  /\ approval[w] \in {"APPROVED", "REJECTED"} /\ anchor[w].prev = Home /\ anchor[w] \in Anchor
         /\ Fresh(w)
BY WriteFacts DEF WriteOK, RowOK, ConnectorInv, KnownInv, Types, TypeOK

LEMMA ReleaseExpiredInv ==
  ASSUME ConnectorInv, NEW t \in Turns, ReleaseExpired(t)
  PROVE  ConnectorInv'
<1> DEFINE p == turn[t].ptr
<1>1. turn[t].pc = "lapse" /\ LockStep(t) /\ ~Moves(turn[t])
  BY Locks DEF ReleaseExpired, At, Become, GoOn, Moves
<1>2. CASE OpenAnchor(p) /\ Lapsed(anchor[p], clock)
  <2> DEFINE z == Closing(t, p, anchor[p], "find")
             x == [z EXCEPT !.ptr = anchor[p].prev]
  <2>1. Quiet(t, x) /\ p \in Writes /\ anchor[p].status = "APPROVED"
    BY <1>2 DEF ReleaseExpired, Become, OpenAnchor, Lapsed, Quiet
  <2>2. z \in Turn /\ z.pc = "close" /\ z.w = p /\ z.view = anchor[p] /\ z.new = turn[t].new
    BY <2>1, ApprovedFacts, ClosingFacts
  <2> HIDE DEF z
  <2>3. x \in Turn /\ x.pc = "close" /\ x.w = p /\ x.view = anchor[p] /\ x.new = turn[t].new /\ x.ptr = Home
    BY <2>1, <2>2, ApprovedFacts DEF Turn
  <2> HIDE DEF x
  <2> QED
    BY <1>1, <2>1, <2>3, ApprovedFacts, StartsClosing
<1>3. CASE ~(OpenAnchor(p) /\ Lapsed(anchor[p], clock))
  <2> DEFINE x == [turn[t] EXCEPT !.pc = "find"]
  <2>1. Quiet(t, x)
    BY <1>3 DEF ReleaseExpired, GoOn, Become, Quiet
  <2>2. x \in Turn /\ x.pc = "find" /\ Goes(t, x)
    BY <1>1, TurnFacts DEF Turn, Pc, Goes, KnowsWrite, UiWaits
  <2> HIDE DEF x
  <2>3. ShapeOK(x) /\ SendOK(x)
    BY <1>1, <2>2, TurnFacts DEF ShapeOK, SendOK, Goes, Waiting, Ui, Viewing, Executing, Proposing
  <2> QED
    BY <1>1, <2>1, <2>2, <2>3, GoesOn DEF Section, Executing, Proposing, Ui, UiWaits
<1> QED
  BY <1>2, <1>3

LEMMA FindInv ==
  ASSUME ConnectorInv, NEW t \in Turns, Find(t)
  PROVE  ConnectorInv'
<1> DEFINE p == turn[t].ptr
<1>1. turn[t].pc = "find" /\ LockStep(t) /\ ~Moves(turn[t])
  BY Locks DEF Find, At, Become, Moves
<1>2. Counts /\ crashes' = crashes /\ errors' = errors /\ UNCHANGED <<rows, sent>>
  BY SameCounts DEF Find
<1>3. CASE OpenAnchor(p)
  <2> DEFINE pc == IF anchor[p].status = "APPROVAL_PENDING" THEN "findApproval" ELSE "route"
             x == [turn[t] EXCEPT !.w = p, !.view = anchor[p], !.pc = pc]
  <2>1. turn' = [turn EXCEPT ![t] = x] /\ p \in Writes /\ anchor[p].status # "none" /\ pc \in {"findApproval", "route"}
    BY <1>3 DEF Find, Become, OpenAnchor
  <2>a. pc \in Pc /\ turn[t] \in Turn /\ anchor[p] \in Anchor
    BY <2>1, TurnFacts, WriteFacts DEF Pc, Viewing
  <2> HIDE DEF pc
  <2>2. x \in Turn /\ x.pc = pc /\ x.w = p /\ x.view = anchor[p] /\ x.ptr = p /\ x.new = turn[t].new
    BY <2>1, <2>a DEF Turn
  <2> HIDE DEF x
  <2>3. ShapeOK(x) /\ RefOK(x)
    BY <2>1, <2>2, WriteFacts DEF ShapeOK, RefOK, Waiting, Ui, Viewing, Executing, Proposing,
         UiWaits, RowOK
  <2>4. SendOK(x) /\ Learns(t, x) /\ OwnNew(t, x) /\ x.pc \notin Section \cup Executing
    BY <2>1, <2>2 DEF SendOK, Learns, OwnNew, Executing, Section, Ui
  <2> QED
    BY <1>1, <1>2, <2>1, <2>2, <2>3, <2>4, QuietStep
<1>4. CASE ~OpenAnchor(p)
  <2> DEFINE x == [turn[t] EXCEPT !.w = None, !.view = NoAnchor, !.pc = "route"]
  <2>1. turn' = [turn EXCEPT ![t] = x]
    BY <1>4 DEF Find, Become
  <2>2. x \in Turn /\ x.pc = "route" /\ x.w = None /\ x.view = NoAnchor /\ x.ptr = p /\ x.new = turn[t].new
    BY TurnFacts, NoTurnFacts DEF Turn, Pc
  <2> HIDE DEF x
  <2>3. ShapeOK(x) /\ RefOK(x)
    BY <2>2, NoTurnFacts, TurnFacts
    DEF ShapeOK, RefOK, Waiting, Ui, Viewing, Executing, Proposing, UiWaits, KnowsWrite
  <2>4. SendOK(x) /\ Learns(t, x) /\ OwnNew(t, x) /\ x.pc \notin Section \cup Executing
    BY <2>2 DEF SendOK, Learns, OwnNew, Executing, Section, Ui, KnowsWrite
  <2> QED
    BY <1>1, <1>2, <2>1, <2>2, <2>3, <2>4, QuietStep
<1> QED
  BY <1>3, <1>4

LEMMA FindApprovalInv ==
  ASSUME ConnectorInv, NEW t \in Turns, FindApproval(t)
  PROVE  ConnectorInv'
<1> DEFINE w == turn[t].w
<1>1. turn[t].pc = "findApproval" /\ LockStep(t) /\ ~Moves(turn[t])
  BY Locks DEF FindApproval, At, Become, GoOn, Moves
<1>2. /\ w \in Writes /\ turn[t].view \in Anchor /\ turn[t].view.status # "none" /\ turn[t].view.prev = Home
      /\ KnowsWrite(turn[t]) /\ anchor[w].status # "none" /\ approval[w] # "none"
      /\ approval[w] \in {"PENDING", "APPROVED", "REJECTED"}
  BY <1>1, TurnFacts, WriteFacts
  DEF ShapeOK, RefOK, Viewing, KnowsWrite, UiWaits, RowOK, ConnectorInv, KnownInv, Types, TypeOK
<1>3. CASE approval[w] # "PENDING"
  <2> DEFINE x == Closing(t, w, turn[t].view, "route")
  <2>1. Quiet(t, x)
    BY <1>3 DEF FindApproval, Become, Quiet
  <2>2. x \in Turn /\ x.pc = "close" /\ x.w = w /\ x.view = turn[t].view /\ x.ptr = turn[t].ptr /\ x.new = turn[t].new
    BY <1>2, ClosingFacts
  <2> HIDE DEF x
  <2> QED
    BY <1>1, <1>2, <1>3, <2>1, <2>2, StartsClosing
<1>4. CASE approval[w] = "PENDING"
  <2> DEFINE x == IF Expired(w) /\ turn[t].op # "expire"
                  THEN [turn[t] EXCEPT !.op = "expire", !.pc = "lockApproval"]
                  ELSE [turn[t] EXCEPT !.pc = "route"]
  <2>1. Quiet(t, x)
    BY <1>4 DEF FindApproval, Become, GoOn, Quiet
  <2>2. x \in Turn /\ x.pc \in {"lockApproval", "route"} /\ (x.pc = "lockApproval" => x.op = "expire")
    BY TurnFacts DEF Turn, Pc
  <2>3. Goes(t, x)
    BY <1>2, TurnFacts DEF Goes, Turn
  <2> HIDE DEF x
  <2>4. ShapeOK(x) /\ SendOK(x)
    BY <1>2, <2>2, <2>3 DEF ShapeOK, SendOK, Goes, Waiting, Ui, Viewing, Executing, Proposing
  <2> QED
    BY <1>1, <2>1, <2>2, <2>3, <2>4, GoesOn DEF Section, Executing, Proposing, Ui, UiWaits
<1> QED
  BY <1>2, <1>3, <1>4

LEMMA RouteInv ==
  ASSUME ConnectorInv, NEW t \in Turns, Route(t)
  PROVE  ConnectorInv'
<1> DEFINE y == turn[t]
<1>1. y.pc = "route" /\ ~Moves(y) /\ y \in Turn
  BY TurnFacts DEF Route, At, Moves
<1>2. UNCHANGED <<rows, sent, clock, reconciled, counts>> /\ Counts /\ crashes' = crashes /\ errors' = errors
  BY SameCounts DEF Route
<1>3. CASE End(t)
  BY <1>1, <1>2, <1>3, EndStep
<1>4. ASSUME NEW op \in {"approve", "deny", "execute", "revoke"}, NEW now \in Nat,
             y.view.status # "none", Become(t, [y EXCEPT !.op = op, !.now = now, !.pc = "lockApproval"])
      PROVE  ConnectorInv'
  <2> DEFINE x == [y EXCEPT !.op = op, !.now = now, !.pc = "lockApproval"]
  <2>1. Quiet(t, x) /\ LockStep(t)
    BY <1>2, <1>4, Locks DEF Become, Quiet
  <2>2. "lockApproval" \in Pc
    BY DEF Pc
  <2>3. x \in Turn /\ x.pc = "lockApproval" /\ x.op = op
    BY <1>1, <2>2 DEF Turn
  <2>4. Goes(t, x)
    BY <1>1 DEF Goes, KnowsWrite, UiWaits, Turn
  <2> HIDE DEF x
  <2>5. ShapeOK(x) /\ SendOK(x) /\ ~UiWaits(x)
    BY <1>4, <2>3, <2>4, TurnFacts
    DEF ShapeOK, SendOK, Goes, Waiting, Ui, Viewing, Executing, Proposing, UiWaits
  <2> QED
    BY <1>1, <2>1, <2>3, <2>4, <2>5, GoesOn DEF Section, Executing, Proposing, Ui
<1>5. ASSUME NEW w \in Writes, Unused(w), Become(t, [y EXCEPT !.new = w, !.pc = "displace"])
      PROVE  ConnectorInv'
  <2> DEFINE x == [y EXCEPT !.new = w, !.pc = "displace"]
  <2>1. turn' = [turn EXCEPT ![t] = x] /\ LockStep(t)
    BY <1>5, Locks DEF Become
  <2>2. "displace" \in Pc
    BY DEF Pc
  <2>3. x \in Turn /\ x.pc = "displace" /\ x.w = y.w /\ x.view = y.view /\ x.ptr = y.ptr /\ x.new = w
    BY <1>1, <2>2 DEF Turn
  <2> HIDE DEF x
  <2>4. ShapeOK(x) /\ RefOK(x)
    BY <1>1, <1>5, <2>3, TurnFacts
    DEF ShapeOK, RefOK, Waiting, Ui, Viewing, Executing, Proposing, UiWaits, KnowsWrite, Unused
  <2>5. SendOK(x) /\ Learns(t, x) /\ OwnNew(t, x) /\ x.pc \notin Section \cup Executing
    BY <1>1, <1>5, <2>3
    DEF SendOK, Learns, OwnNew, Executing, Section, Ui, KnowsWrite, UiWaits, Unused
  <2> QED
    BY <1>1, <1>2, <2>1, <2>3, <2>4, <2>5, QuietStep
<1>6. CASE /\ y.view.status = "APPROVAL_PENDING"
           /\ \E op \in {"approve", "deny"} : Become(t, [y EXCEPT !.op = op, !.pc = "lockApproval"])
  <2>1. PICK op \in {"approve", "deny"} : Become(t, [y EXCEPT !.op = op, !.pc = "lockApproval"])
    BY <1>6
  <2>2. [y EXCEPT !.op = op, !.pc = "lockApproval"] = [y EXCEPT !.op = op, !.now = y.now, !.pc = "lockApproval"]
        /\ y.now \in Nat
    BY <1>1 DEF Turn
  <2> QED
    BY <1>4, <1>6, <2>1, <2>2
<1>7. CASE /\ y.view.status = "APPROVED"
           /\ \E op \in {"execute", "revoke"} :
                Become(t, [y EXCEPT !.op = op, !.now = clock, !.pc = "lockApproval"])
  BY <1>4, <1>7 DEF ConnectorInv, KnownInv, Types
<1>8. CASE \E w \in Writes : Unused(w) /\ Become(t, [y EXCEPT !.new = w, !.pc = "displace"])
  BY <1>5, <1>8
<1> QED
  BY <1>3, <1>6, <1>7, <1>8 DEF Route

LEMMA ReceiveUiInv ==
  ASSUME ConnectorInv, NEW t \in Turns, ReceiveUi(t)
  PROVE  ConnectorInv'
<1>1. turn[t].pc = "idle" /\ ~Moves(turn[t])
  BY DEF ReceiveUi, At, Moves
<1>2. Counts /\ UNCHANGED <<rows, sent, crashes, errors>>
  BY DEF ReceiveUi, Counts, ConnectorInv, KnownInv, Types, TypeOK
<1>3. PICK w \in Writes, op \in {"uiApprove", "uiDeny"} :
        approval[w] # "none" /\ Become(t, [NoTurn EXCEPT !.pc = "lockApproval", !.op = op, !.w = w])
  BY DEF ReceiveUi
<1> DEFINE x == [NoTurn EXCEPT !.pc = "lockApproval", !.op = op, !.w = w]
<1>4. turn' = [turn EXCEPT ![t] = x] /\ LockStep(t)
  BY <1>3, Locks DEF Become
<1>5. "lockApproval" \in Pc /\ op \in Ui
  BY DEF Pc, Ui
<1>6. x \in Turn /\ x.pc = "lockApproval" /\ x.op = op /\ x.w = w
  BY <1>5, NoTurnFacts DEF Turn
<1>7. x.ptr = None /\ x.new = None /\ x.view = NoAnchor
  BY NoTurnFacts DEF NoTurn
<1> HIDE DEF x
<1>8. ShapeOK(x) /\ RefOK(x)
  BY <1>3, <1>5, <1>6, <1>7, NoTurnFacts
  DEF ShapeOK, RefOK, Waiting, Ui, Viewing, Executing, Proposing, UiWaits, KnowsWrite
<1>9. SendOK(x) /\ Learns(t, x) /\ OwnNew(t, x) /\ x.pc \notin Section \cup Executing
  BY <1>5, <1>6, <1>7 DEF SendOK, Learns, OwnNew, Executing, Section, Ui, KnowsWrite, UiWaits
<1> QED
  BY <1>1, <1>2, <1>4, <1>6, <1>8, <1>9, QuietStep

----------------------------------------------------------------------------
(* The locks *)

LEMMA LockApprovalInv ==
  ASSUME ConnectorInv, NEW t \in Turns, LockApproval(t)
  PROVE  ConnectorInv'
<1> DEFINE y == turn[t]
           pc == IF y.op \in {"uiApprove", "uiDeny"} THEN "peek" ELSE "lockSession"
           x == [y EXCEPT !.pc = pc]
<1>1. y.pc = "lockApproval" /\ ~Moves(y) /\ y \in Turn
  BY TurnFacts DEF LockApproval, At, Moves
<1>2. turn' = [turn EXCEPT ![t] = x] /\ UNCHANGED <<rows, sent, clock, reconciled, counts>>
  BY <1>1 DEF LockApproval, ConnectorInv, KnownInv, Types
<1>3. Quiet(t, x)
  BY <1>2 DEF Quiet
<1>4. LockStep(t)
  <2>1. approvalLock \in [Writes -> Turns \cup {None}] /\ sessionLock \in Turns \cup {None}
    BY DEF ConnectorInv, KnownInv, Types, TypeOK
  <2> QED
    BY <2>1 DEF LockApproval, LockStep
<1>5. pc \in Pc /\ pc = (IF y.op \in Ui THEN "peek" ELSE "lockSession")
  BY DEF Pc, Ui
<1> HIDE DEF pc
<1>6. x \in Turn /\ x.pc = pc /\ x.op = y.op
  BY <1>1, <1>5 DEF Turn
<1>7. Goes(t, x)
  BY <1>1, <1>5 DEF Goes, KnowsWrite, UiWaits, Turn
<1> HIDE DEF x
<1>8. ShapeOK(x) /\ SendOK(x)
  BY <1>1, <1>5, <1>6, <1>7, TurnFacts DEF ShapeOK, SendOK, Goes, Waiting, Ui, Viewing, Executing,
       Proposing
<1>9. UiWaits(x) => approval[x.w] # "none"
  BY <1>1, <1>5, <1>6, <1>7, TurnFacts DEF UiWaits, RefOK, Goes
<1> QED
  BY <1>1, <1>3, <1>4, <1>5, <1>6, <1>7, <1>8, <1>9, GoesOn DEF Section, Executing, Proposing, Ui

LEMMA PeekInv ==
  ASSUME ConnectorInv, NEW t \in Turns, Peek(t)
  PROVE  ConnectorInv'
<1> DEFINE y == turn[t]
           w == y.w
           found == approval[w] = "PENDING" /\ pointer = w /\ anchor[w].status = "APPROVAL_PENDING"
<1>1. y.pc = "peek" /\ ~Moves(y) /\ y \in Turn
  BY TurnFacts DEF Peek, At, Moves
<1>2. UNCHANGED <<rows, sent, clock, reconciled, counts>> /\ Counts /\ crashes' = crashes /\ errors' = errors
  BY SameCounts DEF Peek
<1>3. CASE ~found
  BY <1>1, <1>2, <1>3, EndStep DEF Peek
<1>4. CASE found
  <2> DEFINE x == [y EXCEPT !.pc = "lockSession"]
  <2>1. turn' = [turn EXCEPT ![t] = x] /\ LockStep(t)
    BY <1>4, Locks DEF Peek, GoOn, Become
  <2>2. "lockSession" \in Pc
    BY DEF Pc
  <2>3. x \in Turn /\ x.pc = "lockSession" /\ x.op = y.op /\ x.w = w /\ x.view = y.view /\ x.ptr = y.ptr /\ x.new = y.new
    BY <1>1, <2>2 DEF Turn
  <2> HIDE DEF x
  <2>4. ShapeOK(x) /\ RefOK(x)
    BY <1>1, <1>4, <2>3, TurnFacts
    DEF ShapeOK, RefOK, Waiting, Ui, Viewing, Executing, Proposing, UiWaits, KnowsWrite
  <2>5. SendOK(x) /\ Learns(t, x) /\ OwnNew(t, x) /\ x.pc \notin Section \cup Executing
    BY <1>4, <2>3 DEF SendOK, Learns, OwnNew, Executing, Section, Ui
  <2> QED
    BY <1>1, <1>2, <2>1, <2>3, <2>4, <2>5, QuietStep
<1> QED
  BY <1>3, <1>4

LEMMA LockSessionInv ==
  ASSUME ConnectorInv, NEW t \in Turns, LockSession(t)
  PROVE  ConnectorInv'
<1> DEFINE y == turn[t]
           x == [y EXCEPT !.pc = y.op]
<1>1. y.pc = "lockSession" /\ ~Moves(y) /\ y \in Turn
  BY TurnFacts DEF LockSession, At, Moves
<1>2. turn' = [turn EXCEPT ![t] = x] /\ UNCHANGED <<rows, sent, clock, reconciled, counts>>
  BY <1>1 DEF LockSession, ConnectorInv, KnownInv, Types
<1>3. Quiet(t, x) /\ sessionLock' = t
  BY <1>2 DEF Quiet, LockSession
<1>4. LockStep(t)
  <2>1. approvalLock \in [Writes -> Turns \cup {None}] /\ sessionLock \in Turns \cup {None}
    BY DEF ConnectorInv, KnownInv, Types, TypeOK
  <2> QED
    BY <2>1 DEF LockSession, LockStep
<1>5. y.op # "none" /\ y.op \in {"expire", "approve", "deny", "revoke", "execute"} \cup Ui
  BY <1>1, TurnFacts DEF ShapeOK, Waiting, Turn
<1>6. y.op \in Pc
  BY <1>5 DEF Pc, Viewing
<1>7. x \in Turn /\ x.pc = y.op /\ x.op = y.op
  BY <1>1, <1>6 DEF Turn
<1>8. Goes(t, x)
  BY <1>1 DEF Goes, KnowsWrite, UiWaits, Turn
<1> HIDE DEF x
<1>9. ShapeOK(x) /\ SendOK(x) /\ ~UiWaits(x)
  BY <1>1, <1>5, <1>7, <1>8, TurnFacts
  DEF ShapeOK, SendOK, Goes, Waiting, Ui, Viewing, Executing, Proposing, UiWaits
<1> QED
  BY <1>1, <1>3, <1>4, <1>5, <1>7, <1>8, <1>9, GoesOn DEF Section, Executing, Proposing, Ui

LEMMA LocateUiInv ==
  ASSUME ConnectorInv, NEW t \in Turns, LocateUi(t)
  PROVE  ConnectorInv'
<1> DEFINE y == turn[t]
           w == y.w
           op == IF At(t, "uiApprove") THEN "approve" ELSE "deny"
           open == OpenAnchor(pointer) /\ anchor[pointer].status = "APPROVAL_PENDING"
<1>1. y.pc \in Ui /\ ~Moves(y) /\ y \in Turn /\ op \in {"approve", "deny"} /\ y.pc \in Section
  BY TurnFacts DEF LocateUi, At, Moves, Ui, Section
<1>2. UNCHANGED <<rows, sent, clock, reconciled, counts>> /\ Counts /\ crashes' = crashes /\ errors' = errors
  BY SameCounts DEF LocateUi
<1> HIDE DEF op
<1>3. CASE ~open \/ (approval[pointer] = "PENDING" /\ pointer # w)
  <2>1. End(t)
    BY <1>3 DEF LocateUi
  <2> QED
    BY <1>1, <1>2, <2>1, EndStep
<1>4. CASE open /\ approval[pointer] # "PENDING"
  <2> DEFINE x == Closing(t, pointer, anchor[pointer], "idle")
  <2>1. Quiet(t, x) /\ LockStep(t)
    BY <1>2, <1>4, Locks DEF LocateUi, Become, Quiet
  <2>2. /\ pointer \in Writes /\ anchor[pointer] \in Anchor /\ anchor[pointer].status # "none"
        /\ anchor[pointer].prev = Home /\ approval[pointer] \in {"APPROVED", "REJECTED"}
    BY <1>4, WriteFacts DEF OpenAnchor, RowOK, ConnectorInv, KnownInv, Types, TypeOK
  <2>3. x \in Turn /\ x.pc = "close" /\ x.w = pointer /\ x.view = anchor[pointer] /\ x.ptr = y.ptr /\ x.new = y.new
    BY <2>2, ClosingFacts
  <2> HIDE DEF x
  <2> QED
    BY <1>1, <2>1, <2>2, <2>3, StartsClosing
<1>5. CASE open /\ approval[pointer] = "PENDING" /\ pointer = w
  <2> DEFINE x == [y EXCEPT !.view = anchor[w], !.op = op, !.pc = op]
  <2>1. turn' = [turn EXCEPT ![t] = x] /\ LockStep(t) /\ sessionLock' = t
    BY <1>1, <1>5, Locks, TurnFacts DEF LocateUi, Become, op, locks
  <2>2. op \in Pc /\ w \in Writes /\ anchor[w] \in Anchor /\ anchor[w].status # "none" /\ anchor[w].prev = Home
    BY <1>1, <1>5, WriteFacts DEF Pc, Viewing, OpenAnchor, RowOK
  <2>3. x \in Turn /\ x.pc = op /\ x.w = w /\ x.view = anchor[w] /\ x.ptr = y.ptr /\ x.new = y.new
    BY <1>1, <2>2 DEF Turn
  <2> HIDE DEF x
  <2>4. ShapeOK(x) /\ RefOK(x)
    BY <1>1, <2>2, <2>3, TurnFacts
    DEF ShapeOK, RefOK, Waiting, Ui, Viewing, Executing, Proposing, UiWaits
  <2>5. SendOK(x) /\ Learns(t, x) /\ OwnNew(t, x) /\ x.pc \notin Executing
    BY <1>1, <1>5, <2>3 DEF SendOK, Learns, OwnNew, Executing
  <2> QED
    BY <1>1, <1>2, <2>1, <2>3, <2>4, <2>5, QuietStep
<1> QED
  BY <1>3, <1>4, <1>5

LEMMA ReopenInv ==
  ASSUME ConnectorInv, NEW t \in Turns, Reopen(t)
  PROVE  ConnectorInv'
<1> DEFINE y == turn[t]
           x == [y EXCEPT !.pc = "find", !.ptr = pointer]
<1>1. y.pc = "reopen" /\ ~Moves(y) /\ y \in Turn
  BY TurnFacts DEF Reopen, At, Moves
<1>2. Counts /\ crashes' = crashes /\ errors' = errors /\ UNCHANGED <<rows, sent>>
  BY SameCounts DEF Reopen
<1>3. turn' = [turn EXCEPT ![t] = x] /\ LockStep(t)
  BY Locks DEF Reopen, Become
<1>4. "find" \in Pc
  BY DEF Pc
<1>5. x \in Turn /\ x.pc = "find" /\ x.w = y.w /\ x.view = y.view /\ x.ptr = pointer /\ x.new = y.new
  BY <1>1, <1>4, PointerFacts DEF Turn
<1> HIDE DEF x
<1>6. ShapeOK(x) /\ RefOK(x)
  BY <1>1, <1>5, TurnFacts, PointerFacts
  DEF ShapeOK, RefOK, Waiting, Ui, Viewing, Executing, Proposing, UiWaits, KnowsWrite
<1>7. SendOK(x) /\ Learns(t, x) /\ OwnNew(t, x) /\ x.pc \notin Section \cup Executing
  BY <1>1, <1>5 DEF SendOK, Learns, OwnNew, Executing, Section, Ui, KnowsWrite, UiWaits
<1> QED
  BY <1>1, <1>2, <1>3, <1>5, <1>6, <1>7, QuietStep

LEMMA ClaimInv ==
  ASSUME ConnectorInv, NEW t \in Turns, Claim(t)
  PROVE  ConnectorInv'
<1> DEFINE y == turn[t]
           w == y.w
<1>1. y.pc = "execute" /\ ~Moves(y) /\ y \in Turn /\ y.pc \in Section
  BY TurnFacts DEF Claim, At, Moves, Section
<1>2. UNCHANGED <<rows, sent, clock, reconciled, counts>> /\ Counts /\ crashes' = crashes /\ errors' = errors
  BY SameCounts DEF Claim
<1>3. w \in Writes /\ KnowsWrite(y)
  BY <1>1, TurnFacts DEF ShapeOK, Viewing, KnowsWrite, UiWaits
<1>4. CASE End(t)
  BY <1>1, <1>2, <1>4, EndStep
<1>5. CASE anchor[w].status = "APPROVED" /\ Become(t, Closing(t, w, anchor[w], "idle"))
  <2> DEFINE x == Closing(t, w, anchor[w], "idle")
  <2>1. Quiet(t, x) /\ LockStep(t)
    BY <1>2, <1>5, Locks DEF Become, Quiet
  <2>2. x \in Turn /\ x.pc = "close" /\ x.w = w /\ x.view = anchor[w] /\ x.ptr = y.ptr /\ x.new = y.new
    BY <1>3, <1>5, ApprovedFacts, ClosingFacts
  <2> HIDE DEF x
  <2> QED
    BY <1>1, <1>3, <1>5, <2>1, <2>2, ApprovedFacts, StartsClosing
<1>6. CASE /\ anchor[w].status = "APPROVED" /\ approval[w] = "APPROVED"
           /\ Become(t, [y EXCEPT !.view = anchor[w], !.pc = "consume"])
  <2> DEFINE x == [y EXCEPT !.view = anchor[w], !.pc = "consume"]
  <2>1. turn' = [turn EXCEPT ![t] = x] /\ LockStep(t) /\ sessionLock' = t
    BY <1>1, <1>6, Locks, TurnFacts DEF Become, locks
  <2>2. "consume" \in Pc
    BY DEF Pc, Viewing
  <2>3. x \in Turn /\ x.pc = "consume" /\ x.w = w /\ x.view = anchor[w] /\ x.ptr = y.ptr /\ x.new = y.new
    BY <1>1, <1>3, <1>6, <2>2, ApprovedFacts DEF Turn
  <2> HIDE DEF x
  <2>4. ShapeOK(x) /\ RefOK(x)
    BY <1>1, <1>3, <1>6, <2>3, TurnFacts, ApprovedFacts
    DEF ShapeOK, RefOK, Waiting, Ui, Viewing, Executing, Proposing, UiWaits
  <2>5. SendOK(x) /\ Learns(t, x) /\ OwnNew(t, x) /\ x.pc \notin Executing
    BY <1>3, <1>6, <2>3, ApprovedFacts DEF SendOK, Learns, OwnNew, Executing
  <2> QED
    BY <1>1, <1>2, <2>1, <2>3, <2>4, <2>5, QuietStep
<1> QED
  BY <1>4, <1>5, <1>6 DEF Claim

----------------------------------------------------------------------------
(* Steps that fail *)

\* A failing call leaves the rows alone and is counted.
Failed == UNCHANGED <<clock, rows, reconciled, sent, turns, crashes>> /\ errors' = errors + 1

LEMMA FailedCounts ==
  ASSUME ConnectorInv, Failed
  PROVE  Counts /\ crashes' = crashes /\ errors' = errors + 1 /\ UNCHANGED <<rows, sent>>
BY DEF Failed, Counts, ConnectorInv, KnownInv, Types, TypeOK

LEMMA ThrowsInv ==
  ASSUME ConnectorInv, NEW t \in Turns, Throws(t)
  PROVE  ConnectorInv'
BY FailedCounts, EndStep DEF Throws, Failed

LEMMA CreateAnchorFailsInv ==
  ASSUME ConnectorInv, NEW t \in Turns, CreateAnchorFails(t)
  PROVE  ConnectorInv'
<1> DEFINE y == turn[t]
           x == [y EXCEPT !.pc = "withdraw"]
<1>1. y.pc \in {"saveTask", "point"} /\ y \in Turn /\ Failed
  BY TurnFacts DEF CreateAnchorFails, At, Failed
<1>2. turn' = [turn EXCEPT ![t] = x] /\ LockStep(t)
  BY Locks DEF CreateAnchorFails, GoOn, Become
<1>3. "withdraw" \in Pc
  BY DEF Pc
<1>4. x \in Turn /\ x.pc = "withdraw" /\ x.w = y.w /\ x.view = y.view /\ x.ptr = y.ptr /\ x.new = y.new
  BY <1>1, <1>3 DEF Turn
<1> HIDE DEF x
<1>5. ShapeOK(x) /\ RefOK(x)
  BY <1>1, <1>4, TurnFacts
  DEF ShapeOK, RefOK, Waiting, Ui, Viewing, Executing, Proposing, UiWaits, KnowsWrite
<1>6. SendOK(x) /\ Learns(t, x) /\ OwnNew(t, x) /\ x.pc \notin Section \cup Executing
  BY <1>4 DEF SendOK, Learns, OwnNew, Executing, Section, Ui, KnowsWrite
<1> QED
  BY <1>1, <1>2, <1>4, <1>5, <1>6, FailedCounts, QuietStep

\* A turn past the claim goes on with the same write.
LEMMA ExecutingFacts ==
  ASSUME ConnectorInv, NEW t \in Turns, turn[t].pc \in Executing
  PROVE  /\ turn[t].w \in Writes /\ KnowsWrite(turn[t]) /\ ~Moves(turn[t])
         /\ turn[t].view.status # "none" /\ turn[t].view.prev = Home
         /\ approval[turn[t].w] = "APPROVED"
         /\ anchor[turn[t].w].status \in {"EXECUTING", "CLOSED"}
BY TurnFacts DEF ShapeOK, SendOK, Viewing, KnowsWrite, UiWaits, Moves, Executing

LEMMA ExecutingGoes ==
  ASSUME ConnectorInv, NEW t \in Turns, turn[t].pc \in Executing, NEW x \in Turn,
         x.ptr = turn[t].ptr, x.w = turn[t].w, x.view.status # "none", x.view.prev = Home,
         x.new = turn[t].new, x.pc \in Executing \cup {"return"}
  PROVE  ShapeOK(x) /\ RefOK(x) /\ Learns(t, x) /\ OwnNew(t, x) /\ x.pc \notin Section
<1>1. ShapeOK(x) /\ x.pc \notin Section
  BY TurnFacts, ExecutingFacts DEF ShapeOK, Waiting, Ui, Viewing, Executing, Proposing, Section
<1>2. RefOK(x) /\ Learns(t, x) /\ OwnNew(t, x)
  BY TurnFacts, ExecutingFacts DEF RefOK, Learns, OwnNew, Executing, Proposing, KnowsWrite, UiWaits
<1> QED
  BY <1>1, <1>2

LEMMA ExecutingFails ==
  ASSUME ConnectorInv, NEW t \in Turns, turn[t].pc \in Executing, NEW pc \in Executing,
         NEW outcome \in Outcomes \cup {"none"}, Failed,
         Become(t, [turn[t] EXCEPT !.pc = pc, !.outcome = outcome]),
         pc = "prepare" => turn[t].pc = "reconcile",
         pc = "finish" => outcome \in Outcomes /\ Truthful(outcome, turn[t].w),
         pc \in {"prepare", "finish"}
  PROVE  ConnectorInv'
<1> DEFINE y == turn[t]
           x == [y EXCEPT !.pc = pc, !.outcome = outcome]
<1>1. turn' = [turn EXCEPT ![t] = x] /\ LockStep(t) /\ y \in Turn
  BY Locks, TurnFacts DEF Become
<1>2. pc \in Pc
  BY DEF Pc, Viewing
<1>3. x \in Turn /\ x.pc = pc /\ x.outcome = outcome /\ x.w = y.w /\ x.view = y.view /\ x.ptr = y.ptr /\ x.new = y.new
  BY <1>1, <1>2 DEF Turn
<1> HIDE DEF x
<1>4. ShapeOK(x) /\ RefOK(x) /\ Learns(t, x) /\ OwnNew(t, x) /\ x.pc \notin Section
  BY <1>3, ExecutingFacts, ExecutingGoes
<1>5. SendOK(x)
  BY <1>3, TurnFacts, ExecutingFacts DEF SendOK
<1> QED
  BY <1>1, <1>3, <1>4, <1>5, FailedCounts, QuietStep

LEMMA ExecutionFailsInv ==
  ASSUME ConnectorInv, NEW t \in Turns, ReconcileFails(t) \/ PrepareFails(t) \/ CompleteFails(t)
  PROVE  ConnectorInv'
<1>1. turn[t] \in Turn /\ turn[t].outcome \in Outcomes \cup {"none"} /\ SendOK(turn[t])
  BY TurnFacts DEF Turn
<1>2. CASE ReconcileFails(t)
  <2>1. turn[t].pc = "reconcile" /\ Failed
        /\ Become(t, [turn[t] EXCEPT !.pc = "prepare", !.outcome = turn[t].outcome])
    BY <1>1, <1>2 DEF ReconcileFails, At, Failed, GoOn, Turn
  <2> QED
    BY <1>1, <2>1, ExecutingFails DEF Executing
<1>3. CASE PrepareFails(t)
  <2>1. turn[t].pc = "prepare" /\ Failed
        /\ Become(t, [turn[t] EXCEPT !.pc = "finish", !.outcome = "NOT_SENT"])
    BY <1>3 DEF PrepareFails, At, Failed
  <2>2. Truthful("NOT_SENT", turn[t].w) /\ "NOT_SENT" \in Outcomes
    BY <1>1, <2>1 DEF SendOK, Truthful, Outcomes
  <2> QED
    BY <2>1, <2>2, ExecutingFails DEF Executing
<1>4. CASE CompleteFails(t)
  <2>1. PICK o \in {"UNCERTAIN", "NOT_SENT"} :
          /\ o = "NOT_SENT" => turn[t].outcome = "NOT_SENT"
          /\ Become(t, [turn[t] EXCEPT !.pc = "finish", !.outcome = o])
    BY <1>4 DEF CompleteFails
  <2>2. turn[t].pc = "complete" /\ Failed
    BY <1>4 DEF CompleteFails, At, Failed
  <2>3. Truthful(o, turn[t].w) /\ o \in Outcomes
    BY <1>1, <2>1, <2>2 DEF SendOK, Truthful, Outcomes
  <2> QED
    BY <2>1, <2>2, <2>3, ExecutingFails DEF Executing
<1> QED
  BY <1>2, <1>3, <1>4

----------------------------------------------------------------------------
(* A new request, before its row *)

LEMMA DisplacedPointerInv ==
  ASSUME ConnectorInv, NEW t \in Turns, DisplacedPointer(t)
  PROVE  ConnectorInv'
<1> DEFINE y == turn[t]
           x == [y EXCEPT !.pc = "displaced", !.ptr = pointer]
<1>1. y.pc = "displace" /\ ~Moves(y) /\ y \in Turn
  BY TurnFacts DEF DisplacedPointer, At, Moves
<1>2. Counts /\ crashes' = crashes /\ errors' = errors /\ UNCHANGED <<rows, sent>>
  BY SameCounts DEF DisplacedPointer
<1>3. turn' = [turn EXCEPT ![t] = x] /\ LockStep(t)
  BY Locks DEF DisplacedPointer, Become
<1>4. "displaced" \in Pc
  BY DEF Pc
<1>5. x \in Turn /\ x.pc = "displaced" /\ x.w = y.w /\ x.view = y.view /\ x.ptr = pointer /\ x.new = y.new
  BY <1>1, <1>4, PointerFacts DEF Turn
<1> HIDE DEF x
<1>6. ShapeOK(x) /\ RefOK(x)
  BY <1>1, <1>5, TurnFacts, PointerFacts
  DEF ShapeOK, RefOK, Waiting, Ui, Viewing, Executing, Proposing, UiWaits, KnowsWrite
<1>7. SendOK(x) /\ Learns(t, x) /\ OwnNew(t, x) /\ x.pc \notin Section \cup Executing
  BY <1>1, <1>5 DEF SendOK, Learns, OwnNew, Executing, Section, Ui, KnowsWrite, UiWaits
<1> QED
  BY <1>1, <1>2, <1>3, <1>5, <1>6, <1>7, QuietStep

LEMMA DisplacedInv ==
  ASSUME ConnectorInv, NEW t \in Turns, Displaced(t)
  PROVE  ConnectorInv'
<1> DEFINE y == turn[t]
           p == y.ptr
<1>1. y.pc = "displaced" /\ ~Moves(y) /\ y \in Turn /\ p \in Writes \cup {Home} /\ LockStep(t)
  BY TurnFacts, Locks DEF Displaced, At, Moves, ShapeOK, Become
<1>2. Counts /\ crashes' = crashes /\ errors' = errors /\ UNCHANGED <<rows, sent>>
  BY SameCounts DEF Displaced
<1>3. CASE p \notin Writes
  <2> DEFINE v == [NoAnchor EXCEPT !.prev = p]
             x == [y EXCEPT !.pc = "request", !.view = v]
  <2>1. turn' = [turn EXCEPT ![t] = x]
    BY <1>3 DEF Displaced, Become
  <2>2. v \in Anchor /\ v.status = "none" /\ v.prev = Home
    BY <1>1, <1>3, NoTurnFacts DEF Anchor
  <2>3. "request" \in Pc
    BY DEF Pc
  <2> HIDE DEF v
  <2>4. x \in Turn /\ x.pc = "request" /\ x.w = y.w /\ x.view = v /\ x.ptr = p /\ x.new = y.new
    BY <1>1, <2>2, <2>3 DEF Turn
  <2> HIDE DEF x
  <2>5. ShapeOK(x) /\ RefOK(x)
    BY <1>1, <2>2, <2>4, TurnFacts
    DEF ShapeOK, RefOK, Waiting, Ui, Viewing, Executing, Proposing, UiWaits, KnowsWrite
  <2>6. SendOK(x) /\ Learns(t, x) /\ OwnNew(t, x) /\ x.pc \notin Section \cup Executing
    BY <1>1, <2>4 DEF SendOK, Learns, OwnNew, Executing, Section, Ui, KnowsWrite, UiWaits
  <2> QED
    BY <1>1, <1>2, <2>1, <2>4, <2>5, <2>6, QuietStep
<1>4. CASE p \in Writes
  <2> DEFINE pc == IF anchor[p].status = "APPROVED" THEN "supersede" ELSE "request"
             x == [y EXCEPT !.w = p, !.view = anchor[p], !.pc = pc]
  <2>1. turn' = [turn EXCEPT ![t] = x]
    BY <1>4 DEF Displaced, Become
  <2>2. /\ anchor[p] \in Anchor /\ anchor[p].status # "none" /\ anchor[p].prev = Home
        /\ pc \in {"supersede", "request"} /\ (pc = "supersede" => anchor[p].status = "APPROVED")
    BY <1>1, <1>4, WriteFacts, TurnFacts DEF RefOK, RowOK
  <2>3. pc \in Pc
    BY DEF Pc, Viewing
  <2> HIDE DEF pc
  <2>4. x \in Turn /\ x.pc = pc /\ x.w = p /\ x.view = anchor[p] /\ x.ptr = p /\ x.new = y.new
    BY <1>1, <1>4, <2>2, <2>3 DEF Turn
  <2> HIDE DEF x
  <2>5. ShapeOK(x) /\ RefOK(x)
    BY <1>1, <1>4, <2>2, <2>4, TurnFacts
    DEF ShapeOK, RefOK, Waiting, Ui, Viewing, Executing, Proposing, UiWaits, KnowsWrite
  <2>6. SendOK(x) /\ Learns(t, x) /\ OwnNew(t, x) /\ x.pc \notin Section \cup Executing
    BY <1>1, <1>4, <2>2, <2>4, ApprovedFacts DEF SendOK, Learns, OwnNew, Executing, Section, Ui
  <2> QED
    BY <1>1, <1>2, <2>1, <2>2, <2>4, <2>5, <2>6, QuietStep
<1> QED
  BY <1>3, <1>4

----------------------------------------------------------------------------
(* A turn changes the rows of one write *)

OtherRowsSame(w) ==
  \A v \in Writes \ {w} :
    approval'[v] = approval[v] /\ anchor'[v] = anchor[v] /\ receipt'[v] = receipt[v] /\ sent'[v] = sent[v]

\* No other turn is past the claim of this write.
Alone(t, w) == \A s \in Turns \ {t} : turn[s].w = w => turn[s].pc \notin Executing

\* The step is right for the other turns at work on this write.
OthersSendOK(t, w) == \A s \in Turns \ {t} : turn[s].w = w => SendOK(turn[s])'

LEMMA SendStep ==
  ASSUME ConnectorInv, NEW t \in Turns, NEW x \in Turn, turn' = [turn EXCEPT ![t] = x],
         NEW w \in Writes, OtherRowsSame(w),
         x.pc \in Executing => x.w = w /\ Alone(t, w),
         WriteOK(w)', SendOK(turn[t])', OthersSendOK(t, w)
  PROVE  SendInv'
<1>1. turn \in [Turns -> Turn] /\ turn'[t] = x /\ \A s \in Turns \ {t} : turn'[s] = turn[s]
  BY DEF ConnectorInv, KnownInv, Types
<1>2. ASSUME NEW v \in Writes \ {w} PROVE WriteOK(v)' /\ (Fresh(v) => Fresh(v)')
  <2>1. approval'[v] = approval[v] /\ anchor'[v] = anchor[v] /\ receipt'[v] = receipt[v] /\ sent'[v] = sent[v]
    BY DEF OtherRowsSame
  <2>2. Fresh(v) => Fresh(v)'
    BY <1>1, <2>1 DEF Fresh
  <2>3. WriteOK(v)'
    BY <2>1, <2>2, WriteFacts DEF WriteOK, Truthful
  <2> QED
    BY <2>2, <2>3
<1>3. ASSUME NEW s \in Turns \ {t} PROVE SendOK(turn[s])'
  <2>1. turn[s] \in Turn /\ SendOK(turn[s]) /\ ShapeOK(turn[s]) /\ turn'[s] = turn[s] /\ turn[s].w \in Writes \cup {None}
    BY <1>1, TurnFacts
  <2>2. CASE turn[s].w = w
    BY <2>2 DEF OthersSendOK
  <2>3. CASE turn[s].w # w /\ turn[s].pc \in Viewing
    <3> DEFINE v == turn[s].w
    <3>1. v \in Writes \ {w}
      BY <2>1, <2>3 DEF ShapeOK
    <3>2. approval'[v] = approval[v] /\ anchor'[v] = anchor[v] /\ receipt'[v] = receipt[v] /\ sent'[v] = sent[v]
      BY <3>1 DEF OtherRowsSame
    <3> QED
      BY <1>2, <2>1, <3>1, <3>2 DEF SendOK, Truthful
  <2>4. CASE turn[s].pc \notin Viewing
    BY <2>1, <2>4 DEF SendOK, Viewing, Executing
  <2> QED
    BY <2>2, <2>3, <2>4
<1>4. \A r, s \in Turns :
        turn'[r].pc \in Executing /\ turn'[s].pc \in Executing /\ turn'[r].w = turn'[s].w => r = s
  BY <1>1 DEF ConnectorInv, SendInv, Alone
<1> QED
  BY <1>1, <1>2, <1>3, <1>4 DEF SendInv

\* Whoever keeps or hands on the pointer's mover.
LEMMA ReleasedStep ==
  ASSUME ConnectorInv, NEW t \in Turns, NEW x \in Turn, turn' = [turn EXCEPT ![t] = x],
         pointer' = pointer, crashes' = crashes, errors' = errors,
         Moves(turn[t]) => x.pc \in {"request", "saveTask", "point"},
         \A w \in Writes : anchor'[w].status = "CLOSED" =>
           anchor[w].status = "CLOSED" \/ (x.pc = "restore" /\ x.w = w) \/ x.pc = "request"
  PROVE  ReleasedOK'
<1>1. turn \in [Turns -> Turn] /\ turn'[t] = x /\ \A s \in Turns \ {t} : turn'[s] = turn[s]
  BY DEF ConnectorInv, KnownInv, Types
<1>2. SUFFICES ASSUME crashes' = 0, errors' = 0, pointer' \in Writes, anchor'[pointer'].status = "CLOSED"
               PROVE  \E s \in Turns : Moves(turn[s])'
  BY DEF ReleasedOK
<1>3. CASE anchor[pointer].status = "CLOSED"
  <2>1. PICK s \in Turns : Moves(turn[s])
    BY <1>2, <1>3 DEF ConnectorInv, CloseInv, ReleasedOK
  <2> QED
    BY <1>1, <2>1 DEF Moves
<1>4. CASE anchor[pointer].status # "CLOSED"
  BY <1>1, <1>2, <1>4 DEF Moves
<1> QED
  BY <1>3, <1>4

LEMMA OneRow ==
  ASSUME ConnectorInv, NEW t \in Turns, NEW x \in Turn, turn' = [turn EXCEPT ![t] = x],
         NEW w \in Writes, w = turn[t].w, KnowsWrite(turn[t]), OtherRowsSame(w), RowTypes,
         UNCHANGED <<pointer, clock, reconciled, counts>>, LockStep(t),
         approval'[w] # "none", anchor'[w].status # "none", anchor'[w].prev = Home,
         anchor'[w].status = "CLOSED" =>
           anchor[w].status = "CLOSED" \/ (x.pc = "restore" /\ x.w = w) \/ x.pc = "request",
         ~Moves(turn[t]), x.pc # "point",
         ShapeOK(x), RefOK(turn[t])', x.pc \in Section => sessionLock' = t,
         Learns(t, x), OwnNew(t, x),
         x.pc \in Executing => x.w = w /\ Alone(t, w),
         WriteOK(w)', SendOK(turn[t])', OthersSendOK(t, w)
  PROVE  ConnectorInv'
<1>1. anchor[w].status # "none" /\ approval[w] # "none"
  BY TurnFacts, WriteFacts DEF RefOK, RowOK
<1>2. RowsStep(t)
  BY <1>1 DEF RowsStep, OtherRowsSame
<1>3. \A v \in Writes : RowOK(v)'
  BY WriteFacts DEF RowOK, OtherRowsSame
<1>4. PointerOK'
  BY PointerFacts DEF PointerOK, OtherRowsSame
<1>5. Counts /\ crashes' = crashes /\ errors' = errors
  BY SameCounts
<1>6. KnownInv'
  BY <1>2, <1>3, <1>4, <1>5, KnownStep DEF ConnectorInv
<1>7. SendInv'
  BY SendStep
<1>8. \A s \in Turns : CreatedOK(s)'
  BY CreatedStep DEF OtherRowsSame
<1>9. ReleasedOK'
  <2>1. \A v \in Writes : anchor'[v].status = "CLOSED" =>
           anchor[v].status = "CLOSED" \/ (x.pc = "restore" /\ x.w = v) \/ x.pc = "request"
    BY DEF OtherRowsSame
  <2> QED
    BY <1>5, <2>1, ReleasedStep
<1> QED
  BY <1>6, <1>7, <1>8, <1>9 DEF ConnectorInv, CloseInv

----------------------------------------------------------------------------
(* Decisions *)

LEMMA RowTyping ==
  ASSUME ConnectorInv
  PROVE  /\ approval \in [Writes -> {"none", "PENDING", "APPROVED", "REJECTED"}]
         /\ requestedAt \in [Writes -> Nat] /\ anchor \in [Writes -> Anchor]
         /\ receipt \in [Writes -> {"none", "PREPARED"} \cup Outcomes] /\ sent \in [Writes -> Nat]
BY DEF ConnectorInv, KnownInv, Types, TypeOK

\* One turn at a time is inside the locks.
LEMMA SectionAlone ==
  ASSUME ConnectorInv, NEW t \in Turns, turn[t].pc \in Section, NEW s \in Turns \ {t}
  PROVE  turn[s].pc \notin Section
BY TurnFacts

LEMMA DecisionStep ==
  ASSUME ConnectorInv, NEW t \in Turns, NEW x \in Turn, turn' = [turn EXCEPT ![t] = x],
         turn[t].pc \in {"expire", "approve", "deny", "revoke"},
         NEW w \in Writes, w = turn[t].w, NEW d \in {"APPROVED", "REJECTED"}, Fresh(w),
         approval' = [approval EXCEPT ![w] = d],
         UNCHANGED <<requestedAt, anchor, pointer, receipt, sent, clock, reconciled, counts, locks>>,
         x.pc = "close" \/ (x.pc = "record" /\ d = "APPROVED"),
         x.w = w, x.ptr = turn[t].ptr, x.new = turn[t].new, x.view.status # "none",
             x.view.prev = Home
  PROVE  ConnectorInv'
<1>1. /\ turn[t].pc \in Section /\ KnowsWrite(turn[t]) /\ ~Moves(turn[t])
      /\ anchor[w].status # "none" /\ anchor[w].prev = Home
  BY TurnFacts, WriteFacts DEF Section, KnowsWrite, UiWaits, RefOK, RowOK, Moves, ShapeOK, Viewing
<1>2. turn \in [Turns -> Turn] /\ turn'[t] = x /\ \A s \in Turns \ {t} : turn'[s] = turn[s]
  BY DEF ConnectorInv, KnownInv, Types
<1>3. OtherRowsSame(w) /\ RowTypes /\ approval'[w] = d
  BY RowTyping DEF OtherRowsSame, RowTypes
<1>4. LockStep(t) /\ sessionLock' = t
  BY <1>1, Locks, TurnFacts DEF locks
<1>5. ShapeOK(x) /\ x.pc \notin Executing \cup {"point"}
  BY DEF ShapeOK, Waiting, Ui, Viewing, Proposing, Executing
<1>6. RefOK(turn[t])' /\ Learns(t, x) /\ OwnNew(t, x)
  BY <1>1, <1>2, TurnFacts DEF RefOK, Learns, OwnNew, KnowsWrite, UiWaits, Proposing
<1>7. Fresh(w)'
  BY <1>2, <1>5 DEF Fresh
<1>8. WriteOK(w)'
  BY <1>3, <1>7, WriteFacts DEF WriteOK, Fresh, Truthful
<1>9. SendOK(turn[t])'
  BY <1>2, <1>3, <1>5, <1>7 DEF SendOK, Executing
<1>10. OthersSendOK(t, w)
  <2> SUFFICES ASSUME NEW s \in Turns \ {t}, turn[s].w = w PROVE SendOK(turn[s])'
    BY DEF OthersSendOK
  <2>1. turn[s].pc \notin Section \cup Executing
    BY <1>1, SectionAlone DEF Fresh
  <2> QED
    BY <1>2, <1>3, <2>1 DEF SendOK, Section, Executing
<1> QED
  BY <1>1, <1>3, <1>4, <1>5, <1>6, <1>8, <1>9, <1>10, OneRow

LEMMA ExpireInv ==
  ASSUME ConnectorInv, NEW t \in Turns, Expire(t)
  PROVE  ConnectorInv'
<1> DEFINE y == turn[t]
           w == y.w
<1>1. /\ y.pc = "expire" /\ y \in Turn /\ w \in Writes /\ KnowsWrite(y) /\ ~Moves(y)
      /\ y.view \in Anchor /\ y.view.status # "none" /\ y.view.prev = Home
  BY TurnFacts DEF Expire, At, ShapeOK, Viewing, KnowsWrite, UiWaits, Moves
<1>2. CASE approval[w] = "PENDING"
  <2> DEFINE x == Closing(t, w, y.view, "idle")
  <2>1. /\ turn' = [turn EXCEPT ![t] = x] /\ approval' = [approval EXCEPT ![w] = "REJECTED"]
        /\ UNCHANGED <<requestedAt, anchor, pointer, receipt, sent, clock, reconciled, counts, locks>>
    BY <1>2 DEF Expire, Become
  <2>2. x \in Turn /\ x.pc = "close" /\ x.w = w /\ x.view = y.view /\ x.ptr = y.ptr /\ x.new = y.new
    BY <1>1, ClosingFacts
  <2> HIDE DEF x
  <2>3. Fresh(w)
    BY <1>1, <1>2, WriteFacts DEF WriteOK
  <2> QED
    BY <1>1, <2>1, <2>2, <2>3, DecisionStep
<1>3. CASE approval[w] # "PENDING"
  <2> DEFINE x == [y EXCEPT !.pc = "reopen"]
  <2>1. turn' = [turn EXCEPT ![t] = x] /\ LockStep(t)
    BY <1>1, <1>3, Locks DEF Expire, ConnectorInv, KnownInv, Types
  <2>2. Quiet(t, x)
    BY <1>3, <2>1 DEF Expire, Quiet, rows
  <2>3. "reopen" \in Pc
    BY DEF Pc
  <2>4. x \in Turn /\ x.pc = "reopen"
    BY <1>1, <2>3 DEF Turn
  <2>5. Goes(t, x)
    BY <1>1 DEF Goes, Turn
  <2> HIDE DEF x
  <2>6. ShapeOK(x) /\ SendOK(x)
    BY <1>1, <2>4, <2>5 DEF ShapeOK, SendOK, Goes, Waiting, Ui, Viewing, Executing, Proposing
  <2> QED
    BY <1>1, <2>1, <2>2, <2>4, <2>5, <2>6, GoesOn DEF Section, Executing, Proposing, Ui, UiWaits
<1> QED
  BY <1>2, <1>3

LEMMA DecideInv ==
  ASSUME ConnectorInv, NEW t \in Turns, Decide(t)
  PROVE  ConnectorInv'
<1> DEFINE y == turn[t]
           w == y.w
           approved == At(t, "approve") /\ ~Expired(w)
           d == IF approved THEN "APPROVED" ELSE "REJECTED"
<1>1. /\ y.pc \in {"approve", "deny"} /\ y \in Turn /\ w \in Writes /\ KnowsWrite(y) /\ ~Moves(y)
      /\ y.view \in Anchor /\ y.view.status # "none" /\ y.view.prev = Home
  BY TurnFacts DEF Decide, At, ShapeOK, Viewing, KnowsWrite, UiWaits, Moves
<1>2. CASE approval[w] # "PENDING"
  <2>1. End(t) /\ UNCHANGED <<rows, sent, clock, reconciled, counts>>
    BY <1>2 DEF Decide, rows
  <2> QED
    BY <1>1, <2>1, SameCounts, EndStep
<1>3. CASE approval[w] = "PENDING"
  <2> DEFINE x == IF approved THEN [y EXCEPT !.pc = "record"] ELSE Closing(t, w, y.view, "idle")
  <2>1. /\ turn' = [turn EXCEPT ![t] = x] /\ approval' = [approval EXCEPT ![w] = d]
        /\ UNCHANGED <<requestedAt, anchor, pointer, receipt, sent, clock, reconciled, counts, locks>>
    BY <1>3 DEF Decide, Become, GoOn
  <2>2. "record" \in Pc
    BY DEF Pc, Viewing
  <2>3. CASE approved
    <3>1. x = [y EXCEPT !.pc = "record"] /\ d = "APPROVED"
      BY <2>3
    <3>2. x \in Turn /\ x.pc = "record" /\ x.w = w /\ x.view = y.view /\ x.ptr = y.ptr /\ x.new = y.new
      BY <1>1, <2>2, <3>1 DEF Turn
    <3> HIDE DEF x
    <3>3. Fresh(w)
      BY <1>1, <1>3, WriteFacts DEF WriteOK
    <3> QED
      BY <1>1, <2>1, <3>1, <3>2, <3>3, DecisionStep
  <2>4. CASE ~approved
    <3>1. x = Closing(t, w, y.view, "idle") /\ d = "REJECTED"
      BY <2>4
    <3>2. x \in Turn /\ x.pc = "close" /\ x.w = w /\ x.view = y.view /\ x.ptr = y.ptr /\ x.new = y.new
      BY <1>1, <3>1, ClosingFacts
    <3> HIDE DEF x
    <3>3. Fresh(w)
      BY <1>1, <1>3, WriteFacts DEF WriteOK
    <3> QED
      BY <1>1, <2>1, <3>1, <3>2, <3>3, DecisionStep
  <2> QED
    BY <2>3, <2>4
<1> QED
  BY <1>2, <1>3

LEMMA RevokeInv ==
  ASSUME ConnectorInv, NEW t \in Turns, Revoke(t)
  PROVE  ConnectorInv'
<1> DEFINE y == turn[t]
           w == y.w
<1>1. y.pc = "revoke" /\ w \in Writes /\ ~Moves(y)
  BY TurnFacts DEF Revoke, At, ShapeOK, Viewing, Moves
<1>2. CASE anchor[w].status # "APPROVED"
  <2>1. End(t) /\ UNCHANGED <<rows, sent, clock, reconciled, counts>>
    BY <1>2 DEF Revoke, rows
  <2> QED
    BY <1>1, <2>1, SameCounts, EndStep
<1>3. CASE anchor[w].status = "APPROVED"
  <2> DEFINE x == Closing(t, w, anchor[w], "idle")
  <2>1. approval[w] \in {"APPROVED", "REJECTED"}
    BY <1>1, <1>3, ApprovedFacts
  <2>2. /\ turn' = [turn EXCEPT ![t] = x] /\ approval' = [approval EXCEPT ![w] = "REJECTED"]
        /\ UNCHANGED <<requestedAt, anchor, pointer, receipt, sent, clock, reconciled, counts, locks>>
    BY <1>1, <1>3, <2>1, RowTyping DEF Revoke, Become
  <2>3. x \in Turn /\ x.pc = "close" /\ x.w = w /\ x.view = anchor[w] /\ x.ptr = y.ptr /\ x.new = y.new
    BY <1>1, <1>3, ApprovedFacts, ClosingFacts
  <2> HIDE DEF x
  <2> QED
    BY <1>1, <1>3, <2>2, <2>3, ApprovedFacts, DecisionStep
<1> QED
  BY <1>2, <1>3

----------------------------------------------------------------------------
(* Anchors *)

\* The turn goes on with the same write, or is over.
Keeps(t, x) ==
  x = NoTurn \/ (x.w = turn[t].w /\ x.ptr = turn[t].ptr /\ x.new = turn[t].new
                 /\ x.pc \notin Proposing \cup {"saveTask", "point", "withdraw", "lockApproval", "peek"})

\* What a saved anchor says is right for its write.
SavedOK(t, x, w, a) ==
  /\ a.status \in {"APPROVED", "EXECUTING", "CLOSED"} \cup Outcomes /\ a.prev = Home
  /\ a.status = "APPROVED" => Fresh(w)
  /\ Truthful(a.status, w)
  /\ approval[w] \in {"APPROVED", "REJECTED"}
  /\ a.status \in {"EXECUTING", "CLOSED"} \/ Alone(t, w)
  /\ a.status = "CLOSED" => x.pc \in {"restore", "request"}

LEMMA AnchorStep ==
  ASSUME ConnectorInv, NEW t \in Turns, NEW x \in Turn, turn' = [turn EXCEPT ![t] = x],
         NEW w \in Writes, w = turn[t].w, KnowsWrite(turn[t]), NEW a \in Anchor,
             SavedOK(t, x, w, a),
         anchor' = [anchor EXCEPT ![w] = a],
         UNCHANGED <<approval, requestedAt, pointer, receipt, sent, clock, reconciled, counts>>,
         LockStep(t), ShapeOK(x), x.pc \notin Section, ~Moves(turn[t]),
         Keeps(t, x) \/ (x.pc = "request" /\ x.w = w /\ x.ptr = turn[t].ptr /\ x.new = turn[t].new
                         /\ approval[x.new] = "none"),
         x.pc \in Executing => turn[t].pc \in Section /\ Alone(t, w) /\ a.status = "EXECUTING",
         SendOK(turn[t])'
  PROVE  ConnectorInv'
<1>1. turn \in [Turns -> Turn] /\ turn'[t] = x /\ \A s \in Turns \ {t} : turn'[s] = turn[s]
  BY DEF ConnectorInv, KnownInv, Types
<1>2. OtherRowsSame(w) /\ RowTypes /\ anchor'[w] = a
  BY RowTyping DEF OtherRowsSame, RowTypes
<1>3. /\ approval'[w] # "none" /\ a.status # "none" /\ a.prev = Home
      /\ a.status = "CLOSED" => (x.pc = "restore" /\ x.w = w) \/ x.pc = "request"
      /\ x.pc # "point"
  BY NoTurnFacts DEF SavedOK, Outcomes, Keeps
<1>4. RefOK(turn[t])'
  BY <1>1, <1>2, <1>3, NoTurnFacts, TurnFacts
  DEF RefOK, Keeps, KnowsWrite, UiWaits, Proposing, OtherRowsSame
<1>5. Learns(t, x) /\ OwnNew(t, x)
  BY NoTurnFacts DEF Learns, Keeps, KnowsWrite, OwnNew
<1>6. x.pc \in Executing => x.w = w /\ Alone(t, w)
  BY NoTurnFacts DEF Keeps, Executing
<1>7. a.status = "APPROVED" => Fresh(w)'
  <2> SUFFICES ASSUME a.status = "APPROVED" PROVE Fresh(w)'
    OBVIOUS
  <2>1. Fresh(w) /\ x.pc \notin Executing
    BY DEF SavedOK
  <2> QED
    BY <1>1, <2>1 DEF Fresh
<1>8. WriteOK(w)'
  BY <1>2, <1>7, WriteFacts DEF WriteOK, SavedOK, Truthful, Outcomes
<1>9. OthersSendOK(t, w)
  <2> SUFFICES ASSUME NEW s \in Turns \ {t}, turn[s].w = w PROVE SendOK(turn[s])'
    BY DEF OthersSendOK
  <2>1. SendOK(turn[s]) /\ turn'[s] = turn[s]
    BY <1>1, TurnFacts
  <2>2. turn[s].pc \in {"record", "consume"} => Fresh(w)'
    <3> SUFFICES ASSUME turn[s].pc \in {"record", "consume"} PROVE Fresh(w)'
      OBVIOUS
    <3>1. Fresh(w) /\ turn[s].pc \in Section
      BY <2>1 DEF SendOK, Section
    <3>2. x.pc \notin Executing
      BY <3>1, SectionAlone
    <3> QED
      BY <1>1, <3>1, <3>2 DEF Fresh
  <2>3. turn[s].pc \in Executing => a.status \in {"EXECUTING", "CLOSED"}
    BY DEF SavedOK, Alone
  <2> QED
    BY <1>2, <2>1, <2>2, <2>3 DEF SendOK, Truthful
<1> QED
  BY <1>2, <1>3, <1>4, <1>5, <1>6, <1>8, <1>9, OneRow

LEMMA RecordApprovalInv ==
  ASSUME ConnectorInv, NEW t \in Turns, RecordApproval(t)
  PROVE  ConnectorInv'
<1> DEFINE y == turn[t]
           w == y.w
           a == [y.view EXCEPT !.status = "APPROVED", !.approvedAt = clock]
<1>1. /\ y.pc = "record" /\ y \in Turn /\ w \in Writes /\ KnowsWrite(y) /\ ~Moves(y) /\ SendOK(y)
      /\ y.view \in Anchor /\ y.view.status # "none" /\ y.view.prev = Home
  BY TurnFacts DEF RecordApproval, At, ShapeOK, Viewing, KnowsWrite, UiWaits, Moves
<1>2. a \in Anchor /\ a.status = "APPROVED" /\ a.prev = Home
  BY <1>1 DEF Anchor, AnchorStatus, ConnectorInv, KnownInv, Types
<1>3. /\ anchor' = [anchor EXCEPT ![w] = a] /\ turn' = [turn EXCEPT ![t] = NoTurn] /\ LockStep(t)
      /\ UNCHANGED <<approval, requestedAt, pointer, receipt, sent, clock, reconciled, counts>>
  BY Locks DEF RecordApproval, End
<1> HIDE DEF a
<1>4. SavedOK(t, NoTurn, w, a)
  BY <1>1, <1>2 DEF SavedOK, SendOK, Fresh, Alone, Truthful
<1>5. turn'[t] = NoTurn
  BY <1>3 DEF ConnectorInv, KnownInv, Types
<1>6. SendOK(turn[t])' /\ NoTurn.pc \notin Section \cup Executing /\ Keeps(t, NoTurn)
  BY <1>5, NoTurnFacts DEF SendOK, Section, Executing, Ui, Keeps
<1> QED
  BY <1>1, <1>2, <1>3, <1>4, <1>6, NoTurnFacts, AnchorStep

LEMMA ConsumeInv ==
  ASSUME ConnectorInv, NEW t \in Turns, Consume(t)
  PROVE  ConnectorInv'
<1> DEFINE y == turn[t]
           w == y.w
           a == [y.view EXCEPT !.status = "EXECUTING"]
           x == [y EXCEPT !.view = a, !.pc = "reconcile"]
<1>1. /\ y.pc = "consume" /\ y \in Turn /\ w \in Writes /\ KnowsWrite(y) /\ ~Moves(y) /\ SendOK(y)
      /\ y.view \in Anchor /\ y.view.status # "none" /\ y.view.prev = Home
  BY TurnFacts DEF Consume, At, ShapeOK, Viewing, KnowsWrite, UiWaits, Moves
<1>2. a \in Anchor /\ a.status = "EXECUTING" /\ a.prev = Home
  BY <1>1 DEF Anchor, AnchorStatus
<1>3. /\ anchor' = [anchor EXCEPT ![w] = a] /\ turn' = [turn EXCEPT ![t] = x] /\ LockStep(t)
      /\ UNCHANGED <<approval, requestedAt, pointer, receipt, sent, clock, reconciled, counts>>
  BY <1>1, Locks DEF Consume, ConnectorInv, KnownInv, Types, Turn
<1> HIDE DEF a
<1>4. "reconcile" \in Pc
  BY DEF Pc, Viewing, Executing
<1>5. x \in Turn /\ x.pc = "reconcile" /\ x.w = w /\ x.view = a /\ x.ptr = y.ptr /\ x.new = y.new
  BY <1>1, <1>2, <1>4 DEF Turn
<1> HIDE DEF x
<1>6. Fresh(w) /\ approval[w] = "APPROVED"
  BY <1>1 DEF SendOK
<1>7. SavedOK(t, x, w, a) /\ Alone(t, w)
  BY <1>2, <1>6 DEF SavedOK, Fresh, Alone, Truthful
<1>8. turn'[t] = x /\ anchor'[w] = a
  BY <1>1, <1>3, RowTyping DEF ConnectorInv, KnownInv, Types
<1>9. SendOK(turn[t])' /\ x.pc \notin Section
  BY <1>2, <1>3, <1>5, <1>6, <1>8 DEF SendOK, Section, Executing, Ui, Fresh
<1>10. ShapeOK(x) /\ Keeps(t, x) /\ y.pc \in Section
  BY <1>1, <1>2, <1>5 DEF ShapeOK, Keeps, Section, Waiting, Ui, Viewing, Executing, Proposing
<1> QED
  BY <1>1, <1>2, <1>3, <1>5, <1>7, <1>9, <1>10, AnchorStep

LEMMA CloseSaveInv ==
  ASSUME ConnectorInv, NEW t \in Turns, CloseSave(t)
  PROVE  ConnectorInv'
<1> DEFINE y == turn[t]
           w == y.w
           a == [y.view EXCEPT !.status = "CLOSED"]
           x == [y EXCEPT !.pc = "restore"]
<1>1. /\ y.pc = "close" /\ y \in Turn /\ w \in Writes /\ KnowsWrite(y) /\ ~Moves(y) /\ SendOK(y)
      /\ y.view \in Anchor /\ y.view.status # "none" /\ y.view.prev = Home
  BY TurnFacts DEF CloseSave, At, ShapeOK, Viewing, KnowsWrite, UiWaits, Moves
<1>2. a \in Anchor /\ a.status = "CLOSED" /\ a.prev = Home
  BY <1>1 DEF Anchor, AnchorStatus
<1>3. /\ anchor' = [anchor EXCEPT ![w] = a] /\ turn' = [turn EXCEPT ![t] = x] /\ LockStep(t)
      /\ UNCHANGED <<approval, requestedAt, pointer, receipt, sent, clock, reconciled, counts>>
  BY Locks DEF CloseSave, GoOn, Become
<1> HIDE DEF a
<1>4. "restore" \in Pc
  BY DEF Pc, Viewing
<1>5. x \in Turn /\ x.pc = "restore" /\ x.w = w /\ x.view = y.view /\ x.ptr = y.ptr /\ x.new = y.new
  BY <1>1, <1>4 DEF Turn
<1> HIDE DEF x
<1>6. SavedOK(t, x, w, a)
  BY <1>1, <1>2, <1>5 DEF SavedOK, SendOK, Truthful
<1>7. turn'[t] = x
  BY <1>3 DEF ConnectorInv, KnownInv, Types
<1>8. SendOK(turn[t])' /\ x.pc \notin Section \cup Executing
  BY <1>5, <1>7 DEF SendOK, Section, Executing, Ui
<1>9. ShapeOK(x) /\ Keeps(t, x)
  BY <1>1, <1>5 DEF ShapeOK, Keeps, Waiting, Ui, Viewing, Executing, Proposing
<1> QED
  BY <1>1, <1>2, <1>3, <1>5, <1>6, <1>8, <1>9, AnchorStep

LEMMA SupersedeInv ==
  ASSUME ConnectorInv, NEW t \in Turns, Supersede(t)
  PROVE  ConnectorInv'
<1> DEFINE y == turn[t]
           w == y.w
           a == [y.view EXCEPT !.status = "CLOSED"]
           x == [y EXCEPT !.pc = "request"]
<1>1. /\ y.pc = "supersede" /\ y \in Turn /\ w \in Writes /\ KnowsWrite(y) /\ ~Moves(y) /\ SendOK(y)
      /\ y.view \in Anchor /\ y.view.status # "none" /\ y.view.prev = Home
      /\ y.new # None /\ approval[y.new] = "none"
  BY TurnFacts DEF Supersede, At, ShapeOK, RefOK, Viewing, Proposing, KnowsWrite, UiWaits, Moves
<1>2. a \in Anchor /\ a.status = "CLOSED" /\ a.prev = Home
  BY <1>1 DEF Anchor, AnchorStatus
<1>3. /\ anchor' = [anchor EXCEPT ![w] = a] /\ turn' = [turn EXCEPT ![t] = x] /\ LockStep(t)
      /\ UNCHANGED <<approval, requestedAt, pointer, receipt, sent, clock, reconciled, counts>>
  BY Locks DEF Supersede, GoOn, Become
<1> HIDE DEF a
<1>4. "request" \in Pc
  BY DEF Pc
<1>5. x \in Turn /\ x.pc = "request" /\ x.w = w /\ x.view = y.view /\ x.ptr = y.ptr /\ x.new = y.new
  BY <1>1, <1>4 DEF Turn
<1> HIDE DEF x
<1>6. SavedOK(t, x, w, a)
  BY <1>1, <1>2, <1>5 DEF SavedOK, SendOK, Truthful
<1>7. turn'[t] = x
  BY <1>3 DEF ConnectorInv, KnownInv, Types
<1>8. SendOK(turn[t])' /\ x.pc \notin Section \cup Executing
  BY <1>5, <1>7 DEF SendOK, Section, Executing, Ui
<1>9. ShapeOK(x)
  BY <1>1, <1>5 DEF ShapeOK, Waiting, Ui, Viewing, Executing, Proposing
<1> QED
  BY <1>1, <1>2, <1>3, <1>5, <1>6, <1>8, <1>9, AnchorStep

LEMMA FinishInv ==
  ASSUME ConnectorInv, NEW t \in Turns, Finish(t)
  PROVE  ConnectorInv'
<1> DEFINE y == turn[t]
           w == y.w
           a == [y.view EXCEPT !.status = y.outcome]
           x == [y EXCEPT !.pc = "return"]
<1>1. /\ y.pc = "finish" /\ y \in Turn /\ SendOK(y) /\ y.view \in Anchor /\ y.pc \in Executing
  BY TurnFacts DEF Finish, At, Executing
<1>2. /\ w \in Writes /\ KnowsWrite(y) /\ ~Moves(y) /\ y.view.status # "none" /\ y.view.prev = Home
      /\ approval[w] = "APPROVED" /\ y.outcome \in Outcomes /\ Truthful(y.outcome, w)
  BY <1>1, ExecutingFacts DEF SendOK
<1>3. a \in Anchor /\ a.status = y.outcome /\ a.prev = Home
  BY <1>1, <1>2 DEF Anchor, AnchorStatus
<1>4. /\ anchor' = [anchor EXCEPT ![w] = a] /\ turn' = [turn EXCEPT ![t] = x] /\ LockStep(t)
      /\ UNCHANGED <<approval, requestedAt, pointer, receipt, sent, clock, reconciled, counts>>
  BY Locks DEF Finish, GoOn, Become
<1> HIDE DEF a
<1>5. "return" \in Pc
  BY DEF Pc, Viewing
<1>6. x \in Turn /\ x.pc = "return" /\ x.w = w /\ x.view = y.view /\ x.ptr = y.ptr /\ x.new = y.new
  BY <1>1, <1>5 DEF Turn
<1> HIDE DEF x
<1>7. Alone(t, w)
  BY <1>1 DEF Alone, ConnectorInv, SendInv
<1>8. SavedOK(t, x, w, a)
  BY <1>2, <1>3, <1>7 DEF SavedOK, Outcomes
<1>9. turn'[t] = x
  BY <1>4 DEF ConnectorInv, KnownInv, Types
<1>10. SendOK(turn[t])' /\ x.pc \notin Section \cup Executing
  BY <1>6, <1>9 DEF SendOK, Section, Executing, Ui
<1>11. ShapeOK(x) /\ Keeps(t, x)
  BY <1>1, <1>2, <1>6 DEF ShapeOK, Keeps, Waiting, Ui, Viewing, Executing, Proposing
<1> QED
  BY <1>1, <1>2, <1>3, <1>4, <1>6, <1>8, <1>10, <1>11, AnchorStep

----------------------------------------------------------------------------
(* Receipts and the service *)

\* The only turn past the claim of a write changes its receipt or sends it.
LEMMA ReceiptStep ==
  ASSUME ConnectorInv, NEW t \in Turns, turn[t].pc \in Executing, NEW x \in Turn,
         turn' = [turn EXCEPT ![t] = x], x.pc \in Executing,
         NEW w \in Writes, w = turn[t].w, x.w = w, x.view = turn[t].view, x.ptr = turn[t].ptr,
         x.new = turn[t].new,
         RowTypes, OtherRowsSame(w), sent'[w] \in {0, 1},
         receipt'[w] = "SENT" => sent'[w] = 1, receipt'[w] = "NOT_SENT" => sent'[w] = 0,
         UNCHANGED <<approval, requestedAt, anchor, pointer, clock, reconciled, counts, locks>>,
         SendOK(turn[t])'
  PROVE  ConnectorInv'
<1>1. turn \in [Turns -> Turn] /\ turn'[t] = x /\ \A s \in Turns \ {t} : turn'[s] = turn[s]
  BY DEF ConnectorInv, KnownInv, Types
<1>2. /\ KnowsWrite(turn[t]) /\ ~Moves(turn[t]) /\ turn[t].view.status # "none"
      /\ turn[t].view.prev = Home /\ approval[w] = "APPROVED"
      /\ anchor[w].status \in {"EXECUTING", "CLOSED"} /\ anchor[w].prev = Home
  BY ExecutingFacts, WriteFacts DEF RowOK
<1>3. ShapeOK(x) /\ RefOK(x) /\ Learns(t, x) /\ OwnNew(t, x) /\ x.pc \notin Section
  BY <1>2, ExecutingGoes
<1>4. RefOK(turn[t])' /\ LockStep(t) /\ x.pc # "point"
  BY <1>1, <1>3, Locks DEF RefOK, KnowsWrite, UiWaits, Executing
<1>5. Alone(t, w)
  BY DEF Alone, ConnectorInv, SendInv
<1>6. WriteOK(w)'
  BY <1>2 DEF WriteOK, Truthful
<1>7. OthersSendOK(t, w)
  <2> SUFFICES ASSUME NEW s \in Turns \ {t}, turn[s].w = w PROVE SendOK(turn[s])'
    BY DEF OthersSendOK
  <2>1. SendOK(turn[s]) /\ turn'[s] = turn[s] /\ turn[s].pc \notin Executing
    BY <1>1, <1>5, TurnFacts DEF Alone
  <2>2. turn[s].pc \notin {"record", "consume"}
    BY <2>1 DEF SendOK, Fresh
  <2> QED
    BY <2>1, <2>2 DEF SendOK, Executing
<1> QED
  BY <1>2, <1>3, <1>4, <1>5, <1>6, <1>7, OneRow

LEMMA PrepareInv ==
  ASSUME ConnectorInv, NEW t \in Turns, Prepare(t)
  PROVE  ConnectorInv'
<1> DEFINE y == turn[t]
           w == y.w
           x == [y EXCEPT !.pc = "send"]
<1>1. y.pc = "prepare" /\ y \in Turn /\ SendOK(y) /\ y.pc \in Executing
  BY TurnFacts DEF Prepare, At, Executing
<1>2. w \in Writes /\ approval[w] = "APPROVED" /\ receipt[w] = "none" /\ sent[w] = 0
      /\ anchor[w].status \in {"EXECUTING", "CLOSED"}
  BY <1>1, ExecutingFacts DEF SendOK
<1>3. /\ receipt' = [receipt EXCEPT ![w] = "PREPARED"] /\ turn' = [turn EXCEPT ![t] = x]
      /\ UNCHANGED <<approval, requestedAt, anchor, pointer, sent, clock, reconciled, counts, locks>>
  BY <1>2 DEF Prepare, GoOn, Become
<1>4. "send" \in Pc
  BY DEF Pc, Viewing, Executing
<1>5. x \in Turn /\ x.pc = "send" /\ x.w = w /\ x.view = y.view /\ x.ptr = y.ptr /\ x.new = y.new
  BY <1>1, <1>4 DEF Turn
<1> HIDE DEF x
<1>6. RowTypes /\ OtherRowsSame(w) /\ receipt'[w] = "PREPARED" /\ sent' = sent
  BY <1>2, <1>3, RowTyping DEF RowTypes, OtherRowsSame
<1>7. turn'[t] = x
  BY <1>3 DEF ConnectorInv, KnownInv, Types
<1>8. SendOK(turn[t])' /\ x.pc \in Executing
  BY <1>2, <1>3, <1>5, <1>6, <1>7 DEF SendOK, Executing
<1>9. sent'[w] \in {0, 1} /\ (receipt'[w] = "SENT" => sent'[w] = 1) /\ (receipt'[w] = "NOT_SENT" => sent'[w] = 0)
  BY <1>2, <1>6 DEF Truthful
<1> QED
  BY <1>1, <1>2, <1>3, <1>5, <1>6, <1>8, <1>9, ReceiptStep

LEMMA SendActionInv ==
  ASSUME ConnectorInv, NEW t \in Turns, Send(t)
  PROVE  ConnectorInv'
<1> DEFINE y == turn[t]
           w == y.w
<1>1. y.pc = "send" /\ y \in Turn /\ SendOK(y) /\ y.pc \in Executing
  BY TurnFacts DEF Send, At, Executing
<1>2. /\ w \in Writes /\ approval[w] = "APPROVED" /\ sent[w] = 0
      /\ receipt[w] \in {"PREPARED", "UNCERTAIN"} /\ anchor[w].status \in {"EXECUTING", "CLOSED"}
  BY <1>1, ExecutingFacts DEF SendOK
<1>3. PICK o \in Outcomes, reached \in {0, 1} :
        /\ o = "SENT" => reached = 1
        /\ o = "NOT_SENT" => reached = 0
        /\ sent' = [sent EXCEPT ![w] = @ + reached]
        /\ Become(t, [y EXCEPT !.pc = "complete", !.outcome = o])
  BY DEF Send
<1> DEFINE x == [y EXCEPT !.pc = "complete", !.outcome = o]
<1>4. /\ turn' = [turn EXCEPT ![t] = x]
      /\ UNCHANGED <<approval, requestedAt, anchor, pointer, receipt, clock, reconciled, counts, locks>>
  BY <1>3 DEF Send, Become, rows
<1>5. "complete" \in Pc
  BY DEF Pc, Viewing, Executing
<1>6. /\ x \in Turn /\ x.pc = "complete" /\ x.outcome = o /\ x.w = w /\ x.view = y.view /\ x.ptr = y.ptr
      /\ x.new = y.new
  BY <1>1, <1>5 DEF Turn
<1> HIDE DEF x
<1>7. RowTypes /\ OtherRowsSame(w) /\ sent'[w] = reached
  BY <1>2, <1>3, <1>4, RowTyping DEF RowTypes, OtherRowsSame
<1>8. turn'[t] = x
  BY <1>4 DEF ConnectorInv, KnownInv, Types
<1>9. SendOK(turn[t])' /\ x.pc \in Executing
  BY <1>2, <1>3, <1>4, <1>6, <1>7, <1>8 DEF SendOK, Executing, Truthful
<1>10. sent'[w] \in {0, 1} /\ (receipt'[w] = "SENT" => sent'[w] = 1) /\ (receipt'[w] = "NOT_SENT" => sent'[w] = 0)
  BY <1>2, <1>4, <1>7 DEF Truthful
<1> QED
  BY <1>1, <1>2, <1>4, <1>6, <1>7, <1>9, <1>10, ReceiptStep

LEMMA CompleteInv ==
  ASSUME ConnectorInv, NEW t \in Turns, Complete(t)
  PROVE  ConnectorInv'
<1> DEFINE y == turn[t]
           w == y.w
           r == IF receipt[w] = "PREPARED" THEN y.outcome ELSE receipt[w]
           x == [y EXCEPT !.pc = "finish"]
<1>1. y.pc = "complete" /\ y \in Turn /\ SendOK(y) /\ y.pc \in Executing
  BY TurnFacts DEF Complete, At, Executing
<1>2. /\ w \in Writes /\ approval[w] = "APPROVED" /\ y.outcome \in Outcomes /\ Truthful(y.outcome, w)
      /\ anchor[w].status \in {"EXECUTING", "CLOSED"} /\ sent[w] \in {0, 1} /\ Truthful(receipt[w], w)
  BY <1>1, ExecutingFacts, WriteFacts DEF SendOK, WriteOK
<1>3. /\ receipt' = [receipt EXCEPT ![w] = r] /\ turn' = [turn EXCEPT ![t] = x]
      /\ UNCHANGED <<approval, requestedAt, anchor, pointer, sent, clock, reconciled, counts, locks>>
  BY <1>2, RowTyping DEF Complete, GoOn, Become
<1>4. "finish" \in Pc
  BY DEF Pc, Viewing, Executing
<1>5. /\ x \in Turn /\ x.pc = "finish" /\ x.outcome = y.outcome /\ x.w = w /\ x.view = y.view
      /\ x.ptr = y.ptr /\ x.new = y.new
  BY <1>1, <1>4 DEF Turn
<1> HIDE DEF x
<1>6. RowTypes /\ OtherRowsSame(w) /\ receipt'[w] = r /\ sent' = sent
  BY <1>2, <1>3, RowTyping DEF RowTypes, OtherRowsSame
<1>7. turn'[t] = x
  BY <1>3 DEF ConnectorInv, KnownInv, Types
<1>8. SendOK(turn[t])' /\ x.pc \in Executing
  BY <1>2, <1>3, <1>5, <1>6, <1>7 DEF SendOK, Executing, Truthful
<1>9. sent'[w] \in {0, 1} /\ (receipt'[w] = "SENT" => sent'[w] = 1) /\ (receipt'[w] = "NOT_SENT" => sent'[w] = 0)
  BY <1>2, <1>6 DEF Truthful
<1> QED
  BY <1>1, <1>2, <1>3, <1>5, <1>6, <1>8, <1>9, ReceiptStep

LEMMA ReconcileInv ==
  ASSUME ConnectorInv, NEW t \in Turns, Reconcile(t)
  PROVE  ConnectorInv'
<1> DEFINE y == turn[t]
           x == [y EXCEPT !.pc = "prepare"]
<1>1. y.pc = "reconcile" /\ y \in Turn /\ SendOK(y) /\ y.pc \in Executing
  BY TurnFacts DEF Reconcile, At, Executing
<1>2. /\ turn' = [turn EXCEPT ![t] = x] /\ UNCHANGED locks /\ reconciled' = TRUE
      /\ UNCHANGED <<approval, requestedAt, anchor, pointer, sent, clock, counts>>
  BY DEF Reconcile, GoOn, Become
<1>3. "prepare" \in Pc
  BY DEF Pc, Viewing, Executing
<1>4. x \in Turn /\ x.pc = "prepare" /\ x.w = y.w /\ x.view = y.view /\ x.ptr = y.ptr /\ x.new = y.new
  BY <1>1, <1>3 DEF Turn
<1> HIDE DEF x
<1>5. x.pc \in Executing /\ y.w \in Writes /\ y.view.status # "none" /\ y.view.prev = Home /\ ~Moves(y)
      /\ KnowsWrite(y)
  BY <1>1, <1>4, ExecutingFacts DEF Executing
<1>6. ShapeOK(x) /\ RefOK(x) /\ Learns(t, x) /\ OwnNew(t, x) /\ x.pc \notin Section
  BY <1>1, <1>4, <1>5, ExecutingGoes
<1>7. turn \in [Turns -> Turn] /\ turn'[t] = x /\ \A s \in Turns \ {t} : turn'[s] = turn[s]
  BY <1>2 DEF ConnectorInv, KnownInv, Types
<1>8. /\ receipt' \in [Writes -> {"none", "PREPARED"} \cup Outcomes]
      /\ \A w \in Writes : receipt'[w] = receipt[w] \/ (receipt[w] = "PREPARED" /\ receipt'[w] = "UNCERTAIN")
  BY RowTyping DEF Reconcile, Outcomes
<1>9. KnownInv'
  <2>1. RowTypes /\ RowsStep(t) /\ LockStep(t)
    BY <1>2, <1>8, RowTyping, Locks DEF RowTypes, RowsStep
  <2>2. Counts
    BY <1>2 DEF Counts, counts, ConnectorInv, KnownInv, Types
  <2>3. PointerOK' /\ \A w \in Writes : RowOK(w)'
    BY <1>2 DEF PointerOK, RowOK, ConnectorInv, KnownInv
  <2>4. RefOK(turn[t])'
    BY <1>2, <1>6, <1>7 DEF RefOK, KnowsWrite, UiWaits
  <2> QED
    BY <1>2, <1>4, <1>6, <2>1, <2>2, <2>3, <2>4, KnownStep DEF ConnectorInv
<1>10. SendInv'
  <2>1. ASSUME NEW s \in Turns
        PROVE  /\ turn'[s].w = turn[s].w /\ (turn'[s].pc \in Executing <=> turn[s].pc \in Executing)
               /\ turn'[s] = turn[s] \/ (turn[s].pc = "reconcile" /\ turn'[s].pc = "prepare")
    BY <1>1, <1>4, <1>5, <1>7
  <2>2. \A w \in Writes : Fresh(w) => Fresh(w)'
    BY <1>2, <1>8, <2>1 DEF Fresh
  <2>3. \A w \in Writes : WriteOK(w)'
    BY <1>2, <1>8, <2>2, WriteFacts DEF WriteOK, Truthful
  <2>4. ASSUME NEW s \in Turns PROVE SendOK(turn[s])'
    <3>1. SendOK(turn[s]) /\ ShapeOK(turn[s]) /\ turn[s].w \in Writes \cup {None}
      BY TurnFacts
    <3>2. CASE turn[s].pc \in Viewing
      <4>1. turn[s].w \in Writes
        BY <3>1, <3>2 DEF ShapeOK
      <4> QED
        BY <1>2, <1>8, <2>1, <2>2, <3>1, <4>1 DEF SendOK, Truthful, Executing
    <3>3. CASE turn[s].pc \notin Viewing
      BY <2>1, <3>3 DEF SendOK, Viewing, Executing
    <3> QED
      BY <3>2, <3>3
  <2> QED
    BY <2>1, <2>3, <2>4 DEF ConnectorInv, SendInv
<1>11. \A s \in Turns : CreatedOK(s)'
  BY <1>2, <1>4, <1>6, CreatedStep
<1>12. ReleasedOK'
  BY <1>2, <1>4, <1>5, ReleasedStep DEF counts
<1> QED
  BY <1>9, <1>10, <1>11, <1>12 DEF ConnectorInv, CloseInv

----------------------------------------------------------------------------
(* The pointer *)

\* A turn moves the pointer, and changes no other row.
LEMMA PointerStep ==
  ASSUME ConnectorInv, NEW t \in Turns, NEW x \in Turn, turn' = [turn EXCEPT ![t] = x],
         UNCHANGED <<approval, requestedAt, anchor, receipt, sent, clock, reconciled, counts>>,
         LockStep(t), x = NoTurn \/ (x.pc \in {"find", "route"} /\ x.w = None /\ x.view = NoAnchor
                                     /\ x.ptr = turn[t].ptr /\ x.new = turn[t].new),
         \/ pointer' = Home
         \/ pointer' = pointer /\ ~Moves(turn[t])
         \/ turn[t].pc = "point" /\ pointer' = turn[t].w
  PROVE  ConnectorInv'
<1>1. turn \in [Turns -> Turn] /\ turn'[t] = x /\ \A s \in Turns \ {t} : turn'[s] = turn[s]
  BY DEF ConnectorInv, KnownInv, Types
<1>2. ShapeOK(x) /\ Learns(t, x) /\ OwnNew(t, x) /\ x.pc \notin Section \cup Executing
  BY NoTurnFacts
  DEF ShapeOK, Learns, OwnNew, KnowsWrite, Section, Executing, Ui, Waiting, Viewing, Proposing
<1>3. turn[t].pc = "point" => turn[t].w \in Writes /\ anchor[turn[t].w].status = "APPROVAL_PENDING"
  BY TurnFacts DEF ConnectorInv, CloseInv, CreatedOK, ShapeOK
<1>4. KnownInv'
  <2>1. RowTypes /\ RowsStep(t)
    BY RowTyping DEF RowTypes, RowsStep
  <2>2. PointerOK' /\ \A w \in Writes : RowOK(w)'
    BY <1>3, PointerFacts, WriteFacts DEF PointerOK, RowOK
  <2>3. RefOK(turn[t])'
    BY <1>1, NoTurnFacts, TurnFacts DEF RefOK, KnowsWrite, UiWaits, Proposing
  <2> QED
    BY <1>2, <2>1, <2>2, <2>3, SameCounts, KnownStep DEF ConnectorInv
<1>5. SendInv'
  <2>1. \A w \in Writes : Fresh(w) => Fresh(w)'
    BY <1>1, <1>2 DEF Fresh
  <2>2. \A w \in Writes : WriteOK(w)'
    BY <2>1, WriteFacts DEF WriteOK, Truthful
  <2>3. SendOK(turn[t])'
    BY <1>1, <1>2, NoTurnFacts DEF SendOK, Executing
  <2>4. ASSUME NEW s \in Turns \ {t} PROVE SendOK(turn[s])'
    <3>1. SendOK(turn[s]) /\ ShapeOK(turn[s]) /\ turn[s].w \in Writes \cup {None} /\ turn'[s] = turn[s]
      BY <1>1, TurnFacts
    <3>2. turn[s].pc \in {"record", "consume"} => turn[s].w \in Writes
      BY <3>1 DEF ShapeOK, Viewing
    <3> QED
      BY <2>1, <3>1, <3>2 DEF SendOK, Truthful
  <2> QED
    BY <1>1, <1>2, <2>2, <2>3, <2>4 DEF ConnectorInv, SendInv
<1>6. \A s \in Turns : CreatedOK(s)'
  BY <1>2, NoTurnFacts, CreatedStep
<1>7. ReleasedOK'
  <2>1. SUFFICES ASSUME crashes' = 0, errors' = 0, pointer' \in Writes, anchor'[pointer'].status = "CLOSED"
                 PROVE  \E s \in Turns : Moves(turn[s])'
    BY DEF ReleasedOK
  <2>2. pointer' = pointer /\ ~Moves(turn[t])
    BY <1>3, <2>1
  <2>3. PICK s \in Turns : Moves(turn[s])
    BY <2>1, <2>2 DEF ConnectorInv, CloseInv, ReleasedOK, counts
  <2> QED
    BY <1>1, <2>2, <2>3 DEF Moves
<1> QED
  BY <1>4, <1>5, <1>6, <1>7 DEF ConnectorInv, CloseInv

LEMMA RestorePointerInv ==
  ASSUME ConnectorInv, NEW t \in Turns, RestorePointer(t)
  PROVE  ConnectorInv'
<1> DEFINE y == turn[t]
           w == y.w
<1>1. /\ y.pc = "restore" /\ y \in Turn /\ w \in Writes /\ y.view.prev = Home
      /\ y.next \in {"idle", "find", "route"}
  BY TurnFacts DEF RestorePointer, At, ShapeOK, Viewing, Turn
<1>2. /\ UNCHANGED <<approval, requestedAt, anchor, receipt, sent, clock, reconciled, counts>>
      /\ pointer' = Home \/ (pointer' = pointer /\ ~Moves(y))
  BY <1>1 DEF RestorePointer, Moves
<1>3. CASE y.next = "idle"
  <2>1. turn' = [turn EXCEPT ![t] = NoTurn] /\ LockStep(t)
    BY <1>3, Locks DEF RestorePointer, End
  <2> QED
    BY <1>2, <2>1, NoTurnFacts, PointerStep
<1>4. CASE y.next # "idle"
  <2> DEFINE x == [y EXCEPT !.pc = y.next, !.w = None, !.view = NoAnchor]
  <2>1. turn' = [turn EXCEPT ![t] = x] /\ LockStep(t)
    BY <1>4, Locks DEF RestorePointer, Become
  <2>2. y.next \in Pc
    BY <1>1 DEF Pc
  <2>3. /\ x \in Turn /\ x.pc = y.next /\ x.w = None /\ x.view = NoAnchor /\ x.ptr = y.ptr
        /\ x.new = y.new
    BY <1>1, <2>2, NoTurnFacts DEF Turn
  <2> HIDE DEF x
  <2> QED
    BY <1>1, <1>2, <1>4, <2>1, <2>3, PointerStep
<1> QED
  BY <1>3, <1>4

LEMMA ReturnPointerInv ==
  ASSUME ConnectorInv, NEW t \in Turns, ReturnPointer(t)
  PROVE  ConnectorInv'
<1>1. turn[t].pc = "return" /\ turn[t].view.prev = Home /\ ~Moves(turn[t])
  BY TurnFacts DEF ReturnPointer, At, ShapeOK, Viewing, Moves
<1>2. turn' = [turn EXCEPT ![t] = NoTurn] /\ LockStep(t)
  BY Locks DEF ReturnPointer, End
<1>3. /\ UNCHANGED <<approval, requestedAt, anchor, receipt, sent, clock, reconciled, counts>>
      /\ pointer' \in {pointer, Home}
  BY <1>1 DEF ReturnPointer
<1> QED
  BY <1>1, <1>2, <1>3, NoTurnFacts, PointerStep

LEMMA PointAtAnchorInv ==
  ASSUME ConnectorInv, NEW t \in Turns, PointAtAnchor(t)
  PROVE  ConnectorInv'
<1>1. turn' = [turn EXCEPT ![t] = NoTurn] /\ LockStep(t)
  BY Locks DEF PointAtAnchor, End
<1>2. /\ UNCHANGED <<approval, requestedAt, anchor, receipt, sent, clock, reconciled, counts>>
      /\ turn[t].pc = "point" /\ pointer' = turn[t].w
  BY DEF PointAtAnchor, At
<1> QED
  BY <1>1, <1>2, NoTurnFacts, PointerStep

----------------------------------------------------------------------------
(* The rows of a new request *)

\* Before its anchor is saved, a write is known only to its creator and to the UI.
LEMMA Unknown ==
  ASSUME ConnectorInv, NEW w \in Writes, anchor[w].status = "none", NEW s \in Turns
  PROVE  /\ turn[s].ptr # w
         /\ turn[s].w = w => turn[s].pc \in {"saveTask", "point", "withdraw", "lockApproval", "peek"}
BY TurnFacts DEF RefOK, KnowsWrite, UiWaits

LEMMA RequestForRiskInv ==
  ASSUME ConnectorInv, NEW t \in Turns, RequestForRisk(t)
  PROVE  ConnectorInv'
<1>1. PICK w \in Writes : w = turn[t].new
  BY TurnFacts DEF RequestForRisk, At, ShapeOK, Proposing
<1> DEFINE y == turn[t]
           x == [y EXCEPT !.pc = "saveTask", !.w = w]
<1>2. y.pc = "request" /\ y \in Turn /\ approval[w] = "none" /\ y.view.prev = Home
  BY <1>1, TurnFacts DEF RequestForRisk, At, ShapeOK, RefOK, Proposing
<1>3. /\ turn' = [turn EXCEPT ![t] = x] /\ LockStep(t)
      /\ approval' = [approval EXCEPT ![w] = "PENDING"]
      /\ requestedAt' = [requestedAt EXCEPT ![w] = clock]
      /\ UNCHANGED <<anchor, pointer, receipt, sent, clock, reconciled, counts>>
  BY <1>1, Locks DEF RequestForRisk, Become
<1>4. "saveTask" \in Pc
  BY DEF Pc
<1>5. x \in Turn /\ x.pc = "saveTask" /\ x.w = w /\ x.view = y.view /\ x.ptr = y.ptr /\ x.new = w
  BY <1>1, <1>2, <1>4 DEF Turn
<1> HIDE DEF x
<1>6. turn \in [Turns -> Turn] /\ turn'[t] = x /\ \A s \in Turns \ {t} : turn'[s] = turn[s]
  BY <1>3 DEF ConnectorInv, KnownInv, Types
<1>7. anchor[w].status = "none" /\ WriteOK(w)
  BY <1>2, WriteFacts DEF RowOK
<1>8. approval'[w] = "PENDING" /\ RowTypes /\ OtherRowsSame(w)
  BY <1>3, RowTyping DEF RowTypes, OtherRowsSame, ConnectorInv, KnownInv, Types
<1>9. ShapeOK(x) /\ Learns(t, x) /\ OwnNew(t, x) /\ x.pc \notin Section \cup Executing
  BY <1>1, <1>2, <1>5, TurnFacts
  DEF ShapeOK, Learns, OwnNew, KnowsWrite, Section, Executing, Ui, Waiting, Viewing, Proposing
<1>10. KnownInv'
  <2>1. RowsStep(t)
    BY <1>1, <1>3, <1>8 DEF RowsStep, OtherRowsSame
  <2>2. PointerOK' /\ \A v \in Writes : RowOK(v)'
    BY <1>3, <1>7, <1>8, PointerFacts, WriteFacts DEF PointerOK, RowOK, OtherRowsSame
  <2>3. RefOK(turn[t])'
    BY <1>3, <1>5, <1>6, <1>7, <1>8, TurnFacts DEF RefOK, KnowsWrite, UiWaits, Proposing
  <2> QED
    BY <1>3, <1>5, <1>8, <1>9, <2>1, <2>2, <2>3, SameCounts, KnownStep DEF ConnectorInv
<1>11. SendInv'
  <2>1. Fresh(w)'
    BY <1>3, <1>6, <1>7, <1>9 DEF WriteOK, Fresh
  <2>2. WriteOK(w)'
    BY <1>3, <1>7, <1>8, <2>1 DEF WriteOK, Fresh, Truthful
  <2>3. SendOK(turn[t])'
    BY <1>5, <1>6, <1>9 DEF SendOK, Executing
  <2>4. OthersSendOK(t, w)
    BY <1>6, <1>7, Unknown DEF OthersSendOK, SendOK, Executing
  <2> QED
    BY <1>3, <1>5, <1>8, <1>9, <2>2, <2>3, <2>4, SendStep
<1>12. \A s \in Turns : CreatedOK(s)'
  BY <1>3, <1>5, <1>9, CreatedStep
<1>13. ReleasedOK'
  BY <1>3, <1>5, ReleasedStep DEF counts
<1> QED
  BY <1>10, <1>11, <1>12, <1>13 DEF ConnectorInv, CloseInv

LEMMA SaveTaskInv ==
  ASSUME ConnectorInv, NEW t \in Turns, SaveTask(t)
  PROVE  ConnectorInv'
<1>1. PICK w \in Writes : w = turn[t].w
  BY TurnFacts DEF SaveTask, At, ShapeOK
<1> DEFINE y == turn[t]
           a == [status |-> "APPROVAL_PENDING", approvedAt |-> 0, prev |-> y.view.prev]
           x == [y EXCEPT !.pc = "point"]
<1>2. /\ y.pc = "saveTask" /\ y \in Turn /\ y.view.prev = Home /\ y.new = w
      /\ approval[w] # "none" /\ anchor[w].status = "none" /\ WriteOK(w)
  BY <1>1, TurnFacts, WriteFacts DEF SaveTask, At, ShapeOK, RefOK
<1>3. a \in Anchor /\ a.status = "APPROVAL_PENDING" /\ a.prev = Home
  BY <1>2 DEF Anchor, AnchorStatus
<1>4. /\ turn' = [turn EXCEPT ![t] = x] /\ LockStep(t) /\ anchor' = [anchor EXCEPT ![w] = a]
      /\ UNCHANGED <<approval, requestedAt, pointer, receipt, sent, clock, reconciled, counts>>
  BY <1>1, Locks DEF SaveTask, GoOn, Become
<1> HIDE DEF a
<1>5. "point" \in Pc
  BY DEF Pc
<1>6. x \in Turn /\ x.pc = "point" /\ x.w = w /\ x.view = y.view /\ x.ptr = y.ptr /\ x.new = w
  BY <1>1, <1>2, <1>5 DEF Turn
<1> HIDE DEF x
<1>7. turn \in [Turns -> Turn] /\ turn'[t] = x /\ \A s \in Turns \ {t} : turn'[s] = turn[s]
  BY <1>4 DEF ConnectorInv, KnownInv, Types
<1>8. anchor'[w] = a /\ RowTypes /\ OtherRowsSame(w)
  BY <1>3, <1>4, RowTyping DEF RowTypes, OtherRowsSame
<1>9. ShapeOK(x) /\ Learns(t, x) /\ OwnNew(t, x) /\ x.pc \notin Section \cup Executing
  BY <1>1, <1>2, <1>6, TurnFacts
  DEF ShapeOK, Learns, OwnNew, KnowsWrite, Section, Executing, Ui, Waiting, Viewing, Proposing
<1>10. KnownInv'
  <2>1. RowsStep(t)
    BY <1>2, <1>3, <1>4, <1>8 DEF RowsStep, OtherRowsSame
  <2>2. PointerOK' /\ \A v \in Writes : RowOK(v)'
    BY <1>2, <1>3, <1>4, <1>8, PointerFacts, WriteFacts DEF PointerOK, RowOK, OtherRowsSame
  <2>3. RefOK(turn[t])'
    BY <1>2, <1>3, <1>4, <1>6, <1>7, <1>8, TurnFacts
    DEF RefOK, KnowsWrite, UiWaits, Proposing, OtherRowsSame
  <2> QED
    BY <1>4, <1>6, <1>8, <1>9, <2>1, <2>2, <2>3, SameCounts, KnownStep DEF ConnectorInv
<1>11. SendInv'
  <2>1. Fresh(w)'
    BY <1>2, <1>4, <1>7, <1>9 DEF WriteOK, Fresh
  <2>2. WriteOK(w)'
    BY <1>2, <1>3, <1>4, <1>8, <2>1 DEF WriteOK, Fresh, Truthful
  <2>3. SendOK(turn[t])'
    BY <1>6, <1>7, <1>9 DEF SendOK, Executing
  <2>4. OthersSendOK(t, w)
    BY <1>2, <1>7, Unknown DEF OthersSendOK, SendOK, Executing
  <2> QED
    BY <1>4, <1>6, <1>8, <1>9, <2>2, <2>3, <2>4, SendStep
<1>12. \A s \in Turns : CreatedOK(s)'
  <2>1. \A s \in Turns \ {t} : CreatedOK(s)'
    BY <1>1, <1>2, <1>4, <1>6, <1>8, <1>9, CreatedOthers DEF OtherRowsSame
  <2>2. pointer # w
    BY <1>2, PointerFacts
  <2>3. \A s \in Turns \ {t} : turn[s].ptr # w /\ (KnowsWrite(turn[s]) => turn[s].w # w)
    BY <1>2, TurnFacts DEF RefOK
  <2>4. CreatedOK(t)'
    BY <1>3, <1>4, <1>6, <1>7, <1>8, <2>2, <2>3 DEF CreatedOK, KnowsWrite, UiWaits
  <2> QED
    BY <2>1, <2>4
<1>13. ReleasedOK'
  <2>1. \A v \in Writes : anchor'[v].status = "CLOSED" => anchor[v].status = "CLOSED"
    BY <1>3, <1>8 DEF OtherRowsSame
  <2> QED
    BY <1>4, <1>6, <2>1, ReleasedStep DEF counts
<1> QED
  BY <1>10, <1>11, <1>12, <1>13 DEF ConnectorInv, CloseInv

LEMMA WithdrawInv ==
  ASSUME ConnectorInv, NEW t \in Turns, Withdraw(t)
  PROVE  ConnectorInv'
<1>1. PICK w \in Writes : w = turn[t].w
  BY TurnFacts DEF Withdraw, At, ShapeOK
<1> DEFINE d == IF approval[w] = "PENDING" THEN "REJECTED" ELSE approval[w]
<1>2. /\ turn' = [turn EXCEPT ![t] = NoTurn] /\ LockStep(t) /\ turn[t].pc = "withdraw"
      /\ approval' = [approval EXCEPT ![w] = d]
      /\ UNCHANGED <<requestedAt, anchor, pointer, receipt, sent, clock, reconciled, counts>>
  BY <1>1, Locks, RowTyping DEF Withdraw, End, At
<1>3. /\ d \in {"none", "PENDING", "APPROVED", "REJECTED"} /\ (d = "none" <=> approval[w] = "none")
      /\ d = approval[w] \/ (d = "REJECTED" /\ approval[w] = "PENDING")
  BY RowTyping
<1> HIDE DEF d
<1>4. turn \in [Turns -> Turn] /\ turn'[t] = NoTurn /\ \A s \in Turns \ {t} : turn'[s] = turn[s]
  BY <1>2 DEF ConnectorInv, KnownInv, Types
<1>5. approval'[w] = d /\ RowTypes /\ OtherRowsSame(w)
  BY <1>2, <1>3, RowTyping DEF RowTypes, OtherRowsSame
<1>6. Learns(t, NoTurn) /\ OwnNew(t, NoTurn) /\ NoTurn.pc \notin Section \cup Executing
  BY NoTurnFacts DEF Learns, OwnNew, KnowsWrite, Section, Executing, Ui
<1>7. KnownInv'
  <2>1. RowsStep(t)
    BY <1>2, <1>3, <1>5 DEF RowsStep, OtherRowsSame
  <2>2. PointerOK' /\ \A v \in Writes : RowOK(v)'
    BY <1>2, <1>3, <1>5, PointerFacts, WriteFacts DEF PointerOK, RowOK, OtherRowsSame
  <2>3. RefOK(turn[t])'
    BY <1>4, NoTurnFacts DEF RefOK, KnowsWrite, UiWaits, Proposing
  <2> QED
    BY <1>2, <1>5, <1>6, <2>1, <2>2, <2>3, NoTurnFacts, SameCounts, KnownStep DEF ConnectorInv
<1>8. SendInv'
  <2>1. Fresh(w) => Fresh(w)'
    BY <1>2, <1>4, <1>6 DEF Fresh
  <2>2. WriteOK(w)'
    BY <1>2, <1>3, <1>5, <2>1, WriteFacts DEF WriteOK, Truthful
  <2>3. SendOK(turn[t])'
    BY <1>4, <1>6, NoTurnFacts DEF SendOK, Executing
  <2>4. OthersSendOK(t, w)
    <3> SUFFICES ASSUME NEW s \in Turns \ {t}, turn[s].w = w PROVE SendOK(turn[s])'
      BY DEF OthersSendOK
    <3>1. SendOK(turn[s]) /\ turn'[s] = turn[s]
      BY <1>4, TurnFacts
    <3> QED
      BY <1>2, <1>3, <1>5, <2>1, <3>1 DEF SendOK, Truthful
  <2> QED
    BY <1>2, <1>5, <1>6, <2>2, <2>3, <2>4, NoTurnFacts, SendStep
<1>9. \A s \in Turns : CreatedOK(s)'
  BY <1>2, <1>6, NoTurnFacts, CreatedStep
<1>10. ReleasedOK'
  BY <1>2, NoTurnFacts, ReleasedStep DEF counts, Moves
<1> QED
  BY <1>7, <1>8, <1>9, <1>10 DEF ConnectorInv, CloseInv

----------------------------------------------------------------------------
(* Crashes, the clock, and the whole system *)

LEMMA CrashInv ==
  ASSUME ConnectorInv, Crash
  PROVE  ConnectorInv'
<1>1. /\ turn' \in [Turns -> Turn] /\ \A t \in Turns : turn'[t] = NoTurn
      /\ approvalLock' \in [Writes -> Turns \cup {None}] /\ sessionLock' = None
      /\ reconciled' = FALSE /\ crashes' = crashes + 1
      /\ UNCHANGED <<approval, requestedAt, anchor, pointer, receipt, sent, clock, turns, errors>>
  BY NoTurnFacts DEF Crash, rows
<1>2. KnownInv'
  <2>1. TypeOK'
    BY <1>1 DEF ConnectorInv, KnownInv, Types, TypeOK
  <2>2. Types'
    BY <1>1, <2>1 DEF ConnectorInv, KnownInv, Types
  <2>3. PointerOK' /\ \A w \in Writes : RowOK(w)'
    BY <1>1, PointerFacts, WriteFacts DEF PointerOK, RowOK
  <2>4. \A t \in Turns : ShapeOK(turn[t])' /\ RefOK(turn[t])' /\ turn'[t].pc \notin Section \cup Executing
    BY <1>1, NoTurnFacts
    DEF ShapeOK, RefOK, Waiting, KnowsWrite, UiWaits, Viewing, Proposing, Section, Executing, Ui
  <2> QED
    BY <1>1, <2>2, <2>3, <2>4, NoTurnFacts DEF KnownInv
<1>3. SendInv'
  <2>1. \A t \in Turns : turn'[t].pc = "idle"
    BY <1>1, NoTurnFacts
  <2>2. \A t \in Turns : SendOK(turn[t])' /\ turn'[t].pc \notin Executing
    BY <2>1 DEF SendOK, Executing
  <2>3. \A w \in Writes : Fresh(w) => Fresh(w)'
    BY <1>1, <2>2 DEF Fresh
  <2>4. \A w \in Writes : WriteOK(w)'
    BY <1>1, <2>3, WriteFacts DEF WriteOK, Truthful
  <2> QED
    BY <2>2, <2>4 DEF SendInv
<1>4. CloseInv'
  BY <1>1, NoTurnFacts DEF CloseInv, CreatedOK, ReleasedOK, ConnectorInv, KnownInv, Types
<1> QED
  BY <1>2, <1>3, <1>4 DEF ConnectorInv

\* Nothing but the clock moves.
LEMMA ClockInv ==
  ASSUME ConnectorInv, Tick \/ UNCHANGED vars
  PROVE  ConnectorInv'
<1>1. /\ clock' \in Nat
      /\ UNCHANGED <<approval, requestedAt, anchor, pointer, receipt, reconciled, approvalLock,
                     sessionLock, turn, sent, turns, crashes, errors>>
  BY DEF Tick, vars, rows, locks, counts, ConnectorInv, KnownInv, Types
<1>2. KnownInv'
  <2>1. Types'
    BY <1>1 DEF ConnectorInv, KnownInv, Types, TypeOK
  <2>2. PointerOK' /\ \A w \in Writes : RowOK(w)'
    BY <1>1, PointerFacts, WriteFacts DEF PointerOK, RowOK
  <2>3. \A t \in Turns : ShapeOK(turn[t])' /\ RefOK(turn[t])'
    BY <1>1, TurnFacts DEF ShapeOK, RefOK, Waiting, KnowsWrite, UiWaits
  <2> QED
    BY <1>1, <2>1, <2>2, <2>3 DEF ConnectorInv, KnownInv
<1>3. SendInv'
  <2>1. \A w \in Writes \cup {None} : Fresh(w) => Fresh(w)'
    BY <1>1 DEF Fresh
  <2>2. \A w \in Writes : WriteOK(w)'
    BY <1>1, <2>1, WriteFacts DEF WriteOK, Truthful
  <2>3. \A t \in Turns : SendOK(turn[t])'
    BY <1>1, <2>1, TurnFacts DEF SendOK, Truthful
  <2> QED
    BY <1>1, <2>2, <2>3 DEF ConnectorInv, SendInv
<1>4. CloseInv'
  BY <1>1 DEF ConnectorInv, CloseInv, CreatedOK, KnowsWrite, UiWaits, ReleasedOK, Moves
<1> QED
  BY <1>2, <1>3, <1>4 DEF ConnectorInv

LEMMA InitInv == Init => ConnectorInv
<1> SUFFICES ASSUME Init PROVE ConnectorInv
  OBVIOUS
<1>1. \A t \in Turns : turn[t].pc = "idle"
  BY NoTurnFacts DEF Init
<1>2. SendInv
  <2>1. \A w \in Writes : Fresh(w)
    BY <1>1 DEF Init, Fresh, Executing
  <2>2. ASSUME NEW w \in Writes PROVE WriteOK(w)
    <3>1. /\ anchor[w].status = "none" /\ approval[w] = "none" /\ receipt[w] = "none"
          /\ sent[w] = 0
      BY NoTurnFacts DEF Init
    <3> QED
      BY <2>1, <3>1 DEF WriteOK, Truthful
  <2> QED
    BY <1>1, <2>2 DEF SendInv, SendOK, Executing
<1>3. CloseInv
  BY <1>1 DEF Init, CloseInv, CreatedOK, ReleasedOK
<1> QED
  BY <1>2, <1>3, InitKnown DEF ConnectorInv

LEMMA StepInv ==
  ASSUME ConnectorInv, NEW t \in Turns, Step(t)
  PROVE  ConnectorInv'
<1>1. CASE ReleaseExpired(t) \/ Find(t) \/ FindApproval(t) \/ Route(t)
  BY <1>1, ReleaseExpiredInv, FindInv, FindApprovalInv, RouteInv
<1>2. CASE LockApproval(t) \/ Peek(t) \/ LockSession(t) \/ LocateUi(t)
  BY <1>2, LockApprovalInv, PeekInv, LockSessionInv, LocateUiInv
<1>3. CASE Expire(t) \/ Reopen(t) \/ Decide(t) \/ RecordApproval(t) \/ Revoke(t)
  BY <1>3, ExpireInv, ReopenInv, DecideInv, RecordApprovalInv, RevokeInv
<1>4. CASE Claim(t) \/ Consume(t) \/ CloseSave(t) \/ RestorePointer(t)
  BY <1>4, ClaimInv, ConsumeInv, CloseSaveInv, RestorePointerInv
<1>5. CASE Reconcile(t) \/ Prepare(t) \/ Send(t) \/ Complete(t) \/ Finish(t) \/ ReturnPointer(t)
  BY <1>5, ReconcileInv, PrepareInv, SendActionInv, CompleteInv, FinishInv, ReturnPointerInv
<1>6. CASE DisplacedPointer(t) \/ Displaced(t) \/ Supersede(t) \/ RequestForRisk(t)
  BY <1>6, DisplacedPointerInv, DisplacedInv, SupersedeInv, RequestForRiskInv
<1>7. CASE SaveTask(t) \/ PointAtAnchor(t) \/ Withdraw(t)
  BY <1>7, SaveTaskInv, PointAtAnchorInv, WithdrawInv
<1> QED
  BY <1>1, <1>2, <1>3, <1>4, <1>5, <1>6, <1>7 DEF Step

\* Every step keeps what the turns and the rows owe each other.
LEMMA NextInv ==
  ASSUME ConnectorInv, [Next]_vars
  PROVE  ConnectorInv'
<1>1. ASSUME NEW t \in Turns, Receive(t) \/ ReceiveUi(t)
      PROVE  ConnectorInv'
  BY <1>1, ReceiveInv, ReceiveUiInv
<1>2. ASSUME NEW t \in Turns, Fails(t)
      PROVE  ConnectorInv'
  BY <1>2, ExecutionFailsInv, CreateAnchorFailsInv, ThrowsInv DEF Fails
<1> QED
  BY <1>1, <1>2, StepInv, CrashInv, ClockInv DEF Next

----------------------------------------------------------------------------
(* Theorems *)

\* The inductive invariant, whatever the requests, the owner's answers, the interleaving of the
\* turns, the failures and the crashes.
THEOREM ConnectorInvariant == Spec => []ConnectorInv
<1>1. Init => ConnectorInv
  BY InitInv
<1>2. ConnectorInv /\ [Next]_vars => ConnectorInv'
  BY NextInv
<1> QED
  BY <1>1, <1>2, PTL DEF Spec

\* Rows, locks and turns keep their types.
THEOREM TypeCorrect == Spec => []TypeOK
<1>1. ConnectorInv => TypeOK
  BY DEF ConnectorInv, KnownInv, Types
<1> QED
  BY <1>1, ConnectorInvariant, PTL

\* claimGrant consumes the grant before anything is sent, and no stale copy of the anchor makes a
\* second turn pass the claim: an approved write reaches the service at most once.
THEOREM AtMostOneSendHolds == Spec => []AtMostOneSend
<1>1. ConnectorInv => AtMostOneSend
  <2> SUFFICES ASSUME ConnectorInv, NEW w \in Writes PROVE sent[w] <= 1
    BY DEF AtMostOneSend
  <2>1. sent[w] = 0 \/ sent[w] = 1
    BY WriteFacts DEF WriteOK
  <2> QED
    BY <2>1
<1> QED
  BY <1>1, ConnectorInvariant, PTL

\* A write that was sent has, and keeps, an APPROVED approval row: no revocation, expiry or
\* withdrawal is recorded of it.
THEOREM SentOnlyApprovedHolds == Spec => []SentOnlyApproved
<1>1. ConnectorInv => SentOnlyApproved
  BY DEF ConnectorInv, SendInv, WriteOK, SentOnlyApproved
<1> QED
  BY <1>1, ConnectorInvariant, PTL

\* What the anchor and the receipt say of a write, SENT or NOT_SENT, is what happened, after
\* crashes, reconciliation and failed records too.
THEOREM OutcomeIsTrueHolds == Spec => []OutcomeIsTrue
<1>1. ConnectorInv => OutcomeIsTrue
  BY DEF ConnectorInv, SendInv, WriteOK, Truthful, OutcomeIsTrue
<1> QED
  BY <1>1, ConnectorInvariant, PTL

\* Anchors displace each other without chaining: each hands the pointer back to what it was before
\* all of them.
THEOREM PointerKeptHolds == Spec => []PointerKept
<1>1. ConnectorInv => PointerKept
  BY DEF ConnectorInv, KnownInv, PointerOK, RowOK, PointerKept
<1> QED
  BY <1>1, ConnectorInvariant, PTL

\* Without a crash or a failed write, a session at rest points at no closed anchor.
THEOREM ClosedReleasesPointerHolds == Spec => []ClosedReleasesPointer
<1>1. ConnectorInv => ClosedReleasesPointer
  BY DEF ConnectorInv, CloseInv, ReleasedOK, Moves, At, ClosedReleasesPointer
<1> QED
  BY <1>1, ConnectorInvariant, PTL

=============================================================================
