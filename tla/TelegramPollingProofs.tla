----------------------- MODULE TelegramPollingProofs -----------------------
(***************************************************************************)
(* Proofs about TelegramPolling.                                           *)
(*                                                                         *)
(* RunInv says what the runs, the album and the process may look like; it  *)
(* is proved action by action (RunArrive, RunStart, ...).  From there on a *)
(* step is described by what it does to the one run that may still hand    *)
(* updates over (LiveStep; StepCases shows that every step of Next is      *)
(* one), and the invariants are proved over those descriptions:            *)
(*   IdInv      the server's numbering, and its restart                    *)
(*   HeldInv    what the run has in hand: batch, album, fetched files      *)
(*   OffsetInv  the offsets in memory and on the file                      *)
(*   OnceInv    at most once                                               *)
(*   OrderInv   in order                                                   *)
(*   LossInv    nothing lost: no offset passes an unsettled update, but    *)
(*              after an outage that no poll loop watched                  *)
(* A lemma <invariant><step> says that the step keeps the invariant.       *)
(***************************************************************************)
EXTENDS TelegramPolling, FiniteSetTheorems, WellFoundedInduction, TLAPS

FileType == [offset : Nat, stale : BOOLEAN]

MemType ==
  [offset : Nat, saved : Nat, confirmed : Nat, verified : BOOLEAN, halted : BOOLEAN,
   stopped : BOOLEAN, single : BOOLEAN, silent : BOOLEAN]

RowType ==
  [pc : {"off", "verify", "top", "polling", "batch", "intake", "handed", "done"},
   sent : Nat, batch : SUBSET Updates, taking : SUBSET Updates]

ServerType ==
  /\ id \in [Updates -> Nat] /\ kind \in [Updates -> AllKinds]
  /\ kept \subseteq Updates /\ nextId \in Nat \ {0} /\ quiet \in 0..Week

GroupType ==
  /\ group \in [parts : SUBSET Updates, last : Nat, grew : BOOLEAN, rounds : 0..MaxRounds + 1]
  /\ group.parts = {} => group = NoGroup

AdapterType ==
  /\ file \in FileType /\ up \in BOOLEAN /\ mem \in MemType
  /\ current \in 0..MaxRuns /\ aborted \subseteq Runs
  /\ gate \in {"waiting", "open", "closed"}
  /\ stopper \in {"idle", "settling", "confirming"}

HistoryType ==
  /\ handed \in [Updates -> Nat] /\ outage \in BOOLEAN
  /\ passed \cup expired \cup forgotten \cup swallowed \subseteq Updates

\* Every nonempty set of natural numbers has a least element.
LEMMA LeastNumber ==
  ASSUME NEW S \in SUBSET Nat, S # {}
  PROVE  \E n \in S : \A m \in S : n <= m
<1>1. \E x \in S : \A y \in S : ~(<<y, x>> \in OpToRel(<, Nat))
  BY WFMin, NatLessThanWellFounded
<1>2. PICK x \in S : \A y \in S : ~(<<y, x>> \in OpToRel(<, Nat))
  BY <1>1
<1>3. \A y \in S : ~(y < x)
  BY <1>2 DEF OpToRel
<1> QED
  BY <1>3

\* First picks the update with the lowest id.
LEMMA FirstIsLeast ==
  ASSUME NEW S \in SUBSET Updates, S # {}, id \in [Updates -> Nat]
  PROVE  First(S) \in S /\ \A v \in S : id[First(S)] <= id[v]
<1>1. {id[u] : u \in S} \in SUBSET Nat /\ {id[u] : u \in S} # {}
  OBVIOUS
<1>2. PICK n \in {id[u] : u \in S} : \A m \in {id[u] : u \in S} : n <= m
  BY <1>1, LeastNumber
<1>3. \E u \in S : \A v \in S : id[u] <= id[v]
  BY <1>2
<1> QED
  BY <1>3 DEF First

----------------------------------------------------------------------------
\* A run that may still hand updates over or move the offset, and what it has in hand.
Live == current # 0 /\ (current \notin aborted \/ run[current].pc = "handed")

LBatch == IF Live THEN run[current].batch ELSE {}

LTaking == IF Live THEN run[current].taking ELSE {}

\* What reached the handler and is not behind the offset yet.
LDone == IF Live /\ run[current].pc = "handed" THEN run[current].taking ELSE {}

LParts == IF Live THEN group.parts ELSE {}

LLast == IF Live THEN group.last ELSE 0

\* The row of one run: which runs are over, what belongs to which stage, and that the album or
\* file it fetches has a last part.
RunOK(r) ==
  /\ r > runs => run[r] = NoRun
  /\ run[r].pc = "off" => r > runs
  /\ run[r].pc \notin {"off", "done"} =>
       r = current \/ (r \in aborted /\ run[r].pc = "intake")
  /\ run[r].pc \notin {"batch", "intake", "handed"} => run[r].batch = {}
  /\ run[r].pc \notin {"intake", "handed"} => run[r].taking = {}
  /\ run[r].pc = "polling" => run[r].sent = mem.offset
  /\ run[r].batch \cup run[r].taking \subseteq Arrived
  /\ run[r].pc \in {"intake", "handed"} =>
       \E m \in run[r].taking : \A p \in run[r].taking : id[p] <= id[m]

\* The process, the stop and the held album.
ControlOK ==
  /\ runs \in 0..MaxRuns /\ faults \in Nat /\ crashes \in Nat
  /\ current <= runs /\ aborted \subseteq 1..runs
  /\ up \/ (mem = FreshMem /\ current = 0 /\ group = NoGroup /\ stopper = "idle")
  /\ stopper = "settling" <=> current \in aborted
  /\ current = 0 => group = NoGroup
  /\ Live /\ run[current].pc \in {"verify", "intake", "handed"} => group = NoGroup
  /\ ~outage /\ mem.silent /\ Live => run[current].pc = "top"

AlbumOK ==
  /\ kept \cup group.parts \subseteq Arrived
  /\ group.rounds <= MaxRounds
  /\ \A p \in group.parts : id[p] <= group.last
  /\ group.parts # {} => \E p \in group.parts : id[p] = group.last

RunInv ==
  /\ ServerType /\ GroupType /\ AdapterType /\ HistoryType /\ run \in [Runs -> RowType]
  /\ \A r \in Runs : RunOK(r)
  /\ ControlOK /\ AlbumOK

\* RunInv implies the type invariant the run checks.
LEMMA RunInvTypes == RunInv => TypeOK
  BY DEF RunInv, ServerType, GroupType, AdapterType, HistoryType, RowType, FileType, MemType,
         RunOK, TypeOK

\* The first id leaves room below it for every update.
LEMMA FirstIdType == FirstId \in Nat /\ FirstId >= 2
  BY TelegramAssumption, FS_CardinalityType DEF FirstId

LEMMA RunInit == Init => RunInv
<1> SUFFICES ASSUME Init PROVE RunInv
  OBVIOUS
<1> USE TelegramAssumption DEF Init
<1>1. ServerType
  BY FirstIdType DEF ServerType, AllKinds
<1>8. HistoryType
  BY DEF HistoryType
<1>5. GroupType
  BY DEF GroupType, NoGroup
<1>6. AdapterType
  <2>1. FreshMem \in MemType /\ file \in FileType
    BY DEF FileType, MemType, FreshMem
  <2>2. current \in 0..MaxRuns
    OBVIOUS
  <2> QED
    BY <2>1, <2>2 DEF AdapterType
<1>7. run \in [Runs -> RowType]
  <2>1. NoRun \in RowType
    BY DEF RowType, NoRun
  <2> QED
    BY <2>1
<1>2. \A r \in Runs : RunOK(r)
  BY DEF RunOK, NoRun, Runs
<1>3. ControlOK
  BY DEF ControlOK, NoGroup, Live, FreshMem
<1>4. AlbumOK
  BY DEF AlbumOK, NoGroup
<1> QED
  BY <1>1, <1>2, <1>3, <1>4, <1>5, <1>6, <1>7, <1>8 DEF RunInv

----------------------------------------------------------------------------
LEMMA RunArrive ==
  ASSUME RunInv, NEW u \in Updates, NEW k \in Kinds[u], Arrive(u, k)
  PROVE  RunInv'
<1> USE DEF Arrive, history, counters
<1>1. ServerType'
  <2>1. k \in AllKinds
    BY TelegramAssumption
  <2>2. id' \in [Updates -> Nat] /\ kind' \in [Updates -> AllKinds] /\ kept' \subseteq Updates
    BY <2>1 DEF RunInv, ServerType
  <2>3. nextId' \in Nat \ {0} /\ quiet' \in 0..Week
    BY TelegramAssumption DEF RunInv, ServerType
  <2> QED
    BY <2>2, <2>3 DEF ServerType
<1>2. \A v \in Updates : id[v] # 0 => id'[v] = id[v]
  BY DEF RunInv, ServerType
<1>3. id'[u] = nextId /\ nextId # 0
  BY DEF RunInv, ServerType
<1>4. Arrived \subseteq Arrived' /\ u \in Arrived'
  BY <1>2, <1>3 DEF Arrived
<1>5. ASSUME NEW r \in Runs PROVE RunOK(r)'
  <2>1. run[r].batch \cup run[r].taking \subseteq Arrived /\ RunOK(r)
    BY DEF RunInv, RunOK
  <2>2. \A v \in run[r].taking : id'[v] = id[v]
    BY <2>1, <1>2 DEF Arrived
  <2> QED
    BY <2>1, <2>2, <1>4 DEF RunOK, NoRun
<1>6. AlbumOK'
  <2>1. \A v \in group.parts : id'[v] = id[v]
    BY <1>2 DEF RunInv, AlbumOK, Arrived
  <2> QED
    BY <2>1, <1>4 DEF RunInv, AlbumOK
<1>7. ControlOK'
  BY DEF RunInv, ControlOK, Live, FreshMem, NoGroup
<1> QED
  BY <1>1, <1>5, <1>6, <1>7 DEF RunInv, GroupType, AdapterType, HistoryType, NoGroup, RowType

LEMMA RunSilence ==
  ASSUME RunInv, Silence
  PROVE  RunInv'
<1> USE DEF Silence, counters
<1>1. ServerType'
  BY TelegramAssumption DEF RunInv, ServerType
<1>2. mem' \in MemType /\ mem'.offset = mem.offset
  BY DEF RunInv, AdapterType, MemType
<1>3. file' \in FileType
  BY DEF RunInv, AdapterType, FileType
<1>4. AdapterType'
  BY <1>2, <1>3 DEF RunInv, AdapterType
<1>5. HistoryType'
  BY DEF RunInv, HistoryType, ServerType
<1>6. \A r \in Runs : RunOK(r)'
  BY <1>2 DEF RunInv, RunOK, Arrived, NoRun
<1>7. ControlOK'
  <2>1. ~up => mem' = FreshMem
    <3> SUFFICES ASSUME ~up PROVE mem' = FreshMem
      OBVIOUS
    <3>1. mem = FreshMem /\ current = 0
      BY DEF RunInv, ControlOK
    <3>2. mem' = [mem EXCEPT !.silent = FALSE]
      BY <3>1
    <3> QED
      BY <3>1, <3>2 DEF FreshMem
  <2>2. ~outage' /\ Live => run[current].pc = "top"
    BY DEF RunInv, ControlOK, AtRest, Live
  <2> QED
    BY <2>1, <2>2 DEF RunInv, ControlOK, Live, FreshMem, NoGroup
<1>8. AlbumOK'
  BY DEF RunInv, AlbumOK, Arrived
<1> QED
  BY <1>1, <1>4, <1>5, <1>6, <1>7, <1>8 DEF RunInv, GroupType, NoGroup, RowType

\* A step that leaves the numbering, the album and the rows alone and only shrinks the queue.
LEMMA RunRenumber ==
  ASSUME RunInv, Renumber
  PROVE  RunInv'
<1> USE DEF Renumber, counters
<1>1. ServerType' /\ HistoryType'
  BY DEF RunInv, ServerType, HistoryType, AdapterType, MemType
<1>2. \A r \in Runs : RunOK(r)'
  BY DEF RunInv, RunOK, Arrived, NoRun
<1>3. ControlOK' /\ AlbumOK'
  BY DEF RunInv, ControlOK, AlbumOK, Live, FreshMem, NoGroup, Arrived, HistoryType
<1> QED
  BY <1>1, <1>2, <1>3 DEF RunInv, AdapterType, GroupType, NoGroup, RowType

\* What loadOffset leaves in the adapter m: nothing, or the offset of the file.
Loads(m) ==
  /\ mem'.silent = m.silent
  /\ \/ /\ m.offset # 0 \/ file.stale
        /\ mem'.offset = m.offset /\ mem'.saved = m.saved /\ forgotten' = forgotten
     \/ /\ m.offset = 0 /\ ~file.stale /\ mem'.offset = file.offset
        /\ mem'.saved = (IF file.offset # 0 THEN file.offset ELSE m.saved)
        /\ forgotten' = forgotten
     \/ /\ m.offset = 0 /\ mem'.offset = 0 /\ mem'.saved = m.saved
        /\ forgotten' = forgotten \cup {u \in kept : handed[u] > 0}

\* LoadOffset is described by Loads and keeps the types.
LEMMA LoadFacts ==
  ASSUME RunInv, NEW m \in MemType, LoadOffset(m)
  PROVE  /\ mem' \in MemType /\ forgotten' \subseteq Updates /\ faults' \in Nat
         /\ Loads(m)
<1>1. /\ file \in FileType /\ file.offset \in Nat /\ forgotten \subseteq Updates /\ faults \in Nat
      /\ kept \subseteq Updates
  BY DEF RunInv, AdapterType, HistoryType, ControlOK, ServerType, FileType
<1>2. CASE (m.offset # 0 \/ file.stale) /\ mem' = m /\ UNCHANGED <<forgotten, faults>>
  BY <1>1, <1>2 DEF Loads
<1>3. CASE /\ m.offset = 0 /\ ~file.stale
           /\ mem' = [m EXCEPT !.offset = file.offset,
                               !.saved = IF file.offset # 0 THEN file.offset ELSE @]
           /\ UNCHANGED <<forgotten, faults>>
  <2>1. PICK o \in Nat : o = IF file.offset # 0 THEN file.offset ELSE m.saved
    BY <1>1 DEF MemType
  <2>2. mem' = [m EXCEPT !.offset = file.offset, !.saved = o]
    BY <1>3, <2>1 DEF MemType
  <2>3. mem' \in MemType /\ mem'.offset = file.offset /\ mem'.saved = o /\ mem'.silent = m.silent
    BY <2>2, <1>1 DEF MemType
  <2> QED
    BY <2>1, <2>3, <1>1, <1>3 DEF Loads
<1>4. CASE /\ m.offset = 0 /\ ~file.stale
           /\ faults < MaxFaults /\ faults' = faults + 1
           /\ mem' = m
           /\ forgotten' = forgotten \cup {u \in kept : handed[u] > 0}
  BY <1>1, <1>4 DEF Loads
<1> QED
  BY <1>2, <1>3, <1>4 DEF LoadOffset

\* The adapter object that a start finds.
Found == IF up THEN mem ELSE FreshMem

LEMMA StartLoads ==
  ASSUME RunInv, Start
  PROVE  /\ mem' \in MemType /\ forgotten' \subseteq Updates /\ faults' \in Nat
         /\ Loads(Found) /\ Found \in MemType /\ mem'.silent = (up /\ mem.silent)
<1>1. Found \in MemType /\ Found.silent = (up /\ mem.silent)
  BY DEF RunInv, AdapterType, FreshMem, MemType, Found
<1>2. PICK f \in MemType : f = Found
  BY <1>1
<1>3. PICK m \in MemType : m = [f EXCEPT !.stopped = FALSE, !.halted = FALSE, !.verified = FALSE]
  BY DEF MemType
<1>4. m.offset = f.offset /\ m.saved = f.saved /\ m.silent = f.silent
  BY <1>3 DEF MemType
<1>5. LoadOffset(m)
  BY <1>2, <1>3 DEF Start, Found
<1>6. mem' \in MemType /\ forgotten' \subseteq Updates /\ faults' \in Nat /\ Loads(m)
  BY <1>5, LoadFacts
<1>7. Loads(f)
  BY <1>4, <1>6 DEF Loads
<1> QED
  BY <1>1, <1>2, <1>6, <1>7 DEF Loads

LEMMA RunStart ==
  ASSUME RunInv, Start
  PROVE  RunInv'
<1> USE DEF Start, server
<1>1. runs + 1 \in Runs /\ runs \in Nat /\ runs' = runs + 1 /\ current' = runs + 1
  BY TelegramAssumption DEF RunInv, ControlOK, Runs
<1>2. run[runs + 1] = NoRun /\ run[runs + 1] \in RowType
  BY <1>1 DEF RunInv, RunOK
<1>3. run' = [run EXCEPT ![runs + 1].pc = "verify"]
  OBVIOUS
<1>4. run' \in [Runs -> RowType]
  BY <1>1, <1>2, <1>3 DEF RunInv, RowType
<1>5. /\ run'[runs + 1].pc = "verify" /\ run'[runs + 1].batch = {} /\ run'[runs + 1].taking = {}
      /\ \A r \in Runs : r # runs + 1 => run'[r] = run[r]
  BY <1>1, <1>2, <1>3 DEF RunInv, NoRun, RowType
<1>6. /\ mem' \in MemType /\ mem'.silent = (up /\ mem.silent)
      /\ faults' \in Nat /\ forgotten' \subseteq Updates
  BY StartLoads
<1>8. ServerType' /\ HistoryType' /\ GroupType'
  BY TelegramAssumption, <1>6 DEF RunInv, ServerType, HistoryType, GroupType, NoGroup
<1>9. AdapterType'
  <2>1. current' \in 0..MaxRuns
    BY <1>1, TelegramAssumption DEF Runs
  <2> QED
    BY <2>1, <1>6 DEF RunInv, AdapterType
<1>10. ASSUME NEW r \in Runs PROVE RunOK(r)'
  <2> r \in Nat
    BY TelegramAssumption DEF Runs
  <2>1. CASE r = runs + 1
    BY <2>1, <1>1, <1>5, <1>6, <1>4 DEF Arrived, RunOK
  <2>2. CASE r # runs + 1
    <3>1. run'[r] = run[r] /\ RunOK(r)
      BY <2>2, <1>5 DEF RunInv
    <3>2. current = 0 /\ r # current
      BY TelegramAssumption DEF Runs
    <3>3. run[r].pc # "polling"
      BY <3>1, <3>2 DEF RunOK
    <3>4. r > runs + 1 => r > runs
      BY <1>1
    <3>5. run[r].pc = "off" => r > runs + 1
      BY <1>1, <2>2, <3>1 DEF RunOK
    <3>6. Arrived' = Arrived /\ aborted' = aborted /\ id' = id
      BY DEF Arrived
    <3> QED
      BY <3>1, <3>2, <3>3, <3>4, <3>5, <3>6, <1>1 DEF RunOK, NoRun
  <2> QED
    BY <2>1, <2>2
<1>11. ControlOK'
  <2>1. aborted \subseteq 1..runs /\ runs + 1 \notin aborted
    BY <1>1 DEF RunInv, ControlOK
  <2>2. ~outage' => ~mem'.silent
    BY <1>6
  <2>3. stopper' = "idle" /\ up' /\ group' = NoGroup /\ aborted' = aborted
    OBVIOUS
  <2>4. runs' \in 0..MaxRuns /\ faults' \in Nat /\ crashes' \in Nat /\ aborted' \subseteq 1..runs'
    BY <2>1, <1>1, <1>6, TelegramAssumption DEF RunInv, ControlOK, Runs
  <2> QED
    BY <2>1, <2>2, <2>3, <2>4, <1>1, <1>5 DEF ControlOK, Live
<1>12. AlbumOK'
  BY TelegramAssumption DEF RunInv, AlbumOK, NoGroup, Arrived
<1> QED
  BY <1>4, <1>8, <1>9, <1>10, <1>11, <1>12 DEF RunInv

----------------------------------------------------------------------------
\* A step of the loop of r changes its row only; the offset moves only in the current run.
LEMMA RowChange ==
  ASSUME RunInv, NEW r \in Runs, NEW x \in RowType,
         run[r].pc \notin {"off", "done"},
         run' = [run EXCEPT ![r] = x],
         UNCHANGED <<id, current, aborted, runs>>,
         mem'.offset = mem.offset \/ r = current,
         x.pc # "off",
         x.pc # "done" => r = current \/ (r \in aborted /\ x.pc = "intake"),
         x.pc \notin {"batch", "intake", "handed"} => x.batch = {},
         x.pc \notin {"intake", "handed"} => x.taking = {},
         x.pc = "polling" => x.sent = mem'.offset,
         x.batch \cup x.taking \subseteq Arrived,
         x.pc \in {"intake", "handed"} => \E m \in x.taking : \A p \in x.taking : id[p] <= id[m]
  PROVE  run' \in [Runs -> RowType] /\ \A q \in Runs : RunOK(q)'
<1>1. run' \in [Runs -> RowType] /\ run'[r] = x /\ \A q \in Runs : q # r => run'[q] = run[q]
  BY DEF RunInv
<1>2. Arrived' = Arrived
  BY DEF Arrived
<1>3. r \in Nat /\ runs \in Nat /\ ~(r > runs)
  BY TelegramAssumption DEF RunInv, RunOK, NoRun, Runs, ControlOK
<1>4. RunOK(r)'
  BY <1>1, <1>2, <1>3 DEF RunOK
<1>5. ASSUME NEW q \in Runs, q # r PROVE RunOK(q)'
  <2>1. RunOK(q) /\ run'[q] = run[q]
    BY <1>1, <1>5 DEF RunInv
  <2>2. run[q].pc = "polling" => mem'.offset = mem.offset
    BY <2>1, <1>5 DEF RunOK
  <2> QED
    BY <2>1, <2>2, <1>2 DEF RunOK, NoRun
<1> QED
  BY <1>1, <1>4, <1>5

\* The rows a loop goes to with nothing in hand.
LEMMA EmptyRow ==
  ASSUME NEW pc \in {"top", "done", "batch"}, NEW B \in SUBSET Updates
  PROVE  /\ [NoRun EXCEPT !.pc = pc] \in RowType
         /\ [NoRun EXCEPT !.pc = pc].pc = pc
         /\ [NoRun EXCEPT !.pc = pc].batch = {}
         /\ [NoRun EXCEPT !.pc = pc].taking = {}
         /\ [NoRun EXCEPT !.pc = "batch", !.batch = B] \in RowType
         /\ [NoRun EXCEPT !.pc = "batch", !.batch = B].pc = "batch"
         /\ [NoRun EXCEPT !.pc = "batch", !.batch = B].batch = B
         /\ [NoRun EXCEPT !.pc = "batch", !.batch = B].taking = {}
  BY DEF NoRun, RowType

\* The rows after a run goes to pc with nothing in hand.
LEMMA RowsTo ==
  ASSUME RunInv, NEW r \in Runs, NEW pc \in {"top", "done"}, To(r, pc),
         run[r].pc \notin {"off", "done"},
         UNCHANGED <<id, current, aborted, runs>>,
         mem'.offset = mem.offset \/ r = current,
         pc = "top" => r = current
  PROVE  /\ run' \in [Runs -> RowType] /\ \A q \in Runs : RunOK(q)'
         /\ run'[r].pc = pc /\ run'[r].batch = {} /\ run'[r].taking = {}
         /\ \A q \in Runs : q # r => run'[q] = run[q]
<1>1. PICK x \in RowType : x = [NoRun EXCEPT !.pc = pc]
  BY EmptyRow
<1>2. x.pc = pc /\ x.batch = {} /\ x.taking = {} /\ run' = [run EXCEPT ![r] = x]
  BY <1>1, EmptyRow DEF To
<1>3. run' \in [Runs -> RowType] /\ \A q \in Runs : RunOK(q)'
  BY <1>2, RowChange
<1> QED
  BY <1>2, <1>3 DEF RunInv

\* A loop acts for the live run, or its signal is aborted.
LEMMA ActiveRun ==
  ASSUME RunInv, NEW r \in Runs, run[r].pc \notin {"off", "done"}
  PROVE  /\ r \notin aborted => r = current /\ Live
         /\ run[r].pc # "intake" => r = current
         /\ r # 0 /\ (r = current => up)
  BY TelegramAssumption DEF RunInv, RunOK, Live, Runs, ControlOK

LEMMA RunVerify ==
  ASSUME RunInv, NEW r \in Runs, Verify(r)
  PROVE  RunInv'
<1> USE DEF Verify, server, history, counters
<1>1. r = current /\ run[r].pc \notin {"off", "done"} /\ (r \notin aborted => Live)
  BY ActiveRun
<1>2. mem' \in MemType /\ mem'.offset = mem.offset /\ (mem'.silent => mem.silent)
  BY DEF RunInv, AdapterType, MemType
<1>3. PICK pc \in {"top", "done"} : To(r, pc) /\ (r \notin aborted /\ pc = "done" => mem'.silent = mem.silent)
  BY DEF Ended, RunInv, AdapterType, MemType
<1>4. /\ run' \in [Runs -> RowType] /\ \A q \in Runs : RunOK(q)'
      /\ run'[r].pc = pc
  BY <1>1, <1>2, <1>3, RowsTo
<1>5. ControlOK'
  <2>1. Live => ~(run[current].pc = "top")
    BY <1>1
  <2>2. ~outage /\ Live => ~mem'.silent
    BY <2>1, <1>2 DEF RunInv, ControlOK
  <2>3. up
    BY <1>1, ActiveRun DEF RunInv, ControlOK
  <2> QED
    BY <2>2, <2>3, <1>1, <1>4 DEF RunInv, ControlOK, Live
<1> QED
  BY <1>2, <1>4, <1>5 DEF RunInv, ServerType, HistoryType, GroupType, AdapterType, AlbumOK,
       Arrived, NoGroup

\* A call that reaches the server only shrinks the queue.
LEMMA ReachedFacts ==
  ASSUME RunInv, NEW o, Reached(o)
  PROVE  kept' \subseteq kept /\ swallowed' \subseteq Updates /\ kept' = Confirmed(o)
<1>1. kept' = Confirmed(o) /\ kept' \subseteq kept
  BY DEF Reached, Confirmed
<1>2. kept \subseteq Updates /\ swallowed \subseteq Updates
  BY DEF RunInv, ServerType, HistoryType
<1> QED
  BY <1>1, <1>2 DEF Reached

LEMMA RunStops ==
  ASSUME RunInv, StopCall \/ StopSettled \/ StopConfirm \/ \E open \in BOOLEAN : ResolveGate(open)
  PROVE  RunInv'
<1> USE DEF server, history, counters
<1>1. CASE StopCall
  <2> USE <1>1 DEF StopCall
  <2>1. mem' \in MemType /\ mem'.offset = mem.offset /\ mem'.silent = mem.silent
    BY DEF RunInv, AdapterType, MemType
  <2>2. current \in Runs /\ current \in 1..runs
    BY TelegramAssumption DEF RunInv, AdapterType, ControlOK, Runs
  <2>3. \A q \in Runs : RunOK(q)'
    BY <2>1 DEF RunInv, RunOK, Arrived, NoRun
  <2>4. ControlOK'
    BY <2>1, <2>2 DEF RunInv, ControlOK, Live
  <2>5. AdapterType'
    BY <2>1, <2>2 DEF RunInv, AdapterType
  <2> QED
    BY <2>3, <2>4, <2>5
    DEF RunInv, ServerType, HistoryType, GroupType, AlbumOK, Arrived, NoGroup, RowType
<1>2. CASE StopSettled
  <2> USE <1>2 DEF StopSettled
  <2>1. current \in aborted /\ current \in Runs /\ current # 0
    BY TelegramAssumption DEF RunInv, AdapterType, ControlOK, Runs
  <2>2. \A q \in Runs : RunOK(q)'
    <3> SUFFICES ASSUME NEW q \in Runs PROVE RunOK(q)'
      OBVIOUS
    <3>1. RunOK(q)
      BY DEF RunInv
    <3>2. run[q].pc \notin {"off", "done"} => q \in aborted /\ run[q].pc = "intake"
      BY <3>1, <2>1 DEF RunOK
    <3> QED
      BY <3>1, <3>2 DEF RunOK, Arrived, NoRun
  <2>3. 0 \notin aborted
    BY DEF RunInv, ControlOK
  <2>4. ControlOK'
    BY <2>1, <2>3, TelegramAssumption DEF RunInv, ControlOK, Live
  <2>5. AdapterType'
    BY TelegramAssumption DEF RunInv, AdapterType
  <2>6. GroupType' /\ AlbumOK'
    BY TelegramAssumption DEF RunInv, GroupType, AlbumOK, NoGroup, Arrived
  <2> QED
    BY <2>2, <2>4, <2>5, <2>6 DEF RunInv, ServerType, HistoryType, RowType
<1>3. CASE StopConfirm
  <2> USE <1>3 DEF StopConfirm
  <2>1. mem' \in MemType /\ mem'.offset = mem.offset /\ mem'.silent = mem.silent
    BY DEF RunInv, AdapterType, MemType
  <2>2. kept' \subseteq kept /\ swallowed' \subseteq Updates
    BY ReachedFacts DEF RunInv, HistoryType
  <2>3. \A q \in Runs : RunOK(q)'
    BY <2>1 DEF RunInv, RunOK, Arrived, NoRun
  <2>4. up /\ ControlOK'
    BY <2>1 DEF RunInv, ControlOK, Live
  <2>5. AdapterType'
    BY <2>1 DEF RunInv, AdapterType
  <2>6. ServerType' /\ AlbumOK'
    BY <2>2 DEF RunInv, ServerType, AlbumOK, Arrived
  <2> QED
    BY <2>2, <2>3, <2>4, <2>5, <2>6 DEF RunInv, HistoryType, GroupType, NoGroup, RowType
<1>4. CASE \E open \in BOOLEAN : ResolveGate(open)
  <2> USE <1>4 DEF ResolveGate
  <2>3. \A q \in Runs : RunOK(q)'
    BY DEF RunInv, RunOK, Arrived, NoRun
  <2>4. ControlOK' /\ AdapterType'
    BY DEF RunInv, ControlOK, Live, AdapterType
  <2> QED
    BY <2>3, <2>4
    DEF RunInv, ServerType, HistoryType, GroupType, AlbumOK, Arrived, NoGroup, RowType
<1> QED
  BY <1>1, <1>2, <1>3, <1>4

LEMMA RunCrash ==
  ASSUME RunInv, Crash
  PROVE  RunInv'
<1> USE DEF Crash, server
<1>1. run' = [q \in Runs |-> IF run[q].pc = "off" THEN NoRun ELSE [NoRun EXCEPT !.pc = "done"]]
  OBVIOUS
<1>2. NoRun \in RowType /\ [NoRun EXCEPT !.pc = "done"] \in RowType
  BY DEF NoRun, RowType
<1>3. run' \in [Runs -> RowType]
  BY <1>1, <1>2
<1>4. ASSUME NEW q \in Runs PROVE RunOK(q)'
  <2>1. RunOK(q)
    BY DEF RunInv
  <2>2. CASE run[q].pc = "off"
    BY <2>1, <2>2, <1>1 DEF RunOK, NoRun
  <2>3. CASE run[q].pc # "off"
    <3>1. ~(q > runs)
      BY <2>1, <2>3 DEF RunOK, NoRun
    <3> QED
      BY <3>1, <2>3, <1>1 DEF RunOK, NoRun
  <2> QED
    BY <2>2, <2>3
<1>5. ControlOK'
  <2>1. 0 \notin aborted
    BY DEF RunInv, ControlOK
  <2> QED
    BY <2>1 DEF RunInv, ControlOK, Live
<1>6. AdapterType'
  <2>1. FreshMem \in MemType
    BY DEF FreshMem, MemType
  <2>2. 0 \in 0..MaxRuns
    BY TelegramAssumption
  <2> QED
    BY <2>1, <2>2 DEF RunInv, AdapterType
<1>7. GroupType' /\ AlbumOK'
  BY TelegramAssumption DEF RunInv, GroupType, AlbumOK, NoGroup, Arrived
<1>8. HistoryType'
  <2>1. UNION {run[r].taking : r \in {q \in Runs : run[q].pc = "handed"}} \subseteq Updates
    BY DEF RunInv, RowType
  <2> QED
    BY <2>1 DEF RunInv, HistoryType
<1> QED
  BY <1>3, <1>4, <1>5, <1>6, <1>7, <1>8 DEF RunInv, ServerType

LEMMA RunPollStart ==
  ASSUME RunInv, NEW r \in Runs, PollStart(r)
  PROVE  RunInv'
<1> USE DEF PollStart, server, history, counters
<1>1. r = current /\ run[r].pc \notin {"off", "done"} /\ (r \notin aborted => Live) /\ up
  BY ActiveRun
<1>2. mem' \in MemType
  <2>1. mem \in MemType
    BY DEF RunInv, AdapterType
  <2>2. PICK o \in Nat : o = IF mem.silent THEN 0 ELSE mem.offset
    BY <2>1 DEF MemType
  <2>3. mem' = mem \/ mem' = [mem EXCEPT !.offset = o, !.silent = FALSE]
    BY <2>1, <2>2
  <2> QED
    BY <2>1, <2>3 DEF MemType
<1>3. CASE r \in aborted
  <2>1. Ended(r) /\ mem' = mem
    BY <1>3
  <2>2. run' \in [Runs -> RowType] /\ (\A q \in Runs : RunOK(q)') /\ run'[r].pc = "done"
    BY <2>1, <1>1, RowsTo DEF Ended
  <2> QED
    BY <2>1, <2>2, <1>1, <1>3 DEF RunInv, ServerType, HistoryType, GroupType, AdapterType,
       ControlOK, AlbumOK, Arrived, NoGroup, Live
<1>4. CASE r \notin aborted
  <2>1. PICK x \in RowType : x = [run[r] EXCEPT !.pc = "polling", !.sent = mem'.offset]
    BY <1>2 DEF RunInv, RowType, MemType
  <2>2. run' = [run EXCEPT ![r] = x]
    BY <1>4, <2>1 DEF RunInv
  <2>3. /\ x.pc = "polling" /\ x.sent = mem'.offset
        /\ x.batch = run[r].batch /\ x.taking = run[r].taking
    BY <2>1 DEF RunInv, RowType
  <2>4. x.batch = {} /\ x.taking = {}
    BY <2>3 DEF RunInv, RunOK
  <2>5. run' \in [Runs -> RowType] /\ \A q \in Runs : RunOK(q)'
    BY <2>2, <2>3, <2>4, <1>1, RowChange
  <2>6. run'[r].pc = "polling" /\ ~mem'.silent
    BY <2>2, <2>3, <1>4 DEF RunInv, AdapterType, MemType
  <2>7. ControlOK'
    BY <2>6, <1>1 DEF RunInv, ControlOK, Live
  <2> QED
    BY <2>5, <2>7, <1>2 DEF RunInv, ServerType, HistoryType, GroupType, AdapterType, AlbumOK,
       Arrived, NoGroup
<1> QED
  BY <1>3, <1>4

----------------------------------------------------------------------------
\* What an answer may carry is on the server, at or above the offset.
LEMMA BatchFacts ==
  ASSUME NEW o, NEW B \in Batches(o)
  PROVE  /\ B \subseteq Confirmed(o)
         /\ \A u \in B : \A v \in Confirmed(o) : id[v] < id[u] => v \in B
         /\ B = {} => Confirmed(o) = {}
         /\ mem.single /\ B # {} => Cardinality(B) = 1
<1> PICK S : S = Confirmed(o)
  OBVIOUS
<1>1. CASE S = {}
  BY <1>1 DEF Batches
<1>2. CASE S # {}
  <2>1. B \in {P \in Prefixes(S) : P # {} /\ (mem.single => Cardinality(P) = 1)}
    BY <1>2 DEF Batches
  <2> QED
    BY <2>1 DEF Prefixes
<1> QED
  BY <1>1, <1>2

\* The largest id of a set that has a last update.
LEMMA MaxOfIds ==
  ASSUME id \in [Updates -> Nat], NEW T \in SUBSET Updates, NEW m \in T,
         \A p \in T : id[p] <= id[m]
  PROVE  Max({id[u] : u \in T}) = id[m]
<1> PICK S : S = {id[u] : u \in T}
  OBVIOUS
<1>1. id[m] \in S /\ \A y \in S : id[m] >= y
  OBVIOUS
<1>2. \A x \in S : x \in Nat
  OBVIOUS
<1>3. Max(S) \in S /\ \A y \in S : Max(S) >= y
  <2>1. \E x \in S : \A y \in S : x >= y
    BY <1>1
  <2> QED
    BY <2>1, Zenon DEF Max
<1>4. Max(S) = id[m]
  <2>1. PICK x : x = Max(S)
    OBVIOUS
  <2>2. x \in S /\ x >= id[m] /\ id[m] >= x
    BY <1>1, <1>3, <2>1, Zenon
  <2>3. x \in Nat /\ id[m] \in Nat
    BY <1>1, <1>2, <2>2
  <2> QED
    BY <2>1, <2>2, <2>3
<1> QED
  BY <1>4, Zenon

\* What a save leaves: the offset is o; it is on the file, or it was there already, or the
\* updates are noted as forgotten.
SavedAt(o, us) ==
  /\ mem'.offset = o /\ mem'.silent = mem.silent
  /\ \/ /\ o = 0 \/ o = mem.saved
        /\ mem'.saved = mem.saved /\ file' = file /\ forgotten' = forgotten
     \/ /\ o # 0 /\ mem'.saved = o
        /\ file' = [offset |-> o, stale |-> FALSE] /\ forgotten' = forgotten
     \/ /\ o # 0 /\ mem'.saved = mem.saved
        /\ file' = file /\ forgotten' = forgotten \cup us

\* Persist is described by SavedAt and keeps the types.
LEMMA PersistFacts ==
  ASSUME RunInv, NEW m \in MemType, NEW us \in SUBSET Updates, Persist(m, us),
         m.saved = mem.saved, m.silent = mem.silent
  PROVE  /\ mem' \in MemType /\ file' \in FileType /\ forgotten' \subseteq Updates /\ faults' \in Nat
         /\ SavedAt(m.offset, us)
<1>1. file \in FileType /\ forgotten \subseteq Updates /\ faults \in Nat
  BY DEF RunInv, AdapterType, HistoryType, ControlOK
<1>2. m.offset \in Nat
  BY DEF MemType
<1>3. CASE (m.offset = 0 \/ m.offset = m.saved) /\ mem' = m /\ UNCHANGED <<file, forgotten, faults>>
  BY <1>1, <1>3 DEF SavedAt
<1>4. CASE /\ m.offset # 0 /\ m.offset # m.saved
           /\ mem' = [m EXCEPT !.saved = m.offset]
           /\ file' = [offset |-> m.offset, stale |-> FALSE]
           /\ UNCHANGED <<forgotten, faults>>
  <2>1. mem' \in MemType /\ mem'.offset = m.offset /\ mem'.silent = m.silent /\ mem'.saved = m.offset
    BY <1>2, <1>4 DEF MemType
  <2>2. file' \in FileType
    BY <1>2, <1>4 DEF FileType
  <2> QED
    BY <2>1, <2>2, <1>1, <1>4 DEF SavedAt
<1>5. CASE /\ m.offset # 0 /\ m.offset # m.saved
           /\ faults < MaxFaults /\ faults' = faults + 1
           /\ mem' = m
           /\ forgotten' = forgotten \cup us
           /\ UNCHANGED file
  BY <1>1, <1>5 DEF SavedAt
<1> QED
  BY <1>3, <1>4, <1>5 DEF Persist

LEMMA RunAnswer ==
  ASSUME RunInv, NEW r \in Runs, Answer(r)
  PROVE  RunInv'
<1> USE DEF Answer, counters
<1>1. r = current /\ run[r].pc \notin {"off", "done"} /\ (r \notin aborted => Live) /\ up
  BY ActiveRun
<1>2. PICK B \in Batches(run[r].sent) :
       IF r \in aborted
       THEN Ended(r) /\ UNCHANGED mem
       ELSE /\ run' = [run EXCEPT ![r] = [NoRun EXCEPT !.pc = "batch", !.batch = B]]
            /\ mem' = [mem EXCEPT !.single = FALSE, !.silent = @ /\ B = {},
                         !.confirmed = IF run[r].sent # 0 THEN run[r].sent ELSE @]
  BY Zenon
<1>3. B \subseteq kept /\ kept' \subseteq kept /\ swallowed' \subseteq Updates
  BY BatchFacts, ReachedFacts DEF Confirmed
<1>4. ServerType' /\ AlbumOK' /\ HistoryType'
  BY <1>3 DEF RunInv, ServerType, AlbumOK, Arrived, HistoryType
<1>5. CASE r \in aborted
  <2>1. Ended(r) /\ mem' = mem
    BY <1>2, <1>5
  <2>2. run' \in [Runs -> RowType] /\ (\A q \in Runs : RunOK(q)') /\ run'[r].pc = "done"
    BY <2>1, <1>1, RowsTo DEF Ended
  <2> QED
    BY <2>1, <2>2, <1>1, <1>4, <1>5 DEF RunInv, GroupType, AdapterType,
       ControlOK, NoGroup, Live
<1>6. CASE r \notin aborted
  <2>1. PICK s \in BOOLEAN : s = (mem.silent /\ B = {})
    BY DEF RunInv, AdapterType, MemType
  <2>2. PICK c \in Nat : c = IF run[r].sent # 0 THEN run[r].sent ELSE mem.confirmed
    BY DEF RunInv, AdapterType, MemType, RowType
  <2>3. mem' = [mem EXCEPT !.single = FALSE, !.silent = s, !.confirmed = c]
    BY <1>2, <1>6, <2>1, <2>2 DEF RunInv, AdapterType, MemType
  <2>4. mem' \in MemType /\ mem'.offset = mem.offset /\ mem'.silent = s
    BY <2>3 DEF RunInv, AdapterType, MemType
  <2>5. PICK x \in RowType : x = [NoRun EXCEPT !.pc = "batch", !.batch = B]
    BY <1>3, EmptyRow DEF RunInv, ServerType
  <2>6. x.pc = "batch" /\ x.batch = B /\ x.taking = {} /\ run' = [run EXCEPT ![r] = x]
    BY <2>5, <1>2, <1>3, <1>6, EmptyRow DEF RunInv, ServerType
  <2>7. B \subseteq Arrived
    BY <1>3 DEF RunInv, AlbumOK
  <2>8. run' \in [Runs -> RowType] /\ \A q \in Runs : RunOK(q)'
    BY <2>6, <2>7, <2>4, <1>1, RowChange
  <2>9. run'[r].pc = "batch"
    BY <2>6 DEF RunInv
  <2>10. ControlOK'
    <3>1. ~outage => ~mem.silent
      BY <1>1, <1>6 DEF RunInv, ControlOK
    <3>2. ~outage => ~mem'.silent
      BY <3>1, <2>1, <2>4
    <3> QED
      BY <3>2, <2>9, <1>1 DEF RunInv, ControlOK, Live
  <2> QED
    BY <2>4, <2>8, <2>10, <1>4 DEF RunInv, GroupType, AdapterType, NoGroup
<1> QED
  BY <1>5, <1>6

LEMMA RunTooLarge ==
  ASSUME RunInv, NEW r \in Runs, TooLarge(r)
  PROVE  RunInv'
<1> USE DEF TooLarge
<1>1. r = current /\ run[r].pc \notin {"off", "done"} /\ Live /\ up
  BY ActiveRun
<1>2. PICK B \in Batches(run[r].sent) :
        /\ To(r, "top")
        /\ \/ ~mem.single /\ mem' = [mem EXCEPT !.single = TRUE]
              /\ UNCHANGED <<file, passed, forgotten, faults>>
           \/ mem.single /\ mem.offset = 0 /\ UNCHANGED <<mem, file, passed, forgotten, faults>>
           \/ /\ mem.single /\ mem.offset # 0
              /\ passed' = passed \cup {u \in B : id[u] = mem.offset}
              /\ Persist([mem EXCEPT !.offset = @ + 1], {})
  BY Zenon
<1>3. B \subseteq kept /\ kept' \subseteq kept /\ swallowed' \subseteq Updates
  BY BatchFacts, ReachedFacts DEF Confirmed
<1>4. ServerType' /\ AlbumOK'
  BY <1>3 DEF RunInv, ServerType, AlbumOK, Arrived
<1>5. mem \in MemType
  BY DEF RunInv, AdapterType
<1>6. /\ mem' \in MemType /\ file' \in FileType /\ forgotten' \subseteq Updates /\ faults' \in Nat
      /\ passed' \subseteq Updates
  <2>1. CASE ~mem.single /\ mem' = [mem EXCEPT !.single = TRUE]
             /\ UNCHANGED <<file, passed, forgotten, faults>>
    BY <1>5, <2>1 DEF MemType, RunInv, AdapterType, HistoryType, ControlOK
  <2>2. CASE mem.single /\ mem.offset = 0 /\ UNCHANGED <<mem, file, passed, forgotten, faults>>
    BY <2>2 DEF RunInv, AdapterType, HistoryType, ControlOK
  <2>3. CASE /\ mem.single /\ mem.offset # 0
             /\ passed' = passed \cup {u \in B : id[u] = mem.offset}
             /\ Persist([mem EXCEPT !.offset = @ + 1], {})
    <3>1. PICK m \in MemType : m = [mem EXCEPT !.offset = @ + 1]
      BY <1>5 DEF MemType
    <3>2. m.saved = mem.saved /\ m.silent = mem.silent
      BY <1>5, <3>1 DEF MemType
    <3>3. passed' \subseteq Updates
      BY <1>3, <2>3 DEF RunInv, ServerType, HistoryType
    <3> QED
      BY <2>3, <3>1, <3>2, <3>3, PersistFacts
  <2> QED
    BY <1>2, <2>1, <2>2, <2>3
<1>7. /\ run' \in [Runs -> RowType] /\ \A q \in Runs : RunOK(q)'
      /\ run'[r].pc = "top"
  BY <1>1, <1>2, RowsTo
<1>8. ControlOK'
  BY <1>1, <1>6, <1>7 DEF RunInv, ControlOK, Live
<1> QED
  BY <1>3, <1>4, <1>6, <1>7, <1>8 DEF RunInv, HistoryType, GroupType, AdapterType, NoGroup

LEMMA RunPollOver ==
  ASSUME RunInv, NEW r \in Runs, PollFails(r) \/ PollEnds(r)
  PROVE  RunInv'
<1> USE DEF server, history, counters
<1>1. r = current /\ run[r].pc \notin {"off", "done"} /\ up
  BY ActiveRun DEF PollFails, PollEnds
<1>2. kept' \subseteq kept /\ id' = id /\ faults' \in Nat /\ swallowed' \subseteq Updates
  BY ReachedFacts DEF PollFails, PollEnds, RunInv, ControlOK, HistoryType
<1>3. mem' \in MemType /\ mem'.offset = mem.offset /\ mem'.silent = mem.silent
  BY DEF PollFails, PollEnds, RunInv, AdapterType, MemType
<1>4. PICK pc \in {"top", "done"} : To(r, pc)
  BY DEF PollFails, PollEnds, Ended
<1>5. Live /\ ~outage => ~mem.silent
  BY <1>1 DEF PollFails, PollEnds, RunInv, ControlOK
<1>6. UNCHANGED <<kind, nextId, quiet, file, up, group, current, aborted, gate, stopper, handed,
                  passed, expired, forgotten, outage, runs, crashes>>
  BY DEF PollFails, PollEnds
<1>7. /\ run' \in [Runs -> RowType] /\ \A q \in Runs : RunOK(q)'
      /\ run'[r].pc = pc
  BY <1>1, <1>2, <1>3, <1>4, <1>6, RowsTo
<1>8. ControlOK'
  BY <1>1, <1>2, <1>3, <1>5, <1>6, <1>7 DEF RunInv, ControlOK, Live
<1> QED
  BY <1>2, <1>3, <1>6, <1>7, <1>8
  DEF RunInv, ServerType, HistoryType, GroupType, AdapterType, AlbumOK, Arrived, NoGroup

LEMMA RunAbandon ==
  ASSUME RunInv, NEW r \in Runs, Abandon(r)
  PROVE  RunInv'
<1> USE DEF Abandon, server, history, counters
<1>1. r = current /\ run[r].pc \notin {"off", "done"} /\ up
  BY ActiveRun
<1>2. /\ run' \in [Runs -> RowType] /\ \A q \in Runs : RunOK(q)'
      /\ run'[r].pc = "done"
  BY <1>1, RowsTo DEF Ended
<1>3. GroupType' /\ AlbumOK'
  BY TelegramAssumption DEF RunInv, GroupType, AlbumOK, NoGroup, Arrived
<1>4. Live /\ ~outage => ~mem.silent
  BY <1>1 DEF RunInv, ControlOK
<1>5. ControlOK'
  BY <1>1, <1>2, <1>4 DEF RunInv, ControlOK, Live
<1> QED
  BY <1>2, <1>3, <1>5 DEF RunInv, ServerType, HistoryType, AdapterType

\* The first update of the live batch.
LEMMA FirstOfBatch ==
  ASSUME RunInv, NEW r \in Runs, run[r].batch # {}
  PROVE  /\ First(run[r].batch) \in run[r].batch /\ First(run[r].batch) \in Updates
         /\ \A v \in run[r].batch : id[First(run[r].batch)] <= id[v]
  BY FirstIsLeast DEF RunInv, ServerType, RowType

\* A row that loses an update of its batch, or goes to its intake.
LEMMA RowParts ==
  ASSUME RunInv, NEW r \in Runs, NEW B \in SUBSET Updates, NEW T \in SUBSET Updates
  PROVE  /\ [run[r] EXCEPT !.batch = B] \in RowType
         /\ [run[r] EXCEPT !.pc = "intake", !.taking = T] \in RowType
         /\ [run[r] EXCEPT !.pc = "handed", !.taking = T] \in RowType
         /\ [run[r] EXCEPT !.pc = "handed"] \in RowType
         /\ [run[r] EXCEPT !.pc = "batch", !.batch = B, !.taking = {}] \in RowType
  BY DEF RunInv, RowType

\* One update leaves the batch of the live run.
LEMMA RowLessOne ==
  ASSUME RunInv, NEW r \in Runs, NEW u, run[r].pc = "batch", r \notin aborted,
         run' = [run EXCEPT ![r].batch = @ \ {u}],
         UNCHANGED <<id, current, aborted, runs>>
  PROVE  /\ run' \in [Runs -> RowType] /\ \A q \in Runs : RunOK(q)'
         /\ run'[r].pc = "batch" /\ run'[r].batch = run[r].batch \ {u} /\ run'[r].taking = {}
<1>1. r = current /\ run[r].taking = {}
  BY ActiveRun DEF RunInv, RunOK
<1>2. PICK B \in SUBSET Updates : B = run[r].batch \ {u}
  BY DEF RunInv, RowType
<1>3. PICK x \in RowType : x = [run[r] EXCEPT !.batch = B]
  BY RowParts
<1>4. x.pc = "batch" /\ x.batch = B /\ x.taking = {}
  <2>1. run[r] \in RowType
    BY DEF RunInv
  <2> QED
    BY <1>1, <1>3, <2>1 DEF RowType
<1>5. run' = [run EXCEPT ![r] = x]
  BY <1>2, <1>3 DEF RunInv
<1>6. B \subseteq Arrived
  BY <1>2 DEF RunInv, RunOK
<1>7. run' \in [Runs -> RowType] /\ \A q \in Runs : RunOK(q)'
  BY <1>1, <1>4, <1>5, <1>6, RowChange
<1> QED
  BY <1>2, <1>4, <1>5, <1>7 DEF RunInv

\* The live run takes T: it fetches the files, or has called the handler.
LEMMA RowIntake ==
  ASSUME RunInv, NEW r \in Runs, NEW T \in SUBSET Updates, NEW pc \in {"intake", "handed"},
         run[r].pc = "batch", r \notin aborted,
         run' = [run EXCEPT ![r].pc = pc, ![r].taking = T],
         UNCHANGED <<id, current, aborted, runs, mem>>,
         T \subseteq Arrived, \E m \in T : \A p \in T : id[p] <= id[m]
  PROVE  /\ run' \in [Runs -> RowType] /\ \A q \in Runs : RunOK(q)'
         /\ run'[r].pc = pc /\ run'[r].batch = run[r].batch /\ run'[r].taking = T
<1>1. r = current
  BY ActiveRun
<1>3. PICK x \in RowType : x = [run[r] EXCEPT !.pc = pc, !.taking = T]
  BY RowParts
<1>4. x.pc = pc /\ x.batch = run[r].batch /\ x.taking = T
  <2>1. run[r] \in RowType
    BY DEF RunInv
  <2> QED
    BY <1>3, <2>1 DEF RowType
<1>5. run' = [run EXCEPT ![r] = x]
  BY <1>3 DEF RunInv
<1>6. run[r].batch \subseteq Arrived
  BY DEF RunInv, RunOK
<1>7. run' \in [Runs -> RowType] /\ \A q \in Runs : RunOK(q)'
  BY <1>1, <1>4, <1>5, <1>6, RowChange
<1> QED
  BY <1>4, <1>5, <1>7 DEF RunInv

\* What TakeAlbum takes has a last part.
LEMMA AlbumHasLast ==
  ASSUME RunInv, group # NoGroup
  PROVE  /\ group.parts \in SUBSET Updates /\ group.parts # {} /\ group.parts \subseteq Arrived
         /\ \E m \in group.parts : \A p \in group.parts : id[p] <= id[m]
<1>1. group.parts \in SUBSET Updates /\ group.parts # {} /\ group.parts \subseteq Arrived
  BY DEF RunInv, GroupType, AlbumOK
<1>2. PICK m \in group.parts : id[m] = group.last
  BY <1>1 DEF RunInv, AlbumOK
<1>3. \A p \in group.parts : id[p] <= id[m]
  BY <1>2 DEF RunInv, AlbumOK
<1> QED
  BY <1>1, <1>3

LEMMA RunTakeAlbum ==
  ASSUME RunInv, NEW r \in Runs, run[r].pc = "batch", r \notin aborted, group # NoGroup,
         TakeAlbum(r), UNCHANGED <<up, current, aborted, gate, stopper, runs, crashes>>
  PROVE  /\ RunInv'
         /\ run'[r].pc = "intake" /\ run'[r].batch = run[r].batch /\ run'[r].taking = group.parts
<1> USE DEF TakeAlbum, server, history
<1>1. r = current /\ Live /\ up
  BY ActiveRun
<1>2. /\ run' \in [Runs -> RowType] /\ \A q \in Runs : RunOK(q)'
      /\ run'[r].pc = "intake" /\ run'[r].batch = run[r].batch /\ run'[r].taking = group.parts
  BY AlbumHasLast, RowIntake
<1>3. GroupType' /\ AlbumOK'
  BY TelegramAssumption DEF RunInv, GroupType, AlbumOK, NoGroup, Arrived
<1>4. ControlOK'
  BY <1>1, <1>2 DEF RunInv, ControlOK, Live
<1> QED
  BY <1>2, <1>3, <1>4 DEF RunInv, ServerType, HistoryType, AdapterType

\* Counting a hand-over keeps the type.
LEMMA HandCountType ==
  ASSUME handed \in [Updates -> Nat], NEW us
  PROVE  HandCount(us) \in [Updates -> Nat]
  BY DEF HandCount

\* Every case of HandleNext leaves these alone.
Beside == <<up, current, aborted, gate, stopper, runs, crashes>>

\* The state in which handleBatch meets u.
Meets(r, u) ==
  /\ r \in Runs /\ run[r].pc = "batch" /\ r \notin aborted
  /\ u \in run[r].batch /\ u \in Updates /\ \A v \in run[r].batch : id[u] <= id[v]

LEMMA RunSkip ==
  ASSUME RunInv, NEW r, NEW u, Meets(r, u), SkipRepeated(r, u), UNCHANGED Beside
  PROVE  RunInv'
<1> USE DEF SkipRepeated, Meets, Beside, server, history
<1>1. r = current /\ Live
  BY ActiveRun
<1>2. run' \in [Runs -> RowType] /\ (\A q \in Runs : RunOK(q)') /\ run'[r].pc = "batch"
  BY RowLessOne
<1>3. ControlOK'
  BY <1>1, <1>2 DEF RunInv, ControlOK, Live
<1> QED
  BY <1>2, <1>3
  DEF RunInv, ServerType, HistoryType, AdapterType, GroupType, NoGroup, AlbumOK, Arrived

LEMMA RunCollect ==
  ASSUME RunInv, NEW r, NEW u, Meets(r, u), CollectPart(r, u), UNCHANGED Beside
  PROVE  RunInv'
<1> USE DEF CollectPart, Meets, Beside, server, history
<1>1. r = current /\ Live
  BY ActiveRun
<1>2. run' \in [Runs -> RowType] /\ (\A q \in Runs : RunOK(q)') /\ run'[r].pc = "batch"
  BY RowLessOne
<1>3. ControlOK'
  BY <1>1, <1>2 DEF RunInv, ControlOK, Live
<1>4. id \in [Updates -> Nat] /\ u \in Arrived
  BY DEF RunInv, ServerType, RunOK
<1>5. /\ group'.parts = group.parts \cup {u} /\ group'.last = id[u] /\ group'.rounds = group.rounds
      /\ group' = [parts |-> group.parts \cup {u}, last |-> id[u], grew |-> TRUE,
                   rounds |-> group.rounds]
  OBVIOUS
<1>6. GroupType'
  BY <1>4, <1>5 DEF RunInv, GroupType
<1>7. \A p \in group.parts : id[p] <= id[u]
  <2>1. CASE group = NoGroup
    BY <2>1 DEF NoGroup
  <2>2. CASE group # NoGroup
    <3>1. ~(id[u] <= group.last)
      BY <2>2 DEF Repeated
    <3>2. group.last \in Nat /\ \A p \in group.parts : id[p] <= group.last /\ p \in Updates
      BY DEF RunInv, GroupType, AlbumOK
    <3> QED
      BY <3>1, <3>2, <1>4
  <2> QED
    BY <2>1, <2>2
<1>8. AlbumOK'
  BY <1>4, <1>5, <1>7 DEF RunInv, AlbumOK, Arrived
<1> QED
  BY <1>2, <1>3, <1>6, <1>8 DEF RunInv, ServerType, HistoryType, AdapterType

LEMMA RunHandText ==
  ASSUME RunInv, NEW r, NEW u, Meets(r, u), HandText(r, u), UNCHANGED Beside
  PROVE  /\ RunInv'
         /\ run'[r].pc = "handed" /\ run'[r].batch = run[r].batch /\ run'[r].taking = {u}
<1> USE DEF HandText, Meets, Beside, server
<1>1. r = current /\ Live /\ up
  BY ActiveRun
<1>2. {u} \in SUBSET Updates /\ {u} \subseteq Arrived
  BY DEF RunInv, RunOK
<1>3. \E m \in {u} : \A p \in {u} : id[p] <= id[m]
  BY DEF RunInv, ServerType
<1>4. /\ run' \in [Runs -> RowType] /\ \A q \in Runs : RunOK(q)'
      /\ run'[r].pc = "handed" /\ run'[r].batch = run[r].batch /\ run'[r].taking = {u}
  BY <1>2, <1>3, RowIntake
<1>5. ControlOK'
  BY <1>1, <1>4 DEF RunInv, ControlOK, Live
<1>6. HistoryType'
  BY HandCountType DEF RunInv, HistoryType
<1> QED
  BY <1>4, <1>5, <1>6
  DEF RunInv, ServerType, AdapterType, GroupType, NoGroup, AlbumOK, Arrived

LEMMA RunFetch ==
  ASSUME RunInv, NEW r, NEW u, Meets(r, u), FetchFiles(r, u), UNCHANGED Beside
  PROVE  /\ RunInv'
         /\ run'[r].pc = "intake" /\ run'[r].batch = run[r].batch /\ run'[r].taking = {u}
<1> USE DEF FetchFiles, Meets, Beside, server, history
<1>1. r = current /\ Live
  BY ActiveRun
<1>2. {u} \in SUBSET Updates /\ {u} \subseteq Arrived
  BY DEF RunInv, RunOK
<1>3. \E m \in {u} : \A p \in {u} : id[p] <= id[m]
  BY DEF RunInv, ServerType
<1>4. /\ run' \in [Runs -> RowType] /\ \A q \in Runs : RunOK(q)'
      /\ run'[r].pc = "intake" /\ run'[r].batch = run[r].batch /\ run'[r].taking = {u}
  BY <1>2, <1>3, RowIntake
<1>5. ControlOK'
  BY <1>1, <1>4 DEF RunInv, ControlOK, Live
<1> QED
  BY <1>4, <1>5
  DEF RunInv, ServerType, HistoryType, AdapterType, GroupType, NoGroup, AlbumOK, Arrived

LEMMA RunDrop ==
  ASSUME RunInv, NEW r, NEW u, Meets(r, u), Drop(r, u), UNCHANGED Beside
  PROVE  /\ RunInv'
         /\ mem'.offset = id[u] + 1 /\ mem'.saved = mem.saved /\ mem'.silent = mem.silent
<1> USE DEF Drop, Meets, Beside, server
<1>1. r = current /\ Live /\ up
  BY ActiveRun
<1>2. run' \in [Runs -> RowType] /\ (\A q \in Runs : RunOK(q)') /\ run'[r].pc = "batch"
  BY RowLessOne
<1>3. mem \in MemType /\ id[u] + 1 \in Nat
  BY DEF RunInv, AdapterType, ServerType
<1>4. /\ mem' \in MemType
      /\ mem'.offset = id[u] + 1 /\ mem'.saved = mem.saved /\ mem'.silent = mem.silent
  BY <1>3 DEF MemType
<1>5. ControlOK'
  BY <1>1, <1>2, <1>4 DEF RunInv, ControlOK, Live
<1> QED
  BY <1>2, <1>4, <1>5
  DEF RunInv, ServerType, HistoryType, AdapterType, GroupType, NoGroup, AlbumOK, Arrived

\* HandleNext is one of its six cases, for the first update of the batch.
LEMMA HandleCases ==
  ASSUME RunInv, NEW r \in Runs, HandleNext(r)
  PROVE  /\ UNCHANGED Beside
         /\ \E u \in Updates :
              /\ Meets(r, u)
              /\ \/ SkipRepeated(r, u) \/ CollectPart(r, u) \/ FlushFirst(r, u)
                 \/ HandText(r, u) \/ FetchFiles(r, u) \/ Drop(r, u)
<1>1. run[r].pc = "batch" /\ run[r].batch # {} /\ r \notin aborted /\ UNCHANGED Beside
  BY DEF HandleNext, Beside
<1>2. PICK u : u = First(run[r].batch)
  OBVIOUS
<1>3. Meets(r, u) /\ u \in Updates
  BY <1>1, <1>2, FirstOfBatch DEF Meets
<1>4. \/ SkipRepeated(r, u) \/ CollectPart(r, u) \/ FlushFirst(r, u)
      \/ HandText(r, u) \/ FetchFiles(r, u) \/ Drop(r, u)
  BY <1>2, Zenon DEF HandleNext
<1> QED
  BY <1>1, <1>3, <1>4

LEMMA RunHandleNext ==
  ASSUME RunInv, NEW r \in Runs, HandleNext(r)
  PROVE  RunInv'
<1>1. UNCHANGED Beside
  BY HandleCases
<1>2. PICK u \in Updates :
        /\ Meets(r, u)
        /\ \/ SkipRepeated(r, u) \/ CollectPart(r, u) \/ FlushFirst(r, u)
           \/ HandText(r, u) \/ FetchFiles(r, u) \/ Drop(r, u)
  BY HandleCases
<1>3. CASE FlushFirst(r, u)
  BY <1>1, <1>2, <1>3, RunTakeAlbum DEF FlushFirst, Meets, Beside
<1> QED
  BY <1>1, <1>2, <1>3, RunSkip, RunCollect, RunHandText, RunFetch, RunDrop

\* The intake of a run that was stopped, or whose side is halted, ends it.
IntakeClosed(r) == HandOverClosed(r) /\ Ended(r) /\ UNCHANGED handed

IntakeOpen(r) ==
  /\ ~HandOverClosed(r)
  /\ handed' = HandCount(run[r].taking)
  /\ run' = [run EXCEPT ![r].pc = "handed"]

IntakeBeside ==
  /\ UNCHANGED <<id, kind, kept, nextId, quiet, file, up, mem, group, current, aborted, gate>>
  /\ UNCHANGED <<stopper, passed, expired, forgotten, outage, swallowed, runs, faults, crashes>>

\* The two ends of an intake.
LEMMA IntakeCases ==
  ASSUME NEW r, IntakeDone(r)
  PROVE  run[r].pc = "intake" /\ IntakeBeside /\ (IntakeClosed(r) \/ IntakeOpen(r))
  BY DEF IntakeDone, IntakeBeside, IntakeClosed, IntakeOpen, server, counters

LEMMA RunIntakeClosed ==
  ASSUME RunInv, NEW r \in Runs, run[r].pc = "intake", IntakeBeside, IntakeClosed(r)
  PROVE  RunInv' /\ run'[r].pc = "done" /\ run'[r].batch = {} /\ run'[r].taking = {}
<1> USE DEF IntakeBeside, IntakeClosed
<1>1. /\ run' \in [Runs -> RowType] /\ \A q \in Runs : RunOK(q)'
      /\ run'[r].pc = "done" /\ run'[r].batch = {} /\ run'[r].taking = {}
      /\ \A q \in Runs : q # r => run'[q] = run[q]
  BY RowsTo DEF Ended
<1>2. ControlOK'
  <2>1. current # 0 => current \in Runs
    BY DEF RunInv, AdapterType, Runs
  <2>2. Live /\ ~outage /\ mem.silent => r # current
    BY DEF RunInv, ControlOK
  <2>3. CASE r = current
    BY <1>1, <2>1, <2>2, <2>3 DEF RunInv, ControlOK, Live
  <2>4. CASE r # current
    <3>1. current # 0 => run'[current] = run[current]
      BY <1>1, <2>1, <2>4
    <3>2. Live' = Live
      BY <3>1 DEF Live
    <3> QED
      BY <3>1, <3>2 DEF RunInv, ControlOK, Live
  <2> QED
    BY <2>3, <2>4
<1> QED
  BY <1>1, <1>2
  DEF RunInv, ServerType, HistoryType, AdapterType, GroupType, NoGroup, AlbumOK, Arrived

LEMMA RunIntakeOpen ==
  ASSUME RunInv, NEW r \in Runs, run[r].pc = "intake", IntakeBeside, IntakeOpen(r)
  PROVE  /\ RunInv' /\ r = current /\ r \notin aborted /\ Live
         /\ run'[r].pc = "handed" /\ run'[r].batch = run[r].batch
         /\ run'[r].taking = run[r].taking
<1> USE DEF IntakeBeside, IntakeOpen
<1>1. r \notin aborted /\ r = current /\ Live /\ up
  BY ActiveRun DEF HandOverClosed
<1>2. PICK x \in RowType : x = [run[r] EXCEPT !.pc = "handed"]
  BY RowParts
<1>3. x.pc = "handed" /\ x.batch = run[r].batch /\ x.taking = run[r].taking
  <2>1. run[r] \in RowType
    BY DEF RunInv
  <2> QED
    BY <1>2, <2>1 DEF RowType
<1>4. run' = [run EXCEPT ![r] = x]
  BY <1>2 DEF RunInv
<1>5. /\ run[r].batch \cup run[r].taking \subseteq Arrived
      /\ \E m \in run[r].taking : \A p \in run[r].taking : id[p] <= id[m]
  BY DEF RunInv, RunOK
<1>6. run' \in [Runs -> RowType] /\ \A q \in Runs : RunOK(q)'
  BY <1>1, <1>3, <1>4, <1>5, RowChange
<1>7. run'[r] = x
  BY <1>4 DEF RunInv
<1>8. ControlOK'
  BY <1>1, <1>3, <1>7 DEF RunInv, ControlOK, Live
<1>9. HistoryType'
  BY HandCountType DEF RunInv, HistoryType
<1>10. RunInv'
  BY <1>6, <1>8, <1>9
  DEF RunInv, ServerType, AdapterType, GroupType, NoGroup, AlbumOK, Arrived
<1> QED
  BY <1>1, <1>3, <1>7, <1>10

LEMMA RunAdvance ==
  ASSUME RunInv, NEW r \in Runs, Advance(r)
  PROVE  /\ RunInv' /\ r = current /\ Live
         /\ run'[r].pc = "batch" /\ run'[r].batch = run[r].batch \ run[r].taking
         /\ run'[r].taking = {}
         /\ \E m \in run[r].taking :
              /\ \A p \in run[r].taking : id[p] <= id[m]
              /\ SavedAt(id[m] + 1, run[r].taking)
<1> USE DEF Advance, server
<1>1. r = current /\ Live /\ up
  BY ActiveRun DEF Live
<1>2. PICK T \in SUBSET Updates : T = run[r].taking
  BY DEF RunInv, RowType
<1>3. PICK m \in T : \A p \in T : id[p] <= id[m]
  BY <1>2 DEF RunInv, RunOK
<1>4. Max({id[u] : u \in run[r].taking}) = id[m]
  BY <1>2, <1>3, MaxOfIds DEF RunInv, ServerType
<1>5. mem \in MemType /\ id[m] + 1 \in Nat /\ handed \in [Updates -> Nat]
  BY <1>2, <1>3 DEF RunInv, AdapterType, ServerType, HistoryType
<1>6. PICK n \in MemType : n = [mem EXCEPT !.offset = id[m] + 1]
  BY <1>5 DEF MemType
<1>7. n.offset = id[m] + 1 /\ n.saved = mem.saved /\ n.silent = mem.silent
  BY <1>5, <1>6 DEF MemType
<1>8. /\ mem' \in MemType /\ file' \in FileType /\ forgotten' \subseteq Updates /\ faults' \in Nat
      /\ SavedAt(id[m] + 1, T)
  <2>1. Persist(n, T)
    BY <1>2, <1>4, <1>6
  <2>2. /\ SavedAt(n.offset, T) /\ mem' \in MemType /\ file' \in FileType
        /\ forgotten' \subseteq Updates /\ faults' \in Nat
    BY <2>1, <1>7, PersistFacts
  <2> QED
    BY <2>2, <1>7
<1>9. PICK B \in SUBSET Updates : B = run[r].batch \ T
  BY DEF RunInv, RowType
<1>10. PICK x \in RowType : x = [run[r] EXCEPT !.pc = "batch", !.batch = B, !.taking = {}]
  BY RowParts
<1>11. x.pc = "batch" /\ x.batch = B /\ x.taking = {}
  <2>1. run[r] \in RowType
    BY DEF RunInv
  <2> QED
    BY <1>10, <2>1 DEF RowType
<1>12. run' = [run EXCEPT ![r] = x]
  BY <1>2, <1>9, <1>10 DEF RunInv
<1>13. B \subseteq Arrived
  BY <1>9 DEF RunInv, RunOK
<1>14. run' \in [Runs -> RowType] /\ \A q \in Runs : RunOK(q)'
  BY <1>1, <1>11, <1>12, <1>13, RowChange
<1>15. run'[r] = x
  BY <1>12 DEF RunInv
<1>16. ControlOK'
  <2>1. mem'.silent = mem.silent
    BY <1>8 DEF SavedAt
  <2> QED
    BY <1>1, <1>8, <1>11, <1>15, <2>1 DEF RunInv, ControlOK, Live
<1>17. HistoryType'
  BY <1>5, <1>8 DEF RunInv, HistoryType
<1>18. RunInv'
  BY <1>8, <1>14, <1>16, <1>17
  DEF RunInv, ServerType, AdapterType, GroupType, NoGroup, AlbumOK, Arrived
<1> QED
  BY <1>1, <1>2, <1>3, <1>8, <1>9, <1>11, <1>15, <1>18

\* The end of a batch that keeps its album, or has none.
EndPlain(r) ==
  /\ ~AlbumComplete
  /\ group' = IF group = NoGroup THEN NoGroup ELSE [group EXCEPT !.grew = FALSE, !.rounds = @ + 1]
  /\ Persist(mem, {})
  /\ To(r, "top")
  /\ UNCHANGED <<id, kind, kept, nextId, quiet, handed, passed, expired, outage, swallowed>>

\* The two ends of a batch.
LEMMA EndCases ==
  ASSUME NEW r, EndBatch(r)
  PROVE  /\ run[r].pc = "batch" /\ run[r].batch = {} /\ r \notin aborted /\ UNCHANGED Beside
         /\ (AlbumComplete /\ TakeAlbum(r)) \/ EndPlain(r)
  BY DEF EndBatch, EndPlain, Beside, server

LEMMA RunEndPlain ==
  ASSUME RunInv, NEW r \in Runs, run[r].pc = "batch", r \notin aborted, UNCHANGED Beside,
           EndPlain(r)
  PROVE  /\ RunInv' /\ SavedAt(mem.offset, {})
         /\ group'.parts = group.parts /\ group'.last = group.last
         /\ run'[r].batch = {} /\ run'[r].taking = {}
<1> USE DEF Beside, EndPlain
<1>1. r = current /\ Live /\ up
  BY ActiveRun
<1>2. mem \in MemType
  BY DEF RunInv, AdapterType
<1>3. /\ mem' \in MemType /\ file' \in FileType /\ forgotten' \subseteq Updates /\ faults' \in Nat
      /\ SavedAt(mem.offset, {})
  <2>1. {} \in SUBSET Updates
    OBVIOUS
  <2> QED
    BY <1>2, <2>1, PersistFacts
<1>4. /\ run' \in [Runs -> RowType] /\ \A q \in Runs : RunOK(q)'
      /\ run'[r].pc = "top" /\ run'[r].batch = {} /\ run'[r].taking = {}
  BY <1>1, RowsTo
<1>5. /\ group'.parts = group.parts /\ group'.last = group.last /\ group'.rounds <= MaxRounds
      /\ GroupType'
  <2>1. CASE group = NoGroup
    BY <2>1, TelegramAssumption DEF GroupType, NoGroup
  <2>2. CASE group # NoGroup
    <3>1. /\ group.parts \in SUBSET Updates /\ group.last \in Nat /\ group.parts # {}
          /\ group.rounds \in Nat /\ group.rounds < MaxRounds
      BY <2>2, TelegramAssumption DEF RunInv, GroupType, AlbumComplete
    <3>2. group' = [group EXCEPT !.grew = FALSE, !.rounds = @ + 1]
      BY <2>2
    <3>3. group \in [parts : SUBSET Updates, last : Nat, grew : BOOLEAN, rounds : 0..MaxRounds + 1]
      BY DEF RunInv, GroupType
    <3>4. /\ group'.parts = group.parts /\ group'.last = group.last
          /\ group'.rounds = group.rounds + 1 /\ group'.grew = FALSE
      BY <3>2, <3>3
    <3>5. group.rounds + 1 \in 0..MaxRounds + 1 /\ group.rounds + 1 <= MaxRounds
      BY <3>1, TelegramAssumption
    <3>6. group' \in [parts : SUBSET Updates, last : Nat, grew : BOOLEAN, rounds : 0..MaxRounds + 1]
      BY <3>2, <3>3, <3>5
    <3> QED
      BY <3>1, <3>4, <3>5, <3>6 DEF GroupType
  <2> QED
    BY <2>1, <2>2
<1>6. ControlOK'
  BY <1>1, <1>3, <1>4 DEF RunInv, ControlOK, Live
<1>7. AlbumOK'
  BY <1>5 DEF RunInv, AlbumOK, Arrived
<1> QED
  BY <1>3, <1>4, <1>5, <1>6, <1>7 DEF RunInv, ServerType, HistoryType, AdapterType

LEMMA RunEndBatch ==
  ASSUME RunInv, NEW r \in Runs, EndBatch(r)
  PROVE  RunInv'
<1>1. CASE AlbumComplete /\ TakeAlbum(r)
  BY <1>1, EndCases, RunTakeAlbum DEF AlbumComplete, Beside
<1>2. CASE EndPlain(r)
  BY <1>2, EndCases, RunEndPlain
<1> QED
  BY <1>1, <1>2, EndCases

LEMMA RunStutter ==
  ASSUME RunInv, UNCHANGED vars
  PROVE  RunInv'
<1> USE DEF vars, server, history, counters
<1>1. \A r \in Runs : RunOK(r)'
  BY DEF RunInv, RunOK, Arrived, NoRun
<1>2. ControlOK' /\ AlbumOK'
  BY DEF RunInv, ControlOK, AlbumOK, Live, Arrived, FreshMem, NoGroup
<1> QED
  BY <1>1, <1>2 DEF RunInv, ServerType, HistoryType, AdapterType, GroupType, NoGroup, RowType

LEMMA RunNext == RunInv /\ [Next]_vars => RunInv'
<1> SUFFICES ASSUME RunInv, [Next]_vars PROVE RunInv'
  OBVIOUS
<1>1. CASE UNCHANGED vars
  BY <1>1, RunStutter
<1>2. ASSUME NEW u \in Updates, NEW k \in Kinds[u], Arrive(u, k) PROVE RunInv'
  BY <1>2, RunArrive
<1>3. CASE Silence \/ Renumber \/ Start \/ Crash
  BY <1>3, RunSilence, RunRenumber, RunStart, RunCrash
<1>4. CASE StopCall \/ StopSettled \/ StopConfirm \/ \E open \in BOOLEAN : ResolveGate(open)
  BY <1>4, RunStops
<1>5. ASSUME NEW r \in Runs, Loop(r) PROVE RunInv'
  <2>1. CASE IntakeDone(r)
    BY <2>1, IntakeCases, RunIntakeClosed, RunIntakeOpen
  <2> QED
    BY <1>5, <2>1, RunVerify, RunPollStart, RunAnswer, RunTooLarge, RunPollOver, RunAbandon,
       RunHandleNext, RunAdvance, RunEndBatch DEF Loop
<1> QED
  BY <1>1, <1>2, <1>3, <1>4, <1>5 DEF Next

\* Whatever the order of polls, stops, starts and crashes, at most the current run is not aborted,
\* an aborted one can only be fetching files, and each stage holds only what belongs to it.
THEOREM RunInvHolds == Spec => []RunInv
  BY RunInit, RunNext, PTL DEF Spec

\* Every variable keeps its type, a held album is never empty, and at most one run of the adapter
\* is not aborted (start, stop, pollLoop).
THEOREM TypeCorrect == Spec => []TypeOK
  BY RunInvHolds, RunInvTypes, PTL

----------------------------------------------------------------------------
(***************************************************************************)
(* Every step, seen by the live run: what happens to the updates it has in *)
(* hand, to the offset and to the queue.                                   *)
(***************************************************************************)
NoWork == LBatch = {} /\ LTaking = {} /\ LDone = {} /\ LParts = {}

SameWork == UNCHANGED <<LBatch, LTaking, LDone, LParts, LLast>>

SameIds == UNCHANGED <<id, kind, nextId, quiet>>

SameHistory == UNCHANGED <<handed, passed, expired, forgotten>>

SameMem == mem'.offset = mem.offset /\ mem'.saved = mem.saved /\ mem'.silent = mem.silent

Lowest(u) == u \in LBatch /\ \A v \in LBatch : id[u] <= id[v]

ArriveStep(u) ==
  /\ u \in Updates /\ id[u] = 0 /\ \A v \in Updates : v < u => id[v] # 0
  /\ id' = [id EXCEPT ![u] = nextId] /\ \A v \in Updates : v # u => kind'[v] = kind[v]
  /\ kept' = kept \cup {u} /\ nextId' = nextId + 1 /\ quiet' = 0
  /\ SameWork /\ SameMem /\ SameHistory /\ UNCHANGED <<file, up>>

SilenceStep ==
  /\ UNCHANGED <<id, kind, nextId, up, handed, passed, forgotten>>
  /\ kept' = {} /\ expired' = expired \cup kept /\ quiet' > 0
  /\ file'.offset = file.offset /\ file'.stale
  /\ mem'.offset = mem.offset /\ mem'.saved = mem.saved
  /\ SameWork
  /\ ~outage' => NoWork /\ (mem'.silent \/ mem.offset = 0)

RenumberStep ==
  /\ UNCHANGED <<id, kind, kept, quiet, up, file>> /\ SameHistory /\ SameMem /\ SameWork
  /\ quiet > 0 /\ nextId > FirstId /\ nextId' = 1
  /\ ~outage' => ~mem.silent

StartStep ==
  /\ SameIds /\ UNCHANGED <<kept, file, handed, passed, expired>>
  /\ NoWork /\ NoWork' /\ up' /\ (~outage' => ~mem.silent)
  /\ Loads(mem)

\* What was handed over and is not behind the offset stays in hand, or is noted as forgotten.
QuietStep ==
  /\ SameIds /\ UNCHANGED <<file, handed, passed, expired>>
  /\ forgotten \subseteq forgotten' /\ LDone \subseteq LDone' \cup forgotten'
  /\ kept' \in {kept, Confirmed(mem.offset)}
  /\ SameWork \/ NoWork'
  /\ \/ /\ up' = up /\ mem'.offset = mem.offset /\ mem'.saved = mem.saved
        /\ mem'.silent => mem.silent
        /\ ~outage => mem'.silent = mem.silent
     \/ ~up' /\ mem' = FreshMem

PollStep ==
  /\ SameIds /\ UNCHANGED <<kept, file, up>> /\ SameHistory /\ up
  /\ LBatch = {} /\ LTaking = {} /\ SameWork
  /\ mem'.offset = (IF mem.silent THEN 0 ELSE mem.offset) /\ mem'.saved = mem.saved
  /\ ~mem'.silent

AnswerStep(B) ==
  /\ SameIds /\ UNCHANGED <<file, up>> /\ SameHistory /\ up
  /\ LBatch = {} /\ LTaking = {} /\ LTaking' = {} /\ LBatch' = B /\ UNCHANGED <<LParts, LLast>>
  /\ LDone = {} /\ LDone' = {}
  /\ kept' = Confirmed(mem.offset) /\ B \subseteq kept'
  /\ \A u \in B : kind[u] # "huge" /\ \A v \in kept' : id[v] < id[u] => v \in B
  /\ mem'.offset = mem.offset /\ mem'.saved = mem.saved
  /\ mem'.silent = (mem.silent /\ B = {})

\* Nothing but the work changes.
WorkOnly ==
  /\ SameIds /\ UNCHANGED <<kept, file, up>> /\ SameHistory /\ SameMem /\ up
  /\ LDone = {} /\ LDone' = {}

SkipStep(u) ==
  /\ WorkOnly /\ Lowest(u) /\ LTaking = {}
  /\ id[u] < mem.offset \/ (LParts # {} /\ id[u] <= LLast)
  /\ LBatch' = LBatch \ {u} /\ UNCHANGED <<LTaking, LParts, LLast>>

CollectStep(u) ==
  /\ WorkOnly /\ Lowest(u) /\ LTaking = {} /\ kind[u] = "album"
  /\ mem.offset <= id[u] /\ (LParts # {} => LLast < id[u])
  /\ LBatch' = LBatch \ {u} /\ LTaking' = {}
  /\ LParts' = LParts \cup {u} /\ LLast' = id[u]

TakeStep ==
  /\ WorkOnly /\ LTaking = {} /\ LParts # {} /\ \A x \in LBatch : LLast < id[x]
  /\ LBatch' = LBatch /\ LTaking' = LParts /\ LParts' = {} /\ LLast' = 0

FetchStep(u) ==
  /\ WorkOnly /\ Lowest(u) /\ LTaking = {} /\ LParts = {} /\ kind[u] = "file"
  /\ LBatch' = LBatch /\ LTaking' = {u} /\ LParts' = {} /\ LLast' = 0 /\ LLast = 0

\* The handler is called.
Hands(us) ==
  /\ SameIds /\ UNCHANGED <<kept, file, up, passed, expired, forgotten>> /\ SameMem /\ up
  /\ handed' = HandCount(us)
  /\ LBatch' = LBatch /\ LParts = {} /\ LParts' = {} /\ LLast = 0 /\ LLast' = 0
  /\ LDone = {} /\ LTaking' = us /\ LDone' = us

HandStep(u) == Hands({u}) /\ Lowest(u) /\ LTaking = {} /\ kind[u] = "text"

IntakeStep == Hands(LTaking)

\* The offset moves past what was handed over; the batch goes on, or the run was stopped.
AdvanceStep(m) ==
  /\ SameIds /\ UNCHANGED <<kept, handed, passed, expired, up>> /\ up
  /\ m \in LTaking /\ (\A p \in LTaking : id[p] <= id[m]) /\ LDone = LTaking
  /\ LParts = {} /\ LParts' = {} /\ LLast = 0 /\ LLast' = 0
  /\ LBatch' = LBatch \ LTaking \/ LBatch' = {}
  /\ LTaking' = {} /\ LDone' = {}
  /\ SavedAt(id[m] + 1, LTaking)

DropStep(u) ==
  /\ SameIds /\ UNCHANGED <<kept, expired, up>> /\ up
  /\ Lowest(u) /\ mem.offset <= id[u] /\ LTaking = {} /\ LParts = {} /\ LLast = 0
  /\ LBatch' = LBatch \ {u} /\ LTaking' = {} /\ LParts' = {} /\ LLast' = 0
  /\ LDone = {} /\ LDone' = {}
  /\ kind[u] = "other"
  /\ passed' = passed \cup {u}
  /\ mem'.offset = id[u] + 1 /\ mem'.saved = mem.saved /\ mem'.silent = mem.silent
  /\ UNCHANGED <<handed, forgotten, file>>

\* The first update of the queue is skipped when the offset names it.
HugeStep(b) ==
  /\ SameIds /\ UNCHANGED <<handed, expired, up>> /\ up
  /\ LBatch = {} /\ LTaking = {} /\ SameWork
  /\ kept' = Confirmed(mem.offset) /\ b \in kept' /\ \A v \in kept' : id[b] <= id[v]
  /\ kind[b] = "huge" /\ mem.offset # 0
  /\ passed' = passed \cup {u \in {b} : id[u] = mem.offset}
  /\ SavedAt(mem.offset + 1, {})

SaveStep ==
  /\ SameIds /\ UNCHANGED <<kept, handed, passed, expired, up>> /\ up
  /\ LBatch = {} /\ LTaking = {} /\ SameWork /\ (~outage => ~mem.silent)
  /\ SavedAt(mem.offset, {})

LiveStep ==
  \/ \E u \in Updates : ArriveStep(u)
  \/ SilenceStep \/ RenumberStep \/ StartStep \/ QuietStep \/ PollStep
  \/ \E B \in SUBSET Updates : AnswerStep(B)
  \/ \E u \in Updates :
       SkipStep(u) \/ CollectStep(u) \/ FetchStep(u) \/ HandStep(u) \/ DropStep(u) \/ HugeStep(u)
       \/ AdvanceStep(u)
  \/ TakeStep \/ IntakeStep \/ SaveStep

LEMMA StepServer ==
  ASSUME RunInv, (\E u \in Updates : \E k \in Kinds[u] : Arrive(u, k)) \/ Silence \/ Renumber
  PROVE  LiveStep
<1> USE DEF LiveStep
<1>1. ASSUME NEW u \in Updates, NEW k \in Kinds[u], Arrive(u, k) PROVE LiveStep
  <2>1. SameWork /\ SameMem /\ SameHistory
    BY <1>1 DEF Arrive, SameWork, LBatch, LTaking, LDone, LParts, LLast, Live, SameMem, SameHistory,
         history
  <2>2. \A v \in Updates : v # u => kind'[v] = kind[v]
    BY <1>1 DEF Arrive, RunInv, ServerType
  <2> QED
    BY <1>1, <2>1, <2>2 DEF Arrive, ArriveStep
<1>2. CASE Silence
  <2>1. SameWork
    BY <1>2 DEF Silence, SameWork, LBatch, LTaking, LDone, LParts, LLast, Live
  <2>2. mem \in MemType /\ file \in FileType
    BY DEF RunInv, AdapterType
  <2>3. mem'.offset = mem.offset /\ mem'.saved = mem.saved
    BY <1>2, <2>2 DEF Silence, MemType
  <2>4. file'.offset = file.offset /\ file'.stale
    BY <1>2, <2>2 DEF Silence, FileType
  <2>5. quiet' > 0
    BY <1>2 DEF Silence, RunInv, ServerType
  <2>6. ~outage' => NoWork /\ (mem'.silent \/ mem.offset = 0)
    <3> SUFFICES ASSUME ~outage' PROVE NoWork /\ (mem'.silent \/ mem.offset = 0)
      OBVIOUS
    <3>1. CASE ~up
      BY <3>1 DEF RunInv, ControlOK, NoWork, Live, LBatch, LTaking, LDone, LParts, FreshMem
    <3>2. CASE /\ current # 0 /\ current \notin aborted /\ run[current].pc = "top"
               /\ group = NoGroup
      <4>1. current \in Runs
        BY <3>2 DEF RunInv, AdapterType, Runs
      <4>2. run[current].batch = {} /\ run[current].taking = {}
        BY <3>2, <4>1 DEF RunInv, RunOK
      <4>3. NoWork
        BY <3>2, <4>2 DEF NoWork, LBatch, LTaking, LDone, LParts, NoGroup
      <4>4. mem' = [mem EXCEPT !.silent = TRUE]
        BY <1>2, <3>2 DEF Silence
      <4> QED
        BY <4>3, <4>4, <2>2 DEF MemType
    <3> QED
      BY <1>2, <3>1, <3>2 DEF Silence, AtRest
  <2> QED
    BY <1>2, <2>1, <2>3, <2>4, <2>5, <2>6 DEF Silence, SilenceStep
<1>3. CASE Renumber
  <2>1. SameWork /\ SameMem /\ SameHistory
    BY <1>3 DEF Renumber, SameWork, LBatch, LTaking, LDone, LParts, LLast, Live, SameMem, SameHistory,
         history
  <2>2. quiet > 0 /\ (~outage' => ~mem.silent)
    <3>1. quiet > 0
      BY <1>3, TelegramAssumption DEF Renumber
    <3>2. ~outage' => ~mem.silent
      BY <1>3, Zenon DEF Renumber
    <3> QED
      BY <3>1, <3>2
  <2>3. UNCHANGED <<id, kind, kept, quiet, up, file>> /\ nextId > FirstId /\ nextId' = 1
    BY <1>3 DEF Renumber
  <2> QED
    BY <2>1, <2>2, <2>3 DEF RenumberStep
<1> QED
  BY <1>1, <1>2, <1>3

LEMMA StepStart ==
  ASSUME RunInv, Start
  PROVE  StartStep
<1> USE DEF Start, server
<1>1. NoWork
  BY DEF Live, NoWork, LBatch, LTaking, LDone, LParts
<1>2. RunInv'
  BY RunStart
<1>3. runs + 1 \in Runs /\ current' = runs + 1
  BY TelegramAssumption DEF RunInv, ControlOK, Runs
<1>4. run'[current'].pc = "verify"
  BY <1>3 DEF RunInv, RowType
<1>5. run'[current'].batch = {} /\ run'[current'].taking = {}
  BY <1>2, <1>3, <1>4 DEF RunInv, RunOK
<1>6. NoWork'
  BY <1>5 DEF NoWork, LBatch, LTaking, LDone, LParts, NoGroup
<1>7. Found = mem
  BY DEF Found, RunInv, ControlOK
<1>8. Loads(mem)
  BY <1>7, StartLoads
<1>9. ~outage' => ~mem.silent
  OBVIOUS
<1> QED
  BY <1>1, <1>6, <1>8, <1>9 DEF StartStep, SameIds

\* Steps of the process that leave the work alone or give it up.
LEMMA StepProcess ==
  ASSUME RunInv,
         \/ StopCall \/ StopSettled \/ StopConfirm \/ Crash \/ UNCHANGED vars
         \/ \E open \in BOOLEAN : ResolveGate(open)
  PROVE  QuietStep
<1> USE DEF server, history, counters, QuietStep, SameIds, SameHistory
<1> mem \in MemType
  BY DEF RunInv, AdapterType
<1>1. CASE StopCall
  <2>0. current \notin aborted /\ current # 0
    BY <1>1 DEF StopCall, RunInv, ControlOK
  <2>2. SameMem
    BY <1>1 DEF StopCall, SameMem, MemType
  <2>1. CASE run[current].pc # "handed"
    <3>1. NoWork' /\ LDone = {}
      BY <1>1, <2>1 DEF StopCall, NoWork, Live, LBatch, LTaking, LDone, LParts
    <3> QED
      BY <1>1, <2>2, <3>1 DEF StopCall, SameMem
  <2>3. CASE run[current].pc = "handed"
    <3>1. Live /\ Live' /\ UNCHANGED <<run, current, group>>
      BY <1>1, <2>0, <2>3 DEF StopCall, Live
    <3>2. SameWork
      BY <3>1 DEF SameWork, LBatch, LTaking, LDone, LParts, LLast
    <3>3. LDone \subseteq LDone'
      BY <3>2 DEF SameWork
    <3> QED
      BY <1>1, <2>2, <3>2, <3>3 DEF StopCall, SameMem
  <2> QED
    BY <2>1, <2>3
<1>2. CASE StopSettled
  <2>1. NoWork' /\ LDone = {}
    BY <1>2 DEF StopSettled, NoWork, Live, LBatch, LTaking, LDone, LParts
  <2> QED
    BY <1>2, <2>1 DEF StopSettled
<1>3. CASE StopConfirm
  <2>1. SameWork
    BY <1>3 DEF StopConfirm, SameWork, Live, LBatch, LTaking, LDone, LParts, LLast
  <2>2. SameMem
    BY <1>3 DEF StopConfirm, SameMem, MemType
  <2>3. kept' \in {kept, Confirmed(mem.offset)}
    BY <1>3 DEF StopConfirm, Reached
  <2> QED
    BY <1>3, <2>1, <2>2, <2>3 DEF StopConfirm, SameMem, SameWork
<1>4. CASE Crash
  <2>1. NoWork'
    BY <1>4 DEF Crash, NoWork, Live, LBatch, LTaking, LDone, LParts
  <2>2. current # 0 => current \in Runs
    BY DEF RunInv, AdapterType, Runs
  <2>3. LDone \subseteq forgotten' /\ forgotten \subseteq forgotten'
    BY <1>4, <2>2 DEF Crash, LDone, Live
  <2> QED
    BY <1>4, <2>1, <2>3 DEF Crash
<1>5. CASE UNCHANGED vars
  <2>1. SameWork
    BY <1>5 DEF vars, SameWork, Live, LBatch, LTaking, LDone, LParts, LLast
  <2> QED
    BY <1>5, <2>1 DEF vars, SameWork
<1>6. CASE \E open \in BOOLEAN : ResolveGate(open)
  <2>1. SameWork
    BY <1>6 DEF ResolveGate, SameWork, Live, LBatch, LTaking, LDone, LParts, LLast
  <2> QED
    BY <1>6, <2>1 DEF ResolveGate, SameWork
<1> QED
  BY <1>1, <1>2, <1>3, <1>4, <1>5, <1>6

\* What the live run has in hand, read off its row.
LEMMA WorkOfRow ==
  ASSUME Live, NEW r, r = current
  PROVE  /\ LBatch = run[r].batch /\ LTaking = run[r].taking
         /\ LDone = (IF run[r].pc = "handed" THEN run[r].taking ELSE {})
         /\ LParts = group.parts /\ LLast = group.last
  BY DEF LBatch, LTaking, LDone, LParts, LLast

LEMMA WorkOfRowNext ==
  ASSUME Live, NEW r, r = current, r \notin aborted, UNCHANGED <<current, aborted>>
  PROVE  /\ LBatch' = run'[r].batch /\ LTaking' = run'[r].taking
         /\ LDone' = (IF run'[r].pc = "handed" THEN run'[r].taking ELSE {})
         /\ LParts' = group'.parts /\ LLast' = group'.last
<1>1. Live' /\ current' = r
  BY DEF Live
<1> QED
  BY <1>1 DEF LBatch, LTaking, LDone, LParts, LLast

\* A loop that ends gives up its work, and leaves that of another run alone.
LEMMA StepEnded ==
  ASSUME RunInv, NEW r \in Runs, run[r].pc \notin {"off", "done", "handed"}, Ended(r),
         UNCHANGED <<current, aborted>>, group' = group \/ (r = current /\ group' = NoGroup),
         run[r].pc \in {"batch", "intake"} /\ r = current => group' = NoGroup \/ r \in aborted,
         run[r].pc \notin {"batch", "intake"} => group' = group
  PROVE  (SameWork \/ NoWork') /\ LDone \subseteq LDone'
<1>1. /\ run'[r].batch = {} /\ run'[r].taking = {} /\ run'[r].pc = "done"
      /\ \A q \in Runs : q # r => run'[q] = run[q]
  BY DEF Ended, To, NoRun, RunInv
<1>0. current # 0 => current \in Runs
  BY DEF RunInv, AdapterType, Runs
<1>2. CASE ~Live
  <2>1. ~Live'
    BY <1>0, <1>1, <1>2 DEF Live
  <2> QED
    BY <2>1, <1>2 DEF NoWork, LBatch, LTaking, LDone, LParts
<1>3. CASE Live /\ r # current
  <2>1. run'[current] = run[current] /\ group' = group
    BY <1>0, <1>1, <1>3 DEF Live
  <2>2. Live'
    BY <2>1, <1>3 DEF Live
  <2>3. SameWork
    BY <2>1, <2>2, <1>3 DEF SameWork, LBatch, LTaking, LDone, LParts, LLast
  <2> QED
    BY <2>3 DEF SameWork
<1>4. CASE Live /\ r = current
  <2>0. r \notin aborted
    BY <1>4 DEF Live
  <2>1. CASE run[r].pc \in {"batch", "intake"}
    <3>1. group' = NoGroup
      BY <1>4, <2>0, <2>1
    <3>2. LDone = {}
      BY <1>4, <2>1, WorkOfRow
    <3> QED
      BY <3>1, <3>2, <2>0, <1>1, <1>4, WorkOfRowNext DEF NoWork, NoGroup
  <2>2. CASE run[r].pc \notin {"batch", "intake"}
    <3>1. run[r].batch = {} /\ run[r].taking = {} /\ group' = group
      BY <2>2 DEF RunInv, RunOK
    <3>2. LBatch = {} /\ LTaking = {} /\ LDone = {} /\ LParts = group.parts /\ LLast = group.last
      BY <3>1, <1>4, WorkOfRow
    <3>3. LBatch' = {} /\ LTaking' = {} /\ LDone' = {} /\ LParts' = group.parts /\ LLast' = group.last
      BY <3>1, <2>0, <1>1, <1>4, WorkOfRowNext
    <3> QED
      BY <3>2, <3>3 DEF SameWork
  <2> QED
    BY <2>1, <2>2
<1> QED
  BY <1>2, <1>3, <1>4

\* A live run between two stages without a batch keeps its album.
LEMMA StepEmpty ==
  ASSUME RunInv, NEW r \in Runs, r = current, r \notin aborted,
         run[r].pc \in {"verify", "top", "polling"},
         run'[r].batch = {}, run'[r].taking = {}, UNCHANGED <<current, aborted, group>>
  PROVE  LBatch = {} /\ LTaking = {} /\ LDone = {} /\ SameWork
<1>0. Live
  BY ActiveRun
<1>1. run[r].batch = {} /\ run[r].taking = {}
  BY DEF RunInv, RunOK
<1>2. LBatch = {} /\ LTaking = {} /\ LDone = {} /\ LParts = group.parts /\ LLast = group.last
  BY <1>0, <1>1, WorkOfRow
<1>3. LBatch' = {} /\ LTaking' = {} /\ LDone' = {} /\ LParts' = group.parts /\ LLast' = group.last
  BY <1>0, WorkOfRowNext
<1> QED
  BY <1>2, <1>3 DEF SameWork

LEMMA RowAfterTo ==
  ASSUME RunInv, NEW r \in Runs, NEW pc, To(r, pc)
  PROVE  run'[r].batch = {} /\ run'[r].taking = {}
  BY DEF To, NoRun, RunInv

LEMMA StepVerify ==
  ASSUME RunInv, NEW r \in Runs, Verify(r)
  PROVE  QuietStep
<1> USE DEF Verify, server, history, counters
<1>1. r = current /\ run[r].pc \notin {"off", "done"} /\ (r \notin aborted => Live)
  BY ActiveRun
<1>2. mem \in MemType
  BY DEF RunInv, AdapterType
<1>3. mem'.offset = mem.offset /\ mem'.saved = mem.saved /\ (mem'.silent => mem.silent)
  BY <1>2 DEF MemType
<1>4. ~outage => mem'.silent = mem.silent
  <2>1. ~outage /\ Live => mem.silent = FALSE
    BY <1>1, <1>2 DEF RunInv, ControlOK, MemType
  <2>2. CASE r \in aborted
    BY <2>2
  <2>3. CASE r \notin aborted
    <3>1. mem'.silent \in {FALSE, mem.silent}
      BY <1>2, <2>3 DEF MemType
    <3> QED
      BY <2>1, <2>3, <1>1, <3>1
  <2> QED
    BY <2>2, <2>3
<1>5. (SameWork \/ NoWork') /\ LDone \subseteq LDone'
  <2>1. CASE Ended(r)
    BY <2>1, <1>1, StepEnded
  <2>2. CASE To(r, "top") /\ r \notin aborted
    BY <2>2, <1>1, RowAfterTo, StepEmpty
  <2> QED
    BY <2>1, <2>2
<1> QED
  BY <1>3, <1>4, <1>5 DEF QuietStep, SameIds

LEMMA StepPollStart ==
  ASSUME RunInv, NEW r \in Runs, PollStart(r)
  PROVE  LiveStep
<1> USE DEF PollStart, server, history, counters
<1>1. r = current /\ run[r].pc \notin {"off", "done"} /\ (r \notin aborted => Live) /\ up
  BY ActiveRun
<1>2. mem \in MemType
  BY DEF RunInv, AdapterType
<1>3. CASE r \in aborted
  <2>1. (SameWork \/ NoWork') /\ LDone \subseteq LDone'
    BY <1>1, <1>3, StepEnded
  <2>2. QuietStep
    BY <2>1, <1>3 DEF QuietStep, SameIds
  <2> QED
    BY <2>2 DEF LiveStep
<1>4. CASE r \notin aborted
  <2>1. PICK o : o = IF mem.silent THEN 0 ELSE mem.offset
    OBVIOUS
  <2>2. mem' = [mem EXCEPT !.offset = o, !.silent = FALSE]
    BY <1>2, <1>4, <2>1
  <2>3. mem'.offset = o /\ mem'.saved = mem.saved /\ ~mem'.silent
    BY <1>2, <2>2 DEF MemType
  <2>4. run'[r].batch = run[r].batch /\ run'[r].taking = run[r].taking
    BY <1>4 DEF RunInv, RowType
  <2>5. LBatch = {} /\ LTaking = {} /\ SameWork
    <3>1. run[r].batch = {} /\ run[r].taking = {}
      BY DEF RunInv, RunOK
    <3> QED
      BY <3>1, <2>4, <1>1, <1>4, StepEmpty
  <2>6. PollStep
    BY <2>1, <2>3, <2>5, <1>1 DEF PollStep, SameIds, SameHistory
  <2> QED
    BY <2>6 DEF LiveStep
<1> QED
  BY <1>3, <1>4

LEMMA StepAnswer ==
  ASSUME RunInv, NEW r \in Runs, Answer(r)
  PROVE  LiveStep
<1> USE DEF Answer, counters
<1>1. r = current /\ run[r].pc \notin {"off", "done"} /\ (r \notin aborted => Live) /\ up
  BY ActiveRun
<1>2. mem \in MemType /\ run[r].sent = mem.offset
  BY DEF RunInv, AdapterType, RunOK
<1>3. PICK B \in Batches(mem.offset) :
        /\ \A u \in B : kind[u] # "huge"
        /\ IF r \in aborted
           THEN Ended(r) /\ UNCHANGED mem
           ELSE /\ run' = [run EXCEPT ![r] = [NoRun EXCEPT !.pc = "batch", !.batch = B]]
                /\ mem' = [mem EXCEPT !.single = FALSE, !.silent = @ /\ B = {},
                             !.confirmed = IF run[r].sent # 0 THEN run[r].sent ELSE @]
  BY <1>2
<1>4. kept' = Confirmed(mem.offset)
  BY <1>2 DEF Reached
<1>5. CASE r \in aborted
  <2>1. (SameWork \/ NoWork') /\ LDone \subseteq LDone'
    BY <1>1, <1>3, <1>5, StepEnded
  <2>2. QuietStep
    BY <2>1, <1>3, <1>4, <1>5 DEF QuietStep, SameIds
  <2> QED
    BY <2>2 DEF LiveStep
<1>6. CASE r \notin aborted
  <2>1. B \subseteq kept' /\ \A u \in B : \A v \in kept' : id[v] < id[u] => v \in B
    BY <1>4, BatchFacts
  <2>2. B \in SUBSET Updates
    BY <1>4, <2>1 DEF Confirmed, RunInv, ServerType
  <2>3. mem'.offset = mem.offset /\ mem'.saved = mem.saved
    BY <1>2, <1>3, <1>6 DEF MemType
  <2>4. mem'.silent = (mem.silent /\ B = {})
    <3>1. PICK s \in BOOLEAN : s = (mem.silent /\ B = {})
      OBVIOUS
    <3>2. PICK c : c = IF run[r].sent # 0 THEN run[r].sent ELSE mem.confirmed
      OBVIOUS
    <3>3. mem' = [mem EXCEPT !.single = FALSE, !.silent = s, !.confirmed = c]
      BY <1>2, <1>3, <1>6, <3>1, <3>2 DEF MemType
    <3> QED
      BY <1>2, <3>1, <3>3 DEF MemType
  <2>5. run'[r].batch = B /\ run'[r].taking = {} /\ run'[r].pc = "batch"
    <3>1. run' = [run EXCEPT ![r] = [NoRun EXCEPT !.pc = "batch", !.batch = B]]
      BY <1>3, <1>6
    <3>2. run'[r] = [NoRun EXCEPT !.pc = "batch", !.batch = B]
      BY <3>1 DEF RunInv
    <3>3. run'[r].pc = "batch"
      BY <3>2 DEF NoRun
    <3> QED
      BY <3>2, <3>3, <2>2, EmptyRow
  <2>6. run[r].batch = {} /\ run[r].taking = {}
    BY DEF RunInv, RunOK
  <2>7. /\ LBatch = {} /\ LTaking = {} /\ LTaking' = {} /\ LBatch' = B /\ UNCHANGED <<LParts, LLast>>
        /\ LDone = {} /\ LDone' = {}
    BY <2>5, <2>6, <1>1, <1>6, WorkOfRow, WorkOfRowNext
  <2>8. AnswerStep(B)
    BY <2>1, <2>3, <2>4, <2>7, <1>1, <1>3, <1>4 DEF AnswerStep, SameIds, SameHistory
  <2> QED
    BY <2>2, <2>8 DEF LiveStep
<1> QED
  BY <1>5, <1>6

LEMMA StepTooLarge ==
  ASSUME RunInv, NEW r \in Runs, TooLarge(r)
  PROVE  LiveStep
<1> USE DEF TooLarge
<1>1. r = current /\ run[r].pc = "polling" /\ Live /\ up /\ UNCHANGED <<current, aborted, group>>
  BY ActiveRun
<1>2. mem \in MemType /\ run[r].sent = mem.offset
  BY DEF RunInv, AdapterType, RunOK
<1>3. PICK B \in Batches(mem.offset) :
        /\ \E u \in B : kind[u] = "huge"
        /\ To(r, "top")
        /\ \/ ~mem.single /\ mem' = [mem EXCEPT !.single = TRUE]
              /\ UNCHANGED <<file, passed, forgotten, faults>>
           \/ mem.single /\ mem.offset = 0 /\ UNCHANGED <<mem, file, passed, forgotten, faults>>
           \/ /\ mem.single /\ mem.offset # 0
              /\ passed' = passed \cup {u \in B : id[u] = mem.offset}
              /\ Persist([mem EXCEPT !.offset = @ + 1], {})
  BY <1>2, Zenon
<1>4. LBatch = {} /\ LTaking = {} /\ LDone = {} /\ SameWork
  BY <1>1, <1>3, RowAfterTo, StepEmpty
<1>5. kept' = Confirmed(mem.offset) /\ SameIds /\ UNCHANGED <<handed, expired, up>>
  BY <1>2 DEF SameIds, Reached
<1>6. CASE SameMem /\ UNCHANGED <<file, passed, forgotten>>
  <2>1. QuietStep
    BY <1>4, <1>5, <1>6 DEF QuietStep, SameMem
  <2> QED
    BY <2>1 DEF LiveStep
<1>7. CASE /\ mem.single /\ mem.offset # 0
           /\ passed' = passed \cup {u \in B : id[u] = mem.offset}
           /\ Persist([mem EXCEPT !.offset = @ + 1], {})
  <2>1. PICK m \in MemType : m = [mem EXCEPT !.offset = @ + 1]
    BY <1>2 DEF MemType
  <2>2. m.saved = mem.saved /\ m.silent = mem.silent /\ m.offset = mem.offset + 1
    BY <1>2, <2>1 DEF MemType
  <2>3. SavedAt(mem.offset + 1, {})
    <3>1. Persist(m, {}) /\ {} \in SUBSET Updates
      BY <1>7, <2>1
    <3>2. SavedAt(m.offset, {})
      BY <3>1, <2>2, PersistFacts
    <3> QED
      BY <3>2, <2>2
  <2>4. /\ B \subseteq kept' /\ kept' \subseteq Updates /\ B # {} /\ Cardinality(B) = 1
        /\ \A u \in B : \A v \in kept' : id[v] < id[u] => v \in B
    BY <1>3, <1>5, <1>7, BatchFacts DEF Confirmed, RunInv, ServerType
  <2>5. IsFiniteSet(B)
    BY <2>4, FS_Subset, TelegramAssumption
  <2>6. PICK b : B = {b}
    BY <2>4, <2>5, FS_Singleton
  <2>7. b \in Updates /\ b \in kept' /\ kind[b] = "huge" /\ passed' = passed \cup {u \in {b} : id[u] = mem.offset}
    BY <1>3, <1>7, <2>4, <2>6
  <2>8. \A v \in kept' : id[b] <= id[v]
    <3> SUFFICES ASSUME NEW v \in kept' PROVE id[b] <= id[v]
      OBVIOUS
    <3>1. id[v] < id[b] => v = b
      BY <2>4, <2>6
    <3>2. id[v] \in Nat /\ id[b] \in Nat
      BY <2>4, <2>7 DEF RunInv, ServerType
    <3> QED
      BY <3>1, <3>2
  <2>9. HugeStep(b)
    BY <1>1, <1>4, <1>5, <1>7, <2>3, <2>7, <2>8 DEF HugeStep
  <2> QED
    BY <2>7, <2>9 DEF LiveStep
<1>8. CASE \/ ~mem.single /\ mem' = [mem EXCEPT !.single = TRUE]
              /\ UNCHANGED <<file, passed, forgotten, faults>>
           \/ mem.single /\ mem.offset = 0 /\ UNCHANGED <<mem, file, passed, forgotten, faults>>
  BY <1>2, <1>6, <1>8 DEF SameMem, MemType
<1> QED
  BY <1>3, <1>7, <1>8

LEMMA StepPollOver ==
  ASSUME RunInv, NEW r \in Runs, PollFails(r) \/ PollEnds(r)
  PROVE  QuietStep
<1> USE DEF server, history, counters
<1>1. /\ r = current /\ run[r].pc = "polling" /\ (r \notin aborted => Live)
      /\ UNCHANGED <<current, aborted, group>>
  BY ActiveRun DEF PollFails, PollEnds
<1>2. mem \in MemType /\ run[r].sent = mem.offset
  BY <1>1 DEF RunInv, AdapterType, RunOK
<1>3. kept' \in {kept, Confirmed(mem.offset)} /\ SameIds /\ SameHistory /\ UNCHANGED <<file, up>>
  BY <1>2 DEF PollFails, PollEnds, SameIds, SameHistory, Reached
<1>4. SameMem
  BY <1>2 DEF PollFails, PollEnds, SameMem, MemType
<1>5. (SameWork \/ NoWork') /\ LDone \subseteq LDone'
  <2>1. CASE PollFails(r)
    BY <2>1, <1>1, RowAfterTo, StepEmpty DEF PollFails
  <2>2. CASE PollEnds(r)
    BY <2>2, <1>1, StepEnded DEF PollEnds
  <2> QED
    BY <2>1, <2>2
<1> QED
  BY <1>3, <1>4, <1>5 DEF QuietStep, SameMem, SameHistory

LEMMA StepAbandon ==
  ASSUME RunInv, NEW r \in Runs, Abandon(r)
  PROVE  QuietStep
<1> USE DEF Abandon, server, history, counters
<1>1. r = current /\ run[r].pc \notin {"off", "done"}
  BY ActiveRun
<1>2. (SameWork \/ NoWork') /\ LDone \subseteq LDone'
  BY <1>1, StepEnded
<1> QED
  BY <1>2 DEF QuietStep, SameIds

LEMMA StepIntake ==
  ASSUME RunInv, NEW r \in Runs, IntakeDone(r)
  PROVE  LiveStep
<1>1. run[r].pc = "intake" /\ IntakeBeside /\ (IntakeClosed(r) \/ IntakeOpen(r))
  BY IntakeCases
<1>2. CASE IntakeClosed(r)
  <2>1. r = current => group = NoGroup \/ r \in aborted
    BY <1>1 DEF RunInv, ControlOK, Live
  <2>2. (SameWork \/ NoWork') /\ LDone \subseteq LDone'
    BY <1>1, <1>2, <2>1, StepEnded DEF IntakeBeside, IntakeClosed
  <2>3. QuietStep
    BY <1>1, <1>2, <2>2 DEF QuietStep, SameIds, IntakeBeside, IntakeClosed
  <2> QED
    BY <2>3 DEF LiveStep
<1>3. CASE IntakeOpen(r)
  <2>1. /\ r = current /\ r \notin aborted /\ Live
        /\ run'[r].pc = "handed" /\ run'[r].batch = run[r].batch /\ run'[r].taking = run[r].taking
    BY <1>1, <1>3, RunIntakeOpen
  <2>2. group = NoGroup /\ group' = NoGroup /\ up /\ UNCHANGED <<current, aborted>>
    BY <1>1, <2>1 DEF RunInv, ControlOK, IntakeBeside, Live
  <2>3. LBatch = run[r].batch /\ LTaking = run[r].taking /\ LDone = {} /\ LParts = {} /\ LLast = 0
    BY <1>1, <2>1, <2>2, WorkOfRow DEF NoGroup
  <2>4. LBatch' = LBatch /\ LTaking' = LTaking /\ LDone' = LTaking /\ LParts' = {} /\ LLast' = 0
    BY <2>1, <2>2, <2>3, WorkOfRowNext DEF NoGroup
  <2>5. handed' = HandCount(LTaking)
    BY <1>3, <2>3 DEF IntakeOpen
  <2>6. SameMem
    BY <1>1 DEF SameMem, IntakeBeside
  <2>7. IntakeStep
    BY <1>1, <2>2, <2>3, <2>4, <2>5, <2>6 DEF IntakeStep, Hands, IntakeBeside, SameIds
  <2> QED
    BY <2>7 DEF LiveStep
<1> QED
  BY <1>1, <1>2, <1>3

LEMMA StepAdvance ==
  ASSUME RunInv, NEW r \in Runs, Advance(r)
  PROVE  LiveStep
<1>1. /\ run[r].pc = "handed" /\ r = current /\ Live
      /\ run'[r].pc = "batch" /\ run'[r].batch = run[r].batch \ run[r].taking
      /\ run'[r].taking = {}
  BY RunAdvance DEF Advance
<1>2. PICK m \in run[r].taking :
        /\ \A p \in run[r].taking : id[p] <= id[m]
        /\ SavedAt(id[m] + 1, run[r].taking)
  BY RunAdvance
<1>3. /\ SameIds /\ UNCHANGED <<kept, handed, passed, expired, up>>
      /\ UNCHANGED <<group, current, aborted>>
  BY DEF Advance, server, SameIds
<1>4. group = NoGroup /\ up
  BY <1>1 DEF RunInv, ControlOK, Live
<1>5. /\ LBatch = run[r].batch /\ LTaking = run[r].taking /\ LDone = run[r].taking
      /\ LParts = {} /\ LLast = 0
  BY <1>1, <1>4, WorkOfRow DEF NoGroup
<1>6. /\ LBatch' = LBatch \ LTaking \/ LBatch' = {}
      /\ LTaking' = {} /\ LDone' = {} /\ LParts' = {} /\ LLast' = 0
  <2>1. CASE r \in aborted
    <3>1. ~Live'
      BY <1>1, <1>3, <2>1 DEF Live
    <3> QED
      BY <3>1 DEF LBatch, LTaking, LDone, LParts, LLast
  <2>2. CASE r \notin aborted
    BY <1>1, <1>3, <1>4, <1>5, <2>2, WorkOfRowNext DEF NoGroup
  <2> QED
    BY <2>1, <2>2
<1>7. AdvanceStep(m)
  BY <1>2, <1>3, <1>4, <1>5, <1>6 DEF AdvanceStep
<1>8. m \in Updates
  BY <1>2 DEF RunInv, RowType
<1> QED
  BY <1>7, <1>8 DEF LiveStep

\* handleBatch at u, seen from the work in hand.
LEMMA WorkAtBatch ==
  ASSUME RunInv, NEW r, NEW u, Meets(r, u), UNCHANGED Beside
  PROVE  /\ r = current /\ Live /\ up /\ u \in Updates /\ Lowest(u)
         /\ LBatch = run[r].batch /\ LTaking = {} /\ LParts = group.parts /\ LLast = group.last
         /\ LBatch' = run'[r].batch /\ LTaking' = run'[r].taking
         /\ LDone = {} /\ LDone' = (IF run'[r].pc = "handed" THEN run'[r].taking ELSE {})
         /\ LParts' = group'.parts /\ LLast' = group'.last
         /\ up' = up
         /\ group = NoGroup <=> LParts = {}
         /\ group = NoGroup => LLast = 0
<1> USE DEF Meets, Beside
<1>1. r = current /\ Live /\ up /\ u \in Updates
  BY ActiveRun
<1>2. run[r].taking = {}
  BY DEF RunInv, RunOK
<1>3. /\ LBatch = run[r].batch /\ LTaking = {} /\ LParts = group.parts /\ LLast = group.last
      /\ LDone = {}
  BY <1>1, <1>2, WorkOfRow
<1>4. /\ LBatch' = run'[r].batch /\ LTaking' = run'[r].taking
      /\ LDone' = (IF run'[r].pc = "handed" THEN run'[r].taking ELSE {})
      /\ LParts' = group'.parts /\ LLast' = group'.last
  BY <1>1, WorkOfRowNext
<1>5. Lowest(u)
  BY <1>3 DEF Lowest
<1>6. group.parts = {} <=> group = NoGroup
  BY DEF RunInv, GroupType, NoGroup
<1>7. NoGroup.last = 0
  BY DEF NoGroup
<1> QED
  BY <1>1, <1>3, <1>4, <1>5, <1>6, <1>7

\* An update that is not repeated lies at or above the offset.
LEMMA NotRepeated ==
  ASSUME RunInv, NEW u \in Updates, ~Repeated(u)
  PROVE  mem.offset <= id[u] /\ (group # NoGroup => group.last < id[u])
<1>1. mem.offset \in Nat /\ id[u] \in Nat /\ group.last \in Nat
  BY DEF RunInv, AdapterType, MemType, ServerType, GroupType
<1> QED
  BY <1>1 DEF Repeated

\* The batch without its first update.
LEMMA BatchLessOne ==
  ASSUME RunInv, NEW r \in Runs, NEW u, run[r].pc = "batch",
         run' = [run EXCEPT ![r].batch = @ \ {u}]
  PROVE  run'[r].batch = run[r].batch \ {u} /\ run'[r].taking = {} /\ run'[r].pc = "batch"
<1>1. run[r].taking = {}
  BY DEF RunInv, RunOK
<1> QED
  BY <1>1 DEF RunInv, RowType

LEMMA StepHandle ==
  ASSUME RunInv, NEW r \in Runs, HandleNext(r)
  PROVE  LiveStep
<1>1. UNCHANGED Beside
  BY HandleCases
<1>2. PICK u \in Updates :
        /\ Meets(r, u)
        /\ \/ SkipRepeated(r, u) \/ CollectPart(r, u) \/ FlushFirst(r, u)
           \/ HandText(r, u) \/ FetchFiles(r, u) \/ Drop(r, u)
  BY HandleCases
<1>3. /\ r = current /\ Live /\ up /\ u \in Updates /\ Lowest(u)
      /\ LBatch = run[r].batch /\ LTaking = {} /\ LParts = group.parts /\ LLast = group.last
      /\ LBatch' = run'[r].batch /\ LTaking' = run'[r].taking
      /\ LDone = {} /\ LDone' = (IF run'[r].pc = "handed" THEN run'[r].taking ELSE {})
      /\ LParts' = group'.parts /\ LLast' = group'.last
      /\ up' = up
      /\ group = NoGroup <=> LParts = {}
      /\ group = NoGroup => LLast = 0
  BY <1>1, <1>2, WorkAtBatch
<1>4. run[r].pc = "batch" /\ mem \in MemType
  BY <1>2 DEF Meets, RunInv, AdapterType
<1>5. CASE SkipRepeated(r, u)
  <2>2. run'[r].batch = run[r].batch \ {u} /\ run'[r].taking = {} /\ run'[r].pc = "batch"
    BY <1>4, <1>5, BatchLessOne DEF SkipRepeated
  <2>1. WorkOnly /\ group' = group
    BY <1>3, <1>5, <2>2 DEF SkipRepeated, WorkOnly, SameIds, SameHistory, SameMem, server, history
  <2>3. id[u] < mem.offset \/ (LParts # {} /\ id[u] <= LLast)
    BY <1>3, <1>5 DEF SkipRepeated, Repeated
  <2>4. LBatch' = LBatch \ {u} /\ LTaking' = LTaking /\ LParts' = LParts /\ LLast' = LLast
    BY <1>3, <2>1, <2>2
  <2> QED
    BY <1>3, <2>1, <2>3, <2>4 DEF LiveStep, SkipStep
<1>6. CASE CollectPart(r, u)
  <2>2. run'[r].batch = run[r].batch \ {u} /\ run'[r].taking = {} /\ run'[r].pc = "batch"
    BY <1>4, <1>6, BatchLessOne DEF CollectPart
  <2>1. WorkOnly /\ kind[u] = "album" /\ ~Repeated(u)
    BY <1>3, <1>6, <2>2 DEF CollectPart, WorkOnly, SameIds, SameHistory, SameMem, server, history
  <2>3. mem.offset <= id[u] /\ (LParts # {} => LLast < id[u])
    BY <1>3, <2>1, NotRepeated
  <2>4. group'.parts = group.parts \cup {u} /\ group'.last = id[u]
    BY <1>6 DEF CollectPart
  <2>5. LBatch' = LBatch \ {u} /\ LTaking' = {} /\ LParts' = LParts \cup {u} /\ LLast' = id[u]
    BY <1>3, <2>2, <2>4
  <2> QED
    BY <1>3, <2>1, <2>3, <2>5 DEF LiveStep, CollectStep
<1>7. CASE FlushFirst(r, u)
  <2>2. run'[r].batch = run[r].batch /\ run'[r].taking = group.parts /\ run'[r].pc = "intake"
    BY <1>1, <1>2, <1>7, RunTakeAlbum DEF FlushFirst, Meets, Beside
  <2>1. WorkOnly /\ group' = NoGroup /\ ~Repeated(u) /\ group # NoGroup
    BY <1>3, <1>7, <2>2
    DEF FlushFirst, TakeAlbum, WorkOnly, SameIds, SameHistory, SameMem, server, history
  <2>3. \A x \in LBatch : LLast < id[x]
    <3> SUFFICES ASSUME NEW x \in LBatch PROVE LLast < id[x]
      OBVIOUS
    <3>1. group.last < id[u] /\ id[u] <= id[x]
      BY <1>3, <2>1, NotRepeated DEF Lowest
    <3>2. group.last \in Nat /\ id[u] \in Nat /\ id[x] \in Nat
      BY <1>3 DEF RunInv, GroupType, ServerType, RowType
    <3> QED
      BY <1>3, <3>1, <3>2
  <2>4. LBatch' = LBatch /\ LTaking' = LParts /\ LParts' = {} /\ LLast' = 0
    BY <1>3, <2>1, <2>2 DEF NoGroup
  <2> QED
    BY <1>3, <2>1, <2>3, <2>4 DEF LiveStep, TakeStep
<1>8. CASE HandText(r, u)
  <2>1. /\ group = NoGroup /\ group' = NoGroup /\ kind[u] = "text"
        /\ handed' = HandCount({u}) /\ UNCHANGED <<passed, expired, forgotten, kept, file, mem>>
        /\ SameIds
    BY <1>8 DEF HandText, server, SameIds
  <2>2. run'[r].pc = "handed" /\ run'[r].batch = run[r].batch /\ run'[r].taking = {u}
    BY <1>1, <1>2, <1>8, RunHandText
  <2>3. LBatch' = LBatch /\ LTaking' = {u} /\ LDone' = {u} /\ LParts' = {} /\ LLast' = 0
    BY <1>3, <2>1, <2>2 DEF NoGroup
  <2>4. SameMem
    BY <2>1 DEF SameMem
  <2>5. HandStep(u)
    BY <1>3, <2>1, <2>3, <2>4 DEF HandStep, Hands
  <2> QED
    BY <2>5 DEF LiveStep
<1>9. CASE FetchFiles(r, u)
  <2>2. run'[r].batch = run[r].batch /\ run'[r].taking = {u} /\ run'[r].pc = "intake"
    BY <1>1, <1>2, <1>9, RunFetch
  <2>1. WorkOnly /\ group' = NoGroup /\ group = NoGroup /\ kind[u] = "file"
    BY <1>3, <1>9, <2>2
    DEF FetchFiles, WorkOnly, SameIds, SameHistory, SameMem, server, history
  <2>3. LBatch' = LBatch /\ LTaking' = {u} /\ LParts' = {} /\ LLast' = 0
    BY <1>3, <2>1, <2>2 DEF NoGroup
  <2> QED
    BY <1>3, <2>1, <2>3 DEF LiveStep, FetchStep
<1>10. CASE Drop(r, u)
  <2>1. /\ group = NoGroup /\ group' = NoGroup /\ ~Repeated(u) /\ kind[u] = "other"
        /\ passed' = passed \cup {u}
        /\ UNCHANGED <<handed, expired, forgotten, file, kept>> /\ SameIds
    BY <1>10 DEF Drop, server, SameIds
  <2>2. run'[r].batch = run[r].batch \ {u} /\ run'[r].taking = {} /\ run'[r].pc = "batch"
    BY <1>4, <1>10, BatchLessOne DEF Drop
  <2>3. mem'.offset = id[u] + 1 /\ mem'.saved = mem.saved /\ mem'.silent = mem.silent
    BY <1>1, <1>2, <1>10, RunDrop
  <2>4. mem.offset <= id[u]
    BY <2>1, NotRepeated
  <2>5. /\ LBatch' = LBatch \ {u} /\ LTaking' = {} /\ LParts' = {} /\ LLast' = 0
        /\ LDone' = {}
    BY <1>3, <2>1, <2>2 DEF NoGroup
  <2>6. DropStep(u)
    BY <1>3, <2>1, <2>3, <2>4, <2>5 DEF DropStep
  <2> QED
    BY <2>6 DEF LiveStep
<1> QED
  BY <1>2, <1>5, <1>6, <1>7, <1>8, <1>9, <1>10

LEMMA StepEndBatch ==
  ASSUME RunInv, NEW r \in Runs, EndBatch(r)
  PROVE  LiveStep
<1>1. /\ run[r].pc = "batch" /\ run[r].batch = {} /\ r \notin aborted /\ UNCHANGED Beside
      /\ (AlbumComplete /\ TakeAlbum(r)) \/ EndPlain(r)
  BY EndCases
<1>2. r = current /\ Live /\ up /\ UNCHANGED <<current, aborted, up>> /\ run[r].taking = {}
  BY <1>1, ActiveRun DEF Beside, RunInv, RunOK
<1>3. /\ LBatch = {} /\ LTaking = {} /\ LParts = group.parts /\ LLast = group.last
      /\ LDone = {}
  BY <1>1, <1>2, WorkOfRow
<1>4. /\ LBatch' = run'[r].batch /\ LTaking' = run'[r].taking
      /\ LDone' = (IF run'[r].pc = "handed" THEN run'[r].taking ELSE {})
      /\ LParts' = group'.parts /\ LLast' = group'.last
  BY <1>1, <1>2, WorkOfRowNext
<1>5. CASE AlbumComplete /\ TakeAlbum(r)
  <2>0. group # NoGroup
    BY <1>5 DEF AlbumComplete
  <2>2. run'[r].batch = run[r].batch /\ run'[r].taking = group.parts /\ run'[r].pc = "intake"
    BY <1>1, <1>5, <2>0, RunTakeAlbum DEF Beside
  <2>1. WorkOnly /\ group' = NoGroup /\ group # NoGroup
    BY <1>2, <1>3, <1>4, <1>5, <2>0, <2>2
    DEF TakeAlbum, WorkOnly, SameIds, SameHistory, SameMem, server, history
  <2>3. LBatch' = {} /\ LTaking' = LParts /\ LParts' = {} /\ LLast' = 0 /\ LParts # {}
    BY <1>1, <1>3, <1>4, <2>1, <2>2, AlbumHasLast DEF NoGroup
  <2> QED
    BY <1>3, <2>1, <2>3 DEF LiveStep, TakeStep
<1>6. CASE EndPlain(r)
  <2>1. /\ SavedAt(mem.offset, {}) /\ group'.parts = group.parts /\ group'.last = group.last
        /\ run'[r].batch = {} /\ run'[r].taking = {}
    BY <1>1, <1>6, RunEndPlain
  <2>2. LBatch' = {} /\ LTaking' = {} /\ LDone' = {} /\ LParts' = LParts /\ LLast' = LLast
    BY <1>3, <1>4, <2>1
  <2>4. ~outage => ~mem.silent
    BY <1>1, <1>2 DEF RunInv, ControlOK
  <2>3. SaveStep
    BY <1>2, <1>3, <1>6, <2>1, <2>2, <2>4 DEF SaveStep, SameWork, SameIds, EndPlain
  <2> QED
    BY <2>3 DEF LiveStep
<1> QED
  BY <1>1, <1>5, <1>6

\* Every step is one of the steps the live run can see.
LEMMA StepCases == RunInv /\ [Next]_vars => LiveStep
<1> SUFFICES ASSUME RunInv, [Next]_vars PROVE LiveStep
  OBVIOUS
<1>1. CASE (\E u \in Updates : \E k \in Kinds[u] : Arrive(u, k)) \/ Silence \/ Renumber
  BY <1>1, StepServer
<1>2. CASE Start
  BY <1>2, StepStart DEF LiveStep
<1>3. CASE \/ StopCall \/ StopSettled \/ StopConfirm \/ Crash \/ UNCHANGED vars
           \/ \E open \in BOOLEAN : ResolveGate(open)
  BY <1>3, StepProcess DEF LiveStep
<1>4. ASSUME NEW r \in Runs, Loop(r) PROVE LiveStep
  <2>1. CASE Verify(r) \/ PollFails(r) \/ PollEnds(r) \/ Abandon(r)
    BY <2>1, StepVerify, StepPollOver, StepAbandon DEF LiveStep
  <2> QED
    BY <1>4, <2>1, StepPollStart, StepAnswer, StepTooLarge, StepHandle, StepIntake,
       StepAdvance, StepEndBatch
    DEF Loop
<1> QED
  BY <1>1, <1>2, <1>3, <1>4 DEF Next

----------------------------------------------------------------------------
(***************************************************************************)
(* The numbering.                                                          *)
(***************************************************************************)
Taken == LParts \cup LTaking

Held == LBatch \cup Taken

HeldTypes ==
  /\ id \in [Updates -> Nat] /\ nextId \in Nat /\ nextId >= 1 /\ quiet \in Nat
  /\ kept \subseteq Updates /\ handed \in [Updates -> Nat]
  /\ passed \cup expired \cup forgotten \cup swallowed \subseteq Updates
  /\ LBatch \subseteq Updates /\ LTaking \subseteq Updates /\ LParts \subseteq Updates
  /\ LDone \subseteq LTaking /\ outage \in BOOLEAN
  /\ mem.offset \in Nat /\ mem.saved \in Nat /\ file.offset \in Nat /\ LLast \in Nat
  /\ mem.silent \in BOOLEAN /\ file.stale \in BOOLEAN /\ up \in BOOLEAN
  /\ \A u \in Held : id[u] # 0
  /\ \A u \in kept : id[u] # 0
  /\ \A p \in LParts : id[p] <= LLast
  /\ LParts # {} => \E p \in LParts : id[p] = LLast
  /\ LParts = {} => LLast = 0
  /\ ~up => mem.offset = 0 /\ mem.saved = 0 /\ ~mem.silent

\* What the later invariants need of RunInv.
LEMMA TypesOfRun == RunInv => HeldTypes
<1> SUFFICES ASSUME RunInv PROVE HeldTypes
  OBVIOUS
<1>1. current # 0 => current \in Runs
  BY DEF RunInv, AdapterType, Runs
<1>2. /\ LBatch \subseteq Updates /\ LTaking \subseteq Updates /\ LParts \subseteq Updates
      /\ LLast \in Nat /\ LDone \subseteq LTaking
  BY <1>1 DEF LBatch, LTaking, LDone, LParts, LLast, Live, RunInv, RowType, GroupType
<1>3. \A u \in Held : id[u] # 0
  <2>1. LBatch \cup LTaking \subseteq Arrived
    BY <1>1 DEF LBatch, LTaking, Live, RunInv, RunOK
  <2>2. LParts \subseteq Arrived
    BY DEF LParts, RunInv, AlbumOK
  <2> QED
    BY <2>1, <2>2 DEF Held, Taken, Arrived
<1>4. /\ \A p \in LParts : id[p] <= LLast
      /\ LParts # {} => \E p \in LParts : id[p] = LLast
  BY DEF LParts, LLast, RunInv, AlbumOK
<1>9. LParts = {} => LLast = 0
  BY DEF LParts, LLast, RunInv, GroupType, NoGroup
<1>5. \A u \in kept : id[u] # 0
  BY DEF RunInv, AlbumOK, Arrived
<1>6. /\ mem.offset \in Nat /\ mem.saved \in Nat /\ file.offset \in Nat
      /\ mem.silent \in BOOLEAN /\ file.stale \in BOOLEAN /\ up \in BOOLEAN
  BY DEF RunInv, AdapterType, MemType, FileType
<1>7. ~up => mem.offset = 0 /\ mem.saved = 0 /\ ~mem.silent
  BY DEF RunInv, ControlOK, FreshMem
<1>8. /\ id \in [Updates -> Nat] /\ nextId \in Nat /\ nextId >= 1 /\ quiet \in Nat
      /\ kept \subseteq Updates /\ handed \in [Updates -> Nat]
      /\ passed \cup expired \cup forgotten \cup swallowed \subseteq Updates /\ outage \in BOOLEAN
  BY TelegramAssumption DEF RunInv, ServerType, HistoryType
<1> QED
  BY <1>2, <1>3, <1>4, <1>5, <1>6, <1>7, <1>8, <1>9 DEF HeldTypes

Low(u) == id[u] < FirstId

LowSet == {u \in Updates : id[u] # 0 /\ Low(u)}

\* Ids before the numbering restarts are FirstId and above, those after it below.
InEpoch ==
  /\ \A u \in Updates : id[u] # 0 =>
       \/ FirstId <= id[u] /\ (FirstId <= nextId => id[u] < nextId)
       \/ nextId < FirstId /\ id[u] < nextId
  /\ \A u \in kept : Low(u) <=> nextId < FirstId
  /\ quiet > 0 => kept = {}

\* Updates get their ids in order, and after a restart lower ones than before it.
InSequence ==
  \A u, v \in Updates : u < v /\ id[v] # 0 =>
    id[u] # 0 /\ (id[u] < id[v] \/ (id[v] < FirstId /\ FirstId <= id[u]))

\* The restarted numbering does not reach the old ids.
LowCount == Cardinality(LowSet) = IF nextId < FirstId THEN nextId - 1 ELSE 0

\* What has not arrived was not handed over, dropped or given up.
NotBefore ==
  \A u \in Updates : id[u] = 0 => handed[u] = 0 /\ u \notin passed /\ u \notin expired

IdInv == InEpoch /\ InSequence /\ LowCount /\ NotBefore

\* Every step that is not the server's leaves the ids alone and settles only what has arrived.
CalmStep ==
  /\ SameIds /\ expired' = expired /\ kept' \subseteq kept
  /\ \A u \in Updates : id[u] = 0 => handed'[u] = handed[u] /\ (u \in passed' => u \in passed)

\* The steps that are not the server's.
LEMMA CalmCases ==
  ASSUME HeldTypes, LiveStep
  PROVE  (\E u \in Updates : ArriveStep(u)) \/ SilenceStep \/ RenumberStep \/ CalmStep
<1> USE DEF HeldTypes, Held, Taken
<1>1. CASE StartStep \/ PollStep
  BY <1>1 DEF StartStep, PollStep, CalmStep, SameHistory, SameIds
<1>2. CASE QuietStep
  BY <1>2 DEF QuietStep, CalmStep, SameHistory, Confirmed
<1>3. ASSUME NEW B \in SUBSET Updates, AnswerStep(B) PROVE CalmStep
  BY <1>3 DEF AnswerStep, CalmStep, SameHistory, Confirmed
<1>4. ASSUME NEW u \in Updates, SkipStep(u) \/ CollectStep(u) \/ FetchStep(u) PROVE CalmStep
  BY <1>4 DEF SkipStep, CollectStep, FetchStep, WorkOnly, CalmStep, SameHistory, SameIds
<1>5. CASE TakeStep \/ SaveStep
  BY <1>5 DEF TakeStep, SaveStep, WorkOnly, CalmStep, SameHistory, SameIds
<1>6. ASSUME NEW u \in Updates, HandStep(u) PROVE CalmStep
  BY <1>6 DEF HandStep, Hands, Lowest, CalmStep, HandCount
<1>7. ASSUME NEW u \in Updates, DropStep(u) PROVE CalmStep
  BY <1>7 DEF DropStep, Lowest, CalmStep
<1>8. ASSUME NEW b \in Updates, HugeStep(b) PROVE CalmStep
  BY <1>8 DEF HugeStep, CalmStep, Confirmed
<1>9. CASE IntakeStep
  BY <1>9 DEF IntakeStep, Hands, CalmStep, HandCount
<1>10. ASSUME NEW m \in Updates, AdvanceStep(m) PROVE CalmStep
  BY <1>10 DEF AdvanceStep, CalmStep
<1> QED
  BY <1>1, <1>2, <1>3, <1>4, <1>5, <1>6, <1>7, <1>8, <1>9, <1>10 DEF LiveStep

\* There are fewer updates with a restarted number than numbers below FirstId.
LEMMA LowSetFinite == IsFiniteSet(LowSet) /\ Cardinality(LowSet) + 2 <= FirstId /\ Cardinality(LowSet) \in Nat
<1>1. LowSet \in SUBSET Updates
  BY DEF LowSet
<1>2. IsFiniteSet(Updates) /\ Cardinality(Updates) \in Nat
  BY TelegramAssumption, FS_CardinalityType
<1>3. IsFiniteSet(LowSet) /\ Cardinality(LowSet) <= Cardinality(Updates)
  BY <1>1, <1>2, FS_Subset
<1>4. Cardinality(LowSet) \in Nat
  BY <1>3, FS_CardinalityType
<1> QED
  BY <1>2, <1>3, <1>4 DEF FirstId

LEMMA IdArrive ==
  ASSUME HeldTypes, IdInv, HeldTypes', NEW u \in Updates, ArriveStep(u)
  PROVE  IdInv'
<1> USE FirstIdType
<1>1. /\ id' = [id EXCEPT ![u] = nextId] /\ kept' = kept \cup {u} /\ nextId' = nextId + 1
      /\ quiet' = 0 /\ UNCHANGED <<handed, passed, expired>> /\ id[u] = 0
      /\ \A v \in Updates : v < u => id[v] # 0
  BY DEF ArriveStep, SameHistory
<1>2. id'[u] = nextId /\ \A v \in Updates : v # u => id'[v] = id[v]
  BY <1>1 DEF HeldTypes
<1>3. nextId \in Nat /\ nextId >= 1 /\ FirstId \in Nat /\ FirstId' = FirstId
      /\ \A v \in Updates : id[v] \in Nat
  BY DEF HeldTypes, FirstId
<1>4. nextId < FirstId => nextId + 1 < FirstId
  <2> SUFFICES ASSUME nextId < FirstId PROVE nextId + 1 < FirstId
    OBVIOUS
  <2>1. LowSet' = LowSet \cup {u} /\ u \notin LowSet
    BY <1>1, <1>2, <1>3 DEF LowSet, Low
  <2>2. Cardinality(LowSet') = Cardinality(LowSet) + 1
    BY <2>1, LowSetFinite, FS_AddElement
  <2>3. LowSet' \in SUBSET Updates
    BY DEF LowSet
  <2>4. IsFiniteSet(Updates) /\ Cardinality(Updates) \in Nat
    BY TelegramAssumption, FS_CardinalityType
  <2>5. Cardinality(LowSet') <= Cardinality(Updates)
    BY <2>3, <2>4, FS_Subset
  <2>6. Cardinality(LowSet) = nextId - 1
    BY DEF IdInv, LowCount
  <2> QED
    BY <2>2, <2>4, <2>5, <2>6, <1>3 DEF FirstId
<1>5. InEpoch'
  <2>1. ASSUME NEW v \in Updates, id'[v] # 0
        PROVE  \/ FirstId <= id'[v] /\ (FirstId <= nextId' => id'[v] < nextId')
               \/ nextId' < FirstId /\ id'[v] < nextId'
    <3>1. CASE v = u
      BY <3>1, <1>1, <1>2, <1>3, <1>4
    <3>2. CASE v # u
      BY <2>1, <3>2, <1>1, <1>2, <1>3, <1>4 DEF IdInv, InEpoch
    <3> QED
      BY <3>1, <3>2
  <2>2. ASSUME NEW v \in kept' PROVE id'[v] < FirstId <=> nextId' < FirstId
    <3>1. CASE v = u
      BY <3>1, <1>1, <1>2, <1>3, <1>4
    <3>2. CASE v # u
      <4>1. v \in kept /\ v \in Updates /\ id'[v] = id[v] /\ (id[v] < FirstId <=> nextId < FirstId)
        BY <2>2, <3>2, <1>1, <1>2 DEF IdInv, InEpoch, Low, HeldTypes
      <4> QED
        BY <4>1, <1>1, <1>3, <1>4
    <3> QED
      BY <3>1, <3>2
  <2> QED
    BY <2>1, <2>2, <1>1, <1>3 DEF InEpoch, Low
<1>6. InSequence'
  <2> SUFFICES ASSUME NEW v \in Updates, NEW w \in Updates, v < w, id'[w] # 0
               PROVE  id'[v] # 0 /\ (id'[v] < id'[w] \/ (id'[w] < FirstId /\ FirstId <= id'[v]))
    BY <1>3 DEF InSequence
  <2> v \in Nat /\ w \in Nat /\ u \in Nat
    BY TelegramAssumption
  <2>1. CASE w = u
    <3>1. v # u /\ id[v] # 0 /\ id'[v] = id[v] /\ id'[w] = nextId
      BY <2>1, <1>1, <1>2
    <3>2. \/ FirstId <= id[v] /\ (FirstId <= nextId => id[v] < nextId)
          \/ nextId < FirstId /\ id[v] < nextId
      BY <3>1 DEF IdInv, InEpoch
    <3> QED
      BY <3>1, <3>2, <1>3
  <2>2. CASE w # u
    <3>1. id'[w] = id[w] /\ id[w] # 0
      BY <2>2, <1>2
    <3>2. id[v] # 0 /\ (id[v] < id[w] \/ (id[w] < FirstId /\ FirstId <= id[v]))
      BY <3>1 DEF IdInv, InSequence
    <3>3. v # u
      BY <3>2, <1>1
    <3> QED
      BY <3>1, <3>2, <3>3, <1>2
  <2> QED
    BY <2>1, <2>2
<1>7. LowCount'
  <2>1. CASE nextId < FirstId
    <3>1. LowSet' = LowSet \cup {u} /\ u \notin LowSet
      BY <2>1, <1>1, <1>2, <1>3 DEF LowSet, Low
    <3>2. Cardinality(LowSet') = Cardinality(LowSet) + 1
      BY <3>1, LowSetFinite, FS_AddElement
    <3>3. Cardinality(LowSet) = nextId - 1
      BY <2>1 DEF IdInv, LowCount
    <3> QED
      BY <2>1, <3>2, <3>3, <1>1, <1>3, <1>4 DEF LowCount
  <2>2. CASE ~(nextId < FirstId)
    <3>1. LowSet' = LowSet
      BY <2>2, <1>1, <1>2, <1>3 DEF LowSet, Low
    <3>2. ~(nextId' < FirstId) /\ Cardinality(LowSet) = 0
      BY <2>2, <1>1, <1>3 DEF IdInv, LowCount
    <3> QED
      BY <3>1, <3>2, <1>3 DEF LowCount
  <2> QED
    BY <2>1, <2>2
<1>8. NotBefore'
  BY <1>1, <1>2, <1>3 DEF IdInv, NotBefore
<1> QED
  BY <1>5, <1>6, <1>7, <1>8 DEF IdInv

LEMMA IdRenumber ==
  ASSUME HeldTypes, IdInv, RenumberStep
  PROVE  IdInv'
<1> USE FirstIdType
<1>1. /\ UNCHANGED <<id, kept, quiet, handed, passed, expired>>
      /\ quiet > 0 /\ nextId > FirstId /\ nextId' = 1
  BY DEF RenumberStep, SameHistory
<1>2. nextId \in Nat /\ FirstId' = FirstId /\ \A v \in Updates : id[v] \in Nat
  BY DEF HeldTypes, FirstId
<1>3. InEpoch'
  BY <1>1, <1>2 DEF IdInv, InEpoch
<1>4. InSequence' /\ NotBefore'
  BY <1>1, <1>2 DEF IdInv, InSequence, NotBefore
<1>5. LowCount'
  <2>1. LowSet' = LowSet
    BY <1>1, <1>2 DEF LowSet, Low
  <2>2. Cardinality(LowSet) = 0
    BY <1>1, <1>2 DEF IdInv, LowCount
  <2> QED
    BY <1>1, <1>2, <2>1, <2>2 DEF LowCount
<1> QED
  BY <1>3, <1>4, <1>5 DEF IdInv

LEMMA IdCalm ==
  ASSUME HeldTypes, IdInv, CalmStep \/ SilenceStep
  PROVE  IdInv'
<1>1. UNCHANGED <<id, nextId>> /\ FirstId' = FirstId
  BY DEF CalmStep, SilenceStep, SameIds, FirstId
<1>2. (quiet' > 0 => kept' = {}) /\ kept' \subseteq kept
  <2>1. CASE CalmStep
    BY <2>1 DEF CalmStep, SameIds, IdInv, InEpoch
  <2>2. CASE SilenceStep
    BY <2>2 DEF SilenceStep
  <2> QED
    BY <2>1, <2>2
<1>3. InEpoch'
  BY <1>1, <1>2 DEF IdInv, InEpoch, Low
<1>4. InSequence'
  BY <1>1 DEF IdInv, InSequence
<1>5. LowCount'
  <2>1. LowSet' = LowSet
    BY <1>1 DEF LowSet, Low
  <2> QED
    BY <1>1, <2>1 DEF IdInv, LowCount
<1>6. NotBefore'
  <2>1. CASE CalmStep
    BY <2>1 DEF CalmStep, SameIds, IdInv, NotBefore
  <2>2. CASE SilenceStep
    BY <2>2 DEF SilenceStep, IdInv, NotBefore, HeldTypes
  <2> QED
    BY <2>1, <2>2
<1> QED
  BY <1>3, <1>4, <1>5, <1>6 DEF IdInv

LEMMA IdInit == Init => IdInv
<1> SUFFICES ASSUME Init PROVE IdInv
  OBVIOUS
<1>1. LowSet = {}
  BY DEF Init, LowSet
<1>2. LowCount
  BY <1>1, FS_EmptySet, FirstIdType DEF Init, LowCount
<1> QED
  BY <1>2 DEF Init, IdInv, InEpoch, InSequence, NotBefore

LEMMA IdNext ==
  ASSUME HeldTypes, HeldTypes', IdInv, LiveStep
  PROVE  IdInv'
  BY CalmCases, IdArrive, IdRenumber, IdCalm

\* Two updates have different ids.
LEMMA IdsDiffer ==
  ASSUME HeldTypes, IdInv, NEW u \in Updates, NEW v \in Updates, id[u] # 0, id[u] = id[v]
  PROVE  u = v
<1>1. u \in Nat /\ v \in Nat /\ id[u] \in Nat /\ FirstId \in Nat
  BY TelegramAssumption, FirstIdType DEF HeldTypes
<1>2. ~(u < v) /\ ~(v < u)
  BY <1>1 DEF IdInv, InSequence
<1> QED
  BY <1>1, <1>2

----------------------------------------------------------------------------
(***************************************************************************)
(* What the live run has in hand.                                          *)
(***************************************************************************)
\* The batch lies above the offset and above what is being taken; a held album comes from one
\* numbering, and no later batch from an earlier one.
HeldInv ==
  /\ \A p \in Taken : kind[p] \in {"text", "file", "album"}
  /\ \A x \in LBatch : mem.offset <= id[x]
  /\ \A x \in LBatch \ LTaking : \A p \in LTaking : id[p] < id[x]
  /\ \A x, y \in LBatch : Low(x) => Low(y)
  /\ \A p \in Taken : \A x \in LBatch : Low(p) => Low(x)
  /\ \A p, q \in Taken : Low(p) => Low(q)

LEMMA HeldFrame ==
  ASSUME HeldTypes, HeldInv, UNCHANGED <<id, kind>>, SameWork,
         mem'.offset = mem.offset \/ mem'.offset = 0
  PROVE  HeldInv'
<1>1. FirstId' = FirstId /\ \A u : Low(u)' <=> Low(u)
  BY DEF FirstId, Low
<1>2. Taken' = Taken /\ LBatch' = LBatch /\ LTaking' = LTaking
  BY DEF SameWork, Taken
<1>3. \A x \in LBatch : mem'.offset <= id[x]
  BY DEF HeldInv, HeldTypes
<1> QED
  BY <1>1, <1>2, <1>3 DEF HeldInv

LEMMA HeldEmpty ==
  ASSUME NoWork'
  PROVE  HeldInv'
  BY DEF NoWork, HeldInv, Taken

LEMMA HeldArrive ==
  ASSUME HeldTypes, HeldInv, NEW u \in Updates, ArriveStep(u)
  PROVE  HeldInv'
<1>1. \A v \in Held : id'[v] = id[v] /\ kind'[v] = kind[v]
  BY DEF ArriveStep, HeldTypes, Held, Taken
<1>2. FirstId' = FirstId /\ \A v \in Held : Low(v)' <=> Low(v)
  BY <1>1 DEF FirstId, Low
<1>3. Taken' = Taken /\ LBatch' = LBatch /\ LTaking' = LTaking /\ mem'.offset = mem.offset
  BY DEF ArriveStep, SameWork, Taken, SameMem
<1> QED
  BY <1>1, <1>2, <1>3 DEF HeldInv, Held, Taken

LEMMA HeldAnswer ==
  ASSUME HeldTypes, IdInv, HeldInv, NEW B \in SUBSET Updates, AnswerStep(B)
  PROVE  HeldInv'
<1> USE DEF AnswerStep, SameIds
<1>1. FirstId' = FirstId /\ \A u : Low(u)' <=> Low(u)
  BY DEF FirstId, Low
<1>2. Taken' = LParts /\ Taken = LParts /\ LBatch' = B /\ LTaking' = {}
  BY DEF Taken
<1>3. \A x \in B : x \in kept /\ mem.offset <= id[x]
  BY DEF Confirmed, HeldTypes
<1>4. \A x \in B : Low(x) <=> nextId < FirstId
  BY <1>3 DEF IdInv, InEpoch
<1>5. \A p \in LParts : Low(p) => nextId < FirstId
  <2> SUFFICES ASSUME NEW p \in LParts, Low(p) PROVE nextId < FirstId
    OBVIOUS
  <2>1. p \in Updates /\ id[p] # 0 /\ id[p] \in Nat
    BY DEF HeldTypes, Held, Taken
  <2> QED
    BY <2>1, FirstIdType DEF IdInv, InEpoch, Low
<1> QED
  BY <1>1, <1>2, <1>3, <1>4, <1>5 DEF HeldInv

LEMMA HeldHandle ==
  ASSUME HeldTypes, IdInv, HeldInv, NEW u \in Updates,
         SkipStep(u) \/ CollectStep(u) \/ FetchStep(u) \/ HandStep(u) \/ DropStep(u)
  PROVE  HeldInv'
<1>1. FirstId' = FirstId /\ (\A v : Low(v)' <=> Low(v)) /\ UNCHANGED <<id, kind>>
  BY DEF FirstId, Low, SkipStep, CollectStep, FetchStep, HandStep, Hands, DropStep, WorkOnly,
         SameIds
<1>2. u \in LBatch /\ \A v \in LBatch : id[u] <= id[v]
  BY DEF SkipStep, CollectStep, FetchStep, HandStep, DropStep, Lowest
<1>3. FirstId \in Nat /\ \A v \in Updates : id[v] \in Nat
  BY FirstIdType DEF HeldTypes
<1>4. \A v \in LBatch : v # u => id[u] < id[v]
  <2> SUFFICES ASSUME NEW v \in LBatch, v # u PROVE id[u] < id[v]
    OBVIOUS
  <2>1. v \in Updates /\ id[u] # 0
    BY <1>2 DEF HeldTypes, Held
  <2>2. id[u] # id[v]
    BY <2>1, IdsDiffer
  <2> QED
    BY <2>1, <2>2, <1>2, <1>3
<1>5. CASE SkipStep(u)
  <2>1. Taken' = Taken /\ LBatch' = LBatch \ {u} /\ LTaking' = LTaking /\ mem'.offset = mem.offset
    BY <1>5 DEF SkipStep, Taken, WorkOnly, SameMem
  <2> QED
    BY <2>1, <1>1 DEF HeldInv
<1>6. CASE CollectStep(u)
  <2>1. /\ Taken = LParts /\ Taken' = LParts \cup {u} /\ LBatch' = LBatch \ {u} /\ LTaking' = {}
        /\ mem'.offset = mem.offset /\ kind[u] = "album"
    BY <1>6 DEF CollectStep, Taken, WorkOnly, SameMem
  <2>2. \A p \in LParts : Low(u) => Low(p)
    <3> SUFFICES ASSUME NEW p \in LParts, Low(u) PROVE Low(p)
      OBVIOUS
    <3>1. id[p] <= LLast /\ LLast < id[u] /\ LLast \in Nat /\ p \in Updates
      BY <1>6 DEF CollectStep, HeldTypes
    <3> QED
      BY <3>1, <1>3 DEF Low
  <2>3. \A p \in LParts : Low(p) => Low(u)
    BY <1>2, <2>1 DEF HeldInv
  <2>4. \A p, q \in Taken' : Low(p) => Low(q)
    BY <2>1, <2>2, <2>3 DEF HeldInv
  <2>5. \A p \in Taken' : \A x \in LBatch' : Low(p) => Low(x)
    BY <2>1, <1>2 DEF HeldInv
  <2>6. \A p \in Taken' : kind[p] \in {"text", "file", "album"}
    BY <2>1 DEF HeldInv
  <2> QED
    BY <2>1, <2>4, <2>5, <2>6, <1>1 DEF HeldInv
<1>7. CASE FetchStep(u) \/ HandStep(u)
  <2>1. /\ Taken' = {u} /\ LBatch' = LBatch /\ LTaking' = {u}
        /\ mem'.offset = mem.offset /\ kind[u] \in {"text", "file", "album"}
    BY <1>7 DEF FetchStep, HandStep, Hands, Taken, WorkOnly, SameMem
  <2> QED
    BY <2>1, <1>1, <1>2, <1>4 DEF HeldInv
<1>8. CASE DropStep(u)
  <2>1. /\ Taken' = {} /\ LBatch' = LBatch \ {u} /\ LTaking' = {}
        /\ mem'.offset = id[u] + 1
    BY <1>8 DEF DropStep, Taken
  <2>2. \A x \in LBatch \ {u} : id[u] + 1 <= id[x]
    <3> SUFFICES ASSUME NEW x \in LBatch \ {u} PROVE id[u] + 1 <= id[x]
      OBVIOUS
    <3>1. id[u] < id[x] /\ x \in Updates
      BY <1>4 DEF HeldTypes
    <3> QED
      BY <3>1, <1>3
  <2> QED
    BY <2>1, <2>2, <1>1 DEF HeldInv
<1> QED
  BY <1>5, <1>6, <1>7, <1>8

LEMMA HeldTake ==
  ASSUME HeldTypes, HeldInv, TakeStep
  PROVE  HeldInv'
<1>1. FirstId' = FirstId /\ (\A v : Low(v)' <=> Low(v)) /\ UNCHANGED <<id, kind>>
  BY DEF FirstId, Low, TakeStep, WorkOnly, SameIds
<1>2. /\ Taken = LParts /\ Taken' = LParts /\ LBatch' = LBatch /\ LTaking' = LParts
      /\ mem'.offset = mem.offset
  BY DEF TakeStep, Taken, WorkOnly, SameMem
<1>3. \A x \in LBatch : \A p \in LParts : id[p] < id[x]
  <2> SUFFICES ASSUME NEW x \in LBatch, NEW p \in LParts PROVE id[p] < id[x]
    OBVIOUS
  <2>1. LLast < id[x] /\ id[p] <= LLast /\ LLast \in Nat /\ id[x] \in Nat /\ id[p] \in Nat
    BY DEF TakeStep, HeldTypes
  <2> QED
    BY <2>1
<1> QED
  BY <1>1, <1>2, <1>3 DEF HeldInv

LEMMA HeldIntake ==
  ASSUME HeldTypes, HeldInv, IntakeStep
  PROVE  HeldInv'
<1>1. FirstId' = FirstId /\ (\A v : Low(v)' <=> Low(v)) /\ UNCHANGED <<id, kind>>
  BY DEF FirstId, Low, IntakeStep, Hands, SameIds
<1>2. Taken' = Taken /\ LBatch' = LBatch /\ LTaking' = LTaking /\ mem'.offset = mem.offset
  BY DEF IntakeStep, Hands, Taken, SameMem
<1> QED
  BY <1>1, <1>2 DEF HeldInv

LEMMA HeldAdvance ==
  ASSUME HeldTypes, HeldInv, NEW m \in Updates, AdvanceStep(m)
  PROVE  HeldInv'
<1>1. FirstId' = FirstId /\ (\A v : Low(v)' <=> Low(v)) /\ UNCHANGED <<id, kind>>
  BY DEF FirstId, Low, AdvanceStep, SameIds
<1>2. /\ Taken' = {} /\ LBatch' \subseteq LBatch \ LTaking /\ LTaking' = {}
      /\ mem'.offset = id[m] + 1 /\ m \in LTaking
  BY DEF AdvanceStep, Taken, SavedAt
<1>3. \A x \in LBatch \ LTaking : id[m] + 1 <= id[x]
  <2> SUFFICES ASSUME NEW x \in LBatch \ LTaking PROVE id[m] + 1 <= id[x]
    OBVIOUS
  <2>1. id[m] < id[x] /\ id[m] \in Nat /\ id[x] \in Nat
    BY <1>2 DEF HeldInv, HeldTypes
  <2> QED
    BY <2>1
<1> QED
  BY <1>1, <1>2, <1>3 DEF HeldInv

LEMMA HeldNext ==
  ASSUME HeldTypes, IdInv, HeldInv, LiveStep
  PROVE  HeldInv'
<1>1. CASE SilenceStep \/ RenumberStep
  BY <1>1, HeldFrame DEF SilenceStep, RenumberStep, SameMem
<1>2. CASE StartStep
  BY <1>2, HeldEmpty DEF StartStep
<1>3. CASE QuietStep
  <2>1. CASE NoWork'
    BY <2>1, HeldEmpty
  <2>2. CASE SameWork
    <3>1. mem'.offset = mem.offset \/ mem'.offset = 0
      BY <1>3 DEF QuietStep, FreshMem
    <3> QED
      BY <1>3, <2>2, <3>1, HeldFrame DEF QuietStep, SameIds
  <2> QED
    BY <1>3, <2>1, <2>2 DEF QuietStep
<1>4. CASE PollStep
  BY <1>4, HeldFrame DEF PollStep, SameIds
<1>5. ASSUME NEW b \in Updates, HugeStep(b) PROVE HeldInv'
  <2>1. LBatch = {} /\ LTaking = {} /\ SameWork /\ UNCHANGED <<id, kind>>
    BY <1>5 DEF HugeStep, SameIds
  <2>2. FirstId' = FirstId /\ (\A v : Low(v)' <=> Low(v)) /\ Taken' = Taken
    BY <2>1 DEF FirstId, Low, Taken, SameWork
  <2> QED
    BY <2>1, <2>2 DEF HeldInv, SameWork
<1>6. CASE SaveStep
  BY <1>6, HeldFrame DEF SaveStep, SavedAt, SameIds
<1> QED
  BY <1>1, <1>2, <1>3, <1>4, <1>5, <1>6, HeldArrive, HeldAnswer, HeldHandle, HeldTake, HeldIntake,
     HeldAdvance
  DEF LiveStep

LEMMA HeldInit == Init => HeldInv
  BY DEF Init, HeldInv, Taken, LBatch, LParts, LTaking, Live

----------------------------------------------------------------------------
(***************************************************************************)
(* The offsets.                                                            *)
(***************************************************************************)
\* An offset at or below the server's next id, or one from before the restart.
InRange(o) ==
  \/ o = 0
  \/ FirstId <= o /\ (FirstId <= nextId => o <= nextId)
  \/ nextId < FirstId /\ o <= nextId

\* The file holds what the adapter saved last; one older than a day names none of the updates
\* the server still has.
OffsetInv ==
  /\ InRange(mem.offset) /\ InRange(file.offset)
  /\ up /\ mem.saved # 0 => mem.saved = file.offset
  /\ file.stale => \A u \in kept : file.offset <= id[u] \/ (FirstId <= file.offset /\ Low(u))

\* A restarted numbering has room for one more update.
LEMMA RoomBelow ==
  ASSUME HeldTypes, HeldTypes', IdInv, IdInv', NEW u \in Updates, ArriveStep(u), nextId < FirstId
  PROVE  nextId + 1 < FirstId
<1>1. nextId' = nextId + 1 /\ id'[u] = nextId /\ u \in kept'
  BY DEF ArriveStep, HeldTypes
<1>2. FirstId' = FirstId
  BY DEF FirstId
<1>3. id'[u] < FirstId <=> nextId' < FirstId
  BY <1>1, <1>2 DEF IdInv, InEpoch, Low
<1> QED
  BY <1>1, <1>3

\* The offset past an arrived update is in range.
LEMMA RangeAfter ==
  ASSUME HeldTypes, IdInv, NEW u \in Updates, id[u] # 0
  PROVE  InRange(id[u] + 1)
<1>1. id[u] \in Nat /\ nextId \in Nat /\ FirstId \in Nat
  BY FirstIdType DEF HeldTypes
<1> QED
  BY <1>1 DEF IdInv, InEpoch, InRange

LEMMA OffsetArrive ==
  ASSUME HeldTypes, HeldTypes', IdInv, IdInv', OffsetInv, NEW u \in Updates, ArriveStep(u)
  PROVE  OffsetInv'
<1>1. /\ mem'.offset = mem.offset /\ mem'.saved = mem.saved /\ UNCHANGED <<file, up>>
      /\ nextId' = nextId + 1 /\ kept' = kept \cup {u} /\ id'[u] = nextId
      /\ \A v \in kept : v # u /\ id'[v] = id[v]
  BY DEF ArriveStep, SameMem, HeldTypes
<1>2. FirstId' = FirstId /\ FirstId \in Nat /\ nextId \in Nat /\ file.offset \in Nat /\ mem.offset \in Nat
  BY FirstIdType DEF FirstId, HeldTypes
<1>3. nextId < FirstId => nextId + 1 < FirstId
  BY RoomBelow
<1>4. InRange(mem.offset)' /\ InRange(file.offset)'
  <2>1. ASSUME NEW o \in Nat, InRange(o)
        PROVE  \/ o = 0
               \/ FirstId <= o /\ (FirstId <= nextId + 1 => o <= nextId + 1)
               \/ nextId + 1 < FirstId /\ o <= nextId + 1
    BY <2>1, <1>2, <1>3 DEF InRange
  <2>2. InRange(mem.offset) /\ InRange(file.offset)
    BY DEF OffsetInv
  <2> QED
    BY <2>1, <2>2, <1>1, <1>2 DEF InRange
<1>5. file.offset <= nextId \/ (FirstId <= file.offset /\ nextId < FirstId)
  BY <1>2 DEF OffsetInv, InRange
<1>6. file.stale => \A v \in kept' : file.offset <= id'[v] \/ (FirstId <= file.offset /\ id'[v] < FirstId)
  BY <1>1, <1>5 DEF OffsetInv, Low
<1> QED
  BY <1>1, <1>2, <1>4, <1>6 DEF OffsetInv, Low

LEMMA OffsetRenumber ==
  ASSUME HeldTypes, IdInv, OffsetInv, RenumberStep
  PROVE  OffsetInv'
<1>1. /\ mem'.offset = mem.offset /\ mem'.saved = mem.saved /\ UNCHANGED <<file, up, kept>>
      /\ nextId' = 1 /\ nextId > FirstId /\ kept = {}
  BY DEF RenumberStep, SameMem, IdInv, InEpoch
<1>2. FirstId' = FirstId /\ FirstId \in Nat /\ nextId \in Nat /\ FirstId >= 2
      /\ file.offset \in Nat /\ mem.offset \in Nat
  BY FirstIdType DEF FirstId, HeldTypes
<1>3. InRange(mem.offset)' /\ InRange(file.offset)'
  BY <1>1, <1>2 DEF OffsetInv, InRange
<1> QED
  BY <1>1, <1>3 DEF OffsetInv

\* Any other step: the offset is one in range, the file is what it was or holds the offset.
LEMMA OffsetMoves ==
  ASSUME HeldTypes, OffsetInv, UNCHANGED <<id, nextId>>, kept' \subseteq kept,
         InRange(mem'.offset),
         \/ file'.offset = file.offset /\ (file'.stale => file.stale \/ kept' = {})
         \/ file'.offset = mem'.offset /\ ~file'.stale,
         up' /\ mem'.saved # 0 => mem'.saved = file'.offset
  PROVE  OffsetInv'
<1>1. FirstId' = FirstId /\ \A u : Low(u)' <=> Low(u)
  BY DEF FirstId, Low
<1>2. InRange(mem.offset)' /\ InRange(file.offset)'
  BY <1>1 DEF OffsetInv, InRange
<1>3. file'.stale => \A u \in kept' : file'.offset <= id[u] \/ (FirstId <= file'.offset /\ Low(u))
  BY DEF OffsetInv
<1> QED
  BY <1>1, <1>2, <1>3 DEF OffsetInv

LEMMA OffsetSaved ==
  ASSUME HeldTypes, OffsetInv, UNCHANGED <<id, nextId, up>>, kept' \subseteq kept, up,
         NEW o, NEW us, SavedAt(o, us), InRange(o)
  PROVE  OffsetInv'
<1>1. mem'.offset = o
  BY DEF SavedAt
<1>2. \/ file' = file /\ mem'.saved = mem.saved
      \/ file' = [offset |-> o, stale |-> FALSE] /\ mem'.saved = o
  BY DEF SavedAt
<1>3. \/ file'.offset = file.offset /\ (file'.stale => file.stale \/ kept' = {})
      \/ file'.offset = mem'.offset /\ ~file'.stale
  BY <1>1, <1>2
<1>4. up' /\ mem'.saved # 0 => mem'.saved = file'.offset
  BY <1>1, <1>2 DEF OffsetInv
<1> QED
  BY <1>1, <1>3, <1>4, OffsetMoves

LEMMA OffsetNext ==
  ASSUME HeldTypes, HeldTypes', IdInv, IdInv', OffsetInv, LiveStep
  PROVE  OffsetInv'
<1>0. InRange(mem.offset) /\ InRange(file.offset) /\ InRange(0)
  BY DEF OffsetInv, InRange
<1>1. CASE SilenceStep
  <2>1. UNCHANGED <<id, nextId, up>> /\ kept' = {} /\ file'.offset = file.offset
        /\ mem'.offset = mem.offset /\ mem'.saved = mem.saved
    BY <1>1 DEF SilenceStep
  <2>2. up' /\ mem'.saved # 0 => mem'.saved = file'.offset
    BY <2>1 DEF OffsetInv
  <2> QED
    BY <2>1, <2>2, <1>0, OffsetMoves
<1>2. CASE StartStep
  <2>1. UNCHANGED <<id, nextId, kept, file>>
    BY <1>2 DEF StartStep, SameIds
  <2>2. InRange(mem'.offset)
    BY <1>0, <1>2 DEF StartStep, Loads
  <2>4. ~up => mem.saved = 0
    BY DEF HeldTypes
  <2>3. up' /\ mem'.saved # 0 => mem'.saved = file'.offset
    BY <1>2, <2>1, <2>4 DEF StartStep, Loads, OffsetInv
  <2> QED
    BY <2>1, <2>2, <2>3, OffsetMoves
<1>3. CASE QuietStep
  <2>1. UNCHANGED <<id, nextId, file>> /\ kept' \subseteq kept
    BY <1>3 DEF QuietStep, SameIds, Confirmed
  <2>2. InRange(mem'.offset)
    BY <1>0, <1>3 DEF QuietStep, FreshMem
  <2>3. up' /\ mem'.saved # 0 => mem'.saved = file'.offset
    BY <1>3, <2>1 DEF QuietStep, OffsetInv
  <2> QED
    BY <2>1, <2>2, <2>3, OffsetMoves
<1>4. CASE PollStep
  <2>1. UNCHANGED <<id, nextId, file, kept, up>> /\ mem'.saved = mem.saved
    BY <1>4 DEF PollStep, SameIds
  <2>2. InRange(mem'.offset)
    BY <1>0, <1>4 DEF PollStep
  <2>3. up' /\ mem'.saved # 0 => mem'.saved = file'.offset
    BY <2>1 DEF OffsetInv
  <2> QED
    BY <2>1, <2>2, <2>3, OffsetMoves
<1>5. ASSUME NEW B \in SUBSET Updates, AnswerStep(B) PROVE OffsetInv'
  <2>1. UNCHANGED <<id, nextId, file, up>> /\ mem'.saved = mem.saved /\ kept' \subseteq kept
        /\ mem'.offset = mem.offset
    BY <1>5 DEF AnswerStep, SameIds, Confirmed
  <2>3. up' /\ mem'.saved # 0 => mem'.saved = file'.offset
    BY <2>1 DEF OffsetInv
  <2> QED
    BY <2>1, <2>3, <1>0, OffsetMoves
<1>6. CASE WorkOnly
  <2>1. UNCHANGED <<id, nextId, file, up, kept>> /\ mem'.saved = mem.saved
        /\ mem'.offset = mem.offset
    BY <1>6 DEF WorkOnly, SameIds, SameMem
  <2>3. up' /\ mem'.saved # 0 => mem'.saved = file'.offset
    BY <2>1 DEF OffsetInv
  <2> QED
    BY <2>1, <2>3, <1>0, OffsetMoves
<1>7. ASSUME NEW us, Hands(us) PROVE OffsetInv'
  <2>1. UNCHANGED <<id, nextId, file, up, kept>> /\ mem'.saved = mem.saved
        /\ mem'.offset = mem.offset
    BY <1>7 DEF Hands, SameIds, SameMem
  <2>3. up' /\ mem'.saved # 0 => mem'.saved = file'.offset
    BY <2>1 DEF OffsetInv
  <2> QED
    BY <2>1, <2>3, <1>0, OffsetMoves
<1>8. ASSUME NEW u \in Updates, DropStep(u) PROVE OffsetInv'
  <2>1. UNCHANGED <<id, nextId, up, kept, file>> /\ u \in LBatch /\ mem'.offset = id[u] + 1
        /\ mem'.saved = mem.saved
    BY <1>8 DEF DropStep, Lowest, SameIds
  <2>2. InRange(id[u] + 1)
    BY <2>1, RangeAfter DEF HeldTypes, Held
  <2>3. up' /\ mem'.saved # 0 => mem'.saved = file'.offset
    BY <2>1 DEF OffsetInv
  <2> QED
    BY <2>1, <2>2, <2>3, OffsetMoves
<1>9. ASSUME NEW b \in Updates, HugeStep(b) PROVE OffsetInv'
  <2>1. /\ UNCHANGED <<id, nextId, up>> /\ up /\ SavedAt(mem.offset + 1, {})
        /\ kept' \subseteq kept /\ b \in kept /\ mem.offset <= id[b] /\ mem.offset # 0
    BY <1>9 DEF HugeStep, SameIds, Confirmed, HeldTypes
  <2>2. InRange(mem.offset + 1)
    <3>1. /\ id[b] \in Nat /\ id[b] # 0 /\ nextId \in Nat /\ FirstId \in Nat /\ mem.offset \in Nat
      BY <2>1, FirstIdType DEF HeldTypes
    <3>2. id[b] < nextId
      BY <2>1, <3>1 DEF IdInv, InEpoch, Low
    <3> QED
      BY <1>0, <2>1, <3>1, <3>2 DEF InRange
  <2> QED
    BY <2>1, <2>2, OffsetSaved
<1>10. ASSUME NEW m \in Updates, AdvanceStep(m) PROVE OffsetInv'
  <2>1. UNCHANGED <<id, nextId, up, kept>> /\ up /\ m \in LTaking /\ SavedAt(id[m] + 1, LTaking)
    BY <1>10 DEF AdvanceStep, SameIds
  <2>2. InRange(id[m] + 1)
    BY <2>1, RangeAfter DEF HeldTypes, Held, Taken
  <2> QED
    BY <2>1, <2>2, OffsetSaved
<1>11. CASE SaveStep
  BY <1>0, <1>11, OffsetSaved DEF SaveStep, SameIds
<1> QED
  BY <1>1, <1>2, <1>3, <1>4, <1>5, <1>6, <1>7, <1>8, <1>9, <1>10, <1>11,
     OffsetArrive, OffsetRenumber
  DEF LiveStep, SkipStep, CollectStep, FetchStep, TakeStep, HandStep, IntakeStep

LEMMA OffsetInit == Init => OffsetInv
  BY DEF Init, OffsetInv, InRange, FreshMem

----------------------------------------------------------------------------
(***************************************************************************)
(* At most once.                                                           *)
(***************************************************************************)
\* Handed over, with the offset moved and saved.
Done(u) == handed[u] > 0 /\ u \notin forgotten /\ u \notin LDone

\* Both offsets are past what was handed over and is still on the server.
PastDone ==
  \A u \in kept : Done(u) =>
    /\ ~file.stale /\ id[u] < file.offset
    /\ up => id[u] < mem.offset /\ ~mem.silent

\* Nothing the live run has in hand was handed over before, what it collects comes after
\* everything that was, and nothing in hand is on the server after a silent day.
HandFresh ==
  /\ \A u \in Held : ~Done(u)
  /\ \A u \in kept : Done(u) => \A p \in Taken : id[u] < id[p]
  /\ mem.silent => kept \cap Held = {}

OnceInv == AtMostOnce /\ PastDone /\ HandFresh

\* A step that hands over nothing and keeps the offsets' promises.
LEMMA OnceFrame ==
  ASSUME HeldTypes, OnceInv, UNCHANGED <<id, handed>>, forgotten \subseteq forgotten',
         LDone \subseteq LDone' \cup forgotten',
         kept' \subseteq kept, Held' \subseteq Held, Taken' \subseteq Taken,
         mem'.silent => mem.silent,
         \A u \in kept' : Done(u) /\ u \notin forgotten' =>
           /\ ~file'.stale /\ id[u] < file'.offset
           /\ up' => id[u] < mem'.offset /\ ~mem'.silent
  PROVE  OnceInv'
<1>1. \A u : Done(u)' => Done(u) /\ u \notin forgotten'
  BY DEF Done
<1>2. AtMostOnce'
  BY DEF OnceInv, AtMostOnce
<1>3. PastDone'
  BY <1>1 DEF PastDone
<1>4. HandFresh'
  BY <1>1 DEF HandFresh, OnceInv
<1> QED
  BY <1>2, <1>3, <1>4 DEF OnceInv

\* The handler is called with the updates us, none of which was handed over before.
LEMMA OnceHanded ==
  ASSUME HeldTypes, HeldInv, OnceInv, NEW us \in SUBSET Held, Hands(us), Taken' = us,
         Held' \subseteq Held, \A u \in kept : Done(u) => \A p \in us : id[u] < id[p]
  PROVE  OnceInv'
<1>0. us \subseteq Updates
  BY DEF HeldTypes, Held, Taken
<1>1. /\ UNCHANGED <<id, kept, file, up, forgotten>> /\ mem'.offset = mem.offset
      /\ mem'.silent = mem.silent /\ LDone = {} /\ LDone' = us /\ handed' = HandCount(us)
  BY DEF Hands, SameIds, SameMem
<1>2. \A u \in Updates : handed'[u] = IF u \in us THEN handed[u] + 1 ELSE handed[u]
  BY <1>1 DEF HandCount
<1>3. \A u \in Updates : handed[u] \in Nat
  BY DEF HeldTypes
<1>4. \A u \in Updates : Done(u)' => Done(u)
  BY <1>1, <1>2 DEF Done
<1>5. kept \subseteq Updates /\ Held' \subseteq Updates
  BY DEF HeldTypes, Held, Taken
<1>6. AtMostOnce'
  <2> SUFFICES ASSUME NEW u \in Updates, handed'[u] > 1 PROVE u \in forgotten'
    BY DEF AtMostOnce
  <2>1. CASE u \in us
    <3>1. ~Done(u)
      BY <2>1 DEF OnceInv, HandFresh
    <3>2. handed[u] > 0
      BY <2>1, <1>2, <1>3
    <3> QED
      BY <3>1, <3>2, <1>1 DEF Done
  <2>2. CASE u \notin us
    BY <2>2, <1>1, <1>2 DEF OnceInv, AtMostOnce
  <2> QED
    BY <2>1, <2>2
<1>7. PastDone'
  BY <1>1, <1>4, <1>5 DEF OnceInv, PastDone
<1>8. HandFresh'
  BY <1>1, <1>4, <1>5 DEF OnceInv, HandFresh
<1> QED
  BY <1>6, <1>7, <1>8 DEF OnceInv

\* The offset moves past the updates us that were handed over, of which m is the last.
LEMMA OnceAdvanced ==
  ASSUME HeldTypes, IdInv, OffsetInv, OnceInv, up, UNCHANGED <<id, kept, up, handed>>,
         NEW us \in SUBSET Held, NEW m \in us, LDone = us, LDone' = {},
         \A p \in us : id[p] <= id[m] /\ (Low(p) => Low(m)),
         \A u \in kept : Done(u) => id[u] <= id[m],
         SavedAt(id[m] + 1, us),
         Held' \subseteq Held \ us, Taken' = {}
  PROVE  OnceInv'
<1>0. us \subseteq Updates /\ m \in Updates
  BY DEF HeldTypes, Held, Taken
<1>1. /\ \A u \in Updates : id[u] \in Nat /\ handed[u] \in Nat
      /\ id[m] # 0 /\ nextId \in Nat /\ FirstId \in Nat
      /\ mem.saved \in Nat /\ file.offset \in Nat /\ kept \subseteq Updates
  BY <1>0, FirstIdType DEF HeldTypes
<1>3. forgotten \subseteq forgotten' /\ mem'.offset = id[m] + 1 /\ mem'.silent = mem.silent
  BY DEF SavedAt
<1>4. \A u \in Updates \ us : Done(u)' => Done(u)
  BY <1>3 DEF Done
<1>6. AtMostOnce'
  BY <1>3 DEF OnceInv, AtMostOnce
<1>7. PastDone'
  <2> SUFFICES ASSUME NEW u \in kept, Done(u)'
               PROVE  /\ ~file'.stale /\ id[u] < file'.offset
                      /\ id[u] < mem'.offset /\ ~mem'.silent
    BY DEF PastDone
  <2>0. u \in Updates /\ id[u] \in Nat
    BY <1>1
  <2>1. \/ /\ id[m] + 1 = mem.saved /\ file' = file
        \/ file' = [offset |-> id[m] + 1, stale |-> FALSE]
        \/ file' = file /\ forgotten' = forgotten \cup us
    BY <1>0, <1>1 DEF SavedAt
  <2>2. CASE u \notin us
    <3>1. Done(u) /\ ~file.stale /\ id[u] < file.offset /\ ~mem.silent /\ id[u] <= id[m]
      BY <2>0, <2>2, <1>4 DEF OnceInv, PastDone
    <3>2. ~file'.stale /\ id[u] < file'.offset
      BY <3>1, <2>0, <2>1, <1>0, <1>1
    <3> QED
      BY <3>1, <3>2, <1>0, <1>1, <1>3, <2>0
  <2>3. CASE u \in us
    <3>1. id[u] <= id[m] /\ u \notin forgotten'
      BY <2>3 DEF Done
    <3>2. ~mem.silent
      BY <2>3 DEF OnceInv, HandFresh
    <3>3. ASSUME id[m] + 1 = mem.saved, file' = file
          PROVE  ~file'.stale /\ id[u] < file'.offset
      <4>1. file.offset = id[m] + 1
        BY <3>3, <1>0, <1>1 DEF OffsetInv
      <4>2. ~(file.offset <= id[u])
        BY <4>1, <3>1, <2>0, <1>0, <1>1
      <4>3. ~(FirstId <= file.offset /\ Low(u))
        <5> SUFFICES ASSUME FirstId <= file.offset, Low(u) PROVE FALSE
          OBVIOUS
        <5>1. Low(m)
          BY <2>3
        <5>2. nextId < FirstId /\ id[m] < nextId
          BY <5>1, <1>0, <1>1 DEF IdInv, InEpoch, Low
        <5> QED
          BY <5>2, <4>1, <1>0, <1>1
      <4>4. ~file.stale
        BY <4>2, <4>3 DEF OffsetInv
      <4> QED
        BY <4>1, <4>2, <4>4, <3>1, <3>3, <2>0, <1>0, <1>1
    <3>4. ~file'.stale /\ id[u] < file'.offset
      BY <3>1, <3>3, <2>1, <2>3, <2>0, <1>0, <1>1
    <3> QED
      BY <3>1, <3>2, <3>4, <1>0, <1>1, <1>3, <2>0
  <2> QED
    BY <2>2, <2>3
<1>8. HandFresh'
  <2>1. Held' \subseteq Updates \ us
    BY DEF HeldTypes, Held, Taken
  <2> QED
    BY <2>1, <1>3, <1>4 DEF OnceInv, HandFresh
<1> QED
  BY <1>6, <1>7, <1>8 DEF OnceInv

LEMMA OnceServer ==
  ASSUME HeldTypes, IdInv, OnceInv, (\E u \in Updates : ArriveStep(u)) \/ SilenceStep \/ RenumberStep
  PROVE  OnceInv'
<1>1. ASSUME NEW u \in Updates, ArriveStep(u) PROVE OnceInv'
  <2>1. /\ UNCHANGED <<handed, forgotten, file, up>> /\ kept' = kept \cup {u}
        /\ mem'.offset = mem.offset /\ mem'.silent = mem.silent
        /\ Held' = Held /\ Taken' = Taken /\ LDone' = LDone
    BY <1>1 DEF ArriveStep, SameHistory, SameMem, SameWork, Held, Taken
  <2>2. \A v \in kept \cup Held : v # u /\ id'[v] = id[v]
    BY <1>1 DEF ArriveStep, HeldTypes, Held, Taken
  <2>3. ~Done(u)
    BY <1>1 DEF ArriveStep, IdInv, NotBefore, Done
  <2>4. \A v : Done(v)' <=> Done(v)
    BY <2>1 DEF Done
  <2>5. AtMostOnce'
    BY <2>1 DEF OnceInv, AtMostOnce
  <2>6. PastDone'
    BY <2>1, <2>2, <2>3, <2>4 DEF OnceInv, PastDone
  <2>7. HandFresh'
    BY <2>1, <2>2, <2>3, <2>4 DEF OnceInv, HandFresh, Held
  <2> QED
    BY <2>5, <2>6, <2>7 DEF OnceInv
<1>2. CASE SilenceStep
  <2>1. /\ UNCHANGED <<handed, forgotten>> /\ kept' = {} /\ Held' = Held /\ Taken' = Taken
        /\ LDone' = LDone
    BY <1>2 DEF SilenceStep, SameWork, Held, Taken
  <2>2. \A v : Done(v)' <=> Done(v)
    BY <2>1 DEF Done
  <2> QED
    BY <2>1, <2>2 DEF OnceInv, AtMostOnce, PastDone, HandFresh
<1>3. CASE RenumberStep
  <2>1. /\ UNCHANGED <<id, handed, forgotten, file, up, kept>>
        /\ mem'.offset = mem.offset /\ mem'.silent = mem.silent /\ Held' = Held /\ Taken' = Taken
        /\ LDone' = LDone
    BY <1>3 DEF RenumberStep, SameHistory, SameMem, SameWork, Held, Taken
  <2> QED
    BY <2>1, OnceFrame DEF OnceInv, PastDone
<1> QED
  BY <1>1, <1>2, <1>3

LEMMA OnceProcess ==
  ASSUME HeldTypes, OnceInv, StartStep \/ QuietStep \/ PollStep \/ SaveStep
  PROVE  OnceInv'
<1>1. CASE StartStep
  <2>1. /\ UNCHANGED <<id, handed, file, kept>> /\ Held' = {} /\ Taken' = {} /\ LDone = {}
        /\ Loads(mem) /\ mem'.silent = mem.silent /\ forgotten \subseteq forgotten'
    BY <1>1 DEF StartStep, SameIds, NoWork, Held, Taken, Loads
  <2>2. \A u \in kept : Done(u) /\ u \notin forgotten' => id[u] < mem'.offset /\ ~mem'.silent
    <3> SUFFICES ASSUME NEW u \in kept, Done(u), u \notin forgotten'
                 PROVE  id[u] < mem'.offset /\ ~mem'.silent
      OBVIOUS
    <3>1. /\ ~file.stale /\ id[u] < file.offset /\ id[u] \in Nat /\ file.offset \in Nat
          /\ up => id[u] < mem.offset /\ ~mem.silent
      BY DEF OnceInv, PastDone, HeldTypes
    <3>2. ~mem.silent
      BY <3>1 DEF HeldTypes
    <3>3. handed[u] > 0
      BY DEF Done
    <3>4. mem'.offset = file.offset \/ (mem.offset # 0 /\ mem'.offset = mem.offset)
      BY <2>1, <3>1, <3>3 DEF Loads
    <3>5. mem.offset # 0 => up
      BY DEF HeldTypes
    <3> QED
      BY <2>1, <3>1, <3>2, <3>4, <3>5
  <2> QED
    BY <2>1, <2>2, OnceFrame DEF OnceInv, PastDone
<1>2. CASE QuietStep
  <2>1. /\ UNCHANGED <<id, handed, file>> /\ kept' \subseteq kept
        /\ forgotten \subseteq forgotten' /\ LDone \subseteq LDone' \cup forgotten'
    BY <1>2 DEF QuietStep, SameIds, Confirmed
  <2>2. Held' \subseteq Held /\ Taken' \subseteq Taken
    BY <1>2 DEF QuietStep, SameWork, NoWork, Held, Taken
  <2>3. (mem'.silent => mem.silent) /\ (up' => up /\ mem'.offset = mem.offset)
    BY <1>2 DEF QuietStep, FreshMem
  <2> QED
    BY <2>1, <2>2, <2>3, OnceFrame DEF OnceInv, PastDone
<1>3. CASE PollStep
  <2>1. UNCHANGED <<id, handed, forgotten, file, kept, up>> /\ up /\ ~mem'.silent
    BY <1>3 DEF PollStep, SameIds, SameHistory
  <2>2. Held' = Held /\ Taken' = Taken /\ LDone' = LDone
    BY <1>3 DEF PollStep, SameWork, Held, Taken
  <2>3. ~mem.silent => mem'.offset = mem.offset
    BY <1>3 DEF PollStep
  <2> QED
    BY <2>1, <2>2, <2>3, OnceFrame DEF OnceInv, PastDone
<1>4. CASE SaveStep
  <2>1. UNCHANGED <<id, handed, kept, up>> /\ up
    BY <1>4 DEF SaveStep, SameIds
  <2>2. Held' = Held /\ Taken' = Taken /\ LDone' = LDone
    BY <1>4 DEF SaveStep, SameWork, Held, Taken
  <2>3. /\ mem'.offset = mem.offset /\ mem'.silent = mem.silent /\ forgotten \subseteq forgotten'
        /\ file' = file \/ file' = [offset |-> mem.offset, stale |-> FALSE]
    BY <1>4 DEF SaveStep, SavedAt
  <2>4. \A u \in kept : Done(u) => ~file'.stale /\ id[u] < file'.offset
    BY <2>1, <2>3 DEF OnceInv, PastDone
  <2> QED
    BY <2>1, <2>2, <2>3, <2>4, OnceFrame DEF OnceInv, PastDone
<1> QED
  BY <1>1, <1>2, <1>3, <1>4

\* After a poll the server holds nothing that was handed over.
LEMMA NoneDone ==
  ASSUME HeldTypes, OnceInv, up
  PROVE  \A u \in Confirmed(mem.offset) : u \in kept /\ ~Done(u)
<1> SUFFICES ASSUME NEW u \in Confirmed(mem.offset), Done(u) PROVE FALSE
  BY DEF Confirmed
<1>1. u \in kept /\ mem.offset <= id[u] /\ mem.offset \in Nat /\ id[u] \in Nat
  BY DEF Confirmed, HeldTypes
<1>2. id[u] < mem.offset
  BY <1>1 DEF OnceInv, PastDone
<1> QED
  BY <1>1, <1>2

LEMMA OncePolled ==
  ASSUME HeldTypes, OnceInv,
         (\E B \in SUBSET Updates : AnswerStep(B)) \/ \E b \in Updates : HugeStep(b)
  PROVE  OnceInv'
<1>1. ASSUME NEW B \in SUBSET Updates, AnswerStep(B) PROVE OnceInv'
  <2>1. /\ UNCHANGED <<id, handed, forgotten, file, up>> /\ up /\ kept' = Confirmed(mem.offset)
        /\ LDone' = LDone
    BY <1>1 DEF AnswerStep, SameIds, SameHistory
  <2>2. \A u : Done(u)' <=> Done(u)
    BY <2>1 DEF Done
  <2>3. \A u \in kept' : u \in kept /\ ~Done(u)
    BY <2>1, NoneDone
  <2>4. Held' = B \cup Held /\ B \subseteq kept' /\ mem'.silent = (mem.silent /\ B = {})
    BY <1>1 DEF AnswerStep, Held, Taken
  <2>5. AtMostOnce'
    BY <2>1 DEF OnceInv, AtMostOnce
  <2>6. PastDone'
    BY <2>2, <2>3 DEF PastDone
  <2>7. HandFresh'
    BY <2>2, <2>3, <2>4 DEF HandFresh, OnceInv
  <2> QED
    BY <2>5, <2>6, <2>7 DEF OnceInv
<1>2. ASSUME NEW b \in Updates, HugeStep(b) PROVE OnceInv'
  <2>1. UNCHANGED <<id, handed, up>> /\ up /\ kept' = Confirmed(mem.offset)
    BY <1>2 DEF HugeStep, SameIds
  <2>2. /\ Held' = Held /\ Taken' = Taken /\ forgotten \subseteq forgotten'
        /\ mem'.silent = mem.silent /\ LDone' = LDone
    BY <1>2 DEF HugeStep, SameWork, Held, Taken, SavedAt
  <2>3. \A u \in kept' : u \in kept /\ ~Done(u)
    BY <2>1, NoneDone
  <2> QED
    BY <2>1, <2>2, <2>3, OnceFrame
<1> QED
  BY <1>1, <1>2

\* The batch comes after everything that was handed over and is still on the server.
LEMMA BatchAfterDone ==
  ASSUME HeldTypes, HeldInv, OnceInv, up, NEW x \in LBatch
  PROVE  \A u \in kept : Done(u) => id[u] < id[x] /\ id[u] < mem.offset
<1> SUFFICES ASSUME NEW u \in kept, Done(u) PROVE id[u] < id[x] /\ id[u] < mem.offset
  OBVIOUS
<1>1. mem.offset \in Nat /\ id[u] \in Nat /\ id[x] \in Nat
  BY DEF HeldTypes
<1>2. id[u] < mem.offset /\ mem.offset <= id[x]
  BY DEF OnceInv, PastDone, HeldInv
<1> QED
  BY <1>1, <1>2

LEMMA OnceWork ==
  ASSUME HeldTypes, HeldInv, OnceInv,
         (\E u \in Updates : SkipStep(u) \/ CollectStep(u) \/ FetchStep(u)) \/ TakeStep
  PROVE  OnceInv'
<1>0. WorkOnly
  BY DEF SkipStep, CollectStep, FetchStep, TakeStep
<1>1. /\ UNCHANGED <<id, handed, forgotten, file, kept, up>> /\ up
      /\ mem'.offset = mem.offset /\ mem'.silent = mem.silent /\ LDone' = LDone
  BY <1>0 DEF WorkOnly, SameIds, SameHistory, SameMem
<1>2. \A u : Done(u)' <=> Done(u)
  BY <1>1 DEF Done
<1>3. Held' \subseteq Held
  BY DEF SkipStep, CollectStep, FetchStep, TakeStep, Lowest, Held, Taken
<1>4. Taken' \subseteq Taken \cup LBatch
  BY DEF SkipStep, CollectStep, FetchStep, TakeStep, Lowest, Taken
<1>5. \A u \in kept : Done(u) => \A p \in Taken' : id[u] < id[p]
  BY <1>1, <1>4, BatchAfterDone DEF OnceInv, HandFresh
<1>6. AtMostOnce'
  BY <1>1 DEF OnceInv, AtMostOnce
<1>7. PastDone'
  BY <1>1, <1>2 DEF OnceInv, PastDone
<1>8. HandFresh'
  BY <1>1, <1>2, <1>3, <1>5 DEF OnceInv, HandFresh
<1> QED
  BY <1>6, <1>7, <1>8 DEF OnceInv

LEMMA OnceLeaves ==
  ASSUME HeldTypes, IdInv, HeldInv, OffsetInv, OnceInv,
         (\E u \in Updates : HandStep(u) \/ DropStep(u) \/ AdvanceStep(u)) \/ IntakeStep
  PROVE  OnceInv'
<1>1. ASSUME NEW u \in Updates, HandStep(u) PROVE OnceInv'
  <2>1. Hands({u}) /\ up /\ u \in LBatch /\ Held = LBatch /\ Held' = LBatch /\ Taken' = {u}
    BY <1>1 DEF HandStep, Hands, Lowest, Held, Taken
  <2>2. \A w \in kept : Done(w) => \A p \in {u} : id[w] < id[p]
    BY <2>1, BatchAfterDone
  <2> QED
    BY <2>1, <2>2, OnceHanded
<1>2. ASSUME NEW u \in Updates, DropStep(u) PROVE OnceInv'
  <2>1. /\ UNCHANGED <<id, kept, up, handed, forgotten, file>> /\ up /\ u \in LBatch
        /\ mem'.offset = id[u] + 1 /\ mem'.silent = mem.silent /\ LDone = {}
        /\ Held = LBatch /\ Held' = LBatch \ {u} /\ Taken' = {} /\ id[u] \in Nat
    BY <1>2 DEF DropStep, Lowest, SameIds, Held, Taken, HeldTypes
  <2>2. \A w \in kept : Done(w) => id[w] < mem'.offset
    <3> SUFFICES ASSUME NEW w \in kept, Done(w) PROVE id[w] < id[u] + 1
      BY <2>1
    <3>1. id[w] < id[u] /\ id[w] \in Nat
      BY <2>1, BatchAfterDone DEF HeldTypes
    <3> QED
      BY <3>1, <2>1
  <2> QED
    BY <2>1, <2>2, OnceFrame DEF OnceInv, PastDone
<1>3. CASE IntakeStep
  <2>1. /\ Hands(LTaking) /\ LTaking \in SUBSET Held /\ Held' = Held /\ Taken' = LTaking
        /\ Taken = LTaking
    BY <1>3 DEF IntakeStep, Hands, Held, Taken
  <2> QED
    BY <2>1, OnceHanded DEF OnceInv, HandFresh
<1>4. ASSUME NEW m \in Updates, AdvanceStep(m) PROVE OnceInv'
  <2>1. /\ UNCHANGED <<id, kept, up, handed>> /\ up /\ m \in LTaking
        /\ \A p \in LTaking : id[p] <= id[m]
        /\ SavedAt(id[m] + 1, LTaking) /\ LDone = LTaking /\ LDone' = {}
        /\ Held = LBatch \cup LTaking /\ Held' \subseteq LBatch \ LTaking
        /\ Taken' = {} /\ Taken = LTaking
    BY <1>4 DEF AdvanceStep, SameIds, Held, Taken
  <2>2. \A p \in LTaking : Low(p) => Low(m)
    BY <2>1 DEF HeldInv
  <2>3. \A w \in kept : Done(w) => id[w] <= id[m]
    <3> SUFFICES ASSUME NEW w \in kept, Done(w) PROVE id[w] <= id[m]
      OBVIOUS
    <3>1. id[w] < id[m] /\ id[w] \in Nat /\ id[m] \in Nat
      BY <2>1 DEF HeldTypes, OnceInv, HandFresh
    <3> QED
      BY <3>1
  <2>4. LTaking \in SUBSET Held /\ Held' \subseteq Held \ LTaking
    BY <2>1
  <2> QED
    BY <2>1, <2>2, <2>3, <2>4, OnceAdvanced
<1> QED
  BY <1>1, <1>2, <1>3, <1>4

LEMMA OnceNext ==
  ASSUME HeldTypes, IdInv, HeldInv, OffsetInv, OnceInv, LiveStep
  PROVE  OnceInv'
  BY OnceServer, OnceProcess, OncePolled, OnceWork, OnceLeaves DEF LiveStep

LEMMA OnceInit == Init => OnceInv
  BY DEF Init, OnceInv, AtMostOnce, PastDone, HandFresh, Done, LDone, Held, Taken, LBatch, LTaking,
         LParts, Live, FreshMem

----------------------------------------------------------------------------
(***************************************************************************)
(* In order.                                                               *)
(***************************************************************************)
Handable(u) == kind[u] \in {"text", "file", "album"}

\* Neither handed over nor dropped.
Open(u) == handed[u] = 0 /\ u \notin passed

\* What was skipped over by a later update is neither on the server nor in hand.
NoneBehind ==
  \A u, v \in Updates :
    u < v /\ handed[v] > 0 /\ handed[u] = 0 /\ Handable(u) /\ id[u] # 0 => u \notin kept \cup Held

\* The batch, as far as it is not a repetition, leaves nothing open out.
BatchWhole ==
  \A x \in LBatch : \A u \in kept : u < x /\ Open(u) /\ LLast < id[x] => u \in Held

\* Nor does what is collected or fetched.
TakenWhole == \A x \in Taken : \A u \in kept : u < x /\ Open(u) => u \in Taken

\* What waits for the offset to move has reached the handler.
DoneHanded == \A v \in LDone : handed[v] > 0

OrderInv ==
  /\ \A u \in passed : ~Handable(u)
  /\ NoneBehind /\ BatchWhole /\ TakenWhole /\ DoneHanded

\* The first of the batch by id is the first that was sent.
LEMMA LowestFirst ==
  ASSUME HeldTypes, IdInv, HeldInv, NEW w \in Updates, Lowest(w), NEW u \in LBatch, u < w
  PROVE  FALSE
<1>1. u \in Updates /\ id[u] \in Nat /\ id[w] \in Nat /\ FirstId \in Nat /\ id[w] # 0 /\ w \in LBatch
  BY FirstIdType DEF HeldTypes, Held, Lowest
<1>2. id[w] <= id[u]
  BY DEF Lowest
<1>3. id[w] < FirstId /\ FirstId <= id[u]
  BY <1>1, <1>2 DEF IdInv, InSequence
<1>4. Low(u)
  BY <1>1, <1>3 DEF HeldInv, Low
<1> QED
  BY <1>1, <1>3, <1>4 DEF Low

\* A step that settles nothing.
LEMMA OrderFrame ==
  ASSUME OrderInv, UNCHANGED <<id, kind, handed, passed>>, kept' \subseteq kept, SameWork \/ NoWork'
  PROVE  OrderInv'
<1>1. \A u : (Handable(u)' <=> Handable(u)) /\ (Open(u)' <=> Open(u))
  BY DEF Handable, Open
<1>2. CASE SameWork
  <2>1. Held' = Held /\ Taken' = Taken /\ LBatch' = LBatch /\ LLast' = LLast
    BY <1>2 DEF SameWork, Held, Taken
  <2>2. NoneBehind'
    BY <1>1, <2>1 DEF OrderInv, NoneBehind
  <2>3. BatchWhole' /\ TakenWhole'
    BY <1>1, <2>1 DEF OrderInv, BatchWhole, TakenWhole
  <2>4. DoneHanded'
    BY <1>2 DEF SameWork, OrderInv, DoneHanded
  <2> QED
    BY <2>2, <2>3, <2>4, <1>1 DEF OrderInv
<1>3. CASE NoWork'
  <2>1. Held' = {} /\ Taken' = {} /\ LBatch' = {}
    BY <1>3 DEF NoWork, Held, Taken
  <2>2. NoneBehind'
    BY <1>1, <2>1 DEF OrderInv, NoneBehind
  <2>3. BatchWhole' /\ TakenWhole' /\ DoneHanded'
    BY <1>3, <2>1 DEF BatchWhole, TakenWhole, DoneHanded, NoWork
  <2> QED
    BY <2>2, <2>3, <1>1 DEF OrderInv
<1> QED
  BY <1>2, <1>3

LEMMA OrderQuiet ==
  ASSUME OrderInv, SilenceStep \/ RenumberStep \/ StartStep \/ QuietStep \/ PollStep \/ SaveStep
  PROVE  OrderInv'
<1>1. UNCHANGED <<id, kind, handed, passed>>
  BY DEF SilenceStep, RenumberStep, StartStep, QuietStep, PollStep, SaveStep, SameIds, SameHistory
<1>2. kept' \subseteq kept
  BY DEF SilenceStep, RenumberStep, StartStep, QuietStep, PollStep, SaveStep, Confirmed
<1>3. SameWork \/ NoWork'
  BY DEF SilenceStep, RenumberStep, StartStep, QuietStep, PollStep, SaveStep
<1> QED
  BY <1>1, <1>2, <1>3, OrderFrame

LEMMA OrderArrive ==
  ASSUME HeldTypes, IdInv, OrderInv, NEW a \in Updates, ArriveStep(a)
  PROVE  OrderInv'
<1>1. /\ UNCHANGED <<handed, passed>> /\ kept' = kept \cup {a} /\ id[a] = 0
      /\ Held' = Held /\ Taken' = Taken /\ LBatch' = LBatch /\ LLast' = LLast
      /\ LDone' = LDone
  BY DEF ArriveStep, SameHistory, SameWork, Held, Taken
<1>2. \A v \in Updates : v # a => id'[v] = id[v] /\ kind'[v] = kind[v]
  BY DEF ArriveStep, HeldTypes
<1>3. \A v \in kept \cup Held \cup passed : v # a /\ v \in Updates
  BY <1>1 DEF HeldTypes, Held, Taken, IdInv, NotBefore
<1>4. \A u : Open(u)' <=> Open(u)
  BY <1>1 DEF Open
<1>5. \A v \in Updates : v # a => (Handable(v)' <=> Handable(v))
  BY <1>2 DEF Handable
<1>6. \A v \in Updates : a < v => id[v] = 0
  BY <1>1 DEF IdInv, InSequence
<1>7. NoneBehind'
  <2> SUFFICES ASSUME NEW u \in Updates, NEW v \in Updates, u < v, handed[v] > 0, handed[u] = 0,
                      Handable(u)', id'[u] # 0
               PROVE  u \notin kept' \cup Held
    BY <1>1 DEF NoneBehind
  <2>1. u # a
    BY <1>6 DEF IdInv, NotBefore, HeldTypes
  <2> QED
    BY <2>1, <1>1, <1>2, <1>5 DEF OrderInv, NoneBehind
<1>8. BatchWhole'
  <2> SUFFICES ASSUME NEW x \in LBatch, NEW u \in kept', u < x, Open(u), LLast < id'[x]
               PROVE  u \in Held
    BY <1>1, <1>4 DEF BatchWhole
  <2>1. id'[x] = id[x] /\ x \in Updates /\ id[x] # 0
    BY <1>2, <1>3 DEF Held, HeldTypes
  <2>2. u \in kept
    BY <2>1, <1>1, <1>6
  <2> QED
    BY <2>1, <2>2 DEF OrderInv, BatchWhole
<1>9. TakenWhole'
  <2> SUFFICES ASSUME NEW x \in Taken, NEW u \in kept', u < x, Open(u)
               PROVE  u \in Taken
    BY <1>1, <1>4 DEF TakenWhole
  <2>1. x \in Updates /\ id[x] # 0
    BY <1>3 DEF Held, HeldTypes
  <2>2. u \in kept
    BY <2>1, <1>1, <1>6
  <2> QED
    BY <2>2 DEF OrderInv, TakenWhole
<1>10. DoneHanded'
  BY <1>1 DEF OrderInv, DoneHanded
<1> QED
  BY <1>1, <1>3, <1>5, <1>7, <1>8, <1>9, <1>10 DEF OrderInv

LEMMA OrderAnswer ==
  ASSUME HeldTypes, IdInv, OrderInv, NEW B \in SUBSET Updates, AnswerStep(B)
  PROVE  OrderInv'
<1>1. /\ UNCHANGED <<id, kind, handed, passed>> /\ kept' \subseteq kept /\ B \subseteq kept'
      /\ \A u \in B : \A v \in kept' : id[v] < id[u] => v \in B
      /\ Held' = Held \cup B /\ Taken' = Taken /\ LBatch' = B /\ LLast' = LLast
  BY DEF AnswerStep, SameIds, SameHistory, Held, Taken, Confirmed
<1>2. \A u : (Handable(u)' <=> Handable(u)) /\ (Open(u)' <=> Open(u))
  BY <1>1 DEF Handable, Open
<1>3. NoneBehind'
  BY <1>1, <1>2 DEF OrderInv, NoneBehind
<1>4. BatchWhole'
  <2> SUFFICES ASSUME NEW x \in B, NEW u \in kept', u < x PROVE u \in B
    BY <1>1 DEF BatchWhole
  <2>1. /\ x \in Updates /\ u \in Updates /\ x \in kept /\ u \in kept
        /\ id[x] # 0 /\ id[x] \in Nat /\ id[u] \in Nat /\ FirstId \in Nat
    BY <1>1, FirstIdType DEF HeldTypes
  <2>2. Low(x) <=> Low(u)
    BY <2>1 DEF IdInv, InEpoch
  <2>3. id[u] < id[x]
    BY <2>1, <2>2 DEF IdInv, InSequence, Low
  <2> QED
    BY <2>3, <1>1
<1>5. TakenWhole' /\ DoneHanded'
  BY <1>1, <1>2 DEF OrderInv, TakenWhole, AnswerStep, DoneHanded
<1> QED
  BY <1>1, <1>2, <1>3, <1>4, <1>5 DEF OrderInv

LEMMA OrderSkip ==
  ASSUME HeldTypes, IdInv, HeldInv, OrderInv, NEW w \in Updates, SkipStep(w)
  PROVE  OrderInv'
<1>1. /\ UNCHANGED <<id, kind, kept, handed, passed>> /\ w \in LBatch
      /\ id[w] < mem.offset \/ (LParts # {} /\ id[w] <= LLast)
      /\ Held' \subseteq Held /\ Held \ {w} \subseteq Held' /\ Taken \subseteq Held'
      /\ Taken' = Taken /\ LBatch' = LBatch \ {w} /\ LLast' = LLast
  BY DEF SkipStep, Lowest, WorkOnly, SameIds, SameHistory, Held, Taken
<1>2. \A u : (Handable(u)' <=> Handable(u)) /\ (Open(u)' <=> Open(u))
  BY <1>1 DEF Handable, Open
<1>3. NoneBehind'
  BY <1>1, <1>2 DEF OrderInv, NoneBehind
<1>4. ASSUME NEW x \in LBatch, w \in kept, Open(w), LLast < id[x]
      PROVE  w \in Taken
  <2>1. /\ id[w] \in Nat /\ mem.offset \in Nat /\ LLast \in Nat /\ FirstId \in Nat /\ id[x] \in Nat
        /\ w \in Nat /\ id[w] # 0
    BY <1>4, TelegramAssumption, FirstIdType DEF HeldTypes
  <2>2. mem.offset <= id[w]
    BY <1>1 DEF HeldInv
  <2>3. LParts # {} /\ id[w] <= LLast
    BY <2>1, <2>2, <1>1
  <2>4. PICK p \in LParts : id[p] = LLast
    BY <2>3 DEF HeldTypes
  <2>5. p \in Updates /\ p \in Taken /\ p \in Nat /\ id[p] # 0
    BY TelegramAssumption DEF HeldTypes, Taken, Held
  <2>6. CASE w = p
    BY <2>5, <2>6
  <2>7. CASE w < p
    BY <2>5, <2>7, <1>4 DEF OrderInv, TakenWhole
  <2>8. CASE p < w
    <3>1. id[w] < FirstId /\ FirstId <= id[p]
      BY <2>1, <2>3, <2>4, <2>5, <2>8 DEF IdInv, InSequence
    <3>2. Low(x)
      BY <3>1, <1>1 DEF Low, HeldInv
    <3> QED
      BY <3>1, <3>2, <2>1, <2>4, <1>4 DEF Low
  <2> QED
    BY <2>1, <2>5, <2>6, <2>7, <2>8
<1>5. BatchWhole'
  <2> SUFFICES ASSUME NEW x \in LBatch \ {w}, NEW u \in kept, u < x, Open(u), LLast < id[x]
               PROVE  u \in Held'
    BY <1>1, <1>2 DEF BatchWhole
  <2>1. u \in Held
    BY DEF OrderInv, BatchWhole
  <2> QED
    BY <2>1, <1>1, <1>4
<1>6. TakenWhole' /\ DoneHanded'
  BY <1>1, <1>2 DEF OrderInv, TakenWhole, SkipStep, WorkOnly, DoneHanded
<1> QED
  BY <1>1, <1>2, <1>3, <1>5, <1>6 DEF OrderInv

\* Whatever is open, on the server and sent before the first of the batch is collected already.
LEMMA OpenBeforeFirst ==
  ASSUME HeldTypes, IdInv, HeldInv, OrderInv, NEW w \in Updates, Lowest(w), LLast < id[w],
         NEW u \in kept, u < w, Open(u)
  PROVE  u \in Taken
<1>1. u \in Held
  BY DEF OrderInv, BatchWhole, Lowest
<1>2. u \notin LBatch
  BY LowestFirst
<1> QED
  BY <1>1, <1>2 DEF Held

LEMMA OrderCollect ==
  ASSUME HeldTypes, IdInv, HeldInv, OrderInv, NEW w \in Updates, CollectStep(w)
  PROVE  OrderInv'
<1>1. /\ UNCHANGED <<id, kind, kept, handed, passed>> /\ Lowest(w) /\ w \in LBatch
      /\ Held' = Held /\ Taken' = Taken \cup {w} /\ LBatch' = LBatch \ {w} /\ LLast' = id[w]
      /\ LParts # {} => LLast < id[w]
  BY DEF CollectStep, Lowest, WorkOnly, SameIds, SameHistory, Held, Taken
<1>2. \A u : (Handable(u)' <=> Handable(u)) /\ (Open(u)' <=> Open(u))
  BY <1>1 DEF Handable, Open
<1>3. LLast < id[w]
  <2>1. id[w] # 0 /\ id[w] \in Nat
    BY <1>1 DEF HeldTypes, Held
  <2> QED
    BY <1>1, <2>1 DEF HeldTypes
<1>4. NoneBehind'
  BY <1>1, <1>2 DEF OrderInv, NoneBehind
<1>5. BatchWhole'
  <2> SUFFICES ASSUME NEW x \in LBatch, NEW u \in kept, u < x, Open(u), id[w] < id[x]
               PROVE  u \in Held
    BY <1>1, <1>2 DEF BatchWhole
  <2>1. LLast < id[x]
    <3>1. LLast \in Nat /\ id[w] \in Nat /\ id[x] \in Nat
      BY DEF HeldTypes
    <3> QED
      BY <3>1, <1>3
  <2> QED
    BY <2>1 DEF OrderInv, BatchWhole
<1>6. TakenWhole'
  <2> SUFFICES ASSUME NEW x \in Taken \cup {w}, NEW u \in kept, u < x, Open(u)
               PROVE  u \in Taken
    BY <1>1, <1>2 DEF TakenWhole
  <2> QED
    BY <1>1, <1>3, OpenBeforeFirst DEF OrderInv, TakenWhole
<1>7. DoneHanded'
  BY DEF CollectStep, WorkOnly, DoneHanded
<1> QED
  BY <1>1, <1>2, <1>4, <1>5, <1>6, <1>7 DEF OrderInv

LEMMA OrderTake ==
  ASSUME HeldTypes, OrderInv, TakeStep
  PROVE  OrderInv'
<1>1. /\ UNCHANGED <<id, kind, kept, handed, passed>> /\ \A x \in LBatch : LLast < id[x]
      /\ Held' = Held /\ Taken' = Taken /\ LBatch' = LBatch
  BY DEF TakeStep, WorkOnly, SameIds, SameHistory, Held, Taken
<1>2. \A u : (Handable(u)' <=> Handable(u)) /\ (Open(u)' <=> Open(u))
  BY <1>1 DEF Handable, Open
<1>3. NoneBehind'
  BY <1>1, <1>2 DEF OrderInv, NoneBehind
<1>4. BatchWhole' /\ TakenWhole'
  BY <1>1, <1>2 DEF OrderInv, BatchWhole, TakenWhole
<1>5. DoneHanded'
  BY DEF TakeStep, WorkOnly, DoneHanded
<1> QED
  BY <1>1, <1>2, <1>3, <1>4, <1>5 DEF OrderInv

LEMMA OrderFetch ==
  ASSUME HeldTypes, IdInv, HeldInv, OrderInv, NEW w \in Updates, FetchStep(w)
  PROVE  OrderInv'
<1>1. /\ UNCHANGED <<id, kind, kept, handed, passed>> /\ Lowest(w) /\ w \in LBatch
      /\ Held' = Held /\ Taken = {} /\ Taken' = {w} /\ LBatch' = LBatch /\ LLast' = 0 /\ LLast = 0
  BY DEF FetchStep, Lowest, WorkOnly, SameIds, SameHistory, Held, Taken
<1>2. \A u : (Handable(u)' <=> Handable(u)) /\ (Open(u)' <=> Open(u))
  BY <1>1 DEF Handable, Open
<1>3. LLast < id[w]
  BY <1>1 DEF HeldTypes, Held
<1>4. NoneBehind'
  BY <1>1, <1>2 DEF OrderInv, NoneBehind
<1>5. BatchWhole'
  BY <1>1, <1>2 DEF OrderInv, BatchWhole
<1>6. TakenWhole'
  <2> SUFFICES ASSUME NEW u \in kept, u < w, Open(u) PROVE FALSE
    BY <1>1, <1>2 DEF TakenWhole
  <2> QED
    BY <1>1, <1>3, OpenBeforeFirst
<1>7. DoneHanded'
  BY DEF FetchStep, WorkOnly, DoneHanded
<1> QED
  BY <1>1, <1>2, <1>4, <1>5, <1>6, <1>7 DEF OrderInv

LEMMA OrderDropped ==
  ASSUME HeldTypes, OrderInv,
         \E w \in Updates : DropStep(w) \/ HugeStep(w)
  PROVE  OrderInv'
<1>1. ASSUME NEW w \in Updates, DropStep(w) PROVE OrderInv'
  <2>1. /\ UNCHANGED <<id, kind, kept, handed>> /\ passed' = passed \cup {w} /\ kind[w] = "other"
        /\ Held = LBatch /\ Held' = LBatch \ {w} /\ Taken' = {} /\ LBatch' = LBatch \ {w}
        /\ LLast' = LLast /\ LDone' = {}
    BY <1>1 DEF DropStep, SameIds, Held, Taken
  <2>2. \A u : Handable(u)' <=> Handable(u)
    BY <2>1 DEF Handable
  <2>3. ~Handable(w)
    BY <2>1 DEF Handable
  <2>4. \A u : Open(u)' => Open(u) /\ u # w
    BY <2>1 DEF Open
  <2>5. NoneBehind'
    BY <2>1, <2>2 DEF OrderInv, NoneBehind
  <2>6. BatchWhole' /\ TakenWhole'
    BY <2>1, <2>4 DEF OrderInv, BatchWhole, TakenWhole
  <2>7. DoneHanded'
    BY <2>1 DEF DoneHanded
  <2> QED
    BY <2>1, <2>2, <2>3, <2>5, <2>6, <2>7 DEF OrderInv
<1>2. ASSUME NEW b \in Updates, HugeStep(b) PROVE OrderInv'
  <2>1. /\ UNCHANGED <<id, kind, handed>> /\ kept' \subseteq kept /\ kind[b] = "huge"
        /\ passed' = passed \cup {u \in {b} : id[u] = mem.offset}
        /\ Held = Taken /\ Held' = Taken /\ Taken' = Taken /\ LBatch' = {}
    BY <1>2 DEF HugeStep, SameIds, SameWork, Held, Taken, Confirmed
  <2>2. \A u : Handable(u)' <=> Handable(u)
    BY <2>1 DEF Handable
  <2>3. ~Handable(b)
    BY <2>1 DEF Handable
  <2>4. \A u : Open(u)' => Open(u)
    BY <2>1 DEF Open
  <2>5. NoneBehind'
    BY <2>1, <2>2 DEF OrderInv, NoneBehind
  <2>6. BatchWhole' /\ TakenWhole'
    BY <2>1, <2>4 DEF OrderInv, BatchWhole, TakenWhole
  <2>7. DoneHanded'
    BY <1>2, <2>1 DEF OrderInv, DoneHanded, HugeStep, SameWork
  <2> QED
    BY <2>1, <2>2, <2>3, <2>5, <2>6, <2>7 DEF OrderInv
<1> QED
  BY <1>1, <1>2

\* Handing over us: what was sent before one of them and is still to come is among them.
LEMMA OrderHanded ==
  ASSUME HeldTypes, OrderInv, UNCHANGED <<id, kind, kept, passed>>,
         NEW us \in SUBSET Held, handed' = HandCount(us),
         \A v \in us : \A u \in kept \cup Held : u < v /\ Open(u) => u \in us,
         Held' = Held, LBatch' = LBatch, Taken' = us, LDone' = us, LLast = 0
  PROVE  OrderInv'
<1>0. us \subseteq Updates
  BY DEF HeldTypes, Held, Taken
<1>1. \A u \in Updates : /\ handed'[u] = IF u \in us THEN handed[u] + 1 ELSE handed[u]
                         /\ handed[u] \in Nat
  BY DEF HandCount, HeldTypes
<1>2. \A u \in Updates : handed'[u] = 0 => handed[u] = 0 /\ u \notin us
  BY <1>1
<1>3. \A u : Handable(u)' <=> Handable(u)
  BY DEF Handable
<1>4. \A u \in Updates : Open(u)' => Open(u) /\ u \notin us
  BY <1>2 DEF Open
<1>5. NoneBehind'
  <2> SUFFICES ASSUME NEW u \in Updates, NEW v \in Updates, u < v, handed'[v] > 0, handed'[u] = 0,
                      Handable(u), id[u] # 0, u \in kept \cup Held'
               PROVE  FALSE
    BY <1>3 DEF NoneBehind
  <2>1. handed[u] = 0 /\ u \notin us /\ Open(u)
    BY <1>2 DEF Open, OrderInv
  <2>2. CASE v \in us
    BY <2>1, <2>2
  <2>3. CASE v \notin us
    BY <2>1, <2>3, <1>1 DEF OrderInv, NoneBehind
  <2> QED
    BY <2>2, <2>3
<1>6. BatchWhole'
  <2> SUFFICES ASSUME NEW x \in LBatch', NEW u \in kept, u < x, Open(u)'
               PROVE  u \in Held'
    BY DEF BatchWhole
  <2>1. u \in Updates /\ x \in LBatch /\ id[x] # 0 /\ id[x] \in Nat
    BY DEF HeldTypes, Held
  <2>2. Open(u) /\ u \notin us
    BY <2>1, <1>4
  <2> QED
    BY <2>1, <2>2 DEF OrderInv, BatchWhole
<1>7. TakenWhole'
  <2> SUFFICES ASSUME NEW x \in us, NEW u \in kept, u < x, Open(u)' PROVE FALSE
    BY DEF TakenWhole
  <2>1. u \in Updates
    BY DEF HeldTypes
  <2> QED
    BY <2>1, <1>4
<1>8. DoneHanded'
  BY <1>0, <1>1 DEF DoneHanded
<1> QED
  BY <1>3, <1>5, <1>6, <1>7, <1>8 DEF OrderInv

\* The offset has moved: what was handed over is no longer in hand.
LEMMA OrderAdvance ==
  ASSUME HeldTypes, OrderInv, NEW m \in Updates, AdvanceStep(m)
  PROVE  OrderInv'
<1>1. /\ UNCHANGED <<id, kind, kept, handed, passed>> /\ Held = LBatch \cup LTaking
      /\ Held' = LBatch' /\ (LBatch' = LBatch \ LTaking \/ LBatch' = {}) /\ Taken' = {}
      /\ LLast = 0 /\ LLast' = 0 /\ LDone = LTaking /\ LDone' = {}
  BY DEF AdvanceStep, SameIds, Held, Taken
<1>2. \A u : (Handable(u)' <=> Handable(u)) /\ (Open(u)' <=> Open(u))
  BY <1>1 DEF Handable, Open
<1>3. NoneBehind'
  BY <1>1, <1>2 DEF OrderInv, NoneBehind
<1>4. BatchWhole'
  <2> SUFFICES ASSUME NEW x \in LBatch', NEW u \in kept, u < x, Open(u), LLast < id[x]
               PROVE  u \in LBatch'
    BY <1>1, <1>2 DEF BatchWhole
  <2>1. x \in LBatch /\ LBatch' = LBatch \ LTaking
    BY <1>1
  <2>2. u \in LBatch \cup LTaking
    BY <1>1, <2>1 DEF OrderInv, BatchWhole
  <2>3. u \notin LTaking
    BY <1>1 DEF OrderInv, DoneHanded, Open
  <2> QED
    BY <2>1, <2>2, <2>3
<1>5. TakenWhole' /\ DoneHanded'
  BY <1>1 DEF TakenWhole, DoneHanded
<1> QED
  BY <1>1, <1>2, <1>3, <1>4, <1>5 DEF OrderInv

\* What the two handing steps share: the updates in hand that go, and that they may go.
LEMMA Handing ==
  ASSUME HeldTypes, IdInv, HeldInv, OrderInv, (\E w \in Updates : HandStep(w)) \/ IntakeStep
  PROVE  \E us \in SUBSET Held :
           /\ handed' = HandCount(us) /\ \A v \in us : Handable(v)
           /\ \A v \in us : \A u \in kept \cup Held : u < v /\ Open(u) => u \in us
           /\ Held' = Held /\ LBatch' = LBatch /\ Taken' = us /\ LDone' = us /\ LLast = 0
<1>1. ASSUME NEW w \in Updates, HandStep(w)
      PROVE  \E us \in SUBSET Held :
               /\ handed' = HandCount(us) /\ \A v \in us : Handable(v)
               /\ \A v \in us : \A u \in kept \cup Held : u < v /\ Open(u) => u \in us
               /\ Held' = Held /\ LBatch' = LBatch /\ Taken' = us /\ LDone' = us /\ LLast = 0
  <2>1. /\ Lowest(w) /\ w \in LBatch /\ kind[w] = "text" /\ handed' = HandCount({w})
        /\ Held = LBatch /\ Taken = {} /\ Held' = LBatch /\ Taken' = {w} /\ LBatch' = LBatch
        /\ LDone' = {w} /\ LLast = 0
    BY <1>1 DEF HandStep, Hands, Lowest, Held, Taken
  <2>2. LLast < id[w]
    BY <2>1 DEF HeldTypes, Held
  <2>3. \A u \in kept : u < w /\ Open(u) => FALSE
    BY <2>1, <2>2, OpenBeforeFirst
  <2>4. \A u \in Held : u < w => FALSE
    BY <2>1, LowestFirst
  <2> QED
    BY <2>1, <2>3, <2>4 DEF Handable
<1>2. CASE IntakeStep
  <2>1. /\ handed' = HandCount(LTaking) /\ Taken = LTaking /\ Held = LBatch \cup LTaking
        /\ Held' = Held /\ Taken' = LTaking /\ LDone' = LTaking /\ LBatch' = LBatch /\ LLast = 0
    BY <1>2 DEF IntakeStep, Hands, Held, Taken
  <2>2. \A v \in LTaking : Handable(v)
    BY <2>1 DEF HeldInv, Handable
  <2>3. \A v \in LTaking : \A u \in kept : u < v /\ Open(u) => u \in LTaking
    BY <2>1 DEF OrderInv, TakenWhole
  <2>4. \A v \in LTaking : \A u \in LBatch \ LTaking : ~(u < v)
    <3> SUFFICES ASSUME NEW v \in LTaking, NEW u \in LBatch \ LTaking, u < v PROVE FALSE
      OBVIOUS
    <3>1. /\ u \in Updates /\ v \in Updates /\ id[u] \in Nat /\ id[v] \in Nat /\ FirstId \in Nat
          /\ id[v] # 0
      BY FirstIdType DEF HeldTypes, Held, Taken
    <3>2. id[v] < id[u]
      BY DEF HeldInv
    <3>3. Low(v) => Low(u)
      BY <2>1 DEF HeldInv
    <3> QED
      BY <3>1, <3>2, <3>3 DEF IdInv, InSequence, Low
  <2> QED
    BY <2>1, <2>2, <2>3, <2>4
<1> QED
  BY <1>1, <1>2

LEMMA OrderNext ==
  ASSUME HeldTypes, IdInv, HeldInv, OrderInv, LiveStep
  PROVE  OrderInv'
<1>1. CASE (\E w \in Updates : HandStep(w)) \/ IntakeStep
  <2>1. UNCHANGED <<id, kind, kept, passed>>
    BY <1>1 DEF HandStep, IntakeStep, Hands, SameIds
  <2> QED
    BY <1>1, <2>1, Handing, OrderHanded
<1> QED
  BY <1>1, OrderQuiet, OrderArrive, OrderAnswer, OrderSkip, OrderCollect, OrderTake, OrderFetch,
     OrderDropped, OrderAdvance
  DEF LiveStep

LEMMA OrderInit == Init => OrderInv
  BY DEF Init, OrderInv, NoneBehind, BatchWhole, TakenWhole, DoneHanded, Held, Taken, LBatch, LTaking, LDone, LParts,
         Live

\* The step form of InOrder.
LEMMA InOrderStep ==
  ASSUME HeldTypes, IdInv, HeldInv, OrderInv, LiveStep,
         NEW u \in Updates, handed[u] = 0, handed'[u] > 0, NEW v \in Updates, v > u
  PROVE  handed[v] = 0
<1>0. u \in Nat /\ v \in Nat /\ handed[v] \in Nat
  BY TelegramAssumption DEF HeldTypes
<1>1. (\E w \in Updates : HandStep(w)) \/ IntakeStep
  <2>1. handed' # handed
    OBVIOUS
  <2> QED
    BY <2>1 DEF LiveStep, ArriveStep, SilenceStep, RenumberStep, StartStep, QuietStep, PollStep,
       AnswerStep, SkipStep, CollectStep, FetchStep, DropStep, HugeStep, TakeStep, SaveStep,
       AdvanceStep, WorkOnly, SameHistory
<1>2. PICK us \in SUBSET Held : handed' = HandCount(us) /\ \A x \in us : Handable(x)
  BY <1>1, Handing
<1>3. u \in us
  BY <1>2 DEF HandCount
<1>4. Handable(u) /\ u \in Held /\ id[u] # 0
  BY <1>2, <1>3 DEF HeldTypes
<1> QED
  BY <1>0, <1>4 DEF OrderInv, NoneBehind

----------------------------------------------------------------------------
(***************************************************************************)
(* Nothing lost.                                                           *)
(***************************************************************************)
\* What an outage leaves behind: it is not forgotten, and what an offset of an earlier numbering
\* deletes after one is noted.
Watch ==
  /\ outage => outage'
  /\ swallowed \subseteq swallowed'
  /\ outage /\ OldOffset(mem.offset) => \A u \in kept \ kept' : u \in swallowed' \cup expired'

\* A call with the adapter's offset reached the server.
LEMMA WatchReached ==
  ASSUME Reached(mem.offset), outage' = outage
  PROVE  Watch
  BY DEF Reached, Watch

\* No call did.
LEMMA WatchStill ==
  ASSUME kept \subseteq kept', outage => outage', swallowed' = swallowed
  PROVE  Watch
  BY DEF Watch

LEMMA WatchLoop ==
  ASSUME RunInv, NEW r \in Runs, Loop(r)
  PROVE  Watch
<1>0. run[r].pc = "polling" => run[r].sent = mem.offset
  BY DEF RunInv, RunOK
<1>1. CASE Verify(r) \/ PollStart(r) \/ PollEnds(r) \/ Abandon(r)
  BY <1>1, WatchStill DEF Verify, PollStart, PollEnds, Abandon, server, history
<1>2. CASE Answer(r)
  BY <1>0, <1>2, WatchReached DEF Answer
<1>3. CASE TooLarge(r)
  BY <1>0, <1>3, WatchReached DEF TooLarge
<1>4. CASE PollFails(r)
  BY <1>0, <1>4, WatchReached, WatchStill DEF PollFails
<1>5. CASE HandleNext(r)
  <2>1. PICK u \in Updates :
          \/ SkipRepeated(r, u) \/ CollectPart(r, u) \/ FlushFirst(r, u)
          \/ HandText(r, u) \/ FetchFiles(r, u) \/ Drop(r, u)
    BY <1>5, HandleCases
  <2>2. UNCHANGED <<kept, outage, swallowed>>
    BY <2>1
    DEF SkipRepeated, CollectPart, FlushFirst, TakeAlbum, HandText, FetchFiles, Drop, server, history
  <2> QED
    BY <2>2, WatchStill
<1>6. CASE IntakeDone(r) \/ Advance(r)
  BY <1>6, WatchStill DEF IntakeDone, Advance, server
<1>7. CASE EndBatch(r)
  BY <1>7, WatchStill DEF EndBatch, TakeAlbum, server, history
<1> QED
  BY <1>1, <1>2, <1>3, <1>4, <1>5, <1>6, <1>7 DEF Loop

LEMMA WatchNext == RunInv /\ [Next]_vars => Watch
<1> SUFFICES ASSUME RunInv, [Next]_vars PROVE Watch
  OBVIOUS
<1>1. ASSUME NEW u \in Updates, NEW k \in Kinds[u], Arrive(u, k) PROVE Watch
  BY <1>1, WatchStill DEF Arrive, history
<1>2. CASE Silence
  BY <1>2 DEF Silence, Watch
<1>3. CASE Renumber
  <2>1. outage => outage'
    BY <1>3, Zenon DEF Renumber
  <2> QED
    BY <1>3, <2>1, WatchStill DEF Renumber
<1>4. CASE Start
  <2>1. outage => outage'
    BY <1>4, Zenon DEF Start
  <2> QED
    BY <1>4, <2>1, WatchStill DEF Start, server
<1>5. CASE StopCall \/ StopSettled \/ Crash \/ UNCHANGED vars
           \/ \E open \in BOOLEAN : ResolveGate(open)
  BY <1>5, WatchStill
  DEF StopCall, StopSettled, Crash, vars, ResolveGate, server, history
<1>6. CASE StopConfirm
  BY <1>6, WatchReached, WatchStill DEF StopConfirm
<1> QED
  BY <1>1, <1>2, <1>3, <1>4, <1>5, <1>6, WatchLoop DEF Next

Pending(u) == id[u] # 0 /\ Open(u) /\ u \notin expired /\ u \notin swallowed

\* What is pending is on the server and past neither offset, unless that is one of an earlier
\* numbering.
PendingKept ==
  \A u \in Updates : Pending(u) =>
    /\ u \in kept
    /\ up /\ ~OldOffset(mem.offset) => mem.offset <= id[u]
    /\ ~file.stale /\ ~OldOffset(file.offset) => file.offset <= id[u]

\* On a silent day nothing is in hand, and both offsets are given up.
QuietClean == quiet > 0 => file.stale /\ (mem.silent \/ mem.offset = 0) /\ Held = {}

\* Without an outage neither offset, nor what is in hand, comes from an earlier numbering.
Watched ==
  ~outage =>
    /\ ~OldOffset(mem.offset)
    /\ ~file.stale => ~OldOffset(file.offset)
    /\ \A x \in Held : Low(x) <=> nextId < FirstId
    /\ QuietClean

LossInv == PendingKept /\ Watched

\* An offset of the server's own numbering is not ahead of it.
LEMMA NotAhead ==
  ASSUME HeldTypes, NEW o \in Nat, InRange(o), ~OldOffset(o)
  PROVE  o <= nextId
<1>1. nextId \in Nat /\ FirstId \in Nat
  BY FirstIdType DEF HeldTypes
<1> QED
  BY <1>1 DEF InRange, OldOffset

LEMMA LossArrive ==
  ASSUME HeldTypes, HeldTypes', IdInv, IdInv', OffsetInv, LossInv, Watch,
         NEW a \in Updates, ArriveStep(a)
  PROVE  LossInv'
<1>1. /\ UNCHANGED <<handed, passed, expired, file, up>> /\ kept' = kept \cup {a} /\ id[a] = 0
      /\ id'[a] = nextId /\ nextId' = nextId + 1 /\ quiet' = 0
      /\ mem'.offset = mem.offset /\ mem'.silent = mem.silent /\ Held' = Held
  BY DEF ArriveStep, SameHistory, SameMem, SameWork, Held, Taken, HeldTypes
<1>2. \A v \in Updates : v # a => id'[v] = id[v]
  BY DEF ArriveStep, HeldTypes
<1>3. FirstId' = FirstId /\ FirstId \in Nat /\ nextId \in Nat /\ mem.offset \in Nat /\ file.offset \in Nat
  BY FirstIdType DEF FirstId, HeldTypes
<1>4. \A v : Open(v)' <=> Open(v)
  BY <1>1 DEF Open
<1>6. nextId' < FirstId <=> nextId < FirstId
  BY <1>1, <1>3, RoomBelow
<1>7. (OldOffset(mem.offset)' <=> OldOffset(mem.offset)) /\ (OldOffset(file.offset)' <=> OldOffset(file.offset))
  BY <1>1, <1>3, <1>6 DEF OldOffset
<1>5. PendingKept'
  <2> SUFFICES ASSUME NEW u \in Updates, Pending(u)'
               PROVE  /\ u \in kept'
                      /\ up /\ ~OldOffset(mem.offset) => mem.offset <= id'[u]
                      /\ ~file.stale /\ ~OldOffset(file.offset) => file.offset <= id'[u]
    BY <1>1, <1>7 DEF PendingKept
  <2>1. CASE u = a
    BY <2>1, <1>1, <1>3, NotAhead DEF OffsetInv
  <2>2. CASE u # a
    <3>1. Pending(u)
      BY <2>2, <1>1, <1>2, <1>4 DEF Pending, Watch
    <3> QED
      BY <2>2, <3>1, <1>1, <1>2 DEF LossInv, PendingKept
  <2> QED
    BY <2>1, <2>2
<1>8. \A x \in Held : id'[x] = id[x]
  BY <1>1, <1>2 DEF HeldTypes, Held, Taken
<1>9. Watched'
  BY <1>1, <1>3, <1>6, <1>7, <1>8 DEF LossInv, Watched, Watch, Low, QuietClean
<1> QED
  BY <1>5, <1>9 DEF LossInv

LEMMA LossSilence ==
  ASSUME HeldTypes, LossInv, Watch, SilenceStep
  PROVE  LossInv'
<1>1. /\ UNCHANGED <<id, handed, passed, nextId>> /\ expired' = expired \cup kept /\ file'.stale
      /\ mem'.offset = mem.offset
      /\ ~outage' => (mem'.silent \/ mem.offset = 0) /\ Held' = {}
  BY DEF SilenceStep, NoWork, SameWork, Held, Taken
<1>2. \A u \in Updates : ~Pending(u)'
  BY <1>1 DEF Pending, Open, LossInv, PendingKept, Watch
<1>3. FirstId' = FirstId
  BY DEF FirstId
<1>4. Watched'
  BY <1>1, <1>3 DEF LossInv, Watched, Watch, QuietClean, OldOffset
<1> QED
  BY <1>2, <1>4 DEF LossInv, PendingKept

LEMMA LossRenumber ==
  ASSUME HeldTypes, IdInv, LossInv, Watch, RenumberStep
  PROVE  LossInv'
<1>1. /\ UNCHANGED <<id, handed, passed, expired, file, kept, quiet>> /\ quiet > 0 /\ nextId' = 1
      /\ mem'.offset = mem.offset /\ mem'.silent = mem.silent /\ Held' = Held
      /\ ~outage' => ~mem.silent
  BY DEF RenumberStep, SameHistory, SameMem, SameWork, Held, Taken
<1>2. kept = {}
  BY <1>1 DEF IdInv, InEpoch
<1>3. \A u \in Updates : ~Pending(u)'
  BY <1>1, <1>2 DEF Pending, Open, LossInv, PendingKept, Watch
<1>4. ASSUME ~outage' PROVE file.stale /\ mem.offset = 0 /\ Held = {} /\ ~outage
  BY <1>1, <1>4 DEF LossInv, Watched, Watch, QuietClean
<1>5. FirstId' = FirstId /\ FirstId \in Nat /\ FirstId >= 2
  BY FirstIdType DEF FirstId
<1>6. Watched'
  BY <1>1, <1>4, <1>5 DEF Watched, QuietClean, OldOffset
<1> QED
  BY <1>3, <1>6 DEF LossInv, PendingKept

\* Any other step: nothing becomes pending, and the offsets stay behind what is.
LEMMA LossMoves ==
  ASSUME HeldTypes, LossInv, Watch, UNCHANGED <<id, nextId, quiet, expired>>, Held' \subseteq Held,
         \A u \in Updates : Open(u)' => Open(u),
         \A u \in kept : Pending(u) /\ Pending(u)' =>
           /\ u \in kept'
           /\ up' /\ ~OldOffset(mem'.offset) => mem'.offset <= id[u]
           /\ ~file'.stale /\ ~OldOffset(file'.offset) => file'.offset <= id[u],
         ~outage =>
           /\ ~OldOffset(mem'.offset) /\ (~file'.stale => ~OldOffset(file'.offset))
           /\ quiet > 0 => file'.stale /\ (mem'.silent \/ mem'.offset = 0)
  PROVE  LossInv'
<1>1. FirstId' = FirstId /\ \A u : Low(u)' <=> Low(u)
  BY DEF FirstId, Low
<1>2. /\ OldOffset(mem.offset)' <=> OldOffset(mem'.offset)
      /\ OldOffset(file.offset)' <=> OldOffset(file'.offset)
  BY <1>1 DEF OldOffset
<1>3. PendingKept'
  <2> SUFFICES ASSUME NEW u \in Updates, Pending(u)'
               PROVE  /\ u \in kept'
                      /\ up' /\ ~OldOffset(mem'.offset) => mem'.offset <= id[u]
                      /\ ~file'.stale /\ ~OldOffset(file'.offset) => file'.offset <= id[u]
    BY <1>2 DEF PendingKept
  <2>1. Pending(u)
    BY DEF Pending, Watch
  <2>2. u \in kept
    BY <2>1 DEF LossInv, PendingKept
  <2> QED
    BY <2>1, <2>2
<1>4. Watched'
  <2> SUFFICES ASSUME ~outage'
               PROVE  /\ ~OldOffset(mem'.offset)
                      /\ ~file'.stale => ~OldOffset(file'.offset)
                      /\ \A x \in Held' : Low(x) <=> nextId < FirstId
                      /\ quiet > 0 => file'.stale /\ (mem'.silent \/ mem'.offset = 0) /\ Held' = {}
    BY <1>1, <1>2 DEF Watched, QuietClean
  <2>1. ~outage
    BY DEF Watch
  <2> QED
    BY <2>1 DEF LossInv, Watched, QuietClean
<1> QED
  BY <1>3, <1>4 DEF LossInv

\* What the invariant says of a pending update, and that a call with the offset keeps it.
LEMMA PendingFacts ==
  ASSUME HeldTypes, LossInv, Watch, NEW u \in kept, Pending(u)
  PROVE  /\ ~OldOffset(mem.offset) => mem.offset <= id[u]
         /\ ~file.stale /\ ~OldOffset(file.offset) => file.offset <= id[u]
         /\ Pending(u)' /\ kept' = Confirmed(mem.offset) => u \in kept'
<1>1. u \in Updates /\ id[u] \in Nat /\ (~up => mem.offset = 0)
  BY DEF HeldTypes
<1>2. ~OldOffset(mem.offset) => mem.offset <= id[u]
  BY <1>1 DEF LossInv, PendingKept
<1>3. ASSUME Pending(u)', kept' = Confirmed(mem.offset), u \notin kept' PROVE FALSE
  <2>1. OldOffset(mem.offset)
    <3> SUFFICES ASSUME ~OldOffset(mem.offset) PROVE FALSE
      OBVIOUS
    <3>1. mem.offset <= id[u] /\ mem.offset \in Nat
      BY <1>2 DEF HeldTypes
    <3> QED
      BY <1>1, <1>3, <3>1 DEF Confirmed
  <2>2. outage
    BY <2>1 DEF LossInv, Watched
  <2> QED
    BY <1>3, <2>1, <2>2 DEF Watch, Pending
<1> QED
  BY <1>1, <1>2, <1>3 DEF LossInv, PendingKept

\* What the invariant says when there was no outage.
LEMMA NoOutage ==
  ASSUME LossInv, ~outage
  PROVE  /\ ~OldOffset(mem.offset) /\ (~file.stale => ~OldOffset(file.offset))
         /\ \A x \in Held : Low(x) <=> nextId < FirstId
         /\ quiet > 0 => file.stale /\ (mem.silent \/ mem.offset = 0) /\ Held = {}
  BY DEF LossInv, Watched, QuietClean

LEMMA NoneIsOld == ~OldOffset(0)
  BY FirstIdType DEF OldOffset

LEMMA LossProcess ==
  ASSUME HeldTypes, LossInv, Watch, StartStep \/ QuietStep \/ PollStep \/ SaveStep
  PROVE  LossInv'
<1>0. /\ UNCHANGED <<id, nextId, quiet, handed, passed, expired>> /\ \A u : Open(u)' <=> Open(u)
  BY DEF StartStep, QuietStep, PollStep, SaveStep, SameIds, SameHistory, Open
<1>1. Held' \subseteq Held
  BY DEF StartStep, QuietStep, PollStep, SaveStep, SameWork, NoWork, Held, Taken
<1>2. \A u \in kept : id[u] \in Nat
  BY DEF HeldTypes
<1>4. CASE StartStep
  <2>1. UNCHANGED <<kept, file>> /\ mem'.silent = mem.silent
    BY <1>4 DEF StartStep, Loads
  <2>2. \/ mem'.offset = mem.offset
        \/ ~file.stale /\ mem'.offset = file.offset
        \/ mem'.offset = 0
    BY <1>4 DEF StartStep, Loads
  <2>3. \A u \in kept : Pending(u) /\ Pending(u)' =>
          /\ up' /\ ~OldOffset(mem'.offset) => mem'.offset <= id[u]
          /\ ~file'.stale /\ ~OldOffset(file'.offset) => file'.offset <= id[u]
    BY <2>1, <2>2, <1>2, PendingFacts
  <2>4. ~outage =>
          /\ ~OldOffset(mem'.offset) /\ (~file'.stale => ~OldOffset(file'.offset))
          /\ quiet > 0 => file'.stale /\ (mem'.silent \/ mem'.offset = 0)
    BY <2>1, <2>2, NoOutage, NoneIsOld
  <2> QED
    BY <2>1, <2>3, <2>4, <1>0, <1>1, LossMoves
<1>5. CASE QuietStep
  <2>1. UNCHANGED file /\ kept' \in {kept, Confirmed(mem.offset)}
    BY <1>5 DEF QuietStep
  <2>2. \/ mem'.offset = mem.offset /\ (~outage => mem'.silent = mem.silent)
        \/ mem'.offset = 0
    BY <1>5 DEF QuietStep, FreshMem
  <2>3. \A u \in kept : Pending(u) /\ Pending(u)' =>
          /\ u \in kept'
          /\ up' /\ ~OldOffset(mem'.offset) => mem'.offset <= id[u]
          /\ ~file'.stale /\ ~OldOffset(file'.offset) => file'.offset <= id[u]
    BY <2>1, <2>2, <1>2, PendingFacts
  <2>4. ~outage =>
          /\ ~OldOffset(mem'.offset) /\ (~file'.stale => ~OldOffset(file'.offset))
          /\ quiet > 0 => file'.stale /\ (mem'.silent \/ mem'.offset = 0)
    BY <2>1, <2>2, NoOutage, NoneIsOld
  <2> QED
    BY <2>3, <2>4, <1>0, <1>1, LossMoves
<1>6. CASE PollStep
  <2>1. UNCHANGED <<file, kept>> /\ mem'.offset = (IF mem.silent THEN 0 ELSE mem.offset)
    BY <1>6 DEF PollStep
  <2>3. \A u \in kept : Pending(u) /\ Pending(u)' =>
          /\ up' /\ ~OldOffset(mem'.offset) => mem'.offset <= id[u]
          /\ ~file'.stale /\ ~OldOffset(file'.offset) => file'.offset <= id[u]
    BY <2>1, <1>2, PendingFacts
  <2>4. ~outage =>
          /\ ~OldOffset(mem'.offset) /\ (~file'.stale => ~OldOffset(file'.offset))
          /\ quiet > 0 => file'.stale /\ (mem'.silent \/ mem'.offset = 0)
    BY <2>1, NoOutage, NoneIsOld
  <2> QED
    BY <2>1, <2>3, <2>4, <1>0, <1>1, LossMoves
<1>7. CASE SaveStep
  <2>1. /\ UNCHANGED kept /\ mem'.offset = mem.offset /\ mem'.silent = mem.silent
        /\ \/ file' = file
           \/ mem.offset # 0 /\ file' = [offset |-> mem.offset, stale |-> FALSE]
        /\ ~outage => ~mem.silent
    BY <1>7 DEF SaveStep, SavedAt
  <2>3. \A u \in kept : Pending(u) /\ Pending(u)' =>
          /\ up' /\ ~OldOffset(mem'.offset) => mem'.offset <= id[u]
          /\ ~file'.stale /\ ~OldOffset(file'.offset) => file'.offset <= id[u]
    BY <2>1, PendingFacts
  <2>4. ~outage =>
          /\ ~OldOffset(mem'.offset) /\ (~file'.stale => ~OldOffset(file'.offset))
          /\ quiet > 0 => file'.stale /\ (mem'.silent \/ mem'.offset = 0)
    BY <2>1, NoOutage
  <2> QED
    BY <2>1, <2>3, <2>4, <1>0, <1>1, LossMoves
<1> QED
  BY <1>4, <1>5, <1>6, <1>7

LEMMA LossAnswer ==
  ASSUME HeldTypes, IdInv, LossInv, Watch, NEW B \in SUBSET Updates, AnswerStep(B)
  PROVE  LossInv'
<1>1. /\ UNCHANGED <<id, nextId, quiet, handed, passed, expired, file, up>>
      /\ kept' = Confirmed(mem.offset) /\ B \subseteq kept /\ mem'.offset = mem.offset
      /\ mem'.silent = (mem.silent /\ B = {}) /\ Held' = Held \cup B
  BY DEF AnswerStep, SameIds, SameHistory, Held, Taken, Confirmed
<1>2. /\ FirstId' = FirstId /\ (\A u : Low(u)' <=> Low(u))
      /\ OldOffset(mem.offset)' <=> OldOffset(mem.offset)
      /\ OldOffset(file.offset)' <=> OldOffset(file.offset)
  BY <1>1 DEF FirstId, Low, OldOffset
<1>3. PendingKept'
  <2> SUFFICES ASSUME NEW u \in Updates, Pending(u)'
               PROVE  /\ u \in kept'
                      /\ up /\ ~OldOffset(mem.offset) => mem.offset <= id[u]
                      /\ ~file.stale /\ ~OldOffset(file.offset) => file.offset <= id[u]
    BY <1>1, <1>2 DEF PendingKept
  <2>1. Pending(u)
    BY <1>1 DEF Pending, Open, Watch
  <2>2. u \in kept
    BY <2>1 DEF LossInv, PendingKept
  <2> QED
    BY <1>1, <2>1, <2>2, PendingFacts
<1>4. Watched'
  <2> SUFFICES ASSUME ~outage'
               PROVE  /\ ~OldOffset(mem.offset) /\ (~file.stale => ~OldOffset(file.offset))
                      /\ \A x \in Held \cup B : Low(x) <=> nextId < FirstId
                      /\ quiet > 0 => file.stale /\ (mem'.silent \/ mem.offset = 0) /\ Held \cup B = {}
    BY <1>1, <1>2 DEF Watched, QuietClean
  <2>1. ~outage
    BY DEF Watch
  <2>2. \A x \in B : Low(x) <=> nextId < FirstId
    BY <1>1 DEF IdInv, InEpoch
  <2>3. quiet > 0 => B = {}
    BY <1>1 DEF IdInv, InEpoch
  <2> QED
    BY <1>1, <2>1, <2>2, <2>3, NoOutage
<1> QED
  BY <1>3, <1>4 DEF LossInv

LEMMA LossHuge ==
  ASSUME HeldTypes, IdInv, LossInv, Watch, NEW b \in Updates, HugeStep(b)
  PROVE  LossInv'
<1>1. /\ UNCHANGED <<id, nextId, quiet, handed, expired, up>> /\ Held' = Held
      /\ kept' = Confirmed(mem.offset) /\ b \in kept' /\ (\A v \in kept' : id[b] <= id[v])
      /\ passed' = passed \cup {u \in {b} : id[u] = mem.offset}
      /\ mem'.offset = mem.offset + 1
      /\ file' = file \/ file' = [offset |-> mem.offset + 1, stale |-> FALSE]
  BY DEF HugeStep, SameIds, SameWork, Held, Taken, SavedAt
<1>2. /\ b \in kept /\ mem.offset <= id[b] /\ id[b] \in Nat /\ id[b] # 0
      /\ mem.offset \in Nat /\ nextId \in Nat /\ FirstId \in Nat
  BY <1>1, FirstIdType DEF Confirmed, HeldTypes
<1>3. id[b] < nextId /\ (Low(b) <=> nextId < FirstId) /\ ~(quiet > 0)
  BY <1>2 DEF IdInv, InEpoch, Low
<1>4. ~OldOffset(mem.offset) /\ ~OldOffset(mem.offset + 1)
  BY <1>2, <1>3 DEF OldOffset, Low
<1>5. \A u : Open(u)' => Open(u)
  BY <1>1 DEF Open
<1>6. ASSUME NEW u \in kept, Pending(u), Pending(u)'
      PROVE  /\ u \in kept' /\ mem.offset + 1 <= id[u]
             /\ ~file.stale /\ ~OldOffset(file.offset) => file.offset <= id[u]
  <2>1. u \in kept' /\ mem.offset <= id[u] /\ id[b] <= id[u] /\ id[u] \in Nat /\ u \in Updates
    BY <1>1, <1>4, <1>6, PendingFacts DEF HeldTypes
  <2>2. mem.offset # id[u]
    <3> SUFFICES ASSUME mem.offset = id[u] PROVE FALSE
      OBVIOUS
    <3>1. id[b] = id[u] /\ id[b] = mem.offset
      BY <2>1, <1>2
    <3>2. u = b
      BY <3>1, <2>1, <1>2, IdsDiffer
    <3>3. b \in passed'
      BY <3>1, <1>1
    <3> QED
      BY <3>2, <3>3, <1>6 DEF Pending, Open
  <2> QED
    BY <2>1, <2>2, <1>2, <1>6, PendingFacts
<1>7. \A u \in kept : Pending(u) /\ Pending(u)' =>
        /\ u \in kept' /\ mem'.offset <= id[u]
        /\ ~file'.stale /\ ~OldOffset(file'.offset) => file'.offset <= id[u]
  BY <1>1, <1>6
<1>8. ~outage => ~OldOffset(mem'.offset) /\ (~file'.stale => ~OldOffset(file'.offset))
  BY <1>1, <1>4, NoOutage
<1> QED
  BY <1>1, <1>3, <1>5, <1>7, <1>8, LossMoves

\* Work and hand-overs leave the offsets alone.
LEMMA LossWork ==
  ASSUME HeldTypes, LossInv, Watch,
         \/ \E u \in Updates : SkipStep(u) \/ CollectStep(u) \/ FetchStep(u) \/ HandStep(u)
         \/ TakeStep \/ IntakeStep
  PROVE  LossInv'
<1>0. WorkOnly \/ \E us \in SUBSET Updates : Hands(us)
  BY DEF SkipStep, CollectStep, FetchStep, TakeStep, HandStep, IntakeStep, HeldTypes
<1>1. /\ UNCHANGED <<id, nextId, quiet, passed, expired, file, kept, up>>
      /\ mem'.offset = mem.offset /\ mem'.silent = mem.silent
  BY <1>0 DEF WorkOnly, Hands, SameIds, SameHistory, SameMem
<1>2. \A u \in Updates : Open(u)' => Open(u)
  <2> SUFFICES ASSUME NEW u \in Updates, handed'[u] = 0 PROVE handed[u] = 0
    BY <1>1 DEF Open
  <2>1. handed[u] \in Nat
    BY DEF HeldTypes
  <2> QED
    BY <2>1, <1>0 DEF WorkOnly, SameHistory, Hands, HandCount
<1>3. Held' \subseteq Held
  BY DEF SkipStep, CollectStep, FetchStep, TakeStep, HandStep, IntakeStep, Hands, Lowest, Held, Taken
<1>4. \A u \in kept : Pending(u) /\ Pending(u)' =>
        /\ ~OldOffset(mem.offset) => mem.offset <= id[u]
        /\ ~file.stale /\ ~OldOffset(file.offset) => file.offset <= id[u]
  BY PendingFacts
<1> QED
  BY <1>1, <1>2, <1>3, <1>4, NoOutage, LossMoves

\* Past an update in hand, an offset of the server's own numbering is before everything that was
\* sent later and is on the server.
LEMMA SentLater ==
  ASSUME HeldTypes, IdInv, NEW w \in Held, NEW u \in kept, u # w, ~(u < w), ~OldOffset(id[w] + 1)
  PROVE  id[w] + 1 <= id[u]
<1>1. /\ u \in Updates /\ w \in Updates /\ u \in Nat /\ w \in Nat /\ id[u] # 0 /\ id[w] # 0
      /\ id[u] \in Nat /\ id[w] \in Nat /\ FirstId \in Nat /\ nextId \in Nat
  BY TelegramAssumption, FirstIdType DEF HeldTypes, Held, Taken
<1>2. Low(u) <=> nextId < FirstId
  BY DEF IdInv, InEpoch
<1>3. Low(w) <=> nextId < FirstId
  BY <1>1 DEF IdInv, InEpoch, OldOffset, Low
<1>4. id[w] < id[u]
  BY <1>1, <1>2, <1>3 DEF IdInv, InSequence, Low
<1> QED
  BY <1>1, <1>4

\* The offset moves past w, which is in hand, and every open update before it is settled.
LEMMA LossSettled ==
  ASSUME HeldTypes, IdInv, LossInv, Watch, NEW w \in Held,
         UNCHANGED <<id, nextId, quiet, expired, kept, up>>, Held' \subseteq Held,
         \A u \in Updates : Open(u)' => Open(u) /\ u # w,
         \A u \in kept : Open(u)' => ~(u < w),
         mem'.offset = id[w] + 1, file' = file \/ file' = [offset |-> id[w] + 1, stale |-> FALSE]
  PROVE  LossInv'
<1>1. w \in Updates /\ id[w] \in Nat /\ id[w] # 0 /\ nextId \in Nat /\ FirstId \in Nat
  BY FirstIdType DEF HeldTypes, Held, Taken
<1>2. ASSUME ~outage PROVE ~OldOffset(id[w] + 1) /\ ~(quiet > 0)
  <2>1. (Low(w) <=> nextId < FirstId) /\ ~(quiet > 0)
    BY <1>2, NoOutage
  <2> QED
    BY <2>1, <1>1 DEF IdInv, InEpoch, Low, OldOffset
<1>3. \A u \in kept : Pending(u) /\ Pending(u)' /\ ~OldOffset(id[w] + 1) => id[w] + 1 <= id[u]
  BY SentLater DEF Pending, HeldTypes
<1>4. \A u \in kept : Pending(u) /\ Pending(u)' =>
        /\ up' /\ ~OldOffset(mem'.offset) => mem'.offset <= id[u]
        /\ ~file'.stale /\ ~OldOffset(file'.offset) => file'.offset <= id[u]
  BY <1>3, PendingFacts
<1>5. ~outage =>
        /\ ~OldOffset(mem'.offset) /\ (~file'.stale => ~OldOffset(file'.offset))
        /\ ~(quiet > 0)
  BY <1>2, NoOutage
<1> QED
  BY <1>4, <1>5, LossMoves

LEMMA LossLeaves ==
  ASSUME HeldTypes, IdInv, HeldInv, OrderInv, LossInv, Watch,
         NEW w \in Updates, DropStep(w) \/ AdvanceStep(w)
  PROVE  LossInv'
<1>1. /\ UNCHANGED <<id, nextId, quiet, expired, kept, up>>
      /\ mem'.offset = id[w] + 1
      /\ file' = file \/ file' = [offset |-> id[w] + 1, stale |-> FALSE]
  BY DEF DropStep, AdvanceStep, SameIds, SavedAt
<1>2. w \in Held /\ Held' \subseteq Held
  BY DEF DropStep, AdvanceStep, Lowest, Held, Taken
<1>3. CASE AdvanceStep(w)
  <2>1. UNCHANGED <<handed, passed>> /\ Taken = LTaking /\ LDone = LTaking /\ w \in LTaking
    BY <1>3 DEF AdvanceStep, Taken
  <2>2. \A u : (Open(u)' <=> Open(u)) /\ (Open(u) => u \notin LTaking)
    BY <2>1 DEF Open, OrderInv, DoneHanded
  <2>3. \A u \in kept : Open(u)' => ~(u < w)
    BY <2>1, <2>2 DEF OrderInv, TakenWhole
  <2> QED
    BY <1>1, <1>2, <2>1, <2>2, <2>3, LossSettled
<1>4. CASE DropStep(w)
  <2>1. Lowest(w) /\ LLast = 0 /\ Taken = {} /\ passed' = passed \cup {w} /\ handed' = handed
    BY <1>4 DEF DropStep, Taken
  <2>2. \A u \in Updates : Open(u)' => Open(u) /\ u # w
    BY <2>1 DEF Open
  <2>3. LLast < id[w]
    BY <1>2, <2>1 DEF HeldTypes
  <2>4. \A u \in kept : Open(u)' => ~(u < w)
    BY <2>1, <2>2, <2>3, OpenBeforeFirst DEF HeldTypes
  <2> QED
    BY <1>1, <1>2, <2>2, <2>4, LossSettled
<1> QED
  BY <1>3, <1>4

LEMMA LossNext ==
  ASSUME HeldTypes, HeldTypes', IdInv, IdInv', HeldInv, OffsetInv, OrderInv, LossInv, Watch, LiveStep
  PROVE  LossInv'
  BY LossArrive, LossSilence, LossRenumber, LossProcess, LossAnswer, LossHuge, LossWork, LossLeaves
  DEF LiveStep

LEMMA LossInit == Init => LossInv
<1> SUFFICES ASSUME Init PROVE LossInv
  OBVIOUS
<1>1. Held = {}
  BY DEF Init, Held, Taken, LBatch, LTaking, LParts, Live
<1> QED
  BY <1>1, FirstIdType
  DEF Init, LossInv, PendingKept, Watched, OldOffset, QuietClean, Pending, FreshMem

\* LossInv implies what the run checks.
LEMMA LossSafe == HeldTypes /\ LossInv => NothingLost
<1> SUFFICES ASSUME HeldTypes, LossInv, NEW u \in Arrived, u \notin kept, u \notin expired,
                    ~Settled(u), u \notin swallowed
             PROVE  FALSE
  BY DEF NothingLost
<1>1. u \in Updates /\ Pending(u)
  BY DEF Arrived, Settled, Pending, Open, HeldTypes
<1> QED
  BY <1>1 DEF LossInv, PendingKept

----------------------------------------------------------------------------
(***************************************************************************)
(* The results.                                                            *)
(***************************************************************************)
PollInv ==
  RunInv /\ HeldTypes /\ IdInv /\ HeldInv /\ OffsetInv /\ OnceInv /\ OrderInv /\ LossInv

LEMMA PollInit == Init => PollInv
  BY RunInit, TypesOfRun, IdInit, HeldInit, OffsetInit, OnceInit, OrderInit, LossInit DEF PollInv

LEMMA TypesOfRunNext == RunInv' => HeldTypes'
  BY TypesOfRun, PTL

LEMMA PollNext == PollInv /\ [Next]_vars => PollInv'
<1> SUFFICES ASSUME PollInv, [Next]_vars PROVE PollInv'
  OBVIOUS
<1>1. RunInv /\ HeldTypes /\ IdInv /\ HeldInv /\ OffsetInv /\ OnceInv /\ OrderInv /\ LossInv
  BY DEF PollInv
<1>2. LiveStep /\ Watch
  BY <1>1, StepCases, WatchNext
<1>3. RunInv' /\ HeldTypes'
  BY <1>1, RunNext, TypesOfRunNext
<1>4. IdInv'
  BY <1>1, <1>2, <1>3, IdNext
<1>5. HeldInv' /\ OffsetInv'
  BY <1>1, <1>2, <1>3, <1>4, HeldNext, OffsetNext
<1>6. OnceInv' /\ OrderInv'
  BY <1>1, <1>2, OnceNext, OrderNext
<1>7. LossInv'
  BY <1>1, <1>2, <1>3, <1>4, LossNext
<1> QED
  BY <1>3, <1>4, <1>5, <1>6, <1>7 DEF PollInv

\* The inductive invariant of the poll loop: the runs, the numbering, what is in hand, the two
\* offsets, at most once, in order and nothing lost, for any number of updates, runs, crashes
\* and faults.
THEOREM PollInvHolds == Spec => []PollInv
  BY PollInit, PollNext, PTL DEF Spec

\* No update is handed over twice, over any restarts, crashes and lost answers, unless the process
\* died before the offset moved past it, or the offset file could not be written, or could not be
\* used at a start: both offsets are past everything else that was handed over and is still on the
\* server, and nothing in hand was handed over before (handleBatch, persistOffset, loadOffset).
THEOREM AtMostOnceHolds == Spec => []AtMostOnce
<1>1. PollInv => AtMostOnce
  BY DEF PollInv, OnceInv
<1> QED
  BY <1>1, PollInvHolds, PTL

\* The first hand-overs follow the order of sending: what the batch or the album in hand leaves
\* out is settled, so nothing waits behind a later update (handleBatch, flushPendingGroup).
THEOREM InOrderHolds == Spec => InOrder
<1>1. PollInv /\ [Next]_vars =>
        [\A u \in Updates : handed[u] = 0 /\ handed'[u] > 0 =>
           \A v \in Updates : v > u => handed[v] = 0]_vars
  <2> SUFFICES ASSUME PollInv, [Next]_vars,
                      NEW u \in Updates, handed[u] = 0, handed'[u] > 0, NEW v \in Updates, v > u
               PROVE  handed[v] = 0
    OBVIOUS
  <2>1. LiveStep
    BY StepCases DEF PollInv
  <2> QED
    BY <2>1, InOrderStep DEF PollInv
<1> QED
  BY <1>1, PollInvHolds, PTL DEF Spec, InOrder

\* No update is lost but by an offset of an earlier numbering after a silent day that no poll loop
\* watched: whatever else is neither handed over nor dropped nor given up by the server is still
\* there, and neither the offset in memory nor the one on the file has passed it (handleBatch,
\* persistOffset, poll, stop).
THEOREM NothingLostHolds == Spec => []NothingLost
<1>1. PollInv => NothingLost
  BY LossSafe DEF PollInv
<1> QED
  BY <1>1, PollInvHolds, PTL

=============================================================================
