------------------------ MODULE SessionWritesProofs ------------------------
(***************************************************************************)
(* SessionWrites for every set of sessions and calls.  The writers use the *)
(* mutex as its own specification allows, so everything KeyedMutexProofs   *)
(* shows of it holds here; from that, the row a writer read inside the     *)
(* lock is still the row when it saves, and no update is lost.             *)
(***************************************************************************)
EXTENDS SessionWrites, KeyedMutexProofs

\* What the work of a call has done, and that re-entrant work runs one at a time inside a section
\* that does not write itself.
StageInv ==
  /\ \A c \in Calls : stage[c] # "start" => op[c].kind # "section" /\ pc[c] \notin {"idle", "waiting"}
  /\ \A c \in Calls : stage[c] = "read" => op[c].kind # "close"

SectionsInv ==
  /\ \A c \in Calls : pc[c] = "nested" => op[under[c]].kind = "section" /\ op[c].kind # "section"
  /\ \A c, d \in Calls : pc[c] = "nested" /\ pc[d] = "nested" /\ under[c] = under[d] => c = d

\* What a writer read inside the lock is still the row.
FreshInv == \A c \in Calls : stage[c] = "read" /\ Working(c) => live[c] = row[key[c]]

WriterInv == SessionTypeOK /\ StageInv /\ SectionsInv /\ FreshInv

----------------------------------------------------------------------------
(* The composition implements the mutex *)

LEMMA SessionStepIsMutexStep == ASSUME [SessionNext]_sessionVars PROVE [MutexNext]_mutexVars
<1>1. CASE UNCHANGED mutexVars
  BY <1>1
<1>2. CASE \E c \in Calls, k \in Keys, h \in Calls \cup {None}, o \in Ops : Request(c, k, h, o)
  BY <1>2 DEF Request, MutexNext
<1>3. CASE \E c \in Calls, rejects \in BOOLEAN : EndWork(c, rejects)
  BY <1>3 DEF EndWork, MutexNext
<1>4. CASE \E c \in Calls : Enter(c) \/ Settle(c) \/ Drop(c)
  BY <1>4 DEF MutexNext
<1>5. CASE \E c \in Calls : ReadLive(c) \/ Save(c) \/ \E k \in Keys : OpenForContext(c, k)
  BY <1>1, <1>5 DEF ReadLive, Save, OpenForContext
<1>6. CASE UNCHANGED sessionVars
  BY <1>1, <1>6 DEF sessionVars
<1> QED
  BY <1>2, <1>3, <1>4, <1>5, <1>6 DEF SessionNext

\* The session writers queue, hand on their hold and leave as the keyed mutex allows: its
\* guarantees (mutual exclusion, arrival order, no leak) are theirs.
THEOREM SessionUsesMutex == SessionSpec => MutexSpec
<1>1. SessionInit => MutexInit
  BY DEF SessionInit
<1> QED
  BY <1>1, SessionStepIsMutexStep, PTL DEF SessionSpec, MutexSpec

\* The writers of a session keep the mutex's invariant: they use it only through its operations.
THEOREM SessionMutexInv == SessionSpec => []MutexInv
BY SessionUsesMutex, MutexInvHolds, PTL

----------------------------------------------------------------------------
(* The rows and the writers *)

LEMMA NewRowType == NewRow \in Row /\ SectionOp \in Ops
BY DEF NewRow, Row, Ops

LEMMA OpCases ==
  ASSUME NEW o \in Ops
  PROVE  \/ o.kind \in Kinds
         \/ o.kind = "release" /\ o.task \in Calls /\ o = [kind |-> "release", task |-> o.task]
         \/ o.kind = "section"
BY DEF Ops, SectionOp

\* Only a section hands its hold on, so of two calls that work on one key one is a section.
LEMMA OneWriter ==
  ASSUME MutexInv, WriterInv, NEW c \in Calls, NEW d \in Calls, c # d,
         Working(c), Working(d), key[c] = key[d]
  PROVE  op[c].kind = "section" \/ op[d].kind = "section"
<1>1. Section(c) = Section(d)
  BY OneSection DEF MutualExclusion
<1> QED
  BY <1>1 DEF Section, Working, WriterInv, SectionsInv

LEMMA EffectType ==
  ASSUME MutexInv, WriterInv, NEW c \in Calls, NEW r \in Row
  PROVE  Effect(c, r) \in Row
<1>1. mine[c] \in Row /\ None \in Calls \cup {None} /\ c \in Calls \cup {None}
  BY DEF WriterInv, SessionTypeOK
<1>2. CASE op[c].kind = "touch"
  BY <1>1, <1>2 DEF Effect, SaveFields, Row
<1>3. CASE op[c].kind = "project"
  BY <1>1, <1>3 DEF Effect, SaveFields, Row
<1>4. CASE op[c].kind = "anchor"
  BY <1>1, <1>4 DEF Effect, SaveFields, Row
<1>5. CASE op[c].kind \in {"metaA", "metaB"}
  <2>1. Effect(c, r) = UpdateMetadataEntry(c, r)
    BY <1>5 DEF Effect
  <2> QED
    BY <1>1, <2>1 DEF UpdateMetadataEntry, Row
<1>6. CASE op[c].kind = "release"
  <2>1. Effect(c, r) = ReleasePointer(c, r)
    BY <1>6 DEF Effect
  <2> QED
    BY <1>1, <2>1 DEF ReleasePointer, Row
<1>7. CASE op[c].kind \notin {"touch", "project", "anchor", "metaA", "metaB", "release"}
  <2>1. Effect(c, r) = CloseSession(c)
    BY <1>7 DEF Effect
  <2> QED
    BY <1>1, <2>1 DEF CloseSession, Row
<1> QED
  BY <1>2, <1>3, <1>4, <1>5, <1>6, <1>7

\* What a save writes is computed from the row as it is now.
LEMMA SaveIsFresh ==
  ASSUME MutexInv, WriterInv, NEW c \in Calls, Save(c)
  PROVE  /\ key[c] \in Keys /\ op[c].kind # "section"
         /\ row' = [row EXCEPT ![key[c]] = Effect(c, row[key[c]])]
<1>1. key[c] \in Keys
  BY DEF MutexInv, MutexTypeOK
<1>2. CASE stage[c] = "read"
  <2>1. live[c] = row[key[c]] /\ op[c].kind # "section"
    BY <1>2 DEF Save, WriterInv, FreshInv, StageInv
  <2> QED
    BY <1>1, <2>1 DEF Save
<1>3. CASE op[c].kind = "close"
  <2>1. Effect(c, live[c]) = CloseSession(c) /\ Effect(c, row[key[c]]) = CloseSession(c)
    BY <1>3 DEF Effect
  <2> QED
    BY <1>1, <1>3, <2>1 DEF Save
<1> QED
  BY <1>2, <1>3 DEF Save

LEMMA SessionInitInv == SessionInit => WriterInv
<1> SUFFICES ASSUME SessionInit PROVE WriterInv
  OBVIOUS
<1>1. SessionTypeOK
  BY NewRowType DEF SessionInit, SessionTypeOK
<1>2. \A c \in Calls : stage[c] = "start" /\ pc[c] = "idle"
  BY DEF SessionInit, MutexInit
<1> QED
  BY <1>1, <1>2 DEF WriterInv, StageInv, SectionsInv, FreshInv

LEMMA RequestInv ==
  ASSUME MutexInv, MutexInv', WriterInv, NEW c \in Calls, NEW k \in Keys,
           NEW h \in Calls \cup {None},
         NEW o \in Ops, Request(c, k, h, o)
  PROVE  WriterInv'
<1>1. /\ pc[c] = "idle" /\ op' = [op EXCEPT ![c] = o] /\ UNCHANGED <<row, opened, mine, live, stage>>
      /\ op \in [Calls -> Ops]
  BY DEF Request, RunQueued, RunNested, WriterInv, SessionTypeOK
<1>2. SessionTypeOK'
  BY <1>1 DEF WriterInv, SessionTypeOK
<1>3. op'[c] = o /\ \A d \in Calls \ {c} : op'[d] = op[d]
  BY <1>1
<1>4. /\ pc'[c] \in {"waiting", "nested"} /\ \A d \in Calls \ {c} : pc'[d] = pc[d]
      /\ \A d \in Calls \ {c} : key'[d] = key[d] /\ under'[d] = under[d]
  BY DEF Request, RunQueued, RunNested, MutexInv, MutexTypeOK
<1>5. stage[c] = "start"
  BY <1>1 DEF WriterInv, StageInv
<1>6. StageInv'
  BY <1>1, <1>3, <1>4, <1>5 DEF WriterInv, StageInv
<1>7. FreshInv'
  BY <1>1, <1>4, <1>5 DEF WriterInv, FreshInv, Working
<1>8. \A d \in Calls : pc[d] = "nested" => under[d] \in Calls \ {c}
  BY <1>1 DEF MutexInv, HoldsInv
<1>9. CASE RunQueued(c, k, h)
  <2>1. pc'[c] # "nested"
    BY <1>9 DEF RunQueued, MutexInv, MutexTypeOK
  <2>2. SectionsInv'
    BY <1>3, <1>4, <1>8, <2>1 DEF WriterInv, SectionsInv
  <2> QED
    BY <1>2, <1>6, <1>7, <2>2 DEF WriterInv
<1>10. CASE RunNested(c, k, h) /\ o.kind # "section"
  <2>1. under'[c] = h /\ h \in Calls \ {c} /\ h # None /\ Alone(h)
    BY <1>1, <1>10, MutexAssumption DEF RunNested, Holds, MutexInv, MutexTypeOK, HoldsInv
  <2>2. op[h].kind = "section"
    BY <2>1 DEF Request
  <2>3. \A d \in Calls \ {c} : pc[d] = "nested" => under[d] # h
    BY <2>1 DEF Alone
  <2>4. SectionsInv'
    BY <1>3, <1>4, <1>8, <1>10, <2>1, <2>2, <2>3 DEF WriterInv, SectionsInv
  <2> QED
    BY <1>2, <1>6, <1>7, <2>4 DEF WriterInv
<1> QED
  BY <1>9, <1>10 DEF Request

LEMMA LockMoves ==
  ASSUME MutexInv, WriterInv, NEW c \in Calls,
         \/ Enter(c) \/ Settle(c) \/ Drop(c) \/ LeaveNested(c)
         \/ \E rejects \in BOOLEAN : Leave(c, rejects),
         UNCHANGED <<row, op, opened, mine, live, stage>>
  PROVE  WriterInv'
<1>1. PICK p \in Pc \ {"idle", "waiting", "nested"} : pc' = [pc EXCEPT ![c] = p] /\ (p = "running" => pc[c] = "waiting")
  BY DEF Enter, Settle, Drop, LeaveNested, Leave, Pc
<1>2. UNCHANGED <<key, under>>
  BY DEF Enter, Settle, Drop, LeaveNested, Leave
<1>3. pc'[c] = p /\ \A d \in Calls \ {c} : pc'[d] = pc[d]
  BY <1>1 DEF MutexInv, MutexTypeOK
<1>4. SessionTypeOK' /\ StageInv'
  BY <1>3 DEF WriterInv, SessionTypeOK, StageInv
<1>6. SectionsInv'
  BY <1>2, <1>3 DEF WriterInv, SectionsInv
<1>5. FreshInv'
  <2> SUFFICES ASSUME NEW d \in Calls, stage[d] = "read", pc'[d] \in {"running", "nested"}
               PROVE  live[d] = row[key[d]]
    BY <1>2 DEF FreshInv, Working
  <2>1. d # c
    BY <1>1, <1>3 DEF WriterInv, StageInv
  <2> QED
    BY <1>3, <2>1 DEF WriterInv, FreshInv, Working
<1> QED
  BY <1>4, <1>5, <1>6 DEF WriterInv

LEMMA ReadLiveInv == ASSUME MutexInv, WriterInv, NEW c \in Calls, ReadLive(c) PROVE WriterInv'
<1>1. /\ stage'[c] = "read" /\ live'[c] = row[key[c]] /\ op[c].kind \notin {"section", "close"}
      /\ \A d \in Calls \ {c} : stage'[d] = stage[d] /\ live'[d] = live[d]
      /\ UNCHANGED <<mutexVars, row, op, opened, mine>> /\ pc[c] \in {"running", "nested"}
  BY DEF ReadLive, Working, WriterInv, SessionTypeOK
<1>2. row[key[c]] \in Row
  BY DEF MutexInv, MutexTypeOK, WriterInv, SessionTypeOK
<1>3. SessionTypeOK'
  BY <1>2 DEF ReadLive, WriterInv, SessionTypeOK
<1>4. StageInv' /\ SectionsInv'
  BY <1>1 DEF WriterInv, StageInv, SectionsInv, mutexVars
<1>5. FreshInv'
  BY <1>1 DEF WriterInv, FreshInv, Working, mutexVars
<1> QED
  BY <1>3, <1>4, <1>5 DEF WriterInv

LEMMA SaveInv == ASSUME MutexInv, WriterInv, NEW c \in Calls, Save(c) PROVE WriterInv'
<1>1. /\ stage'[c] = "saved" /\ \A d \in Calls \ {c} : stage'[d] = stage[d]
      /\ UNCHANGED <<mutexVars, op, opened, mine, live>> /\ Working(c)
  BY DEF Save, WriterInv, SessionTypeOK
<1>2. /\ key[c] \in Keys /\ op[c].kind # "section"
      /\ row' = [row EXCEPT ![key[c]] = Effect(c, row[key[c]])]
  BY SaveIsFresh
<1>3. row[key[c]] \in Row /\ Effect(c, row[key[c]]) \in Row
  BY <1>2, EffectType DEF WriterInv, SessionTypeOK
<1>4. SessionTypeOK'
  BY <1>2, <1>3 DEF Save, WriterInv, SessionTypeOK
<1>5. StageInv' /\ SectionsInv'
  BY <1>1, <1>2 DEF WriterInv, StageInv, SectionsInv, mutexVars, Working
<1>6. FreshInv'
  <2> SUFFICES ASSUME NEW d \in Calls, stage'[d] = "read", Working(d)'
               PROVE  live'[d] = row'[key'[d]]
    BY DEF FreshInv
  <2>1. d # c /\ stage[d] = "read" /\ Working(d) /\ live'[d] = live[d] /\ key'[d] = key[d]
    BY <1>1 DEF mutexVars, Working
  <2>2. key[d] # key[c]
    BY <1>1, <1>2, <2>1, OneWriter DEF WriterInv, StageInv
  <2>3. key[d] \in Keys /\ live[d] = row[key[d]]
    BY <2>1 DEF MutexInv, MutexTypeOK, WriterInv, FreshInv
  <2> QED
    BY <1>2, <2>1, <2>2, <2>3 DEF WriterInv, SessionTypeOK
<1> QED
  BY <1>4, <1>5, <1>6 DEF WriterInv

LEMMA SessionQuietInv ==
  ASSUME WriterInv,
         \/ \E c \in Calls, k \in Keys : OpenForContext(c, k)
         \/ UNCHANGED sessionVars
  PROVE  WriterInv'
<1>1. UNCHANGED <<mutexVars, row, op, live, stage>>
  BY DEF OpenForContext, sessionVars
<1>2. opened' \in [Calls -> Keys \cup {None}] /\ mine' \in [Calls -> Row]
  BY DEF OpenForContext, sessionVars, WriterInv, SessionTypeOK
<1> QED
  BY <1>1, <1>2 DEF WriterInv, SessionTypeOK, StageInv, SectionsInv, FreshInv, Working, mutexVars

LEMMA SessionStepInv ==
  ASSUME MutexInv, MutexInv', WriterInv, [SessionNext]_sessionVars
  PROVE  WriterInv'
<1>1. CASE \E c \in Calls, rejects \in BOOLEAN : EndWork(c, rejects)
  BY <1>1, LockMoves DEF EndWork
<1> QED
  BY <1>1, RequestInv, LockMoves, ReadLiveInv, SaveInv, SessionQuietInv DEF SessionNext

\* Rows and copies stay well typed, re-entrant writers run one at a time under a section that does
\* not write, and what a writer read inside the lock is still the row.
THEOREM WriterInvHolds == SessionSpec => []WriterInv
BY SessionMutexInv, SessionInitInv, SessionStepInv, PTL DEF SessionSpec

----------------------------------------------------------------------------
(* What a step does to a row *)

LEMMA RowWrite ==
  ASSUME MutexInv, WriterInv, [SessionNext]_sessionVars, NEW k \in Keys, row'[k] # row[k]
  PROVE  \E c \in Calls : /\ Working(c) /\ key[c] = k /\ op[c].kind # "section"
                          /\ row[k] \in Row /\ row'[k] = Effect(c, row[k])
                          /\ stage'[c] # stage[c]
<1>1. PICK c \in Calls : Save(c)
  BY DEF SessionNext, OpenForContext, Request, EndWork, ReadLive, sessionVars
<1>2. /\ key[c] \in Keys /\ op[c].kind # "section" /\ Working(c)
      /\ row' = [row EXCEPT ![key[c]] = Effect(c, row[key[c]])] /\ row \in [Keys -> Row]
  BY <1>1, SaveIsFresh DEF Save, WriterInv, SessionTypeOK
<1>3. key[c] = k /\ row'[k] = Effect(c, row[k]) /\ row[k] \in Row
  BY <1>2
<1>4. stage'[c] = "saved" /\ stage[c] # "saved"
  BY <1>1 DEF Save, WriterInv, SessionTypeOK
<1> QED
  BY <1>2, <1>3, <1>4

\* saveFields and the other writers under the session write lock: every save is the writer's own
\* change of the row as it is at that moment, for any number of sessions and writers.
THEOREM NoLostUpdateHolds == SessionSpec => NoLostUpdate
<1>1. MutexInv /\ WriterInv /\ [SessionNext]_sessionVars =>
        [\A k \in Keys : row'[k] # row[k] =>
           \E c \in Calls : Working(c) /\ key[c] = k /\ row'[k] = Effect(c, row[k])]_row
  BY RowWrite
<1> QED
  BY SessionMutexInv, WriterInvHolds, <1>1, PTL DEF SessionSpec, NoLostUpdate

\* Who may change the status and the pointer of a row, and how.
LEMMA EffectFields ==
  ASSUME WriterInv, NEW c \in Calls, NEW r \in Row, op[c].kind # "section"
  PROVE  /\ Effect(c, r).status \in {r.status, "CLOSED"}
         /\ \/ Effect(c, r).task = r.task
            \/ Effect(c, r).task \in Calls
            \/ Effect(c, r).status = "CLOSED"
            \/ op[c] = [kind |-> "release", task |-> r.task]
<1>1. /\ op[c] \in Ops /\ mine[c] \in Row
  BY DEF WriterInv, SessionTypeOK
<1>2. CASE op[c].kind = "touch"
  BY <1>1, <1>2 DEF Effect, SaveFields, Row
<1>3. CASE op[c].kind = "project"
  BY <1>1, <1>3 DEF Effect, SaveFields, Row
<1>4. CASE op[c].kind = "anchor"
  BY <1>1, <1>4 DEF Effect, SaveFields, Row
<1>5. CASE op[c].kind \in {"metaA", "metaB"}
  <2>1. Effect(c, r) = UpdateMetadataEntry(c, r)
    BY <1>5 DEF Effect
  <2> QED
    BY <1>1, <2>1 DEF UpdateMetadataEntry, Row
<1>6. CASE op[c].kind = "release"
  <2>1. Effect(c, r) = ReleasePointer(c, r)
    BY <1>6 DEF Effect
  <2>2. CASE r.task = op[c].task
    <3>1. op[c] = [kind |-> "release", task |-> r.task]
      BY <1>1, <1>6, <2>2, OpCases DEF Kinds
    <3> QED
      BY <2>1, <3>1 DEF ReleasePointer, Row
  <2>3. CASE r.task # op[c].task
    BY <2>1, <2>3 DEF ReleasePointer
  <2> QED
    BY <2>2, <2>3
<1>7. CASE op[c].kind = "close"
  <2>1. Effect(c, r) = CloseSession(c)
    BY <1>7 DEF Effect
  <2> QED
    BY <1>1, <2>1 DEF CloseSession, Row
<1> QED
  BY <1>1, <1>2, <1>3, <1>4, <1>5, <1>6, <1>7, OpCases DEF Kinds

\* SessionManager.close: no writer that was queued, or that holds an older copy, makes a closed
\* session ACTIVE again.
THEOREM ClosedForGoodHolds == SessionSpec => ClosedForGood
<1>1. MutexInv /\ WriterInv /\ [SessionNext]_sessionVars =>
        [\A k \in Keys : row[k].status = "CLOSED" => row'[k].status = "CLOSED"]_row
  <2> SUFFICES ASSUME MutexInv, WriterInv, [SessionNext]_sessionVars, NEW k \in Keys,
                      row[k].status = "CLOSED", row'[k] # row[k]
               PROVE  row'[k].status = "CLOSED"
    OBVIOUS
  <2>1. PICK c \in Calls : op[c].kind # "section" /\ row[k] \in Row /\ row'[k] = Effect(c, row[k])
    BY RowWrite
  <2> QED
    BY <2>1, EffectFields
<1> QED
  BY SessionMutexInv, WriterInvHolds, <1>1, PTL DEF SessionSpec, ClosedForGood

\* releasePointer and close: a pointer is never cleared on behalf of another flow.
THEOREM PointerTakenOnlyByOwnerHolds == SessionSpec => PointerTakenOnlyByOwner
<1>1. MutexInv /\ WriterInv /\ [SessionNext]_sessionVars =>
        [\A k \in Keys :
           row[k].task # None /\ row'[k].task # row[k].task =>
             \/ row'[k].task # None
             \/ row'[k].status = "CLOSED"
             \/ \E c \in Calls :
                  stage'[c] # stage[c] /\ op[c] = [kind |-> "release", task |-> row[k].task]]_row
  <2> SUFFICES ASSUME MutexInv, WriterInv, [SessionNext]_sessionVars, NEW k \in Keys,
                      row[k].task # None, row'[k].task # row[k].task
               PROVE  \/ row'[k].task # None
                      \/ row'[k].status = "CLOSED"
                      \/ \E c \in Calls :
                           stage'[c] # stage[c] /\ op[c] = [kind |-> "release", task |-> row[k].task]
    OBVIOUS
  <2>1. PICK c \in Calls : /\ op[c].kind # "section" /\ row[k] \in Row
                           /\ row'[k] = Effect(c, row[k]) /\ stage'[c] # stage[c]
    BY RowWrite
  <2> QED
    BY <2>1, EffectFields, MutexAssumption
<1> QED
  BY SessionMutexInv, WriterInvHolds, <1>1, PTL DEF SessionSpec, PointerTakenOnlyByOwner

=============================================================================
