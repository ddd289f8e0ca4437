--------------------------- MODULE SessionWrites ---------------------------
(***************************************************************************)
(* Writers of a Session row under the one session write lock               *)
(* (packages/core/src/application/session-write-lock.ts and                *)
(* session-manager.ts), composed with the mutex itself.  A writer holds a  *)
(* copy of the row from before it queued, re-reads the live row inside the *)
(* lock and saves its own fields onto it; the close of a reset saves its   *)
(* whole copy.  Reading and saving are two storage awaits.                 *)
(*                                                                         *)
(* Keys are session ids.  A field holds the call that last wrote it, the   *)
(* pointer (activeTaskId) the call that anchored it.                       *)
(***************************************************************************)
EXTENDS KeyedMutex

VARIABLES
  row,     \* the Session rows
  op,      \* what each call does
  opened,  \* the session the caller's turn opened
  mine,    \* the caller's copy of that row, from the start of its turn
  live,    \* the row as re-read inside the lock
  stage    \* how far its work got

sessionVars == <<mutexVars, row, op, opened, mine, live, stage>>

Row ==
  [status : {"ACTIVE", "CLOSED"}, task : Calls \cup {None}, lastActivityAt : Calls \cup {None},
   project : Calls \cup {None}, metaA : Calls \cup {None}, metaB : Calls \cup {None}]

NewRow ==
  [status |-> "ACTIVE", task |-> None, lastActivityAt |-> None, project |-> None,
   metaA |-> None, metaB |-> None]

SectionOp == [kind |-> "section", task |-> None]
Kinds == {"touch", "project", "anchor", "metaA", "metaB", "close"}
Ops ==
  {[kind |-> k, task |-> None] : k \in Kinds}
    \cup {[kind |-> "release", task |-> t] : t \in Calls}
    \cup {SectionOp}

----------------------------------------------------------------------------
(* What a call leaves in the row, given the row it read. *)

\* saveFields.
SaveFields(c, r) ==
  CASE op[c].kind = "touch"   -> [r EXCEPT !.lastActivityAt = c]
    [] op[c].kind = "project" -> [r EXCEPT !.project = c, !.lastActivityAt = c]
    [] op[c].kind = "anchor"  -> [r EXCEPT !.task = c, !.lastActivityAt = c]

\* updateMetadataEntry: one key of the metadata; a session that is not ACTIVE is left alone.
UpdateMetadataEntry(c, r) ==
  IF r.status # "ACTIVE" THEN r
  ELSE IF op[c].kind = "metaA" THEN [r EXCEPT !.metaA = c] ELSE [r EXCEPT !.metaB = c]

\* A plausible bug: the pointer is cleared whoever it belongs to.
ReleaseAnyPointer(c, r) == [r EXCEPT !.task = None]

\* releasePointer: compare and clear.
ReleasePointer(c, r) == IF r.task = op[c].task THEN [r EXCEPT !.task = None] ELSE r

\* close(): the caller's whole copy.
CloseSession(c) == [mine[c] EXCEPT !.status = "CLOSED", !.lastActivityAt = c]

Effect(c, r) ==
  CASE op[c].kind \in {"touch", "project", "anchor"} -> SaveFields(c, r)
    [] op[c].kind \in {"metaA", "metaB"}             -> UpdateMetadataEntry(c, r)
    [] op[c].kind = "release"                        -> ReleasePointer(c, r)
    [] OTHER                                         -> CloseSession(c)

----------------------------------------------------------------------------

SessionInit ==
  /\ MutexInit
  /\ row = [k \in Keys |-> NewRow]
  /\ op = [c \in Calls |-> SectionOp]
  /\ opened = [c \in Calls |-> None]
  /\ mine = [c \in Calls |-> NewRow]
  /\ live = [c \in Calls |-> NewRow]
  /\ stage = [c \in Calls |-> "start"]

\* openForContext: a turn starts with the ACTIVE row of its conversation.
OpenForContext(c, k) ==
  /\ opened[c] = None
  /\ row[k].status = "ACTIVE"
  /\ opened' = [opened EXCEPT ![c] = k]
  /\ mine' = [mine EXCEPT ![c] = row[k]]
  /\ UNCHANGED <<mutexVars, row, op, live, stage>>

\* A writer asks for the lock of its session, with its own copy of the row; only a section that
\* holds the lock hands its hold on (ApprovalDecisionService.exclusive), and the close of a reset
\* is the last it does.
Request(c, k, h, o) ==
  /\ opened[c] = k
  /\ Given(h)
  /\ h # None =>
       op[h].kind = "section" /\ \A d \in Calls : under[d] = h => op[d].kind # "close"
  /\ o.kind = "release" => pc[o.task] # "idle" /\ op[o.task].kind = "anchor"
  /\ RunQueued(c, k, h) \/ (RunNested(c, k, h) /\ o.kind # "section")
  /\ op' = [op EXCEPT ![c] = o]
  /\ UNCHANGED <<row, opened, mine, live, stage>>

\* A plausible bug: the caller's copy is used instead of the live row.
ReadOwnCopy(c) ==
  /\ Working(c) /\ stage[c] = "start"
  /\ op[c].kind \notin {"section", "close"}
  /\ live' = [live EXCEPT ![c] = mine[c]]
  /\ stage' = [stage EXCEPT ![c] = "read"]
  /\ UNCHANGED <<mutexVars, row, op, opened, mine>>

ReadLive(c) ==
  /\ Working(c) /\ stage[c] = "start"
  /\ op[c].kind \notin {"section", "close"}
  /\ live' = [live EXCEPT ![c] = row[key[c]]]
  /\ stage' = [stage EXCEPT ![c] = "read"]
  /\ UNCHANGED <<mutexVars, row, op, opened, mine>>

Save(c) ==
  /\ Working(c)
  /\ stage[c] = "read" \/ (stage[c] = "start" /\ op[c].kind = "close")
  /\ row' = [row EXCEPT ![key[c]] = Effect(c, live[c])]
  /\ stage' = [stage EXCEPT ![c] = "saved"]
  /\ UNCHANGED <<mutexVars, op, opened, mine, live>>

\* The work ends when it saved, or earlier when the store throws.
EndWork(c, rejects) ==
  /\ Leave(c, rejects) \/ LeaveNested(c)
  /\ rejects \/ stage[c] = "saved" \/ op[c].kind = "section"
  /\ UNCHANGED <<row, op, opened, mine, live, stage>>

SessionNext ==
  \E c \in Calls :
    \/ \E k \in Keys : OpenForContext(c, k)
    \/ \E k \in Keys, h \in Calls \cup {None}, o \in Ops : Request(c, k, h, o)
    \/ Enter(c) /\ UNCHANGED <<row, op, opened, mine, live, stage>>
    \/ ReadLive(c)
    \/ Save(c)
    \/ \E rejects \in BOOLEAN : EndWork(c, rejects)
    \/ Settle(c) /\ UNCHANGED <<row, op, opened, mine, live, stage>>
    \/ Drop(c) /\ UNCHANGED <<row, op, opened, mine, live, stage>>

SessionSpec == SessionInit /\ [][SessionNext]_sessionVars

----------------------------------------------------------------------------
(* Properties. *)

\* Type correctness of the rows and of the writers' copies.
SessionTypeOK ==
  /\ row \in [Keys -> Row]
  /\ op \in [Calls -> Ops]
  /\ opened \in [Calls -> Keys \cup {None}]
  /\ mine \in [Calls -> Row]
  /\ live \in [Calls -> Row]
  /\ stage \in [Calls -> {"start", "read", "saved"}]

\* No lost update: a save is the writer's own change of the row as it is now, whatever was
\* written since the caller took its copy or the work read the row.
NoLostUpdate ==
  [][\A k \in Keys : row'[k] # row[k] =>
       \E c \in Calls : Working(c) /\ key[c] = k /\ row'[k] = Effect(c, row[k])]_row

\* A session closed by a reset stays closed: no late writer brings its own ACTIVE copy back.
ClosedForGood ==
  [][\A k \in Keys : row[k].status = "CLOSED" => row'[k].status = "CLOSED"]_row

\* Releasing never takes a pointer from another flow: a pointer disappears only through the
\* release that names it or the close of the session.
PointerTakenOnlyByOwner ==
  [][\A k \in Keys :
       row[k].task # None /\ row'[k].task # row[k].task =>
         \/ row'[k].task # None
         \/ row'[k].status = "CLOSED"
         \/ \E c \in Calls : stage'[c] # stage[c] /\ op[c] = [kind |-> "release", task |-> row[k].task]]_row

\* The comment on SessionManager.close: a CLOSED session is never re-anchored.
ClosedNeverReanchored ==
  [][\A k \in Keys :
       row[k].status = "CLOSED" => row'[k].task \in {row[k].task, None}]_row

=============================================================================
