--------------------------- MODULE TelegramPolling ---------------------------
(***************************************************************************)
(* Inbound Telegram: the poll loop of telegram-platform-adapter.ts, its    *)
(* persisted offset (apps/quoky/src/telegram/telegram-offset-store.ts) and *)
(* the Bot API's update queue.                                             *)
(*                                                                         *)
(* getUpdates with an offset deletes every update below it on the server;  *)
(* what it returns stays there until a later call names a higher offset.   *)
(* An update is handed to the runtime first; then the offset moves and is  *)
(* saved, and the process may die in between.  The parts of an album are   *)
(* held back, with the offset at the first one, until a re-poll brings no  *)
(* new part.                                                               *)
(*                                                                         *)
(* An adapter object may be stopped and started again; every start is a    *)
(* run with an abort signal of its own, and stop() gives up waiting for a  *)
(* run that is still fetching files.  JavaScript runs one step at a time,  *)
(* so an action is the code between two awaits that can really wait.       *)
(*                                                                         *)
(* An offset of 0 stands for `undefined' (update ids start at 1).          *)
(***************************************************************************)
EXTENDS Integers, FiniteSets, FiniteSetsExt

CONSTANTS
  Updates,        \* 1..n, in the order they are sent to the bot
  Kinds,          \* the kinds each update may have
  MaxParts,       \* MEDIA_GROUP_MAX_PARTS
  MaxRounds,      \* MEDIA_GROUP_MAX_ROUNDS
  Week,           \* the silent days after which the server may restart its numbering
  MaxRuns, MaxFaults, MaxCrashes     \* bounds

AllKinds == {"text", "file", "album", "other", "huge"}

ASSUME TelegramAssumption ==
  /\ Updates \subseteq Nat \ {0} /\ IsFiniteSet(Updates)
  /\ Kinds \in [Updates -> SUBSET AllKinds]
  /\ MaxParts \in Nat \ {0} /\ MaxRounds \in Nat
  /\ Week \in Nat \ {0} /\ {MaxRuns, MaxFaults, MaxCrashes} \subseteq Nat

VARIABLES
  id,          \* update_id, 0 before the update is sent
  kind,        \* what the update is
  kept,        \* the updates the server still holds
  nextId,      \* the server's next update_id
  quiet,       \* the days without an update, up to a week
  file,        \* telegram-offset.json: the offset, and whether it is older than a day
  up,          \* the process runs
  mem,         \* the adapter's fields
  group,       \* pendingGroup
  current,     \* the run this.controller belongs to, 0 = undefined
  aborted,     \* the runs whose signal is aborted
  run,         \* what the loop of each run is doing
  gate,        \* the startup identity gate of the process
  stopper,     \* where a stop() is
  handed,      \* how often each update reached the message handler
  passed,      \* updates the adapter moved past without handing them over
  expired,     \* updates the server gave up after a day
  forgotten,   \* updates handed over of which a later run may not know
  outage,      \* a silent day, or the restart of the numbering, that no poll loop watched
  swallowed,   \* updates deleted after such an outage by an offset of the earlier numbering
  runs, faults, crashes

server == <<id, kind, kept, nextId, quiet>>
history == <<handed, passed, expired, forgotten, outage, swallowed>>
counters == <<runs, faults, crashes>>
vars == <<server, file, up, mem, group, current, aborted, run, gate, stopper, history, counters>>

Runs == 1..MaxRuns

NoGroup == [parts |-> {}, last |-> 0, grew |-> FALSE, rounds |-> 0]

NoRun == [pc |-> "off", sent |-> 0, batch |-> {}, taking |-> {}]

\* A fresh adapter object.
FreshMem ==
  [offset |-> 0, saved |-> 0, confirmed |-> 0, verified |-> FALSE, halted |-> FALSE,
   stopped |-> FALSE, single |-> FALSE, silent |-> FALSE]

\* The first id: a numbering that restarts at 1 meets none of the ids used before.
FirstId == Cardinality(Updates) + 2

Init ==
  /\ id = [u \in Updates |-> 0]
  /\ kind = [u \in Updates |-> "other"]
  /\ kept = {} /\ nextId = FirstId /\ quiet = 0
  /\ file = [offset |-> 0, stale |-> FALSE]
  /\ up = FALSE /\ mem = FreshMem /\ group = NoGroup
  /\ current = 0 /\ aborted = {}
  /\ run = [r \in Runs |-> NoRun]
  /\ gate = "waiting" /\ stopper = "idle"
  /\ handed = [u \in Updates |-> 0]
  /\ passed = {} /\ expired = {} /\ forgotten = {}
  /\ outage = FALSE /\ swallowed = {}
  /\ runs = 0 /\ faults = 0 /\ crashes = 0

----------------------------------------------------------------------------
(***************************************************************************)
(* The server.                                                             *)
(***************************************************************************)
Arrived == {u \in Updates : id[u] # 0}

\* A bound: when the last run is over nobody reads what the server does.
InPlay ==
  runs < MaxRuns \/ stopper = "confirming" \/ \E r \in Runs : run[r].pc \notin {"off", "done"}

\* The owner, or anybody else, sends the bot an update.
Arrive(u, k) ==
  /\ InPlay
  /\ id[u] = 0
  /\ \A v \in Updates : v < u => id[v] # 0
  /\ id' = [id EXCEPT ![u] = nextId]
  /\ kind' = [kind EXCEPT ![u] = k]
  /\ kept' = kept \cup {u}
  /\ nextId' = nextId + 1 /\ quiet' = 0
  /\ UNCHANGED <<file, up, mem, group, current, aborted, run, gate, stopper, history, counters>>

\* What getUpdates with this offset leaves on the server.
Confirmed(offset) == {u \in kept : id[u] >= offset}

\* The server restarted its numbering and the offset is from before.
OldOffset(offset) == nextId < FirstId /\ offset >= FirstId

\* getUpdates with this offset reached the server.
Reached(offset) ==
  /\ kept' = Confirmed(offset)
  /\ swallowed' = IF outage /\ OldOffset(offset) THEN swallowed \cup (kept \ kept') ELSE swallowed

\* The first n updates of S by id, for every n the answer may stop at.
Prefixes(S) ==
  {P \in SUBSET S : \A u \in P : \A v \in S : id[v] < id[u] => v \in P}

\* The batches an answer may carry: at least one update when there is one, exactly one when
\* the limit is down to 1.
Batches(offset) ==
  LET S == Confirmed(offset)
  IN  IF S = {} THEN {{}}
      ELSE {P \in Prefixes(S) : P # {} /\ (mem.single => Cardinality(P) = 1)}

First(S) == CHOOSE u \in S : \A v \in S : id[u] <= id[v]

\* A run between two polls with no album held, or a process that is down: after a silent day the
\* next poll, or the next start, drops the offset.
AtRest ==
  ~up \/ (current # 0 /\ current \notin aborted /\ run[current].pc = "top" /\ group = NoGroup)

\* A day without updates: the server gives up what it holds; the saved offset and the last
\* update a poll loop saw are now more than a day old.
Silence ==
  /\ InPlay
  /\ Arrived # {}
  /\ quiet < Week /\ quiet' = quiet + 1
  /\ outage' = (outage \/ ~AtRest)
  /\ kept' = {} /\ expired' = expired \cup kept
  /\ file' = [file EXCEPT !.stale = TRUE]
  /\ mem' = [mem EXCEPT !.silent = current # 0 /\ run[current].pc # "verify"]
  /\ UNCHANGED <<id, kind, nextId, up, group, current, aborted, run, gate, stopper>>
  /\ UNCHANGED <<handed, passed, forgotten, swallowed, counters>>

\* After a week of silence the server may restart its numbering.
Renumber ==
  /\ InPlay
  /\ quiet = Week /\ nextId > FirstId
  /\ nextId' = 1
  /\ outage' = (outage \/ mem.silent)   \* the loop has not polled since the silent day
  /\ UNCHANGED <<id, kind, kept, quiet, file, up, mem, group, current, aborted, run, gate>>
  /\ UNCHANGED <<stopper, handed, passed, expired, forgotten, swallowed, counters>>

----------------------------------------------------------------------------
(***************************************************************************)
(* Start, identity check and stop.                                         *)
(***************************************************************************)

\* loadOffset, called when the adapter m has no offset.  A file more than a day old is ignored.  So
\* is one that is missing, unreadable, corrupt, of another bot or version or from the future, and
\* then what was handed over and is not confirmed yet is not known to this run.
LoadOffset(m) ==
  \/ /\ m.offset # 0 \/ file.stale
     /\ mem' = m /\ UNCHANGED <<forgotten, faults>>
  \/ /\ m.offset = 0 /\ ~file.stale
     /\ mem' = [m EXCEPT !.offset = file.offset,
                         !.saved = IF file.offset # 0 THEN file.offset ELSE @]
     /\ UNCHANGED <<forgotten, faults>>
  \/ /\ m.offset = 0 /\ ~file.stale
     /\ faults < MaxFaults /\ faults' = faults + 1
     /\ mem' = m
     /\ forgotten' = forgotten \cup {u \in kept : handed[u] > 0}

\* start(): in a new process, or on the adapter of this one after a stop.
Start ==
  /\ runs < MaxRuns /\ runs' = runs + 1
  /\ current = 0 /\ stopper = "idle"
  /\ LoadOffset([(IF up THEN mem ELSE FreshMem) EXCEPT
                    !.stopped = FALSE, !.halted = FALSE, !.verified = FALSE])
  /\ up' = TRUE
  /\ gate' = IF up THEN gate ELSE "waiting"
  /\ group' = NoGroup
  /\ current' = runs + 1
  /\ run' = [run EXCEPT ![runs + 1].pc = "verify"]
  /\ outage' = (outage \/ mem.silent)   \* start() forgets when the last update came
  /\ UNCHANGED <<server, file, aborted, stopper, handed, passed, expired, swallowed, crashes>>

\* The loop of r is at pc, with no call or batch in hand.
To(r, pc) == run' = [run EXCEPT ![r] = [NoRun EXCEPT !.pc = pc]]

Ended(r) == To(r, "done")

\* startUp and verifyInBackground: getMe and the conflict probe answer, refuse, or the run was
\* stopped meanwhile.  A failed attempt is retried and changes nothing.
Verify(r) ==
  /\ run[r].pc = "verify"
  /\ \/ r \in aborted /\ Ended(r) /\ UNCHANGED mem
     \/ /\ r \notin aborted
        /\ mem' = [mem EXCEPT !.verified = TRUE, !.silent = FALSE]
        /\ To(r, "top")
     \/ r \notin aborted /\ mem' = [mem EXCEPT !.halted = TRUE] /\ Ended(r)
  /\ UNCHANGED <<server, file, up, group, current, aborted, gate, stopper, history, counters>>

ResolveGate(open) ==
  /\ up /\ gate = "waiting"
  /\ gate' = IF open THEN "open" ELSE "closed"
  /\ UNCHANGED <<server, file, up, mem, group, current, aborted, run, stopper, history, counters>>

\* A variant of StopCall: the run's signal is not aborted.
StopCallNoAbort ==
  /\ up /\ stopper = "idle" /\ current # 0
  /\ stopper' = "settling"
  /\ mem' = [mem EXCEPT !.stopped = TRUE]
  /\ UNCHANGED <<server, file, up, group, current, aborted, run, gate, history, counters>>

\* stop(): aborts the run and waits for its loop.
StopCall ==
  /\ up /\ stopper = "idle" /\ current # 0
  /\ stopper' = "settling"
  /\ mem' = [mem EXCEPT !.stopped = TRUE]
  /\ aborted' = aborted \cup {current}
  /\ UNCHANGED <<server, file, up, group, current, run, gate, history, counters>>

\* The loop settled, or the bound of stopSettleMs passed while it fetches files.
StopSettled ==
  /\ stopper = "settling"
  /\ run[current].pc \in {"done", "intake"}
  /\ current' = 0
  /\ group' = NoGroup
  /\ stopper' = IF /\ mem.verified /\ ~mem.halted
                   /\ mem.offset # 0 /\ mem.offset # mem.confirmed
                THEN "confirming" ELSE "idle"
  /\ UNCHANGED <<server, file, up, mem, aborted, run, gate, history, counters>>

\* The last getUpdates of stop(), answered or lost on either way.
StopConfirm ==
  /\ stopper = "confirming" /\ stopper' = "idle"
  /\ \/ Reached(mem.offset) /\ mem' = [mem EXCEPT !.confirmed = mem.offset]
     \/ Reached(mem.offset) /\ UNCHANGED mem
     \/ UNCHANGED <<kept, swallowed, mem>>
  /\ UNCHANGED <<id, kind, nextId, quiet, file, up, group, current, aborted, run, gate>>
  /\ UNCHANGED <<handed, passed, expired, forgotten, outage, counters>>

\* The process ends without a stop, or after one.  What was handed over before the offset moved is
\* not known to the next one.
Crash ==
  /\ up
  /\ crashes < MaxCrashes /\ crashes' = crashes + 1
  /\ up' = FALSE /\ mem' = FreshMem /\ group' = NoGroup
  /\ current' = 0 /\ UNCHANGED aborted
  /\ run' = [r \in Runs |-> IF run[r].pc = "off" THEN NoRun ELSE [NoRun EXCEPT !.pc = "done"]]
  /\ gate' = "waiting" /\ stopper' = "idle"
  /\ forgotten' = forgotten \cup
                   UNION {run[r].taking : r \in {q \in Runs : run[q].pc = "handed"}}
  /\ UNCHANGED <<server, file, handed, passed, expired, outage, swallowed, runs, faults>>

----------------------------------------------------------------------------
(***************************************************************************)
(* One poll.                                                               *)
(***************************************************************************)

\* persistOffset with the offset at m.offset: skipped when nothing moved; a save may fail.
Persist(m, us) ==
  \/ /\ m.offset = 0 \/ m.offset = m.saved
     /\ mem' = m /\ UNCHANGED <<file, forgotten, faults>>
  \/ /\ m.offset # 0 /\ m.offset # m.saved
     /\ mem' = [m EXCEPT !.saved = m.offset]
     /\ file' = [offset |-> m.offset, stale |-> FALSE]
     /\ UNCHANGED <<forgotten, faults>>
  \/ /\ m.offset # 0 /\ m.offset # m.saved
     /\ faults < MaxFaults /\ faults' = faults + 1
     /\ mem' = m
     /\ forgotten' = forgotten \cup us
     /\ UNCHANGED file

\* A variant of PollStart: the offset is kept over a silent day.
PollStartKeeping(r) ==
  /\ run[r].pc = "top"
  /\ \/ r \in aborted /\ Ended(r) /\ UNCHANGED mem
     \/ /\ r \notin aborted
        /\ mem' = [mem EXCEPT !.silent = FALSE]
        /\ run' = [run EXCEPT ![r].pc = "polling", ![r].sent = mem.offset]
  /\ UNCHANGED <<server, file, up, group, current, aborted, gate, stopper, history, counters>>

\* The loop sends getUpdates, after a silent day without an offset.
PollStart(r) ==
  /\ run[r].pc = "top"
  /\ \/ r \in aborted /\ Ended(r) /\ UNCHANGED mem
     \/ /\ r \notin aborted
        /\ mem' = [mem EXCEPT !.offset = IF mem.silent THEN 0 ELSE @, !.silent = FALSE]
        /\ run' = [run EXCEPT ![r].pc = "polling", ![r].sent = mem'.offset]
  /\ UNCHANGED <<server, file, up, group, current, aborted, gate, stopper, history, counters>>

\* An answer that fits the bound.  A stopped run acts on nothing it received, but the server
\* has dropped what the offset confirmed.
Answer(r) ==
  /\ run[r].pc = "polling"
  /\ Reached(run[r].sent)
  /\ \E B \in Batches(run[r].sent) :
       /\ \A u \in B : kind[u] # "huge"
       /\ IF r \in aborted
          THEN Ended(r) /\ UNCHANGED mem
          ELSE /\ run' = [run EXCEPT ![r] = [NoRun EXCEPT !.pc = "batch", !.batch = B]]
               /\ mem' = [mem EXCEPT !.single = FALSE, !.silent = @ /\ B = {},
                            !.confirmed = IF run[r].sent # 0 THEN run[r].sent ELSE @]
  /\ UNCHANGED <<id, kind, nextId, quiet, file, up, group, current, aborted, gate, stopper>>
  /\ UNCHANGED <<handed, passed, expired, forgotten, outage, counters>>

\* A variant of TooLarge: a single update over the bound is never skipped.
TooLargeStuck(r) ==
  /\ run[r].pc = "polling" /\ r \notin aborted
  /\ Reached(run[r].sent)
  /\ \E B \in Batches(run[r].sent) : \E u \in B : kind[u] = "huge"
  /\ mem' = [mem EXCEPT !.single = TRUE]
  /\ To(r, "top")
  /\ UNCHANGED <<id, kind, nextId, quiet, file, up, group, current, aborted, gate, stopper>>
  /\ UNCHANGED <<handed, passed, expired, forgotten, outage, counters>>

\* shrinkOrSkip: an answer over the bound is asked for again in smaller batches; a single
\* update over it is skipped when the offset is known.
TooLarge(r) ==
  /\ run[r].pc = "polling" /\ r \notin aborted
  /\ Reached(run[r].sent)
  /\ \E B \in Batches(run[r].sent) :
       /\ \E u \in B : kind[u] = "huge"
       /\ To(r, "top")
       /\ \/ ~mem.single /\ mem' = [mem EXCEPT !.single = TRUE]
             /\ UNCHANGED <<file, passed, forgotten, faults>>
          \/ mem.single /\ mem.offset = 0 /\ UNCHANGED <<mem, file, passed, forgotten, faults>>
          \/ /\ mem.single /\ mem.offset # 0
             /\ passed' = passed \cup {u \in B : id[u] = mem.offset}
             /\ Persist([mem EXCEPT !.offset = @ + 1], {})
  /\ UNCHANGED <<id, kind, nextId, quiet, up, group, current, aborted, gate, stopper>>
  /\ UNCHANGED <<handed, expired, outage, runs, crashes>>

\* The call fails, before or after the server saw it: the loop backs off and polls again.
PollFails(r) ==
  /\ run[r].pc = "polling" /\ r \notin aborted
  /\ faults < MaxFaults /\ faults' = faults + 1
  /\ Reached(run[r].sent) \/ UNCHANGED <<kept, swallowed>>
  /\ To(r, "top")
  /\ UNCHANGED <<id, kind, nextId, quiet, file, up, mem, group, current, aborted, gate, stopper>>
  /\ UNCHANGED <<handed, passed, expired, forgotten, outage, runs, crashes>>

\* The abort ends a call in flight; a 401 or repeated 409s halt the Telegram side.
PollEnds(r) ==
  /\ run[r].pc = "polling"
  /\ Ended(r)
  /\ mem' = IF r \in aborted THEN mem ELSE [mem EXCEPT !.halted = TRUE]
  /\ UNCHANGED <<server, file, up, group, current, aborted, gate, stopper, history, counters>>

----------------------------------------------------------------------------
(***************************************************************************)
(* handleBatch.                                                            *)
(***************************************************************************)
\* A variant of HandOverClosed: the adapter's flags are checked, the run's own signal is not.
HandOverClosedNow(r) == ~mem.verified \/ mem.halted \/ mem.stopped

HandOverClosed(r) == r \in aborted \/ ~mem.verified \/ mem.halted \/ mem.stopped

\* Already handed over or dropped, or a held album part that was sent again.
Repeated(u) ==
  \/ mem.offset # 0 /\ id[u] < mem.offset
  \/ group # NoGroup /\ id[u] <= group.last

Joins(u) ==
  kind[u] = "album" /\ group # NoGroup /\ Cardinality(group.parts) < MaxParts

\* The batch reached something that waits for the gate: an album to flush, or an admitted
\* message or reaction.
AlbumComplete == group # NoGroup /\ (~group.grew \/ group.rounds >= MaxRounds)

AtGate(r) ==
  IF run[r].batch = {} THEN AlbumComplete
  ELSE LET u == First(run[r].batch)
       IN  ~Repeated(u) /\ ~Joins(u) /\ (group # NoGroup \/ kind[u] \in {"text", "file"})

\* The run is stopped, or the gate is closed: the batch ends there and the offset stays.  An
\* album that waited is forgotten; its parts are unconfirmed.
Abandon(r) ==
  /\ run[r].pc = "batch"
  /\ r \in aborted \/ (gate = "closed" /\ AtGate(r))
  /\ Ended(r)
  /\ group' = NoGroup
  /\ UNCHANGED <<server, file, up, mem, current, aborted, gate, stopper, history, counters>>

\* Nothing of this update is processed.
SkipRepeated(r, u) ==
  /\ Repeated(u)
  /\ run' = [run EXCEPT ![r].batch = @ \ {u}]
  /\ UNCHANGED <<server, file, mem, group, history, faults>>

\* joinPendingGroup, or a first part that starts a group.
CollectPart(r, u) ==
  /\ ~Repeated(u) /\ kind[u] = "album"
  /\ Joins(u) \/ group = NoGroup
  /\ group' = [parts |-> group.parts \cup {u}, last |-> id[u], grew |-> TRUE,
               rounds |-> group.rounds]
  /\ run' = [run EXCEPT ![r].batch = @ \ {u}]
  /\ UNCHANGED <<server, file, mem, history, faults>>

\* flushPendingGroup takes the album and fetches its files; the batch goes on afterwards.
TakeAlbum(r) ==
  /\ gate = "open" /\ ~HandOverClosed(r)
  /\ run' = [run EXCEPT ![r].pc = "intake", ![r].taking = group.parts]
  /\ group' = NoGroup
  /\ UNCHANGED <<server, file, mem, history, faults>>

\* The loop meets what cannot join the collected album: the album goes first.
FlushFirst(r, u) ==
  /\ ~Repeated(u) /\ group # NoGroup /\ ~Joins(u)
  /\ TakeAlbum(r)

HandCount(us) == [u \in Updates |-> IF u \in us THEN handed[u] + 1 ELSE handed[u]]

\* A message without files, or a reaction: the handler is called.
HandText(r, u) ==
  /\ ~Repeated(u) /\ group = NoGroup /\ kind[u] = "text"
  /\ gate = "open" /\ ~HandOverClosed(r)
  /\ handed' = HandCount({u})
  /\ run' = [run EXCEPT ![r].pc = "handed", ![r].taking = {u}]
  /\ UNCHANGED <<server, file, mem, group, passed, expired, forgotten, outage, swallowed, faults>>

\* A variant of FetchFiles: a held album is not handed over first.
FetchFilesNow(r, u) ==
  /\ ~Repeated(u) /\ kind[u] = "file"
  /\ gate = "open" /\ ~HandOverClosed(r)
  /\ run' = [run EXCEPT ![r].pc = "intake", ![r].taking = {u}]
  /\ UNCHANGED <<server, file, mem, group, history, faults>>

\* A message with files waits for its intake; the offset stays.
FetchFiles(r, u) ==
  /\ ~Repeated(u) /\ group = NoGroup /\ kind[u] = "file"
  /\ gate = "open" /\ ~HandOverClosed(r)
  /\ run' = [run EXCEPT ![r].pc = "intake", ![r].taking = {u}]
  /\ UNCHANGED <<server, file, mem, group, history, faults>>

\* An update admission refuses moves the offset in memory only.
Drop(r, u) ==
  /\ ~Repeated(u) /\ group = NoGroup /\ kind[u] = "other"
  /\ passed' = passed \cup {u}
  /\ mem' = [mem EXCEPT !.offset = id[u] + 1]
  /\ run' = [run EXCEPT ![r].batch = @ \ {u}]
  /\ UNCHANGED <<server, file, group, handed, expired, forgotten, outage, swallowed, faults>>

HandleNext(r) ==
  /\ run[r].pc = "batch" /\ run[r].batch # {} /\ r \notin aborted
  /\ LET u == First(run[r].batch)
     IN  \/ SkipRepeated(r, u) \/ CollectPart(r, u) \/ FlushFirst(r, u)
         \/ HandText(r, u) \/ FetchFiles(r, u) \/ Drop(r, u)
  /\ UNCHANGED <<up, current, aborted, gate, stopper, runs, crashes>>

\* The files are there or given up: the handler is called.  A run that was stopped meanwhile hands
\* nothing over.
IntakeDone(r) ==
  /\ run[r].pc = "intake"
  /\ \/ HandOverClosed(r) /\ Ended(r) /\ UNCHANGED handed
     \/ /\ ~HandOverClosed(r)
        /\ handed' = HandCount(run[r].taking)
        /\ run' = [run EXCEPT ![r].pc = "handed"]
  /\ UNCHANGED <<server, file, up, mem, group, current, aborted, gate, stopper, counters>>
  /\ UNCHANGED <<passed, expired, forgotten, outage, swallowed>>

\* The continuation of handOver: the offset moves past what was handed over and is saved, also
\* when the handler has stopped the adapter meanwhile.
Advance(r) ==
  /\ run[r].pc = "handed"
  /\ run' = [run EXCEPT ![r].pc = "batch", ![r].batch = @ \ run[r].taking, ![r].taking = {}]
  /\ Persist([mem EXCEPT !.offset = Max({id[u] : u \in run[r].taking}) + 1], run[r].taking)
  /\ UNCHANGED <<server, up, group, current, aborted, gate, stopper, runs, crashes>>
  /\ UNCHANGED <<handed, passed, expired, outage, swallowed>>

\* The end of the batch: an album that stopped growing is handed over, one that grew is polled
\* for again; the offset is saved.
EndBatch(r) ==
  /\ run[r].pc = "batch" /\ run[r].batch = {} /\ r \notin aborted
  /\ \/ AlbumComplete /\ TakeAlbum(r)
     \/ /\ ~AlbumComplete
        /\ group' = IF group = NoGroup THEN NoGroup
                    ELSE [group EXCEPT !.grew = FALSE, !.rounds = @ + 1]
        /\ Persist(mem, {})
        /\ To(r, "top")
        /\ UNCHANGED <<server, handed, passed, expired, outage, swallowed>>
  /\ UNCHANGED <<up, current, aborted, gate, stopper, runs, crashes>>

----------------------------------------------------------------------------

Loop(r) ==
  \/ Verify(r) \/ PollStart(r) \/ Answer(r) \/ TooLarge(r) \/ PollFails(r) \/ PollEnds(r)
  \/ Abandon(r) \/ HandleNext(r) \/ IntakeDone(r) \/ Advance(r) \/ EndBatch(r)

Next ==
  \/ \E u \in Updates : \E k \in Kinds[u] : Arrive(u, k)
  \/ Silence \/ Renumber \/ Start \/ StopCall \/ StopSettled \/ StopConfirm \/ Crash
  \/ \E open \in BOOLEAN : ResolveGate(open)
  \/ \E r \in Runs : Loop(r)

Spec == Init /\ [][Next]_vars

\* What the code's scheduling gives: a loop at an await that settles goes on (calls and sleeps
\* are bounded by timeouts), the gate resolves, a stop runs to its end.
FairSpec ==
  /\ Spec
  /\ \A r \in Runs : WF_vars(Loop(r))
  /\ WF_vars(\E open \in BOOLEAN : ResolveGate(open))
  /\ WF_vars(StopSettled) /\ WF_vars(StopConfirm)

----------------------------------------------------------------------------
(***************************************************************************)
(* Properties.                                                             *)
(***************************************************************************)

\* The types of the variables; a held album is never empty, and at most one run of the adapter
\* is not aborted.
TypeOK ==
  /\ id \in [Updates -> Nat] /\ kind \in [Updates -> AllKinds]
  /\ kept \subseteq Updates /\ nextId \in Nat \ {0} /\ quiet \in 0..Week
  /\ file \in [offset : Nat, stale : BOOLEAN]
  /\ up \in BOOLEAN
  /\ mem \in [offset : Nat, saved : Nat, confirmed : Nat, verified : BOOLEAN,
              halted : BOOLEAN, stopped : BOOLEAN, single : BOOLEAN, silent : BOOLEAN]
  /\ group \in [parts : SUBSET Updates, last : Nat, grew : BOOLEAN, rounds : 0..MaxRounds + 1]
  /\ group.parts = {} => group = NoGroup
  /\ current \in 0..MaxRuns /\ aborted \subseteq Runs
  /\ run \in [Runs -> [pc : {"off", "verify", "top", "polling", "batch", "intake", "handed", "done"},
                      sent : Nat, batch : SUBSET Updates, taking : SUBSET Updates]]
  /\ gate \in {"waiting", "open", "closed"}
  /\ stopper \in {"idle", "settling", "confirming"}
  /\ handed \in [Updates -> Nat]
  /\ passed \cup expired \cup forgotten \cup swallowed \subseteq Updates /\ outage \in BOOLEAN
  /\ \A r \in Runs : run[r].pc \notin {"off", "done"} => r = current \/ r \in aborted

Settled(u) == handed[u] > 0 \/ u \in passed

\* No update disappears: what the server no longer holds was handed to the runtime or counted
\* as dropped, unless it waited for more than a day.  It is the promise behind confirming only
\* what was handed over (handleBatch, persistOffset, the album held back by the offset, the
\* offset dropped after a silent day, the confirmation in stop()).  The one exception is an update
\* in a new numbering that an offset of the old one deletes, after a silent day that fell where
\* poll() does not measure silence: an identity outage, a stopped adapter, a suspended call, an
\* album or a batch in hand.
NothingLost ==
  \A u \in Arrived : u \notin kept /\ u \notin expired => Settled(u) \/ u \in swallowed

\* "a stored offset older than this is never used" (telegram-offset-store.ts), because the server
\* may have restarted its numbering "from a random LOWER value, which a stored higher offset would
\* swallow for good": a poll with the stored offset, once it is more than a day old, deletes no
\* update that was not handed over.  The code does not keep it: load() looks at the age only at a
\* start, start() keeps the offset of a stopped adapter, and poll() measures silence from its own
\* start, so an identity outage between the two goes unseen.
StaleOffsetSwallowsNothing ==
  [][\A r \in Runs :
       run[r].pc = "top" /\ run'[r].pc = "polling" /\ file.stale /\ run'[r].sent = file.offset
         => \A u \in kept : Settled(u) \/ run'[r].sent <= id[u]]_vars

\* An update reaches the message handler at most once over all restarts, crashes and lost
\* answers ("the turn is never handed over twice", handleBatch), with three exceptions that the
\* comment does not name: the process died between the hand-over and the move of the offset, the
\* file could not be written, or it could not be used at a later start.
AtMostOnce == \A u \in Updates : handed[u] > 1 => u \in forgotten

\* The runtime sees the owner's messages in the order they were sent: when an update is handed
\* over for the first time, none sent after it was handed over before (albums are held back and
\* flushed first, files are fetched in line).
InOrder ==
  [][\A u \in Updates : handed[u] = 0 /\ handed'[u] > 0 =>
        \A v \in Updates : v > u => handed[v] = 0]_vars

\* Polling goes on: the process is up, its run is neither stopped nor halted, the gate is not
\* closed, and no update over the size bound comes first while there is no offset to skip it.
Serving ==
  /\ up /\ current # 0 /\ current \notin aborted /\ ~mem.halted /\ gate # "closed"
  /\ ~(mem.offset = 0 /\ kept # {} /\ kind[First(kept)] = "huge")

\* While polling goes on every update is handed over, dropped or expires: neither a held album
\* nor repeated entries nor an oversized update makes the loop spin without progress.  (An update
\* that NothingLost excepts is gone.  Updates is finite, so the last one arrives at some point.)
Delivered ==
  <>[]Serving => <>[](\A u \in Arrived : Settled(u) \/ u \in expired \/ u \in swallowed)

=============================================================================
