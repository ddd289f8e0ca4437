---------------------------- MODULE InstanceLock ----------------------------
(***************************************************************************)
(* The single-instance lock beside the database                            *)
(* (apps/quoky/src/ops/instance-lock.ts): one process may own a database,  *)
(* decided before storage is opened and given up in the exit handler.      *)
(*                                                                         *)
(* The lock is a directory of generation files.  A file is created         *)
(* exclusively and never rewritten; the highest one is the lock's state.   *)
(* Every file-system call is a step of its own, since the contenders are   *)
(* operating-system processes.  A listing of the few files is one          *)
(* directory read.                                                         *)
(*                                                                         *)
(* A member of Procs is one start of the program; process numbers are      *)
(* reused.  A listing, a write or a link that throws in acquire ends the   *)
(* process (INSTANCE_LOCK_UNAVAILABLE), which is what Crash does.  A read  *)
(* that throws costs a round, and a failed unlink or clean-up listing is   *)
(* ignored.  A call that throws in release gives the release up, and the   *)
(* process is in its exit handler: Crash again.                            *)
(***************************************************************************)
EXTENDS Integers, FiniteSets

CONSTANTS
  Procs,          \* the starts of the program
  Pids,           \* process numbers
  MaxRounds,      \* MAX_ROUNDS
  MaxFaults, MaxReboots       \* bounds

ASSUME LockAssumption ==
  /\ MaxRounds \in Nat \ {0}
  /\ MaxFaults \in Nat /\ MaxReboots \in Nat /\ 0 \notin Pids

Unknown == 0      \* a boot id that could not be read
NoPid == 0

VARIABLES
  files,      \* the generation files
  boot,       \* the boot id of the host
  pc,         \* where each process is
  pid,        \* its process number
  bootId,     \* the boot id it read, or Unknown
  mine,       \* the generation it tries to create, or has created
  round,      \* rounds of the acquire loop it has used up
  todo,       \* generations it listed and still has to unlink
  beaten,     \* history: who saw a new generation since its last listing
  faults,     \* crashes, failed calls and numbers of dead owners that other programs have
  reboots

vars ==
  <<files, boot, pc, pid, bootId, mine, round, todo, beaten, faults, reboots>>

self == <<pid, bootId>>

Starting == {"list", "read", "create", "verify", "backoff"}

\* From a successful verification to the marker that gives the lock up.
Owning == {"collect", "owner", "readOwn", "mark"}

Live(p) == pc[p] \notin {"off", "ended"}

Init ==
  /\ files = {} /\ boot = 1
  /\ pc = [p \in Procs |-> "off"]
  /\ pid = [p \in Procs |-> NoPid]
  /\ bootId = [p \in Procs |-> Unknown]
  /\ mine = [p \in Procs |-> 0]
  /\ round = [p \in Procs |-> 0]
  /\ todo = [p \in Procs |-> {}]
  /\ beaten = {}
  /\ faults = 0 /\ reboots = 0

----------------------------------------------------------------------------

At(p, label) == pc' = [pc EXCEPT ![p] = label]

Fault == faults < MaxFaults /\ faults' = faults + 1

\* highestGeneration: 0 when there is none.
Top(n) ==
  \/ n = 0 /\ files = {}
  \/ (\E f \in files : f.gen = n) /\ (\A f \in files : f.gen <= n)

Generations == {f.gen : f \in files}

Exists(n) == n \in Generations

Held(p) ==
  [gen |-> mine[p], state |-> "held", pid |-> pid[p], bootId |-> bootId[p], owner |-> p]

Marker(p) ==
  [gen |-> mine[p] + 1, state |-> "released", pid |-> pid[p], bootId |-> Unknown, owner |-> p]

\* createGeneration: O_EXCL through a hard link.  The listings of all others are now out of date.
CreateGeneration(p, f) ==
  /\ files' = files \cup {f}
  /\ beaten' = beaten \cup {q \in Procs \ {p} : pc[q] \in Starting}

\* removeQuietly: the file stays if that fails.
Remove(n) ==
  \/ files' = {f \in files : f.gen # n} /\ UNCHANGED faults
  \/ UNCHANGED files /\ Fault

\* The loop goes on, or gives up as INSTANCE_ALREADY_RUNNING.
NextRound(p) ==
  /\ round' = [round EXCEPT ![p] = @ + 1]
  /\ At(p, IF round[p] + 1 < MaxRounds THEN "list" ELSE "leaving")

----------------------------------------------------------------------------
(* Acquire *)

\* A process gets a number no live one has, and reads the boot id if it can.
Start(p) ==
  /\ pc[p] = "off"
  /\ \E n \in Pids :
       /\ \A q \in Procs : Live(q) => pid[q] # n
       /\ pid' = [pid EXCEPT ![p] = n]
  /\ \/ bootId' = [bootId EXCEPT ![p] = boot] /\ UNCHANGED faults
     \/ UNCHANGED bootId /\ Fault
  /\ At(p, "list")
  /\ UNCHANGED <<files, boot, mine, round, todo, beaten, reboots>>

\* A variant of List that reuses the highest name.
ListReuse(p) ==
  /\ pc[p] = "list"
  /\ \E n \in Generations \cup {0} :
       /\ Top(n)
       /\ mine' = [mine EXCEPT ![p] = n]
       /\ At(p, IF n = 0 THEN "create" ELSE "read")
  /\ beaten' = beaten \ {p}
  /\ UNCHANGED <<files, boot, self, round, todo, faults, reboots>>

List(p) ==
  /\ pc[p] = "list"
  /\ \E n \in Generations \cup {0} :
       /\ Top(n)
       /\ mine' = [mine EXCEPT ![p] = n + 1]
       /\ At(p, IF n = 0 THEN "create" ELSE "read")
  /\ beaten' = beaten \ {p}
  /\ UNCHANGED <<files, boot, self, round, todo, faults, reboots>>

\* The file is gone: it was superseded, look again.
ReadVanished(p) ==
  /\ pc[p] = "read" /\ ~Exists(mine[p] - 1)
  /\ NextRound(p)
  /\ UNCHANGED <<files, boot, self, mine, todo, beaten, faults, reboots>>

\* readOrUndefined: a file that is there and cannot be read is taken for one that is gone.
ReadFails(p) ==
  /\ pc[p] = "read" /\ Exists(mine[p] - 1) /\ Fault
  /\ NextRound(p)
  /\ UNCHANGED <<files, boot, self, mine, todo, beaten, reboots>>

Running(n) == \E q \in Procs : Live(q) /\ pid[q] = n

\* isFree, with the answer of kill(pid, 0).
IsFree(f, p, alive) ==
  \/ f.state # "held"
  \/ f.pid = pid[p]
  \/ ~alive
  \/ f.bootId # Unknown /\ bootId[p] # Unknown /\ f.bootId # bootId[p]

\* The number of an owner that is gone may belong to another program by now.
Read(p) ==
  /\ pc[p] = "read"
  /\ \E f \in files :
       /\ f.gen = mine[p] - 1
       /\ \/ /\ At(p, IF IsFree(f, p, Running(f.pid)) THEN "create" ELSE "leaving")
             /\ UNCHANGED faults
          \/ /\ ~Running(f.pid) /\ ~IsFree(f, p, TRUE) /\ Fault
             /\ At(p, "leaving")
  /\ UNCHANGED <<files, boot, self, mine, round, todo, beaten, reboots>>

Create(p) ==
  /\ pc[p] = "create" /\ ~Exists(mine[p])
  /\ CreateGeneration(p, Held(p))
  /\ At(p, "verify")
  /\ UNCHANGED <<boot, self, mine, round, todo, faults, reboots>>

\* EEXIST: another starter won this generation, judge it next.
CreateLost(p) ==
  /\ pc[p] = "create" /\ Exists(mine[p])
  /\ NextRound(p)
  /\ UNCHANGED <<files, boot, self, mine, todo, beaten, faults, reboots>>

\* Variants of Verify: without the second listing, and one that takes its own file for a higher one.
VerifyNothing(p) ==
  /\ pc[p] = "verify"
  /\ At(p, "collect") /\ beaten' = beaten \ {p}
  /\ UNCHANGED <<files, boot, self, mine, round, todo, faults, reboots>>

VerifyOwn(p) ==
  /\ pc[p] = "verify"
  /\ At(p, "backoff")
  /\ UNCHANGED <<files, boot, self, mine, round, todo, beaten, faults, reboots>>

\* The second listing: with a higher generation there, ours reused a collected name.
Verify(p) ==
  /\ pc[p] = "verify"
  /\ IF \E n \in Generations : n > mine[p]
     THEN At(p, "backoff") /\ UNCHANGED beaten
     ELSE At(p, "collect") /\ beaten' = beaten \ {p}
  /\ UNCHANGED <<files, boot, self, mine, round, todo, faults, reboots>>

Backoff(p) ==
  /\ pc[p] = "backoff"
  /\ Remove(mine[p])
  /\ NextRound(p)
  /\ UNCHANGED <<boot, self, mine, todo, beaten, reboots>>

\* A variant of Below that collects the current generation too.
BelowInclusive(p, n, next) ==
  /\ todo' = [todo EXCEPT ![p] = {g \in Generations : g <= n}]
  /\ At(p, next)
  /\ UNCHANGED <<files, boot, self, mine, round, beaten, faults, reboots>>

\* removeGenerationsBelow: a listing, or nothing if it throws; then an unlink for each.
Below(p, n, next) ==
  /\ \/ todo' = [todo EXCEPT ![p] = {g \in Generations : g < n}] /\ UNCHANGED faults
     \/ UNCHANGED todo /\ Fault
  /\ At(p, next)
  /\ UNCHANGED <<files, boot, self, mine, round, beaten, reboots>>

Collect(p) == pc[p] = "collect" /\ Below(p, mine[p], "owner")

Unlink(p) ==
  /\ \E g \in todo[p] :
       /\ Remove(g)
       /\ todo' = [todo EXCEPT ![p] = @ \ {g}]
  /\ UNCHANGED <<boot, pc, self, mine, round, beaten, reboots>>

----------------------------------------------------------------------------
(* Release, in the exit handler *)

\* highestGeneration: a lock that is not ours any more is left alone.
Exit(p) ==
  /\ pc[p] = "owner" /\ todo[p] = {}
  /\ At(p, IF Top(mine[p]) THEN "readOwn" ELSE "leaving")
  /\ UNCHANGED <<files, boot, self, mine, round, todo, beaten, faults, reboots>>

\* The token tells whose generation it is.
ReadOwn(p) ==
  /\ pc[p] = "readOwn"
  /\ At(p, IF Held(p) \in files THEN "mark" ELSE "leaving")
  /\ UNCHANGED <<files, boot, self, mine, round, todo, beaten, faults, reboots>>

Mark(p) ==
  /\ pc[p] = "mark"
  /\ IF Exists(mine[p] + 1) THEN At(p, "leaving") /\ UNCHANGED <<files, beaten>>
     ELSE CreateGeneration(p, Marker(p)) /\ At(p, "marked")
  /\ UNCHANGED <<boot, self, mine, round, todo, faults, reboots>>

CollectReleased(p) == pc[p] = "marked" /\ Below(p, mine[p] + 1, "leaving")

\* What a process leaves behind: nothing but its files.
Ended(P) ==
  /\ pc' = [p \in Procs |-> IF p \in P THEN "ended" ELSE pc[p]]
  /\ pid' = [p \in Procs |-> IF p \in P THEN NoPid ELSE pid[p]]
  /\ bootId' = [p \in Procs |-> IF p \in P THEN Unknown ELSE bootId[p]]
  /\ mine' = [p \in Procs |-> IF p \in P THEN 0 ELSE mine[p]]
  /\ round' = [p \in Procs |-> IF p \in P THEN 0 ELSE round[p]]
  /\ todo' = [p \in Procs |-> IF p \in P THEN {} ELSE todo[p]]
  /\ beaten' = beaten \ P

End(p) ==
  /\ pc[p] = "leaving" /\ todo[p] = {}
  /\ Ended({p})
  /\ UNCHANGED <<files, boot, faults, reboots>>

----------------------------------------------------------------------------
(* The host *)

Crash(p) ==
  /\ Live(p) /\ Fault
  /\ Ended({p})
  /\ UNCHANGED <<files, boot, reboots>>

Corrupt(f) == [f EXCEPT !.state = "corrupt"]

\* The host goes down and comes up again.  Nothing was synced: a file may be gone or unreadable.
Reboot ==
  /\ reboots < MaxReboots
  /\ reboots' = reboots + 1
  /\ boot' = boot + 1
  /\ Ended({p \in Procs : Live(p)})
  /\ \E kept \in SUBSET files : \E bad \in SUBSET kept :
       files' = (kept \ bad) \cup {Corrupt(f) : f \in bad}
  /\ UNCHANGED faults

Step(p) ==
  \/ List(p) \/ ReadVanished(p) \/ Read(p) \/ Create(p) \/ CreateLost(p) \/ Verify(p)
  \/ Backoff(p) \/ Collect(p) \/ Unlink(p)
  \/ ReadOwn(p) \/ Mark(p) \/ CollectReleased(p) \/ End(p)

Next ==
  \/ \E p \in Procs : Start(p) \/ Step(p) \/ ReadFails(p) \/ Exit(p) \/ Crash(p)
  \/ Reboot

Spec == Init /\ [][Next]_vars

\* A process that runs makes its next file-system call.  Starts, exits and faults are not fair.
FairSpec == Spec /\ \A p \in Procs : WF_vars(Step(p))

----------------------------------------------------------------------------
(* Properties *)

Record ==
  [gen : Nat \ {0}, state : {"held", "released", "corrupt"}, pid : Pids, bootId : Nat,
   owner : Procs]

\* The values of the variables.
TypeOK ==
  /\ files \subseteq Record
  /\ boot \in Nat \ {0}
  /\ pc \in [Procs -> Starting \cup Owning \cup {"off", "marked", "leaving", "ended"}]
  /\ pid \in [Procs -> Pids \cup {NoPid}] /\ bootId \in [Procs -> Nat]
  /\ mine \in [Procs -> Nat] /\ round \in [Procs -> Nat]
  /\ todo \in [Procs -> SUBSET Nat]
  /\ beaten \subseteq Procs
  /\ faults \in Nat /\ reboots \in Nat

\* "One Quoky process may own a database": however starters, takeovers, releases, crashes,
\* reboots and reused process numbers interleave, and however long a starter pauses between
\* judging a generation and creating the next one.
OneOwner == \A p, q \in Procs : pc[p] \in Owning /\ pc[q] \in Owning => p = q

\* "Nothing ever removes the current (highest) generation": while the host runs, an unlink,
\* whoever does it and however old its listing, leaves a file at least as high as each one
\* that was there.
TopNeverRemoved ==
  [][reboots' = reboots =>
       \A f \in files : \E g \in files' : g.gen >= f.gen]_vars

\* The round limit (MAX_ROUNDS) refuses no start that nobody contends with and that can read
\* the lock: a starter only loses a round when someone created a generation after its listing,
\* or when a read of a file that is there fails.  The second case is against the comment of
\* MAX_ROUNDS, "every extra round is caused by a concurrent starter making progress", and
\* against step 2 of the header, by which an unreadable generation is free: readOrUndefined
\* drops the error, so a file that stays unreadable refuses every start, round by round.
LostRoundMeansProgress ==
  [][\A p \in Procs :
       round'[p] > round[p] =>
         \/ p \in beaten
         \/ pc[p] = "read" /\ Exists(mine[p] - 1) /\ faults' > faults]_vars

Disturbances == faults + reboots

\* Contending starters do not refuse each other: when a round begins, a process owns the lock
\* then or later, unless a process dies, a call fails or another program has the number of a
\* dead owner.
SomeoneStarts ==
  \A d \in 0..(MaxFaults + MaxReboots) :
    ((\E p \in Procs : pc[p] = "list") /\ Disturbances = d)
      ~> ((\E p \in Procs : pc[p] \in Owning) \/ Disturbances > d)

=============================================================================
