----------------------------- MODULE KeyedMutex -----------------------------
(***************************************************************************)
(* The keyed in-process mutex (packages/core/src/util/keyed-mutex.ts) that *)
(* every session, approval and actor-metadata writer shares: a chain of    *)
(* promises per key, explicit re-entrancy through an opaque hold, and      *)
(* removal of the key's entry once its chain has drained.                  *)
(*                                                                         *)
(* A call of run() is a member of Calls, used once.  It stands for its     *)
(* work, for the hold it hands to its work, and for its `tail' promise.    *)
(* One action is what happens from one promise reaction to the next.       *)
(***************************************************************************)
EXTENDS Integers

CONSTANTS
  Keys,
  Calls,
  None      \* no promise, no hold

ASSUME MutexAssumption == None \notin Calls /\ None \notin Keys

VARIABLES
  queues,   \* the Map: queues[k] is the last tail of key k
  active,   \* the WeakSet: holds inside their critical section
  pc,       \* where each call is
  key,      \* its key
  prev,     \* the tail it waits for
  under,    \* the hold it runs under, for a re-entrant call
  failed,   \* whether its work rejected
  issued,   \* history: calls of each key that queued
  number    \* history: their arrival numbers

mutexVars == <<queues, active, pc, key, prev, under, failed, issued, number>>

Pc == {"idle", "waiting", "running", "left", "settled", "dropped", "nested", "returned"}

MutexInit ==
  /\ queues = [k \in Keys |-> None]
  /\ active = {}
  /\ pc = [c \in Calls |-> "idle"]
  /\ key \in {[c \in Calls |-> k] : k \in Keys}
  /\ prev = [c \in Calls |-> None]
  /\ under = [c \in Calls |-> None]
  /\ failed = [c \in Calls |-> FALSE]
  /\ issued = [k \in Keys |-> 0]
  /\ number = [c \in Calls |-> 0]

\* A plausible bug: a hold stays valid after its work ended.
HoldsForever(h, k) == h # None /\ key[h] = k

\* holds(): h is a live hold for k.
Holds(h, k) == h # None /\ key[h] = k /\ h \in active

\* Nobody runs under h: a holder awaits what it calls with its hold, one call at a time.
Alone(h) == \A d \in Calls : ~(pc[d] = "nested" /\ under[d] = h)

\* run() with a live hold: the work runs at once, inside the holder's section.
RunNested(c, k, h) ==
  /\ pc[c] = "idle"
  /\ Holds(h, k) /\ Alone(h)
  /\ pc' = [pc EXCEPT ![c] = "nested"]
  /\ key' = [key EXCEPT ![c] = k]
  /\ under' = [under EXCEPT ![c] = h]
  /\ UNCHANGED <<queues, active, prev, failed, issued, number>>

\* run() otherwise (no hold, a hold of another key, a hold whose work ended): the call queues
\* behind the last tail of its key.
RunQueued(c, k, h) ==
  /\ pc[c] = "idle"
  /\ ~Holds(h, k)
  /\ pc' = [pc EXCEPT ![c] = "waiting"]
  /\ key' = [key EXCEPT ![c] = k]
  /\ prev' = [prev EXCEPT ![c] = queues[k]]
  /\ queues' = [queues EXCEPT ![k] = c]
  /\ issued' = [issued EXCEPT ![k] = @ + 1]
  /\ number' = [number EXCEPT ![c] = issued[k] + 1]
  /\ UNCHANGED <<active, under, failed>>

\* A plausible bug: the next work is chained on success only.
EnterAfterSuccess(c) ==
  /\ pc[c] = "waiting"
  /\ prev[c] = None \/ (prev[c] # None /\ pc[prev[c]] = "dropped" /\ ~failed[prev[c]])
  /\ pc' = [pc EXCEPT ![c] = "running"]
  /\ active' = active \cup {c}
  /\ UNCHANGED <<queues, key, prev, under, failed, issued, number>>

\* enter(): the tail before it settled.  That tail's own reaction, the drop, was registered
\* first and has run.
Enter(c) ==
  /\ pc[c] = "waiting"
  /\ prev[c] = None \/ (prev[c] # None /\ pc[prev[c]] = "dropped")
  /\ pc' = [pc EXCEPT ![c] = "running"]
  /\ active' = active \cup {c}
  /\ UNCHANGED <<queues, key, prev, under, failed, issued, number>>

\* The work resolved or rejected: the hold dies (finally).
Leave(c, rejects) ==
  /\ pc[c] = "running" /\ Alone(c)
  /\ pc' = [pc EXCEPT ![c] = "left"]
  /\ active' = active \ {c}
  /\ failed' = [failed EXCEPT ![c] = rejects]
  /\ UNCHANGED <<queues, key, prev, under, issued, number>>

\* A re-entrant work returned to its holder.
LeaveNested(c) ==
  /\ pc[c] = "nested"
  /\ pc' = [pc EXCEPT ![c] = "returned"]
  /\ UNCHANGED <<queues, active, key, prev, under, failed, issued, number>>

\* result and tail settle; a rejection is swallowed by the tail.
Settle(c) ==
  /\ pc[c] = "left"
  /\ pc' = [pc EXCEPT ![c] = "settled"]
  /\ UNCHANGED <<queues, active, key, prev, under, failed, issued, number>>

\* A plausible bug: the entry is removed without looking whether it is still this call's.
DropAlways(c) ==
  /\ pc[c] = "settled"
  /\ pc' = [pc EXCEPT ![c] = "dropped"]
  /\ queues' = [queues EXCEPT ![key[c]] = None]
  /\ UNCHANGED <<active, key, prev, under, failed, issued, number>>

\* A plausible bug: the entry is never removed.
DropNever(c) ==
  /\ pc[c] = "settled"
  /\ pc' = [pc EXCEPT ![c] = "dropped"]
  /\ UNCHANGED <<queues, active, key, prev, under, failed, issued, number>>

\* The key's entry is removed if it is still this tail.
Drop(c) ==
  /\ pc[c] = "settled"
  /\ pc' = [pc EXCEPT ![c] = "dropped"]
  /\ queues' = [queues EXCEPT ![key[c]] = IF @ = c THEN None ELSE @]
  /\ UNCHANGED <<active, key, prev, under, failed, issued, number>>

----------------------------------------------------------------------------

\* A hold is only ever passed by someone who was given it.
Given(h) == h = None \/ (h # None /\ number[h] > 0 /\ pc[h] # "waiting")

MutexNext ==
  \E c \in Calls :
    \/ \E k \in Keys, h \in Calls \cup {None} : Given(h) /\ RunNested(c, k, h)
    \/ \E k \in Keys, h \in Calls \cup {None} : Given(h) /\ RunQueued(c, k, h)
    \/ Enter(c)
    \/ \E rejects \in BOOLEAN : Leave(c, rejects)
    \/ LeaveNested(c)
    \/ Settle(c)
    \/ Drop(c)

MutexSpec == MutexInit /\ [][MutexNext]_mutexVars

\* Promise reactions run, and every work ends: nothing but the arrival of calls may stay away.
MutexProgress(c) ==
  \/ Enter(c)
  \/ \E rejects \in BOOLEAN : Leave(c, rejects)
  \/ LeaveNested(c)
  \/ Settle(c)
  \/ Drop(c)

MutexFairSpec == MutexSpec /\ \A c \in Calls : WF_mutexVars(MutexProgress(c))

----------------------------------------------------------------------------
(* Properties. *)

\* Type correctness of the chain, the holds and the calls.
MutexTypeOK ==
  /\ queues \in [Keys -> Calls \cup {None}]
  /\ active \subseteq Calls
  /\ pc \in [Calls -> Pc]
  /\ key \in [Calls -> Keys]
  /\ prev \in [Calls -> Calls \cup {None}]
  /\ under \in [Calls -> Calls \cup {None}]
  /\ failed \in [Calls -> BOOLEAN]
  /\ issued \in [Keys -> Nat]
  /\ number \in [Calls -> Nat]

\* The critical section a call works in: its own, or its holder's.
Section(c) == IF pc[c] = "nested" THEN under[c] ELSE c

Working(c) == pc[c] \in {"running", "nested"}

\* Work on one key runs in one critical section at a time, re-entrant work and stale holds
\* included.
MutualExclusion ==
  \A c, d \in Calls :
    Working(c) /\ Working(d) /\ key[c] = key[d] => Section(c) = Section(d)

\* The key's entry is dropped once its queue drains: an idle key leaves nothing in the map.
NoLeak ==
  \A k \in Keys :
    (\A c \in Calls : key[c] = k => pc[c] \in {"idle", "dropped", "nested", "returned"})
      => queues[k] = None

Place ==
  [c \in Calls |->
     IF pc[c] \in {"idle", "nested", "returned"} THEN "out"
     ELSE IF pc[c] = "waiting" THEN "waiting"
     ELSE IF pc[c] = "running" THEN "inside"
     ELSE "gone"]

\* The tickets of FifoMutex: a call that never queued has none.
Ticket ==
  [c \in Calls |-> [key |-> IF number[c] = 0 THEN None ELSE key[c], number |-> number[c]]]

\* Arrival order: the chain of promises implements the first-come-first-served mutex.
Fifo == INSTANCE FifoMutex WITH NoKey <- None, ticket <- Ticket, place <- Place
FifoSpec == Fifo!Spec

\* A rejected work never blocks the queue: whoever queued enters.
EveryCallEnters == \A c \in Calls : pc[c] = "waiting" ~> pc[c] = "running"

=============================================================================
