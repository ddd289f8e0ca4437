-------------------------- MODULE KeyedMutexProofs --------------------------
(***************************************************************************)
(* KeyedMutex for every set of keys and calls: at most one critical        *)
(* section per key, and first come, first served (the refinement of        *)
(* FifoMutex).  The inductive invariant is about the chain of promises:    *)
(* whoever got past its predecessor has only dropped calls before it, and  *)
(* the map's entry is the newest tail or everything has drained.           *)
(***************************************************************************)
EXTENDS KeyedMutex, TLAPS

Queued(c) == pc[c] \in {"waiting", "running", "left", "settled", "dropped"}

Entered(c) == pc[c] \in {"running", "left", "settled", "dropped"}

\* d queued for the key of c before c did.
Earlier(d, c) == key[d] = key[c] /\ number[d] > 0 /\ number[d] < number[c]

\* Everyone who queued before c is through.
AllEarlierDropped(c) == \A d \in Calls : Earlier(d, c) => pc[d] = "dropped"

\* Arrival numbers: drawn by the calls that queued, never twice for a key.
NumbersInv ==
  /\ \A c \in Calls : number[c] > 0 <=> Queued(c)
  /\ \A c \in Calls : number[c] <= issued[key[c]]
  /\ \A c, d \in Calls : number[c] > 0 /\ number[c] = number[d] /\ key[c] = key[d] => c = d

\* The map holds the newest tail of a key, or the key has drained.
QueuesInv ==
  \A k \in Keys :
    /\ queues[k] = None => \A c \in Calls : Queued(c) /\ key[c] = k => pc[c] = "dropped"
    /\ queues[k] # None => key[queues[k]] = k /\ number[queues[k]] = issued[k] /\ issued[k] > 0

\* A call waits for the one right before it, or there was nothing left to wait for.
ChainInv ==
  \A c \in Calls :
    Queued(c) =>
      /\ prev[c] = None => AllEarlierDropped(c)
      /\ prev[c] # None =>
           key[prev[c]] = key[c] /\ number[prev[c]] + 1 = number[c] /\ number[prev[c]] > 0

OrderInv == \A c \in Calls : Entered(c) => AllEarlierDropped(c)

HoldsInv ==
  /\ active = {c \in Calls : pc[c] = "running"}
  /\ \A c \in Calls :
       pc[c] = "nested" => under[c] \in active /\ key[under[c]] = key[c]

MutexInv == MutexTypeOK /\ NumbersInv /\ QueuesInv /\ ChainInv /\ OrderInv /\ HoldsInv

----------------------------------------------------------------------------

LEMMA MutexInitInv == MutexInit => MutexInv
<1> SUFFICES ASSUME MutexInit PROVE MutexInv
  OBVIOUS
<1>1. MutexTypeOK
  BY DEF MutexInit, MutexTypeOK, Pc
<1>2. NumbersInv /\ QueuesInv /\ ChainInv /\ OrderInv /\ HoldsInv
  BY <1>1 DEF MutexInit, MutexTypeOK, NumbersInv, QueuesInv, ChainInv, OrderInv, HoldsInv,
              Queued, Entered
<1> QED
  BY <1>1, <1>2 DEF MutexInv

\* A re-entrant call touches neither the chain nor the holds.
LEMMA RunNestedInv ==
  ASSUME MutexInv, NEW c \in Calls, NEW k \in Keys, NEW h \in Calls \cup {None}, RunNested(c, k, h)
  PROVE  MutexInv'
<1> USE MutexAssumption DEF MutexInv
<1>1. pc[c] = "idle" /\ h \in active /\ h \in Calls /\ key[h] = k /\ h # c
  BY DEF RunNested, Holds, HoldsInv
<1>2. MutexTypeOK'
  BY <1>1 DEF RunNested, MutexTypeOK, Pc
<1>3. /\ \A d \in Calls \ {c} : pc'[d] = pc[d] /\ key'[d] = key[d] /\ under'[d] = under[d]
      /\ pc'[c] = "nested" /\ key'[c] = k /\ under'[c] = h
      /\ UNCHANGED <<queues, active, prev, number, issued>>
  BY <1>1 DEF RunNested, MutexTypeOK
<1>4. ~Queued(c) /\ number[c] = 0 /\ ~Queued(c)'
  BY <1>1, <1>3 DEF Queued, NumbersInv, MutexTypeOK
<1>5. NumbersInv'
  BY <1>2, <1>3, <1>4 DEF NumbersInv, Queued, MutexTypeOK
<1>6. QueuesInv'
  <2> SUFFICES ASSUME NEW j \in Keys
               PROVE  /\ queues[j] = None =>
                           \A d \in Calls : Queued(d)' /\ key'[d] = j => pc'[d] = "dropped"
                      /\ queues[j] # None =>
                           key'[queues[j]] = j /\ number[queues[j]] = issued[j] /\ issued[j] > 0
    BY <1>3 DEF QueuesInv
  <2>1. queues[j] # c
    BY <1>4 DEF QueuesInv, MutexTypeOK
  <2> QED
    BY <1>3, <1>4, <2>1 DEF QueuesInv, MutexTypeOK, Queued
<1>7. \A d \in Calls \ {c} : AllEarlierDropped(d) => AllEarlierDropped(d)'
  BY <1>3, <1>4 DEF AllEarlierDropped, Earlier
<1>8. ChainInv'
  <2> SUFFICES ASSUME NEW d \in Calls, Queued(d)'
               PROVE  /\ prev[d] = None => AllEarlierDropped(d)'
                      /\ prev[d] # None =>
                           key'[prev[d]] = key'[d] /\ number[prev[d]] + 1 = number[d]
                             /\ number[prev[d]] > 0
    BY <1>3 DEF ChainInv
  <2>1. d # c /\ Queued(d) /\ key'[d] = key[d]
    BY <1>3, <1>4 DEF Queued
  <2>2. prev[d] # c
    BY <1>4, <2>1 DEF ChainInv, MutexTypeOK
  <2>3. prev[d] # None => key'[prev[d]] = key[prev[d]]
    BY <1>3, <2>2 DEF MutexTypeOK
  <2> QED
    BY <1>7, <2>1, <2>3 DEF ChainInv
<1>9. OrderInv'
  BY <1>3, <1>7 DEF OrderInv, Entered
<1>10. HoldsInv'
  BY <1>1, <1>3 DEF HoldsInv
<1> QED
  BY <1>2, <1>5, <1>6, <1>8, <1>9, <1>10

\* A call that queues becomes the newest of its key; nobody else's predecessors change.
LEMMA RunQueuedInv ==
  ASSUME MutexInv, NEW c \in Calls, NEW k \in Keys, NEW h \in Calls \cup {None}, RunQueued(c, k, h)
  PROVE  MutexInv'
<1> USE MutexAssumption DEF MutexInv
<1>1. pc[c] = "idle"
  BY DEF RunQueued
<1>2. MutexTypeOK'
  BY <1>1 DEF RunQueued, MutexTypeOK, Pc
<1>3. /\ \A d \in Calls \ {c} :
           pc'[d] = pc[d] /\ key'[d] = key[d] /\ prev'[d] = prev[d] /\ number'[d] = number[d]
      /\ pc'[c] = "waiting" /\ key'[c] = k /\ prev'[c] = queues[k] /\ number'[c] = issued[k] + 1
      /\ \A j \in Keys \ {k} : queues'[j] = queues[j] /\ issued'[j] = issued[j]
      /\ queues'[k] = c /\ issued'[k] = issued[k] + 1
      /\ UNCHANGED <<active, under>>
  BY <1>1 DEF RunQueued, MutexTypeOK
<1>4. ~Queued(c) /\ number[c] = 0 /\ Queued(c)'
  BY <1>1, <1>3 DEF Queued, NumbersInv, MutexTypeOK
<1>5. NumbersInv'
  <2>1. \A d \in Calls : number'[d] > 0 <=> Queued(d)'
    BY <1>3, <1>4 DEF NumbersInv, Queued, MutexTypeOK
  <2>2. \A d \in Calls : number'[d] <= issued'[key'[d]]
    BY <1>3 DEF NumbersInv, MutexTypeOK
  <2>3. \A d \in Calls \ {c} : key'[d] = k => number'[d] < number'[c]
    BY <1>3 DEF NumbersInv, MutexTypeOK
  <2>4. \A d, e \in Calls : number'[d] > 0 /\ number'[d] = number'[e] /\ key'[d] = key'[e] => d = e
    BY <1>3, <2>3 DEF NumbersInv, MutexTypeOK
  <2> QED
    BY <2>1, <2>2, <2>4 DEF NumbersInv
<1>6. QueuesInv'
  <2>1. \A j \in Keys \ {k} : queues[j] # c
    BY <1>4 DEF QueuesInv, MutexTypeOK
  <2> QED
    BY <1>2, <1>3, <1>4, <2>1 DEF QueuesInv, MutexTypeOK, Queued
<1>7. \A d \in Calls \ {c} : Queued(d) /\ AllEarlierDropped(d) => AllEarlierDropped(d)'
  BY <1>3 DEF AllEarlierDropped, Earlier, NumbersInv, MutexTypeOK
<1>8. ChainInv'
  <2>1. ASSUME NEW d \in Calls, d # c, Queued(d)'
        PROVE  /\ prev'[d] = None => AllEarlierDropped(d)'
               /\ prev'[d] # None =>
                    key'[prev'[d]] = key'[d] /\ number'[prev'[d]] + 1 = number'[d]
                      /\ number'[prev'[d]] > 0
    <3>1. Queued(d) /\ key'[d] = key[d] /\ prev'[d] = prev[d] /\ number'[d] = number[d]
      BY <1>3, <2>1 DEF Queued
    <3>2. prev[d] # c
      BY <1>4, <3>1 DEF ChainInv, MutexTypeOK
    <3>3. prev[d] # None => key'[prev[d]] = key[prev[d]] /\ number'[prev[d]] = number[prev[d]]
      BY <1>3, <3>2 DEF MutexTypeOK
    <3> QED
      BY <1>7, <2>1, <3>1, <3>3 DEF ChainInv
  <2>2. prev'[c] = None => AllEarlierDropped(c)'
    <3> SUFFICES ASSUME queues[k] = None, NEW d \in Calls, Earlier(d, c)'
                 PROVE  pc'[d] = "dropped"
      BY <1>3 DEF AllEarlierDropped
    <3>1. d # c
      BY <1>2 DEF Earlier, MutexTypeOK
    <3>2. key[d] = k /\ Queued(d) /\ pc'[d] = pc[d]
      BY <1>3, <3>1 DEF Earlier, NumbersInv
    <3> QED
      BY <3>2 DEF QueuesInv
  <2>3. prev'[c] # None =>
          key'[prev'[c]] = key'[c] /\ number'[prev'[c]] + 1 = number'[c] /\ number'[prev'[c]] > 0
    <3> SUFFICES ASSUME queues[k] # None
                 PROVE  /\ key'[queues[k]] = k /\ number'[queues[k]] + 1 = number'[c]
                        /\ number'[queues[k]] > 0
      BY <1>3
    <3>1. queues[k] \in Calls /\ key[queues[k]] = k /\ number[queues[k]] = issued[k] /\ issued[k] > 0
      BY DEF QueuesInv, MutexTypeOK
    <3>2. queues[k] # c
      BY <1>4, <3>1
    <3> QED
      BY <1>3, <3>1, <3>2
  <2> QED
    BY <2>1, <2>2, <2>3 DEF ChainInv
<1>9. OrderInv'
  BY <1>3, <1>7 DEF OrderInv, Entered, Queued
<1>10. HoldsInv'
  BY <1>1, <1>3 DEF HoldsInv
<1> QED
  BY <1>2, <1>5, <1>6, <1>8, <1>9, <1>10

\* Whoever may enter has only dropped calls before it.
LEMMA EnterIsNext ==
  ASSUME MutexInv, NEW c \in Calls, Enter(c)
  PROVE  AllEarlierDropped(c)
<1> USE MutexAssumption DEF MutexInv
<1>1. Queued(c)
  BY DEF Enter, Queued
<1>2. CASE prev[c] = None
  BY <1>1, <1>2 DEF ChainInv
<1>3. CASE prev[c] # None
  <2>1. /\ prev[c] \in Calls /\ pc[prev[c]] = "dropped" /\ key[prev[c]] = key[c]
        /\ number[prev[c]] + 1 = number[c] /\ number[prev[c]] > 0
    BY <1>1, <1>3 DEF Enter, ChainInv, MutexTypeOK
  <2>2. AllEarlierDropped(prev[c])
    BY <2>1 DEF OrderInv, Entered
  <2>3. ASSUME NEW d \in Calls, Earlier(d, c) PROVE pc[d] = "dropped"
    <3>1. number[d] \in Nat /\ number[prev[c]] \in Nat /\ number[c] \in Nat
      BY <2>1 DEF MutexTypeOK
    <3>2. CASE number[d] = number[prev[c]]
      BY <2>1, <2>3, <3>2 DEF Earlier, NumbersInv
    <3>3. CASE number[d] # number[prev[c]]
      <4>1. number[d] < number[prev[c]]
        BY <2>1, <2>3, <3>1, <3>3 DEF Earlier
      <4> QED
        BY <2>1, <2>2, <2>3, <4>1 DEF Earlier, AllEarlierDropped
    <3> QED
      BY <3>2, <3>3
  <2> QED
    BY <2>3 DEF AllEarlierDropped
<1> QED
  BY <1>2, <1>3

\* The steps that only move one call along its own path keep numbers and chain.
LEMMA MovesKeep ==
  ASSUME MutexInv, NEW c \in Calls, NEW p \in Pc, pc' = [pc EXCEPT ![c] = p],
         pc[c] # "dropped", Queued(c) <=> p \in {"waiting", "running", "left", "settled", "dropped"},
         UNCHANGED <<key, prev, number, issued>>
  PROVE  /\ NumbersInv' /\ ChainInv'
         /\ \A d \in Calls : AllEarlierDropped(d) => AllEarlierDropped(d)'
         /\ \A d \in Calls \ {c} : pc'[d] = pc[d] /\ pc'[c] = p
         /\ pc' \in [Calls -> Pc]
<1> USE MutexAssumption DEF MutexInv
<1>1. pc' \in [Calls -> Pc] /\ pc'[c] = p /\ \A d \in Calls \ {c} : pc'[d] = pc[d]
  BY DEF MutexTypeOK
<1>2. \A d \in Calls : Queued(d)' <=> Queued(d)
  BY <1>1 DEF Queued
<1>3. NumbersInv'
  BY <1>2 DEF NumbersInv
<1>4. \A d \in Calls : AllEarlierDropped(d) => AllEarlierDropped(d)'
  BY <1>1 DEF AllEarlierDropped, Earlier
<1>5. ChainInv'
  BY <1>2, <1>4 DEF ChainInv
<1> QED
  BY <1>1, <1>3, <1>4, <1>5

LEMMA EnterInv == ASSUME MutexInv, NEW c \in Calls, Enter(c) PROVE MutexInv'
<1> USE MutexAssumption DEF MutexInv
<1>1. pc[c] = "waiting" /\ Queued(c) /\ pc' = [pc EXCEPT ![c] = "running"] /\ "running" \in Pc
  BY DEF Enter, Queued, Pc
<1>2. UNCHANGED <<queues, key, prev, under, failed, issued, number>> /\ active' = active \cup {c}
  BY DEF Enter
<1>3. /\ NumbersInv' /\ ChainInv' /\ pc' \in [Calls -> Pc]
      /\ \A d \in Calls : AllEarlierDropped(d) => AllEarlierDropped(d)'
      /\ \A d \in Calls \ {c} : pc'[d] = pc[d]
      /\ pc'[c] = "running"
  BY <1>1, <1>2, MovesKeep
<1>4. MutexTypeOK'
  BY <1>2, <1>3 DEF MutexTypeOK
<1>5. QueuesInv'
  BY <1>1, <1>2, <1>3 DEF QueuesInv, Queued
<1>6. OrderInv'
  <2>1. AllEarlierDropped(c)'
    BY <1>3, EnterIsNext
  <2> QED
    BY <1>3, <2>1 DEF OrderInv, Entered
<1>7. HoldsInv'
  BY <1>1, <1>2, <1>3 DEF HoldsInv
<1> QED
  BY <1>3, <1>4, <1>5, <1>6, <1>7

LEMMA LeaveInv ==
  ASSUME MutexInv, NEW c \in Calls, NEW rejects \in BOOLEAN, Leave(c, rejects)
  PROVE  MutexInv'
<1> USE MutexAssumption DEF MutexInv
<1>1. pc[c] = "running" /\ Queued(c) /\ pc' = [pc EXCEPT ![c] = "left"] /\ "left" \in Pc
  BY DEF Leave, Queued, Pc
<1>2. /\ UNCHANGED <<queues, key, prev, under, issued, number>> /\ active' = active \ {c}
      /\ failed' = [failed EXCEPT ![c] = rejects]
      /\ Alone(c)
  BY DEF Leave
<1>3. /\ NumbersInv' /\ ChainInv' /\ pc' \in [Calls -> Pc]
      /\ \A d \in Calls : AllEarlierDropped(d) => AllEarlierDropped(d)'
      /\ \A d \in Calls \ {c} : pc'[d] = pc[d]
      /\ pc'[c] = "left"
  BY <1>1, <1>2, MovesKeep
<1>4. MutexTypeOK'
  BY <1>2, <1>3 DEF MutexTypeOK
<1>5. QueuesInv'
  BY <1>1, <1>2, <1>3 DEF QueuesInv, Queued
<1>6. OrderInv'
  BY <1>1, <1>3 DEF OrderInv, Entered
<1>7. HoldsInv'
  BY <1>1, <1>2, <1>3 DEF HoldsInv, Alone
<1> QED
  BY <1>3, <1>4, <1>5, <1>6, <1>7

LEMMA LeaveNestedInv == ASSUME MutexInv, NEW c \in Calls, LeaveNested(c) PROVE MutexInv'
<1> USE MutexAssumption DEF MutexInv
<1>1. pc[c] = "nested" /\ ~Queued(c) /\ pc' = [pc EXCEPT ![c] = "returned"] /\ "returned" \in Pc
  BY DEF LeaveNested, Queued, Pc
<1>2. UNCHANGED <<queues, active, key, prev, under, failed, issued, number>>
  BY DEF LeaveNested
<1>3. /\ NumbersInv' /\ ChainInv' /\ pc' \in [Calls -> Pc]
      /\ \A d \in Calls : AllEarlierDropped(d) => AllEarlierDropped(d)'
      /\ \A d \in Calls \ {c} : pc'[d] = pc[d]
      /\ pc'[c] = "returned"
  BY <1>1, <1>2, MovesKeep
<1>4. MutexTypeOK'
  BY <1>2, <1>3 DEF MutexTypeOK
<1>5. QueuesInv'
  BY <1>1, <1>2, <1>3 DEF QueuesInv, Queued
<1>6. OrderInv'
  BY <1>1, <1>3 DEF OrderInv, Entered
<1>7. HoldsInv'
  BY <1>1, <1>2, <1>3 DEF HoldsInv
<1> QED
  BY <1>3, <1>4, <1>5, <1>6, <1>7

LEMMA SettleInv == ASSUME MutexInv, NEW c \in Calls, Settle(c) PROVE MutexInv'
<1> USE MutexAssumption DEF MutexInv
<1>1. pc[c] = "left" /\ Queued(c) /\ pc' = [pc EXCEPT ![c] = "settled"] /\ "settled" \in Pc
  BY DEF Settle, Queued, Pc
<1>2. UNCHANGED <<queues, active, key, prev, under, failed, issued, number>>
  BY DEF Settle
<1>3. /\ NumbersInv' /\ ChainInv' /\ pc' \in [Calls -> Pc]
      /\ \A d \in Calls : AllEarlierDropped(d) => AllEarlierDropped(d)'
      /\ \A d \in Calls \ {c} : pc'[d] = pc[d]
      /\ pc'[c] = "settled"
  BY <1>1, <1>2, MovesKeep
<1>4. MutexTypeOK'
  BY <1>2, <1>3 DEF MutexTypeOK
<1>5. QueuesInv'
  BY <1>1, <1>2, <1>3 DEF QueuesInv, Queued
<1>6. OrderInv'
  BY <1>1, <1>3 DEF OrderInv, Entered
<1>7. HoldsInv'
  BY <1>1, <1>2, <1>3 DEF HoldsInv
<1> QED
  BY <1>3, <1>4, <1>5, <1>6, <1>7

\* The newest call of a key that is through leaves a drained key behind.
LEMMA DropInv == ASSUME MutexInv, NEW c \in Calls, Drop(c) PROVE MutexInv'
<1> USE MutexAssumption DEF MutexInv
<1>1. pc[c] = "settled" /\ Queued(c) /\ pc' = [pc EXCEPT ![c] = "dropped"] /\ "dropped" \in Pc
  BY DEF Drop, Queued, Pc
<1>2. /\ UNCHANGED <<active, key, prev, under, failed, issued, number>>
      /\ queues' = [queues EXCEPT ![key[c]] = IF @ = c THEN None ELSE @]
  BY DEF Drop
<1>3. /\ NumbersInv' /\ ChainInv' /\ pc' \in [Calls -> Pc]
      /\ \A d \in Calls : AllEarlierDropped(d) => AllEarlierDropped(d)'
      /\ \A d \in Calls \ {c} : pc'[d] = pc[d]
      /\ pc'[c] = "dropped"
  BY <1>1, <1>2, MovesKeep
<1>4. MutexTypeOK'
  BY <1>2, <1>3 DEF MutexTypeOK
<1>5. QueuesInv'
  <2>1. key[c] \in Keys /\ queues \in [Keys -> Calls \cup {None}]
    BY DEF MutexTypeOK
  <2>2. ASSUME NEW j \in Keys, queues'[j] = queues[j]
        PROVE  /\ queues'[j] = None =>
                    \A d \in Calls : Queued(d)' /\ key'[d] = j => pc'[d] = "dropped"
               /\ queues'[j] # None =>
                    key'[queues'[j]] = j /\ number'[queues'[j]] = issued'[j] /\ issued'[j] > 0
    BY <1>1, <1>2, <1>3, <2>2 DEF QueuesInv, Queued
  <2>3. CASE queues[key[c]] # c
    BY <1>2, <2>1, <2>2, <2>3 DEF QueuesInv
  <2>4. CASE queues[key[c]] = c
    <3>1. queues'[key[c]] = None /\ \A j \in Keys \ {key[c]} : queues'[j] = queues[j]
      BY <1>2, <2>1, <2>4
    <3>2. number[c] = issued[key[c]]
      BY <2>1, <2>4 DEF QueuesInv
    <3>3. ASSUME NEW d \in Calls, Queued(d), key[d] = key[c], d # c PROVE Earlier(d, c)
      <4>1. number[d] > 0 /\ number[d] <= number[c] /\ number[d] # number[c]
        BY <3>2, <3>3 DEF NumbersInv
      <4> QED
        BY <3>3, <4>1 DEF Earlier, MutexTypeOK
    <3>4. AllEarlierDropped(c)
      BY <1>1 DEF OrderInv, Entered
    <3>5. \A d \in Calls : Queued(d)' /\ key'[d] = key[c] => pc'[d] = "dropped"
      BY <1>2, <1>3, <3>3, <3>4 DEF AllEarlierDropped, Queued
    <3> QED
      BY <2>2, <3>1, <3>5 DEF QueuesInv
  <2> QED
    BY <2>3, <2>4
<1>6. OrderInv'
  BY <1>1, <1>3 DEF OrderInv, Entered
<1>7. HoldsInv'
  BY <1>1, <1>2, <1>3 DEF HoldsInv
<1> QED
  BY <1>3, <1>4, <1>5, <1>6, <1>7

LEMMA MutexStutterInv == ASSUME MutexInv, UNCHANGED mutexVars PROVE MutexInv'
  BY DEF mutexVars, MutexInv, MutexTypeOK, NumbersInv, QueuesInv, ChainInv, OrderInv, HoldsInv,
         Queued, Entered, AllEarlierDropped, Earlier

LEMMA MutexNextInv == ASSUME MutexInv, MutexNext PROVE MutexInv'
<1>1. PICK c \in Calls :
        \/ \E k \in Keys, h \in Calls \cup {None} : Given(h) /\ RunNested(c, k, h)
        \/ \E k \in Keys, h \in Calls \cup {None} : Given(h) /\ RunQueued(c, k, h)
        \/ Enter(c)
        \/ \E rejects \in BOOLEAN : Leave(c, rejects)
        \/ LeaveNested(c)
        \/ Settle(c)
        \/ Drop(c)
  BY DEF MutexNext
<1> QED
  BY <1>1, RunNestedInv, RunQueuedInv, EnterInv, LeaveInv, LeaveNestedInv, SettleInv, DropInv

----------------------------------------------------------------------------

\* The invariant of the chain holds throughout, for any keys and calls.
THEOREM MutexInvHolds == MutexSpec => []MutexInv
<1>1. MutexInv /\ [MutexNext]_mutexVars => MutexInv'
  BY MutexNextInv, MutexStutterInv
<1> QED
  BY <1>1, MutexInitInv, PTL DEF MutexSpec

LEMMA OneSection == MutexInv => MutualExclusion
<1> SUFFICES ASSUME MutexInv, NEW c \in Calls, NEW d \in Calls, Working(c), Working(d),
                    key[c] = key[d]
             PROVE  Section(c) = Section(d)
  BY DEF MutualExclusion
<1>1. ASSUME NEW e \in Calls, Working(e)
      PROVE  Section(e) \in Calls /\ pc[Section(e)] = "running" /\ key[Section(e)] = key[e]
  BY <1>1 DEF Working, Section, MutexInv, HoldsInv
<1>2. ASSUME NEW e \in Calls, NEW f \in Calls, pc[e] = "running", pc[f] = "running",
             key[e] = key[f]
      PROVE  e = f
  <2>1. number[e] > 0 /\ number[f] > 0 /\ number[e] \in Nat /\ number[f] \in Nat
    BY <1>2 DEF MutexInv, NumbersInv, Queued, MutexTypeOK
  <2>2. ~Earlier(e, f) /\ ~Earlier(f, e)
    BY <1>2 DEF MutexInv, OrderInv, Entered, AllEarlierDropped
  <2>3. number[e] = number[f]
    BY <1>2, <2>1, <2>2 DEF Earlier
  <2> QED
    BY <1>2, <2>1, <2>3 DEF MutexInv, NumbersInv
<1> QED
  BY <1>1, <1>2

\* run() of keyed-mutex.ts: one critical section per key at a time, re-entrant calls and stale
\* holds included.
THEOREM MutualExclusionHolds == MutexSpec => []MutualExclusion
BY OneSection, MutexInvHolds, PTL

\* Who enters the chain is the first in arrival order, and nobody is inside.
LEMMA EnterIsMyTurn ==
  ASSUME MutexInv, NEW c \in Calls, Enter(c)
  PROVE  Fifo!MyTurn(c)
<1> USE MutexAssumption DEF MutexInv
<1>1. AllEarlierDropped(c)
  BY EnterIsNext
<1>2. pc[c] = "waiting" /\ number[c] > 0 /\ key[c] \in Keys
  BY DEF Enter, NumbersInv, Queued, MutexTypeOK
<1> SUFFICES ASSUME NEW d \in Calls \ {c}, Ticket[d].key = Ticket[c].key
             PROVE  Place[d] # "inside" /\ (Place[d] = "waiting" => Ticket[c].number < Ticket[d].number)
  BY DEF Fifo!MyTurn
<1>3. number[d] \in Nat /\ number[c] \in Nat
  BY DEF MutexTypeOK
<1>4. key[d] = key[c] /\ number[d] > 0
  <2>1. Ticket[c].key = key[c] /\ key[c] # None
    BY <1>2, <1>3 DEF Ticket
  <2>2. Ticket[d].key = (IF number[d] = 0 THEN None ELSE key[d])
    BY DEF Ticket
  <2> QED
    BY <1>3, <2>1, <2>2
<1>5. number[d] # number[c]
  BY <1>2, <1>4 DEF NumbersInv
<1>6. CASE number[d] < number[c]
  <2>1. pc[d] = "dropped"
    BY <1>1, <1>4, <1>6 DEF AllEarlierDropped, Earlier
  <2> QED
    BY <2>1 DEF Place
<1>7. CASE number[c] < number[d]
  <2>1. pc[d] # "running"
    BY <1>2, <1>4, <1>7 DEF OrderInv, Entered, AllEarlierDropped, Earlier
  <2>2. Place[d] # "inside"
    BY <2>1 DEF Place
  <2>3. Ticket[c].number = number[c] /\ Ticket[d].number = number[d]
    BY DEF Ticket
  <2> QED
    BY <1>7, <2>2, <2>3
<1> QED
  BY <1>3, <1>5, <1>6, <1>7

\* A call that moves along its own path without drawing a number keeps every ticket.
LEMMA MoveKeepsTickets ==
  ASSUME UNCHANGED <<key, number>> PROVE Ticket' = Ticket
  BY DEF Ticket

LEMMA FifoStep == ASSUME MutexInv, MutexNext PROVE [Fifo!Next]_<<issued, Ticket, Place>>
<1> USE MutexAssumption DEF MutexInv
<1>1. ASSUME NEW c \in Calls, NEW k \in Keys, NEW h \in Calls \cup {None}, RunNested(c, k, h)
      PROVE  UNCHANGED <<issued, Ticket, Place>>
  <2>1. pc[c] = "idle" /\ pc' = [pc EXCEPT ![c] = "nested"] /\ key' = [key EXCEPT ![c] = k]
          /\ UNCHANGED <<issued, number>>
    BY <1>1 DEF RunNested
  <2>2. number[c] = 0
    BY <2>1 DEF NumbersInv, Queued, MutexTypeOK
  <2>3. Ticket' = Ticket
    BY <2>1, <2>2 DEF Ticket, MutexTypeOK
  <2>4. Place' = Place
    BY <2>1 DEF Place, MutexTypeOK
  <2> QED
    BY <2>1, <2>3, <2>4
<1>2. ASSUME NEW c \in Calls, NEW k \in Keys, NEW h \in Calls \cup {None}, RunQueued(c, k, h)
      PROVE  Fifo!Arrive(c, k)
  <2>1. /\ pc[c] = "idle" /\ pc' = [pc EXCEPT ![c] = "waiting"] /\ key' = [key EXCEPT ![c] = k]
        /\ issued' = [issued EXCEPT ![k] = @ + 1] /\ number' = [number EXCEPT ![c] = issued[k] + 1]
    BY <1>2 DEF RunQueued
  <2>2. issued[k] \in Nat /\ issued[k] + 1 # 0
    BY DEF MutexTypeOK
  <2>3. Ticket' = [Ticket EXCEPT ![c] = [key |-> k, number |-> issued[k] + 1]]
    BY <2>1, <2>2 DEF Ticket, MutexTypeOK
  <2>4. Place[c] = "out" /\ Place' = [Place EXCEPT ![c] = "waiting"]
    BY <2>1 DEF Place, MutexTypeOK
  <2> QED
    BY <2>1, <2>3, <2>4 DEF Fifo!Arrive
<1>3. ASSUME NEW c \in Calls, Enter(c) PROVE Fifo!Enter(c)
  <2>1. pc[c] = "waiting" /\ pc' = [pc EXCEPT ![c] = "running"] /\ UNCHANGED <<issued, key, number>>
    BY <1>3 DEF Enter
  <2>2. Place[c] = "waiting" /\ Place' = [Place EXCEPT ![c] = "inside"]
    BY <2>1 DEF Place, MutexTypeOK
  <2> QED
    BY <1>3, <2>1, <2>2, EnterIsMyTurn, MoveKeepsTickets DEF Fifo!Enter
<1>4. ASSUME NEW c \in Calls, NEW rejects \in BOOLEAN, Leave(c, rejects) PROVE Fifo!Leave(c)
  <2>1. pc[c] = "running" /\ pc' = [pc EXCEPT ![c] = "left"] /\ UNCHANGED <<issued, key, number>>
    BY <1>4 DEF Leave
  <2>2. Place[c] = "inside" /\ Place' = [Place EXCEPT ![c] = "gone"]
    BY <2>1 DEF Place, MutexTypeOK
  <2> QED
    BY <2>1, <2>2, MoveKeepsTickets DEF Fifo!Leave
<1>5. ASSUME NEW c \in Calls, LeaveNested(c) \/ Settle(c) \/ Drop(c)
      PROVE  UNCHANGED <<issued, Ticket, Place>>
  <2>1. /\ UNCHANGED <<issued, key, number>>
        /\ \/ pc[c] = "nested" /\ pc' = [pc EXCEPT ![c] = "returned"]
           \/ pc[c] = "left" /\ pc' = [pc EXCEPT ![c] = "settled"]
           \/ pc[c] = "settled" /\ pc' = [pc EXCEPT ![c] = "dropped"]
    BY <1>5 DEF LeaveNested, Settle, Drop
  <2>2. Place' = Place
    BY <2>1 DEF Place, MutexTypeOK
  <2> QED
    BY <2>1, <2>2, MoveKeepsTickets
<1>6. PICK c \in Calls :
        \/ \E k \in Keys, h \in Calls \cup {None} : Given(h) /\ RunNested(c, k, h)
        \/ \E k \in Keys, h \in Calls \cup {None} : Given(h) /\ RunQueued(c, k, h)
        \/ Enter(c)
        \/ \E rejects \in BOOLEAN : Leave(c, rejects)
        \/ LeaveNested(c)
        \/ Settle(c)
        \/ Drop(c)
  BY DEF MutexNext
<1> QED
  BY <1>1, <1>2, <1>3, <1>4, <1>5, <1>6 DEF Fifo!Next

\* The header of keyed-mutex.ts: work on one key runs in arrival order.  The chain of promises
\* implements FifoMutex.
THEOREM FifoRefined == MutexSpec => FifoSpec
<1>1. MutexInit => Fifo!Init
  BY DEF MutexInit, Fifo!Init, Fifo!NoTicket, Ticket, Place
<1>2. MutexInv /\ [MutexNext]_mutexVars => [Fifo!Next]_<<issued, Ticket, Place>>
  <2>1. UNCHANGED mutexVars => UNCHANGED <<issued, Ticket, Place>>
    BY DEF mutexVars, Ticket, Place
  <2> QED
    BY <2>1, FifoStep
<1> QED
  BY MutexInvHolds, <1>1, <1>2, PTL DEF MutexSpec, FifoSpec, Fifo!Spec

----------------------------------------------------------------------------

\* The entry of a key is a tail that has not been dropped.
EntryInv == \A k \in Keys : queues[k] # None => pc[queues[k]] # "dropped"

LEMMA EntryStep ==
  ASSUME MutexInv, EntryInv, [MutexNext]_mutexVars
  PROVE  EntryInv'
<1> USE MutexAssumption DEF MutexInv
<1>1. CASE UNCHANGED mutexVars
  BY <1>1 DEF mutexVars, EntryInv
<1>2. ASSUME NEW c \in Calls, NEW k \in Keys, NEW h \in Calls \cup {None}, RunNested(c, k, h)
      PROVE  EntryInv'
  BY <1>2 DEF RunNested, EntryInv, MutexTypeOK
<1>3. ASSUME NEW c \in Calls, NEW k \in Keys, NEW h \in Calls \cup {None}, RunQueued(c, k, h)
      PROVE  EntryInv'
  BY <1>3 DEF RunQueued, EntryInv, MutexTypeOK
<1>4. ASSUME NEW c \in Calls,
             \/ Enter(c) \/ (\E rejects \in BOOLEAN : Leave(c, rejects)) \/ LeaveNested(c) \/ Settle(c)
      PROVE  EntryInv'
  BY <1>4 DEF Enter, Leave, LeaveNested, Settle, EntryInv, MutexTypeOK
<1>5. ASSUME NEW c \in Calls, Drop(c) PROVE EntryInv'
  <2>1. \A k \in Keys : queues[k] = c => key[c] = k
    BY DEF QueuesInv
  <2>2. \A k \in Keys : queues'[k] # None => queues'[k] = queues[k] /\ queues[k] # c
    BY <1>5, <2>1 DEF Drop, MutexTypeOK
  <2>3. \A d \in Calls : d # c => pc'[d] = pc[d]
    BY <1>5 DEF Drop, MutexTypeOK
  <2> QED
    BY <2>2, <2>3 DEF EntryInv, MutexTypeOK
<1> QED
  BY <1>1, <1>2, <1>3, <1>4, <1>5 DEF MutexNext

\* keyed-mutex.ts keeps no entry for a key whose chain has drained: the map does not grow with
\* the keys that were ever locked.
THEOREM NoLeakHolds == MutexSpec => []NoLeak
<1>1. MutexInit => EntryInv
  BY DEF MutexInit, EntryInv
<1>2. MutexInv /\ EntryInv => NoLeak
  <2> SUFFICES ASSUME MutexInv, EntryInv, NEW k \in Keys, queues[k] # None,
                      \A c \in Calls : key[c] = k => pc[c] \in {"idle", "dropped", "nested", "returned"}
               PROVE  FALSE
    BY DEF NoLeak
  <2>1. queues[k] \in Calls /\ key[queues[k]] = k /\ number[queues[k]] > 0
    BY DEF MutexInv, MutexTypeOK, QueuesInv
  <2>2. Queued(queues[k]) /\ pc[queues[k]] # "dropped"
    BY <2>1 DEF MutexInv, NumbersInv, EntryInv
  <2> QED
    BY <2>1, <2>2 DEF Queued
<1> QED
  BY MutexInvHolds, <1>1, <1>2, EntryStep, PTL DEF MutexSpec

=============================================================================
