----------------------------- MODULE FifoMutex -----------------------------
(***************************************************************************)
(* What the header of packages/core/src/util/keyed-mutex.ts promises:      *)
(* "Work on one key runs strictly one at a time in arrival order".  A call *)
(* that arrives draws the next ticket of its key; the smallest waiting     *)
(* ticket enters when nobody is inside.  KeyedMutex implements this.       *)
(***************************************************************************)
EXTENDS Integers

CONSTANTS Keys, Calls, NoKey

VARIABLES
  issued,   \* issued[k]: how many tickets of key k were drawn
  ticket,   \* ticket[c]: the key and number drawn by c
  place     \* place[c]: "out", "waiting", "inside" or "gone"

NoTicket == [key |-> NoKey, number |-> 0]

Init ==
  /\ issued = [k \in Keys |-> 0]
  /\ ticket = [c \in Calls |-> NoTicket]
  /\ place = [c \in Calls |-> "out"]

Arrive(c, k) ==
  /\ place[c] = "out"
  /\ issued' = [issued EXCEPT ![k] = @ + 1]
  /\ ticket' = [ticket EXCEPT ![c] = [key |-> k, number |-> issued[k] + 1]]
  /\ place' = [place EXCEPT ![c] = "waiting"]

\* Nobody is inside and nobody who arrived earlier still waits.
MyTurn(c) ==
  \A d \in Calls \ {c} :
    ticket[d].key = ticket[c].key =>
      /\ place[d] # "inside"
      /\ place[d] = "waiting" => ticket[c].number < ticket[d].number

Enter(c) ==
  /\ place[c] = "waiting"
  /\ MyTurn(c)
  /\ place' = [place EXCEPT ![c] = "inside"]
  /\ UNCHANGED <<issued, ticket>>

Leave(c) ==
  /\ place[c] = "inside"
  /\ place' = [place EXCEPT ![c] = "gone"]
  /\ UNCHANGED <<issued, ticket>>

Next ==
  \E c \in Calls :
    \/ \E k \in Keys : Arrive(c, k)
    \/ Enter(c)
    \/ Leave(c)

Spec == Init /\ [][Next]_<<issued, ticket, place>>

=============================================================================
