------------------------- MODULE OccurrenceDelivery -------------------------
(***************************************************************************)
(* What owner reminders promise (DECISIONS.md, ADR-0101 D4/D6), as the     *)
(* owner sees them: a reminder that was created is active until it is      *)
(* canceled or has ended, only a cancel can be taken back, and a message   *)
(* goes out only for a reminder that is active at that moment, never       *)
(* before its occurrence, and once per occurrence.  Nothing is said about  *)
(* how claims, ticks, crashes, recovery and retries bring that about:      *)
(* ReminderSystem implements this specification.                           *)
(***************************************************************************)
EXTENDS Integers, Sequences

CONSTANT Ids

VARIABLES
  life,   \* life[r]: what the owner sees of reminder r
  sent,   \* sent[r]: the occurrences of r transmitted so far, in order
  time

Phase == {"none", "active", "canceled", "ended"}

Legal ==
  {<<"none", "active">>, <<"active", "canceled">>, <<"canceled", "active">>, <<"active", "ended">>}

Init ==
  /\ life = [r \in Ids |-> "none"]
  /\ sent = [r \in Ids |-> <<>>]
  /\ time = 0

\* Reminders are created, canceled, taken back or end; nothing is transmitted by that.
Change ==
  /\ life' \in [Ids -> Phase]
  /\ \A r \in Ids : life'[r] = life[r] \/ <<life[r], life'[r]>> \in Legal
  /\ UNCHANGED <<sent, time>>

\* o comes after everything transmitted for r so far.
Fresh(r, o) == \A i \in 1..Len(sent[r]) : sent[r][i] < o

Transmit(r, o) ==
  /\ life[r] = "active"
  /\ o <= time
  /\ Fresh(r, o)
  /\ sent' = [sent EXCEPT ![r] = Append(@, o)]
  /\ UNCHANGED <<life, time>>

Pass ==
  /\ time' = time + 1
  /\ UNCHANGED <<life, sent>>

Next == Change \/ (\E r \in Ids : \E o \in 0..time : Transmit(r, o)) \/ Pass

Spec == Init /\ [][Next]_<<life, sent, time>>

=============================================================================
