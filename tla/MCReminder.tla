----------------------------- MODULE MCReminder -----------------------------
(* Small instances of ReminderSystem for TLC. *)
EXTENDS ReminderSystem, TLC

\* A daily and an uneven recurrence: the last occurrence lies beyond the clock bound.
MCOccurrences == {1, 4, 6}
MCShortOccurrences == {1, 3, 5}

\* One retry after one unit.
MCBackoff == [i \in {0} |-> 1]

MCSymmetry == Permutations(Attempts) \cup Permutations(Turns)

=============================================================================
