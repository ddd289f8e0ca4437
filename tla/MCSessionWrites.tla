-------------------------- MODULE MCSessionWrites --------------------------
(* Small instances of SessionWrites for TLC. *)
EXTENDS SessionWrites, TLC

MCSymmetry == Permutations(Calls)

=============================================================================
