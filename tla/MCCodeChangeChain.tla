-------------------------- MODULE MCCodeChangeChain --------------------------
(***************************************************************************)
(* Model checking of CodeChangeChain.                                      *)
(***************************************************************************)
EXTENDS CodeChangeChain, TLC

TurnSymmetry == Permutations(Turns)

=============================================================================
