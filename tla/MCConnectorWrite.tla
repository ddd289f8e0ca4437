-------------------------- MODULE MCConnectorWrite --------------------------
(* Small instances of ConnectorWrite for TLC. *)
EXTENDS ConnectorWrite, TLC

MCSymmetry == Permutations(Writes) \cup Permutations(Turns)

=============================================================================
