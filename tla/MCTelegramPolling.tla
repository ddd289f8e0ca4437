-------------------------- MODULE MCTelegramPolling --------------------------
(***************************************************************************)
(* Model checking of TelegramPolling.                                      *)
(***************************************************************************)
EXTENDS TelegramPolling, TLC

\* An album part, and then every kind: the album's second part, what has to wait behind the album,
\* and, when the first part has expired or was handed over, an update of any kind alone.
MCKinds == (1 :> {"album"}) @@ (2 :> AllKinds)

=============================================================================
