---------------------------- MODULE MCReplayCache ----------------------------
(* Instances of ReplayCache for TLC. *)
EXTENDS ReplayCache, TLC

\* Nonces are only compared for equality.
NonceSymmetry == Permutations(Nonces)
=============================================================================
