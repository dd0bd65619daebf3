---------------------------- MODULE MCRebalancer -----------------------------
(***************************************************************************)
(* Instances of Rebalancer for TLC: every market has the same underlying.  *)
(***************************************************************************)
EXTENDS Rebalancer

CONSTANT Token

MCUnderlying == [m \in Markets |-> Token]
=============================================================================
