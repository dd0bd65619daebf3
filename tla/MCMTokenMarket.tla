--------------------------- MODULE MCMTokenMarket ---------------------------
(***************************************************************************)
(* Instances of MTokenMarket for TLC.                                      *)
(***************************************************************************)
EXTENDS MTokenMarket, TLC

\* Below the kink three fifths of the utilization is the rate of a block; the jump
\* makes it steeper.
Steep == RatesPerBlock(2, 0, 6, 20, 5)
Flat == RatesPerBlock(2, 2, 4, 40, 8)
MCModels == {Steep, Flat}

UsersAlike == Permutations(Users)
=============================================================================
