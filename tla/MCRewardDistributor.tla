------------------------- MODULE MCRewardDistributor -------------------------
(***************************************************************************)
(* Instances of RewardDistributor for TLC.                                 *)
(***************************************************************************)
EXTENDS RewardDistributor, TLC

\* Three fifths of the utilization is the rate of a block.
MCModels == {RatesPerBlock(2, 0, 6, 20, 5)}

\* Both sides earn, or the supply alone and more slowly.
MCSpeeds == {[supply |-> 5, borrow |-> 5], [supply |-> 2, borrow |-> 0]}

UsersAlike == Permutations(Users)
=============================================================================
