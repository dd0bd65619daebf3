--------------------------- MODULE JumpRateModel ----------------------------
(***************************************************************************)
(* JumpRateModelV4.sol: the borrow rate of a market from its utilization,  *)
(* with the truncating arithmetic of the code.  A model p is the record of *)
(* its parameters per block; Scale stands for 1e18.                        *)
(***************************************************************************)
EXTENDS Integers

CONSTANT Scale

ASSUME ScaleAssumption == Scale \in Nat \ {0}

\* The unsigned subtraction and the division do not fail.
UtilizationThere(cash, borrows, reserves) == borrows = 0 \/ cash + borrows > reserves

utilizationRate(cash, borrows, reserves) ==
    IF borrows = 0 THEN 0 ELSE (borrows * Scale) \div (cash + borrows - reserves)

getBorrowRate(p, cash, borrows, reserves) ==
    LET util == utilizationRate(cash, borrows, reserves) IN
    IF util <= p.kink
    THEN (util * p.multiplierPerBlock) \div Scale + p.baseRatePerBlock
    ELSE ((util - p.kink) * p.jumpMultiplierPerBlock) \div Scale
         + (p.kink * p.multiplierPerBlock) \div Scale + p.baseRatePerBlock

\* What suppliers earn of it, on all that is not reserves.
getSupplyRate(p, cash, borrows, reserves, factor) ==
    LET rateToPool == (getBorrowRate(p, cash, borrows, reserves) * (Scale - factor)) \div Scale
    IN  (utilizationRate(cash, borrows, reserves) * rateToPool) \div Scale

\* _updateJumpRateModel: the parameters are given per year, the slope below the
\* kink as the rate at the kink.
RatesPerBlock(blocksPerYear, base, multiplier, jumpMultiplier, kink) ==
    [baseRatePerBlock |-> base \div blocksPerYear,
     multiplierPerBlock |-> (multiplier * Scale) \div (blocksPerYear * kink),
     jumpMultiplierPerBlock |-> jumpMultiplier \div blocksPerYear,
     kink |-> kink]
=============================================================================
