--------------------------- MODULE MCOperatorRisk ----------------------------
(***************************************************************************)
(* Instances of OperatorRisk for TLC: a collateral market whose price      *)
(* moves and a market to borrow from, which may be deprecated.  Scale is   *)
(* 4: 3 of 4 is a collateral factor of three quarters, 5 of 4 an incentive *)
(* of one quarter.                                                         *)
(***************************************************************************)
EXTENDS OperatorRisk

CONSTANTS Collateral, Debt, FewFactors, FewPrices, FewRates

MCFactors == [m \in Markets |-> IF m = Collateral THEN FewFactors ELSE {2}]
MCPrices == [m \in Markets |-> IF m = Collateral THEN FewPrices ELSE {10}]
MCRates == [m \in Markets |-> IF m = Collateral THEN FewRates ELSE {4}]
MCInitialRate == [m \in Markets |-> 4]
MCIncentive == [m \in Markets |-> 5]
MCMaxTokens == [m \in Markets |-> IF m = Collateral THEN 2 ELSE 1]
MCMaxDebt == [m \in Markets |-> IF m = Collateral THEN 0 ELSE 2]
MCSymmetry == Permutations(Accounts)
MCPauses == {<<Debt, "Borrow">>}
=============================================================================
