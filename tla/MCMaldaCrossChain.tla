------------------------- MODULE MCMaldaCrossChain --------------------------
(***************************************************************************)
(* Instances of MaldaCrossChain for TLC.                                   *)
(***************************************************************************)
EXTENDS MaldaCrossChain, TLC

CONSTANTS OtherMarket, HasOtherProof

\* Proofs are asked for with the counterpart as destination, or (the guest
\* does not care) with any other chain.
MCProofTargets == [c \in AllChains |-> IF c = HostChain THEN ExtChains ELSE {HostChain}]
\* Or, where only deposits matter, no proof of the host is asked for.
MCProofTargetsHost == [c \in AllChains |-> IF c = HostChain THEN {} ELSE {HostChain}]
MCProofTargetsAny == [c \in AllChains |-> AllChains]

\* Another market's proof: large accumulators for every account, both ways.
MCOtherJournals ==
    IF HasOtherProof
    THEN {[sender |-> u, market |-> OtherMarket, accAmountIn |-> MaxAcc,
           accAmountOut |-> MaxAcc, chainId |-> c, dstChainId |-> d, L1inclusion |-> TRUE] :
              u \in Users, c \in AllChains, d \in AllChains}
    ELSE {}
=============================================================================
