----------------------------- MODULE MaldaTypes -----------------------------
(***************************************************************************)
(* Constants shared by the gateway, the host market and their composition: *)
(* who there is, which chains there are, and what a proof journal says.    *)
(* One underlying asset is modelled: one host market (mErc20Host on Linea) *)
(* and one mTokenGateway per extension chain, all at the same address.     *)
(*                                                                         *)
(* In every module a definition marked "mutant" is a plausible bug in the  *)
(* definition after it; no specification uses it.                          *)
(***************************************************************************)
EXTENDS Integers, FiniteSets

CONSTANTS
    Users,        \* accounts that supply, borrow and withdraw
    Forwarders,   \* holders of PROOF_FORWARDER or PROOF_BATCH_FORWARDER
    Owner,        \* owner of the gateways, admin of the host market
    Guardians,    \* holders of GUARDIAN_PAUSE
    ExtChains,    \* chain ids with an mTokenGateway
    HostChain,    \* LINEA_CHAIN_ID
    Markets,      \* addresses of the markets (host and gateways share them)
    Market,       \* the market modelled here
    Amounts,      \* the token amounts a call may name
    MaxAcc,       \* bound on every accumulator
    MaxCash,      \* bound on the cash paid in on the host chain
    MaxJournals,  \* bound on the number of proofs in circulation
    PausableOps,  \* bound: the operation types the guardians touch
    AdminOps      \* bound: the administrative calls a run exercises

AllChains == ExtChains \cup {HostChain}
Accounts == Users \cup Forwarders \cup Guardians \cup {Owner}

ExtSlots == ExtChains \X Users
AllSlots == AllChains \X Users

\* mTokenProofDecoderLib.decodeJournal: one journal entry of a proof.
Journal ==
    [sender       : Users,
     market       : Markets,
     accAmountIn  : Nat,
     accAmountOut : Nat,
     chainId      : AllChains,
     dstChainId   : AllChains,
     L1inclusion  : BOOLEAN]

GatewayOps == {"AmountIn", "AmountOutHere", "Rebalancing"}
HostOps == {"Mint", "Borrow", "Repay", "Redeem", "Liquidate", "Seize", "Rebalancing"}

ASSUME ChainsAssumption == HostChain \notin ExtChains
\* Addresses and chain ids are integers of a fixed width.
ASSUME FiniteAssumption == IsFiniteSet(Users) /\ IsFiniteSet(ExtChains)
ASSUME MarketAssumption == Market \in Markets
ASSUME AmountsAssumption == Amounts \subseteq Nat \ {0}
ASSUME BoundsAssumption == MaxAcc \in Nat /\ MaxCash \in Nat /\ MaxJournals \in Nat

(***************************************************************************)
(* _verifyProof: only a forwarder may use a proof of a block that is not   *)
(* included on L1.  PROOF_BATCH_FORWARDER is BatchSubmitter, which has     *)
(* verified the journals already.                                          *)
(***************************************************************************)
ProofAcceptedNoSelfService(caller, j) == caller \in Forwarders   \* mutant
ProofAccepted(caller, j) == caller \in Forwarders \/ j.L1inclusion

\* _checkSender, with callers the pairs <<user, caller>> of allowedCallers.
SenderAccepted(callers, caller, user) ==
    \/ caller = user
    \/ <<user, caller>> \in callers
    \/ caller = Owner
    \/ caller \in Forwarders
=============================================================================
