-------------------------- MODULE MaldaCrossChain ---------------------------
(***************************************************************************)
(* The gateways, the host market, the proofs that travel between them and  *)
(* the bridges that carry liquidity.                                       *)
(*                                                                         *)
(* A proof journal is a snapshot of getProofData on one chain.  Journals   *)
(* are never consumed: a set of them models proofs that are used late,     *)
(* twice, out of order or never, by anyone who holds them.  A step is one  *)
(* transaction on one chain, or one proof.                                 *)
(***************************************************************************)
EXTENDS MaldaGateway, MaldaHost, Functions

CONSTANTS
    MaxSlippage, SlippagePrecision,  \* AcrossBridge.maxSlippage, SLIPPAGE_PRECISION
    ProofTargets,   \* bound: ProofTargets[c], the dstChainIds asked for on c
    ProofFlags,     \* bound: the L1inclusion flags asked for
    OtherJournals,  \* proofs in circulation about other markets
    MaxTransit      \* bound on the tokens in one bridge

VARIABLES
    journals,    \* the proofs that exist
    inTransit,   \* inTransit[c]: tokens in a bridge on their way to c
    bridgeLoss   \* relay fees, and refunds of expired bridge deposits

vars == <<gatewayVars, hostVars, journals, inTransit, bridgeLoss>>

ASSUME OtherJournalsAssumption ==
    OtherJournals \subseteq {j \in Journal : j.market # Market}
ASSUME ProofsAssumption ==
    /\ ProofTargets \in [AllChains -> SUBSET AllChains]
    /\ ProofFlags \subseteq BOOLEAN

\* Every accumulator, balance and amount in a bridge stays a natural number:
\* the require before each unsigned subtraction of the contracts is enough.
TypeOK ==
    /\ GatewayTypeOK
    /\ HostTypeOK
    /\ journals \in SUBSET Journal
    /\ inTransit \in [AllChains -> Nat]
    /\ bridgeLoss \in Nat

Init ==
    /\ GatewayInit
    /\ HostInit
    /\ journals = OtherJournals
    /\ inTransit = [c \in AllChains |-> 0]
    /\ bridgeLoss = 0

(***************************************************************************)
(* Proofs.  The guest program calls getProofData(user, dst) on the market  *)
(* of chain c.  The gateway ignores dst; the host answers for that chain.  *)
(***************************************************************************)
GatewayProofDataSwapped(c, user) ==   \* mutant
    <<accAmountOut[<<c, user>>], accAmountIn[<<c, user>>]>>
GatewayProofData(c, user) == <<accAmountIn[<<c, user>>], accAmountOut[<<c, user>>]>>
HostProofData(user, dst) == <<inPerChain[<<dst, user>>], outPerChain[<<dst, user>>]>>

JournalOf(user, data, c, dst, flag) ==
    [sender |-> user, market |-> Market, accAmountIn |-> data[1], accAmountOut |-> data[2],
     chainId |-> c, dstChainId |-> dst, L1inclusion |-> flag]

Circulate(j) ==
    /\ j \notin journals
    /\ Cardinality(journals \ OtherJournals) < MaxJournals
    /\ journals' = journals \cup {j}
    /\ UNCHANGED <<gatewayVars, hostVars, inTransit, bridgeLoss>>

ProveGateway(c, user, dst, flag) ==
    Circulate(JournalOf(user, GatewayProofData(c, user), c, dst, flag))

ProveHost(user, dst, flag) ==
    Circulate(JournalOf(user, HostProofData(user, dst), HostChain, dst, flag))

(***************************************************************************)
(* Rebalancing: Rebalancer.sendMsg extracts from a market and hands the    *)
(* tokens to a bridge; a relayer fills the deposit on the other side, or   *)
(* it expires and the bridge refunds its depositor, the Rebalancer, which  *)
(* has no way to return tokens to a market.                                *)
(***************************************************************************)
Extract(c, amount) ==
    \/ c = HostChain /\ HostExtract(amount) /\ UNCHANGED gatewayVars
    \/ c \in ExtChains /\ GatewayExtract(c, amount) /\ UNCHANGED hostVars

SlippageAccepted(amount, fee) == fee * SlippagePrecision <= amount * MaxSlippage

BridgeSend(src, dst, amount, fee) ==
    /\ src # dst
    /\ fee <= amount
    /\ SlippageAccepted(amount, fee)
    /\ inTransit[dst] + amount <= MaxTransit
    /\ Extract(src, amount)
    /\ inTransit' = [inTransit EXCEPT ![dst] = @ + (amount - fee)]
    /\ bridgeLoss' = bridgeLoss + fee
    /\ UNCHANGED journals

\* handleV3AcrossMessage: the tokens are transferred to the market.
BridgeFill(dst, amount) ==
    /\ inTransit[dst] >= amount
    /\ inTransit' = [inTransit EXCEPT ![dst] = @ - amount]
    /\ IF dst = HostChain
       THEN /\ hostBalance' = hostBalance + amount
            /\ UNCHANGED gatewayBalance
       ELSE /\ gatewayBalance' = [gatewayBalance EXCEPT ![dst] = @ + amount]
            /\ UNCHANGED hostBalance
    /\ UNCHANGED <<accAmountIn, accAmountOut, gatewayAccess, inPerChain, outPerChain,
                   totalUnderlying, hostAccess, hostLimits, journals, bridgeLoss>>

BridgeExpire(dst, amount) ==
    /\ "expiry" \in AdminOps
    /\ inTransit[dst] >= amount
    /\ inTransit' = [inTransit EXCEPT ![dst] = @ - amount]
    /\ bridgeLoss' = bridgeLoss + amount
    /\ UNCHANGED <<gatewayVars, hostVars, journals>>

(***************************************************************************)
(* The steps of each chain, with everything else unchanged                 *)
(***************************************************************************)
GatewayUserStep(c) ==
    /\ \/ \E sender \in Accounts, receiver \in Users, a \in Amounts :
            SupplyOnHost(c, sender, receiver, a)
       \/ \E caller \in Accounts, receiver \in Accounts, j \in journals, a \in Amounts :
            OutHere(c, caller, j, a, receiver)
       \/ \E user \in Users, caller \in Users, status \in BOOLEAN :
            GatewayUpdateAllowedCaller(c, user, caller, status)
    /\ UNCHANGED <<hostVars, journals, inTransit, bridgeLoss>>

GatewayAdminStep(c) ==
    /\ \/ \E caller \in Accounts, op \in GatewayOps, state \in BOOLEAN :
            GatewaySetPaused(c, caller, op, state)
       \/ \E account \in Users, state \in BOOLEAN : GatewaySetBlacklisted(c, account, state)
       \/ \E state \in BOOLEAN : GatewaySetWhitelist(c, state)
       \/ \E account \in Users, state \in BOOLEAN : GatewaySetWhitelistedUser(c, account, state)
    /\ UNCHANGED <<hostVars, journals, inTransit, bridgeLoss>>

HostProofStep ==
    /\ \E caller \in Accounts, j \in journals, a \in Amounts :
         \/ MintExternal(caller, j, a)
         \/ RepayExternal(caller, j, a)
         \/ \E borrower \in Accounts : LiquidateExternal(caller, j, borrower, a)
    /\ UNCHANGED <<gatewayVars, journals, inTransit, bridgeLoss>>

HostUserStep ==
    /\ \/ \E user \in Users, op \in {"Redeem", "Borrow"}, a, got \in Amounts, dst \in AllChains :
            PerformExtensionCall(user, op, a, got, dst)
       \/ \E payer, holder \in Accounts, a \in Amounts, op \in DOMAIN StoppedBy :
            CashIn(op, payer, holder, a) \/ CashOut(op, holder, a)
       \/ \E user \in Users, a, b \in Amounts \cup {0} : MigratePosition(user, a, b)
       \/ \E user \in Users, caller \in Users, status \in BOOLEAN :
            HostUpdateAllowedCaller(user, caller, status)
    /\ UNCHANGED <<gatewayVars, journals, inTransit, bridgeLoss>>

HostAdminStep ==
    /\ \/ \E c \in AllChains, status \in BOOLEAN : UpdateAllowedChain(c, status)
       \/ \E caller \in Accounts, op \in HostOps, state \in BOOLEAN :
            HostSetPaused(caller, op, state)
       \/ \E account \in Users, state \in BOOLEAN :
            HostSetBlacklisted(account, state) \/ HostSetWhitelistedUser(account, state)
       \/ \E state \in BOOLEAN : HostSetWhitelist(state)
       \/ SetOutflow
    /\ UNCHANGED <<gatewayVars, journals, inTransit, bridgeLoss>>

\* What happens to the host market from outside.
HostSurroundingsStep ==
    /\ \/ OtherMarketsOutflow
       \/ OutflowWindowElapses
       \/ \E reason \in ModelledRefusals : RefusalChanges(reason)
    /\ UNCHANGED <<gatewayVars, journals, inTransit, bridgeLoss>>

ProofStep ==
    \E c \in AllChains : \E user \in Users, dst \in ProofTargets[c], flag \in ProofFlags :
        \/ c = HostChain /\ ProveHost(user, dst, flag)
        \/ c \in ExtChains /\ ProveGateway(c, user, dst, flag)

BridgeStep ==
    \E dst \in AllChains, a \in Amounts :
        \/ \E src \in AllChains, fee \in 0..a : BridgeSend(src, dst, a, fee)
        \/ BridgeFill(dst, a)
        \/ BridgeExpire(dst, a)

Next ==
    \/ \E c \in ExtChains : GatewayUserStep(c) \/ GatewayAdminStep(c)
    \/ HostProofStep
    \/ HostUserStep
    \/ HostAdminStep
    \/ HostSurroundingsStep
    \/ ProofStep
    \/ BridgeStep

Spec == Init /\ [][Next]_vars

-----------------------------------------------------------------------------
(***************************************************************************)
(* Safety                                                                  *)
(***************************************************************************)

\* What a journal says is at most what its chain has now.
NeverAhead(j) ==
    IF j.chainId = HostChain
    THEN /\ j.accAmountIn <= inPerChain[<<j.dstChainId, j.sender>>]
         /\ j.accAmountOut <= outPerChain[<<j.dstChainId, j.sender>>]
    ELSE /\ j.accAmountIn <= accAmountIn[<<j.chainId, j.sender>>]
         /\ j.accAmountOut <= accAmountOut[<<j.chainId, j.sender>>]

\* A proof of this market may be old but is never ahead of the chain it
\* speaks about: both accumulators it carries are at most the present ones.
JournalsNeverAhead == \A j \in journals : j.market = Market => NeverAhead(j)

\* The host never credits (mints, repays, liquidates with) more than the
\* account supplied on that chain, whichever proofs are replayed in whatever
\* order; and nothing is ever credited for the host chain itself.
NoDoubleCredit ==
    /\ \A s \in ExtSlots : inPerChain[s] <= accAmountIn[s]
    /\ \A u \in Users : inPerChain[<<HostChain, u>>] = 0

\* A gateway never pays an account more than the host credited it there.
NoDoublePayout == \A s \in ExtSlots : accAmountOut[s] <= outPerChain[s]

UncreditedDeposits == SumFunction(accAmountIn) - SumFunction(inPerChain)
OwedWithdrawals == SumFunction(outPerChain) - SumFunction(accAmountOut)
TokensHeld == hostBalance + SumFunction(gatewayBalance) + SumFunction(inTransit)

\* The tokens held on all chains and in bridges are, up to what the bridges
\* kept, exactly the host's book cash plus the deposits not yet credited
\* plus the withdrawals not yet paid.
Conservation ==
    TokensHeld + bridgeLoss = totalUnderlying + UncreditedDeposits + OwedWithdrawals

\* Deposits (gateway to host) and withdrawals (host to gateway) each
\* implement the abstract ledger.
DepositLedger == INSTANCE CreditLedger
    WITH Slots <- ExtSlots, credited <- accAmountIn,
         claimed <- [s \in ExtSlots |-> inPerChain[s]]
WithdrawalLedger == INSTANCE CreditLedger
    WITH Slots <- ExtSlots, credited <- [s \in ExtSlots |-> outPerChain[s]],
         claimed <- accAmountOut

\* What the host credits to an account is claimed from what its gateway
\* took in for it, in any order, and never more than that.
DepositsImplementLedger == DepositLedger!Spec

\* What a gateway pays an account is claimed from what the host owes it
\* there, and never more than that.
WithdrawalsImplementLedger == WithdrawalLedger!Spec

-----------------------------------------------------------------------------
(***************************************************************************)
(* Service without and with the sequencer                                  *)
(***************************************************************************)
Owed(s) == accAmountOut[s] < outPerChain[s]
Uncredited(s) == inPerChain[s] < accAmountIn[s]

FreshHostProof(c, u) == JournalOf(u, HostProofData(u, c), HostChain, c, TRUE)
FreshGatewayProof(c, u) == JournalOf(u, GatewayProofData(c, u), c, HostChain, TRUE)

\* An account that is owed a withdrawal can be paid by its own call, with a
\* fresh L1-included proof and no sequencer, unless the gateway is empty,
\* paused, or blacklists it (mTokenGateway.outHere).
SelfServicePayout ==
    \A c \in ExtChains, u \in Users :
        /\ Owed(<<c, u>>)
        /\ gatewayBalance[c] > 0
        /\ "AmountOutHere" \notin gatewayPaused[c]
        /\ u \notin gatewayBlacklist[c]
        => ENABLED OutHere(c, u, FreshHostProof(c, u), 1, u)

\* A deposit that the host has not credited can be turned into mTokens by
\* the depositor's own call, unless minting is paused, the chain is not
\* allowed, the account is blacklisted or not on a whitelist in force, the
\* outflow window is used up, the amount is too small for a first mint, or
\* the borrow rate limit, the supply cap or a missing price stops the market
\* (mErc20Host.mintExternal).  There is no other way to be refused.
SelfServiceCredit ==
    \A c \in ExtChains, u \in Users :
        /\ Uncredited(<<c, u>>)
        /\ c \in allowedChains
        /\ "Mint" \notin hostPaused
        /\ u \notin hostBlacklist
        /\ hostWhitelistEnabled => u \in hostWhitelisted
        /\ outflow.limit = 0 \/ outflow.over \/ outflow.volume < outflow.limit
        /\ opened \/ FirstMint <= 1
        /\ refusals = {}
        => ENABLED MintExternal(u, FreshGatewayProof(c, u), 1)

(***************************************************************************)
(* Liveness.  The sequencer proves every change it has not proved yet and  *)
(* keeps submitting what it holds; the rebalancer keeps sending liquidity  *)
(* to a gateway that owes more than it has; bridges deliver.  Time passes  *)
(* the end of every outflow window, and the sequencer, which competes with *)
(* other deposits and other markets for the volume of the next one, wins   *)
(* if it gets the chance again and again (strong fairness).                *)
(***************************************************************************)
Others == <<journals, inTransit, bridgeLoss>>

ProveAccount(c, u) ==
    \E flag \in ProofFlags :
        \/ c \in ProofTargets[HostChain] /\ ProveHost(u, c, flag)
        \/ HostChain \in ProofTargets[c] /\ ProveGateway(c, u, HostChain, flag)

PayOut(c, u) ==
    /\ \E f \in Forwarders, j \in journals, a \in Amounts :
         j.sender = u /\ OutHere(c, f, j, a, u)
    /\ UNCHANGED <<hostVars, Others>>

CreditDeposit(c, u) ==
    /\ \E f \in Forwarders, j \in journals, a \in Amounts :
         j.sender = u /\ j.chainId = c /\ MintExternal(f, j, a)
    /\ UNCHANGED <<gatewayVars, Others>>

Refill(c) ==
    /\ \E u \in Users : Owed(<<c, u>>)
    /\ gatewayBalance[c] = 0
    /\ \E src \in AllChains, a \in Amounts : BridgeSend(src, c, a, 0)

Deliver(c) == \E a \in Amounts : BridgeFill(c, a)

Fairness ==
    /\ \A c \in ExtChains, u \in Users :
         /\ WF_vars(ProveAccount(c, u))
         /\ SF_vars(PayOut(c, u))
         /\ SF_vars(CreditDeposit(c, u))
    /\ \A c \in ExtChains : SF_vars(Refill(c))
    /\ \A c \in AllChains : WF_vars(Deliver(c))
    /\ WF_vars(OutflowWindowElapses /\ UNCHANGED <<gatewayVars, Others>>)

FairSpec == Spec /\ Fairness

PaysOut(c, u) ==
    /\ {"AmountOutHere", "Rebalancing"} \cap gatewayPaused[c] = {}
    /\ u \notin gatewayBlacklist[c]
CreditsDeposits(c, u) ==
    /\ c \in allowedChains
    /\ "Mint" \notin hostPaused
    /\ u \notin hostBlacklist
    /\ hostWhitelistEnabled => u \in hostWhitelisted
    /\ opened \/ FirstMint <= 1
    /\ refusals = {}

\* A withdrawal the host has credited is eventually paid out in full on its
\* extension chain, once the gateway's halts stop: liquidity anywhere in the
\* system is enough, because the books never promise more than it.
WithdrawalEventuallyPaid ==
    \A c \in ExtChains, u \in Users :
        <>[]PaysOut(c, u) => (Owed(<<c, u>>) ~> ~Owed(<<c, u>>))

\* A deposit is eventually credited in full on the host, once the host's
\* halts and refusals stop and the market is open to the smallest amount.
\* An outflow limit is no excuse: what one window does not admit the next
\* one does, whatever others use of it (mErc20Host.mintExternal).
DepositEventuallyCredited ==
    \A c \in ExtChains, u \in Users :
        <>[]CreditsDeposits(c, u) => (Uncredited(<<c, u>>) ~> ~Uncredited(<<c, u>>))
=============================================================================
