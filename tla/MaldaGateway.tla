---------------------------- MODULE MaldaGateway ----------------------------
(***************************************************************************)
(* mTokenGateway.sol: the contract of an extension chain.  Every variable  *)
(* is a function of the chain, because each chain has its own contract.    *)
(* A journal handed to OutHere is one the ZK verifier accepts; where such  *)
(* journals come from is MaldaCrossChain's business.  outHere loops over a *)
(* batch and reverts as a whole, so a batch that succeeds is a sequence of *)
(* the single steps below and one that fails changes nothing.              *)
(* Not modelled: gasFee and the native coin it is paid in.                 *)
(***************************************************************************)
EXTENDS MaldaTypes

VARIABLES
    accAmountIn,       \* accAmountIn[c, u]: supplied on c for u, ever
    accAmountOut,      \* accAmountOut[c, u]: paid out on c to u, ever
    gatewayBalance,    \* underlying.balanceOf(gateway)
    gatewayPaused,     \* the operation types paused on c
    gatewayBlacklist,  \* c's Blacklister
    gatewayCallers,    \* allowedCallers, as pairs <<user, caller>>
    whitelistEnabled,
    userWhitelisted

gatewayAccess ==
    <<gatewayPaused, gatewayBlacklist, gatewayCallers, whitelistEnabled, userWhitelisted>>
gatewayMoney == <<accAmountIn, accAmountOut, gatewayBalance>>
gatewayVars == <<gatewayMoney, gatewayAccess>>

\* The types of a gateway's storage; balances and accumulators are unsigned.
GatewayTypeOK ==
    /\ accAmountIn \in [ExtSlots -> Nat]
    /\ accAmountOut \in [ExtSlots -> Nat]
    /\ gatewayBalance \in [ExtChains -> Nat]
    /\ gatewayPaused \in [ExtChains -> SUBSET GatewayOps]
    /\ gatewayBlacklist \in [ExtChains -> SUBSET Accounts]
    /\ gatewayCallers \in [ExtChains -> SUBSET (Accounts \X Accounts)]
    /\ whitelistEnabled \in [ExtChains -> BOOLEAN]
    /\ userWhitelisted \in [ExtChains -> SUBSET Accounts]

GatewayInit ==
    /\ accAmountIn = [s \in ExtSlots |-> 0]
    /\ accAmountOut = [s \in ExtSlots |-> 0]
    /\ gatewayBalance = [c \in ExtChains |-> 0]
    /\ gatewayPaused = [c \in ExtChains |-> {}]
    /\ gatewayBlacklist = [c \in ExtChains |-> {}]
    /\ gatewayCallers = [c \in ExtChains |-> {}]
    /\ whitelistEnabled = [c \in ExtChains |-> FALSE]
    /\ userWhitelisted = [c \in ExtChains |-> {}]

NotBlacklisted(c, accounts) == accounts \cap gatewayBlacklist[c] = {}

(***************************************************************************)
(* Users                                                                   *)
(***************************************************************************)

\* supplyOnHost: sender pays, receiver is credited.
SupplyOnHost(c, sender, receiver, amount) ==
    /\ "AmountIn" \notin gatewayPaused[c]
    /\ whitelistEnabled[c] => sender \in userWhitelisted[c]
    /\ NotBlacklisted(c, {sender, receiver})
    /\ accAmountIn[<<c, receiver>>] + amount <= MaxAcc
    /\ gatewayBalance' = [gatewayBalance EXCEPT ![c] = @ + amount]
    /\ accAmountIn' = [accAmountIn EXCEPT ![<<c, receiver>>] = @ + amount]
    /\ UNCHANGED <<accAmountOut, gatewayAccess>>

JournalForGatewayAnyChain(c, j) ==   \* mutant
    /\ j.market = Market
    /\ j.chainId = HostChain

\* The journal is the host's word about this gateway, of this chain.
JournalForGateway(c, j) ==
    /\ j.market = Market
    /\ j.chainId = HostChain
    /\ j.dstChainId = c

OutAvailableReplayed(c, j, amount) == j.accAmountOut >= amount   \* mutant
OutAvailableStrict(c, j, amount) ==   \* mutant
    j.accAmountOut - accAmountOut[<<c, j.sender>>] > amount

\* What the host has credited and this gateway has not paid yet.  The
\* subtraction is checked in the code: it reverts when it would be negative.
OutAvailable(c, j, amount) == j.accAmountOut - accAmountOut[<<c, j.sender>>] >= amount

\* outHere with one journal.  receiver is screened and then overwritten:
\* the journal's sender is paid.
OutHere(c, caller, j, amount, receiver) ==
    /\ "AmountOutHere" \notin gatewayPaused[c]
    /\ NotBlacklisted(c, {caller, receiver})
    /\ ProofAccepted(caller, j)
    /\ SenderAccepted(gatewayCallers[c], caller, j.sender)
    /\ JournalForGateway(c, j)
    /\ OutAvailable(c, j, amount)
    /\ gatewayBalance[c] >= amount
    /\ accAmountOut' = [accAmountOut EXCEPT ![<<c, j.sender>>] = @ + amount]
    /\ gatewayBalance' = [gatewayBalance EXCEPT ![c] = @ - amount]
    /\ UNCHANGED <<accAmountIn, gatewayAccess>>

\* updateAllowedCallerStatus, called by user.
GatewayUpdateAllowedCaller(c, user, caller, status) ==
    /\ "callers" \in AdminOps
    /\ gatewayCallers' =
         [gatewayCallers EXCEPT ![c] = IF status THEN @ \cup {<<user, caller>>}
                                                 ELSE @ \ {<<user, caller>>}]
    /\ UNCHANGED <<gatewayMoney, gatewayPaused, gatewayBlacklist,
                   whitelistEnabled, userWhitelisted>>

(***************************************************************************)
(* Rebalancer and administration                                           *)
(***************************************************************************)

\* extractForRebalancing, called by the Rebalancer.
GatewayExtract(c, amount) ==
    /\ "Rebalancing" \notin gatewayPaused[c]
    /\ gatewayBalance[c] >= amount
    /\ gatewayBalance' = [gatewayBalance EXCEPT ![c] = @ - amount]
    /\ UNCHANGED <<accAmountIn, accAmountOut, gatewayAccess>>

\* setPaused: a guardian may pause, only the owner may unpause.
GatewaySetPaused(c, caller, op, state) ==
    /\ "pause" \in AdminOps
    /\ op \in PausableOps \cap GatewayOps
    /\ caller = Owner \/ (state /\ caller \in Guardians)
    /\ gatewayPaused' = [gatewayPaused EXCEPT ![c] = IF state THEN @ \cup {op} ELSE @ \ {op}]
    /\ UNCHANGED <<gatewayMoney, gatewayBlacklist, gatewayCallers,
                   whitelistEnabled, userWhitelisted>>

\* The chain's Blacklister lists or clears an account.
GatewaySetBlacklisted(c, account, state) ==
    /\ "blacklist" \in AdminOps
    /\ gatewayBlacklist' =
         [gatewayBlacklist EXCEPT ![c] = IF state THEN @ \cup {account} ELSE @ \ {account}]
    /\ UNCHANGED <<gatewayMoney, gatewayPaused, gatewayCallers,
                   whitelistEnabled, userWhitelisted>>

\* enableWhitelist, disableWhitelist.
GatewaySetWhitelist(c, state) ==
    /\ "whitelist" \in AdminOps
    /\ whitelistEnabled' = [whitelistEnabled EXCEPT ![c] = state]
    /\ UNCHANGED <<gatewayMoney, gatewayPaused, gatewayBlacklist, gatewayCallers,
                   userWhitelisted>>

\* setWhitelistedUser.
GatewaySetWhitelistedUser(c, account, state) ==
    /\ "whitelist" \in AdminOps
    /\ userWhitelisted' =
         [userWhitelisted EXCEPT ![c] = IF state THEN @ \cup {account} ELSE @ \ {account}]
    /\ UNCHANGED <<gatewayMoney, gatewayPaused, gatewayBlacklist, gatewayCallers,
                   whitelistEnabled>>
=============================================================================
