----------------------------- MODULE MaldaHost ------------------------------
(***************************************************************************)
(* mErc20Host.sol (with the mToken and Operator code it calls): the market *)
(* on the host chain, as far as the cross-chain accounting sees it.  Kept: *)
(* the accumulators per chain and account, the book cash totalUnderlying   *)
(* (which counts the liquidity of ALL chains), and the tokens the contract *)
(* really holds.  Kept too is what may refuse a deposit: the Operator's    *)
(* outflow limit, the size of the first mint, and (as refusals that come   *)
(* and go) the borrow rate limit, the supply cap and a missing price.      *)
(* Abstracted: interest, the exchange rate, the borrow cap and the         *)
(* liquidity check, so a borrow or a redemption may always succeed, and a  *)
(* redemption may give any amount the cash check admits.  The batch loops  *)
(* are treated as in MaldaGateway.                                         *)
(***************************************************************************)
EXTENDS MaldaTypes

CONSTANTS
    OutflowLimits,     \* values the owner may give the outflow limit (0: none)
    FirstMint,         \* the least amount worth the first 1000 mTokens
    ModelledRefusals   \* bound: the refusals that come and go in a run

VARIABLES
    inPerChain,       \* acc[c].inPerChain[u]: deposits of chain c used up
    outPerChain,      \* acc[c].outPerChain[u]: withdrawals owed on chain c
    totalUnderlying,  \* book cash, what _getCashPrior returns
    hostBalance,      \* underlying.balanceOf(market)
    allowedChains,
    hostPaused,       \* Operator._paused for this market
    hostBlacklist,    \* Linea's Blacklister
    hostCallers,      \* allowedCallers, as pairs <<user, caller>>
    hostWhitelistEnabled,   \* Operator.whitelistEnabled
    hostWhitelisted,        \* Operator.userWhitelisted
    outflow,   \* the Operator's limitPerTimePeriod, cumulativeOutflowVolume, and
               \* whether the window that began at lastOutflowResetTimestamp is over
    opened,    \* the first mint has happened: totalSupply # 0
    refusals   \* what makes the lending code refuse at present

hostAccess ==
    <<allowedChains, hostPaused, hostBlacklist, hostCallers, hostWhitelistEnabled,
      hostWhitelisted>>
hostMoney == <<inPerChain, outPerChain, totalUnderlying, hostBalance>>
hostLimits == <<outflow, opened, refusals>>
hostVars == <<hostMoney, hostAccess, hostLimits>>

MarketRefusals == {"BorrowRate", "SupplyCap", "Price"}

ASSUME HostAssumption ==
    /\ OutflowLimits \subseteq Nat
    /\ FirstMint \in Nat
    /\ ModelledRefusals \subseteq MarketRefusals

\* The types of the market's storage; cash and accumulators are unsigned.
HostMarketTypeOK ==
    /\ inPerChain \in [AllSlots -> Nat]
    /\ outPerChain \in [AllSlots -> Nat]
    /\ totalUnderlying \in Nat
    /\ hostBalance \in Nat
    /\ allowedChains \in SUBSET AllChains
    /\ hostPaused \in SUBSET HostOps
    /\ hostBlacklist \in SUBSET Accounts
    /\ hostCallers \in SUBSET (Accounts \X Accounts)
    /\ hostWhitelistEnabled \in BOOLEAN
    /\ hostWhitelisted \in SUBSET Accounts

HostLimitsTypeOK ==
    /\ outflow \in [limit : Nat, volume : Nat, over : BOOLEAN]
    /\ opened \in BOOLEAN
    /\ refusals \in SUBSET MarketRefusals

HostTypeOK == HostMarketTypeOK /\ HostLimitsTypeOK

\* A market fresh from initialize, its chains already enabled, listed by an
\* Operator whose first window has passed.
HostInit ==
    /\ inPerChain = [s \in AllSlots |-> 0]
    /\ outPerChain = [s \in AllSlots |-> 0]
    /\ totalUnderlying = 0
    /\ hostBalance = 0
    /\ allowedChains = ExtChains
    /\ hostPaused = {}
    /\ hostBlacklist = {}
    /\ hostCallers = {}
    /\ hostWhitelistEnabled = FALSE
    /\ hostWhitelisted = {}
    /\ outflow = [limit |-> 0, volume |-> 0, over |-> TRUE]
    /\ opened = FALSE
    /\ refusals = {}

(***************************************************************************)
(* The Operator's beforeMToken... hooks: which pauses stop an operation,   *)
(* which operations require the holder of the position to be whitelisted,  *)
(* and which screen the accounts they touch against the blacklist.         *)
(***************************************************************************)
StoppedBy ==
    [Mint |-> {"Mint"}, Redeem |-> {"Redeem"}, Borrow |-> {"Borrow"}, Repay |-> {"Repay"},
     Liquidate |-> {"Liquidate", "Repay", "Seize"}, AddReserves |-> {}, ReduceReserves |-> {}]

OperatorAllows(op, accounts, holder) ==
    /\ StoppedBy[op] \cap hostPaused = {}
    /\ hostWhitelistEnabled /\ op \notin {"AddReserves", "ReduceReserves"}
         => holder \in hostWhitelisted
    /\ op \in {"Mint", "Redeem", "Borrow", "Liquidate"} => accounts \cap hostBlacklist = {}

(***************************************************************************)
(* Operator.checkOutflowVolumeLimit, amounts at a price of 1.  All markets *)
(* share the volume.  OutflowLimit models it with time and prices.         *)
(***************************************************************************)
OutflowBaseStale == outflow.volume   \* mutant

\* What an amount is added to: nothing, once the window is over.
OutflowBase == IF outflow.over THEN 0 ELSE outflow.volume

UseOutflow(amount) ==
    \/ /\ outflow.limit = 0
       /\ UNCHANGED outflow
    \/ /\ outflow.limit > 0
       /\ OutflowBase + amount <= outflow.limit
       /\ outflow' = [outflow EXCEPT !.volume = OutflowBase + amount, !.over = FALSE]

\* _checkOutflow.  With a limit in force, a market without a price is stopped.
CheckOutflow(amount) ==
    /\ outflow.limit > 0 => "Price" \notin refusals
    /\ UseOutflow(amount)

\* _accrueInterest, the first step of every lending call: the interest rate
\* model may answer more than borrowRateMaxMantissa.
Accrues == "BorrowRate" \notin refusals

(***************************************************************************)
(* What __mint asks: the supply cap, and, of the first mint, that it is    *)
(* worth the 1000 mTokens set aside.  That rate is the initial one, and    *)
(* those mTokens stay: totalSupply is never 0 again.                       *)
(***************************************************************************)
Mints(amount) ==
    /\ "SupplyCap" \notin refusals
    /\ opened \/ amount >= FirstMint
    /\ opened' = TRUE

(***************************************************************************)
(* Proof-carrying calls: deposits made on an extension chain               *)
(***************************************************************************)

CheckProofCallAnyMarket(caller, j) ==   \* mutant
    /\ SenderAccepted(hostCallers, caller, j.sender)
    /\ j.dstChainId = HostChain
    /\ j.chainId \in allowedChains

\* _checkProofCall
CheckProofCall(caller, j) ==
    /\ SenderAccepted(hostCallers, caller, j.sender)
    /\ j.dstChainId = HostChain
    /\ j.market = Market
    /\ j.chainId \in allowedChains

InAvailableReplayed(j, amount) == j.accAmountIn >= amount   \* mutant
InAvailableStrict(j, amount) ==   \* mutant
    j.accAmountIn - inPerChain[<<j.chainId, j.sender>>] > amount

\* What the gateway has taken in and the host has not credited yet (checked
\* subtraction, as in the gateway).
InAvailable(j, amount) == j.accAmountIn - inPerChain[<<j.chainId, j.sender>>] >= amount

\* The common part of the three calls: use up amount of the sender's
\* deposits on the journal's chain and book it as cash.  No token moves:
\* the deposit stays on its gateway (doTransfer is false).
UseDeposit(caller, j, amount) ==
    /\ ProofAccepted(caller, j)
    /\ CheckProofCall(caller, j)
    /\ InAvailable(j, amount)
    /\ inPerChain' = [inPerChain EXCEPT ![<<j.chainId, j.sender>>] = @ + amount]
    /\ totalUnderlying' = totalUnderlying + amount
    /\ UNCHANGED <<outPerChain, hostBalance, hostAccess>>

MintExternal(caller, j, amount) ==
    /\ CheckOutflow(amount)
    /\ Accrues
    /\ OperatorAllows("Mint", {j.sender}, j.sender)
    /\ Mints(amount)
    /\ UseDeposit(caller, j, amount)
    /\ UNCHANGED refusals

\* amount is what the repayment really took: the named amount, or the whole
\* debt when type(uint256).max was named, which no outflow limit but 0 admits.
\* The code repays before it compares with the deposit; a call that fails
\* there undoes the repayment, so the order does not show.
RepayExternal(caller, j, amount) ==
    /\ CheckOutflow(amount)
    /\ Accrues
    /\ OperatorAllows("Repay", {caller, j.sender}, j.sender)
    /\ UseDeposit(caller, j, amount)
    /\ UNCHANGED <<opened, refusals>>

\* No outflow check here.
LiquidateExternal(caller, j, borrower, amount) ==
    /\ borrower \notin {caller, j.sender}
    /\ Accrues
    /\ OperatorAllows("Liquidate", {j.sender, borrower}, borrower)
    /\ UseDeposit(caller, j, amount)
    /\ UNCHANGED hostLimits

CashAvailableLocally(amount) == hostBalance >= amount   \* mutant

\* mToken.__redeem and __borrow: the cash check, against the book cash.
CashAvailable(amount) == totalUnderlying >= amount

(***************************************************************************)
(* performExtensionCall: op is Redeem (actionType 1) or Borrow (2).  The   *)
(* caller names amount; a borrow gives that amount, a redemption gives     *)
(* what amount mTokens are worth.  got is what is given either way; the    *)
(* outflow check sees the number named.                                    *)
(***************************************************************************)
Given(op, amount, got) == op = "Borrow" => got = amount

OwedOutNamed(amount, got) == amount   \* mutant

\* What outPerChain is raised by: the underlying given, not the number named.
OwedOut(amount, got) == got

PerformExtensionCall(user, op, amount, got, dst) ==
    /\ op \in {"Redeem", "Borrow"}
    /\ dst \in allowedChains
    /\ CheckOutflow(amount)
    /\ Accrues
    /\ OperatorAllows(op, {user}, user)
    /\ Given(op, amount, got)
    /\ CashAvailable(got)
    /\ outPerChain[<<dst, user>>] + OwedOut(amount, got) <= MaxAcc
    /\ totalUnderlying' = totalUnderlying - got
    /\ outPerChain' = [outPerChain EXCEPT ![<<dst, user>>] = @ + OwedOut(amount, got)]
    /\ UNCHANGED <<inPerChain, hostBalance, hostAccess, opened, refusals>>

(***************************************************************************)
(* Calls on the host chain alone (mErc20, reduceReserves, Migrator)        *)
(***************************************************************************)

\* mint, repay, repayBehalf, liquidate and addReserves with doTransfer: payer
\* pays for the position of holder.
CashIn(op, payer, holder, amount) ==
    /\ op \in {"Mint", "Repay", "Liquidate", "AddReserves"}
    /\ op = "Mint" => payer = holder
    /\ op = "Liquidate" => payer # holder
    /\ Accrues
    /\ OperatorAllows(op, {payer, holder}, holder)
    /\ IF op = "Mint" THEN Mints(amount) ELSE UNCHANGED opened
    /\ totalUnderlying + amount <= MaxCash
    /\ hostBalance + amount <= MaxCash
    /\ hostBalance' = hostBalance + amount
    /\ totalUnderlying' = totalUnderlying + amount
    /\ UNCHANGED <<inPerChain, outPerChain, hostAccess, outflow, refusals>>

\* redeem, redeemUnderlying, borrow and reduceReserves.  The cash check is
\* against totalUnderlying; the transfer reverts if the contract is short.
\* (Of the two accounts that may reduce reserves only the owner is modelled.)
CashOut(op, account, amount) ==
    /\ op \in {"Redeem", "Borrow", "ReduceReserves"}
    /\ op = "ReduceReserves" => account = Owner
    /\ Accrues
    /\ OperatorAllows(op, {account}, account)
    /\ CashAvailable(amount)
    /\ hostBalance >= amount
    /\ hostBalance' = hostBalance - amount
    /\ totalUnderlying' = totalUnderlying - amount
    /\ UNCHANGED <<inPerChain, outPerChain, hostAccess, hostLimits>>

\* Migrator.migrateAllPositions for this market: mint the collateral before
\* its tokens arrive, borrow from the balance there is, then pay it in.
MigratePosition(user, collateral, borrow) ==
    /\ collateral + borrow > 0 => Accrues
    /\ collateral > 0 => OperatorAllows("Mint", {user}, user)
    /\ IF collateral > 0 THEN Mints(collateral) ELSE UNCHANGED opened
    /\ borrow > 0 => OperatorAllows("Borrow", {user}, user)
    /\ totalUnderlying + collateral >= borrow
    /\ hostBalance >= borrow
    /\ totalUnderlying + collateral - borrow <= MaxCash
    /\ hostBalance + collateral - borrow <= MaxCash
    /\ totalUnderlying' = totalUnderlying + collateral - borrow
    /\ hostBalance' = hostBalance - borrow + collateral
    /\ UNCHANGED <<inPerChain, outPerChain, hostAccess, outflow, refusals>>

(***************************************************************************)
(* Rebalancer and administration                                           *)
(***************************************************************************)

\* extractForRebalancing: tokens leave, the books do not change.
HostExtract(amount) ==
    /\ "Rebalancing" \notin hostPaused
    /\ hostBalance >= amount
    /\ hostBalance' = hostBalance - amount
    /\ UNCHANGED <<inPerChain, outPerChain, totalUnderlying, hostAccess, hostLimits>>

HostUpdateAllowedCaller(user, caller, status) ==
    /\ "callers" \in AdminOps
    /\ hostCallers' = IF status THEN hostCallers \cup {<<user, caller>>}
                                ELSE hostCallers \ {<<user, caller>>}
    /\ UNCHANGED <<hostMoney, hostLimits, allowedChains, hostPaused, hostBlacklist,
                   hostWhitelistEnabled, hostWhitelisted>>

UpdateAllowedChain(c, status) ==
    /\ "chains" \in AdminOps
    /\ allowedChains' = IF status THEN allowedChains \cup {c} ELSE allowedChains \ {c}
    /\ UNCHANGED <<hostMoney, hostLimits, hostPaused, hostBlacklist, hostCallers,
                   hostWhitelistEnabled, hostWhitelisted>>

\* Operator.setPaused for this market.
HostSetPaused(caller, op, state) ==
    /\ "pause" \in AdminOps
    /\ op \in PausableOps \cap HostOps
    /\ caller = Owner \/ (state /\ caller \in Guardians)
    /\ hostPaused' = IF state THEN hostPaused \cup {op} ELSE hostPaused \ {op}
    /\ UNCHANGED <<hostMoney, hostLimits, allowedChains, hostBlacklist, hostCallers,
                   hostWhitelistEnabled, hostWhitelisted>>

HostSetBlacklisted(account, state) ==
    /\ "hostBlacklist" \in AdminOps
    /\ hostBlacklist' = IF state THEN hostBlacklist \cup {account}
                                 ELSE hostBlacklist \ {account}
    /\ UNCHANGED <<hostMoney, hostLimits, allowedChains, hostPaused, hostCallers,
                   hostWhitelistEnabled, hostWhitelisted>>

\* Operator.enableWhitelist, disableWhitelist.
HostSetWhitelist(state) ==
    /\ "hostWhitelist" \in AdminOps
    /\ hostWhitelistEnabled' = state
    /\ UNCHANGED <<hostMoney, hostLimits, allowedChains, hostPaused, hostBlacklist, hostCallers,
                   hostWhitelisted>>

\* Operator.setWhitelistedUser.
HostSetWhitelistedUser(account, state) ==
    /\ "hostWhitelist" \in AdminOps
    /\ hostWhitelisted' = IF state THEN hostWhitelisted \cup {account}
                                   ELSE hostWhitelisted \ {account}
    /\ UNCHANGED <<hostMoney, hostLimits, allowedChains, hostPaused, hostBlacklist, hostCallers,
                   hostWhitelistEnabled>>
(***************************************************************************)
(* What changes the Operator's outflow volume besides this market's calls  *)
(***************************************************************************)
OutflowChanges(to) ==
    /\ outflow' = to
    /\ UNCHANGED <<hostMoney, hostAccess, opened, refusals>>

\* The outflow checks of the other markets' calls.
OtherMarketsOutflow ==
    /\ outflow.limit > 0
    /\ \E amount \in 0 .. outflow.limit : UseOutflow(amount)
    /\ UNCHANGED <<hostMoney, hostAccess, opened, refusals>>

\* Time passes the end of the window.
OutflowWindowElapses ==
    /\ ~outflow.over
    /\ OutflowChanges([outflow EXCEPT !.over = TRUE])

\* setOutflowTimeLimitInUSD, resetOutflowVolume (the window keeps its start)
\* and setOutflowVolumeTimeWindow (it ends sooner or later than it did).
SetOutflow ==
    /\ "outflow" \in AdminOps
    /\ \/ \E limit \in OutflowLimits : OutflowChanges([outflow EXCEPT !.limit = limit])
       \/ OutflowChanges([outflow EXCEPT !.volume = 0])
       \/ \E over \in BOOLEAN : OutflowChanges([outflow EXCEPT !.over = over])

\* Interest and prices move, other deposits fill the cap, the owner changes
\* the limits: a reason to refuse appears or goes away.
RefusalChanges(reason) ==
    /\ refusals' = IF reason \in refusals THEN refusals \ {reason} ELSE refusals \cup {reason}
    /\ UNCHANGED <<hostMoney, hostAccess, outflow, opened>>
=============================================================================
