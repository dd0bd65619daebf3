---------------------------- MODULE OperatorRisk -----------------------------
(***************************************************************************)
(* Operator.sol: which markets an account is in, its liquidity over them,  *)
(* and the calls of mToken.sol that are allowed or refused on it: mint,    *)
(* redeem, borrow, repay, transfer and liquidation.  Numbers are integers  *)
(* with the code's truncating fixed-point arithmetic; Scale stands for the *)
(* 1e18 of ExponentialNoError.                                             *)
(*                                                                         *)
(* Abstracted: interest, as an environment step that raises debts and an   *)
(* exchange rate (each call accrues its market first; accrueInterest is    *)
(* also a call of its own, after which a second accrual in the same block  *)
(* changes nothing).  Left out, because they only refuse more calls: the   *)
(* cash check, caps, whitelist and blacklist, allowances.                  *)
(***************************************************************************)
EXTENDS Integers, SequencesExt

CONSTANTS
    Accounts, Markets,
    Scale,              \* 1e18
    CloseFactor,        \* closeFactorMantissa
    Incentive,          \* Incentive[m]: liquidationIncentiveMantissa
    SeizeShare,         \* PROTOCOL_SEIZE_SHARE_MANTISSA
    Factors,            \* Factors[m]: collateral factors the owner may set
    Prices,             \* Prices[m]: prices the oracle may answer (0: none)
    InitialRate,        \* initialExchangeRateMantissa
    Rates,              \* Rates[m]: exchange rates m may come to
    Pauses,             \* bound: pairs <<market, operation>> guardians touch
    Winding,            \* bound: markets whose reserve factor is changed
    Amounts,            \* amounts a call may name
    MaxTokens, MaxDebt  \* bounds per market on an account's mTokens and debt

VARIABLES
    listed,                    \* markets[m].isListed
    accountMembership,         \* pairs <<market, account>>
    accountAssets,             \* accountAssets[a]: the markets a is in, a list
    accountTokens,             \* accountTokens[m, a], in mTokens
    accountBorrows,            \* borrowBalanceStored of m for a
    price, exchangeRate, collateralFactor,
    paused,                    \* pairs <<market, operation>>
    fullReserve                \* markets whose reserve factor is 1

positions == <<accountMembership, accountAssets, accountTokens, accountBorrows>>
market == <<price, exchangeRate, collateralFactor>>
halts == <<listed, paused, fullReserve>>
vars == <<positions, market, halts>>

Slots == Markets \X Accounts

ASSUME ScaleAssumption == Scale \in Nat \ {0} /\ CloseFactor \in Nat /\ SeizeShare \in 0 .. Scale
ASSUME IncentiveAssumption == Incentive \in [Markets -> Nat]
ASSUME ParametersAssumption ==
    /\ Factors \in [Markets -> SUBSET Nat]
    /\ Prices \in [Markets -> SUBSET Nat]
    /\ InitialRate \in [Markets -> Nat \ {0}]
    /\ Rates \in [Markets -> SUBSET (Nat \ {0})]
ASSUME BoundsAssumption == 
    /\ Amounts \subseteq Nat
    /\ MaxTokens \in [Markets -> Nat] /\ MaxDebt \in [Markets -> Nat]

\* Balances and debts are unsigned: no call takes more than there is.
TypeOK ==
    /\ listed \subseteq Markets
    /\ accountMembership \subseteq Slots
    /\ accountAssets \in [Accounts -> Seq(Markets)]
    /\ accountTokens \in [Slots -> Nat]
    /\ accountBorrows \in [Slots -> Nat]
    /\ price \in [Markets -> Nat]
    /\ exchangeRate \in [Markets -> Nat \ {0}]
    /\ collateralFactor \in [Markets -> Nat]

\* No market supported yet; collateral factors start at 0.
Init ==
    /\ listed = {}
    /\ accountMembership = {}
    /\ accountAssets = [a \in Accounts |-> <<>>]
    /\ accountTokens = [s \in Slots |-> 0]
    /\ accountBorrows = [s \in Slots |-> 0]
    /\ price \in {p \in [Markets -> UNION {Prices[m] : m \in Markets}] :
                    \A m \in Markets : p[m] \in Prices[m]}
    /\ exchangeRate = InitialRate
    /\ collateralFactor = [m \in Markets |-> 0]
    /\ paused = {}
    /\ fullReserve = {}

Running(m, op) == <<m, op>> \notin paused
In(m, a) == <<m, a>> \in accountMembership

(***************************************************************************)
(* Liquidity                                                               *)
(***************************************************************************)
MulExp(x, y) == (x * y) \div Scale      \* mul_(Exp, Exp), mul_ScalarTruncate
DivExp(x, y) == (x * Scale) \div y      \* div_(Exp, Exp)

TokensToDenom(m) == MulExp(MulExp(collateralFactor[m], exchangeRate[m]), price[m])

SumOver(list, Value(_)) ==
    LET sum[i \in 0 .. Len(list)] == IF i = 0 THEN 0 ELSE sum[i - 1] + Value(list[i])
    IN  sum[Len(list)]

SumCollateral(a, assets) ==
    SumOver(assets, LAMBDA m : MulExp(TokensToDenom(m), accountTokens[<<m, a>>]))
SumBorrow(a, assets) ==
    SumOver(assets, LAMBDA m : MulExp(price[m], accountBorrows[<<m, a>>]))

EffectsOfBorrow(assets, m, redeemTokens, borrowAmount) ==   \* mutant
    IF Contains(assets, m) THEN MulExp(price[m], borrowAmount) ELSE 0

\* What redeeming and borrowing in m would add.
Effects(assets, m, redeemTokens, borrowAmount) ==
    IF Contains(assets, m)
    THEN MulExp(TokensToDenom(m), redeemTokens) + MulExp(price[m], borrowAmount)
    ELSE 0

\* Without a price for each market the account is in, the call reverts.
Priced(assets) == \A m \in ToSet(assets) : price[m] # 0

\* _getHypotheticalAccountLiquidity: its second result, and that it is 0.
Shortfall(a) ==
    LET gap == SumBorrow(a, accountAssets[a]) - SumCollateral(a, accountAssets[a])
    IN  IF gap > 0 THEN gap ELSE 0
StaysLiquid(a, assets, m, redeemTokens, borrowAmount) ==
    /\ Priced(assets)
    /\ SumBorrow(a, assets) + Effects(assets, m, redeemTokens, borrowAmount)
         <= SumCollateral(a, assets)

IsDeprecated(m) ==
    /\ collateralFactor[m] = 0
    /\ ~Running(m, "Borrow")
    /\ m \in fullReserve

(***************************************************************************)
(* Membership                                                              *)
(***************************************************************************)

Entered(m, a) == IF In(m, a) THEN accountAssets[a] ELSE Append(accountAssets[a], m)

\* _activateMarket
Activate(m, a) ==
    /\ m \in listed
    /\ accountMembership' = accountMembership \cup {<<m, a>>}
    /\ accountAssets' = [accountAssets EXCEPT ![a] = Entered(m, a)]

\* enterMarkets with one market (a list of them is a sequence of these).
EnterMarkets(a, m) ==
    /\ Activate(m, a)
    /\ UNCHANGED <<accountTokens, accountBorrows, market, halts>>

\* _beforeRedeem: an account that is not in the market is not checked.
BeforeRedeem(m, a, n) ==
    /\ Running(m, "Redeem")
    /\ m \in listed
    /\ In(m, a) => StaysLiquid(a, accountAssets[a], m, n, 0)

PopOnly(list, i) == SubSeq(list, 1, Len(list) - 1)   \* mutant

\* The last entry takes the place of the removed one.
SwapAndPop(list, i) == SubSeq([list EXCEPT ![i] = list[Len(list)]], 1, Len(list) - 1)

\* exitMarket returns at once if a is not in m, and reverts if a owes.
MayExit(m, a) == In(m, a) /\ accountBorrows[<<m, a>>] = 0

ExitMarket(a, m) ==
    /\ MayExit(m, a)
    /\ BeforeRedeem(m, a, accountTokens[<<m, a>>])
    /\ accountMembership' = accountMembership \ {<<m, a>>}
    /\ \E i \in DOMAIN accountAssets[a] :
         /\ accountAssets[a][i] = m
         /\ \A k \in 1 .. i - 1 : accountAssets[a][k] # m
         /\ accountAssets' = [accountAssets EXCEPT ![a] = SwapAndPop(@, i)]
    /\ UNCHANGED <<accountTokens, accountBorrows, market, halts>>

(***************************************************************************)
(* Calls on a market                                                       *)
(***************************************************************************)

\* mint: n is what the amount paid is worth; the minter, not the receiver,
\* enters the market.
Mint(m, minter, receiver, n) ==
    /\ Running(m, "Mint")
    /\ Activate(m, minter)
    /\ accountTokens[<<m, receiver>>] + n <= MaxTokens[m]
    /\ accountTokens' = [accountTokens EXCEPT ![<<m, receiver>>] = @ + n]
    /\ UNCHANGED <<accountBorrows, market, halts>>

HoldsAny(m, a, n) == accountTokens[<<m, a>>] > 0   \* mutant
Holds(m, a, n) == accountTokens[<<m, a>>] >= n

\* redeem, redeemUnderlying: n is the number of mTokens burnt.
Redeem(m, a, n) ==
    /\ BeforeRedeem(m, a, n)
    /\ Holds(m, a, n)
    /\ accountTokens' = [accountTokens EXCEPT ![<<m, a>>] = @ - n]
    /\ UNCHANGED <<accountMembership, accountAssets, accountBorrows, market, halts>>

Transfer(m, src, dst, n) ==
    /\ src # dst
    /\ Running(m, "Transfer")
    /\ BeforeRedeem(m, src, n)
    /\ Holds(m, src, n)
    /\ accountTokens[<<m, dst>>] + n <= MaxTokens[m]
    /\ accountTokens' = [accountTokens EXCEPT ![<<m, src>>] = @ - n, ![<<m, dst>>] = @ + n]
    /\ UNCHANGED <<accountMembership, accountAssets, accountBorrows, market, halts>>

BorrowsUnentered(m, a) == UNCHANGED <<accountMembership, accountAssets>>   \* mutant

\* A borrower who is not in the market enters it, and is judged in it.
EntersToBorrow(m, a) == Activate(m, a)

\* beforeMTokenBorrow
MayBorrow(m, a, amount) ==
    /\ Running(m, "Borrow")
    /\ m \in listed
    /\ price[m] # 0
    /\ StaysLiquid(a, Entered(m, a), m, 0, amount)

Borrow(m, a, amount) ==
    /\ MayBorrow(m, a, amount)
    /\ EntersToBorrow(m, a)
    /\ accountBorrows[<<m, a>>] + amount <= MaxDebt[m]
    /\ accountBorrows' = [accountBorrows EXCEPT ![<<m, a>>] = @ + amount]
    /\ UNCHANGED <<accountTokens, market, halts>>

\* repay, repayBehalf: anyone may pay.
Repay(m, a, amount) ==
    /\ Running(m, "Repay")
    /\ m \in listed
    /\ accountBorrows[<<m, a>>] >= amount
    /\ accountBorrows' = [accountBorrows EXCEPT ![<<m, a>>] = @ - amount]
    /\ UNCHANGED <<accountMembership, accountAssets, accountTokens, market, halts>>

(***************************************************************************)
(* Liquidation                                                             *)
(***************************************************************************)

MaxClose(debt) == MulExp(CloseFactor, debt)

\* beforeMTokenLiquidate; mC, the collateral, only has to be listed.
MayLiquidate(mB, mC, borrower, amount) ==
    LET debt == accountBorrows[<<mB, borrower>>]
    IN  /\ Running(mB, "Liquidate")
        /\ {mB, mC} \subseteq listed
        /\ IF IsDeprecated(mB)
           THEN amount <= debt
           ELSE /\ Priced(accountAssets[borrower])
                /\ Shortfall(borrower) > 0
                /\ amount <= MaxClose(debt)

SeizeAtParity(mB, mC, amount) ==   \* mutant
    MulExp(DivExp(MulExp(Incentive[mC], price[mC]), MulExp(price[mB], exchangeRate[mC])), amount)

\* liquidateCalculateSeizeTokens
SeizeTokens(mB, mC, amount) ==
    MulExp(DivExp(MulExp(Incentive[mC], price[mB]), MulExp(price[mC], exchangeRate[mC])), amount)

\* _liquidate with the repayment in mB and the seizure in mC.
Liquidate(mB, mC, liquidator, borrower, amount) ==
    LET seized == SeizeTokens(mB, mC, amount)
        kept == seized - MulExp(SeizeShare, seized)   \* the rest goes to reserves
    IN  /\ liquidator # borrower
        /\ amount > 0
        /\ MayLiquidate(mB, mC, borrower, amount)
        /\ Running(mB, "Repay")
        /\ accountBorrows[<<mB, borrower>>] >= amount
        /\ price[mB] > 0 /\ price[mC] > 0
        /\ MulExp(price[mC], exchangeRate[mC]) > 0
        /\ Holds(mC, borrower, seized)
        /\ Running(mB, "Seize") /\ Running(mC, "Seize")
        /\ accountTokens[<<mC, liquidator>>] + kept <= MaxTokens[mC]
        /\ accountBorrows' = [accountBorrows EXCEPT ![<<mB, borrower>>] = @ - amount]
        /\ accountTokens' = [accountTokens EXCEPT ![<<mC, borrower>>] = @ - seized,
                                                  ![<<mC, liquidator>>] = @ + kept]
        /\ UNCHANGED <<accountMembership, accountAssets, market, halts>>

(***************************************************************************)
(* Owner, guardians, oracle and time                                       *)
(***************************************************************************)
SupportMarket(m) ==
    /\ m \notin listed
    /\ listed' = listed \cup {m}
    /\ collateralFactor' = [collateralFactor EXCEPT ![m] = 0]
    /\ UNCHANGED <<positions, price, exchangeRate, paused, fullReserve>>

SetCollateralFactor(m, factor) ==
    /\ m \in listed
    /\ factor # 0 => price[m] # 0
    /\ collateralFactor' = [collateralFactor EXCEPT ![m] = factor]
    /\ UNCHANGED <<positions, price, exchangeRate, halts>>

SetPaused(m, op, state) ==
    /\ paused' = IF state THEN paused \cup {<<m, op>>} ELSE paused \ {<<m, op>>}
    /\ UNCHANGED <<positions, market, listed, fullReserve>>

SetReserveFactor(m, full) ==
    /\ fullReserve' = IF full THEN fullReserve \cup {m} ELSE fullReserve \ {m}
    /\ UNCHANGED <<positions, market, listed, paused>>

PriceMoves(m, p) ==
    /\ price' = [price EXCEPT ![m] = p]
    /\ UNCHANGED <<positions, exchangeRate, collateralFactor, halts>>

\* The debts of grown round up to the next unit, those of others do not yet.
InterestAccrues(m, rate, grown) ==
    LET owing == {a \in grown : accountBorrows[<<m, a>>] > 0}
    IN  /\ rate >= exchangeRate[m]
        /\ \A a \in owing : accountBorrows[<<m, a>>] < MaxDebt[m]
        /\ accountBorrows' = [s \in Slots |-> IF s[1] = m /\ s[2] \in owing
                                              THEN accountBorrows[s] + 1
                                              ELSE accountBorrows[s]]
        /\ exchangeRate' = [exchangeRate EXCEPT ![m] = rate]
        /\ UNCHANGED <<accountMembership, accountAssets, accountTokens, price,
                       collateralFactor, halts>>

Calls ==
    \E m \in Markets, a \in Accounts :
        \/ EnterMarkets(a, m)
        \/ ExitMarket(a, m)
        \/ \E n \in Amounts :
             \/ \E receiver \in Accounts : Mint(m, a, receiver, n)
             \/ Redeem(m, a, n)
             \/ \E dst \in Accounts : Transfer(m, a, dst, n)
             \/ Borrow(m, a, n)
             \/ Repay(m, a, n)

Liquidations ==
    \E mB, mC \in Markets, liquidator, borrower \in Accounts, amount \in Amounts :
        Liquidate(mB, mC, liquidator, borrower, amount)

MarketMoves ==
    \E m \in Markets :
        \/ \E factor \in Factors[m] : SetCollateralFactor(m, factor)
        \/ \E p \in Prices[m] : PriceMoves(m, p)
        \/ \E rate \in Rates[m], grown \in SUBSET Accounts : InterestAccrues(m, rate, grown)

Halts ==
    \/ \E m \in Markets : SupportMarket(m)
    \/ \E p \in Pauses, state \in BOOLEAN : SetPaused(p[1], p[2], state)
    \/ \E m \in Winding, full \in BOOLEAN : SetReserveFactor(m, full)

Next == Calls \/ Liquidations \/ MarketMoves \/ Halts

Spec == Init /\ [][Next]_vars

-----------------------------------------------------------------------------
\* The list of an account's markets and the membership flags say the same,
\* after any sequence of entering, borrowing, minting and leaving: exitMarket
\* reverts for good, and a debt is counted twice or not at all, otherwise.
AssetsMatchMembership ==
    \A a \in Accounts :
        /\ ToSet(accountAssets[a]) = {m \in Markets : In(m, a)}
        /\ \A i, k \in DOMAIN accountAssets[a] :
             accountAssets[a][i] = accountAssets[a][k] => i = k

\* A debt is never out of sight of the liquidity check: whoever owes in a
\* market is in it (beforeMTokenBorrow enters it, exitMarket refuses).
DebtsAreCounted ==
    \A m \in Markets, a \in Accounts : accountBorrows[<<m, a>>] > 0 => In(m, a)

\* No call makes an account short, its own or anyone's: a call that is not a
\* liquidation leaves at most the one unit that truncation hides from the
\* check (_getHypotheticalAccountLiquidity), and the unit does not add up.
CallsLeaveAtMostDust ==
    [][(\E a \in Accounts : Shortfall(a)' > 1 /\ Shortfall(a)' > Shortfall(a)) => ~Calls]_vars

\* Collateral is counted at no more than what it buys in a liquidation, with
\* the truncations of both.  The setters of the two numbers do not ensure it.
IncentiveCovered ==
    \A m \in Markets :
        TokensToDenom(m) * Incentive[m] <= Scale * MulExp(price[m], exchangeRate[m])

\* Then no liquidation, of a deprecated market's debt neither, deepens the
\* shortfall of the borrower by more than a unit.
LiquidationsHelp ==
    [][(\E a \in Accounts : Shortfall(a)' > Shortfall(a) + 1) /\ IncentiveCovered
         => ~Liquidations]_vars
=============================================================================
