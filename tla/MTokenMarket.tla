---------------------------- MODULE MTokenMarket ----------------------------
(***************************************************************************)
(* mToken.sol, mTokenStorage.sol: the pool of one market with its exact    *)
(* arithmetic: mTokens, debts under an interest index, reserves and cash   *)
(* (totalUnderlying), all truncated by the code's divisions.               *)
(*                                                                         *)
(* A call settles the interest of the time gone by before it does anything *)
(* else, except transfer.  Abstracted: who is liquid, listed, paused or    *)
(* allowed to call (OperatorRisk, MaldaHost), so that here every call may  *)
(* be allowed, and allowances.  A call of the host without a transfer      *)
(* books the same amounts as one with it.  Subtractions that would go      *)
(* below zero revert; products beyond 2^256 do not occur at these sizes.   *)
(***************************************************************************)
EXTENDS JumpRateModel, FiniteSets, Functions

CONSTANTS
    Users, Zero,         \* Zero: address(0), which holds what is set aside
    Models,              \* interest rate models
    ReserveFactors,      \* reserve factors the admin may set
    MaxRates,            \* values of borrowRateMaxMantissa (0: no limit)
    FirstMaxRate,        \* ... and the one a market begins with
    InitialRate,         \* initialExchangeRateMantissa
    SetAside,            \* the 1000 mTokens of the first mint
    SupplyCap, BorrowCap,\* the Operator's caps (0: none)
    MaxUint,             \* type(uint256).max
    Amounts,             \* amounts a call may name
    MinAmounts,          \* values of minAmountOut
    MaxCash,             \* bound on cash that comes in
    MaxTime,             \* bound on blocks
    MaxCalls             \* bound on calls that change more than the interest

Holders == Users \cup {Zero}

ASSUME MarketAssumption ==
    /\ IsFiniteSet(Users) /\ Zero \notin Users
    /\ Models \subseteq [kink : Nat, baseRatePerBlock : Nat, multiplierPerBlock : Nat,
                         jumpMultiplierPerBlock : Nat]
    /\ ReserveFactors \subseteq Nat /\ MaxRates \subseteq Nat /\ FirstMaxRate \in Nat
    /\ InitialRate \in Nat \ {0} /\ SetAside \in Nat \ {0}
    /\ SupplyCap \in Nat /\ BorrowCap \in Nat
    /\ Amounts \subseteq Nat /\ MinAmounts \subseteq Nat /\ MaxUint \in Nat /\ MaxCash \in Nat
    /\ MaxTime \in Nat /\ MaxCalls \in Nat

VARIABLES
    accountTokens,    \* mTokens of a holder
    totalSupply,
    accountBorrows,   \* accountBorrows[u]: [principal, interestIndex]
    totalBorrows,
    totalReserves,
    totalUnderlying,  \* what _getCashPrior returns
    borrowIndex,
    reserveFactor,    \* reserveFactorMantissa
    maxRate,          \* borrowRateMaxMantissa
    model,            \* interestRateModel
    now,              \* the block
    accrualBlock,     \* accrualBlockTimestamp
    calls,            \* how many calls there were
    drift             \* history: how far truncation may let debts run ahead of totalBorrows

supplies == <<accountTokens, totalSupply>>
debts    == accountBorrows
totals   == <<totalBorrows, totalReserves, borrowIndex, accrualBlock, drift>>
settings == <<reserveFactor, maxRate, model>>
vars     == <<supplies, debts, totals, settings, totalUnderlying, now, calls>>

Init ==
    /\ accountTokens = [h \in Holders |-> 0] /\ totalSupply = 0
    /\ accountBorrows = [u \in Users |-> [principal |-> 0, interestIndex |-> 0]]
    /\ totalBorrows = 0 /\ totalReserves = 0 /\ totalUnderlying = 0
    /\ borrowIndex = Scale
    /\ reserveFactor = 0 /\ maxRate = FirstMaxRate /\ model \in Models
    /\ now = 0 /\ accrualBlock = 0 /\ drift = 0 /\ calls = 0

------------------------------------------------------------------------------
(* Interest.                                                                *)
Truncated(mantissa, n) == (mantissa * n) \div Scale   \* mul_ScalarTruncate

BorrowRate == getBorrowRate(model, totalUnderlying, totalBorrows, totalReserves)

\* No revert: the rate can be computed and is not above the limit.
CanAccrue(limit) ==
    accrualBlock = now \/ /\ UtilizationThere(totalUnderlying, totalBorrows, totalReserves)
                          /\ limit > 0 => BorrowRate <= limit

SimpleInterestFactor == IF accrualBlock = now THEN 0 ELSE BorrowRate * (now - accrualBlock)
InterestAccumulated  == Truncated(SimpleInterestFactor, totalBorrows)

BorrowsNew  == totalBorrows + InterestAccumulated
ReservesNew == totalReserves + Truncated(reserveFactor, InterestAccumulated)
IndexNew    == borrowIndex + Truncated(SimpleInterestFactor, borrowIndex)

\* What one truncated accrual of the book may add to the lead of the debts.
DriftNew ==
    LET growth == SimpleInterestFactor * drift
        roundedUp(n) == (n + Scale - 1) \div Scale
    IN  drift + roundedUp(growth)
        + (IF (SimpleInterestFactor * totalBorrows) % Scale = 0 THEN 0 ELSE 1)

\* _accrueInterest, with the totals as the caller goes on to change them.
Accrue(limit, borrows, reserves) ==
    /\ CanAccrue(limit)
    /\ accrualBlock' = now
    /\ borrowIndex' = IndexNew
    /\ totalBorrows' = borrows
    /\ totalReserves' = reserves
    /\ drift' = DriftNew

\* _exchangeRateStored, and whether it does not revert.
RateThere(cash, borrows, reserves, supply) == supply = 0 \/ cash + borrows >= reserves

ExchangeRate(cash, borrows, reserves, supply) ==
    IF supply = 0 THEN InitialRate ELSE ((cash + borrows - reserves) * Scale) \div supply

RateNow == ExchangeRate(totalUnderlying, BorrowsNew, ReservesNew, totalSupply)
CanRate == RateThere(totalUnderlying, BorrowsNew, ReservesNew, totalSupply)

\* _borrowBalanceStored, at an index and once interest is settled.
BalanceAt(u, index) ==
    LET snapshot == accountBorrows[u] IN
    IF snapshot.principal = 0 THEN 0
    ELSE (snapshot.principal * index) \div snapshot.interestIndex

Balance(u) == BalanceAt(u, IndexNew)

AccrueInterest ==
    /\ Accrue(maxRate, BorrowsNew, ReservesNew)
    /\ UNCHANGED <<supplies, debts, settings, totalUnderlying, now, calls>>

------------------------------------------------------------------------------
(* Supply.                                                                  *)

\* afterMTokenMint; a cap of 0 is none.
BelowSupplyCap(cash, supply) ==
    SupplyCap # 0 =>
        Truncated(ExchangeRate(cash, BorrowsNew, ReservesNew, supply), supply) <= SupplyCap

\* The first mint sets mTokens aside, out of what is minted.
Issue(receiver, tokens) ==
    LET aside == IF totalSupply = 0 THEN SetAside ELSE 0
        first == [accountTokens EXCEPT ![Zero] = IF totalSupply = 0 THEN aside ELSE @]
    IN
    /\ tokens >= aside
    /\ accountTokens' = [first EXCEPT ![receiver] = @ + tokens - aside]
    /\ totalSupply' = totalSupply + tokens

Mint(receiver, amount, minAmountOut) ==
    LET tokens == (amount * Scale) \div RateNow IN
    /\ Accrue(maxRate, BorrowsNew, ReservesNew)
    /\ CanRate /\ RateNow > 0
    /\ tokens >= minAmountOut
    /\ totalUnderlying + amount <= MaxCash
    /\ Issue(receiver, tokens)
    /\ totalUnderlying' = totalUnderlying + amount
    /\ BelowSupplyCap(totalUnderlying', totalSupply')
    /\ UNCHANGED <<debts, settings, now>>

\* __redeem, once tokens and amount are known.
PayOut(u, tokens, amount) ==
    /\ Accrue(maxRate, BorrowsNew, ReservesNew)
    /\ tokens # 0 \/ amount # 0
    /\ amount <= totalUnderlying
    /\ tokens <= totalSupply /\ tokens <= accountTokens[u]
    /\ totalSupply' = totalSupply - tokens
    /\ accountTokens' = [accountTokens EXCEPT ![u] = @ - tokens]
    /\ totalUnderlying' = totalUnderlying - amount
    /\ UNCHANGED <<debts, settings, now>>

RedeemRoundedUp(u, tokens) ==   \* mutant
    /\ CanAccrue(maxRate) /\ CanRate
    /\ tokens > 0
    /\ PayOut(u, tokens, Truncated(RateNow, tokens) + 1)

Redeem(u, tokens) ==
    /\ CanAccrue(maxRate) /\ CanRate
    /\ tokens > 0
    /\ PayOut(u, tokens, Truncated(RateNow, tokens))

RedeemOneTokenLess(u, amount) ==   \* mutant
    /\ CanAccrue(maxRate) /\ CanRate /\ RateNow > 0
    /\ PayOut(u, ((amount - 1) * Scale) \div RateNow, amount)

\* The number of mTokens is rounded down, perhaps to none.
RedeemUnderlying(u, amount) ==
    /\ CanAccrue(maxRate) /\ CanRate /\ RateNow > 0
    /\ PayOut(u, (amount * Scale) \div RateNow, amount)

Transfer(src, dst, tokens) ==
    /\ src # dst /\ tokens <= accountTokens[src]
    /\ accountTokens' = [accountTokens EXCEPT ![src] = @ - tokens, ![dst] = @ + tokens]
    /\ UNCHANGED <<totalSupply, debts, totals, settings, totalUnderlying, now>>

------------------------------------------------------------------------------
(* Debt.                                                                    *)
OwesAtStaleIndex(u, amount) ==   \* mutant
    accountBorrows' = [accountBorrows EXCEPT
                           ![u] = [principal |-> amount, interestIndex |-> borrowIndex]]

Owes(u, amount) ==
    accountBorrows' = [accountBorrows EXCEPT
                           ![u] = [principal |-> amount, interestIndex |-> IndexNew]]

BorrowUnsettled(u, amount) ==   \* mutant
    /\ CanAccrue(maxRate) /\ totalUnderlying + totalBorrows > totalReserves
    /\ amount <= totalUnderlying
    /\ BorrowCap # 0 => totalBorrows + amount < BorrowCap
    /\ accountBorrows' = [accountBorrows EXCEPT
                              ![u] = [principal |-> Balance(u) + amount, interestIndex |-> borrowIndex]]
    /\ totalBorrows' = totalBorrows + amount
    /\ totalUnderlying' = totalUnderlying - amount
    /\ UNCHANGED <<supplies, settings, now, totalReserves, borrowIndex, accrualBlock, drift>>

\* beforeMTokenBorrow checks the cap.
Borrow(u, amount) ==
    /\ Accrue(maxRate, BorrowsNew + amount, ReservesNew)
    /\ BorrowCap # 0 => BorrowsNew + amount < BorrowCap
    /\ amount <= totalUnderlying
    /\ Owes(u, Balance(u) + amount)
    /\ totalUnderlying' = totalUnderlying - amount
    /\ UNCHANGED <<supplies, settings, now>>

\* repayAmountFinal: the greatest amount stands for all that is owed.
RepayAmount(u, amount) == IF amount = MaxUint THEN Balance(u) ELSE amount

SettleUnchecked(u, amount) ==   \* mutant
    /\ amount <= Balance(u)
    /\ Owes(u, Balance(u) - amount)
    /\ totalUnderlying' = totalUnderlying + amount

\* __repay, once interest is settled: no more than is owed by u, or by all.
Settle(u, amount) ==
    /\ amount <= Balance(u) /\ amount <= BorrowsNew
    /\ Owes(u, Balance(u) - amount)
    /\ totalUnderlying' = totalUnderlying + amount

Repay(u, amount) ==
    /\ Accrue(maxRate, BorrowsNew - RepayAmount(u, amount), ReservesNew)
    /\ Settle(u, RepayAmount(u, amount))
    /\ UNCHANGED <<supplies, settings, now>>

------------------------------------------------------------------------------
(* Liquidation and reserves.                                                *)
CONSTANT SeizeShare   \* PROTOCOL_SEIZE_SHARE_MANTISSA

ASSUME SeizeShareAssumption == SeizeShare \in 0..Scale

SeizeKeepsSupply(liquidator, borrower, tokens) ==   \* mutant
    /\ tokens <= accountTokens[borrower]
    /\ accountTokens' = [accountTokens EXCEPT ![borrower] = @ - tokens,
                             ![liquidator] = @ + tokens - Truncated(SeizeShare, tokens)]
    /\ UNCHANGED totalSupply

\* The protocol's share of what is seized is burnt.
SeizeTokens(liquidator, borrower, tokens) ==
    LET protocol == Truncated(SeizeShare, tokens) IN
    /\ liquidator # borrower
    /\ tokens <= accountTokens[borrower] /\ protocol <= totalSupply
    /\ totalSupply' = totalSupply - protocol
    /\ accountTokens' = [accountTokens EXCEPT ![borrower] = @ - tokens,
                                              ![liquidator] = @ + tokens - protocol]

\* ... and its worth added to the reserves.
SeizedReserves(tokens) == ReservesNew + Truncated(RateNow, Truncated(SeizeShare, tokens))

\* A liquidation of a debt in another market, which settles the interest of
\* this one and calls seize.
Seize(liquidator, borrower, tokens) ==
    /\ Accrue(maxRate, BorrowsNew, SeizedReserves(tokens))
    /\ CanRate
    /\ SeizeTokens(liquidator, borrower, tokens)
    /\ UNCHANGED <<debts, settings, totalUnderlying, now>>

\* _liquidate with debt and collateral in this market.  How many mTokens are
\* seized depends on prices, so it may be any number.
Liquidate(liquidator, borrower, amount, tokens) ==
    /\ Accrue(maxRate, BorrowsNew - amount, SeizedReserves(tokens))
    /\ CanRate /\ amount > 0
    /\ Settle(borrower, amount)
    /\ SeizeTokens(liquidator, borrower, tokens)
    /\ UNCHANGED <<settings, now>>

AddReserves(amount) ==
    /\ Accrue(maxRate, BorrowsNew, ReservesNew + amount)
    /\ totalUnderlying + amount <= MaxCash
    /\ totalUnderlying' = totalUnderlying + amount
    /\ UNCHANGED <<supplies, debts, settings, now>>

ReduceReserves(amount) ==
    /\ Accrue(maxRate, BorrowsNew, ReservesNew - amount)
    /\ amount <= totalUnderlying /\ amount <= ReservesNew
    /\ totalUnderlying' = totalUnderlying - amount
    /\ UNCHANGED <<supplies, debts, settings, now>>

------------------------------------------------------------------------------
(* Admin and time.                                                          *)
SetReserveFactor(factor) ==
    /\ factor <= Scale
    /\ Accrue(maxRate, BorrowsNew, ReservesNew)
    /\ reserveFactor' = factor
    /\ UNCHANGED <<supplies, debts, totalUnderlying, now, maxRate, model>>

SetInterestRateModel(p) ==
    /\ Accrue(maxRate, BorrowsNew, ReservesNew)
    /\ model' = p
    /\ UNCHANGED <<supplies, debts, totalUnderlying, now, maxRate, reserveFactor>>

\* updateJumpRateModel of the model itself settles nothing: the new rates hold
\* for the time since the last accrual, too.
UpdateJumpRateModel(p) ==
    /\ model' = p
    /\ UNCHANGED <<supplies, debts, totals, totalUnderlying, now, maxRate, reserveFactor>>

\* The new limit already holds for the accrual.
SetBorrowRateMaxMantissa(limit) ==
    /\ maxRate' = limit
    /\ IF totalSupply = 0 THEN UNCHANGED totals ELSE Accrue(limit, BorrowsNew, ReservesNew)
    /\ UNCHANGED <<supplies, debts, totalUnderlying, now, reserveFactor, model>>

Block ==
    /\ now < MaxTime
    /\ now' = now + 1
    /\ UNCHANGED <<supplies, debts, totals, settings, totalUnderlying, calls>>

AccountCalls == \E n \in Amounts :
    \/ \E receiver \in Holders, min \in MinAmounts : Mint(receiver, n, min)
    \/ \E u \in Users :
        \/ Redeem(u, n)
        \/ RedeemUnderlying(u, n)
        \/ Borrow(u, n)
        \/ Repay(u, n) \/ Repay(u, MaxUint)
        \/ \E dst \in Holders : Transfer(u, dst, n)
        \/ \E other \in Users :
             \/ Seize(other, u, n)
             \/ \E tokens \in Amounts : Liquidate(other, u, n, tokens)

AdminCalls ==
    \/ \E n \in Amounts : AddReserves(n) \/ ReduceReserves(n)
    \/ \E factor \in ReserveFactors : SetReserveFactor(factor)
    \/ \E p \in Models : SetInterestRateModel(p) \/ UpdateJumpRateModel(p)
    \/ \E limit \in MaxRates : SetBorrowRateMaxMantissa(limit)

Next ==
    \/ calls < MaxCalls /\ calls' = calls + 1 /\ (AccountCalls \/ AdminCalls)
    \/ AccrueInterest
    \/ Block

Spec == Init /\ [][Next]_vars

------------------------------------------------------------------------------
SupplyTypes == accountTokens \in [Holders -> Nat] /\ totalSupply \in Nat

DebtTypes ==
    /\ accountBorrows \in [Users -> [principal : Nat, interestIndex : Nat]]
    /\ \A u \in Users : accountBorrows[u].principal > 0 => accountBorrows[u].interestIndex > 0

BookTypes ==
    /\ totalBorrows \in Nat /\ totalReserves \in Nat /\ drift \in Nat
    /\ borrowIndex \in Nat \ {0}
    /\ accrualBlock \in Nat /\ accrualBlock <= now

SettingTypes == reserveFactor \in 0..Scale /\ maxRate \in Nat /\ model \in Models

\* No unsigned number goes below zero in any call, and no account owes at an
\* index of zero, by which its balance would be divided.
TypeOK ==
    /\ SupplyTypes /\ DebtTypes /\ BookTypes /\ SettingTypes
    /\ totalUnderlying \in Nat /\ now \in Nat /\ calls \in Nat

\* The mTokens that are held are the supply, and those set aside by the first
\* mint stay for ever (mToken.sol:707).
SupplyIsHeld ==
    /\ SumFunction(accountTokens) = totalSupply
    /\ totalSupply > 0 => accountTokens[Zero] >= SetAside

\* After the first mint cash and debts exceed the reserves whatever is redeemed,
\* seized or withdrawn: neither the exchange rate nor the utilization can
\* underflow or divide by zero, which would block every call.
StaysComputable ==
    totalSupply > 0 => totalUnderlying + totalBorrows > totalReserves

Backing == totalUnderlying + totalBorrows - totalReserves

RateStored == ExchangeRate(totalUnderlying, totalBorrows, totalReserves, totalSupply)

\* Rounding favours the pool: no step lowers the exchange rate, except that
\* redeemUnderlying may cost the others less than one mToken
\* (mToken.sol:628).
RateFallsByRounding ==
    [][ /\ totalSupply > 0 /\ totalSupply' > 0
        /\ CanRate
        => IF \E u \in Users, n \in Amounts : RedeemUnderlying(u, n)
           THEN Backing' * Scale > RateNow * (totalSupply' - 1)
           ELSE Backing' * Scale >= RateStored * totalSupply' ]_vars

\* Interest is settled before the utilization changes: no call changes the debt
\* of more than the account it is for (mToken.sol:270).  Only new parameters of
\* the rate model itself do, which settle nothing (JumpRateModelV4.sol:106).
OthersKeepDebts ==
    [][ now' = now /\ CanAccrue(maxRate)
        => \/ \E p \in Models : UpdateJumpRateModel(p)
           \/ \A v, w \in Users : Balance(v)' # Balance(v) /\ Balance(w)' # Balance(w)
                                   => v = w ]_vars

\* What the accounts owe exceeds the total that the market has on its books by
\* no more than the truncations of its accruals.
DebtsNearBook ==
    SumFunction([u \in Users |-> BalanceAt(u, borrowIndex)]) <= totalBorrows + drift
=============================================================================
