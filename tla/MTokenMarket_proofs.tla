------------------------ MODULE MTokenMarket_proofs -------------------------
(***************************************************************************)
(* Theorems about MTokenMarket, JumpRateModel and RewardDistributor, for   *)
(* every scale, rate model, amount, cap, reward speed and grant, every     *)
(* finite set of users and every sequence of calls.                        *)
(*                                                                         *)
(* Inductive invariants: SupplyIsHeld with the types; Backed, that the     *)
(* assets of the pool are positive while there are mTokens, with           *)
(* SupplyIsHeld; and DebtsShared, that every debt is a share of the book   *)
(* at the borrow index, for DebtsNearBook.  The rewards come last.         *)
(***************************************************************************)
EXTENDS RewardDistributor, FiniteSums, TLAPS

------------------------------------------------------------------------------
(* Truncating division.                                                     *)

\* A quotient is the greatest number whose product does not exceed the
\* dividend: what every `/` of ExponentialNoError.sol does.
LEMMA Quotient ==
    ASSUME NEW a \in Int, NEW b \in Nat \ {0}
    PROVE  /\ a \div b \in Int /\ (a >= 0 => a \div b \in Nat)
           /\ (a \div b) * b <= a /\ a < (a \div b) * b + b
  OBVIOUS

\* A larger dividend has no smaller quotient.
LEMMA QuotientMonotone ==
    ASSUME NEW a \in Int, NEW c \in Int, NEW b \in Nat \ {0}, a <= c
    PROVE  a \div b <= c \div b
<1> DEFINE q == a \div b
           r == c \div b
<1>1. q \in Int /\ r \in Int /\ q * b <= a /\ c < r * b + b
  BY Quotient
<1>2. q * b < (r + 1) * b
  BY <1>1
<1> HIDE DEF q, r
<1>3. q < r + 1
  BY <1>1, <1>2
<1> QED BY <1>1, <1>3 DEF q, r

\* A product truncated is a natural number ...
LEMMA TruncatedNat ==
    ASSUME NEW mantissa \in Nat, NEW n \in Nat
    PROVE  Truncated(mantissa, n) \in Nat
<1>1. mantissa * n \in Nat
  OBVIOUS
<1> QED BY <1>1, Quotient, ScaleAssumption DEF Truncated

\* ... which a factor of at most one does not make larger.
LEMMA TruncatedBelow ==
    ASSUME NEW mantissa \in 0..Scale, NEW n \in Nat
    PROVE  Truncated(mantissa, n) \in 0..n
<1> DEFINE q == Truncated(mantissa, n)
<1>1. q \in Nat /\ q * Scale <= mantissa * n
  BY TruncatedNat, Quotient, ScaleAssumption DEF Truncated
<1>2. mantissa * n <= n * Scale
  BY ScaleAssumption
<1> HIDE DEF q
<1>3. q * Scale < (n + 1) * Scale
  BY <1>1, <1>2, ScaleAssumption
<1>4. q < n + 1
  BY <1>1, <1>3, ScaleAssumption
<1> QED BY <1>1, <1>4 DEF q

------------------------------------------------------------------------------
(* The rate model.                                                          *)
RateParameters == [kink : Nat, baseRatePerBlock : Nat, multiplierPerBlock : Nat,
                   jumpMultiplierPerBlock : Nat]

LEMMA UtilizationNat ==
    ASSUME NEW cash \in Nat, NEW borrows \in Nat, NEW reserves \in Nat,
           UtilizationThere(cash, borrows, reserves)
    PROVE  utilizationRate(cash, borrows, reserves) \in Nat
<1>1. CASE borrows = 0
  BY <1>1 DEF utilizationRate
<1>2. CASE borrows # 0
  <2>1. borrows * Scale \in Nat /\ cash + borrows - reserves \in Nat \ {0}
    BY <1>2, ScaleAssumption DEF UtilizationThere
  <2> QED BY <1>2, <2>1, Quotient DEF utilizationRate
<1> QED BY <1>1, <1>2

LEMMA BorrowRateNat ==
    ASSUME NEW p \in RateParameters,
           NEW cash \in Nat, NEW borrows \in Nat, NEW reserves \in Nat,
           UtilizationThere(cash, borrows, reserves)
    PROVE  getBorrowRate(p, cash, borrows, reserves) \in Nat
<1> DEFINE util == utilizationRate(cash, borrows, reserves)
<1>1. util \in Nat
  BY UtilizationNat
<1> HIDE DEF util
<1>2. /\ p.kink \in Nat /\ p.baseRatePerBlock \in Nat
      /\ p.multiplierPerBlock \in Nat /\ p.jumpMultiplierPerBlock \in Nat
  BY DEF RateParameters
<1>3. \A a, b \in Nat : (a * b) \div Scale \in Nat
  <2> TAKE a \in Nat, b \in Nat
  <2>1. a * b \in Nat
    OBVIOUS
  <2> QED BY <2>1, Quotient, ScaleAssumption
<1>4. CASE util <= p.kink
  BY <1>1, <1>2, <1>3, <1>4 DEF getBorrowRate, util
<1>5. CASE ~(util <= p.kink)
  <2>1. util - p.kink \in Nat
    BY <1>1, <1>2, <1>5
  <2> QED BY <1>2, <1>3, <1>5, <2>1 DEF getBorrowRate, util
<1> QED BY <1>4, <1>5

\* Borrowing out of a pool that is more used is not cheaper, on either side of
\* the kink and across it (JumpRateModelV4.sol:170).
THEOREM RateGrowsWithUse ==
    ASSUME NEW p \in RateParameters,
           NEW cash \in Nat, NEW borrows \in Nat, NEW reserves \in Nat,
           NEW cash2 \in Nat, NEW borrows2 \in Nat, NEW reserves2 \in Nat,
           UtilizationThere(cash, borrows, reserves),
           UtilizationThere(cash2, borrows2, reserves2),
           utilizationRate(cash, borrows, reserves) <= utilizationRate(cash2, borrows2, reserves2)
    PROVE  getBorrowRate(p, cash, borrows, reserves) <= getBorrowRate(p, cash2, borrows2, reserves2)
<1> DEFINE util == utilizationRate(cash, borrows, reserves)
           util2 == utilizationRate(cash2, borrows2, reserves2)
<1>1. util \in Nat /\ util2 \in Nat /\ util <= util2
  BY UtilizationNat
<1> HIDE DEF util, util2
<1>2. /\ p.kink \in Nat /\ p.baseRatePerBlock \in Nat
      /\ p.multiplierPerBlock \in Nat /\ p.jumpMultiplierPerBlock \in Nat
  BY DEF RateParameters
<1>3. \A a, b, c \in Nat : a <= b => /\ (a * c) \div Scale <= (b * c) \div Scale
                                     /\ (a * c) \div Scale \in Nat /\ (b * c) \div Scale \in Nat
  <2> SUFFICES ASSUME NEW a \in Nat, NEW b \in Nat, NEW c \in Nat, a <= b
               PROVE  /\ (a * c) \div Scale <= (b * c) \div Scale
                      /\ (a * c) \div Scale \in Nat /\ (b * c) \div Scale \in Nat
    OBVIOUS
  <2>1. a * c \in Nat /\ b * c \in Nat /\ a * c <= b * c
    OBVIOUS
  <2> QED BY <2>1, Quotient, QuotientMonotone, ScaleAssumption
<1> DEFINE slope(n) == (n * p.multiplierPerBlock) \div Scale
           jump(n) == (n * p.jumpMultiplierPerBlock) \div Scale
<1>4. /\ \A a, b \in Nat : a <= b => slope(a) <= slope(b) /\ jump(a) <= jump(b)
      /\ \A a \in Nat : slope(a) \in Nat /\ jump(a) \in Nat
  <2>1. \A a, b \in Nat : a <= b => /\ slope(a) <= slope(b) /\ jump(a) <= jump(b)
                                   /\ slope(a) \in Nat /\ jump(a) \in Nat
    BY Zenon, <1>2, <1>3
  <2> HIDE DEF slope, jump
  <2>2. \A a \in Nat : a <= a
    OBVIOUS
  <2> QED BY Zenon, <2>1, <2>2
<1>5. /\ getBorrowRate(p, cash, borrows, reserves)
           = IF util <= p.kink THEN slope(util) + p.baseRatePerBlock
             ELSE jump(util - p.kink) + slope(p.kink) + p.baseRatePerBlock
      /\ getBorrowRate(p, cash2, borrows2, reserves2)
           = IF util2 <= p.kink THEN slope(util2) + p.baseRatePerBlock
             ELSE jump(util2 - p.kink) + slope(p.kink) + p.baseRatePerBlock
  BY Zenon DEF getBorrowRate, util, util2
<1> HIDE DEF slope, jump
<1>6. CASE util2 <= p.kink
  <2>1. util <= p.kink
    BY <1>1, <1>2, <1>6
  <2>2. slope(util) <= slope(util2) /\ slope(util) \in Nat /\ slope(util2) \in Nat
    BY <1>1, <1>4
  <2> QED BY <1>2, <1>5, <1>6, <2>1, <2>2
<1>7. CASE util <= p.kink /\ ~(util2 <= p.kink)
  <2>1. util2 - p.kink \in Nat
    BY <1>1, <1>2, <1>7
  <2>2. slope(util) <= slope(p.kink) /\ slope(util) \in Nat /\ slope(p.kink) \in Nat
    BY <1>1, <1>2, <1>4, <1>7
  <2>3. jump(util2 - p.kink) \in Nat
    BY <1>4, <2>1
  <2> QED BY <1>2, <1>5, <1>7, <2>2, <2>3
<1>8. CASE ~(util <= p.kink)
  <2>1. util - p.kink \in Nat /\ util2 - p.kink \in Nat /\ util - p.kink <= util2 - p.kink
        /\ ~(util2 <= p.kink)
    BY <1>1, <1>2, <1>8
  <2>2. /\ jump(util - p.kink) <= jump(util2 - p.kink)
        /\ jump(util - p.kink) \in Nat /\ jump(util2 - p.kink) \in Nat /\ slope(p.kink) \in Nat
    BY <1>2, <1>4, <2>1
  <2> QED BY <1>2, <1>5, <1>8, <2>1, <2>2
<1> QED BY <1>6, <1>7, <1>8

\* Suppliers are never promised more, on all they own, than the borrowers pay
\* (JumpRateModelV4.sol:183).
THEOREM SuppliersEarnNoMore ==
    ASSUME NEW p \in RateParameters, NEW factor \in 0..Scale,
           NEW cash \in Nat, NEW borrows \in Nat, NEW reserves \in Nat,
           cash + borrows > reserves
    PROVE  getSupplyRate(p, cash, borrows, reserves, factor) * (cash + borrows - reserves)
           <= getBorrowRate(p, cash, borrows, reserves) * borrows
<1> DEFINE util == utilizationRate(cash, borrows, reserves)
           rate == getBorrowRate(p, cash, borrows, reserves)
           toPool == (rate * (Scale - factor)) \div Scale
           gained == (util * toPool) \div Scale
           pool == cash + borrows - reserves
<1>1. UtilizationThere(cash, borrows, reserves) /\ pool \in Nat \ {0}
  BY DEF UtilizationThere
<1>2. util \in Nat /\ rate \in Nat
  BY <1>1, UtilizationNat, BorrowRateNat
<1>3. util * pool <= borrows * Scale
  <2>1. CASE borrows = 0
    BY <2>1, <1>1, ScaleAssumption DEF utilizationRate
  <2>2. CASE borrows # 0
    <3>1. borrows * Scale \in Int
      BY ScaleAssumption
    <3> QED BY <2>2, <3>1, <1>1, Quotient DEF utilizationRate
  <2> QED BY <2>1, <2>2
<1>4. toPool \in Nat /\ toPool <= rate
  <2>1. Scale - factor \in 0..Scale
    BY ScaleAssumption
  <2>2. toPool = Truncated(Scale - factor, rate)
    BY <1>2, <2>1, ScaleAssumption DEF Truncated
  <2> HIDE DEF rate, toPool
  <2> QED BY <1>2, <2>1, <2>2, TruncatedBelow
<1>5. gained \in Nat /\ gained * Scale <= util * toPool
  <2>1. util * toPool \in Nat
    BY <1>2, <1>4
  <2> HIDE DEF util, toPool
  <2> QED BY <2>1, Quotient, ScaleAssumption
<1>6. getSupplyRate(p, cash, borrows, reserves, factor) = gained
  BY DEF getSupplyRate
<1> HIDE DEF util, rate, toPool, gained, pool
<1>7. (gained * pool) * Scale <= (toPool * borrows) * Scale
  <2>1. (gained * Scale) * pool <= (util * toPool) * pool
    BY <1>1, <1>2, <1>4, <1>5, ScaleAssumption
  <2>2. (util * pool) * toPool <= (borrows * Scale) * toPool
    BY <1>1, <1>2, <1>3, <1>4, ScaleAssumption
  <2> QED BY <1>1, <1>2, <1>4, <1>5, <2>1, <2>2, ScaleAssumption
<1>8. gained * pool <= toPool * borrows
  BY <1>1, <1>4, <1>5, <1>7, ScaleAssumption
<1>9. toPool * borrows <= rate * borrows
  BY <1>2, <1>4
<1> QED BY <1>1, <1>2, <1>4, <1>5, <1>6, <1>8, <1>9 DEF rate, pool
------------------------------------------------------------------------------
(* Settling the interest.                                                   *)

LEMMA ModelParameters == ASSUME model \in Models PROVE model \in RateParameters
  BY MarketAssumption DEF RateParameters

LEMMA InterestNat ==
    ASSUME TypeOK, NEW limit, CanAccrue(limit)
    PROVE  SimpleInterestFactor \in Nat /\ InterestAccumulated \in Nat
<1>1. SimpleInterestFactor \in Nat
  <2>1. CASE accrualBlock = now
    BY <2>1 DEF SimpleInterestFactor
  <2>2. CASE accrualBlock # now
    <3>1. BorrowRate \in Nat
      BY <2>2, BorrowRateNat, ModelParameters
         DEF CanAccrue, BorrowRate, TypeOK, SettingTypes, BookTypes
    <3>2. now - accrualBlock \in Nat
      BY DEF TypeOK, BookTypes
    <3> QED BY <2>2, <3>1, <3>2 DEF SimpleInterestFactor
  <2> QED BY <2>1, <2>2
<1> QED BY <1>1, TruncatedNat DEF InterestAccumulated, TypeOK, BookTypes

\* Interest adds to the debts at least what it adds to the reserves.
LEMMA SettledBook ==
    ASSUME TypeOK, NEW limit, CanAccrue(limit)
    PROVE  /\ BorrowsNew \in Nat /\ ReservesNew \in Nat
           /\ totalBorrows <= BorrowsNew /\ totalReserves <= ReservesNew
           /\ BorrowsNew - ReservesNew >= totalBorrows - totalReserves
           /\ IndexNew \in Nat \ {0} /\ DriftNew \in Nat
<1>1. SimpleInterestFactor \in Nat /\ InterestAccumulated \in Nat
  BY InterestNat
<1>2. Truncated(reserveFactor, InterestAccumulated) \in 0..InterestAccumulated
  BY <1>1, TruncatedBelow DEF TypeOK, SettingTypes
<1>3. Truncated(SimpleInterestFactor, borrowIndex) \in Nat
  BY <1>1, TruncatedNat DEF TypeOK, BookTypes
<1>4. DriftNew \in Nat
  <2>1. SimpleInterestFactor * drift \in Nat
    BY <1>1 DEF TypeOK, BookTypes
  <2>2. SimpleInterestFactor * drift + Scale - 1 \in Nat
    BY <2>1, ScaleAssumption
  <2>3. (SimpleInterestFactor * drift + Scale - 1) \div Scale \in Nat
    BY <2>2, Quotient, ScaleAssumption
  <2> QED BY <2>3 DEF DriftNew, TypeOK, BookTypes
<1> QED BY <1>1, <1>2, <1>3, <1>4 DEF TypeOK, BookTypes, BorrowsNew, ReservesNew, IndexNew

LEMMA AccruedBook ==
    ASSUME TypeOK, NEW limit, NEW borrows \in Nat, NEW reserves \in Nat,
           Accrue(limit, borrows, reserves), now' = now
    PROVE  BookTypes'
  BY SettledBook DEF Accrue, BookTypes, TypeOK

LEMMA RateNat ==
    ASSUME TypeOK, NEW limit, CanAccrue(limit), CanRate
    PROVE  /\ RateNow \in Nat
           /\ totalSupply > 0 =>
                  RateNow * totalSupply <= (totalUnderlying + BorrowsNew - ReservesNew) * Scale
<1> DEFINE pool == (totalUnderlying + BorrowsNew - ReservesNew) * Scale
<1>1. CASE totalSupply = 0
  BY <1>1, MarketAssumption DEF RateNow, ExchangeRate
<1>2. CASE totalSupply # 0
  <2>1. pool \in Nat
    <3>1. totalUnderlying + BorrowsNew - ReservesNew \in Nat
      BY <1>2, SettledBook DEF CanRate, RateThere, TypeOK
    <3> QED BY <3>1, ScaleAssumption
  <2>2. RateNow = pool \div totalSupply /\ totalSupply \in Nat \ {0}
    BY <1>2 DEF RateNow, ExchangeRate, TypeOK, SupplyTypes
  <2> HIDE DEF pool
  <2>3. pool \div totalSupply \in Nat /\ (pool \div totalSupply) * totalSupply <= pool
    BY <2>1, <2>2, Quotient
  <2> QED BY <2>2, <2>3 DEF pool
<1> QED BY <1>1, <1>2

LEMMA BalanceNat ==
    ASSUME TypeOK, NEW u \in Users, NEW index \in Nat
    PROVE  BalanceAt(u, index) \in Nat
<1> DEFINE principal == accountBorrows[u].principal
           at == accountBorrows[u].interestIndex
<1>1. principal \in Nat /\ at \in Nat /\ (principal # 0 => at > 0)
  BY DEF TypeOK, DebtTypes
<1>2. CASE principal = 0
  BY <1>2 DEF BalanceAt
<1>3. CASE principal # 0
  <2>1. BalanceAt(u, index) = (principal * index) \div at
    BY <1>3 DEF BalanceAt
  <2> HIDE DEF principal, at
  <2>2. principal * index \in Nat /\ at \in Nat \ {0}
    BY <1>1, <1>3
  <2> QED BY <2>1, <2>2, Quotient
<1> QED BY <1>2, <1>3

LEMMA OwesTypes ==
    ASSUME TypeOK, NEW limit, CanAccrue(limit), NEW u \in Users, NEW amount \in Nat, Owes(u, amount)
    PROVE  DebtTypes'
  BY SettledBook DEF Owes, TypeOK, DebtTypes
------------------------------------------------------------------------------
(* Types.                                                                   *)

LEMMA IssueTypes ==
    ASSUME TypeOK, NEW receiver \in Holders, NEW tokens \in Nat, Issue(receiver, tokens)
    PROVE  SupplyTypes'
<1> DEFINE aside == IF totalSupply = 0 THEN SetAside ELSE 0
<1>1. aside \in Nat /\ tokens - aside \in Nat
  BY MarketAssumption DEF Issue
<1>2. accountTokens \in [Holders -> Nat] /\ Zero \in Holders /\ totalSupply \in Nat
  BY DEF TypeOK, SupplyTypes, Holders
<1> DEFINE first == [accountTokens EXCEPT ![Zero] = IF totalSupply = 0 THEN aside ELSE @]
<1>3. accountTokens' = [first EXCEPT ![receiver] = @ + tokens - aside]
  BY DEF Issue, aside
<1>4. first \in [Holders -> Nat]
  BY <1>1, <1>2
<1>5. accountTokens' \in [Holders -> Nat]
  <2> HIDE DEF first, aside
  <2> QED BY <1>1, <1>3, <1>4
<1>6. totalSupply' \in Nat
  BY DEF Issue, TypeOK, SupplyTypes
<1> QED BY <1>5, <1>6 DEF SupplyTypes

LEMMA MintTypes ==
    ASSUME TypeOK, NEW receiver \in Holders, NEW amount \in Nat, NEW min \in Nat,
           Mint(receiver, amount, min), calls' \in Nat
    PROVE  TypeOK'
<1>1. CanAccrue(maxRate) /\ BorrowsNew \in Nat /\ ReservesNew \in Nat
  BY SettledBook DEF Mint, Accrue
<1>2. (amount * Scale) \div RateNow \in Nat
  <2>1. RateNow \in Nat \ {0} /\ amount * Scale \in Nat
    BY <1>1, RateNat, ScaleAssumption DEF Mint
  <2> QED BY <2>1, Quotient
<1>3. SupplyTypes'
  BY <1>2, IssueTypes DEF Mint
<1>4. BookTypes'
  BY <1>1, AccruedBook DEF Mint
<1>5. DebtTypes' /\ SettingTypes' /\ totalUnderlying' \in Nat /\ now' \in Nat
  BY DEF Mint, TypeOK, debts, settings, DebtTypes, SettingTypes
<1> QED BY <1>3, <1>4, <1>5 DEF TypeOK

LEMMA PayOutTypes ==
    ASSUME TypeOK, NEW u \in Users, NEW tokens \in Nat, NEW amount \in Nat,
           PayOut(u, tokens, amount), calls' \in Nat
    PROVE  TypeOK'
<1>1. CanAccrue(maxRate) /\ BorrowsNew \in Nat /\ ReservesNew \in Nat
  BY SettledBook DEF PayOut, Accrue
<1>2. SupplyTypes'
  BY DEF PayOut, TypeOK, SupplyTypes, Holders
<1>3. BookTypes'
  BY <1>1, AccruedBook DEF PayOut
<1>4. DebtTypes' /\ SettingTypes' /\ totalUnderlying' \in Nat /\ now' \in Nat
  BY DEF PayOut, TypeOK, debts, settings, DebtTypes, SettingTypes
<1> QED BY <1>2, <1>3, <1>4 DEF TypeOK

LEMMA RedeemTypes ==
    ASSUME TypeOK, NEW u \in Users, NEW n \in Nat, calls' \in Nat,
           Redeem(u, n) \/ RedeemUnderlying(u, n)
    PROVE  TypeOK'
<1>1. RateNow \in Nat
  BY RateNat DEF Redeem, RedeemUnderlying
<1>2. CASE Redeem(u, n)
  BY <1>1, <1>2, TruncatedNat, PayOutTypes DEF Redeem
<1>3. CASE RedeemUnderlying(u, n)
  <2>1. RateNow \in Nat \ {0} /\ n * Scale \in Nat
    BY <1>1, <1>3, ScaleAssumption DEF RedeemUnderlying
  <2>2. (n * Scale) \div RateNow \in Nat
    BY <2>1, Quotient
  <2> QED BY <1>3, <2>2, PayOutTypes DEF RedeemUnderlying
<1> QED BY <1>2, <1>3

LEMMA BorrowTypes ==
    ASSUME TypeOK, NEW u \in Users, NEW amount \in Nat, Borrow(u, amount), calls' \in Nat
    PROVE  TypeOK'
<1>1. CanAccrue(maxRate) /\ BorrowsNew + amount \in Nat /\ ReservesNew \in Nat /\ IndexNew \in Nat
  BY SettledBook DEF Borrow, Accrue
<1>2. DebtTypes'
  <2>1. Balance(u) + amount \in Nat
    BY <1>1, BalanceNat DEF Balance
  <2> QED BY <1>1, <2>1, OwesTypes DEF Borrow
<1>3. BookTypes'
  BY <1>1, AccruedBook DEF Borrow
<1>4. SupplyTypes' /\ SettingTypes' /\ totalUnderlying' \in Nat /\ now' \in Nat
  BY DEF Borrow, TypeOK, supplies, settings, SupplyTypes, SettingTypes
<1> QED BY <1>2, <1>3, <1>4 DEF TypeOK

LEMMA SettleTypes ==
    ASSUME TypeOK, NEW limit, CanAccrue(limit), NEW u \in Users, NEW amount \in Nat,
           Settle(u, amount)
    PROVE  DebtTypes' /\ BorrowsNew - amount \in Nat /\ totalUnderlying' \in Nat
<1>1. BorrowsNew \in Nat /\ Balance(u) \in Nat
  BY SettledBook, BalanceNat DEF Balance
<1>2. DebtTypes'
  <2>1. Balance(u) - amount \in Nat
    BY <1>1 DEF Settle
  <2> QED BY <2>1, OwesTypes DEF Settle
<1> QED BY <1>1, <1>2 DEF Settle, TypeOK

LEMMA RepayTypes ==
    ASSUME TypeOK, NEW u \in Users, NEW amount \in Nat, Repay(u, amount), calls' \in Nat
    PROVE  TypeOK'
<1>1. CanAccrue(maxRate) /\ ReservesNew \in Nat /\ IndexNew \in Nat
  BY SettledBook DEF Repay, Accrue
<1>2. RepayAmount(u, amount) \in Nat
  BY <1>1, BalanceNat DEF RepayAmount, Balance
<1>3. DebtTypes' /\ BorrowsNew - RepayAmount(u, amount) \in Nat /\ totalUnderlying' \in Nat
  BY <1>1, <1>2, SettleTypes DEF Repay
<1>4. BookTypes'
  BY <1>1, <1>3, AccruedBook DEF Repay
<1>5. SupplyTypes' /\ SettingTypes' /\ now' \in Nat
  BY DEF Repay, TypeOK, supplies, settings, SupplyTypes, SettingTypes
<1> QED BY <1>3, <1>4, <1>5 DEF TypeOK

LEMMA SeizeTokensTypes ==
    ASSUME TypeOK, NEW limit, CanAccrue(limit), CanRate,
           NEW liquidator \in Users, NEW borrower \in Users, NEW tokens \in Nat,
           SeizeTokens(liquidator, borrower, tokens)
    PROVE  SupplyTypes' /\ SeizedReserves(tokens) \in Nat
<1> DEFINE protocol == Truncated(SeizeShare, tokens)
<1>1. protocol \in 0..tokens
  BY TruncatedBelow, SeizeShareAssumption
<1> HIDE DEF protocol
<1>2. SupplyTypes'
  BY <1>1 DEF SeizeTokens, protocol, TypeOK, SupplyTypes, Holders
<1>3. RateNow \in Nat /\ ReservesNew \in Nat
  BY RateNat, SettledBook
<1>4. Truncated(RateNow, protocol) \in Nat
  <2>1. protocol \in Nat
    BY <1>1
  <2> QED BY Zenon, <1>3, <2>1, TruncatedNat
<1> QED BY <1>2, <1>3, <1>4 DEF SeizedReserves, protocol

LEMMA SeizeTypes ==
    ASSUME TypeOK, NEW liquidator \in Users, NEW borrower \in Users, NEW tokens \in Nat,
           Seize(liquidator, borrower, tokens), calls' \in Nat
    PROVE  TypeOK'
<1>1. CanAccrue(maxRate) /\ BorrowsNew \in Nat
  BY SettledBook DEF Seize, Accrue
<1>2. SupplyTypes' /\ SeizedReserves(tokens) \in Nat
  BY <1>1, SeizeTokensTypes DEF Seize
<1>3. BookTypes'
  BY <1>1, <1>2, AccruedBook DEF Seize
<1>4. DebtTypes' /\ SettingTypes' /\ totalUnderlying' \in Nat /\ now' \in Nat
  BY DEF Seize, TypeOK, debts, settings, DebtTypes, SettingTypes
<1> QED BY <1>2, <1>3, <1>4 DEF TypeOK

LEMMA LiquidateTypes ==
    ASSUME TypeOK, NEW liquidator \in Users, NEW borrower \in Users,
           NEW amount \in Nat, NEW tokens \in Nat,
           Liquidate(liquidator, borrower, amount, tokens), calls' \in Nat
    PROVE  TypeOK'
<1>1. CanAccrue(maxRate)
  BY DEF Liquidate, Accrue
<1>2. DebtTypes' /\ BorrowsNew - amount \in Nat /\ totalUnderlying' \in Nat
  BY <1>1, SettleTypes DEF Liquidate
<1>3. SupplyTypes' /\ SeizedReserves(tokens) \in Nat
  BY <1>1, SeizeTokensTypes DEF Liquidate
<1>4. BookTypes'
  BY <1>2, <1>3, AccruedBook DEF Liquidate
<1>5. SettingTypes' /\ now' \in Nat
  BY DEF Liquidate, TypeOK, settings, SettingTypes
<1> QED BY <1>2, <1>3, <1>4, <1>5 DEF TypeOK

LEMMA TransferTypes ==
    ASSUME TypeOK, NEW src \in Users, NEW dst \in Holders, NEW tokens \in Nat,
           Transfer(src, dst, tokens), calls' \in Nat
    PROVE  TypeOK'
<1>1. SupplyTypes'
  BY DEF Transfer, TypeOK, SupplyTypes, Holders
<1>2. DebtTypes' /\ BookTypes' /\ SettingTypes' /\ totalUnderlying' \in Nat /\ now' \in Nat
  BY DEF Transfer, TypeOK, debts, totals, settings, DebtTypes, BookTypes, SettingTypes
<1> QED BY <1>1, <1>2 DEF TypeOK

LEMMA ReservesTypes ==
    ASSUME TypeOK, NEW amount \in Nat, AddReserves(amount) \/ ReduceReserves(amount), calls' \in Nat
    PROVE  TypeOK'
<1>1. CanAccrue(maxRate) /\ BorrowsNew \in Nat /\ ReservesNew \in Nat
  BY SettledBook DEF AddReserves, ReduceReserves, Accrue
<1>2. BookTypes' /\ totalUnderlying' \in Nat
  <2>1. CASE AddReserves(amount)
    BY <1>1, <2>1, AccruedBook DEF AddReserves, TypeOK
  <2>2. CASE ReduceReserves(amount)
    <3>1. ReservesNew - amount \in Nat
      BY <1>1, <2>2 DEF ReduceReserves
    <3> QED BY <1>1, <2>2, <3>1, AccruedBook DEF ReduceReserves, TypeOK
  <2> QED BY <2>1, <2>2
<1>3. SupplyTypes' /\ DebtTypes' /\ SettingTypes' /\ now' \in Nat
  BY DEF AddReserves, ReduceReserves, TypeOK, supplies, debts, settings,
         SupplyTypes, DebtTypes, SettingTypes
<1> QED BY <1>2, <1>3 DEF TypeOK

\* Calls that settle the interest, at most, and change a setting, at most.
LEMMA SettingsTypes ==
    ASSUME TypeOK, calls' \in Nat,
           \/ AccrueInterest
           \/ \E factor \in ReserveFactors : SetReserveFactor(factor)
           \/ \E p \in Models : SetInterestRateModel(p) \/ UpdateJumpRateModel(p)
           \/ \E limit \in MaxRates : SetBorrowRateMaxMantissa(limit)
    PROVE  TypeOK'
<1>1. /\ SupplyTypes' /\ DebtTypes' /\ totalUnderlying' \in Nat /\ now' = now
  BY DEF AccrueInterest, SetReserveFactor, SetInterestRateModel, UpdateJumpRateModel,
         SetBorrowRateMaxMantissa, TypeOK, supplies, debts, SupplyTypes, DebtTypes
<1>2. SettingTypes'
  BY MarketAssumption, ScaleAssumption
     DEF AccrueInterest, SetReserveFactor, SetInterestRateModel, UpdateJumpRateModel,
         SetBorrowRateMaxMantissa, TypeOK, settings, SettingTypes
<1>3. (\E limit : Accrue(limit, BorrowsNew, ReservesNew)) \/ UNCHANGED totals
  BY DEF AccrueInterest, SetReserveFactor, SetInterestRateModel, UpdateJumpRateModel,
         SetBorrowRateMaxMantissa
<1>4. BookTypes'
  <2>1. ASSUME NEW limit, Accrue(limit, BorrowsNew, ReservesNew) PROVE BookTypes'
    <3>1. BorrowsNew \in Nat /\ ReservesNew \in Nat
      BY <2>1, SettledBook DEF Accrue
    <3> QED BY <1>1, <2>1, <3>1, AccruedBook
  <2>2. CASE UNCHANGED totals
    BY <1>1, <2>2 DEF totals, TypeOK, BookTypes
  <2> QED BY <1>3, <2>1, <2>2
<1> QED BY <1>1, <1>2, <1>4 DEF TypeOK

LEMMA AccountCallsTypes ==
    ASSUME TypeOK, AccountCalls, calls' \in Nat PROVE TypeOK'
<1> PICK n \in Amounts :
        \/ \E receiver \in Holders, min \in MinAmounts : Mint(receiver, n, min)
        \/ \E u \in Users :
            \/ Redeem(u, n) \/ RedeemUnderlying(u, n)
            \/ Borrow(u, n)
            \/ Repay(u, n) \/ Repay(u, MaxUint)
            \/ \E dst \in Holders : Transfer(u, dst, n)
            \/ \E other \in Users : \/ Seize(other, u, n)
                                    \/ \E tokens \in Amounts : Liquidate(other, u, n, tokens)
  BY Zenon DEF AccountCalls
<1>1. n \in Nat /\ MaxUint \in Nat /\ Amounts \subseteq Nat /\ MinAmounts \subseteq Nat
  BY MarketAssumption
<1>2. CASE \E receiver \in Holders, min \in MinAmounts : Mint(receiver, n, min)
  BY <1>1, <1>2, MintTypes
<1>3. ASSUME NEW u \in Users, Redeem(u, n) \/ RedeemUnderlying(u, n) PROVE TypeOK'
  BY <1>1, <1>3, RedeemTypes
<1>4. ASSUME NEW u \in Users, Borrow(u, n) PROVE TypeOK'
  BY <1>1, <1>4, BorrowTypes
<1>5. ASSUME NEW u \in Users, Repay(u, n) \/ Repay(u, MaxUint) PROVE TypeOK'
  BY <1>1, <1>5, RepayTypes
<1>6. ASSUME NEW u \in Users, NEW dst \in Holders, Transfer(u, dst, n) PROVE TypeOK'
  BY <1>1, <1>6, TransferTypes
<1>7. ASSUME NEW u \in Users, NEW other \in Users, Seize(other, u, n) PROVE TypeOK'
  BY <1>1, <1>7, SeizeTypes
<1>8. ASSUME NEW u \in Users, NEW other \in Users, NEW tokens \in Amounts,
             Liquidate(other, u, n, tokens)
      PROVE  TypeOK'
  BY <1>1, <1>8, LiquidateTypes
<1> QED BY Zenon, <1>2, <1>3, <1>4, <1>5, <1>6, <1>7, <1>8

LEMMA StepTypes == TypeOK /\ [Next]_vars => TypeOK'
<1> SUFFICES ASSUME TypeOK, [Next]_vars PROVE TypeOK'
  OBVIOUS
<1>1. CASE calls' = calls + 1 /\ AccountCalls
  BY <1>1, AccountCallsTypes DEF TypeOK
<1>2. CASE calls' = calls + 1 /\ AdminCalls
  <2>1. calls' \in Nat /\ Amounts \subseteq Nat
    BY <1>2, MarketAssumption DEF TypeOK
  <2> QED BY <1>2, <2>1, ReservesTypes, SettingsTypes DEF AdminCalls
<1>3. CASE AccrueInterest
  <2>1. calls' \in Nat
    BY <1>3 DEF AccrueInterest, TypeOK
  <2> QED BY <1>3, <2>1, SettingsTypes
<1>4. CASE Block
  BY <1>4 DEF Block, TypeOK, supplies, debts, totals, settings,
              SupplyTypes, DebtTypes, BookTypes, SettingTypes
<1>5. CASE UNCHANGED vars
  BY <1>5 DEF vars, TypeOK, supplies, debts, totals, settings,
              SupplyTypes, DebtTypes, BookTypes, SettingTypes
<1> QED BY <1>1, <1>2, <1>3, <1>4, <1>5 DEF Next

\* No subtraction of the market underflows in a call that is let through, and
\* no balance is divided by an index of zero, whatever the rates and amounts.
THEOREM MarketTypes == Spec => []TypeOK
<1>1. Init => TypeOK
  BY MarketAssumption, ScaleAssumption
     DEF Init, TypeOK, SupplyTypes, DebtTypes, BookTypes, SettingTypes
<1> QED BY <1>1, StepTypes, PTL DEF Spec
------------------------------------------------------------------------------
(* The exchange rate.                                                       *)

\* The rate before the interest is settled is no higher than after.
LEMMA StoredRate ==
    ASSUME TypeOK, totalSupply > 0
    PROVE  /\ RateStored \in Int
           /\ RateStored * totalSupply <= Backing * Scale
           /\ \A limit : CanAccrue(limit) /\ CanRate => RateStored <= RateNow
<1> DEFINE pool == Backing * Scale
           poolNew == (totalUnderlying + BorrowsNew - ReservesNew) * Scale
<1>1. Backing \in Int /\ totalSupply \in Nat \ {0} /\ totalSupply # 0
  BY DEF Backing, TypeOK, BookTypes, SupplyTypes
<1>2. pool \in Int
  BY <1>1, ScaleAssumption
<1>3. RateStored = pool \div totalSupply
  BY <1>1 DEF RateStored, ExchangeRate, Backing
<1>4. RateStored \in Int /\ RateStored * totalSupply <= pool
  <2> HIDE DEF pool
  <2> QED BY <1>1, <1>2, <1>3, Quotient
<1>5. ASSUME NEW limit, CanAccrue(limit), CanRate PROVE RateStored <= RateNow
  <2>1. RateNow = poolNew \div totalSupply
    BY <1>1 DEF RateNow, ExchangeRate
  <2>2. poolNew \in Int /\ pool <= poolNew
    <3>1. /\ totalUnderlying + BorrowsNew - ReservesNew \in Int
          /\ Backing <= totalUnderlying + BorrowsNew - ReservesNew
      BY <1>5, SettledBook DEF Backing, TypeOK, BookTypes
    <3> QED BY <1>1, <3>1, ScaleAssumption
  <2> HIDE DEF pool, poolNew
  <2> QED BY <1>1, <1>2, <1>3, <2>1, <2>2, QuotientMonotone
<1> QED BY <1>4, <1>5

\* Whoever burns mTokens is paid no more than their worth (and whoever mints
\* them, with both negative, pays no less).
LEMMA FairExchange ==
    ASSUME TypeOK, totalSupply > 0, NEW limit, CanAccrue(limit), CanRate,
           NEW burnt \in Int, NEW payout \in Int, payout * Scale <= RateNow * burnt,
           totalSupply' = totalSupply - burnt, totalSupply' \in Nat,
           Backing' = totalUnderlying + BorrowsNew - ReservesNew - payout
    PROVE  Backing' * Scale >= RateStored * totalSupply'
<1> DEFINE pool == totalUnderlying + BorrowsNew - ReservesNew
<1>1. /\ RateNow \in Nat /\ RateStored \in Int /\ RateStored <= RateNow
      /\ pool \in Int /\ RateNow * totalSupply <= pool * Scale
      /\ totalSupply \in Nat
  BY RateNat, StoredRate, SettledBook DEF TypeOK, SupplyTypes
<1>2. Backing' = pool - payout
  BY SettledBook DEF TypeOK
<1> HIDE DEF pool
<1>3. RateStored * totalSupply' <= RateNow * totalSupply'
  BY <1>1
<1>4. RateNow * totalSupply' = RateNow * totalSupply - RateNow * burnt
  BY <1>1
<1>5. (pool - payout) * Scale = pool * Scale - payout * Scale
  BY <1>1, ScaleAssumption
<1>6. /\ RateStored * totalSupply' \in Int /\ RateNow * totalSupply' \in Int
      /\ RateNow * totalSupply \in Int /\ RateNow * burnt \in Int
      /\ pool * Scale \in Int /\ payout * Scale \in Int
  BY <1>1, ScaleAssumption
<1> QED BY <1>1, <1>2, <1>3, <1>4, <1>5, <1>6

\* The steps that leave the supply alone.
LEMMA SameSupply ==
    ASSUME TypeOK, totalSupply > 0, CanRate, totalSupply' = totalSupply,
           \/ Backing' = Backing
           \/ \E limit : CanAccrue(limit) /\ Backing' = totalUnderlying + BorrowsNew - ReservesNew
    PROVE  Backing' * Scale >= RateStored * totalSupply'
<1>1. CASE Backing' = Backing
  BY <1>1, StoredRate DEF Backing, TypeOK, BookTypes
<1>2. ASSUME NEW limit, CanAccrue(limit), Backing' = totalUnderlying + BorrowsNew - ReservesNew
      PROVE  Backing' * Scale >= RateStored * totalSupply'
  <2>1. RateNow \in Nat /\ 0 * Scale <= RateNow * 0
    BY <1>2, RateNat, ScaleAssumption
  <2>2. /\ totalSupply' = totalSupply - 0 /\ totalSupply' \in Nat
        /\ Backing' = totalUnderlying + BorrowsNew - ReservesNew - 0
    BY <1>2, SettledBook DEF TypeOK, SupplyTypes
  <2> QED BY <1>2, <2>1, <2>2, FairExchange
<1> QED BY <1>1, <1>2

LEMMA MintKeepsRate ==
    ASSUME TypeOK, totalSupply > 0, NEW receiver \in Holders, NEW amount \in Nat, NEW min \in Nat,
           Mint(receiver, amount, min)
    PROVE  Backing' * Scale >= RateStored * totalSupply'
<1> DEFINE tokens == (amount * Scale) \div RateNow
<1>1. CanAccrue(maxRate) /\ CanRate /\ BorrowsNew \in Nat /\ ReservesNew \in Nat
  BY SettledBook DEF Mint, Accrue
<1>2. RateNow \in Nat \ {0} /\ amount * Scale \in Nat
  BY <1>1, RateNat, ScaleAssumption DEF Mint
<1>3. tokens \in Nat /\ tokens * RateNow <= amount * Scale
  BY <1>2, Quotient
<1>4. totalSupply' = totalSupply + tokens
  BY DEF Mint, Issue
<1>5. Backing' = totalUnderlying + amount + BorrowsNew - ReservesNew
  BY DEF Mint, Accrue, Backing
<1> HIDE DEF tokens
<1>6. /\ totalSupply' = totalSupply - (-tokens) /\ totalSupply' \in Nat
      /\ -tokens \in Int /\ -amount \in Int
      /\ Backing' = totalUnderlying + BorrowsNew - ReservesNew - (-amount)
  BY <1>1, <1>3, <1>4, <1>5 DEF TypeOK, SupplyTypes
<1>7. (-amount) * Scale <= RateNow * (-tokens)
  BY <1>2, <1>3, ScaleAssumption
<1> QED BY <1>1, <1>6, <1>7, FairExchange

\* Both redemption for mTokens and the burning of the protocol's share of what
\* is seized pay the worth of the mTokens, truncated.
LEMMA BurnKeepsRate ==
    ASSUME TypeOK, totalSupply > 0, CanAccrue(maxRate), CanRate, NEW burnt \in Nat,
           totalSupply' = totalSupply - burnt, totalSupply' \in Nat,
           Backing' = totalUnderlying + BorrowsNew - ReservesNew - Truncated(RateNow, burnt)
    PROVE  Backing' * Scale >= RateStored * totalSupply'
<1> DEFINE payout == Truncated(RateNow, burnt)
<1>1. RateNow \in Nat /\ RateNow * burnt \in Nat
  BY RateNat
<1>2. payout \in Int /\ payout * Scale <= RateNow * burnt
  BY <1>1, Quotient, ScaleAssumption DEF Truncated
<1> HIDE DEF payout
<1>3. Backing' = totalUnderlying + BorrowsNew - ReservesNew - payout
  BY DEF payout
<1> QED BY <1>2, <1>3, FairExchange

LEMMA RedeemUnderlyingRate ==
    ASSUME TypeOK, totalSupply > 0, CanRate, NEW u \in Users, NEW amount \in Nat,
           RedeemUnderlying(u, amount)
    PROVE  Backing' * Scale > RateNow * (totalSupply' - 1)
<1> DEFINE tokens == (amount * Scale) \div RateNow
           pool == totalUnderlying + BorrowsNew - ReservesNew
<1>1. CanAccrue(maxRate) /\ BorrowsNew \in Nat /\ ReservesNew \in Nat
  BY SettledBook DEF RedeemUnderlying
<1>2. RateNow \in Nat \ {0} /\ amount * Scale \in Nat /\ RateNow * totalSupply <= pool * Scale
  BY <1>1, RateNat, ScaleAssumption DEF RedeemUnderlying
<1>3. tokens \in Nat /\ amount * Scale < tokens * RateNow + RateNow
  <2> DEFINE worth == amount * Scale
  <2>1. worth \in Nat
    BY <1>2
  <2> HIDE DEF worth
  <2>2. /\ worth \div RateNow \in Nat
        /\ worth < (worth \div RateNow) * RateNow + RateNow
    BY <1>2, <2>1, Quotient
  <2> QED BY <2>2 DEF worth
<1>4. totalSupply' = totalSupply - tokens /\ totalSupply \in Nat /\ pool \in Int
  BY <1>1 DEF RedeemUnderlying, PayOut, TypeOK, SupplyTypes
<1>5. Backing' = pool - amount
  BY <1>1 DEF RedeemUnderlying, PayOut, Accrue, Backing, TypeOK
<1> HIDE DEF tokens, pool
<1>6. (pool - amount) * Scale = pool * Scale - amount * Scale
  BY <1>4, ScaleAssumption
<1>7. RateNow * (totalSupply - tokens - 1) = RateNow * totalSupply - tokens * RateNow - RateNow
  BY <1>2, <1>3, <1>4
<1>8. /\ pool * Scale \in Int /\ RateNow * totalSupply \in Int /\ tokens * RateNow \in Int
  BY <1>2, <1>3, <1>4, ScaleAssumption
<1> QED BY <1>2, <1>3, <1>4, <1>5, <1>6, <1>7, <1>8

RateKept ==
    totalSupply > 0 /\ totalSupply' > 0 /\ CanRate
        => IF \E u \in Users, n \in Amounts : RedeemUnderlying(u, n)
           THEN Backing' * Scale > RateNow * (totalSupply' - 1)
           ELSE Backing' * Scale >= RateStored * totalSupply'

LEMMA AccountCallsRate ==
    ASSUME TypeOK, totalSupply > 0, CanRate, TypeOK', AccountCalls,
           ~ \E u \in Users, n \in Amounts : RedeemUnderlying(u, n)
    PROVE  Backing' * Scale >= RateStored * totalSupply'
<1> DEFINE Goal == Backing' * Scale >= RateStored * totalSupply'
<1> PICK n \in Amounts :
        \/ \E receiver \in Holders, min \in MinAmounts : Mint(receiver, n, min)
        \/ \E u \in Users :
            \/ Redeem(u, n)
            \/ Borrow(u, n)
            \/ Repay(u, n) \/ Repay(u, MaxUint)
            \/ \E dst \in Holders : Transfer(u, dst, n)
            \/ \E other \in Users : \/ Seize(other, u, n)
                                    \/ \E tokens \in Amounts : Liquidate(other, u, n, tokens)
  BY Zenon DEF AccountCalls
<1>1. n \in Nat /\ MaxUint \in Nat /\ Amounts \subseteq Nat /\ MinAmounts \subseteq Nat
  BY MarketAssumption
<1>2. /\ totalSupply' \in Nat /\ totalUnderlying \in Nat /\ totalBorrows \in Nat
      /\ totalReserves \in Nat
  BY DEF TypeOK, SupplyTypes, BookTypes
<1>3. CASE \E receiver \in Holders, min \in MinAmounts : Mint(receiver, n, min)
  BY <1>1, <1>3, MintKeepsRate
<1>4. ASSUME NEW u \in Users, Redeem(u, n) PROVE Goal
  <2>1. CanAccrue(maxRate) /\ BorrowsNew \in Nat /\ ReservesNew \in Nat
    BY <1>4, SettledBook DEF Redeem
  <2>2. Truncated(RateNow, n) \in Nat
    BY <1>1, <2>1, RateNat, TruncatedNat
  <2>3. totalSupply' = totalSupply - n
    BY <1>4 DEF Redeem, PayOut
  <2>4. Backing' = totalUnderlying + BorrowsNew - ReservesNew - Truncated(RateNow, n)
    BY <1>2, <1>4, <2>1, <2>2 DEF Redeem, PayOut, Accrue, Backing
  <2> QED BY <1>1, <1>2, <2>1, <2>3, <2>4, BurnKeepsRate
<1>5. ASSUME NEW u \in Users, Borrow(u, n) PROVE Goal
  <2>1. CanAccrue(maxRate) /\ BorrowsNew \in Nat /\ ReservesNew \in Nat
    BY <1>5, SettledBook DEF Borrow, Accrue
  <2>2. totalSupply' = totalSupply /\ Backing' = totalUnderlying + BorrowsNew - ReservesNew
    BY <1>1, <1>2, <1>5, <2>1 DEF Borrow, Accrue, Backing, supplies
  <2> QED BY <2>1, <2>2, SameSupply
<1>6. ASSUME NEW u \in Users, NEW amount \in Nat, Repay(u, amount) PROVE Goal
  <2>1. /\ CanAccrue(maxRate) /\ BorrowsNew \in Nat /\ ReservesNew \in Nat
        /\ IndexNew \in Nat
    BY <1>6, SettledBook DEF Repay, Accrue
  <2>2. RepayAmount(u, amount) \in Nat
    BY <2>1, BalanceNat DEF RepayAmount, Balance
  <2>3. totalSupply' = totalSupply /\ Backing' = totalUnderlying + BorrowsNew - ReservesNew
    BY <1>2, <1>6, <2>1, <2>2 DEF Repay, Settle, Accrue, Backing, supplies
  <2> QED BY <2>1, <2>3, SameSupply
<1>7. ASSUME NEW u \in Users, NEW dst \in Holders, Transfer(u, dst, n) PROVE Goal
  <2>1. totalSupply' = totalSupply /\ Backing' = Backing
    BY <1>7 DEF Transfer, Backing, totals
  <2> QED BY <2>1, SameSupply
<1>8. ASSUME NEW tokens \in Nat, NEW u \in Users, NEW other \in Users,
             SeizeTokens(other, u, tokens), CanAccrue(maxRate),
             Backing' = totalUnderlying + BorrowsNew - SeizedReserves(tokens)
      PROVE  Goal
  <2> DEFINE protocol == Truncated(SeizeShare, tokens)
  <2>1. protocol \in Nat
    BY TruncatedBelow, SeizeShareAssumption
  <2>2. totalSupply' = totalSupply - protocol
    BY <1>8 DEF SeizeTokens
  <2>3. Truncated(RateNow, protocol) \in Nat /\ BorrowsNew \in Nat /\ ReservesNew \in Nat
    <3> HIDE DEF protocol
    <3> QED BY <1>8, <2>1, RateNat, SettledBook, TruncatedNat
  <2>4. Backing' = totalUnderlying + BorrowsNew - ReservesNew - Truncated(RateNow, protocol)
    BY <1>2, <1>8, <2>3 DEF SeizedReserves
  <2> HIDE DEF protocol
  <2> QED BY <1>2, <1>8, <2>1, <2>2, <2>4, BurnKeepsRate
<1>9. ASSUME NEW u \in Users, NEW other \in Users, Seize(other, u, n) PROVE Goal
  <2>1. CanAccrue(maxRate) /\ SeizeTokens(other, u, n)
    BY <1>9 DEF Seize, Accrue
  <2>2. Backing' = totalUnderlying + BorrowsNew - SeizedReserves(n)
    BY <1>9 DEF Seize, Accrue, Backing
  <2> QED BY <1>1, <1>8, <2>1, <2>2
<1>10. ASSUME NEW u \in Users, NEW other \in Users, NEW tokens \in Amounts,
              Liquidate(other, u, n, tokens)
       PROVE  Goal
  <2>1. CanAccrue(maxRate) /\ SeizeTokens(other, u, tokens) /\ tokens \in Nat
    BY <1>1, <1>10 DEF Liquidate, Accrue
  <2>2. BorrowsNew \in Nat /\ SeizedReserves(tokens) \in Nat
    BY <2>1, SettledBook, SeizeTokensTypes
  <2>3. Backing' = totalUnderlying + BorrowsNew - SeizedReserves(tokens)
    BY <1>1, <1>2, <1>10, <2>2 DEF Liquidate, Settle, Accrue, Backing
  <2> QED BY <1>8, <2>1, <2>3
<1> HIDE DEF Goal
<1>11. Goal
  BY Zenon, <1>1, <1>3, <1>4, <1>5, <1>6, <1>7, <1>9, <1>10 DEF Goal
<1> QED BY <1>11 DEF Goal

LEMMA StepRate == TypeOK /\ TypeOK' /\ [Next]_vars => RateKept
<1> DEFINE Goal == Backing' * Scale >= RateStored * totalSupply'
<1> SUFFICES ASSUME TypeOK, TypeOK', [Next]_vars, totalSupply > 0, totalSupply' > 0, CanRate
             PROVE  IF \E u \in Users, n \in Amounts : RedeemUnderlying(u, n)
                    THEN Backing' * Scale > RateNow * (totalSupply' - 1)
                    ELSE Goal
  BY DEF RateKept
<1>1. ASSUME NEW u \in Users, NEW n \in Amounts, RedeemUnderlying(u, n)
      PROVE  Backing' * Scale > RateNow * (totalSupply' - 1)
  BY <1>1, MarketAssumption, RedeemUnderlyingRate
<1>2. ASSUME ~ \E u \in Users, n \in Amounts : RedeemUnderlying(u, n)
      PROVE  Goal
  <2>1. CASE AccountCalls
    BY <1>2, <2>1, AccountCallsRate
  <2>2. /\ totalUnderlying \in Nat /\ totalSupply \in Nat
        /\ \A limit : CanAccrue(limit) => BorrowsNew \in Nat /\ ReservesNew \in Nat
    BY SettledBook DEF TypeOK, SupplyTypes
  <2>3. ASSUME NEW n \in Amounts, AddReserves(n) \/ ReduceReserves(n) PROVE Goal
    <3>1. n \in Nat
      BY MarketAssumption
    <3>2. totalSupply' = totalSupply /\ CanAccrue(maxRate)
      BY <2>3 DEF AddReserves, ReduceReserves, supplies, Accrue
    <3>3. Backing' = totalUnderlying + BorrowsNew - ReservesNew
      BY <2>2, <2>3, <3>1, <3>2 DEF AddReserves, ReduceReserves, Accrue, Backing
    <3> QED BY <3>2, <3>3, SameSupply
  <2>4. ASSUME \/ AccrueInterest
               \/ \E factor \in ReserveFactors : SetReserveFactor(factor)
               \/ \E p \in Models : SetInterestRateModel(p) \/ UpdateJumpRateModel(p)
               \/ \E limit \in MaxRates : SetBorrowRateMaxMantissa(limit)
               \/ Block
               \/ UNCHANGED vars
        PROVE  Goal
    <3>1. totalSupply' = totalSupply /\ totalUnderlying' = totalUnderlying
      BY <2>4 DEF AccrueInterest, SetReserveFactor, SetInterestRateModel, UpdateJumpRateModel,
                  SetBorrowRateMaxMantissa, Block, vars, supplies
    <3>2. \/ \E limit : Accrue(limit, BorrowsNew, ReservesNew)
          \/ UNCHANGED totals
      BY <2>4 DEF AccrueInterest, SetReserveFactor, SetInterestRateModel, UpdateJumpRateModel,
                  SetBorrowRateMaxMantissa, Block, vars
    <3>3. CASE UNCHANGED totals
      BY <3>1, <3>3, SameSupply DEF totals, Backing
    <3>4. ASSUME NEW limit, Accrue(limit, BorrowsNew, ReservesNew) PROVE Goal
      <4>1. CanAccrue(limit) /\ Backing' = totalUnderlying + BorrowsNew - ReservesNew
        BY <3>1, <3>4 DEF Accrue, Backing
      <4> QED BY <3>1, <4>1, SameSupply
    <3> QED BY <3>2, <3>3, <3>4
  <2> HIDE DEF Goal
  <2> QED BY <2>1, <2>3, <2>4 DEF Next, AdminCalls
<1> HIDE DEF Goal
<1> QED BY Zenon, <1>1, <1>2

\* No call lowers the exchange rate, except that redeemUnderlying may cost those
\* who stay less than one mToken (mToken.sol:628), for every rate model, amount
\* and scale.
THEOREM RoundingFavoursPool == Spec => RateFallsByRounding
<1>1. TypeOK /\ TypeOK' /\ [Next]_vars => [RateKept]_vars
  BY StepRate
<1> QED BY <1>1, MarketTypes, PTL DEF Spec, RateFallsByRounding, RateKept
------------------------------------------------------------------------------
(* Debts.                                                                   *)

Kept(v) == Balance(v)' = Balance(v)

DebtsKept ==
    now' = now /\ CanAccrue(maxRate)
        => \/ \E p \in Models : UpdateJumpRateModel(p)
           \/ \A v, w \in Users : Balance(v)' # Balance(v) /\ Balance(w)' # Balance(w)
                                   => v = w

\* What an account owes with interest to this block is the same before and after
\* the interest is settled.
LEMMA SettlingKeepsDebt ==
    ASSUME TypeOK, NEW limit, NEW borrows, NEW reserves, Accrue(limit, borrows, reserves),
           now' = now, NEW v \in Users, accountBorrows'[v] = accountBorrows[v]
    PROVE  Kept(v)
<1>1. IndexNew \in Nat /\ borrowIndex' = IndexNew /\ accrualBlock' = now'
  BY SettledBook DEF Accrue
<1>2. SimpleInterestFactor' = 0
  BY <1>1 DEF SimpleInterestFactor
<1>3. IndexNew' = borrowIndex' + (0 * borrowIndex') \div Scale
  BY <1>2 DEF IndexNew, Truncated
<1>4. 0 * borrowIndex' = 0 /\ 0 \div Scale = 0
  BY <1>1, ScaleAssumption
<1>5. IndexNew' = IndexNew
  BY <1>1, <1>3, <1>4
<1> QED BY <1>5 DEF Kept, Balance, BalanceAt

\* Nor does a step that touches neither the book nor the debts change it.
LEMMA IdleKeepsDebt ==
    ASSUME UNCHANGED <<totals, model, totalUnderlying, now>>,
           NEW v \in Users, accountBorrows'[v] = accountBorrows[v]
    PROVE  Kept(v)
<1>1. IndexNew' = IndexNew
  BY DEF IndexNew, Truncated, SimpleInterestFactor, BorrowRate, totals
<1> QED BY <1>1 DEF Kept, Balance, BalanceAt

LEMMA OwesTouchesOne ==
    ASSUME TypeOK, NEW u \in Users, NEW amount, Owes(u, amount), NEW v \in Users, v # u
    PROVE  accountBorrows'[v] = accountBorrows[v]
  BY DEF Owes, TypeOK, DebtTypes

\* A call for an account changes what that account owes, at most.
LEMMA AccountCallsDebts ==
    ASSUME TypeOK, AccountCalls
    PROVE  \E u : \A v \in Users : v # u => Kept(v)
<1> DEFINE Goal == \E u : \A v \in Users : v # u => Kept(v)
<1> PICK n \in Amounts :
        \/ \E receiver \in Holders, min \in MinAmounts : Mint(receiver, n, min)
        \/ \E u \in Users :
            \/ Redeem(u, n) \/ RedeemUnderlying(u, n)
            \/ Borrow(u, n)
            \/ Repay(u, n) \/ Repay(u, MaxUint)
            \/ \E dst \in Holders : Transfer(u, dst, n)
            \/ \E other \in Users : \/ Seize(other, u, n)
                                    \/ \E tokens \in Amounts : Liquidate(other, u, n, tokens)
  BY Zenon DEF AccountCalls
<1>1. ASSUME NEW borrows, NEW reserves, Accrue(maxRate, borrows, reserves), now' = now,
             accountBorrows' = accountBorrows
      PROVE  Goal
  BY <1>1, SettlingKeepsDebt
<1>2. ASSUME NEW receiver \in Holders, NEW min \in MinAmounts, Mint(receiver, n, min) PROVE Goal
  BY <1>1, <1>2 DEF Mint, debts
<1>3. ASSUME NEW u \in Users, Redeem(u, n) \/ RedeemUnderlying(u, n) PROVE Goal
  BY <1>1, <1>3 DEF Redeem, RedeemUnderlying, PayOut, debts
<1>4. ASSUME NEW u \in Users, NEW amount, NEW borrows, NEW reserves,
             Accrue(maxRate, borrows, reserves), now' = now, Owes(u, amount)
      PROVE  Goal
  BY <1>4, OwesTouchesOne, SettlingKeepsDebt
<1>5. ASSUME NEW u \in Users, Borrow(u, n) PROVE Goal
  BY <1>4, <1>5 DEF Borrow
<1>6. ASSUME NEW u \in Users, NEW amount, Repay(u, amount) PROVE Goal
  BY <1>4, <1>6 DEF Repay, Settle
<1>7. ASSUME NEW u \in Users, NEW dst \in Holders, Transfer(u, dst, n) PROVE Goal
  BY <1>7, IdleKeepsDebt DEF Transfer, debts, settings
<1>8. ASSUME NEW u \in Users, NEW other \in Users, Seize(other, u, n) PROVE Goal
  BY <1>1, <1>8 DEF Seize, debts
<1>9. ASSUME NEW u \in Users, NEW other \in Users, NEW tokens \in Amounts,
             Liquidate(other, u, n, tokens)
      PROVE  Goal
  BY <1>4, <1>9 DEF Liquidate, Settle
<1> HIDE DEF Goal
<1>10. Goal
  BY Zenon, <1>2, <1>3, <1>5, <1>6, <1>7, <1>8, <1>9
<1> QED BY <1>10 DEF Goal

LEMMA AdminCallsDebts ==
    ASSUME TypeOK, AdminCalls \/ AccrueInterest
    PROVE  \/ \E p \in Models : UpdateJumpRateModel(p)
           \/ \A v \in Users : Kept(v)
<1>1. ASSUME NEW n \in Amounts, AddReserves(n) \/ ReduceReserves(n)
      PROVE  \A v \in Users : Kept(v)
  BY <1>1, SettlingKeepsDebt DEF AddReserves, ReduceReserves, debts
<1>2. ASSUME \/ \E factor \in ReserveFactors : SetReserveFactor(factor)
             \/ \E p \in Models : SetInterestRateModel(p)
             \/ AccrueInterest
      PROVE  \A v \in Users : Kept(v)
  BY <1>2, SettlingKeepsDebt DEF SetReserveFactor, SetInterestRateModel, AccrueInterest, debts
<1>3. ASSUME NEW limit \in MaxRates, SetBorrowRateMaxMantissa(limit)
      PROVE  \A v \in Users : Kept(v)
  BY <1>3, SettlingKeepsDebt, IdleKeepsDebt DEF SetBorrowRateMaxMantissa, debts
<1> QED BY <1>1, <1>2, <1>3 DEF AdminCalls

LEMMA StepDebts == TypeOK /\ [Next]_vars => DebtsKept
<1> SUFFICES ASSUME TypeOK, [Next]_vars, now' = now, ~ \E p \in Models : UpdateJumpRateModel(p)
             PROVE  \E u : \A v \in Users : v # u => Kept(v)
  BY Zenon DEF DebtsKept, Kept
<1>1. CASE AccountCalls
  BY <1>1, AccountCallsDebts
<1>2. CASE AdminCalls \/ AccrueInterest
  BY <1>2, AdminCallsDebts
<1>3. CASE UNCHANGED vars
  BY <1>3, IdleKeepsDebt DEF vars, settings, debts
<1>4. ~Block
  BY DEF Block, TypeOK
<1> QED BY <1>1, <1>2, <1>3, <1>4 DEF Next

\* No call changes what anyone but its account owes, whatever it does to the
\* utilization (mToken.sol:270).
THEOREM CallsKeepOthersDebts == Spec => OthersKeepDebts
<1>1. TypeOK /\ [Next]_vars => [DebtsKept]_vars
  BY StepDebts
<1> QED BY <1>1, MarketTypes, PTL DEF Spec, OthersKeepDebts, DebtsKept
------------------------------------------------------------------------------
(* The mTokens that are held.                                               *)

\* Sums of what is held are of finitely many holders.
LEMMA FiniteHolders == IsFiniteSet(Holders) /\ Zero \in Holders /\ Users \subseteq Holders
  BY MarketAssumption, FS_AddElement DEF Holders

\* A burn of one holder's mTokens.
LEMMA BurnHeld ==
    ASSUME TypeOK, SupplyIsHeld, NEW u \in Users, NEW tokens \in Nat,
           accountTokens' = [accountTokens EXCEPT ![u] = @ - tokens],
           totalSupply' = totalSupply - tokens, tokens <= accountTokens[u]
    PROVE  SupplyIsHeld' /\ (totalSupply > 0 => totalSupply' > 0)
<1>1. accountTokens \in [Holders -> Nat] /\ u \in Holders /\ u # Zero /\ tokens \in Int
  BY FiniteHolders, MarketAssumption DEF TypeOK, SupplyTypes
<1>2. SumFunction(accountTokens)' = SumFunction(accountTokens) - tokens
  BY <1>1, FiniteHolders, SumTaken, ZenonT(60)
<1>3. accountTokens'[Zero] = accountTokens[Zero]
  BY <1>1, FiniteHolders
<1>4. totalSupply > 0 => totalSupply' > 0
  <2>1. accountTokens[u] + accountTokens[Zero] <= SumFunction(accountTokens)
    BY <1>1, FiniteHolders, SumPair
  <2>2. accountTokens[u] \in Nat /\ accountTokens[Zero] \in Nat /\ totalSupply \in Nat
    BY <1>1, FiniteHolders DEF TypeOK, SupplyTypes
  <2> QED BY <1>1, <2>1, <2>2, MarketAssumption DEF SupplyIsHeld
<1>5. totalSupply \in Nat
  BY DEF TypeOK, SupplyTypes
<1> QED BY <1>1, <1>2, <1>3, <1>4, <1>5 DEF SupplyIsHeld

\* mTokens taken from one holder and added to another, or fewer of them.
LEMMA MoveHeld ==
    ASSUME TypeOK, SupplyIsHeld, NEW src \in Users, NEW dst \in Holders, src # dst,
           NEW taken \in Nat, NEW added \in Nat, added <= taken,
           taken <= accountTokens[src],
           SupplyTypes', totalSupply' = totalSupply - (taken - added),
           \A h \in Holders : accountTokens'[h] = IF h = src THEN accountTokens[h] - taken
                                                  ELSE IF h = dst THEN accountTokens[h] + added
                                                  ELSE accountTokens[h]
    PROVE  SupplyIsHeld' /\ (totalSupply > 0 => totalSupply' > 0)
<1>1. /\ accountTokens \in [Holders -> Int] /\ accountTokens' \in [Holders -> Int]
      /\ accountTokens \in [Holders -> Nat] /\ totalSupply \in Nat
      /\ src \in Holders /\ src # Zero /\ Zero \in Holders
  BY FiniteHolders, MarketAssumption DEF TypeOK, SupplyTypes
<1>2. /\ accountTokens'[src] - accountTokens[src] = -taken
      /\ accountTokens'[dst] - accountTokens[dst] = added
      /\ \A h \in Holders : h # src /\ h # dst => accountTokens'[h] = accountTokens[h]
  BY <1>1
<1>3. /\ accountTokens'[Zero] >= accountTokens[Zero]
      /\ accountTokens[Zero] \in Nat /\ accountTokens'[Zero] \in Int /\ accountTokens[src] \in Nat
  BY <1>1
<1>4. SumFunction(accountTokens') = SumFunction(accountTokens) + (-taken) + added
  BY <1>1, <1>2, FiniteHolders, SumTwoChanged
<1>5. accountTokens[src] + accountTokens[Zero] <= SumFunction(accountTokens)
  BY <1>1, FiniteHolders, SumPair
<1>6. SumFunction(accountTokens)' = totalSupply'
  BY <1>1, <1>4 DEF SupplyIsHeld
<1>7. totalSupply > 0 => totalSupply' > 0 /\ accountTokens[Zero] >= SetAside
  BY <1>1, <1>3, <1>5, MarketAssumption DEF SupplyIsHeld
<1>8. totalSupply' > 0 => totalSupply > 0
  BY <1>1
<1> QED BY <1>3, <1>6, <1>7, <1>8, MarketAssumption DEF SupplyIsHeld

LEMMA TransferHeld ==
    ASSUME TypeOK, SupplyIsHeld, TypeOK', NEW src \in Users, NEW dst \in Holders, NEW tokens \in Nat,
           Transfer(src, dst, tokens)
    PROVE  SupplyIsHeld'
<1>1. /\ src # dst /\ tokens <= accountTokens[src] /\ SupplyTypes'
      /\ totalSupply' = totalSupply - (tokens - tokens)
  BY DEF Transfer, TypeOK, SupplyTypes
<1>2. \A h \in Holders : accountTokens'[h] = IF h = src THEN accountTokens[h] - tokens
                                             ELSE IF h = dst THEN accountTokens[h] + tokens
                                             ELSE accountTokens[h]
  BY <1>1 DEF Transfer, TypeOK, SupplyTypes
<1>3. tokens <= tokens
  OBVIOUS
<1> QED BY <1>1, <1>2, <1>3, MoveHeld

LEMMA SeizeHeld ==
    ASSUME TypeOK, SupplyIsHeld, TypeOK', NEW liquidator \in Users, NEW borrower \in Users,
           NEW tokens \in Nat, SeizeTokens(liquidator, borrower, tokens)
    PROVE  /\ SupplyIsHeld' /\ (totalSupply > 0 => totalSupply' > 0)
           /\ totalSupply' = totalSupply - Truncated(SeizeShare, tokens)
<1> DEFINE protocol == Truncated(SeizeShare, tokens)
           added == tokens - protocol
<1>1. protocol \in Nat /\ added \in Nat /\ added <= tokens /\ tokens - added = protocol
  <2>1. protocol \in 0..tokens
    BY TruncatedBelow, SeizeShareAssumption
  <2> HIDE DEF protocol
  <2> QED BY <2>1
<1>2. /\ liquidator # borrower /\ tokens <= accountTokens[borrower]
      /\ totalSupply' = totalSupply - protocol /\ SupplyTypes' /\ liquidator \in Holders
  BY FiniteHolders DEF SeizeTokens, TypeOK
<1>3. accountTokens' = [accountTokens EXCEPT ![borrower] = @ - tokens,
                                             ![liquidator] = @ + tokens - protocol]
  BY DEF SeizeTokens
<1> HIDE DEF protocol
<1>4. \A h \in Holders : accountTokens'[h] = IF h = borrower THEN accountTokens[h] - tokens
                                             ELSE IF h = liquidator THEN accountTokens[h] + added
                                             ELSE accountTokens[h]
  BY <1>1, <1>2, <1>3 DEF TypeOK, SupplyTypes
<1> HIDE DEF added
<1> QED BY <1>1, <1>2, <1>4, MoveHeld DEF protocol

\* The first mint gives address(0) what it sets aside out of the tokens minted.
LEMMA IssueHeld ==
    ASSUME TypeOK, SupplyIsHeld, TypeOK', NEW receiver \in Holders, NEW tokens \in Nat,
           Issue(receiver, tokens)
    PROVE  SupplyIsHeld'
<1>0. /\ accountTokens \in [Holders -> Nat] /\ Zero \in Holders /\ totalSupply \in Nat
      /\ accountTokens \in [Holders -> Int] /\ accountTokens' \in [Holders -> Int]
      /\ accountTokens' \in [Holders -> Nat]
      /\ totalSupply' = totalSupply + tokens /\ SetAside \in Nat \ {0}
  BY FiniteHolders, MarketAssumption DEF TypeOK, SupplyTypes, Issue
<1>1. CASE totalSupply = 0
  <2>1. \A h \in Holders : accountTokens[h] = 0
    <3>1. \A h \in Holders : accountTokens[h] <= SumFunction(accountTokens)
      BY <1>0, FiniteHolders, SumOneEntry
    <3> QED BY <1>0, <1>1, <3>1 DEF SupplyIsHeld
  <2>2. tokens >= SetAside
    BY <1>0, <1>1 DEF Issue
  <2>3. accountTokens' = [[accountTokens EXCEPT ![Zero] = SetAside]
                              EXCEPT ![receiver] = @ + tokens - SetAside]
    BY <1>1 DEF Issue
  <2>4. CASE receiver = Zero
    <3>1. accountTokens'[Zero] = tokens /\ \A h \in Holders : h # Zero => accountTokens'[h] = accountTokens[h]
      BY <1>0, <2>3, <2>4
    <3>2. SumFunction(accountTokens') = SumFunction(accountTokens) + (tokens - 0)
      BY <1>0, <2>1, <3>1, FiniteHolders, SumOneChanged
    <3> QED BY <1>0, <1>1, <2>2, <3>1, <3>2 DEF SupplyIsHeld
  <2>5. CASE receiver # Zero
    <3>1. /\ accountTokens'[Zero] = SetAside /\ accountTokens'[receiver] = tokens - SetAside
          /\ \A h \in Holders : h # Zero /\ h # receiver => accountTokens'[h] = accountTokens[h]
      BY <1>0, <2>1, <2>3, <2>5
    <3>2. SumFunction(accountTokens')
            = SumFunction(accountTokens) + (SetAside - 0) + ((tokens - SetAside) - 0)
      BY <1>0, <2>1, <2>5, <3>1, FiniteHolders, SumTwoChanged
    <3> QED BY <1>0, <1>1, <3>1, <3>2 DEF SupplyIsHeld
  <2> QED BY <2>4, <2>5
<1>2. CASE totalSupply # 0
  <2>1. \A h \in Holders : accountTokens'[h] = IF h = receiver THEN accountTokens[h] + tokens
                                               ELSE accountTokens[h]
    BY <1>0, <1>2 DEF Issue
  <2>2. /\ accountTokens'[receiver] - accountTokens[receiver] = tokens
        /\ \A h \in Holders : h # receiver => accountTokens'[h] = accountTokens[h]
        /\ accountTokens'[Zero] >= accountTokens[Zero]
        /\ accountTokens'[Zero] \in Nat /\ accountTokens[Zero] \in Nat
    BY <1>0, <2>1
  <2>3. SumFunction(accountTokens') = SumFunction(accountTokens) + tokens
    BY <1>0, <2>2, FiniteHolders, SumOneChanged
  <2> QED BY <1>0, <1>2, <2>2, <2>3 DEF SupplyIsHeld
<1> QED BY <1>1, <1>2
------------------------------------------------------------------------------
(* What the supply is backed by.                                            *)

\* The assets of the pool are never less than nothing, and more while there
\* are mTokens.
Backed == Backing >= 0 /\ (totalSupply > 0 => Backing > 0)

\* The assets of the pool once the interest is settled.
Pool == totalUnderlying + BorrowsNew - ReservesNew

\* Interest adds to the pool: the reserves get no more than all of it.
LEMMA PoolGrows ==
    ASSUME TypeOK, NEW limit, CanAccrue(limit)
    PROVE  Pool \in Int /\ Backing \in Int /\ Backing <= Pool
  BY SettledBook DEF Pool, Backing, TypeOK, BookTypes

\* A step that leaves the supply alone and settles the interest, at most.
LEMMA SameSupplyBacked ==
    ASSUME TypeOK, Backed, totalSupply' = totalSupply,
           Backing' = Backing \/ \E limit : CanAccrue(limit) /\ Backing' = Pool
    PROVE  Backed'
  BY PoolGrows DEF Backed

\* mTokens that are burnt cost the pool less than all it has, because not all of
\* them are burnt and less than one is paid for that is not burnt.
LEMMA BurnBacked ==
    ASSUME TypeOK, Backed, NEW limit, CanAccrue(limit), CanRate,
           NEW burnt \in Nat, NEW payout \in Nat,
           \/ payout * Scale <= RateNow * burnt
           \/ payout * Scale < RateNow * burnt + RateNow,
           totalSupply = 0 => payout = 0,
           totalSupply' = totalSupply - burnt, totalSupply' \in Nat,
           totalSupply > 0 => totalSupply' > 0,
           Backing' = Pool - payout
    PROVE  Backed'
<1>1. Pool \in Int /\ Backing \in Int /\ Backing <= Pool /\ totalSupply \in Nat /\ RateNow \in Nat
  BY PoolGrows, RateNat DEF TypeOK, SupplyTypes
<1>2. CASE totalSupply = 0
  BY <1>1, <1>2 DEF Backed
<1>3. CASE totalSupply > 0
  <2>1. RateNow * totalSupply <= Pool * Scale /\ Pool > 0
    BY <1>1, <1>3, RateNat DEF Pool, Backed
  <2>2. payout * Scale < Pool * Scale
    <3>1. CASE RateNow = 0
      <4>1. payout * Scale <= 0 /\ 0 < Pool * Scale
        BY <1>1, <2>1, <3>1, ScaleAssumption
      <4>2. payout * Scale \in Int /\ Pool * Scale \in Int
        BY <1>1, ScaleAssumption
      <4> QED BY <4>1, <4>2
    <3>2. CASE RateNow > 0
      <4>1. burnt + 1 <= totalSupply
        BY <1>1, <1>3
      <4>2. RateNow * (burnt + 1) <= RateNow * totalSupply
        BY <1>1, <4>1
      <4>3. RateNow * (burnt + 1) = RateNow * burnt + RateNow
        BY <1>1
      <4>4. /\ payout * Scale \in Int /\ Pool * Scale \in Int /\ RateNow * burnt \in Int
            /\ RateNow * totalSupply \in Int
        BY <1>1, ScaleAssumption
      <4>5. payout * Scale < RateNow * burnt + RateNow
        BY <1>1, <3>2, <4>4
      <4> QED BY <1>1, <2>1, <4>2, <4>3, <4>4, <4>5
    <3> QED BY <1>1, <3>1, <3>2
  <2>3. payout < Pool
    BY <1>1, <2>2, ScaleAssumption
  <2> QED BY <1>1, <2>3 DEF Backed
<1> QED BY <1>1, <1>2, <1>3

LEMMA MintBacked ==
    ASSUME TypeOK, Backed, NEW receiver \in Holders, NEW amount \in Nat, NEW min \in Nat,
           Mint(receiver, amount, min)
    PROVE  Backed'
<1> DEFINE tokens == (amount * Scale) \div RateNow
<1>1. CanAccrue(maxRate) /\ BorrowsNew \in Nat /\ ReservesNew \in Nat /\ CanRate
  BY SettledBook DEF Mint, Accrue
<1>2. RateNow \in Nat \ {0}
  BY <1>1, RateNat DEF Mint
<1>3. Backing' = Pool + amount
  BY <1>1 DEF Mint, Accrue, Backing, Pool, TypeOK
<1>4. totalSupply = 0 => amount > 0
  <2> SUFFICES ASSUME totalSupply = 0, amount = 0 PROVE FALSE
    OBVIOUS
  <2>1. tokens >= SetAside
    BY DEF Mint, Issue
  <2>2. tokens = 0
    <3>1. amount * Scale = 0
      BY ScaleAssumption
    <3> QED BY <1>2, <3>1
  <2> QED BY <2>1, <2>2, MarketAssumption
<1> QED BY <1>1, <1>3, <1>4, PoolGrows DEF Backed, TypeOK, SupplyTypes

LEMMA RedeemBacked ==
    ASSUME TypeOK, SupplyIsHeld, TypeOK', Backed, NEW u \in Users, NEW n \in Nat, Redeem(u, n)
    PROVE  Backed'
<1> DEFINE payout == Truncated(RateNow, n)
<1>1. CanAccrue(maxRate) /\ CanRate /\ BorrowsNew \in Nat /\ ReservesNew \in Nat
  BY SettledBook DEF Redeem
<1>2. payout \in Nat /\ payout * Scale <= RateNow * n
  <2>1. RateNow \in Nat /\ RateNow * n \in Nat
    BY <1>1, RateNat
  <2> QED BY <2>1, TruncatedNat, Quotient, ScaleAssumption DEF Truncated
<1>3. /\ n > 0 /\ n <= totalSupply /\ n <= accountTokens[u]
      /\ totalSupply' = totalSupply - n
      /\ accountTokens' = [accountTokens EXCEPT ![u] = @ - n]
      /\ Accrue(maxRate, BorrowsNew, ReservesNew) /\ totalUnderlying' = totalUnderlying - payout
  BY DEF Redeem, PayOut
<1> HIDE DEF payout
<1>4. totalSupply > 0 => totalSupply' > 0
  BY <1>3, BurnHeld
<1>5. Backing' = Pool - payout
  BY <1>1, <1>2, <1>3 DEF Accrue, Backing, Pool, TypeOK
<1>6. totalSupply' \in Nat /\ totalSupply # 0
  BY <1>3 DEF TypeOK, SupplyTypes
<1> QED BY <1>1, <1>2, <1>3, <1>4, <1>5, <1>6, BurnBacked

\* With no mTokens yet at an initial rate of at most one, redeemUnderlying pays
\* nothing.
LEMMA RedeemUnderlyingBacked ==
    ASSUME InitialRate <= Scale,
           TypeOK, SupplyIsHeld, TypeOK', Backed, NEW u \in Users, NEW n \in Nat,
           RedeemUnderlying(u, n)
    PROVE  Backed'
<1> DEFINE worth == n * Scale
           tokens == worth \div RateNow
<1>1. CanAccrue(maxRate) /\ CanRate /\ BorrowsNew \in Nat /\ ReservesNew \in Nat
  BY SettledBook DEF RedeemUnderlying
<1>2. RateNow \in Nat \ {0} /\ worth \in Nat
  BY <1>1, RateNat, ScaleAssumption DEF RedeemUnderlying
<1>3. tokens \in Nat /\ worth < tokens * RateNow + RateNow
  <2> HIDE DEF worth
  <2> QED BY <1>2, Quotient
<1>4. /\ tokens <= totalSupply /\ tokens <= accountTokens[u]
      /\ totalSupply' = totalSupply - tokens
      /\ accountTokens' = [accountTokens EXCEPT ![u] = @ - tokens]
      /\ Accrue(maxRate, BorrowsNew, ReservesNew) /\ totalUnderlying' = totalUnderlying - n
  BY DEF RedeemUnderlying, PayOut
<1>5. n * Scale < RateNow * tokens + RateNow
  <2>1. tokens * RateNow = RateNow * tokens
    <3> HIDE DEF tokens
    <3> QED BY <1>2, <1>3
  <2> HIDE DEF tokens
  <2> QED BY <1>3, <2>1 DEF worth
<1> HIDE DEF tokens, worth
<1>6. totalSupply > 0 => totalSupply' > 0
  BY <1>3, <1>4, BurnHeld
<1>7. totalSupply = 0 => n = 0
  <2> SUFFICES ASSUME totalSupply = 0, n # 0 PROVE FALSE
    OBVIOUS
  <2>1. tokens = 0 /\ RateNow = InitialRate
    BY <1>3, <1>4 DEF RateNow, ExchangeRate
  <2>2. n * Scale < Scale
    BY <1>2, <1>5, <2>1, ScaleAssumption
  <2>3. n * Scale >= Scale
    BY ScaleAssumption
  <2> QED BY <2>2, <2>3, ScaleAssumption
<1>8. Backing' = Pool - n
  BY <1>1, <1>4 DEF Accrue, Backing, Pool, TypeOK
<1>9. totalSupply' \in Nat
  BY DEF TypeOK, SupplyTypes
<1> QED BY <1>1, <1>3, <1>4, <1>5, <1>6, <1>7, <1>8, <1>9, BurnBacked

\* The protocol's share of what is seized becomes reserves at its worth.
LEMMA SeizeBacked ==
    ASSUME TypeOK, SupplyIsHeld, TypeOK', Backed,
           NEW liquidator \in Users, NEW borrower \in Users, NEW tokens \in Nat,
           SeizeTokens(liquidator, borrower, tokens), CanAccrue(maxRate), CanRate,
           Backing' = totalUnderlying + BorrowsNew - SeizedReserves(tokens)
    PROVE  Backed'
<1> DEFINE protocol == Truncated(SeizeShare, tokens)
           payout == Truncated(RateNow, protocol)
<1>1. protocol \in Nat /\ BorrowsNew \in Nat /\ ReservesNew \in Nat /\ RateNow \in Nat
  BY TruncatedBelow, SeizeShareAssumption, SettledBook, RateNat
<1>2. totalSupply' = totalSupply - protocol /\ (totalSupply > 0 => totalSupply' > 0)
  BY SeizeHeld
<1>3. SeizedReserves(tokens) = ReservesNew + payout
  BY DEF SeizedReserves
<1> HIDE DEF protocol
<1>4. payout \in Nat /\ payout * Scale <= RateNow * protocol
  <2>1. RateNow * protocol \in Nat
    BY <1>1
  <2> QED BY <1>1, <2>1, TruncatedNat, Quotient, ScaleAssumption DEF Truncated
<1>5. totalSupply = 0 => payout = 0
  <2> SUFFICES ASSUME totalSupply = 0 PROVE payout = 0
    OBVIOUS
  <2>1. protocol = 0
    BY <1>1, <1>2 DEF TypeOK, SupplyTypes
  <2>2. RateNow * 0 = 0 /\ 0 \div Scale = 0
    BY <1>1, ScaleAssumption
  <2> QED BY <2>1, <2>2 DEF Truncated
<1> HIDE DEF payout
<1>6. Backing' = Pool - payout /\ totalSupply' \in Nat
  BY <1>1, <1>3, <1>4 DEF Pool, TypeOK, SupplyTypes
<1> QED BY <1>1, <1>2, <1>4, <1>5, <1>6, BurnBacked

------------------------------------------------------------------------------
(* The theorems of the supply and of the pool.                              *)

\* Every call of an account keeps the supply the sum of what is held, and
\* once there are mTokens there always are: some are set aside for good.
LEMMA AccountCallsHeld ==
    ASSUME TypeOK, SupplyIsHeld, TypeOK', AccountCalls
    PROVE  SupplyIsHeld' /\ (totalSupply > 0 => totalSupply' > 0)
<1> DEFINE Goal == SupplyIsHeld' /\ (totalSupply > 0 => totalSupply' > 0)
<1> PICK n \in Amounts :
        \/ \E receiver \in Holders, min \in MinAmounts : Mint(receiver, n, min)
        \/ \E u \in Users :
            \/ Redeem(u, n) \/ RedeemUnderlying(u, n)
            \/ Borrow(u, n)
            \/ Repay(u, n) \/ Repay(u, MaxUint)
            \/ \E dst \in Holders : Transfer(u, dst, n)
            \/ \E other \in Users : \/ Seize(other, u, n)
                                    \/ \E tokens \in Amounts : Liquidate(other, u, n, tokens)
  BY Zenon DEF AccountCalls
<1>1. n \in Nat /\ Amounts \subseteq Nat
  BY MarketAssumption
<1>2. ASSUME NEW receiver \in Holders, NEW min \in MinAmounts, Mint(receiver, n, min)
      PROVE  Goal
  <2>1. CanAccrue(maxRate) /\ CanRate /\ RateNow > 0
    BY <1>2 DEF Mint, Accrue
  <2>2. RateNow \in Nat \ {0} /\ n * Scale \in Nat
    BY <1>1, <2>1, RateNat, ScaleAssumption
  <2>3. (n * Scale) \div RateNow \in Nat
    BY <2>2, Quotient
  <2>4. totalSupply' = totalSupply + (n * Scale) \div RateNow /\ totalSupply \in Nat
    BY <1>2 DEF Mint, Issue, TypeOK, SupplyTypes
  <2> QED BY <1>2, <2>3, <2>4, IssueHeld DEF Mint
<1>3. ASSUME NEW u \in Users, NEW tokens \in Nat, NEW amount, PayOut(u, tokens, amount)
      PROVE  Goal
  BY <1>3, BurnHeld DEF PayOut
<1>4. ASSUME NEW u \in Users, Redeem(u, n) PROVE Goal
  BY <1>1, <1>3, <1>4 DEF Redeem
<1>5. ASSUME NEW u \in Users, RedeemUnderlying(u, n) PROVE Goal
  <2>1. CanAccrue(maxRate) /\ CanRate /\ RateNow > 0
    BY <1>5 DEF RedeemUnderlying
  <2>2. RateNow \in Nat \ {0} /\ n * Scale \in Nat
    BY <1>1, <2>1, RateNat, ScaleAssumption
  <2>3. (n * Scale) \div RateNow \in Nat
    BY <2>2, Quotient
  <2> QED BY <1>3, <1>5, <2>3 DEF RedeemUnderlying
<1>6. ASSUME UNCHANGED supplies PROVE Goal
  BY <1>6 DEF supplies, SupplyIsHeld
<1>7. ASSUME NEW u \in Users, Borrow(u, n) \/ Repay(u, n) \/ Repay(u, MaxUint)
      PROVE  Goal
  BY <1>6, <1>7 DEF Borrow, Repay
<1>8. ASSUME NEW u \in Users, NEW dst \in Holders, Transfer(u, dst, n) PROVE Goal
  BY <1>1, <1>8, TransferHeld DEF Transfer
<1>9. ASSUME NEW u \in Users, NEW other \in Users, Seize(other, u, n) PROVE Goal
  BY <1>1, <1>9, SeizeHeld DEF Seize
<1>10. ASSUME NEW u \in Users, NEW other \in Users, NEW tokens \in Amounts,
              Liquidate(other, u, n, tokens)
       PROVE  Goal
  BY <1>1, <1>10, SeizeHeld DEF Liquidate
<1> HIDE DEF Goal
<1>11. Goal
  BY Zenon, <1>2, <1>4, <1>5, <1>7, <1>8, <1>9, <1>10
<1> QED BY <1>11 DEF Goal

LEMMA StepHeld == TypeOK /\ SupplyIsHeld /\ TypeOK' /\ [Next]_vars => SupplyIsHeld'
<1> SUFFICES ASSUME TypeOK, SupplyIsHeld, TypeOK', [Next]_vars PROVE SupplyIsHeld'
  OBVIOUS
<1>1. CASE AccountCalls
  BY <1>1, AccountCallsHeld
<1>2. CASE UNCHANGED supplies
  BY <1>2 DEF supplies, SupplyIsHeld
<1>3. AccountCalls \/ UNCHANGED supplies
  BY DEF Next, vars, AdminCalls, AccrueInterest, SetReserveFactor, SetInterestRateModel,
         UpdateJumpRateModel, SetBorrowRateMaxMantissa, AddReserves, ReduceReserves, Block
<1> QED BY <1>1, <1>2, <1>3

LEMMA InitHeld == Init => SupplyIsHeld
<1> SUFFICES ASSUME Init PROVE SupplyIsHeld
  OBVIOUS
<1>1. /\ DOMAIN accountTokens = Holders /\ \A h \in Holders : accountTokens[h] = 0
      /\ totalSupply = 0
  BY DEF Init
<1>2. SumFunction(accountTokens) = 0
  BY <1>1, FiniteHolders, SumZero DEF SumFunction
<1> QED BY <1>1, <1>2 DEF SupplyIsHeld

\* No sequence of mints, redemptions, transfers and seizures makes or loses an
\* mToken, or frees those that the first mint set aside (mToken.sol:707), for any
\* number of holders.
THEOREM SupplyHeld == Spec => []SupplyIsHeld
<1>1. TypeOK /\ SupplyIsHeld /\ TypeOK' /\ [Next]_vars => SupplyIsHeld'
  BY StepHeld
<1> QED BY <1>1, InitHeld, MarketTypes, PTL DEF Spec

LEMMA AccountCallsBacked ==
    ASSUME InitialRate <= Scale, TypeOK, SupplyIsHeld, TypeOK', Backed, AccountCalls
    PROVE  Backed'
<1> PICK n \in Amounts :
        \/ \E receiver \in Holders, min \in MinAmounts : Mint(receiver, n, min)
        \/ \E u \in Users :
            \/ Redeem(u, n) \/ RedeemUnderlying(u, n)
            \/ Borrow(u, n)
            \/ Repay(u, n) \/ Repay(u, MaxUint)
            \/ \E dst \in Holders : Transfer(u, dst, n)
            \/ \E other \in Users : \/ Seize(other, u, n)
                                    \/ \E tokens \in Amounts : Liquidate(other, u, n, tokens)
  BY Zenon DEF AccountCalls
<1>1. n \in Nat /\ MaxUint \in Nat /\ Amounts \subseteq Nat /\ MinAmounts \subseteq Nat
  BY MarketAssumption
<1>2. totalUnderlying \in Nat
  BY DEF TypeOK
<1>3. ASSUME NEW receiver \in Holders, NEW min \in MinAmounts, Mint(receiver, n, min)
      PROVE  Backed'
  BY <1>1, <1>3, MintBacked
<1>4. ASSUME NEW u \in Users, Redeem(u, n) \/ RedeemUnderlying(u, n) PROVE Backed'
  BY <1>1, <1>4, RedeemBacked, RedeemUnderlyingBacked
<1>5. ASSUME NEW u \in Users, Borrow(u, n) PROVE Backed'
  <2>1. CanAccrue(maxRate) /\ BorrowsNew \in Nat /\ ReservesNew \in Nat
    BY <1>5, SettledBook DEF Borrow, Accrue
  <2>2. totalSupply' = totalSupply /\ Backing' = Pool
    BY <1>1, <1>2, <1>5, <2>1 DEF Borrow, Accrue, Backing, Pool, supplies
  <2> QED BY <2>1, <2>2, SameSupplyBacked
<1>6. ASSUME NEW u \in Users, NEW amount \in Nat, Repay(u, amount) PROVE Backed'
  <2>1. /\ CanAccrue(maxRate) /\ BorrowsNew \in Nat /\ ReservesNew \in Nat
        /\ IndexNew \in Nat
    BY <1>6, SettledBook DEF Repay, Accrue
  <2>2. RepayAmount(u, amount) \in Nat
    BY <2>1, BalanceNat DEF RepayAmount, Balance
  <2>3. totalSupply' = totalSupply /\ Backing' = Pool
    BY <1>2, <1>6, <2>1, <2>2 DEF Repay, Settle, Accrue, Backing, Pool, supplies
  <2> QED BY <2>1, <2>3, SameSupplyBacked
<1>7. ASSUME NEW u \in Users, NEW dst \in Holders, Transfer(u, dst, n) PROVE Backed'
  <2>1. totalSupply' = totalSupply /\ Backing' = Backing
    BY <1>7 DEF Transfer, Backing, totals
  <2> QED BY <2>1, SameSupplyBacked
<1>8. ASSUME NEW u \in Users, NEW other \in Users, Seize(other, u, n) PROVE Backed'
  <2>1. CanAccrue(maxRate) /\ CanRate /\ SeizeTokens(other, u, n)
    BY <1>8 DEF Seize, Accrue
  <2>2. Backing' = totalUnderlying + BorrowsNew - SeizedReserves(n)
    BY <1>8 DEF Seize, Accrue, Backing
  <2> QED BY <1>1, <2>1, <2>2, SeizeBacked
<1>9. ASSUME NEW u \in Users, NEW other \in Users, NEW tokens \in Amounts,
             Liquidate(other, u, n, tokens)
      PROVE  Backed'
  <2>1. CanAccrue(maxRate) /\ CanRate /\ SeizeTokens(other, u, tokens) /\ tokens \in Nat
    BY <1>1, <1>9 DEF Liquidate, Accrue
  <2>2. BorrowsNew \in Nat /\ SeizedReserves(tokens) \in Nat
    BY <2>1, SettledBook, SeizeTokensTypes
  <2>3. Backing' = totalUnderlying + BorrowsNew - SeizedReserves(tokens)
    BY <1>1, <1>2, <1>9, <2>2 DEF Liquidate, Settle, Accrue, Backing
  <2> QED BY <2>1, <2>3, SeizeBacked
<1> QED BY Zenon, <1>1, <1>3, <1>4, <1>5, <1>6, <1>7, <1>8, <1>9

LEMMA StepBacked ==
    ASSUME InitialRate <= Scale, TypeOK, SupplyIsHeld, TypeOK', Backed, [Next]_vars
    PROVE  Backed'
<1>1. CASE AccountCalls
  BY <1>1, AccountCallsBacked
<1>2. totalUnderlying \in Nat
      /\ \A limit : CanAccrue(limit) => BorrowsNew \in Nat /\ ReservesNew \in Nat
  BY SettledBook DEF TypeOK
<1>3. ASSUME NEW n \in Amounts, AddReserves(n) \/ ReduceReserves(n) PROVE Backed'
  <2>1. n \in Nat
    BY MarketAssumption
  <2>2. totalSupply' = totalSupply /\ CanAccrue(maxRate)
    BY <1>3 DEF AddReserves, ReduceReserves, supplies, Accrue
  <2>3. Backing' = Pool
    BY <1>2, <1>3, <2>1, <2>2 DEF AddReserves, ReduceReserves, Accrue, Backing, Pool
  <2> QED BY <2>2, <2>3, SameSupplyBacked
<1>4. ASSUME \/ AccrueInterest
             \/ \E factor \in ReserveFactors : SetReserveFactor(factor)
             \/ \E p \in Models : SetInterestRateModel(p) \/ UpdateJumpRateModel(p)
             \/ \E limit \in MaxRates : SetBorrowRateMaxMantissa(limit)
             \/ Block
             \/ UNCHANGED vars
      PROVE  Backed'
  <2>1. totalSupply' = totalSupply /\ totalUnderlying' = totalUnderlying
    BY <1>4 DEF AccrueInterest, SetReserveFactor, SetInterestRateModel, UpdateJumpRateModel,
                SetBorrowRateMaxMantissa, Block, vars, supplies
  <2>2. \/ \E limit : Accrue(limit, BorrowsNew, ReservesNew)
        \/ UNCHANGED totals
    BY <1>4 DEF AccrueInterest, SetReserveFactor, SetInterestRateModel, UpdateJumpRateModel,
                SetBorrowRateMaxMantissa, Block, vars
  <2>3. CASE UNCHANGED totals
    BY <2>1, <2>3, SameSupplyBacked DEF totals, Backing
  <2>4. ASSUME NEW limit, Accrue(limit, BorrowsNew, ReservesNew) PROVE Backed'
    <3>1. CanAccrue(limit) /\ Backing' = Pool
      BY <2>1, <2>4 DEF Accrue, Backing, Pool
    <3> QED BY <2>1, <3>1, SameSupplyBacked
  <2> QED BY <2>2, <2>3, <2>4
<1> QED BY <1>1, <1>3, <1>4 DEF Next, AdminCalls

\* At an initial rate of at most one, whatever is minted, redeemed, seized,
\* borrowed and withdrawn, the pool is worth more than nothing while there are
\* mTokens: the exchange rate and the utilization can always be computed
\* (mTokenStorage.sol:296).
THEOREM PoolStaysBacked ==
    ASSUME InitialRate <= Scale
    PROVE  Spec => []StaysComputable
<1>1. Init => Backed
  BY DEF Init, Backed, Backing
<1>2. TypeOK /\ SupplyIsHeld /\ TypeOK' /\ Backed /\ [Next]_vars => Backed'
  BY StepBacked
<1>3. TypeOK /\ Backed => StaysComputable
  BY DEF Backed, StaysComputable, Backing, TypeOK, BookTypes
<1> QED BY <1>1, <1>2, <1>3, SupplyHeld, MarketTypes, PTL DEF Spec
------------------------------------------------------------------------------
(* What all accounts owe.                                                   *)

\* A quotient is at least any number whose product does not exceed the dividend.
LEMMA QuotientAtLeast ==
    ASSUME NEW n \in Int, NEW i \in Nat \ {0}, NEW m \in Int, m * i <= n
    PROVE  m <= n \div i
<1> DEFINE q == n \div i
<1>1. q \in Int /\ n < q * i + i
  BY Quotient
<1> HIDE DEF q
<1>2. m * i < (q + 1) * i
  BY <1>1
<1>3. m < q + 1
  BY <1>1, <1>2
<1> QED BY <1>1, <1>3 DEF q

\* k times what u owes at an index, before it is truncated to a whole amount.
ShareAt(k, u, index) ==
    IF accountBorrows[u].principal = 0 THEN 0
    ELSE (accountBorrows[u].principal * index * k) \div accountBorrows[u].interestIndex

SharesAt(k, index) == [u \in Users |-> ShareAt(k, u, index)]

\* The debts with their fractions, which no whole number of them exceeds, are at
\* most the book and its drift.  Whole balances are not enough: they do not tell
\* how much of the fractions the next accrual makes whole.
DebtsShared ==
    \A k \in Nat \ {0} : SumFunction(SharesAt(k, borrowIndex)) <= (totalBorrows + drift) * k

LEMMA ShareNat ==
    ASSUME TypeOK, NEW k \in Nat, NEW index \in Nat
    PROVE  /\ \A u \in Users : ShareAt(k, u, index) \in Nat
           /\ SharesAt(k, index) \in [Users -> Nat]
           /\ SharesAt(k, index) \in [Users -> Int]
           /\ SumFunction(SharesAt(k, index)) \in Nat
<1>1. ASSUME NEW u \in Users PROVE ShareAt(k, u, index) \in Nat
  <2> DEFINE p == accountBorrows[u].principal
             i == accountBorrows[u].interestIndex
  <2>1. p \in Nat /\ i \in Nat /\ (p # 0 => i > 0)
    BY DEF TypeOK, DebtTypes
  <2>2. ShareAt(k, u, index) = IF p = 0 THEN 0 ELSE (p * index * k) \div i
    BY DEF ShareAt
  <2> HIDE DEF p, i
  <2>3. p * index \in Nat
    BY <2>1
  <2>4. (p * index) * k \in Nat
    BY <2>3
  <2>5. p # 0 => (p * index * k) \div i \in Nat
    BY <2>1, <2>4, Quotient
  <2> QED BY <2>2, <2>5
<1>2. SharesAt(k, index) \in [Users -> Nat]
  BY <1>1 DEF SharesAt
<1> QED BY <1>1, <1>2, MarketAssumption, SumOfNat

\* Interest, the same for all and truncated on the index, adds no more to a share
\* than its part.
LEMMA ShareGrows ==
    ASSUME NEW p \in Nat, NEW i \in Nat \ {0}, NEW old \in Nat, NEW new \in Nat, NEW k \in Nat,
           NEW s \in Nat, NEW t \in Nat, s * new <= old * t
    PROVE  s * ((p * new * k) \div i) <= (p * old * (k * t)) \div i
<1> DEFINE m == p * new * k
           n == p * old * (k * t)
           q == m \div i
<1>1. m \in Nat /\ n \in Nat /\ p * k \in Nat
  <2>1. p * new \in Nat /\ p * old \in Nat /\ k * t \in Nat /\ p * k \in Nat
    OBVIOUS
  <2>2. (p * new) * k \in Nat /\ (p * old) * (k * t) \in Nat
    BY <2>1
  <2> QED BY <2>1, <2>2
<1>2. s * m <= n
  <2>1. s * m = (p * k) * (s * new) /\ n = (p * k) * (old * t)
    OBVIOUS
  <2>2. s * new \in Nat /\ old * t \in Nat
    OBVIOUS
  <2>3. (p * k) * (s * new) <= (p * k) * (old * t)
    BY <1>1, <2>2
  <2> QED BY <2>1, <2>3
<1> HIDE DEF m, n
<1>3. q \in Nat /\ q * i <= m
  BY <1>1, Quotient
<1> HIDE DEF q
<1>4. (s * q) * i <= n
  <2>1. s * (q * i) <= s * m
    BY <1>1, <1>3
  <2>2. (s * q) * i = s * (q * i)
    BY <1>3
  <2>3. s * (q * i) \in Int /\ s * m \in Int
    BY <1>1, <1>3
  <2> QED BY <1>1, <1>2, <2>1, <2>2, <2>3
<1>5. s * q \in Int
  BY <1>3
<1>6. s * q <= n \div i
  BY <1>1, <1>4, <1>5, QuotientAtLeast
<1> QED BY <1>6 DEF m, n, q

\* The drift makes up for what an accrual truncates off the book.
LEMMA BookGrows ==
    ASSUME TypeOK, NEW limit, CanAccrue(limit)
    PROVE  /\ Scale * IndexNew <= borrowIndex * (Scale + SimpleInterestFactor)
           /\ (totalBorrows + drift) * (Scale + SimpleInterestFactor)
                <= Scale * (BorrowsNew + DriftNew)
<1> DEFINE F == SimpleInterestFactor
           B == totalBorrows
           D == drift
           I == borrowIndex
           interest == (F * B) \div Scale
           lead == (F * D + Scale - 1) \div Scale
           one == IF (F * B) % Scale = 0 THEN 0 ELSE 1
           gain == (F * I) \div Scale
<1>1. F \in Nat /\ B \in Nat /\ D \in Nat /\ I \in Nat /\ Scale \in Nat \ {0}
  BY InterestNat, ScaleAssumption DEF TypeOK, BookTypes
<1>2. /\ BorrowsNew = B + interest /\ IndexNew = I + gain
      /\ DriftNew = D + lead + one
  BY DEF BorrowsNew, IndexNew, DriftNew, InterestAccumulated, Truncated
<1> HIDE DEF F, B, D, I
<1>3. F * B \in Nat /\ F * D \in Nat /\ F * I \in Nat
  BY <1>1
<1>4. gain \in Nat /\ gain * Scale <= F * I
  BY <1>1, <1>3, Quotient
<1>5. interest \in Nat /\ one \in Nat /\ F * B <= (interest + one) * Scale
  <2> DEFINE a == F * B
  <2>1. a \in Nat
    BY <1>3
  <2> HIDE DEF a
  <2>2. a \div Scale \in Nat /\ a < (a \div Scale) * Scale + Scale
    BY <1>1, <2>1, Quotient
  <2>3. a % Scale = 0 => a = (a \div Scale) * Scale
    BY <1>1, <2>1
  <2>4. interest = a \div Scale /\ one = IF a % Scale = 0 THEN 0 ELSE 1
    BY DEF a
  <2> HIDE DEF interest, one
  <2>5. CASE a % Scale = 0
    BY <1>1, <2>1, <2>2, <2>3, <2>4, <2>5 DEF a
  <2>6. CASE a % Scale # 0
    <3>1. (interest + 1) * Scale = interest * Scale + Scale
      BY <1>1, <2>2, <2>4
    <3> QED BY <1>1, <2>1, <2>2, <2>4, <2>6, <3>1 DEF a
  <2> QED BY <2>5, <2>6
<1>6. lead \in Nat /\ F * D <= lead * Scale
  <2> DEFINE c == F * D + Scale - 1
  <2>1. c \in Nat
    BY <1>1, <1>3
  <2>2. lead = c \div Scale /\ F * D = c + 1 - Scale
    BY <1>1, <1>3
  <2> HIDE DEF c, lead
  <2>3. c \div Scale \in Nat /\ c < (c \div Scale) * Scale + Scale
    BY <1>1, <2>1, Quotient
  <2>4. lead * Scale \in Int
    BY <1>1, <2>2, <2>3
  <2> QED BY <1>1, <2>1, <2>2, <2>3, <2>4
<1> HIDE DEF interest, lead, one, gain
<1>7. Scale * (I + gain) = I * Scale + gain * Scale /\ I * (Scale + F) = I * Scale + F * I
  BY <1>1, <1>4
<1>8. /\ (B + D) * (Scale + F) = B * Scale + D * Scale + F * B + F * D
      /\ Scale * (B + interest + (D + lead + one))
           = B * Scale + D * Scale + (interest + one) * Scale + lead * Scale
  BY <1>1, <1>5, <1>6
<1>9. /\ I * Scale \in Int /\ gain * Scale \in Int /\ B * Scale \in Int /\ D * Scale \in Int
      /\ (interest + one) * Scale \in Int /\ lead * Scale \in Int
  BY <1>1, <1>4, <1>5, <1>6
<1>10. Scale * (I + gain) <= I * (Scale + F)
  BY <1>3, <1>4, <1>7, <1>9
<1>11. (B + D) * (Scale + F) <= Scale * (B + interest + (D + lead + one))
  BY <1>3, <1>5, <1>6, <1>8, <1>9
<1> QED BY <1>2, <1>10, <1>11 DEF F, B, D, I

\* So the shares stay within the book when the interest is settled.
LEMMA SettledShares ==
    ASSUME TypeOK, DebtsShared, NEW limit, CanAccrue(limit), NEW k \in Nat \ {0}
    PROVE  SumFunction(SharesAt(k, IndexNew)) <= (BorrowsNew + DriftNew) * k
<1> DEFINE t == Scale + SimpleInterestFactor
           f == SharesAt(k, IndexNew)
           g == SharesAt(k * t, borrowIndex)
<1>1. /\ t \in Nat \ {0} /\ IndexNew \in Nat /\ borrowIndex \in Nat /\ Scale \in Nat \ {0}
      /\ BorrowsNew \in Nat /\ DriftNew \in Nat /\ totalBorrows \in Nat /\ drift \in Nat
  BY InterestNat, SettledBook, ScaleAssumption DEF TypeOK, BookTypes
<1>2. Scale * IndexNew <= borrowIndex * t /\ (totalBorrows + drift) * t <= Scale * (BorrowsNew + DriftNew)
  BY BookGrows
<1> HIDE DEF t
<1>3. k * t \in Nat \ {0}
  BY <1>1
<1>4. /\ f \in [Users -> Int] /\ g \in [Users -> Int]
      /\ SumFunction(f) \in Nat /\ SumFunction(g) \in Nat
  BY <1>1, <1>3, ShareNat
<1>5. ASSUME NEW u \in Users PROVE Scale * f[u] <= g[u]
  <2> DEFINE p == accountBorrows[u].principal
             i == accountBorrows[u].interestIndex
  <2>1. p \in Nat /\ i \in Nat /\ (p # 0 => i > 0)
    BY DEF TypeOK, DebtTypes
  <2>2. /\ f[u] = IF p = 0 THEN 0 ELSE (p * IndexNew * k) \div i
        /\ g[u] = IF p = 0 THEN 0 ELSE (p * borrowIndex * (k * t)) \div i
    BY DEF SharesAt, ShareAt
  <2> HIDE DEF p, i, f, g
  <2>3. CASE p = 0
    BY <1>1, <2>2, <2>3
  <2>4. CASE p # 0
    <3>1. Scale * ((p * IndexNew * k) \div i) <= (p * borrowIndex * (k * t)) \div i
      BY <1>1, <1>2, <2>1, <2>4, ShareGrows
    <3> QED BY <2>2, <2>4, <3>1
  <2> QED BY <2>3, <2>4
<1>6. SumFunction(g) <= (totalBorrows + drift) * (k * t)
  BY <1>3 DEF DebtsShared
<1> HIDE DEF f, g
<1>7. Scale * SumFunction(f) <= SumFunction(g)
  BY <1>1, <1>4, <1>5, MarketAssumption, SumScaled
<1>8. (totalBorrows + drift) * (k * t) <= (Scale * (BorrowsNew + DriftNew)) * k
  <2>1. (totalBorrows + drift) * t \in Int /\ Scale * (BorrowsNew + DriftNew) \in Int
    BY <1>1
  <2>2. ((totalBorrows + drift) * t) * k <= (Scale * (BorrowsNew + DriftNew)) * k
    BY <1>2, <2>1
  <2>3. ((totalBorrows + drift) * t) * k = (totalBorrows + drift) * (k * t)
    BY <1>1
  <2> QED BY <2>2, <2>3
<1>9. (Scale * (BorrowsNew + DriftNew)) * k = Scale * ((BorrowsNew + DriftNew) * k)
  BY <1>1
<1> DEFINE bound == (BorrowsNew + DriftNew) * k
<1>10. bound \in Int /\ (totalBorrows + drift) * (k * t) \in Int
  BY <1>1, <1>3
<1>11. Scale * SumFunction(f) <= Scale * bound
  <2>1. Scale * SumFunction(f) \in Int /\ Scale * bound \in Int
    BY <1>1, <1>4, <1>10
  <2> QED BY <1>4, <1>6, <1>7, <1>8, <1>9, <1>10, <2>1
<1> HIDE DEF bound
<1>12. SumFunction(f) <= bound
  BY <1>1, <1>4, <1>10, <1>11
<1> QED BY <1>12 DEF f, bound

LEMMA SettleShared ==
    ASSUME TypeOK, DebtsShared, NEW limit, NEW reserves, Accrue(limit, BorrowsNew, reserves),
           UNCHANGED accountBorrows
    PROVE  DebtsShared'
<1>1. \A k : SharesAt(k, borrowIndex)' = SharesAt(k, IndexNew)
  BY DEF SharesAt, ShareAt, Accrue
<1> QED BY <1>1, SettledShares DEF DebtsShared, Accrue

\* A call that rewrites one account's debt at the new index drops its fraction.
LEMMA OwesShared ==
    ASSUME TypeOK, DebtsShared, NEW limit, NEW u \in Users, NEW d \in Int, NEW reserves,
           Accrue(limit, BorrowsNew + d, reserves),
           Balance(u) + d \in Nat, Owes(u, Balance(u) + d)
    PROVE  DebtsShared'
<1> DEFINE owed == Balance(u) + d
<1>1. /\ CanAccrue(limit) /\ IndexNew \in Nat \ {0} /\ Balance(u) \in Nat
      /\ BorrowsNew \in Nat /\ DriftNew \in Nat
      /\ totalBorrows' = BorrowsNew + d /\ drift' = DriftNew /\ borrowIndex' = IndexNew
  BY SettledBook, BalanceNat DEF Accrue, Balance
<1>2. SUFFICES ASSUME NEW k \in Nat \ {0}
               PROVE  SumFunction(SharesAt(k, borrowIndex)') <= (BorrowsNew + d + DriftNew) * k
  BY <1>1 DEF DebtsShared
<1> DEFINE f == SharesAt(k, IndexNew)
           g == SharesAt(k, borrowIndex)'
<1>3. f \in [Users -> Int] /\ SumFunction(f) <= (BorrowsNew + DriftNew) * k
  BY <1>1, ShareNat, SettledShares
<1>4. /\ \A v \in Users : v # u => accountBorrows'[v] = accountBorrows[v]
      /\ accountBorrows'[u] = [principal |-> owed, interestIndex |-> IndexNew]
  BY DEF Owes, TypeOK, DebtTypes
<1>5. \A v \in Users : v # u => g[v] = f[v]
  BY <1>1, <1>4 DEF SharesAt, ShareAt
<1>6. g[u] = owed * k
  <2>1. g[u] = IF owed = 0 THEN 0 ELSE (owed * IndexNew * k) \div IndexNew
    BY <1>1, <1>4 DEF SharesAt, ShareAt
  <2>2. owed \in Nat
    OBVIOUS
  <2> HIDE DEF owed
  <2>3. (owed * IndexNew * k) \div IndexNew = owed * k
    <3> DEFINE m == owed * k
    <3>1. owed * IndexNew * k = m * IndexNew /\ m \in Nat
      BY <1>1, <2>2
    <3> HIDE DEF m
    <3>2. m * IndexNew \in Int
      BY <1>1, <3>1
    <3>3. m <= (m * IndexNew) \div IndexNew
      BY <1>1, <3>1, <3>2, QuotientAtLeast
    <3> DEFINE q == (m * IndexNew) \div IndexNew
    <3>4. q \in Int /\ q * IndexNew <= m * IndexNew
      BY <1>1, <3>2, Quotient
    <3> HIDE DEF q
    <3>5. q <= m
      BY <1>1, <3>1, <3>4
    <3>6. q = m
      BY <3>1, <3>3, <3>4, <3>5 DEF q
    <3> QED BY <3>1, <3>6 DEF m, q
  <2>4. 0 * k = 0
    OBVIOUS
  <2> QED BY <2>1, <2>3, <2>4
<1>7. Balance(u) * k <= f[u]
  <2> DEFINE p == accountBorrows[u].principal
             i == accountBorrows[u].interestIndex
  <2>1. p \in Nat /\ i \in Nat /\ (p # 0 => i > 0)
    BY DEF TypeOK, DebtTypes
  <2>2. /\ Balance(u) = IF p = 0 THEN 0 ELSE (p * IndexNew) \div i
        /\ f[u] = IF p = 0 THEN 0 ELSE (p * IndexNew * k) \div i
    BY DEF SharesAt, ShareAt, Balance, BalanceAt
  <2> HIDE DEF p, i, f
  <2>3. CASE p = 0
    BY <2>2, <2>3
  <2>4. CASE p # 0
    <3> DEFINE a == p * IndexNew
    <3>1. a \in Nat
      BY <1>1, <2>1
    <3>2. Balance(u) = a \div i /\ f[u] = (a * k) \div i
      BY <2>2, <2>4
    <3> HIDE DEF a
    <3>3. Balance(u) * i <= a
      BY <2>1, <2>4, <3>1, <3>2, Quotient
    <3>4. (Balance(u) * k) * i <= a * k
      <4>1. Balance(u) * i \in Int
        BY <1>1, <2>1
      <4>2. (Balance(u) * i) * k <= a * k
        BY <3>1, <3>3, <4>1
      <4>3. (Balance(u) * k) * i = (Balance(u) * i) * k
        BY <1>1, <2>1
      <4> QED BY <4>2, <4>3
    <3>5. Balance(u) * k \in Int /\ a * k \in Int
      BY <1>1, <3>1
    <3> QED BY <2>1, <2>4, <3>2, <3>4, <3>5, QuotientAtLeast
  <2> QED BY <2>3, <2>4
<1>8. owed * k = Balance(u) * k + d * k
  BY <1>1
<1>9. f[u] \in Int /\ owed * k \in Int /\ d * k \in Int /\ Balance(u) * k \in Int
  BY <1>1, <1>3
<1>10. g \in [Users -> Int]
  <2>1. \A v \in Users : g[v] \in Int
    BY <1>3, <1>5, <1>6, <1>9
  <2> QED BY <2>1 DEF SharesAt
<1> HIDE DEF f, g, owed
<1>11. SumFunction(g) = SumFunction(f) + (g[u] - f[u]) /\ SumFunction(f) \in Int
  BY <1>3, <1>5, <1>10, MarketAssumption, SumOneChanged
<1>12. (BorrowsNew + d + DriftNew) * k = (BorrowsNew + DriftNew) * k + d * k
  BY <1>1
<1>13. (BorrowsNew + DriftNew) * k \in Int
  BY <1>1
<1> QED BY <1>3, <1>6, <1>7, <1>8, <1>9, <1>11, <1>12, <1>13 DEF g

LEMMA IdleShared ==
    ASSUME DebtsShared, UNCHANGED <<accountBorrows, totals>>
    PROVE  DebtsShared'
  BY DEF DebtsShared, SharesAt, ShareAt, totals

LEMMA AccountCallsShared ==
    ASSUME TypeOK, DebtsShared, AccountCalls
    PROVE  DebtsShared'
<1> PICK n \in Amounts :
        \/ \E receiver \in Holders, min \in MinAmounts : Mint(receiver, n, min)
        \/ \E u \in Users :
            \/ Redeem(u, n) \/ RedeemUnderlying(u, n)
            \/ Borrow(u, n)
            \/ Repay(u, n) \/ Repay(u, MaxUint)
            \/ \E dst \in Holders : Transfer(u, dst, n)
            \/ \E other \in Users : \/ Seize(other, u, n)
                                    \/ \E tokens \in Amounts : Liquidate(other, u, n, tokens)
  BY Zenon DEF AccountCalls
<1>1. n \in Nat /\ MaxUint \in Nat
  BY MarketAssumption
<1>2. ASSUME NEW receiver \in Holders, NEW min \in MinAmounts, Mint(receiver, n, min)
      PROVE  DebtsShared'
  BY <1>2, SettleShared DEF Mint, debts
<1>3. ASSUME NEW u \in Users, Redeem(u, n) \/ RedeemUnderlying(u, n) PROVE DebtsShared'
  BY <1>3, SettleShared DEF Redeem, RedeemUnderlying, PayOut, debts
<1>4. ASSUME NEW u \in Users, Borrow(u, n) PROVE DebtsShared'
  <2>1. CanAccrue(maxRate) /\ Balance(u) \in Nat
    BY <1>4, SettledBook, BalanceNat DEF Borrow, Accrue, Balance
  <2>2. n \in Int /\ Balance(u) + n \in Nat
    BY <1>1, <2>1
  <2> QED BY <1>4, <2>2, OwesShared DEF Borrow
<1>5. ASSUME NEW u \in Users, NEW amount \in Nat, NEW reserves,
             Accrue(maxRate, BorrowsNew - amount, reserves), Settle(u, amount)
      PROVE  DebtsShared'
  <2>1. CanAccrue(maxRate) /\ Balance(u) \in Nat /\ BorrowsNew \in Nat
    BY <1>5, SettledBook, BalanceNat DEF Accrue, Balance
  <2>2. /\ -amount \in Int /\ Balance(u) + (-amount) \in Nat
        /\ Balance(u) + (-amount) = Balance(u) - amount
        /\ BorrowsNew + (-amount) = BorrowsNew - amount
    BY <1>5, <2>1 DEF Settle
  <2>3. Accrue(maxRate, BorrowsNew + (-amount), reserves) /\ Owes(u, Balance(u) + (-amount))
    BY <1>5, <2>2 DEF Settle
  <2> QED BY <2>2, <2>3, OwesShared
<1>6. ASSUME NEW u \in Users, NEW amount \in Nat, Repay(u, amount) PROVE DebtsShared'
  <2>1. IndexNew \in Nat
    BY <1>6, SettledBook DEF Repay, Accrue
  <2>2. RepayAmount(u, amount) \in Nat
    BY <2>1, BalanceNat DEF RepayAmount, Balance
  <2> QED BY <1>5, <1>6, <2>2 DEF Repay
<1>7. ASSUME NEW u \in Users, NEW dst \in Holders, Transfer(u, dst, n) PROVE DebtsShared'
  BY <1>7, IdleShared DEF Transfer, debts
<1>8. ASSUME NEW u \in Users, NEW other \in Users, Seize(other, u, n) PROVE DebtsShared'
  BY <1>8, SettleShared DEF Seize, debts
<1>9. ASSUME NEW u \in Users, NEW other \in Users, NEW tokens \in Amounts,
             Liquidate(other, u, n, tokens)
      PROVE  DebtsShared'
  BY <1>1, <1>5, <1>9 DEF Liquidate
<1> QED BY Zenon, <1>1, <1>2, <1>3, <1>4, <1>6, <1>7, <1>8, <1>9

LEMMA StepShared == TypeOK /\ DebtsShared /\ [Next]_vars => DebtsShared'
<1> SUFFICES ASSUME TypeOK, DebtsShared, [Next]_vars PROVE DebtsShared'
  OBVIOUS
<1>1. CASE AccountCalls
  BY <1>1, AccountCallsShared
<1>2. CASE ~AccountCalls
  <2>1. UNCHANGED accountBorrows
    BY <1>2 DEF Next, vars, AdminCalls, AccrueInterest, SetReserveFactor, SetInterestRateModel,
           UpdateJumpRateModel, SetBorrowRateMaxMantissa, AddReserves, ReduceReserves, Block, debts
  <2>2. \/ \E limit, reserves : Accrue(limit, BorrowsNew, reserves)
        \/ UNCHANGED totals
    BY <1>2 DEF Next, vars, AdminCalls, AccrueInterest, SetReserveFactor, SetInterestRateModel,
           UpdateJumpRateModel, SetBorrowRateMaxMantissa, AddReserves, ReduceReserves, Block
  <2> QED BY <2>1, <2>2, SettleShared, IdleShared
<1> QED BY <1>1, <1>2

\* What the accounts owe together never runs ahead of totalBorrows by more than
\* the truncations of the accruals so far, for any number of accounts, any amounts
\* and any rates (mToken.sol:270).
THEOREM DebtsStayNearBook == Spec => []DebtsNearBook
<1>1. Init => DebtsShared
  <2> SUFFICES ASSUME Init, NEW k \in Nat \ {0}
               PROVE  SumFunction(SharesAt(k, borrowIndex)) <= (totalBorrows + drift) * k
    BY DEF DebtsShared
  <2>1. /\ DOMAIN SharesAt(k, borrowIndex) = Users
        /\ \A u \in Users : SharesAt(k, borrowIndex)[u] = 0
    BY DEF Init, SharesAt, ShareAt
  <2>2. SumFunction(SharesAt(k, borrowIndex)) = 0
    BY <2>1, MarketAssumption, SumZero DEF SumFunction
  <2>3. totalBorrows = 0 /\ drift = 0
    BY DEF Init
  <2> QED BY <2>2, <2>3
<1>2. TypeOK /\ DebtsShared => DebtsNearBook
  <2> SUFFICES ASSUME TypeOK, DebtsShared PROVE DebtsNearBook
    OBVIOUS
  <2>1. SharesAt(1, borrowIndex) = [u \in Users |-> BalanceAt(u, borrowIndex)]
    <3>1. ASSUME NEW u \in Users PROVE ShareAt(1, u, borrowIndex) = BalanceAt(u, borrowIndex)
      <4>1. accountBorrows[u].principal \in Nat /\ borrowIndex \in Nat
        BY DEF TypeOK, DebtTypes, BookTypes
      <4>2. accountBorrows[u].principal * borrowIndex * 1 = accountBorrows[u].principal * borrowIndex
        BY <4>1
      <4> QED BY <4>2 DEF ShareAt, BalanceAt
    <3> QED BY <3>1 DEF SharesAt
  <2>2. SumFunction(SharesAt(1, borrowIndex)) <= (totalBorrows + drift) * 1
    BY DEF DebtsShared
  <2>3. (totalBorrows + drift) * 1 = totalBorrows + drift
    BY DEF TypeOK, BookTypes
  <2> QED BY <2>1, <2>2, <2>3 DEF DebtsNearBook
<1>3. TypeOK /\ DebtsShared /\ [Next]_vars => DebtsShared'
  BY StepShared
<1> QED BY <1>1, <1>2, <1>3, MarketTypes, PTL DEF Spec

------------------------------------------------------------------------------
(* The distributor leaves the market alone: what holds of its calls holds   *)
(* with rewards, too.                                                       *)
Counted == TypeOK /\ rewardCalls \in Nat

LEMMA HooksCount ==
    ASSUME Counted, RewardedCalls PROVE AccountCalls /\ UNCHANGED rewardCalls
<1>1. AccountCalls
  BY Zenon DEF RewardedCalls, MintFor, AccountCalls
<1>2. ASSUME NEW touched, Hook(touched) PROVE UNCHANGED rewardCalls
  BY <1>2 DEF Hook
<1>3. ASSUME NEW u, NEW v, MintHook(u, v) PROVE UNCHANGED rewardCalls
  BY <1>3 DEF MintHook
<1>4. UNCHANGED rewardCalls
  BY Zenon, <1>2, <1>3 DEF RewardedCalls, MintFor, TransferHook, LiquidationHook
<1> QED BY <1>1, <1>4

LEMMA RewardsStep == Counted /\ [RewardsNext]_rewardVars => [Next]_vars /\ Counted'
<1> SUFFICES ASSUME Counted, [RewardsNext]_rewardVars PROVE [Next]_vars /\ Counted'
  OBVIOUS
<1>1. [Next]_vars /\ rewardCalls' \in Nat
  <2>1. CASE UNCHANGED rewardVars
    BY <2>1 DEF rewardVars, Counted
  <2>2. CASE calls + rewardCalls < MaxCalls /\ calls' = calls + 1
                /\ (RewardedCalls \/ (AdminCalls /\ UnchangedRewards))
    <3>1. calls < MaxCalls
      BY <2>2, MarketAssumption DEF Counted, TypeOK
    <3>2. (AccountCalls \/ AdminCalls) /\ rewardCalls' = rewardCalls
      BY <2>2, HooksCount DEF UnchangedRewards
    <3> QED BY <2>2, <3>1, <3>2 DEF Next, Counted
  <2>3. CASE (AccrueInterest \/ Block) /\ UNCHANGED rewardCalls
    BY <2>3 DEF Next, Counted
  <2>4. CASE rewardCalls' = rewardCalls + 1 /\ UNCHANGED vars
    BY <2>4 DEF Counted
  <2> QED BY <2>1, <2>2, <2>3, <2>4 DEF RewardsNext, UnchangedRewards
<1> QED BY <1>1, StepTypes DEF Counted

LEMMA RewardsCount == RewardsSpec => []Counted
<1>1. RewardsInit => Counted
  <2> SUFFICES ASSUME RewardsInit PROVE Counted
    OBVIOUS
  <2>1. TypeOK
    BY MarketAssumption, ScaleAssumption
       DEF RewardsInit, Init, TypeOK, SupplyTypes, DebtTypes, BookTypes, SettingTypes
  <2> QED BY <2>1 DEF RewardsInit, Counted
<1> QED BY <1>1, RewardsStep, PTL DEF RewardsSpec

------------------------------------------------------------------------------
(* Notifications.                                                           *)

\* A notification makes no index smaller, and starts none.
LEMMA NotifiedTypes ==
    ASSUME TypeOK, RewardsTypeOK, NEW s \in Sides, NEW shares \in Nat
    PROVE  /\ Notified(s, shares) \in [speed : Nat, index : Nat, block : Nat]
           /\ Notified(s, shares).index >= rewardState[s].index
           /\ Notified(s, shares).speed = rewardState[s].speed
           /\ Notified(s, shares).block = now
           /\ rewardState[s].speed = 0 => Notified(s, shares).index = rewardState[s].index
<1> DEFINE state == rewardState[s]
           given == Emission(s) * DoubleScale
<1>1. state \in [speed : Nat, index : Nat, block : Nat] /\ state.block <= now /\ now \in Nat
  BY DEF RewardsTypeOK, TypeOK
<1>2. given \in Nat /\ (state.speed = 0 => given = 0)
  <2>1. now - state.block \in Nat
    BY <1>1
  <2>2. Emission(s) \in Nat /\ (state.speed = 0 => Emission(s) = 0)
    <3> HIDE DEF state
    <3>1. \A n \in Nat, k \in Nat : n * k \in Nat /\ (k = 0 => n * k = 0)
      OBVIOUS
    <3> QED BY <1>1, <2>1, <3>1 DEF Emission, state
  <2> QED BY <2>2, RewardsAssumption
<1>3. Ratio(s, shares) \in Nat /\ (state.speed = 0 => Ratio(s, shares) = 0)
  <2>1. CASE shares = 0
    BY <2>1 DEF Ratio
  <2>2. CASE shares # 0
    <3>1. Ratio(s, shares) = given \div shares
      BY <2>2 DEF Ratio
    <3> HIDE DEF given
    <3>2. given \div shares \in Nat /\ (given = 0 => given \div shares = 0)
      BY <1>2, <2>2, Quotient
    <3> QED BY <1>2, <3>1, <3>2
  <2> QED BY <2>1, <2>2
<1>4. Notified(s, shares) = [speed |-> state.speed, index |-> state.index + Ratio(s, shares),
                             block |-> now]
  BY DEF Notified
<1> HIDE DEF state
<1> QED BY <1>1, <1>3, <1>4 DEF state

\* Once notified in a block, an index stays, whatever the shares are then.
LEMMA NotifiedOnce ==
    ASSUME TypeOK, RewardsTypeOK, NEW s \in Sides, NEW shares \in Nat, rewardState[s].block = now
    PROVE  Notified(s, shares).index = rewardState[s].index
<1> DEFINE state == rewardState[s]
<1>1. state \in [speed : Nat, index : Nat, block : Nat] /\ now \in Nat
  BY DEF RewardsTypeOK, TypeOK
<1>2. Emission(s) * DoubleScale = 0
  BY <1>1, RewardsAssumption DEF Emission
<1>3. Ratio(s, shares) = 0
  BY <1>2, Quotient DEF Ratio
<1> QED BY <1>1, <1>3 DEF Notified

\* What an account earns is never negative, more with more shares, and nothing
\* since it was notified itself.
LEMMA EarningsNat ==
    ASSUME RewardsTypeOK, NEW s \in Sides, NEW h \in Holders, NEW index \in Nat,
           accountIndex[s][h] <= index
    PROVE  /\ \A shares \in Nat : Earnings(s, h, shares, index) \in Nat
           /\ \A few \in Nat, many \in Nat :
                few <= many => Earnings(s, h, few, index) <= Earnings(s, h, many, index)
           /\ accountIndex[s][h] = index => \A shares \in Nat : Earnings(s, h, shares, index) = 0
<1> DEFINE d == DeltaIndex(s, h, index)
<1>1. d \in Nat /\ (accountIndex[s][h] = index => d = 0)
  <2>1. accountIndex[s][h] \in Nat
    BY DEF RewardsTypeOK
  <2> QED BY <2>1, RewardsAssumption DEF DeltaIndex, REWARD_INITIAL_INDEX
<1>2. \A shares : Earnings(s, h, shares, index) = (shares * d) \div DoubleScale
  BY DEF Earnings
<1> HIDE DEF d
<1>3. \A shares \in Nat : shares * d \in Nat /\ (d = 0 => shares * d = 0)
  BY <1>1
<1>4. \A few \in Nat, many \in Nat : few <= many => few * d <= many * d
  BY <1>1
<1>5. \A shares \in Nat : (shares * d) \div DoubleScale \in Nat
  BY <1>3, Quotient, RewardsAssumption
<1>6. \A few \in Nat, many \in Nat :
          few <= many => (few * d) \div DoubleScale <= (many * d) \div DoubleScale
  <2> TAKE few \in Nat, many \in Nat
  <2> HAVE few <= many
  <2>1. few * d \in Int /\ many * d \in Int /\ few * d <= many * d
    BY <1>3, <1>4
  <2> QED BY <2>1, QuotientMonotone, RewardsAssumption
<1>7. 0 \div DoubleScale = 0
  BY RewardsAssumption
<1> QED BY <1>1, <1>2, <1>3, <1>5, <1>6, <1>7

------------------------------------------------------------------------------
(* Distribute.                                                              *)
RewardStates == [speed : Nat, index : Nat, block : Nat]

Notifies(touched, s) == \E h \in Holders : <<s, h>> \in touched

\* The borrows that a notification divides by an index make sense.
Computable(touched, borrows, index) ==
    Notifies(touched, "borrow") => borrows \in Nat /\ index \in Nat \ {0}

LEMMA SharesNat ==
    ASSUME TypeOK, NEW s \in Sides, NEW borrows, NEW index,
           s = "borrow" => borrows \in Nat /\ index \in Nat \ {0}
    PROVE  /\ Shares(s, borrows, index) \in Nat
           /\ \A h \in Holders : SharesOf(s, h, index) \in Nat
<1>1. CASE s = "supply"
  BY <1>1 DEF Shares, SharesOf, TypeOK, SupplyTypes
<1>2. CASE s = "borrow"
  <2>1. ASSUME NEW n \in Nat PROVE (n * Scale) \div index \in Nat
    <3>1. n * Scale \in Nat
      BY <2>1, ScaleAssumption
    <3> QED BY <1>2, <3>1, Quotient
  <2>2. \A h \in Users : BalanceAt(h, index) \in Nat
    BY <1>2, BalanceNat
  <2> QED BY <1>2, <2>1, <2>2 DEF Shares, SharesOf
<1> QED BY <1>1, <1>2 DEF Sides

\* An index only grows, no account runs ahead of it and none loses a credit.
LEMMA DistributeSide ==
    ASSUME TypeOK, RewardsTypeOK, NEW touched, NEW borrows, NEW index,
           Computable(touched, borrows, index), Distribute(touched, borrows, index),
           NEW s \in Sides
    PROVE  /\ rewardState'[s] \in RewardStates
           /\ rewardState'[s].index >= rewardState[s].index
           /\ rewardState'[s].block <= now
           /\ \/ rewardState'[s].index >= REWARD_INITIAL_INDEX
              \/ rewardState'[s].index + rewardState'[s].speed = 0
           /\ Notifies(touched, s) =>
                  rewardState'[s] = Notified(s, Shares(s, borrows, index))
           /\ ~ Notifies(touched, s) => rewardState'[s] = rewardState[s]
<1>1. rewardState'[s] = IF Notifies(touched, s) THEN Notified(s, Shares(s, borrows, index))
                        ELSE rewardState[s]
  BY DEF Distribute, Notifies
<1>2. rewardState[s] \in RewardStates /\ rewardState[s].block <= now /\ now \in Nat
      /\ \/ rewardState[s].index >= REWARD_INITIAL_INDEX
         \/ rewardState[s].index + rewardState[s].speed = 0
  BY DEF RewardsTypeOK, RewardStates, TypeOK
<1>3. CASE ~ Notifies(touched, s)
  BY <1>1, <1>2, <1>3 DEF RewardStates
<1>4. CASE Notifies(touched, s)
  <2> DEFINE new == Notified(s, Shares(s, borrows, index))
  <2>1. Shares(s, borrows, index) \in Nat
    BY <1>4, SharesNat DEF Computable
  <2>2. /\ new \in RewardStates /\ new.index >= rewardState[s].index
        /\ new.speed = rewardState[s].speed /\ new.block = now
        /\ rewardState[s].speed = 0 => new.index = rewardState[s].index
    BY <2>1, NotifiedTypes DEF RewardStates
  <2> HIDE DEF new
  <2>3. new.index >= REWARD_INITIAL_INDEX \/ new.index + new.speed = 0
    BY <1>2, <2>2, RewardsAssumption DEF RewardStates, REWARD_INITIAL_INDEX
  <2>4. rewardState'[s] = new
    BY <1>1, <1>4 DEF new
  <2> QED BY <1>2, <1>4, <2>2, <2>3, <2>4 DEF new
<1> QED BY <1>3, <1>4

LEMMA DistributeAccount ==
    ASSUME TypeOK, RewardsTypeOK, NEW touched, NEW borrows, NEW index,
           Computable(touched, borrows, index), Distribute(touched, borrows, index),
           NEW s \in Sides, NEW h \in Holders
    PROVE  /\ accountIndex'[s][h] \in Nat /\ accountIndex'[s][h] <= rewardState'[s].index
           /\ earned'[s][h] \in Nat /\ earned'[s][h] >= earned[s][h]
           /\ <<s, h>> \in touched =>
                /\ accountIndex'[s][h] = rewardState'[s].index
                /\ earned'[s][h] = earned[s][h]
                        + Earnings(s, h, SharesOf(s, h, index), rewardState'[s].index)
           /\ <<s, h>> \notin touched =>
                accountIndex'[s][h] = accountIndex[s][h] /\ earned'[s][h] = earned[s][h]
<1>1. /\ accountIndex'[s][h] = IF <<s, h>> \in touched THEN rewardState'[s].index
                               ELSE accountIndex[s][h]
      /\ earned'[s][h] = IF <<s, h>> \in touched
                         THEN earned[s][h]
                                + Earnings(s, h, SharesOf(s, h, index), rewardState'[s].index)
                         ELSE earned[s][h]
  BY DEF Distribute
<1>2. /\ rewardState'[s].index \in Nat /\ accountIndex[s][h] \in Nat /\ earned[s][h] \in Nat
      /\ accountIndex[s][h] <= rewardState'[s].index
  <2>1. /\ rewardState[s].index \in Nat /\ accountIndex[s][h] \in Nat /\ earned[s][h] \in Nat
        /\ accountIndex[s][h] <= rewardState[s].index
    BY DEF RewardsTypeOK
  <2>2. rewardState'[s].index \in Nat /\ rewardState'[s].index >= rewardState[s].index
    BY DistributeSide DEF RewardStates
  <2> QED BY <2>1, <2>2
<1>3. CASE <<s, h>> \in touched
  <2>1. SharesOf(s, h, index) \in Nat
    BY <1>3, SharesNat DEF Computable, Notifies
  <2>2. Earnings(s, h, SharesOf(s, h, index), rewardState'[s].index) \in Nat
    BY <1>2, <2>1, EarningsNat
  <2> QED BY <1>1, <1>2, <1>3, <2>2
<1>4. CASE <<s, h>> \notin touched
  BY <1>1, <1>2, <1>4
<1> QED BY <1>3, <1>4

------------------------------------------------------------------------------
(* Types, and that nothing earned is lost.                                  *)
RewardsKept == RewardsTypeOK /\ EarnedIsKept

LEMMA DistributeTypes ==
    ASSUME TypeOK, RewardsTypeOK, NEW touched, NEW borrows, NEW index,
           Computable(touched, borrows, index), Distribute(touched, borrows, index), now' = now,
           rewardAccrued' \in [Holders -> Nat], funds' \in Nat, paid' \in [Holders -> Nat]
    PROVE  RewardsTypeOK'
<1>1. rewardState' \in [Sides -> RewardStates]
  BY DistributeSide, Zenon DEF Distribute
<1>2. accountIndex' \in [Sides -> [Holders -> Nat]]
  <2>1. \A s \in Sides, h \in Holders : accountIndex'[s][h] \in Nat
    BY DistributeAccount
  <2>2. accountIndex' = [s \in Sides |-> [h \in Holders |-> accountIndex'[s][h]]]
    BY DEF Distribute
  <2> QED BY <2>1, <2>2
<1>3. earned' \in [Sides -> [Holders -> Nat]]
  <2>1. \A s \in Sides, h \in Holders : earned'[s][h] \in Nat
    BY DistributeAccount
  <2>2. earned' = [s \in Sides |-> [h \in Holders |-> earned'[s][h]]]
    BY DEF Distribute
  <2> QED BY <2>1, <2>2
<1>4. ASSUME NEW s \in Sides
      PROVE  /\ rewardState'[s].block <= now'
             /\ \/ rewardState'[s].index >= REWARD_INITIAL_INDEX
                \/ rewardState'[s].index + rewardState'[s].speed = 0
             /\ \A h \in Holders : accountIndex'[s][h] <= rewardState'[s].index
  BY DistributeSide, DistributeAccount
<1> QED BY <1>1, <1>2, <1>3, <1>4 DEF RewardsTypeOK, RewardStates, REWARD_INITIAL_INDEX

\* What an account is credited with is what it earned, on both sides.
LEMMA CreditedNat ==
    ASSUME TypeOK, RewardsKept, NEW touched, NEW borrows, NEW index,
           Computable(touched, borrows, index), Distribute(touched, borrows, index),
           NEW h \in Holders
    PROVE  /\ Credited(h) \in Nat
           /\ earned'["supply"][h] + earned'["borrow"][h] = Credited(h) + paid[h]
<1>1. /\ rewardAccrued[h] \in Nat /\ paid[h] \in Nat
      /\ earned["supply"][h] \in Nat /\ earned["borrow"][h] \in Nat
      /\ earned["supply"][h] + earned["borrow"][h] = rewardAccrued[h] + paid[h]
  BY DEF RewardsKept, RewardsTypeOK, EarnedIsKept, Sides
<1>2. \A s \in Sides : earned'[s][h] \in Nat /\ earned'[s][h] >= earned[s][h]
  BY DistributeAccount DEF RewardsKept
<1> QED BY <1>1, <1>2 DEF Credited, Sides

\* What the hooks of a call do.
Hooked(touched) ==
    /\ Computable(touched, BorrowsNew, IndexNew)
    /\ Distribute(touched, BorrowsNew, IndexNew)
    /\ rewardAccrued' = [h \in Holders |-> Credited(h)]
    /\ UNCHANGED payments

LEMMA HookedKeeps ==
    ASSUME TypeOK, RewardsKept, NEW touched, Hooked(touched), now' = now
    PROVE  RewardsKept'
<1>1. \A h \in Holders : /\ Credited(h) \in Nat
                        /\ earned'["supply"][h] + earned'["borrow"][h] = Credited(h) + paid[h]
  BY CreditedNat DEF Hooked
<1>2. rewardAccrued' \in [Holders -> Nat] /\ funds' = funds /\ paid' = paid
  BY <1>1 DEF Hooked, payments
<1>3. RewardsTypeOK'
  <2>1. funds' \in Nat /\ paid' \in [Holders -> Nat]
    BY <1>2 DEF RewardsKept, RewardsTypeOK
  <2> QED BY <1>2, <2>1, DistributeTypes DEF Hooked, RewardsKept
<1>4. EarnedIsKept'
  BY <1>1, <1>2 DEF Hooked, EarnedIsKept
<1> QED BY <1>3, <1>4 DEF RewardsKept

\* A call that settles the interest may notify any side; a transfer, which does
\* not, notifies suppliers.
LEMMA SettledIsComputable ==
    ASSUME TypeOK, NEW limit, CanAccrue(limit), NEW touched
    PROVE  Computable(touched, BorrowsNew, IndexNew)
  BY SettledBook DEF Computable

LEMMA SupplyIsComputable ==
    ASSUME NEW holders, NEW borrows, NEW index
    PROVE  Computable({"supply"} \X holders, borrows, index)
<1>1. ASSUME NEW h PROVE <<"borrow", h>> \notin {"supply"} \X holders
  OBVIOUS
<1> QED BY <1>1 DEF Computable, Notifies

LEMMA CallsHook ==
    ASSUME TypeOK, RewardedCalls
    PROVE  now' = now /\ \E touched : Hooked(touched)
<1> DEFINE Goal == now' = now /\ \E touched : Hooked(touched)
<1>1. ASSUME CanAccrue(maxRate), NEW touched, Hook(touched), now' = now PROVE Goal
  BY <1>1, SettledIsComputable DEF Hook, Hooked
<1>2. ASSUME NEW u \in Users, NEW receiver \in Holders, MintFor(u, receiver) PROVE Goal
  <2>1. CanAccrue(maxRate) /\ now' = now /\ MintHook(u, receiver)
    BY <1>2 DEF MintFor, Mint, Accrue
  <2> QED BY <2>1, SettledIsComputable DEF MintHook, Hooked
<1>3. ASSUME NEW u \in Users, NEW n \in Amounts,
             Redeem(u, n) \/ RedeemUnderlying(u, n), Hook({<<"supply", u>>})
      PROVE  Goal
  <2>1. CanAccrue(maxRate) /\ now' = now
    BY <1>3 DEF Redeem, RedeemUnderlying, PayOut
  <2> QED BY <1>1, <1>3, <2>1
<1>4. ASSUME NEW u \in Users, NEW n \in Amounts,
             Borrow(u, n) \/ Repay(u, n) \/ Repay(u, MaxUint), Hook({<<"borrow", u>>})
      PROVE  Goal
  <2>1. CanAccrue(maxRate) /\ now' = now
    BY <1>4 DEF Borrow, Repay, Accrue
  <2> QED BY <1>1, <1>4, <2>1
<1>5. ASSUME NEW u \in Users, NEW n \in Amounts, NEW dst \in Holders,
             Transfer(u, dst, n), TransferHook(u, dst)
      PROVE  Goal
  BY <1>5, SupplyIsComputable DEF Transfer, TransferHook, Hook, Hooked
<1>6. ASSUME NEW u \in Users, NEW n \in Amounts, NEW other \in Users,
             Seize(other, u, n), Hook({"supply"} \X {u, other})
      PROVE  Goal
  <2>1. CanAccrue(maxRate) /\ now' = now
    BY <1>6 DEF Seize, Accrue
  <2> QED BY <1>1, <1>6, <2>1
<1>7. ASSUME NEW u \in Users, NEW n \in Amounts, NEW other \in Users, NEW tokens \in Amounts,
             Liquidate(other, u, n, tokens), LiquidationHook(other, u)
      PROVE  Goal
  <2>1. CanAccrue(maxRate) /\ now' = now
    BY <1>7 DEF Liquidate, Accrue
  <2> QED BY <1>1, <1>7, <2>1 DEF LiquidationHook
<1> HIDE DEF Goal
<1>8. Goal
  BY Zenon, <1>2, <1>3, <1>4, <1>5, <1>6, <1>7 DEF RewardedCalls
<1> QED BY <1>8 DEF Goal

LEMMA StoredIsComputable ==
    ASSUME TypeOK, NEW touched PROVE Computable(touched, totalBorrows, borrowIndex)
  BY DEF TypeOK, BookTypes, Computable

LEMMA ClaimKeeps ==
    ASSUME TypeOK, RewardsKept, NEW h \in Holders, NEW sides \in SUBSET Sides, Claim(h, sides),
           now' = now
    PROVE  RewardsKept'
<1>1. /\ Computable(sides \X {h}, totalBorrows, borrowIndex)
      /\ Distribute(sides \X {h}, totalBorrows, borrowIndex)
  BY StoredIsComputable DEF Claim
<1>2. \A k \in Holders : /\ Credited(k) \in Nat
                        /\ earned'["supply"][k] + earned'["borrow"][k] = Credited(k) + paid[k]
  BY <1>1, CreditedNat
<1>3. /\ Left(Credited(h)) \in Nat /\ Granted(Credited(h)) \in Nat
      /\ Left(Credited(h)) + Granted(Credited(h)) = Credited(h)
      /\ funds - Granted(Credited(h)) \in Nat
  BY <1>2 DEF Left, Granted, RewardsKept, RewardsTypeOK
<1>4. /\ rewardAccrued \in [Holders -> Nat] /\ paid \in [Holders -> Nat]
      /\ rewardAccrued' = [rewardAccrued EXCEPT ![h] = Left(Credited(h))]
      /\ paid' = [paid EXCEPT ![h] = paid[h] + Granted(Credited(h))]
      /\ funds' = funds - Granted(Credited(h))
  BY DEF Claim, RewardsKept, RewardsTypeOK
<1>5. RewardsTypeOK'
  <2>1. rewardAccrued' \in [Holders -> Nat] /\ paid' \in [Holders -> Nat] /\ funds' \in Nat
    BY <1>3, <1>4
  <2> QED BY <1>1, <2>1, DistributeTypes DEF RewardsKept
<1>6. EarnedIsKept'
  <2> SUFFICES ASSUME NEW k \in Holders
               PROVE  earned'["supply"][k] + earned'["borrow"][k] = rewardAccrued'[k] + paid'[k]
    BY DEF EarnedIsKept
  <2>1. CASE k = h
    BY <1>2, <1>3, <1>4, <2>1
  <2>2. CASE k # h
    <3>1. <<"supply", k>> \notin sides \X {h} /\ <<"borrow", k>> \notin sides \X {h}
      BY <2>2
    <3>2. earned'["supply"][k] = earned["supply"][k] /\ earned'["borrow"][k] = earned["borrow"][k]
      BY <1>1, <3>1, DistributeAccount DEF RewardsKept, Sides
    <3>3. rewardAccrued'[k] = rewardAccrued[k] /\ paid'[k] = paid[k]
      BY <1>4, <2>2
    <3> QED BY <3>2, <3>3 DEF RewardsKept, EarnedIsKept
  <2> QED BY <2>1, <2>2
<1> QED BY <1>5, <1>6 DEF RewardsKept

\* The owner's calls, and reward tokens that come in.
LEMMA SpedUpTypes ==
    ASSUME TypeOK, RewardsTypeOK, NEW s \in Sides, NEW speed \in Nat
    PROVE  /\ SpedUp(s, speed) \in RewardStates
           /\ SpedUp(s, speed).index >= rewardState[s].index
           /\ SpedUp(s, speed).index >= REWARD_INITIAL_INDEX
           /\ SpedUp(s, speed).block = now
<1> DEFINE n == Notified(s, Shares(s, totalBorrows, borrowIndex))
<1>1. n \in RewardStates /\ n.index >= rewardState[s].index
  <2>1. Shares(s, totalBorrows, borrowIndex) \in Nat
    BY SharesNat DEF TypeOK, BookTypes
  <2> QED BY <2>1, NotifiedTypes DEF RewardStates
<1>2. SpedUp(s, speed) = [speed |-> speed, block |-> now,
          index |-> IF rewardState[s].index = 0 THEN REWARD_INITIAL_INDEX ELSE n.index]
  BY DEF SpedUp
<1>3. /\ rewardState[s].index \in Nat /\ now \in Nat
      /\ rewardState[s].index = 0 \/ rewardState[s].index >= REWARD_INITIAL_INDEX
  BY DEF RewardsTypeOK, TypeOK
<1> HIDE DEF n
<1> QED BY <1>1, <1>2, <1>3, RewardsAssumption DEF RewardStates, REWARD_INITIAL_INDEX

LEMMA UpdateRewardSpeedsKeeps ==
    ASSUME TypeOK, RewardsKept, NEW speed \in Speeds, UpdateRewardSpeeds(speed), now' = now
    PROVE  RewardsKept'
<1>1. \A s \in Sides : speed[s] \in Nat
  BY RewardsAssumption
<1>2. /\ rewardState' = [s \in Sides |-> IF rewardState[s].speed # speed[s]
                                        THEN SpedUp(s, speed[s]) ELSE rewardState[s]]
      /\ UNCHANGED <<accountIndex, rewardAccrued, funds, paid, earned>>
  BY DEF UpdateRewardSpeeds, payments
<1>3. ASSUME NEW s \in Sides
      PROVE  /\ rewardState'[s] \in RewardStates /\ rewardState'[s].block <= now
             /\ \/ rewardState'[s].index >= REWARD_INITIAL_INDEX
                \/ rewardState'[s].index + rewardState'[s].speed = 0
             /\ \A h \in Holders : accountIndex[s][h] <= rewardState'[s].index
  <2>1. /\ rewardState[s] \in RewardStates /\ rewardState[s].block <= now /\ now \in Nat
        /\ \/ rewardState[s].index >= REWARD_INITIAL_INDEX
           \/ rewardState[s].index + rewardState[s].speed = 0
        /\ \A h \in Holders : accountIndex[s][h] \in Nat /\ accountIndex[s][h] <= rewardState[s].index
    BY DEF RewardsKept, RewardsTypeOK, RewardStates, TypeOK
  <2>2. CASE rewardState[s].speed = speed[s]
    BY <1>2, <2>1, <2>2
  <2>3. CASE rewardState[s].speed # speed[s]
    <3>1. rewardState'[s] = SpedUp(s, speed[s])
      BY <1>2, <2>3
    <3>2. /\ SpedUp(s, speed[s]) \in RewardStates
          /\ SpedUp(s, speed[s]).index >= rewardState[s].index
          /\ SpedUp(s, speed[s]).index >= REWARD_INITIAL_INDEX
          /\ SpedUp(s, speed[s]).block = now
      BY <1>1, SpedUpTypes DEF RewardsKept
    <3> QED BY <2>1, <3>1, <3>2 DEF RewardStates
  <2> QED BY <2>2, <2>3
<1>4. rewardState' \in [Sides -> RewardStates]
  BY <1>2, <1>3, Zenon
<1>5. RewardsTypeOK'
  BY <1>2, <1>3, <1>4 DEF RewardsKept, RewardsTypeOK, RewardStates, REWARD_INITIAL_INDEX
<1> QED BY <1>2, <1>5 DEF RewardsKept, EarnedIsKept

LEMMA FundsKeep ==
    ASSUME TypeOK, RewardsKept, NEW amount \in Funds, GrantReward(amount) \/ Fund(amount), now' = now
    PROVE  RewardsKept'
<1>1. funds' \in Nat
  <2>1. funds \in Nat /\ amount \in Nat
    BY RewardsAssumption DEF RewardsKept, RewardsTypeOK
  <2> QED BY <2>1 DEF GrantReward, Fund, Granted
<1>2. UNCHANGED <<rewards, paid, earned>>
  BY DEF GrantReward, Fund
<1> QED BY <1>1, <1>2 DEF rewards, RewardsKept, RewardsTypeOK, EarnedIsKept, REWARD_INITIAL_INDEX

LEMMA UnchangedKeeps ==
    ASSUME TypeOK, RewardsKept, UNCHANGED <<rewards, payments, earned>>, now' \in Nat, now <= now'
    PROVE  RewardsKept'
<1>1. \A s \in Sides : rewardState'[s].block <= now'
  <2>1. \A s \in Sides : rewardState[s].block \in Nat /\ rewardState[s].block <= now
    BY DEF RewardsKept, RewardsTypeOK
  <2> QED BY <2>1 DEF TypeOK, rewards
<1> QED BY <1>1 DEF rewards, payments, RewardsKept, RewardsTypeOK, EarnedIsKept, REWARD_INITIAL_INDEX

LEMMA RewardsKeptStep == TypeOK /\ RewardsKept /\ [RewardsNext]_rewardVars => RewardsKept'
<1> SUFFICES ASSUME TypeOK, RewardsKept, [RewardsNext]_rewardVars PROVE RewardsKept'
  OBVIOUS
<1>1. CASE RewardedCalls
  BY <1>1, CallsHook, HookedKeeps
<1>2. CASE UNCHANGED <<rewards, payments, earned, now>>
  BY <1>2, UnchangedKeeps DEF TypeOK
<1>3. CASE Block /\ UNCHANGED <<rewards, payments, earned>>
  BY <1>3, UnchangedKeeps DEF TypeOK, Block
<1>4. CASE DistributorCalls /\ UNCHANGED vars
  BY <1>4, ClaimKeeps, UpdateRewardSpeedsKeeps, FundsKeep DEF DistributorCalls, vars
<1>5. AdminCalls \/ AccrueInterest => UNCHANGED now
  BY DEF AdminCalls, AddReserves, ReduceReserves, SetReserveFactor, SetInterestRateModel,
         UpdateJumpRateModel, SetBorrowRateMaxMantissa, AccrueInterest
<1> QED
  BY <1>1, <1>2, <1>3, <1>4, <1>5 DEF RewardsNext, UnchangedRewards, rewardVars, vars

LEMMA RewardsBegin == RewardsInit => RewardsKept
<1> SUFFICES ASSUME RewardsInit PROVE RewardsKept
  OBVIOUS
<1>1. /\ \A s \in Sides : rewardState[s] = [speed |-> 0, index |-> 0, block |-> 0]
      /\ \A s \in Sides, h \in Holders : accountIndex[s][h] = 0 /\ earned[s][h] = 0
      /\ now = 0
  BY DEF RewardsInit, Init
<1>2. EarnedIsKept
  BY DEF RewardsInit, EarnedIsKept, Sides
<1> QED BY <1>1, <1>2 DEF RewardsInit, RewardsKept, RewardsTypeOK

\* The credit of an account never underflows, whatever is called in which
\* order: its index stays behind that of its side (RewardDistributor.sol:376).
THEOREM RewardsTypes == RewardsSpec => []RewardsTypeOK
<1>1. TypeOK /\ RewardsKept /\ [RewardsNext]_rewardVars => RewardsKept'
  BY RewardsKeptStep
<1>2. RewardsKept => RewardsTypeOK
  BY DEF RewardsKept
<1>3. Counted => TypeOK
  BY DEF Counted
<1> QED BY <1>1, <1>2, <1>3, RewardsBegin, RewardsCount, PTL DEF RewardsSpec

\* No claim, with or without the funds for it, loses or repeats what an account
\* earned (RewardDistributor.sol:453).
THEOREM NothingEarnedIsLost == RewardsSpec => []EarnedIsKept
<1>1. TypeOK /\ RewardsKept /\ [RewardsNext]_rewardVars => RewardsKept'
  BY RewardsKeptStep
<1>2. RewardsKept => EarnedIsKept
  BY DEF RewardsKept
<1>3. Counted => TypeOK
  BY DEF Counted
<1> QED BY <1>1, <1>2, <1>3, RewardsBegin, RewardsCount, PTL DEF RewardsSpec

------------------------------------------------------------------------------
(* What suppliers have earned within a block.                               *)
SupplyIndex == Notified("supply", totalSupply).index

SupplyEarnings(u) == Earnings("supply", u, accountTokens[u], SupplyIndex)

EarningsKept ==
    now' = now => \A u \in Users :
        \/ Entitled(u)' = Entitled(u)
        \/ Entitled(u)' > Entitled(u) /\ \E v \in Users \ {u} : MintFor(v, u)

LEMMA SupplyIndexNat ==
    ASSUME TypeOK, RewardsTypeOK
    PROVE  /\ SupplyIndex \in Nat
           /\ \A u \in Users : accountIndex["supply"][u] <= SupplyIndex
           /\ rewardState["supply"].speed = 0 => SupplyIndex = rewardState["supply"].index
<1>1. /\ SupplyIndex \in Nat /\ SupplyIndex >= rewardState["supply"].index
      /\ rewardState["supply"].speed = 0 => SupplyIndex = rewardState["supply"].index
  BY NotifiedTypes DEF SupplyIndex, Sides, TypeOK, SupplyTypes
<1>2. \A u \in Users : /\ accountIndex["supply"][u] \in Nat /\ rewardState["supply"].index \in Nat
                       /\ accountIndex["supply"][u] <= rewardState["supply"].index
  BY DEF RewardsTypeOK, Sides, Holders
<1> QED BY <1>1, <1>2

\* After a notification in the block the index stays, whatever supply there is.
LEMMA SupplyIndexSettled ==
    ASSUME TypeOK', RewardsTypeOK', rewardState'["supply"].block = now'
    PROVE  SupplyIndex' = rewardState'["supply"].index
<1>1. /\ rewardState'["supply"].speed \in Nat /\ rewardState'["supply"].index \in Nat
      /\ rewardState'["supply"].block \in Nat /\ now' \in Nat /\ totalSupply' \in Nat
  BY DEF RewardsTypeOK, TypeOK, SupplyTypes, Sides
<1>2. Emission("supply")' * DoubleScale = 0
  BY <1>1, RewardsAssumption DEF Emission
<1>3. Ratio("supply", totalSupply)' = 0
  BY <1>1, <1>2, Quotient DEF Ratio
<1> QED BY <1>1, <1>3 DEF SupplyIndex, Notified

\* A distribution of the supply's rewards does not move its index further than
\* it would have come anyway.
LEMMA SupplyIndexKept ==
    ASSUME TypeOK, RewardsTypeOK, TypeOK', RewardsTypeOK', now' = now,
           NEW touched, NEW borrows, NEW index, Computable(touched, borrows, index),
           Distribute(touched, borrows, index),
           Notifies(touched, "supply") \/ totalSupply' = totalSupply
    PROVE  /\ SupplyIndex' = SupplyIndex
           /\ Notifies(touched, "supply") => rewardState'["supply"].index = SupplyIndex
<1>1. CASE Notifies(touched, "supply")
  <2>1. rewardState'["supply"] = Notified("supply", totalSupply)
    BY <1>1, DistributeSide DEF Sides, Shares
  <2>2. rewardState'["supply"].block = now'
    BY <2>1 DEF Notified
  <2> QED BY <2>1, <2>2, SupplyIndexSettled DEF SupplyIndex
<1>2. CASE ~ Notifies(touched, "supply")
  <2>1. rewardState'["supply"] = rewardState["supply"] /\ totalSupply' = totalSupply
    BY <1>2, DistributeSide DEF Sides
  <2> QED BY <1>2, <2>1 DEF SupplyIndex, Notified, Ratio, Emission
<1> QED BY <1>1, <1>2

\* An account that is notified has been credited with all it was entitled to ...
LEMMA NotifiedEarnings ==
    ASSUME TypeOK, RewardsTypeOK, TypeOK', RewardsTypeOK', now' = now,
           NEW touched, NEW borrows, NEW index, Computable(touched, borrows, index),
           Distribute(touched, borrows, index), NEW u \in Users, <<"supply", u>> \in touched
    PROVE  Entitled(u)' = Entitled(u)
<1>1. u \in Holders /\ "supply" \in Sides
  BY DEF Holders, Sides
<1>2. /\ SupplyIndex' = SupplyIndex /\ rewardState'["supply"].index = SupplyIndex
      /\ accountIndex'["supply"][u] = SupplyIndex
      /\ earned'["supply"][u] = earned["supply"][u] + SupplyEarnings(u)
  BY <1>1, SupplyIndexKept, DistributeAccount DEF Notifies, SharesOf, SupplyEarnings
<1>3. SupplyIndex \in Nat /\ accountTokens'[u] \in Nat /\ earned'["supply"][u] \in Nat
  BY <1>1, SupplyIndexNat DEF TypeOK, SupplyTypes, RewardsTypeOK
<1>4. DeltaIndex("supply", u, SupplyIndex)' = 0
  BY <1>2, <1>3, RewardsAssumption DEF DeltaIndex, REWARD_INITIAL_INDEX
<1>5. SupplyEarnings(u)' = (accountTokens'[u] * 0) \div DoubleScale
  BY <1>4 DEF SupplyEarnings, Earnings
<1>6. SupplyEarnings(u)' = 0
  BY <1>3, <1>5, RewardsAssumption
<1>7. Entitled(u)' = earned'["supply"][u] + SupplyEarnings(u)'
      /\ Entitled(u) = earned["supply"][u] + SupplyEarnings(u)
  BY DEF Entitled, SupplyEarnings, SupplyIndex
<1> QED BY <1>2, <1>3, <1>6, <1>7

\* ... and one that is not keeps it as long as its mTokens stay.
LEMMA OtherEarnings ==
    ASSUME TypeOK, RewardsTypeOK, TypeOK', RewardsTypeOK', now' = now,
           NEW touched, NEW borrows, NEW index, Computable(touched, borrows, index),
           Distribute(touched, borrows, index), NEW u \in Users, <<"supply", u>> \notin touched,
           Notifies(touched, "supply") \/ totalSupply' = totalSupply,
           accountTokens'[u] >= accountTokens[u]
    PROVE  /\ Entitled(u)' >= Entitled(u)
           /\ accountTokens'[u] = accountTokens[u] => Entitled(u)' = Entitled(u)
           /\ Entitled(u)' \in Nat /\ Entitled(u) \in Nat
<1>1. u \in Holders /\ "supply" \in Sides
  BY DEF Holders, Sides
<1>2. /\ SupplyIndex' = SupplyIndex
      /\ accountIndex'["supply"][u] = accountIndex["supply"][u]
      /\ earned'["supply"][u] = earned["supply"][u]
  BY <1>1, SupplyIndexKept, DistributeAccount
<1>3. /\ SupplyIndex \in Nat /\ accountIndex["supply"][u] <= SupplyIndex
      /\ accountTokens[u] \in Nat /\ accountTokens'[u] \in Nat /\ earned["supply"][u] \in Nat
  BY <1>1, SupplyIndexNat DEF TypeOK, SupplyTypes, RewardsTypeOK
<1>4. SupplyEarnings(u)' = Earnings("supply", u, accountTokens'[u], SupplyIndex)
  BY <1>2 DEF SupplyEarnings, Earnings, DeltaIndex
<1>5. /\ SupplyEarnings(u)' >= SupplyEarnings(u)
      /\ SupplyEarnings(u)' \in Nat /\ SupplyEarnings(u) \in Nat
  BY <1>1, <1>3, <1>4, EarningsNat DEF SupplyEarnings
<1>6. Entitled(u)' = earned'["supply"][u] + SupplyEarnings(u)'
      /\ Entitled(u) = earned["supply"][u] + SupplyEarnings(u)
  BY DEF Entitled, SupplyEarnings, SupplyIndex
<1>7. accountTokens'[u] = accountTokens[u] => SupplyEarnings(u)' = SupplyEarnings(u)
  BY <1>4 DEF SupplyEarnings
<1> QED BY <1>2, <1>3, <1>5, <1>6, <1>7

LEMMA HookEarnings ==
    ASSUME TypeOK, RewardsTypeOK, TypeOK', RewardsTypeOK', now' = now,
           NEW touched, Computable(touched, BorrowsNew, IndexNew), Hook(touched),
           \A u \in Users : <<"supply", u>> \notin touched => accountTokens'[u] = accountTokens[u],
           Notifies(touched, "supply") \/ totalSupply' = totalSupply
    PROVE  EarningsKept
<1>1. Distribute(touched, BorrowsNew, IndexNew)
  BY DEF Hook
<1>2. ASSUME NEW u \in Users PROVE Entitled(u)' = Entitled(u)
  <2>1. CASE <<"supply", u>> \in touched
    BY <1>1, <2>1, NotifiedEarnings
  <2>2. CASE <<"supply", u>> \notin touched
    <3>1. accountTokens'[u] = accountTokens[u] /\ accountTokens[u] \in Nat
      BY <2>2 DEF TypeOK, SupplyTypes, Holders
    <3> QED BY <1>1, <2>2, <3>1, OtherEarnings
  <2> QED BY <2>1, <2>2
<1> QED BY <1>2 DEF EarningsKept

\* Only a mint adds to what another account holds unnotified.
LEMMA MintEarnings ==
    ASSUME TypeOK, RewardsTypeOK, TypeOK', RewardsTypeOK', now' = now,
           NEW minter \in Users, NEW receiver \in Holders, MintFor(minter, receiver)
    PROVE  EarningsKept
<1> DEFINE touched == {<<"supply", minter>>}
<1>1. PICK n \in Amounts, min \in MinAmounts : Mint(receiver, n, min) /\ MintHook(minter, receiver)
  BY DEF MintFor
<1>2. /\ Computable(touched, BorrowsNew, IndexNew) /\ Distribute(touched, BorrowsNew, IndexNew)
      /\ Notifies(touched, "supply")
  BY <1>1, SettledIsComputable DEF Mint, Accrue, MintHook, Notifies, Holders
<1>3. ASSUME NEW u \in Users
      PROVE  accountTokens'[u] >= accountTokens[u]
             /\ (u # receiver => accountTokens'[u] = accountTokens[u])
  <2> DEFINE aside == IF totalSupply = 0 THEN SetAside ELSE 0
             tokens == (n * Scale) \div RateNow
  <2>1. /\ accountTokens \in [Holders -> Nat] /\ u \in Holders /\ u # Zero /\ aside \in Nat
        /\ n * Scale \in Nat
    BY MarketAssumption, ScaleAssumption DEF TypeOK, SupplyTypes, Holders
  <2> DEFINE first == [accountTokens EXCEPT ![Zero] = IF totalSupply = 0 THEN aside ELSE @]
  <2>2. tokens >= aside /\ tokens \in Int
        /\ accountTokens' = [first EXCEPT ![receiver] = @ + tokens - aside]
    <3>1. RateNow \in Nat \ {0}
      BY <1>1, RateNat DEF Mint, Accrue
    <3>2. tokens \in Int
      <4> HIDE DEF tokens
      <4>1. (n * Scale) \div RateNow \in Int
        BY <2>1, <3>1, Quotient
      <4> QED BY <4>1 DEF tokens
    <3> QED BY <1>1, <3>2 DEF Mint, Issue
  <2> HIDE DEF aside, tokens
  <2>3. CASE u = receiver
    BY <2>1, <2>2, <2>3
  <2>4. CASE u # receiver
    BY <2>1, <2>2, <2>4
  <2> QED BY <2>3, <2>4
<1>4. ASSUME NEW u \in Users
      PROVE  \/ Entitled(u)' = Entitled(u)
             \/ Entitled(u)' > Entitled(u) /\ \E v \in Users \ {u} : MintFor(v, u)
  <2>1. CASE u = minter
    BY <1>2, <2>1, NotifiedEarnings
  <2>2. CASE u # minter
    <3>1. <<"supply", u>> \notin touched
      BY <2>2
    <3> HIDE DEF touched
    <3>2. /\ Entitled(u)' >= Entitled(u) /\ Entitled(u)' \in Nat /\ Entitled(u) \in Nat
          /\ u # receiver => Entitled(u)' = Entitled(u)
      BY <1>2, <1>3, <3>1, OtherEarnings
    <3> QED BY <2>2, <3>2
  <2> QED BY <2>1, <2>2
<1> QED BY <1>4 DEF EarningsKept

LEMMA CallsEarnings ==
    ASSUME TypeOK, RewardsTypeOK, TypeOK', RewardsTypeOK', now' = now, RewardedCalls
    PROVE  EarningsKept
<1>1. accountTokens \in [Holders -> Nat] /\ Users \subseteq Holders
  BY DEF TypeOK, SupplyTypes, Holders
<1>2. ASSUME NEW u \in Users, NEW receiver \in Holders, MintFor(u, receiver) PROVE EarningsKept
  BY <1>2, MintEarnings
<1>3. ASSUME NEW u \in Users, NEW n \in Amounts,
             Redeem(u, n) \/ RedeemUnderlying(u, n), Hook({<<"supply", u>>})
      PROVE  EarningsKept
  <2>1. CanAccrue(maxRate) /\ \E tokens : accountTokens' = [accountTokens EXCEPT ![u] = @ - tokens]
    BY <1>3 DEF Redeem, RedeemUnderlying, PayOut
  <2>2. \A v \in Users : v # u => accountTokens'[v] = accountTokens[v]
    BY <1>1, <2>1
  <2>3. Notifies({<<"supply", u>>}, "supply")
    BY <1>1 DEF Notifies
  <2> QED BY <1>3, <2>1, <2>2, <2>3, SettledIsComputable, HookEarnings
<1>4. ASSUME NEW u \in Users, NEW n \in Amounts,
             Borrow(u, n) \/ Repay(u, n) \/ Repay(u, MaxUint), Hook({<<"borrow", u>>})
      PROVE  EarningsKept
  <2>1. CanAccrue(maxRate) /\ UNCHANGED supplies
    BY <1>4 DEF Borrow, Repay, Accrue
  <2> QED BY <1>4, <2>1, SettledIsComputable, HookEarnings DEF supplies
<1>5. ASSUME NEW u \in Users, NEW n \in Amounts, NEW dst \in Holders,
             Transfer(u, dst, n), TransferHook(u, dst)
      PROVE  EarningsKept
  <2>1. /\ accountTokens' = [accountTokens EXCEPT ![u] = @ - n, ![dst] = @ + n]
        /\ totalSupply' = totalSupply
    BY <1>5 DEF Transfer
  <2>2. \A v \in Users : v \notin {u, dst} => accountTokens'[v] = accountTokens[v]
    BY <1>1, <2>1
  <2>3. \A v : v \in {u, dst} => <<"supply", v>> \in {"supply"} \X {u, dst}
    OBVIOUS
  <2> QED BY <1>5, <2>1, <2>2, <2>3, SupplyIsComputable, HookEarnings DEF TransferHook
<1>6. ASSUME NEW u \in Users, NEW other \in Users, NEW tokens \in Amounts,
             SeizeTokens(other, u, tokens)
      PROVE  \A v \in Users : v \notin {u, other} => accountTokens'[v] = accountTokens[v]
  BY <1>1, <1>6 DEF SeizeTokens
<1>7. ASSUME NEW u \in Users, NEW n \in Amounts, NEW other \in Users,
             Seize(other, u, n), Hook({"supply"} \X {u, other})
      PROVE  EarningsKept
  <2>1. CanAccrue(maxRate) /\ SeizeTokens(other, u, n)
    BY <1>7 DEF Seize, Accrue
  <2>2. \A v : v \in {u, other} => <<"supply", v>> \in {"supply"} \X {u, other}
    OBVIOUS
  <2>3. Notifies({"supply"} \X {u, other}, "supply")
    BY <1>1 DEF Notifies
  <2> QED BY <1>6, <1>7, <2>1, <2>2, <2>3, SettledIsComputable, HookEarnings
<1>8. ASSUME NEW u \in Users, NEW n \in Amounts, NEW other \in Users, NEW tokens \in Amounts,
             Liquidate(other, u, n, tokens), LiquidationHook(other, u)
      PROVE  EarningsKept
  <2> DEFINE touched == {<<"borrow", u>>, <<"supply", u>>, <<"supply", other>>}
  <2>1. CanAccrue(maxRate) /\ SeizeTokens(other, u, tokens)
    BY <1>8 DEF Liquidate, Accrue
  <2>2. \A v : v \in {u, other} => <<"supply", v>> \in touched
    OBVIOUS
  <2>3. Notifies(touched, "supply")
    BY <1>1 DEF Notifies
  <2>4. Hook(touched)
    BY <1>8 DEF LiquidationHook
  <2> HIDE DEF touched
  <2> QED BY <1>6, <2>1, <2>2, <2>3, <2>4, SettledIsComputable, HookEarnings
<1> QED
  BY Zenon, <1>2, <1>3, <1>4, <1>5, <1>7, <1>8 DEF RewardedCalls

\* New speeds hold from now on.
LEMMA SpeedsEarnings ==
    ASSUME TypeOK, RewardsTypeOK, TypeOK', RewardsTypeOK', UNCHANGED vars,
           NEW speed \in Speeds, UpdateRewardSpeeds(speed)
    PROVE  EarningsKept
<1> DEFINE old == rewardState["supply"]
<1>1. UNCHANGED <<now, totalSupply, accountTokens, accountIndex, earned>>
  BY DEF vars, supplies, UpdateRewardSpeeds
<1>2. rewardState'["supply"] = IF old.speed # speed["supply"] THEN SpedUp("supply", speed["supply"])
                               ELSE old
  BY DEF UpdateRewardSpeeds, Sides
<1>3. /\ old.index \in Nat /\ old.speed \in Nat
      /\ old.index >= REWARD_INITIAL_INDEX \/ old.index + old.speed = 0
  BY DEF RewardsTypeOK, Sides
<1>4. ASSUME NEW u \in Users PROVE SupplyEarnings(u)' = SupplyEarnings(u)
  <2>1. CASE old.speed = speed["supply"]
    BY <1>1, <1>2, <2>1
       DEF SupplyEarnings, Earnings, DeltaIndex, SupplyIndex, Notified, Ratio, Emission
  <2>2. CASE old.speed # speed["supply"]
    <3>1. /\ rewardState'["supply"].block = now'
          /\ rewardState'["supply"].index =
                  IF old.index = 0 THEN REWARD_INITIAL_INDEX ELSE SupplyIndex
      BY <1>1, <1>2, <2>2 DEF SpedUp, SupplyIndex, Shares
    <3>2. SupplyIndex' = IF old.index = 0 THEN REWARD_INITIAL_INDEX ELSE SupplyIndex
      BY <3>1, SupplyIndexSettled
    <3>3. CASE old.index # 0
      BY <1>1, <3>2, <3>3 DEF SupplyEarnings, Earnings, DeltaIndex
    <3>4. CASE old.index = 0
      <4>1. SupplyIndex = 0 /\ accountIndex["supply"][u] = 0
        <5>1. old.speed = 0 /\ accountIndex["supply"][u] \in Nat
          BY <1>3, <3>4, RewardsAssumption DEF RewardsTypeOK, Sides, Holders, REWARD_INITIAL_INDEX
        <5> QED BY <3>4, <5>1, SupplyIndexNat
      <4>2. DeltaIndex("supply", u, SupplyIndex) = 0 /\ DeltaIndex("supply", u, SupplyIndex)' = 0
        BY <1>1, <3>2, <3>4, <4>1, RewardsAssumption DEF DeltaIndex, REWARD_INITIAL_INDEX
      <4> QED BY <1>1, <4>2 DEF SupplyEarnings, Earnings
    <3> QED BY <3>3, <3>4
  <2> QED BY <2>1, <2>2
<1> QED BY <1>1, <1>4 DEF EarningsKept, Entitled, SupplyEarnings, SupplyIndex

LEMMA ClaimEarnings ==
    ASSUME TypeOK, RewardsTypeOK, TypeOK', RewardsTypeOK', UNCHANGED vars,
           NEW h \in Holders, NEW sides \in SUBSET Sides, Claim(h, sides)
    PROVE  EarningsKept
<1>1. /\ Computable(sides \X {h}, totalBorrows, borrowIndex)
      /\ Distribute(sides \X {h}, totalBorrows, borrowIndex)
      /\ UNCHANGED <<now, totalSupply, accountTokens>>
  BY StoredIsComputable DEF Claim, vars, supplies
<1>2. ASSUME NEW u \in Users PROVE Entitled(u)' = Entitled(u)
  <2>1. CASE <<"supply", u>> \in sides \X {h}
    BY <1>1, <2>1, NotifiedEarnings
  <2>2. CASE <<"supply", u>> \notin sides \X {h}
    <3>1. accountTokens[u] \in Nat
      BY DEF TypeOK, SupplyTypes, Holders
    <3> QED BY <1>1, <2>2, <3>1, OtherEarnings
  <2> QED BY <2>1, <2>2
<1> QED BY <1>2 DEF EarningsKept

LEMMA EarningsStep ==
    TypeOK /\ RewardsTypeOK /\ TypeOK' /\ RewardsTypeOK' /\ [RewardsNext]_rewardVars
        => EarningsKept
<1> SUFFICES ASSUME TypeOK, RewardsTypeOK, TypeOK', RewardsTypeOK', [RewardsNext]_rewardVars,
                    now' = now
             PROVE  EarningsKept
  BY DEF EarningsKept
<1>1. CASE RewardedCalls
  BY <1>1, CallsEarnings
<1>2. CASE UNCHANGED <<supplies, rewardState, accountIndex, earned>>
  BY <1>2 DEF supplies, EarningsKept, Entitled, Earnings, DeltaIndex, Notified, Ratio, Emission
<1>3. CASE DistributorCalls /\ UNCHANGED vars
  <2>1. ASSUME NEW amount, GrantReward(amount) \/ Fund(amount)
        PROVE  UNCHANGED <<supplies, rewardState, accountIndex, earned>>
    BY <1>3, <2>1 DEF GrantReward, Fund, rewards, vars
  <2> QED BY <1>2, <1>3, <2>1, SpeedsEarnings, ClaimEarnings DEF DistributorCalls
<1>4. AdminCalls \/ AccrueInterest => UNCHANGED supplies
  BY DEF AdminCalls, AddReserves, ReduceReserves, SetReserveFactor, SetInterestRateModel,
         UpdateJumpRateModel, SetBorrowRateMaxMantissa, AccrueInterest
<1>5. ~ Block
  BY DEF Block, TypeOK
<1> QED
  BY <1>1, <1>2, <1>3, <1>4, <1>5 DEF RewardsNext, UnchangedRewards, rewards, rewardVars, vars

\* However mTokens are moved, burnt, seized and claimed for, what each supplier
\* has earned until then stays its own: the hooks notify in time
\* (Operator.sol:748).
THEOREM CallsKeepOthersEarnings == RewardsSpec => CallsKeepEarnings
<1>1. TypeOK /\ RewardsTypeOK /\ TypeOK' /\ RewardsTypeOK' /\ [RewardsNext]_rewardVars
          => [EarningsKept]_rewardVars
  BY EarningsStep
<1>2. Counted => TypeOK
  BY DEF Counted
<1> QED BY <1>1, <1>2, RewardsTypes, RewardsCount, PTL
        DEF RewardsSpec, CallsKeepEarnings, EarningsKept

------------------------------------------------------------------------------
(* What suppliers are credited with altogether.                             *)
\* What has grown on the mTokens of h since it was notified, up to an index.
Growth(h, index) == accountTokens[h] * DeltaIndex("supply", h, index)

\* What h was credited with and what will be credited to it at the next
\* notification, in units of 1 / DoubleScale and before truncation.
Worth == [h \in Holders |->
             earned["supply"][h] * DoubleScale + Growth(h, rewardState["supply"].index)]

Started == \A h \in Holders : \/ accountIndex["supply"][h] = 0
                              \/ accountIndex["supply"][h] >= REWARD_INITIAL_INDEX

\* What is credited and what is going to be, and what the blocks since the last
\* notification of the side give out, was given out by the speeds.  Before the
\* first mint the index does not move.
WorthCovered ==
    /\ SumFunction(Worth) + Emission("supply") * DoubleScale <= emitted * DoubleScale + windfall
    /\ Started
    /\ totalSupply = 0 => rewardState["supply"].index <= REWARD_INITIAL_INDEX
    /\ emitted \in Nat /\ windfall \in Nat

LEMMA SupplyState ==
    ASSUME TypeOK, RewardsTypeOK
    PROVE  /\ rewardState["supply"].index \in Nat /\ rewardState["supply"].speed \in Nat
           /\ rewardState["supply"].block \in Nat /\ rewardState["supply"].block <= now
           /\ Emission("supply") \in Nat
           /\ rewardState["supply"].speed = 0 => Emission("supply") = 0
           /\ \/ rewardState["supply"].index >= REWARD_INITIAL_INDEX
              \/ rewardState["supply"].index = 0 /\ rewardState["supply"].speed = 0
           /\ \A h \in Holders : /\ accountIndex["supply"][h] \in Nat
                                 /\ accountIndex["supply"][h] <= rewardState["supply"].index
                                 /\ earned["supply"][h] \in Nat /\ accountTokens[h] \in Nat
           /\ now \in Nat /\ totalSupply \in Nat /\ Holders # {}
<1> DEFINE state == rewardState["supply"]
<1>1. /\ state.index \in Nat /\ state.speed \in Nat /\ state.block \in Nat /\ state.block <= now
      /\ now \in Nat /\ totalSupply \in Nat
      /\ \/ state.index >= REWARD_INITIAL_INDEX
         \/ state.index + state.speed = 0
      /\ \A h \in Holders : /\ accountIndex["supply"][h] \in Nat
                            /\ accountIndex["supply"][h] <= state.index
                            /\ earned["supply"][h] \in Nat /\ accountTokens[h] \in Nat
  BY DEF TypeOK, RewardsTypeOK, SupplyTypes, Sides
<1>2. Emission("supply") = (now - state.block) * state.speed
  BY DEF Emission
<1>3. Holders # {}
  BY DEF Holders
<1> HIDE DEF state
<1>4. /\ (now - state.block) * state.speed \in Nat
      /\ state.speed = 0 => (now - state.block) * state.speed = 0
  <2>1. now - state.block \in Nat
    BY <1>1
  <2>2. \A n \in Nat, k \in Nat : n * k \in Nat /\ (k = 0 => n * k = 0)
    OBVIOUS
  <2> QED BY <1>1, <2>1, <2>2
<1> QED BY <1>1, <1>2, <1>3, <1>4 DEF state

LEMMA WorthTypes ==
    ASSUME TypeOK, RewardsTypeOK, Started
    PROVE  /\ \A h \in Holders, index \in Nat :
                accountIndex["supply"][h] <= index /\
                (index >= REWARD_INITIAL_INDEX \/ index = 0)
                  => DeltaIndex("supply", h, index) \in Nat /\ Growth(h, index) \in Nat
           /\ Worth \in [Holders -> Nat] /\ Worth \in [Holders -> Int]
           /\ SumFunction(Worth) \in Nat
<1>1. ASSUME NEW h \in Holders, NEW index \in Nat, accountIndex["supply"][h] <= index,
             index >= REWARD_INITIAL_INDEX \/ index = 0
      PROVE  DeltaIndex("supply", h, index) \in Nat /\ Growth(h, index) \in Nat
  <2>1. DeltaIndex("supply", h, index) \in Nat
    BY <1>1, SupplyState, RewardsAssumption DEF DeltaIndex, REWARD_INITIAL_INDEX
  <2>2. accountTokens[h] \in Nat
    BY SupplyState
  <2> QED BY <2>1, <2>2 DEF Growth
<1>2. ASSUME NEW h \in Holders PROVE Worth[h] \in Nat
  <2>1. Growth(h, rewardState["supply"].index) \in Nat
    BY <1>1, SupplyState
  <2>2. earned["supply"][h] * DoubleScale \in Nat
    BY SupplyState, RewardsAssumption
  <2> QED BY <2>1, <2>2 DEF Worth
<1>3. Worth \in [Holders -> Nat]
  BY <1>2 DEF Worth
<1> QED BY <1>1, <1>3, FiniteHolders, SumOfNat

\* An index that moves by r moves what grows on each mToken by r.
LEMMA DeltaMoves ==
    ASSUME TypeOK, RewardsTypeOK, Started, NEW h \in Holders, NEW r \in Nat,
           rewardState["supply"].index = 0 => r = 0
    PROVE  /\ DeltaIndex("supply", h, rewardState["supply"].index + r)
                = DeltaIndex("supply", h, rewardState["supply"].index) + r
           /\ DeltaIndex("supply", h, rewardState["supply"].index) \in Nat
           /\ Growth(h, rewardState["supply"].index + r)
                = Growth(h, rewardState["supply"].index) + r * accountTokens[h]
           /\ Growth(h, rewardState["supply"].index) \in Nat
<1> DEFINE old == rewardState["supply"].index
           d == DeltaIndex("supply", h, old)
<1>1. DeltaIndex("supply", h, old + r) = d + r
  BY SupplyState, RewardsAssumption DEF Started, DeltaIndex, REWARD_INITIAL_INDEX
<1>2. d \in Nat /\ accountTokens[h] \in Nat /\ Growth(h, old) \in Nat
  BY WorthTypes, SupplyState
<1> HIDE DEF old, d
<1>3. Growth(h, old + r) = accountTokens[h] * (d + r) /\ Growth(h, old) = accountTokens[h] * d
  BY <1>1 DEF Growth, d
<1>4. accountTokens[h] * (d + r) = accountTokens[h] * d + r * accountTokens[h]
  BY <1>2
<1> QED BY <1>1, <1>2, <1>3, <1>4 DEF old, d

\* By how much a notification moves the index: no more than was given out.
Moved(touched) == IF Notifies(touched, "supply") THEN Ratio("supply", totalSupply) ELSE 0

LEMMA RatioGiven ==
    ASSUME TypeOK, RewardsTypeOK
    PROVE  /\ Ratio("supply", totalSupply) \in Nat
           /\ Ratio("supply", totalSupply) * totalSupply <= Emission("supply") * DoubleScale
           /\ rewardState["supply"].index = 0 \/ totalSupply = 0 => Ratio("supply", totalSupply) = 0
<1> DEFINE given == Emission("supply") * DoubleScale
           ratio == given \div totalSupply
<1>1. given \in Nat /\ totalSupply \in Nat /\ (rewardState["supply"].index = 0 => given = 0)
  <2>1. Emission("supply") \in Nat /\ totalSupply \in Nat
        /\ (rewardState["supply"].index = 0 => Emission("supply") = 0)
    BY SupplyState, RewardsAssumption DEF REWARD_INITIAL_INDEX
  <2> QED BY <2>1, RewardsAssumption
<1>2. CASE totalSupply = 0
  BY <1>1, <1>2 DEF Ratio
<1>3. CASE totalSupply # 0
  <2>1. Ratio("supply", totalSupply) = ratio
    BY <1>1, <1>3 DEF Ratio
  <2> HIDE DEF given
  <2>2. ratio \in Nat /\ ratio * totalSupply <= given /\ (given = 0 => ratio = 0)
    BY <1>1, <1>3, Quotient
  <2> QED BY <1>1, <1>3, <2>1, <2>2 DEF given
<1> QED BY <1>2, <1>3

\* What an account whose index is at is credited for on each share, up to index.
Delta(at, index) ==
    IF at = 0 /\ index >= DoubleScale THEN index - DoubleScale ELSE index - at

\* Worth after a step, in terms of the variables after it.
LEMMA WorthThen ==
    ASSUME NEW h \in Holders
    PROVE  Worth'[h] = earned'["supply"][h] * DoubleScale
               + accountTokens'[h] * Delta(accountIndex'["supply"][h], rewardState'["supply"].index)
  BY DEF Worth, Growth, DeltaIndex, Delta, REWARD_INITIAL_INDEX

LEMMA DeltaIndexIsDelta ==
    ASSUME NEW h, NEW index
    PROVE  DeltaIndex("supply", h, index) = Delta(accountIndex["supply"][h], index)
  BY DEF DeltaIndex, Delta, REWARD_INITIAL_INDEX

\* A step in which the index moves by r, for which blocks have given out enough,
\* and one holder earns no more than the windfall besides.
LEMMA WorthMoves ==
    ASSUME TypeOK, RewardsTypeOK, SupplyIsHeld, WorthCovered, TypeOK', RewardsTypeOK', Started',
           totalSupply' = 0 => rewardState'["supply"].index <= REWARD_INITIAL_INDEX,
           NEW r \in Nat,
           r * totalSupply + Emission("supply")' * DoubleScale <= Emission("supply") * DoubleScale,
           emitted' = emitted, NEW x \in Holders, NEW w \in Nat, windfall' = windfall + w,
           \A h \in Holders : Worth'[h] <= Worth[h] + r * accountTokens[h] + (IF h = x THEN w ELSE 0)
    PROVE  WorthCovered'
<1> DEFINE new == rewardState'["supply"].index
<1>1. /\ Worth \in [Holders -> Int] /\ Worth' \in [Holders -> Int]
      /\ SumFunction(Worth) \in Nat /\ SumFunction(Worth') \in Nat
  <2>1. Worth \in [Holders -> Int] /\ SumFunction(Worth) \in Nat
    BY WorthTypes DEF WorthCovered
  <2>2. \A h \in Holders : Worth'[h] \in Nat
    <3> TAKE h \in Holders
    <3> DEFINE i == accountIndex'["supply"][h]
    <3>1. /\ i \in Nat /\ i <= new /\ new \in Nat /\ earned'["supply"][h] \in Nat
          /\ accountTokens'[h] \in Nat
      BY DEF RewardsTypeOK, Sides, TypeOK, SupplyTypes
    <3>2. Delta(i, new) \in Nat
      BY <3>1, RewardsAssumption DEF Delta
    <3>3. accountTokens'[h] * Delta(i, new) \in Nat /\ earned'["supply"][h] * DoubleScale \in Nat
      BY <3>1, <3>2, RewardsAssumption
    <3> QED BY <3>3, WorthThen
  <2>3. Worth' \in [Holders -> Nat]
    BY <2>2 DEF Worth
  <2>4. Worth' \in [Holders -> Int]
    BY <2>3
  <2> QED BY <2>1, <2>3, <2>4, FiniteHolders, SumOfNat
<1>2. SumFunction(Worth') <= SumFunction(Worth) + r * SumFunction(accountTokens) + w
  <2>1. accountTokens \in [Holders -> Int] /\ r \in Int /\ w \in Int
    BY DEF TypeOK, SupplyTypes
  <2> QED BY <1>1, <2>1, FiniteHolders, SumSpreadAndAdded
<1>3. SumFunction(accountTokens) = totalSupply
  BY DEF SupplyIsHeld
<1>4. emitted * DoubleScale \in Nat /\ windfall \in Nat /\ emitted \in Nat
  BY RewardsAssumption DEF WorthCovered
<1>5. Emission("supply") * DoubleScale \in Nat /\ r * totalSupply \in Nat
      /\ Emission("supply")' * DoubleScale \in Nat
  <2>1. Emission("supply") \in Nat /\ totalSupply \in Nat
    BY SupplyState
  <2>2. Emission("supply")' \in Nat
    <3>1. rewardState'["supply"].speed \in Nat /\ now' \in Nat
          /\ rewardState'["supply"].block \in Nat /\ rewardState'["supply"].block <= now'
      BY DEF RewardsTypeOK, Sides, TypeOK
    <3>2. now' - rewardState'["supply"].block \in Nat
      BY <3>1
    <3> QED BY <3>1, <3>2 DEF Emission
  <2> QED BY <2>1, <2>2, RewardsAssumption
<1>6. SumFunction(Worth)' + Emission("supply")' * DoubleScale <= emitted' * DoubleScale + windfall'
  <2>1. SumFunction(Worth) + Emission("supply") * DoubleScale <= emitted * DoubleScale + windfall
    BY DEF WorthCovered
  <2>2. SumFunction(Worth') <= SumFunction(Worth) + r * totalSupply + w
    BY <1>2, <1>3
  <2>3. emitted' = emitted /\ windfall' = windfall + w
    OBVIOUS
  <2>4. r * totalSupply + Emission("supply")' * DoubleScale <= Emission("supply") * DoubleScale
    OBVIOUS
  <2> QED BY <1>1, <1>4, <1>5, <2>1, <2>2, <2>3, <2>4
<1>7. emitted' \in Nat /\ windfall' \in Nat
  BY <1>4
<1> QED BY <1>6, <1>7 DEF WorthCovered, REWARD_INITIAL_INDEX

\* A step that distributes rewards of the supply.  Whoever is notified has
\* nothing growing afterwards; the others' mTokens stay, but for those of one
\* holder that add no more than the windfall.
LEMMA DistributeCovered ==
    ASSUME TypeOK, RewardsTypeOK, SupplyIsHeld, WorthCovered, TypeOK', RewardsTypeOK', now' = now,
           totalSupply > 0 => totalSupply' > 0,
           NEW touched, NEW borrows, NEW index,
           Computable(touched, borrows, index), Distribute(touched, borrows, index),
           emitted' = emitted, NEW x \in Holders, NEW w \in Nat, windfall' = windfall + w,
           \A h \in Holders : <<"supply", h>> \notin touched =>
               accountTokens'[h] * DeltaIndex("supply", h, rewardState'["supply"].index)
                   <= Growth(h, rewardState'["supply"].index) + (IF h = x THEN w ELSE 0)
    PROVE  WorthCovered'
<1> DEFINE old == rewardState["supply"].index
           new == rewardState'["supply"].index
           r == Moved(touched)
<1>1. /\ r \in Nat /\ r * totalSupply <= Emission("supply") * DoubleScale
      /\ old = 0 \/ totalSupply = 0 => r = 0
      /\ r * totalSupply + Emission("supply")' * DoubleScale <= Emission("supply") * DoubleScale
      /\ new = old + r
  <2>1. Emission("supply") \in Nat /\ totalSupply \in Nat /\ old \in Nat
    BY SupplyState
  <2>2. Emission("supply") * DoubleScale \in Nat
    BY <2>1, RewardsAssumption
  <2>3. CASE Notifies(touched, "supply")
    <3>1. rewardState'["supply"] = Notified("supply", totalSupply)
      BY <2>3, DistributeSide DEF Sides, Shares
    <3>2. new = old + Ratio("supply", totalSupply) /\ rewardState'["supply"].block = now
      BY <3>1 DEF Notified
    <3>3. Emission("supply")' = 0
      <4>1. Emission("supply")' = (now' - now) * rewardState'["supply"].speed
        BY <3>2 DEF Emission
      <4>2. rewardState'["supply"].speed \in Nat /\ now' \in Nat
        BY DEF RewardsTypeOK, Sides, TypeOK
      <4> QED BY <4>1, <4>2
    <3>4. r = Ratio("supply", totalSupply)
      BY <2>3 DEF Moved
    <3>5. r \in Nat /\ r * totalSupply \in Nat /\ r * totalSupply <= Emission("supply") * DoubleScale
          /\ (old = 0 \/ totalSupply = 0 => r = 0)
      BY <2>1, <3>4, RatioGiven
    <3>6. Emission("supply")' * DoubleScale = 0
      BY <3>3, RewardsAssumption
    <3> HIDE DEF r
    <3> QED BY <2>1, <2>2, <3>2, <3>4, <3>5, <3>6
  <2>4. CASE ~ Notifies(touched, "supply")
    <3>1. rewardState'["supply"] = rewardState["supply"] /\ r = 0
      BY <2>4, DistributeSide DEF Sides, Moved
    <3>2. Emission("supply")' = Emission("supply")
      BY <3>1 DEF Emission
    <3> HIDE DEF r
    <3> QED BY <2>1, <2>2, <3>1, <3>2
  <2> QED BY <2>3, <2>4
<1> HIDE DEF r
<1>2. Started'
  <2> SUFFICES ASSUME NEW h \in Holders
               PROVE  \/ accountIndex'["supply"][h] = 0
                      \/ accountIndex'["supply"][h] >= REWARD_INITIAL_INDEX
    BY DEF Started, REWARD_INITIAL_INDEX
  <2>1. accountIndex'["supply"][h] = new \/ accountIndex'["supply"][h] = accountIndex["supply"][h]
    BY DistributeAccount DEF Sides
  <2>2. new = 0 \/ new >= REWARD_INITIAL_INDEX
    BY DistributeSide DEF Sides, RewardStates
  <2>3. accountIndex["supply"][h] = 0 \/ accountIndex["supply"][h] >= REWARD_INITIAL_INDEX
    BY DEF WorthCovered, Started
  <2> QED BY <2>1, <2>2, <2>3
<1>3. totalSupply' = 0 => new <= REWARD_INITIAL_INDEX
  <2>1. totalSupply' = 0 => totalSupply = 0
    BY SupplyState
  <2> QED BY <1>1, <2>1, SupplyState DEF WorthCovered
<1>4. ASSUME NEW h \in Holders
      PROVE  Worth'[h] <= Worth[h] + r * accountTokens[h] + (IF h = x THEN w ELSE 0)
  <2>1. /\ Growth(h, new) = Growth(h, old) + r * accountTokens[h]
        /\ Growth(h, old) \in Nat
    BY <1>1, DeltaMoves DEF WorthCovered
  <2>2. /\ Worth[h] = earned["supply"][h] * DoubleScale + Growth(h, old)
        /\ Worth'[h] = earned'["supply"][h] * DoubleScale
                         + accountTokens'[h] * Delta(accountIndex'["supply"][h], new)
    BY WorthThen DEF Worth
  <2>3. /\ earned["supply"][h] \in Nat /\ accountTokens[h] \in Nat /\ accountTokens'[h] \in Nat
        /\ earned'["supply"][h] \in Nat /\ new \in Nat /\ accountIndex["supply"][h] \in Nat
    <3>1. TypeOK' => accountTokens'[h] \in Nat
      BY DEF TypeOK, SupplyTypes
    <3>2. earned'["supply"][h] \in Nat /\ new \in Nat
      BY DistributeAccount, DistributeSide DEF Sides, RewardStates
    <3> QED BY <3>1, <3>2, SupplyState
  <2>4. r * accountTokens[h] \in Nat /\ earned["supply"][h] * DoubleScale \in Nat
    BY <1>1, <2>3, RewardsAssumption
  <2>7. new = 0 \/ new >= REWARD_INITIAL_INDEX
    BY DistributeSide DEF Sides, RewardStates
  <2>5. CASE <<"supply", h>> \in touched
    <3>1. /\ accountIndex'["supply"][h] = new
          /\ earned'["supply"][h] = earned["supply"][h] + Earnings("supply", h, accountTokens[h], new)
      BY <2>5, DistributeAccount DEF Sides, SharesOf
    <3>2. Delta(accountIndex'["supply"][h], new) = 0
      BY <2>3, <2>7, <3>1, RewardsAssumption DEF Delta, REWARD_INITIAL_INDEX
    <3>3. Earnings("supply", h, accountTokens[h], new) = Growth(h, new) \div DoubleScale
      BY DEF Earnings, Growth
    <3> DEFINE e == Growth(h, new) \div DoubleScale
    <3>4. e \in Nat /\ e * DoubleScale <= Growth(h, new)
      <4>1. Growth(h, new) \in Nat
        BY <2>1, <2>4
      <4> QED BY <4>1, Quotient, RewardsAssumption
    <3>5. earned'["supply"][h] = earned["supply"][h] + e
      BY <3>1, <3>3
    <3> HIDE DEF e
    <3>6. accountTokens'[h] * 0 = 0
      BY <2>3
    <3>7. (earned["supply"][h] + e) * DoubleScale = earned["supply"][h] * DoubleScale + e * DoubleScale
      BY <2>3, <3>4, RewardsAssumption
    <3>8. e * DoubleScale \in Nat
      BY <3>4, RewardsAssumption
    <3>9. Worth'[h] = earned["supply"][h] * DoubleScale + e * DoubleScale
      BY <2>2, <2>4, <3>2, <3>5, <3>6, <3>7, <3>8
    <3> HIDE DEF old, new
    <3> QED BY <2>1, <2>2, <2>4, <3>4, <3>8, <3>9
  <2>6. CASE <<"supply", h>> \notin touched
    <3>1. accountIndex'["supply"][h] = accountIndex["supply"][h]
          /\ earned'["supply"][h] = earned["supply"][h]
      BY <2>6, DistributeAccount DEF Sides
    <3>2. Delta(accountIndex'["supply"][h], new) = DeltaIndex("supply", h, new)
      BY <3>1, DeltaIndexIsDelta
    <3>3. accountTokens'[h] * DeltaIndex("supply", h, new)
              <= Growth(h, new) + (IF h = x THEN w ELSE 0)
      BY <2>6
    <3>4. accountTokens'[h] * DeltaIndex("supply", h, new) \in Int
      <4>1. DeltaIndex("supply", h, new) \in Int
        BY <2>3, RewardsAssumption DEF DeltaIndex, REWARD_INITIAL_INDEX
      <4> QED BY <2>3, <4>1
    <3> HIDE DEF old, new
    <3> QED BY <2>1, <2>2, <2>4, <3>1, <3>2, <3>3, <3>4
  <2> QED BY <2>5, <2>6
<1> HIDE DEF new, old
<1> QED BY <1>1, <1>2, <1>3, <1>4, WorthMoves DEF new

\* The hooks of a call that moves mTokens only of accounts it notified.
LEMMA HookCovered ==
    ASSUME TypeOK, RewardsTypeOK, SupplyIsHeld, WorthCovered, TypeOK', RewardsTypeOK', now' = now,
           totalSupply > 0 => totalSupply' > 0,
           NEW touched, Computable(touched, BorrowsNew, IndexNew), Hook(touched),
           \A h \in Holders : <<"supply", h>> \notin touched => accountTokens'[h] = accountTokens[h]
    PROVE  WorthCovered'
<1> DEFINE new == rewardState'["supply"].index
<1>1. /\ Distribute(touched, BorrowsNew, IndexNew)
      /\ emitted' = emitted /\ windfall' = windfall + 0 /\ Zero \in Holders
  BY DEF Hook, promises, WorthCovered, Holders
<1>2. ASSUME NEW h \in Holders, <<"supply", h>> \notin touched
      PROVE  accountTokens'[h] * DeltaIndex("supply", h, new)
                 <= Growth(h, new) + (IF h = Zero THEN 0 ELSE 0)
  <2>1. new \in Nat /\ accountIndex["supply"][h] \in Nat
    BY <1>1, DistributeSide, SupplyState DEF Sides, RewardStates
  <2>2. DeltaIndex("supply", h, new) \in Int
    BY <2>1, RewardsAssumption DEF DeltaIndex, REWARD_INITIAL_INDEX
  <2>3. accountTokens[h] * DeltaIndex("supply", h, new) \in Int
    BY <2>2, SupplyState
  <2>4. accountTokens'[h] = accountTokens[h]
    BY <1>2
  <2> QED BY <2>3, <2>4 DEF Growth
<1> HIDE DEF new
<1>3. 0 \in Nat
  OBVIOUS
<1> QED BY <1>1, <1>2, <1>3, DistributeCovered DEF new

\* What a mint adds to the mTokens of each holder.
LEMMA MintedTokens ==
    ASSUME TypeOK, SupplyIsHeld, NEW receiver \in Holders, NEW n \in Amounts,
           NEW min \in MinAmounts, Mint(receiver, n, min)
    PROVE  /\ accountTokens'[receiver] >= accountTokens[receiver]
           /\ \A h \in Holders \ {receiver} :
                accountTokens'[h] = accountTokens[h] \/ (h = Zero /\ totalSupply = 0)
           /\ totalSupply > 0 => totalSupply' > 0
<1> DEFINE aside == IF totalSupply = 0 THEN SetAside ELSE 0
           tokens == (n * Scale) \div RateNow
           first == [accountTokens EXCEPT ![Zero] = IF totalSupply = 0 THEN aside ELSE @]
<1>1. /\ accountTokens \in [Holders -> Nat] /\ Zero \in Holders /\ aside \in Nat
      /\ n * Scale \in Nat /\ totalSupply \in Nat
  BY MarketAssumption, ScaleAssumption DEF TypeOK, SupplyTypes, Holders
<1>2. tokens \in Nat
  <2>1. RateNow \in Nat \ {0}
    BY RateNat DEF Mint, Accrue
  <2> HIDE DEF tokens
  <2>2. (n * Scale) \div RateNow \in Nat
    BY <1>1, <2>1, Quotient
  <2> QED BY <2>2 DEF tokens
<1>3. /\ tokens >= aside /\ totalSupply' = totalSupply + tokens
      /\ accountTokens' = [first EXCEPT ![receiver] = @ + tokens - aside]
  BY DEF Mint, Issue
<1> HIDE DEF aside, tokens
<1>4. accountTokens'[receiver] >= accountTokens[receiver]
  <2>1. totalSupply = 0 => accountTokens[receiver] = 0
    <3>1. /\ accountTokens \in [Holders -> Nat]
          /\ \A h \in Holders : accountTokens[h] <= SumFunction(accountTokens)
      BY <1>1, FiniteHolders, SumOneEntry
    <3> QED BY <3>1 DEF SupplyIsHeld
  <2>2. CASE totalSupply = 0
    BY <1>1, <1>2, <1>3, <2>1, <2>2
  <2>3. CASE totalSupply # 0
    BY <1>1, <1>2, <1>3, <2>3 DEF aside
  <2> QED BY <2>2, <2>3
<1>5. ASSUME NEW h \in Holders \ {receiver}
      PROVE  accountTokens'[h] = accountTokens[h] \/ (h = Zero /\ totalSupply = 0)
  BY <1>1, <1>2, <1>3
<1> QED BY <1>1, <1>2, <1>3, <1>4, <1>5

LEMMA MintCovered ==
    ASSUME TypeOK, RewardsTypeOK, SupplyIsHeld, WorthCovered, TypeOK', RewardsTypeOK',
           NEW minter \in Users, NEW receiver \in Holders, MintFor(minter, receiver)
    PROVE  WorthCovered'
<1> DEFINE touched == {<<"supply", minter>>}
           new == rewardState'["supply"].index
           since == DeltaIndex("supply", receiver, new)
           gained == accountTokens'[receiver] - accountTokens[receiver]
           w == IF receiver = minter THEN 0 ELSE gained * since
<1>1. PICK n \in Amounts, min \in MinAmounts : Mint(receiver, n, min) /\ MintHook(minter, receiver)
  BY DEF MintFor
<1>2. /\ Computable(touched, BorrowsNew, IndexNew) /\ Distribute(touched, BorrowsNew, IndexNew)
      /\ now' = now /\ emitted' = emitted /\ windfall' = windfall + w
  BY <1>1, SettledIsComputable DEF Mint, Accrue, MintHook
<1>3. /\ accountTokens'[receiver] >= accountTokens[receiver]
      /\ \A h \in Holders \ {receiver} :
           accountTokens'[h] = accountTokens[h] \/ (h = Zero /\ totalSupply = 0)
      /\ totalSupply > 0 => totalSupply' > 0
  BY <1>1, MintedTokens
<1>4. /\ new \in Nat /\ new >= rewardState["supply"].index
      /\ new = 0 \/ new >= REWARD_INITIAL_INDEX
      /\ totalSupply = 0 => new <= REWARD_INITIAL_INDEX
  <2>1. /\ new \in Nat /\ (new = 0 \/ new >= REWARD_INITIAL_INDEX)
        /\ new >= rewardState["supply"].index
    BY <1>2, DistributeSide DEF Sides, RewardStates
  <2>2. rewardState'["supply"] = Notified("supply", totalSupply)
    BY <1>2, DistributeSide DEF Sides, Shares, Notifies, Holders
  <2>3. new = rewardState["supply"].index + Ratio("supply", totalSupply)
    BY <2>2 DEF Notified
  <2>4. totalSupply = 0 => Ratio("supply", totalSupply) = 0
    BY DEF Ratio
  <2>5. totalSupply = 0 => rewardState["supply"].index <= REWARD_INITIAL_INDEX
    BY DEF WorthCovered
  <2> QED BY <2>1, <2>3, <2>4, <2>5, SupplyState
<1>5. ASSUME NEW h \in Holders
      PROVE  /\ DeltaIndex("supply", h, new) \in Nat
             /\ totalSupply = 0 => DeltaIndex("supply", h, new) = 0
             /\ accountTokens[h] \in Nat /\ accountTokens'[h] \in Nat
             /\ accountTokens[h] * DeltaIndex("supply", h, new) \in Nat
             /\ Growth(h, new) = accountTokens[h] * DeltaIndex("supply", h, new)
  <2>1. /\ accountIndex["supply"][h] \in Nat /\ accountIndex["supply"][h] <= new
        /\ accountTokens[h] \in Nat
    BY <1>4, SupplyState
  <2>2. accountTokens'[h] \in Nat
    BY DEF TypeOK, SupplyTypes
  <2>3. accountIndex["supply"][h] = 0 \/ accountIndex["supply"][h] >= REWARD_INITIAL_INDEX
    BY DEF WorthCovered, Started
  <2>4. /\ DeltaIndex("supply", h, new) \in Nat
        /\ totalSupply = 0 => DeltaIndex("supply", h, new) = 0
    BY <1>4, <2>1, <2>3, RewardsAssumption DEF DeltaIndex, REWARD_INITIAL_INDEX
  <2>5. \A a \in Nat, b \in Nat : a * b \in Nat
    OBVIOUS
  <2> QED BY <2>1, <2>2, <2>4, <2>5 DEF Growth
<1>6. since \in Nat /\ gained \in Nat
  BY <1>3, <1>5
<1>7. w \in Nat
  BY <1>6
<1>8. ASSUME NEW h \in Holders, <<"supply", h>> \notin touched
      PROVE  accountTokens'[h] * DeltaIndex("supply", h, new)
                 <= Growth(h, new) + (IF h = receiver THEN w ELSE 0)
  <2> DEFINE d == DeltaIndex("supply", h, new)
  <2>1. h # minter
    BY <1>8
  <2>2. /\ d \in Nat /\ (totalSupply = 0 => d = 0)
        /\ accountTokens[h] \in Nat /\ accountTokens'[h] \in Nat
        /\ accountTokens[h] * d \in Nat /\ Growth(h, new) = accountTokens[h] * d
    BY <1>5
  <2>3. CASE h = receiver
    <3>1. w = (accountTokens'[h] - accountTokens[h]) * d
      BY <2>1, <2>3
    <3> HIDE DEF d, w
    <3>2. (accountTokens'[h] - accountTokens[h]) * d = accountTokens'[h] * d - accountTokens[h] * d
      BY <2>2
    <3>3. accountTokens'[h] * d \in Int
      BY <2>2
    <3>4. accountTokens'[h] * d <= accountTokens[h] * d + w
      BY <2>2, <3>1, <3>2, <3>3
    <3> QED BY <2>2, <2>3, <3>4 DEF d
  <2>4. CASE h # receiver /\ accountTokens'[h] = accountTokens[h]
    BY <2>2, <2>4
  <2>5. CASE h # receiver /\ totalSupply = 0
    <3>1. d = 0 /\ accountTokens'[h] * 0 = 0 /\ accountTokens[h] * 0 = 0
      BY <2>2, <2>5
    <3> QED BY <2>2, <2>5, <3>1
  <2> QED BY <1>3, <2>3, <2>4, <2>5
<1> HIDE DEF touched, w
<1> QED BY <1>2, <1>3, <1>7, <1>8, DistributeCovered DEF new

\* Every call of the market.
LEMMA CallsCovered ==
    ASSUME TypeOK, RewardsTypeOK, SupplyIsHeld, WorthCovered, TypeOK', RewardsTypeOK', RewardedCalls
    PROVE  WorthCovered'
<1>1. /\ accountTokens \in [Holders -> Nat] /\ Users \subseteq Holders
      /\ now' = now /\ (totalSupply > 0 => totalSupply' > 0)
  <2>1. accountTokens \in [Holders -> Nat] /\ Users \subseteq Holders
    BY DEF TypeOK, SupplyTypes, Holders
  <2>2. now' = now
    BY CallsHook
  <2>3. AccountCalls
    BY Zenon DEF RewardedCalls, MintFor, AccountCalls
  <2> QED BY <2>1, <2>2, <2>3, AccountCallsHeld
<1>2. ASSUME NEW u \in Users, NEW receiver \in Holders, MintFor(u, receiver) PROVE WorthCovered'
  BY <1>2, MintCovered
<1>3. ASSUME NEW u \in Users, NEW n \in Amounts,
             Redeem(u, n) \/ RedeemUnderlying(u, n), Hook({<<"supply", u>>})
      PROVE  WorthCovered'
  <2>1. CanAccrue(maxRate) /\ \E tokens : accountTokens' = [accountTokens EXCEPT ![u] = @ - tokens]
    BY <1>3 DEF Redeem, RedeemUnderlying, PayOut
  <2>2. \A h \in Holders : h # u => accountTokens'[h] = accountTokens[h]
    BY <1>1, <2>1
  <2>3. \A h \in Holders : <<"supply", h>> \notin {<<"supply", u>>} => accountTokens'[h] = accountTokens[h]
    BY <2>2
  <2> QED BY <1>1, <1>3, <2>1, <2>3, SettledIsComputable, HookCovered
<1>4. ASSUME NEW u \in Users, NEW n \in Amounts,
             Borrow(u, n) \/ Repay(u, n) \/ Repay(u, MaxUint), Hook({<<"borrow", u>>})
      PROVE  WorthCovered'
  <2>1. CanAccrue(maxRate) /\ UNCHANGED supplies
    BY <1>4 DEF Borrow, Repay, Accrue
  <2>2. \A h \in Holders : accountTokens'[h] = accountTokens[h]
    BY <2>1 DEF supplies
  <2> QED BY <1>1, <1>4, <2>1, <2>2, SettledIsComputable, HookCovered
<1>5. ASSUME NEW u \in Users, NEW n \in Amounts, NEW dst \in Holders,
             Transfer(u, dst, n), TransferHook(u, dst)
      PROVE  WorthCovered'
  <2>1. accountTokens' = [accountTokens EXCEPT ![u] = @ - n, ![dst] = @ + n]
    BY <1>5 DEF Transfer
  <2>2. \A h \in Holders : h \notin {u, dst} => accountTokens'[h] = accountTokens[h]
    BY <1>1, <2>1
  <2>3. \A h \in Holders : <<"supply", h>> \notin {"supply"} \X {u, dst}
                               => accountTokens'[h] = accountTokens[h]
    BY <2>2
  <2> QED BY <1>1, <1>5, <2>3, SupplyIsComputable, HookCovered DEF TransferHook
<1>6. ASSUME NEW u \in Users, NEW other \in Users, NEW tokens \in Amounts,
             SeizeTokens(other, u, tokens)
      PROVE  \A h \in Holders : h \notin {u, other} => accountTokens'[h] = accountTokens[h]
  BY <1>1, <1>6 DEF SeizeTokens
<1>7. ASSUME NEW u \in Users, NEW n \in Amounts, NEW other \in Users,
             Seize(other, u, n), Hook({"supply"} \X {u, other})
      PROVE  WorthCovered'
  <2>1. CanAccrue(maxRate) /\ SeizeTokens(other, u, n)
    BY <1>7 DEF Seize, Accrue
  <2>2. \A h \in Holders : <<"supply", h>> \notin {"supply"} \X {u, other}
                               => accountTokens'[h] = accountTokens[h]
    BY <1>6, <2>1
  <2> QED BY <1>1, <1>7, <2>1, <2>2, SettledIsComputable, HookCovered
<1>8. ASSUME NEW u \in Users, NEW n \in Amounts, NEW other \in Users, NEW tokens \in Amounts,
             Liquidate(other, u, n, tokens), LiquidationHook(other, u)
      PROVE  WorthCovered'
  <2> DEFINE touched == {<<"borrow", u>>, <<"supply", u>>, <<"supply", other>>}
  <2>1. CanAccrue(maxRate) /\ SeizeTokens(other, u, tokens)
    BY <1>8 DEF Liquidate, Accrue
  <2>2. \A h \in Holders : <<"supply", h>> \notin touched => accountTokens'[h] = accountTokens[h]
    BY <1>6, <2>1
  <2>3. Hook(touched)
    BY <1>8 DEF LiquidationHook
  <2> HIDE DEF touched
  <2> QED BY <1>1, <2>1, <2>2, <2>3, SettledIsComputable, HookCovered
<1> QED
  BY Zenon, <1>2, <1>3, <1>4, <1>5, <1>7, <1>8 DEF RewardedCalls

\* A claim finds balances as they are.
LEMMA ClaimCovered ==
    ASSUME TypeOK, RewardsTypeOK, SupplyIsHeld, WorthCovered, TypeOK', RewardsTypeOK',
           UNCHANGED vars, NEW holder \in Holders, NEW sides \in SUBSET Sides, Claim(holder, sides)
    PROVE  WorthCovered'
<1> DEFINE touched == sides \X {holder}
           new == rewardState'["supply"].index
<1>1. /\ Computable(touched, totalBorrows, borrowIndex)
      /\ Distribute(touched, totalBorrows, borrowIndex)
      /\ UNCHANGED <<now, totalSupply, accountTokens>>
      /\ emitted' = emitted /\ windfall' = windfall + 0
  BY StoredIsComputable DEF Claim, vars, supplies, promises, WorthCovered
<1> HIDE DEF touched
<1>2. ASSUME NEW h \in Holders, <<"supply", h>> \notin touched
      PROVE  accountTokens'[h] * DeltaIndex("supply", h, new)
                 <= Growth(h, new) + (IF h = holder THEN 0 ELSE 0)
  <2>1. new \in Nat /\ accountIndex["supply"][h] \in Nat
    BY <1>1, DistributeSide, SupplyState DEF Sides, RewardStates
  <2>2. DeltaIndex("supply", h, new) \in Int
    BY <2>1, RewardsAssumption DEF DeltaIndex, REWARD_INITIAL_INDEX
  <2>3. accountTokens[h] * DeltaIndex("supply", h, new) \in Int
    BY <2>2, SupplyState
  <2> QED BY <1>1, <2>3 DEF Growth
<1> HIDE DEF new
<1>3. 0 \in Nat /\ (totalSupply > 0 => totalSupply' > 0)
  BY <1>1
<1> QED BY <1>1, <1>2, <1>3, DistributeCovered DEF new

\* New speeds: what was given out until now goes to the index, which begins with
\* the first speed.
LEMMA SpeedsCovered ==
    ASSUME TypeOK, RewardsTypeOK, SupplyIsHeld, WorthCovered, TypeOK', RewardsTypeOK',
           UNCHANGED vars, NEW speed \in Speeds, UpdateRewardSpeeds(speed)
    PROVE  WorthCovered'
<1> DEFINE old == rewardState["supply"].index
           new == rewardState'["supply"].index
<1>1. /\ UNCHANGED <<now, totalSupply, accountTokens, accountIndex, earned, emitted, windfall>>
      /\ Zero \in Holders /\ windfall' = windfall + 0 /\ Started'
  BY DEF vars, supplies, UpdateRewardSpeeds, promises, WorthCovered, Holders, Started, REWARD_INITIAL_INDEX
<1>2. CASE rewardState'["supply"] = rewardState["supply"]
  BY <1>1, <1>2
     DEF WorthCovered, Worth, Growth, DeltaIndex, Emission, Started, REWARD_INITIAL_INDEX
<1>3. CASE rewardState'["supply"] = SpedUp("supply", speed["supply"])
  <2>1. Emission("supply")' * DoubleScale = 0
    <3>1. rewardState'["supply"].block = now'
      BY <1>1, <1>3 DEF SpedUp
    <3>2. rewardState'["supply"].speed \in Nat /\ now' \in Nat
      BY DEF RewardsTypeOK, Sides, TypeOK
    <3> QED BY <3>1, <3>2, RewardsAssumption DEF Emission
  <2>2. /\ Ratio("supply", totalSupply) \in Nat
        /\ Ratio("supply", totalSupply) * totalSupply <= Emission("supply") * DoubleScale
        /\ old = 0 \/ totalSupply = 0 => Ratio("supply", totalSupply) = 0
        /\ new = IF old = 0 THEN REWARD_INITIAL_INDEX ELSE old + Ratio("supply", totalSupply)
    BY <1>3, RatioGiven DEF SpedUp, Notified, Shares
  <2>3. totalSupply' = 0 => new <= REWARD_INITIAL_INDEX
    BY <1>1, <2>2, SupplyState, RewardsAssumption DEF WorthCovered, REWARD_INITIAL_INDEX
  <2> DEFINE r == Ratio("supply", totalSupply)
  <2>4. r \in Nat /\ r * totalSupply \in Nat /\ (old = 0 => r = 0)
    BY <2>2, SupplyState
  <2>5. r * totalSupply + Emission("supply")' * DoubleScale <= Emission("supply") * DoubleScale
    BY <2>1, <2>2, <2>4
  <2> HIDE DEF r
  <2>6. ASSUME NEW h \in Holders
        PROVE  Worth'[h] <= Worth[h] + r * accountTokens[h] + (IF h = Zero THEN 0 ELSE 0)
    <3>1. /\ accountIndex["supply"][h] \in Nat /\ accountIndex["supply"][h] <= old
          /\ earned["supply"][h] \in Nat /\ accountTokens[h] \in Nat /\ old \in Nat
      BY SupplyState
    <3>2. /\ Growth(h, old + r) = Growth(h, old) + r * accountTokens[h]
          /\ Growth(h, old) \in Nat
      BY <2>4, DeltaMoves DEF WorthCovered
    <3>3. Growth(h, new) = Growth(h, old + r)
      <4>1. CASE old = 0
        <5>1. DeltaIndex("supply", h, new) = 0 /\ DeltaIndex("supply", h, old + r) = 0
          BY <2>2, <2>4, <3>1, <4>1, RewardsAssumption DEF DeltaIndex, REWARD_INITIAL_INDEX
        <5> QED BY <5>1 DEF Growth
      <4>2. CASE old # 0
        BY <2>2, <4>2 DEF r
      <4> QED BY <4>1, <4>2
    <3>4. Worth'[h] = earned["supply"][h] * DoubleScale + Growth(h, new)
      BY <1>1, WorthThen, DeltaIndexIsDelta DEF Growth
    <3>5. Worth[h] = earned["supply"][h] * DoubleScale + Growth(h, old)
      BY DEF Worth
    <3>6. earned["supply"][h] * DoubleScale \in Nat /\ r * accountTokens[h] \in Nat
      BY <2>4, <3>1, RewardsAssumption
    <3> HIDE DEF old, new
    <3> QED BY <3>2, <3>3, <3>4, <3>5, <3>6
  <2>7. 0 \in Nat
    OBVIOUS
  <2> HIDE DEF new, old
  <2> QED BY <1>1, <2>3, <2>4, <2>5, <2>6, <2>7, WorthMoves DEF new
<1> QED BY <1>2, <1>3 DEF UpdateRewardSpeeds, Sides

\* A block gives out what the speed says.
LEMMA BlockCovered ==
    ASSUME TypeOK, RewardsTypeOK, WorthCovered, Block,
           emitted' = emitted + rewardState["supply"].speed,
           UNCHANGED <<rewards, earned, windfall>>
    PROVE  WorthCovered'
<1> DEFINE speed == rewardState["supply"].speed
           block == rewardState["supply"].block
<1>1. /\ SumFunction(Worth)' = SumFunction(Worth) /\ UNCHANGED <<totalSupply, rewardState, accountIndex>>
      /\ now' = now + 1
  BY DEF Block, supplies, rewards, Worth, Growth, DeltaIndex, REWARD_INITIAL_INDEX
<1>2. /\ Emission("supply") = (now - block) * speed
      /\ Emission("supply")' = ((now + 1) - block) * speed
  <2>1. Emission("supply")' = (now' - rewardState'["supply"].block) * rewardState'["supply"].speed
    BY DEF Emission
  <2>2. rewardState'["supply"].block = block /\ rewardState'["supply"].speed = speed
    BY <1>1
  <2>3. Emission("supply") = (now - block) * speed
    BY DEF Emission
  <2> HIDE DEF block, speed
  <2> QED BY <1>1, <2>1, <2>2, <2>3
<1>3. speed \in Nat /\ block \in Nat /\ now \in Nat /\ emitted \in Nat /\ windfall \in Nat
      /\ SumFunction(Worth) \in Nat /\ Emission("supply") \in Nat
  BY SupplyState, WorthTypes DEF WorthCovered
<1> HIDE DEF speed, block
<1>4. Emission("supply")' = Emission("supply") + speed
  BY <1>2, <1>3
<1>5. /\ (Emission("supply") + speed) * DoubleScale = Emission("supply") * DoubleScale + speed * DoubleScale
      /\ (emitted + speed) * DoubleScale = emitted * DoubleScale + speed * DoubleScale
      /\ speed * DoubleScale \in Nat /\ Emission("supply") * DoubleScale \in Nat
      /\ emitted * DoubleScale \in Nat
  BY <1>3, RewardsAssumption
<1>6. SumFunction(Worth)' + Emission("supply")' * DoubleScale <= emitted' * DoubleScale + windfall'
  <2>1. SumFunction(Worth) + Emission("supply") * DoubleScale <= emitted * DoubleScale + windfall
    BY DEF WorthCovered
  <2>2. emitted' = emitted + speed /\ windfall' = windfall
    BY DEF speed
  <2> QED BY <1>1, <1>3, <1>4, <1>5, <2>1, <2>2
<1>7. emitted' \in Nat /\ windfall' \in Nat
  BY <1>3 DEF speed
<1> QED BY <1>1, <1>6, <1>7 DEF WorthCovered, Started, REWARD_INITIAL_INDEX

LEMMA CoveredStep ==
    TypeOK /\ RewardsTypeOK /\ SupplyIsHeld /\ TypeOK' /\ RewardsTypeOK' /\ WorthCovered
        /\ [RewardsNext]_rewardVars => WorthCovered'
<1> SUFFICES ASSUME TypeOK, RewardsTypeOK, SupplyIsHeld, TypeOK', RewardsTypeOK', WorthCovered,
                    [RewardsNext]_rewardVars
             PROVE  WorthCovered'
  OBVIOUS
<1>1. CASE RewardedCalls
  BY <1>1, CallsCovered
<1>2. CASE UNCHANGED <<supplies, now, rewardState, accountIndex, earned, promises>>
  BY <1>2 DEF supplies, promises, WorthCovered, Worth, Growth, DeltaIndex, Emission, Started,
              REWARD_INITIAL_INDEX
<1>3. CASE DistributorCalls /\ UNCHANGED vars
  <2>1. ASSUME NEW amount, GrantReward(amount) \/ Fund(amount)
        PROVE  UNCHANGED <<supplies, now, rewardState, accountIndex, earned, promises>>
    BY <1>3, <2>1 DEF GrantReward, Fund, rewards, vars
  <2> QED BY <1>2, <1>3, <2>1, SpeedsCovered, ClaimCovered DEF DistributorCalls
<1>4. CASE Block /\ emitted' = emitted + rewardState["supply"].speed
           /\ UNCHANGED <<rewards, earned, windfall>>
  BY <1>4, BlockCovered
<1>5. AdminCalls \/ AccrueInterest => UNCHANGED <<supplies, now>>
  BY DEF AdminCalls, AddReserves, ReduceReserves, SetReserveFactor, SetInterestRateModel,
         UpdateJumpRateModel, SetBorrowRateMaxMantissa, AccrueInterest
<1> QED
  BY <1>1, <1>2, <1>3, <1>4, <1>5 DEF RewardsNext, UnchangedRewards, rewards, rewardVars, vars

LEMMA CoveredBegins == RewardsInit => WorthCovered
<1> SUFFICES ASSUME RewardsInit PROVE WorthCovered
  OBVIOUS
<1>1. /\ DOMAIN Worth = Holders /\ emitted = 0 /\ windfall = 0 /\ now = 0
      /\ rewardState["supply"] = [speed |-> 0, index |-> 0, block |-> 0]
      /\ \A h \in Holders : /\ accountIndex["supply"][h] = 0 /\ accountTokens[h] = 0
                            /\ earned["supply"][h] = 0
  BY DEF RewardsInit, Init, Worth, Sides
<1>2. \A h \in Holders : Worth[h] = 0
  <2> TAKE h \in Holders
  <2>1. DeltaIndex("supply", h, 0) = 0
    BY <1>1, RewardsAssumption DEF DeltaIndex, REWARD_INITIAL_INDEX
  <2> QED BY <1>1, <2>1, RewardsAssumption DEF Worth, Growth
<1>3. SumFunction(Worth) = 0
  BY <1>1, <1>2, FiniteHolders, SumZero DEF SumFunction
<1>4. Emission("supply") * DoubleScale = 0 /\ emitted * DoubleScale = 0
  BY <1>1, RewardsAssumption DEF Emission
<1> QED BY <1>1, <1>3, <1>4, RewardsAssumption DEF WorthCovered, Started, REWARD_INITIAL_INDEX

LEMMA CoveredIsEnough == TypeOK /\ RewardsTypeOK /\ WorthCovered => RewardsCovered
<1> SUFFICES ASSUME TypeOK, RewardsTypeOK, WorthCovered PROVE RewardsCovered
  OBVIOUS
<1> DEFINE credits == earned["supply"]
<1>1. /\ credits \in [Holders -> Nat] /\ credits \in [Holders -> Int]
      /\ DoubleScale \in Nat /\ Emission("supply") \in Nat
  BY SupplyState, RewardsAssumption DEF RewardsTypeOK, Sides
<1>2. Worth \in [Holders -> Int] /\ SumFunction(Worth) \in Nat
  BY WorthTypes DEF WorthCovered
<1>3. \A h \in Holders : DoubleScale * credits[h] <= Worth[h]
  <2> TAKE h \in Holders
  <2>1. Growth(h, rewardState["supply"].index) \in Nat
    BY WorthTypes, SupplyState DEF WorthCovered
  <2>2. Worth[h] = credits[h] * DoubleScale + Growth(h, rewardState["supply"].index)
    BY DEF Worth
  <2>3. credits[h] * DoubleScale = DoubleScale * credits[h] /\ credits[h] * DoubleScale \in Nat
    BY <1>1
  <2> QED BY <2>1, <2>2, <2>3
<1> HIDE DEF credits
<1>4. DoubleScale * SumFunction(credits) <= SumFunction(Worth)
  BY <1>1, <1>2, <1>3, FiniteHolders, SumScaled
<1>5. SumFunction(credits) \in Nat
  BY <1>1, FiniteHolders, SumOfNat
<1>6. DoubleScale * SumFunction(credits) = SumFunction(credits) * DoubleScale
      /\ DoubleScale * SumFunction(credits) \in Nat
  BY <1>1, <1>5
<1>7. Emission("supply") * DoubleScale \in Nat /\ emitted * DoubleScale \in Nat /\ windfall \in Nat
  BY <1>1 DEF WorthCovered
<1> QED BY <1>2, <1>4, <1>6, <1>7 DEF WorthCovered, RewardsCovered, credits

\* Suppliers are credited with no more than the speeds gave out, ...
THEOREM SuppliersGetNoMore == RewardsSpec => []RewardsCovered
<1>1. TypeOK /\ RewardsTypeOK /\ SupplyIsHeld /\ TypeOK' /\ RewardsTypeOK' /\ WorthCovered
          /\ [RewardsNext]_rewardVars => WorthCovered'
  BY CoveredStep
<1>2. Counted => TypeOK
  BY DEF Counted
<1>3. TypeOK /\ SupplyIsHeld /\ TypeOK' /\ [Next]_vars => SupplyIsHeld'
  BY StepHeld
<1>4. Counted /\ [RewardsNext]_rewardVars => [Next]_vars
  BY RewardsStep
<1>5. RewardsInit => SupplyIsHeld
  BY InitHeld DEF RewardsInit
<1>6. TypeOK /\ RewardsTypeOK /\ WorthCovered => RewardsCovered
  BY CoveredIsEnough
<1> QED BY <1>1, <1>2, <1>3, <1>4, <1>5, <1>6, CoveredBegins, RewardsTypes, RewardsCount, PTL
        DEF RewardsSpec
=============================================================================
