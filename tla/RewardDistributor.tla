-------------------------- MODULE RewardDistributor --------------------------
(***************************************************************************)
(* RewardDistributor.sol for one reward token and one market, composed     *)
(* with MTokenMarket: the Operator's hooks notify it within the calls of   *)
(* the market, once interest is settled and before a balance moves.        *)
(* Each side of the market (its supply, its borrows) has an index of what  *)
(* a share has earned since rewards began; an account is credited with     *)
(* what the index has grown since it was last notified.                    *)
(*                                                                         *)
(* Abstracted: other reward tokens and markets, each of which has indices  *)
(* of its own; only rewardAccrued and funds are shared by markets.  A list *)
(* of holders claims like one after the other in a block.                  *)
(***************************************************************************)
EXTENDS MTokenMarket

CONSTANTS
    DoubleScale,     \* 1e36
    Speeds,          \* pairs of reward speeds the owner may set
    Funds            \* reward tokens that are sent to the distributor

Sides == {"supply", "borrow"}

ASSUME RewardsAssumption ==
    /\ DoubleScale \in Nat \ {0}
    /\ Speeds \subseteq [Sides -> Nat] /\ Funds \subseteq Nat

REWARD_INITIAL_INDEX == DoubleScale

VARIABLES
    rewardState,    \* rewardMarketState, per side: [speed, index, block]
    accountIndex,   \* supplierIndex and borrowerIndex, per side and account
    rewardAccrued,
    funds,          \* reward tokens the distributor owns
    rewardCalls,    \* how many calls of the distributor there were
    earned,         \* history: what an account was credited with, per side
    paid,           \* history: what it was paid of it
    emitted,        \* history: what the supply's speed gave out as blocks went by
    windfall        \* history: ... and mTokens earn for when they were not minted yet,
                    \* in units of 1 / DoubleScale

rewards == <<rewardState, accountIndex, rewardAccrued>>
payments == <<funds, paid>>
promises == <<emitted, windfall>>
rewardVars == <<vars, rewards, payments, rewardCalls, earned, promises>>

RewardsInit ==
    /\ Init
    /\ rewardState = [s \in Sides |-> [speed |-> 0, index |-> 0, block |-> 0]]
    /\ accountIndex = [s \in Sides |-> [h \in Holders |-> 0]]
    /\ rewardAccrued = [h \in Holders |-> 0]
    /\ funds = 0 /\ rewardCalls = 0
    /\ earned = [s \in Sides |-> [h \in Holders |-> 0]] /\ paid = [h \in Holders |-> 0]
    /\ emitted = 0 /\ windfall = 0

------------------------------------------------------------------------------
(* Indices.  Total borrows and the borrow index are arguments: a hook finds *)
(* them settled, a call of the distributor as they were last stored.        *)
Shares(side, borrows, index) ==
    IF side = "supply" THEN totalSupply ELSE (borrows * Scale) \div index

SharesOf(side, h, index) ==
    IF side = "supply" THEN accountTokens[h]
    ELSE IF h \in Users THEN (BalanceAt(h, index) * Scale) \div index ELSE 0

Emission(side) == (now - rewardState[side].block) * rewardState[side].speed

\* What one share gets of it.
Ratio(side, shares) ==
    IF shares > 0 THEN (Emission(side) * DoubleScale) \div shares ELSE 0

NotifiedWithoutBlock(side, shares) ==   \* mutant
    [rewardState[side] EXCEPT !.index = @ + Ratio(side, shares)]

\* _notifySupplyIndex, _notifyBorrowIndex.
Notified(side, shares) ==
    [speed |-> rewardState[side].speed, index |-> rewardState[side].index + Ratio(side, shares),
     block |-> now]

\* An account that was never notified is owed from the start of rewards.
DeltaIndex(side, h, index) ==
    IF accountIndex[side][h] = 0 /\ index >= REWARD_INITIAL_INDEX
    THEN index - REWARD_INITIAL_INDEX ELSE index - accountIndex[side][h]

\* What an account earns with its shares, up to an index.
Earnings(side, h, shares, index) == (shares * DeltaIndex(side, h, index)) \div DoubleScale

\* Notify some sides, and some accounts of theirs (_notifySupplier and
\* _notifyBorrower).
Distribute(touched, borrows, index) ==
    /\ rewardState' = [s \in Sides |->
           IF \E h \in Holders : <<s, h>> \in touched
           THEN Notified(s, Shares(s, borrows, index)) ELSE rewardState[s]]
    /\ accountIndex' = [s \in Sides |-> [h \in Holders |->
           IF <<s, h>> \in touched THEN rewardState'[s].index ELSE accountIndex[s][h]]]
    /\ earned' = [s \in Sides |-> [h \in Holders |->
           IF <<s, h>> \in touched
           THEN earned[s][h] + Earnings(s, h, SharesOf(s, h, index), rewardState'[s].index)
           ELSE earned[s][h]]]

\* rewardAccrued of h with what it is credited with in this step.
Credited(h) == rewardAccrued[h] + earned'["supply"][h] - earned["supply"][h]
                                + earned'["borrow"][h] - earned["borrow"][h]

------------------------------------------------------------------------------
(* The Operator's hooks in the calls of the market.                         *)
Hook(touched) ==
    /\ Distribute(touched, BorrowsNew, IndexNew)
    /\ rewardAccrued' = [h \in Holders |-> Credited(h)]
    /\ UNCHANGED <<payments, rewardCalls, promises>>

\* The minter is notified.  Another account that receives the mTokens is not,
\* and they count as if it had had them since it was last.
MintHook(minter, receiver) ==
    LET gained == accountTokens'[receiver] - accountTokens[receiver]
        since == DeltaIndex("supply", receiver, rewardState'["supply"].index)
    IN  /\ Distribute({<<"supply", minter>>}, BorrowsNew, IndexNew)
        /\ rewardAccrued' = [h \in Holders |-> Credited(h)]
        /\ windfall' = windfall + (IF receiver = minter THEN 0 ELSE gained * since)
        /\ UNCHANGED <<payments, rewardCalls, emitted>>

TransferHookForSender(src, dst) == Hook({<<"supply", src>>})   \* mutant

TransferHook(src, dst) == Hook({"supply"} \X {src, dst})

\* beforeMTokenRepay, then beforeMTokenSeize.
LiquidationHook(liquidator, borrower) ==
    Hook({<<"borrow", borrower>>, <<"supply", borrower>>, <<"supply", liquidator>>})

MintFor(minter, receiver) ==
    \E n \in Amounts, min \in MinAmounts : Mint(receiver, n, min) /\ MintHook(minter, receiver)

RewardedCalls ==
    \/ \E u \in Users, receiver \in Holders : MintFor(u, receiver)
    \/ \E u \in Users, n \in Amounts :
        \/ (Redeem(u, n) \/ RedeemUnderlying(u, n)) /\ Hook({<<"supply", u>>})
        \/ (Borrow(u, n) \/ Repay(u, n) \/ Repay(u, MaxUint)) /\ Hook({<<"borrow", u>>})
        \/ \E dst \in Holders : Transfer(u, dst, n) /\ TransferHook(u, dst)
        \/ \E other \in Users :
             \/ Seize(other, u, n) /\ Hook({"supply"} \X {u, other})
             \/ \E tokens \in Amounts : Liquidate(other, u, n, tokens) /\ LiquidationHook(other, u)

------------------------------------------------------------------------------
(* Calls of the distributor itself, which settle no interest.               *)
NothingLeft(amount) == 0   \* mutant

\* _grantReward pays all of the amount or, without the funds for it, none; it
\* returns what is left.
Left(amount) == IF amount <= funds THEN 0 ELSE amount
Granted(amount) == IF amount <= funds THEN amount ELSE 0

\* Operator.claimMalda notifies h on the sides asked for, and claims what it
\* is owed then; RewardDistributor.claim only claims (no sides).
Claim(h, sides) ==
    /\ Distribute(sides \X {h}, totalBorrows, borrowIndex)
    /\ rewardAccrued' = [rewardAccrued EXCEPT ![h] = Left(Credited(h))]
    /\ funds' = funds - Granted(Credited(h))
    /\ paid' = [paid EXCEPT ![h] = @ + Granted(Credited(h))]
    /\ UNCHANGED promises

\* grantReward: the owner gives from the same funds.
GrantReward(amount) ==
    /\ funds' = funds - Granted(amount)
    /\ UNCHANGED <<rewards, paid, earned, promises>>

SpedUpAnew(side, speed) ==   \* mutant
    [speed |-> speed, index |-> REWARD_INITIAL_INDEX, block |-> now]

\* _updateRewardSpeed of a side: its index begins with the first speed.
SpedUp(side, speed) ==
    LET notified == Notified(side, Shares(side, totalBorrows, borrowIndex))
    IN  [speed |-> speed, block |-> now,
         index |-> IF rewardState[side].index = 0 THEN REWARD_INITIAL_INDEX ELSE notified.index]

UpdateRewardSpeeds(speed) ==
    LET changed == {s \in Sides : rewardState[s].speed # speed[s]}
    IN  /\ rewardState' = [s \in Sides |-> IF s \in changed THEN SpedUp(s, speed[s])
                                                           ELSE rewardState[s]]
        /\ UNCHANGED <<accountIndex, rewardAccrued, payments, earned, promises>>

\* Reward tokens are sent to the distributor.
Fund(amount) ==
    /\ funds' = funds + amount
    /\ UNCHANGED <<rewards, paid, earned, promises>>

DistributorCalls ==
    \/ \E h \in Holders, sides \in SUBSET Sides : Claim(h, sides)
    \/ \E n \in Funds : GrantReward(n) \/ Fund(n)
    \/ \E speed \in Speeds : UpdateRewardSpeeds(speed)

UnchangedRewards == UNCHANGED <<rewards, payments, rewardCalls, earned, promises>>

RewardsNext ==
    \/ /\ calls + rewardCalls < MaxCalls /\ calls' = calls + 1
       /\ RewardedCalls \/ (AdminCalls /\ UnchangedRewards)
    \/ AccrueInterest /\ UnchangedRewards
    \/ /\ Block
       /\ emitted' = emitted + rewardState["supply"].speed
       /\ UNCHANGED <<rewards, payments, rewardCalls, earned, windfall>>
    \/ /\ calls + rewardCalls < MaxCalls /\ rewardCalls' = rewardCalls + 1
       /\ DistributorCalls /\ UNCHANGED vars

RewardsSpec == RewardsInit /\ [][RewardsNext]_rewardVars

------------------------------------------------------------------------------
\* No reward goes below zero, and no account's index runs ahead of its side's:
\* the difference, which an account is credited for, never underflows
\* (RewardDistributor.sol:376 and 421).
RewardsTypeOK ==
    /\ rewardState \in [Sides -> [speed : Nat, index : Nat, block : Nat]]
    /\ accountIndex \in [Sides -> [Holders -> Nat]]
    /\ rewardAccrued \in [Holders -> Nat] /\ funds \in Nat
    /\ earned \in [Sides -> [Holders -> Nat]] /\ paid \in [Holders -> Nat]
    /\ \A s \in Sides :
        /\ rewardState[s].block <= now
        /\ rewardState[s].index >= REWARD_INITIAL_INDEX \/ rewardState[s].index + rewardState[s].speed = 0
        /\ \A h \in Holders : accountIndex[s][h] <= rewardState[s].index

\* Suppliers are credited with no more than the speeds gave out, whatever is
\* minted, moved, seized and claimed and however speeds change in between,
\* except for mTokens that another account minted for them: these earn for
\* the time before them, too (Operator.sol:786).
RewardsCovered ==
    SumFunction(earned["supply"]) * DoubleScale <= emitted * DoubleScale + windfall

\* What an account was credited with, it was paid or still has: a claim that
\* the funds do not suffice for loses nothing and pays nothing twice.
EarnedIsKept ==
    \A h \in Holders :
        earned["supply"][h] + earned["borrow"][h] = rewardAccrued[h] + paid[h]

\* What u has earned by its mTokens, the time since it was notified included.
Entitled(u) ==
    earned["supply"][u]
        + Earnings("supply", u, accountTokens[u], Notified("supply", totalSupply).index)

\* Within a block no call changes what a supplier has earned until then: each
\* is notified before its balance, the supply or the speed changes.  Only
\* mTokens that another minted for it add to it.
CallsKeepEarnings ==
    [][ now' = now => \A u \in Users :
            \/ Entitled(u)' = Entitled(u)
            \/ Entitled(u)' > Entitled(u) /\ \E v \in Users \ {u} : MintFor(v, u) ]_rewardVars
=============================================================================
