---------------------------- MODULE OutflowLimit -----------------------------
(***************************************************************************)
(* The Operator's outflow volume limit.  mErc20Host asks                   *)
(* checkOutflowVolumeLimit before it credits a batch of deposits           *)
(* (mintExternal, repayExternal, with the batch's sum) and before it lets  *)
(* a withdrawal or borrow out (performExtensionCall).  A call that fails,  *)
(* in the check or after it, reverts the counter with everything else, so  *)
(* a step is a call that succeeds.  Time is block.timestamp, and a price   *)
(* is the oracle's for one unit of a market's underlying.                  *)
(***************************************************************************)
EXTENDS Integers, Sequences, Functions, FiniteSetsExt

CONSTANTS
    Markets,       \* listed markets
    Amounts,       \* amounts a call may name
    Prices,        \* prices the oracle may answer
    UsdScale,      \* price units in one unit of the limit
    Limits,        \* values the owner may give the limit (0: no limit)
    Windows,       \* values the owner may give the time window
    FirstWindow,   \* the window initialize sets
    MaxTime,       \* bound on the clock
    MaxCalls,      \* bound on the limited calls
    MaxResets      \* bound on the owner's resets

VARIABLES
    now, price,
    cumulativeOutflowVolume, lastOutflowResetTimestamp,
    outflowResetTimeWindow, limitPerTimePeriod,
    accepted,      \* history: the limited calls, with USD value, time, limit
    resets,        \* history: the times of the owner's resets
    shortest       \* history: the shortest time window so far

settings == <<outflowResetTimeWindow, limitPerTimePeriod>>
history == <<accepted, resets, shortest>>
vars == <<now, price, cumulativeOutflowVolume, lastOutflowResetTimestamp, settings, history>>

ASSUME OutflowAssumption ==
    /\ UsdScale \in Nat \ {0} /\ FirstWindow \in Nat
    /\ Prices \subseteq Nat /\ Amounts \subseteq Nat
    /\ Limits \subseteq Nat /\ IsFiniteSet(Limits)   \* a uint256
    /\ Windows \subseteq Nat /\ MaxTime \in Nat /\ MaxCalls \in Nat /\ MaxResets \in Nat

\* The window never starts in the future, and what is counted in it fits the
\* largest limit there is.
TypeOK ==
    /\ now \in Nat
    /\ price \in [Markets -> Prices]
    /\ cumulativeOutflowVolume \in 0 .. Max(Limits \cup {0})
    /\ lastOutflowResetTimestamp \in 0 .. now
    /\ outflowResetTimeWindow \in Windows \cup {FirstWindow}
    /\ limitPerTimePeriod \in Limits \cup {0}

\* Operator.initialize, at time 0.
Init ==
    /\ now = 0
    /\ price \in [Markets -> Prices]
    /\ cumulativeOutflowVolume = 0
    /\ lastOutflowResetTimestamp = 0
    /\ outflowResetTimeWindow = FirstWindow
    /\ limitPerTimePeriod = 0
    /\ accepted = <<>>
    /\ resets = <<>>
    /\ shortest = FirstWindow

\* _convertMarketAmountToUSDValue, which rounds down.
ToUSD(amount, market) == (amount * price[market]) \div UsdScale

WindowOver == now > lastOutflowResetTimestamp + outflowResetTimeWindow

BaseStale == cumulativeOutflowVolume   \* mutant

\* What the new amount is added to: the window is renewed first.
Base == IF WindowOver THEN 0 ELSE cumulativeOutflowVolume

RenewedAtDeadline ==   \* mutant
    IF WindowOver THEN now + outflowResetTimeWindow ELSE lastOutflowResetTimestamp

Renewed == IF WindowOver THEN now ELSE lastOutflowResetTimestamp

FitsAlone(amount, market) == ToUSD(amount, market) <= limitPerTimePeriod   \* mutant

Fits(amount, market) == Base + ToUSD(amount, market) <= limitPerTimePeriod

\* checkOutflowVolumeLimit in a call that succeeds.
CheckOutflowVolumeLimit(market, amount) ==
    /\ limitPerTimePeriod > 0
    /\ Len(accepted) < MaxCalls
    /\ price[market] # 0
    /\ Fits(amount, market)
    /\ cumulativeOutflowVolume' = Base + ToUSD(amount, market)
    /\ lastOutflowResetTimestamp' = Renewed
    /\ accepted' = Append(accepted, [usd |-> ToUSD(amount, market), at |-> now,
                                     limit |-> limitPerTimePeriod])
    /\ UNCHANGED <<now, price, settings, resets, shortest>>

SetOutflowVolumeTimeWindow(window) ==
    /\ outflowResetTimeWindow' = window
    /\ shortest' = Min({shortest, window})
    /\ UNCHANGED <<now, price, cumulativeOutflowVolume, lastOutflowResetTimestamp,
                   limitPerTimePeriod, accepted, resets>>

SetOutflowTimeLimitInUSD(limit) ==
    /\ limitPerTimePeriod' = limit
    /\ UNCHANGED <<now, price, cumulativeOutflowVolume, lastOutflowResetTimestamp,
                   outflowResetTimeWindow, history>>

\* The counter is cleared; the window keeps the time it started.
ResetOutflowVolume ==
    /\ Len(resets) < MaxResets
    /\ cumulativeOutflowVolume' = 0
    /\ resets' = Append(resets, now)
    /\ UNCHANGED <<now, price, lastOutflowResetTimestamp, settings, accepted, shortest>>

PriceMoves(market, p) ==
    /\ price' = [price EXCEPT ![market] = p]
    /\ UNCHANGED <<now, cumulativeOutflowVolume, lastOutflowResetTimestamp, settings, history>>

Tick ==
    /\ now < MaxTime
    /\ now' = now + 1
    /\ UNCHANGED <<price, cumulativeOutflowVolume, lastOutflowResetTimestamp, settings, history>>

Next ==
    \/ \E m \in Markets, a \in Amounts : CheckOutflowVolumeLimit(m, a)
    \/ \E w \in Windows : SetOutflowVolumeTimeWindow(w)
    \/ \E l \in Limits : SetOutflowTimeLimitInUSD(l)
    \/ ResetOutflowVolume
    \/ \E m \in Markets, p \in Prices : PriceMoves(m, p)
    \/ Tick

Spec == Init /\ [][Next]_vars

-----------------------------------------------------------------------------
\* In ANY interval as long as the shortest time window, not only from reset
\* to reset, the limited calls move at most two limits' worth, and one more
\* for each time the owner reset the counter in it (two windows overlap an
\* interval; resetOutflowVolume does not move the window).
SlidingOutflowBound ==
    \A i \in DOMAIN accepted :
        LET start == accepted[i].at
            within == {k \in DOMAIN accepted : accepted[k].at \in start .. start + shortest}
            total == SumFunctionOnSet([k \in DOMAIN accepted |-> accepted[k].usd], within)
            largest == Max({accepted[k].limit : k \in within})
            manual == {k \in DOMAIN resets : resets[k] \in start .. start + shortest}
        IN  total <= (2 + Cardinality(manual)) * largest

\* Once the window is over, a call that fits the limit by itself goes
\* through, whatever earlier windows used up: the limit delays deposits and
\* repayments by a window at most.
LimitReopens ==
    \A m \in Markets, a \in Amounts :
        /\ limitPerTimePeriod > 0
        /\ WindowOver
        /\ Len(accepted) < MaxCalls
        /\ price[m] # 0
        /\ ToUSD(a, m) <= limitPerTimePeriod
        => ENABLED CheckOutflowVolumeLimit(m, a)
=============================================================================
