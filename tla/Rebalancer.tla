----------------------------- MODULE Rebalancer ------------------------------
(***************************************************************************)
(* Rebalancer.sol with the two bridges it may hand liquidity to,           *)
(* AcrossBridge.sol and EverclearBridge.sol, on one source chain.          *)
(*                                                                         *)
(* A lane is a pair <<destination, token>>: limits and the running total   *)
(* of the current time window are kept per lane.  Time is block.timestamp. *)
(* SendMsg is the whole transaction: the Rebalancer's checks, the          *)
(* extraction from the market and the bridge's own checks and transfers.   *)
(* Not modelled: the ether forwarded to the bridge (saveEth), the intent's *)
(* fields other than its amount, and the roles, which one account each     *)
(* holds.  Across' SpokePool and Everclear's fee adapter pull from the     *)
(* bridge what it approved.                                                *)
(***************************************************************************)
EXTENDS Integers, Sequences, Functions, FiniteSetsExt

CONSTANTS
    Dsts,             \* destination chain ids
    Markets,          \* markets and gateways of the source chain
    Underlying,       \* Underlying[m]: the token of market m
    TransferWindow,   \* transferTimeWindow
    MaxSlippage, SlippagePrecision,  \* AcrossBridge.maxSlippage, SLIPPAGE_PRECISION
    Amounts,          \* amounts a call may name
    MinSizes, MaxSizes,  \* limits the guardian may set (0: no maximum)
    MaxTime,          \* bound on the clock
    MaxSends,         \* bound on the transfers sent
    MarketFunds,      \* what each market holds at first
    StrayFunds        \* bound: tokens anyone sent to EverclearBridge

VARIABLES
    now,
    whitelistedBridges, whitelistedDestinations, allowedList,
    whitelistedRelayers,     \* AcrossBridge: destinations with a relayer
    minTransferSizes, maxTransferSizes,
    currentTransferSize,     \* per lane, size and timestamp of the window
    logs,                    \* the messages sent, with what was moved and
                             \* the maximum in force; nonce is their number
    marketBalance, rebalancerBalance, everclearBalance, bridged

config == <<whitelistedBridges, whitelistedDestinations, allowedList, whitelistedRelayers,
            minTransferSizes, maxTransferSizes>>
money == <<marketBalance, rebalancerBalance, everclearBalance, bridged>>
vars == <<now, config, currentTransferSize, logs, money>>

Bridges == {"Across", "Everclear"}
Tokens == {Underlying[m] : m \in Markets}
Lanes == Dsts \X Tokens

ASSUME RebalancerAssumption ==
    /\ TransferWindow \in Nat /\ MaxTime \in Nat /\ MaxSends \in Nat
    /\ MarketFunds \in Nat /\ StrayFunds \in Nat
    /\ Amounts \subseteq Nat /\ MinSizes \subseteq Nat /\ MaxSizes \subseteq Nat

\* Lanes, limits and balances keep their types: no balance is overdrawn.
TypeOK ==
    /\ now \in Nat
    /\ whitelistedBridges \subseteq Bridges
    /\ whitelistedDestinations \subseteq Dsts
    /\ allowedList \subseteq Markets
    /\ whitelistedRelayers \subseteq Dsts
    /\ minTransferSizes \in [Lanes -> Nat]
    /\ maxTransferSizes \in [Lanes -> Nat]
    /\ currentTransferSize \in [Lanes -> [size : Nat, timestamp : Nat]]
    /\ marketBalance \in [Markets -> Nat]
    /\ \A f \in {rebalancerBalance, everclearBalance, bridged} : f \in [Tokens -> Nat]
    /\ logs \in Seq([bridge : Bridges, lane : Lanes, amount : Nat, at : Nat, max : Nat])

\* Deployed long after the epoch, so the first window of a lane is over.
Init ==
    /\ now = TransferWindow + 1
    /\ whitelistedBridges = {} /\ whitelistedDestinations = {} /\ allowedList = {}
    /\ whitelistedRelayers = {}
    /\ minTransferSizes = [l \in Lanes |-> 0]
    /\ maxTransferSizes = [l \in Lanes |-> 0]
    /\ currentTransferSize = [l \in Lanes |-> [size |-> 0, timestamp |-> 0]]
    /\ logs = <<>>
    /\ marketBalance = [m \in Markets |-> MarketFunds]
    /\ rebalancerBalance = [t \in Tokens |-> 0]
    /\ everclearBalance = [t \in Tokens |-> 0]
    /\ bridged = [t \in Tokens |-> 0]

(***************************************************************************)
(* Settings, by GUARDIAN_BRIDGE                                            *)
(***************************************************************************)
Toggled(set, x, status) == IF status THEN set \cup {x} ELSE set \ {x}

SetAllowList(market, status) ==
    /\ allowedList' = Toggled(allowedList, market, status)
    /\ UNCHANGED <<whitelistedBridges, whitelistedDestinations, whitelistedRelayers,
                   minTransferSizes, maxTransferSizes>>

SetWhitelistedBridgeStatus(bridge, status) ==
    /\ whitelistedBridges' = Toggled(whitelistedBridges, bridge, status)
    /\ UNCHANGED <<whitelistedDestinations, allowedList, whitelistedRelayers,
                   minTransferSizes, maxTransferSizes>>

SetWhitelistedDestination(dst, status) ==
    /\ whitelistedDestinations' = Toggled(whitelistedDestinations, dst, status)
    /\ UNCHANGED <<whitelistedBridges, allowedList, whitelistedRelayers,
                   minTransferSizes, maxTransferSizes>>

SetWhitelistedRelayer(dst, status) ==
    /\ whitelistedRelayers' = Toggled(whitelistedRelayers, dst, status)
    /\ UNCHANGED <<whitelistedBridges, whitelistedDestinations, allowedList,
                   minTransferSizes, maxTransferSizes>>

SetMinTransferSize(lane, limit) ==
    /\ minTransferSizes' = [minTransferSizes EXCEPT ![lane] = limit]
    /\ UNCHANGED <<whitelistedBridges, whitelistedDestinations, allowedList,
                   whitelistedRelayers, maxTransferSizes>>

SetMaxTransferSize(lane, limit) ==
    /\ maxTransferSizes' = [maxTransferSizes EXCEPT ![lane] = limit]
    /\ UNCHANGED <<whitelistedBridges, whitelistedDestinations, allowedList,
                   whitelistedRelayers, minTransferSizes>>

(***************************************************************************)
(* sendMsg                                                                 *)
(***************************************************************************)
WindowOver(lane) == currentTransferSize[lane].timestamp + TransferWindow < now

\* The lane's window once amount is added to it.
WindowAfter(lane, amount) ==
    IF WindowOver(lane)
    THEN [size |-> amount, timestamp |-> now]
    ELSE [currentTransferSize[lane] EXCEPT !.size = @ + amount]

UnderMaximumAlone(lane, amount) ==   \* mutant
    maxTransferSizes[lane] > 0 => amount < maxTransferSizes[lane]

\* The maximum is checked with the size read before the window was renewed.
UnderMaximum(lane, amount) ==
    maxTransferSizes[lane] > 0
        => currentTransferSize[lane].size + amount < maxTransferSizes[lane]

\* The Rebalancer's own checks.
Admitted(bridge, market, amount, dst) ==
    LET lane == <<dst, Underlying[market]>>
    IN  /\ bridge \in whitelistedBridges
        /\ dst \in whitelistedDestinations
        /\ amount > minTransferSizes[lane]
        /\ UnderMaximum(lane, amount)
        /\ market \in allowedList
        /\ marketBalance[market] >= amount

AcrossPullsOutput(market, amount, dst, output) ==   \* mutant
    LET token == Underlying[market]
    IN  /\ dst \in whitelistedRelayers
        /\ (amount - output) * SlippagePrecision <= amount * MaxSlippage
        /\ marketBalance' = [marketBalance EXCEPT ![market] = @ - amount]
        /\ rebalancerBalance' = [rebalancerBalance EXCEPT ![token] = @ + amount - output]
        /\ bridged' = [bridged EXCEPT ![token] = @ + output]
        /\ UNCHANGED everclearBalance

\* AcrossBridge.sendMsg: pulls inputAmount, which must be all that was
\* extracted, and deposits it; the relayer is to pay output.
Across(market, amount, dst, output) ==
    /\ dst \in whitelistedRelayers
    /\ (amount - output) * SlippagePrecision <= amount * MaxSlippage
    /\ marketBalance' = [marketBalance EXCEPT ![market] = @ - amount]
    /\ bridged' = [bridged EXCEPT ![Underlying[market]] = @ + amount]
    /\ UNCHANGED <<rebalancerBalance, everclearBalance>>

\* EverclearBridge.sendMsg: returns to the market what the intent does not
\* need and sends the intent, both out of the bridge's own balance: what was
\* extracted stays with the Rebalancer.
Everclear(market, amount, intent) ==
    LET token == Underlying[market]
    IN  /\ intent <= amount
        /\ everclearBalance[token] >= amount
        /\ everclearBalance' = [everclearBalance EXCEPT ![token] = @ - amount]
        /\ rebalancerBalance' = [rebalancerBalance EXCEPT ![token] = @ + amount]
        /\ marketBalance' = [marketBalance EXCEPT ![market] = @ - intent]
        /\ bridged' = [bridged EXCEPT ![token] = @ + intent]

\* named is the amount the message names: Across' outputAmount, Everclear's
\* intent amount.
SendMsg(bridge, market, amount, dst, named) ==
    LET lane == <<dst, Underlying[market]>>
    IN  /\ Admitted(bridge, market, amount, dst)
        /\ Len(logs) < MaxSends
        /\ currentTransferSize' =
             [currentTransferSize EXCEPT ![lane] = WindowAfter(lane, amount)]
        /\ logs' = Append(logs, [bridge |-> bridge, lane |-> lane, amount |-> amount,
                                 at |-> now, max |-> maxTransferSizes[lane]])
        /\ \/ bridge = "Across" /\ Across(market, amount, dst, named)
           \/ bridge = "Everclear" /\ Everclear(market, amount, named)
        /\ UNCHANGED <<now, config>>

(***************************************************************************)
(* The environment                                                         *)
(***************************************************************************)
Tick ==
    /\ now < MaxTime
    /\ now' = now + 1
    /\ UNCHANGED <<config, currentTransferSize, logs, money>>

\* Anyone may send tokens to EverclearBridge, which nobody can take back.
SendStray(token) ==
    /\ everclearBalance[token] < StrayFunds
    /\ everclearBalance' = [everclearBalance EXCEPT ![token] = @ + 1]
    /\ UNCHANGED <<now, config, currentTransferSize, logs, marketBalance,
                   rebalancerBalance, bridged>>

SetConfig ==
    /\ \/ \E m \in Markets, s \in BOOLEAN : SetAllowList(m, s)
       \/ \E b \in Bridges, s \in BOOLEAN : SetWhitelistedBridgeStatus(b, s)
       \/ \E d \in Dsts, s \in BOOLEAN :
            SetWhitelistedDestination(d, s) \/ SetWhitelistedRelayer(d, s)
       \/ \E l \in Lanes, limit \in MinSizes : SetMinTransferSize(l, limit)
       \/ \E l \in Lanes, limit \in MaxSizes : SetMaxTransferSize(l, limit)
    /\ UNCHANGED <<now, currentTransferSize, logs, money>>

Next ==
    \/ SetConfig
    \/ \E b \in Bridges, m \in Markets, a, named \in Amounts, d \in Dsts :
         SendMsg(b, m, a, d, named)
    \/ \E t \in Tokens : SendStray(t)
    \/ Tick

Spec == Init /\ [][Next]_vars

-----------------------------------------------------------------------------
Total(kept) == SumFunctionOnSet([i \in DOMAIN logs |-> logs[i].amount], kept)

\* The transfers on a lane, sent under a maximum, in the window that starts
\* at t.
Capped(lane, t) ==
    {i \in DOMAIN logs : /\ logs[i].lane = lane
                         /\ logs[i].max > 0
                         /\ logs[i].at \in t .. t + TransferWindow}

\* In ANY interval of the length of a window, not only from reset to reset,
\* the capped transfers of a lane stay below twice the largest maximum that
\* was in force (Rebalancer.sendMsg: two windows at most overlap it).
SlidingBound ==
    \A lane \in Lanes : \A i \in DOMAIN logs :
        LET sent == Capped(lane, logs[i].at)
        IN  sent # {} => Total(sent) < 2 * Max({logs[k].max : k \in sent})

\* What is left on the Rebalancer is exactly what went out by Everclear:
\* Across takes everything that sendMsg extracted.
OnlyEverclearStrands ==
    \A t \in Tokens :
        rebalancerBalance[t] =
            Total({i \in DOMAIN logs : logs[i].bridge = "Everclear" /\ logs[i].lane[2] = t})

\* The maximum is one "per-calendar day" (audit, V-MLD-VUL-012): once a
\* lane's window is over, a transfer below the maximum can be sent.
FreshWindowAccepts ==
    \A m \in Markets, d \in Dsts, a \in Amounts :
        LET lane == <<d, Underlying[m]>>
        IN  /\ WindowOver(lane)
            /\ "Across" \in whitelistedBridges
            /\ d \in whitelistedDestinations \cap whitelistedRelayers
            /\ m \in allowedList
            /\ marketBalance[m] >= a
            /\ Len(logs) < MaxSends
            /\ minTransferSizes[lane] < a /\ a < maxTransferSizes[lane]
            => ENABLED SendMsg("Across", m, a, d, a)
=============================================================================
