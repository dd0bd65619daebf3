----------------------- MODULE MaldaCrossChain_proofs -----------------------
(***************************************************************************)
(* Proofs about MaldaCrossChain, for every set of users, chains and        *)
(* amounts and every value of the bounds.                                  *)
(*                                                                         *)
(* The safety invariants are inductive only together.  A claim (UseDeposit *)
(* on the host, OutHere on a gateway) is bounded by its journal, so        *)
(* NoDoubleCredit and NoDoublePayout rest on JournalsNeverAhead; and that  *)
(* a journal of the host chain itself credits nothing is the second part   *)
(* of NoDoubleCredit.  Conservation is inductive with the type invariant   *)
(* alone: each step moves as much in the balances as in the books.         *)
(***************************************************************************)
EXTENDS MaldaCrossChain, FiniteSums, TLAPS

LEMMA UnchangedHostType ==
  ASSUME HostTypeOK, UNCHANGED hostVars
  PROVE  HostTypeOK'
  BY DEF HostTypeOK, HostMarketTypeOK, HostLimitsTypeOK, hostVars, hostMoney, hostAccess,
         hostLimits

LEMMA InitTypeOK == Init => TypeOK
<1>1. GatewayInit => GatewayTypeOK
  BY DEF GatewayInit, GatewayTypeOK
<1>2. HostInit => HostTypeOK
  <2> SUFFICES ASSUME HostInit PROVE HostTypeOK
    OBVIOUS
  <2>1. hostWhitelistEnabled \in BOOLEAN
    BY DEF HostInit
  <2>2. inPerChain \in [AllSlots -> Nat] /\ outPerChain \in [AllSlots -> Nat]
    BY DEF HostInit
  <2>3. HostLimitsTypeOK
    BY DEF HostInit, HostLimitsTypeOK
  <2>4. HostMarketTypeOK
    BY <2>1, <2>2 DEF HostInit, HostMarketTypeOK, AllChains
  <2> QED BY <2>3, <2>4 DEF HostTypeOK
<1> QED BY <1>1, <1>2, OtherJournalsAssumption DEF Init, TypeOK

(***************************************************************************)
(* The steps of a gateway keep its types                                   *)
(***************************************************************************)
LEMMA SupplyOnHostType ==
  ASSUME GatewayTypeOK, NEW c \in ExtChains, NEW sender, NEW receiver \in Users,
         NEW a \in Amounts, SupplyOnHost(c, sender, receiver, a)
  PROVE  GatewayTypeOK'
  BY AmountsAssumption DEF GatewayTypeOK, SupplyOnHost, gatewayAccess, ExtSlots

LEMMA OutHereType ==
  ASSUME GatewayTypeOK, NEW c \in ExtChains, NEW caller, NEW receiver, NEW j \in Journal,
         NEW a \in Amounts, OutHere(c, caller, j, a, receiver)
  PROVE  GatewayTypeOK'
  BY AmountsAssumption DEF GatewayTypeOK, OutHere, gatewayAccess, ExtSlots, Journal

LEMMA GatewayUserType ==
  ASSUME TypeOK, NEW c \in ExtChains, GatewayUserStep(c)
  PROVE  TypeOK'
<1>1. HostTypeOK'
  BY UnchangedHostType DEF TypeOK, GatewayUserStep
<1>2. (journals \in SUBSET Journal /\ inTransit \in [AllChains -> Nat] /\ bridgeLoss \in Nat)'
  BY DEF TypeOK, GatewayUserStep
<1>3. GatewayTypeOK'
  <2>1. ASSUME NEW sender \in Accounts, NEW receiver \in Users, NEW a \in Amounts,
               SupplyOnHost(c, sender, receiver, a)
        PROVE  GatewayTypeOK'
    BY <2>1, SupplyOnHostType DEF TypeOK
  <2>2. ASSUME NEW caller \in Accounts, NEW receiver \in Accounts, NEW j \in journals,
               NEW a \in Amounts, OutHere(c, caller, j, a, receiver)
        PROVE  GatewayTypeOK'
    BY <2>2, OutHereType DEF TypeOK
  <2>3. ASSUME NEW user \in Users, NEW caller \in Users, NEW status \in BOOLEAN,
               GatewayUpdateAllowedCaller(c, user, caller, status)
        PROVE  GatewayTypeOK'
    BY <2>3 DEF TypeOK, GatewayTypeOK, GatewayUpdateAllowedCaller, gatewayMoney, Accounts
  <2> QED BY <2>1, <2>2, <2>3 DEF GatewayUserStep
<1> QED BY <1>1, <1>2, <1>3 DEF TypeOK

LEMMA GatewayAdminType ==
  ASSUME TypeOK, NEW c \in ExtChains, GatewayAdminStep(c)
  PROVE  TypeOK'
<1>1. HostTypeOK'
  BY UnchangedHostType DEF TypeOK, GatewayAdminStep
<1>2. (journals \in SUBSET Journal /\ inTransit \in [AllChains -> Nat] /\ bridgeLoss \in Nat)'
  BY DEF TypeOK, GatewayAdminStep
<1>3. GatewayTypeOK'
  <2>1. ASSUME NEW caller \in Accounts, NEW op \in GatewayOps, NEW state \in BOOLEAN,
               GatewaySetPaused(c, caller, op, state)
        PROVE  GatewayTypeOK'
    BY <2>1 DEF TypeOK, GatewayTypeOK, GatewaySetPaused, gatewayMoney
  <2>2. ASSUME NEW account \in Users, NEW state \in BOOLEAN,
               GatewaySetBlacklisted(c, account, state)
        PROVE  GatewayTypeOK'
    BY <2>2 DEF TypeOK, GatewayTypeOK, GatewaySetBlacklisted, gatewayMoney, Accounts
  <2>3. ASSUME NEW state \in BOOLEAN, GatewaySetWhitelist(c, state)
        PROVE  GatewayTypeOK'
    BY <2>3 DEF TypeOK, GatewayTypeOK, GatewaySetWhitelist, gatewayMoney
  <2>4. ASSUME NEW account \in Users, NEW state \in BOOLEAN,
               GatewaySetWhitelistedUser(c, account, state)
        PROVE  GatewayTypeOK'
    BY <2>4 DEF TypeOK, GatewayTypeOK, GatewaySetWhitelistedUser, gatewayMoney, Accounts
  <2> QED BY <2>1, <2>2, <2>3, <2>4 DEF GatewayAdminStep
<1> QED BY <1>1, <1>2, <1>3 DEF TypeOK

(***************************************************************************)
(* The steps of the host market, of the provers and of the bridges         *)
(***************************************************************************)
LEMMA UseOutflowType ==
  ASSUME HostLimitsTypeOK, NEW amount \in Nat, UseOutflow(amount)
  PROVE  outflow' \in [limit : Nat, volume : Nat, over : BOOLEAN]
<1>1. CASE UNCHANGED outflow
  BY <1>1 DEF HostLimitsTypeOK
<1>2. CASE outflow' = [outflow EXCEPT !.volume = OutflowBase + amount, !.over = FALSE]
  <2>1. OutflowBase + amount \in Nat
    BY DEF HostLimitsTypeOK, OutflowBase
  <2> DEFINE volume == OutflowBase + amount
  <2>2. volume \in Nat /\ outflow' = [outflow EXCEPT !.volume = volume, !.over = FALSE]
    BY <1>2, <2>1
  <2> HIDE DEF volume
  <2> QED BY <2>2 DEF HostLimitsTypeOK
<1> QED BY <1>1, <1>2 DEF UseOutflow

\* The calls of the market, one by one, on the outflow volume and the rest.
LEMMA CallLimitsType ==
  ASSUME HostLimitsTypeOK, NEW a \in Nat, UseOutflow(a) \/ UNCHANGED outflow,
         Mints(a) \/ UNCHANGED opened, UNCHANGED refusals
  PROVE  HostLimitsTypeOK'
<1>1. outflow' \in [limit : Nat, volume : Nat, over : BOOLEAN]
  BY UseOutflowType DEF HostLimitsTypeOK
<1>2. opened' \in BOOLEAN
  BY DEF HostLimitsTypeOK, Mints
<1> QED BY <1>1, <1>2 DEF HostLimitsTypeOK

LEMMA UseDepositType ==
  ASSUME HostMarketTypeOK, NEW caller, NEW j \in Journal, NEW a \in Amounts,
         UseDeposit(caller, j, a)
  PROVE  HostMarketTypeOK'
  BY AmountsAssumption DEF HostMarketTypeOK, UseDeposit, hostAccess, AllSlots, Journal

LEMMA ExternalCallType ==
  ASSUME HostTypeOK, NEW caller, NEW j \in Journal, NEW a \in Amounts,
         \/ MintExternal(caller, j, a)
         \/ RepayExternal(caller, j, a)
         \/ \E borrower : LiquidateExternal(caller, j, borrower, a)
  PROVE  HostTypeOK'
<1>1. HostMarketTypeOK'
  BY UseDepositType DEF HostTypeOK, MintExternal, RepayExternal, LiquidateExternal
<1>2. HostLimitsTypeOK'
  <2>1. UseOutflow(a) \/ UNCHANGED outflow
    BY DEF MintExternal, RepayExternal, LiquidateExternal, CheckOutflow, hostLimits
  <2>2. Mints(a) \/ UNCHANGED opened
    BY DEF MintExternal, RepayExternal, LiquidateExternal, hostLimits
  <2>3. UNCHANGED refusals
    BY DEF MintExternal, RepayExternal, LiquidateExternal, hostLimits
  <2> QED BY <2>1, <2>2, <2>3, CallLimitsType, AmountsAssumption DEF HostTypeOK
<1> QED BY <1>1, <1>2 DEF HostTypeOK

LEMMA PerformExtensionCallType ==
  ASSUME HostTypeOK, NEW user \in Users, NEW op, NEW a \in Amounts, NEW got \in Amounts,
         NEW dst \in AllChains, PerformExtensionCall(user, op, a, got, dst)
  PROVE  HostTypeOK'
<1>1. HostMarketTypeOK'
  BY AmountsAssumption
  DEF HostTypeOK, HostMarketTypeOK, PerformExtensionCall, CashAvailable, OwedOut, hostAccess,
      AllSlots
<1>2. HostLimitsTypeOK'
  BY AmountsAssumption, CallLimitsType DEF HostTypeOK, PerformExtensionCall, CheckOutflow
<1> QED BY <1>1, <1>2 DEF HostTypeOK

LEMMA CashType ==
  ASSUME HostTypeOK, NEW op, NEW payer, NEW holder, NEW a \in Amounts,
         CashIn(op, payer, holder, a) \/ CashOut(op, holder, a)
  PROVE  HostTypeOK'
<1>1. HostMarketTypeOK'
  BY AmountsAssumption
  DEF HostTypeOK, HostMarketTypeOK, CashIn, CashOut, CashAvailable, hostAccess
<1>2. HostLimitsTypeOK'
  BY AmountsAssumption, CallLimitsType DEF HostTypeOK, CashIn, CashOut, hostLimits
<1> QED BY <1>1, <1>2 DEF HostTypeOK

LEMMA MigratePositionType ==
  ASSUME HostTypeOK, NEW user, NEW a \in Amounts \cup {0}, NEW b \in Amounts \cup {0},
         MigratePosition(user, a, b)
  PROVE  HostTypeOK'
<1>1. HostMarketTypeOK'
  BY AmountsAssumption DEF HostTypeOK, HostMarketTypeOK, MigratePosition, hostAccess
<1>2. HostLimitsTypeOK'
  BY AmountsAssumption, CallLimitsType DEF HostTypeOK, MigratePosition
<1> QED BY <1>1, <1>2 DEF HostTypeOK

LEMMA HostProofType ==
  ASSUME TypeOK, HostProofStep
  PROVE  TypeOK'
<1>1. (GatewayTypeOK /\ journals \in SUBSET Journal /\ inTransit \in [AllChains -> Nat]
        /\ bridgeLoss \in Nat)'
  BY DEF TypeOK, HostProofStep, GatewayTypeOK, gatewayVars, gatewayMoney, gatewayAccess
<1>2. PICK caller \in Accounts, j \in journals, a \in Amounts :
        \/ MintExternal(caller, j, a)
        \/ RepayExternal(caller, j, a)
        \/ \E borrower : LiquidateExternal(caller, j, borrower, a)
  BY DEF HostProofStep
<1>3. HostTypeOK'
  BY <1>2, ExternalCallType DEF TypeOK
<1> QED BY <1>1, <1>3 DEF TypeOK

LEMMA HostUserType ==
  ASSUME TypeOK, HostUserStep
  PROVE  TypeOK'
<1>1. (GatewayTypeOK /\ journals \in SUBSET Journal /\ inTransit \in [AllChains -> Nat]
        /\ bridgeLoss \in Nat)'
  BY DEF TypeOK, HostUserStep, GatewayTypeOK, gatewayVars, gatewayMoney, gatewayAccess
<1>2. HostTypeOK'
  <2>1. ASSUME NEW user \in Users, NEW op \in {"Redeem", "Borrow"}, NEW a \in Amounts,
               NEW got \in Amounts, NEW dst \in AllChains,
               PerformExtensionCall(user, op, a, got, dst)
        PROVE  HostTypeOK'
    BY <2>1, PerformExtensionCallType DEF TypeOK
  <2>2. ASSUME NEW payer \in Accounts, NEW holder \in Accounts, NEW a \in Amounts,
               NEW op \in DOMAIN StoppedBy, CashIn(op, payer, holder, a) \/ CashOut(op, holder, a)
        PROVE  HostTypeOK'
    BY <2>2, CashType DEF TypeOK
  <2>3. ASSUME NEW user \in Users, NEW a \in Amounts \cup {0}, NEW b \in Amounts \cup {0},
               MigratePosition(user, a, b)
        PROVE  HostTypeOK'
    BY <2>3, MigratePositionType DEF TypeOK
  <2>4. ASSUME NEW user \in Users, NEW caller \in Users, NEW status \in BOOLEAN,
               HostUpdateAllowedCaller(user, caller, status)
        PROVE  HostTypeOK'
    BY <2>4
    DEF TypeOK, HostTypeOK, HostMarketTypeOK, HostLimitsTypeOK, HostUpdateAllowedCaller,
        hostMoney, hostLimits, Accounts
  <2> QED BY <2>1, <2>2, <2>3, <2>4 DEF HostUserStep
<1> QED BY <1>1, <1>2 DEF TypeOK

LEMMA SetOutflowType ==
  ASSUME HostTypeOK, SetOutflow
  PROVE  HostTypeOK'
<1>1. HostMarketTypeOK'
  BY DEF HostTypeOK, HostMarketTypeOK, SetOutflow, OutflowChanges, hostMoney, hostAccess
<1>2. HostLimitsTypeOK'
  BY HostAssumption DEF HostTypeOK, HostLimitsTypeOK, SetOutflow, OutflowChanges
<1> QED BY <1>1, <1>2 DEF HostTypeOK

LEMMA HostAdminType ==
  ASSUME TypeOK, HostAdminStep
  PROVE  TypeOK'
<1>1. (GatewayTypeOK /\ journals \in SUBSET Journal /\ inTransit \in [AllChains -> Nat]
        /\ bridgeLoss \in Nat)'
  BY DEF TypeOK, HostAdminStep, GatewayTypeOK, gatewayVars, gatewayMoney, gatewayAccess
<1>2. HostTypeOK'
  <2>1. CASE SetOutflow
    BY <2>1, SetOutflowType DEF TypeOK
  <2>2. CASE ~SetOutflow
    BY <2>2
    DEF TypeOK, HostTypeOK, HostMarketTypeOK, HostLimitsTypeOK, HostAdminStep,
        UpdateAllowedChain, HostSetPaused, HostSetBlacklisted, HostSetWhitelist,
        HostSetWhitelistedUser, hostMoney, hostLimits, Accounts
  <2> QED BY <2>1, <2>2
<1> QED BY <1>1, <1>2 DEF TypeOK

LEMMA HostSurroundingsType ==
  ASSUME TypeOK, HostSurroundingsStep
  PROVE  TypeOK'
<1>1. (GatewayTypeOK /\ journals \in SUBSET Journal /\ inTransit \in [AllChains -> Nat]
        /\ bridgeLoss \in Nat)'
  BY DEF TypeOK, HostSurroundingsStep, GatewayTypeOK, gatewayVars, gatewayMoney, gatewayAccess
<1>2. HostMarketTypeOK'
  BY DEF TypeOK, HostTypeOK, HostMarketTypeOK, HostSurroundingsStep, OtherMarketsOutflow,
         OutflowWindowElapses, OutflowChanges, RefusalChanges, hostMoney, hostAccess
<1>3. HostLimitsTypeOK'
  <2>1. CASE OtherMarketsOutflow
    <3>1. PICK a \in 0 .. outflow.limit : UseOutflow(a)
      BY <2>1 DEF OtherMarketsOutflow
    <3> QED BY <2>1, <3>1, CallLimitsType
         DEF OtherMarketsOutflow, TypeOK, HostTypeOK, HostLimitsTypeOK
  <2>2. CASE OutflowWindowElapses
    BY <2>2 DEF OutflowWindowElapses, OutflowChanges, TypeOK, HostTypeOK, HostLimitsTypeOK
  <2>3. ASSUME NEW reason \in ModelledRefusals, RefusalChanges(reason)
        PROVE  HostLimitsTypeOK'
    BY <2>3, HostAssumption DEF RefusalChanges, TypeOK, HostTypeOK, HostLimitsTypeOK
  <2> QED BY <2>1, <2>2, <2>3 DEF HostSurroundingsStep
<1> QED BY <1>1, <1>2, <1>3 DEF TypeOK, HostTypeOK

LEMMA ProofStepType ==
  ASSUME TypeOK, ProofStep
  PROVE  TypeOK'
<1>0. PICK c \in AllChains : \E user \in Users, dst \in ProofTargets[c], flag \in ProofFlags :
        \/ c = HostChain /\ ProveHost(user, dst, flag)
        \/ c \in ExtChains /\ ProveGateway(c, user, dst, flag)
  BY DEF ProofStep
<1>1. PICK user \in Users, dst \in ProofTargets[c], flag \in ProofFlags :
        \/ c = HostChain /\ ProveHost(user, dst, flag)
        \/ c \in ExtChains /\ ProveGateway(c, user, dst, flag)
  BY <1>0
<1>2. dst \in AllChains /\ flag \in BOOLEAN
  BY ProofsAssumption
<1>3. ASSUME NEW data \in Nat \X Nat, Circulate(JournalOf(user, data, c, dst, flag))
      PROVE  TypeOK'
  <2>1. JournalOf(user, data, c, dst, flag) \in Journal
    BY <1>2, MarketAssumption DEF JournalOf, Journal
  <2>2. HostTypeOK'
    BY <1>3, UnchangedHostType DEF TypeOK, Circulate
  <2> QED BY <1>3, <2>1, <2>2
       DEF TypeOK, Circulate, GatewayTypeOK, gatewayVars, gatewayMoney, gatewayAccess
<1>4. CASE c = HostChain /\ ProveHost(user, dst, flag)
  <2>1. HostProofData(user, dst) \in Nat \X Nat
    BY <1>2 DEF TypeOK, HostTypeOK, HostMarketTypeOK, HostProofData, AllSlots
  <2> QED BY <1>3, <1>4, <2>1 DEF ProveHost
<1>5. CASE c \in ExtChains /\ ProveGateway(c, user, dst, flag)
  <2>1. GatewayProofData(c, user) \in Nat \X Nat
    BY <1>5 DEF TypeOK, GatewayTypeOK, GatewayProofData, ExtSlots
  <2> QED BY <1>3, <1>5, <2>1 DEF ProveGateway
<1> QED BY <1>1, <1>4, <1>5

LEMMA BridgeStepType ==
  ASSUME TypeOK, BridgeStep
  PROVE  TypeOK'
<1>1. ASSUME NEW src \in AllChains, NEW dst \in AllChains, NEW a \in Amounts,
             NEW fee \in 0..a, BridgeSend(src, dst, a, fee)
      PROVE  TypeOK'
  <2>1. a \in Nat /\ fee \in Nat /\ a - fee \in Nat
    BY <1>1, AmountsAssumption
  <2>2. (journals \in SUBSET Journal /\ inTransit \in [AllChains -> Nat] /\ bridgeLoss \in Nat)'
    BY <1>1, <2>1 DEF TypeOK, BridgeSend
  <2>3. GatewayTypeOK'
    BY <1>1, <2>1
    DEF TypeOK, GatewayTypeOK, BridgeSend, Extract, GatewayExtract, gatewayVars, gatewayMoney,
        gatewayAccess
  <2>4. HostTypeOK'
    BY <1>1, <2>1
    DEF TypeOK, HostTypeOK, HostMarketTypeOK, HostLimitsTypeOK, BridgeSend, Extract,
        HostExtract, hostVars, hostMoney, hostAccess, hostLimits
  <2> QED BY <2>2, <2>3, <2>4 DEF TypeOK
<1>2. ASSUME NEW dst \in AllChains, NEW a \in Amounts, BridgeFill(dst, a)
      PROVE  TypeOK'
  <2>1. (journals \in SUBSET Journal /\ inTransit \in [AllChains -> Nat] /\ bridgeLoss \in Nat)'
    BY <1>2, AmountsAssumption DEF TypeOK, BridgeFill
  <2>2. GatewayTypeOK'
    BY <1>2, AmountsAssumption DEF TypeOK, GatewayTypeOK, BridgeFill, gatewayAccess, AllChains
  <2>3. HostTypeOK'
    BY <1>2, AmountsAssumption
    DEF TypeOK, HostTypeOK, HostMarketTypeOK, HostLimitsTypeOK, BridgeFill, hostAccess,
        hostLimits
  <2> QED BY <2>1, <2>2, <2>3 DEF TypeOK
<1>3. ASSUME NEW dst \in AllChains, NEW a \in Amounts, BridgeExpire(dst, a)
      PROVE  TypeOK'
  <2>1. HostTypeOK'
    BY <1>3, UnchangedHostType DEF TypeOK, BridgeExpire
  <2> QED BY <1>3, <2>1, AmountsAssumption
       DEF TypeOK, BridgeExpire, GatewayTypeOK, gatewayVars, gatewayMoney, gatewayAccess
<1> QED BY <1>1, <1>2, <1>3 DEF BridgeStep

LEMMA StutterType ==
  ASSUME TypeOK, UNCHANGED vars
  PROVE  TypeOK'
  BY UnchangedHostType DEF TypeOK, vars, GatewayTypeOK, gatewayVars, gatewayMoney, gatewayAccess

LEMMA NextTypeOK == TypeOK /\ [Next]_vars => TypeOK'
  BY GatewayUserType, GatewayAdminType, HostProofType, HostUserType, HostAdminType,
     HostSurroundingsType, ProofStepType, BridgeStepType, StutterType DEF Next

\* Accumulators, balances and amounts in transit stay natural numbers: the
\* require before each subtraction is enough to keep it from underflowing.
THEOREM TypeCorrect == Spec => []TypeOK
  BY InitTypeOK, NextTypeOK, PTL DEF Spec

-----------------------------------------------------------------------------
(***************************************************************************)
(* The inductive invariant                                                 *)
(***************************************************************************)
IInv == TypeOK /\ JournalsNeverAhead /\ NoDoubleCredit /\ NoDoublePayout

\* All that a step can do to the four accumulators and to the journals.
accumulators == <<accAmountIn, accAmountOut, inPerChain, outPerChain>>

Supplied(s, a) ==
    /\ accAmountIn' = [accAmountIn EXCEPT ![s] = @ + a]
    /\ UNCHANGED <<accAmountOut, inPerChain, outPerChain, journals>>

PaidOut(c, j, a) ==
    /\ JournalForGateway(c, j) /\ OutAvailable(c, j, a)
    /\ accAmountOut' = [accAmountOut EXCEPT ![<<c, j.sender>>] = @ + a]
    /\ UNCHANGED <<accAmountIn, inPerChain, outPerChain, journals>>

Credited(j, a) ==
    /\ j.market = Market /\ j.dstChainId = HostChain /\ InAvailable(j, a)
    /\ inPerChain' = [inPerChain EXCEPT ![<<j.chainId, j.sender>>] = @ + a]
    /\ UNCHANGED <<accAmountIn, accAmountOut, outPerChain, journals>>

OwedMore(s, a) ==
    /\ outPerChain' = [outPerChain EXCEPT ![s] = @ + a]
    /\ UNCHANGED <<accAmountIn, accAmountOut, inPerChain, journals>>

Proved(j) ==
    /\ NeverAhead(j)
    /\ journals' = journals \cup {j}
    /\ UNCHANGED accumulators

\* Every step is one of these or leaves all of them alone.
LEMMA StepKinds ==
  ASSUME TypeOK, [Next]_vars
  PROVE  \/ UNCHANGED <<accumulators, journals>>
         \/ \E s \in ExtSlots, a \in Amounts : Supplied(s, a)
         \/ \E c \in ExtChains, j \in journals, a \in Amounts : PaidOut(c, j, a)
         \/ \E j \in journals, a \in Amounts : Credited(j, a)
         \/ \E s \in AllSlots, a \in Amounts : OwedMore(s, a)
         \/ \E j : Proved(j)
<1>1. ASSUME NEW c \in ExtChains, GatewayUserStep(c)
      PROVE  \/ UNCHANGED <<accumulators, journals>>
             \/ \E s \in ExtSlots, a \in Amounts : Supplied(s, a)
             \/ \E j \in journals, a \in Amounts : PaidOut(c, j, a)
  <2>1. ASSUME NEW sender \in Accounts, NEW receiver \in Users, NEW a \in Amounts,
               SupplyOnHost(c, sender, receiver, a)
        PROVE  Supplied(<<c, receiver>>, a) /\ <<c, receiver>> \in ExtSlots
    BY <1>1, <2>1 DEF GatewayUserStep, SupplyOnHost, Supplied, hostVars, hostMoney, ExtSlots
  <2>2. ASSUME NEW caller \in Accounts, NEW receiver \in Accounts, NEW j \in journals,
               NEW a \in Amounts, OutHere(c, caller, j, a, receiver)
        PROVE  PaidOut(c, j, a)
    BY <1>1, <2>2 DEF GatewayUserStep, OutHere, PaidOut, hostVars, hostMoney
  <2>3. ASSUME NEW user \in Users, NEW caller \in Users, NEW status \in BOOLEAN,
               GatewayUpdateAllowedCaller(c, user, caller, status)
        PROVE  UNCHANGED <<accumulators, journals>>
    BY <1>1, <2>3
    DEF GatewayUserStep, GatewayUpdateAllowedCaller, gatewayMoney, hostVars, hostMoney,
        accumulators
  <2> QED BY <1>1, <2>1, <2>2, <2>3 DEF GatewayUserStep
<1>2. ASSUME NEW c \in ExtChains, GatewayAdminStep(c)
      PROVE  UNCHANGED <<accumulators, journals>>
  BY <1>2
  DEF GatewayAdminStep, GatewaySetPaused, GatewaySetBlacklisted, GatewaySetWhitelist,
      GatewaySetWhitelistedUser, gatewayMoney, hostVars, hostMoney, accumulators
<1>3. ASSUME HostProofStep
      PROVE  \E j \in journals, a \in Amounts : Credited(j, a)
  <2>1. PICK caller \in Accounts, j \in journals, a \in Amounts : UseDeposit(caller, j, a)
    BY <1>3 DEF HostProofStep, MintExternal, RepayExternal, LiquidateExternal
  <2>2. Credited(j, a)
    BY <1>3, <2>1
    DEF HostProofStep, UseDeposit, CheckProofCall, Credited, gatewayVars, gatewayMoney
  <2> QED BY <2>2
<1>4. ASSUME HostUserStep
      PROVE  \/ UNCHANGED <<accumulators, journals>>
             \/ \E s \in AllSlots, a \in Amounts : OwedMore(s, a)
  <2>1. CASE \E user \in Users, op \in {"Redeem", "Borrow"}, a, got \in Amounts,
                dst \in AllChains : PerformExtensionCall(user, op, a, got, dst)
    <3>1. PICK user \in Users, op \in {"Redeem", "Borrow"}, a \in Amounts, got \in Amounts,
               dst \in AllChains : PerformExtensionCall(user, op, a, got, dst)
      BY <2>1
    <3>2. <<dst, user>> \in AllSlots
      BY DEF AllSlots
    <3>3. OwedMore(<<dst, user>>, got)
      BY <1>4, <3>1
      DEF HostUserStep, PerformExtensionCall, OwedOut, OwedMore, gatewayVars, gatewayMoney
    <3> QED BY <3>2, <3>3
  <2>2. ASSUME NEW payer \in Accounts, NEW holder \in Accounts, NEW a \in Amounts,
               NEW op \in DOMAIN StoppedBy, CashIn(op, payer, holder, a) \/ CashOut(op, holder, a)
        PROVE  UNCHANGED <<accumulators, journals>>
    BY <1>4, <2>2 DEF HostUserStep, CashIn, CashOut, gatewayVars, gatewayMoney, accumulators
  <2>3. ASSUME NEW user \in Users, NEW a \in Amounts \cup {0}, NEW b \in Amounts \cup {0},
               MigratePosition(user, a, b)
        PROVE  UNCHANGED <<accumulators, journals>>
    BY <1>4, <2>3 DEF HostUserStep, MigratePosition, gatewayVars, gatewayMoney, accumulators
  <2>4. ASSUME NEW user \in Users, NEW caller \in Users, NEW status \in BOOLEAN,
               HostUpdateAllowedCaller(user, caller, status)
        PROVE  UNCHANGED <<accumulators, journals>>
    BY <1>4, <2>4
    DEF HostUserStep, HostUpdateAllowedCaller, gatewayVars, gatewayMoney, hostMoney,
        accumulators
  <2>5. CASE \E payer, holder \in Accounts, a \in Amounts, op \in DOMAIN StoppedBy :
                CashIn(op, payer, holder, a) \/ CashOut(op, holder, a)
    BY <2>2, <2>5
  <2>6. CASE \E user \in Users, a, b \in Amounts \cup {0} : MigratePosition(user, a, b)
    BY <2>3, <2>6
  <2>7. CASE \E user \in Users, caller \in Users, status \in BOOLEAN :
                HostUpdateAllowedCaller(user, caller, status)
    BY <2>4, <2>7
  <2> QED BY <1>4, <2>1, <2>5, <2>6, <2>7 DEF HostUserStep
<1>5. ASSUME HostAdminStep
      PROVE  UNCHANGED <<accumulators, journals>>
  BY <1>5
  DEF HostAdminStep, UpdateAllowedChain, HostSetPaused, HostSetBlacklisted,
      HostSetWhitelist, HostSetWhitelistedUser, SetOutflow, OutflowChanges, gatewayVars,
      gatewayMoney, hostMoney, accumulators
<1>5a. ASSUME HostSurroundingsStep
       PROVE  UNCHANGED <<accumulators, journals>>
  BY <1>5a
  DEF HostSurroundingsStep, OtherMarketsOutflow, OutflowWindowElapses, OutflowChanges,
      RefusalChanges, gatewayVars, gatewayMoney, hostMoney, accumulators
<1>6. ASSUME ProofStep
      PROVE  \E j : Proved(j)
  <2>1. PICK c \in AllChains : \E user \in Users, dst \in ProofTargets[c], flag \in ProofFlags :
          \/ c = HostChain /\ ProveHost(user, dst, flag)
          \/ c \in ExtChains /\ ProveGateway(c, user, dst, flag)
    BY <1>6 DEF ProofStep
  <2>2. PICK user \in Users, dst \in ProofTargets[c], flag \in ProofFlags :
          \/ c = HostChain /\ ProveHost(user, dst, flag)
          \/ c \in ExtChains /\ ProveGateway(c, user, dst, flag)
    BY <2>1
  <2>3. dst \in AllChains
    BY ProofsAssumption
  <2>4. CASE c = HostChain /\ ProveHost(user, dst, flag)
    <3> DEFINE j == JournalOf(user, HostProofData(user, dst), HostChain, dst, flag)
    <3>1. NeverAhead(j)
      BY <2>3
      DEF TypeOK, HostTypeOK, HostMarketTypeOK, AllSlots, NeverAhead, JournalOf, HostProofData
    <3> QED BY <2>4, <3>1
         DEF ProveHost, Circulate, Proved, gatewayVars, gatewayMoney, hostVars, hostMoney,
             accumulators
  <2>5. CASE c \in ExtChains /\ ProveGateway(c, user, dst, flag)
    <3> DEFINE j == JournalOf(user, GatewayProofData(c, user), c, dst, flag)
    <3>1. NeverAhead(j)
      BY <2>5, ChainsAssumption
      DEF TypeOK, GatewayTypeOK, ExtSlots, NeverAhead, JournalOf, GatewayProofData
    <3> QED BY <2>5, <3>1
         DEF ProveGateway, Circulate, Proved, gatewayVars, gatewayMoney, hostVars, hostMoney,
             accumulators
  <2> QED BY <2>2, <2>4, <2>5
<1>7. ASSUME BridgeStep
      PROVE  UNCHANGED <<accumulators, journals>>
  BY <1>7
  DEF BridgeStep, BridgeSend, Extract, GatewayExtract, HostExtract, BridgeFill, BridgeExpire,
      gatewayVars, gatewayMoney, hostVars, hostMoney, accumulators
<1>8. ASSUME UNCHANGED vars
      PROVE  UNCHANGED <<accumulators, journals>>
  BY <1>8 DEF vars, gatewayVars, gatewayMoney, hostVars, hostMoney, accumulators
<1>9. CASE \E c \in ExtChains : GatewayUserStep(c) \/ GatewayAdminStep(c)
  BY <1>1, <1>2, <1>9
<1>10. CASE HostProofStep \/ HostUserStep \/ HostAdminStep \/ HostSurroundingsStep
  BY <1>3, <1>4, <1>5, <1>5a, <1>10
<1> QED BY <1>6, <1>7, <1>8, <1>9, <1>10 DEF Next

LEMMA InitIInv == Init => IInv
<1> SUFFICES ASSUME Init PROVE IInv
  OBVIOUS
<1>1. JournalsNeverAhead
  BY OtherJournalsAssumption DEF Init, JournalsNeverAhead
<1>2. NoDoubleCredit /\ NoDoublePayout
  BY DEF Init, GatewayInit, HostInit, NoDoubleCredit, NoDoublePayout, ExtSlots, AllSlots, AllChains
<1> QED BY <1>1, <1>2, InitTypeOK DEF IInv

LEMMA SlotsOfChains ==
  /\ ExtSlots \subseteq AllSlots
  /\ \A u \in Users : <<HostChain, u>> \in AllSlots /\ <<HostChain, u>> \notin ExtSlots
  /\ \A j \in Journal : <<j.chainId, j.sender>> \in AllSlots
  /\ \A j \in Journal : <<j.dstChainId, j.sender>> \in AllSlots
  /\ \A j \in Journal : j.chainId # HostChain => <<j.chainId, j.sender>> \in ExtSlots
  BY ChainsAssumption DEF ExtSlots, AllSlots, AllChains, Journal

LEMMA SuppliedKeeps ==
  ASSUME IInv, NEW s \in ExtSlots, NEW a \in Amounts, Supplied(s, a)
  PROVE  (JournalsNeverAhead /\ NoDoubleCredit /\ NoDoublePayout)'
<1>1. accAmountIn'[s] = accAmountIn[s] + a /\ a \in Nat
  BY AmountsAssumption DEF IInv, TypeOK, GatewayTypeOK, Supplied
<1>2. \A r \in ExtSlots :
        accAmountIn[r] \in Nat /\ accAmountIn'[r] \in Nat /\ accAmountIn'[r] >= accAmountIn[r]
  BY <1>1 DEF IInv, TypeOK, GatewayTypeOK, Supplied
<1>3. JournalsNeverAhead'
  BY <1>1, <1>2, SlotsOfChains
  DEF IInv, TypeOK, GatewayTypeOK, JournalsNeverAhead, NeverAhead, Supplied, Journal
<1>4. NoDoubleCredit'
  BY <1>2, SlotsOfChains
  DEF IInv, TypeOK, GatewayTypeOK, HostTypeOK, HostMarketTypeOK, NoDoubleCredit, Supplied
<1>5. NoDoublePayout'
  BY DEF IInv, NoDoublePayout, Supplied
<1> QED BY <1>3, <1>4, <1>5

LEMMA PaidOutKeeps ==
  ASSUME IInv, NEW c \in ExtChains, NEW j \in journals, NEW a \in Amounts, PaidOut(c, j, a)
  PROVE  (JournalsNeverAhead /\ NoDoubleCredit /\ NoDoublePayout)'
<1> DEFINE s == <<c, j.sender>>
<1>1. j \in Journal /\ s \in ExtSlots /\ s \in AllSlots /\ a \in Nat
  BY AmountsAssumption, SlotsOfChains DEF IInv, TypeOK, Journal, ExtSlots
<1>2. accAmountOut'[s] = accAmountOut[s] + a
  BY <1>1 DEF IInv, TypeOK, GatewayTypeOK, PaidOut
<1>3. \A r \in ExtSlots :
        /\ accAmountOut[r] \in Nat /\ accAmountOut'[r] \in Nat
        /\ accAmountOut'[r] >= accAmountOut[r]
  BY <1>1, <1>2 DEF IInv, TypeOK, GatewayTypeOK, PaidOut
<1>4. JournalsNeverAhead'
  <2>1. /\ UNCHANGED <<accAmountIn, inPerChain, outPerChain, journals>>
        /\ \A k \in journals : k \in Journal /\ (k.market = Market => NeverAhead(k))
    BY DEF PaidOut, IInv, TypeOK, JournalsNeverAhead
  <2>2. ASSUME NEW k \in journals, k.market = Market PROVE NeverAhead(k)'
    <3>1. k \in Journal /\ NeverAhead(k) /\ k.accAmountOut \in Nat
      BY <2>1, <2>2 DEF Journal
    <3>2. k.chainId # HostChain => <<k.chainId, k.sender>> \in ExtSlots
      BY <3>1, SlotsOfChains
    <3> QED BY <1>3, <2>1, <3>1, <3>2 DEF NeverAhead
  <2> QED BY <2>1, <2>2 DEF JournalsNeverAhead
<1>5. NoDoubleCredit'
  BY DEF IInv, NoDoubleCredit, PaidOut
<1>6. j.accAmountOut <= outPerChain[s]
  BY DEF IInv, JournalsNeverAhead, NeverAhead, PaidOut, JournalForGateway
<1>7. accAmountOut'[s] <= outPerChain[s]
  BY <1>1, <1>2, <1>6
  DEF IInv, TypeOK, GatewayTypeOK, HostTypeOK, HostMarketTypeOK, PaidOut, OutAvailable, Journal
<1>8. NoDoublePayout'
  BY <1>7 DEF IInv, TypeOK, GatewayTypeOK, NoDoublePayout, PaidOut
<1> QED BY <1>4, <1>5, <1>8

LEMMA CreditedKeeps ==
  ASSUME IInv, NEW j \in journals, NEW a \in Amounts, Credited(j, a)
  PROVE  (JournalsNeverAhead /\ NoDoubleCredit /\ NoDoublePayout)'
<1> DEFINE s == <<j.chainId, j.sender>>
<1>1. j \in Journal /\ s \in AllSlots /\ a \in Nat /\ a > 0
  BY AmountsAssumption, SlotsOfChains DEF IInv, TypeOK
<1>2. inPerChain'[s] = inPerChain[s] + a
  BY <1>1 DEF IInv, TypeOK, HostTypeOK, HostMarketTypeOK, Credited
<1>3. inPerChain[s] + a <= j.accAmountIn
  BY <1>1 DEF IInv, TypeOK, HostTypeOK, HostMarketTypeOK, Credited, InAvailable, Journal
\* A journal of the host about itself carries a zero, which nothing can use.
<1>4. j.chainId # HostChain
  <2> SUFFICES ASSUME j.chainId = HostChain PROVE FALSE
    OBVIOUS
  <2>1. j.accAmountIn <= inPerChain[<<HostChain, j.sender>>]
    BY DEF IInv, JournalsNeverAhead, NeverAhead, Credited
  <2>2. inPerChain[<<HostChain, j.sender>>] = 0
    BY <1>1 DEF IInv, NoDoubleCredit, Journal
  <2> QED BY <1>1, <1>3, <2>1, <2>2 DEF Journal
<1>5. s \in ExtSlots
  BY <1>1, <1>4, SlotsOfChains
<1>6. j.accAmountIn <= accAmountIn[s]
  BY <1>4 DEF IInv, JournalsNeverAhead, NeverAhead, Credited
<1>7. \A r \in AllSlots :
        inPerChain[r] \in Nat /\ inPerChain'[r] \in Nat /\ inPerChain'[r] >= inPerChain[r]
  BY <1>1, <1>2 DEF IInv, TypeOK, HostTypeOK, HostMarketTypeOK, Credited
<1>8. JournalsNeverAhead'
  BY <1>7, SlotsOfChains
  DEF IInv, TypeOK, HostTypeOK, HostMarketTypeOK, JournalsNeverAhead, NeverAhead, Credited, Journal
<1>9. NoDoubleCredit'
  <2>1. inPerChain'[s] <= accAmountIn[s]
    BY <1>1, <1>2, <1>3, <1>5, <1>6
    DEF IInv, TypeOK, GatewayTypeOK, HostTypeOK, HostMarketTypeOK, Journal
  <2>2. \A r \in ExtSlots : inPerChain'[r] <= accAmountIn'[r]
    BY <2>1, SlotsOfChains DEF IInv, TypeOK, HostTypeOK, HostMarketTypeOK, NoDoubleCredit, Credited
  <2>3. \A u \in Users : inPerChain'[<<HostChain, u>>] = 0
    BY <1>5, SlotsOfChains DEF IInv, TypeOK, HostTypeOK, HostMarketTypeOK, NoDoubleCredit, Credited
  <2> QED BY <2>2, <2>3 DEF NoDoubleCredit
<1>10. NoDoublePayout'
  BY DEF IInv, NoDoublePayout, Credited
<1> QED BY <1>8, <1>9, <1>10

LEMMA OwedMoreKeeps ==
  ASSUME IInv, NEW s \in AllSlots, NEW a \in Amounts, OwedMore(s, a)
  PROVE  (JournalsNeverAhead /\ NoDoubleCredit /\ NoDoublePayout)'
<1>1. \A r \in AllSlots : outPerChain'[r] >= outPerChain[r] /\ outPerChain[r] \in Nat
  BY AmountsAssumption DEF IInv, TypeOK, HostTypeOK, HostMarketTypeOK, OwedMore
<1>2. \A r \in AllSlots : outPerChain'[r] \in Nat
  BY AmountsAssumption DEF IInv, TypeOK, HostTypeOK, HostMarketTypeOK, OwedMore
<1>3. JournalsNeverAhead'
  BY <1>1, <1>2, SlotsOfChains
  DEF IInv, TypeOK, JournalsNeverAhead, NeverAhead, OwedMore, Journal
<1>4. NoDoubleCredit'
  BY DEF IInv, NoDoubleCredit, OwedMore
<1>5. NoDoublePayout'
  BY <1>1, <1>2, SlotsOfChains DEF IInv, TypeOK, GatewayTypeOK, NoDoublePayout, OwedMore
<1> QED BY <1>3, <1>4, <1>5

LEMMA ProvedKeeps ==
  ASSUME IInv, NEW j, Proved(j)
  PROVE  (JournalsNeverAhead /\ NoDoubleCredit /\ NoDoublePayout)'
<1>1. JournalsNeverAhead'
  BY DEF IInv, JournalsNeverAhead, NeverAhead, Proved, accumulators
<1>2. (NoDoubleCredit /\ NoDoublePayout)'
  BY DEF IInv, NoDoubleCredit, NoDoublePayout, Proved, accumulators
<1> QED BY <1>1, <1>2

LEMMA NextIInv == IInv /\ [Next]_vars => IInv'
<1> SUFFICES ASSUME IInv, [Next]_vars PROVE IInv'
  OBVIOUS
<1>1. TypeOK /\ TypeOK'
  BY NextTypeOK DEF IInv
<1>2. CASE UNCHANGED <<accumulators, journals>>
  BY <1>1, <1>2
  DEF IInv, JournalsNeverAhead, NeverAhead, NoDoubleCredit, NoDoublePayout, accumulators
<1> QED BY <1>1, <1>2, StepKinds, SuppliedKeeps, PaidOutKeeps, CreditedKeeps, OwedMoreKeeps,
          ProvedKeeps DEF IInv

\* The inductive invariant: well-typed, no proof ahead of its chain, no deposit
\* credited twice and no withdrawal paid twice, in every reachable state.
THEOREM IInvHolds == Spec => []IInv
  BY InitIInv, NextIInv, PTL DEF Spec

\* The host credits no deposit twice, however proofs are replayed, delayed
\* or reordered (mErc20Host._mintExternal, _repayExternal, _liquidateExternal).
THEOREM DoubleCreditImpossible == Spec => []NoDoubleCredit
<1>1. IInv => NoDoubleCredit
  BY DEF IInv
<1> QED BY <1>1, IInvHolds, PTL

\* A gateway pays no withdrawal twice (mTokenGateway._outHere).
THEOREM DoublePayoutImpossible == Spec => []NoDoublePayout
<1>1. IInv => NoDoublePayout
  BY DEF IInv
<1> QED BY <1>1, IInvHolds, PTL

\* A proof in circulation never promises more than its chain's accumulators.
THEOREM ProofsNeverAhead == Spec => []JournalsNeverAhead
<1>1. IInv => JournalsNeverAhead
  BY DEF IInv
<1> QED BY <1>1, IInvHolds, PTL

-----------------------------------------------------------------------------
(***************************************************************************)
(* Refinement: each direction of the protocol is a CreditLedger.  Supplied *)
(* is the Credit of the deposit ledger and Credited its Claim; OwedMore is *)
(* the Credit of the withdrawal ledger (or a stutter, for a withdrawal to  *)
(* the host chain itself) and PaidOut its Claim.                           *)
(***************************************************************************)
LEMMA DepositLedgerInit == Init => DepositLedger!Init
  BY SlotsOfChains DEF Init, GatewayInit, HostInit, DepositLedger!Init

LEMMA DepositLedgerNext ==
  ASSUME IInv, IInv', [Next]_vars
  PROVE  [DepositLedger!Next]_(DepositLedger!vars)
<1>1. DepositLedger!TypeOK'
  BY SlotsOfChains
  DEF IInv, TypeOK, GatewayTypeOK, HostTypeOK, HostMarketTypeOK, DepositLedger!TypeOK
<1>2. ASSUME NEW s \in ExtSlots, NEW a \in Amounts, Supplied(s, a)
      PROVE  DepositLedger!Next
  <2>1. DepositLedger!Credit(s)
    BY <1>2, AmountsAssumption
    DEF DepositLedger!Credit, DepositLedger!OthersSame, Supplied, IInv, TypeOK, GatewayTypeOK
  <2> QED BY <1>1, <2>1 DEF DepositLedger!Next
<1>3. ASSUME NEW j \in journals, NEW a \in Amounts, Credited(j, a)
      PROVE  DepositLedger!Next
  <2> DEFINE s == <<j.chainId, j.sender>>
  <2>1. j \in Journal /\ s \in AllSlots /\ a \in Nat /\ a > 0
    BY AmountsAssumption, SlotsOfChains DEF IInv, TypeOK
  <2>2. inPerChain'[s] = inPerChain[s] + a /\ inPerChain[s] \in Nat
    BY <1>3, <2>1 DEF IInv, TypeOK, HostTypeOK, HostMarketTypeOK, Credited
  <2>3. s \in ExtSlots
    <3>1. CASE j.chainId # HostChain
      BY <2>1, <3>1, SlotsOfChains
    <3>2. CASE j.chainId = HostChain
      BY <2>1, <2>2, <3>2 DEF IInv, NoDoubleCredit, Journal
    <3> QED BY <3>1, <3>2
  <2>4. inPerChain'[s] <= accAmountIn[s] /\ accAmountIn' = accAmountIn
    BY <1>3, <2>3 DEF IInv, NoDoubleCredit, Credited
  <2>5. \A r \in ExtSlots \ {s} : inPerChain'[r] = inPerChain[r]
    BY <1>3, SlotsOfChains DEF IInv, TypeOK, HostTypeOK, HostMarketTypeOK, Credited
  <2>6. DepositLedger!Claim(s)
    BY <2>1, <2>2, <2>3, <2>4, <2>5 DEF DepositLedger!Claim, DepositLedger!OthersSame
  <2> QED BY <1>1, <2>3, <2>6 DEF DepositLedger!Next
<1>4. ASSUME UNCHANGED <<accAmountIn, inPerChain>>
      PROVE  UNCHANGED DepositLedger!vars
  BY <1>4 DEF DepositLedger!vars
<1> QED BY <1>2, <1>3, <1>4, StepKinds
     DEF IInv, PaidOut, OwedMore, Proved, accumulators

\* Deposits, over all interleavings, proofs and bridges, behave as a ledger
\* in which the host claims no more than the gateway has credited.
THEOREM DepositsRefineLedger == Spec => DepositsImplementLedger
<1>1. IInv /\ IInv' /\ [Next]_vars => [DepositLedger!Next]_(DepositLedger!vars)
  BY DepositLedgerNext
<1> QED BY <1>1, DepositLedgerInit, IInvHolds, PTL
     DEF Spec, DepositsImplementLedger, DepositLedger!Spec

LEMMA WithdrawalLedgerInit == Init => WithdrawalLedger!Init
  BY SlotsOfChains DEF Init, GatewayInit, HostInit, WithdrawalLedger!Init

LEMMA WithdrawalLedgerNext ==
  ASSUME IInv, IInv', [Next]_vars
  PROVE  [WithdrawalLedger!Next]_(WithdrawalLedger!vars)
<1>1. WithdrawalLedger!TypeOK'
  BY SlotsOfChains
  DEF IInv, TypeOK, GatewayTypeOK, HostTypeOK, HostMarketTypeOK, WithdrawalLedger!TypeOK
<1>2. ASSUME NEW s \in AllSlots, NEW a \in Amounts, OwedMore(s, a)
      PROVE  [WithdrawalLedger!Next]_(WithdrawalLedger!vars)
  <2>1. \A r \in ExtSlots \ {s} : outPerChain'[r] = outPerChain[r]
    BY <1>2, SlotsOfChains DEF IInv, TypeOK, HostTypeOK, HostMarketTypeOK, OwedMore
  <2>2. CASE s \in ExtSlots
    <3>1. outPerChain'[s] > outPerChain[s]
      BY <1>2, AmountsAssumption DEF IInv, TypeOK, HostTypeOK, HostMarketTypeOK, OwedMore
    <3>2. WithdrawalLedger!Credit(s)
      BY <1>2, <2>1, <2>2, <3>1
      DEF WithdrawalLedger!Credit, WithdrawalLedger!OthersSame, OwedMore
    <3> QED BY <1>1, <2>2, <3>2 DEF WithdrawalLedger!Next
  <2>3. CASE s \notin ExtSlots
    BY <1>2, <2>1, <2>3 DEF WithdrawalLedger!vars, OwedMore
  <2> QED BY <2>2, <2>3
<1>3. ASSUME NEW c \in ExtChains, NEW j \in journals, NEW a \in Amounts, PaidOut(c, j, a)
      PROVE  WithdrawalLedger!Next
  <2> DEFINE s == <<c, j.sender>>
  <2>1. s \in ExtSlots /\ a \in Nat /\ a > 0
    BY AmountsAssumption DEF IInv, TypeOK, Journal, ExtSlots
  <2>2. accAmountOut'[s] > accAmountOut[s]
    BY <1>3, <2>1 DEF IInv, TypeOK, GatewayTypeOK, PaidOut
  <2>3. accAmountOut'[s] <= outPerChain[s] /\ outPerChain' = outPerChain
    BY <1>3, <2>1 DEF IInv, NoDoublePayout, PaidOut
  <2>4. \A r \in ExtSlots \ {s} : accAmountOut'[r] = accAmountOut[r]
    BY <1>3 DEF IInv, TypeOK, GatewayTypeOK, PaidOut
  <2>5. WithdrawalLedger!Claim(s)
    BY <2>1, <2>2, <2>3, <2>4 DEF WithdrawalLedger!Claim, WithdrawalLedger!OthersSame
  <2> QED BY <1>1, <2>1, <2>5 DEF WithdrawalLedger!Next
<1>4. ASSUME UNCHANGED <<accAmountOut, outPerChain>>
      PROVE  UNCHANGED WithdrawalLedger!vars
  BY <1>4 DEF WithdrawalLedger!vars
<1> QED BY <1>2, <1>3, <1>4, StepKinds
     DEF IInv, Supplied, Credited, Proved, accumulators

\* Withdrawals behave as a ledger in which a gateway claims no more than the
\* host has credited.
THEOREM WithdrawalsRefineLedger == Spec => WithdrawalsImplementLedger
<1>1. IInv /\ IInv' /\ [Next]_vars => [WithdrawalLedger!Next]_(WithdrawalLedger!vars)
  BY WithdrawalLedgerNext
<1> QED BY <1>1, WithdrawalLedgerInit, IInvHolds, PTL
     DEF Spec, WithdrawalsImplementLedger, WithdrawalLedger!Spec

------------------------------------------------------------------------------
(* The books of all chains together.                                        *)

\* The chains and the slots of users on them are finitely many, ...
LEMMA FiniteSlots ==
  /\ IsFiniteSet(AllChains) /\ IsFiniteSet(ExtSlots) /\ IsFiniteSet(AllSlots)
<1>1. IsFiniteSet(AllChains)
  BY FiniteAssumption, FS_AddElement DEF AllChains
<1> QED
  BY <1>1, FiniteAssumption, FS_Product DEF ExtSlots, AllSlots

\* ... so that what is in the books of a chain adds up to a number.
LEMMA SumsType ==
  ASSUME TypeOK
  PROVE  /\ SumFunction(accAmountIn) \in Nat /\ SumFunction(accAmountOut) \in Nat
         /\ SumFunction(inPerChain) \in Nat /\ SumFunction(outPerChain) \in Nat
         /\ SumFunction(gatewayBalance) \in Nat /\ SumFunction(inTransit) \in Nat
         /\ hostBalance \in Nat /\ totalUnderlying \in Nat /\ bridgeLoss \in Nat
  BY FiniteSlots, FiniteAssumption, SumOfNat DEF TypeOK, GatewayTypeOK, HostTypeOK, HostMarketTypeOK

\* The quantities the books relate are integers.
LEMMA BooksType ==
  ASSUME TypeOK
  PROVE  /\ TokensHeld \in Int /\ UncreditedDeposits \in Int /\ OwedWithdrawals \in Int
         /\ totalUnderlying \in Int /\ bridgeLoss \in Int
  BY SumsType DEF TokensHeld, UncreditedDeposits, OwedWithdrawals

\* A step that changes no accumulator, balance or amount in transit.
LEMMA MoneyUnchanged ==
  ASSUME Conservation, UNCHANGED <<gatewayMoney, hostMoney, inTransit, bridgeLoss>>
  PROVE  Conservation'
  BY DEF Conservation, TokensHeld, UncreditedDeposits, OwedWithdrawals, gatewayMoney, hostMoney

\* A deposit adds to a gateway's tokens and to the deposits not yet credited.
LEMMA SupplyConserves ==
  ASSUME TypeOK, Conservation, NEW c \in ExtChains, NEW sender, NEW receiver \in Users,
         NEW a \in Amounts, SupplyOnHost(c, sender, receiver, a),
         UNCHANGED <<hostMoney, inTransit, bridgeLoss>>
  PROVE  Conservation'
<1>1. a \in Int /\ <<c, receiver>> \in ExtSlots
  BY AmountsAssumption DEF ExtSlots
<1>2. SumFunction(accAmountIn)' = SumFunction(accAmountIn) + a
  <2>1. /\ accAmountIn \in [ExtSlots -> Nat]
        /\ accAmountIn' = [accAmountIn EXCEPT ![<<c, receiver>>] = @ + a]
    BY DEF SupplyOnHost, TypeOK, GatewayTypeOK
  <2> QED BY <1>1, <2>1, FiniteSlots, SumAdded, ZenonT(60)
<1>3. SumFunction(gatewayBalance)' = SumFunction(gatewayBalance) + a
  <2>1. /\ gatewayBalance \in [ExtChains -> Nat]
        /\ gatewayBalance' = [gatewayBalance EXCEPT ![c] = @ + a]
    BY DEF SupplyOnHost, TypeOK, GatewayTypeOK
  <2> QED BY <1>1, <2>1, FiniteAssumption, SumAdded, ZenonT(60)
<1>4. UNCHANGED <<accAmountOut, inPerChain, outPerChain, inTransit, hostBalance,
                  totalUnderlying, bridgeLoss>>
  BY DEF SupplyOnHost, hostMoney
<1>5. TokensHeld' = TokensHeld + a
  BY <1>1, <1>3, <1>4, SumsType DEF TokensHeld
<1>6. UncreditedDeposits' = UncreditedDeposits + a
  BY <1>1, <1>2, <1>4, SumsType DEF UncreditedDeposits
<1>7. OwedWithdrawals' = OwedWithdrawals
  BY <1>4 DEF OwedWithdrawals
<1> QED
  BY <1>1, <1>4, <1>5, <1>6, <1>7, BooksType DEF Conservation

\* A payout takes from a gateway's tokens and from the withdrawals owed.
LEMMA PayoutConserves ==
  ASSUME TypeOK, Conservation, NEW c \in ExtChains, NEW caller, NEW receiver, NEW j \in Journal,
         NEW a \in Amounts, OutHere(c, caller, j, a, receiver),
         UNCHANGED <<hostMoney, inTransit, bridgeLoss>>
  PROVE  Conservation'
<1>1. a \in Int /\ <<c, j.sender>> \in ExtSlots
  BY AmountsAssumption DEF ExtSlots, Journal
<1>2. SumFunction(accAmountOut)' = SumFunction(accAmountOut) + a
  <2>1. /\ accAmountOut \in [ExtSlots -> Nat]
        /\ accAmountOut' = [accAmountOut EXCEPT ![<<c, j.sender>>] = @ + a]
    BY DEF OutHere, TypeOK, GatewayTypeOK
  <2> QED BY <1>1, <2>1, FiniteSlots, SumAdded, ZenonT(60)
<1>3. SumFunction(gatewayBalance)' = SumFunction(gatewayBalance) - a
  <2>1. /\ gatewayBalance \in [ExtChains -> Nat]
        /\ gatewayBalance' = [gatewayBalance EXCEPT ![c] = @ - a]
    BY DEF OutHere, TypeOK, GatewayTypeOK
  <2> QED BY <1>1, <2>1, FiniteAssumption, SumTaken, ZenonT(60)
<1>4. UNCHANGED <<accAmountIn, inPerChain, outPerChain, inTransit, hostBalance,
                  totalUnderlying, bridgeLoss>>
  BY DEF OutHere, hostMoney
<1>5. TokensHeld' = TokensHeld - a
  BY <1>1, <1>3, <1>4, SumsType DEF TokensHeld
<1>6. UncreditedDeposits' = UncreditedDeposits
  BY <1>4 DEF UncreditedDeposits
<1>7. OwedWithdrawals' = OwedWithdrawals - a
  BY <1>1, <1>2, <1>4, SumsType DEF OwedWithdrawals
<1> QED
  BY <1>1, <1>4, <1>5, <1>6, <1>7, BooksType DEF Conservation

\* A deposit used on the host moves from the uncredited ones into the book
\* cash.
LEMMA CreditConserves ==
  ASSUME TypeOK, Conservation, NEW caller, NEW j \in Journal, NEW a \in Amounts,
         UseDeposit(caller, j, a), UNCHANGED <<gatewayMoney, inTransit, bridgeLoss>>
  PROVE  Conservation'
<1>1. a \in Int /\ <<j.chainId, j.sender>> \in AllSlots
  BY AmountsAssumption DEF AllSlots, Journal
<1>2. SumFunction(inPerChain)' = SumFunction(inPerChain) + a
  <2>1. /\ inPerChain \in [AllSlots -> Nat]
        /\ inPerChain' = [inPerChain EXCEPT ![<<j.chainId, j.sender>>] = @ + a]
    BY DEF UseDeposit, TypeOK, HostTypeOK, HostMarketTypeOK
  <2> QED BY <1>1, <2>1, FiniteSlots, SumAdded, ZenonT(60)
<1>3. UNCHANGED <<accAmountIn, accAmountOut, outPerChain, gatewayBalance, inTransit,
                  hostBalance, bridgeLoss>>
  BY DEF UseDeposit, gatewayMoney
<1>4. totalUnderlying' = totalUnderlying + a
  BY DEF UseDeposit
<1>5. TokensHeld' = TokensHeld /\ OwedWithdrawals' = OwedWithdrawals
  BY <1>3 DEF TokensHeld, OwedWithdrawals
<1>6. UncreditedDeposits' = UncreditedDeposits - a
  BY <1>1, <1>2, <1>3, SumsType DEF UncreditedDeposits
<1> QED
  BY <1>1, <1>3, <1>4, <1>5, <1>6, BooksType DEF Conservation

\* A withdrawal to another chain moves from the book cash to what is owed.
LEMMA ExtensionCallConserves ==
  ASSUME TypeOK, Conservation, NEW user \in Users, NEW op, NEW a \in Amounts,
         NEW got \in Amounts, NEW dst \in AllChains, PerformExtensionCall(user, op, a, got, dst),
         UNCHANGED <<gatewayMoney, inTransit, bridgeLoss>>
  PROVE  Conservation'
<1>1. got \in Int /\ <<dst, user>> \in AllSlots
  BY AmountsAssumption DEF AllSlots
<1>2. SumFunction(outPerChain)' = SumFunction(outPerChain) + got
  <2>1. /\ outPerChain \in [AllSlots -> Nat]
        /\ outPerChain' = [outPerChain EXCEPT ![<<dst, user>>] = @ + got]
    BY DEF PerformExtensionCall, OwedOut, TypeOK, HostTypeOK, HostMarketTypeOK
  <2> QED BY <1>1, <2>1, FiniteSlots, SumAdded, ZenonT(60)
<1>3. UNCHANGED <<accAmountIn, accAmountOut, inPerChain, gatewayBalance, inTransit,
                  hostBalance, bridgeLoss>>
  BY DEF PerformExtensionCall, gatewayMoney
<1>4. totalUnderlying' = totalUnderlying - got
  BY DEF PerformExtensionCall
<1>5. TokensHeld' = TokensHeld /\ UncreditedDeposits' = UncreditedDeposits
  BY <1>3 DEF TokensHeld, UncreditedDeposits
<1>6. OwedWithdrawals' = OwedWithdrawals + got
  BY <1>1, <1>2, <1>3, SumsType DEF OwedWithdrawals
<1> QED
  BY <1>1, <1>3, <1>4, <1>5, <1>6, BooksType DEF Conservation

\* Calls on the host chain alone move its tokens and its book cash together.
LEMMA HostCashConserves ==
  ASSUME TypeOK, Conservation, NEW d \in Int,
         hostBalance' = hostBalance + d, totalUnderlying' = totalUnderlying + d,
         UNCHANGED <<inPerChain, outPerChain, gatewayMoney, inTransit, bridgeLoss>>
  PROVE  Conservation'
<1>1. TokensHeld' = TokensHeld + d
  BY SumsType DEF TokensHeld, gatewayMoney
<1>2. UncreditedDeposits' = UncreditedDeposits /\ OwedWithdrawals' = OwedWithdrawals
  BY DEF UncreditedDeposits, OwedWithdrawals, gatewayMoney
<1> QED
  BY <1>1, <1>2, BooksType DEF Conservation

LEMMA HostUserConserves ==
  ASSUME TypeOK, Conservation, HostUserStep
  PROVE  Conservation'
<1>0. UNCHANGED <<gatewayMoney, inTransit, bridgeLoss>>
  BY DEF HostUserStep, gatewayVars
<1>1. ASSUME NEW user \in Users, NEW op \in {"Redeem", "Borrow"}, NEW a \in Amounts,
             NEW got \in Amounts, NEW dst \in AllChains,
             PerformExtensionCall(user, op, a, got, dst)
      PROVE  Conservation'
  BY <1>0, <1>1, ExtensionCallConserves
<1>2. ASSUME NEW payer \in Accounts, NEW holder \in Accounts, NEW a \in Amounts,
             NEW op \in DOMAIN StoppedBy, CashIn(op, payer, holder, a)
      PROVE  Conservation'
  BY <1>0, <1>2, AmountsAssumption, HostCashConserves DEF CashIn
<1>3. ASSUME NEW holder \in Accounts, NEW a \in Amounts, NEW op \in DOMAIN StoppedBy,
             CashOut(op, holder, a)
      PROVE  Conservation'
  <2>1. /\ 0 - a \in Int /\ hostBalance' = hostBalance + (0 - a)
        /\ totalUnderlying' = totalUnderlying + (0 - a)
    BY <1>3, AmountsAssumption DEF CashOut, TypeOK, HostTypeOK, HostMarketTypeOK
  <2>2. UNCHANGED <<inPerChain, outPerChain>>
    BY <1>3 DEF CashOut
  <2> QED BY <1>0, <2>1, <2>2, HostCashConserves
<1>4. ASSUME NEW user \in Users, NEW a \in Amounts \cup {0}, NEW b \in Amounts \cup {0},
             MigratePosition(user, a, b)
      PROVE  Conservation'
  <2>1. /\ a - b \in Int /\ hostBalance' = hostBalance + (a - b)
        /\ totalUnderlying' = totalUnderlying + (a - b)
    BY <1>4, AmountsAssumption DEF MigratePosition, TypeOK, HostTypeOK, HostMarketTypeOK
  <2>2. UNCHANGED <<inPerChain, outPerChain>>
    BY <1>4 DEF MigratePosition
  <2> QED BY <1>0, <2>1, <2>2, HostCashConserves
<1>5. ASSUME NEW user \in Users, NEW caller \in Users, NEW status \in BOOLEAN,
             HostUpdateAllowedCaller(user, caller, status)
      PROVE  Conservation'
  BY <1>0, <1>5, MoneyUnchanged DEF HostUpdateAllowedCaller
<1> QED
  BY <1>1, <1>2, <1>3, <1>4, <1>5 DEF HostUserStep

\* Tokens extracted from a market are in the bridge, up to the relay fee.
LEMMA BridgeSendConserves ==
  ASSUME TypeOK, Conservation, NEW src \in AllChains, NEW dst \in AllChains, NEW a \in Amounts,
         NEW fee \in 0..a, BridgeSend(src, dst, a, fee)
  PROVE  Conservation'
<1>1. a \in Nat /\ a \in Int /\ fee \in Nat /\ a - fee \in Int
  BY AmountsAssumption
<1>2. SumFunction(inTransit)' = SumFunction(inTransit) + (a - fee)
  <2>1. /\ inTransit \in [AllChains -> Nat]
        /\ inTransit' = [inTransit EXCEPT ![dst] = @ + (a - fee)]
    BY DEF BridgeSend, TypeOK
  <2> QED BY <1>1, <2>1, FiniteSlots, SumAdded, ZenonT(60)
<1>3. /\ bridgeLoss' = bridgeLoss + fee
      /\ UNCHANGED <<accAmountIn, accAmountOut, inPerChain, outPerChain, totalUnderlying>>
  BY DEF BridgeSend, Extract, HostExtract, GatewayExtract, gatewayVars, gatewayMoney, hostVars,
         hostMoney
<1>4. (hostBalance + SumFunction(gatewayBalance))' = hostBalance + SumFunction(gatewayBalance) - a
  <2>1. CASE HostExtract(a) /\ UNCHANGED gatewayVars
    BY <1>1, <2>1, SumsType DEF HostExtract, gatewayVars, gatewayMoney
  <2>2. CASE src \in ExtChains /\ GatewayExtract(src, a) /\ UNCHANGED hostVars
    <3>1. /\ gatewayBalance \in [ExtChains -> Nat] /\ src \in ExtChains
          /\ gatewayBalance' = [gatewayBalance EXCEPT ![src] = @ - a]
      BY <2>2 DEF GatewayExtract, TypeOK, GatewayTypeOK
    <3>2. SumFunction(gatewayBalance)' = SumFunction(gatewayBalance) - a
      BY <1>1, <3>1, FiniteAssumption, SumTaken, ZenonT(60)
    <3>3. hostBalance' = hostBalance
      BY <2>2 DEF hostVars, hostMoney
    <3> QED BY <1>1, <3>2, <3>3, SumsType
  <2> QED BY <2>1, <2>2 DEF BridgeSend, Extract
<1>5. TokensHeld' = TokensHeld - fee
  BY <1>1, <1>2, <1>4, SumsType DEF TokensHeld
<1>6. UncreditedDeposits' = UncreditedDeposits /\ OwedWithdrawals' = OwedWithdrawals
  BY <1>3 DEF UncreditedDeposits, OwedWithdrawals
<1> QED
  BY <1>1, <1>3, <1>5, <1>6, BooksType DEF Conservation

\* A fill moves tokens from the bridge to the market they are for.
LEMMA BridgeFillConserves ==
  ASSUME TypeOK, Conservation, NEW dst \in AllChains, NEW a \in Amounts, BridgeFill(dst, a)
  PROVE  Conservation'
<1>1. a \in Nat /\ a \in Int
  BY AmountsAssumption
<1>2. SumFunction(inTransit)' = SumFunction(inTransit) - a
  <2>1. /\ inTransit \in [AllChains -> Nat]
        /\ inTransit' = [inTransit EXCEPT ![dst] = @ - a]
    BY DEF BridgeFill, TypeOK
  <2> QED BY <1>1, <2>1, FiniteSlots, SumTaken, ZenonT(60)
<1>3. UNCHANGED <<accAmountIn, accAmountOut, inPerChain, outPerChain, totalUnderlying, bridgeLoss>>
  BY DEF BridgeFill
<1>4. (hostBalance + SumFunction(gatewayBalance))' = hostBalance + SumFunction(gatewayBalance) + a
  <2>1. CASE dst = HostChain
    BY <1>1, <2>1, SumsType DEF BridgeFill
  <2>2. CASE dst # HostChain
    <3>1. /\ gatewayBalance \in [ExtChains -> Nat] /\ dst \in ExtChains
          /\ gatewayBalance' = [gatewayBalance EXCEPT ![dst] = @ + a]
          /\ hostBalance' = hostBalance
      BY <2>2 DEF BridgeFill, TypeOK, GatewayTypeOK, AllChains
    <3>2. SumFunction(gatewayBalance)' = SumFunction(gatewayBalance) + a
      BY <1>1, <3>1, FiniteAssumption, SumAdded, ZenonT(60)
    <3> QED BY <1>1, <3>1, <3>2, SumsType
  <2> QED BY <2>1, <2>2
<1>5. TokensHeld' = TokensHeld
  BY <1>1, <1>2, <1>4, SumsType DEF TokensHeld
<1>6. UncreditedDeposits' = UncreditedDeposits /\ OwedWithdrawals' = OwedWithdrawals
  BY <1>3 DEF UncreditedDeposits, OwedWithdrawals
<1> QED
  BY <1>3, <1>5, <1>6, BooksType DEF Conservation

\* The refund of an expired deposit is lost to the markets.
LEMMA BridgeExpireConserves ==
  ASSUME TypeOK, Conservation, NEW dst \in AllChains, NEW a \in Amounts, BridgeExpire(dst, a)
  PROVE  Conservation'
<1>1. a \in Nat /\ a \in Int
  BY AmountsAssumption
<1>2. SumFunction(inTransit)' = SumFunction(inTransit) - a
  <2>1. /\ inTransit \in [AllChains -> Nat]
        /\ inTransit' = [inTransit EXCEPT ![dst] = @ - a]
    BY DEF BridgeExpire, TypeOK
  <2> QED BY <1>1, <2>1, FiniteSlots, SumTaken, ZenonT(60)
<1>3. /\ bridgeLoss' = bridgeLoss + a
      /\ UNCHANGED <<accAmountIn, accAmountOut, inPerChain, outPerChain, totalUnderlying,
                     hostBalance, gatewayBalance>>
  BY DEF BridgeExpire, gatewayVars, gatewayMoney, hostVars, hostMoney
<1>4. TokensHeld' = TokensHeld - a
  BY <1>1, <1>2, <1>3, SumsType DEF TokensHeld
<1>5. UncreditedDeposits' = UncreditedDeposits /\ OwedWithdrawals' = OwedWithdrawals
  BY <1>3 DEF UncreditedDeposits, OwedWithdrawals
<1> QED
  BY <1>1, <1>3, <1>4, <1>5, BooksType DEF Conservation

LEMMA InitConservation == Init => Conservation
<1> SUFFICES ASSUME Init PROVE Conservation
  OBVIOUS
<1>1. ASSUME NEW S, IsFiniteSet(S) PROVE SumFunction([s \in S |-> 0]) = 0
  BY <1>1, SumZero DEF SumFunction
<1>2. /\ SumFunction(accAmountIn) = 0 /\ SumFunction(accAmountOut) = 0
      /\ SumFunction(gatewayBalance) = 0
  BY <1>1, FiniteSlots, FiniteAssumption DEF Init, GatewayInit
<1>3. /\ SumFunction(inPerChain) = 0 /\ SumFunction(outPerChain) = 0
      /\ SumFunction(inTransit) = 0
  BY <1>1, FiniteSlots DEF Init, HostInit
<1>4. hostBalance = 0 /\ totalUnderlying = 0 /\ bridgeLoss = 0
  BY DEF Init, HostInit
<1> QED
  BY <1>2, <1>3, <1>4 DEF Conservation, TokensHeld, UncreditedDeposits, OwedWithdrawals

LEMMA NextConservation ==
  ASSUME TypeOK, Conservation, [Next]_vars
  PROVE  Conservation'
<1>1. ASSUME NEW c \in ExtChains, GatewayUserStep(c)
      PROVE  Conservation'
  <2>0. UNCHANGED <<hostMoney, inTransit, bridgeLoss>>
    BY <1>1 DEF GatewayUserStep, hostVars
  <2>1. ASSUME NEW sender \in Accounts, NEW receiver \in Users, NEW a \in Amounts,
               SupplyOnHost(c, sender, receiver, a)
        PROVE  Conservation'
    BY <2>0, <2>1, SupplyConserves
  <2>2. ASSUME NEW caller \in Accounts, NEW receiver \in Accounts, NEW j \in journals,
               NEW a \in Amounts, OutHere(c, caller, j, a, receiver)
        PROVE  Conservation'
    BY <2>0, <2>2, PayoutConserves DEF TypeOK
  <2>3. ASSUME NEW user \in Users, NEW caller \in Users, NEW status \in BOOLEAN,
               GatewayUpdateAllowedCaller(c, user, caller, status)
        PROVE  Conservation'
    BY <2>0, <2>3, MoneyUnchanged DEF GatewayUpdateAllowedCaller
  <2> QED BY <1>1, <2>1, <2>2, <2>3 DEF GatewayUserStep
<1>2. ASSUME NEW c \in ExtChains, GatewayAdminStep(c)
      PROVE  Conservation'
  BY <1>2, MoneyUnchanged
  DEF GatewayAdminStep, GatewaySetPaused, GatewaySetBlacklisted, GatewaySetWhitelist,
      GatewaySetWhitelistedUser, hostVars
<1>3. ASSUME HostProofStep
      PROVE  Conservation'
  <2>1. PICK caller \in Accounts, j \in journals, a \in Amounts : UseDeposit(caller, j, a)
    BY <1>3 DEF HostProofStep, MintExternal, RepayExternal, LiquidateExternal
  <2>2. UNCHANGED <<gatewayMoney, inTransit, bridgeLoss>> /\ j \in Journal
    BY <1>3 DEF HostProofStep, gatewayVars, TypeOK
  <2> QED BY <2>1, <2>2, CreditConserves
<1>4. ASSUME HostAdminStep
      PROVE  Conservation'
  BY <1>4, MoneyUnchanged
  DEF HostAdminStep, UpdateAllowedChain, HostSetPaused, HostSetBlacklisted, HostSetWhitelist,
      HostSetWhitelistedUser, SetOutflow, OutflowChanges, gatewayVars
<1>4a. ASSUME HostSurroundingsStep
       PROVE  Conservation'
  BY <1>4a, MoneyUnchanged
  DEF HostSurroundingsStep, OtherMarketsOutflow, OutflowWindowElapses, OutflowChanges,
      RefusalChanges, gatewayVars
<1>5. ASSUME ProofStep
      PROVE  Conservation'
  BY <1>5, MoneyUnchanged DEF ProofStep, ProveHost, ProveGateway, Circulate, gatewayVars, hostVars
<1>6. ASSUME BridgeStep
      PROVE  Conservation'
  BY <1>6, BridgeSendConserves, BridgeFillConserves, BridgeExpireConserves DEF BridgeStep
<1>7. CASE UNCHANGED vars
  BY <1>7, MoneyUnchanged DEF vars, gatewayVars, hostVars
<1> QED
  BY <1>1, <1>2, <1>3, <1>4, <1>4a, <1>5, <1>6, <1>7, HostUserConserves DEF Next

\* Whatever is deposited, proved, credited, paid out and rebalanced in whatever
\* order, no token is made or lost between the chains: what gateways, host and
\* bridge hold is what the books promise, for any number of users, chains and
\* proofs (mTokenGateway.sol:161, mErc20Host.sol:213, Rebalancer.sol:123).
THEOREM BooksBalance == Spec => []Conservation
<1>1. TypeOK /\ Conservation /\ TypeOK' /\ [Next]_vars => Conservation'
  BY NextConservation
<1> QED BY <1>1, InitConservation, TypeCorrect, PTL DEF Spec
=============================================================================
