# Malda in TLA+

Malda is a lending protocol whose markets live on one host chain (Linea) and
whose users may deposit and withdraw on extension chains. A deposit on an
extension chain is used on the host, and a withdrawal made on the host is paid
on an extension chain, by presenting a zero-knowledge proof of what the other
chain's contract has recorded. Liquidity is moved between chains separately, by
a rebalancer and bridges.

This directory holds TLA+ models of that code (paths below are relative to the
repository), TLC configurations that check them on small instances, and TLAPS
proofs of the central safety properties for every value of the constants.

- [Inventory](#inventory)
- [Modules](#modules)
- [From code to model](#from-code-to-model)
- [Runs](#runs)
- [Fairness](#fairness)
- [Proofs](#proofs)
- [Where code and documentation disagree](#where-code-and-documentation-disagree)
- [What is not modelled](#what-is-not-modelled)
- [Plan](#plan)

## Inventory

| Part | State it keeps | Operations | Talks to |
|---|---|---|---|
| Gateway `mTokenGateway.sol`, one per extension chain and asset | `accAmountIn`, `accAmountOut` per account; pauses, allowed callers, whitelist | `supplyOnHost`, `outHere`, `extractForRebalancing`, settings | ZkVerifier, Blacklister, Roles, the underlying token |
| Host market `mErc20Host.sol` on `mErc20`, `mToken` | `acc[chain].inPerChain / outPerChain` per account; `totalUnderlying`; mToken supply, borrows, reserves, indices | `mintExternal`, `repayExternal`, `liquidateExternal`, `performExtensionCall`, the local lending calls, `extractForRebalancing` | Operator, ZkVerifier, Roles, Migrator |
| `Operator.sol` | listing, membership, factors, caps, pauses, whitelist, outflow counter | `beforeMToken...` hooks, `checkOutflowVolumeLimit`, enter and exit of markets, settings | oracle, RewardDistributor, Blacklister, every market |
| `Rebalancer.sol`, `AcrossBridge.sol`, `EverclearBridge.sol` | white lists, limits and time window per destination and token, log | `sendMsg`, `handleV3AcrossMessage`, settings | markets and gateways, SpokePool, fee adapter |
| Guest program and validation (`crates/guest`, `crates/malda_utils`) | none but the answers so far | per chain: executes `getProofData` in an environment, validates its block (sequencer signature, hash attested by Optimism's `L1Block`, L1 inclusion, dispute game, linking blocks); commits one journal for all | its output is what ZkVerifier admits |
| Gathering one chain's input (`get_proof_data_zkvm_input` in `crates/malda_rs/src/viewcalls.rs`) | what it has read so far | sequencer commitment, `L1Block` environment, inclusion environment or dispute game, linking blocks and call environment (concurrently) | nodes of the chains, two providers each |
| Request assembly (`get_proof_data_exec`, `_prove`, `_prove_sdk`, `_prove_boundless`) | tasks, sessions | one task per chain, joined into one input; run locally, on Bonsai (STARK, then SNARK) or on the Boundless market | guest, Bonsai, market |
| `BatchSubmitter.sol` | none | `batchProcess`: one verified batch, each entry in try/catch | host market and gateways |
| `Pauser.sol` | list of contracts and a mapping of the same | `addPausableMarket`, `removePausableMarket`, `emergencyPause...` | markets, gateways, Operator |
| `Blacklister.sol` | mapping and list | `blacklist`, `unblacklist` | read by gateways and Operator |
| `Roles.sol` | role table | `allowFor` | read by everything |
| `RewardDistributor.sol` | speed, index and block of both sides of a market, index and accrued rewards of accounts | `notify...`, `claim`, `updateRewardSpeeds`, `grantReward` | called by Operator hooks, reads the market |
| Oracles, `JumpRateModelV4.sol` | feeds, parameters | price, rate | read by Operator and mToken |
| `Migrator.sol` | none | `migrateAllPositions` | host market, the old protocol |

What makes this hard: a proof is a snapshot that anyone may hold and submit
late, twice, out of order or never; the two chains never see each other; a
gateway may be empty when it owes; the book cash of the host is not the tokens
it holds; the sequencer may stop; guardians pause and list accounts while
deposits are half done; a bridge deposit may expire; limits per time window
meet at the window's boundary. On the proving side, chains grow and reorganise
between the reads that make up one proof; a signed block, an environment and
linking headers may each be right and belong to different chains; a dispute game
may be retired or blacklisted after it was read; one task of a request fails while
the others go on; a remote prover may never answer, and no call over the network
has a timeout.

Correctness, part by part: each deposit is credited once and each withdrawal
paid once; tokens and books balance across chains; whoever is owed can serve
himself, and is served eventually by a working sequencer; a time-window limit
bounds what passes in any interval and does not outlive its window; nothing
strands on the Rebalancer; a proof speaks of the chain it names, of a block that
stays in it and, with inclusion, of what Ethereum backs; an honest host is refused
only when the chains got in its way; a request that succeeds is complete, and every
request ends that no unanswered call holds up. `PROJECT.json` lists the places where each of these
may go wrong ("hazards") and the property that would notice.

## Modules

| Module | Models | Extended or instantiated by |
|---|---|---|
| `CreditLedger` | abstract: running totals credited and claimed per slot, never overclaimed | instantiated twice by `MaldaCrossChain` |
| `MaldaTypes` | accounts, chains, journals, who may use a proof (`_verifyProof`, `_checkSender`) | the two below |
| `MaldaGateway` | `mTokenGateway.sol` on every extension chain | `MaldaCrossChain` |
| `MaldaHost` | `mErc20Host.sol` with the cash side of `mToken.sol`, the guards of the Operator's hooks and its outflow limit, and what else may refuse a deposit | `MaldaCrossChain` |
| `MaldaCrossChain` | the composition: gateways, host, proofs in circulation, bridges; all properties | `MCMaldaCrossChain`, `MaldaCrossChain_proofs` |
| `MaldaCrossChain_proofs` | theorems | |
| `FiniteSums` | lemmas: what the sum of a function over a finite set is, and how it follows a change | the `_proofs` modules that speak of sums |
| `Rebalancer` | `Rebalancer.sol` and its two bridges on one source chain | `MCRebalancer`, `Rebalancer_proofs` |
| `Rebalancer_proofs` | theorems | |
| `OutflowLimit` | `Operator.checkOutflowVolumeLimit` and its settings | `OutflowLimit_proofs` |
| `OutflowLimit_proofs` | theorems | |
| `OperatorRisk` | market membership, liquidity and liquidation: `Operator.sol` with the lending calls of `mToken.sol` that it judges | `MCOperatorRisk`, `OperatorRisk_proofs` |
| `OperatorRisk_proofs` | theorems | |
| `JumpRateModel` | `JumpRateModelV4.sol`: utilization, borrow and supply rate, parameters per block | `MTokenMarket` |
| `MTokenMarket` | one market with its exact arithmetic: `mToken.sol`, `mTokenStorage.sol`, `mTokenConfiguration.sol` | `MCMTokenMarket`, `RewardDistributor` |
| `RewardDistributor` | `RewardDistributor.sol` for a reward token and a market, and the hooks of `Operator.sol` that notify it, composed with `MTokenMarket` | `MCRewardDistributor`, `MTokenMarket_proofs` |
| `MTokenMarket_proofs` | theorems about the market and its rewards | |
| `ChainParams` | chain ids, keys, portals, URLs and reorg depths: `constants.rs` and the selectors of `viewcalls.rs` | `Chains`, `ProofRequest` |
| `Chains` | external: the chains and portals that host and guest read, growing and reorganising | `GuestValidation` |
| `GuestValidation` | `validators.rs`, `types.rs`, `cryptography.rs` and one iteration of the guest's main: what is accepted | `ProofInput` |
| `ProofInput` | `get_proof_data_zkvm_input`, read by read | `Coprocessor` |
| `Coprocessor` | the composition: one proof from request to journal, by this host or by another prover, over moving chains; its properties | `MCCoprocessor`, `Coprocessor_proofs` |
| `Coprocessor_proofs` | theorems | |
| `ProofRequest` | a request for several chains: tasks, guest, Bonsai, Boundless, and how it returns | `MCProofRequest`, `ProofRequest_proofs` |
| `ProofRequest_proofs` | theorems | |

In every module a definition marked `mutant` is a plausible bug in the
definition that follows it. No specification uses it; replacing the right
definition by it makes TLC report the property named in `PROJECT.json`, which
shows that the property depends on that piece of code.

## From code to model

**Gateway.** Each variable is a function of the chain. `SupplyOnHost` and
`OutHere` are the two user calls with all their guards in `MaldaGateway`;
`outHere` credits the *journal's sender* whatever `receiver` was named. The
batch loops of the contracts revert as a whole, so a batch that succeeds is a
sequence of the single steps of the model.

**Host.** `MintExternal`, `RepayExternal` and `LiquidateExternal` share
`UseDeposit`: check the proof, require that it shows enough, raise `inPerChain`
and the book cash. No token moves, because the deposit stays on the gateway.
`PerformExtensionCall` lowers the book cash and raises `outPerChain` by what was
*given*, which for a redemption is the worth of the mTokens named. `CashIn` and
`CashOut` are the local lending calls.

What may refuse a deposit is modelled, because two properties say that nothing else
does. `CheckOutflow` is the Operator's volume limit, asked by `mintExternal`, `repayExternal` and
`performExtensionCall` and not by `liquidateExternal`: `outflow` has the limit, the volume that all
markets share, and whether the window is over; `OtherMarketsOutflow`, `OutflowWindowElapses` and
`SetOutflow` move it from outside, and the call that finds the window over clears the volume.
(`OutflowLimit` has the same code with time and prices.) `opened` and `FirstMint` are the first mint,
which must be worth the 1000 mTokens set aside. `refusals` are three conditions of data that the
model leaves out, which come and go at any time: the borrow rate is above its limit, so that accruing reverts
(`Accrues`); the supply cap is reached; a price is missing. In `repayExternal` the code repays before it
compares with the deposit; a comparison that fails undoes the repayment, so that the step is
`UseDeposit` for the amount repaid.

Whether a borrower is solvent or within the borrow cap and what an mToken is worth remain
open, so any borrow or redemption may succeed and a redemption may give any amount the
cash check admits. That only adds behaviours: safety carries over, and of the liveness
properties `WithdrawalEventuallyPaid` is about payouts, which no such condition refuses, and
`DepositEventuallyCredited` about mints, which ask for none of them.

**Proofs.** A journal is a record of the fields that `decodeJournal` reads.
`ProveGateway` and `ProveHost` add to the set `journals` a snapshot of
`getProofData(user, dst)` with the chain and the L1-inclusion flag, as
`batch_call_get_proof_data` commits it. The set never shrinks: that is replay,
delay, reordering and loss in one. `ProofTargets` are the destination chains
asked for (a run may ask for any, because the guest does not care), and
`OtherJournals` are proofs about another market with larger accumulators.

**Bridges.** In `MaldaCrossChain` tokens leave a market, travel, and arrive or
expire; an expired Across deposit is refunded to its depositor, the Rebalancer,
and counts as lost to the markets. `Rebalancer` has the detail of the source
side: `SendMsg` is the whole transaction with the checks of the Rebalancer, the
extraction and the bridge's own transfers. `Across` pulls what was extracted;
`Everclear` returns and funds the intent from its own balance, as the code does.

**Outflow limit.** A call that fails reverts the counter too, so only calls that
succeed are steps. `accepted`, `resets` and `shortest` are history.

**Risk.** `OperatorRisk` keeps, per market and account, the membership flag, the
account's list of markets, its mTokens and its debt, and one action per lending call
with the hook that the Operator runs first; prices, exchange rates and debts are
integers and `MulExp`, `DivExp` truncate as `ExponentialNoError` does, at a small
`Scale` instead of 1e18. `Shortfall` is the second result of
`_getHypotheticalAccountLiquidity`. A repayment or redemption that fails later in
the same transaction reverts the whole call, so a call is one step. Interest is
the step `InterestAccrues`: the exchange rate does not fall and any set of debts
grows by a unit. It also stands for the dust that rounding in `__mint`,
`__redeem` and `_seize` leaves in the exchange rate.

**Market.** `MTokenMarket` has the numbers that `OperatorRisk` takes as given: mTokens,
debts as principal and index, reserves, cash and the interest index, with every
division of the code truncated where the code truncates it. `Scale` stands for
1e18, so at a scale of 10 rounding shows in amounts of one digit. `_accrueInterest` is
not a step of its own but the first part of every call that runs it: `BorrowsNew`,
`ReservesNew` and `IndexNew` are what it writes, and the rest of a call is stated in
terms of them, with guards that fail where the code reverts (`CanAccrue`, `CanRate`). A
call that reverts leaves no trace and is no step. `Transfer`, `SetBorrowRateMaxMantissa`
before the first mint, and `UpdateJumpRateModel` (a call to the model contract, which
knows no market) settle nothing. A seizure is two actions: `Seize` when the debt is in
another market, `Liquidate` when both are in this one; how many mTokens are taken
is any number, since it depends on prices. The host's calls without a transfer book the
same amounts as those with one. `drift` is history: what the truncated accruals so
far may have taken off the book but not off the accounts. `calls` is a bound.

**Rewards.** `RewardDistributor` extends `MTokenMarket`: a step of `RewardedCalls` is a call of
the market together with what its hook does, since the hook runs inside the call. Hooks
see the interest settled (`BorrowsNew`, `IndexNew`) and the balances as they were; `touched` names
the sides and accounts that a hook notifies. `claimMalda` and `updateRewardSpeeds` settle no interest
and read the totals as they were last stored. `_grantReward` pays all or nothing (`Left`,
`Granted`). `earned`, `paid`, `emitted` and `windfall` are history. The last is what mTokens
minted *for* another account are credited with for a time when they did not exist: the hook of
`mint` notifies the minter and not the receiver.

**Time** is `block.timestamp`, a small natural number.

**Chains.** A block hash is the sequence of blocks that ends in the block, since it
commits to all of them; equal hashes are equal histories. A reorganisation takes
off the newest blocks, never below `ReorgLimit` blocks under the highest head there
ever was (the assumption that `REORG_PROTECTION_DEPTH` makes), and the branch it
takes off stays available to provers. Ethereum blocks carry the last Linea block
posted to the message service and, for every portal, its games; OP-stack blocks
carry the Ethereum hash that `L1Block` answers; Linea headers carry a signature.
A portal's guardian blacklists a game won with a wrong claim before the portal's maturity
delay has passed: `Watchful` is that assumption, and he may use the whole delay. The guest
waits for the delay less `MaturitySlack` (the 300 seconds of `validators.rs:409`), so that a
wrong claim can get in between.

**Guest.** An environment is the header it is built on, because Steel proves every
storage read against that header. The validators are predicates with the names and
parameters of the code, and a failed assertion is FALSE. A signature is a record of
the key, the message it is over and whether `s` is low; recovery yields the key for
that message and nobody for any other. `sort_and_verify_relevant_params` picks the
environment, the header and the chain whose reorg depth counts, as its tuple does.

**Host.** Each read of a node is an action; `step` is the place in
`get_proof_data_zkvm_input`, and `got` its local variables. The two environments
that `get_l1block_call_input` builds one after the other are two reads. Linking
blocks and call environment are read in any order, as `tokio::join!` and the
spawned tasks allow. A block is asked for by number and is whatever the chain then
has there. `asked` is history: which provider was asked for what. A panic forgets
what was read.

**Other provers.** The contracts admit any journal of the guest's image, so
`OtherProves` feeds the guest inputs that no host of this repository would: any
published block of any fork as the signed block, any environment of a chain of the
same kind, and headers linked up to any block. What no check can look at is left
out.

**Requests.** One step per `.await` or remote call. The four entry points share
their steps and differ in what an error becomes: `exec` expects every chunk and
panics, the others drop failed tasks; `prove` and `prove_sdk` turn a panic into a
`JoinError`. The guest reads the count of chains first and panics when the input
runs out. Every read of a node (`TaskHangs`) and every remote call (`CallHangs`) may also never
return: the code sets no timeout on any. The prover of `prove` is taken to be a local one; its
environment selects it.

## Runs

Each run of `PROJECT.json` names its configuration. TLC ends each within three
minutes on two cores; the states are the distinct ones it finds.

| Run | Question | Properties | States |
|---|---|---|---|
| TwoChains | two gateways, any destination, proofs of another market: can replay, reordering or a foreign proof credit or pay twice? | `TypeOK` `JournalsNeverAhead` `NoDoubleCredit` `NoDoublePayout` | 205,928 |
| Bridges | with rebalancing, fees, expiry, partial amounts and changing callers: do tokens and books balance, does each direction implement the ledger? | `Conservation` `DepositsImplementLedger` `WithdrawalsImplementLedger` | 196,392 |
| Payouts | with pauses, black lists of both chains and the gateway's white list changing at any time: can an account that is owed always serve itself unless a halt in force names it; with a working sequencer, rebalancer and bridges, is everything eventually paid once halts stop? | `SelfServicePayout` `WithdrawalEventuallyPaid` | 128,256 |
| Credits | with pauses, white list, chains, outflow limit and a refusal of the market changing at any time: is a depositor refused for any reason but those named; with a working sequencer, is everything eventually credited, although others use up the outflow limit, once halts stop? | `SelfServiceCredit` `DepositEventuallyCredited` | 229,376 |
| Rebalance | does the maximum per window bound any interval, and is anything left on the Rebalancer? | `TypeOK` `SlidingBound` `OnlyEverclearStrands` | 899,584 |
| Outflow | what may pass in an interval, and does an elapsed window always reopen? | `TypeOK` `SlidingOutflowBound` `LimitReopens` | 1,243,656 |
| Risk | two accounts, a collateral whose price moves, a market to borrow from that may be wound down: do list and flags of membership agree, is every debt seen, what may a call or a liquidation do to a shortfall? | `TypeOK` `AssetsMatchMembership` `DebtsAreCounted` `CallsLeaveAtMostDust` `LiquidationsHelp` | 50,480 |
| Market | one pool, two accounts, two interest models, caps and a rate limit: does anything underflow, who gains by rounding, whose debt does a call change, how far do accounts and book part? | `TypeOK` `SupplyIsHeld` `StaysComputable` `DebtsNearBook` `RateFallsByRounding` `OthersKeepDebts` | 58,246 |
| Rewards | the market with rewards on both sides, speeds that change, funds that run short: does an index run ahead, is more credited than was emitted, is a reward lost or paid twice, whose earnings does a call change? | `RewardsTypeOK` `RewardsCovered` `EarnedIsKept` `CallsKeepEarnings` | 91,848 |
| Coprocessor | chains that move while a proof is made: does the proven block stay, is it of the chain named, does Ethereum back an inclusion, does the guest refuse an honest host? | `TypeOK` `ProvenBlockStays` `JournalNamesItsChain` `InclusionRestsOnEthereum` `HonestInputsAccepted` | 121,338 |
| ProofRequests | tasks, guest and remote provers that fail: is a success complete, does every request end that no unanswered call holds up? | `TypeOK` `JournalIsComplete` `EveryRequestEnds` | 2,545 |
| RebalanceFreshWindow | a statement of the audit report that the code violates, see below | `FreshWindowAccepts` | 552 |

Bounds, and why they are enough:

- `MaxAcc` bounds the accumulators and `MaxCash` the cash paid in locally.
  A double credit or payout needs one deposit and two uses; TwoChains has one
  unit per deposit and accumulators up to 2 (the second use would already exceed the first
  deposit), Bridges has amounts 1 and 2, so that a deposit can be used in parts and an amount
  given can differ from the amount named.
- `MaxJournals` is the number of proofs made: two suffice for "an old and a new
  one" and for one in each direction; TwoChains has three, Bridges two, and nine in Payouts and
  Credits is more than can be told apart there, so that the bound never stops the
  sequencer.
- `MaxTransit` bounds what one bridge carries; 0 leaves bridges out, in runs whose
  question does not need them.
- `AdminOps` and `PausableOps` name the administrative calls a run may make;
  `ProofFlags` the L1-inclusion flags asked for. Payouts has the accesses of its gateway, Credits
  those of the host, the safety runs need few: accesses only ever forbid steps. In Credits no proof of
  the host is asked for, so that nothing is paid out, which no deposit waits for.
- `OutflowLimits`, `FirstMint` and `ModelledRefusals` bound what may refuse a deposit. Credits
  has deposits of up to 3 in amounts of 1 and 2, a limit of 1 that comes and goes and a first mint of
  at least 2: a deposit may be too small to open the market, may need two windows, or may find
  the window used up by another market. One refusal comes and goes there, as both
  properties treat the three as one set that must be, or end up, empty. The other runs have no limit and
  no refusals, which only forbid steps.
- In Rebalance a window is one tick, the clock has room for five, and three
  transfers of 1 or 2 against a maximum of 3 are enough to reach the edge of two
  adjacent windows. `StrayFunds` lets a third party send a token to
  EverclearBridge, without which that bridge never gets as far as a transfer.
- In Outflow three calls, one reset and windows of 1 and 2 put a full limit on
  both sides of a boundary; amounts 1 and 3 at prices 0 to 2 with a scale of 2
  make the conversion round. The limits tried are no limit, 2 and 3, and change at any time.

- In Risk the prices (0 and 16 for the collateral, 10 for the debt, at scale 4), the collateral
  factor 3 and the exchange rates 4 and 6 are chosen so that products do not divide evenly:
  with 0 in place of 1 in `CallsLeaveAtMostDust` TLC finds a counterexample, so
  the unit of rounding is reached. Price 0 is a feed that answers nothing.
  Two mTokens and two units of debt per account suffice for a partial redemption,
  a partial liquidation and one that takes everything. The accounts are
  interchangeable in every action and only safety is checked, so symmetry over
  them is sound.

- In Market the scale is 10, the rate of the first mint 0.9 and amounts are 2 and 5, so
  that hardly a product divides evenly; the first mint sets aside 2 mTokens. Why that rate is
  not above one is said under [Proofs](#proofs). Four calls
  and two blocks are enough to mint, borrow twice, accrue and then redeem, repay or
  liquidate. Cash that comes in is bounded by 12; the supply cap of 12 and the borrow
  cap of 11 are reached, and the limit of 6 on the rate stops the market at high utilization until
  the admin lifts it. `StaysComputable` and `RateFallsByRounding` are about a market with a
  supply. Accounts are interchangeable and only safety is checked,
  so symmetry over them is sound.

- In Rewards the scale is 10 and that of the reward indices 12, speeds are 5 and 5, or 2 for suppliers
  alone, and amounts are 2, so that neither an index nor a credit divides evenly. Two blocks and
  four calls of market and distributor together are enough to set a speed, mint, let a
  block pass, move or seize mTokens and claim; 4 reward tokens come in at a time, fewer than
  a block may give out. Accounts are interchangeable and only
  safety is checked, so symmetry over them is sound.

- In Coprocessor all four mainnet chains exist. Ethereum grows from number 4 to 5,
  Linea from 4 to 5 (it posts what lies two below its head), the OP-stack chains
  from 2 to 3, and one reorganisation (`MaxForks`) of up to two blocks may hit any
  of them between any two reads. One is enough for every pair of reads to disagree
  and for a proof made before it to lose its block; a proof needs blocks two
  deep, so that these numbers reach both sides of the depth. Requests are one per kind of
  chain, with and without inclusion, by this host and by another prover; chains
  that the request does not look at stand still. The portal of Base has two games won
  long ago, so that the latest one may change between the host's two reads, one
  won at block 2 on a wrong claim and one on a wrong claim of a type that is not
  respected. With a delay of 2 blocks and a slack of 2 the guest takes the wrong claim as soon as its game
  is a block old, while the guardian may wait for the second: that is at block 3, which a
  journal can be read from once Ethereum has come to 5. TLC reaches such a journal in
  four steps, so the exception in `InclusionRestsOnEthereum` is one that happens.
- In ProofRequests every kind of request is combined with two and three chains, none,
  inner and outer lists that do not match, a testnet chain and an unknown one.
  The theorems hold for any requests.

`LiquidationsHelp` has a premise that the code does not enforce, `IncentiveCovered`:
collateral factor times incentive at most one, as the two are computed. The setters of the two do not
compare them, and past that product a liquidation takes more counted collateral than it
frees debt; the owner has to keep them apart. The product alone is not enough, because
prices are truncated: at a scale of 10, with a factor of 0.6 and an incentive of 1.6, an exchange rate of 1.9
and a collateral price of 0.1, an mToken sells at 0.1 and counts 0.1, so that repaying 10 tokens
of price 1 takes 160 mTokens that counted 16. At a scale of 1e18 this needs a
token worth next to nothing. In the run the factor of three quarters with an
incentive of a quarter satisfies the premise.

`CHECK_DEADLOCK FALSE` is set because the bounds on counters, proofs, calls and time
stop every model eventually; the contracts themselves are never unable to take a
call. There is one user in the cross-chain runs; the accumulators are separate mappings per
account and the proofs below hold for any number of accounts.

## Fairness

`FairSpec` of `MaldaCrossChain` says what the off-chain services are there for,
and nothing about users or guardians:

- weak fairness of `ProveAccount`: the sequencer proves the state of every
  account and chain that it has not proved yet;
- strong fairness of `PayOut` and `CreditDeposit`: it keeps submitting what it
  holds. Strong, because a guardian may pause and unpause, and a rebalancing may
  empty a gateway, between its attempts;
- strong fairness of `Refill`: the rebalancer again and again sends liquidity to a
  gateway that owes and is empty, at no fee. The contracts do not promise it,
  `GUARDIAN_BRIDGE`'s and the rebalancer's operators do (docs, "Rebalancing");
- weak fairness of `OutflowWindowElapses`: time passes the end of a window, so the owner does not
  lengthen it for ever. The volume of the next window is there for everyone; that others
  are not always faster than the sequencer is what the strong fairness of `CreditDeposit`
  says. `DepositEventuallyCredited` further asks that halts and refusals stop
  and that the market is open or the smallest amount opens it; the limit itself need not stop. The smallest
  amount is within every limit tried: a deposit is credited in parts, and no part is smaller;
- weak fairness of `Deliver`: a relayer fills each bridge deposit. The Payouts run
  has no expiry and no fees, because tokens lost in a bridge are lost to the
  protocol and someone would stay unpaid.

`Spec` of `ProofRequest` has weak fairness of the host's own steps (a future that
is ready is polled), of a task that does not hang, of the guest
where it runs in this process, and of time (an expiry passes). Nothing is assumed
of nodes, of Bonsai or of the market: a read or a call that never returns is a step of its own, which
may be taken instead of an answer. `EveryRequestEnds` names the three waits that nothing in the code ends: of
`join_all` for a task that hangs (`WaitsForTask`), of the host for a call that hangs (`WaitsForCall`), and for a
session that stays `RUNNING` (`WaitsForSession`). Everything else, panics, errors, partial answers and an expiry
in any order, ends the request.

Nothing in the contracts lets a transaction happen by itself, so without these
assumptions no liveness holds. What holds without them is the pair
`SelfServicePayout` and `SelfServiceCredit`: the account's own call would succeed.

## Proofs

`MaldaCrossChain_proofs` proves, with TLAPS and for every set of users, chains,
markets and amounts and every value of the bounds:

| Theorem | Statement |
|---|---|
| `TypeCorrect` | `Spec => []TypeOK`: no unsigned subtraction goes below zero |
| `IInvHolds` | `Spec => []IInv` |
| `DoubleCreditImpossible` | `Spec => []NoDoubleCredit` |
| `DoublePayoutImpossible` | `Spec => []NoDoublePayout` |
| `ProofsNeverAhead` | `Spec => []JournalsNeverAhead` |
| `BooksBalance` | `Spec => []Conservation`: what gateways, host and bridges hold, with what bridges kept, is what the books promise |
| `DepositsRefineLedger` | `Spec => DepositLedger!Spec` |
| `WithdrawalsRefineLedger` | `Spec => WithdrawalLedger!Spec` |

The invariant is `IInv == TypeOK /\ JournalsNeverAhead /\ NoDoubleCredit /\
NoDoublePayout`. None of the last three is inductive alone: a claim is bounded
by the journal presented, so that it does not exceed what the other chain has
needs the journal to be not ahead of that chain. `JournalsNeverAhead` in turn
holds because accumulators only grow and a new journal copies them. That nothing
is ever credited for the host chain itself (the second part of
`NoDoubleCredit`) is needed because a proof *of* the host *for* the host has the
right destination: it is harmless since `inPerChain` of the host is always zero, so
such a proof shows nothing available.

The lemma `StepKinds` sorts every step by what it does to the accumulators and the
journals: a supply, a payout, a credit, a withdrawal owed, a new proof, or neither
changed. One lemma per kind then shows that `IInv` is preserved, and the same
kinds map to `Credit`, `Claim` or a stutter of `CreditLedger`.

`Conservation` is inductive together with `TypeOK` alone. Each of its terms is a sum over
accounts or chains, and a call changes one entry of each of two or three of them by the same
amount. `FiniteSums` has the facts this rests on. A sum of the community modules is
a recursion over the subsets of a set, so they are proved by induction on a finite set. An
induction rule over a predicate cannot be instantiated by the installed provers; here it is stated
over a *set* of sets, `FiniteSetInduction`, and proved from `WFMin`, that a well-founded order has
minimal elements. `SumRecursion` then unfolds a sum by an element, and `SumAdded`, `SumTaken`,
`SumOneChanged` say what changing one entry does to it.

`Rebalancer_proofs` proves, for every set of chains, markets and tokens, every length of the window and
all amounts and limits:

| Theorem | Statement |
|---|---|
| `RebalancerTypes` | `Spec => []TypeOK`: no transfer takes more than a market or `EverclearBridge` holds |
| `LanesStayBounded` | `Spec => []SlidingBound`: less than twice the largest maximum in force passes in any interval as long as a window |
| `EverclearStrands` | `Spec => []OnlyEverclearStrands` |

`SlidingBound` speaks of all intervals and all of the log, the code of one counter and the start of
its window. The invariant that relates them is `WindowKept`, for each lane: what was sent since the window's start
is at most the size kept; every interval that begins in the window, and every one that ends just
before it and is no longer than a window, stays below the maximum that one of its messages was sent under; and every interval
as long as a window stays below twice such a maximum. A message within the window (`SameWindow`) adds to the size that the
code compares; one that renews it (`NewWindow`) makes the current window the last one, which is
where the second part comes from, and an interval that reaches into the new window overlaps those two only
(`TwoWindows`). The amounts compared with a maximum include the message sent under it; the maximum may have
been changed between two messages, which is why the bound is the largest one in force when a message of
the interval was sent.

`OperatorRisk_proofs` proves, for every set of accounts and markets and every
price, rate, factor, incentive and bound:

| Theorem | Statement |
|---|---|
| `RiskTypeCorrect` | `Spec => []TypeOK`: no call takes more mTokens or debt than there is, the seized part included |
| `ListsAgree` | `Spec => []AssetsMatchMembership` |
| `DebtsStayCounted` | `Spec => []DebtsAreCounted` |
| `CallsLeaveDustOnly` | `Spec => CallsLeaveAtMostDust`: no call but a liquidation makes anyone short by more than a unit |
| `LiquidationsHelpBorrowers` | `Spec => LiquidationsHelp`: with the incentive covered no liquidation deepens a shortfall by more than a unit |

The invariant is the conjunction of the first three. The list of an account's markets changes in two
ways only, `Entered` and `SwapAndPop`; the lemmas `AppendDistinct` and
`SwapAndPopDistinct` say what each does to a list without repetition, and
`ActivateKeeps` and `ExitKeeps` carry that to the states. That swap and pop takes
out exactly one market needs the list to be free of repetition, which is why
that is part of the property. `DebtsAreCounted` holds because borrowing enters
the market, leaving is refused to debtors and interest grows only debts that
exist. `ShareIsPart` and `SeizeTokensNat` are the arithmetic of a liquidation: the
protocol's share of the seized mTokens is at most the whole.

A shortfall is a difference of two sums that the code forms along the list of an account's
markets, one truncated term at a time. `ListSum` turns a sum along a list without repetition into one over the
set of its members, so that `AssetsMatchMembership` is what makes the order and the history of the list irrelevant;
with `DebtsAreCounted` the set may be enlarged at will on the side of debts. A call then
changes one or two terms: whoever loses no mTokens and gets no debt is not shorter (`NoShorter`), whoever
redeems, transfers or leaves had that much to spare when the hook asked (`LosesSpare`, `ExitLeavesLiquid`), and the one unit of `CallsLeaveDustOnly` is
that the hook converts balance and debt apart from the amounts asked for, two truncated products where one
is formed afterwards (`MulExpSum`, `BorrowLeavesDust`). For a liquidation, `SeizedWorth` is the argument on paper: what is seized at the
truncated ratio counts for at most what is repaid. `SeizeIsCovered` carries it through the
truncations of `liquidateCalculateSeizeTokens`.

`OutflowLimit_proofs` proves, for every set of markets, amounts and prices, every finite set of
limits and every set of windows:

| Theorem | Statement |
|---|---|
| `OutflowTypes` | `Spec => []TypeOK`: the window never starts in the future, and the counter fits the largest limit |
| `OutflowStaysBounded` | `Spec => []SlidingOutflowBound`: in any interval as long as the shortest window pass at most two limits, and one for each reset by the owner |

The code clears its counter when a call finds the window elapsed, and when the owner resets it. Between two clearings at
most the limit passes, so that a set of calls is `Covered` by as many limits as there are clearings among them, and one more.
`RecentKept` says this of the calls since any moment, and tells whether the current window began before or after
it; `PastKept` says it of every interval no longer than the shortest window so far. An interval
that long sees at most one renewal, because consecutive ones are more than a window apart, and any number of resets, which
the history `resets` counts: `resetOutflowVolume` clears the counter and leaves the start of the window where it was. A window that
is made shorter later only makes the intervals shorter (`ShorterKept`).

`ProofRequest_proofs` proves, for every set of requests of any length:

| Theorem | Statement |
|---|---|
| `InvariantHolds` | `Spec => []IInv` |
| `TypesHold` | `Spec => []TypeOK`: in particular no panic gets out of `prove` and `prove_sdk` |
| `SuccessIsComplete` | `Spec => []JournalIsComplete` |

That a success is complete although failed tasks are dropped is a counting argument.
`GuestProgress` says that the chains still announced plus the slots answered are
the chains asked for, that the chunks still to read are of slots not answered yet, and
that `output` has the queries of the answered slots. The guest commits only when
nothing is announced any more; then as many slots are answered as there are, so
all are (`AllSlots`). `GuestWaits` says that the guest does not run before the input
is there, and `SuccessIsOfACommit` that neither Bonsai nor the market reports a
success before the guest has committed.

`Coprocessor_proofs` proves, for every set of live mainnet chains, every set of
requests and portals, and every bound on blocks and reorganisations:

| Theorem | Statement |
|---|---|
| `InvariantHolds` | `Spec => []IInv` |
| `DeepStays` | `Spec => []DeepBlocksStay` |
| `ProvenBlocksStay` | `Spec => []ProvenBlockStays`: no proof speaks of a block that is dropped later |
| `ProvidersKept` | `Spec => []OnlyGameCallSwitchesProvider` |
| `FactsHold` | `Spec => [](IInv /\ RInv)` |
| `CoprocessorTypes` | `Spec => []TypeOK` |
| `JournalsNameTheirChain` | `Spec => []JournalNamesItsChain`: a journal speaks of the chain it names |
| `InclusionIsSound` | `Spec => []InclusionRestsOnEthereum` |
| `HonestHostsAreServed` | `Spec => []HonestInputsAccepted`: an honest host is refused only when the chains got in its way |

`DeepBlocksStay` is about all branches there ever were: any of them has the
canonical chain's block at every place that is `ReorgLimit` below its tip. It is
preserved because a reorganisation keeps everything `ReorgLimit` below the longest
chain (`top`), and `BranchesTyped` says that no branch is longer. To use it for a
journal one must know that the headers linked were published at all. For the host
that is `HostInv`, as each header it holds was read from a canonical chain, perhaps
at different times; for another prover it is the range of its inputs, and
for Ethereum `OriginsPublished`: whatever an Optimism block names as its
origin is published. `Accepted` then takes from `GuestAccepts` that there are at least two
linking blocks, the first on the environment and the second on the first, so that
the environment is `Deep`: a prefix of a published block, `ReorgLimit` or more
below it (`HostIsDeep`, `OtherIsDeep`). `DeepIsAncestor` closes the argument.
The host's headers need not be of one branch for this: the parent hashes make them so.

The next three theorems need a second invariant, `RInv`, which says what the pieces of an input are and
not only how deep they lie. `Right` is what is meant of a journal: its environment is a block of the chain it
names, or of Ethereum with a claim that was won rightly there, or Linea has posted at least its number. The
lemma `AcceptedIsRight` derives it from `GuestAccepts`, by the kind of chain: a signature that verifies is one of
the chain of the signed block (`SignedByVerified`), so that an OP-stack header is right when the signed
one is and linked up to (`SignedHeaderRight`); an Ethereum hash is right because a signed Optimism block
names it (`AttestedPublished`); a Linea header carries its own signature; a claim is right because the
game was won, not blacklisted, of the respected type and older than the delay less the slack, and the guardian, who
may take the whole delay, has watched until then (`AcceptedGame`, which is where `Watchful` is used). That leaves
`LastSlack`, the end of the delay, in which a claim may be accepted that is wrong. What is right at that time must stay so. `EthereumSound` says that along every branch
of Ethereum a game once won stays won, with its claim and since when, and posted numbers only grow (`Keeps`); with `JournalDeep` the block that a settled
journal rests on stays in the chain, so the head still has the game (`HeadKeeps`). `Facts` and `StepFacts` say what
the host holds at each step: an inclusion environment only where inclusion was asked for, and so on. For another prover none of this is
assumed: its inputs range over everything published.

`HonestHostsAreServed` is the other direction: not that what is accepted is right, but that what is right is accepted.
Its invariant, `QInv`, says that as long as no chain has been reorganised everything the host
holds is `Canon`, a prefix of the chain as it is (`Held`, step by step: which piece, of which number). Growth leaves
such prefixes alone (`CanonStays`), and two of the same number are the same (`CanonSame`), so that the block
read by number is the one that was signed (`SignedBlockRead`), the linking blocks are each other's parents
(`LinkedPair`), and the origin that Optimism attests is the block linked up to. `HonestAccepted` puts the five kinds of
input through the checks of the guest. Dispute games are read twice while the portal moves: `PortalsGrow` says that games and
retirements only move on, so that a portal that is the same at two blocks was the same in between
(`PortalBetween`), and a game that is latest at both heads has the same claim. That is where the proof found a case that
the small instance had not: with a slack longer than the reorg depth, as the code has it (300 seconds against two blocks),
a newer game can become final between the host's two reads of the latest one (`viewcalls.rs:1796` and `1483`) without any change
of the portal. The state called in is then not the one that the Ethereum environment carries, and the request
fails. `ChainsGotInTheWay` names this case (`NewerGameInTheWay`).

`MTokenMarket_proofs` proves of the market, for every set of accounts, rate models, amounts, caps and
limits, every scale and every share of seizures:

| Theorem | Statement |
|---|---|
| `RateGrowsWithUse` | a higher utilization never has a lower borrow rate, across the kink too |
| `SuppliersEarnNoMore` | what the supply rate pays is at most what borrowers pay |
| `MarketTypes` | `Spec => []TypeOK`: no subtraction underflows, no balance is divided by an index of zero |
| `SupplyHeld` | `Spec => []SupplyIsHeld`: what all hold is the supply, and what was set aside stays so |
| `PoolStaysBacked` | with `InitialRate <= Scale`, `Spec => []StaysComputable`: exchange rate and utilization never divide by nothing |
| `DebtsStayNearBook` | `Spec => []DebtsNearBook`: all debts together exceed the book by `drift` at most |
| `RoundingFavoursPool` | `Spec => RateFallsByRounding` |
| `CallsKeepOthersDebts` | `Spec => OthersKeepDebts` |

Types are the invariant that both action properties follow from, step by
step. All the arithmetic is in a few lemmas about `\div` (`Quotient` and its
kin, which bound a truncated quotient from both sides), since the provers know little of
division and nothing of products of variables: each use states which product is
compared with which. For the exchange rate, `SettledBook` says that settling does not
lower it (reserves get at most the interest), and `FairExchange` that shares
issued or burnt at a truncated rate are worth no more than what is paid for them; the one case that
rounds the other way, `redeemUnderlying`, costs less than one share. For debts,
`SettlingKeepsDebt` says that writing the index of the settled block, at the same time,
leaves what every account owes where it was, so that only the account whose
snapshot is written can change; a second settling in one block is none.

`StaysComputable` needs `Backed`: the assets of the pool are never negative, and positive while there are
mTokens. Settling adds to them (`PoolGrows`), and a redemption takes no more than the
mTokens burnt are worth, so that something is left as long as mTokens are, which is always since those set aside
are a part of the supply that no holder can redeem (`SupplyIsHeld`). The theorem has a hypothesis, and it
is needed: with an initial rate above one, `redeemUnderlying` in a market without a supply pays out small amounts
for no mTokens at all, out of reserves if there are any, and the first mint after it starts from assets below
zero. The constructor requires only that the rate is positive (`mToken.sol:58`); the deployments of the tests use 0.02
(`CrossChainTest.sol:123`), the run 0.9.

`DebtsNearBook` is not inductive: two debts truncated to whole units do not tell how much of their
fractions the next accrual makes whole. `DebtsShared` says it of the debts with their fractions, at every resolution `k`: they
are shares of the book and its drift, and an accrual enlarges both sides by the same factor, up to what
truncation takes off the book, which is what `drift` counts. Repaying
and borrowing write a whole debt, and move book and account by the same amount.

Of the rewards the same module proves, for every pair of speeds, every grant and funding and every scale of the
reward indices:

| Theorem | Statement |
|---|---|
| `RewardsTypes` | `RewardsSpec => []RewardsTypeOK`: no account's index is ahead of its side's, so that no credit underflows |
| `NothingEarnedIsLost` | `RewardsSpec => []EarnedIsKept` |
| `SuppliersGetNoMore` | `RewardsSpec => []RewardsCovered`: suppliers are credited with no more than the speeds gave out, and the windfall |
| `CallsKeepOthersEarnings` | `RewardsSpec => CallsKeepEarnings` |

`RewardsStep` first shows that a step with rewards is a step of the market or leaves it alone, so
that `TypeOK` carries over. The invariant is `RewardsKept`, types and
`EarnedIsKept`. That indices only grow needs the last conjunct of `RewardsTypeOK`: an index has
started, or its speed is zero. For a speed of its own would move an unstarted index below
`REWARD_INITIAL_INDEX`, and starting it afterwards would push it back. For
`CallsKeepEarnings`, notifying a second time in one block changes nothing (`NotifiedOnce`), so
what a side's index comes to in this block is the same before and after any call
(`SupplyIndexKept`); who is notified has his earnings booked with the balance that he had
(`NotifiedEarnings`), and who is not has the same balance as before (`OtherEarnings`), but for a mint to
another.

`RewardsCovered` compares a sum of truncated credits with what the speeds gave out. Its invariant,
`WorthCovered`, counts in exact fractions and includes what is still to come: what holders were credited with, what
they would be at their next notification, and what the blocks since the last notification of the side
give out, are together within what was emitted and the windfall. Notifying the side turns emission
into a growth of the index times the supply, rounded down (`SupplyIsHeld` makes that the sum over holders); notifying an
account turns its growth into a credit, rounded down; a transfer after both moves nothing. That an index of zero
means "never notified" is what the other conjuncts are for: a holder's index is zero or at least
`REWARD_INITIAL_INDEX`, and before the first mint the side's index is no higher than that.

Assumptions, all of them evaluated by TLC in every run. In `MaldaTypes` and `MaldaCrossChain`: `HostChain` is not
an extension chain, users and extension chains are finite sets (both are integers of a fixed
width in the code), the market is a market, amounts are positive naturals, bounds are naturals, foreign proofs are of other
markets. In `OperatorRisk`: scale, rates and initial rates are positive, prices, factors and incentives natural numbers, the protocol's
seize share at most 1. In `MTokenMarket` (`ScaleAssumption`, `SeizeShareAssumption`, `MarketAssumption`): accounts are finite,
scale, initial rate and what the first mint sets aside positive, everything else natural
numbers, the reserve factors the admin may try unbounded. In `MaldaHost` (`HostAssumption`): limits and the first mint are natural numbers, the refusals
those of the market. In `RewardDistributor` (`RewardsAssumption`): its scale is
positive, speeds and funds are natural numbers. In `Rebalancer` (`RebalancerAssumption`): bounds and limits
are natural numbers. In `OutflowLimit` (`OutflowAssumption`): its scale is positive, everything else natural, and the limits
that the owner may set are finitely many, as a uint256 has them. In `ProofRequest` (`RequestsAssumption`): the shape of a request. For `Coprocessor`:
`ChainsAssumption` (chains are of mainnet, Ethereum, Optimism and Linea among them, no OP-stack chain
starts ahead of Ethereum), `GamesAssumption` (the games that a portal has at first are of its own chain, and the
guardian has been watchful so far), its own `RequestsAssumption`, and `DepthAssumption`, that reorganisations
go no deeper than the depth configured for each chain. That the guardian goes on being watchful is no assumption on
a constant but part of what Ethereum's blocks may hold (`PortalSteps`).

Only model-checked are liveness (`WithdrawalEventuallyPaid`, `DepositEventuallyCredited`, `EveryRequestEnds`)
and the `ENABLED` properties (`SelfServicePayout`, `SelfServiceCredit`, `LimitReopens`,
`FreshWindowAccepts`), which the provers do not do. Every other property of a run is a theorem.

## Where code and documentation disagree

- `FreshWindowAccepts`: `Rebalancer.sendMsg` checks the copy of the window that
  it read before renewing it. A full window blocks the next one, and because the
  revert also undoes the renewal, every later one until the maximum is raised.
  `SlidingBound` shows that the limit itself is never exceeded by this.

Met while modelling, without a run of their own:

- `EverclearBridge.sendMsg` never pulls the extracted tokens from the Rebalancer, as
  `AcrossBridge.sol:119` does, and funds the intent from its own balance: it carries nothing unless
  someone sends it tokens, and then what was extracted stays on the Rebalancer
  (`OnlyEverclearStrands`). `docs/docs.md:279` names it as a bridge in use.
- `getUSDValueForAllMarkets` (`Operator.sol:724`) continues without advancing at a deprecated market
  and never ends; it is a view, and no model calls it.
- `beforeMTokenMint` is given the minter and not the receiver (`Operator.sol:786`). An account for
  which another mints is credited for the time since it was last notified, or since rewards began if
  it never was, as if it had held these mTokens throughout: `RewardsCovered` counts that as
  `windfall`, and `CallsKeepEarnings` says that it is the only way one account's call
  changes what another has earned.
- `mErc20._getCashPrior` is documented as the tokens the contract owns (`mErc20.sol:147`) and
  returns the book cash of all chains. The cash check of a local redemption or borrow
  can therefore pass while the transfer reverts; `hostBalance` and `totalUnderlying` of
  `MaldaHost` are different variables.
- `minAmountOut`, "the minimum amount to be received" (`mToken.sol:263`), is compared before the first
  mint takes off what it sets aside, so that its receiver may get up to 1000 mTokens less.
- "The full outstanding amount" of a debt (`mToken.sol:330`) may be more than `totalBorrows`,
  because the book is truncated to whole units at each accrual and the index is
  not; repaying it then reverts until interest or another loan lifts the total.
  `DebtsNearBook` bounds the difference: a unit per accrual, and what interest makes of
  it. With tokens of 6 or 8 decimals and frequent accruals that is reached sooner.
- The constructor of `mToken` sets `borrowRateMaxMantissa` (`mToken.sol:37`, and its declaration does
  in `mTokenStorage.sol:116`), but `mErc20Host` is used behind a proxy, whose storage neither
  reaches. Such a market has no limit until the admin sets one, which is why `FirstMaxRate`
  is a constant and may be 0.

Met while modelling the proving side, and visible in the definitions without a
run of their own:

- The guest takes 300 seconds off the portal's maturity delay (`validators.rs:407-411`, and the
  host too, `viewcalls.rs:1277`), where its documentation says that it panics if insufficient time
  has passed since the game was resolved (`validators.rs:327`); `findings/06.md` calls this a bug. A
  guardian who uses the whole delay can be too late: a journal may rest on a wrong claim whose
  game is blacklisted afterwards. `InclusionRestsOnEthereum` excepts exactly
  that (`LastSlack`), and the run Coprocessor reaches it.
- `get_proof_data_env` and `get_proof_data_input` say that they panic "if parallel
  task execution fails" (`viewcalls.rs:558`, `635`), and drop the failed task with
  `filter_map` (`598`, `675`). `JournalIsComplete` shows that this costs the proof, not
  its completeness: the guest runs out of input.
- `get_proof_data_exec` promises an error (`viewcalls.rs:468`) where it panics.
- The call of an OP-stack chain with inclusion asks the *other* provider
  (`!fallback`, `viewcalls.rs:1483`) than its documentation says (`1409`).
  That it is the only one is the theorem `ProvidersKept`, which no run repeats.
- The multicall of the guest pairs users, markets and targets up to the shortest list
  where its documentation announces a panic for mismatched parameters
  (`validators.rs:670`); the host truncates target chain ids to 32 bits
  (`viewcalls.rs:1458`), the guest does not.
- Linea inclusion compares block numbers only (`validators.rs:786`), and its Ethereum
  block is not reorg-protected: `InclusionRestsOnEthereum` can therefore only say
  that *some* branch of Ethereum had a Linea block with that number.

## What is not modelled

The lending calls, the cross-chain accounting and the liquidity check are in three models
with different abstractions (`MTokenMarket`, `MaldaHost`, `OperatorRisk`) and are not composed:
each lets the others' data be anything. Allowances; overflow at 2^256; changes of the close factor and the liquidation incentive, which are
constants of `OperatorRisk`; several reward tokens (each has its own indices), their whitelist and the 32 and 224
bits of the indices;
native-coin gas fees; upgrades, ownership transfer and setters of helper
addresses; revocation of roles. Of the proving side: RLP, SSZ and ABI bytes,
Merkle proofs inside Steel and the arithmetic of signatures (an environment is its
header, a hash its history, a signature a record), chains of the testnet beyond
their tables, because the guest refuses them, and session statistics. The fuzz
targets, the PoC and the tests are test code. Wrapped
deposits (`WrapAndSupply`) and gas helpers only forward. One asset is modelled: markets
share nothing in the cross-chain accounting but the shape of their proofs, which
`OtherJournals` covers.

## Plan

In order of importance; all but the seventh are done, with what is left of each.

1. `MaldaTypes`, `MaldaGateway`, `MaldaHost`, `MaldaCrossChain`, `CreditLedger`.
2. `MaldaCrossChain_proofs`: types, no double credit or payout, refinement, `Conservation`.
3. `Rebalancer` and `Rebalancer_proofs`; `OutflowLimit` and `OutflowLimit_proofs`.
4. `OperatorRisk` and `OperatorRisk_proofs`. To add: a run with two collateral
   markets, changes of close factor and incentive.
5. `ChainParams`, `Chains`, `GuestValidation`, `ProofInput`, `Coprocessor` and `Coprocessor_proofs`;
   `ProofRequest` and `ProofRequest_proofs`.
6. `JumpRateModel`, `MTokenMarket` and `MTokenMarket_proofs`.
7. `Pauser` and `Blacklister`: list against mapping, and what
   `emergencyPauseAll` reaches.
8. `RewardDistributor`, for one reward token, with its theorems in `MTokenMarket_proofs`.
