# A TLA+ model of the rotofury chain

rotofury (called gridiron in the code) is a Cosmos SDK chain. Its own modules
keep coins mirrored in ERC20 contracts, lock coins for voting power, collect
exchange rates from validators, issue a stablecoin against backing and
collateral, and reward deposits that voters choose. This directory models those
modules in TLA+, checks them with TLC on small instances, and proves with TLAPS,
for every instance, what can be proved without induction over data.

## The system

| Part | What it does | Talks to | Modules |
|------|--------------|----------|---------|
| `x/bank` | wraps the SDK's bank keeper; repeats every move of a native coin on the coin's ERC20 contract | `x/erc20` | `BankErc20`, `BankErc20Proofs` |
| `x/erc20` | token pairs, calls of the contracts, the hook that repeats Transfer events on the bank | `x/bank`, EVM | `BankErc20` |
| `x/ve` | locks, ve NFTs, decaying voting power with checkpoints | bank, nft; called by staking, gauge, voter | `Ve`, `VeHistory`, `Escrow`, `VeProofs` |
| `x/oracle` | prevotes, votes, tally, rewards, misses, slash window | staking, bank | `Oracle`, `OracleBallot`, `OracleProofs` |
| `x/maker` backing | stablecoin by swap against backing coins and iron, the backing ratio | oracle, bank | `MakerBacking`, `MakerBackingProofs` |
| `x/maker` collateral | stablecoin as a debt on collateral, interest, liquidation | oracle, bank | `MakerCollateral`, `MakerCollateralProofs` |
| `x/staking` | undelegation, redelegation and slashing with ve records beside the SDK's | ve, bank, the SDK's staking | `Staking`, `StakingProofs` |
| `x/gauge` | deposits through a ve, rewards in proportion to tickets | ve, bank, voter | `Gauge`, `VoterGauge`, `VoterGaugeProofs` |
| `x/voter` | votes of ves for gauges, bribes, the reward index | ve, gauge, bank | `Voter`, `VoterGauge` |
| `x/vesting` | genesis allocation, vested claims, airdrops | bank, ve | `Vesting` |
| `sdk.Dec` | decimals and their rounding | all | `Decimal`, `DecimalProofs` |
| `x/ve` emission and distribution; `app`, `cmd`, clients, `testutil`, generated code | | | not modelled (below) |

Messages of a block run one after the other; then the end blockers run in a
fixed order (`app/app.go`, lines 661-690): gov, staking, evm, oracle, maker,
ve, voter, vesting. So there is no concurrency inside a node. What is hard to
test is the order of messages, blocks, slashes, restarts and governance changes,
uneven block times, prices, missing rates and rounding; these are what the models
leave open.

## How the code is rendered

* **A message is one action.** An error or a panic in a message rolls the
  transaction back, so its guard is the conjunction of the checks of the
  handler, of `ValidateBasic` and of the calls it makes.
* **An end block is one action**, with everything the end blocker does in its
  order. A panic there stops the chain: `halted` becomes true.
* **A proposal is one action**, the handler that gov executes.
* **A restart** is export followed by import of genesis: what the export leaves
  out is gone afterwards (`Staking`, `Vesting`).
* **Decimals** (`Decimal`) are integers in units of `1/Precision`, rounded as
  `sdk.Dec` does: half to even, truncated or up as the code calls it. The chain
  has 18 digits; the runs use `Precision` 100, 10 or 2, so the error of a rounding
  is large compared with the amounts and the properties have to survive it.
* **Amounts** are unbounded integers as `sdk.Int` is (up to its 256 bits).
  Bounds are constants used in guards (`LastTime`, `LastHeight`, `MaxSupply`,
  `MaxAmount`, `MaxVeID`, `MaxAttached`, `MaxAge`, `MaxVeShares`, `MaxDonations`,
  and the last fields of the records of `Explored`) or small sets of inputs.
* **Several worlds in one run.** Where one set of inputs would be too large,
  `Init` chooses a record that says which inputs this behaviour has
  (`Scenarios` of `VeHistory`, `Explored` of `VoterGauge`). Actions and
  properties are the same in all of them.
* **External code** (SDK bank, staking, slashing, nft, the EVM contract) is
  modelled from how `src/` uses it and marked external in `PROJECT.json`.
* Definitions named `Mutant...` are faulty variants of the definition that
  follows them. Nothing uses them; each shows that a property can fail.

### Ve, VeHistory and Escrow

`locked`, `owner`, `totalLocked`, `coins` and `moduleCoins` are the lock
records, the NFT owners and the balances; `point` is the newest system
checkpoint, `userPoint` the newest of each ve, `slopeChange` the schedule.
`Create`, `Deposit`, `ExtendTime`, `Merge`, `Withdraw` are the messages, `Send`
the NFT transfer, `SlashLockedAmountByUser`, `IncVeAttached`, `DecVeAttached`
and `SetVeVoted` what other keepers call, `EndBlock(gap)` the end blocker and
the next block `gap` later. `regulateCheckpoint` brings `point` to the present
in at most two rounds, as the loop in `checkpoint.go` does. `shrunk` remembers that a
live lock was merged away or slashed.

`VeHistory` adds the checkpoints of the past (`points`, `userPoints`) and the
queries that bisect them; `past` is history, the locks as they were at each
time. `Escrow` is what the module promises an owner, without checkpoints and
power: an escrow keeps its coins until its end, the end only moves forward, and
the holder of that time gets all of it. `Ve` implements it under the mapping in
`Promised`.

### BankErc20

`bank` and `token` are the two ledgers, `registered` the native coins with a
pair, `external` the users' contracts with one, `metadata` the coins whose
metadata was set. Each operation of the wrapped keeper changes both ledgers.
`EvmTransfer` and `EvmBurn` are a call of a native coin's contract followed by
the hook: the bank operation the hook performs goes through the wrapped keeper
(`app/app.go:485`), so the contract moves a second time. `evmMoved` remembers
the coins that an EVM transaction moved.

### Oracle and OracleBallot

`OracleBallot` has what is computed from one ballot: power, weighted median,
cross rates, winners, the reference denomination. `Oracle` has the stores
(`rates`, `feeder`, `prevote`, `vote`, `missCounter`, `targets`), the reward
`pool` and the validators as staking sees them (`status`, `jailed`). `EndBlock`
lets staking change the active set first (the order in `app.go`), then tallies at
the end of a vote period and slashes at the end of a window. The order in which
Go iterates the map of ballots is a nondeterministic choice. `Halt` is the nil
validator in `SlashAndResetMissCounters`, or rewards that cannot be paid.
`committed`, `credited` and `tallied` are history.

### MakerBacking and MakerCollateral

The two halves of `x/maker` share no store, only the messages' file. All users'
coins are one wallet, since no handler depends on who holds what; positions
are per account. `MakerBacking` has `MintBySwap`, `BurnBySwap`, `BuyBacking`,
`SellBacking`, `RegisterBacking`, `SetBackingRiskParams` and the `EndBlock`
that adjusts the ratio. `MakerCollateral` has `MintByCollateral`,
`BurnByCollateral`, `DepositCollateral`, `RedeemCollateral`,
`LiquidateCollateral`, `RegisterCollateral`, `SetCollateralRiskParams`. At the
end of a block the oracle (external here) stores any of the `Quotes`, in which
rates may be missing; `Halt` is the panic of the adjustment without a rate.
`ValidRiskParams` is what the validation of a proposal requires of a listing and
of a patch; the proofs need it.

### Staking

`ubd` and `red` are the SDK's unbonding and redelegation records, `veUbd` and
`veRed` the number of ve entries kept beside them. `Delegate`, `CreateValidator`,
`Undelegate`, `BeginRedelegate`, `Slash`, `EndBlock` and `Restart` are the
actions; `SlashPanics` is a slash that finds the records inconsistent, in a
begin blocker, which stops the chain. The end blocker that runs is the SDK's
(`x/staking/module.go` embeds the SDK's `AppModule`). Times are kept relative to the block, so
behaviours have no last block and liveness can be asked. `unpaired` remembers
that an entry matured or a restart lost the ve records.

### Gauge, Voter and VoterGauge

No message reaches these keepers yet, so the actions are their exported methods.
`Gauge` is one gauge with its deposits, tickets (`derived`), the three
histories of checkpoints and the reward; `Voter` has votes, bribes, the reward
index and what gauges can claim. `VoterGauge` composes them: a claim at the gauge first
makes the voter distribute, both count in the same ve, and a ve that is attached
or has voted is not sent. Where the code would read a checkpoint that was never
written it panics, so the action is not enabled.

### Vesting

Three vesting accounts, the custodian and team addresses, the airdrops pending
and done with their total. `EndBlock` claims what has vested at the end of a
claim period; `AddAirdrops`, `ExecuteAirdrops`, `SetCustodian`, `SetTeam` are
the messages, `Donate` a transfer by anybody to a vesting account, `Restart` export and import. The
height is kept modulo the claim period and the time up to the end of vesting, so
behaviours have no last block.

## Runs

Passing runs:

| Run | Instance | Shows |
|-----|----------|-------|
| `ve` | two users, two ves, period 2, longest lock 4, gaps 1 and 3, to time 7; one user with recorded checkpoints, or two who send, attach and vote | coins backed, every line, schedule entry and total is what the locks entitle to, past powers are found, attached ves stay, `Escrow` is implemented |
| `bank` | two users, a module that mints and pools, a coin held at genesis, one held by nobody, gas, a user's contract; amounts to 2 | ledgers equal until an EVM transaction, supplies ordered afterwards, held coins have pairs |
| `oracle_periods` | two equal validators, period 2, window 4, two windows, unbonding time 1 or 4, a pool that pays one or two winners | votes fresh, misses of this window, the end blocker panics only on a removed validator, everything pending is settled |
| `oracle_tally` | powers 1, 1 and 2, two denominations, period 1, two tallies of votes: any that agree, disagree, leave out and abstain, then a new price of one denomination | rates supported, rewards backed, no dependence on map order, abstaining absolves |
| `maker_backing` | two backings, three quotes (one without a rate of grid), a genesis ratio of one or 0.4, four blocks, changed fees and limits, a reback bonus of one half | books, accounts and supply agree, limits hold, no value leaves but the bonus, trades go towards the ratio, the ratio goes against the price |
| `maker_collateral` | two accounts, two collaterals, three quotes (one without a rate of a collateral), two wallets, three blocks, changed thresholds | positions, pools, totals and the account agree, debt covers supply, collateral is sold only when due |
| `vesting` | allocation 3, 1 and 5 over four seconds, gaps 1 and 3, claims every second block, three airdrop lists, a blocked target, restarts | nothing early, nothing lost, airdrops within their cap, everything is released in the end |
| `staking` | one delegator, two validators, unbonding time 2, two entries, slash factor one half, two geneses, restarts | pools cover stakes, shares are those of delegations, ve records paired until an entry matures, unbonding coins are paid |
| `voter_gauge` | two ves in four parts: votes for and against two gauges; deposits and rewards by two ves over three blocks, or by one over four; both with two owners and deposits of zero | books of votes and deposits agree, claims are covered, the bisection is exact, rewards are funded |

Runs that show a disagreement between the code and what it says of itself:

| Run | Text | What the code does |
|-----|------|--------------------|
| `ve_two_rounds` | `x/ve/keeper/checkpoint.go:130`: the loop "will not exceed two rounds" | A lock created just before a regulated time `r` leaves a checkpoint there. `EndBlocker` acts once a full period has passed since that checkpoint; if the first such block is after `r` plus a period, a third round is needed and it panics. With a checkpoint one second before `r`, blocks three seconds apart suffice. |
| `bank_consistent` | `x/erc20/keeper/invariants.go:17` and the spec's README | After an EVM transfer of one coin, the bank has moved one and the contract two. |
| `staking_paired` | `x/staking/keeper/delegation.go:498`: panic("inconsistent ve unbonding delegation entries") | The SDK's end blocker removes a mature entry and not its ve entry, so a record with a second entry has more ve entries than entries. |

**Bounds.** `ve` needs two ves (merge, sums), two users (send), two lock lengths,
a gap longer than the period, and time to outlive a lock and to have two
checkpoints before a query. Two periods make a window in `oracle_periods`, and it
runs over two windows so that counters could survive one. In `oracle_tally`
ballots pass, fail and tie; a denomination that passed in the first tally may
fail in the second, so a rate could survive; and when the two small validators
are the active ones, one vote of power one passes beside an abstention and the
median is the abstention. `Commitments` bounds which contents are committed to in
which block, so that a second tally is in reach. The maker runs have fees, limits, parameter changes
and prices on both sides of the thresholds; their last heights let the ratio
adjust twice and interest fall due twice. In `vesting` no amount divides evenly
over the vesting time and a gap can jump over a claim. In `staking` two
entries of one record are what a mature one and one in flight need, and a slash
can hit an entry, a redelegation and the stake. In `voter_gauge` a period has two
blocks, so a reward is extended while it is paid and claimed after it ended.

Symmetry is used only over users, accounts or validators that the instance
treats alike, and in no run with a liveness property. `CHECK_DEADLOCK FALSE` is
set where the bound on time or height, or a panic, ends the behaviour.

**Fairness.** Only the end of a block is fair, weakly, in `Vesting`, `Staking`
and `Oracle`: consensus goes on making blocks, whatever messages are in them, as
long as there is a validator who is not jailed. No message, vote, slash or price
is assumed to arrive, so the liveness properties say what the end blockers alone
bring about: vested coins are released (`AllReleased`), unbonding coins paid
(`UnbondingsEnd`), prevotes, votes and misses settled (`AllSettled`).

**What the properties leave out.** Some hold only up to an event that the code
does not recover from; a history variable or a premise names it. `TotalPowerIsSum`
ends when a live lock shrinks (`shrunk`), the equalities of `PoolsCover` when a
slash burns less than it takes off a validator (`underBurned`), `PairedUntilMature`
when an entry matures or a restart loses the ve records (`unpaired`),
`MirrorUntilEvm` with the first EVM transaction of a coin (`evmMoved`),
`AirdropsWithinCap` counts since the last genesis, and `RewardsFunded` leaves out a
ve with a checkpoint at the time of the first reward. `RatesSupported` admits a rate
of zero that one unit of power supports.

## Proofs

The theorems hold for every value of the constants that the named assumption of the
module allows (any sets of users, validators and coins, any period, any precision, any
bound).

| Theorem | Statement | Inductive invariant, and why it is needed |
|---------|-----------|-------------------------------------------|
| `BankErc20Proofs`: `BankTypeCorrect`, `BankMirror`, `BankRegistered` | `[]TypeOK`, `[]MirrorUntilEvm`, `[]HeldIsRegistered` | The conjunction of the three. A balance stays natural on the contract because it equals the bank's; ledgers stay equal through a mint only because the coin was held on neither before its pair existed; a held coin stays registered because a transfer needs a pair. `Frame` reduces an action to "both ledgers change alike unless the coin is marked". |
| `VeProofs`: `VeImplementsEscrow` | `ImplementsEscrow` | `LockTypes`: types of locks and balances and ids given out in order. One lemma per action shows which step of `Escrow` it is; powers and attachments stutter. |
| `VeProofs`: `AttachedVesStay` | `AttachedStays` | `LockTypes`, and that ids not given out have no owner: otherwise `Create` could take a ve over. |
| `OracleProofs`: `VotesStayFresh` | `[]VotesFresh` | `Fresh`: a vote is of the running period, and a prevote is no older than what the clearing at the end of this period lets stand, measured by the position of the block in its period. |
| `OracleProofs`: `MissesStayInWindow` | `[]MissesOfThisWindow` | `Misses`: a counter is at most the periods that ended since the window began; also for windows that are no multiple of the period. |
| `StakingProofs`: `RecordsStayPaired` | `[]PairedUntilMature` | `Inv`: unless unpaired, every record is a sequence as long as its ve record; the lengths through removal and slashing of entries need sequence lemmas. |
| `MakerBackingProofs`: `AccountsStayMatched` | `[]AccountsMatchBooks` | Types (among them that fees are fractions, which the validation of a proposal gives) with `AccountsMatchBooks`: a fee is then between zero and the amount, so it moves nothing off the books. |
| `MakerBackingProofs`: `LimitsAreKept`, `RatioKeepsFollowing` | `LimitsHold`, `RatioFollowsPrice` | The same invariant, as a step invariant. |
| `MakerCollateralProofs`: `DepositsStayHeld` | `[]DepositsHeld` | Types, `Positions` (debt and interest natural, interest within debt, settled not after now) and `AccountHolds`. `BooksStep` is the argument all five messages share: what the position and the books gain, the module account gains. |
| `VoterGaugeProofs`: `AttachedStaysOnce` | `[]AttachedOnce` | Types and `OwnVe`: the ve an owner deposits through is one of that owner's. Without it a sent ve could be counted for the old owner. |

`DecimalProofs` has the facts of rounding the maker's proofs share, above all
`FeeWithin`: a rounded fee is at most the amount. `DepositsHeld`, `AccountsMatchBooks` and `AttachedOnce` are
the parts of `TotalsAreSums`, `BooksMatchSupply` and `DepositBooks` that are not sums.

Only model-checked:

* liveness, which the prover does not do;
* what sums over a set or computes by recursion or search (supplies, totals of
  votes and debts, `TotalPowerIsSum`, medians, `PastPowersFound`,
  `PriorEpochExact`), which would need induction over data;
* `EquityKept`, `TradesTowardsRatio`, `RewardsFunded`, `ClaimableBacked`, `PoolsCover`
  and the other properties of values, whose products and quotients of
  variables are out of the solver's reach;
* `SafeUnlessDue`, which is not true of all parameters: for a catalytic
  ratio of a few units in the last decimal, the rounding in `MintLtv` can pass
  the loan-to-value bound. The parameters of the run are of the order the code's
  defaults have.

## Not modelled

* **Generated code**: codecs, gateways and clients from the `.proto` files, about
  69% of the lines under `src/`. The definitions map to a little less
  than a quarter of the hand-written rest, which also has commands, clients,
  queries, simulation and test set-up.
* **`x/ve` emission and distribution.** `Emitter.Emit` returns zero before it changes
  anything (`emission.go:71`) and nothing calls `Distributor.Claim`, so no execution
  reaches this state.
* **Code that never runs.** The end blocker of `x/staking` with
  `BlockValidatorUpdates`, `CompleteUnbonding` and `CompleteRedelegation` (the SDK's
  runs); delegations with ve tokens, because `SetVeDelegation` panics on the
  address it is given (`delegation.go:285`), and with them the ve part of `Unbond`; `Gauge.DepositFees`, which panics
  because no bribe is ever set; rewards of bribes; the export for a zero height, which panics.
* **Changes of module parameters** by governance, except the maker's risk
  parameters; batch proposals, which are sequences of single ones.
* **Restart of `x/maker`, `x/oracle` and `x/ve`.** The maker's export has neither pools nor
  positions; `PROJECT.json` lists it among the hazards.
* **Estimates and queries** of the maker (`calculate*In`, `grpc_query.go`) and other
  read-only gRPC calls; they change nothing and no message uses them.
* **Small details.** Gauges whose denomination is a prefix of another's share an
  iterator. `BurnPriceBias` reads the key of the mint bias (`params.go:45`), so
  `MakerBacking` has one bias. Iron and grid are taken not to be registered as
  backings, and a genesis backing ratio to lie between none and all; the code checks
  neither. A slash for an infraction of the current block, which would spare the
  entries, has no caller. An airdrop is an amount, of the base or the display unit:
  other denominations pass the check of `ValidateBasic` (`x/vesting/types/msgs.go:46`,
  whose comment says "Only native iron coin is allowed") and are added to the same
  total. What other keepers call in `x/ve` is modelled for ves that exist and amounts
  they have, as the callers do.
* Gravity bridge, IBC, EVM, fee market, ante handlers, the transaction counter:
  libraries, thin registrations or monitoring.
