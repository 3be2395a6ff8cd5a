------------------------------- MODULE Oracle -------------------------------
(***************************************************************************)
(* x/oracle: validators commit to exchange rates (prevote) in one vote     *)
(* period and reveal them (vote) in the next; the last block of a period   *)
(* tallies the votes, pays the winners and counts the misses, the last     *)
(* block of a slash window jails who missed too many periods.              *)
(*                                                                         *)
(* The staking module is external: at the end of a block, before the       *)
(* oracle's turn, it takes the jailed validators out of the active set,    *)
(* may change the rest of it, and may remove a validator whose unbonding   *)
(* is over.  A commitment is the content it hides (the hash is taken to be *)
(* injective).  Rates are not negative: 0 stands for every abstention.     *)
(***************************************************************************)
EXTENDS OracleBallot, Functions

CONSTANTS
    Validators, Feeders,
    Power,            \* the consensus power of each validator
    Denoms,           \* the denominations, numbered in the order of their names
    Contents,         \* what a vote may contain: rates of some denominations
    VotePeriod, SlashWindow, RewardDistributionWindow,
    VoteThreshold, RewardBand, MinValidPerWindow,     \* decimals
    UnbondingTimes,   \* how many blocks an unbonding validator may be kept at least
    Delegators,       \* bound: the validators that change their feeder
    InitialPool,      \* the reward pool of each denomination at genesis
    LastHeight,       \* bound: the last block explored
    Commitments       \* bound: the contents that are committed to, by block

ASSUME OracleAssumption ==
    /\ Power \in [Validators -> Nat \ {0}]
    /\ Denoms \subseteq Nat \ {0}
    /\ \A c \in Contents : DOMAIN c \subseteq Denoms /\ DOMAIN c # {}
    /\ VotePeriod \in Nat \ {0}
    /\ SlashWindow \in Nat /\ SlashWindow >= VotePeriod
    /\ RewardDistributionWindow \in Nat /\ RewardDistributionWindow >= VotePeriod
    /\ VoteThreshold \in 1..Precision
    /\ RewardBand \in 0..Precision
    /\ MinValidPerWindow \in 0..Precision
    /\ UnbondingTimes \subseteq Nat
    /\ Delegators \subseteq Validators
    /\ InitialPool \in Nat
    /\ LastHeight \in Nat
    /\ Commitments \in [1..LastHeight -> SUBSET Contents]

VARIABLES
    height,      \* the height of the current block
    halted,      \* EndBlocker has panicked: no further block
    targets,     \* the vote targets
    rates,       \* the exchange rates in the store, by denomination
    feeder,      \* FeederDelegation; by default the validator itself
    prevote,     \* the stored prevotes, by validator: [content, submit]
    vote,        \* the stored votes, by validator
    missCounter, \* 0 is no counter in the store
    status,      \* staking: "bonded", "unbonding" or "gone"
    unbondingAt, \* staking: the height at which unbonding began
    jailed,      \* staking: the jailed validators
    unbondingTime, \* staking: its parameter, in blocks
    pool,        \* the oracle module account, by denomination
    credited,    \* the rewards the distribution module owes each validator
    committed,   \* history: the submit block of each stored vote's prevote
    tallied      \* history: the votes and the active set of the last tally

vars == <<height, halted, targets, rates, feeder, prevote, vote, missCounter,
          status, unbondingAt, jailed, unbondingTime, pool, credited,
          committed, tallied>>

stakingVars == <<status, unbondingAt, jailed, unbondingTime>>
rewardVars == <<pool, credited>>

Init ==
    /\ height = 1
    /\ halted = FALSE
    /\ targets = {}
    /\ rates = <<>>
    /\ feeder = [v \in Validators |-> v]
    /\ prevote = <<>>
    /\ vote = <<>>
    /\ missCounter = [v \in Validators |-> 0]
    /\ status = [v \in Validators |-> "bonded"]
    /\ unbondingAt = [v \in Validators |-> 0]
    /\ jailed = {}
    /\ unbondingTime \in UnbondingTimes
    /\ pool = [d \in Denoms |-> InitialPool]
    /\ credited = [v \in Validators |-> [d \in Denoms |-> 0]]
    /\ committed = <<>>
    /\ tallied = [votes |-> <<>>, active |-> {}]

-----------------------------------------------------------------------------
(* Messages and proposals. *)

\* The store operations on a map with a key per validator.
Put(store, key, value) ==
    [k \in DOMAIN store \cup {key} |-> IF k = key THEN value ELSE store[k]]
Delete(store, keys) == Restrict(store, DOMAIN store \ keys)

ValidateFeeder(f, v) ==
    /\ f = v \/ f = feeder[v]
    /\ status[v] = "bonded"

NewAggregateExchangeRatePrevote(content) == [content |-> content, submit |-> height]

AggregateExchangeRatePrevote(v, f, content) ==
    /\ ValidateFeeder(f, v)
    /\ prevote' = Put(prevote, v, NewAggregateExchangeRatePrevote(content))
    /\ UNCHANGED <<height, halted, targets, rates, feeder, vote, missCounter,
                   stakingVars, rewardVars, committed, tallied>>

\* The reveal comes in the vote period right after the prevote's.
RevealPeriod(v) ==
    v \in DOMAIN prevote /\ (height \div VotePeriod) - (prevote[v].submit \div VotePeriod) = 1

AggregateExchangeRateVote(v, f, content) ==
    /\ ValidateFeeder(f, v)
    /\ RevealPeriod(v)
    /\ DOMAIN content \subseteq targets
    /\ prevote[v].content = content
    /\ vote' = Put(vote, v, content)
    /\ committed' = Put(committed, v, prevote[v].submit)
    /\ prevote' = Delete(prevote, {v})
    /\ UNCHANGED <<height, halted, targets, rates, feeder, missCounter,
                   stakingVars, rewardVars, tallied>>

DelegateFeedConsent(v, f) ==
    /\ status[v] # "gone"
    /\ feeder' = [feeder EXCEPT ![v] = f]
    /\ UNCHANGED <<height, halted, targets, rates, prevote, vote, missCounter,
                   stakingVars, rewardVars, committed, tallied>>

\* HandleRegisterTargetProposal, for a denomination that has a supply and
\* whose source are the validators.
RegisterTarget(d) ==
    /\ d \notin targets
    /\ targets' = targets \cup {d}
    /\ UNCHANGED <<height, halted, rates, feeder, prevote, vote, missCounter,
                   stakingVars, rewardVars, committed, tallied>>

\* External: a jailed validator may be active again.  The oracle jails
\* without a term, so this may be in the next block.
Unjail(v) ==
    /\ v \in jailed
    /\ jailed' = jailed \ {v}
    /\ UNCHANGED <<height, halted, targets, rates, feeder, prevote, vote,
                   missCounter, status, unbondingAt, unbondingTime, rewardVars,
                   committed, tallied>>

-----------------------------------------------------------------------------
(* The tally of a vote period. *)

IsPeriodLastBlock(period) == (height + 1) % period = 0

PowerOf(S) == MapThenSumSet(LAMBDA v : Power[v], S)

\* The ballots of the active validators, by denomination; an abstention has
\* no power.
OrganizeBallotByDenom(active, votes) ==
    [d \in UNION {DOMAIN votes[v] : v \in active \cap DOMAIN votes} |->
        [v \in {u \in active \cap DOMAIN votes : d \in DOMAIN votes[u]} |->
            [rate  |-> votes[v][d],
             power |-> IF votes[v][d] > 0 THEN Power[v] ELSE 0]]]

ThresholdVotes(active) == RoundHalfEven(VoteThreshold * PowerOf(active))

Passing(ballots, active) ==
    {d \in DOMAIN ballots \cap targets :
        BallotIsPassing(ballots[d], ThresholdVotes(active))}

\* The targets that count: a ballot that failed is no target any more, a
\* target nobody voted on still is.
RemainingTargets(ballots, passing) ==
    targets \ (DOMAIN ballots \ passing)

\* The passing ballots in terms of the reference denomination.
CrossBallots(ballots, passing, ref) ==
    [d \in passing |-> IF d = ref THEN ballots[d]
                       ELSE ToCrossRate(ballots[d], ballots[ref])]

MutantRatesNotCleared(cross, ref) ==
    LET stored == {e \in DOMAIN cross : e = ref \/ WeightedMedian(cross[e]) # 0}
    IN  [d \in stored \cup DOMAIN rates |->
            IF d \notin stored THEN rates[d]
            ELSE IF d = ref THEN WeightedMedian(cross[d])
            ELSE DecQuo(WeightedMedian(cross[ref]), WeightedMedian(cross[d]))]

\* The rates to store, back in terms of USD; a zero cross rate is not stored.
TalliedRates(cross, ref) ==
    [d \in {e \in DOMAIN cross : e = ref \/ WeightedMedian(cross[e]) # 0} |->
        IF d = ref THEN WeightedMedian(cross[d])
        ELSE DecQuo(WeightedMedian(cross[ref]), WeightedMedian(cross[d]))]

WonBy(cross, v) ==
    {d \in DOMAIN cross : v \in Winners(cross[d], RewardBand)}

MissedBy(active, cross, remaining) ==
    {v \in active : Cardinality(WonBy(cross, v)) # Cardinality(remaining)}

Weight(cross, v) ==
    MapThenSumSet(LAMBDA d : cross[d][v].power, WonBy(cross, v))

MutantWholeReward(active, cross, remaining) ==
    [v \in active |-> [d \in Denoms |->
        IF d \in remaining /\ Weight(cross, v) > 0 THEN pool[d] ELSE 0]]

\* RewardBallotWinners: what each active validator gets of each denomination,
\* rounded down to whole coins.
Rewards(active, cross, remaining) ==
    LET sum == MapThenSumSet(LAMBDA v : Weight(cross, v), active)
        ratio == (VotePeriod * Precision) \div RewardDistributionWindow
        share(v) == (Weight(cross, v) * Precision) \div sum
        period(d) == DecMul(pool[d] * Precision, ratio)
    IN  [v \in active |-> [d \in Denoms |->
            IF sum = 0 \/ d \notin remaining THEN 0
            ELSE DecMul(period(d), share(v)) \div Precision]]

MutantNothingCleared == {}

\* ClearBallots: the validators whose vote is deleted (all of them) and those
\* whose prevote is.
ClearedVotes == DOMAIN vote
ClearedPrevotes == {v \in DOMAIN prevote : height > prevote[v].submit + VotePeriod}

-----------------------------------------------------------------------------
(* The end of a block. *)

\* External: staking's end of block.  A jailed validator leaves the active
\* set; one that has unbonded long enough may be removed; a removed one may
\* be created again.
StakingMay(active, removed) ==
    /\ active \cap jailed = {}
    /\ active # {}
    /\ removed \subseteq {v \in Validators \ active :
            /\ status[v] = "unbonding"
            /\ height - unbondingAt[v] >= unbondingTime}

StatusAfter(active, removed) ==
    [v \in Validators |->
        IF v \in active THEN "bonded"
        ELSE IF v \in removed \/ status[v] = "gone" THEN "gone"
        ELSE "unbonding"]

PeriodsPerWindow == SlashWindow \div VotePeriod

ValidVoteRate(misses) == ((PeriodsPerWindow - misses) * Precision) \div PeriodsPerWindow

\* The validators SlashAndResetMissCounters looks up to slash.
Negligent(counters) ==
    {v \in Validators : counters[v] > 0 /\ ValidVoteRate(counters[v]) < MinValidPerWindow}

MutantKeepCounters(counters) == counters

\* The counters after SlashAndResetMissCounters.
ResetMissCounters(counters) == [v \in Validators |-> 0]

\* The tally of the active validators' votes.  order is the order in which
\* the ballot map is iterated.
Tally(active, order) ==
    LET ballots == OrganizeBallotByDenom(active, vote)
        passing == Passing(ballots, active)
        ref == PickReference(ballots, order)
    IN  [remaining |-> RemainingTargets(ballots, passing),
         ref       |-> ref,
         cross     |-> CrossBallots(ballots, passing, ref)]

MutantSpendShares(active, tally) ==
    [d \in Denoms |-> IF d \in tally.remaining THEN pool[d] ELSE 0]

\* What RewardBallotWinners sends to the distribution module.
Spent(active, tally) ==
    LET reward == Rewards(active, tally.cross, tally.remaining)
    IN  [d \in Denoms |-> MapThenSumSet(LAMBDA v : reward[v][d], active)]

\* What a tally changes: rates, reward accounts and ballots.
ApplyTally(active, tally) ==
    LET reward == Rewards(active, tally.cross, tally.remaining)
        spent == Spent(active, tally)
    IN  /\ rates' = TalliedRates(tally.cross, tally.ref)
        /\ pool' = [d \in Denoms |-> pool[d] - spent[d]]
        /\ credited' = [v \in Validators |-> [d \in Denoms |->
              credited[v][d] + (IF v \in active THEN reward[v][d] ELSE 0)]]
        /\ tallied' = [votes |-> Restrict(vote, active \cap DOMAIN vote), active |-> active]
        /\ vote' = Delete(vote, ClearedVotes)
        /\ committed' = Delete(committed, ClearedVotes)
        /\ prevote' = Delete(prevote, ClearedPrevotes)

\* The miss counters after the tally.
Counted(active, tally) ==
    LET missed == MissedBy(active, tally.cross, tally.remaining)
    IN  [v \in Validators |-> missCounter[v] + (IF v \in missed THEN 1 ELSE 0)]

\* The last block of a vote period and of a slash window.
Tallies == IsPeriodLastBlock(VotePeriod)
Slashes == IsPeriodLastBlock(SlashWindow)

\* EndBlocker panics when the pool cannot pay the rewards, or when a
\* negligent validator is gone: Validator returns nil, IsBonded is called.
Panics(active, tally, counters, newStatus) ==
    \/ Tallies /\ \E d \in Denoms : Spent(active, tally)[d] > pool[d]
    \/ Slashes /\ \E v \in Negligent(counters) : newStatus[v] = "gone"

\* The end of a block: staking, then the oracle's EndBlocker.
EndBlock(active, removed, order) ==
    LET tally == Tally(active, order)
        counters == IF Tallies THEN Counted(active, tally) ELSE missCounter
        slashed == IF Slashes THEN Negligent(counters) ELSE {}
        newStatus == StatusAfter(active, removed)
    IN  /\ StakingMay(active, removed)
        /\ ~Panics(active, tally, counters, newStatus)
        /\ IF Tallies THEN ApplyTally(active, tally)
           ELSE UNCHANGED <<rates, rewardVars, tallied, vote, committed, prevote>>
        /\ missCounter' = IF Slashes THEN ResetMissCounters(counters) ELSE counters
        /\ jailed' = {v \in jailed : newStatus[v] # "gone"}
                       \cup {v \in slashed : newStatus[v] = "bonded"}
        /\ status' = newStatus
        /\ unbondingAt' = [v \in Validators |->
              IF status[v] = "bonded" /\ v \notin active THEN height ELSE unbondingAt[v]]
        /\ height' = height + 1
        /\ UNCHANGED <<halted, targets, feeder, unbondingTime>>

\* A panic in EndBlocker: the block is not committed, the chain stops.
Halt(active, removed, order) ==
    LET tally == Tally(active, order)
        counters == IF Tallies THEN Counted(active, tally) ELSE missCounter
    IN  /\ StakingMay(active, removed)
        /\ Panics(active, tally, counters, StatusAfter(active, removed))
        /\ halted' = TRUE
        /\ UNCHANGED <<height, targets, rates, feeder, prevote, vote, missCounter,
                       stakingVars, rewardVars, committed, tallied>>

\* The orders in which the map of the passing ballots may be iterated.
Orders(active) == SetToSeqs(Passing(OrganizeBallotByDenom(active, vote), active))

\* The block ends, with a panic or without.
BlockEnds ==
    \E active, removed \in SUBSET Validators :
        \E order \in Orders(active) :
            EndBlock(active, removed, order) \/ Halt(active, removed, order)

Next ==
    /\ ~halted
    /\ height < LastHeight
    /\ \/ \E v \in Validators, f \in Validators \cup Feeders, c \in Contents :
             \/ c \in Commitments[height] /\ AggregateExchangeRatePrevote(v, f, c)
             \/ AggregateExchangeRateVote(v, f, c)
       \/ \E v \in Delegators, f \in Feeders : DelegateFeedConsent(v, f)
       \/ \E d \in Denoms : RegisterTarget(d)
       \/ \E v \in Validators : Unjail(v)
       \/ BlockEnds

Spec == Init /\ [][Next]_vars

\* A step of BlockEnds, told by the two variables that only BlockEnds changes.
\* It needs a validator that is not jailed to make the block.
BlockStep ==
    /\ ~halted
    /\ height < LastHeight
    /\ jailed # Validators
    /\ \/ height' = height + 1 /\ halted' = FALSE
       \/ height' = height /\ halted' = TRUE

\* Consensus ends every block, whatever messages are in it.
FairSpec == Spec /\ WF_<<height, halted>>(BlockStep)

-----------------------------------------------------------------------------
(* Properties. *)

\* What awaits the tally is of this tally: a vote was committed to in the vote
\* period right before the current one, whatever the block of the prevote and
\* of the reveal, and a prevote lives no longer than two vote periods
\* (AggregateExchangeRateVote and ClearBallots).
VotesFresh ==
    /\ \A v \in DOMAIN vote :
          committed[v] \div VotePeriod = (height \div VotePeriod) - 1
    /\ \A v \in DOMAIN prevote : height - prevote[v].submit <= 2 * VotePeriod

\* Every exchange rate in the store was supported in the last tally by active
\* validators with at least the threshold's share of the power: no rate
\* survives a period whose ballot failed (ClearExchangeRates and the tally of
\* EndBlocker).  A stored rate is zero only when a single unit of power
\* supports it: half of it rounds to zero, and WeightedMedian takes the
\* abstention that sorts before it.
RatesSupported ==
    \A d \in DOMAIN rates :
        LET supporters == {v \in DOMAIN tallied.votes :
                d \in DOMAIN tallied.votes[v] /\ tallied.votes[v][d] > 0}
        IN  /\ supporters # {}
            /\ PowerOf(supporters) >= ThresholdVotes(tallied.active)
            /\ rates[d] > 0 \/ PowerOf(supporters) = 1

\* A miss counter counts periods of the current slash window only, so that
\* (periods - misses) does not wrap in SlashAndResetMissCounters when the
\* window is a whole number of vote periods.
MissesOfThisWindow ==
    \A v \in Validators :
        missCounter[v] <= (height \div VotePeriod)
                            - ((height - (height % SlashWindow)) \div VotePeriod)

\* The only panic of EndBlocker there is: a validator with misses in this
\* window is no longer active when the chain stops, and the staking module
\* keeps a validator for less than a slash window.  With a longer unbonding
\* time no counter outlives its validator, and the payment of rewards never
\* fails.
HaltsOnlyOnRemoval ==
    halted => /\ \E v \in Validators : missCounter[v] > 0 /\ status[v] # "bonded"
              /\ unbondingTime < SlashWindow

\* As long as blocks end, every vote is taken into a tally and every miss
\* counter is judged and reset, unless EndBlocker panics: nothing a validator
\* did or failed to do stays pending (EndBlocker's two periods).  The bound
\* LastHeight must begin a slash window.
AllSettled ==
    LET stopped == halted \/ jailed = Validators
    IN  \A v \in Validators :
            /\ v \in DOMAIN vote ~> (v \notin DOMAIN vote \/ stopped)
            /\ missCounter[v] > 0 ~> (missCounter[v] = 0 \/ stopped)

\* Coins leave the reward pool exactly as they are credited to validators,
\* whatever the rounding of the shares.
RewardsBacked ==
    \A d \in Denoms :
        pool[d] + MapThenSumSet(LAMBDA v : credited[v][d], Validators) = InitialPool

\* The reference denomination, and with it every rate, does not depend on the
\* order in which Go iterates the map of ballots: all nodes agree.
ReferenceOrderFree ==
    LET active == {v \in Validators : status[v] = "bonded"}
        ballots == OrganizeBallotByDenom(active, vote)
    IN  Cardinality({PickReference(ballots, order) : order \in Orders(active)}) = 1

\* A validator that abstains on every vote target is not charged a miss by
\* the tally, whatever the others vote.
AbstainAbsolves ==
    [][\A v \in Validators :
          /\ v \in DOMAIN vote
          /\ DOMAIN vote[v] = targets
          /\ \A d \in targets : vote[v][d] = 0
          => missCounter'[v] <= missCounter[v]]_vars
=============================================================================
