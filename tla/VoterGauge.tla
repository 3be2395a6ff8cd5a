----------------------------- MODULE VoterGauge -----------------------------
(***************************************************************************)
(* x/voter and x/gauge together: a claim at a gauge first has the voter    *)
(* distribute the gauge's reward, and a ve that is attached to a gauge or  *)
(* has voted cannot change hands.                                          *)
(***************************************************************************)
EXTENDS Integers, Sequences, FiniteSetsExt

CONSTANTS
    Ves, Denoms, Precision, Owners, Period,
    Pool,           \* the denomination of the gauge followed in detail
    Explored        \* records of the inputs explored, and of their bounds:
                    \*   denoms, owners: the gauges created, the owners of ves
                    \*   powers, weights, voteRewards: of the votes
                    \*   coins: what the voter holds at most
                    \*   deposits, shares, rewards: of the gauge; shares are pairs of
                    \*     the voting powers of the ve and of all ves
                    \*   deposited, rewarded: what a ve deposits and the rewards at most
                    \*   end: the last block time

ASSUME VoterGaugeAssumption ==
    /\ Ves \subseteq Nat \ {0}
    /\ \A e \in Explored :
        /\ e.owners \subseteq Owners /\ e.ves \subseteq Ves
        /\ e.deposits \subseteq Nat /\ e.shares \subseteq Nat \X Nat

VARIABLES gauges, votes, poolVotes, totalVotes, userVotes, voted, bribed, bribedTotal,
          index, indexLast, claimable, voterCoins,
          now, owner, attached, userVe, deposited, totalDeposited, derived, totalDerived,
          points, userPoints, rewardPoints, reward, pool, rewarded,
          explore       \* the inputs of this behaviour

V == INSTANCE Voter
G == INSTANCE Gauge

voterVars == <<gauges, votes, poolVotes, totalVotes, userVotes, voted, bribed,
               bribedTotal, index, indexLast, claimable, voterCoins>>
gaugeVars == <<now, owner, attached, userVe, deposited, totalDeposited, derived,
               totalDerived, points, userPoints, rewardPoints, reward, pool, rewarded>>
vars == <<voterVars, gaugeVars, explore>>

Init ==
    /\ V!VoterInit
    /\ G!GaugeInit
    /\ explore \in Explored
    /\ \A ve \in Ves : owner[ve] \in explore.owners
-----------------------------------------------------------------------------
CreateGauge(g) == V!CreateGauge(g) /\ UNCHANGED gaugeVars
AddGauge(g) == V!AddGauge(g) /\ UNCHANGED gaugeVars
Abstain(ve) == V!Abstain(ve) /\ UNCHANGED gaugeVars
Vote(ve, power, weights) == V!Vote(ve, power, weights) /\ UNCHANGED gaugeVars
Poke(ve, power) == V!Poke(ve, power) /\ UNCHANGED gaugeVars

DepositVoteReward(amount) ==
    /\ V!DepositVoteReward(amount)
    /\ voterCoins' <= explore.coins
    /\ UNCHANGED gaugeVars

Deposit(ve, amount, share) ==
    /\ Pool \in gauges
    /\ deposited[ve] + amount <= explore.deposited
    /\ G!Deposit(ve, amount, share)
    /\ UNCHANGED voterVars

Withdraw(ve, amount, share) ==
    /\ Pool \in gauges
    /\ G!Withdraw(ve, amount, share)
    /\ UNCHANGED voterVars

DepositReward(amount) ==
    /\ Pool \in gauges
    /\ rewarded + amount <= explore.rewarded
    /\ G!DepositReward(amount)
    /\ UNCHANGED voterVars

\* Gauge.ClaimReward
ClaimReward(ve, share) ==
    /\ V!DistributeReward(Pool, Period)
    /\ G!ClaimReward(ve, share)

Transfer(ve, to) ==
    /\ ~voted[ve]
    /\ G!Transfer(ve, to)
    /\ UNCHANGED voterVars

\* A block ends: the voter emits no reward.
EndBlock ==
    /\ now < explore.end
    /\ G!Tick
    /\ UNCHANGED voterVars

Next ==
    /\ UNCHANGED explore
    /\ \/ \E g \in explore.denoms : CreateGauge(g) \/ AddGauge(g)
       \/ \E ve \in explore.ves :
           \/ Abstain(ve)
           \/ \E power \in explore.powers :
               \/ Poke(ve, power)
               \/ \E D \in SUBSET gauges : \E weights \in [D -> explore.weights] :
                    Vote(ve, power, weights)
           \/ \E amount \in explore.deposits, share \in explore.shares :
               Deposit(ve, amount, share) \/ Withdraw(ve, amount, share)
           \/ \E share \in explore.shares : ClaimReward(ve, share)
           \/ \E to \in explore.owners : Transfer(ve, to)
       \/ \E amount \in explore.voteRewards : DepositVoteReward(amount)
       \/ \E amount \in explore.rewards : DepositReward(amount)
       \/ EndBlock

Spec == Init /\ [][Next]_vars
-----------------------------------------------------------------------------
(* Properties. *)

\* The books of the votes agree however often ves vote, abstain and poke: the totals
\* count votes for and against, a gauge's votes are net, its bribe holds the votes for
\* it, and a ve is marked as voted exactly while it has votes (Abstain, Vote, Poke).
VotesAreSums ==
    /\ totalVotes = MapThenSumSet(LAMBDA v : userVotes[v], Ves)
    /\ \A v \in Ves :
        /\ userVotes[v] = MapThenSumSet(LAMBDA g : V!Abs(votes[v][g]), Denoms)
        /\ voted[v] <=> userVotes[v] > 0
    /\ \A g \in Denoms :
        /\ poolVotes[g] = MapThenSumSet(LAMBDA v : votes[v][g], Ves)
        /\ \A v \in Ves : bribed[g][v] = V!Positive(votes[v][g])
        /\ bribedTotal[g] = MapThenSumSet(LAMBDA v : bribed[g][v], Ves)

\* What the gauges may claim, updated or not, is never more than the voter holds:
\* every change of votes first settles the index at the votes before it
\* (updateClaimableForGauge, DepositReward).
ClaimableBacked ==
    MapThenSumSet(LAMBDA g : claimable[g] + V!Accrued(g), Denoms) <= voterCoins

\* A ve has no more tickets than it deposited, and it is attached, once, exactly while
\* it is the one its owner deposits through, also when ves change hands.
AttachedOnce ==
    \A v \in Ves :
        /\ derived[v] <= deposited[v]
        /\ attached[v] = IF userVe[owner[v]] = v THEN 1 ELSE 0

\* The books of the deposits agree: the totals are sums, and AttachedOnce (Deposit,
\* Withdraw, deriveAmountForUser, and the transfers of x/ve).  A ve may be attached and
\* have nothing deposited: Deposit does not refuse an amount of zero.
DepositBooks ==
    /\ totalDeposited = MapThenSumSet(LAMBDA v : deposited[v], Ves)
    /\ totalDerived = MapThenSumSet(LAMBDA v : derived[v], Ves)
    /\ AttachedOnce

\* In every history of checkpoints the gauge can write, the bisection of
\* findPriorEpoch returns the last checkpoint not after the time asked for.
PriorEpochExact ==
    \A history \in {points, rewardPoints} \cup {userPoints[v] : v \in Ves} :
        \A t \in 0 .. now :
            G!FindPriorEpoch(history, t) =
                Max({0} \cup {i \in 1 .. Len(history) : history[i].time <= t})

\* Some ve has a checkpoint at the time of the first reward.
StartsWithReward ==
    /\ rewardPoints # <<>>
    /\ \E ve \in Ves : \E i \in 1 .. Len(userPoints[ve]) :
        userPoints[ve][i].time = rewardPoints[1].time

\* A claim that does not panic is never negative and never more than the pool of
\* rewards, although claimReward does not save what was claimed: a second claim
\* panics on a missing checkpoint, unless the ve has a checkpoint at the very time of
\* the first reward, where intervals are paid again (claimReward, userReward).
RewardsFunded ==
    ~StartsWithReward =>
        \A ve \in Ves :
            LET u == G!UpdatedReward
            IN  (/\ reward.rate > 0 /\ ~G!NilAtUpdate
                 /\ userPoints[ve] # <<>> /\ ~G!NilAtClaim(u, ve))
                => G!UserReward(u, ve) \in 0 .. pool
=============================================================================
