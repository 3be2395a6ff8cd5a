------------------------------- MODULE Voter --------------------------------
(***************************************************************************)
(* x/voter: ves vote for and against gauges with their voting power; a     *)
(* reward raises the index of reward per vote, and a gauge's claimable     *)
(* reward follows the index at its votes.  Votes for a gauge are deposited *)
(* in its bribe.                                                           *)
(*                                                                         *)
(* No message reaches the keeper yet: the actions are its exported         *)
(* methods, which panic, and so change nothing, where the guards fail.     *)
(* The checkpoints of a bribe are left out: nothing can deposit a reward   *)
(* in a bribe, so they are never read.                                     *)
(***************************************************************************)
EXTENDS Decimal, FiniteSetsExt

CONSTANTS Ves, Denoms

VARIABLES
    gauges,         \* the denominations that have a gauge
    votes,          \* PoolWeightedVotesByUser
    poolVotes,      \* PoolWeightedVotes
    totalVotes, userVotes,
    voted,          \* x/ve: the ve has votes
    bribed, bribedTotal,  \* the deposits of the bribes
    index, indexLast, claimable,
    voterCoins      \* what the module account holds

voteVars == <<votes, poolVotes, totalVotes, userVotes, voted, bribed, bribedTotal>>
rewardIndexVars == <<index, indexLast, claimable, voterCoins>>
voterVars == <<gauges, voteVars, rewardIndexVars>>

Abs(x) == IF x < 0 THEN -x ELSE x
Positive(x) == Max({x, 0})

\* Quo of integers, and with it TruncateInt and QuoInt, rounds towards zero.
Quo(a, b) == IF a < 0 THEN -((-a) \div b) ELSE a \div b
WeightedVotes(power, weight) == Quo(power * weight, Precision)

VoterInit ==
    /\ gauges = {}
    /\ votes = [v \in Ves |-> [g \in Denoms |-> 0]]
    /\ poolVotes = [g \in Denoms |-> 0]
    /\ totalVotes = 0
    /\ userVotes = [v \in Ves |-> 0]
    /\ voted = [v \in Ves |-> FALSE]
    /\ bribed = [g \in Denoms |-> [v \in Ves |-> 0]]
    /\ bribedTotal = [g \in Denoms |-> 0]
    /\ index = 0
    /\ indexLast = [g \in Denoms |-> 0]
    /\ claimable = [g \in Denoms |-> 0]
    /\ voterCoins = 0
-----------------------------------------------------------------------------
(* updateClaimableForGauge of the gauges G, at the votes they had so far. *)

Accrued(g) ==
    IF poolVotes[g] > 0 THEN (index - indexLast[g]) * poolVotes[g] ELSE 0

\* Mutant: the index of the update is not recorded.
MutantKeepIndex(G) ==
    /\ claimable' = [g \in Denoms |-> claimable[g] + (IF g \in G THEN Accrued(g) ELSE 0)]
    /\ UNCHANGED indexLast

UpdateClaimable(G) ==
    /\ claimable' = [g \in Denoms |-> claimable[g] + (IF g \in G THEN Accrued(g) ELSE 0)]
    /\ indexLast' = [g \in Denoms |-> IF g \in G THEN index ELSE indexLast[g]]

\* CreateGauge of the voter; x/gauge's own CreateGauge does no more than add it.
CreateGauge(g) ==
    /\ gauges' = gauges \cup {g}
    /\ UpdateClaimable({g})
    /\ UNCHANGED <<voteVars, index, voterCoins>>

AddGauge(g) ==
    /\ g \notin gauges
    /\ gauges' = gauges \cup {g}
    /\ UNCHANGED <<voteVars, rewardIndexVars>>
-----------------------------------------------------------------------------
(* Votes. *)

\* Mutant: the votes taken back stay deposited in the bribes.
MutantKeepBribes(ve, new) ==
    LET old == votes[ve]
        size(f) == MapThenSumSet(LAMBDA g : Abs(f[g]), gauges)
    IN  /\ votes' = [votes EXCEPT ![ve] = new]
        /\ poolVotes' = [g \in Denoms |-> poolVotes[g] - old[g] + new[g]]
        /\ totalVotes' = totalVotes - size(old) + size(new)
        /\ userVotes' = [userVotes EXCEPT ![ve] = size(new)]
        /\ bribed' = [g \in Denoms |-> [bribed[g] EXCEPT ![ve] = @ + Positive(new[g])]]
        /\ bribedTotal' = [g \in Denoms |-> bribedTotal[g] + Positive(new[g])]

\* The votes of ve become new, a function on all denominations: Abstain takes back
\* the old ones, gauge by gauge, then Vote adds the others.  Votes against a gauge
\* count in the totals and are not deposited in its bribe.
Recast(ve, new) ==
    LET old == votes[ve]
        size(f) == MapThenSumSet(LAMBDA g : Abs(f[g]), gauges)
    IN  /\ votes' = [votes EXCEPT ![ve] = new]
        /\ poolVotes' = [g \in Denoms |-> poolVotes[g] - old[g] + new[g]]
        /\ totalVotes' = totalVotes - size(old) + size(new)
        /\ userVotes' = [userVotes EXCEPT ![ve] = size(new)]
        /\ bribed' = [g \in Denoms |->
                [bribed[g] EXCEPT ![ve] = @ - Positive(old[g]) + Positive(new[g])]]
        /\ bribedTotal' = [g \in Denoms |->
                bribedTotal[g] - Positive(old[g]) + Positive(new[g])]

\* Abstain panics when the bribe has less than the votes to withdraw.
CanAbstain(ve) == \A g \in gauges : Positive(votes[ve][g]) <= bribed[g][ve]

Abstain(ve) ==
    /\ CanAbstain(ve)
    /\ UpdateClaimable(gauges)
    /\ Recast(ve, [g \in Denoms |-> 0])
    /\ voted' = [voted EXCEPT ![ve] = FALSE]
    /\ UNCHANGED <<gauges, index, voterCoins>>

\* Vote(ve, weights) at the ve's voting power: weights of existing gauges that add
\* up to one and give every gauge a vote.
Vote(ve, power, weights) ==
    LET G == DOMAIN weights
        cast == [g \in Denoms |->
                    IF g \in G THEN WeightedVotes(power, weights[g]) ELSE 0]
    IN  /\ CanAbstain(ve)
        /\ G \subseteq gauges
        /\ \A g \in G : cast[g] # 0
        /\ MapThenSumSet(LAMBDA g : Abs(weights[g]), G) = Precision
        /\ UpdateClaimable(gauges)
        /\ Recast(ve, cast)
        /\ voted' = [voted EXCEPT ![ve] = TRUE]
        /\ UNCHANGED <<gauges, index, voterCoins>>

\* Poke votes again with the weights of the votes cast.  QuoInt truncates them, and
\* what the truncation loses is not compensated: the condition for it holds only
\* when nothing was lost.
PokedWeights(ve) ==
    [g \in {h \in gauges : votes[ve][h] # 0} |->
        Quo(votes[ve][g] * Precision, userVotes[ve])]

Poke(ve, power) ==
    /\ userVotes[ve] > 0
    /\ Vote(ve, power, PokedWeights(ve))
-----------------------------------------------------------------------------
(* Rewards. *)

\* DepositReward: without votes the coins stay in the module account.
DepositVoteReward(amount) ==
    /\ voterCoins' = voterCoins + amount
    /\ \/ totalVotes = 0 /\ UNCHANGED index
       \/ totalVotes # 0 /\ index' = index + amount \div totalVotes
    /\ UNCHANGED <<gauges, voteVars, indexLast, claimable>>

\* DistributeReward: EmitReward emits nothing, and a claimable reward of at least
\* one unit a second makes DepositReward of the gauge refuse its own denomination,
\* which panics.
DistributeReward(g, period) ==
    /\ g \in gauges
    /\ UpdateClaimable({g})
    /\ claimable'[g] < period
    /\ UNCHANGED <<gauges, voteVars, index, voterCoins>>
=============================================================================
