---------------------------- MODULE OracleBallot ----------------------------
(***************************************************************************)
(* x/oracle: the ballot of one denomination and what is computed from it.  *)
(* A ballot maps each voter to its exchange rate and its power; a rate     *)
(* that is not positive is an abstention and has power 0.  The code keeps  *)
(* a ballot as a slice sorted by rate; nothing it computes depends on the  *)
(* order of equal rates, so a function is enough.                          *)
(***************************************************************************)
EXTENDS Decimal, Sequences, FiniteSets, FiniteSetsExt, SequencesExt

BallotPower(ballot) ==
    MapThenSumSet(LAMBDA v : ballot[v].power, DOMAIN ballot)

\* The first rate, in increasing order, at which the accumulated power
\* reaches half of the ballot's power (an integer division).
WeightedMedian(ballot) ==
    LET upTo(rate) == MapThenSumSet(LAMBDA v : ballot[v].power,
                          {v \in DOMAIN ballot : ballot[v].rate <= rate})
        rates == {ballot[v].rate : v \in DOMAIN ballot}
    IN  IF rates = {} THEN 0
        ELSE Min({r \in rates : upTo(r) >= BallotPower(ballot) \div 2})

\* Each vote divided into the voter's own rate of the reference denomination;
\* without a positive one the vote becomes an abstention.
ToCrossRate(ballot, reference) ==
    [v \in DOMAIN ballot |->
        IF /\ ballot[v].rate > 0
           /\ v \in DOMAIN reference
           /\ reference[v].rate > 0
        THEN [rate  |-> DecQuo(reference[v].rate, ballot[v].rate),
              power |-> ballot[v].power]
        ELSE [rate |-> 0, power |-> 0]]

MutantWinnersNoAbstain(ballot, rewardBand) ==
    LET median == WeightedMedian(ballot)
        dev(v) == ballot[v].rate - median
    IN  {v \in DOMAIN ballot :
            /\ dev(v) <= DecMul(median, rewardBand \div 2)
            /\ -dev(v) <= DecMul(median, rewardBand \div 2)}

\* The voters Tally counts as winners: abstentions, and rates whose distance
\* from the median is within half the reward band or one standard deviation.
\* (The deviation is compared by its square; the code takes a square root
\* rounded to six decimals, finer than the distance of two rates here.)
Winners(ballot, rewardBand) ==
    LET median == WeightedMedian(ballot)
        dev(v) == ballot[v].rate - median
        spread == DecMul(median, rewardBand \div 2)
        squares == MapThenSumSet(LAMBDA v : dev(v) * dev(v), DOMAIN ballot)
    IN  {v \in DOMAIN ballot :
            \/ ballot[v].rate <= 0
            \/ dev(v) <= spread /\ -dev(v) <= spread
            \/ dev(v) * dev(v) * Cardinality(DOMAIN ballot) <= squares}

BallotIsPassing(ballot, thresholdVotes) ==
    BallotPower(ballot) # 0 /\ BallotPower(ballot) >= thresholdVotes

MutantPickNoTieBreak(ballots, order) ==
    LET pick(best, denom) ==
            IF best.power = 0 \/ BallotPower(ballots[denom]) > best.power
            THEN [denom |-> denom, power |-> BallotPower(ballots[denom])]
            ELSE best
    IN  FoldLeft(pick, [denom |-> 0, power |-> 0], order).denom

\* The loop of PickReferenceGridb over the passing ballots, in the order the
\* map iteration yields them.  Denominations are numbers in the order of
\* their names.
PickReference(ballots, order) ==
    LET pick(best, denom) ==
            IF \/ best.power = 0
               \/ BallotPower(ballots[denom]) > best.power
               \/ BallotPower(ballots[denom]) = best.power /\ best.denom > denom
            THEN [denom |-> denom, power |-> BallotPower(ballots[denom])]
            ELSE best
    IN  FoldLeft(pick, [denom |-> 0, power |-> 0], order).denom
=============================================================================
