------------------------------ MODULE MCOracle ------------------------------
(* Oracle for TLC: powers, decimals and the contents of the votes. *)
EXTENDS Oracle, TLC

CONSTANTS v1, v2, v3

\* Two validators of equal power, either of which is the threshold.
TwoPowers == v1 :> 2 @@ v2 :> 2

\* Two equal validators that together balance a larger one.  When only they are
\* active the vote of one is the threshold, and half of its power rounds to zero.
ThreePowers == v1 :> 1 @@ v2 :> 1 @@ v3 :> 2

\* One denomination, one price.
PriceOnly == {1 :> 100}

\* A vote on both denominations, one on the first alone that disagrees with
\* it, and abstentions.
MixedContents == {1 :> 100 @@ 2 :> 200, 1 :> 300, 1 :> 0 @@ 2 :> 0}

\* The price is committed to in every block whose commitments may be tallied.
PriceInTime == [h \in 1..LastHeight |->
    IF h + VotePeriod < LastHeight THEN Contents ELSE {}]

\* Anything is committed to in the first block, a new price of the first
\* denomination in the second; what is committed to later is never tallied.
\* A denomination that passes in the second block may fail in the third.
MixedThenPrice == [h \in 1..LastHeight |->
    CASE h = 1 -> Contents [] h = 2 -> {1 :> 300} [] OTHER -> {}]

\* v1 and v2 have the same power in every instance.
TwinSymmetry == Permutations({v1, v2})
=============================================================================
