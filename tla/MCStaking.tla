----------------------------- MODULE MCStaking -----------------------------
(* Staking with one delegator and two validators, at a precision of 1/2.   *)
EXTENDS Staking

CONSTANTS d1, v1, v2

\* Two bonded validators with the same stake, and one that is unbonded with
\* most of it.
EvenAndUnbonded ==
    {[bonded |-> {v1, v2}, stake |-> [p \in {d1} \X {v1, v2} |-> 2]],
     [bonded |-> {v2},
      stake |-> [p \in {d1} \X {v1, v2} |-> IF p[2] = v1 THEN 3 ELSE 1]]}
=============================================================================
