----------------------------- MODULE MCVesting ------------------------------
(* Vesting for TLC: the allocation and the airdrop messages. *)
EXTENDS Vesting, TLC

\* Amounts that do not divide evenly over the vesting time.
SomeAllocation == "staking_reward" :> 3 @@ "community_pool" :> 1 @@ "team" :> 5

Drop(t, u, a) == [target |-> t, unit |-> u, amount |-> a]

\* One airdrop, two of the same target, one in the display denomination, one
\* to a module account.
SomeInputs == {<<Drop(1, "base", 1)>>,
               <<Drop(2, "base", 1), Drop(2, "display", 1)>>,
               <<Drop(3, "base", 1), Drop(1, "base", 2)>>}
=============================================================================
