-------------------------- MODULE MCMakerCollateral --------------------------
(* MakerCollateral for TLC: rates, risk parameters and wallets. *)
EXTENDS MakerCollateral, TLC

CONSTANTS c1, c2, a1, a2

\* Collateral dear, collateral cheap, and a block without a rate of the first.
SomeQuotes ==
    {Iron :> 100 @@ c1 :> 600 @@ c2 :> 500,
     Iron :> 150 @@ c1 :> 320 @@ c2 :> 320,
     Iron :> 100 @@ c2 :> 320}

\* Limits, fees and an interest that is due after one block; and a collateral
\* without any of them, and without a use for iron.
SomeListings ==
    c1 :> {[enabled |-> TRUE, maxCollateral |-> 3, maxMint |-> 5, threshold |-> 70, ltv |-> 60,
            basicLtv |-> 40, catalytic |-> 50, liquidationFee |-> 50, mintFee |-> 60,
            interestFee |-> 100]}
    @@
    c2 :> {[enabled |-> TRUE, threshold |-> 60, ltv |-> 50, basicLtv |-> 50, catalytic |-> 0,
            liquidationFee |-> 0, mintFee |-> 0, interestFee |-> 0]}

\* The thresholds are lowered below what was lent against.
SomePatches == {[enabled |-> TRUE, ltv |-> 40, threshold |-> 50]}

SomeWallets ==
    {c1 :> 1 @@ c2 :> 1 @@ Iron :> 0 @@ Grid :> 1,
     c1 :> 2 @@ c2 :> 0 @@ Iron :> 1 @@ Grid :> 1}

Interchangeable == Permutations({a1, a2})
=============================================================================
