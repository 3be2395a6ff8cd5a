--------------------------- MODULE MCMakerBacking ---------------------------
(* MakerBacking for TLC: rates, risk parameters and wallets. *)
EXTENDS MakerBacking, TLC

CONSTANTS b1, b2

\* Grid dear, grid cheap, the other backing and iron at other prices, and a
\* block without a rate of grid.
SomeQuotes ==
    {Grid :> 120 @@ Iron :> 70  @@ b1 :> 150 @@ b2 :> 100,
     Grid :> 80  @@ Iron :> 130 @@ b1 :> 90  @@ b2 :> 210,
     Iron :> 70  @@ b1 :> 150}

\* A backing with limits and fees, and one without limits.
SomeListings ==
    {[enabled |-> TRUE, maxBacking |-> 3, maxMint |-> 4,
      mintFee |-> 25, burnFee |-> 25, buybackFee |-> 50, rebackFee |-> 25],
     [enabled |-> TRUE, mintFee |-> 0, burnFee |-> 0, buybackFee |-> 0, rebackFee |-> 0]}

SomePatches == {[enabled |-> FALSE, maxBacking |-> 1], [enabled |-> TRUE]}

SomeWallet == b1 :> 2 @@ b2 :> 1 @@ Iron :> 2 @@ Grid :> 1
=============================================================================
