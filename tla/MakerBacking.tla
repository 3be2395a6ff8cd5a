---------------------------- MODULE MakerBacking ----------------------------
(***************************************************************************)
(* x/maker, the backing side: grid, the stablecoin, is minted for backing  *)
(* coins and burned iron in the proportion of the backing ratio, and       *)
(* burned for them again; backing in excess of that ratio is sold for      *)
(* iron, missing backing is bought with it.  The end of a block moves the  *)
(* backing ratio against the price of grid.                                *)
(*                                                                         *)
(* The accounts of all users are one wallet.  The oracle module is         *)
(* external: at the end of a block, before maker's turn, it replaces the   *)
(* exchange rates, any of which may be missing.  Nobody registers iron or  *)
(* grid as a backing, and a genesis sets a ratio between none and all: the *)
(* code checks neither.  The collateral side of the module is              *)
(* MakerCollateral.                                                        *)
(***************************************************************************)
EXTENDS Decimal, FiniteSets, FiniteSetsExt, Functions

CONSTANTS
    Backings, Iron, Grid,    \* denominations
    Quotes,                  \* the exchange rates the oracle may store
    Listings,                \* the risk parameters a backing may be registered with
    Patches,                 \* the changes of risk parameters proposals make
    RatioStep, PriceBand, MintPriceBias, RebackBonus,  \* decimals
    CooldownPeriod,
    GenesisRatios,           \* the backing ratios a genesis may set
    InitialWallet,           \* what the users hold at genesis
    Amounts,                 \* bound: the amounts messages name
    LastHeight               \* bound: the last block explored

Coins == Backings \cup {Iron, Grid}

Fees == {"mintFee", "burnFee", "buybackFee", "rebackFee"}
Limits == {"maxBacking", "maxMint"}

\* The checks of ValidateBasic, on the fields that are set.
ValidRiskParams(p) ==
    /\ \A f \in Fees \cap DOMAIN p : p[f] \in 0..Precision
    /\ \A f \in Limits \cap DOMAIN p : p[f] \in Nat

ASSUME MakerBackingAssumption ==
    /\ Iron \notin Backings /\ Grid \notin Backings /\ Iron # Grid
    /\ \A q \in Quotes : DOMAIN q \subseteq Coins /\ \A c \in DOMAIN q : q[c] \in Nat \ {0}
    /\ \A p \in Listings : {"enabled"} \cup Fees \subseteq DOMAIN p /\ ValidRiskParams(p)
    /\ \A p \in Patches : ValidRiskParams(p)
    /\ RatioStep \in 0..Precision /\ PriceBand \in 1..Precision
    /\ MintPriceBias \in 1..Precision
    /\ RebackBonus \in 0..Precision
    /\ CooldownPeriod \in Nat \ {0}
    /\ GenesisRatios \subseteq 0..Precision
    /\ InitialWallet \in [Coins -> Nat]
    /\ Amounts \subseteq Nat
    /\ LastHeight \in Nat

VARIABLES
    height,
    halted,     \* EndBlocker has panicked: no further block
    rates,      \* the oracle's exchange rates, in USD; some may be missing
    ratio,      \* the backing ratio
    lastBlock,  \* the block of its last adjustment
    params,     \* the risk parameters, by registered backing; a limit that is
                \* nil in the code is a field the record does not have
    pool,       \* PoolBacking, by registered backing: [minted, backing, burned]
    total,      \* TotalBacking: [minted, burned]
    bank        \* the coins of the users' wallet and of the module accounts

vars == <<height, halted, rates, ratio, lastBlock, params, pool, total, bank>>
blockVars == <<height, halted, rates, ratio, lastBlock>>

Empty == [c \in Coins |-> 0]

Init ==
    /\ height = 1
    /\ halted = FALSE
    /\ rates \in Quotes
    /\ ratio \in GenesisRatios
    /\ lastBlock = 0
    /\ params = <<>>
    /\ pool = <<>>
    /\ total = [minted |-> 0, burned |-> 0]
    /\ bank = [wallet |-> InitialWallet, maker |-> Empty, oracle |-> Empty]

-----------------------------------------------------------------------------
(* What the operations compute. *)

ComputeFee(amount, rate) == RoundHalfEven(amount * rate)

Available(d) == d \in DOMAIN params /\ params[d].enabled
Priced(S) == S \subseteq DOMAIN rates

\* BurnPriceBias, with which the burn price is checked: it reads the key of the
\* mint price bias, so the burn bias parameter has no effect.
BurnPriceBias == MintPriceBias

CheckMintPriceLowerBound == Priced({Grid}) /\ rates[Grid] >= Precision + MintPriceBias
CheckBurnPriceUpperBound == Priced({Grid}) /\ rates[Grid] <= Precision - BurnPriceBias

MutantWithoutLimit(d, limit, amount) == TRUE

WithinLimit(d, limit, amount) == limit \in DOMAIN params[d] => amount <= params[d][limit]

\* calculateMintBySwapOut: what is taken and what is minted for it.
MintBySwapOut(d, backingInMax, ironInMax, fullBacking) ==
    LET backingInMaxInUSD == rates[d] * backingInMax
        ironInMaxInUSD == rates[Iron] * ironInMax
        max1 == DecQuo(backingInMaxInUSD, ratio)
        max2 == DecQuo(ironInMaxInUSD, Precision - ratio)
        ironFor(usd) == RoundHalfEven(QuoRoundUp(DecMul(usd, Precision - ratio), rates[Iron]))
        backingFor(usd) == RoundHalfEven(QuoRoundUp(DecMul(usd, ratio), rates[d]))
        capped(amount, max) == IF max > 0 /\ max < amount THEN max ELSE amount
    IN  CASE ratio >= Precision \/ fullBacking ->
               [backing |-> backingInMax, iron |-> 0, mint |-> TruncateInt(backingInMaxInUSD)]
          [] ratio = 0 /\ ~fullBacking ->
               [backing |-> 0, iron |-> ironInMax, mint |-> TruncateInt(ironInMaxInUSD)]
          [] OTHER ->
               IF backingInMax > 0 /\ (ironInMax = 0 \/ max1 <= max2)
               THEN [backing |-> backingInMax, iron |-> capped(ironFor(max1), ironInMax),
                     mint |-> TruncateInt(max1)]
               ELSE [backing |-> capped(backingFor(max2), backingInMax), iron |-> ironInMax,
                     mint |-> TruncateInt(max2)]

MutantBurnRoundsUp(d, burn) ==
    [backing |-> CeilInt(QuoRoundUp(burn * ratio, rates[d])),
     iron    |-> CeilInt(QuoRoundUp(burn * (Precision - ratio), rates[Iron]))]

\* calculateBurnBySwapOut, for what is burned after the fee.
BurnBySwapOut(d, burn) ==
    [backing |-> TruncateInt(QuoTruncate(burn * ratio, rates[d])),
     iron    |-> TruncateInt(QuoTruncate(burn * (Precision - ratio), rates[Iron]))]

TotalBackingInUSD ==
    TruncateInt(MapThenSumSet(LAMBDA d : pool[d].backing * rates[d], DOMAIN pool))

\* getExcessBackingValue; negative when backing is missing.  GridMinted may be
\* negative, the required value is not.
ExcessBackingValue ==
    TotalBackingInUSD - (IF total.minted > 0 THEN CeilInt(total.minted * ratio) ELSE 0)

MutantCoveredByBacking(value) == value <= TotalBackingInUSD * Precision

\* Iron is bought only with backing in excess.
CoveredByExcess(value) == value <= ExcessBackingValue * Precision

PoolBackingBalance(d) == Min({pool[d].backing, bank.maker[d]})

\* calculateBuyBackingOut: what iron buys, and when it may.
BuyBackingOut(d, ironIn) ==
    LET all == TruncateInt(DecQuo(ironIn * rates[Iron], rates[d]))
        fee == ComputeFee(all, params[d].buybackFee)
    IN  [backing |-> all - fee, fee |-> fee]

CanBuyBacking(d, ironIn) ==
    /\ Available(d)
    /\ Priced({d, Iron} \cup DOMAIN pool)
    /\ CoveredByExcess(ironIn * rates[Iron])
    /\ BuyBackingOut(d, ironIn).backing + BuyBackingOut(d, ironIn).fee <= PoolBackingBalance(d)

\* calculateSellBackingOut: the iron minted for backing, and when it may be.
SellBackingIron(d, backingIn) == TruncateInt(DecQuo(backingIn * rates[d], rates[Iron]))

SellBackingOut(d, backingIn) ==
    LET ironMint == SellBackingIron(d, backingIn)
        fee == ComputeFee(ironMint, params[d].rebackFee)
    IN  [iron |-> ironMint + ComputeFee(ironMint, RebackBonus) - fee, fee |-> fee]

CanSellBacking(d, backingIn) ==
    LET missing == -ExcessBackingValue
    IN  /\ Available(d)
        /\ Priced({d, Iron} \cup DOMAIN pool)
        /\ WithinLimit(d, "maxBacking", pool[d].backing + backingIn)
        /\ missing >= 0
        /\ SellBackingIron(d, backingIn) * Precision <= DecQuo(missing * Precision, rates[Iron])

\* ValidateBasic.  The least amounts a message asks for are the smallest it
\* admits: a message that asks for more does the same or fails.
ValidMintBySwap(backingInMax, ironInMax, fullBacking) ==
    /\ backingInMax > 0 \/ ironInMax > 0
    /\ fullBacking => ironInMax = 0

ValidAmount(amount) == amount > 0

-----------------------------------------------------------------------------
(* The bank, external. *)

Move(b, from, to, c, amount) ==
    LET debited == [b EXCEPT ![from][c] = @ - amount]
    IN  [debited EXCEPT ![to][c] = @ + amount]
MintCoins(b, c, amount) == [b EXCEPT !.maker[c] = @ + amount]
BurnCoins(b, c, amount) == [b EXCEPT !.maker[c] = @ - amount]
Holds(c, amount) == bank.wallet[c] >= amount
Supply(c) == bank.wallet[c] + bank.maker[c] + bank.oracle[c]

MutantTotalForgotten(d, minted, backing, burned) ==
    /\ pool' = [pool EXCEPT ![d] = [minted |-> @.minted + minted,
                                   backing |-> @.backing + backing,
                                   burned |-> @.burned + burned]]
    /\ total' = [total EXCEPT !.minted = @ + minted]

\* SetPoolBacking and SetTotalBacking, with what an operation adds to the
\* pool's book and to the total.  Minted and burned amounts may go below zero.
AddToBooks(d, minted, backing, burned) ==
    /\ pool' = [pool EXCEPT ![d] = [minted |-> @.minted + minted,
                                   backing |-> @.backing + backing,
                                   burned |-> @.burned + burned]]
    /\ total' = [minted |-> total.minted + minted, burned |-> total.burned + burned]

-----------------------------------------------------------------------------
(* The messages. *)

MintBySwap(d, backingInMax, ironInMax, fullBacking) ==
    LET out == MintBySwapOut(d, backingInMax, ironInMax, fullBacking)
        fee == ComputeFee(out.mint, params[d].mintFee)
        taken == Move(Move(bank, "wallet", "maker", d, out.backing), "wallet", "maker", Iron, out.iron)
        minted == MintCoins(BurnCoins(taken, Iron, out.iron), Grid, out.mint)
    IN  /\ ValidMintBySwap(backingInMax, ironInMax, fullBacking)
        /\ CheckMintPriceLowerBound
        /\ Available(d) /\ Priced({d, Iron})
        /\ WithinLimit(d, "maxMint", pool[d].minted + out.mint)
        /\ WithinLimit(d, "maxBacking", pool[d].backing + out.backing)
        /\ out.mint - fee >= 1
        /\ Holds(d, out.backing) /\ Holds(Iron, out.iron)
        /\ AddToBooks(d, out.mint, out.backing, out.iron)
        /\ bank' = Move(Move(minted, "maker", "wallet", Grid, out.mint - fee),
                        "maker", "oracle", Grid, fee)
        /\ UNCHANGED <<blockVars, params>>

BurnBySwap(d, burnIn) ==
    LET fee == ComputeFee(burnIn, params[d].burnFee)
        burn == burnIn - fee
        out == BurnBySwapOut(d, burn)
        burned == BurnCoins(Move(bank, "wallet", "maker", Grid, burnIn), Grid, burn)
        minted == MintCoins(Move(burned, "maker", "oracle", Grid, fee), Iron, out.iron)
    IN  /\ ValidAmount(burnIn)
        /\ CheckBurnPriceUpperBound
        /\ Available(d) /\ Priced({d, Iron})
        /\ out.backing <= PoolBackingBalance(d)
        /\ Holds(Grid, burnIn)
        /\ AddToBooks(d, -burn, -out.backing, -out.iron)
        /\ bank' = Move(Move(minted, "maker", "wallet", d, out.backing),
                        "maker", "wallet", Iron, out.iron)
        /\ UNCHANGED <<blockVars, params>>

BuyBacking(d, ironIn) ==
    LET out == BuyBackingOut(d, ironIn)
        burned == BurnCoins(Move(bank, "wallet", "maker", Iron, ironIn), Iron, ironIn)
    IN  /\ ValidAmount(ironIn)
        /\ CanBuyBacking(d, ironIn)
        /\ Holds(Iron, ironIn)
        /\ AddToBooks(d, 0, -(out.backing + out.fee), ironIn)
        /\ bank' = Move(Move(burned, "maker", "wallet", d, out.backing), "maker", "oracle", d, out.fee)
        /\ UNCHANGED <<blockVars, params>>

SellBacking(d, backingIn) ==
    LET out == SellBackingOut(d, backingIn)
        ironMint == out.iron + out.fee
        minted == MintCoins(Move(bank, "wallet", "maker", d, backingIn), Iron, ironMint)
    IN  /\ ValidAmount(backingIn)
        /\ CanSellBacking(d, backingIn)
        /\ Holds(d, backingIn)
        /\ AddToBooks(d, 0, backingIn, -ironMint)
        /\ bank' = Move(Move(minted, "maker", "wallet", Iron, out.iron), "maker", "oracle", Iron, out.fee)
        /\ UNCHANGED <<blockVars, params>>

-----------------------------------------------------------------------------
(* Proposals.  A proposal is executed once when it is submitted, so one whose *)
(* handler fails or panics is never stored. *)

ValidateBackingRiskParams(p) == p.rebackFee <= RebackBonus

RegisterBacking(d, listing) ==
    /\ d \notin DOMAIN params
    /\ Supply(d) > 0
    /\ ValidateBackingRiskParams(listing)
    /\ params' = [e \in DOMAIN params \cup {d} |-> IF e = d THEN listing ELSE params[e]]
    /\ pool' = [e \in DOMAIN pool \cup {d} |->
          IF e = d THEN [minted |-> 0, backing |-> 0, burned |-> 0] ELSE pool[e]]
    /\ UNCHANGED <<blockVars, total, bank>>

\* A limit that was never set cannot be set later: the update writes through
\* its nil pointer.
SetBackingRiskParams(d, patch) ==
    /\ d \in DOMAIN params
    /\ DOMAIN patch \subseteq DOMAIN params[d]
    /\ LET patched == [f \in DOMAIN params[d] |->
             IF f \in DOMAIN patch THEN patch[f] ELSE params[d][f]]
       IN  /\ ValidateBackingRiskParams(patched)
           /\ params' = [params EXCEPT ![d] = patched]
    /\ UNCHANGED <<blockVars, pool, total, bank>>

-----------------------------------------------------------------------------
(* The end of a block: the oracle's rates, then AdjustBackingRatio. *)

MutantNoCooldown == RatioStep # 0

Adjusts == height - lastBlock >= CooldownPeriod /\ RatioStep # 0

AdjustedRatio(price) ==
    CASE price > Precision + PriceBand -> Max({ratio - RatioStep, 0})
      [] price < Precision - PriceBand -> Min({ratio + RatioStep, Precision})
      [] OTHER -> ratio

EndBlock(quote) ==
    /\ rates' = quote
    /\ IF Adjusts
       THEN /\ Grid \in DOMAIN quote
            /\ ratio' = AdjustedRatio(quote[Grid])
            /\ lastBlock' = height
       ELSE UNCHANGED <<ratio, lastBlock>>
    /\ height' = height + 1
    /\ UNCHANGED <<halted, params, pool, total, bank>>

\* AdjustBackingRatio panics without a rate of grid: the chain stops.
Halt(quote) ==
    /\ Adjusts
    /\ Grid \notin DOMAIN quote
    /\ halted' = TRUE
    /\ UNCHANGED <<height, rates, ratio, lastBlock, params, pool, total, bank>>

Message(d) ==
    \/ \E backingInMax, ironInMax \in Amounts, fullBacking \in BOOLEAN :
          MintBySwap(d, backingInMax, ironInMax, fullBacking)
    \/ \E amount \in Amounts :
          BurnBySwap(d, amount) \/ BuyBacking(d, amount) \/ SellBacking(d, amount)

Proposal(d) ==
    \/ \E listing \in Listings : RegisterBacking(d, listing)
    \/ \E patch \in Patches : SetBackingRiskParams(d, patch)

Next ==
    /\ ~halted
    /\ \/ \E d \in Backings : Message(d) \/ Proposal(d)
       \/ height < LastHeight /\ \E quote \in Quotes : EndBlock(quote) \/ Halt(quote)

Spec == Init /\ [][Next]_vars

-----------------------------------------------------------------------------
(* Properties. *)

\* What exists of grid and iron is exactly what the module has minted and
\* burned, every backing coin on a pool's book is in the module account, and the
\* account holds nothing else.
AccountsMatchBooks ==
    /\ Supply(Grid) = InitialWallet[Grid] + total.minted
    /\ Supply(Iron) = InitialWallet[Iron] - total.burned
    /\ \A c \in Coins :
          bank.maker[c] = IF c \in DOMAIN pool THEN pool[c].backing ELSE 0

\* Books, accounts and supply never drift apart, through any sequence of
\* swaps, trades and fees and whatever the rounding: TotalBacking is the sum of
\* the pools, and AccountsMatchBooks.
BooksMatchSupply ==
    /\ total.minted = MapThenSumSet(LAMBDA d : pool[d].minted, DOMAIN pool)
    /\ total.burned = MapThenSumSet(LAMBDA d : pool[d].burned, DOMAIN pool)
    /\ AccountsMatchBooks

\* No message moves a pool over a limit that is in force, also when the limit
\* was lowered below what the pool has.
LimitsHold ==
    [][\A d \in DOMAIN pool :
          /\ "maxBacking" \in DOMAIN params[d] =>
                pool'[d].backing <= Max({pool[d].backing, params[d].maxBacking})
          /\ "maxMint" \in DOMAIN params[d] =>
                pool'[d].minted <= Max({pool[d].minted, params[d].maxMint})]_vars

\* What the protocol owns less what it owes, at the current rates: backing and
\* burned iron against minted grid at its target price.
Equity ==
    MapThenSumSet(LAMBDA d : pool[d].backing * rates[d], DOMAIN pool)
      + total.burned * rates[Iron] - total.minted * Precision

HalfUnit == Max({rates[c] : c \in DOMAIN pool \cup {Iron}}) \div 2

\* No message takes value out of the protocol: at unchanged rates a mint, a
\* burn or a purchase of backing leaves the equity at least where it was, but
\* for the rounding of one amount to a whole coin.  A sale of backing may
\* cost the bonus on top.
EquityKept ==
    [][height' = height /\ Priced(DOMAIN pool \cup {Iron}) /\ DOMAIN pool' = DOMAIN pool =>
          LET minted == total.burned - total.burned'
              bonus == IF total'.minted = total.minted /\ minted > 0
                       THEN ComputeFee(minted, RebackBonus) * rates[Iron] ELSE 0
          IN  Equity' >= Equity - HalfUnit - bonus]_vars

\* Trades of backing for iron go towards the backing ratio and not past it:
\* a purchase leaves no backing missing, and a sale leaves no more excess
\* than the price of one iron.
TradesTowardsRatio ==
    [][height' = height /\ total'.minted = total.minted /\ total' # total =>
          IF total'.burned > total.burned THEN ExcessBackingValue' >= 0
          ELSE ExcessBackingValue' <= CeilInt(rates[Iron])]_vars

\* The backing ratio moves against the price of grid, one step at a time, not
\* more often than once in a cooldown period, and stays between none and all.
RatioFollowsPrice ==
    [][ratio' # ratio =>
          /\ ratio' > ratio => rates'[Grid] < Precision
          /\ ratio' < ratio => rates'[Grid] > Precision
          /\ ratio' - ratio \in -RatioStep..RatioStep /\ ratio' \in 0..Precision
          /\ lastBlock' - lastBlock >= CooldownPeriod]_vars
=============================================================================
