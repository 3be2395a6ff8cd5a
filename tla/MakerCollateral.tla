--------------------------- MODULE MakerCollateral ---------------------------
(***************************************************************************)
(* x/maker, the collateral side: an account deposits a collateral coin,    *)
(* and iron that raises its loan-to-value, and mints grid as a debt.  The  *)
(* debt bears interest, settled whenever the account is touched.  Debt     *)
(* that reaches the liquidation threshold lets anyone buy the collateral.  *)
(*                                                                         *)
(* The coins of all users are in one wallet, the positions are by account. *)
(* The oracle is external: it replaces the rates at the end of a block.    *)
(***************************************************************************)
EXTENDS Decimal, FiniteSets, FiniteSetsExt

CONSTANTS
    Accounts,
    Collaterals, Iron, Grid,    \* denominations
    Quotes,                     \* the exchange rates the oracle may store
    Listings,                   \* the risk parameters of registrations, by collateral
    Patches,                    \* the changes of risk parameters proposals make
    LiquidationCommissionFee,   \* a decimal
    BlocksPerYear,
    Wallets, InitialGrid,       \* what the users may hold at genesis
    Amounts,                    \* bound: the amounts messages name
    LastHeight                  \* bound: the last block explored

Coins == Collaterals \cup {Iron, Grid}
Rates == {"threshold", "ltv", "basicLtv", "catalytic", "liquidationFee", "mintFee", "interestFee"}
Limits == {"maxCollateral", "maxMint"}

\* The checks of ValidateBasic, on the fields that are set.
ValidRiskParams(p) ==
    /\ \A f \in Rates \cap DOMAIN p : p[f] \in 0..Precision
    /\ \A f \in Limits \cap DOMAIN p : p[f] \in Nat

ASSUME MakerCollateralAssumption ==
    /\ Iron \notin Collaterals /\ Grid \notin Collaterals /\ Iron # Grid
    /\ \A q \in Quotes : DOMAIN q \subseteq Coins /\ \A c \in DOMAIN q : q[c] \in Nat \ {0}
    /\ \A d \in Collaterals : \A p \in Listings[d] :
          {"enabled"} \cup Rates \subseteq DOMAIN p /\ ValidRiskParams(p)
    /\ \A p \in Patches : ValidRiskParams(p)
    /\ LiquidationCommissionFee \in 0..Precision
    /\ BlocksPerYear \in Nat \ {0}
    /\ Wallets \subseteq [Coins -> Nat] /\ \A w \in Wallets : w[Grid] = InitialGrid
    /\ Amounts \subseteq Nat
    /\ LastHeight \in Nat

VARIABLES
    height,
    rates,     \* the oracle's exchange rates, in USD; some may be missing
    params,    \* the risk parameters, by registered collateral; a limit that
               \* is nil in the code is a field the record does not have
    acc,       \* AccountCollateral, by account and collateral: [collateral,
               \* debt, iron, interest, settled]; the debt includes the interest
    pool,      \* PoolCollateral, by collateral: [collateral, debt, iron]
    total,     \* TotalCollateral: [debt, iron]
    bank       \* the coins of the users' wallet and of the module accounts

vars == <<height, rates, params, acc, pool, total, bank>>
books == <<acc, pool, total>>

Empty == [c \in Coins |-> 0]

Init ==
    /\ height = 1
    /\ rates \in Quotes
    /\ params = <<>>
    /\ acc = <<>>
    /\ pool = <<>>
    /\ total = [debt |-> 0, iron |-> 0]
    /\ \E wallet \in Wallets : bank = [wallet |-> wallet, maker |-> Empty, oracle |-> Empty]

-----------------------------------------------------------------------------
(* What the operations compute. *)

ComputeFee(amount, rate) == RoundHalfEven(amount * rate)

Available(d) == d \in DOMAIN params /\ params[d].enabled
Priced(S) == S \subseteq DOMAIN rates
WithinLimit(d, limit, amount) == limit \in DOMAIN params[d] => amount <= params[d][limit]

\* getCollateral: a deposit opens the position of an account that has none.
HasPosition(a, d) == <<a, d>> \in DOMAIN acc
Position(a, d) ==
    IF HasPosition(a, d) THEN acc[<<a, d>>]
    ELSE [collateral |-> 0, debt |-> 0, iron |-> 0, interest |-> 0, settled |-> height]

\* settleInterestFee: the interest on the principal since the last settlement.
Interest(p, d) ==
    RoundHalfEven(((p.debt - p.interest) * params[d].interestFee * (height - p.settled))
                    \div BlocksPerYear)

Settled(p, d) ==
    [p EXCEPT !.interest = @ + Interest(p, d), !.debt = @ + Interest(p, d), !.settled = height]

\* A repayment pays the interest first.
RepaidInterest(p, repay) == Min({p.interest, repay})

MutantFeeNotOwed(d, mintOut) == mintOut

\* The debt of a mint includes its fee.
MintTotal(d, mintOut) == mintOut + ComputeFee(mintOut, params[d].mintFee)

CollateralValue(p, d) == p.collateral * rates[d]

\* How much of the catalytic ratio the iron of a position makes up.
CatalyticRatio(p, d) ==
    Min({DecQuo(p.iron * rates[Iron], CollateralValue(p, d)), params[d].catalytic})

MutantFullValue(p, d) == Precision

\* The loan-to-value a mint may use.
MintLtv(p, d) ==
    params[d].basicLtv
      + IF params[d].catalytic > 0
        THEN DecQuo(DecMul(CatalyticRatio(p, d), params[d].ltv - params[d].basicLtv),
                    params[d].catalytic)
        ELSE 0

CanCarry(p, d) ==
    /\ CollateralValue(p, d) > 0
    /\ p.debt <= TruncateInt(DecMul(CollateralValue(p, d), MintLtv(p, d)))

\* maxLoanToValueForAccount, after a redemption: it divides by the catalytic
\* ratio, and panics when that is zero.
MaxDebtInUSD(p, d) ==
    IF CollateralValue(p, d) = 0 THEN 0
    ELSE DecMul(CollateralValue(p, d),
                DecQuo(DecMul(params[d].ltv - params[d].basicLtv, CatalyticRatio(p, d)),
                       params[d].catalytic) + params[d].basicLtv)

Undercollateralized(p, d) ==
    p.debt * Precision >= DecMul(CollateralValue(p, d), params[d].threshold)

-----------------------------------------------------------------------------
(* The bank, external. *)

Move(b, from, to, c, amount) ==
    LET debited == [b EXCEPT ![from][c] = @ - amount]
    IN  [debited EXCEPT ![to][c] = @ + amount]
MintCoins(b, c, amount) == [b EXCEPT !.maker[c] = @ + amount]
BurnCoins(b, c, amount) == [b EXCEPT !.maker[c] = @ - amount]
Holds(c, amount) == bank.wallet[c] >= amount
Supply(c) == bank.wallet[c] + bank.maker[c] + bank.oracle[c]

SetAccountCollateral(a, d, p) ==
    acc' = [k \in DOMAIN acc \cup {<<a, d>>} |-> IF k = <<a, d>> THEN p ELSE acc[k]]

MutantForgottenIron(d, collateral, debt, iron) ==
    /\ pool' = [pool EXCEPT ![d] = [collateral |-> @.collateral + collateral,
                                   debt |-> @.debt + debt, iron |-> @.iron + iron]]
    /\ total' = [debt |-> total.debt + debt, iron |-> total.iron]

\* SetPoolCollateral and SetTotalCollateral, with what an operation adds to them.
AddToBooks(d, collateral, debt, iron) ==
    /\ pool' = [pool EXCEPT ![d] = [collateral |-> @.collateral + collateral,
                                   debt |-> @.debt + debt, iron |-> @.iron + iron]]
    /\ total' = [debt |-> total.debt + debt, iron |-> total.iron + iron]

-----------------------------------------------------------------------------
(* The messages. *)

\* ValidateBasic.  The most a liquidator will pay is as large as it takes.
ValidAmount(amount) == amount > 0
ValidPair(collateral, iron) == collateral > 0 \/ iron > 0
ValidLiquidation(collateral) == collateral > 0

MintByCollateral(a, d, mintOut) ==
    LET fee == ComputeFee(mintOut, params[d].mintFee)
        mint == MintTotal(d, mintOut)
        p == Settled(Position(a, d), d)
        after == [p EXCEPT !.debt = @ + mint]
        charged == Interest(Position(a, d), d) + mint
    IN  /\ ValidAmount(mintOut)
        /\ Available(d) /\ Priced({d, Iron}) /\ HasPosition(a, d)
        /\ WithinLimit(d, "maxMint", pool[d].debt + charged)
        /\ CanCarry(after, d)
        /\ SetAccountCollateral(a, d, after)
        /\ AddToBooks(d, 0, charged, 0)
        /\ bank' = Move(Move(MintCoins(bank, Grid, mintOut + fee), "maker", "wallet", Grid, mintOut),
                        "maker", "oracle", Grid, fee)
        /\ UNCHANGED <<height, rates, params>>

\* The interest is repaid first, to the oracle; the principal is burned.
BurnByCollateral(a, d, repayInMax) ==
    LET interest == Interest(Position(a, d), d)
        p == Settled(Position(a, d), d)
        repayIn == Min({p.debt, repayInMax})
        repayInterest == RepaidInterest(p, repayIn)
        taken == Move(bank, "wallet", "maker", Grid, repayIn)
    IN  /\ ValidAmount(repayInMax)
        /\ Available(d) /\ HasPosition(a, d)
        /\ p.debt > 0
        /\ Holds(Grid, repayIn)
        /\ SetAccountCollateral(a, d,
              [p EXCEPT !.interest = @ - repayInterest, !.debt = @ - repayIn])
        /\ AddToBooks(d, 0, interest - repayIn, 0)
        /\ bank' = Move(BurnCoins(taken, Grid, repayIn - repayInterest),
                        "maker", "oracle", Grid, repayInterest)
        /\ UNCHANGED <<height, rates, params>>

DepositCollateral(a, d, collateralIn, ironIn) ==
    LET interest == Interest(Position(a, d), d)
        p == Settled(Position(a, d), d)
    IN  /\ ValidPair(collateralIn, ironIn)
        /\ Available(d)
        /\ WithinLimit(d, "maxCollateral", pool[d].collateral + collateralIn)
        /\ Holds(d, collateralIn) /\ Holds(Iron, ironIn)
        /\ SetAccountCollateral(a, d,
              [p EXCEPT !.collateral = @ + collateralIn, !.iron = @ + ironIn])
        /\ AddToBooks(d, collateralIn, interest, ironIn)
        /\ bank' = Move(Move(bank, "wallet", "maker", d, collateralIn),
                        "wallet", "maker", Iron, ironIn)
        /\ UNCHANGED <<height, rates, params>>

RedeemCollateral(a, d, collateralOut, ironOut) ==
    LET interest == Interest(Position(a, d), d)
        p == Settled(Position(a, d), d)
        after == [p EXCEPT !.collateral = @ - collateralOut, !.iron = @ - ironOut]
    IN  /\ ValidPair(collateralOut, ironOut)
        /\ Available(d) /\ HasPosition(a, d)
        /\ collateralOut <= p.collateral /\ ironOut <= p.iron
        /\ Priced({d, Iron}) /\ (after.collateral > 0 => params[d].catalytic > 0)
        /\ after.debt * Precision <= MaxDebtInUSD(after, d)
        /\ SetAccountCollateral(a, d, after)
        /\ AddToBooks(d, -collateralOut, interest, -ironOut)
        /\ bank' = Move(Move(bank, "maker", "wallet", d, collateralOut),
                        "maker", "wallet", Iron, ironOut)
        /\ UNCHANGED <<height, rates, params>>

\* What the buyer of collateral pays, and the part of it that is commission.
RepayIn(d, collateral) ==
    DecMul(collateral * (Precision - params[d].liquidationFee), rates[d]) \div Precision
Commission(d, collateral) ==
    TruncateInt(DecMul(collateral * params[d].liquidationFee, LiquidationCommissionFee))

Refund(b, amount) == Move(b, "maker", "wallet", Grid, amount)

\* LiquidateCollateral of the position of a.  All of what is repaid is burned,
\* the interest too; what exceeds the debt goes to the debtor.
LiquidateCollateral(a, d, collateral) ==
    LET interest == Interest(Position(a, d), d)
        p == Settled(Position(a, d), d)
        repayIn == RepayIn(d, collateral)
        repayDebt == Min({p.debt, repayIn})
        commission == Commission(d, collateral)
        taken == BurnCoins(Move(bank, "wallet", "maker", Grid, repayIn), Grid, repayDebt)
        sold == Move(taken, "maker", "wallet", d, collateral - commission)
    IN  /\ ValidLiquidation(collateral)
        /\ Available(d) /\ HasPosition(a, d) /\ Priced({d})
        /\ Undercollateralized(p, d)
        /\ collateral <= p.collateral
        /\ Holds(Grid, repayIn)
        /\ SetAccountCollateral(a, d,
              [p EXCEPT !.interest = @ - RepaidInterest(p, repayDebt),
                        !.debt = @ - repayDebt, !.collateral = @ - collateral])
        /\ AddToBooks(d, -collateral, interest - repayDebt, 0)
        /\ bank' = Refund(Move(sold, "maker", "oracle", d, commission), repayIn - repayDebt)
        /\ UNCHANGED <<height, rates, params>>

-----------------------------------------------------------------------------
(* Proposals, and the end of a block. *)

ValidateCollateralRiskParams(p) == p.ltv < p.threshold /\ p.basicLtv <= p.ltv

RegisterCollateral(d, listing) ==
    /\ d \notin DOMAIN params
    /\ Supply(d) > 0
    /\ ValidateCollateralRiskParams(listing)
    /\ params' = [e \in DOMAIN params \cup {d} |-> IF e = d THEN listing ELSE params[e]]
    /\ pool' = [e \in DOMAIN pool \cup {d} |->
          IF e = d THEN [collateral |-> 0, debt |-> 0, iron |-> 0] ELSE pool[e]]
    /\ UNCHANGED <<height, rates, acc, total, bank>>

\* As on the backing side, a limit that was never set cannot be set later.
SetCollateralRiskParams(d, patch) ==
    /\ d \in DOMAIN params
    /\ DOMAIN patch \subseteq DOMAIN params[d]
    /\ LET patched == [f \in DOMAIN params[d] |->
             IF f \in DOMAIN patch THEN patch[f] ELSE params[d][f]]
       IN  /\ ValidateCollateralRiskParams(patched)
           /\ params' = [params EXCEPT ![d] = patched]
    /\ UNCHANGED <<height, rates, books, bank>>

EndBlock(quote) ==
    /\ height < LastHeight
    /\ rates' = quote
    /\ height' = height + 1
    /\ UNCHANGED <<params, books, bank>>

Message(a, d) ==
    \/ \E amount \in Amounts :
          \/ MintByCollateral(a, d, amount)
          \/ BurnByCollateral(a, d, amount)
          \/ LiquidateCollateral(a, d, amount)
    \/ \E collateral, iron \in Amounts :
          DepositCollateral(a, d, collateral, iron) \/ RedeemCollateral(a, d, collateral, iron)

Proposal(d) ==
    \/ \E listing \in Listings[d] : RegisterCollateral(d, listing)
    \/ \E patch \in Patches : SetCollateralRiskParams(d, patch)

Next ==
    \/ \E d \in Collaterals : Proposal(d) \/ \E a \in Accounts : Message(a, d)
    \/ \E quote \in Quotes : EndBlock(quote)

Spec == Init /\ [][Next]_vars

-----------------------------------------------------------------------------
(* Properties. *)

PositionsOf(d) == {k \in DOMAIN acc : k[2] = d}

\* The module account holds exactly the deposits on the books, so that no fee,
\* refund or commission stays behind in it; and unpaid interest is part of the
\* debt, so that no principal is negative.
DepositsHeld ==
    /\ \A d \in Collaterals :
          bank.maker[d] = IF d \in DOMAIN pool THEN pool[d].collateral ELSE 0
    /\ bank.maker[Iron] = total.iron
    /\ bank.maker[Grid] = 0
    /\ \A k \in DOMAIN acc : acc[k].interest \in 0..acc[k].debt

\* The books agree although every message settles one position at its own
\* time: the pools are the sums of the positions and the total is the sum of
\* the pools, interest included, and DepositsHeld, so that every position can
\* be paid out in full.
TotalsAreSums ==
    /\ \A d \in DOMAIN pool :
          /\ pool[d].collateral = MapThenSumSet(LAMBDA k : acc[k].collateral, PositionsOf(d))
          /\ pool[d].debt = MapThenSumSet(LAMBDA k : acc[k].debt, PositionsOf(d))
          /\ pool[d].iron = MapThenSumSet(LAMBDA k : acc[k].iron, PositionsOf(d))
    /\ total.debt = MapThenSumSet(LAMBDA d : pool[d].debt, DOMAIN pool)
    /\ total.iron = MapThenSumSet(LAMBDA d : pool[d].iron, DOMAIN pool)
    /\ DepositsHeld

\* The grid minted on collateral and not burned is at most the principal still
\* owed: whoever repays and liquidates, in whatever order interest is
\* settled, no grid is left in circulation that nobody owes.  (Liquidation
\* burns interest as well, so it may be less.)
DebtCoversSupply ==
    Supply(Grid) - InitialGrid
      <= MapThenSumSet(LAMBDA k : acc[k].debt - acc[k].interest, DOMAIN acc)

Secure(p, d) == p.debt = 0 \/ ~Undercollateralized(p, d)

\* A message that mints on a position, or takes iron out of it, leaves it out
\* of reach of liquidation at the prices of the block; one that takes
\* collateral out does so too, unless the position was within reach of
\* liquidation before, with the interest of that moment.
SafeUnlessDue ==
    [][\A k \in DOMAIN acc :
          LET p == acc[k]
              q == acc'[k]
              d == k[2]
          IN  /\ q.debt - q.interest > p.debt - p.interest \/ q.iron < p.iron => Secure(q, d)
              /\ q.collateral < p.collateral =>
                    Secure(q, d) \/ Undercollateralized(Settled(p, d), d)]_vars
=============================================================================
