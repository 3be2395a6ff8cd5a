----------------------- MODULE MakerCollateralProofs ------------------------
(***************************************************************************)
(* x/maker, the collateral side: the module account holds exactly the      *)
(* deposits and unpaid interest is part of the debt, for all accounts,     *)
(* collaterals, rates, fees, amounts and any precision of the decimals.    *)
(***************************************************************************)
EXTENDS MakerCollateral, DecimalProofs

-----------------------------------------------------------------------------
(* The inductive invariant: types, settled positions, and the accounts. *)

Holders == {"wallet", "maker", "oracle"}
Ledger == [Holders -> [Coins -> Int]]
Books == [collateral : Int, debt : Int, iron : Int]

\* A position was settled at some block so far and owes at least its interest.
ValidPosition(p, h) ==
    /\ DOMAIN p = {"collateral", "debt", "iron", "interest", "settled"}
    /\ p.collateral \in Int /\ p.debt \in Int /\ p.iron \in Int
    /\ p.settled \in Int /\ p.settled <= h
    /\ p.interest \in 0..p.debt

Types ==
    /\ height \in Nat
    /\ rates \in Quotes
    /\ DOMAIN pool = DOMAIN params /\ DOMAIN pool \subseteq Collaterals
    /\ \A d \in DOMAIN params : Rates \subseteq DOMAIN params[d] /\ ValidRiskParams(params[d])
    /\ \A d \in DOMAIN pool : pool[d] \in Books
    /\ total \in [debt : Int, iron : Int]
    /\ bank \in Ledger

Positions == \A k \in DOMAIN acc : ValidPosition(acc[k], height)

AccountHolds ==
    /\ \A d \in Collaterals :
          bank["maker"][d] = IF d \in DOMAIN pool THEN pool[d].collateral ELSE 0
    /\ bank["maker"][Iron] = total.iron
    /\ bank["maker"][Grid] = 0

Inv == Types /\ Positions /\ AccountHolds

LEMMA InvSuffices == Inv => DepositsHeld
BY DEF Inv, Positions, ValidPosition, AccountHolds, DepositsHeld

LEMMA FeeTypes ==
    ASSUME Types, NEW d \in DOMAIN params
    PROVE  /\ params[d].mintFee \in 0..Precision /\ params[d].interestFee \in 0..Precision
           /\ params[d].liquidationFee \in 0..Precision
<1>1. \A f \in Rates : params[d][f] \in 0..Precision
  BY DEF Types, ValidRiskParams
<1>2. QED
  BY <1>1 DEF Rates

\* Interest is natural, and settling it keeps a position valid.
LEMMA SettledPosition ==
    ASSUME Types, Positions, NEW a, NEW d \in DOMAIN params
    PROVE  /\ Interest(Position(a, d), d) \in Nat
           /\ ValidPosition(Settled(Position(a, d), d), height)
<1> DEFINE p == Position(a, d)
           principal == p.debt - p.interest
           elapsed == height - p.settled
           i == Interest(p, d)
<1>1. ValidPosition(p, height)
  BY DEF Position, HasPosition, Positions, ValidPosition, Types
<1> HIDE DEF p
<1>2. principal \in Nat /\ elapsed \in Nat
  BY <1>1 DEF ValidPosition, Types
<1>3. i = RoundHalfEven((principal * params[d].interestFee * elapsed) \div BlocksPerYear)
  BY DEF Interest
<1>4. params[d].interestFee \in Nat /\ BlocksPerYear \in Nat \ {0}
  BY FeeTypes, MakerCollateralAssumption
<1> HIDE DEF principal, elapsed
<1>5. principal * params[d].interestFee * elapsed \in Nat
  BY <1>2, <1>4, MulNat
<1>6. i \in Nat
  BY <1>3, <1>4, <1>5, DivNat, RoundNat, SMTT(30)
<1>7. Settled(p, d) = [p EXCEPT !.interest = @ + i, !.debt = @ + i, !.settled = height]
  BY DEF Settled
<1> HIDE DEF i
<1>8. ValidPosition(Settled(p, d), height)
  BY <1>1, <1>6, <1>7 DEF ValidPosition, Types
<1>9. QED
  BY <1>6, <1>8 DEF p, i

LEMMA MinPair ==
    ASSUME NEW a \in Int, NEW b \in Int
    PROVE  /\ Min({a, b}) \in Int /\ Min({a, b}) <= a /\ Min({a, b}) <= b
           /\ Min({a, b}) = a \/ Min({a, b}) = b
           /\ a \in Nat /\ b \in Nat => Min({a, b}) \in Nat
<1>1. \E x \in {a, b} : \A y \in {a, b} : x <= y
  OBVIOUS
<1>2. Min({a, b}) \in {a, b} /\ \A y \in {a, b} : Min({a, b}) <= y
  BY <1>1 DEF Min
<1>3. QED
  BY <1>2

\* A repayment of at most the debt, interest first, keeps a position valid.
LEMMA Repaid ==
    ASSUME NEW p, ValidPosition(p, height), NEW repay \in Nat, repay <= p.debt, NEW c \in Int
    PROVE  /\ ValidPosition([p EXCEPT !.interest = @ - RepaidInterest(p, repay),
                                      !.debt = @ - repay, !.collateral = @ - c], height)
           /\ ValidPosition([p EXCEPT !.interest = @ - RepaidInterest(p, repay),
                                      !.debt = @ - repay], height)
           /\ RepaidInterest(p, repay) \in Int
<1> DEFINE m == Min({p.interest, repay})
<1>1. p.interest \in Int /\ repay \in Int
  BY DEF ValidPosition
<1>2. m \in Int /\ m <= p.interest /\ m <= repay /\ (m = p.interest \/ m = repay)
  BY <1>1, MinPair, Zenon
<1>3. RepaidInterest(p, repay) = m
  BY DEF RepaidInterest
<1> HIDE DEF m
<1>4. QED
  BY <1>1, <1>2, <1>3 DEF ValidPosition

-----------------------------------------------------------------------------
(* The bank. *)

\* The ledger n is b after a move, and after a mint (a burn, when negative).
Moved(b, n, from, to, c, a) ==
    \A x \in Holders, e \in Coins : n[x][e] =
        b[x][e] + (IF e # c THEN 0 ELSE IF x = from THEN -a ELSE IF x = to THEN a ELSE 0)
Minted(b, n, c, a) ==
    \A x \in Holders, e \in Coins : n[x][e] = b[x][e] + (IF e = c /\ x = "maker" THEN a ELSE 0)

LEMMA MoveBalance ==
    ASSUME NEW b \in Ledger, NEW from \in Holders, NEW to \in Holders, from # to,
           NEW c \in Coins, NEW a \in Int
    PROVE  /\ Move(b, from, to, c, a) \in Ledger
           /\ Moved(b, Move(b, from, to, c, a), from, to, c, a)
<1> DEFINE debited == [b EXCEPT ![from][c] = @ - a]
<1>1. /\ debited \in Ledger
      /\ \A x \in Holders, e \in Coins :
            debited[x][e] = b[x][e] - (IF e = c /\ x = from THEN a ELSE 0)
  BY DEF Ledger
<1>2. Move(b, from, to, c, a) = [debited EXCEPT ![to][c] = @ + a]
  BY DEF Move
<1> HIDE DEF debited
<1>3. QED
  BY <1>1, <1>2 DEF Ledger, Moved

LEMMA MintBalance ==
    ASSUME NEW b \in Ledger, NEW c \in Coins, NEW a \in Int
    PROVE  MintCoins(b, c, a) \in Ledger /\ Minted(b, MintCoins(b, c, a), c, a)
BY DEF Ledger, Holders, MintCoins, Minted

LEMMA BurnBalance ==
    ASSUME NEW b \in Ledger, NEW c \in Coins, NEW a \in Int
    PROVE  BurnCoins(b, c, a) \in Ledger /\ Minted(b, BurnCoins(b, c, a), c, -a)
BY DEF Ledger, Holders, BurnCoins, Minted

\* What a message must do: store a valid position, and move the maker's account as
\* the books say.
LEMMA BooksStep ==
    ASSUME Inv, NEW a, NEW d \in DOMAIN pool, NEW p, ValidPosition(p, height),
           SetAccountCollateral(a, d, p),
           NEW c \in Int, NEW b \in Int, NEW i \in Int, AddToBooks(d, c, b, i),
           UNCHANGED <<height, rates, params>>, bank' \in Ledger,
           \A x \in Coins : bank'["maker"][x] =
               bank["maker"][x] + (IF x = d THEN c ELSE IF x = Iron THEN i ELSE 0)
    PROVE  Inv'
<1>1. /\ DOMAIN pool' = DOMAIN pool
      /\ \A e \in DOMAIN pool : pool'[e] = IF e # d THEN pool[e]
            ELSE [collateral |-> pool[e].collateral + c, debt |-> pool[e].debt + b,
                  iron |-> pool[e].iron + i]
      /\ total' = [debt |-> total.debt + b, iron |-> total.iron + i]
  BY DEF AddToBooks
<1>2. \A e \in DOMAIN pool : pool[e] \in Books
  BY DEF Inv, Types
<1>3. \A e \in DOMAIN pool : pool'[e] \in Books
  BY <1>1, <1>2 DEF Books
<1>4. Types'
  BY <1>1, <1>3 DEF Inv, Types
<1>5. Positions'
  BY DEF Inv, Positions, SetAccountCollateral
<1>6. /\ DOMAIN pool \subseteq Collaterals /\ Collaterals \subseteq Coins
      /\ Iron \in Coins /\ Grid \in Coins /\ Iron # Grid
      /\ Iron \notin Collaterals /\ Grid \notin Collaterals
  BY MakerCollateralAssumption DEF Inv, Types, Coins
<1>7. AccountHolds'
  <2>1. \A e \in Collaterals :
          bank'["maker"][e] = IF e \in DOMAIN pool' THEN pool'[e].collateral ELSE 0
    <3>1. bank["maker"] \in [Coins -> Int]
      BY DEF Inv, Types, Ledger, Holders
    <3>2. QED
      BY <1>1, <1>2, <1>6, <3>1 DEF Inv, AccountHolds, Books
  <2>2. bank'["maker"][Iron] = total'.iron /\ bank'["maker"][Grid] = 0
    BY <1>1, <1>6 DEF Inv, AccountHolds
  <2>3. QED
    BY <2>1, <2>2 DEF AccountHolds
<1>8. QED
  BY <1>4, <1>5, <1>7 DEF Inv

\* What the messages of a registered collateral rely on.
Registered(d) ==
    /\ d \in DOMAIN pool /\ d \in Coins /\ Grid \in Coins /\ Iron \in Coins
    /\ d # Grid /\ d # Iron /\ Grid # Iron
    /\ bank \in Ledger /\ \A x \in Holders, c \in Coins : bank[x][c] \in Int
    /\ "wallet" \in Holders /\ "maker" \in Holders /\ "oracle" \in Holders

LEMMA CoinFacts ==
    ASSUME Inv, NEW d \in DOMAIN params
    PROVE  Registered(d)
BY MakerCollateralAssumption DEF Registered, Inv, Types, Coins, Holders, Ledger

-----------------------------------------------------------------------------
(* The messages. *)

LEMMA MintByCollateralInv ==
    ASSUME Inv, NEW a, NEW d, NEW out \in Nat, MintByCollateral(a, d, out)
    PROVE  Inv'
<1> DEFINE fee == ComputeFee(out, params[d].mintFee)
           mint == MintTotal(d, out)
           i == Interest(Position(a, d), d)
           p == Settled(Position(a, d), d)
           after == [p EXCEPT !.debt = @ + mint]
           b1 == MintCoins(bank, Grid, out + fee)
           b2 == Move(b1, "maker", "wallet", Grid, out)
           b3 == Move(b2, "maker", "oracle", Grid, fee)
<1>1. /\ d \in DOMAIN params
      /\ SetAccountCollateral(a, d, after)
      /\ AddToBooks(d, 0, i + mint, 0)
      /\ bank' = b3
      /\ UNCHANGED <<height, rates, params>>
  BY DEF MintByCollateral, Available
<1>2. fee \in Nat /\ mint = out + fee
  BY <1>1, FeeTypes, FeeWithin DEF Inv, ComputeFee, MintTotal
<1>3. i \in Nat /\ ValidPosition(p, height)
  BY <1>1, SettledPosition DEF Inv
<1> HIDE DEF fee, mint, i, p
<1>4. ValidPosition(after, height)
  BY <1>2, <1>3 DEF ValidPosition
<1> HIDE DEF after
<1>5. Registered(d)
  BY <1>1, CoinFacts
<1>6. b1 \in Ledger /\ Minted(bank, b1, Grid, out + fee)
  BY <1>2, <1>5, MintBalance DEF Registered
<1> HIDE DEF b1
<1>7. b2 \in Ledger /\ Moved(b1, b2, "maker", "wallet", Grid, out)
  BY <1>5, <1>6, MoveBalance DEF Registered
<1> HIDE DEF b2
<1>8. b3 \in Ledger /\ Moved(b2, b3, "maker", "oracle", Grid, fee)
  BY <1>2, <1>5, <1>7, MoveBalance DEF Registered
<1> HIDE DEF b3
<1>9. \A x \in Coins : bank'["maker"][x] =
          bank["maker"][x] + (IF x = d THEN 0 ELSE IF x = Iron THEN 0 ELSE 0)
  BY <1>1, <1>2, <1>5, <1>6, <1>7, <1>8, SMTT(30) DEF Registered, Moved, Minted
<1>10. i + mint \in Int /\ 0 \in Int
  BY <1>2, <1>3
<1>11. QED
  BY <1>1, <1>4, <1>5, <1>8, <1>9, <1>10, BooksStep, SMTT(30) DEF Registered

LEMMA BurnByCollateralInv ==
    ASSUME Inv, NEW a, NEW d, NEW max \in Nat, BurnByCollateral(a, d, max)
    PROVE  Inv'
<1> DEFINE i == Interest(Position(a, d), d)
           p == Settled(Position(a, d), d)
           repay == Min({p.debt, max})
           ri == RepaidInterest(p, repay)
           after == [p EXCEPT !.interest = @ - ri, !.debt = @ - repay]
           b1 == Move(bank, "wallet", "maker", Grid, repay)
           b2 == BurnCoins(b1, Grid, repay - ri)
           b3 == Move(b2, "maker", "oracle", Grid, ri)
<1>1. /\ d \in DOMAIN params
      /\ SetAccountCollateral(a, d, after)
      /\ AddToBooks(d, 0, i - repay, 0)
      /\ bank' = b3
      /\ UNCHANGED <<height, rates, params>>
  BY DEF BurnByCollateral, Available
<1>2. i \in Nat /\ ValidPosition(p, height)
  BY <1>1, SettledPosition DEF Inv
<1> HIDE DEF i, p
<1>3. p.debt \in Nat /\ p.debt \in Int /\ max \in Int /\ 0 \in Int
  BY <1>2 DEF ValidPosition
<1>4. repay \in Nat /\ repay <= p.debt
  BY <1>3, MinPair, Zenon
<1> HIDE DEF repay
<1>5. ValidPosition(after, height) /\ ri \in Int
  BY <1>2, <1>3, <1>4, Repaid, Zenon
<1> HIDE DEF ri, after
<1>6. Registered(d)
  BY <1>1, CoinFacts
<1>7. b1 \in Ledger /\ Moved(bank, b1, "wallet", "maker", Grid, repay)
  BY <1>4, <1>6, MoveBalance DEF Registered
<1> HIDE DEF b1
<1>8. b2 \in Ledger /\ Minted(b1, b2, Grid, -(repay - ri))
  BY <1>4, <1>5, <1>6, <1>7, BurnBalance, SMTT(30) DEF Registered
<1> HIDE DEF b2
<1>9. b3 \in Ledger /\ Moved(b2, b3, "maker", "oracle", Grid, ri)
  BY <1>5, <1>6, <1>8, MoveBalance DEF Registered
<1> HIDE DEF b3
<1>10. \A x \in Coins : bank'["maker"][x] =
          bank["maker"][x] + (IF x = d THEN 0 ELSE IF x = Iron THEN 0 ELSE 0)
  BY <1>1, <1>4, <1>5, <1>6, <1>7, <1>8, <1>9, SMTT(30) DEF Registered, Moved, Minted
<1>11. i - repay \in Int /\ 0 \in Int
  BY <1>2, <1>4
<1>12. QED
  BY <1>1, <1>5, <1>6, <1>9, <1>10, <1>11, BooksStep, SMTT(30) DEF Registered

LEMMA DepositCollateralInv ==
    ASSUME Inv, NEW a, NEW d, NEW c \in Nat, NEW n \in Nat, DepositCollateral(a, d, c, n)
    PROVE  Inv'
<1> DEFINE i == Interest(Position(a, d), d)
           p == Settled(Position(a, d), d)
           after == [p EXCEPT !.collateral = @ + c, !.iron = @ + n]
           b1 == Move(bank, "wallet", "maker", d, c)
           b2 == Move(b1, "wallet", "maker", Iron, n)
<1>1. /\ d \in DOMAIN params
      /\ SetAccountCollateral(a, d, after)
      /\ AddToBooks(d, c, i, n)
      /\ bank' = b2
      /\ UNCHANGED <<height, rates, params>>
  BY DEF DepositCollateral, Available
<1>2. i \in Nat /\ ValidPosition(p, height)
  BY <1>1, SettledPosition DEF Inv
<1> HIDE DEF i, p
<1>3. ValidPosition(after, height)
  BY <1>2 DEF ValidPosition
<1> HIDE DEF after
<1>4. Registered(d)
  BY <1>1, CoinFacts
<1>5. b1 \in Ledger /\ Moved(bank, b1, "wallet", "maker", d, c)
  BY <1>4, MoveBalance DEF Registered
<1> HIDE DEF b1
<1>6. b2 \in Ledger /\ Moved(b1, b2, "wallet", "maker", Iron, n)
  BY <1>4, <1>5, MoveBalance DEF Registered
<1> HIDE DEF b2
<1>7. \A x \in Coins : bank'["maker"][x] =
          bank["maker"][x] + (IF x = d THEN c ELSE IF x = Iron THEN n ELSE 0)
  BY <1>1, <1>4, <1>5, <1>6, SMTT(30) DEF Registered, Moved
<1>8. i \in Int /\ c \in Int /\ n \in Int
  BY <1>2
<1>9. QED
  BY <1>1, <1>3, <1>4, <1>6, <1>7, <1>8, BooksStep, SMTT(30) DEF Registered

LEMMA RedeemCollateralInv ==
    ASSUME Inv, NEW a, NEW d, NEW c \in Nat, NEW n \in Nat, RedeemCollateral(a, d, c, n)
    PROVE  Inv'
<1> DEFINE i == Interest(Position(a, d), d)
           p == Settled(Position(a, d), d)
           after == [p EXCEPT !.collateral = @ - c, !.iron = @ - n]
           b1 == Move(bank, "maker", "wallet", d, c)
           b2 == Move(b1, "maker", "wallet", Iron, n)
<1>1. /\ d \in DOMAIN params
      /\ SetAccountCollateral(a, d, after)
      /\ AddToBooks(d, -c, i, -n)
      /\ bank' = b2
      /\ UNCHANGED <<height, rates, params>>
  BY DEF RedeemCollateral, Available
<1>2. i \in Nat /\ ValidPosition(p, height)
  BY <1>1, SettledPosition DEF Inv
<1> HIDE DEF i, p
<1>3. ValidPosition(after, height)
  BY <1>2 DEF ValidPosition
<1> HIDE DEF after
<1>4. Registered(d)
  BY <1>1, CoinFacts
<1>5. b1 \in Ledger /\ Moved(bank, b1, "maker", "wallet", d, c)
  BY <1>4, MoveBalance DEF Registered
<1> HIDE DEF b1
<1>6. b2 \in Ledger /\ Moved(b1, b2, "maker", "wallet", Iron, n)
  BY <1>4, <1>5, MoveBalance DEF Registered
<1> HIDE DEF b2
<1>7. \A x \in Coins : bank'["maker"][x] =
          bank["maker"][x] + (IF x = d THEN -c ELSE IF x = Iron THEN -n ELSE 0)
  BY <1>1, <1>4, <1>5, <1>6, SMTT(30) DEF Registered, Moved
<1>8. i \in Int /\ -c \in Int /\ -n \in Int
  BY <1>2
<1>9. QED
  BY <1>1, <1>3, <1>4, <1>6, <1>7, <1>8, BooksStep, SMTT(30) DEF Registered

\* What a liquidator pays is natural, and the commission is an amount.
LEMMA LiquidationTypes ==
    ASSUME Types, NEW d \in DOMAIN params, Priced({d}), NEW c \in Nat
    PROVE  RepayIn(d, c) \in Nat /\ Commission(d, c) \in Int
<1>1. rates[d] \in Nat
  BY MakerCollateralAssumption DEF Types, Priced
<1>2. params[d].liquidationFee \in Nat /\ Precision - params[d].liquidationFee \in Nat
  BY FeeTypes, PrecisionAssumption
<1>3. c * (Precision - params[d].liquidationFee) \in Nat /\ c * params[d].liquidationFee \in Nat
  BY <1>2, MulNat
<1>4. DecMul(c * (Precision - params[d].liquidationFee), rates[d]) \in Nat
  BY <1>1, <1>3, MulNat, RoundNat DEF DecMul
<1>5. RepayIn(d, c) \in Nat
  BY <1>4, DivNat, PrecisionAssumption DEF RepayIn
<1>6. LiquidationCommissionFee \in Nat
  BY MakerCollateralAssumption, PrecisionAssumption
<1>7. DecMul(c * params[d].liquidationFee, LiquidationCommissionFee) \in Nat
  BY <1>3, <1>6, MulNat, RoundNat DEF DecMul
<1>8. Commission(d, c) \in Nat
  BY <1>7, TruncateNat DEF Commission
<1>9. QED
  BY <1>5, <1>8

LEMMA LiquidateCollateralInv ==
    ASSUME Inv, NEW a, NEW d, NEW c \in Nat, LiquidateCollateral(a, d, c)
    PROVE  Inv'
<1> DEFINE i == Interest(Position(a, d), d)
           p == Settled(Position(a, d), d)
           pays == RepayIn(d, c)
           repay == Min({p.debt, pays})
           fee == Commission(d, c)
           ri == RepaidInterest(p, repay)
           after == [p EXCEPT !.interest = @ - ri, !.debt = @ - repay, !.collateral = @ - c]
           b1 == Move(bank, "wallet", "maker", Grid, pays)
           b2 == BurnCoins(b1, Grid, repay)
           b3 == Move(b2, "maker", "wallet", d, c - fee)
           b4 == Move(b3, "maker", "oracle", d, fee)
           b5 == Move(b4, "maker", "wallet", Grid, pays - repay)
<1>1. /\ d \in DOMAIN params /\ Priced({d})
      /\ SetAccountCollateral(a, d, after)
      /\ AddToBooks(d, -c, i - repay, 0)
      /\ bank' = b5
      /\ UNCHANGED <<height, rates, params>>
  BY DEF LiquidateCollateral, Available, Refund
<1>2. i \in Nat /\ ValidPosition(p, height) /\ pays \in Nat /\ fee \in Int
  BY <1>1, SettledPosition, LiquidationTypes DEF Inv
<1> HIDE DEF i, p, pays, fee
<1>3. p.debt \in Nat /\ p.debt \in Int /\ pays \in Int /\ c \in Int
  BY <1>2 DEF ValidPosition
<1>4. repay \in Nat /\ repay <= p.debt
  BY <1>2, <1>3, MinPair, Zenon
<1> HIDE DEF repay
<1>5. ValidPosition(after, height)
  BY <1>2, <1>3, <1>4, Repaid, Zenon
<1> HIDE DEF ri, after
<1>6. Registered(d)
  BY <1>1, CoinFacts
<1>7. b1 \in Ledger /\ Moved(bank, b1, "wallet", "maker", Grid, pays)
  BY <1>3, <1>6, MoveBalance DEF Registered
<1> HIDE DEF b1
<1>8. b2 \in Ledger /\ Minted(b1, b2, Grid, -repay)
  BY <1>4, <1>6, <1>7, BurnBalance DEF Registered
<1> HIDE DEF b2
<1>9. b3 \in Ledger /\ Moved(b2, b3, "maker", "wallet", d, c - fee)
  BY <1>2, <1>6, <1>8, MoveBalance, SMTT(30) DEF Registered
<1> HIDE DEF b3
<1>10. b4 \in Ledger /\ Moved(b3, b4, "maker", "oracle", d, fee)
  BY <1>2, <1>6, <1>9, MoveBalance, Zenon DEF Registered
<1> HIDE DEF b4
<1>11. b5 \in Ledger /\ Moved(b4, b5, "maker", "wallet", Grid, pays - repay)
  BY <1>3, <1>4, <1>6, <1>10, MoveBalance, SMTT(30) DEF Registered
<1> HIDE DEF b5
<1>12. \A x \in Coins : bank'["maker"][x] =
          bank["maker"][x] + (IF x = d THEN -c ELSE IF x = Iron THEN 0 ELSE 0)
  BY <1>1, <1>2, <1>3, <1>4, <1>6, <1>7, <1>8, <1>9, <1>10, <1>11,
     SMTT(30) DEF Registered, Moved, Minted
<1>13. i - repay \in Int /\ -c \in Int /\ 0 \in Int
  BY <1>2, <1>4
<1>14. QED
  BY <1>1, <1>5, <1>6, <1>11, <1>12, <1>13, BooksStep, SMTT(30) DEF Registered

-----------------------------------------------------------------------------
(* Proposals, the end of a block, and the theorem. *)

LEMMA RegisterCollateralInv ==
    ASSUME Inv, NEW d \in Collaterals, NEW listing \in Listings[d], RegisterCollateral(d, listing)
    PROVE  Inv'
<1> DEFINE zero == [collateral |-> 0, debt |-> 0, iron |-> 0]
<1>1. /\ d \notin DOMAIN pool
      /\ DOMAIN params' = DOMAIN params \cup {d} /\ DOMAIN pool' = DOMAIN pool \cup {d}
      /\ \A e \in DOMAIN params : params'[e] = params[e]
      /\ params'[d] = listing
      /\ \A e \in DOMAIN pool : pool'[e] = pool[e]
      /\ pool'[d] = zero
      /\ UNCHANGED <<height, rates, acc, total, bank>>
  BY DEF RegisterCollateral, Inv, Types
<1>2. Rates \subseteq DOMAIN listing /\ ValidRiskParams(listing)
  BY MakerCollateralAssumption
<1>3. zero \in Books /\ zero.collateral = 0
  BY DEF Books
<1> HIDE DEF zero
<1>4. \A e \in DOMAIN params' : Rates \subseteq DOMAIN params'[e] /\ ValidRiskParams(params'[e])
  BY <1>1, <1>2 DEF Inv, Types
<1>5. \A e \in DOMAIN pool' : pool'[e] \in Books
  BY <1>1, <1>3 DEF Inv, Types
<1>6. Types'
  BY <1>1, <1>4, <1>5 DEF Inv, Types
<1>7. Positions' /\ AccountHolds'
  BY <1>1, <1>3, Zenon DEF Inv, Positions, AccountHolds
<1>8. QED
  BY <1>6, <1>7 DEF Inv

LEMMA SetCollateralRiskParamsInv ==
    ASSUME Inv, NEW d \in Collaterals, NEW patch \in Patches, SetCollateralRiskParams(d, patch)
    PROVE  Inv'
<1> DEFINE patched == [f \in DOMAIN params[d] |->
              IF f \in DOMAIN patch THEN patch[f] ELSE params[d][f]]
<1>1. /\ d \in DOMAIN params
      /\ params' = [params EXCEPT ![d] = patched]
      /\ UNCHANGED <<height, rates, acc, pool, total, bank>>
  BY DEF SetCollateralRiskParams, books
<1>2. Rates \subseteq DOMAIN params[d] /\ ValidRiskParams(params[d]) /\ ValidRiskParams(patch)
  BY <1>1, MakerCollateralAssumption DEF Inv, Types
<1>3. Rates \subseteq DOMAIN patched /\ ValidRiskParams(patched)
  BY <1>2 DEF ValidRiskParams
<1> HIDE DEF patched
<1>4. \A e \in DOMAIN params' : Rates \subseteq DOMAIN params'[e] /\ ValidRiskParams(params'[e])
  BY <1>1, <1>3 DEF Inv, Types
<1>5. Types'
  BY <1>1, <1>4 DEF Inv, Types
<1>6. Positions' /\ AccountHolds'
  BY <1>1 DEF Inv, Positions, AccountHolds
<1>7. QED
  BY <1>5, <1>6 DEF Inv

LEMMA EndBlockInv ==
    ASSUME Inv, NEW quote \in Quotes, EndBlock(quote)
    PROVE  Inv'
<1>1. /\ rates' = quote /\ height' = height + 1
      /\ UNCHANGED <<params, acc, pool, total, bank>>
  BY DEF EndBlock, books
<1>2. Types' /\ AccountHolds'
  BY <1>1 DEF Inv, Types, AccountHolds
<1>3. Positions'
  BY <1>1 DEF Inv, Types, Positions, ValidPosition
<1>4. QED
  BY <1>2, <1>3 DEF Inv

LEMMA InitInv ==
    ASSUME Init
    PROVE  Inv
<1>1. DOMAIN pool = {} /\ DOMAIN params = {} /\ DOMAIN acc = {}
  BY DEF Init
<1>2. bank \in Ledger
  BY MakerCollateralAssumption DEF Init, Ledger, Holders, Empty
<1>3. Types
  BY <1>1, <1>2 DEF Init, Types
<1>4. Positions /\ AccountHolds
  BY <1>1 DEF Init, Positions, AccountHolds, Empty, Coins
<1>5. QED
  BY <1>3, <1>4 DEF Inv

LEMMA NextInv ==
    ASSUME Inv, [Next]_vars
    PROVE  Inv'
<1>1. CASE UNCHANGED vars
  BY <1>1, Zenon DEF vars, Inv, Types, Positions, AccountHolds
<1>2. ASSUME NEW a \in Accounts, NEW d \in Collaterals, Message(a, d)
      PROVE  Inv'
  <2>1. Amounts \subseteq Nat
    BY MakerCollateralAssumption, Zenon
  <2>2. QED
    BY <1>2, <2>1, MintByCollateralInv, BurnByCollateralInv, LiquidateCollateralInv,
       DepositCollateralInv, RedeemCollateralInv DEF Message
<1>3. ASSUME NEW d \in Collaterals, Proposal(d)
      PROVE  Inv'
  BY <1>3, RegisterCollateralInv, SetCollateralRiskParamsInv DEF Proposal
<1>4. ASSUME NEW quote \in Quotes, EndBlock(quote)
      PROVE  Inv'
  BY <1>4, EndBlockInv
<1>5. QED
  BY <1>1, <1>2, <1>3, <1>4 DEF Next

\* Through every mint, repayment, deposit, redemption and liquidation, at whatever
\* block the interest is settled, the module account holds the deposits on the books
\* and nothing else, and no position has more unpaid interest than debt.
THEOREM DepositsStayHeld == Spec => []DepositsHeld
<1>1. Init => Inv
  BY InitInv
<1>2. Inv /\ [Next]_vars => Inv'
  BY NextInv
<1>3. Inv => DepositsHeld
  BY InvSuffices
<1>4. QED
  BY <1>1, <1>2, <1>3, PTL DEF Spec
=============================================================================
