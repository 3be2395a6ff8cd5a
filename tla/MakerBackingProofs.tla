------------------------- MODULE MakerBackingProofs -------------------------
(***************************************************************************)
(* x/maker, the backing side: accounts match the books, limits hold and    *)
(* the backing ratio follows the price, for all backings, rates, fees,     *)
(* amounts and any precision of the decimals.                              *)
(***************************************************************************)
EXTENDS MakerBacking, DecimalProofs

-----------------------------------------------------------------------------
(* The inductive invariant: types, and the accounts. *)

Holders == {"wallet", "maker", "oracle"}
Ledger == [Holders -> [Coins -> Int]]
Books == [minted : Int, backing : Int, burned : Int]

Types ==
    /\ height \in Nat /\ lastBlock \in Nat
    /\ rates \in Quotes
    /\ ratio \in 0..Precision
    /\ DOMAIN pool = DOMAIN params /\ DOMAIN pool \subseteq Backings
    /\ \A d \in DOMAIN params : Fees \subseteq DOMAIN params[d] /\ ValidRiskParams(params[d])
    /\ \A d \in DOMAIN pool : pool[d] \in Books
    /\ total \in [minted : Int, burned : Int]
    /\ bank \in Ledger

Inv == Types /\ AccountsMatchBooks

LEMMA RateTypes ==
    ASSUME Types, NEW c \in DOMAIN rates
    PROVE  rates[c] \in Nat \ {0}
BY MakerBackingAssumption DEF Types

LEMMA FeeTypes ==
    ASSUME Types, NEW d \in DOMAIN params
    PROVE  /\ params[d].mintFee \in 0..Precision /\ params[d].burnFee \in 0..Precision
           /\ params[d].buybackFee \in 0..Precision /\ params[d].rebackFee \in 0..Precision
<1>1. \A f \in Fees : params[d][f] \in 0..Precision
  BY DEF Types, ValidRiskParams
<1>2. QED
  BY <1>1 DEF Fees

\* What the operations compute is natural, and a fee is part of the amount.
LEMMA MintTypes ==
    ASSUME Types, NEW d, Priced({d, Iron}), NEW a \in Nat, NEW i \in Nat, NEW full \in BOOLEAN
    PROVE  /\ MintBySwapOut(d, a, i, full).backing \in Nat
           /\ MintBySwapOut(d, a, i, full).iron \in Nat
           /\ MintBySwapOut(d, a, i, full).mint \in Nat
<1> DEFINE b == rates[d] * a
           n == rates[Iron] * i
           max1 == DecQuo(b, ratio)
           max2 == DecQuo(n, Precision - ratio)
           ironFor == RoundHalfEven(QuoRoundUp(DecMul(max1, Precision - ratio), rates[Iron]))
           backingFor == RoundHalfEven(QuoRoundUp(DecMul(max2, ratio), rates[d]))
<1>1. rates[d] \in Nat \ {0} /\ rates[Iron] \in Nat \ {0}
  BY RateTypes DEF Priced
<1>2. b \in Nat /\ n \in Nat /\ TruncateInt(b) \in Nat /\ TruncateInt(n) \in Nat
  BY <1>1, MulNat, TruncateNat
<1>3. ratio \in Nat /\ Precision - ratio \in Nat /\ Precision \in Nat
  BY PrecisionAssumption DEF Types
<1>4. CASE ratio >= Precision \/ full
  BY <1>2, <1>4 DEF MintBySwapOut
<1>5. CASE ratio = 0 /\ ~full
  BY <1>2, <1>3, <1>5, PrecisionAssumption DEF MintBySwapOut
<1>6. CASE ~(ratio >= Precision \/ full) /\ ~(ratio = 0 /\ ~full)
  <2>1. ratio \in Nat \ {0} /\ Precision - ratio \in Nat \ {0}
    BY <1>3, <1>6
  <2>2. max1 \in Nat /\ max2 \in Nat
    BY <1>2, <2>1, QuoNat, Zenon
  <2> HIDE DEF b, n, max1, max2
  <2>3. DecMul(max1, Precision - ratio) \in Nat /\ DecMul(max2, ratio) \in Nat
    BY <2>1, <2>2, MulNat, RoundNat DEF DecMul
  <2>4. ironFor \in Nat /\ backingFor \in Nat
    BY <1>1, <2>3, QuoNat, RoundNat, Zenon
  <2>5. TruncateInt(max1) \in Nat /\ TruncateInt(max2) \in Nat
    BY <2>2, TruncateNat
  <2>6. \/ MintBySwapOut(d, a, i, full) =
             [backing |-> a, iron |-> IF i > 0 /\ i < ironFor THEN i ELSE ironFor,
              mint |-> TruncateInt(max1)]
        \/ MintBySwapOut(d, a, i, full) =
             [backing |-> IF a > 0 /\ a < backingFor THEN a ELSE backingFor, iron |-> i,
              mint |-> TruncateInt(max2)]
    BY <1>6 DEF MintBySwapOut, b, n, max1, max2
  <2> HIDE DEF ironFor, backingFor
  <2>7. QED
    BY <2>4, <2>5, <2>6
<1>7. QED
  BY <1>4, <1>5, <1>6

LEMMA BurnTypes ==
    ASSUME Types, NEW d, Priced({d, Iron}), NEW a \in Nat
    PROVE  BurnBySwapOut(d, a).backing \in Nat /\ BurnBySwapOut(d, a).iron \in Nat
<1>1. rates[d] \in Nat \ {0} /\ rates[Iron] \in Nat \ {0}
  BY RateTypes DEF Priced
<1>2. ratio \in Nat /\ Precision - ratio \in Nat
  BY PrecisionAssumption DEF Types
<1>3. a * ratio \in Nat /\ a * (Precision - ratio) \in Nat
  BY <1>2, MulNat
<1>4. /\ QuoTruncate(a * ratio, rates[d]) \in Nat
      /\ QuoTruncate(a * (Precision - ratio), rates[Iron]) \in Nat
  BY <1>1, <1>3, QuoNat, Zenon
<1>5. QED
  BY <1>4, TruncateNat DEF BurnBySwapOut

LEMMA BuyTypes ==
    ASSUME Types, NEW d \in DOMAIN params, Priced({d, Iron}), NEW a \in Nat
    PROVE  BuyBackingOut(d, a).backing \in Nat /\ BuyBackingOut(d, a).fee \in Nat
<1> DEFINE all == TruncateInt(DecQuo(a * rates[Iron], rates[d]))
           fee == ComputeFee(all, params[d].buybackFee)
<1>1. rates[d] \in Nat \ {0} /\ rates[Iron] \in Nat \ {0}
  BY RateTypes DEF Priced
<1>2. a * rates[Iron] \in Nat
  BY <1>1, MulNat
<1>3. all \in Nat
  BY <1>1, <1>2, QuoNat, TruncateNat, Zenon
<1> HIDE DEF all
<1>4. fee \in 0..all
  BY <1>3, FeeTypes, FeeWithin, Zenon DEF ComputeFee
<1>5. BuyBackingOut(d, a) = [backing |-> all - fee, fee |-> fee]
  BY DEF BuyBackingOut, all
<1> HIDE DEF fee
<1>6. QED
  BY <1>3, <1>4, <1>5

LEMMA SellTypes ==
    ASSUME Types, NEW d \in DOMAIN params, Priced({d, Iron}), NEW a \in Nat
    PROVE  SellBackingOut(d, a).iron \in Int /\ SellBackingOut(d, a).fee \in Int
<1> DEFINE all == SellBackingIron(d, a)
           bonus == ComputeFee(all, RebackBonus)
           fee == ComputeFee(all, params[d].rebackFee)
<1>1. rates[d] \in Nat \ {0} /\ rates[Iron] \in Nat \ {0}
  BY RateTypes DEF Priced
<1>2. a * rates[d] \in Nat
  BY <1>1, MulNat
<1>3. all \in Nat
  BY <1>1, <1>2, QuoNat, TruncateNat, Zenon DEF SellBackingIron
<1> HIDE DEF all
<1>4. fee \in 0..all /\ bonus \in 0..all
  BY <1>3, FeeTypes, FeeWithin, MakerBackingAssumption, Zenon DEF ComputeFee
<1>5. SellBackingOut(d, a) = [iron |-> all + bonus - fee, fee |-> fee]
  BY DEF SellBackingOut, all
<1> HIDE DEF fee, bonus
<1>6. QED
  BY <1>3, <1>4, <1>5

-----------------------------------------------------------------------------
(* The bank. *)

\* The ledger n is b after a move, and after a mint (a burn, when negative).
Moved(b, n, from, to, c, a) ==
    \A x \in Holders, e \in Coins : n[x][e] =
        b[x][e] + (IF e # c THEN 0 ELSE IF x = from THEN -a ELSE IF x = to THEN a ELSE 0)
Minted(b, n, c, a) ==
    \A x \in Holders, e \in Coins : n[x][e] = b[x][e] + (IF e = c /\ x = "maker" THEN a ELSE 0)

LEMMA MoveBalance ==
    ASSUME NEW b \in Ledger, NEW from \in Holders, NEW to \in Holders, from # to,
           NEW c \in Coins, NEW a \in Int
    PROVE  /\ Move(b, from, to, c, a) \in Ledger
           /\ Moved(b, Move(b, from, to, c, a), from, to, c, a)
<1> DEFINE debited == [b EXCEPT ![from][c] = @ - a]
<1>1. /\ debited \in Ledger
      /\ \A x \in Holders, e \in Coins :
            debited[x][e] = b[x][e] - (IF e = c /\ x = from THEN a ELSE 0)
  BY DEF Ledger
<1>2. Move(b, from, to, c, a) = [debited EXCEPT ![to][c] = @ + a]
  BY Zenon DEF Move
<1> HIDE DEF debited
<1>3. QED
  BY <1>1, <1>2 DEF Ledger, Moved

LEMMA MintBalance ==
    ASSUME NEW b \in Ledger, NEW c \in Coins, NEW a \in Int
    PROVE  MintCoins(b, c, a) \in Ledger /\ Minted(b, MintCoins(b, c, a), c, a)
BY DEF Ledger, Holders, MintCoins, Minted

LEMMA BurnBalance ==
    ASSUME NEW b \in Ledger, NEW c \in Coins, NEW a \in Int
    PROVE  BurnCoins(b, c, a) \in Ledger /\ Minted(b, BurnCoins(b, c, a), c, -a)
BY DEF Ledger, Holders, BurnCoins, Minted

\* The step LimitsHold allows.
LimitsKept ==
    \A d \in DOMAIN pool :
        /\ "maxBacking" \in DOMAIN params[d] =>
              pool'[d].backing <= Max({pool[d].backing, params[d].maxBacking})
        /\ "maxMint" \in DOMAIN params[d] =>
              pool'[d].minted <= Max({pool[d].minted, params[d].maxMint})

LEMMA MaxPair ==
    ASSUME NEW a \in Int, NEW b \in Int
    PROVE  a <= Max({a, b}) /\ b <= Max({a, b}) /\ Max({a, b}) \in Int
<1>1. \E x \in {a, b} : \A y \in {a, b} : x >= y
  OBVIOUS
<1>2. Max({a, b}) \in {a, b} /\ \A y \in {a, b} : Max({a, b}) >= y
  BY <1>1 DEF Max
<1>3. QED
  BY <1>2

LEMMA LimitTypes ==
    ASSUME Types, NEW d \in DOMAIN params
    PROVE  /\ "maxBacking" \in DOMAIN params[d] => params[d].maxBacking \in Nat
           /\ "maxMint" \in DOMAIN params[d] => params[d].maxMint \in Nat
BY DEF Types, ValidRiskParams, Limits

\* What a message must do: move the maker's account and the supplies as the books
\* say, and look at the limit of what it raises.
LEMMA BooksStep ==
    ASSUME Inv, NEW d \in DOMAIN pool, NEW m \in Int, NEW b \in Int, NEW i \in Int,
           AddToBooks(d, m, b, i), UNCHANGED <<blockVars, params>>, bank' \in Ledger,
           \A c \in Coins : bank'["maker"][c] = bank["maker"][c] + (IF c = d THEN b ELSE 0),
           bank'["wallet"][Grid] + bank'["maker"][Grid] + bank'["oracle"][Grid]
             = bank["wallet"][Grid] + bank["maker"][Grid] + bank["oracle"][Grid] + m,
           bank'["wallet"][Iron] + bank'["maker"][Iron] + bank'["oracle"][Iron]
             = bank["wallet"][Iron] + bank["maker"][Iron] + bank["oracle"][Iron] - i,
           b <= 0 \/ WithinLimit(d, "maxBacking", pool[d].backing + b),
           m <= 0 \/ WithinLimit(d, "maxMint", pool[d].minted + m)
    PROVE  Inv' /\ LimitsKept
<1>1. /\ DOMAIN pool' = DOMAIN pool
      /\ \A e \in DOMAIN pool : pool'[e] = IF e # d THEN pool[e]
            ELSE [minted |-> pool[e].minted + m, backing |-> pool[e].backing + b,
                  burned |-> pool[e].burned + i]
      /\ total' = [minted |-> total.minted + m, burned |-> total.burned + i]
  BY DEF AddToBooks
<1>2. \A e \in DOMAIN pool : pool[e] \in Books
  BY DEF Inv, Types
<1>3. \A e \in DOMAIN pool : pool'[e] \in Books
  BY <1>1, <1>2, SMTT(30) DEF Books
<1>4. Types'
  BY <1>1, <1>3, SMTT(30) DEF Inv, Types, blockVars
<1>5. /\ DOMAIN pool \subseteq Coins /\ d \in Coins /\ Grid \in Coins /\ Iron \in Coins
      /\ Holders = {"wallet", "maker", "oracle"}
  BY Zenon DEF Inv, Types, Coins, Holders
<1>6. \A c \in Coins : bank'.maker[c] = IF c \in DOMAIN pool' THEN pool'[c].backing ELSE 0
  BY <1>1, <1>2, <1>5, SMTT(30) DEF Inv, AccountsMatchBooks, Books
<1>7. /\ bank["wallet"] \in [Coins -> Int] /\ bank["maker"] \in [Coins -> Int]
      /\ bank["oracle"] \in [Coins -> Int]
  BY DEF Inv, Types, Ledger, Holders
<1>8. total \in [minted : Int, burned : Int] /\ InitialWallet \in [Coins -> Nat]
  BY MakerBackingAssumption DEF Inv, Types
<1>9. /\ Supply(Grid)' = InitialWallet[Grid] + total'.minted
      /\ Supply(Iron)' = InitialWallet[Iron] - total'.burned
  <2>1. /\ total.minted \in Int /\ total.burned \in Int
        /\ total'.minted = total.minted + m /\ total'.burned = total.burned + i
        /\ InitialWallet[Grid] \in Int /\ InitialWallet[Iron] \in Int
    BY <1>1, <1>5, <1>8, SMTT(30)
  <2>2. Supply(Grid) = InitialWallet[Grid] + total.minted
        /\ Supply(Iron) = InitialWallet[Iron] - total.burned
    BY DEF Inv, AccountsMatchBooks
  <2>3. Supply(Grid)' = Supply(Grid) + m
    BY DEF Supply
  <2>4. Supply(Iron)' = Supply(Iron) - i
    BY <1>5, <1>7 DEF Supply, Ledger, Holders
  <2>5. QED
    BY <2>1, <2>2, <2>3, <2>4
<1>10. Inv'
  BY <1>4, <1>6, <1>9, Zenon DEF Inv, AccountsMatchBooks
<1>11. ASSUME NEW e \in DOMAIN pool
       PROVE  /\ "maxBacking" \in DOMAIN params[e] =>
                    pool'[e].backing <= Max({pool[e].backing, params[e].maxBacking})
              /\ "maxMint" \in DOMAIN params[e] =>
                    pool'[e].minted <= Max({pool[e].minted, params[e].maxMint})
  <2>1. /\ "maxBacking" \in DOMAIN params[e] => params[e].maxBacking \in Nat
        /\ "maxMint" \in DOMAIN params[e] => params[e].maxMint \in Nat
    BY <1>11, LimitTypes DEF Inv, Types
  <2>2. pool[e].backing \in Int /\ pool[e].minted \in Int
    BY <1>2, <1>11 DEF Books
  <2>3. /\ pool'[e].backing = pool[e].backing + (IF e = d THEN b ELSE 0)
        /\ pool'[e].minted = pool[e].minted + (IF e = d THEN m ELSE 0)
    BY <1>1, <1>11, <2>2, SMTT(30)
  <2>4. "maxBacking" \in DOMAIN params[e] =>
            pool'[e].backing <= Max({pool[e].backing, params[e].maxBacking})
    <3>1. SUFFICES ASSUME "maxBacking" \in DOMAIN params[e]
                   PROVE  pool'[e].backing <= Max({pool[e].backing, params[e].maxBacking})
      OBVIOUS
    <3>2. params[e].maxBacking \in Int
      BY <2>1, <3>1
    <3>3. /\ pool[e].backing <= Max({pool[e].backing, params[e].maxBacking})
          /\ params[e].maxBacking <= Max({pool[e].backing, params[e].maxBacking})
          /\ Max({pool[e].backing, params[e].maxBacking}) \in Int
      BY <2>2, <3>2, MaxPair, Zenon
    <3>4. QED
      BY <2>2, <2>3, <3>1, <3>2, <3>3, SMTT(30) DEF WithinLimit
  <2>5. "maxMint" \in DOMAIN params[e] =>
            pool'[e].minted <= Max({pool[e].minted, params[e].maxMint})
    <3>1. SUFFICES ASSUME "maxMint" \in DOMAIN params[e]
                   PROVE  pool'[e].minted <= Max({pool[e].minted, params[e].maxMint})
      BY Zenon
    <3>2. params[e].maxMint \in Int
      BY <2>1, <3>1
    <3>3. /\ pool[e].minted <= Max({pool[e].minted, params[e].maxMint})
          /\ params[e].maxMint <= Max({pool[e].minted, params[e].maxMint})
          /\ Max({pool[e].minted, params[e].maxMint}) \in Int
      BY <2>2, <3>2, MaxPair, Zenon
    <3>4. QED
      BY <2>2, <2>3, <3>1, <3>2, <3>3, SMTT(30) DEF WithinLimit
  <2>6. QED
    BY <2>4, <2>5
<1>12. QED
  BY <1>10, <1>11, Zenon DEF LimitsKept

-----------------------------------------------------------------------------
(* The messages. *)

\* What the steps use of a registered backing and of the bank.
Registered(d) ==
    /\ d \in DOMAIN pool /\ d \in Coins /\ Iron \in Coins /\ Grid \in Coins
    /\ d # Iron /\ d # Grid /\ Iron # Grid
    /\ "wallet" \in Holders /\ "maker" \in Holders /\ "oracle" \in Holders
    /\ bank \in Ledger
    /\ \A x \in Holders, c \in Coins : bank[x][c] \in Int

LEMMA CoinFacts ==
    ASSUME Inv, NEW d \in DOMAIN params
    PROVE  Registered(d)
BY MakerBackingAssumption DEF Inv, Types, Coins, Holders, Ledger, Registered

LEMMA MintBySwapInv ==
    ASSUME Inv, NEW d, NEW a \in Nat, NEW i \in Nat, NEW full \in BOOLEAN,
           MintBySwap(d, a, i, full)
    PROVE  Inv' /\ LimitsKept
<1> DEFINE out == MintBySwapOut(d, a, i, full)
           fee == ComputeFee(out.mint, params[d].mintFee)
           b1 == Move(bank, "wallet", "maker", d, out.backing)
           b2 == Move(b1, "wallet", "maker", Iron, out.iron)
           b3 == BurnCoins(b2, Iron, out.iron)
           b4 == MintCoins(b3, Grid, out.mint)
           b5 == Move(b4, "maker", "wallet", Grid, out.mint - fee)
           b6 == Move(b5, "maker", "oracle", Grid, fee)
<1>1. /\ d \in DOMAIN params /\ Priced({d, Iron})
      /\ AddToBooks(d, out.mint, out.backing, out.iron)
      /\ WithinLimit(d, "maxMint", pool[d].minted + out.mint)
      /\ WithinLimit(d, "maxBacking", pool[d].backing + out.backing)
      /\ bank' = b6
      /\ UNCHANGED <<blockVars, params>>
  BY Zenon DEF MintBySwap, Available
<1>2. out.backing \in Int /\ out.iron \in Int /\ out.mint \in Nat
  BY <1>1, MintTypes, SMTT(30) DEF Inv
<1>3. fee \in Int /\ out.mint - fee \in Int
  BY <1>1, <1>2, FeeTypes, FeeWithin, SMTT(30) DEF Inv, ComputeFee
<1> HIDE DEF out, fee
<1>4. Registered(d)
  BY <1>1, CoinFacts, Zenon
<1>5. b1 \in Ledger /\ Moved(bank, b1, "wallet", "maker", d, out.backing)
  BY <1>2, <1>4, MoveBalance, Zenon DEF Registered
<1> HIDE DEF b1
<1>6. b2 \in Ledger /\ Moved(b1, b2, "wallet", "maker", Iron, out.iron)
  BY <1>2, <1>4, <1>5, MoveBalance, Zenon DEF Registered
<1> HIDE DEF b2
<1>7. b3 \in Ledger /\ Minted(b2, b3, Iron, -out.iron)
  BY <1>2, <1>4, <1>6, BurnBalance, Zenon DEF Registered
<1> HIDE DEF b3
<1>8. b4 \in Ledger /\ Minted(b3, b4, Grid, out.mint)
  BY <1>2, <1>4, <1>7, MintBalance, SMTT(30) DEF Registered
<1> HIDE DEF b4
<1>9. b5 \in Ledger /\ Moved(b4, b5, "maker", "wallet", Grid, out.mint - fee)
  BY <1>3, <1>4, <1>8, MoveBalance, Zenon DEF Registered
<1> HIDE DEF b5
<1>10. b6 \in Ledger /\ Moved(b5, b6, "maker", "oracle", Grid, fee)
  BY <1>3, <1>4, <1>9, MoveBalance DEF Registered
<1> HIDE DEF b6
<1>11. \A c \in Coins :
          bank'["maker"][c] = bank["maker"][c] + (IF c = d THEN out.backing ELSE 0)
  BY <1>1, <1>2, <1>3, <1>4, <1>5, <1>6, <1>7, <1>8, <1>9, <1>10,
     SMTT(30) DEF Registered, Moved, Minted
<1>12. bank'["wallet"][Grid] + bank'["maker"][Grid] + bank'["oracle"][Grid]
         = bank["wallet"][Grid] + bank["maker"][Grid] + bank["oracle"][Grid] + out.mint
  BY <1>1, <1>2, <1>3, <1>4, <1>5, <1>6, <1>7, <1>8, <1>9, <1>10,
     SMTT(30) DEF Registered, Moved, Minted
<1>13. bank'["wallet"][Iron] + bank'["maker"][Iron] + bank'["oracle"][Iron]
         = bank["wallet"][Iron] + bank["maker"][Iron] + bank["oracle"][Iron] - out.iron
  BY <1>1, <1>2, <1>3, <1>4, <1>5, <1>6, <1>7, <1>8, <1>9, <1>10,
     SMTT(30) DEF Registered, Moved, Minted
<1>14. QED
  BY <1>1, <1>2, <1>4, <1>10, <1>11, <1>12, <1>13, BooksStep, SMTT(30) DEF Registered

LEMMA BurnBySwapInv ==
    ASSUME Inv, NEW d, NEW a \in Nat, BurnBySwap(d, a)
    PROVE  Inv' /\ LimitsKept
<1> DEFINE fee == ComputeFee(a, params[d].burnFee)
           burn == a - fee
           out == BurnBySwapOut(d, burn)
           b1 == Move(bank, "wallet", "maker", Grid, a)
           b2 == BurnCoins(b1, Grid, burn)
           b3 == Move(b2, "maker", "oracle", Grid, fee)
           b4 == MintCoins(b3, Iron, out.iron)
           b5 == Move(b4, "maker", "wallet", d, out.backing)
           b6 == Move(b5, "maker", "wallet", Iron, out.iron)
<1>1. /\ d \in DOMAIN params /\ Priced({d, Iron})
      /\ AddToBooks(d, -burn, -out.backing, -out.iron)
      /\ bank' = b6
      /\ UNCHANGED <<blockVars, params>>
  BY Zenon DEF BurnBySwap, Available
<1>2. fee \in Int /\ burn \in Nat /\ a \in Int
  <2>1. params[d].burnFee \in 0..Precision
    BY <1>1, FeeTypes, Zenon DEF Inv
  <2>2. fee \in 0..a
    BY <2>1, FeeWithin, Zenon DEF ComputeFee
  <2> HIDE DEF fee
  <2>3. QED
    BY <2>2
<1> HIDE DEF fee, burn
<1>3. out.backing \in Nat /\ out.iron \in Nat
  BY <1>1, <1>2, BurnTypes DEF Inv
<1> HIDE DEF out
<1>4. Registered(d)
  BY <1>1, CoinFacts
<1>5. b1 \in Ledger /\ Moved(bank, b1, "wallet", "maker", Grid, a)
  BY <1>2, <1>4, MoveBalance, Zenon DEF Registered
<1> HIDE DEF b1
<1>6. b2 \in Ledger /\ Minted(b1, b2, Grid, -burn)
  BY <1>2, <1>4, <1>5, BurnBalance, SMTT(30) DEF Registered
<1> HIDE DEF b2
<1>7. b3 \in Ledger /\ Moved(b2, b3, "maker", "oracle", Grid, fee)
  BY <1>2, <1>4, <1>6, MoveBalance, Zenon DEF Registered
<1> HIDE DEF b3
<1>8. b4 \in Ledger /\ Minted(b3, b4, Iron, out.iron)
  BY <1>3, <1>4, <1>7, MintBalance, SMTT(30) DEF Registered
<1> HIDE DEF b4
<1>9. b5 \in Ledger /\ Moved(b4, b5, "maker", "wallet", d, out.backing)
  BY <1>3, <1>4, <1>8, MoveBalance, SMTT(30) DEF Registered
<1> HIDE DEF b5
<1>10. b6 \in Ledger /\ Moved(b5, b6, "maker", "wallet", Iron, out.iron)
  BY <1>3, <1>4, <1>9, MoveBalance, SMTT(30) DEF Registered
<1> HIDE DEF b6
<1>11. \A c \in Coins :
          bank'["maker"][c] = bank["maker"][c] + (IF c = d THEN -out.backing ELSE 0)
  <2>1. a = burn + fee
    BY <1>2 DEF burn
  <2>2. QED
    BY <1>1, <1>2, <1>3, <1>4, <1>5, <1>6, <1>7, <1>8, <1>9, <1>10, <2>1, SMTT(30)
       DEF Registered, Moved, Minted
<1>12. bank'["wallet"][Grid] + bank'["maker"][Grid] + bank'["oracle"][Grid]
         = bank["wallet"][Grid] + bank["maker"][Grid] + bank["oracle"][Grid] + (-burn)
  BY <1>1, <1>2, <1>3, <1>4, <1>5, <1>6, <1>7, <1>8, <1>9, <1>10,
     SMTT(30) DEF Registered, Moved, Minted
<1>13. bank'["wallet"][Iron] + bank'["maker"][Iron] + bank'["oracle"][Iron]
         = bank["wallet"][Iron] + bank["maker"][Iron] + bank["oracle"][Iron] - (-out.iron)
  BY <1>1, <1>2, <1>3, <1>4, <1>5, <1>6, <1>7, <1>8, <1>9, <1>10,
     SMTT(30) DEF Registered, Moved, Minted
<1>14. -burn \in Int /\ -out.backing \in Int /\ -out.iron \in Int /\ -burn <= 0 /\ -out.backing <= 0
  BY <1>2, <1>3
<1>15. QED
  BY <1>1, <1>4, <1>10, <1>11, <1>12, <1>13, <1>14, BooksStep, SMTT(30) DEF Registered

LEMMA BuyBackingInv ==
    ASSUME Inv, NEW d, NEW a \in Nat, BuyBacking(d, a)
    PROVE  Inv' /\ LimitsKept
<1> DEFINE out == BuyBackingOut(d, a)
           b1 == Move(bank, "wallet", "maker", Iron, a)
           b2 == BurnCoins(b1, Iron, a)
           b3 == Move(b2, "maker", "wallet", d, out.backing)
           b4 == Move(b3, "maker", "oracle", d, out.fee)
           paid == -(out.backing + out.fee)
<1>1. /\ d \in DOMAIN params /\ Priced({d, Iron})
      /\ AddToBooks(d, 0, paid, a)
      /\ bank' = b4
      /\ UNCHANGED <<blockVars, params>>
  BY Zenon DEF BuyBacking, CanBuyBacking, Available, Priced
<1>2. out.backing \in Nat /\ out.fee \in Nat /\ a \in Int
  BY <1>1, BuyTypes DEF Inv
<1> HIDE DEF out
<1>3. paid \in Int /\ paid <= 0
  BY <1>2
<1>4. Registered(d)
  BY <1>1, CoinFacts
<1>5. b1 \in Ledger /\ Moved(bank, b1, "wallet", "maker", Iron, a)
  BY <1>2, <1>4, MoveBalance, Zenon DEF Registered
<1> HIDE DEF b1
<1>6. b2 \in Ledger /\ Minted(b1, b2, Iron, -a)
  BY <1>2, <1>4, <1>5, BurnBalance, Zenon DEF Registered
<1> HIDE DEF b2
<1>7. b3 \in Ledger /\ Moved(b2, b3, "maker", "wallet", d, out.backing)
  BY <1>2, <1>4, <1>6, MoveBalance, SMTT(30) DEF Registered
<1> HIDE DEF b3
<1>8. b4 \in Ledger /\ Moved(b3, b4, "maker", "oracle", d, out.fee)
  BY <1>2, <1>4, <1>7, MoveBalance, SMTT(30) DEF Registered
<1> HIDE DEF b4
<1>9. \A c \in Coins :
          bank'["maker"][c] = bank["maker"][c] + (IF c = d THEN paid ELSE 0)
  BY <1>1, <1>2, <1>4, <1>5, <1>6, <1>7, <1>8, SMTT(30) DEF Registered, Moved, Minted
<1>10. bank'["wallet"][Grid] + bank'["maker"][Grid] + bank'["oracle"][Grid]
         = bank["wallet"][Grid] + bank["maker"][Grid] + bank["oracle"][Grid] + 0
  BY <1>1, <1>2, <1>4, <1>5, <1>6, <1>7, <1>8, SMTT(30) DEF Registered, Moved, Minted
<1>11. bank'["wallet"][Iron] + bank'["maker"][Iron] + bank'["oracle"][Iron]
         = bank["wallet"][Iron] + bank["maker"][Iron] + bank["oracle"][Iron] - a
  BY <1>1, <1>2, <1>4, <1>5, <1>6, <1>7, <1>8, SMTT(30) DEF Registered, Moved, Minted
<1> HIDE DEF paid
<1>12. QED
  BY <1>1, <1>2, <1>3, <1>4, <1>8, <1>9, <1>10, <1>11, BooksStep, SMTT(30) DEF Registered

LEMMA SellBackingInv ==
    ASSUME Inv, NEW d, NEW a \in Nat, SellBacking(d, a)
    PROVE  Inv' /\ LimitsKept
<1> DEFINE out == SellBackingOut(d, a)
           ironMint == out.iron + out.fee
           b1 == Move(bank, "wallet", "maker", d, a)
           b2 == MintCoins(b1, Iron, ironMint)
           b3 == Move(b2, "maker", "wallet", Iron, out.iron)
           b4 == Move(b3, "maker", "oracle", Iron, out.fee)
<1>1. /\ d \in DOMAIN params /\ Priced({d, Iron})
      /\ WithinLimit(d, "maxBacking", pool[d].backing + a)
      /\ AddToBooks(d, 0, a, -ironMint)
      /\ bank' = b4
      /\ UNCHANGED <<blockVars, params>>
  BY Zenon DEF SellBacking, CanSellBacking, Available, Priced
<1>2. out.iron \in Int /\ out.fee \in Int /\ a \in Int
  <2>1. out.iron \in Int /\ out.fee \in Int
    BY <1>1, SellTypes, Zenon DEF Inv
  <2>2. QED
    BY <2>1
<1> HIDE DEF out
<1>3. ironMint \in Int /\ -ironMint \in Int
  BY <1>2
<1>4. Registered(d)
  BY <1>1, CoinFacts, Zenon
<1>5. b1 \in Ledger /\ Moved(bank, b1, "wallet", "maker", d, a)
  BY <1>2, <1>4, MoveBalance, Zenon DEF Registered
<1> HIDE DEF b1
<1>6. b2 \in Ledger /\ Minted(b1, b2, Iron, ironMint)
  <2> HIDE DEF ironMint
  <2> QED BY <1>3, <1>4, <1>5, MintBalance, Zenon DEF Registered
<1> HIDE DEF b2
<1>7. b3 \in Ledger /\ Moved(b2, b3, "maker", "wallet", Iron, out.iron)
  BY <1>2, <1>4, <1>6, MoveBalance, Zenon DEF Registered
<1> HIDE DEF b3
<1>8. b4 \in Ledger /\ Moved(b3, b4, "maker", "oracle", Iron, out.fee)
  BY <1>2, <1>4, <1>7, MoveBalance, Zenon DEF Registered
<1> HIDE DEF b4
<1>9. \A c \in Coins :
          bank'["maker"][c] = bank["maker"][c] + (IF c = d THEN a ELSE 0)
  BY <1>1, <1>2, <1>4, <1>5, <1>6, <1>7, <1>8, SMTT(30) DEF Registered, Moved, Minted
<1>10. bank'["wallet"][Grid] + bank'["maker"][Grid] + bank'["oracle"][Grid]
         = bank["wallet"][Grid] + bank["maker"][Grid] + bank["oracle"][Grid] + 0
  BY <1>1, <1>2, <1>4, <1>5, <1>6, <1>7, <1>8, SMTT(30) DEF Registered, Moved, Minted
<1>11. bank'["wallet"][Iron] + bank'["maker"][Iron] + bank'["oracle"][Iron]
         = bank["wallet"][Iron] + bank["maker"][Iron] + bank["oracle"][Iron] - (-ironMint)
  BY <1>1, <1>2, <1>4, <1>5, <1>6, <1>7, <1>8, SMTT(30) DEF Registered, Moved, Minted
<1> HIDE DEF ironMint
<1>12. 0 \in Int /\ 0 <= 0 /\ d \in DOMAIN pool /\ bank' \in Ledger
  BY <1>1, <1>4, <1>8, SMTT(30) DEF Registered
<1>13. QED
  BY <1>1, <1>2, <1>3, <1>9, <1>10, <1>11, <1>12, BooksStep, Zenon

-----------------------------------------------------------------------------
(* Proposals and the end of a block. *)

\* A step that leaves the books and accounts alone moves no pool over a limit.
LEMMA LimitsStutter ==
    ASSUME Types, \A d \in DOMAIN pool : pool'[d] = pool[d]
    PROVE  LimitsKept
<1>1. SUFFICES ASSUME NEW d \in DOMAIN pool
               PROVE  /\ "maxBacking" \in DOMAIN params[d] =>
                            pool[d].backing <= Max({pool[d].backing, params[d].maxBacking})
                      /\ "maxMint" \in DOMAIN params[d] =>
                            pool[d].minted <= Max({pool[d].minted, params[d].maxMint})
  BY Zenon DEF LimitsKept
<1>2. pool[d].backing \in Int /\ pool[d].minted \in Int /\ d \in DOMAIN params
  BY DEF Types, Books
<1>3. ASSUME "maxBacking" \in DOMAIN params[d]
      PROVE  pool[d].backing <= Max({pool[d].backing, params[d].maxBacking})
  <2>1. params[d].maxBacking \in Int
    BY <1>2, <1>3, LimitTypes
  <2>2. QED
    BY <1>2, <2>1, MaxPair, Zenon
<1>4. ASSUME "maxMint" \in DOMAIN params[d]
      PROVE  pool[d].minted <= Max({pool[d].minted, params[d].maxMint})
  <2>1. params[d].maxMint \in Int
    BY <1>2, <1>4, LimitTypes, SMTT(30)
  <2>2. QED
    BY <1>2, <2>1, MaxPair, Zenon
<1>5. QED
  BY <1>3, <1>4

LEMMA RegisterBackingInv ==
    ASSUME Inv, NEW d \in Backings, NEW listing \in Listings, RegisterBacking(d, listing)
    PROVE  Inv' /\ LimitsKept
<1> DEFINE zero == [minted |-> 0, backing |-> 0, burned |-> 0]
<1>1. /\ d \notin DOMAIN pool /\ d \in Coins
      /\ DOMAIN params' = DOMAIN params \cup {d} /\ DOMAIN pool' = DOMAIN pool \cup {d}
      /\ \A e \in DOMAIN params : params'[e] = params[e]
      /\ params'[d] = listing
      /\ \A e \in DOMAIN pool : pool'[e] = pool[e]
      /\ pool'[d] = zero
      /\ UNCHANGED <<height, lastBlock, rates, ratio, total, bank>>
  BY Zenon DEF RegisterBacking, Inv, Types, Coins, blockVars
<1>2. Fees \subseteq DOMAIN listing /\ ValidRiskParams(listing)
  BY MakerBackingAssumption
<1>3. zero \in Books /\ zero.backing = 0
  BY DEF Books
<1> HIDE DEF zero
<1>4. Types'
  <2>1. \A e \in DOMAIN params' : Fees \subseteq DOMAIN params'[e] /\ ValidRiskParams(params'[e])
    BY <1>1, <1>2, Zenon DEF Inv, Types
  <2>2. \A e \in DOMAIN pool' : pool'[e] \in Books
    BY <1>1, <1>3, Zenon DEF Inv, Types
  <2>3. QED
    BY <1>1, <2>1, <2>2, Zenon DEF Inv, Types
<1>5. AccountsMatchBooks'
  BY <1>1, <1>3, Zenon DEF Inv, AccountsMatchBooks, Supply
<1>6. QED
  BY <1>1, <1>4, <1>5, LimitsStutter, Zenon DEF Inv

LEMMA SetBackingRiskParamsInv ==
    ASSUME Inv, NEW d \in Backings, NEW patch \in Patches, SetBackingRiskParams(d, patch)
    PROVE  Inv' /\ LimitsKept
<1> DEFINE patched == [f \in DOMAIN params[d] |->
              IF f \in DOMAIN patch THEN patch[f] ELSE params[d][f]]
<1>1. /\ d \in DOMAIN params
      /\ params' = [params EXCEPT ![d] = patched]
      /\ UNCHANGED <<height, lastBlock, rates, ratio, pool, total, bank>>
  BY DEF SetBackingRiskParams, blockVars
<1>2. Fees \subseteq DOMAIN params[d] /\ ValidRiskParams(params[d]) /\ ValidRiskParams(patch)
  BY <1>1, MakerBackingAssumption DEF Inv, Types
<1>3. Fees \subseteq DOMAIN patched /\ ValidRiskParams(patched)
  BY <1>2, Zenon DEF ValidRiskParams
<1> HIDE DEF patched
<1>4. \A e \in DOMAIN params' : Fees \subseteq DOMAIN params'[e] /\ ValidRiskParams(params'[e])
  BY <1>1, <1>3 DEF Inv, Types
<1>5. Types'
  BY <1>1, <1>4 DEF Inv, Types
<1>6. AccountsMatchBooks'
  BY <1>1 DEF Inv, AccountsMatchBooks, Supply
<1>7. QED
  BY <1>1, <1>5, <1>6, LimitsStutter DEF Inv

LEMMA MinPair ==
    ASSUME NEW a \in Int, NEW b \in Int
    PROVE  Min({a, b}) \in {a, b} /\ Min({a, b}) <= a /\ Min({a, b}) <= b
<1>1. \E x \in {a, b} : \A y \in {a, b} : x <= y
  OBVIOUS
<1>2. Min({a, b}) \in {a, b} /\ \A y \in {a, b} : Min({a, b}) <= y
  BY <1>1 DEF Min
<1>3. QED
  BY <1>2

LEMMA MaxOfPair ==
    ASSUME NEW a \in Int, NEW b \in Int
    PROVE  Max({a, b}) \in {a, b}
<1>1. \E x \in {a, b} : \A y \in {a, b} : x >= y
  OBVIOUS
<1>2. QED
  BY <1>1 DEF Max

\* The ratio the end of a block computes: one step against the price at most.
LEMMA AdjustedRatioStep ==
    ASSUME Types, NEW price \in Nat
    PROVE  /\ AdjustedRatio(price) \in 0..Precision
           /\ AdjustedRatio(price) - ratio \in -RatioStep..RatioStep
           /\ AdjustedRatio(price) > ratio => price < Precision
           /\ AdjustedRatio(price) < ratio => price > Precision
<1>1. /\ ratio \in 0..Precision /\ RatioStep \in 0..Precision /\ PriceBand \in 1..Precision
      /\ Precision \in Nat \ {0}
  BY MakerBackingAssumption, PrecisionAssumption, Zenon DEF Types
<1>2. CASE price > Precision + PriceBand
  <2>1. AdjustedRatio(price) = Max({ratio - RatioStep, 0})
    BY <1>1, <1>2 DEF AdjustedRatio
  <2>2. ratio - RatioStep \in Int /\ 0 \in Int
    BY <1>1
  <2>3. /\ Max({ratio - RatioStep, 0}) \in {ratio - RatioStep, 0}
        /\ Max({ratio - RatioStep, 0}) >= ratio - RatioStep /\ Max({ratio - RatioStep, 0}) >= 0
    BY <2>2, MaxOfPair, MaxPair
  <2>4. QED
    BY <1>1, <1>2, <2>1, <2>3, SMTT(30)
<1>3. CASE ~(price > Precision + PriceBand) /\ price < Precision - PriceBand
  <2>1. AdjustedRatio(price) = Min({ratio + RatioStep, Precision})
    BY <1>3 DEF AdjustedRatio
  <2>2. ratio + RatioStep \in Int /\ Precision \in Int
    BY <1>1
  <2>3. /\ Min({ratio + RatioStep, Precision}) \in {ratio + RatioStep, Precision}
        /\ Min({ratio + RatioStep, Precision}) <= ratio + RatioStep
        /\ Min({ratio + RatioStep, Precision}) <= Precision
    BY <2>2, MinPair, Zenon
  <2>4. QED
    BY <1>1, <1>3, <2>1, <2>3
<1>4. CASE ~(price > Precision + PriceBand) /\ ~(price < Precision - PriceBand)
  BY <1>1, <1>4 DEF AdjustedRatio
<1>5. QED
  BY <1>2, <1>3, <1>4

\* The step RatioFollowsPrice allows.
RatioStepKept ==
    ratio' # ratio =>
        /\ ratio' > ratio => rates'[Grid] < Precision
        /\ ratio' < ratio => rates'[Grid] > Precision
        /\ ratio' - ratio \in -RatioStep..RatioStep /\ ratio' \in 0..Precision
        /\ lastBlock' - lastBlock >= CooldownPeriod

LEMMA EndBlockInv ==
    ASSUME Inv, NEW quote \in Quotes, EndBlock(quote)
    PROVE  Inv' /\ LimitsKept /\ RatioStepKept
<1>1. rates' = quote /\ height' = height + 1 /\ UNCHANGED <<params, pool, total, bank>>
  BY DEF EndBlock
<1>2. /\ ratio' \in 0..Precision /\ lastBlock' \in Nat
      /\ RatioStepKept
  <2>1. CASE Adjusts
    <3>1. /\ Grid \in DOMAIN quote /\ ratio' = AdjustedRatio(quote[Grid]) /\ lastBlock' = height
          /\ height - lastBlock >= CooldownPeriod
      BY <2>1 DEF EndBlock, Adjusts
    <3>2. quote[Grid] \in Nat
      BY <3>1, MakerBackingAssumption
    <3>3. QED
      BY <1>1, <3>1, <3>2, AdjustedRatioStep, Zenon DEF Inv, Types, RatioStepKept
  <2>2. CASE ~Adjusts
    BY <2>2, Zenon DEF EndBlock, Inv, Types, RatioStepKept
  <2>3. QED
    BY <2>1, <2>2
<1>3. Types'
  <2>1. height' \in Nat
    BY <1>1, SMTT(30) DEF Inv, Types
  <2>2. QED
    BY <1>1, <1>2, <2>1, Zenon DEF Inv, Types
<1>4. AccountsMatchBooks'
  BY <1>1, Zenon DEF Inv, AccountsMatchBooks, Supply
<1>5. QED
  BY <1>1, <1>2, <1>3, <1>4, LimitsStutter DEF Inv

-----------------------------------------------------------------------------
(* The theorems. *)

LEMMA InitInv ==
    ASSUME Init
    PROVE  Inv
<1>1. Grid \in Coins /\ Iron \in Coins /\ Grid # Iron
  BY MakerBackingAssumption, Zenon DEF Coins
<1>2. DOMAIN pool = {} /\ DOMAIN params = {}
  BY DEF Init
<1>3. bank \in Ledger
  BY MakerBackingAssumption, SMTT(30) DEF Init, Ledger, Holders, Empty
<1>4. ratio \in 0..Precision
  BY MakerBackingAssumption, Zenon DEF Init
<1>5. Types
  BY <1>2, <1>3, <1>4, PrecisionAssumption, SMTT(30) DEF Init, Types
<1>6. AccountsMatchBooks
  BY <1>1, <1>2, MakerBackingAssumption, SMTT(30) DEF Init, AccountsMatchBooks, Supply, Empty
<1>7. QED
  BY <1>5, <1>6 DEF Inv

LEMMA NextInv ==
    ASSUME Inv, [Next]_vars
    PROVE  Inv' /\ LimitsKept /\ RatioStepKept
<1>1. CASE UNCHANGED vars
  <2>1. UNCHANGED <<height, rates, ratio, lastBlock, params, pool, total, bank>>
    BY <1>1 DEF vars
  <2>2. Inv'
    BY <2>1, Zenon DEF Inv, Types, AccountsMatchBooks, Supply
  <2>3. QED
    BY <2>1, <2>2, LimitsStutter DEF Inv, RatioStepKept
<1>2. ASSUME NEW d \in Backings, Message(d)
      PROVE  Inv' /\ LimitsKept /\ RatioStepKept
  <2>1. ASSUME NEW a \in Amounts, NEW i \in Amounts, NEW full \in BOOLEAN, MintBySwap(d, a, i, full)
        PROVE  Inv' /\ LimitsKept /\ ratio' = ratio
    <3>1. a \in Nat /\ i \in Nat
      BY MakerBackingAssumption
    <3>2. ratio' = ratio
      BY <2>1, Zenon DEF MintBySwap, blockVars
    <3>3. QED
      BY <2>1, <3>1, <3>2, MintBySwapInv
  <2>2. ASSUME NEW a \in Amounts, BurnBySwap(d, a) \/ BuyBacking(d, a) \/ SellBacking(d, a)
        PROVE  Inv' /\ LimitsKept /\ ratio' = ratio
    <3>1. a \in Nat
      BY MakerBackingAssumption
    <3>2. ratio' = ratio
      BY <2>2, Zenon DEF BurnBySwap, BuyBacking, SellBacking, blockVars
    <3>3. QED
      BY <2>2, <3>1, <3>2, BurnBySwapInv, BuyBackingInv, SellBackingInv
  <2>3. QED
    BY <1>2, <2>1, <2>2, Zenon DEF Message, RatioStepKept
<1>3. ASSUME NEW d \in Backings, Proposal(d)
      PROVE  Inv' /\ LimitsKept /\ RatioStepKept
  <2>1. ratio' = ratio
    BY <1>3, Zenon DEF Proposal, RegisterBacking, SetBackingRiskParams, blockVars
  <2>2. Inv' /\ LimitsKept
    BY <1>3, RegisterBackingInv, SetBackingRiskParamsInv DEF Proposal
  <2>3. QED
    BY <2>1, <2>2 DEF RatioStepKept
<1>4. ASSUME NEW quote \in Quotes, EndBlock(quote)
      PROVE  Inv' /\ LimitsKept /\ RatioStepKept
  BY <1>4, EndBlockInv
<1>5. ASSUME NEW quote \in Quotes, Halt(quote)
      PROVE  Inv' /\ LimitsKept /\ RatioStepKept
  <2>1. UNCHANGED <<height, rates, ratio, lastBlock, params, pool, total, bank>>
    BY <1>5 DEF Halt
  <2>2. Inv'
    BY <2>1, Zenon DEF Inv, Types, AccountsMatchBooks, Supply
  <2>3. QED
    BY <2>1, <2>2, LimitsStutter DEF Inv, RatioStepKept
<1>6. QED
  BY <1>1, <1>2, <1>3, <1>4, <1>5 DEF Next

\* The supplies of grid and iron are what the books of the module say, and the
\* module account holds the backing on the books of the pools and nothing else,
\* after every mint, burn, purchase and sale, whatever is rounded and how.
THEOREM AccountsStayMatched == Spec => []AccountsMatchBooks
<1>1. Init => Inv
  BY InitInv
<1>2. Inv /\ [Next]_vars => Inv'
  BY NextInv
<1>3. Inv => AccountsMatchBooks
  BY DEF Inv
<1>4. QED
  BY <1>1, <1>2, <1>3, PTL DEF Spec

\* No step moves a pool over a limit in force: every message that raises a
\* book of a pool looks at its limit, and a limit lowered below the book stops
\* further rises.
THEOREM LimitsAreKept == Spec => LimitsHold
<1>1. Init => Inv
  BY InitInv
<1>2. Inv /\ [Next]_vars => Inv'
  BY NextInv
<1>3. Inv /\ [Next]_vars => LimitsKept
  BY NextInv
<1>4. QED
  BY <1>1, <1>2, <1>3, PTL DEF Spec, LimitsHold, LimitsKept

\* The end of a block moves the backing ratio against the price of grid, by at
\* most a step, once in a cooldown period, and keeps it between none and all;
\* nothing else moves it.
THEOREM RatioKeepsFollowing == Spec => RatioFollowsPrice
<1>1. Init => Inv
  BY InitInv
<1>2. Inv /\ [Next]_vars => Inv'
  BY NextInv
<1>3. Inv /\ [Next]_vars => RatioStepKept
  BY NextInv
<1>4. QED
  BY <1>1, <1>2, <1>3, PTL DEF Spec, RatioFollowsPrice, RatioStepKept
=============================================================================
