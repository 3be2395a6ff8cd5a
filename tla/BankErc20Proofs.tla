--------------------------- MODULE BankErc20Proofs --------------------------
(***************************************************************************)
(* Proofs about BankErc20, for every set of addresses, coins and contracts *)
(* and every genesis: the state is well-formed, a coin that anybody holds  *)
(* has a token pair, and bank operations keep the two ledgers equal.       *)
(***************************************************************************)
EXTENDS BankErc20, TLAPS

\* The inductive invariant: the three properties need one another.
Inv == TypeOK /\ MirrorUntilEvm /\ HeldIsRegistered

\* A ledger of the denominations D.
Ledger(f, D) == f \in [Addresses -> [D -> Nat]]

-----------------------------------------------------------------------------
(* What the operations on a ledger do to each balance. *)

\* Credit adds to one balance and leaves the others.
LEMMA CreditBalance ==
    ASSUME NEW D, NEW f, Ledger(f, D), NEW a \in Addresses, NEW d \in D, NEW x \in Nat
    PROVE  /\ Ledger(Credit(f, a, d, x), D)
           /\ \A c \in Addresses, e \in D :
                Credit(f, a, d, x)[c][e] = IF c = a /\ e = d THEN f[c][e] + x ELSE f[c][e]
BY DEF Credit, Ledger

\* Debit takes from one balance and leaves the others.
LEMMA DebitBalance ==
    ASSUME NEW D, NEW f, Ledger(f, D), NEW a \in Addresses, NEW d \in D, NEW x \in Nat,
           f[a][d] >= x
    PROVE  /\ Ledger(Debit(f, a, d, x), D)
           /\ \A c \in Addresses, e \in D :
                Debit(f, a, d, x)[c][e] = IF c = a /\ e = d THEN f[c][e] - x ELSE f[c][e]
BY DEF Debit, Ledger

\* Move debits one address and credits the other; to itself it does nothing.
LEMMA MoveBalance ==
    ASSUME NEW D, NEW f, Ledger(f, D), NEW a \in Addresses, NEW b \in Addresses,
           NEW d \in D, NEW x \in Nat, f[a][d] >= x
    PROVE  /\ Ledger(Move(f, a, b, d, x), D)
           /\ \A c \in Addresses, e \in D :
                Move(f, a, b, d, x)[c][e] =
                    IF e # d \/ a = b THEN f[c][e]
                    ELSE IF c = a THEN f[c][e] - x
                    ELSE IF c = b THEN f[c][e] + x ELSE f[c][e]
<1>1. Ledger(Debit(f, a, d, x), D)
  BY DebitBalance
<1>2. \A c \in Addresses, e \in D :
        Debit(f, a, d, x)[c][e] = IF c = a /\ e = d THEN f[c][e] - x ELSE f[c][e]
  BY DebitBalance
<1>3. /\ Ledger(Move(f, a, b, d, x), D)
      /\ \A c \in Addresses, e \in D :
           Move(f, a, b, d, x)[c][e] =
             IF c = b /\ e = d THEN Debit(f, a, d, x)[c][e] + x
             ELSE Debit(f, a, d, x)[c][e]
  BY <1>1, CreditBalance DEF Move
<1>4. \A c \in Addresses, e \in D : f[c][e] \in Nat
  BY DEF Ledger
<1>. QED
  BY <1>2, <1>3, <1>4

-----------------------------------------------------------------------------
(* The invariant. *)

\* A step preserves the invariant when it changes both balances of a coin by
\* the same amount, unless an EVM transaction moved it, and no balance of a
\* coin that has no token pair.
LEMMA Frame ==
    ASSUME Inv,
           Ledger(bank', Coins), Ledger(token', Mirrored),
           metadata' \subseteq Natives, external' \subseteq Tokens,
           registered \subseteq registered', registered' \subseteq Natives,
           evmMoved \subseteq evmMoved', evmMoved' \subseteq registered',
           \A c \in Addresses, e \in Natives \ evmMoved' :
              token'[c][e] - token[c][e] = bank'[c][e] - bank[c][e],
           \A c \in Addresses, e \in Natives \ registered' :
              bank'[c][e] = bank[c][e] /\ token'[c][e] = token[c][e]
    PROVE  Inv'
<1>1. TypeOK'
  BY DEF TypeOK, Ledger
<1>2. MirrorUntilEvm'
  <2>1. \A c \in Addresses, e \in Natives : bank[c][e] \in Nat /\ token[c][e] \in Nat
    BY DEF Inv, TypeOK, Coins, Mirrored
  <2>2. \A c \in Addresses, e \in Natives : bank'[c][e] \in Nat /\ token'[c][e] \in Nat
    BY DEF Ledger, Coins, Mirrored
  <2>. QED
    BY <2>1, <2>2 DEF Inv, MirrorUntilEvm
<1>3. HeldIsRegistered'
  BY DEF Inv, HeldIsRegistered
<1>. QED
  BY <1>1, <1>2, <1>3 DEF Inv

\* The invariant gives both ledgers their types.
LEMMA Ledgers ==
    ASSUME Inv
    PROVE  /\ Ledger(bank, Coins)
           /\ Ledger(token, Mirrored)
           /\ \A c \in Addresses, e \in Natives : bank[c][e] \in Nat /\ token[c][e] \in Nat
BY Zenon DEF Inv, TypeOK, Ledger, Coins, Mirrored

\* A denomination is the gas coin, a native coin or somebody's token.
LEMMA Kinds ==
    /\ \A d \in Natives : d \in Coins /\ d \in Mirrored /\ d # Gas /\ d \notin Tokens
    /\ \A d \in Tokens : d \in Mirrored /\ d # Gas /\ d \notin Natives
    /\ Gas \in Coins /\ Gas \notin Natives /\ Gas \notin Tokens
BY BankAssumption DEF Coins, Mirrored

\* SendCoins, and with it delegation: both ledgers move the same amount.
LEMMA SendCoinsStep ==
    ASSUME Inv, NEW a \in Addresses, NEW b \in Addresses,
           NEW d \in Coins \union Tokens, NEW x \in Nat, SendCoins(a, b, d, x)
    PROVE  Inv'
<1>0. UNCHANGED <<metadata, registered, external, evmMoved>>
  BY DEF SendCoins
<1>1. CASE d = Gas
  <2>1. bank' = Move(bank, a, b, d, x) /\ token' = token /\ bank[a][d] >= x
    BY <1>1, Kinds DEF SendCoins, SendErc20, GetBalance
  <2>2. /\ Ledger(bank', Coins)
        /\ \A c \in Addresses, e \in Coins : e # Gas => bank'[c][e] = bank[c][e]
    BY <1>1, <2>1, Ledgers, Kinds, MoveBalance
  <2>. QED
    BY <1>0, <2>1, <2>2, Ledgers, Kinds, Frame DEF Inv, TypeOK
<1>2. CASE d \in Tokens
  <2>1. bank' = bank /\ token' = Move(token, a, b, d, x) /\ token[a][d] >= x
    BY <1>2, Kinds DEF SendCoins, SendErc20, GetBalance
  <2>2. /\ Ledger(token', Mirrored)
        /\ \A c \in Addresses, e \in Mirrored : e # d => token'[c][e] = token[c][e]
    BY <1>2, <2>1, Ledgers, Kinds, MoveBalance
  <2>. QED
    BY <1>0, <1>2, <2>1, <2>2, Ledgers, Kinds, Frame DEF Inv, TypeOK
<1>3. CASE d \in Natives
  <2>1. /\ bank' = Move(bank, a, b, d, x) /\ bank[a][d] >= x
        /\ token' = Move(token, a, b, d, x) /\ token[a][d] >= x
        /\ d \in registered
    BY <1>3, Kinds DEF SendCoins, SendErc20, CanSendErc20, GetBalance
  <2>2. /\ Ledger(bank', Coins)
        /\ \A c \in Addresses, e \in Coins :
             bank'[c][e] = IF e # d \/ a = b THEN bank[c][e]
                           ELSE IF c = a THEN bank[c][e] - x
                           ELSE IF c = b THEN bank[c][e] + x ELSE bank[c][e]
    BY <1>3, <2>1, Ledgers, Kinds, MoveBalance, SMTT(30)
  <2>3. /\ Ledger(token', Mirrored)
        /\ \A c \in Addresses, e \in Mirrored :
             token'[c][e] = IF e # d \/ a = b THEN token[c][e]
                            ELSE IF c = a THEN token[c][e] - x
                            ELSE IF c = b THEN token[c][e] + x ELSE token[c][e]
    BY <1>3, <2>1, Ledgers, Kinds, MoveBalance, SMTT(30)
  <2>4. \A c \in Addresses, e \in Natives :
           token'[c][e] - token[c][e] = bank'[c][e] - bank[c][e]
    BY <2>2, <2>3, Ledgers, Kinds
  <2>5. \A c \in Addresses, e \in Natives \ registered' :
           bank'[c][e] = bank[c][e] /\ token'[c][e] = token[c][e]
    BY <1>0, <2>1, <2>2, <2>3, Kinds
  <2>. QED
    BY <1>0, <2>2, <2>3, <2>4, <2>5, Frame DEF Inv, TypeOK
<1>. QED
  BY <1>1, <1>2, <1>3 DEF Coins

\* The tokens pass through the bank module's address; the coins do not.
LEMMA InputOutputCoinsStep ==
    ASSUME Inv, NEW a \in Addresses, NEW b \in Addresses, NEW c \in Addresses,
           NEW d \in Coins \union Tokens, NEW x \in Nat, NEW y \in Nat,
           InputOutputCoins(a, b, c, d, x, y)
    PROVE  Inv'
<1>. DEFINE z == x + y
            paid == SendErc20(token, a, BankModule, d, z)
            out == SendErc20(paid, BankModule, b, d, x)
<1>0. /\ UNCHANGED <<metadata, registered, external, evmMoved>>
      /\ BankModule \in Addresses
      /\ z \in Nat
  BY DEF InputOutputCoins, Addresses
<1>1. CASE d \in Tokens
  <2>1. /\ bank' = bank
        /\ token[a][d] >= z /\ paid = Move(token, a, BankModule, d, z)
        /\ paid[BankModule][d] >= x /\ out = Move(paid, BankModule, b, d, x)
        /\ out[BankModule][d] >= y /\ token' = Move(out, BankModule, c, d, y)
    BY <1>1, Kinds, Zenon DEF InputOutputCoins, SendErc20, CanSendErc20, GetBalance
  <2>. HIDE DEF z, paid, out
  <2>2. /\ Ledger(paid, Mirrored)
        /\ \A q \in Addresses, e \in Mirrored : e # d => paid[q][e] = token[q][e]
    BY <1>0, <1>1, <2>1, Ledgers, Kinds, MoveBalance, SMTT(30)
  <2>3. /\ Ledger(out, Mirrored)
        /\ \A q \in Addresses, e \in Mirrored : e # d => out[q][e] = paid[q][e]
    BY <1>0, <1>1, <2>1, <2>2, Kinds, MoveBalance, SMTT(30)
  <2>4. /\ Ledger(token', Mirrored)
        /\ \A q \in Addresses, e \in Mirrored : e # d => token'[q][e] = out[q][e]
    BY <1>0, <1>1, <2>1, <2>3, Kinds, MoveBalance, SMTT(30)
  <2>5. \A q \in Addresses, e \in Natives : token'[q][e] = token[q][e]
    BY <1>1, <2>2, <2>3, <2>4, Kinds
  <2>. QED
    BY <1>0, <2>1, <2>4, <2>5, Ledgers, Frame, SMTT(30) DEF Inv, TypeOK
<1>. DEFINE debited == Debit(bank, a, d, z)
            credited == Credit(debited, b, d, x)
<1>2. CASE d \notin Tokens
  <2>0. d \in Coins
    BY <1>2
  <2>1. bank[a][d] >= z /\ bank' = Credit(credited, c, d, y)
    BY <1>2 DEF InputOutputCoins, GetBalance
  <2>. HIDE DEF z
  <2>2. /\ Ledger(debited, Coins)
        /\ \A q \in Addresses, e \in Coins :
             debited[q][e] = IF q = a /\ e = d THEN bank[q][e] - z ELSE bank[q][e]
    BY <1>0, <2>0, <2>1, Ledgers, DebitBalance
  <2>. HIDE DEF debited
  <2>3. /\ Ledger(credited, Coins)
        /\ \A q \in Addresses, e \in Coins :
             credited[q][e] = IF q = b /\ e = d THEN debited[q][e] + x ELSE debited[q][e]
    BY <2>0, <2>2, CreditBalance
  <2>. HIDE DEF credited
  <2>. DEFINE both == Credit(credited, c, d, y)
  <2>a. /\ Ledger(both, Coins)
        /\ \A q \in Addresses, e \in Coins :
             both[q][e] = IF q = c /\ e = d THEN credited[q][e] + y ELSE credited[q][e]
    BY <2>0, <2>3, CreditBalance
  <2>4. /\ Ledger(bank', Coins)
        /\ \A q \in Addresses, e \in Coins :
             bank'[q][e] = IF q = c /\ e = d THEN credited[q][e] + y ELSE credited[q][e]
    BY <2>1, <2>a
  <2>5. CASE d = Gas
    <3>1. token' = token
      BY <2>5 DEF InputOutputCoins, SendErc20
    <3>2. \A q \in Addresses, e \in Natives : bank'[q][e] = bank[q][e]
      BY <2>2, <2>3, <2>4, <2>5, Kinds
    <3>. QED
      BY <1>0, <2>4, <3>1, <3>2, Ledgers, Frame, SMTT(30) DEF Inv, TypeOK
  <2>6. CASE d # Gas
    <3>1. d \in Natives /\ d \in registered
      BY <1>2, <2>0, <2>6 DEF Coins, InputOutputCoins, CanSendErc20
    <3>2. /\ token[a][d] >= z /\ paid = Move(token, a, BankModule, d, z)
          /\ paid[BankModule][d] >= x /\ out = Move(paid, BankModule, b, d, x)
          /\ out[BankModule][d] >= y /\ token' = Move(out, BankModule, c, d, y)
      BY <2>6, Zenon DEF InputOutputCoins, SendErc20, CanSendErc20, z
    <3>. HIDE DEF paid, out
    <3>3. /\ Ledger(paid, Mirrored)
          /\ \A q \in Addresses, e \in Mirrored :
               paid[q][e] = IF e # d \/ a = BankModule THEN token[q][e]
                            ELSE IF q = a THEN token[q][e] - z
                            ELSE IF q = BankModule THEN token[q][e] + z ELSE token[q][e]
      BY <1>0, <3>1, <3>2, Ledgers, Kinds, MoveBalance, SMTT(30)
    <3>4. /\ Ledger(out, Mirrored)
          /\ \A q \in Addresses, e \in Mirrored :
               out[q][e] = IF e # d \/ BankModule = b THEN paid[q][e]
                           ELSE IF q = BankModule THEN paid[q][e] - x
                           ELSE IF q = b THEN paid[q][e] + x ELSE paid[q][e]
      BY <1>0, <3>1, <3>2, <3>3, Kinds, MoveBalance, SMTT(30)
    <3>5. /\ Ledger(token', Mirrored)
          /\ \A q \in Addresses, e \in Mirrored :
               token'[q][e] = IF e # d \/ BankModule = c THEN out[q][e]
                              ELSE IF q = BankModule THEN out[q][e] - y
                              ELSE IF q = c THEN out[q][e] + y ELSE out[q][e]
      BY <1>0, <3>1, <3>2, <3>4, Kinds, MoveBalance, SMTT(30)
    <3>6. ASSUME NEW q \in Addresses, NEW e \in Natives
          PROVE  token'[q][e] - token[q][e] = bank'[q][e] - bank[q][e]
      <4>1. CASE e # d
        BY <2>2, <2>3, <2>4, <3>3, <3>4, <3>5, <4>1, Ledgers, Kinds, SMTT(30)
      <4>2. CASE e = d
        <5>1. token[q][e] \in Nat /\ bank[q][e] \in Nat
          BY Ledgers
        <5>2. /\ debited[q][e] = IF q = a THEN bank[q][e] - z ELSE bank[q][e]
              /\ credited[q][e] = IF q = b THEN debited[q][e] + x ELSE debited[q][e]
              /\ bank'[q][e] = IF q = c THEN credited[q][e] + y ELSE credited[q][e]
          BY <2>2, <2>3, <2>4, <4>2, Kinds, Zenon
        <5>3. /\ paid[q][e] = IF a = BankModule THEN token[q][e]
                              ELSE IF q = a THEN token[q][e] - z
                              ELSE IF q = BankModule THEN token[q][e] + z ELSE token[q][e]
              /\ out[q][e] = IF BankModule = b THEN paid[q][e]
                             ELSE IF q = BankModule THEN paid[q][e] - x
                             ELSE IF q = b THEN paid[q][e] + x ELSE paid[q][e]
              /\ token'[q][e] = IF BankModule = c THEN out[q][e]
                                ELSE IF q = BankModule THEN out[q][e] - y
                                ELSE IF q = c THEN out[q][e] + y ELSE out[q][e]
          BY <3>3, <3>4, <3>5, <4>2, Kinds, SMTT(30)
        <5>4. z = x + y
          BY DEF z
        <5>5. CASE q = BankModule
          <6>1. CASE a = BankModule
            BY <5>1, <5>2, <5>3, <5>4, <5>5, <6>1, SMTT(30)
          <6>2. CASE a # BankModule
            BY <5>1, <5>2, <5>3, <5>4, <5>5, <6>2, SMTT(30)
          <6>. QED
            BY <6>1, <6>2
        <5>6. CASE q # BankModule
          <6>1. CASE q = a
            BY <5>1, <5>2, <5>3, <5>4, <5>6, <6>1, SMTT(30)
          <6>2. CASE q # a
            BY <5>1, <5>2, <5>3, <5>4, <5>6, <6>2, SMTT(30)
          <6>. QED
            BY <6>1, <6>2
        <5>. QED
          BY <5>5, <5>6, Zenon
      <4>. QED
        BY <4>1, <4>2
    <3>7. \A q \in Addresses, e \in Natives \ registered' :
             bank'[q][e] = bank[q][e] /\ token'[q][e] = token[q][e]
      BY <1>0, <2>2, <2>3, <2>4, <3>1, <3>3, <3>4, <3>5, Kinds, SMTT(30)
    <3>. QED
      BY <1>0, <2>4, <3>5, <3>6, <3>7, Frame, SMTT(30) DEF Inv, TypeOK
  <2>. QED
    BY <2>5, <2>6
<1>. QED
  BY <1>1, <1>2

\* MintCoins registers the coin and credits both ledgers.
LEMMA MintCoinsStep ==
    ASSUME Inv, NEW m \in Addresses, NEW d \in Coins, NEW x \in Nat, MintCoins(m, d, x)
    PROVE  Inv'
<1>1. /\ UNCHANGED <<metadata, external, evmMoved>>
      /\ registered' = registered \union ({d} \ {Gas})
      /\ bank' = Credit(bank, m, d, x)
  BY DEF MintCoins, RegisterCoin
<1>2. registered \subseteq registered' /\ registered' \subseteq Natives
  BY <1>1 DEF Inv, TypeOK, Coins
<1>3. /\ Ledger(bank', Coins)
      /\ \A c \in Addresses, e \in Coins :
           bank'[c][e] = IF c = m /\ e = d THEN bank[c][e] + x ELSE bank[c][e]
  BY <1>1, Ledgers, CreditBalance
<1>4. CASE d = Gas
  <2>1. token' = token
    BY <1>4 DEF MintCoins
  <2>. QED
    BY <1>1, <1>2, <1>3, <1>4, <2>1, Ledgers, Kinds, Frame, SMTT(30) DEF Inv, TypeOK
<1>5. CASE d # Gas
  <2>1. d \in Natives /\ token' = Credit(token, m, d, x)
    BY <1>5 DEF MintCoins, Coins
  <2>2. /\ Ledger(token', Mirrored)
        /\ \A c \in Addresses, e \in Mirrored :
             token'[c][e] = IF c = m /\ e = d THEN token[c][e] + x ELSE token[c][e]
    BY <2>1, Ledgers, Kinds, CreditBalance
  <2>3. \A c \in Addresses, e \in Natives :
           token'[c][e] - token[c][e] = bank'[c][e] - bank[c][e]
    BY <1>3, <2>2, Ledgers, Kinds
  <2>4. \A c \in Addresses, e \in Natives \ registered' :
           bank'[c][e] = bank[c][e] /\ token'[c][e] = token[c][e]
    BY <1>1, <1>3, <1>5, <2>2, Kinds
  <2>. QED
    BY <1>1, <1>2, <1>3, <2>2, <2>3, <2>4, Frame, Zenon DEF Inv, TypeOK
<1>. QED
  BY <1>4, <1>5

\* BurnCoins debits both ledgers of the minter.
LEMMA BurnCoinsStep ==
    ASSUME Inv, NEW m \in Addresses, NEW d \in Coins, NEW x \in Nat, BurnCoins(m, d, x)
    PROVE  Inv'
<1>1. /\ UNCHANGED <<metadata, registered, external, evmMoved>>
      /\ bank[m][d] >= x
      /\ bank' = Debit(bank, m, d, x)
  BY DEF BurnCoins
<1>2. /\ Ledger(bank', Coins)
      /\ \A c \in Addresses, e \in Coins :
           bank'[c][e] = IF c = m /\ e = d THEN bank[c][e] - x ELSE bank[c][e]
  BY <1>1, Ledgers, DebitBalance
<1>3. CASE d = Gas
  <2>1. token' = token
    BY <1>3 DEF BurnCoins
  <2>. QED
    BY <1>1, <1>2, <1>3, <2>1, Ledgers, Kinds, Frame DEF Inv, TypeOK
<1>4. CASE d # Gas
  <2>1. /\ d \in Natives /\ d \in registered
        /\ token[m][d] >= x /\ token' = Debit(token, m, d, x)
    BY <1>4 DEF BurnCoins, CanSendErc20, Coins
  <2>2. /\ Ledger(token', Mirrored)
        /\ \A c \in Addresses, e \in Mirrored :
             token'[c][e] = IF c = m /\ e = d THEN token[c][e] - x ELSE token[c][e]
    BY <2>1, Ledgers, Kinds, DebitBalance
  <2>3. \A c \in Addresses, e \in Natives :
           token'[c][e] - token[c][e] = bank'[c][e] - bank[c][e]
    BY <1>2, <2>2, Ledgers, Kinds
  <2>4. \A c \in Addresses, e \in Natives \ registered' :
           bank'[c][e] = bank[c][e] /\ token'[c][e] = token[c][e]
    BY <1>1, <1>2, <2>1, <2>2, Kinds
  <2>. QED
    BY <1>1, <1>2, <2>2, <2>3, <2>4, Frame, Zenon DEF Inv, TypeOK
<1>. QED
  BY <1>3, <1>4

\* The contract moves the coins twice, the bank once; the coin is marked.
LEMMA EvmTransferStep ==
    ASSUME Inv, NEW a \in Addresses, NEW b \in Addresses, NEW d \in Natives,
           NEW x \in Nat, EvmTransfer(a, b, d, x)
    PROVE  Inv'
<1>. DEFINE moved == Move(token, a, b, d, x)
<1>1. /\ UNCHANGED <<metadata, registered, external>>
      /\ d \in registered /\ evmMoved' = evmMoved \union {d}
      /\ bank[a][d] >= x /\ bank' = Move(bank, a, b, d, x)
      /\ token[a][d] >= x
      /\ moved[a][d] >= x /\ token' = Move(moved, a, b, d, x)
  BY Kinds DEF EvmTransfer, CanSendErc20, SendErc20
<1>2. /\ Ledger(bank', Coins)
      /\ \A c \in Addresses, e \in Coins : e # d => bank'[c][e] = bank[c][e]
  BY <1>1, Ledgers, Kinds, MoveBalance, SMTT(30)
<1>3. /\ Ledger(moved, Mirrored)
      /\ \A c \in Addresses, e \in Mirrored : e # d => moved[c][e] = token[c][e]
  BY <1>1, Ledgers, Kinds, MoveBalance, SMTT(30)
<1>. HIDE DEF moved
<1>4. /\ Ledger(token', Mirrored)
      /\ \A c \in Addresses, e \in Mirrored : e # d => token'[c][e] = moved[c][e]
  BY <1>1, <1>3, Kinds, MoveBalance, SMTT(30)
<1>5. \A c \in Addresses, e \in Natives :
         e # d => bank'[c][e] = bank[c][e] /\ token'[c][e] = token[c][e]
  BY <1>2, <1>3, <1>4, Kinds, SMTT(30)
<1>. QED
  BY <1>1, <1>2, <1>4, <1>5, Ledgers, Frame, SMTT(30) DEF Inv, TypeOK

\* A burn on the contract: the hook's send and burn follow; the coin is marked.
LEMMA EvmBurnStep ==
    ASSUME Inv, NEW a \in Addresses, NEW d \in Natives, NEW x \in Nat, EvmBurn(a, d, x)
    PROVE  Inv'
<1>. DEFINE burnt == Debit(token, a, d, x)
            sent == Move(burnt, a, Erc20Module, d, x)
            given == Move(bank, a, Erc20Module, d, x)
<1>1. /\ UNCHANGED <<metadata, registered, external>>
      /\ Erc20Module \in Addresses
      /\ d \in registered /\ evmMoved' = evmMoved \union {d}
      /\ bank[a][d] >= x /\ bank' = Debit(given, Erc20Module, d, x)
      /\ token[a][d] >= x
      /\ burnt[a][d] >= x
      /\ sent[Erc20Module][d] >= x /\ token' = Debit(sent, Erc20Module, d, x)
  BY Kinds DEF EvmBurn, CanSendErc20, SendErc20, Addresses
<1>2. /\ Ledger(given, Coins)
      /\ \A c \in Addresses, e \in Coins : e # d => given[c][e] = bank[c][e]
      /\ given[Erc20Module][d] >= x
  <2>1. /\ Ledger(given, Coins)
        /\ \A c \in Addresses, e \in Coins : 
             given[c][e] = IF e # d \/ a = Erc20Module THEN bank[c][e]
                           ELSE IF c = a THEN bank[c][e] - x
                           ELSE IF c = Erc20Module THEN bank[c][e] + x ELSE bank[c][e]
    BY <1>1, Ledgers, Kinds, MoveBalance, SMTT(30)
  <2>. QED
    BY <1>1, <2>1, Ledgers, Kinds, SMTT(30)
<1>3. /\ Ledger(burnt, Mirrored)
      /\ \A c \in Addresses, e \in Mirrored : e # d => burnt[c][e] = token[c][e]
  BY <1>1, Ledgers, Kinds, DebitBalance, SMTT(30)
<1>. HIDE DEF given, burnt
<1>4. /\ Ledger(bank', Coins)
      /\ \A c \in Addresses, e \in Coins : e # d => bank'[c][e] = given[c][e]
  BY <1>1, <1>2, Kinds, DebitBalance, SMTT(30)
<1>5. /\ Ledger(sent, Mirrored)
      /\ \A c \in Addresses, e \in Mirrored : e # d => sent[c][e] = burnt[c][e]
  BY <1>1, <1>3, Kinds, MoveBalance, SMTT(30)
<1>. HIDE DEF sent
<1>6. /\ Ledger(token', Mirrored)
      /\ \A c \in Addresses, e \in Mirrored : e # d => token'[c][e] = sent[c][e]
  BY <1>1, <1>5, Kinds, DebitBalance, SMTT(30)
<1>7. \A c \in Addresses, e \in Natives :
         e # d => bank'[c][e] = bank[c][e] /\ token'[c][e] = token[c][e]
  BY <1>2, <1>3, <1>4, <1>5, <1>6, Kinds, SMTT(30)
<1>. QED
  BY <1>1, <1>4, <1>6, <1>7, Ledgers, Frame, SMTT(30) DEF Inv, TypeOK

\* A mint on somebody's contract touches no native coin.
LEMMA EvmTokenMintStep ==
    ASSUME Inv, NEW a \in Addresses, NEW t \in Tokens, NEW x \in Nat, EvmTokenMint(a, t, x)
    PROVE  Inv'
<1>1. /\ UNCHANGED <<bank, metadata, registered, evmMoved>>
      /\ token' = Credit(token, a, t, x)
      /\ external' \subseteq Tokens
  BY DEF EvmTokenMint, RegisterERC20, Inv, TypeOK
<1>2. /\ Ledger(token', Mirrored)
      /\ \A c \in Addresses, e \in Mirrored : e # t => token'[c][e] = token[c][e]
  BY <1>1, Ledgers, Kinds, CreditBalance, SMTT(30)
<1>. QED
  BY <1>1, <1>2, Ledgers, Kinds, Frame, SMTT(30) DEF Inv, TypeOK

\* A transfer on somebody's contract touches no native coin.
LEMMA EvmTokenTransferStep ==
    ASSUME Inv, NEW a \in Addresses, NEW b \in Addresses, NEW t \in Tokens, NEW x \in Nat,
           EvmTokenTransfer(a, b, t, x)
    PROVE  Inv'
<1>1. /\ UNCHANGED <<bank, metadata, registered, evmMoved>>
      /\ token[a][t] >= x /\ token' = Move(token, a, b, t, x)
      /\ external' \subseteq Tokens
  BY DEF EvmTokenTransfer, RegisterERC20, Inv, TypeOK
<1>2. /\ Ledger(token', Mirrored)
      /\ \A c \in Addresses, e \in Mirrored : e # t => token'[c][e] = token[c][e]
  BY <1>1, Ledgers, Kinds, MoveBalance, SMTT(30)
<1>. QED
  BY <1>1, <1>2, Ledgers, Kinds, Frame, SMTT(30) DEF Inv, TypeOK

\* InitGenesis establishes the invariant, whatever the genesis balances are.
LEMMA InitInv == Init => Inv
<1>. SUFFICES ASSUME Init PROVE Inv
  OBVIOUS
<1>. USE BankAssumption DEF Init, HeldAtGenesis
<1>1. TypeOK
  BY ZenonT(30) DEF TypeOK, Coins, Mirrored
<1>2. MirrorUntilEvm
  BY DEF MirrorUntilEvm, Mirrored
<1>3. HeldIsRegistered
  BY DEF HeldIsRegistered, Coins, Mirrored
<1>. QED
  BY <1>1, <1>2, <1>3 DEF Inv

\* Every step of x/bank and x/erc20 preserves the invariant: one case per action.
LEMMA NextInv == Inv /\ [Next]_vars => Inv'
<1>. SUFFICES ASSUME Inv, [Next]_vars PROVE Inv'
  OBVIOUS
<1>0. Accounts \subseteq Addresses /\ Pools \subseteq Addresses
      /\ Minters \union {Erc20Module} \subseteq Addresses
      /\ Amount \subseteq Nat /\ Coins \subseteq Coins \union Tokens
  BY BankAssumption DEF Addresses, Amount
<1>1. ASSUME NEW a \in Addresses, NEW b \in Addresses, NEW d \in Coins \union Tokens,
             NEW x \in Amount, SendCoins(a, b, d, x)
      PROVE  Inv'
  BY <1>0, <1>1, SendCoinsStep
<1>2. ASSUME NEW a \in Accounts, NEW p \in Pools, NEW d \in Coins \union Tokens,
             NEW x \in Amount, DelegateCoins(a, p, d, x) \/ UndelegateCoins(p, a, d, x)
      PROVE  Inv'
  BY <1>0, <1>2, SendCoinsStep DEF DelegateCoins, UndelegateCoins
<1>3. ASSUME NEW a \in Accounts, NEW b \in Accounts, NEW c \in Accounts,
             NEW d \in Coins \union Tokens, NEW x \in Amount, NEW y \in Amount,
             InputOutputCoins(a, b, c, d, x, y)
      PROVE  Inv'
  BY <1>0, <1>3, InputOutputCoinsStep
<1>4. ASSUME NEW m \in Minters \union {Erc20Module}, NEW d \in Coins, NEW x \in Amount,
             MintCoins(m, d, x) \/ BurnCoins(m, d, x)
      PROVE  Inv'
  BY <1>0, <1>4, MintCoinsStep, BurnCoinsStep
<1>5. ASSUME NEW d \in Natives, SetDenomMetaData(d)
      PROVE  Inv'
  <2>1. UNCHANGED <<bank, token, registered, external, evmMoved>> /\ metadata' \subseteq Natives
    BY <1>5 DEF SetDenomMetaData, Inv, TypeOK
  <2>. QED
    BY <2>1, Ledgers, Frame DEF Inv, TypeOK
<1>6. ASSUME NEW a \in Accounts, NEW b \in Addresses, NEW d \in Natives, NEW x \in Amount,
             EvmTransfer(a, b, d, x)
      PROVE  Inv'
  BY <1>0, <1>6, EvmTransferStep
<1>7. ASSUME NEW a \in Accounts, NEW d \in Natives, NEW x \in Amount, EvmBurn(a, d, x)
      PROVE  Inv'
  BY <1>0, <1>7, EvmBurnStep
<1>8. ASSUME NEW a \in Accounts, NEW t \in Tokens, NEW x \in Amount, EvmTokenMint(a, t, x)
      PROVE  Inv'
  BY <1>0, <1>8, EvmTokenMintStep
<1>9. ASSUME NEW a \in Accounts, NEW b \in Accounts, NEW t \in Tokens, NEW x \in Amount,
             EvmTokenTransfer(a, b, t, x)
      PROVE  Inv'
  BY <1>0, <1>9, EvmTokenTransferStep
<1>10. CASE UNCHANGED vars
  BY <1>10, Ledgers, Frame DEF vars, Inv, TypeOK
<1>. QED
  BY <1>1, <1>2, <1>3, <1>4, <1>5, <1>6, <1>7, <1>8, <1>9, <1>10 DEF Next

-----------------------------------------------------------------------------
(* The theorems. *)

\* Both ledgers stay well-formed in every behaviour of x/bank and x/erc20.
THEOREM BankTypeCorrect == Spec => []TypeOK
<1>1. Inv => TypeOK
  BY DEF Inv
<1>. QED
  BY <1>1, InitInv, NextInv, PTL DEF Spec

\* Whatever the sequence of sends, multi-sends, delegations, mints and burns,
\* the contract of a coin mirrors the bank at every address until an EVM
\* transaction moves the coin.
THEOREM BankMirror == Spec => []MirrorUntilEvm
<1>1. Inv => MirrorUntilEvm
  BY DEF Inv
<1>. QED
  BY <1>1, InitInv, NextInv, PTL DEF Spec

\* Nobody ever holds a native coin that has no token pair.
THEOREM BankRegistered == Spec => []HeldIsRegistered
<1>1. Inv => HeldIsRegistered
  BY DEF Inv
<1>. QED
  BY <1>1, InitInv, NextInv, PTL DEF Spec
=============================================================================
