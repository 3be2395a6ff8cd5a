----------------------------- MODULE BankErc20 ------------------------------
(***************************************************************************)
(* x/bank wrapped around the SDK's bank keeper, and x/erc20.  A native     *)
(* coin has two ledgers: the bank store and an ERC20 contract that the     *)
(* erc20 module deployed and owns.  Every bank operation repeats its move  *)
(* on the contract (erc20 Keeper.SendCoins); after an EVM transaction, a   *)
(* hook repeats the Transfer events of these contracts on the bank.  The   *)
(* gas coin lives in the bank only, an ERC20 token somebody else deployed  *)
(* lives in its contract only.                                             *)
(*                                                                         *)
(* A message or EVM transaction is one atomic action; one that fails at    *)
(* any step is rolled back and is not enabled.  An EVM transaction is      *)
(* modelled with one Transfer event.  Contract accounting is external: the *)
(* ERC20MinterBurnerDecimals contract as the calls in src/ use it.         *)
(***************************************************************************)
EXTENDS Integers, FiniteSets, FiniteSetsExt

CONSTANTS
    Accounts,      \* the users' accounts
    Minters,       \* module accounts with permission to mint and burn
    Pools,         \* module accounts that take delegations
    BankModule,    \* the address InputOutputCoins moves tokens through
    Erc20Module,   \* the erc20 module account
    Natives,       \* denominations of native coins
    Gas,           \* the gas coin (a denomination that contains "iron")
    Tokens,        \* ERC20 contracts that users deployed
    Genesis,       \* the bank's genesis balances: [Addresses -> [Coins -> Nat]]
    MaxAmount,     \* bound: the largest amount in one operation
    MaxSupply      \* bound: no operation mints above this supply, by denomination

Addresses == Accounts \union Minters \union Pools \union {BankModule, Erc20Module}
Coins == Natives \union {Gas}
Mirrored == Natives \union Tokens

ASSUME BankAssumption ==
    /\ Gas \notin Mirrored
    /\ Natives \cap Tokens = {}
    /\ Genesis \in [Addresses -> [Coins -> Nat]]
    /\ MaxAmount \in Nat
    /\ MaxSupply \in [Coins \union Tokens -> Nat]

VARIABLES
    bank,        \* the bank store: balance of every address in every coin
    token,       \* the contracts' balances, of mirrored coins and of Tokens
    metadata,    \* coins with registered DenomMetaData
    registered,  \* coins with a token pair owned by the module
    external,    \* contracts with a token pair owned by somebody else
    evmMoved     \* history: coins that an EVM transaction has moved

vars == <<bank, token, metadata, registered, external, evmMoved>>

-----------------------------------------------------------------------------
Credit(ledger, a, d, x) == [ledger EXCEPT ![a][d] = @ + x]
Debit(ledger, a, d, x) == [ledger EXCEPT ![a][d] = @ - x]
Move(ledger, a, b, d, x) == Credit(Debit(ledger, a, d, x), b, d, x)
SupplyOf(ledger, d) == MapThenSumSet(LAMBDA a : ledger[a][d], Addresses)

HeldAtGenesis == {d \in Natives : \E a \in Addresses : Genesis[a][d] > 0}

\* GetBalance: the bank proxies the tokens of other contracts to the EVM.
GetBalance(a, d) == IF d \in Tokens THEN token[a][d] ELSE bank[a][d]

MutantNoBalanceCheck(ledger, a, d, x) == d # Gas => d \in registered \union Tokens

\* Erc20 SendCoins refuses a native coin without token pair, skips gas, and
\* repeats any other move on the contract, which checks the balance.
CanSendErc20(ledger, a, d, x) ==
    d # Gas => /\ d \in registered \union Tokens
               /\ ledger[a][d] >= x

MutantSendNothing(ledger, a, b, d, x) == ledger
MutantSendNew(ledger, a, b, d, x) == IF d = Gas THEN ledger ELSE Credit(ledger, b, d, x)
SendErc20(ledger, a, b, d, x) == IF d = Gas THEN ledger ELSE Move(ledger, a, b, d, x)

-----------------------------------------------------------------------------
(* Bank operations. *)

SendCoins(a, b, d, x) ==
    /\ GetBalance(a, d) >= x
    /\ CanSendErc20(token, a, d, x)
    /\ bank' = IF d \in Tokens THEN bank ELSE Move(bank, a, b, d, x)
    /\ token' = SendErc20(token, a, b, d, x)
    /\ UNCHANGED <<metadata, registered, external, evmMoved>>

\* Tokens of other contracts cannot be delegated.
DelegateCoins(a, pool, d, x) == d \notin Tokens /\ SendCoins(a, pool, d, x)
UndelegateCoins(pool, a, d, x) == d \notin Tokens /\ SendCoins(pool, a, d, x)

\* One input and two outputs: on the contract the input goes to the bank
\* module's address, and each output comes from there.
InputOutputCoins(a, b, c, d, x, y) ==
    LET paid == SendErc20(token, a, BankModule, d, x + y)
        out  == SendErc20(paid, BankModule, b, d, x)
    IN  /\ GetBalance(a, d) >= x + y
        /\ CanSendErc20(token, a, d, x + y)
        /\ CanSendErc20(paid, BankModule, d, x)
        /\ CanSendErc20(out, BankModule, d, y)
        /\ bank' = IF d \in Tokens THEN bank
                   ELSE Credit(Credit(Debit(bank, a, d, x + y), b, d, x), c, d, y)
        /\ token' = SendErc20(out, BankModule, c, d, y)
        /\ UNCHANGED <<metadata, registered, external, evmMoved>>

\* RegisterCoin deploys the contract of a coin that has metadata.
RegisterCoin(d) == d \in metadata /\ registered' = registered \union {d}

MutantMintBankOnly(m, d, x) ==
    /\ d \notin Tokens
    /\ SupplyOf(bank, d) + x <= MaxSupply[d]
    /\ d \in registered \union metadata \union {Gas}
    /\ bank' = Credit(bank, m, d, x)
    /\ UNCHANGED <<token, metadata, registered, external, evmMoved>>

\* Minting a native coin for the first time registers it, which needs its
\* metadata; then the contract mints the same amount.
MintCoins(m, d, x) ==
    /\ d \notin Tokens
    /\ SupplyOf(bank, d) + x <= MaxSupply[d]
    /\ bank' = Credit(bank, m, d, x)
    /\ \/ d \in registered \union {Gas} /\ UNCHANGED registered
       \/ d \notin registered \union {Gas} /\ RegisterCoin(d)
    /\ token' = IF d = Gas THEN token ELSE Credit(token, m, d, x)
    /\ UNCHANGED <<metadata, external, evmMoved>>

BurnCoins(m, d, x) ==
    /\ d \notin Tokens
    /\ bank[m][d] >= x
    /\ CanSendErc20(token, m, d, x)
    /\ bank' = Debit(bank, m, d, x)
    /\ token' = IF d = Gas THEN token ELSE Debit(token, m, d, x)
    /\ UNCHANGED <<metadata, registered, external, evmMoved>>

\* A governance proposal registers the metadata of a coin.
SetDenomMetaData(d) ==
    /\ metadata' = metadata \union {d}
    /\ UNCHANGED <<bank, token, registered, external, evmMoved>>

-----------------------------------------------------------------------------
(* EVM transactions.  PostTxProcessing hands the Transfer event of a       *)
(* module-owned contract to the wrapped bank keeper, whose SendCoins moves *)
(* the coins in the bank and repeats the transfer on the contract.         *)

EvmTransfer(a, b, d, x) ==
    LET moved == Move(token, a, b, d, x)
    IN  /\ d \in registered
        /\ token[a][d] >= x
        /\ bank[a][d] >= x
        /\ CanSendErc20(moved, a, d, x)
        /\ bank' = Move(bank, a, b, d, x)
        /\ token' = SendErc20(moved, a, b, d, x)
        /\ evmMoved' = evmMoved \union {d}
        /\ UNCHANGED <<metadata, registered, external>>

\* burn of the contract: the hook sends the coins to the erc20 module account
\* and burns them there, on both ledgers.
EvmBurn(a, d, x) ==
    LET burnt == Debit(token, a, d, x)
        sent  == SendErc20(burnt, a, Erc20Module, d, x)
    IN  /\ d \in registered
        /\ token[a][d] >= x
        /\ bank[a][d] >= x
        /\ CanSendErc20(burnt, a, d, x)
        /\ CanSendErc20(sent, Erc20Module, d, x)
        /\ bank' = Debit(Move(bank, a, Erc20Module, d, x), Erc20Module, d, x)
        /\ token' = Debit(sent, Erc20Module, d, x)
        /\ evmMoved' = evmMoved \union {d}
        /\ UNCHANGED <<metadata, registered, external>>

\* RegisterERC20 and CreateCoinMetadata: a contract gets a pair once, unless its
\* metadata is invalid.
RegisterERC20(t) == external' \in {external, external \union {t}}

\* Another contract mints or transfers; its first Transfer event registers it,
\* and the bank is not touched.
EvmTokenMint(a, t, x) ==
    /\ SupplyOf(token, t) + x <= MaxSupply[t]
    /\ token' = Credit(token, a, t, x)
    /\ RegisterERC20(t)
    /\ UNCHANGED <<bank, metadata, registered, evmMoved>>

EvmTokenTransfer(a, b, t, x) ==
    /\ token[a][t] >= x
    /\ token' = Move(token, a, b, t, x)
    /\ RegisterERC20(t)
    /\ UNCHANGED <<bank, metadata, registered, evmMoved>>

-----------------------------------------------------------------------------
\* InitGenesis registers every native coin somebody holds and aligns the
\* contract's balances with the bank's.
Init ==
    /\ bank = Genesis
    /\ token = [a \in Addresses |-> [d \in Mirrored |->
                    IF d \in Natives THEN Genesis[a][d] ELSE 0]]
    /\ metadata = HeldAtGenesis
    /\ registered = HeldAtGenesis
    /\ external = {}
    /\ evmMoved = {}

Amount == 1..MaxAmount

Next ==
    \/ \E a, b \in Addresses, d \in Coins \union Tokens, x \in Amount :
          SendCoins(a, b, d, x)
    \/ \E a \in Accounts, p \in Pools, d \in Coins \union Tokens, x \in Amount :
          DelegateCoins(a, p, d, x) \/ UndelegateCoins(p, a, d, x)
    \/ \E a, b, c \in Accounts, d \in Coins \union Tokens, x, y \in Amount :
          InputOutputCoins(a, b, c, d, x, y)
    \/ \E m \in Minters \union {Erc20Module}, d \in Coins, x \in Amount :
          MintCoins(m, d, x) \/ BurnCoins(m, d, x)
    \/ \E d \in Natives : SetDenomMetaData(d)
    \/ \E a \in Accounts, b \in Addresses, d \in Natives, x \in Amount :
          EvmTransfer(a, b, d, x)
    \/ \E a \in Accounts, d \in Natives, x \in Amount : EvmBurn(a, d, x)
    \/ \E a \in Accounts, t \in Tokens, x \in Amount : EvmTokenMint(a, t, x)
    \/ \E a, b \in Accounts, t \in Tokens, x \in Amount : EvmTokenTransfer(a, b, t, x)

Spec == Init /\ [][Next]_vars

-----------------------------------------------------------------------------
(* Properties. *)

\* Both ledgers hold non-negative balances, pairs exist only for coins and
\* contracts there are.
TypeOK ==
    /\ bank \in [Addresses -> [Coins -> Nat]]
    /\ token \in [Addresses -> [Mirrored -> Nat]]
    /\ metadata \subseteq Natives
    /\ registered \subseteq Natives
    /\ external \subseteq Tokens
    /\ evmMoved \subseteq registered

\* Bank operations of every kind keep the two ledgers of a coin equal at every
\* address, as long as no EVM transaction moved that coin: ConsistentBalance-
\* Invariant holds for everything that goes through the wrapped bank keeper.
MirrorUntilEvm ==
    \A d \in Natives \ evmMoved : \A a \in Addresses : token[a][d] = bank[a][d]

\* A native coin that anybody holds on either ledger has a token pair, so no
\* balance is stuck behind "token pair with denom not found".
HeldIsRegistered ==
    \A d \in Natives \ registered : \A a \in Addresses :
        bank[a][d] = 0 /\ token[a][d] = 0

\* Only minting raises the supply of a coin, and it raises both ledgers by the
\* same amount, whatever EVM transactions did to the balances before; and the
\* contract never has a larger supply than the bank, since each EVM burn takes
\* at least as much from the contract.
SuppliesOrdered ==
    [][\A d \in Natives :
          /\ SupplyOf(bank, d)' > SupplyOf(bank, d) =>
                SupplyOf(token, d)' - SupplyOf(token, d)
                    = SupplyOf(bank, d)' - SupplyOf(bank, d)
          /\ SupplyOf(token, d)' <= SupplyOf(bank, d)']_vars

\* ConsistentBalanceInvariant, which x/erc20 registers with the crisis module:
\* all accounts have consistent balances in bank and erc20.
ConsistentBalance ==
    \A d \in Natives : \A a \in Addresses :
        bank[a][d] > 0 => token[a][d] = bank[a][d]
=============================================================================
