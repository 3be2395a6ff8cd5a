------------------------------ MODULE Staking ------------------------------
(***************************************************************************)
(* x/staking wraps the SDK's staking keeper: undelegating, redelegating    *)
(* and slashing are its own and keep ve records beside the SDK's, one ve   *)
(* entry for each unbonding and redelegation entry.  The end blocker the   *)
(* app runs is the SDK's: AppModule embeds staking.AppModule and overrides *)
(* InitGenesis only, so the EndBlocker of abci.go is never called, and     *)
(* entries that complete leave their ve entries behind.                    *)
(*                                                                         *)
(* No ve delegation is ever stored: the first VeDelegate of a pair stores  *)
(* a record whose validator address is the validator printed as YAML, and  *)
(* SetVeDelegation panics on it.  Every list of ve tokens is thus empty, a *)
(* ve record is the number of its entries, and Unbond is the SDK's.        *)
(*                                                                         *)
(* Times are relative to the current block, so that behaviours have no     *)
(* last block: "left" is the time until completion, "age" the number of    *)
(* blocks since creation, kept up to MaxAge.                               *)
(***************************************************************************)
EXTENDS Decimal, Sequences, SequencesExt, FiniteSetsExt, Functions

CONSTANTS
    Delegators, Validators,
    Coins,          \* the coins of a delegator at genesis
    Genesis,        \* the genesis states: who is bonded, and who has delegated what
    Amounts,        \* the amounts of a message
    UnbondingTime, MaxEntries,
    Gaps,           \* times between blocks
    Powers, Factors,\* the powers and factors of a slash
    Lookbacks,      \* how many blocks before the slash the infraction was
    Restarts,       \* whether the chain is ever restarted from an exported state
    MaxAge,         \* bound: ages are told apart up to here
    MaxVeShares     \* bound: the ve shares of a validator

ASSUME StakingAssumption ==
    /\ IsFiniteSet(Delegators) /\ IsFiniteSet(Validators)
    /\ Coins \in Nat
    /\ Genesis \subseteq [bonded : SUBSET Validators,
                          stake : [Delegators \X Validators -> 0..Coins]]
    /\ Amounts \subseteq Nat \ {0}
    /\ UnbondingTime \in Nat \ {0} /\ MaxEntries \in Nat \ {0}
    /\ Gaps \subseteq Nat \ {0}
    /\ Powers \subseteq Nat /\ Factors \subseteq 0..Precision
    /\ MaxAge \in Nat /\ \A k \in Lookbacks : k \in 1..MaxAge - 1
    /\ MaxVeShares \in Nat /\ Restarts \in BOOLEAN

VARIABLES
    validator,      \* the SDK's validators
    veShares,       \* VeValidator.VeDelegatorShares, 0 when there is no record
    delegation,     \* shares by <<delegator, validator>>
    ubd, veUbd,     \* unbonding entries, and the number of ve entries, by pair
    red, veRed,     \* the same for redelegations, by <<delegator, source, destination>>
    wallet,
    bondedPool, notBondedPool,
    halted,         \* the panic that stopped the chain, or "no"
    unpaired,       \* history: ve records were left behind or lost
    underBurned     \* history: a slash burned less than it took from a validator

stakes == <<validator, delegation>>
records == <<ubd, veUbd, red, veRed>>
pools == <<bondedPool, notBondedPool>>
history == <<unpaired, underBurned>>
vars == <<validator, veShares, delegation, ubd, veUbd, red, veRed, wallet,
          bondedPool, notBondedPool, halted, unpaired, underBurned>>

Pairs == Delegators \X Validators
Routes == {r \in Delegators \X Validators \X Validators : r[2] # r[3]}

Running == halted = "no"
Found(v) == validator[v].status # "none"

\* The SDK's InitGenesis of a new chain, or of one exported with validators
\* that are not bonded.
Init ==
    \E g \in Genesis :
        LET tokens(v) == MapThenSumSet(LAMBDA d : g.stake[<<d, v>>], Delegators)
            spent(d) == MapThenSumSet(LAMBDA v : g.stake[<<d, v>>], Validators)
        IN  /\ validator = [v \in Validators |->
                    [status |-> IF v \in g.bonded THEN "bonded" ELSE "unbonded",
                     tokens |-> tokens(v), shares |-> tokens(v) * Precision,
                     left |-> 0, age |-> 0]]
            /\ delegation = [p \in Pairs |-> g.stake[p] * Precision]
            /\ bondedPool = MapThenSumSet(tokens, g.bonded)
            /\ notBondedPool = MapThenSumSet(tokens, Validators \ g.bonded)
            /\ wallet = [d \in Delegators |-> Coins - spent(d)]
            /\ veShares = [v \in Validators |-> 0]
            /\ ubd = [p \in Pairs |-> <<>>] /\ veUbd = [p \in Pairs |-> 0]
            /\ red = [r \in Routes |-> <<>>] /\ veRed = [r \in Routes |-> 0]
            /\ halted = "no"
            /\ unpaired = FALSE /\ underBurned = FALSE
-----------------------------------------------------------------------------
(* The SDK's validators. *)

\* Validator.SharesFromTokens and TokensFromShares.
SharesFromTokens(val, amt) == (val.shares * amt) \div val.tokens
TokensFromShares(val, x) ==
    TruncateInt(DecQuo(x * val.tokens, val.shares))

InvalidExRate(val) == val.tokens = 0 /\ val.shares > 0

IssuedShares(val, amt) ==
    IF val.shares = 0 THEN amt * Precision ELSE SharesFromTokens(val, amt)

\* Validator.AddTokensFromDel and RemoveDelShares.
AddTokens(val, amt) ==
    [val EXCEPT !.tokens = @ + amt, !.shares = @ + IssuedShares(val, amt)]

IssuedTokens(val, x) ==
    IF x = val.shares THEN val.tokens ELSE TokensFromShares(val, x)

RemoveShares(val, x) ==
    [val EXCEPT !.tokens = @ - IssuedTokens(val, x), !.shares = @ - x]

\* An unbonded validator without shares is removed.
Gone(val) == val.status = "unbonded" /\ val.shares = 0
Settled(val) == IF Gone(val) THEN [val EXCEPT !.status = "none"] ELSE val

\* ValidateUnbondAmount: the shares that stand for amt, at most what there is.
Unbondable(p, amt) ==
    /\ Found(p[2]) /\ delegation[p] > 0
    /\ validator[p[2]].tokens > 0
    /\ SharesFromTokens(validator[p[2]], amt) <= delegation[p]

IsBonded(v) == validator[v].status = "bonded"

\* Pools after amt joins (or, negative, leaves) the stake of v.
Moved(v, amt) ==
    /\ bondedPool' = bondedPool + (IF IsBonded(v) THEN amt ELSE 0)
    /\ notBondedPool' = notBondedPool + (IF IsBonded(v) THEN 0 ELSE amt)

\* MsgDelegate and MsgCreateValidator go to the SDK's message server.
Delegate(d, v, amt) ==
    /\ Running /\ Found(v) /\ ~InvalidExRate(validator[v])
    /\ wallet[d] >= amt
    /\ wallet' = [wallet EXCEPT ![d] = @ - amt]
    /\ delegation' = [delegation EXCEPT ![<<d, v>>] = @ + IssuedShares(validator[v], amt)]
    /\ validator' = [validator EXCEPT ![v] = AddTokens(@, amt)]
    /\ Moved(v, amt)
    /\ UNCHANGED <<veShares, records, halted, history>>

CreateValidator(d, v, amt) ==
    /\ Running /\ ~Found(v) /\ wallet[d] >= amt
    /\ wallet' = [wallet EXCEPT ![d] = @ - amt]
    /\ delegation' = [delegation EXCEPT ![<<d, v>>] = amt * Precision]
    /\ validator' = [validator EXCEPT ![v] =
            [status |-> "unbonded", tokens |-> amt, shares |-> amt * Precision,
             left |-> 0, age |-> 0]]
    /\ notBondedPool' = notBondedPool + amt
    /\ UNCHANGED <<veShares, records, bondedPool, halted, history>>
-----------------------------------------------------------------------------
(* The messages of x/staking. *)

\* Undelegate: an entry that has no partner among the ve entries makes the
\* message panic, so it is accepted only while the numbers agree.
Undelegate(d, v, amt) ==
    LET p == <<d, v>>
        x == SharesFromTokens(validator[v], amt)
        got == IssuedTokens(validator[v], x)
    IN  /\ Running /\ Unbondable(p, amt)
        /\ Len(ubd[p]) < MaxEntries
        /\ delegation' = [delegation EXCEPT ![p] = @ - x]
        /\ validator' = [validator EXCEPT ![v] = Settled(RemoveShares(@, x))]
        /\ bondedPool' = bondedPool - (IF IsBonded(v) THEN got ELSE 0)
        /\ notBondedPool' = notBondedPool + (IF IsBonded(v) THEN got ELSE 0)
        /\ ubd' = [ubd EXCEPT ![p] = Append(@,
                [left |-> UnbondingTime, age |-> 0, initial |-> got, balance |-> got])]
        /\ veUbd' = [veUbd EXCEPT ![p] = @ + 1]
        /\ Len(ubd'[p]) = veUbd'[p]
        /\ UNCHANGED <<veShares, red, veRed, wallet, halted, history>>

\* GetBeginInfo: how long stake redelegated from a validator stays liable.  It
\* does not (completeNow) when the validator is unbonded.
BeginInfo(val) ==
    IF val.status = "unbonding" THEN [left |-> val.left, age |-> val.age]
    ELSE [left |-> UnbondingTime, age |-> 0]

\* BeginRedelegation with VeDelegate: the coins follow the stake between the
\* pools, and all the new shares are added to the ve shares of the destination.
BeginRedelegate(d, src, dst, amt) ==
    LET r == <<d, src, dst>>
        x == SharesFromTokens(validator[src], amt)
        got == IssuedTokens(validator[src], x)
        left == Settled(RemoveShares(validator[src], x))
        created == IssuedShares(validator[dst], got)
        begin == BeginInfo(left)
        completeNow == left.status = "unbonded"
        across == IF IsBonded(src) = IsBonded(dst) THEN 0
                  ELSE IF IsBonded(dst) THEN got ELSE -got
    IN  /\ Running /\ r \in Routes
        /\ Unbondable(<<d, src>>, amt) /\ Found(dst)
        /\ \A s \in Validators \ {src} : red[<<d, s, src>>] = <<>>
        /\ Len(red[r]) < MaxEntries
        /\ got > 0 /\ ~InvalidExRate(validator[dst])
        /\ veShares[dst] + created <= MaxVeShares
        /\ delegation' = [delegation EXCEPT ![<<d, src>>] = @ - x,
                                            ![<<d, dst>>] = @ + created]
        /\ validator' = [validator EXCEPT ![src] = left, ![dst] = AddTokens(@, got)]
        /\ bondedPool' = bondedPool + across
        /\ notBondedPool' = notBondedPool - across
        /\ veShares' = [veShares EXCEPT ![dst] = @ + created]
        /\ \/ completeNow /\ UNCHANGED <<red, veRed>>
           \/ /\ ~completeNow
              /\ red' = [red EXCEPT ![r] = Append(@,
                    [left |-> begin.left, age |-> begin.age,
                     initial |-> got, sharesDst |-> created])]
              /\ veRed' = [veRed EXCEPT ![r] = @ + 1]
              /\ Len(red'[r]) = veRed'[r]
        /\ UNCHANGED <<ubd, veUbd, wallet, halted, history>>
-----------------------------------------------------------------------------
(* Slash, called at the beginning of a block by x/slashing and x/evidence  *)
(* and at its end by x/oracle, never for an unbonded validator.            *)

\* Entries created before the infraction, and mature ones, are not liable.
Liable(e, ago) == e.age <= ago /\ e.left > 0

\* The share of an entry that the slash takes, by its initial balance.
SlashOf(e, factor) == TruncateInt(factor * e.initial)

Liability(q, factor, ago) ==
    MapThenSumSet(LAMBDA i : IF Liable(q[i], ago) THEN SlashOf(q[i], factor) ELSE 0,
                  DOMAIN q)

\* Mutant: entries that are slashed to nothing are removed.
MutantDropEmptied(q, factor, ago) ==
    SelectSeq([i \in 1..Len(q) |->
                  IF Liable(q[i], ago)
                  THEN [q[i] EXCEPT !.balance = @ - Min({@, SlashOf(q[i], factor)})]
                  ELSE q[i]],
              LAMBDA e : e.balance > 0)

\* Mutant: a slashed entry starts to unbond anew.
MutantUnbondAnew(q, factor, ago) ==
    [i \in 1..Len(q) |->
        IF Liable(q[i], ago)
        THEN [q[i] EXCEPT !.balance = @ - Min({@, SlashOf(q[i], factor)}),
                          !.left = UnbondingTime, !.age = 0]
        ELSE q[i]]

SlashUnbondingDelegation(q, factor, ago) ==
    [i \in 1..Len(q) |->
        IF Liable(q[i], ago)
        THEN [q[i] EXCEPT !.balance = @ - Min({@, SlashOf(q[i], factor)})]
        ELSE q[i]]

Balance(q) == MapThenSumSet(LAMBDA i : q[i].balance, DOMAIN q)

\* Mutant: the tokens are burned from the bonded pool whatever the status.
MutantBurnBonded(s, d, dst, e, factor, ago) ==
    LET x == Min({DecMul(factor, e.sharesDst), s.del[<<d, dst>>]})
        rest == RemoveShares(s.val[dst], x)
    IN  IF ~Liable(e, ago) \/ x = 0 THEN s
        ELSE [s EXCEPT !.val[dst] = Settled(rest), !.del[<<d, dst>>] = @ - x,
                       !.bonded = @ - IssuedTokens(s.val[dst], x),
                       !.lost = @ \/ Gone(rest)]

\* Mutant: the delegation keeps its shares.
MutantKeepDelegation(s, d, dst, e, factor, ago) ==
    LET x == Min({DecMul(factor, e.sharesDst), s.del[<<d, dst>>]})
        rest == RemoveShares(s.val[dst], x)
    IN  IF ~Liable(e, ago) \/ x = 0 THEN s
        ELSE [s EXCEPT !.val[dst] = Settled(rest), !.lost = @ \/ Gone(rest)]

\* One entry of SlashRedelegation: its part of the shares is unbonded from the
\* destination, as far as the delegator still has shares there, and burned.
\* The state s is [val, del, bonded, notBonded, lost]; lost says that Unbond
\* removed the destination, which panics.
SlashEntry(s, d, dst, e, factor, ago) ==
    LET p == <<d, dst>>
        x == Min({DecMul(factor, e.sharesDst), s.del[p]})
        burned == IssuedTokens(s.val[dst], x)
        rest == RemoveShares(s.val[dst], x)
        bonded == rest.status = "bonded"
    IN  IF ~Liable(e, ago) \/ x = 0 THEN s
        ELSE [val |-> [s.val EXCEPT ![dst] = Settled(rest)],
              del |-> [s.del EXCEPT ![p] = @ - x],
              bonded |-> s.bonded - (IF bonded THEN burned ELSE 0),
              notBonded |-> s.notBonded - (IF bonded THEN 0 ELSE burned),
              lost |-> s.lost \/ Gone(rest)]

SlashRedelegation(s, r, factor, ago) ==
    FoldLeft(LAMBDA t, e : SlashEntry(t, r[1], r[3], e, factor, ago), s, red[r])

\* Redelegations from v are visited in the order of their store keys.
RoutesFrom(v) == SetToSeq({r \in Routes : r[2] = v})

SlashRedelegations(v, factor, ago) ==
    FoldLeft(LAMBDA t, r : SlashRedelegation(t, r, factor, ago),
             [val |-> validator, del |-> delegation, bonded |-> bondedPool,
              notBonded |-> notBondedPool, lost |-> FALSE],
             RoutesFrom(v))

\* What the validator itself loses: the slash less what the entries answer for.
SlashRemaining(v, power, factor, ago) ==
    LET answered ==
            MapThenSumSet(LAMBDA d : Liability(ubd[<<d, v>>], factor, ago), Delegators)
            + MapThenSumSet(LAMBDA r : Liability(red[r], factor, ago),
                            {r \in Routes : r[2] = v})
    IN  Max({0, Min({validator[v].tokens,
                     TruncateInt(power * factor) - answered})})

\* What the pool loses for it: only the part of the shares that are not ve shares.
SlashBurned(v, amt) ==
    LET all == validator[v].shares
    IN  IF all = 0 THEN amt
        ELSE IF veShares[v] >= all THEN 0
        ELSE TruncateInt(DecQuo(DecMul(amt * Precision, all - veShares[v]), all))

\* A record whose number of ve entries differs panics.
Mismatched(v) ==
    \/ \E d \in Delegators : ubd[<<d, v>>] # <<>> /\ Len(ubd[<<d, v>>]) # veUbd[<<d, v>>]
    \/ \E r \in Routes : r[2] = v /\ red[r] # <<>> /\ Len(red[r]) # veRed[r]

\* Slash of an infraction some blocks ago.  (For one in the current block it
\* would leave the entries alone; evidence and downtime are always older.)
Slashable(v) == Running /\ validator[v].status \in {"bonded", "unbonding"}

Slash(v, power, factor, ago) ==
    LET after == SlashRedelegations(v, factor, ago)
        amt == SlashRemaining(v, power, factor, ago)
        burned == SlashBurned(v, amt)
        cut == [p \in Pairs |-> IF p[2] = v
                    THEN SlashUnbondingDelegation(ubd[p], factor, ago) ELSE ubd[p]]
        unbonding == MapThenSumSet(LAMBDA p : Balance(ubd[p]) - Balance(cut[p]), Pairs)
    IN  /\ Slashable(v) /\ ~Mismatched(v) /\ ~after.lost
        /\ ubd' = cut
        /\ delegation' = after.del
        /\ validator' = [after.val EXCEPT ![v].tokens = @ - amt]
        /\ bondedPool' = after.bonded - (IF IsBonded(v) THEN burned ELSE 0)
        /\ notBondedPool' = after.notBonded - unbonding
                            - (IF IsBonded(v) THEN 0 ELSE burned)
        /\ underBurned' = (underBurned \/ burned < amt)
        /\ UNCHANGED <<veShares, veUbd, red, veRed, wallet, halted, unpaired>>

\* A panic outside a transaction stops the chain at the last committed state.
SlashPanics(v, factor, ago) ==
    /\ Slashable(v)
    /\ \/ Mismatched(v) /\ halted' = "inconsistent ve records"
       \/ /\ SlashRedelegations(v, factor, ago).lost
          /\ halted' = "destination validator not found"
    /\ UNCHANGED <<stakes, veShares, records, wallet, pools, history>>
-----------------------------------------------------------------------------
(* The end of a block, by the SDK's end blocker, and a restart. *)

\* ApplyAndReturnValidatorSetUpdates makes any set of validators with power the
\* bonded ones (power, jailing and validators that are not modelled decide);
\* UnbondAllMatureValidators ends the unbonding of others.
UpdatedValidator(val, bonded) ==
    CASE bonded -> [val EXCEPT !.status = "bonded", !.left = 0, !.age = 0]
      [] ~bonded /\ val.status = "bonded" ->
            [val EXCEPT !.status = "unbonding", !.left = UnbondingTime, !.age = 0]
      [] ~bonded /\ val.status = "unbonding" /\ val.left = 0 ->
            Settled([val EXCEPT !.status = "unbonded", !.age = 0])
      [] OTHER -> val

Older(k) == Min({k + 1, MaxAge})
Sooner(t, gap) == Max({0, t - gap})

Aged(q, gap) ==
    [i \in 1..Len(q) |-> [q[i] EXCEPT !.left = Sooner(@, gap), !.age = Older(@)]]

HasMature(q) == \E i \in 1..Len(q) : q[i].left = 0
Immature(q) == SelectSeq(q, LAMBDA e : e.left > 0)

\* CompleteUnbonding and CompleteRedelegation of the SDK.
Completed(q) == IF HasMature(q) THEN Immature(q) ELSE q
Paid(q) == Balance(q) - Balance(Completed(q))

EndBlock(bonded, gap) ==
    LET tokens(S) == MapThenSumSet(LAMBDA v : validator[v].tokens, S)
        joined == tokens({v \in bonded : ~IsBonded(v)})
        left == tokens({v \in Validators \ bonded : IsBonded(v)})
        paid == MapThenSumSet(LAMBDA p : Paid(ubd[p]), Pairs)
    IN  /\ Running
        /\ \A v \in bonded : Found(v) /\ validator[v].tokens > 0
        /\ validator' = [v \in Validators |->
                LET val == UpdatedValidator(validator[v], v \in bonded)
                IN  IF val.status = "unbonding"
                    THEN [val EXCEPT !.left = Sooner(@, gap), !.age = Older(@)]
                    ELSE val]
        /\ bondedPool' = bondedPool + joined - left
        /\ notBondedPool' = notBondedPool + left - joined - paid
        /\ wallet' = [d \in Delegators |-> wallet[d] +
                MapThenSumSet(LAMBDA v : Paid(ubd[<<d, v>>]), Validators)]
        /\ ubd' = [p \in Pairs |-> Aged(Completed(ubd[p]), gap)]
        /\ red' = [r \in Routes |-> Aged(Completed(red[r]), gap)]
        /\ unpaired' = \/ unpaired
                       \/ \E p \in Pairs : HasMature(ubd[p])
                       \/ \E r \in Routes : HasMature(red[r])
        /\ UNCHANGED <<delegation, veShares, veUbd, veRed, halted, underBurned>>

BondedTokens ==
    MapThenSumSet(LAMBDA v : validator[v].tokens, {v \in Validators : IsBonded(v)})
NotBondedTokens ==
    MapThenSumSet(LAMBDA v : validator[v].tokens, {v \in Validators : ~IsBonded(v)})
    + MapThenSumSet(LAMBDA p : Balance(ubd[p]), Pairs)

\* Export and InitGenesis carry the SDK's state and no ve record.  The SDK's
\* InitGenesis refuses pools that differ from the books.
Restart ==
    /\ Restarts /\ Running
    /\ bondedPool = BondedTokens /\ notBondedPool = NotBondedTokens
    /\ veShares' = [v \in Validators |-> 0]
    /\ veUbd' = [p \in Pairs |-> 0]
    /\ veRed' = [r \in Routes |-> 0]
    /\ unpaired' = \/ \E p \in Pairs : ubd[p] # <<>>
                   \/ \E r \in Routes : red[r] # <<>>
    /\ UNCHANGED <<stakes, ubd, red, wallet, pools, halted, underBurned>>
-----------------------------------------------------------------------------
Next ==
    \/ \E d \in Delegators, v \in Validators, amt \in Amounts :
        \/ Delegate(d, v, amt)
        \/ CreateValidator(d, v, amt)
        \/ Undelegate(d, v, amt)
        \/ \E dst \in Validators : BeginRedelegate(d, v, dst, amt)
    \/ \E v \in Validators, factor \in Factors, ago \in Lookbacks :
        \/ \E power \in Powers : Slash(v, power, factor, ago)
        \/ SlashPanics(v, factor, ago)
    \/ \E bonded \in SUBSET Validators, gap \in Gaps : EndBlock(bonded, gap)
    \/ Restart

Spec == Init /\ [][Next]_vars

\* Blocks keep being made: Tendermint ends a block after every round.
FairSpec ==
    Spec /\ WF_vars(\E bonded \in SUBSET Validators, gap \in Gaps : EndBlock(bonded, gap))
-----------------------------------------------------------------------------
\* The bonded pool covers the tokens of the bonded validators, the other pool
\* those of the others and every unbonding balance, through delegations,
\* redelegations between validators of different status, slashes and changes
\* of the validator set: a payment or a burn never fails.  They are equal until
\* a slash burns less than it takes from a validator with ve shares.
PoolsCover ==
    /\ bondedPool >= BondedTokens /\ notBondedPool >= NotBondedTokens
    /\ ~underBurned => bondedPool = BondedTokens /\ notBondedPool = NotBondedTokens

\* The shares of a validator are those of its delegations, whatever order
\* unbonding, redelegating, slashing and removal come in.
SharesAreDelegated ==
    \A v \in Validators :
        validator[v].shares = MapThenSumSet(LAMBDA d : delegation[<<d, v>>], Delegators)

\* Until an entry has matured or a restart came while one was in flight, every
\* record has as many ve entries as SDK entries, and no slash has panicked on
\* records that differ.
PairedUntilMature ==
    ~unpaired =>
        /\ \A p \in Pairs : Len(ubd[p]) = veUbd[p]
        /\ \A r \in Routes : Len(red[r]) = veRed[r]
        /\ halted # "inconsistent ve records"

\* What the panics of Undelegate, BeginRedelegation and the slashing of entries
\* assert: every record in flight has one ve entry for each SDK entry.
VeEntriesPaired ==
    /\ \A p \in Pairs : ubd[p] # <<>> => Len(ubd[p]) = veUbd[p]
    /\ \A r \in Routes : red[r] # <<>> => Len(red[r]) = veRed[r]

\* Unless delegators keep undelegating, everything that is unbonding is paid out,
\* or the chain has halted.
UnbondingsEnd ==
    \/ []<><<\E d \in Delegators, v \in Validators, amt \in Amounts : Undelegate(d, v, amt)>>_vars
    \/ <>[](\A p \in Pairs : ubd[p] = <<>>)
    \/ <>(~Running)
=============================================================================
