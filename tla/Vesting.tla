------------------------------ MODULE Vesting ------------------------------
(***************************************************************************)
(* x/vesting: the genesis allocation is put into three accounts that vest  *)
(* continuously; every ClaimVestedPeriod blocks the end blocker moves what *)
(* has vested to the fee collector, the community pool and the team.  The  *)
(* team also adds airdrops under a cap and executes them in batches.       *)
(*                                                                         *)
(* Nothing depends on the height but its position in the claim period, and *)
(* nothing on the time once everything has vested: both are kept only that *)
(* far, so that behaviours have no last block.                             *)
(***************************************************************************)
EXTENDS Decimal, Sequences, FiniteSetsExt, Functions

CONSTANTS
    Addresses,        \* accounts that may be the team or the custodian
    Nobody,           \* the empty address
    Targets,          \* airdrop targets, numbered in the order of their store keys
    Blocked,          \* the targets that are module accounts (bank's BlockedAddr)
    Allocation,       \* the amount of each vesting account
    StrategicReserve, VeVesting, AirdropCap,
    VestingTime,      \* seconds until everything has vested
    ClaimVestedPeriod,
    DisplayUnit,      \* base units in one coin of the display denomination
    AirdropInputs,    \* the lists of airdrops a message may carry
    MaxCounts,        \* the values of MaxCount in MsgExecuteAirdrops
    Gaps,             \* seconds between blocks
    MaxDonations      \* bound: coins that others send to vesting accounts

VestingNames == {"staking_reward", "community_pool", "team"}
Units == {"base", "display"}

ASSUME VestingAssumption ==
    /\ Nobody \notin Addresses
    /\ Targets \subseteq Nat /\ Blocked \subseteq Targets
    /\ Allocation \in [VestingNames -> Nat]
    /\ StrategicReserve \in Nat /\ VeVesting \in Nat \ {0} /\ AirdropCap \in Nat
    /\ VestingTime \in Nat \ {0} /\ ClaimVestedPeriod \in Nat \ {0}
    /\ DisplayUnit \in Nat \ {0}
    /\ AirdropInputs \subseteq Seq([target : Targets, unit : Units, amount : Nat])
    /\ MaxCounts \subseteq Nat \ {0}
    /\ Gaps \subseteq Nat \ {0}
    /\ MaxDonations \in Nat

VARIABLES
    blockInPeriod,  \* the height of the block, modulo the claim period
    age,            \* seconds since genesis, at most VestingTime
    custodian, team,\* the allocation addresses
    vault,          \* the balances of the vesting accounts
    held,           \* what the allocation has paid out, by receiver
    totalEmission,  \* x/ve: the emission allocated to ve holders
    donations,      \* history: what others have sent to the vesting accounts
    airdrops,       \* pending airdrops, by target
    completed,      \* completed airdrops, by target
    total,          \* AirdropTotalAmount
    paid            \* history: what airdrops have minted since the last genesis

vars == <<blockInPeriod, age, custodian, team, vault, held, totalEmission,
          donations, airdrops, completed, total, paid>>

vestingVars == <<vault, held, totalEmission, donations>>
airdropVars == <<airdrops, completed, total, paid>>
clockVars == <<blockInPeriod, age>>

Receivers == Addresses \cup {Nobody, "fee_collector", "community_pool"}

\* InitGenesis of a new chain (its first block has height 1) allocates: the
\* vesting accounts are filled, x/ve learns its emission, the custodian gets
\* the strategic reserve.
Init ==
    /\ blockInPeriod = 1 % ClaimVestedPeriod
    /\ age = 0
    /\ custodian \in Addresses \cup {Nobody}
    /\ team \in Addresses \cup {Nobody}
    /\ vault = Allocation
    /\ held = [r \in Receivers |-> IF r = custodian THEN StrategicReserve ELSE 0]
    /\ totalEmission = VeVesting
    /\ donations = 0
    /\ airdrops = <<>>
    /\ completed = <<>>
    /\ total = 0
    /\ paid = 0

-----------------------------------------------------------------------------
(* Vesting accounts and their claims. *)

\* External: ContinuousVestingAccount.GetVestedCoins, t seconds after the start.
Vested(n, t) ==
    IF t >= VestingTime THEN Allocation[n]
    ELSE RoundHalfEven(DecMul(Allocation[n] * Precision,
                              DecQuo(t * Precision, VestingTime * Precision)))

Locked(n, t) == Allocation[n] - Vested(n, t)

\* External: SpendableCoins, nothing if less than the locked coins is left.
Spendable(n, t) ==
    IF vault[n] >= Locked(n, t) THEN vault[n] - Locked(n, t) ELSE 0

\* Where ClaimVested sends what vested; without a team address the team's
\* coins fund the community pool.
Destination(n) ==
    CASE n = "staking_reward" -> "fee_collector"
      [] n = "community_pool" -> "community_pool"
      [] n = "team" -> IF team = Nobody THEN "community_pool" ELSE team

MutantClaimNothing(t) == UNCHANGED <<vault, held>>
MutantClaimTeamTwice(t) ==
    /\ vault' = [n \in VestingNames |-> vault[n] - Spendable(n, t)]
    /\ held' = [r \in Receivers |-> held[r] +
          (IF r = team THEN 2 ELSE 1) *
          MapThenSumSet(LAMBDA n : Spendable(n, t),
                        {n \in VestingNames : Destination(n) = r})]

ClaimVested(t) ==
    /\ vault' = [n \in VestingNames |-> vault[n] - Spendable(n, t)]
    /\ held' = [r \in Receivers |-> held[r] +
          MapThenSumSet(LAMBDA n : Spendable(n, t),
                        {n \in VestingNames : Destination(n) = r})]

IsPeriodLastBlock == (blockInPeriod + 1) % ClaimVestedPeriod = 0

\* EndBlocker, and the header of the next block.
EndBlock(gap) ==
    /\ IF IsPeriodLastBlock THEN ClaimVested(age) ELSE UNCHANGED <<vault, held>>
    /\ blockInPeriod' = (blockInPeriod + 1) % ClaimVestedPeriod
    /\ age' = IF age + gap > VestingTime THEN VestingTime ELSE age + gap
    /\ UNCHANGED <<custodian, team, totalEmission, donations, airdropVars>>

\* External: the vesting accounts are no module accounts, so anybody may send
\* coins to one.
Donate(n) ==
    /\ donations < MaxDonations
    /\ donations' = donations + 1
    /\ vault' = [vault EXCEPT ![n] = @ + 1]
    /\ UNCHANGED <<clockVars, custodian, team, held, totalEmission, airdropVars>>

-----------------------------------------------------------------------------
(* Messages. *)

\* ParseCoinNormalized: an amount of the display denomination in base units.
Normalized(a) ==
    [target |-> a.target,
     amount |-> a.amount * (IF a.unit = "display" THEN DisplayUnit ELSE 1)]

AmountOf(list) == FoldFunctionOnSet(LAMBDA a, sum : sum + Normalized(a).amount,
                                    0, list, DOMAIN list)

\* SetAirdrop, one after the other: the last one of a target stays.
LastOf(list, t) == CHOOSE i \in DOMAIN list :
    /\ list[i].target = t
    /\ \A j \in DOMAIN list : list[j].target = t => j <= i

MutantTotalOfPending(list) ==
    MapThenSumSet(LAMBDA t : airdrops[t], DOMAIN airdrops) + AmountOf(list)
TotalWith(list) == total + AmountOf(list)

\* The amounts of a message are added up whatever their denominations: the
\* check of ValidateBasic, meant to admit the native coin alone, admits all.
AddAirdrops(sender, list) ==
    LET named == {list[i].target : i \in DOMAIN list}
    IN  /\ sender = team
        /\ TotalWith(list) <= AirdropCap
        /\ airdrops' = [t \in DOMAIN airdrops \cup named |->
              IF t \in named THEN Normalized(list[LastOf(list, t)]).amount
              ELSE airdrops[t]]
        /\ total' = TotalWith(list)
        /\ UNCHANGED <<clockVars, custodian, team, vestingVars, completed, paid>>

\* The first n pending targets in the order of the store.
FirstPending(n) ==
    {t \in DOMAIN airdrops :
        Cardinality({u \in DOMAIN airdrops : u < t}) < n}

Unpaid(done) == Restrict(airdrops, DOMAIN airdrops \ done)

\* Mint and send, delete and complete, up to maxCount; the bank refuses to
\* send to a module account, and then the whole message is rolled back.
ExecuteAirdrops(sender, maxCount) ==
    LET done == FirstPending(maxCount)
    IN  /\ sender = team
        /\ done \cap Blocked = {}
        /\ airdrops' = Unpaid(done)
        /\ completed' = [t \in DOMAIN completed \cup done |->
              IF t \in done THEN airdrops[t] ELSE completed[t]]
        /\ paid' = paid + MapThenSumSet(LAMBDA t : airdrops[t], done)
        /\ UNCHANGED <<clockVars, custodian, team, vestingVars, total>>

\* SetAllocationAddress: exactly one of the two addresses is given.
SetCustodian(sender, address) ==
    /\ sender = custodian
    /\ custodian' = address
    /\ UNCHANGED <<clockVars, team, vestingVars, airdropVars>>

SetTeam(sender, address) ==
    /\ sender = team
    /\ team' = address
    /\ UNCHANGED <<clockVars, custodian, vestingVars, airdropVars>>

\* ExportGenesis at this height and InitGenesis of a chain that goes on from
\* it: parameters and addresses are kept and, since the height is above 1,
\* nothing is allocated again; the records of the airdrops are not exported.
Restart ==
    /\ airdrops' = <<>>
    /\ completed' = <<>>
    /\ total' = 0
    /\ paid' = 0
    /\ UNCHANGED <<clockVars, custodian, team, vestingVars>>

Message(sender) ==
    \/ \E list \in AirdropInputs : AddAirdrops(sender, list)
    \/ \E max \in MaxCounts : ExecuteAirdrops(sender, max)
    \/ \E address \in Addresses : SetCustodian(sender, address) \/ SetTeam(sender, address)

Next ==
    \/ \E gap \in Gaps : EndBlock(gap)
    \/ \E n \in VestingNames : Donate(n)
    \/ \E sender \in Addresses : Message(sender)
    \/ Restart

Spec == Init /\ [][Next]_vars

\* Validators go on producing blocks; nobody has to send anything.
FairSpec == Spec /\ WF_vars(\E gap \in Gaps : EndBlock(gap))

-----------------------------------------------------------------------------
(* Properties. *)

\* ClaimVested never runs ahead of the schedule and never loses a coin: what
\* has not vested yet is still in its account, whatever the block times and
\* the rounding, and accounts and receivers together hold the allocation and
\* the donations.
AllocationKept ==
    /\ \A n \in VestingNames : vault[n] >= Locked(n, age)
    /\ MapThenSumSet(LAMBDA n : vault[n], VestingNames)
         + MapThenSumSet(LAMBDA r : held[r], Receivers)
       = MapThenSumSet(LAMBDA n : Allocation[n], VestingNames)
         + StrategicReserve + donations

\* Since the last genesis, airdrops have not minted, and what is pending will
\* not mint, more than the total counted against the cap (AddAirdrops),
\* although a pending airdrop may be replaced and a target named again.
AirdropsWithinCap ==
    /\ paid + MapThenSumSet(LAMBDA t : airdrops[t], DOMAIN airdrops) <= total
    /\ total <= AirdropCap

\* The whole allocation reaches its receivers and nothing stays behind in the
\* vesting accounts, donations included, as long as blocks are produced.
AllReleased == <>[](\A n \in VestingNames : vault[n] = 0)
=============================================================================
