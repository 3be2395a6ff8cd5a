--------------------------------- MODULE Ve ---------------------------------
(***************************************************************************)
(* x/ve: vote-escrowed locks.  A user locks coins until a regulated time   *)
(* (a multiple of RegulatedPeriod), gets an NFT for the lock, and holds a  *)
(* voting power that decays linearly to zero at the unlocking time.  The   *)
(* module keeps one checkpoint per ve (the line of its power), one system  *)
(* checkpoint (the line of the total) and a schedule of slope changes at   *)
(* the unlocking times.                                                    *)
(*                                                                         *)
(* Every message is one atomic action, as a transaction is: an error or a  *)
(* panic rolls it back, so it is not enabled.  A panic in EndBlocker stops *)
(* the chain.  The store keeps every checkpoint ever written; a transition *)
(* reads only the newest one, which is all this module keeps.  VeHistory   *)
(* adds the older ones and the queries about the past.                     *)
(***************************************************************************)
EXTENDS Integers, FiniteSets, FiniteSetsExt

CONSTANTS
    Users,            \* the accounts that hold coins and ve NFTs
    NoOne,            \* GetOwner of an NFT that does not exist
    MaxVeID,          \* the largest ve id
    RegulatedPeriod,  \* a week
    MaxLockTime,      \* 209 weeks
    Amounts,          \* the amounts of coins a message may name
    Durations,        \* the lock durations a message may name
    GenesisTimes,     \* the possible times of the first block
    InitialCoins,     \* the amounts every user may hold at genesis
    Gaps,             \* the possible differences of two successive block times
    LastTime,         \* bound: the last block time explored
    MaxAttached       \* bound: the largest attachment count explored

ASSUME VeAssumption ==
    /\ NoOne \notin Users
    /\ MaxVeID \in Nat
    /\ RegulatedPeriod \in Nat \ {0}
    /\ MaxLockTime \in Nat \ {0}
    /\ Amounts \subseteq Nat \ {0}
    /\ Durations \subseteq Nat \ {0}
    /\ GenesisTimes \subseteq 1..LastTime
    /\ InitialCoins \subseteq Nat
    /\ Gaps \subseteq Nat
    /\ LastTime \in Nat
    /\ MaxAttached \in Nat

VARIABLES
    now,          \* the block time, in seconds
    halted,       \* EndBlocker has panicked: no further block
    nextVeID,     \* NextVeIDKey
    owner,        \* the nft module's owner of each ve NFT
    locked,       \* LockedAmountByUser: [amount, end] of each ve
    totalLocked,  \* TotalLockedAmount
    coins,        \* the users' balances of the lock denomination
    moduleCoins,  \* the ve module account's balance
    point,        \* the newest system checkpoint; ts = 0 is the genesis one
    slopeChange,  \* SlopeChange: scheduled change of the slope at each time
    userPoint,    \* the newest checkpoint of each ve
    attached,     \* how many gauges each ve is attached to
    voted,        \* whether each ve has voted
    shrunk        \* history: some unexpired lock was merged away or slashed

vars == <<now, halted, nextVeID, owner, locked, totalLocked, coins,
          moduleCoins, point, slopeChange, userPoint, attached, voted, shrunk>>

lockVars == <<nextVeID, owner, locked, totalLocked, coins, moduleCoins>>
checkpointVars == <<point, slopeChange, userPoint>>

-----------------------------------------------------------------------------
VeIDs == 1..MaxVeID
Times == 0..(LastTime + MaxLockTime)

Lock == [amount : Nat, end : Times]
NewLockedBalance == [amount |-> 0, end |-> 0]

Checkpoint == [bias : Nat, slope : Nat, ts : Times]
ZeroPoint == [bias |-> 0, slope |-> 0, ts |-> 0]

NonNegative(n) == IF n < 0 THEN 0 ELSE n

RegulatedUnixTime(t) == (t \div RegulatedPeriod) * RegulatedPeriod
NextRegulatedUnixTime(t) == RegulatedUnixTime(t) + RegulatedPeriod
Regulated(t) == RegulatedUnixTime(t) = t

-----------------------------------------------------------------------------
(* Checkpoints. *)

MutantBiasOfAmount(l, t) ==
    IF l.end > t /\ l.amount > 0
    THEN [bias |-> (l.amount * (l.end - t)) \div MaxLockTime,
          slope |-> l.amount \div MaxLockTime, ts |-> t]
    ELSE [bias |-> 0, slope |-> 0, ts |-> t]

\* The line of voting power a lock has from time t on.
LockPoint(l, t) ==
    IF l.end > t /\ l.amount > 0
    THEN LET slope == l.amount \div MaxLockTime
         IN  [bias |-> slope * (l.end - t), slope |-> slope, ts |-> t]
    ELSE [bias |-> 0, slope |-> 0, ts |-> t]

\* The system checkpoint regulation starts from; a fresh one in epoch zero.
LastPoint == IF point.ts = 0 THEN [ZeroPoint EXCEPT !.ts = now] ELSE point

MutantUnclamped(p, t, sc) ==
    [bias |-> p.bias - p.slope * (t - p.ts), slope |-> p.slope + sc, ts |-> t]

\* One round of the regulation loop: decay to time t, then bend by sc.
DecayTo(p, t, sc) ==
    [bias  |-> NonNegative(p.bias - p.slope * (t - p.ts)),
     slope |-> NonNegative(p.slope + sc),
     ts    |-> t]

MutantNoChange(sc, t) == 0

\* The slope change of a round that ends at t: none off the regulated times.
ChangeAt(sc, t) == IF Regulated(t) THEN sc[t] ELSE 0

\* The loop panics when a third round would be needed.
TwoRoundsReach(p, t) == NextRegulatedUnixTime(p.ts) + RegulatedPeriod >= t

\* The point p decayed to time t, in one or two rounds.
RegulatedPoint(p, sc, t) ==
    LET t1 == NextRegulatedUnixTime(p.ts)
    IN  IF t1 >= t
        THEN DecayTo(p, t, IF t1 = t THEN sc[t] ELSE 0)
        ELSE DecayTo(DecayTo(p, t1, sc[t1]), t, ChangeAt(sc, t))

\* regulateCheckpoint: decay to now, then add what a user added.
regulateCheckpoint(p, sc, slopeAdd, biasAdd) ==
    LET q == RegulatedPoint(p, sc, now)
    IN  [q EXCEPT !.bias = @ + NonNegative(biasAdd),
                  !.slope = @ + NonNegative(slopeAdd)]

MutantKeepNewSlope(sc, old, new) ==
    [t \in DOMAIN sc |->
        CASE t = old.end /\ old.end > now -> sc[t] + LockPoint(old, now).slope
          [] t = new.end /\ new.end > now /\ new.end > old.end ->
                sc[t] - LockPoint(new, now).slope
          [] OTHER -> sc[t]]

\* The schedule after a lock changed from old to new.
RescheduleSlope(sc, old, new) ==
    LET oldSlope == LockPoint(old, now).slope
        newSlope == LockPoint(new, now).slope
    IN  [t \in DOMAIN sc |->
            CASE t = old.end /\ old.end > now ->
                    sc[t] + oldSlope - (IF new.end = old.end THEN newSlope ELSE 0)
              [] t = new.end /\ new.end > now /\ new.end > old.end ->
                    sc[t] - newSlope
              [] OTHER -> sc[t]]

\* The three pieces of checkpoint state, and their value after the lock of
\* ve changed from old to new.
Checkpoints == [point |-> LastPoint, slopeChange |-> slopeChange,
                userPoint |-> userPoint]

RegulateUserCheckpoint(c, ve, old, new) ==
    LET p == LockPoint(old, now)
        q == LockPoint(new, now)
    IN  [point       |-> regulateCheckpoint(c.point, c.slopeChange,
                                            q.slope - p.slope, q.bias - p.bias),
         slopeChange |-> RescheduleSlope(c.slopeChange, old, new),
         userPoint   |-> [c.userPoint EXCEPT ![ve] = q]]

SetCheckpoints(c) ==
    /\ point' = c.point
    /\ slopeChange' = c.slopeChange
    /\ userPoint' = c.userPoint

\* A message whose regulation would panic is rolled back.
CanRegulate(old, new) ==
    /\ Regulated(old.end)
    /\ Regulated(new.end)
    /\ TwoRoundsReach(LastPoint, now)

-----------------------------------------------------------------------------
(* Messages. *)

Exists(ve) == owner[ve] # NoOne
Unattached(ve) == attached[ve] = 0 /\ ~voted[ve]
Unexpired(ve) == locked[ve].amount > 0 /\ locked[ve].end > now

\* DepositFor for the messages that touch one ve: the lock of ve becomes new;
\* sender pays amount, or nobody when it is zero (sendCoins is false).
DepositFor(sender, ve, amount, new) ==
    /\ coins[sender] >= amount
    /\ CanRegulate(locked[ve], new)
    /\ coins' = [coins EXCEPT ![sender] = @ - amount]
    /\ moduleCoins' = moduleCoins + amount
    /\ totalLocked' = totalLocked + amount
    /\ locked' = [locked EXCEPT ![ve] = new]
    /\ SetCheckpoints(RegulateUserCheckpoint(Checkpoints, ve, locked[ve], new))

Create(sender, receiver, amount, duration) ==
    LET unlockTime == RegulatedUnixTime(now + duration)
        ve == nextVeID
    IN  /\ ~halted
        /\ duration <= MaxLockTime
        /\ unlockTime > now
        /\ unlockTime <= now + MaxLockTime
        /\ ve \in VeIDs
        /\ nextVeID' = ve + 1
        /\ owner' = [owner EXCEPT ![ve] = receiver]
        /\ DepositFor(sender, ve, amount, [amount |-> amount, end |-> unlockTime])
        /\ UNCHANGED <<now, halted, attached, voted, shrunk>>

MutantDepositTwice(sender, ve, amount) ==
    /\ ~halted
    /\ Exists(ve)
    /\ Unexpired(ve)
    /\ DepositFor(sender, ve, amount, [locked[ve] EXCEPT !.amount = @ + 2 * amount])
    /\ UNCHANGED <<now, halted, nextVeID, owner, attached, voted, shrunk>>

\* Anybody may deposit into a lock.
Deposit(sender, ve, amount) ==
    /\ ~halted
    /\ Exists(ve)
    /\ Unexpired(ve)
    /\ DepositFor(sender, ve, amount, [locked[ve] EXCEPT !.amount = @ + amount])
    /\ UNCHANGED <<now, halted, nextVeID, owner, attached, voted, shrunk>>

ExtendTime(sender, ve, duration) ==
    LET unlockTime == RegulatedUnixTime(now + duration)
    IN  /\ ~halted
        /\ duration <= MaxLockTime
        /\ Exists(ve)
        /\ Unexpired(ve)
        /\ owner[ve] = sender
        /\ unlockTime > locked[ve].end
        /\ unlockTime <= now + MaxLockTime
        /\ DepositFor(sender, ve, 0, [locked[ve] EXCEPT !.end = unlockTime])
        /\ UNCHANGED <<now, halted, nextVeID, owner, attached, voted, shrunk>>

\* Expired locks merge too.  The coins stay in the module account, and
\* DepositFor adds the merged amount to the total a second time.
Merge(sender, from, to) ==
    LET old == locked[from]
        end == IF locked[to].end > old.end THEN locked[to].end ELSE old.end
        new == [amount |-> locked[to].amount + old.amount, end |-> end]
        c   == RegulateUserCheckpoint(Checkpoints, from, old, NewLockedBalance)
    IN  /\ ~halted
        /\ from # to
        /\ owner[from] = sender
        /\ owner[to] = sender
        /\ Unattached(from)
        /\ CanRegulate(old, NewLockedBalance)
        /\ CanRegulate(locked[to], new)
        /\ owner' = [owner EXCEPT ![from] = NoOne]
        /\ locked' = [locked EXCEPT ![from] = NewLockedBalance, ![to] = new]
        /\ totalLocked' = totalLocked + old.amount
        /\ SetCheckpoints(RegulateUserCheckpoint(c, to, locked[to], new))
        /\ shrunk' = (shrunk \/ Unexpired(from))
        /\ UNCHANGED <<now, halted, nextVeID, coins, moduleCoins, attached, voted>>

MutantWithdrawKeepsNft(sender, ve) ==
    LET old == locked[ve]
    IN  /\ ~halted
        /\ owner[ve] = sender
        /\ Unattached(ve)
        /\ old.end <= now
        /\ totalLocked >= old.amount
        /\ CanRegulate(old, NewLockedBalance)
        /\ locked' = [locked EXCEPT ![ve] = NewLockedBalance]
        /\ totalLocked' = totalLocked - old.amount
        /\ SetCheckpoints(RegulateUserCheckpoint(Checkpoints, ve, old, NewLockedBalance))
        /\ coins' = [coins EXCEPT ![sender] = @ + old.amount]
        /\ moduleCoins' = moduleCoins - old.amount
        /\ UNCHANGED <<now, halted, nextVeID, owner, attached, voted, shrunk>>

\* The delegated amount is not consulted: getDelegatedAmount is never set in
\* the keeper the message server holds.
Withdraw(sender, ve) ==
    LET old == locked[ve]
    IN  /\ ~halted
        /\ owner[ve] = sender
        /\ Unattached(ve)
        /\ old.end <= now
        /\ totalLocked >= old.amount
        /\ moduleCoins >= old.amount
        /\ CanRegulate(old, NewLockedBalance)
        /\ locked' = [locked EXCEPT ![ve] = NewLockedBalance]
        /\ totalLocked' = totalLocked - old.amount
        /\ SetCheckpoints(RegulateUserCheckpoint(Checkpoints, ve, old, NewLockedBalance))
        /\ owner' = [owner EXCEPT ![ve] = NoOne]
        /\ coins' = [coins EXCEPT ![sender] = @ + old.amount]
        /\ moduleCoins' = moduleCoins - old.amount
        /\ UNCHANGED <<now, halted, nextVeID, attached, voted, shrunk>>

MutantSendAnyway(sender, receiver, ve) ==
    /\ ~halted
    /\ owner[ve] = sender
    /\ owner' = [owner EXCEPT ![ve] = receiver]
    /\ UNCHANGED <<now, halted, nextVeID, locked, totalLocked, coins, moduleCoins,
                   checkpointVars, attached, voted, shrunk>>

\* The nft module's MsgSend, refused while the ve is attached or has voted.
Send(sender, receiver, ve) ==
    /\ ~halted
    /\ owner[ve] = sender
    /\ Unattached(ve)
    /\ owner' = [owner EXCEPT ![ve] = receiver]
    /\ UNCHANGED <<now, halted, nextVeID, locked, totalLocked, coins, moduleCoins,
                   checkpointVars, attached, voted, shrunk>>

-----------------------------------------------------------------------------
(* What the other modules call. *)

\* x/staking burns a slashed part of the coins a ve has delegated.  The code
\* checks neither that the ve exists nor that it has the amount: the caller
\* names a ve whose delegation it slashes, and at most what that delegation
\* is worth.
SlashLockedAmountByUser(ve, amount) ==
    LET old == locked[ve]
        new == [old EXCEPT !.amount = @ - amount]
    IN  /\ ~halted
        /\ Exists(ve)
        /\ amount <= old.amount
        /\ moduleCoins >= amount
        /\ CanRegulate(old, new)
        /\ moduleCoins' = moduleCoins - amount
        /\ totalLocked' = totalLocked - amount
        /\ locked' = [locked EXCEPT ![ve] = new]
        /\ SetCheckpoints(RegulateUserCheckpoint(Checkpoints, ve, old, new))
        /\ shrunk' = (shrunk \/ Unexpired(ve))
        /\ UNCHANGED <<now, halted, nextVeID, owner, coins, attached, voted>>

\* x/gauge attaches a ve to a gauge and detaches it.  The code does not look for
\* the ve: a gauge takes the deposit from its owner, so that there is one.
IncVeAttached(ve) ==
    /\ ~halted
    /\ Exists(ve)
    /\ attached[ve] < MaxAttached
    /\ attached' = [attached EXCEPT ![ve] = @ + 1]
    /\ UNCHANGED <<now, halted, lockVars, checkpointVars, voted, shrunk>>

DecVeAttached(ve) ==
    /\ ~halted
    /\ Exists(ve)
    /\ attached[ve] # 0
    /\ attached' = [attached EXCEPT ![ve] = @ - 1]
    /\ UNCHANGED <<now, halted, lockVars, checkpointVars, voted, shrunk>>

\* x/voter records that a ve has votes in use.  No message calls it yet; it is
\* taken to be called for ves that exist.
SetVeVoted(ve, v) ==
    /\ ~halted
    /\ Exists(ve)
    /\ voted' = [voted EXCEPT ![ve] = v]
    /\ UNCHANGED <<now, halted, lockVars, checkpointVars, attached, shrunk>>

-----------------------------------------------------------------------------
(* Blocks. *)

\* EndBlocker, then the next block begins gap seconds later.
EndBlock(gap) ==
    /\ ~halted
    /\ \/ /\ now - point.ts >= RegulatedPeriod
          /\ ~TwoRoundsReach(LastPoint, now)
          /\ halted' = TRUE
          /\ UNCHANGED <<now, point>>
       \/ /\ now + gap <= LastTime
          /\ now' = now + gap
          /\ IF now - point.ts >= RegulatedPeriod
             THEN /\ TwoRoundsReach(LastPoint, now)
                  /\ point' = regulateCheckpoint(LastPoint, slopeChange, 0, 0)
             ELSE UNCHANGED point
          /\ UNCHANGED halted
    /\ UNCHANGED <<lockVars, slopeChange, userPoint, attached, voted, shrunk>>

Init ==
    /\ now \in GenesisTimes
    /\ halted = FALSE
    /\ nextVeID = 1
    /\ owner = [ve \in VeIDs |-> NoOne]
    /\ locked = [ve \in VeIDs |-> NewLockedBalance]
    /\ totalLocked = 0
    /\ \E c \in InitialCoins : coins = [u \in Users |-> c]
    /\ moduleCoins = 0
    /\ point = ZeroPoint
    /\ slopeChange = [t \in Times |-> 0]
    /\ userPoint = [ve \in VeIDs |-> ZeroPoint]
    /\ attached = [ve \in VeIDs |-> 0]
    /\ voted = [ve \in VeIDs |-> FALSE]
    /\ shrunk = FALSE

Next ==
    \/ \E s, r \in Users, a \in Amounts, d \in Durations : Create(s, r, a, d)
    \/ \E s \in Users, ve \in VeIDs, a \in Amounts : Deposit(s, ve, a)
    \/ \E s \in Users, ve \in VeIDs, d \in Durations : ExtendTime(s, ve, d)
    \/ \E s \in Users, from, to \in VeIDs : Merge(s, from, to)
    \/ \E s \in Users, ve \in VeIDs : Withdraw(s, ve)
    \/ \E s, r \in Users, ve \in VeIDs : Send(s, r, ve)
    \/ \E ve \in VeIDs, a \in Amounts : SlashLockedAmountByUser(ve, a)
    \/ \E ve \in VeIDs : IncVeAttached(ve)
    \/ \E ve \in VeIDs : DecVeAttached(ve)
    \/ \E ve \in VeIDs, v \in BOOLEAN : SetVeVoted(ve, v)
    \/ \E gap \in Gaps : EndBlock(gap)

Spec == Init /\ [][Next]_vars

-----------------------------------------------------------------------------
(* Queries, at a time not before the newest checkpoint. *)

\* GetVotingPower of a ve at time t.
GetVotingPower(ve, t) ==
    LET p == userPoint[ve] IN NonNegative(p.bias - p.slope * (t - p.ts))

\* GetTotalVotingPower at time t: walks the schedule from the newest system
\* checkpoint, one regulated time after the other, without clamping.
GetTotalVotingPower(t) ==
    LET weeks == (t \div RegulatedPeriod) - (point.ts \div RegulatedPeriod)
        walk[i \in 0..weeks] ==
            IF i = 0 THEN point
            ELSE LET p  == walk[i - 1]
                     ti == RegulatedUnixTime(point.ts) + i * RegulatedPeriod
                 IN  [bias  |-> p.bias - p.slope * (ti - p.ts),
                      slope |-> p.slope + slopeChange[ti],
                      ts    |-> ti]
        last == walk[weeks]
    IN  NonNegative(last.bias - last.slope * (t - last.ts))

-----------------------------------------------------------------------------
(* Properties. *)

LockedSum == MapThenSumSet(LAMBDA ve : locked[ve].amount, VeIDs)

\* The state is well-formed: x/ve's stores hold values of their types, no
\* balance, amount, bias or slope is negative; unlocking times are regulated
\* and at most MaxLockTime away, after merges and extensions too
\* (regulateCheckpoint relies on the first).
TypeOK ==
    /\ now \in 0..LastTime
    /\ halted \in BOOLEAN
    /\ nextVeID \in 1..(MaxVeID + 1)
    /\ owner \in [VeIDs -> Users \union {NoOne}]
    /\ locked \in [VeIDs -> Lock]
    /\ totalLocked \in Nat
    /\ coins \in [Users -> Nat]
    /\ moduleCoins \in Nat
    /\ point \in Checkpoint
    /\ slopeChange \in [Times -> Int]
    /\ userPoint \in [VeIDs -> Checkpoint]
    /\ attached \in [VeIDs -> Nat]
    /\ voted \in [VeIDs -> BOOLEAN]
    /\ shrunk \in BOOLEAN
    /\ \A ve \in VeIDs : /\ Regulated(locked[ve].end)
                         /\ locked[ve].end <= now + MaxLockTime

\* The module account holds exactly the coins that the locks say it holds, so
\* a withdrawal can always be paid, whatever was merged or slashed before; and
\* the total never falls below that, so the panic "total locked negative" of
\* Withdraw cannot be reached, although Merge counts twice.
LocksBacked == moduleCoins = LockedSum /\ totalLocked >= LockedSum

\* The power a lock is entitled to at time t: slope times remaining time.
Entitled(l, t) == (l.amount \div MaxLockTime) * NonNegative(l.end - t)

\* The power stored for a ve, from now on, is the decayed power of its lock,
\* as the formula of x/ve/spec says: it reaches zero exactly at the
\* unlocking time, through every change of the lock.
UserPowerExact ==
    \A ve \in VeIDs : \A t \in now..LastTime :
        GetVotingPower(ve, t) = Entitled(locked[ve], t)

\* At every future time the schedule takes away exactly the slopes of the
\* locks that end then, after extensions, merges and slashes too.
ScheduleMatchesLocks ==
    \A t \in Times : t > now =>
        slopeChange[t] =
            -MapThenSumSet(LAMBDA ve : locked[ve].amount \div MaxLockTime,
                           {ve \in VeIDs : locked[ve].end = t})

\* Until a live lock is merged away or slashed, the total voting power at any
\* time from now on is the sum of the powers of all ves.
TotalPowerIsSum ==
    ~shrunk => \A t \in now..(LastTime + MaxLockTime) :
        GetTotalVotingPower(t) =
            MapThenSumSet(LAMBDA ve : Entitled(locked[ve], t), VeIDs)

\* While a ve is attached to a gauge or has voted, it keeps its owner: it is
\* neither sent, nor withdrawn, nor merged away.
AttachedStays ==
    [][\A ve \in VeIDs : Exists(ve) /\ ~Unattached(ve) => owner'[ve] = owner[ve]]_vars

\* x/ve keeps the promise of Escrow: as seen by their owners, the messages and
\* the calls of the other modules open, raise, prolong, join, hand over, cut
\* and close escrows, and nothing else moves a coin.
Promised == INSTANCE Escrow WITH
    Ids <- VeIDs, clock <- now, opened <- 1..(nextVeID - 1),
    holder <- owner, held <- locked, wallet <- coins

ImplementsEscrow == Promised!EscrowSpec

\* The comment of regulateCheckpoint: because EndBlocker regulates whenever a
\* regulated period has passed, the loop never needs a third round.
LoopWithinTwoRounds == ~halted
=============================================================================
