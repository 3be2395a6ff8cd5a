------------------------------ MODULE VeHistory -----------------------------
(***************************************************************************)
(* x/ve with the checkpoints it keeps, and the queries about the past that *)
(* read them: what power a ve, or all ves together, had at a time or at a  *)
(* block.  x/staking, x/gauge and x/voter ask for the present, the reward  *)
(* distribution and the gRPC queries for the past.                         *)
(*                                                                         *)
(* Messages of one block write several checkpoints with the same time and  *)
(* block.  The searches find the last of them and compare only the block   *)
(* of the others, so a history keeps one checkpoint per block time.        *)
(***************************************************************************)
EXTENDS Ve, Sequences

CONSTANTS
    Precision,    \* of sdk.Dec
    Scenarios     \* the users who act, their coins and amounts, whether ves are
                  \* attached and vote, and whether the checkpoints are recorded

VARIABLES
    scenario,
    height,       \* the block height
    points,       \* the system checkpoints from epoch 1
    userPoints,   \* the checkpoints of each ve from user epoch 1
    past          \* history: the locks of the ves at each time that is over

historyVars == <<height, points, userPoints, past>>
hvars == <<vars, scenario, historyVars>>

HistoryInit ==
    /\ Init
    /\ scenario \in Scenarios
    /\ \A u \in Users : coins[u] = scenario.coins
    /\ height = 1
    /\ points = <<>>
    /\ userPoints = [ve \in VeIDs |-> <<>>]
    /\ past = <<>>
-----------------------------------------------------------------------------
(* What regulateCheckpoint and RegulateUserCheckpoint write. *)

Stored(p, block) == [bias |-> p.bias, slope |-> p.slope, ts |-> p.ts, block |-> block]

Put(history, p) ==
    IF history # <<>> /\ history[Len(history)].ts = p.ts
    THEN [history EXCEPT ![Len(history)] = p]
    ELSE Append(history, p)

\* The block of a checkpoint between two blocks: blockSlope is a truncated Dec.
BlockAt(t) ==
    LET last == points[Len(points)]
        blockSlope == ((height - last.block) * Precision) \div (now - last.ts)
    IN  last.block + (blockSlope * (t - last.ts)) \div Precision

\* The checkpoint of the first round, when there are two.
WithRound ==
    LET t == NextRegulatedUnixTime(LastPoint.ts)
    IN  IF points # <<>> /\ t < now
        THEN Put(points, Stored(DecayTo(LastPoint, t, slopeChange[t]), BlockAt(t)))
        ELSE points

RecordSystem == points' = Put(WithRound, Stored(point', height))

RecordUsers(V) ==
    userPoints' = [ve \in VeIDs |->
        IF ve \in V THEN Put(userPoints[ve], Stored(userPoint'[ve], height))
        ELSE userPoints[ve]]

\* A message that regulates the checkpoints of the ves V.
Recorded(V) ==
    /\ IF scenario.record THEN RecordSystem /\ RecordUsers(V)
       ELSE UNCHANGED <<points, userPoints>>
    /\ UNCHANGED <<scenario, height, past>>

\* A block ends; past remembers the locks at the seconds until the next one.
RecordedBlock(gap) ==
    /\ EndBlock(gap)
    /\ height' = IF scenario.record /\ ~halted' THEN height + 1 ELSE height
    /\ IF scenario.record /\ point' # point THEN RecordSystem ELSE UNCHANGED points
    /\ past' = IF scenario.record /\ ~halted'
               THEN [t \in DOMAIN past \cup now .. now' - 1 |->
                        IF t \in DOMAIN past THEN past[t] ELSE locked]
               ELSE past
    /\ UNCHANGED <<scenario, userPoints>>

HistoryNext ==
    \/ \E s \in scenario.users :
        \/ \E r \in scenario.users, a \in scenario.amounts, d \in Durations :
            Create(s, r, a, d) /\ Recorded({nextVeID})
        \/ \E ve \in VeIDs :
            \/ \E a \in scenario.amounts : Deposit(s, ve, a) /\ Recorded({ve})
            \/ \E d \in Durations : ExtendTime(s, ve, d) /\ Recorded({ve})
            \/ \E to \in VeIDs : Merge(s, ve, to) /\ Recorded({ve, to})
            \/ Withdraw(s, ve) /\ Recorded({ve})
            \/ \E r \in scenario.users :
                Send(s, r, ve) /\ UNCHANGED <<scenario, historyVars>>
    \/ \E ve \in VeIDs, a \in scenario.amounts : SlashLockedAmountByUser(ve, a) /\ Recorded({ve})
    \/ /\ scenario.attach
       /\ \E ve \in VeIDs :
            IncVeAttached(ve) \/ DecVeAttached(ve) \/ \E v \in BOOLEAN : SetVeVoted(ve, v)
       /\ UNCHANGED <<scenario, historyVars>>
    \/ \E gap \in Gaps : RecordedBlock(gap)

HistorySpec == HistoryInit /\ [][HistoryNext]_hvars
-----------------------------------------------------------------------------
(* Queries. *)

NoPoint == [bias |-> 0, slope |-> 0, ts |-> 0, block |-> 0]
At(history, epoch) == IF epoch = 0 THEN NoPoint ELSE history[epoch]

MutantFindFirst(keys, x) ==
    LET n == Len(keys)
        search[min \in 0 .. n, max \in 0 .. n] ==
            IF min >= max THEN min
            ELSE LET mid == (min + max + 1) \div 2
                 IN  IF keys[mid] < x THEN search[mid, max] ELSE search[min, mid - 1]
    IN  search[0, n]

\* findTimeEpoch and findBlockEpoch: the last checkpoint whose key, its time or its
\* block, is at most x.
FindEpoch(keys, x) ==
    LET n == Len(keys)
        search[min \in 0 .. n, max \in 0 .. n] ==
            IF min >= max THEN min
            ELSE LET mid == (min + max + 1) \div 2
                 IN  IF keys[mid] <= x THEN search[mid, max] ELSE search[min, mid - 1]
    IN  search[0, n]

TimesOf(history) == [i \in 1 .. Len(history) |-> history[i].ts]
BlocksOf(history) == [i \in 1 .. Len(history) |-> history[i].block]

PowerAfter(p, dt) == NonNegative(p.bias - p.slope * dt)

\* GetTotalVotingPower at a time not after the newest checkpoint.  Between two
\* checkpoints of the same block the power is not decayed.
PastTotalVotingPower(t) ==
    LET epoch == FindEpoch(TimesOf(points), t)
        p == At(points, epoch)
        nextBlock == IF epoch < Len(points) THEN points[epoch + 1].block ELSE height
    IN  PowerAfter(p, IF p.block # nextBlock THEN t - p.ts ELSE 0)

\* GetTotalVotingPower: later times follow the schedule.
TotalVotingPowerAt(t) ==
    IF t <= point.ts THEN PastTotalVotingPower(t) ELSE GetTotalVotingPower(t)

\* GetVotingPower of a ve at a time.
VotingPowerAt(ve, t) ==
    LET p == At(userPoints[ve], FindEpoch(TimesOf(userPoints[ve]), t))
    IN  PowerAfter(p, t - p.ts)

\* GetVotingPower at a block: the time of the block is interpolated between the
\* system checkpoints around it.
BlockTimestamp(block) ==
    LET epoch == FindEpoch(BlocksOf(points), block)
        p == At(points, epoch)
        dt == CASE epoch < Len(points) /\ p.block # points[epoch + 1].block ->
                    ((block - p.block) * (points[epoch + 1].ts - p.ts))
                        \div (points[epoch + 1].block - p.block)
                [] epoch = Len(points) /\ p.block # height ->
                    ((block - p.block) * (now - p.ts)) \div (height - p.block)
                [] OTHER -> 0
    IN  p.ts + dt

\* GetTotalVotingPower at a block: the checkpoint decayed to the same interpolated
\* time, without the slope changes that may lie in between.
TotalVotingPowerAtBlock(block) ==
    LET p == At(points, FindEpoch(BlocksOf(points), block))
    IN  PowerAfter(p, BlockTimestamp(block) - p.ts)

UserPointAtBlock(ve, block) == At(userPoints[ve], FindEpoch(BlocksOf(userPoints[ve]), block))

VotingPowerAtBlock(ve, block) ==
    LET p == UserPointAtBlock(ve, block)
    IN  PowerAfter(p, BlockTimestamp(block) - p.ts)
-----------------------------------------------------------------------------
(* Properties. *)

\* Powers of the past are found as they were.  For every time that is over, the
\* power of a ve is what its lock of that time was entitled to; the total is the
\* sum of them at the regulated times, and never less at the others, where the
\* block a checkpoint is given may hide that time has passed.  The power at a
\* block is the power at an interpolated time, which is not before the checkpoint
\* it is measured from and is the present at the present block; there the total
\* is at most what the schedule gives (GetVotingPower, GetTotalVotingPower,
\* findTimeEpoch, findBlockEpoch).
PastPowersFound ==
    scenario.record =>
        /\ \A t \in DOMAIN past : \A ve \in VeIDs :
            VotingPowerAt(ve, t) = Entitled(past[t][ve], t)
        /\ ~shrunk => \A t \in DOMAIN past :
            LET sum == MapThenSumSet(LAMBDA ve : Entitled(past[t][ve], t), VeIDs)
            IN  IF Regulated(t) THEN TotalVotingPowerAt(t) = sum
                ELSE TotalVotingPowerAt(t) >= sum
        /\ \A ve \in VeIDs :
            /\ VotingPowerAtBlock(ve, height) = VotingPowerAt(ve, now)
            /\ \A b \in 1 .. height :
                BlockTimestamp(b) \in UserPointAtBlock(ve, b).ts .. now
        /\ TotalVotingPowerAtBlock(height) <= TotalVotingPowerAt(now)
=============================================================================
