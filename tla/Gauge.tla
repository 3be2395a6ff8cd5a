------------------------------- MODULE Gauge --------------------------------
(***************************************************************************)
(* x/gauge: one gauge.  Ves deposit coins of its denomination and hold     *)
(* tickets for them, more when they have voting power; a reward of another *)
(* denomination is paid out over a period in proportion to the tickets.    *)
(* What a ve earned is worked out at its claim from three histories of     *)
(* checkpoints: of all tickets, of the ve's tickets and of the reward per  *)
(* ticket.                                                                 *)
(*                                                                         *)
(* Where the code reads checkpoint 0, or any other that was never written, *)
(* its amount is nil and the next use of it panics: Nil below is a guard   *)
(* that keeps the action from happening.                                   *)
(***************************************************************************)
EXTENDS Integers, Sequences, SequencesExt, FiniteSetsExt

CONSTANTS
    Ves,            \* positive integers: 0 is EmptyVeID
    Owners,
    Period          \* vetypes.RegulatedPeriod

VARIABLES
    now,
    owner,          \* the owner of each ve, in the nft module
    attached,       \* x/ve: how often the ve is attached
    userVe,         \* UserVeIDByAddress: the ve through which an owner deposits
    deposited, totalDeposited, derived, totalDerived,
    points, userPoints, rewardPoints,  \* checkpoints, the first at index 1
    reward,         \* rate, finish, last update and cumulative reward per ticket
    pool,           \* the reward coins in the escrow account
    rewarded        \* the reward coins deposited so far (history)

bookVars == <<attached, userVe, deposited, totalDeposited>>
ticketVars == <<derived, totalDerived, points, userPoints>>
rewardVars == <<reward, rewardPoints, pool, rewarded>>
gaugeVars == <<now, owner, bookVars, ticketVars, rewardVars>>

None == 0
Larger(a, b) == IF a > b THEN a ELSE b
Smaller(a, b) == IF a < b THEN a ELSE b

GaugeInit ==
    /\ now = 1
    /\ owner \in [Ves -> Owners]
    /\ attached = [v \in Ves |-> 0]
    /\ userVe = [o \in Owners |-> None]
    /\ deposited = [v \in Ves |-> 0]
    /\ totalDeposited = 0
    /\ derived = [v \in Ves |-> 0]
    /\ totalDerived = 0
    /\ points = <<>>
    /\ userPoints = [v \in Ves |-> <<>>]
    /\ rewardPoints = <<>>
    /\ reward = [rate |-> 0, finish |-> 0, last |-> 0, cumulative |-> 0]
    /\ pool = 0
    /\ rewarded = 0
-----------------------------------------------------------------------------
(* Checkpoints. *)

\* Mutant: every write is a new checkpoint.
MutantAlwaysAppend(history, amount, time) ==
    Append(history, [amount |-> amount, time |-> time])

\* writeCheckpoint and its two siblings: one checkpoint per time.
Write(history, amount, time) ==
    LET point == [amount |-> amount, time |-> time]
    IN  IF history # <<>> /\ Last(history).time = time
        THEN [history EXCEPT ![Len(history)] = point]
        ELSE Append(history, point)

\* findPriorEpoch: the last checkpoint not after time, by bisection; 0 if there is
\* none.
FindPriorEpoch(history, time) ==
    LET n == Len(history)
        search[lower \in 0 .. n, upper \in 0 .. n] ==
            IF upper <= lower THEN lower
            ELSE LET mid == (lower + upper + 1) \div 2
                     at == history[mid].time
                 IN  CASE at = time -> mid
                       [] at < time -> search[mid, upper]
                       [] at > time -> search[lower, mid - 1]
    IN  CASE n = 0 -> 0
          [] n > 0 /\ history[n].time <= time -> n
          [] n > 0 /\ history[n].time > time /\ history[1].time > time -> 0
          [] OTHER -> search[0, n]
-----------------------------------------------------------------------------
(* The reward per ticket. *)

\* calculateRewardPerTicket of the time from time0 to time1 that is after start.
PerTicket(time0, time1, start, tickets) ==
    LET from == Smaller(Larger(time0, start), reward.finish)
        to == Smaller(Larger(time1, start), reward.finish)
    IN  (reward.rate * (to - from)) \div tickets

\* updateRewardPerTicket: the reward of each interval between checkpoints since the
\* last update, but for the interval before the latest checkpoint, and of the time
\* since that checkpoint.
NilAtUpdate ==
    /\ Len(points) > 1
    /\ reward.rate > 0
    /\ FindPriorEpoch(points, reward.last) = 0

UpdatedReward ==
    LET n == Len(points)
        accrue(state, i) ==
            IF points[i].amount = 0 THEN state
            ELSE LET end == Larger(points[i+1].time, state.last)
                     sum == state.cumulative
                            + PerTicket(points[i].time, points[i+1].time,
                                        state.last, points[i].amount)
                 IN  [last |-> end, cumulative |-> sum,
                      written |-> Write(state.written, sum, end)]
        first == FindPriorEpoch(points, reward.last)
        before == FoldLeft(accrue,
            [last |-> reward.last, cumulative |-> reward.cumulative,
             written |-> rewardPoints],
            [k \in 1 .. Larger(n - 1 - first, 0) |-> first + k - 1])
        latest == before.cumulative
                  + PerTicket(Larger(points[n].time, before.last),
                              Smaller(now, reward.finish), before.last, points[n].amount)
    IN  CASE n = 0 -> [last |-> reward.last, cumulative |-> reward.cumulative,
                       written |-> rewardPoints]
          [] n > 0 /\ reward.rate = 0 ->
                [last |-> now, cumulative |-> reward.cumulative, written |-> rewardPoints]
          [] n > 0 /\ reward.rate > 0 /\ points[n].amount = 0 -> before
          [] OTHER -> [last |-> now, cumulative |-> latest,
                       written |-> Write(before.written, latest, now)]
-----------------------------------------------------------------------------
(* Tickets. *)

\* deriveAmountForUser: two fifths of the deposit, and up to all of it for the
\* voting power of the ve.  It takes deposited and totalDeposited as the caller has
\* just written them.
DerivedTickets(ve, share) ==
    LET boost == IF share[2] > 0
                 THEN (((totalDeposited' * share[1]) \div share[2]) * 60) \div 100
                 ELSE 0
    IN  Smaller((deposited'[ve] * 40) \div 100 + boost, deposited'[ve])

DeriveAmountForUser(ve, share) ==
    LET tickets == DerivedTickets(ve, share)
    IN  /\ derived' = [derived EXCEPT ![ve] = tickets]
        /\ totalDerived' = totalDerived - derived[ve] + tickets
        /\ userPoints' = [userPoints EXCEPT ![ve] = Write(@, tickets, now)]
        /\ points' = Write(points, totalDerived', now)
-----------------------------------------------------------------------------
(* The operations of the gauge. *)

\* Mutant: every deposit attaches the ve.
MutantAttachAlways(ve, amount, share) ==
    /\ deposited' = [deposited EXCEPT ![ve] = @ + amount]
    /\ totalDeposited' = totalDeposited + amount
    /\ userVe' = [userVe EXCEPT ![owner[ve]] = ve]
    /\ attached' = [attached EXCEPT ![ve] = @ + 1]
    /\ DeriveAmountForUser(ve, share)
    /\ UNCHANGED <<now, owner, rewardVars>>

\* The first ve through which an owner deposits is attached.
Deposit(ve, amount, share) ==
    LET o == owner[ve]
        first == userVe[o] = None
    IN  /\ deposited' = [deposited EXCEPT ![ve] = @ + amount]
        /\ totalDeposited' = totalDeposited + amount
        /\ userVe' = IF first THEN [userVe EXCEPT ![o] = ve] ELSE userVe
        /\ attached' = IF first THEN [attached EXCEPT ![ve] = @ + 1] ELSE attached
        /\ DeriveAmountForUser(ve, share)
        /\ UNCHANGED <<now, owner, rewardVars>>

\* To withdraw all of a deposit detaches the ve; DecVeAttached panics when it is not
\* attached.
Withdraw(ve, amount, share) ==
    /\ amount <= deposited[ve]
    /\ deposited' = [deposited EXCEPT ![ve] = @ - amount]
    /\ totalDeposited' = totalDeposited - amount
    /\ \/ /\ amount < deposited[ve]
          /\ UNCHANGED <<userVe, attached>>
       \/ /\ amount = deposited[ve]
          /\ attached[ve] > 0
          /\ userVe' = [userVe EXCEPT ![owner[ve]] = None]
          /\ attached' = [attached EXCEPT ![ve] = @ - 1]
    /\ DeriveAmountForUser(ve, share)
    /\ UNCHANGED <<now, owner, rewardVars>>

\* depositReward: what is left of the current reward is added to the new one, which
\* must be more.
DepositReward(amount) ==
    LET written == IF reward.rate = 0 THEN Write(rewardPoints, 0, now) ELSE rewardPoints
        updated == UpdatedReward
        remaining == IF reward.finish > now THEN reward.rate * (reward.finish - now) ELSE 0
        sum == amount + remaining
    IN  /\ ~NilAtUpdate
        /\ amount > remaining
        /\ sum \div Period > 0
        /\ pool + amount >= sum
        /\ reward' = [rate |-> sum \div Period, finish |-> now + Period,
                      last |-> updated.last, cumulative |-> updated.cumulative]
        /\ rewardPoints' = IF reward.rate = 0 THEN written ELSE updated.written
        /\ pool' = pool + amount
        /\ rewarded' = rewarded + amount
        /\ UNCHANGED <<now, owner, bookVars, ticketVars>>

\* userReward, once the reward has been updated to u.  The last claim is never
\* saved, so every claim starts from the first reward checkpoint; the interval before
\* the ve's latest checkpoint is left out.
ClaimedEpochs(u, ve) ==
    FindPriorEpoch(userPoints[ve], IF u.written = <<>> THEN 0 ELSE u.written[1].time)
        .. Len(userPoints[ve]) - 2

NilAtClaim(u, ve) ==
    LET history == userPoints[ve]
        known(i) == i > 0 /\ FindPriorEpoch(u.written, history[i].time) > 0
    IN  \/ ~known(Len(history))
        \/ \E i \in ClaimedEpochs(u, ve) : ~known(i) \/ ~known(i + 1)

\* Mutant: the latest interval is paid from the beginning.
MutantPayFromStart(u, ve) ==
    userPoints[ve][Len(userPoints[ve])].amount * u.cumulative

UserReward(u, ve) ==
    LET history == userPoints[ve]
        n == Len(history)
        perTicketAt(time) == u.written[FindPriorEpoch(u.written, time)].amount
        perTicketNow == IF totalDerived = 0 THEN u.cumulative
                        ELSE u.cumulative
                             + (reward.rate * (Smaller(now, reward.finish)
                                   - Smaller(u.last, reward.finish))) \div totalDerived
        past(i) == history[i].amount
                   * (perTicketAt(history[i+1].time) - perTicketAt(history[i].time))
    IN  MapThenSumSet(past, ClaimedEpochs(u, ve))
        + history[n].amount * (perTicketNow - perTicketAt(history[n].time))

\* claimReward of one reward denomination.
ClaimReward(ve, share) ==
    /\ UNCHANGED <<now, owner, bookVars, rewarded>>
    /\ \/ /\ reward.rate = 0
          /\ UNCHANGED <<reward, rewardPoints, pool>>
       \/ /\ reward.rate > 0
          /\ ~NilAtUpdate
          /\ LET u == UpdatedReward
             IN  /\ reward' = [reward EXCEPT !.last = u.last, !.cumulative = u.cumulative]
                 /\ rewardPoints' = u.written
                 /\ \/ userPoints[ve] = <<>> /\ UNCHANGED pool
                    \/ /\ userPoints[ve] # <<>>
                       /\ ~NilAtClaim(u, ve)
                       /\ UserReward(u, ve) <= pool
                       /\ pool' = pool - Larger(UserReward(u, ve), 0)
    /\ DeriveAmountForUser(ve, share)

\* The nft module: a ve that is attached or has voted stays with its owner.
Transfer(ve, to) ==
    /\ attached[ve] = 0
    /\ owner' = [owner EXCEPT ![ve] = to]
    /\ UNCHANGED <<now, bookVars, ticketVars, rewardVars>>

Tick ==
    /\ now' = now + 1
    /\ UNCHANGED <<owner, bookVars, ticketVars, rewardVars>>
=============================================================================
