---------------------------- MODULE OracleProofs ----------------------------
(***************************************************************************)
(* x/oracle: what awaits a tally is fresh, and misses are of the current   *)
(* slash window, for every set of validators and denominations and every   *)
(* length of the periods, whatever staking does.                           *)
(***************************************************************************)
EXTENDS Oracle, TLAPS

-----------------------------------------------------------------------------
(* Vote periods. *)

LEMMA DivMod ==
    ASSUME NEW a \in Nat, NEW p \in Nat \ {0}
    PROVE  /\ a \div p \in Nat /\ a % p \in 0..(p - 1)
           /\ a = p * (a \div p) + (a % p)
BY SMTT(30)

LEMMA SamePeriod ==
    ASSUME NEW p \in Nat \ {0}, NEW q \in Int, NEW k \in Int,
           NEW r \in 0..(p - 1), NEW s \in 0..(p - 1),
           p * q + r = p * k + s
    PROVE  q = k
<1>1. p * (q - k) = s - r
  OBVIOUS
<1>2. CASE q - k >= 1
  <2>1. p * (q - k) >= p
    BY <1>2, SMTT(30)
  <2>2. QED
    BY <1>1, <2>1, SMTT(30)
<1>3. CASE q - k <= -1
  <2>1. p * (q - k) <= -p
    BY <1>3, SMTT(30)
  <2>2. QED
    BY <1>1, <2>1, SMTT(30)
<1>4. QED
  BY <1>2, <1>3, SMTT(30)

\* The block after h is in the period of h unless h is the last of it.
LEMMA NextBlock ==
    ASSUME NEW h \in Nat, NEW p \in Nat \ {0}
    PROVE  IF (h + 1) % p = 0 THEN (h + 1) \div p = (h \div p) + 1
           ELSE (h + 1) \div p = h \div p /\ (h + 1) % p = (h % p) + 1
<1> DEFINE q == h \div p
           r == h % p
           k == (h + 1) \div p
           s == (h + 1) % p
<1>1. /\ q \in Int /\ k \in Int /\ r \in 0..(p - 1) /\ s \in 0..(p - 1)
      /\ h = p * q + r /\ h + 1 = p * k + s
  BY DivMod, h + 1 \in Nat, SMTT(30)
<1> HIDE DEF q, r, k, s
<1>2. CASE r + 1 < p
  <2>1. p * q + (r + 1) = p * k + s /\ r + 1 \in 0..(p - 1)
    BY <1>1, <1>2, SMTT(30)
  <2>2. q = k
    BY <1>1, <2>1, SamePeriod, SMTT(30)
  <2>3. s = r + 1
    BY <1>1, <2>1, <2>2, SMTT(30)
  <2>4. QED
    BY <1>1, <2>2, <2>3, SMTT(30) DEF q, r, k, s
<1>3. CASE r + 1 = p
  <2>1. p * (q + 1) + 0 = p * k + s
    BY <1>1, <1>3, SMTT(30)
  <2>2. q + 1 = k
    BY <1>1, <2>1, SamePeriod, SMTT(30)
  <2>3. s = 0
    BY <1>1, <2>1, <2>2, SMTT(30)
  <2>4. QED
    BY <2>2, <2>3, Zenon DEF q, k, s
<1>4. QED
  BY <1>1, <1>2, <1>3, SMTT(30)

-----------------------------------------------------------------------------
(* The inductive invariant. *)

\* A stored vote has the block of its commitment, in the period before.
VotesCommitted ==
    /\ DOMAIN committed = DOMAIN vote
    /\ \A v \in DOMAIN vote : /\ committed[v] \in Nat
                              /\ committed[v] \div VotePeriod = (height \div VotePeriod) - 1

\* ClearBallots looks at a prevote once in a period only, so its age depends on
\* the position in the period.
PrevotesClearing ==
    \A v \in DOMAIN prevote :
        /\ prevote[v].submit \in Nat
        /\ height - prevote[v].submit <= VotePeriod + 1 + (height % VotePeriod)

Fresh == height \in Nat /\ VotesCommitted /\ PrevotesClearing

LEMMA InitFresh == Init => Fresh
BY DEF Init, Fresh, VotesCommitted, PrevotesClearing

\* A prevote is of this block.
LEMMA PrevoteFresh ==
    ASSUME Fresh, NEW v, NEW f, NEW c, AggregateExchangeRatePrevote(v, f, c)
    PROVE  Fresh'
<1>1. /\ prevote' = [u \in DOMAIN prevote \cup {v} |->
              IF u = v THEN [content |-> c, submit |-> height] ELSE prevote[u]]
      /\ UNCHANGED <<height, vote, committed>>
  BY Zenon DEF AggregateExchangeRatePrevote, Put, NewAggregateExchangeRatePrevote
<1>2. height % VotePeriod \in Nat /\ VotePeriod \in Nat
  BY OracleAssumption, DivMod, SMTT(30) DEF Fresh
<1>3. PrevotesClearing'
  BY <1>1, <1>2, SMTT(30) DEF Fresh, PrevotesClearing
<1>4. QED
  BY <1>1, <1>3, Zenon DEF Fresh, VotesCommitted

\* A vote reveals the prevote of the period before.
LEMMA VoteFresh ==
    ASSUME Fresh, NEW v, NEW f, NEW c, AggregateExchangeRateVote(v, f, c)
    PROVE  Fresh'
<1>1. /\ v \in DOMAIN prevote
      /\ (height \div VotePeriod) - (prevote[v].submit \div VotePeriod) = 1
      /\ vote' = [u \in DOMAIN vote \cup {v} |-> IF u = v THEN c ELSE vote[u]]
      /\ committed' = [u \in DOMAIN committed \cup {v} |->
              IF u = v THEN prevote[v].submit ELSE committed[u]]
      /\ prevote' = [u \in DOMAIN prevote \ {v} |-> prevote[u]]
      /\ height' = height
  BY Zenon DEF AggregateExchangeRateVote, RevealPeriod, Put, Delete, Restrict
<1>2. /\ height \div VotePeriod \in Nat
      /\ prevote[v].submit \in Nat /\ prevote[v].submit \div VotePeriod \in Nat
  BY <1>1, OracleAssumption, DivMod, ZenonT(30) DEF Fresh, PrevotesClearing
<1>3. VotesCommitted'
  BY <1>1, <1>2, SMTT(30) DEF Fresh, VotesCommitted
<1>4. PrevotesClearing'
  BY <1>1, Zenon DEF Fresh, PrevotesClearing
<1>5. QED
  BY <1>1, <1>3, <1>4, Zenon DEF Fresh

\* The end of a block clears at the end of a period, and else stays in it.
LEMMA EndBlockFresh ==
    ASSUME Fresh, NEW active, NEW removed, NEW order, EndBlock(active, removed, order)
    PROVE  Fresh'
<1>1. height' = height + 1 /\ height \in Nat
  BY Zenon DEF EndBlock, Fresh
<1>2. VotePeriod \in Nat \ {0} /\ height % VotePeriod \in Nat
  BY <1>1, OracleAssumption, DivMod, SMTT(30)
<1>3. CASE ~Tallies
  <2>1. UNCHANGED <<vote, committed, prevote>>
    BY <1>3, Zenon DEF EndBlock
  <2>2. /\ height' \div VotePeriod = height \div VotePeriod
        /\ height' % VotePeriod = (height % VotePeriod) + 1
    BY <1>1, <1>2, <1>3, NextBlock, ZenonT(30) DEF Tallies, IsPeriodLastBlock
  <2>3. VotesCommitted'
    BY <2>1, <2>2, Zenon DEF Fresh, VotesCommitted
  <2>4. PrevotesClearing'
    BY <1>1, <1>2, <2>1, <2>2, SMTT(30) DEF Fresh, PrevotesClearing
  <2>5. QED
    BY <1>1, <2>3, <2>4, SMTT(30) DEF Fresh
<1>4. CASE Tallies
  <2>1. /\ vote' = [u \in {} |-> vote[u]]
        /\ committed' = [u \in DOMAIN committed \ DOMAIN vote |-> committed[u]]
        /\ prevote' = [u \in DOMAIN prevote \ ClearedPrevotes |-> prevote[u]]
    BY <1>4, Zenon DEF EndBlock, ApplyTally, Delete, Restrict, ClearedVotes
  <2>2. height' % VotePeriod = 0
    BY <1>1, <1>4, Zenon DEF Tallies, IsPeriodLastBlock
  <2>3. VotesCommitted'
    BY <2>1, Zenon DEF Fresh, VotesCommitted
  <2>4. PrevotesClearing'
    <3>1. SUFFICES ASSUME NEW v \in DOMAIN prevote'
                   PROVE  /\ prevote'[v].submit \in Nat
                          /\ height' - prevote'[v].submit
                               <= VotePeriod + 1 + (height' % VotePeriod)
      BY DEF PrevotesClearing
    <3>2. /\ v \in DOMAIN prevote /\ v \notin ClearedPrevotes
          /\ prevote'[v] = prevote[v]
      BY <2>1, Zenon
    <3>3. prevote[v].submit \in Nat /\ ~(height > prevote[v].submit + VotePeriod)
      BY <3>2, SMTT(30) DEF Fresh, PrevotesClearing, ClearedPrevotes
    <3>4. QED
      BY <1>1, <1>2, <2>2, <3>2, <3>3, SMTT(30)
  <2>5. QED
    BY <1>1, <2>3, <2>4, SMTT(30) DEF Fresh
<1>5. QED
  BY <1>3, <1>4, Zenon

LEMMA NextFresh == Fresh /\ [Next]_vars => Fresh'
<1> SUFFICES ASSUME Fresh, [Next]_vars PROVE Fresh'
  OBVIOUS
<1>1. CASE UNCHANGED <<height, vote, committed, prevote>>
  BY <1>1, Zenon DEF Fresh, VotesCommitted, PrevotesClearing
<1>2. CASE \E v \in Validators, f \in Validators \cup Feeders, c \in Contents :
             AggregateExchangeRatePrevote(v, f, c) \/ AggregateExchangeRateVote(v, f, c)
  BY <1>2, PrevoteFresh, VoteFresh, SMTT(30)
<1>3. CASE \E active, removed \in SUBSET Validators : \E order \in Orders(active) :
             EndBlock(active, removed, order)
  BY <1>3, EndBlockFresh, Zenon
<1>4. QED
  BY <1>1, <1>2, <1>3, SMTT(30)
     DEF Next, vars, BlockEnds, Halt, DelegateFeedConsent, RegisterTarget, Unjail

\* The invariant is about two vote periods.
LEMMA FreshSuffices == Fresh => VotesFresh
<1> SUFFICES ASSUME Fresh PROVE VotesFresh
  OBVIOUS
<1>1. height % VotePeriod \in 0..(VotePeriod - 1) /\ VotePeriod \in Nat /\ height \in Nat
  BY OracleAssumption, DivMod, Zenon DEF Fresh
<1>2. \A v \in DOMAIN prevote : height - prevote[v].submit <= 2 * VotePeriod
  BY <1>1, SMTT(30) DEF Fresh, PrevotesClearing
<1>3. QED
  BY <1>2, Zenon DEF Fresh, VotesCommitted, VotesFresh

\* Whatever is voted, whoever is active, jailed or removed, and whatever the
\* lengths of the vote period and of the slash window: a vote that is tallied was
\* committed to in the period before, before any rate of its own period could be
\* seen, and no prevote is older than two periods.
THEOREM VotesStayFresh == Spec => []VotesFresh
<1>1. QED
  BY InitFresh, NextFresh, FreshSuffices, PTL DEF Spec

-----------------------------------------------------------------------------
(* Miss counters. *)

\* The first block of the slash window, and the periods that ended in it.
WindowStart == height - (height % SlashWindow)
PeriodsEnded == (height \div VotePeriod) - (WindowStart \div VotePeriod)

Misses ==
    /\ height \in Nat
    /\ missCounter \in [Validators -> Nat]
    /\ \A v \in Validators : missCounter[v] <= PeriodsEnded

LEMMA WindowTypes ==
    ASSUME height \in Nat
    PROVE  WindowStart \in Nat /\ PeriodsEnded \in Int
<1>1. SlashWindow \in Nat \ {0} /\ VotePeriod \in Nat \ {0}
  BY OracleAssumption, SMTT(30)
<1>2. height % SlashWindow \in 0..(SlashWindow - 1) /\ height \div SlashWindow \in Nat
      /\ height = SlashWindow * (height \div SlashWindow) + (height % SlashWindow)
  BY <1>1, DivMod, ZenonT(30)
<1>3. WindowStart \in Nat
  <2>1. SlashWindow * (height \div SlashWindow) \in Nat
    BY <1>1, <1>2, SMTT(30)
  <2>2. QED
    BY <1>2, <2>1, SMTT(30) DEF WindowStart
<1>4. QED
  BY <1>1, <1>3, DivMod, SMTT(30) DEF PeriodsEnded

\* A tally adds at most one miss per validator.
LEMMA CountedOnce ==
    ASSUME Misses, NEW active, NEW tally
    PROVE  /\ Counted(active, tally) \in [Validators -> Nat]
           /\ \A v \in Validators : Counted(active, tally)[v] <= missCounter[v] + 1
BY SMTT(30) DEF Misses, Counted

LEMMA EndBlockMisses ==
    ASSUME Misses, NEW active, NEW removed, NEW order, EndBlock(active, removed, order)
    PROVE  Misses'
<1> DEFINE counters == IF Tallies THEN Counted(active, Tally(active, order)) ELSE missCounter
           more == IF Tallies THEN 1 ELSE 0
<1>1. /\ height' = height + 1 /\ height \in Nat
      /\ missCounter' = IF Slashes THEN [v \in Validators |-> 0] ELSE counters
  BY Zenon DEF EndBlock, Misses, ResetMissCounters
<1>2. /\ counters \in [Validators -> Nat]
      /\ \A v \in Validators : counters[v] <= missCounter[v] + more
  BY CountedOnce, SMTT(30) DEF Misses
<1>3. SlashWindow \in Nat \ {0} /\ VotePeriod \in Nat \ {0}
  BY OracleAssumption, SMTT(30)
<1>4. /\ IF (height + 1) % VotePeriod = 0
         THEN (height + 1) \div VotePeriod = height \div VotePeriod + 1
         ELSE (height + 1) \div VotePeriod = height \div VotePeriod
      /\ (height + 1) % SlashWindow # 0 => (height + 1) % SlashWindow = (height % SlashWindow) + 1
  <2>1. \A p \in Nat \ {0} : IF (height + 1) % p = 0
            THEN (height + 1) \div p = height \div p + 1
            ELSE (height + 1) \div p = height \div p /\ (height + 1) % p = (height % p) + 1
    BY <1>1, NextBlock, Zenon
  <2>2. QED
    BY <1>3, <2>1, Zenon
<1>5. /\ height \div VotePeriod \in Nat /\ height % SlashWindow \in Nat
  BY <1>1, <1>3, DivMod, SMTT(30)
<1>6. WindowStart \in Nat /\ PeriodsEnded \in Int
  BY <1>1, WindowTypes, Zenon
<1>7. WindowStart \div VotePeriod \in Nat
  BY <1>3, <1>6, DivMod, SMTT(30)
<1>8. more \in 0..1 /\ height' \div VotePeriod = height \div VotePeriod + more
  <2>1. CASE Tallies
    BY <1>1, <1>4, <2>1, SMTT(30) DEF Tallies, IsPeriodLastBlock
  <2>2. CASE ~Tallies
    BY <1>1, <1>4, <1>5, <2>2, SMTT(30) DEF Tallies, IsPeriodLastBlock
  <2>3. QED
    BY <2>1, <2>2, Zenon
<1> HIDE DEF counters, more
<1>9. CASE Slashes
  <2>1. height' % SlashWindow = 0
    BY <1>1, <1>9, Zenon DEF Slashes, IsPeriodLastBlock
  <2>2. WindowStart' = height'
    BY <1>1, <2>1, SMTT(30) DEF WindowStart
  <2>3. PeriodsEnded' = 0
    <3>1. height' \div VotePeriod \in Int
      BY <1>5, <1>8, SMTT(30)
    <3>2. PeriodsEnded' = (height' \div VotePeriod) - (height' \div VotePeriod)
      BY <2>2, Zenon DEF PeriodsEnded
    <3>3. \A x \in Int : x - x = 0
      OBVIOUS
    <3>4. QED
      BY <3>1, <3>2, <3>3, Zenon
  <2>4. QED
    BY <1>1, <1>9, <2>3, SMTT(30) DEF Misses
<1>10. CASE ~Slashes
  <2>1. height' % SlashWindow = (height % SlashWindow) + 1
    BY <1>1, <1>4, <1>10, Zenon DEF Slashes, IsPeriodLastBlock
  <2>2. WindowStart' = WindowStart
    BY <1>1, <1>5, <2>1, SMTT(30) DEF WindowStart
  <2>3. PeriodsEnded' = PeriodsEnded + more
    <3>1. PeriodsEnded' = ((height \div VotePeriod) + more) - (WindowStart \div VotePeriod)
      BY <1>8, <2>2, Zenon DEF PeriodsEnded
    <3>2. /\ height \div VotePeriod \in Int /\ WindowStart \div VotePeriod \in Int
          /\ more \in Int
      BY <1>5, <1>7, <1>8, SMTT(30)
    <3>3. \A x, y, z \in Int : (x + z) - y = (x - y) + z
      OBVIOUS
    <3>4. QED
      BY <3>1, <3>2, <3>3, Zenon DEF PeriodsEnded
  <2>4. QED
    BY <1>1, <1>2, <1>6, <1>8, <1>10, <2>3, SMTT(30) DEF Misses
<1>11. QED
  BY <1>9, <1>10, Zenon

LEMMA NextMisses == Misses /\ [Next]_vars => Misses'
<1> SUFFICES ASSUME Misses, [Next]_vars PROVE Misses'
  OBVIOUS
<1>1. CASE UNCHANGED <<height, missCounter>>
  BY <1>1, Zenon DEF Misses, PeriodsEnded, WindowStart
<1>2. CASE \E active, removed \in SUBSET Validators : \E order \in Orders(active) :
             EndBlock(active, removed, order)
  BY <1>2, EndBlockMisses, Zenon
<1>3. QED
  BY <1>1, <1>2, Zenon
     DEF Next, vars, BlockEnds, Halt, DelegateFeedConsent, RegisterTarget, Unjail,
         AggregateExchangeRatePrevote, AggregateExchangeRateVote

LEMMA InitMisses == Init => Misses
<1> SUFFICES ASSUME Init PROVE Misses
  OBVIOUS
<1>1. height = 1 /\ missCounter = [v \in Validators |-> 0]
  BY Zenon DEF Init
<1>2. /\ SlashWindow \in Nat \ {0} /\ VotePeriod \in Nat \ {0}
      /\ SlashWindow >= VotePeriod
  BY OracleAssumption, SMTT(30)
<1>3. PeriodsEnded >= 0
  <2>1. CASE SlashWindow = 1
    BY <1>1, <1>2, <2>1, SMTT(30) DEF PeriodsEnded, WindowStart
  <2>2. CASE SlashWindow > 1
    <3>1. 1 % SlashWindow = 1
      BY <1>2, <2>2, SMTT(30)
    <3>2. 0 \div VotePeriod = 0 /\ 1 \div VotePeriod \in Nat
      BY <1>2, DivMod, SMTT(30)
    <3>3. QED
      BY <1>1, <3>1, <3>2, SMTT(30) DEF PeriodsEnded, WindowStart
  <2>3. QED
    BY <1>2, <2>1, <2>2, SMTT(30)
<1>4. QED
  BY <1>1, <1>3, WindowTypes, SMTT(30) DEF Misses

\* For every vote period and slash window, also one that is no multiple of the
\* period: a miss counter never exceeds the periods that ended in the window.
THEOREM MissesStayInWindow == Spec => []MissesOfThisWindow
<1>1. Misses => MissesOfThisWindow
  BY Zenon DEF Misses, MissesOfThisWindow, PeriodsEnded, WindowStart
<1>2. QED
  BY <1>1, InitMisses, NextMisses, PTL DEF Spec
=============================================================================
