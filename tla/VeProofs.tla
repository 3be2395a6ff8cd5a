------------------------------ MODULE VeProofs ------------------------------
(***************************************************************************)
(* x/ve implements Escrow, for all users, ves, amounts and times: the      *)
(* refinement the run of MCVe checks on a small instance.                  *)
(***************************************************************************)
EXTENDS Ve, TLAPS

\* What the steps need to know of the state: the types of the lock records and
\* of the balances, and that ids are given out in order.
LockTypes ==
    /\ now \in 0..LastTime
    /\ nextVeID \in Nat \ {0}
    /\ owner \in [VeIDs -> Users \union {NoOne}]
    /\ locked \in [VeIDs -> [amount : Nat, end : Nat]]
    /\ coins \in [Users -> Nat]

\* The variables the steps of Escrow are about.
escrowed == <<now, nextVeID, owner, locked, coins>>

\* A step that leaves them alone maps to a stuttering step.
LEMMA NothingMoved ==
    ASSUME LockTypes, UNCHANGED escrowed
    PROVE  LockTypes' /\ UNCHANGED Promised!escrowVars
BY DEF LockTypes, escrowed, Promised!escrowVars

\* An unlocking time is an integer.
LEMMA RegulatedInt ==
    ASSUME NEW t \in Nat
    PROVE  RegulatedUnixTime(t) \in Int
BY VeAssumption DEF RegulatedUnixTime

\* Create opens an escrow under an id that was never used.
LEMMA CreateStep ==
    ASSUME LockTypes, NEW s \in Users, NEW r \in Users, NEW a \in Amounts,
           NEW d \in Durations, Create(s, r, a, d)
    PROVE  LockTypes' /\ Promised!EscrowNext
<1> DEFINE end == RegulatedUnixTime(now + d)
<1>1. /\ now \in Nat /\ d \in Nat /\ a \in Nat /\ LastTime \in Nat /\ MaxLockTime \in Nat
      /\ now <= LastTime
  BY VeAssumption DEF LockTypes
<1>2. end \in Int
  BY <1>1, RegulatedInt
<1>3. /\ end > now /\ end <= now + MaxLockTime
      /\ nextVeID \in VeIDs
      /\ a <= coins[s]
      /\ nextVeID' = nextVeID + 1
      /\ owner' = [owner EXCEPT ![nextVeID] = r]
      /\ locked' = [locked EXCEPT ![nextVeID] = [amount |-> a, end |-> end]]
      /\ coins' = [coins EXCEPT ![s] = @ - a]
      /\ now' = now
  BY <1>1 DEF Create, DepositFor, LockTypes
<1> HIDE DEF end
<1>4. end \in Times /\ end \in Nat
  BY <1>1, <1>2, <1>3 DEF Times
<1>5. LockTypes'
  BY <1>1, <1>3, <1>4 DEF LockTypes
<1>6. 1..(nextVeID' - 1) = (1..(nextVeID - 1)) \cup {nextVeID} /\ nextVeID \notin 1..(nextVeID - 1)
  BY <1>3 DEF LockTypes
<1>7. Promised!Open(s, r, nextVeID, a, end)
  BY <1>1, <1>3, <1>6 DEF Promised!Open, Promised!Allowed
<1>8. Promised!EscrowNext
  BY <1>3, <1>4, <1>7 DEF Promised!EscrowNext
<1>9. QED
  BY <1>5, <1>8

\* Deposit raises a running escrow.
LEMMA DepositStep ==
    ASSUME LockTypes, NEW s \in Users, NEW ve \in VeIDs, NEW a \in Amounts,
           Deposit(s, ve, a)
    PROVE  LockTypes' /\ Promised!EscrowNext
<1>1. a \in Nat /\ a <= coins[s]
  BY VeAssumption DEF Deposit, DepositFor, LockTypes
<1>2. /\ owner[ve] # NoOne /\ locked[ve].end > now
      /\ locked' = [locked EXCEPT ![ve] = [locked[ve] EXCEPT !.amount = @ + a]]
      /\ coins' = [coins EXCEPT ![s] = @ - a]
      /\ UNCHANGED <<now, nextVeID, owner>>
  BY DEF Deposit, DepositFor, Exists, Unexpired
<1>3. LockTypes'
  BY <1>1, <1>2 DEF LockTypes
<1>4. Promised!Add(s, ve, a)
  BY <1>1, <1>2 DEF Promised!Add, Promised!Running
<1>5. QED
  BY <1>3, <1>4 DEF Promised!EscrowNext

\* ExtendTime prolongs a running escrow and moves no coin.
LEMMA ExtendStep ==
    ASSUME LockTypes, NEW s \in Users, NEW ve \in VeIDs, NEW d \in Durations,
           ExtendTime(s, ve, d)
    PROVE  LockTypes' /\ Promised!EscrowNext
<1> DEFINE end == RegulatedUnixTime(now + d)
<1>1. /\ now \in Nat /\ d \in Nat /\ LastTime \in Nat /\ MaxLockTime \in Nat
      /\ now <= LastTime
  BY VeAssumption DEF LockTypes
<1>2. end \in Int
  BY <1>1, RegulatedInt
<1>3. /\ owner[ve] # NoOne /\ locked[ve].end > now
      /\ end > locked[ve].end /\ end <= now + MaxLockTime
      /\ locked' = [locked EXCEPT ![ve] = [locked[ve] EXCEPT !.end = end]]
      /\ coins' = [coins EXCEPT ![s] = @ - 0]
      /\ UNCHANGED <<now, nextVeID, owner>>
  BY DEF ExtendTime, DepositFor, Exists, Unexpired
<1> HIDE DEF end
<1>4. locked[ve].end \in Nat /\ coins' = coins
  BY <1>3 DEF LockTypes
<1>5. end \in Times /\ end \in Nat /\ end > now
  BY <1>1, <1>2, <1>3, <1>4 DEF Times
<1>6. LockTypes'
  BY <1>1, <1>3, <1>4, <1>5 DEF LockTypes
<1>7. Promised!Prolong(ve, end)
  BY <1>3, <1>4, <1>5 DEF Promised!Prolong, Promised!Running, Promised!Allowed
<1>8. QED
  BY <1>5, <1>6, <1>7 DEF Promised!EscrowNext

\* Merge joins two escrows of one owner.
LEMMA MergeStep ==
    ASSUME LockTypes, NEW s \in Users, NEW from \in VeIDs, NEW to \in VeIDs,
           Merge(s, from, to)
    PROVE  LockTypes' /\ Promised!EscrowNext
<1> DEFINE end == IF locked[to].end > locked[from].end THEN locked[to].end
                  ELSE locked[from].end
           new == [amount |-> locked[to].amount + locked[from].amount, end |-> end]
<1>1. /\ from # to /\ owner[from] = s /\ owner[to] = s
      /\ owner' = [owner EXCEPT ![from] = NoOne]
      /\ locked' = [locked EXCEPT ![from] = NewLockedBalance, ![to] = new]
      /\ UNCHANGED <<now, nextVeID, coins>>
  BY DEF Merge
<1>2. new \in [amount : Nat, end : Nat] /\ NewLockedBalance \in [amount : Nat, end : Nat]
  BY DEF LockTypes, NewLockedBalance
<1>3. LockTypes'
  <2> HIDE DEF new
  <2> QED BY <1>1, <1>2 DEF LockTypes
<1>4. Promised!Join(from, to)
  BY <1>1, VeAssumption
     DEF Promised!Join, Promised!Empty, Promised!Later, NewLockedBalance
<1>5. QED
  BY <1>3, <1>4 DEF Promised!EscrowNext

\* Withdraw closes an escrow that has ended and pays its holder.
LEMMA WithdrawStep ==
    ASSUME LockTypes, NEW s \in Users, NEW ve \in VeIDs, Withdraw(s, ve)
    PROVE  LockTypes' /\ Promised!EscrowNext
<1>1. /\ owner[ve] = s /\ locked[ve].end <= now
      /\ owner' = [owner EXCEPT ![ve] = NoOne]
      /\ locked' = [locked EXCEPT ![ve] = NewLockedBalance]
      /\ coins' = [coins EXCEPT ![s] = @ + locked[ve].amount]
      /\ UNCHANGED <<now, nextVeID>>
  BY DEF Withdraw
<1>2. LockTypes'
  BY <1>1 DEF LockTypes, NewLockedBalance
<1>3. Promised!Close(ve)
  BY <1>1, VeAssumption DEF Promised!Close, Promised!Empty, NewLockedBalance
<1>4. QED
  BY <1>2, <1>3 DEF Promised!EscrowNext

\* The nft module's transfer hands an escrow over.
LEMMA SendStep ==
    ASSUME LockTypes, NEW s \in Users, NEW r \in Users, NEW ve \in VeIDs, Send(s, r, ve)
    PROVE  LockTypes' /\ Promised!EscrowNext
<1>1. /\ owner[ve] = s
      /\ owner' = [owner EXCEPT ![ve] = r]
      /\ UNCHANGED <<now, nextVeID, locked, coins>>
  BY DEF Send
<1>2. LockTypes'
  BY <1>1 DEF LockTypes
<1>3. Promised!HandOver(ve, r)
  BY <1>1, VeAssumption DEF Promised!HandOver
<1>4. QED
  BY <1>2, <1>3 DEF Promised!EscrowNext

\* A slash is a penalty.
LEMMA SlashStep ==
    ASSUME LockTypes, NEW ve \in VeIDs, NEW a \in Amounts, SlashLockedAmountByUser(ve, a)
    PROVE  LockTypes' /\ Promised!EscrowNext
<1>1. a \in Nat /\ a <= locked[ve].amount /\ owner[ve] # NoOne
  BY VeAssumption DEF SlashLockedAmountByUser, Exists
<1>2. /\ locked' = [locked EXCEPT ![ve] = [locked[ve] EXCEPT !.amount = @ - a]]
      /\ UNCHANGED <<now, nextVeID, owner, coins>>
  BY DEF SlashLockedAmountByUser
<1>3. LockTypes'
  BY <1>1, <1>2 DEF LockTypes
<1>4. Promised!Penalise(ve, a)
  BY <1>1, <1>2 DEF Promised!Penalise
<1>5. QED
  BY <1>3, <1>4 DEF Promised!EscrowNext

\* A block lets time pass, or halts the chain and moves nothing.
LEMMA EndBlockStep ==
    ASSUME LockTypes, NEW gap \in Gaps, EndBlock(gap)
    PROVE  LockTypes' /\ (Promised!EscrowNext \/ UNCHANGED Promised!escrowVars)
<1>1. gap \in Nat
  BY VeAssumption
<1>2. UNCHANGED <<nextVeID, owner, locked, coins>>
  BY DEF EndBlock, lockVars
<1>3. CASE UNCHANGED now
  BY <1>2, <1>3, NothingMoved DEF escrowed
<1>4. CASE now' = now + gap /\ now + gap <= LastTime
  <2>1. LockTypes'
    BY <1>1, <1>2, <1>4, VeAssumption DEF LockTypes
  <2>2. Promised!Pass
    BY <1>1, <1>2, <1>4 DEF Promised!Pass, LockTypes
  <2>3. QED
    BY <2>1, <2>2 DEF Promised!EscrowNext
<1>5. QED
  BY <1>3, <1>4 DEF EndBlock

\* Every step of x/ve is a step of Escrow or leaves its variables alone.
LEMMA StepRefines ==
    ASSUME LockTypes, [Next]_vars
    PROVE  LockTypes' /\ [Promised!EscrowNext]_(Promised!escrowVars)
<1>1. CASE UNCHANGED vars
  BY <1>1, NothingMoved DEF vars, escrowed
<1>2. CASE Next
  <2>1. CASE \E ve \in VeIDs : IncVeAttached(ve) \/ DecVeAttached(ve)
                               \/ \E v \in BOOLEAN : SetVeVoted(ve, v)
    <3>1. UNCHANGED escrowed
      BY <2>1 DEF IncVeAttached, DecVeAttached, SetVeVoted, lockVars, escrowed
    <3>2. QED
      BY <3>1, NothingMoved
  <2>2. CASE \E gap \in Gaps : EndBlock(gap)
    BY <2>2, EndBlockStep
  <2>3. CASE \E s, r \in Users, a \in Amounts, d \in Durations : Create(s, r, a, d)
    BY <2>3, CreateStep
  <2>4. CASE \E s \in Users, ve \in VeIDs, a \in Amounts : Deposit(s, ve, a)
    BY <2>4, DepositStep
  <2>5. CASE \E s \in Users, ve \in VeIDs, d \in Durations : ExtendTime(s, ve, d)
    BY <2>5, ExtendStep
  <2>6. CASE \E s \in Users, from, to \in VeIDs : Merge(s, from, to)
    BY <2>6, MergeStep
  <2>7. CASE \E s \in Users, ve \in VeIDs : Withdraw(s, ve)
    BY <2>7, WithdrawStep
  <2>8. CASE \E s, r \in Users, ve \in VeIDs : Send(s, r, ve)
    BY <2>8, SendStep
  <2>9. CASE \E ve \in VeIDs, a \in Amounts : SlashLockedAmountByUser(ve, a)
    BY <2>9, SlashStep
  <2>10. QED
    BY <1>2, <2>1, <2>2, <2>3, <2>4, <2>5, <2>6, <2>7, <2>8, <2>9, Zenon DEF Next
<1>3. QED
  BY <1>1, <1>2

\* At genesis no escrow is open.
LEMMA InitRefines ==
    ASSUME Init
    PROVE  LockTypes /\ Promised!EscrowInit
<1>1. LockTypes
  BY VeAssumption DEF Init, LockTypes, NewLockedBalance
<1>2. now \in Nat /\ 1..(nextVeID - 1) = {}
  BY VeAssumption DEF Init
<1>3. QED
  BY <1>1, <1>2 DEF Init, LockTypes, NewLockedBalance, Promised!EscrowInit, Promised!Empty

\* x/ve keeps the promise of Escrow, for every number of users and ves and every
\* length of the regulated period and of the longest lock: no message and no call
\* of another module takes a coin out of a lock before its end, except a slash, or
\* pays it to anybody but the owner.
THEOREM VeImplementsEscrow == Spec => ImplementsEscrow
<1>1. Init => LockTypes /\ Promised!EscrowInit
  BY InitRefines
<1>2. LockTypes /\ [Next]_vars => LockTypes' /\ [Promised!EscrowNext]_(Promised!escrowVars)
  BY StepRefines
<1>3. QED
  BY <1>1, <1>2, PTL DEF Spec, ImplementsEscrow, Promised!EscrowSpec

-----------------------------------------------------------------------------
\* A ve that other modules rely on keeps its owner, for every number of users,
\* ves and attachments: the guards of Merge, Withdraw and Send are the only way
\* out, and Create gives an id that nobody owns.
THEOREM AttachedVesStay == Spec => AttachedStays
<1> DEFINE Unowned == \A ve \in VeIDs : ve >= nextVeID => owner[ve] = NoOne
           Stay == \A ve \in VeIDs : Exists(ve) /\ ~Unattached(ve) => owner'[ve] = owner[ve]
<1>1. Init => LockTypes /\ Unowned
  BY InitRefines, ZenonT(30) DEF Init
<1>2. LockTypes /\ Unowned /\ [Next]_vars => Unowned' /\ [Stay]_vars
  <2> SUFFICES ASSUME LockTypes, Unowned, [Next]_vars
               PROVE  Unowned' /\ Stay
    OBVIOUS
  <2>1. CASE UNCHANGED <<owner, nextVeID>>
    BY <2>1
  <2>2. CASE \E s, r \in Users, a \in Amounts, d \in Durations : Create(s, r, a, d)
    <3>1. PICK r \in Users : /\ nextVeID \in VeIDs /\ nextVeID' = nextVeID + 1
                             /\ owner' = [owner EXCEPT ![nextVeID] = r]
      BY <2>2, Zenon DEF Create
    <3>2. QED
      BY <3>1 DEF LockTypes, VeIDs, Exists
  <2>3. CASE \E s \in Users, from, to \in VeIDs : Merge(s, from, to)
    <3>1. PICK from \in VeIDs : /\ Unattached(from) /\ nextVeID' = nextVeID
                                /\ owner' = [owner EXCEPT ![from] = NoOne]
      BY <2>3, ZenonT(30) DEF Merge
    <3>2. QED
      BY <3>1 DEF LockTypes
  <2>4. CASE \E s \in Users, ve \in VeIDs : Withdraw(s, ve)
    <3>1. PICK id \in VeIDs : /\ Unattached(id) /\ nextVeID' = nextVeID
                              /\ owner' = [owner EXCEPT ![id] = NoOne]
      BY <2>4, Zenon DEF Withdraw
    <3>2. QED
      BY <3>1 DEF LockTypes
  <2>5. CASE \E s, r \in Users, ve \in VeIDs : Send(s, r, ve)
    <3>1. PICK r \in Users, id \in VeIDs :
              /\ Unattached(id) /\ owner[id] \in Users /\ nextVeID' = nextVeID
              /\ owner' = [owner EXCEPT ![id] = r]
      BY <2>5, Zenon DEF Send
    <3>2. QED
      BY <3>1, VeAssumption DEF LockTypes
  <2>6. QED
    BY <2>1, <2>2, <2>3, <2>4, <2>5, Zenon
       DEF Next, vars, lockVars, Deposit, ExtendTime, SlashLockedAmountByUser,
           IncVeAttached, DecVeAttached, SetVeVoted, EndBlock
<1>3. LockTypes /\ [Next]_vars => LockTypes'
  BY StepRefines
<1>4. QED
  BY <1>1, <1>2, <1>3, PTL DEF Spec, AttachedStays
=============================================================================
