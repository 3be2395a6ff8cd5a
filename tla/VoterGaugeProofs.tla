-------------------------- MODULE VoterGaugeProofs --------------------------
(***************************************************************************)
(* x/gauge: a ve is attached exactly while its owner deposits through it,  *)
(* for any ves, owners, amounts and voting powers.                         *)
(***************************************************************************)
EXTENDS VoterGauge, TLAPS

\* The ve an owner deposits through is the owner's: without this a transfer could
\* hand a ve to an owner who is on record with it.
OwnVe == \A o \in Owners : userVe[o] \in Ves => owner[userVe[o]] = o

BookTypes ==
    /\ owner \in [Ves -> Owners]
    /\ userVe \in [Owners -> Ves \cup {0}]
    /\ attached \in [Ves -> Int]
    /\ deposited \in [Ves -> Nat]
    /\ derived \in [Ves -> Int]
    /\ totalDeposited \in Int

Inv == explore \in Explored /\ BookTypes /\ OwnVe /\ AttachedOnce

LEMMA InitInv == Init => Inv
BY VoterGaugeAssumption, SMTT(30)
   DEF Init, G!GaugeInit, G!None, Inv, BookTypes, OwnVe, AttachedOnce

\* Two natural numbers have a quotient that is an integer.
LEMMA Quotient ==
    ASSUME NEW x \in Int, NEW y \in Nat, y > 0
    PROVE  x \div y \in Int
OBVIOUS

\* deriveAmountForUser gives a ve at most as many tickets as it has deposited.
LEMMA DeriveStep ==
    ASSUME NEW ve \in Ves, NEW share \in Nat \X Nat, G!DeriveAmountForUser(ve, share),
           derived \in [Ves -> Int], deposited' \in [Ves -> Nat], totalDeposited' \in Int
    PROVE  /\ derived' \in [Ves -> Int]
           /\ derived'[ve] <= deposited'[ve]
           /\ \A v \in Ves \ {ve} : derived'[v] = derived[v]
<1> DEFINE boost == IF share[2] > 0
                    THEN (((totalDeposited' * share[1]) \div share[2]) * 60) \div 100
                    ELSE 0
           base == (deposited'[ve] * 40) \div 100
           tickets == G!DerivedTickets(ve, share)
<1>1. share[1] \in Nat /\ share[2] \in Nat
  OBVIOUS
<1>2. boost \in Int
  <2>1. CASE share[2] > 0
    <3>1. totalDeposited' * share[1] \in Int
      BY <1>1, SMTT(30)
    <3>2. (totalDeposited' * share[1]) \div share[2] \in Int
      BY <1>1, <2>1, <3>1, Quotient, SMTT(30)
    <3>3. QED
      BY <2>1, <3>2, SMTT(30)
  <2>2. QED
    BY <1>1, <2>1, SMTT(30)
<1>3. base \in Int /\ deposited'[ve] \in Nat
  OBVIOUS
<1>4. tickets = IF base + boost < deposited'[ve] THEN base + boost ELSE deposited'[ve]
  BY DEF G!DerivedTickets, G!Smaller
<1> HIDE DEF boost, base
<1>5. tickets \in Int /\ tickets <= deposited'[ve]
  <2> HIDE DEF tickets
  <2> QED BY <1>2, <1>3, <1>4, SMTT(30)
<1>6. derived' = [derived EXCEPT ![ve] = tickets]
  BY Zenon DEF G!DeriveAmountForUser
<1> HIDE DEF tickets
<1>7. QED
  BY <1>5, <1>6, SMTT(30)

LEMMA DepositInv ==
    ASSUME Inv, NEW ve \in Ves, NEW amount \in Nat, NEW share \in Nat \X Nat,
           Deposit(ve, amount, share), UNCHANGED explore
    PROVE  Inv'
<1> DEFINE o == owner[ve]
<1>1. /\ deposited' = [deposited EXCEPT ![ve] = @ + amount]
      /\ totalDeposited' = totalDeposited + amount
      /\ userVe' = IF userVe[o] = 0 THEN [userVe EXCEPT ![o] = ve] ELSE userVe
      /\ attached' = IF userVe[o] = 0 THEN [attached EXCEPT ![ve] = @ + 1] ELSE attached
      /\ G!DeriveAmountForUser(ve, share)
      /\ owner' = owner
  BY Zenon DEF Deposit, G!Deposit, G!None
<1>2. /\ deposited' \in [Ves -> Nat] /\ totalDeposited' \in Int
      /\ \A v \in Ves \ {ve} : deposited'[v] = deposited[v]
  BY <1>1, SMTT(30) DEF Inv, BookTypes
<1>3. /\ derived' \in [Ves -> Int]
      /\ \A v \in Ves : derived'[v] <= deposited'[v]
  BY <1>1, <1>2, DeriveStep, SMTT(30) DEF Inv, BookTypes, AttachedOnce
<1>4. o \in Owners /\ 0 \notin Ves
  BY VoterGaugeAssumption, Zenon DEF Inv, BookTypes
<1>5. BookTypes'
  BY <1>1, <1>2, <1>3, <1>4, SMTT(30) DEF Inv, BookTypes
<1>6. OwnVe'
  BY <1>1, <1>4, SMTT(30) DEF Inv, BookTypes, OwnVe
<1>7. \A v \in Ves : attached'[v] = IF userVe'[owner'[v]] = v THEN 1 ELSE 0
  <2>1. CASE userVe[o] = 0
    <3>1. attached[ve] = 0
      BY <1>4, <2>1, SMTT(30) DEF Inv, AttachedOnce
    <3>2. QED
      BY <1>1, <1>4, <2>1, <3>1, SMTT(30) DEF Inv, BookTypes, AttachedOnce
  <2>2. CASE userVe[o] # 0
    BY <1>1, <2>2, SMTT(30) DEF Inv, AttachedOnce
  <2>3. QED
    BY <2>1, <2>2, SMTT(30)
<1>8. QED
  BY <1>3, <1>5, <1>6, <1>7, SMTT(30) DEF Inv, AttachedOnce

LEMMA WithdrawInv ==
    ASSUME Inv, NEW ve \in Ves, NEW amount \in Nat, NEW share \in Nat \X Nat,
           Withdraw(ve, amount, share), UNCHANGED explore
    PROVE  Inv'
<1> DEFINE o == owner[ve]
<1>1. /\ amount <= deposited[ve]
      /\ deposited' = [deposited EXCEPT ![ve] = @ - amount]
      /\ totalDeposited' = totalDeposited - amount
      /\ \/ UNCHANGED <<userVe, attached>>
         \/ /\ attached[ve] > 0
            /\ userVe' = [userVe EXCEPT ![o] = 0]
            /\ attached' = [attached EXCEPT ![ve] = @ - 1]
      /\ G!DeriveAmountForUser(ve, share)
      /\ owner' = owner
  BY Zenon DEF Withdraw, G!Withdraw, G!None
<1>2. /\ deposited' \in [Ves -> Nat] /\ totalDeposited' \in Int
      /\ \A v \in Ves \ {ve} : deposited'[v] = deposited[v]
  BY <1>1, SMTT(30) DEF Inv, BookTypes
<1>3. /\ derived' \in [Ves -> Int]
      /\ \A v \in Ves : derived'[v] <= deposited'[v]
  BY <1>1, <1>2, DeriveStep, SMTT(30) DEF Inv, BookTypes, AttachedOnce
<1>4. o \in Owners /\ 0 \notin Ves
  BY VoterGaugeAssumption DEF Inv, BookTypes
<1>5. BookTypes'
  BY <1>1, <1>2, <1>3, <1>4, SMTT(30) DEF Inv, BookTypes
<1>6. OwnVe'
  BY <1>1, <1>4, SMTT(30) DEF Inv, BookTypes, OwnVe
<1>7. \A v \in Ves : attached'[v] = IF userVe'[owner'[v]] = v THEN 1 ELSE 0
  <2>1. CASE UNCHANGED <<userVe, attached>>
    BY <1>1, <2>1, SMTT(30) DEF Inv, AttachedOnce
  <2>2. CASE /\ attached[ve] > 0
             /\ userVe' = [userVe EXCEPT ![o] = 0]
             /\ attached' = [attached EXCEPT ![ve] = @ - 1]
    <3>1. attached[ve] = 1 /\ userVe[o] = ve
      BY <2>2, SMTT(30) DEF Inv, AttachedOnce
    <3>2. QED
      BY <1>1, <1>4, <2>2, <3>1, SMTT(30) DEF Inv, BookTypes, AttachedOnce
  <2>3. QED
    BY <1>1, <2>1, <2>2, SMTT(30)
<1>8. QED
  BY <1>3, <1>5, <1>6, <1>7, SMTT(30) DEF Inv, AttachedOnce

LEMMA ClaimRewardInv ==
    ASSUME Inv, NEW ve \in Ves, NEW share \in Nat \X Nat,
           ClaimReward(ve, share), UNCHANGED explore
    PROVE  Inv'
<1>1. /\ UNCHANGED <<owner, userVe, attached, deposited, totalDeposited>>
      /\ G!DeriveAmountForUser(ve, share)
  BY Zenon DEF ClaimReward, G!ClaimReward, G!bookVars
<1>2. /\ derived' \in [Ves -> Int]
      /\ \A v \in Ves : derived'[v] <= deposited'[v]
  BY <1>1, DeriveStep, SMTT(30) DEF Inv, BookTypes, AttachedOnce
<1>3. QED
  BY <1>1, <1>2, SMTT(30) DEF Inv, BookTypes, OwnVe, AttachedOnce

LEMMA TransferInv ==
    ASSUME Inv, NEW ve \in Ves, NEW to \in Owners, Transfer(ve, to), UNCHANGED explore
    PROVE  Inv'
<1>1. /\ attached[ve] = 0
      /\ owner' = [owner EXCEPT ![ve] = to]
      /\ UNCHANGED <<userVe, attached, deposited, totalDeposited, derived>>
  BY Zenon DEF Transfer, G!Transfer, G!bookVars, G!ticketVars
<1>2. BookTypes'
  BY <1>1, Zenon DEF Inv, BookTypes
<1>3. \A o \in Owners : userVe[o] # ve
  BY <1>1, SMTT(30) DEF Inv, BookTypes, OwnVe, AttachedOnce
<1>4. OwnVe'
  BY <1>1, <1>3, SMTT(30) DEF Inv, BookTypes, OwnVe
<1>5. AttachedOnce'
  BY <1>1, <1>3, SMTT(30) DEF Inv, BookTypes, AttachedOnce
<1>6. QED
  BY <1>2, <1>4, <1>5, SMTT(30) DEF Inv

LEMMA NextInv == Inv /\ [Next]_vars => Inv'
<1> SUFFICES ASSUME Inv, [Next]_vars PROVE Inv'
  BY Zenon
<1>1. ASSUME UNCHANGED <<owner, userVe, attached, deposited, totalDeposited, derived, explore>>
      PROVE  Inv'
  BY <1>1, Zenon DEF Inv, BookTypes, OwnVe, AttachedOnce
<1>2. CASE UNCHANGED vars
  BY <1>1, <1>2, Zenon DEF vars, gaugeVars
<1>3. ASSUME UNCHANGED explore, UNCHANGED gaugeVars
      PROVE  Inv'
  BY <1>1, <1>3, Zenon DEF gaugeVars
<1>4. ASSUME UNCHANGED explore, NEW amount, DepositReward(amount)
      PROVE  Inv'
  BY <1>1, <1>4, Zenon DEF DepositReward, G!DepositReward, G!bookVars, G!ticketVars
<1>5. ASSUME UNCHANGED explore, EndBlock
      PROVE  Inv'
  BY <1>1, <1>5, SMTT(30) DEF EndBlock, G!Tick, G!bookVars, G!ticketVars
<1>6. /\ explore.owners \subseteq Owners /\ explore.ves \subseteq Ves
      /\ explore.deposits \subseteq Nat /\ explore.shares \subseteq Nat \X Nat
  BY VoterGaugeAssumption, Zenon DEF Inv
<1>7. ASSUME UNCHANGED explore, NEW ve \in Ves,
             \E amount \in explore.deposits, share \in explore.shares :
                 Deposit(ve, amount, share) \/ Withdraw(ve, amount, share)
      PROVE  Inv'
  BY <1>6, <1>7, DepositInv, WithdrawInv, SMTT(30)
<1>8. ASSUME UNCHANGED explore, NEW ve \in Ves,
             \/ \E share \in explore.shares : ClaimReward(ve, share)
             \/ \E to \in explore.owners : Transfer(ve, to)
      PROVE  Inv'
  BY <1>6, <1>8, ClaimRewardInv, TransferInv, SMTT(30)
<1>9. ASSUME NEW ve \in explore.ves,
             \/ Abstain(ve)
             \/ \E power \in explore.powers :
                  \/ Poke(ve, power)
                  \/ \E D \in SUBSET gauges : \E weights \in [D -> explore.weights] :
                       Vote(ve, power, weights)
      PROVE  UNCHANGED gaugeVars
  BY <1>9, Zenon DEF Abstain, Poke, Vote
<1>10. ASSUME NEW g, CreateGauge(g) \/ AddGauge(g)
       PROVE  UNCHANGED gaugeVars
  BY <1>10, Zenon DEF CreateGauge, AddGauge
<1>11. ASSUME NEW amount, DepositVoteReward(amount)
       PROVE  UNCHANGED gaugeVars
  BY <1>11, Zenon DEF DepositVoteReward
<1>12. CASE Next
  BY <1>3, <1>4, <1>5, <1>6, <1>7, <1>8, <1>9, <1>10, <1>11, <1>12, Zenon DEF Next
<1>13. QED
  BY <1>2, <1>12, SMTT(30)

\* However ves deposit, withdraw, claim and change hands, a ve is attached once while
\* its owner deposits through it and not otherwise, so IncVeAttached and DecVeAttached
\* stay balanced; and its tickets never exceed its deposit.
THEOREM AttachedStaysOnce == Spec => []AttachedOnce
<1>1. Init => Inv
  BY InitInv, Zenon
<1>2. Inv /\ [Next]_vars => Inv'
  BY NextInv, Zenon
<1>3. Inv => AttachedOnce
  BY Zenon DEF Inv
<1>4. QED
  BY <1>1, <1>2, <1>3, PTL DEF Spec
=============================================================================
