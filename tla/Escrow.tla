------------------------------- MODULE Escrow -------------------------------
(***************************************************************************)
(* What x/ve promises about coins, without checkpoints, voting power or    *)
(* the totals it keeps: an escrow opened for a holder keeps its coins      *)
(* until its end, which only ever moves forward; then the holder of that   *)
(* time gets all of them back.  Ids are never used twice.                  *)
(***************************************************************************)
EXTENDS Integers

CONSTANTS Users, NoOne, Ids, Amounts, Times, MaxLockTime

VARIABLES
    clock,
    opened,   \* the ids used so far
    holder,   \* the user of each escrow, NoOne when there is none
    held,     \* [amount, end] of each escrow
    wallet    \* what the users have outside

escrowVars == <<clock, opened, holder, held, wallet>>

Empty == [amount |-> 0, end |-> 0]
Later(s, t) == IF s > t THEN s ELSE t
Running(id) == holder[id] # NoOne /\ held[id].end > clock
Allowed(end) == end > clock /\ end <= clock + MaxLockTime

EscrowInit ==
    /\ clock \in Nat
    /\ opened = {}
    /\ holder = [id \in Ids |-> NoOne]
    /\ held = [id \in Ids |-> Empty]
    /\ wallet \in [Users -> Nat]

Open(payer, user, id, amount, end) ==
    /\ id \notin opened
    /\ amount <= wallet[payer]
    /\ Allowed(end)
    /\ opened' = opened \cup {id}
    /\ holder' = [holder EXCEPT ![id] = user]
    /\ held' = [held EXCEPT ![id] = [amount |-> amount, end |-> end]]
    /\ wallet' = [wallet EXCEPT ![payer] = @ - amount]
    /\ UNCHANGED clock

Add(payer, id, amount) ==
    /\ Running(id)
    /\ amount <= wallet[payer]
    /\ held' = [held EXCEPT ![id].amount = @ + amount]
    /\ wallet' = [wallet EXCEPT ![payer] = @ - amount]
    /\ UNCHANGED <<clock, opened, holder>>

Prolong(id, end) ==
    /\ Running(id)
    /\ Allowed(end)
    /\ end > held[id].end
    /\ held' = [held EXCEPT ![id].end = end]
    /\ UNCHANGED <<clock, opened, holder, wallet>>

\* Of two escrows of one user, the joint one ends with the later.
Join(from, to) ==
    /\ from # to
    /\ holder[from] # NoOne
    /\ holder[from] = holder[to]
    /\ holder' = [holder EXCEPT ![from] = NoOne]
    /\ held' = [held EXCEPT
            ![from] = Empty,
            ![to] = [amount |-> held[to].amount + held[from].amount,
                     end |-> Later(held[to].end, held[from].end)]]
    /\ UNCHANGED <<clock, opened, wallet>>

Close(id) ==
    /\ holder[id] # NoOne
    /\ held[id].end <= clock
    /\ holder' = [holder EXCEPT ![id] = NoOne]
    /\ held' = [held EXCEPT ![id] = Empty]
    /\ wallet' = [wallet EXCEPT ![holder[id]] = @ + held[id].amount]
    /\ UNCHANGED <<clock, opened>>

HandOver(id, user) ==
    /\ holder[id] # NoOne
    /\ holder' = [holder EXCEPT ![id] = user]
    /\ UNCHANGED <<clock, opened, held, wallet>>

\* A penalty takes coins and leaves the end alone.
Penalise(id, amount) ==
    /\ holder[id] # NoOne
    /\ amount <= held[id].amount
    /\ held' = [held EXCEPT ![id].amount = @ - amount]
    /\ UNCHANGED <<clock, opened, holder, wallet>>

Pass ==
    /\ clock' >= clock
    /\ UNCHANGED <<opened, holder, held, wallet>>

EscrowNext ==
    \/ \E payer, user \in Users, id \in Ids, amount \in Amounts, end \in Times :
        Open(payer, user, id, amount, end)
    \/ \E payer \in Users, id \in Ids, amount \in Amounts : Add(payer, id, amount)
    \/ \E id \in Ids, end \in Times : Prolong(id, end)
    \/ \E from, to \in Ids : Join(from, to)
    \/ \E id \in Ids : Close(id)
    \/ \E id \in Ids, user \in Users : HandOver(id, user)
    \/ \E id \in Ids, amount \in Amounts : Penalise(id, amount)
    \/ Pass

EscrowSpec == EscrowInit /\ [][EscrowNext]_escrowVars
=============================================================================
