---------------------------- MODULE MCBankErc20 -----------------------------
(* BankErc20 for TLC: the genesis balances and the supplies explored. *)
EXTENDS BankErc20

CONSTANT alice, lion

\* alice starts with all there may be of lion; nobody holds another coin, and
\* no other coin is registered.
HeldGenesis == [a \in Addresses |-> [d \in Coins |->
                   IF a = alice /\ d = lion THEN MaxSupply[lion] ELSE 0]]

\* Enough of lion for the hook to move it twice, one of everything else.
TwoLions == [d \in Coins \union Tokens |-> IF d = lion THEN 2 ELSE 1]

\* One more, for a balance that the hook leaves half moved.
ThreeLions == [d \in Coins \union Tokens |-> IF d = lion THEN 3 ELSE 1]
=============================================================================
