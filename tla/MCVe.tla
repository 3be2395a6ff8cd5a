-------------------------------- MODULE MCVe --------------------------------
(***************************************************************************)
(* Ve for TLC.  Checkpoints are recorded while one user locks several      *)
(* amounts; with two users, who send, attach and vote, one amount is       *)
(* locked and only the newest checkpoints are kept.  The users are         *)
(* interchangeable.                                                        *)
(***************************************************************************)
EXTENDS VeHistory, TLC

RecordedAndShared ==
    {[users |-> {u}, coins |-> 8, amounts |-> Amounts, attach |-> FALSE,
      record |-> TRUE] : u \in Users}
    \cup {[users |-> Users, coins |-> 4, amounts |-> {4}, attach |-> TRUE,
           record |-> FALSE]}

OnlyLocks ==
    {[users |-> Users, coins |-> 10, amounts |-> Amounts, attach |-> FALSE, record |-> FALSE]}

UserSymmetry == Permutations(Users)
=============================================================================
