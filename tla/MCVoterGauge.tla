---------------------------- MODULE MCVoterGauge ----------------------------
(***************************************************************************)
(* Two ves.  The behaviours are explored in four parts, each with inputs   *)
(* of its own: votes for and against two gauges, without deposits; the     *)
(* deposits and rewards of one gauge, by two ves over three blocks and by  *)
(* one over four; and both at once, where ves change hands.                *)
(***************************************************************************)
EXTENDS VoterGauge

CONSTANTS p1, p2, alice, bob

\* Weights of one and of one half, for and against: Precision is 2.
Voting ==
    [denoms |-> {p1, p2}, owners |-> {alice}, ves |-> Ves, end |-> 1,
     powers |-> {2, 3}, weights |-> {-1, 1, 2}, voteRewards |-> {2, 5}, coins |-> 7,
     deposits |-> {}, shares |-> {}, rewards |-> {}, deposited |-> 0, rewarded |-> 0]
Depositing ==
    [denoms |-> {p1}, owners |-> {alice}, ves |-> Ves, end |-> 3,
     powers |-> {}, weights |-> {}, voteRewards |-> {}, coins |-> 0,
     deposits |-> {5}, shares |-> {<<1, 2>>}, rewards |-> {8}, deposited |-> 5,
     rewarded |-> 16]
Alone ==
    [Depositing EXCEPT !.ves = {1}, !.shares = {<<0, 0>>, <<1, 2>>}, !.end = 4]
Both ==
    [denoms |-> {p1}, owners |-> {alice, bob}, ves |-> Ves, end |-> 2,
     powers |-> {1}, weights |-> {2}, voteRewards |-> {2}, coins |-> 2,
     deposits |-> {0, 5}, shares |-> {<<0, 0>>}, rewards |-> {}, deposited |-> 10,
     rewarded |-> 0]

Parts == {Voting, Depositing, Alone, Both}
=============================================================================
