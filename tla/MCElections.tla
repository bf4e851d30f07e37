---------------------------- MODULE MCElections ----------------------------
(***************************************************************************)
(* Two worlds for Elections.  In the first, two blocks compete for one     *)
(* position; two honest representatives change their minds and a third     *)
(* contradicts itself.  In the second, three accounts compete for one slot *)
(* of either kind, two of them with contested positions.                   *)
(***************************************************************************)
EXTENDS Elections

Contest == [b \in 1..2 |-> [account |-> 1, height |-> 0]]

Ballot(r, t, h) == [rep |-> r, timestamp |-> t, hash |-> h]

ContestBallots == {Ballot("r1", 0, 1), Ballot("r1", 2, 2), Ballot("r2", 0, 1), Ballot("r2", 2, 2),
                   Ballot("r3", 0, 1), Ballot("r3", 1, 2)}

ContestWeights == {[r1 |-> 5, r2 |-> 4, r3 |-> 1], [r1 |-> 4, r2 |-> 1, r3 |-> 5]}

ContestOnline == {{"r1", "r2", "r3"}, {"r1", "r2"}}

\* Blocks 1 and 2 compete in account 1, above block 6; 3 and 4 compete in
\* account 2, and a representative that comes and goes votes for either.
Crowd == [b \in 1..6 |-> [account |-> IF b = 6 THEN 1 ELSE (b + 1) \div 2,
                          height |-> IF b \in {1, 2} THEN 1 ELSE 0]]

CrowdBallots == {Ballot("r1", 0, 3), Ballot("r1", 2, 4)}

CrowdWeights == {[r1 |-> 1]}

CrowdOnline == {{}, {"r1"}}

=============================================================================
