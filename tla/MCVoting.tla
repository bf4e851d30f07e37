------------------------------ MODULE MCVoting ------------------------------
(***************************************************************************)
(* Two blocks compete for one position, two threads vote, and the clock    *)
(* runs for several confirmation intervals.                                *)
(***************************************************************************)
EXTENDS Voting, TLC

Symmetry == Permutations(Voters) \cup Permutations(Hashes)

=============================================================================
