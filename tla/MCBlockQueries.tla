--------------------------- MODULE MCBlockQueries ---------------------------
(***************************************************************************)
(* One query; one peer lost the beginning of its chains, one does not know *)
(* the block, a full node has it.                                          *)
(***************************************************************************)
EXTENDS BlockQueries

Answers == [pruned |-> "PRUNED", lacking |-> "MISS", holder |-> "SUCCESS"]

=============================================================================
