----------------------------- MODULE MCSyncer ------------------------------
(***************************************************************************)
(* The network decided for a0 and a1, a SEND to bb, against x1.  The block *)
(* of bb is the reward for a0, which needs the block after a0.  The node   *)
(* has neither chain.                                                      *)
(***************************************************************************)
EXTENDS Syncer, TLC

CONSTANTS aa, bb, a0, a1, x1, b0

MCBlocks == {a0, a1, x1, b0}
MCAccountOf == [c \in MCBlocks |-> IF c = b0 THEN bb ELSE aa]
MCHeight == a0 :> 0 @@ b0 :> 0 @@ a1 :> 1 @@ x1 :> 1
MCPrevious == a0 :> NoBlock @@ b0 :> NoBlock @@ a1 :> a0 @@ x1 :> a0
MCSource == [c \in MCBlocks |-> IF c = b0 THEN a0 ELSE NoBlock]
MCNeeds == [c \in MCBlocks |-> IF c = b0 THEN {a1} ELSE {}]
MCSendsTo == [c \in MCBlocks |-> IF c = a1 THEN {bb} ELSE {}]
MCRewards == [c \in MCBlocks |-> IF c = x1 THEN {bb} ELSE {}]
MCCanonical == aa :> <<a0, a1>> @@ bb :> <<b0>>
MCStart == aa :> <<>> @@ bb :> <<>>

=============================================================================
