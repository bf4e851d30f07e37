------------------------------- MODULE MCApp -------------------------------
(* Two accounts: aa begins with a fork and has a block after one branch; the
   only block of bb waits for the first height of aa. *)
EXTENDS App, TLC

CONSTANTS aa, bb, a0, x0, a1, b0

MCBlocks == {a0, x0, a1, b0}
MCAccountOf == [c \in MCBlocks |-> IF c = b0 THEN bb ELSE aa]
MCHeight == [c \in MCBlocks |-> IF c = a1 THEN 1 ELSE 0]
MCPrevious == [c \in MCBlocks |-> IF c = a1 THEN a0 ELSE NoBlock]
MCNeeds == [c \in MCBlocks |-> IF c = b0 THEN {<<aa, 0>>} ELSE {}]
MCEstablished == aa :> <<>> @@ bb :> <<b0>>
=============================================================================
