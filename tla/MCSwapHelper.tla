---------------------------- MODULE MCSwapHelper ----------------------------
(***************************************************************************)
(* A maker mm with its main account ww, and a taker tt with two swaps.     *)
(***************************************************************************)
EXTENDS SwapHelper, TLC

CONSTANTS mm, ww, tt

TwoSwaps == {<<tt, 1>>, <<tt, 2>>}
StartHeads == mm :> 0 @@ ww :> -1 @@ tt :> 2
HeightBounds == mm :> 2 @@ ww :> 1 @@ tt :> 4

=============================================================================
