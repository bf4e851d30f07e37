------------------------------ MODULE MCToken -------------------------------
(***************************************************************************)
(* Instances of TokenMachine.                                              *)
(***************************************************************************)
EXTENDS TokenMachine, TLC

CONSTANTS a1, a2, a3, x1, c1, c2

Zero == [tokens |-> EmptyTokens @@ EmptySwaps,
         head |-> [a \in Accounts |-> -1]]

-----------------------------------------------------------------------------
(* Supply: an issuer, another account, a token of another chain.           *)

ChainsOfTokens == x1 :> c1

Creation(type, init, cap, circulable) ==
  [type |-> type, init |-> init, cap |-> cap, circulable |-> circulable,
   burnable |-> TRUE, mintable |-> TRUE]

SupplyCreations == {Creation("20", 2, 3, FALSE),
                    Creation("721", 0, 0, TRUE)}

SupplyOps == [a \in Accounts |->
  {"CREATE", "MINT", "BURN", "SEND", "RECEIVE", "UNMAP", "WRAP"}]

SupplyHeights == a1 :> 3 @@ a2 :> 1 @@ c1 :> 2 @@ c2 :> 2

-----------------------------------------------------------------------------
(* Swaps: a1 offers its token for that of a2; a3 is the main account.      *)

Funded ==
  LET made(L, a) == ProcessReceive(
        ProcessCreate(L, a, 0, Creation("20", 2, 0, TRUE)), a, 1,
        ReceivableKey(a, a, Tx(a, 0)), Receivable(a, 2, 0, "20", "MINT"))
  IN  [tokens |-> ProcessSwapConfig(made(made(Zero.tokens, a1), a2), a1, 2, a3),
       head |-> a1 :> 2 @@ a2 :> 1 @@ a3 :> -1]

SwapOffers == {[offer |-> a1, typeOffer |-> "20", valueOffer |-> 1,
                want |-> a2, typeWant |-> "20", valueWant |-> 1,
                min |-> 1, max |-> 2]}

SwapOps == a1 :> {"PLAIN", "MAKE", "TAKE_ACK", "TAKE_NACK", "CANCEL"}
           @@ a2 :> {"INQUIRY", "TAKE"}
           @@ a3 :> {"PLAIN", "INQUIRY_ACK", "PING", "CONFIG"}

SwapHeights == a1 :> 5 @@ a2 :> 5 @@ a3 :> 1

NoChains == [c \in {} |-> c1]

=============================================================================
