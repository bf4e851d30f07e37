------------------------------ MODULE SwapLife ------------------------------
(***************************************************************************)
(* What the token application promises about swaps, without tokens: an     *)
(* answered inquiry names a block of the maker (its deal), a take is open  *)
(* only while the maker has no block there, and the block that comes there *)
(* settles it for good.  TokenMachine implements this specification, and   *)
(* SwapHelper builds on it.                                                *)
(***************************************************************************)
EXTENDS Integers

CONSTANTS
  Parties,     \* the accounts
  Swaps,       \* pairs <<taker, height of the inquiry>>
  MaxHeight,   \* [Parties -> Nat], bound on the heights
  Heads,       \* [Parties -> Int], the heights at the start
  NoDeal

VARIABLES
  status,      \* swap -> "NONE" until the inquiry is answered, or a status
  deal,        \* swap -> <<maker, height of the trade>>
  head,        \* account -> height of its head
  confirmed    \* account -> height of its last confirmed block

lifeVars == <<status, deal, head, confirmed>>

DealsAt(a, h) == {s \in Swaps : deal[s] = <<a, h>>}
TakesAt(a, h) == {s \in DealsAt(a, h) : status[s] = "TAKE"}

LifeInit ==
  /\ status = [s \in Swaps |-> "NONE"]
  /\ deal = [s \in Swaps |-> NoDeal]
  /\ head = Heads
  /\ confirmed = Heads

\* The takes in S end, traded or refunded; other swaps become what becomes says.
Settle(S, traded, becomes) ==
  status' = [s \in Swaps |->
               IF s \in S THEN (IF s \in traded THEN "TAKE_ACK" ELSE "TAKE_NACK")
               ELSE IF s \in DOMAIN becomes THEN becomes[s] ELSE status[s]]

\* The block settles what is due, and trades at most one take.
Plain(due) ==
  /\ \E traded \in {{}} \cup {{s} : s \in due} : Settle(due, traded, <<>>)
  /\ UNCHANGED deal

\* A block of a main account answers inquiry s: the maker is to trade at t.
Answer(due, s, maker, t) ==
  /\ status[s] = "NONE"
  /\ Settle(due, {}, [x \in {s} |-> "INQUIRY_ACK"])
  /\ deal' = [deal EXCEPT ![s] = <<maker, t>>]

\* A block of the taker takes: too late when the maker's block is there.
Take(due, s) ==
  LET maker == deal[s][1]
      t == deal[s][2]
      late == head[maker] >= t
  IN  /\ status[s] = "INQUIRY_ACK"
      /\ late => confirmed[maker] >= t
      /\ Settle(due, {}, [x \in {s} |-> IF late THEN "TAKE_NACK" ELSE "TAKE"])
      /\ UNCHANGED deal

\* A confirmed block of a is appended.
AppendConfirmed(a) ==
  /\ head[a] < MaxHeight[a]
  /\ head' = [head EXCEPT ![a] = @ + 1]
  /\ confirmed' = [confirmed EXCEPT ![a] = head[a] + 1]
  /\ LET due == TakesAt(a, head[a] + 1)
     IN  \/ Plain(due)
         \/ \E s \in Swaps, maker \in Parties :
              /\ s[1] \notin {a, maker}
              /\ \E t \in 1 .. confirmed[maker] + 1 : Answer(due, s, maker, t)
         \/ \E s \in Swaps : s[1] = a /\ Take(due, s)

\* An unconfirmed block must not be one that settles a take.
Unconfirmed(a) ==
  /\ head[a] < MaxHeight[a]
  /\ TakesAt(a, head[a] + 1) = {}
  /\ head' = [head EXCEPT ![a] = @ + 1]
  /\ UNCHANGED <<status, deal, confirmed>>

Confirm(a, h) ==
  /\ confirmed[a] < h /\ h <= head[a]
  /\ confirmed' = [confirmed EXCEPT ![a] = h]
  /\ UNCHANGED <<status, deal, head>>

Rollback(a) ==
  /\ head[a] > confirmed[a]
  /\ head' = [head EXCEPT ![a] = @ - 1]
  /\ UNCHANGED <<status, deal, confirmed>>

LifeNext ==
  \E a \in Parties :
    \/ AppendConfirmed(a) \/ Unconfirmed(a) \/ Rollback(a)
    \/ \E h \in 0 .. MaxHeight[a] : Confirm(a, h)

LifeSpec == LifeInit /\ [][LifeNext]_lifeVars

=============================================================================
