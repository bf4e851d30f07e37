-------------------------- MODULE MCBlockProcessor --------------------------
(***************************************************************************)
(* A world for BlockProcessor: the network agreed that G paid A with g1,   *)
(* that A opened its account with a0 and that R claimed the reward of g0   *)
(* with r0.  G also signed g1x, and A received that instead with a0x.      *)
(***************************************************************************)
EXTENDS BlockProcessor

CONSTANTS G, A, R, g0, g1, g1x, g2, a0, a0x, a1, r0, c1, c2, c3, x1, x2, x3

B(acc, type, op, h, prev, t, credit, counter, bal, rep, link) ==
  [account |-> acc, type |-> type, opcode |-> op, height |-> h,
   previous |-> prev, time |-> EpochTimestamp + t, credit |-> credit, counter |-> counter,
   balance |-> bal, rep |-> rep, link |-> link, signed |-> TRUE]

World ==
     g0  :> B(G, "TX", "RECEIVE", 0, NoBlock, 0, 1, 1, 12, R, G)
  @@ g1  :> B(G, "TX", "SEND",    1, g0,      4, 1, 1, 8,  R, A)
  @@ g1x :> B(G, "TX", "SEND",    1, g0,      4, 1, 1, 9,  R, A)
  @@ g2  :> B(G, "TX", "RECEIVE", 2, g1,      8, 1, 1, 9,  R, a1)
  @@ a0  :> B(A, "TX", "RECEIVE", 0, NoBlock, 5, 1, 1, 2,  R, g1)
  @@ a0x :> B(A, "TX", "RECEIVE", 0, NoBlock, 5, 1, 1, 1,  R, g1x)
  @@ a1  :> B(A, "TX", "SEND",    1, a0,      5, 1, 2, 1,  R, G)
  @@ r0  :> B(R, "REP", "REWARD", 0, NoBlock, 8, 1, 0, 11, R, g0)

\* G changes its representative three times and signed an alternative each
\* time; more forks than the table admits.
ForkWorld ==
     g0 :> B(G, "TX", "RECEIVE", 0, NoBlock, 0, 1, 1, 2, R, G)
  @@ c1 :> B(G, "TX", "CHANGE",  1, g0,      4, 1, 1, 2, A, NoBlock)
  @@ c2 :> B(G, "TX", "CHANGE",  2, c1,      8, 1, 1, 2, R, NoBlock)
  @@ c3 :> B(G, "TX", "CHANGE",  3, c2,     12, 1, 1, 2, A, NoBlock)
  @@ x1 :> B(G, "TX", "CHANGE",  1, g0,      4, 1, 1, 2, G, NoBlock)
  @@ x2 :> B(G, "TX", "CHANGE",  2, c1,      8, 1, 1, 2, G, NoBlock)
  @@ x3 :> B(G, "TX", "CHANGE",  3, c2,     12, 1, 1, 2, G, NoBlock)

Ids == DOMAIN World
ForkIds == DOMAIN ForkWorld
Agreed == {g0, g1, g2, a0, a1, r0}
PriceTable == <<2, 1>>
Ranks == [b \in Blocks |-> IF Block[b].opcode = "REWARD" THEN 1 ELSE 0]
ForkMsgs == {<<c1, x1>>}
Forwards == {s \in Clocks \X Clocks : s[1] < s[2]}

WithoutArchive ==
  <<[ledger EXCEPT !.rollbacks = {}], forks, forkCount, blocks, forced,
    forkQueue, stack, accounts, operation, queries, gaps, thread, clock, crashes>>
=============================================================================
