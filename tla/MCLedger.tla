------------------------------ MODULE MCLedger ------------------------------
(***************************************************************************)
(* A small world of blocks for LedgerMachine.  Times are in units of a     *)
(* quarter of a day; balances are chosen so that rewards are not zero.     *)
(***************************************************************************)
EXTENDS LedgerMachine, TLC

CONSTANTS G, A, R, D,
          g0, g1, g1x, g1y, g1z, g2, g3, a0, a0x, a1, a1x, a2,
          r0, r1, r2, r3, b1, b2, d0, d1, d1x, d2

B(acc, type, op, h, prev, t, credit, counter, bal, rep, link) ==
  [account |-> acc, type |-> type, opcode |-> op, height |-> h,
   previous |-> prev, time |-> EpochTimestamp + t, credit |-> credit, counter |-> counter,
   balance |-> bal, rep |-> rep, link |-> link, signed |-> TRUE]

GenesisFields == B(G, "TX", "RECEIVE", 0, NoBlock, 0, 1, 1, 12, R, G)

\* Four blocks compete for height 1 of G.  Two are a double spend that two
\* versions of account A have received; A pays back to G, and R is rewarded.
\* One pays the airdrop account D, which destroys what it has; one buys
\* credit.  R also binds accounts of other chains.
WorldBlocks ==
     g0  :> GenesisFields
  @@ g1  :> B(G, "TX", "SEND",    1, g0,      4, 1, 1, 8,  R, A)
  @@ g1x :> B(G, "TX", "SEND",    1, g0,      4, 1, 1, 9,  R, A)
  @@ g1y :> B(G, "TX", "SEND",    1, g0,      4, 1, 1, 8,  R, D)
  @@ g1z :> B(G, "TX", "CREDIT",  1, g0,      4, 2, 1, 10, R, NoBlock)
  @@ g2  :> B(G, "TX", "RECEIVE", 2, g1,      8, 1, 1, 9,  R, a1)
  @@ g3  :> B(G, "TX", "SEND",    3, g2,     12, 1, 1, 8,  R, G)
  @@ a0  :> B(A, "TX", "RECEIVE", 0, NoBlock, 5, 1, 1, 2,  R, g1)
  @@ a0x :> B(A, "TX", "RECEIVE", 0, NoBlock, 5, 1, 1, 1,  R, g1x)
  @@ a1  :> B(A, "TX", "SEND",    1, a0,      7, 1, 2, 1,  R, G)
  @@ a1x :> B(A, "TX", "CHANGE",  1, a0,      7, 1, 2, 2,  G, NoBlock)
  @@ a2  :> B(A, "TX", "RECEIVE", 2, a1,     12, 1, 1, 2,  R, r2)
  @@ r0  :> B(R, "REP", "REWARD", 0, NoBlock, 8, 1, 0, 11, R, g0)
  @@ r1  :> B(R, "REP", "REWARD", 1, r0,     12, 1, 0, 12, R, a0)
  @@ r2  :> B(R, "REP", "SEND",   1, r0,     12, 1, 1, 10, R, A)
  @@ r3  :> B(R, "REP", "SEND",   2, r1,     12, 1, 1, 8,  R, R)
  @@ b1  :> B(R, "REP", "BIND",   1, r0,      8, 1, 1, 11, R, NoBlock)
  @@ b2  :> B(R, "REP", "BIND",   2, b1,      8, 1, 2, 11, R, NoBlock)
  @@ d0  :> B(D, "AD", "RECEIVE", 0, NoBlock, 4, 1, 1, 2,  R, g1y)
  @@ d1  :> B(D, "AD", "DESTROY", 1, d0,      8, 1, 1, 1,  R, NoBlock)
  @@ d1x :> B(D, "AD", "CHANGE",  1, d0,      6, 1, 2, 2,  G, NoBlock)
  @@ d2  :> B(D, "AD", "CHANGE",  2, d1,      8, 1, 2, 1,  D, NoBlock)

WorldIds == DOMAIN WorldBlocks
PriceTable  == <<2, 1>>

\* The archive of rolled back blocks is written and never read, so states
\* that differ only in it have the same behaviours.
WithoutArchive == [ledger EXCEPT !.rollbacks = {}]
=============================================================================
