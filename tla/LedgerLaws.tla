----------------------------- MODULE LedgerLaws -----------------------------
(***************************************************************************)
(* What it means for the tables of a ledger value L to fit together: the   *)
(* vocabulary of the properties that LedgerMachine checks and that the     *)
(* proofs establish for every ledger the transactions can reach.           *)
(***************************************************************************)
EXTENDS Ledger

\* The stored blocks of an account, and that they are one chain to its head.
ChainOf(L, a) == {b \in L.stored : Block[b].account = a}

Chained(L, a) ==
  LET info == L.info[a]
      chain == ChainOf(L, a)
  IN  IF info = NoInfo THEN chain = {}
      ELSE /\ info.head \in chain
           /\ Block[info.head].height = info.headHeight
           /\ L.successor[info.head] = NoBlock
           /\ {Block[b].height : b \in chain} = 0..info.headHeight
           /\ \A b, c \in chain : ~ForkWith(b, c)
           /\ \A b \in chain :
                /\ Block[b].type = info.type
                /\ Block[b].height # 0 =>
                     /\ Block[b].previous \in chain
                     /\ Block[Block[b].previous].height = Block[b].height - 1
                     /\ L.successor[Block[b].previous] = b

\* No info confirms more than its chain holds.
Confirmed(L) ==
  \A a \in Accounts : L.info[a] # NoInfo =>
    L.info[a].confirmed <= L.info[a].headHeight

\* What claimed rewards brought into circulation.
Minted(L) ==
  SumFunction([b \in {x \in L.stored : Block[x].opcode = "REWARD"} |-> TakenAmount(b)])

\* What a block takes out of circulation.
Consumed(b) ==
  IF b = Genesis THEN 0
  ELSE IF Block[b].height = 0 THEN OpenAmount(b) - Block[b].balance
  ELSE IF Block[b].opcode \in {"CREDIT", "DESTROY"}
  THEN Block[Block[b].previous].balance - Block[b].balance
  ELSE 0

Circulating(L) ==
  LET opened == {a \in Accounts : L.info[a] # NoInfo}
  IN  SumFunction([a \in opened |-> Block[L.info[a].head].balance])
      + SumFunction([r \in L.receivable |-> r.amount])

\* The stored blocks that took an amount or a reward from a source.
Takers(L, opcode, source) ==
  {b \in L.stored \ {Genesis} : Block[b].opcode = opcode /\ Block[b].link = source}

(***************************************************************************)
(* The block whose rollback ProcessBlockDynamicRollback_ pushes when b     *)
(* cannot be rolled back yet; b itself when it can.                        *)
(***************************************************************************)
Blocker(L, b) ==
  LET code == RollbackCode(L, b)
  IN  CASE code = "ROLLBACK_NON_HEAD" -> L.successor[b]
        [] code = "ROLLBACK_RECEIVED" -> L.info[Block[b].link].head
        [] code = "ROLLBACK_REWARDED" -> L.info[Block[Block[b].previous].rep].head
        [] OTHER -> b

=============================================================================
