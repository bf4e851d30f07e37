--------------------------- MODULE LedgerMachine ---------------------------
(***************************************************************************)
(* The ledger as a state machine: what the block processor may do to it,   *)
(* one database transaction per step, in whatever order the network, the   *)
(* elections and the operator cause.  BlockProcessor implements it.        *)
(***************************************************************************)
EXTENDS LedgerLaws

VARIABLE ledger

Init == ledger = InitLedger

\* What the clock shows when a block comes is left open.
Append(b) ==
  /\ \E now \in Clocks : AppendCode(ledger, b, now) = "SUCCESS"
  /\ ledger' = AppendBlock(ledger, b)

Rollback(b) ==
  /\ RollbackCode(ledger, b) = "SUCCESS"
  /\ ledger' = RollbackBlock(ledger, b)

Confirm(b) ==
  /\ ConfirmCode(ledger, b) = "SUCCESS"
  /\ ledger' = ConfirmBlock(ledger, b)

\* The node stops and starts again: the tables in memory are rebuilt.
Restart == ledger' = InitMemoryTables(ledger)

Next ==
  \/ Restart
  \/ \E b \in Blocks : Append(b) \/ Rollback(b) \/ Confirm(b)

Spec == Init /\ [][Next]_ledger

-----------------------------------------------------------------------------

\* Type invariant: the tables hold entries of their types and amounts are
\* never negative.
TypeOK == ledger \in LedgerStates

(***************************************************************************)
(* The stored blocks of an account are a chain without gaps or branches    *)
(* from height 0 to its head, linked in both directions (previous hashes   *)
(* and the successors BlockGet by height and DynamicRollback walk), and an *)
(* account without an info has no stored block.  What is confirmed is      *)
(* stored: no rollback leaves a confirmed height above the head.           *)
(***************************************************************************)

ChainIntact ==
  /\ \A a \in Accounts : Chained(ledger, a)
  /\ Confirmed(ledger)

(***************************************************************************)
(* The representative weights in memory are at every transaction boundary  *)
(* the ones a restart would compute from the heads on disk: appends and    *)
(* rollbacks add and subtract exactly (elections tally these weights).     *)
(***************************************************************************)
WeightsExact == ledger = InitMemoryTables(ledger)

(***************************************************************************)
(* No coin is created or lost: the balances of all heads and the amounts   *)
(* waiting to be received are the genesis balance plus the rewards claimed *)
(* minus the price of all credit bought and minus what was destroyed.      *)
(***************************************************************************)
ValueConserved ==
  Circulating(ledger) + SumFunction([b \in ledger.stored |-> Consumed(b)])
    = Block[Genesis].balance + Minted(ledger)

(***************************************************************************)
(* An amount sent is waiting exactly until one receive block takes it: the *)
(* receivable table has the entry of a stored send, with its amount, if    *)
(* and only if no stored block received it, and no send is received twice. *)
(***************************************************************************)
ReceivedOnce ==
  \A s \in Blocks :
    LET entries == {r \in ledger.receivable : r.source = s}
        takers  == Takers(ledger, "RECEIVE", s)
    IN  IF s \in ledger.stored /\ Block[s].opcode = "SEND"
        THEN \/ /\ Cardinality(takers) = 1
                /\ entries = {}
             \/ /\ takers = {}
                /\ entries = {ReceivableInfo(Block[s].link, s,
                     Block[Block[s].previous].balance - Block[s].balance)}
        ELSE takers = {} /\ entries = {}

(***************************************************************************)
(* A balance that stood for a while earns its representative one reward:   *)
(* the entry exists, with the amount and the time the two blocks give, if  *)
(* and only if a successor is stored and no stored block claimed it.       *)
(***************************************************************************)
RewardedOnce ==
  \A p \in Blocks :
    LET entries == {r \in ledger.rewardable : r.source = p}
        takers  == Takers(ledger, "REWARD", p)
        next    == ledger.successor[p]
    IN  IF p \in ledger.stored /\ HasRepresentative(p) /\ next # NoBlock
           /\ Reward(p, next) # 0
        THEN \/ /\ Cardinality(takers) = 1
                /\ entries = {}
             \/ /\ takers = {}
                /\ entries = {RewardableInfo(p, next, Reward(p, next))}
        ELSE takers = {} /\ entries = {}

(***************************************************************************)
(* The binding entries and their count per account are those of the stored *)
(* bind blocks, and the count respects what the account's credit allows.   *)
(***************************************************************************)
BindingsExact ==
  \A a \in Accounts :
    LET binds == {b \in ChainOf(ledger, a) : Block[b].opcode = "BIND"}
    IN  /\ {k \in ledger.bindings : k[1] = a} = {<<a, Block[b].height>> : b \in binds}
        /\ ledger.bindingCount[a] = Cardinality(binds)
        /\ binds # {} =>
             Cardinality(binds) <= AllowedBindings(Block[ledger.info[a].head].credit)

(***************************************************************************)
(* Whatever block can be appended, rolling it back at once is possible and *)
(* restores every table; only the archive of rolled back blocks remembers. *)
(***************************************************************************)
RollbackUndoesAppend ==
  \A b \in Blocks, now \in Clocks :
    AppendCode(ledger, b, now) = "SUCCESS" =>
      LET appended == AppendBlock(ledger, b)
      IN  /\ RollbackCode(appended, b) = "SUCCESS"
          /\ RollbackBlock(appended, b) =
               [ledger EXCEPT !.rollbacks = @ \cup {b}]

(***************************************************************************)
(* Rolling back never deadlocks or runs in circles: from every stored      *)
(* block, following the blockers reaches a block that can go.  The ledger  *)
(* never looks inconsistent on the way.  Genesis stays (its source is no   *)
(* block).                                                                 *)
(***************************************************************************)
RollbackWellFounded ==
  LET next == [b \in ledger.stored |-> Blocker(ledger, b)]
      size == Cardinality(ledger.stored)
      chase[n \in 0..size] ==
        IF n = 0 THEN next
        ELSE LET before == chase[n - 1] IN [b \in ledger.stored |-> next[before[b]]]
  IN  \A b \in ledger.stored :
        LET last == chase[size][b]
        IN  RollbackCode(ledger, last) =
              IF last = Genesis THEN "ROLLBACK_SOURCE_PRUNED" ELSE "SUCCESS"

(***************************************************************************)
(* A block that was ever in the ledger can still be found, in the ledger   *)
(* or in the archive of rolled back blocks.                                *)
(***************************************************************************)
NothingForgotten ==
  [][ledger.stored \cup ledger.rollbacks
       \subseteq ledger'.stored \cup ledger'.rollbacks]_ledger

=============================================================================
