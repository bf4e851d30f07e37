---------------------------- MODULE LedgerProofs ----------------------------
(***************************************************************************)
(* Single transactions of the ledger: the chains stay intact, and in the   *)
(* tables that hang on them an amount sent waits until exactly one block   *)
(* takes it, a reward until exactly one block claims it, and the bindings  *)
(* are those of the stored bind blocks, whatever blocks exist and in       *)
(* whatever order they are appended, rolled back and confirmed.            *)
(*                                                                         *)
(* The tables do not matter for the chains: first it is shown that the     *)
(* operators which update them leave blocks, successors and account infos  *)
(* alone.                                                                  *)
(***************************************************************************)
EXTENDS LedgerLaws, FiniteSetTheorems, TLAPS

\* L is a record with the ten tables.
IsLedger(L) ==
  L = [stored |-> L.stored, successor |-> L.successor, info |-> L.info,
       receivable |-> L.receivable, rewardable |-> L.rewardable,
       bindings |-> L.bindings, bindingCount |-> L.bindingCount,
       rollbacks |-> L.rollbacks, weight |-> L.weight,
       totalWeight |-> L.totalWeight]

\* N differs from L in the tables that hang on the chains only.
SameChains(L, N) ==
  /\ IsLedger(N)
  /\ N.stored = L.stored /\ N.successor = L.successor /\ N.info = L.info
  /\ N.rollbacks = L.rollbacks

\* Ledger::RepWeightAdd_ leaves the chains alone,
LEMMA AddSame ==
  ASSUME NEW L, IsLedger(L), NEW r, NEW w
  PROVE  SameChains(L, RepWeightAdd(L, r, w))
<1> DEFINE N == [L EXCEPT !.weight[r] = @ + w]
<1>1. SameChains(L, N)
  BY DEF IsLedger, SameChains
<1>2. RepWeightAdd(L, r, w) = [N EXCEPT !.totalWeight = L.totalWeight + w]
  BY DEF IsLedger, RepWeightAdd
<1>3. QED
  BY <1>1, <1>2 DEF IsLedger, SameChains

\* and so does Ledger::RepWeightSub_,
LEMMA SubSame ==
  ASSUME NEW L, IsLedger(L), NEW r, NEW w
  PROVE  SameChains(L, RepWeightSub(L, r, w))
BY DEF IsLedger, SameChains, RepWeightSub

\* and what the visitor of an append does for the operation of the block,
LEMMA ApplySame ==
  ASSUME NEW L, IsLedger(L), NEW h, NEW b
  PROVE  SameChains(L, ApplyOperation(L, h, b))
BY DEF IsLedger, SameChains, ApplyOperation, BindingPut

\* and what the visitor of a rollback does to undo it.
LEMMA RevertSame ==
  ASSUME NEW L, IsLedger(L), NEW b
  PROVE  SameChains(L, RevertOperation(L, b))
BY DEF IsLedger, SameChains, RevertOperation, BindingDel

\* The tables the chains consist of have their types.
ChainTables(L) ==
  /\ IsLedger(L)
  /\ L.stored \subseteq Blocks
  /\ L.successor \in [Blocks -> Blocks \cup {NoBlock}]
  /\ L.info \in [Accounts -> AccountInfos \cup {NoInfo}]

-----------------------------------------------------------------------------
(* Appending.                                                              *)

\* What AppendBlock_ has checked about the chain when it succeeds.
LEMMA AppendChecked ==
  ASSUME NEW L, NEW b \in Blocks,
         NEW now, AppendCode(L, b, now) = "SUCCESS",
         ChainTables(L)
  PROVE  LET info == L.info[Block[b].account]
         IN  /\ b \notin L.stored
             /\ info = NoInfo => Block[b].height = 0 /\ Block[b].previous = NoBlock
             /\ info # NoInfo => /\ Block[b].height = info.headHeight + 1
                                 /\ Block[b].type = info.type
                                 /\ Block[b].previous = info.head
<1> DEFINE info == L.info[Block[b].account]
<1>1. Block[b].account \in Accounts /\ Block[b].height \in Nat
  BY BlocksAssumption DEF BlockFields
<1>2. b \notin L.stored
  BY DEF AppendCode, AndThen, Unless, CheckCommon
<1>3. CASE info = NoInfo
  <2>1. CheckOpen(L, b) = "SUCCESS"
    BY <1>3 DEF AppendCode, AndThen
  <2>2. CheckFirstCommon(b) = "SUCCESS"
    BY <2>1 DEF CheckOpen, AndThen
  <2>3. QED
    BY <1>2, <1>3, <2>2 DEF CheckFirstCommon, AndThen, Unless
<1>4. CASE info # NoInfo
  <2>1. CheckSuccessorCommon(b, info) = "SUCCESS"
    BY <1>4 DEF AppendCode, AndThen
  <2>2. info.headHeight \in Nat
    BY <1>1, <1>4 DEF ChainTables, AccountInfos
  <2>3. /\ Block[b].height > info.headHeight
        /\ ~(Block[b].height > info.headHeight + 1)
        /\ Block[b].type = info.type
        /\ Block[b].previous = info.head
    BY <1>1, <2>1, <2>2, SMTT(40) DEF CheckSuccessorCommon, AndThen, Unless
  <2>4. QED
    BY <1>1, <1>2, <1>4, <2>2, <2>3
<1>5. QED
  BY <1>3, <1>4

\* What AppendBlock_ does to the chain.
LEMMA AppendEffect ==
  ASSUME NEW L, IsLedger(L), NEW b
  PROVE  LET N == AppendBlock(L, b)
         IN  /\ IsLedger(N)
             /\ N.stored = L.stored \cup {b}
             /\ N.successor = PutBlockSuccessor(L, b).successor
             /\ N.info = UpdateAccountInfo(L, b).info
             /\ N.rollbacks = L.rollbacks
<1> DEFINE info == L.info[Block[b].account]
           head == IF info = NoInfo THEN NoBlock ELSE info.head
           put == PutBlockSuccessor(L, b)
           chained == UpdateAccountInfo(put, b)
           weighed == UpdateRepInfo(chained, head, b)
           rewarded == PutRewardableInfo(weighed, head, b)
<1>1. /\ IsLedger(put) /\ put.stored = L.stored \cup {b}
      /\ put.info = L.info /\ put.rollbacks = L.rollbacks
  <2> DEFINE more == [L EXCEPT !.stored = @ \cup {b}]
  <2>1. /\ IsLedger(more) /\ more.stored = L.stored \cup {b}
        /\ more.info = L.info /\ more.rollbacks = L.rollbacks
    BY DEF IsLedger
  <2>2. put = [more EXCEPT !.successor = put.successor]
    BY DEF IsLedger, PutBlockSuccessor
  <2> HIDE DEF more, put
  <2>3. QED
    BY <2>1, <2>2 DEF IsLedger
<1>2. /\ IsLedger(chained) /\ chained.stored = put.stored
      /\ chained.successor = put.successor /\ chained.rollbacks = put.rollbacks
      /\ chained.info = UpdateAccountInfo(L, b).info
  <2> HIDE DEF put
  <2>1. chained.info = UpdateAccountInfo(L, b).info
    BY <1>1 DEF IsLedger, UpdateAccountInfo
  <2>2. QED
    BY <1>1, <2>1 DEF IsLedger, UpdateAccountInfo
<1>3. SameChains(chained, weighed)
  <2> HIDE DEF chained
  <2> DEFINE retracted == IF head = NoBlock THEN chained
                          ELSE RepWeightSub(chained, Block[head].rep, Block[head].balance)
  <2>1. SameChains(chained, chained)
    BY <1>2 DEF SameChains
  <2>2. SameChains(chained, retracted)
    BY <1>2, <2>1, SubSame, SMTT(40)
  <2>3. SameChains(retracted, RepWeightAdd(retracted, Block[b].rep, Block[b].balance))
    <3>1. IsLedger(retracted)
      BY <2>2 DEF SameChains
    <3>2. QED
      BY <3>1, AddSame, ZenonT(60)
  <2>4. QED
    BY <2>1, <2>2, <2>3 DEF SameChains, UpdateRepInfo
<1>4. SameChains(weighed, rewarded)
  <2> HIDE DEF weighed
  <2>1. IsLedger(weighed)
    BY <1>3 DEF SameChains
  <2>2. QED
    BY <2>1 DEF SameChains, IsLedger, PutRewardableInfo
<1>5. SameChains(rewarded, ApplyOperation(rewarded, head, b))
  <2>1. IsLedger(rewarded)
    BY <1>4 DEF SameChains
  <2>2. QED
    BY <2>1, ApplySame, SMTT(40)
<1>6. AppendBlock(L, b) = ApplyOperation(rewarded, head, b)
  BY DEF AppendBlock
<1>7. QED
  BY <1>1, <1>2, <1>3, <1>4, <1>5, <1>6, ZenonT(60) DEF SameChains

\* A chain is intact as long as its blocks, their successors and the parts
\* of the info it depends on stay the same.
LEMMA ChainedFrame ==
  ASSUME NEW L, NEW N, NEW a, Chained(L, a),
         ChainOf(N, a) = ChainOf(L, a),
         \A x \in ChainOf(L, a) : N.successor[x] = L.successor[x],
         N.info[a] = NoInfo <=> L.info[a] = NoInfo,
         L.info[a] # NoInfo => /\ N.info[a].type = L.info[a].type
                               /\ N.info[a].head = L.info[a].head
                               /\ N.info[a].headHeight = L.info[a].headHeight
  PROVE  Chained(N, a)
BY DEF Chained

\* An append extends the chain of its account and leaves the others intact.
LEMMA AppendChained ==
  ASSUME NEW L, ChainTables(L), \A a \in Accounts : Chained(L, a),
         NEW b \in Blocks, NEW now, AppendCode(L, b, now) = "SUCCESS"
  PROVE  /\ ChainTables(AppendBlock(L, b))
         /\ \A a \in Accounts : Chained(AppendBlock(L, b), a)
<1> DEFINE N == AppendBlock(L, b)
           own == Block[b].account
           info == L.info[own]
           prev == Block[b].previous
<1>1. /\ own \in Accounts /\ Block[b].height \in Nat /\ Block[b].type \in Types
      /\ NoBlock \notin Blocks
  BY BlocksAssumption DEF BlockFields
<1>2. /\ b \notin L.stored
      /\ info = NoInfo => Block[b].height = 0 /\ prev = NoBlock
      /\ info # NoInfo => /\ Block[b].height = info.headHeight + 1
                          /\ Block[b].type = info.type
                          /\ prev = info.head
  BY AppendChecked
<1>3. /\ IsLedger(N) /\ N.stored = L.stored \cup {b}
      /\ N.successor = [x \in Blocks |-> IF x = b THEN NoBlock
                                         ELSE IF x = prev THEN b ELSE L.successor[x]]
      /\ N.info = [L.info EXCEPT ![own] =
                     IF @ = NoInfo THEN NewInfo(b)
                     ELSE [@ EXCEPT !.head = b, !.headHeight = Block[b].height]]
  <2>1. IsLedger(L)
    BY DEF ChainTables
  <2>2. /\ IsLedger(N) /\ N.stored = L.stored \cup {b}
        /\ N.successor = PutBlockSuccessor(L, b).successor
        /\ N.info = UpdateAccountInfo(L, b).info
    BY <2>1, AppendEffect
  <2>3. PutBlockSuccessor(L, b).successor =
          [x \in Blocks |-> IF x = b THEN NoBlock
                            ELSE IF x = prev THEN b ELSE L.successor[x]]
    BY <2>1 DEF IsLedger, PutBlockSuccessor
  <2>4. UpdateAccountInfo(L, b).info =
          [L.info EXCEPT ![own] =
             IF @ = NoInfo THEN NewInfo(b)
             ELSE [@ EXCEPT !.head = b, !.headHeight = Block[b].height]]
    BY <2>1 DEF IsLedger, UpdateAccountInfo
  <2>5. QED
    BY <2>2, <2>3, <2>4
<1> HIDE DEF N
\* The info of the account that grows.
<1>4. /\ N.info[own] \in AccountInfos
      /\ N.info[own].type = Block[b].type
      /\ N.info[own].head = b /\ N.info[own].headHeight = Block[b].height
  <2>1. CASE info = NoInfo
    BY <1>1, <1>2, <1>3, <2>1 DEF ChainTables, NewInfo, AccountInfos
  <2>2. CASE info # NoInfo
    <3>1. info \in AccountInfos
      BY <1>1, <2>2 DEF ChainTables
    <3>2. N.info[own] = [info EXCEPT !.head = b, !.headHeight = Block[b].height]
      BY <1>1, <1>3, <2>2 DEF ChainTables
    <3>3. QED
      BY <1>1, <1>2, <2>2, <3>1, <3>2 DEF AccountInfos
  <2>3. QED
    BY <2>1, <2>2
<1>5. ChainTables(N)
  <2>1. N.info \in [Accounts -> AccountInfos \cup {NoInfo}]
    BY <1>1, <1>3, <1>4 DEF ChainTables
  <2>2. N.successor \in [Blocks -> Blocks \cup {NoBlock}]
    BY <1>3 DEF ChainTables
  <2>3. QED
    BY <1>3, <2>1, <2>2 DEF ChainTables
<1>6. ASSUME NEW a \in Accounts, a # own
      PROVE  Chained(N, a)
  <2>1. Chained(L, a) /\ N.info[a] = L.info[a]
    BY <1>1, <1>3, <1>6 DEF ChainTables
  <2>2. ChainOf(N, a) = ChainOf(L, a)
    BY <1>3, <1>6 DEF ChainOf
  <2>3. \A x \in ChainOf(L, a) : x \in Blocks /\ x # b /\ x # prev
    <3> SUFFICES ASSUME NEW x \in ChainOf(L, a)
                 PROVE  x \in Blocks /\ x # b /\ x # prev
      OBVIOUS
    <3>1. x \in Blocks /\ Block[x].account = a
      BY DEF ChainTables, ChainOf
    <3>2. CASE info = NoInfo
      BY <1>1, <1>2, <1>6, <3>1, <3>2
    <3>3. CASE info # NoInfo
      <4>1. info.head \in ChainOf(L, own)
        BY <1>1, <3>3 DEF Chained
      <4>2. QED
        BY <1>2, <1>6, <3>1, <3>3, <4>1 DEF ChainOf
    <3>4. QED
      BY <3>2, <3>3
  <2>4. \A x \in ChainOf(L, a) : N.successor[x] = L.successor[x]
    BY <1>3, <2>3
  <2>5. QED
    BY <2>1, <2>2, <2>4, ChainedFrame
<1>7. Chained(N, own)
  <2> DEFINE old == ChainOf(L, own)
             new == ChainOf(N, own)
             h == Block[b].height
  <2>1. new = old \cup {b} /\ b \notin old /\ new \subseteq Blocks
    BY <1>2, <1>3 DEF ChainOf, ChainTables
  <2>2. N.info[own] # NoInfo
    BY <1>4, NoInfoAssumption
  <2>3. N.successor[b] = NoBlock
    BY <1>3
  <2>4. CASE info = NoInfo
    <3>1. old = {} /\ new = {b}
      BY <1>1, <2>1, <2>4 DEF Chained
    <3>2. h = 0
      BY <1>2, <2>4
    <3>3. {Block[c].height : c \in new} = 0..0
      BY <3>1, <3>2
    <3>4. \A c, d \in new : ~ForkWith(c, d)
      BY <3>1 DEF ForkWith
    <3>5. QED
      BY <1>4, <2>2, <2>3, <3>1, <3>2, <3>3, <3>4 DEF Chained
  <2>5. CASE info # NoInfo
    <3>1. /\ info.head \in old /\ Block[info.head].height = info.headHeight
          /\ L.successor[info.head] = NoBlock
          /\ {Block[c].height : c \in old} = 0..info.headHeight
          /\ \A c, d \in old : ~ForkWith(c, d)
          /\ \A c \in old :
               /\ Block[c].type = info.type
               /\ Block[c].height # 0 =>
                    /\ Block[c].previous \in old
                    /\ Block[Block[c].previous].height = Block[c].height - 1
                    /\ L.successor[Block[c].previous] = c
      BY <1>1, <2>5 DEF Chained
    <3>2. info.headHeight \in Nat /\ h = info.headHeight + 1
      BY <1>1, <1>2, <2>5 DEF ChainTables, AccountInfos
    <3>3. \A c \in old : Block[c].height \in 0..info.headHeight
      BY <3>1, SMTT(40)
    <3>4. {Block[c].height : c \in new} = 0..h
      <4>1. {Block[c].height : c \in new} = {Block[c].height : c \in old} \cup {h}
        BY <2>1
      <4>2. 0..h = (0..info.headHeight) \cup {h}
        BY <3>2
      <4>3. QED
        BY <3>1, <4>1, <4>2
    <3>5. \A c, d \in new : ~ForkWith(c, d)
      BY <2>1, <3>1, <3>2, <3>3 DEF ForkWith
    <3>6. ASSUME NEW c \in new
          PROVE  /\ Block[c].type = Block[b].type
                 /\ Block[c].height # 0 =>
                      /\ Block[c].previous \in new
                      /\ Block[Block[c].previous].height = Block[c].height - 1
                      /\ N.successor[Block[c].previous] = c
      <4>1. CASE c = b
        <5>1. prev \in old /\ prev # b /\ prev \in Blocks
          BY <1>2, <2>1, <2>5, <3>1
        <5>2. Block[prev].height = h - 1
          BY <1>2, <2>5, <3>1, <3>2
        <5>3. N.successor[prev] = b
          BY <1>3, <5>1
        <5>4. QED
          BY <2>1, <4>1, <5>1, <5>2, <5>3
      <4>2. CASE c # b
        <5>1. c \in old /\ Block[c].type = Block[b].type
          BY <1>2, <2>1, <2>5, <3>1, <4>2
        <5>2. ASSUME Block[c].height # 0
              PROVE  /\ Block[c].previous \in new
                     /\ Block[Block[c].previous].height = Block[c].height - 1
                     /\ N.successor[Block[c].previous] = c
          <6>1. /\ Block[c].previous \in old
                /\ Block[Block[c].previous].height = Block[c].height - 1
                /\ L.successor[Block[c].previous] = c
            BY <3>1, <5>1, <5>2
          <6>2. Block[c].previous # prev /\ Block[c].previous # b
            BY <1>1, <1>2, <2>1, <2>5, <3>1, <5>1, <6>1
          <6>3. N.successor[Block[c].previous] = c
            BY <1>3, <2>1, <6>1, <6>2
          <6>4. QED
            BY <2>1, <6>1, <6>3
        <5>3. QED
          BY <5>1, <5>2
      <4>3. QED
        BY <4>1, <4>2
    <3>7. QED
      BY <1>4, <2>1, <2>2, <2>3, <3>4, <3>5, <3>6 DEF Chained
  <2>6. QED
    BY <2>4, <2>5
<1>8. QED
  BY <1>5, <1>6, <1>7 DEF N

-----------------------------------------------------------------------------
(* Rolling back.                                                           *)

\* What BlockProcessor::BlockRollback_ has checked of the block it removes.
LEMMA RollbackChecked ==
  ASSUME NEW L, NEW b \in Blocks, RollbackCode(L, b) = "SUCCESS", ChainTables(L)
  PROVE  LET info == L.info[Block[b].account]
         IN  /\ b \in L.stored
             /\ info # NoInfo /\ info.head = b /\ info.headHeight = Block[b].height
             /\ Block[b].height # 0 => Block[b].previous \in L.stored
<1>1. CheckRollback(L, b) = "SUCCESS"
  BY DEF RollbackCode, AndThen
<1>2. QED
  BY <1>1 DEF CheckRollback, AndThen, Unless

\* What a rollback does to the chains, in one step.
LEMMA RollbackEffect ==
  ASSUME NEW L, IsLedger(L), NEW b
  PROVE  LET N == RollbackBlock(L, b)
         IN  /\ IsLedger(N)
             /\ N.stored = L.stored \ {b}
             /\ N.successor = DeleteBlockSuccessor(L, b).successor
             /\ N.info = RetractAccountInfo(L, b).info
             /\ N.rollbacks = L.rollbacks \cup {b}
<1> DEFINE reverted == RevertOperation(L, b)
           deleted == DeleteBlockSuccessor(reverted, b)
           archived == PutRollbackBlock(deleted, b)
           retracted == RetractAccountInfo(archived, b)
           unrewarded == DeleteRewardableInfo(retracted, b)
<1>1. SameChains(L, reverted)
  BY RevertSame
<1>2. /\ IsLedger(deleted) /\ deleted.stored = L.stored \ {b}
      /\ deleted.successor = DeleteBlockSuccessor(L, b).successor
      /\ deleted.info = L.info /\ deleted.rollbacks = L.rollbacks
  <2> DEFINE less == [reverted EXCEPT !.stored = @ \ {b}]
  <2> HIDE DEF reverted
  <2>1. /\ IsLedger(less) /\ less.stored = L.stored \ {b}
        /\ less.info = L.info /\ less.rollbacks = L.rollbacks
    BY <1>1 DEF SameChains, IsLedger
  <2>2. deleted = [less EXCEPT !.successor = deleted.successor]
    BY <1>1 DEF SameChains, IsLedger, DeleteBlockSuccessor
  <2>3. deleted.successor = DeleteBlockSuccessor(L, b).successor
    BY <1>1 DEF SameChains, IsLedger, DeleteBlockSuccessor
  <2> HIDE DEF less, deleted
  <2>4. QED
    BY <2>1, <2>2, <2>3 DEF IsLedger
<1> HIDE DEF deleted
<1>3. /\ IsLedger(archived) /\ archived.stored = deleted.stored
      /\ archived.successor = deleted.successor /\ archived.info = deleted.info
      /\ archived.rollbacks = deleted.rollbacks \cup {b}
  BY <1>2 DEF IsLedger, PutRollbackBlock
<1> HIDE DEF archived
<1>4. /\ IsLedger(retracted) /\ retracted.stored = archived.stored
      /\ retracted.successor = archived.successor
      /\ retracted.rollbacks = archived.rollbacks
      /\ retracted.info = RetractAccountInfo(L, b).info
  <2>1. retracted.info = RetractAccountInfo(L, b).info
    BY <1>2, <1>3 DEF IsLedger, RetractAccountInfo
  <2>2. QED
    BY <1>3, <2>1 DEF IsLedger, RetractAccountInfo
<1> HIDE DEF retracted
<1>5. SameChains(retracted, unrewarded)
  BY <1>4 DEF SameChains, IsLedger, DeleteRewardableInfo
<1>6. SameChains(unrewarded, UpdateRepWeight(unrewarded, b))
  <2> HIDE DEF unrewarded
  <2> DEFINE subtracted == RepWeightSub(unrewarded, Block[b].rep, Block[b].balance)
             prev == Block[b].previous
  <2>1. IsLedger(unrewarded)
    BY <1>5 DEF SameChains
  <2>2. SameChains(unrewarded, unrewarded) /\ SameChains(unrewarded, subtracted)
    BY <2>1, SubSame DEF SameChains
  <2>3. IsLedger(subtracted)
    BY <2>2 DEF SameChains
  <2>4. SameChains(subtracted,
                   RepWeightAdd(subtracted, Block[prev].rep, Block[prev].balance))
    BY <2>3, AddSame
  <2>5. QED
    BY <2>2, <2>4 DEF SameChains, UpdateRepWeight
<1>7. RollbackBlock(L, b) = UpdateRepWeight(unrewarded, b)
  BY DEF RollbackBlock, deleted, archived, retracted
<1>8. QED
  BY <1>2, <1>3, <1>4, <1>5, <1>6, <1>7 DEF SameChains

\* A rollback shortens the chain of its account and leaves the others intact.
LEMMA RollbackChained ==
  ASSUME NEW L, ChainTables(L), \A a \in Accounts : Chained(L, a),
         NEW b \in Blocks, RollbackCode(L, b) = "SUCCESS"
  PROVE  /\ ChainTables(RollbackBlock(L, b))
         /\ \A a \in Accounts : Chained(RollbackBlock(L, b), a)
<1> DEFINE N == RollbackBlock(L, b)
           own == Block[b].account
           info == L.info[own]
           prev == Block[b].previous
           h == Block[b].height
           kept == IF info.confirmed > h - 1 THEN INVALID_HEIGHT ELSE info.confirmed
           chain == ChainOf(L, own)
<1>1. own \in Accounts /\ h \in Nat /\ NoBlock \notin Blocks
  BY BlocksAssumption DEF BlockFields
<1>2. /\ b \in L.stored /\ info # NoInfo /\ info.head = b /\ info.headHeight = h
      /\ h # 0 => prev \in L.stored
  BY RollbackChecked
<1>3. /\ IsLedger(N) /\ N.stored = L.stored \ {b}
      /\ N.successor = [x \in Blocks |-> IF x = b \/ (h # 0 /\ x = prev)
                                         THEN NoBlock ELSE L.successor[x]]
      /\ N.info = [L.info EXCEPT ![own] =
                     IF h = 0 THEN NoInfo
                     ELSE [type |-> info.type, head |-> prev,
                           headHeight |-> h - 1, confirmed |-> kept]]
  <2>1. IsLedger(L)
    BY DEF ChainTables
  <2>2. /\ IsLedger(N) /\ N.stored = L.stored \ {b}
        /\ N.successor = DeleteBlockSuccessor(L, b).successor
        /\ N.info = RetractAccountInfo(L, b).info
    BY <2>1, RollbackEffect
  <2>3. DeleteBlockSuccessor(L, b).successor =
          [x \in Blocks |-> IF x = b \/ (h # 0 /\ x = prev)
                            THEN NoBlock ELSE L.successor[x]]
    BY <2>1 DEF IsLedger, DeleteBlockSuccessor
  <2>4. RetractAccountInfo(L, b).info =
          [L.info EXCEPT ![own] =
             IF h = 0 THEN NoInfo
             ELSE [type |-> info.type, head |-> prev,
                   headHeight |-> h - 1, confirmed |-> kept]]
    BY <2>1 DEF IsLedger, RetractAccountInfo
  <2>5. QED
    BY <2>2, <2>3, <2>4
<1> HIDE DEF N
<1>4. /\ b \in chain /\ chain \subseteq Blocks
      /\ {Block[c].height : c \in chain} = 0..h
      /\ \A c, d \in chain : ~ForkWith(c, d)
      /\ \A c \in chain :
           /\ Block[c].type = info.type
           /\ Block[c].height # 0 =>
                /\ Block[c].previous \in chain
                /\ Block[Block[c].previous].height = Block[c].height - 1
                /\ L.successor[Block[c].previous] = c
  BY <1>1, <1>2 DEF Chained, ChainOf, ChainTables
\* The info of the account that shrinks.
<1>5. /\ h = 0 => N.info[own] = NoInfo
      /\ h # 0 => /\ N.info[own] \in AccountInfos
                  /\ N.info[own].type = info.type
                  /\ N.info[own].head = prev /\ N.info[own].headHeight = h - 1
  <2>1. info \in AccountInfos
    BY <1>1, <1>2 DEF ChainTables
  <2>2. CASE h = 0
    BY <1>1, <1>3, <2>2 DEF ChainTables
  <2>3. CASE h # 0
    <3>1. prev \in Blocks /\ h - 1 \in Nat
      BY <1>1, <1>2, <2>3 DEF ChainTables
    <3>2. kept \in Nat \cup {INVALID_HEIGHT}
      BY <2>1 DEF AccountInfos
    <3> HIDE DEF kept
    <3>3. N.info[own] = [type |-> info.type, head |-> prev,
                         headHeight |-> h - 1, confirmed |-> kept]
      BY <1>1, <1>3, <2>3 DEF ChainTables
    <3>4. QED
      BY <2>1, <2>3, <3>1, <3>2, <3>3 DEF AccountInfos
  <2>4. QED
    BY <2>2, <2>3
<1>6. ChainTables(N)
  <2>1. N.info \in [Accounts -> AccountInfos \cup {NoInfo}]
    BY <1>1, <1>3, <1>5 DEF ChainTables
  <2>2. N.successor \in [Blocks -> Blocks \cup {NoBlock}]
    BY <1>3 DEF ChainTables
  <2>3. QED
    BY <1>3, <2>1, <2>2 DEF ChainTables
<1>7. ASSUME NEW a \in Accounts, a # own
      PROVE  Chained(N, a)
  <2>1. Chained(L, a) /\ N.info[a] = L.info[a]
    BY <1>1, <1>3, <1>7 DEF ChainTables
  <2>2. ChainOf(N, a) = ChainOf(L, a)
    BY <1>3, <1>7 DEF ChainOf
  <2>3. \A x \in ChainOf(L, a) : x \in Blocks /\ x # b /\ (h # 0 => x # prev)
    BY <1>4, <1>7 DEF ChainOf, ChainTables
  <2>4. \A x \in ChainOf(L, a) : N.successor[x] = L.successor[x]
    BY <1>3, <2>3
  <2>5. QED
    BY <2>1, <2>2, <2>4, ChainedFrame
<1>8. Chained(N, own)
  <2> DEFINE rest == ChainOf(N, own)
  <2>1. rest = chain \ {b}
    BY <1>3 DEF ChainOf
  <2>2. \A c \in rest : Block[c].height \in 0..h /\ Block[c].height # h
    BY <1>1, <1>4, <2>1 DEF ForkWith, ChainOf
  <2>3. CASE h = 0
    <3>1. rest = {}
      BY <2>2, <2>3
    <3>2. QED
      BY <1>5, <2>3, <3>1 DEF Chained
  <2>4. CASE h # 0
    <3>1. /\ prev \in chain /\ Block[prev].height = h - 1
          /\ L.successor[prev] = b
      BY <1>4, <2>4
    <3>2. prev \in rest /\ prev \in Blocks
      BY <1>1, <1>4, <2>1, <3>1
    <3>3. N.info[own] # NoInfo
      BY <1>5, <2>4, NoInfoAssumption
    <3>4. N.successor[prev] = NoBlock
      BY <1>3, <2>4, <3>2
    <3>5. {Block[c].height : c \in rest} = 0..(h - 1)
      <4>1. ASSUME NEW n \in 0..(h - 1)
            PROVE  \E c \in rest : Block[c].height = n
        <5>1. n \in 0..h /\ n # h
          BY <1>1, <4>1
        <5>2. PICK c \in chain : Block[c].height = n
          BY <1>4, <5>1
        <5>3. QED
          BY <2>1, <5>1, <5>2
      <4>2. \A c \in rest : Block[c].height \in 0..(h - 1)
        BY <1>1, <2>2
      <4>3. QED
        BY <4>1, <4>2
    <3>6. \A c, d \in rest : ~ForkWith(c, d)
      BY <1>4, <2>1
    <3>7. ASSUME NEW c \in rest, Block[c].height # 0
          PROVE  /\ Block[c].previous \in rest
                 /\ Block[Block[c].previous].height = Block[c].height - 1
                 /\ N.successor[Block[c].previous] = c
      <4>1. /\ c \in chain /\ Block[c].previous \in chain
            /\ Block[Block[c].previous].height = Block[c].height - 1
            /\ L.successor[Block[c].previous] = c
        BY <1>4, <2>1, <3>7
      <4>2. Block[c].previous # b
        BY <1>1, <2>2, <4>1
      <4>3. Block[c].previous # prev
        BY <2>1, <3>1, <4>1
      <4>4. QED
        BY <1>3, <1>4, <2>1, <4>1, <4>2, <4>3
    <3>8. \A c \in rest : Block[c].type = info.type
      BY <1>4, <2>1
    <3>9. QED
      BY <1>5, <2>4, <3>1, <3>2, <3>3, <3>4, <3>5, <3>6, <3>7, <3>8 DEF Chained
  <2>5. QED
    BY <2>3, <2>4
<1>9. QED
  BY <1>6, <1>7, <1>8 DEF N

-----------------------------------------------------------------------------
(* The inductive invariant.                                                *)

ChainInv(L) ==
  /\ ChainTables(L)
  /\ \A a \in Accounts : Chained(L, a)
  /\ Confirmed(L)

\* A new ledger consists of one chain with one block.
LEMMA InitChainInv == ChainInv(InitLedger)
<1> DEFINE own == Block[Genesis].account
<1>1. /\ Genesis \in Blocks /\ Block[Genesis].height = 0
      /\ Block[Genesis].type = "TX" /\ own \in Accounts
  BY GenesisAssumption, BlocksAssumption DEF BlockFields
<1>2. NewInfo(Genesis) \in AccountInfos /\ NewInfo(Genesis) # NoInfo
  BY <1>1, NoInfoAssumption DEF NewInfo, AccountInfos, Types
<1>3. ChainTables(InitLedger)
  BY <1>1, <1>2 DEF ChainTables, IsLedger, InitLedger
<1>4. ASSUME NEW a \in Accounts
      PROVE  Chained(InitLedger, a)
  <2>1. CASE a = own
    <3>1. ChainOf(InitLedger, a) = {Genesis}
      BY <1>1, <2>1 DEF ChainOf, InitLedger
    <3>2. InitLedger.info[a] = NewInfo(Genesis)
      BY <2>1 DEF InitLedger
    <3>3. InitLedger.successor[Genesis] = NoBlock
      BY <1>1 DEF InitLedger
    <3>4. {Block[b].height : b \in {Genesis}} = 0..0
      BY <1>1
    <3>5. QED
      BY <1>1, <1>2, <3>1, <3>2, <3>3, <3>4 DEF Chained, NewInfo, ForkWith
  <2>2. CASE a # own
    BY <2>2 DEF Chained, ChainOf, InitLedger
  <2>3. QED
    BY <2>1, <2>2
<1>5. Confirmed(InitLedger)
  BY <1>2 DEF Confirmed, InitLedger, NewInfo, INVALID_HEIGHT
<1>6. QED
  BY <1>3, <1>4, <1>5 DEF ChainInv

\* The chain invariant is kept by an append,
LEMMA AppendChainInv ==
  ASSUME NEW L, ChainInv(L), NEW b \in Blocks,
         NEW now, AppendCode(L, b, now) = "SUCCESS"
  PROVE  ChainInv(AppendBlock(L, b))
<1> DEFINE N == AppendBlock(L, b)
           own == Block[b].account
           info == L.info[own]
<1>1. ChainTables(N) /\ \A a \in Accounts : Chained(N, a)
  BY AppendChained DEF ChainInv
<1>2. N.info = UpdateAccountInfo(L, b).info /\ IsLedger(L)
  BY AppendEffect DEF ChainInv, ChainTables
<1>3. own \in Accounts /\ Block[b].height \in Nat
  BY BlocksAssumption DEF BlockFields
<1>4. N.info = [L.info EXCEPT ![own] =
                  IF info = NoInfo THEN NewInfo(b)
                  ELSE [info EXCEPT !.head = b, !.headHeight = Block[b].height]]
  BY <1>2 DEF IsLedger, UpdateAccountInfo
<1> HIDE DEF N
<1>5. info # NoInfo => /\ info \in AccountInfos
                       /\ Block[b].height = info.headHeight + 1
                       /\ info.confirmed <= info.headHeight
  BY <1>3, AppendChecked DEF ChainInv, ChainTables, Confirmed
<1>6. N.info[own].confirmed <= N.info[own].headHeight
  <2>1. CASE info = NoInfo
    <3>1. N.info[own] = NewInfo(b)
      BY <1>3, <1>4, <2>1 DEF ChainInv, ChainTables
    <3>2. QED
      BY <3>1 DEF NewInfo, INVALID_HEIGHT
  <2>2. CASE info # NoInfo
    <3>1. N.info[own] = [info EXCEPT !.head = b, !.headHeight = Block[b].height]
      BY <1>3, <1>4, <2>2 DEF ChainInv, ChainTables
    <3>2. N.info[own].confirmed = info.confirmed
          /\ N.info[own].headHeight = Block[b].height
      BY <1>5, <2>2, <3>1 DEF AccountInfos
    <3>3. QED
      BY <1>5, <2>2, <3>2 DEF AccountInfos, INVALID_HEIGHT
  <2>3. QED
    BY <2>1, <2>2
<1>7. \A a \in Accounts : a # own => N.info[a] = L.info[a]
  BY <1>4 DEF ChainInv, ChainTables
<1>8. Confirmed(N)
  BY <1>6, <1>7 DEF ChainInv, Confirmed
<1>9. QED
  BY <1>1, <1>8 DEF ChainInv, N

\* by a rollback,
LEMMA RollbackChainInv ==
  ASSUME NEW L, ChainInv(L), NEW b \in Blocks, RollbackCode(L, b) = "SUCCESS"
  PROVE  ChainInv(RollbackBlock(L, b))
<1> DEFINE N == RollbackBlock(L, b)
           own == Block[b].account
           info == L.info[own]
           left == Block[b].height - 1
<1>1. ChainTables(N) /\ \A a \in Accounts : Chained(N, a)
  BY RollbackChained DEF ChainInv
<1>2. N.info = RetractAccountInfo(L, b).info /\ IsLedger(L)
  BY RollbackEffect DEF ChainInv, ChainTables
<1>3. own \in Accounts /\ Block[b].height \in Nat
  BY BlocksAssumption DEF BlockFields
<1>4. N.info = [L.info EXCEPT ![own] =
                  IF Block[b].height = 0 THEN NoInfo
                  ELSE [type |-> info.type, head |-> Block[b].previous,
                        headHeight |-> left,
                        confirmed |-> IF info.confirmed > left
                                      THEN INVALID_HEIGHT ELSE info.confirmed]]
  BY <1>2 DEF IsLedger, RetractAccountInfo
<1> HIDE DEF N
<1>5. info \in AccountInfos
  BY <1>3, RollbackChecked DEF ChainInv, ChainTables
<1>6. N.info[own] # NoInfo => N.info[own].confirmed <= N.info[own].headHeight
  <2>1. CASE Block[b].height = 0
    BY <1>3, <1>4, <2>1 DEF ChainInv, ChainTables
  <2>2. CASE Block[b].height # 0
    <3>1. /\ N.info[own].headHeight = left
          /\ N.info[own].confirmed = IF info.confirmed > left
                                     THEN INVALID_HEIGHT ELSE info.confirmed
      BY <1>3, <1>4, <2>2 DEF ChainInv, ChainTables
    <3>2. QED
      BY <1>3, <1>5, <2>2, <3>1 DEF AccountInfos, INVALID_HEIGHT
  <2>3. QED
    BY <2>1, <2>2
<1>7. \A a \in Accounts : a # own => N.info[a] = L.info[a]
  BY <1>4 DEF ChainInv, ChainTables
<1>8. Confirmed(N)
  BY <1>6, <1>7 DEF ChainInv, Confirmed
<1>9. QED
  BY <1>1, <1>8 DEF ChainInv, N

\* Confirming raises the confirmed height of an account to the height of a
\* stored block and leaves everything else alone.
LEMMA ConfirmChainInv ==
  ASSUME NEW L, ChainInv(L), NEW b \in Blocks, ConfirmCode(L, b) = "SUCCESS"
  PROVE  /\ ChainInv(ConfirmBlock(L, b))
         /\ ConfirmBlock(L, b).stored = L.stored
         /\ ConfirmBlock(L, b).rollbacks = L.rollbacks
<1> DEFINE N == ConfirmBlock(L, b)
           own == Block[b].account
           info == L.info[own]
           h == Block[b].height
<1>1. b \in L.stored /\ info # NoInfo
  BY DEF ConfirmCode, AndThen, Unless
<1>2. own \in Accounts /\ h \in Nat
  BY BlocksAssumption DEF BlockFields
<1>3. info \in AccountInfos /\ h \in 0..info.headHeight
  <2>1. info \in AccountInfos
    BY <1>1, <1>2 DEF ChainInv, ChainTables
  <2>2. b \in ChainOf(L, own)
    BY <1>1 DEF ChainOf
  <2>3. {Block[c].height : c \in ChainOf(L, own)} = 0..info.headHeight
    BY <1>1, <1>2 DEF ChainInv, Chained
  <2>4. QED
    BY <2>1, <2>2, <2>3
<1>4. CASE ~(h > info.confirmed)
  BY <1>4 DEF ConfirmBlock
<1>5. CASE h > info.confirmed
  <2> DEFINE new == [info EXCEPT !.confirmed = h]
  <2>1. N = [L EXCEPT !.info = [L.info EXCEPT ![own] = new]]
    BY <1>2, <1>5 DEF ConfirmBlock, ChainInv, ChainTables, IsLedger
  <2>2. /\ IsLedger(N) /\ N.stored = L.stored /\ N.successor = L.successor
        /\ N.rollbacks = L.rollbacks /\ N.info = [L.info EXCEPT ![own] = new]
    <3> HIDE DEF new, N
    <3>1. QED
      BY <2>1 DEF IsLedger, ChainInv, ChainTables
  <2> HIDE DEF N
  <2>3. /\ new \in AccountInfos /\ new.type = info.type /\ new.head = info.head
        /\ new.headHeight = info.headHeight /\ new.confirmed = h
    BY <1>2, <1>3 DEF AccountInfos
  <2>4. N.info[own] = new /\ new # NoInfo
    BY <1>2, <2>2, <2>3, NoInfoAssumption DEF ChainInv, ChainTables
  <2>5. \A a \in Accounts : a # own => N.info[a] = L.info[a]
    BY <2>2 DEF ChainInv, ChainTables
  <2> HIDE DEF new
  <2>6. ChainTables(N)
    BY <1>2, <2>2, <2>3 DEF ChainInv, ChainTables
  <2>7. ASSUME NEW a \in Accounts
        PROVE  Chained(N, a)
    <3>1. ChainOf(N, a) = ChainOf(L, a) /\ Chained(L, a)
      BY <2>2 DEF ChainOf, ChainInv
    <3>2. CASE a # own
      BY <2>2, <2>5, <3>1, <3>2, ChainedFrame
    <3>3. CASE a = own
      BY <1>1, <2>2, <2>3, <2>4, <3>1, <3>3, ZenonT(60) DEF Chained
    <3>4. QED
      BY <3>2, <3>3
  <2>8. new.confirmed <= new.headHeight
    BY <1>3, <2>3
  <2>9. Confirmed(N)
    BY <2>4, <2>5, <2>8 DEF ChainInv, Confirmed
  <2>10. QED
    BY <2>2, <2>6, <2>7, <2>9 DEF ChainInv, N
<1>6. QED
  BY <1>4, <1>5

\* A restart rebuilds the weights and reads the chains as they are.
LEMMA RestartChainInv ==
  ASSUME NEW L, ChainInv(L)
  PROVE  /\ ChainInv(InitMemoryTables(L))
         /\ InitMemoryTables(L).stored = L.stored
         /\ InitMemoryTables(L).successor = L.successor
         /\ InitMemoryTables(L).rollbacks = L.rollbacks
<1> DEFINE N == InitMemoryTables(L)
<1>1. IsLedger(L)
  BY DEF ChainInv, ChainTables
<1>2. /\ IsLedger(N) /\ N.stored = L.stored /\ N.successor = L.successor
      /\ N.info = L.info /\ N.rollbacks = L.rollbacks
  <2> DEFINE w == [r \in Accounts |-> HeadWeight(L, r)]
             t == SumFunction([r \in Accounts |-> HeadWeight(L, r)])
             weighed == [L EXCEPT !.weight = w]
  <2>1. N = [weighed EXCEPT !.totalWeight = t]
    <3> HIDE DEF w, t
    <3>1. N = [L EXCEPT !.weight = w, !.totalWeight = t]
      BY DEF InitMemoryTables, w, t
    <3>2. QED
      BY <1>1, <3>1 DEF IsLedger
  <2> HIDE DEF w, t
  <2>2. SameChains(L, weighed)
    BY <1>1 DEF IsLedger, SameChains
  <2> HIDE DEF weighed, N
  <2>3. SameChains(L, N)
    BY <2>1, <2>2 DEF IsLedger, SameChains
  <2>4. QED
    BY <2>3 DEF SameChains
<1> HIDE DEF N
<1>3. ChainTables(N) /\ Confirmed(N)
  BY <1>2 DEF ChainInv, ChainTables, Confirmed
<1>4. ASSUME NEW a \in Accounts
      PROVE  Chained(N, a)
  BY <1>2 DEF ChainInv, Chained, ChainOf
<1>5. QED
  BY <1>2, <1>3, <1>4 DEF ChainInv, N

-----------------------------------------------------------------------------
(* The tables that hang on the chains.                                     *)

HeadOf(L, b) ==
  LET info == L.info[Block[b].account] IN IF info = NoInfo THEN NoBlock ELSE info.head

\* N has the receivables, rewardables and bindings of L.
SameTables(L, N) ==
  /\ IsLedger(N)
  /\ N.receivable = L.receivable /\ N.rewardable = L.rewardable
  /\ N.bindings = L.bindings /\ N.bindingCount = L.bindingCount

\* The table of receivables that ApplyOperation makes from L.
AppendedReceivable(L, b) ==
  IF Block[b].opcode = "SEND"
  THEN ReceivablePut(L, ReceivableInfo(Block[b].link, b,
         Block[HeadOf(L, b)].balance - Block[b].balance))
  ELSE IF Block[b].opcode = "RECEIVE"
  THEN L.receivable \ ReceivableGet(L, Block[b].account, Block[b].link)
  ELSE L.receivable

\* The table of rewardables after PutRewardableInfo and ApplyOperation.
ReleasedRewardable(L, b) ==
  LET head == HeadOf(L, b)
  IN  IF head = NoBlock \/ ~HasRepresentative(head) \/ Reward(head, b) = 0
      THEN L.rewardable
      ELSE RewardablePut(L, RewardableInfo(head, b, Reward(head, b)))

AppendedRewardable(L, b) ==
  IF Block[b].opcode = "REWARD"
  THEN {r \in ReleasedRewardable(L, b) :
          ~(r.rep = Block[b].account /\ r.source = Block[b].link)}
  ELSE ReleasedRewardable(L, b)

\* The same for RevertOperation and DeleteRewardableInfo.
RevertedReceivable(L, b) ==
  IF Block[b].opcode = "SEND"
  THEN L.receivable \ ReceivableGet(L, Block[b].link, b)
  ELSE IF Block[b].opcode = "RECEIVE"
  THEN ReceivablePut(L, ReceivableInfo(Block[b].account, Block[b].link, TakenAmount(b)))
  ELSE L.receivable

ReturnedRewardable(L, b) ==
  IF Block[b].opcode = "REWARD"
  THEN RewardablePut(L,
         [RewardableInfo(Block[b].link, L.successor[Block[b].link], TakenAmount(b))
            EXCEPT !.rep = Block[b].account])
  ELSE L.rewardable

RevertedRewardable(L, b) ==
  LET prev == Block[b].previous
  IN  IF ~HasRepresentative(b) \/ Block[b].height = 0 \/ Reward(prev, b) = 0
      THEN ReturnedRewardable(L, b)
      ELSE {r \in ReturnedRewardable(L, b) : ~(r.rep = Block[prev].rep /\ r.source = prev)}

\* RepWeightAdd_ leaves the tables alone,
LEMMA AddTables ==
  ASSUME NEW L, IsLedger(L), NEW r, NEW w
  PROVE  SameTables(L, RepWeightAdd(L, r, w))
<1> DEFINE N == [L EXCEPT !.weight[r] = @ + w]
<1>1. SameTables(L, N)
  BY DEF IsLedger, SameTables
<1>2. RepWeightAdd(L, r, w) = [N EXCEPT !.totalWeight = L.totalWeight + w]
  BY DEF IsLedger, RepWeightAdd
<1>3. QED
  BY <1>1, <1>2 DEF IsLedger, SameTables

\* and so does RepWeightSub_.
LEMMA SubTables ==
  ASSUME NEW L, IsLedger(L), NEW r, NEW w
  PROVE  SameTables(L, RepWeightSub(L, r, w))
BY DEF IsLedger, SameTables, RepWeightSub

\* What a block does to the tables when it is appended.
LEMMA AppendTables ==
  ASSUME NEW L, IsLedger(L), NEW b
  PROVE  LET N == AppendBlock(L, b)
             a == Block[b].account
         IN  /\ N.receivable = AppendedReceivable(L, b)
             /\ N.rewardable = AppendedRewardable(L, b)
             /\ Block[b].opcode # "BIND" =>
                  N.bindings = L.bindings /\ N.bindingCount = L.bindingCount
             /\ Block[b].opcode = "BIND" =>
                  /\ N.bindings = L.bindings \cup {<<a, Block[b].height>>}
                  /\ N.bindingCount = [L.bindingCount EXCEPT ![a] = L.bindingCount[a] + 1]
<1> DEFINE head == HeadOf(L, b)
           put == PutBlockSuccessor(L, b)
           chained == UpdateAccountInfo(put, b)
           weighed == UpdateRepInfo(chained, head, b)
           rewarded == PutRewardableInfo(weighed, head, b)
<1>1. AppendBlock(L, b) = ApplyOperation(rewarded, head, b)
  BY DEF AppendBlock, HeadOf
<1>2. SameTables(L, put)
  <2> DEFINE more == [L EXCEPT !.stored = @ \cup {b}]
  <2>1. SameTables(L, more)
    BY DEF IsLedger, SameTables
  <2>2. put = [more EXCEPT !.successor = put.successor]
    BY DEF IsLedger, PutBlockSuccessor
  <2> HIDE DEF more, put
  <2>3. QED
    BY <2>1, <2>2 DEF IsLedger, SameTables
<1>3. SameTables(L, chained)
  <2> HIDE DEF put
  <2>1. QED
    BY <1>2 DEF IsLedger, UpdateAccountInfo, SameTables
<1>4. SameTables(chained, weighed)
  <2> HIDE DEF chained
  <2> DEFINE retracted == IF head = NoBlock THEN chained
                          ELSE RepWeightSub(chained, Block[head].rep, Block[head].balance)
  <2>1. IsLedger(chained) /\ SameTables(chained, chained)
    BY <1>3 DEF SameTables
  <2>2. SameTables(chained, retracted)
    BY <2>1, SubTables
  <2>3. SameTables(retracted, RepWeightAdd(retracted, Block[b].rep, Block[b].balance))
    <3>1. IsLedger(retracted)
      BY <2>2 DEF SameTables
    <3>2. QED
      BY <3>1, AddTables
  <2>4. QED
    BY <2>1, <2>2, <2>3 DEF SameTables, UpdateRepInfo
<1>5. SameTables(L, weighed)
  BY <1>3, <1>4 DEF SameTables
<1> HIDE DEF put, chained, weighed
<1>6. /\ IsLedger(rewarded)
      /\ rewarded.receivable = L.receivable
      /\ rewarded.bindings = L.bindings /\ rewarded.bindingCount = L.bindingCount
      /\ rewarded.rewardable = ReleasedRewardable(L, b)
  BY <1>5 DEF SameTables, IsLedger, PutRewardableInfo, ReleasedRewardable,
              RewardablePut, RewardableGet
<1> HIDE DEF rewarded, head
<1> DEFINE N == ApplyOperation(rewarded, head, b)
           op == Block[b].opcode
<1>7. CASE op = "SEND"
  <2>1. N = [rewarded EXCEPT !.receivable = ReceivablePut(rewarded,
                ReceivableInfo(Block[b].link, b, Block[head].balance - Block[b].balance))]
    BY <1>7 DEF ApplyOperation
  <2>2. QED
    BY <1>1, <1>6, <1>7, <2>1
    DEF IsLedger, AppendedReceivable, AppendedRewardable, ReceivablePut, ReceivableGet, head
<1>8. CASE op = "RECEIVE"
  <2>1. N = [rewarded EXCEPT !.receivable =
               @ \ ReceivableGet(rewarded, Block[b].account, Block[b].link)]
    BY <1>8 DEF ApplyOperation
  <2>2. QED
    BY <1>1, <1>6, <1>8, <2>1
    DEF IsLedger, AppendedReceivable, AppendedRewardable, ReceivableGet
<1>9. CASE op = "REWARD"
  <2>1. N = [rewarded EXCEPT !.rewardable =
               @ \ RewardableGet(rewarded, Block[b].account, Block[b].link)]
    BY <1>9 DEF ApplyOperation
  <2>2. N.rewardable = AppendedRewardable(L, b)
    BY <1>6, <1>9, <2>1 DEF IsLedger, AppendedRewardable, RewardableGet
  <2>3. QED
    BY <1>1, <1>6, <1>9, <2>1, <2>2 DEF IsLedger, AppendedReceivable
<1>10. CASE op = "BIND"
  <2>1. N = BindingPut(rewarded, Block[b].account, Block[b].height)
    BY <1>10 DEF ApplyOperation
  <2> DEFINE bound == [rewarded EXCEPT
                         !.bindings = @ \cup {<<Block[b].account, Block[b].height>>}]
  <2>2. /\ IsLedger(bound) /\ bound.receivable = L.receivable
        /\ bound.rewardable = ReleasedRewardable(L, b)
        /\ bound.bindings = L.bindings \cup {<<Block[b].account, Block[b].height>>}
        /\ bound.bindingCount = L.bindingCount
    BY <1>6 DEF IsLedger
  <2>3. N = [bound EXCEPT !.bindingCount[Block[b].account] =
               rewarded.bindingCount[Block[b].account] + 1]
    BY <1>6, <2>1 DEF BindingPut, IsLedger
  <2> HIDE DEF bound
  <2>4. QED
    BY <1>1, <1>6, <1>10, <2>2, <2>3 DEF IsLedger, AppendedReceivable, AppendedRewardable
<1>11. CASE op \notin {"SEND", "RECEIVE", "REWARD", "BIND"}
  <2>1. N = rewarded
    BY <1>11 DEF ApplyOperation
  <2>2. QED
    BY <1>1, <1>6, <1>11, <2>1 DEF AppendedReceivable, AppendedRewardable
<1>12. QED
  BY <1>7, <1>8, <1>9, <1>10, <1>11

\* What a block does to the tables when it is rolled back.
LEMMA RollbackTables ==
  ASSUME NEW L, IsLedger(L), NEW b
  PROVE  LET N == RollbackBlock(L, b)
             a == Block[b].account
         IN  /\ N.receivable = RevertedReceivable(L, b)
             /\ N.rewardable = RevertedRewardable(L, b)
             /\ Block[b].opcode # "BIND" =>
                  N.bindings = L.bindings /\ N.bindingCount = L.bindingCount
             /\ Block[b].opcode = "BIND" =>
                  /\ N.bindings = L.bindings \ {<<a, Block[b].height>>}
                  /\ N.bindingCount = [L.bindingCount EXCEPT ![a] = L.bindingCount[a] - 1]
<1> DEFINE op == Block[b].opcode
           a == Block[b].account
           reverted == RevertOperation(L, b)
           deleted == DeleteBlockSuccessor(reverted, b)
           archived == PutRollbackBlock(deleted, b)
           retracted == RetractAccountInfo(archived, b)
           unrewarded == DeleteRewardableInfo(retracted, b)
           Effect(N) ==
             /\ IsLedger(N)
             /\ N.receivable = RevertedReceivable(L, b)
             /\ N.rewardable = ReturnedRewardable(L, b)
             /\ op # "BIND" =>
                  N.bindings = L.bindings /\ N.bindingCount = L.bindingCount
             /\ op = "BIND" =>
                  /\ N.bindings = L.bindings \ {<<a, Block[b].height>>}
                  /\ N.bindingCount = [L.bindingCount EXCEPT ![a] = L.bindingCount[a] - 1]
<1>1. Effect(reverted)
  <2>1. CASE op = "SEND"
    <3>1. reverted = [L EXCEPT !.receivable = @ \ ReceivableGet(L, Block[b].link, b)]
      BY <2>1 DEF RevertOperation
    <3>2. QED
      BY <2>1, <3>1 DEF IsLedger, RevertedReceivable, ReturnedRewardable
  <2>2. CASE op = "RECEIVE"
    <3>1. reverted = [L EXCEPT !.receivable =
            ReceivablePut(L, ReceivableInfo(a, Block[b].link, TakenAmount(b)))]
      BY <2>2 DEF RevertOperation
    <3>2. QED
      BY <2>2, <3>1 DEF IsLedger, RevertedReceivable, ReturnedRewardable
  <2>3. CASE op = "REWARD"
    <3>1. reverted = [L EXCEPT !.rewardable = ReturnedRewardable(L, b)]
      BY <2>3 DEF RevertOperation, ReturnedRewardable
    <3>2. QED
      BY <2>3, <3>1 DEF IsLedger, RevertedReceivable
  <2>4. CASE op = "BIND"
    <3> DEFINE unbound == [L EXCEPT !.bindings = @ \ {<<a, Block[b].height>>}]
    <3>1. reverted = BindingDel(L, a, Block[b].height)
      BY <2>4 DEF RevertOperation
    <3>2. reverted = [unbound EXCEPT !.bindingCount[a] = L.bindingCount[a] - 1]
      BY <3>1 DEF BindingDel, IsLedger
    <3>3. /\ IsLedger(unbound) /\ unbound.receivable = L.receivable
          /\ unbound.rewardable = L.rewardable
          /\ unbound.bindings = L.bindings \ {<<a, Block[b].height>>}
          /\ unbound.bindingCount = L.bindingCount
      BY DEF IsLedger
    <3> HIDE DEF unbound
    <3>4. QED
      BY <2>4, <3>2, <3>3 DEF IsLedger, RevertedReceivable, ReturnedRewardable
  <2>5. CASE op \notin {"SEND", "RECEIVE", "REWARD", "BIND"}
    <3>1. reverted = L
      BY <2>5 DEF RevertOperation
    <3>2. QED
      BY <2>5, <3>1 DEF RevertedReceivable, ReturnedRewardable
  <2>6. QED
    BY <2>1, <2>2, <2>3, <2>4, <2>5
<1>2. ASSUME NEW M, NEW N, Effect(M), SameTables(M, N)
      PROVE  Effect(N)
  BY <1>2 DEF SameTables
<1> HIDE DEF reverted
<1>3. Effect(deleted)
  <2> DEFINE less == [reverted EXCEPT !.stored = @ \ {b}]
  <2>1. SameTables(reverted, less)
    BY <1>1 DEF IsLedger, SameTables
  <2>2. deleted = [less EXCEPT !.successor = deleted.successor]
    BY <1>1 DEF IsLedger, DeleteBlockSuccessor
  <2> HIDE DEF less, deleted
  <2>3. SameTables(reverted, deleted)
    BY <2>1, <2>2 DEF IsLedger, SameTables
  <2>4. QED
    BY <1>1, <1>2, <2>3
<1> HIDE DEF deleted
<1>4. Effect(archived)
  <2>1. SameTables(deleted, archived)
    BY <1>3 DEF IsLedger, SameTables, PutRollbackBlock
  <2>2. QED
    BY <1>2, <1>3, <2>1
<1> HIDE DEF archived
<1>5. Effect(retracted)
  <2>1. SameTables(archived, retracted)
    BY <1>4 DEF IsLedger, SameTables, RetractAccountInfo
  <2>2. QED
    BY <1>2, <1>4, <2>1
<1> HIDE DEF retracted
<1>6. /\ IsLedger(unrewarded)
      /\ unrewarded.rewardable = RevertedRewardable(L, b)
      /\ unrewarded.receivable = retracted.receivable
      /\ unrewarded.bindings = retracted.bindings
      /\ unrewarded.bindingCount = retracted.bindingCount
  BY <1>5 DEF IsLedger, DeleteRewardableInfo, RevertedRewardable, RewardableGet
<1>7. SameTables(unrewarded, UpdateRepWeight(unrewarded, b))
  <2> HIDE DEF unrewarded
  <2> DEFINE subtracted == RepWeightSub(unrewarded, Block[b].rep, Block[b].balance)
             prev == Block[b].previous
  <2>1. SameTables(unrewarded, unrewarded) /\ SameTables(unrewarded, subtracted)
    BY <1>6, SubTables DEF SameTables
  <2>2. IsLedger(subtracted)
    BY <2>1 DEF SameTables
  <2>3. SameTables(subtracted,
                   RepWeightAdd(subtracted, Block[prev].rep, Block[prev].balance))
    BY <2>2, AddTables
  <2>4. QED
    BY <2>1, <2>3 DEF SameTables, UpdateRepWeight
<1>8. RollbackBlock(L, b) = UpdateRepWeight(unrewarded, b)
  BY DEF RollbackBlock, reverted, deleted, archived, retracted
<1> HIDE DEF unrewarded
<1>9. QED
  BY <1>5, <1>6, <1>7, <1>8 DEF SameTables

-----------------------------------------------------------------------------
(* What the checks of a receive and of a reward establish.                 *)

\* A block that takes something from its source: the source is stored, the
\* entry is there, and the amount taken is the amount of the entry.
LEMMA TakeChecked ==
  ASSUME NEW L, ChainTables(L), NEW b \in Blocks,
         NEW now, AppendCode(L, b, now) = "SUCCESS"
  PROVE  /\ Block[b].opcode = "RECEIVE" =>
              /\ Block[b].link \in L.stored
              /\ ReceivableGet(L, Block[b].account, Block[b].link) # {}
              /\ \A r \in ReceivableGet(L, Block[b].account, Block[b].link) :
                   r.amount = TakenAmount(b)
         /\ Block[b].opcode = "REWARD" =>
              /\ Block[b].link \in L.stored
              /\ RewardableGet(L, Block[b].account, Block[b].link) # {}
              /\ \A r \in RewardableGet(L, Block[b].account, Block[b].link) :
                   r.amount = TakenAmount(b)
         /\ Block[b].opcode \notin {"RECEIVE", "REWARD"} =>
              L.info[Block[b].account] # NoInfo
<1> DEFINE info == L.info[Block[b].account]
           op == Block[b].opcode
           paid == IF op = "RECEIVE" THEN CheckReceivable(L, b, TakenAmount(b))
                   ELSE CheckRewardable(L, b, TakenAmount(b))
<1>1. /\ info = NoInfo => Block[b].height = 0
      /\ info # NoInfo => /\ Block[b].height = info.headHeight + 1
                          /\ Block[b].previous = info.head
                          /\ info \in AccountInfos
  <2>1. Block[b].account \in Accounts
    BY BlocksAssumption DEF BlockFields
  <2>2. QED
    BY <2>1, AppendChecked DEF ChainTables
<1>2. info = NoInfo => CheckOpen(L, b) = "SUCCESS"
  BY DEF AppendCode, AndThen, Unless, CheckCommon
<1>3. info # NoInfo => CheckOperation(L, info.head, b) = "SUCCESS"
  BY DEF AppendCode, AndThen
<1>4. info # NoInfo => Block[b].height # 0
  BY <1>1 DEF AccountInfos
<1>5. ASSUME op \in {"RECEIVE", "REWARD"}
      PROVE  paid = "SUCCESS" /\ Block[b].link \in L.stored
  <2>1. CASE info = NoInfo
    <3>1. TakenAmount(b) = OpenAmount(b)
      BY <1>1, <2>1 DEF TakenAmount
    <3>2. CASE op = "RECEIVE"
      <4>1. AndThen(CheckFirstCommon(b),
            AndThen(Unless(Block[b].counter # 1, "COUNTER"),
            AndThen(CheckSource(L, b, "GAP_RECEIVE_SOURCE"),
                    CheckReceivable(L, b, OpenAmount(b))))) = "SUCCESS"
        BY <1>2, <2>1, <3>2 DEF CheckOpen
      <4>2. /\ CheckSource(L, b, "GAP_RECEIVE_SOURCE") = "SUCCESS"
            /\ CheckReceivable(L, b, OpenAmount(b)) = "SUCCESS"
        BY <4>1 DEF AndThen
      <4>3. QED
        BY <3>1, <3>2, <4>2 DEF CheckSource, AndThen, Unless
    <3>3. CASE op = "REWARD"
      <4>1. AndThen(CheckFirstCommon(b),
            AndThen(Unless(Block[b].counter # 0, "COUNTER"),
            AndThen(CheckSource(L, b, "GAP_REWARD_SOURCE"),
                    CheckRewardable(L, b, OpenAmount(b))))) = "SUCCESS"
        BY <1>2, <2>1, <3>3 DEF CheckOpen
      <4>2. /\ CheckSource(L, b, "GAP_REWARD_SOURCE") = "SUCCESS"
            /\ CheckRewardable(L, b, OpenAmount(b)) = "SUCCESS"
        BY <4>1 DEF AndThen
      <4>3. QED
        BY <3>1, <3>3, <4>2 DEF CheckSource, AndThen, Unless
    <3>4. QED
      BY <1>5, <3>2, <3>3
  <2>2. CASE info # NoInfo
    <3>1. TakenAmount(b) = Block[b].balance - Block[info.head].balance
      BY <1>1, <1>4, <2>2, SMTT(40) DEF TakenAmount
    <3> DEFINE taken == Block[b].balance - Block[info.head].balance
    <3>2. CASE op = "RECEIVE"
      <4>1. AndThen(CheckSource(L, b, "GAP_RECEIVE_SOURCE"),
            AndThen(Unless(Block[b].balance <= Block[info.head].balance, "BALANCE"),
                    CheckReceivable(L, b, taken))) = "SUCCESS"
        BY <1>3, <2>2, <3>2 DEF CheckOperation
      <4>2. /\ CheckSource(L, b, "GAP_RECEIVE_SOURCE") = "SUCCESS"
            /\ CheckReceivable(L, b, taken) = "SUCCESS"
        BY <4>1, SMTT(40) DEF AndThen
      <4>3. QED
        BY <3>1, <3>2, <4>2 DEF CheckSource, AndThen, Unless
    <3>3. CASE op = "REWARD"
      <4>1. AndThen(CheckSource(L, b, "GAP_REWARD_SOURCE"),
            AndThen(Unless(Block[b].balance <= Block[info.head].balance, "BALANCE"),
                    CheckRewardable(L, b, taken))) = "SUCCESS"
        BY <1>3, <2>2, <3>3 DEF CheckOperation
      <4>2. /\ CheckSource(L, b, "GAP_REWARD_SOURCE") = "SUCCESS"
            /\ CheckRewardable(L, b, taken) = "SUCCESS"
        BY <4>1 DEF AndThen
      <4>3. QED
        BY <3>1, <3>3, <4>2 DEF CheckSource, AndThen, Unless
    <3>4. QED
      BY <1>5, <3>2, <3>3
  <2>3. QED
    BY <2>1, <2>2
<1>6. ASSUME op = "RECEIVE"
      PROVE  /\ ReceivableGet(L, Block[b].account, Block[b].link) # {}
             /\ \A r \in ReceivableGet(L, Block[b].account, Block[b].link) :
                  r.amount = TakenAmount(b)
  BY <1>5, <1>6 DEF CheckReceivable, AndThen, Unless
<1>7. ASSUME op = "REWARD"
      PROVE  /\ RewardableGet(L, Block[b].account, Block[b].link) # {}
             /\ \A r \in RewardableGet(L, Block[b].account, Block[b].link) :
                  r.amount = TakenAmount(b)
  BY <1>5, <1>7 DEF CheckRewardable, AndThen, Unless
<1>8. op \notin {"RECEIVE", "REWARD"} => info # NoInfo
  BY <1>2 DEF CheckOpen
<1>9. QED
  BY <1>5, <1>6, <1>7, <1>8

\* A block that can go has its source, and what it brought is still there.
LEMMA RevertChecked ==
  ASSUME NEW L, NEW b \in Blocks, RollbackCode(L, b) = "SUCCESS"
  PROVE  /\ Block[b].opcode = "SEND" => ReceivableGet(L, Block[b].link, b) # {}
         /\ Block[b].opcode \in {"RECEIVE", "REWARD"} => Block[b].link \in L.stored
         /\ ~ /\ HasRepresentative(b) /\ Block[b].height # 0
              /\ Reward(Block[b].previous, b) # 0
              /\ RewardableGet(L, Block[Block[b].previous].rep, Block[b].previous) = {}
<1>1. CheckRollback(L, b) = "SUCCESS"
  BY DEF RollbackCode, AndThen
<1>2. Unless(/\ HasRepresentative(b) /\ Block[b].height # 0
             /\ Reward(Block[b].previous, b) # 0
             /\ RewardableGet(L, Block[Block[b].previous].rep, Block[b].previous) = {},
             "ROLLBACK_REWARDED") = "SUCCESS"
  BY <1>1 DEF CheckRollback, AndThen
<1>3. Block[b].opcode = "SEND" => ReceivableGet(L, Block[b].link, b) # {}
  BY <1>1 DEF RollbackCode, AndThen, Unless
<1>4. Block[b].opcode = "RECEIVE" => Block[b].link \in L.stored
  BY <1>1 DEF RollbackCode, AndThen, Unless
<1>5. Block[b].opcode = "REWARD" => Block[b].link \in L.stored
  BY <1>1 DEF RollbackCode, AndThen, Unless
<1>6. QED
  BY <1>2, <1>3, <1>4, <1>5 DEF Unless

-----------------------------------------------------------------------------
(* Receivables.                                                            *)

SentAmount(s) == Block[Block[s].previous].balance - Block[s].balance

Entries(table, s) == {r \in table : r.source = s}

\* ReceivedOnce for s, with what makes it inductive: the block that received s
\* is one of the account s was sent to, and took all of it.
Receivable(L, s) ==
  LET entries == Entries(L.receivable, s)
      takers  == Takers(L, "RECEIVE", s)
  IN  IF s \in L.stored /\ Block[s].opcode = "SEND"
      THEN \/ /\ entries = {}
              /\ \E t \in Blocks : /\ takers = {t}
                                   /\ Block[t].account = Block[s].link
                                   /\ TakenAmount(t) = SentAmount(s)
           \/ /\ takers = {}
              /\ entries = {ReceivableInfo(Block[s].link, s, SentAmount(s))}
      ELSE takers = {} /\ entries = {}

\* Whether a send is receivable depends on its entries and takers only.
LEMMA ReceivableFrame ==
  ASSUME NEW L, NEW N, NEW s, Receivable(L, s),
         s \in N.stored <=> s \in L.stored,
         Takers(N, "RECEIVE", s) = Takers(L, "RECEIVE", s),
         Entries(N.receivable, s) = Entries(L.receivable, s)
  PROVE  Receivable(N, s)
BY DEF Receivable

\* An append keeps every send either receivable or received once,
LEMMA AppendReceivable ==
  ASSUME NEW L, ChainInv(L), \A s \in Blocks : Receivable(L, s),
         NEW b \in Blocks, NEW now, AppendCode(L, b, now) = "SUCCESS",
         NEW s \in Blocks
  PROVE  Receivable(AppendBlock(L, b), s)
<1> DEFINE N == AppendBlock(L, b)
           op == Block[b].opcode
           a == Block[b].account
           source == Block[b].link
<1>1. ChainTables(L) /\ IsLedger(L)
  BY DEF ChainInv, ChainTables
<1>2. N.stored = L.stored \cup {b} /\ b \notin L.stored
  BY <1>1, AppendEffect, AppendChecked
<1>3. N.receivable = AppendedReceivable(L, b)
  BY <1>1, AppendTables
<1>4. Receivable(L, s)
  OBVIOUS
<1>5. Takers(L, "RECEIVE", b) = {} /\ Entries(L.receivable, b) = {}
  BY <1>2 DEF Receivable
<1> SUFFICES Receivable(N, s)
  OBVIOUS
<1> HIDE DEF N
<1>6. CASE op = "SEND"
  <2>1. L.info[a] # NoInfo /\ HeadOf(L, b) = Block[b].previous
    <3>1. L.info[a] # NoInfo
      BY <1>1, <1>6, TakeChecked
    <3>2. QED
      BY <1>1, <3>1, AppendChecked DEF HeadOf
  <2> DEFINE e == ReceivableInfo(source, b, SentAmount(b))
  <2>2. e.source = b /\ e.to = source
    BY DEF ReceivableInfo
  <2>3. N.receivable = (L.receivable \ ReceivableGet(L, source, b)) \cup {e}
    BY <1>3, <1>6, <2>1, <2>2 DEF AppendedReceivable, ReceivablePut, SentAmount
  <2> HIDE DEF e
  <2>4. Takers(N, "RECEIVE", s) = Takers(L, "RECEIVE", s)
    BY <1>2, <1>6 DEF Takers
  <2>5. CASE s = b
    <3>1. Entries(N.receivable, s) = {e}
      BY <1>5, <2>2, <2>3, <2>5 DEF Entries
    <3>2. QED
      BY <1>2, <1>5, <1>6, <2>4, <2>5, <3>1 DEF Receivable, e
  <2>6. CASE s # b
    <3>1. Entries(N.receivable, s) = Entries(L.receivable, s)
      BY <2>2, <2>3, <2>6 DEF Entries, ReceivableGet
    <3>2. QED
      BY <1>2, <1>4, <2>4, <2>6, <3>1, ReceivableFrame
  <2>7. QED
    BY <2>5, <2>6
<1>7. CASE op = "RECEIVE"
  <2>1. /\ source \in L.stored
        /\ ReceivableGet(L, a, source) # {}
        /\ \A r \in ReceivableGet(L, a, source) : r.amount = TakenAmount(b)
    BY <1>1, <1>7, TakeChecked
  <2>2. b # Genesis /\ source \in Blocks
    BY <1>1, <2>1, GenesisAssumption, BlocksAssumption DEF ChainTables, BlockFields
  <2>3. N.receivable = L.receivable \ ReceivableGet(L, a, source)
    BY <1>3, <1>7 DEF AppendedReceivable
  <2>4. CASE s = source
    <3>1. Entries(L.receivable, s) # {}
      BY <2>1, <2>4 DEF Entries, ReceivableGet
    <3>2. /\ s \in L.stored /\ Block[s].opcode = "SEND"
          /\ Takers(L, "RECEIVE", s) = {}
          /\ Entries(L.receivable, s) =
               {ReceivableInfo(Block[s].link, s, SentAmount(s))}
      BY <1>4, <3>1 DEF Receivable
    <3> DEFINE e == ReceivableInfo(Block[s].link, s, SentAmount(s))
    <3>3. e.to = Block[s].link /\ e.amount = SentAmount(s)
      BY DEF ReceivableInfo
    <3> HIDE DEF e
    <3>4. e \in ReceivableGet(L, a, source)
      BY <2>1, <2>4, <3>2 DEF Entries, ReceivableGet, e
    <3>5. Block[s].link = a /\ TakenAmount(b) = SentAmount(s)
      BY <2>1, <3>3, <3>4 DEF ReceivableGet
    <3>6. Entries(N.receivable, s) = {}
      BY <2>3, <3>2, <3>4 DEF Entries, e
    <3>7. Takers(N, "RECEIVE", s) = {b}
      BY <1>2, <1>7, <2>2, <2>4, <3>2 DEF Takers
    <3>8. QED
      BY <1>2, <3>2, <3>5, <3>6, <3>7 DEF Receivable
  <2>5. CASE s # source
    <3>1. Entries(N.receivable, s) = Entries(L.receivable, s)
      BY <2>3, <2>5 DEF Entries, ReceivableGet
    <3>2. Takers(N, "RECEIVE", s) = Takers(L, "RECEIVE", s)
      BY <1>2, <2>5 DEF Takers
    <3>3. CASE s # b
      BY <1>2, <1>4, <3>1, <3>2, <3>3, ReceivableFrame
    <3>4. CASE s = b
      BY <1>5, <1>7, <3>1, <3>2, <3>4 DEF Receivable
    <3>5. QED
      BY <3>3, <3>4
  <2>6. QED
    BY <2>4, <2>5
<1>8. CASE op \notin {"SEND", "RECEIVE"}
  <2>1. N.receivable = L.receivable
    BY <1>3, <1>8 DEF AppendedReceivable
  <2>2. Takers(N, "RECEIVE", s) = Takers(L, "RECEIVE", s)
    BY <1>2, <1>8 DEF Takers
  <2>3. CASE s # b
    BY <1>2, <1>4, <2>1, <2>2, <2>3, ReceivableFrame
  <2>4. CASE s = b
    BY <1>5, <1>8, <2>1, <2>2, <2>4 DEF Receivable
  <2>5. QED
    BY <2>3, <2>4
<1>9. QED
  BY <1>6, <1>7, <1>8

\* and so does a rollback.
LEMMA RollbackReceivable ==
  ASSUME NEW L, ChainInv(L), \A s \in Blocks : Receivable(L, s),
         NEW b \in Blocks, RollbackCode(L, b) = "SUCCESS",
         NEW s \in Blocks
  PROVE  Receivable(RollbackBlock(L, b), s)
<1> DEFINE N == RollbackBlock(L, b)
           op == Block[b].opcode
           a == Block[b].account
           source == Block[b].link
<1>1. ChainTables(L) /\ IsLedger(L)
  BY DEF ChainInv, ChainTables
<1>2. N.stored = L.stored \ {b} /\ b \in L.stored
  BY <1>1, RollbackEffect, RollbackChecked
<1>3. N.receivable = RevertedReceivable(L, b)
  BY <1>1, RollbackTables
<1>4. Receivable(L, s) /\ Receivable(L, b)
  OBVIOUS
<1> SUFFICES Receivable(N, s)
  OBVIOUS
<1> HIDE DEF N
<1>5. CASE op = "SEND"
  <2>1. ReceivableGet(L, source, b) # {}
    BY <1>5, RevertChecked
  <2>2. N.receivable = L.receivable \ ReceivableGet(L, source, b)
    BY <1>3, <1>5 DEF RevertedReceivable
  <2>3. Takers(N, "RECEIVE", s) = Takers(L, "RECEIVE", s)
    BY <1>2, <1>5 DEF Takers
  <2>4. CASE s = b
    <3> DEFINE e == ReceivableInfo(source, b, SentAmount(b))
    <3>1. Entries(L.receivable, b) # {}
      BY <2>1 DEF Entries, ReceivableGet
    <3>2. Takers(L, "RECEIVE", b) = {} /\ Entries(L.receivable, b) = {e}
      BY <1>4, <3>1 DEF Receivable
    <3>3. e.to = source
      BY DEF ReceivableInfo
    <3> HIDE DEF e
    <3>4. Entries(N.receivable, s) = {}
      BY <2>2, <2>4, <3>2, <3>3 DEF Entries, ReceivableGet
    <3>5. QED
      BY <1>2, <2>3, <2>4, <3>2, <3>4 DEF Receivable
  <2>5. CASE s # b
    <3>1. Entries(N.receivable, s) = Entries(L.receivable, s)
      BY <2>2, <2>5 DEF Entries, ReceivableGet
    <3>2. QED
      BY <1>2, <1>4, <2>3, <2>5, <3>1, ReceivableFrame
  <2>6. QED
    BY <2>4, <2>5
<1>6. CASE op = "RECEIVE"
  <2>1. source \in L.stored /\ source \in Blocks
    BY <1>1, <1>6, RevertChecked DEF ChainTables
  <2>2. b # Genesis
    BY <2>1, GenesisAssumption, BlocksAssumption DEF BlockFields
  <2> DEFINE e == ReceivableInfo(a, source, TakenAmount(b))
  <2>3. e.to = a /\ e.source = source
    BY DEF ReceivableInfo
  <2>4. N.receivable = (L.receivable \ ReceivableGet(L, a, source)) \cup {e}
    BY <1>3, <1>6, <2>3 DEF RevertedReceivable, ReceivablePut
  <2> HIDE DEF e
  <2>5. b \in Takers(L, "RECEIVE", source)
    BY <1>2, <1>6, <2>2 DEF Takers
  <2>6. /\ Block[source].opcode = "SEND"
        /\ Entries(L.receivable, source) = {}
        /\ Takers(L, "RECEIVE", source) = {b}
        /\ a = Block[source].link /\ TakenAmount(b) = SentAmount(source)
    <3>1. Receivable(L, source)
      BY <2>1
    <3>2. QED
      BY <2>5, <3>1 DEF Receivable
  <2>7. CASE s = source
    <3>1. Entries(N.receivable, s) = {e}
      BY <2>3, <2>4, <2>6, <2>7 DEF Entries
    <3>2. Takers(N, "RECEIVE", s) = {}
      BY <1>2, <2>6, <2>7 DEF Takers
    <3>3. s \in N.stored
      BY <1>2, <1>6, <2>1, <2>6, <2>7
    <3>4. QED
      BY <2>6, <2>7, <3>1, <3>2, <3>3 DEF Receivable, e
  <2>8. CASE s # source
    <3>1. Entries(N.receivable, s) = Entries(L.receivable, s)
      BY <2>3, <2>4, <2>8 DEF Entries, ReceivableGet
    <3>2. Takers(N, "RECEIVE", s) = Takers(L, "RECEIVE", s)
      BY <1>2, <2>8 DEF Takers
    <3>3. CASE s # b
      BY <1>2, <1>4, <3>1, <3>2, <3>3, ReceivableFrame
    <3>4. CASE s = b
      BY <1>4, <1>6, <3>1, <3>2, <3>4 DEF Receivable
    <3>5. QED
      BY <3>3, <3>4
  <2>9. QED
    BY <2>7, <2>8
<1>7. CASE op \notin {"SEND", "RECEIVE"}
  <2>1. N.receivable = L.receivable
    BY <1>3, <1>7 DEF RevertedReceivable
  <2>2. Takers(N, "RECEIVE", s) = Takers(L, "RECEIVE", s)
    BY <1>2, <1>7 DEF Takers
  <2>3. CASE s # b
    BY <1>2, <1>4, <2>1, <2>2, <2>3, ReceivableFrame
  <2>4. CASE s = b
    BY <1>4, <1>7, <2>1, <2>2, <2>4 DEF Receivable
  <2>5. QED
    BY <2>3, <2>4
<1>8. QED
  BY <1>5, <1>6, <1>7

-----------------------------------------------------------------------------
(* Rewardables.                                                            *)

\* p stood for a while, until its successor, and that is worth a reward.
Earned(L, p) ==
  /\ p \in L.stored /\ HasRepresentative(p) /\ L.successor[p] # NoBlock
  /\ Reward(p, L.successor[p]) # 0

\* RewardedOnce for p; the block that claimed the reward is one of the
\* representative, and claimed all of it.
Rewardable(L, p) ==
  LET entries == Entries(L.rewardable, p)
      takers  == Takers(L, "REWARD", p)
      next    == L.successor[p]
  IN  IF Earned(L, p)
      THEN \/ /\ entries = {}
              /\ \E t \in Blocks : /\ takers = {t}
                                   /\ Block[t].account = Block[p].rep
                                   /\ TakenAmount(t) = Reward(p, next)
           \/ /\ takers = {}
              /\ entries = {RewardableInfo(p, next, Reward(p, next))}
      ELSE takers = {} /\ entries = {}

\* Whether a reward is claimable depends on its entries and takers only.
LEMMA RewardableFrame ==
  ASSUME NEW L, NEW N, NEW p, Rewardable(L, p),
         p \in N.stored <=> p \in L.stored,
         N.successor[p] = L.successor[p],
         Takers(N, "REWARD", p) = Takers(L, "REWARD", p),
         Entries(N.rewardable, p) = Entries(L.rewardable, p)
  PROVE  Rewardable(N, p)
BY DEF Rewardable, Earned

\* An append keeps every reward either claimable or claimed once,
LEMMA AppendRewardable ==
  ASSUME NEW L, ChainInv(L), \A p \in Blocks : Rewardable(L, p),
         NEW b \in Blocks, NEW now, AppendCode(L, b, now) = "SUCCESS",
         NEW p \in Blocks
  PROVE  Rewardable(AppendBlock(L, b), p)
<1> DEFINE N == AppendBlock(L, b)
           a == Block[b].account
           source == Block[b].link
           head == HeadOf(L, b)
           claims == Block[b].opcode = "REWARD"
           released == RewardableInfo(head, b, Reward(head, b))
<1>1. ChainTables(L) /\ IsLedger(L)
  BY DEF ChainInv, ChainTables
<1>2. N.stored = L.stored \cup {b} /\ b \notin L.stored
  BY <1>1, AppendEffect, AppendChecked
<1>3. N.successor = [x \in Blocks |-> IF x = b THEN NoBlock
                                      ELSE IF x = Block[b].previous THEN b
                                      ELSE L.successor[x]]
  BY <1>1, AppendEffect DEF PutBlockSuccessor, IsLedger
<1>4. N.rewardable = AppendedRewardable(L, b)
  BY <1>1, AppendTables
<1>5. /\ Block[b].previous = head
      /\ head # NoBlock => /\ head \in L.stored /\ head \in Blocks
                           /\ L.successor[head] = NoBlock
  <2>1. a \in Accounts
    BY BlocksAssumption DEF BlockFields
  <2>2. Chained(L, a)
    BY <2>1 DEF ChainInv
  <2>3. Block[b].previous = head
    BY <1>1, AppendChecked DEF HeadOf
  <2>4. QED
    BY <1>1, <2>2, <2>3 DEF HeadOf, Chained, ChainOf, ChainTables
<1>6. NoBlock \notin Blocks
  BY BlocksAssumption
\* What a reward claims is there, and not the entry that b itself releases.
<1>7. ASSUME claims
      PROVE  /\ source \in L.stored /\ source \in Blocks
             /\ source # head /\ source # b
             /\ Earned(L, source) /\ Takers(L, "REWARD", source) = {}
             /\ Block[source].rep = a
             /\ TakenAmount(b) = Reward(source, L.successor[source])
             /\ \A r \in L.rewardable : r.source = source => r.rep = a
  <2>1. /\ source \in L.stored
        /\ RewardableGet(L, a, source) # {}
        /\ \A r \in RewardableGet(L, a, source) : r.amount = TakenAmount(b)
    BY <1>1, <1>7, TakeChecked
  <2>2. source \in Blocks
    BY <1>1, <2>1 DEF ChainTables
  <2>3. Rewardable(L, source)
    BY <2>2
  <2> DEFINE next == L.successor[source]
             e == RewardableInfo(source, next, Reward(source, next))
  <2>4. Entries(L.rewardable, source) # {}
    BY <2>1 DEF Entries, RewardableGet
  <2>5. /\ Earned(L, source) /\ Takers(L, "REWARD", source) = {}
        /\ Entries(L.rewardable, source) = {e}
    BY <2>3, <2>4 DEF Rewardable
  <2>6. e.rep = Block[source].rep /\ e.amount = Reward(source, next)
    BY DEF RewardableInfo
  <2> HIDE DEF e
  <2>7. e \in RewardableGet(L, a, source)
    BY <2>1, <2>5 DEF Entries, RewardableGet
  <2>8. e.rep = a /\ e.amount = TakenAmount(b)
    BY <2>1, <2>7 DEF RewardableGet
  <2>9. source # head /\ source # b
    BY <1>2, <1>5, <2>1, <2>2, <2>5, <1>6 DEF Earned
  <2>10. QED
    BY <2>1, <2>2, <2>5, <2>6, <2>8, <2>9 DEF Entries
<1>8. released.source = head /\ released.rep = Block[head].rep
  BY DEF RewardableInfo
<1>9. Rewardable(L, p) /\ Rewardable(L, b)
  OBVIOUS
<1>10. Takers(L, "REWARD", b) = {} /\ Entries(L.rewardable, b) = {}
  BY <1>2, <1>9 DEF Rewardable, Earned
<1>11. Entries(N.rewardable, p) =
         IF claims /\ p = source THEN {}
         ELSE IF /\ p = head /\ head # NoBlock /\ HasRepresentative(head)
                 /\ Reward(head, b) # 0
         THEN (Entries(L.rewardable, p) \ RewardableGet(L, Block[head].rep, head))
                \cup {released}
         ELSE Entries(L.rewardable, p)
  <2> HIDE DEF released
  <2>1. Entries(ReleasedRewardable(L, b), p) =
          IF /\ p = head /\ head # NoBlock /\ HasRepresentative(head)
             /\ Reward(head, b) # 0
          THEN (Entries(L.rewardable, p) \ RewardableGet(L, Block[head].rep, head))
                 \cup {released}
          ELSE Entries(L.rewardable, p)
    <3>1. ReleasedRewardable(L, b) =
            IF head = NoBlock \/ ~HasRepresentative(head) \/ Reward(head, b) = 0
            THEN L.rewardable
            ELSE (L.rewardable \ RewardableGet(L, Block[head].rep, head)) \cup {released}
      BY <1>8 DEF ReleasedRewardable, RewardablePut, released
    <3>2. QED
      BY <1>8, <3>1 DEF Entries, RewardableGet
  <2>2. CASE ~claims
    BY <1>4, <2>1, <2>2 DEF AppendedRewardable
  <2>3. CASE claims /\ p # source
    BY <1>4, <2>1, <2>3 DEF AppendedRewardable, Entries
  <2>4. CASE claims /\ p = source
    BY <1>4, <1>7, <2>1, <2>4 DEF AppendedRewardable, Entries
  <2>5. QED
    BY <2>2, <2>3, <2>4
<1>12. Takers(N, "REWARD", p) =
         Takers(L, "REWARD", p) \cup (IF claims /\ p = source THEN {b} ELSE {})
  BY <1>2, GenesisAssumption DEF Takers
<1> SUFFICES Rewardable(N, p)
  OBVIOUS
<1> HIDE DEF N, head
<1>13. CASE p = b
  <2>1. N.successor[p] = NoBlock
    BY <1>3, <1>13
  <2>2. Takers(N, "REWARD", p) = {}
    BY <1>7, <1>10, <1>12, <1>13
  <2>3. Entries(N.rewardable, p) = {}
    BY <1>2, <1>5, <1>7, <1>10, <1>11, <1>13
  <2>4. QED
    BY <2>1, <2>2, <2>3 DEF Rewardable, Earned
<1>14. CASE p # b /\ p = head
  <2>1. /\ p \in L.stored /\ L.successor[p] = NoBlock /\ head # NoBlock
    BY <1>5, <1>6, <1>14
  <2>2. Takers(L, "REWARD", p) = {} /\ Entries(L.rewardable, p) = {}
    BY <1>9, <2>1 DEF Rewardable, Earned
  <2>3. N.successor[p] = b /\ p \in N.stored
    BY <1>2, <1>3, <1>5, <1>14, <2>1
  <2>4. ~(claims /\ p = source)
    BY <1>7, <1>14
  <2>5. Takers(N, "REWARD", p) = {}
    BY <1>12, <2>2, <2>4
  <2>6. CASE HasRepresentative(p) /\ Reward(p, b) # 0
    <3>1. Entries(N.rewardable, p) = {released}
      BY <1>11, <1>14, <2>1, <2>2, <2>4, <2>6
    <3>2. QED
      BY <1>6, <1>14, <2>3, <2>5, <2>6, <3>1 DEF Rewardable, Earned
  <2>7. CASE ~(HasRepresentative(p) /\ Reward(p, b) # 0)
    <3>1. Entries(N.rewardable, p) = {}
      BY <1>11, <1>14, <2>2, <2>4, <2>7
    <3>2. QED
      BY <2>3, <2>5, <2>7, <3>1 DEF Rewardable, Earned
  <2>8. QED
    BY <2>6, <2>7
<1>15. CASE p # b /\ p # head
  <2>1. N.successor[p] = L.successor[p] /\ (p \in N.stored <=> p \in L.stored)
    BY <1>2, <1>3, <1>5, <1>15
  <2>2. CASE claims /\ p = source
    <3>1. Takers(N, "REWARD", p) = {b} /\ Entries(N.rewardable, p) = {}
      BY <1>7, <1>11, <1>12, <2>2
    <3>2. QED
      BY <1>7, <2>1, <2>2, <3>1 DEF Rewardable, Earned
  <2>3. CASE ~(claims /\ p = source)
    <3>1. /\ Takers(N, "REWARD", p) = Takers(L, "REWARD", p)
          /\ Entries(N.rewardable, p) = Entries(L.rewardable, p)
      BY <1>11, <1>12, <1>15, <2>3
    <3>2. QED
      BY <1>9, <2>1, <3>1, RewardableFrame
  <2>4. QED
    BY <2>2, <2>3
<1>16. QED
  BY <1>13, <1>14, <1>15

\* and so does a rollback.
LEMMA RollbackRewardable ==
  ASSUME NEW L, ChainInv(L), \A p \in Blocks : Rewardable(L, p),
         NEW b \in Blocks, RollbackCode(L, b) = "SUCCESS",
         NEW p \in Blocks
  PROVE  Rewardable(RollbackBlock(L, b), p)
<1> DEFINE N == RollbackBlock(L, b)
           a == Block[b].account
           source == Block[b].link
           prev == Block[b].previous
           claimed == Block[b].opcode = "REWARD"
           releases == /\ HasRepresentative(b) /\ Block[b].height # 0
                       /\ Reward(prev, b) # 0
           returned == [RewardableInfo(source, L.successor[source], TakenAmount(b))
                          EXCEPT !.rep = a]
<1>1. ChainTables(L) /\ IsLedger(L)
  BY DEF ChainInv, ChainTables
<1>2. N.stored = L.stored \ {b} /\ b \in L.stored
  BY <1>1, RollbackEffect, RollbackChecked
<1>3. N.successor = [x \in Blocks |->
                       IF x = b \/ (Block[b].height # 0 /\ x = prev)
                       THEN NoBlock ELSE L.successor[x]]
  BY <1>1, RollbackEffect DEF DeleteBlockSuccessor, IsLedger
<1>4. N.rewardable = RevertedRewardable(L, b)
  BY <1>1, RollbackTables
<1>5. /\ L.successor[b] = NoBlock
      /\ Block[b].height # 0 =>
           /\ L.successor[prev] = b /\ Block[prev].type = Block[b].type
           /\ prev \in Blocks /\ prev # b /\ prev \in L.stored
  <2>1. a \in Accounts /\ Block[b].height \in Nat
    BY BlocksAssumption DEF BlockFields
  <2>2. Chained(L, a) /\ L.info[a] # NoInfo /\ L.info[a].head = b
    BY <1>1, <2>1, RollbackChecked DEF ChainInv
  <2>3. b \in ChainOf(L, a)
    BY <1>2 DEF ChainOf
  <2>4. L.successor[b] = NoBlock
    BY <2>2 DEF Chained
  <2>5. ASSUME Block[b].height # 0
        PROVE  /\ prev \in ChainOf(L, a) /\ L.successor[prev] = b
               /\ Block[prev].type = Block[b].type
               /\ Block[prev].height = Block[b].height - 1
    BY <2>2, <2>3, <2>5 DEF Chained
  <2>6. QED
    BY <1>1, <2>1, <2>4, <2>5 DEF ChainTables, ChainOf
<1>6. NoBlock \notin Blocks
  BY BlocksAssumption
<1>7. Rewardable(L, p) /\ Rewardable(L, b)
  OBVIOUS
\* The reward that b claimed is still earned, and b alone claimed it.
<1>8. ASSUME claimed
      PROVE  /\ source \in Blocks /\ source # b
             /\ Block[b].height # 0 => source # prev
             /\ ~HasRepresentative(b)
             /\ Earned(L, source) /\ Takers(L, "REWARD", source) = {b}
             /\ Entries(L.rewardable, source) = {}
             /\ Block[source].rep = a
             /\ TakenAmount(b) = Reward(source, L.successor[source])
  <2>1. source \in L.stored /\ source \in Blocks
    BY <1>1, <1>8, RevertChecked DEF ChainTables
  <2>2. Rewardable(L, source)
    BY <2>1
  <2>3. b \in Takers(L, "REWARD", source)
    BY <1>2, <1>8, GenesisAssumption DEF Takers
  <2>4. /\ Earned(L, source) /\ Takers(L, "REWARD", source) = {b}
        /\ Entries(L.rewardable, source) = {}
        /\ Block[source].rep = a
        /\ TakenAmount(b) = Reward(source, L.successor[source])
    BY <2>2, <2>3 DEF Rewardable
  <2>5. ~HasRepresentative(b)
    <3>1. Block[b].type \in Types /\ Block[b].opcode \in CheckOpcode[Block[b].type]
      BY BlocksAssumption DEF BlockFields
    <3>2. QED
      BY <1>8, <3>1 DEF HasRepresentative, Types, CheckOpcode
  <2>6. source # b /\ (Block[b].height # 0 => source # prev)
    BY <1>5, <2>4, <2>5 DEF Earned, HasRepresentative
  <2>7. QED
    BY <2>1, <2>4, <2>5, <2>6
<1>9. returned = IF claimed
                 THEN RewardableInfo(source, L.successor[source],
                                     Reward(source, L.successor[source]))
                 ELSE returned
  BY <1>8 DEF RewardableInfo
<1>10. returned.source = source /\ returned.rep = a
  BY DEF RewardableInfo
<1>11. Entries(N.rewardable, p) =
         IF claimed /\ p = source THEN {returned}
         ELSE IF releases /\ p = prev
         THEN {r \in Entries(L.rewardable, p) : r.rep # Block[prev].rep}
         ELSE Entries(L.rewardable, p)
  <2> HIDE DEF returned
  <2>1. Entries(ReturnedRewardable(L, b), p) =
          IF claimed /\ p = source
          THEN (Entries(L.rewardable, p) \ RewardableGet(L, a, source)) \cup {returned}
          ELSE Entries(L.rewardable, p)
    <3>1. ReturnedRewardable(L, b) =
            IF claimed
            THEN (L.rewardable \ RewardableGet(L, a, source)) \cup {returned}
            ELSE L.rewardable
      BY <1>10 DEF ReturnedRewardable, RewardablePut, returned
    <3>2. QED
      BY <1>10, <3>1 DEF Entries, RewardableGet
  <2>2. Entries(N.rewardable, p) =
          IF releases /\ p = prev
          THEN {r \in Entries(ReturnedRewardable(L, b), p) : r.rep # Block[prev].rep}
          ELSE Entries(ReturnedRewardable(L, b), p)
    BY <1>4 DEF RevertedRewardable, Entries
  <2>3. CASE claimed /\ p = source
    BY <1>8, <2>1, <2>2, <2>3
  <2>4. CASE ~(claimed /\ p = source)
    BY <2>1, <2>2, <2>4
  <2>5. QED
    BY <2>3, <2>4
<1>12. Takers(N, "REWARD", p) =
         IF claimed /\ p = source THEN {} ELSE Takers(L, "REWARD", p)
  <2>1. Takers(N, "REWARD", p) = Takers(L, "REWARD", p) \ {b}
    BY <1>2 DEF Takers
  <2>2. b \in Takers(L, "REWARD", p) => claimed /\ p = source
    BY DEF Takers
  <2>3. QED
    BY <1>8, <2>1, <2>2
<1> SUFFICES Rewardable(N, p)
  OBVIOUS
<1> HIDE DEF N, returned
<1>13. CASE p = b
  <2>1. Takers(L, "REWARD", p) = {} /\ Entries(L.rewardable, p) = {}
    BY <1>5, <1>7, <1>13 DEF Rewardable, Earned
  <2>2. Takers(N, "REWARD", p) = {} /\ Entries(N.rewardable, p) = {}
    BY <1>8, <1>11, <1>12, <1>13, <2>1
  <2>3. QED
    BY <1>2, <1>13, <2>2 DEF Rewardable, Earned
<1>14. CASE p # b /\ Block[b].height # 0 /\ p = prev
  <2>1. N.successor[p] = NoBlock /\ L.successor[p] = b
    BY <1>3, <1>5, <1>14
  <2>2. ~(claimed /\ p = source)
    BY <1>8, <1>14
  <2>3. Takers(N, "REWARD", p) = {} /\ Entries(N.rewardable, p) = {}
    <3>1. CASE releases
      <4> DEFINE e == RewardableInfo(p, b, Reward(p, b))
      <4>1. RewardableGet(L, Block[prev].rep, prev) # {}
        BY <3>1, RevertChecked
      <4>2. Entries(L.rewardable, p) # {}
        BY <1>14, <4>1 DEF Entries, RewardableGet
      <4>3. Takers(L, "REWARD", p) = {} /\ Entries(L.rewardable, p) = {e}
        BY <1>7, <2>1, <4>2 DEF Rewardable
      <4>4. e.rep = Block[prev].rep
        BY <1>14 DEF RewardableInfo
      <4> HIDE DEF e
      <4>5. QED
        BY <1>11, <1>12, <1>14, <2>2, <3>1, <4>3, <4>4
    <3>2. CASE ~releases
      <4>1. ~Earned(L, p)
        BY <1>5, <1>14, <2>1, <3>2 DEF Earned, HasRepresentative
      <4>2. QED
        BY <1>7, <1>11, <1>12, <2>2, <3>2, <4>1 DEF Rewardable
    <3>3. QED
      BY <3>1, <3>2
  <2>4. QED
    BY <2>1, <2>3 DEF Rewardable, Earned
<1>15. CASE p # b /\ ~(Block[b].height # 0 /\ p = prev)
  <2>1. N.successor[p] = L.successor[p] /\ (p \in N.stored <=> p \in L.stored)
    BY <1>2, <1>3, <1>15
  <2>2. CASE claimed /\ p = source
    <3>1. /\ Takers(N, "REWARD", p) = {}
          /\ Entries(N.rewardable, p) = {RewardableInfo(p, L.successor[p],
                                                        Reward(p, L.successor[p]))}
      BY <1>9, <1>11, <1>12, <2>2
    <3>2. Earned(N, p)
      BY <1>8, <2>1, <2>2 DEF Earned
    <3>3. QED
      BY <2>1, <3>1, <3>2 DEF Rewardable
  <2>3. CASE ~(claimed /\ p = source)
    <3>1. /\ Takers(N, "REWARD", p) = Takers(L, "REWARD", p)
          /\ Entries(N.rewardable, p) = Entries(L.rewardable, p)
      BY <1>11, <1>12, <1>15, <2>3
    <3>2. QED
      BY <1>7, <2>1, <3>1, RewardableFrame
  <2>4. QED
    BY <2>2, <2>3
<1>16. QED
  BY <1>13, <1>14, <1>15

-----------------------------------------------------------------------------
(* Bindings.                                                               *)

Binds(L, a) == {b \in ChainOf(L, a) : Block[b].opcode = "BIND"}

BindsUpTo(L, a, h) == {b \in Binds(L, a) : Block[b].height <= h}

\* BindingsExact for a.  The count is allowed at every block of the chain, not
\* only at the head: a rollback can take away credit.
Bound(L, a) ==
  /\ {k \in L.bindings : k[1] = a} = {<<a, Block[b].height>> : b \in Binds(L, a)}
  /\ L.bindingCount[a] = Cardinality(Binds(L, a))
  /\ \A x \in ChainOf(L, a) :
       Cardinality(BindsUpTo(L, a, Block[x].height)) <= AllowedBindings(Block[x].credit)

BoundInv(L) ==
  /\ IsFiniteSet(L.stored)
  /\ DOMAIN L.bindingCount = Accounts
  /\ \A a \in Accounts : Bound(L, a)

\* A larger credit allows at least as many bindings.
LEMMA MoreCreditAllowsMore ==
  ASSUME NEW c \in Nat, NEW d \in Nat, c <= d
  PROVE  /\ AllowedBindings(c) \in Nat
         /\ AllowedBindings(c) <= AllowedBindings(d)
<1>1. /\ c * EXTRA_BINDINGS_PER_CREDIT \in Nat
      /\ c * EXTRA_BINDINGS_PER_CREDIT <= d * EXTRA_BINDINGS_PER_CREDIT
      /\ d * EXTRA_BINDINGS_PER_CREDIT \in Nat
  BY ParametersAssumption
<1>2. QED
  BY <1>1, ParametersAssumption DEF AllowedBindings

\* Binds and its parts are finite.
LEMMA BindsFinite ==
  ASSUME NEW L, IsFiniteSet(L.stored), NEW a
  PROVE  /\ IsFiniteSet(Binds(L, a)) /\ Cardinality(Binds(L, a)) \in Nat
         /\ \A h : /\ IsFiniteSet(BindsUpTo(L, a, h))
                   /\ Cardinality(BindsUpTo(L, a, h)) \in Nat
                   /\ Cardinality(BindsUpTo(L, a, h)) <= Cardinality(Binds(L, a))
<1>1. Binds(L, a) \in SUBSET L.stored
  BY DEF Binds, ChainOf
<1>2. IsFiniteSet(Binds(L, a))
  BY <1>1, FS_Subset
<1>3. ASSUME NEW h
      PROVE  /\ IsFiniteSet(BindsUpTo(L, a, h))
             /\ Cardinality(BindsUpTo(L, a, h)) <= Cardinality(Binds(L, a))
  <2>1. BindsUpTo(L, a, h) \in SUBSET Binds(L, a)
    BY DEF BindsUpTo
  <2>2. QED
    BY <1>2, <2>1, FS_Subset
<1>4. QED
  BY <1>2, <1>3, FS_CardinalityType

\* What the checks say about credit and the number of bindings.
LEMMA BindChecked ==
  ASSUME NEW L, ChainTables(L), NEW b \in Blocks,
         NEW now, AppendCode(L, b, now) = "SUCCESS",
         L.info[Block[b].account] # NoInfo
  PROVE  LET head == L.info[Block[b].account].head
         IN  /\ head \in Blocks
             /\ Block[head].credit <= Block[b].credit
             /\ Block[b].opcode = "BIND" =>
                  /\ Block[b].credit = Block[head].credit
                  /\ ~(L.bindingCount[Block[b].account] >=
                         AllowedBindings(Block[head].credit))
<1> DEFINE head == L.info[Block[b].account].head
           op == Block[b].opcode
<1>1. head \in Blocks /\ Block[b].credit \in Nat /\ Block[head].credit \in Nat
  <2>1. Block[b].account \in Accounts
    BY BlocksAssumption DEF BlockFields
  <2>2. head \in Blocks
    BY <2>1 DEF ChainTables, AccountInfos
  <2>3. QED
    BY <2>2, BlocksAssumption DEF BlockFields
<1>2. CheckCarried(head, b) = "SUCCESS" /\ CheckOperation(L, head, b) = "SUCCESS"
  BY DEF AppendCode, AndThen
<1>3. IF op = "CREDIT" THEN ~(Block[b].credit <= Block[head].credit)
                       ELSE Block[b].credit = Block[head].credit
  BY <1>2 DEF CheckCarried, AndThen, Unless
<1>4. ASSUME op = "BIND"
      PROVE  ~(L.bindingCount[Block[b].account] >= AllowedBindings(Block[head].credit))
  <2>1. AndThen(Unless(Block[b].balance # Block[head].balance, "BALANCE"),
                Unless(L.bindingCount[Block[b].account] >=
                         AllowedBindings(Block[head].credit), "BINDING_COUNT"))
          = "SUCCESS"
    BY <1>2, <1>4 DEF CheckOperation
  <2>2. QED
    BY <2>1 DEF AndThen, Unless
<1>5. QED
  BY <1>1, <1>3, <1>4

\* A chain that does not change, with the same bindings.
LEMMA BoundFrame ==
  ASSUME NEW L, NEW N, NEW a, Bound(L, a),
         ChainOf(N, a) = ChainOf(L, a),
         {k \in N.bindings : k[1] = a} = {k \in L.bindings : k[1] = a},
         N.bindingCount[a] = L.bindingCount[a]
  PROVE  Bound(N, a)
<1>1. Binds(N, a) = Binds(L, a)
  BY DEF Binds
<1>2. QED
  BY <1>1 DEF Bound, BindsUpTo

\* An append keeps the bindings the bind blocks of the chains,
LEMMA AppendBound ==
  ASSUME NEW L, ChainInv(L), BoundInv(L), NEW b \in Blocks,
         NEW now, AppendCode(L, b, now) = "SUCCESS"
  PROVE  BoundInv(AppendBlock(L, b))
<1> DEFINE N == AppendBlock(L, b)
           own == Block[b].account
           info == L.info[own]
           bind == Block[b].opcode = "BIND"
<1>1. ChainTables(L) /\ IsLedger(L)
  BY DEF ChainInv, ChainTables
<1>2. N.stored = L.stored \cup {b} /\ b \notin L.stored
  BY <1>1, AppendEffect, AppendChecked
<1>3. IsFiniteSet(N.stored)
  BY <1>2, FS_AddElement DEF BoundInv
<1>4. /\ ~bind => N.bindings = L.bindings /\ N.bindingCount = L.bindingCount
      /\ bind => /\ N.bindings = L.bindings \cup {<<own, Block[b].height>>}
                 /\ N.bindingCount = [L.bindingCount EXCEPT ![own] = L.bindingCount[own] + 1]
  BY <1>1, AppendTables
<1>5. own \in Accounts /\ Block[b].height \in Nat /\ Block[b].credit \in Nat
  BY BlocksAssumption DEF BlockFields
<1> SUFFICES BoundInv(N)
  OBVIOUS
<1> HIDE DEF N
<1>6. ASSUME NEW a \in Accounts, a # own
      PROVE  Bound(N, a)
  <2>1. ChainOf(N, a) = ChainOf(L, a)
    BY <1>2, <1>6 DEF ChainOf
  <2>2. {k \in N.bindings : k[1] = a} = {k \in L.bindings : k[1] = a}
    BY <1>4, <1>6
  <2>3. N.bindingCount[a] = L.bindingCount[a]
    BY <1>4, <1>6 DEF BoundInv
  <2>4. QED
    BY <2>1, <2>2, <2>3, BoundFrame DEF BoundInv
<1>7. Bound(L, own) /\ IsFiniteSet(L.stored)
  BY <1>5 DEF BoundInv
<1>8. Chained(L, own)
  BY <1>5 DEF ChainInv
<1>9. ChainOf(N, own) = ChainOf(L, own) \cup {b} /\ b \notin ChainOf(L, own)
  BY <1>2 DEF ChainOf
<1>10. \A x \in ChainOf(L, own) : /\ Block[x].height \in Nat
                                  /\ Block[x].height < Block[b].height
                                  /\ info # NoInfo /\ Block[x].height <= info.headHeight
  <2> SUFFICES ASSUME NEW x \in ChainOf(L, own)
               PROVE  /\ Block[x].height \in Nat /\ Block[x].height < Block[b].height
                      /\ info # NoInfo /\ Block[x].height <= info.headHeight
    OBVIOUS
  <2>1. info # NoInfo /\ Block[x].height \in 0..info.headHeight
    BY <1>8 DEF Chained
  <2>2. Block[b].height = info.headHeight + 1 /\ info.headHeight \in Nat
    BY <1>1, <1>5, <2>1, AppendChecked DEF ChainTables, AccountInfos
  <2>3. QED
    BY <2>1, <2>2
<1>11. Binds(N, own) = Binds(L, own) \cup (IF bind THEN {b} ELSE {})
       /\ b \notin Binds(L, own)
  BY <1>9 DEF Binds
<1>12. \A x \in ChainOf(L, own) :
         BindsUpTo(N, own, Block[x].height) = BindsUpTo(L, own, Block[x].height)
  BY <1>5, <1>10, <1>11 DEF BindsUpTo
<1>13. BindsUpTo(N, own, Block[b].height) = Binds(N, own)
  BY <1>5, <1>10, <1>11 DEF BindsUpTo, Binds
<1>14. Cardinality(Binds(N, own)) = Cardinality(Binds(L, own)) + (IF bind THEN 1 ELSE 0)
  <2>1. IsFiniteSet(Binds(L, own)) /\ Cardinality(Binds(L, own)) \in Nat
    BY <1>7, BindsFinite
  <2>2. CASE bind
    <3>1. Cardinality(Binds(L, own) \cup {b}) = Cardinality(Binds(L, own)) + 1
      BY <1>11, <2>1, FS_AddElement
    <3>2. QED
      BY <1>11, <2>2, <3>1
  <2>3. CASE ~bind
    BY <1>11, <2>1, <2>3
  <2>4. QED
    BY <2>2, <2>3
<1>15. N.bindingCount[own] = Cardinality(Binds(N, own))
  BY <1>4, <1>5, <1>7, <1>14, BindsFinite DEF BoundInv, Bound
<1>16. {k \in N.bindings : k[1] = own} = {<<own, Block[c].height>> : c \in Binds(N, own)}
  BY <1>4, <1>7, <1>11 DEF Bound
<1>17. Cardinality(Binds(N, own)) <= AllowedBindings(Block[b].credit)
  <2>1. CASE info = NoInfo
    <3>1. ~bind
      BY <1>1, <2>1, TakeChecked
    <3>2. Binds(N, own) = {}
      BY <1>10, <1>11, <2>1, <3>1 DEF Binds
    <3>3. QED
      BY <1>5, <3>2, FS_EmptySet, MoreCreditAllowsMore
  <2>2. CASE info # NoInfo
    <3>1. /\ info.head \in ChainOf(L, own)
          /\ Block[info.head].height = info.headHeight
      BY <1>8, <2>2 DEF Chained
    <3>2. BindsUpTo(L, own, Block[info.head].height) = Binds(L, own)
      BY <1>10, <3>1 DEF BindsUpTo, Binds
    <3>3. Cardinality(Binds(L, own)) <= AllowedBindings(Block[info.head].credit)
      BY <1>7, <3>1, <3>2 DEF Bound
    <3>4. /\ info.head \in Blocks /\ Block[info.head].credit <= Block[b].credit
          /\ bind => /\ Block[b].credit = Block[info.head].credit
                     /\ ~(L.bindingCount[own] >= AllowedBindings(Block[info.head].credit))
      BY <1>1, <2>2, BindChecked
    <3>5. Block[info.head].credit \in Nat
      BY <3>4, BlocksAssumption DEF BlockFields
    <3>6. /\ AllowedBindings(Block[info.head].credit) \in Nat
          /\ AllowedBindings(Block[b].credit) \in Nat
          /\ AllowedBindings(Block[info.head].credit) <= AllowedBindings(Block[b].credit)
      BY <1>5, <3>4, <3>5, MoreCreditAllowsMore
    <3>7. Cardinality(Binds(L, own)) \in Nat /\ L.bindingCount[own] = Cardinality(Binds(L, own))
      BY <1>7, BindsFinite DEF Bound
    <3>8. CASE bind
      <4>1. Cardinality(Binds(L, own)) < AllowedBindings(Block[b].credit)
        BY <3>4, <3>6, <3>7, <3>8
      <4>2. QED
        BY <1>14, <3>6, <3>7, <3>8, <4>1
    <3>9. CASE ~bind
      BY <1>14, <3>3, <3>6, <3>7, <3>9
    <3>10. QED
      BY <3>8, <3>9
  <2>3. QED
    BY <2>1, <2>2
<1>18. Bound(N, own)
  <2>1. \A x \in ChainOf(N, own) :
          Cardinality(BindsUpTo(N, own, Block[x].height)) <= AllowedBindings(Block[x].credit)
    BY <1>7, <1>9, <1>12, <1>13, <1>17 DEF Bound
  <2>2. QED
    BY <1>15, <1>16, <2>1 DEF Bound
<1>19. DOMAIN N.bindingCount = Accounts
  BY <1>4 DEF BoundInv
<1>20. QED
  BY <1>3, <1>6, <1>18, <1>19 DEF BoundInv

\* and so does a rollback.
LEMMA RollbackBound ==
  ASSUME NEW L, ChainInv(L), BoundInv(L), NEW b \in Blocks, RollbackCode(L, b) = "SUCCESS"
  PROVE  BoundInv(RollbackBlock(L, b))
<1> DEFINE N == RollbackBlock(L, b)
           own == Block[b].account
           bind == Block[b].opcode = "BIND"
<1>1. ChainTables(L) /\ IsLedger(L)
  BY DEF ChainInv, ChainTables
<1>2. N.stored = L.stored \ {b} /\ b \in L.stored
  BY <1>1, RollbackEffect, RollbackChecked
<1>3. IsFiniteSet(N.stored)
  BY <1>2, FS_RemoveElement DEF BoundInv
<1>4. /\ ~bind => N.bindings = L.bindings /\ N.bindingCount = L.bindingCount
      /\ bind => /\ N.bindings = L.bindings \ {<<own, Block[b].height>>}
                 /\ N.bindingCount = [L.bindingCount EXCEPT ![own] = L.bindingCount[own] - 1]
  BY <1>1, RollbackTables
<1>5. own \in Accounts
  BY BlocksAssumption DEF BlockFields
<1> SUFFICES BoundInv(N)
  OBVIOUS
<1> HIDE DEF N
<1>6. ASSUME NEW a \in Accounts, a # own
      PROVE  Bound(N, a)
  <2>1. ChainOf(N, a) = ChainOf(L, a)
    BY <1>2, <1>6 DEF ChainOf
  <2>2. {k \in N.bindings : k[1] = a} = {k \in L.bindings : k[1] = a}
    BY <1>4, <1>6
  <2>3. N.bindingCount[a] = L.bindingCount[a]
    BY <1>4, <1>6 DEF BoundInv
  <2>4. QED
    BY <2>1, <2>2, <2>3, BoundFrame DEF BoundInv
<1>7. Bound(L, own) /\ IsFiniteSet(L.stored)
  BY <1>5, SMTT(40) DEF BoundInv
<1>8. \A x, y \in ChainOf(L, own) : x # y => Block[x].height # Block[y].height
  <2>1. Chained(L, own) /\ L.info[own] # NoInfo
    BY <1>1, <1>5, RollbackChecked DEF ChainInv
  <2>2. QED
    BY <2>1 DEF Chained, ForkWith, ChainOf
<1>9. ChainOf(N, own) = ChainOf(L, own) \ {b} /\ b \in ChainOf(L, own)
  BY <1>2 DEF ChainOf
<1>10. /\ Binds(N, own) = Binds(L, own) \ {b}
       /\ bind <=> b \in Binds(L, own)
  BY <1>9 DEF Binds
<1>11. Cardinality(Binds(N, own)) = Cardinality(Binds(L, own)) - (IF bind THEN 1 ELSE 0)
  <2>1. IsFiniteSet(Binds(L, own)) /\ Cardinality(Binds(L, own)) \in Nat
    BY <1>7, BindsFinite
  <2>2. CASE bind
    <3>1. Cardinality(Binds(L, own) \ {b}) = Cardinality(Binds(L, own)) - 1
      BY <1>10, <2>1, <2>2, FS_RemoveElement
    <3>2. QED
      BY <1>10, <2>2, <3>1
  <2>3. CASE ~bind
    <3>1. Binds(N, own) = Binds(L, own)
      BY <1>10, <2>3
    <3>2. QED
      BY <2>1, <2>3, <3>1
  <2>4. QED
    BY <2>2, <2>3
<1>12. N.bindingCount[own] = Cardinality(Binds(N, own))
  BY <1>4, <1>5, <1>7, <1>11, BindsFinite DEF BoundInv, Bound
<1>13. {k \in N.bindings : k[1] = own} = {<<own, Block[c].height>> : c \in Binds(N, own)}
  <2>1. CASE bind
    <3>1. {k \in N.bindings : k[1] = own} =
            {k \in L.bindings : k[1] = own} \ {<<own, Block[b].height>>}
      BY <1>4, <2>1
    <3>2. \A c \in Binds(N, own) : <<own, Block[c].height>> # <<own, Block[b].height>>
      BY <1>8, <1>9, <1>10 DEF Binds
    <3>3. {<<own, Block[c].height>> : c \in Binds(N, own)} =
            {<<own, Block[c].height>> : c \in Binds(L, own)} \ {<<own, Block[b].height>>}
      BY <1>10, <3>2
    <3>4. QED
      BY <1>7, <3>1, <3>3 DEF Bound
  <2>2. CASE ~bind
    <3>1. Binds(N, own) = Binds(L, own)
      BY <1>10, <2>2
    <3>2. QED
      BY <1>4, <1>7, <2>2, <3>1 DEF Bound
  <2>3. QED
    BY <2>1, <2>2
<1>14. ASSUME NEW x \in ChainOf(N, own)
       PROVE  Cardinality(BindsUpTo(N, own, Block[x].height)) <= AllowedBindings(Block[x].credit)
  <2>1. x \in ChainOf(L, own) /\ x \in Blocks
    BY <1>1, <1>9 DEF ChainOf, ChainTables
  <2>2. BindsUpTo(N, own, Block[x].height) \in SUBSET BindsUpTo(L, own, Block[x].height)
    BY <1>10 DEF BindsUpTo
  <2>3. IsFiniteSet(BindsUpTo(L, own, Block[x].height))
    BY <1>7, BindsFinite
  <2>4. /\ Cardinality(BindsUpTo(N, own, Block[x].height))
             <= Cardinality(BindsUpTo(L, own, Block[x].height))
    BY <2>2, <2>3, FS_Subset
  <2>5. Cardinality(BindsUpTo(L, own, Block[x].height)) <= AllowedBindings(Block[x].credit)
    BY <1>7, <2>1 DEF Bound
  <2>6. /\ Cardinality(BindsUpTo(L, own, Block[x].height)) \in Nat
        /\ Cardinality(BindsUpTo(N, own, Block[x].height)) \in Nat
    BY <1>3, <1>7, BindsFinite
  <2>7. AllowedBindings(Block[x].credit) \in Nat
    <3>1. Block[x].credit \in Nat
      BY <2>1, BlocksAssumption DEF BlockFields
    <3>2. QED
      BY <3>1, MoreCreditAllowsMore
  <2>8. QED
    BY <2>4, <2>5, <2>6, <2>7
<1>15. Bound(N, own)
  BY <1>12, <1>13, <1>14 DEF Bound
<1>16. DOMAIN N.bindingCount = Accounts
  BY <1>4 DEF BoundInv
<1>17. QED
  BY <1>3, <1>6, <1>15, <1>16 DEF BoundInv

-----------------------------------------------------------------------------
(* The transactions together.                                              *)

\* Every block that took something names a block as its source.
Sourced(L) ==
  \A b \in L.stored \ {Genesis} :
    Block[b].opcode \in {"RECEIVE", "REWARD"} => Block[b].link \in Blocks

TablesInv(L) ==
  /\ ChainInv(L)
  /\ Sourced(L)
  /\ \A s \in Blocks : Receivable(L, s) /\ Rewardable(L, s)
  /\ BoundInv(L)

\* A transaction that touches neither the blocks nor the tables that hang on
\* them, only what is confirmed or the weights.
LEMMA TablesFrame ==
  ASSUME NEW L, NEW N, TablesInv(L), ChainInv(N), SameTables(L, N),
         N.stored = L.stored, N.successor = L.successor
  PROVE  TablesInv(N)
<1>1. \A opcode, s : Takers(N, opcode, s) = Takers(L, opcode, s)
  BY DEF Takers
<1>2. \A s \in Blocks : Receivable(N, s)
  BY <1>1, ReceivableFrame DEF TablesInv, SameTables
<1>3. \A s \in Blocks : Rewardable(N, s)
  BY <1>1, RewardableFrame DEF TablesInv, SameTables
<1>4. \A a : ChainOf(N, a) = ChainOf(L, a)
  BY DEF ChainOf
<1>5. BoundInv(N)
  BY <1>4, BoundFrame DEF TablesInv, SameTables, BoundInv
<1>6. QED
  BY <1>2, <1>3, <1>5 DEF TablesInv, Sourced

\* The ledger of the genesis block has sound tables.
LEMMA InitTables == TablesInv(InitLedger)
<1> DEFINE L == InitLedger
<1>1. /\ L.stored = {Genesis} /\ L.receivable = {} /\ L.rewardable = {}
      /\ L.successor = [b \in Blocks |-> NoBlock]
      /\ L.bindings = {} /\ L.bindingCount = [a \in Accounts |-> 0]
  BY DEF InitLedger
<1> HIDE DEF L
<1>2. \A s \in Blocks : Receivable(L, s) /\ Rewardable(L, s)
  BY <1>1, GenesisAssumption DEF Receivable, Rewardable, Earned, Takers, Entries
<1>3. ASSUME NEW a \in Accounts
      PROVE  Bound(L, a)
  <2>1. Binds(L, a) = {}
    BY <1>1, GenesisAssumption DEF Binds, ChainOf
  <2>2. \A h : BindsUpTo(L, a, h) = {}
    BY <2>1 DEF BindsUpTo
  <2>3. Cardinality({}) = 0
    BY FS_EmptySet
  <2>4. \A x \in ChainOf(L, a) : 0 <= AllowedBindings(Block[x].credit)
    <3>1. \A x \in ChainOf(L, a) : Block[x].credit \in Nat
      BY <1>1, GenesisAssumption, BlocksAssumption DEF ChainOf, BlockFields
    <3>2. QED
      BY <3>1, MoreCreditAllowsMore
  <2>5. QED
    BY <1>1, <2>1, <2>2, <2>3, <2>4 DEF Bound
<1>4. IsFiniteSet(L.stored)
  BY <1>1, FS_Singleton
<1>5. BoundInv(L)
  BY <1>1, <1>3, <1>4 DEF BoundInv
<1>6. ChainInv(L)
  BY InitChainInv DEF L
<1>7. Sourced(L)
  BY <1>1 DEF Sourced
<1>8. QED
  BY <1>2, <1>5, <1>6, <1>7 DEF TablesInv, L

\* Every transaction keeps the tables in step with the chains.
LEMMA AppendTablesInv ==
  ASSUME NEW L, TablesInv(L), NEW b \in Blocks,
         NEW now, AppendCode(L, b, now) = "SUCCESS"
  PROVE  TablesInv(AppendBlock(L, b))
<1>1. ChainInv(AppendBlock(L, b))
  BY AppendChainInv DEF TablesInv
<1>2. ASSUME NEW s \in Blocks
      PROVE  Receivable(AppendBlock(L, b), s) /\ Rewardable(AppendBlock(L, b), s)
  <2>1. \A x \in Blocks : Receivable(L, x)
    BY DEF TablesInv
  <2>2. \A x \in Blocks : Rewardable(L, x)
    BY DEF TablesInv
  <2>3. QED
    BY <2>1, <2>2, AppendReceivable, AppendRewardable DEF TablesInv
<1>3. BoundInv(AppendBlock(L, b))
  BY AppendBound DEF TablesInv
<1>4. Sourced(AppendBlock(L, b))
  <2>1. ChainTables(L) /\ IsLedger(L)
    BY DEF TablesInv, ChainInv, ChainTables
  <2>2. AppendBlock(L, b).stored = L.stored \cup {b}
    BY <2>1, AppendEffect
  <2>3. Block[b].opcode \in {"RECEIVE", "REWARD"} => Block[b].link \in Blocks
    BY <2>1, TakeChecked DEF ChainTables
  <2>4. QED
    BY <2>2, <2>3 DEF TablesInv, Sourced
<1>5. QED
  BY <1>1, <1>2, <1>3, <1>4 DEF TablesInv

\* The tables stay sound when a block is rolled back,
LEMMA RollbackTablesInv ==
  ASSUME NEW L, TablesInv(L), NEW b \in Blocks, RollbackCode(L, b) = "SUCCESS"
  PROVE  TablesInv(RollbackBlock(L, b))
<1>1. ChainInv(RollbackBlock(L, b))
  BY RollbackChainInv DEF TablesInv
<1>2. ASSUME NEW s \in Blocks
      PROVE  Receivable(RollbackBlock(L, b), s) /\ Rewardable(RollbackBlock(L, b), s)
  <2>1. \A x \in Blocks : Receivable(L, x)
    BY DEF TablesInv
  <2>2. \A x \in Blocks : Rewardable(L, x)
    BY DEF TablesInv
  <2>3. QED
    BY <2>1, <2>2, RollbackReceivable, RollbackRewardable DEF TablesInv
<1>3. BoundInv(RollbackBlock(L, b))
  BY RollbackBound DEF TablesInv
<1>4. Sourced(RollbackBlock(L, b))
  <2>1. IsLedger(L)
    BY DEF TablesInv, ChainInv, ChainTables
  <2>2. RollbackBlock(L, b).stored = L.stored \ {b}
    BY <2>1, RollbackEffect
  <2>3. QED
    BY <2>2 DEF TablesInv, Sourced
<1>5. QED
  BY <1>1, <1>2, <1>3, <1>4 DEF TablesInv

\* confirmed,
LEMMA ConfirmTablesInv ==
  ASSUME NEW L, TablesInv(L), NEW b \in Blocks, ConfirmCode(L, b) = "SUCCESS"
  PROVE  TablesInv(ConfirmBlock(L, b))
<1>1. ChainInv(L) /\ IsLedger(L)
  BY DEF TablesInv, ChainInv, ChainTables
<1>2. ChainInv(ConfirmBlock(L, b))
  BY <1>1, ConfirmChainInv
<1>3. /\ SameTables(L, ConfirmBlock(L, b))
      /\ ConfirmBlock(L, b).stored = L.stored
      /\ ConfirmBlock(L, b).successor = L.successor
  BY <1>1 DEF ConfirmBlock, IsLedger, SameTables
<1>4. QED
  BY <1>2, <1>3, TablesFrame

\* or when the weights are built anew from the heads.
LEMMA RestartTablesInv ==
  ASSUME NEW L, TablesInv(L)
  PROVE  TablesInv(InitMemoryTables(L))
<1> DEFINE w == [r \in Accounts |-> HeadWeight(L, r)]
           t == SumFunction([r \in Accounts |-> HeadWeight(L, r)])
           weighed == [L EXCEPT !.weight = w]
           N == InitMemoryTables(L)
<1>1. ChainInv(L) /\ IsLedger(L)
  BY DEF TablesInv, ChainInv, ChainTables
<1>2. ChainInv(N)
  BY <1>1, RestartChainInv
<1>3. N = [weighed EXCEPT !.totalWeight = t]
  <2> HIDE DEF w, t
  <2>1. N = [L EXCEPT !.weight = w, !.totalWeight = t]
    BY DEF InitMemoryTables, w, t
  <2> HIDE DEF N
  <2>2. QED
    BY <1>1, <2>1 DEF IsLedger
<1> HIDE DEF w, t
<1>4. SameTables(L, weighed) /\ weighed.stored = L.stored /\ weighed.successor = L.successor
  BY <1>1 DEF IsLedger, SameTables
<1> HIDE DEF weighed
<1>5. SameTables(L, N) /\ N.stored = L.stored /\ N.successor = L.successor
  <2> HIDE DEF N
  <2>1. QED
    BY <1>3, <1>4 DEF SameTables, IsLedger
<1>6. QED
  BY <1>2, <1>5, TablesFrame

-----------------------------------------------------------------------------
(* What a rollback and a fork find in the ledger.                          *)

\* A stored block other than the head has a stored successor.
LEMMA SuccessorStored ==
  ASSUME NEW L, ChainInv(L), NEW b \in L.stored
  PROVE  LET info == L.info[Block[b].account]
         IN  /\ b \in Blocks /\ Block[b].account \in Accounts
             /\ info # NoInfo /\ info.head \in L.stored
             /\ Block[b].height \in 0..info.headHeight /\ info.headHeight \in Nat
             /\ Block[b].height = info.headHeight => b = info.head
             /\ Block[b].height # info.headHeight => L.successor[b] \in L.stored
             /\ L.successor[b] # NoBlock => L.successor[b] \in L.stored
<1> DEFINE a == Block[b].account
           info == L.info[a]
           chain == ChainOf(L, a)
<1>1. b \in Blocks /\ a \in Accounts /\ b \in chain
  BY BlocksAssumption DEF ChainInv, ChainTables, BlockFields, ChainOf
<1>2. Chained(L, a)
  BY <1>1 DEF ChainInv
<1>3. info # NoInfo
  BY <1>1, <1>2, SMTT(40) DEF Chained
<1>4. /\ info.head \in chain /\ Block[info.head].height = info.headHeight
      /\ L.successor[info.head] = NoBlock
      /\ {Block[c].height : c \in chain} = 0..info.headHeight
      /\ \A c, d \in chain : ~ForkWith(c, d)
      /\ \A c \in chain : Block[c].height # 0 =>
           /\ Block[c].previous \in chain
           /\ Block[Block[c].previous].height = Block[c].height - 1
           /\ L.successor[Block[c].previous] = c
  BY <1>2, <1>3 DEF Chained
<1>5. Block[b].height \in 0..info.headHeight /\ info.headHeight \in Nat
  <2>1. info.headHeight \in Nat
    BY <1>1, <1>3 DEF ChainInv, ChainTables, AccountInfos
  <2>2. QED
    BY <1>1, <1>4, <2>1
<1>6. \A c, d \in chain : Block[c].height = Block[d].height => c = d
  BY <1>4 DEF ForkWith, ChainOf
<1>7. Block[b].height = info.headHeight => b = info.head
  BY <1>1, <1>4, <1>6
<1>8. ASSUME Block[b].height # info.headHeight
      PROVE  L.successor[b] \in L.stored
  <2>1. Block[b].height + 1 \in 0..info.headHeight
    BY <1>5, <1>8
  <2>2. PICK c \in chain : Block[c].height = Block[b].height + 1
    BY <1>4, <2>1
  <2>3. Block[c].height # 0 /\ Block[c].height - 1 = Block[b].height
    BY <1>5, <2>2
  <2>4. Block[c].previous = b
    BY <1>1, <1>4, <1>6, <2>3
  <2>5. QED
    BY <1>4, <2>3, <2>4 DEF ChainOf
<1>9. L.successor[b] # NoBlock => L.successor[b] \in L.stored
  BY <1>4, <1>7, <1>8
<1>10. info.head \in L.stored
  BY <1>4 DEF ChainOf
<1>11. QED
  BY <1>1, <1>3, <1>5, <1>7, <1>8, <1>9, <1>10

\* A block that is no successor of the head conflicts with a stored one.
LEMMA ForkStored ==
  ASSUME NEW L, ChainInv(L), NEW b \in Blocks,
         NEW now, AppendCode(L, b, now) = "FORK"
  PROVE  /\ BlockAt(L, Block[b].account, Block[b].height) \in L.stored
         /\ ForkWith(BlockAt(L, Block[b].account, Block[b].height), b)
         /\ L.info[Block[b].account] # NoInfo
         /\ Block[b].height <= L.info[Block[b].account].headHeight
<1> DEFINE a == Block[b].account
           info == L.info[a]
<1>1. a \in Accounts /\ Block[b].height \in Nat
  BY BlocksAssumption DEF BlockFields
<1>2. CheckCommon(L, b, now) = "SUCCESS" /\ b \notin L.stored
  BY DEF AppendCode, AndThen, CheckCommon, Unless
<1>3. CheckOpen(L, b) # "FORK"
  <2>1. /\ CheckFirstCommon(b) # "FORK"
        /\ CheckSource(L, b, "GAP_RECEIVE_SOURCE") # "FORK"
        /\ CheckSource(L, b, "GAP_REWARD_SOURCE") # "FORK"
        /\ CheckReceivable(L, b, OpenAmount(b)) # "FORK"
        /\ CheckRewardable(L, b, OpenAmount(b)) # "FORK"
    BY DEF CheckFirstCommon, CheckSource, CheckReceivable, CheckRewardable, AndThen, Unless
  <2>2. QED
    BY <2>1 DEF CheckOpen, AndThen, Unless
<1>4. info # NoInfo
  BY <1>2, <1>3, SMTT(40) DEF AppendCode, AndThen
<1>5. CheckCarried(info.head, b) # "FORK"
  BY SMTT(40) DEF CheckCarried, CheckCounterSame, CheckCounterIncrease, CheckRepresentativeSame,
         AndThen, Unless
<1>6. CheckOperation(L, info.head, b) # "FORK"
  <2>1. /\ CheckSource(L, b, "GAP_RECEIVE_SOURCE") # "FORK"
        /\ CheckSource(L, b, "GAP_REWARD_SOURCE") # "FORK"
        /\ \A x : CheckReceivable(L, b, x) # "FORK" /\ CheckRewardable(L, b, x) # "FORK"
    BY DEF CheckSource, CheckReceivable, CheckRewardable, AndThen, Unless
  <2>2. Block[b].opcode \in
          {"SEND", "DESTROY", "RECEIVE", "REWARD", "CHANGE", "CREDIT", "BIND"}
    <3>1. Block[b].type \in Types /\ Block[b].opcode \in CheckOpcode[Block[b].type]
      BY BlocksAssumption DEF BlockFields
    <3>2. QED
      BY <3>1 DEF Types, CheckOpcode
  <2>3. QED
    BY <2>1, <2>2 DEF CheckOperation, AndThen, Unless
<1>7. CheckSuccessorCommon(b, info) = "FORK"
  BY <1>2, <1>4, <1>5, <1>6 DEF AppendCode, AndThen
<1>8. Block[b].height <= info.headHeight
  BY <1>7 DEF CheckSuccessorCommon, AndThen, Unless
<1>9. /\ {Block[c].height : c \in ChainOf(L, a)} = 0..info.headHeight
      /\ info.headHeight \in Nat
  BY <1>1, <1>4 DEF ChainInv, Chained, ChainTables, AccountInfos
<1>10. \E c \in L.stored : Block[c].account = a /\ Block[c].height = Block[b].height
  BY <1>1, <1>8, <1>9 DEF ChainOf
<1>11. QED
  BY <1>2, <1>4, <1>8, <1>10 DEF BlockAt, ForkWith

(***************************************************************************)
(* RollbackBlock_ never finds the ledger inconsistent, only the genesis    *)
(* block lacks its source, and what stands in the way of a rollback is a   *)
(* stored block; it is another one, except that an account may stand in    *)
(* the way of a send to itself.                                            *)
(***************************************************************************)
RollbackSound(L, b) ==
  LET code == RollbackCode(L, b)
  IN  /\ code \in {"SUCCESS", "ROLLBACK_NON_HEAD", "ROLLBACK_REWARDED",
                   "ROLLBACK_RECEIVED", "ROLLBACK_SOURCE_PRUNED"}
      /\ code = "ROLLBACK_SOURCE_PRUNED" => b = Genesis
      /\ Blocker(L, b) \in L.stored
      /\ code \in {"ROLLBACK_NON_HEAD", "ROLLBACK_REWARDED"} => Blocker(L, b) # b

\* The invariant of the tables makes the rollback of any stored block sound.
LEMMA RollbackSoundness ==
  ASSUME NEW L, TablesInv(L), NEW b \in L.stored
  PROVE  RollbackSound(L, b)
<1> DEFINE a == Block[b].account
           info == L.info[a]
           prev == Block[b].previous
           source == Block[b].link
           op == Block[b].opcode
           code == RollbackCode(L, b)
<1>1. ChainInv(L)
  BY DEF TablesInv
<1>2. /\ b \in Blocks /\ a \in Accounts
      /\ info # NoInfo /\ info.head \in L.stored
      /\ Block[b].height \in 0..info.headHeight /\ info.headHeight \in Nat
      /\ Block[b].height = info.headHeight => b = info.head
      /\ Block[b].height # info.headHeight => L.successor[b] \in L.stored
  BY <1>1, SuccessorStored, SMTT(40)
<1>3. /\ Block[b].height # 0 =>
           /\ prev \in L.stored /\ L.successor[prev] = b
           /\ Block[prev].type = Block[b].type
      /\ L.successor[info.head] = NoBlock
  <2>1. Chained(L, a) /\ b \in ChainOf(L, a)
    BY <1>1, <1>2 DEF ChainInv, ChainOf
  <2>2. QED
    BY <1>2, <2>1 DEF Chained, ChainOf
<1>4. \A s \in Blocks : Receivable(L, s) /\ Rewardable(L, s)
  BY DEF TablesInv
<1>5. b # NoBlock
  BY <1>2, BlocksAssumption
\* The account of a stored block has a head.
<1>6. \A t \in L.stored : L.info[Block[t].account].head \in L.stored
  BY <1>1, SuccessorStored
<1>7. CASE Block[b].height # info.headHeight
  <2>1. code = "ROLLBACK_NON_HEAD"
    BY <1>2, <1>7 DEF RollbackCode, CheckRollback, AndThen, Unless
  <2>2. L.successor[b] # b
    <3>1. Chained(L, a) /\ b \in ChainOf(L, a)
      BY <1>1, <1>2 DEF ChainInv, ChainOf
    <3>2. L.successor[b] \in ChainOf(L, a) /\ Block[L.successor[b]].height # Block[b].height
      <4>1. PICK c \in ChainOf(L, a) : Block[c].height = Block[b].height + 1
        <5>1. Block[b].height + 1 \in 0..info.headHeight
          BY <1>2, <1>7, SMTT(40)
        <5>2. QED
          BY <1>2, <3>1, <5>1 DEF Chained
      <4>2. /\ Block[c].previous \in ChainOf(L, a)
            /\ Block[Block[c].previous].height = Block[c].height - 1
            /\ L.successor[Block[c].previous] = c
        BY <1>2, <3>1, <4>1, SMTT(40) DEF Chained
      <4>3. ~ForkWith(Block[c].previous, b)
        BY <1>2, <3>1, <4>2 DEF Chained
      <4>4. Block[c].previous = b
        BY <1>2, <3>1, <4>1, <4>2, <4>3 DEF ForkWith, ChainOf
      <4>5. QED
        BY <1>2, <4>1, <4>2, <4>4, SMTT(40)
    <3>3. QED
      BY <3>2
  <2>3. Blocker(L, b) = L.successor[b]
    BY <2>1 DEF Blocker
  <2>4. QED
    BY <1>2, <1>7, <2>1, <2>2, <2>3 DEF RollbackSound
<1>8. CASE Block[b].height = info.headHeight
  <2> DEFINE held == /\ HasRepresentative(b) /\ Block[b].height # 0
                     /\ Reward(prev, b) # 0
                     /\ RewardableGet(L, Block[prev].rep, prev) = {}
  <2>1. b = info.head /\ L.successor[b] = NoBlock
    BY <1>2, <1>3, <1>8
  <2>2. CheckRollback(L, b) = Unless(held, "ROLLBACK_REWARDED")
    BY <1>2, <1>3, <1>8, <2>1 DEF CheckRollback, AndThen, Unless
  <2>3. CASE held
    <3>1. code = "ROLLBACK_REWARDED"
      BY <2>2, <2>3 DEF RollbackCode, AndThen, Unless
    <3>2. prev \in Blocks /\ prev \in L.stored /\ Earned(L, prev)
      BY <1>1, <1>3, <1>5, <2>3 DEF Earned, HasRepresentative, ChainInv, ChainTables
    <3>3. Rewardable(L, prev)
      BY <1>4, <3>2
    <3> DEFINE e == RewardableInfo(prev, b, Reward(prev, b))
    <3>4. e.rep = Block[prev].rep /\ e.source = prev
      BY DEF RewardableInfo
    <3>5. L.successor[prev] = b
      BY <1>3, <2>3
    <3> HIDE DEF e
    <3>6. Entries(L.rewardable, prev) # {e}
      BY <2>3, <3>4 DEF Entries, RewardableGet
    <3>7. PICK t \in Blocks : /\ Takers(L, "REWARD", prev) = {t}
                              /\ Block[t].account = Block[prev].rep
      BY <3>2, <3>3, <3>5, <3>6 DEF Rewardable, e
    <3>8. t \in L.stored /\ Block[t].opcode = "REWARD"
      BY <3>7 DEF Takers
    <3>9. Blocker(L, b) = L.info[Block[t].account].head
      BY <3>1, <3>7 DEF Blocker
    <3>10. L.info[Block[t].account].head \in L.stored
      BY <1>6, <3>8
    \* The chain of a representative is not the one b is in.
    <3>11. L.info[Block[t].account].head # b
      <4>1. ~HasRepresentative(t)
        <5>1. Block[t].type \in Types /\ Block[t].opcode \in CheckOpcode[Block[t].type]
          BY BlocksAssumption DEF BlockFields
        <5>2. QED
          BY <3>8, <5>1 DEF HasRepresentative, Types, CheckOpcode
      <4>2. Block[t].account \in Accounts
        BY BlocksAssumption DEF BlockFields
      <4>3. Chained(L, Block[t].account) /\ t \in ChainOf(L, Block[t].account)
        BY <1>1, <3>8, <4>2 DEF ChainInv, ChainOf
      <4>4. L.info[Block[t].account] # NoInfo
        BY <1>1, <3>8, SuccessorStored
      <4>5. Block[L.info[Block[t].account].head].type = Block[t].type
        BY <4>3, <4>4 DEF Chained
      <4>6. QED
        BY <2>3, <4>1, <4>5 DEF HasRepresentative
    <3>12. QED
      BY <3>1, <3>9, <3>10, <3>11 DEF RollbackSound
  <2>4. CASE ~held
    <3>1. CheckRollback(L, b) = "SUCCESS"
      BY <2>2, <2>4 DEF Unless
    <3>2. CASE op = "SEND"
      <4>1. code = IF ReceivableGet(L, source, b) = {} THEN "ROLLBACK_RECEIVED" ELSE "SUCCESS"
        BY <3>1, <3>2 DEF RollbackCode, AndThen, Unless
      <4>2. CASE ReceivableGet(L, source, b) = {}
        <5> DEFINE e == ReceivableInfo(source, b, SentAmount(b))
        <5>1. e.to = source /\ e.source = b
          BY DEF ReceivableInfo
        <5> HIDE DEF e
        <5>2. Entries(L.receivable, b) # {e}
          BY <4>2, <5>1 DEF Entries, ReceivableGet
        <5>3. PICK t \in Blocks : /\ Takers(L, "RECEIVE", b) = {t}
                                  /\ Block[t].account = source
          BY <1>2, <1>4, <3>2, <5>2 DEF Receivable, e
        <5>4. t \in L.stored
          BY <5>3 DEF Takers
        <5>5. Blocker(L, b) = L.info[Block[t].account].head
          BY <4>1, <4>2, <5>3 DEF Blocker
        <5>6. L.info[Block[t].account].head \in L.stored
          BY <1>6, <5>4
        <5>7. QED
          BY <4>1, <4>2, <5>5, <5>6 DEF RollbackSound
      <4>3. CASE ReceivableGet(L, source, b) # {}
        BY <4>1, <4>3 DEF RollbackSound, Blocker
      <4>4. QED
        BY <4>2, <4>3
    <3>3. CASE op \in {"RECEIVE", "REWARD"}
      <4>1. CASE b = Genesis
        <5>1. source \notin L.stored /\ op = "RECEIVE"
          BY <1>1, <4>1, GenesisAssumption, BlocksAssumption
          DEF ChainInv, ChainTables, BlockFields
        <5>2. code = "ROLLBACK_SOURCE_PRUNED"
          BY <3>1, <5>1 DEF RollbackCode, AndThen, Unless
        <5>3. QED
          BY <4>1, <5>2 DEF RollbackSound, Blocker
      <4>2. CASE b # Genesis
        <5>1. source \in Blocks
          BY <3>3, <4>2 DEF TablesInv, Sourced
        <5>2. b \in Takers(L, op, source)
          BY <4>2 DEF Takers
        <5>3. /\ source \in L.stored
              /\ op = "REWARD" => L.successor[source] \in L.stored
          <6>1. op = "RECEIVE" => source \in L.stored
            BY <1>4, <5>1, <5>2 DEF Receivable
          <6>2. op = "REWARD" => Earned(L, source)
            BY <1>4, <5>1, <5>2 DEF Rewardable
          <6>3. op = "REWARD" => L.successor[source] \in L.stored
            BY <1>1, <6>2, SuccessorStored DEF Earned
          <6>4. QED
            BY <3>3, <6>1, <6>2, <6>3 DEF Earned
        <5>4. code = "SUCCESS"
          BY <3>1, <3>3, <5>3 DEF RollbackCode, AndThen, Unless
        <5>5. QED
          BY <5>4 DEF RollbackSound, Blocker
      <4>3. QED
        BY <4>1, <4>2
    <3>4. CASE op = "BIND"
      <4>1. Bound(L, a) /\ b \in Binds(L, a)
        BY <1>2, <3>4 DEF TablesInv, BoundInv, Binds, ChainOf
      <4>2. <<a, Block[b].height>> \in L.bindings
        BY <4>1 DEF Bound
      <4>3. L.bindingCount[a] # 0
        <5>1. IsFiniteSet(Binds(L, a))
          BY BindsFinite DEF TablesInv, BoundInv
        <5>2. QED
          BY <4>1, <5>1, FS_EmptySet DEF Bound
      <4>4. code = "SUCCESS"
        BY <3>1, <3>4, <4>2, <4>3 DEF RollbackCode, AndThen, Unless
      <4>5. QED
        BY <4>4 DEF RollbackSound, Blocker
    <3>5. CASE op \notin {"SEND", "RECEIVE", "REWARD", "BIND"}
      <4>1. code = "SUCCESS"
        BY <3>1, <3>5 DEF RollbackCode, AndThen
      <4>2. QED
        BY <4>1 DEF RollbackSound, Blocker
    <3>6. QED
      BY <3>2, <3>3, <3>4, <3>5
  <2>5. QED
    BY <2>3, <2>4
<1>9. QED
  BY <1>7, <1>8

=============================================================================
