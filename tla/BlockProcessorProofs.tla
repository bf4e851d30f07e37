------------------------ MODULE BlockProcessorProofs ------------------------
(***************************************************************************)
(* The block processor, for every world of blocks, every capacity of its   *)
(* queues and every sequence of messages, verdicts and crashes.            *)
(*                                                                         *)
(* At the end, the votes of the node (Voting): an honest representative    *)
(* never contradicts itself, for any number of positions, blocks and       *)
(* threads and any confirmation interval, as long as a clock reading is    *)
(* used within a second.                                                   *)
(***************************************************************************)
EXTENDS BlockProcessor, Voting, LedgerProofs, SequenceTheorems, WellFoundedInduction

-----------------------------------------------------------------------------
(* Machine is the ledger machine over the same blocks and constants, so    *)
(* its transactions are the ones the processor runs.                       *)

\* The checks and effects of an append are the machine's.
LEMMA SameAppend ==
  ASSUME NEW L, NEW b, NEW t
  PROVE  /\ Machine!AppendCode(L, b, t) = AppendCode(L, b, t)
         /\ Machine!AppendBlock(L, b) = AppendBlock(L, b)
<1>1. Machine!AppendCode(L, b, t) = AppendCode(L, b, t)
  BY DEF Machine!AppendCode, AppendCode, Machine!CheckCommon, CheckCommon, Machine!InTime, InTime,
    Machine!CheckOpen, CheckOpen, Machine!CheckSuccessorCommon, CheckSuccessorCommon,
    Machine!CheckCarried, CheckCarried, Machine!CheckOperation, CheckOperation,
    Machine!CheckFirstCommon, CheckFirstCommon, Machine!CheckSource, CheckSource,
    Machine!CheckReceivable, CheckReceivable, Machine!CheckRewardable, CheckRewardable,
    Machine!CheckCounterSame, CheckCounterSame,
    Machine!CheckCounterIncrease, CheckCounterIncrease,
    Machine!CheckRepresentativeSame, CheckRepresentativeSame,
    Machine!OpenAmount, OpenAmount, Machine!CreditPrice, CreditPrice,
    Machine!ReceivableGet, ReceivableGet, Machine!RewardableGet, RewardableGet,
    Machine!AllowedBindings, AllowedBindings, Machine!SameDay, SameDay,
    Machine!HasRepresentative, HasRepresentative,
    Machine!AndThen, AndThen, Machine!Unless, Unless
<1>2. Machine!AppendBlock(L, b) = AppendBlock(L, b)
  <2>1. \A M : /\ Machine!PutBlockSuccessor(M, b) = PutBlockSuccessor(M, b)
               /\ Machine!UpdateAccountInfo(M, b) = UpdateAccountInfo(M, b)
    BY DEF Machine!UpdateAccountInfo, UpdateAccountInfo,
      Machine!PutBlockSuccessor, PutBlockSuccessor,
      Machine!NewInfo, NewInfo, Machine!INVALID_HEIGHT, INVALID_HEIGHT
  <2>2. \A M, h : Machine!UpdateRepInfo(M, h, b) = UpdateRepInfo(M, h, b)
    BY DEF Machine!UpdateRepInfo, UpdateRepInfo,
      Machine!RepWeightAdd, RepWeightAdd, Machine!RepWeightSub, RepWeightSub,
      Machine!HasRepresentative, HasRepresentative
  <2>3. \A M, h : Machine!PutRewardableInfo(M, h, b) = PutRewardableInfo(M, h, b)
    BY DEF Machine!PutRewardableInfo, PutRewardableInfo,
      Machine!RewardablePut, RewardablePut, Machine!RewardableInfo, RewardableInfo,
      Machine!Reward, Reward, Machine!RewardAmount, RewardAmount,
      Machine!RewardTimestamp, RewardTimestamp,
      Machine!RewardableGet, RewardableGet, Machine!HasRepresentative, HasRepresentative
  <2>4. \A M, h : Machine!ApplyOperation(M, h, b) = ApplyOperation(M, h, b)
    BY DEF Machine!ApplyOperation, ApplyOperation,
      Machine!ReceivablePut, ReceivablePut, Machine!ReceivableInfo, ReceivableInfo,
      Machine!BindingPut, BindingPut,
      Machine!ReceivableGet, ReceivableGet, Machine!RewardableGet, RewardableGet
  <2> DEFINE info == L.info[Block[b].account]
             head == IF info = NoInfo THEN NoBlock ELSE info.head
  <2>5. AppendBlock(L, b) =
          LET weighed == UpdateRepInfo(UpdateAccountInfo(PutBlockSuccessor(L, b), b), head, b)
          IN  ApplyOperation(PutRewardableInfo(weighed, head, b), head, b)
    BY DEF AppendBlock
  <2>6. Machine!AppendBlock(L, b) =
          LET weighed == Machine!UpdateRepInfo(
                Machine!UpdateAccountInfo(Machine!PutBlockSuccessor(L, b), b), head, b)
          IN  Machine!ApplyOperation(Machine!PutRewardableInfo(weighed, head, b), head, b)
    BY DEF Machine!AppendBlock
  <2> HIDE DEF head
  <2>7. QED
    BY <2>1, <2>2, <2>3, <2>4, <2>5, <2>6, Zenon
<1>3. QED
  BY <1>1, <1>2

\* The checks and effects of a rollback are the machine's.
LEMMA SameRollback ==
  ASSUME NEW L, NEW b
  PROVE  /\ Machine!RollbackCode(L, b) = RollbackCode(L, b)
         /\ Machine!RollbackBlock(L, b) = RollbackBlock(L, b)
<1>1. Machine!RollbackCode(L, b) = RollbackCode(L, b)
  BY DEF Machine!RollbackCode, RollbackCode, Machine!CheckRollback, CheckRollback,
    Machine!Reward, Reward, Machine!RewardAmount, RewardAmount,
    Machine!ReceivableGet, ReceivableGet, Machine!RewardableGet, RewardableGet,
    Machine!HasRepresentative, HasRepresentative,
    Machine!AndThen, AndThen, Machine!Unless, Unless
<1>2. Machine!RollbackBlock(L, b) = RollbackBlock(L, b)
  <2>1. \A M : Machine!RevertOperation(M, b) = RevertOperation(M, b)
    BY DEF Machine!RevertOperation, RevertOperation,
      Machine!TakenAmount, TakenAmount, Machine!OpenAmount, OpenAmount,
      Machine!CreditPrice, CreditPrice,
      Machine!ReceivablePut, ReceivablePut, Machine!RewardablePut, RewardablePut,
      Machine!ReceivableInfo, ReceivableInfo, Machine!RewardableInfo, RewardableInfo,
      Machine!RewardTimestamp, RewardTimestamp, Machine!BindingDel, BindingDel,
      Machine!ReceivableGet, ReceivableGet, Machine!RewardableGet, RewardableGet
  <2>2. \A M : /\ Machine!PutRollbackBlock(M, b) = PutRollbackBlock(M, b)
               /\ Machine!DeleteBlockSuccessor(M, b) = DeleteBlockSuccessor(M, b)
               /\ Machine!RetractAccountInfo(M, b) = RetractAccountInfo(M, b)
    BY DEF Machine!PutRollbackBlock, PutRollbackBlock,
      Machine!DeleteBlockSuccessor, DeleteBlockSuccessor,
      Machine!RetractAccountInfo, RetractAccountInfo,
      Machine!INVALID_HEIGHT, INVALID_HEIGHT
  <2>3. \A M : Machine!UpdateRepWeight(M, b) = UpdateRepWeight(M, b)
    BY DEF Machine!UpdateRepWeight, UpdateRepWeight,
      Machine!RepWeightAdd, RepWeightAdd, Machine!RepWeightSub, RepWeightSub,
      Machine!HasRepresentative, HasRepresentative
  <2>4. \A M : Machine!DeleteRewardableInfo(M, b) = DeleteRewardableInfo(M, b)
    BY DEF Machine!DeleteRewardableInfo, DeleteRewardableInfo,
      Machine!Reward, Reward, Machine!RewardAmount, RewardAmount,
      Machine!RewardableGet, RewardableGet, Machine!HasRepresentative, HasRepresentative
  <2>5. QED
    BY <2>1, <2>2, <2>3, <2>4, Zenon DEF Machine!RollbackBlock, RollbackBlock
<1>3. QED
  BY <1>1, <1>2

\* The checks and effects of a confirmation are the machine's.
LEMMA SameConfirm ==
  ASSUME NEW L, NEW b
  PROVE  /\ Machine!ConfirmCode(L, b) = ConfirmCode(L, b)
         /\ Machine!ConfirmBlock(L, b) = ConfirmBlock(L, b)
  BY DEF Machine!ConfirmCode, ConfirmCode, Machine!ConfirmBlock, ConfirmBlock,
    Machine!AndThen, AndThen, Machine!Unless, Unless

\* Both start with the same ledger, and a restart rebuilds the same weights.
LEMMA SameStart ==
  ASSUME NEW L
  PROVE  /\ Machine!InitLedger = InitLedger
         /\ Machine!InitMemoryTables(L) = InitMemoryTables(L)
<1>1. Machine!InitLedger = InitLedger
  BY DEF Machine!InitLedger, InitLedger, Machine!NewInfo, NewInfo,
    Machine!INVALID_HEIGHT, INVALID_HEIGHT
<1>2. Machine!InitMemoryTables(L) = InitMemoryTables(L)
  BY DEF Machine!InitMemoryTables, InitMemoryTables, Machine!HeadWeight, HeadWeight,
    Machine!HasRepresentative, HasRepresentative,
    Machine!SumFunction, SumFunction, Machine!SumFunctionOnSet, SumFunctionOnSet,
    Machine!FoldFunctionOnSet, FoldFunctionOnSet, Machine!MapThenFoldSet, MapThenFoldSet
<1>3. QED
  BY <1>1, <1>2

(***************************************************************************)
(* A step of the processor as the ledger sees it.                          *)
(***************************************************************************)
LedgerStep ==
  \/ \E b \in Blocks : /\ \E t \in Clocks : AppendCode(ledger, b, t) = "SUCCESS"
                       /\ ledger' = AppendBlock(ledger, b)
  \/ \E b \in Blocks : /\ RollbackCode(ledger, b) = "SUCCESS"
                       /\ ledger' = RollbackBlock(ledger, b)
  \/ \E b \in Blocks : /\ ConfirmCode(ledger, b) = "SUCCESS"
                       /\ ledger' = ConfirmBlock(ledger, b)
  \/ ledger' = InitMemoryTables(ledger)
  \/ UNCHANGED ledger

\* Such a step is a step of the machine or none.
LEMMA LedgerStepImplements ==
  ASSUME LedgerStep
  PROVE  [Machine!Next]_ledger
  BY SameAppend, SameRollback, SameConfirm, SameStart
  DEF LedgerStep, Machine!Next, Machine!Append, Machine!Rollback, Machine!Confirm,
      Machine!Restart

\* Such a step keeps the tables of the ledger fitting together.
LEMMA LedgerStepTables ==
  ASSUME LedgerStep, TablesInv(ledger)
  PROVE  TablesInv(ledger')
  BY AppendTablesInv, RollbackTablesInv, ConfirmTablesInv, RestartTablesInv DEF LedgerStep

-----------------------------------------------------------------------------
(* Queues and caches.                                                      *)

BlockHashes == Accounts \cup Blocks \cup {NoBlock}

Conflicts == [first : Blocks, second : Blocks, local : BOOLEAN]

Answers == [operation : Nat, block : Blocks]

GapEntries == [hash : BlockHashes, block : Blocks]

Threads ==
  {Idle} \cup [at : {"first", "second", "fork"}, first : Blocks, second : Blocks]
         \cup [at : {"dynamic"}, operation : Nat]

\* Every queue and cache holds blocks of the world, and the clock is read.
QueueInv ==
  /\ blocks \in Seq(Blocks)
  /\ forced \in Seq(Answers)
  /\ forkQueue \in Seq(Conflicts)
  /\ gaps \in [GapKinds -> SUBSET GapEntries]
  /\ thread \in Threads
  /\ queries \subseteq [operation : Nat, hash : BlockHashes]
  /\ clock \in Clocks

\* Add keeps a queue of blocks one.
LEMMA AddType ==
  ASSUME NEW queue \in Seq(Blocks), NEW b \in Blocks
  PROVE  Add(queue, b) \in Seq(Blocks)
<1> DEFINE S == {i \in DOMAIN queue : Priority[queue[i]] <= Priority[b]}
           before == Cardinality(S)
           longer == InsertAt(queue, before + 1, b)
<1>1. Len(queue) \in Nat /\ DOMAIN queue = 1..Len(queue)
  BY LenProperties
<1>2. before \in Nat /\ before <= Len(queue)
  <2>1. S \subseteq 1..Len(queue)
    BY <1>1
  <2>2. IsFiniteSet(1..Len(queue)) /\ Cardinality(1..Len(queue)) = Len(queue)
    BY <1>1, FS_Interval, SMTT(40)
  <2> HIDE DEF S
  <2>3. QED
    BY <2>1, <2>2, FS_Subset, FS_CardinalityType
<1> HIDE DEF before
<1>3. longer \in Seq(Blocks) /\ longer # <<>>
  <2>1. SubSeq(queue, 1, before) \in Seq(Blocks)
    BY <1>1, <1>2, SubSeqProperties
  <2>2. SubSeq(queue, before + 1, Len(queue)) \in Seq(Blocks)
    BY <1>1, <1>2, SubSeqProperties
  <2>3. before + 1 - 1 = before
    BY <1>2
  <2>4. QED
    BY <2>1, <2>2, <2>3 DEF InsertAt
<1> HIDE DEF longer
<1>4. Front(longer) \in Seq(Blocks)
  BY <1>3 DEF Front
<1>5. QED
  BY <1>3, <1>4 DEF Add, longer, before

\* So does putting back a block that waited.
LEMMA RequeueType ==
  ASSUME NEW queue \in Seq(Blocks), NEW k \in GapKinds, NEW b,
         gaps \in [GapKinds -> SUBSET GapEntries]
  PROVE  Requeue(queue, k, b) \in Seq(Blocks)
<1>1. CASE Waiting(k, b) = {}
  BY <1>1 DEF Requeue
<1>2. CASE Waiting(k, b) # {}
  <2> DEFINE e == CHOOSE e \in Waiting(k, b) : TRUE
  <2>1. e \in Waiting(k, b)
    BY <1>2
  <2>2. e.block \in Blocks
    BY <2>1 DEF Waiting, GapEntries
  <2> HIDE DEF e
  <2>3. QED
    BY <1>2, <2>2, AddType DEF Requeue, e
<1>3. QED
  BY <1>1, <1>2

\* All three caches.
LEMMA RequeueAllType ==
  ASSUME NEW queue \in Seq(Blocks), NEW b, gaps \in [GapKinds -> SUBSET GapEntries]
  PROVE  Requeue(Requeue(Requeue(queue, "GAP_PREVIOUS", b), "GAP_RECEIVE_SOURCE", b),
                 "GAP_REWARD_SOURCE", b) \in Seq(Blocks)
  BY RequeueType DEF GapKinds

\* A queue of forks takes another one.
LEMMA AddForkType ==
  ASSUME NEW queue \in Seq(Conflicts), NEW first \in Blocks, NEW second \in Blocks,
         NEW local \in BOOLEAN
  PROVE  AddFork(queue, first, second, local) \in Seq(Conflicts)
<1> DEFINE f == [first |-> first, second |-> second, local |-> local]
<1>1. f \in Conflicts
  BY DEF Conflicts
<1>2. AddFork(queue, first, second, local) \in {queue, queue \o <<f>>}
  BY DEF AddFork
<1> HIDE DEF f
<1>3. queue \o <<f>> \in Seq(Conflicts)
  BY <1>1
<1>4. QED
  BY <1>2, <1>3

\* An append or a failed one, of an ordinary block or of one from a fork
\* message, is a step of the ledger and keeps the queues.
LEMMA ProcessBlockStep ==
  ASSUME QueueInv, TablesInv(ledger), NEW b \in Blocks, NEW ignoreFork \in BOOLEAN,
         NEW queue \in Seq(Blocks), ProcessBlock(b, ignoreFork, queue)
  PROVE  /\ \/ /\ AppendCode(ledger, b, clock) = "SUCCESS"
               /\ ledger' = AppendBlock(ledger, b)
            \/ UNCHANGED ledger
         /\ blocks' \in Seq(Blocks)
         /\ forkQueue' \in Seq(Conflicts)
         /\ gaps' \in [GapKinds -> SUBSET GapEntries]
<1> DEFINE code == AppendCode(ledger, b, clock)
           local == BlockAt(ledger, Block[b].account, Block[b].height)
<1>1. /\ blocks \in Seq(Blocks) /\ forkQueue \in Seq(Conflicts)
      /\ gaps \in [GapKinds -> SUBSET GapEntries]
  BY DEF QueueInv
<1>2. CASE /\ code = "SUCCESS"
           /\ ledger' = AppendBlock(ledger, b)
           /\ gaps' = [k \in GapKinds |-> gaps[k] \ Waiting(k, b)]
           /\ blocks' = Requeue(Requeue(Requeue(queue, "GAP_PREVIOUS", b),
                                        "GAP_RECEIVE_SOURCE", b), "GAP_REWARD_SOURCE", b)
           /\ UNCHANGED forkQueue
  <2>1. blocks' \in Seq(Blocks)
    BY <1>1, <1>2, RequeueAllType
  <2>2. gaps' \in [GapKinds -> SUBSET GapEntries]
    BY <1>1, <1>2
  <2>3. QED
    BY <1>1, <1>2, <2>1, <2>2
<1>3. CASE /\ code \in GapKinds
           /\ gaps' = [gaps EXCEPT ![code] = GapInsert(@, MissingHash(code, b), b)]
           /\ blocks' = queue
           /\ UNCHANGED <<ledger, forkQueue>>
  <2>1. MissingHash(code, b) \in BlockHashes
    BY BlocksAssumption DEF MissingHash, BlockHashes, BlockFields
  <2>2. GapInsert(gaps[code], MissingHash(code, b), b) \subseteq GapEntries
    BY <1>1, <1>3, <2>1 DEF GapInsert, GapEntries
  <2>3. gaps' \in [GapKinds -> SUBSET GapEntries]
    BY <1>1, <1>3, <2>2
  <2>4. QED
    BY <1>1, <1>3, <2>3
<1>4. CASE /\ code = "FORK"
           /\ forkQueue' = AddFork(forkQueue, local, b, TRUE)
           /\ blocks' = queue
           /\ UNCHANGED <<ledger, gaps>>
  <2>1. ChainInv(ledger)
    BY DEF TablesInv
  <2>2. local \in Blocks
    BY <1>4, <2>1, ForkStored DEF ChainInv, ChainTables
  <2> HIDE DEF local
  <2>3. forkQueue' \in Seq(Conflicts)
    BY <1>1, <1>4, <2>2, AddForkType
  <2>4. QED
    BY <1>1, <1>4, <2>3
<1>5. CASE blocks' = queue /\ UNCHANGED <<ledger, gaps, forkQueue>>
  BY <1>1, <1>5
<1>6. QED
  BY <1>2, <1>3, <1>4, <1>5 DEF ProcessBlock

-----------------------------------------------------------------------------
(* Operations.                                                             *)

\* What the stack of an operation that touched the accounts A consists of.
Items(A) ==
  [operation : {APPEND, ROLLBACK, CONFIRM}, block : {b \in Blocks : Block[b].account \in A}]

\* The place of a block that was queried.
Hole == Item(APPEND, NoBlock)

WaitingStack(s, A) == \E t \in Seq(Items(A)) : s = t \o <<Hole>>

(***************************************************************************)
(* The operation in the loop has a stack of blocks; every other one has a  *)
(* hole on top of such a stack.                                            *)
(***************************************************************************)
StackInv ==
  /\ operation \in Nat /\ operation >= DYNAMIC_BEGIN
  /\ DOMAIN stack \subseteq DYNAMIC_BEGIN..operation - 1
  /\ stack = [o \in DOMAIN stack |-> stack[o]]
  /\ accounts = [o \in DOMAIN stack |-> accounts[o]]
  /\ Running \subseteq DOMAIN stack
  /\ \A o \in DOMAIN stack : accounts[o] \subseteq Accounts
  /\ \A o \in Running : stack[o] \in Seq(Items(accounts[o]))
  /\ \A o \in DOMAIN stack \ Running :
       WaitingStack(stack[o], accounts[o])

(***************************************************************************)
(* One round of the loop: what it does to the operation and what it does   *)
(* to the ledger, the queue and the caches.                                *)
(***************************************************************************)
Popped(o) ==
  /\ stack' = [stack EXCEPT ![o] = Front(@)]
  /\ UNCHANGED <<queries, thread, accounts>>

Pushed(o) ==
  \E op \in {APPEND, ROLLBACK, CONFIRM}, b \in Blocks :
    /\ stack' = [stack EXCEPT ![o] = @ \o <<Item(op, b)>>]
    /\ accounts' = [accounts EXCEPT ![o] = @ \cup {Block[b].account}]
    /\ UNCHANGED <<queries, thread>>

Suspended(o) ==
  /\ stack' = [stack EXCEPT ![o] = @ \o <<Hole>>]
  /\ \E h \in BlockHashes : queries' = queries \cup {[operation |-> o, hash |-> h]}
  /\ thread' = Idle
  /\ UNCHANGED accounts

Ended(o) ==
  /\ stack' = [stack EXCEPT ![o] = <<>>]
  /\ UNCHANGED <<queries, thread, accounts>>

DynamicLedger(o) ==
  LET b == Top(o).block
  IN  \/ UNCHANGED <<ledger, forkCount, blocks, gaps>>
      \/ /\ AppendCode(ledger, b, clock) = "SUCCESS"
         /\ ledger' = AppendBlock(ledger, b)
         /\ forkCount' = AppendForkCount(b)
         /\ QueueGapCaches(b)
      \/ /\ RollbackCode(ledger, b) = "SUCCESS"
         /\ ledger' = RollbackBlock(ledger, b)
         /\ UNCHANGED <<forkCount, blocks, gaps>>
      \/ /\ ConfirmCode(ledger, b) = "SUCCESS"
         /\ ledger' = ConfirmBlock(ledger, b)
         /\ UNCHANGED <<forkCount, blocks, gaps>>

\* What a round does.
LEMMA DynamicEffect ==
  ASSUME StackInv, TablesInv(ledger), DynamicStep
  PROVE  \E o \in Running :
           /\ o \in DOMAIN stack
           /\ stack[o] \in Seq(Items(accounts[o])) /\ stack[o] # <<>>
           /\ Top(o) \in Items(accounts[o]) /\ Top(o).block \in Blocks
           /\ Block[Top(o).block].account \in accounts[o]
           /\ Popped(o) \/ Pushed(o) \/ Suspended(o) \/ Ended(o)
           /\ DynamicLedger(o)
<1>1. PICK o \in Running :
        /\ stack[o] # <<>>
        /\ \/ Top(o).operation = APPEND   /\ DynamicAppend(o)
           \/ Top(o).operation = ROLLBACK /\ DynamicRollback(o)
           \/ Top(o).operation = CONFIRM  /\ DynamicConfirm(o)
  BY DEF DynamicStep
<1>2. o \in DOMAIN stack /\ stack[o] \in Seq(Items(accounts[o]))
  BY DEF StackInv
<1>3. Top(o) \in Items(accounts[o])
  BY <1>1, <1>2 DEF Top, Last
<1> DEFINE b == Top(o).block
<1>4. b \in Blocks /\ Block[b].account \in accounts[o]
  BY <1>3 DEF Items
<1>5. ChainInv(ledger) /\ ledger.stored \subseteq Blocks
  BY DEF TablesInv, ChainInv, ChainTables
<1>6. Block[b].previous \in BlockHashes /\ Block[b].link \in BlockHashes
  BY <1>4, BlocksAssumption DEF BlockFields, BlockHashes
<1> HIDE DEF b
<1>7. ASSUME DynamicAppend(o)
      PROVE  /\ Popped(o) \/ Pushed(o) \/ Suspended(o) \/ Ended(o)
             /\ DynamicLedger(o)
  <2>1. AppendCode(ledger, b, clock) = "FORK" =>
          BlockAt(ledger, Block[b].account, Block[b].height) \in Blocks
    BY <1>4, <1>5, ForkStored
  <2>2. QED
    BY <1>6, <1>7, <2>1, Zenon
    DEF DynamicAppend, b, Fail, Skip, Pop, Push, Wait, Popped, Pushed, Suspended, Ended,
        DynamicLedger, Hole
<1>8. ASSUME DynamicRollback(o)
      PROVE  /\ Popped(o) \/ Pushed(o) \/ Suspended(o) \/ Ended(o)
             /\ DynamicLedger(o)
  <2>1. RollbackCode(ledger, b) # "ROLLBACK_IGNORE" => b \in ledger.stored
    BY DEF RollbackCode, CheckRollback, AndThen, Unless
  <2>2. b \in ledger.stored => Blocker(ledger, b) \in Blocks
    BY <1>5, RollbackSoundness DEF RollbackSound
  <2>3. /\ RollbackCode(ledger, b) = "ROLLBACK_NON_HEAD" => ledger.successor[b] \in Blocks
        /\ RollbackCode(ledger, b) = "ROLLBACK_REWARDED" =>
             ledger.info[Block[Block[b].previous].rep].head \in Blocks
        /\ RollbackCode(ledger, b) = "ROLLBACK_RECEIVED" =>
             ledger.info[Block[b].link].head \in Blocks
    BY <2>1, <2>2 DEF Blocker
  <2>4. QED
    BY <1>6, <1>8, <2>3, Zenon
    DEF DynamicRollback, b, Fail, Skip, Pop, Push, Wait, Popped, Pushed, Suspended, Ended,
        DynamicLedger, Hole
<1>9. ASSUME DynamicConfirm(o)
      PROVE  /\ Popped(o) \/ Pushed(o) \/ Suspended(o) \/ Ended(o)
             /\ DynamicLedger(o)
  BY <1>4, <1>9, Zenon
  DEF DynamicConfirm, b, Fail, Pop, Push, Popped, Pushed, Ended, DynamicLedger
<1>10. QED
  BY <1>1, <1>2, <1>3, <1>4, <1>7, <1>8, <1>9 DEF b

-----------------------------------------------------------------------------
(* Every step keeps the queues and the stacks and is a step of the ledger. *)

Base == QueueInv /\ StackInv /\ TablesInv(ledger)

\* Only four actions touch the ledger.
LEMMA NextLedger ==
  ASSUME Base, [Next]_vars
  PROVE  LedgerStep
<1>1. CASE TakeBlock
  <2>1. Head(blocks) \in Blocks /\ Tail(blocks) \in Seq(Blocks)
    BY <1>1 DEF TakeBlock, Base, QueueInv
  <2>2. QED
    BY <1>1, <2>1, ProcessBlockStep DEF TakeBlock, Base, QueueInv, LedgerStep
<1>2. CASE TryForkBlock
  <2>1. thread[thread.at] \in Blocks /\ blocks \in Seq(Blocks)
    BY <1>2 DEF TryForkBlock, Base, QueueInv, Threads, Idle
  <2>2. QED
    BY <1>2, <2>1, ProcessBlockStep DEF TryForkBlock, Base, QueueInv, LedgerStep
<1>3. CASE DynamicStep
  BY <1>3, DynamicEffect DEF Base, QueueInv, LedgerStep, DynamicLedger
<1>4. CASE Crash
  BY <1>4, SMTT(40) DEF Crash, LedgerStep
<1>5. CASE TakeFork \/ RecordFork \/ TakeForced \/ FinishOperation \/ AgeGapCaches
  BY <1>5 DEF TakeFork, RecordFork, TakeForced, FinishOperation, AgeGapCaches, LedgerStep
<1>6. CASE \/ \E b \in Blocks : ReceiveBlock(b)
           \/ \E f \in ForkMessages : ReceiveBlockFork(f)
           \/ \E op \in {APPEND, CONFIRM}, b \in Blocks : ForceBlock(op, b)
           \/ Answer
           \/ \E t \in Clocks : SetClock(t)
           \/ UNCHANGED vars
  BY <1>6 DEF ReceiveBlock, ReceiveBlockFork, ForceBlock, Answer, QueryCallback, SetClock, vars,
    LedgerStep
<1>7. QED
  BY <1>1, <1>2, <1>3, <1>4, <1>5, <1>6 DEF Next, Processor, Environment

\* The queues keep their types.
LEMMA NextQueues ==
  ASSUME Base, [Next]_vars
  PROVE  QueueInv'
<1>1. /\ blocks \in Seq(Blocks) /\ forced \in Seq(Answers) /\ forkQueue \in Seq(Conflicts)
      /\ gaps \in [GapKinds -> SUBSET GapEntries] /\ thread \in Threads
      /\ queries \subseteq [operation : Nat, hash : BlockHashes] /\ clock \in Clocks
  BY DEF Base, QueueInv
<1>2. Idle \in Threads
  BY DEF Threads
<1>3. CASE TakeBlock
  <2>1. Head(blocks) \in Blocks /\ Tail(blocks) \in Seq(Blocks)
    BY <1>1, <1>3 DEF TakeBlock
  <2>2. /\ blocks' \in Seq(Blocks) /\ forkQueue' \in Seq(Conflicts)
        /\ gaps' \in [GapKinds -> SUBSET GapEntries]
    BY <1>3, <2>1, ProcessBlockStep DEF TakeBlock, Base
  <2>3. QED
    BY <1>1, <1>3, <2>2 DEF TakeBlock, QueueInv
<1>4. CASE TakeFork
  <2> DEFINE f == Head(forkQueue)
  <2>1. f \in Conflicts /\ Tail(forkQueue) \in Seq(Conflicts)
    BY <1>1, <1>4 DEF TakeFork
  <2>2. /\ UNCHANGED <<blocks, forced, gaps, queries, clock>> /\ forkQueue' = Tail(forkQueue)
        /\ thread' \in {thread, [at |-> "first", first |-> f.first, second |-> f.second]}
    BY <1>4 DEF TakeFork
  <2>3. [at |-> "first", first |-> f.first, second |-> f.second] \in Threads
    BY <2>1 DEF Conflicts, Threads
  <2>4. QED
    BY <1>1, <2>1, <2>2, <2>3 DEF QueueInv
<1>5. CASE TryForkBlock
  <2>1. thread[thread.at] \in Blocks
    BY <1>1, <1>5 DEF TryForkBlock, Threads, Idle
  <2>2. /\ blocks' \in Seq(Blocks) /\ forkQueue' \in Seq(Conflicts)
        /\ gaps' \in [GapKinds -> SUBSET GapEntries]
    BY <1>1, <1>5, <2>1, ProcessBlockStep DEF TryForkBlock, Base
  <2>3. thread' \in Threads
    <3> DEFINE at == IF thread.at = "first" THEN "second" ELSE "fork"
    <3>1. thread \in [at : {"first", "second", "fork"}, first : Blocks, second : Blocks]
      BY <1>1, <1>5 DEF TryForkBlock, Threads, Idle
    <3>2. thread' = [thread EXCEPT !.at = at]
      BY <1>5 DEF TryForkBlock
    <3>3. at \in {"first", "second", "fork"}
      OBVIOUS
    <3> HIDE DEF at
    <3>4. QED
      BY <3>1, <3>2, <3>3 DEF Threads
  <2>4. QED
    BY <1>1, <1>5, <2>2, <2>3 DEF TryForkBlock, QueueInv
<1>6. CASE RecordFork
  BY <1>1, <1>2, <1>6, SMTT(40) DEF RecordFork, QueueInv
<1>7. CASE TakeForced
  <2>1. Tail(forced) \in Seq(Answers)
    BY <1>1, <1>7 DEF TakeForced
  <2>2. Head(forced).operation \in Nat
    <3>1. Head(forced) \in Answers
      BY <1>1, <1>7 DEF TakeForced
    <3>2. QED
      BY <3>1 DEF Answers
  <2>3. \A o \in Nat : InLoop(o) \in Threads
    BY SMTT(40) DEF InLoop, Threads
  <2>4. thread' \in Threads
    BY <1>1, <1>7, <2>2, <2>3 DEF TakeForced, Base, StackInv
  <2>5. QED
    BY <1>1, <1>7, <2>1, <2>4, SMTT(40) DEF TakeForced, QueueInv
<1>8. CASE DynamicStep
  <2>1. PICK o \in Running :
          /\ Top(o).block \in Blocks
          /\ Popped(o) \/ Pushed(o) \/ Suspended(o) \/ Ended(o)
          /\ DynamicLedger(o)
    BY <1>8, DynamicEffect DEF Base
  <2>2. o \in Nat
    BY <1>1 DEF Running, Threads, Idle
  <2>3. thread' \in Threads /\ queries' \subseteq [operation : Nat, hash : BlockHashes]
    <3>1. CASE Suspended(o)
      <4>1. PICK h \in BlockHashes : queries' = queries \cup {[operation |-> o, hash |-> h]}
        BY <3>1 DEF Suspended
      <4>2. [operation |-> o, hash |-> h] \in [operation : Nat, hash : BlockHashes]
        BY <2>2
      <4>3. QED
        BY <1>1, <1>2, <3>1, <4>1, <4>2 DEF Suspended
    <3>2. CASE UNCHANGED <<queries, thread>>
      BY <1>1, <3>2
    <3>3. QED
      BY <2>1, <3>1, <3>2 DEF Popped, Pushed, Ended
  <2>4. blocks' \in Seq(Blocks) /\ gaps' \in [GapKinds -> SUBSET GapEntries]
    <3>1. CASE UNCHANGED <<blocks, gaps>>
      BY <1>1, <3>1
    <3>2. CASE QueueGapCaches(Top(o).block)
      BY <1>1, <3>2, RequeueAllType DEF QueueGapCaches
    <3>3. QED
      BY <2>1, <3>1, <3>2 DEF DynamicLedger
  <2>5. UNCHANGED <<forced, forkQueue, clock>>
    BY <1>8 DEF DynamicStep
  <2>6. QED
    BY <1>1, <2>3, <2>4, <2>5 DEF QueueInv
<1>9. CASE FinishOperation
  BY <1>1, <1>2, <1>9 DEF FinishOperation, QueueInv
<1>10. ASSUME NEW b \in Blocks, ReceiveBlock(b)
       PROVE  QueueInv'
  <2>1. blocks' \in Seq(Blocks)
    BY <1>1, <1>10, AddType DEF ReceiveBlock
  <2>2. QED
    BY <1>1, <1>10, <2>1 DEF ReceiveBlock, QueueInv
<1>11. ASSUME NEW f \in ForkMessages, ReceiveBlockFork(f)
       PROVE  QueueInv'
  <2>1. f[1] \in Blocks /\ f[2] \in Blocks
    BY ProcessorAssumption
  <2>2. forkQueue' \in Seq(Conflicts)
    BY <1>1, <1>11, <2>1, AddForkType DEF ReceiveBlockFork
  <2>3. QED
    BY <1>1, <1>11, <2>2 DEF ReceiveBlockFork, QueueInv
<1>12. ASSUME NEW op \in {APPEND, CONFIRM}, NEW b \in Blocks, ForceBlock(op, b)
       PROVE  QueueInv'
  <2>1. [operation |-> op, block |-> b] \in Answers
    BY DEF Answers, APPEND, CONFIRM
  <2>2. forced' \in Seq(Answers)
    BY <1>1, <1>12, <2>1 DEF ForceBlock
  <2>3. QED
    BY <1>1, <1>12, <2>2 DEF ForceBlock, QueueInv
<1>13. ASSUME NEW q \in queries, QueryCallback(q)
       PROVE  QueueInv'
  <2>1. [operation |-> q.operation, block |-> q.hash] \in Answers
    BY <1>1, <1>13 DEF QueryCallback, Answers
  <2>2. forced' \in Seq(Answers)
    BY <1>1, <1>13, <2>1 DEF QueryCallback
  <2>3. QED
    BY <1>1, <1>13, <2>2 DEF QueryCallback, QueueInv
<1>14. CASE AgeGapCaches
  <2>1. gaps' \in [GapKinds -> SUBSET GapEntries]
    BY <1>1, <1>14 DEF AgeGapCaches
  <2>2. QED
    BY <1>1, <1>14, <2>1 DEF AgeGapCaches, QueueInv
<1>15. CASE Crash
  <2>1. gaps' \in [GapKinds -> SUBSET GapEntries]
    BY <1>15 DEF Crash
  <2>2. clock' \in Clocks
    BY <1>1, <1>15 DEF Crash
  <2>3. QED
    BY <1>2, <1>15, <2>1, <2>2 DEF Crash, QueueInv
<1>16. ASSUME NEW t \in Clocks, SetClock(t)
       PROVE  QueueInv'
  BY <1>1, <1>16 DEF SetClock, QueueInv
<1>17. CASE UNCHANGED vars
  BY <1>1, <1>17 DEF vars, QueueInv
<1>18. QED
  BY <1>3, <1>4, <1>5, <1>6, <1>7, <1>8, <1>9, <1>10, <1>11, <1>12, <1>13, <1>14, <1>15,
     <1>16, <1>17 DEF Next, Processor, Environment, Answer

\* Blocks and forks are served while no operation is in the loop.
LEMMA OutsideLoop ==
  ASSUME QueueInv, TakeBlock \/ TakeFork \/ TryForkBlock \/ RecordFork
  PROVE  Running = {} /\ Running' = {} /\ UNCHANGED <<stack, accounts, operation, queries, forced>>
<1>1. CASE TakeBlock
  BY <1>1 DEF TakeBlock, Running, Idle
<1>2. CASE TakeFork
  BY <1>2 DEF TakeFork, Running, Idle
<1>3. CASE TryForkBlock
  <2>1. thread'.at \in {"second", "fork"}
    BY <1>3 DEF TryForkBlock, QueueInv, Threads, Idle
  <2>2. QED
    BY <1>3, <2>1 DEF TryForkBlock, Running
<1>4. CASE RecordFork
  BY <1>4 DEF RecordFork, Running, Idle
<1>5. QED
  BY <1>1, <1>2, <1>3, <1>4

\* The stacks keep their shape.
LEMMA NextStack ==
  ASSUME Base, [Next]_vars
  PROVE  StackInv'
<1>1. /\ operation \in Nat /\ operation >= DYNAMIC_BEGIN
      /\ DOMAIN stack \subseteq DYNAMIC_BEGIN..operation - 1
      /\ stack = [o \in DOMAIN stack |-> stack[o]]
      /\ accounts = [o \in DOMAIN stack |-> accounts[o]]
      /\ Running \subseteq DOMAIN stack
      /\ \A o \in DOMAIN stack : accounts[o] \subseteq Accounts
      /\ \A o \in Running : stack[o] \in Seq(Items(accounts[o]))
      /\ \A o \in DOMAIN stack \ Running :
           WaitingStack(stack[o], accounts[o])
  BY DEF Base, StackInv
<1>2. ASSUME UNCHANGED <<stack, accounts, operation>>, Running' = Running
      PROVE  StackInv'
  BY <1>1, <1>2 DEF StackInv
<1>3. CASE TakeForced
  <2> DEFINE f == Head(forced)
             a == Block[f.block].account
  <2>1. f \in Answers
    BY <1>3 DEF Base, QueueInv, TakeForced
  <2>2. f.operation \in Nat /\ f.block \in Blocks /\ a \in Accounts
    BY <2>1, BlocksAssumption DEF Answers, BlockFields
  <2>3. Running = {}
    BY <1>3 DEF TakeForced, Running, Idle
  <2> HIDE DEF f
  <2>4. CASE /\ f.operation \in DOMAIN stack
             /\ stack' = [stack EXCEPT ![f.operation] =
                            Front(@) \o <<[Last(@) EXCEPT !.block = f.block]>>]
             /\ accounts' = [accounts EXCEPT ![f.operation] = @ \cup {a}]
             /\ thread' = InLoop(f.operation)
             /\ UNCHANGED operation
    <3> DEFINE o == f.operation
    <3>1. Running' = {o}
      BY <2>4 DEF Running, InLoop
    <3>2. PICK s \in Seq(Items(accounts[o])) : stack[o] = s \o <<Hole>>
      BY <1>1, <2>3, <2>4 DEF WaitingStack
    <3>3. Front(stack[o]) = s /\ Last(stack[o]) = Hole
      <4>1. Len(s \o <<Hole>>) = Len(s) + 1 /\ (s \o <<Hole>>)[Len(s) + 1] = Hole
        BY <3>2
      <4>2. SubSeq(s \o <<Hole>>, 1, Len(s)) = s
        BY <3>2
      <4>3. QED
        BY <3>2, <4>1, <4>2 DEF Front, Last
    <3>4. [Hole EXCEPT !.block = f.block] = Item(APPEND, f.block)
      BY DEF Hole, Item
    <3>5. stack'[o] = s \o <<Item(APPEND, f.block)>> /\ accounts'[o] = accounts[o] \cup {a}
      BY <1>1, <2>4, <3>3, <3>4
    <3>6. stack'[o] \in Seq(Items(accounts'[o]))
      <4>1. Items(accounts[o]) \subseteq Items(accounts'[o])
        BY <3>5 DEF Items
      <4>2. Item(APPEND, f.block) \in Items(accounts'[o])
        BY <2>2, <3>5 DEF Items, Item
      <4>3. s \in Seq(Items(accounts'[o]))
        BY <3>2, <4>1, SeqMonotonic
      <4>4. QED
        BY <3>5, <4>2, <4>3
    <3>7. /\ DOMAIN stack' = DOMAIN stack
          /\ \A p \in DOMAIN stack \ {o} : stack'[p] = stack[p] /\ accounts'[p] = accounts[p]
          /\ stack' = [p \in DOMAIN stack' |-> stack'[p]]
          /\ accounts' = [p \in DOMAIN stack' |-> accounts'[p]]
      BY <1>1, <2>4
    <3>8. \A p \in DOMAIN stack' : accounts'[p] \subseteq Accounts
      BY <1>1, <2>2, <2>4, <3>5, <3>7
    <3>9. \A p \in DOMAIN stack' \ Running' :
            WaitingStack(stack'[p], accounts'[p])
      BY <1>1, <2>3, <3>1, <3>7
    <3>10. QED
      BY <1>1, <2>4, <3>1, <3>6, <3>7, <3>8, <3>9 DEF StackInv
  <2>5. CASE UNCHANGED <<stack, accounts, thread, operation>>
    BY <1>2, <2>5 DEF Running
  <2>6. CASE /\ f.operation \in {APPEND, CONFIRM}
             /\ stack' = [p \in DOMAIN stack \cup {operation} |->
                            IF p = operation THEN <<Item(f.operation, f.block)>> ELSE stack[p]]
             /\ accounts' = [p \in DOMAIN accounts \cup {operation} |->
                               IF p = operation THEN {a} ELSE accounts[p]]
             /\ thread' = InLoop(operation)
             /\ operation' = operation + 1
    <3>1. Running' = {operation}
      BY <2>6 DEF Running, InLoop
    <3>2. operation \notin DOMAIN stack
      BY <1>1 DEF DYNAMIC_BEGIN
    <3>3. /\ DOMAIN stack' = DOMAIN stack \cup {operation}
          /\ stack' = [p \in DOMAIN stack' |-> stack'[p]]
          /\ accounts' = [p \in DOMAIN stack' |-> accounts'[p]]
          /\ stack'[operation] = <<Item(f.operation, f.block)>>
          /\ accounts'[operation] = {a}
          /\ \A p \in DOMAIN stack : stack'[p] = stack[p] /\ accounts'[p] = accounts[p]
      <4>1. DOMAIN accounts = DOMAIN stack
        BY <1>1
      <4>2. QED
        BY <2>6, <3>2, <4>1
    <3>4. stack'[operation] \in Seq(Items(accounts'[operation]))
      <4>1. Item(f.operation, f.block) \in Items({a})
        BY <2>2, <2>6 DEF Item, Items
      <4>2. QED
        BY <3>3, <4>1
    <3>5. \A p \in DOMAIN stack' : accounts'[p] \subseteq Accounts
      BY <1>1, <2>2, <3>3
    <3>6. \A p \in DOMAIN stack' \ Running' :
            WaitingStack(stack'[p], accounts'[p])
      BY <1>1, <2>3, <3>1, <3>3
    <3>7. /\ operation' \in Nat /\ operation' >= DYNAMIC_BEGIN
          /\ DOMAIN stack' \subseteq DYNAMIC_BEGIN..operation' - 1
      BY <1>1, <2>6, <3>3 DEF DYNAMIC_BEGIN
    <3>8. QED
      BY <3>1, <3>3, <3>4, <3>5, <3>6, <3>7 DEF StackInv
  <2>7. QED
    BY <1>3, <2>4, <2>5, <2>6 DEF TakeForced, f
<1>4. CASE DynamicStep
  <2>1. PICK o \in Running :
          /\ stack[o] \in Seq(Items(accounts[o])) /\ stack[o] # <<>>
          /\ Popped(o) \/ Pushed(o) \/ Suspended(o) \/ Ended(o)
    BY <1>4, DynamicEffect DEF Base
  <2>2. Running = {o} /\ o \in DOMAIN stack /\ operation' = operation
    BY <1>1, <1>4, <2>1 DEF Running, DynamicStep
  <2>3. /\ DOMAIN stack' = DOMAIN stack
        /\ stack' = [p \in DOMAIN stack' |-> stack'[p]]
        /\ accounts' = [p \in DOMAIN stack' |-> accounts'[p]]
        /\ \A p \in DOMAIN stack \ {o} : stack'[p] = stack[p] /\ accounts'[p] = accounts[p]
    BY <1>1, <2>1, <2>2 DEF Popped, Pushed, Suspended, Ended
  <2>4. SUFFICES /\ accounts'[o] \subseteq Accounts
                 /\ \/ Running' = {o} /\ stack'[o] \in Seq(Items(accounts'[o]))
                    \/ /\ Running' = {}
                       /\ WaitingStack(stack'[o], accounts'[o])
    <3>1. \A p \in DOMAIN stack' : accounts'[p] \subseteq Accounts
      BY <1>1, <2>2, <2>3, <2>4
    <3>2. /\ Running' \subseteq DOMAIN stack'
          /\ \A p \in Running' : stack'[p] \in Seq(Items(accounts'[p]))
      BY <2>2, <2>3, <2>4
    <3>3. \A p \in DOMAIN stack' \ Running' :
            WaitingStack(stack'[p], accounts'[p])
      BY <1>1, <2>2, <2>3, <2>4
    <3>4. QED
      BY <1>1, <2>2, <2>3, <3>1, <3>2, <3>3 DEF StackInv
  <2>5. accounts[o] \subseteq Accounts
    BY <1>1, <2>2
  <2>6. CASE Popped(o)
    <3>1. stack'[o] = Front(stack[o]) /\ accounts' = accounts /\ Running' = {o}
      BY <1>1, <2>2, <2>6 DEF Popped, Running
    <3>2. Front(stack[o]) \in Seq(Items(accounts[o]))
      BY <2>1 DEF Front
    <3>3. QED
      BY <2>5, <3>1, <3>2
  <2>7. CASE Pushed(o)
    <3>1. PICK op \in {APPEND, ROLLBACK, CONFIRM}, b \in Blocks :
            /\ stack' = [stack EXCEPT ![o] = @ \o <<Item(op, b)>>]
            /\ accounts' = [accounts EXCEPT ![o] = @ \cup {Block[b].account}]
            /\ UNCHANGED <<queries, thread>>
      BY <2>7 DEF Pushed
    <3>2. /\ stack'[o] = stack[o] \o <<Item(op, b)>>
          /\ accounts'[o] = accounts[o] \cup {Block[b].account}
          /\ Running' = {o}
      BY <1>1, <2>2, <3>1 DEF Running
    <3>3. Items(accounts[o]) \subseteq Items(accounts'[o])
      BY <3>2 DEF Items
    <3>4. Item(op, b) \in Items(accounts'[o])
      BY <3>2 DEF Items, Item
    <3>5. stack[o] \in Seq(Items(accounts'[o]))
      BY <2>1, <3>3, SeqMonotonic
    <3>6. Block[b].account \in Accounts
      BY BlocksAssumption DEF BlockFields
    <3>7. stack'[o] \in Seq(Items(accounts'[o]))
      BY <3>2, <3>4, <3>5
    <3>8. QED
      BY <2>5, <3>2, <3>6, <3>7
  <2>8. CASE Suspended(o)
    <3>1. /\ stack'[o] = stack[o] \o <<Hole>> /\ accounts' = accounts
          /\ thread' = Idle
      BY <1>1, <2>2, <2>8 DEF Suspended
    <3>2. Running' = {}
      BY <3>1 DEF Running, Idle
    <3>3. QED
      BY <2>1, <2>5, <3>1, <3>2 DEF WaitingStack
  <2>9. CASE Ended(o)
    <3>1. stack'[o] = <<>> /\ accounts' = accounts /\ Running' = {o}
      BY <1>1, <2>2, <2>9 DEF Ended, Running
    <3>2. QED
      BY <2>5, <3>1
  <2>10. QED
    BY <2>1, <2>6, <2>7, <2>8, <2>9
<1>5. CASE FinishOperation
  <2>1. PICK o \in Running :
          /\ stack' = [p \in DOMAIN stack \ {o} |-> stack[p]]
          /\ accounts' = [p \in DOMAIN accounts \ {o} |-> accounts[p]]
    BY <1>5 DEF FinishOperation
  <2>2. Running = {o} /\ Running' = {} /\ operation' = operation
    BY <1>5 DEF Running, FinishOperation, Idle
  <2>3. DOMAIN accounts = DOMAIN stack
    BY <1>1
  <2>4. /\ DOMAIN stack' = DOMAIN stack \ {o}
        /\ stack' = [p \in DOMAIN stack' |-> stack'[p]]
        /\ accounts' = [p \in DOMAIN stack' |-> accounts'[p]]
        /\ \A p \in DOMAIN stack \ {o} : stack'[p] = stack[p] /\ accounts'[p] = accounts[p]
    BY <2>1, <2>3
  <2>5. \A p \in DOMAIN stack' \ Running' :
          WaitingStack(stack'[p], accounts'[p])
    BY <1>1, <2>2, <2>4
  <2>6. QED
    BY <1>1, <2>2, <2>4, <2>5 DEF StackInv
<1>6. CASE Crash
  <2>1. /\ DOMAIN stack' = {} /\ Running' = {} /\ operation' = operation
        /\ stack' = [p \in DOMAIN stack' |-> stack'[p]]
        /\ accounts' = [p \in DOMAIN stack' |-> accounts'[p]]
    BY <1>6 DEF Crash, Running, Idle
  <2>2. QED
    BY <1>1, <2>1 DEF StackInv
<1>7. CASE TakeBlock \/ TakeFork \/ TryForkBlock \/ RecordFork
  BY <1>2, <1>7, OutsideLoop DEF Base
<1>8. CASE UNCHANGED <<stack, accounts, operation, thread>>
  BY <1>2, <1>8 DEF Running
<1>9. QED
  BY <1>3, <1>4, <1>5, <1>6, <1>7, <1>8
  DEF Next, Processor, Environment, Answer, ReceiveBlock, ReceiveBlockFork, ForceBlock,
      QueryCallback, AgeGapCaches, SetClock, vars

\* A new node has empty queues and no operation.
LEMMA InitBase == Init => Base
<1> SUFFICES ASSUME Init
             PROVE  Base
  OBVIOUS
<1>1. QueueInv
  <2>1. gaps \in [GapKinds -> SUBSET GapEntries]
    BY DEF Init
  <2>2. QED
    BY <2>1 DEF Init, QueueInv, Threads
<1>2. StackInv
  <2>1. DOMAIN stack = {} /\ Running = {} /\ operation = DYNAMIC_BEGIN
    BY DEF Init, Running, Idle
  <2>2. stack = [o \in DOMAIN stack |-> stack[o]] /\ accounts = [o \in DOMAIN stack |-> accounts[o]]
    BY DEF Init
  <2>3. QED
    BY <2>1, <2>2 DEF StackInv, DYNAMIC_BEGIN
<1>3. TablesInv(ledger)
  BY InitTables DEF Init
<1>4. QED
  BY <1>1, <1>2, <1>3 DEF Base

\* The queues, the stacks and the ledger fit in every behaviour.
LEMMA BaseInductive == Spec => []Base
<1>1. Base /\ [Next]_vars => Base'
  <2> SUFFICES ASSUME Base, [Next]_vars
               PROVE  Base'
    OBVIOUS
  <2>1. TablesInv(ledger')
    BY NextLedger, LedgerStepTables DEF Base
  <2>2. QED
    BY <2>1, NextQueues, NextStack DEF Base
<1>2. QED
  BY <1>1, InitBase, PTL DEF Spec

(***************************************************************************)
(* The block processor implements the ledger machine: whatever the queues, *)
(* the stacks, the answers of peers and the crashes do, each of its        *)
(* transactions is an append, a rollback, a confirmation or a restart that *)
(* LedgerMachine allows, so all that is proved of the ledger holds in the  *)
(* node (TakeBlock, TryForkBlock, ProcessBlockDynamic_, restarts).         *)
(***************************************************************************)
THEOREM ProcessorImplementsLedger == Spec => LedgerImplemented
<1>1. Init => Machine!Init
  BY SameStart DEF Init, Machine!Init
<1>2. Base /\ [Next]_vars => [Machine!Next]_ledger
  BY NextLedger, LedgerStepImplements
<1>3. QED
  BY <1>1, <1>2, BaseInductive, PTL DEF Spec, LedgerImplemented, Machine!Spec

-----------------------------------------------------------------------------
(* Queries and answers.                                                    *)

Queried(o) == {q \in queries : q.operation = o}

AnsweredIn(s, o) == {i \in DOMAIN s : s[i].operation = o}

\* One query or one queued answer, never both.
ExactlyOne(Q, A) ==
  \/ A = {} /\ \E q : Q = {q}
  \/ Q = {} /\ \E i : A = {i}

(***************************************************************************)
(* Exactly the operations outside the loop have something outstanding, and *)
(* each of them one thing.                                                 *)
(***************************************************************************)
AnswerInv ==
  \A o \in Nat : o >= DYNAMIC_BEGIN =>
    IF o \in DOMAIN stack \ Running
    THEN ExactlyOne(Queried(o), AnsweredIn(forced, o))
    ELSE Queried(o) = {} /\ AnsweredIn(forced, o) = {}

\* The answers after the first one was taken and after another one came.
LEMMA AnsweredTail ==
  ASSUME NEW s \in Seq(Answers), s # <<>>, NEW o
  PROVE  /\ Head(s).operation # o => 1 \notin AnsweredIn(s, o)
         /\ Head(s).operation = o => 1 \in AnsweredIn(s, o)
         /\ AnsweredIn(s, o) \ {1} = {} => AnsweredIn(Tail(s), o) = {}
         /\ \A i : AnsweredIn(s, o) \ {1} = {i} => AnsweredIn(Tail(s), o) = {i - 1}
<1>1. /\ Len(s) \in Nat /\ Len(s) # 0 /\ DOMAIN s = 1..Len(s)
      /\ Head(s) = s[1] /\ DOMAIN Tail(s) = 1..Len(s) - 1
      /\ \A i \in 1..Len(s) - 1 : Tail(s)[i] = s[i + 1]
  OBVIOUS
<1>2. \A i \in Int : i \in AnsweredIn(Tail(s), o) <=> i # 0 /\ i + 1 \in AnsweredIn(s, o)
  BY <1>1 DEF AnsweredIn
<1>3. AnsweredIn(s, o) \subseteq Int /\ AnsweredIn(Tail(s), o) \subseteq Int
  BY <1>1 DEF AnsweredIn
<1>4. AnsweredIn(s, o) \ {1} = {} => AnsweredIn(Tail(s), o) = {}
  BY <1>2, <1>3
<1>5. ASSUME NEW i, AnsweredIn(s, o) \ {1} = {i}
      PROVE  AnsweredIn(Tail(s), o) = {i - 1}
  <2>1. i \in Int /\ i \in AnsweredIn(s, o) /\ i # 1
    BY <1>3, <1>5
  <2>2. i - 1 \in Int /\ (i - 1) + 1 = i /\ i - 1 # 0
    BY <2>1
  <2>3. i - 1 \in AnsweredIn(Tail(s), o)
    BY <1>2, <2>1, <2>2
  <2>4. ASSUME NEW j \in AnsweredIn(Tail(s), o)
        PROVE  j = i - 1
    <3>1. j \in Int /\ j # 0 /\ j + 1 \in AnsweredIn(s, o)
      BY <1>2, <1>3
    <3>2. j + 1 = i
      BY <1>5, <3>1
    <3>3. QED
      BY <3>1, <3>2
  <2>5. QED
    BY <2>3, <2>4
<1>6. QED
  BY <1>1, <1>4, <1>5 DEF AnsweredIn

\* One more answer.
LEMMA AnsweredMore ==
  ASSUME NEW s \in Seq(Answers), NEW x \in Answers, NEW o
  PROVE  AnsweredIn(s \o <<x>>, o) =
           AnsweredIn(s, o) \cup (IF x.operation = o THEN {Len(s) + 1} ELSE {})
<1>1. /\ Len(s) \in Nat /\ DOMAIN s = 1..Len(s)
      /\ DOMAIN (s \o <<x>>) = 1..Len(s) + 1
      /\ (s \o <<x>>)[Len(s) + 1] = x
      /\ \A i \in 1..Len(s) : (s \o <<x>>)[i] = s[i]
  OBVIOUS
<1>2. QED
  BY <1>1 DEF AnsweredIn

\* What is outstanding stays in step with the stacks.
LEMMA NextAnswers ==
  ASSUME Base, AnswerInv, [Next]_vars
  PROVE  AnswerInv'
<1>1. /\ operation \in Nat /\ operation >= DYNAMIC_BEGIN
      /\ DOMAIN stack \subseteq DYNAMIC_BEGIN..operation - 1
      /\ stack = [o \in DOMAIN stack |-> stack[o]]
      /\ Running \subseteq DOMAIN stack
  BY DEF Base, StackInv
<1>2. forced \in Seq(Answers) /\ queries \subseteq [operation : Nat, hash : BlockHashes]
  BY DEF Base, QueueInv
<1>3. ASSUME UNCHANGED <<queries, forced>>, DOMAIN stack' = DOMAIN stack, Running' = Running
      PROVE  AnswerInv'
  BY <1>3 DEF AnswerInv, Queried
<1>4. CASE TakeForced
  <2> DEFINE f == Head(forced)
  <2>1. /\ Running = {} /\ forced # <<>> /\ forced' = Tail(forced) /\ queries' = queries
        /\ f.operation \in Nat
    <3>1. Running = {} /\ forced # <<>> /\ forced' = Tail(forced) /\ queries' = queries
      BY <1>4 DEF TakeForced, Running, Idle
    <3>2. f \in Answers
      BY <1>2, <3>1
    <3>3. QED
      BY <3>1, <3>2 DEF Answers
  <2>2. \A o : Queried(o)' = Queried(o)
    BY <2>1 DEF Queried
  <2>3. ASSUME NEW o \in Nat, o >= DYNAMIC_BEGIN, o # f.operation,
               ExactlyOne(Queried(o), AnsweredIn(forced, o))
        PROVE  ExactlyOne(Queried(o), AnsweredIn(forced', o))
    <3>1. 1 \notin AnsweredIn(forced, o)
      BY <1>2, <2>1, <2>3, AnsweredTail
    <3>2. AnsweredIn(forced, o) \ {1} = AnsweredIn(forced, o)
      BY <3>1
    <3>3. CASE AnsweredIn(forced, o) = {}
      <4>1. AnsweredIn(forced', o) = {}
        BY <1>2, <2>1, <3>2, <3>3, AnsweredTail
      <4>2. QED
        BY <2>3, <3>3, <4>1 DEF ExactlyOne
    <3>4. CASE AnsweredIn(forced, o) # {}
      <4>1. PICK i : AnsweredIn(forced, o) = {i} /\ Queried(o) = {}
        BY <2>3, <3>4 DEF ExactlyOne
      <4>2. AnsweredIn(forced', o) = {i - 1}
        BY <1>2, <2>1, <3>2, <4>1, AnsweredTail
      <4>3. QED
        BY <4>1, <4>2 DEF ExactlyOne
    <3>5. QED
      BY <3>3, <3>4
  <2>4. ASSUME NEW o \in Nat, AnsweredIn(forced, o) = {}
        PROVE  AnsweredIn(forced', o) = {}
    BY <1>2, <2>1, <2>4, AnsweredTail
  <2>5. CASE /\ f.operation \in DOMAIN stack
             /\ DOMAIN stack' = DOMAIN stack
             /\ thread' = InLoop(f.operation)
    <3> DEFINE p == f.operation
    <3>1. p \in Nat /\ p >= DYNAMIC_BEGIN
      BY <1>1, <2>5 DEF DYNAMIC_BEGIN
    <3>2. Running' = {p}
      BY <2>5 DEF Running, InLoop
    <3>3. ExactlyOne(Queried(p), AnsweredIn(forced, p))
      BY <2>1, <2>5, <3>1 DEF AnswerInv
    <3>4. 1 \in AnsweredIn(forced, p)
      BY <1>2, <2>1, AnsweredTail
    <3>5. Queried(p) = {} /\ AnsweredIn(forced, p) \ {1} = {}
      BY <3>3, <3>4 DEF ExactlyOne
    <3>6. AnsweredIn(forced', p) = {}
      BY <1>2, <2>1, <3>5, AnsweredTail
    <3> HIDE DEF f
    <3>7. QED
      BY <2>1, <2>2, <2>3, <2>4, <2>5, <3>1, <3>2, <3>5, <3>6 DEF AnswerInv
  <2>6. CASE f.operation >= DYNAMIC_BEGIN /\ f.operation \notin DOMAIN stack
    <3>1. 1 \in AnsweredIn(forced, f.operation)
      BY <1>2, <2>1, AnsweredTail
    <3>2. AnsweredIn(forced, f.operation) = {}
      BY <2>1, <2>6 DEF AnswerInv
    <3>3. QED
      BY <3>1, <3>2
  <2>7. CASE /\ f.operation \in {APPEND, CONFIRM}
             /\ DOMAIN stack' = DOMAIN stack \cup {operation}
             /\ thread' = InLoop(operation)
    <3>1. Running' = {operation} /\ operation \notin DOMAIN stack
      BY <1>1, <2>7 DEF Running, InLoop, DYNAMIC_BEGIN
    <3>2. \A o \in Nat : o >= DYNAMIC_BEGIN => o # f.operation
      BY <2>7 DEF DYNAMIC_BEGIN, APPEND, CONFIRM
    <3> HIDE DEF f
    <3>3. QED
      BY <2>1, <2>2, <2>3, <2>4, <2>7, <3>1, <3>2 DEF AnswerInv
  <2>8. QED
    BY <1>1, <1>4, <2>5, <2>6, <2>7 DEF TakeForced
<1>5. CASE DynamicStep
  <2>1. PICK o \in Running : Popped(o) \/ Pushed(o) \/ Suspended(o) \/ Ended(o)
    BY <1>5, DynamicEffect DEF Base
  <2>2. /\ Running = {o} /\ o \in DOMAIN stack /\ forced' = forced
        /\ o \in Nat /\ o >= DYNAMIC_BEGIN
    BY <1>1, <1>5, <2>1 DEF Running, DynamicStep, DYNAMIC_BEGIN
  <2>3. DOMAIN stack' = DOMAIN stack
    BY <1>1, <2>1 DEF Popped, Pushed, Suspended, Ended
  <2>4. CASE UNCHANGED <<queries, thread>>
    BY <1>3, <2>2, <2>3, <2>4 DEF Running
  <2>5. CASE Suspended(o)
    <3>1. PICK h : queries' = queries \cup {[operation |-> o, hash |-> h]}
      BY <2>5 DEF Suspended
    <3>2. Running' = {}
      BY <2>5 DEF Suspended, Running, Idle
    <3>3. Queried(o) = {} /\ AnsweredIn(forced, o) = {}
      BY <2>2 DEF AnswerInv
    <3>4. Queried(o)' = {[operation |-> o, hash |-> h]}
      BY <3>1, <3>3 DEF Queried
    <3>5. \A p : p # o => Queried(p)' = Queried(p)
      BY <3>1 DEF Queried
    <3>6. ExactlyOne(Queried(o)', AnsweredIn(forced, o))
      BY <3>3, <3>4 DEF ExactlyOne
    <3>7. QED
      BY <2>2, <2>3, <3>2, <3>5, <3>6 DEF AnswerInv
  <2>6. QED
    BY <2>1, <2>4, <2>5 DEF Popped, Pushed, Ended
<1>6. CASE FinishOperation
  <2>1. PICK o \in Running : stack' = [p \in DOMAIN stack \ {o} |-> stack[p]]
    BY <1>6 DEF FinishOperation
  <2>2. /\ Running = {o} /\ Running' = {} /\ DOMAIN stack' = DOMAIN stack \ {o}
        /\ UNCHANGED <<queries, forced>>
    BY <1>6, <2>1 DEF Running, FinishOperation, Idle
  <2>3. QED
    BY <2>2 DEF AnswerInv, Queried
<1>7. CASE Crash
  <2>1. /\ DOMAIN stack' = {} /\ \A o : Queried(o)' = {}
        /\ \A o : AnsweredIn(forced', o) = {}
    BY <1>7 DEF Crash, Queried, AnsweredIn
  <2>2. QED
    BY <2>1 DEF AnswerInv
<1>8. CASE TakeBlock \/ TakeFork \/ TryForkBlock \/ RecordFork
  BY <1>3, <1>8, OutsideLoop DEF Base
<1>9. ASSUME NEW op \in {APPEND, CONFIRM}, NEW b \in Blocks, ForceBlock(op, b)
      PROVE  AnswerInv'
  <2> DEFINE x == [operation |-> op, block |-> b]
  <2>1. x \in Answers /\ x.operation < DYNAMIC_BEGIN
    BY DEF Answers, APPEND, CONFIRM, DYNAMIC_BEGIN
  <2>2. forced' = forced \o <<x>> /\ UNCHANGED <<queries, stack, thread>>
    BY <1>9 DEF ForceBlock
  <2> HIDE DEF x
  <2>3. \A o \in Nat : o >= DYNAMIC_BEGIN => x.operation # o
    BY <2>1 DEF DYNAMIC_BEGIN, Answers
  <2>4. ASSUME NEW o \in Nat, o >= DYNAMIC_BEGIN
        PROVE  AnsweredIn(forced', o) = AnsweredIn(forced, o)
    <3>1. x.operation # o
      BY <2>3, <2>4
    <3>2. AnsweredIn(forced \o <<x>>, o) = AnsweredIn(forced, o) \cup {}
      BY <1>2, <2>1, <3>1, AnsweredMore
    <3>3. QED
      BY <2>2, <3>2
  <2>5. (\A o : Queried(o)' = Queried(o)) /\ Running' = Running
    BY <2>2 DEF Queried, Running
  <2>6. QED
    BY <2>2, <2>4, <2>5 DEF AnswerInv
<1>10. ASSUME NEW q \in queries, QueryCallback(q)
       PROVE  AnswerInv'
  <2> DEFINE x == [operation |-> q.operation, block |-> q.hash]
             p == q.operation
  <2>1. x \in Answers /\ p \in Nat
    BY <1>2, <1>10 DEF Answers, QueryCallback
  <2>2. forced' = forced \o <<x>> /\ queries' = queries \ {q} /\ UNCHANGED <<stack, thread>>
    BY <1>10 DEF QueryCallback
  <2>3. Running' = Running
    BY <2>2 DEF Running
  <2>4. ASSUME NEW o, o # p
        PROVE  Queried(o)' = Queried(o) /\ AnsweredIn(forced', o) = AnsweredIn(forced, o)
    <3>1. x.operation # o
      BY <2>4
    <3>2. AnsweredIn(forced \o <<x>>, o) = AnsweredIn(forced, o) \cup {}
      <4> HIDE DEF x
      <4>1. QED
        BY <1>2, <2>1, <3>1, AnsweredMore
    <3>3. Queried(o)' = Queried(o)
      BY <2>2, <2>4 DEF Queried
    <3>4. QED
      BY <2>2, <3>2, <3>3
  <2>5. ASSUME p >= DYNAMIC_BEGIN
        PROVE  /\ p \in DOMAIN stack \ Running
               /\ ExactlyOne(Queried(p)', AnsweredIn(forced', p))
    <3>1. q \in Queried(p)
      BY DEF Queried
    <3>2. p \in DOMAIN stack \ Running /\ Queried(p) = {q} /\ AnsweredIn(forced, p) = {}
      BY <2>1, <2>5, <3>1 DEF AnswerInv, ExactlyOne
    <3>3. Queried(p)' = {}
      BY <2>2, <3>2 DEF Queried
    <3>4. x.operation = p
      OBVIOUS
    <3> HIDE DEF x
    <3>5. AnsweredIn(forced', p) = {Len(forced) + 1}
      BY <1>2, <2>1, <2>2, <3>2, <3>4, AnsweredMore
    <3>6. QED
      BY <3>2, <3>3, <3>5 DEF ExactlyOne
  <2> HIDE DEF x, p
  <2>6. QED
    BY <2>2, <2>3, <2>4, <2>5 DEF AnswerInv
<1>11. CASE UNCHANGED <<queries, forced, stack, thread>>
  BY <1>3, <1>11 DEF Running
<1>12. QED
  BY <1>4, <1>5, <1>6, <1>7, <1>8, <1>9, <1>10, <1>11
  DEF Next, Processor, Environment, Answer, ReceiveBlock, ReceiveBlockFork, AgeGapCaches,
      SetClock, vars

(***************************************************************************)
(* An operation outside the loop waits for exactly one block, and an       *)
(* answer never meets an operation that is not waiting for it: what        *)
(* ProcessBlockForced_ overwrites on the stack is the place of the block   *)
(* that was queried, whatever the order of answers, verdicts and crashes.  *)
(***************************************************************************)
THEOREM AnswersMeetWaits == Spec => []OneAnswerPerWait
<1>1. Init => AnswerInv
  BY DEF Init, AnswerInv, Queried, AnsweredIn
<1>2. Base /\ AnswerInv /\ [Next]_vars => AnswerInv'
  BY NextAnswers
<1>3. Base /\ AnswerInv => OneAnswerPerWait
  <2> SUFFICES ASSUME Base, AnswerInv, NEW o \in DYNAMIC_BEGIN..operation
               PROVE  IF o \in DOMAIN stack \ Running
                      THEN /\ Pending(o) = 1
                           /\ Top(o) = Item(APPEND, NoBlock)
                           /\ \A i \in 1..Len(stack[o]) - 1 : stack[o][i].block # NoBlock
                      ELSE Pending(o) = 0
    BY DEF OneAnswerPerWait
  <2>1. o \in Nat /\ o >= DYNAMIC_BEGIN
    BY DEF Base, StackInv, DYNAMIC_BEGIN
  <2>2. Pending(o) = Cardinality(Queried(o)) + Cardinality(AnsweredIn(forced, o))
    BY DEF Pending, Queried, AnsweredIn
  <2>3. CASE o \in DOMAIN stack \ Running
    <3>1. ExactlyOne(Queried(o), AnsweredIn(forced, o))
      BY <2>1, <2>3 DEF AnswerInv
    <3>2. Pending(o) = 1
      <4>1. Cardinality({}) = 0 /\ \A x : Cardinality({x}) = 1
        BY FS_Singleton, FS_EmptySet
      <4>2. \/ /\ Cardinality(Queried(o)) = 1
               /\ Cardinality(AnsweredIn(forced, o)) = 0
            \/ /\ Cardinality(Queried(o)) = 0
               /\ Cardinality(AnsweredIn(forced, o)) = 1
        BY <3>1, <4>1, Zenon DEF ExactlyOne
      <4>3. QED
        BY <2>2, <4>2
    <3>3. PICK t \in Seq(Items(accounts[o])) : stack[o] = t \o <<Hole>>
      BY <2>3 DEF Base, StackInv, WaitingStack
    <3>4. /\ Len(t) \in Nat /\ Len(stack[o]) = Len(t) + 1
          /\ stack[o][Len(t) + 1] = Hole
          /\ \A i \in 1..Len(t) : stack[o][i] = t[i] /\ t[i] \in Items(accounts[o])
      BY <3>3
    <3>5. \A i \in 1..Len(stack[o]) - 1 : stack[o][i].block # NoBlock
      BY <3>4, BlocksAssumption DEF Items
    <3>6. QED
      BY <2>3, <3>2, <3>4, <3>5 DEF Top, Last, Hole
  <2>4. CASE o \notin DOMAIN stack \ Running
    <3>1. Queried(o) = {} /\ AnsweredIn(forced, o) = {}
      BY <2>1, <2>4 DEF AnswerInv
    <3>2. QED
      BY <2>2, <2>4, <3>1, FS_EmptySet
  <2>5. QED
    BY <2>3, <2>4
<1>4. QED
  BY <1>1, <1>2, <1>3, BaseInductive, PTL DEF Spec

-----------------------------------------------------------------------------
(* Gap caches.                                                             *)

\* The predecessor a block names, where there is such a block, is the one of
\* its account that is one lower.
Fits(b) ==
  Block[b].height # 0 /\ Block[b].previous \in Blocks =>
    /\ Block[Block[b].previous].account = Block[b].account
    /\ Block[Block[b].previous].height = Block[b].height - 1

(***************************************************************************)
(* What a block in a gap cache misses is not stored, unless the block      *)
(* names a predecessor it cannot follow: such a block waits for a stored   *)
(* one until it is aged out.                                               *)
(***************************************************************************)
Missing(k, e) ==
  /\ k = "GAP_PREVIOUS" => e.hash = Block[e.block].previous
  /\ e.hash \in ledger.stored => k = "GAP_PREVIOUS" /\ ~Fits(e.block)

GapsInv == \A k \in GapKinds : \A e \in gaps[k] : Missing(k, e)

\* A block is only put aside for what is not there.
LEMMA GapMisses ==
  ASSUME NEW L, ChainInv(L), NEW b \in Blocks, NEW t, AppendCode(L, b, t) \in GapKinds
  PROVE  MissingHash(AppendCode(L, b, t), b) \in L.stored =>
           AppendCode(L, b, t) = "GAP_PREVIOUS" /\ ~Fits(b)
<1> DEFINE a == Block[b].account
           info == L.info[a]
           prev == Block[b].previous
           code == AppendCode(L, b, t)
<1>1. a \in Accounts /\ Block[b].height \in Nat
  BY BlocksAssumption, SMTT(40) DEF BlockFields
<1>2. /\ CheckCommon(L, b, t) \in {"SUCCESS", "SIGNATURE", "TIMESTAMP", "EXISTS"}
      /\ CheckFirstCommon(b) \in {"SUCCESS", "GAP_PREVIOUS", "CREDIT", "PREVIOUS"}
      /\ CheckFirstCommon(b) = "GAP_PREVIOUS" => Block[b].height # 0
      /\ CheckSuccessorCommon(b, info) \in
           {"SUCCESS", "FORK", "GAP_PREVIOUS", "TYPE_MISMATCH", "PREVIOUS", "TIMESTAMP"}
      /\ CheckSuccessorCommon(b, info) = "GAP_PREVIOUS" =>
           Block[b].height > info.headHeight + 1
      /\ CheckCarried(info.head, b) \notin GapKinds
      /\ \A x : CheckReceivable(L, b, x) \notin GapKinds /\ CheckRewardable(L, b, x) \notin GapKinds
  BY DEF CheckCommon, CheckFirstCommon, CheckSuccessorCommon, CheckCarried, CheckCounterSame,
         CheckCounterIncrease, CheckRepresentativeSame, CheckReceivable, CheckRewardable,
         GapKinds, AndThen, Unless
<1>3. /\ CheckSource(L, b, "GAP_RECEIVE_SOURCE") \in
           {"SUCCESS", "GAP_RECEIVE_SOURCE", "TIMESTAMP"}
      /\ CheckSource(L, b, "GAP_RECEIVE_SOURCE") = "GAP_RECEIVE_SOURCE" =>
           Block[b].link \notin L.stored
      /\ CheckSource(L, b, "GAP_REWARD_SOURCE") \in
           {"SUCCESS", "GAP_REWARD_SOURCE", "TIMESTAMP"}
      /\ CheckSource(L, b, "GAP_REWARD_SOURCE") = "GAP_REWARD_SOURCE" =>
           Block[b].link \notin L.stored
  BY DEF CheckSource, AndThen, Unless
<1>4. CASE info = NoInfo
  <2>1. code = CheckOpen(L, b)
    BY <1>2, <1>4 DEF AppendCode, AndThen, GapKinds
  <2>2. /\ code = "GAP_PREVIOUS" => Block[b].height # 0
        /\ code # "GAP_PREVIOUS" => Block[b].link \notin L.stored
    <3>1. CASE Block[b].opcode = "RECEIVE"
      <4>1. code \in {CheckFirstCommon(b), "COUNTER",
                      CheckSource(L, b, "GAP_RECEIVE_SOURCE"),
                      CheckReceivable(L, b, OpenAmount(b))}
        BY <2>1, <3>1 DEF CheckOpen, AndThen, Unless
      <4>2. QED
        BY <1>2, <1>3, <4>1 DEF GapKinds
    <3>2. CASE Block[b].opcode = "REWARD"
      <4>1. code \in {CheckFirstCommon(b), "COUNTER",
                      CheckSource(L, b, "GAP_REWARD_SOURCE"),
                      CheckRewardable(L, b, OpenAmount(b))}
        BY <2>1, <3>2 DEF CheckOpen, AndThen, Unless
      <4>2. QED
        BY <1>2, <1>3, <4>1 DEF GapKinds
    <3>3. CASE Block[b].opcode \notin {"RECEIVE", "REWARD"}
      BY <2>1, <3>3 DEF CheckOpen, GapKinds
    <3>4. QED
      BY <3>1, <3>2, <3>3
  <2>3. ASSUME code = "GAP_PREVIOUS", prev \in L.stored
        PROVE  ~Fits(b)
    <3>1. ChainOf(L, a) = {}
      BY <1>1, <1>4 DEF ChainInv, Chained
    <3>2. Block[prev].account # a
      BY <2>3, <3>1 DEF ChainOf
    <3>3. prev \in Blocks
      BY <2>3 DEF ChainInv, ChainTables
    <3>4. QED
      BY <2>2, <2>3, <3>2, <3>3 DEF Fits
  <2>4. QED
    BY <2>2, <2>3 DEF MissingHash
<1>5. CASE info # NoInfo
  <2>1. \/ code = "GAP_PREVIOUS" /\ Block[b].height > info.headHeight + 1
        \/ code = CheckOperation(L, info.head, b)
    BY <1>2, <1>5 DEF AppendCode, AndThen, GapKinds
  <2>2. Block[b].opcode \in {"SEND", "DESTROY", "RECEIVE", "REWARD", "CHANGE", "CREDIT", "BIND"}
    <3>1. Block[b].type \in Types /\ Block[b].opcode \in CheckOpcode[Block[b].type]
      BY BlocksAssumption DEF BlockFields
    <3>2. QED
      BY <3>1 DEF Types, CheckOpcode
  <2>3. code = CheckOperation(L, info.head, b) =>
          code # "GAP_PREVIOUS" /\ Block[b].link \notin L.stored
    <3> DEFINE op == Block[b].opcode
               oper == CheckOperation(L, info.head, b)
    <3>1. op \notin {"RECEIVE", "REWARD"} =>
            oper \in {"SUCCESS", "BALANCE", "LINK", "BINDING_COUNT"}
      BY <2>2 DEF CheckOperation, AndThen, Unless
    <3>2. op = "RECEIVE" => \E x :
            oper \in {CheckSource(L, b, "GAP_RECEIVE_SOURCE"), "BALANCE", CheckReceivable(L, b, x)}
      BY DEF CheckOperation, AndThen, Unless
    <3>3. op = "REWARD" => \E x :
            oper \in {CheckSource(L, b, "GAP_REWARD_SOURCE"), "BALANCE", CheckRewardable(L, b, x)}
      BY DEF CheckOperation, AndThen, Unless
    <3> HIDE DEF oper
    <3>4. oper \in GapKinds => oper # "GAP_PREVIOUS" /\ Block[b].link \notin L.stored
      BY <1>2, <1>3, <3>1, <3>2, <3>3 DEF GapKinds
    <3>5. QED
      BY <3>4, SMTT(40) DEF oper
  <2>4. ASSUME code = "GAP_PREVIOUS", prev \in L.stored
        PROVE  ~Fits(b)
    <3>1. Block[b].height > info.headHeight + 1
      BY <2>1, <2>3, <2>4
    <3>2. /\ {Block[c].height : c \in ChainOf(L, a)} = 0..info.headHeight
          /\ info.headHeight \in Nat
      BY <1>1, <1>5 DEF ChainInv, Chained, ChainTables, AccountInfos
    <3>3. prev \in Blocks
      BY <2>4 DEF ChainInv, ChainTables
    <3>4. Block[prev].account = a => Block[prev].height \in 0..info.headHeight
      BY <2>4, <3>2 DEF ChainOf
    <3>5. QED
      BY <1>1, <3>1, <3>2, <3>3, <3>4 DEF Fits
  <2>5. QED
    BY <2>1, <2>3, <2>4 DEF MissingHash, GapKinds
<1>6. QED
  BY <1>4, <1>5

\* An append tells whoever waits for the block; other steps store nothing.
LEMMA GapsFrame ==
  ASSUME Base, GapsInv,
         \/ /\ ledger'.stored \subseteq ledger.stored
            /\ \A k \in GapKinds : gaps'[k] \subseteq gaps[k]
         \/ \E b \in Blocks :
              /\ AppendCode(ledger, b, clock) = "SUCCESS" /\ ledger' = AppendBlock(ledger, b)
              /\ gaps' = [k \in GapKinds |-> gaps[k] \ Waiting(k, b)]
  PROVE  GapsInv'
<1>1. CASE /\ ledger'.stored \subseteq ledger.stored
           /\ \A k \in GapKinds : gaps'[k] \subseteq gaps[k]
  BY <1>1 DEF GapsInv, Missing
<1>2. ASSUME NEW b \in Blocks,
             AppendCode(ledger, b, clock) = "SUCCESS", ledger' = AppendBlock(ledger, b),
             gaps' = [k \in GapKinds |-> gaps[k] \ Waiting(k, b)]
      PROVE  GapsInv'
  <2>1. ledger'.stored = ledger.stored \cup {b}
    BY <1>2, AppendEffect DEF Base, TablesInv, ChainInv, ChainTables
  <2>2. \A k \in GapKinds : \A e \in gaps'[k] : e \in gaps[k] /\ e.hash # b
    BY <1>2 DEF Waiting
  <2>3. QED
    BY <2>1, <2>2 DEF GapsInv, Missing
<1>3. QED
  BY <1>1, <1>2

\* A rollback, a confirmation and a restart store nothing.
LEMMA OthersStoreNothing ==
  ASSUME NEW L, TablesInv(L), NEW b \in Blocks
  PROVE  /\ RollbackBlock(L, b).stored \subseteq L.stored
         /\ ConfirmCode(L, b) = "SUCCESS" => ConfirmBlock(L, b).stored = L.stored
         /\ InitMemoryTables(L).stored = L.stored
  BY RollbackEffect, ConfirmChainInv, RestartChainInv DEF TablesInv, ChainInv, ChainTables

\* An ordinary block or one of a fork message keeps the caches honest.
LEMMA ProcessBlockGaps ==
  ASSUME Base, GapsInv, NEW b \in Blocks, NEW ignoreFork, NEW queue,
         ProcessBlock(b, ignoreFork, queue)
  PROVE  GapsInv'
<1> DEFINE code == AppendCode(ledger, b, clock)
           hash == MissingHash(code, b)
<1>1. CASE UNCHANGED <<ledger, gaps>>
  BY <1>1, GapsFrame
<1>2. CASE /\ code = "SUCCESS" /\ ledger' = AppendBlock(ledger, b)
           /\ gaps' = [k \in GapKinds |-> gaps[k] \ Waiting(k, b)]
  BY <1>2, GapsFrame
<1>3. CASE /\ code \in GapKinds
           /\ gaps' = [gaps EXCEPT ![code] = GapInsert(@, hash, b)]
           /\ UNCHANGED ledger
  <2>1. ChainInv(ledger) /\ gaps \in [GapKinds -> SUBSET GapEntries]
    BY DEF Base, TablesInv, QueueInv
  <2> DEFINE new == [hash |-> hash, block |-> b]
  <2>2. Missing(code, new)
    <3>1. hash \in ledger.stored => code = "GAP_PREVIOUS" /\ ~Fits(b)
      BY <1>3, <2>1, GapMisses
    <3>2. code = "GAP_PREVIOUS" => hash = Block[b].previous
      BY DEF MissingHash
    <3> HIDE DEF code, hash
    <3>3. QED
      BY <3>1, <3>2 DEF Missing
  <2> HIDE DEF code, hash
  <2>3. gaps'[code] \subseteq gaps[code] \cup {new} /\ \A k \in GapKinds \ {code} : gaps'[k] = gaps[k]
    BY <1>3, <2>1 DEF GapInsert
  <2> HIDE DEF new
  <2>4. \A k \in GapKinds : \A e \in gaps'[k] : Missing(k, e)
    BY <1>3, <2>2, <2>3, SMTT(40) DEF GapsInv
  <2>5. QED
    BY <1>3, <2>4 DEF GapsInv, Missing
<1>4. QED
  BY <1>1, <1>2, <1>3 DEF ProcessBlock

\* Every step keeps the caches honest.
LEMMA NextGaps ==
  ASSUME Base, GapsInv, [Next]_vars
  PROVE  GapsInv'
<1>1. gaps \in [GapKinds -> SUBSET GapEntries]
  BY DEF Base, QueueInv
<1>2. CASE TakeBlock
  <2>1. Head(blocks) \in Blocks
    BY <1>2 DEF TakeBlock, Base, QueueInv
  <2>2. QED
    BY <1>2, <2>1, ProcessBlockGaps DEF TakeBlock
<1>3. CASE TryForkBlock
  <2>1. thread[thread.at] \in Blocks
    BY <1>3 DEF TryForkBlock, Base, QueueInv, Threads, Idle
  <2>2. QED
    BY <1>3, <2>1, ProcessBlockGaps DEF TryForkBlock
<1>4. CASE DynamicStep
  <2>1. PICK o \in Running : Top(o).block \in Blocks /\ DynamicLedger(o)
    BY <1>4, DynamicEffect DEF Base
  <2> DEFINE b == Top(o).block
  <2> HIDE DEF b
  <2>2. CASE UNCHANGED <<ledger, gaps>>
    BY <2>2, GapsFrame
  <2>3. CASE /\ AppendCode(ledger, b, clock) = "SUCCESS" /\ ledger' = AppendBlock(ledger, b)
             /\ QueueGapCaches(b)
    BY <2>1, <2>3, GapsFrame DEF QueueGapCaches, b
  <2>4. CASE /\ \/ ledger' = RollbackBlock(ledger, b)
                \/ ConfirmCode(ledger, b) = "SUCCESS" /\ ledger' = ConfirmBlock(ledger, b)
             /\ UNCHANGED gaps
    BY <2>1, <2>4, GapsFrame, OthersStoreNothing DEF Base, b
  <2>5. QED
    BY <2>1, <2>2, <2>3, <2>4 DEF DynamicLedger, b
<1>5. CASE AgeGapCaches
  <2>1. \A k \in GapKinds : gaps'[k] \subseteq gaps[k]
    BY <1>1, <1>5 DEF AgeGapCaches
  <2>2. QED
    BY <1>5, <2>1, GapsFrame DEF AgeGapCaches
<1>6. CASE Crash
  <2>1. \A k \in GapKinds : gaps'[k] = {}
    BY <1>6 DEF Crash
  <2>2. QED
    BY <2>1 DEF GapsInv
<1>7. CASE UNCHANGED <<ledger, gaps>>
  BY <1>7, GapsFrame
<1>8. QED
  BY <1>2, <1>3, <1>4, <1>5, <1>6, <1>7
  DEF Next, Processor, Environment, Answer, TakeFork, RecordFork, TakeForced, FinishOperation,
      ReceiveBlock, ReceiveBlockFork, ForceBlock, QueryCallback, SetClock, vars

\* The caches are honest in every behaviour.
LEMMA GapsInductive == Spec => []GapsInv
<1>1. Init => GapsInv
  BY DEF Init, GapsInv
<1>2. Base /\ GapsInv /\ [Next]_vars => GapsInv'
  BY NextGaps
<1>3. QED
  BY <1>1, <1>2, BaseInductive, PTL DEF Spec

(***************************************************************************)
(* When every block fits the predecessor it names, a block in a gap cache  *)
(* really misses something: no append, by whichever of the three queues it *)
(* came, leaves a block waiting for what is there (Node::QueueGapCaches).  *)
(* The hypothesis cannot go: a signed block whose predecessor is stored at *)
(* a height that is not the one before is put aside, too.                  *)
(***************************************************************************)
THEOREM WaitingBlocksMiss ==
  ASSUME \A b \in Blocks : Fits(b)
  PROVE  Spec => []GapsMissing
<1>1. Base /\ GapsInv => GapsMissing
  BY DEF Base, QueueInv, GapEntries, GapsInv, Missing, GapsMissing
<1>2. QED
  BY <1>1, BaseInductive, GapsInductive, PTL

-----------------------------------------------------------------------------
(* Forks.                                                                  *)

\* A set of naturals with a bound has a largest element.
LEMMA LargestNatural ==
  ASSUME NEW n \in Nat, NEW S \in SUBSET (0..n), S # {}
  PROVE  Max(S) \in S /\ \A y \in S : y <= Max(S)
<1> DEFINE T == {n - x : x \in S}
           R == OpToRel(<, Nat)
<1>1. T \subseteq Nat /\ T # {}
  <2>1. \A x \in S : x \in 0..n /\ n - x \in Nat
    OBVIOUS
  <2>2. QED
    BY <2>1
<1> HIDE DEF T
<1>2. PICK m \in T : \A y \in T : <<y, m>> \notin R
  <2>1. IsWellFoundedOn(R, Nat)
    BY NatLessThanWellFounded
  <2> HIDE DEF R
  <2>2. QED
    BY <1>1, <2>1, WFMin
<1>3. ASSUME NEW y \in T
      PROVE  m <= y
  <2>1. y \in Nat /\ m \in Nat
    BY <1>1, <1>2
  <2>2. y < m => <<y, m>> \in R
    BY <2>1 DEF OpToRel
  <2> HIDE DEF R
  <2>3. ~(y < m)
    BY <1>2, <2>2
  <2>4. QED
    BY <2>1, <2>3
<1>4. PICK x \in S : m = n - x
  BY <1>2 DEF T
<1>5. ASSUME NEW y \in S
      PROVE  x >= y
  <2>1. n - x <= n - y
    BY <1>3, <1>4 DEF T
  <2>2. x \in 0..n /\ y \in 0..n
    OBVIOUS
  <2>3. QED
    BY <2>1, <2>2
<1>6. Max(S) \in S /\ \A y \in S : Max(S) >= y
  BY <1>5 DEF Max
<1>7. QED
  BY <1>6

\* An account some running operation touched: its count is taken again when
\* the operation ends.
Touched == UNION {accounts[o] : o \in DOMAIN accounts}

ForkEntries == [account : Accounts, height : Nat, first : Blocks, second : Blocks]

Exact(a) ==
  /\ ledger.info[a] # NoInfo => forkCount[a] = Cardinality(ForksOf(a))
  /\ \A f \in ForksOf(a) :
       ledger.info[a] # NoInfo /\ f.height <= ledger.info[a].headHeight

\* One fork for a height of an account, and ForksExact.
ForksInv ==
  /\ IsFiniteSet(forks) /\ forks \subseteq ForkEntries
  /\ forkCount \in [Accounts -> Nat]
  /\ \A f, g \in forks : f.account = g.account /\ f.height = g.height => f = g
  /\ \A a \in Accounts \ Touched : Exact(a)
  /\ crashes = 0

\* What a transaction does to the infos.
LEMMA InfoEffect ==
  ASSUME NEW L, TablesInv(L), NEW b \in Blocks, NEW a \in Accounts, NEW t
  PROVE  /\ a # Block[b].account =>
              /\ AppendBlock(L, b).info[a] = L.info[a]
              /\ RollbackBlock(L, b).info[a] = L.info[a]
              /\ ConfirmBlock(L, b).info[a] = L.info[a]
         /\ AppendCode(L, b, t) = "SUCCESS" /\ a = Block[b].account =>
              /\ AppendBlock(L, b).info[a] # NoInfo
              /\ L.info[a] # NoInfo =>
                   AppendBlock(L, b).info[a].headHeight = L.info[a].headHeight + 1
<1> DEFINE own == Block[b].account
<1>1. IsLedger(L) /\ ChainTables(L) /\ L.info \in [Accounts -> AccountInfos \cup {NoInfo}]
  BY DEF TablesInv, ChainInv, ChainTables
<1>2. own \in Accounts /\ Block[b].type \in Types /\ Block[b].height \in Nat
  BY BlocksAssumption DEF BlockFields
<1> DEFINE appended == IF L.info[own] = NoInfo THEN NewInfo(b)
                       ELSE [L.info[own] EXCEPT !.head = b, !.headHeight = Block[b].height]
<1>3. AppendBlock(L, b).info = [L.info EXCEPT ![own] = appended]
  <2>1. AppendBlock(L, b).info = UpdateAccountInfo(L, b).info
    BY <1>1, AppendEffect
  <2>2. UpdateAccountInfo(L, b) = [L EXCEPT !.info[own] = appended]
    BY <1>1, <1>2 DEF UpdateAccountInfo
  <2> HIDE DEF appended
  <2>3. QED
    BY <1>1, <2>1, <2>2 DEF IsLedger
<1>4. a # own => RollbackBlock(L, b).info[a] = L.info[a]
  <2>1. RollbackBlock(L, b).info = RetractAccountInfo(L, b).info
    BY <1>1, RollbackEffect
  <2> DEFINE x == IF Block[b].height = 0 THEN NoInfo
         ELSE [type |-> L.info[own].type, head |-> Block[b].previous,
               headHeight |-> Block[b].height - 1,
               confirmed |-> IF L.info[own].confirmed > Block[b].height - 1
                             THEN INVALID_HEIGHT ELSE L.info[own].confirmed]
  <2>2. RetractAccountInfo(L, b) = [L EXCEPT !.info[own] = x]
    BY DEF RetractAccountInfo
  <2> HIDE DEF x
  <2>3. QED
    BY <1>1, <2>1, <2>2 DEF IsLedger
<1>5. a # own => ConfirmBlock(L, b).info[a] = L.info[a]
  BY <1>1 DEF ConfirmBlock, IsLedger
<1>6. appended # NoInfo
  <2>1. CASE L.info[own] = NoInfo
    <3>1. NewInfo(b) \in AccountInfos
      BY <1>2 DEF NewInfo, AccountInfos, INVALID_HEIGHT
    <3>2. QED
      BY <2>1, <3>1, NoInfoAssumption
  <2>2. CASE L.info[own] # NoInfo
    <3>1. L.info[own] \in AccountInfos
      BY <1>1, <1>2, <2>2
    <3>2. [L.info[own] EXCEPT !.head = b, !.headHeight = Block[b].height] \in AccountInfos
      BY <1>2, <3>1 DEF AccountInfos
    <3>3. QED
      BY <2>2, <3>2, NoInfoAssumption
  <2>3. QED
    BY <2>1, <2>2
<1>7. AppendCode(L, b, t) = "SUCCESS" /\ L.info[own] # NoInfo =>
        appended.headHeight = L.info[own].headHeight + 1
  <2>1. AppendCode(L, b, t) = "SUCCESS" /\ L.info[own] # NoInfo =>
          Block[b].height = L.info[own].headHeight + 1
    BY <1>1, AppendChecked
  <2>2. L.info[own] # NoInfo => L.info[own] \in AccountInfos
    BY <1>1, <1>2
  <2>3. QED
    BY <2>1, <2>2 DEF AccountInfos
<1> HIDE DEF appended
<1>8. QED
  BY <1>1, <1>2, <1>3, <1>4, <1>5, <1>6, <1>7

(***************************************************************************)
(* A step that records no fork: it leaves the infos alone, or appends a    *)
(* block to any account (a new one starts with a count of 0), or changes   *)
(* an account that a running operation has touched.                        *)
(***************************************************************************)
LEMMA ForksFrame ==
  ASSUME Base, ForksInv, UNCHANGED forks, crashes' = 0, Touched \subseteq Touched',
         \/ forkCount' = forkCount /\ ledger'.info = ledger.info
         \/ \E b \in Blocks : /\ AppendCode(ledger, b, clock) = "SUCCESS"
                              /\ ledger' = AppendBlock(ledger, b)
                              /\ forkCount' = AppendForkCount(b)
         \/ \E b \in Blocks : /\ Block[b].account \in Touched'
                              /\ ledger' = RollbackBlock(ledger, b)
                                   \/ ledger' = ConfirmBlock(ledger, b)
                              /\ forkCount' = forkCount
  PROVE  ForksInv'
<1>1. TablesInv(ledger) /\ ledger.info \in [Accounts -> AccountInfos \cup {NoInfo}]
  BY DEF Base, TablesInv, ChainInv, ChainTables
<1>2. \A a : ForksOf(a)' = ForksOf(a)
  BY DEF ForksOf
<1>3. SUFFICES /\ forkCount' \in [Accounts -> Nat]
               /\ \A a \in Accounts \ Touched' : Exact(a)'
  BY DEF ForksInv
<1>4. CASE forkCount' = forkCount /\ ledger'.info = ledger.info
  BY <1>2, <1>4 DEF ForksInv, Exact
<1>5. ASSUME NEW b \in Blocks, AppendCode(ledger, b, clock) = "SUCCESS",
             ledger' = AppendBlock(ledger, b), forkCount' = AppendForkCount(b)
      PROVE  /\ forkCount' \in [Accounts -> Nat]
             /\ \A a \in Accounts \ Touched' : Exact(a)'
  <2>1. forkCount' \in [Accounts -> Nat]
    BY <1>5 DEF ForksInv, AppendForkCount
  <2>2. ASSUME NEW a \in Accounts \ Touched'
        PROVE  Exact(a)'
    <3>1. Exact(a)
      BY DEF ForksInv
    <3>2. CASE a # Block[b].account
      <4>1. ledger'.info[a] = ledger.info[a]
        BY <1>1, <1>5, <3>2, InfoEffect
      <4>2. forkCount'[a] = forkCount[a]
        BY <1>5, <3>2 DEF ForksInv, AppendForkCount
      <4>3. QED
        BY <1>2, <3>1, <4>1, <4>2 DEF Exact
    <3>3. CASE a = Block[b].account /\ ledger.info[a] = NoInfo
      <4>1. ForksOf(a) = {}
        BY <3>1, <3>3 DEF Exact
      <4>2. forkCount'[a] = 0
        BY <1>5, <3>3 DEF ForksInv, AppendForkCount
      <4>3. QED
        BY <1>2, <4>1, <4>2, FS_EmptySet DEF Exact
    <3>4. CASE a = Block[b].account /\ ledger.info[a] # NoInfo
      <4>1. /\ ledger'.info[a] # NoInfo
            /\ ledger'.info[a].headHeight = ledger.info[a].headHeight + 1
        BY <1>1, <1>5, <3>4, InfoEffect
      <4>2. forkCount'[a] = forkCount[a]
        BY <1>5, <3>4 DEF AppendForkCount
      <4>3. ledger.info[a].headHeight \in Nat
        BY <1>1, <3>4 DEF AccountInfos
      <4>4. \A f \in ForksOf(a) : f.height \in Nat
        BY DEF ForksInv, ForkEntries, ForksOf
      <4>5. \A f \in ForksOf(a) : f.height <= ledger'.info[a].headHeight
        BY <3>1, <3>4, <4>1, <4>3, <4>4 DEF Exact
      <4>6. QED
        BY <1>2, <3>1, <3>4, <4>1, <4>2, <4>5 DEF Exact
    <3>5. QED
      BY <3>2, <3>3, <3>4
  <2>3. QED
    BY <2>1, <2>2
<1>6. ASSUME NEW b \in Blocks, Block[b].account \in Touched',
             ledger' = RollbackBlock(ledger, b) \/ ledger' = ConfirmBlock(ledger, b),
             forkCount' = forkCount
      PROVE  \A a \in Accounts \ Touched' : Exact(a)'
  <2>1. ASSUME NEW a \in Accounts \ Touched'
        PROVE  ledger'.info[a] = ledger.info[a]
    BY <1>1, <1>6, InfoEffect
  <2>2. QED
    BY <1>2, <1>6, <2>1 DEF ForksInv, Exact
<1>7. QED
  BY <1>4, <1>5, <1>6 DEF ForksInv

\* Recording a fork: the count follows, also when the highest fork gives way.
LEMMA ForkRecorded ==
  ASSUME Base, ForksInv, NEW first \in Blocks, NEW second \in Blocks,
         ProcessBlockFork(first, second), UNCHANGED <<ledger, accounts, crashes>>
  PROVE  ForksInv'
<1> DEFINE a == Block[first].account
           h == Block[first].height
           info == ledger.info[a]
           fork == [account |-> a, height |-> h, first |-> first, second |-> second]
           heights == {f.height : f \in ForksOf(a)}
           highest == Max(heights \cup {h})
<1>1. a \in Accounts /\ h \in Nat
  BY BlocksAssumption DEF BlockFields
<1>2. fork \in ForkEntries /\ fork.account = a /\ fork.height = h
  BY <1>1 DEF ForkEntries
<1>3. Touched' = Touched
  BY DEF Touched
<1>4. /\ IsFiniteSet(forks) /\ forks \subseteq ForkEntries /\ crashes' = 0
      /\ forkCount \in [Accounts -> Nat]
      /\ \A f, g \in forks : f.account = g.account /\ f.height = g.height => f = g
      /\ \A x \in Accounts \ Touched : Exact(x)
  BY DEF ForksInv
<1> DEFINE S == ForksOf(a)
<1>5. IsFiniteSet(S) /\ S \subseteq forks
  BY <1>4, FS_Subset DEF ForksOf
<1>6. CASE UNCHANGED <<forks, forkCount>>
  BY <1>3, <1>4, <1>6 DEF ForksInv, Exact, ForksOf
<1>7. ASSUME ~ \/ info = NoInfo
               \/ h > info.headHeight
               \/ \E f \in S : f.height = h,
             forks' = forks \cup {fork},
             forkCount' = [forkCount EXCEPT ![a] = @ + 1]
      PROVE  ForksInv'
  <2> HIDE DEF fork
  <2>1. IsFiniteSet(forks') /\ forks' \subseteq ForkEntries
    BY <1>2, <1>4, <1>7, FS_AddElement
  <2>2. forkCount' \in [Accounts -> Nat]
    BY <1>1, <1>4, <1>7
  <2>3. \A f, g \in forks' : f.account = g.account /\ f.height = g.height => f = g
    BY <1>2, <1>4, <1>7 DEF ForksOf
  <2>4. ASSUME NEW x \in Accounts \ Touched, x # a
        PROVE  Exact(x)'
    <3>1. ForksOf(x)' = ForksOf(x)
      BY <1>2, <1>7, <2>4 DEF ForksOf
    <3>2. forkCount'[x] = forkCount[x]
      BY <1>4, <1>7, <2>4
    <3>3. QED
      BY <1>4, <2>4, <3>1, <3>2 DEF Exact
  <2>5. ASSUME a \notin Touched
        PROVE  Exact(a)'
    <3>1. Exact(a)
      BY <1>1, <1>4, <2>5
    <3>2. S' = S \cup {fork} /\ fork \notin S
      BY <1>2, <1>7 DEF ForksOf
    <3>3. Cardinality(S') = Cardinality(S) + 1
      <4> HIDE DEF S
      <4>1. QED
        BY <1>5, <3>2, FS_AddElement
    <3>4. forkCount'[a] = forkCount[a] + 1
      BY <1>1, <1>4, <1>7
    <3>5. h <= info.headHeight
      <4>1. info.headHeight \in Nat
        BY <1>1, <1>7 DEF Base, TablesInv, ChainInv, ChainTables, AccountInfos
      <4>2. QED
        BY <1>1, <1>7, <4>1
    <3>6. QED
      BY <1>2, <1>7, <3>1, <3>2, <3>3, <3>4, <3>5 DEF Exact
  <2>6. QED
    BY <1>3, <1>4, <2>1, <2>2, <2>3, <2>4, <2>5 DEF ForksInv
<1>8. ASSUME ~ \/ info = NoInfo
               \/ h > info.headHeight
               \/ \E f \in S : f.height = h,
             highest # h,
             forks' = {f \in forks : f.account # a \/ f.height # highest} \cup {fork},
             forkCount' = forkCount
      PROVE  ForksInv'
  <2> HIDE DEF fork, highest
  <2> DEFINE rest == {f \in forks : f.account # a \/ f.height # highest}
  <2>1. IsFiniteSet(forks') /\ forks' \subseteq ForkEntries
    <3>1. IsFiniteSet(rest) /\ rest \subseteq ForkEntries
      BY <1>4, FS_Subset
    <3> HIDE DEF rest
    <3>2. QED
      BY <1>2, <1>8, <3>1, FS_AddElement DEF rest
  <2>2. \A f, g \in forks' : f.account = g.account /\ f.height = g.height => f = g
    BY <1>2, <1>4, <1>8 DEF ForksOf
  <2>3. ASSUME NEW x \in Accounts \ Touched, x # a
        PROVE  Exact(x)'
    <3>1. ForksOf(x)' = ForksOf(x)
      BY <1>2, <1>8, <2>3 DEF ForksOf
    <3>2. QED
      BY <1>4, <1>8, <2>3, <3>1 DEF Exact
  <2>4. ASSUME a \notin Touched
        PROVE  Exact(a)'
    <3>1. Exact(a)
      BY <1>1, <1>4, <2>4
    <3>2. info.headHeight \in Nat
      BY <1>1, <1>8 DEF Base, TablesInv, ChainInv, ChainTables, AccountInfos
    <3>3. h \in 0..info.headHeight
      BY <1>1, <1>8, <3>2
    <3>4. \A f \in S : f.height \in Nat
      BY <1>4, <1>5 DEF ForkEntries
    <3>5. \A f \in S : f.height \in 0..info.headHeight
      BY <3>1, <3>2, <3>4 DEF Exact
    <3>6. heights \cup {h} \subseteq 0..info.headHeight
      BY <3>3, <3>5
    <3>7. highest \in heights \cup {h}
      <4> DEFINE T == heights \cup {h}
      <4>1. T \in SUBSET (0..info.headHeight) /\ T # {}
        BY <3>6
      <4> HIDE DEF T
      <4>2. Max(T) \in T
        BY <3>2, <4>1, LargestNatural
      <4>3. QED
        BY <4>2 DEF highest, T
    <3>8. PICK old \in S : old.height = highest
      BY <1>8, <3>7
    <3>9. old \in forks /\ old.account = a
      BY <3>8 DEF ForksOf
    <3>10. \A f \in S : f.height = highest => f = old
      BY <1>4, <3>8, <3>9 DEF ForksOf
    <3>11. S' = (S \ {old}) \cup {fork}
      BY <1>2, <1>8, <3>8, <3>9, <3>10 DEF ForksOf
    <3>12. fork \notin S
      BY <1>2, <1>8
    <3>13. Cardinality(S') = Cardinality(S)
      <4> HIDE DEF S
      <4>1. IsFiniteSet(S \ {old}) /\ Cardinality(S \ {old}) = Cardinality(S) - 1
        BY <1>5, <3>8, FS_RemoveElement
      <4>2. Cardinality((S \ {old}) \cup {fork}) = Cardinality(S \ {old}) + 1
        BY <3>12, <4>1, FS_AddElement
      <4>3. Cardinality(S) \in Nat
        BY <1>5, FS_CardinalityType
      <4>4. QED
        BY <3>11, <4>1, <4>2, <4>3
    <3>14. \A f \in S' : f.height <= info.headHeight
      BY <1>1, <1>2, <3>2, <3>3, <3>5, <3>11
    <3>15. QED
      BY <1>8, <3>1, <3>13, <3>14 DEF Exact
  <2>5. QED
    BY <1>3, <1>4, <1>8, <2>1, <2>2, <2>3, <2>4 DEF ForksInv
<1>9. QED
  BY <1>6, <1>7, <1>8 DEF ProcessBlockFork

\* The end of an operation: forks above the head go, and the rest is counted.
LEMMA ForksUpdated ==
  ASSUME Base, ForksInv, FinishOperation
  PROVE  ForksInv'
<1>1. PICK o \in Running :
        /\ accounts' = [p \in DOMAIN accounts \ {o} |-> accounts[p]]
        /\ UpdateForks(accounts[o])
  BY DEF FinishOperation
<1>2. UNCHANGED <<ledger, crashes>>
  BY DEF FinishOperation
<1> DEFINE A == accounts[o]
           stale == {f \in forks : /\ f.account \in A
                                   /\ \/ ledger.info[f.account] = NoInfo
                                      \/ f.height > ledger.info[f.account].headHeight}
<1>3. /\ forks' = forks \ stale
      /\ forkCount' = [a \in Accounts |->
                         IF a \in A THEN Cardinality({f \in forks \ stale : f.account = a})
                         ELSE forkCount[a]]
  BY <1>1 DEF UpdateForks
<1>4. IsFiniteSet(forks') /\ forks' \subseteq forks /\ forks \subseteq ForkEntries
  BY <1>3, FS_Subset DEF ForksInv
<1>5. \A a : IsFiniteSet(ForksOf(a)') /\ ForksOf(a)' = {f \in forks \ stale : f.account = a}
  <2>1. ASSUME NEW a
        PROVE  ForksOf(a)' \subseteq forks'
    BY DEF ForksOf
  <2>2. \A a : IsFiniteSet(ForksOf(a)')
    BY <1>4, <2>1, FS_Subset
  <2>3. QED
    BY <1>3, <2>2 DEF ForksOf
<1>6. forkCount' \in [Accounts -> Nat]
  <2>1. \A a \in Accounts : Cardinality({f \in forks \ stale : f.account = a}) \in Nat
    BY <1>5, FS_CardinalityType
  <2>2. QED
    BY <1>3, <2>1 DEF ForksInv
<1>7. ASSUME NEW a \in Accounts \ Touched'
      PROVE  Exact(a)'
  <2>1. CASE a \in A
    <3>1. forkCount'[a] = Cardinality(ForksOf(a)')
      BY <1>3, <1>5, <2>1
    <3>2. ASSUME NEW f \in ForksOf(a)'
          PROVE  ledger.info[a] # NoInfo /\ f.height <= ledger.info[a].headHeight
      <4>1. f \in forks /\ f \notin stale /\ f.account = a /\ f.height \in Nat
        BY <1>4, <1>5 DEF ForkEntries
      <4>2. ledger.info[a] # NoInfo /\ ~(f.height > ledger.info[a].headHeight)
        BY <2>1, <4>1
      <4>3. ledger.info[a].headHeight \in Nat
        BY <4>2 DEF Base, TablesInv, ChainInv, ChainTables, AccountInfos
      <4>4. QED
        BY <4>1, <4>2, <4>3
    <3>3. QED
      BY <1>2, <3>1, <3>2 DEF Exact
  <2>2. CASE a \notin A
    <3>1. a \notin Touched
      BY <1>1, <2>2 DEF Touched
    <3>2. ForksOf(a)' = ForksOf(a)
      BY <1>3, <2>2 DEF ForksOf
    <3>3. forkCount'[a] = forkCount[a]
      BY <1>3, <2>2
    <3>4. QED
      BY <1>2, <3>1, <3>2, <3>3 DEF ForksInv, Exact
  <2>3. QED
    BY <2>1, <2>2
<1>8. QED
  BY <1>2, <1>4, <1>6, <1>7 DEF ForksInv

\* Every other step leaves the fork table alone.
LEMMA NextForks ==
  ASSUME MaxCrashes = 0, Base, ForksInv, [Next]_vars
  PROVE  ForksInv'
<1>1. crashes = 0
  BY DEF ForksInv
<1>2. CASE TakeBlock
  <2>1. Head(blocks) \in Blocks
    BY <1>2 DEF TakeBlock, Base, QueueInv
  <2>2. Touched' = Touched
    BY <1>2 DEF TakeBlock, Touched
  <2>3. QED
    BY <1>1, <1>2, <2>1, <2>2, ForksFrame DEF TakeBlock, ProcessBlock
<1>3. CASE TryForkBlock
  <2>1. thread[thread.at] \in Blocks
    BY <1>3 DEF TryForkBlock, Base, QueueInv, Threads, Idle
  <2>2. Touched' = Touched
    BY <1>3 DEF TryForkBlock, Touched
  <2>3. QED
    BY <1>1, <1>3, <2>1, <2>2, ForksFrame DEF TryForkBlock, ProcessBlock
<1>4. CASE TakeFork
  <2> DEFINE f == Head(forkQueue)
  <2>1. f.first \in Blocks /\ f.second \in Blocks
    <3>1. f \in Conflicts
      BY <1>4 DEF TakeFork, Base, QueueInv
    <3>2. QED
      BY <3>1 DEF Conflicts
  <2>2. CASE ProcessBlockFork(f.first, f.second)
    BY <1>4, <2>1, <2>2, ForkRecorded DEF TakeFork
  <2>3. CASE UNCHANGED <<forks, forkCount>>
    <3>1. Touched' = Touched
      BY <1>4 DEF TakeFork, Touched
    <3>2. QED
      BY <1>1, <1>4, <2>3, <3>1, ForksFrame DEF TakeFork
  <2>4. QED
    BY <1>4, <2>2, <2>3 DEF TakeFork
<1>5. CASE RecordFork
  <2>1. thread.first \in Blocks /\ thread.second \in Blocks
    BY <1>5 DEF RecordFork, Base, QueueInv, Threads, Idle
  <2>2. QED
    BY <1>5, <2>1, ForkRecorded DEF RecordFork
<1>6. CASE DynamicStep
  <2>1. PICK o \in Running :
          /\ o \in DOMAIN stack
          /\ Top(o).block \in Blocks
          /\ Block[Top(o).block].account \in accounts[o]
          /\ Popped(o) \/ Pushed(o) \/ Suspended(o) \/ Ended(o)
          /\ DynamicLedger(o)
    BY <1>6, DynamicEffect DEF Base
  <2>2. DOMAIN accounts' = DOMAIN accounts /\ o \in DOMAIN accounts
    BY <2>1 DEF Popped, Pushed, Suspended, Ended, Base, StackInv
  <2>3. \A p \in DOMAIN accounts : accounts[p] \subseteq accounts'[p]
    BY <2>1, <2>2 DEF Popped, Pushed, Suspended, Ended
  <2>4. Touched \subseteq Touched'
    BY <2>2, <2>3 DEF Touched
  <2>5. Block[Top(o).block].account \in Touched'
    BY <2>1, <2>2, <2>4 DEF Touched
  <2>6. UNCHANGED <<forks, crashes>>
    BY <1>6 DEF DynamicStep
  <2>7. QED
    BY <1>1, <2>1, <2>4, <2>5, <2>6, ForksFrame DEF DynamicLedger
<1>7. CASE TakeForced
  <2>1. UNCHANGED <<ledger, forks, forkCount, crashes>>
    BY <1>7 DEF TakeForced
  <2>2. /\ DOMAIN accounts \subseteq DOMAIN accounts'
        /\ \A p \in DOMAIN accounts : accounts[p] \subseteq accounts'[p]
    <3>1. DOMAIN accounts = DOMAIN stack /\ operation \notin DOMAIN stack
      BY DEF Base, StackInv
    <3>2. QED
      BY <1>7, <3>1 DEF TakeForced
  <2>3. Touched \subseteq Touched'
    BY <2>2 DEF Touched
  <2>4. QED
    BY <1>1, <2>1, <2>3, ForksFrame, SMTT(40)
<1>8. CASE FinishOperation
  BY <1>8, ForksUpdated
<1>9. CASE Crash
  BY <1>1, <1>9 DEF Crash
<1>10. CASE \/ \E b \in Blocks : ReceiveBlock(b)
            \/ \E f \in ForkMessages : ReceiveBlockFork(f)
            \/ \E op \in {APPEND, CONFIRM}, b \in Blocks : ForceBlock(op, b)
            \/ Answer \/ AgeGapCaches
            \/ \E t \in Clocks : SetClock(t)
            \/ UNCHANGED vars
  <2>1. UNCHANGED <<ledger, forks, forkCount, accounts, crashes>>
    BY <1>10 DEF ReceiveBlock, ReceiveBlockFork, ForceBlock, Answer, QueryCallback,
      AgeGapCaches, SetClock, vars
  <2>2. Touched' = Touched
    BY <2>1 DEF Touched
  <2>3. QED
    BY <1>1, <2>1, <2>2, ForksFrame
<1>11. QED
  BY <1>2, <1>3, <1>4, <1>5, <1>6, <1>7, <1>8, <1>9, <1>10
  DEF Next, Processor, Environment

(***************************************************************************)
(* Unless the process is killed, the number of forks in an account's info  *)
(* is that of its entries in the fork table, and all of them are at        *)
(* heights of the chain, for every account no running operation touches    *)
(* (ProcessBlockFork_, UpdateForks_).  A crash between a rollback and the  *)
(* end of its operation leaves forks behind, hence the hypothesis.         *)
(***************************************************************************)
THEOREM ForkCountsExact ==
  ASSUME MaxCrashes = 0
  PROVE  Spec => []ForksExact
<1>1. Init => ForksInv
  <2> SUFFICES ASSUME Init PROVE ForksInv
    OBVIOUS
  <2>1. forks = {} /\ crashes = 0 /\ forkCount = [a \in Accounts |-> 0]
    BY DEF Init
  <2>2. \A a \in Accounts : ForksOf(a) = {}
    BY <2>1 DEF ForksOf
  <2>3. QED
    BY <2>1, <2>2, FS_EmptySet DEF ForksInv, Exact
<1>2. Base /\ ForksInv /\ [Next]_vars => ForksInv'
  BY NextForks
<1>3. ForksInv => ForksExact
  BY DEF ForksInv, ForksExact, Touched, Exact
<1>4. QED
  BY <1>1, <1>2, <1>3, BaseInductive, PTL DEF Spec

-----------------------------------------------------------------------------
(* What a forced operation rolls back.                                     *)


\* What is not canonical is tainted, and what builds on it; genesis is not.
LEMMA TaintBasics ==
  ASSUME NEW L
  PROVE  /\ Tainted(L) \subseteq L.stored
         /\ \A x \in L.stored : x \notin Canonical => x \in Tainted(L)
         /\ \A x \in L.stored : BuildsOn(L, x) \cap Tainted(L) # {} => x \in Tainted(L)
         /\ Genesis \notin Tainted(L)
<1>1. Tainted(L) \subseteq L.stored
  BY DEF Tainted
<1>2. ASSUME NEW x \in L.stored, x \notin Canonical
      PROVE  x \in Tainted(L)
  BY <1>2 DEF Tainted, Spreads
<1>3. ASSUME NEW x \in L.stored, NEW y \in BuildsOn(L, x), y \in Tainted(L)
      PROVE  x \in Tainted(L)
  <2>1. SUFFICES ASSUME NEW T \in SUBSET L.stored, Spreads(L, T)
                 PROVE  x \in T
    BY DEF Tainted
  <2>2. y \in T
    BY <1>3, <2>1 DEF Tainted
  <2>3. QED
    BY <2>1, <2>2 DEF Spreads
<1>4. Genesis \notin Tainted(L)
  <2> DEFINE T == L.stored \ {Genesis}
  <2>1. Spreads(L, T)
    BY CanonicalAssumption DEF Spreads, BuildsOn
  <2>2. QED
    BY <2>1 DEF Tainted
<1>5. QED
  BY <1>1, <1>2, <1>3, <1>4

\* The first block of a stored chain names no predecessor.
Rooted(L) == \A x \in L.stored : Block[x].height = 0 => Block[x].previous = NoBlock

\* The successor of a block is the next block of its chain.
LEMMA SuccessorFollows ==
  ASSUME NEW L, ChainInv(L), NEW p \in L.stored, L.successor[p] # NoBlock
  PROVE  LET q == L.successor[p]
         IN  /\ q \in L.stored /\ Block[q].previous = p
             /\ Block[q].height # 0 /\ Block[q].account = Block[p].account
             /\ Block[q].type = Block[p].type
<1> DEFINE a == Block[p].account
           info == L.info[a]
           chain == ChainOf(L, a)
<1>1. /\ p \in Blocks /\ a \in Accounts /\ info # NoInfo /\ info.head \in L.stored
      /\ Block[p].height \in 0..info.headHeight /\ info.headHeight \in Nat
      /\ Block[p].height = info.headHeight => p = info.head
  BY SuccessorStored
<1>2. Chained(L, a) /\ p \in chain
  BY <1>1 DEF ChainInv, ChainOf
<1>3. L.successor[info.head] = NoBlock
  BY <1>1, <1>2 DEF Chained
<1>4. Block[p].height + 1 \in 0..info.headHeight
  BY <1>1, <1>3
<1>5. PICK q \in chain : Block[q].height = Block[p].height + 1
  <2>1. {Block[b].height : b \in chain} = 0..info.headHeight
    BY <1>1, <1>2 DEF Chained
  <2>2. QED
    BY <1>4, <2>1, SMTT(40)
<1>6. Block[q].height # 0
  BY <1>1, <1>5
<1>7. /\ Block[q].previous \in chain
      /\ Block[Block[q].previous].height = Block[q].height - 1
      /\ L.successor[Block[q].previous] = q
  BY <1>1, <1>2, <1>5, <1>6 DEF Chained
<1>8. \A x, y \in chain : ~ForkWith(x, y)
  BY <1>1, <1>2 DEF Chained
<1>9. Block[q].previous = p
  BY <1>1, <1>2, <1>5, <1>7, <1>8 DEF ForkWith, ChainOf
<1>10. Block[q].type = info.type /\ Block[p].type = info.type
  BY <1>1, <1>2, <1>5 DEF Chained
<1>11. QED
  BY <1>5, <1>6, <1>7, <1>9, <1>10 DEF ChainOf

\* The taint of a block reaches the head of its chain.
LEMMA TaintReachesHead ==
  ASSUME NEW L, ChainInv(L), NEW t \in Tainted(L)
  PROVE  L.info[Block[t].account].head \in Tainted(L)
<1> DEFINE a == Block[t].account
           info == L.info[a]
           chain == ChainOf(L, a)
           H == {Block[x].height : x \in {y \in chain : /\ Block[y].height >= Block[t].height
                                                        /\ y \notin Tainted(L)}}
           R == OpToRel(<, Nat)
<1>1. t \in L.stored
  BY TaintBasics
<1>2. /\ t \in Blocks /\ a \in Accounts /\ info # NoInfo /\ info.head \in L.stored
      /\ Block[t].height \in 0..info.headHeight /\ info.headHeight \in Nat
  BY <1>1, SuccessorStored
<1>3. Chained(L, a) /\ t \in chain
  BY <1>1, <1>2, SMTT(40) DEF ChainInv, ChainOf
<1>4. /\ info.head \in chain /\ Block[info.head].height = info.headHeight
      /\ {Block[b].height : b \in chain} = 0..info.headHeight
      /\ \A x, y \in chain : ~ForkWith(x, y)
      /\ \A x \in chain : Block[x].height # 0 =>
           /\ Block[x].previous \in chain
           /\ Block[Block[x].previous].height = Block[x].height - 1
  BY <1>2, <1>3 DEF Chained
<1>5. \A x \in chain : Block[x].height \in Nat
  BY <1>2, <1>4
<1> HIDE DEF info, chain
<1>6. SUFFICES ASSUME info.head \notin Tainted(L)
               PROVE  FALSE
  BY DEF info
<1>7. H \subseteq Nat /\ H # {}
  <2>1. Block[info.head].height \in H
    BY <1>2, <1>4, <1>6
  <2>2. QED
    BY <1>5, <2>1
<1>8. PICK h \in H : \A k \in H : ~(k < h)
  <2>1. IsWellFoundedOn(R, Nat)
    BY NatLessThanWellFounded
  <2> HIDE DEF H
  <2>2. PICK h \in H : \A k \in H : ~(<<k, h>> \in R)
    BY <1>7, <2>1, WFMin
  <2>3. QED
    BY <1>7, <2>2 DEF OpToRel
<1>9. PICK x \in chain : /\ Block[x].height = h /\ h >= Block[t].height
                         /\ x \notin Tainted(L)
  BY <1>8
<1>10. x # t /\ Block[x].account = a
  BY <1>9 DEF chain, ChainOf
<1>11. Block[x].height # Block[t].height
  BY <1>3, <1>4, <1>10 DEF ForkWith
<1>12. Block[x].height > Block[t].height /\ Block[x].height # 0
  BY <1>2, <1>5, <1>9, <1>11
<1> DEFINE p == Block[x].previous
<1>13. p \in chain /\ Block[p].height = Block[x].height - 1
  BY <1>4, <1>9, <1>12
<1>14. p \in Tainted(L)
  <2>1. Block[p].height >= Block[t].height /\ Block[p].height < h
    BY <1>2, <1>5, <1>9, <1>12, <1>13
  <2>2. QED
    BY <1>8, <1>13, <2>1
<1>15. x # Genesis /\ x \in L.stored
  BY <1>9, <1>12, GenesisAssumption DEF chain, ChainOf
<1>16. p \in BuildsOn(L, x)
  BY <1>15 DEF BuildsOn
<1>17. QED
  BY <1>9, <1>14, <1>15, <1>16, TaintBasics

\* What stands in the way of the rollback of a tainted block is tainted.
LEMMA BlockerTainted ==
  ASSUME NEW L, TablesInv(L), NEW b \in Tainted(L)
  PROVE  Blocker(L, b) \in Tainted(L)
<1> DEFINE code == RollbackCode(L, b)
           prev == Block[b].previous
           info == L.info[Block[b].account]
<1>1. /\ b \in L.stored /\ b \in Blocks /\ ChainInv(L) /\ b # Genesis
      /\ info # NoInfo
  BY TaintBasics, SuccessorStored DEF TablesInv
<1>2. CASE code = "ROLLBACK_NON_HEAD"
  <2>1. Block[b].height # info.headHeight
    BY <1>2 DEF RollbackCode, CheckRollback, AndThen, Unless
  <2>2. L.successor[b] \in L.stored
    BY <1>1, <2>1, SuccessorStored
  <2>3. L.successor[b] # NoBlock
    BY <1>1, <2>2, BlocksAssumption DEF ChainInv, ChainTables
  <2> DEFINE q == L.successor[b]
  <2>4. Block[q].previous = b /\ Block[q].height # 0
    BY <1>1, <2>3, SuccessorFollows
  <2>5. b \in BuildsOn(L, q)
    BY <2>4, GenesisAssumption DEF BuildsOn
  <2>6. Blocker(L, b) = q
    BY <1>2 DEF Blocker
  <2>7. QED
    BY <2>2, <2>5, <2>6, TaintBasics
<1>3. CASE code = "ROLLBACK_RECEIVED"
  <2>1. Block[b].opcode = "SEND" /\ ReceivableGet(L, Block[b].link, b) = {}
    BY <1>3 DEF RollbackCode, CheckRollback, AndThen, Unless
  <2>2. Receivable(L, b)
    BY <1>1 DEF TablesInv
  <2>3. Entries(L.receivable, b) # {ReceivableInfo(Block[b].link, b, SentAmount(b))}
    BY <2>1 DEF Entries, ReceivableGet, ReceivableInfo
  <2>4. PICK t \in Blocks : /\ Takers(L, "RECEIVE", b) = {t}
                            /\ Block[t].account = Block[b].link
    BY <1>1, <2>1, <2>2, <2>3 DEF Receivable
  <2>5. t \in L.stored /\ t # Genesis /\ Block[t].opcode = "RECEIVE" /\ Block[t].link = b
    BY <2>4 DEF Takers
  <2>6. t \in Tainted(L)
    BY <2>5, TaintBasics DEF BuildsOn
  <2>7. Blocker(L, b) = L.info[Block[t].account].head
    BY <1>3, <2>4 DEF Blocker
  <2>8. QED
    BY <1>1, <2>6, <2>7, TaintReachesHead
<1>4. CASE code = "ROLLBACK_REWARDED"
  <2>1. /\ HasRepresentative(b) /\ Block[b].height # 0 /\ Reward(prev, b) # 0
        /\ RewardableGet(L, Block[prev].rep, prev) = {}
    BY <1>4 DEF RollbackCode, CheckRollback, AndThen, Unless
  <2>2. /\ prev \in L.stored /\ L.successor[prev] = b /\ Block[prev].type = Block[b].type
    <3>1. Block[b].account \in Accounts
      BY <1>1, SuccessorStored
    <3>2. Chained(L, Block[b].account) /\ b \in ChainOf(L, Block[b].account)
      BY <1>1, <3>1 DEF ChainInv, ChainOf
    <3>3. QED
      BY <1>1, <2>1, <3>2 DEF Chained, ChainOf
  <2>3. Earned(L, prev)
    BY <1>1, <2>1, <2>2, BlocksAssumption DEF Earned, HasRepresentative
  <2>4. Rewardable(L, prev)
    BY <1>1, <2>2 DEF TablesInv, ChainInv, ChainTables
  <2>5. Entries(L.rewardable, prev) # {RewardableInfo(prev, b, Reward(prev, b))}
    BY <2>1 DEF Entries, RewardableGet, RewardableInfo
  <2>6. PICK t \in Blocks : /\ Takers(L, "REWARD", prev) = {t}
                            /\ Block[t].account = Block[prev].rep
    BY <2>2, <2>3, <2>4, <2>5 DEF Rewardable
  <2>7. t \in L.stored /\ t # Genesis /\ Block[t].opcode = "REWARD" /\ Block[t].link = prev
    BY <2>6 DEF Takers
  <2>8. t \in Tainted(L)
    BY <2>2, <2>7, TaintBasics DEF BuildsOn
  <2>9. Blocker(L, b) = L.info[Block[t].account].head
    BY <1>4, <2>6 DEF Blocker
  <2>10. QED
    BY <1>1, <2>8, <2>9, TaintReachesHead
<1>5. CASE code \notin {"ROLLBACK_NON_HEAD", "ROLLBACK_RECEIVED", "ROLLBACK_REWARDED"}
  BY <1>5 DEF Blocker
<1>6. QED
  BY <1>2, <1>3, <1>4, <1>5

\* Nothing stored builds on a block that can be rolled back, and what the
\* others build on stays the same without it.
LEMMA NothingBuildsOn ==
  ASSUME NEW L, TablesInv(L), Rooted(L), NEW b \in Blocks,
         RollbackCode(L, b) = "SUCCESS", NEW c \in L.stored, c # b
  PROVE  /\ b \notin BuildsOn(L, c)
         /\ BuildsOn(RollbackBlock(L, b), c) = BuildsOn(L, c)
<1> DEFINE N == RollbackBlock(L, b)
           prev == Block[b].previous
<1>1. ChainInv(L) /\ ChainTables(L) /\ IsLedger(L) /\ L.stored \subseteq Blocks
  BY DEF TablesInv, ChainInv, ChainTables
<1>2. /\ b \in L.stored /\ L.info[Block[b].account] # NoInfo
      /\ L.info[Block[b].account].head = b
  BY <1>1, RollbackChecked
<1>3. L.successor[b] = NoBlock
  <2>1. Block[b].account \in Accounts
    BY BlocksAssumption DEF BlockFields
  <2>2. Chained(L, Block[b].account)
    BY <1>1, <2>1 DEF ChainInv
  <2>3. QED
    BY <1>2, <2>2 DEF Chained
<1>4. CASE c = Genesis
  BY <1>4 DEF BuildsOn
<1>5. CASE c # Genesis
  <2>1. Block[c].previous # b
    <3>1. SUFFICES ASSUME Block[c].previous = b
                   PROVE  FALSE
      OBVIOUS
    <3>2. Block[c].height # 0
      BY <3>1, BlocksAssumption DEF Rooted
    <3>3. Block[c].account \in Accounts /\ L.info[Block[c].account] # NoInfo
      BY <1>1, SuccessorStored
    <3>4. Chained(L, Block[c].account) /\ c \in ChainOf(L, Block[c].account)
      BY <1>1, <3>3 DEF ChainInv, ChainOf
    <3>5. L.successor[b] = c
      BY <3>1, <3>2, <3>3, <3>4 DEF Chained
    <3>6. QED
      BY <1>1, <1>3, <3>5, BlocksAssumption
  <2>2. Block[c].opcode = "RECEIVE" => Block[c].link # b
    <3>1. SUFFICES ASSUME Block[c].opcode = "RECEIVE", Block[c].link = b
                   PROVE  FALSE
      OBVIOUS
    <3>2. c \in Takers(L, "RECEIVE", b)
      BY <1>5, <3>1 DEF Takers
    <3>3. Receivable(L, b)
      BY DEF TablesInv
    <3>4. Block[b].opcode = "SEND" /\ Entries(L.receivable, b) = {}
      BY <3>2, <3>3 DEF Receivable
    <3>5. ReceivableGet(L, Block[b].link, b) # {}
      BY <3>4, RevertChecked
    <3>6. QED
      BY <3>4, <3>5 DEF Entries, ReceivableGet
  <2>3. Block[c].opcode = "REWARD" =>
          /\ Block[c].link \in Blocks /\ Block[c].link # b
          /\ L.successor[Block[c].link] # b
    <3>1. SUFFICES ASSUME Block[c].opcode = "REWARD"
                   PROVE  /\ Block[c].link \in Blocks /\ Block[c].link # b
                          /\ L.successor[Block[c].link] # b
      OBVIOUS
    <3> DEFINE p == Block[c].link
    <3>2. p \in Blocks
      BY <1>5, <3>1 DEF TablesInv, Sourced
    <3>3. c \in Takers(L, "REWARD", p)
      BY <1>5, <3>1 DEF Takers
    <3>4. Rewardable(L, p)
      BY <3>2 DEF TablesInv
    <3> HIDE DEF p
    <3>5. Earned(L, p) /\ Entries(L.rewardable, p) = {}
      BY <3>3, <3>4 DEF Rewardable
    <3>6. p # b
      BY <1>3, <3>5 DEF Earned
    <3>7. ASSUME L.successor[p] = b
          PROVE  FALSE
      <4>1. p \in L.stored /\ L.successor[p] # NoBlock /\ HasRepresentative(p)
            /\ Reward(p, b) # 0
        BY <3>5, <3>7 DEF Earned
      <4>2. prev = p /\ Block[b].height # 0 /\ Block[b].type = Block[p].type
        BY <1>1, <3>7, <4>1, SuccessorFollows
      <4>3. RewardableGet(L, Block[p].rep, p) = {}
        BY <3>5 DEF Entries, RewardableGet
      <4>4. HasRepresentative(b)
        BY <4>1, <4>2 DEF HasRepresentative
      <4>5. QED
        BY <4>1, <4>2, <4>3, <4>4, RevertChecked
    <3>8. QED
      BY <3>2, <3>6, <3>7 DEF p
  <2>4. b \notin BuildsOn(L, c)
    BY <1>5, <2>1, <2>2, <2>3 DEF BuildsOn
  <2>5. Block[c].opcode = "REWARD" =>
          N.successor[Block[c].link] = L.successor[Block[c].link]
    <3>1. SUFFICES ASSUME Block[c].opcode = "REWARD"
                   PROVE  N.successor[Block[c].link] = L.successor[Block[c].link]
      OBVIOUS
    <3>2. N.successor = DeleteBlockSuccessor(L, b).successor
      BY <1>1, RollbackEffect
    <3>3. Block[b].height # 0 => L.successor[prev] = b
      <4>1. Block[b].account \in Accounts
        BY BlocksAssumption DEF BlockFields
      <4>2. Chained(L, Block[b].account) /\ b \in ChainOf(L, Block[b].account)
        BY <1>1, <1>2, <4>1 DEF ChainInv, ChainOf
      <4>3. QED
        BY <1>2, <4>2 DEF Chained
    <3>4. ~(Block[b].height # 0 /\ Block[c].link = prev)
      BY <2>3, <3>1, <3>3
    <3>5. DeleteBlockSuccessor(L, b).successor
            = [x \in Blocks |-> IF x = b \/ (Block[b].height # 0 /\ x = prev)
                                THEN NoBlock ELSE L.successor[x]]
      BY <1>1 DEF DeleteBlockSuccessor, IsLedger
    <3>6. QED
      BY <2>3, <3>1, <3>2, <3>4, <3>5
  <2>6. QED
    BY <2>4, <2>5 DEF BuildsOn
<1>6. QED
  BY <1>4, <1>5

\* The rollback of a block leaves the others as tainted as they were.
LEMMA TaintStays ==
  ASSUME NEW L, TablesInv(L), Rooted(L), NEW b \in Blocks,
         RollbackCode(L, b) = "SUCCESS", NEW x \in Tainted(L), x # b
  PROVE  x \in Tainted(RollbackBlock(L, b))
<1> DEFINE N == RollbackBlock(L, b)
<1>1. IsLedger(L) /\ x \in L.stored
  BY TaintBasics DEF TablesInv, ChainInv, ChainTables
<1>2. N.stored = L.stored \ {b}
  BY <1>1, RollbackEffect
<1> HIDE DEF N
<1>3. SUFFICES ASSUME NEW T \in SUBSET N.stored, Spreads(N, T)
               PROVE  x \in T
  BY <1>1, <1>2 DEF Tainted, N
<1>4. b \in L.stored
  BY RollbackChecked DEF TablesInv, ChainInv
<1>5. Spreads(L, T \cup {b})
  <2>1. L.stored \ Canonical \subseteq T \cup {b}
    BY <1>2, <1>3 DEF Spreads
  <2>2. ASSUME NEW c \in L.stored, BuildsOn(L, c) \cap (T \cup {b}) # {}
        PROVE  c \in T \cup {b}
    <3>1. CASE c = b
      BY <3>1
    <3>2. CASE c # b
      <4>1. b \notin BuildsOn(L, c) /\ BuildsOn(N, c) = BuildsOn(L, c)
        BY <3>2, NothingBuildsOn DEF N
      <4>2. BuildsOn(N, c) \cap T # {} /\ c \in N.stored
        BY <1>2, <2>2, <3>2, <4>1
      <4>3. QED
        BY <1>3, <4>2 DEF Spreads
    <3>3. QED
      BY <3>1, <3>2
  <2>3. QED
    BY <2>1, <2>2 DEF Spreads
<1>6. T \cup {b} \in SUBSET L.stored
  BY <1>2, <1>4
<1>7. QED
  BY <1>5, <1>6 DEF Tainted

\* Every transaction leaves the chains rooted.
LEMMA LedgerStepRooted ==
  ASSUME LedgerStep, TablesInv(ledger), Rooted(ledger)
  PROVE  Rooted(ledger')
<1>1. ChainInv(ledger) /\ ChainTables(ledger) /\ IsLedger(ledger)
  BY DEF TablesInv, ChainInv, ChainTables
<1>2. ASSUME NEW b \in Blocks, NEW t \in Clocks, AppendCode(ledger, b, t) = "SUCCESS",
             ledger' = AppendBlock(ledger, b)
      PROVE  Rooted(ledger')
  <2>1. ledger'.stored = ledger.stored \cup {b}
    BY <1>1, <1>2, AppendEffect
  <2>2. Block[b].height = 0 => Block[b].previous = NoBlock
    <3>1. CASE ledger.info[Block[b].account] = NoInfo
      BY <1>1, <1>2, <3>1, AppendChecked
    <3>2. CASE ledger.info[Block[b].account] # NoInfo
      <4>1. Block[b].account \in Accounts
        BY BlocksAssumption DEF BlockFields
      <4>2. ledger.info[Block[b].account].headHeight \in Nat
        BY <1>1, <3>2, <4>1 DEF ChainTables, AccountInfos
      <4>3. Block[b].height = ledger.info[Block[b].account].headHeight + 1
        BY <1>1, <1>2, <3>2, AppendChecked
      <4>4. QED
        BY <4>2, <4>3
    <3>3. QED
      BY <3>1, <3>2
  <2>3. QED
    BY <2>1, <2>2 DEF Rooted
<1>3. ASSUME NEW b \in Blocks, ledger' = RollbackBlock(ledger, b)
      PROVE  Rooted(ledger')
  BY <1>1, <1>3, RollbackEffect DEF Rooted
<1>4. ASSUME NEW b \in Blocks, ConfirmCode(ledger, b) = "SUCCESS",
             ledger' = ConfirmBlock(ledger, b)
      PROVE  Rooted(ledger')
  BY <1>1, <1>4, ConfirmChainInv DEF Rooted
<1>5. ASSUME ledger' = InitMemoryTables(ledger)
      PROVE  Rooted(ledger')
  BY <1>1, <1>5, RestartChainInv DEF Rooted
<1>6. QED
  BY <1>2, <1>3, <1>4, <1>5 DEF LedgerStep


(***************************************************************************)
(* What a stack consists of: canonical blocks to be appended or confirmed, *)
(* and above them blocks to be rolled back, tainted as long as they are    *)
(* stored.  An operation that waits has nothing to be rolled back.         *)
(***************************************************************************)
CleanItem(it) ==
  it.operation \in {APPEND, CONFIRM} /\ (it.block \in Blocks => it.block \in Canonical)

TaintItem(it, L) ==
  it.operation = ROLLBACK /\ (it.block \in L.stored => it.block \in Tainted(L))

Clean(s) == \A i \in 1..Len(s) : CleanItem(s[i])

Layered(s, L) ==
  \E n \in 0..Len(s) : /\ \A i \in 1..n : CleanItem(s[i])
                       /\ \A i \in n + 1..Len(s) : TaintItem(s[i], L)

CanonInv ==
  /\ Rooted(ledger)
  /\ \A i \in DOMAIN forced : forced[i].block \in Canonical
  /\ \A q \in queries : q.hash \in Blocks => q.hash \in Canonical
  /\ \A o \in Running : Layered(stack[o], ledger)
  /\ \A o \in DOMAIN stack \ Running : Clean(stack[o])

\* How the layers of a stack change when an item goes or comes.
LEMMA Layers ==
  ASSUME NEW S, NEW s \in Seq(S), NEW L
  PROVE  /\ Clean(s) => Layered(s, L)
         /\ s # <<>> /\ Layered(s, L) => Layered(Front(s), L)
         /\ s # <<>> /\ Clean(s) => Clean(Front(s))
         /\ s # <<>> /\ Layered(s, L) /\ Last(s).operation # ROLLBACK => Clean(s)
         /\ s # <<>> /\ Layered(s, L) /\ Last(s).operation = ROLLBACK =>
              TaintItem(Last(s), L)
<1>1. Len(s) \in Nat
  OBVIOUS
<1>2. Clean(s) => Layered(s, L)
  BY <1>1 DEF Clean, Layered
<1>3. ASSUME s # <<>>
      PROVE  /\ Len(s) > 0 /\ Len(Front(s)) = Len(s) - 1
             /\ \A i \in 1..Len(s) - 1 : Front(s)[i] = s[i]
             /\ Last(s) = s[Len(s)]
  <2>1. Len(s) > 0
    BY <1>3, EmptySeq, LenProperties
  <2> DEFINE m == Len(s) - 1
             t == SubSeq(s, 1, m)
  <2>2. 1 \in Int /\ m \in Int /\ \A i \in 1..m : s[i] \in S
    BY <1>1, <2>1
  <2>3. Len(t) = m /\ \A i \in 1..m : t[i] = s[i]
    <3> HIDE DEF m
    <3>1. /\ Len(t) = IF 1 <= m THEN m - 1 + 1 ELSE 0
          /\ \A i \in 1..m - 1 + 1 : t[i] = s[1 + i - 1]
      BY <2>2, SubSeqProperties
    <3> HIDE DEF t
    <3>2. m >= 0
      BY <1>1, <2>1 DEF m
    <3>3. QED
      BY <2>2, <3>1, <3>2
  <2>4. QED
    BY <2>1, <2>3 DEF Front, Last
<1>4. ASSUME s # <<>>, Layered(s, L)
      PROVE  Layered(Front(s), L)
  <2>1. PICK n \in 0..Len(s) : /\ \A i \in 1..n : CleanItem(s[i])
                               /\ \A i \in n + 1..Len(s) : TaintItem(s[i], L)
    BY <1>4 DEF Layered
  <2> DEFINE t == Front(s)
             m == IF n = Len(s) THEN n - 1 ELSE n
  <2>2. m \in 0..Len(t) /\ Len(t) = Len(s) - 1 /\ \A i \in 1..Len(t) : t[i] = s[i]
    BY <1>1, <1>3, <1>4
  <2> HIDE DEF t
  <2>3. \A i \in 1..m : CleanItem(t[i])
    BY <1>1, <2>1, <2>2
  <2>4. \A i \in m + 1..Len(t) : TaintItem(t[i], L)
    BY <1>1, <2>1, <2>2
  <2> HIDE DEF m
  <2>5. Layered(t, L)
    BY <2>2, <2>3, <2>4 DEF Layered
  <2>6. QED
    BY <2>5 DEF t
<1>5. ASSUME s # <<>>, Clean(s)
      PROVE  Clean(Front(s))
  BY <1>1, <1>3, <1>5 DEF Clean
<1>6. ASSUME s # <<>>, Layered(s, L)
      PROVE  Clean(s) \/ TaintItem(Last(s), L)
  <2>1. PICK n \in 0..Len(s) : /\ \A i \in 1..n : CleanItem(s[i])
                               /\ \A i \in n + 1..Len(s) : TaintItem(s[i], L)
    BY <1>6 DEF Layered
  <2>2. CASE n = Len(s)
    BY <2>1, <2>2 DEF Clean
  <2>3. CASE n # Len(s)
    BY <1>1, <1>3, <1>6, <2>1, <2>3
  <2>4. QED
    BY <2>2, <2>3
<1>7. ASSUME s # <<>>, Clean(s)
      PROVE  CleanItem(Last(s))
  BY <1>1, <1>3, <1>7 DEF Clean
<1>8. QED
  BY <1>2, <1>4, <1>5, <1>6, <1>7 DEF TaintItem, CleanItem, ROLLBACK, APPEND, CONFIRM

\* Another item on top.
LEMMA OnTop ==
  ASSUME NEW S, NEW s \in Seq(S), NEW L, NEW it
  PROVE  /\ Clean(s) /\ CleanItem(it) => Clean(s \o <<it>>)
         /\ Layered(s, L) /\ TaintItem(it, L) => Layered(s \o <<it>>, L)
<1> DEFINE t == s \o <<it>>
<1>1. /\ Len(s) \in Nat /\ Len(t) = Len(s) + 1
      /\ \A i \in 1..Len(s) : t[i] = s[i]
      /\ t[Len(s) + 1] = it
  <2>1. s \in Seq(S \cup {it}) /\ <<it>> \in Seq(S \cup {it})
    <3>1. s \in Seq(S \cup {it})
      BY SeqMonotonic
    <3>2. QED
      BY <3>1
  <2>2. QED
    BY <2>1, ConcatProperties
<1> HIDE DEF t
<1>2. ASSUME Clean(s), CleanItem(it)
      PROVE  Clean(t)
  BY <1>1, <1>2 DEF Clean
<1>3. ASSUME Layered(s, L), TaintItem(it, L)
      PROVE  Layered(t, L)
  <2>1. PICK n \in 0..Len(s) : /\ \A i \in 1..n : CleanItem(s[i])
                               /\ \A i \in n + 1..Len(s) : TaintItem(s[i], L)
    BY <1>3 DEF Layered
  <2>2. n \in 0..Len(t) /\ \A i \in 1..n : CleanItem(t[i])
    BY <1>1, <2>1
  <2>3. \A i \in n + 1..Len(t) : TaintItem(t[i], L)
    BY <1>1, <1>3, <2>1
  <2>4. QED
    BY <2>2, <2>3 DEF Layered
<1>4. QED
  BY <1>2, <1>3 DEF t

\* A rollback leaves the layers below it.
LEMMA LayersStay ==
  ASSUME NEW L, TablesInv(L), Rooted(L), NEW b \in Blocks, RollbackCode(L, b) = "SUCCESS",
         NEW s, Layered(s, L)
  PROVE  Layered(s, RollbackBlock(L, b))
<1> DEFINE N == RollbackBlock(L, b)
<1>1. N.stored = L.stored \ {b}
  BY RollbackEffect DEF TablesInv, ChainInv, ChainTables
<1>2. \A x \in Tainted(L) : x # b => x \in Tainted(N)
  BY TaintStays
<1> HIDE DEF N
<1>3. \A it : TaintItem(it, L) => TaintItem(it, N)
  BY <1>1, <1>2 DEF TaintItem
<1>4. QED
  BY <1>3 DEF Layered, N

\* What a canonical block names is canonical.
LEMMA NamedCanonical ==
  ASSUME NEW b \in Canonical
  PROVE  /\ Block[b].previous \in Blocks => Block[b].previous \in Canonical
         /\ Block[b].link \in Blocks => Block[b].link \in Canonical
  BY CanonicalAssumption

\* One round of the loop.
LEMMA DynamicCanon ==
  ASSUME Base, CanonInv, DynamicStep
  PROVE  CanonInv'
<1>1. PICK o \in Running :
        /\ stack[o] # <<>>
        /\ \/ Top(o).operation = APPEND   /\ DynamicAppend(o)
           \/ Top(o).operation = ROLLBACK /\ DynamicRollback(o)
           \/ Top(o).operation = CONFIRM  /\ DynamicConfirm(o)
  BY DEF DynamicStep
<1> DEFINE s == stack[o]
           b == Top(o).block
<1>2. /\ Running = {o} /\ o \in DOMAIN stack /\ s \in Seq(Items(accounts[o]))
      /\ stack = [p \in DOMAIN stack |-> stack[p]]
      /\ thread.at = "dynamic" /\ thread.operation = o
  BY <1>1 DEF Base, StackInv, Running
<1>3. Top(o) = Last(s) /\ Top(o) \in Items(accounts[o])
  BY <1>1, <1>2 DEF Top, Last
<1>4. b \in Blocks /\ Layered(s, ledger) /\ Rooted(ledger) /\ TablesInv(ledger)
  BY <1>1, <1>3 DEF Items, CanonInv, Base
<1>5. \A i \in DOMAIN forced' : forced'[i].block \in Canonical
  BY DEF DynamicStep, CanonInv
<1>6. Rooted(ledger')
  <2>1. [Next]_vars
    BY DEF Next, Processor
  <2>2. QED
    BY <1>4, <2>1, NextLedger, LedgerStepRooted
<1>7. \A q \in queries : q.hash \in Blocks => q.hash \in Canonical
  BY DEF CanonInv
<1>8. ASSUME NEW t, stack' = [stack EXCEPT ![o] = t],
             \A q \in queries' : q.hash \in Blocks => q.hash \in Canonical,
             \/ thread' = thread /\ Layered(t, ledger')
             \/ thread' = Idle /\ Clean(t)
      PROVE  CanonInv'
  <2>1. /\ DOMAIN stack' = DOMAIN stack /\ stack'[o] = t
        /\ \A p \in DOMAIN stack \ {o} : stack'[p] = stack[p] /\ Clean(stack[p])
    BY <1>2, <1>8 DEF CanonInv
  <2>2. \/ Running' = {o} /\ Layered(stack'[o], ledger')
        \/ Running' = {} /\ Clean(stack'[o])
    BY <1>2, <1>8, <2>1 DEF Running, Idle
  <2>3. \A p \in Running' : Layered(stack'[p], ledger')
    BY <2>2
  <2>4. \A p \in DOMAIN stack' \ Running' : Clean(stack'[p])
    BY <2>1, <2>2
  <2>5. QED
    BY <1>5, <1>6, <1>8, <2>3, <2>4 DEF CanonInv
<1>9. Layered(<<>>, ledger')
  <2>1. Clean(<<>>)
    BY DEF Clean
  <2>2. <<>> \in Seq(Blocks)
    OBVIOUS
  <2>3. QED
    BY <2>1, <2>2, Layers
<1> HIDE DEF s, b
<1>10. ASSUME Fail(o)
       PROVE  CanonInv'
  BY <1>7, <1>8, <1>9, <1>10 DEF Fail
<1>11. ASSUME Skip(o)
       PROVE  CanonInv'
  <2>1. Layered(Front(s), ledger)
    BY <1>1, <1>2, <1>4, Layers DEF s
  <2>2. QED
    BY <1>7, <1>8, <1>11, <2>1 DEF Skip, Pop, s
<1>12. ASSUME Clean(s), b \in Canonical, NEW hash, hash \in Blocks => hash \in Canonical,
              Wait(o, hash)
       PROVE  CanonInv'
  <2>1. CleanItem(Item(APPEND, NoBlock))
    BY BlocksAssumption DEF CleanItem, Item
  <2>2. Clean(s \o <<Item(APPEND, NoBlock)>>)
    BY <1>2, <1>12, <2>1, OnTop
  <2>3. \A q \in queries' : q.hash \in Blocks => q.hash \in Canonical
    BY <1>7, <1>12 DEF Wait
  <2>4. QED
    BY <1>8, <1>12, <2>2, <2>3 DEF Wait, s
<1>13. ASSUME NEW x, TaintItem(Item(ROLLBACK, x), ledger), Push(o, ROLLBACK, x)
       PROVE  CanonInv'
  <2>1. Layered(s \o <<Item(ROLLBACK, x)>>, ledger)
    BY <1>2, <1>4, <1>13, OnTop
  <2>2. QED
    BY <1>7, <1>8, <1>13, <2>1 DEF Push, s
<1>14. ASSUME Top(o).operation # ROLLBACK
       PROVE  Clean(s) /\ b \in Canonical /\ Layered(Front(s), ledger')
  <2>1. Clean(s)
    BY <1>1, <1>2, <1>3, <1>4, <1>14, Layers DEF s
  <2>2. s # <<>> /\ Len(s) \in Nat /\ Len(s) # 0 /\ Last(s) = s[Len(s)]
    BY <1>1, <1>2, EmptySeq DEF s, Last
  <2>3. CleanItem(Top(o))
    BY <1>3, <2>1, <2>2 DEF Clean
  <2>4. b \in Canonical
    BY <1>4, <2>3 DEF CleanItem, b
  <2>5. Clean(Front(s))
    BY <1>2, <2>1, <2>2, Layers
  <2>6. Front(s) \in Seq(Items(accounts[o]))
    BY <1>2, <2>2 DEF Front
  <2>7. QED
    BY <2>1, <2>4, <2>5, <2>6, Layers
<1>15. ASSUME Top(o).operation = APPEND, DynamicAppend(o)
       PROVE  CanonInv'
  <2> DEFINE code == AppendCode(ledger, b, clock)
             at == BlockAt(ledger, Block[b].account, Block[b].height)
  <2>1. Clean(s) /\ b \in Canonical /\ Layered(Front(s), ledger')
    BY <1>14, <1>15 DEF APPEND, ROLLBACK
  <2>2. code = "FORK" => TaintItem(Item(ROLLBACK, at), ledger)
    <3>1. SUFFICES ASSUME code = "FORK"
                   PROVE  TaintItem(Item(ROLLBACK, at), ledger)
      OBVIOUS
    <3>2. at \in ledger.stored /\ ForkWith(at, b)
      BY <1>4, <3>1, ForkStored DEF TablesInv
    <3> HIDE DEF at
    <3>3. at \notin Canonical
      BY <2>1, <3>2, CanonicalAssumption
    <3>4. at \in Tainted(ledger)
      BY <3>2, <3>3, TaintBasics
    <3>5. QED
      BY <3>4 DEF TaintItem, Item
  <2>3. /\ Block[b].previous \in Blocks => Block[b].previous \in Canonical
        /\ Block[b].link \in Blocks => Block[b].link \in Canonical
    BY <2>1, NamedCanonical
  <2>4. CASE code = "SUCCESS" /\ Pop(o) /\ UNCHANGED <<queries, thread>>
    BY <1>7, <1>8, <2>1, <2>4 DEF Pop, s
  <2>5. CASE Wait(o, Block[b].previous) \/ Wait(o, Block[b].link)
    BY <1>12, <2>1, <2>3, <2>5
  <2>6. CASE code = "FORK" /\ Push(o, ROLLBACK, at)
    BY <1>13, <2>2, <2>6
  <2>7. QED
    BY <1>10, <1>11, <1>15, <2>4, <2>5, <2>6, Zenon DEF DynamicAppend, b
<1>16. ASSUME Top(o).operation = CONFIRM, DynamicConfirm(o)
       PROVE  CanonInv'
  <2>1. Clean(s) /\ b \in Canonical /\ Layered(Front(s), ledger')
    BY <1>14, <1>16 DEF CONFIRM, ROLLBACK
  <2>2. CASE Pop(o) /\ UNCHANGED <<queries, thread>>
    BY <1>7, <1>8, <2>1, <2>2 DEF Pop, s
  <2>3. CASE Push(o, APPEND, b)
    <3>1. CleanItem(Item(APPEND, b))
      BY <2>1 DEF CleanItem, Item
    <3>2. Clean(s \o <<Item(APPEND, b)>>)
      BY <1>2, <2>1, <3>1, OnTop
    <3>3. s \o <<Item(APPEND, b)>> \in Seq(Items(accounts[o]) \cup {Item(APPEND, b)})
      <4>1. s \in Seq(Items(accounts[o]) \cup {Item(APPEND, b)})
        BY <1>2, SeqMonotonic
      <4>2. QED
        BY <4>1
    <3>4. Layered(s \o <<Item(APPEND, b)>>, ledger')
      BY <3>2, <3>3, Layers
    <3>5. QED
      BY <1>7, <1>8, <2>3, <3>4 DEF Push, s
  <2>4. QED
    BY <1>10, <1>16, <2>2, <2>3, Zenon DEF DynamicConfirm, b
<1>17. ASSUME Top(o).operation = ROLLBACK, DynamicRollback(o)
       PROVE  CanonInv'
  <2> DEFINE code == RollbackCode(ledger, b)
  <2>1. TaintItem(Top(o), ledger)
    BY <1>1, <1>2, <1>3, <1>4, <1>17, Layers DEF s
  <2>2. b \in ledger.stored => b \in Tainted(ledger)
    BY <2>1 DEF TaintItem, b
  <2>3. code # "ROLLBACK_IGNORE" => b \in ledger.stored
    BY DEF RollbackCode, CheckRollback, AndThen, Unless
  <2>4. code # "ROLLBACK_SOURCE_PRUNED"
    BY <1>4, <2>2, <2>3, RollbackSoundness, TaintBasics DEF RollbackSound
  <2>5. code # "ROLLBACK_IGNORE" => TaintItem(Item(ROLLBACK, Blocker(ledger, b)), ledger)
    BY <1>4, <2>2, <2>3, BlockerTainted DEF TaintItem, Item
  <2>6. CASE code = "SUCCESS" /\ ledger' = RollbackBlock(ledger, b) /\ Pop(o)
             /\ UNCHANGED <<queries, thread>>
    <3>1. Layered(Front(s), ledger)
      BY <1>1, <1>2, <1>4, Layers DEF s
    <3>2. Layered(Front(s), ledger')
      BY <1>4, <2>6, <3>1, LayersStay
    <3>3. QED
      BY <1>7, <1>8, <2>6, <3>2 DEF Pop, s
  <2>7. CASE \/ code = "ROLLBACK_NON_HEAD" /\ Push(o, ROLLBACK, ledger.successor[b])
             \/ /\ code = "ROLLBACK_REWARDED"
                /\ Push(o, ROLLBACK, ledger.info[Block[Block[b].previous].rep].head)
             \/ /\ code = "ROLLBACK_RECEIVED"
                /\ Push(o, ROLLBACK, ledger.info[Block[b].link].head)
    <3>1. Push(o, ROLLBACK, Blocker(ledger, b)) /\ code # "ROLLBACK_IGNORE"
      BY <2>7, SMTT(40) DEF Blocker
    <3>2. QED
      BY <1>13, <2>5, <3>1
  <2>8. QED
    BY <1>10, <1>11, <1>17, <2>4, <2>6, <2>7, Zenon DEF DynamicRollback, b
<1>18. QED
  BY <1>1, <1>15, <1>16, <1>17

\* An answer or a verdict.
LEMMA TakeForcedCanon ==
  ASSUME Base, CanonInv, TakeForced
  PROVE  CanonInv'
<1> DEFINE f == Head(forced)
<1>1. forced \in Seq(Answers) /\ forced # <<>> /\ forced' = Tail(forced)
  BY DEF TakeForced, Base, QueueInv
<1>2. f \in Answers /\ f.block \in Canonical
  <2>1. 1 \in DOMAIN forced /\ f = forced[1]
    BY <1>1
  <2>2. QED
    BY <1>1, <2>1 DEF CanonInv
<1>3. \A i \in DOMAIN forced' : forced'[i].block \in Canonical
  <2>1. ASSUME NEW i \in DOMAIN forced'
        PROVE  i + 1 \in DOMAIN forced /\ forced'[i] = forced[i + 1]
    BY <1>1
  <2>2. QED
    BY <2>1 DEF CanonInv
<1> HIDE DEF f
<1>4. /\ Running = {} /\ UNCHANGED <<ledger, queries>>
      /\ \A p \in DOMAIN stack : Clean(stack[p])
  BY DEF TakeForced, Running, Idle, CanonInv
<1>5. SUFFICES /\ \A p \in Running' : Layered(stack'[p], ledger')
               /\ \A p \in DOMAIN stack' \ Running' : Clean(stack'[p])
  BY <1>3, <1>4 DEF CanonInv
<1>6. /\ stack = [o \in DOMAIN stack |-> stack[o]] /\ operation \notin DOMAIN stack
      /\ \A o \in DOMAIN stack : WaitingStack(stack[o], accounts[o])
  <2>1. operation \notin DOMAIN stack
    BY DEF Base, StackInv
  <2>2. QED
    BY <1>4, <2>1 DEF Base, StackInv
<1>7. CASE /\ f.operation \in DOMAIN stack
           /\ stack' = [stack EXCEPT ![f.operation] =
                          Front(@) \o <<[Last(@) EXCEPT !.block = f.block]>>]
           /\ thread' = InLoop(f.operation)
  <2> DEFINE o == f.operation
             s == stack[o]
  <2>1. PICK t \in Seq(Items(accounts[o])) : s = t \o <<Hole>>
    BY <1>6, <1>7 DEF WaitingStack
  <2>2. Front(s) = t /\ Last(s) = Hole
    <3>1. Len(t \o <<Hole>>) = Len(t) + 1 /\ (t \o <<Hole>>)[Len(t) + 1] = Hole
      BY <2>1
    <3>2. SubSeq(t \o <<Hole>>, 1, Len(t)) = t
      BY <2>1
    <3>3. QED
      BY <2>1, <3>1, <3>2 DEF Front, Last
  <2>3. Clean(t)
    <3>1. Clean(t \o <<Hole>>)
      BY <1>4, <1>7, <2>1
    <3>2. Len(t) \in Nat /\ Len(t \o <<Hole>>) = Len(t) + 1
          /\ \A i \in 1..Len(t) : (t \o <<Hole>>)[i] = t[i]
      BY <2>1
    <3>3. QED
      BY <3>1, <3>2 DEF Clean
  <2>4. [Hole EXCEPT !.block = f.block] = Item(APPEND, f.block)
    BY DEF Hole, Item
  <2> DEFINE new == t \o <<Item(APPEND, f.block)>>
  <2>5. CleanItem(Item(APPEND, f.block))
    BY <1>2 DEF CleanItem, Item
  <2>6. Clean(new)
    BY <2>1, <2>3, <2>5, OnTop
  <2>7. new \in Seq(Items(accounts[o]) \cup {Item(APPEND, f.block)})
    <3>1. t \in Seq(Items(accounts[o]) \cup {Item(APPEND, f.block)})
      BY <2>1, SeqMonotonic
    <3>2. QED
      BY <3>1
  <2>8. Layered(new, ledger')
    BY <2>6, <2>7, Layers
  <2> HIDE DEF new
  <2>9. stack'[o] = new /\ DOMAIN stack' = DOMAIN stack
        /\ \A p \in DOMAIN stack \ {o} : stack'[p] = stack[p]
    BY <1>6, <1>7, <2>2, <2>4 DEF new
  <2>10. Running' = {o}
    BY <1>7 DEF Running, InLoop
  <2>11. QED
    BY <1>4, <2>8, <2>9, <2>10
<1>8. CASE UNCHANGED <<stack, thread>>
  BY <1>4, <1>8 DEF Running
<1>9. CASE /\ f.operation \in {APPEND, CONFIRM}
           /\ stack' = [p \in DOMAIN stack \cup {operation} |->
                          IF p = operation THEN <<Item(f.operation, f.block)>> ELSE stack[p]]
           /\ thread' = InLoop(operation)
  <2> DEFINE it == Item(f.operation, f.block)
  <2>1. CleanItem(it)
    BY <1>2, <1>9 DEF CleanItem, Item
  <2> HIDE DEF it
  <2>2. Clean(<<it>>) /\ <<it>> \in Seq({it})
    BY <2>1 DEF Clean
  <2>3. Layered(<<it>>, ledger')
    BY <2>2, Layers
  <2>4. Running' = {operation}
    BY <1>9 DEF Running, InLoop
  <2>5. /\ stack'[operation] = <<it>> /\ DOMAIN stack' = DOMAIN stack \cup {operation}
        /\ \A p \in DOMAIN stack : stack'[p] = stack[p]
    BY <1>6, <1>9 DEF it
  <2>6. QED
    BY <1>4, <2>3, <2>4, <2>5
<1>10. QED
  BY <1>7, <1>8, <1>9, ZenonT(60) DEF TakeForced, f

\* Every step keeps the layers.
LEMMA NextCanon ==
  ASSUME Base, CanonInv, [Next]_vars
  PROVE  CanonInv'
<1>1. Rooted(ledger')
  BY NextLedger, LedgerStepRooted DEF Base, CanonInv
<1>2. ASSUME \A i \in DOMAIN forced' : forced'[i].block \in Canonical,
             queries' \subseteq queries, UNCHANGED stack, Running' = Running,
             Running = {} \/ UNCHANGED ledger
      PROVE  CanonInv'
  BY <1>1, <1>2 DEF CanonInv
<1>3. \A i \in DOMAIN forced : forced[i].block \in Canonical
  BY DEF CanonInv
<1>4. CASE TakeBlock \/ TakeFork \/ TryForkBlock \/ RecordFork
  <2>1. Running = {} /\ Running' = {} /\ UNCHANGED <<stack, queries, forced>>
    BY <1>4, OutsideLoop DEF Base
  <2>2. QED
    BY <1>2, <1>3, <2>1
<1>5. CASE TakeForced
  BY <1>5, TakeForcedCanon
<1>6. CASE DynamicStep
  BY <1>6, DynamicCanon
<1>7. CASE FinishOperation
  <2>1. PICK o \in Running : stack' = [p \in DOMAIN stack \ {o} |-> stack[p]]
    BY <1>7 DEF FinishOperation
  <2>2. /\ Running = {o} /\ Running' = {} /\ UNCHANGED <<forced, queries>>
        /\ DOMAIN stack' = DOMAIN stack \ {o}
        /\ \A p \in DOMAIN stack' : stack'[p] = stack[p]
    BY <1>7, <2>1 DEF Running, FinishOperation, Idle
  <2>3. \A p \in DOMAIN stack' : Clean(stack'[p])
    BY <2>2 DEF CanonInv
  <2>4. QED
    BY <1>1, <2>2, <2>3 DEF CanonInv
<1>8. CASE Crash
  <2>1. DOMAIN stack' = {} /\ DOMAIN forced' = {} /\ queries' = {} /\ Running' = {}
    BY <1>8 DEF Crash, Running, Idle
  <2>2. QED
    BY <1>1, <2>1 DEF CanonInv
<1>9. ASSUME NEW x \in Canonical, NEW op \in Nat,
             forced' = forced \o <<[operation |-> op, block |-> x]>>
      PROVE  \A i \in DOMAIN forced' : forced'[i].block \in Canonical
  <2> DEFINE it == [operation |-> op, block |-> x]
  <2>1. forced \in Seq(Answers) /\ it \in Answers /\ it.block = x
    BY ProcessorAssumption DEF Base, QueueInv, Answers
  <2> HIDE DEF it
  <2>2. forced' = forced \o <<it>>
    BY <1>9 DEF it
  <2>3. ASSUME NEW i \in DOMAIN forced'
        PROVE  forced'[i] = it \/ (i \in DOMAIN forced /\ forced'[i] = forced[i])
    BY <2>1, <2>2
  <2>4. QED
    BY <1>3, <2>1, <2>3
<1>10. ASSUME NEW op \in {APPEND, CONFIRM}, NEW b \in Blocks, ForceBlock(op, b)
       PROVE  CanonInv'
  <2>1. b \in Canonical /\ op \in Nat
    BY <1>10, ProcessorAssumption DEF ForceBlock, APPEND, CONFIRM
  <2>2. \A i \in DOMAIN forced' : forced'[i].block \in Canonical
    BY <1>9, <1>10, <2>1 DEF ForceBlock
  <2>3. QED
    BY <1>2, <1>10, <2>2 DEF ForceBlock, Running
<1>11. ASSUME NEW q \in queries, QueryCallback(q)
       PROVE  CanonInv'
  <2>1. q.hash \in Canonical /\ q.operation \in Nat
    BY <1>11 DEF QueryCallback, CanonInv, Base, QueueInv
  <2>2. \A i \in DOMAIN forced' : forced'[i].block \in Canonical
    BY <1>9, <1>11, <2>1 DEF QueryCallback
  <2>3. QED
    BY <1>2, <1>11, <2>2 DEF QueryCallback, Running
<1>12. CASE \/ \E b \in Blocks : ReceiveBlock(b)
            \/ \E f \in ForkMessages : ReceiveBlockFork(f)
            \/ AgeGapCaches
            \/ \E t \in Clocks : SetClock(t)
            \/ UNCHANGED vars
  <2>1. UNCHANGED <<ledger, forced, queries, stack, thread>>
    BY <1>12 DEF ReceiveBlock, ReceiveBlockFork, AgeGapCaches, SetClock, vars
  <2>2. QED
    BY <1>2, <1>3, <2>1 DEF Running
<1>13. QED
  BY <1>4, <1>5, <1>6, <1>7, <1>8, <1>10, <1>11, <1>12
  DEF Next, Processor, Environment, Answer

\* Only a rollback removes a block, and it removes the top of a stack.
LEMMA RemovedTainted ==
  ASSUME Base, CanonInv, [Next]_vars, NEW x \in ledger.stored, x \notin ledger'.stored
  PROVE  x \in Tainted(ledger)
<1>1. TablesInv(ledger) /\ ChainInv(ledger) /\ IsLedger(ledger)
  BY DEF Base, TablesInv, ChainInv, ChainTables
<1>2. \A b : x \in AppendBlock(ledger, b).stored
  BY <1>1, AppendEffect
<1>3. \A b \in Blocks : ConfirmCode(ledger, b) = "SUCCESS" => x \in ConfirmBlock(ledger, b).stored
  BY <1>1, ConfirmChainInv
<1>4. x \in InitMemoryTables(ledger).stored
  BY <1>1, RestartChainInv
<1>5. CASE DynamicStep
  <2>1. PICK o \in Running :
          /\ stack[o] # <<>>
          /\ \/ Top(o).operation = APPEND   /\ DynamicAppend(o)
             \/ Top(o).operation = ROLLBACK /\ DynamicRollback(o)
             \/ Top(o).operation = CONFIRM  /\ DynamicConfirm(o)
    BY <1>5 DEF DynamicStep
  <2> DEFINE b == Top(o).block
  <2>2. stack[o] \in Seq(Items(accounts[o]))
    BY DEF Base, StackInv
  <2>3. Top(o) = Last(stack[o]) /\ Top(o) \in Items(accounts[o])
    BY <2>1, <2>2 DEF Top, Last
  <2>4. b \in Blocks /\ Layered(stack[o], ledger)
    BY <2>3 DEF Items, CanonInv
  <2> HIDE DEF b
  <2>5. ~DynamicAppend(o)
    BY <1>2 DEF DynamicAppend, Fail, Wait, Push, Skip, b
  <2>6. ~DynamicConfirm(o)
    BY <1>3, <2>4 DEF DynamicConfirm, Fail, Push, b
  <2>7. Top(o).operation = ROLLBACK /\ DynamicRollback(o)
    BY <2>1, <2>5, <2>6, SMTT(40)
  <2>8. ledger' = RollbackBlock(ledger, b)
    BY <2>7 DEF DynamicRollback, Fail, Wait, Push, Skip, b
  <2>9. x = b
    BY <1>1, <2>8, RollbackEffect
  <2>10. TaintItem(Top(o), ledger)
    BY <2>1, <2>2, <2>3, <2>4, <2>7, Layers
  <2>11. QED
    BY <2>9, <2>10 DEF TaintItem, b
<1>6. CASE TakeBlock
  BY <1>2, <1>6 DEF TakeBlock, ProcessBlock
<1>7. CASE TryForkBlock
  BY <1>2, <1>7 DEF TryForkBlock, ProcessBlock
<1>8. CASE Crash
  BY <1>4, <1>8 DEF Crash
<1>9. CASE UNCHANGED ledger
  BY <1>9
<1>10. QED
  BY <1>5, <1>6, <1>7, <1>8, <1>9
  DEF Next, Processor, Environment, Answer, TakeFork, RecordFork, TakeForced, FinishOperation,
      ReceiveBlock, ReceiveBlockFork, ForceBlock, QueryCallback, AgeGapCaches,
      SetClock, vars

(***************************************************************************)
(* Forcing the blocks the network agreed on into the ledger rolls back no  *)
(* block except one that is not canonical itself or builds on such a block *)
(* (ProcessBlockDynamicAppend_, ProcessBlockDynamicRollback_), whatever    *)
(* else arrives and whenever the process is killed.                        *)
(***************************************************************************)
THEOREM CanonicalBlocksStay == Spec => OnlyTaintedRolledBack
<1>1. Init => CanonInv
  <2> SUFFICES ASSUME Init
               PROVE  CanonInv
    OBVIOUS
  <2>1. DOMAIN stack = {} /\ DOMAIN forced = {} /\ queries = {} /\ Running = {}
    BY DEF Init, Running, Idle
  <2>2. ledger.stored = {Genesis}
    BY DEF Init, InitLedger
  <2>3. QED
    BY <2>1, <2>2, GenesisAssumption DEF CanonInv, Rooted
<1>2. Base /\ CanonInv /\ [Next]_vars => CanonInv'
  BY NextCanon
<1>3. Base /\ CanonInv /\ [Next]_vars =>
        [\A b \in ledger.stored \ ledger'.stored : b \in Tainted(ledger)]_vars
  BY RemovedTainted
<1>4. QED
  BY <1>1, <1>2, <1>3, BaseInductive, PTL DEF Spec, OnlyTaintedRolledBack

-----------------------------------------------------------------------------
(* Voting.                                                                 *)

VotingIInv == TypeOK /\ FreshCalls /\ LastVote /\ NoConflict

\* A new vote is the entry's vote again or comes an interval after it, and
\* where there is no entry it is dated with the clock.
LEMMA TimestampSpaced ==
  ASSUME NEW e \in Confirms \cup {NoConfirm}, NEW h \in Hashes, NEW n \in Nat
  PROVE  LET timestamp == Timestamp(e, h, n)
         IN  /\ timestamp \in Nat
             /\ e = NoConfirm => timestamp = n
             /\ e # NoConfirm =>
                  \/ timestamp = e.timestamp /\ h = e.hash
                  \/ e.timestamp + MIN_CONFIRM_INTERVAL <= timestamp
<1>1. CASE e = NoConfirm
  BY <1>1 DEF Timestamp
<1>2. CASE e # NoConfirm
  <2>1. e.timestamp \in Nat
    BY <1>2 DEF Confirms
  <2>2. QED
    BY <1>2, <2>1, VotingAssumption DEF Timestamp
<1>3. QED
  BY <1>1, <1>2

\* The invariant holds of a manager that has dated no vote.
LEMMA VotingInitial == VotingInit => VotingIInv
BY VotingAssumption DEF VotingInit, VotingIInv, TypeOK, FreshCalls, LastVote, NoConflict

\* GetTimestamp signs a vote that fits all earlier ones.
LEMMA GetTimestampIInv ==
  ASSUME VotingIInv, NEW t \in Voters, GetTimestamp(t)
  PROVE  VotingIInv'
<1> DEFINE p == call[t].position
           h == call[t].hash
           n == call[t].now
           e == confirms[p]
           new == Timestamp(e, h, n)
           vote == [position |-> p, timestamp |-> new, hash |-> h]
<1>1. /\ p \in Positions /\ h \in Hashes /\ n \in Nat
      /\ e \in Confirms \cup {NoConfirm}
      /\ n <= now /\ now <= n + MaxLag
  BY DEF VotingIInv, TypeOK, FreshCalls, GetTimestamp, Calls
<1>2. /\ confirms' = [confirms EXCEPT ![p] = [timestamp |-> new, hash |-> h]]
      /\ sent' = sent \cup {vote}
      /\ call' = [call EXCEPT ![t] = NoCall]
      /\ now' = now
  BY DEF GetTimestamp
<1>3. /\ new \in Nat
      /\ e = NoConfirm => new = n
      /\ e # NoConfirm => \/ new = e.timestamp /\ h = e.hash
                          \/ e.timestamp + MIN_CONFIRM_INTERVAL <= new
  BY <1>1, TimestampSpaced
<1> HIDE DEF p, h, n, e, new
<1>4. TypeOK'
  <2>1. vote \in Votes
    BY <1>1, <1>3 DEF Votes
  <2>2. [timestamp |-> new, hash |-> h] \in Confirms
    BY <1>1, <1>3 DEF Confirms
  <2>3. QED
    BY <1>2, <2>1, <2>2 DEF VotingIInv, TypeOK
<1>5. FreshCalls'
  BY <1>2 DEF VotingIInv, TypeOK, FreshCalls
<1>6. confirms'[p] = [timestamp |-> new, hash |-> h]
  BY <1>1, <1>2 DEF VotingIInv, TypeOK
<1>7. [timestamp |-> new, hash |-> h] # NoConfirm
  BY <1>1, <1>3, VotingAssumption DEF Confirms
\* An earlier vote for this position keeps its distance from the new one.
<1>8. ASSUME NEW v \in sent, v.position = p
      PROVE  \/ v.timestamp = new /\ v.hash = h
             \/ v.timestamp + MIN_CONFIRM_INTERVAL <= new
  <2>1. v.timestamp \in Nat
    BY DEF VotingIInv, TypeOK, Votes
  <2>2. CASE e = NoConfirm
    <3>1. v.timestamp + MIN_CONFIRM_INTERVAL < now
      BY <1>8, <2>2 DEF VotingIInv, LastVote, e
    <3>2. QED
      BY <1>1, <1>3, <2>1, <2>2, <3>1, VotingAssumption DEF VotingIInv, TypeOK
  <2>3. CASE e # NoConfirm
    <3>1. e.timestamp \in Nat
      BY <1>1, <2>3 DEF Confirms
    <3>2. \/ v.timestamp = e.timestamp /\ v.hash = e.hash
          \/ v.timestamp + MIN_CONFIRM_INTERVAL <= e.timestamp
      BY <1>8, <2>3 DEF VotingIInv, LastVote, e
    <3>3. QED
      BY <1>3, <2>1, <2>3, <3>1, <3>2, VotingAssumption
  <2>4. QED
    BY <2>2, <2>3
<1>9. LastVote'
  <2> SUFFICES ASSUME NEW v \in sent'
               PROVE  IF confirms'[v.position] = NoConfirm
                      THEN v.timestamp + MIN_CONFIRM_INTERVAL < now'
                      ELSE \/ /\ v.timestamp = confirms'[v.position].timestamp
                              /\ v.hash = confirms'[v.position].hash
                           \/ v.timestamp + MIN_CONFIRM_INTERVAL
                                <= confirms'[v.position].timestamp
    BY DEF LastVote
  <2>1. CASE v = vote
    BY <1>6, <1>7, <2>1
  <2>2. CASE v # vote /\ v.position = p
    BY <1>2, <1>6, <1>7, <1>8, <2>2
  <2>3. CASE v # vote /\ v.position # p
    <3>1. v \in sent /\ v.position \in Positions
      BY <1>2, <2>3 DEF VotingIInv, TypeOK, Votes
    <3>2. confirms'[v.position] = confirms[v.position]
      BY <1>2, <2>3, <3>1 DEF VotingIInv, TypeOK
    <3>3. QED
      BY <1>2, <3>1, <3>2 DEF VotingIInv, LastVote
  <2>4. QED
    BY <2>1, <2>2, <2>3
<1>10. NoConflict'
  <2>1. \A v \in sent : v.position = p => ~CheckConflict(v, vote) /\ ~CheckConflict(vote, v)
    <3> SUFFICES ASSUME NEW v \in sent, v.position = p
                 PROVE  ~CheckConflict(v, vote) /\ ~CheckConflict(vote, v)
      OBVIOUS
    <3>1. v.timestamp \in Nat
      BY DEF VotingIInv, TypeOK, Votes
    <3>2. QED
      BY <1>3, <1>8, <3>1, VotingAssumption DEF CheckConflict
  <2>2. ~CheckConflict(vote, vote)
    BY DEF CheckConflict
  <2>3. QED
    BY <1>2, <2>1, <2>2 DEF VotingIInv, NoConflict
<1>11. QED
  BY <1>4, <1>5, <1>9, <1>10 DEF VotingIInv

\* Forgetting an entry is harmless: all votes are then old enough.
LEMMA AgeIInv ==
  ASSUME VotingIInv, Age
  PROVE  VotingIInv'
<1>1. TypeOK' /\ FreshCalls' /\ NoConflict'
  BY DEF VotingIInv, TypeOK, FreshCalls, NoConflict, CheckConflict, Age
<1>2. LastVote'
  <2> SUFFICES ASSUME NEW v \in sent
               PROVE  IF confirms'[v.position] = NoConfirm
                      THEN v.timestamp + MIN_CONFIRM_INTERVAL < now
                      ELSE \/ /\ v.timestamp = confirms'[v.position].timestamp
                              /\ v.hash = confirms'[v.position].hash
                           \/ v.timestamp + MIN_CONFIRM_INTERVAL
                                <= confirms'[v.position].timestamp
    BY DEF Age, LastVote
  <2> DEFINE e == confirms[v.position]
  <2>1. /\ v.position \in Positions /\ v.timestamp \in Nat
        /\ e \in Confirms \cup {NoConfirm} /\ now \in Nat
    BY DEF VotingIInv, TypeOK, Votes
  <2>2. confirms'[v.position] = IF Outdated(e) THEN NoConfirm ELSE e
    BY <2>1 DEF Age
  <2>3. IF e = NoConfirm
        THEN v.timestamp + MIN_CONFIRM_INTERVAL < now
        ELSE \/ v.timestamp = e.timestamp /\ v.hash = e.hash
             \/ v.timestamp + MIN_CONFIRM_INTERVAL <= e.timestamp
    BY DEF VotingIInv, LastVote
  <2> HIDE DEF e
  <2>4. CASE Outdated(e)
    <3>1. e.timestamp \in Nat /\ e.timestamp < now - MIN_CONFIRM_INTERVAL
      BY <2>1, <2>4 DEF Outdated, Confirms
    <3>2. QED
      BY <2>1, <2>2, <2>3, <2>4, <3>1, VotingAssumption DEF Outdated
  <2>5. CASE ~Outdated(e)
    BY <2>2, <2>3, <2>5
  <2>6. QED
    BY <2>4, <2>5
<1>3. QED
  BY <1>1, <1>2 DEF VotingIInv

\* The clock keeps it: an entry is outdated only when it is past the interval.
LEMMA TickIInv ==
  ASSUME VotingIInv, Tick
  PROVE  VotingIInv'
<1>1. now \in Nat /\ now' = now + 1 /\ UNCHANGED <<confirms, call, sent>>
  BY DEF VotingIInv, TypeOK, Tick
<1>2. TypeOK' /\ NoConflict'
  BY <1>1 DEF VotingIInv, TypeOK, NoConflict, CheckConflict
<1>3. FreshCalls'
  <2> SUFFICES ASSUME NEW t \in Voters, call[t] # NoCall
               PROVE  call[t].now <= now + 1 /\ now + 1 <= call[t].now + MaxLag
    BY <1>1 DEF FreshCalls
  <2>1. call[t].now \in Nat
    BY DEF VotingIInv, TypeOK, Calls
  <2>2. QED
    BY <1>1, <2>1, VotingAssumption DEF VotingIInv, FreshCalls, Tick
<1>4. LastVote'
  <2> SUFFICES ASSUME NEW v \in sent
               PROVE  LET e == confirms[v.position]
                      IN  IF e = NoConfirm
                          THEN v.timestamp + MIN_CONFIRM_INTERVAL < now + 1
                          ELSE \/ v.timestamp = e.timestamp /\ v.hash = e.hash
                               \/ v.timestamp + MIN_CONFIRM_INTERVAL <= e.timestamp
    BY <1>1 DEF LastVote
  <2>1. v.timestamp \in Nat
    BY DEF VotingIInv, TypeOK, Votes
  <2>2. QED
    BY <1>1, <2>1, VotingAssumption DEF VotingIInv, LastVote
<1>5. QED
  BY <1>2, <1>3, <1>4 DEF VotingIInv

\* A thread that has read its clock keeps it.
LEMMA CallIInv ==
  ASSUME VotingIInv, NEW t \in Voters, NEW p \in Positions, NEW h \in Hashes,
         Call(t, p, h)
  PROVE  VotingIInv'
<1> DEFINE c == [position |-> p, hash |-> h, now |-> now]
<1>1. /\ c \in Calls /\ now \in Nat
      /\ call' = [call EXCEPT ![t] = c]
      /\ UNCHANGED <<now, confirms, sent>>
  BY DEF VotingIInv, TypeOK, Call, Calls
<1>2. TypeOK'
  BY <1>1 DEF VotingIInv, TypeOK
<1>3. FreshCalls'
  <2> SUFFICES ASSUME NEW u \in Voters, call'[u] # NoCall
               PROVE  call'[u].now <= now /\ now <= call'[u].now + MaxLag
    BY <1>1 DEF FreshCalls
  <2>1. CASE u = t
    <3>1. call'[u].now = now
      BY <1>1, <2>1 DEF VotingIInv, TypeOK
    <3>2. QED
      BY <1>1, <3>1, VotingAssumption
  <2>2. CASE u # t
    BY <1>1, <2>2 DEF VotingIInv, TypeOK, FreshCalls
  <2>3. QED
    BY <2>1, <2>2
<1>4. LastVote' /\ NoConflict'
  BY <1>1 DEF VotingIInv, LastVote, NoConflict, CheckConflict
<1>5. QED
  BY <1>2, <1>3, <1>4 DEF VotingIInv

\* The conjunction of the type invariant, the freshness of clock readings,
\* the spacing of votes and the absence of conflicts is inductive.
LEMMA VotingInductive == VotingSpec => []VotingIInv
<1>1. VotingIInv /\ [VotingNext]_votingVars => VotingIInv'
  <2> SUFFICES ASSUME VotingIInv, [VotingNext]_votingVars
               PROVE  VotingIInv'
    OBVIOUS
  <2>1. CASE UNCHANGED votingVars
    BY <2>1 DEF votingVars, VotingIInv, TypeOK, FreshCalls, LastVote, NoConflict, CheckConflict
  <2>2. CASE VotingNext
    BY <2>2, TickIInv, CallIInv, GetTimestampIInv, AgeIInv DEF VotingNext
  <2>3. QED
    BY <2>1, <2>2
<1>2. QED
  BY <1>1, VotingInitial, PTL DEF VotingSpec

\* The state of the ConfirmManager keeps its types.
THEOREM TypeCorrect == VotingSpec => []TypeOK
<1>1. VotingIInv => TypeOK
  BY DEF VotingIInv
<1>2. QED
  BY <1>1, VotingInductive, PTL

\* No two votes a ConfirmManager dated for a position are in conflict.
THEOREM NeverInConflict == VotingSpec => []NoConflict
<1>1. VotingIInv => NoConflict
  BY DEF VotingIInv
<1>2. QED
  BY <1>1, VotingInductive, PTL

\* The remembered vote is the latest, and a forgotten one is old.
THEOREM LastVoteKept == VotingSpec => []LastVote
<1>1. VotingIInv => LastVote
  BY DEF VotingIInv
<1>2. QED
  BY <1>1, VotingInductive, PTL

=============================================================================
