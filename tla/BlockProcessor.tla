--------------------------- MODULE BlockProcessor ---------------------------
(***************************************************************************)
(* The block processor of a node (rai/node/blockprocessor.cpp): one thread *)
(* that serves three queues - forks first, then forced operations, then    *)
(* ordinary blocks - and is the only writer of the ledger.                 *)
(*                                                                         *)
(* An ordinary block is appended or dropped; one whose predecessor or      *)
(* source is missing waits in a gap cache; one that conflicts with the     *)
(* ledger is reported as a fork.  A forced operation comes from an         *)
(* election and must make its block part of the ledger whatever stands in  *)
(* the way: it keeps a stack of sub-operations (append, rollback, confirm) *)
(* and suspends while a missing block is queried from peers.  Each         *)
(* sub-operation is a database transaction of its own, so a crash can fall *)
(* between any two of them, and the other queues are served while an       *)
(* operation waits.                                                        *)
(*                                                                         *)
(* Nothing in the repository creates an account whose tail is above height *)
(* 0, so the paths for pruned chains (prepending, querying full nodes) are *)
(* not part of the model.                                                  *)
(***************************************************************************)
EXTENDS Ledger, SequencesExt

CONSTANTS
  MAX_BLOCKS, MAX_BLOCKS_FORK,            \* capacity of two queues
  MAX_CACHES, MAX_CACHES_PER_ACCOUNT,     \* capacity of a gap cache
  BaseAllowedForks, EXTRA_FORKS_PER_CREDIT,
  Priority,          \* [Blocks -> Nat]: smaller is served first
  Published,         \* blocks that arrive as ordinary blocks
  ForkMessages,      \* pairs of blocks that arrive as fork messages
  Canonical,         \* the blocks the network agreed on
  Elected,           \* those whose elections this node concludes
  ClockSteps,        \* pairs of readings: how the clock may move
  MaxForced,         \* bound: forced operations started
  MaxCrashes         \* bound: crashes

ASSUME ProcessorAssumption ==
  /\ MAX_BLOCKS \in Nat \ {0} /\ MAX_BLOCKS_FORK \in Nat
  /\ MAX_CACHES \in Nat /\ MAX_CACHES_PER_ACCOUNT \in Nat
  /\ BaseAllowedForks \in Nat /\ EXTRA_FORKS_PER_CREDIT \in Nat
  /\ Priority \in [Blocks -> Nat]
  /\ Published \subseteq Blocks /\ ForkMessages \subseteq Blocks \X Blocks
  /\ Elected \subseteq Canonical /\ Canonical \subseteq Blocks
  /\ ClockSteps \subseteq Clocks \X Clocks
  /\ MaxForced \in Nat /\ MaxCrashes \in Nat

\* What the network agreed on: one block at a position, and with a block what
\* it names as its predecessor or source.
ASSUME CanonicalAssumption ==
  /\ Genesis \in Canonical
  /\ \A b, c \in Canonical : ~ForkWith(b, c)
  /\ \A b \in Canonical : {Block[b].previous, Block[b].link} \cap Blocks \subseteq Canonical

VARIABLES
  ledger,       \* the tables of Ledger
  forks,        \* the fork table: [account, height, first, second]
  forkCount,    \* AccountInfo::forks_
  blocks,       \* blocks_: ordinary blocks by priority and arrival
  forced,       \* blocks_forced_: [operation, block]
  forkQueue,    \* blocks_fork_: [first, second, local]
  stack,        \* blocks_dynamic_: operation -> stack of [operation, block]
  accounts,     \* accounts_dynamic_: operation -> accounts it touched
  operation,    \* operation_: the next operation number
  queries,      \* outstanding queries: [operation, hash]
  gaps,         \* the three gap caches: [hash, block]
  thread,       \* what the processor thread is in the middle of
  clock,        \* the clock of the node
  crashes

vars == <<ledger, forks, forkCount, blocks, forced, forkQueue, stack,
          accounts, operation, queries, gaps, thread, clock, crashes>>

Idle == [at |-> "idle"]

\* enum BlockOperation: dynamic operations are numbered from DYNAMIC_BEGIN.
APPEND == 1
ROLLBACK == 3
CONFIRM == 5
DYNAMIC_BEGIN == 6

GapKinds == {"GAP_PREVIOUS", "GAP_RECEIVE_SOURCE", "GAP_REWARD_SOURCE"}

Init ==
  /\ ledger = InitLedger
  /\ forks = {}
  /\ forkCount = [a \in Accounts |-> 0]
  /\ blocks = <<>>
  /\ forced = <<>>
  /\ forkQueue = <<>>
  /\ stack = <<>>
  /\ accounts = <<>>
  /\ operation = DYNAMIC_BEGIN
  /\ queries = {}
  /\ gaps = [k \in GapKinds |-> {}]
  /\ thread = Idle
  /\ clock \in Clocks
  /\ crashes = 0

-----------------------------------------------------------------------------
(* Queues and caches.                                                      *)

\* Add: unique by hash, ordered by priority and arrival, the last one goes
\* when the queue is full.
Add(queue, b) ==
  IF b \in ToSet(queue) THEN queue
  ELSE LET before == Cardinality({i \in DOMAIN queue :
                                    Priority[queue[i]] <= Priority[b]})
           longer == InsertAt(queue, before + 1, b)
       IN  IF Len(longer) > MAX_BLOCKS THEN Front(longer) ELSE longer

AddFork(queue, first, second, local) ==
  IF Len(queue) >= MAX_BLOCKS_FORK THEN queue
  ELSE queue \o <<[first |-> first, second |-> second, local |-> local]>>

\* GapCache::Insert: one waiting block per missing hash.
GapInsert(cache, hash, b) ==
  IF \/ Cardinality(cache) >= MAX_CACHES
     \/ Cardinality({e \in cache : Block[e.block].account = Block[b].account})
          >= MAX_CACHES_PER_ACCOUNT
     \/ \E e \in cache : e.hash = hash
  THEN cache
  ELSE cache \cup {[hash |-> hash, block |-> b]}

\* Node::QueueGapCaches: the blocks that waited for b are queued again.
Waiting(kind, b) == {e \in gaps[kind] : e.hash = b}

Requeue(queue, kind, b) ==
  IF Waiting(kind, b) = {} THEN queue
  ELSE Add(queue, (CHOOSE e \in Waiting(kind, b) : TRUE).block)

\* Mutant: nobody tells the blocks that wait for b.
QueueGapCachesNot(b) == UNCHANGED <<blocks, gaps>>

QueueGapCaches(b) ==
  /\ blocks' = Requeue(Requeue(Requeue(blocks, "GAP_PREVIOUS", b),
                               "GAP_RECEIVE_SOURCE", b),
                       "GAP_REWARD_SOURCE", b)
  /\ gaps' = [k \in GapKinds |-> gaps[k] \ Waiting(k, b)]

\* The hash a block with this error waits for.
MissingHash(code, b) ==
  IF code = "GAP_PREVIOUS" THEN Block[b].previous ELSE Block[b].link

\* A new account starts without forks.
AppendForkCount(b) ==
  IF ledger.info[Block[b].account] = NoInfo
  THEN [forkCount EXCEPT ![Block[b].account] = 0] ELSE forkCount

-----------------------------------------------------------------------------
(* Ordinary blocks and forks.                                              *)

ProcessBlock(b, ignoreFork, queue) ==
  LET code == AppendCode(ledger, b, clock)
      local == BlockAt(ledger, Block[b].account, Block[b].height)
  IN  \/ /\ code = "SUCCESS"
         /\ ledger' = AppendBlock(ledger, b)
         /\ forkCount' = AppendForkCount(b)
         /\ gaps' = [k \in GapKinds |-> gaps[k] \ Waiting(k, b)]
         /\ blocks' = Requeue(Requeue(Requeue(queue, "GAP_PREVIOUS", b),
                                      "GAP_RECEIVE_SOURCE", b),
                              "GAP_REWARD_SOURCE", b)
         /\ UNCHANGED forkQueue
      \/ /\ code \in GapKinds
         /\ gaps' = [gaps EXCEPT ![code] = GapInsert(@, MissingHash(code, b), b)]
         /\ blocks' = queue
         /\ UNCHANGED <<ledger, forkCount, forkQueue>>
      \/ /\ code = "FORK" /\ ~ignoreFork
         /\ forkQueue' = AddFork(forkQueue, local, b, TRUE)
         /\ blocks' = queue
         /\ UNCHANGED <<ledger, forkCount, gaps>>
      \/ /\ code \notin GapKinds \cup {"SUCCESS"}
         /\ code = "FORK" => ignoreFork
         /\ blocks' = queue
         /\ UNCHANGED <<ledger, forkCount, gaps, forkQueue>>

MaxAllowedForks(credit) == BaseAllowedForks + credit * EXTRA_FORKS_PER_CREDIT

ForksOf(a) == {f \in forks : f.account = a}

\* Record a fork; at the limit it replaces the highest recorded fork of the
\* account if that one is higher.  (An election may start: see Election.)
ProcessBlockFork(first, second) ==
  LET a == Block[first].account
      h == Block[first].height
      info == ledger.info[a]
      fork == [account |-> a, height |-> h, first |-> first, second |-> second]
      highest == Max({f.height : f \in ForksOf(a)} \cup {h})
  IN  IF \/ ~ForkWith(first, second)
         \/ info = NoInfo
         \/ h > info.headHeight
         \/ \E f \in ForksOf(a) : f.height = h
      THEN UNCHANGED <<forks, forkCount>>
      ELSE IF forkCount[a] < MaxAllowedForks(Block[info.head].credit) + 2
      THEN /\ forks' = forks \cup {fork}
           /\ forkCount' = [forkCount EXCEPT ![a] = @ + 1]
      ELSE /\ forks' = IF highest = h THEN forks
                       ELSE {f \in forks : f.account # a \/ f.height # highest}
                              \cup {fork}
           /\ UNCHANGED forkCount

TakeBlock ==
  /\ thread = Idle /\ forkQueue = <<>> /\ forced = <<>> /\ blocks # <<>>
  /\ ProcessBlock(Head(blocks), FALSE, Tail(blocks))
  /\ UNCHANGED <<forks, forced, stack, accounts, operation, queries, thread,
                 clock, crashes>>

\* A fork the processor found itself is recorded at once; for one that came
\* from a peer both blocks are tried first.
TakeFork ==
  /\ thread = Idle /\ forkQueue # <<>>
  /\ forkQueue' = Tail(forkQueue)
  /\ LET f == Head(forkQueue)
     IN  IF f.local
         THEN /\ ProcessBlockFork(f.first, f.second)
              /\ UNCHANGED thread
         ELSE /\ thread' = [at |-> "first", first |-> f.first, second |-> f.second]
              /\ UNCHANGED <<forks, forkCount>>
  /\ UNCHANGED <<ledger, blocks, forced, stack, accounts, operation, queries,
                 gaps, clock, crashes>>

TryForkBlock ==
  /\ thread.at \in {"first", "second"}
  /\ ProcessBlock(thread[thread.at], TRUE, blocks)
  /\ thread' = [thread EXCEPT !.at = IF @ = "first" THEN "second" ELSE "fork"]
  /\ UNCHANGED <<forks, forced, stack, accounts, operation, queries, clock, crashes>>

RecordFork ==
  /\ thread.at = "fork"
  /\ ProcessBlockFork(thread.first, thread.second)
  /\ thread' = Idle
  /\ UNCHANGED <<ledger, blocks, forced, forkQueue, stack, accounts, operation,
                 queries, gaps, clock, crashes>>

-----------------------------------------------------------------------------
(* Forced operations.                                                      *)

Item(op, b) == [operation |-> op, block |-> b]

InLoop(o) == [at |-> "dynamic", operation |-> o]

\* ProcessBlockForced_: the answer to a query continues its operation, a
\* verdict of an election starts a new one.
TakeForced ==
  /\ thread = Idle /\ forkQueue = <<>> /\ forced # <<>>
  /\ forced' = Tail(forced)
  /\ LET f == Head(forced)
         o == f.operation
         a == Block[f.block].account
     IN  \/ /\ o \in DOMAIN stack
            /\ stack' = [stack EXCEPT ![o] = Front(@) \o <<[Last(@) EXCEPT !.block = f.block]>>]
            /\ accounts' = [accounts EXCEPT ![o] = @ \cup {a}]
            /\ thread' = InLoop(o)
            /\ UNCHANGED operation
         \/ /\ o >= DYNAMIC_BEGIN /\ o \notin DOMAIN stack
            /\ UNCHANGED <<stack, accounts, thread, operation>>
         \/ /\ o \in {APPEND, CONFIRM}
            /\ stack' = [p \in DOMAIN stack \cup {operation} |->
                           IF p = operation THEN <<Item(o, f.block)>> ELSE stack[p]]
            /\ accounts' = [p \in DOMAIN accounts \cup {operation} |->
                              IF p = operation THEN {a} ELSE accounts[p]]
            /\ thread' = InLoop(operation)
            /\ operation' = operation + 1
  /\ UNCHANGED <<ledger, forks, forkCount, blocks, forkQueue, queries, gaps,
                 clock, crashes>>

Running == IF thread.at = "dynamic" THEN {thread.operation} ELSE {}

Top(o) == Last(stack[o])

Pop(o) == stack' = [stack EXCEPT ![o] = Front(@)]

\* The block pushed may belong to another account.
Push(o, op, b) ==
  /\ stack' = [stack EXCEPT ![o] = @ \o <<Item(op, b)>>]
  /\ accounts' = [accounts EXCEPT ![o] = @ \cup {Block[b].account}]
  /\ UNCHANGED <<ledger, forkCount, blocks, queries, gaps, thread>>

\* Mutant: the loop is left and no query is made.
WaitSilently(o, hash) ==
  /\ stack' = [stack EXCEPT ![o] = @ \o <<Item(APPEND, NoBlock)>>]
  /\ thread' = Idle
  /\ UNCHANGED <<ledger, forkCount, blocks, queries, gaps, accounts>>

\* Query a missing block and leave the loop until it arrives.
Wait(o, hash) ==
  /\ stack' = [stack EXCEPT ![o] = @ \o <<Item(APPEND, NoBlock)>>]
  /\ queries' = queries \cup {[operation |-> o, hash |-> hash]}
  /\ thread' = Idle
  /\ UNCHANGED <<ledger, forkCount, blocks, gaps, accounts>>

\* An error no sub-operation can repair ends the whole operation.
Fail(o) ==
  /\ stack' = [stack EXCEPT ![o] = <<>>]
  /\ UNCHANGED <<ledger, forkCount, blocks, queries, gaps, thread, accounts>>

Skip(o) ==
  /\ Pop(o)
  /\ UNCHANGED <<ledger, forkCount, blocks, queries, gaps, thread, accounts>>

DynamicAppend(o) ==
  LET b == Top(o).block
      code == AppendCode(ledger, b, clock)
  IN  \/ /\ code = "SUCCESS"
         /\ ledger' = AppendBlock(ledger, b)
         /\ forkCount' = AppendForkCount(b)
         /\ QueueGapCaches(b)
         /\ Pop(o)
         /\ UNCHANGED <<queries, thread, accounts>>
      \/ /\ code \in {"PREVIOUS", "GAP_PREVIOUS", "TYPE_MISMATCH"}
         /\ IF Block[b].height = 0 THEN Fail(o) ELSE Wait(o, Block[b].previous)
      \/ /\ code \in {"GAP_RECEIVE_SOURCE", "GAP_REWARD_SOURCE"}
         /\ Wait(o, Block[b].link)
      \/ /\ code = "FORK"
         /\ Push(o, ROLLBACK, BlockAt(ledger, Block[b].account, Block[b].height))
      \/ code = "EXISTS" /\ Skip(o)
      \/ /\ code \notin {"SUCCESS", "PREVIOUS", "TYPE_MISMATCH", "FORK", "EXISTS"}
                         \cup GapKinds
         /\ Fail(o)

DynamicRollback(o) ==
  LET b == Top(o).block
      code == RollbackCode(ledger, b)
      HeadOf(a) == ledger.info[a].head
  IN  \/ /\ code = "SUCCESS"
         /\ ledger' = RollbackBlock(ledger, b)
         /\ Pop(o)
         /\ UNCHANGED <<forkCount, blocks, queries, gaps, thread, accounts>>
      \/ code = "ROLLBACK_IGNORE" /\ Skip(o)
      \/ code = "ROLLBACK_NON_HEAD" /\ Push(o, ROLLBACK, ledger.successor[b])
      \/ /\ code = "ROLLBACK_REWARDED"
         /\ Push(o, ROLLBACK, HeadOf(Block[Block[b].previous].rep))
      \/ code = "ROLLBACK_RECEIVED" /\ Push(o, ROLLBACK, HeadOf(Block[b].link))
      \/ code = "ROLLBACK_SOURCE_PRUNED" /\ Wait(o, Block[b].link)
      \/ code = "LEDGER_INCONSISTENT" /\ Fail(o)

DynamicConfirm(o) ==
  LET b == Top(o).block
      code == ConfirmCode(ledger, b)
  IN  \/ /\ code = "SUCCESS"
         /\ ledger' = ConfirmBlock(ledger, b)
         /\ Pop(o)
         /\ UNCHANGED <<forkCount, blocks, queries, gaps, thread, accounts>>
      \/ code = "CONFIRM_BLOCK_MISS" /\ Push(o, APPEND, b)
      \/ code = "LEDGER_INCONSISTENT" /\ Fail(o)

\* One round of the loop of ProcessBlockDynamic_.
DynamicStep ==
  /\ \E o \in Running :
       /\ stack[o] # <<>>
       /\ \/ Top(o).operation = APPEND   /\ DynamicAppend(o)
          \/ Top(o).operation = ROLLBACK /\ DynamicRollback(o)
          \/ Top(o).operation = CONFIRM  /\ DynamicConfirm(o)
  /\ UNCHANGED <<forks, forced, forkQueue, operation, clock, crashes>>

\* Mutant: the forks above the head stay.
UpdateForksNot(touched) == UNCHANGED <<forks, forkCount>>

\* UpdateForks_: forks above the head go and the count is taken again.
UpdateForks(touched) ==
  LET stale == {f \in forks : /\ f.account \in touched
                              /\ \/ ledger.info[f.account] = NoInfo
                                 \/ f.height > ledger.info[f.account].headHeight}
  IN  /\ forks' = forks \ stale
      /\ forkCount' = [a \in Accounts |->
                         IF a \in touched
                         THEN Cardinality({f \in forks \ stale : f.account = a})
                         ELSE forkCount[a]]

\* The loop has emptied the stack.
FinishOperation ==
  /\ \E o \in Running :
       /\ stack[o] = <<>>
       /\ stack' = [p \in DOMAIN stack \ {o} |-> stack[p]]
       /\ accounts' = [p \in DOMAIN accounts \ {o} |-> accounts[p]]
       /\ UpdateForks(accounts[o])
  /\ thread' = Idle
  /\ UNCHANGED <<ledger, blocks, forced, forkQueue, operation, queries, gaps,
                 clock, crashes>>

-----------------------------------------------------------------------------
(* The environment: peers, elections, timers and crashes.                  *)

ReceiveBlock(b) ==
  /\ b \in Published
  /\ blocks' = Add(blocks, b)
  /\ UNCHANGED <<ledger, forks, forkCount, forced, forkQueue, stack, accounts,
                 operation, queries, gaps, thread, clock, crashes>>

ReceiveBlockFork(f) ==
  /\ f \in ForkMessages
  /\ forkQueue' = AddFork(forkQueue, f[1], f[2], FALSE)
  /\ UNCHANGED <<ledger, forks, forkCount, blocks, forced, stack, accounts,
                 operation, queries, gaps, thread, clock, crashes>>

\* Elections end with ForceConfirmBlock, fork elections may ask for
\* ForceAppendBlock before.
Verdicts == {i \in DOMAIN forced : forced[i].operation \in {APPEND, CONFIRM}}

ForceBlock(op, b) ==
  /\ operation - DYNAMIC_BEGIN + Cardinality(Verdicts) < MaxForced
  /\ b \in Elected
  /\ forced' = forced \o <<[operation |-> op, block |-> b]>>
  /\ UNCHANGED <<ledger, forks, forkCount, blocks, forkQueue, stack, accounts,
                 operation, queries, gaps, thread, clock, crashes>>

\* Mutant: the query goes on after its answer.
QueryCallbackTwice(q) ==
  /\ q \in queries /\ q.hash \in Blocks
  /\ forced' = forced \o <<[operation |-> q.operation, block |-> q.hash]>>
  /\ UNCHANGED <<ledger, forks, forkCount, blocks, forkQueue, stack, accounts,
                 operation, queries, gaps, thread, clock, crashes>>

\* QueryCallback_: a peer answered with the block.
QueryCallback(q) ==
  /\ q \in queries /\ q.hash \in Blocks
  /\ queries' = queries \ {q}
  /\ forced' = forced \o <<[operation |-> q.operation, block |-> q.hash]>>
  /\ UNCHANGED <<ledger, forks, forkCount, blocks, forkQueue, stack, accounts,
                 operation, gaps, thread, clock, crashes>>

\* Node::AgeGapCaches drops what waited too long.
AgeGapCaches ==
  /\ \E k \in GapKinds : \E e \in gaps[k] :
       gaps' = [gaps EXCEPT ![k] = @ \ {e}]
  /\ UNCHANGED <<ledger, forks, forkCount, blocks, forced, forkQueue, stack,
                 accounts, operation, queries, thread, clock, crashes>>

\* The clock goes on, or is set.
SetClock(now) ==
  /\ <<clock, now>> \in ClockSteps
  /\ clock' = now
  /\ UNCHANGED <<ledger, forks, forkCount, blocks, forced, forkQueue, stack,
                 accounts, operation, queries, gaps, thread, crashes>>

\* Mutant: the weights are not rebuilt.
CrashWithoutWeights ==
  /\ crashes < MaxCrashes
  /\ crashes' = crashes + 1
  /\ ledger' = [ledger EXCEPT !.weight = [a \in Accounts |-> 0], !.totalWeight = 0]
  /\ blocks' = <<>> /\ forced' = <<>> /\ forkQueue' = <<>>
  /\ stack' = <<>> /\ accounts' = <<>>
  /\ queries' = {} /\ gaps' = [k \in GapKinds |-> {}]
  /\ thread' = Idle
  /\ UNCHANGED <<forks, forkCount, operation, clock>>

\* The process dies between two transactions and starts again: the database
\* survives, queues, stacks and caches do not.  The code numbers operations
\* from DYNAMIC_BEGIN again; none of the earlier ones survives, so the model
\* goes on counting and keeps their numbers apart.
Crash ==
  /\ crashes < MaxCrashes
  /\ crashes' = crashes + 1
  /\ ledger' = InitMemoryTables(ledger)
  /\ blocks' = <<>> /\ forced' = <<>> /\ forkQueue' = <<>>
  /\ stack' = <<>> /\ accounts' = <<>>
  /\ queries' = {} /\ gaps' = [k \in GapKinds |-> {}]
  /\ thread' = Idle
  /\ UNCHANGED <<forks, forkCount, operation, clock>>

Processor ==
  TakeBlock \/ TakeFork \/ TryForkBlock \/ RecordFork \/ TakeForced
  \/ DynamicStep \/ FinishOperation

Environment ==
  \/ \E b \in Blocks : ReceiveBlock(b)
  \/ \E f \in ForkMessages : ReceiveBlockFork(f)
  \/ \E op \in {APPEND, CONFIRM}, b \in Blocks : ForceBlock(op, b)
  \/ AgeGapCaches
  \/ \E now \in Clocks : SetClock(now)
  \/ Crash

Answer == \E q \in queries : QueryCallback(q)

Next == Processor \/ Answer \/ Environment

\* The thread never sleeps while it has work, and some peer answers a
\* query in the end (see BlockQueries).
Spec == Init /\ [][Next]_vars /\ WF_vars(Processor) /\ WF_vars(Answer)

-----------------------------------------------------------------------------
(* Properties.                                                             *)

\* The processor implements the ledger machine: whatever the queues, the
\* stacks and the crashes do, every transaction it commits is a legal
\* append, rollback, confirmation or restart of the whole ledger.
Machine == INSTANCE LedgerMachine

LedgerImplemented == Machine!Spec

\* An operation outside the loop waits for exactly one block: the top of its
\* stack is empty and exactly one query or one queued answer will fill it.
\* (ProcessBlockForced_ overwrites the top of the stack with any answer.)
Pending(o) ==
  Cardinality({q \in queries : q.operation = o})
  + Cardinality({i \in DOMAIN forced : forced[i].operation = o})

OneAnswerPerWait ==
  \A o \in DYNAMIC_BEGIN..operation :
    IF o \in DOMAIN stack \ Running
    THEN /\ Pending(o) = 1
         /\ Top(o) = Item(APPEND, NoBlock)
         /\ \A i \in 1..Len(stack[o]) - 1 : stack[o][i].block # NoBlock
    ELSE Pending(o) = 0

\* Without crashes, forks_ of an account no running operation touched is the
\* number of its recorded forks, all of them at heights the chain has.
ForksExact ==
  \A a \in Accounts :
    (a \notin UNION {accounts[o] : o \in DOMAIN accounts}) =>
      /\ ledger.info[a] # NoInfo => forkCount[a] = Cardinality(ForksOf(a))
      /\ \A f \in ForksOf(a) :
           ledger.info[a] # NoInfo /\ f.height <= ledger.info[a].headHeight

\* A block in a gap cache is really waiting: the block it misses is not in
\* the ledger.  Otherwise it would stay there until it is aged out, although
\* it could be processed.
GapsMissing ==
  \A k \in GapKinds : \A e \in gaps[k] : e.hash \notin ledger.stored

\* A stored block is tainted when it is not canonical or builds on one that
\* is not: on its predecessor, on the send it receives, or on the block that
\* released the reward it claims.
BuildsOn(L, b) ==
  IF b = Genesis THEN {}
  ELSE {Block[b].previous}
       \cup (IF Block[b].opcode = "RECEIVE" THEN {Block[b].link} ELSE {})
       \cup (IF Block[b].opcode = "REWARD" THEN {L.successor[Block[b].link]} ELSE {})

\* T contains what is not canonical and what builds on a member of T.
Spreads(L, T) ==
  /\ L.stored \ Canonical \subseteq T
  /\ \A b \in L.stored : BuildsOn(L, b) \cap T # {} => b \in T

Tainted(L) == {b \in L.stored : \A T \in SUBSET L.stored : Spreads(L, T) => b \in T}

\* Forcing canonical blocks into the ledger rolls back only what builds on
\* a block that is not canonical.
OnlyTaintedRolledBack ==
  [][\A b \in ledger.stored \ ledger'.stored : b \in Tainted(ledger)]_vars

\* A forced operation on canonical blocks is abandoned only over a reward,
\* whose amount depends on a block nobody queries, or over a block that is
\* dated too far ahead of the clock of the node at that moment.
OnlyRewardsOrDatesFail ==
  [][\A o \in Running :
       (o \in DOMAIN stack' /\ Len(stack[o]) > 0 /\ stack'[o] = <<>>) =>
          \/ Len(stack[o]) = 1 /\ Top(o).block \in ledger'.stored
          \/ Block[Top(o).block].opcode = "REWARD"
          \/ /\ Top(o).operation = APPEND
             /\ Block[Top(o).block].time > clock + MAX_TIMESTAMP_DIFF]_vars

\* Every forced operation ends, whatever blocks arrive in the meantime, unless
\* fork messages, which the thread serves first, never cease.
OnlyLocalForks == \A i \in DOMAIN forkQueue : forkQueue[i].local

OperationsEnd ==
  <>[]OnlyLocalForks =>
    \A o \in DYNAMIC_BEGIN..DYNAMIC_BEGIN + MaxForced :
      o \in DOMAIN stack ~> o \notin DOMAIN stack

=============================================================================
