# TLA+ verification of Raicoin

Raicoin is a cryptocurrency in which every account owns a chain of blocks.
Nodes exchange blocks over UDP, representatives vote on blocks, and a node
makes the blocks that win their elections part of its ledger, rolling back
whatever stands in the way. Applications follow the node's ledger and keep
ledgers of their own, of which the token application with its swaps is the
largest. This directory holds TLA+ models of that core, the TLC configurations
that check them on small instances, and TLAPS proofs of what matters most.
`PROJECT.json` lists, in machine-readable form, the components, the runs, the
source lines every definition stands for, the hazards of the code and the
theorems.

To check a run: `tlc -workers 2 -config <cfg> <MC module>`; to check proofs:
`tlapm <module>.tla` for `FiniteSums`, `LedgerProofs`, `LedgerMachineProofs`,
`BlockProcessorProofs`, `ComponentProofs`, `SyncerProofs`, `AppProofs` and
`TokenProofs` (half a minute to ten minutes each).

## 1. Inventory

### The parts of the node

| Component | State | Operations | Talks to |
|---|---|---|---|
| **Ledger** (`rai/secure/ledger.cpp`) | LMDB tables: blocks with successors, account infos, receivables, rewardables, forks, bindings, rolled-back blocks; representative weights in memory | table reads and writes inside a transaction; `InitMemoryTables` at start | called by everything |
| **Block processor** (`rai/node/blockprocessor.cpp`) | queues `blocks_`, `blocks_forced_`, `blocks_fork_`; stacks `blocks_dynamic_` and `accounts_dynamic_` of forced operations | append, rollback, confirm, drop, fork handling, forced (dynamic) operations | the only writer of the ledger; observers notify elections, gap caches, syncer, rewarder, subscriptions |
| **Gap caches** (`gapcache.cpp`) | three bounded sets of blocks that wait for another block | insert, query by missing hash, remove, age | filled by the processor, emptied when the missing block is appended |
| **Confirm manager** (`node.cpp`) | last vote per (account, height) | date a vote (`GetTimestamp`), age | several network threads call it |
| **Elections** (`election.cpp`) | one election per account: blocks with reference counts, votes, proofs of conflict, round counters; slots `actives_` and `forks_` | add, process confirm, process conflict, tally, confirm or give up | forces operations on the processor; asks representatives for votes |
| **Block queries** (`blockquery.cpp`) | table of open queries | add, send, time out, process answers | the processor and the syncer wait for its callbacks |
| **Node** (`node.cpp`) | observers, timers, message handlers | feeds messages into the parts above | everything |
| **Peers** (`peer.cpp`) | peers by account and address, cookies, proxies | handshake, keep-alive, purge | queried by elections and queries |
| **Syncer** (`syncer.cpp`) | one synchronisation per account | add, query callback, processor result | queries, processor, bootstrap |
| **Bootstrap** (`bootstrap.cpp`) | client and server sessions over TCP | rounds of account and fork exchange | syncer |
| **Rewarder** (`rewarder.cpp`) | schedule of rewards, receives, credits, binds | build and publish blocks of the node's own account | processor observer |
| **Validator link** (`validator.cpp`) | epochs, weight snapshots, forwarded messages | queries and relays | external validator process |

### The parts of the applications

| Component | State | Operations | Talks to |
|---|---|---|---|
| **Application framework** (`rai/app`) | chains with a confirmed height, action queue with priorities, block cache, waiting blocks, confirmation requests, open queries | process a block, roll back, wait, pull the next block, bootstrap rounds | the node, through notifications and requests over a gateway |
| **Token application** (`rai_token/token.cpp`) | tokens, identifiers, balances, receivables, orders, swaps, waiting inquiries and takes, supplies of other chains | one handler per block extension, settlement by height, events of other chains | called by the framework for each block |
| **Swap helper** (`rai_token/swaphelper.cpp`) | take-nack blocks with their deadlines | read the maker's record, publish, purge | a thread of its own beside the application |

Beside these the repository has an alias application, a wallet, an airdrop
client and Python processes for validators and the wallet gateway.
`PROJECT.json` lists all of them with the reason why they are not modelled yet
or will not be.

### What is hard in this code

* **Derived tables.** A block carries the whole state of its account, and
  append and rollback are two long, separately written case analyses that must
  be inverses of each other on seven tables.
* **Forced operations.** A verdict of an election is executed by a stack of
  sub-operations, each of them a database transaction of its own. Other queues
  are served while an operation waits for a block from the network; two
  operations can work against each other; a crash can fall between any two
  transactions.
* **Two threads, one query.** The query thread takes a query out of the table,
  releases the mutex and puts it back; an answer can arrive in between.
* **Votes.** Votes are lost, repeated and reordered; a representative that
  contradicts itself within an interval is excluded; votes age; blocks in an
  election are reference counted. The time of a vote is read before the mutex
  is taken.
* **Limits.** Bounded queues, gap caches, fork tables and election slots drop
  or evict entries.
* **Work between critical sections.** The syncer releases its mutex between
  the callback of a query, the call of the processor and the processor's
  result; results are delivered by background calls in any order, and the
  bootstrap decides by the same tables whether a round is over.
* **Following a chain over a lossy link.** An application appends blocks before
  they are confirmed and learns of rollbacks and confirmations late, in another
  order or not at all.
* **Settlement by height.** A swap is settled by what another account's chain
  has at an agreed height, so blocks of three accounts must be taken in an
  order that no single account decides.

The hazards, each at its source line, are in `PROJECT.json` (40 at the moment);
those no property covers have a note saying why.

## 2. Modules and their correspondence to the code

| Module | Models | Uses |
|---|---|---|
| `Ledger` | the ledger and the three transactions as operators on a ledger value | |
| `LedgerLaws` | what the ledger properties and proofs speak of: chains, takers, circulation, the block that holds up a rollback | extends `Ledger` |
| `LedgerMachine` | abstract specification: one legal transaction per step, in any order; ledger properties | extends `LedgerLaws` |
| `FiniteSums` | proofs: sums over finite sets | |
| `LedgerProofs` | proofs: what each transaction does to the chains and to the tables, for one ledger value | extends `LedgerLaws` |
| `LedgerMachineProofs` | proofs: the properties of `LedgerMachine` | extends `LedgerMachine`, `LedgerProofs`, `FiniteSums` |
| `BlockProcessor` | queues, thread, gap caches, forks, forced operations, crashes | extends `Ledger`, instantiates `LedgerMachine` (refinement) |
| `Voting` | `ConfirmManager` called by several threads | |
| `BlockProcessorProofs` | proofs: the refinement and the properties of `BlockProcessor`, and the properties of `Voting` | extends `BlockProcessor`, `LedgerProofs`, `Voting` |
| `Elections` | elections of all accounts, votes, conflicts, slots | |
| `BlockQueries` | the query table, its threads and unreliable messages | |
| `ComponentProofs` | proofs: the properties of `Elections`, `BlockQueries` and `SwapHelper`, which share no state | extends the three and `FiniteSums` |
| `Syncer` | the syncer and the bootstrap's rounds; processor and peers reduced to what the syncer sees | |
| `SyncerProofs` | proofs: the safety properties of `Syncer` | extends `Syncer` |
| `App` | the application framework behind a lossy link to a node | |
| `AppProofs` | proofs: what the application holds for confirmed | extends `App` |
| `TokenLedger` | the token tables and the handlers of create, mint, burn, send, receive, unmap, wrap and events of other chains, as operators on a value | |
| `TokenSwap` | orders and swaps: their tables, handlers and settlement | extends `TokenLedger` |
| `TokenMachine` | the token application: one action per kind of block or event, confirmed or not, with waiting and rollback | extends `TokenSwap`, instantiates `SwapLife` (refinement) |
| `SwapLife` | abstract specification: the life of a swap, without tokens | |
| `TokenProofs` | proofs: swaps settled in time, and the refinement of `SwapLife` | extends `TokenMachine`, `FiniteSums` |
| `SwapHelper` | the helper's thread beside the application | extends `SwapLife` |
| `MC...` | worlds of blocks, votes and answers for TLC | |

**Ledger.** A block is identified with its hash; `Block[b]` gives its fields
and stays what it is. `AppendCode(L, b)` is the sequence of checks of
`AppendBlock_` with its error codes in order, per opcode, and `AppendBlock(L,
b)` its writes; `RollbackCode`/`RollbackBlock` and `ConfirmCode`/`ConfirmBlock`
likewise. Amounts are small naturals (subtractions of the code are guarded by
comparisons, which are modelled; 128-bit wrap-around is not reached), times
are integers in units of a quarter of a day, a signature is valid or not. What
the chain of a BIND says is abstracted to its being well formed.

**BlockProcessor.** One action per step of the thread that commits a
transaction: `TakeBlock`, `TakeFork`/`TryForkBlock`/`RecordFork`,
`TakeForced`, `DynamicStep`, `FinishOperation`. `thread` holds what the loop is
in the middle of. `QueryCallback` is the lambda of `QueryCallback_`,
`ReceiveBlock`, `ReceiveBlockFork`, `ForceBlock` and `AgeGapCaches` are the entry
points other threads use, and `Crash` loses the memory and rebuilds the
weights. Observers are part of the action that calls them (gap caches are
looked up in the same step). Nothing in the repository creates a chain whose
tail is above height 0, so prepending and the `PRUNED` paths cannot be reached
and are left out. `clock` is what `rai::CurrentTimestamp` returns: `SetClock` moves it
at any time along `ClockSteps`, and `CheckCommon` refuses a block dated before the
epoch or more than `MAX_TIMESTAMP_DIFF` ahead of it. In `LedgerMachine`, where nothing else
depends on the time, an append reads any of the `Clocks`.

**Voting.** A call of `GetTimestamp` is two actions, because the clock is read
before the mutex is taken: `Call` and `GetTimestamp`. `MaxLag` bounds the age of the
reading, in seconds. `Age` runs at any time.

**Elections.** `AddSome` is `Add` with one or two blocks, `ProcessConfirm`
and `ProcessConflict` take any vote or pair of votes that was ever signed (lost,
repeated, late), `UpdateWeightInfo` reads the weights anew, `ProcessElection` is
one round of the thread for an account: slots, tally, verdict, cutoff. When a
round is due (`wakeup_`) and to whom requests go is left open.
Outdated votes are purged one after the other; `votes_` is unordered and the last
block of an election is never removed, so the model lets any of the blocks that
would go be the one that stays.
`counts` is a history variable: the counts of the current contest.

**BlockQueries.** `held[t]` is the query a thread took out of the table.
`QueryByHash` issues a query, `Run` takes one out after a timeout, `ProcessQueryAck`
takes one out for an answer that matches it, `Callback` hands the answer on,
`SendQuery` sends the next request, `Insert` puts the query back, and `acks` holds the
answers under way, which are never removed: they may arrive late, several times, or never.

**Syncer.** The bag `pending` holds what some thread has still to do: a query
to be issued, a query under way, an answer to be processed, a related account to be
started, a result of the processor to be delivered. Every action takes one item,
does what the code does under the mutex (or in one read transaction) and leaves
the next items behind, so all interleavings of threads and all orders of results
are there. `BlockProcessor::Add` at the end of `QueryCallback` and the
`EraseQuery` after it are one step: nothing reads both in between.
Reading an account's head and the `Add` that follows are one step too: an `Add` with
an older head asks for a block that is already there, and the result `EXISTS` takes
the synchronisation to where it would have been.
The processor appends, drops, caches and reports (its real behaviour is
`BlockProcessor`), an election of a fork ends with a forced operation for the
canonical block, peers answer from the canonical chains or lag. `StartSync`,
`EndRound`, `FailRound` and `Wait` are the bootstrap's thread. After the initial rounds
every round is a full one here; light rounds, which only cover recently changed
accounts, come in between.

**App.** The node is external: it appends, rolls back and confirms. Its
notifications are a set from which the model may drop any subset and take any
member, so they are lost and reordered. `Run` takes the first action of the highest
priority and is `ProcessBlock` or `ProcessBlockRollback` as a whole, with the
background calls it makes (pulling the next block, waiting, queueing what waited).
A request and its answer are one step: between them only the node moves, and the
answer is taken from the node as it is then. `queries_` and `pendings_` of
`AppBlockQueries` are one table. `Strict` and `Needs` stand for what an
application's `PreBlockAppend` and `AfterBlockAppend` ask for. A bootstrap round
starts when nothing is queued and no query is open.

**TokenLedger, TokenSwap, TokenMachine.** A handler is an operator from the tables
to the tables, with the checks in the order of the code; a check that fails leaves
only the block recorded with its error, as `UpdateLedgerCommon_` does. `fault` records
the branches the code takes for a ledger that contradicts itself
(`APP_PROCESS_HALT`, `..._UNEXPECTED`), and `NeverInconsistent` says that they are
not reached. `head` and `confirmed` are the heights of each account's chain in the
application; `There`, `WaitBlock` and `WaitBlockIfExist` are guards: a block that
has to wait is simply not taken yet (that waiting blocks are taken up in the end
is the matter of `App`). `AppendUnconfirmed` is what `PreBlockAppend` lets in before
confirmation: blocks without a token extension at heights where nothing is to be
settled, which `RollbackBlock` may take back. Values are naturals below `VALUES`; the
supplies of other chains are what their contracts hold, external to the repository.

**SwapLife** keeps of all this only the status of each swap, the deal (maker and
height of the trade) and the heights. `TokenMachine` implements it with
`Life == INSTANCE SwapLife WITH ...` (its `Parties` are the accounts): the deal is read from the swap record once the
inquiry is answered, and orders, balances and receivables disappear.
**SwapHelper** runs beside `SwapLife` rather than beside the tables: the helper reads
nothing but the maker's heights and writes nothing the swaps depend on.

## 3. Runs

| Run | Module | Shows |
|---|---|---|
| `ledger` | `MCLedger` | all orders of appending, rolling back and confirming blocks with a double spend, receives, rewards, airdrop accounts, credit, destruction and bindings, with restarts: `TypeOK`, `ChainIntact`, `WeightsExact`, `ValueConserved`, `ReceivedOnce`, `RewardedOnce`, `BindingsExact`, `RollbackUndoesAppend`, `RollbackWellFounded` |
| `processor_operations` | `MCBlockProcessor` | two forced operations, blocks at queues of length 1, a clock that lags and catches up, and a crash: `OneAnswerPerWait`, `OnlyTaintedRolledBack`, `OnlyRewardsOrDatesFail`, and `LedgerImplemented`, the refinement of `LedgerMachine` |
| `processor_forks` | `MCBlockProcessor` | more forks than the account may record: `GapsMissing`, `ForksExact`, and `OperationsEnd` (liveness) |
| `voting` | `MCVoting` | two threads vote for two competing blocks: `TypeOK`, `NoConflict` |
| `elections_votes` | `MCElections` | a contested election under late and repeated votes, ageing and changing weights: `VotedBlocksKept`, `ExcludedWithProof`, `ExclusionLasts` |
| `elections_slots` | `MCElections` | three accounts, two of them contested and voted on, compete for one slot of each kind while their representative comes and goes: `SlotsSound`, `SteadyVerdict`, and `UncontestedEnds` (liveness) |
| `queries` | `MCBlockQueries` | a query races timeouts, late, repeated and lost answers: `NeverLost`, and `EveryQueryAnswered` (liveness) |
| `syncer` | `MCSyncer` | two chains, one of which needs the other, are synchronised while peers lag, blocks are dropped, rounds fail and others send blocks: `SyncsServed`, `BatchStaysOpen`, and `EventuallySynced` (liveness) |
| `app` | `MCApp` | an application follows a forking node, with losses, ageing and a restart: `ConfirmedFollows`, and `CatchesUp` (liveness) |
| `token_supply` | `MCToken` | a fungible and a non-fungible token, transfers and crossings: `SupplyConserved`, `IdInOnePlace`, `HoldersExact` |
| `token_swap` | `MCToken` | swaps of a taker with a maker and its main account, blocks in any order, unconfirmed blocks and rollbacks: `SupplyConserved`, `SettledInTime`, `NeverInconsistent`, and `SwapLifeImplemented`, the refinement of `SwapLife` |
| `swap_helper` | `MCSwapHelper` | the helper's thread against a moving ledger, with a restart and lost publications: `NacksKept`, and `NackedTakesSettle` (liveness) |

Type invariants are stated where theorems rest on them (`LedgerMachine`,
`Voting`). Every property has a mutant of the code model (a dropped guard, a missing reset, a swapped order)
under which TLC finds it violated; the mutants stand before the definition
they replace and are marked as such.

### Bounds and why they suffice

* **Worlds of blocks.** Each contains, in the smallest form, what its run is
  about: two versions of a block that both were received, a chain of receives that
  a rollback must unwind, rewards that depend on the order of two chains, every
  opcode of every block type. The syncer's world has a fork, and
  a reward that needs its source and the block after it; the application's world has a
  fork with a block on one branch, and a block that waits for another account.
* **Queues of length 1, gap caches of 2 with 1 per account, an allowance
  of 0 recorded forks**: the limits are met at once.
* `MaxForced` (1 or 2) forced operations: two are needed for operations to
  undo each other's work. `MaxCrashes` (0 or 1): crashes leave nothing in memory,
  so a second one adds only a second start.
* `Clocks` holds one or two readings, `MAX_TIMESTAMP_DIFF` is 3: with the smaller reading
  some canonical blocks are dated too far ahead, with the larger one none is. A third would
  only refuse other blocks in the same way. `ClockSteps` lets it go forwards; the theorems hold
  for a clock that is set back as well. `EpochTimestamp` is 8; block times count from it.
* `MaxNow`, `MaxRounds`, `MaxAdds` bound time, rounds that are told apart and
  the number of elections started; thresholds of the code are scaled down so
  that they are crossed within the bounds. `MaxCount` in `BlockQueries` saturates.
* `MaxLag` is 1: the reading of a clock in seconds and its use a few
  instructions later. With a lag of a whole interval `NoConflict` would be false;
  the theorem states the bound as an assumption.
* `Syncer`: two initial rounds instead of three (the third repeats the second), two misses
  instead of five, one fault (a lagging peer, a drop, a failed round or a block from
  others) at any moment. `MaxPending` 2 keeps the bootstrap and the ageing of gap
  caches from starting an account while more than one piece of work is
  pending, as rounds are minutes and ageing seconds apart; background calls are not
  bounded.
* `App`: one rollback of the node, one fault (a restart or an entry aged out), one
  notification under way and one queued action when a message is taken from the link.
* `MCToken`: heights up to 5, values up to 3. In the swap run the trade is at
  height 4 of the maker and the answer at height 0 or 1 of its main account, so blocks
  before, at and after each agreed height occur, and the taker can inquire twice. The
  cap of a supply and the circulable flag are met in the supply run.
* `SwapHelper`: two swaps of one taker with the same maker, one restart.
* `VIEW WithoutArchive` drops the archive of rolled-back blocks, which is
  written and never read. Symmetry is used only in `voting`, over threads and
  hashes, which checks safety only.
* Deadlock is checked in the ledger, processor and syncer runs. It is off where
  bounded time, bounded heights or a finite supply of messages may legitimately end
  the behaviour.

### Fairness

* `BlockProcessor`: weak fairness of the thread, which sleeps only when all
  queues are empty, and of answers to queries; the latter is what
  `EveryQueryAnswered` of `BlockQueries` shows. No fairness of the environment:
  messages may never come, nodes need not crash. `OperationsEnd` has a premise: fork
  messages, which the thread serves before operations, cease in the end.
* `Elections`: weak fairness of each account's round; the thread returns to
  every election in the order of `wakeup_`.
* `BlockQueries`: strong fairness of timeouts (a query is put back with a new
  timer), of satisfied answers, and of asking a peer that has the block: peers
  are chosen at random, so a peer that stays is asked again and again, and its
  answer cannot be lost forever. Weak fairness of a thread's work in progress.
* `Syncer`: weak fairness of threads doing some pending work, of the processor taking
  some block, of queries ending (`EveryQueryAnswered`), of the bootstrap's rounds and of
  verdicts on forks. No fairness for a single account or piece of work is needed. The last one is an assumption on
  the network: representatives vote. Faults and messages of others are not fair.
* `App`: weak fairness of the action thread, of bootstrap rounds (a timer), of
  answers to requests, and of the node confirming a block that it was asked about.
  Notifications need not arrive at all: `CatchesUp` rests on rounds and requests.
* `SwapHelper`: weak fairness of time, of the helper's second step and of the
  application's queue; strong fairness of reading each entry (entries are served in the
  order of their times) and of a published block being confirmed when it can follow the
  maker's head, since it is published again and again.

## 4. Proofs

All proofs are checked completely by tlapm with Z3, Zenon and LS4. Every theorem
holds for all sets of accounts, blocks, representatives, threads and queries and
for all limits the named assumptions allow. Those are the `ASSUME`s of the
component modules, which TLC evaluates on every instance: hashes differ from the
zero hash and from account numbers, opcodes fit their types, the genesis block opens
its account, accounts are finitely many (`Ledger`); ballots of honest
representatives do not contradict each other (`Elections`, shown by `Voting`); what
the network agreed on has one block per position and with a block what it names
(`BlockProcessor`); the network's chains are chains, and heights and predecessors of
blocks fit (`Syncer`, `App`); the token application starts without orders and swaps
(`TokenMachine`).

**`FiniteSums`.** What a sum over a finite set does when a member is added,
removed or changed. The library's induction over finite sets takes an operator and
cannot be used by the provers, so each lemma argues with a smallest counterexample:
a set of subsets of a finite set has a minimal member.

**`LedgerProofs`** is about one ledger value `L` and one transaction.
`ChainInv(L)`: the stored blocks of every account are a chain, linked both ways, from
height 0 to the head, and `head`, `headHeight` and the successor table have their
types. `TablesInv(L)` adds that the tables hang on the chains: for each block, its
receivable entry is there or exactly one stored block took it (`Receivable`), the same for
rewards (`Rewardable`), bindings and their counts are those of the stored bind
blocks and within what the credit allows (`BoundInv`). Appends, rollbacks,
confirmations and restarts preserve both; neither part is inductive alone, since an append
trusts the tables that earlier blocks left, and a rollback restores entries from
what the chain says. From it follows `RollbackSoundness`: a stored block can be rolled
back, or another stored block holds it up, or it is genesis.

**`LedgerMachineProofs`** (all properties of `LedgerMachine` except the recursive one).
`ChainsStayIntact`, `SendsReceivedOnce`, `RewardsClaimedOnce`, `BindingsStayExact`,
`RollbacksSound` and `NoBlockForgotten` follow from `TablesInv`. The sums need more:
`SoundInv` says that each stored block is paid for by its predecessor and its source,
`WeightInv` that the weights are the sums over the heads, `Balanced` that what circulates,
with what credit and destruction consumed, is the genesis balance and the rewards;
a transaction changes one summand on each side (`WeightsStayExact`,
`ValueStaysConserved`, and `TypesKept`, in which no subtraction goes below zero).
`RollbackInverts` shows that the tables are a function of the chains
(`ChainsDetermineTables`) and that rolling back what was just appended restores the
chains. `RollbacksNeverCircular`: the order of appending is a rank (`Ranked`) that
grows from a block to the ones that build on it, and what holds up a rollback
ranks later; so every set of stored blocks has one that nothing in the set holds up.

**`BlockProcessorProofs`.** `Base` (types of the queues, shape of the stacks: blocks
only, with one hole on top exactly when the operation waits, and `TablesInv` of the ledger)
is inductive and carries the others.
* `ProcessorImplementsLedger`: `Spec => LedgerImplemented`. Only four actions touch the
  ledger, each as a transaction of the machine, whose operators are shown to be the
  processor's. All theorems about `LedgerMachine` therefore hold in the node.
* `AnswersMeetWaits` (`OneAnswerPerWait`), with `AnswerInv`: one query or one queued answer
  per waiting operation, none for others.
* `WaitingBlocksMiss` (`GapsMissing`), for worlds in which every block fits the
  predecessor it names (section 5 says what happens otherwise).
* `ForkCountsExact` (`ForksExact`), for behaviours without crashes: a crash in the
  middle of an operation does leave forks behind.
* `CanonicalBlocksStay` (`OnlyTaintedRolledBack`). `Tainted` is the least set of stored
  blocks that contains what is not canonical and what builds on a member. `CanonInv`
  says that a stack consists of canonical blocks to be appended or confirmed and, above
  them, of tainted blocks to be rolled back. The lemmas show that what holds up a tainted
  block is tainted (`BlockerTainted`, through the head of the chain that took something
  from it), and that nothing builds on a block that can be rolled back, so its removal
  leaves the taint of the others (`TaintStays`).

The module also holds the proofs about **`Voting`**, whose state is its own: `TypeCorrect`,
`LastVoteKept` and `NeverInConflict`: no two votes
dated by one representative are in conflict, provided a clock reading is at most a second
old when used. `NoConflict` is not inductive: it needs that the entry kept is
the latest vote (`LastVote`) and that calls in progress carry recent readings
(`FreshCalls`).

**`ComponentProofs`** is about three components that share no state.
* `Elections` (all its safety properties). The inductive invariant
  `IInv`: every block is referenced at least as often as votes and proofs name it (`Kept`);
  votes are signed, and the excluded are those for whom two contradicting votes are held
  (`Proven`); the count of consecutive confirmations is the length of the run at the end of
  the history of the election's turns, in which a turn without slot counts as none (`Steady`); slots are within their limits and held by elections of their kind
  (`SlotInv`, `Placed`). `VotedBlocksStay`, `ExclusionsProven`, `ExclusionsLast`,
  `VerdictsSteady`, `SlotsStaySound`.
* `BlockQueries`. `QueriesNeverLost` (`NeverLost`) and `AnsweredAtMostOnce`, from
  `OnePlace`: the table, the threads' hands and the finished queries are disjoint, and no
  two threads hold the same query.
* `SwapHelper`. `NackBlocksKept` (`NacksKept`), `TakesOpenBeforeTrade`,
  `DealsAndConfirmationsStay`. The invariant adds that the record the helper's thread read
  before it lost the mutex is never ahead of the ledger, and that a take is open only while the maker
  has no block at the height of the trade.

**`SyncerProofs`.** `SyncerServed` (`SyncsServed`) and `SyncerBatches` (`BatchStaysOpen`).
The inductive invariant gives for every account what its synchronisation has pending
(`Serves`): none without a synchronisation; exactly one question or query, with the
height, predecessor and batch of the synchronisation, while it asks; and while it waits
for a block, that block in the processor's queue or a result for it on the way. Each action
replaces one piece of work by others in the bag `pending` (`Moves`), so a lemma per
kind of replacement carries `Serves` over. A result for another block of the account, from
the block of another peer or from a forced operation, must leave the synchronisation as it
is: that is the case the property is about.

**`AppProofs`.** `AppFollows` (`ConfirmedFollows`): what the application holds for
confirmed agrees with the node's confirmed chain, and is never taken back. Neither follows
from the other tables alone: a confirmation is true when the node sends it and must still be
true when the application takes it up. `Informed` says so for every place in which one can
be kept (notifications, queued actions, waiting blocks): whatever is marked confirmed names a
block the node has confirmed (`Sure`), and the node never takes that back. `Grown` says that
both sides are chains, linked by predecessor and height; two chains with the same block at
a height agree below it (`ChainsAgree`), so confirming a height confirms the right prefix.

**`TokenProofs`.** `SwapsSettledInTime` (`SettledInTime`) and `SwapLifeRefined`
(`SwapLifeImplemented`). The inductive invariant `SwapInv`: every swap has its order, its
answer names a height of its maker, and the waiting tables hold exactly the open inquiries and
takes (`Sound`); none is open at or below the head that would settle it (`InTime`); the
heights booked in the tables are not above those of the chains (`HeightsSound`). A lemma per
handler says what it does to the swaps: nothing (`Quiet`, all transfers and crossings), or one
thing to one swap (`Asked`, `Acked`, `Took`, `Traded`). The purges of a block are folds over
the waiting entries; their lemmas argue with a smallest set for which the fold does not settle
exactly its members, and with the order in which the entries are taken, since a refund is written
under a key that two takes can share. `Fit` says that a step of the tables is one of the
swaps' life, `Lives` that its purges settle what `SwapLife` settles; the refinement is then a
matter of the mapping (`LifeStatus`, `LifeDeal`).

**Only model-checked.**
* Liveness (`OperationsEnd`, `UncontestedEnds`, `EveryQueryAnswered`, `EventuallySynced`,
  `CatchesUp`, `NackedTakesSettle`): fairness is out of the prover's reach.
* `RollbackWellFounded` follows the chain of obstacles with a recursive function;
  `RollbacksNeverCircular` proves its core, that the chain cannot close.
* `OnlyRewardsOrDatesFail`: needs a definition of a block valid for the canonical history,
  which the model's worlds give by example.
* `SupplyConserved`, `IdInOnePlace`, `HoldersExact` and `NeverInconsistent` of
  `TokenMachine`: they count over balances, identifiers, receivables, orders and swaps together,
  for every pair of token types; see the plan.

## 5. Observations made while modelling

None of these contradicts a statement of the repository; most are recorded as
hazards, with notes where no property covers them.

* `ConfirmManager` is not persisted: after a restart a representative can sign
  a vote that conflicts with one from its previous life within the interval.
* A forced operation whose appended block has the wrong type for its chain
  (`TYPE_MISMATCH`, possible only if the network elected such a block) loops.
* Forced operations are served after forks; a steady stream of fork messages
  can delay a queued one.
* The fork counter is corrected at the end of an operation, so a crash in
  between leaves fork entries above the head.
* A signed block that names as its predecessor a stored block at the wrong height or of
  another account is put into the gap cache for a block that is there, and stays until it is aged out.
  `WaitingBlocksMiss` excludes such blocks by hypothesis.
* A contested election has no cutoff; its slot can be taken away and returned
  in turn. Only a turn of the election that finds no slot clears its counts: when another
  account takes the slot and gives it back between two turns, the confirmations before and
  after add up (`TryConcurrency_` erases the account from `forks_` and nothing else).
  `SteadyVerdict` therefore speaks of the turns of the election.
* A forced operation on a canonical block is abandoned when the block is dated more than
  `MAX_TIMESTAMP_DIFF` ahead of the clock of the node; only another verdict or a
  synchronisation brings the block back.
* Query sequence numbers start anew after a restart; answers must match in other
  fields too.
* `Syncer::Finished` can be true while work of the batch goes on in two windows:
  between the end of a synchronisation whose source is missing and the query of that
  source, and before the synchronisation of a related account when the own query has
  ended. `BatchStaysOpen` excepts exactly these two. The node may then run one round
  early; later rounds make up for it (`EventuallySynced`).
* A forced operation reports to the syncer too. A result `CONTINUE` or `WAIT` for the
  very block that a synchronisation waits for ends it, and a related account is not
  started anew while an older result for it is undelivered.
* An application that missed the rollback notice of its last, unconfirmed block keeps
  it until another block of the account arrives.
* `PurgeTakeWaiting_` refunds under the key (taker, token, hash of the maker's block,
  output 0). Two takes of one taker that are due at the same block of the maker share
  that key, and the second refund replaces the first. `SupplyConserved` counts
  what is overwritten there as `lost`.
* A take-nack block does not decrement the number of active swaps of the taker.
* In the switch over the codes of a token handler, `APP_PROCESS_HALT` falls through
  to the code that drops the block: the application goes on after a ledger
  inconsistency. `NeverInconsistent` shows that the swap handlers do not get there.
* A wrap event of another chain without record is ignored, an unmap event is an error.

## 6. Plan

Done in this order: `Ledger`, `LedgerMachine`, `BlockProcessor`, `Voting`,
`Elections`, `BlockQueries`, first proofs; then `TokenLedger`, `TokenSwap`,
`SwapLife`, `TokenMachine`, `SwapHelper`, `App`, `Syncer`.

Proved so far: the ledger, the block processor's safety and its refinement, elections,
voting, queries, the swap helper, the syncer, the application framework, and the swaps of the
token application with their refinement.

Next theorems: `HoldersExact`, then `IdInOnePlace`, `NeverInconsistent` and `SupplyConserved`
of `TokenMachine`.

Next modules:

1. `Peers`: cookies, handshake, proxies and purging; what "connected" means in
   the other modules.
2. `Rewarder`: scheduling of the node account's own blocks, racing receipts and
   rollbacks.
3. The confirmation depth of the cross-chain parsers, the validator link, the
   wallet's chain, alias.

## 7. Not modelled

Peers, rewarder, validator link, cross-chain parsers, alias application, airdrop
and wallet are not modelled yet; `PROJECT.json` has the reasons. Within the modelled
parts, what is left out is named there too: statistics, pruned chains, indexes and
histories for display, topics and subscriptions of clients, TCP sessions of the
bootstrap.

Encodings, JSON, RPC, configuration, logging, user interfaces and vendored
cryptography have no protocol state. Storage is taken to be what LMDB promises:
transactions are atomic and durable. Signatures are taken to be unforgeable:
only votes in `Ballots` and blocks in `Blocks` exist. Message encodings are not
modelled, their loss, repetition and delay are.
