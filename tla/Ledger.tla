------------------------------- MODULE Ledger -------------------------------
(***************************************************************************)
(* The account-chain ledger of a Raicoin node and the three transactions   *)
(* the block processor runs on it: append a block, roll a block back and   *)
(* confirm a block (rai/node/blockprocessor.cpp, rai/secure/ledger.cpp).   *)
(*                                                                         *)
(* Every account owns a chain of blocks.  A block carries the complete     *)
(* account state after it (balance, credit, representative), so the tables *)
(* beside the chains are derived data that every append must extend and    *)
(* every rollback must retract: successors, account infos, amounts waiting *)
(* to be received, rewards waiting to be claimed, representative weights   *)
(* and cross-chain bindings.                                               *)
(*                                                                         *)
(* A block is identified with its hash: Blocks is the set of hashes that   *)
(* exist in the world and Block[b] is what the block with hash b says.     *)
(* The operators here are functions of a ledger value L; LedgerMachine     *)
(* and BlockProcessor turn them into actions.                              *)
(***************************************************************************)
EXTENDS Integers, FiniteSets, FiniteSetsExt

CONSTANTS Accounts, Blocks,
          Block,                 \* [Blocks -> record], the fields of each block
          Genesis,               \* the hash of the genesis block
          NoBlock,               \* the zero hash / the zero link
          NoInfo,                \* no entry in the accounts table
          Prices, MinPrice,      \* credit price per quarter, and after the table
          Quarter, Day,          \* length of a quarter and of a day
          RewardRate,            \* reward per unit of balance and day
          EpochTimestamp,        \* when the network started
          MAX_TIMESTAMP_DIFF,    \* how far a block may be dated ahead
          Clocks,                \* what the clock of the node may show
          TRANSACTIONS_PER_CREDIT,
          BASE_ALLOWED_BINDINGS, EXTRA_BINDINGS_PER_CREDIT

INVALID_HEIGHT == -1

Types == {"TX", "REP", "AD"}

\* The opcodes each block type admits when it is deserialized.
CheckOpcode ==
  [TX  |-> {"SEND", "RECEIVE", "CHANGE", "CREDIT"},
   REP |-> {"SEND", "RECEIVE", "REWARD", "CREDIT", "BIND"},
   AD  |-> {"RECEIVE", "CHANGE", "DESTROY"}]

Opcodes == UNION {CheckOpcode[t] : t \in Types}

BlockFields ==
  [account : Accounts, type : Types, opcode : Opcodes, height : Nat,
   previous : Blocks \cup {NoBlock}, time : Nat, credit : Nat, counter : Nat,
   balance : Nat, rep : Accounts, link : Accounts \cup Blocks \cup {NoBlock},
   signed : BOOLEAN]

ASSUME BlocksAssumption ==
  /\ Block \in [Blocks -> BlockFields]
  /\ NoBlock \notin Blocks
  /\ NoBlock \notin Accounts
  /\ Accounts \cap Blocks = {}
  /\ \A b \in Blocks : Block[b].opcode \in CheckOpcode[Block[b].type]

\* An account is a public key: there are 2^256.
ASSUME AccountsAssumption == IsFiniteSet(Accounts)

\* What the constructor of Genesis checks (rai/secure/common.cpp): in place of
\* a source the block names its account.
ASSUME GenesisAssumption ==
  /\ Genesis \in Blocks
  /\ Block[Genesis].height = 0
  /\ Block[Genesis].previous = NoBlock
  /\ Block[Genesis].type = "TX"
  /\ Block[Genesis].opcode = "RECEIVE"
  /\ Block[Genesis].link = Block[Genesis].account
  /\ Block[Genesis].time = EpochTimestamp

ASSUME ParametersAssumption ==
  /\ MinPrice \in Nat /\ RewardRate \in Nat
  /\ Quarter \in Nat \ {0} /\ Day \in Nat \ {0}
  /\ TRANSACTIONS_PER_CREDIT \in Nat
  /\ BASE_ALLOWED_BINDINGS \in Nat \ {0} /\ EXTRA_BINDINGS_PER_CREDIT \in Nat
  /\ \A q \in DOMAIN Prices : Prices[q] \in Nat
  /\ EpochTimestamp \in Nat /\ MAX_TIMESTAMP_DIFF \in Nat /\ Clocks \subseteq Nat

-----------------------------------------------------------------------------
(* Parameters that depend on time (rai/common/parameters.cpp).             *)

CreditPrice(t) ==
  LET q == (t - EpochTimestamp) \div Quarter + 1
  IN  IF t < EpochTimestamp THEN 0
      ELSE IF q \in DOMAIN Prices THEN Prices[q] ELSE MinPrice

RewardAmount(balance, begin, end) ==
  IF begin > end \/ begin < EpochTimestamp THEN 0
  ELSE (balance * RewardRate * (end - begin)) \div Day

RewardTimestamp(begin, end) ==
  IF begin > end \/ begin < EpochTimestamp THEN 0
  ELSE LET half == begin + (end - begin + 1) \div 2 + Day
       IN  IF end > half THEN end ELSE half

AllowedBindings(credit) ==
  BASE_ALLOWED_BINDINGS + credit * EXTRA_BINDINGS_PER_CREDIT

SameDay(t1, t2) == t1 \div Day = t2 \div Day

HasRepresentative(b) == Block[b].type # "REP"

\* Two different blocks of one account at one height.
ForkWith(b, c) ==
  /\ Block[b].account = Block[c].account
  /\ Block[b].height = Block[c].height
  /\ b # c

-----------------------------------------------------------------------------
(* The tables.                                                             *)

AccountInfos ==
  [type : Types, head : Blocks, headHeight : Nat,
   confirmed : Nat \cup {INVALID_HEIGHT}]

ASSUME NoInfoAssumption == NoInfo \notin AccountInfos

Receivables ==
  [to : Accounts \cup Blocks \cup {NoBlock}, source : Blocks,
   from : Accounts, amount : Nat, time : Nat]

Rewardables ==
  [rep : Accounts, source : Blocks, account : Accounts, amount : Nat,
   valid : Nat]

LedgerStates ==
  [stored       : SUBSET Blocks,                       \* keys of blocks_
   successor    : [Blocks -> Blocks \cup {NoBlock}],   \* successors in blocks_
   info         : [Accounts -> AccountInfos \cup {NoInfo}],
   receivable   : SUBSET Receivables,                  \* receivables_
   rewardable   : SUBSET Rewardables,                  \* rewardables_
   bindings     : SUBSET (Accounts \X Nat),            \* binding entries
   bindingCount : [Accounts -> Nat],                   \* 0 = no entry
   rollbacks    : SUBSET Blocks,                       \* rollbacks_
   weight       : [Accounts -> Int],                   \* in memory, 0 = no entry
   totalWeight  : Int]                                 \* in memory

NewInfo(b) ==
  [type |-> Block[b].type, head |-> b, headHeight |-> 0,
   confirmed |-> INVALID_HEIGHT]

\* Mutant: the source is left out of the key.
ReceivableGetAny(L, to, source) == {r \in L.receivable : r.to = to}

\* The entries with a given key; a table holds at most one of them.
ReceivableGet(L, to, source) ==
  {r \in L.receivable : r.to = to /\ r.source = source}

RewardableGet(L, rep, source) ==
  {r \in L.rewardable : r.rep = rep /\ r.source = source}

ReceivablePut(L, e) ==
  (L.receivable \ ReceivableGet(L, e.to, e.source)) \cup {e}

RewardablePut(L, e) ==
  (L.rewardable \ RewardableGet(L, e.rep, e.source)) \cup {e}

\* A new ledger holds the genesis block.
InitLedger ==
  [stored       |-> {Genesis},
   successor    |-> [b \in Blocks |-> NoBlock],
   info         |-> [a \in Accounts |->
                       IF a = Block[Genesis].account
                       THEN NewInfo(Genesis) ELSE NoInfo],
   receivable   |-> {},
   rewardable   |-> {},
   bindings     |-> {},
   bindingCount |-> [a \in Accounts |-> 0],
   rollbacks    |-> {},
   weight       |-> [a \in Accounts |->
                       IF a = Block[Genesis].rep
                       THEN Block[Genesis].balance ELSE 0],
   totalWeight  |-> Block[Genesis].balance]

-----------------------------------------------------------------------------
(* Representative weights live in memory.  A transaction collects add and  *)
(* sub operations and RepWeightsCommit_ applies them when it ends.  The    *)
(* branch for an entry smaller than the weight to subtract drops the entry *)
(* and leaves the total alone, as the code does after its assertion.       *)

RepWeightAdd(L, rep, w) ==
  [L EXCEPT !.weight[rep] = @ + w, !.totalWeight = L.totalWeight + w]

RepWeightSub(L, rep, w) ==
  IF w > L.weight[rep]
  THEN [L EXCEPT !.weight[rep] = 0]
  ELSE [L EXCEPT !.weight[rep] = @ - w, !.totalWeight = L.totalWeight - w]

\* What a restarted node computes from the heads of all accounts.
HeadWeight(L, rep) ==
  LET delegators == {a \in Accounts : /\ L.info[a] # NoInfo
                                      /\ HasRepresentative(L.info[a].head)
                                      /\ Block[L.info[a].head].rep = rep}
  IN  SumFunction([a \in delegators |-> Block[L.info[a].head].balance])

InitMemoryTables(L) ==
  [L EXCEPT !.weight = [r \in Accounts |-> HeadWeight(L, r)],
            !.totalWeight = SumFunction([r \in Accounts |-> HeadWeight(L, r)])]

-----------------------------------------------------------------------------
(* Appending: the checks, in the order the code makes them.                *)

\* The code returns at the first check that fails.
AndThen(first, second) == IF first = "SUCCESS" THEN second ELSE first
Unless(failed, code)   == IF failed THEN code ELSE "SUCCESS"

\* The date of the block is neither before the network started nor far ahead.
InTime(b, now) ==
  /\ Block[b].time >= EpochTimestamp
  /\ Block[b].time <= now + MAX_TIMESTAMP_DIFF

\* Mutants: whether the block is already there is not checked; and the
\* clock may be no second behind.
CheckCommonAgain(L, b, now) ==
  AndThen(Unless(~Block[b].signed, "SIGNATURE"),
          Unless(~InTime(b, now), "TIMESTAMP"))

CheckCommonStrict(L, b, now) ==
  AndThen(Unless(~Block[b].signed, "SIGNATURE"),
  AndThen(Unless(Block[b].time > now, "TIMESTAMP"),
          Unless(b \in L.stored, "EXISTS")))

\* The clock of the node shows now.
CheckCommon(L, b, now) ==
  AndThen(Unless(~Block[b].signed, "SIGNATURE"),
  AndThen(Unless(~InTime(b, now), "TIMESTAMP"),
          Unless(b \in L.stored, "EXISTS")))

CheckFirstCommon(b) ==
  AndThen(Unless(Block[b].height # 0, "GAP_PREVIOUS"),
  AndThen(Unless(Block[b].credit = 0, "CREDIT"),
          Unless(Block[b].previous # NoBlock, "PREVIOUS")))

CheckSuccessorCommon(b, info) ==
  AndThen(Unless(Block[b].height <= info.headHeight, "FORK"),
  AndThen(Unless(Block[b].height > info.headHeight + 1, "GAP_PREVIOUS"),
  AndThen(Unless(Block[b].type # info.type, "TYPE_MISMATCH"),
  AndThen(Unless(Block[b].previous # info.head, "PREVIOUS"),
          Unless(Block[b].time < Block[info.head].time, "TIMESTAMP")))))

CheckCounterSame(head, b) ==
  Unless(Block[b].counter #
           (IF SameDay(Block[b].time, Block[head].time)
            THEN Block[head].counter ELSE 0),
         "COUNTER")

CheckCounterIncrease(head, b) ==
  IF SameDay(Block[b].time, Block[head].time)
  THEN AndThen(Unless(Block[b].counter # Block[head].counter + 1, "COUNTER"),
               Unless(Block[b].counter >
                        Block[b].credit * TRANSACTIONS_PER_CREDIT,
                      "EXCEED_TRANSACTIONS"))
  ELSE Unless(Block[b].counter # 1, "COUNTER")

CheckRepresentativeSame(head, b) ==
  Unless(HasRepresentative(b) /\ Block[b].rep # Block[head].rep,
         "REPRESENTATIVE")

\* The amount the first block of an account takes from its source: the
\* balance it starts with and the credit it buys.
OpenAmount(b) ==
  CreditPrice(Block[b].time) * Block[b].credit + Block[b].balance

\* Checks of a block that takes something from its source.
CheckSource(L, b, gap) ==
  AndThen(Unless(Block[b].link \notin L.stored, gap),
          Unless(Block[b].time < Block[Block[b].link].time, "TIMESTAMP"))

CheckReceivable(L, b, amount) ==
  LET found == ReceivableGet(L, Block[b].account, Block[b].link)
  IN  AndThen(Unless(found = {}, "UNRECEIVABLE"),
              Unless(\E r \in found : r.amount # amount, "BALANCE"))

CheckRewardable(L, b, amount) ==
  LET found == RewardableGet(L, Block[b].account, Block[b].link)
  IN  AndThen(Unless(found = {}, "UNREWARDABLE"),
      AndThen(Unless(\E r \in found : Block[b].time < r.valid, "TIMESTAMP"),
              Unless(\E r \in found : r.amount # amount, "BALANCE")))

\* First block of an account: only a receive or a reward can open it.
CheckOpen(L, b) ==
  CASE Block[b].opcode = "RECEIVE" ->
         AndThen(CheckFirstCommon(b),
         AndThen(Unless(Block[b].counter # 1, "COUNTER"),
         AndThen(CheckSource(L, b, "GAP_RECEIVE_SOURCE"),
                 CheckReceivable(L, b, OpenAmount(b)))))
    [] Block[b].opcode = "REWARD" ->
         AndThen(CheckFirstCommon(b),
         AndThen(Unless(Block[b].counter # 0, "COUNTER"),
         AndThen(CheckSource(L, b, "GAP_REWARD_SOURCE"),
                 CheckRewardable(L, b, OpenAmount(b)))))
    [] OTHER -> IF Block[b].height # 0 THEN "GAP_PREVIOUS" ELSE "OPCODE"

\* Credit, counter and representative against the head of the account.
CheckCarried(head, b) ==
  LET op == Block[b].opcode
  IN  AndThen(Unless(IF op = "CREDIT" THEN Block[b].credit <= Block[head].credit
                                      ELSE Block[b].credit # Block[head].credit,
                     "CREDIT"),
      AndThen(IF op = "REWARD" THEN CheckCounterSame(head, b)
                               ELSE CheckCounterIncrease(head, b),
              IF op \in {"CHANGE", "BIND", "REWARD"} THEN "SUCCESS"
              ELSE CheckRepresentativeSame(head, b)))

\* What each opcode demands of the balance, the link and the tables.
CheckOperation(L, head, b) ==
  LET new == Block[b].balance
      old == Block[head].balance
  IN  CASE Block[b].opcode \in {"SEND", "DESTROY"} ->
             Unless(new >= old, "BALANCE")
        [] Block[b].opcode = "RECEIVE" ->
             AndThen(CheckSource(L, b, "GAP_RECEIVE_SOURCE"),
             AndThen(Unless(new <= old, "BALANCE"),
                     CheckReceivable(L, b, new - old)))
        [] Block[b].opcode = "REWARD" ->
             AndThen(CheckSource(L, b, "GAP_REWARD_SOURCE"),
             AndThen(Unless(new <= old, "BALANCE"),
                     CheckRewardable(L, b, new - old)))
        [] Block[b].opcode = "CHANGE" ->
             AndThen(Unless(new # old, "BALANCE"),
                     Unless(Block[b].link # NoBlock, "LINK"))
        [] Block[b].opcode = "CREDIT" ->
             AndThen(Unless(old # new + CreditPrice(Block[b].time)
                                    * (Block[b].credit - Block[head].credit),
                            "BALANCE"),
                     Unless(Block[b].link # NoBlock, "LINK"))
        [] Block[b].opcode = "BIND" ->
             AndThen(Unless(new # old, "BALANCE"),
                     Unless(L.bindingCount[Block[b].account] >=
                              AllowedBindings(Block[head].credit),
                            "BINDING_COUNT"))

\* The result of AppendBlock_: "SUCCESS" or the first error.
AppendCode(L, b, now) ==
  LET info == L.info[Block[b].account]
  IN  AndThen(CheckCommon(L, b, now),
              IF info = NoInfo THEN CheckOpen(L, b)
              ELSE AndThen(CheckSuccessorCommon(b, info),
                   AndThen(CheckCarried(info.head, b),
                           CheckOperation(L, info.head, b))))

-----------------------------------------------------------------------------
(* Appending: the effects of a block whose checks succeeded.               *)

PutBlockSuccessor(L, b) ==
  [L EXCEPT !.stored = @ \cup {b},
            !.successor = [x \in Blocks |->
                             IF x = b THEN NoBlock
                             ELSE IF x = Block[b].previous THEN b
                             ELSE L.successor[x]]]

\* Append keeps what is confirmed; a first block starts a new info.
UpdateAccountInfo(L, b) ==
  [L EXCEPT !.info[Block[b].account] =
     IF @ = NoInfo THEN NewInfo(b)
     ELSE [@ EXCEPT !.head = b, !.headHeight = Block[b].height]]

\* Mutant: the old balance is taken from the new representative.
UpdateRepInfoNewRep(L, head, b) ==
  IF ~HasRepresentative(b) THEN L
  ELSE LET retracted == IF head = NoBlock THEN L
                        ELSE RepWeightSub(L, Block[b].rep, Block[head].balance)
       IN  RepWeightAdd(retracted, Block[b].rep, Block[b].balance)

UpdateRepInfo(L, head, b) ==
  IF ~HasRepresentative(b) THEN L
  ELSE LET retracted == IF head = NoBlock THEN L
                        ELSE RepWeightSub(L, Block[head].rep, Block[head].balance)
       IN  RepWeightAdd(retracted, Block[b].rep, Block[b].balance)

Reward(b, successor) ==
  RewardAmount(Block[b].balance, Block[b].time, Block[successor].time)

RewardableInfo(b, successor, amount) ==
  [rep |-> Block[b].rep, source |-> b, account |-> Block[b].account,
   amount |-> amount,
   valid |-> RewardTimestamp(Block[b].time, Block[successor].time)]

\* The balance of the old head earned its representative a reward.
PutRewardableInfo(L, head, b) ==
  IF head = NoBlock \/ ~HasRepresentative(head) \/ Reward(head, b) = 0 THEN L
  ELSE [L EXCEPT !.rewardable =
          RewardablePut(L, RewardableInfo(head, b, Reward(head, b)))]

ReceivableInfo(to, source, amount) ==
  [to |-> to, source |-> source, from |-> Block[source].account,
   amount |-> amount, time |-> Block[source].time]

\* Mutant: the binding is not counted.
BindingPutUncounted(L, a, h) == [L EXCEPT !.bindings = @ \cup {<<a, h>>}]

\* A binding of the account to a chain, and how many it has.
BindingPut(L, a, h) ==
  [L EXCEPT !.bindings = @ \cup {<<a, h>>},
            !.bindingCount[a] = L.bindingCount[a] + 1]

BindingDel(L, a, h) ==
  [L EXCEPT !.bindings = @ \ {<<a, h>>},
            !.bindingCount[a] = L.bindingCount[a] - 1]

\* The table entry that is particular to the opcode.
ApplyOperation(L, head, b) ==
  LET a == Block[b].account
  IN  CASE Block[b].opcode = "SEND" ->
             [L EXCEPT !.receivable = ReceivablePut(L,
                ReceivableInfo(Block[b].link, b,
                               Block[head].balance - Block[b].balance))]
        [] Block[b].opcode = "RECEIVE" ->
             [L EXCEPT !.receivable = @ \ ReceivableGet(L, a, Block[b].link)]
        [] Block[b].opcode = "REWARD" ->
             [L EXCEPT !.rewardable = @ \ RewardableGet(L, a, Block[b].link)]
        [] Block[b].opcode = "BIND" ->
             BindingPut(L, a, Block[b].height)
        [] OTHER -> L

AppendBlock(L, b) ==
  LET info == L.info[Block[b].account]
      head == IF info = NoInfo THEN NoBlock ELSE info.head
      chained == UpdateAccountInfo(PutBlockSuccessor(L, b), b)
      weighed == UpdateRepInfo(chained, head, b)
  IN  ApplyOperation(PutRewardableInfo(weighed, head, b), head, b)

-----------------------------------------------------------------------------
(* Rolling back.                                                           *)

\* Mutant: whether the block is the head is seen too late.
CheckRollbackAnyHeight(L, b) ==
  LET info == L.info[Block[b].account]
  IN  AndThen(Unless(b \notin L.stored, "ROLLBACK_IGNORE"),
      AndThen(Unless(info = NoInfo, "LEDGER_INCONSISTENT"),
              Unless(b # info.head, "LEDGER_INCONSISTENT")))

\* Check: only the head of a chain can go, and not while the reward it
\* released is already claimed.
CheckRollback(L, b) ==
  LET info == L.info[Block[b].account]
      prev == Block[b].previous
  IN  AndThen(Unless(b \notin L.stored, "ROLLBACK_IGNORE"),
      AndThen(Unless(info = NoInfo, "LEDGER_INCONSISTENT"),
      AndThen(Unless(Block[b].height > info.headHeight, "LEDGER_INCONSISTENT"),
      AndThen(Unless(Block[b].height # info.headHeight, "ROLLBACK_NON_HEAD"),
      AndThen(Unless(b # info.head, "LEDGER_INCONSISTENT"),
      AndThen(Unless(Block[b].height # 0 /\ prev \notin L.stored,
                     "LEDGER_INCONSISTENT"),
              Unless(/\ HasRepresentative(b) /\ Block[b].height # 0
                     /\ Reward(prev, b) # 0
                     /\ RewardableGet(L, Block[prev].rep, prev) = {},
                     "ROLLBACK_REWARDED")))))))

\* The result of RollbackBlock_.
RollbackCode(L, b) ==
  AndThen(CheckRollback(L, b),
    CASE Block[b].opcode = "SEND" ->
           Unless(ReceivableGet(L, Block[b].link, b) = {}, "ROLLBACK_RECEIVED")
      [] Block[b].opcode = "RECEIVE" ->
           Unless(Block[b].link \notin L.stored, "ROLLBACK_SOURCE_PRUNED")
      [] Block[b].opcode = "REWARD" ->
           AndThen(Unless(Block[b].link \notin L.stored, "ROLLBACK_SOURCE_PRUNED"),
                   Unless(L.successor[Block[b].link] \notin L.stored,
                          "LEDGER_INCONSISTENT"))
      [] Block[b].opcode = "BIND" ->
           Unless(\/ <<Block[b].account, Block[b].height>> \notin L.bindings
                  \/ L.bindingCount[Block[b].account] = 0,
                  "LEDGER_INCONSISTENT")
      [] OTHER -> "SUCCESS")

\* Mutant: the price of the credit an account starts with is forgotten.
TakenAmountFree(b) ==
  IF Block[b].height = 0 THEN Block[b].balance
  ELSE Block[b].balance - Block[Block[b].previous].balance

\* The amount a receive or a reward took from its source.
TakenAmount(b) ==
  IF Block[b].height = 0 THEN OpenAmount(b)
  ELSE Block[b].balance - Block[Block[b].previous].balance

RevertOperation(L, b) ==
  LET a == Block[b].account
      source == Block[b].link
  IN  CASE Block[b].opcode = "SEND" ->
             [L EXCEPT !.receivable = @ \ ReceivableGet(L, Block[b].link, b)]
        [] Block[b].opcode = "RECEIVE" ->
             [L EXCEPT !.receivable =
                ReceivablePut(L, ReceivableInfo(a, source, TakenAmount(b)))]
        [] Block[b].opcode = "REWARD" ->
             [L EXCEPT !.rewardable = RewardablePut(L,
                [RewardableInfo(source, L.successor[source], TakenAmount(b))
                   EXCEPT !.rep = a])]
        [] Block[b].opcode = "BIND" ->
             BindingDel(L, a, Block[b].height)
        [] OTHER -> L

\* Mutant: the previous block still points to the deleted one.
DeleteBlockOnly(L, b) ==
  [L EXCEPT !.stored = @ \ {b},
            !.successor = [x \in Blocks |-> IF x = b THEN NoBlock
                                            ELSE L.successor[x]]]

DeleteBlockSuccessor(L, b) ==
  [L EXCEPT !.stored = @ \ {b},
            !.successor = [x \in Blocks |->
                             IF x = b \/ (Block[b].height # 0
                                          /\ x = Block[b].previous)
                             THEN NoBlock ELSE L.successor[x]]]

PutRollbackBlock(L, b) == [L EXCEPT !.rollbacks = @ \cup {b}]

\* Mutant: the account stays when its first block goes.
RetractAccountInfoKept(L, b) ==
  LET left == Block[b].height - 1
  IN  [L EXCEPT !.info[Block[b].account] =
         [type |-> @.type, head |-> Block[b].previous, headHeight |-> left,
          confirmed |-> IF @.confirmed > left THEN INVALID_HEIGHT ELSE @.confirmed]]

\* The account goes with its first block; otherwise the previous block is
\* the head again, and a confirmation above it is forgotten altogether.
RetractAccountInfo(L, b) ==
  LET info == L.info[Block[b].account]
      left == Block[b].height - 1
  IN  [L EXCEPT !.info[Block[b].account] =
         IF Block[b].height = 0 THEN NoInfo
         ELSE [type |-> info.type, head |-> Block[b].previous,
               headHeight |-> left,
               confirmed |-> IF info.confirmed > left
                             THEN INVALID_HEIGHT ELSE info.confirmed]]

\* Mutant: the reward stays although the block that released it goes.
DeleteRewardableInfoNot(L, b) == L

DeleteRewardableInfo(L, b) ==
  LET prev == Block[b].previous
  IN  IF ~HasRepresentative(b) \/ Block[b].height = 0 \/ Reward(prev, b) = 0 THEN L
      ELSE [L EXCEPT !.rewardable = @ \ RewardableGet(L, Block[prev].rep, prev)]

\* Mutant: the representative before does not get its weight back.
UpdateRepWeightLost(L, b) ==
  IF ~HasRepresentative(b) THEN L
  ELSE RepWeightSub(L, Block[b].rep, Block[b].balance)

UpdateRepWeight(L, b) ==
  LET retracted == RepWeightSub(L, Block[b].rep, Block[b].balance)
      prev == Block[b].previous
  IN  IF ~HasRepresentative(b) THEN L
      ELSE IF Block[b].height = 0 THEN retracted
      ELSE RepWeightAdd(retracted, Block[prev].rep, Block[prev].balance)

RollbackBlock(L, b) ==
  LET reverted  == RevertOperation(L, b)
      deleted   == PutRollbackBlock(DeleteBlockSuccessor(reverted, b), b)
      retracted == RetractAccountInfo(deleted, b)
  IN  UpdateRepWeight(DeleteRewardableInfo(retracted, b), b)

-----------------------------------------------------------------------------
(* Confirming.                                                             *)

ConfirmCode(L, b) ==
  AndThen(Unless(b \notin L.stored, "CONFIRM_BLOCK_MISS"),
          Unless(L.info[Block[b].account] = NoInfo, "LEDGER_INCONSISTENT"))

ConfirmBlock(L, b) ==
  IF Block[b].height > L.info[Block[b].account].confirmed
  THEN [L EXCEPT !.info[Block[b].account].confirmed = Block[b].height]
  ELSE L

\* The stored block of an account at a height (BlockGet by account, height).
BlockAt(L, a, h) ==
  CHOOSE b \in L.stored : Block[b].account = a /\ Block[b].height = h

=============================================================================
