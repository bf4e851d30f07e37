------------------------------- MODULE Syncer -------------------------------
(***************************************************************************)
(* The syncer (rai/node/syncer.cpp) and the rounds of the bootstrap that   *)
(* use it (rai/node/bootstrap.cpp).  The syncer follows one chain at a     *)
(* time for each account: it queries peers for the next block, gives it to *)
(* the block processor and goes on when the processor's result says so.    *)
(*                                                                         *)
(* The mutex is released between these steps, and results reach the syncer *)
(* through background calls, in any order.  Everything that some thread    *)
(* has still to do is an item of the bag pending, of one of these kinds:   *)
(*   ask      BlockQuery_ for an account, before AddQuery                  *)
(*   query    the query of an account; it is in queries_                   *)
(*   process  the answer, before BlockProcessor::Add; in queries_          *)
(*   source   BlockQuery_ for a hash, before AddQuery                      *)
(*   hash     the query of a hash; it is in queries_                       *)
(*   found    its answer, before SyncAccount; in queries_                  *)
(*   related  SyncAccount in SyncRelated                                   *)
(*   result   a result of the processor, before ProcessorCallback          *)
(*                                                                         *)
(* The processor is reduced to what the syncer sees of it (BlockProcessor  *)
(* has the rest), and peers to their chains: they answer, late, or not     *)
(* with what they have.  Heights are those of the code; the block at       *)
(* height h is element h + 1 of a chain.                                   *)
(***************************************************************************)
EXTENDS Integers, Sequences, FiniteSets, Bags, SequencesExt

CONSTANTS
  Accounts, Blocks,
  AccountOf, Height, Previous,  \* of each block; Previous of a first one is NoBlock
  Source,      \* block |-> the block it receives or is the reward of, or NoBlock
  Needs,       \* block |-> further blocks without which a reward is UNREWARDABLE
  SendsTo,     \* block |-> the accounts a SEND goes to
  Rewards,     \* block |-> representatives who get a reward by it, some day
  Canonical,   \* the chains of the peers, which the network decides for
  Start,       \* the chains of the ledger in the beginning
  Published,   \* blocks that others send to the node
  NoBlock, NoSync,
  INITIAL_FULL_BOOTSTRAPS,
  MissLimit,   \* misses that end a query (5)
  MaxFaults,   \* bound on misses of lagging peers, dropped blocks, rounds
               \* that fail and blocks that others send
  MaxPending   \* bound on what is pending when an account is started anew

ASSUME SyncerAssumption ==
  /\ NoBlock \notin Blocks
  /\ AccountOf \in [Blocks -> Accounts]
  /\ Height \in [Blocks -> Nat]
  /\ Previous \in [Blocks -> Blocks \cup {NoBlock}]
  /\ Source \in [Blocks -> Blocks \cup {NoBlock}]
  /\ Needs \in [Blocks -> SUBSET Blocks]
  /\ SendsTo \in [Blocks -> SUBSET Accounts]
  /\ Rewards \in [Blocks -> SUBSET Accounts]
  /\ Canonical \in [Accounts -> Seq(Blocks) \ {<<>>}]
  /\ \A a \in Accounts : \A i \in DOMAIN Canonical[a] :
       AccountOf[Canonical[a][i]] = a /\ Height[Canonical[a][i]] = i - 1
  /\ \A b \in Blocks : Height[b] < Len(Canonical[AccountOf[b]])
  /\ Start \in [Accounts -> Seq(Blocks)]
  /\ Published \subseteq Blocks
  /\ INITIAL_FULL_BOOTSTRAPS \in Nat \ {0}
  /\ MissLimit \in Nat \ {0}
  /\ MaxFaults \in Nat /\ MaxPending \in Nat

VARIABLES
  ledger,    \* [Accounts -> Seq(Blocks)]
  queue,     \* blocks_ of the processor
  gaps,      \* blocks in a gap cache that wait for their source
  forks,     \* blocks that differ from the ledger's, with an election
  syncs,     \* syncs_
  pending,   \* a bag, see above
  todo,      \* accounts the current round has still to start
  count,     \* count_, up to the number of initial rounds
  waiting,   \* Wait_
  running,   \* NodeStatus::RUN
  faults

processor == <<ledger, queue, gaps, forks>>
rounds == <<todo, count, waiting, running>>
vars == <<processor, syncs, pending, rounds, faults>>

DEFAULT_BATCH_ID == -1

\* SyncInfo: an entry of syncs_.
SyncInfo ==
  [status : {"QUERY", "PROCESS"}, batch : Int, height : Nat,
   previous : Blocks \cup {NoBlock}, current : Blocks \cup {NoBlock}]

ASSUME NoSyncAssumption == NoSync \notin SyncInfo

HeadHeight(a) == Len(ledger[a]) - 1
HeadOf(a) == IF ledger[a] = <<>> THEN NoBlock ELSE Last(ledger[a])
Stored(b) == b \in Range(ledger[AccountOf[b]])

Items(kinds) == {w \in BagToSet(pending) : w.kind \in kinds}

\* Item w is done; it leaves the items of the set new behind.
Done(w, new) == pending' = (pending (-) SetToBag({w})) (+) SetToBag(new)

\* Rounds are minutes apart.
Room == BagCardinality(pending) < MaxPending

Init ==
  /\ ledger = Start
  /\ queue = {} /\ gaps = {} /\ forks = {}
  /\ syncs = [a \in Accounts |-> NoSync]
  /\ pending = EmptyBag
  /\ todo = Accounts
  /\ count = 0
  /\ waiting = FALSE /\ running = FALSE
  /\ faults = 0

-----------------------------------------------------------------------------
(* syncs_ and queries_.                                                    *)

Ask(a, height, previous, batch, block) ==
  [kind |-> "ask", account |-> a, height |-> height, previous |-> previous,
   batch |-> batch, block |-> block]

\* Add_ for an account without a synchronisation, and what Add does next.
NewSync(height, previous, batch) ==
  [status |-> "QUERY", batch |-> batch, height |-> height,
   previous |-> previous, current |-> NoBlock]
SyncsWith(a, height, previous, batch) ==
  IF syncs[a] # NoSync THEN syncs
  ELSE [syncs EXCEPT ![a] = NewSync(height, previous, batch)]
AsksWith(a, height, previous, batch) ==
  IF syncs[a] # NoSync THEN {} ELSE {Ask(a, height, previous, batch, NoBlock)}

\* SyncAccount, by a thread that is done with item w.
SyncAccount(w, a, batch) ==
  LET h == HeadHeight(a) + 1
  IN  /\ syncs' = SyncsWith(a, h, HeadOf(a), batch)
      /\ Done(w, AsksWith(a, h, HeadOf(a), batch))

\* Mutant: only accounts count, not the queries for sources.
FinishedWithoutQueries(n) ==
  \A a \in Accounts : syncs[a] # NoSync => syncs[a].batch # n

Finished(n) ==
  /\ \A a \in Accounts : syncs[a] # NoSync => syncs[a].batch # n
  /\ \A w \in Items({"query", "process", "hash", "found"}) : w.batch # n

-----------------------------------------------------------------------------
(* Queries and their callbacks.                                            *)

\* BlockQuery_ for an account, after which SyncRelated is due for the block
\* that was appended.
AskAccount(w) ==
  LET related(c, sure) == [kind |-> "related", account |-> c,
                           batch |-> w.batch, sure |-> sure]
  IN  /\ w.kind = "ask"
      /\ Done(w, {[kind |-> "query", account |-> w.account, height |-> w.height,
                   previous |-> w.previous, batch |-> w.batch, misses |-> 0]}
                 \cup (IF w.block = NoBlock THEN {}
                       ELSE {related(c, TRUE) : c \in SendsTo[w.block]} \cup
                            {related(c, FALSE) : c \in Rewards[w.block]}))
      /\ UNCHANGED <<processor, syncs, rounds, faults>>

\* SyncRelated: the receiver, and a representative whose reward is due.
SyncRelated(w) ==
  /\ w.kind = "related"
  /\ \/ SyncAccount(w, w.account, w.batch)
     \/ ~w.sure /\ Done(w, {}) /\ UNCHANGED syncs
  /\ UNCHANGED <<processor, rounds, faults>>

\* What a peer with the canonical chains answers to the query of an account.
Answer(q) ==
  LET c == Canonical[q.account]
      byHeight == q.height = 0 \/ q.previous = NoBlock
  IN  CASE byHeight /\ q.height < Len(c) ->
             [status |-> "SUCCESS", block |-> c[q.height + 1]]
        [] ~byHeight /\ q.previous \in Range(c) /\ q.height < Len(c) ->
             [status |-> "SUCCESS", block |-> c[q.height + 1]]
        [] ~byHeight /\ q.previous \notin Range(c) /\ q.height <= Len(c) ->
             [status |-> "FORK", block |-> c[q.height]]
        [] OTHER -> [status |-> "MISS", block |-> NoBlock]

Queried(a) == syncs[a] # NoSync /\ syncs[a].status = "QUERY"

\* QueryCallback with a block: what is to be processed, and the account's
\* synchronisation, which waits for the result unless the block is a fork.
Callback(w, answer) ==
  LET a == w.account
  IN  /\ syncs' = IF ~Queried(a) THEN syncs
                  ELSE IF answer.status = "FORK"
                    THEN [syncs EXCEPT ![a] = NoSync]
                  ELSE [syncs EXCEPT ![a].status = "PROCESS",
                                     ![a].current = answer.block]
      /\ Done(w, IF Queried(a)
                   THEN {[kind |-> "process", account |-> a,
                          block |-> answer.block, batch |-> w.batch]}
                   ELSE {})

QueryAnswered(w) ==
  /\ w.kind = "query"
  /\ Answer(w).status # "MISS"
  /\ Callback(w, Answer(w))
  /\ UNCHANGED <<processor, rounds, faults>>

\* A peer misses the block.  Several misses end the query.
Miss(w, last) ==
  IF w.misses + 1 < MissLimit
    THEN Done(w, {[w EXCEPT !.misses = @ + 1]}) /\ UNCHANGED syncs
    ELSE Done(w, {}) /\ syncs' = last

QueryMissed(w) ==
  /\ w.kind = "query"
  /\ \/ Answer(w).status = "MISS" /\ UNCHANGED faults
     \/ faults < MaxFaults /\ faults' = faults + 1
  /\ Miss(w, IF Queried(w.account) THEN [syncs EXCEPT ![w.account] = NoSync]
                                   ELSE syncs)
  /\ UNCHANGED <<processor, rounds>>

\* BlockQuery_ for the source of a block.
AskSource(w) ==
  /\ w.kind = "source"
  /\ Done(w, {[kind |-> "hash", account |-> w.account, block |-> w.block,
               batch |-> w.batch, misses |-> 0]})
  /\ UNCHANGED <<processor, syncs, rounds, faults>>

HashAnswered(w) ==
  /\ w.kind = "hash"
  /\ w.block \in Range(Canonical[w.account])
  /\ Done(w, {[kind |-> "found", account |-> w.account, batch |-> w.batch]})
  /\ UNCHANGED <<processor, syncs, rounds, faults>>

HashMissed(w) ==
  /\ w.kind = "hash"
  /\ \/ w.block \notin Range(Canonical[w.account]) /\ UNCHANGED faults
     \/ faults < MaxFaults /\ faults' = faults + 1
  /\ Miss(w, syncs)
  /\ UNCHANGED <<processor, rounds>>

\* The rest of QueryCallbackByHash_: SyncAccount, then EraseQuery.
FoundSource(w) ==
  /\ w.kind = "found"
  /\ SyncAccount(w, w.account, w.batch)
  /\ UNCHANGED <<processor, rounds, faults>>

-----------------------------------------------------------------------------
(* The block processor.                                                    *)

Result(b, code) == [kind |-> "result", account |-> AccountOf[b],
                    block |-> b, code |-> code]

\* BlockProcessor::Add: a block that is queued already is dropped.
Drops(bs) == {Result(b, "DROP") : b \in bs \cap queue}

\* The rest of QueryCallback: Add, then EraseQuery.
AddBlock(w) ==
  /\ w.kind = "process"
  /\ queue' = queue \cup {w.block}
  /\ Done(w, Drops({w.block}))
  /\ UNCHANGED <<ledger, gaps, forks, syncs, rounds, faults>>

Post(results) == pending' = pending (+) SetToBag(results)

\* ReceiveBlock: a block comes from somewhere else.
ReceiveBlock(b) ==
  /\ faults < MaxFaults /\ faults' = faults + 1
  /\ queue' = queue \cup {b}
  /\ Post(Drops({b}))
  /\ UNCHANGED <<ledger, gaps, forks, syncs, rounds>>

\* Mutant: nobody learns that the block was dropped.
DropBlockSilently(b) ==
  /\ b \in queue
  /\ faults < MaxFaults /\ faults' = faults + 1
  /\ queue' = queue \ {b}
  /\ UNCHANGED <<ledger, gaps, forks, syncs, pending, rounds>>

\* The queue is full, or the ledger cannot be opened.
DropBlock(b) ==
  /\ b \in queue
  /\ faults < MaxFaults /\ faults' = faults + 1
  /\ queue' = queue \ {b}
  /\ Post({Result(b, "DROP")})
  /\ UNCHANGED <<ledger, gaps, forks, syncs, rounds>>

AppendCode(b) ==
  LET a == AccountOf[b]
  IN  CASE Stored(b) -> "EXISTS"
        [] ~Stored(b) /\ Height[b] <= HeadHeight(a) -> "FORK"
        [] Height[b] > HeadHeight(a) + 1 -> "GAP_PREVIOUS"
        [] Height[b] = HeadHeight(a) + 1 ->
             IF Previous[b] # HeadOf(a) THEN "PREVIOUS"
             ELSE IF Source[b] # NoBlock /\ ~Stored(Source[b]) THEN "GAP_SOURCE"
             ELSE IF \E n \in Needs[b] : ~Stored(n) THEN "UNREWARDABLE"
             ELSE "SUCCESS"

\* ProcessBlock_ and QueueGapCaches.  Blocks that wait for their predecessor
\* come again with its account, so that cache is left out.
ProcessBlock(b) ==
  LET code == AppendCode(b)
      awake == IF code # "SUCCESS" THEN {} ELSE {g \in gaps : Source[g] = b}
  IN  /\ b \in queue
      /\ ledger' = IF code # "SUCCESS" THEN ledger
                   ELSE [ledger EXCEPT ![AccountOf[b]] = Append(@, b)]
      /\ gaps' = (gaps \ awake) \cup (IF code = "GAP_SOURCE" THEN {b} ELSE {})
      /\ forks' = forks \cup (IF code = "FORK" THEN {b} ELSE {})
      /\ queue' = (queue \ {b}) \cup awake
      /\ Post({Result(b, code)} \cup Drops(awake))
      /\ UNCHANGED <<syncs, rounds, faults>>

\* An election of a fork ends with a forced operation for the canonical
\* block at that height: the account is rolled back as far as necessary, of
\* which the operation reports that it continues, and the block appended.
Verdict(b) ==
  LET a == AccountOf[b]
      h == Height[b]
      c == Canonical[a][h + 1]
  IN  /\ b \in forks
      /\ forks' = forks \ {b}
      /\ \/ /\ Stored(c)
            /\ Post({Result(c, "EXISTS")})
            /\ UNCHANGED ledger
         \/ /\ ~Stored(c)
            /\ ledger' = [ledger EXCEPT ![a] = SubSeq(Canonical[a], 1, h + 1)]
            /\ Post({Result(c, "CONTINUE"), Result(c, "SUCCESS")})
      /\ UNCHANGED <<queue, gaps, syncs, rounds, faults>>

\* Mutant: a result for any block of the account lets it go on.
ProcessorCallbackAny(w) ==
  LET a == w.account
      b == w.block
  IN  /\ w.kind = "result"
      /\ syncs[a] # NoSync
      /\ syncs' = [syncs EXCEPT ![a].status = "QUERY", ![a].current = NoBlock,
                                ![a].height = Height[b] + 1, ![a].previous = b]
      /\ Done(w, {Ask(a, Height[b] + 1, b, syncs[a].batch, b)})
      /\ UNCHANGED <<processor, rounds, faults>>

\* ProcessorCallback: only for the block the account waits for.
ProcessorCallback(w) ==
  LET a == w.account
      info == syncs[a]
      b == w.block
      asks(h, previous, block) ==
        {Ask(a, h, previous, info.batch, block)}
  IN  /\ w.kind = "result"
      /\ \/ /\ \/ info = NoSync
               \/ info # NoSync /\ (info.status # "PROCESS" \/ info.current # b)
            /\ UNCHANGED syncs
            /\ Done(w, {})
         \/ /\ info # NoSync /\ info.status = "PROCESS" /\ info.current = b
            /\ \/ /\ w.code = "DROP"
                  /\ syncs' = [syncs EXCEPT ![a].status = "QUERY",
                                            ![a].current = NoBlock]
                  /\ Done(w, asks(info.height, info.previous, NoBlock))
               \/ /\ w.code \in {"SUCCESS", "EXISTS"}
                  /\ syncs' = [syncs EXCEPT ![a].status = "QUERY",
                                            ![a].current = NoBlock,
                                            ![a].height = Height[b] + 1,
                                            ![a].previous = b]
                  /\ Done(w, asks(Height[b] + 1, b, b))
               \/ /\ w.code \in {"GAP_SOURCE", "UNREWARDABLE"}
                  /\ syncs' = [syncs EXCEPT ![a] = NoSync]
                  /\ Done(w, {[kind |-> "source", account |-> AccountOf[Source[b]],
                               block |-> Source[b], batch |-> info.batch]})
               \/ /\ w.code \in {"FORK", "GAP_PREVIOUS", "PREVIOUS", "CONTINUE"}
                  /\ syncs' = [syncs EXCEPT ![a] = NoSync]
                  /\ Done(w, {})
      /\ UNCHANGED <<processor, rounds, faults>>

\* AgeGapCaches: the account of a block that waited too long.
AgeGapCaches(b) ==
  LET a == AccountOf[b]
      h == HeadHeight(a) + 1
  IN  /\ b \in gaps /\ Room
      /\ gaps' = gaps \ {b}
      /\ IF running
           THEN /\ syncs' = SyncsWith(a, h, HeadOf(a), DEFAULT_BATCH_ID)
                /\ Post(AsksWith(a, h, HeadOf(a), DEFAULT_BATCH_ID))
           ELSE UNCHANGED <<syncs, pending>>
      /\ UNCHANGED <<ledger, queue, forks, rounds, faults>>

-----------------------------------------------------------------------------
(* Rounds of the bootstrap.                                                *)

\* StartSync_ with the peer's head of the account.
StartSync(a) ==
  LET c == Canonical[a]
      add(h, previous) ==
        /\ syncs' = SyncsWith(a, h, previous, count)
        /\ Post(AsksWith(a, h, previous, count))
  IN  /\ a \in todo /\ ~waiting /\ Room
      /\ todo' = todo \ {a}
      /\ \/ /\ HeadHeight(a) < Len(c) - 1
            /\ add(HeadHeight(a) + 1, HeadOf(a))
         \/ /\ HeadHeight(a) >= Len(c) - 1
            /\ ledger[a][Len(c)] = Last(c)
            /\ UNCHANGED <<syncs, pending>>
         \/ /\ HeadHeight(a) >= Len(c) - 1
            /\ ledger[a][Len(c)] # Last(c)
            /\ add(Len(c), ledger[a][Len(c)])
      /\ UNCHANGED <<processor, count, waiting, running, faults>>

\* Run: the round is done; an initial one is waited for.
EndRound ==
  /\ todo = {} /\ ~waiting
  /\ count' = IF count < INITIAL_FULL_BOOTSTRAPS THEN count + 1 ELSE count
  /\ waiting' = (count < INITIAL_FULL_BOOTSTRAPS)
  /\ todo' = IF count < INITIAL_FULL_BOOTSTRAPS THEN {} ELSE Accounts
  /\ UNCHANGED <<processor, syncs, pending, running, faults>>

\* The round fails: no peer, a slow or suspicious one.  It is tried again.
FailRound ==
  /\ ~waiting
  /\ faults < MaxFaults /\ faults' = faults + 1
  /\ todo' = Accounts
  /\ UNCHANGED <<processor, syncs, pending, count, waiting, running>>

\* Wait_ ends, with the last initial round the node starts to run.
Wait ==
  /\ waiting
  /\ \A n \in 0..(count - 1) : Finished(n)
  /\ waiting' = FALSE
  /\ todo' = Accounts
  /\ running' = (count = INITIAL_FULL_BOOTSTRAPS)
  /\ UNCHANGED <<processor, syncs, pending, count, faults>>

-----------------------------------------------------------------------------

\* A thread goes on with an item of the account.
Work(kind, a) ==
  \E w \in Items({kind}) :
    /\ w.account = a
    /\ \/ AskAccount(w) \/ AskSource(w) \/ SyncRelated(w) \/ FoundSource(w)
       \/ QueryAnswered(w) \/ HashAnswered(w) \/ AddBlock(w)
       \/ ProcessorCallback(w)

Missed(a) ==
  \E w \in Items({"query", "hash"}) :
    w.account = a /\ (QueryMissed(w) \/ HashMissed(w))

Kinds == {"ask", "query", "process", "source", "hash", "found", "related",
          "result"}

Round == (\E a \in Accounts : StartSync(a)) \/ EndRound \/ Wait

Next ==
  \/ \E a \in Accounts : Missed(a) \/ \E k \in Kinds : Work(k, a)
  \/ \E b \in Blocks :
       \/ ProcessBlock(b) \/ DropBlock(b) \/ Verdict(b) \/ AgeGapCaches(b)
  \/ \E b \in Published : ReceiveBlock(b)
  \/ Round \/ FailRound

\* Background calls run, queries are answered in the end (BlockQueries),
\* the processor serves its queue and elections come to a verdict.
Fairness ==
  /\ WF_vars(Round)
  /\ WF_vars(\E a \in Accounts : UNCHANGED faults /\ Missed(a))
  /\ WF_vars(\E a \in Accounts, k \in Kinds : Work(k, a))
  /\ WF_vars(\E b \in Blocks : ProcessBlock(b))
  /\ WF_vars(\E b \in Blocks : Verdict(b))

Spec == Init /\ [][Next]_vars /\ Fairness

-----------------------------------------------------------------------------

\* Every synchronisation has exactly one query, or will be told about the
\* block it waits for, whatever other results, drops and forced operations
\* concern its account; and the block is the one for the height it asked
\* for, which QueryCallback asserts.
SyncsServed ==
  \A a \in Accounts :
    LET asked == {w \in Items({"ask", "query"}) : w.account = a}
        info == syncs[a]
    IN  CASE info = NoSync -> asked = {}
          [] info # NoSync ->
               IF info.status = "QUERY"
                 THEN /\ Cardinality(asked) = 1
                      /\ \A w \in asked :
                           /\ pending[w] = 1
                           /\ w.height = info.height
                           /\ w.previous = info.previous
                 ELSE /\ asked = {}
                      /\ Height[info.current] = info.height
                      /\ \/ info.current \in queue
                         \/ \E w \in Items({"process", "result"}) :
                              w.account = a /\ w.block = info.current

\* A batch is not finished while anything of it goes on, so that the node
\* does not run before its initial rounds are done.  There are two windows in
\* which a thread goes on with a batch that may count as finished: before the
\* query of a missing source, and before the synchronisation of a related
\* account.
BatchStaysOpen ==
  \A n \in 0..count : Finished(n) =>
    /\ \A a \in Accounts : syncs[a] # NoSync => syncs[a].batch # n
    /\ \A w \in Items(Kinds \ {"source", "related", "result"}) : w.batch # n

\* The node starts to run, and then has the chains of the network for good,
\* whatever was dropped, missed, rolled back or reported to the wrong party.
EventuallySynced == <>[](running /\ ledger = Canonical)

=============================================================================
