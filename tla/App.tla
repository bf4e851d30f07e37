-------------------------------- MODULE App --------------------------------
(***************************************************************************)
(* The application framework (rai/app): an application follows the chains  *)
(* of a node through a gateway.  It appends blocks before the network has  *)
(* confirmed them where it can, asks the node about blocks in doubt, rolls *)
(* back what the network decided against, and lets blocks wait for others. *)
(*                                                                         *)
(* The node is external: it appends, rolls back and confirms as it likes.  *)
(* Its notifications and answers travel without order and may be lost.     *)
(* Heights are those of the code; a chain is a sequence, so the block at   *)
(* height h is its element h + 1.                                          *)
(***************************************************************************)
EXTENDS Integers, Sequences, FiniteSets, SequencesExt

CONSTANTS
  Accounts, Blocks,
  AccountOf, Height, Previous,  \* of each block; Previous of a first one is NoBlock
  NoBlock,
  Strict,       \* blocks PreBlockAppend wants confirmed
  Needs,        \* block |-> accounts and heights AfterBlockAppend waits for
  Established,  \* the confirmed chains of the node in the beginning
  MaxRollbacks, \* bound on the rollbacks of the node
  MaxFaults,    \* bound on entries aged out and restarts
  MaxActions,   \* bound on queued actions when a message is received
  MaxNotifications  \* bound on notifications on the way; others are lost

ASSUME AppAssumption ==
  /\ NoBlock \notin Blocks
  /\ AccountOf \in [Blocks -> Accounts]
  /\ Height \in [Blocks -> Nat]
  /\ Previous \in [Blocks -> Blocks \cup {NoBlock}]
  /\ Strict \subseteq Blocks
  /\ Needs \in [Blocks -> SUBSET (Accounts \X Nat)]
  /\ \A b \in Blocks :
       IF Previous[b] = NoBlock THEN Height[b] = 0
       ELSE /\ AccountOf[Previous[b]] = AccountOf[b]
            /\ Height[b] = Height[Previous[b]] + 1
  /\ Established \in [Accounts -> Seq(Blocks)]
  /\ \A a \in Accounts : \A i \in DOMAIN Established[a] :
       /\ AccountOf[Established[a][i]] = a
       /\ Height[Established[a][i]] = i - 1
       /\ Previous[Established[a][i]] = IF i = 1 THEN NoBlock ELSE Established[a][i - 1]
  /\ MaxRollbacks \in Nat /\ MaxFaults \in Nat /\ MaxActions \in Nat
  /\ MaxNotifications \in Nat

VARIABLES
  nodeChain, nodeConfirmed,  \* the node's chains and their confirmed lengths
  archive,       \* RollbackBlock of the node
  rollbacks,
  network,       \* notifications to the application
  chain, confirmed,  \* the application's chains and their confirmed lengths
  actions,       \* actions_: by priority, first come first served
  confirms,      \* entries_ of BlockConfirm
  waiting,       \* entries_ of BlockWaiting
  cache,         \* entries_ of BlockCache, at most one for each predecessor
  pendings,      \* of AppBlockQueries: the height each account is asked for
  faults

node == <<nodeChain, nodeConfirmed, archive, rollbacks>>
ledger == <<chain, confirmed>>
tables == <<confirms, waiting, cache, pendings>>
vars == <<node, network, ledger, actions, tables, faults>>

Priorities == {"URGENT", "HIGH", "NORMAL"}
None == -1

HeadHeight(c, a) == Len(c[a]) - 1
HeadOf(c, a) == IF c[a] = <<>> THEN NoBlock ELSE Last(c[a])
Exists(c, b) == \E i \in DOMAIN c[AccountOf[b]] : c[AccountOf[b]][i] = b
Key(b) == <<AccountOf[b], Height[b]>>

Init ==
  /\ nodeChain = Established
  /\ nodeConfirmed = [a \in Accounts |-> Len(Established[a])]
  /\ archive = {} /\ rollbacks = 0
  /\ network = {}
  /\ chain = [a \in Accounts |-> <<>>]
  /\ confirmed = [a \in Accounts |-> 0]
  /\ actions = [p \in Priorities |-> <<>>]
  /\ confirms = {} /\ waiting = {} /\ cache = {}
  /\ pendings = [a \in Accounts |-> None]
  /\ faults = 0

-----------------------------------------------------------------------------
(* The node, as far as an application sees it.                             *)

Notify(kind, b) == [kind |-> kind, block |-> b]

\* Notifications are sent; any of those on the way are lost.
Send(ms) ==
  network' \in {s \in SUBSET (network \cup ms) : Cardinality(s) <= MaxNotifications}

NodeAppend(b) ==
  LET a == AccountOf[b]
  IN  /\ HeadOf(nodeChain, a) = Previous[b]
      /\ nodeChain' = [nodeChain EXCEPT ![a] = Append(@, b)]
      /\ Send({Notify("block_append", b)})
      /\ UNCHANGED <<nodeConfirmed, archive, rollbacks>>
      /\ UNCHANGED <<ledger, actions, tables, faults>>

NodeRollback(a) ==
  /\ rollbacks < MaxRollbacks
  /\ Len(nodeChain[a]) > nodeConfirmed[a]
  /\ rollbacks' = rollbacks + 1
  /\ nodeChain' = [nodeChain EXCEPT ![a] = Front(@)]
  /\ archive' = archive \cup {HeadOf(nodeChain, a)}
  /\ Send({Notify("block_rollback", HeadOf(nodeChain, a))})
  /\ UNCHANGED nodeConfirmed
  /\ UNCHANGED <<ledger, actions, tables, faults>>

\* An election of the block at height h ends; with it all blocks before it
\* are confirmed.  Any client of the gateway may have asked for any of them,
\* so each may be notified.
NodeConfirm(a, h) ==
  LET blocks == {nodeChain[a][i] : i \in (nodeConfirmed[a] + 1)..(h + 1)}
  IN  /\ h \in nodeConfirmed[a]..HeadHeight(nodeChain, a)
      /\ nodeConfirmed' = [nodeConfirmed EXCEPT ![a] = h + 1]
      /\ Send({Notify("block_confirm", b) : b \in blocks})
      /\ UNCHANGED <<nodeChain, archive, rollbacks>>
      /\ UNCHANGED <<ledger, actions, tables, faults>>

-----------------------------------------------------------------------------
(* Queues of the application.                                              *)

Block(b, c) == [kind |-> "block", block |-> b, confirmed |-> c]
Rollback(b) == [kind |-> "rollback", block |-> b, confirmed |-> FALSE]

\* QueueAction: behind the actions of the same priority.
Queued(q, priority, new) == [q EXCEPT ![priority] = @ \o new]

\* BlockConfirm::Add and Remove: one entry for an account and height.
ConfirmsWith(b) == {c \in confirms : Key(c) # Key(b)} \cup {b}
ConfirmsWithout(b) == {c \in confirms : Key(c) # Key(b)}

\* BlockWaiting::Insert: a block that waits already gets only a new flag.
WaitingWith(k, b, c) ==
  IF \E w \in waiting : w.block = b
    THEN {IF w.block = b THEN [w EXCEPT !.confirmed = c] ELSE w : w \in waiting}
    ELSE waiting \cup {[for |-> k, block |-> b, confirmed |-> c]}

\* BlockWaiting::Remove of everything that waits for b or a block before it.
WaitingFor(b) ==
  {w \in waiting : w.for[1] = AccountOf[b] /\ w.for[2] <= Height[b]}

\* QueueWaitings: the order of entries for one height is that of insertion;
\* it is left open here.
Requeue(ws) ==
  {[i \in DOMAIN s |-> Block(s[i].block, s[i].confirmed)] : s \in SetToSeqs(ws)}

\* AppBlockQueries::Add: the query of an account is only ever raised.  There
\* are fewer accounts than CONCURRENCY, so that no query stays in queries_.
AddQuery(a, h) ==
  pendings' = [pendings EXCEPT ![a] = IF h > @ THEN h ELSE @]

\* SyncAccount(account): from the block after the head.
SyncAccount(a) == AddQuery(a, HeadHeight(chain, a) + 1)

\* PullNextBlock, behind the actions in q.
PullNextBlock(b, q) ==
  LET next == {c \in cache : Previous[c] = b}
  IN  \/ /\ next # {}
         /\ actions' = Queued(q, "NORMAL", <<Block(CHOOSE c \in next : TRUE, FALSE)>>)
         /\ cache' = cache \ next
         /\ UNCHANGED pendings
      \/ /\ next = {}
         /\ AddQuery(AccountOf[b], Height[b] + 1)
         /\ actions' = q
         /\ UNCHANGED cache

-----------------------------------------------------------------------------
(* ProcessBlock and ProcessBlockRollback, in the thread of the application.*)

Confirmed(a, h) == h < confirmed[a]

\* WaitBlock for one of the needs of b that is not there confirmed.
Missing(b) == {k \in Needs[b] : ~Confirmed(k[1], k[2])}

WaitBlock(b, c, k) ==
  /\ waiting' = WaitingWith(k, b, c)
  /\ \/ /\ k[2] > HeadHeight(chain, k[1])
        /\ SyncAccount(k[1])
        /\ UNCHANGED confirms
     \/ /\ k[2] <= HeadHeight(chain, k[1])
        /\ confirms' = ConfirmsWith(chain[k[1]][k[2] + 1])
        /\ UNCHANGED pendings
  /\ UNCHANGED <<ledger, cache>>

\* The result of AppendBlock_ before the hooks of the application.
Place(b) ==
  LET a == AccountOf[b]
      h == Height[b]
  IN  CASE h > HeadHeight(chain, a) + 1  -> "GAP_PREVIOUS"
        [] h = HeadHeight(chain, a) + 1  ->
             IF Previous[b] = HeadOf(chain, a) THEN "NEXT" ELSE "PREVIOUS_MISMATCH"
        [] h <= HeadHeight(chain, a) /\ Exists(chain, b) ->
             IF Confirmed(a, h) THEN "CONFIRMED" ELSE "EXIST"
        [] OTHER ->
             IF Confirmed(a, h) THEN "CONFIRMED_FORK" ELSE "FORK"

\* The blocks that wait for b are queued behind rest, then the next one.
Taken(b, c, rest) ==
  LET ws == IF c THEN WaitingFor(b) ELSE {}
  IN  /\ waiting' = waiting \ ws
      /\ \E s \in Requeue(ws) : PullNextBlock(b, Queued(rest, "NORMAL", s))

AppendNext(b, c, rest) ==
  LET a == AccountOf[b]
  IN  \/ /\ b \in Strict /\ ~c                   \* CONFIRM_REQUIRED
         /\ confirms' = ConfirmsWith(b)
         /\ actions' = rest
         /\ UNCHANGED <<ledger, waiting, cache, pendings>>
      \/ /\ b \in Strict => c
         /\ \E k \in Missing(b) : WaitBlock(b, c, k)   \* WAITING
         /\ actions' = rest
      \/ /\ b \in Strict => c
         /\ Missing(b) = {}                      \* SUCCESS
         /\ chain' = [chain EXCEPT ![a] = Append(@, b)]
         /\ confirmed' = IF c THEN [confirmed EXCEPT ![a] = Height[b] + 1]
                              ELSE confirmed
         /\ Taken(b, c, rest)
         /\ UNCHANGED confirms

\* Mutant: the fork is tried again, but the head stays.
ResolveForkKeepHead(b, rest) ==
  actions' = Queued(rest, "HIGH", <<Block(b, TRUE)>>)

\* A confirmed fork: the head goes before anything else, then the fork is
\* tried again; a head above it takes several turns.
ResolveFork(b, rest) ==
  actions' = Queued(Queued(rest, "URGENT", <<Rollback(HeadOf(chain, AccountOf[b]))>>),
                    "HIGH", <<Block(b, TRUE)>>)

AppendBlock(b, c, rest) ==
  LET a == AccountOf[b]
      head == HeadOf(chain, a)
  IN  \/ Place(b) = "NEXT" /\ AppendNext(b, c, rest)
      \/ /\ Place(b) = "EXIST" /\ c
         /\ confirmed' = [confirmed EXCEPT ![a] = Height[b] + 1]
         /\ Taken(b, c, rest)
         /\ UNCHANGED <<chain, confirms>>
      \/ /\ Place(b) = "CONFIRMED"
         /\ waiting' = waiting \ WaitingFor(b)
         /\ \E s \in Requeue(WaitingFor(b)) : actions' = Queued(rest, "NORMAL", s)
         /\ UNCHANGED <<ledger, confirms, cache, pendings>>
      \/ /\ Place(b) = "GAP_PREVIOUS"
         /\ SyncAccount(a)
         /\ actions' = rest
         /\ UNCHANGED <<ledger, confirms, waiting, cache>>
      \/ /\ Place(b) = "PREVIOUS_MISMATCH"
         /\ confirms' = IF head = NoBlock THEN confirms ELSE ConfirmsWith(head)
         /\ actions' = rest
         /\ UNCHANGED <<ledger, waiting, cache, pendings>>
      \/ /\ Place(b) = "FORK" /\ c
         /\ ResolveFork(b, rest)
         /\ UNCHANGED <<ledger, tables>>
      \/ /\ Place(b) = "FORK" /\ ~c
         /\ confirms' = ConfirmsWith(b)
         /\ actions' = rest
         /\ UNCHANGED <<ledger, waiting, cache, pendings>>
      \/ /\ Place(b) = "CONFIRMED_FORK" \/ (Place(b) = "EXIST" /\ ~c)
         /\ actions' = rest
         /\ UNCHANGED <<ledger, tables>>

\* A block others wait for is only taken in confirmed.
ProcessBlock(b, c, rest) ==
  /\ IF ~c /\ \E w \in waiting : w.for = Key(b)
       THEN /\ confirms' = ConfirmsWith(b)
            /\ actions' = rest
            /\ UNCHANGED <<ledger, waiting, cache, pendings>>
       ELSE AppendBlock(b, c, rest)
  /\ UNCHANGED <<node, network, faults>>

\* Mutant: a confirmed head is rolled back too.
ProcessBlockRollbackConfirmed(b, rest) ==
  LET a == AccountOf[b]
      goes == HeadOf(chain, a) = b
  IN  /\ chain' = IF goes THEN [chain EXCEPT ![a] = Front(@)] ELSE chain
      /\ confirmed' = IF goes /\ Confirmed(a, Height[b])
                        THEN [confirmed EXCEPT ![a] = Height[b]] ELSE confirmed
      /\ actions' = rest
      /\ UNCHANGED <<node, network, tables, faults>>

\* RollbackBlock_: only the head, and only while it is not confirmed.
ProcessBlockRollback(b, rest) ==
  LET a == AccountOf[b]
  IN  /\ chain' = IF HeadOf(chain, a) = b /\ ~Confirmed(a, Height[b])
                    THEN [chain EXCEPT ![a] = Front(@)] ELSE chain
      /\ actions' = rest
      /\ UNCHANGED <<node, network, confirmed, tables, faults>>

\* Run: the first action of the highest priority there is.
Run ==
  \E p \in Priorities :
    LET first == actions[p][1]
        rest == [actions EXCEPT ![p] = Tail(@)]
    IN  /\ actions[p] # <<>>
        /\ p # "URGENT" => actions["URGENT"] = <<>>
        /\ p = "NORMAL" => actions["HIGH"] = <<>>
        /\ \/ first.kind = "block" /\ ProcessBlock(first.block, first.confirmed, rest)
           \/ first.kind = "rollback" /\ ProcessBlockRollback(first.block, rest)

-----------------------------------------------------------------------------
(* Notifications of the node, and its answers to the requests that timers  *)
(* of the application repeat.  An answer that is late or lost is a request *)
(* that is answered later: what it says could be said by a late            *)
(* notification as well, and a confirmed block stays confirmed.            *)

Room ==
  Len(actions["URGENT"]) + Len(actions["HIGH"]) + Len(actions["NORMAL"]) < MaxActions

\* ReceiveBlockAppendNotify, ReceiveBlockConfirmNotify,
\* ReceiveBlockRollbackNotify.  A notification may also never arrive.
ReceiveNotify(m) ==
  LET b == m.block
  IN  /\ m \in network /\ Room
      /\ network' = network \ {m}
      /\ actions' = IF m.kind = "block_rollback"
                      THEN Queued(actions, "URGENT", <<Rollback(b)>>)
                      ELSE Queued(actions, "NORMAL", <<Block(b, m.kind = "block_confirm")>>)
      /\ confirms' = IF m.kind = "block_confirm" THEN ConfirmsWithout(b) ELSE confirms
      /\ UNCHANGED <<node, ledger, waiting, cache, pendings, faults>>

\* AppBlockQueries::Run and ReceiveBlocksQueryAck.  The node has the blocks
\* from the height on, of which the first is queued and the others are
\* cached, or it has none of them.
BlocksQuery(a) ==
  LET h == pendings[a]
      blocks == SubSeq(nodeChain[a], h + 1, Len(nodeChain[a]))
      first == IF blocks = <<>> THEN <<>> ELSE <<Block(blocks[1], FALSE)>>
      others == {blocks[i] : i \in 2..Len(blocks)}
  IN  /\ h # None /\ Room
      /\ pendings' = [pendings EXCEPT ![a] = None]
      /\ actions' = Queued(actions, "NORMAL", first)
      /\ cache' = cache \cup
           {b \in others : \A c \in cache : Previous[c] # Previous[b]}
      /\ UNCHANGED <<node, network, ledger, confirms, waiting, faults>>

\* BlockConfirm::Run, the node's handler NodeRpcHandler::BlockConfirm and
\* ReceiveBlockConfirmAck.  An entry without a definite answer stays; for an
\* unconfirmed block the request starts an election (Fairness).
RequestConfirm(b) ==
  LET a == AccountOf[b]
      h == Height[b]
  IN  /\ b \in confirms
      /\ \/ /\ h > HeadHeight(nodeChain, a) /\ b \in archive
            /\ actions' = Queued(actions, "URGENT", <<Rollback(b)>>)
         \/ /\ h < nodeConfirmed[a]
            /\ actions' = Queued(actions, "NORMAL", <<Block(nodeChain[a][h + 1], TRUE)>>)
      /\ confirms' = ConfirmsWithout(b)
      /\ UNCHANGED <<node, network, ledger, waiting, cache, pendings, faults>>

\* AppBootstrap::Run and ProcessAccountHeads: the heads of all accounts.  A
\* round starts when the queries of the last one are done.
Behind ==
  {a \in Accounts : /\ nodeChain[a] # <<>>
                    /\ chain[a] = <<>> \/ Len(nodeChain[a]) > Len(chain[a])}

Forked ==
  {b \in {HeadOf(nodeChain, a) : a \in Accounts \ Behind} \ {NoBlock} :
     ~Confirmed(AccountOf[b], Height[b]) /\ ~Exists(chain, b)}

Bootstrap ==
  /\ \A p \in Priorities : actions[p] = <<>>
  /\ \A a \in Accounts : pendings[a] = None
  /\ pendings' = [a \in Accounts |->
                    IF a \in Behind THEN HeadHeight(chain, a) + 1 ELSE None]
  /\ confirms' = {c \in confirms : \A b \in Forked : Key(b) # Key(c)} \cup Forked
  /\ UNCHANGED <<node, network, ledger, actions, waiting, cache, faults>>

-----------------------------------------------------------------------------
(* Faults.                                                                 *)

Fault == faults < MaxFaults /\ faults' = faults + 1

\* BlockCache::Age and BlockWaiting::Age.
Age ==
  /\ Fault
  /\ \/ \E b \in cache : cache' = cache \ {b} /\ UNCHANGED waiting
     \/ \E w \in waiting : waiting' = waiting \ {w} /\ UNCHANGED cache
  /\ UNCHANGED <<node, network, ledger, actions, confirms, pendings>>

\* The process stops and starts again with its ledger.
Restart ==
  /\ Fault
  /\ actions' = [p \in Priorities |-> <<>>]
  /\ confirms' = {} /\ waiting' = {} /\ cache' = {}
  /\ pendings' = [a \in Accounts |-> None]
  /\ network' = {}
  /\ UNCHANGED <<node, ledger>>

Next ==
  \/ \E b \in Blocks : NodeAppend(b) \/ RequestConfirm(b)
  \/ \E a \in Accounts :
       \/ NodeRollback(a) \/ BlocksQuery(a)
       \/ \E h \in 0..HeadHeight(nodeChain, a) : NodeConfirm(a, h)
  \/ \E m \in network : ReceiveNotify(m)
  \/ Run \/ Bootstrap \/ Age \/ Restart

\* Threads serve their queues, timers fire again, messages that are not lost
\* arrive, and a block somebody asked for is confirmed by the network.
Fairness ==
  /\ WF_vars(Run) /\ WF_vars(Bootstrap)
  /\ \A k \in {Key(b) : b \in Blocks} :
       WF_vars(\E b \in Blocks : Key(b) = k /\ RequestConfirm(b))
  /\ \A a \in Accounts :
       /\ WF_vars(BlocksQuery(a))
       /\ WF_vars(\E h \in 0..HeadHeight(nodeChain, a) :
                   /\ \E b \in confirms : Key(b) = <<a, h>>
                   /\ NodeConfirm(a, h))

Spec == Init /\ [][Next]_vars /\ Fairness

-----------------------------------------------------------------------------

Final(c, n, a) == SubSeq(c[a], 1, n[a])

\* What the application holds for confirmed is confirmed by the network, in
\* the network's order, and is never taken back: whatever rollbacks, forks
\* and confirmations arrive late, and in whichever order their priorities
\* put them.
ConfirmedFollows ==
  /\ [](\A a \in Accounts : IsPrefix(Final(chain, confirmed, a),
                                     Final(nodeChain, nodeConfirmed, a)))
  /\ [][\A a \in Accounts : IsPrefix(Final(chain, confirmed, a),
                                     Final(chain', confirmed', a))]_vars

\* Again and again the application has every block the network has confirmed
\* like all it waits for: forks are given up, gaps are filled, waiting blocks
\* are taken up, whatever was lost, aged out or forgotten in a restart.
NodeHasConfirmed(b) ==
  /\ Height[b] < nodeConfirmed[AccountOf[b]]
  /\ nodeChain[AccountOf[b]][Height[b] + 1] = b
  /\ \A k \in Needs[b] : k[2] < nodeConfirmed[k[1]]

CatchesUp == []<>(\A b \in Blocks : NodeHasConfirmed(b) => Exists(chain, b))

=============================================================================
