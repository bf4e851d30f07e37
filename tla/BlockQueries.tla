---------------------------- MODULE BlockQueries ----------------------------
(***************************************************************************)
(* Asking peers for a block (rai/node/blockquery.cpp).  A query is sent to *)
(* a random peer and repeated, with another random peer, until its         *)
(* callback is satisfied; the block processor's callback wants the block   *)
(* itself.  Requests and answers travel as datagrams: they may be lost,    *)
(* repeated and late.                                                      *)
(*                                                                         *)
(* The query thread (timeouts) and the network threads (answers) take a    *)
(* query out of the table under the mutex, work on it without the mutex    *)
(* and put it back.  Every caller in the repository leaves the choice of   *)
(* the peer to the node, so a query has one peer and one answer at a time. *)
(***************************************************************************)
EXTENDS Integers, FiniteSets

CONSTANTS
  Queries,       \* sequence numbers
  Peers,
  FullNodes,     \* peers that keep whole chains
  Runner,        \* the query thread
  Network,       \* network threads
  Reply,         \* [Peers -> status]: what the peer answers
  None,
  MaxCount       \* bound: requests per query that are told apart

Threads == Network \cup {Runner}

ASSUME QueriesAssumption ==
  /\ FullNodes \subseteq Peers
  /\ Runner \notin Network
  /\ \A p \in Peers : Reply[p] \in {"SUCCESS", "MISS", "PRUNED"}
  /\ MaxCount \in Nat \ {0}

VARIABLES
  table,      \* queries_: sequence -> query
  held,       \* the query a thread works on
  connected,  \* peers of the node
  acks,       \* answers sent: each may arrive late, often or never
  finished    \* how often the callback of a query was satisfied

queriesVars == <<table, held, connected, acks, finished>>

\* The peer asked last and its answer; only_full_node_; count_.
NewQuery(s) == [sequence |-> s, from |-> None, ack |-> None, full |-> FALSE,
                count |-> 0]

Idle == [at |-> "idle"]

QueriesInit ==
  /\ table = <<>>
  /\ held = [t \in Threads |-> Idle]
  /\ connected = Peers
  /\ acks = {}
  /\ finished = [s \in Queries |-> 0]

Issued == {s \in Queries : \/ s \in DOMAIN table
                           \/ finished[s] > 0
                           \/ \E t \in Threads : held[t].at # "idle"
                                                 /\ held[t].query.sequence = s}

\* QueryByHash and its variants: a new sequence number, wakes up at once.
QueryByHash(s) ==
  /\ s \notin Issued
  /\ table' = [x \in DOMAIN table \cup {s} |-> IF x = s THEN NewQuery(s) ELSE table[x]]
  /\ UNCHANGED <<held, connected, acks, finished>>

Working(t, at, query) == held' = [held EXCEPT ![t] = [at |-> at, query |-> query]]

\* Mutant: the query stays in the table while a thread works on it.
TakeOutCopy(s) == UNCHANGED table

TakeOut(s) == table' = [x \in DOMAIN table \ {s} |-> table[x]]

\* Run: the time of a query has come (its answer may be on the way).
Run(s) ==
  /\ held[Runner] = Idle /\ s \in DOMAIN table
  /\ TakeOut(s)
  /\ Working(Runner, "timeout", table[s])
  /\ UNCHANGED <<connected, acks, finished>>

\* ProcessQuery: an answer that did not come is a timeout, with which no
\* callback is satisfied; the query goes out (again).
ProcessQuery ==
  /\ held[Runner].at = "timeout"
  /\ LET q == held[Runner].query
     IN  Working(Runner, "send",
                 [q EXCEPT !.full = @ \/ q.ack = "PRUNED",
                           !.ack = IF q.count = 0 THEN @ ELSE "PENDING"])
  /\ UNCHANGED <<table, connected, acks, finished>>

\* ProcessQueryAck, under the mutex: an answer of the peer that was asked
\* last takes the query out of the table.
ProcessQueryAck(t, m) ==
  /\ held[t] = Idle /\ m.sequence \in DOMAIN table
  /\ LET q == table[m.sequence]
     IN  /\ q.from = m.peer
         /\ Working(t, "answered", [q EXCEPT !.ack = m.status,
                                             !.full = @ \/ m.status = "PRUNED"])
  /\ TakeOut(m.sequence)
  /\ UNCHANGED <<connected, acks, finished>>

\* The callback of the block processor: the block ends the query, any other
\* answer repeats it.
Callback(t) ==
  /\ held[t].at = "answered"
  /\ LET q == held[t].query
     IN  IF q.ack = "SUCCESS"
         THEN /\ finished' = [finished EXCEPT ![q.sequence] = @ + 1]
              /\ held' = [held EXCEPT ![t] = Idle]
         ELSE /\ Working(t, "send", [q EXCEPT !.ack = "PENDING"])
              /\ UNCHANGED finished
  /\ UNCHANGED <<table, connected, acks>>

\* Mutant: the peer asked first is asked again and again.
SendQuerySame(t, p) ==
  /\ held[t].at = "send"
  /\ LET q == held[t].query
     IN  /\ p \in connected
         /\ q.from \in {None, p}
         /\ acks' = acks \cup {[sequence |-> q.sequence, peer |-> p,
                                status |-> Reply[p]]}
         /\ Working(t, "insert", [q EXCEPT !.from = p, !.ack = "PENDING",
                                           !.count = MaxCount])
  /\ UNCHANGED <<table, connected, finished>>

\* SendQuery_: ask a random peer.  Its answer may be there before the query
\* is back in the table.
SendQuery(t, p) ==
  /\ held[t].at = "send"
  /\ LET q == held[t].query
         count == IF q.count < MaxCount THEN q.count + 1 ELSE q.count
     IN  /\ p \in connected
         /\ q.full => p \in FullNodes
         /\ acks' = acks \cup {[sequence |-> q.sequence, peer |-> p,
                                status |-> Reply[p]]}
         /\ Working(t, "insert", [q EXCEPT !.from = p, !.ack = "PENDING",
                                           !.count = count])
  /\ UNCHANGED <<table, connected, finished>>

NoPeer(t) ==
  /\ held[t].at = "send"
  /\ connected \cap (IF held[t].query.full THEN FullNodes ELSE Peers) = {}
  /\ Working(t, "insert", held[t].query)
  /\ UNCHANGED <<table, connected, acks, finished>>

Insert(t) ==
  /\ held[t].at = "insert"
  /\ LET q == held[t].query
     IN  table' = [x \in DOMAIN table \cup {q.sequence} |->
                     IF x = q.sequence THEN q ELSE table[x]]
  /\ held' = [held EXCEPT ![t] = Idle]
  /\ UNCHANGED <<connected, acks, finished>>

\* Peers come and go.
Connect(p) ==
  /\ connected' = IF p \in connected THEN connected \ {p} ELSE connected \cup {p}
  /\ UNCHANGED <<table, held, acks, finished>>

Work(t) == (t = Runner /\ ProcessQuery) \/ Callback(t) \/ NoPeer(t) \/ Insert(t)

QueriesNext ==
  \/ \E s \in Queries : QueryByHash(s) \/ Run(s)
  \/ \E t \in Network, m \in acks : ProcessQueryAck(t, m)
  \/ \E t \in Threads : Work(t) \/ \E p \in Peers : SendQuery(t, p)
  \/ \E p \in Peers : Connect(p)

\* A successful answer arrives for a query that still waits for this peer.
Succeed(s) == \E t \in Network, m \in acks :
                /\ m.sequence = s /\ m.status = "SUCCESS"
                /\ ProcessQueryAck(t, m)

\* A peer that has the block is asked.
Holders == {p \in FullNodes : Reply[p] = "SUCCESS"}

AskHolder(t) == \E p \in Holders : SendQuery(t, p)

(***************************************************************************)
(* No thread stops in the middle of its work and timers expire.  The peer  *)
(* is random, so a connected one that has the block is asked in the end,   *)
(* and of many answers that could arrive in time one does.                 *)
(***************************************************************************)
QueriesFairness ==
  /\ \A s \in Queries : SF_queriesVars(Run(s)) /\ SF_queriesVars(Succeed(s))
  /\ \A t \in Threads : /\ WF_queriesVars(Work(t) \/ \E p \in Peers : SendQuery(t, p))
                        /\ SF_queriesVars(AskHolder(t))

QueriesSpec == QueriesInit /\ [][QueriesNext]_queriesVars /\ QueriesFairness

-----------------------------------------------------------------------------
(* Properties.                                                             *)

(***************************************************************************)
(* A query that was started is never lost and never doubled, whatever      *)
(* timeouts and answers do at the same time: it is in the table, or one    *)
(* thread works on it, or it is finished, once and for all.  (Each answer  *)
(* fills the top of an operation's stack in the block processor: none      *)
(* would leave the operation waiting for ever, two would corrupt it.)      *)
(***************************************************************************)
Places(s) ==
  Cardinality({t \in Threads : held[t].at # "idle" /\ held[t].query.sequence = s})
  + (IF s \in DOMAIN table THEN 1 ELSE 0) + finished[s]

NeverLost == [][\A s \in Queries : Places(s) = 1 => Places(s)' = 1]_queriesVars

(***************************************************************************)
(* Every query is answered in the end if from some time on a full node     *)
(* that has the block stays connected, although an answer can arrive       *)
(* before the query is back in the table, a timeout can take the query     *)
(* away from an answer and there may have been no peer to ask for a while. *)
(***************************************************************************)
EveryQueryAnswered ==
  \A s \in Queries :
    (\E p \in Holders : <>[](p \in connected))
      => ((s \in DOMAIN table) ~> (finished[s] = 1))

=============================================================================
