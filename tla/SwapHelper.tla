----------------------------- MODULE SwapHelper -----------------------------
(***************************************************************************)
(* The swap helper (rai/rai_token/swaphelper.cpp): a maker may leave a     *)
(* take-nack block for its trade with the application, which stores it and *)
(* publishes it, again and again, when the deadline of the swap has passed *)
(* and the maker has no block at the height of the trade.                  *)
(*                                                                         *)
(* The helper has a thread of its own.  It reads the maker's record in a   *)
(* transaction and acts on what it read; the thread of the application     *)
(* changes the ledger in between (SwapLife), and deletes stored blocks     *)
(* when the helper's request comes up in its queue.                        *)
(***************************************************************************)
EXTENDS SwapLife, FiniteSets

CONSTANTS
  MaxRestarts   \* bound on the number of restarts

ASSUME SwapHelperAssumption ==
  /\ Heads \in [Parties -> Int]
  /\ MaxHeight \in [Parties -> Nat]
  /\ MaxRestarts \in Nat

VARIABLES
  due,         \* swaps whose deadline, the time of the block, has passed
  nacks,       \* TakeNackBlock: swaps with a stored take-nack block
  entries,     \* entries_ of the helper
  reading,     \* the entry in Process with the record read, or NoDeal
  purges,      \* queued calls of ProcessTakeNackBlockPurge
  published,   \* take-nack blocks on their way to the network
  restarts

helperVars == <<due, nacks, entries, reading, purges, published, restarts>>
swapVars == <<lifeVars, helperVars>>

Maker(s) == deal[s][1]
TradeHeight(s) == deal[s][2]

HelperInit ==
  /\ LifeInit
  /\ due = {} /\ nacks = {} /\ entries = {} /\ purges = {} /\ published = {}
  /\ reading = NoDeal
  /\ restarts = 0

\* The thread of the application.
Application == LifeNext /\ UNCHANGED helperVars

\* ProcessTakeNackBlock.  The block follows the confirmed head of the maker.
ProcessTakeNackBlock(s) ==
  /\ s \notin nacks
  /\ status[s] = "INQUIRY_ACK"
  /\ head[Maker(s)] = TradeHeight(s) - 1
  /\ confirmed[Maker(s)] = head[Maker(s)]
  /\ nacks' = nacks \cup {s}
  /\ entries' = entries \cup {s}
  /\ UNCHANGED <<lifeVars, due, reading, purges, published, restarts>>

\* Time passes the deadline of the swap.
Deadline(s) ==
  /\ deal[s] # NoDeal /\ s \notin due
  /\ due' = due \cup {s}
  /\ UNCHANGED <<lifeVars, nacks, entries, reading, purges, published, restarts>>

\* Run picks an entry whose time has come; Process reads the maker's record.
ProcessRead(s) ==
  /\ s \in entries /\ s \in due
  /\ reading = NoDeal
  /\ reading' = [swap |-> s, head |-> head[Maker(s)],
                 confirmed |-> confirmed[Maker(s)]]
  /\ UNCHANGED <<lifeVars, due, nacks, entries, purges, published, restarts>>

\* Mutant: the entry goes as soon as the maker has a block at the height.
ProcessActUnconfirmed(s) ==
  /\ reading # NoDeal
  /\ reading.swap = s
  /\ IF reading.head < TradeHeight(s)
       THEN published' = published \cup {s} /\ UNCHANGED <<purges, entries>>
       ELSE /\ purges' = purges \cup {s}
            /\ entries' = entries \ {s}
            /\ UNCHANGED published
  /\ reading' = NoDeal
  /\ UNCHANGED <<lifeVars, due, nacks, restarts>>

\* Mutant: the entry is removed with the first try.
ProcessActOnce(s) ==
  /\ reading # NoDeal
  /\ reading.swap = s
  /\ published' = published \cup {s}
  /\ entries' = entries \ {s}
  /\ reading' = NoDeal
  /\ UNCHANGED <<lifeVars, due, nacks, purges, restarts>>

\* The rest of Process: publish, leave it for later, or purge and remove.
ProcessAct(s) ==
  /\ reading # NoDeal
  /\ reading.swap = s
  /\ \/ /\ reading.head < TradeHeight(s)
        /\ published' = published \cup {s}
        /\ UNCHANGED <<purges, entries>>
     \/ /\ reading.head >= TradeHeight(s)
        /\ reading.confirmed < TradeHeight(s)
        /\ UNCHANGED <<purges, entries, published>>
     \/ /\ reading.confirmed >= TradeHeight(s)
        /\ purges' = purges \cup {s}
        /\ entries' = entries \ {s}
        /\ UNCHANGED published
  /\ reading' = NoDeal
  /\ UNCHANGED <<lifeVars, due, nacks, restarts>>

ProcessTakeNackBlockPurge(s) ==
  /\ s \in purges
  /\ purges' = purges \ {s}
  /\ nacks' = nacks \ {s}
  /\ UNCHANGED <<lifeVars, due, entries, reading, published, restarts>>

\* The network confirms a published block and the application appends it (it
\* follows the maker's block before the trade), or the network drops it.
TakeNackConfirmed(s) ==
  /\ s \in published
  /\ head[Maker(s)] = TradeHeight(s) - 1
  /\ head' = [head EXCEPT ![Maker(s)] = @ + 1]
  /\ confirmed' = [confirmed EXCEPT ![Maker(s)] = TradeHeight(s)]
  /\ Settle(TakesAt(Maker(s), TradeHeight(s)), {}, <<>>)
  /\ published' = published \ {s}
  /\ UNCHANGED <<deal, due, nacks, entries, reading, purges, restarts>>

TakeNackLost(s) ==
  /\ s \in published
  /\ published' = published \ {s}
  /\ UNCHANGED <<lifeVars, due, nacks, entries, reading, purges, restarts>>

\* The process stops and starts again: ReadTakeNackBlocks_.
Restart ==
  /\ restarts < MaxRestarts
  /\ restarts' = restarts + 1
  /\ entries' = nacks
  /\ reading' = NoDeal
  /\ purges' = {}
  /\ UNCHANGED <<lifeVars, due, nacks, published>>

HelperNext ==
  \/ Application
  \/ \E s \in Swaps :
       \/ ProcessTakeNackBlock(s) \/ Deadline(s)
       \/ ProcessRead(s) \/ ProcessAct(s)
       \/ ProcessTakeNackBlockPurge(s)
       \/ TakeNackConfirmed(s) \/ TakeNackLost(s)
  \/ Restart

\* Time passes, the helper serves its entries by their times and so each of
\* them, the application serves its queue, and a block that is published
\* again and again is confirmed in the end.
HelperFairness ==
  \A s \in Swaps :
    /\ WF_swapVars(Deadline(s))
    /\ SF_swapVars(ProcessRead(s))
    /\ WF_swapVars(ProcessAct(s))
    /\ WF_swapVars(ProcessTakeNackBlockPurge(s))
    /\ SF_swapVars(TakeNackConfirmed(s))

HelperSpec == HelperInit /\ [][HelperNext]_swapVars /\ HelperFairness

-----------------------------------------------------------------------------

\* A stored take-nack block is in the hands of the helper or already asked to
\* be deleted, and it is only asked to be deleted when the maker has a
\* confirmed block at the height of the trade: until then no restart, late
\* request or stale reading makes the application forget it.
NacksKept ==
  /\ nacks \subseteq entries \cup purges
  /\ \A s \in purges : confirmed[Maker(s)] >= TradeHeight(s)

\* A take whose maker left a take-nack block with the application is settled
\* in the end, whatever is lost on the way: nobody has to wait for the maker.
NackedTakesSettle ==
  \A s \in Swaps :
    (s \in nacks /\ status[s] = "TAKE") ~> (status[s] # "TAKE")

=============================================================================
