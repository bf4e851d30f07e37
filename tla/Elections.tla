----------------------------- MODULE Elections -----------------------------
(***************************************************************************)
(* The elections of a node (rai/node/election.cpp).  An election is about  *)
(* one position, a height of an account.  It collects the last vote of     *)
(* every representative and the blocks these votes name, counts them from  *)
(* time to time and ends when one block has the confidence of the network: *)
(* the block processor is then told to confirm it.  Where blocks compete,  *)
(* the same block must win several counts in a row.                        *)
(*                                                                         *)
(* Message handlers add blocks and votes, one thread counts; all of them   *)
(* hold one mutex, so each is one action.  When an election is counted     *)
(* next (wakeup_) is left open.  Only a few elections may be counted at a  *)
(* time (actives_ and forks_).                                             *)
(*                                                                         *)
(* Hashes and accounts are numbers, as in the code, which orders by them.  *)
(* Ballots are the votes representatives signed; each may be delivered     *)
(* late, repeatedly or never.  Two ballots of one representative that      *)
(* contradict each other can also arrive as a proof of the conflict.       *)
(***************************************************************************)
EXTENDS Integers, Sequences, FiniteSets, FiniteSetsExt, TLC

CONSTANTS
  Accounts, Blocks,
  Block,                           \* [Blocks -> [account, height]]
  Reps, Honest,
  Ballots,                         \* signed votes: [rep, timestamp, hash]
  WeightTables,                    \* [Reps -> Nat]: weights in the ledger
  OnlineSets,                      \* representatives connected at a time
  CONFIRM_WEIGHT_PERCENTAGE,
  FORK_ELECTION_ROUNDS_THRESHOLD,
  CUTOFF_ROUNDS,
  FORK_CONCURRENCY, concurrency_,
  MIN_CONFIRM_INTERVAL,
  MAX_TIMESTAMP_DIFF,
  ForkTimeDiff, TimeDiffNoFork,    \* age up to which a vote counts in full
  NoBlock,                         \* the zero hash
  MaxNow,                          \* bound: the clock
  MaxRounds,                       \* bound: counts of a contested election
  MaxAdds                          \* bound: calls of Add

\* Two votes of one representative for one position contradict each other.
CheckConflict(v, w) ==
  /\ ~(v.timestamp = w.timestamp /\ v.hash = w.hash)
  /\ v.timestamp - w.timestamp < MIN_CONFIRM_INTERVAL
  /\ w.timestamp - v.timestamp < MIN_CONFIRM_INTERVAL

SamePosition(b, c) ==
  Block[b].account = Block[c].account /\ Block[b].height = Block[c].height

\* Honest representatives date their votes with a ConfirmManager (Voting).
ASSUME ElectionsAssumption ==
  /\ Accounts \subseteq Nat /\ Blocks \subseteq Nat /\ NoBlock \in Nat \ Blocks
  /\ Block \in [Blocks -> [account : Accounts, height : Nat]]
  /\ Honest \subseteq Reps
  /\ Ballots \subseteq [rep : Reps, timestamp : Nat, hash : Blocks]
  /\ \A v, w \in Ballots :
       v.rep = w.rep /\ v.rep \in Honest /\ SamePosition(v.hash, w.hash)
         => ~CheckConflict(v, w)
  /\ WeightTables \subseteq [Reps -> Nat] /\ OnlineSets \subseteq SUBSET Reps
  /\ FORK_CONCURRENCY \in Nat \ {0} /\ concurrency_ \in Nat \ {0}
  /\ FORK_ELECTION_ROUNDS_THRESHOLD \in Nat \ {0} /\ CUTOFF_ROUNDS \in Nat

VARIABLES
  elections,   \* elections_: account -> election
  slots,       \* actives_ and forks_: the accounts whose elections proceed
  weights,     \* the weights and the total last read from the ledger
  online,      \* online_reps_
  now,
  forced,      \* what the last step asked of the block processor
  counts,      \* history: the outcomes of the last turns of each contested election
  adds

vars == <<elections, slots, weights, online, now, forced, counts, adds>>

Nothing == [operation |-> "NONE", block |-> NoBlock]

Init ==
  /\ elections = <<>>
  /\ slots = [actives |-> {}, forks |-> {}]
  /\ weights \in WeightTables
  /\ online \in OnlineSets
  /\ now = 0
  /\ forced = Nothing
  /\ counts = [a \in Accounts |-> <<>>]
  /\ adds = 0

-----------------------------------------------------------------------------
(* One election.                                                           *)

\* The map f with the value x at the key k.
Put(f, k, x) == [y \in DOMAIN f \cup {k} |-> IF y = k THEN x ELSE f[y]]

NewElection(height) ==
  [height |-> height, blocks |-> <<>>, votes |-> <<>>, conflicts |-> <<>>,
   fork |-> FALSE, broadcast |-> TRUE, rounds |-> 0, roundsFork |-> 0,
   wins |-> 0, confirms |-> 0, winner |-> NoBlock]

\* blocks counts the references to each block; an election with a second
\* block is contested from then on.
AddBlocks(e, bs) ==
  LET more == [b \in DOMAIN e.blocks \cup bs |->
                 (IF b \in DOMAIN e.blocks THEN e.blocks[b] ELSE 0)
                 + (IF b \in bs THEN 1 ELSE 0)]
      found == ~e.fork /\ bs \ DOMAIN e.blocks # {} /\ Cardinality(DOMAIN more) > 1
  IN  [e EXCEPT !.blocks = more,
                !.fork = @ \/ found,
                !.broadcast = @ \/ found]

AddBlock(e, b) == AddBlocks(e, {b})

\* Mutant: a block goes with the first reference to it.
DelBlockEager(e, h) ==
  IF h \notin DOMAIN e.blocks \/ Cardinality(DOMAIN e.blocks) = 1 THEN e
  ELSE [e EXCEPT !.blocks = [b \in DOMAIN e.blocks \ {h} |-> e.blocks[b]]]

\* A block nobody refers to goes, except the last one.
DelBlock(e, h) ==
  IF h \notin DOMAIN e.blocks \/ e.blocks[h] = 0 THEN e
  ELSE IF e.blocks[h] = 1 /\ Cardinality(DOMAIN e.blocks) > 1
  THEN [e EXCEPT !.blocks = [b \in DOMAIN e.blocks \ {h} |-> e.blocks[b]]]
  ELSE [e EXCEPT !.blocks[h] = @ - 1]

AddRepVoteInfo(e, rep, conflict, vote) ==
  [e EXCEPT !.votes = Put(@, rep, [conflict |-> conflict, timestamp |-> vote.timestamp,
                                   hash |-> vote.hash])]

AddConflict(e, rep, vote) ==
  [e EXCEPT !.conflicts = Put(@, rep, [timestamp |-> vote.timestamp,
                                       hash |-> vote.hash])]

TimeDiff(e) == IF e.fork THEN ForkTimeDiff ELSE TimeDiffNoFork

\* The share of its weight, in percent, a vote of this date has: full within
\* `allow` of the clock, then falling to nothing.
WeightFactor(timestamp, allow) ==
  LET age == IF timestamp <= now THEN now - timestamp ELSE timestamp - now
  IN  IF allow = 0 \/ allow > MAX_TIMESTAMP_DIFF \/ age >= 2 * allow THEN 0
      ELSE IF age <= allow THEN 100
      ELSE ((2 * allow - age) * 100) \div allow

\* Mutants: the votes that prove a conflict are forgotten, too; and the
\* proof with them.
PurgeAllVotes(e) ==
  {[e EXCEPT !.votes =
      [r \in {s \in DOMAIN e.votes :
                WeightFactor(e.votes[s].timestamp, TimeDiff(e)) # 0} |-> e.votes[r]]]}

PurgeConflicts(e) ==
  LET fresh == {r \in DOMAIN e.votes :
                  WeightFactor(e.votes[r].timestamp, TimeDiff(e)) # 0}
  IN  {[e EXCEPT !.votes = [r \in fresh |-> e.votes[r]],
                 !.conflicts = [r \in fresh \cap DOMAIN e.conflicts |-> e.conflicts[r]]]}

Outdated(e) == {r \in DOMAIN e.votes \ DOMAIN e.conflicts :
                  WeightFactor(e.votes[r].timestamp, TimeDiff(e)) = 0}

\* Votes without weight are forgotten, unless they prove a conflict, and with
\* each a reference to its block.  When no block is left, the one whose turn
\* came last stays: votes_ is not ordered, so this may be any.
PurgeOutdatedVotes(e) ==
  LET votes == [r \in DOMAIN e.votes \ Outdated(e) |-> e.votes[r]]
      Released(b) == Cardinality({r \in Outdated(e) : e.votes[r].hash = b})
      held == {b \in DOMAIN e.blocks : e.blocks[b] = 0 \/ Released(b) < e.blocks[b]}
      Left(b) == IF Released(b) < e.blocks[b] THEN e.blocks[b] - Released(b) ELSE 0
  IN  {[e EXCEPT !.votes = votes, !.blocks = [b \in kept |-> Left(b)]] :
         kept \in IF held # {} THEN {held} ELSE {{b} : b \in DOMAIN e.blocks}}

-----------------------------------------------------------------------------
(* Counting.                                                               *)

Total == MapThenSumSet(LAMBDA r : weights[r], Reps)

Weighty(part) == part * 100 > Total * CONFIRM_WEIGHT_PERCENTAGE

Tally(e) ==
  LET counted == {r \in DOMAIN e.votes \cap online : ~e.votes[r].conflict}
      Adjusted(r) ==
        (weights[r] * WeightFactor(e.votes[r].timestamp, TimeDiff(e))) \div 100
      For(h) == MapThenSumSet(Adjusted, {r \in counted : e.votes[r].hash = h})
      candidates == {e.votes[r].hash : r \in {c \in counted : Adjusted(c) # 0}}
      first == CHOOSE h \in candidates : \A other \in candidates \ {h} :
                 \/ For(h) > For(other)
                 \/ For(h) = For(other) /\ h > other
      second == Max({For(h) : h \in candidates \ {first}} \cup {0})
      notVoting == MapThenSumSet(LAMBDA r : weights[r], online \ DOMAIN e.votes)
      valid == MapThenSumSet(Adjusted, counted)
      confirm == Weighty(For(first))
  IN  IF candidates = {}
      THEN [error |-> FALSE, win |-> FALSE, confirm |-> FALSE, block |-> NoBlock]
      ELSE [error   |-> first \notin DOMAIN e.blocks,
            confirm |-> confirm,
            win     |-> \/ confirm
                        \/ /\ Weighty(MapThenSumSet(LAMBDA r : weights[r], online))
                           /\ For(first) > second + notVoting
                        \/ /\ Weighty(valid)
                           /\ e.roundsFork > FORK_ELECTION_ROUNDS_THRESHOLD * 2
                           /\ For(first) > second,
            block   |-> first]

-----------------------------------------------------------------------------
(* Slots: how many elections proceed at a time.                            *)

\* Mutant: an election that becomes contested keeps its slot in actives.
TryConcurrencyBoth(S, a, fork) ==
  IF fork
  THEN LET joined == S.forks \cup {a}
       IN  [S EXCEPT !.forks = IF Cardinality(joined) > FORK_CONCURRENCY
                               THEN joined \ {Max(joined)} ELSE joined]
  ELSE [actives |-> IF Cardinality(S.actives) < concurrency_
                    THEN S.actives \cup {a} ELSE S.actives,
        forks   |-> S.forks \ {a}]

\* The new slots; the election must wait when the account is in neither.
TryConcurrency(S, a, fork) ==
  IF fork
  THEN LET joined == S.forks \cup {a}
       IN  [actives |-> S.actives \ {a},
            forks   |-> IF a \notin S.forks /\ Cardinality(joined) > FORK_CONCURRENCY
                        THEN joined \ {Max(joined)} ELSE joined]
  ELSE [actives |-> IF Cardinality(S.actives) < concurrency_
                    THEN S.actives \cup {a} ELSE S.actives,
        forks   |-> S.forks \ {a}]

Proceeds(S, a) == a \in S.actives \cup S.forks

Erase(a) ==
  /\ elections' = [x \in DOMAIN elections \ {a} |-> elections[x]]
  /\ counts' = [counts EXCEPT ![a] = <<>>]

\* Mutant: an uncontested election that ends keeps its slot.
SlotsWithoutFork(S, a) == [S EXCEPT !.forks = @ \ {a}]

SlotsWithout(S, a) == [actives |-> S.actives \ {a}, forks |-> S.forks \ {a}]

\* Store the election; one that has become contested changes its slot.
Store(a, before, after) ==
  /\ elections' = [elections EXCEPT ![a] = after]
  /\ slots' = IF after.fork /\ ~before.fork THEN TryConcurrency(slots, a, TRUE)
              ELSE slots

-----------------------------------------------------------------------------
(* What other threads do to the elections.                                 *)

\* Elections::Add: an election for a lower position replaces a higher one.
Add(a, h, bs) ==
  LET existing == a \in DOMAIN elections
  IN  /\ adds < MaxAdds
      /\ adds' = adds + 1
      /\ IF existing /\ elections[a].height < h
         THEN UNCHANGED <<elections, slots, counts>>
         ELSE IF existing /\ elections[a].height = h
         THEN /\ Store(a, elections[a], AddBlocks(elections[a], bs))
              /\ UNCHANGED counts
         ELSE LET e == AddBlocks(NewElection(h), bs)
                  free == IF existing THEN SlotsWithout(slots, a) ELSE slots
              IN  /\ elections' = Put(elections, a, e)
                  /\ slots' = IF e.fork THEN TryConcurrency(free, a, TRUE) ELSE free
                  /\ counts' = [counts EXCEPT ![a] = <<>>]
      /\ forced' = Nothing
      /\ UNCHANGED <<weights, online, now>>

Concerns(b, a) == a \in DOMAIN elections /\ elections[a].height = Block[b].height

\* A vote arrives.  The last one of each representative counts.
ProcessConfirm(v) ==
  LET a == Block[v.hash].account
      e == elections[a]
      r == v.rep
      last == e.votes[r]
  IN  /\ v.timestamp <= now + 2 * MAX_TIMESTAMP_DIFF
      /\ v.timestamp >= now - 2 * MAX_TIMESTAMP_DIFF
      /\ Concerns(v.hash, a)
      /\ \/ /\ r \notin DOMAIN e.votes
            /\ Store(a, e, AddBlock(AddRepVoteInfo(e, r, FALSE, v), v.hash))
         \/ /\ r \in DOMAIN e.votes /\ ~last.conflict /\ CheckConflict(last, v)
            /\ Store(a, e, AddBlock(AddConflict(AddRepVoteInfo(e, r, TRUE, last),
                                                r, v), v.hash))
         \/ /\ r \in DOMAIN e.votes /\ ~last.conflict /\ ~CheckConflict(last, v)
            /\ v.timestamp > last.timestamp
            /\ Store(a, e, AddBlock(AddRepVoteInfo(DelBlock(e, last.hash),
                                                   r, FALSE, v), v.hash))
      /\ forced' = Nothing
      /\ UNCHANGED <<weights, online, now, counts, adds>>

\* Two contradicting votes of a representative arrive together.
ProcessConflict(v, w) ==
  LET a == Block[v.hash].account
      e == elections[a]
      r == v.rep
      free == IF r \in DOMAIN e.votes THEN DelBlock(e, e.votes[r].hash) ELSE e
      first == AddBlock(AddRepVoteInfo(free, r, TRUE, v), v.hash)
  IN  /\ v.rep = w.rep /\ SamePosition(v.hash, w.hash) /\ CheckConflict(v, w)
      /\ Concerns(v.hash, a)
      /\ r \in DOMAIN e.votes => ~e.votes[r].conflict
      /\ Store(a, e, AddBlock(AddConflict(first, r, w), w.hash))
      /\ forced' = Nothing
      /\ UNCHANGED <<weights, online, now, counts, adds>>

\* UpdateWeightInfo_: weights and connected representatives are read anew.
UpdateWeightInfo ==
  /\ weights' \in WeightTables /\ online' \in OnlineSets
  /\ forced' = Nothing
  /\ UNCHANGED <<elections, slots, now, counts, adds>>

Tick ==
  /\ now < MaxNow
  /\ now' = now + 1
  /\ forced' = Nothing
  /\ UNCHANGED <<elections, slots, weights, online, counts, adds>>

-----------------------------------------------------------------------------
(* ProcessElection: the thread takes up one election.                      *)

\* The outcomes of the last turns of a contested election, with one more.
Remember(a, status) ==
  LET longer == Append(counts[a], [confirm |-> status.confirm, win |-> status.win,
                                   block |-> status.block])
  IN  IF Len(longer) > FORK_ELECTION_ROUNDS_THRESHOLD THEN Tail(longer) ELSE longer

\* The outcome of a turn without slot.
Held == [confirm |-> FALSE, win |-> FALSE, block |-> NoBlock]

\* Mutant: the row of confirmations outlives a turn without slot.
HoldScored(a, e) ==
  /\ elections' = [elections EXCEPT ![a] =
       [e EXCEPT !.rounds = 0, !.roundsFork = 0, !.broadcast = TRUE]]
  /\ counts' = [counts EXCEPT ![a] = IF e.fork THEN Remember(a, Held) ELSE @]
  /\ forced' = Nothing

\* No slot: the election starts over when it gets one.
Hold(a, e) ==
  /\ elections' = [elections EXCEPT ![a] =
       [e EXCEPT !.wins = 0, !.confirms = 0, !.rounds = 0, !.roundsFork = 0,
                 !.broadcast = TRUE]]
  /\ counts' = [counts EXCEPT ![a] = IF e.fork THEN Remember(a, Held) ELSE @]
  /\ forced' = Nothing

\* The end of an election: what the processor is told, the slot is free.
End(a, S, verdict) ==
  /\ Erase(a)
  /\ slots' = SlotsWithout(S, a)
  /\ forced' = verdict

\* One block only: ask for votes every other time, give up after a while.
CountUncontested(a, e, S, status) ==
  LET asked == IF e.broadcast THEN [e EXCEPT !.broadcast = FALSE]
               ELSE [e EXCEPT !.broadcast = TRUE, !.rounds = @ + 1]
  IN  IF status.confirm
      THEN End(a, S, [operation |-> "CONFIRM", block |-> status.block])
      ELSE IF asked.rounds >= CUTOFF_ROUNDS THEN End(a, S, Nothing)
      ELSE /\ elections' = [elections EXCEPT ![a] = asked]
           /\ slots' = S
           /\ forced' = Nothing
           /\ UNCHANGED counts

Broadcast(a, e, S) ==
  /\ elections' = [elections EXCEPT ![a] = [e EXCEPT !.broadcast = FALSE]]
  /\ slots' = S
  /\ forced' = Nothing
  /\ UNCHANGED counts

\* The winner of this count and how often it has won in a row.
Score(e, status) ==
  LET again == status.block = e.winner
      won == [e EXCEPT !.wins = IF again THEN @ + 1 ELSE 1,
                       !.confirms = IF ~status.confirm THEN 0
                                    ELSE IF again THEN @ + 1 ELSE 1,
                       !.winner = status.block]
  IN  IF status.win THEN won ELSE [e EXCEPT !.wins = 0, !.confirms = 0]

CountContested(a, e, S, status) ==
  LET scored == [Score(e, status) EXCEPT !.broadcast = TRUE, !.rounds = @ + 1,
                                         !.roundsFork = @ + 1]
  IN  IF scored.confirms >= FORK_ELECTION_ROUNDS_THRESHOLD
      THEN End(a, S, [operation |-> "CONFIRM", block |-> status.block])
      ELSE /\ elections' = [elections EXCEPT ![a] = scored]
           /\ slots' = S
           /\ counts' = [counts EXCEPT ![a] = Remember(a, status)]
           /\ forced' = IF scored.wins = FORK_ELECTION_ROUNDS_THRESHOLD
                        THEN [operation |-> "APPEND", block |-> status.block]
                        ELSE Nothing

Count(a, e) ==
  LET S == TryConcurrency(slots, a, e.fork)
      status == Tally(e)
  IN  \/ ~Proceeds(S, a) /\ slots' = S /\ Hold(a, e)
      \/ Proceeds(S, a) /\ status.error /\ End(a, S, Nothing)
      \/ /\ Proceeds(S, a) /\ ~status.error /\ ~e.fork
         /\ CountUncontested(a, e, S, status)
      \/ /\ Proceeds(S, a) /\ ~status.error /\ e.fork
         /\ IF e.broadcast THEN Broadcast(a, e, S)
                           ELSE CountContested(a, e, S, status)

ProcessElection(a) ==
  /\ elections[a].roundsFork < MaxRounds
  /\ \E e \in PurgeOutdatedVotes(elections[a]) : Count(a, e)
  /\ UNCHANGED <<weights, online, now, adds>>

-----------------------------------------------------------------------------

\* An election starts with one block, or with two that compete.
AddSome ==
  \E b, c \in Blocks : /\ SamePosition(b, c)
                       /\ Add(Block[b].account, Block[b].height, {b, c})

Process == \E a \in DOMAIN elections : ProcessElection(a)

Next ==
  \/ AddSome
  \/ \E v \in Ballots : ProcessConfirm(v)
  \/ \E v, w \in Ballots : ProcessConflict(v, w)
  \/ UpdateWeightInfo
  \/ Tick
  \/ Process

\* The thread takes up every election again and again.
Spec == /\ Init /\ [][Next]_vars
        /\ \A a \in Accounts : WF_vars(a \in DOMAIN elections /\ ProcessElection(a))

-----------------------------------------------------------------------------
(* Properties.                                                             *)

(***************************************************************************)
(* The reference counts never lose a block that is still needed: every     *)
(* block a vote or the proof of a conflict names is in the election, and   *)
(* is referenced as often as it is named.  So the assertions in Tally_,    *)
(* ProcessConfirm and RequestConfirms_ cannot fail.                        *)
(***************************************************************************)
Naming(e, h) ==
  Cardinality({r \in DOMAIN e.votes : e.votes[r].hash = h})
  + Cardinality({r \in DOMAIN e.conflicts : e.conflicts[r].hash = h})

VotedBlocksKept ==
  \A a \in DOMAIN elections :
    LET e == elections[a]
    IN  /\ DOMAIN e.blocks # {}
        /\ \A h \in Blocks : Naming(e, h) > 0 =>
             h \in DOMAIN e.blocks /\ e.blocks[h] >= Naming(e, h)

(***************************************************************************)
(* No slot leaks: the accounts that hold one have an election, contested   *)
(* ones in forks_ and others in actives_, within the limits.  (A slot held *)
(* by an account without election would never be given back.)              *)
(***************************************************************************)
SlotsSound ==
  /\ Cardinality(slots.actives) <= concurrency_
  /\ Cardinality(slots.forks) <= FORK_CONCURRENCY
  /\ slots.actives \subseteq {a \in DOMAIN elections : ~elections[a].fork}
  /\ slots.forks \subseteq {a \in DOMAIN elections : elections[a].fork}

(***************************************************************************)
(* A representative is excluded from an election only with proof: two of   *)
(* its votes in the election contradict each other.  (Peers check the      *)
(* proof when it is passed on.)  So an honest one never is.                *)
(***************************************************************************)
ExcludedWithProof ==
  \A a \in DOMAIN elections :
    LET e == elections[a]
    IN  /\ {r \in DOMAIN e.votes : e.votes[r].conflict} = DOMAIN e.conflicts
        /\ \A r \in DOMAIN e.conflicts : /\ CheckConflict(e.votes[r], e.conflicts[r])
                                         /\ r \notin Honest

(***************************************************************************)
(* The exclusion lasts as long as the election.                            *)
(***************************************************************************)
ExclusionLasts ==
  [][\A a \in DOMAIN elections :
       /\ a \in DOMAIN elections'
       /\ elections'[a].height = elections[a].height
       => DOMAIN elections[a].conflicts \subseteq DOMAIN elections'[a].conflicts]_vars

(***************************************************************************)
(* A contested block is confirmed only when the last turns of the          *)
(* election, as many as the threshold asks for, all found a slot and       *)
(* counted a confirmation of this very block: confirmations of different   *)
(* blocks, or before and after a turn without slot, do not add up.  (A     *)
(* slot that another account takes and gives back between two turns of the *)
(* election is not missed: TryConcurrency_ leaves the counts alone.)       *)
(***************************************************************************)
SteadyVerdict ==
  [][\A a \in DOMAIN elections :
       (/\ elections[a].fork /\ a \notin DOMAIN elections'
        /\ forced'.operation = "CONFIRM")
       => /\ Len(counts[a]) >= FORK_ELECTION_ROUNDS_THRESHOLD - 1
          /\ \A i \in Len(counts[a]) - FORK_ELECTION_ROUNDS_THRESHOLD + 2
                        ..Len(counts[a]) :
               counts[a][i].confirm /\ counts[a][i].block = forced'.block]_vars

(***************************************************************************)
(* An uncontested election ends or becomes contested: it is confirmed or   *)
(* given up, and while it has no slot, some other election holds it and    *)
(* ends.                                                                   *)
(***************************************************************************)
UncontestedEnds ==
  \A a \in Accounts :
    (a \in DOMAIN elections)
      ~> (a \notin DOMAIN elections \/ elections[a].fork)

=============================================================================
