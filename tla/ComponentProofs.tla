--------------------------- MODULE ComponentProofs ---------------------------
(***************************************************************************)
(* Three components that keep to themselves.                               *)
(*                                                                         *)
(* Elections: three things are followed through every step, for any        *)
(* accounts, representatives, blocks and limits: that the references of an *)
(* election cover the blocks its votes name and that each exclusion has    *)
(* its proof (Sound), that the counts remembered agree with the number of  *)
(* confirmations in a row (Steady), and that the slots are those of        *)
(* elections (SlotInv).                                                    *)
(*                                                                         *)
(* BlockQueries: a query is in one place at a time, whatever timeouts,     *)
(* answers and threads do: in the table, with one thread, or finished.     *)
(* Any number of queries, peers and threads.                               *)
(*                                                                         *)
(* SwapHelper: an open take is one whose maker has no block at the height  *)
(* of the trade, and a stored take-nack block is not forgotten before the  *)
(* maker has a confirmed block there.  Any accounts, swaps, heights and    *)
(* number of restarts.                                                     *)
(***************************************************************************)
EXTENDS Elections, BlockQueries, SwapHelper, FiniteSums, FiniteSetTheorems, TLAPS

-----------------------------------------------------------------------------
(* One election.                                                           *)

RepVotes == [conflict : BOOLEAN, timestamp : Nat, hash : Blocks]
Contradictions == [timestamp : Nat, hash : Blocks]

IsElection(e) ==
  /\ e = [height |-> e.height, blocks |-> e.blocks, votes |-> e.votes,
          conflicts |-> e.conflicts, fork |-> e.fork, broadcast |-> e.broadcast,
          rounds |-> e.rounds, roundsFork |-> e.roundsFork, wins |-> e.wins,
          confirms |-> e.confirms, winner |-> e.winner]
  /\ e.fork \in BOOLEAN
  /\ IsFiniteSet(DOMAIN e.blocks) /\ DOMAIN e.blocks \subseteq Blocks
  /\ e.blocks \in [DOMAIN e.blocks -> Nat]
  /\ IsFiniteSet(DOMAIN e.votes) /\ e.votes \in [DOMAIN e.votes -> RepVotes]
  /\ IsFiniteSet(DOMAIN e.conflicts)
  /\ e.conflicts \in [DOMAIN e.conflicts -> Contradictions]

HasFields(e) ==
  e = [height |-> e.height, blocks |-> e.blocks, votes |-> e.votes,
       conflicts |-> e.conflicts, fork |-> e.fork, broadcast |-> e.broadcast,
       rounds |-> e.rounds, roundsFork |-> e.roundsFork, wins |-> e.wins,
       confirms |-> e.confirms, winner |-> e.winner]

\* An election with another number in one of its fields has the same fields.
LEMMA FieldsKept ==
  ASSUME NEW e, HasFields(e), NEW x
  PROVE  /\ HasFields([e EXCEPT !.wins = x]) /\ HasFields([e EXCEPT !.confirms = x])
         /\ HasFields([e EXCEPT !.rounds = x]) /\ HasFields([e EXCEPT !.roundsFork = x])
         /\ HasFields([e EXCEPT !.broadcast = x])
<1>1. HasFields([e EXCEPT !.wins = x])
  BY DEF HasFields
<1>2. HasFields([e EXCEPT !.confirms = x])
  BY DEF HasFields
<1>3. HasFields([e EXCEPT !.rounds = x])
  BY DEF HasFields
<1>4. HasFields([e EXCEPT !.roundsFork = x])
  BY DEF HasFields
<1>5. HasFields([e EXCEPT !.broadcast = x])
  BY DEF HasFields
<1>6. QED
  BY <1>1, <1>2, <1>3, <1>4, <1>5

\* The references to a block, none when it is not there.
Refs(e, h) == IF h \in DOMAIN e.blocks THEN e.blocks[h] ELSE 0

One(x, S) == IF x \in S THEN 1 ELSE 0

\* N differs from e in its blocks only, and in being contested.
SameVotes(e, N) ==
  /\ IsElection(N)
  /\ N.height = e.height /\ N.votes = e.votes /\ N.conflicts = e.conflicts
  /\ N.confirms = e.confirms /\ N.winner = e.winner

Voters(e, h) == {r \in DOMAIN e.votes : e.votes[r].hash = h}
Accused(e, h) == {r \in DOMAIN e.conflicts : e.conflicts[r].hash = h}

\* How often a block is named is a number.
LEMMA NamingType ==
  ASSUME NEW e, IsElection(e), NEW h
  PROVE  /\ Naming(e, h) = Cardinality(Voters(e, h)) + Cardinality(Accused(e, h))
         /\ IsFiniteSet(Voters(e, h)) /\ Cardinality(Voters(e, h)) \in Nat
         /\ IsFiniteSet(Accused(e, h)) /\ Cardinality(Accused(e, h)) \in Nat
         /\ Naming(e, h) \in Nat
<1>1. /\ IsFiniteSet(Voters(e, h)) /\ Cardinality(Voters(e, h)) \in Nat
      /\ IsFiniteSet(Accused(e, h)) /\ Cardinality(Accused(e, h)) \in Nat
  BY FS_Subset, FS_CardinalityType DEF IsElection, Voters, Accused
<1>2. Naming(e, h) = Cardinality(Voters(e, h)) + Cardinality(Accused(e, h))
  BY DEF Naming, Voters, Accused
<1>3. QED
  BY <1>1, <1>2

\* Elections that have the same votes name the same blocks.
LEMMA SameNaming ==
  ASSUME NEW e, NEW N, N.votes = e.votes, N.conflicts = e.conflicts, NEW h
  PROVE  Naming(N, h) = Naming(e, h)
BY DEF Naming

\* Election::AddBlock adds a reference to each block it is given.
LEMMA AddsReferences ==
  ASSUME NEW e, IsElection(e), NEW bs \in SUBSET Blocks, IsFiniteSet(bs)
  PROVE  LET N == AddBlocks(e, bs)
         IN  /\ SameVotes(e, N)
             /\ DOMAIN N.blocks = DOMAIN e.blocks \cup bs
             /\ e.fork => N.fork
             /\ \A h : Refs(N, h) = Refs(e, h) + One(h, bs)
<1> DEFINE N == AddBlocks(e, bs)
           more == [b \in DOMAIN e.blocks \cup bs |->
                      (IF b \in DOMAIN e.blocks THEN e.blocks[b] ELSE 0)
                      + (IF b \in bs THEN 1 ELSE 0)]
           found == ~e.fork /\ bs \ DOMAIN e.blocks # {} /\ Cardinality(DOMAIN more) > 1
<1>1. N = [e EXCEPT !.blocks = more, !.fork = @ \/ found, !.broadcast = @ \/ found]
  BY DEF AddBlocks
<1>2. more \in [DOMAIN e.blocks \cup bs -> Nat]
  BY DEF IsElection
<1>3. IsFiniteSet(DOMAIN e.blocks \cup bs)
  BY FS_Union DEF IsElection
<1> HIDE DEF found
<1>4. /\ N.blocks = more /\ N.fork = (e.fork \/ found)
      /\ N.height = e.height /\ N.votes = e.votes /\ N.conflicts = e.conflicts
      /\ N.confirms = e.confirms /\ N.winner = e.winner
      /\ N.broadcast = (e.broadcast \/ found) /\ N.rounds = e.rounds
      /\ N.roundsFork = e.roundsFork /\ N.wins = e.wins
  BY <1>1 DEF IsElection
<1>5. N = [height |-> N.height, blocks |-> N.blocks, votes |-> N.votes,
           conflicts |-> N.conflicts, fork |-> N.fork, broadcast |-> N.broadcast,
           rounds |-> N.rounds, roundsFork |-> N.roundsFork, wins |-> N.wins,
           confirms |-> N.confirms, winner |-> N.winner]
  BY <1>1 DEF IsElection
<1>6. \A h : Refs(N, h) = Refs(e, h) + One(h, bs)
  BY <1>4 DEF Refs, One, IsElection
<1> HIDE DEF more, N
<1>7. SameVotes(e, N)
  BY <1>2, <1>3, <1>4, <1>5 DEF SameVotes, IsElection
<1>8. QED
  BY <1>2, <1>4, <1>6, <1>7 DEF N

\* Election::DelBlock takes away one reference to the block and never the last
\* block.
LEMMA TakesReference ==
  ASSUME NEW e, IsElection(e), NEW x
  PROVE  LET N == DelBlock(e, x)
         IN  /\ SameVotes(e, N) /\ N.fork = e.fork
             /\ DOMAIN e.blocks # {} => DOMAIN N.blocks # {}
             /\ \A h : Refs(N, h) >= Refs(e, h) - One(h, {x})
<1> DEFINE N == DelBlock(e, x)
<1>1. CASE x \notin DOMAIN e.blocks \/ e.blocks[x] = 0
  BY <1>1 DEF DelBlock, SameVotes, Refs, One, IsElection
<1>2. CASE /\ x \in DOMAIN e.blocks /\ e.blocks[x] = 1
           /\ Cardinality(DOMAIN e.blocks) > 1
  <2> DEFINE less == [b \in DOMAIN e.blocks \ {x} |-> e.blocks[b]]
  <2>1. N = [e EXCEPT !.blocks = less]
    BY <1>2 DEF DelBlock
  <2>2. /\ IsFiniteSet(DOMAIN e.blocks \ {x}) /\ DOMAIN e.blocks \ {x} # {}
    <3>1. IsFiniteSet(DOMAIN e.blocks) /\ Cardinality(DOMAIN e.blocks) \in Nat
      BY FS_CardinalityType DEF IsElection
    <3>2. /\ IsFiniteSet(DOMAIN e.blocks \ {x})
          /\ Cardinality(DOMAIN e.blocks \ {x}) = Cardinality(DOMAIN e.blocks) - 1
      BY <1>2, <3>1, FS_RemoveElement
    <3>3. QED
      BY <1>2, <3>1, <3>2, FS_EmptySet
  <2>3. less \in [DOMAIN e.blocks \ {x} -> Nat] /\ DOMAIN less = DOMAIN e.blocks \ {x}
    BY DEF IsElection
  <2>4. N.blocks = less
    BY <2>1 DEF IsElection
  <2>5. \A h : Refs(N, h) >= Refs(e, h) - One(h, {x})
    BY <1>2, <2>4 DEF Refs, One, IsElection
  <2> HIDE DEF less
  <2>6. SameVotes(e, N) /\ N.fork = e.fork
    BY <2>1, <2>2, <2>3 DEF SameVotes, IsElection
  <2>7. QED
    BY <2>2, <2>3, <2>4, <2>5, <2>6
<1>3. CASE /\ x \in DOMAIN e.blocks /\ e.blocks[x] # 0
           /\ ~(e.blocks[x] = 1 /\ Cardinality(DOMAIN e.blocks) > 1)
  <2> DEFINE less == [e.blocks EXCEPT ![x] = @ - 1]
  <2>1. N = [e EXCEPT !.blocks = less]
    BY <1>3 DEF DelBlock, IsElection
  <2>2. less \in [DOMAIN e.blocks -> Nat] /\ DOMAIN less = DOMAIN e.blocks
    BY <1>3 DEF IsElection
  <2>4. N.blocks = less
    BY <2>1 DEF IsElection
  <2>5. \A h : Refs(N, h) >= Refs(e, h) - One(h, {x})
    BY <1>3, <2>4 DEF Refs, One, IsElection
  <2> HIDE DEF less
  <2>6. SameVotes(e, N) /\ N.fork = e.fork
    BY <2>1, <2>2 DEF SameVotes, IsElection
  <2>7. QED
    BY <2>2, <2>4, <2>5, <2>6
<1>4. QED
  BY <1>1, <1>2, <1>3

\* AddRepVoteInfo_ replaces what the representative named before.
LEMMA NamesAnother ==
  ASSUME NEW e, IsElection(e), NEW r, NEW c \in BOOLEAN, NEW v,
         v.timestamp \in Nat, v.hash \in Blocks
  PROVE  LET N == AddRepVoteInfo(e, r, c, v)
         IN  /\ IsElection(N)
             /\ N.height = e.height /\ N.blocks = e.blocks /\ N.conflicts = e.conflicts
             /\ N.fork = e.fork /\ N.confirms = e.confirms /\ N.winner = e.winner
             /\ N.votes = Put(e.votes, r, [conflict |-> c, timestamp |-> v.timestamp,
                                           hash |-> v.hash])
             /\ \A h : Naming(N, h) + One(r, Voters(e, h))
                         = Naming(e, h) + One(h, {v.hash})
<1> DEFINE N == AddRepVoteInfo(e, r, c, v)
           new == [conflict |-> c, timestamp |-> v.timestamp, hash |-> v.hash]
           votes == Put(e.votes, r, new)
<1>1. N = [e EXCEPT !.votes = votes]
  BY DEF AddRepVoteInfo, IsElection
<1>2. /\ DOMAIN votes = DOMAIN e.votes \cup {r} /\ votes \in [DOMAIN votes -> RepVotes]
      /\ votes[r] = new /\ \A s \in DOMAIN e.votes \ {r} : votes[s] = e.votes[s]
  BY DEF Put, IsElection, RepVotes
<1>3. IsFiniteSet(DOMAIN votes)
  BY <1>2, FS_AddElement DEF IsElection
<1> HIDE DEF votes
<1>4. /\ IsElection(N) /\ N.votes = votes
      /\ N.height = e.height /\ N.blocks = e.blocks /\ N.conflicts = e.conflicts
      /\ N.fork = e.fork /\ N.confirms = e.confirms /\ N.winner = e.winner
  BY <1>1, <1>2, <1>3 DEF IsElection
<1>5. ASSUME NEW h
      PROVE  Naming(N, h) + One(r, Voters(e, h))
               = Naming(e, h) + One(h, {v.hash})
  <2> DEFINE old == Voters(e, h)
             now_ == Voters(N, h)
  <2>1. /\ IsFiniteSet(old) /\ Cardinality(old) \in Nat
        /\ Naming(e, h) = Cardinality(old) + Cardinality(Accused(e, h))
        /\ Naming(N, h) = Cardinality(now_) + Cardinality(Accused(N, h))
        /\ Cardinality(Accused(e, h)) \in Nat
    BY <1>4, NamingType
  <2>2. Accused(N, h) = Accused(e, h)
    BY <1>4 DEF Accused
  <2>3. now_ = IF v.hash = h THEN old \cup {r} ELSE old \ {r}
    BY <1>2, <1>4 DEF Voters
  <2> HIDE DEF old, now_
  <2>5. Cardinality(now_) + One(r, old) = Cardinality(old) + One(h, {v.hash})
    <3>1. /\ Cardinality(old \cup {r}) =
               IF r \in old THEN Cardinality(old) ELSE Cardinality(old) + 1
          /\ Cardinality(old \ {r}) =
               IF r \in old THEN Cardinality(old) - 1 ELSE Cardinality(old)
      BY <2>1, FS_AddElement, FS_RemoveElement
    <3>2. QED
      BY <2>1, <2>3, <3>1 DEF One
  <2>6. One(r, old) \in Nat /\ One(h, {v.hash}) \in Nat /\ Cardinality(now_) \in Nat
    BY <1>4, NamingType DEF One, now_
  <2>7. One(r, Voters(e, h)) = One(r, old)
    BY DEF old
  <2>8. QED
    BY <2>1, <2>2, <2>5, <2>6, <2>7
<1>6. QED
  BY <1>4, <1>5 DEF N, votes

\* AddConflict_ names one block more.
LEMMA NamesMore ==
  ASSUME NEW e, IsElection(e), NEW r, r \notin DOMAIN e.conflicts, NEW v,
         v.timestamp \in Nat, v.hash \in Blocks
  PROVE  LET N == AddConflict(e, r, v)
         IN  /\ IsElection(N)
             /\ N.height = e.height /\ N.blocks = e.blocks /\ N.votes = e.votes
             /\ N.fork = e.fork /\ N.confirms = e.confirms /\ N.winner = e.winner
             /\ N.conflicts = Put(e.conflicts, r, [timestamp |-> v.timestamp,
                                                   hash |-> v.hash])
             /\ \A h : Naming(N, h) = Naming(e, h) + One(h, {v.hash})
<1> DEFINE N == AddConflict(e, r, v)
           new == [timestamp |-> v.timestamp, hash |-> v.hash]
           conflicts == Put(e.conflicts, r, new)
<1>1. N = [e EXCEPT !.conflicts = conflicts]
  BY DEF AddConflict, IsElection
<1>2. /\ DOMAIN conflicts = DOMAIN e.conflicts \cup {r}
      /\ conflicts \in [DOMAIN conflicts -> Contradictions]
      /\ conflicts[r] = new
      /\ \A s \in DOMAIN e.conflicts \ {r} : conflicts[s] = e.conflicts[s]
  BY DEF Put, IsElection, Contradictions
<1>3. IsFiniteSet(DOMAIN conflicts)
  BY <1>2, FS_AddElement DEF IsElection
<1> HIDE DEF conflicts
<1>4. /\ IsElection(N) /\ N.conflicts = conflicts
      /\ N.height = e.height /\ N.blocks = e.blocks /\ N.votes = e.votes
      /\ N.fork = e.fork /\ N.confirms = e.confirms /\ N.winner = e.winner
  BY <1>1, <1>2, <1>3 DEF IsElection
<1>5. ASSUME NEW h
      PROVE  Naming(N, h) = Naming(e, h) + One(h, {v.hash})
  <2> DEFINE old == Accused(e, h)
             now_ == Accused(N, h)
  <2>1. /\ IsFiniteSet(old) /\ Cardinality(old) \in Nat
        /\ Naming(e, h) = Cardinality(Voters(e, h)) + Cardinality(old)
        /\ Naming(N, h) = Cardinality(Voters(N, h)) + Cardinality(now_)
        /\ Cardinality(Voters(e, h)) \in Nat
    BY <1>4, NamingType
  <2>2. Voters(N, h) = Voters(e, h)
    BY <1>4 DEF Voters
  <2>3. now_ = IF v.hash = h THEN old \cup {r} ELSE old
    BY <1>2, <1>4 DEF Accused
  <2>4. r \notin old
    BY DEF Accused
  <2> HIDE DEF old, now_
  <2>5. Cardinality(now_) = Cardinality(old) + One(h, {v.hash})
    <3>1. Cardinality(old \cup {r}) = Cardinality(old) + 1
      BY <2>1, <2>4, FS_AddElement
    <3>2. QED
      BY <2>1, <2>3, <3>1 DEF One
  <2>6. One(h, {v.hash}) \in Nat
    BY DEF One
  <2>7. QED
    BY <2>1, <2>2, <2>5, <2>6
<1>6. QED
  BY <1>4, <1>5 DEF N, conflicts

\* What PurgeOutdatedVotes may leave.  Whichever block stays when none is left,
\* the references that go are those of the votes that go.
LEMMA Purged ==
  ASSUME NEW e, IsElection(e), DOMAIN e.blocks # {}, NEW N \in PurgeOutdatedVotes(e)
  PROVE  /\ IsElection(N) /\ DOMAIN N.blocks # {}
         /\ N.height = e.height /\ N.conflicts = e.conflicts /\ N.fork = e.fork
         /\ N.confirms = e.confirms /\ N.winner = e.winner
         /\ N.votes = [r \in DOMAIN e.votes \ Outdated(e) |-> e.votes[r]]
         /\ \A h : Naming(e, h) <= Refs(e, h) => Naming(N, h) <= Refs(N, h)
<1> DEFINE votes == [r \in DOMAIN e.votes \ Outdated(e) |-> e.votes[r]]
           Released(b) == Cardinality({r \in Outdated(e) : e.votes[r].hash = b})
           staying == {b \in DOMAIN e.blocks : e.blocks[b] = 0 \/ Released(b) < e.blocks[b]}
           Left(b) == IF Released(b) < e.blocks[b] THEN e.blocks[b] - Released(b) ELSE 0
<1>1. PICK kept \in IF staying # {} THEN {staying} ELSE {{b} : b \in DOMAIN e.blocks} :
        N = [e EXCEPT !.votes = votes, !.blocks = [b \in kept |-> Left(b)]]
  BY DEF PurgeOutdatedVotes
<1>2. /\ kept # {} /\ kept \subseteq DOMAIN e.blocks /\ staying \subseteq kept
  BY <1>1
<1>3. ASSUME NEW h
      PROVE  /\ Released(h) \in Nat
             /\ Cardinality(Voters(e, h)) =
                  Cardinality({r \in DOMAIN votes : votes[r].hash = h}) + Released(h)
             /\ Cardinality({r \in DOMAIN votes : votes[r].hash = h}) \in Nat
  <2> DEFINE gone == {r \in Outdated(e) : e.votes[r].hash = h}
             rest == {r \in DOMAIN votes : votes[r].hash = h}
  <2>1. Outdated(e) \subseteq DOMAIN e.votes
    BY DEF Outdated
  <2>2. /\ gone \cup rest = Voters(e, h) /\ gone \cap rest = {}
        /\ gone \subseteq DOMAIN e.votes /\ rest \subseteq DOMAIN e.votes
    BY <2>1 DEF Voters
  <2> HIDE DEF gone, rest
  <2>3. IsFiniteSet(gone) /\ IsFiniteSet(rest)
    BY <2>2, FS_Subset DEF IsElection
  <2>4. Cardinality(gone) \in Nat /\ Cardinality(rest) \in Nat
    BY <2>3, FS_CardinalityType
  <2>5. Cardinality(Voters(e, h)) = Cardinality(gone) + Cardinality(rest) - Cardinality({})
    BY <2>2, <2>3, FS_Union
  <2>6. Cardinality(Voters(e, h)) = Cardinality(rest) + Cardinality(gone)
    BY <2>4, <2>5, FS_EmptySet
  <2>7. QED
    BY <2>4, <2>6 DEF gone, rest
<1> HIDE DEF Released
<1>4. /\ [b \in kept |-> Left(b)] \in [kept -> Nat]
      /\ \A b \in kept : Left(b) \in Nat /\ Left(b) >= e.blocks[b] - Released(b)
      /\ \A b \in DOMAIN e.blocks \ kept : Released(b) >= e.blocks[b]
  <2>1. ASSUME NEW b \in DOMAIN e.blocks
        PROVE  /\ Left(b) \in Nat /\ Left(b) >= e.blocks[b] - Released(b)
               /\ b \notin staying => Released(b) >= e.blocks[b]
    <3>1. e.blocks[b] \in Nat /\ Released(b) \in Nat
      BY <1>3 DEF IsElection
    <3>2. QED
      BY <3>1
  <2> HIDE DEF Left, staying
  <2>2. QED
    BY <1>2, <2>1
<1>5. /\ IsFiniteSet(kept) /\ kept \subseteq Blocks
      /\ IsFiniteSet(DOMAIN votes) /\ votes \in [DOMAIN votes -> RepVotes]
  BY <1>2, FS_Subset DEF IsElection
<1> HIDE DEF votes, staying, Left
<1>6. /\ N.height = e.height /\ N.conflicts = e.conflicts /\ N.fork = e.fork
      /\ N.confirms = e.confirms /\ N.winner = e.winner
      /\ N.votes = votes /\ N.blocks = [b \in kept |-> Left(b)]
  BY <1>1 DEF IsElection
<1>7. IsElection(N)
  BY <1>1, <1>4, <1>5, <1>6 DEF IsElection
<1>8. ASSUME NEW h, Naming(e, h) <= Refs(e, h)
      PROVE  Naming(N, h) <= Refs(N, h)
  <2>1. /\ Naming(e, h) = Cardinality(Voters(e, h)) + Cardinality(Accused(e, h))
        /\ Naming(N, h) = Cardinality(Voters(N, h)) + Cardinality(Accused(N, h))
        /\ Cardinality(Accused(e, h)) \in Nat
    BY <1>7, NamingType
  <2>2. Accused(N, h) = Accused(e, h) /\ Voters(N, h) = {r \in DOMAIN votes : votes[r].hash = h}
    BY <1>6 DEF Accused, Voters
  <2>3. /\ Released(h) \in Nat /\ Cardinality(Voters(N, h)) \in Nat
        /\ Cardinality(Voters(e, h)) = Cardinality(Voters(N, h)) + Released(h)
    BY <1>3, <2>2
  <2>4. Refs(e, h) \in Nat /\ Refs(N, h) \in Nat /\ Refs(N, h) >= Refs(e, h) - Released(h)
    BY <1>2, <1>4, <1>6, <2>3 DEF Refs, IsElection
  <2>5. QED
    BY <1>8, <2>1, <2>2, <2>3, <2>4
<1>9. QED
  BY <1>2, <1>6, <1>7, <1>8 DEF votes

-----------------------------------------------------------------------------
(* What an election promises.                                              *)

\* There is a block, and each is referenced as often as it is named.
Kept(e) ==
  /\ DOMAIN e.blocks # {}
  /\ \A h \in Blocks : Naming(e, h) <= Refs(e, h)

\* v was signed by r for the position (a, height).
Signed(a, height, r, v) ==
  \E b \in Ballots : /\ b.rep = r /\ b.timestamp = v.timestamp /\ b.hash = v.hash
                     /\ Block[b.hash].account = a /\ Block[b.hash].height = height

\* All votes are signed, and exclusions come with two that contradict.
Proven(a, e) ==
  /\ \A r \in DOMAIN e.votes : Signed(a, e.height, r, e.votes[r])
  /\ \A r \in DOMAIN e.conflicts : Signed(a, e.height, r, e.conflicts[r])
  /\ {r \in DOMAIN e.votes : e.votes[r].conflict} = DOMAIN e.conflicts
  /\ \A r \in DOMAIN e.conflicts : CheckConflict(e.votes[r], e.conflicts[r])

Sound(a, e) == IsElection(e) /\ Kept(e) /\ Proven(a, e)

\* Counting and asking for votes leave the votes and the blocks alone.
LEMMA SoundFrame ==
  ASSUME NEW a, NEW e, NEW N, Sound(a, e), IsElection(N), N.height = e.height,
         N.blocks = e.blocks, N.votes = e.votes, N.conflicts = e.conflicts
  PROVE  Sound(a, N)
BY SameNaming DEF Sound, Kept, Proven, Refs

\* A sound election satisfies the invariants the runs check.
LEMMA SoundMeansKept ==
  ASSUME NEW a, NEW e, Sound(a, e), NEW h \in Blocks, Naming(e, h) > 0
  PROVE  h \in DOMAIN e.blocks /\ e.blocks[h] >= Naming(e, h)
<1>1. Naming(e, h) \in Nat /\ Naming(e, h) <= Refs(e, h)
  BY NamingType DEF Sound, Kept
<1>2. h \in DOMAIN e.blocks
  BY <1>1 DEF Refs
<1>3. e.blocks[h] \in Nat
  BY <1>2 DEF Sound, IsElection
<1>4. QED
  BY <1>1, <1>2, <1>3 DEF Refs

\* No honest representative is excluded: its votes, dated by a ConfirmManager,
\* do not contradict each other.
LEMMA HonestNotExcluded ==
  ASSUME NEW a, NEW e, Sound(a, e), NEW r \in DOMAIN e.conflicts
  PROVE  r \notin Honest
<1>1. r \in DOMAIN e.votes /\ CheckConflict(e.votes[r], e.conflicts[r])
  BY DEF Sound, Proven
<1>2. PICK v \in Ballots : /\ v.rep = r /\ v.timestamp = e.votes[r].timestamp
                           /\ v.hash = e.votes[r].hash
                           /\ Block[v.hash].account = a /\ Block[v.hash].height = e.height
  BY <1>1 DEF Sound, Proven, Signed
<1>3. PICK w \in Ballots : /\ w.rep = r /\ w.timestamp = e.conflicts[r].timestamp
                           /\ w.hash = e.conflicts[r].hash
                           /\ Block[w.hash].account = a /\ Block[w.hash].height = e.height
  BY DEF Sound, Proven, Signed
<1>4. CheckConflict(v, w) /\ SamePosition(v.hash, w.hash)
  BY <1>1, <1>2, <1>3 DEF CheckConflict, SamePosition
<1>5. QED
  BY <1>2, <1>3, <1>4, ElectionsAssumption

\* A new election is sound.
LEMMA NewSound ==
  ASSUME NEW a, NEW h, NEW bs \in SUBSET Blocks, IsFiniteSet(bs), bs # {}
  PROVE  LET e == AddBlocks(NewElection(h), bs)
         IN  Sound(a, e) /\ e.height = h /\ e.confirms = 0
<1> DEFINE n == NewElection(h)
           e == AddBlocks(n, bs)
<1>1. /\ n.blocks = <<>> /\ n.votes = <<>> /\ n.conflicts = <<>> /\ DOMAIN <<>> = {}
      /\ n.height = h /\ n.confirms = 0
  BY DEF NewElection
<1>2. IsElection(n)
  <2>1. <<>> \in [{} -> Nat] /\ <<>> \in [{} -> RepVotes] /\ <<>> \in [{} -> Contradictions]
    BY <1>1
  <2>2. QED
    BY <1>1, <2>1, FS_EmptySet DEF NewElection, IsElection
<1> HIDE DEF n, e
<1>3. /\ SameVotes(n, e) /\ DOMAIN e.blocks = {} \cup bs
  BY <1>1, <1>2, AddsReferences DEF e
<1>4. \A x : Naming(e, x) = 0
  <2> SUFFICES ASSUME NEW x PROVE Naming(e, x) = 0
    OBVIOUS
  <2>1. Voters(e, x) = {} /\ Accused(e, x) = {}
    BY <1>1, <1>3 DEF SameVotes, Voters, Accused
  <2>2. QED
    BY <1>3, <2>1, NamingType, FS_EmptySet DEF SameVotes
<1>5. Kept(e)
  BY <1>3, <1>4 DEF Kept, Refs, SameVotes, IsElection
<1>6. Proven(a, e)
  BY <1>1, <1>3 DEF Proven, SameVotes
<1>7. QED
  BY <1>1, <1>3, <1>5, <1>6 DEF Sound, SameVotes, e, n

\* An election stays sound when blocks are added to it.
LEMMA AddSound ==
  ASSUME NEW a, NEW e, Sound(a, e), NEW bs \in SUBSET Blocks, IsFiniteSet(bs)
  PROVE  LET N == AddBlocks(e, bs)
         IN  /\ Sound(a, N) /\ SameVotes(e, N)
             /\ e.fork => N.fork
<1> DEFINE N == AddBlocks(e, bs)
<1>1. /\ SameVotes(e, N) /\ (e.fork => N.fork)
      /\ DOMAIN N.blocks = DOMAIN e.blocks \cup bs
      /\ \A h : Refs(N, h) = Refs(e, h) + One(h, bs)
  BY AddsReferences DEF Sound
<1> HIDE DEF N
<1>2. Kept(N)
  <2> SUFFICES ASSUME NEW h \in Blocks PROVE Naming(N, h) <= Refs(N, h)
    BY <1>1 DEF Sound, Kept
  <2>1. Naming(N, h) = Naming(e, h) /\ Naming(e, h) \in Nat
    BY <1>1, SameNaming, NamingType DEF SameVotes, Sound
  <2>2. Refs(e, h) \in Nat /\ One(h, bs) \in Nat /\ Naming(e, h) <= Refs(e, h)
    BY DEF Sound, Kept, IsElection, Refs, One
  <2>3. QED
    BY <1>1, <2>1, <2>2
<1>3. Proven(a, N)
  BY <1>1 DEF Sound, Proven, SameVotes
<1>4. QED
  BY <1>1, <1>2, <1>3 DEF Sound, SameVotes, N

\* And when outdated votes are forgotten.
LEMMA PurgeSound ==
  ASSUME NEW a, NEW e, Sound(a, e), NEW N \in PurgeOutdatedVotes(e)
  PROVE  Sound(a, N)
<1>1. /\ IsElection(N) /\ DOMAIN N.blocks # {}
      /\ N.height = e.height /\ N.conflicts = e.conflicts
      /\ N.votes = [r \in DOMAIN e.votes \ Outdated(e) |-> e.votes[r]]
      /\ \A h : Naming(e, h) <= Refs(e, h) => Naming(N, h) <= Refs(N, h)
  BY Purged DEF Sound, Kept
<1>2. Kept(N)
  BY <1>1 DEF Sound, Kept
<1>3. Outdated(e) \cap DOMAIN e.conflicts = {}
  BY DEF Outdated
<1>4. /\ DOMAIN e.conflicts \subseteq DOMAIN N.votes
      /\ \A r \in DOMAIN N.votes : r \in DOMAIN e.votes /\ N.votes[r] = e.votes[r]
  BY <1>1, <1>3 DEF Sound, Proven
<1>5. Proven(a, N)
  BY <1>1, <1>4 DEF Sound, Proven
<1>6. QED
  BY <1>1, <1>2, <1>5 DEF Sound

-----------------------------------------------------------------------------
(* Votes.                                                                  *)

\* N has the position and the progress of e.
SameCourse(e, N) ==
  /\ N.height = e.height /\ N.confirms = e.confirms /\ N.winner = e.winner
  /\ e.fork => N.fork

\* M is e without the reference of the vote r has cast.
Freed(e, r, M) ==
  /\ SameVotes(e, M) /\ M.fork = e.fork
  /\ DOMAIN M.blocks # {}
  /\ \A h : Refs(M, h) >= Refs(e, h) - One(r, Voters(e, h))

\* The reference of the vote that is replaced goes, that of the new one comes.
LEMMA ReplaceKept ==
  ASSUME NEW e, IsElection(e), Kept(e), NEW r, NEW M, Freed(e, r, M),
         NEW c \in BOOLEAN, NEW v, v.timestamp \in Nat, v.hash \in Blocks
  PROVE  LET N == AddBlock(AddRepVoteInfo(M, r, c, v), v.hash)
         IN  /\ IsElection(N) /\ Kept(N) /\ SameCourse(e, N)
             /\ N.conflicts = e.conflicts
             /\ N.votes = Put(e.votes, r, [conflict |-> c, timestamp |-> v.timestamp,
                                           hash |-> v.hash])
<1> DEFINE V == AddRepVoteInfo(M, r, c, v)
           N == AddBlocks(V, {v.hash})
<1>1. /\ IsElection(M) /\ M.votes = e.votes /\ M.conflicts = e.conflicts
      /\ M.height = e.height /\ M.confirms = e.confirms /\ M.winner = e.winner
      /\ M.fork = e.fork
  BY DEF Freed, SameVotes
<1>2. /\ IsElection(V) /\ V.blocks = M.blocks /\ V.conflicts = M.conflicts
      /\ V.height = M.height /\ V.fork = M.fork /\ V.confirms = M.confirms
      /\ V.winner = M.winner
      /\ V.votes = Put(M.votes, r, [conflict |-> c, timestamp |-> v.timestamp,
                                    hash |-> v.hash])
      /\ \A h : Naming(V, h) + One(r, Voters(M, h))
                  = Naming(M, h) + One(h, {v.hash})
  BY <1>1, NamesAnother
<1> HIDE DEF V
<1>3. /\ SameVotes(V, N) /\ DOMAIN N.blocks = DOMAIN V.blocks \cup {v.hash}
      /\ (V.fork => N.fork)
      /\ \A h : Refs(N, h) = Refs(V, h) + One(h, {v.hash})
  <2>1. {v.hash} \in SUBSET Blocks /\ IsFiniteSet({v.hash})
    BY FS_Singleton
  <2>2. QED
    BY <1>2, <2>1, AddsReferences
<1> HIDE DEF N
<1>4. Kept(N)
  <2> SUFFICES ASSUME NEW h \in Blocks PROVE Naming(N, h) <= Refs(N, h)
    BY <1>3 DEF Kept
  <2> DEFINE old == One(r, Voters(e, h))
  <2>1. /\ Naming(e, h) \in Nat /\ Naming(V, h) \in Nat /\ old \in Nat
        /\ One(h, {v.hash}) \in Nat
    BY <1>2, NamingType DEF One
  <2>2. Naming(N, h) = Naming(V, h) /\ Naming(M, h) = Naming(e, h)
    BY <1>1, <1>3, SameNaming DEF SameVotes
  <2>3. Naming(V, h) + old = Naming(e, h) + One(h, {v.hash})
    BY <1>1, <1>2, <2>2 DEF Voters
  <2>4. Refs(M, h) \in Nat /\ Refs(e, h) \in Nat
    BY <1>1 DEF Refs, IsElection
  <2>5. Refs(V, h) = Refs(M, h) /\ Refs(M, h) >= Refs(e, h) - old
    BY <1>2 DEF Refs, Freed
  <2>6. Naming(e, h) <= Refs(e, h)
    BY DEF Kept
  <2>7. Refs(N, h) = Refs(M, h) + One(h, {v.hash})
    BY <1>3, <2>5, <2>6
  <2> HIDE DEF old
  <2>8. QED
    BY <2>1, <2>2, <2>3, <2>4, <2>5, <2>6, <2>7
<1>5. QED
  BY <1>1, <1>2, <1>3, <1>4 DEF SameVotes, SameCourse, N, V, AddBlock

\* Marking the last vote as contradicted changes no reference.
LEMMA MarkKept ==
  ASSUME NEW e, IsElection(e), Kept(e), NEW r \in DOMAIN e.votes,
         NEW c \in BOOLEAN
  PROVE  LET N == AddRepVoteInfo(e, r, c, e.votes[r])
         IN  /\ IsElection(N) /\ Kept(N) /\ SameCourse(e, N)
             /\ N.conflicts = e.conflicts
             /\ N.votes = Put(e.votes, r, [conflict |-> c,
                                           timestamp |-> e.votes[r].timestamp,
                                           hash |-> e.votes[r].hash])
<1> DEFINE last == e.votes[r]
           N == AddRepVoteInfo(e, r, c, last)
<1>1. last.timestamp \in Nat /\ last.hash \in Blocks
  BY DEF IsElection, RepVotes
<1>2. /\ IsElection(N) /\ N.blocks = e.blocks /\ N.conflicts = e.conflicts
      /\ N.height = e.height /\ N.fork = e.fork /\ N.confirms = e.confirms
      /\ N.winner = e.winner
      /\ N.votes = Put(e.votes, r, [conflict |-> c, timestamp |-> last.timestamp,
                                    hash |-> last.hash])
      /\ \A h : Naming(N, h) + One(r, Voters(e, h))
                  = Naming(e, h) + One(h, {last.hash})
  BY <1>1, NamesAnother
<1> HIDE DEF N
<1>3. ASSUME NEW h \in Blocks
      PROVE  Naming(N, h) <= Refs(N, h)
  <2>1. /\ Naming(e, h) \in Nat /\ Naming(N, h) \in Nat
        /\ One(r, Voters(e, h)) = One(h, {last.hash})
        /\ One(h, {last.hash}) \in Nat
    BY <1>2, NamingType DEF One, Voters
  <2>2. Naming(N, h) = Naming(e, h)
    BY <1>2, <2>1
  <2>3. QED
    BY <1>2, <2>2 DEF Kept, Refs
<1>4. QED
  BY <1>2, <1>3 DEF SameCourse, Kept, N

\* The contradicting vote brings its own reference.
LEMMA ConflictKept ==
  ASSUME NEW e, IsElection(e), Kept(e), NEW r, r \notin DOMAIN e.conflicts,
         NEW v, v.timestamp \in Nat, v.hash \in Blocks
  PROVE  LET N == AddBlock(AddConflict(e, r, v), v.hash)
         IN  /\ IsElection(N) /\ Kept(N) /\ SameCourse(e, N)
             /\ N.votes = e.votes
             /\ N.conflicts = Put(e.conflicts, r, [timestamp |-> v.timestamp,
                                                   hash |-> v.hash])
<1> DEFINE V == AddConflict(e, r, v)
           N == AddBlocks(V, {v.hash})
<1>1. /\ IsElection(V) /\ V.blocks = e.blocks /\ V.votes = e.votes
      /\ V.height = e.height /\ V.fork = e.fork /\ V.confirms = e.confirms
      /\ V.winner = e.winner
      /\ V.conflicts = Put(e.conflicts, r, [timestamp |-> v.timestamp, hash |-> v.hash])
      /\ \A h : Naming(V, h) = Naming(e, h) + One(h, {v.hash})
  BY NamesMore
<1> HIDE DEF V
<1>2. /\ SameVotes(V, N) /\ DOMAIN N.blocks = DOMAIN V.blocks \cup {v.hash}
      /\ (V.fork => N.fork)
      /\ \A h : Refs(N, h) = Refs(V, h) + One(h, {v.hash})
  <2>1. {v.hash} \in SUBSET Blocks /\ IsFiniteSet({v.hash})
    BY FS_Singleton
  <2>2. QED
    BY <1>1, <2>1, AddsReferences
<1> HIDE DEF N
<1>3. Kept(N)
  <2> SUFFICES ASSUME NEW h \in Blocks PROVE Naming(N, h) <= Refs(N, h)
    BY <1>2 DEF Kept
  <2>1. Naming(e, h) \in Nat /\ Refs(e, h) \in Nat /\ One(h, {v.hash}) \in Nat
    BY NamingType DEF One, Refs, IsElection
  <2>2. Naming(N, h) = Naming(e, h) + One(h, {v.hash})
    BY <1>1, <1>2, SameNaming DEF SameVotes
  <2>3. Refs(N, h) = Refs(e, h) + One(h, {v.hash}) /\ Naming(e, h) <= Refs(e, h)
    BY <1>1, <1>2 DEF Refs, One, Kept
  <2>4. QED
    BY <2>1, <2>2, <2>3
<1>4. QED
  BY <1>1, <1>2, <1>3 DEF SameVotes, SameCourse, N, V, AddBlock

\* Three votes a message can bring: the first one of a representative or one
\* that replaces its last, a contradiction of its last, and a proof of two.
LEMMA VoteSound ==
  ASSUME NEW a, NEW e, Sound(a, e), NEW r, NEW M, Freed(e, r, M),
         r \in DOMAIN e.votes => ~e.votes[r].conflict,
         NEW v \in Ballots, v.rep = r, Block[v.hash].account = a,
         Block[v.hash].height = e.height, NEW c \in BOOLEAN, ~c
  PROVE  LET N == AddBlock(AddRepVoteInfo(M, r, c, v), v.hash)
         IN  Sound(a, N) /\ SameCourse(e, N) /\ N.conflicts = e.conflicts
<1>1. v.timestamp \in Nat /\ v.hash \in Blocks
  BY ElectionsAssumption
<1> DEFINE N == AddBlock(AddRepVoteInfo(M, r, c, v), v.hash)
           new == [conflict |-> c, timestamp |-> v.timestamp, hash |-> v.hash]
<1>2. /\ IsElection(N) /\ Kept(N) /\ SameCourse(e, N) /\ N.conflicts = e.conflicts
      /\ N.votes = Put(e.votes, r, new)
  BY <1>1, ReplaceKept DEF Sound
<1> HIDE DEF N
<1>3. /\ DOMAIN N.votes = DOMAIN e.votes \cup {r}
      /\ N.votes[r] = new
      /\ \A s \in DOMAIN e.votes \ {r} : N.votes[s] = e.votes[s]
  BY <1>2 DEF Put
<1>4. r \notin DOMAIN e.conflicts
  BY DEF Sound, Proven
<1>5. Proven(a, N)
  <2>1. \A s \in DOMAIN N.votes : Signed(a, N.height, s, N.votes[s])
    BY <1>2, <1>3 DEF Sound, Proven, Signed, SameCourse
  <2>2. \A s \in DOMAIN N.conflicts : Signed(a, N.height, s, N.conflicts[s])
    BY <1>2 DEF Sound, Proven, SameCourse
  <2>3. {s \in DOMAIN N.votes : N.votes[s].conflict} = DOMAIN N.conflicts
    BY <1>2, <1>3, <1>4 DEF Sound, Proven
  <2>4. \A s \in DOMAIN N.conflicts : CheckConflict(N.votes[s], N.conflicts[s])
    BY <1>2, <1>3, <1>4 DEF Sound, Proven
  <2>5. QED
    BY <2>1, <2>2, <2>3, <2>4 DEF Proven
<1>6. QED
  BY <1>2, <1>5 DEF Sound, N

\* A vote in conflict with the last one of its representative excludes it.
LEMMA ContradictionSound ==
  ASSUME NEW a, NEW e, Sound(a, e), NEW r \in DOMAIN e.votes, ~e.votes[r].conflict,
         NEW v \in Ballots, v.rep = r, Block[v.hash].account = a,
         Block[v.hash].height = e.height, CheckConflict(e.votes[r], v)
  PROVE  LET N == AddBlock(AddConflict(AddRepVoteInfo(e, r, TRUE, e.votes[r]), r, v), v.hash)
         IN  /\ Sound(a, N) /\ SameCourse(e, N)
             /\ DOMAIN e.conflicts \subseteq DOMAIN N.conflicts
<1>1. v.timestamp \in Nat /\ v.hash \in Blocks
  BY ElectionsAssumption
<1>2. PICK c \in BOOLEAN : c = TRUE
  OBVIOUS
<1> DEFINE F == AddRepVoteInfo(e, r, c, e.votes[r])
           N == AddBlock(AddConflict(F, r, v), v.hash)
           old == [conflict |-> c, timestamp |-> e.votes[r].timestamp,
                   hash |-> e.votes[r].hash]
           new == [timestamp |-> v.timestamp, hash |-> v.hash]
<1>3. r \notin DOMAIN e.conflicts
  BY DEF Sound, Proven
<1>4. /\ IsElection(F) /\ Kept(F) /\ SameCourse(e, F) /\ F.conflicts = e.conflicts
      /\ F.votes = Put(e.votes, r, old)
  BY MarkKept DEF Sound
<1> HIDE DEF F
<1>5. /\ IsElection(N) /\ Kept(N) /\ SameCourse(F, N) /\ N.votes = F.votes
      /\ N.conflicts = Put(F.conflicts, r, new)
  BY <1>1, <1>3, <1>4, ConflictKept
<1> HIDE DEF N
<1>6. /\ DOMAIN N.votes = DOMAIN e.votes /\ N.votes[r] = old
      /\ \A s \in DOMAIN e.votes \ {r} : N.votes[s] = e.votes[s]
      /\ DOMAIN N.conflicts = DOMAIN e.conflicts \cup {r} /\ N.conflicts[r] = new
      /\ \A s \in DOMAIN e.conflicts : N.conflicts[s] = e.conflicts[s]
  BY <1>3, <1>4, <1>5 DEF Put
<1>7. SameCourse(e, N)
  BY <1>4, <1>5 DEF SameCourse
<1>8. Proven(a, N)
  <2>1. \A s \in DOMAIN N.votes : Signed(a, N.height, s, N.votes[s])
    BY <1>6, <1>7 DEF Sound, Proven, Signed, SameCourse
  <2>2. \A s \in DOMAIN N.conflicts : Signed(a, N.height, s, N.conflicts[s])
    BY <1>6, <1>7 DEF Sound, Proven, Signed, SameCourse
  <2>3. {s \in DOMAIN N.votes : N.votes[s].conflict} = DOMAIN N.conflicts
    BY <1>2, <1>6 DEF Sound, Proven
  <2>4. \A s \in DOMAIN N.conflicts : CheckConflict(N.votes[s], N.conflicts[s])
    BY <1>3, <1>6 DEF Sound, Proven, CheckConflict
  <2>5. QED
    BY <2>1, <2>2, <2>3, <2>4 DEF Proven
<1>9. QED
  BY <1>2, <1>5, <1>6, <1>7, <1>8, Zenon DEF Sound, N, F

\* A proof of two contradicting votes excludes their representative.
LEMMA ProofSound ==
  ASSUME NEW a, NEW e, Sound(a, e), NEW r, NEW M, Freed(e, r, M),
         r \in DOMAIN e.votes => ~e.votes[r].conflict,
         NEW v \in Ballots, v.rep = r, Block[v.hash].account = a,
         Block[v.hash].height = e.height,
         NEW w \in Ballots, w.rep = r, Block[w.hash].account = a,
         Block[w.hash].height = e.height, CheckConflict(v, w)
  PROVE  LET F == AddBlock(AddRepVoteInfo(M, r, TRUE, v), v.hash)
             N == AddBlock(AddConflict(F, r, w), w.hash)
         IN  /\ Sound(a, N) /\ SameCourse(e, N)
             /\ DOMAIN e.conflicts \subseteq DOMAIN N.conflicts
<1>1. /\ v.timestamp \in Nat /\ v.hash \in Blocks
      /\ w.timestamp \in Nat /\ w.hash \in Blocks
  BY ElectionsAssumption
<1>2. PICK c \in BOOLEAN : c = TRUE
  OBVIOUS
<1> DEFINE F == AddBlock(AddRepVoteInfo(M, r, c, v), v.hash)
           N == AddBlock(AddConflict(F, r, w), w.hash)
           old == [conflict |-> c, timestamp |-> v.timestamp, hash |-> v.hash]
           new == [timestamp |-> w.timestamp, hash |-> w.hash]
<1>3. r \notin DOMAIN e.conflicts
  BY DEF Sound, Proven
<1>4. /\ IsElection(F) /\ Kept(F) /\ SameCourse(e, F) /\ F.conflicts = e.conflicts
      /\ F.votes = Put(e.votes, r, old)
  BY <1>1, ReplaceKept DEF Sound
<1> HIDE DEF F
<1>5. /\ IsElection(N) /\ Kept(N) /\ SameCourse(F, N) /\ N.votes = F.votes
      /\ N.conflicts = Put(F.conflicts, r, new)
  BY <1>1, <1>3, <1>4, ConflictKept
<1> HIDE DEF N
<1>6. /\ DOMAIN N.votes = DOMAIN e.votes \cup {r} /\ N.votes[r] = old
      /\ \A s \in DOMAIN e.votes \ {r} : N.votes[s] = e.votes[s]
      /\ DOMAIN N.conflicts = DOMAIN e.conflicts \cup {r} /\ N.conflicts[r] = new
      /\ \A s \in DOMAIN e.conflicts : N.conflicts[s] = e.conflicts[s]
  BY <1>3, <1>4, <1>5 DEF Put
<1>7. SameCourse(e, N)
  BY <1>4, <1>5 DEF SameCourse
<1>8. Proven(a, N)
  <2>1. \A s \in DOMAIN N.votes : Signed(a, N.height, s, N.votes[s])
    BY <1>6, <1>7 DEF Sound, Proven, Signed, SameCourse
  <2>2. \A s \in DOMAIN N.conflicts : Signed(a, N.height, s, N.conflicts[s])
    BY <1>6, <1>7 DEF Sound, Proven, Signed, SameCourse
  <2>3. {s \in DOMAIN N.votes : N.votes[s].conflict} = DOMAIN N.conflicts
    BY <1>2, <1>6 DEF Sound, Proven
  <2>4. \A s \in DOMAIN N.conflicts : CheckConflict(N.votes[s], N.conflicts[s])
    BY <1>3, <1>6 DEF Sound, Proven, CheckConflict
  <2>5. QED
    BY <2>1, <2>2, <2>3, <2>4 DEF Proven
<1>9. QED
  BY <1>2, <1>5, <1>6, <1>7, <1>8, Zenon DEF Sound, N, F

-----------------------------------------------------------------------------
(* Slots.                                                                  *)

SlotInv(S) ==
  /\ S = [actives |-> S.actives, forks |-> S.forks]
  /\ S.actives \subseteq Accounts /\ S.forks \subseteq Accounts
  /\ IsFiniteSet(S.actives) /\ Cardinality(S.actives) <= concurrency_
  /\ IsFiniteSet(S.forks) /\ Cardinality(S.forks) <= FORK_CONCURRENCY

\* The account that is evicted is one of those that hold a slot.
LEMMA EvictedHolds ==
  ASSUME NEW J \in SUBSET Accounts, IsFiniteSet(J), J # {}
  PROVE  Max(J) \in J
<1> DEFINE f == [x \in J |-> x]
<1>1. J \subseteq Nat
  BY ElectionsAssumption
<1>2. \A x \in J : f[x] \in Nat
  BY <1>1
<1>3. \E x \in J : \A y \in J : f[y] <= f[x]
  <2> HIDE DEF f
  <2>1. QED
    BY <1>2, FiniteMax
<1>4. \E x \in J : \A y \in J : x >= y
  BY <1>1, <1>3
<1>5. QED
  BY <1>4 DEF Max

\* TryConcurrency_ gives a slot of one kind and takes that of the other, and
\* keeps both kinds within their limits.
LEMMA SlotsGiven ==
  ASSUME NEW S, SlotInv(S), NEW a \in Accounts, NEW fork \in BOOLEAN
  PROVE  LET N == TryConcurrency(S, a, fork)
         IN  /\ SlotInv(N)
             /\ N.actives \subseteq S.actives \cup {a} /\ N.forks \subseteq S.forks \cup {a}
             /\ fork => a \notin N.actives
             /\ ~fork => a \notin N.forks
<1> DEFINE N == TryConcurrency(S, a, fork)
           joined == S.forks \cup {a}
           forks == IF a \notin S.forks /\ Cardinality(joined) > FORK_CONCURRENCY
                    THEN joined \ {Max(joined)} ELSE joined
<1>1. /\ Cardinality(S.actives) \in Nat /\ Cardinality(S.forks) \in Nat
      /\ concurrency_ \in Nat /\ FORK_CONCURRENCY \in Nat
  BY FS_CardinalityType, ElectionsAssumption DEF SlotInv
<1>2. CASE fork
  <2>1. N = [actives |-> S.actives \ {a}, forks |-> forks]
    BY <1>2 DEF TryConcurrency
  <2>2. /\ IsFiniteSet(S.actives \ {a})
        /\ Cardinality(S.actives \ {a}) <= Cardinality(S.actives)
    BY FS_Subset DEF SlotInv
  <2>3. Cardinality(S.actives \ {a}) \in Nat
    BY <2>2, FS_CardinalityType
  <2>4. /\ IsFiniteSet(joined)
        /\ Cardinality(joined) =
             IF a \in S.forks THEN Cardinality(S.forks) ELSE Cardinality(S.forks) + 1
    BY FS_AddElement DEF SlotInv
  <2>5. joined \in SUBSET Accounts /\ joined # {} /\ Max(joined) \in joined
    <3>1. joined \in SUBSET Accounts /\ joined # {}
      BY DEF SlotInv
    <3>2. QED
      BY <2>4, <3>1, EvictedHolds
  <2> HIDE DEF joined
  <2>6. /\ IsFiniteSet(joined \ {Max(joined)})
        /\ Cardinality(joined \ {Max(joined)}) = Cardinality(joined) - 1
    BY <2>4, <2>5, FS_RemoveElement
  <2>7. /\ IsFiniteSet(forks) /\ forks \subseteq joined
        /\ Cardinality(forks) <= FORK_CONCURRENCY
    BY <1>1, <2>4, <2>6 DEF SlotInv
  <2> HIDE DEF forks
  <2>8. SlotInv(N)
    BY <1>1, <2>1, <2>2, <2>3, <2>5, <2>7 DEF SlotInv
  <2>9. /\ N.actives \subseteq S.actives \cup {a} /\ a \notin N.actives
        /\ N.forks \subseteq S.forks \cup {a}
    BY <2>1, <2>7 DEF joined
  <2>10. QED
    BY <1>2, <2>8, <2>9
<1>3. CASE ~fork
  <2> DEFINE actives == IF Cardinality(S.actives) < concurrency_
                        THEN S.actives \cup {a} ELSE S.actives
  <2>1. N = [actives |-> actives, forks |-> S.forks \ {a}]
    BY <1>3 DEF TryConcurrency
  <2>2. /\ IsFiniteSet(S.forks \ {a})
        /\ Cardinality(S.forks \ {a}) <= Cardinality(S.forks)
    BY FS_Subset DEF SlotInv
  <2>3. Cardinality(S.forks \ {a}) \in Nat
    BY <2>2, FS_CardinalityType
  <2>4. /\ IsFiniteSet(S.actives \cup {a})
        /\ Cardinality(S.actives \cup {a}) =
             IF a \in S.actives THEN Cardinality(S.actives) ELSE Cardinality(S.actives) + 1
    BY FS_AddElement DEF SlotInv
  <2>5. /\ IsFiniteSet(actives) /\ Cardinality(actives) <= concurrency_
        /\ actives \subseteq S.actives \cup {a}
    BY <1>1, <2>4 DEF SlotInv
  <2> HIDE DEF actives
  <2>6. SlotInv(N)
    BY <1>1, <2>1, <2>2, <2>3, <2>5 DEF SlotInv
  <2>7. QED
    BY <1>3, <2>1, <2>5, <2>6
<1>4. QED
  BY <1>2, <1>3

\* Erase_ gives both back.
LEMMA SlotsReturned ==
  ASSUME NEW S, SlotInv(S), NEW a
  PROVE  LET N == SlotsWithout(S, a)
         IN  /\ SlotInv(N) /\ a \notin N.actives /\ a \notin N.forks
             /\ N.actives \subseteq S.actives /\ N.forks \subseteq S.forks
<1>1. /\ Cardinality(S.actives) \in Nat /\ Cardinality(S.forks) \in Nat
      /\ concurrency_ \in Nat /\ FORK_CONCURRENCY \in Nat
  BY FS_CardinalityType, ElectionsAssumption DEF SlotInv
<1>2. /\ IsFiniteSet(S.forks \ {a}) /\ IsFiniteSet(S.actives \ {a})
      /\ Cardinality(S.forks \ {a}) <= Cardinality(S.forks)
      /\ Cardinality(S.actives \ {a}) <= Cardinality(S.actives)
  BY FS_Subset DEF SlotInv
<1>3. Cardinality(S.forks \ {a}) \in Nat /\ Cardinality(S.actives \ {a}) \in Nat
  BY <1>2, FS_CardinalityType
<1>4. QED
  BY <1>1, <1>2, <1>3 DEF SlotsWithout, SlotInv

-----------------------------------------------------------------------------
(* Counts in a row.                                                        *)

\* The counts remembered end with as many confirmations of the winner as the
\* election has counted.
Streak(s, k, winner) ==
  /\ \E R : s \in Seq(R)
  /\ k \in Nat /\ k <= Len(s) /\ k < FORK_ELECTION_ROUNDS_THRESHOLD
  /\ \A i \in (Len(s) - k + 1)..Len(s) : s[i].confirm /\ s[i].block = winner

Steady(e, s) == Streak(s, e.confirms, e.winner)

\* Another count, with the oldest one forgotten when there are too many.
LEMMA RunGrows ==
  ASSUME NEW R, NEW s \in Seq(R), NEW x, NEW k \in Nat, NEW winner,
         k <= Len(s) + 1, k < FORK_ELECTION_ROUNDS_THRESHOLD,
         k > 0 => /\ x.confirm /\ x.block = winner
                  /\ \A i \in (Len(s) - k + 2)..Len(s) : s[i].confirm /\ s[i].block = winner
  PROVE  LET longer == Append(s, x)
         IN  Streak(IF Len(longer) > FORK_ELECTION_ROUNDS_THRESHOLD THEN Tail(longer) ELSE longer,
                 k, winner)
<1> DEFINE Q == R \cup {x}
           longer == Append(s, x)
<1>1. Len(s) \in Nat /\ FORK_ELECTION_ROUNDS_THRESHOLD \in Nat
  BY ElectionsAssumption
<1>2. s \in Seq(Q) /\ x \in Q
  OBVIOUS
<1>3. /\ longer \in Seq(Q) /\ Len(longer) = Len(s) + 1
      /\ longer[Len(s) + 1] = x /\ \A i \in 1..Len(s) : longer[i] = s[i]
  BY <1>2
<1>4. /\ Tail(longer) \in Seq(Q) /\ Len(Tail(longer)) = Len(s)
      /\ \A i \in 1..Len(s) : Tail(longer)[i] = longer[i + 1]
  BY <1>1, <1>3
<1> HIDE DEF longer, Q
<1>5. \A i \in (Len(longer) - k + 1)..Len(longer) :
        longer[i].confirm /\ longer[i].block = winner
  <2> SUFFICES ASSUME NEW i \in (Len(longer) - k + 1)..Len(longer)
               PROVE  longer[i].confirm /\ longer[i].block = winner
    OBVIOUS
  <2>1. i \in Int /\ i >= Len(s) + 1 - k + 1 /\ i <= Len(s) + 1 /\ k > 0
    BY <1>1, <1>3
  <2>2. CASE i = Len(s) + 1
    BY <1>3, <2>1, <2>2
  <2>3. CASE i # Len(s) + 1
    <3>1. i \in 1..Len(s) /\ i \in (Len(s) - k + 2)..Len(s)
      BY <1>1, <2>1, <2>3
    <3>2. QED
      BY <1>3, <2>1, <3>1
  <2>4. QED
    BY <2>2, <2>3
<1>6. CASE Len(longer) > FORK_ELECTION_ROUNDS_THRESHOLD
  <2> DEFINE t == Tail(longer)
  <2>1. k <= Len(t) /\ Len(t) = Len(s)
    BY <1>1, <1>3, <1>4, <1>6
  <2>2. ASSUME NEW i \in (Len(t) - k + 1)..Len(t)
        PROVE  t[i].confirm /\ t[i].block = winner
    <3>1. i \in 1..Len(s) /\ i + 1 \in (Len(longer) - k + 1)..Len(longer)
      BY <1>1, <1>3, <2>1
    <3>2. QED
      BY <1>4, <1>5, <3>1
  <2>3. Streak(t, k, winner)
    BY <1>4, <2>1, <2>2 DEF Streak
  <2>4. QED
    BY <1>6, <2>3 DEF longer
<1>7. CASE ~(Len(longer) > FORK_ELECTION_ROUNDS_THRESHOLD)
  <2>1. Streak(longer, k, winner)
    BY <1>3, <1>5 DEF Streak
  <2>2. QED
    BY <1>7, <2>1 DEF longer
<1>8. QED
  BY <1>6, <1>7

-----------------------------------------------------------------------------
(* All elections.                                                          *)

Placed(S, E) ==
  /\ S.actives \subseteq {a \in DOMAIN E : ~E[a].fork}
  /\ S.forks \subseteq {a \in DOMAIN E : E[a].fork}

IInv ==
  /\ DOMAIN elections \subseteq Accounts
  /\ elections = [a \in DOMAIN elections |-> elections[a]]
  /\ counts = [a \in Accounts |-> counts[a]]
  /\ \A a \in DOMAIN elections : Sound(a, elections[a]) /\ Steady(elections[a], counts[a])
  /\ SlotInv(slots) /\ Placed(slots, elections)

\* What the action properties ask of a step.
Lasting ==
  \A a \in DOMAIN elections :
    /\ a \in DOMAIN elections'
    /\ elections'[a].height = elections[a].height
    => DOMAIN elections[a].conflicts \subseteq DOMAIN elections'[a].conflicts

Verdict ==
  \A a \in DOMAIN elections :
    (/\ elections[a].fork /\ a \notin DOMAIN elections'
     /\ forced'.operation = "CONFIRM")
    => /\ Len(counts[a]) >= FORK_ELECTION_ROUNDS_THRESHOLD - 1
       /\ \A i \in Len(counts[a]) - FORK_ELECTION_ROUNDS_THRESHOLD + 2..Len(counts[a]) :
            counts[a][i].confirm /\ counts[a][i].block = forced'.block

\* A step concerns one account.
Elsewhere(a) ==
  /\ DOMAIN elections' \ {a} = DOMAIN elections \ {a}
  /\ elections' = [x \in DOMAIN elections' |-> elections'[x]]
  /\ \A x \in DOMAIN elections \ {a} : elections'[x] = elections[x]
  /\ counts' = [x \in Accounts |-> counts'[x]]
  /\ \A x \in Accounts \ {a} : counts'[x] = counts[x]
  /\ SlotInv(slots')
  /\ slots'.actives \subseteq slots.actives \cup {a}
  /\ slots'.forks \subseteq slots.forks \cup {a}

\* The election of this account goes, and its slot with it,
LEMMA Leaves ==
  ASSUME IInv, NEW a \in Accounts, Elsewhere(a), a \notin DOMAIN elections',
         a \notin slots'.actives, a \notin slots'.forks
  PROVE  IInv' /\ Lasting
<1>1. Lasting
  BY DEF Elsewhere, Lasting
<1>2. \A x \in DOMAIN elections' : Sound(x, elections'[x]) /\ Steady(elections'[x], counts'[x])
  BY DEF IInv, Elsewhere
<1>3. Placed(slots', elections')
  BY DEF IInv, Elsewhere, Placed
<1>4. QED
  BY <1>1, <1>2, <1>3 DEF IInv, Elsewhere

\* or stays and remembers its exclusions.
LEMMA Stays ==
  ASSUME IInv, NEW a \in Accounts, Elsewhere(a), a \in DOMAIN elections',
         Sound(a, elections'[a]), Steady(elections'[a], counts'[a]),
         a \in slots'.actives => ~elections'[a].fork,
         a \in slots'.forks => elections'[a].fork,
         a \in DOMAIN elections /\ elections'[a].height = elections[a].height
           => DOMAIN elections[a].conflicts \subseteq DOMAIN elections'[a].conflicts
  PROVE  IInv' /\ Lasting
<1>1. Lasting
  BY DEF Elsewhere, Lasting
<1>2. \A x \in DOMAIN elections' : Sound(x, elections'[x]) /\ Steady(elections'[x], counts'[x])
  BY DEF IInv, Elsewhere
<1>3. Placed(slots', elections')
  BY DEF IInv, Elsewhere, Placed
<1>4. QED
  BY <1>1, <1>2, <1>3 DEF IInv, Elsewhere

\* Nothing is confirmed but by a count.
LEMMA NoVerdict ==
  ASSUME forced' = Nothing
  PROVE  Verdict
BY DEF Verdict, Nothing

\* An election is stored with more blocks or votes, and changes its slot when
\* it has become contested.
LEMMA StoreInv ==
  ASSUME IInv, NEW a \in DOMAIN elections, NEW N, Store(a, elections[a], N),
         UNCHANGED counts, Sound(a, N), SameCourse(elections[a], N),
         DOMAIN elections[a].conflicts \subseteq DOMAIN N.conflicts
  PROVE  IInv' /\ Lasting
<1> DEFINE e == elections[a]
<1>1. a \in Accounts /\ e.fork \in BOOLEAN /\ N.fork \in BOOLEAN /\ (e.fork => N.fork)
  BY DEF IInv, Sound, IsElection, SameCourse
<1>2. elections' = [elections EXCEPT ![a] = N]
  BY DEF Store
<1>3. /\ DOMAIN elections' = DOMAIN elections /\ elections'[a] = N
      /\ elections' = [x \in DOMAIN elections' |-> elections'[x]]
      /\ \A x \in DOMAIN elections \ {a} : elections'[x] = elections[x]
  BY <1>2 DEF IInv
<1>4. Steady(N, counts'[a])
  BY DEF IInv, Steady, SameCourse
<1>5. CASE N.fork /\ ~e.fork
  <2>1. PICK c \in BOOLEAN : c = TRUE
    OBVIOUS
  <2>2. slots' = TryConcurrency(slots, a, c)
    BY <1>5, <2>1, Zenon DEF Store
  <2>3. /\ SlotInv(slots') /\ a \notin slots'.actives
        /\ slots'.actives \subseteq slots.actives \cup {a}
        /\ slots'.forks \subseteq slots.forks \cup {a}
    BY <1>1, <2>1, <2>2, SlotsGiven DEF IInv
  <2>4. Elsewhere(a)
    BY <1>3, <2>3 DEF Elsewhere, IInv
  <2>5. QED
    BY <1>1, <1>3, <1>4, <1>5, <2>3, <2>4, Stays
<1>6. CASE ~(N.fork /\ ~e.fork)
  <2>1. slots' = slots
    BY <1>6 DEF Store
  <2>2. Elsewhere(a)
    BY <1>3, <2>1 DEF Elsewhere, IInv
  <2>3. /\ a \in slots'.actives => ~N.fork
        /\ a \in slots'.forks => N.fork
    BY <1>1, <1>6, <2>1 DEF IInv, Placed
  <2>4. QED
    BY <1>1, <1>3, <1>4, <2>2, <2>3, Stays
<1>7. QED
  BY <1>5, <1>6

\* Elections::Add.
LEMMA AddInv ==
  ASSUME IInv, NEW a \in Accounts, NEW h, NEW bs \in SUBSET Blocks, IsFiniteSet(bs),
         bs # {}, Add(a, h, bs)
  PROVE  IInv' /\ Lasting /\ Verdict
<1> DEFINE existing == a \in DOMAIN elections
<1>1. Verdict
  BY NoVerdict DEF Add
<1>2. CASE existing /\ elections[a].height < h
  <2>1. UNCHANGED <<elections, slots, counts>>
    BY <1>2 DEF Add
  <2>2. QED
    BY <1>1, <2>1 DEF IInv, Lasting
<1>3. CASE existing /\ ~(elections[a].height < h) /\ elections[a].height = h
  <2>1. Store(a, elections[a], AddBlocks(elections[a], bs)) /\ UNCHANGED counts
    BY <1>3 DEF Add
  <2>2. Sound(a, elections[a])
    BY <1>3 DEF IInv
  <2> DEFINE N == AddBlocks(elections[a], bs)
  <2>3. Sound(a, N) /\ SameVotes(elections[a], N) /\ (elections[a].fork => N.fork)
    BY <2>2, AddSound
  <2> HIDE DEF N
  <2>4. SameCourse(elections[a], N) /\ N.conflicts = elections[a].conflicts
    BY <2>3 DEF SameCourse, SameVotes
  <2>5. QED
    BY <1>1, <1>3, <2>1, <2>3, <2>4, StoreInv DEF N
<1>4. CASE ~existing \/ (~(elections[a].height < h) /\ elections[a].height # h)
  <2> DEFINE e == AddBlocks(NewElection(h), bs)
             free == IF existing THEN SlotsWithout(slots, a) ELSE slots
  <2>1. /\ elections' = Put(elections, a, e)
        /\ slots' = IF e.fork THEN TryConcurrency(free, a, TRUE) ELSE free
        /\ counts' = [counts EXCEPT ![a] = <<>>]
    BY <1>4 DEF Add
  <2>2. Sound(a, e) /\ e.height = h /\ e.confirms = 0
    BY NewSound
  <2>3. e.fork \in BOOLEAN
    BY <2>2 DEF Sound, IsElection
  <2>4. /\ SlotInv(free) /\ a \notin free.actives /\ a \notin free.forks
        /\ free.actives \subseteq slots.actives /\ free.forks \subseteq slots.forks
    <3>1. CASE existing
      BY <3>1, SlotsReturned DEF IInv
    <3>2. CASE ~existing
      BY <3>2 DEF IInv, Placed
    <3>3. QED
      BY <3>1, <3>2
  <2> HIDE DEF e, free
  <2>5. /\ SlotInv(slots') /\ slots'.actives \subseteq slots.actives \cup {a}
        /\ slots'.forks \subseteq slots.forks \cup {a}
        /\ (a \in slots'.actives => ~e.fork) /\ (a \in slots'.forks => e.fork)
    <3>1. CASE e.fork
      <4>1. PICK c \in BOOLEAN : c = TRUE
        OBVIOUS
      <4>2. slots' = TryConcurrency(free, a, c)
        BY <2>1, <3>1, <4>1, Zenon
      <4>3. /\ SlotInv(slots') /\ a \notin slots'.actives
            /\ slots'.actives \subseteq free.actives \cup {a}
            /\ slots'.forks \subseteq free.forks \cup {a}
        BY <2>4, <4>1, <4>2, SlotsGiven
      <4>4. QED
        BY <2>4, <3>1, <4>3
    <3>2. CASE ~e.fork
      BY <2>1, <2>4, <3>2
    <3>3. QED
      BY <3>1, <3>2
  <2>6. /\ DOMAIN elections' = DOMAIN elections \cup {a} /\ elections'[a] = e
        /\ elections' = [x \in DOMAIN elections' |-> elections'[x]]
        /\ \A x \in DOMAIN elections \ {a} : elections'[x] = elections[x]
    BY <2>1 DEF Put
  <2>7. /\ counts' = [x \in Accounts |-> counts'[x]] /\ counts'[a] = <<>>
        /\ \A x \in Accounts \ {a} : counts'[x] = counts[x]
    BY <2>1 DEF IInv
  <2>8. Elsewhere(a)
    BY <2>5, <2>6, <2>7 DEF Elsewhere
  <2>9. Steady(e, counts'[a])
    <3>1. <<>> \in Seq({}) /\ Len(<<>>) = 0
      OBVIOUS
    <3>2. \A i \in 1..0 : FALSE
      OBVIOUS
    <3>3. QED
      BY <2>2, <2>7, <3>1, <3>2, ElectionsAssumption DEF Steady, Streak
  <2>10. existing => elections'[a].height # elections[a].height
    BY <1>4, <2>2, <2>6
  <2>11. QED
    BY <1>1, <2>2, <2>5, <2>6, <2>8, <2>9, <2>10, Stays
<1>5. QED
  BY <1>2, <1>3, <1>4

\* What DelBlock leaves when the vote of r is to be replaced.
LEMMA DelFrees ==
  ASSUME NEW e, IsElection(e), Kept(e), NEW r
  PROVE  /\ r \in DOMAIN e.votes => Freed(e, r, DelBlock(e, e.votes[r].hash))
         /\ r \notin DOMAIN e.votes => Freed(e, r, e)
<1>1. ASSUME r \in DOMAIN e.votes
      PROVE  Freed(e, r, DelBlock(e, e.votes[r].hash))
  <2> DEFINE M == DelBlock(e, e.votes[r].hash)
  <2>1. /\ SameVotes(e, M) /\ M.fork = e.fork /\ DOMAIN M.blocks # {}
        /\ \A h : Refs(M, h) >= Refs(e, h) - One(h, {e.votes[r].hash})
    BY TakesReference DEF Kept
  <2>2. \A h : One(h, {e.votes[r].hash}) = One(r, Voters(e, h))
    BY <1>1 DEF One, Voters
  <2> HIDE DEF M
  <2>3. QED
    BY <2>1, <2>2 DEF Freed, M
<1>2. ASSUME r \notin DOMAIN e.votes
      PROVE  Freed(e, r, e)
  <2>1. \A h : One(r, Voters(e, h)) = 0 /\ Refs(e, h) \in Nat
    BY <1>2, SMTT(40) DEF One, Voters, Refs, IsElection
  <2>2. QED
    BY <2>1 DEF Freed, SameVotes, Kept
<1>3. QED
  BY <1>1, <1>2

\* Elections::ProcessConfirm.
LEMMA ProcessConfirmInv ==
  ASSUME IInv, NEW v \in Ballots, ProcessConfirm(v)
  PROVE  IInv' /\ Lasting /\ Verdict
<1> DEFINE a == Block[v.hash].account
           e == elections[a]
           r == v.rep
           last == e.votes[r]
<1>1. Verdict
  BY NoVerdict DEF ProcessConfirm
<1>2. /\ a \in DOMAIN elections /\ Block[v.hash].height = e.height /\ UNCHANGED counts
  BY DEF ProcessConfirm, Concerns
<1>3. Sound(a, e) /\ IsElection(e) /\ Kept(e)
  BY <1>2 DEF IInv, Sound
<1>4. CASE /\ r \notin DOMAIN e.votes
           /\ Store(a, e, AddBlock(AddRepVoteInfo(e, r, FALSE, v), v.hash))
  <2> DEFINE N == AddBlock(AddRepVoteInfo(e, r, FALSE, v), v.hash)
  <2>1. Freed(e, r, e)
    BY <1>3, <1>4, DelFrees
  <2>2. Sound(a, N) /\ SameCourse(e, N) /\ N.conflicts = e.conflicts
    <3>1. r \in DOMAIN e.votes => ~e.votes[r].conflict
      BY <1>4
    <3>2. v.rep = r /\ Block[v.hash].account = a
      OBVIOUS
    <3>3. PICK c \in BOOLEAN : c = FALSE
      OBVIOUS
    <3> DEFINE V == AddBlock(AddRepVoteInfo(e, r, c, v), v.hash)
    <3>4. N = V
      BY <3>3, Zenon
    <3> HIDE DEF a, e, r, N
    <3>5. Sound(a, V) /\ SameCourse(e, V) /\ V.conflicts = e.conflicts
      BY <1>2, <1>3, <2>1, <3>1, <3>2, <3>3, VoteSound
    <3>6. QED
      BY <3>4, <3>5
  <2>3. Store(a, e, N)
    BY <1>4
  <2> HIDE DEF N, e, a
  <2>4. QED
    BY <1>1, <1>2, <2>2, <2>3, StoreInv DEF e
<1>5. CASE /\ r \in DOMAIN e.votes /\ ~last.conflict /\ CheckConflict(last, v)
           /\ Store(a, e, AddBlock(AddConflict(AddRepVoteInfo(e, r, TRUE, last),
                                               r, v), v.hash))
  <2> DEFINE N == AddBlock(AddConflict(AddRepVoteInfo(e, r, TRUE, last), r, v), v.hash)
  <2>1. /\ Sound(a, N) /\ SameCourse(e, N)
        /\ DOMAIN e.conflicts \subseteq DOMAIN N.conflicts
    BY <1>2, <1>3, <1>5, ContradictionSound, ZenonT(60)
  <2>2. Store(a, e, N)
    BY <1>5, ZenonT(60)
  <2> HIDE DEF N, e, a
  <2>3. QED
    BY <1>1, <1>2, <2>1, <2>2, StoreInv DEF e
<1>6. CASE /\ r \in DOMAIN e.votes /\ ~last.conflict
           /\ Store(a, e, AddBlock(AddRepVoteInfo(DelBlock(e, last.hash),
                                                  r, FALSE, v), v.hash))
  <2> DEFINE M == DelBlock(e, last.hash)
             N == AddBlock(AddRepVoteInfo(M, r, FALSE, v), v.hash)
  <2>1. Freed(e, r, M)
    BY <1>3, <1>6, DelFrees
  <2>2. Sound(a, N) /\ SameCourse(e, N) /\ N.conflicts = e.conflicts
    <3>1. r \in DOMAIN e.votes => ~e.votes[r].conflict
      BY <1>6
    <3>2. v.rep = r /\ Block[v.hash].account = a
      OBVIOUS
    <3>3. PICK c \in BOOLEAN : c = FALSE
      OBVIOUS
    <3> DEFINE V == AddBlock(AddRepVoteInfo(M, r, c, v), v.hash)
    <3>4. N = V
      BY <3>3, Zenon
    <3> HIDE DEF a, e, r, N, M
    <3>5. Sound(a, V) /\ SameCourse(e, V) /\ V.conflicts = e.conflicts
      BY <1>2, <1>3, <2>1, <3>1, <3>2, <3>3, VoteSound, SMTT(40)
    <3>6. QED
      BY <3>4, <3>5, SMTT(40)
  <2>3. Store(a, e, N)
    BY <1>6
  <2> HIDE DEF N, e, a
  <2>4. QED
    BY <1>1, <1>2, <2>2, <2>3, StoreInv DEF e
<1>7. QED
  BY <1>4, <1>5, <1>6, ZenonT(60) DEF ProcessConfirm

\* Elections::ProcessConflict.
LEMMA ProcessConflictInv ==
  ASSUME IInv, NEW v \in Ballots, NEW w \in Ballots, ProcessConflict(v, w)
  PROVE  IInv' /\ Lasting /\ Verdict
<1> DEFINE a == Block[v.hash].account
           e == elections[a]
           r == v.rep
           M == IF r \in DOMAIN e.votes THEN DelBlock(e, e.votes[r].hash) ELSE e
           F == AddBlock(AddRepVoteInfo(M, r, TRUE, v), v.hash)
           N == AddBlock(AddConflict(F, r, w), w.hash)
<1>1. Verdict
  BY NoVerdict, ZenonT(60) DEF ProcessConflict
<1>2. /\ a \in DOMAIN elections /\ Block[v.hash].height = e.height /\ UNCHANGED counts
      /\ w.rep = r /\ Block[w.hash].account = a /\ Block[w.hash].height = e.height
      /\ CheckConflict(v, w) /\ (r \in DOMAIN e.votes => ~e.votes[r].conflict)
  BY DEF ProcessConflict, Concerns, SamePosition
<1>3. Sound(a, e) /\ IsElection(e) /\ Kept(e)
  BY <1>2, SMTT(40) DEF IInv, Sound
<1>4. Store(a, e, N)
  BY DEF ProcessConflict
<1>5. Freed(e, r, M)
  BY <1>3, DelFrees
<1>6. /\ Sound(a, N) /\ SameCourse(e, N)
      /\ DOMAIN e.conflicts \subseteq DOMAIN N.conflicts
  <2> HIDE DEF M
  <2>1. QED
    BY <1>2, <1>3, <1>5, ProofSound, Zenon
<1> HIDE DEF N, e, a
<1>7. QED
  BY <1>1, <1>2, <1>4, <1>6, StoreInv, SMTT(40) DEF e

-----------------------------------------------------------------------------
(* Counting.                                                               *)

\* e is the election of a at the time it is counted, S are the slots then.
Counted(a, e, S) ==
  /\ a \in DOMAIN elections /\ a \in Accounts
  /\ Sound(a, e) /\ e.fork \in BOOLEAN
  /\ e.height = elections[a].height /\ e.conflicts = elections[a].conflicts
  /\ e.fork = elections[a].fork
  /\ Steady(e, counts[a])
  /\ SlotInv(S)
  /\ S.actives \subseteq slots.actives \cup {a} /\ S.forks \subseteq slots.forks \cup {a}
  /\ e.fork => a \notin S.actives
  /\ ~e.fork => a \notin S.forks

\* What is counted has forgotten outdated votes and tried to get a slot.
LEMMA TakenUp ==
  ASSUME IInv, NEW a \in DOMAIN elections, NEW e \in PurgeOutdatedVotes(elections[a])
  PROVE  Counted(a, e, TryConcurrency(slots, a, e.fork))
<1>1. a \in Accounts /\ Sound(a, elections[a]) /\ Steady(elections[a], counts[a])
  BY DEF IInv
<1>2. Sound(a, e)
  BY <1>1, PurgeSound
<1>3. /\ e.height = elections[a].height /\ e.conflicts = elections[a].conflicts
      /\ e.fork = elections[a].fork /\ e.confirms = elections[a].confirms
      /\ e.winner = elections[a].winner
  BY <1>1, Purged DEF Sound, Kept
<1>4. e.fork \in BOOLEAN
  BY <1>2 DEF Sound, IsElection
<1> DEFINE fork == e.fork
           S == TryConcurrency(slots, a, fork)
<1>5. /\ SlotInv(S)
      /\ S.actives \subseteq slots.actives \cup {a} /\ S.forks \subseteq slots.forks \cup {a}
      /\ (fork => a \notin S.actives) /\ (~fork => a \notin S.forks)
  <2>1. fork \in BOOLEAN /\ SlotInv(slots)
    BY <1>4 DEF IInv
  <2> HIDE DEF fork
  <2>2. QED
    BY <1>1, <2>1, SlotsGiven
<1>6. Steady(e, counts[a])
  BY <1>1, <1>3 DEF Steady
<1> HIDE DEF S
<1>7. Counted(a, e, S)
  BY <1>1, <1>2, <1>3, <1>4, <1>5, <1>6 DEF Counted
<1>8. QED
  BY <1>7 DEF S

\* The election goes on with the same votes and blocks.
LEMMA GoesOn ==
  ASSUME IInv, NEW a, NEW e, NEW S, Counted(a, e, S), NEW N, IsElection(N),
         N.height = e.height, N.blocks = e.blocks, N.votes = e.votes,
         N.conflicts = e.conflicts, N.fork = e.fork,
         elections' = [elections EXCEPT ![a] = N], slots' = S,
         NEW c, counts' = [counts EXCEPT ![a] = c], Steady(N, c)
  PROVE  IInv' /\ Lasting /\ Verdict
<1>1. Sound(a, N)
  BY SoundFrame DEF Counted
<1>2. /\ DOMAIN elections' = DOMAIN elections /\ elections'[a] = N
      /\ elections' = [x \in DOMAIN elections' |-> elections'[x]]
      /\ \A x \in DOMAIN elections \ {a} : elections'[x] = elections[x]
  BY DEF Counted, IInv
<1>3. /\ counts' = [x \in Accounts |-> counts'[x]] /\ counts'[a] = c
      /\ \A x \in Accounts \ {a} : counts'[x] = counts[x]
  BY DEF Counted, IInv
<1>4. Elsewhere(a)
  BY <1>2, <1>3 DEF Elsewhere, Counted
<1>5. /\ a \in Accounts
      /\ (a \in slots'.actives => ~N.fork) /\ (a \in slots'.forks => N.fork)
  BY DEF Counted
<1>6. N.conflicts = elections[a].conflicts /\ a \in DOMAIN elections
  BY DEF Counted
<1>7. Verdict
  BY <1>2 DEF Verdict
<1>8. QED
  BY <1>1, <1>2, <1>3, <1>4, <1>5, <1>6, <1>7, Stays

\* The election ends.
LEMMA Ends ==
  ASSUME IInv, NEW a, NEW e, NEW S, Counted(a, e, S), NEW verdict, End(a, S, verdict)
  PROVE  /\ IInv' /\ Lasting /\ forced' = verdict
         /\ DOMAIN elections' = DOMAIN elections \ {a}
<1>1. /\ elections' = [x \in DOMAIN elections \ {a} |-> elections[x]]
      /\ counts' = [counts EXCEPT ![a] = <<>>] /\ slots' = SlotsWithout(S, a)
      /\ forced' = verdict
  BY DEF End, Erase
<1>2. /\ DOMAIN elections' = DOMAIN elections \ {a}
      /\ elections' = [x \in DOMAIN elections' |-> elections'[x]]
      /\ \A x \in DOMAIN elections \ {a} : elections'[x] = elections[x]
  BY <1>1
<1>3. /\ counts' = [x \in Accounts |-> counts'[x]]
      /\ \A x \in Accounts \ {a} : counts'[x] = counts[x]
  BY <1>1 DEF Counted, IInv
<1>4. SlotInv(S)
  BY DEF Counted
<1>5. /\ SlotInv(slots') /\ a \notin slots'.actives /\ a \notin slots'.forks
      /\ slots'.actives \subseteq S.actives /\ slots'.forks \subseteq S.forks
  BY <1>1, <1>4, SlotsReturned
<1>6. Elsewhere(a)
  BY <1>2, <1>3, <1>5 DEF Elsewhere, Counted
<1>7. a \in Accounts
  BY DEF Counted
<1>8. QED
  BY <1>1, <1>2, <1>5, <1>6, <1>7, Leaves

\* No slot: the election starts over.
LEMMA HoldInv ==
  ASSUME IInv, NEW a, NEW e, NEW S, Counted(a, e, S), slots' = S, Hold(a, e)
  PROVE  IInv' /\ Lasting /\ Verdict
<1>0. PICK yes \in BOOLEAN : yes = TRUE
  OBVIOUS
<1> DEFINE N == [e EXCEPT !.wins = 0, !.confirms = 0, !.rounds = 0, !.roundsFork = 0,
                          !.broadcast = yes]
<1>1. /\ IsElection(N) /\ N.height = e.height /\ N.blocks = e.blocks
      /\ N.votes = e.votes /\ N.conflicts = e.conflicts /\ N.fork = e.fork
      /\ N.confirms = 0
  <2>1. IsElection(e)
    BY DEF Counted, Sound
  <2>2. /\ N.height = e.height /\ N.blocks = e.blocks /\ N.votes = e.votes
        /\ N.conflicts = e.conflicts /\ N.fork = e.fork /\ N.confirms = 0
    BY <2>1 DEF IsElection
  <2>3. HasFields(N)
    <3> DEFINE n1 == [e EXCEPT !.wins = 0]
               n2 == [n1 EXCEPT !.confirms = 0]
               n3 == [n2 EXCEPT !.rounds = 0]
               n4 == [n3 EXCEPT !.roundsFork = 0]
    <3>1. N = [n4 EXCEPT !.broadcast = yes]
      BY Zenon
    <3>2. HasFields(e)
      BY <2>1 DEF IsElection, HasFields
    <3> HIDE DEF n1, n2, n3, n4, N
    <3>3. HasFields(n1)
      BY <3>2, FieldsKept DEF n1
    <3>4. HasFields(n2)
      BY <3>3, FieldsKept DEF n2
    <3>5. HasFields(n3)
      BY <3>4, FieldsKept DEF n3
    <3>6. HasFields(n4)
      BY <3>5, FieldsKept DEF n4
    <3>7. QED
      BY <3>1, <3>6, FieldsKept
  <2> HIDE DEF N
  <2>4. QED
    BY <2>1, <2>2, <2>3 DEF IsElection, HasFields
<1>2. PICK c : /\ elections' = [elections EXCEPT ![a] = N]
               /\ counts' = [counts EXCEPT ![a] = c]
               /\ c = IF e.fork THEN Remember(a, Held) ELSE counts[a]
  <2>1. elections' = [elections EXCEPT ![a] = N]
    BY <1>0, Zenon DEF Hold
  <2>2. counts' = [counts EXCEPT ![a] = IF e.fork THEN Remember(a, Held) ELSE counts[a]]
    BY Zenon DEF Hold
  <2> QED
    BY <2>1, <2>2
<1> HIDE DEF N
<1>3. Steady(N, c)
  <2> DEFINE s == counts[a]
             T == FORK_ELECTION_ROUNDS_THRESHOLD
  <2>1. Streak(s, e.confirms, e.winner) /\ T \in Nat \ {0}
    BY ElectionsAssumption DEF Counted, Steady
  <2>2. PICK R : s \in Seq(R)
    BY <2>1 DEF Streak
  <2>3. Len(s) \in Nat
    BY <2>2
  <2>4. \A i \in (Len(s) - 0 + 1)..Len(s) : FALSE
    BY <2>3
  <2>5. Streak(s, 0, N.winner)
    BY <2>1, <2>2, <2>3, <2>4 DEF Streak
  <2>6. Streak(Remember(a, Held), 0, N.winner)
    <3> DEFINE x == [confirm |-> Held.confirm, win |-> Held.win, block |-> Held.block]
               longer == Append(s, x)
    <3>1. Streak(IF Len(longer) > T THEN Tail(longer) ELSE longer, 0, N.winner)
      <4>1. 0 \in Nat /\ 0 <= Len(s) + 1 /\ 0 < T /\ ~(0 > 0)
        BY <2>1, <2>3
      <4> HIDE DEF x, s, T
      <4>2. \A k \in Nat : k <= Len(s) + 1 /\ k < T /\ ~(k > 0)
              => Streak(IF Len(longer) > T THEN Tail(longer) ELSE longer, k, N.winner)
        BY <2>2, RunGrows DEF T
      <4> QED
        BY <4>1, <4>2
    <3> QED
      BY <3>1 DEF Remember
  <2> QED
    BY <1>1, <1>2, <2>5, <2>6 DEF Steady
<1>4. QED
  BY <1>1, <1>2, <1>3, GoesOn

\* An uncontested election asks again, or ends.
LEMMA UncontestedInv ==
  ASSUME IInv, NEW a, NEW e, NEW S, Counted(a, e, S), ~e.fork, NEW outcome,
         CountUncontested(a, e, S, outcome)
  PROVE  IInv' /\ Lasting /\ Verdict
<1> DEFINE asked == IF e.broadcast THEN [e EXCEPT !.broadcast = FALSE]
                    ELSE [e EXCEPT !.broadcast = TRUE, !.rounds = @ + 1]
<1>1. CASE \E verdict : End(a, S, verdict)
  <2>1. PICK verdict : End(a, S, verdict)
    BY <1>1
  <2>2. IInv' /\ Lasting /\ DOMAIN elections' = DOMAIN elections \ {a}
    BY <2>1, Ends
  <2>3. ~elections[a].fork
    BY DEF Counted
  <2>4. Verdict
    BY <2>2, <2>3 DEF Verdict
  <2>5. QED
    BY <2>2, <2>4
<1>2. CASE /\ elections' = [elections EXCEPT ![a] = asked]
           /\ slots' = S /\ UNCHANGED counts
  <2>1. /\ IsElection(asked) /\ asked.height = e.height /\ asked.blocks = e.blocks
        /\ asked.votes = e.votes /\ asked.conflicts = e.conflicts
        /\ asked.fork = e.fork /\ asked.confirms = e.confirms /\ asked.winner = e.winner
    BY DEF Counted, Sound, IsElection
  <2> HIDE DEF asked
  <2>2. counts' = [counts EXCEPT ![a] = counts[a]]
    BY <1>2 DEF IInv, Counted
  <2>3. Steady(asked, counts[a])
    BY <2>1 DEF Counted, Steady
  <2>4. QED
    BY <1>2, <2>1, <2>2, <2>3, GoesOn, ZenonT(60)
<1>3. QED
  BY <1>1, <1>2 DEF CountUncontested

\* A contested election asks for votes first,
LEMMA BroadcastInv ==
  ASSUME IInv, NEW a, NEW e, NEW S, Counted(a, e, S), Broadcast(a, e, S)
  PROVE  IInv' /\ Lasting /\ Verdict
<1>0. PICK no \in BOOLEAN : no = FALSE
  OBVIOUS
<1> DEFINE N == [e EXCEPT !.broadcast = no]
<1>1. /\ IsElection(N) /\ N.height = e.height /\ N.blocks = e.blocks
      /\ N.votes = e.votes /\ N.conflicts = e.conflicts
      /\ N.fork = e.fork /\ N.confirms = e.confirms /\ N.winner = e.winner
  BY DEF Counted, Sound, IsElection
<1>2. elections' = [elections EXCEPT ![a] = N] /\ slots' = S /\ UNCHANGED counts
  BY <1>0, Zenon DEF Broadcast
<1> HIDE DEF N
<1>3. counts' = [counts EXCEPT ![a] = counts[a]]
  BY <1>2 DEF IInv, Counted
<1>4. Steady(N, counts[a])
  BY <1>1 DEF Counted, Steady
<1>5. QED
  BY <1>1, <1>2, <1>3, <1>4, GoesOn

\* and counts then: the run of confirmations grows, begins again or breaks.
LEMMA ContestedInv ==
  ASSUME IInv, NEW a, NEW e, NEW S, Counted(a, e, S), e.fork, NEW outcome,
         CountContested(a, e, S, outcome)
  PROVE  IInv' /\ Lasting /\ Verdict
<1> DEFINE s == counts[a]
           x == [confirm |-> outcome.confirm, win |-> outcome.win, block |-> outcome.block]
           again == outcome.block = e.winner
           k == IF ~outcome.win \/ ~outcome.confirm THEN 0
                ELSE IF again THEN e.confirms + 1 ELSE 1
           winner == IF outcome.win THEN outcome.block ELSE e.winner
           T == FORK_ELECTION_ROUNDS_THRESHOLD
           scored == [Score(e, outcome) EXCEPT !.broadcast = TRUE, !.rounds = @ + 1,
                                              !.roundsFork = @ + 1]
<1>1. /\ IsElection(scored) /\ scored.height = e.height /\ scored.blocks = e.blocks
      /\ scored.votes = e.votes /\ scored.conflicts = e.conflicts
      /\ scored.fork = e.fork /\ scored.confirms = k /\ scored.winner = winner
  <2>1. IsElection(e)
    BY DEF Counted, Sound
  <2>2. PICK yes \in BOOLEAN : yes = TRUE
    OBVIOUS
  <2> DEFINE scoring == [Score(e, outcome) EXCEPT !.broadcast = yes, !.rounds = @ + 1,
                                                 !.roundsFork = @ + 1]
             wins == IF ~outcome.win THEN 0 ELSE IF again THEN e.wins + 1 ELSE 1
  <2>3. scored = scoring
    BY <2>2, Zenon
  <2>4. Score(e, outcome) =
          [height |-> e.height, blocks |-> e.blocks, votes |-> e.votes,
           conflicts |-> e.conflicts, fork |-> e.fork, broadcast |-> e.broadcast,
           rounds |-> e.rounds, roundsFork |-> e.roundsFork, wins |-> wins,
           confirms |-> k, winner |-> winner]
    BY <2>1 DEF Score, IsElection
  <2> HIDE DEF wins, k, winner, scored
  <2>5. /\ scoring.height = e.height /\ scoring.blocks = e.blocks
        /\ scoring.votes = e.votes /\ scoring.conflicts = e.conflicts
        /\ scoring.fork = e.fork /\ scoring.confirms = k /\ scoring.winner = winner
    BY <2>4
  <2>6. HasFields(scoring)
    <3> DEFINE n1 == Score(e, outcome)
               n2 == [n1 EXCEPT !.broadcast = yes]
               n3 == [n2 EXCEPT !.rounds = @ + 1]
    <3>1. scoring = [n3 EXCEPT !.roundsFork = @ + 1]
      BY Zenon
    <3>2. HasFields(n1)
      BY <2>4 DEF HasFields
    <3> HIDE DEF n1, n2, n3, scoring
    <3>3. HasFields(n2)
      BY <3>2, FieldsKept DEF n2
    <3>4. HasFields(n3)
      BY <3>3, FieldsKept DEF n3
    <3>5. QED
      BY <3>1, <3>4, FieldsKept
  <2> HIDE DEF scoring
  <2>7. QED
    BY <2>1, <2>3, <2>5, <2>6 DEF IsElection, HasFields
<1>2. Streak(s, e.confirms, e.winner)
  BY DEF Counted, Steady
<1>3. PICK R : s \in Seq(R)
  BY <1>2 DEF Streak
<1>4. /\ Len(s) \in Nat /\ T \in Nat \ {0} /\ e.confirms \in Nat
      /\ e.confirms <= Len(s) /\ e.confirms < T
  BY <1>2, <1>3, ElectionsAssumption DEF Streak
<1>5. k \in Nat /\ k <= Len(s) + 1
  BY <1>4
<1>6. k > 0 => /\ x.confirm /\ x.block = winner
               /\ \A i \in (Len(s) - k + 2)..Len(s) : s[i].confirm /\ s[i].block = winner
  <2>1. CASE outcome.win /\ outcome.confirm /\ again
    <3>1. k = e.confirms + 1 /\ winner = e.winner /\ winner = outcome.block
      BY <2>1
    <3>2. Len(s) - k + 2 = Len(s) - e.confirms + 1
      BY <1>4, <3>1
    <3> HIDE DEF k, winner
    <3>3. QED
      BY <1>2, <2>1, <3>1, <3>2 DEF Streak
  <2>2. CASE outcome.win /\ outcome.confirm /\ ~again
    <3>1. k = 1 /\ winner = outcome.block
      BY <2>2
    <3>2. \A i \in (Len(s) - k + 2)..Len(s) : FALSE
      BY <1>4, <3>1
    <3> HIDE DEF k, winner
    <3>3. QED
      BY <2>2, <3>1, <3>2
  <2>3. CASE ~outcome.win \/ ~outcome.confirm
    BY <2>3
  <2>4. QED
    BY <2>1, <2>2, <2>3
<1> HIDE DEF scored
<1>7. CASE scored.confirms >= T
  <2> DEFINE verdict == [operation |-> "CONFIRM", block |-> outcome.block]
  <2>1. End(a, S, verdict)
    BY <1>7 DEF CountContested, scored
  <2>2. /\ IInv' /\ Lasting /\ forced' = verdict
        /\ DOMAIN elections' = DOMAIN elections \ {a}
    BY <2>1, Ends
  <2>3. k >= T /\ k > 0
    BY <1>1, <1>4, <1>5, <1>7
  <2>4. k <= T /\ winner = outcome.block
    BY <1>4, <2>3
  <2> HIDE DEF k, winner
  <2>5. k = T
    BY <1>4, <1>5, <2>3, <2>4
  <2>6. /\ Len(s) >= T - 1
        /\ \A i \in Len(s) - T + 2..Len(s) : s[i].confirm /\ s[i].block = outcome.block
    BY <1>4, <1>5, <1>6, <2>3, <2>4, <2>5
  <2>7. Verdict
    BY <2>2, <2>6 DEF Verdict
  <2>8. QED
    BY <2>2, <2>7
<1>8. CASE ~(scored.confirms >= T)
  <2> DEFINE c == Remember(a, outcome)
  <2>1. /\ elections' = [elections EXCEPT ![a] = scored] /\ slots' = S
        /\ counts' = [counts EXCEPT ![a] = c]
    BY <1>8 DEF CountContested, scored
  <2>2. k < T
    BY <1>1, <1>4, <1>5, <1>8
  <2> HIDE DEF k, winner, x
  <2>3. LET longer == Append(s, x)
        IN  Streak(IF Len(longer) > T THEN Tail(longer) ELSE longer, k, winner)
    BY <1>3, <1>5, <1>6, <2>2, RunGrows
  <2>4. Streak(c, k, winner)
    BY <2>3 DEF Remember, x
  <2> HIDE DEF c
  <2>5. Steady(scored, c)
    BY <1>1, <2>4 DEF Steady
  <2>6. QED
    BY <1>1, <2>1, <2>5, GoesOn
<1>9. QED
  BY <1>7, <1>8

\* Elections::ProcessElection.
LEMMA ProcessElectionInv ==
  ASSUME IInv, NEW a \in DOMAIN elections, ProcessElection(a)
  PROVE  IInv' /\ Lasting /\ Verdict
<1>1. PICK e \in PurgeOutdatedVotes(elections[a]) : Count(a, e)
  BY DEF ProcessElection
<1> DEFINE S == TryConcurrency(slots, a, e.fork)
           outcome == Tally(e)
<1>2. Counted(a, e, S)
  BY TakenUp
<1>3. \/ slots' = S /\ Hold(a, e)
      \/ End(a, S, Nothing)
      \/ ~e.fork /\ CountUncontested(a, e, S, outcome)
      \/ e.fork /\ Broadcast(a, e, S)
      \/ e.fork /\ CountContested(a, e, S, outcome)
  BY <1>1 DEF Count
<1> HIDE DEF S, outcome
<1>4. CASE slots' = S /\ Hold(a, e)
  BY <1>2, <1>4, HoldInv
<1>5. CASE End(a, S, Nothing)
  BY <1>2, <1>5, Ends, NoVerdict
<1>6. CASE ~e.fork /\ CountUncontested(a, e, S, outcome)
  BY <1>2, <1>6, UncontestedInv
<1>7. CASE e.fork /\ Broadcast(a, e, S)
  BY <1>2, <1>7, BroadcastInv
<1>8. CASE e.fork /\ CountContested(a, e, S, outcome)
  BY <1>2, <1>8, ContestedInv
<1>9. QED
  BY <1>3, <1>4, <1>5, <1>6, <1>7, <1>8

\* Every step keeps the invariant, the exclusions, and confirms contested
\* blocks only after a run of counts.
LEMMA StepInv ==
  ASSUME IInv, Next
  PROVE  IInv' /\ Lasting /\ Verdict
<1>1. CASE AddSome
  <2>1. PICK b \in Blocks, c \in Blocks : Add(Block[b].account, Block[b].height, {b, c})
    BY <1>1 DEF AddSome
  <2>2. Block[b].account \in Accounts
    BY ElectionsAssumption
  <2>3. IsFiniteSet({b, c}) /\ {b, c} # {} /\ {b, c} \in SUBSET Blocks
    <3>1. IsFiniteSet({b} \cup {c})
      BY FS_Singleton, FS_AddElement
    <3>2. {b} \cup {c} = {b, c}
      OBVIOUS
    <3>3. QED
      BY <3>1, <3>2
  <2>4. QED
    BY <2>1, <2>2, <2>3, AddInv
<1>2. CASE \E v \in Ballots : ProcessConfirm(v)
  BY <1>2, ProcessConfirmInv
<1>3. CASE \E v, w \in Ballots : ProcessConflict(v, w)
  BY <1>3, ProcessConflictInv
<1>4. CASE UpdateWeightInfo \/ Tick
  <2>1. UNCHANGED <<elections, slots, counts>> /\ forced' = Nothing
    BY <1>4 DEF UpdateWeightInfo, Tick
  <2>2. QED
    BY <2>1, NoVerdict DEF IInv, Lasting
<1>5. CASE Process
  BY <1>5, ProcessElectionInv DEF Process
<1>6. QED
  BY <1>1, <1>2, <1>3, <1>4, <1>5 DEF Next

\* Before any election.
LEMMA InitInv == Init => IInv
<1> SUFFICES ASSUME Init PROVE IInv
  OBVIOUS
<1>1. /\ elections = <<>> /\ slots = [actives |-> {}, forks |-> {}]
      /\ counts = [a \in Accounts |-> <<>>]
  BY DEF Init
<1>2. DOMAIN elections = {} /\ elections = [a \in {} |-> elections[a]]
  BY <1>1
<1>3. SlotInv(slots)
  BY <1>1, FS_EmptySet, ElectionsAssumption DEF SlotInv
<1>4. Placed(slots, elections)
  BY <1>1 DEF Placed
<1>5. QED
  BY <1>1, <1>2, <1>3, <1>4 DEF IInv

\* The invariant holds in every reachable state.
LEMMA ElectionsInductive == Spec => []IInv
<1>1. IInv /\ [Next]_vars => IInv'
  <2>1. CASE Next
    BY <2>1, StepInv
  <2>2. CASE UNCHANGED vars
    BY <2>2 DEF IInv, vars
  <2>3. QED
    BY <2>1, <2>2
<1>2. QED
  BY <1>1, InitInv, PTL DEF Spec

-----------------------------------------------------------------------------

(***************************************************************************)
(* For any representatives, blocks and votes: every block that a vote or   *)
(* the proof of a conflict names is in the election and has at least as    *)
(* many references as it is named, however votes are replaced, contradicted *)
(* and forgotten (AddBlock, DelBlock, PurgeOutdatedVotes).  The assertions *)
(* in Tally_, ProcessConfirm and RequestConfirms_ cannot fail.             *)
(***************************************************************************)
THEOREM VotedBlocksStay == Spec => []VotedBlocksKept
<1>1. IInv => VotedBlocksKept
  <2> SUFFICES ASSUME IInv, NEW a \in DOMAIN elections
               PROVE  LET e == elections[a]
                      IN  /\ DOMAIN e.blocks # {}
                          /\ \A h \in Blocks : Naming(e, h) > 0 =>
                               h \in DOMAIN e.blocks /\ e.blocks[h] >= Naming(e, h)
    BY DEF VotedBlocksKept
  <2>1. Sound(a, elections[a])
    BY DEF IInv
  <2>2. DOMAIN elections[a].blocks # {}
    BY <2>1 DEF Sound, Kept
  <2>3. QED
    BY <2>1, <2>2, SoundMeansKept
<1>2. QED
  BY <1>1, ElectionsInductive, PTL

(***************************************************************************)
(* A representative is excluded from an election only with two of its      *)
(* votes that contradict each other, and no honest one ever is, in         *)
(* whatever order its votes arrive (ProcessConfirm, ProcessConflict).      *)
(***************************************************************************)
THEOREM ExclusionsProven == Spec => []ExcludedWithProof
<1>1. IInv => ExcludedWithProof
  <2> SUFFICES ASSUME IInv, NEW a \in DOMAIN elections
               PROVE  LET e == elections[a]
                      IN  /\ {r \in DOMAIN e.votes : e.votes[r].conflict} = DOMAIN e.conflicts
                          /\ \A r \in DOMAIN e.conflicts :
                               /\ CheckConflict(e.votes[r], e.conflicts[r])
                               /\ r \notin Honest
    BY DEF ExcludedWithProof
  <2>1. Sound(a, elections[a])
    BY DEF IInv
  <2>2. \A r \in DOMAIN elections[a].conflicts : r \notin Honest
    BY <2>1, HonestNotExcluded
  <2>3. QED
    BY <2>1, <2>2 DEF Sound, Proven
<1>2. QED
  BY <1>1, ElectionsInductive, PTL

(***************************************************************************)
(* No slot leaks and no limit is exceeded: accounts in actives_ and forks_ *)
(* have an election of that kind, through elections that end, become       *)
(* contested, are evicted or replaced (TryConcurrency_, Erase_).           *)
(***************************************************************************)
THEOREM SlotsStaySound == Spec => []SlotsSound
<1>1. IInv => SlotsSound
  BY DEF IInv, SlotInv, Placed, SlotsSound
<1>2. QED
  BY <1>1, ElectionsInductive, PTL

(***************************************************************************)
(* An exclusion lasts as long as the election: neither a later vote nor    *)
(* the purge of outdated ones lets the representative back in.             *)
(***************************************************************************)
THEOREM ExclusionsLast == Spec => ExclusionLasts
<1>1. IInv /\ [Next]_vars => [Lasting]_vars
  BY StepInv
<1>2. QED
  BY <1>1, ElectionsInductive, PTL DEF Spec, ExclusionLasts, Lasting

(***************************************************************************)
(* A contested block is confirmed only when all the last turns of its      *)
(* election found a slot and confirmed this very block, as many in a row   *)
(* as the threshold asks for (ProcessElection), for any threshold.         *)
(***************************************************************************)
THEOREM VerdictsSteady == Spec => SteadyVerdict
<1>1. IInv /\ [Next]_vars => [Verdict]_vars
  BY StepInv
<1>2. QED
  BY <1>1, ElectionsInductive, PTL DEF Spec, SteadyVerdict, Verdict

-----------------------------------------------------------------------------
(* BlockQueries.                                                           *)

IsQuery(q) ==
  /\ q = [sequence |-> q.sequence, from |-> q.from, ack |-> q.ack, full |-> q.full,
          count |-> q.count]
  /\ q.sequence \in Queries

\* What a thread may be in the middle of.
IsWork(w) == w = [at |-> w.at, query |-> w.query] /\ IsQuery(w.query)

Holds(h, t, s) == h[t].at # "idle" /\ h[t].query.sequence = s

\* Types of the table, of the work of the threads and of the callbacks counted.
Shapes(T, h, f) ==
  /\ T = [s \in DOMAIN T |-> T[s]] /\ DOMAIN T \subseteq Queries
  /\ \A s \in DOMAIN T : IsQuery(T[s]) /\ T[s].sequence = s
  /\ h = [t \in Threads |-> h[t]]
  /\ \A t \in Threads : h[t].at # "idle" => IsWork(h[t])
  /\ f \in [Queries -> Nat]

\* No query is in two places.
OnePlace(T, h, f) ==
  /\ \A s \in Queries : f[s] <= 1
  /\ \A s \in DOMAIN T : f[s] = 0 /\ \A t \in Threads : ~Holds(h, t, s)
  /\ \A t \in Threads, s \in Queries : Holds(h, t, s) =>
       f[s] = 0 /\ \A u \in Threads : Holds(h, u, s) => u = t

QueriesIInv == Shapes(table, held, finished) /\ OnePlace(table, held, finished)

IsIssued(T, h, f, s) ==
  s \in DOMAIN T \/ f[s] > 0 \/ \E t \in Threads : Holds(h, t, s)

-----------------------------------------------------------------------------
(* Counting the places.                                                    *)

\* A query that was issued is in one place, any other in none.
LEMMA PlaceCount ==
  ASSUME NEW T, NEW h, NEW f, Shapes(T, h, f), OnePlace(T, h, f), NEW s \in Queries
  PROVE  Cardinality({t \in Threads : Holds(h, t, s)})
         + (IF s \in DOMAIN T THEN 1 ELSE 0) + f[s]
           = IF IsIssued(T, h, f, s) THEN 1 ELSE 0
<1> DEFINE H == {t \in Threads : Holds(h, t, s)}
<1>1. f[s] \in Nat /\ f[s] <= 1
  BY DEF Shapes, OnePlace
<1>2. CASE H = {}
  <2>1. Cardinality(H) = 0
    BY <1>2, FS_EmptySet
  <2>2. ~ \E t \in Threads : Holds(h, t, s)
    BY <1>2
  <2>3. s \in DOMAIN T => f[s] = 0
    BY DEF OnePlace
  <2> HIDE DEF H
  <2>4. QED
    BY <1>1, <2>1, <2>2, <2>3 DEF IsIssued, H
<1>3. CASE H # {}
  <2>1. PICK t \in Threads : Holds(h, t, s)
    BY <1>3
  <2>2. f[s] = 0 /\ \A u \in Threads : Holds(h, u, s) => u = t
    BY <2>1 DEF OnePlace
  <2>3. H = {t}
    BY <2>1, <2>2
  <2>4. Cardinality(H) = 1
    BY <2>3, FS_Singleton
  <2>5. s \notin DOMAIN T
    BY <2>1 DEF OnePlace
  <2> HIDE DEF H
  <2>6. QED
    BY <2>1, <2>2, <2>4, <2>5 DEF IsIssued, H
<1>4. QED
  BY <1>2, <1>3

-----------------------------------------------------------------------------
(* The ways a query moves.                                                 *)

\* A thread takes a query out of the table, or lets one rest in another
\* stage: the places stay apart and none is lost.
LEMMA TakenOut ==
  ASSUME QueriesIInv, NEW t \in Threads, NEW s \in DOMAIN table, held[t] = Idle,
         TakeOut(s), UNCHANGED finished,
         NEW w, IsWork(w), w.at # "idle", w.query.sequence = s,
         held' = [held EXCEPT ![t] = w]
  PROVE  /\ QueriesIInv'
         /\ \A x \in Queries : IsIssued(table, held, finished, x)
                                 => IsIssued(table', held', finished', x)
<1>1. s \in Queries /\ finished[s] = 0 /\ \A u \in Threads : ~Holds(held, u, s)
  BY DEF QueriesIInv, Shapes, OnePlace
<1>2. /\ held'[t] = w
      /\ \A u \in Threads : u # t => held'[u] = held[u]
  BY DEF QueriesIInv, Shapes
<1>3. held[t].at = "idle"
  BY DEF Idle
<1>4. /\ DOMAIN table' = DOMAIN table \ {s}
      /\ \A x \in DOMAIN table' : table'[x] = table[x]
  BY DEF TakeOut
<1>5. \A u \in Threads, x \in Queries :
        Holds(held', u, x) <=> (u = t /\ x = s) \/ Holds(held, u, x)
  BY <1>1, <1>2, <1>3 DEF Holds
<1>6. Shapes(table', held', finished')
  <2>1. table' = [x \in DOMAIN table' |-> table'[x]] /\ held' = [u \in Threads |-> held'[u]]
    BY DEF TakeOut, QueriesIInv, Shapes
  <2>2. QED
    BY <1>2, <1>4, <2>1 DEF QueriesIInv, Shapes
<1>7. OnePlace(table', held', finished')
  <2>1. OnePlace(table, held, finished) /\ DOMAIN table \subseteq Queries
    BY DEF QueriesIInv, Shapes
  <2>2. ASSUME NEW x \in DOMAIN table', NEW u \in Threads
        PROVE  finished'[x] = 0 /\ ~Holds(held', u, x)
    BY <1>4, <1>5, <2>1 DEF OnePlace
  <2>3. ASSUME NEW u \in Threads, NEW x \in Queries, Holds(held', u, x)
        PROVE  finished'[x] = 0 /\ \A v \in Threads : Holds(held', v, x) => v = u
    <3>1. CASE x = s
      BY <1>1, <1>5, <2>3, <3>1
    <3>2. CASE x # s
      <4>1. Holds(held, u, x)
        BY <1>5, <2>3, <3>2
      <4>2. finished[x] = 0 /\ \A v \in Threads : Holds(held, v, x) => v = u
        BY <2>1, <4>1 DEF OnePlace
      <4>3. QED
        BY <1>5, <3>2, <4>2
    <3>3. QED
      BY <3>1, <3>2
  <2>4. QED
    BY <1>4, <2>1, <2>2, <2>3 DEF OnePlace
<1>8. ASSUME NEW x \in Queries, IsIssued(table, held, finished, x)
      PROVE  IsIssued(table', held', finished', x)
  BY <1>4, <1>5, <1>8 DEF IsIssued
<1>9. QED
  BY <1>6, <1>7, <1>8 DEF QueriesIInv

\* A thread goes on with its query.
LEMMA KeptByThread ==
  ASSUME QueriesIInv, NEW t \in Threads, held[t].at # "idle", UNCHANGED <<table, finished>>,
         NEW w, IsWork(w), w.at # "idle",
         w.query.sequence = held[t].query.sequence,
         held' = [held EXCEPT ![t] = w]
  PROVE  /\ QueriesIInv'
         /\ \A x \in Queries : IsIssued(table, held, finished, x)
                                 => IsIssued(table', held', finished', x)
<1>1. /\ held'[t] = w
      /\ \A u \in Threads : u # t => held'[u] = held[u]
  BY DEF QueriesIInv, Shapes
<1>2. \A u \in Threads, x \in Queries : Holds(held', u, x) <=> Holds(held, u, x)
  BY <1>1 DEF Holds
<1>3. Shapes(table', held', finished')
  <2>1. held' = [u \in Threads |-> held'[u]]
    BY DEF QueriesIInv, Shapes
  <2>2. QED
    BY <1>1, <2>1 DEF QueriesIInv, Shapes
<1>4. OnePlace(table', held', finished')
  BY <1>2 DEF QueriesIInv, Shapes, OnePlace
<1>5. ASSUME NEW x \in Queries, IsIssued(table, held, finished, x)
      PROVE  IsIssued(table', held', finished', x)
  BY <1>2, <1>5 DEF IsIssued
<1>6. QED
  BY <1>3, <1>4, <1>5 DEF QueriesIInv

\* A thread gives its query back to the table.
LEMMA GivenBack ==
  ASSUME QueriesIInv, NEW t \in Threads, Insert(t)
  PROVE  /\ QueriesIInv'
         /\ \A x \in Queries : IsIssued(table, held, finished, x)
                                 => IsIssued(table', held', finished', x)
<1> DEFINE q == held[t].query
           s == q.sequence
<1>1. IsQuery(q) /\ s \in Queries /\ Holds(held, t, s)
  BY DEF Insert, QueriesIInv, Shapes, IsWork, IsQuery, Holds
<1>2. finished[s] = 0 /\ \A u \in Threads : Holds(held, u, s) => u = t
  BY <1>1 DEF QueriesIInv, OnePlace
<1>3. /\ held'[t] = Idle /\ Idle.at = "idle"
      /\ \A u \in Threads : u # t => held'[u] = held[u]
  BY DEF Insert, QueriesIInv, Shapes, Idle
<1>4. /\ DOMAIN table' = DOMAIN table \cup {s} /\ table'[s] = q
      /\ \A x \in DOMAIN table : x # s => table'[x] = table[x]
  BY DEF Insert
<1>5. \A u \in Threads, x \in Queries :
        Holds(held', u, x) <=> u # t /\ Holds(held, u, x)
  BY <1>3 DEF Holds
<1>6. UNCHANGED finished
  BY DEF Insert
<1>7. Shapes(table', held', finished')
  <2>1. table' = [x \in DOMAIN table' |-> table'[x]] /\ held' = [u \in Threads |-> held'[u]]
    BY DEF Insert, QueriesIInv, Shapes
  <2>2. DOMAIN table' \subseteq Queries
    BY <1>1, <1>4 DEF QueriesIInv, Shapes
  <2>3. \A x \in DOMAIN table' : IsQuery(table'[x]) /\ table'[x].sequence = x
    BY <1>1, <1>4 DEF QueriesIInv, Shapes
  <2>4. \A u \in Threads : held'[u].at # "idle" => IsWork(held'[u])
    BY <1>3 DEF QueriesIInv, Shapes
  <2>5. QED
    BY <1>6, <2>1, <2>2, <2>3, <2>4 DEF QueriesIInv, Shapes
<1>8. OnePlace(table', held', finished')
  <2> HIDE DEF s, q
  <2>1. OnePlace(table, held, finished) /\ DOMAIN table \subseteq Queries
    BY DEF QueriesIInv, Shapes
  <2>2. \A x \in Queries : finished'[x] <= 1
    BY <1>6 DEF QueriesIInv, OnePlace
  <2>3. ASSUME NEW x \in DOMAIN table', NEW u \in Threads
        PROVE  finished'[x] = 0 /\ ~Holds(held', u, x)
    <3>1. CASE x = s
      BY <1>1, <1>2, <1>5, <1>6, <3>1
    <3>2. CASE x # s
      BY <1>4, <1>5, <1>6, <2>1, <3>2 DEF OnePlace
    <3>3. QED
      BY <3>1, <3>2
  <2>4. ASSUME NEW u \in Threads, NEW x \in Queries, Holds(held', u, x)
        PROVE  finished'[x] = 0 /\ \A v \in Threads : Holds(held', v, x) => v = u
    BY <1>5, <1>6, <2>4 DEF QueriesIInv, OnePlace
  <2>5. ASSUME NEW x \in DOMAIN table'
        PROVE  finished'[x] = 0
    BY <1>1, <1>2, <1>4, <1>6 DEF QueriesIInv, OnePlace
  <2>6. QED
    BY <2>2, <2>3, <2>4, <2>5 DEF OnePlace
<1>9. ASSUME NEW x \in Queries, IsIssued(table, held, finished, x)
      PROVE  IsIssued(table', held', finished', x)
  <2>1. CASE x = s
    BY <1>4, <2>1 DEF IsIssued
  <2>2. CASE x # s
    BY <1>1, <1>4, <1>5, <1>6, <1>9, <2>2 DEF IsIssued, Holds
  <2>3. QED
    BY <2>1, <2>2
<1>10. QED
  BY <1>7, <1>8, <1>9 DEF QueriesIInv

\* The callback is satisfied: the query is finished.
LEMMA Finished ==
  ASSUME QueriesIInv, NEW t \in Threads, held[t].at # "idle", UNCHANGED table,
         finished' = [finished EXCEPT ![held[t].query.sequence] = @ + 1],
         held' = [held EXCEPT ![t] = Idle]
  PROVE  /\ QueriesIInv'
         /\ \A x \in Queries : IsIssued(table, held, finished, x)
                                 => IsIssued(table', held', finished', x)
<1> DEFINE s == held[t].query.sequence
<1>1. s \in Queries /\ Holds(held, t, s)
  BY DEF QueriesIInv, Shapes, IsWork, IsQuery, Holds
<1>2. /\ finished[s] = 0 /\ s \notin DOMAIN table
      /\ \A u \in Threads : Holds(held, u, s) => u = t
  BY <1>1 DEF QueriesIInv, OnePlace
<1>3. /\ held'[t] = Idle /\ Idle.at = "idle"
      /\ \A u \in Threads : u # t => held'[u] = held[u]
  BY DEF QueriesIInv, Shapes, Idle
<1>4. /\ finished' \in [Queries -> Nat] /\ finished'[s] = 1
      /\ \A x \in Queries : x # s => finished'[x] = finished[x]
  BY <1>1, <1>2 DEF QueriesIInv, Shapes
<1>5. \A u \in Threads, x \in Queries :
        Holds(held', u, x) <=> u # t /\ Holds(held, u, x)
  BY <1>3 DEF Holds
<1>6. Shapes(table', held', finished')
  <2>1. held' = [u \in Threads |-> held'[u]]
    BY DEF QueriesIInv, Shapes
  <2>2. QED
    BY <1>3, <1>4, <2>1 DEF QueriesIInv, Shapes
<1> HIDE DEF s
<1>7. OnePlace(table', held', finished')
  <2>1. OnePlace(table, held, finished) /\ DOMAIN table \subseteq Queries
    BY DEF QueriesIInv, Shapes
  <2>2. \A x \in Queries : finished'[x] <= 1
    BY <1>4, <2>1 DEF OnePlace
  <2>3. ASSUME NEW x \in DOMAIN table'
        PROVE  finished'[x] = 0 /\ \A u \in Threads : ~Holds(held', u, x)
    BY <1>2, <1>4, <1>5, <2>1 DEF OnePlace
  <2>4. ASSUME NEW u \in Threads, NEW x \in Queries, Holds(held', u, x)
        PROVE  finished'[x] = 0 /\ \A v \in Threads : Holds(held', v, x) => v = u
    <3>1. u # t /\ Holds(held, u, x)
      BY <1>5, <2>4
    <3>2. x # s
      BY <1>2, <3>1
    <3>3. QED
      BY <1>4, <1>5, <2>1, <3>1, <3>2 DEF OnePlace
  <2>5. QED
    BY <2>2, <2>3, <2>4 DEF OnePlace
<1>8. ASSUME NEW x \in Queries, IsIssued(table, held, finished, x)
      PROVE  IsIssued(table', held', finished', x)
  <2>1. CASE x = s
    BY <1>4, <2>1 DEF IsIssued
  <2>2. CASE x # s
    BY <1>4, <1>5, <1>8, <2>2 DEF IsIssued, Holds, s
  <2>3. QED
    BY <2>1, <2>2
<1>9. QED
  BY <1>6, <1>7, <1>8 DEF QueriesIInv

-----------------------------------------------------------------------------
(* Every step.                                                             *)

\* Nothing is in two places at the start.
LEMMA InitPlaces == QueriesInit => QueriesIInv
<1> SUFFICES ASSUME QueriesInit
             PROVE  QueriesIInv
  OBVIOUS
<1>1. /\ DOMAIN table = {} /\ table = [s \in DOMAIN table |-> table[s]]
      /\ \A t \in Threads : held[t].at = "idle"
  BY DEF QueriesInit, Idle
<1>2. QED
  BY <1>1 DEF QueriesInit, QueriesIInv, Shapes, OnePlace, Holds

\* A new query has a number that is nowhere in use.
LEMMA QueryByHashPlaces ==
  ASSUME QueriesIInv, NEW s \in Queries, QueryByHash(s)
  PROVE  /\ QueriesIInv'
         /\ \A x \in Queries : IsIssued(table, held, finished, x)
                                 => IsIssued(table', held', finished', x)
<1>1. ~IsIssued(table, held, finished, s)
  BY DEF QueryByHash, Issued, IsIssued, Holds
<1>2. /\ DOMAIN table' = DOMAIN table \cup {s} /\ table'[s] = NewQuery(s)
      /\ \A x \in DOMAIN table : x # s => table'[x] = table[x]
      /\ table' = [x \in DOMAIN table' |-> table'[x]]
      /\ UNCHANGED <<held, finished>>
  BY DEF QueryByHash
<1>3. IsQuery(NewQuery(s)) /\ NewQuery(s).sequence = s
  BY DEF IsQuery, NewQuery
<1>4. Shapes(table', held', finished')
  BY <1>2, <1>3 DEF QueriesIInv, Shapes
<1>5. OnePlace(table', held', finished')
  <2>1. OnePlace(table, held, finished) /\ DOMAIN table \subseteq Queries
        /\ finished \in [Queries -> Nat]
    BY DEF QueriesIInv, Shapes
  <2>2. finished[s] = 0 /\ \A t \in Threads : ~Holds(held, t, s)
    BY <1>1, <2>1 DEF IsIssued
  <2>3. \A x \in DOMAIN table' :
          finished'[x] = 0 /\ \A t \in Threads : ~Holds(held', t, x)
    BY <1>2, <2>1, <2>2 DEF OnePlace
  <2>4. QED
    BY <1>2, <2>1, <2>3 DEF OnePlace
<1>6. \A x \in Queries : IsIssued(table, held, finished, x)
                           => IsIssued(table', held', finished', x)
  BY <1>2 DEF IsIssued
<1>7. QED
  BY <1>4, <1>5, <1>6 DEF QueriesIInv

\* Every step keeps the places apart and loses no query.
LEMMA StepPlaces ==
  ASSUME QueriesIInv, [QueriesNext]_queriesVars
  PROVE  /\ QueriesIInv'
         /\ \A x \in Queries : IsIssued(table, held, finished, x)
                                 => IsIssued(table', held', finished', x)
<1> DEFINE Goal == /\ QueriesIInv'
                   /\ \A x \in Queries : IsIssued(table, held, finished, x)
                                           => IsIssued(table', held', finished', x)
<1>1. ASSUME NEW s \in Queries, QueryByHash(s)
      PROVE  Goal
  BY <1>1, QueryByHashPlaces
<1>2. ASSUME NEW s \in Queries, Run(s)
      PROVE  Goal
  <2> DEFINE w == [at |-> "timeout", query |-> table[s]]
  <2>1. s \in DOMAIN table /\ Runner \in Threads
    BY <1>2 DEF Run, Threads
  <2>2. IsQuery(table[s]) /\ table[s].sequence = s
    BY <2>1 DEF QueriesIInv, Shapes
  <2>3. IsWork(w) /\ w.at # "idle" /\ w.query.sequence = s
    BY <2>2 DEF IsWork
  <2>4. /\ held[Runner] = Idle /\ TakeOut(s) /\ UNCHANGED finished
        /\ held' = [held EXCEPT ![Runner] = w]
    BY <1>2 DEF Run, Working
  <2> HIDE DEF w
  <2>5. QED
    BY <2>1, <2>3, <2>4, TakenOut
<1>3. ASSUME NEW t \in Network, NEW m \in acks, ProcessQueryAck(t, m)
      PROVE  Goal
  <2> DEFINE s == m.sequence
             q == table[s]
             w == [at |-> "answered",
                   query |-> [q EXCEPT !.ack = m.status,
                                       !.full = @ \/ m.status = "PRUNED"]]
  <2>1. s \in DOMAIN table /\ t \in Threads
    BY <1>3 DEF ProcessQueryAck, Threads
  <2>2. IsQuery(q) /\ q.sequence = s
    BY <2>1 DEF QueriesIInv, Shapes
  <2>3. IsWork(w) /\ w.at # "idle" /\ w.query.sequence = s
    BY <2>2 DEF IsWork, IsQuery
  <2>4. /\ held[t] = Idle /\ TakeOut(s) /\ UNCHANGED finished
        /\ held' = [held EXCEPT ![t] = w]
    BY <1>3 DEF ProcessQueryAck, Working
  <2> HIDE DEF w, s, q
  <2>5. QED
    BY <2>1, <2>3, <2>4, TakenOut
<1>4. ASSUME ProcessQuery
      PROVE  Goal
  <2> DEFINE q == held[Runner].query
             w == [at |-> "send",
                   query |-> [q EXCEPT !.full = @ \/ q.ack = "PRUNED",
                                       !.ack = IF q.count = 0 THEN @ ELSE "PENDING"]]
  <2>1. Runner \in Threads /\ held[Runner].at # "idle"
    BY <1>4 DEF ProcessQuery, Threads
  <2>2. IsQuery(q)
    BY <2>1 DEF QueriesIInv, Shapes, IsWork
  <2>3. IsWork(w) /\ w.at # "idle" /\ w.query.sequence = q.sequence
    BY <2>2 DEF IsWork, IsQuery
  <2>4. UNCHANGED <<table, finished>> /\ held' = [held EXCEPT ![Runner] = w]
    BY <1>4 DEF ProcessQuery, Working
  <2> HIDE DEF w
  <2>5. QED
    BY <2>1, <2>3, <2>4, KeptByThread
<1>5. ASSUME NEW t \in Threads, Callback(t)
      PROVE  Goal
  <2> DEFINE q == held[t].query
             w == [at |-> "send", query |-> [q EXCEPT !.ack = "PENDING"]]
  <2>1. held[t].at # "idle" /\ UNCHANGED table
    BY <1>5 DEF Callback
  <2>2. IsQuery(q)
    BY <2>1 DEF QueriesIInv, Shapes, IsWork
  <2>3. CASE q.ack = "SUCCESS"
    <3>1. /\ finished' = [finished EXCEPT ![q.sequence] = @ + 1]
          /\ held' = [held EXCEPT ![t] = Idle]
      BY <1>5, <2>3 DEF Callback
    <3>2. QED
      BY <2>1, <3>1, Finished
  <2>4. CASE q.ack # "SUCCESS"
    <3>1. IsWork(w) /\ w.at # "idle" /\ w.query.sequence = q.sequence
      BY <2>2 DEF IsWork, IsQuery
    <3>2. UNCHANGED <<table, finished>> /\ held' = [held EXCEPT ![t] = w]
      BY <1>5, <2>4 DEF Callback, Working
    <3> HIDE DEF w
    <3>3. QED
      BY <2>1, <3>1, <3>2, KeptByThread
  <2>5. QED
    BY <2>3, <2>4
<1>6. ASSUME NEW t \in Threads, NEW p \in Peers, SendQuery(t, p)
      PROVE  Goal
  <2> DEFINE q == held[t].query
             count == IF q.count < MaxCount THEN q.count + 1 ELSE q.count
             w == [at |-> "insert",
                   query |-> [q EXCEPT !.from = p, !.ack = "PENDING", !.count = count]]
  <2>1. held[t].at # "idle"
    BY <1>6 DEF SendQuery
  <2>2. IsQuery(q)
    BY <2>1 DEF QueriesIInv, Shapes, IsWork
  <2>3. UNCHANGED <<table, finished>> /\ held' = [held EXCEPT ![t] = w]
    BY <1>6 DEF SendQuery, Working
  <2> HIDE DEF count
  <2>4. IsWork(w) /\ w.at # "idle" /\ w.query.sequence = q.sequence
    BY <2>2 DEF IsWork, IsQuery
  <2> HIDE DEF w
  <2>5. QED
    BY <2>1, <2>3, <2>4, KeptByThread
<1>7. ASSUME NEW t \in Threads, NoPeer(t)
      PROVE  Goal
  <2> DEFINE w == [at |-> "insert", query |-> held[t].query]
  <2>1. held[t].at # "idle"
    BY <1>7 DEF NoPeer
  <2>2. IsWork(w) /\ w.at # "idle" /\ w.query.sequence = held[t].query.sequence
    BY <2>1 DEF QueriesIInv, Shapes, IsWork
  <2>3. UNCHANGED <<table, finished>> /\ held' = [held EXCEPT ![t] = w]
    BY <1>7 DEF NoPeer, Working
  <2> HIDE DEF w
  <2>4. QED
    BY <2>1, <2>2, <2>3, KeptByThread
<1>8. ASSUME NEW t \in Threads, Insert(t)
      PROVE  Goal
  BY <1>8, GivenBack
<1>9. ASSUME UNCHANGED <<table, held, finished>>
      PROVE  Goal
  BY <1>9 DEF QueriesIInv, Shapes, OnePlace, IsIssued
<1>10. ASSUME NEW p \in Peers, Connect(p)
       PROVE  Goal
  BY <1>9, <1>10 DEF Connect
<1>11. UNCHANGED queriesVars => Goal
  BY <1>9 DEF queriesVars
<1> HIDE DEF Goal
<1>12. QueriesNext => Goal
  BY <1>1, <1>2, <1>3, <1>4, <1>5, <1>6, <1>7, <1>8, <1>10 DEF QueriesNext, Work
<1>13. QED
  BY <1>11, <1>12 DEF Goal

\* A query is in one place at a time, in every behaviour.
LEMMA PlacesApart == QueriesSpec => []QueriesIInv
<1>1. QueriesInit => QueriesIInv
  BY InitPlaces
<1>2. QueriesIInv /\ [QueriesNext]_queriesVars => QueriesIInv'
  BY StepPlaces
<1>3. QED
  BY <1>1, <1>2, PTL DEF QueriesSpec

(***************************************************************************)
(* A query that was issued is in exactly one place from then on: the       *)
(* table, the hands of one thread (Run, ProcessQueryAck), or finished.     *)
(***************************************************************************)
THEOREM QueriesNeverLost == QueriesSpec => NeverLost
<1>1. ASSUME QueriesIInv, [QueriesNext]_queriesVars
      PROVE  \A s \in Queries : Places(s) = 1 => Places(s)' = 1
  <2>1. SUFFICES ASSUME NEW s \in Queries, Places(s) = 1
                 PROVE  Places(s)' = 1
    OBVIOUS
  <2>2. Places(s) = IF IsIssued(table, held, finished, s) THEN 1 ELSE 0
    BY <1>1, PlaceCount DEF QueriesIInv, Places, Holds
  <2>3. QueriesIInv' /\ (IsIssued(table, held, finished, s)
                    => IsIssued(table', held', finished', s))
    BY <1>1, StepPlaces
  <2>4. Places(s)' = IF IsIssued(table', held', finished', s) THEN 1 ELSE 0
    BY <2>3, PlaceCount DEF QueriesIInv, Places, Holds
  <2>5. QED
    BY <2>1, <2>2, <2>3, <2>4
<1>2. QueriesIInv /\ [QueriesNext]_queriesVars
        => [\A s \in Queries : Places(s) = 1 => Places(s)' = 1]_queriesVars
  BY <1>1
<1>3. QED
  BY <1>2, PlacesApart, PTL DEF QueriesSpec, NeverLost

(***************************************************************************)
(* The callback of a query is satisfied at most once, however often and    *)
(* late answers arrive (ProcessQueryAck).                                  *)
(***************************************************************************)
THEOREM AnsweredAtMostOnce == QueriesSpec => [](\A s \in Queries : finished[s] <= 1)
<1>1. QueriesIInv => \A s \in Queries : finished[s] <= 1
  BY DEF QueriesIInv, OnePlace
<1>2. QED
  BY <1>1, PlacesApart, PTL

-----------------------------------------------------------------------------
(* SwapHelper.                                                             *)

Statuses == {"NONE", "INQUIRY_ACK", "TAKE", "TAKE_ACK", "TAKE_NACK"}
Answered == {s \in Swaps : status[s] # "NONE"}

Settled(s) == status[s] \in {"TAKE_ACK", "TAKE_NACK"}

\* The types of the ledger's side; an answered inquiry has a deal with another
\* account, and no confirmed height is above the head.
LifeType ==
  /\ status \in [Swaps -> Statuses]
  /\ DOMAIN deal = Swaps
  /\ \A s \in Answered : /\ deal[s] \in Parties \X Nat
                         /\ Maker(s) # s[1]
  /\ head \in [Parties -> Int]
  /\ confirmed \in [Parties -> Int]
  /\ \A a \in Parties : confirmed[a] <= head[a]

\* A take is open only while the maker has no block at the height of the
\* trade, confirmed or not: the block that comes there ends it, and a take
\* that comes after such a block never opens.
OpenTakes ==
  \A s \in Swaps : status[s] = "TAKE" => head[Maker(s)] < TradeHeight(s)

LifeInv == LifeType /\ OpenTakes

\* What the helper holds are swaps with a deal, and the record it read is not
\* ahead of the ledger.
HelperInv ==
  /\ nacks \cup entries \cup purges \cup published \subseteq Answered
  /\ reading # NoDeal =>
       /\ reading.swap \in entries
       /\ reading.confirmed \in Int
       /\ reading.confirmed <= confirmed[Maker(reading.swap)]

HelperIInv == LifeInv /\ HelperInv /\ NacksKept

\* What a step of the application may change: deals of answered inquiries are
\* for good, so is the confirmed part of a chain, no swap becomes unanswered
\* again, and a take that was traded or refunded stays so.
LifeStep ==
  /\ \A s \in Answered : deal'[s] = deal[s] /\ s \in Answered'
  /\ \A a \in Parties : confirmed[a] <= confirmed'[a]
  /\ \A s \in Swaps : Settled(s) => status'[s] = status[s]

-----------------------------------------------------------------------------

\* Settle ends the takes in S and gives other swaps a status only where it is
\* told to.
LEMMA SettleStatus ==
  ASSUME status \in [Swaps -> Statuses], NEW S, NEW traded, NEW becomes,
         Settle(S, traded, becomes),
         \A x \in DOMAIN becomes : becomes[x] \in Statuses \ {"NONE"}
  PROVE  /\ status' \in [Swaps -> Statuses]
         /\ \A s \in Swaps : status[s] # "NONE" => status'[s] # "NONE"
         /\ \A s \in S \cap Swaps : status'[s] \in {"TAKE_ACK", "TAKE_NACK"}
         /\ \A s \in Swaps \ S : s \notin DOMAIN becomes => status'[s] = status[s]
         /\ \A s \in Swaps \ S : s \in DOMAIN becomes => status'[s] = becomes[s]
BY DEF Settle, Statuses

\* A block that only settles.
LEMMA PlainStatus ==
  ASSUME status \in [Swaps -> Statuses], NEW S, NEW traded, Settle(S, traded, <<>>)
  PROVE  /\ status' \in [Swaps -> Statuses]
         /\ \A s \in Swaps : status[s] # "NONE" => status'[s] # "NONE"
         /\ \A s \in S \cap Swaps : status'[s] \in {"TAKE_ACK", "TAKE_NACK"}
         /\ \A s \in Swaps \ S : status'[s] = status[s]
<1>1. DOMAIN <<>> = {}
  OBVIOUS
<1>2. QED
  BY <1>1, SettleStatus

\* A swap that does not exist yet satisfies the invariant of its life.
LEMMA InitLife == LifeInit => LifeInv
BY SwapHelperAssumption
DEF LifeInit, LifeInv, LifeType, OpenTakes, Answered, Statuses

\* A block is added that settles the takes at its height and perhaps answers
\* inquiry s or takes it.
LEMMA AppendLife ==
  ASSUME LifeInv, NEW a \in Parties, AppendConfirmed(a)
  PROVE  LifeInv' /\ LifeStep
<1> DEFINE ending == TakesAt(a, head[a] + 1)
<1>1. /\ head' = [head EXCEPT ![a] = @ + 1]
      /\ confirmed' = [confirmed EXCEPT ![a] = head[a] + 1]
  BY DEF AppendConfirmed
<1>2. /\ head' \in [Parties -> Int] /\ confirmed' \in [Parties -> Int]
      /\ \A b \in Parties : confirmed'[b] <= head'[b] /\ confirmed[b] <= confirmed'[b]
      /\ head'[a] = head[a] + 1
      /\ \A b \in Parties : b # a => head'[b] = head[b]
  BY <1>1 DEF LifeInv, LifeType
<1>3. \A s \in Swaps \ ending : status[s] = "TAKE" => head'[Maker(s)] < TradeHeight(s)
  <2> SUFFICES ASSUME NEW s \in Swaps \ ending, status[s] = "TAKE"
               PROVE  head'[Maker(s)] < TradeHeight(s)
    OBVIOUS
  <2>1. /\ deal[s] \in Parties \X Nat
        /\ head[Maker(s)] < TradeHeight(s)
    BY DEF LifeInv, LifeType, OpenTakes, Answered
  <2>2. deal[s] # <<a, head[a] + 1>>
    BY DEF TakesAt, DealsAt
  <2>3. Maker(s) = a => TradeHeight(s) # head[a] + 1
    BY <2>1, <2>2 DEF Maker, TradeHeight
  <2>4. Maker(s) \in Parties /\ TradeHeight(s) \in Nat /\ head \in [Parties -> Int]
    BY <2>1 DEF Maker, TradeHeight, LifeInv, LifeType
  <2>5. QED
    BY <1>2, <2>1, <2>3, <2>4
<1>4. CASE Plain(ending)
  <2>1. PICK traded : Settle(ending, traded, <<>>) /\ deal' = deal
    BY <1>4 DEF Plain
  <2>2. /\ status' \in [Swaps -> Statuses]
        /\ \A s \in Swaps : status[s] # "NONE" => status'[s] # "NONE"
        /\ \A s \in ending : status'[s] \in {"TAKE_ACK", "TAKE_NACK"}
        /\ \A s \in Swaps \ ending : status'[s] = status[s]
    <3>1. ending \subseteq Swaps
      BY DEF TakesAt, DealsAt
    <3>2. QED
      BY <2>1, <3>1, PlainStatus DEF LifeInv, LifeType
  <2>3. \A s \in Swaps : status[s] = "NONE" => status'[s] = "NONE"
    BY <2>2 DEF TakesAt
  <2>4. LifeType'
    BY <1>2, <2>1, <2>2, <2>3 DEF LifeInv, LifeType, Answered, Maker
  <2>5. OpenTakes'
    BY <1>3, <2>1, <2>2 DEF OpenTakes, Maker, TradeHeight
  <2>6. QED
    BY <1>2, <2>1, <2>2, <2>4, <2>5 DEF LifeInv, LifeStep, Answered, Settled, TakesAt
<1>5. ASSUME NEW s \in Swaps, NEW maker \in Parties, s[1] \notin {a, maker},
             NEW t \in 1 .. confirmed[maker] + 1, Answer(ending, s, maker, t)
      PROVE  LifeInv' /\ LifeStep
  <2> DEFINE becomes == [x \in {s} |-> "INQUIRY_ACK"]
  <2>1. /\ status[s] = "NONE" /\ Settle(ending, {}, becomes)
        /\ deal' = [deal EXCEPT ![s] = <<maker, t>>]
    BY <1>5 DEF Answer
  <2>2. /\ status' \in [Swaps -> Statuses]
        /\ \A x \in Swaps : status[x] # "NONE" => status'[x] # "NONE"
        /\ \A x \in ending : status'[x] \in {"TAKE_ACK", "TAKE_NACK"}
        /\ \A x \in Swaps \ ending : x # s => status'[x] = status[x]
        /\ s \notin ending /\ status'[s] = "INQUIRY_ACK"
    <3>1. ending \subseteq Swaps /\ s \notin ending
      BY <2>1 DEF TakesAt, DealsAt
    <3>2. DOMAIN becomes = {s} /\ becomes[s] = "INQUIRY_ACK"
      OBVIOUS
    <3>3. \A x \in DOMAIN becomes : becomes[x] \in Statuses \ {"NONE"}
      BY <3>2 DEF Statuses
    <3> HIDE DEF becomes
    <3>4. QED
      BY <2>1, <3>1, <3>2, <3>3, SettleStatus DEF LifeInv, LifeType
  <2>3. \A x \in Swaps : x # s => (status[x] = "NONE" => status'[x] = "NONE")
    BY <2>2 DEF TakesAt
  <2>4. /\ DOMAIN deal' = Swaps
        /\ deal'[s] = <<maker, t>>
        /\ \A x \in Swaps : x # s => deal'[x] = deal[x]
    BY <2>1 DEF LifeInv, LifeType
  <2>5. t \in Nat
    <3>1. confirmed[maker] + 1 \in Int
      BY DEF LifeInv, LifeType
    <3>2. QED
      BY <3>1
  <2>6. LifeType'
    <3>1. ASSUME NEW x \in Answered'
          PROVE  deal'[x] \in Parties \X Nat /\ deal'[x][1] # x[1]
      <4>1. CASE x = s
        <5>1. s[1] # maker
          BY <1>5
        <5>2. <<maker, t>> \in Parties \X Nat /\ <<maker, t>>[1] = maker
          BY <2>5
        <5>3. QED
          BY <2>4, <4>1, <5>1, <5>2
      <4>2. CASE x # s
        BY <2>3, <2>4, <4>2 DEF LifeInv, LifeType, Answered, Maker
      <4>3. QED
        BY <4>1, <4>2
    <3>2. QED
      BY <1>2, <2>2, <2>4, <3>1 DEF LifeInv, LifeType, Maker
  <2>7. OpenTakes'
    BY <1>3, <2>2, <2>4 DEF OpenTakes, Maker, TradeHeight
  <2>8. QED
    BY <1>2, <2>1, <2>2, <2>4, <2>6, <2>7 DEF LifeInv, LifeStep, Answered, Settled, TakesAt
<1>6. ASSUME NEW s \in Swaps, s[1] = a, Take(ending, s)
      PROVE  LifeInv' /\ LifeStep
  <2> DEFINE late == head[Maker(s)] >= TradeHeight(s)
             becomes == [x \in {s} |-> IF late THEN "TAKE_NACK" ELSE "TAKE"]
  <2>1. /\ status[s] = "INQUIRY_ACK" /\ Settle(ending, {}, becomes)
        /\ deal' = deal
    BY <1>6 DEF Take, Maker, TradeHeight
  <2>2. /\ status' \in [Swaps -> Statuses]
        /\ \A x \in Swaps : status[x] # "NONE" => status'[x] # "NONE"
        /\ \A x \in ending : status'[x] \in {"TAKE_ACK", "TAKE_NACK"}
        /\ \A x \in Swaps \ ending : x # s => status'[x] = status[x]
        /\ s \notin ending /\ (status'[s] = "TAKE" => ~late)
    <3>1. ending \subseteq Swaps /\ s \notin ending
      BY <2>1 DEF TakesAt, DealsAt
    <3>2. /\ DOMAIN becomes = {s} /\ becomes[s] \in {"TAKE", "TAKE_NACK"}
          /\ becomes[s] = "TAKE" => ~late
      OBVIOUS
    <3>3. \A x \in DOMAIN becomes : becomes[x] \in Statuses \ {"NONE"}
      BY <3>2 DEF Statuses
    <3> HIDE DEF becomes, late
    <3>4. QED
      BY <2>1, <3>1, <3>2, <3>3, SettleStatus DEF LifeInv, LifeType
  <2>3. \A x \in Swaps : status[x] = "NONE" => status'[x] = "NONE"
    BY <2>1, <2>2 DEF TakesAt
  <2>4. LifeType'
    BY <1>2, <2>1, <2>2, <2>3 DEF LifeInv, LifeType, Answered, Maker
  <2>5. status'[s] = "TAKE" => head'[Maker(s)] < TradeHeight(s)
    <3>1. deal[s] \in Parties \X Nat /\ Maker(s) # a /\ head \in [Parties -> Int]
      BY <1>6, <2>1 DEF LifeInv, LifeType, Answered
    <3>2. Maker(s) \in Parties /\ TradeHeight(s) \in Nat
      BY <3>1 DEF Maker, TradeHeight
    <3>3. QED
      BY <1>2, <2>2, <3>1, <3>2
  <2>6. OpenTakes'
    BY <1>3, <2>1, <2>2, <2>5 DEF OpenTakes, Maker, TradeHeight
  <2>7. QED
    BY <1>2, <2>1, <2>2, <2>4, <2>6 DEF LifeInv, LifeStep, Answered, Settled, TakesAt
<1>7. QED
  BY <1>4, <1>5, <1>6 DEF AppendConfirmed

\* The application's steps keep LifeInv, and confirmed heights and deals.
LEMMA LifeKept ==
  ASSUME LifeInv, LifeNext
  PROVE  LifeInv' /\ LifeStep
<1>1. PICK a \in Parties : \/ AppendConfirmed(a) \/ Unconfirmed(a) \/ Rollback(a)
                            \/ \E h \in 0 .. MaxHeight[a] : Confirm(a, h)
  BY DEF LifeNext
<1>2. CASE AppendConfirmed(a)
  BY <1>2, AppendLife
<1>3. CASE Unconfirmed(a)
  <2>1. /\ head' = [head EXCEPT ![a] = @ + 1] /\ TakesAt(a, head[a] + 1) = {}
        /\ UNCHANGED <<status, deal, confirmed>>
    BY <1>3 DEF Unconfirmed
  <2>2. LifeType'
    BY <2>1 DEF LifeInv, LifeType, Answered, Maker
  <2>3. OpenTakes'
    <3> SUFFICES ASSUME NEW s \in Swaps, status[s] = "TAKE"
                 PROVE  head'[Maker(s)] < TradeHeight(s)
      BY <2>1 DEF OpenTakes, Maker, TradeHeight
    <3>1. /\ deal[s] \in Parties \X Nat /\ head \in [Parties -> Int]
          /\ head[Maker(s)] < TradeHeight(s)
      BY DEF LifeInv, LifeType, OpenTakes, Answered
    <3>2. deal[s] # <<a, head[a] + 1>>
      BY <2>1 DEF TakesAt, DealsAt
    <3>3. Maker(s) = a => TradeHeight(s) # head[a] + 1
      BY <3>1, <3>2 DEF Maker, TradeHeight
    <3>4. Maker(s) \in Parties /\ TradeHeight(s) \in Nat
      BY <3>1 DEF Maker, TradeHeight
    <3>5. QED
      BY <2>1, <3>1, <3>3, <3>4
  <2>4. QED
    BY <2>1, <2>2, <2>3 DEF LifeInv, LifeType, LifeStep, Answered, Settled, TakesAt
<1>4. CASE Rollback(a)
  <2>1. /\ head' = [head EXCEPT ![a] = @ - 1] /\ head[a] > confirmed[a]
        /\ UNCHANGED <<status, deal, confirmed>>
    BY <1>4 DEF Rollback
  <2>2. LifeType'
    BY <2>1 DEF LifeInv, LifeType, Answered, Maker
  <2>3. OpenTakes'
    <3> SUFFICES ASSUME NEW s \in Swaps, status[s] = "TAKE"
                 PROVE  head'[Maker(s)] < TradeHeight(s)
      BY <2>1 DEF OpenTakes, Maker, TradeHeight
    <3>1. /\ deal[s] \in Parties \X Nat /\ head \in [Parties -> Int]
          /\ head[Maker(s)] < TradeHeight(s)
      BY DEF LifeInv, LifeType, OpenTakes, Answered
    <3>2. Maker(s) \in Parties /\ TradeHeight(s) \in Nat
      BY <3>1 DEF Maker, TradeHeight
    <3>3. QED
      BY <2>1, <3>1, <3>2
  <2>4. QED
    BY <2>1, <2>2, <2>3 DEF LifeInv, LifeType, LifeStep, Answered, Settled, TakesAt
<1>5. ASSUME NEW h \in 0 .. MaxHeight[a], Confirm(a, h)
      PROVE  LifeInv' /\ LifeStep
  <2>1. /\ confirmed[a] < h /\ h <= head[a]
        /\ confirmed' = [confirmed EXCEPT ![a] = h]
        /\ UNCHANGED <<status, deal, head>>
    BY <1>5 DEF Confirm
  <2>2. h \in Int
    BY SwapHelperAssumption
  <2>3. LifeType'
    BY <2>1, <2>2 DEF LifeInv, LifeType, Answered, Maker
  <2>4. OpenTakes'
    BY <2>1 DEF LifeInv, OpenTakes, Maker, TradeHeight
  <2>5. QED
    BY <2>1, <2>2, <2>3, <2>4 DEF LifeInv, LifeType, LifeStep, Answered, Settled, TakesAt
<1>6. QED
  BY <1>1, <1>2, <1>3, <1>4, <1>5

\* The confirmed take-nack block settles the takes at its height.
LEMMA TakeNackConfirmedLife ==
  ASSUME LifeInv, NEW s \in Answered, TakeNackConfirmed(s)
  PROVE  LifeInv' /\ LifeStep
<1> DEFINE a == Maker(s)
           ending == TakesAt(a, TradeHeight(s))
<1>1. /\ head[a] = TradeHeight(s) - 1
      /\ head' = [head EXCEPT ![a] = @ + 1]
      /\ confirmed' = [confirmed EXCEPT ![a] = TradeHeight(s)]
      /\ Settle(ending, {}, <<>>)
      /\ deal' = deal
  BY DEF TakeNackConfirmed
<1>2. a \in Parties /\ TradeHeight(s) \in Nat
  <2>1. deal[s] \in Parties \X Nat
    BY DEF LifeInv, LifeType
  <2>2. QED
    BY <2>1 DEF Maker, TradeHeight
<1>3. TradeHeight(s) = head[a] + 1
  BY <1>1, <1>2 DEF LifeInv, LifeType
<1>4. /\ status' \in [Swaps -> Statuses]
      /\ \A x \in Swaps : status[x] # "NONE" => status'[x] # "NONE"
      /\ \A x \in ending : status'[x] \in {"TAKE_ACK", "TAKE_NACK"}
      /\ \A x \in Swaps \ ending : status'[x] = status[x]
  <2>1. ending \subseteq Swaps
    BY DEF TakesAt, DealsAt
  <2>2. QED
    BY <1>1, <2>1, PlainStatus DEF LifeInv, LifeType
<1>5. \A x \in Swaps : status[x] = "NONE" => status'[x] = "NONE"
  BY <1>4 DEF TakesAt
<1> HIDE DEF a
<1>6. /\ head' \in [Parties -> Int] /\ confirmed' \in [Parties -> Int]
      /\ \A b \in Parties : confirmed'[b] <= head'[b] /\ confirmed[b] <= confirmed'[b]
      /\ head'[a] = head[a] + 1
      /\ \A b \in Parties : b # a => head'[b] = head[b]
  BY <1>1, <1>2, <1>3 DEF LifeInv, LifeType
<1>7. LifeType'
  BY <1>1, <1>4, <1>5, <1>6 DEF LifeInv, LifeType, Answered, Maker
<1>8. \A x \in Swaps \ ending : status[x] = "TAKE" => head'[Maker(x)] < TradeHeight(x)
  <2> SUFFICES ASSUME NEW x \in Swaps \ ending, status[x] = "TAKE"
               PROVE  head'[Maker(x)] < TradeHeight(x)
    OBVIOUS
  <2>1. /\ deal[x] \in Parties \X Nat
        /\ head[Maker(x)] < TradeHeight(x)
    BY DEF LifeInv, LifeType, OpenTakes, Answered
  <2>2. deal[x] # <<a, head[a] + 1>>
    BY <1>3 DEF TakesAt, DealsAt
  <2>3. Maker(x) = a => TradeHeight(x) # head[a] + 1
    BY <2>1, <2>2 DEF Maker, TradeHeight
  <2>4. Maker(x) \in Parties /\ TradeHeight(x) \in Nat /\ head \in [Parties -> Int]
    BY <2>1 DEF Maker, TradeHeight, LifeInv, LifeType
  <2>5. QED
    BY <1>6, <2>1, <2>3, <2>4
<1>9. OpenTakes'
  BY <1>1, <1>4, <1>8 DEF OpenTakes, Maker, TradeHeight
<1>10. QED
  BY <1>1, <1>4, <1>6, <1>7, <1>9 DEF LifeInv, LifeStep, Answered, Settled, TakesAt

-----------------------------------------------------------------------------

\* As long as the ledger's side only makes steps that keep deals and confirmed
\* heights, what the helper holds stays sound.
LEMMA HelperUndisturbed ==
  ASSUME HelperIInv, LifeInv', LifeStep,
         nacks' = nacks, entries' = entries, reading' = reading,
         purges' = purges, published' \subseteq published
  PROVE  HelperInv' /\ NacksKept'
<1>1. \A s \in Answered : /\ s \in Answered' /\ deal'[s] = deal[s]
                          /\ deal[s][1] \in Parties /\ deal[s][2] \in Nat
                          /\ confirmed[deal[s][1]] \in Int
                          /\ confirmed'[deal[s][1]] \in Int
                          /\ confirmed'[deal[s][1]] >= confirmed[deal[s][1]]
  BY DEF HelperIInv, LifeStep, LifeInv, LifeType
<1>2. HelperInv'
  <2>1. (nacks \cup entries \cup purges \cup published)' \subseteq Answered'
    BY <1>1 DEF HelperIInv, HelperInv
  <2>2. ASSUME reading # NoDeal
        PROVE  /\ reading.swap \in entries /\ reading.confirmed \in Int
               /\ reading.confirmed <= confirmed'[deal'[reading.swap][1]]
    BY <1>1, <2>2 DEF HelperIInv, HelperInv, Maker
  <2>3. QED
    BY <2>1, <2>2 DEF HelperInv, Maker
<1>3. NacksKept'
  BY <1>1 DEF HelperIInv, HelperInv, NacksKept, Maker, TradeHeight
<1>4. QED
  BY <1>2, <1>3

\* HelperIInv holds initially.
LEMMA HelperInitial == HelperInit => HelperIInv
BY InitLife DEF HelperInit, HelperIInv, HelperInv, NacksKept

\* Every step of the application, of the helper's thread, of the network and of
\* the operator keeps HelperIInv.
LEMMA NextIInv ==
  ASSUME HelperIInv, [HelperNext]_swapVars
  PROVE  HelperIInv'
<1>1. CASE UNCHANGED swapVars
  BY <1>1 DEF HelperIInv, LifeInv, LifeType, OpenTakes, HelperInv, NacksKept, Answered,
              Maker, TradeHeight, swapVars, lifeVars, helperVars
<1>2. CASE Application
  <2>1. LifeInv' /\ LifeStep
    BY <1>2, LifeKept DEF Application, HelperIInv
  <2>2. QED
    BY <1>2, <2>1, HelperUndisturbed DEF Application, helperVars, HelperIInv
<1>3. ASSUME UNCHANGED lifeVars
      PROVE  LifeInv' /\ Answered' = Answered
             /\ \A s : Maker(s)' = Maker(s) /\ TradeHeight(s)' = TradeHeight(s)
  BY <1>3 DEF lifeVars, HelperIInv, LifeInv, LifeType, OpenTakes, Answered, Maker, TradeHeight
<1>4. ASSUME NEW s \in Swaps, ProcessTakeNackBlock(s)
      PROVE  HelperIInv'
  <2>1. LifeInv' /\ Answered' = Answered
    BY <1>3, <1>4 DEF ProcessTakeNackBlock
  <2>2. s \in Answered
    BY <1>4 DEF ProcessTakeNackBlock, Answered
  <2>3. HelperInv'
    BY <1>4, <2>1, <2>2 DEF ProcessTakeNackBlock, HelperIInv, HelperInv, lifeVars, Maker
  <2>4. NacksKept'
    BY <1>4 DEF ProcessTakeNackBlock, HelperIInv, NacksKept, lifeVars, Maker, TradeHeight
  <2>5. QED
    BY <2>1, <2>3, <2>4 DEF HelperIInv
<1>5. ASSUME NEW s \in Swaps, Deadline(s)
      PROVE  HelperIInv'
  <2>1. LifeInv' /\ Answered' = Answered
    BY <1>3, <1>5 DEF Deadline
  <2>2. QED
    BY <1>5, <2>1
    DEF Deadline, HelperIInv, HelperInv, NacksKept, lifeVars, Maker, TradeHeight
<1>6. ASSUME NEW s \in Swaps, ProcessRead(s)
      PROVE  HelperIInv'
  <2>1. LifeInv' /\ Answered' = Answered
    BY <1>3, <1>6 DEF ProcessRead
  <2>2. s \in entries /\ s \in Answered
    BY <1>6 DEF ProcessRead, HelperIInv, HelperInv
  <2>3. confirmed[Maker(s)] \in Int
    <3>1. deal[s] \in Parties \X Nat /\ confirmed \in [Parties -> Int]
      BY <2>2 DEF HelperIInv, LifeInv, LifeType
    <3>2. QED
      BY <3>1 DEF Maker
  <2>4. HelperInv'
    <3>1. reading'.swap = s /\ reading'.confirmed = confirmed[Maker(s)]
      BY <1>6 DEF ProcessRead
    <3>2. /\ nacks' = nacks /\ entries' = entries /\ purges' = purges
          /\ published' = published /\ confirmed' = confirmed /\ deal' = deal
      BY <1>6 DEF ProcessRead, lifeVars
    <3>3. (nacks \cup entries \cup purges \cup published)' \subseteq Answered'
      BY <2>1, <3>2 DEF HelperIInv, HelperInv
    <3>4. reading'.confirmed <= confirmed'[deal'[reading'.swap][1]]
      BY <2>3, <3>1, <3>2 DEF Maker
    <3>5. QED
      BY <2>2, <2>3, <3>1, <3>2, <3>3, <3>4 DEF HelperInv, Maker
  <2>5. NacksKept'
    BY <1>6 DEF ProcessRead, HelperIInv, NacksKept, lifeVars, Maker, TradeHeight
  <2>6. QED
    BY <2>1, <2>4, <2>5 DEF HelperIInv
<1>7. ASSUME NEW s \in Swaps, ProcessAct(s)
      PROVE  HelperIInv'
  <2>1. /\ LifeInv' /\ Answered' = Answered /\ reading' = NoDeal /\ nacks' = nacks
        /\ confirmed' = confirmed /\ deal' = deal
    BY <1>3, <1>7 DEF ProcessAct, lifeVars
  <2>2. /\ s \in entries /\ s \in Answered
        /\ reading.confirmed \in Int /\ reading.confirmed <= confirmed[Maker(s)]
    BY <1>7 DEF ProcessAct, HelperIInv, HelperInv
  <2>3. /\ confirmed[Maker(s)] \in Int /\ TradeHeight(s) \in Int
    <3>1. deal[s] \in Parties \X Nat /\ confirmed \in [Parties -> Int]
      BY <2>2 DEF HelperIInv, LifeInv, LifeType
    <3>2. QED
      BY <3>1 DEF Maker, TradeHeight
  <2>4. HelperInv'
    BY <1>7, <2>1, <2>2 DEF ProcessAct, HelperIInv, HelperInv
  <2>5. nacks' \subseteq entries' \cup purges'
    BY <1>7, <2>1 DEF ProcessAct, HelperIInv, NacksKept
  <2>6. /\ purges' \subseteq purges \cup {s}
        /\ s \in purges' => s \in purges \/ reading.confirmed >= TradeHeight(s)
    BY <1>7 DEF ProcessAct
  <2>7. \A x \in purges' : confirmed[Maker(x)] >= TradeHeight(x)
    BY <2>2, <2>3, <2>6 DEF HelperIInv, NacksKept
  <2>8. NacksKept'
    BY <2>1, <2>5, <2>7 DEF NacksKept, Maker, TradeHeight
  <2>9. QED
    BY <2>1, <2>4, <2>8 DEF HelperIInv
<1>8. ASSUME NEW s \in Swaps, ProcessTakeNackBlockPurge(s)
      PROVE  HelperIInv'
  <2>1. LifeInv' /\ Answered' = Answered
    BY <1>3, <1>8 DEF ProcessTakeNackBlockPurge
  <2>2. QED
    BY <1>8, <2>1
    DEF ProcessTakeNackBlockPurge, HelperIInv, HelperInv, NacksKept, lifeVars, Maker,
        TradeHeight
<1>9. ASSUME NEW s \in Swaps, TakeNackConfirmed(s)
      PROVE  HelperIInv'
  <2>1. s \in Answered
    BY <1>9 DEF TakeNackConfirmed, HelperIInv, HelperInv
  <2>2. LifeInv' /\ LifeStep
    BY <1>9, <2>1, TakeNackConfirmedLife DEF HelperIInv
  <2>3. published' \subseteq published
    BY <1>9 DEF TakeNackConfirmed
  <2>4. HelperInv' /\ NacksKept'
    BY <1>9, <2>2, <2>3, HelperUndisturbed DEF TakeNackConfirmed
  <2>5. QED
    BY <2>2, <2>4 DEF HelperIInv
<1>10. ASSUME NEW s \in Swaps, TakeNackLost(s)
       PROVE  HelperIInv'
  <2>1. LifeInv' /\ Answered' = Answered
    BY <1>3, <1>10 DEF TakeNackLost
  <2>2. QED
    BY <1>10, <2>1
    DEF TakeNackLost, HelperIInv, HelperInv, NacksKept, lifeVars, Maker, TradeHeight
<1>11. CASE Restart
  <2>1. LifeInv' /\ Answered' = Answered
    BY <1>3, <1>11 DEF Restart
  <2>2. QED
    BY <1>11, <2>1 DEF Restart, HelperIInv, HelperInv, NacksKept
<1>12. QED
  BY <1>1, <1>2, <1>4, <1>5, <1>6, <1>7, <1>8, <1>9, <1>10, <1>11 DEF HelperNext

\* The invariant holds in every reachable state.
LEMMA HelperInductive == HelperSpec => []HelperIInv
BY HelperInitial, NextIInv, PTL DEF HelperSpec

\* ProcessTakeNackBlockPurge is only asked for when the maker has a confirmed
\* block at the height of the trade, and a stored block it was not asked for is
\* an entry of the helper: no restart and no stale record of Process loses one.
THEOREM NackBlocksKept == HelperSpec => []NacksKept
<1>1. HelperIInv => NacksKept
  BY DEF HelperIInv
<1>2. QED
  BY <1>1, HelperInductive, PTL

\* A take waits only while the maker has no block at the height of the trade:
\* appending, confirming and rolling back, also around the helper's own block,
\* leave no take open behind the maker's head.
THEOREM TakesOpenBeforeTrade == HelperSpec => []OpenTakes
<1>1. HelperIInv => OpenTakes
  BY DEF HelperIInv, LifeInv
<1>2. QED
  BY <1>1, HelperInductive, PTL

\* A deal, once the inquiry is answered, a confirmed height and the end of a
\* take, traded or refunded, are never taken back by any step.
THEOREM DealsAndConfirmationsStay == HelperSpec => [][LifeStep]_swapVars
<1>1. HelperIInv /\ [HelperNext]_swapVars => [LifeStep]_swapVars
  <2> SUFFICES ASSUME HelperIInv, HelperNext
               PROVE  LifeStep
    OBVIOUS
  <2>1. CASE Application
    BY <2>1, LifeKept DEF Application, HelperIInv
  <2>2. ASSUME NEW s \in Swaps, TakeNackConfirmed(s)
        PROVE  LifeStep
    BY <2>2, TakeNackConfirmedLife DEF TakeNackConfirmed, HelperIInv, HelperInv
  <2>3. ASSUME UNCHANGED lifeVars
        PROVE  LifeStep
    BY <2>3 DEF lifeVars, LifeStep, Answered, Settled, HelperIInv, LifeInv, LifeType
  <2>4. QED
    BY <2>1, <2>2, <2>3
    DEF HelperNext, ProcessTakeNackBlock, Deadline, ProcessRead, ProcessAct,
        ProcessTakeNackBlockPurge, TakeNackLost, Restart
<1>2. QED
  BY <1>1, HelperInductive, PTL DEF HelperSpec

=============================================================================
