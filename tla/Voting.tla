------------------------------- MODULE Voting -------------------------------
(***************************************************************************)
(* How a representative dates its votes (ConfirmManager in                 *)
(* rai/node/node.cpp).  A vote names a block of one position, an account   *)
(* and a height, and carries a timestamp.  Receivers discard all votes of  *)
(* a representative for a position when two of them are different and less *)
(* than MIN_CONFIRM_INTERVAL apart (Elections::CheckConflict_), so a       *)
(* representative that changes its mind must date the new vote far enough  *)
(* from every earlier one.  It remembers only the last vote, and that one  *)
(* only for a while.                                                       *)
(*                                                                         *)
(* Several threads of the node vote (message handlers, elections).  Each   *)
(* reads the clock first and takes the mutex afterwards.  MaxLag bounds    *)
(* how old such a reading can be when it is used; the clock itself never   *)
(* runs backwards.                                                         *)
(***************************************************************************)
EXTENDS Integers

CONSTANTS Positions,             \* pairs of account and height
          Hashes,                \* the blocks that compete for a position
          Voters,                \* threads of the node that vote
          NoConfirm,             \* no entry in confirms_
          NoCall,                \* the thread is not in GetTimestamp
          MIN_CONFIRM_INTERVAL,  \* seconds
          MaxLag,                \* age of a clock reading when it is used
          Start, MaxNow          \* bound: the clock runs from Start to MaxNow,
                                 \* no vote follows one dated after MaxNow

Confirms == [timestamp : Nat, hash : Hashes]

Votes == [position : Positions, timestamp : Nat, hash : Hashes]

Calls == [position : Positions, hash : Hashes, now : Nat]

ASSUME VotingAssumption ==
  /\ MIN_CONFIRM_INTERVAL \in Nat
  /\ MaxLag \in 0..1
  /\ Start \in Nat /\ MaxNow \in Nat
  /\ NoConfirm \notin Confirms
  /\ NoCall \notin Calls

VARIABLES now,       \* CurrentTimestamp
          confirms,  \* confirms_: the last vote for each position
          call,      \* threads between reading the clock and the mutex
          sent       \* every vote ever signed

votingVars == <<now, confirms, call, sent>>

VotingInit ==
  /\ now = Start
  /\ confirms = [p \in Positions |-> NoConfirm]
  /\ call = [t \in Voters |-> NoCall]
  /\ sent = {}

\* Time passes; no thread is held up between clock and mutex for longer
\* than MaxLag.
Tick ==
  /\ now < MaxNow
  /\ \A t \in Voters : call[t] # NoCall => now < call[t].now + MaxLag
  /\ now' = now + 1
  /\ UNCHANGED <<confirms, call, sent>>

\* Node::BroadcastConfirm and Node::Confirm ask for a timestamp for the block
\* the ledger has at the position, whichever it is at that moment; the clock
\* is read before the mutex is taken.
Call(t, p, h) ==
  /\ call[t] = NoCall
  /\ confirms[p] # NoConfirm => confirms[p].timestamp <= MaxNow
  /\ call' = [call EXCEPT ![t] = [position |-> p, hash |-> h, now |-> now]]
  /\ UNCHANGED <<now, confirms, sent>>

\* Mutant: the new vote is dated before the old one.
TimestampBefore(e, h, n) ==
  IF e = NoConfirm \/ e.hash = h THEN n ELSE e.timestamp - MIN_CONFIRM_INTERVAL

\* The timestamp of a vote for h when the last vote was e (or none) and the
\* clock showed n.
Timestamp(e, h, n) ==
  IF e = NoConfirm THEN n
  ELSE IF e.timestamp + MIN_CONFIRM_INTERVAL <= n THEN n
  ELSE IF e.hash = h THEN e.timestamp
  ELSE e.timestamp + MIN_CONFIRM_INTERVAL

\* Under the mutex: the entry is inserted or replaced, the vote is signed
\* and sent.
GetTimestamp(t) ==
  /\ call[t] # NoCall
  /\ LET p == call[t].position
         h == call[t].hash
         timestamp == Timestamp(confirms[p], h, call[t].now)
     IN  /\ confirms' = [confirms EXCEPT ![p] = [timestamp |-> timestamp, hash |-> h]]
         /\ sent' = sent \cup {[position |-> p, timestamp |-> timestamp, hash |-> h]}
  /\ call' = [call EXCEPT ![t] = NoCall]
  /\ UNCHANGED now

\* Mutant: an entry goes one second too early.
OutdatedEarly(e) == e # NoConfirm /\ e.timestamp <= now - MIN_CONFIRM_INTERVAL

\* ConfirmManager::Age, once a second: entries before the cutoff go.
Outdated(e) == e # NoConfirm /\ e.timestamp < now - MIN_CONFIRM_INTERVAL

Age ==
  /\ confirms' = [p \in Positions |->
                    IF Outdated(confirms[p]) THEN NoConfirm ELSE confirms[p]]
  /\ UNCHANGED <<now, call, sent>>

VotingNext ==
  \/ Tick
  \/ \E t \in Voters, p \in Positions, h \in Hashes : Call(t, p, h)
  \/ \E t \in Voters : GetTimestamp(t)
  \/ Age

VotingSpec == VotingInit /\ [][VotingNext]_votingVars

-----------------------------------------------------------------------------

\* Type invariant: the last votes and the calls in progress have their types.
TypeOK ==
  /\ now \in Nat
  /\ confirms \in [Positions -> Confirms \cup {NoConfirm}]
  /\ call \in [Voters -> Calls \cup {NoCall}]
  /\ sent \in SUBSET Votes

\* Elections::CheckConflict_, applied to two votes for the same position.
CheckConflict(v, w) ==
  /\ ~(v.timestamp = w.timestamp /\ v.hash = w.hash)
  /\ v.timestamp - w.timestamp < MIN_CONFIRM_INTERVAL
  /\ w.timestamp - v.timestamp < MIN_CONFIRM_INTERVAL

(***************************************************************************)
(* An honest representative never contradicts itself: whatever its ledger  *)
(* said when it voted, however its threads interleave and whatever it has  *)
(* forgotten, no two of its votes for a position are in conflict.  (A      *)
(* conflict makes every receiver drop the representative's weight from     *)
(* the election, and anyone may prove it with the two signatures.)         *)
(***************************************************************************)
NoConflict ==
  \A v, w \in sent : v.position = w.position => ~CheckConflict(v, w)

\* What makes it so: the entry of a position is its latest vote and at a
\* distance from all others, and where there is no entry all votes are old.
LastVote ==
  \A v \in sent :
    LET e == confirms[v.position]
    IN  IF e = NoConfirm
        THEN v.timestamp + MIN_CONFIRM_INTERVAL < now
        ELSE \/ v.timestamp = e.timestamp /\ v.hash = e.hash
             \/ v.timestamp + MIN_CONFIRM_INTERVAL <= e.timestamp

\* A clock reading in use is at most MaxLag old.
FreshCalls ==
  \A t \in Voters :
    call[t] # NoCall => call[t].now <= now /\ now <= call[t].now + MaxLag

=============================================================================
