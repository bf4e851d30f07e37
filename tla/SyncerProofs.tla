---------------------------- MODULE SyncerProofs ----------------------------
(***************************************************************************)
(* Every synchronisation is served, and no batch counts as finished while  *)
(* a synchronisation of it goes on: for any accounts, chains and rounds.   *)
(***************************************************************************)
EXTENDS Syncer, FiniteSetTheorems, SequenceTheorems, TLAPS

Links == Blocks \cup {NoBlock}

AskItem ==
  [kind : {"ask"}, account : Accounts, height : Nat, previous : Links,
   batch : Int, block : Links]

QueryItem ==
  [kind : {"query"}, account : Accounts, height : Nat, previous : Links,
   batch : Int, misses : Nat]

Asking(w, a) == w.kind \in {"ask", "query"} /\ w.account = a
Asked(p, a) == {w \in DOMAIN p : Asking(w, a)}

Telling(w, a, b) ==
  w.kind \in {"process", "result"} /\ w.account = a /\ w.block = b
Told(p, a, b) == \E w \in DOMAIN p : Telling(w, a, b)

IsItem(w) ==
  /\ w.kind \in {"ask", "query"} => w \in AskItem \cup QueryItem
  /\ w.kind # "result" => w.batch \in Int

\* Types of the chains, the synchronisations and what is pending.
Typed(l, s, p, n) ==
  /\ l \in [Accounts -> Seq(Blocks)]
  /\ s \in [Accounts -> SyncInfo \cup {NoSync}]
  /\ IsABag(p)
  /\ \A w \in DOMAIN p : IsItem(w)
  /\ n \in Nat

\* Account a, of which the synchronisation is i, is served.
Serves(a, i, q, p) ==
  /\ i = NoSync => Asked(p, a) = {}
  /\ i # NoSync /\ i.status = "QUERY" =>
       \E w \in DOMAIN p :
         /\ Asked(p, a) = {w} /\ p[w] = 1
         /\ w.height = i.height /\ w.previous = i.previous /\ w.batch = i.batch
  /\ i # NoSync /\ i.status = "PROCESS" =>
       /\ Asked(p, a) = {}
       /\ i.current \in Blocks /\ AccountOf[i.current] = a
       /\ Height[i.current] = i.height
       /\ i.current \in q \/ Told(p, a, i.current)

Good(l, s, q, p, n) ==
  /\ Typed(l, s, p, n)
  /\ \A a \in Accounts : Serves(a, s[a], q, p)

IInv == Good(ledger, syncs, queue, pending, count)

-----------------------------------------------------------------------------
(* Bags of items.                                                          *)

\* Bag C has what bag B has, but for copies of old that went and new that came.
Moves(B, C, old, new) ==
  /\ IsABag(C)
  /\ DOMAIN B \ old \subseteq DOMAIN C
  /\ DOMAIN C \subseteq DOMAIN B \cup new
  /\ \A e \in DOMAIN B : e \notin old /\ e \notin new => C[e] = B[e]
  /\ \A e \in new : e \in DOMAIN C /\ (e \notin DOMAIN B => C[e] = 1)
  /\ \A e \in old : e \in DOMAIN B /\ e \in DOMAIN C /\ e \notin new => B[e] > 1

\* An item that is done leaves one copy of each of the others behind.
LEMMA DoneMoves ==
  ASSUME IsABag(pending), NEW w \in DOMAIN pending, NEW new, Done(w, new)
  PROVE  Moves(pending, pending', {w}, new)
<1> DEFINE B == pending
           D == B (-) SetToBag({w})
<1>1. IsABag(D) /\ DOMAIN D = {e \in DOMAIN B : e # w \/ B[w] > 1}
  BY DEF IsABag, (-), SetToBag
<1>2. \A e \in DOMAIN B : e # w => D[e] = B[e]
  BY DEF IsABag, (-), SetToBag
<1>3. pending' = D (+) SetToBag(new)
  BY DEF Done
<1> HIDE DEF D
<1>4. /\ IsABag(pending')
      /\ DOMAIN pending' = DOMAIN D \cup new
      /\ \A e \in DOMAIN D : e \notin new => pending'[e] = D[e]
      /\ \A e \in new : e \notin DOMAIN D => pending'[e] = 1
  BY <1>1, <1>3 DEF IsABag, (+), SetToBag
<1>5. QED
  BY <1>1, <1>2, <1>4 DEF Moves

\* What is posted comes to what there is.
LEMMA PostMoves ==
  ASSUME IsABag(pending), NEW new, Post(new)
  PROVE  Moves(pending, pending', {}, new)
<1>1. pending' = pending (+) SetToBag(new)
  BY DEF Post
<1>2. /\ IsABag(pending')
      /\ DOMAIN pending' = DOMAIN pending \cup new
      /\ \A e \in DOMAIN pending : e \notin new => pending'[e] = pending[e]
      /\ \A e \in new : e \notin DOMAIN pending => pending'[e] = 1
  BY <1>1 DEF IsABag, (+), SetToBag
<1>3. QED
  BY <1>2 DEF Moves

\* Items of account a that query stay what they are when neither the item that
\* goes nor those that come query for it.
LEMMA AskedKept ==
  ASSUME NEW B, NEW C, NEW old, NEW new, Moves(B, C, old, new), NEW a,
         \A e \in old \cup new : ~Asking(e, a)
  PROVE  Asked(C, a) = Asked(B, a) /\ \A e \in Asked(B, a) : C[e] = B[e]
BY DEF Moves, Asked

\* Account a is served as before by a step that leaves its synchronisation and
\* its queries alone, and the block it waits for in the queue.
LEMMA ServedAsBefore ==
  ASSUME NEW B, NEW C, NEW old, NEW new, Moves(B, C, old, new),
         NEW a, NEW i, NEW q, NEW r, q \subseteq r,
         \A e \in old \cup new : ~Asking(e, a),
         \A e \in old : ~Telling(e, a, i.current),
         Serves(a, i, q, B)
  PROVE  Serves(a, i, r, C)
<1>1. Asked(C, a) = Asked(B, a) /\ \A e \in Asked(B, a) : C[e] = B[e]
  BY AskedKept
<1>2. Told(B, a, i.current) => Told(C, a, i.current)
  BY DEF Told, Moves
<1>3. Asked(C, a) \subseteq DOMAIN C /\ Asked(B, a) \subseteq DOMAIN B
  BY DEF Asked
<1>4. QED
  BY <1>1, <1>2, <1>3 DEF Serves

\* An account that is not synchronised, or whose item is the one done, is
\* served by the one query that comes.
LEMMA ServedByNew ==
  ASSUME NEW B, NEW C, NEW old, NEW new, Moves(B, C, old, new),
         NEW a, NEW i, NEW q, NEW n \in new,
         Asked(B, a) \subseteq old, \A e \in Asked(B, a) : B[e] = 1,
         n \notin Asked(B, a), Asking(n, a),
         \A e \in new : Asking(e, a) => e = n,
         i # NoSync, i.status = "QUERY", n.height = i.height,
         n.previous = i.previous, n.batch = i.batch
  PROVE  Serves(a, i, q, C)
<1>1. n \in DOMAIN C /\ C[n] = 1
  BY DEF Moves, Asked
<1>2. Asked(C, a) = {n}
  <2>1. \A e \in DOMAIN C : Asking(e, a) => e = n
    BY DEF Moves, Asked
  <2>2. QED
    BY <1>1, <2>1 DEF Asked
<1>3. QED
  BY <1>1, <1>2 DEF Serves

\* An account whose only query is done has none left.
LEMMA NoneAsked ==
  ASSUME NEW B, NEW C, NEW old, NEW new, Moves(B, C, old, new), NEW a,
         Asked(B, a) \subseteq old, \A e \in Asked(B, a) : B[e] = 1,
         \A e \in new : ~Asking(e, a)
  PROVE  Asked(C, a) = {}
BY DEF Moves, Asked

\* Who queries is the one item of a synchronisation that queries.
LEMMA AskingServed ==
  ASSUME NEW B, NEW a, NEW i \in SyncInfo \cup {NoSync}, NEW q, NEW w \in DOMAIN B,
         Asking(w, a), Serves(a, i, q, B)
  PROVE  /\ i # NoSync /\ i.status = "QUERY"
         /\ Asked(B, a) = {w} /\ B[w] = 1
         /\ w.height = i.height /\ w.previous = i.previous /\ w.batch = i.batch
<1>1. w \in Asked(B, a)
  BY DEF Asked
<1>2. QED
  BY <1>1 DEF Serves, SyncInfo

\* What is pending stays well formed when what comes is.
LEMMA ItemsTyped ==
  ASSUME NEW B, NEW C, NEW old, NEW new, Moves(B, C, old, new),
         \A w \in DOMAIN B : IsItem(w), \A w \in new : IsItem(w)
  PROVE  IsABag(C) /\ \A w \in DOMAIN C : IsItem(w)
BY DEF Moves

-----------------------------------------------------------------------------
(* Operators of the syncer.                                                *)

\* The height after the head of an account, and its head.
LEMMA HeadTyped ==
  ASSUME ledger \in [Accounts -> Seq(Blocks)], NEW a \in Accounts
  PROVE  HeadHeight(a) + 1 \in Nat /\ HeadHeight(a) \in Int /\ HeadOf(a) \in Links
<1>1. ledger[a] \in Seq(Blocks) /\ Len(ledger[a]) \in Nat
  BY LenProperties
<1>2. ledger[a] # <<>> => Last(ledger[a]) \in Blocks
  <2>1. SUFFICES ASSUME ledger[a] # <<>> PROVE Last(ledger[a]) \in Blocks
    OBVIOUS
  <2>2. Len(ledger[a]) \in 1..Len(ledger[a])
    BY <1>1, <2>1, EmptySeq
  <2>3. QED
    BY <1>1, <2>2, ElementOfSeq DEF Last
<1>3. QED
  BY <1>1, <1>2 DEF HeadHeight, HeadOf, Links

\* A query to be sent is well formed.
LEMMA AskTyped ==
  ASSUME NEW a \in Accounts, NEW h \in Nat, NEW prev \in Links, NEW batch \in Int,
         NEW b \in Links
  PROVE  /\ IsItem(Ask(a, h, prev, batch, b)) /\ Asking(Ask(a, h, prev, batch, b), a)
         /\ Ask(a, h, prev, batch, b).height = h
         /\ Ask(a, h, prev, batch, b).previous = prev
         /\ Ask(a, h, prev, batch, b).batch = batch
         /\ Ask(a, h, prev, batch, b).account = a
         /\ Ask(a, h, prev, batch, b).kind = "ask"
BY DEF Ask, IsItem, AskItem, Asking

\* An entry of syncs_ for a query is none of NoSync.
LEMMA NewSyncTyped ==
  ASSUME NEW h \in Nat, NEW prev \in Links, NEW batch \in Int
  PROVE  /\ NewSync(h, prev, batch) \in SyncInfo /\ NewSync(h, prev, batch) # NoSync
         /\ NewSync(h, prev, batch).status = "QUERY"
         /\ NewSync(h, prev, batch).height = h
         /\ NewSync(h, prev, batch).previous = prev
         /\ NewSync(h, prev, batch).batch = batch
<1>1. NewSync(h, prev, batch) \in SyncInfo
  BY DEF NewSync, SyncInfo, Links
<1>2. QED
  BY <1>1, NoSyncAssumption DEF NewSync

-----------------------------------------------------------------------------
(* Steps.                                                                  *)

\* Add: an account that is not synchronised gets a synchronisation and its
\* query, any other keeps what it has.
LEMMA AddGood ==
  ASSUME IInv, NEW x \in Accounts, NEW h \in Nat, NEW prev \in Links,
         NEW batch \in Int, NEW old,
         \A e \in old : e.kind \notin {"ask", "query", "process", "result"},
         Moves(pending, pending', old, AsksWith(x, h, prev, batch)),
         syncs' = SyncsWith(x, h, prev, batch),
         UNCHANGED <<ledger, queue, count>>
  PROVE  IInv'
<1> DEFINE n == Ask(x, h, prev, batch, NoBlock)
           new == AsksWith(x, h, prev, batch)
<1>1. /\ Typed(ledger, syncs, pending, count)
      /\ \A a \in Accounts : Serves(a, syncs[a], queue, pending)
  BY DEF IInv, Good
<1>2. /\ IsItem(n) /\ Asking(n, x) /\ n.account = x
      /\ n.height = h /\ n.previous = prev /\ n.batch = batch
  BY AskTyped DEF Links
<1>3. /\ \A e \in new : e = n
      /\ syncs[x] = NoSync => n \in new
      /\ syncs[x] # NoSync => new = {}
  BY DEF AsksWith
<1>4. /\ NewSync(h, prev, batch) \in SyncInfo /\ NewSync(h, prev, batch) # NoSync
      /\ NewSync(h, prev, batch).status = "QUERY"
      /\ NewSync(h, prev, batch).height = h
      /\ NewSync(h, prev, batch).previous = prev
      /\ NewSync(h, prev, batch).batch = batch
  BY NewSyncTyped
<1>5. /\ syncs' \in [Accounts -> SyncInfo \cup {NoSync}]
      /\ syncs[x] = NoSync => syncs'[x] = NewSync(h, prev, batch)
      /\ syncs[x] # NoSync => syncs' = syncs
      /\ \A a \in Accounts : a # x => syncs'[a] = syncs[a]
  BY <1>1, <1>4 DEF SyncsWith, Typed
<1> HIDE DEF n, new
<1>6. Moves(pending, pending', old, new)
  BY DEF new
<1>7. Typed(ledger', syncs', pending', count')
  <2>1. IsABag(pending') /\ \A w \in DOMAIN pending' : IsItem(w)
    BY <1>1, <1>2, <1>3, <1>6, ItemsTyped DEF Typed
  <2>2. QED
    BY <1>1, <1>5, <2>1 DEF Typed
<1>8. ASSUME NEW a \in Accounts PROVE Serves(a, syncs'[a], queue', pending')
  <2>1. CASE a = x /\ syncs[x] = NoSync
    <3>1. Asked(pending, a) = {}
      BY <1>1, <2>1 DEF Serves
    <3>2. QED
      BY <1>2, <1>3, <1>4, <1>5, <1>6, <2>1, <3>1, ServedByNew
  <2>2. CASE ~(a = x /\ syncs[x] = NoSync)
    <3>1. syncs'[a] = syncs[a]
      BY <1>5, <2>2
    <3>2. \A e \in new : ~Asking(e, a)
      BY <1>2, <1>3, <2>2 DEF Asking
    <3>3. \A e \in old : ~Asking(e, a) /\ ~Telling(e, a, syncs[a].current)
      BY DEF Asking, Telling
    <3>4. QED
      BY <1>1, <1>6, <3>1, <3>2, <3>3, ServedAsBefore
  <2>3. QED
    BY <2>1, <2>2
<1>9. QED
  BY <1>7, <1>8 DEF IInv, Good

\* SyncAccount by a thread with an item that is no query.
LEMMA SyncAccountGood ==
  ASSUME IInv, NEW x \in Accounts, NEW w \in DOMAIN pending,
         w.kind \in {"related", "found"}, SyncAccount(w, x, w.batch),
         UNCHANGED <<ledger, queue, count>>
  PROVE  IInv'
<1>1. Typed(ledger, syncs, pending, count)
  BY DEF IInv, Good
<1>2. HeadHeight(x) + 1 \in Nat /\ HeadOf(x) \in Links
  BY <1>1, HeadTyped DEF Typed
<1>3. w.batch \in Int
  BY <1>1 DEF Typed, IsItem
<1>4. /\ syncs' = SyncsWith(x, HeadHeight(x) + 1, HeadOf(x), w.batch)
      /\ Done(w, AsksWith(x, HeadHeight(x) + 1, HeadOf(x), w.batch))
  BY DEF SyncAccount
<1>5. Moves(pending, pending', {w},
            AsksWith(x, HeadHeight(x) + 1, HeadOf(x), w.batch))
  BY <1>1, <1>4, DoneMoves DEF Typed
<1>6. \A e \in {w} : e.kind \notin {"ask", "query", "process", "result"}
  OBVIOUS
<1>7. QED
  BY <1>2, <1>3, <1>4, <1>5, <1>6, AddGood

\* A step that leaves the synchronisations alone, and the blocks they wait for
\* in the queue or reported.
LEMMA OthersGood ==
  ASSUME IInv, NEW old, NEW new, Moves(pending, pending', old, new),
         \A e \in old \cup new : e.kind \notin {"ask", "query"},
         \A e \in new : IsItem(e),
         \A a \in Accounts : \A b \in Blocks :
           /\ AccountOf[b] = a
           /\ b \in queue \/ Told(pending, a, b)
           => \/ syncs[a] = NoSync \/ syncs[a].status # "PROCESS" \/ syncs[a].current # b
              \/ b \in queue' \/ Told(pending', a, b),
         ledger' \in [Accounts -> Seq(Blocks)], UNCHANGED <<syncs, count>>
  PROVE  IInv'
<1>1. /\ Typed(ledger, syncs, pending, count)
      /\ \A a \in Accounts : Serves(a, syncs[a], queue, pending)
  BY DEF IInv, Good
<1>2. Typed(ledger', syncs', pending', count')
  <2>1. IsABag(pending') /\ \A w \in DOMAIN pending' : IsItem(w)
    BY <1>1, ItemsTyped DEF Typed
  <2>2. QED
    BY <1>1, <2>1 DEF Typed
<1>3. ASSUME NEW a \in Accounts PROVE Serves(a, syncs'[a], queue', pending')
  <2>1. Asked(pending', a) = Asked(pending, a)
        /\ \A e \in Asked(pending, a) : pending'[e] = pending[e]
    BY AskedKept DEF Asking
  <2>2. Asked(pending', a) \subseteq DOMAIN pending'
    BY DEF Asked
  <2>3. Serves(a, syncs[a], queue, pending)
    BY <1>1
  <2>4. CASE syncs[a] # NoSync /\ syncs[a].status = "PROCESS"
    <3>1. /\ syncs[a].current \in Blocks /\ AccountOf[syncs[a].current] = a
          /\ syncs[a].current \in queue \/ Told(pending, a, syncs[a].current)
      BY <2>3, <2>4 DEF Serves
    <3>2. syncs[a].current \in queue' \/ Told(pending', a, syncs[a].current)
      BY <2>4, <3>1
    <3>3. QED
      BY <2>1, <2>3, <2>4, <3>2 DEF Serves
  <2>5. CASE ~(syncs[a] # NoSync /\ syncs[a].status = "PROCESS")
    BY <2>1, <2>2, <2>3, <2>5 DEF Serves
  <2>6. QED
    BY <2>4, <2>5
<1>4. QED
  BY <1>2, <1>3 DEF IInv, Good

\* A step with items of account x only, which leaves it served.
LEMMA OneAccountGood ==
  ASSUME IInv, NEW x \in Accounts, NEW old, NEW new,
         Moves(pending, pending', old, new),
         \A e \in old \cup new : e.kind \in {"ask", "query"} => e.account = x,
         \A e \in old : e.kind \in {"process", "result"} => e.account = x,
         \A e \in new : IsItem(e),
         syncs' \in [Accounts -> SyncInfo \cup {NoSync}],
         \A a \in Accounts : a # x => syncs'[a] = syncs[a],
         Serves(x, syncs'[x], queue', pending'),
         UNCHANGED <<ledger, queue, count>>
  PROVE  IInv'
<1>1. /\ Typed(ledger, syncs, pending, count)
      /\ \A a \in Accounts : Serves(a, syncs[a], queue, pending)
  BY DEF IInv, Good
<1>2. Typed(ledger', syncs', pending', count')
  <2>1. IsABag(pending') /\ \A w \in DOMAIN pending' : IsItem(w)
    BY <1>1, ItemsTyped DEF Typed
  <2>2. QED
    BY <1>1, <2>1 DEF Typed
<1>3. ASSUME NEW a \in Accounts PROVE Serves(a, syncs'[a], queue', pending')
  <2>1. CASE a = x
    BY <2>1
  <2>2. CASE a # x
    <3>1. \A e \in old \cup new : ~Asking(e, a)
      BY <2>2 DEF Asking
    <3>2. \A e \in old : ~Telling(e, a, syncs[a].current)
      BY <2>2 DEF Telling
    <3>3. QED
      BY <1>1, <2>2, <3>1, <3>2, ServedAsBefore
  <2>3. QED
    BY <2>1, <2>2
<1>4. QED
  BY <1>2, <1>3 DEF IInv, Good

\* The same for the items there are.
LEMMA AskingOnly ==
  ASSUME IInv, NEW x \in Accounts, NEW w \in DOMAIN pending, Asking(w, x)
  PROVE  /\ syncs[x] # NoSync /\ syncs[x].status = "QUERY"
         /\ Asked(pending, x) = {w} /\ pending[w] = 1
         /\ w.height = syncs[x].height /\ w.previous = syncs[x].previous
         /\ w.batch = syncs[x].batch
<1> DEFINE i == syncs[x]
<1>1. i \in SyncInfo \cup {NoSync} /\ Serves(x, i, queue, pending)
  BY DEF IInv, Good, Typed
<1> HIDE DEF i
<1>2. /\ i # NoSync /\ i.status = "QUERY" /\ Asked(pending, x) = {w} /\ pending[w] = 1
      /\ w.height = i.height /\ w.previous = i.previous /\ w.batch = i.batch
  BY <1>1, AskingServed
<1>3. QED
  BY <1>2 DEF i

\* BlockQuery_ for an account: its item becomes the query.
LEMMA AskAccountGood ==
  ASSUME IInv, NEW x \in Accounts, NEW w \in DOMAIN pending, w.account = x,
         AskAccount(w)
  PROVE  IInv'
<1> DEFINE related(c, sure) == [kind |-> "related", account |-> c,
                                batch |-> w.batch, sure |-> sure]
           n == [kind |-> "query", account |-> w.account, height |-> w.height,
                 previous |-> w.previous, batch |-> w.batch, misses |-> 0]
           more == IF w.block = NoBlock THEN {}
                   ELSE {related(c, TRUE) : c \in SendsTo[w.block]} \cup
                        {related(c, FALSE) : c \in Rewards[w.block]}
           new == {n} \cup more
<1>1. /\ Typed(ledger, syncs, pending, count) /\ Serves(x, syncs[x], queue, pending)
      /\ syncs[x] \in SyncInfo \cup {NoSync}
  BY DEF IInv, Good, Typed
<1>2. w.kind = "ask" /\ Done(w, new) /\ UNCHANGED <<ledger, queue, syncs, count>>
  BY DEF AskAccount, processor, rounds
<1>3. Asking(w, x)
  BY <1>2 DEF Asking
<1>4. /\ syncs[x] # NoSync /\ syncs[x].status = "QUERY"
      /\ Asked(pending, x) = {w} /\ pending[w] = 1
      /\ w.height = syncs[x].height /\ w.previous = syncs[x].previous
      /\ w.batch = syncs[x].batch
  BY <1>3, AskingOnly
<1>5. Moves(pending, pending', {w}, new)
  BY <1>1, <1>2, DoneMoves DEF Typed
<1>6. w \in AskItem
  BY <1>1, <1>2 DEF Typed, IsItem, AskItem, QueryItem
<1>7. IsItem(n) /\ Asking(n, x) /\ n # w
  BY <1>2, <1>6 DEF IsItem, QueryItem, AskItem, Asking
<1>8. \A e \in more : e.kind = "related" /\ IsItem(e)
  BY <1>6 DEF IsItem, AskItem
<1>9. /\ n.height = w.height /\ n.previous = w.previous /\ n.batch = w.batch
      /\ n.account = x
  OBVIOUS
<1> HIDE DEF n, more
<1>10. Serves(x, syncs'[x], queue', pending')
  <2>1. \A e \in new : Asking(e, x) => e = n
    BY <1>8 DEF Asking
  <2>2. n \in new /\ n \notin Asked(pending, x)
    BY <1>4, <1>7
  <2>3. Asked(pending, x) \subseteq {w} /\ \A e \in Asked(pending, x) : pending[e] = 1
    BY <1>4
  <2> HIDE DEF new
  <2>4. QED
    BY <1>2, <1>4, <1>5, <1>7, <1>9, <2>1, <2>2, <2>3, ServedByNew
<1>11. \A e \in {w} \cup new : e.kind \in {"ask", "query"} => e.account = x
  BY <1>8, <1>9
<1>12. \A e \in new : IsItem(e)
  BY <1>7, <1>8
<1>13. \A e \in {w} : e.kind \in {"process", "result"} => e.account = x
  OBVIOUS
<1> HIDE DEF new
<1>14. syncs' \in [Accounts -> SyncInfo \cup {NoSync}]
  BY <1>1, <1>2 DEF Typed
<1>15. QED
  BY <1>2, <1>5, <1>10, <1>11, <1>12, <1>13, <1>14, OneAccountGood

\* The answer is the canonical block of the height that was asked for, or the
\* one before it, a fork.
LEMMA AnswerTyped ==
  ASSUME NEW w \in QueryItem, Answer(w).status # "MISS"
  PROVE  /\ Answer(w).status \in {"SUCCESS", "FORK"}
         /\ Answer(w).block \in Blocks
         /\ Answer(w).status = "SUCCESS" =>
              AccountOf[Answer(w).block] = w.account /\ Height[Answer(w).block] = w.height
<1> DEFINE c == Canonical[w.account]
           byHeight == w.height = 0 \/ w.previous = NoBlock
           taken == \/ byHeight /\ w.height < Len(c)
                    \/ ~byHeight /\ w.previous \in Range(c) /\ w.height < Len(c)
           forked == ~byHeight /\ w.previous \notin Range(c) /\ w.height <= Len(c)
<1>1. w.account \in Accounts /\ w.height \in Nat
  BY DEF QueryItem
<1>2. c \in Seq(Blocks) /\ Len(c) \in Nat
  BY <1>1, SyncerAssumption, LenProperties
<1>3. Answer(w) = IF taken THEN [status |-> "SUCCESS", block |-> c[w.height + 1]]
                  ELSE IF forked THEN [status |-> "FORK", block |-> c[w.height]]
                  ELSE [status |-> "MISS", block |-> NoBlock]
  <2> HIDE DEF c
  <2>1. Answer(w) =
          CASE byHeight /\ w.height < Len(c) ->
                 [status |-> "SUCCESS", block |-> c[w.height + 1]]
            [] ~byHeight /\ w.previous \in Range(c) /\ w.height < Len(c) ->
                 [status |-> "SUCCESS", block |-> c[w.height + 1]]
            [] ~byHeight /\ w.previous \notin Range(c) /\ w.height <= Len(c) ->
                 [status |-> "FORK", block |-> c[w.height]]
            [] OTHER -> [status |-> "MISS", block |-> NoBlock]
    BY DEF Answer, c
  <2> HIDE DEF byHeight
  <2>2. QED
    BY <2>1
<1>4. CASE taken
  <2>1. w.height + 1 \in DOMAIN c
    BY <1>1, <1>2, <1>4, LenProperties
  <2>2. c[w.height + 1] \in Blocks
    BY <1>2, <2>1
  <2>3. AccountOf[c[w.height + 1]] = w.account /\ Height[c[w.height + 1]] = w.height
    <3>1. AccountOf[c[w.height + 1]] = w.account
          /\ Height[c[w.height + 1]] = (w.height + 1) - 1
      BY <1>1, <2>1, SyncerAssumption
    <3>2. QED
      BY <1>1, <3>1
  <2>4. QED
    BY <1>3, <1>4, <2>2, <2>3
<1>5. CASE ~taken /\ forked
  <2>1. w.height \in DOMAIN c
    BY <1>1, <1>2, <1>5, LenProperties
  <2>2. QED
    BY <1>2, <1>3, <1>5, <2>1
<1>6. QED
  BY <1>3, <1>4, <1>5

\* QueryCallback: the synchronisation waits for the block of the height it asked
\* for, or ends with a fork.
LEMMA QueryAnsweredGood ==
  ASSUME IInv, NEW x \in Accounts, NEW w \in DOMAIN pending, w.account = x,
         QueryAnswered(w)
  PROVE  IInv'
<1> DEFINE answer == Answer(w)
           n == [kind |-> "process", account |-> x, block |-> answer.block,
                 batch |-> w.batch]
           i == syncs[x]
<1>1. Typed(ledger, syncs, pending, count)
  BY DEF IInv, Good
<1>2. /\ w.kind = "query" /\ answer.status # "MISS"
      /\ Callback(w, answer) /\ UNCHANGED <<ledger, queue, count>>
  BY DEF QueryAnswered, processor, rounds
<1>3. /\ i # NoSync /\ i.status = "QUERY"
      /\ Asked(pending, x) = {w} /\ pending[w] = 1 /\ w.height = i.height
  BY <1>2, AskingOnly DEF Asking
<1>4. w \in QueryItem
  BY <1>1, <1>2 DEF Typed, IsItem, AskItem, QueryItem
<1>5. /\ answer.status \in {"SUCCESS", "FORK"} /\ answer.block \in Blocks
      /\ answer.status = "SUCCESS" =>
           AccountOf[answer.block] = x /\ Height[answer.block] = w.height
  BY <1>2, <1>4, AnswerTyped
<1> HIDE DEF answer
<1>6. /\ Done(w, {n})
      /\ syncs' = IF answer.status = "FORK" THEN [syncs EXCEPT ![x] = NoSync]
                  ELSE [syncs EXCEPT ![x].status = "PROCESS",
                                     ![x].current = answer.block]
  BY <1>2, <1>3 DEF Callback, Queried
<1>7. Moves(pending, pending', {w}, {n})
  BY <1>1, <1>6, DoneMoves DEF Typed
<1>8. IsItem(n) /\ n.kind = "process" /\ n.account = x /\ n.block = answer.block
  BY <1>4 DEF IsItem, QueryItem
<1>9. syncs \in [Accounts -> SyncInfo \cup {NoSync}] /\ syncs[x] \in SyncInfo
  BY <1>1, <1>3 DEF Typed
<1> HIDE DEF n
<1>10. Asked(pending', x) = {}
  <2>1. Asked(pending, x) \subseteq {w} /\ \A e \in Asked(pending, x) : pending[e] = 1
    BY <1>3
  <2>2. \A e \in {n} : ~Asking(e, x)
    BY <1>8 DEF Asking
  <2>3. QED
    BY <1>7, <2>1, <2>2, NoneAsked
<1>11. n \in DOMAIN pending'
  BY <1>7 DEF Moves
<1>12. /\ syncs' \in [Accounts -> SyncInfo \cup {NoSync}]
       /\ \A a \in Accounts : a # x => syncs'[a] = syncs[a]
       /\ answer.status = "FORK" => syncs'[x] = NoSync
       /\ answer.status = "SUCCESS" =>
            /\ syncs'[x].status = "PROCESS" /\ syncs'[x].current = answer.block
            /\ syncs'[x].height = i.height
            /\ syncs'[x] \in SyncInfo
  BY <1>5, <1>6, <1>9 DEF SyncInfo
<1>13. Serves(x, syncs'[x], queue', pending')
  <2>1. CASE answer.status = "FORK"
    BY <1>10, <1>12, <2>1 DEF Serves
  <2>2. CASE answer.status = "SUCCESS"
    <3>1. Told(pending', x, answer.block)
      BY <1>8, <1>11 DEF Told, Telling
    <3>2. QED
      BY <1>3, <1>5, <1>10, <1>12, <2>2, <3>1 DEF Serves
  <2>3. QED
    BY <1>5, <2>1, <2>2
<1>14. /\ \A e \in {w} \cup {n} : e.kind \in {"ask", "query"} => e.account = x
       /\ \A e \in {w} : e.kind \in {"process", "result"} => e.account = x
       /\ \A e \in {n} : IsItem(e)
  BY <1>8
<1>15. QED
  BY <1>2, <1>7, <1>12, <1>13, <1>14, OneAccountGood

\* A miss: the query goes on with one miss more, or the synchronisation ends.
LEMMA QueryMissedGood ==
  ASSUME IInv, NEW x \in Accounts, NEW w \in DOMAIN pending, w.account = x,
         QueryMissed(w)
  PROVE  IInv'
<1> DEFINE n == [w EXCEPT !.misses = @ + 1]
           i == syncs[x]
<1>1. Typed(ledger, syncs, pending, count)
  BY DEF IInv, Good
<1>2. /\ w.kind = "query" /\ UNCHANGED <<ledger, queue, count>>
      /\ Miss(w, IF Queried(x) THEN [syncs EXCEPT ![x] = NoSync] ELSE syncs)
  BY DEF QueryMissed, processor, rounds
<1>3. /\ i # NoSync /\ i.status = "QUERY"
      /\ Asked(pending, x) = {w} /\ pending[w] = 1
      /\ w.height = i.height /\ w.previous = i.previous /\ w.batch = i.batch
  BY <1>2, AskingOnly DEF Asking
<1>4. w \in QueryItem
  BY <1>1, <1>2 DEF Typed, IsItem, AskItem, QueryItem
<1>5. /\ IsItem(n) /\ Asking(n, x) /\ n # w /\ n.account = x
      /\ n.height = w.height /\ n.previous = w.previous /\ n.batch = w.batch
  BY <1>2, <1>4 DEF IsItem, QueryItem, Asking
<1>6. syncs \in [Accounts -> SyncInfo \cup {NoSync}]
  BY <1>1 DEF Typed
<1> HIDE DEF n
<1>7. CASE w.misses + 1 < MissLimit
  <2>1. Done(w, {n}) /\ syncs' = syncs
    BY <1>2, <1>7 DEF Miss, n
  <2>2. Moves(pending, pending', {w}, {n})
    BY <1>1, <2>1, DoneMoves DEF Typed
  <2>3. Serves(x, syncs'[x], queue', pending')
    <3>1. n \in {n} /\ n \notin Asked(pending, x)
      BY <1>3, <1>5
    <3>2. Asked(pending, x) \subseteq {w} /\ \A e \in Asked(pending, x) : pending[e] = 1
      BY <1>3
    <3>3. \A e \in {n} : Asking(e, x) => e = n
      OBVIOUS
    <3>4. QED
      BY <1>3, <1>5, <2>1, <2>2, <3>1, <3>2, <3>3, ServedByNew
  <2>4. /\ \A e \in {w} \cup {n} : e.kind \in {"ask", "query"} => e.account = x
        /\ \A e \in {w} : e.kind \in {"process", "result"} => e.account = x
        /\ \A e \in {n} : IsItem(e)
    BY <1>5
  <2>5. QED
    BY <1>2, <1>6, <2>1, <2>2, <2>3, <2>4, OneAccountGood
<1>8. CASE ~(w.misses + 1 < MissLimit)
  <2>1. Done(w, {}) /\ syncs' = [syncs EXCEPT ![x] = NoSync]
    BY <1>2, <1>3, <1>8 DEF Miss, Queried
  <2>2. Moves(pending, pending', {w}, {})
    BY <1>1, <2>1, DoneMoves DEF Typed
  <2>3. /\ syncs' \in [Accounts -> SyncInfo \cup {NoSync}] /\ syncs'[x] = NoSync
        /\ \A a \in Accounts : a # x => syncs'[a] = syncs[a]
    BY <1>6, <2>1
  <2>4. Asked(pending', x) = {}
    <3>1. Asked(pending, x) \subseteq {w} /\ \A e \in Asked(pending, x) : pending[e] = 1
      BY <1>3
    <3>2. \A e \in {} : ~Asking(e, x)
      OBVIOUS
    <3>3. QED
      BY <2>2, <3>1, <3>2, NoneAsked
  <2>5. Serves(x, syncs'[x], queue', pending')
    BY <2>3, <2>4 DEF Serves
  <2>6. /\ \A e \in {w} \cup {} : e.kind \in {"ask", "query"} => e.account = x
        /\ \A e \in {w} : e.kind \in {"process", "result"} => e.account = x
        /\ \A e \in {} : IsItem(e)
    OBVIOUS
  <2>7. QED
    BY <1>2, <2>2, <2>3, <2>5, <2>6, OneAccountGood
<1>9. QED
  BY <1>7, <1>8

\* An item that neither queries nor reports is done, with others like it left.
LEMMA AsideGood ==
  ASSUME IInv, NEW w \in DOMAIN pending, NEW new, Done(w, new),
         \A e \in {w} \cup new :
           e.kind \notin {"ask", "query", "process", "result"},
         \A e \in new : e.batch \in Int,
         UNCHANGED <<ledger, queue, syncs, count>>
  PROVE  IInv'
<1>1. Typed(ledger, syncs, pending, count)
  BY DEF IInv, Good
<1>2. Moves(pending, pending', {w}, new)
  BY <1>1, DoneMoves DEF Typed
<1>3. ASSUME NEW a \in Accounts, NEW b \in Blocks, Told(pending, a, b)
      PROVE  Told(pending', a, b)
  BY <1>2, <1>3 DEF Told, Telling, Moves
<1>4. \A e \in new : IsItem(e)
  BY DEF IsItem
<1>5. \A a \in Accounts : \A b \in Blocks :
        /\ AccountOf[b] = a
        /\ b \in queue \/ Told(pending, a, b)
        => \/ syncs[a] = NoSync \/ syncs[a].status # "PROCESS" \/ syncs[a].current # b
           \/ b \in queue' \/ Told(pending', a, b)
  BY <1>3
<1>6. ledger' \in [Accounts -> Seq(Blocks)]
  BY <1>1 DEF Typed
<1>7. \A e \in {w} \cup new : e.kind \notin {"ask", "query"}
  OBVIOUS
<1>8. QED
  BY <1>2, <1>4, <1>5, <1>6, <1>7, OthersGood

\* The steps for related accounts and for sources.
LEMMA SourceGood ==
  ASSUME IInv, NEW x \in Accounts, NEW w \in DOMAIN pending, w.account = x,
         SyncRelated(w) \/ AskSource(w) \/ HashAnswered(w) \/ HashMissed(w)
           \/ FoundSource(w)
  PROVE  IInv'
<1>1. Typed(ledger, syncs, pending, count)
  BY DEF IInv, Good
<1>2. w.kind # "result" => w.batch \in Int
  BY <1>1 DEF Typed, IsItem
<1>3. ASSUME SyncRelated(w) PROVE IInv'
  <2>1. w.kind = "related" /\ UNCHANGED <<ledger, queue, count>>
    BY <1>3 DEF SyncRelated, processor, rounds
  <2>2. CASE SyncAccount(w, w.account, w.batch)
    BY <2>1, <2>2, SyncAccountGood
  <2>3. CASE ~w.sure /\ Done(w, {}) /\ UNCHANGED syncs
    BY <2>1, <2>3, AsideGood
  <2>4. QED
    BY <1>3, <2>2, <2>3 DEF SyncRelated
<1>4. ASSUME AskSource(w) PROVE IInv'
  <2> DEFINE n == [kind |-> "hash", account |-> w.account, block |-> w.block,
                   batch |-> w.batch, misses |-> 0]
  <2>1. w.kind = "source" /\ Done(w, {n}) /\ UNCHANGED <<ledger, queue, syncs, count>>
    BY <1>4 DEF AskSource, processor, rounds
  <2>2. n.kind = "hash" /\ n.batch \in Int
    BY <1>2, <2>1
  <2> HIDE DEF n
  <2>3. /\ \A e \in {w} \cup {n} : e.kind \notin {"ask", "query", "process", "result"}
        /\ \A e \in {n} : e.batch \in Int
    BY <2>1, <2>2
  <2>4. QED
    BY <2>1, <2>3, AsideGood
<1>5. ASSUME HashAnswered(w) PROVE IInv'
  <2> DEFINE n == [kind |-> "found", account |-> w.account, batch |-> w.batch]
  <2>1. w.kind = "hash" /\ Done(w, {n}) /\ UNCHANGED <<ledger, queue, syncs, count>>
    BY <1>5 DEF HashAnswered, processor, rounds
  <2>2. n.kind = "found" /\ n.batch \in Int
    BY <1>2, <2>1
  <2> HIDE DEF n
  <2>3. /\ \A e \in {w} \cup {n} : e.kind \notin {"ask", "query", "process", "result"}
        /\ \A e \in {n} : e.batch \in Int
    BY <2>1, <2>2
  <2>4. QED
    BY <2>1, <2>3, AsideGood
<1>6. ASSUME HashMissed(w) PROVE IInv'
  <2> DEFINE n == [w EXCEPT !.misses = @ + 1]
  <2>1. w.kind = "hash" /\ Miss(w, syncs) /\ UNCHANGED <<ledger, queue, count>>
    BY <1>6 DEF HashMissed, processor, rounds
  <2>2. CASE Done(w, {n}) /\ UNCHANGED syncs
    <3>1. n.kind = "hash" /\ n.batch \in Int
      BY <1>2, <2>1
    <3> HIDE DEF n
    <3>2. /\ \A e \in {w} \cup {n} : e.kind \notin {"ask", "query", "process", "result"}
          /\ \A e \in {n} : e.batch \in Int
      BY <2>1, <3>1
    <3>3. QED
      BY <2>1, <2>2, <3>2, AsideGood
  <2>3. CASE Done(w, {}) /\ UNCHANGED syncs
    BY <2>1, <2>3, AsideGood
  <2>4. QED
    BY <2>1, <2>2, <2>3 DEF Miss
<1>7. ASSUME FoundSource(w) PROVE IInv'
  <2>1. /\ w.kind = "found" /\ UNCHANGED <<ledger, queue, count>>
        /\ SyncAccount(w, w.account, w.batch)
    BY <1>7 DEF FoundSource, processor, rounds
  <2>2. QED
    BY <2>1, SyncAccountGood
<1>8. QED
  BY <1>3, <1>4, <1>5, <1>6, <1>7

\* Results are well-formed items, and say of which block they are.
LEMMA ResultTyped ==
  ASSUME NEW b, NEW code
  PROVE  /\ IsItem(Result(b, code)) /\ Result(b, code).kind = "result"
         /\ Telling(Result(b, code), AccountOf[b], b)
BY DEF Result, IsItem, Telling

\* Reports of drops are results.
LEMMA DropsTyped ==
  ASSUME NEW bs
  PROVE  \A e \in Drops(bs) : IsItem(e) /\ e.kind = "result"
BY ResultTyped DEF Drops

\* The rest of QueryCallback: the block that was to be processed is queued.
LEMMA AddBlockGood ==
  ASSUME IInv, NEW w \in DOMAIN pending, AddBlock(w)
  PROVE  IInv'
<1>1. Typed(ledger, syncs, pending, count)
  BY DEF IInv, Good
<1>2. /\ w.kind = "process" /\ queue' = queue \cup {w.block}
      /\ Done(w, Drops({w.block})) /\ UNCHANGED <<ledger, syncs, count>>
  BY DEF AddBlock, rounds
<1>3. Moves(pending, pending', {w}, Drops({w.block}))
  BY <1>1, <1>2, DoneMoves DEF Typed
<1>4. ASSUME NEW a \in Accounts, NEW b \in Blocks, b \in queue \/ Told(pending, a, b)
      PROVE  b \in queue' \/ Told(pending', a, b)
  <2>1. CASE b = w.block \/ b \in queue
    BY <1>2, <2>1
  <2>2. CASE b # w.block /\ Told(pending, a, b)
    BY <1>3, <2>2 DEF Told, Telling, Moves
  <2>3. QED
    BY <1>4, <2>1, <2>2
<1>5. \A e \in {w} \cup Drops({w.block}) : e.kind \notin {"ask", "query"}
  BY <1>2, DropsTyped
<1>6. \A e \in Drops({w.block}) : IsItem(e)
  BY DropsTyped
<1>7. ledger' \in [Accounts -> Seq(Blocks)]
  BY <1>1, <1>2 DEF Typed
<1>8. QED
  BY <1>2, <1>3, <1>4, <1>5, <1>6, <1>7, OthersGood

\* A step of the processor: blocks leave the queue with a result.
LEMMA ProcessedGood ==
  ASSUME IInv, NEW new, Post(new), \A e \in new : IsItem(e) /\ e.kind = "result",
         \A b \in queue \ queue' : \E code : Result(b, code) \in new,
         ledger' \in [Accounts -> Seq(Blocks)], UNCHANGED <<syncs, count>>
  PROVE  IInv'
<1>1. Typed(ledger, syncs, pending, count)
  BY DEF IInv, Good
<1>2. Moves(pending, pending', {}, new)
  BY <1>1, PostMoves DEF Typed
<1>3. ASSUME NEW a \in Accounts, NEW b \in Blocks, AccountOf[b] = a,
             b \in queue \/ Told(pending, a, b)
      PROVE  b \in queue' \/ Told(pending', a, b)
  <2>1. CASE b \in queue'
    BY <2>1
  <2>2. CASE b \in queue \ queue'
    <3>1. PICK code : Result(b, code) \in new
      BY <2>2
    <3>2. Result(b, code) \in DOMAIN pending'
      BY <1>2, <3>1 DEF Moves
    <3>3. QED
      BY <1>3, <3>2, ResultTyped DEF Told
  <2>3. CASE Told(pending, a, b)
    BY <1>2, <2>3 DEF Told, Moves
  <2>4. QED
    BY <1>3, <2>1, <2>2, <2>3
<1>4. /\ \A e \in {} \cup new : e.kind \notin {"ask", "query"}
      /\ \A e \in new : IsItem(e)
  OBVIOUS
<1>5. QED
  BY <1>2, <1>3, <1>4, OthersGood

\* Blocks that come from elsewhere, are dropped, processed, or decided about.
LEMMA ProcessorGood ==
  ASSUME IInv, NEW b \in Blocks,
         ReceiveBlock(b) \/ DropBlock(b) \/ ProcessBlock(b) \/ Verdict(b)
  PROVE  IInv'
<1>1. Typed(ledger, syncs, pending, count) /\ ledger \in [Accounts -> Seq(Blocks)]
  BY DEF IInv, Good, Typed
<1>2. ASSUME ReceiveBlock(b) PROVE IInv'
  <2>1. /\ queue' = queue \cup {b} /\ Post(Drops({b}))
        /\ UNCHANGED <<ledger, syncs, count>>
    BY <1>2 DEF ReceiveBlock, rounds
  <2>2. QED
    BY <1>1, <2>1, DropsTyped, ProcessedGood
<1>3. ASSUME DropBlock(b) PROVE IInv'
  <2>1. /\ queue' = queue \ {b} /\ Post({Result(b, "DROP")})
        /\ UNCHANGED <<ledger, syncs, count>>
    BY <1>3 DEF DropBlock, rounds
  <2>2. QED
    BY <1>1, <2>1, ResultTyped, ProcessedGood, ZenonT(60)
<1>4. ASSUME ProcessBlock(b) PROVE IInv'
  <2> DEFINE code == AppendCode(b)
             awake == IF code # "SUCCESS" THEN {} ELSE {g \in gaps : Source[g] = b}
             new == {Result(b, code)} \cup Drops(awake)
  <2>1. /\ queue' = (queue \ {b}) \cup awake /\ Post(new) /\ UNCHANGED <<syncs, count>>
        /\ ledger' = IF code # "SUCCESS" THEN ledger
                     ELSE [ledger EXCEPT ![AccountOf[b]] = Append(@, b)]
    BY <1>4 DEF ProcessBlock, rounds
  <2> HIDE DEF code, awake
  <2>2. ledger' \in [Accounts -> Seq(Blocks)]
    <3>1. AccountOf[b] \in Accounts
      BY SyncerAssumption
    <3>2. Append(ledger[AccountOf[b]], b) \in Seq(Blocks)
      BY <1>1, <3>1, AppendProperties
    <3>3. QED
      BY <1>1, <2>1, <3>2
  <2>3. \A e \in new : IsItem(e) /\ e.kind = "result"
    BY DropsTyped, ResultTyped
  <2>4. \A c \in queue \ queue' : \E d : Result(c, d) \in new
    BY <2>1
  <2> HIDE DEF new
  <2>5. QED
    BY <2>1, <2>2, <2>3, <2>4, ProcessedGood
<1>5. ASSUME Verdict(b) PROVE IInv'
  <2> DEFINE a == AccountOf[b]
             h == Height[b]
             c == Canonical[a][h + 1]
  <2>1. /\ UNCHANGED <<queue, syncs, count>>
        /\ \/ Post({Result(c, "EXISTS")}) /\ UNCHANGED ledger
           \/ /\ ledger' = [ledger EXCEPT ![a] = SubSeq(Canonical[a], 1, h + 1)]
              /\ Post({Result(c, "CONTINUE"), Result(c, "SUCCESS")})
    BY <1>5 DEF Verdict, rounds
  <2>2. SubSeq(Canonical[a], 1, h + 1) \in Seq(Blocks)
    <3>1. a \in Accounts /\ h \in Nat /\ h < Len(Canonical[a])
      BY SyncerAssumption
    <3>2. Canonical[a] \in Seq(Blocks)
      BY <3>1, SyncerAssumption
    <3>3. Len(Canonical[a]) \in Nat /\ DOMAIN Canonical[a] = 1..Len(Canonical[a])
      BY <3>2, LenProperties
    <3> HIDE DEF a, h
    <3>4. \A i \in 1..(h + 1) : Canonical[a][i] \in Blocks
      BY <3>1, <3>2, <3>3
    <3>5. 1 \in Int /\ h + 1 \in Int
      BY <3>1
    <3>6. QED
      BY <3>4, <3>5, SubSeqProperties
  <2>3. ledger' \in [Accounts -> Seq(Blocks)]
    BY <1>1, <2>1, <2>2
  <2> HIDE DEF a, h, c
  <2>4. CASE Post({Result(c, "EXISTS")})
    BY <2>1, <2>3, <2>4, ResultTyped, ProcessedGood
  <2>5. CASE Post({Result(c, "CONTINUE"), Result(c, "SUCCESS")})
    <3>1. \A e \in {Result(c, "CONTINUE"), Result(c, "SUCCESS")} :
            IsItem(e) /\ e.kind = "result"
      BY ResultTyped
    <3>2. QED
      BY <2>1, <2>3, <2>5, <3>1, ProcessedGood
  <2>6. QED
    BY <2>1, <2>4, <2>5
<1>6. QED
  BY <1>2, <1>3, <1>4, <1>5

\* ProcessorCallback: a result the account does not wait for changes nothing;
\* the one it waits for makes it query again, or ends the synchronisation.
LEMMA ProcessorCallbackGood ==
  ASSUME IInv, NEW x \in Accounts, NEW w \in DOMAIN pending, w.account = x,
         ProcessorCallback(w)
  PROVE  IInv'
<1> DEFINE i == syncs[x]
           b == w.block
           asks(h, previous, block) == {Ask(x, h, previous, i.batch, block)}
           source == [kind |-> "source", account |-> AccountOf[Source[b]],
                      block |-> Source[b], batch |-> i.batch]
           awaited == i # NoSync /\ i.status = "PROCESS" /\ i.current = b
<1>1. /\ Typed(ledger, syncs, pending, count) /\ IsABag(pending)
      /\ syncs \in [Accounts -> SyncInfo \cup {NoSync}]
      /\ Serves(x, i, queue, pending)
  BY DEF IInv, Good, Typed
<1>2. w.kind = "result" /\ UNCHANGED <<ledger, queue, count>>
  BY DEF ProcessorCallback, processor, rounds
<1>3. CASE ~awaited
  <2>1. Done(w, {}) /\ syncs' = syncs
    BY <1>3 DEF ProcessorCallback
  <2>2. Moves(pending, pending', {w}, {})
    BY <1>1, <2>1, DoneMoves
  <2>3. ASSUME NEW a \in Accounts, NEW c \in Blocks, AccountOf[c] = a,
               c \in queue \/ Told(pending, a, c)
        PROVE  \/ syncs[a] = NoSync \/ syncs[a].status # "PROCESS"
               \/ syncs[a].current # c \/ c \in queue' \/ Told(pending', a, c)
    <3>1. CASE c \in queue
      BY <1>2, <3>1
    <3>2. CASE a = x /\ c = b
      BY <1>3, <3>2
    <3>3. CASE ~(a = x /\ c = b) /\ Told(pending, a, c)
      <4>1. PICK e \in DOMAIN pending : Telling(e, a, c)
        BY <3>3 DEF Told
      <4>2. e # w
        BY <3>3, <4>1 DEF Telling
      <4>3. QED
        BY <2>2, <4>1, <4>2 DEF Moves, Told
    <3>4. QED
      BY <2>3, <3>1, <3>2, <3>3
  <2>4. /\ \A e \in {w} \cup {} : e.kind \notin {"ask", "query"}
        /\ \A e \in {} : IsItem(e)
    BY <1>2
  <2>5. ledger' \in [Accounts -> Seq(Blocks)]
    BY <1>1, <1>2 DEF Typed
  <2> HIDE DEF awaited, i
  <2>6. QED
    BY <1>2, <2>1, <2>2, <2>3, <2>4, <2>5, OthersGood
<1>4. CASE awaited
  <2>1. /\ i \in SyncInfo /\ Asked(pending, x) = {}
        /\ b \in Blocks /\ AccountOf[b] = x /\ Height[b] = i.height
    BY <1>1, <1>4 DEF Serves
  <2>2. /\ i.height \in Nat /\ i.previous \in Links /\ i.batch \in Int
        /\ b \in Links /\ NoBlock \in Links
        /\ Height[b] + 1 \in Nat
    BY <2>1 DEF SyncInfo, Links
  <2>3. ASSUME NEW h \in Nat, NEW previous \in Links, NEW block \in Links,
               Done(w, asks(h, previous, block)),
               syncs' = [syncs EXCEPT ![x].status = "QUERY", ![x].current = NoBlock,
                                      ![x].height = h, ![x].previous = previous]
        PROVE  IInv'
    <3> DEFINE n == Ask(x, h, previous, i.batch, block)
    <3>1. Moves(pending, pending', {w}, {n})
      BY <1>1, <2>3, DoneMoves
    <3>2. /\ IsItem(n) /\ Asking(n, x) /\ n.height = h /\ n.previous = previous
          /\ n.batch = i.batch /\ n.account = x
      BY <2>2, AskTyped
    <3>3. /\ syncs' \in [Accounts -> SyncInfo \cup {NoSync}]
          /\ \A a \in Accounts : a # x => syncs'[a] = syncs[a]
          /\ syncs'[x] \in SyncInfo /\ syncs'[x].status = "QUERY"
          /\ syncs'[x].height = h /\ syncs'[x].previous = previous
          /\ syncs'[x].batch = i.batch
      BY <1>1, <2>1, <2>3 DEF SyncInfo, Links
    <3>4. syncs'[x] # NoSync
      BY <3>3, NoSyncAssumption
    <3> HIDE DEF n
    <3>5. Serves(x, syncs'[x], queue', pending')
      <4>1. /\ Asked(pending, x) \subseteq {w}
            /\ \A e \in Asked(pending, x) : pending[e] = 1
            /\ n \in {n} /\ n \notin Asked(pending, x)
            /\ \A e \in {n} : Asking(e, x) => e = n
        BY <2>1
      <4>2. QED
        BY <3>1, <3>2, <3>3, <3>4, <4>1, ServedByNew
    <3>6. /\ \A e \in {w} \cup {n} : e.kind \in {"ask", "query"} => e.account = x
          /\ \A e \in {w} : e.kind \in {"process", "result"} => e.account = x
          /\ \A e \in {n} : IsItem(e)
      BY <3>2
    <3>7. QED
      BY <1>2, <3>1, <3>3, <3>5, <3>6, OneAccountGood
  <2>4. ASSUME NEW new, Done(w, new), syncs' = [syncs EXCEPT ![x] = NoSync],
               \A e \in new : e.kind \notin {"ask", "query"} /\ IsItem(e)
        PROVE  IInv'
    <3>1. Moves(pending, pending', {w}, new)
      BY <1>1, <2>4, DoneMoves
    <3>2. /\ syncs' \in [Accounts -> SyncInfo \cup {NoSync}] /\ syncs'[x] = NoSync
          /\ \A a \in Accounts : a # x => syncs'[a] = syncs[a]
      BY <1>1, <2>4
    <3>3. Asked(pending', x) = {}
      <4>1. /\ Asked(pending, x) \subseteq {w}
            /\ \A e \in Asked(pending, x) : pending[e] = 1
            /\ \A e \in new : ~Asking(e, x)
        BY <2>1, <2>4 DEF Asking
      <4>2. QED
        BY <3>1, <4>1, NoneAsked
    <3>4. Serves(x, syncs'[x], queue', pending')
      BY <3>2, <3>3 DEF Serves
    <3>5. /\ \A e \in {w} \cup new : e.kind \in {"ask", "query"} => e.account = x
          /\ \A e \in {w} : e.kind \in {"process", "result"} => e.account = x
          /\ \A e \in new : IsItem(e)
      BY <2>4
    <3>6. QED
      BY <1>2, <3>1, <3>2, <3>4, <3>5, OneAccountGood
  <2>5. \/ /\ syncs' = [syncs EXCEPT ![x].status = "QUERY", ![x].current = NoBlock]
           /\ Done(w, asks(i.height, i.previous, NoBlock))
        \/ /\ syncs' = [syncs EXCEPT ![x].status = "QUERY", ![x].current = NoBlock,
                                     ![x].height = Height[b] + 1, ![x].previous = b]
           /\ Done(w, asks(Height[b] + 1, b, b))
        \/ syncs' = [syncs EXCEPT ![x] = NoSync] /\ Done(w, {source})
        \/ syncs' = [syncs EXCEPT ![x] = NoSync] /\ Done(w, {})
    BY <1>4, Zenon DEF ProcessorCallback
  <2>6. CASE /\ syncs' = [syncs EXCEPT ![x].status = "QUERY", ![x].current = NoBlock]
             /\ Done(w, asks(i.height, i.previous, NoBlock))
    <3>1. syncs' = [syncs EXCEPT ![x].status = "QUERY", ![x].current = NoBlock,
                                 ![x].height = i.height, ![x].previous = i.previous]
      BY <1>1, <2>1, <2>6 DEF SyncInfo
    <3>2. QED
      BY <2>2, <2>3, <2>6, <3>1
  <2>7. CASE /\ syncs' = [syncs EXCEPT ![x].status = "QUERY", ![x].current = NoBlock,
                                       ![x].height = Height[b] + 1, ![x].previous = b]
             /\ Done(w, asks(Height[b] + 1, b, b))
    BY <2>2, <2>3, <2>7
  <2>8. CASE syncs' = [syncs EXCEPT ![x] = NoSync] /\ Done(w, {source})
    <3>1. source.kind = "source" /\ IsItem(source)
      BY <2>2 DEF IsItem
    <3> HIDE DEF source
    <3>2. \A e \in {source} : e.kind \notin {"ask", "query"} /\ IsItem(e)
      BY <3>1
    <3>3. QED
      BY <2>4, <2>8, <3>2
  <2>9. CASE syncs' = [syncs EXCEPT ![x] = NoSync] /\ Done(w, {})
    BY <2>4, <2>9
  <2>10. QED
    BY <2>5, <2>6, <2>7, <2>8, <2>9
<1>5. QED
  BY <1>3, <1>4

\* AgeGapCaches and StartSync_ add synchronisations, or do nothing to them.
LEMMA StartGood ==
  ASSUME IInv,
         (\E b \in Blocks : AgeGapCaches(b)) \/ (\E a \in Accounts : StartSync(a))
  PROVE  IInv'
<1>1. /\ Typed(ledger, syncs, pending, count) /\ IsABag(pending)
      /\ ledger \in [Accounts -> Seq(Blocks)] /\ count \in Nat
  BY DEF IInv, Good, Typed
<1>2. ASSUME UNCHANGED <<ledger, syncs, queue, pending, count>> PROVE IInv'
  BY <1>2 DEF IInv
<1>3. ASSUME NEW a \in Accounts, NEW h \in Nat, NEW prev \in Links, NEW batch \in Int,
             syncs' = SyncsWith(a, h, prev, batch), Post(AsksWith(a, h, prev, batch)),
             UNCHANGED <<ledger, queue, count>>
      PROVE  IInv'
  <2>1. Moves(pending, pending', {}, AsksWith(a, h, prev, batch))
    BY <1>1, <1>3, PostMoves
  <2>2. QED
    BY <1>3, <2>1, AddGood
<1>4. ASSUME NEW b \in Blocks, AgeGapCaches(b) PROVE IInv'
  <2> DEFINE a == AccountOf[b]
  <2>1. a \in Accounts
    BY SyncerAssumption
  <2>2. HeadHeight(a) + 1 \in Nat /\ HeadOf(a) \in Links
    BY <1>1, <2>1, HeadTyped
  <2>3. DEFAULT_BATCH_ID \in Int
    BY DEF DEFAULT_BATCH_ID
  <2>4. UNCHANGED <<ledger, queue, count>>
    BY <1>4 DEF AgeGapCaches, rounds
  <2>5. CASE running
    <3>1. /\ syncs' = SyncsWith(a, HeadHeight(a) + 1, HeadOf(a), DEFAULT_BATCH_ID)
          /\ Post(AsksWith(a, HeadHeight(a) + 1, HeadOf(a), DEFAULT_BATCH_ID))
      BY <1>4, <2>5 DEF AgeGapCaches
    <3> HIDE DEF a
    <3>2. QED
      BY <1>3, <2>1, <2>2, <2>3, <2>4, <3>1
  <2>6. CASE ~running
    BY <1>2, <1>4, <2>4, <2>6 DEF AgeGapCaches
  <2>7. QED
    BY <2>5, <2>6
<1>5. ASSUME NEW a \in Accounts, StartSync(a) PROVE IInv'
  <2> DEFINE c == Canonical[a]
             add(h, previous) == /\ syncs' = SyncsWith(a, h, previous, count)
                                 /\ Post(AsksWith(a, h, previous, count))
  <2>1. UNCHANGED <<ledger, queue, count>>
    BY <1>5 DEF StartSync, processor
  <2>2. \/ add(HeadHeight(a) + 1, HeadOf(a))
        \/ UNCHANGED <<syncs, pending>>
        \/ HeadHeight(a) >= Len(c) - 1 /\ add(Len(c), ledger[a][Len(c)])
    BY <1>5 DEF StartSync
  <2>3. HeadHeight(a) + 1 \in Nat /\ HeadOf(a) \in Links /\ count \in Int
    BY <1>1, HeadTyped
  <2>4. CASE add(HeadHeight(a) + 1, HeadOf(a))
    BY <1>3, <2>1, <2>3, <2>4
  <2>5. CASE UNCHANGED <<syncs, pending>>
    BY <1>2, <2>1, <2>5
  <2>6. CASE HeadHeight(a) >= Len(c) - 1 /\ add(Len(c), ledger[a][Len(c)])
    <3>1. c \in Seq(Blocks) /\ c # <<>>
      BY SyncerAssumption
    <3>2. Len(c) \in Nat /\ Len(c) > 0
      BY <3>1, LenProperties, EmptySeq
    <3>3. ledger[a] \in Seq(Blocks) /\ Len(ledger[a]) \in Nat
      BY <1>1, LenProperties
    <3>4. Len(ledger[a]) - 1 >= Len(c) - 1
      BY <2>6 DEF HeadHeight
    <3> HIDE DEF c
    <3>5. Len(c) \in 1..Len(ledger[a])
      BY <3>2, <3>3, <3>4
    <3>6. ledger[a][Len(c)] \in Links
      BY <3>3, <3>5, ElementOfSeq DEF Links
    <3>7. QED
      BY <1>3, <2>1, <2>3, <2>6, <3>2, <3>6
  <2>7. QED
    BY <2>2, <2>4, <2>5, <2>6
<1>6. QED
  BY <1>4, <1>5

-----------------------------------------------------------------------------

\* Every step keeps the synchronisations served.
LEMMA NextGood ==
  ASSUME IInv, [Next]_vars
  PROVE  IInv'
<1>1. Typed(ledger, syncs, pending, count)
  BY DEF IInv, Good
<1>2. ASSUME NEW a \in Accounts, Missed(a) PROVE IInv'
  <2>1. PICK w \in DOMAIN pending : w.account = a /\ (QueryMissed(w) \/ HashMissed(w))
    BY <1>2 DEF Missed, Items, BagToSet
  <2>2. QED
    BY <2>1, QueryMissedGood, SourceGood
<1>3. ASSUME NEW a \in Accounts, NEW k \in Kinds, Work(k, a) PROVE IInv'
  <2>1. PICK w \in DOMAIN pending :
          /\ w.account = a
          /\ \/ AskAccount(w) \/ AskSource(w) \/ SyncRelated(w) \/ FoundSource(w)
             \/ QueryAnswered(w) \/ HashAnswered(w) \/ AddBlock(w)
             \/ ProcessorCallback(w)
    BY <1>3 DEF Work, Items, BagToSet
  <2>2. QED
    BY <2>1, AskAccountGood, SourceGood, QueryAnsweredGood, AddBlockGood,
       ProcessorCallbackGood
<1>4. ASSUME NEW b \in Blocks,
             ProcessBlock(b) \/ DropBlock(b) \/ Verdict(b) \/ AgeGapCaches(b)
      PROVE  IInv'
  BY <1>4, ProcessorGood, StartGood
<1>5. ASSUME NEW b \in Published, ReceiveBlock(b) PROVE IInv'
  BY <1>5, ProcessorGood, SyncerAssumption
<1>6. ASSUME EndRound \/ Wait \/ FailRound \/ UNCHANGED vars PROVE IInv'
  <2>1. UNCHANGED <<ledger, syncs, queue, pending>>
    BY <1>6 DEF EndRound, Wait, FailRound, vars, processor, rounds
  <2>2. count' \in Nat
    BY <1>1, <1>6, SyncerAssumption
    DEF EndRound, Wait, FailRound, vars, rounds, Typed
  <2>3. QED
    BY <2>1, <2>2 DEF IInv, Good, Typed
<1>7. QED
  BY <1>2, <1>3, <1>4, <1>5, <1>6, StartGood DEF Next, Round

\* In the beginning nothing is synchronised and nothing is pending.
LEMMA InitGood == Init => IInv
<1> SUFFICES ASSUME Init PROVE IInv
  OBVIOUS
<1>1. pending = [e \in {} |-> 1]
  BY DEF Init, EmptyBag, SetToBag
<1>2. IsABag(pending) /\ DOMAIN pending = {}
  BY <1>1 DEF IsABag
<1>3. Typed(ledger, syncs, pending, count)
  BY <1>2, SyncerAssumption DEF Init, Typed
<1>4. \A a \in Accounts : Serves(a, syncs[a], queue, pending)
  BY <1>2 DEF Init, Serves, Asked
<1>5. QED
  BY <1>3, <1>4 DEF IInv, Good

\* A synchronisation that is served has one query or will be told.
LEMMA GoodServed == IInv => SyncsServed
<1> SUFFICES ASSUME IInv, NEW a \in Accounts
             PROVE  LET asked == {w \in Items({"ask", "query"}) : w.account = a}
                        info == syncs[a]
                    IN  CASE info = NoSync -> asked = {}
                          [] info # NoSync ->
                               IF info.status = "QUERY"
                                 THEN /\ Cardinality(asked) = 1
                                      /\ \A w \in asked :
                                           /\ pending[w] = 1
                                           /\ w.height = info.height
                                           /\ w.previous = info.previous
                                 ELSE /\ asked = {}
                                      /\ Height[info.current] = info.height
                                      /\ \/ info.current \in queue
                                         \/ \E w \in Items({"process", "result"}) :
                                              w.account = a /\ w.block = info.current
  BY DEF SyncsServed
<1> DEFINE asked == {w \in Items({"ask", "query"}) : w.account = a}
           info == syncs[a]
<1>1. Serves(a, info, queue, pending) /\ info \in SyncInfo \cup {NoSync}
  BY DEF IInv, Good, Typed
<1>2. asked = Asked(pending, a)
  BY DEF Items, Asked, Asking, BagToSet
<1>3. \A b : Told(pending, a, b) =>
        \E w \in Items({"process", "result"}) : w.account = a /\ w.block = b
  BY DEF Told, Telling, Items, BagToSet
<1> HIDE DEF asked, info
<1>4. CASE info = NoSync
  BY <1>1, <1>2, <1>4 DEF Serves, asked, info
<1>5. CASE info # NoSync /\ info.status = "QUERY"
  <2>1. PICK w \in DOMAIN pending :
          /\ Asked(pending, a) = {w} /\ pending[w] = 1
          /\ w.height = info.height /\ w.previous = info.previous
    BY <1>1, <1>5 DEF Serves
  <2>2. Cardinality({w}) = 1
    BY FS_Singleton
  <2>3. /\ Cardinality(asked) = 1
        /\ \A u \in asked : /\ pending[u] = 1 /\ u.height = info.height
                            /\ u.previous = info.previous
    BY <1>2, <2>1, <2>2
  <2>4. QED
    BY <1>5, <2>3 DEF asked, info
<1>6. CASE info # NoSync /\ info.status = "PROCESS"
  <2>1. /\ asked = {} /\ Height[info.current] = info.height
        /\ \/ info.current \in queue
           \/ \E w \in Items({"process", "result"}) :
                w.account = a /\ w.block = info.current
    BY <1>1, <1>2, <1>3, <1>6 DEF Serves
  <2>2. info.status # "QUERY"
    BY <1>6
  <2>3. QED
    BY <1>6, <2>1, <2>2 DEF asked, info
<1>7. QED
  BY <1>1, <1>4, <1>5, <1>6 DEF SyncInfo

\* A thread that queries for an account does so for its synchronisation, and in
\* the same batch.
LEMMA GoodOpen == IInv => BatchStaysOpen
<1> SUFFICES ASSUME IInv, NEW n \in 0..count, Finished(n),
                    NEW w \in Items(Kinds \ {"source", "related", "result"})
             PROVE  w.batch # n
  BY DEF BatchStaysOpen, Finished
<1>1. w \in DOMAIN pending /\ w.kind \in {"ask", "query", "process", "hash", "found"}
  BY DEF Items, Kinds, BagToSet
<1>2. CASE w.kind # "ask"
  BY <1>1, <1>2 DEF Finished, Items, BagToSet
<1>3. CASE w.kind = "ask"
  <2>1. w \in AskItem
    BY <1>1, <1>3 DEF IInv, Good, Typed, IsItem, AskItem, QueryItem
  <2>2. w.account \in Accounts
    BY <2>1 DEF AskItem
  <2>3. syncs[w.account] # NoSync /\ w.batch = syncs[w.account].batch
    BY <1>1, <1>3, <2>2, AskingOnly DEF Asking
  <2>4. QED
    BY <2>2, <2>3 DEF Finished
<1>4. QED
  BY <1>2, <1>3

\* Every synchronisation has exactly one query, or will be told about the block
\* it waits for, which is the one for the height it asked for.
THEOREM SyncerServed == Spec => []SyncsServed
<1>1. Init => IInv
  BY InitGood
<1>2. IInv /\ [Next]_vars => IInv'
  BY NextGood
<1>3. IInv => SyncsServed
  BY GoodServed
<1>4. QED
  BY <1>1, <1>2, <1>3, PTL DEF Spec

\* A batch is not finished while a synchronisation, a query or an answer of it
\* is under way.
THEOREM SyncerBatches == Spec => []BatchStaysOpen
<1>1. Init => IInv
  BY InitGood
<1>2. IInv /\ [Next]_vars => IInv'
  BY NextGood
<1>3. IInv => BatchStaysOpen
  BY GoodOpen
<1>4. QED
  BY <1>1, <1>2, <1>3, PTL DEF Spec

=============================================================================
