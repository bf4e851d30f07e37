------------------------------ MODULE AppProofs ------------------------------
(***************************************************************************)
(* What the application holds for confirmed is what the node has confirmed,*)
(* and stays: for any accounts, blocks, forks, rollbacks and restarts.     *)
(***************************************************************************)
EXTENDS App, FiniteSetTheorems, SequenceTheorems, WellFoundedInduction, TLAPS

\* The chain c of account a: every block names the one before it.
IsChain(c, a) ==
  \A i \in 1..Len(c) :
    /\ AccountOf[c[i]] = a
    /\ Height[c[i]] = i - 1
    /\ Previous[c[i]] = IF i = 1 THEN NoBlock ELSE c[i - 1]

\* Chains c of which the first n[a] blocks are confirmed.
Grown(c, n) ==
  /\ c \in [Accounts -> Seq(Blocks)] /\ n \in [Accounts -> Nat]
  /\ \A a \in Accounts : IsChain(c[a], a) /\ n[a] <= Len(c[a])

\* The first n[a] blocks are those of the chains N, and confirmed there.
Agrees(N, F, c, n) ==
  \A a \in Accounts : n[a] <= F[a] /\ \A i \in 1..n[a] : c[a][i] = N[a][i]

\* The node, with chains N and confirmed lengths F, has confirmed block b.
Sure(N, F, b) ==
  Height[b] < F[AccountOf[b]] /\ N[AccountOf[b]][Height[b] + 1] = b

\* Actions, notifications and waiting blocks that claim what is true.
Acts(N, F) ==
  {x \in [kind : {"block", "rollback"}, block : Blocks, confirmed : BOOLEAN] :
     x.confirmed => Sure(N, F, x.block)}
Notes(N, F) ==
  {m \in [kind : {"block_append", "block_rollback", "block_confirm"}, block : Blocks] :
     m.kind = "block_confirm" => Sure(N, F, m.block)}
Waits(N, F) ==
  {w \in [for : Accounts \X Nat, block : Blocks, confirmed : BOOLEAN] :
     w.confirmed => Sure(N, F, w.block)}

\* What the application knows of the node is true.
Informed(N, F, nw, ac, wa, ca, pe) ==
  /\ nw \subseteq Notes(N, F)
  /\ ac \in [Priorities -> Seq(Acts(N, F))]
  /\ wa \subseteq Waits(N, F) /\ IsFiniteSet(wa)
  /\ ca \subseteq Blocks
  /\ pe \in [Accounts -> Nat \cup {None}]

IInv ==
  /\ Grown(nodeChain, nodeConfirmed) /\ Grown(chain, confirmed)
  /\ Agrees(nodeChain, nodeConfirmed, chain, confirmed)
  /\ Informed(nodeChain, nodeConfirmed, network, actions, waiting, cache, pendings)

\* A step takes back nothing that is confirmed.
Kept(c, n, d, m) ==
  \A a \in Accounts : n[a] <= m[a] /\ \A i \in 1..n[a] : d[a][i] = c[a][i]

-----------------------------------------------------------------------------
(* Sequences and chains.                                                   *)

\* A function on 1..n is a sequence.
LEMMA FunctionSeq ==
  ASSUME NEW S, NEW n \in Nat, NEW f \in [1..n -> S]
  PROVE  f \in Seq(S) /\ Len(f) = n
OBVIOUS

\* A sequence over a set is one over every larger set.
LEMMA SeqMonotone ==
  ASSUME NEW S, NEW T, S \subseteq T, NEW s \in Seq(S)
  PROVE  s \in Seq(T)
<1>1. Len(s) \in Nat /\ s \in [1..Len(s) -> S]
  BY LenProperties
<1>2. s \in [1..Len(s) -> T]
  BY <1>1
<1>3. QED
  BY <1>1, <1>2, FunctionSeq

\* What a prefix is, by elements.
LEMMA PrefixOf ==
  ASSUME NEW S, NEW s \in Seq(S), NEW t \in Seq(S), NEW m \in Nat, NEW n \in Nat,
         m <= Len(s), n <= Len(t), m <= n, \A i \in 1..m : s[i] = t[i]
  PROVE  IsPrefix(SubSeq(s, 1, m), SubSeq(t, 1, n))
<1> DEFINE p == SubSeq(s, 1, m)
           q == SubSeq(t, 1, n)
<1>1. /\ Len(s) \in Nat /\ s \in [1..Len(s) -> S]
      /\ Len(t) \in Nat /\ t \in [1..Len(t) -> S]
  BY LenProperties
<1>2. 1 \in Int /\ m \in Int /\ n \in Int
  OBVIOUS
<1>3. \A i \in 1..m : s[i] \in S
  BY <1>1
<1>4. \A i \in 1..n : t[i] \in S
  BY <1>1
<1>5. p \in Seq(S) /\ Len(p) = m /\ \A i \in 1..m : p[i] = s[i]
  <2>1. /\ p \in Seq(S) /\ Len(p) = IF 1 <= m THEN m - 1 + 1 ELSE 0
        /\ \A i \in 1..(m - 1 + 1) : p[i] = s[1 + i - 1]
    BY <1>2, <1>3, SubSeqProperties
  <2> HIDE DEF p
  <2>2. QED
    BY <2>1
<1>6. q \in Seq(S) /\ Len(q) = n /\ \A i \in 1..n : q[i] = t[i]
  <2>1. /\ q \in Seq(S) /\ Len(q) = IF 1 <= n THEN n - 1 + 1 ELSE 0
        /\ \A i \in 1..(n - 1 + 1) : q[i] = t[1 + i - 1]
    BY <1>2, <1>4, SubSeqProperties
  <2> HIDE DEF q
  <2>2. QED
    BY <2>1
<1> HIDE DEF p, q
<1>7. SubSeq(p, 1, m) = SubSeq(q, 1, m)
  <2>1. SubSeq(p, 1, m) = [i \in 1..m |-> p[i]]
    BY <1>5
  <2>2. SubSeq(q, 1, m) = [i \in 1..m |-> q[i]]
    BY <1>6
  <2>3. \A i \in 1..m : p[i] = q[i]
    BY <1>5, <1>6
  <2>4. QED
    BY <2>1, <2>2, <2>3
<1>8. QED
  BY <1>5, <1>6, <1>7 DEF IsPrefix, p, q

\* Every nonempty set of naturals has a least element.
LEMMA LeastNat ==
  ASSUME NEW T, T \subseteq Nat, T # {}
  PROVE  \E x \in T : \A y \in T : x <= y
<1> DEFINE R == OpToRel(<, Nat)
<1>1. PICK x \in T : \A y \in T : <<y, x>> \notin R
  <2>1. IsWellFoundedOn(R, Nat)
    BY NatLessThanWellFounded
  <2> HIDE DEF R
  <2>2. QED
    BY <2>1, WFMin
<1>2. ASSUME NEW y \in T
      PROVE  x <= y
  <2>1. y \in Nat /\ x \in Nat
    BY <1>1
  <2>2. y < x => <<y, x>> \in R
    BY <2>1 DEF OpToRel
  <2> HIDE DEF R
  <2>3. ~(y < x)
    BY <1>1, <2>2
  <2>4. QED
    BY <2>1, <2>3
<1>3. QED
  BY <1>1, <1>2

\* Two chains of an account that share a block share all blocks before it.
LEMMA ChainsAgree ==
  ASSUME NEW a, NEW c \in Seq(Blocks), NEW d \in Seq(Blocks),
         IsChain(c, a), IsChain(d, a),
         NEW k \in Nat, k <= Len(c), k <= Len(d), k > 0 => c[k] = d[k]
  PROVE  \A i \in 1..k : c[i] = d[i]
<1> DEFINE T == {j \in Nat : j < k /\ c[k - j] # d[k - j]}
<1>1. Len(c) \in Nat /\ Len(d) \in Nat
  BY LenProperties
<1>2. T = {}
  <2>1. SUFFICES ASSUME T # {} PROVE FALSE
    OBVIOUS
  <2>2. PICK x \in T : \A y \in T : x <= y
    BY <2>1, LeastNat
  <2>3. x # 0
    BY <2>2
  <2>4. x \in Nat /\ x < k /\ x - 1 \in Nat /\ x - 1 < k /\ ~(x <= x - 1)
    BY <2>2, <2>3
  <2>5. c[k - (x - 1)] = d[k - (x - 1)]
    <3>1. x - 1 \notin T
      <4> HIDE DEF T
      <4>1. QED
        BY <2>2, <2>4
    <3>2. QED
      BY <3>1, <2>4
  <2>6. /\ k - (x - 1) \in 1..Len(c) /\ k - (x - 1) \in 1..Len(d)
        /\ k - (x - 1) # 1 /\ (k - (x - 1)) - 1 = k - x
    BY <1>1, <2>3, <2>4
  <2>7. c[k - x] = d[k - x]
    <3> DEFINE j == k - (x - 1)
    <3>1. j \in 1..Len(c) /\ j \in 1..Len(d) /\ j # 1 /\ j - 1 = k - x /\ c[j] = d[j]
      BY <2>5, <2>6
    <3> HIDE DEF j
    <3>2. Previous[c[j]] = c[j - 1]
      BY <3>1 DEF IsChain
    <3>3. Previous[d[j]] = d[j - 1]
      BY <3>1 DEF IsChain
    <3>4. QED
      BY <3>1, <3>2, <3>3
  <2>8. QED
    BY <2>2, <2>7
<1>3. QED
  <2>1. SUFFICES ASSUME NEW i \in 1..k, c[i] # d[i] PROVE FALSE
    OBVIOUS
  <2>2. k - i \in Nat /\ k - i < k /\ k - (k - i) = i
    OBVIOUS
  <2>3. k - i \in T
    BY <2>1, <2>2
  <2>4. QED
    BY <1>2, <2>3

\* The head of a chain, and the height of the block that comes next.
LEMMA HeadFacts ==
  ASSUME NEW c \in [Accounts -> Seq(Blocks)], NEW a \in Accounts, IsChain(c[a], a)
  PROVE  /\ HeadHeight(c, a) = Len(c[a]) - 1 /\ Len(c[a]) \in Nat
         /\ c[a] = <<>> => HeadOf(c, a) = NoBlock /\ Len(c[a]) = 0
         /\ c[a] # <<>> => /\ HeadOf(c, a) = c[a][Len(c[a])] /\ Len(c[a]) > 0
                           /\ HeadOf(c, a) \in Blocks
                           /\ AccountOf[HeadOf(c, a)] = a
                           /\ Height[HeadOf(c, a)] = Len(c[a]) - 1
<1>1. c[a] \in Seq(Blocks) /\ Len(c[a]) \in Nat /\ c[a] \in [1..Len(c[a]) -> Blocks]
  BY LenProperties
<1>2. c[a] # <<>> => Len(c[a]) \in 1..Len(c[a])
  BY <1>1, EmptySeq
<1>3. QED
  BY <1>1, <1>2, EmptySeq DEF HeadHeight, HeadOf, Last, IsChain

\* A block whose predecessor is the head makes the chain longer.
LEMMA ChainAppended ==
  ASSUME NEW c \in [Accounts -> Seq(Blocks)], NEW b \in Blocks,
         IsChain(c[AccountOf[b]], AccountOf[b]),
         HeadOf(c, AccountOf[b]) = Previous[b]
  PROVE  LET a == AccountOf[b]
             d == Append(c[a], b)
         IN  /\ a \in Accounts /\ d \in Seq(Blocks) /\ Len(d) = Len(c[a]) + 1
             /\ IsChain(d, a) /\ Height[b] = Len(c[a]) /\ d[Len(d)] = b
             /\ \A i \in 1..Len(c[a]) : d[i] = c[a][i]
<1> DEFINE a == AccountOf[b]
           d == Append(c[a], b)
           n == Len(c[a])
<1>1. a \in Accounts /\ NoBlock \notin Blocks
  BY AppAssumption
<1>2. /\ n \in Nat
      /\ c[a] = <<>> => HeadOf(c, a) = NoBlock /\ n = 0
      /\ c[a] # <<>> => /\ HeadOf(c, a) = c[a][n] /\ n > 0
                        /\ HeadOf(c, a) \in Blocks
                        /\ Height[HeadOf(c, a)] = n - 1
  BY <1>1, HeadFacts
<1>3. /\ d \in Seq(Blocks) /\ Len(d) = n + 1 /\ d[n + 1] = b
      /\ \A i \in 1..n : d[i] = c[a][i]
  BY <1>1, AppendProperties
<1>4. Height[b] = n
  <2>1. CASE c[a] = <<>>
    <3>1. Previous[b] = NoBlock
      BY <1>2, <2>1
    <3>2. Height[b] = 0
      BY <3>1, AppAssumption
    <3>3. QED
      BY <1>2, <2>1, <3>2
  <2>2. CASE c[a] # <<>>
    <3>1. Previous[b] \in Blocks /\ Previous[b] # NoBlock /\ Height[Previous[b]] = n - 1
      BY <1>1, <1>2, <2>2
    <3>2. Height[b] = Height[Previous[b]] + 1
      BY <3>1, AppAssumption
    <3>3. QED
      BY <1>2, <3>1, <3>2
  <2>3. QED
    BY <2>1, <2>2
<1>5. Previous[b] = IF n + 1 = 1 THEN NoBlock ELSE c[a][(n + 1) - 1]
  BY <1>2
<1> HIDE DEF d, n
<1>6. ASSUME NEW i \in 1..(n + 1)
      PROVE  /\ AccountOf[d[i]] = a /\ Height[d[i]] = i - 1
             /\ Previous[d[i]] = IF i = 1 THEN NoBlock ELSE d[i - 1]
  <2>1. CASE i = n + 1
    <3>1. d[i] = b /\ i - 1 = n
      BY <1>2, <1>3, <2>1
    <3>2. i # 1 => d[i - 1] = c[a][n]
      BY <1>2, <1>3, <2>1
    <3>3. QED
      BY <1>2, <1>4, <1>5, <2>1, <3>1, <3>2
  <2>2. CASE i # n + 1
    <3>1. i \in 1..n /\ d[i] = c[a][i]
      BY <1>2, <1>3, <2>2
    <3>2. i # 1 => i - 1 \in 1..n /\ d[i - 1] = c[a][i - 1]
      BY <1>2, <1>3, <3>1
    <3>3. QED
      BY <3>1, <3>2 DEF IsChain, n
  <2>3. QED
    BY <2>1, <2>2
<1>7. IsChain(d, a)
  BY <1>3, <1>6 DEF IsChain
<1>8. QED
  BY <1>1, <1>2, <1>3, <1>4, <1>7 DEF d, n

\* A chain without its head.
LEMMA ChainFront ==
  ASSUME NEW c \in Seq(Blocks), NEW a, IsChain(c, a), Len(c) > 0
  PROVE  /\ Front(c) \in Seq(Blocks) /\ Len(Front(c)) = Len(c) - 1
         /\ IsChain(Front(c), a) /\ \A i \in 1..(Len(c) - 1) : Front(c)[i] = c[i]
<1> DEFINE n == Len(c) - 1
           f == SubSeq(c, 1, n)
<1>1. Len(c) \in Nat /\ c \in [1..Len(c) -> Blocks]
  BY LenProperties
<1>2. 1 \in Int /\ n \in Int /\ n \in Nat /\ \A i \in 1..n : c[i] \in Blocks
  BY <1>1
<1>3. /\ f \in Seq(Blocks) /\ Len(f) = IF 1 <= n THEN n - 1 + 1 ELSE 0
      /\ \A i \in 1..(n - 1 + 1) : f[i] = c[1 + i - 1]
  BY <1>2, SubSeqProperties
<1> HIDE DEF f
<1>4. f \in Seq(Blocks) /\ Len(f) = n /\ \A i \in 1..n : f[i] = c[i]
  <2> HIDE DEF n
  <2>1. n - 1 + 1 = n /\ \A i \in 1..n : 1 + i - 1 = i
    BY <1>2
  <2>2. Len(f) = n
    BY <1>2, <1>3, <2>1
  <2>3. QED
    BY <1>3, <2>1, <2>2
<1>5. IsChain(f, a)
  BY <1>1, <1>2, <1>4 DEF IsChain
<1>6. QED
  BY <1>4, <1>5 DEF Front, f

-----------------------------------------------------------------------------
(* What the node has confirmed stays confirmed.                            *)

\* A block the node has confirmed is confirmed when its chains have grown.
LEMMA SureKept ==
  ASSUME NEW N, NEW F, NEW N2, NEW F2, Grown(N, F), Grown(N2, F2), Kept(N, F, N2, F2),
         NEW b \in Blocks, Sure(N, F, b)
  PROVE  Sure(N2, F2, b)
<1> DEFINE a == AccountOf[b]
           h == Height[b]
<1>1. a \in Accounts /\ h \in Nat /\ F[a] \in Nat /\ F2[a] \in Nat
  BY AppAssumption DEF Grown
<1>2. h < F[a] /\ N[a][h + 1] = b
  BY DEF Sure
<1>3. F[a] <= F2[a] /\ \A i \in 1..F[a] : N2[a][i] = N[a][i]
  BY <1>1 DEF Kept
<1> HIDE DEF a, h
<1>4. h + 1 \in 1..F[a] /\ h < F2[a]
  BY <1>1, <1>2, <1>3
<1>5. N2[a][h + 1] = b
  BY <1>2, <1>3, <1>4
<1>6. QED
  BY <1>4, <1>5 DEF Sure, a, h

\* What the application knows, and what it holds for confirmed, stays true.
LEMMA InformedKept ==
  ASSUME NEW N, NEW F, NEW N2, NEW F2, Grown(N, F), Grown(N2, F2), Kept(N, F, N2, F2)
  PROVE  /\ \A nw, ac, wa, ca, pe :
              Informed(N, F, nw, ac, wa, ca, pe) => Informed(N2, F2, nw, ac, wa, ca, pe)
         /\ \A c, n : Grown(c, n) /\ Agrees(N, F, c, n) => Agrees(N2, F2, c, n)
<1>1. \A b \in Blocks : Sure(N, F, b) => Sure(N2, F2, b)
  BY SureKept
<1>2. /\ Notes(N, F) \subseteq Notes(N2, F2) /\ Waits(N, F) \subseteq Waits(N2, F2)
      /\ Acts(N, F) \subseteq Acts(N2, F2)
  BY <1>1 DEF Notes, Waits, Acts
<1>3. ASSUME NEW nw, NEW ac, NEW wa, NEW ca, NEW pe, Informed(N, F, nw, ac, wa, ca, pe)
      PROVE  Informed(N2, F2, nw, ac, wa, ca, pe)
  <2>1. ac \in [Priorities -> Seq(Acts(N, F))]
    BY <1>3 DEF Informed
  <2>2. \A p \in Priorities : ac[p] \in Seq(Acts(N2, F2))
    <3>1. SUFFICES ASSUME NEW p \in Priorities PROVE ac[p] \in Seq(Acts(N2, F2))
      OBVIOUS
    <3>2. ac[p] \in Seq(Acts(N, F))
      BY <2>1
    <3>3. QED
      BY <1>2, <3>2, SeqMonotone
  <2>3. ac \in [Priorities -> Seq(Acts(N2, F2))]
    BY <2>1, <2>2
  <2>4. QED
    BY <1>2, <1>3, <2>3 DEF Informed
<1>4. ASSUME NEW c, NEW n, Grown(c, n), Agrees(N, F, c, n)
      PROVE  Agrees(N2, F2, c, n)
  <2>1. SUFFICES ASSUME NEW a \in Accounts
                 PROVE  n[a] <= F2[a] /\ \A i \in 1..n[a] : c[a][i] = N2[a][i]
    BY DEF Agrees
  <2>2. n[a] \in Nat /\ F[a] \in Nat /\ F2[a] \in Nat
    BY <1>4 DEF Grown
  <2>3. n[a] <= F[a] /\ \A i \in 1..n[a] : c[a][i] = N[a][i]
    BY <1>4 DEF Agrees
  <2>4. F[a] <= F2[a] /\ \A i \in 1..F[a] : N2[a][i] = N[a][i]
    BY DEF Kept
  <2>5. QED
    BY <2>2, <2>3, <2>4
<1>5. QED
  BY <1>3, <1>4

\* A chain grows by a block; nothing confirmed changes.
LEMMA GrownByBlock ==
  ASSUME NEW c, NEW n, Grown(c, n), NEW b \in Blocks,
         HeadOf(c, AccountOf[b]) = Previous[b]
  PROVE  LET a == AccountOf[b]
             d == [c EXCEPT ![a] = Append(@, b)]
         IN  /\ Grown(d, n) /\ Kept(c, n, d, n)
             /\ Height[b] = Len(c[a]) /\ Len(d[a]) = Len(c[a]) + 1 /\ d[a][Len(d[a])] = b
<1> DEFINE a == AccountOf[b]
           d == [c EXCEPT ![a] = Append(@, b)]
<1>1. /\ a \in Accounts /\ c \in [Accounts -> Seq(Blocks)] /\ n \in [Accounts -> Nat]
      /\ IsChain(c[a], a)
  BY AppAssumption DEF Grown
<1>2. /\ d \in [Accounts -> Seq(Blocks)] /\ d[a] = Append(c[a], b)
      /\ \A x \in Accounts : x # a => d[x] = c[x]
  BY <1>1, AppendProperties
<1>3. /\ Len(d[a]) = Len(c[a]) + 1 /\ IsChain(d[a], a) /\ Height[b] = Len(c[a])
      /\ d[a][Len(d[a])] = b /\ \A i \in 1..Len(c[a]) : d[a][i] = c[a][i]
  BY <1>1, <1>2, ChainAppended
<1> HIDE DEF d, a
<1>4. ASSUME NEW x \in Accounts
      PROVE  /\ IsChain(d[x], x) /\ n[x] <= Len(d[x]) /\ n[x] \in Nat
             /\ \A i \in 1..n[x] : d[x][i] = c[x][i]
  <2>1. /\ IsChain(c[x], x) /\ n[x] <= Len(c[x]) /\ n[x] \in Nat /\ Len(c[x]) \in Nat
    BY <1>1, LenProperties DEF Grown
  <2>2. CASE x = a
    BY <1>3, <2>1, <2>2
  <2>3. CASE x # a
    BY <1>2, <2>1, <2>3
  <2>4. QED
    BY <2>2, <2>3
<1>5. Grown(d, n)
  BY <1>1, <1>2, <1>4 DEF Grown
<1>6. Kept(c, n, d, n)
  BY <1>4 DEF Kept
<1>7. QED
  BY <1>3, <1>5, <1>6 DEF d, a

\* A chain loses a head that is not confirmed; nothing confirmed changes.
LEMMA GrownFront ==
  ASSUME NEW c, NEW n, Grown(c, n), NEW a \in Accounts, Len(c[a]) > n[a]
  PROVE  LET d == [c EXCEPT ![a] = Front(@)]
         IN  Grown(d, n) /\ Kept(c, n, d, n)
<1> DEFINE d == [c EXCEPT ![a] = Front(@)]
<1>1. /\ c \in [Accounts -> Seq(Blocks)] /\ n \in [Accounts -> Nat]
      /\ IsChain(c[a], a) /\ c[a] \in Seq(Blocks) /\ Len(c[a]) \in Nat /\ n[a] \in Nat
  BY LenProperties DEF Grown
<1>2. Len(c[a]) > 0
  BY <1>1
<1>3. /\ Front(c[a]) \in Seq(Blocks) /\ Len(Front(c[a])) = Len(c[a]) - 1
      /\ IsChain(Front(c[a]), a)
      /\ \A i \in 1..(Len(c[a]) - 1) : Front(c[a])[i] = c[a][i]
  BY <1>1, <1>2, ChainFront
<1>4. /\ d \in [Accounts -> Seq(Blocks)] /\ d[a] = Front(c[a])
      /\ \A x \in Accounts : x # a => d[x] = c[x]
  BY <1>1, <1>3
<1> HIDE DEF d
<1>5. ASSUME NEW x \in Accounts
      PROVE  /\ IsChain(d[x], x) /\ n[x] <= Len(d[x]) /\ n[x] \in Nat
             /\ \A i \in 1..n[x] : d[x][i] = c[x][i]
  <2>1. /\ IsChain(c[x], x) /\ n[x] <= Len(c[x]) /\ n[x] \in Nat /\ Len(c[x]) \in Nat
    BY <1>1, LenProperties DEF Grown
  <2>2. CASE x = a
    <3>1. n[a] <= Len(c[a]) - 1
      BY <1>1
    <3>2. QED
      BY <1>1, <1>3, <1>4, <2>2, <3>1
  <2>3. CASE x # a
    BY <1>4, <2>1, <2>3
  <2>4. QED
    BY <2>2, <2>3
<1>6. Grown(d, n)
  BY <1>1, <1>4, <1>5 DEF Grown
<1>7. Kept(c, n, d, n)
  BY <1>5 DEF Kept
<1>8. QED
  BY <1>6, <1>7 DEF d

-----------------------------------------------------------------------------
(* Queues and tables.                                                      *)

\* QueueAction keeps the queues what they are.
LEMMA QueuedTyped ==
  ASSUME NEW S, NEW q \in [Priorities -> Seq(S)], NEW p \in Priorities, NEW s \in Seq(S)
  PROVE  Queued(q, p, s) \in [Priorities -> Seq(S)]
<1>1. q[p] \o s \in Seq(S)
  BY ConcatProperties
<1>2. QED
  BY <1>1 DEF Queued

\* One action behind the others.
LEMMA QueuedOne ==
  ASSUME NEW S, NEW q \in [Priorities -> Seq(S)], NEW p \in Priorities, NEW x \in S
  PROVE  Queued(q, p, <<x>>) \in [Priorities -> Seq(S)]
<1>1. <<x>> \in Seq(S)
  OBVIOUS
<1>2. QED
  BY <1>1, QueuedTyped

\* Without its first action a queue is a queue.
LEMMA RestTyped ==
  ASSUME NEW S, NEW q \in [Priorities -> Seq(S)], NEW p \in Priorities, q[p] # <<>>
  PROVE  q[p][1] \in S /\ [q EXCEPT ![p] = Tail(@)] \in [Priorities -> Seq(S)]
<1>1. q[p] \in Seq(S)
  OBVIOUS
<1>2. q[p][1] \in S /\ Tail(q[p]) \in Seq(S)
  BY <1>1, HeadTailProperties
<1>3. QED
  BY <1>2

\* An action that claims nothing, and one that claims what is true.
LEMMA ActTyped ==
  ASSUME NEW N, NEW F, NEW b \in Blocks
  PROVE  /\ Rollback(b) \in Acts(N, F) /\ Block(b, FALSE) \in Acts(N, F)
         /\ \A c \in BOOLEAN : (c => Sure(N, F, b)) => Block(b, c) \in Acts(N, F)
  BY DEF Rollback, Block, Acts

\* Waiting blocks go back to the queue as they were.
LEMMA RequeueTyped ==
  ASSUME NEW N, NEW F, NEW ws, ws \subseteq Waits(N, F), IsFiniteSet(ws),
         NEW s \in Requeue(ws)
  PROVE  s \in Seq(Acts(N, F))
<1> DEFINE m == Cardinality(ws)
<1>1. m \in Nat
  BY FS_CardinalityType
<1>2. PICK f \in SetToSeqs(ws) : s = [i \in DOMAIN f |-> Block(f[i].block, f[i].confirmed)]
  BY DEF Requeue
<1>3. f \in [1..m -> ws]
  BY <1>2 DEF SetToSeqs
<1> HIDE DEF m
<1>4. ASSUME NEW i \in 1..m
      PROVE  Block(f[i].block, f[i].confirmed) \in Acts(N, F)
  <2>1. f[i] \in Waits(N, F)
    BY <1>3
  <2>2. /\ f[i].block \in Blocks /\ f[i].confirmed \in BOOLEAN
        /\ f[i].confirmed => Sure(N, F, f[i].block)
    BY <2>1 DEF Waits
  <2>3. QED
    BY <2>2, ActTyped
<1>5. s \in [1..m -> Acts(N, F)]
  BY <1>2, <1>3, <1>4
<1>6. QED
  BY <1>1, <1>5, FunctionSeq

\* The query of an account that is raised.
LEMMA AddQueryTyped ==
  ASSUME pendings \in [Accounts -> Nat \cup {None}], NEW a, NEW h \in Nat, AddQuery(a, h)
  PROVE  pendings' \in [Accounts -> Nat \cup {None}]
  BY DEF AddQuery, None

\* A block that waits, and why.
LEMMA WaitingWithTyped ==
  ASSUME NEW N, NEW F, waiting \subseteq Waits(N, F), IsFiniteSet(waiting),
         NEW k \in Accounts \X Nat, NEW b \in Blocks, NEW c \in BOOLEAN,
         c => Sure(N, F, b)
  PROVE  WaitingWith(k, b, c) \subseteq Waits(N, F) /\ IsFiniteSet(WaitingWith(k, b, c))
<1> DEFINE g(w) == IF w.block = b THEN [w EXCEPT !.confirmed = c] ELSE w
           T == {g(w) : w \in waiting}
           e == [for |-> k, block |-> b, confirmed |-> c]
<1>1. T \subseteq Waits(N, F)
  <2>1. ASSUME NEW w \in waiting
        PROVE  g(w) \in Waits(N, F)
    BY DEF Waits
  <2>2. QED
    BY <2>1
<1>2. IsFiniteSet(T)
  <2> DEFINE f == [w \in waiting |-> g(w)]
  <2> HIDE DEF g
  <2>1. f \in Surjection(waiting, T)
    BY DEF Surjection
  <2>2. QED
    BY <2>1, FS_Surjection
<1>3. e \in Waits(N, F)
  BY DEF Waits
<1>4. waiting \cup {e} \subseteq Waits(N, F) /\ IsFiniteSet(waiting \cup {e})
  BY <1>3, FS_AddElement
<1>5. QED
  BY <1>1, <1>2, <1>4 DEF WaitingWith

\* PullNextBlock queues a block of the cache or asks for the next one.
LEMMA PullTyped ==
  ASSUME NEW N, NEW F, NEW b \in Blocks, NEW q \in [Priorities -> Seq(Acts(N, F))],
         cache \subseteq Blocks, pendings \in [Accounts -> Nat \cup {None}],
         PullNextBlock(b, q)
  PROVE  /\ actions' \in [Priorities -> Seq(Acts(N, F))]
         /\ cache' \subseteq Blocks /\ pendings' \in [Accounts -> Nat \cup {None}]
<1> DEFINE next == {c \in cache : Previous[c] = b}
<1>1. CASE /\ next # {}
           /\ actions' = Queued(q, "NORMAL", <<Block(CHOOSE c \in next : TRUE, FALSE)>>)
           /\ cache' = cache \ next
           /\ UNCHANGED pendings
  <2>1. (CHOOSE c \in next : TRUE) \in Blocks
    BY <1>1
  <2>2. Block(CHOOSE c \in next : TRUE, FALSE) \in Acts(N, F)
    BY <2>1, ActTyped
  <2>3. "NORMAL" \in Priorities
    BY DEF Priorities
  <2>4. QED
    BY <1>1, <2>2, <2>3, QueuedOne
<1>2. CASE /\ AddQuery(AccountOf[b], Height[b] + 1)
           /\ actions' = q
           /\ UNCHANGED cache
  <2>1. Height[b] + 1 \in Nat
    BY AppAssumption
  <2>2. QED
    BY <1>2, <2>1, AddQueryTyped
<1>3. QED
  BY <1>1, <1>2 DEF PullNextBlock

-----------------------------------------------------------------------------
(* Steps of the node.                                                      *)

\* Whatever the node notifies of, the rest of the application is untouched.
LEMMA NodeStep ==
  ASSUME IInv, UNCHANGED <<ledger, actions, tables, faults>>,
         Grown(nodeChain', nodeConfirmed'),
         Kept(nodeChain, nodeConfirmed, nodeChain', nodeConfirmed'),
         network' \subseteq Notes(nodeChain', nodeConfirmed')
  PROVE  IInv' /\ Kept(chain, confirmed, chain', confirmed')
<1>1. /\ chain' = chain /\ confirmed' = confirmed /\ actions' = actions
      /\ waiting' = waiting /\ cache' = cache /\ pendings' = pendings
  BY DEF ledger, tables
<1>2. /\ Grown(nodeChain, nodeConfirmed) /\ Grown(chain, confirmed)
      /\ Agrees(nodeChain, nodeConfirmed, chain, confirmed)
      /\ Informed(nodeChain, nodeConfirmed, network, actions, waiting, cache, pendings)
  BY DEF IInv
<1>3. Agrees(nodeChain', nodeConfirmed', chain, confirmed)
  BY <1>2, InformedKept
<1>4. Informed(nodeChain', nodeConfirmed', network, actions, waiting, cache, pendings)
  BY <1>2, InformedKept
<1>5. Informed(nodeChain', nodeConfirmed', network', actions', waiting', cache', pendings')
  BY <1>1, <1>4 DEF Informed
<1>6. IInv'
  BY <1>1, <1>2, <1>3, <1>5 DEF IInv
<1>7. Kept(chain, confirmed, chain', confirmed')
  BY <1>1, <1>2 DEF Kept, Grown
<1>8. QED
  BY <1>6, <1>7

\* What is on the way when the node has sent more and some of it is lost.
LEMMA SendTyped ==
  ASSUME IInv, NEW ms, Send(ms), Grown(nodeChain', nodeConfirmed'),
         Kept(nodeChain, nodeConfirmed, nodeChain', nodeConfirmed'),
         ms \subseteq Notes(nodeChain', nodeConfirmed')
  PROVE  network' \subseteq Notes(nodeChain', nodeConfirmed')
<1>1. network \subseteq Notes(nodeChain, nodeConfirmed) /\ Grown(nodeChain, nodeConfirmed)
  BY DEF IInv, Informed
<1>2. \A b \in Blocks :
        Sure(nodeChain, nodeConfirmed, b) => Sure(nodeChain', nodeConfirmed', b)
  BY <1>1, SureKept
<1>3. Notes(nodeChain, nodeConfirmed) \subseteq Notes(nodeChain', nodeConfirmed')
  BY <1>2 DEF Notes
<1>4. network' \subseteq network \cup ms
  BY DEF Send
<1>5. QED
  BY <1>1, <1>3, <1>4

\* The node appends a block.
LEMMA NodeAppendStep ==
  ASSUME IInv, NEW b \in Blocks, NodeAppend(b)
  PROVE  IInv' /\ Kept(chain, confirmed, chain', confirmed')
<1> DEFINE a == AccountOf[b]
<1>1. /\ HeadOf(nodeChain, a) = Previous[b]
      /\ nodeChain' = [nodeChain EXCEPT ![a] = Append(@, b)]
      /\ Send({Notify("block_append", b)}) /\ nodeConfirmed' = nodeConfirmed
      /\ UNCHANGED <<ledger, actions, tables, faults>>
  BY DEF NodeAppend
<1>2. Grown(nodeChain, nodeConfirmed)
  BY DEF IInv
<1>3. /\ Grown(nodeChain', nodeConfirmed')
      /\ Kept(nodeChain, nodeConfirmed, nodeChain', nodeConfirmed')
  BY <1>1, <1>2, GrownByBlock
<1>4. {Notify("block_append", b)} \subseteq Notes(nodeChain', nodeConfirmed')
  BY DEF Notify, Notes
<1>5. network' \subseteq Notes(nodeChain', nodeConfirmed')
  BY <1>1, <1>3, <1>4, SendTyped
<1>6. QED
  BY <1>1, <1>3, <1>5, NodeStep

\* The node rolls back a head that is not confirmed.
LEMMA NodeRollbackStep ==
  ASSUME IInv, NEW a \in Accounts, NodeRollback(a)
  PROVE  IInv' /\ Kept(chain, confirmed, chain', confirmed')
<1> DEFINE b == HeadOf(nodeChain, a)
<1>1. /\ Len(nodeChain[a]) > nodeConfirmed[a]
      /\ nodeChain' = [nodeChain EXCEPT ![a] = Front(@)]
      /\ Send({Notify("block_rollback", b)}) /\ nodeConfirmed' = nodeConfirmed
      /\ UNCHANGED <<ledger, actions, tables, faults>>
  BY DEF NodeRollback
<1>2. Grown(nodeChain, nodeConfirmed)
  BY DEF IInv
<1>3. /\ Grown(nodeChain', nodeConfirmed')
      /\ Kept(nodeChain, nodeConfirmed, nodeChain', nodeConfirmed')
  BY <1>1, <1>2, GrownFront
<1>4. b \in Blocks
  <2>1. /\ nodeChain \in [Accounts -> Seq(Blocks)] /\ IsChain(nodeChain[a], a)
        /\ nodeConfirmed[a] \in Nat
    BY <1>2 DEF Grown
  <2>2. nodeChain[a] # <<>>
    BY <1>1, <2>1, EmptySeq
  <2>3. QED
    BY <2>1, <2>2, HeadFacts
<1> HIDE DEF b
<1>5. {Notify("block_rollback", b)} \subseteq Notes(nodeChain', nodeConfirmed')
  BY <1>4 DEF Notify, Notes
<1>6. network' \subseteq Notes(nodeChain', nodeConfirmed')
  BY <1>1, <1>3, <1>5, SendTyped
<1>7. QED
  BY <1>1, <1>3, <1>6, NodeStep

\* The node confirms the blocks of an account up to a height.
LEMMA NodeConfirmStep ==
  ASSUME IInv, NEW a \in Accounts, NEW h, NodeConfirm(a, h)
  PROVE  IInv' /\ Kept(chain, confirmed, chain', confirmed')
<1> DEFINE blocks == {nodeChain[a][i] : i \in (nodeConfirmed[a] + 1)..(h + 1)}
           ms == {Notify("block_confirm", b) : b \in blocks}
<1>1. /\ h \in nodeConfirmed[a]..HeadHeight(nodeChain, a)
      /\ nodeConfirmed' = [nodeConfirmed EXCEPT ![a] = h + 1]
      /\ Send(ms) /\ nodeChain' = nodeChain
      /\ UNCHANGED <<ledger, actions, tables, faults>>
  BY DEF NodeConfirm
<1>2. /\ Grown(nodeChain, nodeConfirmed) /\ nodeConfirmed \in [Accounts -> Nat]
      /\ nodeChain \in [Accounts -> Seq(Blocks)] /\ IsChain(nodeChain[a], a)
  BY DEF IInv, Grown
<1>3. /\ h \in Nat /\ h + 1 <= Len(nodeChain[a]) /\ nodeConfirmed[a] <= h
      /\ Len(nodeChain[a]) \in Nat /\ nodeConfirmed[a] \in Nat
      /\ nodeChain[a] \in [1..Len(nodeChain[a]) -> Blocks]
  <2>1. Len(nodeChain[a]) \in Nat /\ nodeChain[a] \in [1..Len(nodeChain[a]) -> Blocks]
    BY <1>2, LenProperties
  <2>2. nodeConfirmed[a] \in Nat
    BY <1>2
  <2>3. QED
    BY <1>1, <2>1, <2>2 DEF HeadHeight
<1>4. /\ nodeConfirmed' \in [Accounts -> Nat] /\ nodeConfirmed'[a] = h + 1
      /\ \A x \in Accounts : x # a => nodeConfirmed'[x] = nodeConfirmed[x]
  BY <1>1, <1>2, <1>3
<1>5. Grown(nodeChain', nodeConfirmed')
  <2>1. ASSUME NEW x \in Accounts
        PROVE  IsChain(nodeChain[x], x) /\ nodeConfirmed'[x] <= Len(nodeChain[x])
    BY <1>2, <1>3, <1>4 DEF Grown
  <2>2. QED
    BY <1>1, <1>2, <1>4, <2>1 DEF Grown
<1>6. Kept(nodeChain, nodeConfirmed, nodeChain', nodeConfirmed')
  <2>1. ASSUME NEW x \in Accounts
        PROVE  nodeConfirmed[x] <= nodeConfirmed'[x]
    <3>1. nodeConfirmed[x] \in Nat
      BY <1>2
    <3>2. CASE x = a
      BY <1>3, <1>4, <3>2
    <3>3. CASE x # a
      BY <1>4, <3>1, <3>3
    <3>4. QED
      BY <3>2, <3>3
  <2>2. QED
    BY <1>1, <2>1 DEF Kept
<1>7. ASSUME NEW i \in (nodeConfirmed[a] + 1)..(h + 1)
      PROVE  Notify("block_confirm", nodeChain[a][i]) \in Notes(nodeChain', nodeConfirmed')
  <2> DEFINE b == nodeChain[a][i]
  <2>1. i \in 1..Len(nodeChain[a]) /\ i <= h + 1 /\ i \in Nat
    BY <1>3
  <2>2. b \in Blocks /\ AccountOf[b] = a /\ Height[b] = i - 1
    BY <1>2, <1>3, <2>1 DEF IsChain
  <2> HIDE DEF b
  <2>3. Height[b] < h + 1 /\ Height[b] + 1 = i
    BY <2>1, <2>2, <1>3
  <2>4. Sure(nodeChain', nodeConfirmed', b)
    BY <1>1, <1>4, <2>2, <2>3 DEF Sure, b
  <2>5. Notify("block_confirm", b) \in Notes(nodeChain', nodeConfirmed')
    BY <2>2, <2>4 DEF Notify, Notes
  <2>6. QED
    BY <2>5 DEF b
<1>8. ms \subseteq Notes(nodeChain', nodeConfirmed')
  BY <1>7
<1> HIDE DEF ms
<1>9. network' \subseteq Notes(nodeChain', nodeConfirmed')
  BY <1>1, <1>5, <1>6, <1>8, SendTyped
<1>10. QED
  BY <1>1, <1>5, <1>6, <1>9, NodeStep

-----------------------------------------------------------------------------
(* Steps of the application.                                               *)

\* A step that leaves the ledgers alone need only keep to what is true.
LEMMA Quiet ==
  ASSUME IInv, UNCHANGED <<nodeChain, nodeConfirmed, chain, confirmed>>,
         Informed(nodeChain, nodeConfirmed, network', actions', waiting', cache', pendings')
  PROVE  IInv' /\ Kept(chain, confirmed, chain', confirmed')
<1>1. confirmed \in [Accounts -> Nat]
  BY DEF IInv, Grown
<1>2. Kept(chain, confirmed, chain', confirmed')
  BY <1>1 DEF Kept
<1>3. QED
  BY <1>2 DEF IInv

\* A step of the application that changes its chains.
LEMMA LedgerStep ==
  ASSUME IInv, UNCHANGED <<nodeChain, nodeConfirmed>>,
         Grown(chain', confirmed'), Kept(chain, confirmed, chain', confirmed'),
         Agrees(nodeChain, nodeConfirmed, chain', confirmed'),
         Informed(nodeChain, nodeConfirmed, network', actions', waiting', cache', pendings')
  PROVE  IInv' /\ Kept(chain, confirmed, chain', confirmed')
  BY DEF IInv

\* What the invariant says of the state of the application.
LEMMA Facts ==
  ASSUME IInv
  PROVE  /\ Grown(nodeChain, nodeConfirmed) /\ Grown(chain, confirmed)
         /\ Agrees(nodeChain, nodeConfirmed, chain, confirmed)
         /\ chain \in [Accounts -> Seq(Blocks)] /\ confirmed \in [Accounts -> Nat]
         /\ network \subseteq Notes(nodeChain, nodeConfirmed)
         /\ actions \in [Priorities -> Seq(Acts(nodeChain, nodeConfirmed))]
         /\ waiting \subseteq Waits(nodeChain, nodeConfirmed) /\ IsFiniteSet(waiting)
         /\ cache \subseteq Blocks /\ pendings \in [Accounts -> Nat \cup {None}]
         /\ \A a \in Accounts :
              /\ IsChain(chain[a], a) /\ confirmed[a] <= Len(chain[a])
              /\ Len(chain[a]) \in Nat /\ HeadHeight(chain, a) + 1 = Len(chain[a])
<1>1. /\ Grown(nodeChain, nodeConfirmed) /\ Grown(chain, confirmed)
      /\ Agrees(nodeChain, nodeConfirmed, chain, confirmed)
      /\ network \subseteq Notes(nodeChain, nodeConfirmed)
      /\ actions \in [Priorities -> Seq(Acts(nodeChain, nodeConfirmed))]
      /\ waiting \subseteq Waits(nodeChain, nodeConfirmed) /\ IsFiniteSet(waiting)
      /\ cache \subseteq Blocks /\ pendings \in [Accounts -> Nat \cup {None}]
  BY DEF IInv, Informed
<1>2. /\ chain \in [Accounts -> Seq(Blocks)] /\ confirmed \in [Accounts -> Nat]
      /\ \A a \in Accounts : IsChain(chain[a], a) /\ confirmed[a] <= Len(chain[a])
  BY <1>1 DEF Grown
<1>3. ASSUME NEW a \in Accounts
      PROVE  Len(chain[a]) \in Nat /\ HeadHeight(chain, a) + 1 = Len(chain[a])
  <2>1. Len(chain[a]) \in Nat
    BY <1>2, LenProperties
  <2>2. QED
    BY <2>1 DEF HeadHeight
<1>4. QED
  BY <1>1, <1>2, <1>3

\* A block of the chain that the node has confirmed may be held for
\* confirmed, and with it all blocks before it: the chains agree up to it.
LEMMA ConfirmUp ==
  ASSUME NEW N, NEW F, NEW c, NEW n, Grown(N, F), Grown(c, n), Agrees(N, F, c, n),
         NEW b \in Blocks, Sure(N, F, b),
         Height[b] < Len(c[AccountOf[b]]), c[AccountOf[b]][Height[b] + 1] = b,
         n[AccountOf[b]] <= Height[b] + 1
  PROVE  LET m == [n EXCEPT ![AccountOf[b]] = Height[b] + 1]
         IN  Grown(c, m) /\ Agrees(N, F, c, m) /\ Kept(c, n, c, m)
<1> DEFINE a == AccountOf[b]
           k == Height[b] + 1
           m == [n EXCEPT ![a] = k]
<1>1. a \in Accounts /\ Height[b] \in Nat /\ k \in Nat
  BY AppAssumption
<1>2. /\ c \in [Accounts -> Seq(Blocks)] /\ n \in [Accounts -> Nat]
      /\ N \in [Accounts -> Seq(Blocks)] /\ F \in [Accounts -> Nat]
      /\ IsChain(c[a], a) /\ IsChain(N[a], a) /\ F[a] <= Len(N[a])
  BY <1>1 DEF Grown
<1>3. Len(c[a]) \in Nat /\ Len(N[a]) \in Nat /\ F[a] \in Nat
  BY <1>1, <1>2, LenProperties
<1>4. Height[b] < F[a] /\ N[a][k] = b
  BY DEF Sure
<1>5. k <= F[a] /\ k <= Len(N[a]) /\ k <= Len(c[a]) /\ c[a][k] = N[a][k]
  BY <1>1, <1>2, <1>3, <1>4
<1>6. m \in [Accounts -> Nat] /\ m[a] = k /\ \A x \in Accounts : x # a => m[x] = n[x]
  BY <1>1, <1>2
<1> HIDE DEF k, m, a
<1>7. \A i \in 1..k : c[a][i] = N[a][i]
  <2> DEFINE s == c[a]
             u == N[a]
  <2>1. /\ s \in Seq(Blocks) /\ u \in Seq(Blocks) /\ IsChain(s, a) /\ IsChain(u, a)
        /\ k <= Len(s) /\ k <= Len(u) /\ (k > 0 => s[k] = u[k])
    BY <1>1, <1>2, <1>5
  <2> HIDE DEF s, u
  <2>2. \A i \in 1..k : s[i] = u[i]
    BY <1>1, <2>1, ChainsAgree
  <2>3. QED
    BY <2>2 DEF s, u
<1>8. ASSUME NEW x \in Accounts
      PROVE  /\ n[x] <= m[x] /\ m[x] <= Len(c[x]) /\ m[x] <= F[x]
             /\ \A i \in 1..m[x] : c[x][i] = N[x][i]
  <2>1. CASE x = a
    BY <1>5, <1>6, <1>7, <2>1 DEF a, k
  <2>2. CASE x # a
    <3>1. m[x] = n[x] /\ n[x] \in Nat
      BY <1>2, <1>6, <2>2
    <3>2. QED
      BY <3>1 DEF Grown, Agrees
  <2>3. QED
    BY <2>1, <2>2, SMTT(40)
<1>9. Grown(c, m)
  BY <1>6, <1>8 DEF Grown
<1>10. Agrees(N, F, c, m)
  BY <1>8 DEF Agrees
<1>11. Kept(c, n, c, m)
  BY <1>8 DEF Kept
<1>12. QED
  BY <1>9, <1>10, <1>11 DEF m, k, a

\* What the places of a block say of the chain.
LEMMA PlaceMeans ==
  ASSUME IInv, NEW b \in Blocks
  PROVE  LET a == AccountOf[b]
         IN  /\ a \in Accounts
             /\ Place(b) = "NEXT" => Previous[b] = HeadOf(chain, a)
             /\ Place(b) = "EXIST" => Exists(chain, b) /\ ~Confirmed(a, Height[b])
             /\ Place(b) = "FORK" => HeadOf(chain, a) \in Blocks
<1> DEFINE a == AccountOf[b]
           h == Height[b]
           P == h > HeadHeight(chain, a) + 1
           Q == h = HeadHeight(chain, a) + 1
           R == h <= HeadHeight(chain, a) /\ Exists(chain, b)
<1>1. a \in Accounts /\ h \in Nat
  BY AppAssumption
<1>2. /\ Len(chain[a]) \in Nat /\ HeadHeight(chain, a) = Len(chain[a]) - 1
      /\ chain \in [Accounts -> Seq(Blocks)] /\ IsChain(chain[a], a)
  BY <1>1, Facts DEF HeadHeight
<1>3. Place(b) = CASE P -> "GAP_PREVIOUS"
                   [] Q -> IF Previous[b] = HeadOf(chain, a) THEN "NEXT"
                                                             ELSE "PREVIOUS_MISMATCH"
                   [] R -> IF Confirmed(a, h) THEN "CONFIRMED" ELSE "EXIST"
                   [] OTHER -> IF Confirmed(a, h) THEN "CONFIRMED_FORK" ELSE "FORK"
  BY DEF Place
<1>4. ~(P /\ Q) /\ ~(P /\ R) /\ ~(Q /\ R)
  BY <1>1, <1>2
<1>5. ~P /\ ~Q => HeadOf(chain, a) \in Blocks
  <2>1. ASSUME ~P, ~Q PROVE chain[a] # <<>>
    <3>1. Len(chain[a]) # 0
      BY <1>1, <1>2, <2>1
    <3>2. QED
      BY <3>1, EmptySeq
  <2>2. QED
    BY <1>1, <1>2, <2>1, HeadFacts
<1>6. R => Exists(chain, b)
  OBVIOUS
<1> HIDE DEF P, Q, R
<1>7. CASE P
  BY <1>1, <1>3, <1>4, <1>7
<1>8. CASE Q
  BY <1>1, <1>3, <1>4, <1>8
<1>9. CASE R
  BY <1>1, <1>3, <1>4, <1>6, <1>9
<1>10. CASE ~P /\ ~Q /\ ~R
  BY <1>1, <1>3, <1>5, <1>10
<1>11. QED
  BY <1>7, <1>8, <1>9, <1>10

\* What a block that was taken in sets free is queued as it was.
LEMMA TakenInformed ==
  ASSUME IInv, NEW b \in Blocks, NEW c,
         NEW rest \in [Priorities -> Seq(Acts(nodeChain, nodeConfirmed))],
         Taken(b, c, rest), UNCHANGED network
  PROVE  Informed(nodeChain, nodeConfirmed, network', actions', waiting', cache', pendings')
<1> DEFINE ws == IF c THEN WaitingFor(b) ELSE {}
<1>1. ws \subseteq waiting
  BY DEF WaitingFor
<1>2. PICK s \in Requeue(ws) : PullNextBlock(b, Queued(rest, "NORMAL", s))
  BY DEF Taken
<1>3. waiting' = waiting \ ws
  BY DEF Taken
<1> HIDE DEF ws
<1>4. ws \subseteq Waits(nodeChain, nodeConfirmed) /\ IsFiniteSet(ws)
  BY <1>1, Facts, FS_Subset
<1>5. s \in Seq(Acts(nodeChain, nodeConfirmed))
  BY <1>2, <1>4, RequeueTyped
<1>6. Queued(rest, "NORMAL", s) \in [Priorities -> Seq(Acts(nodeChain, nodeConfirmed))]
  <2>1. "NORMAL" \in Priorities
    BY DEF Priorities
  <2>2. QED
    BY <1>5, <2>1, QueuedTyped
<1>7. /\ actions' \in [Priorities -> Seq(Acts(nodeChain, nodeConfirmed))]
      /\ cache' \subseteq Blocks /\ pendings' \in [Accounts -> Nat \cup {None}]
  BY <1>2, <1>6, Facts, PullTyped
<1>8. waiting' \subseteq Waits(nodeChain, nodeConfirmed) /\ IsFiniteSet(waiting')
  <2>1. waiting' \subseteq waiting
    BY <1>3
  <2>2. QED
    BY <2>1, Facts, FS_Subset
<1>9. QED
  BY <1>7, <1>8, Facts DEF Informed

\* A step that changes only queues and tables of the application.
LEMMA QueueStep ==
  ASSUME IInv, UNCHANGED <<node, network, ledger, waiting, cache, pendings>>,
         actions' \in [Priorities -> Seq(Acts(nodeChain, nodeConfirmed))]
  PROVE  IInv' /\ Kept(chain, confirmed, chain', confirmed')
<1>1. Informed(nodeChain, nodeConfirmed, network', actions', waiting', cache', pendings')
  BY Facts DEF Informed
<1>2. QED
  BY <1>1, Quiet DEF node, ledger

\* The block after the head: asked about, made to wait, or appended.
LEMMA AppendNextStep ==
  ASSUME IInv, NEW b \in Blocks, NEW c \in BOOLEAN,
         c => Sure(nodeChain, nodeConfirmed, b),
         NEW rest \in [Priorities -> Seq(Acts(nodeChain, nodeConfirmed))],
         Place(b) = "NEXT", AppendNext(b, c, rest), UNCHANGED <<node, network, faults>>
  PROVE  IInv' /\ Kept(chain, confirmed, chain', confirmed')
<1> DEFINE a == AccountOf[b]
<1>1. CASE /\ actions' = rest
           /\ UNCHANGED <<ledger, waiting, cache, pendings>>
  BY <1>1, QueueStep
<1>2. CASE /\ \E k \in Missing(b) : WaitBlock(b, c, k)
           /\ actions' = rest
  <2>1. PICK k \in Missing(b) : WaitBlock(b, c, k)
    BY <1>2
  <2>2. k \in Accounts \X Nat /\ k[1] \in Accounts
    BY AppAssumption DEF Missing
  <2>3. waiting' \subseteq Waits(nodeChain, nodeConfirmed) /\ IsFiniteSet(waiting')
    BY <2>1, <2>2, Facts, WaitingWithTyped DEF WaitBlock
  <2>4. pendings' \in [Accounts -> Nat \cup {None}]
    <3>1. CASE SyncAccount(k[1])
      <4>1. HeadHeight(chain, k[1]) + 1 \in Nat
        BY <2>2, Facts
      <4>2. QED
        BY <3>1, <4>1, Facts, AddQueryTyped DEF SyncAccount
    <3>2. CASE UNCHANGED pendings
      BY <3>2, Facts
    <3>3. QED
      BY <2>1, <3>1, <3>2 DEF WaitBlock
  <2>5. cache' = cache /\ chain' = chain /\ confirmed' = confirmed
    BY <2>1 DEF WaitBlock, ledger
  <2>6. Informed(nodeChain, nodeConfirmed, network', actions', waiting', cache', pendings')
    BY <1>2, <2>3, <2>4, <2>5, Facts DEF Informed
  <2>7. QED
    BY <2>5, <2>6, Quiet DEF node
<1>3. CASE /\ chain' = [chain EXCEPT ![a] = Append(@, b)]
           /\ confirmed' = IF c THEN [confirmed EXCEPT ![a] = Height[b] + 1] ELSE confirmed
           /\ Taken(b, c, rest)
  <2>1. /\ Grown(nodeChain, nodeConfirmed) /\ Grown(chain, confirmed)
        /\ Agrees(nodeChain, nodeConfirmed, chain, confirmed)
        /\ a \in Accounts /\ Previous[b] = HeadOf(chain, a)
        /\ confirmed[a] <= Len(chain[a]) /\ Len(chain[a]) \in Nat /\ confirmed[a] \in Nat
        /\ nodeChain' = nodeChain /\ nodeConfirmed' = nodeConfirmed
    BY Facts, PlaceMeans DEF node
  <2>2. /\ Grown(chain', confirmed) /\ Kept(chain, confirmed, chain', confirmed)
        /\ Height[b] = Len(chain[a]) /\ Len(chain'[a]) = Len(chain[a]) + 1
        /\ chain'[a][Len(chain'[a])] = b
    <3>1. Grown(chain', confirmed) /\ Kept(chain, confirmed, chain', confirmed)
      BY <1>3, <2>1, GrownByBlock
    <3>2. Height[b] = Len(chain[a])
      BY <2>1, GrownByBlock
    <3>3. chain'[a] = Append(chain[a], b) /\ chain[a] \in Seq(Blocks)
      BY <1>3, <2>1, Facts
    <3>4. QED
      BY <3>1, <3>2, <3>3, AppendProperties
  <2>3. Agrees(nodeChain, nodeConfirmed, chain', confirmed)
    BY <2>1, <2>2, Facts DEF Agrees, Kept
  <2>4. Informed(nodeChain, nodeConfirmed, network', actions', waiting', cache', pendings')
    BY <1>3, TakenInformed
  <2>5. CASE ~c
    BY <1>3, <2>1, <2>2, <2>3, <2>4, <2>5, LedgerStep
  <2>6. CASE c
    <3>1. /\ Sure(nodeChain, nodeConfirmed, b) /\ Height[b] < Len(chain'[a])
          /\ chain'[a][Height[b] + 1] = b /\ confirmed[a] <= Height[b] + 1
          /\ confirmed' = [confirmed EXCEPT ![a] = Height[b] + 1]
      BY <1>3, <2>1, <2>2, <2>6
    <3>2. /\ Grown(chain', confirmed') /\ Kept(chain', confirmed, chain', confirmed')
          /\ Agrees(nodeChain, nodeConfirmed, chain', confirmed')
      BY <2>1, <2>2, <2>3, <3>1, ConfirmUp
    <3>3. Kept(chain, confirmed, chain', confirmed')
      BY <2>2, <3>2 DEF Kept
    <3>4. QED
      BY <2>1, <2>4, <3>2, <3>3, LedgerStep
  <2>7. QED
    BY <2>5, <2>6
<1>4. QED
  BY <1>1, <1>2, <1>3, Zenon DEF AppendNext

\* AppendBlock takes for confirmed only what the node has confirmed.
LEMMA AppendBlockStep ==
  ASSUME IInv, NEW b \in Blocks, NEW c \in BOOLEAN,
         c => Sure(nodeChain, nodeConfirmed, b),
         NEW rest \in [Priorities -> Seq(Acts(nodeChain, nodeConfirmed))],
         AppendBlock(b, c, rest), UNCHANGED <<node, network, faults>>
  PROVE  IInv' /\ Kept(chain, confirmed, chain', confirmed')
<1> DEFINE a == AccountOf[b]
<1>0. "URGENT" \in Priorities /\ "HIGH" \in Priorities /\ "NORMAL" \in Priorities
  BY DEF Priorities
<1>1. CASE Place(b) = "NEXT" /\ AppendNext(b, c, rest)
  BY <1>1, AppendNextStep
<1>2. CASE /\ Place(b) = "EXIST" /\ c
           /\ confirmed' = [confirmed EXCEPT ![a] = Height[b] + 1]
           /\ Taken(b, c, rest)
           /\ UNCHANGED <<chain, confirms>>
  <2>1. /\ a \in Accounts /\ Exists(chain, b) /\ ~(Height[b] < confirmed[a])
        /\ Height[b] \in Nat /\ confirmed[a] \in Nat /\ Len(chain[a]) \in Nat
        /\ IsChain(chain[a], a) /\ chain[a] \in Seq(Blocks)
        /\ nodeChain' = nodeChain /\ nodeConfirmed' = nodeConfirmed
    BY <1>2, Facts, PlaceMeans, AppAssumption DEF Confirmed, node
  <2>2. Height[b] < Len(chain[a]) /\ chain[a][Height[b] + 1] = b
    <3>1. PICK i \in DOMAIN chain[a] : chain[a][i] = b
      BY <2>1 DEF Exists
    <3>2. i \in 1..Len(chain[a])
      BY <2>1, <3>1, LenProperties
    <3>3. Height[b] = i - 1
      BY <2>1, <3>1, <3>2 DEF IsChain
    <3>4. Height[b] + 1 = i /\ Height[b] < Len(chain[a])
      BY <2>1, <3>2, <3>3
    <3>5. QED
      BY <3>1, <3>4
  <2>3. /\ Grown(chain, confirmed') /\ Kept(chain, confirmed, chain, confirmed')
        /\ Agrees(nodeChain, nodeConfirmed, chain, confirmed')
    <3>1. confirmed[a] <= Height[b] + 1
      BY <2>1
    <3>2. QED
      BY <1>2, <2>2, <3>1, Facts, ConfirmUp
  <2>4. Informed(nodeChain, nodeConfirmed, network', actions', waiting', cache', pendings')
    BY <1>2, TakenInformed
  <2>5. QED
    BY <1>2, <2>1, <2>3, <2>4, LedgerStep
<1>3. CASE /\ waiting' = waiting \ WaitingFor(b)
           /\ \E s \in Requeue(WaitingFor(b)) : actions' = Queued(rest, "NORMAL", s)
           /\ UNCHANGED <<ledger, confirms, cache, pendings>>
  <2>1. WaitingFor(b) \subseteq Waits(nodeChain, nodeConfirmed) /\ IsFiniteSet(WaitingFor(b))
    <3>1. WaitingFor(b) \subseteq waiting
      BY DEF WaitingFor
    <3>2. QED
      BY <3>1, Facts, FS_Subset
  <2>2. PICK s \in Requeue(WaitingFor(b)) : actions' = Queued(rest, "NORMAL", s)
    BY <1>3
  <2>3. s \in Seq(Acts(nodeChain, nodeConfirmed))
    BY <2>1, <2>2, RequeueTyped
  <2>4. actions' \in [Priorities -> Seq(Acts(nodeChain, nodeConfirmed))]
    BY <1>0, <2>2, <2>3, QueuedTyped
  <2>5. waiting' \subseteq Waits(nodeChain, nodeConfirmed) /\ IsFiniteSet(waiting')
    <3>1. waiting' \subseteq waiting
      BY <1>3
    <3>2. QED
      BY <3>1, Facts, FS_Subset
  <2>6. Informed(nodeChain, nodeConfirmed, network', actions', waiting', cache', pendings')
    BY <1>3, <2>4, <2>5, Facts DEF Informed
  <2>7. QED
    BY <1>3, <2>6, Quiet DEF node, ledger
<1>4. CASE /\ SyncAccount(a)
           /\ actions' = rest
           /\ UNCHANGED <<ledger, confirms, waiting, cache>>
  <2>1. a \in Accounts /\ HeadHeight(chain, a) + 1 \in Nat
    BY Facts, PlaceMeans
  <2>2. pendings' \in [Accounts -> Nat \cup {None}]
    BY <1>4, <2>1, Facts, AddQueryTyped DEF SyncAccount
  <2>3. Informed(nodeChain, nodeConfirmed, network', actions', waiting', cache', pendings')
    BY <1>4, <2>2, Facts DEF Informed
  <2>4. QED
    BY <1>4, <2>3, Quiet DEF node, ledger
<1>5. CASE /\ actions' = rest
           /\ UNCHANGED <<ledger, waiting, cache, pendings>>
  BY <1>5, QueueStep
<1>6. CASE /\ Place(b) = "FORK" /\ c
           /\ ResolveFork(b, rest)
           /\ UNCHANGED <<ledger, tables>>
  <2> DEFINE q == Queued(rest, "URGENT", <<Rollback(HeadOf(chain, a))>>)
  <2>1. Rollback(HeadOf(chain, a)) \in Acts(nodeChain, nodeConfirmed)
    BY <1>6, PlaceMeans, ActTyped
  <2>2. q \in [Priorities -> Seq(Acts(nodeChain, nodeConfirmed))]
    BY <1>0, <2>1, QueuedOne
  <2> HIDE DEF q
  <2>3. Block(b, TRUE) \in Acts(nodeChain, nodeConfirmed)
    BY <1>6, ActTyped
  <2>4. actions' = Queued(q, "HIGH", <<Block(b, TRUE)>>)
    BY <1>6 DEF ResolveFork, q
  <2>5. actions' \in [Priorities -> Seq(Acts(nodeChain, nodeConfirmed))]
    BY <1>0, <2>2, <2>3, <2>4, QueuedOne
  <2>6. QED
    BY <1>6, <2>5, QueueStep DEF tables
<1>7. CASE /\ actions' = rest
           /\ UNCHANGED <<ledger, tables>>
  BY <1>7, QueueStep DEF tables
<1>8. QED
  BY <1>1, <1>2, <1>3, <1>4, <1>5, <1>6, <1>7, Zenon DEF AppendBlock

\* RollbackBlock_ takes back only a head that is not confirmed.
LEMMA RollbackStep ==
  ASSUME IInv, NEW b \in Blocks,
         NEW rest \in [Priorities -> Seq(Acts(nodeChain, nodeConfirmed))],
         ProcessBlockRollback(b, rest)
  PROVE  IInv' /\ Kept(chain, confirmed, chain', confirmed')
<1> DEFINE a == AccountOf[b]
           d == [chain EXCEPT ![a] = Front(@)]
<1>1. /\ actions' = rest /\ confirmed' = confirmed /\ nodeChain' = nodeChain
      /\ nodeConfirmed' = nodeConfirmed /\ network' = network /\ waiting' = waiting
      /\ cache' = cache /\ pendings' = pendings
  BY DEF ProcessBlockRollback, node, tables
<1>2. Informed(nodeChain, nodeConfirmed, network', actions', waiting', cache', pendings')
  BY <1>1, Facts DEF Informed
<1>3. CASE chain' = chain
  BY <1>1, <1>2, <1>3, Quiet
<1>4. CASE HeadOf(chain, a) = b /\ ~Confirmed(a, Height[b]) /\ chain' = d
  <2>1. /\ a \in Accounts /\ NoBlock \notin Blocks /\ Height[b] \in Nat
        /\ chain \in [Accounts -> Seq(Blocks)] /\ IsChain(chain[a], a)
        /\ Len(chain[a]) \in Nat /\ confirmed[a] \in Nat /\ Grown(chain, confirmed)
        /\ Agrees(nodeChain, nodeConfirmed, chain, confirmed)
        /\ confirmed \in [Accounts -> Nat] /\ ~(Height[b] < confirmed[a])
    BY <1>4, Facts, AppAssumption DEF Confirmed
  <2>2. Height[b] = Len(chain[a]) - 1
    BY <1>4, <2>1, HeadFacts
  <2>3. Len(chain[a]) > confirmed[a]
    BY <2>1, <2>2
  <2>4. Grown(d, confirmed) /\ Kept(chain, confirmed, d, confirmed)
    BY <2>1, <2>3, GrownFront
  <2> HIDE DEF d
  <2>5. Agrees(nodeChain, nodeConfirmed, d, confirmed)
    BY <2>1, <2>4 DEF Agrees, Kept
  <2>6. QED
    BY <1>1, <1>2, <1>4, <2>4, <2>5, LedgerStep
<1>5. QED
  BY <1>3, <1>4 DEF ProcessBlockRollback

\* Run: one action of the queues.
LEMMA RunStep ==
  ASSUME IInv, Run
  PROVE  IInv' /\ Kept(chain, confirmed, chain', confirmed')
<1>1. PICK p \in Priorities :
        LET first == actions[p][1]
            rest == [actions EXCEPT ![p] = Tail(@)]
        IN  /\ actions[p] # <<>>
            /\ \/ first.kind = "block" /\ ProcessBlock(first.block, first.confirmed, rest)
               \/ first.kind = "rollback" /\ ProcessBlockRollback(first.block, rest)
  BY DEF Run
<1> DEFINE first == actions[p][1]
           rest == [actions EXCEPT ![p] = Tail(@)]
<1>2. /\ first \in Acts(nodeChain, nodeConfirmed)
      /\ rest \in [Priorities -> Seq(Acts(nodeChain, nodeConfirmed))]
  BY <1>1, Facts, RestTyped
<1>3. \/ ProcessBlock(first.block, first.confirmed, rest)
      \/ ProcessBlockRollback(first.block, rest)
  BY <1>1
<1> HIDE DEF first, rest
<1>4. /\ first.block \in Blocks /\ first.confirmed \in BOOLEAN
      /\ first.confirmed => Sure(nodeChain, nodeConfirmed, first.block)
  BY <1>2 DEF Acts
<1>5. CASE ProcessBlockRollback(first.block, rest)
  BY <1>2, <1>4, <1>5, RollbackStep
<1>6. CASE ProcessBlock(first.block, first.confirmed, rest)
  <2>1. CASE AppendBlock(first.block, first.confirmed, rest)
    <3>1. UNCHANGED <<node, network, faults>>
      BY <1>6 DEF ProcessBlock
    <3>2. QED
      BY <1>2, <1>4, <2>1, <3>1, AppendBlockStep
  <2>2. CASE actions' = rest /\ UNCHANGED <<ledger, waiting, cache, pendings>>
    <3>1. UNCHANGED <<node, network>>
      BY <1>6 DEF ProcessBlock
    <3>2. QED
      BY <1>2, <2>2, <3>1, QueueStep
  <2>3. QED
    BY <1>6, <2>1, <2>2, Zenon DEF ProcessBlock
<1>7. QED
  BY <1>3, <1>5, <1>6

\* A notification becomes an action that claims as much.
LEMMA ReceiveStep ==
  ASSUME IInv, NEW m \in network, ReceiveNotify(m)
  PROVE  IInv' /\ Kept(chain, confirmed, chain', confirmed')
<1> DEFINE b == m.block
           c == m.kind = "block_confirm"
<1>0. "URGENT" \in Priorities /\ "NORMAL" \in Priorities
  BY DEF Priorities
<1>1. b \in Blocks /\ c \in BOOLEAN /\ (c => Sure(nodeChain, nodeConfirmed, b))
  <2>1. m \in Notes(nodeChain, nodeConfirmed)
    BY Facts
  <2>2. QED
    BY <2>1 DEF Notes
<1>2. /\ network' = network \ {m} /\ chain' = chain /\ confirmed' = confirmed
      /\ nodeChain' = nodeChain /\ nodeConfirmed' = nodeConfirmed
      /\ waiting' = waiting /\ cache' = cache /\ pendings' = pendings
      /\ \/ actions' = Queued(actions, "URGENT", <<Rollback(b)>>)
         \/ actions' = Queued(actions, "NORMAL", <<Block(b, c)>>)
  BY DEF ReceiveNotify, node, ledger
<1> HIDE DEF b, c
<1>3. Rollback(b) \in Acts(nodeChain, nodeConfirmed) /\ Block(b, c) \in Acts(nodeChain, nodeConfirmed)
  BY <1>1, ActTyped
<1>4. actions' \in [Priorities -> Seq(Acts(nodeChain, nodeConfirmed))]
  <2>1. Queued(actions, "URGENT", <<Rollback(b)>>) \in [Priorities -> Seq(Acts(nodeChain, nodeConfirmed))]
    BY <1>0, <1>3, Facts, QueuedOne
  <2>2. Queued(actions, "NORMAL", <<Block(b, c)>>) \in [Priorities -> Seq(Acts(nodeChain, nodeConfirmed))]
    BY <1>0, <1>3, Facts, QueuedOne
  <2>3. QED
    BY <1>2, <2>1, <2>2
<1>5. Informed(nodeChain, nodeConfirmed, network', actions', waiting', cache', pendings')
  BY <1>2, <1>4, Facts DEF Informed
<1>6. QED
  BY <1>2, <1>5, Quiet

\* The node's answer to a query: blocks that claim nothing.
LEMMA BlocksQueryStep ==
  ASSUME IInv, NEW a \in Accounts, BlocksQuery(a)
  PROVE  IInv' /\ Kept(chain, confirmed, chain', confirmed')
<1> DEFINE h == pendings[a]
           n == Len(nodeChain[a])
           blocks == SubSeq(nodeChain[a], h + 1, n)
           first == IF blocks = <<>> THEN <<>> ELSE <<Block(blocks[1], FALSE)>>
           others == {blocks[i] : i \in 2..Len(blocks)}
<1>1. /\ h # None /\ pendings' = [pendings EXCEPT ![a] = None]
      /\ actions' = Queued(actions, "NORMAL", first)
      /\ cache' \subseteq cache \cup others
      /\ network' = network /\ chain' = chain /\ confirmed' = confirmed
      /\ nodeChain' = nodeChain /\ nodeConfirmed' = nodeConfirmed /\ waiting' = waiting
  BY DEF BlocksQuery, node, ledger
<1>2. /\ h + 1 \in Nat \ {0} /\ n \in Nat /\ nodeChain[a] \in [1..n -> Blocks]
      /\ nodeChain[a] \in Seq(Blocks)
  <2>1. h \in Nat
    BY <1>1, Facts
  <2>2. nodeChain[a] \in Seq(Blocks)
    BY Facts DEF Grown
  <2>3. QED
    BY <2>1, <2>2, LenProperties
<1>3. blocks \in Seq(Blocks)
  <2>1. h + 1 \in Int /\ n \in Int /\ \A i \in (h + 1)..n : nodeChain[a][i] \in Blocks
    BY <1>2
  <2>2. QED
    BY <1>2, <2>1, SubSeqProperties
<1> HIDE DEF blocks, h
<1>4. Len(blocks) \in Nat /\ blocks \in [1..Len(blocks) -> Blocks]
  BY <1>3, LenProperties
<1>5. first \in Seq(Acts(nodeChain, nodeConfirmed))
  <2>1. CASE blocks = <<>>
    <3>1. <<>> \in Seq(Acts(nodeChain, nodeConfirmed))
      BY EmptySeq
    <3>2. QED
      BY <2>1, <3>1
  <2>2. CASE blocks # <<>>
    <3>1. Len(blocks) # 0
      BY <1>3, <2>2, EmptySeq
    <3>2. blocks[1] \in Blocks
      BY <1>4, <3>1
    <3> DEFINE x == Block(blocks[1], FALSE)
    <3>3. x \in Acts(nodeChain, nodeConfirmed)
      BY <3>2, ActTyped
    <3> HIDE DEF x
    <3>4. <<x>> \in Seq(Acts(nodeChain, nodeConfirmed))
      BY <3>3
    <3>5. QED
      BY <2>2, <3>4 DEF x
  <2>3. QED
    BY <2>1, <2>2
<1>6. others \subseteq Blocks
  BY <1>4
<1> HIDE DEF first, others
<1>7. actions' \in [Priorities -> Seq(Acts(nodeChain, nodeConfirmed))]
  <2>1. "NORMAL" \in Priorities
    BY DEF Priorities
  <2>2. QED
    BY <1>1, <1>5, <2>1, Facts, QueuedTyped
<1>8. pendings' \in [Accounts -> Nat \cup {None}] /\ cache' \subseteq Blocks
  BY <1>1, <1>6, Facts
<1>9. Informed(nodeChain, nodeConfirmed, network', actions', waiting', cache', pendings')
  BY <1>1, <1>7, <1>8, Facts DEF Informed
<1>10. QED
  BY <1>1, <1>9, Quiet

\* The node's answer about a block: it is gone, or one is confirmed.
LEMMA RequestConfirmStep ==
  ASSUME IInv, NEW b \in Blocks, RequestConfirm(b)
  PROVE  IInv' /\ Kept(chain, confirmed, chain', confirmed')
<1> DEFINE a == AccountOf[b]
           h == Height[b]
           d == nodeChain[a][h + 1]
<1>0. "URGENT" \in Priorities /\ "NORMAL" \in Priorities
  BY DEF Priorities
<1>1. /\ UNCHANGED <<node, network, ledger, waiting, cache, pendings>>
      /\ \/ actions' = Queued(actions, "URGENT", <<Rollback(b)>>)
         \/ h < nodeConfirmed[a] /\ actions' = Queued(actions, "NORMAL", <<Block(d, TRUE)>>)
  BY DEF RequestConfirm
<1>2. CASE actions' = Queued(actions, "URGENT", <<Rollback(b)>>)
  <2>1. Rollback(b) \in Acts(nodeChain, nodeConfirmed)
    BY ActTyped
  <2>2. actions' \in [Priorities -> Seq(Acts(nodeChain, nodeConfirmed))]
    BY <1>0, <1>2, <2>1, Facts, QueuedOne
  <2>3. QED
    BY <1>1, <2>2, QueueStep
<1>3. CASE h < nodeConfirmed[a] /\ actions' = Queued(actions, "NORMAL", <<Block(d, TRUE)>>)
  <2>1. /\ a \in Accounts /\ h \in Nat /\ nodeConfirmed[a] \in Nat
        /\ nodeConfirmed[a] <= Len(nodeChain[a]) /\ IsChain(nodeChain[a], a)
        /\ nodeChain[a] \in Seq(Blocks)
    BY Facts, AppAssumption DEF Grown
  <2>2. Len(nodeChain[a]) \in Nat /\ nodeChain[a] \in [1..Len(nodeChain[a]) -> Blocks]
    BY <2>1, LenProperties
  <2> DEFINE i == h + 1
  <2>3. i \in 1..Len(nodeChain[a]) /\ i - 1 = h /\ d = nodeChain[a][i]
    BY <1>3, <2>1, <2>2
  <2> HIDE DEF i
  <2>4. d \in Blocks /\ AccountOf[d] = a /\ Height[d] = h
    BY <2>1, <2>2, <2>3 DEF IsChain
  <2> HIDE DEF h, a
  <2>5. Sure(nodeChain, nodeConfirmed, d)
    <3>1. nodeChain[AccountOf[d]][Height[d] + 1] = d
      BY <2>4
    <3> HIDE DEF d
    <3>2. QED
      BY <1>3, <2>4, <3>1 DEF Sure
  <2> HIDE DEF d
  <2>6. Block(d, TRUE) \in Acts(nodeChain, nodeConfirmed)
    BY <2>4, <2>5, ActTyped
  <2>7. actions' \in [Priorities -> Seq(Acts(nodeChain, nodeConfirmed))]
    BY <1>0, <1>3, <2>6, Facts, QueuedOne
  <2>8. QED
    BY <1>1, <2>7, QueueStep
<1>4. QED
  BY <1>1, <1>2, <1>3

\* A round of the bootstrap only asks.
LEMMA BootstrapStep ==
  ASSUME IInv, Bootstrap
  PROVE  IInv' /\ Kept(chain, confirmed, chain', confirmed')
<1>1. \A a \in Accounts : HeadHeight(chain, a) + 1 \in Nat
  BY Facts
<1>2. pendings' \in [Accounts -> Nat \cup {None}]
  BY <1>1 DEF Bootstrap
<1>3. UNCHANGED <<node, network, ledger, actions, waiting, cache>>
  BY DEF Bootstrap
<1>4. Informed(nodeChain, nodeConfirmed, network', actions', waiting', cache', pendings')
  BY <1>2, <1>3, Facts DEF Informed
<1>5. QED
  BY <1>3, <1>4, Quiet DEF node, ledger

\* Entries that age out take no claim with them that anything rests on.
LEMMA AgeStep ==
  ASSUME IInv, Age
  PROVE  IInv' /\ Kept(chain, confirmed, chain', confirmed')
<1>1. /\ UNCHANGED <<node, network, ledger, actions, pendings>>
      /\ waiting' \subseteq waiting /\ cache' \subseteq cache
  BY DEF Age
<1>2. IsFiniteSet(waiting')
  BY <1>1, Facts, FS_Subset
<1>3. Informed(nodeChain, nodeConfirmed, network', actions', waiting', cache', pendings')
  BY <1>1, <1>2, Facts DEF Informed
<1>4. QED
  BY <1>1, <1>3, Quiet DEF node, ledger

\* A restart forgets everything but the ledger.
LEMMA RestartStep ==
  ASSUME IInv, Restart
  PROVE  IInv' /\ Kept(chain, confirmed, chain', confirmed')
<1>1. /\ UNCHANGED <<node, ledger>> /\ actions' = [p \in Priorities |-> <<>>]
      /\ waiting' = {} /\ cache' = {} /\ pendings' = [a \in Accounts |-> None]
      /\ network' = {}
  BY DEF Restart
<1>2. <<>> \in Seq(Acts(nodeChain, nodeConfirmed)) /\ IsFiniteSet({})
  BY EmptySeq, FS_EmptySet
<1>3. Informed(nodeChain, nodeConfirmed, network', actions', waiting', cache', pendings')
  BY <1>1, <1>2 DEF Informed
<1>4. QED
  BY <1>1, <1>3, Quiet DEF node, ledger

-----------------------------------------------------------------------------

\* In the beginning nothing is claimed.
LEMMA InitIInv == Init => IInv
<1>1. SUFFICES ASSUME Init PROVE IInv
  OBVIOUS
<1>2. /\ nodeChain = Established /\ nodeConfirmed = [a \in Accounts |-> Len(Established[a])]
      /\ chain = [a \in Accounts |-> <<>>] /\ confirmed = [a \in Accounts |-> 0]
      /\ network = {} /\ actions = [p \in Priorities |-> <<>>]
      /\ waiting = {} /\ cache = {} /\ pendings = [a \in Accounts |-> None]
  BY <1>1 DEF Init
<1>3. Established \in [Accounts -> Seq(Blocks)]
  BY AppAssumption
<1>4. ASSUME NEW a \in Accounts
      PROVE  IsChain(Established[a], a) /\ Len(Established[a]) \in Nat
  <2>1. Len(Established[a]) \in Nat /\ DOMAIN Established[a] = 1..Len(Established[a])
    BY <1>3, LenProperties
  <2>2. QED
    BY <2>1, AppAssumption DEF IsChain
<1>5. Grown(nodeChain, nodeConfirmed)
  BY <1>2, <1>3, <1>4 DEF Grown
<1>6. <<>> \in Seq(Blocks) /\ Len(<<>>) = 0 /\ <<>> \in Seq(Acts(nodeChain, nodeConfirmed))
  BY EmptySeq
<1>7. Grown(chain, confirmed)
  BY <1>2, <1>6 DEF Grown, IsChain
<1>8. Agrees(nodeChain, nodeConfirmed, chain, confirmed)
  BY <1>2, <1>4 DEF Agrees
<1>9. IsFiniteSet({})
  BY FS_EmptySet
<1>10. Informed(nodeChain, nodeConfirmed, network, actions, waiting, cache, pendings)
  BY <1>2, <1>6, <1>9 DEF Informed
<1>11. QED
  BY <1>5, <1>7, <1>8, <1>10 DEF IInv

\* Every step keeps to what the node has confirmed, and takes back nothing.
LEMMA StepIInv == IInv /\ [Next]_vars => IInv' /\ Kept(chain, confirmed, chain', confirmed')
<1>1. SUFFICES ASSUME IInv, [Next]_vars
               PROVE  IInv' /\ Kept(chain, confirmed, chain', confirmed')
  OBVIOUS
<1>2. CASE UNCHANGED vars
  <2>1. UNCHANGED <<node, network, ledger, waiting, cache, pendings, actions>>
    BY <1>2 DEF vars, tables
  <2>2. QED
    BY <1>1, <2>1, Facts, QueueStep
<1>3. ASSUME NEW b \in Blocks, NodeAppend(b) \/ RequestConfirm(b)
      PROVE  IInv' /\ Kept(chain, confirmed, chain', confirmed')
  BY <1>1, <1>3, NodeAppendStep, RequestConfirmStep
<1>4. ASSUME NEW a \in Accounts, NodeRollback(a) \/ BlocksQuery(a)
      PROVE  IInv' /\ Kept(chain, confirmed, chain', confirmed')
  BY <1>1, <1>4, NodeRollbackStep, BlocksQueryStep
<1>5. ASSUME NEW a \in Accounts, NEW h \in 0..HeadHeight(nodeChain, a), NodeConfirm(a, h)
      PROVE  IInv' /\ Kept(chain, confirmed, chain', confirmed')
  BY <1>1, <1>5, NodeConfirmStep
<1>6. ASSUME NEW m \in network, ReceiveNotify(m)
      PROVE  IInv' /\ Kept(chain, confirmed, chain', confirmed')
  BY <1>1, <1>6, ReceiveStep
<1>7. CASE Run \/ Bootstrap \/ Age \/ Restart
  BY <1>1, <1>7, RunStep, BootstrapStep, AgeStep, RestartStep
<1>8. QED
  BY <1>1, <1>2, <1>3, <1>4, <1>5, <1>6, <1>7, Zenon DEF Next

\* Where chains agree by elements one is a prefix of the other.
LEMMA FinalPrefix ==
  ASSUME NEW c, NEW n, NEW d, NEW m, Grown(c, n), Grown(d, m), NEW a \in Accounts,
         n[a] <= m[a], \A i \in 1..n[a] : c[a][i] = d[a][i]
  PROVE  IsPrefix(Final(c, n, a), Final(d, m, a))
<1>1. /\ c[a] \in Seq(Blocks) /\ d[a] \in Seq(Blocks) /\ n[a] \in Nat /\ m[a] \in Nat
      /\ n[a] <= Len(c[a]) /\ m[a] <= Len(d[a])
  BY DEF Grown
<1>2. QED
  BY <1>1, PrefixOf DEF Final

\* What the application holds for confirmed is what the network has
\* confirmed, in its order, and no step of the application or the node takes
\* any of it back: for any accounts, blocks and needs, however notifications
\* are lost, late or reordered, and through rollbacks, forks and restarts.
THEOREM AppFollows == Spec => ConfirmedFollows
<1> DEFINE P == \A a \in Accounts : IsPrefix(Final(chain, confirmed, a),
                                             Final(nodeChain, nodeConfirmed, a))
           A == \A a \in Accounts : IsPrefix(Final(chain, confirmed, a),
                                             Final(chain', confirmed', a))
<1>1. IInv => P
  <2>1. SUFFICES ASSUME IInv, NEW a \in Accounts
                 PROVE  IsPrefix(Final(chain, confirmed, a), Final(nodeChain, nodeConfirmed, a))
    OBVIOUS
  <2>2. /\ confirmed[a] <= nodeConfirmed[a]
        /\ \A i \in 1..confirmed[a] : chain[a][i] = nodeChain[a][i]
    BY <2>1, Facts DEF Agrees
  <2>3. QED
    BY <2>1, <2>2, Facts, FinalPrefix
<1>2. IInv /\ [Next]_vars => A
  <2>1. SUFFICES ASSUME IInv, [Next]_vars, NEW a \in Accounts
                 PROVE  IsPrefix(Final(chain, confirmed, a), Final(chain', confirmed', a))
    OBVIOUS
  <2>2. IInv' /\ Kept(chain, confirmed, chain', confirmed')
    BY <2>1, StepIInv
  <2>3. Grown(chain, confirmed) /\ Grown(chain', confirmed')
    BY <2>1, <2>2 DEF IInv
  <2>4. /\ confirmed[a] <= confirmed'[a]
        /\ \A i \in 1..confirmed[a] : chain[a][i] = chain'[a][i]
    BY <2>2 DEF Kept
  <2>5. QED
    BY <2>3, <2>4, FinalPrefix
<1>3. Spec => []IInv
  BY InitIInv, StepIInv, PTL DEF Spec
<1>4. Spec => [][Next]_vars
  BY PTL DEF Spec
<1> HIDE DEF P, A
<1>5. Spec => []P /\ [][A]_vars
  BY <1>1, <1>2, <1>3, <1>4, PTL
<1>6. QED
  BY <1>5 DEF ConfirmedFollows, P, A

=============================================================================
