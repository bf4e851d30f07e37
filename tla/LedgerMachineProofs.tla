------------------------ MODULE LedgerMachineProofs ------------------------
(***************************************************************************)
(* What holds in every behaviour of the ledger, whatever blocks exist and  *)
(* in whatever order they are appended, rolled back and confirmed.         *)
(*                                                                         *)
(* First the amounts: the weights in memory are those of the heads on      *)
(* disk, and no coin is created or lost by a transaction. Then these and   *)
(* the lemmas of LedgerProofs about single transactions are put together.  *)
(***************************************************************************)
EXTENDS LedgerMachine, LedgerProofs, FiniteSums

-----------------------------------------------------------------------------
(* Weights.                                                                *)

\* What an account with info i adds to the weight of r.
Share(i, r) ==
  IF i # NoInfo /\ HasRepresentative(i.head) /\ Block[i.head].rep = r
  THEN Block[i.head].balance ELSE 0

Shares(L, r) == [a \in Accounts |-> Share(L.info[a], r)]

\* The weights in memory are those a restart computes.
WeightInv(L) ==
  /\ L.weight = [r \in Accounts |-> HeadWeight(L, r)]
  /\ L.totalWeight = SumFunction(L.weight)

\* A share is an amount.
LEMMA ShareNat ==
  ASSUME NEW i \in AccountInfos \cup {NoInfo}, NEW r
  PROVE  Share(i, r) \in Nat
BY BlocksAssumption DEF Share, AccountInfos, BlockFields

\* The weight of a representative is the sum of the shares of all accounts.
LEMMA HeadWeightShares ==
  ASSUME NEW L, ChainTables(L), NEW r
  PROVE  /\ HeadWeight(L, r) = SumFunctionOnSet(Shares(L, r), Accounts)
         /\ HeadWeight(L, r) \in Nat
         /\ \A a \in Accounts : Share(L.info[a], r) <= HeadWeight(L, r)
<1> DEFINE D == {a \in Accounts : /\ L.info[a] # NoInfo
                                  /\ HasRepresentative(L.info[a].head)
                                  /\ Block[L.info[a].head].rep = r}
           f == [a \in D |-> Block[L.info[a].head].balance]
           g == Shares(L, r)
<1>1. HeadWeight(L, r) = SumFunctionOnSet(f, D)
  BY DEF HeadWeight, SumFunction
<1>2. \A a \in Accounts : g[a] \in Nat
  BY ShareNat DEF ChainTables, Shares
<1>3. D \in SUBSET Accounts /\ \A a \in Accounts \ D : g[a] = 0
  BY DEF Shares, Share
<1>4. \A a \in D : f[a] = g[a]
  BY DEF Shares, Share
<1> HIDE DEF D, f, g
<1>5. SumFunctionOnSet(g, Accounts) = SumFunctionOnSet(g, D)
  BY <1>2, <1>3, SumZeros, AccountsAssumption
<1>6. SumFunctionOnSet(f, D) = SumFunctionOnSet(g, D)
  BY <1>3, <1>4, SumSame, AccountsAssumption, FS_Subset
<1>7. /\ SumFunctionOnSet(g, Accounts) \in Nat
      /\ \A a \in Accounts : g[a] <= SumFunctionOnSet(g, Accounts)
  BY <1>2, SumNat, AccountsAssumption
<1>8. \A a \in Accounts : g[a] = Share(L.info[a], r)
  BY DEF g, Shares
<1>9. QED
  BY <1>1, <1>5, <1>6, <1>7, <1>8 DEF g

\* When one account gets another info, its share is exchanged.
LEMMA HeadWeightMoves ==
  ASSUME NEW L, ChainTables(L), NEW N, ChainTables(N), NEW own \in Accounts,
         \A a \in Accounts : a # own => N.info[a] = L.info[a], NEW r
  PROVE  HeadWeight(N, r) =
           HeadWeight(L, r) - Share(L.info[own], r) + Share(N.info[own], r)
<1> DEFINE f == Shares(L, r)
           g == Shares(N, r)
<1>1. \A a \in Accounts : f[a] = Share(L.info[a], r) /\ g[a] = Share(N.info[a], r)
  BY DEF Shares
<1>2. \A a \in Accounts : f[a] \in Int /\ g[a] \in Int
  BY <1>1, ShareNat DEF ChainTables
<1>3. \A a \in Accounts : a # own => f[a] = g[a]
  BY <1>1
<1> HIDE DEF f, g
<1>4. SumFunctionOnSet(g, Accounts) = SumFunctionOnSet(f, Accounts) - f[own] + g[own]
  BY <1>2, <1>3, SumUpdate, AccountsAssumption
<1>5. QED
  BY <1>1, <1>4, HeadWeightShares DEF f, g

\* Weights that are naturals, with their total.
Weighed(M) ==
  /\ IsLedger(M)
  /\ M.weight \in [Accounts -> Nat]
  /\ M.totalWeight = SumFunction(M.weight)

\* RepWeightSub_ keeps the total the sum of the weights,
LEMMA WeightSubtracted ==
  ASSUME NEW M, Weighed(M), NEW rep \in Accounts, NEW w \in Nat, w <= M.weight[rep]
  PROVE  LET N == RepWeightSub(M, rep, w)
         IN  /\ Weighed(N)
             /\ N.weight = [M.weight EXCEPT ![rep] = @ - w]
<1> DEFINE less == [M EXCEPT !.weight[rep] = @ - w]
           N == RepWeightSub(M, rep, w)
           f == M.weight
           g == [M.weight EXCEPT ![rep] = @ - w]
<1>1. f \in [Accounts -> Nat] /\ f[rep] - w \in Nat
  BY DEF Weighed
<1>2. less.weight = g /\ IsLedger(less) /\ less.totalWeight = M.totalWeight
  BY DEF Weighed, IsLedger
<1>3. N = [less EXCEPT !.totalWeight = M.totalWeight - w]
  <2>1. ~(w > M.weight[rep])
    BY <1>1
  <2>2. QED
    BY <2>1 DEF RepWeightSub, Weighed, IsLedger
<1> HIDE DEF less, N
<1>4. IsLedger(N) /\ N.weight = g /\ N.totalWeight = M.totalWeight - w
  BY <1>2, <1>3 DEF IsLedger
<1>5. g \in [Accounts -> Nat] /\ g[rep] = f[rep] - w
      /\ \A x \in Accounts : x # rep => f[x] = g[x]
  BY <1>1
<1>6. M.totalWeight = SumFunctionOnSet(f, Accounts) /\ SumFunctionOnSet(f, Accounts) \in Int
  <2>1. DOMAIN f = Accounts /\ \A x \in Accounts : f[x] \in Int
    BY <1>1
  <2>2. QED
    BY <2>1, SumInt, AccountsAssumption DEF Weighed, SumFunction
<1>7. SumFunction(g) = SumFunctionOnSet(f, Accounts) - f[rep] + g[rep]
  <2>1. SumFunction(g) = SumFunctionOnSet(g, Accounts)
    BY <1>5 DEF SumFunction
  <2>2. \A x \in Accounts : f[x] \in Int /\ g[x] \in Int
    BY <1>1, <1>5
  <2> HIDE DEF f, g
  <2>3. QED
    BY <1>5, <2>1, <2>2, SumUpdate, AccountsAssumption
<1> HIDE DEF f, g
<1>8. N.totalWeight = SumFunction(g)
  BY <1>1, <1>4, <1>5, <1>6, <1>7
<1>9. QED
  BY <1>4, <1>5, <1>8 DEF Weighed, N, f, g

\* and so does RepWeightAdd_.
LEMMA WeightAdded ==
  ASSUME NEW M, Weighed(M), NEW rep \in Accounts, NEW w \in Nat
  PROVE  LET N == RepWeightAdd(M, rep, w)
         IN  /\ Weighed(N)
             /\ N.weight = [M.weight EXCEPT ![rep] = @ + w]
<1> DEFINE more == [M EXCEPT !.weight[rep] = @ + w]
           N == RepWeightAdd(M, rep, w)
           f == M.weight
           g == [M.weight EXCEPT ![rep] = @ + w]
<1>1. f \in [Accounts -> Nat] /\ f[rep] + w \in Nat
  BY DEF Weighed
<1>2. more.weight = g /\ IsLedger(more) /\ more.totalWeight = M.totalWeight
  BY DEF Weighed, IsLedger
<1>3. N = [more EXCEPT !.totalWeight = M.totalWeight + w]
  BY DEF RepWeightAdd, Weighed, IsLedger
<1> HIDE DEF more, N
<1>4. IsLedger(N) /\ N.weight = g /\ N.totalWeight = M.totalWeight + w
  BY <1>2, <1>3 DEF IsLedger
<1>5. g \in [Accounts -> Nat] /\ g[rep] = f[rep] + w
      /\ \A x \in Accounts : x # rep => f[x] = g[x]
  BY <1>1
<1>6. M.totalWeight = SumFunctionOnSet(f, Accounts) /\ SumFunctionOnSet(f, Accounts) \in Int
  <2>1. DOMAIN f = Accounts /\ \A x \in Accounts : f[x] \in Int
    BY <1>1
  <2>2. QED
    BY <2>1, SumInt, AccountsAssumption DEF Weighed, SumFunction
<1>7. SumFunction(g) = SumFunctionOnSet(f, Accounts) - f[rep] + g[rep]
  <2>1. SumFunction(g) = SumFunctionOnSet(g, Accounts)
    BY <1>5 DEF SumFunction
  <2>2. \A x \in Accounts : f[x] \in Int /\ g[x] \in Int
    BY <1>1, <1>5
  <2> HIDE DEF f, g
  <2>3. QED
    BY <1>5, <2>1, <2>2, SumUpdate, AccountsAssumption
<1> HIDE DEF f, g
<1>8. N.totalWeight = SumFunction(g)
  BY <1>1, <1>4, <1>5, <1>6, <1>7
<1>9. QED
  BY <1>4, <1>5, <1>8 DEF Weighed, N, f, g

\* A ledger with the weights of L, as far as the weights go.
LEMMA ExactWeighed ==
  ASSUME NEW L, ChainTables(L), WeightInv(L), NEW M, IsLedger(M),
         M.weight = L.weight, M.totalWeight = L.totalWeight
  PROVE  Weighed(M)
<1>1. \A r \in Accounts : HeadWeight(L, r) \in Nat
  BY HeadWeightShares, SMTT(40)
<1>2. QED
  BY <1>1 DEF Weighed, WeightInv

\* The weight of a head is taken back: the branch of RepWeightSub for an entry
\* that is too small is never taken.
LEMMA HeadRetracted ==
  ASSUME NEW L, ChainTables(L), WeightInv(L), NEW M, IsLedger(M),
         M.weight = L.weight, M.totalWeight = L.totalWeight,
         NEW own \in Accounts, L.info[own] # NoInfo, HasRepresentative(L.info[own].head)
  PROVE  LET head == L.info[own].head
             N == RepWeightSub(M, Block[head].rep, Block[head].balance)
         IN  /\ Weighed(N)
             /\ \A r \in Accounts :
                  N.weight[r] = HeadWeight(L, r) - Share(L.info[own], r)
<1> DEFINE i == L.info[own]
           rep == Block[i.head].rep
           w == Block[i.head].balance
           N == RepWeightSub(M, rep, w)
<1>1. i \in AccountInfos /\ i.head \in Blocks
  BY DEF ChainTables, AccountInfos
<1>2. rep \in Accounts /\ w \in Nat
  BY <1>1, BlocksAssumption DEF BlockFields
<1>3. \A r \in Accounts : Share(i, r) = IF r = rep THEN w ELSE 0
  BY DEF Share
<1>4. \A r \in Accounts : M.weight[r] = HeadWeight(L, r) /\ HeadWeight(L, r) \in Nat
  BY HeadWeightShares DEF WeightInv
<1>5. w <= M.weight[rep]
  BY <1>2, <1>3, <1>4, HeadWeightShares
<1>6. Weighed(M)
  BY ExactWeighed, SMTT(40)
<1>7. Weighed(N) /\ N.weight = [M.weight EXCEPT ![rep] = @ - w]
  BY <1>2, <1>5, <1>6, WeightSubtracted
<1>8. M.weight \in [Accounts -> Nat]
  BY <1>6 DEF Weighed
<1> HIDE DEF rep, w, N, i
<1>9. \A r \in Accounts : N.weight[r] = HeadWeight(L, r) - Share(i, r)
  BY <1>2, <1>3, <1>4, <1>7, <1>8
<1>10. QED
  BY <1>7, <1>9 DEF rep, w, N, i

\* When the weights of N are those of L with one share exchanged, they are
\* exact again.
LEMMA WeightsMoved ==
  ASSUME NEW L, ChainTables(L), NEW N, ChainTables(N), NEW own \in Accounts,
         \A a \in Accounts : a # own => N.info[a] = L.info[a],
         Weighed(N),
         \A r \in Accounts : N.weight[r] =
           HeadWeight(L, r) - Share(L.info[own], r) + Share(N.info[own], r)
  PROVE  WeightInv(N)
<1>1. \A r \in Accounts : N.weight[r] = HeadWeight(N, r)
  BY HeadWeightMoves
<1>2. N.weight = [r \in Accounts |-> N.weight[r]]
  BY DEF Weighed
<1>3. QED
  BY <1>1, <1>2 DEF Weighed, WeightInv

\* UpdateRepInfo on a ledger that has the weights of L.
LEMMA UpdateRepWeights ==
  ASSUME NEW L, ChainTables(L), WeightInv(L), NEW M, IsLedger(M),
         M.weight = L.weight, M.totalWeight = L.totalWeight,
         NEW b \in Blocks, NEW new, new # NoInfo, new.head = b,
         LET i == L.info[Block[b].account]
         IN  i # NoInfo => (HasRepresentative(i.head) <=> HasRepresentative(b))
  PROVE  LET N == UpdateRepInfo(M, HeadOf(L, b), b)
             own == Block[b].account
         IN  /\ Weighed(N)
             /\ \A r \in Accounts :
                  N.weight[r] = HeadWeight(L, r) - Share(L.info[own], r) + Share(new, r)
<1> DEFINE own == Block[b].account
           i == L.info[own]
           head == HeadOf(L, b)
           rep == Block[b].rep
           w == Block[b].balance
           retracted == IF head = NoBlock THEN M
                        ELSE RepWeightSub(M, Block[head].rep, Block[head].balance)
           N == UpdateRepInfo(M, head, b)
<1>1. own \in Accounts /\ rep \in Accounts /\ w \in Nat
  BY BlocksAssumption DEF BlockFields
<1>2. \A r \in Accounts : M.weight[r] = HeadWeight(L, r) /\ HeadWeight(L, r) \in Nat
  BY HeadWeightShares DEF WeightInv
<1>3. \A r \in Accounts : Share(i, r) \in Nat
  BY <1>1, ShareNat DEF ChainTables
<1>4. Weighed(M)
  BY ExactWeighed
<1>5. CASE ~HasRepresentative(b)
  <2>1. N = M
    BY <1>5 DEF UpdateRepInfo
  <2>2. \A r \in Accounts : Share(i, r) = 0 /\ Share(new, r) = 0
    BY <1>5 DEF Share
  <2>3. QED
    BY <1>2, <1>4, <2>1, <2>2
<1>6. CASE HasRepresentative(b)
  <2>1. /\ Weighed(retracted)
        /\ \A r \in Accounts : retracted.weight[r] = HeadWeight(L, r) - Share(i, r)
    <3>1. CASE i = NoInfo
      <4>1. retracted = M
        BY <3>1 DEF HeadOf
      <4>2. \A r \in Accounts : Share(i, r) = 0
        BY <3>1 DEF Share
      <4>3. QED
        BY <1>2, <1>4, <4>1, <4>2
    <3>2. CASE i # NoInfo
      <4>1. head = i.head /\ i.head \in Blocks /\ i.head # NoBlock
        BY <1>1, <3>2, BlocksAssumption DEF HeadOf, ChainTables, AccountInfos
      <4>2. retracted = RepWeightSub(M, Block[i.head].rep, Block[i.head].balance)
        BY <4>1
      <4>3. HasRepresentative(i.head)
        BY <1>6, <3>2, SMTT(40)
      <4> DEFINE Back == RepWeightSub(M, Block[i.head].rep, Block[i.head].balance)
      <4>4. Weighed(Back) /\ \A r \in Accounts : Back.weight[r] = HeadWeight(L, r) - Share(i, r)
        <5>1. L.info[own] # NoInfo /\ HasRepresentative(L.info[own].head)
          BY <3>2, <4>3
        <5> HIDE DEF own
        <5>2. QED
          BY <1>1, <5>1, HeadRetracted
      <4>5. retracted = Back
        BY <4>2
      <4> HIDE DEF retracted, Back
      <4>6. QED
        BY <4>4, <4>5
    <3>3. QED
      BY <3>1, <3>2
  <2>2. N = RepWeightAdd(retracted, rep, w)
    BY <1>6 DEF UpdateRepInfo
  <2> HIDE DEF retracted, N
  <2>3. Weighed(N) /\ N.weight = [retracted.weight EXCEPT ![rep] = @ + w]
    BY <1>1, <2>1, <2>2, WeightAdded
  <2>4. \A r \in Accounts : Share(new, r) = IF r = rep THEN w ELSE 0
    BY <1>6 DEF Share
  <2>5. retracted.weight \in [Accounts -> Nat]
    BY <2>1 DEF Weighed
  <2> HIDE DEF rep, w, i
  <2>6. \A r \in Accounts :
          N.weight[r] = HeadWeight(L, r) - Share(i, r) + Share(new, r)
    BY <1>1, <1>2, <1>3, <2>1, <2>3, <2>4, <2>5
  <2>7. QED
    BY <2>3, <2>6 DEF N, i
<1>7. QED
  BY <1>5, <1>6

\* UpdateRepWeight on a ledger that has the weights of L.
LEMMA UpdateRepWeightsBack ==
  ASSUME NEW L, ChainTables(L), WeightInv(L), NEW M, IsLedger(M),
         M.weight = L.weight, M.totalWeight = L.totalWeight,
         NEW b \in Blocks, L.info[Block[b].account] # NoInfo,
         L.info[Block[b].account].head = b,
         NEW new, Block[b].height = 0 => new = NoInfo,
         Block[b].height # 0 =>
           /\ new # NoInfo /\ new.head = Block[b].previous
           /\ Block[b].previous \in Blocks
           /\ HasRepresentative(Block[b].previous) <=> HasRepresentative(b)
  PROVE  LET N == UpdateRepWeight(M, b)
             own == Block[b].account
         IN  /\ Weighed(N)
             /\ \A r \in Accounts :
                  N.weight[r] = HeadWeight(L, r) - Share(L.info[own], r) + Share(new, r)
<1> DEFINE own == Block[b].account
           i == L.info[own]
           prev == Block[b].previous
           rep == Block[prev].rep
           w == Block[prev].balance
           retracted == RepWeightSub(M, Block[b].rep, Block[b].balance)
           N == UpdateRepWeight(M, b)
<1>1. own \in Accounts
  BY BlocksAssumption DEF BlockFields
<1>2. \A r \in Accounts : M.weight[r] = HeadWeight(L, r) /\ HeadWeight(L, r) \in Nat
  BY HeadWeightShares DEF WeightInv
<1>3. \A r \in Accounts : Share(i, r) \in Nat
  BY <1>1, ShareNat DEF ChainTables
<1>4. Weighed(M)
  BY ExactWeighed
<1>5. CASE ~HasRepresentative(b)
  <2>1. N = M
    BY <1>5 DEF UpdateRepWeight
  <2>2. \A r \in Accounts : Share(i, r) = 0 /\ Share(new, r) = 0
    BY <1>5 DEF Share
  <2>3. QED
    BY <1>2, <1>4, <2>1, <2>2
<1>6. CASE HasRepresentative(b)
  <2>1. /\ Weighed(retracted)
        /\ \A r \in Accounts : retracted.weight[r] = HeadWeight(L, r) - Share(i, r)
    BY <1>1, <1>6, HeadRetracted
  <2>2. CASE Block[b].height = 0
    <3>1. N = retracted
      BY <1>6, <2>2 DEF UpdateRepWeight
    <3>2. \A r \in Accounts : Share(new, r) = 0
      BY <2>2 DEF Share
    <3> HIDE DEF retracted, N
    <3>3. QED
      BY <1>2, <1>3, <2>1, <3>1, <3>2 DEF N
  <2>3. CASE Block[b].height # 0
    <3>1. rep \in Accounts /\ w \in Nat
      BY <2>3, BlocksAssumption DEF BlockFields
    <3>2. N = RepWeightAdd(retracted, rep, w)
      BY <1>6, <2>3 DEF UpdateRepWeight
    <3> HIDE DEF retracted, N
    <3>3. Weighed(N) /\ N.weight = [retracted.weight EXCEPT ![rep] = @ + w]
      BY <2>1, <3>1, <3>2, WeightAdded
    <3>4. \A r \in Accounts : Share(new, r) = IF r = rep THEN w ELSE 0
      BY <1>6, <2>3 DEF Share
    <3>5. retracted.weight \in [Accounts -> Nat]
      BY <2>1 DEF Weighed
    <3> HIDE DEF rep, w, i
    <3>6. \A r \in Accounts :
            N.weight[r] = HeadWeight(L, r) - Share(i, r) + Share(new, r)
      BY <1>2, <1>3, <2>1, <3>1, <3>3, <3>4, <3>5
    <3>7. QED
      BY <3>3, <3>6 DEF N, i
  <2>4. QED
    BY <2>2, <2>3
<1>7. QED
  BY <1>5, <1>6

\* What the rest of an append and of a rollback does to the weights: nothing.
SameWeights(M, N) ==
  IsLedger(N) /\ N.weight = M.weight /\ N.totalWeight = M.totalWeight

\* Of an append, UpdateRepInfo alone touches the weights,
LEMMA AppendWeights ==
  ASSUME NEW L, IsLedger(L), NEW b
  PROVE  \E M : /\ SameWeights(L, M)
                /\ IsLedger(UpdateRepInfo(M, HeadOf(L, b), b)) =>
                     SameWeights(UpdateRepInfo(M, HeadOf(L, b), b), AppendBlock(L, b))
<1> DEFINE head == HeadOf(L, b)
           put == PutBlockSuccessor(L, b)
           chained == UpdateAccountInfo(put, b)
           weighed == UpdateRepInfo(chained, head, b)
           rewarded == PutRewardableInfo(weighed, head, b)
<1>1. AppendBlock(L, b) = ApplyOperation(rewarded, head, b)
  BY DEF AppendBlock, HeadOf
<1>2. SameWeights(L, put)
  <2> DEFINE more == [L EXCEPT !.stored = @ \cup {b}]
  <2>1. SameWeights(L, more)
    BY DEF IsLedger, SameWeights
  <2>2. put = [more EXCEPT !.successor = put.successor]
    BY DEF IsLedger, PutBlockSuccessor
  <2> HIDE DEF more, put
  <2>3. QED
    BY <2>1, <2>2 DEF IsLedger, SameWeights
<1>3. SameWeights(L, chained)
  <2> HIDE DEF put
  <2>1. QED
    BY <1>2 DEF IsLedger, UpdateAccountInfo, SameWeights
<1> HIDE DEF chained, weighed
<1>4. IsLedger(weighed) => SameWeights(weighed, rewarded)
  BY DEF SameWeights, IsLedger, PutRewardableInfo
<1> HIDE DEF rewarded
<1>5. IsLedger(rewarded) => SameWeights(rewarded, ApplyOperation(rewarded, head, b))
  BY DEF SameWeights, IsLedger, ApplyOperation, BindingPut
<1>6. IsLedger(weighed) => SameWeights(weighed, AppendBlock(L, b))
  BY <1>1, <1>4, <1>5 DEF SameWeights
<1>7. QED
  BY <1>3, <1>6 DEF weighed

\* and of a rollback, UpdateRepWeight alone.
LEMMA RollbackWeights ==
  ASSUME NEW L, IsLedger(L), NEW b
  PROVE  \E M : /\ SameWeights(L, M)
                /\ RollbackBlock(L, b) = UpdateRepWeight(M, b)
<1> DEFINE reverted == RevertOperation(L, b)
           deleted == DeleteBlockSuccessor(reverted, b)
           archived == PutRollbackBlock(deleted, b)
           retracted == RetractAccountInfo(archived, b)
           unrewarded == DeleteRewardableInfo(retracted, b)
<1>1. SameWeights(L, reverted)
  BY DEF SameWeights, IsLedger, RevertOperation, BindingDel
<1> HIDE DEF reverted
<1>2. SameWeights(L, deleted)
  <2> DEFINE less == [reverted EXCEPT !.stored = @ \ {b}]
  <2>1. SameWeights(L, less)
    BY <1>1 DEF IsLedger, SameWeights
  <2>2. deleted = [less EXCEPT !.successor = deleted.successor]
    BY <1>1 DEF IsLedger, SameWeights, DeleteBlockSuccessor
  <2> HIDE DEF less, deleted
  <2>3. QED
    BY <2>1, <2>2 DEF IsLedger, SameWeights
<1> HIDE DEF deleted
<1>3. SameWeights(L, archived)
  BY <1>2 DEF IsLedger, SameWeights, PutRollbackBlock
<1> HIDE DEF archived
<1>4. SameWeights(L, retracted)
  BY <1>3 DEF IsLedger, SameWeights, RetractAccountInfo
<1> HIDE DEF retracted
<1>5. SameWeights(L, unrewarded)
  BY <1>4 DEF IsLedger, SameWeights, DeleteRewardableInfo
<1>6. RollbackBlock(L, b) = UpdateRepWeight(unrewarded, b)
  BY DEF RollbackBlock, reverted, deleted, archived, retracted
<1>7. QED
  BY <1>5, <1>6

\* A new ledger has the weight of the genesis block.
LEMMA InitWeightInv == WeightInv(InitLedger)
<1> DEFINE L == InitLedger
           own == Block[Genesis].account
           rep == Block[Genesis].rep
           w == Block[Genesis].balance
<1>1. ChainTables(L)
  BY InitChainInv DEF ChainInv
<1>2. Genesis \in Blocks /\ own \in Accounts /\ rep \in Accounts /\ w \in Nat
  BY GenesisAssumption, BlocksAssumption DEF BlockFields
<1>3. /\ L.info = [a \in Accounts |-> IF a = own THEN NewInfo(Genesis) ELSE NoInfo]
      /\ L.weight = [a \in Accounts |-> IF a = rep THEN w ELSE 0]
      /\ L.totalWeight = w
  BY DEF InitLedger
<1>4. NewInfo(Genesis) # NoInfo /\ NewInfo(Genesis).head = Genesis
  <2>1. NewInfo(Genesis) \in AccountInfos
    BY <1>2, BlocksAssumption DEF NewInfo, AccountInfos, BlockFields, INVALID_HEIGHT
  <2>2. QED
    BY <2>1, NoInfoAssumption DEF NewInfo
<1>5. HasRepresentative(Genesis)
  BY GenesisAssumption DEF HasRepresentative
<1> HIDE DEF L, own, rep, w
<1>6. ASSUME NEW r \in Accounts
      PROVE  HeadWeight(L, r) = IF r = rep THEN w ELSE 0
  <2> DEFINE f == Shares(L, r)
  <2>1. f[own] = IF r = rep THEN w ELSE 0
    BY <1>2, <1>3, <1>4, <1>5 DEF Shares, Share, rep, w
  <2>2. \A x \in Accounts : x # own => f[x] = 0
    BY <1>3 DEF Shares, Share
  <2> HIDE DEF f
  <2>3. SumFunctionOnSet(f, Accounts) = f[own]
    BY <1>2, <2>1, <2>2, SumSingle, AccountsAssumption
  <2>4. QED
    BY <1>1, <2>1, <2>3, HeadWeightShares DEF f
<1>7. L.weight = [r \in Accounts |-> HeadWeight(L, r)]
  BY <1>3, <1>6
<1>8. SumFunction(L.weight) = w
  <2> DEFINE f == L.weight
  <2>1. DOMAIN f = Accounts /\ f[rep] = w /\ \A x \in Accounts : x # rep => f[x] = 0
    BY <1>2, <1>3
  <2> HIDE DEF f
  <2>2. SumFunctionOnSet(f, Accounts) = f[rep]
    BY <1>2, <2>1, SumSingle, AccountsAssumption
  <2>3. QED
    BY <2>1, <2>2 DEF SumFunction, f
<1>9. QED
  BY <1>3, <1>7, <1>8 DEF WeightInv, L

\* After an append the new block is the head of its account.
LEMMA AppendedInfo ==
  ASSUME NEW L, ChainInv(L), NEW b \in Blocks,
         NEW now, AppendCode(L, b, now) = "SUCCESS"
  PROVE  LET own == Block[b].account
             N == AppendBlock(L, b)
         IN  /\ N.info[own] # NoInfo /\ N.info[own].head = b
             /\ \A a \in Accounts : a # own => N.info[a] = L.info[a]
<1> DEFINE own == Block[b].account
           i == L.info[own]
           N == AppendBlock(L, b)
           new == N.info[own]
<1>1. ChainTables(L) /\ IsLedger(L) /\ own \in Accounts
  BY BlocksAssumption DEF ChainInv, ChainTables, BlockFields
<1>2. ChainInv(N)
  BY AppendChainInv
<1>3. N.info = UpdateAccountInfo(L, b).info /\ N.stored = L.stored \cup {b}
  BY <1>1, AppendEffect
<1> DEFINE x == IF i = NoInfo THEN NewInfo(b)
                ELSE [i EXCEPT !.head = b, !.headHeight = Block[b].height]
<1>4. UpdateAccountInfo(L, b) = [L EXCEPT !.info[own] = x]
  BY <1>1 DEF UpdateAccountInfo
<1>5. x.head = b
  BY <1>1 DEF NewInfo, ChainTables, AccountInfos
<1>6. L.info \in [Accounts -> AccountInfos \cup {NoInfo}]
  BY <1>1 DEF ChainTables
<1> HIDE DEF x
<1>7. N.info = [L.info EXCEPT ![own] = x]
  BY <1>1, <1>3, <1>4 DEF IsLedger
<1>8. new.head = b /\ \A a \in Accounts : a # own => N.info[a] = L.info[a]
  BY <1>1, <1>5, <1>6, <1>7
<1>9. new # NoInfo
  <2>1. Chained(N, own)
    BY <1>1, <1>2 DEF ChainInv
  <2>2. b \in ChainOf(N, own)
    BY <1>3 DEF ChainOf
  <2>3. QED
    BY <2>1, <2>2 DEF Chained
<1>10. QED
  BY <1>8, <1>9

\* An append moves the balance of the account to the new representative.
LEMMA AppendWeightInv ==
  ASSUME NEW L, ChainInv(L), WeightInv(L), NEW b \in Blocks,
         NEW now, AppendCode(L, b, now) = "SUCCESS"
  PROVE  WeightInv(AppendBlock(L, b))
<1> DEFINE own == Block[b].account
           i == L.info[own]
           N == AppendBlock(L, b)
           new == N.info[own]
           head == HeadOf(L, b)
<1>1. ChainTables(L) /\ IsLedger(L) /\ own \in Accounts
  BY BlocksAssumption DEF ChainInv, ChainTables, BlockFields
<1>2. ChainTables(N) /\ IsLedger(N)
  BY AppendChainInv DEF ChainInv, ChainTables
<1>3. new # NoInfo /\ new.head = b /\ \A a \in Accounts : a # own => N.info[a] = L.info[a]
  BY AppendedInfo
<1>4. i # NoInfo => (HasRepresentative(i.head) <=> HasRepresentative(b))
  <2>1. i # NoInfo => Block[b].type = i.type
    BY <1>1, AppendChecked
  <2>2. i # NoInfo => Block[i.head].type = i.type
    BY <1>1 DEF ChainInv, Chained
  <2>3. QED
    BY <2>1, <2>2 DEF HasRepresentative
<1>5. PICK M : /\ SameWeights(L, M)
               /\ IsLedger(UpdateRepInfo(M, head, b)) =>
                    SameWeights(UpdateRepInfo(M, head, b), N)
  BY <1>1, AppendWeights
<1> DEFINE W == UpdateRepInfo(M, head, b)
<1> HIDE DEF N, head
<1>6. IsLedger(M) /\ M.weight = L.weight /\ M.totalWeight = L.totalWeight
  BY <1>5 DEF SameWeights
<1>7. /\ Weighed(W)
      /\ \A r \in Accounts : W.weight[r] = HeadWeight(L, r) - Share(i, r) + Share(new, r)
  BY <1>1, <1>3, <1>4, <1>6, UpdateRepWeights DEF head
<1>8. /\ Weighed(N)
      /\ \A r \in Accounts : N.weight[r] = HeadWeight(L, r) - Share(i, r) + Share(new, r)
  BY <1>5, <1>7 DEF SameWeights, Weighed
<1>9. QED
  BY <1>1, <1>2, <1>3, <1>8, WeightsMoved DEF N

\* After a rollback the block before is the head again.
LEMMA RetractedInfo ==
  ASSUME NEW L, ChainInv(L), NEW b \in Blocks, RollbackCode(L, b) = "SUCCESS"
  PROVE  LET own == Block[b].account
             prev == Block[b].previous
             new == RollbackBlock(L, b).info[own]
         IN  /\ b \in L.stored /\ L.info[own] # NoInfo /\ L.info[own].head = b
             /\ Block[b].height = 0 => new = NoInfo
             /\ Block[b].height # 0 =>
                  /\ prev \in L.stored /\ new # NoInfo /\ new.head = prev
                  /\ HasRepresentative(prev) <=> HasRepresentative(b)
             /\ \A a \in Accounts : a # own => RollbackBlock(L, b).info[a] = L.info[a]
<1> DEFINE own == Block[b].account
           i == L.info[own]
           prev == Block[b].previous
           N == RollbackBlock(L, b)
           new == N.info[own]
<1>1. ChainTables(L) /\ IsLedger(L) /\ own \in Accounts
  BY BlocksAssumption DEF ChainInv, ChainTables, BlockFields
<1>2. ChainInv(N)
  BY RollbackChainInv
<1>3. N.info = RetractAccountInfo(L, b).info
  BY <1>1, RollbackEffect
<1> DEFINE x == IF Block[b].height = 0 THEN NoInfo
         ELSE [type |-> i.type, head |-> prev, headHeight |-> Block[b].height - 1,
               confirmed |-> IF i.confirmed > Block[b].height - 1
                             THEN INVALID_HEIGHT ELSE i.confirmed]
<1>4. RetractAccountInfo(L, b) = [L EXCEPT !.info[own] = x]
  BY DEF RetractAccountInfo
<1>5. /\ Block[b].height = 0 => x = NoInfo
      /\ Block[b].height # 0 => x.head = prev
  OBVIOUS
<1>6. L.info \in [Accounts -> AccountInfos \cup {NoInfo}]
  BY <1>1 DEF ChainTables
<1> HIDE DEF x
<1>7. N.info = [L.info EXCEPT ![own] = x]
  BY <1>1, <1>3, <1>4 DEF IsLedger
<1>8. new = x /\ \A a \in Accounts : a # own => N.info[a] = L.info[a]
  BY <1>1, <1>6, <1>7
<1>9. b \in L.stored /\ i # NoInfo /\ i.head = b /\ i.headHeight = Block[b].height
  BY <1>1, RollbackChecked
<1>10. ASSUME Block[b].height # 0
       PROVE  /\ prev \in L.stored /\ new # NoInfo
              /\ HasRepresentative(prev) <=> HasRepresentative(b)
  <2>1. Chained(L, own) /\ b \in ChainOf(L, own)
    BY <1>1, <1>9 DEF ChainInv, ChainOf
  <2>2. prev \in ChainOf(L, own) /\ Block[prev].type = Block[b].type
    BY <1>9, <1>10, <2>1 DEF Chained
  <2>3. prev # b
    <3>1. Block[prev].height = Block[b].height - 1
      BY <1>9, <1>10, <2>1 DEF Chained
    <3>2. Block[b].height \in Nat
      BY BlocksAssumption DEF BlockFields
    <3>3. QED
      BY <3>1, <3>2
  <2>4. prev \in ChainOf(N, own)
    BY <1>1, <2>2, <2>3, RollbackEffect DEF ChainOf
  <2>5. Chained(N, own)
    BY <1>1, <1>2 DEF ChainInv
  <2>6. new # NoInfo
    BY <2>4, <2>5 DEF Chained
  <2>7. QED
    BY <2>2, <2>6 DEF HasRepresentative, ChainOf
<1>11. QED
  BY <1>5, <1>8, <1>9, <1>10

\* A rollback moves the balance back.
LEMMA RollbackWeightInv ==
  ASSUME NEW L, ChainInv(L), WeightInv(L), NEW b \in Blocks, RollbackCode(L, b) = "SUCCESS"
  PROVE  WeightInv(RollbackBlock(L, b))
<1> DEFINE own == Block[b].account
           i == L.info[own]
           prev == Block[b].previous
           N == RollbackBlock(L, b)
           new == N.info[own]
<1>1. ChainTables(L) /\ IsLedger(L) /\ own \in Accounts
  BY BlocksAssumption DEF ChainInv, ChainTables, BlockFields
<1>2. ChainTables(N) /\ IsLedger(N)
  BY RollbackChainInv DEF ChainInv, ChainTables
<1>3. /\ i # NoInfo /\ i.head = b
      /\ Block[b].height = 0 => new = NoInfo
      /\ Block[b].height # 0 =>
           /\ prev \in Blocks /\ new # NoInfo /\ new.head = prev
           /\ HasRepresentative(prev) <=> HasRepresentative(b)
      /\ \A a \in Accounts : a # own => N.info[a] = L.info[a]
  BY <1>1, RetractedInfo DEF ChainTables
<1>4. PICK M : SameWeights(L, M) /\ N = UpdateRepWeight(M, b)
  BY <1>1, RollbackWeights
<1> HIDE DEF N
<1>5. IsLedger(M) /\ M.weight = L.weight /\ M.totalWeight = L.totalWeight
  BY <1>4 DEF SameWeights
<1>6. /\ Weighed(N)
      /\ \A r \in Accounts : N.weight[r] = HeadWeight(L, r) - Share(i, r) + Share(new, r)
  BY <1>1, <1>3, <1>4, <1>5, UpdateRepWeightsBack
<1>7. QED
  BY <1>1, <1>2, <1>3, <1>6, WeightsMoved DEF N

\* The weights depend on the heads of the accounts alone.
LEMMA SameHeadWeights ==
  ASSUME NEW L, ChainTables(L), NEW N, ChainTables(N),
         \A a \in Accounts : /\ (N.info[a] = NoInfo) <=> (L.info[a] = NoInfo)
                             /\ L.info[a] # NoInfo => N.info[a].head = L.info[a].head,
         NEW r
  PROVE  HeadWeight(N, r) = HeadWeight(L, r)
<1>1. ASSUME NEW a \in Accounts
      PROVE  Share(N.info[a], r) = Share(L.info[a], r)
  <2> DEFINE i == L.info[a]
             j == N.info[a]
  <2>1. (j = NoInfo <=> i = NoInfo) /\ (i # NoInfo => j.head = i.head)
    OBVIOUS
  <2> HIDE DEF i, j
  <2>2. CASE i = NoInfo
    BY <2>1, <2>2 DEF Share, i, j
  <2>3. CASE i # NoInfo
    BY <2>1, <2>3 DEF Share, i, j
  <2>4. QED
    BY <2>2, <2>3
<1>2. Shares(N, r) = Shares(L, r)
  BY <1>1 DEF Shares
<1>3. QED
  BY <1>2, HeadWeightShares

\* Confirming leaves the heads alone.
LEMMA ConfirmedHeads ==
  ASSUME NEW L, ChainInv(L), NEW b \in Blocks, ConfirmCode(L, b) = "SUCCESS",
         NEW a \in Accounts
  PROVE  LET i == L.info[a]
             j == ConfirmBlock(L, b).info[a]
         IN  /\ (j = NoInfo) <=> (i = NoInfo)
             /\ i # NoInfo => j.head = i.head
<1> DEFINE own == Block[b].account
           N == ConfirmBlock(L, b)
           new == [L.info[own] EXCEPT !.confirmed = Block[b].height]
<1>1. ChainTables(L) /\ IsLedger(L) /\ own \in Accounts /\ L.info[own] # NoInfo
  BY BlocksAssumption DEF ChainInv, ChainTables, BlockFields, ConfirmCode, AndThen, Unless
<1>2. N = L \/ N = [L EXCEPT !.info = [L.info EXCEPT ![own] = new]]
  BY <1>1 DEF ConfirmBlock, ChainTables, IsLedger
<1>3. L.info[own] \in AccountInfos
  BY <1>1 DEF ChainTables
<1>4. new.head = L.info[own].head /\ new \in AccountInfos
  BY <1>3, BlocksAssumption DEF AccountInfos, BlockFields
<1>5. new # NoInfo
  BY <1>4, NoInfoAssumption
<1> HIDE DEF new, N
<1>6. DOMAIN L.info = Accounts /\ (N.info = L.info \/ N.info = [L.info EXCEPT ![own] = new])
  BY <1>1, <1>2 DEF IsLedger, ChainTables
<1>7. (N.info[a] = NoInfo) <=> (L.info[a] = NoInfo)
  BY <1>1, <1>5, <1>6
<1>8. L.info[a] # NoInfo => N.info[a].head = L.info[a].head
  BY <1>1, <1>4, <1>6
<1>9. QED
  BY <1>7, <1>8 DEF N

\* So the weights stay exact.
LEMMA ConfirmWeightInv ==
  ASSUME NEW L, ChainInv(L), WeightInv(L), NEW b \in Blocks, ConfirmCode(L, b) = "SUCCESS"
  PROVE  WeightInv(ConfirmBlock(L, b))
<1> DEFINE N == ConfirmBlock(L, b)
<1>1. ChainTables(L) /\ IsLedger(L) /\ ChainTables(N)
  BY ConfirmChainInv DEF ChainInv, ChainTables
<1>2. N.weight = L.weight /\ N.totalWeight = L.totalWeight
  BY <1>1 DEF IsLedger, ConfirmBlock
<1>3. \A a \in Accounts : /\ (N.info[a] = NoInfo) <=> (L.info[a] = NoInfo)
                          /\ L.info[a] # NoInfo => N.info[a].head = L.info[a].head
  BY ConfirmedHeads
<1> HIDE DEF N
<1>4. \A r \in Accounts : HeadWeight(N, r) = HeadWeight(L, r)
  BY <1>1, <1>3, SameHeadWeights
<1>5. [r \in Accounts |-> HeadWeight(N, r)] = [r \in Accounts |-> HeadWeight(L, r)]
  BY <1>4
<1>6. QED
  BY <1>2, <1>5 DEF WeightInv, N

\* With exact weights a restart changes nothing.
LEMMA RestartWeights ==
  ASSUME NEW L, IsLedger(L), WeightInv(L)
  PROVE  InitMemoryTables(L) = L
<1> DEFINE w == [r \in Accounts |-> HeadWeight(L, r)]
<1>1. L.weight = w /\ L.totalWeight = SumFunction(w)
  BY DEF WeightInv
<1>2. InitMemoryTables(L) = [L EXCEPT !.weight = w, !.totalWeight = SumFunction(w)]
  BY DEF InitMemoryTables
<1> HIDE DEF w
<1>3. InitMemoryTables(L) = [L EXCEPT !.weight = L.weight, !.totalWeight = L.totalWeight]
  BY <1>1, <1>2, Zenon
<1>4. QED
  BY <1>3 DEF IsLedger

-----------------------------------------------------------------------------
(* Value.                                                                  *)

\* What an account with info i has, and what b added to that.
Holding(i) == IF i = NoInfo THEN 0 ELSE Block[i.head].balance

Gain(b) == IF Block[b].height = 0 THEN Block[b].balance
           ELSE Block[b].balance - Block[Block[b].previous].balance

\* What the checks of AppendBlock_ establish about the amounts of b.
Paid(b) ==
  LET op == Block[b].opcode
  IN  /\ Block[b].height = 0 => op \in {"RECEIVE", "REWARD"}
      /\ Block[b].height # 0 =>
           /\ Block[b].previous \in Blocks
           /\ op \in {"SEND", "DESTROY"} =>
                Block[b].balance < Block[Block[b].previous].balance
           /\ op \in {"CHANGE", "BIND"} =>
                Block[b].balance = Block[Block[b].previous].balance

\* A block moves value to or from another account, brings it into circulation
\* or takes it out of circulation, and does nothing else with it.
LEMMA BlockBalanced ==
  ASSUME NEW b \in Blocks, Paid(b), b # Genesis
  PROVE  /\ Gain(b) \in Int /\ Consumed(b) \in Int /\ TakenAmount(b) \in Int
         /\ Block[b].opcode \in {"RECEIVE", "REWARD"} =>
              Gain(b) + Consumed(b) = TakenAmount(b)
         /\ Block[b].opcode = "SEND" =>
              /\ SentAmount(b) \in Nat \ {0}
              /\ Gain(b) + Consumed(b) = 0 - SentAmount(b)
         /\ Block[b].opcode \notin {"RECEIVE", "REWARD", "SEND"} =>
              Gain(b) + Consumed(b) = 0
<1> DEFINE new == Block[b].balance
           old == Block[Block[b].previous].balance
           op == Block[b].opcode
           open == OpenAmount(b)
<1>1. new \in Nat /\ Block[b].credit \in Nat /\ Block[b].time \in Nat /\ op \in Opcodes
  BY BlocksAssumption DEF BlockFields
<1>2. Block[b].height # 0 => old \in Nat
  BY BlocksAssumption DEF BlockFields, Paid
<1>3. CreditPrice(Block[b].time) \in Nat
  BY ParametersAssumption DEF CreditPrice
<1>4. open \in Int
  BY <1>1, <1>3 DEF OpenAmount
<1>5. CASE Block[b].height = 0
  <2>1. op \in {"RECEIVE", "REWARD"}
    BY <1>5 DEF Paid
  <2>2. Gain(b) = new /\ Consumed(b) = open - new /\ TakenAmount(b) = open
    BY <1>5 DEF Gain, Consumed, TakenAmount
  <2> HIDE DEF new, open
  <2>3. QED
    BY <1>1, <1>4, <2>1, <2>2
<1>6. CASE Block[b].height # 0
  <2>1. /\ Gain(b) = new - old /\ TakenAmount(b) = new - old
        /\ SentAmount(b) = old - new
        /\ Consumed(b) = IF op \in {"CREDIT", "DESTROY"} THEN old - new ELSE 0
    BY <1>6 DEF Gain, Consumed, TakenAmount, SentAmount
  <2>2. /\ op \in {"SEND", "DESTROY"} => new < old
        /\ op \in {"CHANGE", "BIND"} => new = old
    BY <1>6 DEF Paid
  <2>3. op \in {"SEND", "RECEIVE", "CHANGE", "CREDIT", "REWARD", "BIND", "DESTROY"}
    BY <1>1 DEF Opcodes, CheckOpcode, Types
  <2>4. old \in Nat
    BY <1>2, <1>6
  <2> HIDE DEF new, old, op
  <2>5. QED
    BY <1>1, <2>1, <2>2, <2>3, <2>4 DEF op
<1>7. QED
  BY <1>5, <1>6

\* A block that passes the checks is paid for.
LEMMA AppendPaid ==
  ASSUME NEW L, ChainTables(L), NEW b \in Blocks,
         NEW now, AppendCode(L, b, now) = "SUCCESS"
  PROVE  /\ Paid(b)
         /\ Gain(b) = Block[b].balance - Holding(L.info[Block[b].account])
<1> DEFINE info == L.info[Block[b].account]
           op == Block[b].opcode
<1>1. Block[b].account \in Accounts /\ Block[b].balance \in Nat
  BY BlocksAssumption DEF BlockFields
<1>2. CASE info = NoInfo
  <2>1. Block[b].height = 0
    BY <1>2, AppendChecked
  <2>2. op \in {"RECEIVE", "REWARD"}
    BY <1>2, TakeChecked
  <2>3. QED
    BY <1>1, <1>2, <2>1, <2>2 DEF Paid, Gain, Holding
<1>3. CASE info # NoInfo
  <2>1. info \in AccountInfos
    BY <1>1, <1>3 DEF ChainTables
  <2>2. /\ info.head \in Blocks /\ Block[b].previous = info.head
        /\ Block[b].height = info.headHeight + 1 /\ info.headHeight \in Nat
    BY <1>3, <2>1, AppendChecked DEF AccountInfos
  <2>3. CheckOperation(L, info.head, b) = "SUCCESS"
    BY <1>3 DEF AppendCode, AndThen
  <2>4. Block[info.head].balance \in Nat
    BY <2>2, BlocksAssumption DEF BlockFields
  <2>5. op \in {"SEND", "DESTROY"} => Block[b].balance < Block[info.head].balance
    <3>1. SUFFICES ASSUME op \in {"SEND", "DESTROY"}
                   PROVE  Block[b].balance < Block[info.head].balance
      BY SMTT(40)
    <3>2. CheckOperation(L, info.head, b)
            = Unless(Block[b].balance >= Block[info.head].balance, "BALANCE")
      BY <3>1 DEF CheckOperation
    <3>3. ~(Block[b].balance >= Block[info.head].balance)
      BY <2>3, <3>2 DEF Unless
    <3>4. QED
      BY <1>1, <2>4, <3>3
  <2>6. op = "CHANGE" => Block[b].balance = Block[info.head].balance
    BY <2>3 DEF CheckOperation, AndThen, Unless
  <2>7. op = "BIND" => Block[b].balance = Block[info.head].balance
    BY <2>3 DEF CheckOperation, AndThen, Unless
  <2>8. Block[b].height # 0
    BY <2>2
  <2>9. QED
    BY <1>3, <2>2, <2>5, <2>6, <2>7, <2>8 DEF Paid, Gain, Holding
<1>4. QED
  BY <1>2, <1>3

\* What the tables hold, beside what TablesInv says of them: they name blocks
\* and accounts that exist, only stored blocks have successors, and the genesis
\* block never goes.
SoundInv(L) ==
  /\ TablesInv(L)
  /\ \A x \in Blocks : x \notin L.stored => L.successor[x] = NoBlock
  /\ Genesis \in L.stored
  /\ \A b \in L.stored : Paid(b)
  /\ \A r \in L.receivable \cup L.rewardable : r.source \in Blocks
  /\ L.bindings \subseteq Accounts \X Nat
  /\ L.bindingCount \in [Accounts -> Int]
  /\ L.rollbacks \subseteq Blocks

\* A new ledger is sound.
LEMMA InitSoundInv == SoundInv(InitLedger)
<1>1. TablesInv(InitLedger)
  BY InitTables
<1>2. Paid(Genesis)
  BY GenesisAssumption DEF Paid
<1>3. QED
  BY <1>1, <1>2 DEF SoundInv, InitLedger

\* Appending keeps the ledger sound.
LEMMA AppendSoundInv ==
  ASSUME NEW L, SoundInv(L), NEW b \in Blocks,
         NEW now, AppendCode(L, b, now) = "SUCCESS"
  PROVE  SoundInv(AppendBlock(L, b))
<1> DEFINE N == AppendBlock(L, b)
           a == Block[b].account
           head == HeadOf(L, b)
<1>1. TablesInv(L) /\ ChainTables(L) /\ IsLedger(L)
  BY DEF SoundInv, TablesInv, ChainInv, ChainTables
<1>2. TablesInv(N)
  BY <1>1, AppendTablesInv
<1>3. N.stored = L.stored \cup {b} /\ N.rollbacks = L.rollbacks
  BY <1>1, AppendEffect
<1>4. Paid(b)
  BY <1>1, AppendPaid
<1>5. a \in Accounts /\ Block[b].height \in Nat
  BY BlocksAssumption DEF BlockFields
<1>6. head # NoBlock => head \in Blocks
  BY <1>1, <1>5 DEF HeadOf, ChainTables, AccountInfos
<1>7. ASSUME NEW r \in N.receivable
      PROVE  r.source \in Blocks
  <2>1. N.receivable = AppendedReceivable(L, b)
    BY <1>1, AppendTables
  <2>2. r \in L.receivable \/ r.source = b
    BY <2>1 DEF AppendedReceivable, ReceivablePut, ReceivableInfo
  <2>3. QED
    BY <2>2 DEF SoundInv
<1>8. ASSUME NEW r \in N.rewardable
      PROVE  r.source \in Blocks
  <2>1. N.rewardable = AppendedRewardable(L, b)
    BY <1>1, AppendTables
  <2>2. r \in ReleasedRewardable(L, b)
    BY <2>1 DEF AppendedRewardable
  <2>3. r \in L.rewardable \/ (head # NoBlock /\ r.source = head)
    BY <2>2 DEF ReleasedRewardable, RewardablePut, RewardableInfo
  <2>4. QED
    BY <1>6, <2>3 DEF SoundInv
<1>9. N.bindings \subseteq Accounts \X Nat /\ N.bindingCount \in [Accounts -> Int]
  <2>1. CASE Block[b].opcode = "BIND"
    <3>1. /\ N.bindings = L.bindings \cup {<<a, Block[b].height>>}
          /\ N.bindingCount = [L.bindingCount EXCEPT ![a] = L.bindingCount[a] + 1]
      BY <1>1, <2>1, AppendTables
    <3>2. QED
      BY <1>5, <3>1 DEF SoundInv
  <2>2. CASE Block[b].opcode # "BIND"
    <3>1. N.bindings = L.bindings /\ N.bindingCount = L.bindingCount
      BY <1>1, <2>2, AppendTables
    <3>2. QED
      BY <3>1 DEF SoundInv
  <2>3. QED
    BY <2>1, <2>2
<1>10. ASSUME NEW x \in Blocks, x \notin N.stored
       PROVE  N.successor[x] = NoBlock
  <2>1. N.successor = PutBlockSuccessor(L, b).successor
    BY <1>1, AppendEffect
  <2>2. PutBlockSuccessor(L, b).successor =
          [y \in Blocks |-> IF y = b THEN NoBlock
                            ELSE IF y = Block[b].previous THEN b ELSE L.successor[y]]
    BY <1>1 DEF PutBlockSuccessor, IsLedger
  <2>3. Block[b].previous = NoBlock \/ Block[b].previous \in L.stored
    <3>1. L.info[a] # NoInfo => L.info[a].head \in L.stored
      BY <1>1, <1>5 DEF TablesInv, ChainInv, Chained, ChainOf
    <3>2. QED
      BY <1>1, <3>1, AppendChecked
  <2>4. x # Block[b].previous /\ x \notin L.stored
    BY <1>3, <1>10, <2>3, BlocksAssumption
  <2> HIDE DEF N
  <2>5. QED
    BY <1>10, <2>1, <2>2, <2>4 DEF SoundInv
<1>11. QED
  BY <1>2, <1>3, <1>4, <1>7, <1>8, <1>9, <1>10 DEF SoundInv

\* The genesis block names no source, so it is never rolled back.
LEMMA GenesisStays ==
  ASSUME NEW L, ChainTables(L), NEW b \in Blocks, RollbackCode(L, b) = "SUCCESS"
  PROVE  b # Genesis
<1>1. SUFFICES ASSUME b = Genesis PROVE FALSE
  OBVIOUS
<1>2. Block[Genesis].link \in L.stored
  BY <1>1, RevertChecked, GenesisAssumption
<1>3. Block[Genesis].link \in Accounts
  BY GenesisAssumption, BlocksAssumption DEF BlockFields
<1>4. QED
  BY <1>2, <1>3, BlocksAssumption DEF ChainTables

\* So does rolling back.
LEMMA RollbackSoundInv ==
  ASSUME NEW L, SoundInv(L), NEW b \in Blocks, RollbackCode(L, b) = "SUCCESS"
  PROVE  SoundInv(RollbackBlock(L, b))
<1> DEFINE N == RollbackBlock(L, b)
           a == Block[b].account
           source == Block[b].link
<1>1. TablesInv(L) /\ ChainTables(L) /\ IsLedger(L)
  BY DEF SoundInv, TablesInv, ChainInv, ChainTables
<1>2. TablesInv(N)
  BY <1>1, RollbackTablesInv
<1>3. N.stored = L.stored \ {b} /\ N.rollbacks = L.rollbacks \cup {b}
  BY <1>1, RollbackEffect
<1>4. b # Genesis
  BY <1>1, GenesisStays
<1>5. a \in Accounts
  BY BlocksAssumption DEF BlockFields
<1>6. Block[b].opcode \in {"RECEIVE", "REWARD"} => source \in Blocks
  BY <1>1, RevertChecked DEF ChainTables
<1>7. ASSUME NEW r \in N.receivable
      PROVE  r.source \in Blocks
  <2>1. N.receivable = RevertedReceivable(L, b)
    BY <1>1, RollbackTables
  <2>2. r \in L.receivable \/ (Block[b].opcode = "RECEIVE" /\ r.source = source)
    BY <2>1 DEF RevertedReceivable, ReceivablePut, ReceivableInfo
  <2>3. QED
    BY <1>6, <2>2 DEF SoundInv
<1>8. ASSUME NEW r \in N.rewardable
      PROVE  r.source \in Blocks
  <2>1. N.rewardable = RevertedRewardable(L, b)
    BY <1>1, RollbackTables
  <2>2. r \in ReturnedRewardable(L, b)
    BY <2>1 DEF RevertedRewardable
  <2>3. r \in L.rewardable \/ (Block[b].opcode = "REWARD" /\ r.source = source)
    BY <2>2 DEF ReturnedRewardable, RewardablePut, RewardableInfo
  <2>4. QED
    BY <1>6, <2>3 DEF SoundInv
<1>9. N.bindings \subseteq Accounts \X Nat /\ N.bindingCount \in [Accounts -> Int]
  <2>1. CASE Block[b].opcode = "BIND"
    <3>1. /\ N.bindings = L.bindings \ {<<a, Block[b].height>>}
          /\ N.bindingCount = [L.bindingCount EXCEPT ![a] = L.bindingCount[a] - 1]
      BY <1>1, <2>1, RollbackTables
    <3>2. QED
      BY <1>5, <3>1 DEF SoundInv
  <2>2. CASE Block[b].opcode # "BIND"
    <3>1. N.bindings = L.bindings /\ N.bindingCount = L.bindingCount
      BY <1>1, <2>2, RollbackTables
    <3>2. QED
      BY <3>1 DEF SoundInv
  <2>3. QED
    BY <2>1, <2>2
<1>10. ASSUME NEW x \in Blocks, x \notin N.stored
       PROVE  N.successor[x] = NoBlock
  <2>1. N.successor = DeleteBlockSuccessor(L, b).successor
    BY <1>1, RollbackEffect
  <2>2. DeleteBlockSuccessor(L, b).successor =
          [y \in Blocks |-> IF y = b \/ (Block[b].height # 0 /\ y = Block[b].previous)
                            THEN NoBlock ELSE L.successor[y]]
    BY <1>1 DEF DeleteBlockSuccessor, IsLedger
  <2>3. x = b \/ x \notin L.stored
    BY <1>3, <1>10
  <2> HIDE DEF N
  <2>4. QED
    BY <1>10, <2>1, <2>2, <2>3 DEF SoundInv
<1>11. QED
  BY <1>2, <1>3, <1>4, <1>7, <1>8, <1>9, <1>10 DEF SoundInv

\* Confirming touches nothing of this.
LEMMA ConfirmSoundInv ==
  ASSUME NEW L, SoundInv(L), NEW b \in Blocks, ConfirmCode(L, b) = "SUCCESS"
  PROVE  SoundInv(ConfirmBlock(L, b))
<1>1. TablesInv(L) /\ IsLedger(L)
  BY DEF SoundInv, TablesInv, ChainInv, ChainTables
<1>2. TablesInv(ConfirmBlock(L, b))
  BY <1>1, ConfirmTablesInv
<1>3. /\ SameTables(L, ConfirmBlock(L, b))
      /\ ConfirmBlock(L, b).stored = L.stored
      /\ ConfirmBlock(L, b).successor = L.successor
      /\ ConfirmBlock(L, b).rollbacks = L.rollbacks
  BY <1>1 DEF ConfirmBlock, IsLedger, SameTables
<1>4. QED
  BY <1>2, <1>3 DEF SoundInv, SameTables

\* What waits to be received, with the send it comes from.
LEMMA WaitingSound ==
  ASSUME NEW L, SoundInv(L)
  PROVE  /\ IsFiniteSet(L.receivable)
         /\ \A r \in L.receivable :
              /\ r.source \in L.stored /\ Block[r.source].opcode = "SEND"
              /\ r = ReceivableInfo(Block[r.source].link, r.source, SentAmount(r.source))
              /\ r.amount \in Nat
<1>1. ASSUME NEW r \in L.receivable
      PROVE  /\ r.source \in L.stored /\ Block[r.source].opcode = "SEND"
             /\ r = ReceivableInfo(Block[r.source].link, r.source, SentAmount(r.source))
             /\ r.amount \in Nat
  <2> DEFINE s == r.source
  <2>1. s \in Blocks /\ Receivable(L, s)
    BY DEF SoundInv, TablesInv
  <2>2. r \in Entries(L.receivable, s)
    BY DEF Entries
  <2>3. /\ s \in L.stored /\ Block[s].opcode = "SEND"
        /\ r = ReceivableInfo(Block[s].link, s, SentAmount(s))
    BY <2>1, <2>2 DEF Receivable
  <2>4. r.amount = SentAmount(s)
    BY <2>3 DEF ReceivableInfo
  <2>5. SentAmount(s) \in Nat
    BY <2>1, <2>3, BlockBalanced, GenesisAssumption DEF SoundInv
  <2>6. QED
    BY <2>3, <2>4, <2>5
<1> DEFINE f == [r \in L.receivable |-> r.source]
<1>2. IsFiniteSet(L.stored)
  BY DEF SoundInv, TablesInv, BoundInv
<1>3. f \in [L.receivable -> L.stored] /\ \A r, q \in L.receivable : f[r] = f[q] => r = q
  <2>1. \A r \in L.receivable :
          f[r] = r.source /\ r = ReceivableInfo(Block[f[r]].link, f[r], SentAmount(f[r]))
    BY <1>1
  <2>2. f \in [L.receivable -> L.stored]
    BY <1>1
  <2> HIDE DEF f
  <2>3. QED
    BY <2>1, <2>2, Zenon
<1>4. IsFiniteSet(L.receivable)
  <2>1. f \in Injection(L.receivable, L.stored)
    BY <1>3 DEF Injection, IsInjective
  <2> HIDE DEF f
  <2>2. QED
    BY <1>2, <2>1, FS_Injection
<1>5. QED
  BY <1>1, <1>4

\* The parts of Circulating, and the other sums of ValueConserved.
Holdings(L) == [a \in Accounts |-> Holding(L.info[a])]
Held(L) == SumFunctionOnSet(Holdings(L), Accounts)
Waiting(L) == SumFunction([r \in L.receivable |-> r.amount])
Spent(L) == SumFunction([b \in L.stored |-> Consumed(b)])

\* What an account holds is an amount.
LEMMA HoldingNat ==
  ASSUME NEW i \in AccountInfos \cup {NoInfo}
  PROVE  Holding(i) \in Nat
BY BlocksAssumption DEF Holding, AccountInfos, BlockFields

\* The accounts that are not open hold nothing.
LEMMA CirculatingParts ==
  ASSUME NEW L, ChainTables(L)
  PROVE  /\ Circulating(L) = Held(L) + Waiting(L)
         /\ Held(L) \in Int
<1> DEFINE D == {a \in Accounts : L.info[a] # NoInfo}
           f == [a \in D |-> Block[L.info[a].head].balance]
           g == Holdings(L)
<1>1. Circulating(L) = SumFunctionOnSet(f, D) + Waiting(L)
  BY DEF Circulating, Waiting, SumFunction
<1>2. \A a \in Accounts : g[a] \in Nat
  BY HoldingNat DEF ChainTables, Holdings
<1>3. D \in SUBSET Accounts /\ \A a \in Accounts \ D : g[a] = 0
  BY DEF Holdings, Holding
<1>4. \A a \in D : f[a] = g[a]
  BY DEF Holdings, Holding
<1> HIDE DEF D, f, g
<1>5. SumFunctionOnSet(g, Accounts) = SumFunctionOnSet(g, D)
  BY <1>2, <1>3, SumZeros, AccountsAssumption
<1>6. SumFunctionOnSet(f, D) = SumFunctionOnSet(g, D)
  BY <1>3, <1>4, SumSame, AccountsAssumption, FS_Subset
<1>7. SumFunctionOnSet(g, Accounts) \in Int
  BY <1>2, SumInt, AccountsAssumption
<1>8. QED
  BY <1>1, <1>5, <1>6, <1>7 DEF Held, g

\* When one account gets another info, what it holds is exchanged.
LEMMA HeldMoves ==
  ASSUME NEW L, ChainTables(L), NEW N, ChainTables(N), NEW own \in Accounts,
         \A a \in Accounts : a # own => N.info[a] = L.info[a]
  PROVE  Held(N) = Held(L) - Holding(L.info[own]) + Holding(N.info[own])
<1> DEFINE f == Holdings(L)
           g == Holdings(N)
<1>1. \A a \in Accounts : f[a] = Holding(L.info[a]) /\ g[a] = Holding(N.info[a])
  BY DEF Holdings
<1>2. \A a \in Accounts : f[a] \in Int /\ g[a] \in Int
  BY <1>1, HoldingNat DEF ChainTables
<1>3. \A a \in Accounts : a # own => f[a] = g[a]
  BY <1>1
<1> HIDE DEF f, g
<1>4. SumFunctionOnSet(g, Accounts) = SumFunctionOnSet(f, Accounts) - f[own] + g[own]
  BY <1>2, <1>3, SumUpdate, AccountsAssumption
<1>5. QED
  BY <1>1, <1>4 DEF Held, f, g

\* One entry more or less to receive.
LEMMA WaitingGrown ==
  ASSUME NEW L, NEW N, NEW e, IsFiniteSet(L.receivable), e \notin L.receivable,
         N.receivable = L.receivable \cup {e},
         \A r \in L.receivable : r.amount \in Int, e.amount \in Int
  PROVE  /\ Waiting(N) = Waiting(L) + e.amount
         /\ Waiting(L) \in Int
<1> DEFINE f == [r \in N.receivable |-> r.amount]
           g == [r \in L.receivable |-> r.amount]
<1>1. /\ DOMAIN g = L.receivable /\ DOMAIN f = L.receivable \cup {e}
      /\ f[e] = e.amount
      /\ \A r \in L.receivable : f[r] = g[r] /\ g[r] \in Int
  OBVIOUS
<1> HIDE DEF f, g
<1>2. SumFunction(f) = SumFunction(g) + f[e] /\ SumFunction(g) \in Int
  BY <1>1, SumGrown
<1>3. QED
  BY <1>1, <1>2 DEF Waiting, f, g

\* One block more or less: it spends, and a reward mints.
LEMMA SpentGrown ==
  ASSUME NEW L, NEW N, NEW b, IsFiniteSet(L.stored), b \notin L.stored,
         N.stored = L.stored \cup {b}, \A x \in N.stored : Consumed(x) \in Int
  PROVE  /\ Spent(N) = Spent(L) + Consumed(b)
         /\ Spent(L) \in Int
<1> DEFINE f == [x \in N.stored |-> Consumed(x)]
           g == [x \in L.stored |-> Consumed(x)]
<1>1. /\ DOMAIN g = L.stored /\ DOMAIN f = L.stored \cup {b}
      /\ f[b] = Consumed(b) /\ f[b] \in Int
      /\ \A x \in L.stored : f[x] = g[x] /\ g[x] \in Int
  OBVIOUS
<1> HIDE DEF f, g
<1>2. SumFunction(f) = SumFunction(g) + f[b] /\ SumFunction(g) \in Int
  BY <1>1, SumGrown
<1>3. QED
  BY <1>1, <1>2 DEF Spent, f, g

\* The same of the blocks that claim a reward.
LEMMA MintedGrown ==
  ASSUME NEW L, NEW N, NEW b, IsFiniteSet(L.stored), b \notin L.stored,
         N.stored = L.stored \cup {b}, \A x \in N.stored : TakenAmount(x) \in Int
  PROVE  /\ Minted(N) = Minted(L) + (IF Block[b].opcode = "REWARD" THEN TakenAmount(b) ELSE 0)
         /\ Minted(L) \in Int
<1> DEFINE S == {x \in L.stored : Block[x].opcode = "REWARD"}
           T == {x \in N.stored : Block[x].opcode = "REWARD"}
           f == [x \in T |-> TakenAmount(x)]
           g == [x \in S |-> TakenAmount(x)]
<1>1. Minted(N) = SumFunction(f) /\ Minted(L) = SumFunction(g)
  BY DEF Minted
<1>2. IsFiniteSet(S)
  BY FS_Subset
<1>3. \A x \in S : g[x] \in Int
  OBVIOUS
<1>4. DOMAIN g = S
  OBVIOUS
<1>5. SumFunction(g) \in Int
  <2> HIDE DEF S, g
  <2>1. QED
    BY <1>2, <1>3, <1>4, SumInt DEF SumFunction
<1>6. CASE Block[b].opcode = "REWARD"
  <2>1. T = S \cup {b} /\ b \notin S
    BY <1>6
  <2>2. f[b] = TakenAmount(b) /\ f[b] \in Int /\ DOMAIN f = S \cup {b}
    BY <2>1
  <2>3. \A x \in S : f[x] = g[x]
    BY <2>1
  <2> HIDE DEF S, T, f, g
  <2>4. SumFunction(f) = SumFunction(g) + f[b]
    BY <1>2, <1>3, <1>4, <2>1, <2>2, <2>3, SumGrown
  <2>5. QED
    BY <1>1, <1>5, <1>6, <2>2, <2>4
<1>7. CASE Block[b].opcode # "REWARD"
  <2>1. T = S
    BY <1>7
  <2>2. f = g
    BY <2>1
  <2> HIDE DEF f, g
  <2>3. QED
    BY <1>1, <1>5, <1>7, <2>2
<1>8. QED
  BY <1>6, <1>7

\* The amounts that are summed up are integers.
LEMMA AmountsInt ==
  ASSUME NEW L, SoundInv(L)
  PROVE  /\ L.stored \subseteq Blocks /\ IsFiniteSet(L.stored)
         /\ \A x \in L.stored : Consumed(x) \in Int /\ TakenAmount(x) \in Int
         /\ Held(L) \in Int /\ Waiting(L) \in Int
<1>1. L.stored \subseteq Blocks /\ IsFiniteSet(L.stored)
  BY DEF SoundInv, TablesInv, ChainInv, ChainTables, BoundInv
<1>2. ASSUME NEW x \in L.stored
      PROVE  Consumed(x) \in Int /\ TakenAmount(x) \in Int
  <2>1. CASE x # Genesis
    BY <1>1, <2>1, BlockBalanced DEF SoundInv
  <2>2. CASE x = Genesis
    <3>1. /\ Block[x].balance \in Nat /\ Block[x].credit \in Nat
          /\ Block[x].time \in Nat /\ Block[x].height = 0
      BY <2>2, GenesisAssumption, BlocksAssumption DEF BlockFields
    <3>2. CreditPrice(Block[x].time) \in Nat
      BY <3>1, ParametersAssumption DEF CreditPrice
    <3>3. OpenAmount(x) \in Int
      BY <3>1, <3>2 DEF OpenAmount
    <3>4. QED
      BY <2>2, <3>1, <3>3 DEF Consumed, TakenAmount
  <2>3. QED
    BY <2>1, <2>2
<1>3. Held(L) \in Int
  BY CirculatingParts DEF SoundInv, TablesInv, ChainInv
<1>4. Waiting(L) \in Int
  <2> DEFINE f == [r \in L.receivable |-> r.amount]
  <2>1. DOMAIN f = L.receivable /\ \A r \in L.receivable : f[r] \in Int
    BY WaitingSound
  <2> HIDE DEF f
  <2>2. SumFunctionOnSet(f, L.receivable) \in Int
    BY <2>1, SumInt, WaitingSound
  <2>3. QED
    BY <2>1, <2>2 DEF Waiting, SumFunction, f
<1>5. QED
  BY <1>1, <1>2, <1>3, <1>4

\* What an append adds to the amounts that wait.
LEMMA AppendWaiting ==
  ASSUME NEW L, SoundInv(L), NEW b \in Blocks,
         NEW now, AppendCode(L, b, now) = "SUCCESS"
  PROVE  Waiting(AppendBlock(L, b)) = Waiting(L)
           + (IF Block[b].opcode = "SEND" THEN SentAmount(b)
              ELSE IF Block[b].opcode = "RECEIVE" THEN 0 - TakenAmount(b) ELSE 0)
<1> DEFINE N == AppendBlock(L, b)
           op == Block[b].opcode
           a == Block[b].account
           source == Block[b].link
<1>1. TablesInv(L) /\ ChainTables(L) /\ IsLedger(L)
  BY DEF SoundInv, TablesInv, ChainInv, ChainTables
<1>2. b \notin L.stored
  BY <1>1, AppendChecked
<1>3. N.receivable = AppendedReceivable(L, b)
  BY <1>1, AppendTables
<1>4. \A s \in Blocks : Receivable(L, s)
  BY <1>1 DEF TablesInv
<1>5. SoundInv(N) /\ Waiting(L) \in Int
  BY AppendSoundInv, AmountsInt
<1>6. CASE op = "SEND"
  <2> DEFINE e == ReceivableInfo(source, b, Block[HeadOf(L, b)].balance - Block[b].balance)
  <2>1. \A r \in L.receivable : r.source # b
    BY <1>2, <1>4 DEF Receivable, Entries
  <2>2. e.source = b /\ e.amount = Block[HeadOf(L, b)].balance - Block[b].balance
    BY DEF ReceivableInfo
  <2>3. N.receivable = L.receivable \cup {e}
    <3> HIDE DEF e
    <3>1. N.receivable = ReceivablePut(L, e)
      BY <1>3, <1>6 DEF AppendedReceivable, e
    <3>2. ReceivableGet(L, e.to, e.source) = {}
      BY <2>1, <2>2 DEF ReceivableGet
    <3>3. QED
      BY <3>1, <3>2 DEF ReceivablePut
  <2>4. e \notin L.receivable
    <3> HIDE DEF e
    <3>1. QED
      BY <2>1, <2>2
  <2>5. HeadOf(L, b) = Block[b].previous
    BY <1>1, <1>6, TakeChecked, AppendChecked DEF HeadOf
  <2>6. e.amount = SentAmount(b)
    BY <2>2, <2>5 DEF SentAmount
  <2> HIDE DEF e, N
  <2>7. \A r \in N.receivable : r.amount \in Int
    BY <1>5, WaitingSound
  <2>8. Waiting(N) = Waiting(L) + e.amount
    BY <2>3, <2>4, <2>7, WaitingGrown, WaitingSound
  <2>9. QED
    BY <1>6, <2>6, <2>8 DEF N
<1>7. CASE op = "RECEIVE"
  <2>1. /\ source \in L.stored /\ ReceivableGet(L, a, source) # {}
        /\ \A r \in ReceivableGet(L, a, source) : r.amount = TakenAmount(b)
    BY <1>1, <1>7, TakeChecked
  <2>2. Receivable(L, source)
    BY <1>1, <1>4, <2>1 DEF ChainTables
  <2>3. PICK e : e \in ReceivableGet(L, a, source)
    BY <2>1
  <2>4. \A r \in ReceivableGet(L, a, source) : r = e
    BY <2>2, <2>3 DEF Receivable, Entries, ReceivableGet
  <2>5. e \in L.receivable /\ ReceivableGet(L, a, source) = {e}
    BY <2>3, <2>4 DEF ReceivableGet
  <2>6. N.receivable = L.receivable \ {e}
    BY <1>3, <1>7, <2>5 DEF AppendedReceivable
  <2>7. e.amount = TakenAmount(b)
    BY <2>1, <2>3
  <2> HIDE DEF N
  <2>8. /\ IsFiniteSet(N.receivable) /\ e \notin N.receivable
        /\ L.receivable = N.receivable \cup {e}
        /\ \A r \in L.receivable : r.amount \in Int
    <3>1. IsFiniteSet(N.receivable)
      BY <1>5, WaitingSound
    <3>2. \A r \in L.receivable : r.amount \in Nat
      BY WaitingSound
    <3>3. L.receivable = N.receivable \cup {e} /\ e \notin N.receivable
      BY <2>5, <2>6, Zenon
    <3>4. QED
      BY <3>1, <3>2, <3>3
  <2>9. Waiting(L) = Waiting(N) + e.amount /\ Waiting(N) \in Int
    BY <2>8, WaitingGrown
  <2>10. e.amount \in Int
    BY <2>5, <2>8
  <2>11. QED
    BY <1>7, <2>7, <2>9, <2>10 DEF N
<1>8. CASE op \notin {"SEND", "RECEIVE"}
  <2>1. N.receivable = L.receivable
    BY <1>3, <1>8 DEF AppendedReceivable
  <2> HIDE DEF N
  <2>2. Waiting(N) = Waiting(L)
    BY <2>1 DEF Waiting
  <2>3. QED
    BY <1>5, <1>8, <2>2 DEF N
<1>9. QED
  BY <1>6, <1>7, <1>8

\* What a rollback takes away from them.
LEMMA RollbackWaiting ==
  ASSUME NEW L, SoundInv(L), NEW b \in Blocks, RollbackCode(L, b) = "SUCCESS"
  PROVE  Waiting(L) = Waiting(RollbackBlock(L, b))
           + (IF Block[b].opcode = "SEND" THEN SentAmount(b)
              ELSE IF Block[b].opcode = "RECEIVE" THEN 0 - TakenAmount(b) ELSE 0)
<1> DEFINE N == RollbackBlock(L, b)
           op == Block[b].opcode
           a == Block[b].account
           source == Block[b].link
<1>1. TablesInv(L) /\ ChainTables(L) /\ IsLedger(L)
  BY DEF SoundInv, TablesInv, ChainInv, ChainTables
<1>2. b \in L.stored /\ b # Genesis
  BY <1>1, RollbackChecked, GenesisStays
<1>3. N.receivable = RevertedReceivable(L, b)
  BY <1>1, RollbackTables
<1>4. \A s \in Blocks : Receivable(L, s)
  BY <1>1 DEF TablesInv
<1>5. SoundInv(N) /\ Waiting(L) \in Int /\ Waiting(N) \in Int
  BY RollbackSoundInv, AmountsInt
<1>6. CASE op = "SEND"
  <2> DEFINE e == ReceivableInfo(source, b, SentAmount(b))
  <2>1. Entries(L.receivable, b) = {e}
    <3>1. ReceivableGet(L, source, b) # {}
      BY <1>6, RevertChecked
    <3>2. Entries(L.receivable, b) # {}
      BY <3>1 DEF ReceivableGet, Entries
    <3>3. QED
      BY <1>2, <1>4, <1>6, <3>2 DEF Receivable
  <2>2. e.to = source /\ e.source = b /\ e.amount = SentAmount(b)
    BY DEF ReceivableInfo
  <2> HIDE DEF e
  <2>3. e \in L.receivable /\ ReceivableGet(L, source, b) = {e}
    BY <2>1, <2>2 DEF Entries, ReceivableGet
  <2>4. N.receivable = L.receivable \ {e}
    BY <1>3, <1>6, <2>3 DEF RevertedReceivable
  <2> HIDE DEF N
  <2>5. /\ IsFiniteSet(N.receivable) /\ e \notin N.receivable
        /\ L.receivable = N.receivable \cup {e}
        /\ \A r \in L.receivable : r.amount \in Int
    <3>1. IsFiniteSet(N.receivable)
      BY <1>5, WaitingSound
    <3>2. \A r \in L.receivable : r.amount \in Nat
      BY WaitingSound
    <3>3. L.receivable = N.receivable \cup {e} /\ e \notin N.receivable
      BY <2>3, <2>4, Zenon
    <3>4. QED
      BY <3>1, <3>2, <3>3
  <2>6. Waiting(L) = Waiting(N) + e.amount
    BY <2>5, WaitingGrown
  <2>7. QED
    BY <1>6, <2>2, <2>6 DEF N
<1>7. CASE op = "RECEIVE"
  <2> DEFINE e == ReceivableInfo(a, source, TakenAmount(b))
  <2>1. source \in Blocks
    BY <1>1, <1>7, RevertChecked DEF ChainTables
  <2>2. b \in Takers(L, "RECEIVE", source)
    BY <1>2, <1>7 DEF Takers
  <2>3. Entries(L.receivable, source) = {}
    BY <1>4, <2>1, <2>2 DEF Receivable
  <2>4. e.source = source /\ e.amount = TakenAmount(b) /\ e.to = a
    BY DEF ReceivableInfo
  <2>5. N.receivable = L.receivable \cup {e}
    <3> HIDE DEF e
    <3>1. N.receivable = ReceivablePut(L, e)
      BY <1>3, <1>7 DEF RevertedReceivable, e
    <3>2. ReceivableGet(L, e.to, e.source) = {}
      BY <2>3, <2>4 DEF ReceivableGet, Entries
    <3>3. QED
      BY <3>1, <3>2 DEF ReceivablePut
  <2>6. e \notin L.receivable
    <3> HIDE DEF e
    <3>1. QED
      BY <2>3, <2>4 DEF Entries
  <2> HIDE DEF e, N
  <2>7. \A r \in N.receivable : r.amount \in Int
    BY <1>5, WaitingSound
  <2>8. Waiting(N) = Waiting(L) + e.amount /\ e.amount \in Int
    BY <2>5, <2>6, <2>7, WaitingGrown, WaitingSound
  <2>9. QED
    BY <1>5, <1>7, <2>4, <2>8 DEF N
<1>8. CASE op \notin {"SEND", "RECEIVE"}
  <2>1. N.receivable = L.receivable
    BY <1>3, <1>8 DEF RevertedReceivable
  <2> HIDE DEF N
  <2>2. Waiting(N) = Waiting(L)
    BY <2>1 DEF Waiting
  <2>3. QED
    BY <1>5, <1>8, <2>2 DEF N
<1>9. QED
  BY <1>6, <1>7, <1>8

\* No coin is created or lost.
Balanced(L) ==
  Held(L) + Waiting(L) + Spent(L) = Block[Genesis].balance + Minted(L)

\* In a new ledger the genesis account holds everything.
LEMMA InitBalanced == Balanced(InitLedger)
<1> DEFINE L == InitLedger
           own == Block[Genesis].account
           w == Block[Genesis].balance
<1>1. /\ L.info = [a \in Accounts |-> IF a = own THEN NewInfo(Genesis) ELSE NoInfo]
      /\ L.receivable = {} /\ L.stored = {Genesis}
  BY DEF InitLedger
<1>2. own \in Accounts /\ w \in Nat /\ Block[Genesis].opcode = "RECEIVE"
  BY GenesisAssumption, BlocksAssumption DEF BlockFields
<1>3. NewInfo(Genesis) # NoInfo /\ NewInfo(Genesis).head = Genesis
  <2>1. NewInfo(Genesis) \in AccountInfos
    BY GenesisAssumption, BlocksAssumption DEF NewInfo, AccountInfos, BlockFields, INVALID_HEIGHT
  <2>2. QED
    BY <2>1, NoInfoAssumption DEF NewInfo
<1> HIDE DEF L, own, w
<1>4. Held(L) = w
  <2> DEFINE f == Holdings(L)
  <2>1. f[own] = w
    BY <1>1, <1>2, <1>3 DEF Holdings, Holding, w
  <2>2. \A a \in Accounts : a # own => f[a] = 0
    BY <1>1 DEF Holdings, Holding
  <2> HIDE DEF f
  <2>3. QED
    BY <1>2, <2>1, <2>2, SumSingle, AccountsAssumption DEF Held, f
<1>5. Waiting(L) = 0
  <2> DEFINE f == [r \in L.receivable |-> r.amount]
  <2>1. DOMAIN f = {}
    BY <1>1
  <2> HIDE DEF f
  <2>2. SumFunction(f) = 0
    BY <2>1, SumEmpty DEF SumFunction
  <2>3. QED
    BY <2>2 DEF Waiting, f
<1>6. Spent(L) = 0
  <2> DEFINE f == [b \in L.stored |-> Consumed(b)]
  <2>1. DOMAIN f = {Genesis} /\ f[Genesis] = 0
    BY <1>1 DEF Consumed
  <2> HIDE DEF f
  <2>2. SumFunctionOnSet(f, {Genesis}) = f[Genesis]
    BY <2>1, SumSingle, FS_Singleton
  <2>3. SumFunction(f) = 0
    BY <2>1, <2>2 DEF SumFunction
  <2>4. QED
    BY <2>3 DEF Spent, f
<1>7. Minted(L) = 0
  <2> DEFINE S == {x \in L.stored : Block[x].opcode = "REWARD"}
             f == [b \in S |-> TakenAmount(b)]
  <2>1. S = {}
    BY <1>1, <1>2
  <2>2. DOMAIN f = {}
    BY <2>1
  <2> HIDE DEF f
  <2>3. SumFunction(f) = 0
    BY <2>2, SumEmpty DEF SumFunction
  <2>4. QED
    BY <2>3 DEF Minted, f
<1>8. QED
  BY <1>2, <1>4, <1>5, <1>6, <1>7 DEF Balanced, L, w

\* An append only moves value, but for rewards, prices and what is destroyed.
LEMMA AppendBalanced ==
  ASSUME NEW L, SoundInv(L), Balanced(L), NEW b \in Blocks,
         NEW now, AppendCode(L, b, now) = "SUCCESS"
  PROVE  Balanced(AppendBlock(L, b))
<1> DEFINE N == AppendBlock(L, b)
           own == Block[b].account
           op == Block[b].opcode
<1>1. ChainInv(L) /\ ChainTables(L) /\ IsLedger(L) /\ own \in Accounts /\ Block[b].balance \in Nat
  BY BlocksAssumption DEF SoundInv, TablesInv, ChainInv, ChainTables, BlockFields
<1>2. N.stored = L.stored \cup {b} /\ b \notin L.stored
  BY <1>1, AppendEffect, AppendChecked
<1>3. b # Genesis
  BY <1>2 DEF SoundInv
<1>4. SoundInv(N) /\ ChainTables(N)
  BY <1>1, AppendSoundInv, AppendChainInv DEF ChainInv
<1>5. Paid(b) /\ Gain(b) = Block[b].balance - Holding(L.info[own])
  BY <1>1, AppendPaid
<1>6. Held(N) = Held(L) + Gain(b)
  <2>1. Held(N) = Held(L) - Holding(L.info[own]) + Holding(N.info[own])
    BY <1>1, <1>4, HeldMoves, AppendedInfo
  <2>2. Holding(N.info[own]) = Block[b].balance
    BY <1>1, AppendedInfo DEF Holding
  <2>3. Holding(L.info[own]) \in Nat
    BY <1>1, HoldingNat DEF ChainTables
  <2>4. QED
    BY <1>1, <1>5, <2>1, <2>2, <2>3, AmountsInt
<1>7. Waiting(N) = Waiting(L) + (IF op = "SEND" THEN SentAmount(b)
                                 ELSE IF op = "RECEIVE" THEN 0 - TakenAmount(b) ELSE 0)
  BY AppendWaiting
<1> HIDE DEF N
<1>8. Spent(N) = Spent(L) + Consumed(b) /\ Spent(L) \in Int
  BY <1>2, <1>4, AmountsInt, SpentGrown
<1>9. /\ Minted(N) = Minted(L) + (IF op = "REWARD" THEN TakenAmount(b) ELSE 0)
      /\ Minted(L) \in Int
  BY <1>2, <1>4, AmountsInt, MintedGrown
<1>10. Held(L) \in Int /\ Waiting(L) \in Int /\ Block[Genesis].balance \in Nat
  BY AmountsInt, GenesisAssumption, BlocksAssumption DEF BlockFields
<1>11. Balanced(N)
  BY <1>3, <1>5, <1>6, <1>7, <1>8, <1>9, <1>10, BlockBalanced DEF Balanced
<1>12. QED
  BY <1>11 DEF N

\* A rollback moves it back.
LEMMA RollbackBalanced ==
  ASSUME NEW L, SoundInv(L), Balanced(L), NEW b \in Blocks, RollbackCode(L, b) = "SUCCESS"
  PROVE  Balanced(RollbackBlock(L, b))
<1> DEFINE N == RollbackBlock(L, b)
           own == Block[b].account
           op == Block[b].opcode
<1>1. ChainInv(L) /\ ChainTables(L) /\ IsLedger(L) /\ own \in Accounts /\ Block[b].balance \in Nat
  BY BlocksAssumption DEF SoundInv, TablesInv, ChainInv, ChainTables, BlockFields
<1>2. N.stored = L.stored \ {b} /\ b \in L.stored
  BY <1>1, RollbackEffect, RollbackChecked
<1>3. b # Genesis /\ Paid(b)
  BY <1>1, <1>2, GenesisStays DEF SoundInv
<1>4. SoundInv(N) /\ ChainTables(N)
  BY <1>1, RollbackSoundInv, RollbackChainInv DEF ChainInv
<1>5. Gain(b) \in Int
  BY <1>3, BlockBalanced
<1>6. Held(L) = Held(N) + Gain(b)
  <2>1. Held(N) = Held(L) - Holding(L.info[own]) + Holding(N.info[own])
    BY <1>1, <1>4, HeldMoves, RetractedInfo
  <2>2. Holding(L.info[own]) = Block[b].balance
    BY <1>1, RetractedInfo DEF Holding
  <2>3. Gain(b) = Block[b].balance - Holding(N.info[own])
    <3>1. CASE Block[b].height = 0
      BY <1>1, <3>1, RetractedInfo DEF Gain, Holding
    <3>2. CASE Block[b].height # 0
      BY <1>1, <3>2, RetractedInfo DEF Gain, Holding
    <3>3. QED
      BY <3>1, <3>2
  <2>4. Holding(N.info[own]) \in Nat
    BY <1>1, <1>4, HoldingNat DEF ChainTables
  <2>5. QED
    BY <1>1, <2>1, <2>2, <2>3, <2>4, AmountsInt
<1>7. Waiting(L) = Waiting(N) + (IF op = "SEND" THEN SentAmount(b)
                                 ELSE IF op = "RECEIVE" THEN 0 - TakenAmount(b) ELSE 0)
  BY RollbackWaiting
<1> HIDE DEF N
<1>8. L.stored = N.stored \cup {b} /\ b \notin N.stored
  BY <1>2
<1>9. Spent(L) = Spent(N) + Consumed(b) /\ Spent(N) \in Int
  BY <1>4, <1>8, AmountsInt, SpentGrown
<1>10. /\ Minted(L) = Minted(N) + (IF op = "REWARD" THEN TakenAmount(b) ELSE 0)
       /\ Minted(N) \in Int
  BY <1>4, <1>8, AmountsInt, MintedGrown
<1>11. Held(N) \in Int /\ Waiting(N) \in Int /\ Block[Genesis].balance \in Nat
  BY <1>4, AmountsInt, GenesisAssumption, BlocksAssumption DEF BlockFields
<1>12. Balanced(N)
  BY <1>3, <1>6, <1>7, <1>9, <1>10, <1>11, BlockBalanced DEF Balanced
<1>13. QED
  BY <1>12 DEF N

\* Confirming moves nothing.
LEMMA ConfirmBalanced ==
  ASSUME NEW L, SoundInv(L), Balanced(L), NEW b \in Blocks, ConfirmCode(L, b) = "SUCCESS"
  PROVE  Balanced(ConfirmBlock(L, b))
<1> DEFINE N == ConfirmBlock(L, b)
<1>1. ChainInv(L) /\ IsLedger(L)
  BY DEF SoundInv, TablesInv, ChainInv, ChainTables
<1>2. N.stored = L.stored /\ N.receivable = L.receivable
  BY <1>1 DEF ConfirmBlock, IsLedger
<1>3. \A a \in Accounts : /\ (N.info[a] = NoInfo) <=> (L.info[a] = NoInfo)
                          /\ L.info[a] # NoInfo => N.info[a].head = L.info[a].head
  BY <1>1, ConfirmedHeads
<1> HIDE DEF N
<1>4. \A a \in Accounts : Holding(N.info[a]) = Holding(L.info[a])
  BY <1>3 DEF Holding
<1>5. Holdings(N) = Holdings(L)
  BY <1>4 DEF Holdings
<1>6. QED
  BY <1>2, <1>5 DEF Balanced, Held, Waiting, Spent, Minted, N

-----------------------------------------------------------------------------
(* Types.                                                                  *)

\* A reward is an amount, and it is valid from some time on.
LEMMA RewardNat ==
  ASSUME NEW p \in Blocks, NEW q \in Blocks
  PROVE  /\ Reward(p, q) \in Nat
         /\ RewardTimestamp(Block[p].time, Block[q].time) \in Nat
<1> DEFINE b == Block[p].time
           e == Block[q].time
           w == Block[p].balance
<1>1. b \in Nat /\ e \in Nat /\ w \in Nat
  BY BlocksAssumption DEF BlockFields
<1>2. RewardRate \in Nat /\ Day \in Nat \ {0}
  BY ParametersAssumption
<1> HIDE DEF b, e, w
<1>3. RewardAmount(w, b, e) \in Nat
  <2>1. CASE b > e \/ b < EpochTimestamp
    BY <2>1 DEF RewardAmount
  <2>2. CASE ~(b > e \/ b < EpochTimestamp)
    <3> DEFINE n == w * RewardRate * (e - b)
    <3>1. e - b \in Nat
      BY <1>1, <2>2
    <3>2. w * RewardRate \in Nat
      BY <1>1, <1>2
    <3>3. n \in Nat
      BY <3>1, <3>2
    <3>4. RewardAmount(w, b, e) = n \div Day
      BY <2>2 DEF RewardAmount
    <3> HIDE DEF n
    <3>5. QED
      BY <1>2, <3>3, <3>4
  <2>3. QED
    BY <2>1, <2>2
<1>4. RewardTimestamp(b, e) \in Nat
  BY <1>1, <1>2 DEF RewardTimestamp
<1>5. QED
  BY <1>3, <1>4 DEF Reward, b, e, w

\* A sound ledger with exact weights has the type of a ledger.
LEMMA SoundTyped ==
  ASSUME NEW L, SoundInv(L), WeightInv(L)
  PROVE  L \in LedgerStates
<1>1. ChainTables(L) /\ IsLedger(L)
  BY DEF SoundInv, TablesInv, ChainInv, ChainTables
<1>2. L.receivable \subseteq Receivables
  <2> SUFFICES ASSUME NEW r \in L.receivable
               PROVE  r \in Receivables
    OBVIOUS
  <2> DEFINE s == r.source
  <2>1. /\ s \in Blocks /\ r = ReceivableInfo(Block[s].link, s, SentAmount(s))
        /\ r.amount \in Nat
    BY WaitingSound DEF SoundInv
  <2> HIDE DEF s
  <2>2. SentAmount(s) \in Nat
    BY <2>1 DEF ReceivableInfo
  <2>3. QED
    BY <2>1, <2>2, BlocksAssumption DEF ReceivableInfo, Receivables, BlockFields
<1>3. L.rewardable \subseteq Rewardables
  <2> SUFFICES ASSUME NEW r \in L.rewardable
               PROVE  r \in Rewardables
    OBVIOUS
  <2> DEFINE p == r.source
             q == L.successor[p]
  <2>1. p \in Blocks /\ Rewardable(L, p)
    BY DEF SoundInv, TablesInv
  <2>2. r \in Entries(L.rewardable, p)
    BY DEF Entries
  <2>3. Earned(L, p) /\ r = RewardableInfo(p, q, Reward(p, q))
    BY <2>1, <2>2 DEF Rewardable
  <2>4. q \in Blocks
    BY <1>1, <2>1, <2>3 DEF Earned, ChainTables
  <2> HIDE DEF p, q
  <2>5. Reward(p, q) \in Nat /\ RewardTimestamp(Block[p].time, Block[q].time) \in Nat
    BY <2>1, <2>4, RewardNat
  <2>6. Block[p].rep \in Accounts /\ Block[p].account \in Accounts
    BY <2>1, BlocksAssumption DEF BlockFields
  <2>7. QED
    BY <2>1, <2>3, <2>5, <2>6 DEF RewardableInfo, Rewardables
<1>4. L.bindingCount \in [Accounts -> Nat]
  <2>1. \A a \in Accounts : L.bindingCount[a] = Cardinality(Binds(L, a))
    BY DEF SoundInv, TablesInv, BoundInv, Bound
  <2>2. \A a \in Accounts : L.bindingCount[a] \in Nat
    BY <2>1, BindsFinite DEF SoundInv, TablesInv, BoundInv
  <2>3. QED
    BY <2>2 DEF SoundInv
<1>5. Weighed(L)
  BY <1>1, ExactWeighed
<1>6. L.weight \in [Accounts -> Int] /\ L.totalWeight \in Int
  <2> DEFINE f == L.weight
  <2>1. f \in [Accounts -> Nat] /\ L.totalWeight = SumFunction(f)
    BY <1>5 DEF Weighed
  <2>2. SumFunctionOnSet(f, Accounts) \in Int
    <3> HIDE DEF f
    <3>1. \A a \in Accounts : f[a] \in Int
      BY <2>1
    <3>2. QED
      BY <3>1, SumInt, AccountsAssumption
  <2>3. QED
    BY <2>1, <2>2 DEF SumFunction
<1>7. L.bindings \in SUBSET (Accounts \X Nat) /\ L.rollbacks \in SUBSET Blocks
  BY DEF SoundInv
<1>8. QED
  BY <1>1, <1>2, <1>3, <1>4, <1>6, <1>7 DEF LedgerStates, ChainTables, IsLedger

-----------------------------------------------------------------------------
(* The tables are determined by the chains, so a rollback that restores    *)
(* the chains restores everything.                                         *)

\* Entries with the same sources, source by source, are the same tables.
LEMMA SameEntries ==
  ASSUME NEW S, NEW T, \A r \in S \cup T : r.source \in Blocks,
         \A s \in Blocks : Entries(S, s) = Entries(T, s)
  PROVE  S = T
<1>1. ASSUME NEW r \in S PROVE r \in T
  <2>1. r \in Entries(S, r.source) /\ Entries(S, r.source) = Entries(T, r.source)
    BY DEF Entries
  <2>2. QED
    BY <2>1 DEF Entries
<1>2. ASSUME NEW r \in T PROVE r \in S
  <2>1. r \in Entries(T, r.source) /\ Entries(S, r.source) = Entries(T, r.source)
    BY DEF Entries
  <2>2. QED
    BY <2>1 DEF Entries
<1>3. QED
  BY <1>1, <1>2

\* Two ledgers with the same chains have the same tables.
LEMMA ChainsDetermineTables ==
  ASSUME NEW L, SoundInv(L), WeightInv(L), NEW M, SoundInv(M), WeightInv(M),
         M.stored = L.stored, M.successor = L.successor, M.info = L.info
  PROVE  /\ M.receivable = L.receivable /\ M.rewardable = L.rewardable
         /\ M.bindings = L.bindings /\ M.bindingCount = L.bindingCount
         /\ M.weight = L.weight /\ M.totalWeight = L.totalWeight
<1>1. \A opcode, s : Takers(M, opcode, s) = Takers(L, opcode, s)
  BY DEF Takers
<1>2. M.receivable = L.receivable
  <2>1. ASSUME NEW s \in Blocks
        PROVE  Entries(M.receivable, s) = Entries(L.receivable, s)
    <3>1. Receivable(L, s) /\ Receivable(M, s)
      BY DEF SoundInv, TablesInv
    <3>2. QED
      BY <1>1, <3>1 DEF Receivable
  <2>2. QED
    BY <2>1, SameEntries, ZenonT(60) DEF SoundInv
<1>3. M.rewardable = L.rewardable
  <2>1. ASSUME NEW s \in Blocks
        PROVE  Entries(M.rewardable, s) = Entries(L.rewardable, s)
    <3>1. Rewardable(L, s) /\ Rewardable(M, s)
      BY DEF SoundInv, TablesInv
    <3>2. Earned(M, s) <=> Earned(L, s)
      BY DEF Earned
    <3>3. QED
      BY <1>1, <3>1, <3>2 DEF Rewardable
  <2>2. QED
    BY <2>1, SameEntries, ZenonT(60) DEF SoundInv
<1>4. \A a \in Accounts : Binds(M, a) = Binds(L, a) /\ Bound(M, a) /\ Bound(L, a)
  BY DEF SoundInv, TablesInv, BoundInv, Binds, ChainOf
<1>5. M.bindings = L.bindings
  <2>1. \A a \in Accounts : {k \in M.bindings : k[1] = a} = {k \in L.bindings : k[1] = a}
    BY <1>4 DEF Bound
  <2>2. \A k \in M.bindings \cup L.bindings : k[1] \in Accounts
    BY DEF SoundInv
  <2>3. QED
    BY <2>1, <2>2
<1>6. M.bindingCount = L.bindingCount
  <2>1. \A a \in Accounts : M.bindingCount[a] = L.bindingCount[a]
    BY <1>4 DEF Bound
  <2>2. QED
    BY <2>1 DEF SoundInv
<1>7. M.weight = L.weight /\ M.totalWeight = L.totalWeight
  <2>1. \A r \in Accounts : HeadWeight(M, r) = HeadWeight(L, r)
    BY DEF HeadWeight
  <2>2. M.weight = L.weight
    BY <2>1 DEF WeightInv
  <2>3. QED
    BY <2>2 DEF WeightInv
<1>8. QED
  BY <1>2, <1>3, <1>5, <1>6, <1>7

\* Nothing stands in the way of rolling back what was just appended.
LEMMA AppendedCanGo ==
  ASSUME NEW L, SoundInv(L), NEW b \in Blocks,
         NEW now, AppendCode(L, b, now) = "SUCCESS"
  PROVE  RollbackCode(AppendBlock(L, b), b) = "SUCCESS"
<1> DEFINE N == AppendBlock(L, b)
           a == Block[b].account
           prev == Block[b].previous
           op == Block[b].opcode
           code == RollbackCode(N, b)
<1>1. TablesInv(L) /\ ChainInv(L) /\ ChainTables(L) /\ IsLedger(L)
  BY DEF SoundInv, TablesInv, ChainInv, ChainTables
<1>2. N.stored = L.stored \cup {b} /\ b \notin L.stored /\ b # Genesis
  BY <1>1, AppendEffect, AppendChecked DEF SoundInv
<1>3. SoundInv(N) /\ TablesInv(N) /\ ChainInv(N)
  BY AppendSoundInv DEF SoundInv, TablesInv
<1>4. /\ code \in {"SUCCESS", "ROLLBACK_NON_HEAD", "ROLLBACK_REWARDED",
                    "ROLLBACK_RECEIVED", "ROLLBACK_SOURCE_PRUNED"}
      /\ code = "ROLLBACK_SOURCE_PRUNED" => b = Genesis
  BY <1>2, <1>3, RollbackSoundness DEF RollbackSound
<1>5. N.info[a] # NoInfo /\ N.info[a].head = b
  BY <1>1, AppendedInfo
<1>6. /\ a \in Accounts /\ op \in CheckOpcode[Block[b].type]
      /\ Block[b].type \in Types /\ b # NoBlock
  BY BlocksAssumption DEF BlockFields
<1>7. Chained(N, a) /\ b \in ChainOf(N, a) /\ Chained(L, a)
  BY <1>1, <1>2, <1>3, <1>6 DEF ChainInv, ChainOf
<1>8. N.info[a].headHeight = Block[b].height
  BY <1>5, <1>7 DEF Chained
<1>9. /\ Takers(N, "RECEIVE", b) = {} \/ op = "RECEIVE"
      /\ \A r : Takers(N, "REWARD", r) =
                  Takers(L, "REWARD", r) \cup (IF op = "REWARD" /\ Block[b].link = r
                                               THEN {b} ELSE {})
  <2>1. Receivable(L, b)
    BY <1>1 DEF TablesInv
  <2>2. Takers(L, "RECEIVE", b) = {}
    BY <1>2, <2>1 DEF Receivable
  <2>3. QED
    BY <1>2, <2>2 DEF Takers
<1> HIDE DEF N
<1>10. CASE CheckRollback(N, b) # "SUCCESS"
  <2>1. code = CheckRollback(N, b)
    BY <1>10 DEF RollbackCode, AndThen
  <2>2. CheckRollback(N, b) # "ROLLBACK_NON_HEAD"
    BY <1>8 DEF CheckRollback, AndThen, Unless
  <2>3. CheckRollback(N, b) \notin {"ROLLBACK_RECEIVED", "ROLLBACK_SOURCE_PRUNED"}
    BY DEF CheckRollback, AndThen, Unless
  <2>4. ASSUME CheckRollback(N, b) = "ROLLBACK_REWARDED"
        PROVE  FALSE
    <3>1. /\ HasRepresentative(b) /\ Block[b].height # 0 /\ Reward(prev, b) # 0
          /\ RewardableGet(N, Block[prev].rep, prev) = {}
      BY <2>4 DEF CheckRollback, AndThen, Unless
    <3>2. /\ prev \in ChainOf(N, a) /\ N.successor[prev] = b
          /\ Block[prev].type = Block[b].type
      BY <1>5, <1>7, <3>1 DEF Chained
    <3>3. prev \in Blocks /\ Rewardable(N, prev) /\ Rewardable(L, prev)
      BY <1>1, <1>3, <3>2 DEF TablesInv, ChainInv, ChainTables, ChainOf
    <3>4. Earned(N, prev)
      BY <1>6, <3>1, <3>2, SMTT(40) DEF Earned, ChainOf, HasRepresentative
    <3>5. L.successor[prev] = NoBlock
      <4>1. L.info[a] # NoInfo => prev = L.info[a].head
        BY <1>1, AppendChecked
      <4>2. L.info[a] # NoInfo
        BY <1>1, <3>1, AppendChecked
      <4>3. QED
        BY <1>7, <4>1, <4>2 DEF Chained
    <3>6. Takers(L, "REWARD", prev) = {}
      BY <3>3, <3>5 DEF Rewardable, Earned
    <3>7. op # "REWARD"
      BY <1>6, <3>1 DEF CheckOpcode, Types, HasRepresentative
    <3>8. Takers(N, "REWARD", prev) = {}
      BY <1>9, <3>6, <3>7
    <3> DEFINE e == RewardableInfo(prev, b, Reward(prev, b))
    <3>9. e.rep = Block[prev].rep /\ e.source = prev
      BY DEF RewardableInfo
    <3>10. Entries(N.rewardable, prev) = {e}
      BY <3>2, <3>3, <3>4, <3>8 DEF Rewardable
    <3> HIDE DEF e
    <3>11. e \in RewardableGet(N, Block[prev].rep, prev)
      BY <3>9, <3>10 DEF Entries, RewardableGet
    <3>12. QED
      BY <3>1, <3>11
  <2>5. QED
    BY <1>4, <1>10, <2>1, <2>2, <2>3, <2>4 DEF N
<1>11. CASE CheckRollback(N, b) = "SUCCESS"
  <2>1. code # "ROLLBACK_SOURCE_PRUNED"
    BY <1>2, <1>4
  <2>2. code \notin {"ROLLBACK_NON_HEAD", "ROLLBACK_REWARDED"}
    BY <1>11 DEF RollbackCode, AndThen, Unless
  <2>3. ASSUME code = "ROLLBACK_RECEIVED"
        PROVE  FALSE
    <3>1. op = "SEND" /\ ReceivableGet(N, Block[b].link, b) = {}
      BY <1>11, <2>3 DEF RollbackCode, AndThen, Unless
    <3>2. Receivable(N, b)
      BY <1>3 DEF TablesInv
    <3> DEFINE e == ReceivableInfo(Block[b].link, b, SentAmount(b))
    <3>3. e.to = Block[b].link /\ e.source = b
      BY DEF ReceivableInfo
    <3>4. Entries(N.receivable, b) = {e}
      BY <1>2, <1>9, <3>1, <3>2 DEF Receivable
    <3> HIDE DEF e
    <3>5. e \in ReceivableGet(N, Block[b].link, b)
      BY <3>3, <3>4 DEF Entries, ReceivableGet
    <3>6. QED
      BY <3>1, <3>5
  <2>4. QED
    BY <1>4, <2>1, <2>2, <2>3 DEF N
<1>12. QED
  BY <1>10, <1>11

\* Rolling it back restores the chains.
LEMMA ChainsRestored ==
  ASSUME NEW L, SoundInv(L), NEW b \in Blocks,
         NEW now, AppendCode(L, b, now) = "SUCCESS"
  PROVE  LET M == RollbackBlock(AppendBlock(L, b), b)
         IN  /\ M.stored = L.stored /\ M.successor = L.successor /\ M.info = L.info
             /\ M.rollbacks = L.rollbacks \cup {b}
<1> DEFINE N == AppendBlock(L, b)
           M == RollbackBlock(N, b)
           a == Block[b].account
           prev == Block[b].previous
           i == L.info[a]
<1>1. ChainInv(L) /\ ChainTables(L) /\ IsLedger(L)
  BY DEF SoundInv, TablesInv, ChainInv, ChainTables
<1>2. /\ N.stored = L.stored \cup {b} /\ b \notin L.stored
      /\ N.rollbacks = L.rollbacks /\ IsLedger(N)
      /\ N.successor = [x \in Blocks |-> IF x = b THEN NoBlock
                                         ELSE IF x = prev THEN b ELSE L.successor[x]]
      /\ N.info = UpdateAccountInfo(L, b).info
  BY <1>1, AppendEffect, AppendChecked DEF PutBlockSuccessor, IsLedger
<1>3. a \in Accounts /\ Block[b].height \in Nat
  BY BlocksAssumption DEF BlockFields
<1>4. /\ i = NoInfo => Block[b].height = 0 /\ prev = NoBlock
      /\ i # NoInfo => /\ i \in AccountInfos
                       /\ prev = i.head /\ Block[b].height = i.headHeight + 1
                       /\ i.confirmed <= i.headHeight
                       /\ L.successor[prev] = NoBlock
  <2>1. i # NoInfo => /\ i \in AccountInfos /\ i.confirmed <= i.headHeight
                      /\ L.successor[i.head] = NoBlock
    BY <1>1, <1>3 DEF ChainInv, ChainTables, Chained, Confirmed
  <2>2. QED
    BY <1>1, <2>1, AppendChecked
<1> DEFINE x == IF i = NoInfo THEN NewInfo(b)
                ELSE [i EXCEPT !.head = b, !.headHeight = Block[b].height]
<1>5. x.type = (IF i = NoInfo THEN Block[b].type ELSE i.type)
      /\ x.confirmed = (IF i = NoInfo THEN INVALID_HEIGHT ELSE i.confirmed)
  BY <1>4 DEF NewInfo, AccountInfos
<1>6. L.info \in [Accounts -> AccountInfos \cup {NoInfo}]
  BY <1>1 DEF ChainTables
<1>7. N.info = [L.info EXCEPT ![a] = x]
  <2>1. UpdateAccountInfo(L, b) = [L EXCEPT !.info[a] = x]
    BY <1>1 DEF UpdateAccountInfo
  <2> HIDE DEF x
  <2>2. QED
    BY <1>1, <1>2, <2>1 DEF IsLedger
<1> HIDE DEF x, N
<1>8. N.info[a] = x
  BY <1>3, <1>6, <1>7
<1> DEFINE y == IF Block[b].height = 0 THEN NoInfo
                ELSE [type |-> x.type, head |-> prev, headHeight |-> Block[b].height - 1,
                      confirmed |-> IF x.confirmed > Block[b].height - 1
                                    THEN INVALID_HEIGHT ELSE x.confirmed]
<1>9. y = i
  <2>1. CASE i = NoInfo
    BY <1>4, <2>1
  <2>2. CASE i # NoInfo
    <3>1. Block[b].height # 0 /\ Block[b].height - 1 = i.headHeight
      BY <1>4, <2>2 DEF AccountInfos
    <3>2. ~(x.confirmed > Block[b].height - 1)
      BY <1>4, <1>5, <2>2, <3>1 DEF AccountInfos, INVALID_HEIGHT
    <3>3. y = [type |-> i.type, head |-> i.head, headHeight |-> i.headHeight,
               confirmed |-> i.confirmed]
      BY <1>4, <1>5, <2>2, <3>1, <3>2
    <3>4. QED
      BY <1>4, <2>2, <3>3 DEF AccountInfos
  <2>3. QED
    BY <2>1, <2>2
<1>10. /\ M.stored = N.stored \ {b} /\ M.rollbacks = N.rollbacks \cup {b}
       /\ M.successor = DeleteBlockSuccessor(N, b).successor
       /\ M.info = RetractAccountInfo(N, b).info
  BY <1>2, RollbackEffect
<1>11. M.info = [N.info EXCEPT ![a] = y]
  <2>1. RetractAccountInfo(N, b) = [N EXCEPT !.info[a] = y]
    BY <1>8 DEF RetractAccountInfo
  <2> HIDE DEF y, M
  <2>2. QED
    BY <1>2, <1>10, <2>1 DEF IsLedger
<1> HIDE DEF y, M
<1>12. M.info = L.info
  BY <1>3, <1>6, <1>7, <1>9, <1>11
<1>13. M.successor = L.successor
  <2>1. M.successor = [z \in Blocks |-> IF z = b \/ (Block[b].height # 0 /\ z = prev)
                                        THEN NoBlock ELSE N.successor[z]]
    BY <1>2, <1>10 DEF DeleteBlockSuccessor, IsLedger
  <2>2. L.successor[b] = NoBlock
    BY <1>2 DEF SoundInv
  <2>3. ASSUME NEW z \in Blocks
        PROVE  M.successor[z] = L.successor[z]
    <3>1. CASE z = b
      BY <2>1, <2>2, <3>1
    <3>2. CASE z # b /\ z = prev
      <4>1. i # NoInfo
        BY <1>4, <3>2, BlocksAssumption
      <4>2. Block[b].height # 0 /\ L.successor[prev] = NoBlock
        BY <1>4, <4>1 DEF AccountInfos
      <4>3. QED
        BY <2>1, <3>2, <4>2
    <3>3. CASE z # b /\ z # prev
      BY <1>2, <2>1, <3>3
    <3>4. QED
      BY <3>1, <3>2, <3>3
  <2>4. L.successor \in [Blocks -> Blocks \cup {NoBlock}]
    BY <1>1 DEF ChainTables
  <2>5. QED
    BY <2>1, <2>3, <2>4
<1>14. M.stored = L.stored /\ M.rollbacks = L.rollbacks \cup {b}
  BY <1>2, <1>10
<1>15. QED
  BY <1>12, <1>13, <1>14 DEF M, N

\* It restores everything but the archive.
LEMMA AppendUndone ==
  ASSUME NEW L, SoundInv(L), WeightInv(L), NEW b \in Blocks,
         NEW now, AppendCode(L, b, now) = "SUCCESS"
  PROVE  RollbackBlock(AppendBlock(L, b), b) = [L EXCEPT !.rollbacks = @ \cup {b}]
<1> DEFINE N == AppendBlock(L, b)
           M == RollbackBlock(N, b)
<1>1. ChainInv(L) /\ IsLedger(L)
  BY DEF SoundInv, TablesInv, ChainInv, ChainTables
<1>2. SoundInv(N) /\ WeightInv(N) /\ ChainInv(N) /\ RollbackCode(N, b) = "SUCCESS"
  BY <1>1, AppendSoundInv, AppendWeightInv, AppendChainInv, AppendedCanGo
<1>3. /\ M.stored = L.stored /\ M.successor = L.successor /\ M.info = L.info
      /\ M.rollbacks = L.rollbacks \cup {b}
  BY ChainsRestored
<1> HIDE DEF N
<1>4. SoundInv(M) /\ WeightInv(M)
  BY <1>2, RollbackSoundInv, RollbackWeightInv
<1> HIDE DEF M
<1>5. IsLedger(M)
  BY <1>4 DEF SoundInv, TablesInv, ChainInv, ChainTables
<1>6. /\ M.receivable = L.receivable /\ M.rewardable = L.rewardable
      /\ M.bindings = L.bindings /\ M.bindingCount = L.bindingCount
      /\ M.weight = L.weight /\ M.totalWeight = L.totalWeight
  BY <1>3, <1>4, ChainsDetermineTables
<1>7. M = [L EXCEPT !.rollbacks = @ \cup {b}]
  BY <1>1, <1>3, <1>5, <1>6 DEF IsLedger
<1>8. QED
  BY <1>7 DEF M, N

-----------------------------------------------------------------------------
(* The behaviours of the ledger.                                           *)

IInv == ChainInv(ledger)

\* One step of the ledger: the chains stay intact and no block is lost.
LEMMA StepChainInv ==
  ASSUME ChainInv(ledger), [Next]_ledger
  PROVE  /\ ChainInv(ledger')
         /\ ledger.stored \cup ledger.rollbacks
              \subseteq ledger'.stored \cup ledger'.rollbacks
<1>1. ASSUME NEW b \in Blocks, Append(b)
      PROVE  /\ ChainInv(ledger')
             /\ ledger'.stored = ledger.stored \cup {b}
             /\ ledger'.rollbacks = ledger.rollbacks
  BY <1>1, AppendChainInv, AppendEffect DEF Append, ChainInv, ChainTables
<1>2. ASSUME NEW b \in Blocks, Rollback(b)
      PROVE  /\ ChainInv(ledger')
             /\ ledger'.stored = ledger.stored \ {b}
             /\ ledger'.rollbacks = ledger.rollbacks \cup {b}
  BY <1>2, RollbackChainInv, RollbackEffect DEF Rollback, ChainInv, ChainTables
<1>3. ASSUME NEW b \in Blocks, Confirm(b)
      PROVE  /\ ChainInv(ledger')
             /\ ledger'.stored = ledger.stored
             /\ ledger'.rollbacks = ledger.rollbacks
  BY <1>3, ConfirmChainInv DEF Confirm
<1>4. ASSUME Restart
      PROVE  /\ ChainInv(ledger')
             /\ ledger'.stored = ledger.stored
             /\ ledger'.rollbacks = ledger.rollbacks
  BY <1>4, RestartChainInv DEF Restart
<1>5. CASE UNCHANGED ledger
  BY <1>5
<1>6. QED
  BY <1>1, <1>2, <1>3, <1>4, <1>5 DEF Next

-----------------------------------------------------------------------------

(***************************************************************************)
(* Whatever blocks exist, the stored blocks of every account form one      *)
(* chain, linked both ways, from height 0 to the head the accounts table   *)
(* names, and only stored blocks are confirmed (AppendBlock_,              *)
(* RollbackBlock_, ConfirmBlock_, restarts).                               *)
(***************************************************************************)
THEOREM ChainsStayIntact == Spec => []ChainIntact
<1>1. Init => IInv
  BY InitChainInv DEF Init, IInv
<1>2. IInv /\ [Next]_ledger => IInv'
  BY StepChainInv DEF IInv
<1>3. IInv => ChainIntact
  BY DEF IInv, ChainInv, ChainIntact
<1>4. QED
  BY <1>1, <1>2, <1>3, PTL DEF Spec

(***************************************************************************)
(* No transaction loses a block: what leaves the blocks table goes to the  *)
(* archive of rolled back blocks (PutRollbackBlock).                       *)
(***************************************************************************)
THEOREM NoBlockForgotten == Spec => NothingForgotten
<1>1. Init => IInv
  BY InitChainInv DEF Init, IInv
<1>2. IInv /\ [Next]_ledger => IInv'
  BY StepChainInv DEF IInv
<1>3. IInv /\ [Next]_ledger =>
        [ledger.stored \cup ledger.rollbacks
           \subseteq ledger'.stored \cup ledger'.rollbacks]_ledger
  BY StepChainInv DEF IInv
<1>4. QED
  BY <1>1, <1>2, <1>3, PTL DEF Spec, NothingForgotten

-----------------------------------------------------------------------------

\* One step of the ledger: the tables still fit the chains.
LEMMA TablesStep ==
  ASSUME TablesInv(ledger), [Next]_ledger
  PROVE  TablesInv(ledger')
<1>1. ASSUME NEW b \in Blocks, Append(b)
      PROVE  TablesInv(ledger')
  BY <1>1, AppendTablesInv DEF Append
<1>2. ASSUME NEW b \in Blocks, Rollback(b)
      PROVE  TablesInv(ledger')
  BY <1>2, RollbackTablesInv DEF Rollback
<1>3. ASSUME NEW b \in Blocks, Confirm(b)
      PROVE  TablesInv(ledger')
  BY <1>3, ConfirmTablesInv DEF Confirm
<1>4. CASE Restart
  BY <1>4, RestartTablesInv DEF Restart
<1>5. QED
  BY <1>1, <1>2, <1>3, <1>4 DEF Next

\* Every reachable ledger has tables that fit its chains.
LEMMA TablesInductive == Spec => []TablesInv(ledger)
<1>1. Init => TablesInv(ledger)
  BY InitTables DEF Init
<1>2. TablesInv(ledger) /\ [Next]_ledger => TablesInv(ledger)'
  BY TablesStep
<1>3. QED
  BY <1>1, <1>2, PTL DEF Spec

(***************************************************************************)
(* A send is received at most once, and as long as it is not, its amount   *)
(* waits in the receivables table, through any rollbacks of the send, of   *)
(* the receive and of blocks before them.                                  *)
(***************************************************************************)
THEOREM SendsReceivedOnce == Spec => []ReceivedOnce
<1>1. TablesInv(ledger) => ReceivedOnce
  <2> SUFFICES ASSUME TablesInv(ledger), NEW s \in Blocks
               PROVE  LET entries == {r \in ledger.receivable : r.source = s}
                          takers  == Takers(ledger, "RECEIVE", s)
                      IN  IF s \in ledger.stored /\ Block[s].opcode = "SEND"
                          THEN \/ Cardinality(takers) = 1 /\ entries = {}
                               \/ takers = {} /\ entries =
                                    {ReceivableInfo(Block[s].link, s, SentAmount(s))}
                          ELSE takers = {} /\ entries = {}
    BY DEF ReceivedOnce, SentAmount
  <2>1. Receivable(ledger, s)
    BY DEF TablesInv
  <2>2. (\E t \in Blocks : Takers(ledger, "RECEIVE", s) = {t}) =>
          Cardinality(Takers(ledger, "RECEIVE", s)) = 1
    BY FS_Singleton
  <2>3. QED
    BY <2>1, <2>2 DEF Receivable, Entries
<1>2. QED
  BY <1>1, TablesInductive, PTL

(***************************************************************************)
(* The reward of a block is claimed at most once and only by its           *)
(* representative's account; until then the entry stands with the amount   *)
(* that the block and its successor give.                                  *)
(***************************************************************************)
THEOREM RewardsClaimedOnce == Spec => []RewardedOnce
<1>1. TablesInv(ledger) => RewardedOnce
  <2> SUFFICES ASSUME TablesInv(ledger), NEW p \in Blocks
               PROVE  LET entries == {r \in ledger.rewardable : r.source = p}
                          takers  == Takers(ledger, "REWARD", p)
                          next    == ledger.successor[p]
                      IN  IF Earned(ledger, p)
                          THEN \/ Cardinality(takers) = 1 /\ entries = {}
                               \/ takers = {} /\ entries =
                                    {RewardableInfo(p, next, Reward(p, next))}
                          ELSE takers = {} /\ entries = {}
    BY DEF RewardedOnce, Earned
  <2>1. Rewardable(ledger, p)
    BY DEF TablesInv
  <2>2. (\E t \in Blocks : Takers(ledger, "REWARD", p) = {t}) =>
          Cardinality(Takers(ledger, "REWARD", p)) = 1
    BY FS_Singleton
  <2>3. QED
    BY <2>1, <2>2 DEF Rewardable, Entries
<1>2. QED
  BY <1>1, TablesInductive, PTL

(***************************************************************************)
(* The binding entries of an account and their count are those of its      *)
(* stored bind blocks, and the credit of the head allows that many, also   *)
(* after the rollback of a block that bought credit.                       *)
(***************************************************************************)
THEOREM BindingsStayExact == Spec => []BindingsExact
<1>1. TablesInv(ledger) => BindingsExact
  <2> SUFFICES ASSUME TablesInv(ledger), NEW a \in Accounts
               PROVE  /\ {k \in ledger.bindings : k[1] = a} =
                           {<<a, Block[b].height>> : b \in Binds(ledger, a)}
                      /\ ledger.bindingCount[a] = Cardinality(Binds(ledger, a))
                      /\ Binds(ledger, a) # {} =>
                           Cardinality(Binds(ledger, a))
                             <= AllowedBindings(Block[ledger.info[a].head].credit)
    BY DEF BindingsExact, Binds
  <2>1. Bound(ledger, a) /\ Chained(ledger, a)
    BY DEF TablesInv, BoundInv, ChainInv
  <2>2. ASSUME Binds(ledger, a) # {}
        PROVE  Cardinality(Binds(ledger, a))
                 <= AllowedBindings(Block[ledger.info[a].head].credit)
    <3> DEFINE head == ledger.info[a].head
    <3>1. ledger.info[a] # NoInfo
      BY <2>1, <2>2 DEF Chained, Binds
    <3>2. head \in ChainOf(ledger, a) /\ Block[head].height = ledger.info[a].headHeight
      BY <2>1, <3>1 DEF Chained
    <3>3. \A b \in ChainOf(ledger, a) : Block[b].height \in 0..ledger.info[a].headHeight
      BY <2>1, <3>1 DEF Chained
    <3>4. BindsUpTo(ledger, a, Block[head].height) = Binds(ledger, a)
      BY <3>2, <3>3 DEF BindsUpTo, Binds
    <3>5. QED
      BY <2>1, <3>2, <3>4 DEF Bound
  <2>3. QED
    BY <2>1, <2>2 DEF Bound
<1>2. QED
  BY <1>1, TablesInductive, PTL

(***************************************************************************)
(* The rollback of a stored block either succeeds or is held up by another *)
(* stored block, its successor, or the head of the account that received   *)
(* or claimed what it released; RollbackBlock_ never returns               *)
(* LEDGER_INCONSISTENT.                                                    *)
(***************************************************************************)
THEOREM RollbacksSound == Spec => [](\A b \in ledger.stored : RollbackSound(ledger, b))
<1>1. TablesInv(ledger) => \A b \in ledger.stored : RollbackSound(ledger, b)
  BY RollbackSoundness
<1>2. QED
  BY <1>1, TablesInductive, PTL

-----------------------------------------------------------------------------

\* The invariant about everything the tables hold: the weights are exact, the
\* tables fit the chains and no coin is created or lost.
AmountsInv == SoundInv(ledger) /\ WeightInv(ledger) /\ Balanced(ledger)

\* Every reachable ledger satisfies it.
LEMMA AmountsInductive == Spec => []AmountsInv
<1>1. Init => AmountsInv
  BY InitSoundInv, InitWeightInv, InitBalanced DEF Init, AmountsInv
<1>2. AmountsInv /\ [Next]_ledger => AmountsInv'
  <2> SUFFICES ASSUME SoundInv(ledger), WeightInv(ledger), Balanced(ledger), [Next]_ledger
               PROVE  SoundInv(ledger') /\ WeightInv(ledger') /\ Balanced(ledger')
    BY DEF AmountsInv
  <2>1. ChainInv(ledger) /\ IsLedger(ledger)
    BY DEF SoundInv, TablesInv, ChainInv, ChainTables
  <2>2. ASSUME NEW b \in Blocks, Append(b)
        PROVE  SoundInv(ledger') /\ WeightInv(ledger') /\ Balanced(ledger')
    BY <2>1, <2>2, AppendSoundInv, AppendWeightInv, AppendBalanced DEF Append
  <2>3. ASSUME NEW b \in Blocks, Rollback(b)
        PROVE  SoundInv(ledger') /\ WeightInv(ledger') /\ Balanced(ledger')
    BY <2>1, <2>3, RollbackSoundInv, RollbackWeightInv, RollbackBalanced DEF Rollback
  <2>4. ASSUME NEW b \in Blocks, Confirm(b)
        PROVE  SoundInv(ledger') /\ WeightInv(ledger') /\ Balanced(ledger')
    BY <2>1, <2>4, ConfirmSoundInv, ConfirmWeightInv, ConfirmBalanced DEF Confirm
  <2>5. CASE Restart
    BY <2>1, <2>5, RestartWeights DEF Restart
  <2>6. QED
    BY <2>2, <2>3, <2>4, <2>5 DEF Next
<1>3. QED
  BY <1>1, <1>2, PTL DEF Spec

(***************************************************************************)
(* The tables hold entries of their types, and no amount, count or height  *)
(* in them is ever negative.                                               *)
(***************************************************************************)
THEOREM TypesKept == Spec => []TypeOK
<1>1. AmountsInv => TypeOK
  BY SoundTyped DEF AmountsInv, TypeOK
<1>2. QED
  BY <1>1, AmountsInductive, PTL

(***************************************************************************)
(* The representative weights that appends and rollbacks add and subtract  *)
(* in memory are after every transaction the ones a restart would compute  *)
(* from the heads on disk: an election tallies the same weights on a node  *)
(* that ran for a year and on one that was just started.                   *)
(***************************************************************************)
THEOREM WeightsStayExact == Spec => []WeightsExact
<1>1. AmountsInv => WeightsExact
  <2>1. SoundInv(ledger) => IsLedger(ledger)
    BY DEF SoundInv, TablesInv, ChainInv, ChainTables
  <2>2. QED
    BY <2>1, RestartWeights DEF AmountsInv, WeightsExact
<1>2. QED
  BY <1>1, AmountsInductive, PTL

(***************************************************************************)
(* No coin is created or lost: what the accounts hold and what waits to be *)
(* received is what the genesis block gave plus the rewards claimed minus  *)
(* the price of credit and what was destroyed, through any rollbacks.      *)
(***************************************************************************)
THEOREM ValueStaysConserved == Spec => []ValueConserved
<1>1. AmountsInv => ValueConserved
  <2> SUFFICES ASSUME SoundInv(ledger), Balanced(ledger)
               PROVE  ValueConserved
    BY DEF AmountsInv
  <2>1. Circulating(ledger) = Held(ledger) + Waiting(ledger)
    BY CirculatingParts DEF SoundInv, TablesInv, ChainInv
  <2>2. QED
    BY <2>1 DEF Balanced, ValueConserved, Spent
<1>2. QED
  BY <1>1, AmountsInductive, PTL

(***************************************************************************)
(* What RollbackBlock_ does is the inverse of what AppendBlock_ does: a    *)
(* block that was just appended can be rolled back, and every table is as  *)
(* before, whatever the two blocks and their sources are.                  *)
(***************************************************************************)
THEOREM RollbackInverts == Spec => []RollbackUndoesAppend
<1>1. AmountsInv => RollbackUndoesAppend
  BY AppendedCanGo, AppendUndone DEF AmountsInv, RollbackUndoesAppend
<1>2. QED
  BY <1>1, AmountsInductive, PTL

-----------------------------------------------------------------------------
(* Rollbacks do not wait for each other in a circle.  The order in which   *)
(* the stored blocks were appended is a witness: every block was there     *)
(* before the blocks that build on it.                                     *)

\* rank is such an order.
Orders(L, rank) ==
  /\ \A b, c \in L.stored :
       Block[b].account = Block[c].account /\ Block[b].height < Block[c].height =>
         rank[b] < rank[c]
  /\ \A s \in L.stored : \A t \in Takers(L, "RECEIVE", s) : rank[s] < rank[t]
  /\ \A p \in L.stored : \A t \in Takers(L, "REWARD", p) :
       L.successor[p] \in L.stored => rank[L.successor[p]] < rank[t]

Ranked(L) == \E rank \in [L.stored -> Nat] : Orders(L, rank)

\* A block that is appended comes last.
LEMMA AppendRanked ==
  ASSUME NEW L, TablesInv(L), Ranked(L), NEW b \in Blocks,
         NEW now, AppendCode(L, b, now) = "SUCCESS"
  PROVE  Ranked(AppendBlock(L, b))
<1> DEFINE N == AppendBlock(L, b)
           a == Block[b].account
           prev == Block[b].previous
<1>1. ChainInv(L) /\ ChainTables(L) /\ IsLedger(L) /\ a \in Accounts
  BY BlocksAssumption DEF TablesInv, ChainInv, ChainTables, BlockFields
<1>2. /\ N.stored = L.stored \cup {b} /\ b \notin L.stored /\ L.stored \subseteq Blocks
      /\ N.successor = [x \in Blocks |-> IF x = b THEN NoBlock
                                         ELSE IF x = prev THEN b ELSE L.successor[x]]
  BY <1>1, AppendEffect, AppendChecked DEF PutBlockSuccessor, IsLedger, ChainTables
<1>3. TablesInv(N)
  BY AppendTablesInv
<1>4. PICK rank \in [L.stored -> Nat] : Orders(L, rank)
  BY DEF Ranked
<1>5. PICK n \in Nat : \A x \in L.stored : rank[x] < n
  <2>1. IsFiniteSet(L.stored) /\ \A x \in L.stored : rank[x] \in Nat
    BY DEF TablesInv, BoundInv
  <2>2. QED
    BY <2>1, FiniteBound
<1> DEFINE more == [x \in N.stored |-> IF x = b THEN n ELSE rank[x]]
<1>6. /\ more \in [N.stored -> Nat] /\ more[b] = n
      /\ \A x \in L.stored : more[x] = rank[x] /\ more[x] < more[b] /\ more[x] \in Nat
  BY <1>2, <1>5
<1>7. \A x \in L.stored : Block[x].account = a =>
        Block[x].height < Block[b].height /\ Block[x].height \in Nat
  <2> SUFFICES ASSUME NEW x \in L.stored, Block[x].account = a
               PROVE  Block[x].height < Block[b].height /\ Block[x].height \in Nat
    OBVIOUS
  <2>1. Chained(L, a) /\ x \in ChainOf(L, a)
    BY <1>1 DEF ChainInv, ChainOf
  <2>2. L.info[a] # NoInfo /\ Block[x].height \in 0..L.info[a].headHeight
    BY <2>1 DEF Chained
  <2>3. Block[b].height = L.info[a].headHeight + 1 /\ L.info[a].headHeight \in Nat
    BY <1>1, <2>2, AppendChecked DEF ChainTables, AccountInfos
  <2>4. QED
    BY <2>2, <2>3
<1>8. Block[b].height \in Nat
  BY BlocksAssumption DEF BlockFields
<1>9. Takers(L, "RECEIVE", b) = {} /\ Takers(L, "REWARD", b) = {}
  <2>1. Receivable(L, b) /\ Rewardable(L, b)
    BY DEF TablesInv
  <2>2. QED
    BY <1>2, <2>1 DEF Receivable, Rewardable, Earned
<1>10. \A opcode, s : Takers(N, opcode, s) \subseteq Takers(L, opcode, s) \cup {b}
  BY <1>2 DEF Takers
<1>11. prev \in L.stored => Takers(L, "REWARD", prev) = {}
  <2> SUFFICES ASSUME prev \in L.stored
               PROVE  Takers(L, "REWARD", prev) = {}
    OBVIOUS
  <2>1. L.info[a] # NoInfo /\ prev = L.info[a].head
    BY <1>1, <1>2, AppendChecked, BlocksAssumption
  <2>2. L.successor[prev] = NoBlock
    BY <1>1, <2>1 DEF ChainInv, Chained
  <2>3. Rewardable(L, prev)
    BY <1>2 DEF TablesInv
  <2>4. QED
    BY <2>2, <2>3 DEF Rewardable, Earned
<1>12. b \in Takers(N, "RECEIVE", b) => FALSE
  <2>1. Receivable(N, b)
    BY <1>3 DEF TablesInv
  <2>2. b \in Takers(N, "RECEIVE", b) => Block[b].opcode = "RECEIVE"
    BY DEF Takers
  <2>3. QED
    BY <2>1, <2>2 DEF Receivable
<1>13. \A p \in N.stored : b \in Takers(N, "REWARD", p) => p # b /\ p # prev
  <2> SUFFICES ASSUME NEW p \in N.stored, b \in Takers(N, "REWARD", p)
               PROVE  p # b /\ p # prev
    OBVIOUS
  <2>1. Block[b].opcode = "REWARD" /\ Block[b].link = p
    BY DEF Takers
  <2>2. /\ p \in L.stored /\ RewardableGet(L, a, p) # {}
    BY <1>1, <2>1, TakeChecked
  <2>3. Entries(L.rewardable, p) # {} /\ Rewardable(L, p)
    BY <1>2, <2>2 DEF RewardableGet, Entries, TablesInv
  <2>4. L.successor[p] # NoBlock
    BY <2>3 DEF Rewardable, Earned
  <2>5. p = prev => L.successor[p] = NoBlock
    BY <1>1, <1>2, <2>2, AppendChecked, BlocksAssumption DEF ChainInv, Chained
  <2>6. QED
    BY <1>2, <2>2, <2>4, <2>5
<1> HIDE DEF N, more
<1>14. ASSUME NEW c \in N.stored, NEW d \in N.stored,
              Block[c].account = Block[d].account, Block[c].height < Block[d].height
       PROVE  more[c] < more[d]
  <2>1. c # b
    BY <1>2, <1>7, <1>8, <1>14
  <2>2. CASE d = b
    BY <1>2, <1>6, <2>1, <2>2
  <2>3. CASE d # b
    BY <1>2, <1>4, <1>6, <1>14, <2>1, <2>3 DEF Orders
  <2>4. QED
    BY <2>2, <2>3
<1>15. ASSUME NEW s \in N.stored, NEW t \in Takers(N, "RECEIVE", s)
       PROVE  more[s] < more[t]
  <2>1. s # b
    BY <1>9, <1>10, <1>12, <1>15
  <2>2. CASE t = b
    BY <1>2, <1>6, <2>1, <2>2
  <2>3. CASE t # b
    <3>1. t \in Takers(L, "RECEIVE", s) /\ t \in L.stored
      BY <1>10, <1>15, <2>3 DEF Takers
    <3>2. QED
      BY <1>2, <1>4, <1>6, <2>1, <3>1 DEF Orders
  <2>4. QED
    BY <2>2, <2>3
<1>16. ASSUME NEW p \in N.stored, NEW t \in Takers(N, "REWARD", p),
              N.successor[p] \in N.stored
       PROVE  more[N.successor[p]] < more[t]
  <2>1. p # b
    BY <1>2, <1>16, BlocksAssumption
  <2>2. p \in L.stored
    BY <1>2, <2>1
  <2>3. CASE t = b
    <3>1. N.successor[p] = L.successor[p] /\ p # prev
      BY <1>2, <1>13, <1>16, <2>1, <2>2, <2>3
    <3>2. N.successor[p] # b
      <4>1. Rewardable(N, p)
        BY <1>2, <1>3, <2>2 DEF TablesInv
      <4>2. L.successor[p] = b => FALSE
        <5>1. SUFFICES ASSUME L.successor[p] = b PROVE FALSE
          OBVIOUS
        <5>2. b \in L.stored
          BY <1>1, <2>2, <5>1, SuccessorStored, BlocksAssumption
        <5>3. QED
          BY <1>2, <5>2
      <4>3. QED
        BY <3>1, <4>2
    <3>3. QED
      BY <1>2, <1>6, <1>16, <2>3, <3>2
  <2>4. CASE t # b
    <3>1. t \in Takers(L, "REWARD", p) /\ t \in L.stored
      BY <1>10, <1>16, <2>4 DEF Takers
    <3>2. p # prev
      BY <1>11, <2>2, <3>1
    <3>3. N.successor[p] = L.successor[p]
      BY <1>2, <2>1, <2>2, <3>2
    <3>4. N.successor[p] # b
      BY <1>1, <1>2, <2>2, <3>3, SuccessorStored, BlocksAssumption
    <3>5. QED
      BY <1>2, <1>4, <1>6, <1>16, <2>2, <3>1, <3>3, <3>4 DEF Orders
  <2>5. QED
    BY <2>3, <2>4
<1>17. Orders(N, more)
  BY <1>14, <1>15, <1>16 DEF Orders
<1>18. QED
  BY <1>6, <1>17 DEF Ranked, N

\* What is left after a rollback is still in order.
LEMMA RollbackRanked ==
  ASSUME NEW L, TablesInv(L), Ranked(L), NEW b \in Blocks, RollbackCode(L, b) = "SUCCESS"
  PROVE  Ranked(RollbackBlock(L, b))
<1> DEFINE N == RollbackBlock(L, b)
<1>1. ChainTables(L) /\ IsLedger(L)
  BY DEF TablesInv, ChainInv, ChainTables
<1>2. /\ N.stored = L.stored \ {b} /\ L.stored \subseteq Blocks
      /\ \A p \in Blocks : N.successor[p] = NoBlock \/ N.successor[p] = L.successor[p]
  <2>1. N.successor = DeleteBlockSuccessor(L, b).successor /\ N.stored = L.stored \ {b}
    BY <1>1, RollbackEffect
  <2>2. DeleteBlockSuccessor(L, b).successor =
          [x \in Blocks |-> IF x = b \/ (Block[b].height # 0 /\ x = Block[b].previous)
                            THEN NoBlock ELSE L.successor[x]]
    BY <1>1 DEF DeleteBlockSuccessor, IsLedger
  <2> HIDE DEF N
  <2>3. QED
    BY <1>1, <2>1, <2>2 DEF ChainTables
<1>3. \A opcode, s : Takers(N, opcode, s) \subseteq Takers(L, opcode, s)
  BY <1>2 DEF Takers
<1>4. PICK rank \in [L.stored -> Nat] : Orders(L, rank)
  BY DEF Ranked
<1> DEFINE less == [x \in N.stored |-> rank[x]]
<1>5. less \in [N.stored -> Nat] /\ \A x \in N.stored : less[x] = rank[x]
  BY <1>2
<1> HIDE DEF N, less
<1>6. \A opcode, s : \A t \in Takers(N, opcode, s) : t \in N.stored
  BY DEF Takers
<1>7. ASSUME NEW p \in N.stored, NEW t \in Takers(N, "REWARD", p), N.successor[p] \in N.stored
      PROVE  less[N.successor[p]] < less[t]
  <2>1. N.successor[p] = L.successor[p]
    BY <1>2, <1>7, BlocksAssumption
  <2>2. rank[L.successor[p]] < rank[t]
    BY <1>2, <1>3, <1>4, <1>7, <2>1 DEF Orders
  <2>3. QED
    BY <1>5, <1>6, <1>7, <2>1, <2>2
<1>8. ASSUME NEW c \in N.stored, NEW t \in Takers(N, "RECEIVE", c)
      PROVE  less[c] < less[t]
  BY <1>2, <1>3, <1>4, <1>5, <1>6, <1>8 DEF Orders
<1>9. ASSUME NEW c \in N.stored, NEW d \in N.stored,
             Block[c].account = Block[d].account, Block[c].height < Block[d].height
      PROVE  less[c] < less[d]
  BY <1>2, <1>4, <1>5, <1>9 DEF Orders
<1>10. Orders(N, less)
  BY <1>7, <1>8, <1>9 DEF Orders
<1>11. QED
  BY <1>5, <1>10 DEF Ranked, N

\* The head of an account comes after all its blocks.
LEMMA HeadLast ==
  ASSUME NEW L, ChainInv(L), NEW rank \in [L.stored -> Nat], Orders(L, rank),
         NEW t \in L.stored
  PROVE  LET head == L.info[Block[t].account].head
         IN  head \in L.stored /\ rank[t] <= rank[head]
<1> DEFINE a == Block[t].account
           head == L.info[a].head
<1>1. /\ a \in Accounts /\ L.info[a] # NoInfo /\ head \in L.stored
      /\ Block[t].height \in 0..L.info[a].headHeight /\ L.info[a].headHeight \in Nat
      /\ Block[t].height = L.info[a].headHeight => t = head
  BY SuccessorStored
<1>2. Block[head].account = a /\ Block[head].height = L.info[a].headHeight
  BY <1>1 DEF ChainInv, Chained, ChainOf
<1>3. t = head \/ Block[t].height < Block[head].height
  BY <1>1, <1>2
<1>4. t = head \/ rank[t] < rank[head]
  BY <1>1, <1>2, <1>3 DEF Orders
<1>5. QED
  BY <1>1, <1>4

\* What holds up the rollback of a block comes after it.
LEMMA BlockerLater ==
  ASSUME NEW L, TablesInv(L), NEW rank \in [L.stored -> Nat], Orders(L, rank),
         NEW b \in L.stored,
         RollbackCode(L, b) \notin {"SUCCESS", "ROLLBACK_SOURCE_PRUNED"}
  PROVE  Blocker(L, b) \in L.stored /\ rank[b] < rank[Blocker(L, b)]
<1> DEFINE a == Block[b].account
           info == L.info[a]
           prev == Block[b].previous
           code == RollbackCode(L, b)
<1>1. ChainInv(L) /\ L.stored \subseteq Blocks
  BY DEF TablesInv, ChainInv, ChainTables
<1>2. /\ code \in {"ROLLBACK_NON_HEAD", "ROLLBACK_REWARDED", "ROLLBACK_RECEIVED"}
      /\ Blocker(L, b) \in L.stored
  BY RollbackSoundness DEF RollbackSound
<1>3. /\ a \in Accounts /\ info # NoInfo /\ b \in Blocks
      /\ Block[b].height \in 0..info.headHeight /\ info.headHeight \in Nat
  BY <1>1, SuccessorStored
<1>4. Chained(L, a) /\ b \in ChainOf(L, a)
  BY <1>1, <1>3 DEF ChainInv, ChainOf
<1>5. CASE code = "ROLLBACK_NON_HEAD"
  <2>1. Blocker(L, b) = L.successor[b]
    BY <1>5, SMTT(40) DEF Blocker
  <2>2. Block[b].height # info.headHeight
    BY <1>5 DEF RollbackCode, CheckRollback, AndThen, Unless
  <2>3. Block[b].height + 1 \in 0..info.headHeight
    BY <1>3, <2>2
  <2>4. PICK c \in ChainOf(L, a) : Block[c].height = Block[b].height + 1
    <3>1. {Block[c].height : c \in ChainOf(L, a)} = 0..info.headHeight
      BY <1>3, <1>4 DEF Chained
    <3>2. QED
      BY <2>3, <3>1, SMTT(40)
  <2>5. Block[c].height # 0
    BY <1>3, <2>4
  <2>6. /\ Block[c].previous \in ChainOf(L, a) /\ L.successor[Block[c].previous] = c
        /\ Block[Block[c].previous].height = Block[b].height
    <3>1. /\ Block[c].previous \in ChainOf(L, a) /\ L.successor[Block[c].previous] = c
          /\ Block[Block[c].previous].height = Block[c].height - 1
      BY <1>3, <1>4, <2>5, SMTT(40) DEF Chained
    <3>2. QED
      BY <1>3, <2>4, <3>1
  <2>7. Block[c].previous = b
    BY <1>3, <1>4, <2>6 DEF Chained, ForkWith, ChainOf
  <2>8. c \in L.stored /\ Block[c].account = a /\ Block[b].height < Block[c].height
    BY <1>3, <2>4 DEF ChainOf
  <2>9. rank[b] < rank[c]
    BY <2>8 DEF Orders
  <2>10. QED
    BY <1>2, <2>1, <2>6, <2>7, <2>9
<1>6. CASE code = "ROLLBACK_REWARDED"
  <2>1. Blocker(L, b) = L.info[Block[prev].rep].head
    BY <1>6 DEF Blocker
  <2>2. CheckRollback(L, b) = "ROLLBACK_REWARDED"
    BY <1>6 DEF RollbackCode, AndThen, Unless
  <2>3. /\ HasRepresentative(b) /\ Block[b].height # 0 /\ Reward(prev, b) # 0
        /\ RewardableGet(L, Block[prev].rep, prev) = {}
    BY <2>2, SMTT(40) DEF CheckRollback, AndThen, Unless
  <2>4. /\ prev \in ChainOf(L, a) /\ L.successor[prev] = b
        /\ Block[prev].type = Block[b].type
    BY <1>3, <1>4, <2>3 DEF Chained
  <2>5. prev \in L.stored /\ prev \in Blocks /\ Rewardable(L, prev)
    BY <1>1, <2>4 DEF TablesInv, ChainOf
  <2>6. Earned(L, prev)
    BY <1>3, <2>3, <2>4, <2>5, BlocksAssumption DEF Earned, HasRepresentative
  <2> DEFINE e == RewardableInfo(prev, b, Reward(prev, b))
  <2>7. e.rep = Block[prev].rep /\ e.source = prev
    BY DEF RewardableInfo
  <2>8. Entries(L.rewardable, prev) # {e}
    <3> HIDE DEF e
    <3>1. QED
      BY <2>3, <2>7 DEF Entries, RewardableGet
  <2>9. PICK t \in Blocks : Takers(L, "REWARD", prev) = {t} /\ Block[t].account = Block[prev].rep
    BY <2>4, <2>5, <2>6, <2>8 DEF Rewardable
  <2>10. t \in L.stored /\ t \in Takers(L, "REWARD", prev)
    BY <2>9 DEF Takers
  <2>11. rank[b] < rank[t]
    BY <2>4, <2>5, <2>10 DEF Orders
  <2>12. rank[t] <= rank[L.info[Block[prev].rep].head]
    BY <1>1, <2>9, <2>10, HeadLast
  <2>13. QED
    BY <1>2, <2>1, <2>10, <2>11, <2>12
<1>7. CASE code = "ROLLBACK_RECEIVED"
  <2>1. Blocker(L, b) = L.info[Block[b].link].head
    BY <1>7, SMTT(40) DEF Blocker
  <2>2. CheckRollback(L, b) = "SUCCESS"
    BY <1>7 DEF RollbackCode, CheckRollback, AndThen, Unless
  <2>3. Block[b].opcode = "SEND" /\ ReceivableGet(L, Block[b].link, b) = {}
    BY <1>7, <2>2 DEF RollbackCode, AndThen, Unless
  <2>4. Receivable(L, b)
    BY <1>3 DEF TablesInv
  <2> DEFINE e == ReceivableInfo(Block[b].link, b, SentAmount(b))
  <2>5. e.to = Block[b].link /\ e.source = b
    BY DEF ReceivableInfo
  <2>6. Entries(L.receivable, b) # {e}
    <3> HIDE DEF e
    <3>1. QED
      BY <2>3, <2>5 DEF Entries, ReceivableGet
  <2>7. PICK t \in Blocks : Takers(L, "RECEIVE", b) = {t} /\ Block[t].account = Block[b].link
    BY <2>3, <2>4, <2>6 DEF Receivable
  <2>8. t \in L.stored /\ t \in Takers(L, "RECEIVE", b)
    BY <2>7 DEF Takers
  <2>9. rank[b] < rank[t]
    BY <2>8 DEF Orders
  <2>10. rank[t] <= rank[L.info[Block[b].link].head]
    BY <1>1, <2>7, <2>8, HeadLast
  <2>11. QED
    BY <1>2, <2>1, <2>8, <2>9, <2>10
<1>8. QED
  BY <1>2, <1>5, <1>6, <1>7

\* No set of stored blocks whose rollbacks are all held up by blocks of the set.
NoCircle(L) ==
  \A S \in SUBSET L.stored : S # {} =>
    \E b \in S : \/ RollbackCode(L, b) \in {"SUCCESS", "ROLLBACK_SOURCE_PRUNED"}
                 \/ Blocker(L, b) \notin S

(***************************************************************************)
(* The rollbacks that ProcessBlockDynamicRollback_ pushes on its stack     *)
(* never wait for each other in a circle, in whatever way the accounts     *)
(* sent to and claimed from each other: in every set of stored blocks one  *)
(* can go, or is held up by a block outside the set, or is the genesis     *)
(* block.                                                                  *)
(***************************************************************************)
THEOREM RollbacksNeverCircular == Spec => []NoCircle(ledger)
<1> DEFINE RInv == TablesInv(ledger) /\ Ranked(ledger)
<1>1. Init => RInv
  <2> SUFFICES ASSUME Init PROVE Ranked(ledger)
    BY InitTables DEF Init
  <2>1. ledger.stored = {Genesis} /\ ledger.successor = [b \in Blocks |-> NoBlock]
    BY DEF Init, InitLedger
  <2>2. Genesis \in Blocks /\ NoBlock # Genesis
    BY GenesisAssumption, BlocksAssumption
  <2>3. \A opcode, s : Takers(ledger, opcode, s) = {}
    BY <2>1 DEF Takers
  <2> DEFINE rank == [b \in ledger.stored |-> 0]
  <2>4. Block[Genesis].height \in Nat
    BY <2>2, BlocksAssumption DEF BlockFields
  <2>5. rank \in [ledger.stored -> Nat] /\ Orders(ledger, rank)
    BY <2>1, <2>3, <2>4 DEF Orders
  <2>6. QED
    BY <2>5 DEF Ranked
<1>2. RInv /\ [Next]_ledger => RInv'
  <2> SUFFICES ASSUME TablesInv(ledger), Ranked(ledger), [Next]_ledger
               PROVE  Ranked(ledger')
    BY TablesStep
  <2>1. ASSUME NEW b \in Blocks, Append(b)
        PROVE  Ranked(ledger')
    BY <2>1, AppendRanked DEF Append
  <2>2. ASSUME NEW b \in Blocks, Rollback(b)
        PROVE  Ranked(ledger')
    BY <2>2, RollbackRanked DEF Rollback
  <2>3. ASSUME ledger'.stored = ledger.stored, ledger'.successor = ledger.successor
        PROVE  Ranked(ledger')
    <3>1. \A opcode, s : Takers(ledger', opcode, s) = Takers(ledger, opcode, s)
      BY <2>3 DEF Takers
    <3>2. QED
      BY <2>3, <3>1 DEF Ranked, Orders
  <2>4. ASSUME NEW b \in Blocks, Confirm(b)
        PROVE  Ranked(ledger')
    <3>1. IsLedger(ledger)
      BY DEF TablesInv, ChainInv, ChainTables
    <3>2. ledger'.stored = ledger.stored /\ ledger'.successor = ledger.successor
      BY <2>4, <3>1 DEF Confirm, ConfirmBlock, IsLedger
    <3>3. QED
      BY <2>3, <3>2
  <2>5. ASSUME Restart
        PROVE  Ranked(ledger')
    BY <2>3, <2>5, RestartChainInv DEF Restart, TablesInv
  <2>6. QED
    BY <2>1, <2>2, <2>4, <2>5 DEF Next
<1>3. RInv => NoCircle(ledger)
  <2> SUFFICES ASSUME TablesInv(ledger), Ranked(ledger),
                      NEW S \in SUBSET ledger.stored, S # {},
                      \A b \in S :
                        /\ RollbackCode(ledger, b) \notin {"SUCCESS", "ROLLBACK_SOURCE_PRUNED"}
                        /\ Blocker(ledger, b) \in S
               PROVE  FALSE
    BY DEF NoCircle
  <2>1. PICK rank \in [ledger.stored -> Nat] : Orders(ledger, rank)
    BY DEF Ranked
  <2>2. IsFiniteSet(S) /\ \A x \in S : rank[x] \in Nat
    BY FS_Subset DEF TablesInv, BoundInv
  <2>3. PICK b \in S : \A c \in S : rank[c] <= rank[b]
    BY <2>2, FiniteMax
  <2>4. rank[b] < rank[Blocker(ledger, b)] /\ Blocker(ledger, b) \in S
    BY <2>1, BlockerLater
  <2>5. QED
    BY <2>2, <2>3, <2>4
<1>4. QED
  BY <1>1, <1>2, <1>3, PTL DEF Spec

=============================================================================
