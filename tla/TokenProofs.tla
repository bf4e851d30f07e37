---------------------------- MODULE TokenProofs -----------------------------
(***************************************************************************)
(* Proofs about the swaps of the token application, for any accounts,      *)
(* tokens, chains, operations, values and heights.                         *)
(*                                                                         *)
(* An operation either leaves the tables of the swaps alone (Keeps,        *)
(* Booked, Quiet) or does one thing to one swap (Asked, Acked, Took,       *)
(* Traded); the purges settle exactly what waits for a block.  Tables stay *)
(* Sound: the swaps have their orders and the waiting tables hold exactly  *)
(* the open inquiries and takes.  With the heights of the chains (SwapInv) *)
(* this gives that every swap is settled in time, and that every step is   *)
(* one of SwapLife.                                                        *)
(***************************************************************************)
EXTENDS TokenMachine, FiniteSums, FiniteSetTheorems, TLAPS

\* The names of the tables (TokenLedger, TokenSwap).
Tables == {"fault", "info", "head", "account", "holder", "owned", "ids",
           "receivables", "out", "in", "lost", "main", "orders", "swaps",
           "inquiries", "takes", "counts"}

\* The tables have their names.
Shaped(L) == DOMAIN L = Tables

\* The tables of the swaps, and the heads, are the same in L and M, and a
\* fault stays.
Keeps(L, M) ==
  /\ Shaped(M)
  /\ L.fault = TRUE => M.fault = TRUE
  /\ M.head = L.head /\ M.main = L.main /\ M.orders = L.orders
  /\ M.swaps = L.swaps /\ M.inquiries = L.inquiries /\ M.takes = L.takes

\* Tables keep themselves.
LEMMA KeepsSelf ==
  ASSUME NEW L, Shaped(L)
  PROVE  Keeps(L, L)
BY DEF Keeps

\* Keeping the swaps is transitive.
LEMMA KeepsTrans ==
  ASSUME NEW L, NEW M, NEW N, Keeps(L, M), Keeps(M, N)
  PROVE  Keeps(L, N)
BY DEF Keeps

\* A fault (an error return) leaves the tables of the swaps alone.
LEMMA KeepsFault ==
  ASSUME NEW L, Shaped(L)
  PROVE  Keeps(L, Fault(L)) /\ Fault(L).fault = TRUE
BY DEF Keeps, Fault, Shaped, Tables

\* Putting a receivable does not touch the swaps.
LEMMA KeepsReceivable ==
  ASSUME NEW L, Shaped(L), NEW key, NEW r
  PROVE  Keeps(L, UpdateLedgerReceivable(L, key, r))
BY DEF Keeps, UpdateLedgerReceivable, Shaped, Tables

\* Nor does changing a balance.
LEMMA KeepsBalance ==
  ASSUME NEW L, Shaped(L), NEW a, NEW t, NEW p, NEW c
  PROVE  Keeps(L, UpdateLedgerBalance(L, a, t, p, c))
BY KeepsFault DEF Keeps, UpdateLedgerBalance, Shaped, Tables

\* Nor does changing the supplies of a token.
LEMMA KeepsSupplies ==
  ASSUME NEW L, Shaped(L), NEW t, NEW p, NEW c
  PROVE  Keeps(L, UpdateLedgerSupplies(L, t, p, c))
BY KeepsFault DEF Keeps, UpdateLedgerSupplies, Shaped, Tables

\* Nor does taking tokens from an account.
LEMMA KeepsPay ==
  ASSUME NEW L, Shaped(L), NEW a, NEW t, NEW v
  PROVE  Keeps(L, Pay(L, a, t, v))
<1> DEFINE paid == UpdateLedgerBalance(L, a, t, Balance(L, a, t),
                     Balance(L, a, t) - Amount(L.info[t].type, v))
           M == [paid EXCEPT !.owned = @ \ {<<a, t, v>>}]
<1>1. Keeps(L, paid)
  BY KeepsBalance
<1>2. Pay(L, a, t, v) \in {Fault(L), M}
  BY DEF Pay
<1> HIDE DEF paid
<1>3. Keeps(L, M)
  BY <1>1 DEF Keeps, Shaped, Tables
<1> QED
  BY <1>2, <1>3, KeepsFault

\* Nor does counting the orders and swaps of an account.
LEMMA KeepsCounts ==
  ASSUME NEW L, Shaped(L), NEW a
  PROVE  /\ Keeps(L, Counted(L, a))
         /\ Keeps(L, UpdateLedgerAccountOrdersInc(L, a))
         /\ Keeps(L, UpdateLedgerAccountOrdersDec(L, a))
         /\ Keeps(L, UpdateLedgerAccountActiveSwapsInc(L, a))
         /\ Keeps(L, UpdateLedgerAccountActiveSwapsDec(L, a))
<1>1. Keeps(L, Counted(L, a))
  BY DEF Counted, Keeps, Shaped, Tables
<1>2. Keeps(L, UpdateLedgerAccountOrdersInc(L, a))
  BY DEF UpdateLedgerAccountOrdersInc, Keeps, Shaped, Tables
<1>3. Keeps(L, UpdateLedgerAccountOrdersDec(L, a))
  BY KeepsFault DEF UpdateLedgerAccountOrdersDec, Keeps, Shaped, Tables
<1>4. Keeps(L, UpdateLedgerAccountActiveSwapsInc(L, a))
  BY KeepsFault DEF UpdateLedgerAccountActiveSwapsInc, Keeps, Shaped, Tables
<1>5. Keeps(L, UpdateLedgerAccountActiveSwapsDec(L, a))
  BY KeepsFault DEF UpdateLedgerAccountActiveSwapsDec, Keeps, Shaped, Tables
<1> QED
  BY <1>1, <1>2, <1>3, <1>4, <1>5

-----------------------------------------------------------------------------

\* M is what L becomes when block h of account a is booked and nothing is
\* done to the swaps, or the block met a fault.
Booked(L, M, a, h) ==
  /\ Shaped(M)
  /\ M.fault # TRUE =>
       /\ L.fault # TRUE
       /\ L.head[a] # NoInfo => ~(h <= L.head[a])
       /\ M.head = [L.head EXCEPT ![a] = h]
       /\ M.main = L.main /\ M.orders = L.orders
       /\ M.swaps = L.swaps /\ M.inquiries = L.inquiries /\ M.takes = L.takes

\* An operation that ends in an error books nothing.
LEMMA BookedFault ==
  ASSUME NEW L, Shaped(L), NEW a, NEW h
  PROVE  Booked(L, Fault(L), a, h)
BY KeepsFault DEF Booked, Keeps

\* UpdateLedgerCommon books the block, or faults when it was booked before.
LEMMA BookedCommon ==
  ASSUME NEW L, NEW M, Keeps(L, M), NEW a, NEW h, NEW ts
  PROVE  Booked(L, UpdateLedgerCommon(M, a, h, ts), a, h)
<1> DEFINE account == [t \in Tokens |-> IF t \in ts /\ M.account[a][t] = NoInfo
                                         THEN 0 ELSE M.account[a][t]]
           N == [M EXCEPT !.head[a] = h, !.account[a] = account]
<1>1. UpdateLedgerCommon(M, a, h, ts) =
        IF M.head[a] # NoInfo /\ h <= M.head[a] THEN Fault(M) ELSE N
  BY DEF UpdateLedgerCommon
<1> HIDE DEF account
<1>2. CASE M.head[a] # NoInfo /\ h <= M.head[a]
  BY <1>1, <1>2, KeepsFault DEF Booked, Keeps
<1>3. CASE ~(M.head[a] # NoInfo /\ h <= M.head[a])
  BY <1>1, <1>3, ZenonT(60) DEF Booked, Keeps, Shaped, Tables
<1> QED
  BY <1>2, <1>3

\* A block whose operation is invalid is only booked.
LEMMA BookedSame ==
  ASSUME NEW L, Shaped(L), NEW a, NEW h, NEW ts
  PROVE  Booked(L, UpdateLedgerCommon(L, a, h, ts), a, h)
BY KeepsSelf, BookedCommon

\* ProcessCreate books its block and leaves the swaps alone.
LEMMA BookedCreate ==
  ASSUME NEW L, Shaped(L), NEW a, NEW h, NEW c
  PROVE  Booked(L, ProcessCreate(L, a, h, c), a, h)
<1> DEFINE new == [L EXCEPT !.info[a] = TokenInfo(c.type, c.burnable,
                     c.type = "721" \/ c.mintable, c.circulable, c.cap,
                     IF c.type = "20" /\ c.init > 0 THEN c.init ELSE 0)]
           funded == UpdateLedgerReceivable(new, ReceivableKey(a, a, Tx(a, h)),
                       Receivable(a, c.init, h, "20", "MINT"))
<1>1. ProcessCreate(L, a, h, c) \in
        {UpdateLedgerCommon(L, a, h, {a}), UpdateLedgerCommon(new, a, h, {a}),
         UpdateLedgerCommon(funded, a, h, {a})}
  BY DEF ProcessCreate
<1>2. Keeps(L, new)
  BY DEF Keeps, Shaped, Tables
<1> HIDE DEF new
<1>3. Keeps(L, funded)
  BY <1>2, KeepsReceivable, KeepsTrans DEF Keeps
<1> HIDE DEF funded
<1> QED
  BY <1>1, <1>2, <1>3, BookedSame, BookedCommon

\* So does ProcessMint.
LEMMA BookedMint ==
  ASSUME NEW L, Shaped(L), NEW a, NEW h, NEW type, NEW to, NEW v
  PROVE  Booked(L, ProcessMint(L, a, h, type, to, v), a, h)
<1> DEFINE total == Plus(L.info[a].total, Amount(type, v))
           local == Plus(L.info[a].local, Amount(type, v))
           ids == IF type = "20" THEN L
                  ELSE IF L.ids[a][v] = NoInfo
                         THEN [L EXCEPT !.ids[a][v] = TokenIdInfo]
                         ELSE [L EXCEPT !.ids[a][v].burned = FALSE]
           put == UpdateLedgerReceivable(ids, ReceivableKey(to, a, Tx(a, h)),
                    Receivable(a, v, h, type, "MINT"))
           K == UpdateLedgerSupplies(put, a, total, local)
<1>1. ProcessMint(L, a, h, type, to, v) \in
        {UpdateLedgerCommon(L, a, h, {a}), UpdateLedgerCommon(L, a, h, {}),
         Fault(L), UpdateLedgerCommon(K, a, h, {a})}
  BY DEF ProcessMint
<1>2. Keeps(L, ids)
  BY DEF Keeps, Shaped, Tables
<1> HIDE DEF ids
<1>3. Keeps(L, put)
  BY <1>2, KeepsReceivable, KeepsTrans DEF Keeps
<1> HIDE DEF put
<1>4. Keeps(L, K)
  BY <1>3, KeepsSupplies, KeepsTrans DEF Keeps
<1> HIDE DEF K
<1> QED
  BY <1>1, <1>4, BookedSame, BookedCommon, BookedFault

\* So does ProcessBurn.
LEMMA BookedBurn ==
  ASSUME NEW L, Shaped(L), NEW a, NEW h, NEW type, NEW v
  PROVE  Booked(L, ProcessBurn(L, a, h, type, v), a, h)
<1> DEFINE n == Amount(type, v)
           ids == IF type = "20" THEN L ELSE [L EXCEPT !.ids[a][v].burned = TRUE]
           paid == Pay(ids, a, a, v)
           K == UpdateLedgerSupplies(paid, a, L.info[a].total - n,
                                     L.info[a].local - n)
<1>1. ProcessBurn(L, a, h, type, v) \in
        {UpdateLedgerCommon(L, a, h, {a}), UpdateLedgerCommon(L, a, h, {}),
         Fault(L), UpdateLedgerCommon(K, a, h, {a})}
  BY DEF ProcessBurn
<1>2. Keeps(L, ids)
  BY DEF Keeps, Shaped, Tables
<1> HIDE DEF ids
<1>3. Keeps(L, paid)
  BY <1>2, KeepsPay, KeepsTrans DEF Keeps
<1> HIDE DEF paid
<1>4. Keeps(L, K)
  BY <1>3, KeepsSupplies, KeepsTrans, ZenonT(60) DEF Keeps
<1> HIDE DEF K
<1> QED
  BY <1>1, <1>4, BookedSame, BookedCommon, BookedFault

\* So does ProcessSend.
LEMMA BookedSend ==
  ASSUME NEW L, Shaped(L), NEW a, NEW h, NEW t, NEW type, NEW to, NEW v
  PROVE  Booked(L, ProcessSend(L, a, h, t, type, to, v), a, h)
<1> DEFINE paid == Pay(L, a, t, v)
           K == UpdateLedgerReceivable(paid, ReceivableKey(to, t, Tx(a, h)),
                  Receivable(a, v, h, type, "SEND"))
<1>1. ProcessSend(L, a, h, t, type, to, v) \in
        {UpdateLedgerCommon(L, a, h, {}), UpdateLedgerCommon(L, a, h, {t}),
         Fault(L), UpdateLedgerCommon(K, a, h, {t})}
  BY DEF ProcessSend
<1>2. Keeps(L, paid)
  BY KeepsPay
<1> HIDE DEF paid
<1>3. Keeps(L, K)
  BY <1>2, KeepsReceivable, KeepsTrans DEF Keeps
<1> HIDE DEF K
<1> QED
  BY <1>1, <1>3, BookedSame, BookedCommon, BookedFault

\* So does ProcessReceive.
LEMMA BookedReceive ==
  ASSUME NEW L, Shaped(L), NEW a, NEW h, NEW key, NEW r
  PROVE  Booked(L, ProcessReceive(L, a, h, key, r), a, h)
<1> DEFINE t == key.token
           prev == Balance(L, a, t)
           cur == Plus(prev, Amount(r.type, r.value))
           foreign == r.source \in {"MAP", "UNWRAP"}
           taken == [L EXCEPT
             !.receivables = [k \in DOMAIN @ \ {key} |-> @[k]],
             !.owned = IF r.type = "721" THEN @ \cup {<<a, t, r.value>>} ELSE @,
             !.in = IF foreign /\ key.tx \in DOMAIN @
                      THEN [@ EXCEPT ![key.tx].received = TRUE] ELSE @]
           K == UpdateLedgerBalance(taken, a, t, prev, cur)
<1>1. ProcessReceive(L, a, h, key, r) \in
        {UpdateLedgerCommon(L, a, h, {}), UpdateLedgerCommon(L, a, h, {t}),
         Fault(L), UpdateLedgerCommon(K, a, h, {t})}
  BY DEF ProcessReceive
<1>2. Keeps(L, taken)
  <2> DEFINE x == [k \in DOMAIN L.receivables \ {key} |-> L.receivables[k]]
             y == IF r.type = "721" THEN L.owned \cup {<<a, t, r.value>>} ELSE L.owned
             z == IF foreign /\ key.tx \in DOMAIN L.in
                      THEN [L.in EXCEPT ![key.tx].received = TRUE] ELSE L.in
  <2>1. taken = [L EXCEPT !.receivables = x, !.owned = y, !.in = z]
    OBVIOUS
  <2> HIDE DEF x, y, z, taken
  <2> QED
    BY <2>1 DEF Keeps, Shaped, Tables
<1> HIDE DEF taken
<1>3. Keeps(L, K)
  BY <1>2, KeepsBalance, KeepsTrans, ZenonT(60) DEF Keeps
<1> HIDE DEF K
<1> QED
  BY <1>1, <1>3, BookedSame, BookedCommon, BookedFault

\* So do ProcessUnmap and ProcessWrap.
LEMMA BookedWithdraw ==
  ASSUME NEW L, Shaped(L), NEW a, NEW h, NEW t, NEW type, NEW v, NEW kind, NEW c
  PROVE  Booked(L, Withdraw(L, a, h, t, type, v, kind, c), a, h)
<1> DEFINE n == Amount(type, v)
           gone == [L EXCEPT
             !.ids[t] = IF type = "20" THEN @ ELSE [@ EXCEPT ![v][kind] = TRUE],
             !.out = Put(@, Tx(a, h), [token |-> t, value |-> v, kind |-> kind,
                                       chain |-> c, target |-> NoInfo])]
           paid == Pay(gone, a, t, v)
           K == UpdateLedgerSupplies(paid, t, L.info[t].total, L.info[t].local - n)
<1>1. Withdraw(L, a, h, t, type, v, kind, c) \in
        {UpdateLedgerCommon(L, a, h, {}), UpdateLedgerCommon(L, a, h, {t}),
         Fault(L), UpdateLedgerCommon(K, a, h, {t})}
  BY DEF Withdraw
<1>2. Keeps(L, gone)
  BY DEF Keeps, Shaped, Tables
<1> HIDE DEF gone
<1>3. Keeps(L, paid)
  BY <1>2, KeepsPay, KeepsTrans DEF Keeps
<1> HIDE DEF paid
<1>4. Keeps(L, K)
  BY <1>3, KeepsSupplies, KeepsTrans DEF Keeps
<1> HIDE DEF K
<1> QED
  BY <1>1, <1>4, BookedSame, BookedCommon, BookedFault

\* Tokens that arrive from another chain do not touch the swaps.
LEMMA KeepsArrive ==
  ASSUME NEW L, Shaped(L), NEW c, NEW h, NEW t, NEW type, NEW to, NEW v,
         NEW source, NEW back
  PROVE  Keeps(L, Arrive(L, c, h, t, type, to, v, source, back))
<1> DEFINE local == Plus(L.info[t].local, Amount(type, v))
           ids == IF type = "20" THEN L
                  ELSE IF L.ids[t][v] = NoInfo
                         THEN [L EXCEPT !.ids[t][v] = TokenIdInfo]
                         ELSE [L EXCEPT !.ids[t][v][back] = FALSE]
           put == UpdateLedgerReceivable(ids, ReceivableKey(to, t, Tx(c, h)),
                    Receivable(c, v, h, type, source))
           K == UpdateLedgerSupplies(put, t, L.info[t].total, local)
           M == [K EXCEPT !.in = Put(@, Tx(c, h),
                    [token |-> t, value |-> v, kind |-> source,
                     chain |-> c, received |-> FALSE])]
<1>1. Arrive(L, c, h, t, type, to, v, source, back) \in {Fault(L), M}
  BY DEF Arrive
<1>2. Keeps(L, ids)
  BY DEF Keeps, Shaped, Tables
<1> HIDE DEF ids
<1>3. Keeps(L, put)
  BY <1>2, KeepsReceivable, KeepsTrans DEF Keeps
<1> HIDE DEF put
<1>4. Keeps(L, K)
  BY <1>3, KeepsSupplies, KeepsTrans DEF Keeps
<1> HIDE DEF K
<1>5. Keeps(L, M)
  BY <1>4 DEF Keeps, Shaped, Tables
<1> QED
  BY <1>1, <1>5, KeepsFault

\* Nor do the other events of other chains.
LEMMA KeepsEvents ==
  ASSUME NEW L, Shaped(L), NEW t, NEW type, NEW tx, NEW h
  PROVE  /\ Keeps(L, ProcessCrossChainTokenEvent(L, t, type))
         /\ Keeps(L, ProcessCrossChainUnmapEvent(L, tx, h))
         /\ Keeps(L, ProcessCrossChainWrapEvent(L, tx, h))
<1>1. Keeps(L, ProcessCrossChainTokenEvent(L, t, type))
  BY KeepsFault DEF ProcessCrossChainTokenEvent, Keeps, Shaped, Tables
<1>2. Keeps(L, ProcessCrossChainUnmapEvent(L, tx, h))
  BY KeepsFault DEF ProcessCrossChainUnmapEvent, Keeps, Shaped, Tables
<1>3. Keeps(L, ProcessCrossChainWrapEvent(L, tx, h))
  BY KeepsSelf DEF ProcessCrossChainWrapEvent, Keeps, Shaped, Tables
<1> QED
  BY <1>1, <1>2, <1>3

-----------------------------------------------------------------------------

Statuses == {"INQUIRY", "INQUIRY_ACK", "INQUIRY_NACK",
             "TAKE", "TAKE_ACK", "TAKE_NACK"}

SwapInfos == [status : Statuses, maker : Accounts, order : Int, ack : Int,
              value : Values, take : Int \cup {NoInfo}, trade : Int \cup {NoInfo}]

MainOf(L, s) == OrderOf(L, s).main

OrdersSound(L) ==
  /\ DOMAIN L.orders \subseteq Accounts \X Int
  /\ \A o \in DOMAIN L.orders :
       /\ "main" \in DOMAIN L.orders[o] /\ L.orders[o].main \in Accounts
       /\ L.head[o[1]] \in Int /\ o[2] <= L.head[o[1]]

SwapsSound(L) ==
  /\ IsFiniteSet(DOMAIN L.swaps)
  /\ DOMAIN L.swaps \subseteq Accounts \X Int
  /\ L.swaps = [s \in DOMAIN L.swaps |-> L.swaps[s]]
  /\ \A s \in DOMAIN L.swaps :
       /\ L.swaps[s] \in SwapInfos
       /\ <<L.swaps[s].maker, L.swaps[s].order>> \in DOMAIN L.orders
       /\ L.swaps[s].maker # s[1] /\ MainOf(L, s) # s[1]
       /\ L.head[s[1]] \in Int /\ s[2] <= L.head[s[1]]
       /\ L.swaps[s].status \in Answered => L.swaps[s].trade \in Int

\* Inquiry <<t, i>> waits for block h of account m.
Asks(L, m, h, t, i) ==
  /\ <<t, i>> \in DOMAIN L.swaps
  /\ L.swaps[<<t, i>>].status = "INQUIRY"
  /\ MainOf(L, <<t, i>>) = m /\ L.swaps[<<t, i>>].ack = h

\* The take of swap <<t, i>> waits for block h of account m.
Takes(L, m, h, t, i) ==
  /\ <<t, i>> \in DOMAIN L.swaps
  /\ L.swaps[<<t, i>>].status = "TAKE"
  /\ L.swaps[<<t, i>>].maker = m /\ L.swaps[<<t, i>>].trade = h

Waits == Accounts \X Int \X Accounts \X Int

AsksExact(L) ==
  /\ L.inquiries \subseteq Waits
  /\ \A m \in Accounts, h \in Int, t \in Accounts, i \in Int :
       <<m, h, t, i>> \in L.inquiries <=> Asks(L, m, h, t, i)

TakesExact(L) ==
  /\ L.takes \subseteq Waits
  /\ \A m \in Accounts, h \in Int, t \in Accounts, i \in Int :
       <<m, h, t, i>> \in L.takes <=> Takes(L, m, h, t, i)

HeadsSound(L) ==
  /\ Shaped(L)
  /\ L.head \in [Accounts -> Int \cup {NoInfo}]
  /\ L.main \in [Accounts -> Accounts \cup {NoInfo}]

Sound(L) ==
  /\ HeadsSound(L) /\ OrdersSound(L) /\ SwapsSound(L)
  /\ AsksExact(L) /\ TakesExact(L)

\* M is what L becomes by block h of a, apart from the swaps.
Carried(L, M, a, h) ==
  /\ Shaped(M)
  /\ L.head[a] # NoInfo => ~(h <= L.head[a])
  /\ M.head = [L.head EXCEPT ![a] = h]
  /\ M.main \in [Accounts -> Accounts \cup {NoInfo}]
  /\ DOMAIN L.orders \subseteq DOMAIN M.orders
  /\ DOMAIN M.orders \subseteq DOMAIN L.orders \cup {<<a, h>>}
  /\ \A o \in DOMAIN M.orders :
       "main" \in DOMAIN M.orders[o] /\ M.orders[o].main \in Accounts
  /\ \A o \in DOMAIN L.orders : M.orders[o].main = L.orders[o].main

\* A block that is booked carries the tables on.
LEMMA BookedCarried ==
  ASSUME NEW L, NEW M, NEW a, NEW h, Sound(L), Booked(L, M, a, h), M.fault # TRUE
  PROVE  Carried(L, M, a, h)
BY DEF Sound, HeadsSound, OrdersSound, Booked, Carried

\* M comes after L: no head is lower, and the orders keep their main accounts.
Follows(L, M) ==
  /\ HeadsSound(M) /\ OrdersSound(M)
  /\ \A b \in Accounts : L.head[b] \in Int =>
       M.head[b] \in Int /\ L.head[b] <= M.head[b]
  /\ DOMAIN L.orders \subseteq DOMAIN M.orders
  /\ \A o \in DOMAIN L.orders : M.orders[o].main = L.orders[o].main

\* The tables after a block follow those before it, and no swap has the
\* number of the new block.
LEMMA CarriedFollows ==
  ASSUME NEW L, NEW M, NEW a \in Accounts, NEW h \in Int, Sound(L),
         Carried(L, M, a, h)
  PROVE  Follows(L, M) /\ <<a, h>> \notin DOMAIN L.swaps
<1>1. HeadsSound(M)
  <2>1. L.head \in [Accounts -> Int \cup {NoInfo}]
    BY DEF Sound, HeadsSound
  <2>2. M.head \in [Accounts -> Int \cup {NoInfo}]
    BY <2>1 DEF Carried
  <2> QED
    BY <2>2 DEF HeadsSound, Carried
<1>2. \A b \in Accounts : L.head[b] \in Int =>
              M.head[b] \in Int /\ L.head[b] <= M.head[b]
  BY GenesisAssumption DEF HeadsSound, Carried, Sound
<1>3. OrdersSound(M)
  BY <1>2 DEF HeadsSound, OrdersSound, Carried, Sound
<1>4. <<a, h>> \notin DOMAIN L.swaps
  <2>1. SUFFICES ASSUME <<a, h>> \in DOMAIN L.swaps
                 PROVE  FALSE
    OBVIOUS
  <2>2. L.head[a] \in Int /\ h <= L.head[a]
    BY <2>1 DEF Sound, SwapsSound
  <2> QED
    BY <2>2, GenesisAssumption DEF Carried
<1> QED
  BY <1>1, <1>2, <1>3, <1>4 DEF Follows, Carried

\* A swap keeps the main account that is to answer.
LEMMA FollowsMain ==
  ASSUME NEW L, NEW M, Sound(L), Follows(L, M), NEW s \in DOMAIN L.swaps,
         M.swaps[s].maker = L.swaps[s].maker, M.swaps[s].order = L.swaps[s].order
  PROVE  /\ MainOf(M, s) = MainOf(L, s)
         /\ <<M.swaps[s].maker, M.swaps[s].order>> \in DOMAIN M.orders
         /\ s \in Accounts \X Int
         /\ M.head[s[1]] \in Int /\ s[2] <= M.head[s[1]]
<1>1. /\ MainOf(M, s) = MainOf(L, s)
      /\ <<M.swaps[s].maker, M.swaps[s].order>> \in DOMAIN M.orders
  BY DEF MainOf, OrderOf, Sound, SwapsSound, Follows
<1>2. /\ s \in Accounts \X Int
      /\ L.head[s[1]] \in Int /\ s[2] <= L.head[s[1]]
  BY DEF Sound, SwapsSound
<1>3. M.head[s[1]] \in Int /\ L.head[s[1]] <= M.head[s[1]]
  BY <1>2 DEF Follows
<1> QED
  BY <1>1, <1>2, <1>3

\* The swaps of M are those of L, some with another status.
Moved(L, M) ==
  /\ DOMAIN M.swaps = DOMAIN L.swaps
  /\ M.swaps = [s \in DOMAIN M.swaps |-> M.swaps[s]]
  /\ \A s \in DOMAIN L.swaps :
       /\ M.swaps[s] \in SwapInfos
       /\ M.swaps[s].maker = L.swaps[s].maker
       /\ M.swaps[s].order = L.swaps[s].order
       /\ M.swaps[s].status \in Answered => M.swaps[s].trade \in Int

\* Swaps that only change status stay sound.
LEMMA MovedSound ==
  ASSUME NEW L, NEW M, Sound(L), Follows(L, M), Moved(L, M)
  PROVE  /\ HeadsSound(M) /\ OrdersSound(M) /\ SwapsSound(M)
         /\ \A s \in DOMAIN L.swaps : MainOf(M, s) = MainOf(L, s)
<1>1. HeadsSound(M) /\ OrdersSound(M)
  BY DEF Follows
<1>2. \A s \in DOMAIN L.swaps : MainOf(M, s) = MainOf(L, s)
  BY FollowsMain DEF Moved
<1>3. SwapsSound(M)
  <2>1. SwapsSound(L)
    BY DEF Sound
  <2>2. ASSUME NEW s \in DOMAIN M.swaps
        PROVE  /\ M.swaps[s] \in SwapInfos
               /\ <<M.swaps[s].maker, M.swaps[s].order>> \in DOMAIN M.orders
               /\ M.swaps[s].maker # s[1] /\ MainOf(M, s) # s[1]
               /\ M.head[s[1]] \in Int /\ s[2] <= M.head[s[1]]
               /\ M.swaps[s].status \in Answered => M.swaps[s].trade \in Int
    <3>1. s \in DOMAIN L.swaps
      BY DEF Moved
    <3>2. /\ <<M.swaps[s].maker, M.swaps[s].order>> \in DOMAIN M.orders
          /\ M.head[s[1]] \in Int /\ s[2] <= M.head[s[1]]
      BY <3>1, FollowsMain DEF Moved
    <3> QED
      BY <1>2, <2>1, <3>1, <3>2 DEF Moved, SwapsSound
  <2> QED
    BY <2>1, <2>2 DEF SwapsSound, Moved
<1> QED
  BY <1>1, <1>2, <1>3

\* Tables with the same swaps are as sound as before.
LEMMA SoundSame ==
  ASSUME NEW L, NEW M, Sound(L), Follows(L, M), M.swaps = L.swaps,
         M.inquiries = L.inquiries, M.takes = L.takes
  PROVE  /\ Sound(M)
         /\ \A s \in DOMAIN L.swaps : MainOf(M, s) = MainOf(L, s)
<1>1. Moved(L, M)
  BY DEF Moved, Sound, SwapsSound
<1>2. /\ HeadsSound(M) /\ OrdersSound(M) /\ SwapsSound(M)
      /\ \A s \in DOMAIN L.swaps : MainOf(M, s) = MainOf(L, s)
  BY <1>1, MovedSound
<1>3. AsksExact(M) /\ TakesExact(M)
  BY <1>2 DEF Sound, AsksExact, TakesExact, Asks, Takes
<1> QED
  BY <1>2, <1>3 DEF Sound

-----------------------------------------------------------------------------
(* Settlement.                                                             *)

\* The swaps of which a block is awaited.
Asking(L, m, h) == {s \in DOMAIN L.swaps : Asks(L, m, h, s[1], s[2])}
Taking(L, m, h) == {s \in DOMAIN L.swaps : Takes(L, m, h, s[1], s[2])}

\* The swaps with the status of those in S replaced.
WithStatus(swaps, S, status) ==
  [s \in DOMAIN swaps |->
     IF s \in S THEN [swaps[s] EXCEPT !.status = status] ELSE swaps[s]]

\* M is L with the swaps of S settled; only the tables of the swaps differ.
Settled(L, M, S, status) ==
  /\ Shaped(M)
  /\ M.head = L.head /\ M.main = L.main /\ M.orders = L.orders
  /\ M.swaps = WithStatus(L.swaps, S, status)

\* Settling swaps carries the tables on.
LEMMA SettledFollows ==
  ASSUME NEW L, NEW M, NEW S, NEW status \in {"INQUIRY_NACK", "TAKE_NACK"},
         Sound(L), Settled(L, M, S, status),
         \A s \in S \cap DOMAIN L.swaps :
           L.swaps[s].status \in {"INQUIRY", "TAKE"}
           /\ (L.swaps[s].status = "INQUIRY" => status = "INQUIRY_NACK")
  PROVE  Follows(L, M) /\ Moved(L, M)
<1>1. Follows(L, M)
  <2>1. HeadsSound(M) /\ OrdersSound(M)
    BY DEF Sound, HeadsSound, OrdersSound, Settled
  <2> QED
    BY <2>1 DEF Follows, Settled
<1>2. Moved(L, M)
  <2>1. /\ DOMAIN M.swaps = DOMAIN L.swaps
        /\ M.swaps = [s \in DOMAIN M.swaps |-> M.swaps[s]]
    BY DEF Settled, WithStatus
  <2>2. ASSUME NEW s \in DOMAIN L.swaps
        PROVE  /\ M.swaps[s] \in SwapInfos
               /\ M.swaps[s].maker = L.swaps[s].maker
               /\ M.swaps[s].order = L.swaps[s].order
               /\ M.swaps[s].status \in Answered => M.swaps[s].trade \in Int
    <3>1. /\ L.swaps[s] \in SwapInfos
          /\ L.swaps[s].status \in Answered => L.swaps[s].trade \in Int
      BY DEF Sound, SwapsSound
    <3>2. M.swaps[s] = IF s \in S THEN [L.swaps[s] EXCEPT !.status = status]
                                   ELSE L.swaps[s]
      BY DEF Settled, WithStatus
    <3> QED
      BY <3>1, <3>2 DEF SwapInfos, Statuses, Answered
  <2> QED
    BY <2>1, <2>2 DEF Moved
<1> QED
  BY <1>1, <1>2

\* PurgeInquiryWaiting settles exactly the inquiries that wait for the block,
\* and meets no inconsistency.
LEMMA PurgeInquiryEffect ==
  ASSUME NEW L, Sound(L), NEW m \in Accounts, NEW h \in Int
  PROVE  LET M == PurgeInquiryWaiting(L, m, h)
         IN  /\ Settled(L, M, Asking(L, m, h), "INQUIRY_NACK")
             /\ M.inquiries = {w \in L.inquiries : ~(w[1] = m /\ w[2] = h)}
             /\ M.takes = L.takes /\ M.fault = L.fault
<1> DEFINE due == {w \in L.inquiries : w[1] = m /\ w[2] = h}
           swaps == {<<w[3], w[4]>> : w \in due}
           M == [L EXCEPT !.inquiries = @ \ due,
                          !.swaps = WithStatus(L.swaps, swaps, "INQUIRY_NACK")]
<1>1. swaps = Asking(L, m, h)
  <2>1. ASSUME NEW s \in swaps
        PROVE  s \in Asking(L, m, h)
    <3>1. PICK w \in L.inquiries : w[1] = m /\ w[2] = h /\ s = <<w[3], w[4]>>
      OBVIOUS
    <3>2. w \in Waits /\ w = <<w[1], w[2], w[3], w[4]>>
      BY DEF Sound, AsksExact, Waits
    <3>3. Asks(L, w[1], w[2], w[3], w[4])
      BY <3>2 DEF Sound, AsksExact, Waits
    <3> QED
      BY <3>1, <3>3 DEF Asking, Asks
  <2>2. ASSUME NEW s \in Asking(L, m, h)
        PROVE  s \in swaps
    <3>1. s \in Accounts \X Int /\ s = <<s[1], s[2]>>
      BY DEF Asking, Sound, SwapsSound
    <3>2. <<m, h, s[1], s[2]>> \in L.inquiries
      BY <3>1 DEF Asking, Sound, AsksExact
    <3>3. <<m, h, s[1], s[2]>> \in due
      BY <3>2
    <3> QED
      BY <3>1, <3>3
  <2> QED
    BY <2>1, <2>2
<1>2. \A s \in Asking(L, m, h) : s \in DOMAIN L.swaps /\ L.swaps[s].status = "INQUIRY"
  <2>1. \A s \in DOMAIN L.swaps : s = <<s[1], s[2]>>
    BY DEF Sound, SwapsSound
  <2> QED
    BY <2>1 DEF Asking, Asks
<1>3. PurgeInquiryWaiting(L, m, h) = M
  <2>1. ~ \E s \in swaps : s \notin DOMAIN L.swaps
    BY <1>1, <1>2
  <2>2. ~ \E s \in swaps : L.swaps[s].status # "INQUIRY"
    BY <1>1, <1>2
  <2>3. PurgeInquiryWaiting(L, m, h) =
          IF \E s \in swaps : s \notin DOMAIN L.swaps THEN Fault(L)
          ELSE IF \E s \in swaps : L.swaps[s].status # "INQUIRY" THEN Fault(L)
          ELSE M
    BY DEF PurgeInquiryWaiting, WithStatus
  <2> QED
    BY <2>1, <2>2, <2>3
<1>4. M.inquiries = {w \in L.inquiries : ~(w[1] = m /\ w[2] = h)}
  <2>1. L.inquiries \ due = {w \in L.inquiries : ~(w[1] = m /\ w[2] = h)}
    OBVIOUS
  <2> HIDE DEF due, swaps
  <2> QED
    BY <2>1 DEF Sound, HeadsSound, Shaped, Tables
<1> HIDE DEF due, swaps
<1>5. /\ Settled(L, M, swaps, "INQUIRY_NACK")
      /\ M.takes = L.takes /\ M.fault = L.fault
  BY DEF Sound, HeadsSound, Settled, Shaped, Tables
<1> HIDE DEF M
<1> QED
  BY <1>1, <1>3, <1>4, <1>5

\* After the purge no inquiry waits for the block, and the others wait on.
LEMMA PurgeInquirySound ==
  ASSUME NEW L, Sound(L), NEW m \in Accounts, NEW h \in Int
  PROVE  LET M == PurgeInquiryWaiting(L, m, h)
         IN  Sound(M) /\ Follows(L, M)
<1> DEFINE M == PurgeInquiryWaiting(L, m, h)
           S == Asking(L, m, h)
<1>1. /\ Settled(L, M, S, "INQUIRY_NACK")
      /\ M.inquiries = {w \in L.inquiries : ~(w[1] = m /\ w[2] = h)}
      /\ M.takes = L.takes
  BY PurgeInquiryEffect
<1>2. \A s \in DOMAIN L.swaps : s = <<s[1], s[2]>>
  BY DEF Sound, SwapsSound
<1>3. \A s \in S : s \in DOMAIN L.swaps /\ L.swaps[s].status = "INQUIRY"
  BY <1>2 DEF Asking, Asks
<1> HIDE DEF M
<1>4. Follows(L, M) /\ Moved(L, M)
  BY <1>1, <1>3, SettledFollows
<1>5. /\ HeadsSound(M) /\ OrdersSound(M) /\ SwapsSound(M)
      /\ \A s \in DOMAIN L.swaps : MainOf(M, s) = MainOf(L, s)
  BY <1>4, MovedSound
<1>6. ASSUME NEW s \in DOMAIN L.swaps
      PROVE  /\ s \in S => M.swaps[s].status = "INQUIRY_NACK"
             /\ s \notin S => M.swaps[s] = L.swaps[s]
             /\ M.swaps[s].ack = L.swaps[s].ack
  <2>1. L.swaps[s] \in SwapInfos
    BY DEF Sound, SwapsSound
  <2>2. M.swaps[s] = IF s \in S THEN [L.swaps[s] EXCEPT !.status = "INQUIRY_NACK"]
                                ELSE L.swaps[s]
    BY <1>1 DEF Settled, WithStatus
  <2> QED
    BY <2>1, <2>2 DEF SwapInfos
<1>7. AsksExact(M)
  <2>1. M.inquiries \subseteq Waits
    BY <1>1 DEF Sound, AsksExact
  <2>2. ASSUME NEW n \in Accounts, NEW k \in Int, NEW t \in Accounts, NEW i \in Int
        PROVE  <<n, k, t, i>> \in M.inquiries <=> Asks(M, n, k, t, i)
    <3>1. <<n, k, t, i>> \in L.inquiries <=> Asks(L, n, k, t, i)
      BY DEF Sound, AsksExact
    <3>2. <<n, k, t, i>> \in M.inquiries <=>
            Asks(L, n, k, t, i) /\ ~(n = m /\ k = h)
      BY <1>1, <3>1
    <3>3. DOMAIN M.swaps = DOMAIN L.swaps
      BY <1>4 DEF Moved
    <3>4. ASSUME <<t, i>> \in DOMAIN L.swaps
          PROVE  <<t, i>> \in S <=> Asks(L, m, h, t, i)
      BY <3>4 DEF Asking
    <3> HIDE DEF S
    <3>5. CASE <<t, i>> \in S
      BY <1>5, <1>6, <3>2, <3>3, <3>4, <3>5 DEF Asks
    <3>6. CASE <<t, i>> \notin S
      BY <1>5, <1>6, <3>2, <3>3, <3>4, <3>6 DEF Asks
    <3> QED
      BY <3>5, <3>6
  <2> QED
    BY <2>1, <2>2 DEF AsksExact
<1>8. TakesExact(M)
  <2>1. ASSUME NEW n \in Accounts, NEW k \in Int, NEW t \in Accounts, NEW i \in Int
        PROVE  Takes(M, n, k, t, i) <=> Takes(L, n, k, t, i)
    <3>1. DOMAIN M.swaps = DOMAIN L.swaps
      BY <1>4 DEF Moved
    <3> HIDE DEF S
    <3> QED
      BY <1>3, <1>6, <3>1 DEF Takes
  <2> QED
    BY <1>1, <2>1 DEF Sound, TakesExact
<1> QED
  BY <1>4, <1>5, <1>7, <1>8 DEF Sound, M

\* The swap whose take is refunded last.
Latest(S) == CHOOSE s \in S : \A u \in S : u[2] <= s[2]

\* There is a latest inquiry among finitely many.
LEMMA LatestIn ==
  ASSUME NEW S, IsFiniteSet(S), S # {}, S \subseteq Accounts \X Int
  PROVE  Latest(S) \in S
<1> DEFINE f == [x \in S |-> x[2]]
<1>1. \A x \in S : f[x] \in Int
  OBVIOUS
<1> HIDE DEF f
<1>2. PICK x \in S : \A y \in S : f[y] <= f[x]
  BY <1>1, FiniteMax
<1>3. \A y \in S : y[2] <= x[2]
  BY <1>2 DEF f
<1> QED
  BY <1>3 DEF Latest

\* it is the recursive function by which the takes in subsets of S are
\* refunded.
Refunding(it, L, m, h, S) ==
  it = [s \in SUBSET S |->
          IF s = {} THEN L ELSE Refund(it[s \ {Latest(s)}], m, h, Latest(s))]

\* PurgeTakeWaiting folds Refund over the takes that wait for the block.
LEMMA PurgeTakeIsRefunding ==
  ASSUME NEW L, NEW m, NEW h
  PROVE  LET S == {<<w[3], w[4]>> : w \in {x \in L.takes : x[1] = m /\ x[2] = h}}
         IN  PurgeTakeWaiting(L, m, h) = (CHOOSE it : Refunding(it, L, m, h, S))[S]
BY DEF PurgeTakeWaiting, MapThenFoldSet, Refunding, Latest

\* One step of that fold.
LEMMA RefundingStep ==
  ASSUME NEW it, NEW L, NEW m, NEW h, NEW S, Refunding(it, L, m, h, S),
         NEW s \in SUBSET S
  PROVE  it[s] = IF s = {} THEN L ELSE Refund(it[s \ {Latest(s)}], m, h, Latest(s))
BY DEF Refunding

\* The fold is determined by its steps.
LEMMA RefundingsAgree ==
  ASSUME NEW L, NEW m, NEW h, NEW S, NEW R, NEW i, NEW j,
         Refunding(i, L, m, h, S), Refunding(j, L, m, h, R),
         NEW Q, IsFiniteSet(Q), Q \subseteq S, Q \subseteq R,
         Q \subseteq Accounts \X Int
  PROVE  i[Q] = j[Q]
<1> DEFINE B == {s \in SUBSET Q : i[s] # j[s]}
<1>1. SUFFICES ASSUME B # {}
               PROVE  FALSE
  OBVIOUS
<1>2. PICK T \in B : IsFiniteSet(T) /\ \A U \in B : U \subseteq T => U = T
  <2>1. B \in SUBSET (SUBSET Q)
    OBVIOUS
  <2> HIDE DEF B
  <2>2. QED
    BY <1>1, <2>1, MinimalSubset
<1>3. T \in SUBSET S /\ T \in SUBSET R /\ T \subseteq Q /\ i[T] # j[T]
  BY <1>2
<1>t. T \in SUBSET S /\ T \in SUBSET R
  BY <1>3
<1> HIDE DEF B
<1>4. CASE T = {}
  BY <1>3, <1>4, RefundingStep
<1>5. CASE T # {}
  <2> DEFINE c == Latest(T)
  <2>1. c \in T
    BY <1>2, <1>3, <1>5, LatestIn
  <2>2. i[T \ {c}] = j[T \ {c}]
    BY <1>2, <1>3, <2>1 DEF B
  <2>3. i[T] = Refund(i[T \ {c}], m, h, c)
    <3>1. i[T] = IF T = {} THEN L ELSE Refund(i[T \ {Latest(T)}], m, h, Latest(T))
      BY <1>t, RefundingStep
    <3> QED
      BY <1>5, <3>1
  <2>4. j[T] = Refund(j[T \ {c}], m, h, c)
    <3>1. j[T] = IF T = {} THEN L ELSE Refund(j[T \ {Latest(T)}], m, h, Latest(T))
      BY <1>t, RefundingStep
    <3> QED
      BY <1>5, <3>1
  <2> HIDE DEF c
  <2> QED
    BY <1>3, <2>2, <2>3, <2>4
<1> QED
  BY <1>4, <1>5

\* The fold has a result for finitely many swaps.
LEMMA RefundingExists ==
  ASSUME NEW L, NEW m, NEW h, NEW S, IsFiniteSet(S), S \subseteq Accounts \X Int
  PROVE  \E it : Refunding(it, L, m, h, S)
<1> DEFINE B == {s \in SUBSET S : ~ \E it : Refunding(it, L, m, h, s)}
<1>1. SUFFICES ASSUME B # {}
               PROVE  FALSE
  OBVIOUS
<1>2. PICK T \in B : IsFiniteSet(T) /\ \A U \in B : U \subseteq T => U = T
  <2>1. B \in SUBSET (SUBSET S)
    OBVIOUS
  <2> HIDE DEF B
  <2>2. QED
    BY <1>1, <2>1, MinimalSubset
<1>a. ASSUME NEW s \in SUBSET T, s # {}
      PROVE  Latest(s) \in s
  <2>1. IsFiniteSet(s)
    BY <1>2, FS_Subset
  <2>2. s \subseteq Accounts \X Int
    OBVIOUS
  <2> QED
    BY <1>a, <2>1, <2>2, LatestIn
<1> DEFINE below(s) == CHOOSE it : Refunding(it, L, m, h, s)
           it == [s \in SUBSET T |->
                    IF s = {} THEN L
                    ELSE Refund(below(s \ {Latest(s)})[s \ {Latest(s)}],
                                m, h, Latest(s))]
<1>3. ASSUME NEW s \in SUBSET T, s # T
      PROVE  Refunding(below(s), L, m, h, s)
  BY <1>2, <1>3
<1>4. ASSUME NEW s \in SUBSET T, s # {}
      PROVE  it[s \ {Latest(s)}] = below(s \ {Latest(s)})[s \ {Latest(s)}]
  <2> DEFINE r == s \ {Latest(s)}
             q == r \ {Latest(r)}
  <2>1. Latest(s) \in s
    BY <1>4, <1>a
  <2>2. r \in SUBSET T /\ r # T /\ Refunding(below(r), L, m, h, r)
    BY <1>3, <2>1
  <2>3. below(r)[r] = IF r = {} THEN L ELSE Refund(below(r)[q], m, h, Latest(r))
    <3>1. r \in SUBSET r
      OBVIOUS
    <3> HIDE DEF below, r
    <3> QED
      BY <2>2, <3>1, RefundingStep
  <2>4. CASE r = {}
    BY <2>2, <2>3, <2>4
  <2>5. CASE r # {}
    <3>1. Latest(r) \in r
      BY <1>a, <2>2, <2>5
    <3>2. q \in SUBSET T /\ q # T /\ q \subseteq r /\ IsFiniteSet(q)
      BY <1>2, <2>2, <3>1, FS_Subset
    <3>3. Refunding(below(q), L, m, h, q)
      BY <1>3, <3>2
    <3>a. q \subseteq Accounts \X Int
      BY <3>2
    <3> HIDE DEF below, q
    <3>4. below(r)[q] = below(q)[q]
      BY <2>2, <3>2, <3>3, <3>a, RefundingsAgree
    <3>5. it[r] = Refund(below(q)[q], m, h, Latest(r))
      BY <2>2, <2>5 DEF q
    <3> QED
      BY <2>3, <2>5, <3>4, <3>5 DEF q
  <2> QED
    BY <2>4, <2>5
<1>5. Refunding(it, L, m, h, T)
  <2> HIDE DEF below
  <2>1. ASSUME NEW s \in SUBSET T
        PROVE  it[s] = IF s = {} THEN L
                       ELSE Refund(it[s \ {Latest(s)}], m, h, Latest(s))
    BY <1>4, <2>1
  <2>2. it = [s \in SUBSET T |-> it[s]]
    OBVIOUS
  <2> HIDE DEF it
  <2> QED
    BY <2>1, <2>2 DEF Refunding
<1> QED
  BY <1>2, <1>5

\* M is L with the take of swap s refunded, or has a fault.
RefundsTo(L, M, m, h, s) ==
  /\ Shaped(M)
  /\ M.fault # TRUE =>
       /\ L.fault # TRUE /\ s \in DOMAIN L.swaps
       /\ M.head = L.head /\ M.main = L.main /\ M.orders = L.orders
       /\ M.inquiries = L.inquiries
       /\ M.swaps = [L.swaps EXCEPT ![s].status = "TAKE_NACK"]
       /\ M.takes = L.takes \ {<<m, h, s[1], s[2]>>}

\* Refund settles one take, or faults.
LEMMA RefundEffect ==
  ASSUME NEW L, Shaped(L), NEW m, NEW h, NEW s
  PROVE  RefundsTo(L, Refund(L, m, h, s), m, h, s)
<1> DEFINE want == OrderOf(L, s).want
           type == OrderOf(L, s).typeWant
           K == UpdateLedgerReceivable(L, ReceivableKey(s[1], want, Tx(m, h)),
                  Receivable(m, L.swaps[s].value, h, type, "REFUND"))
           M == [K EXCEPT !.swaps[s].status = "TAKE_NACK",
                          !.takes = @ \ {<<m, h, s[1], s[2]>>}]
<1>1. Refund(L, m, h, s) = Fault(L) \/ (SwapKnown(L, s) /\ Refund(L, m, h, s) = M)
  BY DEF Refund
<1>2. Keeps(L, K)
  BY KeepsReceivable
<1> HIDE DEF K
<1>3. CASE Refund(L, m, h, s) = Fault(L)
  BY <1>3, KeepsFault, ZenonT(60) DEF RefundsTo, Keeps
<1>4. CASE SwapKnown(L, s) /\ Refund(L, m, h, s) = M
  BY <1>2, <1>4, ZenonT(60) DEF RefundsTo, Keeps, SwapKnown, Shaped, Tables
<1> QED
  BY <1>1, <1>3, <1>4

\* M is L with the takes of the swaps in S, due at block h of m, refunded.
Refunded(L, M, m, h, S) ==
  /\ L.fault # TRUE /\ M.fault # TRUE
  /\ Settled(L, M, S, "TAKE_NACK")
  /\ M.inquiries = L.inquiries
  /\ M.takes = {w \in L.takes : \A s \in S : w # <<m, h, s[1], s[2]>>}

\* Refunding one more take.
LEMMA RefundedOneMore ==
  ASSUME NEW L, NEW M, NEW m, NEW h, NEW S, NEW c, Sound(L), c \notin S,
         S \subseteq DOMAIN L.swaps, Refunded(L, M, m, h, S)
  PROVE  LET N == Refund(M, m, h, c)
         IN  /\ Shaped(N)
             /\ N.fault # TRUE => Refunded(L, N, m, h, S \cup {c})
<1> DEFINE R == S \cup {c}
           N == Refund(M, m, h, c)
<1>1. Shaped(M) /\ M.fault # TRUE /\ L.fault # TRUE
  BY DEF Refunded, Settled
<1>2. RefundsTo(M, N, m, h, c)
  BY <1>1, RefundEffect
<1> HIDE DEF N
<1>3. SUFFICES ASSUME N.fault # TRUE
               PROVE  Refunded(L, N, m, h, R)
  BY <1>2 DEF N, RefundsTo
<1>4. /\ N.head = L.head /\ N.main = L.main /\ N.orders = L.orders
      /\ N.inquiries = L.inquiries
  BY <1>2, <1>3 DEF RefundsTo, Refunded, Settled
<1>5. N.takes = {w \in L.takes : \A s \in R : w # <<m, h, s[1], s[2]>>}
  BY <1>2, <1>3 DEF RefundsTo, Refunded
<1>6. N.swaps = WithStatus(L.swaps, R, "TAKE_NACK")
  <2>1. M.swaps = WithStatus(L.swaps, S, "TAKE_NACK") /\ c \in DOMAIN L.swaps
    BY <1>2, <1>3 DEF RefundsTo, Refunded, Settled, WithStatus
  <2>2. M.swaps[c] = L.swaps[c]
    BY <2>1 DEF WithStatus
  <2>3. N.swaps = [M.swaps EXCEPT ![c] = [L.swaps[c] EXCEPT !.status = "TAKE_NACK"]]
    BY <1>2, <1>3, <2>2 DEF RefundsTo
  <2> QED
    BY <2>1, <2>3 DEF WithStatus
<1> QED
  BY <1>1, <1>2, <1>3, <1>4, <1>5, <1>6 DEF RefundsTo, Refunded, Settled

\* The fold refunds every swap of the set, or faults.
LEMMA RefundingEffect ==
  ASSUME NEW L, Sound(L), NEW m, NEW h, NEW S, IsFiniteSet(S),
         S \subseteq DOMAIN L.swaps, NEW it, Refunding(it, L, m, h, S)
  PROVE  /\ Shaped(it[S])
         /\ it[S].fault # TRUE => Refunded(L, it[S], m, h, S)
<1> DEFINE Good(Q) == /\ Shaped(it[Q])
                      /\ it[Q].fault # TRUE => Refunded(L, it[Q], m, h, Q)
           B == {s \in SUBSET S : ~Good(s)}
<1>1. SUFFICES ASSUME B # {}
               PROVE  FALSE
  BY DEF Good
<1>2. PICK T \in B : IsFiniteSet(T) /\ \A U \in B : U \subseteq T => U = T
  <2>1. B \in SUBSET (SUBSET S)
    OBVIOUS
  <2> HIDE DEF B
  <2> QED
    BY <1>1, <2>1, MinimalSubset
<1>3. T \in SUBSET S /\ ~Good(T) /\ T \subseteq Accounts \X Int
  BY <1>2 DEF Sound, SwapsSound
<1>4. \A U \in SUBSET T : U # T => Good(U)
  BY <1>2, <1>3
<1>t. T \in SUBSET S
  BY <1>3
<1> HIDE DEF B, Good
<1>5. it[T] = IF T = {} THEN L ELSE Refund(it[T \ {Latest(T)}], m, h, Latest(T))
  BY <1>t, RefundingStep
<1>6. CASE T = {} /\ L.fault # TRUE
  <2>1. it[T] = L
    BY <1>5, <1>6
  <2>2. WithStatus(L.swaps, {}, "TAKE_NACK") = [s \in DOMAIN L.swaps |-> L.swaps[s]]
    BY DEF WithStatus
  <2>3. L.swaps = WithStatus(L.swaps, {}, "TAKE_NACK")
    BY <2>2 DEF Sound, SwapsSound
  <2>4. L.takes = {w \in L.takes : \A s \in {} : w # <<m, h, s[1], s[2]>>}
    OBVIOUS
  <2>5. Shaped(L) /\ Refunded(L, L, m, h, {})
    BY <1>6, <2>3, <2>4 DEF Refunded, Settled, Sound, HeadsSound
  <2> QED
    BY <1>3, <1>6, <2>1, <2>5 DEF Good
<1>8. CASE T = {} /\ L.fault = TRUE
  BY <1>3, <1>5, <1>8 DEF Good, Sound, HeadsSound
<1>7. CASE T # {}
  <2> DEFINE c == Latest(T)
             U == T \ {c}
             N == it[T]
             M == it[U]
  <2>1. c \in T
    BY <1>2, <1>3, <1>7, LatestIn
  <2>2. U \in SUBSET T /\ U # T /\ c \notin U /\ T = U \cup {c} /\ U \subseteq DOMAIN L.swaps
    BY <1>3, <2>1
  <2>3. N = Refund(M, m, h, c)
    BY <1>5, <1>7
  <2>4. Good(U)
    BY <1>4, <2>2
  <2>5. Shaped(M) /\ (M.fault # TRUE => Refunded(L, M, m, h, U))
    BY <2>4 DEF Good
  <2> HIDE DEF c, U, M, N
  <2>6. CASE M.fault # TRUE
    <3>1. /\ Shaped(N)
          /\ N.fault # TRUE => Refunded(L, N, m, h, U \cup {c})
      BY <2>2, <2>3, <2>5, <2>6, RefundedOneMore
    <3> QED
      BY <1>3, <2>2, <3>1 DEF N, Good
  <2>7. CASE M.fault = TRUE
    <3>1. Shaped(N) /\ N.fault = TRUE
      BY <2>3, <2>5, <2>7, RefundEffect DEF RefundsTo
    <3> QED
      BY <1>3, <3>1 DEF N, Good
  <2> QED
    BY <2>6, <2>7
<1> QED
  BY <1>6, <1>7, <1>8

\* PurgeTakeWaiting refunds exactly the takes that wait for the block.
LEMMA PurgeTakeEffect ==
  ASSUME NEW L, Sound(L), NEW m \in Accounts, NEW h \in Int
  PROVE  LET M == PurgeTakeWaiting(L, m, h)
         IN  /\ Shaped(M)
             /\ M.fault # TRUE => Refunded(L, M, m, h, Taking(L, m, h))
<1> DEFINE S == {<<w[3], w[4]>> : w \in {x \in L.takes : x[1] = m /\ x[2] = h}}
           it == CHOOSE i : Refunding(i, L, m, h, S)
<1>1. S = Taking(L, m, h)
  <2>1. ASSUME NEW s \in S
        PROVE  s \in Taking(L, m, h)
    <3>1. PICK w \in L.takes : w[1] = m /\ w[2] = h /\ s = <<w[3], w[4]>>
      OBVIOUS
    <3>2. w \in Waits /\ w = <<w[1], w[2], w[3], w[4]>>
      BY DEF Sound, TakesExact, Waits
    <3>3. Takes(L, w[1], w[2], w[3], w[4])
      BY <3>2 DEF Sound, TakesExact, Waits
    <3> QED
      BY <3>1, <3>3 DEF Taking, Takes
  <2>2. ASSUME NEW s \in Taking(L, m, h)
        PROVE  s \in S
    <3>1. s \in Accounts \X Int /\ s = <<s[1], s[2]>>
      BY DEF Taking, Sound, SwapsSound
    <3>2. <<m, h, s[1], s[2]>> \in L.takes
      BY <3>1 DEF Taking, Sound, TakesExact
    <3> DEFINE w == <<m, h, s[1], s[2]>>
    <3>3. w \in {x \in L.takes : x[1] = m /\ x[2] = h} /\ s = <<w[3], w[4]>>
      BY <3>1, <3>2
    <3> QED
      BY <3>3
  <2> QED
    BY <2>1, <2>2
<1>2. PurgeTakeWaiting(L, m, h) = it[S]
  BY PurgeTakeIsRefunding
<1>3. S \subseteq DOMAIN L.swaps
  BY <1>1 DEF Taking
<1> HIDE DEF S
<1>4. IsFiniteSet(S) /\ S \subseteq Accounts \X Int
  BY <1>3, FS_Subset DEF Sound, SwapsSound
<1>5. Refunding(it, L, m, h, S)
  BY <1>4, RefundingExists
<1> HIDE DEF it
<1>6. /\ Shaped(it[S])
      /\ it[S].fault # TRUE => Refunded(L, it[S], m, h, S)
  BY <1>3, <1>4, <1>5, RefundingEffect
<1> QED
  BY <1>1, <1>2, <1>6

\* After the purge no take waits for the block, and the others wait on.
LEMMA PurgeTakeSound ==
  ASSUME NEW L, Sound(L), NEW m \in Accounts, NEW h \in Int, NEW M,
         Refunded(L, M, m, h, Taking(L, m, h))
  PROVE  Sound(M) /\ Follows(L, M)
<1> DEFINE S == Taking(L, m, h)
<1>1. /\ Settled(L, M, S, "TAKE_NACK")
      /\ M.inquiries = L.inquiries
      /\ M.takes = {w \in L.takes : \A s \in S : w # <<m, h, s[1], s[2]>>}
  BY DEF Refunded
<1>2. \A s \in DOMAIN L.swaps : s = <<s[1], s[2]>>
  BY DEF Sound, SwapsSound
<1>3. \A s \in S : s \in DOMAIN L.swaps /\ L.swaps[s].status = "TAKE"
  BY <1>2 DEF Taking, Takes
<1>4. Follows(L, M) /\ Moved(L, M)
  BY <1>1, <1>3, SettledFollows
<1>5. /\ HeadsSound(M) /\ OrdersSound(M) /\ SwapsSound(M)
      /\ \A s \in DOMAIN L.swaps : MainOf(M, s) = MainOf(L, s)
  BY <1>4, MovedSound
<1>6. ASSUME NEW s \in DOMAIN L.swaps
      PROVE  /\ s \in S => M.swaps[s].status = "TAKE_NACK"
             /\ s \notin S => M.swaps[s] = L.swaps[s]
             /\ M.swaps[s].ack = L.swaps[s].ack
  <2>1. L.swaps[s] \in SwapInfos
    BY DEF Sound, SwapsSound
  <2>2. M.swaps[s] = IF s \in S THEN [L.swaps[s] EXCEPT !.status = "TAKE_NACK"]
                                ELSE L.swaps[s]
    BY <1>1 DEF Settled, WithStatus
  <2> QED
    BY <2>1, <2>2 DEF SwapInfos
<1>7. DOMAIN M.swaps = DOMAIN L.swaps
  BY <1>4 DEF Moved
<1>8. TakesExact(M)
  <2>1. M.takes \subseteq Waits
    BY <1>1 DEF Sound, TakesExact
  <2>2. ASSUME NEW n \in Accounts, NEW k \in Int, NEW t \in Accounts, NEW i \in Int
        PROVE  <<n, k, t, i>> \in M.takes <=> Takes(M, n, k, t, i)
    <3>1. <<n, k, t, i>> \in L.takes <=> Takes(L, n, k, t, i)
      BY DEF Sound, TakesExact
    <3>2. <<t, i>> \in S <=> Takes(L, m, h, t, i)
      BY DEF Taking, Takes
    <3>3. <<n, k, t, i>> \in M.takes <=> Takes(L, n, k, t, i) /\ ~(n = m /\ k = h)
      <4>1. ASSUME NEW s \in S
            PROVE  s = <<s[1], s[2]>>
        BY <1>2, <1>3
      <4>2. Takes(L, n, k, t, i) /\ n = m /\ k = h => <<t, i>> \in S
        BY <3>2
      <4> HIDE DEF S
      <4>3. ASSUME n = m, k = h, Takes(L, n, k, t, i)
            PROVE  <<n, k, t, i>> \notin M.takes
        BY <1>1, <4>2, <4>3
      <4>4. ASSUME ~(n = m /\ k = h)
            PROVE  \A s \in S : <<n, k, t, i>> # <<m, h, s[1], s[2]>>
        BY <4>4
      <4> QED
        BY <1>1, <3>1, <4>3, <4>4
    <3> HIDE DEF S
    <3>5. CASE <<t, i>> \in S
      BY <1>3, <1>6, <1>7, <3>2, <3>3, <3>5 DEF Takes
    <3>6. CASE <<t, i>> \notin S
      BY <1>6, <1>7, <3>2, <3>3, <3>6 DEF Takes
    <3> QED
      BY <3>5, <3>6
  <2> QED
    BY <2>1, <2>2 DEF TakesExact
<1>9. AsksExact(M)
  <2>1. ASSUME NEW n \in Accounts, NEW k \in Int, NEW t \in Accounts, NEW i \in Int
        PROVE  Asks(M, n, k, t, i) <=> Asks(L, n, k, t, i)
    <3> HIDE DEF S
    <3> QED
      BY <1>3, <1>5, <1>6, <1>7 DEF Asks
  <2> QED
    BY <1>1, <2>1 DEF Sound, AsksExact
<1> QED
  BY <1>4, <1>5, <1>8, <1>9 DEF Sound

-----------------------------------------------------------------------------
(* The operations on swaps.                                                *)

\* Block h of a was not booked yet.
Fresh(L, a, h) == L.head[a] # NoInfo => ~(h <= L.head[a])

\* M is L with block h of a booked.
Booking(L, M, a, h) ==
  /\ Shaped(M) /\ M.fault = L.fault
  /\ M.head = [L.head EXCEPT ![a] = h]
  /\ M.main = L.main /\ M.orders = L.orders
  /\ M.swaps = L.swaps /\ M.inquiries = L.inquiries /\ M.takes = L.takes

\* A block that was not booked before is booked by UpdateLedgerCommon.
LEMMA CommonFresh ==
  ASSUME NEW L, Shaped(L), NEW a, NEW h, NEW ts, Fresh(L, a, h)
  PROVE  Booking(L, UpdateLedgerCommon(L, a, h, ts), a, h)
<1> DEFINE account == [t \in Tokens |-> IF t \in ts /\ L.account[a][t] = NoInfo
                                         THEN 0 ELSE L.account[a][t]]
           N == [L EXCEPT !.head[a] = h, !.account[a] = account]
<1>1. UpdateLedgerCommon(L, a, h, ts) = N
  BY DEF UpdateLedgerCommon, Fresh
<1> HIDE DEF account
<1> QED
  BY <1>1 DEF Booking, Shaped, Tables

\* UpdateLedgerCommon without a fault booked a new block.
LEMMA CommonFault ==
  ASSUME NEW L, Shaped(L), NEW a, NEW h, NEW ts,
         UpdateLedgerCommon(L, a, h, ts).fault # TRUE
  PROVE  Booking(L, UpdateLedgerCommon(L, a, h, ts), a, h) /\ Fresh(L, a, h)
<1>1. UpdateLedgerCommon(L, a, h, ts) # Fault(L)
  BY KeepsFault
<1>2. Fresh(L, a, h)
  BY <1>1 DEF UpdateLedgerCommon, Fresh
<1> QED
  BY <1>2, CommonFresh

\* M is what L becomes by block h of a, the swaps unchanged.
Quiet(L, M, a, h) ==
  /\ Carried(L, M, a, h)
  /\ M.swaps = L.swaps /\ M.inquiries = L.inquiries /\ M.takes = L.takes

\* A block that is only booked leaves the swaps alone.
LEMMA BookedQuiet ==
  ASSUME NEW L, NEW M, NEW a, NEW h, Sound(L), Booked(L, M, a, h), M.fault # TRUE
  PROVE  Quiet(L, M, a, h) /\ L.fault # TRUE
BY BookedCarried DEF Quiet, Booked

\* ProcessSwapConfig changes a main account and no swap.
LEMMA QuietConfig ==
  ASSUME NEW L, Sound(L), NEW a \in Accounts, NEW h, NEW main \in Accounts
  PROVE  LET M == ProcessSwapConfig(L, a, h, main)
         IN  M.fault # TRUE => Quiet(L, M, a, h) /\ L.fault # TRUE
<1> DEFINE M == ProcessSwapConfig(L, a, h, main)
           K == [L EXCEPT !.main[a] = main]
<1>1. SUFFICES ASSUME M.fault # TRUE
               PROVE  Quiet(L, M, a, h) /\ L.fault # TRUE
  OBVIOUS
<1>2. Shaped(L)
  BY DEF Sound, HeadsSound
<1>3. CASE a = main
  <2>1. M = UpdateLedgerCommon(L, a, h, {})
    BY <1>3 DEF ProcessSwapConfig
  <2> QED
    BY <1>1, <1>2, <2>1, BookedSame, BookedQuiet
<1>4. CASE a # main
  <2>1. M = UpdateLedgerCommon(K, a, h, {})
    BY <1>4 DEF ProcessSwapConfig
  <2>2. Shaped(K)
    BY <1>2 DEF Shaped
  <2> HIDE DEF K
  <2>3. Booking(K, M, a, h) /\ Fresh(K, a, h)
    BY <1>1, <2>1, <2>2, CommonFault
  <2>4. /\ K.main = [L.main EXCEPT ![a] = main] /\ K.fault = L.fault
        /\ K.head = L.head /\ K.orders = L.orders /\ K.swaps = L.swaps
        /\ K.inquiries = L.inquiries /\ K.takes = L.takes
    BY <1>2 DEF K, Shaped, Tables
  <2>5. M.main \in [Accounts -> Accounts \cup {NoInfo}]
    <3>1. L.main \in [Accounts -> Accounts \cup {NoInfo}]
      BY DEF Sound, HeadsSound
    <3> QED
      BY <2>3, <2>4, <3>1 DEF Booking
  <2> HIDE DEF M
  <2> QED
    BY <1>1, <2>3, <2>4, <2>5 DEF Quiet, Carried, Booking, Fresh, Sound, OrdersSound
<1> QED
  BY <1>3, <1>4

\* Pings and pongs are only booked.
LEMMA QuietPing ==
  ASSUME NEW L, Sound(L), NEW a \in Accounts, NEW h, NEW maker
  PROVE  /\ Booked(L, ProcessSwapPing(L, a, h, maker), a, h)
         /\ Booked(L, ProcessSwapPong(L, a, h), a, h)
<1>1. Shaped(L)
  BY DEF Sound, HeadsSound
<1>2. Keeps(L, Counted(L, a)) /\ Keeps(L, Counted(L, maker))
  BY <1>1, KeepsCounts
<1> QED
  BY <1>2, BookedCommon DEF ProcessSwapPing, ProcessSwapPong

\* A take-nack block is only booked: its refund comes with AfterBlockAppend.
LEMMA QuietNack ==
  ASSUME NEW L, Sound(L), NEW a \in Accounts, NEW h, NEW taker, NEW i
  PROVE  Booked(L, ProcessSwapTakeNack(L, a, h, taker, i), a, h)
<1>1. Shaped(L)
  BY DEF Sound, HeadsSound
<1>2. ProcessSwapTakeNack(L, a, h, taker, i) \in
        {UpdateLedgerCommon(L, a, h, {}), Fault(L),
         UpdateLedgerCommon(L, a, h, {OrderOf(L, <<taker, i>>).offer})}
  BY DEF ProcessSwapTakeNack
<1> QED
  BY <1>1, <1>2, BookedSame, BookedFault

\* ProcessSwapMake adds an order and no swap.
LEMMA QuietMake ==
  ASSUME NEW L, Sound(L), NEW a \in Accounts, NEW h \in Int, NEW o
  PROVE  LET M == ProcessSwapMake(L, a, h, o)
         IN  M.fault # TRUE => Quiet(L, M, a, h) /\ L.fault # TRUE
<1> DEFINE M == ProcessSwapMake(L, a, h, o)
           info == OrderInfo(o, L.main[a])
           P == Pay(L, a, o.offer, Locked(o))
           K == [P EXCEPT !.orders = Put(@, <<a, h>>, info)]
           C == UpdateLedgerAccountOrdersInc(K, a)
<1>1. SUFFICES ASSUME M.fault # TRUE
               PROVE  Quiet(L, M, a, h) /\ L.fault # TRUE
  OBVIOUS
<1>2. Shaped(L)
  BY DEF Sound, HeadsSound
<1>3. \/ M \in {UpdateLedgerCommon(L, a, h, {}), Fault(L),
                UpdateLedgerCommon(L, a, h, {o.offer})}
      \/ L.main[a] # NoInfo /\ M = UpdateLedgerCommon(C, a, h, {o.offer})
  BY DEF ProcessSwapMake
<1>4. CASE M \in {UpdateLedgerCommon(L, a, h, {}), Fault(L),
                  UpdateLedgerCommon(L, a, h, {o.offer})}
  <2>1. Booked(L, M, a, h)
    BY <1>2, <1>4, BookedSame, BookedFault
  <2> QED
    BY <1>1, <2>1, BookedQuiet
<1>5. CASE L.main[a] # NoInfo /\ M = UpdateLedgerCommon(C, a, h, {o.offer})
  <2>1. L.main[a] \in Accounts
    BY <1>5 DEF Sound, HeadsSound
  <2>2. info.main = L.main[a] /\ "main" \in DOMAIN info
    BY DEF OrderInfo
  <2>3. Keeps(L, P)
    BY <1>2, KeepsPay
  <2> HIDE DEF info, P
  <2>4. /\ Shaped(K) /\ (L.fault = TRUE => K.fault = TRUE)
        /\ K.orders = Put(L.orders, <<a, h>>, info)
        /\ K.head = L.head /\ K.main = L.main /\ K.swaps = L.swaps
        /\ K.inquiries = L.inquiries /\ K.takes = L.takes
    BY <2>3 DEF Keeps, Shaped, Tables
  <2> HIDE DEF K
  <2>5. Keeps(K, C)
    BY <2>4, KeepsCounts
  <2> HIDE DEF C, M
  <2>6. Booking(C, M, a, h) /\ Fresh(C, a, h)
    BY <1>1, <1>5, <2>5, CommonFault DEF Keeps
  <2>7. <<a, h>> \notin DOMAIN L.orders
    <3>1. SUFFICES ASSUME <<a, h>> \in DOMAIN L.orders
                   PROVE  FALSE
      OBVIOUS
    <3>2. L.head[a] \in Int /\ h <= L.head[a]
      BY <3>1 DEF Sound, OrdersSound
    <3> QED
      BY <2>4, <2>5, <2>6, <3>2, GenesisAssumption DEF Fresh, Keeps
  <2>8. /\ M.head = [L.head EXCEPT ![a] = h] /\ M.main = L.main
        /\ M.orders = Put(L.orders, <<a, h>>, info)
        /\ M.swaps = L.swaps /\ M.inquiries = L.inquiries /\ M.takes = L.takes
        /\ Shaped(M) /\ Fresh(L, a, h) /\ L.fault # TRUE
    BY <1>1, <2>4, <2>5, <2>6 DEF Booking, Keeps, Fresh
  <2>9. M.main \in [Accounts -> Accounts \cup {NoInfo}]
    BY <2>8 DEF Sound, HeadsSound
  <2>10. /\ DOMAIN M.orders = DOMAIN L.orders \cup {<<a, h>>}
         /\ M.orders[<<a, h>>] = info
         /\ \A x \in DOMAIN L.orders : M.orders[x] = L.orders[x]
    BY <2>7, <2>8 DEF Put
  <2>11. \A x \in DOMAIN M.orders :
           "main" \in DOMAIN M.orders[x] /\ M.orders[x].main \in Accounts
    BY <2>1, <2>2, <2>10, SMTT(40) DEF Sound, OrdersSound
  <2> QED
    BY <2>8, <2>9, <2>10, <2>11 DEF Quiet, Carried, Fresh
<1> QED
  BY <1>3, <1>4, <1>5

\* ProcessSwapCancel ends an order and no swap.
LEMMA QuietCancel ==
  ASSUME NEW L, Sound(L), NEW a \in Accounts, NEW h \in Int, NEW order \in Int
  PROVE  LET M == ProcessSwapCancel(L, a, h, order)
         IN  M.fault # TRUE => Quiet(L, M, a, h) /\ L.fault # TRUE
<1> DEFINE M == ProcessSwapCancel(L, a, h, order)
           x == <<a, order>>
           o == L.orders[x]
           P == UpdateLedgerReceivable(L, ReceivableKey(a, o.offer, Tx(a, h)),
                  Receivable(a, Left(o), h, o.typeOffer, "REFUND"))
           K == [P EXCEPT !.orders[x].finished = "cancel"]
           C == UpdateLedgerAccountOrdersDec(K, a)
<1>1. SUFFICES ASSUME M.fault # TRUE
               PROVE  Quiet(L, M, a, h) /\ L.fault # TRUE
  BY Zenon
<1>2. Shaped(L)
  BY DEF Sound, HeadsSound
<1>3. \/ M \in {UpdateLedgerCommon(L, a, h, {}), Fault(L),
                UpdateLedgerCommon(L, a, h, {o.offer})}
      \/ x \in DOMAIN L.orders /\ M = UpdateLedgerCommon(C, a, h, {o.offer})
  <2> DEFINE none == UpdateLedgerCommon(L, a, h, {})
             same == UpdateLedgerCommon(L, a, h, {o.offer})
             done == UpdateLedgerCommon(C, a, h, {o.offer})
             unknown == L.info[o.offer] = NoInfo
             other == L.info[o.offer].type # o.typeOffer
             R == IF unknown THEN Fault(L) ELSE IF other THEN Fault(L)
                  ELSE IF o.finished # "no" THEN same ELSE done
  <2>1. M = CASE order >= h \/ x \notin DOMAIN L.orders -> none
              [] order < h /\ x \in DOMAIN L.orders -> R
    BY DEF ProcessSwapCancel
  <2> HIDE DEF none, same, done, unknown, other, M, o, x
  <2>2. R \in {Fault(L), same, done}
    OBVIOUS
  <2> HIDE DEF R
  <2>3. CASE order >= h \/ x \notin DOMAIN L.orders
    <3>1. ~(order < h /\ x \in DOMAIN L.orders)
      BY <2>3
    <3> QED
      BY <2>1, <2>3, <3>1 DEF none
  <2>4. CASE order < h /\ x \in DOMAIN L.orders
    <3>1. ~(order >= h \/ x \notin DOMAIN L.orders)
      BY <2>4
    <3>2. M = R
      BY <2>1, <2>4, <3>1
    <3> QED
      BY <2>2, <2>4, <3>2 DEF same, done
  <2> QED
    BY <2>3, <2>4
<1>4. CASE M \in {UpdateLedgerCommon(L, a, h, {}), Fault(L),
                  UpdateLedgerCommon(L, a, h, {o.offer})}
  <2>1. Booked(L, M, a, h)
    BY <1>2, <1>4, BookedSame, BookedFault
  <2> QED
    BY <1>1, <2>1, BookedQuiet
<1>5. CASE x \in DOMAIN L.orders /\ M = UpdateLedgerCommon(C, a, h, {o.offer})
  <2>3. Keeps(L, P)
    BY <1>2, KeepsReceivable
  <2> HIDE DEF P
  <2>4. /\ Shaped(K) /\ (L.fault = TRUE => K.fault = TRUE)
        /\ K.orders = [L.orders EXCEPT ![x].finished = "cancel"]
        /\ K.head = L.head /\ K.main = L.main /\ K.swaps = L.swaps
        /\ K.inquiries = L.inquiries /\ K.takes = L.takes
    BY <2>3 DEF Keeps, Shaped, Tables
  <2> HIDE DEF K
  <2>5. Keeps(K, C)
    BY <2>4, KeepsCounts
  <2> HIDE DEF C, M
  <2>6. Booking(C, M, a, h) /\ Fresh(C, a, h)
    BY <1>1, <1>5, <2>5, CommonFault DEF Keeps
  <2>8. /\ M.head = [L.head EXCEPT ![a] = h] /\ M.main = L.main
        /\ M.orders = [L.orders EXCEPT ![x].finished = "cancel"]
        /\ M.swaps = L.swaps /\ M.inquiries = L.inquiries /\ M.takes = L.takes
        /\ Shaped(M) /\ Fresh(L, a, h) /\ L.fault # TRUE
    BY <1>1, <2>4, <2>5, <2>6, ZenonT(60) DEF Booking, Keeps, Fresh
  <2>9. M.main \in [Accounts -> Accounts \cup {NoInfo}]
    BY <2>8 DEF Sound, HeadsSound
  <2>10. /\ DOMAIN M.orders = DOMAIN L.orders
         /\ \A y \in DOMAIN L.orders :
              /\ DOMAIN M.orders[y] = DOMAIN L.orders[y]
              /\ M.orders[y].main = L.orders[y].main
    <3>1. "main" \in DOMAIN L.orders[x]
      BY <1>5 DEF Sound, OrdersSound
    <3> HIDE DEF x
    <3> QED
      BY <1>5, <2>8, <3>1, SMTT(40)
  <2>11. \A y \in DOMAIN M.orders :
           "main" \in DOMAIN M.orders[y] /\ M.orders[y].main \in Accounts
    BY <2>10 DEF Sound, OrdersSound
  <2> QED
    BY <2>8, <2>9, <2>10, <2>11 DEF Quiet, Carried, Fresh
<1> QED
  BY <1>3, <1>4, <1>5

\* M has the rest of what L becomes by block h of a, orders included.
Resting(L, M, a, h) ==
  /\ Shaped(M) /\ Fresh(L, a, h)
  /\ M.head = [L.head EXCEPT ![a] = h] /\ M.main = L.main /\ M.orders = L.orders

\* A block that leaves the orders alone carries the tables on.
LEMMA RestingCarried ==
  ASSUME NEW L, NEW M, NEW a, NEW h, Sound(L), Resting(L, M, a, h)
  PROVE  Carried(L, M, a, h)
BY DEF Sound, HeadsSound, OrdersSound, Resting, Carried, Fresh

\* M is L with the inquiry of block h of a, to be answered by block ack of the
\* main account.
Asked(L, M, a, h, maker, order, ack, v) ==
  /\ Resting(L, M, a, h)
  /\ maker # a /\ <<maker, order>> \in DOMAIN L.orders
  /\ L.orders[<<maker, order>>].main # a
  /\ M.swaps = Put(L.swaps, <<a, h>>,
       [status |-> "INQUIRY", maker |-> maker, order |-> order, ack |-> ack,
        value |-> v, take |-> NoInfo, trade |-> NoInfo])
  /\ M.inquiries = L.inquiries \cup
       {<<L.orders[<<maker, order>>].main, ack, a, h>>}
  /\ M.takes = L.takes

\* ProcessSwapInquiry books the block, or opens an inquiry and settles it at
\* once when the block that was to answer is there.
LEMMA InquiryEffect ==
  ASSUME NEW L, Sound(L), NEW a \in Accounts, NEW h \in Int, Fresh(L, a, h),
         NEW maker, NEW order, NEW ack, NEW v, NEW acked \in BOOLEAN
  PROVE  LET M == ProcessSwapInquiry(L, a, h, maker, order, ack, v, acked)
         IN  \/ Booked(L, M, a, h)
             \/ \E K : /\ Asked(L, K, a, h, maker, order, ack, v)
                       /\ K.fault = L.fault
                       /\ M = IF acked THEN PurgeInquiryWaiting(K,
                                   L.orders[<<maker, order>>].main, ack)
                              ELSE K
<1> DEFINE M == ProcessSwapInquiry(L, a, h, maker, order, ack, v, acked)
           x == <<maker, order>>
           o == L.orders[x]
           info == [status |-> "INQUIRY", maker |-> maker, order |-> order,
                    ack |-> ack, value |-> v, take |-> NoInfo, trade |-> NoInfo]
           new == [L EXCEPT !.swaps = Put(@, <<a, h>>, info),
                            !.inquiries = @ \cup {<<o.main, ack, a, h>>}]
           asked == Counted(new, a)
           K == UpdateLedgerCommon(asked, a, h, {o.want})
           N == IF acked THEN PurgeInquiryWaiting(K, o.main, ack) ELSE K
<1>1. Shaped(L)
  BY SMTT(40) DEF Sound, HeadsSound
<1>2. \/ M \in {UpdateLedgerCommon(L, a, h, {}), Fault(L),
                UpdateLedgerCommon(L, a, h, {o.want})}
      \/ maker # a /\ x \in DOMAIN L.orders /\ o.main # a /\ M = N
  BY DEF ProcessSwapInquiry
<1>3. CASE M \in {UpdateLedgerCommon(L, a, h, {}), Fault(L),
                  UpdateLedgerCommon(L, a, h, {o.want})}
  BY <1>1, <1>3, BookedSame, BookedFault
<1>4. CASE maker # a /\ x \in DOMAIN L.orders /\ o.main # a /\ M = N
  <2>1. /\ Shaped(new) /\ new.fault = L.fault
        /\ new.head = L.head /\ new.main = L.main /\ new.orders = L.orders
        /\ new.swaps = Put(L.swaps, <<a, h>>, info)
        /\ new.inquiries = L.inquiries \cup {<<o.main, ack, a, h>>}
        /\ new.takes = L.takes
    <3> HIDE DEF info, o
    <3> QED
      BY <1>1 DEF Shaped, Tables
  <2> HIDE DEF new
  <2>2. Keeps(new, asked) /\ asked.fault = L.fault
    <3>1. asked.fault = new.fault
      BY <2>1 DEF Counted, Shaped, Tables
    <3> QED
      BY <2>1, <3>1, KeepsCounts
  <2> HIDE DEF asked
  <2>3. Booking(asked, K, a, h)
    <3>1. Shaped(asked) /\ Fresh(asked, a, h)
      BY <2>1, <2>2 DEF Keeps, Fresh
    <3> QED
      BY <3>1, CommonFresh
  <2> HIDE DEF K
  <2>4. Resting(L, K, a, h) /\ K.fault = L.fault
    BY <2>1, <2>2, <2>3 DEF Resting, Keeps, Booking
  <2>5. Asked(L, K, a, h, maker, order, ack, v)
    BY <1>4, <2>1, <2>2, <2>3, <2>4 DEF Asked, Keeps, Booking
  <2> HIDE DEF M
  <2>6. M = IF acked THEN PurgeInquiryWaiting(K, L.orders[<<maker, order>>].main, ack)
            ELSE K
    BY <1>4
  <2> QED
    BY <2>4, <2>5, <2>6 DEF M
<1> QED
  BY <1>2, <1>3, <1>4

\* A new inquiry leaves the tables sound and the other swaps alone.
LEMMA AskedSound ==
  ASSUME NEW L, Sound(L), NEW a \in Accounts, NEW h \in Int, NEW M,
         NEW maker, NEW order, NEW ack \in Int, NEW v \in Values,
         Asked(L, M, a, h, maker, order, ack, v)
  PROVE  /\ Sound(M) /\ Follows(L, M)
         /\ DOMAIN M.swaps = DOMAIN L.swaps \cup {<<a, h>>}
         /\ <<a, h>> \notin DOMAIN L.swaps
         /\ M.swaps[<<a, h>>].status = "INQUIRY"
         /\ M.swaps[<<a, h>>].ack = ack
         /\ MainOf(M, <<a, h>>) = L.orders[<<maker, order>>].main
         /\ \A s \in DOMAIN L.swaps :
              M.swaps[s] = L.swaps[s] /\ MainOf(M, s) = MainOf(L, s)
<1> DEFINE x == <<a, h>>
           main == L.orders[<<maker, order>>].main
           info == [status |-> "INQUIRY", maker |-> maker, order |-> order,
                    ack |-> ack, value |-> v, take |-> NoInfo, trade |-> NoInfo]
<1>1. Follows(L, M) /\ x \notin DOMAIN L.swaps
  BY RestingCarried, CarriedFollows DEF Asked
<1>2. /\ M.swaps = [s \in DOMAIN L.swaps \cup {x} |-> IF s = x THEN info ELSE L.swaps[s]]
      /\ maker # a /\ <<maker, order>> \in DOMAIN L.orders /\ main # a
      /\ M.inquiries = L.inquiries \cup {<<main, ack, a, h>>}
      /\ M.takes = L.takes /\ M.head = [L.head EXCEPT ![a] = h]
      /\ M.orders = L.orders
  BY DEF Asked, Put, Resting
<1>3. maker \in Accounts /\ order \in Int /\ main \in Accounts
  BY <1>2 DEF Sound, OrdersSound
<1>4. info \in SwapInfos
  BY <1>3 DEF SwapInfos, Statuses
<1>5. info.maker = maker /\ info.order = order /\ info.status = "INQUIRY" /\ info.ack = ack
  OBVIOUS
<1> HIDE DEF info
<1>6. /\ DOMAIN M.swaps = DOMAIN L.swaps \cup {x} /\ M.swaps[x] = info
      /\ \A s \in DOMAIN L.swaps : M.swaps[s] = L.swaps[s]
      /\ M.swaps = [s \in DOMAIN M.swaps |-> M.swaps[s]]
  BY <1>1, <1>2, SMTT(40)
<1>7. /\ MainOf(M, x) = main
      /\ \A s \in DOMAIN L.swaps : MainOf(M, s) = MainOf(L, s)
  BY <1>2, <1>5, <1>6 DEF MainOf, OrderOf
<1>8. M.head[a] = h
  BY <1>2 DEF Sound, HeadsSound
<1>9. SwapsSound(M)
  <2>1. IsFiniteSet(DOMAIN M.swaps) /\ DOMAIN M.swaps \subseteq Accounts \X Int
    <3>1. IsFiniteSet(DOMAIN L.swaps) /\ DOMAIN L.swaps \subseteq Accounts \X Int
      BY DEF Sound, SwapsSound
    <3>2. IsFiniteSet(DOMAIN L.swaps \cup {x})
      BY <3>1, FS_AddElement
    <3> QED
      BY <1>6, <3>1, <3>2
  <2>2. ASSUME NEW s \in DOMAIN M.swaps
        PROVE  /\ M.swaps[s] \in SwapInfos
               /\ <<M.swaps[s].maker, M.swaps[s].order>> \in DOMAIN M.orders
               /\ M.swaps[s].maker # s[1] /\ MainOf(M, s) # s[1]
               /\ M.head[s[1]] \in Int /\ s[2] <= M.head[s[1]]
               /\ M.swaps[s].status \in Answered => M.swaps[s].trade \in Int
    <3>1. CASE s = x
      BY <1>2, <1>4, <1>5, <1>6, <1>7, <1>8, <3>1 DEF Answered
    <3>2. CASE s \in DOMAIN L.swaps
      <4>1. /\ <<M.swaps[s].maker, M.swaps[s].order>> \in DOMAIN M.orders
            /\ M.head[s[1]] \in Int /\ s[2] <= M.head[s[1]]
        BY <1>1, <1>6, <3>2, FollowsMain
      <4> QED
        BY <1>6, <1>7, <3>2, <4>1 DEF Sound, SwapsSound
    <3> QED
      BY <1>6, <3>1, <3>2
  <2> QED
    BY <1>6, <2>1, <2>2 DEF SwapsSound
<1>10. AsksExact(M)
  <2>1. M.inquiries \subseteq Waits
    BY <1>2, <1>3 DEF Sound, AsksExact, Waits
  <2>2. ASSUME NEW n \in Accounts, NEW k \in Int, NEW t \in Accounts, NEW i \in Int
        PROVE  <<n, k, t, i>> \in M.inquiries <=> Asks(M, n, k, t, i)
    <3>1. <<n, k, t, i>> \in L.inquiries <=> Asks(L, n, k, t, i)
      BY DEF Sound, AsksExact
    <3>2. CASE <<t, i>> = x
      BY <1>1, <1>2, <1>5, <1>6, <1>7, <3>1, <3>2 DEF Asks
    <3>3. CASE <<t, i>> # x
      BY <1>2, <1>6, <1>7, <3>1, <3>3 DEF Asks
    <3> QED
      BY <3>2, <3>3
  <2> QED
    BY <2>1, <2>2 DEF AsksExact
<1>11. TakesExact(M)
  <2>1. ASSUME NEW n \in Accounts, NEW k \in Int, NEW t \in Accounts, NEW i \in Int
        PROVE  Takes(M, n, k, t, i) <=> Takes(L, n, k, t, i)
    BY <1>1, <1>5, <1>6 DEF Takes
  <2> QED
    BY <1>2, <2>1 DEF Sound, TakesExact
<1>12. Sound(M)
  BY <1>1, <1>9, <1>10, <1>11 DEF Sound, Follows
<1> QED
  BY <1>1, <1>5, <1>6, <1>7, <1>12

\* M is L with inquiry s answered by block h of a: the maker is to trade at
\* height trade.
Acked(L, M, a, h, s, trade) ==
  /\ Resting(L, M, a, h)
  /\ s \in DOMAIN L.swaps /\ s[1] # a /\ L.swaps[s].status = "INQUIRY"
  /\ M.swaps = [L.swaps EXCEPT ![s] =
                  [[L.swaps[s] EXCEPT !.status = "INQUIRY_ACK"] EXCEPT !.trade = trade]]
  /\ M.inquiries = L.inquiries \ {<<a, h, s[1], s[2]>>}
  /\ <<a, h, s[1], s[2]>> \in L.inquiries
  /\ M.takes = L.takes

\* ProcessSwapInquiryAck books the block or answers the inquiry it names.
LEMMA AckEffect ==
  ASSUME NEW L, Sound(L), NEW a \in Accounts, NEW h \in Int,
         NEW taker \in Accounts, NEW i \in Int, NEW trade, NEW late \in BOOLEAN
  PROVE  LET M == ProcessSwapInquiryAck(L, a, h, taker, i, trade, late)
         IN  M.fault # TRUE => \/ Booked(L, M, a, h)
                               \/ Acked(L, M, a, h, <<taker, i>>, trade) /\ L.fault # TRUE
<1> DEFINE M == ProcessSwapInquiryAck(L, a, h, taker, i, trade, late)
           s == <<taker, i>>
           w == <<a, h, taker, i>>
           maker == L.swaps[s].maker
           offer == OrderOf(L, s).offer
           moved == [L EXCEPT !.inquiries = @ \ {w},
                              !.swaps[s].status = "INQUIRY_ACK",
                              !.swaps[s].trade = trade]
           acked == Counted(moved, maker)
           one == UpdateLedgerAccountActiveSwapsInc(acked, maker)
           two == UpdateLedgerAccountActiveSwapsInc(one, taker)
           N == UpdateLedgerCommon(two, a, h, {offer})
<1>1. SUFFICES ASSUME M.fault # TRUE
               PROVE  Booked(L, M, a, h) \/ (Acked(L, M, a, h, s, trade) /\ L.fault # TRUE)
  OBVIOUS
<1>2. Shaped(L)
  BY DEF Sound, HeadsSound
<1>3. \/ M \in {UpdateLedgerCommon(L, a, h, {}), Fault(L),
                UpdateLedgerCommon(L, a, h, {offer})}
      \/ /\ taker # a /\ w \in L.inquiries /\ SwapKnown(L, s)
         /\ L.swaps[s].status = "INQUIRY" /\ M = N
  BY DEF ProcessSwapInquiryAck
<1>4. CASE M \in {UpdateLedgerCommon(L, a, h, {}), Fault(L),
                  UpdateLedgerCommon(L, a, h, {offer})}
  BY <1>2, <1>4, BookedSame, BookedFault
<1>5. CASE /\ taker # a /\ w \in L.inquiries /\ SwapKnown(L, s)
           /\ L.swaps[s].status = "INQUIRY" /\ M = N
  <2>1. s \in DOMAIN L.swaps /\ s[1] = taker /\ s[2] = i
    BY <1>5 DEF SwapKnown
  <2>2. /\ Shaped(moved) /\ moved.fault = L.fault
        /\ moved.head = L.head /\ moved.main = L.main /\ moved.orders = L.orders
        /\ moved.inquiries = L.inquiries \ {w} /\ moved.takes = L.takes
    <3> HIDE DEF s, w
    <3> QED
      BY <1>2 DEF Shaped, Tables
  <2>3. moved.swaps = [L.swaps EXCEPT ![s] =
          [[L.swaps[s] EXCEPT !.status = "INQUIRY_ACK"] EXCEPT !.trade = trade]]
    <3> HIDE DEF s, w
    <3>1. moved.swaps = [[L.swaps EXCEPT ![s].status = "INQUIRY_ACK"]
                           EXCEPT ![s].trade = trade]
      BY <1>2 DEF Shaped, Tables
    <3> HIDE DEF moved
    <3> QED
      BY <2>1, <3>1
  <2> HIDE DEF moved
  <2>4. Keeps(moved, acked)
    BY <2>2, KeepsCounts
  <2> HIDE DEF acked
  <2>5. Keeps(moved, one)
    BY <2>4, KeepsCounts, KeepsTrans, ZenonT(60) DEF Keeps
  <2> HIDE DEF one
  <2>6. Keeps(moved, two)
    BY <2>5, KeepsCounts, KeepsTrans, ZenonT(60) DEF Keeps
  <2> HIDE DEF two, M
  <2>7. Booking(two, M, a, h) /\ Fresh(two, a, h)
    BY <1>1, <1>5, <2>6, CommonFault DEF Keeps
  <2>8. Resting(L, M, a, h) /\ L.fault # TRUE
    BY <1>1, <2>2, <2>6, <2>7, ZenonT(60) DEF Keeps, Booking, Resting, Fresh
  <2>9. Acked(L, M, a, h, s, trade)
    <3> HIDE DEF s
    <3> QED
      BY <1>5, <2>1, <2>2, <2>3, <2>6, <2>7, <2>8 DEF Keeps, Booking, Acked
  <2> QED
    BY <2>8, <2>9
<1> QED
  BY <1>3, <1>4, <1>5

\* An answer leaves the tables sound and the other swaps alone.
LEMMA AckedSound ==
  ASSUME NEW L, Sound(L), NEW a \in Accounts, NEW h \in Int, NEW M,
         NEW s, NEW trade \in Int, Acked(L, M, a, h, s, trade)
  PROVE  /\ Sound(M) /\ Follows(L, M)
         /\ DOMAIN M.swaps = DOMAIN L.swaps
         /\ M.swaps[s].status = "INQUIRY_ACK" /\ M.swaps[s].trade = trade
         /\ M.swaps[s].maker = L.swaps[s].maker
         /\ \A u \in DOMAIN L.swaps : MainOf(M, u) = MainOf(L, u)
         /\ \A u \in DOMAIN L.swaps \ {s} : M.swaps[u] = L.swaps[u]
<1> DEFINE r == [[L.swaps[s] EXCEPT !.status = "INQUIRY_ACK"] EXCEPT !.trade = trade]
           w == <<a, h, s[1], s[2]>>
<1>1. Follows(L, M)
  BY RestingCarried, CarriedFollows DEF Acked
<1>2. /\ s \in DOMAIN L.swaps /\ L.swaps[s].status = "INQUIRY"
      /\ M.swaps = [L.swaps EXCEPT ![s] = r]
      /\ M.inquiries = L.inquiries \ {w} /\ w \in L.inquiries /\ M.takes = L.takes
  BY DEF Acked
<1>3. L.swaps[s] \in SwapInfos /\ s \in Accounts \X Int /\ s = <<s[1], s[2]>>
  <2>1. L.swaps[s] \in SwapInfos
    BY <1>2 DEF Sound, SwapsSound
  <2>2. s \in Accounts \X Int
    BY <1>2 DEF Sound, SwapsSound
  <2> QED
    BY <2>1, <2>2
<1>4. /\ r \in SwapInfos /\ r.status = "INQUIRY_ACK" /\ r.trade = trade
      /\ r.maker = L.swaps[s].maker /\ r.order = L.swaps[s].order
  BY <1>3 DEF SwapInfos, Statuses
<1> HIDE DEF r
<1>5. /\ DOMAIN M.swaps = DOMAIN L.swaps /\ M.swaps[s] = r
      /\ \A u \in DOMAIN L.swaps \ {s} : M.swaps[u] = L.swaps[u]
      /\ M.swaps = [u \in DOMAIN M.swaps |-> M.swaps[u]]
  BY <1>2
<1>6. Moved(L, M)
  <2>1. ASSUME NEW u \in DOMAIN L.swaps
        PROVE  /\ M.swaps[u] \in SwapInfos
               /\ M.swaps[u].maker = L.swaps[u].maker
               /\ M.swaps[u].order = L.swaps[u].order
               /\ M.swaps[u].status \in Answered => M.swaps[u].trade \in Int
    <3>1. CASE u = s
      BY <1>4, <1>5, <3>1
    <3>2. CASE u # s
      BY <1>5, <3>2 DEF Sound, SwapsSound
    <3> QED
      BY <3>1, <3>2
  <2> QED
    BY <1>5, <2>1 DEF Moved
<1>7. /\ HeadsSound(M) /\ OrdersSound(M) /\ SwapsSound(M)
      /\ \A u \in DOMAIN L.swaps : MainOf(M, u) = MainOf(L, u)
  BY <1>1, <1>6, MovedSound
<1>8. Asks(L, a, h, s[1], s[2])
  BY <1>2, <1>3 DEF Sound, AsksExact
<1>9. AsksExact(M)
  <2>1. M.inquiries \subseteq Waits
    BY <1>2 DEF Sound, AsksExact
  <2>2. ASSUME NEW n \in Accounts, NEW k \in Int, NEW t \in Accounts, NEW i \in Int
        PROVE  <<n, k, t, i>> \in M.inquiries <=> Asks(M, n, k, t, i)
    <3>1. <<n, k, t, i>> \in L.inquiries <=> Asks(L, n, k, t, i)
      BY DEF Sound, AsksExact
    <3>2. CASE <<t, i>> = s
      <4>1. t = s[1] /\ i = s[2]
        BY <3>2
      <4>2. Asks(L, n, k, t, i) => n = a /\ k = h
        BY <1>3, <1>8, <4>1 DEF Asks
      <4>3. ~Asks(M, n, k, t, i)
        BY <1>4, <1>5, <3>2 DEF Asks
      <4> QED
        BY <1>2, <3>1, <4>1, <4>2, <4>3
    <3>3. CASE <<t, i>> # s
      <4>1. <<n, k, t, i>> # w
        BY <1>3, <3>3
      <4> QED
        BY <1>2, <1>5, <1>7, <3>1, <3>3, <4>1 DEF Asks
    <3> QED
      BY <3>2, <3>3
  <2> QED
    BY <2>1, <2>2 DEF AsksExact
<1>10. TakesExact(M)
  <2>1. ASSUME NEW n \in Accounts, NEW k \in Int, NEW t \in Accounts, NEW i \in Int
        PROVE  Takes(M, n, k, t, i) <=> Takes(L, n, k, t, i)
    <3>1. CASE <<t, i>> = s
      BY <1>2, <1>4, <1>5, <3>1 DEF Takes
    <3>2. CASE <<t, i>> # s
      BY <1>5, <3>2 DEF Takes
    <3> QED
      BY <3>1, <3>2
  <2> QED
    BY <1>2, <2>1 DEF Sound, TakesExact
<1>11. Sound(M)
  BY <1>7, <1>9, <1>10, SMTT(40) DEF Sound
<1> QED
  BY <1>1, <1>4, <1>5, <1>7, <1>11

\* M is L with swap s taken by block h of the taker a.
Took(L, M, a, h, s) ==
  /\ Resting(L, M, a, h)
  /\ s \in DOMAIN L.swaps /\ s[1] = a /\ L.swaps[s].status = "INQUIRY_ACK"
  /\ M.swaps = [L.swaps EXCEPT ![s] =
                  [[L.swaps[s] EXCEPT !.status = "TAKE"] EXCEPT !.take = h]]
  /\ M.inquiries = L.inquiries
  /\ M.takes = L.takes \cup {<<L.swaps[s].maker, L.swaps[s].trade, s[1], s[2]>>}

\* ProcessSwapTake books the block, or takes and refunds at once when the
\* maker has its block.
LEMMA TakeEffect ==
  ASSUME NEW L, Sound(L), NEW a \in Accounts, NEW h \in Int, Fresh(L, a, h),
         NEW i \in Int, NEW traded \in BOOLEAN
  PROVE  LET M == ProcessSwapTake(L, a, h, i, traded)
         IN  \/ Booked(L, M, a, h)
             \/ \E K : /\ Took(L, K, a, h, <<a, i>>)
                       /\ K.fault # TRUE => L.fault # TRUE
                       /\ i < h /\ SwapKnown(L, <<a, i>>)
                       /\ M = IF traded THEN PurgeTakeWaiting(K,
                                L.swaps[<<a, i>>].maker, L.swaps[<<a, i>>].trade)
                              ELSE K
<1> DEFINE M == ProcessSwapTake(L, a, h, i, traded)
           s == <<a, i>>
           info == L.swaps[s]
           want == OrderOf(L, s).want
           P == Pay(L, a, want, info.value)
           moved == [P EXCEPT !.swaps[s].status = "TAKE", !.swaps[s].take = h,
                       !.takes = @ \cup {<<info.maker, info.trade, a, i>>}]
           K == UpdateLedgerCommon(moved, a, h, {want})
           N == IF traded THEN PurgeTakeWaiting(K, info.maker, info.trade) ELSE K
<1>1. Shaped(L)
  BY DEF Sound, HeadsSound
<1>2. \/ M \in {UpdateLedgerCommon(L, a, h, {}), Fault(L),
                UpdateLedgerCommon(L, a, h, {want})}
      \/ /\ i < h /\ SwapKnown(L, s) /\ info.status = "INQUIRY_ACK" /\ M = N
  <2>1. CASE i >= h \/ s \notin DOMAIN L.swaps
    <3>1. M = UpdateLedgerCommon(L, a, h, {})
      BY <2>1 DEF ProcessSwapTake
    <3> QED
      BY <3>1, SMTT(40)
  <2>2. CASE i < h /\ s \in DOMAIN L.swaps
    <3>1. ~(i >= h \/ s \notin DOMAIN L.swaps)
      BY <2>2
    <3>2. M = IF ~SwapKnown(L, s) THEN Fault(L)
              ELSE IF L.info[want] = NoInfo THEN Fault(L)
              ELSE IF L.info[want].type # OrderOf(L, s).typeWant THEN Fault(L)
              ELSE IF info.status # "INQUIRY_ACK"
                THEN UpdateLedgerCommon(L, a, h, {want})
              ELSE IF Missing(L, a, want) THEN Fault(L)
              ELSE IF ~CanPay(L, a, want, info.value)
                THEN UpdateLedgerCommon(L, a, h, {want})
              ELSE N
      BY <2>2, <3>1 DEF ProcessSwapTake
    <3> HIDE DEF M, N, want, info, s
    <3> QED
      BY <2>2, <3>2
  <2> QED
    BY <2>1, <2>2
<1>3. CASE M \in {UpdateLedgerCommon(L, a, h, {}), Fault(L),
                  UpdateLedgerCommon(L, a, h, {want})}
  BY <1>1, <1>3, BookedSame, BookedFault
<1>4. CASE i < h /\ SwapKnown(L, s) /\ info.status = "INQUIRY_ACK" /\ M = N
  <2>1. Keeps(L, P) /\ s \in DOMAIN L.swaps
    BY <1>1, <1>4, KeepsPay DEF SwapKnown
  <2> HIDE DEF P
  <2>2. /\ Shaped(moved) /\ moved.fault = P.fault
        /\ moved.head = L.head /\ moved.main = L.main /\ moved.orders = L.orders
        /\ moved.inquiries = L.inquiries
        /\ moved.takes = L.takes \cup {<<info.maker, info.trade, a, i>>}
    <3> HIDE DEF s, info
    <3> QED
      BY <2>1 DEF Keeps, Shaped, Tables
  <2>3. moved.swaps = [L.swaps EXCEPT ![s] =
          [[L.swaps[s] EXCEPT !.status = "TAKE"] EXCEPT !.take = h]]
    <3>1. Shaped(P) /\ P.swaps = L.swaps
      BY <2>1 DEF Keeps
    <3> HIDE DEF s, info
    <3>2. moved.swaps = [[P.swaps EXCEPT ![s].status = "TAKE"]
                           EXCEPT ![s].take = h]
      BY <3>1 DEF Shaped, Tables
    <3> HIDE DEF moved
    <3> QED
      BY <2>1, <3>1, <3>2
  <2> HIDE DEF moved
  <2>4. Booking(moved, K, a, h)
    <3>1. Fresh(moved, a, h)
      BY <2>2 DEF Fresh
    <3> QED
      BY <2>2, <3>1, CommonFresh
  <2> HIDE DEF K
  <2>5. Resting(L, K, a, h) /\ (K.fault # TRUE => L.fault # TRUE)
    BY <2>1, <2>2, <2>4 DEF Keeps, Booking, Resting
  <2>6. Took(L, K, a, h, s)
    <3>1. s[1] = a /\ s[2] = i
      OBVIOUS
    <3> HIDE DEF s
    <3> QED
      BY <1>4, <2>1, <2>2, <2>3, <2>4, <2>5, <3>1 DEF Booking, Took
  <2> QED
    BY <1>4, <2>5, <2>6
<1> QED
  BY <1>2, <1>3, <1>4

\* A take leaves the tables sound and the other swaps alone.
LEMMA TookSound ==
  ASSUME NEW L, Sound(L), NEW a \in Accounts, NEW h \in Int, NEW M,
         NEW s, Took(L, M, a, h, s)
  PROVE  /\ Sound(M) /\ Follows(L, M)
         /\ DOMAIN M.swaps = DOMAIN L.swaps
         /\ M.swaps[s].status = "TAKE" /\ M.swaps[s].trade = L.swaps[s].trade
         /\ M.swaps[s].maker = L.swaps[s].maker
         /\ \A u \in DOMAIN L.swaps : MainOf(M, u) = MainOf(L, u)
         /\ \A u \in DOMAIN L.swaps \ {s} : M.swaps[u] = L.swaps[u]
<1> DEFINE r == [[L.swaps[s] EXCEPT !.status = "TAKE"] EXCEPT !.take = h]
           m == L.swaps[s].maker
           d == L.swaps[s].trade
           w == <<m, d, s[1], s[2]>>
<1>1. Follows(L, M)
  BY RestingCarried, CarriedFollows DEF Took
<1>2. /\ s \in DOMAIN L.swaps /\ L.swaps[s].status = "INQUIRY_ACK"
      /\ M.swaps = [L.swaps EXCEPT ![s] = r]
      /\ M.inquiries = L.inquiries /\ M.takes = L.takes \cup {w}
  BY DEF Took
<1>3. /\ L.swaps[s] \in SwapInfos /\ s \in Accounts \X Int /\ s = <<s[1], s[2]>>
      /\ d \in Int /\ m \in Accounts
  <2>1. L.swaps[s] \in SwapInfos
    BY <1>2 DEF Sound, SwapsSound
  <2>2. s \in Accounts \X Int
    BY <1>2 DEF Sound, SwapsSound
  <2>3. d \in Int
    BY <1>2 DEF Sound, SwapsSound, Answered
  <2>4. m \in Accounts
    BY <2>1 DEF SwapInfos
  <2> QED
    BY <2>1, <2>2, <2>3, <2>4
<1>4. /\ r \in SwapInfos /\ r.status = "TAKE" /\ r.trade = d
      /\ r.maker = m /\ r.order = L.swaps[s].order
  BY <1>3 DEF SwapInfos, Statuses
<1> HIDE DEF r
<1>5. /\ DOMAIN M.swaps = DOMAIN L.swaps /\ M.swaps[s] = r
      /\ \A u \in DOMAIN L.swaps \ {s} : M.swaps[u] = L.swaps[u]
      /\ M.swaps = [u \in DOMAIN M.swaps |-> M.swaps[u]]
  BY <1>2
<1>6. Moved(L, M)
  <2>1. ASSUME NEW u \in DOMAIN L.swaps
        PROVE  /\ M.swaps[u] \in SwapInfos
               /\ M.swaps[u].maker = L.swaps[u].maker
               /\ M.swaps[u].order = L.swaps[u].order
               /\ M.swaps[u].status \in Answered => M.swaps[u].trade \in Int
    <3>1. CASE u = s
      BY <1>3, <1>4, <1>5, <3>1
    <3>2. CASE u # s
      BY <1>5, <3>2 DEF Sound, SwapsSound
    <3> QED
      BY <3>1, <3>2
  <2> QED
    BY <1>5, <2>1 DEF Moved
<1>7. /\ HeadsSound(M) /\ OrdersSound(M) /\ SwapsSound(M)
      /\ \A u \in DOMAIN L.swaps : MainOf(M, u) = MainOf(L, u)
  BY <1>1, <1>6, MovedSound
<1>8. TakesExact(M)
  <2>1. M.takes \subseteq Waits
    BY <1>2, <1>3 DEF Sound, TakesExact, Waits
  <2>2. ASSUME NEW n \in Accounts, NEW k \in Int, NEW t \in Accounts, NEW i \in Int
        PROVE  <<n, k, t, i>> \in M.takes <=> Takes(M, n, k, t, i)
    <3>1. <<n, k, t, i>> \in L.takes <=> Takes(L, n, k, t, i)
      BY DEF Sound, TakesExact
    <3>2. CASE <<t, i>> = s
      <4>1. t = s[1] /\ i = s[2]
        BY <3>2
      <4>2. ~Takes(L, n, k, t, i)
        BY <1>2, <3>2 DEF Takes
      <4>3. Takes(M, n, k, t, i) <=> n = m /\ k = d
        BY <1>2, <1>4, <1>5, <3>2 DEF Takes
      <4> QED
        BY <1>2, <3>1, <4>1, <4>2, <4>3
    <3>3. CASE <<t, i>> # s
      <4>1. <<n, k, t, i>> # w
        BY <1>3, <3>3
      <4> QED
        BY <1>2, <1>5, <1>7, <3>1, <3>3, <4>1 DEF Takes
    <3> QED
      BY <3>2, <3>3
  <2> QED
    BY <2>1, <2>2 DEF TakesExact
<1>9. AsksExact(M)
  <2>1. ASSUME NEW n \in Accounts, NEW k \in Int, NEW t \in Accounts, NEW i \in Int
        PROVE  Asks(M, n, k, t, i) <=> Asks(L, n, k, t, i)
    <3>1. CASE <<t, i>> = s
      BY <1>2, <1>4, <1>5, <3>1 DEF Asks
    <3>2. CASE <<t, i>> # s
      BY <1>5, <1>7, <3>2 DEF Asks
    <3> QED
      BY <3>1, <3>2
  <2> QED
    BY <1>2, <2>1 DEF Sound, AsksExact
<1>10. Sound(M)
  BY <1>7, <1>8, <1>9 DEF Sound
<1> QED
  BY <1>1, <1>4, <1>5, <1>7, <1>10

\* M is L with the take of swap s traded by block h of the maker a.
Traded(L, M, a, h, s) ==
  /\ Carried(L, M, a, h)
  /\ s \in DOMAIN L.swaps /\ s[1] # a /\ L.swaps[s].status = "TAKE"
  /\ L.swaps[s].maker = a /\ L.swaps[s].trade = h
  /\ M.swaps = [L.swaps EXCEPT ![s].status = "TAKE_ACK"]
  /\ M.inquiries = L.inquiries
  /\ M.takes = L.takes \ {<<a, h, s[1], s[2]>>}

\* Trade settles the take it pays.
LEMMA TradeEffect ==
  ASSUME NEW L, Sound(L), NEW a \in Accounts, NEW h \in Int, NEW s, NEW ack,
         s \in DOMAIN L.swaps, s[1] # a, L.swaps[s].status = "TAKE",
         L.swaps[s].maker = a, L.swaps[s].trade = h,
         Trade(L, a, h, s, ack).fault # TRUE
  PROVE  Traded(L, Trade(L, a, h, s, ack), a, h, s) /\ L.fault # TRUE
<1> DEFINE M == Trade(L, a, h, s, ack)
           x == <<a, L.swaps[s].order>>
           o == OrderOf(L, s)
           filled == Filled(o, ack)
           P == UpdateLedgerReceivable(L, ReceivableKey(s[1], o.offer, Tx(a, h)),
                  Receivable(a, ack, h, o.typeOffer, "SWAP"))
           Q == UpdateLedgerReceivable(P, ReceivableKey(a, o.want, Tx(a, h)),
                  Receivable(a, L.swaps[s].value, h, o.typeWant, "SWAP"))
           K == [Q EXCEPT !.takes = @ \ {<<a, h, s[1], s[2]>>},
                          !.swaps[s].status = "TAKE_ACK", !.orders[x] = filled]
           C == IF filled.finished = "no" THEN K
                ELSE UpdateLedgerAccountOrdersDec(K, a)
           one == UpdateLedgerAccountActiveSwapsDec(C, a)
           two == UpdateLedgerAccountActiveSwapsDec(one, s[1])
<1>1. Shaped(L)
  BY DEF Sound, HeadsSound
<1>2. M \in {Fault(L), UpdateLedgerCommon(two, a, h, {o.offer})}
  BY DEF Trade
<1>3. M = UpdateLedgerCommon(two, a, h, {o.offer})
  BY <1>1, <1>2, KeepsFault, ZenonT(60)
<1>4. x \in DOMAIN L.orders /\ o = L.orders[x]
  BY DEF Sound, SwapsSound, OrderOf
<1>5. "main" \in DOMAIN filled /\ filled.main = o.main
  <2>1. "main" \in DOMAIN o
    BY <1>4 DEF Sound, OrdersSound
  <2> HIDE DEF o
  <2> QED
    BY <2>1 DEF Filled
<1>6. Keeps(L, P)
  BY <1>1, KeepsReceivable
<1> HIDE DEF P
<1>7. Keeps(L, Q)
  <2>1. Shaped(P)
    BY <1>6 DEF Keeps
  <2>2. Keeps(P, Q)
    BY <2>1, KeepsReceivable
  <2> QED
    BY <1>6, <2>2, KeepsTrans
<1> HIDE DEF Q, filled
<1>8. /\ Shaped(K) /\ (L.fault = TRUE => K.fault = TRUE)
      /\ K.head = L.head /\ K.main = L.main
      /\ K.orders = [L.orders EXCEPT ![x] = filled]
      /\ K.inquiries = L.inquiries
      /\ K.takes = L.takes \ {<<a, h, s[1], s[2]>>}
      /\ K.swaps = [L.swaps EXCEPT ![s].status = "TAKE_ACK"]
  <2> HIDE DEF x
  <2> QED
    BY <1>7 DEF Keeps, Shaped, Tables
<1> HIDE DEF K
<1>9. Keeps(K, C)
  BY <1>8, KeepsCounts, KeepsSelf
<1> HIDE DEF C
<1>10. Keeps(K, one)
  <2>1. Shaped(C)
    BY <1>9 DEF Keeps
  <2>2. Keeps(C, one)
    BY <2>1, KeepsCounts
  <2> QED
    BY <1>9, <2>2, KeepsTrans
<1> HIDE DEF one
<1>11. Keeps(K, two)
  <2>1. Shaped(one)
    BY <1>10 DEF Keeps
  <2>2. Keeps(one, two)
    BY <2>1, KeepsCounts
  <2> QED
    BY <1>10, <2>2, KeepsTrans
<1> HIDE DEF two, M
<1>12. Booking(two, M, a, h) /\ Fresh(two, a, h)
  <2>1. M.fault # TRUE
    BY DEF M
  <2> QED
    BY <1>3, <1>11, <2>1, CommonFault DEF Keeps
<1>13. /\ M.head = [L.head EXCEPT ![a] = h] /\ M.main = L.main
       /\ M.orders = [L.orders EXCEPT ![x] = filled]
       /\ M.swaps = [L.swaps EXCEPT ![s].status = "TAKE_ACK"]
       /\ M.inquiries = L.inquiries /\ M.takes = L.takes \ {<<a, h, s[1], s[2]>>}
       /\ Shaped(M) /\ Fresh(L, a, h) /\ L.fault # TRUE
  <2>1. M.fault # TRUE
    BY DEF M
  <2>2. /\ two.head = L.head /\ two.main = L.main
        /\ two.orders = [L.orders EXCEPT ![x] = filled]
        /\ two.swaps = [L.swaps EXCEPT ![s].status = "TAKE_ACK"]
        /\ two.inquiries = L.inquiries
        /\ two.takes = L.takes \ {<<a, h, s[1], s[2]>>}
        /\ L.fault = TRUE => two.fault = TRUE
    BY <1>8, <1>11 DEF Keeps
  <2> HIDE DEF x
  <2> QED
    BY <1>12, <2>1, <2>2 DEF Booking, Fresh
<1>14. Carried(L, M, a, h)
  <2>1. M.main \in [Accounts -> Accounts \cup {NoInfo}]
    BY <1>13 DEF Sound, HeadsSound
  <2>2. /\ DOMAIN M.orders = DOMAIN L.orders /\ M.orders[x] = filled
        /\ \A y \in DOMAIN L.orders : y # x => M.orders[y] = L.orders[y]
    <3> HIDE DEF x
    <3> QED
      BY <1>4, <1>13
  <2>3. \A y \in DOMAIN L.orders :
          /\ "main" \in DOMAIN L.orders[y] /\ L.orders[y].main \in Accounts
    BY DEF Sound, OrdersSound
  <2>4. ASSUME NEW y \in DOMAIN L.orders
        PROVE  "main" \in DOMAIN M.orders[y] /\ M.orders[y].main = L.orders[y].main
    <3> HIDE DEF x, o
    <3> QED
      BY <1>4, <1>5, <2>2, <2>3
  <2>5. \A y \in DOMAIN M.orders :
           "main" \in DOMAIN M.orders[y] /\ M.orders[y].main \in Accounts
    BY <2>2, <2>3, <2>4
  <2>6. \A y \in DOMAIN L.orders : M.orders[y].main = L.orders[y].main
    BY <2>4
  <2> QED
    BY <1>13, <2>1, <2>2, <2>5, <2>6 DEF Carried, Fresh
<1>15. Traded(L, M, a, h, s)
  BY <1>13, <1>14 DEF Traded
<1> QED
  BY <1>13, <1>15 DEF M

\* ProcessSwapTakeAck books the block or trades.
LEMMA TakeAckEffect ==
  ASSUME NEW L, Sound(L), NEW a \in Accounts, NEW h \in Int,
         NEW taker \in Accounts, NEW i \in Int, NEW take, NEW ack
  PROVE  LET M == ProcessSwapTakeAck(L, a, h, taker, i, take, ack)
         IN  M.fault # TRUE => \/ Booked(L, M, a, h)
                               \/ Traded(L, M, a, h, <<taker, i>>) /\ L.fault # TRUE
<1> DEFINE M == ProcessSwapTakeAck(L, a, h, taker, i, take, ack)
           s == <<taker, i>>
           info == L.swaps[s]
           o == OrderOf(L, s)
<1>1. SUFFICES ASSUME M.fault # TRUE
               PROVE  Booked(L, M, a, h) \/ (Traded(L, M, a, h, s) /\ L.fault # TRUE)
  OBVIOUS
<1>2. Shaped(L)
  BY DEF Sound, HeadsSound
<1>3. \/ M \in {UpdateLedgerCommon(L, a, h, {}), Fault(L),
                UpdateLedgerCommon(L, a, h, {o.offer})}
      \/ /\ taker # a /\ s \in DOMAIN L.swaps /\ info.status = "TAKE"
         /\ info.maker = a /\ info.trade = h /\ M = Trade(L, a, h, s, ack)
  BY DEF ProcessSwapTakeAck
<1>4. CASE M \in {UpdateLedgerCommon(L, a, h, {}), Fault(L),
                  UpdateLedgerCommon(L, a, h, {o.offer})}
  BY <1>2, <1>4, BookedSame, BookedFault
<1>5. CASE /\ taker # a /\ s \in DOMAIN L.swaps /\ info.status = "TAKE"
           /\ info.maker = a /\ info.trade = h /\ M = Trade(L, a, h, s, ack)
  <2>1. s[1] # a
    BY <1>5
  <2> HIDE DEF s, M
  <2> QED
    BY <1>1, <1>5, <2>1, TradeEffect
<1> QED
  BY <1>3, <1>4, <1>5

\* A trade leaves the tables sound and the other swaps alone.
LEMMA TradedSound ==
  ASSUME NEW L, Sound(L), NEW a \in Accounts, NEW h \in Int, NEW M,
         NEW s, Traded(L, M, a, h, s)
  PROVE  /\ Sound(M) /\ Follows(L, M)
         /\ DOMAIN M.swaps = DOMAIN L.swaps
         /\ M.swaps[s].status = "TAKE_ACK" /\ M.swaps[s].trade = L.swaps[s].trade
         /\ M.swaps[s].maker = L.swaps[s].maker
         /\ \A u \in DOMAIN L.swaps : MainOf(M, u) = MainOf(L, u)
         /\ \A u \in DOMAIN L.swaps \ {s} : M.swaps[u] = L.swaps[u]
<1> DEFINE r == [L.swaps[s] EXCEPT !.status = "TAKE_ACK"]
           w == <<a, h, s[1], s[2]>>
<1>1. Follows(L, M)
  BY CarriedFollows DEF Traded
<1>2. /\ s \in DOMAIN L.swaps /\ L.swaps[s].status = "TAKE"
      /\ L.swaps[s].maker = a /\ L.swaps[s].trade = h
      /\ M.swaps = [L.swaps EXCEPT ![s] = r]
      /\ M.inquiries = L.inquiries /\ M.takes = L.takes \ {w}
  BY DEF Traded
<1>3. L.swaps[s] \in SwapInfos /\ s \in Accounts \X Int /\ s = <<s[1], s[2]>>
  <2>1. L.swaps[s] \in SwapInfos
    BY <1>2 DEF Sound, SwapsSound
  <2>2. s \in Accounts \X Int
    BY <1>2 DEF Sound, SwapsSound
  <2> QED
    BY <2>1, <2>2
<1>4. /\ r \in SwapInfos /\ r.status = "TAKE_ACK" /\ r.trade = h
      /\ r.maker = a /\ r.order = L.swaps[s].order
  BY <1>2, <1>3 DEF SwapInfos, Statuses
<1> HIDE DEF r
<1>5. /\ DOMAIN M.swaps = DOMAIN L.swaps /\ M.swaps[s] = r
      /\ \A u \in DOMAIN L.swaps \ {s} : M.swaps[u] = L.swaps[u]
      /\ M.swaps = [u \in DOMAIN M.swaps |-> M.swaps[u]]
  BY <1>2
<1>6. Moved(L, M)
  <2>1. ASSUME NEW u \in DOMAIN L.swaps
        PROVE  /\ M.swaps[u] \in SwapInfos
               /\ M.swaps[u].maker = L.swaps[u].maker
               /\ M.swaps[u].order = L.swaps[u].order
               /\ M.swaps[u].status \in Answered => M.swaps[u].trade \in Int
    <3>1. CASE u = s
      BY <1>2, <1>4, <1>5, <3>1
    <3>2. CASE u # s
      BY <1>5, <3>2 DEF Sound, SwapsSound
    <3> QED
      BY <3>1, <3>2
  <2> QED
    BY <1>5, <2>1 DEF Moved
<1>7. /\ HeadsSound(M) /\ OrdersSound(M) /\ SwapsSound(M)
      /\ \A u \in DOMAIN L.swaps : MainOf(M, u) = MainOf(L, u)
  BY <1>1, <1>6, MovedSound
<1>8. TakesExact(M)
  <2>1. M.takes \subseteq Waits
    BY <1>2 DEF Sound, TakesExact
  <2>2. ASSUME NEW n \in Accounts, NEW k \in Int, NEW t \in Accounts, NEW i \in Int
        PROVE  <<n, k, t, i>> \in M.takes <=> Takes(M, n, k, t, i)
    <3>1. <<n, k, t, i>> \in L.takes <=> Takes(L, n, k, t, i)
      BY DEF Sound, TakesExact
    <3>2. CASE <<t, i>> = s
      <4>1. t = s[1] /\ i = s[2]
        BY <3>2
      <4>2. Takes(L, n, k, t, i) => n = a /\ k = h
        BY <1>2, <3>2 DEF Takes
      <4>3. ~Takes(M, n, k, t, i)
        BY <1>4, <1>5, <3>2 DEF Takes
      <4> QED
        BY <1>2, <3>1, <4>1, <4>2, <4>3
    <3>3. CASE <<t, i>> # s
      <4>1. <<n, k, t, i>> # w
        BY <1>3, <3>3
      <4> QED
        BY <1>2, <1>5, <1>7, <3>1, <3>3, <4>1 DEF Takes
    <3> QED
      BY <3>2, <3>3
  <2> QED
    BY <2>1, <2>2 DEF TakesExact
<1>9. AsksExact(M)
  <2>1. ASSUME NEW n \in Accounts, NEW k \in Int, NEW t \in Accounts, NEW i \in Int
        PROVE  Asks(M, n, k, t, i) <=> Asks(L, n, k, t, i)
    <3>1. CASE <<t, i>> = s
      BY <1>2, <1>4, <1>5, <3>1 DEF Asks
    <3>2. CASE <<t, i>> # s
      BY <1>5, <1>7, <3>2 DEF Asks
    <3> QED
      BY <3>1, <3>2
  <2> QED
    BY <1>2, <2>1 DEF Sound, AsksExact
<1>10. Sound(M)
  BY <1>7, <1>8, <1>9 DEF Sound
<1> QED
  BY <1>1, <1>2, <1>4, <1>5, <1>7, <1>10

-----------------------------------------------------------------------------
(* In time.                                                                *)

\* No inquiry is open once the main account has its block hd, no take once the
\* maker has.
AsksInTime(L, hd) ==
  \A s \in DOMAIN L.swaps :
    L.swaps[s].status = "INQUIRY" => hd[MainOf(L, s)] < L.swaps[s].ack

TakesInTime(L, hd) ==
  \A s \in DOMAIN L.swaps :
    L.swaps[s].status = "TAKE" => hd[L.swaps[s].maker] < L.swaps[s].trade

InTime(L, hd) == AsksInTime(L, hd) /\ TakesInTime(L, hd)

\* The swaps of M are those of L, but for the ones that block h of a settles.
Appended(L, M, a, h) ==
  /\ DOMAIN M.swaps = DOMAIN L.swaps
  /\ \A s \in DOMAIN L.swaps :
       /\ M.swaps[s].maker = L.swaps[s].maker /\ M.swaps[s].trade = L.swaps[s].trade
       /\ M.swaps[s].ack = L.swaps[s].ack /\ MainOf(M, s) = MainOf(L, s)
       /\ M.swaps[s].status = IF s \in Asking(L, a, h) THEN "INQUIRY_NACK"
                              ELSE IF s \in Taking(L, a, h) THEN "TAKE_NACK"
                              ELSE L.swaps[s].status

\* What it means that a swap waits for a block.
LEMMA AwaitedBy ==
  ASSUME NEW L, Sound(L), NEW s \in DOMAIN L.swaps, NEW m, NEW h
  PROVE  /\ s \in Asking(L, m, h) <=> /\ L.swaps[s].status = "INQUIRY"
                                      /\ MainOf(L, s) = m /\ L.swaps[s].ack = h
         /\ s \in Taking(L, m, h) <=> /\ L.swaps[s].status = "TAKE"
                                      /\ L.swaps[s].maker = m /\ L.swaps[s].trade = h
<1>1. s = <<s[1], s[2]>>
  BY DEF Sound, SwapsSound
<1> QED
  BY <1>1 DEF Asking, Taking, Asks, Takes

\* What PurgeInquiryWaiting does to each swap.
LEMMA PurgeInquirySwaps ==
  ASSUME NEW L, Sound(L), NEW m \in Accounts, NEW h \in Int
  PROVE  LET M == PurgeInquiryWaiting(L, m, h)
         IN  /\ DOMAIN M.swaps = DOMAIN L.swaps
             /\ \A s \in DOMAIN L.swaps :
                  /\ M.swaps[s].maker = L.swaps[s].maker
                  /\ M.swaps[s].trade = L.swaps[s].trade
                  /\ M.swaps[s].ack = L.swaps[s].ack /\ MainOf(M, s) = MainOf(L, s)
                  /\ M.swaps[s].status = IF s \in Asking(L, m, h) THEN "INQUIRY_NACK"
                                         ELSE L.swaps[s].status
<1> DEFINE M == PurgeInquiryWaiting(L, m, h)
           S == Asking(L, m, h)
<1>1. Settled(L, M, S, "INQUIRY_NACK")
  BY PurgeInquiryEffect
<1> HIDE DEF M, S
<1>2. DOMAIN M.swaps = DOMAIN L.swaps
  BY <1>1 DEF Settled, WithStatus
<1>3. ASSUME NEW s \in DOMAIN L.swaps
      PROVE  /\ M.swaps[s].maker = L.swaps[s].maker
             /\ M.swaps[s].order = L.swaps[s].order
             /\ M.swaps[s].trade = L.swaps[s].trade
             /\ M.swaps[s].ack = L.swaps[s].ack
             /\ M.swaps[s].status = IF s \in S THEN "INQUIRY_NACK"
                                    ELSE L.swaps[s].status
  <2>1. L.swaps[s] \in SwapInfos
    BY DEF Sound, SwapsSound
  <2>2. M.swaps[s] = IF s \in S THEN [L.swaps[s] EXCEPT !.status = "INQUIRY_NACK"]
                                ELSE L.swaps[s]
    BY <1>1 DEF Settled, WithStatus
  <2> QED
    BY <2>1, <2>2 DEF SwapInfos
<1>4. \A s \in DOMAIN L.swaps : MainOf(M, s) = MainOf(L, s)
  BY <1>1, <1>3 DEF MainOf, OrderOf, Settled
<1> QED
  BY <1>2, <1>3, <1>4 DEF M, S

\* What PurgeTakeWaiting does to each swap.
LEMMA PurgeTakeSwaps ==
  ASSUME NEW L, Sound(L), NEW m \in Accounts, NEW h \in Int, NEW M,
         Refunded(L, M, m, h, Taking(L, m, h))
  PROVE  /\ DOMAIN M.swaps = DOMAIN L.swaps
         /\ \A s \in DOMAIN L.swaps :
              /\ M.swaps[s].maker = L.swaps[s].maker
              /\ M.swaps[s].trade = L.swaps[s].trade
              /\ M.swaps[s].ack = L.swaps[s].ack /\ MainOf(M, s) = MainOf(L, s)
              /\ M.swaps[s].status = IF s \in Taking(L, m, h) THEN "TAKE_NACK"
                                     ELSE L.swaps[s].status
<1> DEFINE S == Taking(L, m, h)
<1>1. Settled(L, M, S, "TAKE_NACK")
  BY DEF Refunded
<1> HIDE DEF S
<1>2. DOMAIN M.swaps = DOMAIN L.swaps
  BY <1>1 DEF Settled, WithStatus
<1>3. ASSUME NEW s \in DOMAIN L.swaps
      PROVE  /\ M.swaps[s].maker = L.swaps[s].maker
             /\ M.swaps[s].order = L.swaps[s].order
             /\ M.swaps[s].trade = L.swaps[s].trade
             /\ M.swaps[s].ack = L.swaps[s].ack
             /\ M.swaps[s].status = IF s \in S THEN "TAKE_NACK"
                                    ELSE L.swaps[s].status
  <2>1. L.swaps[s] \in SwapInfos
    BY DEF Sound, SwapsSound
  <2>2. M.swaps[s] = IF s \in S THEN [L.swaps[s] EXCEPT !.status = "TAKE_NACK"]
                                ELSE L.swaps[s]
    BY <1>1 DEF Settled, WithStatus
  <2> QED
    BY <2>1, <2>2 DEF SwapInfos
<1>4. \A s \in DOMAIN L.swaps : MainOf(M, s) = MainOf(L, s)
  BY <1>1, <1>3 DEF MainOf, OrderOf, Settled
<1> QED
  BY <1>2, <1>3, <1>4 DEF S

\* The block that is appended settles what waits for it.
LEMMA AppendSettles ==
  ASSUME NEW L, Sound(L), NEW a \in Accounts, NEW h \in Int,
         AfterBlockAppend(L, a, h).fault # TRUE
  PROVE  LET M == AfterBlockAppend(L, a, h)
         IN  /\ Sound(M) /\ Follows(L, M) /\ Appended(L, M, a, h)
             /\ M.head = L.head /\ L.fault # TRUE
<1> DEFINE P == PurgeInquiryWaiting(L, a, h)
           M == PurgeTakeWaiting(P, a, h)
<1>1. AfterBlockAppend(L, a, h) = M /\ M.fault # TRUE
  BY DEF AfterBlockAppend
<1>2. Sound(P) /\ Follows(L, P)
  BY PurgeInquirySound
<1>3. P.head = L.head /\ P.fault = L.fault
  BY PurgeInquiryEffect DEF Settled
<1>4. /\ DOMAIN P.swaps = DOMAIN L.swaps
      /\ \A s \in DOMAIN L.swaps :
           /\ P.swaps[s].maker = L.swaps[s].maker
           /\ P.swaps[s].trade = L.swaps[s].trade
           /\ P.swaps[s].ack = L.swaps[s].ack /\ MainOf(P, s) = MainOf(L, s)
           /\ P.swaps[s].status = IF s \in Asking(L, a, h) THEN "INQUIRY_NACK"
                                  ELSE L.swaps[s].status
  BY PurgeInquirySwaps
<1> HIDE DEF P
<1>5. Refunded(P, M, a, h, Taking(P, a, h))
  BY <1>1, <1>2, PurgeTakeEffect
<1> HIDE DEF M
<1>6. Sound(M) /\ Follows(P, M)
  BY <1>2, <1>5, PurgeTakeSound
<1>7. /\ DOMAIN M.swaps = DOMAIN P.swaps
      /\ \A s \in DOMAIN P.swaps :
           /\ M.swaps[s].maker = P.swaps[s].maker
           /\ M.swaps[s].trade = P.swaps[s].trade
           /\ M.swaps[s].ack = P.swaps[s].ack /\ MainOf(M, s) = MainOf(P, s)
           /\ M.swaps[s].status = IF s \in Taking(P, a, h) THEN "TAKE_NACK"
                                  ELSE P.swaps[s].status
  BY <1>2, <1>5, PurgeTakeSwaps
<1>8. M.head = L.head /\ L.fault # TRUE
  BY <1>3, <1>5 DEF Refunded, Settled
<1>9. Follows(L, M)
  BY <1>2, <1>6 DEF Follows
<1>10. Appended(L, M, a, h)
  <2>1. ASSUME NEW s \in DOMAIN L.swaps
        PROVE  M.swaps[s].status = IF s \in Asking(L, a, h) THEN "INQUIRY_NACK"
                                   ELSE IF s \in Taking(L, a, h) THEN "TAKE_NACK"
                                   ELSE L.swaps[s].status
    <3>1. /\ s \in Asking(L, a, h) => L.swaps[s].status = "INQUIRY"
          /\ s \in Taking(L, a, h) <=> /\ L.swaps[s].status = "TAKE"
                                       /\ L.swaps[s].maker = a /\ L.swaps[s].trade = h
          /\ s \in Taking(P, a, h) <=> /\ P.swaps[s].status = "TAKE"
                                       /\ P.swaps[s].maker = a /\ P.swaps[s].trade = h
      BY <1>2, <1>4, AwaitedBy
    <3> QED
      BY <1>4, <1>7, <3>1
  <2>2. DOMAIN M.swaps = DOMAIN L.swaps
    BY <1>4, <1>7
  <2>3. ASSUME NEW s \in DOMAIN L.swaps
        PROVE  /\ M.swaps[s].maker = L.swaps[s].maker
               /\ M.swaps[s].trade = L.swaps[s].trade
               /\ M.swaps[s].ack = L.swaps[s].ack /\ MainOf(M, s) = MainOf(L, s)
    BY <1>4, <1>7
  <2> QED
    BY <2>1, <2>2, <2>3 DEF Appended
<1> QED
  BY <1>1, <1>6, <1>8, <1>9, <1>10

\* Once a block is appended and has settled what waited for it, all swaps that
\* are still open wait for later blocks.
LEMMA AppendInTime ==
  ASSUME NEW L, Sound(L), NEW hd \in [Accounts -> Int], InTime(L, hd),
         NEW a \in Accounts, NEW M, Appended(L, M, a, hd[a] + 1)
  PROVE  InTime(M, [hd EXCEPT ![a] = hd[a] + 1])
<1> DEFINE h == hd[a] + 1
           new == [hd EXCEPT ![a] = h]
<1>1. ASSUME NEW s \in DOMAIN M.swaps
      PROVE  /\ M.swaps[s].status = "INQUIRY" => new[MainOf(M, s)] < M.swaps[s].ack
             /\ M.swaps[s].status = "TAKE" => new[M.swaps[s].maker] < M.swaps[s].trade
  <2>1. /\ s \in DOMAIN L.swaps
        /\ M.swaps[s].maker = L.swaps[s].maker /\ M.swaps[s].trade = L.swaps[s].trade
        /\ M.swaps[s].ack = L.swaps[s].ack /\ MainOf(M, s) = MainOf(L, s)
        /\ M.swaps[s].status = IF s \in Asking(L, a, h) THEN "INQUIRY_NACK"
                               ELSE IF s \in Taking(L, a, h) THEN "TAKE_NACK"
                               ELSE L.swaps[s].status
    BY DEF Appended
  <2>2. /\ s \in Asking(L, a, h) <=> /\ L.swaps[s].status = "INQUIRY"
                                     /\ MainOf(L, s) = a /\ L.swaps[s].ack = h
        /\ s \in Taking(L, a, h) <=> /\ L.swaps[s].status = "TAKE"
                                     /\ L.swaps[s].maker = a /\ L.swaps[s].trade = h
    BY <2>1, AwaitedBy
  <2>3. /\ L.swaps[s] \in SwapInfos
        /\ <<L.swaps[s].maker, L.swaps[s].order>> \in DOMAIN L.orders
        /\ L.swaps[s].status \in Answered => L.swaps[s].trade \in Int
    BY <2>1 DEF Sound, SwapsSound
  <2>4. L.swaps[s].maker \in Accounts /\ L.swaps[s].ack \in Int
    BY <2>3 DEF SwapInfos
  <2>5. MainOf(L, s) \in Accounts
    BY <2>3 DEF MainOf, OrderOf, Sound, OrdersSound
  <2>6. CASE M.swaps[s].status = "INQUIRY"
    <3>1. L.swaps[s].status = "INQUIRY" /\ s \notin Asking(L, a, h)
      BY <2>1, <2>6
    <3>2. hd[MainOf(L, s)] < L.swaps[s].ack
      BY <2>1, <3>1 DEF InTime, AsksInTime
    <3> QED
      BY <2>1, <2>2, <2>4, <2>5, <2>6, <3>1, <3>2
  <2>7. CASE M.swaps[s].status = "TAKE"
    <3>1. L.swaps[s].status = "TAKE" /\ s \notin Taking(L, a, h)
      BY <2>1, <2>7
    <3>2. hd[L.swaps[s].maker] < L.swaps[s].trade /\ L.swaps[s].trade \in Int
      BY <2>1, <2>3, <3>1 DEF InTime, TakesInTime, Answered
    <3> QED
      BY <2>1, <2>2, <2>4, <2>7, <3>1, <3>2
  <2> QED
    BY <2>6, <2>7
<1> QED
  BY <1>1 DEF InTime, AsksInTime, TakesInTime

-----------------------------------------------------------------------------
(* The machine.                                                            *)

\* The heights, and the heads in the tables, follow one another.
HeightsSound ==
  /\ head \in [Accounts -> Int] /\ confirmed \in [Accounts -> Int]
  /\ \A b \in Accounts :
       /\ Genesis.head[b] <= confirmed[b] /\ confirmed[b] <= head[b]
       /\ head[b] <= MaxHeight[b]
       /\ tokens.head[b] \in Int => tokens.head[b] <= confirmed[b]

\* The inductive invariant of the machine.
SwapInv ==
  /\ Sound(tokens) /\ tokens.fault # TRUE
  /\ InTime(tokens, head)
  /\ DOMAIN tokens.swaps \subseteq Swaps
  /\ HeightsSound

\* Swap s was answered in L; it is the same in L and M as far as SwapLife sees.
AnsweredIn(L, s) == s \in DOMAIN L.swaps /\ L.swaps[s].status \in Answered
SameDeal(L, M, s) ==
  M.swaps[s].maker = L.swaps[s].maker /\ M.swaps[s].trade = L.swaps[s].trade
Alike(L, M, s) ==
  /\ AnsweredIn(M, s) <=> AnsweredIn(L, s)
  /\ AnsweredIn(L, s) =>
       M.swaps[s].status = L.swaps[s].status /\ SameDeal(L, M, s)

\* The four things block H(a) can do to the swaps as SwapLife sees them.
LifeIdle(M) == \A u \in Swaps : Alike(tokens, M, u)

LifeAnswer(M, a, s) ==
  /\ s \in DOMAIN tokens.swaps /\ tokens.swaps[s].status = "INQUIRY"
  /\ s[1] # a /\ s[1] # M.swaps[s].maker /\ M.swaps[s].maker \in Accounts
  /\ s \in DOMAIN M.swaps /\ M.swaps[s].status = "INQUIRY_ACK"
  /\ M.swaps[s].trade \in 1 .. confirmed[M.swaps[s].maker] + 1
  /\ \A u \in Swaps \ {s} : Alike(tokens, M, u)

LifeTake(M, a, s) ==
  /\ s \in DOMAIN tokens.swaps /\ tokens.swaps[s].status = "INQUIRY_ACK"
  /\ s[1] = a /\ s \in DOMAIN M.swaps /\ SameDeal(tokens, M, s)
  /\ \/ /\ M.swaps[s].status = "TAKE"
        /\ ~(head[M.swaps[s].maker] >= M.swaps[s].trade)
     \/ /\ M.swaps[s].status = "TAKE_NACK"
        /\ head[M.swaps[s].maker] >= M.swaps[s].trade
        /\ confirmed[M.swaps[s].maker] >= M.swaps[s].trade
  /\ \A u \in Swaps \ {s} : Alike(tokens, M, u)

LifeTrade(M, a, s) ==
  /\ s \in DOMAIN tokens.swaps /\ tokens.swaps[s].status = "TAKE"
  /\ tokens.swaps[s].maker = a /\ tokens.swaps[s].trade = H(a)
  /\ s \in DOMAIN M.swaps /\ M.swaps[s].status = "TAKE_ACK"
  /\ SameDeal(tokens, M, s)
  /\ \A u \in Swaps \ {s} : Alike(tokens, M, u)

Lives(M, a) ==
  \/ LifeIdle(M)
  \/ \E s \in Swaps : LifeAnswer(M, a, s) \/ LifeTake(M, a, s) \/ LifeTrade(M, a, s)

\* M is a good result of the operation of block H(a), before AfterBlockAppend.
Fit(a, M) ==
  M.fault # TRUE =>
    /\ Sound(M) /\ InTime(M, head)
    /\ M.head \in {tokens.head, [tokens.head EXCEPT ![a] = H(a)]}
    /\ DOMAIN M.swaps \subseteq Swaps
    /\ Lives(M, a)

\* The next block of an account was never booked, so that Process does it.
LEMMA NextIsFresh ==
  ASSUME SwapInv, NEW a \in Accounts
  PROVE  /\ H(a) \in Int /\ Fresh(tokens, a, H(a))
         /\ \A M : Process(a, M) = M
<1>1. /\ head[a] \in Int /\ confirmed[a] \in Int /\ confirmed[a] <= head[a]
      /\ tokens.head[a] \in Int => tokens.head[a] <= confirmed[a]
  BY DEF SwapInv, HeightsSound
<1>2. tokens.head[a] \in Int \cup {NoInfo}
  BY DEF SwapInv, Sound, HeadsSound
<1>3. H(a) \in Int /\ (tokens.head[a] # NoInfo => tokens.head[a] < H(a))
  BY <1>1, <1>2 DEF H
<1>4. Fresh(tokens, a, H(a))
  BY <1>1, <1>2, <1>3 DEF Fresh
<1>5. ~(tokens.head[a] # NoInfo /\ tokens.head[a] >= H(a))
  BY <1>1, <1>2, <1>3
<1> QED
  BY <1>3, <1>4, <1>5 DEF Process

\* Swaps that stay as they are are in time and alike.
LEMMA SameSwapsFit ==
  ASSUME SwapInv, NEW M, Sound(M), M.swaps = tokens.swaps,
         \A s \in DOMAIN tokens.swaps : MainOf(M, s) = MainOf(tokens, s)
  PROVE  InTime(M, head) /\ DOMAIN M.swaps \subseteq Swaps /\ LifeIdle(M)
<1>1. InTime(M, head)
  BY DEF SwapInv, InTime, AsksInTime, TakesInTime
<1>2. LifeIdle(M)
  BY DEF LifeIdle, Alike, AnsweredIn, SameDeal
<1> QED
  BY <1>1, <1>2 DEF SwapInv

\* A block that leaves the swaps alone fits.
LEMMA QuietFit ==
  ASSUME SwapInv, NEW a \in Accounts, NEW M, Quiet(tokens, M, a, H(a))
  PROVE  Fit(a, M)
<1>1. H(a) \in Int
  BY NextIsFresh
<1>2. Follows(tokens, M) /\ Sound(tokens)
  BY <1>1, CarriedFollows DEF Quiet, SwapInv
<1>3. Sound(M) /\ \A s \in DOMAIN tokens.swaps : MainOf(M, s) = MainOf(tokens, s)
  BY <1>2, SoundSame DEF Quiet
<1>4. InTime(M, head) /\ DOMAIN M.swaps \subseteq Swaps /\ LifeIdle(M)
  BY <1>3, SameSwapsFit DEF Quiet
<1>5. M.head = [tokens.head EXCEPT ![a] = H(a)]
  BY DEF Quiet, Carried
<1> QED
  BY <1>3, <1>4, <1>5 DEF Fit, Lives

\* A block that is only booked fits.
LEMMA BookedFit ==
  ASSUME SwapInv, NEW a \in Accounts, NEW M, Booked(tokens, M, a, H(a))
  PROVE  Fit(a, M)
<1>1. CASE M.fault # TRUE
  BY <1>1, BookedQuiet, QuietFit DEF SwapInv
<1>2. CASE ~(M.fault # TRUE)
  BY <1>2 DEF Fit
<1> QED
  BY <1>1, <1>2

\* The swaps of one account's next block are among those of the instance.
LEMMA NextSwap ==
  ASSUME SwapInv, NEW a \in Accounts, "INQUIRY" \in Ops[a], head[a] < MaxHeight[a]
  PROVE  <<a, H(a)>> \in Swaps
<1>1. /\ head[a] \in Int /\ confirmed[a] \in Int /\ confirmed[a] <= head[a]
      /\ Genesis.head[a] <= confirmed[a]
  BY DEF SwapInv, HeightsSound
<1>2. Genesis.head[a] \in Int /\ Genesis.head[a] >= -1 /\ MaxHeight[a] \in Nat
  BY GenesisAssumption, TokenMachineAssumption
<1>3. H(a) \in Genesis.head[a] + 1 .. MaxHeight[a] /\ H(a) \in 0 .. MaxHeight[a]
  BY <1>1, <1>2 DEF H
<1>4. H(a) \in Heights
  BY <1>3 DEF Heights
<1> QED
  BY <1>3, <1>4 DEF Swaps

\* An inquiry is open only while its answer may still come.
LEMMA InquiryFit ==
  ASSUME SwapInv, NEW a \in Accounts, NEW maker, NEW order, NEW ack \in Int,
         NEW v \in Values, "INQUIRY" \in Ops[a], head[a] < MaxHeight[a],
         NEW acked \in BOOLEAN,
         <<maker, order>> \in DOMAIN tokens.orders /\ maker # a =>
           (acked <=> There(tokens.orders[<<maker, order>>].main, ack))
  PROVE  Fit(a, ProcessSwapInquiry(tokens, a, H(a), maker, order, ack, v, acked))
<1> DEFINE M == ProcessSwapInquiry(tokens, a, H(a), maker, order, ack, v, acked)
           main == tokens.orders[<<maker, order>>].main
           x == <<a, H(a)>>
<1>1. H(a) \in Int /\ Fresh(tokens, a, H(a)) /\ Sound(tokens) /\ x \in Swaps
  BY NextIsFresh, NextSwap DEF SwapInv
<1>2. \/ Booked(tokens, M, a, H(a))
      \/ \E K : /\ Asked(tokens, K, a, H(a), maker, order, ack, v)
                /\ K.fault = tokens.fault
                /\ M = IF acked THEN PurgeInquiryWaiting(K, main, ack) ELSE K
  BY <1>1, InquiryEffect
<1> SUFFICES Fit(a, M)
  OBVIOUS
<1> HIDE DEF M
<1>3. CASE Booked(tokens, M, a, H(a))
  BY <1>3, BookedFit
<1>4. ASSUME NEW K, Asked(tokens, K, a, H(a), maker, order, ack, v),
             M = IF acked THEN PurgeInquiryWaiting(K, main, ack) ELSE K
      PROVE  Fit(a, M)
  <2>1. /\ Sound(K) /\ Follows(tokens, K)
        /\ DOMAIN K.swaps = DOMAIN tokens.swaps \cup {x}
        /\ x \notin DOMAIN tokens.swaps
        /\ K.swaps[x].status = "INQUIRY" /\ K.swaps[x].ack = ack
        /\ MainOf(K, x) = main
        /\ \A s \in DOMAIN tokens.swaps :
             K.swaps[s] = tokens.swaps[s] /\ MainOf(K, s) = MainOf(tokens, s)
    BY <1>1, <1>4, AskedSound
  <2>2. /\ K.head = [tokens.head EXCEPT ![a] = H(a)]
        /\ <<maker, order>> \in DOMAIN tokens.orders /\ maker # a
    BY <1>4 DEF Asked, Resting
  <2>3. main \in Accounts /\ head[main] \in Int
    BY <2>2 DEF SwapInv, Sound, OrdersSound, HeightsSound
  <2>4. InTime(tokens, head) /\ DOMAIN tokens.swaps \subseteq Swaps
    BY DEF SwapInv
  <2> HIDE DEF main, x
  <2>5. \A u \in Swaps : Alike(tokens, K, u)
    BY <2>1 DEF Alike, AnsweredIn, SameDeal, Answered
  <2>6. CASE ~acked
    <3>1. M = K /\ head[main] < ack
      BY <1>4, <2>2, <2>3, <2>6 DEF There, main
    <3>2. InTime(K, head)
      BY <2>1, <2>4, <3>1 DEF InTime, AsksInTime, TakesInTime
    <3> QED
      BY <1>1, <2>1, <2>2, <2>4, <2>5, <3>1, <3>2 DEF Fit, Lives, LifeIdle
  <2>7. CASE acked
    <3>1. M = PurgeInquiryWaiting(K, main, ack)
      BY <1>4, <2>7
    <3>2. Sound(M) /\ Follows(K, M)
      BY <2>1, <2>3, <3>1, PurgeInquirySound
    <3>3. M.head = K.head
      BY <2>1, <2>3, <3>1, PurgeInquiryEffect DEF Settled
    <3>4. /\ DOMAIN M.swaps = DOMAIN K.swaps
          /\ \A s \in DOMAIN K.swaps :
               /\ M.swaps[s].maker = K.swaps[s].maker
               /\ M.swaps[s].trade = K.swaps[s].trade
               /\ M.swaps[s].ack = K.swaps[s].ack /\ MainOf(M, s) = MainOf(K, s)
               /\ M.swaps[s].status = IF s \in Asking(K, main, ack)
                                        THEN "INQUIRY_NACK" ELSE K.swaps[s].status
      BY <2>1, <2>3, <3>1, PurgeInquirySwaps
    <3>5. x \in Asking(K, main, ack)
      BY <2>1, AwaitedBy
    <3>6. \A s \in DOMAIN K.swaps :
             s \in Asking(K, main, ack) => K.swaps[s].status = "INQUIRY"
      BY <2>1, AwaitedBy
    <3>7. InTime(M, head)
      BY <2>1, <2>4, <3>4, <3>5 DEF InTime, AsksInTime, TakesInTime
    <3>8. \A u \in Swaps : Alike(K, M, u)
      BY <3>4, <3>6 DEF Alike, AnsweredIn, SameDeal, Answered
    <3>9. LifeIdle(M)
      BY <2>5, <3>8 DEF LifeIdle, Alike, SameDeal
    <3> QED
      BY <1>1, <2>1, <2>2, <2>4, <3>2, <3>3, <3>4, <3>7, <3>9 DEF Fit, Lives
  <2> QED
    BY <2>6, <2>7
<1> QED
  BY <1>2, <1>3, <1>4

\* An answer names a block the maker may still have next.
LEMMA AckFit ==
  ASSUME SwapInv, NEW a \in Accounts, NEW taker \in Accounts, NEW i \in Int,
         NEW trade \in Int, NEW late \in BOOLEAN,
         taker # a /\ <<a, H(a), taker, i>> \in tokens.inquiries =>
           WaitBlock(tokens.swaps[<<taker, i>>].maker, trade - 1)
  PROVE  Fit(a, ProcessSwapInquiryAck(tokens, a, H(a), taker, i, trade, late))
<1> DEFINE M == ProcessSwapInquiryAck(tokens, a, H(a), taker, i, trade, late)
           s == <<taker, i>>
<1>1. H(a) \in Int /\ Sound(tokens)
  BY NextIsFresh DEF SwapInv
<1>2. M.fault # TRUE => Booked(tokens, M, a, H(a))
                        \/ Acked(tokens, M, a, H(a), s, trade)
  BY <1>1, AckEffect
<1>3. s[1] = taker /\ s[2] = i
  OBVIOUS
<1> SUFFICES Fit(a, M)
  OBVIOUS
<1> HIDE DEF M, s
<1>4. CASE M.fault = TRUE
  BY <1>4 DEF Fit
<1>5. CASE Booked(tokens, M, a, H(a))
  BY <1>5, BookedFit
<1>6. CASE Acked(tokens, M, a, H(a), s, trade)
  <2>1. /\ Sound(M) /\ Follows(tokens, M)
        /\ DOMAIN M.swaps = DOMAIN tokens.swaps
        /\ M.swaps[s].status = "INQUIRY_ACK" /\ M.swaps[s].trade = trade
        /\ M.swaps[s].maker = tokens.swaps[s].maker
        /\ \A u \in DOMAIN tokens.swaps : MainOf(M, u) = MainOf(tokens, u)
        /\ \A u \in DOMAIN tokens.swaps \ {s} : M.swaps[u] = tokens.swaps[u]
    BY <1>1, <1>6, AckedSound
  <2>2. /\ s \in DOMAIN tokens.swaps /\ s[1] # a
        /\ tokens.swaps[s].status = "INQUIRY"
        /\ <<a, H(a), s[1], s[2]>> \in tokens.inquiries
        /\ M.head = [tokens.head EXCEPT ![a] = H(a)]
    BY <1>6 DEF Acked, Resting
  <2>3. /\ tokens.swaps[s].maker \in Accounts /\ tokens.swaps[s].maker # s[1]
    BY <2>2 DEF SwapInv, Sound, SwapsSound, SwapInfos
  <2>4. confirmed[tokens.swaps[s].maker] \in Int
    BY <2>3 DEF SwapInv, HeightsSound
  <2>5. trade - 1 \in 0 .. confirmed[tokens.swaps[s].maker]
    BY <1>3, <2>2 DEF WaitBlock, s
  <2>6. trade \in 1 .. confirmed[tokens.swaps[s].maker] + 1
    BY <2>4, <2>5
  <2>7. InTime(tokens, head) /\ DOMAIN tokens.swaps \subseteq Swaps
    BY DEF SwapInv
  <2>8. InTime(M, head)
    BY <2>1, <2>7 DEF InTime, AsksInTime, TakesInTime
  <2>9. \A u \in Swaps \ {s} : Alike(tokens, M, u)
    BY <2>1 DEF Alike, AnsweredIn, SameDeal
  <2>10. LifeAnswer(M, a, s) /\ s \in Swaps
    BY <2>1, <2>2, <2>3, <2>6, <2>7, <2>9 DEF LifeAnswer
  <2> QED
    BY <2>1, <2>2, <2>7, <2>8, <2>10 DEF Fit, Lives
<1> QED
  BY <1>2, <1>4, <1>5, <1>6

\* A take is open only while the maker has not passed the height of the trade;
\* one that comes later is refunded, and nothing else is.
LEMMA TakeFit ==
  ASSUME SwapInv, NEW a \in Accounts, NEW i \in Int, NEW traded \in BOOLEAN,
         i < H(a) /\ SwapKnown(tokens, <<a, i>>) =>
           /\ tokens.swaps[<<a, i>>].status = "INQUIRY_ACK" =>
                WaitBlockIfExist(tokens.swaps[<<a, i>>].maker,
                                 tokens.swaps[<<a, i>>].trade)
           /\ traded <=> /\ tokens.swaps[<<a, i>>].trade # NoInfo
                         /\ There(tokens.swaps[<<a, i>>].maker,
                                  tokens.swaps[<<a, i>>].trade)
  PROVE  Fit(a, ProcessSwapTake(tokens, a, H(a), i, traded))
<1> DEFINE M == ProcessSwapTake(tokens, a, H(a), i, traded)
           s == <<a, i>>
           maker == tokens.swaps[s].maker
           trade == tokens.swaps[s].trade
<1>1. H(a) \in Int /\ Fresh(tokens, a, H(a)) /\ Sound(tokens)
  BY NextIsFresh DEF SwapInv
<1>2. \/ Booked(tokens, M, a, H(a))
      \/ \E K : /\ Took(tokens, K, a, H(a), s)
                /\ K.fault # TRUE => tokens.fault # TRUE
                /\ i < H(a) /\ SwapKnown(tokens, s)
                /\ M = IF traded THEN PurgeTakeWaiting(K, maker, trade) ELSE K
  BY <1>1, TakeEffect, ZenonT(60)
<1> SUFFICES Fit(a, M)
  OBVIOUS
<1> HIDE DEF M
<1>3. CASE Booked(tokens, M, a, H(a))
  BY <1>3, BookedFit
<1>4. ASSUME NEW K, Took(tokens, K, a, H(a), s),
             i < H(a), SwapKnown(tokens, s),
             M = IF traded THEN PurgeTakeWaiting(K, maker, trade) ELSE K
      PROVE  Fit(a, M)
  <2>0. /\ tokens.swaps[s].status = "INQUIRY_ACK" => WaitBlockIfExist(maker, trade)
        /\ traded <=> trade # NoInfo /\ There(maker, trade)
    BY <1>4
  <2> HIDE DEF s
  <2>1. /\ Sound(K) /\ Follows(tokens, K)
        /\ DOMAIN K.swaps = DOMAIN tokens.swaps
        /\ K.swaps[s].status = "TAKE" /\ K.swaps[s].trade = trade
        /\ K.swaps[s].maker = maker
        /\ \A u \in DOMAIN tokens.swaps : MainOf(K, u) = MainOf(tokens, u)
        /\ \A u \in DOMAIN tokens.swaps \ {s} : K.swaps[u] = tokens.swaps[u]
    BY <1>1, <1>4, TookSound
  <2>2. /\ s \in DOMAIN tokens.swaps /\ s[1] = a
        /\ tokens.swaps[s].status = "INQUIRY_ACK"
        /\ K.head = [tokens.head EXCEPT ![a] = H(a)]
    BY <1>4 DEF Took, Resting
  <2>3. maker \in Accounts /\ trade \in Int
    BY <2>2 DEF SwapInv, Sound, SwapsSound, SwapInfos, Answered
  <2>4. head[maker] \in Int /\ confirmed[maker] \in Int
    BY <2>3 DEF SwapInv, HeightsSound
  <2>5. InTime(tokens, head) /\ DOMAIN tokens.swaps \subseteq Swaps
    BY DEF SwapInv
  <2>6. \A u \in Swaps \ {s} : Alike(tokens, K, u)
    BY <2>1 DEF Alike, AnsweredIn, SameDeal
  <2>7. traded <=> head[maker] >= trade
    BY <2>0, <2>3, GenesisAssumption DEF There
  <2> HIDE DEF maker, trade
  <2>8. CASE ~traded
    <3>1. M = K /\ ~(head[maker] >= trade) /\ head[maker] < trade
      BY <1>4, <2>3, <2>4, <2>7, <2>8
    <3>2. InTime(K, head)
      BY <2>1, <2>5, <3>1 DEF InTime, AsksInTime, TakesInTime
    <3>3. LifeTake(K, a, s) /\ s \in Swaps
      BY <2>1, <2>2, <2>5, <2>6, <3>1 DEF LifeTake, SameDeal, maker, trade
    <3> QED
      BY <2>1, <2>2, <2>5, <3>1, <3>2, <3>3 DEF Fit, Lives
  <2>9. CASE traded
    <3>1. M = PurgeTakeWaiting(K, maker, trade) /\ head[maker] >= trade
      BY <1>4, <2>7, <2>9
    <3>2. confirmed[maker] >= trade
      BY <2>0, <2>2, <2>3, <2>4, <3>1 DEF WaitBlockIfExist, There, WaitBlock
    <3>3. SUFFICES ASSUME M.fault # TRUE PROVE Fit(a, M)
      BY DEF Fit
    <3>4. Refunded(K, M, maker, trade, Taking(K, maker, trade))
      BY <2>1, <2>3, <3>1, <3>3, PurgeTakeEffect
    <3>5. Sound(M) /\ Follows(K, M) /\ M.head = K.head
      BY <2>1, <2>3, <3>4, PurgeTakeSound DEF Refunded, Settled
    <3>6. /\ DOMAIN M.swaps = DOMAIN K.swaps
          /\ \A u \in DOMAIN K.swaps :
               /\ M.swaps[u].maker = K.swaps[u].maker
               /\ M.swaps[u].trade = K.swaps[u].trade
               /\ M.swaps[u].ack = K.swaps[u].ack /\ MainOf(M, u) = MainOf(K, u)
               /\ M.swaps[u].status = IF u \in Taking(K, maker, trade)
                                        THEN "TAKE_NACK" ELSE K.swaps[u].status
      BY <2>1, <2>3, <3>4, PurgeTakeSwaps
    <3>7. ASSUME NEW u \in DOMAIN K.swaps
          PROVE  u \in Taking(K, maker, trade) <=> u = s
      <4>1. u \in Taking(K, maker, trade) <=> /\ K.swaps[u].status = "TAKE"
                                              /\ K.swaps[u].maker = maker
                                              /\ K.swaps[u].trade = trade
        BY <2>1, AwaitedBy
      <4>2. u # s => ~(/\ tokens.swaps[u].status = "TAKE"
                       /\ tokens.swaps[u].maker = maker
                       /\ tokens.swaps[u].trade = trade)
        BY <2>1, <2>3, <2>4, <2>5, <3>1 DEF InTime, TakesInTime
      <4> QED
        BY <2>1, <4>1, <4>2
    <3>8. InTime(M, head)
      BY <2>1, <2>5, <3>6, <3>7 DEF InTime, AsksInTime, TakesInTime
    <3>9. \A u \in Swaps \ {s} : Alike(tokens, M, u)
      BY <2>1, <2>6, <3>6, <3>7 DEF Alike, AnsweredIn, SameDeal
    <3>10. LifeTake(M, a, s) /\ s \in Swaps
      <4>1. /\ s \in DOMAIN M.swaps /\ M.swaps[s].status = "TAKE_NACK"
            /\ M.swaps[s].maker = maker /\ M.swaps[s].trade = trade
        BY <2>1, <2>2, <3>6, <3>7
      <4>2. SameDeal(tokens, M, s)
        BY <4>1 DEF SameDeal, maker, trade
      <4> QED
        BY <2>2, <2>5, <3>1, <3>2, <3>9, <4>1, <4>2 DEF LifeTake
    <3> QED
      BY <2>1, <2>2, <2>5, <3>5, <3>6, <3>8, <3>10 DEF Fit, Lives
  <2> QED
    BY <2>8, <2>9
<1> QED
  BY <1>2, <1>3, <1>4

\* A trade pays the one swap it names.
LEMMA TakeAckFit ==
  ASSUME SwapInv, NEW a \in Accounts, NEW taker \in Accounts, NEW i \in Int,
         NEW take, NEW ack
  PROVE  Fit(a, ProcessSwapTakeAck(tokens, a, H(a), taker, i, take, ack))
<1> DEFINE M == ProcessSwapTakeAck(tokens, a, H(a), taker, i, take, ack)
           s == <<taker, i>>
<1>1. H(a) \in Int /\ Sound(tokens)
  BY NextIsFresh DEF SwapInv
<1>2. M.fault # TRUE => Booked(tokens, M, a, H(a)) \/ Traded(tokens, M, a, H(a), s)
  BY <1>1, TakeAckEffect
<1> SUFFICES Fit(a, M)
  OBVIOUS
<1> HIDE DEF M, s
<1>3. CASE M.fault = TRUE
  BY <1>3 DEF Fit
<1>4. CASE Booked(tokens, M, a, H(a))
  BY <1>4, BookedFit
<1>5. CASE Traded(tokens, M, a, H(a), s)
  <2>1. /\ Sound(M) /\ Follows(tokens, M)
        /\ DOMAIN M.swaps = DOMAIN tokens.swaps
        /\ M.swaps[s].status = "TAKE_ACK"
        /\ M.swaps[s].trade = tokens.swaps[s].trade
        /\ M.swaps[s].maker = tokens.swaps[s].maker
        /\ \A u \in DOMAIN tokens.swaps : MainOf(M, u) = MainOf(tokens, u)
        /\ \A u \in DOMAIN tokens.swaps \ {s} : M.swaps[u] = tokens.swaps[u]
    BY <1>1, <1>5, TradedSound
  <2>2. /\ s \in DOMAIN tokens.swaps /\ tokens.swaps[s].status = "TAKE"
        /\ tokens.swaps[s].maker = a /\ tokens.swaps[s].trade = H(a)
        /\ M.head = [tokens.head EXCEPT ![a] = H(a)]
    BY <1>5 DEF Traded, Carried
  <2>3. InTime(tokens, head) /\ DOMAIN tokens.swaps \subseteq Swaps
    BY DEF SwapInv
  <2>4. InTime(M, head)
    BY <2>1, <2>3 DEF InTime, AsksInTime, TakesInTime
  <2>5. \A u \in Swaps \ {s} : Alike(tokens, M, u)
    BY <2>1 DEF Alike, AnsweredIn, SameDeal
  <2>6. LifeTrade(M, a, s) /\ s \in Swaps
    BY <2>1, <2>2, <2>3, <2>5 DEF LifeTrade, SameDeal
  <2> QED
    BY <2>1, <2>2, <2>3, <2>4, <2>6 DEF Fit, Lives
<1> QED
  BY <1>2, <1>3, <1>4, <1>5

\* Block H(a), whose operation led to tables M, was appended.
AppendDone(a, M) ==
  /\ head[a] < MaxHeight[a] /\ M.fault # TRUE
  /\ Sound(tokens') /\ tokens'.fault # TRUE /\ tokens'.head = M.head
  /\ Appended(M, tokens', a, H(a))
  /\ head' = [head EXCEPT ![a] = H(a)]
  /\ confirmed' = [confirmed EXCEPT ![a] = H(a)]

\* A confirmed block is appended and settles what waits for it, or the
\* application stops and nothing changes.
LEMMA AppendOutcome ==
  ASSUME SwapInv, NEW a \in Accounts, NEW M, Fit(a, M), AppendConfirmed(a, M)
  PROVE  AppendDone(a, M) \/ UNCHANGED <<tokens, head, confirmed>>
<1> DEFINE N == IF M.fault THEN M ELSE AfterBlockAppend(M, a, H(a))
<1>1. /\ head[a] < MaxHeight[a]
      /\ \/ UNCHANGED <<tokens, head, confirmed>>
         \/ /\ ~N.fault /\ tokens' = N
            /\ head' = [head EXCEPT ![a] = H(a)]
            /\ confirmed' = [confirmed EXCEPT ![a] = H(a)]
  BY DEF AppendConfirmed
<1>2. ASSUME ~N.fault, tokens' = N,
             head' = [head EXCEPT ![a] = H(a)],
             confirmed' = [confirmed EXCEPT ![a] = H(a)]
      PROVE  AppendDone(a, M)
  <2>1. M.fault # TRUE /\ N = AfterBlockAppend(M, a, H(a)) /\ N.fault # TRUE
    BY <1>2
  <2> HIDE DEF N
  <2>2. Sound(M) /\ H(a) \in Int
    BY <2>1, NextIsFresh DEF Fit
  <2>3. Sound(N) /\ Appended(M, N, a, H(a)) /\ N.head = M.head
    BY <2>1, <2>2, AppendSettles
  <2> QED
    BY <1>1, <1>2, <2>1, <2>3 DEF AppendDone
<1> QED
  BY <1>1, <1>2

\* Appending a confirmed block keeps the invariant.
LEMMA AppendInv ==
  ASSUME SwapInv, NEW a \in Accounts, NEW M, Fit(a, M), AppendConfirmed(a, M)
  PROVE  SwapInv'
<1>1. CASE UNCHANGED <<tokens, head, confirmed>>
  BY <1>1 DEF SwapInv, HeightsSound
<1>2. CASE AppendDone(a, M)
  <2>1. /\ Sound(M) /\ InTime(M, head) /\ DOMAIN M.swaps \subseteq Swaps
        /\ M.head \in {tokens.head, [tokens.head EXCEPT ![a] = H(a)]}
    BY <1>2 DEF Fit, AppendDone
  <2>2. /\ Sound(tokens') /\ tokens'.fault # TRUE
        /\ DOMAIN tokens'.swaps \subseteq Swaps
    BY <1>2, <2>1 DEF AppendDone, Appended
  <2>3. head \in [Accounts -> Int]
    BY DEF SwapInv, HeightsSound
  <2>4. InTime(tokens', head')
    BY <1>2, <2>1, <2>3, AppendInTime DEF AppendDone, H
  <2>5. HeightsSound'
    <3>1. head[a] \in Int /\ confirmed[a] \in Int /\ H(a) = head[a] + 1
          /\ confirmed[a] <= head[a] /\ Genesis.head[a] <= confirmed[a]
      BY DEF SwapInv, HeightsSound, H
    <3>2. Genesis.head[a] \in Int /\ MaxHeight[a] \in Nat
      BY GenesisAssumption, TokenMachineAssumption
    <3>3. head' \in [Accounts -> Int] /\ confirmed' \in [Accounts -> Int]
      BY <1>2, <3>1 DEF SwapInv, HeightsSound, AppendDone
    <3>4. tokens'.head \in {tokens.head, [tokens.head EXCEPT ![a] = H(a)]}
      BY <1>2, <2>1 DEF AppendDone
    <3>5. ASSUME NEW b \in Accounts
          PROVE  /\ Genesis.head[b] <= confirmed'[b] /\ confirmed'[b] <= head'[b]
                 /\ head'[b] <= MaxHeight[b]
                 /\ tokens'.head[b] \in Int => tokens'.head[b] <= confirmed'[b]
      <4>1. CASE b = a
        <5>1. head'[b] = H(a) /\ confirmed'[b] = H(a) /\ head[a] < MaxHeight[a]
          BY <1>2, <4>1 DEF SwapInv, HeightsSound, AppendDone
        <5>2. tokens'.head[b] \in {tokens.head[a], H(a)}
          BY <3>4, <4>1 DEF SwapInv, Sound, HeadsSound
        <5>3. tokens.head[a] \in Int => tokens.head[a] <= confirmed[a]
          BY DEF SwapInv, HeightsSound
        <5> QED
          BY <3>1, <3>2, <4>1, <5>1, <5>2, <5>3
      <4>2. CASE b # a
        <5>1. head'[b] = head[b] /\ confirmed'[b] = confirmed[b]
          BY <1>2, <4>2 DEF SwapInv, HeightsSound, AppendDone
        <5>2. tokens'.head[b] = tokens.head[b]
          BY <3>4, <4>2 DEF SwapInv, Sound, HeadsSound
        <5> QED
          BY <5>1, <5>2 DEF SwapInv, HeightsSound
      <4> QED
        BY <4>1, <4>2
    <3> QED
      BY <3>3, <3>5 DEF HeightsSound
  <2> QED
    BY <2>2, <2>4, <2>5 DEF SwapInv
<1> QED
  BY <1>1, <1>2, AppendOutcome

-----------------------------------------------------------------------------
(* The machine implements SwapLife.                                        *)

\* What SwapLife sees of tables L.
LifeStatus(L) ==
  [s \in Swaps |-> IF AnsweredIn(L, s) THEN L.swaps[s].status ELSE "NONE"]
LifeDeal(L) ==
  [s \in Swaps |-> IF AnsweredIn(L, s)
                     THEN <<L.swaps[s].maker, L.swaps[s].trade>> ELSE NoInfo]

\* The refinement mapping, as a function of the tables.
LEMMA LifeViews ==
  /\ LifeStatus(tokens) =
       [s \in Swaps |-> IF Status(s) \in Answered THEN Status(s) ELSE "NONE"]
  /\ LifeDeal(tokens) =
       [s \in Swaps |-> IF Status(s) \in Answered
          THEN <<tokens.swaps[s].maker, tokens.swaps[s].trade>> ELSE NoInfo]
<1>1. \A s \in Swaps : /\ Status(s) \in Answered <=> AnsweredIn(tokens, s)
                       /\ AnsweredIn(tokens, s) => Status(s) = tokens.swaps[s].status
  BY DEF Status, Answered, AnsweredIn
<1> QED
  BY <1>1 DEF LifeStatus, LifeDeal

\* The same after a step.
LEMMA LifeViewsNext ==
  /\ LifeStatus(tokens') =
       [s \in Swaps |-> IF Status(s)' \in Answered THEN Status(s)' ELSE "NONE"]
  /\ LifeDeal(tokens') =
       [s \in Swaps |-> IF Status(s)' \in Answered
          THEN <<tokens'.swaps[s].maker, tokens'.swaps[s].trade>> ELSE NoInfo]
<1>1. \A s \in Swaps : /\ Status(s)' \in Answered <=> AnsweredIn(tokens', s)
                       /\ AnsweredIn(tokens', s) => Status(s)' = tokens'.swaps[s].status
  BY DEF Status, Answered, AnsweredIn
<1> QED
  BY <1>1 DEF LifeStatus, LifeDeal

\* The takes a block settles.
Due(a) == {s \in Swaps : /\ AnsweredIn(tokens, s) /\ tokens.swaps[s].status = "TAKE"
                         /\ tokens.swaps[s].maker = a /\ tokens.swaps[s].trade = H(a)}

\* The takes that are due are those SwapLife settles.
LEMMA LifeDue ==
  ASSUME NEW a \in Accounts
  PROVE  Life!TakesAt(a, H(a)) = Due(a)
<1>1. Life!TakesAt(a, H(a)) = {s \in Swaps : /\ LifeDeal(tokens)[s] = <<a, H(a)>>
                                             /\ LifeStatus(tokens)[s] = "TAKE"}
  BY LifeViews DEF Life!TakesAt, Life!DealsAt
<1>2. \A s \in Swaps : /\ LifeDeal(tokens)[s] = <<a, H(a)>>
                       /\ LifeStatus(tokens)[s] = "TAKE"
                       <=> s \in Due(a)
  <2>1. ASSUME NEW s \in Swaps
        PROVE  /\ LifeDeal(tokens)[s] = <<a, H(a)>>
               /\ LifeStatus(tokens)[s] = "TAKE"
               <=> s \in Due(a)
    BY DEF LifeDeal, LifeStatus, Due, AnsweredIn
  <2> QED
    BY <2>1
<1>3. Due(a) \subseteq Swaps
  BY DEF Due
<1> QED
  BY <1>1, <1>2, <1>3

\* What AfterBlockAppend does to a swap as SwapLife sees it.
LEMMA AppendedView ==
  ASSUME NEW a \in Accounts, NEW M, Sound(M), AppendDone(a, M), NEW u
  PROVE  /\ AnsweredIn(tokens', u) <=> AnsweredIn(M, u)
         /\ AnsweredIn(M, u) =>
              /\ SameDeal(M, tokens', u)
              /\ tokens'.swaps[u].status =
                   IF /\ M.swaps[u].status = "TAKE"
                      /\ M.swaps[u].maker = a /\ M.swaps[u].trade = H(a)
                     THEN "TAKE_NACK" ELSE M.swaps[u].status
<1>1. /\ DOMAIN tokens'.swaps = DOMAIN M.swaps
      /\ u \in DOMAIN M.swaps =>
           /\ tokens'.swaps[u].maker = M.swaps[u].maker
           /\ tokens'.swaps[u].trade = M.swaps[u].trade
           /\ tokens'.swaps[u].status =
                IF u \in Asking(M, a, H(a)) THEN "INQUIRY_NACK"
                ELSE IF u \in Taking(M, a, H(a)) THEN "TAKE_NACK"
                ELSE M.swaps[u].status
  BY DEF AppendDone, Appended
<1>2. u \in DOMAIN M.swaps =>
        /\ u \in Asking(M, a, H(a)) => M.swaps[u].status = "INQUIRY"
        /\ u \in Taking(M, a, H(a)) <=>
             /\ M.swaps[u].status = "TAKE"
             /\ M.swaps[u].maker = a /\ M.swaps[u].trade = H(a)
  BY AwaitedBy
<1> QED
  BY <1>1, <1>2 DEF AnsweredIn, SameDeal, Answered

\* A swap the operation left alone is settled if it is due, and else the same.
LEMMA AlikeView ==
  ASSUME NEW a \in Accounts, NEW M, Sound(M), AppendDone(a, M), NEW u \in Swaps,
         Alike(tokens, M, u)
  PROVE  /\ LifeDeal(tokens')[u] = LifeDeal(tokens)[u]
         /\ LifeStatus(tokens')[u] = IF u \in Due(a) THEN "TAKE_NACK"
                                     ELSE LifeStatus(tokens)[u]
<1>1. /\ AnsweredIn(tokens', u) <=> AnsweredIn(M, u)
      /\ AnsweredIn(M, u) =>
           /\ SameDeal(M, tokens', u)
           /\ tokens'.swaps[u].status =
                IF /\ M.swaps[u].status = "TAKE"
                   /\ M.swaps[u].maker = a /\ M.swaps[u].trade = H(a)
                  THEN "TAKE_NACK" ELSE M.swaps[u].status
  BY AppendedView
<1>2. /\ AnsweredIn(tokens', u) <=> AnsweredIn(tokens, u)
      /\ AnsweredIn(tokens, u) =>
           /\ SameDeal(tokens, tokens', u)
           /\ tokens'.swaps[u].status =
                IF u \in Due(a) THEN "TAKE_NACK" ELSE tokens.swaps[u].status
      /\ ~AnsweredIn(tokens, u) => u \notin Due(a)
  BY <1>1 DEF Alike, SameDeal, Due
<1> QED
  BY <1>2 DEF LifeDeal, LifeStatus, SameDeal

\* Every block that is appended is a block of SwapLife.
LEMMA AppendLife ==
  ASSUME SwapInv, NEW a \in Accounts, NEW M, Fit(a, M), AppendDone(a, M)
  PROVE  Life!AppendConfirmed(a)
<1> DEFINE due == Due(a)
           st == LifeStatus(tokens)
           dl == LifeDeal(tokens)
<1>1. Sound(M) /\ Lives(M, a) /\ Sound(tokens)
  BY DEF Fit, AppendDone, SwapInv
<1>2. /\ head[a] < MaxHeight[a]
      /\ head' = [head EXCEPT ![a] = head[a] + 1]
      /\ confirmed' = [confirmed EXCEPT ![a] = head[a] + 1]
  BY DEF AppendDone, H
<1>3. Life!TakesAt(a, head[a] + 1) = due
  BY LifeDue DEF H
<1>4. SUFFICES \/ Life!Plain(due)
               \/ \E s \in Swaps, maker \in Accounts :
                    /\ s[1] \notin {a, maker}
                    /\ \E t \in 1 .. confirmed[maker] + 1 :
                         Life!Answer(due, s, maker, t)
               \/ \E s \in Swaps : s[1] = a /\ Life!Take(due, s)
  BY <1>2, <1>3 DEF Life!AppendConfirmed
<1>5. CASE LifeIdle(M)
  <2>1. \A u \in Swaps : /\ LifeDeal(tokens')[u] = dl[u]
                         /\ LifeStatus(tokens')[u] =
                              IF u \in due THEN "TAKE_NACK" ELSE st[u]
    BY <1>1, <1>5, AlikeView DEF LifeIdle
  <2>2. LifeDeal(tokens') = dl
    BY <2>1 DEF LifeDeal
  <2>3. LifeStatus(tokens') =
          [s \in Swaps |-> IF s \in due THEN "TAKE_NACK" ELSE st[s]]
    BY <2>1 DEF LifeStatus
  <2>4. Life!Settle(due, {}, <<>>)
    BY <2>3, LifeViews, LifeViewsNext DEF Life!Settle
  <2>5. Life!Plain(due)
    BY <2>2, <2>4, LifeViews, LifeViewsNext DEF Life!Plain
  <2> QED
    BY <2>5
<1>6. ASSUME NEW s \in Swaps, LifeTrade(M, a, s)
      PROVE  Life!Plain(due)
  <2>1. /\ AnsweredIn(tokens, s) /\ s \in due
        /\ AnsweredIn(M, s) /\ M.swaps[s].status = "TAKE_ACK"
        /\ SameDeal(tokens, M, s) /\ \A u \in Swaps \ {s} : Alike(tokens, M, u)
    BY <1>6 DEF LifeTrade, AnsweredIn, Answered, Due
  <2>2. \A u \in Swaps \ {s} : /\ LifeDeal(tokens')[u] = dl[u]
                               /\ LifeStatus(tokens')[u] =
                                    IF u \in due THEN "TAKE_NACK" ELSE st[u]
    BY <1>1, <2>1, AlikeView
  <2>3. /\ AnsweredIn(tokens', s) /\ SameDeal(M, tokens', s)
        /\ tokens'.swaps[s].status = "TAKE_ACK"
    BY <1>1, <2>1, AppendedView
  <2>4. LifeDeal(tokens')[s] = dl[s] /\ LifeStatus(tokens')[s] = "TAKE_ACK"
    BY <2>1, <2>3 DEF LifeDeal, LifeStatus, SameDeal
  <2>5. LifeDeal(tokens') = dl
    BY <2>2, <2>4 DEF LifeDeal
  <2>6. LifeStatus(tokens') =
          [u \in Swaps |-> IF u \in due THEN (IF u \in {s} THEN "TAKE_ACK" ELSE "TAKE_NACK")
                           ELSE st[u]]
    BY <2>1, <2>2, <2>4 DEF LifeStatus
  <2>7. Life!Settle(due, {s}, <<>>)
    BY <2>6, LifeViews, LifeViewsNext DEF Life!Settle
  <2> QED
    BY <2>1, <2>5, <2>7, LifeViews, LifeViewsNext DEF Life!Plain
<1>7. ASSUME NEW s \in Swaps, LifeAnswer(M, a, s)
      PROVE  \E maker \in Accounts :
               /\ s[1] \notin {a, maker}
               /\ \E t \in 1 .. confirmed[maker] + 1 : Life!Answer(due, s, maker, t)
  <2> DEFINE maker == M.swaps[s].maker
             t == M.swaps[s].trade
  <2>1. /\ ~AnsweredIn(tokens, s) /\ s \notin due
        /\ AnsweredIn(M, s) /\ M.swaps[s].status = "INQUIRY_ACK"
        /\ \A u \in Swaps \ {s} : Alike(tokens, M, u)
        /\ s[1] \notin {a, maker} /\ maker \in Accounts
        /\ t \in 1 .. confirmed[maker] + 1
    BY <1>7 DEF LifeAnswer, AnsweredIn, Answered, Due
  <2>2. \A u \in Swaps \ {s} : /\ LifeDeal(tokens')[u] = dl[u]
                               /\ LifeStatus(tokens')[u] =
                                    IF u \in due THEN "TAKE_NACK" ELSE st[u]
    BY <1>1, <2>1, AlikeView
  <2>3. /\ AnsweredIn(tokens', s) /\ SameDeal(M, tokens', s)
        /\ tokens'.swaps[s].status = "INQUIRY_ACK"
    BY <1>1, <2>1, AppendedView
  <2>4. /\ LifeDeal(tokens')[s] = <<maker, t>>
        /\ LifeStatus(tokens')[s] = "INQUIRY_ACK" /\ st[s] = "NONE"
    BY <2>1, <2>3 DEF LifeDeal, LifeStatus, SameDeal
  <2> HIDE DEF maker, t
  <2>5. LifeDeal(tokens') = [dl EXCEPT ![s] = <<maker, t>>]
    BY <2>2, <2>4 DEF LifeDeal
  <2>6. LifeStatus(tokens') =
          [u \in Swaps |-> IF u \in due THEN (IF u \in {} THEN "TAKE_ACK" ELSE "TAKE_NACK")
                           ELSE IF u \in {s} THEN "INQUIRY_ACK" ELSE st[u]]
    BY <2>1, <2>2, <2>4 DEF LifeStatus
  <2>7. Life!Settle(due, {}, [x \in {s} |-> "INQUIRY_ACK"])
    BY <2>6, LifeViews, LifeViewsNext DEF Life!Settle
  <2>8. Life!Answer(due, s, maker, t)
    BY <2>4, <2>5, <2>7, LifeViews, LifeViewsNext DEF Life!Answer
  <2> QED
    BY <2>1, <2>8
<1>8. ASSUME NEW s \in Swaps, LifeTake(M, a, s)
      PROVE  s[1] = a /\ Life!Take(due, s)
  <2> DEFINE maker == tokens.swaps[s].maker
             t == tokens.swaps[s].trade
             late == head[maker] >= t
             new == IF late THEN "TAKE_NACK" ELSE "TAKE"
  <2>1. /\ AnsweredIn(tokens, s) /\ s \notin due
        /\ AnsweredIn(M, s) /\ M.swaps[s].status = new
        /\ tokens.swaps[s].status = "INQUIRY_ACK"
        /\ SameDeal(tokens, M, s) /\ \A u \in Swaps \ {s} : Alike(tokens, M, u)
        /\ s[1] = a /\ (late => confirmed[maker] >= t)
    BY <1>8 DEF LifeTake, AnsweredIn, Answered, Due, SameDeal
  <2>2. \A u \in Swaps \ {s} : /\ LifeDeal(tokens')[u] = dl[u]
                               /\ LifeStatus(tokens')[u] =
                                    IF u \in due THEN "TAKE_NACK" ELSE st[u]
    BY <1>1, <2>1, AlikeView
  <2>3. M.swaps[s].maker # a
    BY <1>1, <2>1 DEF Sound, SwapsSound, AnsweredIn
  <2> HIDE DEF new
  <2>4. /\ AnsweredIn(tokens', s) /\ SameDeal(M, tokens', s)
        /\ tokens'.swaps[s].status = new
    BY <1>1, <2>1, <2>3, AppendedView
  <2>5. /\ LifeDeal(tokens')[s] = dl[s] /\ dl[s] = <<maker, t>>
        /\ LifeStatus(tokens')[s] = new /\ st[s] = "INQUIRY_ACK"
    BY <2>1, <2>4 DEF LifeDeal, LifeStatus, SameDeal
  <2>6. LifeDeal(tokens') = dl
    BY <2>2, <2>5 DEF LifeDeal
  <2>7. LifeStatus(tokens') =
          [u \in Swaps |-> IF u \in due THEN (IF u \in {} THEN "TAKE_ACK" ELSE "TAKE_NACK")
                           ELSE IF u \in {s} THEN new ELSE st[u]]
    BY <2>1, <2>2, <2>5 DEF LifeStatus
  <2>8. Life!Settle(due, {}, [x \in {s} |-> new])
    BY <2>7, LifeViews, LifeViewsNext DEF Life!Settle
  <2>9. dl[s][1] = maker /\ dl[s][2] = t
    BY <2>5, SMTT(40)
  <2>10. Life!Take(due, s)
    BY <2>1, <2>5, <2>6, <2>8, <2>9, LifeViews, LifeViewsNext DEF Life!Take, new
  <2> QED
    BY <2>1, <2>10
<1> QED
  BY <1>1, <1>5, <1>6, <1>7, <1>8 DEF Lives

LifeStep == Life!LifeNext \/ UNCHANGED <<Life!lifeVars>>

\* A step that leaves swaps and heights alone is none of SwapLife.
LEMMA LifeStutters ==
  ASSUME tokens'.swaps = tokens.swaps, UNCHANGED <<head, confirmed>>
  PROVE  LifeStep
<1>1. LifeStatus(tokens') = LifeStatus(tokens) /\ LifeDeal(tokens') = LifeDeal(tokens)
  BY DEF LifeStatus, LifeDeal, AnsweredIn
<1> QED
  BY <1>1, LifeViews, LifeViewsNext DEF LifeStep, Life!lifeVars

\* Every block of an account that does what it should keeps the invariant and
\* is a step of SwapLife.
LEMMA BlockStep ==
  ASSUME SwapInv, NEW a \in Accounts, NEW M, Fit(a, M), AppendConfirmed(a, M)
  PROVE  SwapInv' /\ LifeStep
<1>1. SwapInv'
  BY AppendInv
<1>2. ASSUME AppendDone(a, M) PROVE LifeStep
  <2>1. Life!AppendConfirmed(a)
    BY <1>2, AppendLife
  <2> QED
    BY <2>1 DEF LifeStep, Life!LifeNext
<1>3. ASSUME UNCHANGED <<tokens, head, confirmed>> PROVE LifeStep
  <2>1. tokens'.swaps = tokens.swaps /\ UNCHANGED <<head, confirmed>>
    BY <1>3
  <2> QED
    BY <2>1, LifeStutters
<1> QED
  BY <1>1, <1>2, <1>3, AppendOutcome

\* The same for a block with an operation on tokens.
LEMMA TokenBlockStep ==
  ASSUME SwapInv, NEW a \in Accounts, NEW M, Fit(a, M), TokenBlock(a, M)
  PROVE  SwapInv' /\ LifeStep
BY NextIsFresh, BlockStep DEF TokenBlock

\* A block without an operation.
LEMMA PlainStep ==
  ASSUME SwapInv, NEW a \in Accounts, AppendPlain(a)
  PROVE  SwapInv' /\ LifeStep
<1>1. Sound(tokens) /\ InTime(tokens, head) /\ DOMAIN tokens.swaps \subseteq Swaps
  BY DEF SwapInv
<1>2. LifeIdle(tokens)
  BY DEF LifeIdle, Alike, SameDeal
<1>3. Fit(a, tokens)
  BY <1>1, <1>2 DEF Fit, Lives
<1> QED
  BY <1>3, BlockStep DEF AppendPlain

\* An unconfirmed block is not one that an open inquiry or take waits for.
LEMMA UnconfirmedStep ==
  ASSUME SwapInv, NEW a \in Accounts, AppendUnconfirmed(a)
  PROVE  SwapInv' /\ LifeStep
<1>1. /\ head[a] < MaxHeight[a] /\ ~Settles(a, H(a))
      /\ head' = [head EXCEPT ![a] = H(a)]
      /\ UNCHANGED <<tokens, confirmed>>
  BY DEF AppendUnconfirmed
<1>2. /\ head \in [Accounts -> Int] /\ head[a] \in Int /\ H(a) = head[a] + 1
      /\ confirmed[a] \in Int /\ MaxHeight[a] \in Nat
  BY TokenMachineAssumption DEF SwapInv, HeightsSound, H
<1>3. ASSUME NEW s \in DOMAIN tokens.swaps
      PROVE  /\ tokens.swaps[s].status = "INQUIRY" =>
                  ~(MainOf(tokens, s) = a /\ tokens.swaps[s].ack = H(a))
             /\ tokens.swaps[s].status = "TAKE" =>
                  ~(tokens.swaps[s].maker = a /\ tokens.swaps[s].trade = H(a))
  <2>1. s = <<s[1], s[2]>> /\ s[1] \in Accounts /\ s[2] \in Int /\ H(a) \in Int
    BY <1>2 DEF SwapInv, Sound, SwapsSound
  <2>2. <<a, H(a), s[1], s[2]>> \notin tokens.inquiries \cup tokens.takes
    BY <1>1 DEF Settles
  <2>3. /\ <<a, H(a), s[1], s[2]>> \in tokens.inquiries <=> Asks(tokens, a, H(a), s[1], s[2])
        /\ <<a, H(a), s[1], s[2]>> \in tokens.takes <=> Takes(tokens, a, H(a), s[1], s[2])
    BY <2>1 DEF SwapInv, Sound, AsksExact, TakesExact
  <2> QED
    BY <2>1, <2>2, <2>3 DEF Asks, Takes
<1>4. InTime(tokens', head')
  <2>1. ASSUME NEW s \in DOMAIN tokens.swaps
        PROVE  /\ tokens.swaps[s].status = "INQUIRY" =>
                    head'[MainOf(tokens, s)] < tokens.swaps[s].ack
               /\ tokens.swaps[s].status = "TAKE" =>
                    head'[tokens.swaps[s].maker] < tokens.swaps[s].trade
    <3>1. /\ tokens.swaps[s] \in SwapInfos
          /\ <<tokens.swaps[s].maker, tokens.swaps[s].order>> \in DOMAIN tokens.orders
          /\ tokens.swaps[s].status \in Answered => tokens.swaps[s].trade \in Int
      BY DEF SwapInv, Sound, SwapsSound
    <3>2. tokens.swaps[s].maker \in Accounts /\ tokens.swaps[s].ack \in Int
      BY <3>1 DEF SwapInfos
    <3>3. MainOf(tokens, s) \in Accounts
      BY <3>1 DEF MainOf, OrderOf, SwapInv, Sound, OrdersSound
    <3>4. /\ tokens.swaps[s].status = "INQUIRY" =>
               head[MainOf(tokens, s)] < tokens.swaps[s].ack
          /\ tokens.swaps[s].status = "TAKE" =>
               head[tokens.swaps[s].maker] < tokens.swaps[s].trade
      BY DEF SwapInv, InTime, AsksInTime, TakesInTime
    <3>5. tokens.swaps[s].status = "INQUIRY" =>
            head'[MainOf(tokens, s)] < tokens.swaps[s].ack
      BY <1>1, <1>2, <1>3, <3>2, <3>3, <3>4
    <3>6. tokens.swaps[s].status = "TAKE" =>
            head'[tokens.swaps[s].maker] < tokens.swaps[s].trade
      BY <1>1, <1>2, <1>3, <3>1, <3>2, <3>4 DEF Answered
    <3> QED
      BY <3>5, <3>6
  <2> QED
    BY <1>1, <2>1 DEF InTime, AsksInTime, TakesInTime
<1>5. HeightsSound'
  <2>1. head' \in [Accounts -> Int] /\ confirmed' \in [Accounts -> Int]
    BY <1>1, <1>2 DEF SwapInv, HeightsSound
  <2>2. ASSUME NEW b \in Accounts
        PROVE  /\ Genesis.head[b] <= confirmed'[b] /\ confirmed'[b] <= head'[b]
               /\ head'[b] <= MaxHeight[b]
               /\ tokens'.head[b] \in Int => tokens'.head[b] <= confirmed'[b]
    <3>1. /\ confirmed[b] <= head[b] /\ head[b] \in Int /\ confirmed[b] \in Int
          /\ Genesis.head[b] <= confirmed[b] /\ head[b] <= MaxHeight[b]
          /\ tokens.head[b] \in Int => tokens.head[b] <= confirmed[b]
      BY DEF SwapInv, HeightsSound
    <3>2. head'[b] = IF b = a THEN head[a] + 1 ELSE head[b]
      BY <1>1, <1>2
    <3> QED
      BY <1>1, <1>2, <3>1, <3>2
  <2> QED
    BY <2>1, <2>2 DEF HeightsSound
<1>6. SwapInv'
  BY <1>1, <1>4, <1>5 DEF SwapInv
<1>7. Life!Unconfirmed(a)
  <2>1. Due(a) = {}
    BY <1>3 DEF Due, AnsweredIn
  <2>2. Life!TakesAt(a, head[a] + 1) = {}
    BY <1>2, <2>1, LifeDue
  <2>3. LifeStatus(tokens') = LifeStatus(tokens) /\ LifeDeal(tokens') = LifeDeal(tokens)
    BY <1>1
  <2> QED
    BY <1>1, <1>2, <2>2, <2>3, LifeViews, LifeViewsNext DEF Life!Unconfirmed
<1> QED
  BY <1>6, <1>7 DEF LifeStep, Life!LifeNext

\* Confirming and rolling back blocks.
LEMMA ConfirmStep ==
  ASSUME SwapInv, NEW a \in Accounts, NEW h \in Heights, ConfirmBlock(a, h)
  PROVE  SwapInv' /\ LifeStep
<1>1. /\ confirmed[a] < h /\ h <= head[a]
      /\ confirmed' = [confirmed EXCEPT ![a] = h]
      /\ UNCHANGED <<tokens, head>>
  BY DEF ConfirmBlock
<1>2. h \in Nat
  BY TokenMachineAssumption DEF Heights
<1>3. head[a] \in Int /\ head[a] <= MaxHeight[a] /\ MaxHeight[a] \in Nat
  BY TokenMachineAssumption DEF SwapInv, HeightsSound
<1>4. HeightsSound'
  <2>1. head' \in [Accounts -> Int] /\ confirmed' \in [Accounts -> Int]
    BY <1>1, <1>2 DEF SwapInv, HeightsSound
  <2>2. ASSUME NEW b \in Accounts
        PROVE  /\ Genesis.head[b] <= confirmed'[b] /\ confirmed'[b] <= head'[b]
               /\ head'[b] <= MaxHeight[b]
               /\ tokens'.head[b] \in Int => tokens'.head[b] <= confirmed'[b]
    <3>1. /\ confirmed[b] <= head[b] /\ head[b] \in Int /\ confirmed[b] \in Int
          /\ Genesis.head[b] <= confirmed[b] /\ head[b] <= MaxHeight[b]
          /\ tokens.head[b] \in Int => tokens.head[b] <= confirmed[b]
          /\ Genesis.head[b] \in Int
      BY GenesisAssumption DEF SwapInv, HeightsSound
    <3>2. confirmed'[b] = IF b = a THEN h ELSE confirmed[b]
      BY <1>1 DEF SwapInv, HeightsSound
    <3> QED
      BY <1>1, <1>2, <3>1, <3>2
  <2> QED
    BY <2>1, <2>2 DEF HeightsSound
<1>5. SwapInv'
  BY <1>1, <1>4 DEF SwapInv
<1>6. h \in 0 .. MaxHeight[a]
  BY <1>1, <1>2, <1>3
<1>7. LifeStatus(tokens') = LifeStatus(tokens) /\ LifeDeal(tokens') = LifeDeal(tokens)
  BY <1>1
<1>8. Life!Confirm(a, h)
  BY <1>1, <1>7, LifeViews, LifeViewsNext DEF Life!Confirm
<1> QED
  BY <1>5, <1>6, <1>8 DEF LifeStep, Life!LifeNext

\* Rolling a block back opens nothing again.
LEMMA RollbackStep ==
  ASSUME SwapInv, NEW a \in Accounts, RollbackBlock(a)
  PROVE  SwapInv' /\ LifeStep
<1>1. CASE UNCHANGED <<tokens, head, confirmed>>
  <2>1. SwapInv'
    BY <1>1 DEF SwapInv, HeightsSound
  <2> QED
    BY <1>1, <2>1, LifeStutters
<1>2. CASE /\ head[a] > confirmed[a] /\ head' = [head EXCEPT ![a] = head[a] - 1]
           /\ UNCHANGED <<tokens, confirmed>>
  <2>1. head \in [Accounts -> Int] /\ head[a] \in Int /\ confirmed[a] \in Int
    BY DEF SwapInv, HeightsSound
  <2>2. \A b \in Accounts : head'[b] = IF b = a THEN head[a] - 1 ELSE head[b]
    BY <1>2, <2>1
  <2>3. head' \in [Accounts -> Int] /\ \A b \in Accounts : head'[b] <= head[b]
    BY <1>2, <2>1
  <2>4. HeightsSound'
    <3>1. ASSUME NEW b \in Accounts
          PROVE  /\ Genesis.head[b] <= confirmed'[b] /\ confirmed'[b] <= head'[b]
                 /\ head'[b] <= MaxHeight[b]
                 /\ tokens'.head[b] \in Int => tokens'.head[b] <= confirmed'[b]
      <4>1. /\ confirmed[b] <= head[b] /\ head[b] \in Int /\ confirmed[b] \in Int
            /\ Genesis.head[b] <= confirmed[b] /\ head[b] <= MaxHeight[b]
            /\ tokens.head[b] \in Int => tokens.head[b] <= confirmed[b]
            /\ MaxHeight[b] \in Int
        BY TokenMachineAssumption DEF SwapInv, HeightsSound
      <4> QED
        BY <1>2, <2>1, <2>2, <4>1
    <3> QED
      BY <1>2, <2>3, <3>1 DEF SwapInv, HeightsSound
  <2>5. InTime(tokens', head')
    <3>1. ASSUME NEW s \in DOMAIN tokens.swaps
          PROVE  /\ tokens.swaps[s].status = "INQUIRY" =>
                      head'[MainOf(tokens, s)] < tokens.swaps[s].ack
                 /\ tokens.swaps[s].status = "TAKE" =>
                      head'[tokens.swaps[s].maker] < tokens.swaps[s].trade
      <4>1. /\ tokens.swaps[s] \in SwapInfos
            /\ <<tokens.swaps[s].maker, tokens.swaps[s].order>> \in DOMAIN tokens.orders
            /\ tokens.swaps[s].status \in Answered => tokens.swaps[s].trade \in Int
        BY DEF SwapInv, Sound, SwapsSound
      <4>2. tokens.swaps[s].maker \in Accounts /\ tokens.swaps[s].ack \in Int
        BY <4>1 DEF SwapInfos
      <4>3. MainOf(tokens, s) \in Accounts
        BY <4>1 DEF MainOf, OrderOf, SwapInv, Sound, OrdersSound
      <4>4. /\ tokens.swaps[s].status = "INQUIRY" =>
                 head[MainOf(tokens, s)] < tokens.swaps[s].ack
            /\ tokens.swaps[s].status = "TAKE" =>
                 head[tokens.swaps[s].maker] < tokens.swaps[s].trade
        BY DEF SwapInv, InTime, AsksInTime, TakesInTime
      <4> QED
        BY <2>1, <2>3, <4>1, <4>2, <4>3, <4>4 DEF Answered
    <3> QED
      BY <1>2, <3>1 DEF InTime, AsksInTime, TakesInTime
  <2>6. SwapInv'
    BY <1>2, <2>4, <2>5 DEF SwapInv
  <2>7. LifeStatus(tokens') = LifeStatus(tokens) /\ LifeDeal(tokens') = LifeDeal(tokens)
    BY <1>2
  <2>8. Life!Rollback(a)
    BY <1>2, <2>7, LifeViews, LifeViewsNext DEF Life!Rollback
  <2> QED
    BY <2>6, <2>8 DEF LifeStep, Life!LifeNext
<1> QED
  BY <1>1, <1>2 DEF RollbackBlock

\* Blocks with operations that leave the swaps alone.
LEMMA AccountStep ==
  ASSUME SwapInv, NEW a \in Accounts, AccountBlock(a)
  PROVE  SwapInv' /\ LifeStep
<1>1. Shaped(tokens)
  BY DEF SwapInv, Sound, HeadsSound
<1>2. ASSUME NEW c \in Creations, Create(a, c)
      PROVE  SwapInv' /\ LifeStep
  <2>1. Fit(a, ProcessCreate(tokens, a, H(a), c))
    BY <1>1, BookedCreate, BookedFit
  <2> QED
    BY <1>2, <2>1, TokenBlockStep DEF Create
<1>3. ASSUME NEW type, NEW to, NEW v, Mint(a, type, to, v)
      PROVE  SwapInv' /\ LifeStep
  <2>1. Fit(a, ProcessMint(tokens, a, H(a), type, to, v))
    BY <1>1, BookedMint, BookedFit
  <2> QED
    BY <1>3, <2>1, TokenBlockStep DEF Mint
<1>4. ASSUME NEW type, NEW v, Burn(a, type, v)
      PROVE  SwapInv' /\ LifeStep
  <2>1. Fit(a, ProcessBurn(tokens, a, H(a), type, v))
    BY <1>1, BookedBurn, BookedFit
  <2> QED
    BY <1>4, <2>1, TokenBlockStep DEF Burn
<1>5. ASSUME NEW t, NEW type, NEW to, NEW v, Send(a, t, type, to, v)
      PROVE  SwapInv' /\ LifeStep
  <2>1. Fit(a, ProcessSend(tokens, a, H(a), t, type, to, v))
    BY <1>1, BookedSend, BookedFit
  <2> QED
    BY <1>5, <2>1, TokenBlockStep DEF Send
<1>6. ASSUME NEW key, NEW r, Receive(a, key, r)
      PROVE  SwapInv' /\ LifeStep
  <2>1. Fit(a, ProcessReceive(tokens, a, H(a), key, r))
    BY <1>1, BookedReceive, BookedFit
  <2> QED
    BY <1>6, <2>1, TokenBlockStep DEF Receive
<1>7. ASSUME NEW t, NEW type, NEW v, Unmap(a, t, type, v)
      PROVE  SwapInv' /\ LifeStep
  <2>1. Fit(a, ProcessUnmap(tokens, a, H(a), t, type, v))
    BY <1>1, BookedWithdraw, BookedFit DEF ProcessUnmap
  <2> QED
    BY <1>7, <2>1, TokenBlockStep DEF Unmap
<1>8. ASSUME NEW t, NEW type, NEW v, NEW c, Wrap(a, t, type, v, c)
      PROVE  SwapInv' /\ LifeStep
  <2>1. Fit(a, ProcessWrap(tokens, a, H(a), t, type, v, c))
    BY <1>1, BookedWithdraw, BookedFit DEF ProcessWrap
  <2> QED
    BY <1>8, <2>1, TokenBlockStep DEF Wrap
<1> QED
  BY <1>2, <1>3, <1>4, <1>5, <1>6, <1>7, <1>8,
     PlainStep, UnconfirmedStep, RollbackStep, ConfirmStep, Zenon DEF AccountBlock

\* Blocks with operations on swaps.
LEMMA SwapStep ==
  ASSUME SwapInv, NEW a \in Accounts, SwapBlock(a)
  PROVE  SwapInv' /\ LifeStep
<1>1. H(a) \in Int /\ Sound(tokens)
  BY NextIsFresh DEF SwapInv
<1>2. \A o \in SomeOrders : o[1] \in Accounts /\ o[2] \in Int
  BY <1>1 DEF SomeOrders, Sound, OrdersSound
<1>3. \A s \in SomeSwaps : s[1] \in Accounts /\ s[2] \in Int
  BY <1>1 DEF SomeSwaps, Sound, SwapsSound
<1>4. ASSUME NEW main \in Accounts, SwapConfig(a, main)
      PROVE  SwapInv' /\ LifeStep
  <2>1. Fit(a, ProcessSwapConfig(tokens, a, H(a), main))
    BY <1>1, QuietConfig, QuietFit DEF Fit
  <2> QED
    BY <1>4, <2>1, TokenBlockStep DEF SwapConfig
<1>5. ASSUME NEW o \in Offers, SwapMake(a, o)
      PROVE  SwapInv' /\ LifeStep
  <2>1. Fit(a, ProcessSwapMake(tokens, a, H(a), o))
    BY <1>1, QuietMake, QuietFit DEF Fit
  <2> QED
    BY <1>5, <2>1, TokenBlockStep DEF SwapMake
<1>6. ASSUME NEW maker, NEW order, NEW ack \in AckHeights, NEW v \in Values,
             SwapInquiry(a, maker, order, ack, v)
      PROVE  SwapInv' /\ LifeStep
  <2> DEFINE main == tokens.orders[<<maker, order>>].main
             acked == /\ maker # a /\ <<maker, order>> \in DOMAIN tokens.orders
                      /\ There(main, ack)
             M == ProcessSwapInquiry(tokens, a, H(a), maker, order, ack, v, acked)
  <2>1. "INQUIRY" \in Ops[a] /\ TokenBlock(a, M)
    BY <1>6 DEF SwapInquiry, Ready
  <2>2. head[a] < MaxHeight[a]
    BY <2>1 DEF TokenBlock, AppendConfirmed
  <2>3. ack \in Int
    BY TokenMachineAssumption
  <2>4. /\ acked \in BOOLEAN
        /\ <<maker, order>> \in DOMAIN tokens.orders /\ maker # a =>
             (acked <=> There(main, ack))
    BY DEF There
  <2>5. Fit(a, M)
    <3> HIDE DEF acked
    <3> QED
      BY <2>1, <2>2, <2>3, <2>4, InquiryFit
  <2> QED
    BY <2>1, <2>5, TokenBlockStep
<1>7. ASSUME NEW s \in SomeSwaps, NEW trade \in TradeHeights, NEW late \in BOOLEAN,
             SwapInquiryAck(a, s[1], s[2], trade, late)
      PROVE  SwapInv' /\ LifeStep
  <2>1. trade \in Int /\ s[1] \in Accounts /\ s[2] \in Int
    BY <1>3, TokenMachineAssumption
  <2>2. Fit(a, ProcessSwapInquiryAck(tokens, a, H(a), s[1], s[2], trade, late))
    BY <1>7, <2>1, AckFit DEF SwapInquiryAck
  <2> QED
    BY <1>7, <2>2, TokenBlockStep DEF SwapInquiryAck
<1>8. ASSUME NEW i \in Int, SwapTake(a, i)
      PROVE  SwapInv' /\ LifeStep
  <2> DEFINE s == <<a, i>>
             swap == tokens.swaps[s]
             found == i < H(a) /\ SwapKnown(tokens, s)
             traded == found /\ swap.trade # NoInfo /\ There(swap.maker, swap.trade)
             M == ProcessSwapTake(tokens, a, H(a), i, traded)
  <2>1. /\ TokenBlock(a, M)
        /\ found => (swap.status = "INQUIRY_ACK" =>
                       WaitBlockIfExist(swap.maker, swap.trade))
    BY <1>8 DEF SwapTake
  <2>2. traded \in BOOLEAN
    OBVIOUS
  <2>3. found => (traded <=> swap.trade # NoInfo /\ There(swap.maker, swap.trade))
    BY DEF There
  <2>4. Fit(a, M)
    <3> HIDE DEF traded
    <3> QED
      BY <2>1, <2>2, <2>3, TakeFit
  <2> QED
    BY <2>1, <2>4, TokenBlockStep
<1>9. ASSUME NEW s \in SomeSwaps, NEW take, NEW v, SwapTakeAck(a, s[1], s[2], take, v)
      PROVE  SwapInv' /\ LifeStep
  <2>1. Fit(a, ProcessSwapTakeAck(tokens, a, H(a), s[1], s[2], take, v))
    BY <1>3, TakeAckFit
  <2> QED
    BY <1>9, <2>1, TokenBlockStep DEF SwapTakeAck
<1>10. ASSUME NEW taker, NEW i, SwapTakeNack(a, taker, i)
       PROVE  SwapInv' /\ LifeStep
  <2>1. Fit(a, ProcessSwapTakeNack(tokens, a, H(a), taker, i))
    BY <1>1, QuietNack, BookedFit
  <2> QED
    BY <1>10, <2>1, TokenBlockStep DEF SwapTakeNack
<1>11. ASSUME NEW order \in Int, SwapCancel(a, order)
       PROVE  SwapInv' /\ LifeStep
  <2>1. Fit(a, ProcessSwapCancel(tokens, a, H(a), order))
    BY <1>1, QuietCancel, QuietFit DEF Fit
  <2> QED
    BY <1>11, <2>1, TokenBlockStep DEF SwapCancel
<1>12. ASSUME NEW maker, SwapPing(a, maker)
       PROVE  SwapInv' /\ LifeStep
  <2>1. Fit(a, ProcessSwapPing(tokens, a, H(a), maker))
    BY <1>1, QuietPing, BookedFit
  <2> QED
    BY <1>12, <2>1, TokenBlockStep DEF SwapPing
<1>13. ASSUME SwapPong(a)
       PROVE  SwapInv' /\ LifeStep
  <2>1. Fit(a, ProcessSwapPong(tokens, a, H(a)))
    BY <1>1, QuietPing, BookedFit
  <2> QED
    BY <1>13, <2>1, TokenBlockStep DEF SwapPong
<1> QED
  BY <1>2, <1>3, <1>4, <1>5, <1>6, <1>7, <1>8, <1>9, <1>10, <1>11, <1>12, <1>13,
     Zenon DEF SwapBlock

\* Tables that keep those of the swaps keep the invariant.
LEMMA KeepsStep ==
  ASSUME SwapInv, tokens'.fault # TRUE, Keeps(tokens, tokens'),
         UNCHANGED <<head, confirmed>>
  PROVE  SwapInv' /\ LifeStep
<1>1. /\ Shaped(tokens') /\ tokens'.head = tokens.head /\ tokens'.main = tokens.main
      /\ tokens'.orders = tokens.orders /\ tokens'.swaps = tokens.swaps
      /\ tokens'.inquiries = tokens.inquiries /\ tokens'.takes = tokens.takes
  BY DEF Keeps
<1>2. Sound(tokens) /\ InTime(tokens, head) /\ HeightsSound
      /\ DOMAIN tokens.swaps \subseteq Swaps
  BY DEF SwapInv
<1>3. HeadsSound(tokens') /\ OrdersSound(tokens')
  BY <1>1, <1>2 DEF Sound, HeadsSound, OrdersSound
<1>4. Follows(tokens, tokens')
  BY <1>1, <1>3 DEF Follows
<1>5. /\ Sound(tokens')
      /\ \A s \in DOMAIN tokens.swaps : MainOf(tokens', s) = MainOf(tokens, s)
  BY <1>1, <1>2, <1>4, SoundSame
<1>6. InTime(tokens', head')
  BY <1>1, <1>2, <1>5 DEF InTime, AsksInTime, TakesInTime
<1>7. HeightsSound'
  BY <1>1, <1>2 DEF HeightsSound
<1>8. LifeStep
  BY <1>1, LifeStutters
<1> QED
  BY <1>1, <1>2, <1>5, <1>6, <1>7, <1>8 DEF SwapInv

\* Blocks of other chains leave the swaps alone.
LEMMA ChainStep ==
  ASSUME SwapInv, NEW c, NEW M, Keeps(tokens, M), ChainBlock(c, M)
  PROVE  SwapInv' /\ LifeStep
<1>1. CASE UNCHANGED <<tokens, head, confirmed>>
  <2>1. SwapInv'
    BY <1>1 DEF SwapInv, HeightsSound
  <2>2. LifeStep
    BY <1>1, LifeStutters
  <2> QED
    BY <2>1, <2>2
<1>2. CASE ~M.fault /\ tokens' = M /\ UNCHANGED <<head, confirmed>>
  <2>1. tokens'.fault # TRUE
    BY <1>2
  <2>2. Keeps(tokens, tokens') /\ UNCHANGED <<head, confirmed>>
    BY <1>2
  <2> QED
    BY <2>1, <2>2, KeepsStep
<1> QED
  BY <1>1, <1>2 DEF ChainBlock

\* Nothing that happens on other chains touches the swaps.
LEMMA OtherStep ==
  ASSUME SwapInv, OtherChains
  PROVE  SwapInv' /\ LifeStep
<1>1. Shaped(tokens)
  BY DEF SwapInv, Sound, HeadsSound
<1>2. ASSUME NEW t, ChainNativeToken(t)
      PROVE  SwapInv' /\ LifeStep
  <2>1. tokens' = [tokens EXCEPT !.info[t] = TokenInfo("20", FALSE, FALSE, TRUE, 0, 0)]
        /\ UNCHANGED <<head, confirmed>>
    BY <1>2 DEF ChainNativeToken
  <2>2. Keeps(tokens, tokens') /\ tokens'.fault = tokens.fault
    BY <1>1, <2>1 DEF Keeps, Shaped, Tables
  <2> QED
    BY <2>1, <2>2, KeepsStep DEF SwapInv
<1>3. ASSUME NEW t, NEW type, TokenEvent(t, type)
      PROVE  SwapInv' /\ LifeStep
  BY <1>1, <1>3, KeepsEvents, ChainStep DEF TokenEvent
<1>4. ASSUME NEW t, NEW to, NEW v, MapEvent(t, to, v)
      PROVE  SwapInv' /\ LifeStep
  <2>1. Keeps(tokens, ProcessCrossChainMapEvent(tokens, ChainOf[t],
                chainHead[ChainOf[t]] + 1, t, tokens.info[t].type, to, v))
    BY <1>1, KeepsArrive DEF ProcessCrossChainMapEvent
  <2> QED
    BY <1>4, <2>1, ChainStep DEF MapEvent
<1>5. ASSUME NEW c, NEW t, NEW to, NEW v, UnwrapEvent(c, t, to, v)
      PROVE  SwapInv' /\ LifeStep
  <2>1. Keeps(tokens, ProcessCrossChainUnwrapEvent(tokens, c,
                chainHead[c] + 1, t, tokens.info[t].type, to, v))
    BY <1>1, KeepsArrive DEF ProcessCrossChainUnwrapEvent
  <2> QED
    BY <1>5, <2>1, ChainStep DEF UnwrapEvent
<1>6. ASSUME NEW tx, PaidEvent(tx)
      PROVE  SwapInv' /\ LifeStep
  <2> DEFINE c == tokens.out[tx].chain
             h == chainHead[c] + 1
             M == IF tokens.out[tx].kind = "unmapped"
                    THEN ProcessCrossChainUnmapEvent(tokens, tx, h)
                    ELSE ProcessCrossChainWrapEvent(tokens, tx, h)
  <2>1. ChainBlock(c, M)
    BY <1>6 DEF PaidEvent
  <2>2. Keeps(tokens, M)
    BY <1>1, KeepsEvents
  <2> QED
    BY <2>1, <2>2, ChainStep
<1> QED
  BY <1>2, <1>3, <1>4, <1>5, <1>6, Zenon DEF OtherChains

\* The invariant holds at the start.
LEMMA SwapStart ==
  ASSUME Init
  PROVE  SwapInv
<1>1. /\ tokens = Genesis.tokens /\ head = Genesis.head /\ confirmed = Genesis.head
  BY DEF Init
<1>2. /\ Genesis.head \in [Accounts -> Int]
      /\ \A a \in Accounts : Genesis.head[a] \in -1 .. MaxHeight[a]
      /\ DOMAIN tokens = DOMAIN EmptyTokens \cup DOMAIN EmptySwaps
      /\ tokens.fault = FALSE
      /\ tokens.head \in [Accounts -> Int \cup {NoInfo}]
      /\ \A a \in Accounts : tokens.head[a] \in Int => tokens.head[a] <= head[a]
      /\ tokens.main \in [Accounts -> Accounts \cup {NoInfo}]
      /\ tokens.orders = <<>> /\ tokens.swaps = <<>>
      /\ tokens.inquiries = {} /\ tokens.takes = {}
  BY <1>1, GenesisAssumption
<1>3. Shaped(tokens)
  BY <1>2 DEF Shaped, Tables, EmptyTokens, EmptySwaps
<1>4. DOMAIN tokens.orders = {} /\ DOMAIN tokens.swaps = {}
      /\ tokens.swaps = [s \in DOMAIN tokens.swaps |-> tokens.swaps[s]]
  BY <1>2
<1>5. HeadsSound(tokens)
  BY <1>2, <1>3 DEF HeadsSound
<1>6. OrdersSound(tokens)
  BY <1>4 DEF OrdersSound
<1>7. SwapsSound(tokens)
  BY <1>4, FS_EmptySet DEF SwapsSound
<1>8. AsksExact(tokens) /\ TakesExact(tokens)
  BY <1>2, <1>4 DEF AsksExact, TakesExact, Asks, Takes
<1>9. InTime(tokens, head) /\ DOMAIN tokens.swaps \subseteq Swaps
  BY <1>4 DEF InTime, AsksInTime, TakesInTime
<1>10. HeightsSound
  <2>1. ASSUME NEW b \in Accounts
        PROVE  /\ Genesis.head[b] <= confirmed[b] /\ confirmed[b] <= head[b]
               /\ head[b] <= MaxHeight[b]
               /\ tokens.head[b] \in Int => tokens.head[b] <= confirmed[b]
    BY <1>1, <1>2, TokenMachineAssumption
  <2> QED
    BY <1>1, <1>2, <2>1 DEF HeightsSound
<1> QED
  BY <1>2, <1>5, <1>6, <1>7, <1>8, <1>9, <1>10 DEF SwapInv, Sound

\* Every step keeps the invariant and is a step of SwapLife.
LEMMA MachineStep ==
  ASSUME SwapInv, [Next]_vars
  PROVE  SwapInv' /\ LifeStep
<1>1. CASE Next
  BY <1>1, AccountStep, SwapStep, OtherStep DEF Next
<1>2. CASE UNCHANGED vars
  <2>1. UNCHANGED <<tokens, head, confirmed>>
    BY <1>2 DEF vars
  <2>2. SwapInv'
    BY <2>1 DEF SwapInv, HeightsSound
  <2>3. LifeStep
    BY <2>1, LifeStutters
  <2> QED
    BY <2>2, <2>3
<1> QED
  BY <1>1, <1>2

\* The invariant says what SettledInTime does.
LEMMA SoundSettled ==
  ASSUME SwapInv
  PROVE  SettledInTime
<1>1. Sound(tokens) /\ InTime(tokens, head)
  BY DEF SwapInv
<1>2. \A s \in DOMAIN tokens.swaps :
        /\ s = <<s[1], s[2]>> /\ s[1] \in Accounts /\ s[2] \in Int
        /\ tokens.swaps[s].maker \in Accounts /\ tokens.swaps[s].ack \in Int
        /\ MainOf(tokens, s) \in Accounts
        /\ tokens.swaps[s].status = "TAKE" => tokens.swaps[s].trade \in Int
  BY <1>1 DEF Sound, SwapsSound, OrdersSound, SwapInfos, MainOf, OrderOf, Answered
<1>3. \A s \in DOMAIN tokens.swaps :
        /\ tokens.swaps[s].status = "INQUIRY" =>
             head[OrderOf(tokens, s).main] < tokens.swaps[s].ack
        /\ tokens.swaps[s].status = "TAKE" =>
             head[tokens.swaps[s].maker] < tokens.swaps[s].trade
  BY <1>1 DEF InTime, AsksInTime, TakesInTime, MainOf
<1>4. tokens.inquiries =
        {<<OrderOf(tokens, s).main, tokens.swaps[s].ack, s[1], s[2]>> :
           s \in {x \in DOMAIN tokens.swaps : tokens.swaps[x].status = "INQUIRY"}}
  <2> DEFINE S == {<<OrderOf(tokens, s).main, tokens.swaps[s].ack, s[1], s[2]>> :
           s \in {x \in DOMAIN tokens.swaps : tokens.swaps[x].status = "INQUIRY"}}
  <2>1. AsksExact(tokens)
    BY <1>1 DEF Sound
  <2>2. ASSUME NEW w \in tokens.inquiries PROVE w \in S
    <3>1. PICK m \in Accounts, h \in Int, t \in Accounts, i \in Int : w = <<m, h, t, i>>
      BY <2>1 DEF AsksExact, Waits
    <3>2. Asks(tokens, m, h, t, i)
      BY <2>1, <3>1 DEF AsksExact
    <3>3. /\ <<t, i>> \in DOMAIN tokens.swaps
          /\ tokens.swaps[<<t, i>>].status = "INQUIRY"
          /\ w = <<OrderOf(tokens, <<t, i>>).main, tokens.swaps[<<t, i>>].ack,
                   <<t, i>>[1], <<t, i>>[2]>>
      BY <3>1, <3>2 DEF Asks, MainOf
    <3> QED
      BY <3>3
  <2>3. ASSUME NEW s \in DOMAIN tokens.swaps, tokens.swaps[s].status = "INQUIRY"
        PROVE  <<OrderOf(tokens, s).main, tokens.swaps[s].ack, s[1], s[2]>>
                 \in tokens.inquiries
    <3>1. Asks(tokens, MainOf(tokens, s), tokens.swaps[s].ack, s[1], s[2])
      BY <1>2, <2>3 DEF Asks
    <3> QED
      BY <1>2, <2>1, <3>1 DEF AsksExact, MainOf
  <2> QED
    BY <2>2, <2>3
<1>5. tokens.takes =
        {<<tokens.swaps[s].maker, tokens.swaps[s].trade, s[1], s[2]>> :
           s \in {x \in DOMAIN tokens.swaps : tokens.swaps[x].status = "TAKE"}}
  <2> DEFINE S == {<<tokens.swaps[s].maker, tokens.swaps[s].trade, s[1], s[2]>> :
           s \in {x \in DOMAIN tokens.swaps : tokens.swaps[x].status = "TAKE"}}
  <2>1. TakesExact(tokens)
    BY <1>1 DEF Sound
  <2>2. ASSUME NEW w \in tokens.takes PROVE w \in S
    <3>1. PICK m \in Accounts, h \in Int, t \in Accounts, i \in Int : w = <<m, h, t, i>>
      BY <2>1 DEF TakesExact, Waits
    <3>2. Takes(tokens, m, h, t, i)
      BY <2>1, <3>1 DEF TakesExact
    <3>3. /\ <<t, i>> \in DOMAIN tokens.swaps
          /\ tokens.swaps[<<t, i>>].status = "TAKE"
          /\ w = <<tokens.swaps[<<t, i>>].maker, tokens.swaps[<<t, i>>].trade,
                   <<t, i>>[1], <<t, i>>[2]>>
      BY <3>1, <3>2 DEF Takes
    <3> QED
      BY <3>3
  <2>3. ASSUME NEW s \in DOMAIN tokens.swaps, tokens.swaps[s].status = "TAKE"
        PROVE  <<tokens.swaps[s].maker, tokens.swaps[s].trade, s[1], s[2]>>
                 \in tokens.takes
    <3>1. Takes(tokens, tokens.swaps[s].maker, tokens.swaps[s].trade, s[1], s[2])
      BY <1>2, <2>3 DEF Takes
    <3> QED
      BY <1>2, <2>1, <2>3, <3>1 DEF TakesExact
  <2> QED
    BY <2>2, <2>3
<1> QED
  BY <1>3, <1>4, <1>5 DEF SettledInTime

\* Whatever the accounts, blocks and bounds: no inquiry stays open once its
\* main account has the block of the answer, no take once the maker has that
\* of the trade, and the waiting tables hold exactly the open ones.
THEOREM SwapsSettledInTime == Spec => []SettledInTime
<1>1. Init => SwapInv
  BY SwapStart
<1>2. SwapInv /\ [Next]_vars => SwapInv'
  BY MachineStep
<1>3. SwapInv => SettledInTime
  BY SoundSettled
<1> QED
  BY <1>1, <1>2, <1>3, PTL DEF Spec

\* The application implements SwapLife: at the start no swap was answered, and
\* every step answers, takes, trades or refunds as SwapLife allows, or leaves
\* what it sees alone.
THEOREM SwapLifeRefined == Spec => SwapLifeImplemented
<1>1. Init => SwapInv
  BY SwapStart
<1>2. SwapInv /\ [Next]_vars => SwapInv'
  BY MachineStep
<1>3. ASSUME Init PROVE Life!LifeInit
  <2>1. tokens.swaps = <<>> /\ head = Genesis.head /\ confirmed = Genesis.head
    BY <1>3, GenesisAssumption DEF Init
  <2>2. \A s \in Swaps : ~AnsweredIn(tokens, s)
    BY <2>1 DEF AnsweredIn
  <2>3. /\ LifeStatus(tokens) = [s \in Swaps |-> "NONE"]
        /\ LifeDeal(tokens) = [s \in Swaps |-> NoInfo]
    BY <2>2 DEF LifeStatus, LifeDeal
  <2> QED
    BY <2>1, <2>3, LifeViews DEF Life!LifeInit
<1>4. SwapInv /\ [Next]_vars => [Life!LifeNext]_(Life!lifeVars)
  BY MachineStep DEF LifeStep
<1> QED
  BY <1>1, <1>2, <1>3, <1>4, PTL DEF Spec, SwapLifeImplemented, Life!LifeSpec

=============================================================================
