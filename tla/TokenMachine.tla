---------------------------- MODULE TokenMachine ----------------------------
(***************************************************************************)
(* The token application at work: the blocks the application framework     *)
(* gives it, and the blocks of other chains (rai/rai_token/token.cpp).     *)
(*                                                                         *)
(* Of the framework's ledger only the height of the head and of the last   *)
(* confirmed block of an account matter here.  A token block is appended   *)
(* when it is confirmed; other blocks may be appended before, and then be  *)
(* confirmed or rolled back.  A block that waits is simply not appended.   *)
(***************************************************************************)
EXTENDS TokenSwap

CONSTANTS
  Ops,          \* [Accounts -> the operations its blocks have]
  Sources,      \* other sources of steps, of {"CHAIN", "NATIVE"}
  MaxHeight,    \* [Accounts \cup Chains -> Nat]: bound on the heights
  Values,       \* values in blocks and events
  Creations,    \* creation data
  Offers,       \* orders
  AckHeights,   \* heights inquiries name for the answer
  TradeHeights, \* heights answers name for the trade
  Genesis       \* the tables and heights at the start

ASSUME TokenMachineAssumption ==
  /\ MaxHeight \in [Accounts \cup Chains -> Nat]
  /\ Values \subseteq TokenIds \ {0}
  /\ \A o \in Offers : ValidOrder(o)
  /\ AckHeights \subseteq Nat /\ TradeHeights \subseteq Nat \ {0}

\* A record is never a height, and the machine starts without orders and
\* swaps, with tables that booked blocks the accounts have.
ASSUME GenesisAssumption ==
  /\ NoInfo \notin Int
  /\ Genesis.head \in [Accounts -> Int]
  /\ \A a \in Accounts : Genesis.head[a] \in -1 .. MaxHeight[a]
  /\ DOMAIN Genesis.tokens = DOMAIN EmptyTokens \cup DOMAIN EmptySwaps
  /\ Genesis.tokens.fault = FALSE
  /\ Genesis.tokens.head \in [Accounts -> Int \cup {NoInfo}]
  /\ \A a \in Accounts : Genesis.tokens.head[a] \in Int =>
       Genesis.tokens.head[a] <= Genesis.head[a]
  /\ Genesis.tokens.main \in [Accounts -> Accounts \cup {NoInfo}]
  /\ Genesis.tokens.orders = <<>> /\ Genesis.tokens.swaps = <<>>
  /\ Genesis.tokens.inquiries = {} /\ Genesis.tokens.takes = {}

VARIABLES
  tokens,      \* the tables
  head,        \* account -> height of its head, -1 without a block
  confirmed,   \* account -> height of its last confirmed block
  chainHead,   \* chain -> height of the last block of it that was read
  halted       \* the application met an inconsistency

vars == <<tokens, head, confirmed, chainHead, halted>>

Init ==
  /\ tokens = Genesis.tokens
  /\ head = Genesis.head
  /\ confirmed = Genesis.head
  /\ chainHead = [c \in Chains |-> 0]
  /\ halted = FALSE

Heights == UNION {0 .. MaxHeight[a] : a \in Accounts}

Ready(a, op) == ~halted /\ op \in Ops[a]
Enabled(source) == ~halted /\ source \in Sources
H(a) == head[a] + 1

\* WaitBlock and WaitBlockIfExist let the block be processed.
There(b, i) == head[b] >= i
WaitBlock(b, i) == i \in 0 .. confirmed[b]
WaitBlockIfExist(b, i) == There(b, i) => WaitBlock(b, i)

-----------------------------------------------------------------------------
(* Blocks of accounts.                                                     *)

\* Token::Process, after its check for blocks that were processed before.
Process(a, L) ==
  IF tokens.head[a] # NoInfo /\ tokens.head[a] >= H(a) THEN tokens ELSE L

\* The confirmed block H(a), whose operation leads to tables L, is appended.
AppendConfirmed(a, L) ==
  LET M == IF L.fault THEN L ELSE AfterBlockAppend(L, a, H(a))
  IN  /\ head[a] < MaxHeight[a]
      /\ \/ /\ M.fault
            /\ halted' = TRUE
            /\ UNCHANGED <<tokens, head, confirmed>>
         \/ /\ ~M.fault
            /\ tokens' = M
            /\ head' = [head EXCEPT ![a] = H(a)]
            /\ confirmed' = [confirmed EXCEPT ![a] = H(a)]
            /\ UNCHANGED halted
      /\ UNCHANGED chainHead

TokenBlock(a, L) == AppendConfirmed(a, Process(a, L))

\* Blocks without an operation on tokens.  PreBlockAppend asks for a
\* confirmed one where the block will settle something.
AppendPlain(a) ==
  /\ Ready(a, "PLAIN")
  /\ AppendConfirmed(a, tokens)

Settles(a, h) ==
  \E w \in tokens.inquiries \cup tokens.takes : w[1] = a /\ w[2] = h

\* Mutant: every block is appended before it is confirmed.
AppendUnconfirmedAlways(a) ==
  /\ Ready(a, "PLAIN")
  /\ head[a] < MaxHeight[a]
  /\ head' = [head EXCEPT ![a] = H(a)]
  /\ UNCHANGED <<tokens, confirmed, chainHead, halted>>

AppendUnconfirmed(a) ==
  /\ Ready(a, "PLAIN")
  /\ head[a] < MaxHeight[a]
  /\ ~Settles(a, H(a))
  /\ head' = [head EXCEPT ![a] = H(a)]
  /\ UNCHANGED <<tokens, confirmed, chainHead, halted>>

\* The framework confirms a block it has; AfterBlockAppend does not run.
ConfirmBlock(a, h) ==
  /\ Ready(a, "PLAIN")
  /\ confirmed[a] < h /\ h <= head[a]
  /\ confirmed' = [confirmed EXCEPT ![a] = h]
  /\ UNCHANGED <<tokens, head, chainHead, halted>>

\* Only unconfirmed heads are rolled back; PreBlockRollback halts when the
\* head carried an operation on tokens.
RollbackBlock(a) ==
  /\ Ready(a, "PLAIN")
  /\ head[a] > confirmed[a]
  /\ IF tokens.head[a] # NoInfo /\ tokens.head[a] >= head[a]
       THEN halted' = TRUE /\ UNCHANGED head
       ELSE head' = [head EXCEPT ![a] = @ - 1] /\ UNCHANGED halted
  /\ UNCHANGED <<tokens, confirmed, chainHead>>

Create(a, c) ==
  Ready(a, "CREATE") /\ TokenBlock(a, ProcessCreate(tokens, a, H(a), c))

Mint(a, type, to, v) ==
  Ready(a, "MINT") /\ TokenBlock(a, ProcessMint(tokens, a, H(a), type, to, v))

Burn(a, type, v) ==
  Ready(a, "BURN") /\ TokenBlock(a, ProcessBurn(tokens, a, H(a), type, v))

Send(a, t, type, to, v) ==
  Ready(a, "SEND") /\ TokenBlock(a, ProcessSend(tokens, a, H(a), t, type, to, v))

\* The block claims that the receivable under key is r.
Receive(a, key, r) ==
  /\ Ready(a, "RECEIVE")
  /\ IF r.source \in {"MAP", "UNWRAP"}
       THEN r.height <= chainHead[r.from]
       ELSE \/ r.from = a /\ r.height >= H(a)
            \/ WaitBlock(r.from, r.height)
  /\ TokenBlock(a, ProcessReceive(tokens, a, H(a), key, r))

\* What a block may claim: a receivable, one it reads wrongly, or nothing.
Claims(a) ==
  {<<k, tokens.receivables[k]>> :
     k \in {x \in DOMAIN tokens.receivables : x.to = a}} \cup
  {<<k, [tokens.receivables[k] EXCEPT !.value = @ + 1]>> :
     k \in {x \in DOMAIN tokens.receivables : x.to = a}} \cup
  {<<ReceivableKey(a, a, Tx(a, i)), Receivable(a, 1, i, "20", "SEND")>> :
     i \in {0, H(a)}}

Unmap(a, t, type, v) ==
  Ready(a, "UNMAP") /\ TokenBlock(a, ProcessUnmap(tokens, a, H(a), t, type, v))

Wrap(a, t, type, v, c) ==
  /\ Ready(a, "WRAP")
  /\ t \in ExternalTokens => ChainOf[t] # c
  /\ TokenBlock(a, ProcessWrap(tokens, a, H(a), t, type, v, c))

-----------------------------------------------------------------------------
(* Blocks of swaps.                                                        *)

SwapConfig(a, main) ==
  Ready(a, "CONFIG") /\ TokenBlock(a, ProcessSwapConfig(tokens, a, H(a), main))

SwapMake(a, o) ==
  Ready(a, "MAKE") /\ TokenBlock(a, ProcessSwapMake(tokens, a, H(a), o))

SwapInquiry(a, maker, order, ack, v) ==
  LET main == tokens.orders[<<maker, order>>].main
      found == maker # a /\ <<maker, order>> \in DOMAIN tokens.orders
  IN  /\ Ready(a, "INQUIRY")
      /\ maker # a => WaitBlock(maker, order)
      /\ found => (main # a => WaitBlockIfExist(main, ack))
      /\ TokenBlock(a, ProcessSwapInquiry(tokens, a, H(a), maker, order, ack, v,
                                          found /\ There(main, ack)))

SwapInquiryAck(a, taker, i, trade, late) ==
  /\ Ready(a, "INQUIRY_ACK")
  /\ taker # a => WaitBlock(taker, i)
  /\ taker # a /\ <<a, H(a), taker, i>> \in tokens.inquiries =>
       WaitBlock(tokens.swaps[<<taker, i>>].maker, trade - 1)
  /\ TokenBlock(a, ProcessSwapInquiryAck(tokens, a, H(a), taker, i, trade, late))

SwapTake(a, i) ==
  LET s == <<a, i>>
      swap == tokens.swaps[s]
      found == i < H(a) /\ SwapKnown(tokens, s)
  IN  /\ Ready(a, "TAKE")
      /\ found => /\ WaitBlock(OrderOf(tokens, s).main, swap.ack)
                  /\ swap.status = "INQUIRY_ACK" =>
                       WaitBlockIfExist(swap.maker, swap.trade)
      /\ TokenBlock(a, ProcessSwapTake(tokens, a, H(a), i,
           found /\ swap.trade # NoInfo /\ There(swap.maker, swap.trade)))

SwapTakeAck(a, taker, i, take, ack) ==
  /\ Ready(a, "TAKE_ACK")
  /\ taker # a => WaitBlock(taker, take)
  /\ TokenBlock(a, ProcessSwapTakeAck(tokens, a, H(a), taker, i, take, ack))

\* The conditions under which a take-nack block need not wait.
NackReady(a, taker, i) ==
  /\ WaitBlock(taker, i)
  /\ SwapKnown(tokens, <<taker, i>>) =>
       (tokens.swaps[<<taker, i>>].maker = a =>
          WaitBlock(OrderOf(tokens, <<taker, i>>).main,
                    tokens.swaps[<<taker, i>>].ack))

SwapTakeNack(a, taker, i) ==
  /\ Ready(a, "TAKE_NACK")
  /\ taker # a => NackReady(a, taker, i)
  /\ TokenBlock(a, ProcessSwapTakeNack(tokens, a, H(a), taker, i))

SwapCancel(a, order) ==
  Ready(a, "CANCEL") /\ TokenBlock(a, ProcessSwapCancel(tokens, a, H(a), order))

SwapPing(a, maker) ==
  Ready(a, "PING") /\ TokenBlock(a, ProcessSwapPing(tokens, a, H(a), maker))

SwapPong(a) ==
  Ready(a, "PING") /\ TokenBlock(a, ProcessSwapPong(tokens, a, H(a)))

-----------------------------------------------------------------------------
(* Blocks of other chains, with one event each.  The contracts there are   *)
(* external: they pay out only what was given away here, give back only    *)
(* what they hold, and never hold VALUES or more of a token.               *)

Total(S, amount(_)) == MapThenSumSet(amount, S)

\* The crossings in a table of token t by kind k over chain c.
Crossings(table, t, k, c) ==
  {x \in DOMAIN table :
     table[x].token = t /\ table[x].kind = k /\ table[x].chain = c}

Crossed(table, t, k, c) ==
  Total(Crossings(table, t, k, c),
        LAMBDA x : Amount(tokens.info[t].type, table[x].value))

\* How often identifier v crossed.
Times(table, t, k, c, v) ==
  Cardinality({x \in Crossings(table, t, k, c) : table[x].value = v})

\* What the other chain has paid out.
Paid == [x \in {y \in DOMAIN tokens.out : tokens.out[y].target # NoInfo} |->
           tokens.out[x]]

\* ProcessCrossChainBlocks: the whole block or nothing.
ChainBlock(c, L) ==
  /\ ~halted
  /\ chainHead[c] < MaxHeight[c]
  /\ \/ L.fault /\ halted' = TRUE /\ UNCHANGED <<tokens, chainHead>>
     \/ /\ ~L.fault
        /\ tokens' = L
        /\ chainHead' = [chainHead EXCEPT ![c] = @ + 1]
        /\ UNCHANGED halted
  /\ UNCHANGED <<head, confirmed>>

TokenEvent(t, type) ==
  /\ Enabled("CHAIN")
  /\ tokens.info[t] = NoInfo
  /\ ChainBlock(ChainOf[t], ProcessCrossChainTokenEvent(tokens, t, type))

MapEvent(t, to, v) ==
  LET c == ChainOf[t]
      type == tokens.info[t].type
  IN  /\ Enabled("CHAIN")
      /\ tokens.info[t] # NoInfo
      /\ type = "20" => v > 0 /\ v + Crossed(tokens.in, t, "MAP", c)
                                  - Crossed(Paid, t, "unmapped", c) < VALUES
      /\ type = "721" =>
           v \in TokenIds /\ Times(tokens.in, t, "MAP", c, v)
                                = Times(Paid, t, "unmapped", c, v)
      /\ ChainBlock(c, ProcessCrossChainMapEvent(tokens, c, chainHead[c] + 1,
                                                 t, type, to, v))

UnwrapEvent(c, t, to, v) ==
  LET type == tokens.info[t].type
  IN  /\ Enabled("CHAIN")
      /\ Crossings(Paid, t, "wrapped", c) # {}
      /\ type = "20" => v > 0 /\ v <= Crossed(Paid, t, "wrapped", c)
                                        - Crossed(tokens.in, t, "UNWRAP", c)
      /\ type = "721" => v \in TokenIds /\ Times(Paid, t, "wrapped", c, v)
                                             > Times(tokens.in, t, "UNWRAP", c, v)
      /\ ChainBlock(c, ProcessCrossChainUnwrapEvent(tokens, c,
                         chainHead[c] + 1, t, type, to, v))

\* The events UNMAP and WRAP wait for the block they pay.
PaidEvent(tx) ==
  LET c == tokens.out[tx].chain
      h == chainHead[c] + 1
  IN  /\ Enabled("CHAIN")
      /\ tokens.out[tx].target = NoInfo
      /\ WaitBlock(tx[1], tx[2])
      /\ ChainBlock(c, IF tokens.out[tx].kind = "unmapped"
                         THEN ProcessCrossChainUnmapEvent(tokens, tx, h)
                         ELSE ProcessCrossChainWrapEvent(tokens, tx, h))

\* The native token of a chain is put once.
ChainNativeToken(t) ==
  /\ Enabled("NATIVE")
  /\ tokens.info[t] = NoInfo
  /\ tokens' = [tokens EXCEPT !.info[t] =
                  TokenInfo("20", FALSE, FALSE, TRUE, 0, 0)]
  /\ UNCHANGED <<head, confirmed, chainHead, halted>>

-----------------------------------------------------------------------------

AccountBlock(a) ==
  \/ AppendPlain(a) \/ AppendUnconfirmed(a) \/ RollbackBlock(a)
  \/ \E h \in Heights : ConfirmBlock(a, h)
  \/ \E c \in Creations : Create(a, c)
  \/ \E type \in Types, to \in Accounts, v \in Values : Mint(a, type, to, v)
  \/ \E type \in Types, v \in Values : Burn(a, type, v)
  \/ \E t \in Tokens, type \in Types, to \in Accounts, v \in Values :
       Send(a, t, type, to, v)
  \/ \E claim \in Claims(a) : Receive(a, claim[1], claim[2])
  \/ \E t \in ExternalTokens, type \in Types, v \in Values :
       Unmap(a, t, type, v)
  \/ \E t \in Tokens, type \in Types, v \in Values, c \in Chains :
       Wrap(a, t, type, v, c)

\* Orders and swaps a block may name: the ones there are, and a missing one.
SomeOrders == DOMAIN tokens.orders \cup {<<b, 0>> : b \in Accounts}
SomeSwaps == DOMAIN tokens.swaps \cup {<<b, 0>> : b \in Accounts}

SwapBlock(a) ==
  \/ \E main \in Accounts : SwapConfig(a, main)
  \/ \E o \in Offers : SwapMake(a, o)
  \/ \E o \in SomeOrders, ack \in AckHeights, v \in Values :
       SwapInquiry(a, o[1], o[2], ack, v)
  \/ \E s \in SomeSwaps, trade \in TradeHeights, late \in BOOLEAN :
       SwapInquiryAck(a, s[1], s[2], trade, late)
  \/ \E s \in SomeSwaps : s[1] = a /\ SwapTake(a, s[2])
  \/ \E s \in SomeSwaps, take \in Heights, v \in Values :
       SwapTakeAck(a, s[1], s[2], take, v)
  \/ \E s \in SomeSwaps : SwapTakeNack(a, s[1], s[2])
  \/ \E o \in SomeOrders : o[1] = a /\ SwapCancel(a, o[2])
  \/ \E maker \in Accounts : SwapPing(a, maker)
  \/ SwapPong(a)

OtherChains ==
  \/ \E t \in ExternalTokens :
       \/ ChainNativeToken(t)
       \/ \E type \in Types : TokenEvent(t, type)
       \/ \E to \in Accounts, v \in Values : MapEvent(t, to, v)
  \/ \E c \in Chains, t \in Tokens, to \in Accounts, v \in Values :
       UnwrapEvent(c, t, to, v)
  \/ \E tx \in DOMAIN tokens.out : PaidEvent(tx)

Next ==
  \/ \E a \in Accounts : AccountBlock(a) \/ SwapBlock(a)
  \/ OtherChains

Spec == Init /\ [][Next]_vars

-----------------------------------------------------------------------------
(* Properties.                                                             *)

OpenOrders(t) ==
  {o \in DOMAIN tokens.orders :
     tokens.orders[o].offer = t /\ tokens.orders[o].finished = "no"}
OpenTakes(t) ==
  {s \in DOMAIN tokens.swaps :
     tokens.swaps[s].status = "TAKE" /\ OrderOf(tokens, s).want = t}
Receivables(t) == {k \in DOMAIN tokens.receivables : k.token = t}
\* A refund can replace a receivable of the taker (its key has the account,
\* the token and the paying block); no other payment does.
Lost(t) == {i \in DOMAIN tokens.lost :
              tokens.lost[i].token = t /\ tokens.lost[i].by = "REFUND"}

\* Everything of token t that is somewhere in the tables.
Held(t) ==
  LET n(v) == Amount(tokens.info[t].type, v)
  IN  Total(Accounts, LAMBDA a : Balance(tokens, a, t))
      + Total(Receivables(t), LAMBDA k : n(tokens.receivables[k].value))
      + Total(OpenOrders(t), LAMBDA o : n(Left(tokens.orders[o])))
      + Total(OpenTakes(t), LAMBDA s : n(tokens.swaps[s].value))
      + Total(Lost(t), LAMBDA i : n(tokens.lost[i].value))

\* No operation creates or destroys tokens: the local supply is what accounts
\* hold, can receive and have locked in orders and takes, and what was lost
\* when a refund replaced a receivable; it is what was issued here and did
\* not leave, plus what came from other chains.  Nothing else is lost: no
\* payment by an operation ever meets a receivable under its key.
SupplyConserved ==
  \A t \in Tokens : tokens.info[t] # NoInfo =>
    /\ tokens.info[t].local = Held(t)
    /\ tokens.info[t].local = tokens.info[t].total
         + Total(Chains, LAMBDA c : Crossed(tokens.in, t, "MAP", c))
         + Total(Chains, LAMBDA c : Crossed(tokens.in, t, "UNWRAP", c))
         - Total(Chains, LAMBDA c : Crossed(tokens.out, t, "unmapped", c))
         - Total(Chains, LAMBDA c : Crossed(tokens.out, t, "wrapped", c))

\* An identifier that was minted or mapped, and not burned, unmapped or
\* wrapped since, is in exactly one place; any other one is nowhere.
IdInOnePlace ==
  \A t \in Tokens, v \in TokenIds :
    tokens.info[t] # NoInfo /\ tokens.info[t].type = "721" =>
      LET id == tokens.ids[t][v]
          here == id # NoInfo /\ ~id.burned /\ ~id.unmapped /\ ~id.wrapped
      IN  Cardinality({a \in Accounts : <<a, t, v>> \in tokens.owned})
          + Cardinality({k \in Receivables(t) : tokens.receivables[k].value = v})
          + Cardinality({o \in OpenOrders(t) : tokens.orders[o].valueOffer = v})
          + Cardinality({s \in OpenTakes(t) : tokens.swaps[s].value = v})
          + Cardinality({i \in Lost(t) : tokens.lost[i].value = v})
          = IF here THEN 1 ELSE 0

\* The table of holders lists exactly the accounts with a balance, with that
\* balance, their number is the one in the token's record, and the balance of
\* a non-fungible token counts the identifiers the account owns.
HoldersExact ==
  \A t \in Tokens : tokens.info[t] # NoInfo =>
    LET rich == {a \in Accounts : Balance(tokens, a, t) > 0}
    IN  /\ tokens.info[t].holders = Cardinality(rich)
        /\ {x \in tokens.holder : x[1] = t}
             = {<<t, a, Balance(tokens, a, t)>> : a \in rich}
        /\ tokens.info[t].type = "721" => \A a \in Accounts :
             Balance(tokens, a, t)
               = Cardinality({x \in tokens.owned : x[1] = a /\ x[2] = t})

\* No sequence of blocks and events leads the application into one of the
\* states it takes for an inconsistency of its ledger, in which it stops.
NeverInconsistent == ~halted

\* Every swap is settled by the block at the agreed height: an inquiry is open
\* only while the main account has no block at the height of the answer, a
\* take only while the maker has none at the height of the trade, and the
\* waiting tables hold exactly the open ones.  A block appended unconfirmed
\* at such a height would settle nothing, not even when it is confirmed.
SettledInTime ==
  /\ \A s \in DOMAIN tokens.swaps :
       /\ tokens.swaps[s].status = "INQUIRY" =>
            head[OrderOf(tokens, s).main] < tokens.swaps[s].ack
       /\ tokens.swaps[s].status = "TAKE" =>
            head[tokens.swaps[s].maker] < tokens.swaps[s].trade
  /\ tokens.inquiries =
       {<<OrderOf(tokens, s).main, tokens.swaps[s].ack, s[1], s[2]>> :
          s \in {x \in DOMAIN tokens.swaps :
                   tokens.swaps[x].status = "INQUIRY"}}
  /\ tokens.takes =
       {<<tokens.swaps[s].maker, tokens.swaps[s].trade, s[1], s[2]>> :
          s \in {x \in DOMAIN tokens.swaps : tokens.swaps[x].status = "TAKE"}}

-----------------------------------------------------------------------------
(* SwapLife is what the application promises about swaps.                  *)

Status(s) == IF s \in DOMAIN tokens.swaps THEN tokens.swaps[s].status ELSE "NONE"
Answered == {"INQUIRY_ACK", "TAKE", "TAKE_ACK", "TAKE_NACK"}

\* The swaps inquiries of this instance can open.
Swaps == {s \in Accounts \X Heights :
            "INQUIRY" \in Ops[s[1]] /\ s[2] \in Genesis.head[s[1]] + 1 .. MaxHeight[s[1]]}

Life == INSTANCE SwapLife WITH
  Parties <- Accounts,
  Heads <- Genesis.head,
  NoDeal <- NoInfo,
  status <- [s \in Swaps |->
               IF Status(s) \in Answered THEN Status(s) ELSE "NONE"],
  deal <- [s \in Swaps |->
             IF Status(s) \in Answered
               THEN <<tokens.swaps[s].maker, tokens.swaps[s].trade>>
               ELSE NoInfo]

\* Every step of the application is a step of SwapLife: a block that answers,
\* takes or settles changes the swaps it should and no others, a take that
\* comes after the maker's block is refunded at once, and a swap that was
\* traded or refunded never changes again.
SwapLifeImplemented == Life!LifeSpec

=============================================================================
