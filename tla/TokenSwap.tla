----------------------------- MODULE TokenSwap ------------------------------
(***************************************************************************)
(* Swaps of the token application (rai/rai_token/token.cpp).  A maker locks *)
(* what it offers in an order.  A taker inquires, naming the height at     *)
(* which the maker's main account is to answer; the answer names the       *)
(* height at which the maker is to trade; the taker then locks its side.   *)
(* Whatever block the maker has at that height settles the swap: it pays   *)
(* both sides, or the taker gets its tokens back.                          *)
(*                                                                         *)
(* A block that has to wait for another one is not processed until then;   *)
(* these conditions are guards of the actions in TokenMachine.             *)
(***************************************************************************)
EXTENDS TokenLedger, SequencesExt

CONSTANT OrderLimit   \* credit of an account times ORDERS_PER_CREDIT

\* The tables of the swaps, added to those of TokenLedger.
EmptySwaps ==
  [main |-> [a \in Accounts |-> NoInfo],      \* SwapMainAccount
   orders |-> <<>>,                           \* OrderInfo by <<maker, height>>
   swaps |-> <<>>,                            \* SwapInfo by <<taker, height>>
   inquiries |-> {},                          \* InquiryWaiting
   takes |-> {},                              \* TakeWaiting
   counts |-> [a \in Accounts |-> NoInfo]]    \* AccountSwapInfo

FungiblePair(o) == o.typeOffer = "20" /\ o.typeWant = "20"
Locked(o) == IF FungiblePair(o) THEN o.max ELSE o.valueOffer
Left(o) == IF FungiblePair(o) THEN o.left ELSE o.valueOffer

OrderInfo(o, main) ==
  [offer |-> o.offer, typeOffer |-> o.typeOffer, valueOffer |-> o.valueOffer,
   want |-> o.want, typeWant |-> o.typeWant, valueWant |-> o.valueWant,
   min |-> o.min, max |-> o.max, main |-> main, left |-> Locked(o), finished |-> "no"]

\* Pairs that CheckData lets into a block.
ValidOrder(o) ==
  /\ o.offer = o.want => o.typeOffer = "721" /\ o.valueOffer # o.valueWant
  /\ o.typeOffer = "20" => o.valueOffer > 0
  /\ o.typeWant = "20" => o.valueWant > 0
  /\ FungiblePair(o) =>
       /\ o.max > 0 /\ (o.max * o.valueWant) % o.valueOffer = 0
       /\ o.min <= o.max /\ (o.min * o.valueWant) % o.valueOffer = 0

NoSwaps == [orders |-> 0, swaps |-> 0]
Counts(L, a) == IF L.counts[a] = NoInfo THEN NoSwaps ELSE L.counts[a]

\* AccountSwapInfo: created on demand, or an error without it.
Counted(L, a) == [L EXCEPT !.counts[a] = Counts(L, a)]

UpdateLedgerAccountOrdersInc(L, a) ==
  [L EXCEPT !.counts[a] = [Counts(L, a) EXCEPT !.orders = @ + 1]]

UpdateLedgerAccountOrdersDec(L, a) ==
  IF Counts(L, a).orders = 0 THEN Fault(L)
                             ELSE [L EXCEPT !.counts[a].orders = @ - 1]

UpdateLedgerAccountActiveSwapsInc(L, a) ==
  IF L.counts[a] = NoInfo THEN Fault(L)
                          ELSE [L EXCEPT !.counts[a].swaps = @ + 1]

UpdateLedgerAccountActiveSwapsDec(L, a) ==
  IF Counts(L, a).swaps = 0 THEN Fault(L)
                            ELSE [L EXCEPT !.counts[a].swaps = @ - 1]

\* The two sides and the tokens of a swap are in the tables.
SwapKnown(L, s) ==
  /\ s \in DOMAIN L.swaps
  /\ <<L.swaps[s].maker, L.swaps[s].order>> \in DOMAIN L.orders

OrderOf(L, s) == L.orders[<<L.swaps[s].maker, L.swaps[s].order>>]

-----------------------------------------------------------------------------
(* Settlement by height.                                                   *)

\* The block at the height of the answer is there and did not answer.
PurgeInquiryWaiting(L, main, h) ==
  LET due == {w \in L.inquiries : w[1] = main /\ w[2] = h}
      swaps == {<<w[3], w[4]>> : w \in due}
  IN  IF \E s \in swaps : s \notin DOMAIN L.swaps
        THEN Fault(L)
      ELSE IF \E s \in swaps : L.swaps[s].status # "INQUIRY"
        THEN Fault(L)
      ELSE [L EXCEPT !.inquiries = @ \ due,
                     !.swaps = [s \in DOMAIN @ |->
                        IF s \in swaps
                          THEN [@[s] EXCEPT !.status = "INQUIRY_NACK"]
                          ELSE @[s]]]

\* Mutant: the taker is not paid back.
RefundNothing(L, maker, h, s) ==
  [L EXCEPT !.swaps[s].status = "TAKE_NACK",
            !.takes = @ \ {<<maker, h, s[1], s[2]>>}]

\* Block h of the maker did not trade: swap s of taker s[1] is paid back.
Refund(L, maker, h, s) ==
  LET want == OrderOf(L, s).want
      type == OrderOf(L, s).typeWant
  IN  IF ~SwapKnown(L, s) THEN Fault(L)
      ELSE IF L.swaps[s].status # "TAKE" \/ L.info[want] = NoInfo THEN Fault(L)
      ELSE IF L.info[want].type # type THEN Fault(L)
      ELSE [UpdateLedgerReceivable(L, ReceivableKey(s[1], want, Tx(maker, h)),
              Receivable(maker, L.swaps[s].value, h, type, "REFUND"))
              EXCEPT !.swaps[s].status = "TAKE_NACK",
                     !.takes = @ \ {<<maker, h, s[1], s[2]>>}]

\* The takes of a taker are refunded in the order of their inquiries.
PurgeTakeWaiting(L, maker, h) ==
  LET due == {<<w[3], w[4]>> : w \in {x \in L.takes : x[1] = maker /\ x[2] = h}}
      latest(S) == CHOOSE s \in S : \A u \in S : u[2] <= s[2]
  IN  MapThenFoldSet(LAMBDA s, M : Refund(M, maker, h, s), L,
                     LAMBDA s : s, latest, due)

\* What the application does with every block after it was appended.
AfterBlockAppend(L, a, h) ==
  PurgeTakeWaiting(PurgeInquiryWaiting(L, a, h), a, h)

-----------------------------------------------------------------------------
(* Operations.                                                             *)

ProcessSwapConfig(L, a, h, main) ==
  IF a = main THEN UpdateLedgerCommon(L, a, h, {})
              ELSE UpdateLedgerCommon([L EXCEPT !.main[a] = main], a, h, {})

ProcessSwapMake(L, a, h, o) ==
  CASE Missing(L, a, o.offer) -> UpdateLedgerCommon(L, a, h, {})
    [] ~Missing(L, a, o.offer) /\ L.info[o.offer] = NoInfo -> Fault(L)
    [] OTHER ->
         IF \/ L.main[a] = NoInfo
            \/ Counts(L, a).orders >= OrderLimit
            \/ o.typeOffer # L.info[o.offer].type
            \/ ~CanPay(L, a, o.offer, Locked(o))
           THEN UpdateLedgerCommon(L, a, h, {o.offer})
           ELSE UpdateLedgerCommon(UpdateLedgerAccountOrdersInc(
                  [Pay(L, a, o.offer, Locked(o)) EXCEPT
                     !.orders = Put(@, <<a, h>>, OrderInfo(o, L.main[a]))], a),
                  a, h, {o.offer})

CheckInquiryValue(o, v) ==
  IF FungiblePair(o) THEN v > 0 /\ (o.valueOffer * v) % o.valueWant = 0
                            /\ (o.valueOffer * v) \div o.valueWant < VALUES
                     ELSE v = o.valueWant

CheckTakeAckValue(o, v, ack) ==
  IF FungiblePair(o)
    THEN /\ ack > 0 /\ ack <= o.left
         /\ ack >= o.min \/ ack = o.left
         /\ o.valueOffer * v = o.valueWant * ack
    ELSE ack = o.valueOffer

\* A token that may not circulate is traded with its issuer only.
CheckOrderCirculable(L, o, maker, taker) ==
  \A t \in {o.offer, o.want} :
    \/ t \notin Accounts
    \/ L.info[t].circulable
    \/ t \in {maker, taker}

\* acked: the block that was to answer is in the ledger already.
ProcessSwapInquiry(L, a, h, maker, order, ackHeight, v, acked) ==
  LET o == L.orders[<<maker, order>>]
      asked == Counted([L EXCEPT
        !.swaps = Put(@, <<a, h>>, [status |-> "INQUIRY", maker |-> maker,
           order |-> order, ack |-> ackHeight, value |-> v,
           take |-> NoInfo, trade |-> NoInfo]),
        !.inquiries = @ \cup {<<o.main, ackHeight, a, h>>}], a)
      booked == UpdateLedgerCommon(asked, a, h, {o.want})
  IN  CASE maker = a \/ <<maker, order>> \notin DOMAIN L.orders ->
             UpdateLedgerCommon(L, a, h, {})
        [] maker # a /\ <<maker, order>> \in DOMAIN L.orders ->
             IF o.main = a \/ Balance(L, a, o.want) = 0
               THEN UpdateLedgerCommon(L, a, h, {})
             ELSE IF L.info[o.want] = NoInfo
               THEN Fault(L)
             ELSE IF L.info[o.want].type # o.typeWant
               THEN UpdateLedgerCommon(L, a, h, {o.want})
             ELSE IF o.offer \in Accounts /\ L.info[o.offer] = NoInfo
               THEN Fault(L)
             ELSE IF \/ ~CheckOrderCirculable(L, o, maker, a)
                     \/ ~CheckInquiryValue(o, v)
                     \/ ~CanPay(L, a, o.want, v)
               THEN UpdateLedgerCommon(L, a, h, {o.want})
             ELSE IF acked THEN PurgeInquiryWaiting(booked, o.main, ackHeight)
                           ELSE booked

\* Mutant: the inquiry that was answered still waits for its answer.
ProcessSwapInquiryAckStillWaiting(L, a, h, taker, i, trade, late) ==
  IF <<a, h, taker, i>> \notin L.inquiries
    THEN UpdateLedgerCommon(L, a, h, {})
    ELSE UpdateLedgerCommon(UpdateLedgerAccountActiveSwapsInc(
           UpdateLedgerAccountActiveSwapsInc(
             Counted([L EXCEPT !.swaps[<<taker, i>>].status = "INQUIRY_ACK",
                               !.swaps[<<taker, i>>].trade = trade],
                     L.swaps[<<taker, i>>].maker),
             L.swaps[<<taker, i>>].maker), taker), a, h, {})

\* late: the maker's block before the trade is younger than the deadline.
ProcessSwapInquiryAck(L, a, h, taker, i, trade, late) ==
  LET s == <<taker, i>>
      maker == L.swaps[s].maker
      acked == Counted([L EXCEPT !.inquiries = @ \ {<<a, h, taker, i>>},
                                 !.swaps[s].status = "INQUIRY_ACK",
                                 !.swaps[s].trade = trade], maker)
  IN  CASE taker = a \/ <<a, h, taker, i>> \notin L.inquiries ->
             UpdateLedgerCommon(L, a, h, {})
        [] taker # a /\ <<a, h, taker, i>> \in L.inquiries ->
             IF ~SwapKnown(L, s) THEN Fault(L)
             ELSE IF \/ L.info[OrderOf(L, s).offer] = NoInfo
                     \/ L.swaps[s].status # "INQUIRY" THEN Fault(L)
             ELSE IF late
               THEN UpdateLedgerCommon(L, a, h, {OrderOf(L, s).offer})
             ELSE UpdateLedgerCommon(UpdateLedgerAccountActiveSwapsInc(
                    UpdateLedgerAccountActiveSwapsInc(acked, maker), taker),
                    a, h, {OrderOf(L, s).offer})

\* Mutant: a take after the height of the trade is left to that block.
ProcessSwapTakeTooLate(L, a, h, i, traded) ==
  LET s == <<a, i>>
      want == OrderOf(L, s).want
  IN  IF \/ i >= h \/ s \notin DOMAIN L.swaps
         \/ s \in DOMAIN L.swaps /\
              (L.swaps[s].status # "INQUIRY_ACK" \/
               ~CanPay(L, a, OrderOf(L, s).want, L.swaps[s].value))
        THEN UpdateLedgerCommon(L, a, h, {})
        ELSE UpdateLedgerCommon([Pay(L, a, want, L.swaps[s].value) EXCEPT
               !.swaps[s].status = "TAKE", !.swaps[s].take = h,
               !.takes = @ \cup {<<L.swaps[s].maker, L.swaps[s].trade, a, i>>}],
               a, h, {want})

\* traded: the maker's block at the height of the trade is there already.
ProcessSwapTake(L, a, h, i, traded) ==
  LET s == <<a, i>>
      info == L.swaps[s]
      want == OrderOf(L, s).want
      taken == UpdateLedgerCommon([Pay(L, a, want, info.value) EXCEPT
                 !.swaps[s].status = "TAKE", !.swaps[s].take = h,
                 !.takes = @ \cup {<<info.maker, info.trade, a, i>>}],
                 a, h, {want})
  IN  CASE i >= h \/ s \notin DOMAIN L.swaps -> UpdateLedgerCommon(L, a, h, {})
        [] i < h /\ s \in DOMAIN L.swaps ->
             IF ~SwapKnown(L, s) THEN Fault(L)
             ELSE IF L.info[want] = NoInfo THEN Fault(L)
             ELSE IF L.info[want].type # OrderOf(L, s).typeWant THEN Fault(L)
             ELSE IF info.status # "INQUIRY_ACK"
               THEN UpdateLedgerCommon(L, a, h, {want})
             ELSE IF Missing(L, a, want) THEN Fault(L)
             ELSE IF ~CanPay(L, a, want, info.value)
               THEN UpdateLedgerCommon(L, a, h, {want})
             ELSE IF traded THEN PurgeTakeWaiting(taken, info.maker, info.trade)
                            ELSE taken

\* The order after ack of its offer was paid.
Filled(o, ack) ==
  IF FungiblePair(o)
    THEN [o EXCEPT !.left = @ - ack,
                   !.finished = IF o.left = ack THEN "fulfill" ELSE @]
    ELSE [o EXCEPT !.finished = "fulfill"]

\* Both sides are paid by block h of the maker.
Trade(L, a, h, s, ack) ==
  LET o == OrderOf(L, s)
      filled == Filled(o, ack)
      paid == UpdateLedgerReceivable(
                UpdateLedgerReceivable(L, ReceivableKey(s[1], o.offer, Tx(a, h)),
                  Receivable(a, ack, h, o.typeOffer, "SWAP")),
                ReceivableKey(a, o.want, Tx(a, h)),
                Receivable(a, L.swaps[s].value, h, o.typeWant, "SWAP"))
      traded == [paid EXCEPT !.takes = @ \ {<<a, h, s[1], s[2]>>},
                             !.swaps[s].status = "TAKE_ACK",
                             !.orders[<<a, L.swaps[s].order>>] = filled]
      counted == IF filled.finished = "no" THEN traded
                 ELSE UpdateLedgerAccountOrdersDec(traded, a)
  IN  IF L.info[o.want] = NoInfo THEN Fault(L)
      ELSE UpdateLedgerCommon(UpdateLedgerAccountActiveSwapsDec(
             UpdateLedgerAccountActiveSwapsDec(counted, a), s[1]),
             a, h, {o.offer})

ProcessSwapTakeAck(L, a, h, taker, i, takeHeight, ack) ==
  LET s == <<taker, i>>
      info == L.swaps[s]
      o == OrderOf(L, s)
  IN  CASE taker = a \/ <<a, h, taker, i>> \notin L.takes ->
             UpdateLedgerCommon(L, a, h, {})
        [] taker # a /\ <<a, h, taker, i>> \in L.takes ->
             IF s \notin DOMAIN L.swaps THEN Fault(L)
             ELSE IF info.take # takeHeight THEN UpdateLedgerCommon(L, a, h, {})
             ELSE IF ~SwapKnown(L, s) THEN Fault(L)
             ELSE IF L.info[o.offer] = NoInfo THEN Fault(L)
             ELSE IF \/ L.info[o.offer].type # o.typeOffer
                     \/ info.status # "TAKE"
                     \/ info.trade # h
                     \/ info.maker # a THEN Fault(L)
             ELSE IF o.finished # "no" \/ ~CheckTakeAckValue(o, info.value, ack)
               THEN UpdateLedgerCommon(L, a, h, {o.offer})
             ELSE Trade(L, a, h, s, ack)

\* The maker gives the trade up.  The block is only booked: being at the
\* height of the trade, it makes AfterBlockAppend refund the taker.
ProcessSwapTakeNack(L, a, h, taker, i) ==
  LET s == <<taker, i>>
  IN  CASE taker = a \/ s \notin DOMAIN L.swaps -> UpdateLedgerCommon(L, a, h, {})
        [] taker # a /\ s \in DOMAIN L.swaps ->
             IF L.swaps[s].maker # a THEN UpdateLedgerCommon(L, a, h, {})
             ELSE IF ~SwapKnown(L, s) THEN Fault(L)
             ELSE IF L.info[OrderOf(L, s).offer] = NoInfo THEN Fault(L)
             ELSE IF L.info[OrderOf(L, s).offer].type # OrderOf(L, s).typeOffer
               THEN Fault(L)
             ELSE UpdateLedgerCommon(L, a, h, {OrderOf(L, s).offer})

ProcessSwapCancel(L, a, h, order) ==
  LET o == L.orders[<<a, order>>]
      refunded == UpdateLedgerReceivable(L, ReceivableKey(a, o.offer, Tx(a, h)),
                    Receivable(a, Left(o), h, o.typeOffer, "REFUND"))
  IN  CASE order >= h \/ <<a, order>> \notin DOMAIN L.orders ->
             UpdateLedgerCommon(L, a, h, {})
        [] order < h /\ <<a, order>> \in DOMAIN L.orders ->
             IF L.info[o.offer] = NoInfo THEN Fault(L)
             ELSE IF L.info[o.offer].type # o.typeOffer THEN Fault(L)
             ELSE IF o.finished # "no"
               THEN UpdateLedgerCommon(L, a, h, {o.offer})
             ELSE UpdateLedgerCommon(UpdateLedgerAccountOrdersDec(
                    [refunded EXCEPT !.orders[<<a, order>>].finished = "cancel"],
                    a), a, h, {o.offer})

\* A ping names the maker whose record it touches, a pong touches its own.
ProcessSwapPing(L, a, h, maker) ==
  UpdateLedgerCommon(Counted(L, maker), a, h, {})

ProcessSwapPong(L, a, h) == UpdateLedgerCommon(Counted(L, a), a, h, {})

=============================================================================
