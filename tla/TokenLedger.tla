---------------------------- MODULE TokenLedger -----------------------------
(***************************************************************************)
(* The tables of the token application and what its blocks do to them      *)
(* (rai/rai_token/token.cpp): creation, minting, burning, sending and      *)
(* receiving of tokens, and the traffic with other chains.                 *)
(*                                                                         *)
(* A table is a field of the record L; a handler is an operator from a     *)
(* record to the next one.  A handler that gives a block up (a TOKEN_...   *)
(* status) still books the block with UpdateLedgerCommon; one that returns *)
(* APP_PROCESS_HALT or APP_PROCESS_UNEXPECTED sets fault, and the machine  *)
(* aborts the transaction.  Counters and indices that no handler reads     *)
(* (transfers, swaps, links, uris, symbols) are left out.                  *)
(***************************************************************************)
EXTENDS Integers, Sequences, FiniteSets

CONSTANTS
  Accounts,
  ExternalTokens,  \* tokens of other chains
  Chains,          \* the other chains
  ChainOf,         \* [ExternalTokens -> Chains]
  TokenIds,        \* identifiers of non-fungible tokens
  VALUES,          \* token values are numbers modulo VALUES (2^256)
  NoInfo           \* no record in a table

\* An account issues at most one token, named by the account.
Tokens == Accounts \cup ExternalTokens
Types == {"20", "721"}

ASSUME TokenLedgerAssumption ==
  /\ Accounts \cap ExternalTokens = {}
  /\ ChainOf \in [ExternalTokens -> Chains]
  /\ TokenIds \subseteq Nat
  /\ VALUES \in Nat \ {0}

Plus(x, y) == (x + y) % VALUES

EmptyTokens ==
  [fault |-> FALSE,
   info |-> [t \in Tokens |-> NoInfo],                       \* TokenInfo
   head |-> [a \in Accounts |-> NoInfo],                     \* AccountTokensInfo
   account |-> [a \in Accounts |-> [t \in Tokens |-> NoInfo]],  \* AccountTokenInfo
   holder |-> {},                                            \* TokenHolder
   owned |-> {},                                             \* AccountTokenId
   ids |-> [t \in Tokens |-> [i \in TokenIds |-> NoInfo]],   \* TokenIdInfo
   receivables |-> <<>>,                                     \* TokenReceivable
   out |-> <<>>,                                             \* TokenUnmapInfo, TokenWrapInfo
   in |-> <<>>,                                              \* TokenMapInfo, TokenUnwrapInfo
   lost |-> <<>>]    \* history: receivables replaced by another one

Fault(L) == [L EXCEPT !.fault = TRUE]

\* A table with record r under the key.
Put(table, key, r) ==
  [k \in DOMAIN table \cup {key} |-> IF k = key THEN r ELSE table[k]]

TokenInfo(type, burnable, mintable, circulable, cap, supply) ==
  [type |-> type, burnable |-> burnable, mintable |-> mintable,
   circulable |-> circulable, cap |-> cap, total |-> supply,
   local |-> supply, holders |-> 0]

TokenIdInfo == [burned |-> FALSE, unmapped |-> FALSE, wrapped |-> FALSE]

\* A transaction: block h of account a, or event 0 of block h of chain a.
Tx(a, h) == <<a, h, 0>>

ReceivableKey(to, t, tx) == [to |-> to, token |-> t, tx |-> tx]

Receivable(from, v, h, type, source) ==
  [from |-> from, value |-> v, height |-> h, type |-> type, source |-> source]

Missing(L, a, t) == L.account[a][t] = NoInfo
Balance(L, a, t) == IF Missing(L, a, t) THEN 0 ELSE L.account[a][t]

\* What v is of the supply: an amount, or one identifier.
Amount(type, v) == IF type = "20" THEN v ELSE 1

-----------------------------------------------------------------------------
(* UpdateLedger...                                                         *)

\* The block is booked for the account and for the tokens ts.
UpdateLedgerCommon(L, a, h, ts) ==
  IF L.head[a] # NoInfo /\ h <= L.head[a]
    THEN Fault(L)
    ELSE [L EXCEPT !.head[a] = h,
                   !.account[a] = [t \in Tokens |->
                      IF t \in ts /\ @[t] = NoInfo THEN 0 ELSE @[t]]]

\* TokenReceivablePut replaces what the key holds.
UpdateLedgerReceivable(L, key, r) ==
  [L EXCEPT !.receivables = Put(@, key, r),
            !.lost = IF key \notin DOMAIN L.receivables THEN @
                     ELSE Append(@, [token |-> key.token, to |-> key.to,
                                     value |-> L.receivables[key].value,
                                     by |-> r.source])]

\* Mutant: the holder of the former balance stays in the table.
UpdateLedgerBalanceStale(L, a, t, prev, cur) ==
  [L EXCEPT !.info[t].holders = @ + (IF prev = 0 THEN 1 ELSE 0),
            !.holder = @ \cup {<<t, a, cur>>}, !.account[a][t] = cur]

UpdateLedgerBalance(L, a, t, prev, cur) ==
  LET holders == L.info[t].holders + (IF prev = 0 THEN 1 ELSE 0)
  IN  CASE prev = cur -> L
        [] /\ prev # cur
           /\ \/ L.info[t] = NoInfo
              \/ cur = 0 /\ holders = 0
              \/ prev > 0 /\ <<t, a, prev>> \notin L.holder -> Fault(L)
        [] OTHER ->
             [L EXCEPT !.info[t].holders = holders - (IF cur = 0 THEN 1 ELSE 0),
                       !.holder = (@ \ {<<t, a, prev>>}) \cup
                                    (IF cur > 0 THEN {<<t, a, cur>>} ELSE {}),
                       !.account[a][t] = cur]

UpdateLedgerSupplies(L, t, total, local) ==
  IF L.info[t] = NoInfo
    THEN Fault(L)
    ELSE [L EXCEPT !.info[t].total = total, !.info[t].local = local]

\* The account can give v of the token away.
CanPay(L, a, t, v) ==
  IF L.info[t].type = "20" THEN v <= Balance(L, a, t)
                           ELSE <<a, t, v>> \in L.owned

\* v leaves the account: the balance, and the identifier if it has one.
Pay(L, a, t, v) ==
  LET type == L.info[t].type
      paid == UpdateLedgerBalance(L, a, t, Balance(L, a, t),
                                  Balance(L, a, t) - Amount(type, v))
  IN  IF type = "721" /\ (Balance(L, a, t) = 0 \/ L.ids[t][v] = NoInfo)
        THEN Fault(L)
        ELSE [paid EXCEPT !.owned = @ \ {<<a, t, v>>}]

-----------------------------------------------------------------------------
(* Operations of the issuer.                                               *)

\* c is the creation data; CheckData keeps the initial supply below the cap.
ProcessCreate(L, a, h, c) ==
  LET minted == c.type = "20" /\ c.init > 0
      new == [L EXCEPT !.info[a] = TokenInfo(c.type, c.burnable,
                 c.type = "721" \/ c.mintable, c.circulable, c.cap,
                 IF minted THEN c.init ELSE 0)]
      funded == UpdateLedgerReceivable(new, ReceivableKey(a, a, Tx(a, h)),
                  Receivable(a, c.init, h, "20", "MINT"))
  IN  IF L.info[a] # NoInfo
        THEN UpdateLedgerCommon(L, a, h, {a})
        ELSE UpdateLedgerCommon(IF minted THEN funded ELSE new, a, h, {a})

\* Mutant: an identifier is minted again while it exists.
ProcessMintAgain(L, a, h, type, to, v) ==
  LET total == Plus(L.info[a].total, Amount(type, v))
      local == Plus(L.info[a].local, Amount(type, v))
  IN  IF L.info[a] = NoInfo \/ total <= L.info[a].total
        THEN UpdateLedgerCommon(L, a, h, {})
        ELSE UpdateLedgerCommon(UpdateLedgerSupplies(UpdateLedgerReceivable(
               IF type = "20" THEN L ELSE [L EXCEPT !.ids[a][v] = TokenIdInfo],
               ReceivableKey(to, a, Tx(a, h)),
               Receivable(a, v, h, type, "MINT")), a, total, local), a, h, {a})

ProcessMint(L, a, h, type, to, v) ==
  LET info == L.info[a]
      total == Plus(info.total, Amount(type, v))
      local == Plus(info.local, Amount(type, v))
      ids == IF type = "20" THEN L
             ELSE IF L.ids[a][v] = NoInfo
                    THEN [L EXCEPT !.ids[a][v] = TokenIdInfo]
                    ELSE [L EXCEPT !.ids[a][v].burned = FALSE]
  IN  CASE info = NoInfo -> UpdateLedgerCommon(L, a, h, {})
        [] info # NoInfo /\ (~info.mintable \/ type # info.type) ->
             UpdateLedgerCommon(L, a, h, {a})
        [] OTHER ->
             IF total <= info.total \/ (info.cap > 0 /\ total > info.cap)
               THEN UpdateLedgerCommon(L, a, h, {a})
             ELSE IF local <= info.local
               THEN Fault(L)
             ELSE IF type = "721" /\ L.ids[a][v] # NoInfo
                                  /\ ~L.ids[a][v].burned
               THEN UpdateLedgerCommon(L, a, h, {a})
             ELSE UpdateLedgerCommon(UpdateLedgerSupplies(
                    UpdateLedgerReceivable(ids, ReceivableKey(to, a, Tx(a, h)),
                      Receivable(a, v, h, type, "MINT")),
                    a, total, local), a, h, {a})

ProcessBurn(L, a, h, type, v) ==
  LET info == L.info[a]
      n == Amount(type, v)
      ids == IF type = "20" THEN L ELSE [L EXCEPT !.ids[a][v].burned = TRUE]
  IN  CASE info = NoInfo -> UpdateLedgerCommon(L, a, h, {})
        [] info # NoInfo /\ (~info.burnable \/ type # info.type) ->
             UpdateLedgerCommon(L, a, h, {a})
        [] OTHER ->
             IF Missing(L, a, a) THEN Fault(L)
             ELSE IF ~CanPay(L, a, a, v) THEN UpdateLedgerCommon(L, a, h, {a})
             ELSE IF n > info.total \/ n > info.local
                     \/ (type = "721" /\ L.ids[a][v] = NoInfo) THEN Fault(L)
             ELSE UpdateLedgerCommon(UpdateLedgerSupplies(Pay(ids, a, a, v),
                    a, info.total - n, info.local - n), a, h, {a})

-----------------------------------------------------------------------------
(* Transfers.                                                              *)

Circulates(L, t, a, to) ==
  L.info[t].circulable \/ t \notin Accounts \/ a = t \/ to = t

\* Mutant: the sender keeps what it sent.
ProcessSendKeep(L, a, h, t, type, to, v) ==
  IF Balance(L, a, t) = 0 \/ type # L.info[t].type \/ ~CanPay(L, a, t, v)
    THEN UpdateLedgerCommon(L, a, h, {})
    ELSE UpdateLedgerCommon(UpdateLedgerReceivable(L,
           ReceivableKey(to, t, Tx(a, h)),
           Receivable(a, v, h, type, "SEND")), a, h, {t})

ProcessSend(L, a, h, t, type, to, v) ==
  CASE Balance(L, a, t) = 0 -> UpdateLedgerCommon(L, a, h, {})
    [] Balance(L, a, t) # 0 /\ L.info[t] = NoInfo -> Fault(L)
    [] OTHER ->
         IF type # L.info[t].type \/ ~Circulates(L, t, a, to)
            \/ ~CanPay(L, a, t, v)
           THEN UpdateLedgerCommon(L, a, h, {t})
           ELSE UpdateLedgerCommon(UpdateLedgerReceivable(Pay(L, a, t, v),
                  ReceivableKey(to, t, Tx(a, h)),
                  Receivable(a, v, h, type, "SEND")), a, h, {t})

\* The block claims that the receivable under key is r.
ProcessReceive(L, a, h, key, r) ==
  LET t == key.token
      prev == Balance(L, a, t)
      cur == Plus(prev, Amount(r.type, r.value))
      foreign == r.source \in {"MAP", "UNWRAP"}
      taken == [L EXCEPT
        !.receivables = [k \in DOMAIN @ \ {key} |-> @[k]],
        !.owned = IF r.type = "721" THEN @ \cup {<<a, t, r.value>>} ELSE @,
        !.in = IF foreign /\ key.tx \in DOMAIN @
                 THEN [@ EXCEPT ![key.tx].received = TRUE] ELSE @]
  IN  CASE \/ ~foreign /\ r.from = a /\ r.height >= h
           \/ key \notin DOMAIN L.receivables -> UpdateLedgerCommon(L, a, h, {})
        [] key \in DOMAIN L.receivables /\ L.receivables[key] # r ->
             UpdateLedgerCommon(L, a, h, {t})
        [] OTHER ->
             IF L.info[t] = NoInfo THEN Fault(L)
             ELSE IF L.info[t].type # r.type THEN Fault(L)
             ELSE IF cur < prev THEN UpdateLedgerCommon(L, a, h, {t})
             ELSE IF \/ r.type = "721" /\ L.ids[t][r.value] = NoInfo
                     \/ foreign /\ key.tx \notin DOMAIN L.in
               THEN Fault(L)
             ELSE UpdateLedgerCommon(UpdateLedgerBalance(taken, a, t, prev, cur),
                                     a, h, {t})

-----------------------------------------------------------------------------
(* Other chains.  Tokens leave by an unmap (to the token's own chain) or a *)
(* wrap (to another chain) and come by a map or an unwrap.                 *)

Withdraw(L, a, h, t, type, v, kind, c) ==
  LET info == L.info[t]
      n == Amount(type, v)
      gone == [L EXCEPT
        !.ids[t] = IF type = "20" THEN @ ELSE [@ EXCEPT ![v][kind] = TRUE],
        !.out = Put(@, Tx(a, h), [token |-> t, value |-> v, kind |-> kind,
                                  chain |-> c, target |-> NoInfo])]
  IN  CASE Balance(L, a, t) = 0 -> UpdateLedgerCommon(L, a, h, {})
        [] Balance(L, a, t) # 0 /\ info = NoInfo -> Fault(L)
        [] OTHER ->
             IF type # info.type \/ ~CanPay(L, a, t, v)
               THEN UpdateLedgerCommon(L, a, h, {t})
             ELSE IF n > info.local
                     \/ (type = "721" /\ L.ids[t][v] = NoInfo) THEN Fault(L)
             ELSE UpdateLedgerCommon(UpdateLedgerSupplies(Pay(gone, a, t, v),
                    t, info.total, info.local - n), a, h, {t})

ProcessUnmap(L, a, h, t, type, v) ==
  Withdraw(L, a, h, t, type, v, "unmapped", ChainOf[t])

ProcessWrap(L, a, h, t, type, v, c) ==
  Withdraw(L, a, h, t, type, v, "wrapped", c)

\* The contract of another chain learns of a token.
ProcessCrossChainTokenEvent(L, t, type) ==
  IF L.info[t] # NoInfo
    THEN Fault(L)
    ELSE [L EXCEPT !.info[t] =
            TokenInfo(type, FALSE, type = "721", TRUE, 0, 0)]

\* The events MAP and UNWRAP: v of the token arrives at block h of chain c;
\* back is the mark of the identifiers that can come this way again.
Arrive(L, c, h, t, type, to, v, source, back) ==
  LET info == L.info[t]
      local == Plus(info.local, Amount(type, v))
      ids == IF type = "20" THEN L
             ELSE IF L.ids[t][v] = NoInfo
                    THEN [L EXCEPT !.ids[t][v] = TokenIdInfo]
                    ELSE [L EXCEPT !.ids[t][v][back] = FALSE]
      put == UpdateLedgerReceivable(ids, ReceivableKey(to, t, Tx(c, h)),
               Receivable(c, v, h, type, source))
  IN  CASE info = NoInfo \/ Tx(c, h) \in DOMAIN L.in -> Fault(L)
        [] info # NoInfo /\ Tx(c, h) \notin DOMAIN L.in ->
             IF \/ info.type # type
                \/ local < info.local
                \/ type = "721" /\ L.ids[t][v] # NoInfo /\ ~L.ids[t][v][back]
               THEN Fault(L)
               ELSE [UpdateLedgerSupplies(put, t, info.total, local)
                       EXCEPT !.in = Put(@, Tx(c, h),
                         [token |-> t, value |-> v, kind |-> source,
                          chain |-> c, received |-> FALSE])]

ProcessCrossChainMapEvent(L, c, h, t, type, to, v) ==
  Arrive(L, c, h, t, type, to, v, "MAP", "unmapped")

ProcessCrossChainUnwrapEvent(L, c, h, t, type, to, v) ==
  Arrive(L, c, h, t, type, to, v, "UNWRAP", "wrapped")

\* The events UNMAP and WRAP: the other chain has paid what block tx of this
\* one gave away.  A missing record is an error for UNMAP and ignored for WRAP.
ProcessCrossChainUnmapEvent(L, tx, h) ==
  IF tx \notin DOMAIN L.out THEN Fault(L)
                            ELSE [L EXCEPT !.out[tx].target = h]

ProcessCrossChainWrapEvent(L, tx, h) ==
  IF tx \notin DOMAIN L.out THEN L ELSE [L EXCEPT !.out[tx].target = h]

=============================================================================
