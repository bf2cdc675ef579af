---------------------------- MODULE SourcesProofs -----------------------------
(***************************************************************************)
(* Machine-checked proofs about the sources.  First those that poll: for   *)
(* any deployment, any decimals, any duration of the calls and any number  *)
(* of polls.  Then the handlers of the streams: for any trades, widths,    *)
(* graces, replay windows, bounds and numbers of connections; and, where   *)
(* frames are handled within the grace, that the rows of the trades are    *)
(* the aggregates of their buckets.                                        *)
(***************************************************************************)
EXTENDS MCSources, MCHandlers, FiniteSetTheorems, WellFoundedInduction, TLAPS

-----------------------------------------------------------------------------
(* The Base poller's inductive invariant.                                  *)

Reading == {"eth", "decimals", "usdc", "gas", "layout", "pool", "done"}

BaseTypes ==
    /\ head \in Int /\ block \in Int /\ decimals \in Int
    /\ pc \in Reading \cup {"wait", "block", "stopped"}
    /\ layout \in {"unread", "pair", "mismatch"}
    /\ row \in [eth : Int, usdc : Int, gas : Int, px : Int, src : {"none", "dex", "coinbase"}]

(* The caches hold what was read from the right contracts: a layout only   *)
(* of a pool of the pair, decimals only as the token claims them.          *)
CachesAreRight ==
    /\ layout = "pair" => pool.pair
    /\ decimals # None => decimals = usdc.dec /\ usdc.dec \in 0..MaxTokenDecimals
    /\ pc = "usdc" => decimals # None
    /\ pc = "pool" => layout # "unread"

(* r, of block b: its columns are the chain's at b, or empty.              *)
OfBlock(r, b) ==
    /\ r.eth \in {None, b} /\ r.usdc \in {None, b}
    /\ r.src = "dex" => r.px = b /\ pool.pair
    /\ r.usdc # None => usdc.dec \in 0..MaxTokenDecimals

(* The row so far is of the pinned block, and so was the last one written. *)
RowsOfBlocks ==
    /\ pc = "block" => row = NoRow
    /\ pc \in Reading => OfBlock(row, block)
    /\ OfBlock(last.row, last.block)

BaseInv == BaseTypes /\ CachesAreRight /\ RowsOfBlocks

(* While the warning is not due again and no price was had since, the loss *)
(* has been told.                                                          *)
LossInv == LossIsTold /\ (warned /\ priceless => told)

LEMMA Scaling ==
    ASSUME NEW b \in Int
    PROVE  priceFromSqrtX96(slot0(b)) = b
BY BaseAssumption DEF priceFromSqrtX96, slot0

LEMMA BaseInit == Init => BaseInv
BY BaseAssumption DEF Init, BaseInv, BaseTypes, CachesAreRight, RowsOfBlocks, OfBlock, NoRow, None, Reading

(* The mid is a price of its own, and no column of the chain's.            *)
LEMMA FallbackKeeps ==
    ASSUME BaseTypes, OfBlock(row, block), fallback
    PROVE  /\ row' \in [eth : Int, usdc : Int, gas : Int, px : Int, src : {"none", "dex", "coinbase"}]
           /\ row'.eth = row.eth /\ row'.usdc = row.usdc
           /\ row'.src = "dex" => row'.px = block /\ pool.pair
<1>1. PICK haveMid \in BOOLEAN :
        row' = IF haveMid THEN [row EXCEPT !.px = 0, !.src = "coinbase"] ELSE row
  BY DEF fallback
<1>2. CASE haveMid
  <2>1. row' = [row EXCEPT !.px = 0, !.src = "coinbase"]
    BY <1>1, <1>2
  <2>2. row \in [eth : Int, usdc : Int, gas : Int, px : Int, src : {"none", "dex", "coinbase"}]
    BY DEF BaseTypes
  <2>3. row'.eth = row.eth /\ row'.usdc = row.usdc /\ row'.src = "coinbase"
    BY <2>1, <2>2
  <2>4. row' \in [eth : Int, usdc : Int, gas : Int, px : Int, src : {"none", "dex", "coinbase"}]
    <3>1. [row EXCEPT !.px = 0] \in [eth : Int, usdc : Int, gas : Int, px : Int,
                                     src : {"none", "dex", "coinbase"}]
      BY <2>2
    <3>2. row' = [[row EXCEPT !.px = 0] EXCEPT !.src = "coinbase"]
      BY <2>1, <2>2
    <3>. QED
      BY <3>1, <3>2
  <2>. QED
    BY <2>3, <2>4
<1>3. CASE ~haveMid
  BY <1>1, <1>3 DEF BaseTypes, OfBlock
<1>. QED
  BY <1>2, <1>3

LEMMA BaseStep == BaseInv /\ [Next]_vars => BaseInv'
<1>. SUFFICES ASSUME BaseInv, [Next]_vars PROVE BaseInv'
  OBVIOUS
<1>. USE DEF BaseInv, external, columns, caches, signals
<1>1. CASE World
  BY <1>1 DEF World, Mine, Heal, Cancel, WriterChanges, BaseTypes, CachesAreRight, RowsOfBlocks, OfBlock
<1>2. CASE PollBegin
  BY <1>2 DEF PollBegin, BaseTypes, CachesAreRight, RowsOfBlocks, OfBlock, NoRow, None, Reading
<1>3. CASE Stop
  BY <1>3 DEF Stop, BaseTypes, CachesAreRight, RowsOfBlocks, OfBlock, Reading
<1>4. CASE BlockNumber
  <2>1. PICK ok \in BOOLEAN :
          /\ block' = IF ok THEN head ELSE None
          /\ pc' = CASE ok -> "eth"
                     [] ~ok /\ (canceled \/ left' = 0) -> "stopped"
                     [] OTHER -> "wait"
    BY <1>4 DEF BlockNumber
  <2>2. block' \in Int /\ pc' \in {"eth", "wait", "stopped"}
    BY <2>1 DEF BaseTypes, None
  <2>3. row = NoRow /\ UNCHANGED <<external, row, caches, last>>
    BY <1>4 DEF BlockNumber, RowsOfBlocks
  <2>. QED
    BY <2>2, <2>3 DEF BaseTypes, CachesAreRight, RowsOfBlocks, OfBlock, NoRow, Reading
<1>5. CASE walletETH
  <2>1. PICK ok \in BOOLEAN : row' = IF ok THEN [row EXCEPT !.eth = block] ELSE row
    BY <1>5 DEF walletETH, BlockAt
  <2>2. /\ pc = "eth" /\ pc' = IF decimals = None THEN "decimals" ELSE "usdc"
        /\ UNCHANGED <<external, block, caches, last>>
    BY <1>5 DEF walletETH
  <2>3. BaseTypes'
    BY <2>1, <2>2 DEF BaseTypes, Reading
  <2>4. OfBlock(row, block)' /\ OfBlock(last.row, last.block)'
    BY <2>1, <2>2 DEF BaseTypes, RowsOfBlocks, OfBlock, Reading
  <2>. QED
    BY <2>2, <2>3, <2>4 DEF CachesAreRight, RowsOfBlocks
<1>6. CASE tokenDecimals
  <2>1. PICK ok \in BOOLEAN :
          decimals' = IF ok THEN decimalsOf(returnWord(usdc.deployed, usdc.dec)) ELSE None
    BY <1>6 DEF tokenDecimals
  <2>2. decimals' \in Int /\ (decimals' # None => decimals' = usdc.dec /\ usdc.dec \in 0..MaxTokenDecimals)
    BY <2>1, BaseAssumption DEF decimalsOf, returnWord, None
  <2>3. /\ pc = "decimals" /\ pc' = IF decimals' = None THEN "gas" ELSE "usdc"
        /\ UNCHANGED <<external, columns, layout, last>>
    BY <1>6 DEF tokenDecimals
  <2>. QED
    BY <2>2, <2>3 DEF BaseTypes, CachesAreRight, RowsOfBlocks, OfBlock, Reading
<1>7. CASE walletUSDC
  <2>1. /\ pc = "usdc" /\ pc' = "gas" /\ UNCHANGED <<external, block, caches, last>>
        /\ decimals = usdc.dec /\ usdc.dec \in 0..MaxTokenDecimals
    BY <1>7 DEF walletUSDC, CachesAreRight
  <2>. DEFINE balance == returnWord(usdc.deployed, block + usdc.dec) - decimals
  <2>2. PICK ok \in BOOLEAN :
          row' = IF ok /\ returnWord(usdc.deployed, 0) # None
                   THEN [row EXCEPT !.usdc = balance] ELSE row
    BY <1>7 DEF walletUSDC, BlockAt
  <2>3. returnWord(usdc.deployed, 0) # None => balance = block
    <3>1. CASE usdc.deployed
      <4>1. returnWord(usdc.deployed, block + usdc.dec) = block + usdc.dec
        BY <3>1 DEF returnWord
      <4>. QED
        BY <2>1, <4>1, BaseAssumption DEF BaseTypes
    <3>2. CASE ~usdc.deployed
      BY <3>2 DEF returnWord
    <3>. QED
      BY <3>1, <3>2
  <2>. HIDE DEF balance
  <2>4. row' = row \/ row' = [row EXCEPT !.usdc = block]
    BY <2>2, <2>3
  <2>5. BaseTypes'
    BY <2>1, <2>4 DEF BaseTypes, Reading
  <2>6. OfBlock(row, block)' /\ OfBlock(last.row, last.block)'
    BY <2>1, <2>4 DEF BaseTypes, RowsOfBlocks, OfBlock, Reading
  <2>. QED
    BY <2>1, <2>5, <2>6 DEF CachesAreRight, RowsOfBlocks
<1>8. CASE gasGwei
  <2>1. PICK ok \in BOOLEAN : row' = IF ok THEN [row EXCEPT !.gas = head] ELSE row
    BY <1>8 DEF gasGwei
  <2>2. /\ pc = "gas" /\ pc' = IF layout = "unread" THEN "layout" ELSE "pool"
        /\ UNCHANGED <<external, block, caches, last>>
    BY <1>8 DEF gasGwei
  <2>3. BaseTypes'
    BY <2>1, <2>2 DEF BaseTypes, Reading
  <2>4. OfBlock(row, block)' /\ OfBlock(last.row, last.block)'
    BY <2>1, <2>2 DEF BaseTypes, RowsOfBlocks, OfBlock, Reading
  <2>. QED
    BY <2>2, <2>3, <2>4 DEF CachesAreRight, RowsOfBlocks
<1>9. CASE poolLayout
  <2>1. PICK ok \in BOOLEAN : layout' = resolveLayout(ok)
    BY <1>9 DEF poolLayout
  <2>2. layout' \in {"unread", "pair", "mismatch"} /\ (layout' = "pair" => pool.pair)
    BY <2>1 DEF resolveLayout
  <2>3. pc = "layout" /\ UNCHANGED <<external, block, decimals, last>>
    BY <1>9 DEF poolLayout
  <2>4. OfBlock(row, block) /\ OfBlock(last.row, last.block)
    BY <2>3 DEF RowsOfBlocks, Reading
  <2>5. CASE layout' = "pair"
    <3>1. pc' = "pool" /\ UNCHANGED row
      BY <1>9, <2>5 DEF poolLayout
    <3>. QED
      BY <2>2, <2>3, <2>4, <2>5, <3>1 DEF BaseTypes, CachesAreRight, RowsOfBlocks, OfBlock, Reading
  <2>6. CASE layout' # "pair"
    <3>1. pc' = "done" /\ fallback
      BY <1>9, <2>6 DEF poolLayout
    <3>2. OfBlock(row, block)'
      BY <2>3, <2>4, <3>1, FallbackKeeps DEF OfBlock
    <3>3. BaseTypes'
      BY <2>2, <2>3, <2>4, <3>1, FallbackKeeps DEF BaseTypes, Reading
    <3>4. OfBlock(last.row, last.block)'
      BY <2>3, <2>4 DEF OfBlock
    <3>. QED
      BY <2>2, <2>3, <3>1, <3>2, <3>3, <3>4 DEF CachesAreRight, RowsOfBlocks
  <2>. QED
    BY <2>5, <2>6
<1>10. CASE poolPrice
  <2>1. pc = "pool" /\ pc' = "done" /\ UNCHANGED <<external, block, caches, last>>
    BY <1>10 DEF poolPrice
  <2>2. OfBlock(row, block) /\ OfBlock(last.row, last.block)
    BY <2>1 DEF RowsOfBlocks, Reading
  <2>3. row' \in [eth : Int, usdc : Int, gas : Int, px : Int, src : {"none", "dex", "coinbase"}]
        /\ OfBlock(row, block)'
    <3>1. CASE fallback
      BY <2>1, <2>2, <3>1, FallbackKeeps DEF OfBlock
    <3>2. CASE layout # "mismatch" /\ dexPrice(priceFromSqrtX96(slot0(BlockAt)))
      <4>1. row' = [row EXCEPT !.px = block, !.src = "dex"] /\ pool.pair
        BY <2>1, <3>2, Scaling DEF dexPrice, BlockAt, BaseTypes, CachesAreRight
      <4>. QED
        BY <2>1, <2>2, <4>1 DEF BaseTypes, OfBlock
    <3>. QED
      BY <1>10, <3>1, <3>2 DEF poolPrice
  <2>4. OfBlock(last.row, last.block)'
    BY <2>1, <2>2 DEF OfBlock
  <2>. QED
    BY <2>1, <2>3, <2>4 DEF BaseTypes, CachesAreRight, RowsOfBlocks, Reading
<1>11. CASE submit
  <2>1. /\ pc = "done" /\ pc' \in {"wait", "done", "stopped"}
        /\ UNCHANGED <<external, columns, caches>>
        /\ last' \in {last, [block |-> block, row |-> row]}
    BY <1>11 DEF submit
  <2>2. OfBlock(row, block)' /\ OfBlock(last.row, last.block)'
    BY <2>1 DEF RowsOfBlocks, OfBlock, Reading
  <2>. QED
    BY <2>1, <2>2 DEF BaseTypes, CachesAreRight, RowsOfBlocks, Reading
<1>12. CASE UNCHANGED vars
  BY <1>12 DEF vars, BaseTypes, CachesAreRight, RowsOfBlocks, OfBlock
<1>. QED
  BY <1>1, <1>2, <1>3, <1>4, <1>5, <1>6, <1>7, <1>8, <1>9, <1>10, <1>11, <1>12 DEF Next, Poll

LEMMA LossStep == LossInv /\ [Next]_vars => LossInv'
<1>. SUFFICES ASSUME LossInv, [Next]_vars PROVE LossInv'
  OBVIOUS
<1>. USE DEF LossInv, LossIsTold, signals
<1>1. CASE fallback
  BY <1>1 DEF fallback, warns
<1>2. ASSUME NEW px, dexPrice(px) PROVE LossInv'
  BY <1>2 DEF dexPrice
<1>3. CASE UNCHANGED signals
  BY <1>3
<1>4. UNCHANGED signals \/ fallback \/ \E px : dexPrice(px)
  BY DEF Next, World, Poll, PollBegin, Stop, BlockNumber, walletETH, tokenDecimals, walletUSDC, gasGwei,
         poolLayout, poolPrice, submit, vars
<1>. QED
  BY <1>1, <1>2, <1>3, <1>4

-----------------------------------------------------------------------------
(* The account poller's inductive invariant.                               *)

(* What a poll has read of the account is among what the account was since *)
(* the poll began; a column not read is empty.                             *)
AccountTypes ==
    /\ account \in A!Accounts
    /\ apc \in {"wait", "balance", "positions", "margin", "submit", "stopped"}
    /\ wrote \in BOOLEAN /\ acanceled \in BOOLEAN
    /\ DOMAIN held = {"margin", "contracts", "intraday"}
    /\ DOMAIN arow = {"margin", "contracts", "pnl", "intraday"}

HeldSinceBegin ==
    /\ account.margin \in held.margin /\ account.contracts \in held.contracts
    /\ account.intraday \in held.intraday

ReadIsHeld ==
    /\ apc = "balance" => arow = A!NoRow /\ ~wrote
    /\ apc \in {"positions", "margin", "submit"} => ~wrote
    /\ apc \in {"positions", "margin", "submit"} \/ wrote =>
          /\ arow.margin \in held.margin
          /\ arow.contracts \in held.contracts \cup {Null}
          /\ arow.intraday \in held.intraday \cup {Null}

AccountInv == AccountTypes /\ HeldSinceBegin /\ ReadIsHeld

(* The warning flag, the count and the run of failures go together.        *)
OutageInv ==
    /\ failing \in BOOLEAN /\ awarned \in BOOLEAN
    /\ failing <=> awarned
    /\ outage = IF failing THEN 1 ELSE 0

LEMMA SignedBack ==
    ASSUME NEW c \in Int, c # 0
    PROVE  A!signedContracts(A!listed(c)[1].n, A!listed(c)[1].side) = c
<1>1. CASE c < 0
  <2>1. A!listed(c) = <<[n |-> -c, side |-> "SHORT"]>>
    BY <1>1 DEF A!listed
  <2>2. A!listed(c)[1] = [n |-> -c, side |-> "SHORT"]
    BY <2>1
  <2>. QED
    BY <2>2 DEF A!signedContracts
<1>2. CASE c > 0
  <2>1. A!listed(c) = <<[n |-> c, side |-> "LONG"]>>
    BY <1>2 DEF A!listed
  <2>2. A!listed(c)[1] = [n |-> c, side |-> "LONG"]
    BY <2>1
  <2>. QED
    BY <2>2 DEF A!signedContracts
<1>. QED
  BY <1>1, <1>2

LEMMA AccountInit == A!Init => AccountInv /\ OutageInv
<1>. SUFFICES ASSUME A!Init PROVE AccountInv /\ OutageInv
  OBVIOUS
<1>. USE DEF A!Init, A!now, A!NoRow
<1>1. AccountTypes
  BY DEF AccountTypes
<1>2. HeldSinceBegin
  BY DEF HeldSinceBegin
<1>3. ReadIsHeld
  BY DEF ReadIsHeld
<1>4. OutageInv
  BY DEF OutageInv
<1>. QED
  BY <1>1, <1>2, <1>3, <1>4 DEF AccountInv

LEMMA AccountStep == AccountInv /\ [A!Next]_accountVars => AccountInv'
<1>. SUFFICES ASSUME AccountInv, [A!Next]_accountVars PROVE AccountInv'
  OBVIOUS
<1>. USE DEF AccountInv, A!poller, A!history, A!world
<1>1. CASE A!AccountMoves
  <2>1. /\ account' \in A!Accounts
        /\ held' = [k \in DOMAIN held |-> held[k] \cup {account'[k]}]
        /\ UNCHANGED <<acanceled, apc, arow, wrote>>
    BY <1>1 DEF A!AccountMoves
  <2>2. /\ held'.margin = held.margin \cup {account'.margin}
        /\ held'.contracts = held.contracts \cup {account'.contracts}
        /\ held'.intraday = held.intraday \cup {account'.intraday}
    BY <2>1 DEF AccountTypes
  <2>3. AccountTypes'
    BY <2>1 DEF AccountTypes
  <2>4. HeldSinceBegin'
    BY <2>2 DEF HeldSinceBegin
  <2>5. ReadIsHeld'
    BY <2>1, <2>2 DEF ReadIsHeld
  <2>. QED
    BY <2>3, <2>4, <2>5
<1>2. CASE A!World
  <2>1. acanceled' \in BOOLEAN /\ UNCHANGED <<account, apc, arow, held, wrote>>
    BY <1>2 DEF A!World, AccountTypes
  <2>. QED
    BY <2>1 DEF AccountTypes, HeldSinceBegin, ReadIsHeld
<1>3. CASE A!PollBegin
  <2>1. /\ apc' = "balance" /\ arow' = A!NoRow /\ held' = A!now(account) /\ wrote' = FALSE
        /\ UNCHANGED <<account, acanceled>>
    BY <1>3 DEF A!PollBegin
  <2>2. AccountTypes'
    BY <2>1 DEF AccountTypes, A!now, A!NoRow
  <2>3. HeldSinceBegin'
    BY <2>1 DEF HeldSinceBegin, A!now
  <2>. QED
    BY <2>1, <2>2, <2>3 DEF ReadIsHeld
<1>4. CASE A!Stop
  BY <1>4 DEF A!Stop, AccountTypes, HeldSinceBegin, ReadIsHeld
<1>5. CASE A!BalanceSummary
  <2>1. /\ apc = "balance" /\ apc' = "positions"
        /\ arow' = [arow EXCEPT !.margin = account.margin, !.pnl = "account"]
        /\ UNCHANGED <<account, acanceled, held, wrote>>
    BY <1>5 DEF A!BalanceSummary
  <2>2. /\ DOMAIN arow' = {"margin", "contracts", "pnl", "intraday"}
        /\ arow'.margin = account.margin /\ arow'.contracts = Null /\ arow'.intraday = Null
    BY <2>1 DEF ReadIsHeld, A!NoRow
  <2>3. AccountTypes' /\ HeldSinceBegin'
    BY <2>1, <2>2 DEF AccountTypes, HeldSinceBegin
  <2>4. ReadIsHeld'
    BY <2>1, <2>2 DEF ReadIsHeld, HeldSinceBegin
  <2>. QED
    BY <2>3, <2>4
<1>6. CASE A!BalanceFails
  <2>1. apc = "balance" /\ apc' \in {"stopped", "wait"} /\ UNCHANGED <<account, acanceled, arow, held, wrote>>
    BY <1>6 DEF A!BalanceFails, A!degrade
  <2>. QED
    BY <2>1 DEF AccountTypes, HeldSinceBegin, ReadIsHeld
<1>7. CASE A!ReadPositions
  <2>1. apc = "positions" /\ apc' = "margin" /\ UNCHANGED <<account, acanceled, held, wrote>>
    BY <1>7 DEF A!ReadPositions
  <2>2. account.contracts \in Int
    BY SourcesAssumption DEF AccountTypes, A!Accounts, A!AccountPollerAssumption
  <2>3. \/ arow' = arow
        \/ \E pnl : arow' = [arow EXCEPT !.contracts = account.contracts, !.pnl = pnl]
    <3>1. CASE account.contracts = 0
      <4>1. A!listed(account.contracts) = <<>>
        BY <3>1 DEF A!listed
      <4>2. arow' = arow
        BY <1>7, <4>1 DEF A!ReadPositions
      <4>. QED
        BY <4>2
    <3>2. CASE account.contracts # 0
      <4>1. A!listed(account.contracts) # <<>>
        BY <2>2, <3>2 DEF A!listed
      <4>. DEFINE p == A!listed(account.contracts)[1]
      <4>2. A!signedContracts(p.n, p.side) = account.contracts
        BY <2>2, <3>2, SignedBack
      <4>3. \/ arow' = arow
            \/ \E pnl : arow' = [arow EXCEPT !.contracts = A!signedContracts(p.n, p.side), !.pnl = pnl]
        BY <1>7, <4>1 DEF A!ReadPositions
      <4>. QED
        BY <4>2, <4>3
    <3>. QED
      BY <3>1, <3>2
  <2>4. /\ DOMAIN arow' = DOMAIN arow /\ arow'.margin = arow.margin /\ arow'.intraday = arow.intraday
        /\ arow'.contracts \in {arow.contracts, account.contracts}
    BY <2>3 DEF AccountTypes
  <2>5. AccountTypes' /\ HeldSinceBegin'
    BY <2>1, <2>4 DEF AccountTypes, HeldSinceBegin
  <2>6. ReadIsHeld'
    BY <2>1, <2>4 DEF ReadIsHeld, HeldSinceBegin
  <2>. QED
    BY <2>5, <2>6
<1>8. CASE A!ReadIntradayMargin
  <2>1. apc = "margin" /\ apc' = "submit" /\ UNCHANGED <<account, acanceled, held, wrote>>
    BY <1>8 DEF A!ReadIntradayMargin
  <2>2. account.intraday \in BOOLEAN
    BY SourcesAssumption DEF AccountTypes, A!Accounts, A!AccountPollerAssumption
  <2>3. A!classifyIntradayMargin(A!setting(account.intraday)) = account.intraday
    <3>1. CASE account.intraday = TRUE
      BY <3>1 DEF A!classifyIntradayMargin, A!setting
    <3>2. CASE account.intraday = FALSE
      BY <3>2 DEF A!classifyIntradayMargin, A!setting
    <3>. QED
      BY <2>2, <3>1, <3>2
  <2>4. A!classifyIntradayMargin("") = Null /\ A!classifyIntradayMargin("UNSPECIFIED") = Null
    BY DEF A!classifyIntradayMargin
  <2>5. \/ arow' = arow
        \/ \E m \in {account.intraday, Null} : arow' = [arow EXCEPT !.intraday = m]
    BY <1>8, <2>3, <2>4 DEF A!ReadIntradayMargin
  <2>6. /\ DOMAIN arow' = DOMAIN arow /\ arow'.margin = arow.margin /\ arow'.contracts = arow.contracts
        /\ arow'.intraday \in {arow.intraday, account.intraday, Null}
    BY <2>5 DEF AccountTypes
  <2>7. AccountTypes' /\ HeldSinceBegin'
    BY <2>1, <2>6 DEF AccountTypes, HeldSinceBegin
  <2>8. ReadIsHeld'
    BY <2>1, <2>6 DEF ReadIsHeld, HeldSinceBegin
  <2>. QED
    BY <2>7, <2>8
<1>9. CASE A!submit
  <2>1. /\ apc = "submit" /\ apc' \in {"wait", "stopped"} /\ wrote' \in {TRUE, wrote}
        /\ UNCHANGED <<account, acanceled, arow, held>>
    BY <1>9 DEF A!submit
  <2>. QED
    BY <2>1 DEF AccountTypes, HeldSinceBegin, ReadIsHeld
<1>10. CASE UNCHANGED accountVars
  BY <1>10 DEF accountVars, AccountTypes, HeldSinceBegin, ReadIsHeld
<1>. QED
  BY <1>1, <1>2, <1>3, <1>4, <1>5, <1>6, <1>7, <1>8, <1>9, <1>10 DEF A!Next, A!Poll

LEMMA OutageStep == OutageInv /\ AccountTypes /\ [A!Next]_accountVars => OutageInv'
<1>. SUFFICES ASSUME OutageInv, AccountTypes, [A!Next]_accountVars PROVE OutageInv'
  OBVIOUS
<1>. USE DEF OutageInv
<1>1. CASE A!BalanceSummary
  BY <1>1 DEF A!BalanceSummary, A!cleared
<1>2. CASE A!BalanceFails
  <2>1. /\ awarned' = (awarned \/ ~acanceled) /\ failing' = (failing \/ ~acanceled)
        /\ outage' = IF ~awarned /\ ~acanceled THEN outage + 1 ELSE outage
    BY <1>2 DEF A!BalanceFails
  <2>2. CASE acanceled
    BY <2>1, <2>2
  <2>3. CASE ~acanceled /\ awarned
    BY <2>1, <2>3
  <2>4. CASE ~acanceled /\ ~awarned
    <3>1. ~failing /\ outage = 0
      BY <2>4
    <3>2. awarned' = TRUE /\ failing' = TRUE
      BY <2>1, <2>4
    <3>3. outage' = 1
      BY <2>1, <2>4, <3>1
    <3>. QED
      BY <3>2, <3>3
  <2>. QED
    BY <2>2, <2>3, <2>4
<1>3. CASE UNCHANGED <<failing, awarned, outage>>
  BY <1>3
<1>. QED
  BY <1>1, <1>2, <1>3
     DEF A!Next, A!Poll, A!AccountMoves, A!World, A!PollBegin, A!Stop, A!ReadPositions,
         A!ReadIntradayMargin, A!submit, A!poller, A!history, A!world, accountVars

-----------------------------------------------------------------------------
(* Whatever part a behaviour runs, each invariant holds of it.             *)

SourcesInv == BaseInv /\ LossInv /\ AccountInv /\ OutageInv

THEOREM SourcesInvariant == SourcesSpec => []SourcesInv
<1>1. SourcesInit => SourcesInv
  <2>1. SourcesInit => Init /\ A!Init
    BY DEF SourcesInit
  <2>2. Init => LossInv
    BY DEF Init, LossInv, LossIsTold
  <2>. QED
    BY <2>1, <2>2, BaseInit, AccountInit DEF SourcesInv
<1>2. SourcesInv /\ [SourcesNext]_<<part, vars, accountVars, streamVars>> => SourcesInv'
  <2>1. [SourcesNext]_<<part, vars, accountVars, streamVars>> => [Next]_vars
    BY DEF SourcesNext
  <2>2. [SourcesNext]_<<part, vars, accountVars, streamVars>> => [A!Next]_accountVars
    BY DEF SourcesNext
  <2>. QED
    BY <2>1, <2>2, BaseStep, LossStep, AccountStep, OutageStep DEF SourcesInv, AccountInv
<1>. QED
  BY <1>1, <1>2, PTL DEF SourcesSpec

(* RowsAreTrue for every deployment, account and duration of the calls: a  *)
(* Base row is the chain at the one block the poll pinned, read from the   *)
(* right contracts, and an account row was true of the account between its *)
(* boundary and its writing (BasePoller.Poll, AccountPoller.Poll).         *)
THEOREM PolledRowsAreTrue == SourcesSpec => []RowsAreTrue
<1>1. BaseInv => RowIsOneBlock /\ RightContracts
  BY DEF BaseInv, RowsOfBlocks, OfBlock, RowIsOneBlock, RightContracts
<1>2. AccountInv => A!RowIsTrue
  BY DEF AccountInv, ReadIsHeld, A!RowIsTrue
<1>3. SourcesInv => RowsAreTrue
  BY <1>1, <1>2 DEF SourcesInv, RowsAreTrue
<1>. QED
  BY <1>3, SourcesInvariant, PTL

(* LossesAreTold likewise: the loss of both price sources of a Base row,   *)
(* and an outage of the account endpoint, are told, and the latter once    *)
(* however long it lasts (BasePoller.spotPx, warn, AccountPoller.degrade). *)
THEOREM NoLossIsSilent == SourcesSpec => []LossesAreTold
<1>1. SourcesInv => LossesAreTold
  BY DEF SourcesInv, LossInv, OutageInv, LossesAreTold, A!OutageToldOnce
<1>. QED
  BY <1>1, SourcesInvariant, PTL

-----------------------------------------------------------------------------
(* The candles handler.                                                    *)

(* The instance's cardinality is the library's.                            *)
LEMMA SameCardinality == ASSUME NEW T PROVE C!Cardinality(T) = Cardinality(T)
BY DEF C!Cardinality, Cardinality

LEMMA MaxIs ==
    ASSUME NEW T \in SUBSET Int, NEW m \in T, \A y \in T : m >= y
    PROVE  C!Max(T) = m
<1>1. \A x, y \in T : x >= y /\ y >= x => x = y
  OBVIOUS
<1>2. C!Max(T) \in T /\ \A y \in T : C!Max(T) >= y
  BY DEF C!Max
<1>. QED
  BY <1>1, <1>2

LEMMA PassedUp ==
    ASSUME NEW n \in Nat, NEW P, 0 \in P, \A i \in 0..(n - 1) : i \in P => i + 1 \in P
    PROVE  n \in P
<1>. DEFINE Below == OpToRel(<, Nat)
            D     == {i \in 0..n : i \notin P}
<1>. SUFFICES ASSUME D # {} PROVE FALSE
  OBVIOUS
<1>1. IsWellFoundedOn(Below, Nat)
  BY NatLessThanWellFounded
<1>2. \A x, y \in Nat : y < x => <<y, x>> \in Below
  BY DEF OpToRel
<1>3. D \subseteq Nat
  OBVIOUS
<1>. HIDE DEF Below
<1>4. PICK d \in D : \A y \in D : ~(<<y, d>> \in Below)
  BY <1>1, <1>3, WFMin
<1>5. \A y \in D : ~(y < d)
  BY <1>2, <1>3, <1>4, Zenon
<1>6. d \in 0..n /\ d \notin P /\ d # 0
  OBVIOUS
<1>7. d - 1 \in 0..(n - 1) /\ d - 1 \in 0..n /\ d - 1 < d /\ d - 1 + 1 = d
  BY <1>6
<1>8. d - 1 \in P
  BY <1>5, <1>7
<1>. QED
  BY <1>6, <1>7, <1>8

(* The candles of a set in the order of their starts: that there is such   *)
(* an order is shown by putting the greatest last.                         *)
Enumerates(s, T) ==
    /\ s \in [1..Cardinality(T) -> T]
    /\ {s[i] : i \in DOMAIN s} = T /\ C!increasing(s)

LEMMA OrderExists ==
    ASSUME NEW n \in Nat, NEW T \in SUBSET (1..n)
    PROVE  \E s : Enumerates(s, T)
<1>. DEFINE P == {k \in 0..n : \A U \in SUBSET (1..k) : \E s : Enumerates(s, U)}
<1>1. 0 \in P
  <2>. SUFFICES ASSUME NEW U \in SUBSET (1..0) PROVE \E s : Enumerates(s, U)
    OBVIOUS
  <2>1. U = {} /\ Cardinality({}) = 0
    BY FS_EmptySet
  <2>2. 1..0 = {}
    OBVIOUS
  <2>3. Enumerates(<<>>, {})
    BY <2>1, <2>2 DEF Enumerates, C!increasing
  <2>. QED
    BY <2>1, <2>3
<1>2. \A k \in 0..(n - 1) : k \in P => k + 1 \in P
  <2>. SUFFICES ASSUME NEW k \in 0..(n - 1), k \in P, NEW U \in SUBSET (1..(k + 1))
                PROVE  \E s : Enumerates(s, U)
    OBVIOUS
  <2>1. \A V \in SUBSET (1..k) : \E s : Enumerates(s, V)
    OBVIOUS
  <2>. HIDE DEF P
  <2>2. CASE k + 1 \notin U
    <3>1. U \in SUBSET (1..k)
      BY <2>2
    <3>. QED
      BY <2>1, <3>1
  <2>3. CASE k + 1 \in U
    <3>. DEFINE V == U \ {k + 1}
                c == Cardinality(V)
    <3>1. V \in SUBSET (1..k)
      OBVIOUS
    <3>2. PICK s : Enumerates(s, V)
      BY <2>1, <3>1
    <3>3. IsFiniteSet(V)
      <4>1. IsFiniteSet(1..k)
        BY FS_Interval
      <4>. QED
        BY <3>1, <4>1, FS_Subset
    <3>4. c \in Nat /\ Cardinality(U) = c + 1
      <4>1. c \in Nat
        BY <3>3, FS_CardinalityType
      <4>2. U = V \cup {k + 1} /\ k + 1 \notin V
        BY <2>3
      <4>3. Cardinality(V \cup {k + 1}) = Cardinality(V) + 1
        BY <3>3, <4>2, FS_AddElement
      <4>. HIDE DEF V
      <4>. QED
        BY <4>1, <4>2, <4>3
    <3>. DEFINE t == [i \in 1..(c + 1) |-> IF i = c + 1 THEN k + 1 ELSE s[i]]
    <3>5. /\ s \in [1..c -> V] /\ {s[i] : i \in DOMAIN s} = V
          /\ \A i, j \in DOMAIN s : i < j => s[i] < s[j]
      BY <3>2 DEF Enumerates, C!increasing
    <3>. HIDE DEF c
    <3>6. /\ DOMAIN t = 1..(c + 1) /\ t[c + 1] = k + 1 /\ DOMAIN s = 1..c
          /\ \A i \in 1..c : t[i] = s[i] /\ i \in DOMAIN t /\ t[i] \in V
      BY <3>4, <3>5
    <3>7. t \in [1..(c + 1) -> U]
      BY <2>3, <3>4, <3>5
    <3>. HIDE DEF t
    <3>8. \A i \in DOMAIN t : i \in 1..c \/ i = c + 1
      BY <3>4, <3>6
    <3>9. {t[i] : i \in DOMAIN t} = U
      <4>1. \A x \in U : \E i \in DOMAIN t : x = t[i]
        <5>. SUFFICES ASSUME NEW x \in U PROVE \E i \in DOMAIN t : x = t[i]
          OBVIOUS
        <5>1. CASE x = k + 1
          BY <3>4, <3>6, <5>1
        <5>2. CASE x # k + 1
          <6>1. PICK i \in DOMAIN s : x = s[i]
            BY <3>5, <5>2
          <6>. QED
            BY <3>6, <6>1
        <5>. QED
          BY <5>1, <5>2
      <4>2. \A i \in DOMAIN t : t[i] \in U
        BY <3>6, <3>7
      <4>. QED
        BY <4>1, <4>2
    <3>10. \A i, j \in DOMAIN t : i < j => t[i] < t[j]
      <4>. SUFFICES ASSUME NEW i \in DOMAIN t, NEW j \in DOMAIN t, i < j PROVE t[i] < t[j]
        OBVIOUS
      <4>1. i \in 1..c
        BY <3>4, <3>6
      <4>2. CASE j = c + 1
        <5>1. t[i] \in 1..k
          BY <3>1, <3>6, <4>1
        <5>. QED
          BY <3>6, <4>2, <5>1
      <4>3. CASE j # c + 1
        BY <3>5, <3>6, <3>8, <4>1, <4>3
      <4>. QED
        BY <4>2, <4>3
    <3>11. Enumerates(t, U)
      BY <3>4, <3>7, <3>9, <3>10 DEF Enumerates, C!increasing
    <3>. QED
      BY <3>11
  <2>. QED
    BY <2>2, <2>3
<1>3. n \in P
  <2>. HIDE DEF P
  <2>. QED
    BY <1>1, <1>2, PassedUp
<1>. QED
  BY <1>3

LEMMA SortedIs ==
    ASSUME NEW n \in Nat, NEW T \in SUBSET (1..n)
    PROVE  LET s == C!sorted(T) IN
           /\ s \in Seq(T) /\ {s[i] : i \in DOMAIN s} = T
           /\ \A i, j \in DOMAIN s : i < j => s[i] < s[j]
<1>. DEFINE s == C!sorted(T)
<1>1. \E x \in [1..C!Cardinality(T) -> T] : C!ToSet(x) = T /\ C!increasing(x)
  <2>1. PICK x : Enumerates(x, T)
    BY OrderExists
  <2>2. C!Cardinality(T) = Cardinality(T)
    BY SameCardinality
  <2>. QED
    BY <2>1, <2>2 DEF Enumerates, C!ToSet
<1>2. s \in [1..C!Cardinality(T) -> T] /\ C!ToSet(s) = T /\ C!increasing(s)
  BY <1>1 DEF C!sorted
<1>. HIDE DEF s
<1>3. Cardinality(T) \in Nat
  <2>1. IsFiniteSet(1..n)
    BY FS_Interval
  <2>. QED
    BY <2>1, FS_Subset, FS_CardinalityType
<1>4. C!Cardinality(T) \in Nat
  BY <1>3, SameCardinality
<1>5. s \in Seq(T)
  BY <1>2, <1>4
<1>. QED
  BY <1>2, <1>5 DEF C!ToSet, C!increasing, s

LEMMA MaxExists ==
    ASSUME NEW n \in Nat, NEW T \in SUBSET (0..n), T # {}
    PROVE  \E m \in T : \A y \in T : m >= y
<1>. DEFINE P == {k \in 0..n : \A U \in SUBSET (0..k) :
                                   U # {} => \E m \in U : \A y \in U : m >= y}
<1>1. 0 \in P
  <2>1. \A U \in SUBSET (0..0) : \A x, y \in U : x = 0 /\ y = 0 /\ 0 >= 0
    OBVIOUS
  <2>2. \A U \in SUBSET (0..0) : U # {} => \E m \in U : \A y \in U : m >= y
    BY <2>1
  <2>. QED
    BY <2>2
<1>2. \A k \in 0..(n - 1) : k \in P => k + 1 \in P
  <2>. SUFFICES ASSUME NEW k \in 0..(n - 1), k \in P, NEW U \in SUBSET (0..(k + 1)), U # {}
                PROVE  \E m \in U : \A y \in U : m >= y
    OBVIOUS
  <2>1. CASE k + 1 \in U
    BY <2>1
  <2>2. CASE k + 1 \notin U
    <3>1. U \in SUBSET (0..k)
      BY <2>2
    <3>. QED
      BY <3>1
  <2>. QED
    BY <2>1, <2>2
<1>3. n \in P
  <2>. HIDE DEF P
  <2>. QED
    BY <1>1, <1>2, PassedUp
<1>. QED
  BY <1>3

(* The venue's candles, and the one message on its way: it has the forming *)
(* candle, and every candle in it as the venue has it.                     *)
HistInv ==
    /\ C!forming \in Nat /\ C!forming \in DOMAIN hist
    /\ DOMAIN hist \subseteq 1..C!forming

WireInv ==
    /\ cwire # <<>> => cup
    /\ \/ cwire = <<>>
       \/ /\ cwire = <<cwire[1]>>
          /\ DOMAIN cwire[1] \subseteq DOMAIN hist /\ C!forming \in DOMAIN cwire[1]
          /\ \A s \in DOMAIN cwire[1] : cwire[1][s] = hist[s]

(* Only the newest candle is pending, and it is newer than what is written.*)
OrderInv ==
    /\ writes \in Seq(Nat \ {0}) /\ C!BarsInOrder
    /\ lastStart = IF writes = <<>> THEN 0 ELSE writes[Len(writes)]
    /\ newest \in Nat
    /\ DOMAIN pending = IF newest = 0 THEN {} ELSE {newest}
    /\ newest # 0 => newest \in DOMAIN hist /\ lastStart < newest
    /\ newest = 0 => writes = <<>>
    /\ C!HolesAreCounted

(* As long as every candle parsed, what is written is final, and a pending *)
(* candle the venue has changed since is still within what a replay sends: *)
(* the candles begun after it number no more than those missed.            *)
After(s) == Cardinality({r \in DOMAIN hist : r > s})

FreshInv ==
    /\ missed \in Nat /\ missed <= Outage
    /\ ~garbled =>
         /\ \A s \in DOMAIN crows : s \in DOMAIN hist /\ s < C!forming /\ crows[s] = hist[s]
         /\ newest # 0 /\ pending[newest] # hist[newest] => After(newest) <= missed
         /\ cup /\ cwire = <<>> => newest = C!forming /\ pending[newest] = hist[newest]
         /\ cwire # <<>> /\ newest # 0 /\ newest \notin DOMAIN cwire[1]
              => pending[newest] = hist[newest]

LEMMA FormingIs ==
    ASSUME NEW h, NEW n \in Nat, n \in DOMAIN h, DOMAIN h \subseteq 1..n
    PROVE  C!Max(DOMAIN h) = n
<1>1. DOMAIN h \in SUBSET Int /\ \A y \in DOMAIN h : n >= y
  OBVIOUS
<1>. QED
  BY <1>1, MaxIs

LEMMA AfterIsNat == ASSUME HistInv, NEW s PROVE After(s) \in Nat
<1>1. IsFiniteSet(1..C!forming)
  BY FS_Interval DEF HistInv
<1>2. {r \in DOMAIN hist : r > s} \subseteq 1..C!forming
  BY DEF HistInv
<1>. QED
  BY <1>1, <1>2, FS_Subset, FS_CardinalityType DEF After

(* What a message does, whichever of its candles parse.                    *)
HandleOf(cs, st, n, T) ==
    /\ DOMAIN cs \subseteq DOMAIN cwire[1] /\ \A s \in DOMAIN cs : cs[s] = cwire[1][s]
    /\ n \in Nat /\ n >= newest /\ n \in {newest} \cup C!recorded(cs)
    /\ \A s \in C!recorded(cs) : n >= s
    /\ T = {s \in DOMAIN pending \cup C!recorded(cs) : s < n}
    /\ st \in Seq(T) /\ {st[i] : i \in DOMAIN st} = T
    /\ \A i, j \in DOMAIN st : i < j => st[i] < st[j]
    /\ pending' = [s \in (DOMAIN pending \cup C!recorded(cs)) \ T |-> C!merged(cs)[s]]
    /\ newest' = n
    /\ lastStart' = (IF st = <<>> THEN lastStart ELSE st[Len(st)])
    /\ crows' = [s \in DOMAIN crows \cup T |->
                   IF s \in DOMAIN crows THEN crows[s] ELSE C!merged(cs)[s]]
    /\ writes' = writes \o st
    /\ loaded' = (IF seeded THEN loaded ELSE Len(writes'))
    /\ jumped' = (jumped \/ C!jump(st))
    /\ ~garbled' => ~garbled /\ DOMAIN cs = DOMAIN cwire[1]

LEMMA RecordedIs ==
    ASSUME HistInv, WireInv, OrderInv, cwire # <<>>, NEW cs, DOMAIN cs \subseteq DOMAIN cwire[1]
    PROVE  /\ C!recorded(cs) \subseteq DOMAIN cs /\ C!recorded(cs) \subseteq 1..C!forming
           /\ \A s \in C!recorded(cs) : s > lastStart
           /\ \A s \in DOMAIN cs : s > lastStart => s \in C!recorded(cs)
           /\ lastStart \in Nat
           /\ newest \in 0..C!forming
<1>1. DOMAIN cs \subseteq 1..C!forming
  BY DEF HistInv, WireInv
<1>2. lastStart \in Nat
  <2>1. CASE writes = <<>>
    BY <2>1 DEF OrderInv
  <2>2. CASE writes # <<>>
    <3>1. writes \in Seq(Nat \ {0}) /\ Len(writes) \in 1..Len(writes)
      BY <2>2 DEF OrderInv
    <3>2. writes[Len(writes)] \in Nat \ {0}
      BY <3>1
    <3>. QED
      BY <2>2, <3>2 DEF OrderInv
  <2>. QED
    BY <2>1, <2>2
<1>3. newest \in 0..C!forming
  BY DEF HistInv, OrderInv
<1>. QED
  BY <1>1, <1>2, <1>3 DEF C!recorded, C!Zero, HistInv

LEMMA HandleEffect ==
    ASSUME HistInv, WireInv, OrderInv, C!Handle
    PROVE  \E cs, st, n, T : HandleOf(cs, st, n, T)
<1>1. cwire # <<>> /\ Head(cwire) = cwire[1] /\ C!forming \in Nat
  BY DEF WireInv, HistInv, C!Handle
<1>0. PICK bad \in {{}} \cup {{s} : s \in DOMAIN Head(cwire)} :
        LET candles == [s \in DOMAIN Head(cwire) \ bad |-> Head(cwire)[s]]
            touched == candles # C!none
            p       == C!merged(candles)
            n       == C!newestOf(candles)
            starts  == IF touched THEN C!closed(p, n) ELSE <<>>
        IN  /\ pending' = [s \in DOMAIN p \ C!ToSet(starts) |-> p[s]]
            /\ newest' = n
            /\ lastStart' = IF starts = <<>> THEN lastStart ELSE C!Last(starts)
            /\ seeded' = (seeded \/ touched)
            /\ crows' = [s \in DOMAIN crows \cup C!ToSet(starts) |->
                           IF s \in DOMAIN crows THEN crows[s] ELSE p[s]]
            /\ writes' = writes \o starts
            /\ loaded' = IF seeded THEN loaded ELSE Len(writes')
            /\ jumped' = (jumped \/ C!jump(starts))
            /\ garbled' = (garbled \/ bad # {})
  BY Zenon DEF C!Handle
<1>. DEFINE cs  == [s \in DOMAIN Head(cwire) \ bad |-> Head(cwire)[s]]
            p   == C!merged(cs)
            n   == C!newestOf(cs)
            st  == IF cs # C!none THEN C!closed(p, n) ELSE <<>>
            new == C!recorded(cs)
            T   == {s \in DOMAIN pending \cup new : s < n}
<1>2. /\ pending' = [s \in DOMAIN p \ C!ToSet(st) |-> p[s]] /\ newest' = n
      /\ lastStart' = (IF st = <<>> THEN lastStart ELSE C!Last(st))
      /\ crows' = [s \in DOMAIN crows \cup C!ToSet(st) |->
                     IF s \in DOMAIN crows THEN crows[s] ELSE p[s]]
      /\ writes' = writes \o st
      /\ loaded' = (IF seeded THEN loaded ELSE Len(writes'))
      /\ jumped' = (jumped \/ C!jump(st))
      /\ garbled' = (garbled \/ bad # {})
  BY <1>0, Zenon
<1>3. DOMAIN cs \subseteq DOMAIN cwire[1] /\ \A s \in DOMAIN cs : cs[s] = cwire[1][s]
  BY <1>1
<1>4. bad = {} => DOMAIN cs = DOMAIN cwire[1]
  BY <1>1
<1>5. cs = C!none => DOMAIN cs = {}
  BY DEF C!none
<1>. HIDE DEF cs
<1>6. DOMAIN p = DOMAIN pending \cup new
  BY DEF C!merged
<1>7. new \subseteq DOMAIN cs /\ new \subseteq 1..C!forming /\ newest \in 0..C!forming
  BY <1>1, <1>3, RecordedIs
<1>8. n \in Nat /\ n >= newest /\ n \in {newest} \cup new /\ \A s \in new : n >= s
  <2>1. {newest} \cup new \in SUBSET (0..C!forming)
    BY <1>7
  <2>2. PICK m \in {newest} \cup new : \A y \in {newest} \cup new : m >= y
    BY <1>1, <2>1, MaxExists
  <2>3. {newest} \cup new \in SUBSET Int
    BY <2>1
  <2>4. n = m
    BY <2>2, <2>3, MaxIs DEF C!newestOf
  <2>. HIDE DEF n, new
  <2>. QED
    BY <1>7, <2>2, <2>4
<1>9. T \in SUBSET (1..C!forming) /\ DOMAIN pending \subseteq {newest}
  BY <1>1, <1>7 DEF OrderInv
<1>. HIDE DEF n, p, new
<1>10. st \in Seq(T) /\ {st[i] : i \in DOMAIN st} = T
       /\ \A i, j \in DOMAIN st : i < j => st[i] < st[j]
  <2>1. CASE cs # C!none
    <3>1. C!closed(p, n) = C!sorted(T)
      BY <1>6 DEF C!closed
    <3>2. C!sorted(T) \in Seq(T) /\ {C!sorted(T)[i] : i \in DOMAIN C!sorted(T)} = T
          /\ \A i, j \in DOMAIN C!sorted(T) : i < j => C!sorted(T)[i] < C!sorted(T)[j]
      BY <1>1, <1>9, SortedIs
    <3>. HIDE DEF T
    <3>. QED
      BY <2>1, <3>1, <3>2
  <2>2. CASE cs = C!none
    <3>1. new = {} /\ n = newest /\ ~(newest < newest)
      <4>1. new = {}
        BY <1>5, <1>7, <2>2
      <4>. QED
        BY <1>7, <1>8, <4>1
    <3>2. T = {}
      BY <1>9, <3>1
    <3>3. st = <<>>
      BY <2>2
    <3>. HIDE DEF T, st
    <3>4. <<>> \in Seq({}) /\ DOMAIN <<>> = {}
      OBVIOUS
    <3>. QED
      BY <3>2, <3>3, <3>4
  <2>. QED
    BY <2>1, <2>2
<1>11. C!ToSet(st) = T /\ C!Last(st) = st[Len(st)]
  BY <1>10 DEF C!ToSet, C!Last
<1>. HIDE DEF st
<1>12. T = {s \in DOMAIN pending \cup new : s < n}
  OBVIOUS
<1>. HIDE DEF T
<1>13. pending' = [s \in (DOMAIN pending \cup new) \ T |-> p[s]]
  BY <1>2, <1>6, <1>11
<1>14. crows' = [s \in DOMAIN crows \cup T |-> IF s \in DOMAIN crows THEN crows[s] ELSE p[s]]
  BY <1>2, <1>11
<1>15. ~garbled' => ~garbled /\ DOMAIN cs = DOMAIN cwire[1]
  <2>1. ~garbled' => ~garbled /\ bad = {}
    BY <1>2, Zenon
  <2>. QED
    BY <1>4, <2>1
<1>16. lastStart' = (IF st = <<>> THEN lastStart ELSE st[Len(st)])
  BY <1>2, <1>11
<1>17. HandleOf(cs, st, n, T)
  <2>1. /\ pending' = [s \in (DOMAIN pending \cup C!recorded(cs)) \ T |-> C!merged(cs)[s]]
        /\ crows' = [s \in DOMAIN crows \cup T |->
                       IF s \in DOMAIN crows THEN crows[s] ELSE C!merged(cs)[s]]
    BY <1>13, <1>14 DEF p, new
  <2>2. /\ n \in Nat /\ n >= newest /\ n \in {newest} \cup C!recorded(cs)
        /\ \A s \in C!recorded(cs) : n >= s
        /\ T = {s \in DOMAIN pending \cup C!recorded(cs) : s < n}
    BY <1>8, <1>12 DEF new
  <2>. QED
    BY <1>2, <1>3, <1>10, <1>15, <1>16, <2>1, <2>2, Zenon DEF HandleOf
<1>. QED
  BY <1>17

(* The venue's side of a step.                                             *)
LEMMA HistInit == C!Init => HistInv /\ WireInv /\ OrderInv /\ (Outage \in Nat => FreshInv)
<1>. SUFFICES ASSUME C!Init
              PROVE  HistInv /\ WireInv /\ OrderInv /\ (Outage \in Nat => FreshInv)
  OBVIOUS
<1>. USE DEF C!Init
<1>1. DOMAIN hist = 1..1 /\ 1 \in 1..1 /\ 1 \in Nat
  OBVIOUS
<1>2. C!forming = 1
  BY <1>1, FormingIs DEF C!forming
<1>3. DOMAIN crows = {} /\ DOMAIN pending = {}
  BY DEF C!none
<1>4. OrderInv
  <2>1. writes = <<>> /\ Len(writes) = 0 /\ newest = 0 /\ lastStart = 0
    BY DEF C!Zero
  <2>. QED
    BY <1>3, <2>1 DEF OrderInv, C!BarsInOrder, C!HolesAreCounted
<1>5. Outage \in Nat => FreshInv
  <2>1. newest = 0 /\ ~cup /\ cwire = <<>> /\ missed = 0
    BY DEF C!Zero
  <2>. QED
    BY <1>3, <2>1 DEF FreshInv
<1>. QED
  BY <1>1, <1>2, <1>4, <1>5 DEF HistInv, WireInv

LEMMA ChangeHist ==
    ASSUME HistInv, WireInv, C!Change
    PROVE  /\ HistInv' /\ WireInv' /\ C!forming' = C!forming /\ DOMAIN hist' = DOMAIN hist
           /\ \A s \in DOMAIN hist : s # C!forming => hist'[s] = hist[s]
           /\ cup => cwire' # <<>> /\ C!forming \in DOMAIN cwire'[1]
           /\ ~cup => cwire' = <<>>
<1>. DEFINE f == C!forming
<1>0. hist' = [hist EXCEPT ![f] = @ + 1]
  BY DEF C!Change
<1>1. /\ cwire = <<>> /\ cup' = cup
      /\ IF cup THEN cwire' = Append(cwire, [s \in {C!Max(DOMAIN hist')} |-> hist'[C!Max(DOMAIN hist')]])
                ELSE UNCHANGED cwire
  BY DEF C!Change, C!told
<1>2. f \in Nat /\ f \in DOMAIN hist /\ DOMAIN hist \subseteq 1..f
  BY DEF HistInv
<1>. HIDE DEF f
<1>3. DOMAIN hist' = DOMAIN hist /\ \A s \in DOMAIN hist : s # f => hist'[s] = hist[s]
  BY <1>0
<1>4. C!Max(DOMAIN hist') = f
  BY <1>2, <1>3, FormingIs
<1>5. C!forming' = f
  BY <1>4 DEF C!forming
<1>6. HistInv'
  BY <1>2, <1>3, <1>5 DEF HistInv
<1>7. CASE cup
  <2>1. cwire' = <<[s \in {f} |-> hist'[f]]>>
    <3>1. cwire' = Append(<<>>, [s \in {f} |-> hist'[f]])
      BY <1>1, <1>4, <1>7
    <3>2. \A x : Append(<<>>, x) = <<x>>
      OBVIOUS
    <3>. QED
      BY <3>1, <3>2, Zenon
  <2>2. WireInv'
    BY <1>1, <1>2, <1>3, <1>5, <1>7, <2>1 DEF WireInv
  <2>. QED
    BY <1>3, <1>5, <1>6, <1>7, <2>1, <2>2 DEF f
<1>8. CASE ~cup
  <2>1. cwire' = <<>>
    BY <1>1, <1>8
  <2>. QED
    BY <1>3, <1>5, <1>6, <1>8, <2>1 DEF f, WireInv
<1>. QED
  BY <1>7, <1>8

LEMMA RollHist ==
    ASSUME HistInv, WireInv, C!Roll
    PROVE  /\ HistInv' /\ WireInv' /\ C!forming' \notin DOMAIN hist /\ C!forming < C!forming'
           /\ DOMAIN hist' = DOMAIN hist \cup {C!forming'}
           /\ \A s \in DOMAIN hist : hist'[s] = hist[s]
           /\ cup => cwire' # <<>>
           /\ ~cup => cwire' = <<>>
<1>. DEFINE f == C!forming
<1>1. PICK g \in {f + 1, f + 2} : hist' = [t \in DOMAIN hist \cup {g} |-> IF t = g THEN 0 ELSE hist[t]]
  BY DEF C!Roll
<1>2. /\ cwire = <<>> /\ cup' = cup
      /\ IF cup THEN cwire' = Append(cwire, [s \in {C!Max(DOMAIN hist')} |-> hist'[C!Max(DOMAIN hist')]])
                ELSE UNCHANGED cwire
  BY DEF C!Roll, C!told
<1>3. f \in Nat /\ f \in DOMAIN hist /\ DOMAIN hist \subseteq 1..f
  BY DEF HistInv
<1>. HIDE DEF f
<1>4. g \in Nat /\ f < g /\ g \notin DOMAIN hist /\ 1..f \subseteq 1..g /\ g \in 1..g
  BY <1>3
<1>5. DOMAIN hist' = DOMAIN hist \cup {g} /\ \A s \in DOMAIN hist : hist'[s] = hist[s]
  BY <1>1, <1>4
<1>6. DOMAIN hist' \subseteq 1..g /\ g \in DOMAIN hist'
  BY <1>3, <1>4, <1>5
<1>7. C!Max(DOMAIN hist') = g
  BY <1>4, <1>6, FormingIs
<1>8. C!forming' = g
  BY <1>7 DEF C!forming
<1>9. HistInv'
  BY <1>4, <1>6, <1>8 DEF HistInv
<1>10. CASE cup
  <2>1. cwire' = <<[s \in {g} |-> hist'[g]]>>
    BY <1>2, <1>7, <1>10
  <2>2. WireInv'
    BY <1>2, <1>6, <1>8, <1>10, <2>1 DEF WireInv
  <2>. QED
    BY <1>4, <1>5, <1>8, <1>9, <1>10, <2>1, <2>2 DEF f
<1>11. CASE ~cup
  <2>1. cwire' = <<>>
    BY <1>2, <1>11
  <2>. QED
    BY <1>4, <1>5, <1>8, <1>9, <1>11, <2>1 DEF f, WireInv
<1>. QED
  BY <1>10, <1>11

(* Nothing but a message touches the handler's state.                      *)
LEMMA OrderStep ==
    ASSUME HistInv, WireInv, OrderInv, C!Change \/ C!Roll \/ C!Drop \/ C!Connect \/ UNCHANGED C!vars
    PROVE  OrderInv'
<1>1. UNCHANGED <<C!state, C!seen>>
  BY DEF C!Change, C!Roll, C!Drop, C!Connect, C!vars
<1>2. DOMAIN hist \subseteq DOMAIN hist'
  <2>1. CASE C!Change
    BY <2>1, ChangeHist
  <2>2. CASE C!Roll
    BY <2>2, RollHist
  <2>3. CASE C!Drop \/ C!Connect \/ UNCHANGED C!vars
    BY <2>3 DEF C!Drop, C!Connect, C!vars, C!venue
  <2>. QED
    BY <2>1, <2>2, <2>3
<1>3. /\ writes' = writes /\ lastStart' = lastStart /\ newest' = newest /\ pending' = pending
      /\ loaded' = loaded /\ jumped' = jumped
  BY <1>1 DEF C!state, C!seen
<1>. QED
  BY <1>2, <1>3 DEF OrderInv, C!BarsInOrder, C!HolesAreCounted

(* The written bars are extended by newer ones, in order, and a jump among *)
(* the new ones, or from the last of the old ones, is counted.             *)
LEMMA ElementOf == ASSUME NEW S, NEW a \in Seq(S), NEW i \in 1..Len(a) PROVE a[i] \in S
OBVIOUS

LEMMA ConcatIs ==
    ASSUME NEW S, NEW a \in Seq(S), NEW b \in Seq(S)
    PROVE  /\ a \o b \in Seq(S) /\ Len(a \o b) = Len(a) + Len(b)
           /\ \A i \in 1..Len(a) : (a \o b)[i] = a[i]
           /\ \A i \in 1..Len(b) : (a \o b)[Len(a) + i] = b[i]
<1>1. Len(a) \in Nat /\ Len(b) \in Nat
  OBVIOUS
<1>2. a \o b \in Seq(S) /\ Len(a \o b) = Len(a) + Len(b)
  OBVIOUS
<1>3. \A i \in 1..Len(a) : (a \o b)[i] = a[i]
  BY <1>1
<1>4. \A i \in 1..Len(b) : (a \o b)[Len(a) + i] = b[i]
  BY <1>1
<1>. QED
  BY <1>2, <1>3, <1>4

LEMMA OrderHandle ==
    ASSUME HistInv, WireInv, OrderInv, cwire # <<>>, hist' = hist,
           NEW cs, NEW st, NEW n, NEW T, HandleOf(cs, st, n, T)
    PROVE  OrderInv'
<1>. DEFINE new == C!recorded(cs)
            w   == Len(writes)
<1>1. /\ new \subseteq DOMAIN cs /\ new \subseteq 1..C!forming /\ C!forming \in Nat
      /\ \A s \in new : s > lastStart
      /\ lastStart \in Nat /\ newest \in 0..C!forming
  <2>1. DOMAIN cs \subseteq DOMAIN cwire[1]
    BY DEF HandleOf
  <2>. QED
    BY <2>1, RecordedIs DEF HistInv
<1>2. /\ n \in Nat /\ n >= newest /\ n \in {newest} \cup new /\ \A s \in new : n >= s
      /\ T = {s \in DOMAIN pending \cup new : s < n}
      /\ st \in Seq(T) /\ {st[i] : i \in DOMAIN st} = T
      /\ \A i, j \in DOMAIN st : i < j => st[i] < st[j]
      /\ DOMAIN pending' = (DOMAIN pending \cup new) \ T /\ newest' = n
      /\ lastStart' = (IF st = <<>> THEN lastStart ELSE st[Len(st)])
      /\ writes' = writes \o st
  BY DEF HandleOf
<1>3. new \subseteq DOMAIN hist
  BY <1>1 DEF HandleOf, WireInv
<1>4. /\ writes \in Seq(Nat \ {0}) /\ w \in Nat /\ (writes = <<>> <=> w = 0)
      /\ lastStart = (IF w = 0 THEN 0 ELSE writes[w])
  BY DEF OrderInv
<1>5. /\ DOMAIN pending = (IF newest = 0 THEN {} ELSE {newest})
      /\ newest # 0 => newest \in DOMAIN hist /\ lastStart < newest
      /\ newest = 0 => writes = <<>>
  BY DEF OrderInv
<1>. HIDE DEF new, w
<1>6. T \subseteq Nat \ {0} /\ \A s \in T : s > lastStart /\ s < n
  BY <1>1, <1>2, <1>5
<1>7. Len(st) \in Nat /\ DOMAIN st = 1..Len(st) /\ \A i \in 1..Len(st) : st[i] \in T
  BY <1>2
<1>8. st \in Seq(Nat \ {0})
  BY <1>2, <1>6
<1>9. /\ writes' \in Seq(Nat \ {0}) /\ Len(writes') = w + Len(st)
      /\ \A i \in 1..w : writes'[i] = writes[i]
      /\ \A i \in 1..Len(st) : writes'[w + i] = st[i]
  <2>1. writes \in Seq(Nat \ {0}) /\ writes' = writes \o st
    BY <1>2, <1>4
  <2>2. /\ writes \o st \in Seq(Nat \ {0}) /\ Len(writes \o st) = w + Len(st)
        /\ \A i \in 1..w : (writes \o st)[i] = writes[i]
        /\ \A i \in 1..Len(st) : (writes \o st)[w + i] = st[i]
    BY <1>8, <2>1, ConcatIs DEF w
  <2>. QED
    BY <2>1, <2>2
<1>10. \A i \in 2..Len(writes') :
          \/ i \in 2..w /\ i - 1 \in 1..w /\ i \in 1..w
          \/ i = w + 1 /\ w # 0 /\ w \in 1..w /\ 1 \in 1..Len(st)
          \/ i - w \in 1..Len(st) /\ i - w - 1 \in 1..Len(st) /\ i - w - 1 < i - w
             /\ w + (i - w) = i /\ w + (i - w - 1) = i - 1
  <2>. DEFINE l == Len(st)
  <2>1. w \in Nat /\ l \in Nat /\ Len(writes') = w + l
    BY <1>4, <1>7, <1>9
  <2>. HIDE DEF l
  <2>2. ASSUME NEW i \in 2..(w + l)
        PROVE  \/ i \in 2..w /\ i - 1 \in 1..w /\ i \in 1..w
               \/ i = w + 1 /\ w # 0 /\ w \in 1..w /\ 1 \in 1..l
               \/ i - w \in 1..l /\ i - w - 1 \in 1..l /\ i - w - 1 < i - w
                  /\ w + (i - w) = i /\ w + (i - w - 1) = i - 1
    <3>1. CASE i <= w
      BY <2>1, <3>1
    <3>2. CASE i = w + 1
      BY <2>1, <3>2
    <3>3. CASE i > w + 1
      <4>1. i - w \in 1..l /\ i - w - 1 \in 1..l /\ i - w - 1 < i - w
        BY <2>1, <3>3
      <4>2. w + (i - w) = i /\ w + (i - w - 1) = i - 1
        BY <2>1
      <4>. QED
        BY <4>1, <4>2
    <3>. QED
      BY <2>1, <3>1, <3>2, <3>3
  <2>. QED
    BY <2>1, <2>2 DEF l
<1>11. C!BarsInOrder'
  <2>. SUFFICES ASSUME NEW i \in 2..Len(writes') PROVE writes'[i] > writes'[i - 1]
    BY DEF C!BarsInOrder
  <2>1. CASE i \in 2..w /\ i - 1 \in 1..w /\ i \in 1..w
    <3>1. writes[i] > writes[i - 1]
      BY <2>1 DEF OrderInv, C!BarsInOrder, w
    <3>. QED
      BY <1>9, <2>1, <3>1
  <2>2. CASE i = w + 1 /\ w # 0 /\ w \in 1..w /\ 1 \in 1..Len(st)
    <3>1. writes'[i] = st[1] /\ st[1] > lastStart
      BY <1>6, <1>7, <1>9, <2>2
    <3>2. i - 1 = w
      BY <1>4, <2>2
    <3>3. writes'[i - 1] = lastStart
      BY <1>4, <1>9, <2>2, <3>2
    <3>. QED
      BY <3>1, <3>3
  <2>3. CASE i - w \in 1..Len(st) /\ i - w - 1 \in 1..Len(st) /\ i - w - 1 < i - w
             /\ w + (i - w) = i /\ w + (i - w - 1) = i - 1
    <3>. DEFINE a == i - w - 1
                b == i - w
    <3>1. a \in 1..Len(st) /\ b \in 1..Len(st) /\ a < b /\ w + b = i /\ w + a = i - 1
      BY <2>3
    <3>. HIDE DEF a, b
    <3>2. writes'[i] = st[b] /\ writes'[i - 1] = st[a]
      BY <1>9, <3>1
    <3>3. st[a] < st[b] /\ st[a] \in Nat /\ st[b] \in Nat
      BY <1>2, <1>6, <1>7, <3>1
    <3>. QED
      BY <3>2, <3>3
  <2>. QED
    BY <1>10, <2>1, <2>2, <2>3
<1>12. lastStart' = IF writes' = <<>> THEN 0 ELSE writes'[Len(writes')]
  <2>1. CASE st = <<>>
    <3>1. writes' = writes
      BY <1>2, <1>4, <2>1
    <3>. QED
      BY <1>2, <1>4, <2>1, <3>1 DEF w
  <2>2. CASE st # <<>>
    <3>1. Len(st) \in 1..Len(st)
      BY <1>2, <2>2
    <3>2. writes'[Len(writes')] = st[Len(st)]
      BY <1>9, <3>1
    <3>3. writes' # <<>>
      <4>1. Len(writes') # 0
        BY <1>4, <1>7, <1>9, <3>1
      <4>. QED
        BY <1>9, <4>1
    <3>. QED
      BY <1>2, <2>2, <3>2, <3>3
  <2>. QED
    BY <2>1, <2>2
<1>13. DOMAIN pending' = IF n = 0 THEN {} ELSE {n}
  <2>1. CASE n = 0
    <3>1. newest = 0 /\ new = {}
      BY <1>1, <1>2, <2>1
    <3>. QED
      BY <1>2, <1>5, <2>1, <3>1
  <2>2. CASE n # 0
    <3>1. n \in DOMAIN pending \cup new /\ \A s \in DOMAIN pending \cup new : s \in Nat /\ s <= n
      BY <1>1, <1>2, <1>5, <2>2
    <3>. QED
      BY <1>2, <2>2, <3>1
  <2>. QED
    BY <2>1, <2>2
<1>14. n # 0 => n \in DOMAIN hist' /\ lastStart' < n
  <2>. SUFFICES ASSUME n # 0 PROVE n \in DOMAIN hist' /\ lastStart' < n
    OBVIOUS
  <2>1. n \in DOMAIN hist /\ lastStart < n
    BY <1>1, <1>2, <1>3, <1>5
  <2>2. st # <<>> => Len(st) \in 1..Len(st)
    BY <1>2
  <2>. QED
    BY <1>2, <1>6, <1>7, <2>1, <2>2
<1>15. n = 0 => writes' = <<>>
  <2>. SUFFICES ASSUME n = 0 PROVE writes' = <<>>
    OBVIOUS
  <2>1. newest = 0 /\ new = {}
    BY <1>1, <1>2
  <2>2. writes = <<>> /\ T = {}
    BY <1>2, <1>5, <2>1
  <2>3. st = <<>>
    BY <1>2, <2>2
  <2>. QED
    BY <1>2, <2>2, <2>3
<1>16. C!HolesAreCounted'
  <2>. SUFFICES ASSUME NEW i \in 2..Len(writes'), i > loaded', writes'[i] # writes'[i - 1] + 1
                PROVE  jumped'
    BY DEF C!HolesAreCounted
  <2>1. jumped' = (jumped \/ C!jump(st)) /\ loaded' = (IF seeded THEN loaded ELSE Len(writes'))
    BY DEF HandleOf
  <2>2. seeded
    <3>1. ~(i > Len(writes'))
      BY <1>4, <1>7, <1>9
    <3>. QED
      BY <2>1, <3>1
  <2>3. CASE i \in 2..w /\ i - 1 \in 1..w /\ i \in 1..w
    <3>1. writes[i] # writes[i - 1] + 1 /\ i > loaded
      BY <1>9, <2>1, <2>2, <2>3
    <3>2. jumped
      BY <2>3, <3>1 DEF OrderInv, C!HolesAreCounted, w
    <3>. QED
      BY <2>1, <3>2, Zenon
  <2>. DEFINE before == <<lastStart>> \o st
  <2>4. before[1] = lastStart /\ \A k \in 1..Len(st) : before[k + 1] = st[k]
    BY <1>1, <1>2, <1>7
  <2>. HIDE DEF before
  <2>5. ASSUME NEW k \in DOMAIN st, before[k] # 0, st[k] # before[k] + 1 PROVE jumped'
    <3>1. C!jump(st)
      BY <2>2, <2>5 DEF C!jump, C!Zero, before
    <3>. QED
      BY <2>1, <3>1, Zenon
  <2>6. CASE i = w + 1 /\ w # 0 /\ w \in 1..w /\ 1 \in 1..Len(st)
    <3>1. writes'[i] = st[1] /\ i - 1 = w
      BY <1>4, <1>9, <2>6
    <3>2. writes'[i - 1] = lastStart /\ lastStart # 0
      <4>1. writes[w] \in Nat \ {0}
        BY <1>4, <2>6, ElementOf DEF w
      <4>. QED
        BY <1>4, <1>9, <2>6, <3>1, <4>1
    <3>. QED
      BY <1>7, <2>4, <2>5, <2>6, <3>1, <3>2
  <2>7. CASE i - w \in 1..Len(st) /\ i - w - 1 \in 1..Len(st) /\ i - w - 1 < i - w
             /\ w + (i - w) = i /\ w + (i - w - 1) = i - 1
    <3>. DEFINE a == i - w - 1
                b == i - w
    <3>1. a \in 1..Len(st) /\ b \in 1..Len(st) /\ b = a + 1 /\ w + b = i /\ w + a = i - 1
      BY <1>4, <2>7
    <3>. HIDE DEF a, b
    <3>2. writes'[i] = st[b] /\ writes'[i - 1] = st[a]
      BY <1>9, <3>1
    <3>3. before[b] = st[a] /\ st[a] # 0
      BY <1>6, <1>7, <2>4, <3>1
    <3>. QED
      BY <1>7, <2>5, <3>1, <3>2, <3>3
  <2>. QED
    BY <1>10, <2>3, <2>6, <2>7
<1>. QED
  BY <1>2, <1>9, <1>11, <1>12, <1>13, <1>14, <1>15, <1>16 DEF OrderInv

LEMMA FreshChange ==
    ASSUME Outage \in Nat, HistInv, WireInv, OrderInv, FreshInv, C!Change
    PROVE  FreshInv'
<1>1. /\ HistInv' /\ C!forming' = C!forming /\ DOMAIN hist' = DOMAIN hist
      /\ \A s \in DOMAIN hist : s # C!forming => hist'[s] = hist[s]
      /\ cup => cwire' # <<>> /\ C!forming \in DOMAIN cwire'[1]
      /\ ~cup => cwire' = <<>>
  BY ChangeHist
<1>2. /\ cwire = <<>> /\ cup' = cup /\ missed' = missed /\ newest' = newest
      /\ pending' = pending /\ crows' = crows /\ garbled' = garbled
  BY DEF C!Change, C!state, C!seen
<1>3. missed \in Nat /\ C!forming \in Nat /\ DOMAIN hist \subseteq 1..C!forming
  BY DEF FreshInv, HistInv
<1>. SUFFICES ASSUME ~garbled PROVE FreshInv'
  BY <1>2 DEF FreshInv
<1>4. \A s \in DOMAIN crows' : s \in DOMAIN hist' /\ s < C!forming' /\ crows'[s] = hist'[s]
  <2>1. \A s \in DOMAIN crows : s \in DOMAIN hist /\ s < C!forming /\ crows[s] = hist[s]
    BY DEF FreshInv
  <2>2. \A s \in DOMAIN crows : s # C!forming
    BY <1>3, <2>1
  <2>. QED
    BY <1>1, <1>2, <2>1, <2>2
<1>5. newest # 0 /\ pending[newest] # hist'[newest] => After(newest)' <= missed
  <2>. SUFFICES ASSUME newest # 0, pending[newest] # hist'[newest] PROVE After(newest)' <= missed
    OBVIOUS
  <2>1. newest \in DOMAIN hist
    BY DEF OrderInv
  <2>2. After(newest)' = After(newest)
    BY <1>1, <1>2 DEF After
  <2>3. CASE newest = C!forming
    <3>1. {r \in DOMAIN hist : r > newest} = {}
      BY <1>3, <2>3
    <3>2. After(newest) = 0
      BY <3>1, FS_EmptySet DEF After
    <3>. QED
      BY <1>3, <2>2, <3>2
  <2>4. CASE newest # C!forming
    <3>1. pending[newest] # hist[newest]
      BY <1>1, <2>1, <2>4
    <3>. QED
      BY <2>2, <3>1 DEF FreshInv
  <2>. QED
    BY <2>3, <2>4
<1>6. cup => newest = C!forming
  BY <1>2 DEF FreshInv
<1>7. cwire' # <<>> => cup /\ C!forming \in DOMAIN cwire'[1]
  BY <1>1
<1>. QED
  BY <1>1, <1>2, <1>4, <1>5, <1>6, <1>7 DEF FreshInv, After

LEMMA FreshRoll ==
    ASSUME Outage \in Nat, HistInv, WireInv, OrderInv, FreshInv, C!Roll
    PROVE  FreshInv'
<1>. DEFINE g == C!forming'
<1>1. /\ HistInv' /\ g \notin DOMAIN hist /\ C!forming < g
      /\ DOMAIN hist' = DOMAIN hist \cup {g}
      /\ \A s \in DOMAIN hist : hist'[s] = hist[s]
      /\ cup => cwire' # <<>>
      /\ ~cup => cwire' = <<>>
  BY RollHist
<1>2. /\ cwire = <<>> /\ cup' = cup /\ missed' = (IF cup THEN missed ELSE missed + 1)
      /\ ~cup => missed < Outage
      /\ newest' = newest /\ pending' = pending /\ crows' = crows /\ garbled' = garbled
  BY DEF C!Roll, C!state, C!seen
<1>3. /\ missed \in Nat /\ missed <= Outage /\ g \in Nat
      /\ C!forming \in Nat /\ DOMAIN hist \subseteq 1..C!forming
  BY <1>1 DEF FreshInv, HistInv
<1>. HIDE DEF g
<1>4. missed' \in Nat /\ missed' <= Outage
  BY <1>2, <1>3
<1>. SUFFICES ASSUME ~garbled PROVE FreshInv'
  BY <1>2, <1>4 DEF FreshInv
<1>5. \A s \in DOMAIN crows' : s \in DOMAIN hist' /\ s < g /\ crows'[s] = hist'[s]
  <2>1. \A s \in DOMAIN crows : s \in DOMAIN hist /\ s < C!forming /\ crows[s] = hist[s]
    BY DEF FreshInv
  <2>. QED
    BY <1>1, <1>2, <1>3, <2>1
<1>6. newest # 0 => newest \in DOMAIN hist
  BY DEF OrderInv
<1>7. cup => pending[newest] = hist[newest] /\ newest = C!forming
  BY <1>2 DEF FreshInv
<1>8. cup => newest \in DOMAIN hist
  BY <1>7 DEF HistInv
<1>9. newest # 0 /\ pending[newest] # hist'[newest] => After(newest)' <= missed'
  <2>. SUFFICES ASSUME newest # 0, pending[newest] # hist'[newest] PROVE After(newest)' <= missed'
    OBVIOUS
  <2>1. pending[newest] # hist[newest] /\ ~cup
    BY <1>1, <1>6, <1>7
  <2>2. After(newest) <= missed
    BY <2>1 DEF FreshInv
  <2>3. After(newest)' = After(newest) + 1
    <3>. DEFINE U == {r \in DOMAIN hist : r > newest}
    <3>1. g > newest
      BY <1>1, <1>3, <1>6
    <3>2. {r \in DOMAIN hist' : r > newest'} = U \cup {g} /\ g \notin U
      BY <1>1, <1>2, <3>1
    <3>3. IsFiniteSet(U)
      <4>1. U \subseteq 1..C!forming
        BY <1>3
      <4>2. IsFiniteSet(1..C!forming)
        BY <1>3, FS_Interval
      <4>. QED
        BY <4>1, <4>2, FS_Subset
    <3>. HIDE DEF U
    <3>4. Cardinality(U \cup {g}) = Cardinality(U) + 1
      BY <3>2, <3>3, FS_AddElement
    <3>5. After(newest) = Cardinality(U) /\ After(newest)' = Cardinality(U \cup {g})
      BY <3>2 DEF After, U
    <3>. QED
      BY <3>4, <3>5
  <2>4. After(newest) \in Nat
    BY AfterIsNat
  <2>. QED
    BY <1>2, <1>3, <2>1, <2>2, <2>3, <2>4
<1>10. cwire' # <<>> => pending[newest] = hist'[newest]
  BY <1>1, <1>7, <1>8
<1>. QED
  BY <1>1, <1>2, <1>4, <1>5, <1>9, <1>10 DEF FreshInv, After, g

LEMMA ConnectHist ==
    ASSUME Window \in Nat \ {0}, HistInv, C!Connect
    PROVE  /\ HistInv' /\ WireInv' /\ C!forming' = C!forming
           /\ cwire' # <<>> /\ DOMAIN cwire'[1] = {t \in DOMAIN hist : After(t) < Window}
<1>. DEFINE m == [s \in {t \in DOMAIN hist :
                          C!Cardinality({r \in DOMAIN hist : r > t}) < Window} |-> hist[s]]
<1>1. cwire' = <<m>> /\ cup' = TRUE /\ hist' = hist
  BY DEF C!Connect
<1>2. C!forming \in Nat /\ C!forming \in DOMAIN hist /\ DOMAIN hist \subseteq 1..C!forming
  BY DEF HistInv
<1>3. C!forming' = C!forming
  BY <1>1 DEF C!forming
<1>4. DOMAIN m = {t \in DOMAIN hist : After(t) < Window} /\ \A s \in DOMAIN m : m[s] = hist[s]
  BY SameCardinality DEF After
<1>. HIDE DEF m
<1>5. After(C!forming) = 0
  <2>1. {r \in DOMAIN hist : r > C!forming} = {}
    BY <1>2
  <2>. QED
    BY <2>1, FS_EmptySet DEF After
<1>6. C!forming \in DOMAIN m
  BY <1>2, <1>4, <1>5
<1>7. cwire'[1] = m /\ cwire' # <<>>
  BY <1>1
<1>. QED
  BY <1>1, <1>2, <1>3, <1>4, <1>6, <1>7 DEF HistInv, WireInv

(* The replay of a subscribe reaches back over whatever an outage shorter  *)
(* than its window cost.                                                   *)
LEMMA FreshConnect ==
    ASSUME Outage \in Nat, Window \in Nat \ {0}, Outage < Window,
           HistInv, WireInv, OrderInv, FreshInv, C!Connect
    PROVE  FreshInv'
<1>1. /\ hist' = hist /\ missed' = missed
      /\ newest' = newest /\ pending' = pending /\ crows' = crows /\ garbled' = garbled
  BY DEF C!Connect, C!state, C!seen
<1>2. /\ C!forming' = C!forming
      /\ cwire' # <<>> /\ DOMAIN cwire'[1] = {t \in DOMAIN hist : After(t) < Window}
  BY ConnectHist
<1>3. missed \in Nat /\ missed <= Outage
  BY DEF FreshInv
<1>4. ~garbled /\ newest # 0 /\ newest \notin DOMAIN cwire'[1] => pending[newest] = hist[newest]
  <2>. SUFFICES ASSUME ~garbled, newest # 0, newest \notin DOMAIN cwire'[1],
                       pending[newest] # hist[newest]
                PROVE  FALSE
    OBVIOUS
  <2>1. After(newest) <= missed
    BY DEF FreshInv
  <2>2. newest \in DOMAIN hist
    BY DEF OrderInv
  <2>3. After(newest) \in Nat
    BY AfterIsNat
  <2>4. After(newest) < Window
    BY <1>3, <2>1, <2>3
  <2>. QED
    BY <1>2, <2>2, <2>4
<1>5. After(newest)' = After(newest)
  BY <1>1 DEF After
<1>. SUFFICES ASSUME ~garbled PROVE FreshInv'
  BY <1>1, <1>3 DEF FreshInv
<1>6. \A s \in DOMAIN crows : s \in DOMAIN hist /\ s < C!forming /\ crows[s] = hist[s]
  BY DEF FreshInv
<1>7. newest # 0 /\ pending[newest] # hist[newest] => After(newest) <= missed
  BY DEF FreshInv
<1>. QED
  BY <1>1, <1>2, <1>3, <1>4, <1>5, <1>6, <1>7 DEF FreshInv, After

LEMMA RestHist ==
    ASSUME HistInv, WireInv, C!Drop \/ UNCHANGED C!vars
    PROVE  HistInv' /\ WireInv' /\ (FreshInv => FreshInv')
<1>1. /\ hist' = hist /\ missed' = missed
      /\ newest' = newest /\ pending' = pending /\ crows' = crows /\ garbled' = garbled
      /\ \/ cup' = FALSE /\ cwire' = <<>>
         \/ cup' = cup /\ cwire' = cwire
  BY DEF C!Drop, C!vars, C!venue, C!state, C!seen
<1>2. C!forming' = C!forming
  BY <1>1 DEF C!forming
<1>3. After(newest)' = After(newest)
  BY <1>1 DEF After
<1>4. HistInv' /\ WireInv'
  BY <1>1, <1>2 DEF HistInv, WireInv
<1>5. FreshInv => FreshInv'
  BY <1>1, <1>2, <1>3 DEF FreshInv, After
<1>. QED
  BY <1>4, <1>5

LEMMA HandleHist ==
    ASSUME HistInv, WireInv, C!Handle
    PROVE  HistInv' /\ WireInv' /\ C!forming' = C!forming /\ cwire' = <<>>
<1>1. cwire # <<>> /\ hist' = hist /\ cwire' = Tail(cwire)
  BY DEF C!Handle
<1>2. cwire = <<cwire[1]>>
  BY <1>1 DEF WireInv
<1>3. cwire' = <<>>
  <2>1. \A x : Tail(<<x>>) = <<>>
    OBVIOUS
  <2>. QED
    BY <1>1, <1>2, <2>1, Zenon
<1>4. C!forming' = C!forming
  BY <1>1 DEF C!forming
<1>. QED
  BY <1>1, <1>3, <1>4 DEF HistInv, WireInv

(* With every candle parsed a message brings the pending candle to its     *)
(* final values, unless it has them already.                               *)
LEMMA FreshHandle ==
    ASSUME Outage \in Nat, HistInv, WireInv, OrderInv, FreshInv, C!Handle,
           NEW cs, NEW st, NEW n, NEW T, HandleOf(cs, st, n, T)
    PROVE  FreshInv'
<1>. DEFINE new == C!recorded(cs)
            p   == C!merged(cs)
            f   == C!forming
<1>1. cup /\ cwire # <<>> /\ hist' = hist /\ missed' = 0 /\ cup' = cup
  BY DEF C!Handle
<1>2. f \in Nat /\ f \in DOMAIN hist /\ DOMAIN hist \subseteq 1..f
  BY DEF HistInv
<1>3. /\ cwire = <<cwire[1]>> /\ DOMAIN cwire[1] \subseteq DOMAIN hist /\ f \in DOMAIN cwire[1]
      /\ \A s \in DOMAIN cwire[1] : cwire[1][s] = hist[s]
  BY <1>1 DEF WireInv
<1>4. cwire' = <<>> /\ C!forming' = f
  BY HandleHist
<1>. HIDE DEF f
<1>. SUFFICES ASSUME ~garbled' PROVE FreshInv'
  BY <1>1 DEF FreshInv
<1>7. /\ DOMAIN cs = DOMAIN cwire[1] /\ \A s \in DOMAIN cs : cs[s] = cwire[1][s]
      /\ ~garbled
      /\ n \in Nat /\ n >= newest /\ n \in {newest} \cup new /\ \A s \in new : n >= s
      /\ T = {s \in DOMAIN pending \cup new : s < n}
      /\ pending' = [s \in (DOMAIN pending \cup new) \ T |-> p[s]] /\ newest' = n
      /\ crows' = [s \in DOMAIN crows \cup T |-> IF s \in DOMAIN crows THEN crows[s] ELSE p[s]]
  BY DEF HandleOf
<1>8. /\ new \subseteq DOMAIN cs
      /\ \A s \in DOMAIN cs : s > lastStart => s \in new
      /\ lastStart \in Nat /\ newest \in 0..f
  BY <1>1, <1>7, RecordedIs DEF f
<1>9. /\ DOMAIN pending = (IF newest = 0 THEN {} ELSE {newest})
      /\ newest # 0 => newest \in DOMAIN hist /\ lastStart < newest
      /\ newest = 0 => lastStart = 0
  BY DEF OrderInv
<1>10. \A s \in DOMAIN pending \cup new : p[s] = IF s \in new THEN cs[s] ELSE pending[s]
  BY DEF C!merged
<1>. HIDE DEF new, p
<1>11. f \in new
  BY <1>2, <1>3, <1>7, <1>8, <1>9
<1>12. n = f
  BY <1>2, <1>3, <1>7, <1>8, <1>11
<1>13. \A s \in DOMAIN pending \cup new : s \in DOMAIN hist /\ p[s] = hist[s]
  <2>. SUFFICES ASSUME NEW s \in DOMAIN pending \cup new PROVE s \in DOMAIN hist /\ p[s] = hist[s]
    OBVIOUS
  <2>1. CASE s \in new
    BY <1>3, <1>7, <1>8, <1>10, <2>1
  <2>2. CASE s \notin new
    <3>1. s = newest /\ newest # 0 /\ newest \in DOMAIN hist /\ newest > lastStart
      BY <1>8, <1>9, <2>2
    <3>2. newest \notin DOMAIN cwire[1]
      BY <1>7, <1>8, <2>2, <3>1
    <3>3. pending[newest] = hist[newest]
      BY <1>1, <1>7, <3>1, <3>2 DEF FreshInv
    <3>. QED
      BY <1>10, <2>2, <3>1, <3>3
  <2>. QED
    BY <2>1, <2>2
<1>14. \A s \in DOMAIN crows' : s \in DOMAIN hist /\ s < f /\ crows'[s] = hist[s]
  <2>1. \A s \in DOMAIN crows : s \in DOMAIN hist /\ s < f /\ crows[s] = hist[s]
    BY <1>7 DEF FreshInv, f
  <2>2. \A s \in T : s \in DOMAIN pending \cup new /\ s < f
    BY <1>7, <1>12
  <2>. QED
    BY <1>7, <1>13, <2>1, <2>2
<1>15. pending'[f] = hist[f]
  <2>1. f \in (DOMAIN pending \cup new) \ T
    BY <1>2, <1>7, <1>11, <1>12
  <2>. QED
    BY <1>7, <1>13, <2>1
<1>16. newest' = f /\ pending'[newest'] = hist'[newest'] /\ newest' = C!forming'
  BY <1>1, <1>4, <1>7, <1>12, <1>15
<1>17. \A s \in DOMAIN crows' : s \in DOMAIN hist' /\ s < C!forming' /\ crows'[s] = hist'[s]
  BY <1>1, <1>4, <1>14
<1>18. missed' \in Nat /\ missed' <= Outage
  BY <1>1
<1>. QED
  BY <1>4, <1>16, <1>17, <1>18 DEF FreshInv

(* The candles handler's invariant through any step of it.                 *)
CandlesInv == HistInv /\ WireInv /\ OrderInv /\ (Outage < Window => FreshInv)

LEMMA CandlesStep ==
    ASSUME C!CandlesAssumption, CandlesInv, C!Next \/ UNCHANGED C!vars
    PROVE  CandlesInv'
<1>1. Outage \in Nat /\ Window \in Nat \ {0}
  BY DEF C!CandlesAssumption
<1>2. HistInv /\ WireInv /\ OrderInv /\ (Outage < Window => FreshInv)
  BY DEF CandlesInv
<1>3. CASE C!Change
  BY <1>1, <1>2, <1>3, ChangeHist, OrderStep, FreshChange DEF CandlesInv
<1>4. CASE C!Roll
  BY <1>1, <1>2, <1>4, RollHist, OrderStep, FreshRoll DEF CandlesInv
<1>5. CASE C!Drop \/ UNCHANGED C!vars
  BY <1>2, <1>5, RestHist, OrderStep DEF CandlesInv
<1>6. CASE C!Connect
  <2>1. OrderInv'
    BY <1>2, <1>6, OrderStep
  <2>2. Outage < Window => FreshInv'
    BY <1>1, <1>2, <1>6, FreshConnect
  <2>3. HistInv' /\ WireInv'
    BY <1>1, <1>2, <1>6, ConnectHist
  <2>. QED
    BY <2>1, <2>2, <2>3 DEF CandlesInv
<1>7. CASE C!Handle
  <2>1. PICK cs, st, n, T : HandleOf(cs, st, n, T)
    BY <1>2, <1>7, HandleEffect
  <2>2. cwire # <<>> /\ hist' = hist
    BY <1>7 DEF C!Handle
  <2>3. OrderInv'
    BY <1>2, <2>1, <2>2, OrderHandle
  <2>. QED
    BY <1>1, <1>2, <1>7, <2>1, <2>3, FreshHandle, HandleHist DEF CandlesInv
<1>. QED
  BY <1>3, <1>4, <1>5, <1>6, <1>7 DEF C!Next

(* Bars are written once each and in order, and with every candle parsed   *)
(* they are final, for any window and any outage shorter than it.          *)
THEOREM BarsStayFinal ==
    ASSUME Outage < Window
    PROVE  HandlersSpec => []BarsAreFinal
<1>1. HandlersInit => CandlesInv
  <2>. SUFFICES ASSUME HandlersInit PROVE CandlesInv
    OBVIOUS
  <2>1. C!Init /\ Outage \in Nat
    BY HandlersAssumption DEF HandlersInit, C!CandlesAssumption
  <2>. QED
    BY <2>1, HistInit DEF CandlesInv
<1>2. CandlesInv /\ [HandlersNext]_<<handler, tradesVars, candlesVars>> => CandlesInv'
  <2>. SUFFICES ASSUME CandlesInv, [HandlersNext]_<<handler, tradesVars, candlesVars>>
                PROVE  CandlesInv'
    OBVIOUS
  <2>1. C!Next \/ UNCHANGED candlesVars
    BY DEF HandlersNext
  <2>2. UNCHANGED candlesVars => UNCHANGED C!vars
    BY DEF candlesVars, C!vars, C!venue, C!state, C!seen
  <2>. QED
    BY <2>1, <2>2, CandlesStep, HandlersAssumption
<1>3. CandlesInv => BarsAreFinal
  BY DEF CandlesInv, OrderInv, FreshInv, BarsAreFinal, C!BarIsFinal, C!Final
<1>. QED
  BY <1>1, <1>2, <1>3, PTL DEF HandlersSpec

-----------------------------------------------------------------------------
(* The market_trades handler: no hole in the series is silent.             *)

LEMMA SameMax == ASSUME NEW T PROVE R!Max(T) = C!Max(T) /\ B!Max(T) = C!Max(T)
BY DEF R!Max, B!Max, C!Max

(* Boundaries lie a width apart, and the sum of two is one.                *)
LEMMA Widths ==
    ASSUME NEW w \in Nat \ {0}, NEW a \in Int, NEW b \in Int
    PROVE  w * a < w * b + w => w * a <= w * b
<1>1. ASSUME NEW c \in Nat PROVE w * c >= 0
  BY <1>1
<1>. SUFFICES ASSUME w * a < w * b + w, ~(w * a <= w * b) PROVE FALSE
  OBVIOUS
<1>2. w * (b - a) = w * b - w * a /\ w * (a - b - 1) = w * a - w * b - w
  BY w \in Int
<1>3. CASE a <= b
  <2>1. w * (b - a) >= 0
    BY <1>1, <1>3
  <2>2. w * a \in Int /\ w * b \in Int
    OBVIOUS
  <2>. QED
    BY <1>2, <2>1, <2>2
<1>4. CASE a > b
  <2>1. a - b - 1 \in Nat
    BY <1>4
  <2>2. w * (a - b - 1) >= 0
    BY <1>1, <2>1
  <2>3. w * a \in Int /\ w * b \in Int
    OBVIOUS
  <2>. QED
    BY <1>2, <2>2, <2>3
<1>. QED
  BY <1>3, <1>4

LEMMA OnBoundary ==
    ASSUME NEW w \in Nat \ {0}, NEW t \in Int, t % w = 0
    PROVE  \E q \in Int : t = w * q
<1>1. t \div w \in Int /\ t = (w * (t \div w)) + (t % w)
  OBVIOUS
<1>. QED
  BY <1>1

LEMMA MultipleIs ==
    ASSUME NEW w \in Nat \ {0}, NEW q \in Int
    PROVE  (w * q) % w = 0
<1>. DEFINE t == w * q
            d == t \div w
            r == t % w
<1>1. t \in Int
  OBVIOUS
<1>. HIDE DEF t
<1>2. d \in Int /\ r \in 0..(w - 1) /\ t = (w * d) + r
  BY <1>1
<1>. HIDE DEF d, r
<1>3. w * d \in Int /\ w * q \in Int
  BY <1>2
<1>4. w * d <= w * q /\ w * q < (w * d) + w
  BY <1>2, <1>3 DEF t
<1>5. w * q <= w * d
  BY <1>2, <1>4, Widths
<1>6. r = 0
  BY <1>2, <1>3, <1>4, <1>5 DEF t
<1>. QED
  BY <1>6 DEF r, t

LEMMA NoLaterInside ==
    ASSUME NEW w \in Nat \ {0}, NEW a \in Int, NEW b \in Int, a % w = 0, b % w = 0, a < b + w
    PROVE  a <= b
<1>1. PICK q \in Int : a = w * q
  BY OnBoundary
<1>2. PICK r \in Int : b = w * r
  BY OnBoundary
<1>. QED
  BY <1>1, <1>2, Widths

(* What a tick does to what is told, for buckets of width w open for g     *)
(* past their end.                                                         *)
Admitting(w)  == (tnow - (tnow % w)) + w
Closing(w, g) == {s \in next..tnow : next # -1 /\ s % w = 0 /\ s + w + g <= tnow}

TickOf(w, g) ==
    /\ next' = (IF next = -1 THEN Admitting(w)
                ELSE IF Closing(w, g) = {} THEN next ELSE C!Max(Closing(w, g)) + w)
    /\ DOMAIN rows' = DOMAIN rows \cup Closing(w, g)
    /\ first' = (IF first = -1 THEN Admitting(w) ELSE first)
    /\ IF next = -1 /\ lostFrom # -1
         THEN reported' = reported \cup {s \in lostFrom..(Admitting(w) - 1) : s % w = 0}
         ELSE reported' = reported

ResetOf ==
    /\ next' = -1 /\ lostFrom' = (IF next # -1 THEN next ELSE lostFrom)
    /\ rows' = rows /\ first' = first /\ reported' = reported

RestOf ==
    /\ next' = next /\ lostFrom' = lostFrom
    /\ rows' = rows /\ first' = first /\ reported' = reported

(* The setting of the behaviour's trades handler.                          *)
Setting == IF handler = "bursts" THEN Wide ELSE Narrow

(* Up to the next bucket to be written or, between a reset and the tick    *)
(* after it, up to the bucket the reset dropped, every bucket since the    *)
(* first is in the series or was reported.                                 *)
ToldUpTo(w, t) == \A s \in first..(t - 1) : s % w = 0 => s \in DOMAIN rows \/ s \in reported

ToldInv(w) ==
    /\ tnow \in Nat
    /\ next \in Int /\ first \in Int /\ lostFrom \in Int
    /\ next # -1 => next \in Nat /\ next % w = 0 /\ first # -1 /\ ToldUpTo(w, next)
    /\ next = -1 /\ first # -1 => lostFrom # -1 /\ ToldUpTo(w, lostFrom)

LEMMA ToldTick ==
    ASSUME NEW w \in Nat \ {0}, NEW g \in Nat, ToldInv(w), TickOf(w, g),
           lostFrom' \in {lostFrom, -1}, tnow' = tnow
    PROVE  ToldInv(w)'
<1>. DEFINE D == Closing(w, g)
            adm == Admitting(w)
<1>1. /\ next \in Int /\ first \in Int /\ lostFrom \in Int /\ tnow \in Nat
      /\ next # -1 => next \in Nat /\ next % w = 0 /\ first # -1 /\ ToldUpTo(w, next)
      /\ next = -1 /\ first # -1 => lostFrom # -1 /\ ToldUpTo(w, lostFrom)
  BY DEF ToldInv
<1>2. adm \in Nat /\ adm % w = 0
  <2>1. /\ tnow \div w \in Nat /\ tnow % w \in 0..(w - 1)
        /\ tnow = (w * (tnow \div w)) + (tnow % w)
    BY <1>1
  <2>. DEFINE d == tnow \div w
              r == tnow % w
  <2>2. d \in Nat /\ r \in 0..(w - 1) /\ tnow = (w * d) + r
    BY <2>1
  <2>3. adm = (tnow - r) + w
    BY DEF Admitting
  <2>. HIDE DEF d, r, adm
  <2>4. w * d \in Int /\ w * d >= 0
    BY <2>2
  <2>5. adm = (w * d) + w
    BY <1>1, <2>2, <2>3, <2>4
  <2>6. w * (d + 1) = (w * d) + w
    BY <2>2
  <2>7. adm = w * (d + 1) /\ d + 1 \in Int
    BY <2>2, <2>5, <2>6
  <2>8. (w * (d + 1)) % w = 0
    BY <2>2, MultipleIs
  <2>. QED
    BY <2>4, <2>5, <2>7, <2>8
<1>3. /\ next' = (IF next = -1 THEN adm ELSE IF D = {} THEN next ELSE C!Max(D) + w)
      /\ DOMAIN rows' = DOMAIN rows \cup D
      /\ first' = (IF first = -1 THEN adm ELSE first)
      /\ IF next = -1 /\ lostFrom # -1
           THEN reported' = reported \cup {s \in lostFrom..(adm - 1) : s % w = 0}
           ELSE reported' = reported
  BY DEF TickOf
<1>4. first' # -1 /\ first' \in Int
  BY <1>1, <1>2, <1>3
<1>5. CASE next = -1
  <2>1. next' = adm
    BY <1>3, <1>5
  <2>2. ASSUME NEW s \in first'..(adm - 1), s % w = 0
        PROVE  s \in DOMAIN rows' \/ s \in reported'
    <3>1. first # -1 /\ first' = first
      BY <1>2, <1>3, <2>2
    <3>2. lostFrom # -1 /\ ToldUpTo(w, lostFrom)
      BY <1>1, <1>5, <3>1
    <3>3. CASE s < lostFrom
      <4>1. s \in first..(lostFrom - 1)
        BY <1>1, <1>2, <2>2, <3>1, <3>3
      <4>. QED
        BY <1>3, <1>5, <2>2, <3>2, <4>1 DEF ToldUpTo
    <3>4. CASE s >= lostFrom
      <4>1. s \in lostFrom..(adm - 1)
        BY <1>1, <1>2, <2>2, <3>1, <3>4
      <4>. QED
        BY <1>3, <1>5, <2>2, <3>2, <4>1
    <3>. QED
      BY <1>1, <1>2, <2>2, <3>1, <3>3, <3>4
  <2>3. ToldUpTo(w, next)'
    <3>. HIDE DEF adm, D
    <3>. QED
      BY <2>1, <2>2 DEF ToldUpTo
  <2>4. next' \in Nat /\ next' % w = 0 /\ lostFrom' \in Int /\ next' # -1
    BY <1>1, <1>2, <2>1
  <2>. HIDE DEF adm, D
  <2>5. next' \in Int /\ tnow' \in Nat
    BY <1>1, <2>4
  <2>. QED
    BY <1>4, <2>3, <2>4, <2>5, Zenon DEF ToldInv
<1>6. CASE next # -1
  <2>1. /\ next \in Nat /\ next % w = 0 /\ first # -1 /\ ToldUpTo(w, next)
        /\ first' = first /\ reported' = reported
    BY <1>1, <1>3, <1>6
  <2>2. CASE D = {}
    <3>1. next' = next
      BY <1>3, <1>6, <2>2
    <3>2. ToldUpTo(w, next)'
      BY <1>3, <2>1, <3>1 DEF ToldUpTo
    <3>. QED
      BY <1>1, <1>4, <1>6, <2>1, <3>1, <3>2 DEF ToldInv
  <2>3. CASE D # {}
    <3>1. D \in SUBSET (0..tnow)
      BY <1>1, <2>1 DEF Closing
    <3>2. PICK m \in D : \A y \in D : m >= y
      BY <1>1, <2>3, <3>1, MaxExists
    <3>3. D \in SUBSET Int
      BY <3>1
    <3>4. C!Max(D) = m
      BY <3>2, <3>3, MaxIs
    <3>5. next' = m + w
      BY <1>3, <1>6, <2>3, <3>4
    <3>6. m \in next..tnow /\ m % w = 0 /\ m + w + g <= tnow
      BY <3>2 DEF Closing
    <3>7. (m + w) % w = 0
      <4>1. PICK q \in Int : m = w * q
        <5>1. m \in Int
          BY <1>1, <3>6
        <5>. QED
          BY <3>6, <5>1, OnBoundary
      <4>2. m + w = w * (q + 1)
        BY <4>1
      <4>. QED
        BY <4>2, MultipleIs
    <3>8. ToldUpTo(w, next)'
      <4>. SUFFICES ASSUME NEW s \in first..((m + w) - 1), s % w = 0
                    PROVE  s \in DOMAIN rows' \/ s \in reported'
        BY <2>1, <3>5 DEF ToldUpTo
      <4>1. CASE s < next
        <5>1. s \in first..(next - 1)
          BY <1>1, <2>1, <4>1
        <5>. QED
          BY <1>3, <2>1, <5>1 DEF ToldUpTo
      <4>2. CASE s >= next
        <5>1. s \in Int /\ m \in Int /\ s < m + w
          BY <1>1, <3>6
        <5>2. s <= m
          BY <3>6, <5>1, NoLaterInside
        <5>3. s \in D
          BY <1>1, <1>6, <2>1, <3>6, <4>2, <5>1, <5>2 DEF Closing
        <5>. QED
          BY <1>3, <5>3
      <4>. QED
        BY <1>1, <2>1, <4>1, <4>2
    <3>9. next' \in Nat /\ next' % w = 0 /\ lostFrom' \in Int /\ next' # -1
      BY <1>1, <2>1, <3>5, <3>6, <3>7
    <3>. HIDE DEF adm, D
    <3>10. next' \in Int /\ tnow' \in Nat
      BY <1>1, <3>9
    <3>. QED
      BY <1>4, <3>8, <3>9, <3>10, Zenon DEF ToldInv
  <2>. QED
    BY <2>2, <2>3
<1>. QED
  BY <1>5, <1>6

(* Two resets in a row remember the first bucket dropped, not the last.    *)
LEMMA ToldReset == ASSUME NEW w, ToldInv(w), ResetOf, tnow' = tnow PROVE ToldInv(w)'
BY DEF ToldInv, ResetOf, ToldUpTo

LEMMA ToldRest == ASSUME NEW w, ToldInv(w), RestOf, tnow' \in Nat PROVE ToldInv(w)'
BY DEF ToldInv, RestOf, ToldUpTo

(* The actions of the two settings, as far as what is told goes.           *)
LEMMA Settings ==
    /\ Narrow.Interval \in Nat \ {0} /\ Narrow.lateGrace \in Nat
    /\ Wide.Interval \in Nat \ {0} /\ Wide.lateGrace \in Nat
BY HandlersAssumption DEF R!TradesAssumption, B!TradesAssumption

LEMMA NarrowTick ==
    ASSUME R!Tick
    PROVE  TickOf(Narrow.Interval, Narrow.lateGrace) /\ lostFrom' \in {lostFrom, -1}
<1>. DEFINE w == Narrow.Interval
            g == Narrow.lateGrace
<1>1. R!due = Closing(w, g) /\ R!admission = Admitting(w) /\ R!None = -1
  BY DEF R!due, R!elapsed, R!None, R!admission, R!truncate, Closing, Admitting
<1>2. R!Max(R!due) = C!Max(Closing(w, g))
  BY <1>1, SameMax
<1>3. /\ next' = R!nextAfterTick /\ DOMAIN rows' = DOMAIN rows \cup R!due
      /\ first' = (IF first = R!None THEN R!admission ELSE first)
      /\ IF next = R!None /\ lostFrom # R!None
           THEN /\ reported' = reported \cup {s \in lostFrom..(R!admission - 1) : s % w = 0}
                /\ lostFrom' = R!None
           ELSE reported' = reported /\ lostFrom' = lostFrom
  BY DEF R!Tick
<1>4. next' = (IF next = -1 THEN Admitting(w)
               ELSE IF Closing(w, g) = {} THEN next ELSE C!Max(Closing(w, g)) + w)
  BY <1>1, <1>2, <1>3 DEF R!nextAfterTick
<1>. QED
  BY <1>1, <1>3, <1>4 DEF TickOf

LEMMA WideTick ==
    ASSUME B!Tick
    PROVE  TickOf(Wide.Interval, Wide.lateGrace) /\ lostFrom' \in {lostFrom, -1}
<1>. DEFINE w == Wide.Interval
            g == Wide.lateGrace
<1>1. B!due = Closing(w, g) /\ B!admission = Admitting(w) /\ B!None = -1
  BY DEF B!due, B!elapsed, B!None, B!admission, B!truncate, Closing, Admitting
<1>2. B!Max(B!due) = C!Max(Closing(w, g))
  BY <1>1, SameMax
<1>3. /\ next' = B!nextAfterTick /\ DOMAIN rows' = DOMAIN rows \cup B!due
      /\ first' = (IF first = B!None THEN B!admission ELSE first)
      /\ IF next = B!None /\ lostFrom # B!None
           THEN /\ reported' = reported \cup {s \in lostFrom..(B!admission - 1) : s % w = 0}
                /\ lostFrom' = B!None
           ELSE reported' = reported /\ lostFrom' = lostFrom
  BY DEF B!Tick
<1>4. next' = (IF next = -1 THEN Admitting(w)
               ELSE IF Closing(w, g) = {} THEN next ELSE C!Max(Closing(w, g)) + w)
  BY <1>1, <1>2, <1>3 DEF B!nextAfterTick
<1>. QED
  BY <1>1, <1>3, <1>4 DEF TickOf

LEMMA NarrowTold ==
    ASSUME ToldInv(Narrow.Interval), R!Next
    PROVE  ToldInv(Narrow.Interval)'
<1>. DEFINE w == Narrow.Interval
<1>. HIDE DEF w
<1>0. tnow \in Nat /\ w \in Nat \ {0} /\ Narrow.lateGrace \in Nat /\ ToldInv(w)
  BY Settings DEF ToldInv, w
<1>1. CASE R!Trade \/ R!Send \/ R!Drop
  <2>1. RestOf /\ tnow' = tnow
    BY <1>1 DEF R!Trade, R!Send, R!Drop, R!market, R!product, R!outcome, RestOf
  <2>. QED
    BY <1>0, <2>1, ToldRest DEF w
<1>2. CASE R!Connect
  <2>1. ResetOf /\ tnow' = tnow
    BY <1>2 DEF R!Connect, R!reset, R!None, R!market, R!outcome, ResetOf
  <2>. QED
    BY <1>0, <2>1, ToldReset DEF w
<1>3. CASE R!Receive
  <2>1. TickOf(w, Narrow.lateGrace) /\ lostFrom' \in {lostFrom, -1}
    BY <1>3, NarrowTick DEF R!Receive, w
  <2>2. tnow' = tnow
    BY <1>3 DEF R!Receive, R!market
  <2>. QED
    BY <1>0, <2>1, <2>2, ToldTick DEF w
<1>4. CASE R!AdvanceClock
  <2>1. RestOf /\ tnow' = tnow + 1
    BY <1>4 DEF R!AdvanceClock, R!product, R!outcome, RestOf
  <2>. QED
    BY <1>0, <2>1, ToldRest DEF w
<1>. QED
  BY <1>1, <1>2, <1>3, <1>4 DEF R!Next

LEMMA WideTold ==
    ASSUME ToldInv(Wide.Interval), B!Next
    PROVE  ToldInv(Wide.Interval)'
<1>. DEFINE w == Wide.Interval
<1>. HIDE DEF w
<1>0. tnow \in Nat /\ w \in Nat \ {0} /\ Wide.lateGrace \in Nat /\ ToldInv(w)
  BY Settings DEF ToldInv, w
<1>1. CASE B!Trade \/ B!Send \/ B!Drop
  <2>1. RestOf /\ tnow' = tnow
    BY <1>1 DEF B!Trade, B!Send, B!Drop, B!market, B!product, B!outcome, RestOf
  <2>. QED
    BY <1>0, <2>1, ToldRest DEF w
<1>2. CASE B!Connect
  <2>1. ResetOf /\ tnow' = tnow
    BY <1>2 DEF B!Connect, B!reset, B!None, B!market, B!outcome, ResetOf
  <2>. QED
    BY <1>0, <2>1, ToldReset DEF w
<1>3. CASE B!Receive
  <2>1. TickOf(w, Wide.lateGrace) /\ lostFrom' \in {lostFrom, -1}
    BY <1>3, WideTick DEF B!Receive, w
  <2>2. tnow' = tnow
    BY <1>3 DEF B!Receive, B!market
  <2>. QED
    BY <1>0, <2>1, <2>2, ToldTick DEF w
<1>4. CASE B!AdvanceClock
  <2>1. RestOf /\ tnow' = tnow + 1
    BY <1>4 DEF B!AdvanceClock, B!product, B!outcome, RestOf
  <2>. QED
    BY <1>0, <2>1, ToldRest DEF w
<1>. QED
  BY <1>1, <1>2, <1>3, <1>4 DEF B!Next

-----------------------------------------------------------------------------
(* The market_trades handler: an orderly venue is not taken for a stale    *)
(* one.                                                                    *)

Made(t, k) == [at |-> t, side |-> k.side, px |-> k.px, sz |-> k.sz]
TapeTrades == {Made(t, k) : t \in Nat, k \in Narrow.Kinds \cup Wide.Kinds}

(* The tape runs in time, and frames carry what was sent.                  *)
VenueInv ==
    /\ tnow \in Nat
    /\ tape \in Seq(TapeTrades)
    /\ \A i \in 1..Len(tape) : tape[i].at \in Nat /\ tape[i].at <= tnow
    /\ \A i, j \in 1..Len(tape) : i <= j => tape[i].at <= tape[j].at
    /\ sent \in 0..Len(tape)
    /\ twire \in Seq(SUBSET Nat)
    /\ \A n \in 1..Len(twire) : twire[n] \subseteq 1..sent

(* Frame n has a trade at least as new as everything handled and as        *)
(* everything in the frames before it.                                     *)
HasNewest(n) ==
    twire[n] # {} =>
        \E i \in twire[n] :
            /\ batchMax <= tape[i].at
            /\ \A m \in 1..(n - 1) : \A j \in twire[m] : j <= i

Parses == \A i \in 1..Len(tape) : tape[i].side # "OTHER"

OrderlyInv ==
    Parses =>
        /\ ~regressed
        /\ batchMax = -1 \/ \E k \in 1..sent : batchMax = tape[k].at
        /\ \A n \in 1..Len(twire) : HasNewest(n)

(* The actions of the two settings, as far as the order of trades goes.    *)
TradeOf ==
    /\ \E k \in Narrow.Kinds \cup Wide.Kinds :
          tape' = Append(tape, Made(tnow, k))
    /\ tnow' = tnow /\ twire' = twire /\ sent' = sent
    /\ batchMax' = batchMax /\ regressed' = regressed

SendOf ==
    /\ \/ /\ (sent + 1)..Len(tape) # {}
          /\ \E again \in {{}} \cup {{i} : i \in 1..sent} :
                twire' = Append(twire, ((sent + 1)..Len(tape)) \cup again)
          /\ sent' = Len(tape)
       \/ twire' = Append(twire, {}) /\ sent' = sent
    /\ tape' = tape /\ tnow' = tnow /\ batchMax' = batchMax /\ regressed' = regressed

DropOf ==
    /\ twire' = <<>> /\ sent' = sent
    /\ tape' = tape /\ tnow' = tnow /\ batchMax' = batchMax /\ regressed' = regressed

ConnectOf ==
    /\ \E k \in 0..Len(tape) :
          twire' = IF k = Len(tape) THEN <<>> ELSE <<(k + 1)..Len(tape)>>
    /\ sent' = Len(tape)
    /\ tape' = tape /\ tnow' = tnow /\ batchMax' = -1 /\ regressed' = regressed

TimesOf(frame) == {tape[i].at : i \in {j \in frame : tape[j].side # "OTHER"}}
HighOf(frame)  == IF TimesOf(frame) = {} THEN -1 ELSE C!Max(TimesOf(frame))

ReceiveOf ==
    LET high == HighOf(Head(twire)) IN
    /\ twire # <<>> /\ twire' = Tail(twire)
    /\ batchMax' = C!Max({batchMax, high})
    /\ regressed' = (regressed \/ (high # -1 /\ high < batchMax))
    /\ sent' = sent /\ tape' = tape /\ tnow' = tnow

ClockOf ==
    /\ tnow' = tnow + 1 /\ tape' = tape
    /\ twire' = twire /\ sent' = sent /\ batchMax' = batchMax /\ regressed' = regressed

LEMMA NarrowOrder ==
    ASSUME R!Next
    PROVE  TradeOf \/ SendOf \/ DropOf \/ ConnectOf \/ ReceiveOf \/ ClockOf
<1>1. R!Trade => TradeOf
  BY DEF R!Trade, R!conn, R!product, R!outcome, TradeOf, Made
<1>2. R!Send => SendOf
  BY DEF R!Send, R!market, R!product, R!outcome, SendOf
<1>3. R!Drop => DropOf
  BY DEF R!Drop, R!market, R!product, R!outcome, DropOf
<1>4. R!Connect => ConnectOf
  BY DEF R!Connect, R!reset, R!None, R!market, R!outcome, ConnectOf
<1>5. R!Receive => ReceiveOf
  <2>. SUFFICES ASSUME R!Receive PROVE ReceiveOf
    OBVIOUS
  <2>. DEFINE f == Head(twire)
  <2>1. R!timesOf(f) = TimesOf(f) /\ R!None = -1
    BY DEF R!timesOf, TimesOf, R!None
  <2>2. R!highOf(f) = HighOf(f)
    BY <2>1, SameMax DEF R!highOf, HighOf
  <2>3. R!Handle(f) /\ twire # <<>> /\ twire' = Tail(twire)
        /\ sent' = sent /\ tape' = tape /\ tnow' = tnow
    BY DEF R!Receive, R!market
  <2>4. batchMax' = R!Max({batchMax, R!highOf(f)})
    BY <2>3 DEF R!Handle
  <2>5. regressed' = (regressed \/ (R!highOf(f) # R!None /\ R!highOf(f) < batchMax))
    BY <2>3, Zenon DEF R!Handle
  <2>6. batchMax' = C!Max({batchMax, HighOf(f)})
    BY <2>2, <2>4, SameMax
  <2>7. regressed' = (regressed \/ (HighOf(f) # -1 /\ HighOf(f) < batchMax))
    BY <2>1, <2>2, <2>5, Zenon
  <2>. QED
    BY <2>3, <2>6, <2>7, Zenon DEF ReceiveOf
<1>6. R!AdvanceClock => ClockOf
  BY DEF R!AdvanceClock, R!conn, R!product, R!outcome, ClockOf
<1>. QED
  BY <1>1, <1>2, <1>3, <1>4, <1>5, <1>6 DEF R!Next

LEMMA WideOrder ==
    ASSUME B!Next
    PROVE  TradeOf \/ SendOf \/ DropOf \/ ConnectOf \/ ReceiveOf \/ ClockOf
<1>1. B!Trade => TradeOf
  BY DEF B!Trade, B!conn, B!product, B!outcome, TradeOf, Made
<1>2. B!Send => SendOf
  BY DEF B!Send, B!market, B!product, B!outcome, SendOf
<1>3. B!Drop => DropOf
  BY DEF B!Drop, B!market, B!product, B!outcome, DropOf
<1>4. B!Connect => ConnectOf
  BY DEF B!Connect, B!reset, B!None, B!market, B!outcome, ConnectOf
<1>5. B!Receive => ReceiveOf
  <2>. SUFFICES ASSUME B!Receive PROVE ReceiveOf
    OBVIOUS
  <2>. DEFINE f == Head(twire)
  <2>1. B!timesOf(f) = TimesOf(f) /\ B!None = -1
    BY DEF B!timesOf, TimesOf, B!None
  <2>2. B!highOf(f) = HighOf(f)
    BY <2>1, SameMax DEF B!highOf, HighOf
  <2>3. B!Handle(f) /\ twire # <<>> /\ twire' = Tail(twire)
        /\ sent' = sent /\ tape' = tape /\ tnow' = tnow
    BY DEF B!Receive, B!market
  <2>4. batchMax' = B!Max({batchMax, B!highOf(f)})
    BY <2>3 DEF B!Handle
  <2>5. regressed' = (regressed \/ (B!highOf(f) # B!None /\ B!highOf(f) < batchMax))
    BY <2>3, Zenon DEF B!Handle
  <2>6. batchMax' = C!Max({batchMax, HighOf(f)})
    BY <2>2, <2>4, SameMax
  <2>7. regressed' = (regressed \/ (HighOf(f) # -1 /\ HighOf(f) < batchMax))
    BY <2>1, <2>2, <2>5, Zenon
  <2>. QED
    BY <2>3, <2>6, <2>7, Zenon DEF ReceiveOf
<1>6. B!AdvanceClock => ClockOf
  BY DEF B!AdvanceClock, B!conn, B!product, B!outcome, ClockOf
<1>. QED
  BY <1>1, <1>2, <1>3, <1>4, <1>5, <1>6 DEF B!Next

LEMMA AppendIs ==
    ASSUME NEW S, NEW a \in Seq(S), NEW e \in S
    PROVE  /\ Append(a, e) \in Seq(S) /\ Len(a) \in Nat /\ Len(Append(a, e)) = Len(a) + 1
           /\ \A i \in 1..Len(a) : Append(a, e)[i] = a[i]
           /\ Append(a, e)[Len(a) + 1] = e
OBVIOUS

LEMMA TailIs ==
    ASSUME NEW S, NEW a \in Seq(S), a # <<>>
    PROVE  /\ Tail(a) \in Seq(S) /\ Len(a) \in Nat /\ Len(a) >= 1 /\ Len(Tail(a)) = Len(a) - 1
           /\ \A i \in 1..(Len(a) - 1) : Tail(a)[i] = a[i + 1]
           /\ Head(a) = a[1] /\ a[1] \in S
OBVIOUS

LEMMA TradeKeeps ==
    ASSUME VenueInv, OrderlyInv, TradeOf
    PROVE  VenueInv' /\ OrderlyInv'
<1>. DEFINE N == Len(tape)
<1>1. PICK k \in Narrow.Kinds \cup Wide.Kinds :
         tape' = Append(tape, Made(tnow, k))
  BY DEF TradeOf
<1>. DEFINE e == Made(tnow, k)
<1>2. /\ tnow' = tnow /\ twire' = twire /\ sent' = sent
      /\ batchMax' = batchMax /\ regressed' = regressed
  BY DEF TradeOf
<1>3. /\ tnow \in Nat /\ tape \in Seq(TapeTrades)
      /\ \A i \in 1..N : tape[i].at \in Nat /\ tape[i].at <= tnow
      /\ \A i, j \in 1..N : i <= j => tape[i].at <= tape[j].at
      /\ sent \in 0..N /\ twire \in Seq(SUBSET Nat)
      /\ \A n \in 1..Len(twire) : twire[n] \subseteq 1..sent
  BY DEF VenueInv
<1>4. e \in TapeTrades /\ e.at = tnow
  <2>1. tnow \in Nat
    BY <1>3
  <2>2. e \in TapeTrades
    <3>1. \E t \in Nat, q \in Narrow.Kinds \cup Wide.Kinds : e = Made(t, q)
      BY <2>1
    <3>. HIDE DEF e
    <3>. QED
      BY <3>1 DEF TapeTrades
  <2>. QED
    BY <2>2 DEF Made
<1>. HIDE DEF e, N
<1>5. /\ tape' \in Seq(TapeTrades) /\ N \in Nat /\ Len(tape') = N + 1
      /\ \A i \in 1..N : tape'[i] = tape[i]
      /\ tape'[N + 1] = e
  BY <1>1, <1>3, <1>4, AppendIs DEF e, N
<1>6. \A i \in 1..(N + 1) : i \in 1..N \/ i = N + 1
  BY <1>5
<1>7. \A i \in 1..(N + 1) : tape'[i].at \in Nat /\ tape'[i].at <= tnow
  BY <1>3, <1>4, <1>5, <1>6
<1>8. \A i, j \in 1..(N + 1) : i <= j => tape'[i].at <= tape'[j].at
  <2>. SUFFICES ASSUME NEW i \in 1..(N + 1), NEW j \in 1..(N + 1), i <= j
                PROVE  tape'[i].at <= tape'[j].at
    OBVIOUS
  <2>1. CASE j = N + 1
    BY <1>4, <1>5, <1>7, <2>1
  <2>2. CASE j # N + 1
    <3>1. i \in 1..N /\ j \in 1..N
      BY <1>5, <2>2
    <3>. QED
      BY <1>3, <1>5, <3>1
  <2>. QED
    BY <2>1, <2>2
<1>9. VenueInv'
  <2>1. sent' \in 0..Len(tape')
    BY <1>2, <1>3, <1>5
  <2>. QED
    BY <1>2, <1>3, <1>5, <1>7, <1>8, <2>1 DEF VenueInv
<1>10. OrderlyInv'
  <2>. SUFFICES ASSUME Parses' PROVE OrderlyInv'
    BY DEF OrderlyInv
  <2>1. Parses
    <3>1. \A i \in 1..N : i \in 1..(N + 1)
      BY <1>5
    <3>. QED
      BY <1>5, <3>1 DEF Parses, N
  <2>2. /\ ~regressed
        /\ batchMax = -1 \/ \E q \in 1..sent : batchMax = tape[q].at
        /\ \A n \in 1..Len(twire) : HasNewest(n)
    BY <2>1 DEF OrderlyInv
  <2>3. \A q \in 1..sent : q \in 1..N /\ tape'[q] = tape[q]
    BY <1>3, <1>5
  <2>4. \A n \in 1..Len(twire') : HasNewest(n)'
    <3>. SUFFICES ASSUME NEW n \in 1..Len(twire), twire[n] # {} PROVE HasNewest(n)'
      BY <1>2 DEF HasNewest
    <3>1. PICK i \in twire[n] : /\ batchMax <= tape[i].at
                                /\ \A m \in 1..(n - 1) : \A j \in twire[m] : j <= i
      BY <2>2 DEF HasNewest
    <3>2. i \in 1..sent
      BY <1>3
    <3>. QED
      BY <1>2, <2>3, <3>1, <3>2 DEF HasNewest
  <2>. QED
    BY <1>2, <2>2, <2>3, <2>4 DEF OrderlyInv
<1>. QED
  BY <1>9, <1>10

LEMMA SendKeeps ==
    ASSUME VenueInv, OrderlyInv, SendOf
    PROVE  VenueInv' /\ OrderlyInv'
<1>. DEFINE N == Len(tape)
            W == Len(twire)
<1>1. /\ tape' = tape /\ tnow' = tnow /\ batchMax' = batchMax /\ regressed' = regressed
  BY DEF SendOf
<1>2. /\ tnow \in Nat /\ tape \in Seq(TapeTrades) /\ N \in Nat
      /\ \A i \in 1..N : tape[i].at \in Nat /\ tape[i].at <= tnow
      /\ \A i, j \in 1..N : i <= j => tape[i].at <= tape[j].at
      /\ sent \in 0..N /\ twire \in Seq(SUBSET Nat)
      /\ \A n \in 1..W : twire[n] \subseteq 1..sent
  BY DEF VenueInv
<1>3. PICK F : /\ twire' = Append(twire, F) /\ sent' \in {sent, N} /\ F \subseteq 1..sent'
               /\ F # {} => N \in F /\ N > sent
  <2>1. CASE twire' = Append(twire, {}) /\ sent' = sent
    BY <2>1
  <2>2. CASE /\ (sent + 1)..N # {}
             /\ \E again \in {{}} \cup {{i} : i \in 1..sent} :
                   twire' = Append(twire, ((sent + 1)..N) \cup again)
             /\ sent' = N
    <3>1. PICK again \in {{}} \cup {{i} : i \in 1..sent} :
                   twire' = Append(twire, ((sent + 1)..N) \cup again)
      BY <2>2
    <3>. DEFINE F == ((sent + 1)..N) \cup again
    <3>2. N > sent /\ again \subseteq 1..sent
      BY <1>2, <2>2
    <3>3. F \subseteq 1..N /\ N \in F
      <4>1. 1..sent \subseteq 1..N /\ (sent + 1)..N \subseteq 1..N /\ N \in (sent + 1)..N
        <5>. HIDE DEF N
        <5>. QED
          BY <1>2, <3>2
      <4>. HIDE DEF N
      <4>. QED
        BY <3>2, <4>1
    <3>4. twire' = Append(twire, F) /\ sent' = N
      BY <2>2, <3>1
    <3>. HIDE DEF F
    <3>. QED
      BY <3>2, <3>3, <3>4
  <2>. QED
    BY <2>1, <2>2 DEF SendOf
<1>4. F \in SUBSET Nat
  BY <1>2, <1>3
<1>. HIDE DEF N, W
<1>5. /\ twire' \in Seq(SUBSET Nat) /\ W \in Nat /\ Len(twire') = W + 1
      /\ \A n \in 1..W : twire'[n] = twire[n]
      /\ twire'[W + 1] = F
  BY <1>2, <1>3, <1>4, AppendIs DEF W
<1>6. \A n \in 1..(W + 1) : n \in 1..W \/ n = W + 1
  BY <1>5
<1>7. sent' \in 0..N /\ 1..sent \subseteq 1..sent'
  BY <1>2, <1>3
<1>8. VenueInv'
  <2>1. \A n \in 1..(W + 1) : twire'[n] \subseteq 1..sent'
    BY <1>2, <1>3, <1>5, <1>6, <1>7
  <2>. QED
    BY <1>1, <1>2, <1>5, <1>7, <2>1 DEF VenueInv, N
<1>9. OrderlyInv'
  <2>. SUFFICES ASSUME Parses' PROVE OrderlyInv'
    BY DEF OrderlyInv
  <2>1. Parses
    BY <1>1 DEF Parses
  <2>2. /\ ~regressed
        /\ batchMax = -1 \/ \E q \in 1..sent : batchMax = tape[q].at
        /\ \A n \in 1..W : HasNewest(n)
    BY <2>1 DEF OrderlyInv, W
  <2>3. ASSUME NEW n \in 1..(W + 1) PROVE HasNewest(n)'
    <3>1. CASE n \in 1..W
      <4>. SUFFICES ASSUME twire[n] # {} PROVE HasNewest(n)'
        BY <1>5, <3>1 DEF HasNewest
      <4>1. PICK i \in twire[n] : /\ batchMax <= tape[i].at
                                  /\ \A m \in 1..(n - 1) : \A j \in twire[m] : j <= i
        BY <2>2, <3>1 DEF HasNewest
      <4>2. \A m \in 1..(n - 1) : twire'[m] = twire[m]
        BY <1>5, <3>1
      <4>. QED
        BY <1>1, <1>5, <3>1, <4>1, <4>2 DEF HasNewest
    <3>2. CASE n = W + 1
      <4>. SUFFICES ASSUME F # {} PROVE HasNewest(n)'
        BY <1>5, <3>2 DEF HasNewest
      <4>1. N \in F /\ N > sent /\ N \in 1..N
        BY <1>2, <1>3
      <4>2. batchMax <= tape[N].at
        <5>1. CASE batchMax = -1
          <6>1. tape[N].at \in Nat
            BY <1>2, <4>1
          <6>. QED
            BY <5>1, <6>1
        <5>2. CASE \E q \in 1..sent : batchMax = tape[q].at
          <6>1. PICK q \in 1..sent : batchMax = tape[q].at
            BY <5>2
          <6>2. q \in 1..N /\ q <= N
            BY <1>2
          <6>. QED
            BY <1>2, <4>1, <6>1, <6>2
        <5>. QED
          BY <2>2, <5>1, <5>2
      <4>3. \A m \in 1..(n - 1) : twire'[m] = twire[m] /\ m \in 1..W
        BY <1>5, <3>2
      <4>4. \A m \in 1..(n - 1) : \A j \in twire'[m] : j <= N
        <5>1. \A j \in 1..sent : j <= N
          BY <1>2
        <5>. QED
          BY <1>2, <4>3, <5>1
      <4>. QED
        BY <1>1, <1>5, <3>2, <4>1, <4>2, <4>4 DEF HasNewest
    <3>. QED
      BY <1>6, <3>1, <3>2
  <2>4. batchMax' = -1 \/ \E q \in 1..sent' : batchMax' = tape'[q].at
    BY <1>1, <1>7, <2>2
  <2>. QED
    BY <1>1, <1>5, <2>2, <2>3, <2>4 DEF OrderlyInv
<1>. QED
  BY <1>8, <1>9

LEMMA ConnectKeeps ==
    ASSUME VenueInv, OrderlyInv, ConnectOf
    PROVE  VenueInv' /\ OrderlyInv'
<1>. DEFINE N == Len(tape)
<1>1. /\ tape' = tape /\ tnow' = tnow /\ batchMax' = -1 /\ regressed' = regressed /\ sent' = N
  BY DEF ConnectOf
<1>2. /\ tnow \in Nat /\ tape \in Seq(TapeTrades) /\ N \in Nat
      /\ \A i \in 1..N : tape[i].at \in Nat /\ tape[i].at <= tnow
      /\ \A i, j \in 1..N : i <= j => tape[i].at <= tape[j].at
  BY DEF VenueInv
<1>3. PICK k \in 0..N : twire' = IF k = N THEN <<>> ELSE <<(k + 1)..N>>
  BY DEF ConnectOf
<1>. HIDE DEF N
<1>4. CASE k = N
  <2>1. twire' = <<>> /\ Len(twire') = 0
    BY <1>3, <1>4
  <2>2. VenueInv'
    BY <1>1, <1>2, <2>1 DEF VenueInv, N
  <2>3. OrderlyInv'
    BY <1>1, <2>1 DEF OrderlyInv, Parses
  <2>. QED
    BY <2>2, <2>3
<1>5. CASE k # N
  <2>. DEFINE F == (k + 1)..N
  <2>1. F \subseteq 1..N /\ N \in F /\ N \in 1..N
    BY <1>2, <1>3, <1>5
  <2>2. twire' = <<F>>
    BY <1>3, <1>5
  <2>. HIDE DEF F
  <2>3. F \in SUBSET Nat
    BY <1>2, <2>1
  <2>4. twire' \in Seq(SUBSET Nat) /\ Len(twire') = 1 /\ twire'[1] = F
    BY <2>2, <2>3
  <2>5. VenueInv'
    <3>1. \A n \in 1..Len(twire') : twire'[n] \subseteq 1..sent'
      BY <1>1, <2>1, <2>4
    <3>2. sent' \in 0..Len(tape')
      BY <1>1, <1>2 DEF N
    <3>. QED
      BY <1>1, <1>2, <2>4, <3>1, <3>2 DEF VenueInv, N
  <2>6. HasNewest(1)'
    <3>1. -1 <= tape[N].at
      <4>1. tape[N].at \in Nat
        BY <1>2, <2>1
      <4>. QED
        BY <4>1
    <3>2. 1..(1 - 1) = {}
      OBVIOUS
    <3>. QED
      BY <1>1, <2>1, <2>4, <3>1, <3>2 DEF HasNewest
  <2>7. \A n \in 1..Len(twire') : n = 1
    BY <2>4
  <2>8. OrderlyInv'
    BY <1>1, <2>6, <2>7 DEF OrderlyInv, Parses
  <2>. QED
    BY <2>5, <2>8
<1>. QED
  BY <1>4, <1>5

LEMMA RestKeeps ==
    ASSUME VenueInv, OrderlyInv, DropOf \/ ClockOf
    PROVE  VenueInv' /\ OrderlyInv'
<1>1. /\ tape' = tape /\ tnow' \in {tnow, tnow + 1} /\ sent' = sent
      /\ batchMax' = batchMax /\ regressed' = regressed /\ twire' \in {twire, <<>>}
  BY DEF DropOf, ClockOf
<1>2. /\ tnow \in Nat /\ tape \in Seq(TapeTrades)
      /\ \A i \in 1..Len(tape) : tape[i].at \in Nat /\ tape[i].at <= tnow
  BY DEF VenueInv
<1>3. tnow' \in Nat /\ \A i \in 1..Len(tape) : tape[i].at <= tnow'
  BY <1>1, <1>2
<1>4. CASE twire' = twire
  BY <1>1, <1>3, <1>4 DEF VenueInv, OrderlyInv, Parses, HasNewest
<1>5. CASE twire' = <<>>
  <2>1. twire' \in Seq(SUBSET Nat) /\ \A n \in 1..Len(twire') : FALSE
    BY <1>5
  <2>. QED
    BY <1>1, <1>3, <2>1 DEF VenueInv, OrderlyInv, Parses
<1>. QED
  BY <1>1, <1>4, <1>5

LEMMA ReceiveKeeps ==
    ASSUME VenueInv, OrderlyInv, ReceiveOf
    PROVE  VenueInv' /\ OrderlyInv'
<1>. DEFINE N == Len(tape)
            W == Len(twire)
            f == Head(twire)
            high == HighOf(f)
<1>1. /\ twire # <<>> /\ twire' = Tail(twire) /\ batchMax' = C!Max({batchMax, high})
      /\ sent' = sent /\ tape' = tape /\ tnow' = tnow
  BY DEF ReceiveOf
<1>2. regressed' = (regressed \/ (high # -1 /\ high < batchMax))
  BY Zenon DEF ReceiveOf
<1>3. /\ tnow \in Nat /\ tape \in Seq(TapeTrades) /\ N \in Nat
      /\ \A i \in 1..N : tape[i].at \in Nat /\ tape[i].at <= tnow
      /\ \A i, j \in 1..N : i <= j => tape[i].at <= tape[j].at
      /\ sent \in 0..N /\ twire \in Seq(SUBSET Nat)
      /\ \A n \in 1..W : twire[n] \subseteq 1..sent
  BY DEF VenueInv
<1>4. /\ twire' \in Seq(SUBSET Nat) /\ W \in Nat /\ W >= 1 /\ Len(twire') = W - 1
      /\ \A n \in 1..(W - 1) : twire'[n] = twire[n + 1]
      /\ f = twire[1] /\ f \subseteq 1..sent
  <2>1. f = twire[1] /\ W \in Nat /\ W >= 1
    BY <1>1, <1>3, TailIs
  <2>. QED
    BY <1>1, <1>3, <2>1, TailIs
<1>. HIDE DEF N, W, f, high
<1>5. VenueInv'
  <2>1. \A n \in 1..(W - 1) : n + 1 \in 1..W
    BY <1>4
  <2>2. \A n \in 1..Len(twire') : twire'[n] \subseteq 1..sent
    BY <1>3, <1>4, <2>1
  <2>. QED
    BY <1>1, <1>3, <1>4, <2>2 DEF VenueInv, N
<1>6. OrderlyInv'
  <2>. SUFFICES ASSUME Parses' PROVE OrderlyInv'
    BY DEF OrderlyInv
  <2>1. Parses
    BY <1>1 DEF Parses
  <2>2. /\ ~regressed
        /\ batchMax = -1 \/ \E q \in 1..sent : batchMax = tape[q].at
        /\ \A n \in 1..W : HasNewest(n)
    BY <2>1 DEF OrderlyInv, W
  <2>3. \A j \in f : j \in 1..N /\ j \in 1..sent /\ tape[j].side # "OTHER"
    BY <1>3, <1>4, <2>1 DEF Parses, N
  <2>4. TimesOf(f) = {tape[j].at : j \in f}
    BY <2>3 DEF TimesOf
  <2>5. batchMax \in Int /\ batchMax >= -1
    <3>1. ASSUME NEW q \in 1..sent PROVE tape[q].at \in Nat
      BY <1>3
    <3>. QED
      BY <2>2, <3>1
  <2>6. CASE f = {}
    <3>1. high = -1
      BY <2>4, <2>6 DEF HighOf, high
    <3>2. batchMax' = batchMax
      <4>1. {batchMax, high} \in SUBSET Int /\ batchMax \in {batchMax, high}
            /\ \A y \in {batchMax, high} : batchMax >= y
        BY <2>5, <3>1
      <4>. QED
        BY <1>1, <4>1, MaxIs
    <3>3. ~regressed'
      BY <1>2, <2>2, <3>1, Zenon
    <3>4. ASSUME NEW n \in 1..(W - 1) PROVE HasNewest(n)'
      <4>1. n + 1 \in 1..W /\ twire'[n] = twire[n + 1]
        BY <1>4
      <4>. SUFFICES ASSUME twire[n + 1] # {} PROVE HasNewest(n)'
        BY <4>1 DEF HasNewest
      <4>2. PICK i \in twire[n + 1] : /\ batchMax <= tape[i].at
                                      /\ \A m \in 1..((n + 1) - 1) : \A j \in twire[m] : j <= i
        BY <2>2, <4>1 DEF HasNewest
      <4>3. \A m \in 1..(n - 1) : m + 1 \in 1..((n + 1) - 1) /\ twire'[m] = twire[m + 1]
        BY <1>4
      <4>4. \A m \in 1..(n - 1) : \A j \in twire'[m] : j <= i
        BY <4>2, <4>3
      <4>. QED
        BY <1>1, <3>2, <4>1, <4>2, <4>4 DEF HasNewest
    <3>. QED
      BY <1>1, <1>4, <2>2, <3>2, <3>3, <3>4 DEF OrderlyInv
  <2>7. CASE f # {}
    <3>1. PICK h \in f : high = tape[h].at /\ \A j \in f : tape[j].at <= tape[h].at
      <4>1. TimesOf(f) \in SUBSET (0..tnow) /\ TimesOf(f) # {}
        BY <1>3, <2>3, <2>4, <2>7
      <4>2. PICK t \in TimesOf(f) : \A y \in TimesOf(f) : t >= y
        BY <1>3, <4>1, MaxExists
      <4>3. TimesOf(f) \in SUBSET Int
        BY <4>1
      <4>4. high = t
        BY <4>1, <4>2, <4>3, MaxIs DEF HighOf, high
      <4>5. PICK h \in f : t = tape[h].at
        BY <2>4, <4>2
      <4>6. \A j \in f : tape[j].at \in TimesOf(f)
        BY <2>4
      <4>7. \A j \in f : tape[j].at <= t
        BY <4>2, <4>3, <4>6
      <4>. QED
        BY <4>4, <4>5, <4>7
    <3>2. PICK i \in f : batchMax <= tape[i].at
      <4>1. 1 \in 1..W
        BY <1>4
      <4>. QED
        BY <1>4, <2>2, <2>7, <4>1 DEF HasNewest
    <3>3. high \in Nat /\ tape[i].at \in Nat /\ tape[i].at <= high
      BY <1>3, <2>3, <3>1
    <3>4. batchMax <= high
      BY <2>5, <3>2, <3>3
    <3>5. batchMax' = high
      <4>1. {batchMax, high} \in SUBSET Int /\ high \in {batchMax, high}
            /\ \A y \in {batchMax, high} : high >= y
        BY <2>5, <3>3, <3>4
      <4>. QED
        BY <1>1, <4>1, MaxIs
    <3>6. ~regressed'
      <4>1. ~(high < batchMax)
        BY <2>5, <3>3, <3>4
      <4>. QED
        BY <1>2, <2>2, <4>1, Zenon
    <3>7. ASSUME NEW n \in 1..(W - 1) PROVE HasNewest(n)'
      <4>1. n + 1 \in 1..W /\ twire'[n] = twire[n + 1] /\ 1 \in 1..((n + 1) - 1)
        BY <1>4
      <4>. SUFFICES ASSUME twire[n + 1] # {} PROVE HasNewest(n)'
        BY <4>1 DEF HasNewest
      <4>2. PICK p \in twire[n + 1] : \A m \in 1..((n + 1) - 1) : \A j \in twire[m] : j <= p
        BY <2>2, <4>1 DEF HasNewest
      <4>3. \A m \in 1..(n - 1) : m + 1 \in 1..((n + 1) - 1) /\ twire'[m] = twire[m + 1]
        BY <1>4
      <4>4. \A m \in 1..(n - 1) : \A j \in twire'[m] : j <= p
        BY <4>2, <4>3
      <4>5. h <= p
        BY <1>4, <3>1, <4>1, <4>2
      <4>6. p \in 1..N
        BY <1>3, <4>1
      <4>7. high <= tape[p].at
        BY <1>3, <2>3, <3>1, <4>5, <4>6
      <4>. QED
        BY <1>1, <3>5, <4>1, <4>2, <4>4, <4>7 DEF HasNewest
    <3>8. \E q \in 1..sent : batchMax' = tape[q].at
      BY <2>3, <3>1, <3>5
    <3>. QED
      BY <1>1, <1>4, <3>6, <3>7, <3>8 DEF OrderlyInv
  <2>. QED
    BY <2>6, <2>7
<1>. QED
  BY <1>5, <1>6

-----------------------------------------------------------------------------
(* Nothing a stream handler loses is lost silently.                        *)

TradesInv == ToldInv(Setting.Interval) /\ VenueInv /\ OrderlyInv

TellInv == TradesInv /\ HistInv /\ WireInv /\ OrderInv

LEMMA TellInit == HandlersInit => TellInv
<1>. SUFFICES ASSUME HandlersInit PROVE TellInv
  OBVIOUS
<1>1. R!Init /\ C!Init
  BY DEF HandlersInit
<1>2. /\ tnow = 0 /\ tape = <<>> /\ twire = <<>> /\ sent = 0 /\ next = -1 /\ first = -1
      /\ lostFrom = -1 /\ batchMax = -1 /\ regressed = FALSE
  BY <1>1 DEF R!Init, R!None
<1>3. ToldInv(Setting.Interval)
  BY <1>2 DEF ToldInv
<1>4. VenueInv
  <2>1. /\ Len(tape) = 0 /\ Len(twire) = 0 /\ <<>> \in Seq(TapeTrades) /\ <<>> \in Seq(SUBSET Nat)
    BY <1>2
  <2>. QED
    BY <1>2, <2>1 DEF VenueInv
<1>5. OrderlyInv
  <2>1. \A n \in 1..Len(twire) : FALSE
    BY <1>2
  <2>2. ~regressed
    BY <1>2, Zenon
  <2>. QED
    BY <1>2, <2>1, <2>2 DEF OrderlyInv
<1>6. HistInv /\ WireInv /\ OrderInv
  BY <1>1, HistInit
<1>. QED
  BY <1>3, <1>4, <1>5, <1>6 DEF TellInv, TradesInv

LEMMA TradesStep ==
    ASSUME TradesInv,
           \/ handler = "reconnects" /\ R!Next /\ UNCHANGED handler
           \/ handler = "bursts"     /\ B!Next /\ UNCHANGED handler
    PROVE  TradesInv'
<1>1. ToldInv(Setting.Interval) /\ VenueInv /\ OrderlyInv
  BY DEF TradesInv
<1>2. Setting' = Setting
  BY DEF Setting
<1>3. ToldInv(Setting.Interval)'
  <2>1. CASE handler = "reconnects" /\ R!Next
    <3>1. Setting = Narrow /\ Setting' = Narrow
      BY <1>2, <2>1 DEF Setting
    <3>2. ToldInv(Narrow.Interval)'
      BY <1>1, <2>1, <3>1, NarrowTold
    <3>. QED
      BY <3>1, <3>2 DEF ToldInv, ToldUpTo
  <2>2. CASE handler = "bursts" /\ B!Next
    <3>1. Setting = Wide /\ Setting' = Wide
      BY <1>2, <2>2 DEF Setting
    <3>2. ToldInv(Wide.Interval)'
      BY <1>1, <2>2, <3>1, WideTold
    <3>. QED
      BY <3>1, <3>2 DEF ToldInv, ToldUpTo
  <2>. QED
    BY <2>1, <2>2
<1>4. TradeOf \/ SendOf \/ DropOf \/ ConnectOf \/ ReceiveOf \/ ClockOf
  BY NarrowOrder, WideOrder
<1>5. VenueInv' /\ OrderlyInv'
  BY <1>1, <1>4, TradeKeeps, SendKeeps, ConnectKeeps, RestKeeps, ReceiveKeeps
<1>. QED
  BY <1>3, <1>5 DEF TradesInv

LEMMA TradesRest ==
    ASSUME TradesInv, UNCHANGED <<handler, tradesVars>>
    PROVE  TradesInv'
<1>1. /\ Setting' = Setting /\ tnow' = tnow /\ tape' = tape /\ twire' = twire /\ sent' = sent
      /\ next' = next /\ first' = first /\ lostFrom' = lostFrom /\ rows' = rows
      /\ reported' = reported /\ batchMax' = batchMax /\ regressed' = regressed
  BY DEF Setting, tradesVars
<1>2. ToldInv(Setting.Interval)'
  BY <1>1 DEF TradesInv, ToldInv, ToldUpTo
<1>3. VenueInv' /\ OrderlyInv'
  BY <1>1 DEF TradesInv, VenueInv, OrderlyInv, Parses, HasNewest
<1>. QED
  BY <1>2, <1>3 DEF TradesInv

LEMMA CandlesTell ==
    ASSUME HistInv, WireInv, OrderInv, C!Next \/ UNCHANGED C!vars
    PROVE  HistInv' /\ WireInv' /\ OrderInv'
<1>1. Window \in Nat \ {0}
  BY HandlersAssumption DEF C!CandlesAssumption
<1>2. CASE C!Change
  BY <1>2, ChangeHist, OrderStep
<1>3. CASE C!Roll
  BY <1>3, RollHist, OrderStep
<1>4. CASE C!Drop \/ UNCHANGED C!vars
  BY <1>4, RestHist, OrderStep
<1>5. CASE C!Connect
  BY <1>1, <1>5, ConnectHist, OrderStep
<1>6. CASE C!Handle
  <2>1. PICK cs, st, n, T : HandleOf(cs, st, n, T)
    BY <1>6, HandleEffect
  <2>2. cwire # <<>> /\ hist' = hist
    BY <1>6 DEF C!Handle
  <2>. QED
    BY <1>6, <2>1, <2>2, OrderHandle, HandleHist
<1>. QED
  BY <1>2, <1>3, <1>4, <1>5, <1>6 DEF C!Next

LEMMA TellStep == TellInv /\ [HandlersNext]_<<handler, tradesVars, candlesVars>> => TellInv'
<1>. SUFFICES ASSUME TellInv, [HandlersNext]_<<handler, tradesVars, candlesVars>> PROVE TellInv'
  OBVIOUS
<1>1. TradesInv /\ HistInv /\ WireInv /\ OrderInv
  BY DEF TellInv
<1>2. UNCHANGED candlesVars => UNCHANGED C!vars
  BY DEF candlesVars, C!vars, C!venue, C!state, C!seen
<1>3. TradesInv'
  <2>1. \/ \/ handler = "reconnects" /\ R!Next /\ UNCHANGED handler
           \/ handler = "bursts"     /\ B!Next /\ UNCHANGED handler
        \/ UNCHANGED <<handler, tradesVars>>
    BY DEF HandlersNext
  <2>. QED
    BY <1>1, <2>1, TradesStep, TradesRest
<1>4. C!Next \/ UNCHANGED C!vars
  BY <1>2 DEF HandlersNext
<1>5. HistInv' /\ WireInv' /\ OrderInv'
  BY <1>1, <1>4, CandlesTell
<1>. QED
  BY <1>3, <1>5 DEF TellInv

LEMMA TellImplies == TellInv => HolesAreTold
<1>. SUFFICES ASSUME TellInv PROVE HolesAreTold
  OBVIOUS
<1>1. ToldInv(Setting.Interval)
  BY DEF TellInv, TradesInv
<1>2. handler # "bursts" => R!HolesAreReported
  <2>. SUFFICES ASSUME handler # "bursts" PROVE R!HolesAreReported
    OBVIOUS
  <2>1. Setting = Narrow
    BY DEF Setting
  <2>. QED
    BY <1>1, <2>1 DEF ToldInv, ToldUpTo, R!HolesAreReported, R!None
<1>3. handler = "bursts" => B!HolesAreReported
  <2>. SUFFICES ASSUME handler = "bursts" PROVE B!HolesAreReported
    OBVIOUS
  <2>1. Setting = Wide
    BY DEF Setting
  <2>. QED
    BY <1>1, <2>1 DEF ToldInv, ToldUpTo, B!HolesAreReported, B!None
<1>4. R!NoFalseRegression
  <2>1. VenueInv /\ OrderlyInv
    BY DEF TellInv, TradesInv
  <2>2. DOMAIN tape = 1..Len(tape)
    BY <2>1 DEF VenueInv
  <2>3. ~Parses => \E i \in DOMAIN tape : tape[i].side = "OTHER"
    BY <2>2 DEF Parses
  <2>. QED
    BY <2>1, <2>3 DEF OrderlyInv, R!NoFalseRegression
<1>5. C!HolesAreCounted
  BY DEF TellInv, OrderInv
<1>. QED
  BY <1>2, <1>3, <1>4, <1>5 DEF HolesAreTold

(* Every bucket since the first is in the series or was reported, a hole   *)
(* in the bars was counted unless the first message has it, and an orderly *)
(* venue is never taken for one that replays a stale view: for any kinds   *)
(* of trades, widths, graces, bounds and connections.                      *)
THEOREM NoHoleIsSilent == HandlersSpec => []HolesAreTold
<1>. QED
  BY TellInit, TellStep, TellImplies, PTL DEF HandlersSpec

-----------------------------------------------------------------------------
(* The market_trades handler: sums of the trades of a bucket, and runs.    *)

SumOf(f) == LET upTo[i \in 0..Len(f)] == IF i = 0 THEN 0 ELSE upTo[i - 1] + f[i] IN upTo[Len(f)]

LEMMA EachUpTo ==
    ASSUME NEW n \in Nat, NEW P, 0 \in P, \A i \in 0..(n - 1) : i \in P => i + 1 \in P
    PROVE  \A i \in 0..n : i \in P
<1>. SUFFICES ASSUME NEW i \in 0..n PROVE i \in P
  OBVIOUS
<1>1. i \in Nat /\ \A k \in 0..(i - 1) : k \in 0..(n - 1)
  OBVIOUS
<1>. QED
  BY <1>1, PassedUp

(* A recursive function is whatever satisfies its equation; that something *)
(* does is shown by extending what satisfies it up to n.                   *)
SumsUpTo(U, f, n) == U[0] = 0 /\ \A i \in 0..(n - 1) : U[i + 1] = U[i] + f[i + 1]

LEMMA SumIs ==
    ASSUME NEW n \in Nat, NEW f \in [1..n -> Nat]
    PROVE  \E U \in [0..n -> Nat] : SumsUpTo(U, f, n) /\ SumOf(f) = U[n]
<1>. DEFINE Upto(g, m) == g = [i \in 0..m |-> IF i = 0 THEN 0 ELSE g[i - 1] + f[i]]
            G == {m \in 0..n : \E g : Upto(g, m)}
            upTo == CHOOSE g : Upto(g, n)
<1>1. 0 \in G
  <2>1. Upto([i \in 0..0 |-> 0], 0)
    OBVIOUS
  <2>. HIDE DEF Upto
  <2>. QED
    BY <2>1
<1>2. \A m \in 0..(n - 1) : m \in G => m + 1 \in G
  <2>0. \A m \in 0..(n - 1) : m + 1 \in 0..n
    OBVIOUS
  <2>. HIDE DEF Upto
  <2>. SUFFICES ASSUME NEW m \in 0..(n - 1), m \in G PROVE \E g : Upto(g, m + 1)
    BY <2>0
  <2>1. PICK g : Upto(g, m)
    OBVIOUS
  <2>. USE DEF Upto
  <2>. DEFINE h == [i \in 0..(m + 1) |-> IF i = m + 1 THEN g[m] + f[m + 1] ELSE g[i]]
  <2>2. \A i \in 0..m : h[i] = g[i]
    OBVIOUS
  <2>3. ASSUME NEW i \in 0..(m + 1)
        PROVE  h[i] = IF i = 0 THEN 0 ELSE h[i - 1] + f[i]
    <3>1. CASE i = m + 1
      <4>1. h[i] = g[m] + f[m + 1] /\ i # 0 /\ i - 1 = m /\ h[m] = g[m]
        BY <3>1, <2>2
      <4>. QED
        BY <3>1, <4>1
    <3>2. CASE i # m + 1
      <4>1. i \in 0..m /\ (i # 0 => i - 1 \in 0..m)
        BY <3>2
      <4>2. g[i] = IF i = 0 THEN 0 ELSE g[i - 1] + f[i]
        BY <2>1, <4>1
      <4>. HIDE DEF h
      <4>. QED
        BY <2>2, <4>1, <4>2
    <3>. QED
      BY <3>1, <3>2
  <2>. DEFINE e == [i \in 0..(m + 1) |-> IF i = 0 THEN 0 ELSE h[i - 1] + f[i]]
  <2>4. h = [i \in 0..(m + 1) |-> h[i]]
    OBVIOUS
  <2>. HIDE DEF h
  <2>5. e = [i \in 0..(m + 1) |-> h[i]]
    BY <2>3
  <2>6. Upto(h, m + 1)
    BY <2>4, <2>5
  <2>. HIDE DEF Upto
  <2>. QED
    BY <2>6
<1>3. n \in G
  <2>. HIDE DEF G
  <2>. QED
    BY <1>1, <1>2, PassedUp
<1>4. Upto(upTo, n)
  <2>. HIDE DEF Upto
  <2>. QED
    BY <1>3
<1>5. Len(f) = n
  OBVIOUS
<1>6. SumOf(f) = upTo[n]
  BY <1>5 DEF SumOf
<1>. HIDE DEF upTo
<1>7. \A i \in 0..n : upTo[i] = IF i = 0 THEN 0 ELSE upTo[i - 1] + f[i]
  BY <1>4
<1>8. SumsUpTo(upTo, f, n)
  <2>1. \A i \in 0..(n - 1) : i + 1 \in 0..n /\ i + 1 # 0 /\ i + 1 - 1 = i
    OBVIOUS
  <2>. QED
    BY <1>7, <2>1 DEF SumsUpTo
<1>9. \A i \in 0..n : upTo[i] \in Nat
  <2>. DEFINE T == {i \in 0..n : upTo[i] \in Nat}
  <2>1. 0 \in T
    BY <1>7
  <2>2. \A i \in 0..(n - 1) : i \in T => i + 1 \in T
    <3>1. \A i \in 0..(n - 1) : i + 1 \in 1..n /\ i + 1 \in 0..n
      OBVIOUS
    <3>. QED
      BY <1>8, <3>1 DEF SumsUpTo
  <2>3. \A i \in 0..n : i \in T
    <3>. HIDE DEF T
    <3>. QED
      BY <2>1, <2>2, EachUpTo
  <2>. QED
    BY <2>3
<1>10. upTo \in [0..n -> Nat]
  BY <1>4, <1>9
<1>. QED
  BY <1>6, <1>8, <1>10

(* Two numbers of each trade are together not above a third.               *)
LEMMA SumOfTwo ==
    ASSUME NEW n \in Nat, NEW f \in [1..n -> Nat], NEW g \in [1..n -> Nat], NEW h \in [1..n -> Nat],
           \A i \in 1..n : f[i] >= g[i] + h[i]
    PROVE  SumOf(f) >= SumOf(g) + SumOf(h)
<1>1. PICK U \in [0..n -> Nat] : SumsUpTo(U, f, n) /\ SumOf(f) = U[n]
  BY SumIs
<1>2. PICK V \in [0..n -> Nat] : SumsUpTo(V, g, n) /\ SumOf(g) = V[n]
  BY SumIs
<1>3. PICK W \in [0..n -> Nat] : SumsUpTo(W, h, n) /\ SumOf(h) = W[n]
  BY SumIs
<1>. DEFINE P == {i \in 0..n : U[i] >= V[i] + W[i]}
<1>4. 0 \in P
  BY <1>1, <1>2, <1>3 DEF SumsUpTo
<1>5. ASSUME NEW i \in 0..(n - 1), i \in P PROVE i + 1 \in P
  <2>1. i + 1 \in 1..n /\ i + 1 \in 0..n /\ i + 1 - 1 = i /\ i \in 0..n
    OBVIOUS
  <2>2. U[i + 1] = U[i] + f[i + 1]
    BY <1>1, Zenon DEF SumsUpTo
  <2>5. V[i + 1] = V[i] + g[i + 1]
    BY <1>2, Zenon DEF SumsUpTo
  <2>6. W[i + 1] = W[i] + h[i + 1]
    BY <1>3, Zenon DEF SumsUpTo
  <2>3. /\ U[i] \in Nat /\ V[i] \in Nat /\ W[i] \in Nat /\ U[i] >= V[i] + W[i]
        /\ f[i + 1] \in Nat /\ g[i + 1] \in Nat /\ h[i + 1] \in Nat /\ f[i + 1] >= g[i + 1] + h[i + 1]
    BY <1>5, <2>1
  <2>4. U[i + 1] >= V[i + 1] + W[i + 1]
    <3>. HIDE DEF P
    <3>1. ASSUME NEW a \in Nat, NEW b \in Nat, NEW c \in Nat, NEW x \in Nat, NEW y \in Nat, NEW z \in Nat,
                 a >= b + c, x >= y + z
          PROVE  a + x >= (b + y) + (c + z)
      BY <3>1
    <3>2. V[i] \in Nat /\ W[i] \in Nat /\ U[i] \in Nat
      BY <2>3
    <3>3. U[i] + f[i + 1] >= (V[i] + g[i + 1]) + (W[i] + h[i + 1])
      BY <2>3, <3>1
    <3>. QED
      BY <2>2, <2>5, <2>6, <3>3
  <2>. QED
    BY <2>1, <2>4
<1>6. n \in P
  <2>. HIDE DEF P
  <2>. QED
    BY <1>4, <1>5, PassedUp
<1>. QED
  BY <1>1, <1>2, <1>3, <1>6

(* The sum over a set of positions of a tape of N.                         *)
TapeSum(h, N, T) == SumOf([i \in 1..N |-> IF i \in T THEN h[i] ELSE 0])

OneByOne(h, N) ==
    \A T : \A x \in 1..N : x \notin T => TapeSum(h, N, T \cup {x}) = TapeSum(h, N, T) + h[x]

LEMMA OneMore ==
    ASSUME NEW N \in Nat, NEW h \in [1..N -> Nat]
    PROVE  OneByOne(h, N)
<1>. SUFFICES ASSUME NEW T, NEW x \in 1..N, x \notin T
              PROVE  TapeSum(h, N, T \cup {x}) = TapeSum(h, N, T) + h[x]
  BY DEF OneByOne
<1>. DEFINE f == [i \in 1..N |-> IF i \in T THEN h[i] ELSE 0]
            g == [i \in 1..N |-> IF i \in T \cup {x} THEN h[i] ELSE 0]
<1>1. f \in [1..N -> Nat] /\ g \in [1..N -> Nat]
  OBVIOUS
<1>2. \A i \in 1..N : g[i] = IF i = x THEN f[i] + h[x] ELSE f[i]
  OBVIOUS
<1>3. h[x] \in Nat
  OBVIOUS
<1>4. TapeSum(h, N, T) = SumOf(f) /\ TapeSum(h, N, T \cup {x}) = SumOf(g)
  BY DEF TapeSum
<1>. HIDE DEF f, g
<1>5. PICK U \in [0..N -> Nat] : SumsUpTo(U, f, N) /\ SumOf(f) = U[N]
  BY <1>1, SumIs
<1>6. PICK V \in [0..N -> Nat] : SumsUpTo(V, g, N) /\ SumOf(g) = V[N]
  BY <1>1, SumIs
<1>. DEFINE P == {i \in 0..N : V[i] = IF i >= x THEN U[i] + h[x] ELSE U[i]}
<1>7. 0 \in P
  BY <1>5, <1>6 DEF SumsUpTo
<1>8. ASSUME NEW i \in 0..(N - 1), i \in P PROVE i + 1 \in P
  <2>1. i + 1 \in 1..N /\ i + 1 \in 0..N /\ i + 1 - 1 = i /\ i \in 0..N
    OBVIOUS
  <2>2. U[i + 1] = U[i] + f[i + 1]
    BY <1>5, Zenon DEF SumsUpTo
  <2>7. V[i + 1] = V[i] + g[i + 1]
    BY <1>6, Zenon DEF SumsUpTo
  <2>3. U[i] \in Nat /\ V[i] \in Nat /\ f[i + 1] \in Nat /\ g[i + 1] \in Nat
    BY <1>1, <2>1
  <2>4. V[i] = IF i >= x THEN U[i] + h[x] ELSE U[i]
    BY <1>8
  <2>5. g[i + 1] = IF i + 1 = x THEN f[i + 1] + h[x] ELSE f[i + 1]
    BY <1>2, <2>1
  <2>6. V[i + 1] = IF i + 1 >= x THEN U[i + 1] + h[x] ELSE U[i + 1]
    <3>. HIDE DEF P
    <3>1. i \in Nat /\ x \in Nat
      OBVIOUS
    <3>5. \A a, b, c \in Nat : (a + b) + c = (a + c) + b
      OBVIOUS
    <3>2. CASE i >= x
      <4>1. V[i] = U[i] + h[x] /\ g[i + 1] = f[i + 1] /\ i + 1 >= x
        BY <2>4, <2>5, <3>1, <3>2
      <4>2. (U[i] + h[x]) + f[i + 1] = (U[i] + f[i + 1]) + h[x]
        BY <1>3, <2>3, <3>5, Zenon
      <4>. QED
        BY <2>2, <2>7, <4>1, <4>2
    <3>3. CASE i + 1 = x
      <4>1. V[i] = U[i] /\ g[i + 1] = f[i + 1] + h[x] /\ i + 1 >= x
        BY <2>4, <2>5, <3>1, <3>3
      <4>2. U[i] + (f[i + 1] + h[x]) = (U[i] + f[i + 1]) + h[x]
        <5>. DEFINE a == U[i]
                    b == f[i + 1]
                    c == h[x]
        <5>1. a \in Nat /\ b \in Nat /\ c \in Nat
          BY <1>3, <2>3
        <5>. HIDE DEF a, b, c
        <5>2. a + (b + c) = (a + b) + c
          BY <5>1
        <5>. QED
          BY <5>2 DEF a, b, c
      <4>. QED
        BY <2>2, <2>7, <4>1, <4>2
    <3>4. CASE i + 1 < x
      BY <1>3, <2>2, <2>3, <2>4, <2>5, <2>7, <3>1, <3>4
    <3>. QED
      BY <3>1, <3>2, <3>3, <3>4
  <2>. QED
    BY <2>1, <2>6
<1>9. N \in P
  <2>. HIDE DEF P
  <2>. QED
    BY <1>7, <1>8, PassedUp
<1>. QED
  BY <1>4, <1>5, <1>6, <1>9

(* q lists the trades of T, each once.                                     *)
Lists(q, n, T) ==
    /\ q \in [1..n -> T] /\ {q[k] : k \in 1..n} = T
    /\ \A j, k \in 1..n : q[j] = q[k] => j = k

ListSum(h, q, n) == SumOf([k \in 1..n |-> h[q[k]]])

(* A sum over trades in any order is the sum over the tape.                *)
LEMMA ListedOnce ==
    ASSUME NEW N \in Nat, NEW h \in [1..N -> Nat], NEW S \in SUBSET (1..N),
           NEW n \in Nat, NEW q, Lists(q, n, S)
    PROVE  ListSum(h, q, n) = TapeSum(h, N, S)
<1>7. OneByOne(h, N)
  BY OneMore
<1>. DEFINE f == [k \in 1..n |-> h[q[k]]]
            T(j) == {q[k] : k \in 1..j}
<1>8. /\ q \in [1..n -> 1..N] /\ T(n) = S
      /\ \A j, k \in 1..n : q[j] = q[k] => j = k
  BY DEF Lists
<1>1. f \in [1..n -> Nat]
  BY <1>8
<1>2. \A k \in 1..n : f[k] = h[q[k]] /\ q[k] \in 1..N
  BY <1>8
<1>. HIDE DEF f
<1>3. PICK U \in [0..n -> Nat] : SumsUpTo(U, f, n) /\ SumOf(f) = U[n]
  BY <1>1, SumIs
<1>. DEFINE P == {j \in 0..n : U[j] = TapeSum(h, N, T(j))}
<1>4. 0 \in P
  <2>1. T(0) = {}
    OBVIOUS
  <2>. DEFINE z == [i \in 1..N |-> 0]
  <2>2. TapeSum(h, N, {}) = SumOf(z)
    BY DEF TapeSum
  <2>3. z \in [1..N -> Nat] /\ \A i \in 1..N : z[i] = 0
    OBVIOUS
  <2>. HIDE DEF z, T
  <2>4. PICK V \in [0..N -> Nat] : SumsUpTo(V, z, N) /\ SumOf(z) = V[N]
    BY <2>3, SumIs
  <2>. DEFINE Q == {i \in 0..N : V[i] = 0}
  <2>5. 0 \in Q
    BY <2>4 DEF SumsUpTo
  <2>6. ASSUME NEW i \in 0..(N - 1), i \in Q PROVE i + 1 \in Q
    <3>1. i + 1 \in 1..N /\ i + 1 \in 0..N /\ i + 1 - 1 = i
      OBVIOUS
    <3>2. V[i + 1] = V[i] + z[i + 1]
      BY <2>4, <3>1 DEF SumsUpTo
    <3>. QED
      BY <2>3, <2>6, <3>1, <3>2
  <2>7. N \in Q
    <3>. HIDE DEF Q
    <3>. QED
      BY <2>5, <2>6, PassedUp
  <2>8. U[0] = 0
    BY <1>3 DEF SumsUpTo
  <2>9. TapeSum(h, N, T(0)) = 0
    BY <2>1, <2>2, <2>4, <2>7
  <2>. QED
    BY <2>8, <2>9
<1>5. ASSUME NEW j \in 0..(n - 1), j \in P PROVE j + 1 \in P
  <2>1. j + 1 \in 1..n /\ j + 1 \in 0..n /\ j + 1 - 1 = j /\ \A k \in 1..j : k \in 1..n /\ k # j + 1
    OBVIOUS
  <2>2. T(j + 1) = T(j) \cup {q[j + 1]}
    <3>1. \A k \in 1..(j + 1) : k \in 1..j \/ k = j + 1
      OBVIOUS
    <3>2. \A k \in 1..j : k \in 1..(j + 1)
      OBVIOUS
    <3>3. j + 1 \in 1..(j + 1)
      OBVIOUS
    <3>. QED
      BY <3>1, <3>2, <3>3
  <2>3. q[j + 1] \in 1..N /\ q[j + 1] \notin T(j)
    BY <1>8, <2>1
  <2>8. U[j + 1] = U[j] + f[j + 1]
    BY <1>3, Zenon DEF SumsUpTo
  <2>4. U[j + 1] = U[j] + h[q[j + 1]]
    BY <1>2, <2>1, <2>8
  <2>5. U[j] = TapeSum(h, N, T(j))
    BY <1>5
  <2>. HIDE DEF T
  <2>6. TapeSum(h, N, T(j) \cup {q[j + 1]}) = TapeSum(h, N, T(j)) + h[q[j + 1]]
    BY <1>7, <2>3, Zenon DEF OneByOne
  <2>7. U[j + 1] = TapeSum(h, N, T(j + 1))
    BY <2>2, <2>4, <2>5, <2>6
  <2>. QED
    BY <2>1, <2>7
<1>6. n \in P
  <2>. HIDE DEF P
  <2>. QED
    BY <1>4, <1>5, PassedUp
<1>9. U[n] = TapeSum(h, N, S)
  BY <1>6, <1>8
<1>. QED
  BY <1>3, <1>9 DEF f, ListSum

LEMMA SameSum == ASSUME NEW f PROVE R!sum(f) = SumOf(f) /\ B!sum(f) = SumOf(f)
BY DEF R!sum, B!sum, SumOf

LEMMA SameSets ==
    ASSUME NEW S
    PROVE  /\ R!Cardinality(S) = Cardinality(S) /\ B!Cardinality(S) = Cardinality(S)
           /\ B!ascending(S) = R!ascending(S)
BY DEF R!Cardinality, B!Cardinality, Cardinality, R!ascending, B!ascending, R!ToSet, B!ToSet

LEMMA AscendingIs ==
    ASSUME NEW n \in Nat, NEW T \in SUBSET (1..n)
    PROVE  Enumerates(R!ascending(T), T)
<1>1. PICK x : Enumerates(x, T)
  BY OrderExists
<1>2. R!Cardinality(T) = Cardinality(T)
  BY SameSets
<1>3. \E s \in [1..R!Cardinality(T) -> T] :
         R!ToSet(s) = T /\ \A i, j \in DOMAIN s : i < j => s[i] < s[j]
  BY <1>1, <1>2 DEF Enumerates, C!increasing, R!ToSet
<1>. DEFINE a == R!ascending(T)
<1>4. a \in [1..R!Cardinality(T) -> T] /\ R!ToSet(a) = T /\ \A i, j \in DOMAIN a : i < j => a[i] < a[j]
  BY <1>3 DEF R!ascending
<1>. HIDE DEF a
<1>5. Enumerates(a, T)
  BY <1>2, <1>4 DEF Enumerates, C!increasing, R!ToSet
<1>. QED
  BY <1>5 DEF a

(* There is one ascending order only: the first place where two differ     *)
(* would hold in each a number the other lacks.                            *)
LEMMA OneOrder ==
    ASSUME NEW n \in Nat, NEW T \in SUBSET (1..n), NEW s, NEW t, Enumerates(s, T), Enumerates(t, T)
    PROVE  s = t
<1>. DEFINE m == Cardinality(T)
            P == {i \in 0..m : \A k \in 1..i : s[k] = t[k]}
<1>1. m \in Nat
  <2>1. IsFiniteSet(1..n)
    BY FS_Interval
  <2>. QED
    BY <2>1, FS_Subset, FS_CardinalityType
<1>2. /\ s \in [1..m -> T] /\ t \in [1..m -> T]
      /\ \A x \in T : \E i \in 1..m : s[i] = x
      /\ \A x \in T : \E i \in 1..m : t[i] = x
      /\ \A i, j \in 1..m : i < j => s[i] < s[j]
      /\ \A i, j \in 1..m : i < j => t[i] < t[j]
  BY DEF Enumerates, C!increasing
<1>. HIDE DEF m
<1>8. T \subseteq Nat
  OBVIOUS
<1>3. \A i \in 1..m : s[i] \in Nat /\ t[i] \in Nat /\ s[i] \in T /\ t[i] \in T
  BY <1>2, <1>8
<1>4. 0 \in P
  BY <1>1
<1>5. ASSUME NEW i \in 0..(m - 1), i \in P PROVE i + 1 \in P
  <2>1. i + 1 \in 1..m /\ i + 1 \in 0..m /\ i \in Nat
    BY <1>1
  <2>2. \A k \in 1..i : s[k] = t[k] /\ k \in 1..m /\ k < i + 1
    BY <1>1, <1>5
  <2>. HIDE DEF P
  <2>3. ASSUME s[i + 1] < t[i + 1] PROVE FALSE
    <3>1. PICK k \in 1..m : t[k] = s[i + 1]
      BY <1>2, <1>3, <2>1
    <3>2. CASE k < i + 1
      <4>1. k \in 1..i
        BY <2>1, <3>2
      <4>2. s[k] = s[i + 1] /\ s[k] < s[i + 1]
        BY <1>2, <2>1, <2>2, <3>1, <4>1
      <4>. QED
        BY <1>3, <2>1, <4>2
    <3>3. CASE k = i + 1
      BY <1>3, <2>1, <2>3, <3>1, <3>3
    <3>4. CASE k > i + 1
      <4>1. t[i + 1] < t[k]
        BY <1>2, <2>1, <3>4
      <4>. QED
        BY <1>3, <2>1, <2>3, <3>1, <4>1
    <3>. QED
      BY <2>1, <3>2, <3>3, <3>4
  <2>4. ASSUME t[i + 1] < s[i + 1] PROVE FALSE
    <3>1. PICK k \in 1..m : s[k] = t[i + 1]
      BY <1>2, <1>3, <2>1
    <3>2. CASE k < i + 1
      <4>1. k \in 1..i
        BY <2>1, <3>2
      <4>2. t[k] = t[i + 1] /\ t[k] < t[i + 1]
        BY <1>2, <2>1, <2>2, <3>1, <4>1
      <4>. QED
        BY <1>3, <2>1, <4>2
    <3>3. CASE k = i + 1
      BY <1>3, <2>1, <2>4, <3>1, <3>3
    <3>4. CASE k > i + 1
      <4>1. s[i + 1] < s[k]
        BY <1>2, <2>1, <3>4
      <4>. QED
        BY <1>3, <2>1, <2>4, <3>1, <4>1
    <3>. QED
      BY <2>1, <3>2, <3>3, <3>4
  <2>5. s[i + 1] = t[i + 1]
    <3>1. s[i + 1] \in Nat /\ t[i + 1] \in Nat
      BY <1>3, <2>1
    <3>. QED
      BY <2>3, <2>4, <3>1
  <2>6. \A k \in 1..(i + 1) : k \in 1..i \/ k = i + 1
    BY <2>1
  <2>7. \A k \in 1..(i + 1) : s[k] = t[k]
    BY <2>2, <2>5, <2>6
  <2>. QED
    BY <2>1, <2>7 DEF P
<1>6. m \in P
  <2>. HIDE DEF P
  <2>. QED
    BY <1>1, <1>4, <1>5, PassedUp
<1>7. \A k \in 1..m : s[k] = t[k]
  BY <1>6
<1>9. s = [k \in 1..m |-> s[k]] /\ t = [k \in 1..m |-> t[k]]
  BY <1>2
<1>. QED
  BY <1>7, <1>9, Zenon

(* A list of trades has as many as there are in it.                        *)
LEMMA ListLength ==
    ASSUME NEW n \in Nat, NEW T, NEW q, Lists(q, n, T)
    PROVE  Cardinality(T) = n
<1>1. q \in Bijection(1..n, T)
  BY DEF Lists, Bijection, Injection, Surjection, IsInjective
<1>2. ExistsBijection(1..n, T)
  BY <1>1 DEF ExistsBijection
<1>. QED
  BY <1>2, FS_CountingElements

LEMMA EnumerationLists ==
    ASSUME NEW n \in Nat, NEW T \in SUBSET (1..n), NEW s, Enumerates(s, T)
    PROVE  Cardinality(T) \in Nat /\ Lists(s, Cardinality(T), T)
<1>. DEFINE m == Cardinality(T)
<1>1. m \in Nat
  <2>1. IsFiniteSet(1..n)
    BY FS_Interval
  <2>. QED
    BY <2>1, FS_Subset, FS_CardinalityType
<1>2. /\ s \in [1..m -> T] /\ {s[k] : k \in DOMAIN s} = T
      /\ \A i, j \in 1..m : i < j => s[i] < s[j]
  BY DEF Enumerates, C!increasing
<1>. HIDE DEF m
<1>6. T \subseteq Nat
  OBVIOUS
<1>3. \A i \in 1..m : s[i] \in Nat
  BY <1>2, <1>6
<1>4. \A j, k \in 1..m : s[j] = s[k] => j = k
  <2>. SUFFICES ASSUME NEW j \in 1..m, NEW k \in 1..m, s[j] = s[k], j # k PROVE FALSE
    OBVIOUS
  <2>1. s[j] < s[k] \/ s[k] < s[j]
    BY <1>1, <1>2
  <2>. QED
    BY <1>3, <2>1
<1>5. Lists(s, m, T)
  BY <1>2, <1>4 DEF Lists
<1>. QED
  BY <1>1, <1>5 DEF m

-----------------------------------------------------------------------------
(* The runs of trades that countSweeps counts.                             *)

Counted(acc, continued, m) ==
    LET run == IF continued THEN acc.run + 1 ELSE 1
    IN  [run |-> run, sweeps |-> acc.sweeps + (IF continued /\ run = m THEN 1 ELSE 0)]
NoRun == [run |-> 0, sweeps |-> 0]
SweepsOf(c, m) ==
    LET upTo[i \in 0..Len(c)] == IF i = 0 THEN NoRun ELSE Counted(upTo[i - 1], c[i], m)
    IN  upTo[Len(c)].sweeps

LEMMA SameSweeps ==
    ASSUME NEW c
    PROVE  /\ R!sweepsIn(c) = SweepsOf(c, Narrow.minSweepTrades)
           /\ B!sweepsIn(c) = SweepsOf(c, Wide.minSweepTrades)
BY DEF R!sweepsIn, B!sweepsIn, R!counted, B!counted, SweepsOf, Counted, NoRun

RunsUpTo(U, c, m, n) == U[0] = NoRun /\ \A i \in 0..(n - 1) : U[i + 1] = Counted(U[i], c[i + 1], m)

LEMMA SweepsIs ==
    ASSUME NEW n \in Nat, NEW c \in [1..n -> BOOLEAN], NEW m
    PROVE  \E U : RunsUpTo(U, c, m, n) /\ SweepsOf(c, m) = U[n].sweeps
<1>. DEFINE Upto(g, k) == g = [i \in 0..k |-> IF i = 0 THEN NoRun ELSE Counted(g[i - 1], c[i], m)]
            G == {k \in 0..n : \E g : Upto(g, k)}
            upTo == CHOOSE g : Upto(g, n)
<1>1. 0 \in G
  <2>1. Upto([i \in 0..0 |-> NoRun], 0)
    OBVIOUS
  <2>. HIDE DEF Upto
  <2>. QED
    BY <2>1
<1>2. \A k \in 0..(n - 1) : k \in G => k + 1 \in G
  <2>0. \A k \in 0..(n - 1) : k + 1 \in 0..n
    OBVIOUS
  <2>. HIDE DEF Upto
  <2>. SUFFICES ASSUME NEW k \in 0..(n - 1), k \in G PROVE \E g : Upto(g, k + 1)
    BY <2>0
  <2>1. PICK g : Upto(g, k)
    OBVIOUS
  <2>. USE DEF Upto
  <2>. DEFINE h == [i \in 0..(k + 1) |-> IF i = k + 1 THEN Counted(g[k], c[k + 1], m) ELSE g[i]]
  <2>2. \A i \in 0..k : h[i] = g[i]
    OBVIOUS
  <2>3. ASSUME NEW i \in 0..(k + 1)
        PROVE  h[i] = IF i = 0 THEN NoRun ELSE Counted(h[i - 1], c[i], m)
    <3>1. CASE i = k + 1
      <4>1. h[i] = Counted(g[k], c[k + 1], m) /\ i # 0 /\ i - 1 = k /\ h[k] = g[k]
        BY <3>1, <2>2
      <4>. QED
        BY <3>1, <4>1
    <3>2. CASE i # k + 1
      <4>1. i \in 0..k /\ (i # 0 => i - 1 \in 0..k)
        BY <3>2
      <4>2. g[i] = IF i = 0 THEN NoRun ELSE Counted(g[i - 1], c[i], m)
        BY <2>1, <4>1
      <4>. HIDE DEF h
      <4>. QED
        BY <2>2, <4>1, <4>2
    <3>. QED
      BY <3>1, <3>2
  <2>. DEFINE e == [i \in 0..(k + 1) |-> IF i = 0 THEN NoRun ELSE Counted(h[i - 1], c[i], m)]
  <2>4. h = [i \in 0..(k + 1) |-> h[i]]
    OBVIOUS
  <2>. HIDE DEF h
  <2>5. e = [i \in 0..(k + 1) |-> h[i]]
    BY <2>3
  <2>6. Upto(h, k + 1)
    BY <2>4, <2>5
  <2>. HIDE DEF Upto
  <2>. QED
    BY <2>6
<1>3. n \in G
  <2>. HIDE DEF G
  <2>. QED
    BY <1>1, <1>2, PassedUp
<1>4. Upto(upTo, n)
  <2>. HIDE DEF Upto
  <2>. QED
    BY <1>3
<1>5. Len(c) = n
  OBVIOUS
<1>6. SweepsOf(c, m) = upTo[n].sweeps
  BY <1>5 DEF SweepsOf
<1>. HIDE DEF upTo
<1>7. \A i \in 0..n : upTo[i] = IF i = 0 THEN NoRun ELSE Counted(upTo[i - 1], c[i], m)
  BY <1>4
<1>8. RunsUpTo(upTo, c, m, n)
  <2>1. \A i \in 0..(n - 1) : i + 1 \in 0..n /\ i + 1 # 0 /\ i + 1 - 1 = i
    OBVIOUS
  <2>. QED
    BY <1>7, <2>1 DEF RunsUpTo
<1>. QED
  BY <1>6, <1>8

(* The bursts complete by position i.                                      *)
FullBy(c, m, i) ==
    {b \in 1..i : ~c[b] /\ b + m - 1 <= i /\ \A k \in 1..(m - 1) : c[b + k]}

(* The run at position i and where it began.                               *)
RunAt(r, c, i) ==
    i # 0 => /\ r \in 1..i /\ ~c[(i - r) + 1]
             /\ \A k \in 1..i : k > (i - r) + 1 => c[k]

LEMMA FullNext ==
    ASSUME NEW n \in Nat, NEW c \in [1..n -> BOOLEAN], NEW m \in Nat \ {0, 1},
           NEW i \in 0..(n - 1), NEW r, i = 0 => ~c[1], RunAt(r, c, i)
    PROVE  /\ c[i + 1] /\ r + 1 = m =>
                 /\ (i - r) + 1 \notin FullBy(c, m, i)
                 /\ FullBy(c, m, i + 1) = FullBy(c, m, i) \cup {(i - r) + 1}
           /\ ~(c[i + 1] /\ r + 1 = m) => FullBy(c, m, i + 1) = FullBy(c, m, i)
<1>. DEFINE Whole(b) == ~c[b] /\ \A k \in 1..(m - 1) : c[b + k]
<1>0. /\ i \in Nat /\ m \in Nat /\ m >= 2 /\ i + 1 \in 1..n
      /\ \A b \in 1..i : b \in Nat /\ b \in 1..(i + 1)
      /\ \A b \in 1..(i + 1) : b \in Nat /\ b <= i + 1 /\ b >= 1
  OBVIOUS
<1>. HIDE DEF Whole
<1>1. FullBy(c, m, i) = {b \in 1..i : Whole(b) /\ b + m - 1 <= i}
  BY DEF FullBy, Whole
<1>2. FullBy(c, m, i + 1) = {b \in 1..(i + 1) : Whole(b) /\ b + m - 1 <= i + 1}
  BY DEF FullBy, Whole
<1>3. FullBy(c, m, i) \subseteq FullBy(c, m, i + 1)
  BY <1>0, <1>1, <1>2
<1>4. ASSUME NEW b \in FullBy(c, m, i + 1), b \notin FullBy(c, m, i)
      PROVE  c[i + 1] /\ r + 1 = m /\ b = (i - r) + 1
  <2>1. b \in 1..(i + 1) /\ b \in Nat /\ b + m - 1 <= i + 1 /\ Whole(b)
    BY <1>0, <1>2, <1>4
  <2>2. b \in 1..i
    BY <1>0, <2>1
  <2>3. b + m - 1 = i + 1
    BY <1>0, <1>1, <1>4, <2>1, <2>2
  <2>4. ~c[b] /\ \A k \in 1..(m - 1) : c[b + k]
    BY <2>1 DEF Whole
  <2>5. m - 1 \in 1..(m - 1) /\ b + (m - 1) = i + 1
    BY <1>0, <2>1, <2>3
  <2>6. c[i + 1]
    BY <2>4, <2>5
  <2>7. /\ r \in 1..i /\ ~c[(i - r) + 1] /\ (i - r) + 1 \in 1..i
        /\ \A k \in 1..i : k > (i - r) + 1 => c[k]
    BY <1>0, <2>2 DEF RunAt
  <2>8. ~(b > (i - r) + 1)
    BY <2>2, <2>4, <2>7
  <2>9. ~(b < (i - r) + 1)
    <3>. SUFFICES ASSUME b < (i - r) + 1 PROVE FALSE
      OBVIOUS
    <3>1. ((i - r) + 1) - b \in 1..(m - 1) /\ b + (((i - r) + 1) - b) = (i - r) + 1
      BY <1>0, <2>1, <2>3, <2>7
    <3>. QED
      BY <2>4, <2>7, <3>1
  <2>10. b = (i - r) + 1
    BY <1>0, <2>1, <2>7, <2>8, <2>9
  <2>11. r + 1 = m
    BY <1>0, <2>1, <2>3, <2>7, <2>10
  <2>. QED
    BY <2>6, <2>10, <2>11
<1>5. ASSUME c[i + 1], r + 1 = m
      PROVE  /\ (i - r) + 1 \notin FullBy(c, m, i)
             /\ (i - r) + 1 \in FullBy(c, m, i + 1)
  <2>. DEFINE b == (i - r) + 1
  <2>1. i # 0
    BY <1>5
  <2>2. /\ r \in 1..i /\ ~c[b] /\ \A k \in 1..i : k > b => c[k]
    BY <2>1 DEF RunAt
  <2>3. b \in 1..i /\ b \in 1..(i + 1) /\ b + m - 1 = i + 1 /\ b \in Nat
    BY <1>0, <1>5, <2>2
  <2>. HIDE DEF b
  <2>4. ASSUME NEW k \in 1..(m - 1) PROVE c[b + k]
    <3>1. CASE b + k = i + 1
      BY <1>5, <3>1
    <3>2. CASE b + k # i + 1
      <4>1. b + k \in 1..i /\ b + k > b
        BY <1>0, <2>3, <3>2
      <4>. QED
        BY <2>2, <4>1
    <3>. QED
      BY <3>1, <3>2
  <2>5. Whole(b)
    BY <2>2, <2>4 DEF Whole
  <2>6. b + m - 1 <= i + 1 /\ ~(b + m - 1 <= i)
    BY <1>0, <2>3
  <2>. QED
    BY <1>1, <1>2, <2>3, <2>5, <2>6 DEF b
<1>. QED
  BY <1>3, <1>4, <1>5

LEMMA SweepsAre ==
    ASSUME NEW n \in Nat, NEW c \in [1..n -> BOOLEAN], n # 0 => ~c[1], NEW m \in Nat \ {0, 1}
    PROVE  SweepsOf(c, m) = Cardinality(FullBy(c, m, n))
<1>1. PICK U : RunsUpTo(U, c, m, n) /\ SweepsOf(c, m) = U[n].sweeps
  BY SweepsIs
<1>. DEFINE P == {i \in 0..n : RunAt(U[i].run, c, i) /\ U[i].sweeps = Cardinality(FullBy(c, m, i))}
<1>2. 0 \in P
  <2>1. FullBy(c, m, 0) = {}
    BY DEF FullBy
  <2>2. U[0].sweeps = 0
    BY <1>1 DEF RunsUpTo, NoRun
  <2>3. U[0].sweeps = Cardinality(FullBy(c, m, 0))
    BY <2>1, <2>2, FS_EmptySet
  <2>4. RunAt(U[0].run, c, 0)
    BY DEF RunAt
  <2>. QED
    BY <2>3, <2>4
<1>3. ASSUME NEW i \in 0..(n - 1), i \in P PROVE i + 1 \in P
  <2>. DEFINE r == U[i].run
              F == FullBy(c, m, i)
  <2>1. RunAt(r, c, i) /\ U[i].sweeps = Cardinality(F)
    BY <1>3
  <2>2. U[i + 1] = Counted(U[i], c[i + 1], m)
    BY <1>1, Zenon DEF RunsUpTo
  <2>3. i + 1 \in 0..n /\ i + 1 \in 1..n /\ i \in Nat /\ c[i + 1] \in BOOLEAN
    OBVIOUS
  <2>4. IsFiniteSet(F) /\ Cardinality(F) \in Nat
    <3>1. F \subseteq 1..i
      BY DEF FullBy
    <3>2. IsFiniteSet(1..i)
      BY FS_Interval
    <3>3. IsFiniteSet(F)
      BY <3>1, <3>2, FS_Subset
    <3>. QED
      BY <3>3, FS_CardinalityType
  <2>. HIDE DEF r, F, P
  <2>5. U[i + 1].run = (IF c[i + 1] THEN r + 1 ELSE 1)
    BY <2>2 DEF Counted, r
  <2>6. U[i + 1].sweeps = Cardinality(F) + (IF c[i + 1] /\ r + 1 = m THEN 1 ELSE 0)
    <3>1. CASE c[i + 1]
      BY <2>1, <2>2, <3>1 DEF Counted, r
    <3>2. CASE ~c[i + 1]
      BY <2>1, <2>2, <3>2 DEF Counted
    <3>. QED
      BY <3>1, <3>2
  <2>7. i = 0 => ~c[1]
    BY <2>3
  <2>8. /\ c[i + 1] /\ r + 1 = m =>
              /\ (i - r) + 1 \notin F
              /\ FullBy(c, m, i + 1) = F \cup {(i - r) + 1}
        /\ ~(c[i + 1] /\ r + 1 = m) => FullBy(c, m, i + 1) = F
    BY <2>1, <2>7, FullNext DEF F
  <2>9. U[i + 1].sweeps = Cardinality(FullBy(c, m, i + 1))
    <3>1. CASE c[i + 1] /\ r + 1 = m
      <4>1. Cardinality(F \cup {(i - r) + 1}) = Cardinality(F) + 1
        BY <2>4, <2>8, <3>1, FS_AddElement
      <4>. QED
        BY <2>6, <2>8, <3>1, <4>1
    <3>2. CASE ~(c[i + 1] /\ r + 1 = m)
      <4>1. U[i + 1].sweeps = Cardinality(F) + 0
        BY <2>6, <3>2
      <4>. QED
        BY <2>4, <2>8, <3>2, <4>1
    <3>. QED
      BY <3>1, <3>2
  <2>10. RunAt(U[i + 1].run, c, i + 1)
    <3>1. CASE c[i + 1]
      <4>1. i # 0
        BY <2>7, <3>1
      <4>2. r \in 1..i /\ ~c[(i - r) + 1] /\ \A k \in 1..i : k > (i - r) + 1 => c[k]
        BY <2>1, <4>1 DEF RunAt
      <4>3. r + 1 \in 1..(i + 1) /\ ((i + 1) - (r + 1)) + 1 = (i - r) + 1
        BY <2>3, <4>2
      <4>4. \A k \in 1..(i + 1) : k > (i - r) + 1 => c[k]
        <5>1. \A k \in 1..(i + 1) : k \in 1..i \/ k = i + 1
          BY <2>3
        <5>. QED
          BY <3>1, <4>2, <5>1
      <4>. QED
        BY <2>5, <3>1, <4>2, <4>3, <4>4 DEF RunAt
    <3>2. CASE ~c[i + 1]
      <4>1. U[i + 1].run = 1 /\ 1 \in 1..(i + 1) /\ ((i + 1) - 1) + 1 = i + 1
        BY <2>3, <2>5, <3>2
      <4>2. \A k \in 1..(i + 1) : ~(k > i + 1)
        BY <2>3
      <4>. QED
        BY <3>2, <4>1, <4>2 DEF RunAt
    <3>. QED
      BY <3>1, <3>2
  <2>. QED
    BY <2>3, <2>9, <2>10 DEF P
<1>4. n \in P
  <2>. HIDE DEF P
  <2>. QED
    BY <1>2, <1>3, PassedUp
<1>. QED
  BY <1>1, <1>4

-----------------------------------------------------------------------------
(* What a row says of the trades of a bucket, on tape tp.                  *)

Continues(tp, sw, s, i) ==
    /\ i > 1
    /\ tp[s[i]].side # "UNKNOWN"
    /\ tp[s[i - 1]].side = tp[s[i]].side
    /\ tp[s[i]].at - tp[s[i - 1]].at <= sw

VolumeOf(tp, ids, sides) ==
    SumOf([k \in DOMAIN ids |-> IF tp[ids[k]].side \in sides THEN tp[ids[k]].sz ELSE 0])
SizeOf(tp, ids)     == SumOf([k \in DOMAIN ids |-> tp[ids[k]].sz])
TurnoverOf(tp, ids) == SumOf([k \in DOMAIN ids |-> tp[ids[k]].px * tp[ids[k]].sz])

BurstsOf(tp, sw, m, s) ==
    {i \in DOMAIN s :
        /\ ~Continues(tp, sw, s, i) /\ i + m - 1 <= Len(s)
        /\ \A k \in 1..(m - 1) : Continues(tp, sw, s, i + k)}

AtOnceAtMost(tp, T) == \A i, j \in T : tp[i].at = tp[j].at => i = j

WholeRow(r, tp, T, sw, m) ==
    /\ r.count = Cardinality(T)
    /\ r.volume = SizeOf(tp, R!ascending(T))
    /\ r.notional = TurnoverOf(tp, R!ascending(T))
    /\ r.volume >= r.buyVol + r.sellVol
    /\ AtOnceAtMost(tp, T) => r.sweeps = Cardinality(BurstsOf(tp, sw, m, R!ascending(T)))

Tape(tp, n) ==
    /\ \A i \in 1..n : tp[i].at \in Nat /\ tp[i].px \in Nat /\ tp[i].sz \in Nat
    /\ \A i, j \in 1..n : i <= j => tp[i].at <= tp[j].at

Sides == {"BUY", "SELL", "UNKNOWN"}

(* Two lists of the same trades have the same sum.                         *)
LEMMA SameTrades ==
    ASSUME NEW n \in Nat, NEW h \in [1..n -> Nat], NEW T \in SUBSET (1..n),
           NEW a \in Nat, NEW q, Lists(q, a, T), NEW b \in Nat, NEW s, Lists(s, b, T)
    PROVE  ListSum(h, q, a) = ListSum(h, s, b)
<1>1. ListSum(h, q, a) = TapeSum(h, n, T)
  BY ListedOnce
<1>2. ListSum(h, s, b) = TapeSum(h, n, T)
  BY ListedOnce
<1>. QED
  BY <1>1, <1>2

(* Trades that are no two of one instant have one order in time, and it is *)
(* the order of the tape.                                                  *)
LEMMA TimeOrder ==
    ASSUME NEW n \in Nat, NEW tp, Tape(tp, n), NEW T \in SUBSET (1..n), AtOnceAtMost(tp, T),
           NEW s, Lists(s, Cardinality(T), T), Cardinality(T) \in Nat,
           \A i, j \in 1..Cardinality(T) : i < j => tp[s[i]].at <= tp[s[j]].at
    PROVE  s = R!ascending(T)
<1>. DEFINE m == Cardinality(T)
<1>1. /\ s \in [1..m -> T] /\ {s[k] : k \in 1..m} = T
      /\ \A j, k \in 1..m : s[j] = s[k] => j = k
  BY DEF Lists
<1>2. \A i, j \in 1..m : i < j => tp[s[i]].at <= tp[s[j]].at
  OBVIOUS
<1>. HIDE DEF m
<1>8. T \subseteq Nat
  OBVIOUS
<1>3. \A i \in 1..m : s[i] \in T /\ s[i] \in 1..n /\ s[i] \in Nat
  BY <1>1, <1>8
<1>4. ASSUME NEW i \in 1..m, NEW j \in 1..m, i < j PROVE s[i] < s[j]
  <2>. SUFFICES ASSUME ~(s[i] < s[j]) PROVE FALSE
    OBVIOUS
  <2>1. s[i] # s[j] /\ s[j] <= s[i]
    BY <1>1, <1>3, <1>4
  <2>2. tp[s[j]].at <= tp[s[i]].at /\ tp[s[i]].at <= tp[s[j]].at
    BY <1>2, <1>3, <1>4, <2>1 DEF Tape
  <2>3. tp[s[i]].at \in Nat /\ tp[s[j]].at \in Nat
    BY <1>3 DEF Tape
  <2>4. tp[s[i]].at = tp[s[j]].at
    BY <2>2, <2>3
  <2>. QED
    BY <1>3, <2>1, <2>4 DEF AtOnceAtMost
<1>5. DOMAIN s = 1..m
  BY <1>1
<1>6. C!increasing(s)
  BY <1>4, <1>5 DEF C!increasing
<1>7. Enumerates(s, T)
  BY <1>1, <1>5, <1>6 DEF Enumerates, m
<1>. QED
  BY <1>7, AscendingIs, OneOrder

LEMMA SweepsAreBursts ==
    ASSUME NEW n \in Nat, NEW s, DOMAIN s = 1..n, Len(s) = n, NEW tp, NEW sw, NEW m \in Nat \ {0, 1}
    PROVE  SweepsOf([i \in DOMAIN s |-> Continues(tp, sw, s, i)], m)
               = Cardinality(BurstsOf(tp, sw, m, s))
<1>. DEFINE c == [i \in 1..n |-> Continues(tp, sw, s, i)]
<1>1. \A i \in 1..n : Continues(tp, sw, s, i) \in BOOLEAN
  BY DEF Continues
<1>2. c \in [1..n -> BOOLEAN]
  BY <1>1
<1>3. n # 0 => ~c[1]
  <2>1. ~Continues(tp, sw, s, 1)
    BY DEF Continues
  <2>2. n # 0 => 1 \in 1..n
    OBVIOUS
  <2>. QED
    BY <2>1, <2>2
<1>4. \A i \in 1..n : c[i] = Continues(tp, sw, s, i)
  OBVIOUS
<1>. HIDE DEF c
<1>5. SweepsOf(c, m) = Cardinality(FullBy(c, m, n))
  BY <1>2, <1>3, SweepsAre
<1>6. FullBy(c, m, n) = BurstsOf(tp, sw, m, s)
  <2>1. ASSUME NEW i \in 1..n, i + m - 1 <= n
        PROVE  /\ ~c[i] <=> ~Continues(tp, sw, s, i)
               /\ (\A k \in 1..(m - 1) : c[i + k]) <=> (\A k \in 1..(m - 1) : Continues(tp, sw, s, i + k))
    <3>1. \A k \in 1..(m - 1) : i + k \in 1..n
      BY <2>1
    <3>. QED
      BY <1>4, <3>1, Zenon
  <2>. QED
    BY <2>1 DEF FullBy, BurstsOf
<1>. QED
  BY <1>5, <1>6 DEF c

LEMMA AggregateIsWhole ==
    ASSUME NEW n \in Nat, NEW tp, Tape(tp, n),
           NEW T \in SUBSET (1..n), \A i \in T : tp[i].side \in Sides,
           NEW l \in Nat, NEW q, Lists(q, l, T), NEW s, Lists(s, Cardinality(T), T),
           \A i, j \in 1..Cardinality(T) : i < j => tp[s[i]].at <= tp[s[j]].at,
           NEW sw, NEW m \in Nat \ {0, 1},
           NEW r, r.count = l, r.volume = VolumeOf(tp, q, Sides),
           r.buyVol = VolumeOf(tp, q, {"BUY"}), r.sellVol = VolumeOf(tp, q, {"SELL"}),
           r.notional = TurnoverOf(tp, q),
           r.sweeps = SweepsOf([i \in DOMAIN s |-> Continues(tp, sw, s, i)], m)
    PROVE  WholeRow(r, tp, T, sw, m)
<1>. DEFINE c == Cardinality(T)
            a == R!ascending(T)
<1>1. Enumerates(a, T)
  BY AscendingIs
<1>2. c \in Nat /\ Lists(a, c, T)
  BY <1>1, EnumerationLists
<1>3. c = l
  BY ListLength
<1>4. /\ DOMAIN q = 1..l /\ \A k \in 1..l : q[k] \in T /\ q[k] \in 1..n
      /\ DOMAIN a = 1..c /\ \A k \in 1..c : a[k] \in T /\ a[k] \in 1..n
  BY <1>2 DEF Lists
<1>. HIDE DEF a, c
<1>5. VolumeOf(tp, q, Sides) = SizeOf(tp, a)
  <2>. DEFINE h == [i \in 1..n |-> tp[i].sz]
              f == [k \in DOMAIN q |-> IF tp[q[k]].side \in Sides THEN tp[q[k]].sz ELSE 0]
              g == [k \in DOMAIN a |-> tp[a[k]].sz]
  <2>1. h \in [1..n -> Nat]
    BY DEF Tape
  <2>2. f = [k \in 1..l |-> h[q[k]]]
    BY <1>4
  <2>3. g = [k \in 1..c |-> h[a[k]]]
    BY <1>4
  <2>. HIDE DEF f, g, h
  <2>4. ListSum(h, q, l) = ListSum(h, a, c)
    BY <1>2, <2>1, SameTrades
  <2>5. SumOf(f) = SumOf(g)
    BY <2>2, <2>3, <2>4 DEF ListSum
  <2>. QED
    BY <2>5 DEF f, g, VolumeOf, SizeOf
<1>6. TurnoverOf(tp, q) = TurnoverOf(tp, a)
  <2>. DEFINE h == [i \in 1..n |-> tp[i].px * tp[i].sz]
              f == [k \in DOMAIN q |-> tp[q[k]].px * tp[q[k]].sz]
              g == [k \in DOMAIN a |-> tp[a[k]].px * tp[a[k]].sz]
  <2>1. h \in [1..n -> Nat]
    <3>1. \A x, y \in Nat : x * y \in Nat
      OBVIOUS
    <3>. QED
      BY <3>1 DEF Tape
  <2>2. f = [k \in 1..l |-> h[q[k]]]
    BY <1>4
  <2>3. g = [k \in 1..c |-> h[a[k]]]
    BY <1>4
  <2>. HIDE DEF f, g, h
  <2>4. ListSum(h, q, l) = ListSum(h, a, c)
    BY <1>2, <2>1, SameTrades
  <2>5. SumOf(f) = SumOf(g)
    BY <2>2, <2>3, <2>4 DEF ListSum
  <2>. QED
    BY <2>5 DEF f, g, TurnoverOf
<1>7. VolumeOf(tp, q, Sides) >= VolumeOf(tp, q, {"BUY"}) + VolumeOf(tp, q, {"SELL"})
  <2>. DEFINE f(D) == [k \in DOMAIN q |-> IF tp[q[k]].side \in D THEN tp[q[k]].sz ELSE 0]
  <2>1. \A k \in 1..l : tp[q[k]].sz \in Nat
    BY <1>4 DEF Tape
  <2>2. \A D : f(D) \in [1..l -> Nat]
    BY <1>4, <2>1
  <2>3. \A k \in 1..l : f(Sides)[k] >= f({"BUY"})[k] + f({"SELL"})[k]
    BY <1>4, <2>1 DEF Sides
  <2>4. \A D : VolumeOf(tp, q, D) = SumOf(f(D))
    BY DEF VolumeOf
  <2>. HIDE DEF f
  <2>5. SumOf(f(Sides)) >= SumOf(f({"BUY"})) + SumOf(f({"SELL"}))
    BY <2>2, <2>3, SumOfTwo
  <2>. QED
    BY <2>4, <2>5
<1>8. AtOnceAtMost(tp, T) => r.sweeps = Cardinality(BurstsOf(tp, sw, m, a))
  <2>. SUFFICES ASSUME AtOnceAtMost(tp, T) PROVE r.sweeps = Cardinality(BurstsOf(tp, sw, m, a))
    OBVIOUS
  <2>1. s = a
    BY <1>2, TimeOrder DEF a, c
  <2>2. a \in [1..c -> T]
    BY <1>2 DEF Lists
  <2>3. DOMAIN a = 1..c /\ Len(a) = c
    BY <1>2, <2>2
  <2>4. SweepsOf([i \in DOMAIN a |-> Continues(tp, sw, a, i)], m) = Cardinality(BurstsOf(tp, sw, m, a))
    BY <1>2, <2>3, SweepsAreBursts
  <2>. QED
    BY <2>1, <2>4
<1>. QED
  BY <1>3, <1>5, <1>6, <1>7, <1>8 DEF WholeRow, a, c

-----------------------------------------------------------------------------
(* The market_trades handler: rows are whole.                              *)

Trunc(w, t)  == t - (t % w)
Bucket(w, s) == {i \in 1..Len(tape) : Trunc(w, tape[i].at) = s /\ tape[i].side # "OTHER"}

(* What was sent and not handled is on its way, each trade in a frame with *)
(* nothing newer before it.                                                *)
FirstIn(n, i) == i \in twire[n] /\ \A m \in 1..(n - 1) : \A j \in twire[m] : j < i
OnTheWay ==
    /\ handled \in 0..sent
    /\ up => \A i \in 1..sent : i > handled => \E n \in 1..Len(twire) : FirstIn(n, i)

(* Nothing outstanding is older than the lag.                              *)
Prompt(lag) == up => \A i \in 1..Len(tape) : i > handled => tnow <= tape[i].at + lag

(* Open buckets hold trades of their own window, each once, and all that   *)
(* were handled and belong to a bucket still to be written.                *)
OfWindow(w, s) ==
    /\ open[s] \in Seq(Nat)
    /\ \A k \in 1..Len(open[s]) : open[s][k] \in Bucket(w, s)
    /\ \A j, k \in 1..Len(open[s]) : open[s][j] = open[s][k] => j = k

Filed(s, i) == s \in DOMAIN open /\ \E k \in 1..Len(open[s]) : open[s][k] = i
AllFiled(w) ==
    up /\ next # -1 =>
        \A i \in 1..Len(tape) :
            tape[i].side # "OTHER" /\ Trunc(w, tape[i].at) >= next =>
                i > handled \/ Filed(Trunc(w, tape[i].at), i)

Written(w, sw, m) ==
    \A s \in DOMAIN rows :
        s \in Nat /\ s + w <= tnow /\ WholeRow(rows[s], tape, Bucket(w, s), sw, m)

FiledInv(w, lag) ==
    OnTheWay /\ Prompt(lag) /\ (\A s \in DOMAIN open : OfWindow(w, s)) /\ AllFiled(w)

(* The actions of the two settings, as far as rows go.                     *)
StillFiled == next' = next /\ open' = open /\ rows' = rows

TradeFiles == TradeOf /\ up' = up /\ handled' = handled /\ StillFiled
SendFiles  == SendOf /\ up' = up /\ handled' = handled /\ StillFiled
DropFiles  == DropOf /\ up' = FALSE /\ handled' = handled /\ StillFiled
ConnectFiles ==
    ConnectOf /\ handled' = Len(tape) /\ next' = -1 /\ DOMAIN open' = {} /\ rows' = rows
ClockFiles(lag) ==
    /\ ClockOf /\ up' = up /\ handled' = handled /\ StillFiled
    /\ up => \A i \in 1..Len(tape) : i > handled => tnow < tape[i].at + lag

LEMMA InsideBucket ==
    ASSUME NEW w \in Nat \ {0}, NEW t \in Nat
    PROVE  Trunc(w, t) \in Int /\ Trunc(w, t) <= t /\ t < Trunc(w, t) + w
<1>1. t % w \in 0..(w - 1)
  OBVIOUS
<1>. QED
  BY <1>1 DEF Trunc

LEMMA TapeIs ==
    ASSUME VenueInv
    PROVE  /\ Tape(tape, Len(tape)) /\ Len(tape) \in Nat
           /\ \A i \in 1..Len(tape) : tape[i].side \in Sides \cup {"OTHER"}
<1>1. /\ tape \in Seq(TapeTrades) /\ Len(tape) \in Nat
      /\ \A i \in 1..Len(tape) : tape[i].at \in Nat /\ tape[i] \in TapeTrades
      /\ \A i, j \in 1..Len(tape) : i <= j => tape[i].at <= tape[j].at
  BY DEF VenueInv
<1>2. \A k \in Narrow.Kinds \cup Wide.Kinds :
         k.side \in Sides \cup {"OTHER"} /\ k.px \in Nat /\ k.sz \in Nat
  BY HandlersAssumption DEF R!TradesAssumption, B!TradesAssumption, Sides
<1>3. \A e \in TapeTrades : e.side \in Sides \cup {"OTHER"} /\ e.px \in Nat /\ e.sz \in Nat
  BY <1>2 DEF TapeTrades, Made
<1>. QED
  BY <1>1, <1>3 DEF Tape

(* What a row says depends on the trades of its bucket alone.              *)
LEMMA SameRow ==
    ASSUME NEW n \in Nat, NEW T \in SUBSET (1..n), NEW tp, NEW tq, \A i \in T : tq[i] = tp[i],
           NEW r, NEW sw, NEW m \in Nat, WholeRow(r, tp, T, sw, m)
    PROVE  WholeRow(r, tq, T, sw, m)
<1>. DEFINE a == R!ascending(T)
            c == Cardinality(T)
<1>1. Enumerates(a, T)
  BY AscendingIs
<1>2. c \in Nat /\ a \in [1..c -> T]
  BY <1>1, EnumerationLists DEF Lists
<1>. HIDE DEF a, c
<1>3. DOMAIN a = 1..c /\ \A k \in DOMAIN a : tq[a[k]] = tp[a[k]]
  BY <1>2
<1>4. SizeOf(tq, a) = SizeOf(tp, a) /\ TurnoverOf(tq, a) = TurnoverOf(tp, a)
  BY <1>3 DEF SizeOf, TurnoverOf
<1>5. \A i \in DOMAIN a : Continues(tq, sw, a, i) <=> Continues(tp, sw, a, i)
  <2>1. \A i \in DOMAIN a : i > 1 => i - 1 \in DOMAIN a
    BY <1>2, <1>3
  <2>. QED
    BY <1>3, <2>1 DEF Continues
<1>6. BurstsOf(tq, sw, m, a) = BurstsOf(tp, sw, m, a)
  <2>1. Len(a) = c
    BY <1>2
  <2>2. ASSUME NEW i \in 1..c, i + m - 1 <= c
        PROVE  /\ ~Continues(tq, sw, a, i) <=> ~Continues(tp, sw, a, i)
               /\ (\A k \in 1..(m - 1) : Continues(tq, sw, a, i + k))
                     <=> (\A k \in 1..(m - 1) : Continues(tp, sw, a, i + k))
    <3>1. \A k \in 1..(m - 1) : i + k \in 1..c
      BY <1>2, <2>2
    <3>. QED
      BY <1>3, <1>5, <3>1, Zenon
  <2>. QED
    BY <1>3, <2>1, <2>2 DEF BurstsOf
<1>7. AtOnceAtMost(tq, T) <=> AtOnceAtMost(tp, T)
  BY DEF AtOnceAtMost
<1>. QED
  BY <1>4, <1>6, <1>7 DEF WholeRow, a

(* Each action keeps what is filed and what is written.                     *)
LEMMA WrittenKept ==
    ASSUME NEW w \in Nat, NEW sw, NEW m, VenueInv, Written(w, sw, m),
           rows' = rows, tape' = tape, tnow' \in {tnow, tnow + 1}
    PROVE  Written(w, sw, m)'
<1>1. tnow \in Nat
  BY DEF VenueInv
<1>2. \A s : Bucket(w, s)' = Bucket(w, s)
  BY DEF Bucket
<1>3. \A s \in DOMAIN rows : s \in Nat /\ s + w <= tnow'
  BY <1>1 DEF Written
<1>. QED
  BY <1>2, <1>3 DEF Written

(* A new trade lies in the bucket of the present, which no row is of yet.   *)
LEMMA TradeFiled ==
    ASSUME NEW w \in Nat \ {0}, NEW lag \in Nat, NEW sw, NEW m \in Nat,
           VenueInv, FiledInv(w, lag), Written(w, sw, m), TradeFiles
    PROVE  FiledInv(w, lag)' /\ Written(w, sw, m)'
<1>. DEFINE N == Len(tape)
<1>1. /\ tape \in Seq(TapeTrades) /\ N \in Nat /\ tnow \in Nat /\ sent \in 0..N
      /\ \A i \in 1..N : tape[i].at \in Nat
  BY DEF VenueInv
<1>2. PICK k \in Narrow.Kinds \cup Wide.Kinds : tape' = Append(tape, Made(tnow, k))
  BY DEF TradeFiles, TradeOf
<1>. DEFINE e == Made(tnow, k)
<1>3. /\ tnow' = tnow /\ twire' = twire /\ sent' = sent /\ up' = up /\ handled' = handled
      /\ next' = next /\ open' = open /\ rows' = rows
  BY DEF TradeFiles, TradeOf, StillFiled
<1>4. e \in TapeTrades /\ e.at = tnow
  <2>1. \E t \in Nat, q \in Narrow.Kinds \cup Wide.Kinds : e = Made(t, q)
    BY <1>1
  <2>. HIDE DEF e
  <2>2. e \in TapeTrades
    BY <2>1 DEF TapeTrades
  <2>. QED
    BY <2>2 DEF e, Made
<1>. HIDE DEF e, N
<1>5. /\ Len(tape') = N + 1 /\ \A i \in 1..N : tape'[i] = tape[i]
      /\ tape'[N + 1] = e
  BY <1>1, <1>2, <1>4, AppendIs DEF e, N
<1>6. \A i \in 1..(N + 1) : i \in 1..N \/ i = N + 1
  BY <1>1
<1>7. OnTheWay'
  BY <1>3 DEF FiledInv, OnTheWay, FirstIn
<1>8. Prompt(lag)'
  <2>. SUFFICES ASSUME up, NEW i \in 1..(N + 1), i > handled PROVE tnow <= tape'[i].at + lag
    BY <1>3, <1>5 DEF Prompt
  <2>1. CASE i \in 1..N
    BY <1>5, <2>1 DEF FiledInv, Prompt, N
  <2>2. CASE i = N + 1
    BY <1>1, <1>4, <1>5, <2>2
  <2>. QED
    BY <1>6, <2>1, <2>2
<1>9. \A s : Bucket(w, s) \subseteq Bucket(w, s)'
  <2>1. \A i \in 1..N : i \in 1..(N + 1)
    BY <1>1
  <2>. QED
    BY <1>5, <2>1 DEF Bucket, N
<1>10. \A s \in DOMAIN open' : OfWindow(w, s)'
  <2>. SUFFICES ASSUME NEW s \in DOMAIN open PROVE OfWindow(w, s)'
    BY <1>3
  <2>1. OfWindow(w, s)
    BY DEF FiledInv
  <2>2. \A x \in Bucket(w, s) : x \in Bucket(w, s)'
    BY <1>9
  <2>. QED
    BY <1>3, <2>1, <2>2 DEF OfWindow
<1>11. AllFiled(w)'
  <2>1. ASSUME up, next # -1, NEW i \in 1..(N + 1), tape'[i].side # "OTHER",
               Trunc(w, tape'[i].at) >= next, ~(i > handled)
        PROVE  Filed(Trunc(w, tape'[i].at), i)
    <3>1. i \in 1..N
      BY <1>1, <1>6, <2>1 DEF FiledInv, OnTheWay
    <3>2. tape'[i] = tape[i]
      BY <1>5, <3>1
    <3>. QED
      BY <2>1, <3>1, <3>2 DEF FiledInv, AllFiled, N
  <2>2. \A s, i : Filed(s, i) => s \in DOMAIN open' /\ \E j \in 1..Len(open'[s]) : open'[s][j] = i
    BY <1>3 DEF Filed
  <2>. QED
    BY <1>3, <1>5, <2>1, <2>2 DEF AllFiled, Filed, Trunc
<1>12. Written(w, sw, m)'
  <2>. SUFFICES ASSUME NEW s \in DOMAIN rows
                PROVE  s \in Nat /\ s + w <= tnow /\ WholeRow(rows[s], tape', Bucket(w, s)', sw, m)
    BY <1>3 DEF Written
  <2>1. s \in Nat /\ s + w <= tnow /\ WholeRow(rows[s], tape, Bucket(w, s), sw, m)
    BY DEF Written
  <2>2. Trunc(w, tnow) # s
    BY <1>1, <2>1, InsideBucket
  <2>3. N + 1 \notin Bucket(w, s)'
    BY <1>4, <1>5, <2>2 DEF Bucket
  <2>4. Bucket(w, s)' = Bucket(w, s)
    <3>1. ASSUME NEW x \in Bucket(w, s)' PROVE x \in Bucket(w, s)
      <4>1. x \in 1..N
        BY <1>5, <1>6, <2>3 DEF Bucket
      <4>. QED
        BY <1>5, <4>1 DEF Bucket, N
    <3>. QED
      BY <1>9, <3>1
  <2>5. Bucket(w, s) \in SUBSET (1..N) /\ \A i \in Bucket(w, s) : tape'[i] = tape[i]
    BY <1>5 DEF Bucket, N
  <2>6. WholeRow(rows[s], tape', Bucket(w, s), sw, m)
    BY <1>1, <2>1, <2>5, SameRow
  <2>. QED
    BY <2>1, <2>4, <2>6
<1>. QED
  BY <1>7, <1>8, <1>10, <1>11, <1>12 DEF FiledInv

(* What is sent now is in the last frame and newer than all before it.     *)
LEMMA SendFiled ==
    ASSUME NEW w \in Nat \ {0}, NEW lag \in Nat, NEW sw, NEW m \in Nat,
           VenueInv, FiledInv(w, lag), Written(w, sw, m), SendFiles
    PROVE  FiledInv(w, lag)' /\ Written(w, sw, m)'
<1>. DEFINE N == Len(tape)
            W == Len(twire)
<1>1. /\ tnow' = tnow /\ tape' = tape /\ up' = up /\ handled' = handled
      /\ next' = next /\ open' = open /\ rows' = rows
  BY DEF SendFiles, SendOf, StillFiled
<1>2. /\ N \in Nat /\ sent \in 0..N /\ twire \in Seq(SUBSET Nat)
      /\ \A n \in 1..W : twire[n] \subseteq 1..sent
  BY DEF VenueInv
<1>3. PICK F : /\ twire' = Append(twire, F) /\ F \in SUBSET Nat
               /\ \/ sent' = sent
                  \/ sent' = N /\ (sent + 1)..N \subseteq F
  <2>1. CASE twire' = Append(twire, {}) /\ sent' = sent
    <3>1. {} \in SUBSET Nat
      OBVIOUS
    <3>. WITNESS {}
    <3>. QED
      BY <2>1, <3>1
  <2>2. CASE /\ \E again \in {{}} \cup {{i} : i \in 1..sent} :
                   twire' = Append(twire, ((sent + 1)..N) \cup again)
             /\ sent' = N
    <3>1. PICK again \in {{}} \cup {{i} : i \in 1..sent} :
                   twire' = Append(twire, ((sent + 1)..N) \cup again)
      BY <2>2
    <3>. DEFINE F == ((sent + 1)..N) \cup again
    <3>2. again \subseteq Nat /\ (sent + 1)..N \subseteq Nat
      BY <1>2
    <3>3. F \in SUBSET Nat /\ (sent + 1)..N \subseteq F
      BY <3>2
    <3>4. twire' = Append(twire, F) /\ sent' = N
      BY <2>2, <3>1
    <3>. HIDE DEF F
    <3>. QED
      BY <3>3, <3>4
  <2>. QED
    BY <2>1, <2>2 DEF SendFiles, SendOf
<1>. HIDE DEF N, W
<1>4. /\ W \in Nat /\ Len(twire') = W + 1 /\ \A n \in 1..W : twire'[n] = twire[n]
      /\ twire'[W + 1] = F
  BY <1>2, <1>3, AppendIs DEF W
<1>5. /\ handled \in 0..sent
      /\ up => \A i \in 1..sent : i > handled => \E n \in 1..W : FirstIn(n, i)
  BY DEF FiledInv, OnTheWay, W
<1>6. \A n \in 1..W : \A i : FirstIn(n, i) => FirstIn(n, i)'
  <2>1. \A n \in 1..W : \A k \in 1..(n - 1) : twire'[k] = twire[k] /\ twire'[n] = twire[n]
    BY <1>4
  <2>. QED
    BY <1>4, <2>1 DEF FirstIn
<1>7. OnTheWay'
  <2>1. handled' \in 0..sent'
    BY <1>1, <1>2, <1>3, <1>5
  <2>2. ASSUME up, NEW i \in 1..sent', i > handled PROVE \E n \in 1..(W + 1) : FirstIn(n, i)'
    <3>1. CASE i <= sent
      <4>1. i \in 1..sent
        BY <1>2, <1>3, <3>1
      <4>2. PICK n \in 1..W : FirstIn(n, i)
        BY <1>5, <2>2, <4>1
      <4>3. n \in 1..(W + 1)
        BY <1>4
      <4>. QED
        BY <1>6, <4>2, <4>3
    <3>2. CASE i > sent
      <4>1. i \in (sent + 1)..N
        BY <1>2, <1>3, <3>2
      <4>2. i \in F
        BY <1>2, <1>3, <3>2, <4>1
      <4>3. \A k \in 1..((W + 1) - 1) : twire'[k] = twire[k] /\ twire[k] \subseteq 1..sent
        BY <1>2, <1>4 DEF W
      <4>4. \A j \in 1..sent : j < i
        BY <1>2, <3>2, <4>1
      <4>5. \A k \in 1..((W + 1) - 1) : \A j \in twire'[k] : j < i
        BY <4>3, <4>4
      <4>6. PICK p : p = W + 1 /\ p \in 1..(W + 1)
        BY <1>4
      <4>7. FirstIn(p, i)'
        BY <1>4, <4>2, <4>5, <4>6 DEF FirstIn
      <4>. QED
        BY <4>6, <4>7
    <3>. QED
      BY <1>2, <1>3, <3>1, <3>2
  <2>. QED
    BY <1>1, <1>4, <2>1, <2>2 DEF OnTheWay
<1>8. Prompt(lag)'
  BY <1>1 DEF FiledInv, Prompt
<1>9. \A s \in DOMAIN open' : OfWindow(w, s)'
  BY <1>1 DEF FiledInv, OfWindow, Bucket
<1>10. AllFiled(w)'
  BY <1>1 DEF FiledInv, AllFiled, Filed
<1>11. Written(w, sw, m)'
  BY <1>1, WrittenKept
<1>. QED
  BY <1>7, <1>8, <1>9, <1>10, <1>11 DEF FiledInv

LEMMA ConnectFiled ==
    ASSUME NEW w \in Nat \ {0}, NEW lag \in Nat, NEW sw, NEW m \in Nat,
           VenueInv, FiledInv(w, lag), Written(w, sw, m), ConnectFiles
    PROVE  FiledInv(w, lag)' /\ Written(w, sw, m)'
<1>1. /\ tnow' = tnow /\ tape' = tape /\ handled' = Len(tape) /\ sent' = Len(tape)
      /\ next' = -1 /\ DOMAIN open' = {} /\ rows' = rows
  BY DEF ConnectFiles, ConnectOf
<1>2. Len(tape) \in Nat /\ \A i \in 1..Len(tape) : ~(i > Len(tape))
  <2>1. Len(tape) \in Nat
    BY DEF VenueInv
  <2>. QED
    BY <2>1
<1>3. OnTheWay' /\ Prompt(lag)'
  BY <1>1, <1>2 DEF OnTheWay, Prompt
<1>4. AllFiled(w)' /\ \A s \in DOMAIN open' : OfWindow(w, s)'
  BY <1>1 DEF AllFiled
<1>5. Written(w, sw, m)'
  BY <1>1, WrittenKept
<1>. QED
  BY <1>3, <1>4, <1>5 DEF FiledInv

LEMMA RestFiled ==
    ASSUME NEW w \in Nat \ {0}, NEW lag \in Nat, NEW sw, NEW m \in Nat,
           VenueInv, FiledInv(w, lag), Written(w, sw, m), DropFiles \/ ClockFiles(lag)
    PROVE  FiledInv(w, lag)' /\ Written(w, sw, m)'
<1>1. /\ tape' = tape /\ handled' = handled /\ sent' = sent /\ tnow' \in {tnow, tnow + 1}
      /\ next' = next /\ open' = open /\ rows' = rows
      /\ up' => up /\ twire' = twire
  BY DEF DropFiles, DropOf, ClockFiles, ClockOf, StillFiled
<1>2. OnTheWay'
  BY <1>1 DEF FiledInv, OnTheWay, FirstIn
<1>3. Prompt(lag)'
  <2>1. CASE DropFiles
    BY <2>1 DEF DropFiles, Prompt
  <2>2. CASE ClockFiles(lag)
    <3>. SUFFICES ASSUME up', NEW i \in 1..Len(tape), i > handled PROVE tnow + 1 <= tape[i].at + lag
      BY <2>2 DEF ClockFiles, ClockOf, Prompt
    <3>1. tnow < tape[i].at + lag
      BY <2>2 DEF ClockFiles
    <3>2. tnow \in Nat /\ tape[i].at \in Nat
      BY DEF VenueInv
    <3>. QED
      BY <3>1, <3>2
  <2>. QED
    BY <2>1, <2>2
<1>4. \A s \in DOMAIN open' : OfWindow(w, s)'
  BY <1>1 DEF FiledInv, OfWindow, Bucket
<1>5. AllFiled(w)'
  BY <1>1 DEF FiledInv, AllFiled, Filed
<1>6. Written(w, sw, m)'
  BY <1>1, WrittenKept
<1>. QED
  BY <1>2, <1>3, <1>4, <1>5, <1>6 DEF FiledInv

-----------------------------------------------------------------------------
(* One frame: the tick, then the trades of the frame.                      *)

Places(q) == {q[k] : k \in 1..Len(q)}
Held(s)   == IF s \in DOMAIN open THEN open[s] ELSE <<>>

InTime(tp, s, n) == \A i, j \in 1..n : i < j => tp[s[i]].at <= tp[s[j]].at

(* r: the aggregate of the trades of q, put in an order of their times.    *)
RowOf(r, tp, q, sw, m) ==
    /\ r.count = Len(q) /\ r.volume = VolumeOf(tp, q, Sides)
    /\ r.buyVol = VolumeOf(tp, q, {"BUY"}) /\ r.sellVol = VolumeOf(tp, q, {"SELL"})
    /\ r.notional = TurnoverOf(tp, q)
    /\ \E s :
          /\ Lists(s, Cardinality(Places(q)), Places(q))
          /\ InTime(tp, s, Cardinality(Places(q)))
          /\ r.sweeps = SweepsOf([i \in DOMAIN s |-> Continues(tp, sw, s, i)], m)

Kept(w, g, s) == IF s \in DOMAIN open \ Closing(w, g) THEN open[s] ELSE <<>>
Fresh(w, g, s) ==
    {i \in Head(twire) :
        /\ Trunc(w, tape[i].at) = s /\ tape[i].side # "OTHER"
        /\ s >= next' /\ i \notin Places(Kept(w, g, s))}

ReceiveFiles(w, g, sw, m) ==
    /\ up /\ up' = up
    /\ twire # <<>> /\ twire' = Tail(twire) /\ handled' = C!Max({handled} \cup Head(twire))
    /\ sent' = sent /\ tape' = tape /\ tnow' = tnow
    /\ TickOf(w, g)
    /\ \A s \in DOMAIN rows' :
          IF s \in Closing(w, g) THEN RowOf(rows'[s], tape, Held(s), sw, m)
                                 ELSE rows'[s] = rows[s]
    /\ \A s \in DOMAIN open \ Closing(w, g) : s \in DOMAIN open'
    /\ \A i \in Head(twire) : Trunc(w, tape[i].at) >= next' => Trunc(w, tape[i].at) \in DOMAIN open'
    /\ \A s \in DOMAIN open' :
          \E new \in Seq(Nat) :
              Lists(new, Len(new), Fresh(w, g, s)) /\ open'[s] = Kept(w, g, s) \o new

(* What a tick closes lies before the next bucket, and the next bucket of  *)
(* a tick that admits lies after every trade.                              *)
LEMMA TickNext ==
    ASSUME NEW w \in Nat \ {0}, NEW g \in Nat, VenueInv, ToldInv(w), TickOf(w, g)
    PROVE  /\ next' \in Nat
           /\ \A s \in Closing(w, g) : s \in Nat /\ s >= next /\ s + w + g <= tnow /\ s < next'
           /\ (next # -1) => next <= next'
           /\ next = -1 => Closing(w, g) = {} /\ \A i \in 1..Len(tape) : Trunc(w, tape[i].at) < next'
<1>. DEFINE D == Closing(w, g)
<1>1. /\ next \in Int /\ tnow \in Nat
      /\ next # -1 => next \in Nat
      /\ \A i \in 1..Len(tape) : tape[i].at \in Nat /\ tape[i].at <= tnow
  BY DEF ToldInv, VenueInv
<1>2. next' = (IF next = -1 THEN Admitting(w) ELSE IF D = {} THEN next ELSE C!Max(D) + w)
  BY DEF TickOf
<1>3. CASE next = -1
  <2>1. D = {}
    BY <1>3 DEF Closing
  <2>2. next' = Admitting(w)
    BY <1>2, <1>3
  <2>3. tnow < next' /\ next' \in Nat
    <3>1. Trunc(w, tnow) \in Int /\ tnow < Trunc(w, tnow) + w
      BY <1>1, InsideBucket
    <3>2. Admitting(w) = Trunc(w, tnow) + w
      BY DEF Admitting, Trunc
    <3>. QED
      BY <1>1, <2>2, <3>1, <3>2
  <2>4. \A i \in 1..Len(tape) : Trunc(w, tape[i].at) \in Int /\ Trunc(w, tape[i].at) <= tape[i].at
    BY <1>1, InsideBucket
  <2>5. \A i \in 1..Len(tape) : Trunc(w, tape[i].at) < next'
    BY <1>1, <2>3, <2>4
  <2>. QED
    BY <1>3, <2>1, <2>3, <2>5
<1>4. CASE next # -1
  <2>1. next \in Nat
    BY <1>1, <1>4
  <2>2. \A s \in D : s \in Nat /\ s >= next /\ s + w + g <= tnow /\ s \in 0..tnow
    BY <1>1, <2>1 DEF Closing
  <2>3. CASE D = {}
    BY <1>2, <1>4, <2>1, <2>3
  <2>4. CASE D # {}
    <3>. HIDE DEF D
    <3>1. D \in SUBSET (0..tnow)
      BY <2>2
    <3>2. PICK x \in D : \A y \in D : x >= y
      BY <1>1, <2>4, <3>1, MaxExists
    <3>3. C!Max(D) = x
      BY <3>1, <3>2, MaxIs
    <3>4. next' = x + w /\ x \in Nat
      BY <1>2, <1>4, <2>2, <2>4, <3>3
    <3>. QED
      BY <1>4, <2>1, <2>2, <3>2, <3>4 DEF D
  <2>. QED
    BY <2>3, <2>4
<1>. QED
  BY <1>3, <1>4

(* What is handled of a frame is what the wire no longer has to bring.     *)
LEMMA ReceiveOnTheWay ==
    ASSUME NEW w, NEW g, NEW sw, NEW m, VenueInv, OnTheWay, ReceiveFiles(w, g, sw, m)
    PROVE  /\ OnTheWay' /\ handled' \in Nat /\ handled <= handled'
           /\ \A i \in Head(twire) : i \in 1..Len(tape) /\ i <= handled'
           /\ \A i \in 1..Len(tape) : i > handled /\ ~(i > handled') => i \in Head(twire)
<1>. DEFINE W == Len(twire)
            f == Head(twire)
            H == {handled} \cup f
<1>1. /\ up /\ twire # <<>> /\ twire' = Tail(twire) /\ handled' = C!Max(H)
      /\ sent' = sent /\ tape' = tape
  BY DEF ReceiveFiles
<1>2. /\ Len(tape) \in Nat /\ sent \in 0..Len(tape) /\ twire \in Seq(SUBSET Nat)
      /\ \A n \in 1..W : twire[n] \subseteq 1..sent
  BY DEF VenueInv
<1>3. /\ W \in Nat /\ W >= 1 /\ Len(twire') = W - 1
      /\ \A n \in 1..(W - 1) : twire'[n] = twire[n + 1]
      /\ f = twire[1] /\ f \subseteq 1..sent
  <2>1. f = twire[1] /\ W \in Nat /\ W >= 1
    BY <1>1, <1>2, TailIs
  <2>. QED
    BY <1>1, <1>2, <2>1, TailIs
<1>4. /\ handled \in 0..sent
      /\ \A i \in 1..sent : i > handled => \E n \in 1..W : FirstIn(n, i)
  BY <1>1 DEF OnTheWay, W
<1>. HIDE DEF W, f
<1>5. H \in SUBSET (0..sent) /\ H # {} /\ sent \in Nat
  BY <1>2, <1>3, <1>4
<1>. HIDE DEF H
<1>6. handled' \in H /\ \A y \in H : handled' >= y
  <2>1. PICK x \in H : \A y \in H : x >= y
    BY <1>5, MaxExists
  <2>2. C!Max(H) = x
    BY <1>5, <2>1, MaxIs
  <2>. QED
    BY <1>1, <2>1, <2>2
<1>7. handled' \in 0..sent /\ handled <= handled' /\ \A i \in f : i <= handled' /\ i \in 1..Len(tape)
  <2>1. handled \in H /\ f \subseteq H
    BY DEF H
  <2>2. \A i \in f : i \in 1..Len(tape)
    BY <1>2, <1>3
  <2>. QED
    BY <1>2, <1>4, <1>5, <1>6, <2>1, <2>2
<1>8. ASSUME NEW i \in 1..sent, i > handled'
      PROVE  \E n \in 1..(W - 1) : FirstIn(n, i)'
  <2>1. i > handled
    BY <1>2, <1>4, <1>7, <1>8
  <2>2. PICK n \in 1..W : FirstIn(n, i)
    BY <1>4, <2>1
  <2>3. i \in twire[n] /\ \A k \in 1..(n - 1) : \A j \in twire[k] : j < i
    BY <2>2 DEF FirstIn
  <2>4. n # 1
    <3>. SUFFICES ASSUME n = 1 PROVE FALSE
      OBVIOUS
    <3>1. i <= handled'
      BY <1>3, <1>7, <2>3
    <3>. QED
      BY <1>2, <1>7, <1>8, <3>1
  <2>5. PICK p : p = n - 1 /\ p \in 1..(W - 1)
    BY <1>3, <2>4
  <2>6. i \in twire'[p]
    BY <1>3, <2>3, <2>5
  <2>7. \A k \in 1..(p - 1) : k \in 1..(W - 1) /\ k + 1 \in 1..(n - 1)
    BY <1>3, <2>5
  <2>8. \A k \in 1..(p - 1) : \A j \in twire'[k] : j < i
    BY <1>3, <2>3, <2>7
  <2>9. FirstIn(p, i)'
    BY <2>6, <2>8 DEF FirstIn
  <2>. QED
    BY <2>5, <2>9
<1>9. OnTheWay'
  BY <1>1, <1>3, <1>7, <1>8 DEF OnTheWay
<1>10. ASSUME NEW i \in 1..Len(tape), i > handled, ~(i > handled') PROVE i \in f
  <2>1. handled' \in f
    BY <1>2, <1>4, <1>6, <1>7, <1>10 DEF H
  <2>2. i \in 1..sent
    BY <1>2, <1>7, <1>10
  <2>3. PICK n \in 1..W : FirstIn(n, i)
    BY <1>4, <1>10, <2>2
  <2>4. CASE n = 1
    BY <1>3, <2>3, <2>4 DEF FirstIn
  <2>5. CASE n # 1
    <3>1. 1 \in 1..(n - 1)
      BY <1>3, <2>5
    <3>2. handled' < i
      BY <1>3, <2>1, <2>3, <3>1 DEF FirstIn
    <3>. QED
      BY <1>2, <1>7, <1>10, <3>2
  <2>. QED
    BY <2>4, <2>5
<1>11. handled' \in Nat
  BY <1>2, <1>7
<1>. QED
  BY <1>7, <1>9, <1>10, <1>11 DEF f

(* A list without repetition, extended by new trades, is one again.        *)
LEMMA Extended ==
    ASSUME NEW S, NEW q \in Seq(Nat), \A k \in 1..Len(q) : q[k] \in S,
           \A j, k \in 1..Len(q) : q[j] = q[k] => j = k,
           NEW new \in Seq(Nat), NEW X \in SUBSET S, Lists(new, Len(new), X),
           \A x \in X : x \notin Places(q)
    PROVE  /\ q \o new \in Seq(Nat)
           /\ \A k \in 1..Len(q \o new) : (q \o new)[k] \in S
           /\ \A j, k \in 1..Len(q \o new) : (q \o new)[j] = (q \o new)[k] => j = k
           /\ Places(q) \subseteq Places(q \o new) /\ X \subseteq Places(q \o new)
<1>. DEFINE z == q \o new
            a == Len(q)
            b == Len(new)
<1>1. /\ z \in Seq(Nat) /\ Len(z) = a + b /\ a \in Nat /\ b \in Nat
      /\ \A i \in 1..a : z[i] = q[i]
      /\ \A i \in 1..b : z[a + i] = new[i]
  BY ConcatIs
<1>2. /\ \A k \in 1..b : new[k] \in X
      /\ \A x \in X : \E k \in 1..b : new[k] = x
      /\ \A j, k \in 1..b : new[j] = new[k] => j = k
  BY DEF Lists
<1>3. /\ \A k \in 1..a : q[k] \in S /\ q[k] \in Places(q)
      /\ \A j, k \in 1..a : q[j] = q[k] => j = k
  BY DEF Places
<1>. HIDE DEF z, a, b
<1>4. \A k \in 1..(a + b) : k \in 1..a \/ (k - a \in 1..b /\ k = a + (k - a))
  BY <1>1
<1>5. \A k \in 1..(a + b) : \/ k \in 1..a /\ z[k] = q[k] /\ z[k] \in Places(q) /\ z[k] \in S
                            \/ k - a \in 1..b /\ z[k] = new[k - a] /\ z[k] \in X
  <2>. SUFFICES ASSUME NEW k \in 1..(a + b)
                PROVE  \/ k \in 1..a /\ z[k] = q[k] /\ z[k] \in Places(q) /\ z[k] \in S
                       \/ k - a \in 1..b /\ z[k] = new[k - a] /\ z[k] \in X
    OBVIOUS
  <2>1. CASE k \in 1..a
    BY <1>1, <1>3, <2>1
  <2>2. CASE k - a \in 1..b /\ k = a + (k - a)
    <3>1. z[a + (k - a)] = new[k - a]
      BY <1>1, <2>2
    <3>. QED
      BY <1>2, <2>2, <3>1
  <2>. QED
    BY <1>4, <2>1, <2>2
<1>6. \A k \in 1..(a + b) : z[k] \in S
  BY <1>5
<1>7. ASSUME NEW j \in 1..(a + b), NEW k \in 1..(a + b), z[j] = z[k] PROVE j = k
  <2>1. CASE j \in 1..a /\ z[j] = q[j] /\ z[j] \in Places(q)
    BY <1>3, <1>5, <1>7, <2>1
  <2>2. CASE j - a \in 1..b /\ z[j] = new[j - a] /\ z[j] \in X
    <3>1. k - a \in 1..b /\ z[k] = new[k - a]
      BY <1>5, <1>7, <2>2
    <3>2. j - a = k - a
      BY <1>2, <1>7, <2>2, <3>1
    <3>. QED
      BY <1>1, <3>2
  <2>. QED
    BY <1>5, <2>1, <2>2
<1>8. Places(q) \subseteq Places(z)
  <2>1. \A k \in 1..a : k \in 1..(a + b)
    BY <1>1
  <2>2. \A k \in 1..a : z[k] \in Places(z)
    BY <1>1, <2>1 DEF Places
  <2>3. Places(q) = {q[k] : k \in 1..a}
    BY DEF Places, a
  <2>. QED
    BY <1>1, <2>2, <2>3
<1>9. X \subseteq Places(z)
  <2>1. \A k \in 1..b : a + k \in 1..(a + b)
    BY <1>1
  <2>2. \A k \in 1..b : z[a + k] \in Places(z)
    BY <1>1, <2>1 DEF Places
  <2>3. \A k \in 1..b : new[k] \in Places(z)
    BY <1>1, <2>2
  <2>. QED
    BY <1>2, <2>3
<1>. QED
  BY <1>1, <1>6, <1>7, <1>8, <1>9 DEF z

(* What a frame makes of an open bucket.                                   *)
LEMMA ReceiveOpen ==
    ASSUME NEW w, NEW g, NEW sw, NEW m, VenueInv,
           \A s \in DOMAIN open : OfWindow(w, s), ReceiveFiles(w, g, sw, m),
           \A i \in Head(twire) : i \in 1..Len(tape),
           NEW s \in DOMAIN open'
    PROVE  /\ OfWindow(w, s)'
           /\ Places(Kept(w, g, s)) \subseteq Places(open'[s])
           /\ Fresh(w, g, s) \subseteq Places(open'[s])
<1>. DEFINE q == Kept(w, g, s)
            X == Fresh(w, g, s)
            S == Bucket(w, s)
<1>1. PICK new \in Seq(Nat) : Lists(new, Len(new), X) /\ open'[s] = q \o new
  BY DEF ReceiveFiles
<1>2. /\ q \in Seq(Nat) /\ \A k \in 1..Len(q) : q[k] \in S
      /\ \A j, k \in 1..Len(q) : q[j] = q[k] => j = k
  <2>1. CASE s \in DOMAIN open \ Closing(w, g)
    <3>1. q = open[s] /\ OfWindow(w, s)
      BY <2>1 DEF Kept
    <3>. HIDE DEF q, S
    <3>. QED
      BY <3>1 DEF OfWindow, S
  <2>2. CASE ~(s \in DOMAIN open \ Closing(w, g))
    <3>1. q = <<>>
      BY <2>2 DEF Kept
    <3>. HIDE DEF q, S
    <3>2. q \in Seq(Nat) /\ Len(q) = 0
      BY <3>1
    <3>3. \A k \in 1..Len(q) : FALSE
      BY <3>2
    <3>. QED
      BY <3>2, <3>3
  <2>. QED
    BY <2>1, <2>2
<1>3. X \in SUBSET S /\ \A x \in X : x \notin Places(q)
  BY DEF Fresh, Bucket
<1>4. S' = S
  BY DEF ReceiveFiles, Bucket
<1>. HIDE DEF q, X, S
<1>5. /\ q \o new \in Seq(Nat)
      /\ \A k \in 1..Len(q \o new) : (q \o new)[k] \in S
      /\ \A j, k \in 1..Len(q \o new) : (q \o new)[j] = (q \o new)[k] => j = k
      /\ Places(q) \subseteq Places(q \o new) /\ X \subseteq Places(q \o new)
  BY <1>1, <1>2, <1>3, Extended
<1>6. /\ open'[s] \in Seq(Nat)
      /\ \A k \in 1..Len(open'[s]) : open'[s][k] \in S'
      /\ \A j, k \in 1..Len(open'[s]) : open'[s][j] = open'[s][k] => j = k
      /\ Places(q) \subseteq Places(open'[s]) /\ X \subseteq Places(open'[s])
  BY <1>1, <1>4, <1>5, Zenon
<1>7. OfWindow(w, s)'
  BY <1>6 DEF OfWindow, S
<1>. QED
  BY <1>6, <1>7 DEF q, X

(* What was handled and has a bucket still to be written is in it: handled *)
(* before, its bucket was not closed; handled now, the frame brought it.   *)
LEMMA ReceiveAllFiled ==
    ASSUME NEW w \in Nat \ {0}, NEW lag, NEW g \in Nat, NEW sw, NEW m, VenueInv, ToldInv(w),
           FiledInv(w, lag), ReceiveFiles(w, g, sw, m)
    PROVE  AllFiled(w)'
<1>1. /\ up /\ tape' = tape /\ TickOf(w, g)
      /\ \A s \in DOMAIN open \ Closing(w, g) : s \in DOMAIN open'
      /\ \A i \in Head(twire) : Trunc(w, tape[i].at) >= next' => Trunc(w, tape[i].at) \in DOMAIN open'
  BY DEF ReceiveFiles
<1>2. OnTheWay /\ AllFiled(w) /\ \A s \in DOMAIN open : OfWindow(w, s)
  BY DEF FiledInv
<1>3. /\ next' \in Nat
      /\ \A s \in Closing(w, g) : s \in Nat /\ s >= next /\ s + w + g <= tnow /\ s < next'
      /\ (next # -1) => next <= next'
      /\ next = -1 => Closing(w, g) = {} /\ \A i \in 1..Len(tape) : Trunc(w, tape[i].at) < next'
  BY <1>1, TickNext
<1>4. /\ OnTheWay' /\ handled' \in Nat /\ handled <= handled'
      /\ \A i \in Head(twire) : i \in 1..Len(tape) /\ i <= handled'
      /\ \A i \in 1..Len(tape) : i > handled /\ ~(i > handled') => i \in Head(twire)
  BY <1>2, ReceiveOnTheWay
<1>5. next \in Int /\ handled \in Int /\ Len(tape) \in Nat
      /\ \A i \in 1..Len(tape) : Trunc(w, tape[i].at) \in Int
  <2>1. \A i \in 1..Len(tape) : tape[i].at \in Nat
    BY DEF VenueInv
  <2>2. next \in Int /\ handled \in Int /\ Len(tape) \in Nat
    BY <1>2 DEF ToldInv, OnTheWay, VenueInv
  <2>. QED
    BY <2>1, <2>2, InsideBucket
<1>6. ASSUME NEW i \in 1..Len(tape), tape[i].side # "OTHER", Trunc(w, tape[i].at) >= next',
             ~(i > handled')
      PROVE  Trunc(w, tape[i].at) \in DOMAIN open' /\ i \in Places(open'[Trunc(w, tape[i].at)])
  <2>. DEFINE s == Trunc(w, tape[i].at)
  <2>1. next # -1 /\ s \notin Closing(w, g) /\ s >= next
    BY <1>3, <1>5, <1>6
  <2>. HIDE DEF s
  <2>2. CASE i > handled
    <3>1. i \in Head(twire)
      BY <1>4, <1>6, <2>2
    <3>2. s \in DOMAIN open'
      BY <1>1, <1>6, <3>1 DEF s
    <3>3. /\ Places(Kept(w, g, s)) \subseteq Places(open'[s])
          /\ Fresh(w, g, s) \subseteq Places(open'[s])
      BY <1>2, <1>4, <3>2, ReceiveOpen
    <3>4. i \in Fresh(w, g, s) \/ i \in Places(Kept(w, g, s))
      BY <1>6, <3>1 DEF Fresh, s
    <3>. QED
      BY <3>2, <3>3, <3>4 DEF s
  <2>3. CASE ~(i > handled)
    <3>1. Filed(s, i)
      BY <1>1, <1>2, <1>6, <2>1, <2>3 DEF AllFiled, s
    <3>2. s \in DOMAIN open \ Closing(w, g) /\ i \in Places(open[s])
      BY <2>1, <3>1 DEF Filed, Places
    <3>3. s \in DOMAIN open' /\ Kept(w, g, s) = open[s]
      BY <1>1, <3>2 DEF Kept
    <3>4. Places(Kept(w, g, s)) \subseteq Places(open'[s])
      BY <1>2, <1>4, <3>3, ReceiveOpen
    <3>. QED
      BY <3>2, <3>3, <3>4 DEF s
  <2>. QED
    BY <2>2, <2>3
<1>7. \A s, i : s \in DOMAIN open' /\ i \in Places(open'[s]) =>
                   s \in DOMAIN open' /\ \E j \in 1..Len(open'[s]) : open'[s][j] = i
  BY DEF Places
<1>. QED
  BY <1>1, <1>6, <1>7 DEF AllFiled, Filed, Trunc

(* A closed bucket holds all trades of its window: one that is outstanding *)
(* would be older than the lag by now.                                     *)
LEMMA ReceiveWritten ==
    ASSUME NEW w \in Nat \ {0}, NEW g \in Nat, NEW lag \in Nat, lag <= g,
           NEW sw, NEW m \in Nat \ {0, 1}, VenueInv, ToldInv(w),
           FiledInv(w, lag), Written(w, sw, m), ReceiveFiles(w, g, sw, m)
    PROVE  Written(w, sw, m)'
<1>1. /\ up /\ tape' = tape /\ tnow' = tnow /\ TickOf(w, g)
      /\ \A s \in DOMAIN rows' : IF s \in Closing(w, g) THEN RowOf(rows'[s], tape, Held(s), sw, m)
                                                       ELSE rows'[s] = rows[s]
      /\ DOMAIN rows' = DOMAIN rows \cup Closing(w, g)
  BY DEF ReceiveFiles, TickOf
<1>2. OnTheWay /\ Prompt(lag) /\ AllFiled(w) /\ \A s \in DOMAIN open : OfWindow(w, s)
  BY DEF FiledInv
<1>3. /\ \A s \in Closing(w, g) : s \in Nat /\ s >= next /\ s + w + g <= tnow
      /\ next = -1 => Closing(w, g) = {}
  BY <1>1, TickNext
<1>4. /\ Tape(tape, Len(tape)) /\ Len(tape) \in Nat /\ tnow \in Nat
      /\ \A i \in 1..Len(tape) : tape[i].side \in Sides \cup {"OTHER"} /\ tape[i].at \in Nat
  BY TapeIs DEF VenueInv
<1>5. ASSUME NEW s \in Closing(w, g), RowOf(rows'[s], tape, Held(s), sw, m)
      PROVE  s \in Nat /\ s + w <= tnow /\ WholeRow(rows'[s], tape, Bucket(w, s), sw, m)
  <2>. DEFINE S == Bucket(w, s)
              q == Held(s)
  <2>1. s \in Nat /\ s >= next /\ s + w + g <= tnow /\ next # -1
    BY <1>3
  <2>2. \A i \in S : i \in 1..Len(tape) /\ Trunc(w, tape[i].at) = s /\ tape[i].side \in Sides
    BY <1>4 DEF Bucket
  <2>3. \A i \in S : Filed(s, i)
    <3>. SUFFICES ASSUME NEW i \in S PROVE Filed(s, i)
      OBVIOUS
    <3>1. tape[i].at < s + w
      BY <1>4, <2>2, InsideBucket
    <3>2. ~(i > handled)
      <4>. SUFFICES ASSUME i > handled PROVE FALSE
        OBVIOUS
      <4>1. tnow <= tape[i].at + lag
        BY <1>1, <1>2, <2>2 DEF Prompt
      <4>. QED
        BY <1>4, <2>1, <2>2, <3>1, <4>1
    <3>3. tape[i].side # "OTHER"
      BY <2>2 DEF Sides
    <3>. QED
      BY <1>1, <1>2, <2>1, <2>2, <3>2, <3>3 DEF AllFiled
  <2>4. /\ q \in Seq(Nat) /\ \A k \in 1..Len(q) : q[k] \in S
        /\ \A j, k \in 1..Len(q) : q[j] = q[k] => j = k
        /\ \A i \in S : \E k \in 1..Len(q) : q[k] = i
    <3>1. CASE s \in DOMAIN open
      <4>1. q = open[s] /\ OfWindow(w, s)
        BY <1>2, <3>1 DEF Held
      <4>. HIDE DEF q, S
      <4>2. \A i \in S : \E k \in 1..Len(q) : q[k] = i
        BY <2>3, <4>1 DEF Filed
      <4>. QED
        BY <4>1, <4>2 DEF OfWindow, S
    <3>2. CASE s \notin DOMAIN open
      <4>1. q = <<>> /\ S = {}
        BY <2>3, <3>2 DEF Held, Filed
      <4>. HIDE DEF q, S
      <4>2. q \in Seq(Nat) /\ Len(q) = 0
        BY <4>1
      <4>3. \A k \in 1..Len(q) : FALSE
        BY <4>2
      <4>. QED
        BY <4>1, <4>2, <4>3
    <3>. QED
      BY <3>1, <3>2
  <2>. HIDE DEF q
  <2>5. Len(q) \in Nat /\ q \in [1..Len(q) -> S]
    BY <2>4
  <2>6. {q[k] : k \in 1..Len(q)} = S
    BY <2>4
  <2>7. Lists(q, Len(q), S) /\ Places(q) = S
    BY <2>4, <2>5, <2>6 DEF Lists, Places
  <2>8. S \in SUBSET (1..Len(tape))
    BY <2>2
  <2>9. WholeRow(rows'[s], tape, S, sw, m)
    <3>. DEFINE r == rows'[s]
    <3>1. /\ r.count = Len(q) /\ r.volume = VolumeOf(tape, q, Sides)
          /\ r.buyVol = VolumeOf(tape, q, {"BUY"}) /\ r.sellVol = VolumeOf(tape, q, {"SELL"})
          /\ r.notional = TurnoverOf(tape, q)
      BY <1>5 DEF RowOf, q
    <3>2. PICK o : /\ Lists(o, Cardinality(S), S) /\ InTime(tape, o, Cardinality(S))
                   /\ r.sweeps = SweepsOf([i \in DOMAIN o |-> Continues(tape, sw, o, i)], m)
      <4>1. RowOf(r, tape, q, sw, m)
        BY <1>5 DEF q
      <4>. HIDE DEF r, S
      <4>. QED
        BY <2>7, <4>1 DEF RowOf
    <3>. HIDE DEF r, S
    <3>3. \A i, j \in 1..Cardinality(S) : i < j => tape[o[i]].at <= tape[o[j]].at
      BY <3>2 DEF InTime
    <3>4. \A i \in S : tape[i].side \in Sides
      BY <2>2
    <3>5. WholeRow(r, tape, S, sw, m)
      BY <1>4, <2>5, <2>7, <2>8, <3>1, <3>2, <3>3, <3>4, AggregateIsWhole
    <3>. QED
      BY <3>5 DEF r
  <2>. QED
    BY <1>4, <2>1, <2>9
<1>6. ASSUME NEW s \in DOMAIN rows'
      PROVE  s \in Nat /\ s + w <= tnow /\ WholeRow(rows'[s], tape, Bucket(w, s), sw, m)
  <2>1. CASE s \in Closing(w, g)
    BY <1>1, <1>5, <2>1
  <2>2. CASE s \notin Closing(w, g)
    BY <1>1, <2>2 DEF Written
  <2>. QED
    BY <2>1, <2>2
<1>7. \A s : Bucket(w, s)' = Bucket(w, s)
  BY <1>1 DEF Bucket
<1>. QED
  BY <1>1, <1>6, <1>7 DEF Written

LEMMA ReceiveFiled ==
    ASSUME NEW w \in Nat \ {0}, NEW g \in Nat, NEW lag \in Nat, lag <= g,
           NEW sw, NEW m \in Nat \ {0, 1}, VenueInv, ToldInv(w),
           FiledInv(w, lag), Written(w, sw, m), ReceiveFiles(w, g, sw, m)
    PROVE  FiledInv(w, lag)' /\ Written(w, sw, m)'
<1>1. /\ OnTheWay /\ Prompt(lag) /\ \A s \in DOMAIN open : OfWindow(w, s)
      /\ up /\ tape' = tape /\ tnow' = tnow
  BY DEF FiledInv, ReceiveFiles
<1>2. /\ OnTheWay' /\ handled' \in Nat /\ handled <= handled'
      /\ \A i \in Head(twire) : i \in 1..Len(tape) /\ i <= handled'
  BY <1>1, ReceiveOnTheWay
<1>3. Prompt(lag)'
  <2>1. handled \in Int /\ Len(tape) \in Nat
    BY <1>1 DEF OnTheWay, VenueInv
  <2>2. \A i \in 1..Len(tape) : i > handled' => i > handled
    BY <1>2, <2>1
  <2>. QED
    BY <1>1, <2>2 DEF Prompt
<1>4. \A s \in DOMAIN open' : OfWindow(w, s)'
  BY <1>1, <1>2, ReceiveOpen
<1>5. AllFiled(w)' /\ Written(w, sw, m)'
  BY ReceiveAllFiled, ReceiveWritten
<1>. QED
  BY <1>2, <1>3, <1>4, <1>5 DEF FiledInv

(* An order without repetition of as many trades as there are lists them,  *)
(* and so does an ascending order read backwards.                          *)
LEMMA OrderingLists ==
    ASSUME NEW n \in Nat, NEW T \in SUBSET (1..n), NEW s \in [1..Cardinality(T) -> T],
           \A i, j \in 1..Cardinality(T) : i # j => s[i] # s[j]
    PROVE  Lists(s, Cardinality(T), T)
<1>. DEFINE c == Cardinality(T)
<1>1. IsFiniteSet(T) /\ c \in Nat
  <2>1. IsFiniteSet(1..n)
    BY FS_Interval
  <2>. QED
    BY <2>1, FS_Subset, FS_CardinalityType
<1>2. s \in Injection(1..c, T)
  BY DEF Injection, IsInjective
<1>3. Cardinality(1..c) = c
  BY <1>1, FS_Interval
<1>4. s \in Surjection(1..c, T)
  BY <1>1, <1>2, <1>3, FS_Injection
<1>5. {s[k] : k \in 1..c} = T
  BY <1>4 DEF Surjection
<1>. QED
  BY <1>5 DEF Lists

LEMMA ReverseLists ==
    ASSUME NEW n \in Nat, NEW T \in SUBSET (1..n), NEW a, Enumerates(a, T),
           NEW z, z = [i \in 1..Len(a) |-> a[(Len(a) - i) + 1]]
    PROVE  z \in Seq(Nat) /\ Lists(z, Len(z), T)
<1>. DEFINE c == Cardinality(T)
<1>1. c \in Nat /\ Lists(a, c, T)
  BY EnumerationLists
<1>2. /\ a \in [1..c -> T] /\ {a[k] : k \in 1..c} = T
      /\ \A j, k \in 1..c : a[j] = a[k] => j = k
  BY <1>1 DEF Lists
<1>. HIDE DEF c
<1>3. Len(a) = c
  BY <1>1, <1>2
<1>4. \A i \in 1..c : (c - i) + 1 \in 1..c
  BY <1>1
<1>5. z \in [1..c -> T]
  BY <1>2, <1>3, <1>4
<1>6. z \in Seq(Nat) /\ Len(z) = c
  <2>0. T \subseteq Nat
    OBVIOUS
  <2>1. \A i \in 1..c : z[i] \in Nat
    BY <1>5, <2>0
  <2>2. z \in [1..c -> Nat]
    BY <1>5, <2>1
  <2>. QED
    BY <1>1, <2>2
<1>7. {z[k] : k \in 1..c} = T
  <2>1. ASSUME NEW x \in T PROVE \E k \in 1..c : z[k] = x
    <3>1. PICK j \in 1..c : a[j] = x
      BY <1>2
    <3>2. (c - j) + 1 \in 1..c /\ (c - ((c - j) + 1)) + 1 = j
      BY <1>1
    <3>3. z[(c - j) + 1] = a[j]
      BY <1>3, <3>2
    <3>. QED
      BY <3>1, <3>2, <3>3
  <2>. QED
    BY <1>5, <2>1
<1>8. ASSUME NEW j \in 1..c, NEW k \in 1..c, z[j] = z[k] PROVE j = k
  <2>1. a[(c - j) + 1] = a[(c - k) + 1]
    BY <1>3, <1>8
  <2>2. (c - j) + 1 = (c - k) + 1
    BY <1>2, <1>4, <2>1
  <2>. QED
    BY <1>1, <2>2
<1>. QED
  BY <1>5, <1>6, <1>7, <1>8 DEF Lists

(* What a tick takes from a bucket is a list of trades of the tape.        *)
LEMMA HeldIs ==
    ASSUME NEW w, VenueInv, \A s \in DOMAIN open : OfWindow(w, s), NEW s
    PROVE  /\ Len(Held(s)) \in Nat /\ DOMAIN Held(s) = 1..Len(Held(s))
           /\ Places(Held(s)) \in SUBSET (1..Len(tape))
<1>1. CASE s \in DOMAIN open
  <2>1. Held(s) = open[s] /\ OfWindow(w, s)
    BY <1>1 DEF Held
  <2>2. open[s] \in Seq(Nat) /\ \A k \in 1..Len(open[s]) : open[s][k] \in 1..Len(tape)
    BY <2>1 DEF OfWindow, Bucket
  <2>3. Len(open[s]) \in Nat /\ DOMAIN open[s] = 1..Len(open[s])
    BY <2>2
  <2>4. Places(open[s]) \in SUBSET (1..Len(tape))
    BY <2>2 DEF Places
  <2>. QED
    BY <2>1, <2>3, <2>4
<1>2. CASE s \notin DOMAIN open
  <2>1. Held(s) = <<>>
    BY <1>2 DEF Held
  <2>2. Len(Held(s)) = 0 /\ DOMAIN Held(s) = 1..Len(Held(s))
    BY <2>1
  <2>3. Places(Held(s)) \in SUBSET (1..Len(tape))
    BY <2>2 DEF Places
  <2>. QED
    BY <2>2, <2>3
<1>. QED
  BY <1>1, <1>2

(* What aggregate, Tick and Handle do, in either setting.                  *)
LEMMA NarrowRow ==
    ASSUME VenueInv, NEW q, Len(q) \in Nat, DOMAIN q = 1..Len(q),
           Places(q) \in SUBSET (1..Len(tape)), NEW r \in R!aggregate(q)
    PROVE  RowOf(r, tape, q, Narrow.sweepWindow, Narrow.minSweepTrades)
<1>. DEFINE T == Places(q)
            c == Cardinality(T)
            sw == Narrow.sweepWindow
            m == Narrow.minSweepTrades
<1>1. R!ToSet(q) = T /\ Len(tape) \in Nat /\ R!Cardinality(T) = c
  BY SameSets DEF R!ToSet, Places, VenueInv
<1>2. PICK s \in R!sortings(q) :
        r = [count |-> Len(q), buyVol |-> R!volume(q, {"BUY"}), sellVol |-> R!volume(q, {"SELL"}),
             maxSz |-> R!Max({0} \cup {tape[i].sz : i \in R!ToSet(q)}),
             notional |-> R!turnover(q), volume |-> R!volume(q, {"BUY", "SELL", "UNKNOWN"}),
             sweeps |-> R!countSweeps(s)]
  BY Zenon DEF R!aggregate
<1>3. \A D : R!volume(q, D) = VolumeOf(tape, q, D)
  <2>. SUFFICES ASSUME NEW D PROVE R!volume(q, D) = VolumeOf(tape, q, D)
    OBVIOUS
  <2>. DEFINE f == [k \in DOMAIN q |-> IF tape[q[k]].side \in D THEN tape[q[k]].sz ELSE 0]
  <2>1. R!volume(q, D) = R!sum(f) /\ VolumeOf(tape, q, D) = SumOf(f)
    BY Zenon DEF R!volume, VolumeOf
  <2>. QED
    BY <2>1, SameSum
<1>4. R!turnover(q) = TurnoverOf(tape, q)
  <2>. DEFINE f == [k \in DOMAIN q |-> tape[q[k]].px * tape[q[k]].sz]
  <2>1. R!turnover(q) = R!sum(f) /\ TurnoverOf(tape, q) = SumOf(f)
    BY Zenon DEF R!turnover, TurnoverOf
  <2>. QED
    BY <2>1, SameSum
<1>5. R!countSweeps(s) = SweepsOf([i \in DOMAIN s |-> Continues(tape, sw, s, i)], m)
  <2>1. \A i : R!continues(s, i) <=> Continues(tape, sw, s, i)
    BY Zenon DEF R!continues, Continues
  <2>2. \A i : R!continues(s, i) \in BOOLEAN /\ Continues(tape, sw, s, i) \in BOOLEAN
    BY Zenon DEF R!continues, Continues
  <2>. DEFINE d == [i \in DOMAIN s |-> R!continues(s, i)]
              e == [i \in DOMAIN s |-> Continues(tape, sw, s, i)]
  <2>3. d = e
    BY <2>1, <2>2
  <2>4. R!countSweeps(s) = R!sweepsIn(d)
    BY DEF R!countSweeps
  <2>. HIDE DEF d, e
  <2>5. R!sweepsIn(e) = SweepsOf(e, m)
    BY SameSweeps
  <2>6. R!countSweeps(s) = SweepsOf(e, m)
    BY <2>3, <2>4, <2>5
  <2>. QED
    BY <2>6 DEF e
<1>6. Lists(s, c, T) /\ InTime(tape, s, c)
  <2>1. /\ s \in R!SetToSeqs(T)
        /\ \A i, j \in DOMAIN s : i < j => tape[s[i]].at <= tape[s[j]].at
    BY <1>1, <1>2 DEF R!sortings
  <2>2. s \in [1..c -> T] /\ \A i, j \in 1..c : i # j => s[i] # s[j]
    BY <1>1, <2>1 DEF R!SetToSeqs
  <2>. HIDE DEF c, T
  <2>3. DOMAIN s = 1..c
    BY <2>2
  <2>4. Lists(s, c, T)
    BY <1>1, <2>2, OrderingLists DEF c, T
  <2>. QED
    BY <2>1, <2>3, <2>4 DEF InTime
<1>7. /\ r.count = Len(q) /\ r.volume = VolumeOf(tape, q, Sides)
      /\ r.buyVol = VolumeOf(tape, q, {"BUY"}) /\ r.sellVol = VolumeOf(tape, q, {"SELL"})
      /\ r.notional = TurnoverOf(tape, q) /\ r.sweeps = R!countSweeps(s)
  BY <1>2, <1>3, <1>4 DEF Sides
<1>8. \E o : /\ Lists(o, c, T) /\ InTime(tape, o, c)
             /\ r.sweeps = SweepsOf([i \in DOMAIN o |-> Continues(tape, sw, o, i)], m)
  BY <1>5, <1>6, <1>7, Zenon
<1>. QED
  BY <1>7, <1>8 DEF RowOf

LEMMA NarrowRows ==
    ASSUME NEW w, VenueInv, \A s \in DOMAIN open : OfWindow(w, s), R!Tick, NEW s \in DOMAIN rows'
    PROVE  IF s \in Closing(Narrow.Interval, Narrow.lateGrace)
             THEN RowOf(rows'[s], tape, Held(s), Narrow.sweepWindow, Narrow.minSweepTrades)
             ELSE rows'[s] = rows[s]
<1>1. R!due = Closing(Narrow.Interval, Narrow.lateGrace)
  BY DEF R!due, R!elapsed, R!None, Closing
<1>2. PICK written :
        /\ \A x \in R!due : written[x] \in R!aggregate(R!bucket(x))
        /\ rows' = [x \in DOMAIN rows \cup R!due |-> IF x \in R!due THEN written[x] ELSE rows[x]]
  BY Zenon DEF R!Tick
<1>3. s \in DOMAIN rows \cup R!due /\ rows'[s] = IF s \in R!due THEN written[s] ELSE rows[s]
  BY <1>2
<1>4. CASE s \in R!due
  <2>1. R!bucket(s) = Held(s)
    BY DEF R!bucket, Held
  <2>2. rows'[s] \in R!aggregate(Held(s))
    BY <1>2, <1>3, <1>4, <2>1
  <2>3. RowOf(rows'[s], tape, Held(s), Narrow.sweepWindow, Narrow.minSweepTrades)
    BY <2>2, HeldIs, NarrowRow
  <2>. QED
    BY <1>1, <1>4, <2>3
<1>5. CASE s \notin R!due
  BY <1>1, <1>3, <1>5
<1>. QED
  BY <1>4, <1>5

LEMMA NarrowOpen ==
    ASSUME VenueInv, \A s \in DOMAIN open : open[s] \in Seq(Nat), R!Receive,
           \A i \in Head(twire) : i \in 1..Len(tape)
    PROVE  LET w == Narrow.Interval
               g == Narrow.lateGrace
           IN  /\ \A s \in DOMAIN open \ Closing(w, g) : s \in DOMAIN open'
               /\ \A i \in Head(twire) :
                     Trunc(w, tape[i].at) >= next' => Trunc(w, tape[i].at) \in DOMAIN open'
               /\ \A s \in DOMAIN open' :
                     \E new \in Seq(Nat) :
                         Lists(new, Len(new), Fresh(w, g, s)) /\ open'[s] = Kept(w, g, s) \o new
<1>. DEFINE w == Narrow.Interval
            g == Narrow.lateGrace
            f == Head(twire)
            D == DOMAIN open \ R!due
            kept == [s \in D |-> open[s]]
            starts == {R!truncate(tape[i].at) : i \in {j \in f : R!truncate(tape[j].at) >= R!nextAfterTick}}
            was(s) == IF s \in DOMAIN kept THEN kept[s] ELSE <<>>
            X(s) == {i \in f : R!truncate(tape[i].at) = s /\ R!admitted(was(s), i)}
            new(s) == R!Reverse(R!ascending(X(s)))
<1>1. R!due = Closing(w, g)
  BY DEF R!due, R!elapsed, R!None, Closing
<1>2. next' = R!nextAfterTick
  BY DEF R!Receive, R!Tick
<1>3. open' = [s \in DOMAIN kept \cup starts |-> was(s) \o new(s)]
  BY Zenon DEF R!Receive, R!Handle
<1>4. \A t : R!truncate(t) = Trunc(w, t)
  BY DEF R!truncate, Trunc
<1>5. DOMAIN kept = D /\ \A s \in D : kept[s] = open[s]
  OBVIOUS
<1>6. \A s : was(s) = Kept(w, g, s)
  BY <1>1, <1>5 DEF Kept
<1>. HIDE DEF kept
<1>7. \A s : X(s) = Fresh(w, g, s)
  <2>. SUFFICES ASSUME NEW s PROVE X(s) = Fresh(w, g, s)
    OBVIOUS
  <2>1. was(s) = Kept(w, g, s)
    BY <1>6
  <2>. HIDE DEF was
  <2>2. \A i : Trunc(w, tape[i].at) = s =>
            (R!admitted(was(s), i) <=>
               tape[i].side # "OTHER" /\ s >= next' /\ i \notin Places(Kept(w, g, s)))
    <3>1. R!ToSet(Kept(w, g, s)) = Places(Kept(w, g, s))
      <4>1. DOMAIN Kept(w, g, s) = 1..Len(Kept(w, g, s))
        BY DEF Kept
      <4>. QED
        BY <4>1 DEF R!ToSet, Places
    <3>. QED
      BY <1>2, <1>4, <2>1, <3>1 DEF R!admitted
  <2>. QED
    BY <1>4, <2>2 DEF Fresh
<1>. HIDE DEF was
<1>8. \A s : new(s) \in Seq(Nat) /\ Lists(new(s), Len(new(s)), Fresh(w, g, s))
  <2>. SUFFICES ASSUME NEW s PROVE new(s) \in Seq(Nat) /\ Lists(new(s), Len(new(s)), Fresh(w, g, s))
    OBVIOUS
  <2>. DEFINE T == Fresh(w, g, s)
              a == R!ascending(T)
              z == R!Reverse(a)
  <2>1. T \in SUBSET (1..Len(tape)) /\ Len(tape) \in Nat
    BY DEF Fresh, VenueInv
  <2>. HIDE DEF T
  <2>2. Enumerates(a, T)
    BY <2>1, AscendingIs
  <2>. HIDE DEF a
  <2>3. z = [i \in 1..Len(a) |-> a[(Len(a) - i) + 1]]
    BY DEF R!Reverse
  <2>. HIDE DEF z
  <2>4. z \in Seq(Nat) /\ Lists(z, Len(z), T)
    BY <2>1, <2>2, <2>3, ReverseLists
  <2>5. new(s) = z
    BY <1>7 DEF T, a, z
  <2>. HIDE DEF new
  <2>. QED
    BY <2>4, <2>5 DEF T
<1>. HIDE DEF new
<1>9. DOMAIN open' = D \cup starts /\ \A s \in DOMAIN open' : open'[s] = was(s) \o new(s)
  BY <1>3, <1>5
<1>10. \A s \in D : s \in DOMAIN open'
  BY <1>9
<1>11. \A i \in f : Trunc(w, tape[i].at) >= next' => Trunc(w, tape[i].at) \in DOMAIN open'
  BY <1>2, <1>4, <1>9
<1>12. \A s \in DOMAIN open' :
          \E z \in Seq(Nat) : Lists(z, Len(z), Fresh(w, g, s)) /\ open'[s] = Kept(w, g, s) \o z
  BY <1>6, <1>8, <1>9
<1>. QED
  BY <1>1, <1>10, <1>11, <1>12

LEMMA WideRow ==
    ASSUME VenueInv, NEW q, Len(q) \in Nat, DOMAIN q = 1..Len(q),
           Places(q) \in SUBSET (1..Len(tape)), NEW r \in B!aggregate(q)
    PROVE  RowOf(r, tape, q, Wide.sweepWindow, Wide.minSweepTrades)
<1>. DEFINE T == Places(q)
            c == Cardinality(T)
            sw == Wide.sweepWindow
            m == Wide.minSweepTrades
<1>1. B!ToSet(q) = T /\ Len(tape) \in Nat /\ B!Cardinality(T) = c
  BY SameSets DEF B!ToSet, Places, VenueInv
<1>2. PICK s \in B!sortings(q) :
        r = [count |-> Len(q), buyVol |-> B!volume(q, {"BUY"}), sellVol |-> B!volume(q, {"SELL"}),
             maxSz |-> B!Max({0} \cup {tape[i].sz : i \in B!ToSet(q)}),
             notional |-> B!turnover(q), volume |-> B!volume(q, {"BUY", "SELL", "UNKNOWN"}),
             sweeps |-> B!countSweeps(s)]
  BY Zenon DEF B!aggregate
<1>3. \A D : B!volume(q, D) = VolumeOf(tape, q, D)
  <2>. SUFFICES ASSUME NEW D PROVE B!volume(q, D) = VolumeOf(tape, q, D)
    OBVIOUS
  <2>. DEFINE f == [k \in DOMAIN q |-> IF tape[q[k]].side \in D THEN tape[q[k]].sz ELSE 0]
  <2>1. B!volume(q, D) = B!sum(f) /\ VolumeOf(tape, q, D) = SumOf(f)
    BY Zenon DEF B!volume, VolumeOf
  <2>. QED
    BY <2>1, SameSum
<1>4. B!turnover(q) = TurnoverOf(tape, q)
  <2>. DEFINE f == [k \in DOMAIN q |-> tape[q[k]].px * tape[q[k]].sz]
  <2>1. B!turnover(q) = B!sum(f) /\ TurnoverOf(tape, q) = SumOf(f)
    BY Zenon DEF B!turnover, TurnoverOf
  <2>. QED
    BY <2>1, SameSum
<1>5. B!countSweeps(s) = SweepsOf([i \in DOMAIN s |-> Continues(tape, sw, s, i)], m)
  <2>1. \A i : B!continues(s, i) <=> Continues(tape, sw, s, i)
    BY Zenon DEF B!continues, Continues
  <2>2. \A i : B!continues(s, i) \in BOOLEAN /\ Continues(tape, sw, s, i) \in BOOLEAN
    BY Zenon DEF B!continues, Continues
  <2>. DEFINE d == [i \in DOMAIN s |-> B!continues(s, i)]
              e == [i \in DOMAIN s |-> Continues(tape, sw, s, i)]
  <2>3. d = e
    BY <2>1, <2>2
  <2>4. B!countSweeps(s) = B!sweepsIn(d)
    BY DEF B!countSweeps
  <2>. HIDE DEF d, e
  <2>5. B!sweepsIn(e) = SweepsOf(e, m)
    BY SameSweeps
  <2>6. B!countSweeps(s) = SweepsOf(e, m)
    BY <2>3, <2>4, <2>5
  <2>. QED
    BY <2>6 DEF e
<1>6. Lists(s, c, T) /\ InTime(tape, s, c)
  <2>1. /\ s \in B!SetToSeqs(T)
        /\ \A i, j \in DOMAIN s : i < j => tape[s[i]].at <= tape[s[j]].at
    BY <1>1, <1>2 DEF B!sortings
  <2>2. s \in [1..c -> T] /\ \A i, j \in 1..c : i # j => s[i] # s[j]
    BY <1>1, <2>1 DEF B!SetToSeqs
  <2>. HIDE DEF c, T
  <2>3. DOMAIN s = 1..c
    BY <2>2
  <2>4. Lists(s, c, T)
    BY <1>1, <2>2, OrderingLists DEF c, T
  <2>. QED
    BY <2>1, <2>3, <2>4 DEF InTime
<1>7. /\ r.count = Len(q) /\ r.volume = VolumeOf(tape, q, Sides)
      /\ r.buyVol = VolumeOf(tape, q, {"BUY"}) /\ r.sellVol = VolumeOf(tape, q, {"SELL"})
      /\ r.notional = TurnoverOf(tape, q) /\ r.sweeps = B!countSweeps(s)
  BY <1>2, <1>3, <1>4 DEF Sides
<1>8. \E o : /\ Lists(o, c, T) /\ InTime(tape, o, c)
             /\ r.sweeps = SweepsOf([i \in DOMAIN o |-> Continues(tape, sw, o, i)], m)
  BY <1>5, <1>6, <1>7, Zenon
<1>. QED
  BY <1>7, <1>8 DEF RowOf

LEMMA WideRows ==
    ASSUME NEW w, VenueInv, \A s \in DOMAIN open : OfWindow(w, s), B!Tick, NEW s \in DOMAIN rows'
    PROVE  IF s \in Closing(Wide.Interval, Wide.lateGrace)
             THEN RowOf(rows'[s], tape, Held(s), Wide.sweepWindow, Wide.minSweepTrades)
             ELSE rows'[s] = rows[s]
<1>1. B!due = Closing(Wide.Interval, Wide.lateGrace)
  BY DEF B!due, B!elapsed, B!None, Closing
<1>2. PICK written :
        /\ \A x \in B!due : written[x] \in B!aggregate(B!bucket(x))
        /\ rows' = [x \in DOMAIN rows \cup B!due |-> IF x \in B!due THEN written[x] ELSE rows[x]]
  BY Zenon DEF B!Tick
<1>3. s \in DOMAIN rows \cup B!due /\ rows'[s] = IF s \in B!due THEN written[s] ELSE rows[s]
  BY <1>2
<1>4. CASE s \in B!due
  <2>1. B!bucket(s) = Held(s)
    BY DEF B!bucket, Held
  <2>2. rows'[s] \in B!aggregate(Held(s))
    BY <1>2, <1>3, <1>4, <2>1
  <2>3. RowOf(rows'[s], tape, Held(s), Wide.sweepWindow, Wide.minSweepTrades)
    BY <2>2, HeldIs, WideRow
  <2>. QED
    BY <1>1, <1>4, <2>3
<1>5. CASE s \notin B!due
  BY <1>1, <1>3, <1>5
<1>. QED
  BY <1>4, <1>5

LEMMA WideOpen ==
    ASSUME VenueInv, \A s \in DOMAIN open : open[s] \in Seq(Nat), B!Receive,
           \A i \in Head(twire) : i \in 1..Len(tape)
    PROVE  LET w == Wide.Interval
               g == Wide.lateGrace
           IN  /\ \A s \in DOMAIN open \ Closing(w, g) : s \in DOMAIN open'
               /\ \A i \in Head(twire) :
                     Trunc(w, tape[i].at) >= next' => Trunc(w, tape[i].at) \in DOMAIN open'
               /\ \A s \in DOMAIN open' :
                     \E new \in Seq(Nat) :
                         Lists(new, Len(new), Fresh(w, g, s)) /\ open'[s] = Kept(w, g, s) \o new
<1>. DEFINE w == Wide.Interval
            g == Wide.lateGrace
            f == Head(twire)
            D == DOMAIN open \ B!due
            kept == [s \in D |-> open[s]]
            starts == {B!truncate(tape[i].at) : i \in {j \in f : B!truncate(tape[j].at) >= B!nextAfterTick}}
            was(s) == IF s \in DOMAIN kept THEN kept[s] ELSE <<>>
            X(s) == {i \in f : B!truncate(tape[i].at) = s /\ B!admitted(was(s), i)}
            new(s) == B!Reverse(B!ascending(X(s)))
<1>1. B!due = Closing(w, g)
  BY DEF B!due, B!elapsed, B!None, Closing
<1>2. next' = B!nextAfterTick
  BY DEF B!Receive, B!Tick
<1>3. open' = [s \in DOMAIN kept \cup starts |-> was(s) \o new(s)]
  BY Zenon DEF B!Receive, B!Handle
<1>4. \A t : B!truncate(t) = Trunc(w, t)
  BY DEF B!truncate, Trunc
<1>5. DOMAIN kept = D /\ \A s \in D : kept[s] = open[s]
  OBVIOUS
<1>6. \A s : was(s) = Kept(w, g, s)
  BY <1>1, <1>5 DEF Kept
<1>. HIDE DEF kept
<1>7. \A s : X(s) = Fresh(w, g, s)
  <2>. SUFFICES ASSUME NEW s PROVE X(s) = Fresh(w, g, s)
    OBVIOUS
  <2>1. was(s) = Kept(w, g, s)
    BY <1>6
  <2>. HIDE DEF was
  <2>2. \A i : Trunc(w, tape[i].at) = s =>
            (B!admitted(was(s), i) <=>
               tape[i].side # "OTHER" /\ s >= next' /\ i \notin Places(Kept(w, g, s)))
    <3>1. B!ToSet(Kept(w, g, s)) = Places(Kept(w, g, s))
      <4>1. DOMAIN Kept(w, g, s) = 1..Len(Kept(w, g, s))
        BY DEF Kept
      <4>. QED
        BY <4>1 DEF B!ToSet, Places
    <3>. QED
      BY <1>2, <1>4, <2>1, <3>1 DEF B!admitted
  <2>. QED
    BY <1>4, <2>2 DEF Fresh
<1>. HIDE DEF was
<1>8. \A s : new(s) \in Seq(Nat) /\ Lists(new(s), Len(new(s)), Fresh(w, g, s))
  <2>. SUFFICES ASSUME NEW s PROVE new(s) \in Seq(Nat) /\ Lists(new(s), Len(new(s)), Fresh(w, g, s))
    OBVIOUS
  <2>. DEFINE T == Fresh(w, g, s)
              a == B!ascending(T)
              z == B!Reverse(a)
  <2>1. T \in SUBSET (1..Len(tape)) /\ Len(tape) \in Nat
    BY DEF Fresh, VenueInv
  <2>. HIDE DEF T
  <2>2. Enumerates(a, T)
    BY <2>1, AscendingIs, SameSets
  <2>. HIDE DEF a
  <2>3. z = [i \in 1..Len(a) |-> a[(Len(a) - i) + 1]]
    BY DEF B!Reverse
  <2>. HIDE DEF z
  <2>4. z \in Seq(Nat) /\ Lists(z, Len(z), T)
    BY <2>1, <2>2, <2>3, ReverseLists
  <2>5. new(s) = z
    BY <1>7 DEF T, a, z
  <2>. HIDE DEF new
  <2>. QED
    BY <2>4, <2>5 DEF T
<1>. HIDE DEF new
<1>9. DOMAIN open' = D \cup starts /\ \A s \in DOMAIN open' : open'[s] = was(s) \o new(s)
  BY <1>3, <1>5
<1>10. \A s \in D : s \in DOMAIN open'
  BY <1>9
<1>11. \A i \in f : Trunc(w, tape[i].at) >= next' => Trunc(w, tape[i].at) \in DOMAIN open'
  BY <1>2, <1>4, <1>9
<1>12. \A s \in DOMAIN open' :
          \E z \in Seq(Nat) : Lists(z, Len(z), Fresh(w, g, s)) /\ open'[s] = Kept(w, g, s) \o z
  BY <1>6, <1>8, <1>9
<1>. QED
  BY <1>1, <1>10, <1>11, <1>12

-----------------------------------------------------------------------------
(* The actions of the two settings, and what their rows say.               *)

LEMMA NarrowFiles ==
    ASSUME VenueInv, NEW v, \A s \in DOMAIN open : OfWindow(v, s), R!Next
    PROVE  \/ TradeFiles \/ SendFiles \/ DropFiles \/ ConnectFiles \/ ClockFiles(Narrow.Lag)
           \/ ReceiveFiles(Narrow.Interval, Narrow.lateGrace, Narrow.sweepWindow, Narrow.minSweepTrades)
<1>1. R!Trade => TradeFiles
  <2>1. R!Trade => TradeOf
    BY DEF R!Trade, R!conn, R!product, R!outcome, TradeOf, Made
  <2>. QED
    BY <2>1 DEF R!Trade, R!conn, R!product, R!outcome, TradeFiles, StillFiled
<1>2. R!Send => SendFiles
  <2>1. R!Send => SendOf
    BY DEF R!Send, R!market, R!product, R!outcome, SendOf
  <2>. QED
    BY <2>1 DEF R!Send, R!market, R!product, R!outcome, SendFiles, StillFiled
<1>3. R!Drop => DropFiles
  <2>1. R!Drop => DropOf
    BY DEF R!Drop, R!market, R!product, R!outcome, DropOf
  <2>. QED
    BY <2>1 DEF R!Drop, R!market, R!product, R!outcome, DropFiles, StillFiled
<1>4. R!Connect => ConnectFiles
  <2>1. R!Connect => ConnectOf
    BY DEF R!Connect, R!reset, R!None, R!market, R!outcome, ConnectOf
  <2>. QED
    BY <2>1 DEF R!Connect, R!reset, R!None, R!empty, R!market, R!outcome, ConnectFiles
<1>5. ASSUME R!Receive
      PROVE  ReceiveFiles(Narrow.Interval, Narrow.lateGrace, Narrow.sweepWindow, Narrow.minSweepTrades)
  <2>1. /\ up /\ up' = up /\ twire # <<>> /\ twire' = Tail(twire)
        /\ sent' = sent /\ tape' = tape /\ tnow' = tnow
        /\ handled' = R!Max({handled} \cup Head(twire))
    BY <1>5 DEF R!Receive, R!market
  <2>2. handled' = C!Max({handled} \cup Head(twire))
    BY <2>1, SameMax
  <2>3. R!Tick
    BY <1>5 DEF R!Receive
  <2>4. TickOf(Narrow.Interval, Narrow.lateGrace)
    BY <2>3, NarrowTick
  <2>5. \A i \in Head(twire) : i \in 1..Len(tape)
    <3>1. twire \in Seq(SUBSET Nat) /\ sent \in 0..Len(tape) /\ Len(tape) \in Nat
          /\ \A n \in 1..Len(twire) : twire[n] \subseteq 1..sent
      BY DEF VenueInv
    <3>2. Head(twire) = twire[1] /\ 1 \in 1..Len(twire)
      BY <2>1, <3>1, TailIs
    <3>3. Head(twire) \subseteq 1..sent
      BY <3>1, <3>2
    <3>. QED
      BY <3>1, <3>3
  <2>6. \A s \in DOMAIN open : open[s] \in Seq(Nat)
    BY DEF OfWindow
  <2>7. \A s \in DOMAIN rows' :
           IF s \in Closing(Narrow.Interval, Narrow.lateGrace)
             THEN RowOf(rows'[s], tape, Held(s), Narrow.sweepWindow, Narrow.minSweepTrades)
             ELSE rows'[s] = rows[s]
    BY <2>3, NarrowRows
  <2>8. /\ \A s \in DOMAIN open \ Closing(Narrow.Interval, Narrow.lateGrace) : s \in DOMAIN open'
        /\ \A i \in Head(twire) :
              Trunc(Narrow.Interval, tape[i].at) >= next'
                  => Trunc(Narrow.Interval, tape[i].at) \in DOMAIN open'
        /\ \A s \in DOMAIN open' :
              \E new \in Seq(Nat) :
                  /\ Lists(new, Len(new), Fresh(Narrow.Interval, Narrow.lateGrace, s))
                  /\ open'[s] = Kept(Narrow.Interval, Narrow.lateGrace, s) \o new
    BY <1>5, <2>5, <2>6, NarrowOpen
  <2>. QED
    BY <2>1, <2>2, <2>4, <2>7, <2>8, Zenon DEF ReceiveFiles
<1>6. R!AdvanceClock => ClockFiles(Narrow.Lag)
  <2>. SUFFICES ASSUME R!AdvanceClock PROVE ClockFiles(Narrow.Lag)
    OBVIOUS
  <2>1. ClockOf
    BY DEF R!AdvanceClock, R!conn, R!product, R!outcome, ClockOf
  <2>2. DOMAIN tape = 1..Len(tape)
    BY DEF VenueInv
  <2>3. up => \A i \in 1..Len(tape) : i > handled => tnow < tape[i].at + Narrow.Lag
    BY <2>2 DEF R!AdvanceClock, R!outstanding
  <2>4. up' = up /\ handled' = handled /\ StillFiled
    BY DEF R!AdvanceClock, R!conn, R!product, R!outcome, StillFiled
  <2>. QED
    BY <2>1, <2>3, <2>4 DEF ClockFiles
<1>. QED
  BY <1>1, <1>2, <1>3, <1>4, <1>5, <1>6 DEF R!Next

LEMMA NarrowWhole ==
    ASSUME VenueInv, Written(Narrow.Interval, Narrow.sweepWindow, Narrow.minSweepTrades)
    PROVE  R!RowIsWhole /\ R!SweepsAreBursts
<1>. DEFINE sw == Narrow.sweepWindow
            m == Narrow.minSweepTrades
<1>1. \A s : R!InBucket(s) = Bucket(Narrow.Interval, s)
  <2>1. DOMAIN tape = 1..Len(tape)
    BY DEF VenueInv
  <2>. QED
    BY <2>1 DEF R!InBucket, Bucket, R!truncate, Trunc
<1>2. ASSUME NEW s \in DOMAIN rows
      PROVE  LET T == Bucket(Narrow.Interval, s) IN
             /\ rows[s].count = Cardinality(T)
             /\ rows[s].volume = SizeOf(tape, R!ascending(T))
             /\ rows[s].notional = TurnoverOf(tape, R!ascending(T))
             /\ rows[s].volume >= rows[s].buyVol + rows[s].sellVol
             /\ AtOnceAtMost(tape, T) =>
                   rows[s].sweeps = Cardinality(BurstsOf(tape, sw, m, R!ascending(T)))
  BY Zenon DEF Written, WholeRow
<1>3. \A q : SizeOf(tape, q) = R!sum([k \in DOMAIN q |-> tape[q[k]].sz]) /\ TurnoverOf(tape, q) = R!turnover(q)
  <2>. SUFFICES ASSUME NEW q
                PROVE  /\ SizeOf(tape, q) = R!sum([k \in DOMAIN q |-> tape[q[k]].sz])
                       /\ TurnoverOf(tape, q) = R!turnover(q)
    OBVIOUS
  <2>. DEFINE f == [k \in DOMAIN q |-> tape[q[k]].px * tape[q[k]].sz]
              h == [k \in DOMAIN q |-> tape[q[k]].sz]
  <2>1. /\ TurnoverOf(tape, q) = SumOf(f) /\ R!turnover(q) = R!sum(f)
        /\ SizeOf(tape, q) = SumOf(h)
    BY Zenon DEF TurnoverOf, R!turnover, SizeOf
  <2>2. SumOf(f) = R!sum(f) /\ SumOf(h) = R!sum(h)
    BY SameSum
  <2>. QED
    BY <2>1, <2>2, Zenon
<1>4. \A T : R!Bursts(T) = BurstsOf(tape, sw, m, R!ascending(T)) /\ R!Cardinality(T) = Cardinality(T)
  <2>1. \A q, i : R!continues(q, i) <=> Continues(tape, sw, q, i)
    BY Zenon DEF R!continues, Continues
  <2>. SUFFICES ASSUME NEW T
                PROVE  R!Bursts(T) = BurstsOf(tape, sw, m, R!ascending(T))
    BY SameSets
  <2>. DEFINE q == R!ascending(T)
  <2>2. R!Bursts(T) = {i \in DOMAIN q :
                         /\ ~R!continues(q, i) /\ i + m - 1 <= Len(q)
                         /\ \A k \in 1..(m - 1) : R!continues(q, i + k)}
    BY DEF R!Bursts
  <2>. HIDE DEF q
  <2>3. R!Bursts(T) = BurstsOf(tape, sw, m, q)
    BY <2>1, <2>2, Zenon DEF BurstsOf
  <2>. QED
    BY <2>3 DEF q
<1>5. R!RowIsWhole
  <2>1. ASSUME NEW s \in DOMAIN rows
        PROVE  LET trades == R!ascending(R!InBucket(s)) IN
               /\ rows[s].count = R!Cardinality(R!InBucket(s))
               /\ rows[s].volume = R!sum([k \in DOMAIN trades |-> tape[trades[k]].sz])
               /\ rows[s].notional = R!turnover(trades)
               /\ rows[s].volume >= rows[s].buyVol + rows[s].sellVol
    <3>1. R!Cardinality(R!InBucket(s)) = Cardinality(Bucket(Narrow.Interval, s))
          /\ R!ascending(R!InBucket(s)) = R!ascending(Bucket(Narrow.Interval, s))
      BY <1>1, <1>4
    <3>. QED
      BY <1>2, <1>3, <3>1, Zenon
  <2>. QED
    BY <2>1, Zenon DEF R!RowIsWhole
<1>6. R!SweepsAreBursts
  <2>1. ASSUME NEW s \in DOMAIN rows, \A i, j \in R!InBucket(s) : tape[i].at = tape[j].at => i = j
        PROVE  rows[s].sweeps = R!Cardinality(R!Bursts(R!InBucket(s)))
    <3>1. AtOnceAtMost(tape, Bucket(Narrow.Interval, s))
      BY <1>1, <2>1 DEF AtOnceAtMost
    <3>2. R!Bursts(R!InBucket(s)) = BurstsOf(tape, sw, m, R!ascending(Bucket(Narrow.Interval, s)))
      BY <1>1, <1>4
    <3>3. rows[s].sweeps = Cardinality(BurstsOf(tape, sw, m, R!ascending(Bucket(Narrow.Interval, s))))
      BY <1>2, <3>1, Zenon
    <3>. QED
      BY <1>4, <3>2, <3>3, Zenon
  <2>. QED
    BY <2>1, Zenon DEF R!SweepsAreBursts
<1>. QED
  BY <1>5, <1>6

LEMMA WideFiles ==
    ASSUME VenueInv, NEW v, \A s \in DOMAIN open : OfWindow(v, s), B!Next
    PROVE  \/ TradeFiles \/ SendFiles \/ DropFiles \/ ConnectFiles \/ ClockFiles(Wide.Lag)
           \/ ReceiveFiles(Wide.Interval, Wide.lateGrace, Wide.sweepWindow, Wide.minSweepTrades)
<1>1. B!Trade => TradeFiles
  <2>1. B!Trade => TradeOf
    BY DEF B!Trade, B!conn, B!product, B!outcome, TradeOf, Made
  <2>. QED
    BY <2>1 DEF B!Trade, B!conn, B!product, B!outcome, TradeFiles, StillFiled
<1>2. B!Send => SendFiles
  <2>1. B!Send => SendOf
    BY DEF B!Send, B!market, B!product, B!outcome, SendOf
  <2>. QED
    BY <2>1 DEF B!Send, B!market, B!product, B!outcome, SendFiles, StillFiled
<1>3. B!Drop => DropFiles
  <2>1. B!Drop => DropOf
    BY DEF B!Drop, B!market, B!product, B!outcome, DropOf
  <2>. QED
    BY <2>1 DEF B!Drop, B!market, B!product, B!outcome, DropFiles, StillFiled
<1>4. B!Connect => ConnectFiles
  <2>1. B!Connect => ConnectOf
    BY DEF B!Connect, B!reset, B!None, B!market, B!outcome, ConnectOf
  <2>. QED
    BY <2>1 DEF B!Connect, B!reset, B!None, B!empty, B!market, B!outcome, ConnectFiles
<1>5. ASSUME B!Receive
      PROVE  ReceiveFiles(Wide.Interval, Wide.lateGrace, Wide.sweepWindow, Wide.minSweepTrades)
  <2>1. /\ up /\ up' = up /\ twire # <<>> /\ twire' = Tail(twire)
        /\ sent' = sent /\ tape' = tape /\ tnow' = tnow
        /\ handled' = B!Max({handled} \cup Head(twire))
    BY <1>5 DEF B!Receive, B!market
  <2>2. handled' = C!Max({handled} \cup Head(twire))
    BY <2>1, SameMax
  <2>3. B!Tick
    BY <1>5 DEF B!Receive
  <2>4. TickOf(Wide.Interval, Wide.lateGrace)
    BY <2>3, WideTick
  <2>5. \A i \in Head(twire) : i \in 1..Len(tape)
    <3>1. twire \in Seq(SUBSET Nat) /\ sent \in 0..Len(tape) /\ Len(tape) \in Nat
          /\ \A n \in 1..Len(twire) : twire[n] \subseteq 1..sent
      BY DEF VenueInv
    <3>2. Head(twire) = twire[1] /\ 1 \in 1..Len(twire)
      BY <2>1, <3>1, TailIs
    <3>3. Head(twire) \subseteq 1..sent
      BY <3>1, <3>2
    <3>. QED
      BY <3>1, <3>3
  <2>6. \A s \in DOMAIN open : open[s] \in Seq(Nat)
    BY DEF OfWindow
  <2>7. \A s \in DOMAIN rows' :
           IF s \in Closing(Wide.Interval, Wide.lateGrace)
             THEN RowOf(rows'[s], tape, Held(s), Wide.sweepWindow, Wide.minSweepTrades)
             ELSE rows'[s] = rows[s]
    BY <2>3, WideRows
  <2>8. /\ \A s \in DOMAIN open \ Closing(Wide.Interval, Wide.lateGrace) : s \in DOMAIN open'
        /\ \A i \in Head(twire) :
              Trunc(Wide.Interval, tape[i].at) >= next'
                  => Trunc(Wide.Interval, tape[i].at) \in DOMAIN open'
        /\ \A s \in DOMAIN open' :
              \E new \in Seq(Nat) :
                  /\ Lists(new, Len(new), Fresh(Wide.Interval, Wide.lateGrace, s))
                  /\ open'[s] = Kept(Wide.Interval, Wide.lateGrace, s) \o new
    BY <1>5, <2>5, <2>6, WideOpen
  <2>. QED
    BY <2>1, <2>2, <2>4, <2>7, <2>8, Zenon DEF ReceiveFiles
<1>6. B!AdvanceClock => ClockFiles(Wide.Lag)
  <2>. SUFFICES ASSUME B!AdvanceClock PROVE ClockFiles(Wide.Lag)
    OBVIOUS
  <2>1. ClockOf
    BY DEF B!AdvanceClock, B!conn, B!product, B!outcome, ClockOf
  <2>2. DOMAIN tape = 1..Len(tape)
    BY DEF VenueInv
  <2>3. up => \A i \in 1..Len(tape) : i > handled => tnow < tape[i].at + Wide.Lag
    BY <2>2 DEF B!AdvanceClock, B!outstanding
  <2>4. up' = up /\ handled' = handled /\ StillFiled
    BY DEF B!AdvanceClock, B!conn, B!product, B!outcome, StillFiled
  <2>. QED
    BY <2>1, <2>3, <2>4 DEF ClockFiles
<1>. QED
  BY <1>1, <1>2, <1>3, <1>4, <1>5, <1>6 DEF B!Next

LEMMA WideWhole ==
    ASSUME VenueInv, Written(Wide.Interval, Wide.sweepWindow, Wide.minSweepTrades)
    PROVE  B!RowIsWhole /\ B!SweepsAreBursts
<1>. DEFINE sw == Wide.sweepWindow
            m == Wide.minSweepTrades
<1>1. \A s : B!InBucket(s) = Bucket(Wide.Interval, s)
  <2>1. DOMAIN tape = 1..Len(tape)
    BY DEF VenueInv
  <2>. QED
    BY <2>1 DEF B!InBucket, Bucket, B!truncate, Trunc
<1>2. ASSUME NEW s \in DOMAIN rows
      PROVE  LET T == Bucket(Wide.Interval, s) IN
             /\ rows[s].count = Cardinality(T)
             /\ rows[s].volume = SizeOf(tape, R!ascending(T))
             /\ rows[s].notional = TurnoverOf(tape, R!ascending(T))
             /\ rows[s].volume >= rows[s].buyVol + rows[s].sellVol
             /\ AtOnceAtMost(tape, T) =>
                   rows[s].sweeps = Cardinality(BurstsOf(tape, sw, m, R!ascending(T)))
  BY Zenon DEF Written, WholeRow
<1>3. \A q : SizeOf(tape, q) = B!sum([k \in DOMAIN q |-> tape[q[k]].sz]) /\ TurnoverOf(tape, q) = B!turnover(q)
  <2>. SUFFICES ASSUME NEW q
                PROVE  /\ SizeOf(tape, q) = B!sum([k \in DOMAIN q |-> tape[q[k]].sz])
                       /\ TurnoverOf(tape, q) = B!turnover(q)
    OBVIOUS
  <2>. DEFINE f == [k \in DOMAIN q |-> tape[q[k]].px * tape[q[k]].sz]
              h == [k \in DOMAIN q |-> tape[q[k]].sz]
  <2>1. /\ TurnoverOf(tape, q) = SumOf(f) /\ B!turnover(q) = B!sum(f)
        /\ SizeOf(tape, q) = SumOf(h)
    BY Zenon DEF TurnoverOf, B!turnover, SizeOf
  <2>2. SumOf(f) = B!sum(f) /\ SumOf(h) = B!sum(h)
    BY SameSum
  <2>. QED
    BY <2>1, <2>2, Zenon
<1>4. \A T : B!Bursts(T) = BurstsOf(tape, sw, m, R!ascending(T)) /\ B!Cardinality(T) = Cardinality(T)
  <2>1. \A q, i : B!continues(q, i) <=> Continues(tape, sw, q, i)
    BY Zenon DEF B!continues, Continues
  <2>. SUFFICES ASSUME NEW T
                PROVE  B!Bursts(T) = BurstsOf(tape, sw, m, R!ascending(T))
    BY SameSets
  <2>. DEFINE q == B!ascending(T)
  <2>2. B!Bursts(T) = {i \in DOMAIN q :
                         /\ ~B!continues(q, i) /\ i + m - 1 <= Len(q)
                         /\ \A k \in 1..(m - 1) : B!continues(q, i + k)}
    BY DEF B!Bursts
  <2>. HIDE DEF q
  <2>3. B!Bursts(T) = BurstsOf(tape, sw, m, q)
    BY <2>1, <2>2, Zenon DEF BurstsOf
  <2>. QED
    BY <2>3, SameSets DEF q
<1>5. B!RowIsWhole
  <2>1. ASSUME NEW s \in DOMAIN rows
        PROVE  LET trades == B!ascending(B!InBucket(s)) IN
               /\ rows[s].count = B!Cardinality(B!InBucket(s))
               /\ rows[s].volume = B!sum([k \in DOMAIN trades |-> tape[trades[k]].sz])
               /\ rows[s].notional = B!turnover(trades)
               /\ rows[s].volume >= rows[s].buyVol + rows[s].sellVol
    <3>1. B!Cardinality(B!InBucket(s)) = Cardinality(Bucket(Wide.Interval, s))
          /\ B!ascending(B!InBucket(s)) = R!ascending(Bucket(Wide.Interval, s))
      BY <1>1, <1>4, SameSets
    <3>. QED
      BY <1>2, <1>3, <3>1, Zenon
  <2>. QED
    BY <2>1, Zenon DEF B!RowIsWhole
<1>6. B!SweepsAreBursts
  <2>1. ASSUME NEW s \in DOMAIN rows, \A i, j \in B!InBucket(s) : tape[i].at = tape[j].at => i = j
        PROVE  rows[s].sweeps = B!Cardinality(B!Bursts(B!InBucket(s)))
    <3>1. AtOnceAtMost(tape, Bucket(Wide.Interval, s))
      BY <1>1, <2>1 DEF AtOnceAtMost
    <3>2. B!Bursts(B!InBucket(s)) = BurstsOf(tape, sw, m, R!ascending(Bucket(Wide.Interval, s)))
      BY <1>1, <1>4
    <3>3. rows[s].sweeps = Cardinality(BurstsOf(tape, sw, m, R!ascending(Bucket(Wide.Interval, s))))
      BY <1>2, <3>1, Zenon
    <3>. QED
      BY <1>4, <3>2, <3>3, Zenon
  <2>. QED
    BY <2>1, Zenon DEF B!SweepsAreBursts
<1>. QED
  BY <1>5, <1>6

-----------------------------------------------------------------------------
(* Rows are whole in either setting.                                       *)

Promptly == Narrow.Lag <= Narrow.lateGrace /\ Wide.Lag <= Wide.lateGrace

RowsInv ==
    /\ FiledInv(Setting.Interval, Setting.Lag)
    /\ Written(Setting.Interval, Setting.sweepWindow, Setting.minSweepTrades)

LEMMA RowsSettings ==
    /\ Narrow.Interval \in Nat \ {0} /\ Narrow.lateGrace \in Nat /\ Narrow.Lag \in Nat
    /\ Narrow.minSweepTrades \in Nat \ {0, 1}
    /\ Wide.Interval \in Nat \ {0} /\ Wide.lateGrace \in Nat /\ Wide.Lag \in Nat
    /\ Wide.minSweepTrades \in Nat \ {0, 1}
BY HandlersAssumption DEF R!TradesAssumption, B!TradesAssumption

LEMMA FiledStep ==
    ASSUME NEW w \in Nat \ {0}, NEW g \in Nat, NEW lag \in Nat, lag <= g,
           NEW sw, NEW m \in Nat \ {0, 1}, VenueInv, ToldInv(w),
           FiledInv(w, lag), Written(w, sw, m),
           TradeFiles \/ SendFiles \/ DropFiles \/ ConnectFiles \/ ClockFiles(lag)
              \/ ReceiveFiles(w, g, sw, m)
    PROVE  FiledInv(w, lag)' /\ Written(w, sw, m)'
<1>1. m \in Nat
  OBVIOUS
<1>. QED
  BY <1>1, TradeFiled, SendFiled, ConnectFiled, RestFiled, ReceiveFiled

LEMMA RowsInit == HandlersInit => RowsInv
<1>. SUFFICES ASSUME HandlersInit PROVE RowsInv
  OBVIOUS
<1>1. tape = <<>> /\ twire = <<>> /\ sent = 0 /\ handled = 0 /\ next = -1
      /\ DOMAIN open = {} /\ DOMAIN rows = {}
  BY DEF HandlersInit, R!Init, R!None, R!empty
<1>2. ~up
  BY Zenon DEF HandlersInit, R!Init
<1>3. OnTheWay
  BY <1>1, <1>2 DEF OnTheWay
<1>4. \A w, lag : FiledInv(w, lag)
  BY <1>1, <1>2, <1>3 DEF FiledInv, Prompt, AllFiled
<1>5. \A w, sw, m : Written(w, sw, m)
  BY <1>1 DEF Written
<1>. QED
  BY <1>4, <1>5 DEF RowsInv

LEMMA RowsStep ==
    ASSUME Promptly, TellInv, RowsInv, [HandlersNext]_<<handler, tradesVars, candlesVars>>
    PROVE  RowsInv'
<1>1. VenueInv /\ ToldInv(Setting.Interval)
  BY DEF TellInv, TradesInv
<1>2. CASE handler = "reconnects" /\ R!Next /\ UNCHANGED handler
  <2>1. Setting = Narrow /\ Setting' = Narrow
    BY <1>2 DEF Setting
  <2>. DEFINE w == Narrow.Interval
              lag == Narrow.Lag
              sw == Narrow.sweepWindow
              m == Narrow.minSweepTrades
  <2>2. FiledInv(w, lag) /\ Written(w, sw, m) /\ ToldInv(w)
    BY <1>1, <2>1 DEF RowsInv
  <2>3. \A s \in DOMAIN open : OfWindow(w, s)
    BY <2>2 DEF FiledInv
  <2>4. TradeFiles \/ SendFiles \/ DropFiles \/ ConnectFiles \/ ClockFiles(lag)
           \/ ReceiveFiles(w, Narrow.lateGrace, sw, m)
    BY <1>1, <1>2, <2>3, NarrowFiles
  <2>5. FiledInv(w, lag)' /\ Written(w, sw, m)'
    BY <1>1, <2>2, <2>4, RowsSettings, FiledStep DEF Promptly
  <2>. QED
    BY <2>1, <2>5 DEF RowsInv, FiledInv, OnTheWay, FirstIn, Prompt, AllFiled, Filed, OfWindow, Bucket, Written
<1>3. CASE handler = "bursts" /\ B!Next /\ UNCHANGED handler
  <2>1. Setting = Wide /\ Setting' = Wide
    BY <1>3 DEF Setting
  <2>. DEFINE w == Wide.Interval
              lag == Wide.Lag
              sw == Wide.sweepWindow
              m == Wide.minSweepTrades
  <2>2. FiledInv(w, lag) /\ Written(w, sw, m) /\ ToldInv(w)
    BY <1>1, <2>1 DEF RowsInv
  <2>3. \A s \in DOMAIN open : OfWindow(w, s)
    BY <2>2 DEF FiledInv
  <2>4. TradeFiles \/ SendFiles \/ DropFiles \/ ConnectFiles \/ ClockFiles(lag)
           \/ ReceiveFiles(w, Wide.lateGrace, sw, m)
    BY <1>1, <1>3, <2>3, WideFiles
  <2>5. FiledInv(w, lag)' /\ Written(w, sw, m)'
    BY <1>1, <2>2, <2>4, RowsSettings, FiledStep DEF Promptly
  <2>. QED
    BY <2>1, <2>5 DEF RowsInv, FiledInv, OnTheWay, FirstIn, Prompt, AllFiled, Filed, OfWindow, Bucket, Written
<1>4. CASE UNCHANGED <<handler, tradesVars>>
  <2>1. /\ Setting' = Setting /\ tnow' = tnow /\ tape' = tape /\ twire' = twire /\ sent' = sent
        /\ handled' = handled /\ next' = next /\ open' = open /\ rows' = rows
    BY <1>4 DEF Setting, tradesVars
  <2>2. up' = up
    BY <1>4 DEF tradesVars
  <2>3. OnTheWay /\ Prompt(Setting.Lag) /\ AllFiled(Setting.Interval)
        /\ \A s \in DOMAIN open : OfWindow(Setting.Interval, s)
    BY DEF RowsInv, FiledInv
  <2>4. OnTheWay' /\ Prompt(Setting.Lag)' /\ AllFiled(Setting.Interval)'
    BY <2>1, <2>2, <2>3 DEF OnTheWay, FirstIn, Prompt, AllFiled, Filed
  <2>5. \A s \in DOMAIN open' : OfWindow(Setting.Interval, s)'
    BY <2>1, <2>3 DEF OfWindow, Bucket
  <2>6. Written(Setting.Interval, Setting.sweepWindow, Setting.minSweepTrades)'
    BY <2>1 DEF RowsInv, Written, Bucket
  <2>. QED
    BY <2>4, <2>5, <2>6 DEF RowsInv, FiledInv
<1>. QED
  BY <1>2, <1>3, <1>4 DEF HandlersNext

(* With frames handled within the grace, every trades row is the aggregate *)
(* of exactly the trades the venue made in its bucket, and its sweeps are  *)
(* the bursts of the bucket: for any kinds of trades, widths, graces,      *)
(* sweep sizes, bounds and connections.                                    *)
THEOREM RowsAreWhole ==
    ASSUME Narrow.Lag <= Narrow.lateGrace, Wide.Lag <= Wide.lateGrace
    PROVE  HandlersSpec => []RowIsWhole
<1>. DEFINE Inv == TellInv /\ RowsInv
<1>1. HandlersInit => Inv
  BY TellInit, RowsInit
<1>2. Inv /\ [HandlersNext]_<<handler, tradesVars, candlesVars>> => Inv'
  BY TellStep, RowsStep DEF Promptly
<1>3. Inv => RowIsWhole
  <2>. SUFFICES ASSUME Inv PROVE RowIsWhole
    OBVIOUS
  <2>1. VenueInv /\ Written(Setting.Interval, Setting.sweepWindow, Setting.minSweepTrades)
    BY DEF TellInv, TradesInv, RowsInv
  <2>2. CASE handler = "bursts"
    <3>1. Setting = Wide
      BY <2>2 DEF Setting
    <3>. QED
      BY <2>1, <2>2, <3>1, WideWhole DEF RowIsWhole
  <2>3. CASE handler # "bursts"
    <3>1. Setting = Narrow
      BY <2>3 DEF Setting
    <3>. QED
      BY <2>1, <2>3, <3>1, NarrowWhole DEF RowIsWhole
  <2>. QED
    BY <2>2, <2>3
<1>. QED
  BY <1>1, <1>2, <1>3, PTL DEF HandlersSpec
=============================================================================
