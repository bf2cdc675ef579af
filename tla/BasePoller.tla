----------------------------- MODULE BasePoller -----------------------------
(***************************************************************************)
(* The Base chain poller (base.go) over its JSON-RPC client (ethrpc.go):   *)
(* one poll reads the block height, then four columns one after the other, *)
(* each of which may fail on its own, and writes one row.  When in the     *)
(* interval a poll starts, and what boundary its row is keyed on, is       *)
(* runOnBoundary's part, in Sampler.                                       *)
(*                                                                         *)
(* Amounts and prices are powers of ten, kept as their exponents, so that  *)
(* scaling by a token's decimals is exact.  At block b the wallet holds    *)
(* 10^b ETH and 10^b USDC and one ETH costs 10^b USDC.  A call takes some  *)
(* of the poll's time.                                                     *)
(***************************************************************************)
EXTENDS Integers, FiniteSets, FiniteSetsExt

CONSTANTS
    Interval,          \* what one poll may take, in units of time
    RpcTimeout,        \* what one call may take
    WethDec, UsdcDec,  \* decimals() of the two tokens
    MaxTokenDecimals,  \* maxTokenDecimals
    Pools,             \* the pools that may be configured
    Usdcs,             \* the USDC contracts that may be configured
    MaxBlocks          \* bound on the chain

ASSUME BaseAssumption ==
    /\ {Interval, RpcTimeout} \subseteq Nat \ {0}
    /\ {WethDec, UsdcDec, MaxTokenDecimals, MaxBlocks} \subseteq Nat

None == -100

VARIABLES
    head, healthy,            \* the chain, and whether the node answers at once
    pool, usdc,               \* what is deployed at the configured addresses
    canceled, writer,         \* the root context; "up", "full" or "gone"
    pc, left,                 \* the poll, and what is left of its deadline
    block, row,               \* the pinned block and the row so far
    layout, decimals,         \* the two caches: None until read
    warned, priceless,        \* warned["spot_px"] and priceless
    source, told,             \* last price source; whether its loss was logged
    last                      \* the last row written, with its block

external == <<head, healthy, pool, usdc, canceled, writer>>
columns  == <<block, row>>
caches   == <<layout, decimals>>
signals  == <<warned, priceless, source, told>>
vars     == <<external, pc, left, columns, caches, signals, last>>

NoRow == [eth |-> None, usdc |-> None, gas |-> None, px |-> None, src |-> "none"]

Init ==
    /\ head = 1 /\ healthy \in BOOLEAN /\ pool \in Pools /\ usdc \in Usdcs
    /\ canceled = FALSE /\ writer = "up"
    /\ pc = "wait" /\ left = 0 /\ block = None /\ row = NoRow
    /\ layout = "unread" /\ decimals = None
    /\ warned = FALSE /\ priceless = FALSE /\ source = "unread" /\ told = FALSE
    /\ last = [block |-> None, row |-> NoRow]

-----------------------------------------------------------------------------
(* The world: blocks are mined, the node recovers for good, the process is *)
(* told to stop, the writer's queue fills up, drains or goes away.         *)
Mine == head < MaxBlocks /\ head' = head + 1 /\ UNCHANGED <<healthy, pool, usdc, canceled, writer>>
Heal == ~healthy /\ healthy' = TRUE /\ UNCHANGED <<head, pool, usdc, canceled, writer>>
Cancel == ~canceled /\ canceled' = TRUE /\ UNCHANGED <<head, healthy, pool, usdc, writer>>
WriterChanges ==
    /\ writer # "gone"
    /\ writer' \in {"up", "full", "gone"} \ {writer}
    /\ UNCHANGED <<head, healthy, pool, usdc, canceled>>

World ==
    /\ Mine \/ Heal \/ Cancel \/ WriterChanges
    /\ UNCHANGED <<pc, left, columns, caches, signals, last>>

(* ctx.Err() of the poll's own context.                                    *)
expired == canceled \/ left = 0

(* EthClient.call: n calls in sequence take t and all succeed, or not.     *)
(* After the deadline, or a cancel, they fail at once.                     *)
Rpc(n, ok) ==
    \/ expired /\ ~ok /\ left' = left
    \/ /\ ~expired
       /\ \E t \in (IF healthy THEN {0} ELSE 0..(n * RpcTimeout)) :
             /\ left' = Max({0, left - t})
             /\ ok => left' > 0 /\ t < n * RpcTimeout
             /\ healthy => ok

(* The block height a pinned read is answered at, and the head otherwise.  *)
BlockAtLatest == head
BlockAt == block

(* A 32-byte return word: a contract that is not there answers nothing,    *)
(* which is an error and not a zero.                                       *)
returnWord(deployed, value) == IF deployed THEN value ELSE None

(* decimalsOf: what a token claims, when a token can claim it.             *)
decimalsOf(dec) == IF dec \in 0..MaxTokenDecimals THEN dec ELSE None

-----------------------------------------------------------------------------
(* Poll: at a boundary, or at once the first time.                         *)
PollBegin ==
    /\ pc = "wait" /\ ~canceled
    /\ pc' = "block" /\ left' = Interval
    /\ row' = NoRow
    /\ UNCHANGED <<external, block, caches, signals, last>>

Stop ==
    /\ pc = "wait" /\ canceled
    /\ pc' = "stopped" /\ left' = 0
    /\ UNCHANGED <<external, columns, caches, signals, last>>

(* The height first: without it there is no row, and if the context of the *)
(* poll has ended Poll returns its error, which ends Run.                  *)
BlockNumber ==
    /\ pc = "block"
    /\ \E ok \in BOOLEAN :
          /\ Rpc(1, ok)
          /\ block' = IF ok THEN head ELSE None
          /\ pc' = CASE ok -> "eth"
                     [] ~ok /\ (canceled \/ left' = 0) -> "stopped"
                     [] OTHER -> "wait"
    /\ UNCHANGED <<external, row, caches, signals, last>>

walletETH ==
    /\ pc = "eth"
    /\ \E ok \in BOOLEAN :
          /\ Rpc(1, ok)
          /\ row' = IF ok THEN [row EXCEPT !.eth = BlockAt] ELSE row
    /\ pc' = IF decimals = None THEN "decimals" ELSE "usdc"
    /\ UNCHANGED <<external, block, caches, signals, last>>

(* tokenDecimals: read once; a failure is not kept.                        *)
tokenDecimals ==
    /\ pc = "decimals"
    /\ \E ok \in BOOLEAN :
          /\ Rpc(1, ok)
          /\ decimals' = IF ok THEN decimalsOf(returnWord(usdc.deployed, usdc.dec)) ELSE None
    /\ pc' = IF decimals' = None THEN "gas" ELSE "usdc"
    /\ UNCHANGED <<external, columns, layout, signals, last>>

walletUSDC ==
    /\ pc = "usdc"
    /\ \E ok \in BOOLEAN :
          /\ Rpc(1, ok)
          /\ row' = IF ok /\ returnWord(usdc.deployed, 0) # None
                      THEN [row EXCEPT !.usdc = returnWord(usdc.deployed, BlockAt + usdc.dec) - decimals]
                      ELSE row
    /\ pc' = "gas"
    /\ UNCHANGED <<external, block, caches, signals, last>>

(* The gas price takes no block tag.                                       *)
gasGwei ==
    /\ pc = "gas"
    /\ \E ok \in BOOLEAN :
          /\ Rpc(1, ok)
          /\ row' = IF ok THEN [row EXCEPT !.gas = head] ELSE row
    /\ pc' = IF layout = "unread" THEN "layout" ELSE "pool"
    /\ UNCHANGED <<external, block, caches, signals, last>>

-----------------------------------------------------------------------------
(* spotPx when the pool gave a price, and when it did not: the sampler's   *)
(* mid, if it is fresh, and otherwise nothing.                             *)
dexPrice(px) ==
    /\ row' = [row EXCEPT !.px = px, !.src = "dex"]
    /\ source' = "dex" /\ warned' = FALSE /\ told' = FALSE
    /\ UNCHANGED priceless

(* warn: once until cleared.  EthClient.call does not wrap the cause of a  *)
(* transport failure, so a read cut off by a cancel is not told apart.     *)
warns == ~warned

fallbackKeeps ==
    \E haveMid \in BOOLEAN :
        /\ warned' = (warned \/ warns)
        /\ source' = IF haveMid THEN "coinbase" ELSE "none"
        /\ row' = IF haveMid THEN [row EXCEPT !.px = 0, !.src = "coinbase"] ELSE row
        /\ priceless' = (priceless \/ ~haveMid)
        /\ told' = (~haveMid /\ (told \/ warns \/ ~priceless))
fallback ==
    \E haveMid \in BOOLEAN :
        /\ warned' = (warned \/ warns)
        /\ source' = IF haveMid THEN "coinbase" ELSE "none"
        /\ row' = IF haveMid THEN [row EXCEPT !.px = 0, !.src = "coinbase"] ELSE row
        /\ priceless' = ~haveMid
        /\ told' = (~haveMid /\ (told \/ warns \/ ~priceless))

resolveLayoutAny(ok) == IF ok THEN IF pool.pair THEN "pair" ELSE "mismatch" ELSE "mismatch"
(* resolveLayout over the cache: a wrong pair is kept for good, a failed   *)
(* read is tried again at the next poll.                                   *)
resolveLayout(ok) ==
    CASE ok /\ returnWord(pool.deployed, 0) # None /\ pool.pair -> "pair"
      [] ok /\ returnWord(pool.deployed, 0) # None /\ ~pool.pair -> "mismatch"
      [] OTHER -> "unread"

poolLayout ==
    /\ pc = "layout"
    /\ \E ok \in BOOLEAN :
          /\ Rpc(4, ok)
          /\ layout' = resolveLayout(ok)
    /\ IF layout' = "pair" THEN pc' = "pool" /\ UNCHANGED <<row, signals>>
                           ELSE pc' = "done" /\ fallback
    /\ UNCHANGED <<external, block, decimals, last>>

(* slot0: token1 per token0 in their smallest units, squared and unscaled. *)
slot0(b) == IF pool.ethIsToken0 THEN b + UsdcDec - WethDec ELSE WethDec - UsdcDec - b

(* priceFromSqrtX96, by which of the two tokens ETH is.                    *)
priceFromSqrtX96(ratio) ==
    IF pool.ethIsToken0 THEN ratio + (WethDec - UsdcDec) ELSE (WethDec - UsdcDec) - ratio

poolPrice ==
    /\ pc = "pool"
    /\ IF layout = "mismatch"
         THEN fallback /\ UNCHANGED left
         ELSE \E ok \in BOOLEAN :
                /\ Rpc(1, ok)
                /\ IF ok /\ pool.initialized THEN dexPrice(priceFromSqrtX96(slot0(BlockAt)))
                                             ELSE fallback
    /\ pc' = "done"
    /\ UNCHANGED <<external, block, caches, last>>

(* The rest of Poll: an ended context ends Run; a poll that read nothing   *)
(* writes no row; a full queue is waited for until the context ends.       *)
submit ==
    /\ pc = "done"
    /\ \/ /\ ~expired /\ row # NoRow /\ writer = "up"
          /\ last' = [block |-> block, row |-> row]
          /\ pc' = "wait" /\ left' = 0
       \/ ~expired /\ row = NoRow /\ pc' = "wait" /\ left' = 0 /\ UNCHANGED last
       \/ ~expired /\ row # NoRow /\ writer = "gone" /\ pc' = "stopped" /\ left' = 0 /\ UNCHANGED last
       \/ ~expired /\ row # NoRow /\ writer = "full" /\ pc' = pc /\ left' = left - 1 /\ UNCHANGED last
       \/ expired /\ pc' = "stopped" /\ left' = 0 /\ UNCHANGED last
    /\ UNCHANGED <<external, columns, caches, signals>>

Poll == PollBegin \/ Stop \/ BlockNumber \/ walletETH \/ tokenDecimals \/ walletUSDC \/ gasGwei
            \/ poolLayout \/ poolPrice \/ submit

Next == World \/ Poll

(* The goroutine runs, and its timers and calls end.                       *)
Spec == Init /\ [][Next]_vars /\ WF_vars(Poll)

-----------------------------------------------------------------------------
(* A row is one moment on the chain, in whole tokens: whatever was mined   *)
(* while the poll was reading, and whatever failed, each balance and pool  *)
(* price in it is the chain's at the one block the poll pinned, the right  *)
(* way up and rightly scaled, and a contract that is not there leaves its  *)
(* column NULL (BasePoller.Poll, BlockAt, returnWord, priceFromSqrtX96).   *)
RowIsOneBlock ==
    LET r == last.row IN
    /\ r.eth \in {None, last.block} /\ r.usdc \in {None, last.block}
    /\ r.src = "dex" => r.px = last.block

(* A pool that does not hold the pair never prices a row, and a balance is *)
(* never scaled by what is not a token's decimals (resolveLayout,          *)
(* decimalsOf).                                                            *)
RightContracts ==
    /\ last.row.src = "dex" => pool.pair
    /\ last.row.usdc # None => usdc.dec \in 0..MaxTokenDecimals

(* Losing both price sources is never silent: while the last poll found    *)
(* neither, the loss has been logged since a price was last had, in        *)
(* whatever order pool and mid failed and came back (spotPx, warn).        *)
LossIsTold == source = "none" => told

(* Once the node answers again, the pool prices rows again, although       *)
(* reads failed before the layout was known (poolLayout, tokenDecimals).   *)
PriceReturns ==
    (healthy /\ pool.pair /\ pool.initialized) ~> (source = "dex" \/ pc = "stopped")

(* "A shutdown fails every read that is in flight, and each one used to    *)
(* report its column going NULL": a canceled poll warns of nothing.        *)
ShutdownIsQuiet == [][canceled => warned' = warned]_vars

(* "It returns an error only when the writer has gone or the context has   *)
(* ended; every chain failure is logged and left for the next tick."       *)
StopsOnlyWhenTold == pc = "stopped" => canceled \/ writer = "gone"
=============================================================================
