------------------------------- MODULE Engine -------------------------------
(***************************************************************************)
(* The fill engine of the simulated venue (internal/fix/engine.go and      *)
(* fill.go): one goroutine that owns the book of live orders, evaluates    *)
(* them against the market data ingest recorded, and reports what happens. *)
(*                                                                         *)
(* Around it: the goroutine of the FIX session, which stamps one message   *)
(* at a time and blocks until the engine takes it; the recorded book,      *)
(* which changes or stops changing as it likes; the writer, which may      *)
(* refuse a row; and restarts, which keep the rows and lose everything     *)
(* else.  Prices are integers, execution prices integers in units of       *)
(* 1/Scale, and a string order on ClOrdIDs is the order on naturals.       *)
(***************************************************************************)
EXTENDS Integers, Sequences, FiniteSets, FiniteSetsExt

CONSTANTS
    ClOrdID,      \* client order ids, naturals
    Terms,        \* what a NewOrderSingle may ask for
    Touches,      \* the [bid, ask] pairs ingest may record
    PartialThreshold, PartialSlices, SlippageBps,   \* config.FillModel
    Latency, BookPoll, BookMaxAge,                  \* config.FillModel
    MaxNow,       \* bound: the last instant of the clock
    MaxMessages,  \* bound: messages the client sends
    MaxRuns       \* bound: lives of the process

ASSUME EngineAssumption ==
    /\ ClOrdID \subseteq Nat /\ IsFiniteSet(ClOrdID)
    /\ \A t \in Terms : /\ t.side \in {"buy", "sell"} /\ t.whole \in BOOLEAN
                        /\ t.qty \in Int /\ t.limitPx \in Int
    /\ Touches \subseteq [bid : Nat, ask : Nat]
    /\ PartialThreshold \in Nat /\ PartialSlices \in Nat
    /\ SlippageBps \in 0..10000
    /\ Latency \in Nat /\ BookPoll \in Nat \ {0} /\ BookMaxAge \in Nat
    /\ MaxNow \in Nat /\ MaxMessages \in Nat /\ MaxRuns \in Nat \ {0}

VARIABLES
    run,           \* idMinter.run: which life of the process this is
    minted,        \* idMinter: order ids and loose exec ids minted so far
    live,          \* the ids in engine.live
    final,         \* engine.final: how an id ended, "none" when it has not
    orders,        \* what is known of the order accepted under an id
    book,          \* the last snapshot read; NoBook until there is one
    nextBookRead,  \* when the next one is due
    pc,            \* where the engine goroutine is
    tickAt, due,   \* the instant a tick runs for, and the ids it has left
    err,           \* what run returned
    inbound,       \* the message the FIX session's goroutine is delivering
    messages,      \* how many it has delivered
    reports,       \* the execution reports this life handed to the session
    rows,          \* the rows of the fills table
    market,        \* the newest recorded book
    now            \* the clock

orderVars == <<live, final, orders>>
bookVars  == <<book, nextBookRead>>
loopVars  == <<pc, tickAt, due, err>>
outVars   == <<reports, rows>>
vars == <<run, minted, orderVars, bookVars, loopVars, inbound, messages, outVars, market, now>>

-----------------------------------------------------------------------------
(* The fill model.                                                         *)

Scale  == 10000
NoBook == [ts |-> -1, bid |-> 0, ask |-> 0]

bookFresh(b, t) == b # NoBook /\ t - b.ts <= BookMaxAge

marketable(o, b) == IF o.side = "buy" THEN b.ask <= o.limitPx ELSE b.bid >= o.limitPx

(* The touch, moved against the order by the slippage and capped at the    *)
(* order's own limit.                                                      *)
execPxUncapped(o, b) == IF o.side = "buy" THEN b.ask * (Scale + SlippageBps)
                                          ELSE b.bid * (Scale - SlippageBps)
execPx(o, b) ==
    LET px == IF o.side = "buy" THEN b.ask * (Scale + SlippageBps)
                                ELSE b.bid * (Scale - SlippageBps)
        limit == o.limitPx * Scale
    IN IF o.side = "buy" THEN IF px > limit THEN limit ELSE px
                         ELSE IF px < limit THEN limit ELSE px

(* One fill, or PartialSlices of them for an order over the threshold, the *)
(* remainder on the last and never a fill of nothing.                      *)
sliceSizes(q) ==
    LET k == IF PartialSlices > q THEN q ELSE PartialSlices
        base == q \div k
    IN IF PartialSlices <= 1 \/ q <= PartialThreshold \/ k <= 1 THEN <<q>>
       ELSE [i \in 1..k |-> IF i < k THEN base ELSE q - base * (k - 1)]

(* jitterLatency: [d/2, 3d/2) around the configured latency.               *)
Jitter == IF Latency = 0 THEN {0} ELSE (Latency \div 2)..(Latency \div 2 + Latency - 1)

-----------------------------------------------------------------------------
(* Orders and reports.                                                     *)

NoOrder == [orderID |-> <<0, 0>>, side |-> "buy", tif |-> "GTC", qty |-> 0, limitPx |-> 0,
            slices |-> <<>>, next |-> 1, cumQty |-> 0, notional |-> 0, readyAt |-> 0,
            execSeq |-> 0]

Done(o)   == o.next > Len(o.slices)
leaves(o) == o.qty - o.cumQty

(* Ids carry the run, because the fills table outlives it.                 *)
mintUnprefixed(n) == <<0, n>>
mint(n)       == <<run, n>>
orderExecID(o) == <<o.orderID[1], o.orderID[2], o.execSeq>>

(* A cancel report goes out under the cancel's own id and names the order  *)
(* in OrigClOrdID; here id is always the order's.                          *)
report(id, orderID, execID, state, lastQty, lastPx, cumQty, leavesQty) ==
    [id |-> id, orderID |-> orderID, execID |-> execID, state |-> state, lastQty |-> lastQty,
     lastPx |-> lastPx, cumQty |-> cumQty, leavesQty |-> leavesQty]

(* The table's natural key is (venue, venue_exec_id), DO NOTHING.          *)
fillRow(r) == [execID |-> r.execID, orderID |-> r.orderID, qty |-> r.lastQty, px |-> r.lastPx]
recorded(r) == IF \E x \in rows : x.execID = r.execID THEN rows ELSE rows \cup {fillRow(r)}

-----------------------------------------------------------------------------
(* run reads the book once before it serves anything; the read may fail.   *)
Init == /\ run = 1
        /\ minted = [orders |-> 0, execs |-> 0]
        /\ live = {}
        /\ final = [id \in ClOrdID |-> "none"]
        /\ orders = [id \in ClOrdID |-> NoOrder]
        /\ market \in {NoBook} \cup {[ts |-> 0, bid |-> t.bid, ask |-> t.ask] : t \in Touches}
        /\ book \in {NoBook, market}
        /\ nextBookRead = BookPoll
        /\ pc = "select" /\ tickAt = 0 /\ due = {} /\ err = "none"
        /\ inbound = [kind |-> "none"]
        /\ messages = 0
        /\ reports = {} /\ rows = {}
        /\ now = 0

(* FromApp stamps a message and blocks on the engine's channel.            *)
FromApp == /\ inbound.kind = "none"
           /\ messages < MaxMessages
           /\ messages' = messages + 1
           /\ \E id \in ClOrdID :
                \/ \E t \in Terms : inbound' = [kind |-> "order", id |-> id, terms |-> t, at |-> now]
                \/ inbound' = [kind |-> "cancel", id |-> id, at |-> now]
           /\ UNCHANGED <<run, minted, orderVars, bookVars, loopVars, outVars, market, now>>

(* What this venue will not trade.                                         *)
unsupported(t) == \/ t.symbol # "PERP"
                  \/ t.ordType # "LIMIT"
                  \/ t.tif \notin {"GTC", "IOC"}
                  \/ t.qty <= 0 \/ ~t.whole
                  \/ t.limitPx <= 0

knownLiveOnly(id) == id \in live
known(id) == id \in live \/ final[id] # "none"

refusal(s) == known(s.id) \/ unsupported(s.terms) \/ ~bookFresh(book, s.at)

taken(kind) == /\ pc = "select"
               /\ inbound.kind = kind
               /\ inbound' = [kind |-> "none"]

(* accept, for an order the venue will not take.                           *)
Reject ==
    /\ taken("order")
    /\ refusal(inbound)
    /\ minted' = [orders |-> minted.orders + 1, execs |-> minted.execs + 1]
    /\ reports' = reports \cup {report(inbound.id, mint(minted'.orders), mint(minted'.execs),
                                       "REJECTED", 0, 0, 0, 0)}
    /\ UNCHANGED <<run, orderVars, bookVars, loopVars, messages, rows, market, now>>

(* accept, for an order that goes on the book.                             *)
Accept ==
    /\ taken("order")
    /\ ~refusal(inbound)
    /\ minted' = [orders |-> minted.orders + 1, execs |-> minted.execs + 1]
    /\ live' = live \cup {inbound.id}
    /\ \E j \in Jitter :
         orders' = [orders EXCEPT ![inbound.id] =
                      [NoOrder EXCEPT !.orderID = mint(minted'.orders),
                                      !.side = inbound.terms.side,
                                      !.tif = inbound.terms.tif,
                                      !.qty = inbound.terms.qty,
                                      !.limitPx = inbound.terms.limitPx,
                                      !.slices = sliceSizes(inbound.terms.qty),
                                      !.readyAt = inbound.at + j]]
    /\ reports' = reports \cup {report(inbound.id, mint(minted'.orders), mint(minted'.execs),
                                       "NEW", 0, 0, 0, inbound.terms.qty)}
    /\ UNCHANGED <<run, final, bookVars, loopVars, messages, rows, market, now>>

(* finish: the order leaves the book, with a terminal report.              *)
canceled(id, o) == report(id, o.orderID, orderExecID(o), "CANCELED", 0, 0, o.cumQty, 0)

CancelLive ==
    /\ taken("cancel")
    /\ inbound.id \in live
    /\ LET o == [orders[inbound.id] EXCEPT !.execSeq = @ + 1]
       IN /\ orders' = [orders EXCEPT ![inbound.id] = o]
          /\ reports' = reports \cup {canceled(inbound.id, o)}
    /\ live' = live \ {inbound.id}
    /\ final' = [final EXCEPT ![inbound.id] = "CANCELED"]
    /\ UNCHANGED <<run, minted, bookVars, loopVars, messages, rows, market, now>>

(* Too late, or unknown: a cancel reject.  Unlike a report that cannot be  *)
(* sent, a reject that cannot be sent ends the engine.                     *)
CancelRejected ==
    /\ taken("cancel")
    /\ inbound.id \notin live
    /\ \/ UNCHANGED <<pc, err>>
       \/ pc' = "stopped" /\ err' = "send"
    /\ UNCHANGED <<run, minted, orderVars, bookVars, tickAt, due, messages, outVars, market, now>>

(* untilNextWake: the next book read, or the next order that may print.    *)
wakeAt == Min({nextBookRead} \cup {orders[id].readyAt : id \in live})

(* tick up to its loop: the timer fires, the book is read again when that  *)
(* is due, and a failed or empty read keeps the previous one.              *)
TickBegins ==
    /\ pc = "select"
    /\ now >= wakeAt
    /\ tickAt' = now
    /\ IF now >= nextBookRead
       THEN /\ nextBookRead' = now + BookPoll
            /\ book' \in IF market = NoBook THEN {book} ELSE {book, market}
       ELSE UNCHANGED bookVars
    /\ due' = {id \in live : orders[id].readyAt <= now}
    /\ pc' = IF due' = {} THEN "select" ELSE "tick"
    /\ UNCHANGED <<run, minted, orderVars, err, inbound, messages, outVars, market, now>>

-----------------------------------------------------------------------------
(* evaluate, for the first order left in the tick.                         *)

first == Min(due)
nextInTick == /\ due' = due \ {first}
              /\ pc' = IF due' = {} THEN "select" ELSE "tick"
              /\ UNCHANGED err

(* The order after its next slice has printed against the book.            *)
sliced(o) == LET q == o.slices[o.next]
             IN [o EXCEPT !.next = @ + 1, !.cumQty = @ + q,
                          !.notional = @ + execPx(o, book) * q, !.execSeq = @ + 1]
traded(id, o, p) == report(id, p.orderID, orderExecID(p), IF Done(p) THEN "FILLED" ELSE "PARTIAL",
                           o.slices[o.next], execPx(o, book), p.cumQty, leaves(p))

(* No market, or not at this price: an IOC ends, anything else waits for   *)
(* the next book read.                                                     *)
deferredNow(o) == [o EXCEPT !.readyAt = tickAt]
deferred(o)    == [o EXCEPT !.readyAt = nextBookRead]

Unfilled ==
    /\ pc = "tick"
    /\ ~(bookFresh(book, tickAt) /\ marketable(orders[first], book))
    /\ LET o == orders[first]
           p == [o EXCEPT !.execSeq = @ + 1]
       IN IF o.tif = "IOC"
          THEN /\ orders' = [orders EXCEPT ![first] = p]
               /\ live' = live \ {first}
               /\ final' = [final EXCEPT ![first] = "CANCELED"]
               /\ reports' = reports \cup {canceled(first, p)}
          ELSE /\ orders' = [orders EXCEPT ![first] = deferred(o)]
               /\ UNCHANGED <<live, final, reports>>
    /\ nextInTick
    /\ UNCHANGED <<run, minted, bookVars, tickAt, inbound, messages, rows, market, now>>

(* A slice prints: its row goes to the writer, then its report goes out.   *)
(* An IOC that is not done after it loses its remainder at once.           *)
Rests(o) == o.tif # "IOC"

Fill ==
    /\ pc = "tick"
    /\ bookFresh(book, tickAt) /\ marketable(orders[first], book)
    /\ LET o == orders[first]
           p == sliced(o)
           c == [p EXCEPT !.execSeq = @ + 1]
           r == traded(first, o, p)
       IN /\ rows' = recorded(r)
          /\ CASE Done(p) ->
                    /\ orders' = [orders EXCEPT ![first] = p]
                    /\ live' = live \ {first}
                    /\ final' = [final EXCEPT ![first] = "FILLED"]
                    /\ reports' = reports \cup {r}
               [] ~Done(p) /\ Rests(o) ->
                    /\ \E j \in Jitter :
                         orders' = [orders EXCEPT ![first] = [p EXCEPT !.readyAt = tickAt + j]]
                    /\ reports' = reports \cup {r}
                    /\ UNCHANGED <<live, final>>
               [] ~Done(p) /\ ~Rests(o) ->
                    /\ orders' = [orders EXCEPT ![first] = c]
                    /\ live' = live \ {first}
                    /\ final' = [final EXCEPT ![first] = "CANCELED"]
                    /\ reports' = reports \cup {r, canceled(first, c)}
    /\ nextInTick
    /\ UNCHANGED <<run, minted, bookVars, tickAt, inbound, messages, market, now>>

(* The writer refuses the row: the order has already moved, nothing is     *)
(* reported, and the engine ends.                                          *)
FillRefusedReports ==
    /\ pc = "tick"
    /\ bookFresh(book, tickAt) /\ marketable(orders[first], book)
    /\ LET p == sliced(orders[first])
       IN /\ orders' = [orders EXCEPT ![first] = p]
          /\ reports' = reports \cup {traded(first, orders[first], p)}
          /\ IF Done(p) THEN /\ live' = live \ {first}
                             /\ final' = [final EXCEPT ![first] = "FILLED"]
                        ELSE UNCHANGED <<live, final>>
    /\ pc' = "stopped" /\ err' = "sink" /\ due' = {}
    /\ UNCHANGED <<run, minted, bookVars, tickAt, inbound, messages, rows, market, now>>
FillRefused ==
    /\ pc = "tick"
    /\ bookFresh(book, tickAt) /\ marketable(orders[first], book)
    /\ LET p == sliced(orders[first])
       IN /\ orders' = [orders EXCEPT ![first] = p]
          /\ IF Done(p) THEN /\ live' = live \ {first}
                             /\ final' = [final EXCEPT ![first] = "FILLED"]
                        ELSE UNCHANGED <<live, final>>
    /\ pc' = "stopped" /\ err' = "sink" /\ due' = {}
    /\ UNCHANGED <<run, minted, bookVars, tickAt, inbound, messages, outVars, market, now>>

-----------------------------------------------------------------------------
(* The context ends: the loop sees it only between handlers.               *)
Stop == /\ pc = "select"
        /\ pc' = "stopped"
        /\ UNCHANGED <<run, minted, orderVars, bookVars, tickAt, due, err, inbound, messages,
                       outVars, market, now>>

(* A message the engine never took is answered with a business reject.     *)
DeliverStopped == /\ pc = "stopped"
                  /\ inbound.kind # "none"
                  /\ inbound' = [kind |-> "none"]
                  /\ UNCHANGED <<run, minted, orderVars, bookVars, loopVars, messages, outVars,
                                 market, now>>
(* Ingest records a new top of book.                                       *)
RecordBook == /\ \E t \in Touches : market' = [ts |-> now, bid |-> t.bid, ask |-> t.ask]
              /\ UNCHANGED <<run, minted, orderVars, bookVars, loopVars, inbound, messages,
                             outVars, now>>

Clock == /\ now < MaxNow
         /\ now' = now + 1
         /\ UNCHANGED <<run, minted, orderVars, bookVars, loopVars, inbound, messages, outVars,
                        market>>

(* The process starts again: after an orderly stop with every row written, *)
(* after a crash with whatever part of this life's rows the writer had     *)
(* flushed.  The run is the start time in nanoseconds, so no two lives     *)
(* share it.                                                               *)
Restart == /\ run < MaxRuns
           /\ run' = run + 1
           /\ \/ pc = "stopped" /\ rows' = rows
              \/ \E lost \in SUBSET {x \in rows : x.orderID[1] = run} : rows' = rows \ lost
           /\ minted' = [orders |-> 0, execs |-> 0]
           /\ live' = {}
           /\ final' = [id \in ClOrdID |-> "none"]
           /\ orders' = [id \in ClOrdID |-> NoOrder]
           /\ book' \in {NoBook, market}
           /\ nextBookRead' = now + BookPoll
           /\ pc' = "select" /\ tickAt' = now /\ due' = {} /\ err' = "none"
           /\ inbound' = [kind |-> "none"]
           /\ reports' = {}
           /\ UNCHANGED <<messages, market, now>>

Receive  == Reject \/ Accept \/ CancelLive \/ CancelRejected
Evaluate == Unfilled \/ Fill \/ FillRefused
Handle   == Receive \/ TickBegins \/ Evaluate \/ DeliverStopped

Next == Handle \/ FromApp \/ Stop \/ RecordBook \/ Clock \/ Restart

Spec == Init /\ [][Next]_vars

(* The engine goroutine is scheduled and its timers fire.                  *)
FairSpec == Spec /\ WF_vars(Handle)

-----------------------------------------------------------------------------
OrderType == [orderID : Nat \X Nat, side : {"buy", "sell"}, tif : {"GTC", "IOC"}, qty : Nat,
              limitPx : Nat, slices : Seq(Nat), next : Nat, cumQty : Nat, notional : Nat,
              readyAt : Nat, execSeq : Nat]

Inbound == [kind : {"none"}]
           \cup [kind : {"order"}, id : ClOrdID, terms : Terms, at : Nat]
           \cup [kind : {"cancel"}, id : ClOrdID, at : Nat]

(* Every variable holds a value of its type.                               *)
TypeOK ==
    /\ run \in 1..MaxRuns
    /\ minted \in [orders : Nat, execs : Nat]
    /\ live \subseteq ClOrdID
    /\ final \in [ClOrdID -> {"none", "FILLED", "CANCELED"}]
    /\ orders \in [ClOrdID -> OrderType]
    /\ book \in [ts : Int, bid : Nat, ask : Nat] /\ market \in [ts : Int, bid : Nat, ask : Nat]
    /\ nextBookRead \in Nat /\ tickAt \in Nat /\ now \in 0..MaxNow
    /\ pc \in {"select", "tick", "stopped"}
    /\ due \subseteq live /\ (pc = "tick" <=> due # {})
    /\ err \in {"none", "sink", "send"}
    /\ inbound \in Inbound
    /\ messages \in 0..MaxMessages

(* A fill the client was told of is in the fills table as it was told:     *)
(* recorded first, and under an id no earlier life of the process used, so *)
(* that ON CONFLICT DO NOTHING cannot swallow it.                          *)
ReportedIsRecorded ==
    \A r \in reports : r.lastQty > 0 => fillRow(r) \in rows

RowsOf(o) == {x \in rows : x.orderID = o.orderID}

(* The rows of an order add up to what the venue says it filled, never to  *)
(* more than was ordered, and to the whole order exactly when it is        *)
(* FILLED; only a row the writer refused is missing, and then the engine   *)
(* has stopped.                                                            *)
RowsAddUp ==
    err # "sink" =>
        \A id \in ClOrdID : known(id) =>
            LET o == orders[id]
            IN /\ MapThenSumSet(LAMBDA x : x.qty, RowsOf(o)) = o.cumQty
               /\ o.cumQty <= o.qty
               /\ final[id] = "FILLED" <=> o.cumQty = o.qty

(* A limit order never pays more, or gets less, than its limit, on average *)
(* over its slices and whatever the book did between them.                 *)
WithinLimit(o) ==
    IF o.side = "buy" THEN o.notional <= o.limitPx * Scale * o.cumQty
                      ELSE o.notional >= o.limitPx * Scale * o.cumQty
LimitHolds == \A id \in ClOrdID : WithinLimit(orders[id])

(* An IOC order on the book has not been evaluated yet: the first look at  *)
(* the market, or at a market that has gone stale, takes it off again.     *)
IOCNeverRests == \A id \in live : orders[id].tif = "IOC" /\ err = "none" => orders[id].cumQty = 0

(* The venue keeps to the terms of the order, its price and its time in    *)
(* force, over all of its slices and whatever the book does between them.  *)
TermsKept == LimitHolds /\ IOCNeverRests

(* What the venue does with an id in one life of the process is the life   *)
(* of one order; a restart forgets every order.                            *)
LifeState(id) == CASE id \in live /\ orders[id].cumQty = 0 -> "NEW"
                   [] id \in live /\ orders[id].cumQty > 0 -> "PARTIAL"
                   [] OTHER -> IF final[id] = "none" THEN "NONE" ELSE final[id]
Life == INSTANCE OrderLife WITH OrderID <- ClOrdID,
                                state   <- [id \in ClOrdID |-> LifeState(id)],
                                cum     <- [id \in ClOrdID |-> orders[id].cumQty]
ImplementsOrderLife == Life!LifeInit /\ [][Restart \/ Life!LifeNext]_(Life!lifeVars)

(* The FIX session's goroutine is never left blocked on the engine: every  *)
(* message is taken, or refused because the engine has stopped.            *)
MessagesAnswered == inbound.kind # "none" ~> inbound.kind = "none"

(* The loop comes to rest: every order that is due, however many share a   *)
(* tick, is evaluated and ends or moves past the clock, so that the timer  *)
(* has something to wait for and no order is starved.                      *)
NothingStaysDue ==
    LET Due == \E id \in live : orders[id].readyAt <= now
    IN Due ~> (~Due \/ pc = "stopped")

(* Nobody waits for the engine for ever: neither the session that hands it *)
(* a message nor an order that is due.                                     *)
NobodyWaits == MessagesAnswered /\ NothingStaysDue

(* The engine ends with an error only when the writer has gone.            *)
OnlyTheWriterStopsIt == err # "none" => err = "sink"
=============================================================================
