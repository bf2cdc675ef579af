------------------------------- MODULE Trades -------------------------------
(***************************************************************************)
(* The market_trades handler (ingest/trades.go): trades filed under the    *)
(* bucket of their own time, a bucket written once its window and a grace  *)
(* have passed, the buckets a reconnect cost reported as a gap.  Products  *)
(* do not interact, so one is modelled.  The stream below it (BookStream)  *)
(* appears as its calls: Reset when a connection is subscribed, Tick and   *)
(* then Handle for every frame.                                            *)
(*                                                                         *)
(* The venue is external: it trades, sends what it has not sent yet, may   *)
(* repeat a trade, and replays recent trades on every subscribe.  A frame  *)
(* is a set of positions on the tape; the empty frame is a heartbeat.      *)
(***************************************************************************)
EXTENDS Integers, Sequences, SequencesExt, FiniteSets, FiniteSetsExt

CONSTANTS
    Kinds,       \* the trades there can be: [side, px, sz]
    Interval,    \* the bucket's width
    lateGrace,   \* how long a bucket stays open past its end
    sweepWindow, minSweepTrades,
    Lag,         \* a frame is handled at most this long after its trades
    MaxTime, MaxTrades, MaxInFlight, MaxConns  \* bounds

TradesAssumption ==
    /\ Kinds \subseteq [side : {"BUY", "SELL", "UNKNOWN", "OTHER"}, px : Nat, sz : Nat]
    /\ Interval \in Nat \ {0} /\ minSweepTrades \in Nat \ {0, 1}
    /\ {lateGrace, sweepWindow, Lag, MaxTime, MaxTrades} \subseteq Nat

None == -1

VARIABLES
    now,
    tape,     \* the venue's trades, oldest first: Kinds with their time
    up, conns, wire, \* the connection, how many there were, frames in flight
    sent,     \* trades the venue has sent on this connection
    handled,  \* trades up to here were handled, or are older than the connection
    \* productTrades
    next,     \* start of the oldest bucket not yet written, or None
    open,     \* open buckets: start |-> positions, in order of arrival
    batchMax, lostFrom,
    \* what came of it
    rows,     \* written buckets: start |-> the row
    first,    \* the first bucket ever admitted
    reported, \* buckets reported as dropped
    regressed \* checkBatchOrder counted a gap

market  == <<now, tape>>
conn    == <<up, conns, wire, sent, handled>>
product == <<next, open, batchMax, lostFrom>>
outcome == <<rows, first, reported, regressed>>
vars    == <<market, conn, product, outcome>>

truncate(t) == t - (t % Interval)
empty       == [s \in {} |-> <<>>]

Init ==
    /\ now = 0 /\ tape = <<>>
    /\ up = FALSE /\ conns = 0 /\ wire = <<>> /\ sent = 0 /\ handled = 0
    /\ next = None /\ open = empty /\ batchMax = None /\ lostFrom = None
    /\ rows = empty /\ first = None /\ reported = {} /\ regressed = FALSE

-----------------------------------------------------------------------------
(* aggregate.  The trades are sorted by time; trades of one instant may    *)
(* come out of the sort in any order.                                      *)

ascending(S) ==
    CHOOSE s \in [1..Cardinality(S) -> S] :
        ToSet(s) = S /\ \A i, j \in DOMAIN s : i < j => s[i] < s[j]

sum(f) == LET upTo[i \in 0..Len(f)] == IF i = 0 THEN 0 ELSE upTo[i - 1] + f[i] IN upTo[Len(f)]

sortings(ids) ==
    {s \in SetToSeqs(ToSet(ids)) :
        \A i, j \in DOMAIN s : i < j => tape[s[i]].at <= tape[s[j]].at}

continues(s, i) ==
    /\ i > 1
    /\ tape[s[i]].side # "UNKNOWN"
    /\ tape[s[i - 1]].side = tape[s[i]].side
    /\ tape[s[i]].at - tape[s[i - 1]].at <= sweepWindow

(* A run is counted when it reaches minSweepTrades, and only then.         *)
counted(acc, continued) ==
    LET run == IF continued THEN acc.run + 1 ELSE 1
    IN  [run |-> run,
         sweeps |-> acc.sweeps + (IF continued /\ run = minSweepTrades THEN 1 ELSE 0)]
sweepsIn(c) ==
    LET upTo[i \in 0..Len(c)] ==
          IF i = 0 THEN [run |-> 0, sweeps |-> 0] ELSE counted(upTo[i - 1], c[i])
    IN  upTo[Len(c)].sweeps
countSweeps(s) == sweepsIn([i \in DOMAIN s |-> continues(s, i)])

volume(ids, sides) ==
    sum([k \in DOMAIN ids |-> IF tape[ids[k]].side \in sides THEN tape[ids[k]].sz ELSE 0])
turnover(ids) == sum([k \in DOMAIN ids |-> tape[ids[k]].px * tape[ids[k]].sz])

(* Every row the aggregation of these trades can give; an empty bucket is  *)
(* a row too.                                                              *)
aggregate(ids) ==
    {[count    |-> Len(ids),
      buyVol   |-> volume(ids, {"BUY"}),
      sellVol  |-> volume(ids, {"SELL"}),
      maxSz    |-> Max({0} \cup {tape[i].sz : i \in ToSet(ids)}),
      notional |-> turnover(ids),
      volume   |-> volume(ids, {"BUY", "SELL", "UNKNOWN"}),
      sweeps   |-> countSweeps(s)] : s \in sortings(ids)}

-----------------------------------------------------------------------------
(* The venue and the connection.                                           *)

Trade ==
    /\ Len(tape) < MaxTrades
    /\ \E k \in Kinds :
          tape' = Append(tape, [at |-> now, side |-> k.side, px |-> k.px, sz |-> k.sz])
    /\ UNCHANGED <<now, conn, product, outcome>>

(* What was not sent yet, with one earlier trade repeated perhaps; or a    *)
(* heartbeat.                                                              *)
Send ==
    /\ up /\ Len(wire) < MaxInFlight
    /\ LET unsent == (sent + 1)..Len(tape) IN
       \/ /\ unsent # {}
          /\ \E again \in {{}} \cup {{i} : i \in 1..sent} :
                wire' = Append(wire, unsent \cup again)
          /\ sent' = Len(tape)
       \/ /\ wire' = Append(wire, {})
          /\ UNCHANGED sent
    /\ UNCHANGED <<market, up, conns, handled, product, outcome>>

Drop ==
    /\ up
    /\ up' = FALSE /\ wire' = <<>>
    /\ UNCHANGED <<market, conns, sent, handled, product, outcome>>

resetOverwrites ==
    /\ lostFrom' = next
    /\ next' = None /\ open' = empty /\ batchMax' = None
(* Reset: every bucket in progress is dropped, and what that cost is       *)
(* remembered for the next Tick.                                           *)
reset ==
    /\ lostFrom' = IF next # None THEN next ELSE lostFrom
    /\ next' = None /\ open' = empty /\ batchMax' = None

(* A connection is subscribed; the venue replays some recent trades on it. *)
Connect ==
    /\ ~up /\ conns < MaxConns
    /\ up' = TRUE /\ conns' = conns + 1
    /\ reset
    /\ \E k \in 0..Len(tape) :
          wire' = IF k = Len(tape) THEN <<>> ELSE <<(k + 1)..Len(tape)>>
    /\ sent' = Len(tape) /\ handled' = Len(tape)
    /\ UNCHANGED <<market, outcome>>

-----------------------------------------------------------------------------
(* One frame.                                                              *)

(* Admission begins at the next whole boundary.                            *)
admission == truncate(now) + Interval

elapsedAtOnce(start) == start + Interval <= now
elapsed(start) == start + Interval + lateGrace <= now

(* The buckets Tick closes: from next on, as long as they have elapsed.    *)
due == {s \in next..now : next # None /\ s % Interval = 0 /\ elapsed(s)}

bucket(start) == IF start \in DOMAIN open THEN open[start] ELSE <<>>

(* A bucket that is closed makes the one after it the oldest.              *)
nextAfterTick ==
    IF next = None THEN admission ELSE IF due = {} THEN next ELSE Max(due) + Interval

Tick ==
    /\ next' = nextAfterTick
    /\ \E written \in [due -> UNION {aggregate(bucket(s)) : s \in due}] :
          /\ \A s \in due : written[s] \in aggregate(bucket(s))
          /\ rows' = [s \in DOMAIN rows \cup due |-> IF s \in due THEN written[s] ELSE rows[s]]
    /\ first' = IF first = None THEN admission ELSE first
    /\ IF next = None /\ lostFrom # None
         THEN /\ reported' = reported \cup {s \in lostFrom..(admission - 1) : s % Interval = 0}
              /\ lostFrom' = None
         ELSE UNCHANGED <<reported, lostFrom>>

(* admitTrade: a side outside the vocabulary is an error; a trade of a     *)
(* bucket already written, or not admitted, is dropped; a repeat is free.  *)
admitted(b, i) ==
    /\ tape[i].side # "OTHER"
    /\ truncate(tape[i].at) >= nextAfterTick
    /\ i \notin ToSet(b)

timesOf(frame) == {tape[i].at : i \in {j \in frame : tape[j].side # "OTHER"}}
(* The newest trade of a message, which need not be its last.              *)
highOf(frame) == IF timesOf(frame) = {} THEN None ELSE Max(timesOf(frame))

Handle(frame) ==
    LET kept   == [s \in DOMAIN open \ due |-> open[s]]
        starts == {truncate(tape[i].at) : i \in {j \in frame : truncate(tape[j].at) >= nextAfterTick}}
        was(s) == IF s \in DOMAIN kept THEN kept[s] ELSE <<>>
        new(s) == Reverse(ascending({i \in frame : truncate(tape[i].at) = s /\ admitted(was(s), i)}))
        high   == highOf(frame)
    IN  /\ open' = [s \in DOMAIN kept \cup starts |-> was(s) \o new(s)]
        /\ batchMax' = Max({batchMax, high})
        /\ regressed' = (regressed \/ (high # None /\ high < batchMax))

(* dispatch: Tick before the frame is routed, on every frame.              *)
Receive ==
    /\ up /\ wire # <<>>
    /\ Tick /\ Handle(Head(wire))
    /\ wire' = Tail(wire)
    /\ handled' = Max({handled} \cup Head(wire))
    /\ UNCHANGED <<market, up, conns, sent>>

(* Trades made on this connection that have not been handled.              *)
outstanding == {i \in DOMAIN tape : up /\ i > handled}

AdvanceClock ==
    /\ now < MaxTime
    /\ \A i \in outstanding : now < tape[i].at + Lag
    /\ now' = now + 1
    /\ UNCHANGED <<tape, conn, product, outcome>>

Next == Trade \/ Send \/ Drop \/ Connect \/ Receive \/ AdvanceClock

Spec == Init /\ [][Next]_vars

-----------------------------------------------------------------------------
(* The state's types; admission and closing keep next on a boundary.       *)
TypeOK ==
    /\ now \in 0..MaxTime /\ Len(tape) <= MaxTrades
    /\ {next, lostFrom, first} \subseteq {None} \cup {t \in 0..(2 * MaxTime) : t % Interval = 0}
    /\ batchMax \in {None} \cup 0..MaxTime
    /\ \A s \in DOMAIN open : open[s] \in Seq(DOMAIN tape)

InBucket(s) ==
    {i \in DOMAIN tape : truncate(tape[i].at) = s /\ tape[i].side # "OTHER"}
(* A trade begins a counted sweep when it continues no run and the next    *)
(* ones, enough to make a sweep with it, continue its own.                 *)
Bursts(S) ==
    LET s == ascending(S)
    IN  {i \in DOMAIN s :
            /\ ~continues(s, i) /\ i + minSweepTrades - 1 <= Len(s)
            /\ \A k \in 1..(minSweepTrades - 1) : continues(s, i + k)}

(* A row is the aggregate of exactly the trades the venue made in that     *)
(* bucket, whatever connections carried them, as long as frames are        *)
(* handled within the grace: no bucket that spans a reconnect, a replay or *)
(* a repeat is written short or with a trade counted twice                 *)
(* (TradesHandler.Reset, admitTrade, elapsed, aggregate).                  *)
RowIsWhole ==
    \A s \in DOMAIN rows :
        LET trades == ascending(InBucket(s)) IN
        /\ rows[s].count = Cardinality(InBucket(s))
        /\ rows[s].volume = sum([k \in DOMAIN trades |-> tape[trades[k]].sz])
        /\ rows[s].notional = turnover(trades)
        /\ rows[s].volume >= rows[s].buyVol + rows[s].sellVol

(* With at most one trade an instant the sweep count is the number of      *)
(* bursts of the bucket (countSweeps).                                     *)
SweepsAreBursts ==
    \A s \in DOMAIN rows :
        (\A i, j \in InBucket(s) : tape[i].at = tape[j].at => i = j) =>
            rows[s].sweeps = Cardinality(Bursts(InBucket(s)))

(* Every bucket from the first admitted one up to the next to be written   *)
(* is in the series or was reported as a gap, however the reconnects and   *)
(* the ticks fall (TradesHandler.Reset, Tick, lostFrom).                   *)
HolesAreReported ==
    next # None =>
        \A s \in first..(next - 1) :
            s % Interval = 0 => s \in DOMAIN rows \/ s \in reported

(* A venue that sends its trades in order is never taken for one that      *)
(* replays a stale view, although a message may repeat an old trade and    *)
(* every subscribe replays old ones (TradesHandler.checkBatchOrder).  Only *)
(* a trade that does not parse, which is a gap of its own, can leave a     *)
(* message with nothing but its repeat.                                    *)
NoFalseRegression == regressed => \E i \in DOMAIN tape : tape[i].side = "OTHER"
=============================================================================
