----------------------------- MODULE BookStream -----------------------------
(***************************************************************************)
(* A WebSocket stream (ingest/ws.go, backoff.go, conn.go) carrying the     *)
(* level2 channel (level2.go, book.go): dial, subscribe, read until the    *)
(* connection fails, back off, dial again; a book rebuilt from a snapshot  *)
(* and its updates, and a row of it at every boundary of the interval.     *)
(*                                                                         *)
(* The venue is external: it numbers every frame of a connection, sends a  *)
(* snapshot first, and may lose frames, garble one, or fall silent.  A     *)
(* frame carries, as a history, the venue's book before it.                *)
(***************************************************************************)
EXTENDS Integers, Sequences, FiniteSets, FiniteSetsExt

CONSTANTS
    Prices,            \* the price grid, a finite set of naturals
    OpeningBooks,      \* the venue's book at the start
    MaxQty,            \* bound on a level's size
    bookDepth,         \* levels of a side a row keeps
    Interval,          \* the snapshot interval
    Quiet,             \* Level2Quiet: silence threshold and maxBookAge
    readTimeout,       \* one read may wait this long
    backoffResetAfter, \* a connection that lived this long clears attempt
    BackoffBase, BackoffMax,
    MaxTime,           \* bound on the clock
    MaxFrames,         \* bound on the frames of one connection
    MaxInFlight,       \* bound on the frames not yet read
    MaxMoves,          \* bound on the changes of the venue's book
    MaxDials           \* bound on the connections made

Sides  == {"bid", "offer"}
Levels == Sides \X Prices
Never  == -1
NoRow  == [ts |-> Never]

VARIABLES
    now, ctx,    \* the clock; the root context, "live" or "canceled"
    sink,        \* the row writer: "open" or "gone"
    \* the venue and the connection
    vbook, moves, dials, conn, wire,
    \* Stream
    pc, attempt, delay, waited, lived, haveSeq, lastSeq, lastData, gapOpen,
    \* Level2Handler
    book, ready, lastSnap, lastUpdate,
    \* what was recorded: the last row; and histories
    row,         \* the last row submitted
    gapHere,     \* a gap was counted on this connection
    droughtGaps  \* silence gaps counted since data was last seen

clock   == <<now, ctx, sink>>
venue   == <<vbook, moves, dials, conn, wire>>
stream  == <<pc, attempt, delay, waited, lived, haveSeq, lastSeq, lastData, gapOpen>>
handler == <<book, ready, lastSnap, lastUpdate>>
seen    == <<row, gapHere, droughtGaps>>
vars    == <<clock, venue, stream, handler, seen>>

-----------------------------------------------------------------------------
(* book.go.  A book is a function from the levels it holds to their sizes. *)

Books  == UNION {[S -> 1..MaxQty] : S \in SUBSET Levels}
noBook == [l \in {} |-> 0]

BookStreamAssumption ==
    /\ Prices \subseteq Nat /\ IsFiniteSet(Prices) /\ {MaxQty, bookDepth, Interval, Quiet, readTimeout} \subseteq Nat \ {0}
    /\ {backoffResetAfter, BackoffBase, BackoffMax, MaxTime} \subseteq Nat
    /\ OpeningBooks \subseteq Books

(* apply: a size of zero deletes the level.                                *)
apply(b, ups) ==
    LET kept == {l \in DOMAIN b \cup DOMAIN ups : l \in DOMAIN ups => ups[l] > 0}
    IN  [l \in kept |-> IF l \in DOMAIN ups THEN ups[l] ELSE b[l]]

better(side, p, q) == IF side = "bid" THEN p > q ELSE p < q

pricesOf(b, side) == {l[2] : l \in {k \in DOMAIN b : k[1] = side}}

(* sort.Slice, by what it promises.                                        *)
sorted(P, side) ==
    CHOOSE s \in [1..Cardinality(P) -> P] :
        \A i, j \in DOMAIN s : i < j => better(side, s[i], s[j])

top(b, side) ==
    LET P == pricesOf(b, side)
    IN  [i \in 1..Min({bookDepth, Cardinality(P)}) |->
           [px |-> sorted(P, side)[i], qty |-> b[<<side, sorted(P, side)[i]>>]]]

sum(f) == LET upTo[i \in 0..Len(f)] == IF i = 0 THEN 0 ELSE upTo[i - 1] + f[i] IN upTo[Len(f)]

totalDepth(levels) == sum([i \in DOMAIN levels |-> levels[i].qty])
notional(levels)   == sum([i \in DOMAIN levels |-> levels[i].px * levels[i].qty])

(* A quotient is kept as <<numerator, denominator>>; none is <<>>.         *)
ratio(n, d)         == IF d = 0 THEN <<>> ELSE <<n, d>>
imbalance(bs, as)   == ratio(totalDepth(bs) - totalDepth(as), totalDepth(bs) + totalDepth(as))
impactPrice(levels) == ratio(notional(levels), totalDepth(levels))
best(levels)        == IF levels = <<>> THEN Never ELSE levels[1].px

snapshot(ts, b) ==
    LET bids == top(b, "bid")
        asks == top(b, "offer")
    IN  [ts |-> ts, bids |-> bids, asks |-> asks,
         bestBid |-> best(bids), bestAsk |-> best(asks),
         imbalanceTopN |-> imbalance(bids, asks),
         impactBid |-> impactPrice(bids), impactAsk |-> impactPrice(asks)]

(* Backoff.delay: exponential, capped, then equal jitter over the upper    *)
(* half.                                                                   *)
backoffDelays(n) ==
    LET d == Min({BackoffBase * 2^(n - 1), BackoffMax})
        half == d \div 2
    IN  IF half = 0 THEN {d} ELSE half..(2 * half - 1)

(* Past this attempt the delay no longer grows.                            *)
MaxAttempt == 1 + BackoffMax

Init ==
    /\ now = 0 /\ ctx = "live" /\ sink = "open"
    /\ vbook \in OpeningBooks /\ moves = 0 /\ dials = 0
    /\ conn = [up |-> FALSE] /\ wire = <<>>
    /\ pc = "dial" /\ attempt = 0 /\ delay = 0 /\ waited = 0 /\ lived = 0
    /\ haveSeq = FALSE /\ lastSeq = 0 /\ lastData = Never /\ gapOpen = FALSE
    /\ book = noBook /\ ready = FALSE /\ lastSnap = Never /\ lastUpdate = Never
    /\ row = NoRow /\ gapHere = FALSE /\ droughtGaps = 0

-----------------------------------------------------------------------------
(* The venue.                                                              *)

(* A frame takes the next number whether or not it arrives.                *)
Emit(f) ==
    /\ conn.up /\ ~conn.hung /\ conn.seq <= MaxFrames
    /\ conn' = [conn EXCEPT !.seq = @ + 1, !.snapped = @ \/ f.kind = "snapshot"]
    /\ wire' \in {wire} \cup
         (IF Len(wire) < MaxInFlight THEN {Append(wire, [f EXCEPT !.seq = conn.seq])} ELSE {})

Frame(kind) == [kind |-> kind, seq |-> 0, ups |-> noBook, bad |-> {}, before |-> vbook]
NoneOrOne(S) == {{}} \cup {{x} : x \in S}

SendSnapshot ==
    /\ conn.up /\ ~conn.snapped
    /\ \E bad \in NoneOrOne(DOMAIN vbook) :
          Emit([Frame("snapshot") EXCEPT !.ups = vbook, !.bad = bad])
    /\ UNCHANGED <<clock, vbook, moves, dials, stream, handler, seen>>

(* The book moves by a level; a subscriber that has its snapshot is told.  *)
VenueMove ==
    /\ moves < MaxMoves
    /\ moves' = moves + 1
    /\ \E l \in Levels, q \in 0..MaxQty :
          LET ups == [k \in {l} |-> q] IN
          /\ apply(vbook, ups) # vbook
          /\ vbook' = apply(vbook, ups)
          /\ IF conn.up /\ conn.snapped /\ ~conn.hung
               THEN \E bad \in NoneOrOne({l}) :
                      Emit([Frame("update") EXCEPT !.ups = ups, !.bad = bad])
               ELSE UNCHANGED <<conn, wire>>
    /\ UNCHANGED <<clock, dials, stream, handler, seen>>

(* Heartbeats and acknowledgements; an error frame or bytes that are no    *)
(* JSON, which are fatal.                                                  *)
SendOther ==
    /\ conn.up
    /\ \E k \in {"heartbeat", "fatal"} : Emit(Frame(k))
    /\ UNCHANGED <<clock, vbook, moves, dials, stream, handler, seen>>

(* The peer goes away without closing, and nothing more arrives.           *)
Hang ==
    /\ conn.up /\ ~conn.hung
    /\ conn' = [conn EXCEPT !.hung = TRUE]
    /\ UNCHANGED <<clock, vbook, moves, dials, wire, stream, handler, seen>>

-----------------------------------------------------------------------------
(* Stream.Run and session.                                                 *)

closed == /\ conn' = [up |-> FALSE] /\ wire' = <<>>

stop ==
    /\ pc' = "done" /\ closed
    /\ UNCHANGED <<attempt, delay, waited, lived, haveSeq, lastSeq>>

(* The tail of Run after a session ended: start the schedule over when the *)
(* connection lived long enough, then reconnect after a delay.             *)
backOff ==
    LET n == IF lived >= backoffResetAfter THEN 1 ELSE Min({attempt + 1, MaxAttempt}) IN
    /\ attempt' = n /\ pc' = "backoff" /\ closed
    /\ delay' \in backoffDelays(n)
    /\ waited' = 0 /\ lived' = 0

(* ctx.Err() after the session, in the loop's test and in sleepCtx.        *)
Canceled ==
    /\ ctx = "canceled" /\ pc # "done"
    /\ stop
    /\ UNCHANGED <<clock, vbook, moves, dials, lastData, gapOpen, handler, seen>>

BackoffOver ==
    /\ pc = "backoff" /\ waited >= delay
    /\ pc' = "dial" /\ waited' = 0 /\ lived' = 0
    /\ UNCHANGED <<clock, venue, attempt, delay, haveSeq, lastSeq, lastData, gapOpen,
                   handler, seen>>

(* A dial or a subscribe that fails: the book and its flags stay.          *)
DialFails ==
    /\ pc = "dial" /\ ctx = "live"
    /\ backOff
    /\ UNCHANGED <<clock, vbook, moves, dials, haveSeq, lastSeq, lastData, gapOpen, handler, seen>>

connected ==
    /\ pc = "dial" /\ ctx = "live" /\ dials < MaxDials
    /\ dials' = dials + 1
    /\ conn' = [up |-> TRUE, seq |-> 1, snapped |-> FALSE, hung |-> FALSE] /\ wire' = <<>>
    /\ pc' = "read" /\ waited' = 0
    /\ haveSeq' = FALSE
    /\ gapHere' = FALSE
    /\ UNCHANGED <<clock, vbook, moves, attempt, delay, lived, lastSeq, lastData,
                   row, droughtGaps>>

Reset ==
    /\ book' = noBook /\ ready' = FALSE /\ lastUpdate' = Never

SubscribedReopens ==
    /\ connected /\ Reset /\ gapOpen' = FALSE /\ UNCHANGED lastSnap
(* Dial and subscribe succeed: only now is the handler reset.              *)
Subscribed ==
    /\ connected /\ Reset /\ UNCHANGED <<lastSnap, gapOpen>>

ReadDies ==
    /\ pc = "read" /\ ctx = "live" /\ wire = <<>> /\ ~conn.hung
    /\ backOff
    /\ UNCHANGED <<clock, vbook, moves, dials, haveSeq, lastSeq, lastData, gapOpen, handler, seen>>
(* The read deadline passes, or the peer closes the connection.            *)
ReadFails ==
    /\ pc = "read" /\ ctx = "live" /\ wire = <<>>
    /\ ~conn.hung \/ waited >= readTimeout
    /\ backOff
    /\ UNCHANGED <<clock, vbook, moves, dials, haveSeq, lastSeq, lastData, gapOpen, handler, seen>>

-----------------------------------------------------------------------------
(* dispatch.                                                               *)

sequenceGap(f) == haveSeq /\ f.seq # lastSeq + 1

silenceGap == lastData # Never /\ ~gapOpen /\ now - lastData > Quiet

boundary == now - (now % Interval)

(* Tick: due when the book is complete, alive and not yet written for this *)
(* boundary.                                                               *)
tickDue == ready /\ now - lastUpdate <= Quiet /\ boundary > lastSnap

isData(f) == f.kind \in {"snapshot", "update"}

(* Handle: a snapshot starts the book over, an update before it is         *)
(* skipped, a level that does not parse is skipped and reported.           *)
handled(f) ==
    LET snap == f.kind = "snapshot"
        base == IF snap THEN noBook ELSE book
        good == [l \in DOMAIN f.ups \ f.bad |-> f.ups[l]]
    IN  IF isData(f) /\ (snap \/ ready)
          THEN /\ book' = apply(base, good) /\ ready' = TRUE /\ lastUpdate' = now
          ELSE UNCHANGED <<book, ready, lastUpdate>>

handlerError(f) == isData(f) /\ (f.kind = "snapshot" \/ ready) /\ f.bad # {}

(* Whether the frame is counted as a gap, for any reason but silence.      *)
gapOfIgnoringOrder(f) == handlerError(f)
gapOf(f) == sequenceGap(f) \/ handlerError(f)

(* A frame that ends the connection: not JSON, or the venue's error frame. *)
DispatchFatal ==
    /\ pc = "read" /\ ctx = "live" /\ wire # <<>>
    /\ Head(wire).kind = "fatal"
    /\ backOff
    /\ UNCHANGED <<clock, vbook, moves, dials, haveSeq, lastSeq, lastData, gapOpen, handler, seen>>

(* Sequence, silence, Tick, then the frame itself.  A Tick whose submit    *)
(* finds the writer gone ends the stream with lastSnap already moved.      *)
Dispatch ==
    /\ pc = "read" /\ ctx = "live" /\ wire # <<>>
    /\ LET f == Head(wire) IN
       /\ f.kind # "fatal"
       /\ lastSeq' = f.seq /\ haveSeq' = TRUE
       /\ lastSnap' = IF tickDue THEN boundary ELSE lastSnap
       /\ IF tickDue /\ sink = "gone"
            THEN /\ pc' = "done" /\ closed
                 /\ gapOpen' = (gapOpen \/ silenceGap)
                 /\ UNCHANGED <<attempt, delay, waited, lived, lastData, book, ready, lastUpdate, seen>>
            ELSE /\ row' = IF tickDue THEN snapshot(boundary, book) ELSE row
                 /\ handled(f)
                 /\ lastData' = IF isData(f) THEN now ELSE lastData
                 /\ gapOpen' = ((gapOpen \/ silenceGap) /\ ~isData(f))
                 /\ droughtGaps' = IF isData(f) THEN 0
                                   ELSE droughtGaps + (IF silenceGap THEN 1 ELSE 0)
                 /\ gapHere' = (gapHere \/ gapOf(f))
                 /\ wire' = Tail(wire) /\ waited' = 0
                 /\ UNCHANGED <<pc, attempt, delay, lived, conn>>
    /\ UNCHANGED <<clock, vbook, moves, dials>>

Cancel ==
    /\ ctx = "live" /\ ctx' = "canceled"
    /\ UNCHANGED <<now, sink, venue, stream, handler, seen>>

(* The writer stops after it is canceled or when it gives up.              *)
WriterGone ==
    /\ sink = "open" /\ sink' = "gone"
    /\ UNCHANGED <<now, ctx, venue, stream, handler, seen>>

(* The clock stops at its bound; the timers do not.                        *)
AdvanceClock ==
    /\ now' = Min({now + 1, MaxTime})
    /\ waited' = Min({waited + 1, Max({readTimeout, BackoffMax})})
    /\ lived' = Min({lived + 1, backoffResetAfter})
    /\ UNCHANGED <<ctx, sink, venue, pc, attempt, delay, haveSeq, lastSeq, lastData, gapOpen,
                   handler, seen>>

StreamStep ==
    \/ Canceled \/ BackoffOver \/ DialFails \/ Subscribed
    \/ ReadFails \/ DispatchFatal \/ Dispatch

Next ==
    \/ SendSnapshot \/ VenueMove \/ SendOther \/ Hang
    \/ StreamStep \/ Cancel \/ WriterGone \/ AdvanceClock

Spec == Init /\ [][Next]_vars /\ WF_vars(StreamStep) /\ WF_vars(AdvanceClock)

-----------------------------------------------------------------------------
(* The state's types; a book holds no level of size zero (book.apply).     *)
TypeOK ==
    /\ now \in 0..MaxTime /\ ctx \in {"live", "canceled"} /\ sink \in {"open", "gone"}
    /\ pc \in {"dial", "read", "backoff", "done"} /\ attempt \in 0..MaxAttempt
    /\ {vbook, book} \subseteq Books
    /\ {ready, haveSeq, gapOpen, gapHere} \subseteq BOOLEAN
    /\ {lastData, lastSnap, lastUpdate} \subseteq {Never} \cup 0..MaxTime

(* The side of a row is the bookDepth best levels of a book, best first.   *)
SideIs(levels, b, side) ==
    LET present == pricesOf(b, side) IN
    /\ Len(levels) = Min({bookDepth, Cardinality(present)})
    /\ \A i \in DOMAIN levels :
          /\ levels[i].px \in present /\ levels[i].qty = b[<<side, levels[i].px>>]
          /\ Cardinality({p \in present : better(side, p, levels[i].px)}) = i - 1

(* A recorded row shows the venue's own book as it stood before the frame  *)
(* that made it due, unless a gap was counted on this connection: a lost   *)
(* frame, a lost snapshot or a garbled level never spoils a row silently,  *)
(* and nothing of an earlier connection survives in it (Stream.session,    *)
(* checkSequence, Level2Handler.Reset, Handle, Tick, book.top).            *)
RowIsVenueBook ==
    [][row' # row /\ ~gapHere' =>
         LET b == Head(wire).before IN
         /\ SideIs(row'.bids, b, "bid") /\ SideIs(row'.asks, b, "offer")
         /\ (row'.imbalanceTopN = <<>>) <=> (b = noBook)
         /\ row'.bids # <<>> => row'.impactBid[1] <= row'.bestBid * row'.impactBid[2]]_vars

(* However often the stream reconnects, the rows' boundaries only advance  *)
(* (Level2Handler.lastSnap outlives Reset).                                *)
RowAdvances == row' # row => row'.ts > row.ts

(* One drought of the data channel is one gap, also when the connection is *)
(* replaced in the middle of it (Stream.checkSilence, gapOpen).            *)
OneGapPerDrought == droughtGaps <= 1

(* A connection on which nothing arrives any more is left (the read        *)
(* deadline of Stream.session).                                            *)
DeadSocketLeft == (conn.up /\ conn.hung) ~> ~conn.up

(* A canceled stream returns, from a read, a dial or a backoff delay       *)
(* (Stream.Run, sleepCtx).                                                 *)
StreamStops == (ctx = "canceled") ~> (pc = "done")
=============================================================================
