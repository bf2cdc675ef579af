------------------------------- MODULE Marks --------------------------------
(***************************************************************************)
(* The three-minute marks (marks.go): trade buckets from the market_trades *)
(* stream and quotes from the ticker stream come in on two goroutines, and *)
(* a third takes the mark of each window, markDelay after its end.  The    *)
(* bucket of a minute is closed by the first frame that comes lateGrace    *)
(* after its end (trades.go: Tick, modelled in full in Trades).            *)
(*                                                                         *)
(* A bucket has the volume and the price it traded at, or did not trade; a *)
(* product is quoted once a bucket or not at all.                          *)
(***************************************************************************)
EXTENDS Integers, Sequences

CONSTANTS
    None,           \* no trade, no quote, no mark, no next bucket
    B,              \* length of a bucket
    K,              \* buckets in a window
    Grace,          \* lateGrace
    markMargin,     \* what markDelay adds to it
    Beat,           \* frames of the trades stream are at most this far apart
    MaxLate,        \* the sampling timer fires at most this late
    BucketCap,      \* buckets kept for a product
    MidCap,         \* mids kept for a product
    Showings,       \* what the products may trade at and be quoted at in a bucket
    MaxReconnects,  \* bound on the reconnects of the trades stream
    MaxTime         \* bound on the clock

Products == {"perp", "spot"}
W == B * K

MarksAssumption ==
    /\ {B, K, markMargin, Beat, BucketCap, MidCap} \subseteq Nat \ {0}
    /\ {Grace, MaxLate, MaxReconnects, MaxTime} \subseteq Nat
    /\ None \notin Int
    /\ \A m \in Showings :
          /\ m.traded \in [Products -> [px : Nat, vol : Nat \ {0}] \cup {None}]
          /\ m.quoted \in [Products -> Nat \cup {None}]

markAtOnce == 0
(* How long after its end a window is marked.                              *)
markDelay == Grace + markMargin

VARIABLES
    now,
    traded, quoted,      \* what the venue showed: bucket start |-> per product
    next,                \* the trades handler's next bucket, None after a reset
    beat, reconnects,    \* time since its last frame; reconnects so far
    uncovered,           \* buckets its resets dropped
    buckets, mids, gap,  \* Marks
    lastBoundary, fires, \* the last window marked; when the timer is due
    sample, observedGap  \* the last window's marks; the last gap of two observed

world   == <<now, traded, quoted>>
handler == <<next, beat, reconnects, uncovered>>
memory  == <<buckets, mids, gap, lastBoundary, fires, sample, observedGap>>
vars    == <<world, handler, memory>>

(* The oldest moment of a window that is still to be marked, before t.     *)
reach == W + markDelay + MaxLate

truncate(t, d) == t - (t % d)
untilNextBoundary(t, d) == truncate(t, d) + d - t

Init ==
    /\ now = 0
    /\ traded = [t \in {0} |-> [p \in Products |-> None]] /\ quoted = traded
    /\ next = None /\ beat = 0 /\ reconnects = 0 /\ uncovered = {0}
    /\ buckets = [p \in Products |-> <<>>] /\ mids = [p \in Products |-> <<>>]
    /\ gap = None /\ observedGap = None
    /\ lastBoundary = 0 /\ fires = W + markDelay
    /\ sample = [end |-> 0, perp |-> None, spot |-> None]

(* trim: the newest max observations.                                      *)
trim(s, max) == IF Len(s) <= max THEN s ELSE SubSeq(s, Len(s) - max + 1, Len(s))

-----------------------------------------------------------------------------
(* A minute begins: what it will trade at is settled, and its quotes reach *)
(* ObserveQuote.  A handler that has no next bucket will not admit this    *)
(* one.  What no window still to be marked holds is forgotten.             *)
NewMinute(t, m) ==
    LET kept == {x \in DOMAIN traded : x >= t - reach} IN
    /\ traded' = [x \in kept \cup {t} |-> IF x = t THEN m.traded ELSE traded[x]]
    /\ quoted' = [x \in kept \cup {t} |-> IF x = t THEN m.quoted ELSE quoted[x]]
    /\ uncovered' = (uncovered \cap kept) \cup (IF next = None THEN {t} ELSE {})
    /\ mids' = [p \in Products |->
                  IF m.quoted[p] = None THEN mids[p]
                  ELSE trim(Append(mids[p], [at |-> t, mid |-> m.quoted[p]]), MidCap)]

(* Time passes: no timer and no frame is later than its bound.             *)
AdvanceClock ==
    /\ now < MaxTime
    /\ now < fires + MaxLate /\ beat < Beat
    /\ now' = now + 1 /\ beat' = beat + 1
    /\ IF now' % B = 0
         THEN \E m \in Showings : NewMinute(now', m)
         ELSE UNCHANGED <<traded, quoted, mids, uncovered>>
    /\ UNCHANGED <<next, reconnects, buckets, gap, lastBoundary, fires, sample, observedGap>>

(* The buckets a frame closes, from the next on, and ObserveBucket of each.*)
closing == IF next = None \/ next + B + Grace > now THEN 0 ELSE (now - Grace - next) \div B
observed(p) ==
    trim(buckets[p] \o [i \in 1..closing |->
            [end |-> next + B * i, of |-> traded[next + B * (i - 1)][p]]], BucketCap)

Frame ==
    /\ beat > 0
    /\ beat' = 0
    /\ next' = IF next = None THEN truncate(now, B) + B ELSE next + B * closing
    /\ buckets' = [p \in Products |-> IF next = None THEN buckets[p] ELSE observed(p)]
    /\ UNCHANGED <<world, reconnects, uncovered, mids, gap, lastBoundary, fires, sample, observedGap>>

(* The stream reconnects: its handler drops the buckets it had open.       *)
Reconnect ==
    /\ reconnects < MaxReconnects /\ next # None
    /\ reconnects' = reconnects + 1
    /\ next' = None
    /\ uncovered' = uncovered \cup {b \in DOMAIN traded : b >= next}
    /\ UNCHANGED <<world, beat, memory>>

-----------------------------------------------------------------------------
sum(f) == LET upTo[i \in 0..Len(f)] == IF i = 0 THEN 0 ELSE upTo[i - 1] + f[i] IN upTo[Len(f)]

mean(total, weight) == IF weight > 0 THEN total \div weight ELSE None

(* A bucket belongs to the window its end falls in, a quote to the window  *)
(* it was made in.                                                         *)
vwapOver(p, start, end) ==
    LET s     == buckets[p]
        in(i) == s[i].of # None /\ s[i].end > start /\ s[i].end <= end
    IN  mean(sum([i \in DOMAIN s |-> IF in(i) THEN s[i].of.px * s[i].of.vol ELSE 0]),
             sum([i \in DOMAIN s |-> IF in(i) THEN s[i].of.vol ELSE 0]))
midTWAPOver(p, start, end) ==
    LET s     == mids[p]
        in(i) == s[i].at >= start /\ s[i].at < end
    IN  mean(sum([i \in DOMAIN s |-> IF in(i) THEN s[i].mid ELSE 0]),
             sum([i \in DOMAIN s |-> IF in(i) THEN 1 ELSE 0]))

markLocked(p, start, end) ==
    IF vwapOver(p, start, end) # None THEN vwapOver(p, start, end) ELSE midTWAPOver(p, start, end)

(* The last resort: the other product's mark and the gap they had.         *)
carried(f, s) == [perp |-> IF f = None /\ s # None /\ gap # None THEN s + gap ELSE f,
                  spot |-> IF s = None /\ f # None /\ gap # None THEN f - gap ELSE s]

(* markPairLocked for the window ending at end.                            *)
markPair(end) == carried(markLocked("perp", end - W, end), markLocked("spot", end - W, end))

both(m) == m.perp # None /\ m.spot # None

(* Run and Sample: an unmarkable window gives no sample.                   *)
Sample ==
    /\ now >= fires
    /\ fires' = now + untilNextBoundary(now, W) + markDelay
    /\ LET end == truncate(now, W)
           m   == markPair(end)
       IN  IF end <= lastBoundary
             THEN UNCHANGED <<lastBoundary, gap, sample, observedGap>>
             ELSE /\ lastBoundary' = end
                  /\ gap' = IF both(m) THEN m.perp - m.spot ELSE gap
                  /\ sample' = [end |-> end, perp |-> m.perp, spot |-> m.spot]
                  /\ observedGap' = LET f == markLocked("perp", end - W, end)
                                        s == markLocked("spot", end - W, end)
                                    IN  IF f # None /\ s # None THEN f - s ELSE observedGap
    /\ UNCHANGED <<world, handler, buckets, mids>>

Next == AdvanceClock \/ Frame \/ Reconnect \/ Sample

Spec == Init /\ [][Next]_vars

-----------------------------------------------------------------------------
(* What the window ending at end really showed, taken moment by moment:    *)
(* the mean by volume of what traded in the buckets no reset dropped, or   *)
(* else of what was quoted, or nothing.                                    *)
Shown(p, end) ==
    LET at(x)  == end - W + x - 1
        trades == {b \in DOMAIN traded \ uncovered : traded[b][p] # None}
        quotes == {b \in DOMAIN quoted : quoted[b][p] # None}
        vwap   == mean(sum([x \in 1..W |-> IF at(x) \in trades
                                            THEN traded[at(x)][p].px * traded[at(x)][p].vol ELSE 0]),
                       sum([x \in 1..W |-> IF at(x) \in trades THEN traded[at(x)][p].vol ELSE 0]))
        twap   == mean(sum([x \in 1..W |-> IF at(x) \in quotes THEN quoted[at(x)][p] ELSE 0]),
                       sum([x \in 1..W |-> IF at(x) \in quotes THEN 1 ELSE 0]))
    IN  IF vwap # None THEN vwap ELSE twap

(* "Waiting out lateGrace plus a margin makes the bucket the mark needs    *)
(* already closed": a mark rests on every bucket of its own window and on  *)
(* nothing of another, whenever the frames come that close the buckets and *)
(* however late the timer fires (Marks.Run, Sample, vwapOver).  With both  *)
(* products observed the marks are exactly what the window showed.         *)
WholeMark ==
    lastBoundary' # lastBoundary =>
        \A p \in Products : Shown(p, lastBoundary') # None => sample'[p] = Shown(p, lastBoundary')

(* Carrying never drifts: however many windows in a row one product was    *)
(* marked from the other, the gap carried is the one last observed between *)
(* two products that were both marked on their own (markPairLocked).       *)
CarriedGapIsObserved == gap = observedGap

=============================================================================
