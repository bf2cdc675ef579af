------------------------------ MODULE Backfill ------------------------------
(***************************************************************************)
(* The gap-driven backfill (ingest/backfill.go), which runs once on every  *)
(* start of ingest: read the stored candles, find the ranges that are      *)
(* missing, page through the candle endpoint for both products, store what *)
(* came, and reconstruct the funding hours that are not recorded yet.      *)
(* A page may fail to load and the process may die between any two steps;  *)
(* what was stored stays.                                                  *)
(*                                                                         *)
(* Time is in minutes of a fixed window; a candle is its start.  The venue *)
(* is external: its spot product has a candle for every minute, the perp   *)
(* only for the minutes in which it traded.                                *)
(***************************************************************************)
EXTENDS Integers, Sequences, FiniteSets, FiniteSetsExt

CONSTANTS
    N,          \* minutes in the window
    PerpTrades, \* the sets of minutes in which the perp may have traded
    PageLen,    \* MaxCandlesPerRequest
    HourLen,    \* minutes of an hour
    SampleLen,  \* minutes of a sample
    MinSamples, \* MinSamplesPerHour
    Closed,     \* hours of the maintenance window
    MaxStarts   \* bound on the starts of the process

BackfillAssumption ==
    /\ {N, PageLen, HourLen, SampleLen, MinSamples, MaxStarts} \subseteq Nat \ {0}
    /\ PerpTrades \subseteq SUBSET (0..(N - 1))

Products == {"perp", "spot"}
Minutes  == 0..(N - 1)
Hours    == {m \in Minutes : m % HourLen = 0}

VARIABLES
    venue,   \* the candles the venue has, of each product
    bars,    \* cb_bars: the candles stored
    accrual, \* funding_events: hour |-> samples its rate was computed from
    starts, pc,
    have,    \* the candles of this run: stored and fetched
    gaps,    \* the ranges still to fetch
    todo,    \* the products still to fetch over the first of them
    product, to, fetched,  \* one call of b.bars
    hours,   \* the hours still to compute
    failed   \* a page failed to load in this run

vars == <<venue, bars, accrual, starts, pc, have, gaps, todo, product, to, fetched, hours, failed>>
fetching == <<gaps, todo, product, to, fetched>>

noRates == [h \in {} |-> 0]

(* What is stored to begin with is what some download covered.             *)
Init ==
    /\ \E t \in PerpTrades, covered \in SUBSET Minutes :
          /\ venue = [perp |-> t, spot |-> Minutes]
          /\ bars = [p \in Products |-> venue[p] \cap covered]
    /\ accrual = noRates
    /\ starts = 0 /\ pc = "down" /\ have = [p \in Products |-> {}]
    /\ gaps = <<>> /\ todo = {} /\ product = "none" /\ to = 0 /\ fetched = {}
    /\ hours = {} /\ failed = FALSE

-----------------------------------------------------------------------------
(* missingRanges: the missing minutes coalesced into half-open spans.      *)

scan(acc, m, present) ==
    IF m \in present
      THEN [out |-> IF acc.open = <<>> THEN acc.out ELSE Append(acc.out, acc.open[1]), open |-> <<>>]
      ELSE [out |-> acc.out,
            open |-> <<[from |-> IF acc.open = <<>> THEN m ELSE acc.open[1].from, to |-> m + 1]>>]

scanned(present) ==
    LET upTo[n \in 0..N] ==
          IF n = 0 THEN [out |-> <<>>, open |-> <<>>] ELSE scan(upTo[n - 1], n - 1, present)
    IN  upTo[N]

missingRangesInner(present) == scanned(present).out
missingRanges(present) == scanned(present).out \o scanned(present).open

(* MarkSamplesFromCandles: a window is marked when both products traded in *)
(* it.  RateForHour: the hour's windows, when there are enough.            *)
marked(b, w)      == \A p \in Products : \E m \in w..(w + SampleLen - 1) : m \in b[p]
samplesIn(b, h)   ==
    Cardinality({w \in h..(h + HourLen - 1) : w % SampleLen = 0 /\ marked(b, w)})

-----------------------------------------------------------------------------
(* Run: stored, then coverage judged on spot and applied to both.          *)
Start ==
    /\ pc = "down" /\ starts < MaxStarts
    /\ starts' = starts + 1 /\ failed' = FALSE
    /\ have' = bars
    /\ gaps' = missingRanges(bars["spot"])
    /\ todo' = Products /\ product' = "none" /\ to' = 0 /\ fetched' = {}
    /\ pc' = "gather"
    /\ UNCHANGED <<venue, bars, accrual, hours>>

(* The products of a range are fetched in the order of a map.              *)
FetchBegin ==
    /\ pc = "gather" /\ gaps # <<>> /\ product = "none"
    /\ product' \in todo
    /\ to' = Head(gaps).to /\ fetched' = {}
    /\ UNCHANGED <<venue, bars, accrual, starts, pc, have, gaps, todo, hours, failed>>

(* A page never reaches below the range.                                   *)
pageFrom == Max({to - PageLen, Head(gaps).from})

(* One page, backwards; one that will not load is a hole.                  *)
FetchPage ==
    /\ pc = "gather" /\ product # "none" /\ to > Head(gaps).from
    /\ \/ /\ fetched' = fetched \cup {m \in venue[product] : m >= pageFrom /\ m < to}
          /\ UNCHANGED failed
       \/ /\ failed' = TRUE
          /\ UNCHANGED fetched
    /\ to' = to - PageLen
    /\ UNCHANGED <<venue, bars, accrual, starts, pc, have, gaps, todo, product, hours>>

recordedAsPerp(p) == [bars EXCEPT !["perp"] = @ \cup fetched]
(* Each candle is submitted as a row of its own product.                   *)
recorded(p) == [bars EXCEPT ![p] = @ \cup fetched]

(* The candles of one product and range are stored.                        *)
FetchStore ==
    /\ pc = "gather" /\ product # "none" /\ to <= Head(gaps).from
    /\ have' = [have EXCEPT ![product] = @ \cup fetched]
    /\ bars' = recorded(product)
    /\ product' = "none" /\ fetched' = {} /\ to' = 0
    /\ IF todo = {product}
         THEN gaps' = Tail(gaps) /\ todo' = Products
         ELSE todo' = todo \ {product} /\ UNCHANGED gaps
    /\ UNCHANGED <<venue, accrual, starts, pc, hours, failed>>

(* hoursToCompute: not recorded, not maintenance.                          *)
BeginFunding ==
    /\ pc = "gather" /\ gaps = <<>>
    /\ hours' = {h \in Hours : h \notin DOMAIN accrual /\ h \notin Closed}
    /\ pc' = "funding"
    /\ UNCHANGED <<venue, bars, accrual, starts, have, fetching, failed>>

(* Series: the oldest hour first; an hour that cannot be marked is skipped.*)
ComputeHour ==
    /\ pc = "funding" /\ hours # {}
    /\ LET h == Min(hours) IN
       /\ hours' = hours \ {h}
       /\ accrual' = IF samplesIn(have, h) < MinSamples THEN accrual
                     ELSE [x \in DOMAIN accrual \cup {h} |->
                             IF x = h THEN samplesIn(have, h) ELSE accrual[x]]
    /\ UNCHANGED <<venue, bars, starts, pc, have, fetching, failed>>

Done ==
    /\ pc = "funding" /\ hours = {}
    /\ pc' = "done"
    /\ UNCHANGED <<venue, bars, accrual, starts, have, fetching, hours, failed>>

(* The process ends, in the middle of a backfill or long after it.         *)
Die ==
    /\ pc # "down"
    /\ pc' = "down" /\ have' = [p \in Products |-> {}]
    /\ gaps' = <<>> /\ todo' = {} /\ product' = "none" /\ to' = 0 /\ fetched' = {}
    /\ hours' = {}
    /\ UNCHANGED <<venue, bars, accrual, starts, failed>>

Next ==
    \/ Start \/ FetchBegin \/ FetchPage \/ FetchStore
    \/ BeginFunding \/ ComputeHour \/ Done \/ Die

Spec == Init /\ [][Next]_vars

-----------------------------------------------------------------------------
(* The ranges to fetch are the maximal runs of minutes without a spot      *)
(* candle, in order (missingRanges): nothing missing is left out, nothing  *)
(* stored is asked for again.                                              *)
GapsExact ==
    pc = "gather" /\ todo = Products /\ product = "none" =>
        /\ \A i \in DOMAIN gaps :
              /\ \A m \in gaps[i].from..(gaps[i].to - 1) : m \notin have["spot"]
              /\ gaps[i].from < gaps[i].to
              /\ i > 1 => gaps[i].from > gaps[i - 1].to
        /\ ~failed => \A m \in Minutes \ have["spot"] :
                          \E i \in DOMAIN gaps : m \in gaps[i].from..(gaps[i].to - 1)

(* A page asks for minutes of its range only (Backfill.bars).              *)
PagesStayInside ==
    product # "none" => \A m \in fetched : m \in Head(gaps).from..(Head(gaps).to - 1)

(* However often pages failed or the process died before, a run that       *)
(* finishes with every page loaded leaves the spot series complete         *)
(* (Backfill.gather).                                                      *)
SpotHeals == pc = "done" /\ ~failed => bars["spot"] = venue["spot"]

(* "The recoverable half self-heals": a run that finishes with every page  *)
(* loaded leaves both series complete.                                     *)
HistoryHeals == pc = "done" /\ ~failed => bars = venue

(* "Anyone can recompute the series from cb_bars and get the same answer": *)
(* a recorded rate was computed from the samples that cb_bars holds.       *)
RecomputeAgrees ==
    pc = "done" => \A h \in DOMAIN accrual : accrual[h] = samplesIn(bars, h)
=============================================================================
