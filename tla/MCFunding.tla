----------------------------- MODULE MCFunding ------------------------------
(***************************************************************************)
(* The funding series for TLC: the hourly runner with its restarts         *)
(* (Funding), the marks it samples (Marks) and the backfill that seeds it  *)
(* (Backfill).  Each models what it needs of the others itself, so a       *)
(* behaviour runs one of them and the other two rest where they start.     *)
(***************************************************************************)
EXTENDS Funding

CONSTANTS
    NoMark, B, Buckets, Grace, markMargin, Beat, MaxLate,      \* of the marks
    BucketCap, MidCap, Showings, MaxReconnects, MarksEnd,
    N, PerpTrades, PageLen, HourLen, SampleLen, ClosedHours, MaxStarts  \* of the backfill

VARIABLES
    part,  \* what this behaviour runs: "runner", "marks" or "backfill"
    mnow, traded, quoted, next, beat, reconnects, uncovered, buckets, mids, gap,
    lastBoundary, fires, sample, observedGap,
    venue, bars, accrual, starts, bpc, have, gaps, todo, product, to, fetched, hours, failed

SecondHour == {1}

(* Minutes in which both products trade, in which one only does, at       *)
(* another volume, and in which the perp is only quoted, or not even that. *)
trade(px, vol) == [px |-> px, vol |-> vol]
minute(tp, ts, qp) ==
    [traded |-> [perp |-> tp, spot |-> ts], quoted |-> [perp |-> qp, spot |-> NoMark]]
TradedAndQuoted ==
    {minute(trade(4, 1), trade(2, 1), NoMark), minute(trade(8, 3), NoMark, 6),
     minute(NoMark, trade(2, 1), 6), minute(NoMark, trade(2, 1), 10),
     minute(NoMark, trade(2, 1), NoMark)}

M == INSTANCE Marks WITH
       None <- NoMark, K <- Buckets, MaxTime <- MarksEnd, now <- mnow

(* A perp that traded in every minute of six or in two of them.            *)
TwoOrAll == {{0, 3}, 0..5}
K == INSTANCE Backfill WITH Closed <- ClosedHours, pc <- bpc

ASSUME SeriesAssumption == M!MarksAssumption /\ K!BackfillAssumption

marksVars    == <<mnow, traded, quoted, next, beat, reconnects, uncovered, buckets, mids, gap,
                  lastBoundary, fires, sample, observedGap>>
backfillVars == <<venue, bars, accrual, starts, bpc, have, gaps, todo, product, to, fetched,
                  hours, failed>>

SeriesInit ==
    /\ part \in {"runner", "marks", "backfill"}
    /\ Init
    /\ M!Init
    /\ K!Init
    /\ part # "backfill" => bars["spot"] = {} /\ Cardinality(venue["perp"]) = 2

SeriesNext ==
    \/ part = "runner"   /\ Next   /\ UNCHANGED <<part, marksVars, backfillVars>>
    \/ part = "marks"    /\ M!Next /\ UNCHANGED <<part, vars, backfillVars>>
    \/ part = "backfill" /\ K!Next /\ UNCHANGED <<part, vars, marksVars>>

SeriesSpec == SeriesInit /\ [][SeriesNext]_<<part, vars, marksVars, backfillVars>>

-----------------------------------------------------------------------------
(* The runner leaves no hour behind: an hour whose samples it all saw has  *)
(* its row once it has passed it, and between two wakes it has dealt with  *)
(* every hour completed before the last (FundingRunner.Run, Emit).         *)
NoHourLeft == [][HoursKept /\ CaughtUp']_vars

(* A mark rests on every bucket of its own window and on nothing of        *)
(* another, whenever the frames come that close the buckets and however    *)
(* late the timer fires; and a mark that is carried moves by the gap last  *)
(* observed, so carrying never drifts (Marks.Run, vwapOver,                *)
(* markPairLocked).                                                        *)
MarkIsWhole == [][M!WholeMark /\ M!CarriedGapIsObserved']_marksVars

(* The backfill asks for what is missing and for nothing else: the ranges  *)
(* are the maximal runs of minutes without a spot candle, and a page stays *)
(* inside its range (missingRanges, Backfill.bars).                        *)
AsksForGaps == K!GapsExact /\ K!PagesStayInside

(* However often pages failed or the process died before, a run that       *)
(* finishes with every page loaded leaves the spot series complete         *)
(* (Backfill.gather).                                                      *)
SpotHeals == K!SpotHeals
=============================================================================
