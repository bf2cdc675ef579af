----------------------------- MODULE MCHandlers -----------------------------
(***************************************************************************)
(* The stream handlers for TLC.  The market_trades handler runs under two  *)
(* sets of constants, narrow buckets over several connections (R) and wide *)
(* ones over one (B), the candles handler (C) under one.  Handlers share   *)
(* no state, so a behaviour runs one and the others rest.                  *)
(***************************************************************************)
EXTENDS Integers

CONSTANTS
    Narrow, Wide,  \* two settings of the market_trades handler
    Window, Outage, MaxCandle, MaxChange, MaxConns  \* of the candles handler

VARIABLES
    handler,  \* what this behaviour runs: "reconnects", "bursts" or "candles"
    tnow, tape, up, conns, twire, sent, handled, next, open, batchMax, lostFrom,
    rows, first, reported, regressed,
    hist, cup, cconns, cwire, missed, lastStart, seeded, newest, pending,
    crows, writes, loaded, jumped, garbled

kind(side, px, sz) == [side |-> side, px |-> px, sz |-> sz]

(* Three connections and two trades of three kinds, buckets of two units.  *)
NarrowBuckets ==
    [Kinds |-> {kind("BUY", 1, 2), kind("UNKNOWN", 2, 1), kind("OTHER", 1, 1)},
     Interval |-> 2, lateGrace |-> 1, sweepWindow |-> 1, minSweepTrades |-> 2, Lag |-> 1,
     MaxTime |-> 6, MaxTrades |-> 2, MaxInFlight |-> 1, MaxConns |-> 3]

(* One connection and four trades in wider buckets: bursts of every shape. *)
WideBuckets ==
    [Kinds |-> {kind("BUY", 1, 1), kind("SELL", 1, 1)},
     Interval |-> 4, lateGrace |-> 0, sweepWindow |-> 1, minSweepTrades |-> 2, Lag |-> 0,
     MaxTime |-> 8, MaxTrades |-> 4, MaxInFlight |-> 1, MaxConns |-> 1]

R == INSTANCE Trades WITH
       Kinds <- Narrow.Kinds, Interval <- Narrow.Interval, lateGrace <- Narrow.lateGrace,
       sweepWindow <- Narrow.sweepWindow, minSweepTrades <- Narrow.minSweepTrades,
       Lag <- Narrow.Lag, MaxTime <- Narrow.MaxTime, MaxTrades <- Narrow.MaxTrades,
       MaxInFlight <- Narrow.MaxInFlight, MaxConns <- Narrow.MaxConns,
       now <- tnow, wire <- twire

B == INSTANCE Trades WITH
       Kinds <- Wide.Kinds, Interval <- Wide.Interval, lateGrace <- Wide.lateGrace,
       sweepWindow <- Wide.sweepWindow, minSweepTrades <- Wide.minSweepTrades,
       Lag <- Wide.Lag, MaxTime <- Wide.MaxTime, MaxTrades <- Wide.MaxTrades,
       MaxInFlight <- Wide.MaxInFlight, MaxConns <- Wide.MaxConns,
       now <- tnow, wire <- twire

C == INSTANCE Candles WITH up <- cup, conns <- cconns, wire <- cwire, rows <- crows

ASSUME HandlersAssumption == R!TradesAssumption /\ B!TradesAssumption /\ C!CandlesAssumption

tradesVars  == <<tnow, tape, up, conns, twire, sent, handled, next, open, batchMax, lostFrom,
                 rows, first, reported, regressed>>
candlesVars == <<hist, cup, cconns, cwire, missed, lastStart, seeded, newest, pending,
                 crows, writes, loaded, jumped, garbled>>

HandlersInit ==
    /\ handler \in {"reconnects", "bursts", "candles"}
    /\ R!Init
    /\ C!Init

HandlersNext ==
    \/ handler = "reconnects" /\ R!Next /\ UNCHANGED <<handler, candlesVars>>
    \/ handler = "bursts"     /\ B!Next /\ UNCHANGED <<handler, candlesVars>>
    \/ handler = "candles"    /\ C!Next /\ UNCHANGED <<handler, tradesVars>>

HandlersSpec == HandlersInit /\ [][HandlersNext]_<<handler, tradesVars, candlesVars>>

-----------------------------------------------------------------------------
(* A trades row is the aggregate of exactly the trades the venue made in   *)
(* that bucket, whatever connections carried them, as long as frames are   *)
(* handled within the grace, and its sweeps are the bursts of the bucket   *)
(* (TradesHandler.Reset, admitTrade, elapsed, aggregate, countSweeps).     *)
RowIsWhole == IF handler = "bursts" THEN B!RowIsWhole /\ B!SweepsAreBursts
                                 ELSE R!RowIsWhole /\ R!SweepsAreBursts

(* Every hole is told and none is made up: a bucket is in the series or    *)
(* was reported, a hole in the bars was counted unless the first message   *)
(* has it, and a venue that sends its trades in order is never taken for   *)
(* one that replays a stale view (TradesHandler.Reset, lostFrom,           *)
(* checkBatchOrder, CandlesHandler.writeClosed).                           *)
HolesAreTold ==
    /\ IF handler = "bursts" THEN B!HolesAreReported ELSE R!HolesAreReported
    /\ C!HolesAreCounted
    /\ R!NoFalseRegression

(* Bars are written once each, in the order of their starts and, with      *)
(* every candle parsed and an outage shorter than the replay window, with  *)
(* the candle's final values (productCandles.record, closed, writeClosed). *)
BarsAreFinal == C!BarsInOrder /\ C!BarIsFinal
=============================================================================
