---------------------------- MODULE MCSnapshots -----------------------------
(***************************************************************************)
(* The two series with a row a boundary, for TLC: the level2 book over its *)
(* stream (BookStream) and the venue-state sampler (S).  They share no     *)
(* state, so a behaviour runs one of them and the other rests where it     *)
(* starts.                                                                 *)
(***************************************************************************)
EXTENDS BookStream, TLC

CONSTANTS  \* of the sampler
    interval, maxQuoteAge, maxMarkAge, maxFundingAge, maxSessionAge, Closed, Lateness, Busy,
    SamplerTime, SamplerSteps

VARIABLES
    part,  \* what this behaviour runs: "book" or "sampler"
    feeds, snow, steps, obs, isOpen, status, statusAt, pollAt, polled, left, spc, product, at,
    lastBoundary, srow, rows, visited, blocked

(* A grid of two prices and a row of one level a side.                     *)
TwoPrices == {1, 2}
OneBid    == {[l \in {<<"bid", 1>>} |-> 1]}

(* The feeds of the sampler that run together, for how long, and whether   *)
(* the clock is set back meanwhile: quotes and status with a clock that    *)
(* is, the mark and the rate with the REST poll falling anywhere in a row, *)
(* and the timer alone for longer.                                         *)
Silence == {}
Quotes  == {"perp", "spot", "status"}
Marks   == {"marks", "rest"}
Rates   == {"funding", "rest"}
FeedTime  == (Silence :> 9) @@ (Quotes :> 4) @@ (Marks :> 4) @@ (Rates :> 4)
FeedSteps == (Silence :> 0) @@ (Quotes :> 1) @@ (Marks :> 0) @@ (Rates :> 0)

S == INSTANCE Sampler WITH
       MaxTime <- SamplerTime, MaxSteps <- SamplerSteps, now <- snow, pc <- spc, row <- srow

ASSUME SnapshotsAssumption == BookStreamAssumption /\ S!SamplerAssumption

samplerVars == <<feeds, snow, steps, obs, isOpen, status, statusAt, pollAt, polled, left, spc,
                 product, at, lastBoundary, srow, rows, visited, blocked>>

SnapshotsInit ==
    /\ part \in {"book", "sampler"}
    /\ Init
    /\ S!Init
    /\ part # "sampler" => feeds = (CHOOSE f \in DOMAIN SamplerTime : TRUE) /\ snow = 0

SnapshotsNext ==
    \/ part = "book"    /\ Next   /\ UNCHANGED <<part, samplerVars>>
    \/ part = "sampler" /\ S!Next /\ UNCHANGED <<part, vars>>

SnapshotsSpec == SnapshotsInit /\ [][SnapshotsNext]_<<part, vars, samplerVars>>

-----------------------------------------------------------------------------
(* Every boundary once: the boundaries of the book's rows and of each      *)
(* product's sampled rows only advance, across reconnects and a clock      *)
(* stepped back, and with timers at most Lateness late the sampler misses  *)
(* none but those a blocked submit sat through (Level2Handler.Tick,        *)
(* VenueState.sample, runWaiting, untilNextBoundary).                      *)
EachBoundaryOnce ==
    [][RowAdvances /\ S!RowsAdvance /\ S!EveryBoundary']_<<vars, samplerVars>>

(* No sampled row carries a value observed longer before its boundary than *)
(* that column allows, however the observers fall between its three locks  *)
(* (VenueState.rowFor, applyPartFiveLocked, Poller.Poll).                  *)
NothingFrozen == S!NothingFrozen
=============================================================================
