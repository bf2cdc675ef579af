------------------------------ MODULE Funding -------------------------------
(***************************************************************************)
(* The live funding series: the three-minute mark samples (marks.go) that  *)
(* reach FundingRunner (fundingrunner.go), the hourly rate computed from   *)
(* them (funding.go: RateForHour), and the seed a restart takes from the   *)
(* backfill (ingest.go: runBackfill, backfill.go: Run, LatestFundingRate). *)
(*                                                                         *)
(* Time is in sample intervals; hour h covers the samples stamped          *)
(* h*S+1 .. h*S+S.  A sample is taken markDelay after its boundary, within *)
(* the same unit of time as the boundary; the runner's timer fires at the  *)
(* hour or late.  A rate is kept as the hours it rests on: the samples it  *)
(* used and the hour whose rate it was smoothed against.                   *)
(***************************************************************************)
EXTENDS Integers, Sequences, FiniteSets, FiniteSetsExt

CONSTANTS
    S,           \* SamplesPerHour
    MinSamples,  \* MinSamplesPerHour
    Retention,   \* sampleRetention, in sample intervals
    Closed,      \* hours of the maintenance window
    Lateness,    \* the runner's timer fires at most this late
    MaxTime,     \* bound on the clock
    MaxCrashes,  \* bound on the restarts
    Unmarkable   \* whether a window may turn out unmarkable

ASSUME FundingAssumption ==
    /\ {S, MinSamples, MaxTime} \subseteq Nat \ {0} /\ {Retention, Lateness, MaxCrashes} \subseteq Nat
    /\ Unmarkable \in BOOLEAN

None == -1

VARIABLES
    now, crashes,
    up,                            \* "live", or "backfill" before it
    marked,                        \* Marks.lastBoundary
    samples, previous, lastHour,   \* FundingRunner; previous is an hour
    pc, left, hour, newest,        \* its loop: "wait" or "emit"
    rows,                          \* funding_events: hour |-> the rate
    whole                          \* hours this process saw every sample of

clock   == <<now, crashes>>
runner  == <<samples, previous, lastHour, pc, left, hour, newest>>
vars    == <<clock, up, marked, runner, rows, whole>>

HourOf(t) == t \div S
untilNextHour(t) == S * (HourOf(t) + 1) - t
InHour(h) == (h * S + 1)..(h * S + S)

idle ==
    /\ samples = {} /\ previous = None /\ lastHour = None
    /\ pc = "wait" /\ left = untilNextHour(now) /\ hour = None /\ newest = None

Init ==
    /\ now = 0 /\ crashes = 0 /\ up = "live" /\ marked = 0
    /\ idle
    /\ rows = [h \in {} |-> 0] /\ whole = {}

(* The insert's ON CONFLICT DO NOTHING: the first row of an hour stays.    *)
insert(h, rate) == [x \in DOMAIN rows \cup {h} |-> IF x \in DOMAIN rows THEN rows[x] ELSE rate]

-----------------------------------------------------------------------------
(* Marks.Sample and FundingRunner.Observe: one sample a boundary, or none  *)
(* when the window cannot be marked; what is older than the retention goes.*)
Sample ==
    /\ up = "live" /\ marked < now
    /\ marked' = now
    /\ \/ samples' = {x \in samples \cup {now} : x >= now - Retention}
       \/ Unmarkable /\ UNCHANGED samples
    /\ whole' = IF now % S = 0 /\ InHour(HourOf(now) - 1) \subseteq samples'
                  THEN whole \cup {HourOf(now) - 1} ELSE whole
    /\ UNCHANGED <<clock, up, previous, lastHour, pc, left, hour, newest, rows>>

firstUnrecordedNewest(n) == n
(* firstUnrecorded: the hour after the last, no further back than samples. *)
firstUnrecorded(n) ==
    IF lastHour = None THEN n
    ELSE Max({n - Retention \div S, lastHour + 1})

(* The timer fires: every hour completed since the last one recorded.      *)
Wake ==
    /\ up = "live" /\ pc = "wait" /\ left <= 0
    /\ newest' = HourOf(now) - 1
    /\ hour' = firstUnrecorded(HourOf(now) - 1)
    /\ pc' = "emit"
    /\ UNCHANGED <<clock, up, marked, samples, previous, lastHour, left, rows, whole>>

(* RateForHour: the samples inside the hour, and how many there must be.   *)
inHour(h) == samples \cap InHour(h)

emits(h) == (lastHour = None \/ h > lastHour) /\ h \notin Closed
RateForHour(h) == [samples |-> Cardinality(inHour(h)), previous |-> previous]

(* A maintenance hour and an unmarkable one are passed over for good.      *)
advance(h, ok) == Max({h, lastHour})

(* Emit, for each hour in turn.                                            *)
Emit ==
    /\ up = "live" /\ pc = "emit" /\ hour <= newest
    /\ LET ok == emits(hour) /\ Cardinality(inHour(hour)) >= MinSamples IN
       /\ rows' = IF ok THEN insert(hour, RateForHour(hour)) ELSE rows
       /\ previous' = IF ok THEN hour ELSE previous
       /\ lastHour' = advance(hour, ok)
    /\ hour' = hour + 1
    /\ UNCHANGED <<clock, up, marked, samples, pc, left, newest, whole>>

EmitDone ==
    /\ up = "live" /\ pc = "emit" /\ hour > newest
    /\ pc' = "wait" /\ left' = untilNextHour(now) /\ hour' = None
    /\ UNCHANGED <<clock, up, marked, samples, previous, lastHour, newest, rows, whole>>

-----------------------------------------------------------------------------
(* A restart: everything in memory is lost, and the backfill runs first.   *)
Crash ==
    /\ up = "live" /\ crashes < MaxCrashes
    /\ crashes' = crashes + 1 /\ up' = "backfill"
    /\ samples' = {} /\ previous' = None /\ lastHour' = None
    /\ pc' = "wait" /\ left' = 0 /\ hour' = None /\ newest' = None
    /\ whole' = {}
    /\ UNCHANGED <<now, marked, rows>>

(* The smoothing within one backfill starts from nothing (Series).         *)
series(computed, h) ==
    LET earlier == {x \in computed : x < h}
    IN  [samples |-> S, previous |-> IF earlier = {} THEN None ELSE Max(earlier)]

seedAssumed(computed) == HourOf(now) - 1
(* Result.Last: the newest hour this run computed, or else the newest one  *)
(* recorded.                                                               *)
seedHour(computed) ==
    IF computed # {} THEN Max(computed)
    ELSE IF DOMAIN rows # {} THEN Max(DOMAIN rows) ELSE None

(* Backfill.Run and Seed: of the hours before this one that have no row,   *)
(* those whose candles could be had are computed; then the runner starts.  *)
Backfilled ==
    /\ up = "backfill"
    /\ \E computed \in SUBSET {h \in 0..(HourOf(now) - 1) : h \notin DOMAIN rows \cup Closed} :
          /\ rows' = [h \in DOMAIN rows \cup computed |->
                        IF h \in DOMAIN rows THEN rows[h] ELSE series(computed, h)]
          /\ previous' = seedHour(computed) /\ lastHour' = seedHour(computed)
    /\ up' = "live" /\ marked' = now
    /\ left' = untilNextHour(now)
    /\ UNCHANGED <<clock, samples, pc, hour, newest, whole>>

AdvanceClock ==
    /\ now < MaxTime
    /\ up = "live" => marked = now /\ pc = "wait" /\ left > -Lateness
    /\ now' = now + 1
    /\ left' = left - 1
    /\ UNCHANGED <<crashes, up, marked, samples, previous, lastHour, pc, hour, newest, rows, whole>>

Next == Sample \/ Wake \/ Emit \/ EmitDone \/ Crash \/ Backfilled \/ AdvanceClock

Spec == Init /\ [][Next]_vars

-----------------------------------------------------------------------------
(* An hour whose samples this process all saw has its row once the runner  *)
(* has passed it, however late the timer fired and however many hours one  *)
(* wake catches up on (FundingRunner.Run, firstUnrecorded, Observe).  The  *)
(* first wake of a runner that was not seeded has nothing to catch up on.  *)
HoursKept ==
    up = "live" /\ up' = "live" /\ lastHour # None =>
        \A h \in (whole \ Closed) \cap (lastHour + 1)..lastHour' : h \in DOMAIN rows'

(* A rate is smoothed against the rate of an earlier hour that is recorded *)
(* itself, across catch-ups, gaps, crashes and seeds, and a maintenance    *)
(* hour has none (FundingRunner.Emit, Seed, Backfill.Run, Series).         *)
SmoothedAgainstThePast ==
    \A h \in DOMAIN rows :
        /\ h \notin Closed
        /\ rows[h].previous # None => rows[h].previous < h /\ rows[h].previous \in DOMAIN rows

(* A wake leaves nothing behind: between two wakes the runner has dealt    *)
(* with every hour completed before the last wake, so no hour is tried     *)
(* again and again (FundingRunner.Emit).                                   *)
CaughtUp == up = "live" /\ pc = "wait" /\ newest # None => lastHour >= newest

(* "An hour's twenty samples are the same twenty either way": a live rate  *)
(* of an hour whose every window was marked rests on all of them.          *)
LiveHourIsWhole ==
    \A h \in whole \cap DOMAIN rows : rows[h].samples = S

(* "So the first live hour continues the series": after a restart the      *)
(* smoothing is seeded with the newest hour on record.                     *)
SeedIsNewest ==
    [][up = "backfill" /\ up' = "live" /\ DOMAIN rows' # {} => previous' = Max(DOMAIN rows')]_vars
=============================================================================
