------------------------------ MODULE Sampler -------------------------------
(***************************************************************************)
(* The venue-state sampler (ingest/venuestate.go) on the boundary loop it  *)
(* shares with the pollers (poller.go: runWaiting), with what feeds it:    *)
(* the ticker and status handlers, the mark sampler, the funding runner    *)
(* and the REST poller.  Each of them writes its observation under the     *)
(* sampler's lock; the sampler takes the lock three times for one row.     *)
(*                                                                         *)
(* A value is the time it was observed at.  The wall clock may be stepped  *)
(* back, the loop's timer may not; a submit may block while the queue is   *)
(* full.  The sources are external.                                        *)
(***************************************************************************)
EXTENDS Integers, Sequences, FiniteSets

CONSTANTS
    interval,      \* the sampling interval
    maxQuoteAge, maxMarkAge, maxFundingAge, maxSessionAge,
    Closed,        \* the times within the configured maintenance window
    Lateness,      \* a timer fires at most this late
    Busy,          \* a row is submitted at most this late after its sample
    MaxTime,       \* bound on the clock, for each set of feeds that may run
    MaxSteps       \* bound on the times it is stepped back, likewise

Pushed == {"perp", "spot", "marks", "funding"}   \* the feeds that push
Feeds  == Pushed \cup {"status", "rest"}

SamplerAssumption ==
    /\ interval \in Nat \ {0}
    /\ {maxQuoteAge, maxMarkAge, maxFundingAge, maxSessionAge, Lateness, Busy} \subseteq Nat
    /\ DOMAIN MaxTime \subseteq SUBSET Feeds /\ DOMAIN MaxSteps = DOMAIN MaxTime

Products == <<"perp", "spot">>
Sources  == {"perp", "spot", "marks", "funding", "oi", "session", "venue"}
None     == -9

VARIABLES
    feeds,                 \* the feeds that run; the others are dead
    now, steps,
    obs,                   \* when each source's value was observed
    isOpen,                \* what the session says
    status, statusAt,      \* the status stream's last word, and when
    pollAt, polled,        \* Poll: the observation it is at; the payload
    left,                  \* the timer: time left, negative when late
    pc, product, at, lastBoundary, row,   \* sample and rowFor
    rows,                  \* the last row of each product
    visited,               \* the boundaries sampled
    blocked                \* history: the boundaries a blocked submit sat through

env     == <<feeds, now, steps>>
seen    == <<obs, isOpen, status, statusAt>>
poll    == <<pollAt, polled>>
sampler == <<left, pc, product, at, lastBoundary, row>>
written == <<rows, visited, blocked>>
vars    == <<env, seen, poll, sampler, written>>

truncate(t) == t - (t % interval)

(* Positive, so a wake on a boundary schedules the following one.          *)
untilNextBoundary(t) == truncate(t) + interval - t

NoRow == [ts |-> None]

Init ==
    /\ feeds \in DOMAIN MaxTime
    /\ now \in 0..(interval - 1) /\ steps = 0
    /\ obs = [s \in Sources |-> None] /\ isOpen = TRUE
    /\ status = "unseen" /\ statusAt = None
    /\ pollAt = 0 /\ polled = [open |-> TRUE, venue |-> FALSE]
    /\ left = untilNextBoundary(now)
    /\ pc = "sleep" /\ product = 1 /\ at = None /\ lastBoundary = None /\ row = NoRow
    /\ rows = [p \in {"perp", "spot"} |-> NoRow] /\ visited = {} /\ blocked = {}

-----------------------------------------------------------------------------
(* The observers, each one lock.                                           *)

(* Observe, ObserveMarks, ObserveFunding.                                  *)
Push ==
    /\ \E s \in Pushed \cap feeds : obs' = [obs EXCEPT ![s] = now]
    /\ UNCHANGED <<env, isOpen, status, statusAt, poll, sampler, written>>

(* StatusHandler.Handle, ObserveStatus.                                    *)
ObserveStatus ==
    /\ "status" \in feeds
    /\ status' \in {"online", "offline"} /\ statusAt' = now
    /\ UNCHANGED <<env, obs, isOpen, poll, sampler, written>>

(* Poll reads the product; a failure leaves everything to the next tick.   *)
Poll ==
    /\ "rest" \in feeds /\ pollAt = 0
    /\ polled' \in [open : BOOLEAN, venue : BOOLEAN]
    /\ pollAt' = 1
    /\ UNCHANGED <<env, seen, sampler, written>>

pollOrderSessionFirst == <<"session", "oi", "venue">>
pollOrder == <<"oi", "session", "venue">>

(* ObserveOpenInterest, ObserveSession, ObserveVenueFunding, which ignores *)
(* a rate the venue did not publish.  The product row Poll submits after   *)
(* them is in a table of its own; a poller that failed polls no more.      *)
PollObserve ==
    /\ pollAt \in DOMAIN pollOrder
    /\ LET s == pollOrder[pollAt] IN
       /\ obs' = IF s = "venue" /\ ~polled.venue THEN obs ELSE [obs EXCEPT ![s] = now]
       /\ isOpen' = IF s = "session" THEN polled.open ELSE isOpen
    /\ pollAt' = (pollAt + 1) % (Len(pollOrder) + 1)
    /\ UNCHANGED <<env, status, statusAt, polled, sampler, written>>

-----------------------------------------------------------------------------
(* runWaiting and sample.                                                  *)

sleepAgain == /\ left' = untilNextBoundary(now) /\ pc' = "sleep"

isNewAny(ts) == TRUE
(* Two wakes within one boundary make one row.                             *)
isNew(ts) == ts > lastBoundary

Wake ==
    /\ pc = "sleep" /\ left <= 0
    /\ LET ts == truncate(now) IN
       IF isNew(ts)
         THEN /\ lastBoundary' = ts /\ at' = now
              /\ visited' = visited \cup {ts}
              /\ pc' = "quote" /\ product' = 1
              /\ UNCHANGED left
         ELSE /\ sleepAgain
              /\ UNCHANGED <<lastBoundary, at, visited, product>>
    /\ UNCHANGED <<env, seen, poll, row, rows, blocked>>

within(s, age) == IF obs[s] # None /\ at - obs[s] <= age THEN obs[s] ELSE None

(* rowFor, first lock: the quote, when it is fresh.                        *)
ReadQuote ==
    /\ pc = "quote"
    /\ row' = [ts |-> lastBoundary, mid |-> within(Products[product], maxQuoteAge * interval)]
    /\ pc' = "fill"
    /\ UNCHANGED <<env, seen, poll, left, product, at, lastBoundary, written>>

(* applyPartFiveLocked, second lock.  Open interest ages with the session. *)
Fill ==
    /\ pc = "fill"
    /\ LET perp == Products[product] = "perp"
           col(v) == IF perp THEN v ELSE None
           est    == col(within("funding", maxFundingAge))
           venue  == col(within("venue", maxFundingAge))
       IN row' = [ts     |-> row.ts, mid |-> row.mid,
                  mark   |-> col(within("marks", maxMarkAge)),
                  est    |-> est,
                  hourly |-> IF venue # None THEN venue ELSE est,
                  source |-> IF venue # None THEN "venue" ELSE IF est # None THEN "computed" ELSE "none",
                  oi     |-> IF col(within("session", maxSessionAge)) # None THEN obs["oi"] ELSE None,
                  maint  |-> FALSE]
    /\ pc' = "flag"
    /\ UNCHANGED <<env, seen, poll, left, product, at, lastBoundary, written>>

inMaintenance ==
    \/ row.ts \in Closed
    \/ status = "offline"
    \/ within("session", maxSessionAge) # None /\ ~isOpen

nextProduct ==
    IF product < Len(Products)
      THEN /\ product' = product + 1 /\ pc' = "quote" /\ UNCHANGED left
      ELSE /\ sleepAgain /\ UNCHANGED product

(* A row is written when either half has something in it.                  *)
worthWriting(maint) == row.mid # None \/ maint

(* inMaintenance, third lock; a row with nothing in it is not written.     *)
Flag ==
    /\ pc = "flag"
    /\ LET maint == Products[product] = "perp" /\ inMaintenance IN
       IF worthWriting(maint)
         THEN /\ row' = [row EXCEPT !.maint = maint]
              /\ pc' = "submit" /\ UNCHANGED <<product, left>>
         ELSE /\ nextProduct /\ UNCHANGED row
    /\ UNCHANGED <<env, seen, poll, at, lastBoundary, written>>

Submit ==
    /\ pc = "submit"
    /\ rows' = [rows EXCEPT ![Products[product]] = row]
    /\ nextProduct
    /\ row' = NoRow
    /\ UNCHANGED <<env, seen, poll, at, lastBoundary, visited, blocked>>

(* The context ends, or submit finds the writer gone.                      *)
Stop ==
    /\ pc \in {"sleep", "submit"}
    /\ pc' = "stopped"
    /\ UNCHANGED <<env, seen, poll, left, product, at, lastBoundary, row, written>>

AdvanceClock ==
    /\ now < MaxTime[feeds] /\ pollAt = 0 /\ pc \in {"sleep", "submit", "stopped"}
    /\ pc = "sleep" => left > -Lateness
    /\ pc = "submit" => now < at + Busy
    /\ now' = now + 1 /\ left' = IF left > -Lateness THEN left - 1 ELSE left
    /\ blocked' = IF pc = "submit" /\ now' % interval = 0 THEN blocked \cup {now'} ELSE blocked
    /\ UNCHANGED <<feeds, steps, seen, poll, pc, product, at, lastBoundary, row, rows, visited>>

(* The wall clock is set back; the timer does not notice.                  *)
StepBack ==
    /\ steps < MaxSteps[feeds] /\ now > 0 /\ pc \in {"sleep", "submit"}
    /\ steps' = steps + 1 /\ now' = now - 1
    /\ UNCHANGED <<feeds, seen, poll, sampler, written>>

Next ==
    \/ Push \/ ObserveStatus \/ Poll \/ PollObserve
    \/ Wake \/ ReadQuote \/ Fill \/ Flag \/ Submit \/ Stop
    \/ AdvanceClock \/ StepBack

Spec == Init /\ [][Next]_vars

-----------------------------------------------------------------------------
(* Each product has one row a boundary and its rows' times only advance,   *)
(* also when the clock is stepped back (VenueState.sample, lastBoundary):  *)
(* a second row of a boundary would be dropped as a conflict.              *)
RowsAdvance == \A p \in DOMAIN rows : rows'[p] # rows[p] => rows'[p].ts > rows[p].ts

(* With timers at most Lateness late and a clock nobody sets back, every   *)
(* boundary is sampled but those a blocked submit sat through (runWaiting, *)
(* untilNextBoundary): the phase of the loop never drifts.                 *)
EveryBoundary ==
    pc # "stopped" /\ steps = 0 =>
        \A b \in interval..(now - Lateness - 1) :
            b % interval = 0 => b \in visited \cup blocked

ages == [mid |-> maxQuoteAge * interval, mark |-> maxMarkAge, est |-> maxFundingAge,
         hourly |-> maxFundingAge, oi |-> maxSessionAge]

(* No row carries a price, a mark, a rate or an open interest observed     *)
(* longer before its boundary than that column allows, however the         *)
(* observers fall between the three locks and the three calls of a poll;   *)
(* and a row has a price or says the market is shut                        *)
(* (VenueState.rowFor, applyPartFiveLocked, Poller.Poll).                  *)
NothingFrozen ==
    \A p \in DOMAIN rows :
        rows[p] # NoRow =>
            /\ \A c \in DOMAIN ages : rows[p][c] # None => rows[p][c] >= rows[p].ts - ages[c]
            /\ rows[p].mid # None \/ rows[p].maint

(* "Both polled signals age out": a row says the market is shut because    *)
(* the calendar does, or because a stream or the poll said so within the   *)
(* last maxSessionAge (VenueState.inMaintenance).                          *)
ShutSignalIsRecent ==
    \A p \in DOMAIN rows :
        rows[p] # NoRow /\ rows[p].maint =>
            \/ rows[p].ts \in Closed
            \/ \E t \in {statusAt, obs["session"]} : t # None /\ t >= rows[p].ts - maxSessionAge
=============================================================================
