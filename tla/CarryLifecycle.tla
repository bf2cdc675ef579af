--------------------------- MODULE CarryLifecycle ---------------------------
(***************************************************************************)
(* The goroutines of cmd/carry and the order in which trade (venue.go)     *)
(* stops them: the FIX venue, the drain of its reports, the refresh loop   *)
(* of the venue cache, the watcher of the order gauges, the metrics        *)
(* endpoint and, with -probe-order, the probe (probe.go) on main's own     *)
(* goroutine.                                                              *)
(*                                                                         *)
(* One order, the probe's, stands for what the venue reports about; a run  *)
(* without a probe may still receive reports of an order left working by   *)
(* an earlier process.                                                     *)
(***************************************************************************)
EXTENDS Integers, Sequences

CONSTANTS
    Starts,        \* whether carry may be started with -probe-order: a set of Booleans
    ReportBuffer,  \* capacity of the venue's report channel
    UpdateBuffer,  \* capacity of the probe's update channel
    MaxRetries     \* Submits refused before logonWait has passed

LifecycleAssumption ==
    /\ Starts \subseteq BOOLEAN
    /\ {ReportBuffer, UpdateBuffer} \subseteq Nat \ {0}
    /\ MaxRetries \in Nat

VARIABLES
    probing,    \* whether it was started with -probe-order
    main,       \* the statement trade is at
    signalled,  \* the root context has ended
    stopped,    \* contexts main has cancelled: "venue", "watch", "metrics"
    run,        \* venue.Run
    loggedOn,   \* the session
    venueOrder, \* the order at the venue
    reports,    \* the report channel
    drain, cache, watcher, server,  \* the other goroutines
    order,      \* the tracker's state of the order
    late,       \* the order's deadline has passed
    gauges,     \* carry_orders_open and carry_orders_overdue, as scraped
    updates,    \* the probe's update channel
    status,     \* what await knows of the order
    retries,    \* Submits refused so far
    result      \* what the probe returned

vars == <<probing, main, signalled, stopped, run, loggedOn, venueOrder, reports, drain, cache,
          watcher, server, order, late, gauges, updates, status, retries, result>>

ProbeSteps == {"submit", "track", "await", "cancel", "awaitCancel"}
Ended      == "ENDED"
Open       == order \notin {"none", Ended}
IsOverdue  == order = "PENDING" /\ late

VenueCtxDone == signalled \/ "venue" \in stopped

Init ==
    /\ probing \in Starts
    /\ main = IF probing THEN "submit" ELSE "venueErr"
    /\ signalled = FALSE /\ stopped = {}
    /\ run = "starting" /\ loggedOn = FALSE
    /\ venueOrder \in IF probing THEN {"none"} ELSE {"none", "NEW"}
    /\ reports = <<>>
    /\ drain = "running" /\ cache = "waiting" /\ watcher = "running" /\ server = "serving"
    /\ order = "none" /\ late = FALSE
    /\ gauges = [open |-> 0, overdue |-> 0]
    /\ updates = <<>> /\ status = "none" /\ retries = 0
    /\ result = "none"

Signal == /\ ~signalled
          /\ signalled' = TRUE
          /\ UNCHANGED <<probing, main, stopped, run, loggedOn, venueOrder, reports, drain, cache,
                         watcher, server, order, late, gauges, updates, status, retries, result>>

-----------------------------------------------------------------------------
(* venue.Run: it could not start, or it runs until its context ends, logs  *)
(* out and closes the channel on every way out.                            *)
venueStep(r, up) ==
    /\ run' = r /\ loggedOn' = up
    /\ UNCHANGED <<probing, main, signalled, stopped, venueOrder, reports, drain, cache,
                   watcher, server, order, late, gauges, updates, status, retries, result>>

RunFails    == run = "starting" /\ venueStep("returned", FALSE)
RunStarts   == run = "starting" /\ venueStep("connected", FALSE)
LogsOn      == run = "connected" /\ ~loggedOn /\ venueStep(run, TRUE)
LinkLost    == run = "connected" /\ loggedOn /\ venueStep(run, FALSE)
RunStops    == run = "connected" /\ VenueCtxDone /\ venueStep("stopping", loggedOn)
RunReturns  == run = "stopping" /\ venueStep("returned", FALSE)

(* The venue reports on the order, during the logout too.                  *)
VenueReports ==
    /\ run \in {"connected", "stopping"} /\ loggedOn
    /\ Len(reports) < ReportBuffer
    /\ \/ venueOrder = "sent" /\ venueOrder' = "NEW"
       \/ venueOrder \in {"sent", "NEW", "cancelling"} /\ venueOrder' = Ended
    /\ reports' = Append(reports, venueOrder')
    /\ UNCHANGED <<probing, main, signalled, stopped, run, loggedOn, drain, cache, watcher,
                   server, order, late, gauges, updates, status, retries, result>>

(* The probe's hook never blocks the drain: a full channel drops it.       *)
observe(s) == IF probing /\ Len(updates) < UpdateBuffer THEN Append(updates, s) ELSE updates

(* drain: Apply moves the order and the open gauge, and the probe hears of *)
(* it.                                                                     *)
Drain ==
    /\ drain = "running" /\ reports # <<>>
    /\ order' = IF order = Ended THEN Ended ELSE Head(reports)
    /\ gauges' = [gauges EXCEPT !.open = IF order' = Ended THEN 0 ELSE 1]
    /\ updates' = observe(order')
    /\ reports' = Tail(reports)
    /\ UNCHANGED <<probing, main, signalled, stopped, run, loggedOn, venueOrder, drain, cache,
                   watcher, server, late, status, retries, result>>

DrainEnds ==
    /\ drain = "running" /\ reports = <<>> /\ run = "returned"
    /\ drain' = "done"
    /\ UNCHANGED <<probing, main, signalled, stopped, run, loggedOn, venueOrder, reports, cache,
                   watcher, server, order, late, gauges, updates, status, retries, result>>

(* The refresh loop of the venue cache, on the venue's context.            *)
Refresh ==
    /\ \/ cache = "waiting" /\ cache' = "reading"
       \/ cache = "reading" /\ cache' = "waiting"
       \/ cache = "waiting" /\ VenueCtxDone /\ cache' = "done"
    /\ UNCHANGED <<probing, main, signalled, stopped, run, loggedOn, venueOrder, reports, drain,
                   watcher, server, order, late, gauges, updates, status, retries, result>>

Observed == [open |-> IF Open THEN 1 ELSE 0, overdue |-> IF IsOverdue THEN 1 ELSE 0]
Watch ==
    /\ watcher = "running"
    /\ gauges' = Observed
    /\ UNCHANGED <<probing, main, signalled, stopped, run, loggedOn, venueOrder, reports, drain, cache,
                   watcher, server, order, late, updates, status, retries, result>>

(* watch reads the tracker once more on its way out.                       *)
WatchStops ==
    /\ watcher = "running" /\ "watch" \in stopped
    /\ watcher' = "done"
    /\ gauges' = Observed
    /\ UNCHANGED <<probing, main, signalled, stopped, run, loggedOn, venueOrder, reports, drain, cache,
                   server, order, late, updates, status, retries, result>>

(* The endpoint ends when it is stopped, or fails and says so at the end.  *)
ServerEnds ==
    /\ server = "serving"
    /\ server' \in IF "metrics" \in stopped THEN {"stopped", "failed"} ELSE {"failed"}
    /\ UNCHANGED <<probing, main, signalled, stopped, run, loggedOn, venueOrder, reports, drain, cache,
                   watcher, order, late, gauges, updates, status, retries, result>>

Deadline ==
    /\ ~late /\ order # "none"
    /\ late' = TRUE
    /\ UNCHANGED <<probing, main, signalled, stopped, run, loggedOn, venueOrder, reports, drain, cache,
                   watcher, server, order, gauges, updates, status, retries, result>>

-----------------------------------------------------------------------------
(* probe.run on main's goroutine; whatever it returns, the venue is        *)
(* stopped after it.                                                       *)
probeReturns(r) == result' = r /\ main' = "venueErr" /\ stopped' = stopped \cup {"venue"}
probeGoes(next) == main' = next /\ UNCHANGED <<result, stopped>>
Probe(step) == main = step /\ UNCHANGED <<probing, signalled, run, loggedOn, reports, drain, cache,
                                          watcher, server, late>>

(* submit: sent, refused while the session is down and tried again until   *)
(* logonWait, or ended by the signal.                                      *)
ProbeSubmit ==
    /\ Probe("submit")
    /\ \/ loggedOn /\ ~signalled /\ venueOrder' = "sent" /\ probeGoes("track") /\ UNCHANGED retries
       \/ /\ ~loggedOn /\ retries < MaxRetries /\ retries' = retries + 1
          /\ UNCHANGED <<venueOrder, main, result, stopped>>
       \/ /\ (~loggedOn /\ retries = MaxRetries) \/ signalled
          /\ probeReturns("error") /\ UNCHANGED <<venueOrder, retries>>
    /\ UNCHANGED <<order, gauges, updates, status>>

(* Track, unless the drain has adopted the order; await then starts from   *)
(* the tracker's own reading.                                              *)
ProbeTrack ==
    /\ Probe("track")
    /\ order' = IF order = "none" THEN "PENDING" ELSE order
    /\ gauges' = [gauges EXCEPT !.open = IF order' = Ended THEN 0 ELSE 1]
    /\ status' = order'
    /\ probeGoes("await")
    /\ UNCHANGED <<venueOrder, updates, retries>>

(* await: the order has ended, an update arrives, the wait runs out or the *)
(* process is told to stop and leaves the order working.                   *)
awaitStep(step, unfilled) ==
    /\ Probe(step)
    /\ \/ status = Ended /\ probeReturns("ok") /\ UNCHANGED <<updates, status>>
       \/ /\ status # Ended /\ updates # <<>>
          /\ status' = Head(updates) /\ updates' = Tail(updates)
          /\ UNCHANGED <<main, result, stopped>>
       \/ status # Ended /\ signalled /\ probeReturns("ok") /\ UNCHANGED <<updates, status>>
       \/ status # Ended /\ late /\ unfilled /\ UNCHANGED <<updates, status>>
    /\ UNCHANGED <<venueOrder, order, gauges, retries>>

ProbeAwait == awaitStep("await", probeGoes("cancel"))

(* Cancel is refused while the session is down or after the signal; await  *)
(* starts again from the tracker's reading.                                *)
ProbeCancel ==
    /\ Probe("cancel")
    /\ \/ /\ loggedOn /\ ~signalled
          /\ venueOrder' = IF venueOrder = Ended THEN Ended ELSE "cancelling"
          /\ status' = order
          /\ probeGoes("awaitCancel")
       \/ /\ ~loggedOn \/ signalled
          /\ probeReturns("error")
          /\ UNCHANGED <<venueOrder, status>>
    /\ UNCHANGED <<order, gauges, updates, retries>>

ProbeAwaitCancel == awaitStep("awaitCancel", probeReturns("error"))

-----------------------------------------------------------------------------
(* The rest of trade: each wait, and the cancel that precedes it.          *)
mainGoes(from, next, cancels) ==
    /\ main = from
    /\ main' = next
    /\ stopped' = stopped \cup cancels
    /\ UNCHANGED <<probing, signalled, run, loggedOn, venueOrder, reports, drain, cache, watcher,
                   server, order, late, gauges, updates, status, retries, result>>

VenueWaited   == run = "returned" /\ mainGoes("venueErr", "drained", {})
DrainNoCancel == drain = "done" /\ mainGoes("drained", "refreshed", {})
DrainWaited   == drain = "done" /\ mainGoes("drained", "refreshed", {"venue"})
CacheUnwaited == mainGoes("refreshed", "watched", {"watch"})
CacheWaited   == cache = "done" /\ mainGoes("refreshed", "watched", {"watch"})
WatchWaited   == watcher = "done" /\ mainGoes("watched", "metricsErr", {"metrics"})
ServerWaited  == server # "serving" /\ mainGoes("metricsErr", "returned", {})

Main  == \/ ProbeSubmit \/ ProbeTrack \/ ProbeAwait \/ ProbeCancel \/ ProbeAwaitCancel
         \/ VenueWaited \/ DrainWaited \/ CacheWaited \/ WatchWaited \/ ServerWaited
Venue == RunFails \/ RunStarts \/ RunStops \/ RunReturns
Next  == Signal \/ Main \/ Venue \/ LogsOn \/ LinkLost \/ VenueReports \/ Drain \/ DrainEnds
         \/ Refresh \/ Watch \/ WatchStops \/ ServerEnds \/ Deadline

(* Every goroutine is scheduled, a refresh is bounded by its interval, and *)
(* time passes the order's deadline.  The loop's select picks at random    *)
(* when a tick and the end of its context are both ready, so it does not   *)
(* pick the tick for ever.  The venue owes no logon, no report and no lost *)
(* link, and the signal may never come.                                    *)
CacheEnds == cache = "waiting" /\ VenueCtxDone /\ Refresh /\ cache' = "done"
Spec == /\ Init /\ [][Next]_vars
        /\ WF_vars(Main) /\ WF_vars(Venue)
        /\ WF_vars(Drain) /\ WF_vars(DrainEnds)
        /\ WF_vars(cache = "reading" /\ Refresh) /\ SF_vars(CacheEnds)
        /\ WF_vars(WatchStops)
        /\ WF_vars("metrics" \in stopped /\ ServerEnds)
        /\ WF_vars(Deadline)

-----------------------------------------------------------------------------
(* Types, and channels within their capacities.                            *)
TypeOK ==
    /\ main \in ProbeSteps \cup {"venueErr", "drained", "refreshed", "watched", "metricsErr", "returned"}
    /\ stopped \subseteq {"venue", "watch", "metrics"}
    /\ run \in {"starting", "connected", "stopping", "returned"}
    /\ Len(reports) <= ReportBuffer /\ Len(updates) <= UpdateBuffer
    /\ order \in {"none", "PENDING", "NEW", Ended}
    /\ result \in {"none", "ok", "error"}

(* The scrape the endpoint is kept alive for, after the drain and the      *)
(* watcher have ended, never shows an order overdue that is not open.      *)
FinalScrapeCoherent ==
    watcher = "done" => gauges.overdue <= gauges.open

(* When trade returns, the caller closes the pool: no refresh is reading   *)
(* through it, and every report the venue delivered has been applied.      *)
NothingAfterReturn ==
    main = "returned" => cache = "done" /\ drain = "done" /\ reports = <<>>

(* The probe says an order is settled only when the tracker holds a        *)
(* terminal state or the process was told to stop.                         *)
ProbeSaysTrue == result = "ok" => order = Ended \/ signalled

(* carry ends: when it is told to, when its session cannot start, and      *)
(* with a probe whatever the venue does.                                   *)
AlwaysEnds == (signalled \/ run = "returned" \/ probing) ~> (main = "returned")
=============================================================================
