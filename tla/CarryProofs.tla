----------------------------- MODULE CarryProofs -----------------------------
(***************************************************************************)
(* Machine-checked proofs about the carry binary: the read model it trades *)
(* on and the order in which its goroutines stop, for every set of         *)
(* sources, every limit and interval and every channel capacity.           *)
(***************************************************************************)
EXTENDS MCCarry, TLAPS

-----------------------------------------------------------------------------
(* The read model.                                                         *)

(* How old the row behind a fresh flag may be: it was within the limit     *)
(* when the flag was set, and has aged since then by what is left of that  *)
(* refresh's interval and by the refresh now under way.                    *)
AgeAllowed == StaleAfter + since + (IF pc = "reading" THEN Every ELSE 0)

CacheInv ==
    /\ TypeOK
    /\ \A s \in Sources : ~stale[s] => rows[s] # Missing /\ rows[s] <= AgeAllowed

(* A row is one unit older after a tick, or past every limit, or missing.  *)
LEMMA OlderIsOlder ==
    ASSUME NEW a \in RowAge
    PROVE  /\ older(a) \in RowAge
           /\ a # Missing => older(a) # Missing /\ older(a) <= a + 1
  BY VenueCacheAssumption DEF older, RowAge, Ages, Missing, Cap

LEMMA ReadsAreSources == \A i \in 1..Len(Reads) : Reads[i] \in Sources
<1>1. Reads \in Seq(STRING)
  BY VenueCacheAssumption
<1>2. DOMAIN Reads = 1..Len(Reads)
  BY <1>1
<1>. QED
  BY <1>2 DEF Sources

LEMMA CacheInit == Init => CacheInv
<1>. SUFFICES ASSUME Init PROVE CacheInv
  OBVIOUS
<1>1. Missing \in RowAge /\ 0 \in RowAge
  BY VenueCacheAssumption DEF RowAge, Ages, Cap
<1>2. 1 \in 1..(Len(Reads) + 1) /\ 0 \in 0..Every
  BY VenueCacheAssumption
<1>. QED
  BY <1>1, <1>2 DEF Init, CacheInv, TypeOK

LEMMA CacheStep == CacheInv /\ [Next]_vars => CacheInv'
<1>. SUFFICES ASSUME CacheInv, [Next]_vars PROVE CacheInv'
  OBVIOUS
<1>. USE DEF CacheInv, AgeAllowed
<1>1. StaleAfter \in Nat /\ Every \in Nat /\ Every > 0 /\ Len(Reads) \in Nat
  BY VenueCacheAssumption
<1>2. /\ db \in [Sources -> RowAge] /\ next \in [Sources -> RowAge] /\ rows \in [Sources -> RowAge]
      /\ stale \in [Sources -> BOOLEAN] /\ since \in 0..Every /\ at \in 1..(Len(Reads) + 1)
  BY DEF TypeOK
<1>3. \A a \in RowAge : a \in Int
  BY <1>1 DEF RowAge, Ages, Missing, Cap
<1>4. CASE Begin
  <2>1. /\ rows' = rows /\ stale' = stale /\ since' = 0 /\ since = Every /\ pc = "waiting"
        /\ pc' = "reading" /\ at' \in 1..(Len(Reads) + 1) /\ since' \in 0..Every
    BY <1>1, <1>4 DEF Begin
  <2>2. TypeOK'
    BY <1>2, <1>4, <2>1 DEF Begin, TypeOK
  <2>. QED
    BY <1>1, <2>1, <2>2
<1>5. CASE Read
  <2>1. Reads[at] \in Sources
    BY <1>2, <1>5, ReadsAreSources DEF Read
  <2>2. next' \in [Sources -> RowAge] /\ at' \in 1..(Len(Reads) + 1)
    BY <1>1, <1>2, <1>5, <2>1 DEF Read
  <2>. QED
    BY <1>5, <2>2 DEF Read, TypeOK
<1>6. CASE ReadFails
  <2>1. at' \in 1..(Len(Reads) + 1)
    BY <1>1, <1>2, <1>6 DEF ReadFails
  <2>. QED
    BY <1>6, <2>1 DEF ReadFails, TypeOK
<1>7. CASE Publish
  <2>1. rows' = next /\ stale' = [s \in Sources |-> isStale(next[s])] /\ pc' = "waiting" /\ since' = since
    BY <1>7 DEF Publish
  <2>2. stale' \in [Sources -> BOOLEAN]
    BY <2>1 DEF isStale
  <2>3. TypeOK'
    BY <1>7, <2>1, <2>2 DEF Publish, TypeOK
  <2>4. ASSUME NEW s \in Sources, ~stale'[s] PROVE rows'[s] # Missing /\ rows'[s] <= AgeAllowed'
    <3>1. next[s] \in Int /\ next[s] # Missing /\ next[s] <= StaleAfter
      <4>1. ~isStale(next[s])
        BY <2>1, <2>4, Zenon
      <4>2. next[s] \in Int
        BY <1>2, <1>3
      <4>. QED
        BY <1>1, <4>1, <4>2 DEF isStale
    <3>. QED
      BY <1>1, <1>2, <2>1, <3>1
  <2>. QED
    BY <2>3, <2>4
<1>8. CASE Answers
  BY <1>8 DEF Answers, TypeOK
<1>9. CASE Tick
  <2>1. /\ db' \in [Sources -> RowAge] /\ next' \in [Sources -> RowAge] /\ rows' \in [Sources -> RowAge]
        /\ since' \in 0..Every /\ since' = since + 1 /\ UNCHANGED <<answers, pc, at, stale>>
    <3>1. /\ db' \in [Sources -> RowAge] /\ next' \in [Sources -> RowAge]
          /\ rows' \in [Sources -> RowAge]
      BY <1>2, <1>9, OlderIsOlder DEF Tick
    <3>2. since' \in 0..Every
      BY <1>1, <1>2, <1>9 DEF Tick
    <3>. QED
      BY <1>9, <3>1, <3>2 DEF Tick
  <2>2. TypeOK'
    BY <2>1 DEF TypeOK
  <2>3. ASSUME NEW s \in Sources, ~stale'[s] PROVE rows'[s] # Missing /\ rows'[s] <= AgeAllowed'
    <3>1. rows[s] # Missing /\ rows[s] <= AgeAllowed /\ rows[s] \in RowAge
      BY <1>2, <2>1, <2>3
    <3>2. rows'[s] = older(rows[s])
      BY <1>9 DEF Tick
    <3>3. rows'[s] # Missing /\ rows'[s] <= rows[s] + 1
      BY <3>1, <3>2, OlderIsOlder
    <3>4. rows[s] \in Int /\ rows'[s] \in Int
      BY <1>3, <2>1, <3>1
    <3>5. AgeAllowed' = AgeAllowed + 1 /\ AgeAllowed \in Int
      BY <1>1, <1>2, <2>1
    <3>. QED
      BY <3>1, <3>3, <3>4, <3>5
  <2>. QED
    BY <2>2, <2>3
<1>10. ASSUME NEW s \in Sources, Record(s) \/ Delete(s) PROVE CacheInv'
  <2>1. 0 \in RowAge /\ Missing \in RowAge
    BY VenueCacheAssumption DEF RowAge, Ages, Cap
  <2>. QED
    BY <1>10, <2>1 DEF Record, Delete, TypeOK
<1>11. CASE UNCHANGED vars
  BY <1>11 DEF vars, TypeOK
<1>. QED
  BY <1>4, <1>5, <1>6, <1>7, <1>8, <1>9, <1>10, <1>11 DEF Next, Refresh

-----------------------------------------------------------------------------
(* The process.                                                            *)

OrderStates == {"none", "PENDING", "NEW", P!Ended}
FromDrained == {"drained", "refreshed", "watched", "metricsErr", "returned"}
FromWatched == {"watched", "metricsErr", "returned"}

ProcessTypes ==
    /\ P!TypeOK
    /\ probing \in BOOLEAN /\ signalled \in BOOLEAN /\ loggedOn \in BOOLEAN /\ late \in BOOLEAN
    /\ reports \in Seq({"NEW", P!Ended}) /\ updates \in Seq({"NEW", P!Ended})
    /\ status \in OrderStates
    /\ drain \in {"running", "done"} /\ watcher \in {"running", "done"}
    /\ cache \in {"waiting", "reading", "done"}
    /\ gauges \in [open : {0, 1}, overdue : {0, 1}]

(* What each wait of trade has waited for.                                 *)
WaitsAreOver ==
    /\ main \in FromDrained => run = "returned"
    /\ main \in FromDrained \ {"drained"} => drain = "done"
    /\ main \in FromWatched => cache = "done"
    /\ drain = "done" => run = "returned" /\ reports = <<>>
    /\ "watch" \in stopped => main \in FromWatched
    /\ watcher = "done" => "watch" \in stopped

(* What the probe knows of its order, and what is still on its way to it,  *)
(* is an end only when the tracker holds one.                              *)
ProbeKnowsEnds ==
    /\ status = P!Ended => order = P!Ended
    /\ \A i \in 1..Len(updates) : updates[i] = P!Ended => order = P!Ended

ProcessInv ==
    /\ ProcessTypes /\ WaitsAreOver /\ ProbeKnowsEnds
    /\ P!FinalScrapeCoherent /\ P!ProbeSaysTrue

LEMMA ProcessInit == P!Init => ProcessInv
<1>1. <<>> \in Seq({"NEW", P!Ended}) /\ Len(<<>>) = 0
  OBVIOUS
<1>2. ReportBuffer \in Nat /\ UpdateBuffer \in Nat /\ Starts \subseteq BOOLEAN
  BY CarryAssumption DEF P!LifecycleAssumption
<1>. SUFFICES ASSUME P!Init PROVE ProcessInv
  OBVIOUS
<1>. USE DEF P!Init
<1>3. main \in {"submit", "venueErr"} /\ probing \in BOOLEAN
  BY <1>2
<1>4. gauges \in [open : {0, 1}, overdue : {0, 1}] /\ gauges.overdue <= gauges.open
  OBVIOUS
<1>5. ProcessTypes
  <2>1. P!TypeOK
    BY <1>1, <1>2, <1>3 DEF P!TypeOK, P!ProbeSteps, P!Ended
  <2>. QED
    BY <2>1, <1>1, <1>3, <1>4 DEF ProcessTypes, OrderStates, P!Ended
<1>6. WaitsAreOver
  BY <1>3 DEF WaitsAreOver, FromDrained, FromWatched
<1>. QED
  BY <1>1, <1>4, <1>5, <1>6 DEF ProcessInv, ProbeKnowsEnds, P!Ended, P!FinalScrapeCoherent,
    P!ProbeSaysTrue

LEMMA ProcessStep == ProcessInv /\ [P!Next]_processVars => ProcessInv'
<1>. SUFFICES ASSUME ProcessInv, [P!Next]_processVars PROVE ProcessInv'
  OBVIOUS
<1>. USE DEF ProcessInv, ProcessTypes, WaitsAreOver, ProbeKnowsEnds, OrderStates,
    FromDrained, FromWatched, P!TypeOK, P!ProbeSteps, P!Ended, P!FinalScrapeCoherent, P!ProbeSaysTrue
<1>1. ReportBuffer \in Nat /\ UpdateBuffer \in Nat /\ Starts \subseteq BOOLEAN
  BY CarryAssumption DEF P!LifecycleAssumption
<1>2. CASE P!Signal
  BY <1>2 DEF P!Signal
<1>3. CASE P!RunFails \/ P!RunStarts \/ P!LogsOn \/ P!LinkLost \/ P!RunStops \/ P!RunReturns
  <2>1. /\ run # "returned"
        /\ run' \in {"starting", "connected", "stopping", "returned"} /\ loggedOn' \in BOOLEAN
    BY <1>3 DEF P!RunFails, P!RunStarts, P!LogsOn, P!LinkLost, P!RunStops, P!RunReturns, P!venueStep
  <2>2. UNCHANGED <<probing, main, signalled, stopped, venueOrder, reports, drain, cache, watcher,
                    server, order, late, gauges, updates, status, retries, result>>
    BY <1>3 DEF P!RunFails, P!RunStarts, P!LogsOn, P!LinkLost, P!RunStops, P!RunReturns, P!venueStep
  <2>. QED
    BY <2>1, <2>2
<1>4. CASE P!VenueReports
  BY <1>1, <1>4 DEF P!VenueReports
<1>5. CASE P!Drain
  BY <1>1, <1>5 DEF P!Drain, P!observe
<1>6. CASE P!DrainEnds
  BY <1>6 DEF P!DrainEnds
<1>7. CASE P!Refresh
  BY <1>7 DEF P!Refresh
<1>8. CASE P!Watch
  BY <1>8 DEF P!Watch, P!Observed, P!Open, P!IsOverdue
<1>9. CASE P!WatchStops
  BY <1>9 DEF P!WatchStops, P!Observed, P!Open, P!IsOverdue
<1>10. CASE P!ServerEnds
  BY <1>10 DEF P!ServerEnds
<1>11. CASE P!Deadline
  BY <1>11 DEF P!Deadline
<1>12. CASE P!ProbeSubmit
  <2>1. /\ main = "submit"
        /\ UNCHANGED <<probing, signalled, run, loggedOn, reports, drain, cache, watcher, late,
                       order, gauges, updates, status>>
    BY <1>12 DEF P!ProbeSubmit, P!Probe
  <2>2. \/ main' \in {"track", "submit"} /\ UNCHANGED <<result, stopped>>
        \/ result' = "error" /\ main' = "venueErr" /\ stopped' = stopped \cup {"venue"}
    BY <1>12, <2>1 DEF P!ProbeSubmit, P!probeGoes, P!probeReturns
  <2>6. /\ main' \in P!ProbeSteps \cup {"venueErr"} /\ stopped' \subseteq {"venue", "watch", "metrics"}
        /\ result' \in {"none", "ok", "error"} /\ ("watch" \in stopped' <=> "watch" \in stopped)
    BY <2>1, <2>2
  <2>7. ProcessTypes'
    BY <2>1, <2>2, <2>6
  <2>8. WaitsAreOver'
    BY <2>1, <2>6
  <2>. QED
    BY <2>1, <2>2, <2>7, <2>8
<1>13. CASE P!ProbeTrack
  BY <1>13 DEF P!ProbeTrack, P!Probe, P!probeGoes
<1>14. CASE P!ProbeAwait
  <2>1. /\ main = "await"
        /\ UNCHANGED <<probing, signalled, run, loggedOn, reports, drain, cache, watcher, late,
                       order, gauges>>
    BY <1>14 DEF P!ProbeAwait, P!awaitStep, P!Probe
  <2>2. \/ main' \in {"await", "cancel", "awaitCancel"} /\ UNCHANGED <<result, stopped>>
        \/ /\ result' = "error" \/ (result' = "ok" /\ (status = P!Ended \/ signalled))
           /\ main' = "venueErr" /\ stopped' = stopped \cup {"venue"}
    BY <1>14, <2>1 DEF P!ProbeAwait, P!awaitStep, P!probeGoes, P!probeReturns
  <2>3. \/ UNCHANGED <<updates, status>>
        \/ updates # <<>> /\ status' = Head(updates) /\ updates' = Tail(updates)
    BY <1>14 DEF P!ProbeAwait, P!awaitStep
  <2>4. /\ updates' \in Seq({"NEW", P!Ended}) /\ Len(updates') <= UpdateBuffer
        /\ status' \in OrderStates
    BY <1>1, <2>3
  <2>5. ProbeKnowsEnds'
    BY <2>1, <2>3
  <2>6. /\ main' \in P!ProbeSteps \cup {"venueErr"} /\ stopped' \subseteq {"venue", "watch", "metrics"}
        /\ result' \in {"none", "ok", "error"} /\ ("watch" \in stopped' <=> "watch" \in stopped)
    BY <2>1, <2>2
  <2>7. ProcessTypes'
    BY <2>1, <2>2, <2>6, <2>4
  <2>8. WaitsAreOver'
    BY <2>1, <2>6
  <2>. QED
    BY <2>1, <2>2, <2>7, <2>8, <2>5
<1>15. CASE P!ProbeCancel
  <2>1. /\ main = "cancel"
        /\ UNCHANGED <<probing, signalled, run, loggedOn, reports, drain, cache, watcher, late,
                       order, gauges, updates>>
    BY <1>15 DEF P!ProbeCancel, P!Probe
  <2>2. \/ main' = "awaitCancel" /\ status' = order /\ UNCHANGED <<result, stopped>>
        \/ /\ result' = "error" /\ main' = "venueErr" /\ stopped' = stopped \cup {"venue"}
           /\ UNCHANGED status
    BY <1>15 DEF P!ProbeCancel, P!probeGoes, P!probeReturns
  <2>6. /\ main' \in P!ProbeSteps \cup {"venueErr"} /\ stopped' \subseteq {"venue", "watch", "metrics"}
        /\ result' \in {"none", "ok", "error"} /\ ("watch" \in stopped' <=> "watch" \in stopped)
    BY <2>1, <2>2
  <2>7. ProcessTypes'
    BY <2>1, <2>2, <2>6
  <2>8. WaitsAreOver'
    BY <2>1, <2>6
  <2>. QED
    BY <2>1, <2>2, <2>7, <2>8
<1>16. CASE P!ProbeAwaitCancel
  <2>1. /\ main = "awaitCancel"
        /\ UNCHANGED <<probing, signalled, run, loggedOn, reports, drain, cache, watcher, late,
                       order, gauges>>
    BY <1>16 DEF P!ProbeAwaitCancel, P!awaitStep, P!Probe
  <2>2. \/ main' \in {"await", "cancel", "awaitCancel"} /\ UNCHANGED <<result, stopped>>
        \/ /\ result' = "error" \/ (result' = "ok" /\ (status = P!Ended \/ signalled))
           /\ main' = "venueErr" /\ stopped' = stopped \cup {"venue"}
    BY <1>16, <2>1 DEF P!ProbeAwaitCancel, P!awaitStep, P!probeGoes, P!probeReturns
  <2>3. \/ UNCHANGED <<updates, status>>
        \/ updates # <<>> /\ status' = Head(updates) /\ updates' = Tail(updates)
    BY <1>16 DEF P!ProbeAwaitCancel, P!awaitStep
  <2>4. /\ updates' \in Seq({"NEW", P!Ended}) /\ Len(updates') <= UpdateBuffer
        /\ status' \in OrderStates
    BY <1>1, <2>3
  <2>5. ProbeKnowsEnds'
    BY <2>1, <2>3
  <2>6. /\ main' \in P!ProbeSteps \cup {"venueErr"} /\ stopped' \subseteq {"venue", "watch", "metrics"}
        /\ result' \in {"none", "ok", "error"} /\ ("watch" \in stopped' <=> "watch" \in stopped)
    BY <2>1, <2>2
  <2>7. ProcessTypes'
    BY <2>1, <2>2, <2>6, <2>4
  <2>8. WaitsAreOver'
    BY <2>1, <2>6
  <2>. QED
    BY <2>1, <2>2, <2>7, <2>8, <2>5
<1>17. CASE P!VenueWaited
  BY <1>17 DEF P!VenueWaited, P!mainGoes
<1>18. CASE P!DrainWaited
  BY <1>18 DEF P!DrainWaited, P!mainGoes
<1>19. CASE P!CacheWaited
  BY <1>19 DEF P!CacheWaited, P!mainGoes
<1>20. CASE P!WatchWaited
  BY <1>20 DEF P!WatchWaited, P!mainGoes
<1>21. CASE P!ServerWaited
  BY <1>21 DEF P!ServerWaited, P!mainGoes
<1>22. CASE UNCHANGED processVars
  BY <1>22 DEF processVars
<1>. QED
  BY <1>2, <1>3, <1>4, <1>5, <1>6, <1>7, <1>8, <1>9, <1>10, <1>11, <1>12, <1>13, <1>14, <1>15,
     <1>16, <1>17, <1>18, <1>19, <1>20, <1>21, <1>22 DEF P!Next, P!Main, P!Venue

-----------------------------------------------------------------------------
(* Both parts, as carry runs them.                                         *)

CarryInv == part \in {"cache", "process"} /\ CacheInv /\ ProcessInv

(* Every behaviour of carry keeps both invariants: the part that runs by   *)
(* its own steps, the other because it rests.                              *)
THEOREM CarryInvariant == CarrySpec => []CarryInv
<1>1. CarryInit => CarryInv
  BY CacheInit, ProcessInit DEF CarryInit, CarryInv
<1>2. CarryInv /\ [CarryNext]_<<part, vars, processVars>> => CarryInv'
  <2>. SUFFICES ASSUME CarryInv, [CarryNext]_<<part, vars, processVars>> PROVE CarryInv'
    OBVIOUS
  <2>1. part' = part /\ [Next]_vars /\ [P!Next]_processVars
    BY DEF CarryNext
  <2>. QED
    BY <2>1, CacheStep, ProcessStep DEF CarryInv
<1>. QED
  BY <1>1, <1>2, PTL DEF CarrySpec

(* At any moment, not only when the flags are computed, a source a reader  *)
(* of Cache.Latest finds fresh has a row, and that row is at most two      *)
(* refresh intervals past STALE_FEED_SECS: a frozen feed and a database    *)
(* that stopped answering both trip the flag in bounded time.              *)
THEOREM FreshRowsAreFresh == CarrySpec => []FreshIsFresh
<1>1. CarryInv => FreshIsFresh
  <2>. SUFFICES ASSUME CarryInv, NEW s \in Sources, ~stale[s]
                PROVE  rows[s] # Missing /\ rows[s] <= StaleAfter + 2 * Every
    BY DEF FreshIsFresh
  <2>1. StaleAfter \in Nat /\ Every \in Nat /\ rows[s] \in Int /\ since \in 0..Every
    <3>1. StaleAfter \in Nat /\ Every \in Nat /\ RowAge \subseteq Int
      BY VenueCacheAssumption DEF RowAge, Ages, Missing, Cap
    <3>. QED
      BY <3>1 DEF CarryInv, CacheInv, TypeOK
  <2>2. rows[s] # Missing /\ rows[s] <= AgeAllowed
    BY DEF CarryInv, CacheInv
  <2>. QED
    BY <2>1, <2>2 DEF AgeAllowed
<1>. QED
  BY <1>1, CarryInvariant, PTL

(* trade returns with nothing left undone: its refresh loop and its drain  *)
(* have ended, every report the venue delivered is applied, the last       *)
(* scrape shows no order overdue that is not open, and a probe that        *)
(* reported success left an ended order or was told to stop.               *)
THEOREM TradeReturnsClean == CarrySpec => []CleanReturn
<1>1. CarryInv => CleanReturn
  BY DEF CarryInv, ProcessInv, ProcessTypes, WaitsAreOver, FromDrained, FromWatched, CleanReturn,
    P!NothingAfterReturn
<1>. QED
  BY <1>1, CarryInvariant, PTL
=============================================================================
