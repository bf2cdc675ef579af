------------------------------ MODULE MCCarry -------------------------------
(***************************************************************************)
(* carry for TLC: the read model it trades on (VenueCache) and the order   *)
(* in which its goroutines stop (CarryLifecycle, where the refresh loop is *)
(* only running or not).  The two share no state, so a behaviour runs one  *)
(* of them, and the other rests where it starts.                           *)
(***************************************************************************)
EXTENDS VenueCache

CONSTANTS Starts, ReportBuffer, UpdateBuffer, MaxRetries

VARIABLES
    part,  \* which of the two this behaviour runs: "cache" or "process"
    probing, main, signalled, stopped, run, loggedOn, venueOrder, reports, drain, cache,
    watcher, server, order, late, gauges, updates, status, retries, result

P == INSTANCE CarryLifecycle

ASSUME CarryAssumption == P!LifecycleAssumption

TwoReads   == <<"perp", "wallet">>
PerpOnly   == {"perp"}
WalletOnly == {"wallet"}

processVars == <<probing, main, signalled, stopped, run, loggedOn, venueOrder, reports, drain,
                 cache, watcher, server, order, late, gauges, updates, status, retries, result>>

CarryInit ==
    /\ part \in {"cache", "process"}
    /\ Init
    /\ P!Init
    /\ part # "cache" => \A s \in Sources : db[s] = Missing
    /\ part # "process" => ~probing /\ venueOrder = "none"

CarryNext ==
    \/ part = "cache"   /\ Next   /\ UNCHANGED <<part, processVars>>
    \/ part = "process" /\ P!Next /\ UNCHANGED <<part, vars>>

inCache(A)   == part = "cache" /\ A
inProcess(A) == part = "process" /\ A

(* The fairness of FairSpec and of P!Spec, each for the part that runs.    *)
CarrySpec ==
    /\ CarryInit /\ [][CarryNext]_<<part, vars, processVars>>
    /\ WF_vars(inCache(Refresh)) /\ WF_vars(inCache(Tick))
    /\ WF_processVars(inProcess(P!Main)) /\ WF_processVars(inProcess(P!Venue))
    /\ WF_processVars(inProcess(P!Drain)) /\ WF_processVars(inProcess(P!DrainEnds))
    /\ WF_processVars(inProcess(cache = "reading" /\ P!Refresh))
    /\ SF_processVars(inProcess(P!CacheEnds))
    /\ WF_processVars(inProcess(P!WatchStops))
    /\ WF_processVars(inProcess("metrics" \in stopped /\ P!ServerEnds))
    /\ WF_processVars(inProcess(P!Deadline))

-----------------------------------------------------------------------------
(* When trade returns nothing is left undone: no refresh reads through the *)
(* pool its caller closes, every report the venue delivered is applied,    *)
(* the last scrape shows no order overdue that is not open, and a probe    *)
(* that succeeded left a settled order or was told to stop.                *)
CleanReturn == P!NothingAfterReturn /\ P!FinalScrapeCoherent /\ P!ProbeSaysTrue

(* Trading follows the health of what it rests on: a database gone for     *)
(* good blocks it for good, and once the database answers and every feed   *)
(* writes again, TradeOK returns and stays.                                *)
FollowsHealth == OutageBlocks /\ Recovers

(* carry ends: when it is told to, when its session cannot start, and      *)
(* with a probe whatever the venue does.                                   *)
AlwaysEnds == P!AlwaysEnds
=============================================================================
