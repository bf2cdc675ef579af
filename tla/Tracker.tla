------------------------------- MODULE Tracker -------------------------------
(***************************************************************************)
(* The order-state machine of the carry binary (internal/exec): the one    *)
(* place where execution reports are sequenced into orders.                *)
(*                                                                         *)
(* Its environment is as hostile as its documentation says it may be.  The *)
(* caller hands an order to the venue (Submit) and only then tells the     *)
(* tracker (Track), so a report can overtake the caller; a report may      *)
(* repeat, arrive late or out of order, name an order nobody submitted in  *)
(* this process, or contradict the venue's earlier reports.                *)
(*                                                                         *)
(* Prices, fees, reasons, venue ids and the leg label are not modelled: no *)
(* decision of the tracker reads them.  Quantities and times are naturals. *)
(***************************************************************************)
EXTENDS Naturals, FiniteSets

CONSTANTS
    OrderID,      \* client order ids
    ExecID,       \* the venue's report ids (FIX tag 17)
    NoExecID,     \* a report without an ExecID (the empty string)
    Qtys,         \* quantities a caller may order
    Cums,         \* filled quantities a report may state
    Leaves,       \* remaining quantities a report may state
    VenueTimes,   \* times a report may carry: the venue's clock, not ours
    Timeout,      \* ORDER_TIMEOUT
    MaxNow        \* bound: the last instant of our clock

ASSUME TrackerAssumption ==
    /\ IsFiniteSet(OrderID)
    /\ NoExecID \notin ExecID
    /\ Qtys \subseteq Nat \ {0}
    /\ Cums \subseteq Nat
    /\ Leaves \subseteq Nat
    /\ VenueTimes \subseteq Nat
    /\ Timeout \in Nat
    /\ MaxNow \in Nat

VARIABLES
    orders,       \* Tracker.orders: the record kept per order
    outcome,      \* what the last Apply answered (and counted)
    openGauge,    \* carry_orders_open
    overdueGauge, \* carry_orders_overdue
    roundtrips,   \* samples of carry_order_roundtrip_seconds, per order
    acks,         \* samples of carry_order_ack_seconds, per order
    ackTimeouts,  \* carry_order_ack_timeouts_total, per order
    handed,       \* the caller's orders: what Submit acknowledged, and when
    now           \* our clock

metrics == <<outcome, openGauge, overdueGauge, roundtrips, acks, ackTimeouts>>
vars == <<orders, metrics, handed, now>>

-----------------------------------------------------------------------------
Ended     == {"FILLED", "CANCELED", "REJECTED"}
ExecState == {"NEW", "PARTIAL"} \cup Ended
(* What a report's state field may hold; "OTHER" stands for any value the  *)
(* closed vocabulary does not have.                                        *)
Reported  == ExecState \cup {"OTHER"}
Outcomes  == {"applied", "adopted", "duplicate", "stale", "late", "invalid"}

(* One entry of Tracker.orders; state "NONE" is an id the map does not     *)
(* hold.  Deadline is always assigned with SubmittedAt, as SubmittedAt     *)
(* plus the timeout, so it is derived.                                     *)
Tracked == [state       : {"NONE", "PENDING"} \cup ExecState,
            qty         : Nat,
            cum         : Nat,
            leaves      : Nat,
            adopted     : BOOLEAN,
            submittedAt : Nat,
            seen        : SUBSET ExecID,
            ackTimedOut : BOOLEAN]

Absent == [state |-> "NONE", qty |-> 0, cum |-> 0, leaves |-> 0, adopted |-> FALSE,
           submittedAt |-> 0, seen |-> {}, ackTimedOut |-> FALSE]

Report == [id : OrderID, execID : ExecID \cup {NoExecID}, state : Reported,
           cum : Cums, leaves : Leaves, at : VenueTimes, stamped : BOOLEAN]

Known(o)      == o.state # "NONE"
Terminal(o)   == o.state \in Ended
Deadline(o)   == o.submittedAt + Timeout
OverdueOffByOne(o, t) == o.state = "PENDING" /\ t > Deadline(o) + 1
Overdue(o, t) == o.state = "PENDING" /\ t > Deadline(o)

OpenOrders(os)       == {id \in OrderID : Known(os[id]) /\ ~Terminal(os[id])}
OverdueOrders(os, t) == {id \in OrderID : Overdue(os[id], t)}
(* The overdue orders not yet counted as having missed their deadline.     *)
newlyLate(os, t)     == {id \in OverdueOrders(os, t) : ~os[id].ackTimedOut}
countOpen(os)        == Cardinality(OpenOrders(os))

-----------------------------------------------------------------------------
(* The rule table: what becomes of report r about an order at o.           *)

progressed(o, r) == [o EXCEPT !.state = r.state, !.cum = r.cum, !.leaves = r.leaves]
ended(o, r)      == [progressed(o, r) EXCEPT !.leaves = 0]

(* More filled than was ordered; an adopted order's quantity is unknown.   *)
Overfills(o, r) == o.qty # 0 /\ r.cum > o.qty

closedOutUnbounded(o, r) == IF Overfills(o, r) THEN "invalid" ELSE "applied"
closedOut(o, r) == IF r.cum < o.cum \/ Overfills(o, r) THEN "invalid" ELSE "applied"

acknowledged(o, r) == CASE o.state = "PENDING" -> "applied"
                        [] o.state = "NEW"     -> "duplicate"
                        [] OTHER               -> "stale"

fill(o, r) ==
    IF r.cum < o.cum THEN "stale"
    ELSE IF r.cum = o.cum /\ r.state = o.state THEN "duplicate"
    ELSE IF \/ r.cum = o.cum /\ r.state = "PARTIAL"
            \/ Overfills(o, r)
            \/ r.state = "FILLED" /\ r.leaves # 0
         THEN "invalid"
    ELSE "applied"

transition(o, r) ==
    CASE Terminal(o) -> IF r.state = o.state /\ r.cum = o.cum THEN "duplicate" ELSE "late"
      [] ~Terminal(o) /\ r.state \in {"REJECTED", "CANCELED"} -> closedOut(o, r)
      [] ~Terminal(o) /\ r.state = "NEW" -> acknowledged(o, r)
      [] ~Terminal(o) /\ r.state \in {"PARTIAL", "FILLED"} -> fill(o, r)
      [] OTHER -> "invalid"

(* Where an applied report leaves the order.                               *)
moved(o, r) == IF r.state \in {"REJECTED", "CANCELED"} THEN ended(o, r) ELSE progressed(o, r)

(* apply: a report whose ExecID was already applied is a duplicate.        *)
applyOutcome(o, r) == IF r.execID \in o.seen THEN "duplicate" ELSE transition(o, r)

appliedRemembersNoID(o, r) == [moved(o, r) EXCEPT !.seen = @ \cup {r.execID}]
applied(o, r) == [moved(o, r) EXCEPT !.seen = @ \cup ({r.execID} \ {NoExecID})]

(* adopt: the record opened for an order the tracker was never told of.    *)
adopt(r) == [Absent EXCEPT !.state = "PENDING", !.adopted = TRUE, !.submittedAt = r.at]

(* Track's record for a new order, and complete's for an adopted one.      *)
opened(ack) == [Absent EXCEPT !.state = "PENDING", !.qty = ack.qty, !.leaves = ack.qty,
                              !.submittedAt = ack.at]

completedForgetsTerms(o, ack) == [o EXCEPT !.adopted = FALSE]
completed(o, ack) == [o EXCEPT !.adopted = FALSE, !.qty = ack.qty, !.submittedAt = ack.at,
                               !.leaves = IF o.state = "PENDING" THEN ack.qty ELSE @]

(* The tracker's map after report r, judged out for the record o; a record *)
(* opened only for a report that is then refused is removed again.         *)
kept(o, r, out) == IF out = "applied" THEN applied(o, r) ELSE orders[r.id]

(* The gauge refresh at the end of Track and Apply.                        *)
refreshOpen        == openGauge' = countOpen(orders')

(* Which records the two histograms are observed for: an adopted order has *)
(* no acknowledgement to measure from.                                     *)
timed(o)    == ~o.adopted

(* A first answer is a report that takes the order out of PENDING.         *)
firstAnswerAny(o, r) == r.stamped
firstAnswer(o, r)    == o.state = "PENDING" /\ r.stamped

-----------------------------------------------------------------------------
Init == /\ orders = [id \in OrderID |-> Absent]
        /\ outcome = "applied"
        /\ openGauge = 0
        /\ overdueGauge = 0
        /\ roundtrips = [id \in OrderID |-> 0]
        /\ acks = [id \in OrderID |-> 0]
        /\ ackTimeouts = [id \in OrderID |-> 0]
        /\ handed = [id \in OrderID |-> [qty |-> 0, at |-> 0]]
        /\ now = 0

(* The caller's Submit returns an Ack.  ClOrdIDs are unique, so an id is   *)
(* submitted once; the venue may already have answered it.                 *)
Submit(id, q) ==
    /\ handed[id].qty = 0
    /\ handed' = [handed EXCEPT ![id] = [qty |-> q, at |-> now]]
    /\ UNCHANGED <<orders, metrics, now>>

(* Track, for an id the tracker does not hold.                             *)
TrackNew(id) ==
    /\ handed[id].qty # 0
    /\ ~Known(orders[id])
    /\ orders' = [orders EXCEPT ![id] = opened(handed[id])]
    /\ refreshOpen
    /\ UNCHANGED <<outcome, overdueGauge, roundtrips, acks, ackTimeouts, handed, now>>

(* Track, for an order a report got to first: it is completed, and a round *)
(* trip that adoption could not measure is observed now.                   *)
TrackAdopted(id) ==
    /\ handed[id].qty # 0
    /\ Known(orders[id]) /\ orders[id].adopted
    /\ orders' = [orders EXCEPT ![id] = completed(@, handed[id])]
    /\ roundtrips' = IF Terminal(orders[id]) THEN [roundtrips EXCEPT ![id] = @ + 1]
                                             ELSE roundtrips
    /\ UNCHANGED <<outcome, openGauge, overdueGauge, acks, ackTimeouts, handed, now>>

(* Track, for an order already tracked: ErrAlreadyTracked, and no effect.  *)
TrackRefused(id) ==
    /\ handed[id].qty # 0
    /\ Known(orders[id]) /\ ~orders[id].adopted
    /\ UNCHANGED vars

(* observeTimings, for report r applied to the record o.                   *)
observeTimings(o, r) ==
    /\ roundtrips' = IF timed(o) /\ Terminal(moved(o, r))
                     THEN [roundtrips EXCEPT ![r.id] = @ + 1] ELSE roundtrips
    /\ acks' = IF timed(o) /\ firstAnswer(o, r)
               THEN [acks EXCEPT ![r.id] = @ + 1] ELSE acks

(* Apply: sequence one report into its order and say what it did.          *)
Apply(r) ==
    LET known == Known(orders[r.id])
        o     == IF known THEN orders[r.id] ELSE adopt(r)
        out   == applyOutcome(o, r)
    IN /\ orders' = [orders EXCEPT ![r.id] = kept(o, r, out)]
       /\ IF out = "applied" THEN observeTimings(o, r) ELSE UNCHANGED <<roundtrips, acks>>
       /\ outcome' = IF out = "applied" /\ ~known THEN "adopted" ELSE out
       /\ refreshOpen
       /\ UNCHANGED <<overdueGauge, ackTimeouts, handed, now>>

(* Observe, on the binary's one-second ticker.                             *)
Observe ==
    LET late  == OverdueOrders(orders, now)
        fresh == newlyLate(orders, now)
    IN /\ orders' = [id \in OrderID |-> [orders[id] EXCEPT !.ackTimedOut = @ \/ id \in late]]
       /\ ackTimeouts' = [id \in OrderID |-> ackTimeouts[id] + (IF id \in fresh THEN 1 ELSE 0)]
       /\ openGauge' = countOpen(orders)
       /\ overdueGauge' = Cardinality(late)
       /\ UNCHANGED <<outcome, roundtrips, acks, handed, now>>

(* Time passes on our clock.                                               *)
Tick == /\ now < MaxNow
        /\ now' = now + 1
        /\ UNCHANGED <<orders, metrics, handed>>

Track(id) == TrackNew(id) \/ TrackAdopted(id) \/ TrackRefused(id)

Next == \/ \E id \in OrderID : Track(id) \/ \E q \in Qtys : Submit(id, q)
        \/ \E r \in Report : Apply(r)
        \/ Observe
        \/ Tick

Spec == Init /\ [][Next]_vars

(* The ticker of cmd/carry's watch keeps calling Observe, and the caller   *)
(* that submitted an order goes on to Track it.                            *)
FairSpec == /\ Spec
            /\ WF_vars(Observe)
            /\ WF_vars(\E id \in OrderID : TrackNew(id) \/ TrackAdopted(id))

-----------------------------------------------------------------------------
(* Every variable holds a value of its type.                               *)
TypeOK ==
    /\ orders \in [OrderID -> Tracked]
    /\ outcome \in Outcomes
    /\ openGauge \in Nat
    /\ overdueGauge \in Nat
    /\ roundtrips \in [OrderID -> Nat]
    /\ acks \in [OrderID -> Nat]
    /\ ackTimeouts \in [OrderID -> Nat]
    /\ handed \in [OrderID -> [qty : Nat, at : Nat]]
    /\ now \in Nat

(* Adoption never leaves an order pending: Apply either moves the record it *)
(* opened or removes it, so no order of unknown size and unknown submit     *)
(* time can go overdue (the comment on Status.Overdue).                     *)
AdoptedNeverPending == \A id \in OrderID : orders[id].adopted => orders[id].state # "PENDING"

(* However its reports raced the caller, an order the caller tracked is     *)
(* held with the quantity it ordered and the time Submit acknowledged it,   *)
(* and an order this process never submitted is held as adopted.            *)
CallersTerms ==
    \A id \in OrderID :
        Known(orders[id]) /\ ~orders[id].adopted =>
            /\ handed[id].qty # 0
            /\ orders[id].qty = handed[id].qty
            /\ orders[id].submittedAt = handed[id].at

(* However the first report races the caller's Track, neither loses what   *)
(* the other knew (Track, Apply, adopt).                                   *)
AdoptionIsSafe == AdoptedNeverPending /\ CallersTerms

(* carry_order_roundtrip_seconds gets exactly one sample per ended order    *)
(* that this process submitted, none for an adopted one, and the sample     *)
(* adoption had to skip is made up when the submitter catches up.           *)
RoundtripOnce ==
    \A id \in OrderID :
        roundtrips[id] = IF Terminal(orders[id]) /\ ~orders[id].adopted THEN 1 ELSE 0

(* carry_order_ack_seconds gets at most one sample per order, only once the *)
(* venue has answered it, and only for an order this process submitted.     *)
AckSampledOnce ==
    \A id \in OrderID :
        /\ acks[id] <= 1
        /\ acks[id] = 1 => Known(orders[id]) /\ ~orders[id].adopted /\ orders[id].state # "PENDING"

(* carry_order_ack_timeouts_total counts an order once, never an adopted    *)
(* one, and every order in the overdue gauge has been counted.              *)
AckTimeoutOnce ==
    /\ \A id \in OrderID : /\ ackTimeouts[id] = IF orders[id].ackTimedOut THEN 1 ELSE 0
                           /\ orders[id].ackTimedOut => Known(orders[id]) /\ ~orders[id].adopted
    /\ overdueGauge <= Cardinality({id \in OrderID : orders[id].ackTimedOut})

(* carry_orders_open is never stale: every step that opens or ends an order *)
(* also refreshes it, whichever goroutine takes it.                         *)
OpenGaugeIsExact == openGauge = Cardinality(OpenOrders(orders))

(* What the tracker exports is exact after every step: each order sampled   *)
(* once in each series whichever goroutine gets there first, and the open   *)
(* gauge never stale.                                                       *)
MetricsExact == RoundtripOnce /\ AckSampledOnce /\ AckTimeoutOnce /\ OpenGaugeIsExact

(* Nothing is left working on an order that has ended, whatever the report  *)
(* that ended it claimed.                                                   *)
EndedLeavesNothing == \A id \in OrderID : Terminal(orders[id]) => orders[id].leaves = 0

(* The tracker sequences whatever it is fed into the life of an order: the  *)
(* filled quantity never falls, an ended order never moves again, and only  *)
(* a first answer acknowledges.                                             *)
Life == INSTANCE OrderLife WITH state <- [id \in OrderID |-> orders[id].state],
                                cum   <- [id \in OrderID |-> orders[id].cum]
ImplementsOrderLife == Life!LifeSpec

(* No report leaves an order of known quantity with more filled than was    *)
(* ordered: such a report is OutcomeInvalid and the order stays where it is.*)
ReportNeverOverfills ==
    [][\A id \in OrderID :
         orders[id].qty # 0 /\ orders'[id].cum # orders[id].cum
            => orders'[id].cum <= orders[id].qty]_vars

(* One scrape never reads more orders overdue than open: overdue orders are *)
(* a subset of the open ones.                                               *)
OverdueWithinOpen == overdueGauge <= openGauge

(* An order the venue leaves unanswered past its deadline is eventually     *)
(* counted as timed out, unless an answer beats the ticker to it.           *)
OverdueIsCounted ==
    \A id \in OrderID :
        (orders[id].state = "PENDING" /\ now > handed[id].at + Timeout)
            ~> (ackTimeouts[id] = 1 \/ orders[id].state # "PENDING")
=============================================================================
