---------------------------- MODULE TrackerProofs ----------------------------
(***************************************************************************)
(* Machine-checked proofs about the order tracker, for every set of        *)
(* orders, quantities, report contents and times.                          *)
(***************************************************************************)
EXTENDS Tracker, FiniteSetTheorems, TLAPS

(* What an applied report does to the record it is applied to: it was not  *)
(* ended, the report names one of the five states, a NEW only answers a    *)
(* pending order, a PARTIAL raises the filled quantity, an ending one      *)
(* never lowers it and leaves nothing working; the caller's terms stay.    *)
LEMMA AppliedReport ==
    ASSUME NEW o \in Tracked, NEW r \in Report, Known(o), applyOutcome(o, r) = "applied"
    PROVE  /\ applied(o, r) \in Tracked
           /\ ~Terminal(o)
           /\ r.state \in ExecState
           /\ applied(o, r).state = r.state
           /\ applied(o, r).cum = r.cum
           /\ applied(o, r).qty = o.qty
           /\ applied(o, r).adopted = o.adopted
           /\ applied(o, r).submittedAt = o.submittedAt
           /\ applied(o, r).ackTimedOut = o.ackTimedOut
           /\ r.state = "NEW" => o.state = "PENDING"
           /\ r.state = "PARTIAL" => r.cum > o.cum
           /\ r.state \in Ended => r.cum >= o.cum /\ applied(o, r).leaves = 0
           /\ moved(o, r).state = r.state
<1>1. /\ r.state \in Reported /\ r.cum \in Nat /\ r.leaves \in Nat
      /\ r.execID \in ExecID \cup {NoExecID}
  BY TrackerAssumption DEF Report
<1>2. transition(o, r) = "applied"
  BY DEF applyOutcome
<1>3. ~Terminal(o) /\ r.state \in ExecState
  BY <1>1, <1>2 DEF transition, Terminal, Reported, ExecState, Ended
<1>4. /\ r.state \in {"REJECTED", "CANCELED"} => closedOut(o, r) = "applied"
      /\ r.state = "NEW" => acknowledged(o, r) = "applied"
      /\ r.state \in {"PARTIAL", "FILLED"} => fill(o, r) = "applied"
  BY <1>2, <1>3 DEF transition
<1>5. /\ r.state = "NEW" => o.state = "PENDING"
      /\ r.state = "PARTIAL" => r.cum > o.cum
      /\ r.state = "FILLED" => r.cum >= o.cum /\ r.leaves = 0
      /\ r.state \in {"REJECTED", "CANCELED"} => r.cum >= o.cum
  BY <1>1, <1>4 DEF closedOut, acknowledged, fill, Tracked
<1>6. /\ applied(o, r).state = r.state
      /\ applied(o, r).cum = r.cum
      /\ applied(o, r).qty = o.qty
      /\ applied(o, r).adopted = o.adopted
      /\ applied(o, r).submittedAt = o.submittedAt
      /\ applied(o, r).ackTimedOut = o.ackTimedOut
      /\ moved(o, r).state = r.state
  BY DEF applied, moved, ended, progressed, Tracked
<1>7. applied(o, r).leaves = IF r.state \in {"REJECTED", "CANCELED"} THEN 0 ELSE r.leaves
  BY DEF applied, moved, ended, progressed, Tracked
<1>8. applied(o, r) \in Tracked
  BY <1>1, <1>3 DEF applied, moved, ended, progressed, Tracked
<1>. QED
  BY <1>3, <1>5, <1>6, <1>7, <1>8 DEF Ended

(* A record freshly adopted is a well-formed pending record.               *)
LEMMA AdoptedRecord ==
    ASSUME NEW r \in Report
    PROVE  /\ adopt(r) \in Tracked /\ Known(adopt(r))
           /\ adopt(r).state = "PENDING" /\ adopt(r).adopted /\ adopt(r).cum = 0
           /\ adopt(r).qty = 0 /\ ~adopt(r).ackTimedOut
<1>1. r.at \in Nat
  BY TrackerAssumption DEF Report
<1>. QED
  BY <1>1 DEF adopt, Absent, Tracked, Known

-----------------------------------------------------------------------------
(* The number of open, overdue or timed-out orders is a natural number.     *)
LEMMA SubsetCount ==
    ASSUME NEW S \in SUBSET OrderID
    PROVE  IsFiniteSet(S) /\ Cardinality(S) \in Nat
  BY FS_Subset, FS_CardinalityType, TrackerAssumption

(* What Apply does, seen through the two lemmas above: either the report    *)
(* moves the record it found or adopted, or nothing but the outcome and the *)
(* gauge is written.                                                        *)
LEMMA ApplyEffect ==
    ASSUME TypeOK, NEW r \in Report, Apply(r)
    PROVE  \/ \E o \in Tracked :
                /\ o = IF Known(orders[r.id]) THEN orders[r.id] ELSE adopt(r)
                /\ Known(o) /\ applyOutcome(o, r) = "applied"
                /\ orders' = [orders EXCEPT ![r.id] = applied(o, r)]
                /\ observeTimings(o, r)
           \/ UNCHANGED <<orders, roundtrips, acks>>
<1> DEFINE o == IF Known(orders[r.id]) THEN orders[r.id] ELSE adopt(r)
<1>1. r.id \in OrderID /\ orders[r.id] \in Tracked
  BY DEF TypeOK, Report
<1>2. o \in Tracked /\ Known(o)
  BY <1>1, AdoptedRecord
<1>3. CASE applyOutcome(o, r) = "applied"
  BY <1>2, <1>3 DEF Apply, kept
<1>4. CASE applyOutcome(o, r) # "applied"
  <2>1. orders' = [orders EXCEPT ![r.id] = orders[r.id]] /\ UNCHANGED <<roundtrips, acks>>
    BY <1>4 DEF Apply, kept
  <2>. QED
    BY <2>1, <1>1 DEF TypeOK
<1>. QED
  BY <1>3, <1>4

(* The empty tracker, with its gauges at zero, is well typed.               *)
LEMMA TypeInit == Init => TypeOK
  BY DEF Init, TypeOK, Tracked, Absent, Outcomes

(* Every call on the tracker, and every tick of the clock, keeps the types. *)
LEMMA TypeStep == TypeOK /\ [Next]_vars => TypeOK'
<1> SUFFICES ASSUME TypeOK, [Next]_vars PROVE TypeOK'
  OBVIOUS
<1>1. ASSUME NEW id \in OrderID, NEW q \in Qtys, Submit(id, q) PROVE TypeOK'
  <2>1. q \in Nat
    BY TrackerAssumption
  <2>. QED
    BY <1>1, <2>1 DEF Submit, TypeOK, metrics
<1>2. ASSUME NEW id \in OrderID, TrackNew(id) PROVE TypeOK'
  <2>1. opened(handed[id]) \in Tracked
    BY DEF opened, Absent, Tracked, TypeOK
  <2>2. orders' \in [OrderID -> Tracked]
    BY <1>2, <2>1 DEF TrackNew, TypeOK
  <2>3. openGauge' \in Nat
    BY <1>2, SubsetCount DEF TrackNew, refreshOpen, countOpen, OpenOrders
  <2>. QED
    BY <1>2, <2>2, <2>3 DEF TrackNew, TypeOK
<1>3. ASSUME NEW id \in OrderID, TrackAdopted(id) PROVE TypeOK'
  <2>1. completed(orders[id], handed[id]) \in Tracked
    BY DEF completed, Tracked, TypeOK
  <2>2. orders' \in [OrderID -> Tracked]
    BY <1>3, <2>1 DEF TrackAdopted, TypeOK
  <2>. QED
    BY <1>3, <2>2 DEF TrackAdopted, TypeOK
<1>4. ASSUME NEW id \in OrderID, TrackRefused(id) PROVE TypeOK'
  BY <1>4 DEF TrackRefused, vars, metrics, TypeOK
<1>5. ASSUME NEW r \in Report, Apply(r) PROVE TypeOK'
  <2>1. orders' \in [OrderID -> Tracked]
    BY <1>5, ApplyEffect, AppliedReport DEF TypeOK
  <2>2. roundtrips' \in [OrderID -> Nat] /\ acks' \in [OrderID -> Nat]
    BY <1>5, ApplyEffect DEF TypeOK, observeTimings
  <2>3. openGauge' \in Nat
    BY <1>5, SubsetCount DEF Apply, refreshOpen, countOpen, OpenOrders
  <2>4. outcome' \in Outcomes
    BY <1>5 DEF Apply, Outcomes, applyOutcome, transition, closedOut, acknowledged, fill
  <2>. QED
    BY <1>5, <2>1, <2>2, <2>3, <2>4 DEF Apply, TypeOK
<1>6. ASSUME Observe PROVE TypeOK'
  <2>1. orders' \in [OrderID -> Tracked]
    BY <1>6 DEF Observe, TypeOK, Tracked
  <2>2. openGauge' \in Nat /\ overdueGauge' \in Nat
    BY <1>6, SubsetCount DEF Observe, countOpen, OpenOrders, OverdueOrders
  <2>3. ackTimeouts' \in [OrderID -> Nat]
    BY <1>6 DEF Observe, TypeOK
  <2>. QED
    BY <1>6, <2>1, <2>2, <2>3 DEF Observe, TypeOK
<1>7. ASSUME Tick PROVE TypeOK'
  BY <1>7 DEF Tick, TypeOK, metrics
<1>8. CASE UNCHANGED vars
  BY <1>8 DEF vars, metrics, TypeOK
<1>. QED
  BY <1>1, <1>2, <1>3, <1>4, <1>5, <1>6, <1>7, <1>8 DEF Next, Track

(* Every variable keeps its type in every behaviour of the tracker.         *)
THEOREM TypeCorrect == Spec => []TypeOK
  BY TypeInit, TypeStep, PTL DEF Spec

-----------------------------------------------------------------------------
(* The strengthening: an id the tracker does not hold carries no mark,      *)
(* and an order nobody has answered has no fill and no sample.              *)
Unanswered ==
    \A id \in OrderID :
        /\ orders[id].state = "NONE" => ~orders[id].adopted /\ ~orders[id].ackTimedOut
        /\ orders[id].state \in {"NONE", "PENDING"} => acks[id] = 0 /\ orders[id].cum = 0

Inv == /\ TypeOK
       /\ Unanswered
       /\ AdoptedNeverPending
       /\ CallersTerms
       /\ RoundtripOnce
       /\ AckSampledOnce
       /\ AckTimeoutOnce
       /\ OpenGaugeIsExact
       /\ EndedLeavesNothing

(* The inductive invariant holds of the empty tracker.                      *)
LEMMA InvInit == Init => Inv
<1> SUFFICES ASSUME Init PROVE Inv
  OBVIOUS
<1>1. TypeOK
  BY TypeInit
<1>2. \A id \in OrderID : orders[id] = Absent /\ acks[id] = 0 /\ roundtrips[id] = 0
                          /\ ackTimeouts[id] = 0
  BY DEF Init
<1>3. Unanswered /\ AdoptedNeverPending /\ CallersTerms /\ RoundtripOnce /\ AckSampledOnce
      /\ EndedLeavesNothing
  BY <1>2 DEF Unanswered, AdoptedNeverPending, CallersTerms, RoundtripOnce, AckSampledOnce,
              EndedLeavesNothing, Absent, Known, Terminal, Ended
<1>4. OpenOrders(orders) = {}
  BY <1>2 DEF OpenOrders, Known, Absent
<1>5. OpenGaugeIsExact
  BY <1>4, FS_EmptySet DEF OpenGaugeIsExact, Init
<1>6. AckTimeoutOnce
  <2>1. overdueGauge <= Cardinality({id \in OrderID : orders[id].ackTimedOut})
    BY SubsetCount DEF Init
  <2>. QED
    BY <1>2, <2>1 DEF AckTimeoutOnce, Absent
<1>. QED
  BY <1>1, <1>3, <1>5, <1>6 DEF Inv

(* The gauge is exact after every step: a step that changes which orders    *)
(* are open refreshes it.                                                   *)
LEMMA GaugeStep ==
    ASSUME Inv, [Next]_vars
    PROVE  OpenGaugeIsExact'
<1> USE DEF OpenGaugeIsExact
<1>1. ASSUME NEW id \in OrderID, TrackNew(id) PROVE OpenGaugeIsExact'
  BY <1>1 DEF TrackNew, refreshOpen, countOpen
<1>2. ASSUME NEW r \in Report, Apply(r) PROVE OpenGaugeIsExact'
  BY <1>2 DEF Apply, refreshOpen, countOpen
<1>3. ASSUME NEW id \in OrderID, TrackAdopted(id) PROVE OpenGaugeIsExact'
  <2>1. \A i \in OrderID : orders'[i].state = orders[i].state
    BY <1>3 DEF TrackAdopted, completed, Inv, TypeOK, Tracked
  <2>2. OpenOrders(orders') = OpenOrders(orders)
    BY <2>1 DEF OpenOrders, Known, Terminal
  <2>. QED
    BY <1>3, <2>2 DEF TrackAdopted, Inv
<1>4. ASSUME Observe PROVE OpenGaugeIsExact'
  <2>1. \A i \in OrderID : orders'[i].state = orders[i].state
    BY <1>4 DEF Observe, Inv, TypeOK, Tracked
  <2>2. OpenOrders(orders') = OpenOrders(orders)
    BY <2>1 DEF OpenOrders, Known, Terminal
  <2>. QED
    BY <1>4, <2>2 DEF Observe, Inv, countOpen
<1>5. ASSUME UNCHANGED <<orders, openGauge>> PROVE OpenGaugeIsExact'
  BY <1>5 DEF Inv
<1>. QED
  BY <1>1, <1>2, <1>3, <1>4, <1>5
     DEF Next, Track, Submit, TrackRefused, Tick, vars, metrics

(* No step moves the overdue gauge above the orders counted as timed out,   *)
(* because the set of timed-out orders never shrinks.                       *)
LEMMA TimeoutStep ==
    ASSUME Inv, [Next]_vars
    PROVE  AckTimeoutOnce'
<1> DEFINE Counted == {id \in OrderID : orders[id].ackTimedOut}
<1>1. CASE Observe
  <2> DEFINE late == OverdueOrders(orders, now)
  <2>1. \A id \in OrderID : /\ orders'[id].ackTimedOut = (orders[id].ackTimedOut \/ id \in late)
                            /\ orders'[id].state = orders[id].state
                            /\ orders'[id].adopted = orders[id].adopted
    BY <1>1 DEF Observe, Inv, TypeOK, Tracked
  <2>2. \A id \in late : orders[id].state = "PENDING" /\ ~orders[id].adopted
    BY DEF OverdueOrders, Overdue, Inv, AdoptedNeverPending
  <2>3. \A id \in OrderID : ackTimeouts'[id] = IF orders'[id].ackTimedOut THEN 1 ELSE 0
    <3>1. \A id \in OrderID : id \in newlyLate(orders, now) <=> id \in late /\ ~orders[id].ackTimedOut
      BY DEF newlyLate
    <3>2. \A id \in OrderID :
              ackTimeouts'[id] = ackTimeouts[id] + (IF id \in newlyLate(orders, now) THEN 1 ELSE 0)
      BY <1>1 DEF Observe
    <3>3. \A id \in OrderID : ackTimeouts[id] = IF orders[id].ackTimedOut THEN 1 ELSE 0
      BY DEF Inv, AckTimeoutOnce
    <3>. HIDE DEF late
    <3>. SUFFICES ASSUME NEW id \in OrderID
                  PROVE  ackTimeouts'[id] = IF orders'[id].ackTimedOut THEN 1 ELSE 0
      OBVIOUS
    <3>4. CASE orders[id].ackTimedOut
      <4>1. id \notin newlyLate(orders, now) /\ orders'[id].ackTimedOut
        BY <2>1, <3>1, <3>4
      <4>2. ackTimeouts[id] = 1
        BY <3>3, <3>4
      <4>. QED
        BY <3>2, <4>1, <4>2
    <3>5. CASE ~orders[id].ackTimedOut /\ id \in late
      <4>1. id \in newlyLate(orders, now) /\ orders'[id].ackTimedOut
        BY <2>1, <3>1, <3>5
      <4>2. ackTimeouts[id] = 0
        BY <3>3, <3>5
      <4>. QED
        BY <3>2, <4>1, <4>2
    <3>6. CASE ~orders[id].ackTimedOut /\ id \notin late
      <4>1. id \notin newlyLate(orders, now) /\ ~orders'[id].ackTimedOut
        BY <2>1, <3>1, <3>6
      <4>2. ackTimeouts[id] = 0
        BY <3>3, <3>6
      <4>. QED
        BY <3>2, <4>1, <4>2
    <3>. QED
      BY <3>4, <3>5, <3>6
  <2>4. \A id \in OrderID : orders'[id].ackTimedOut => Known(orders'[id]) /\ ~orders'[id].adopted
    BY <2>1, <2>2 DEF Inv, AckTimeoutOnce, Known
  <2>5. late \subseteq Counted'
    BY <2>1 DEF OverdueOrders
  <2>6. Cardinality(late) <= Cardinality(Counted')
    BY <2>5, FS_Subset, SubsetCount
  <2>. QED
    BY <1>1, <2>3, <2>4, <2>6 DEF AckTimeoutOnce, Observe
<1>2. CASE UNCHANGED <<ackTimeouts, overdueGauge>>
           /\ \A id \in OrderID :
                 /\ orders'[id].ackTimedOut = orders[id].ackTimedOut
                 /\ Known(orders[id]) => Known(orders'[id])
                 /\ ~orders[id].adopted /\ Known(orders[id]) => ~orders'[id].adopted
  <2>1. Counted' = Counted
    BY <1>2
  <2>2. \A id \in OrderID : /\ ackTimeouts'[id] = IF orders'[id].ackTimedOut THEN 1 ELSE 0
                            /\ orders'[id].ackTimedOut => Known(orders'[id]) /\ ~orders'[id].adopted
    BY <1>2 DEF Inv, AckTimeoutOnce
  <2>. QED
    BY <1>2, <2>1, <2>2 DEF Inv, AckTimeoutOnce
<1>3. ASSUME NEW id \in OrderID, TrackNew(id) PROVE AckTimeoutOnce'
  <2>1. opened(handed[id]).ackTimedOut = FALSE /\ opened(handed[id]).adopted = FALSE
        /\ Known(opened(handed[id]))
    BY DEF opened, Absent, Known
  <2>2. ~orders[id].ackTimedOut
    BY <1>3 DEF TrackNew, Inv, Unanswered, Absent, Known
  <2>3. \A i \in OrderID : orders'[i] = IF i = id THEN opened(handed[id]) ELSE orders[i]
    BY <1>3 DEF TrackNew, Inv, TypeOK
  <2>4. orders[id].ackTimedOut \in BOOLEAN
    BY DEF Inv, TypeOK, Tracked
  <2>5. \A i \in OrderID :
                 /\ orders'[i].ackTimedOut = orders[i].ackTimedOut
                 /\ Known(orders[i]) => Known(orders'[i])
                 /\ ~orders[i].adopted /\ Known(orders[i]) => ~orders'[i].adopted
    BY <2>1, <2>2, <2>3, <2>4
  <2>. QED
    BY <1>2, <1>3, <2>5 DEF TrackNew
<1>4. ASSUME NEW id \in OrderID, TrackAdopted(id) PROVE AckTimeoutOnce'
  <2>1. completed(orders[id], handed[id]).ackTimedOut = orders[id].ackTimedOut
        /\ completed(orders[id], handed[id]).state = orders[id].state
        /\ completed(orders[id], handed[id]).adopted = FALSE
    BY DEF completed, Inv, TypeOK, Tracked
  <2>2. \A i \in OrderID : orders'[i] = IF i = id THEN completed(orders[id], handed[id]) ELSE orders[i]
    BY <1>4 DEF TrackAdopted, Inv, TypeOK
  <2>3. \A i \in OrderID :
                 /\ orders'[i].ackTimedOut = orders[i].ackTimedOut
                 /\ Known(orders[i]) => Known(orders'[i])
                 /\ ~orders[i].adopted /\ Known(orders[i]) => ~orders'[i].adopted
    BY <2>1, <2>2 DEF Known
  <2>. QED
    BY <1>2, <1>4, <2>3 DEF TrackAdopted
<1>5. ASSUME NEW r \in Report, Apply(r) PROVE AckTimeoutOnce'
  <2>1. CASE UNCHANGED orders
    BY <1>2, <1>5, <2>1 DEF Apply
  <2>2. ASSUME NEW o \in Tracked,
               o = IF Known(orders[r.id]) THEN orders[r.id] ELSE adopt(r),
               Known(o), applyOutcome(o, r) = "applied",
               orders' = [orders EXCEPT ![r.id] = applied(o, r)]
        PROVE  AckTimeoutOnce'
    <3>1. /\ applied(o, r).ackTimedOut = o.ackTimedOut /\ applied(o, r).adopted = o.adopted
          /\ applied(o, r).state = r.state /\ r.state \in ExecState
      BY <2>2, AppliedReport
    <3>2. r.id \in OrderID
      BY DEF Report
    <3>3. \A i \in OrderID : orders'[i] = IF i = r.id THEN applied(o, r) ELSE orders[i]
      BY <2>2, <3>2 DEF Inv, TypeOK
    <3>4. ~Known(orders[r.id]) => ~o.ackTimedOut /\ ~orders[r.id].ackTimedOut
      BY <2>2, <3>2, AdoptedRecord DEF Inv, Unanswered, Absent, Known
    <3>5. o.ackTimedOut \in BOOLEAN /\ orders[r.id].ackTimedOut \in BOOLEAN
      BY <3>2 DEF Inv, TypeOK, Tracked
    <3>6. o.ackTimedOut = orders[r.id].ackTimedOut
      BY <2>2, <3>4, <3>5
    <3>7. \A i \in OrderID :
                 /\ orders'[i].ackTimedOut = orders[i].ackTimedOut
                 /\ Known(orders[i]) => Known(orders'[i])
                 /\ ~orders[i].adopted /\ Known(orders[i]) => ~orders'[i].adopted
      BY <2>2, <3>1, <3>3, <3>6 DEF Known, ExecState, Ended
    <3>. QED
      BY <1>2, <1>5, <3>7 DEF Apply
  <2>. QED
    BY <1>5, <2>1, <2>2, ApplyEffect DEF Inv
<1>6. ASSUME UNCHANGED <<orders, ackTimeouts, overdueGauge>> PROVE AckTimeoutOnce'
  BY <1>2, <1>6
<1>. QED
  BY <1>1, <1>3, <1>4, <1>5, <1>6
     DEF Next, Track, Submit, TrackRefused, Tick, vars, metrics

(* Submit, Track, Apply, Observe and the clock each keep the inductive      *)
(* invariant.                                                               *)
LEMMA InvStep == Inv /\ [Next]_vars => Inv'
<1> SUFFICES ASSUME Inv, [Next]_vars PROVE Inv'
  OBVIOUS
<1> DEFINE Rest == Unanswered /\ AdoptedNeverPending /\ CallersTerms /\ RoundtripOnce
                   /\ AckSampledOnce /\ EndedLeavesNothing
<1> USE DEF Unanswered, AdoptedNeverPending, CallersTerms, RoundtripOnce, AckSampledOnce,
            EndedLeavesNothing
<1>1. ASSUME NEW id \in OrderID, NEW q \in Qtys, Submit(id, q) PROVE Rest'
  <2>1. q # 0
    BY TrackerAssumption
  <2>2. \A i \in OrderID : Known(orders[i]) /\ ~orders[i].adopted => handed'[i] = handed[i]
    BY <1>1 DEF Submit, Inv, TypeOK
  <2>. QED
    BY <1>1, <2>2 DEF Submit, metrics, Inv
<1>2. ASSUME NEW id \in OrderID, TrackNew(id) PROVE Rest'
  <2>1. /\ opened(handed[id]).state = "PENDING" /\ opened(handed[id]).cum = 0
        /\ opened(handed[id]).adopted = FALSE /\ opened(handed[id]).qty = handed[id].qty
        /\ opened(handed[id]).submittedAt = handed[id].at
    BY DEF opened, Absent
  <2>2. \A i \in OrderID : orders'[i] = IF i = id THEN opened(handed[id]) ELSE orders[i]
    BY <1>2 DEF TrackNew, Inv, TypeOK
  <2>3. orders[id].state = "NONE"
    BY <1>2 DEF TrackNew, Known
  <2>. QED
    BY <1>2, <2>1, <2>2, <2>3 DEF TrackNew, Inv, Known, Terminal, Ended
<1>3. ASSUME NEW id \in OrderID, TrackAdopted(id) PROVE Rest'
  <2> DEFINE c == completed(orders[id], handed[id])
  <2>0. orders[id].state # "PENDING" /\ orders[id].state # "NONE"
    BY <1>3 DEF TrackAdopted, Inv, Known
  <2>1. /\ c.state = orders[id].state /\ c.cum = orders[id].cum /\ c.leaves = orders[id].leaves
        /\ c.adopted = FALSE /\ c.qty = handed[id].qty /\ c.submittedAt = handed[id].at
    BY <2>0 DEF completed, Inv, TypeOK, Tracked
  <2>2. \A i \in OrderID : orders'[i] = IF i = id THEN c ELSE orders[i]
    BY <1>3 DEF TrackAdopted, Inv, TypeOK
  <2>3. \A i \in OrderID :
            roundtrips'[i] = IF i = id /\ Terminal(orders[id]) THEN roundtrips[i] + 1 ELSE roundtrips[i]
    BY <1>3 DEF TrackAdopted, Inv, TypeOK
  <2> HIDE DEF c
  <2>4. RoundtripOnce'
    BY <1>3, <2>1, <2>2, <2>3 DEF TrackAdopted, Inv, Terminal
  <2>. QED
    BY <1>3, <2>0, <2>1, <2>2, <2>4 DEF TrackAdopted, Inv, Known, Terminal
<1>4. ASSUME NEW r \in Report, Apply(r) PROVE Rest'
  <2>1. CASE UNCHANGED <<orders, roundtrips, acks>>
    BY <1>4, <2>1 DEF Apply, Inv
  <2>2. ASSUME NEW o \in Tracked,
               o = IF Known(orders[r.id]) THEN orders[r.id] ELSE adopt(r),
               Known(o), applyOutcome(o, r) = "applied",
               orders' = [orders EXCEPT ![r.id] = applied(o, r)],
               observeTimings(o, r)
        PROVE  Rest'
    <3> DEFINE n == applied(o, r)
    <3>1. r.id \in OrderID
      BY DEF Report
    <3>2. /\ ~Terminal(o) /\ r.state \in ExecState /\ n.state = r.state /\ n.cum = r.cum
          /\ n.qty = o.qty /\ n.adopted = o.adopted /\ n.submittedAt = o.submittedAt
          /\ r.state \in Ended => n.leaves = 0
          /\ Terminal(moved(o, r)) <=> r.state \in Ended
      BY <2>2, AppliedReport DEF Terminal
    <3>3. \A i \in OrderID : orders'[i] = IF i = r.id THEN n ELSE orders[i]
      BY <2>2, <3>1 DEF Inv, TypeOK
    <3>4. \A i \in OrderID :
              /\ roundtrips'[i] = IF i = r.id /\ ~o.adopted /\ r.state \in Ended
                                  THEN roundtrips[i] + 1 ELSE roundtrips[i]
              /\ acks'[i] = IF i = r.id /\ ~o.adopted /\ o.state = "PENDING" /\ r.stamped
                            THEN acks[i] + 1 ELSE acks[i]
      BY <2>2, <3>1, <3>2 DEF observeTimings, timed, firstAnswer, Inv, TypeOK
    <3>5. CASE Known(orders[r.id])
      <4>1. o = orders[r.id]
        BY <2>2, <3>5
      <4> HIDE DEF n
      <4>2. RoundtripOnce' /\ AckSampledOnce'
        BY <3>1, <3>2, <3>3, <3>4, <3>5, <4>1 DEF Inv, Terminal, Known, ExecState, Ended
      <4>. QED
        BY <1>4, <3>1, <3>2, <3>3, <3>4, <3>5, <4>1, <4>2
           DEF Apply, Inv, Terminal, Known, ExecState, Ended
    <3>6. CASE ~Known(orders[r.id])
      <4>1. o.adopted /\ orders[r.id].state = "NONE"
        BY <2>2, <3>6, AdoptedRecord DEF Known
      <4>2. ~orders[r.id].adopted
        BY <3>1, <4>1 DEF Inv
      <4> HIDE DEF n
      <4>3. \A i \in OrderID : roundtrips'[i] = roundtrips[i] /\ acks'[i] = acks[i]
        BY <3>4, <4>1
      <4>4. n.adopted /\ n.state \in ExecState
        BY <3>2, <4>1
      <4>5. roundtrips[r.id] = 0 /\ acks[r.id] = 0
        BY <3>1, <4>1, <4>2 DEF Inv, Terminal, Ended
      <4>6. RoundtripOnce'
        BY <3>1, <3>3, <4>3, <4>4, <4>5 DEF Inv, Terminal
      <4>7. AckSampledOnce'
        BY <3>1, <3>3, <4>3, <4>5 DEF Inv, Known
      <4>8. CallersTerms' /\ AdoptedNeverPending'
        BY <1>4, <3>3, <4>4 DEF Apply, Inv, Known, ExecState, Ended
      <4>9. Unanswered' /\ EndedLeavesNothing'
        BY <3>2, <3>3, <4>3, <4>4 DEF Inv, Terminal, ExecState, Ended
      <4>. QED
        BY <4>6, <4>7, <4>8, <4>9
    <3>. QED
      BY <3>5, <3>6
  <2>. QED
    BY <1>4, <2>1, <2>2, ApplyEffect DEF Inv
<1>5. ASSUME Observe PROVE Rest'
  <2>1. \A i \in OrderID : /\ orders'[i].state = orders[i].state /\ orders'[i].cum = orders[i].cum
                           /\ orders'[i].leaves = orders[i].leaves /\ orders'[i].qty = orders[i].qty
                           /\ orders'[i].adopted = orders[i].adopted
                           /\ orders'[i].submittedAt = orders[i].submittedAt
    BY <1>5 DEF Observe, Inv, TypeOK, Tracked
  <2>2. \A i \in OrderID : orders[i].state = "NONE" => ~orders'[i].ackTimedOut
    <3> SUFFICES ASSUME NEW i \in OrderID, orders[i].state = "NONE"
                 PROVE  ~orders'[i].ackTimedOut
      OBVIOUS
    <3>1. i \notin OverdueOrders(orders, now)
      BY DEF OverdueOrders, Overdue
    <3>2. (orders[i].ackTimedOut \/ i \in OverdueOrders(orders, now)) = FALSE
      BY <3>1 DEF Inv
    <3>. QED
      BY <1>5, <3>2 DEF Observe, Inv, TypeOK, Tracked
  <2>3. UNCHANGED <<roundtrips, acks, handed>>
    BY <1>5 DEF Observe
  <2>4. Unanswered'
    BY <2>1, <2>2, <2>3 DEF Inv
  <2>5. AdoptedNeverPending' /\ CallersTerms' /\ EndedLeavesNothing'
    BY <2>1, <2>3 DEF Inv, Known, Terminal
  <2>6. RoundtripOnce'
    BY <2>1, <2>3 DEF Inv, Terminal
  <2>7. AckSampledOnce'
    BY <2>1, <2>3 DEF Inv, Known
  <2>. QED
    BY <2>4, <2>5, <2>6, <2>7
<1>6. ASSUME UNCHANGED <<orders, roundtrips, acks, handed>> PROVE Rest'
  BY <1>6 DEF Inv
<1>7. Rest'
  BY <1>1, <1>2, <1>3, <1>4, <1>5, <1>6 DEF Next, Track, TrackRefused, Tick, vars, metrics
<1>. QED
  BY <1>7, TypeStep, GaugeStep, TimeoutStep DEF Inv

(* The inductive invariant holds in every reachable state.                  *)
THEOREM InvCorrect == Spec => []Inv
  BY InvInit, InvStep, PTL DEF Spec

(* Every invariant the model checker checks on small instances, for every   *)
(* set of orders: adoption leaves nothing pending, the caller's terms       *)
(* survive the race between Submit and the first report, each series gets   *)
(* its one sample, the open gauge is exact, an ended order leaves nothing.  *)
THEOREM AdoptionSafe == Spec => []AdoptionIsSafe
<1>1. Inv => AdoptionIsSafe
  BY DEF Inv, AdoptionIsSafe
<1>. QED
  BY <1>1, InvCorrect, PTL

(* One round-trip sample per ended order of this process, at most one       *)
(* acknowledgement sample and at most one timeout, and an open gauge that   *)
(* always equals the number of open orders.                                 *)
THEOREM SeriesExact == Spec => []MetricsExact
<1>1. Inv => MetricsExact
  BY DEF Inv, MetricsExact
<1>. QED
  BY <1>1, InvCorrect, PTL

(* An ended order leaves nothing working.                                   *)
THEOREM EndedDone == Spec => []EndedLeavesNothing
  BY InvCorrect, PTL DEF Inv

-----------------------------------------------------------------------------
(* A step that rewrites one record, in the vocabulary of OrderLife.         *)
LEMMA OneRecordMoves ==
    ASSUME TypeOK, NEW id \in OrderID, NEW n \in Tracked,
           orders' = [orders EXCEPT ![id] = n]
    PROVE  Life!Moves(id, n.state) /\ orders'[id].cum = n.cum
<1>1. \A i \in OrderID : orders'[i] = IF i = id THEN n ELSE orders[i]
  BY DEF TypeOK
<1>2. n.cum \in Nat
  BY DEF Tracked
<1>3. [i \in OrderID |-> orders[i].state]' = [[i \in OrderID |-> orders[i].state] EXCEPT ![id] = n.state]
  <2> DEFINE before == [i \in OrderID |-> orders[i].state]
             after  == [i \in OrderID |-> orders'[i].state]
  <2>1. \A i \in OrderID : after[i] = [before EXCEPT ![id] = n.state][i]
    BY <1>1
  <2>2. after = [before EXCEPT ![id] = n.state]
    <3>1. after = [i \in OrderID |-> after[i]]
      OBVIOUS
    <3>2. [before EXCEPT ![id] = n.state] = [i \in OrderID |-> [before EXCEPT ![id] = n.state][i]]
      OBVIOUS
    <3> HIDE DEF before, after
    <3>. QED
      BY <2>1, <3>1, <3>2
  <2>. QED
    BY <2>2
<1>4. [i \in OrderID |-> orders[i].cum]' = [[i \in OrderID |-> orders[i].cum] EXCEPT ![id] = n.cum]
  <2> DEFINE before == [i \in OrderID |-> orders[i].cum]
             after  == [i \in OrderID |-> orders'[i].cum]
  <2>1. \A i \in OrderID : after[i] = [before EXCEPT ![id] = n.cum][i]
    BY <1>1
  <2>2. after = [before EXCEPT ![id] = n.cum]
    <3>1. after = [i \in OrderID |-> after[i]]
      OBVIOUS
    <3>2. [before EXCEPT ![id] = n.cum] = [i \in OrderID |-> [before EXCEPT ![id] = n.cum][i]]
      OBVIOUS
    <3> HIDE DEF before, after
    <3>. QED
      BY <2>1, <3>1, <3>2
  <2>. QED
    BY <2>2
<1>5. [i \in OrderID |-> orders[i].cum]'[id] = n.cum
  BY <1>1
<1>. QED
  BY <1>1, <1>2, <1>3, <1>4, <1>5 DEF Life!Moves

(* A step that leaves every order's state and filled quantity alone is a    *)
(* stuttering step of OrderLife.                                            *)
LEMMA LifeStutters ==
    ASSUME \A i \in OrderID : orders'[i].state = orders[i].state /\ orders'[i].cum = orders[i].cum
    PROVE  UNCHANGED Life!lifeVars
  BY DEF Life!lifeVars

(* Every step of the tracker is a step of one order's life, or a stutter.   *)
LEMMA LifeStep ==
    ASSUME Inv, [Next]_vars
    PROVE  [Life!LifeNext]_(Life!lifeVars)
<1>0. TypeOK
  BY DEF Inv
<1>1. ASSUME NEW id \in OrderID, TrackNew(id) PROVE Life!LifeNext
  <2>1. opened(handed[id]) \in Tracked /\ opened(handed[id]).state = "PENDING"
        /\ opened(handed[id]).cum = 0
    BY <1>0 DEF opened, Absent, Tracked, TypeOK
  <2>2. Life!Moves(id, "PENDING") /\ orders'[id].cum = 0
    BY <1>0, <1>1, <2>1, OneRecordMoves DEF TrackNew
  <2>3. orders[id].state = "NONE"
    BY <1>1 DEF TrackNew, Known
  <2>4. Life!Hand(id)
    BY <2>2, <2>3 DEF Life!Hand
  <2>. QED
    BY <2>4 DEF Life!LifeNext
<1>2. ASSUME NEW id \in OrderID, TrackAdopted(id) PROVE UNCHANGED Life!lifeVars
  <2>1. \A i \in OrderID : orders'[i].state = orders[i].state /\ orders'[i].cum = orders[i].cum
    BY <1>0, <1>2 DEF TrackAdopted, completed, TypeOK, Tracked
  <2>. QED
    BY <2>1, LifeStutters
<1>3. ASSUME NEW r \in Report, Apply(r) PROVE [Life!LifeNext]_(Life!lifeVars)
  <2>1. CASE UNCHANGED orders
    BY <2>1, LifeStutters
  <2>2. ASSUME NEW o \in Tracked,
               o = IF Known(orders[r.id]) THEN orders[r.id] ELSE adopt(r),
               Known(o), applyOutcome(o, r) = "applied",
               orders' = [orders EXCEPT ![r.id] = applied(o, r)]
        PROVE  Life!LifeNext
    <3>1. r.id \in OrderID
      BY DEF Report
    <3>2. /\ applied(o, r) \in Tracked /\ ~Terminal(o) /\ r.state \in ExecState
          /\ applied(o, r).state = r.state /\ applied(o, r).cum = r.cum
          /\ r.state = "NEW" => o.state = "PENDING"
          /\ r.state = "PARTIAL" => r.cum > o.cum
          /\ r.state \in Ended => r.cum >= o.cum
      BY <2>2, AppliedReport
    <3>3. Life!Moves(r.id, r.state) /\ orders'[r.id].cum = r.cum
      BY <1>0, <2>2, <3>1, <3>2, OneRecordMoves
    <3>4. o.cum = orders[r.id].cum
      BY <2>2, <3>1, AdoptedRecord DEF Inv, Unanswered, Known
    <3>5. orders[r.id].state \notin Ended
      BY <2>2, <3>2 DEF Terminal, Known, Ended
    <3>6. CASE r.state = "NEW"
      <4>1. orders[r.id].state \in {"NONE", "PENDING"}
        BY <2>2, <3>2, <3>6 DEF Known
      <4>2. Life!Acknowledge(r.id)
        BY <3>1, <3>3, <3>6, <4>1 DEF Life!Acknowledge
      <4>. QED
        BY <3>1, <4>2 DEF Life!LifeNext
    <3>7. CASE r.state = "PARTIAL"
      <4>1. Life!Partial(r.id)
        BY <3>1, <3>2, <3>3, <3>4, <3>5, <3>7 DEF Life!Partial, Life!Ends, Life!Closed, Ended
      <4>. QED
        BY <3>1, <4>1 DEF Life!LifeNext
    <3>8. CASE r.state \in Ended
      <4>1. Life!End(r.id)
        BY <3>1, <3>2, <3>3, <3>4, <3>5, <3>8 DEF Life!End, Life!Ends, Life!Closed, Ended
      <4>. QED
        BY <3>1, <4>1 DEF Life!LifeNext
    <3>. QED
      BY <3>2, <3>6, <3>7, <3>8 DEF ExecState
  <2>. QED
    BY <1>0, <1>3, <2>1, <2>2, ApplyEffect
<1>4. ASSUME Observe PROVE UNCHANGED Life!lifeVars
  <2>1. \A i \in OrderID : orders'[i].state = orders[i].state /\ orders'[i].cum = orders[i].cum
    BY <1>0, <1>4 DEF Observe, TypeOK, Tracked
  <2>. QED
    BY <2>1, LifeStutters
<1>5. ASSUME UNCHANGED orders PROVE UNCHANGED Life!lifeVars
  BY <1>5, LifeStutters
<1>. QED
  BY <1>1, <1>2, <1>3, <1>4, <1>5
     DEF Next, Track, Submit, TrackRefused, Tick, vars

(* The tracker implements the life of an order: whatever reports arrive, in *)
(* whatever order and however often, no order's filled quantity falls, no   *)
(* ended order moves again and only a first answer acknowledges.            *)
THEOREM TrackerImplementsOrderLife == Spec => ImplementsOrderLife
<1>1. Init => Life!LifeInit
  BY DEF Init, Absent, Life!LifeInit
<1>2. Inv /\ [Next]_vars => [Life!LifeNext]_(Life!lifeVars)
  BY LifeStep
<1>. QED
  BY <1>1, <1>2, InvCorrect, PTL DEF Spec, ImplementsOrderLife, Life!LifeSpec
=============================================================================
