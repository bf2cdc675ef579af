--------------------------- MODULE OrderEntryProofs ---------------------------
(***************************************************************************)
(* Machine-checked proofs about order entry between carry and sim-venue,   *)
(* for every set of orders, every channel capacity and any number of lost  *)
(* connections and of processes on either side.                            *)
(***************************************************************************)
EXTENDS MCOrderEntry, TLAPS

-----------------------------------------------------------------------------
(* What is sent.                                                           *)

OutType == [type : {"order", "cancel"}, clOrdID : Orders \cup {CancelId},
            orig : Orders \cup {None}, tif : WireTIF]

SubmitState == {"idle", "refused", "checked", "sent", "failed", "tracked", "over"}

SendTypes ==
    /\ submit \in [Orders -> SubmitState] /\ terms \subseteq Orders
    /\ life \in {"running", "stopping", "closed", "down"}
    /\ link \in {"up", "down"} /\ handed \in BOOLEAN
    /\ link = "up" => life \in {"running", "stopping"}
    /\ out \in Seq(OutType)
    /\ outNext \in 1..(Len(out) + 1) /\ outSent \in 0..Len(out) /\ gapTo \in 0..Len(out)
    /\ handed => outNext <= outSent
    /\ book \in [Orders -> {"none", "live", "done"}] /\ worked \in [Orders -> Nat]

(* An order is checked before it is sent, so what the library stores is    *)
(* an order the venue can work, or a cancel of one.                        *)
SentWell ==
    /\ \A o \in Orders : submit[o] = "checked" => translate(Terms[o]) \in WireTIF
    /\ \A n \in 1..Len(out) :
         \/ out[n].type = "order" /\ out[n].clOrdID \in Orders
         \/ out[n].type = "cancel" /\ out[n].orig \in Orders

OrderAt(o, n) == n \in 1..Len(out) /\ out[n].type = "order" /\ out[n].clOrdID = o

(* Each order is stored under one number.                                  *)
OneNumber ==
    /\ \A o \in Orders, n \in Nat : OrderAt(o, n) => submit[o] \in {"sent", "tracked", "over"}
    /\ \A o \in Orders, n, k \in Nat : OrderAt(o, n) /\ OrderAt(o, k) => n = k

(* The venue will not take what it has under n (again): it is past it, is  *)
(* handling it, or will see it again only as a resend.                     *)
Past(n) == n < outNext \/ (n = outNext /\ (handed \/ link = "down" \/ n <= gapTo))
Taken(o) == \E n \in Nat : OrderAt(o, n) /\ Past(n)

About(o) == {n \in 1..Len(in) : in[n].type = "report" /\ reportIdentity(in[n]) = o}

(* The venue works and reports an order only from a number it took.        *)
WorkedWasTaken ==
    \A o \in Orders :
        /\ worked[o] <= 1
        /\ worked[o] > 0 => Taken(o)
        /\ book[o] # "none" => worked[o] > 0
        /\ About(o) # {} => Taken(o)

-----------------------------------------------------------------------------
(* What is received.                                                       *)

InType == [type : {"report", "cancelReject", "businessReject"},
           clOrdID : Orders \cup {CancelId}, orig : Orders \cup {None}, status : ExecState]

InChannel == {reports[i] : i \in DOMAIN reports}

ReceiveTypes ==
    /\ in \in Seq(InType) /\ inNext \in 1..(Len(in) + 1)
    /\ reports \in Seq(Nat) /\ Len(reports) <= ReportBuffer
    /\ fromApp \in {"idle", "waiting", "returned"} /\ consumer \in {"draining", "stopped"}
    /\ fromApp # "idle" => inNext <= Len(in)
    /\ fromApp = "waiting" => in[inNext].type = "report"
    /\ lives \in Nat \ {0} /\ venueLives \in Nat \ {0}
    /\ track \in [Orders -> ExecState \cup {"none", "pending"}]

ReportsNameOrders ==
    \A n \in 1..Len(in) : in[n].type = "report" =>
        reportIdentity(in[n]) \in Orders /\ in[n].status \in Terminal \cup {"NEW"}

(* What the channel holds are numbers of reports.                          *)
ChannelHoldsReports == \A n \in InChannel : n \in 1..Len(in) /\ in[n].type = "report"

(* FromApp has done with number n.                                         *)
Handled(n) == n < inNext \/ (n = inNext /\ fromApp = "returned")

HandledIsAccounted ==
    \A n \in 1..Len(in) : in[n].type = "report" /\ Handled(n) =>
        n \in applied \cup lost \cup abandoned \cup InChannel

(* In the first process no report is handled twice, and they are applied   *)
(* in the order of their numbers.                                          *)
FirstLife == lives = 1 /\ life # "down"
AppliedInOrder ==
    /\ FirstLife => lost = {}
    /\ FirstLife /\ consumer = "draining" => abandoned = {}
    /\ FirstLife =>
         /\ \A n \in applied \cup InChannel : n \in 1..Len(in) /\ Handled(n)
         /\ \A n \in applied, i \in 1..Len(reports) : n < reports[i]
         /\ \A i, j \in 1..Len(reports) : i < j => reports[i] < reports[j]

-----------------------------------------------------------------------------
(* Agreement.                                                              *)

(* The reports on an order tell the story of the book, and an end is the   *)
(* last thing they say.                                                    *)
Story(o) ==
    /\ worked[o] > 0 => book[o] # "none"
    /\ \A n \in About(o) :
         /\ in[n].status = "NEW" => book[o] # "none"
         /\ in[n].status \in {"FILLED", "CANCELED"} => book[o] = "done"
         /\ in[n].status = "REJECTED" => book[o] = "none"
    /\ book[o] = "live" => About(o) # {}
    /\ book[o] = "done" => \E n \in About(o) : in[n].status \in {"FILLED", "CANCELED"}
    /\ \A n, k \in About(o) : in[n].status \in Terminal => k <= n

ReportsFollowBook == venueLives = 1 => \A o \in Orders : Story(o)

(* The tracker says what the applied reports say.                          *)
Follows(o) ==
    /\ About(o) \cap applied = {} => track[o] \in {"none", "pending"}
    /\ \A n \in About(o) \cap applied : in[n].status \in Terminal => track[o] = in[n].status
    /\ /\ About(o) \cap applied # {}
       /\ \A n \in About(o) \cap applied : in[n].status \notin Terminal
       => track[o] = "NEW"

TrackFollowsReports ==
    /\ \A o \in Orders : submit[o] = "tracked" => track[o] # "none"
    /\ FirstLife /\ venueLives = 1 => \A o \in Orders : Follows(o)

SendInv == SendTypes /\ SentWell /\ OneNumber
ReceiveInv ==
    ReceiveTypes /\ ReportsNameOrders /\ ChannelHoldsReports /\ HandledIsAccounted /\ AppliedInOrder
OrderEntryInv ==
    SendInv /\ ReceiveInv /\ WorkedWasTaken /\ ReportsFollowBook /\ TrackFollowsReports

-----------------------------------------------------------------------------
(* The initial state.                                                      *)

LEMMA OrderEntryInit == Init => OrderEntryInv
<1>. SUFFICES ASSUME Init PROVE OrderEntryInv
  OBVIOUS
<1>. USE OrderEntryAssumption DEF Init
<1>1. SendTypes
  <2>1. out \in Seq(OutType) /\ Len(out) = 0
    OBVIOUS
  <2>2. outNext \in 1..(Len(out) + 1) /\ outSent \in 0..Len(out) /\ gapTo \in 0..Len(out)
    BY <2>1
  <2>. QED
    BY <2>1, <2>2 DEF SendTypes, SubmitState
<1>2. SentWell /\ OneNumber
  BY DEF SentWell, OneNumber, OrderAt
<1>3. ReceiveTypes
  BY DEF ReceiveTypes
<1>4. ReportsNameOrders /\ ChannelHoldsReports /\ HandledIsAccounted /\ AppliedInOrder
  BY DEF ReportsNameOrders, ChannelHoldsReports, HandledIsAccounted, AppliedInOrder, InChannel, FirstLife
<1>5. \A o \in Orders : About(o) = {}
  BY DEF About
<1>6. WorkedWasTaken /\ ReportsFollowBook /\ TrackFollowsReports
  BY <1>5 DEF WorkedWasTaken, ReportsFollowBook, Story, TrackFollowsReports, Follows
<1>. QED
  BY <1>1, <1>2, <1>3, <1>4, <1>6 DEF OrderEntryInv, SendInv, ReceiveInv

-----------------------------------------------------------------------------
(* Sending.                                                                *)

(* What carry stores is typed, and says what it is.                        *)
LEMMA StoredOrder ==
    ASSUME NEW o \in Orders, translate(Terms[o]) \in WireTIF
    PROVE  /\ newOrderSingle(o) \in OutType
           /\ newOrderSingle(o).type = "order" /\ newOrderSingle(o).clOrdID = o
  BY DEF newOrderSingle, OutType

LEMMA StoredCancel ==
    ASSUME NEW o \in Orders
    PROVE  /\ cancelRequest(o) \in OutType
           /\ cancelRequest(o).type = "cancel" /\ cancelRequest(o).orig = o
  BY DEF cancelRequest, OutType, WireTIF

(* A translation that is not refused is a time in force of the wire.       *)
LEMMA TranslatesToWire ==
    ASSUME NEW o, translate(o) # "unsupported"
    PROVE  translate(o) \in WireTIF
<1>1. translate(o) = timeInForceToWire(o)
  BY DEF translate
<1>2. CASE o.type = "LIMIT" /\ o.tif \in WireTIF
  BY <1>1, <1>2 DEF timeInForceToWire
<1>3. CASE o.type = "MARKET" /\ o.tif \in {"", "IOC"}
  BY <1>1, <1>3 DEF timeInForceToWire, WireTIF
<1>. QED
  BY <1>1, <1>2, <1>3 DEF timeInForceToWire

LEMMA SendStep == SendInv /\ [Next]_vars => SendInv'
<1>. SUFFICES ASSUME SendInv, [Next]_vars PROVE SendInv'
  OBVIOUS
<1>. USE DEF SendInv
<1>1. ASSUME NEW o \in Orders, SubmitRefused(o) \/ SubmitChecked(o) \/ SubmitFails(o) \/ Track(o)
      PROVE  SendInv'
  <2>1. UNCHANGED <<life, link, handed, out, outNext, outSent, gapTo, book, worked>>
    BY <1>1 DEF SubmitRefused, SubmitChecked, SubmitFails, Track, linkVars, storeVars, venueVars
  <2>2. /\ submit[o] \in {"idle", "checked", "sent"}
        /\ \E s \in SubmitState : submit' = [submit EXCEPT ![o] = s]
        /\ submit'[o] = "checked" => translate(Terms[o]) \in WireTIF
        /\ submit[o] = "sent" => submit'[o] = "tracked"
    BY <1>1, TranslatesToWire DEF SubmitRefused, SubmitChecked, SubmitFails, Track, SubmitState, SendTypes
  <2>3. terms' \subseteq Orders
    BY <1>1 DEF SubmitRefused, SubmitChecked, SubmitFails, Track, SendTypes
  <2>4. SendTypes'
    BY <2>1, <2>2, <2>3 DEF SendTypes
  <2>5. SentWell'
    BY <2>1, <2>2 DEF SentWell, SendTypes
  <2>6. OneNumber'
    BY <2>1, <2>2 DEF OneNumber, OrderAt, SendTypes
  <2>. QED
    BY <2>4, <2>5, <2>6
<1>2. ASSUME NEW o \in Orders, SubmitSends(o) PROVE SendInv'
  <2>1. /\ submit[o] = "checked" /\ submit' = [submit EXCEPT ![o] = "sent"]
        /\ out' = Append(out, newOrderSingle(o))
        /\ UNCHANGED <<terms, life, link, handed, outNext, outSent, gapTo, book, worked>>
    BY <1>2 DEF SubmitSends, linkVars, venueVars
  <2>2. /\ newOrderSingle(o) \in OutType
        /\ newOrderSingle(o).type = "order" /\ newOrderSingle(o).clOrdID = o
    BY <2>1, StoredOrder DEF SentWell
  <2>3. Len(out) \in Nat /\ Len(out') = Len(out) + 1 /\ out' \in Seq(OutType)
    BY <2>1, <2>2 DEF SendTypes
  <2>4. /\ \A n \in 1..Len(out) : out'[n] = out[n]
        /\ out'[Len(out) + 1] = newOrderSingle(o)
    BY <2>1, <2>2 DEF SendTypes
  <2>5. SendTypes'
    BY <2>1, <2>3 DEF SendTypes, SubmitState
  <2>6. SentWell'
    BY <2>1, <2>2, <2>3, <2>4 DEF SentWell, SendTypes
  <2>7. \A p \in Orders, n \in Nat : OrderAt(p, n)' <=> OrderAt(p, n) \/ (p = o /\ n = Len(out) + 1)
    BY <2>2, <2>3, <2>4 DEF OrderAt
  <2>8. \A n \in Nat : ~OrderAt(o, n)
    BY <2>1 DEF OneNumber
  <2>9. OneNumber'
    BY <2>1, <2>7, <2>8 DEF OneNumber, SendTypes
  <2>. QED
    BY <2>5, <2>6, <2>9
<1>3. ASSUME NEW o \in Orders, Cancel(o) PROVE SendInv'
  <2>1. /\ out' = Append(out, cancelRequest(o))
        /\ UNCHANGED <<submit, terms, life, link, handed, outNext, outSent, gapTo, book, worked>>
    BY <1>3 DEF Cancel, linkVars, venueVars
  <2>2. /\ cancelRequest(o) \in OutType
        /\ cancelRequest(o).type = "cancel" /\ cancelRequest(o).orig = o
    BY StoredCancel
  <2>3. Len(out) \in Nat /\ Len(out') = Len(out) + 1 /\ out' \in Seq(OutType)
    BY <2>1, <2>2 DEF SendTypes
  <2>4. /\ \A n \in 1..Len(out) : out'[n] = out[n]
        /\ out'[Len(out) + 1] = cancelRequest(o)
    BY <2>1, <2>2 DEF SendTypes
  <2>5. SendTypes'
    BY <2>1, <2>3 DEF SendTypes
  <2>6. SentWell'
    BY <2>1, <2>2, <2>3, <2>4 DEF SentWell
  <2>7. \A p \in Orders, n \in Nat : OrderAt(p, n)' <=> OrderAt(p, n)
    BY <2>2, <2>3, <2>4 DEF OrderAt
  <2>8. OneNumber'
    BY <2>1, <2>7 DEF OneNumber
  <2>. QED
    BY <2>5, <2>6, <2>8
<1>4. CASE Logon \/ SendQueued
  <2>1. /\ UNCHANGED <<submit, terms, life, handed, out, outNext, book, worked>>
        /\ link' \in {"up", "down"} /\ (link' = link \/ life = "running")
        /\ outSent' = Len(out) /\ gapTo' \in {gapTo, Len(out)}
    BY <1>4 DEF Logon, SendQueued, clientVars, storeVars, venueVars, SendTypes
  <2>2. SendTypes'
    BY <2>1 DEF SendTypes
  <2>. QED
    BY <2>1, <2>2 DEF SentWell, OneNumber, OrderAt
<1>5. CASE Drop \/ Stopped \/ VenueReceived \/ GapFill \/ VenueRestarts
  <2>1. UNCHANGED <<submit, terms, out, outSent, gapTo, worked>>
    BY <1>5 DEF Drop, Stopped, VenueReceived, GapFill, VenueRestarts, clientVars, linkVars, storeVars,
      venueVars
  <2>2. (link' = "down" /\ life' \in {life, "closed"}) \/ UNCHANGED <<link, life>>
    BY <1>5 DEF Drop, Stopped, VenueReceived, GapFill, VenueRestarts, clientVars, linkVars, SendTypes
  <2>3. book' \in [Orders -> {"none", "live", "done"}]
    BY <1>5 DEF Drop, Stopped, VenueReceived, GapFill, VenueRestarts, venueVars, SendTypes
  <2>4. handed' = FALSE
    BY <1>5 DEF Drop, Stopped, VenueReceived, GapFill, VenueRestarts, venueVars, Arrived, SendTypes
  <2>5. outNext' = outNext \/ (outNext' = outNext + 1 /\ outNext <= outSent)
    BY <1>5 DEF Drop, Stopped, VenueReceived, GapFill, VenueRestarts, storeVars, Arrived, SendTypes
  <2>6. outNext' \in 1..(Len(out) + 1)
    BY <2>5 DEF SendTypes
  <2>7. SendTypes'
    BY <2>1, <2>2, <2>3, <2>4, <2>6 DEF SendTypes
  <2>. QED
    BY <2>1, <2>7 DEF SentWell, OneNumber, OrderAt
<1>6. CASE VenueTakes \/ VenueCancels \/ VenueRefuses
  <2>1. UNCHANGED <<submit, terms, life, link, out, outNext, outSent, gapTo>> /\ handed' = TRUE /\ Arrived
    BY <1>6 DEF VenueTakes, VenueCancels, VenueRefuses, clientVars, linkVars
  <2>2. book' \in [Orders -> {"none", "live", "done"}] /\ worked' \in [Orders -> Nat]
    BY <1>6 DEF VenueTakes, VenueCancels, VenueRefuses, SendTypes
  <2>3. SendTypes'
    BY <2>1, <2>2 DEF SendTypes, Arrived
  <2>. QED
    BY <2>1, <2>3 DEF SentWell, OneNumber, OrderAt
<1>7. ASSUME NEW o \in Orders, VenueFills(o) PROVE SendInv'
  BY <1>7 DEF VenueFills, clientVars, linkVars, SendTypes, SentWell, OneNumber, OrderAt
<1>8. CASE \E killed \in BOOLEAN : Exit(killed)
  <2>1. /\ UNCHANGED <<out, outSent, gapTo, book, worked>>
        /\ link' = "down" /\ handed' = FALSE /\ terms' = {} /\ life' = "down"
        /\ outNext' = IF handed THEN outNext + 1 ELSE outNext
        /\ submit' = [o \in Orders |-> IF submit[o] = "idle" THEN "idle" ELSE "over"]
    BY <1>8 DEF Exit
  <2>2. outNext' \in 1..(Len(out) + 1)
    BY <2>1 DEF SendTypes
  <2>3. SendTypes'
    BY <2>1, <2>2 DEF SendTypes, SubmitState
  <2>4. SentWell'
    BY <2>1 DEF SentWell
  <2>5. OneNumber'
    BY <2>1 DEF OneNumber, OrderAt
  <2>. QED
    BY <2>3, <2>4, <2>5
<1>9. CASE Stop \/ Start
  <2>1. /\ UNCHANGED <<submit, terms, link, handed, out, outNext, outSent, gapTo, book, worked>>
        /\ life' \in {"running", "stopping"}
    BY <1>9 DEF Stop, Start, linkVars, storeVars, venueVars
  <2>. QED
    BY <2>1 DEF SendTypes, SentWell, OneNumber, OrderAt
<1>10. CASE \/ OnLogon \/ OnLogout \/ FromAppTakes \/ Deliver \/ Received \/ Drain
            \/ ConsumerStops \/ VenueStops \/ UNCHANGED vars
  <2>1. UNCHANGED <<submit, terms, life, link, handed, out, outNext, outSent, gapTo, book, worked>>
    BY <1>10 DEF OnLogon, OnLogout, FromAppTakes, Deliver, deliver, deliverTimeout, Received, Drain,
      ConsumerStops, VenueStops, vars, clientVars, linkVars, storeVars, venueVars
  <2>. QED
    BY <2>1 DEF SendTypes, SentWell, OneNumber, OrderAt
<1>. QED
  BY <1>1, <1>2, <1>3, <1>4, <1>5, <1>6, <1>7, <1>8, <1>9, <1>10
     DEF Next, Caller, Session, Venue, Process, Faults

-----------------------------------------------------------------------------
(* Receiving.                                                              *)

LEMMA QueueAppend ==
    ASSUME NEW s \in Seq(Nat), NEW n \in Nat
    PROVE  /\ Append(s, n) \in Seq(Nat) /\ Len(s) \in Nat /\ Len(Append(s, n)) = Len(s) + 1
           /\ \A i \in 1..Len(s) : Append(s, n)[i] = s[i]
           /\ Append(s, n)[Len(s) + 1] = n
  OBVIOUS

LEMMA QueueTail ==
    ASSUME NEW s \in Seq(Nat), s # <<>>
    PROVE  /\ Tail(s) \in Seq(Nat) /\ Len(s) \in Nat \ {0} /\ Len(Tail(s)) = Len(s) - 1
           /\ \A i \in 1..Len(Tail(s)) : Tail(s)[i] = s[i + 1] /\ i + 1 \in 1..Len(s)
           /\ Head(s) = s[1] /\ Head(s) \in Nat
  OBVIOUS

(* One more message of sim-venue leaves everything received as it was.     *)
WellSaid(m) ==
    /\ m \in InType
    /\ m.type = "report" => reportIdentity(m) \in Orders /\ m.status \in Terminal \cup {"NEW"}

LEMMA SaidIsKept ==
    ASSUME ReceiveInv, NEW m, WellSaid(m), in' = Append(in, m),
           UNCHANGED <<inNext, reports, fromApp, consumer, lives, venueLives, track, applied, lost,
                       abandoned, life>>
    PROVE  ReceiveInv'
<1>. USE DEF ReceiveInv
<1>1. /\ in' \in Seq(InType) /\ Len(in) \in Nat /\ Len(in') = Len(in) + 1
      /\ \A n \in 1..Len(in) : in'[n] = in[n]
      /\ in'[Len(in) + 1] = m
  BY DEF ReceiveTypes, WellSaid
<1>2. ReceiveTypes'
  BY <1>1 DEF ReceiveTypes
<1>3. ReportsNameOrders' /\ ChannelHoldsReports'
  BY <1>1 DEF ReportsNameOrders, ChannelHoldsReports, InChannel, WellSaid, reportIdentity
<1>4. ~Handled(Len(in) + 1)
  BY <1>1 DEF Handled, ReceiveTypes
<1>5. HandledIsAccounted'
  <2>. SUFFICES ASSUME NEW n \in 1..Len(in'), in'[n].type = "report", Handled(n)'
                PROVE  n \in applied \cup lost \cup abandoned \cup InChannel
    BY DEF HandledIsAccounted, InChannel
  <2>1. Handled(n)
    BY DEF Handled
  <2>2. n \in 1..Len(in)
    BY <1>1, <1>4, <2>1
  <2>. QED
    BY <1>1, <2>1, <2>2 DEF HandledIsAccounted
<1>6. AppliedInOrder'
  <2>1. InChannel' = InChannel
    BY DEF InChannel
  <2>2. \A n : Handled(n)' <=> Handled(n)
    BY DEF Handled
  <2>3. FirstLife' <=> FirstLife
    BY DEF FirstLife
  <2>. QED
    BY <1>1, <2>1, <2>2, <2>3 DEF AppliedInOrder
<1>. QED
  BY <1>2, <1>3, <1>5, <1>6

(* Every answer of sim-venue is such a message.                            *)
LEMMA VenueSays ==
    ASSUME SendInv, NEW o \in Orders
    PROVE  /\ WellSaid(executionReport(o, None, "NEW")) /\ WellSaid(executionReport(o, None, "REJECTED"))
           /\ WellSaid(executionReport(o, None, "FILLED"))
           /\ WellSaid(executionReport(CancelId, o, "CANCELED")) /\ WellSaid(cancelReject(o))
           /\ reportIdentity(executionReport(o, None, "NEW")) = o
           /\ reportIdentity(executionReport(o, None, "REJECTED")) = o
           /\ reportIdentity(executionReport(o, None, "FILLED")) = o
           /\ reportIdentity(executionReport(CancelId, o, "CANCELED")) = o
  BY OrderEntryAssumption DEF WellSaid, executionReport, cancelReject, InType, reportIdentity,
    ExecState, Terminal

(* A report that is put into the channel goes behind all others.           *)
LEMMA QueuedIsKept ==
    ASSUME ReceiveInv, fromApp # "returned", inNext <= Len(in), in[inNext].type = "report", ~Full,
           fromApp' = "returned", reports' = Append(reports, inNext),
           UNCHANGED <<in, inNext, consumer, lives, venueLives, track, applied, lost, abandoned, life>>
    PROVE  ReceiveInv'
<1>. USE DEF ReceiveInv
<1>1. inNext \in 1..Len(in) /\ Len(reports) \in Nat
  BY DEF ReceiveTypes
<1>2. \A n : Handled(n)' <=> Handled(n) \/ n = inNext
  BY DEF Handled
<1>3. /\ reports' \in Seq(Nat) /\ Len(reports') = Len(reports) + 1
      /\ \A i \in 1..Len(reports) : reports'[i] = reports[i]
      /\ reports'[Len(reports) + 1] = inNext
  BY <1>1, QueueAppend DEF ReceiveTypes
<1>4. InChannel' = InChannel \cup {inNext}
  <2>1. InChannel = {reports[i] : i \in 1..Len(reports)}
    BY DEF InChannel, ReceiveTypes
  <2>2. DOMAIN reports' = 1..Len(reports')
    BY <1>3
  <2>3. InChannel' = {reports'[i] : i \in 1..Len(reports')}
    BY <2>2 DEF InChannel
  <2>. QED
    BY <1>1, <1>3, <2>1, <2>3
<1>5. ReceiveTypes'
  <2>1. Len(reports') <= ReportBuffer
    BY <1>1, <1>3, OrderEntryAssumption DEF Full
  <2>. QED
    BY <1>1, <1>3, <2>1 DEF ReceiveTypes
<1>6. ReportsNameOrders' /\ ChannelHoldsReports' /\ HandledIsAccounted'
  BY <1>1, <1>2, <1>4 DEF ReportsNameOrders, ChannelHoldsReports, HandledIsAccounted
<1>7. AppliedInOrder'
  <2>. SUFFICES ASSUME FirstLife
                PROVE  /\ \A n \in applied \cup InChannel' : n \in 1..Len(in) /\ Handled(n)'
                       /\ \A n \in applied, i \in 1..Len(reports') : n < reports'[i]
                       /\ \A i, j \in 1..Len(reports') : i < j => reports'[i] < reports'[j]
    BY DEF AppliedInOrder, FirstLife
  <2>1. \A n \in applied \cup InChannel : n \in 1..Len(in) /\ Handled(n)
    BY DEF AppliedInOrder
  <2>2. \A n \in applied \cup InChannel : n < inNext
    BY <2>1 DEF Handled
  <2>3. \A i \in 1..Len(reports) : reports[i] \in InChannel
    BY DEF InChannel, ReceiveTypes
  <2>4. \A n \in applied, i \in 1..Len(reports') : n < reports'[i]
    BY <1>1, <1>3, <2>2 DEF AppliedInOrder
  <2>5. \A i, j \in 1..Len(reports') : i < j => reports'[i] < reports'[j]
    <3>. SUFFICES ASSUME NEW i \in 1..Len(reports'), NEW j \in 1..Len(reports'), i < j
                  PROVE  reports'[i] < reports'[j]
      OBVIOUS
    <3>1. i \in 1..Len(reports) /\ reports'[i] = reports[i] /\ reports[i] < inNext
      BY <1>1, <1>3, <2>2, <2>3
    <3>2. CASE j \in 1..Len(reports)
      BY <1>3, <3>1, <3>2 DEF AppliedInOrder
    <3>3. CASE j = Len(reports) + 1
      BY <1>3, <3>1, <3>3
    <3>. QED
      BY <1>1, <1>3, <3>2, <3>3
  <2>. QED
    BY <1>1, <1>2, <1>4, <2>1, <2>4, <2>5
<1>. QED
  BY <1>5, <1>6, <1>7

LEMMA ReceiveStep == SendInv /\ ReceiveInv /\ [Next]_vars => ReceiveInv'
<1>. SUFFICES ASSUME SendInv, ReceiveInv, [Next]_vars PROVE ReceiveInv'
  OBVIOUS
<1>. USE DEF ReceiveInv
<1>0. Len(in) \in Nat /\ Len(reports) \in Nat /\ inNext \in Nat
  BY DEF ReceiveTypes
<1>1. CASE VenueTakes
  <2>1. PICK o \in Orders : o = out[outNext].clOrdID
    BY <1>1 DEF VenueTakes, Arrived, SendInv, SendTypes, SentWell
  <2>2. \/ in' = Append(in, executionReport(o, None, "NEW"))
        \/ in' = Append(in, executionReport(o, None, "REJECTED"))
    BY <1>1, <2>1 DEF VenueTakes, Says
  <2>3. UNCHANGED <<inNext, reports, fromApp, consumer, lives, venueLives, track, applied, lost,
                    abandoned, life>>
    BY <1>1 DEF VenueTakes, clientVars, reportVars
  <2>. QED
    BY <2>2, <2>3, SaidIsKept, VenueSays
<1>2. CASE VenueCancels
  <2>1. PICK o \in Orders : o = out[outNext].orig
    <3>1. outNext \in 1..Len(out) /\ out[outNext].type = "cancel"
      BY <1>2 DEF VenueCancels, Arrived, SendInv, SendTypes
    <3>2. out[outNext].orig \in Orders
      BY <3>1 DEF SendInv, SentWell
    <3>. QED
      BY <3>2
  <2>2. \/ in' = Append(in, executionReport(CancelId, o, "CANCELED"))
        \/ in' = Append(in, cancelReject(o))
    BY <1>2, <2>1 DEF VenueCancels, Says
  <2>3. UNCHANGED <<inNext, reports, fromApp, consumer, lives, venueLives, track, applied, lost,
                    abandoned, life>>
    BY <1>2 DEF VenueCancels, clientVars, reportVars
  <2>. QED
    BY <2>2, <2>3, SaidIsKept, VenueSays
<1>3. CASE VenueRefuses
  <2>1. in' = Append(in, businessReject(out[outNext].clOrdID))
    BY <1>3 DEF VenueRefuses, Says
  <2>2. out[outNext] \in OutType
    BY <1>3 DEF VenueRefuses, Arrived, SendInv, SendTypes
  <2>3. WellSaid(businessReject(out[outNext].clOrdID))
    BY <2>2 DEF OutType, businessReject, WellSaid, InType, ExecState
  <2>4. UNCHANGED <<inNext, reports, fromApp, consumer, lives, venueLives, track, applied, lost,
                    abandoned, life>>
    BY <1>3 DEF VenueRefuses, clientVars, reportVars
  <2>. QED
    BY <2>1, <2>3, <2>4, SaidIsKept
<1>4. ASSUME NEW o \in Orders, VenueFills(o) PROVE ReceiveInv'
  <2>1. in' = Append(in, executionReport(o, None, "FILLED"))
    BY <1>4 DEF VenueFills, Says
  <2>2. UNCHANGED <<inNext, reports, fromApp, consumer, lives, venueLives, track, applied, lost,
                    abandoned, life>>
    BY <1>4 DEF VenueFills, clientVars, reportVars
  <2>. QED
    BY <2>1, <2>2, SaidIsKept, VenueSays
<1>5. CASE FromAppTakes
  <2>1. /\ inNext <= Len(in) /\ fromApp = "idle"
        /\ UNCHANGED <<in, inNext, consumer, lives, venueLives, track, applied, lost, abandoned, life>>
    BY <1>5 DEF FromAppTakes, clientVars, storeVars, venueVars
  <2>2. CASE in[inNext].type = "report" /\ Full
    <3>1. fromApp' = "waiting" /\ reports' = reports
      BY <1>5, <2>2 DEF FromAppTakes
    <3>2. \A n : Handled(n)' <=> Handled(n)
      BY <2>1, <3>1 DEF Handled
    <3>3. ReceiveTypes'
      BY <2>1, <2>2, <3>1 DEF ReceiveTypes
    <3>. QED
      BY <2>1, <3>1, <3>2, <3>3 DEF ReportsNameOrders, ChannelHoldsReports, HandledIsAccounted,
        AppliedInOrder, InChannel, FirstLife
  <2>3. CASE in[inNext].type # "report"
    <3>1. fromApp' = "returned" /\ reports' = reports
      BY <1>5, <2>3 DEF FromAppTakes
    <3>2. \A n : Handled(n)' <=> Handled(n) \/ n = inNext
      BY <2>1, <3>1 DEF Handled
    <3>. QED
      BY <2>1, <2>3, <3>1, <3>2 DEF ReceiveTypes, ReportsNameOrders, ChannelHoldsReports,
        HandledIsAccounted, AppliedInOrder, InChannel, FirstLife
  <2>4. CASE in[inNext].type = "report" /\ ~Full
    <3>1. fromApp' = "returned" /\ reports' = Append(reports, inNext) /\ fromApp # "returned"
      BY <1>5, <2>4 DEF FromAppTakes
    <3>. QED
      BY <2>1, <2>4, <3>1, QueuedIsKept
  <2>. QED
    BY <2>2, <2>3, <2>4
<1>6. CASE deliver
  <2>1. /\ fromApp = "waiting" /\ ~Full /\ fromApp' = "returned" /\ reports' = Append(reports, inNext)
        /\ UNCHANGED <<in, inNext, consumer, lives, venueLives, track, applied, lost, abandoned, life>>
    BY <1>6 DEF deliver, clientVars, storeVars, venueVars
  <2>2. fromApp # "returned" /\ inNext <= Len(in) /\ in[inNext].type = "report"
    BY <2>1 DEF ReceiveTypes
  <2>. QED
    BY <2>1, <2>2, QueuedIsKept
<1>7. CASE deliverTimeout
  <2>1. /\ fromApp = "waiting" /\ fromApp' = "returned" /\ abandoned' = abandoned \cup {inNext}
        /\ consumer = "stopped"
        /\ UNCHANGED <<in, inNext, reports, consumer, lives, venueLives, track, applied, lost, life>>
    BY <1>7 DEF deliverTimeout, clientVars, storeVars, venueVars
  <2>2. \A n : Handled(n)' <=> Handled(n) \/ n = inNext
    BY <2>1 DEF Handled
  <2>3. ReceiveTypes'
    BY <2>1 DEF ReceiveTypes
  <2>4. ReportsNameOrders' /\ ChannelHoldsReports'
    BY <2>1 DEF ReportsNameOrders, ChannelHoldsReports, InChannel
  <2>5. HandledIsAccounted'
    BY <2>1, <2>2 DEF HandledIsAccounted, InChannel
  <2>6. AppliedInOrder'
    BY <2>1, <2>2 DEF AppliedInOrder, InChannel, FirstLife
  <2>. QED
    BY <2>3, <2>4, <2>5, <2>6
<1>8. CASE Received
  <2>1. /\ fromApp = "returned" /\ fromApp' = "idle" /\ inNext' = inNext + 1
        /\ UNCHANGED <<in, reports, consumer, lives, venueLives, track, applied, lost, abandoned, life>>
    BY <1>8 DEF Received, clientVars, storeVars, venueVars
  <2>2. \A n \in Nat : Handled(n)' <=> Handled(n)
    BY <1>0, <2>1 DEF Handled
  <2>3. inNext' \in 1..(Len(in) + 1)
    BY <2>1 DEF ReceiveTypes
  <2>4. ReceiveTypes'
    BY <2>1, <2>3 DEF ReceiveTypes
  <2>5. ReportsNameOrders' /\ ChannelHoldsReports'
    BY <2>1 DEF ReportsNameOrders, ChannelHoldsReports, InChannel
  <2>6. HandledIsAccounted'
    BY <1>0, <2>1, <2>2 DEF HandledIsAccounted, InChannel
  <2>7. AppliedInOrder'
    BY <1>0, <2>1, <2>2 DEF AppliedInOrder, InChannel, FirstLife
  <2>. QED
    BY <2>4, <2>5, <2>6, <2>7
<1>9. CASE Drain
  <2>1. /\ reports # <<>> /\ reports' = Tail(reports) /\ applied' = applied \cup {Head(reports)}
        /\ UNCHANGED <<in, inNext, fromApp, consumer, lives, venueLives, lost, abandoned, life>>
    BY <1>9 DEF Drain, clientVars, storeVars, venueVars
  <2>2. /\ reports' \in Seq(Nat) /\ Len(reports) \in Nat \ {0} /\ Len(reports') = Len(reports) - 1
        /\ \A i \in 1..Len(reports') : reports'[i] = reports[i + 1] /\ i + 1 \in 1..Len(reports)
        /\ Head(reports) = reports[1]
    BY <2>1, QueueTail DEF ReceiveTypes
  <2>3. InChannel = InChannel' \cup {Head(reports)}
    <3>1. InChannel = {reports[i] : i \in 1..Len(reports)}
      BY DEF InChannel, ReceiveTypes
    <3>2. InChannel' = {reports'[i] : i \in 1..Len(reports')}
      <4>1. DOMAIN reports' = 1..Len(reports')
        BY <2>2
      <4>. QED
        BY <4>1 DEF InChannel
    <3>3. \A i \in 1..Len(reports) : i = 1 \/ (i - 1 \in 1..Len(reports') /\ reports[i] = reports'[i - 1])
      BY <2>2
    <3>4. 1 \in 1..Len(reports)
      BY <2>2
    <3>5. ASSUME NEW n \in InChannel PROVE n \in InChannel' \cup {Head(reports)}
      BY <2>2, <3>1, <3>2, <3>3
    <3>6. ASSUME NEW n \in InChannel' PROVE n \in InChannel
      <4>1. PICK i \in 1..Len(reports') : n = reports'[i]
        BY <3>2
      <4>2. i + 1 \in 1..Len(reports) /\ n = reports[i + 1]
        BY <2>2, <4>1
      <4>. QED
        BY <3>1, <4>2
    <3>. QED
      BY <2>2, <3>1, <3>4, <3>5, <3>6
  <2>4. track' \in [Orders -> ExecState \cup {"none", "pending"}]
    <3>1. Head(reports) \in 1..Len(in)
      BY <2>3 DEF ChannelHoldsReports
    <3>2. in[Head(reports)].status \in ExecState
      <4>1. in[Head(reports)] \in InType
        BY <3>1 DEF ReceiveTypes
      <4>. QED
        BY <4>1 DEF InType
    <3>3. track' = [p \in Orders |->
                      IF p = reportIdentity(in[Head(reports)]) /\ track[p] \notin Terminal
                      THEN in[Head(reports)].status ELSE track[p]]
      BY <1>9 DEF Drain
    <3>. QED
      BY <3>2, <3>3 DEF ReceiveTypes
  <2>5. ReceiveTypes'
    <3>1. Len(reports') <= ReportBuffer
      BY <2>2, OrderEntryAssumption DEF ReceiveTypes
    <3>. QED
      BY <2>1, <2>2, <2>4, <3>1 DEF ReceiveTypes
  <2>6. \A n : Handled(n)' <=> Handled(n)
    BY <2>1 DEF Handled
  <2>7. ReportsNameOrders' /\ ChannelHoldsReports' /\ HandledIsAccounted'
    BY <2>1, <2>3, <2>6 DEF ReportsNameOrders, ChannelHoldsReports, HandledIsAccounted
  <2>8. AppliedInOrder'
    <3>. SUFFICES ASSUME FirstLife
                  PROVE  /\ \A n \in applied' \cup InChannel' : n \in 1..Len(in) /\ Handled(n)
                         /\ \A n \in applied', i \in 1..Len(reports') : n < reports'[i]
                         /\ \A i, j \in 1..Len(reports') : i < j => reports'[i] < reports'[j]
      BY <2>1, <2>6 DEF AppliedInOrder, FirstLife
    <3>1. \A n \in applied, i \in 1..Len(reports') : n < reports'[i]
      BY <2>2 DEF AppliedInOrder
    <3>2. 1 \in 1..Len(reports) /\ \A i \in 1..Len(reports') : 1 < i + 1 /\ i + 1 \in 1..Len(reports)
      BY <2>2
    <3>3. \A i \in 1..Len(reports') : Head(reports) < reports'[i]
      BY <2>2, <3>2 DEF AppliedInOrder
    <3>4. \A i, j \in 1..Len(reports') : i < j => reports'[i] < reports'[j]
      <4>. SUFFICES ASSUME NEW i \in 1..Len(reports'), NEW j \in 1..Len(reports'), i < j
                    PROVE  reports'[i] < reports'[j]
        OBVIOUS
      <4>1. i + 1 < j + 1 /\ i + 1 \in 1..Len(reports) /\ j + 1 \in 1..Len(reports)
        BY <2>2
      <4>. QED
        BY <2>2, <4>1 DEF AppliedInOrder
    <3>. QED
      BY <2>1, <2>3, <3>1, <3>3, <3>4 DEF AppliedInOrder
  <2>. QED
    BY <2>5, <2>7, <2>8
<1>10. CASE ConsumerStops
  BY <1>10 DEF ConsumerStops, clientVars, storeVars, venueVars, ReceiveTypes, ReportsNameOrders, ChannelHoldsReports,
    HandledIsAccounted, AppliedInOrder, InChannel, FirstLife, Handled
<1>11. CASE Stop \/ Stopped
  BY <1>11 DEF Stop, Stopped, reportVars, storeVars, venueVars, ReceiveTypes, ReportsNameOrders, ChannelHoldsReports,
    HandledIsAccounted, AppliedInOrder, InChannel, FirstLife, Handled
<1>12. CASE \E killed \in BOOLEAN : Exit(killed)
  <2>1. /\ life' = "down" /\ lost' = lost \cup InChannel /\ reports' = <<>> /\ fromApp' = "idle"
        /\ track' = [o \in Orders |-> "none"]
        /\ UNCHANGED <<in, inNext, consumer, lives, venueLives, applied, abandoned>>
    BY <1>12 DEF Exit, InChannel
  <2>2. reports' \in Seq(Nat) /\ Len(reports') = 0
    BY <2>1
  <2>3. ReceiveTypes'
    BY <2>1, <2>2, OrderEntryAssumption DEF ReceiveTypes
  <2>4. \A n : Handled(n)' => Handled(n)
    BY <2>1 DEF Handled
  <2>5. ReportsNameOrders' /\ ChannelHoldsReports' /\ HandledIsAccounted'
    BY <2>1, <2>2, <2>4 DEF ReportsNameOrders, ChannelHoldsReports, HandledIsAccounted, InChannel
  <2>6. AppliedInOrder'
    BY <2>1 DEF AppliedInOrder, FirstLife
  <2>. QED
    BY <2>3, <2>5, <2>6
<1>13. CASE Start
  <2>1. lives' = lives + 1 /\ consumer' = "draining"
        /\ UNCHANGED <<in, inNext, fromApp, reports, venueLives, track, applied, lost, abandoned>>
    BY <1>13 DEF Start, storeVars, venueVars
  <2>. QED
    BY <2>1 DEF ReceiveTypes, ReportsNameOrders, ChannelHoldsReports,
        HandledIsAccounted, AppliedInOrder, InChannel, FirstLife, Handled
<1>14. ASSUME NEW o \in Orders, Track(o) PROVE ReceiveInv'
  BY <1>14 DEF Track, storeVars, venueVars, ReceiveTypes, ReportsNameOrders, ChannelHoldsReports,
    HandledIsAccounted, AppliedInOrder, InChannel, FirstLife, Handled
<1>15. ASSUME NEW o \in Orders, \/ SubmitRefused(o) \/ SubmitChecked(o) \/ SubmitSends(o)
                                \/ SubmitFails(o) \/ Cancel(o)
       PROVE  ReceiveInv'
  <2>1. UNCHANGED <<in, inNext, reports, fromApp, consumer, lives, venueLives, track, applied, lost,
                    abandoned, life>>
    BY <1>15 DEF SubmitRefused, SubmitChecked, SubmitSends, SubmitFails, Cancel, reportVars,
      storeVars, venueVars
  <2>. QED
    BY <2>1 DEF ReceiveTypes, ReportsNameOrders, ChannelHoldsReports,
        HandledIsAccounted, AppliedInOrder, InChannel, FirstLife, Handled
<1>16. CASE \/ Logon \/ OnLogon \/ SendQueued \/ OnLogout \/ Drop \/ GapFill \/ VenueReceived
            \/ VenueStops \/ VenueRestarts \/ UNCHANGED vars
  <2>1. /\ UNCHANGED <<in, inNext, reports, fromApp, consumer, lives, track, applied, lost,
                       abandoned, life>>
        /\ venueLives' \in Nat \ {0}
    BY <1>16 DEF Logon, OnLogon, SendQueued, OnLogout, Drop, GapFill, VenueReceived, VenueStops,
      VenueRestarts, vars, clientVars, reportVars, storeVars, venueVars, ReceiveTypes
  <2>. QED
    BY <2>1 DEF ReceiveTypes, ReportsNameOrders, ChannelHoldsReports,
        HandledIsAccounted, AppliedInOrder, InChannel, FirstLife, Handled
<1>. QED
  BY <1>1, <1>2, <1>3, <1>4, <1>5, <1>6, <1>7, <1>8, <1>9, <1>10, <1>11, <1>12, <1>13, <1>14, <1>15,
     <1>16 DEF Next, Caller, Session, Deliver, Venue, Process, Faults

-----------------------------------------------------------------------------
(* Working.                                                                *)

LEMMA SaidAbout ==
    ASSUME ReceiveInv, NEW m, m \in InType, in' = Append(in, m), NEW o \in Orders
    PROVE  /\ m.type = "report" /\ reportIdentity(m) = o => About(o)' = About(o) \cup {Len(in) + 1}
           /\ ~(m.type = "report" /\ reportIdentity(m) = o) => About(o)' = About(o)
<1>1. /\ Len(in) \in Nat /\ Len(in') = Len(in) + 1
      /\ \A n \in 1..Len(in) : in'[n] = in[n]
      /\ in'[Len(in) + 1] = m
  BY DEF ReceiveInv, ReceiveTypes
<1>2. \A n \in 1..Len(in') : n \in 1..Len(in) \/ n = Len(in) + 1
  BY <1>1
<1>3. 1..Len(in) \subseteq 1..Len(in') /\ Len(in) + 1 \in 1..Len(in') /\ Len(in) + 1 \notin 1..Len(in)
  BY <1>1
<1>4. About(o)' = {n \in 1..Len(in') : in'[n].type = "report" /\ reportIdentity(in'[n]) = o}
  BY DEF About, reportIdentity
<1>. QED
  BY <1>1, <1>2, <1>3, <1>4 DEF About

(* What the venue has taken stays taken: a number is passed over, handled  *)
(* or resent, never offered to the engine a second time.                   *)
LEMMA TakenStaysTaken ==
    ASSUME SendInv, [Next]_vars, NEW o \in Orders, Taken(o)
    PROVE  Taken(o)'
<1>1. PICK n \in Nat : OrderAt(o, n) /\ Past(n)
  BY DEF Taken
<1>2. n \in 1..Len(out) /\ outNext \in Nat
  BY <1>1 DEF OrderAt, SendInv, SendTypes
<1>3. OrderAt(o, n)'
  <2>1. CASE UNCHANGED out
    BY <1>1, <2>1 DEF OrderAt
  <2>2. ASSUME NEW m, m \in OutType, out' = Append(out, m) PROVE OrderAt(o, n)'
    BY <1>1, <1>2, <2>2 DEF OrderAt, SendInv, SendTypes
  <2>3. ASSUME NEW p \in Orders, SubmitSends(p) PROVE OrderAt(o, n)'
    <3>1. newOrderSingle(p) \in OutType /\ out' = Append(out, newOrderSingle(p))
      BY <2>3, StoredOrder DEF SubmitSends, SendInv, SentWell
    <3>. QED
      BY <2>2, <3>1
  <2>4. ASSUME NEW p \in Orders, Cancel(p) PROVE OrderAt(o, n)'
    <3>1. cancelRequest(p) \in OutType /\ out' = Append(out, cancelRequest(p))
      BY <2>4, StoredCancel DEF Cancel
    <3>. QED
      BY <2>2, <3>1
  <2>. QED
    BY <2>1, <2>3, <2>4 DEF Next, Caller, SubmitRefused, SubmitChecked, SubmitFails, Track, Session,
      Deliver, Logon, OnLogon, SendQueued, OnLogout, FromAppTakes, deliver, deliverTimeout, Received,
      Drain, Venue, GapFill, VenueTakes, VenueCancels, VenueRefuses, VenueReceived, VenueFills,
      Process, Stop, Stopped, Start, Exit, Faults, Drop, ConsumerStops, VenueStops, VenueRestarts,
      vars, storeVars
<1>4. Past(n)'
  <2>1. CASE Logon
    <3>1. gapTo' = Len(out) /\ outNext' = outNext
      BY <2>1 DEF Logon, storeVars
    <3>. QED
      BY <1>1, <1>2, <3>1 DEF Past
  <2>2. CASE Drop \/ Stopped \/ VenueRestarts \/ \E killed \in BOOLEAN : Exit(killed)
    <3>1. link' = "down" /\ (outNext' = outNext \/ outNext' = outNext + 1)
      BY <2>2 DEF Drop, Stopped, VenueRestarts, Exit, storeVars
    <3>. QED
      BY <1>1, <1>2, <3>1 DEF Past
  <2>3. CASE GapFill \/ VenueReceived
    <3>1. outNext' = outNext + 1
      BY <2>3 DEF GapFill, VenueReceived
    <3>. QED
      BY <1>1, <1>2, <3>1 DEF Past
  <2>4. CASE VenueTakes \/ VenueCancels \/ VenueRefuses
    <3>1. handed' = TRUE /\ outNext' = outNext
      BY <2>4 DEF VenueTakes, VenueCancels, VenueRefuses
    <3>. QED
      BY <1>1, <1>2, <3>1 DEF Past
  <2>5. CASE UNCHANGED <<outNext, handed, link, gapTo>>
    BY <1>1, <2>5 DEF Past
  <2>. QED
    BY <2>1, <2>2, <2>3, <2>4, <2>5 DEF Next, Caller, SubmitRefused, SubmitChecked, SubmitSends,
      SubmitFails, Track, Cancel, Session, Deliver, OnLogon, SendQueued, OnLogout, FromAppTakes,
      deliver, deliverTimeout, Received, Drain, Venue, VenueFills, Process, Stop, Start, Faults,
      ConsumerStops, VenueStops, vars, storeVars, linkVars, venueVars
<1>. QED
  BY <1>3, <1>4 DEF Taken

(* What is offered to the engine now was not taken before.                 *)
LEMMA OfferedIsNew ==
    ASSUME SendInv, Arrived, ~gapFilled(outNext), out[outNext].type = "order",
           NEW o \in Orders, o = out[outNext].clOrdID
    PROVE  OrderAt(o, outNext) /\ ~Taken(o)
<1>1. OrderAt(o, outNext) /\ outNext \in Nat
  BY DEF Arrived, OrderAt, SendInv, SendTypes
<1>2. ~Past(outNext)
  BY DEF Past, Arrived, gapFilled, SendInv, SendTypes
<1>. QED
  BY <1>1, <1>2 DEF Taken, SendInv, OneNumber

LEMMA WorkStep ==
    ASSUME SendInv, ReceiveInv, WorkedWasTaken, [Next]_vars
    PROVE  WorkedWasTaken'
<1>1. CASE VenueTakes
  <2>1. PICK o \in Orders : o = out[outNext].clOrdID
    BY <1>1 DEF VenueTakes, Arrived, SendInv, SendTypes, SentWell
  <2>2. ~Taken(o) /\ Taken(o)'
    <3>1. OrderAt(o, outNext) /\ ~Taken(o)
      BY <1>1, <2>1, OfferedIsNew DEF VenueTakes
    <3>2. PICK n \in Nat : n = outNext
      BY DEF SendInv, SendTypes
    <3>3. OrderAt(o, n)' /\ Past(n)'
      BY <1>1, <3>1, <3>2 DEF VenueTakes, OrderAt, Past
    <3>. QED
      BY <3>1, <3>3 DEF Taken
  <2>3. worked[o] = 0
    BY <2>2 DEF WorkedWasTaken, SendInv, SendTypes
  <2>4. PICK m : /\ m \in InType /\ in' = Append(in, m) /\ m.type = "report" /\ reportIdentity(m) = o
    <3>1. \/ in' = Append(in, executionReport(o, None, "NEW"))
          \/ in' = Append(in, executionReport(o, None, "REJECTED"))
      BY <1>1, <2>1 DEF VenueTakes, Says
    <3>. QED
      BY <3>1, VenueSays DEF WellSaid, executionReport
  <2>5. \A p \in Orders : p # o => About(p)' = About(p)
    BY <2>4, SaidAbout
  <2>6. \/ worked' = [worked EXCEPT ![o] = @ + 1] /\ book' = [book EXCEPT ![o] = "live"]
        \/ worked' = worked /\ book' = book
    BY <1>1, <2>1 DEF VenueTakes
  <2>7. \A p \in Orders : p # o => worked'[p] = worked[p] /\ book'[p] = book[p]
    BY <2>6 DEF SendInv, SendTypes
  <2>8. worked'[o] <= 1 /\ (book'[o] # "none" => worked'[o] > 0)
    BY <2>3, <2>6 DEF SendInv, SendTypes, WorkedWasTaken
  <2>. QED
    BY <2>2, <2>5, <2>7, <2>8, TakenStaysTaken DEF WorkedWasTaken
<1>2. CASE VenueCancels \/ \E o \in Orders : VenueFills(o)
  <2>1. /\ worked' = worked
        /\ \A p \in Orders : book'[p] # "none" <=> book[p] # "none"
    <3>1. \/ book' = book
          \/ \E o \in Orders : book[o] = "live" /\ book' = [book EXCEPT ![o] = "done"]
      <4>1. CASE VenueCancels
        <5>1. PICK o \in Orders : o = out[outNext].orig
          BY <4>1 DEF VenueCancels, Arrived, SendInv, SendTypes, SentWell
        <5>. QED
          BY <4>1, <5>1 DEF VenueCancels
      <4>2. CASE \E o \in Orders : VenueFills(o)
        BY <4>2 DEF VenueFills
      <4>. QED
        BY <1>2, <4>1, <4>2
    <3>2. worked' = worked
      BY <1>2 DEF VenueCancels, VenueFills
    <3>. QED
      BY <3>1, <3>2 DEF SendInv, SendTypes
  <2>2. \A p \in Orders : About(p)' # {} => About(p) # {} \/ book[p] # "none"
    <3>1. CASE VenueCancels
      <4>1. PICK o \in Orders : o = out[outNext].orig
        BY <3>1 DEF VenueCancels, Arrived, SendInv, SendTypes, SentWell
      <4>2. \/ in' = Append(in, executionReport(CancelId, o, "CANCELED")) /\ book[o] = "live"
            \/ in' = Append(in, cancelReject(o))
        BY <3>1, <4>1 DEF VenueCancels, Says
      <4>3. CASE in' = Append(in, executionReport(CancelId, o, "CANCELED")) /\ book[o] = "live"
        BY <4>3, VenueSays, SaidAbout DEF WellSaid
      <4>4. CASE in' = Append(in, cancelReject(o))
        <5>1. cancelReject(o) \in InType /\ cancelReject(o).type # "report"
          BY VenueSays DEF WellSaid, cancelReject
        <5>. QED
          BY <4>4, <5>1, SaidAbout
      <4>. QED
        BY <4>2, <4>3, <4>4
    <3>2. ASSUME NEW o \in Orders, VenueFills(o)
          PROVE  \A p \in Orders : About(p)' # {} => About(p) # {} \/ book[p] # "none"
      <4>1. in' = Append(in, executionReport(o, None, "FILLED")) /\ book[o] = "live"
        BY <3>2 DEF VenueFills, Says
      <4>. QED
        BY <4>1, VenueSays, SaidAbout DEF WellSaid
    <3>. QED
      BY <1>2, <3>1, <3>2
  <2>. QED
    BY <2>1, <2>2, TakenStaysTaken DEF WorkedWasTaken
<1>3. CASE VenueRefuses
  <2>1. in' = Append(in, businessReject(out[outNext].clOrdID)) /\ UNCHANGED <<book, worked>>
    BY <1>3 DEF VenueRefuses, Says
  <2>2. out[outNext] \in OutType
    BY <1>3 DEF VenueRefuses, Arrived, SendInv, SendTypes
  <2>3. PICK m : m = businessReject(out[outNext].clOrdID)
    OBVIOUS
  <2>4. m \in InType /\ m.type # "report"
    BY <2>2, <2>3 DEF OutType, businessReject, InType, ExecState
  <2>5. \A p \in Orders : About(p)' = About(p)
    BY <2>1, <2>3, <2>4, SaidAbout
  <2>. QED
    BY <2>1, <2>5, TakenStaysTaken DEF WorkedWasTaken
<1>4. CASE VenueRestarts
  <2>1. in' = in /\ worked' = worked /\ \A p \in Orders : book'[p] = "none"
    BY <1>4 DEF VenueRestarts, storeVars
  <2>. QED
    BY <2>1, TakenStaysTaken DEF WorkedWasTaken, About
<1>5. CASE UNCHANGED <<in, book, worked>>
  BY <1>5, TakenStaysTaken DEF WorkedWasTaken, About
<1>. QED
  BY <1>1, <1>2, <1>3, <1>4, <1>5 DEF Next, Caller, SubmitRefused, SubmitChecked, SubmitSends,
    SubmitFails, Track, Cancel, Session, Deliver, Logon, OnLogon, SendQueued, OnLogout, FromAppTakes,
    deliver, deliverTimeout, Received, Drain, Venue, GapFill, VenueReceived, Process, Stop, Stopped,
    Start, Exit, Faults, Drop, ConsumerStops, VenueStops, vars, storeVars, venueVars

-----------------------------------------------------------------------------
(* The venue's book and its reports.                                       *)

LEMMA SaidStays ==
    ASSUME ReceiveInv, NEW m, m \in InType, in' = Append(in, m)
    PROVE  /\ Len(in) \in Nat /\ in'[Len(in) + 1] = m
           /\ \A n \in 1..Len(in) : in'[n] = in[n]
           /\ \A p \in Orders : \A n \in About(p) : n \in 1..Len(in) /\ in'[n] = in[n] /\ n < Len(in) + 1
  BY DEF ReceiveInv, ReceiveTypes, About

LEMMA StoryKept ==
    ASSUME ReceiveInv, NEW m, m \in InType, in' = Append(in, m), NEW p \in Orders, Story(p),
           ~(m.type = "report" /\ reportIdentity(m) = p), book'[p] = book[p], worked'[p] = worked[p]
    PROVE  Story(p)'
<1>1. About(p)' = About(p)
  BY SaidAbout
<1>. QED
  BY <1>1, SaidStays DEF Story

LEMMA StoryBegins ==
    ASSUME ReceiveInv, NEW m, m \in InType, in' = Append(in, m), NEW o \in Orders,
           m.type = "report", reportIdentity(m) = o, About(o) = {},
           \/ m.status = "NEW" /\ book'[o] = "live"
           \/ m.status = "REJECTED" /\ book'[o] = "none" /\ worked'[o] = 0
    PROVE  Story(o)'
<1>1. About(o)' = {Len(in) + 1}
  BY SaidAbout
<1>2. in'[Len(in) + 1] = m /\ Len(in) + 1 \in Nat
  BY SaidStays
<1>. QED
  BY <1>1, <1>2 DEF Story

LEMMA StoryEnds ==
    ASSUME ReceiveInv, NEW m, m \in InType, in' = Append(in, m), NEW o \in Orders, Story(o),
           m.type = "report", reportIdentity(m) = o, m.status \in {"FILLED", "CANCELED"},
           book[o] = "live", book'[o] = "done"
    PROVE  Story(o)'
<1>1. About(o)' = About(o) \cup {Len(in) + 1}
  BY SaidAbout
<1>2. \A n \in About(o) : in'[n].status \notin Terminal /\ in'[n] = in[n] /\ n < Len(in) + 1
  BY SaidStays DEF Story, Terminal
<1>3. in'[Len(in) + 1] = m /\ Len(in) + 1 \in Nat /\ \A n \in About(o) : n \in Nat
  BY SaidStays DEF About
<1>4. \A n \in About(o)' : n \in About(o) \/ n = Len(in) + 1
  BY <1>1
<1>5. \A n, k \in About(o)' : in'[n].status \in Terminal => k <= n
  <2>. SUFFICES ASSUME NEW n \in About(o)', NEW k \in About(o)', in'[n].status \in Terminal
                PROVE  k <= n
    OBVIOUS
  <2>1. n = Len(in) + 1
    BY <1>2, <1>4
  <2>. QED
    BY <1>2, <1>3, <1>4, <2>1
<1>6. \A n \in About(o)' :
         /\ in'[n].status = "NEW" => book'[o] # "none"
         /\ in'[n].status \in {"FILLED", "CANCELED"} => book'[o] = "done"
         /\ in'[n].status = "REJECTED" => book'[o] = "none"
  BY <1>2, <1>3, <1>4 DEF Terminal
<1>. QED
  BY <1>1, <1>3, <1>5, <1>6 DEF Story

LEMMA BookStep ==
    ASSUME SendInv, ReceiveInv, WorkedWasTaken, ReportsFollowBook, [Next]_vars
    PROVE  ReportsFollowBook'
<1>. SUFFICES ASSUME venueLives' = 1, NEW p \in Orders PROVE Story(p)'
  BY DEF ReportsFollowBook
<1>1. CASE VenueRestarts
  BY <1>1 DEF VenueRestarts, ReceiveInv, ReceiveTypes
<1>2. CASE VenueTakes
  <2>1. PICK o \in Orders : o = out[outNext].clOrdID
    BY <1>2 DEF VenueTakes, Arrived, SendInv, SendTypes, SentWell
  <2>2. About(o) = {} /\ worked[o] = 0 /\ book[o] = "none"
    <3>1. ~Taken(o)
      BY <1>2, <2>1, OfferedIsNew DEF VenueTakes
    <3>. QED
      BY <3>1 DEF WorkedWasTaken, SendInv, SendTypes
  <2>3. Story(p)
    BY <1>2 DEF VenueTakes, ReportsFollowBook
  <2>4. CASE /\ in' = Append(in, executionReport(o, None, "NEW"))
             /\ book' = [book EXCEPT ![o] = "live"] /\ worked' = [worked EXCEPT ![o] = @ + 1]
    <3>1. PICK m : m = executionReport(o, None, "NEW")
      OBVIOUS
    <3>2. m \in InType /\ m.type = "report" /\ reportIdentity(m) = o /\ m.status = "NEW"
      BY <3>1, VenueSays DEF WellSaid, executionReport
    <3>3. book'[o] = "live"
      BY <2>4 DEF SendInv, SendTypes
    <3>4. p # o => book'[p] = book[p] /\ worked'[p] = worked[p]
      BY <2>4 DEF SendInv, SendTypes
    <3>. QED
      BY <2>2, <2>3, <2>4, <3>1, <3>2, <3>3, <3>4, StoryBegins, StoryKept
  <2>5. CASE in' = Append(in, executionReport(o, None, "REJECTED")) /\ UNCHANGED <<book, worked>>
    <3>1. PICK m : m = executionReport(o, None, "REJECTED")
      OBVIOUS
    <3>2. m \in InType /\ m.type = "report" /\ reportIdentity(m) = o /\ m.status = "REJECTED"
      BY <3>1, VenueSays DEF WellSaid, executionReport
    <3>. QED
      BY <2>2, <2>3, <2>5, <3>1, <3>2, StoryBegins, StoryKept
  <2>. QED
    BY <1>2, <2>1, <2>4, <2>5 DEF VenueTakes, Says
<1>3. CASE VenueCancels
  <2>1. PICK o \in Orders : o = out[outNext].orig
    BY <1>3 DEF VenueCancels, Arrived, SendInv, SendTypes, SentWell
  <2>2. Story(p) /\ Story(o) /\ worked' = worked
    BY <1>3 DEF VenueCancels, ReportsFollowBook
  <2>3. CASE /\ in' = Append(in, executionReport(CancelId, o, "CANCELED"))
             /\ book[o] = "live" /\ book' = [book EXCEPT ![o] = "done"]
    <3>1. PICK m : m = executionReport(CancelId, o, "CANCELED")
      OBVIOUS
    <3>2. m \in InType /\ m.type = "report" /\ reportIdentity(m) = o /\ m.status = "CANCELED"
      BY <3>1, VenueSays DEF WellSaid, executionReport
    <3>3. book'[o] = "done" /\ (p # o => book'[p] = book[p])
      BY <2>3 DEF SendInv, SendTypes
    <3>. QED
      BY <2>2, <2>3, <3>1, <3>2, <3>3, StoryEnds, StoryKept
  <2>4. CASE in' = Append(in, cancelReject(o)) /\ UNCHANGED book
    <3>1. PICK m : m = cancelReject(o)
      OBVIOUS
    <3>2. m \in InType /\ m.type # "report"
      BY <3>1, VenueSays DEF WellSaid, cancelReject
    <3>. QED
      BY <2>2, <2>4, <3>1, <3>2, StoryKept
  <2>. QED
    BY <1>3, <2>1, <2>3, <2>4 DEF VenueCancels, Says
<1>4. ASSUME NEW o \in Orders, VenueFills(o) PROVE Story(p)'
  <2>1. /\ in' = Append(in, executionReport(o, None, "FILLED"))
        /\ book[o] = "live" /\ book' = [book EXCEPT ![o] = "done"] /\ worked' = worked
    BY <1>4 DEF VenueFills, Says
  <2>2. Story(p) /\ Story(o)
    BY <1>4 DEF VenueFills, ReportsFollowBook
  <2>3. PICK m : m = executionReport(o, None, "FILLED")
    OBVIOUS
  <2>4. m \in InType /\ m.type = "report" /\ reportIdentity(m) = o /\ m.status = "FILLED"
    BY <2>3, VenueSays DEF WellSaid, executionReport
  <2>5. book'[o] = "done" /\ (p # o => book'[p] = book[p])
    BY <2>1 DEF SendInv, SendTypes
  <2>. QED
    BY <2>1, <2>2, <2>3, <2>4, <2>5, StoryEnds, StoryKept
<1>5. CASE VenueRefuses
  <2>1. in' = Append(in, businessReject(out[outNext].clOrdID)) /\ UNCHANGED <<book, worked>>
    BY <1>5 DEF VenueRefuses, Says
  <2>2. out[outNext] \in OutType
    BY <1>5 DEF VenueRefuses, Arrived, SendInv, SendTypes
  <2>3. PICK m : m = businessReject(out[outNext].clOrdID)
    OBVIOUS
  <2>4. m \in InType /\ m.type # "report"
    BY <2>2, <2>3 DEF OutType, businessReject, InType, ExecState
  <2>5. Story(p)
    BY <1>5 DEF VenueRefuses, ReportsFollowBook
  <2>. QED
    BY <2>1, <2>3, <2>4, <2>5, StoryKept
<1>6. CASE UNCHANGED <<in, book, worked, venueLives>>
  BY <1>6 DEF ReportsFollowBook, Story, About
<1>. QED
  BY <1>1, <1>2, <1>3, <1>4, <1>5, <1>6 DEF Next, Caller, SubmitRefused, SubmitChecked, SubmitSends,
    SubmitFails, Track, Cancel, Session, Deliver, Logon, OnLogon, SendQueued, OnLogout, FromAppTakes,
    deliver, deliverTimeout, Received, Drain, Venue, GapFill, VenueReceived, Process, Stop, Stopped,
    Start, Exit, Faults, Drop, ConsumerStops, VenueStops, vars, storeVars, venueVars

-----------------------------------------------------------------------------
(* The tracker and the reports.                                            *)

LEMMA FollowsWhenSaid ==
    ASSUME ReceiveInv, FirstLife, NEW m, m \in InType, in' = Append(in, m), NEW p \in Orders,
           Follows(p), UNCHANGED <<track, applied>>
    PROVE  Follows(p)'
<1>1. About(p)' \cap applied = About(p) \cap applied
  <2>1. Len(in) + 1 \notin applied
    BY SaidStays DEF ReceiveInv, AppliedInOrder
  <2>. QED
    BY <2>1, SaidAbout
<1>. QED
  BY <1>1, SaidStays DEF Follows

LEMMA TrackStep ==
    ASSUME SendInv, ReceiveInv, ReportsFollowBook, TrackFollowsReports, [Next]_vars
    PROVE  TrackFollowsReports'
<1>. DEFINE Tracked == \A o \in Orders : submit[o] = "tracked" => track[o] # "none"
            Following == FirstLife /\ venueLives = 1 => \A o \in Orders : Follows(o)
<1>0. SUFFICES Tracked' /\ Following'
  BY DEF TrackFollowsReports
<1>1. Tracked /\ Following
  BY DEF TrackFollowsReports
<1>2. CASE VenueTakes \/ VenueCancels \/ VenueRefuses \/ \E o \in Orders : VenueFills(o)
  <2>1. UNCHANGED <<submit, track, applied, life, lives, venueLives>>
    BY <1>2 DEF VenueTakes, VenueCancels, VenueRefuses, VenueFills, clientVars, reportVars
  <2>2. \E m \in InType : in' = Append(in, m)
    <3>1. CASE VenueTakes
      <4>1. PICK o \in Orders : o = out[outNext].clOrdID
        BY <3>1 DEF VenueTakes, Arrived, SendInv, SendTypes, SentWell
      <4>. QED
        BY <3>1, <4>1, VenueSays DEF VenueTakes, Says, WellSaid
    <3>2. CASE VenueCancels
      <4>1. PICK o \in Orders : o = out[outNext].orig
        BY <3>2 DEF VenueCancels, Arrived, SendInv, SendTypes, SentWell
      <4>. QED
        BY <3>2, <4>1, VenueSays DEF VenueCancels, Says, WellSaid
    <3>3. CASE VenueRefuses
      <4>1. out[outNext] \in OutType
        BY <3>3 DEF VenueRefuses, Arrived, SendInv, SendTypes
      <4>. QED
        BY <3>3, <4>1 DEF VenueRefuses, Says, OutType, businessReject, InType, ExecState
    <3>4. CASE \E o \in Orders : VenueFills(o)
      BY <3>4, VenueSays DEF VenueFills, Says, WellSaid
    <3>. QED
      BY <1>2, <3>1, <3>2, <3>3, <3>4
  <2>3. Following'
    BY <1>1, <2>1, <2>2, FollowsWhenSaid DEF FirstLife
  <2>. QED
    BY <1>1, <2>1, <2>3
<1>3. ASSUME NEW o \in Orders, Track(o) PROVE Tracked' /\ Following'
  <2>1. /\ submit' = [submit EXCEPT ![o] = "tracked"]
        /\ track' = [track EXCEPT ![o] = IF @ = "none" THEN "pending" ELSE @]
        /\ UNCHANGED <<in, applied, life, lives, venueLives>>
    BY <1>3 DEF Track, storeVars, venueVars
  <2>2. /\ \A p \in Orders : track'[p] = IF p = o /\ track[p] = "none" THEN "pending" ELSE track[p]
        /\ \A p \in Orders : submit'[p] = "tracked" => p = o \/ submit[p] = "tracked"
    BY <2>1 DEF SendInv, SendTypes, ReceiveInv, ReceiveTypes
  <2>3. Tracked'
    BY <1>1, <2>2
  <2>4. ASSUME NEW p \in Orders, Follows(p) PROVE Follows(p)'
    BY <2>1, <2>2, <2>4 DEF Follows, About, Terminal
  <2>5. Following'
    BY <1>1, <2>1, <2>4 DEF FirstLife
  <2>. QED
    BY <2>3, <2>5
<1>4. CASE Drain
  <2>1. PICK n \in 1..Len(in) : n = Head(reports) /\ in[n].type = "report"
    BY <1>4, QueueTail DEF Drain, ReceiveInv, ReceiveTypes, ChannelHoldsReports, InChannel
  <2>2. PICK o \in Orders : o = reportIdentity(in[n]) /\ in[n].status \in Terminal \cup {"NEW"}
    BY <2>1 DEF ReceiveInv, ReportsNameOrders
  <2>3. /\ track' = [p \in Orders |->
                       IF p = o /\ track[p] \notin Terminal THEN in[n].status ELSE track[p]]
        /\ applied' = applied \cup {n}
        /\ UNCHANGED <<submit, in, life, lives, venueLives>>
    BY <1>4, <2>1, <2>2 DEF Drain, clientVars, storeVars, venueVars
  <2>4. Tracked'
    BY <1>1, <2>2, <2>3 DEF Terminal
  <2>5. ASSUME NEW p \in Orders, Follows(p), Story(p), FirstLife PROVE Follows(p)'
    <3>1. About(p)' = About(p) /\ \A k : k \in About(p) => k \in 1..Len(in)
      BY <2>3 DEF About
    <3>2. CASE p # o
      <4>1. About(p) \cap applied' = About(p) \cap applied
        BY <2>2, <2>3, <3>2 DEF About
      <4>2. track'[p] = track[p]
        BY <2>3, <3>2
      <4>. QED
        BY <2>3, <2>5, <3>1, <4>1, <4>2 DEF Follows
    <3>3. CASE p = o
      <4>1. n \in About(o) /\ \A k \in About(o) \cap applied : k < n
        <5>1. reports # <<>> /\ 1 \in 1..Len(reports) /\ reports[1] = n
          BY <1>4, <2>1, QueueTail DEF Drain, ReceiveInv, ReceiveTypes
        <5>. QED
          BY <2>1, <2>2, <2>5, <5>1 DEF About, ReceiveInv, AppliedInOrder
      <4>2. \A k \in About(o) \cap applied : in[k].status \notin Terminal
        BY <2>5, <3>1, <3>3, <4>1 DEF Story
      <4>3. track[o] \notin Terminal
        BY <2>5, <3>3, <4>2 DEF Follows, Terminal
      <4>4. track'[o] = in[n].status
        BY <2>3, <4>3
      <4>. QED
        BY <2>2, <2>3, <3>1, <3>3, <4>1, <4>2, <4>4 DEF Follows
    <3>. QED
      BY <3>2, <3>3
  <2>6. Following'
    BY <1>1, <2>3, <2>5 DEF FirstLife, ReportsFollowBook
  <2>. QED
    BY <2>4, <2>6
<1>5. CASE \E killed \in BOOLEAN : Exit(killed)
  <2>1. life' = "down" /\ submit' = [o \in Orders |-> IF submit[o] = "idle" THEN "idle" ELSE "over"]
    BY <1>5 DEF Exit
  <2>. QED
    BY <2>1 DEF FirstLife
<1>6. CASE Start
  <2>1. lives' = lives + 1 /\ UNCHANGED <<submit, track>>
    BY <1>6 DEF Start
  <2>. QED
    BY <1>1, <2>1 DEF FirstLife, ReceiveInv, ReceiveTypes
<1>7. CASE VenueRestarts
  <2>1. venueLives' = venueLives + 1 /\ UNCHANGED <<submit, track>>
    BY <1>7 DEF VenueRestarts, clientVars, reportVars
  <2>. QED
    BY <1>1, <2>1 DEF ReceiveInv, ReceiveTypes
<1>8. ASSUME UNCHANGED <<track, in, applied, lives, venueLives>>,
             life' = life \/ (life # "down" /\ life' # "down"),
             \A o \in Orders : submit'[o] = "tracked" => submit[o] = "tracked"
      PROVE  Tracked' /\ Following'
  <2>1. \A o \in Orders : Follows(o)' <=> Follows(o)
    BY <1>8 DEF Follows, About
  <2>2. FirstLife' => FirstLife
    BY <1>8 DEF FirstLife
  <2>. QED
    BY <1>1, <1>8, <2>1, <2>2
<1>9. ASSUME NEW o \in Orders, \/ SubmitRefused(o) \/ SubmitChecked(o) \/ SubmitSends(o)
                               \/ SubmitFails(o) \/ Cancel(o)
      PROVE  Tracked' /\ Following'
  <2>1. UNCHANGED <<track, in, applied, life, lives, venueLives>>
    BY <1>9 DEF SubmitRefused, SubmitChecked, SubmitSends, SubmitFails, Cancel, reportVars, storeVars,
      venueVars
  <2>2. \/ submit' = submit
        \/ \E s \in {"idle", "refused", "checked", "sent", "failed"} : submit' = [submit EXCEPT ![o] = s]
    BY <1>9 DEF SubmitRefused, SubmitChecked, SubmitSends, SubmitFails, Cancel
  <2>3. \A p \in Orders : submit'[p] = "tracked" => submit[p] = "tracked"
    BY <2>2 DEF SendInv, SendTypes
  <2>. QED
    BY <1>8, <2>1, <2>3
<1>10. CASE Stop \/ Stopped
  <2>1. UNCHANGED <<submit, track, in, applied, lives, venueLives>> /\ life # "down" /\ life' # "down"
    BY <1>10 DEF Stop, Stopped, reportVars, storeVars, venueVars
  <2>. QED
    BY <1>8, <2>1
<1>11. CASE \/ Logon \/ OnLogon \/ SendQueued \/ OnLogout \/ Drop \/ GapFill \/ VenueReceived
            \/ VenueStops \/ FromAppTakes \/ Deliver \/ Received \/ ConsumerStops \/ UNCHANGED vars
  <2>1. UNCHANGED <<submit, track, in, applied, life, lives, venueLives>>
    BY <1>11 DEF Logon, OnLogon, SendQueued, OnLogout, Drop, GapFill, VenueReceived, VenueStops,
      FromAppTakes, Deliver, deliver, deliverTimeout, Received, ConsumerStops, vars, clientVars,
      reportVars, storeVars, venueVars
  <2>. QED
    BY <1>8, <2>1
<1>. QED
  BY <1>2, <1>3, <1>4, <1>5, <1>6, <1>7, <1>9, <1>10, <1>11
     DEF Next, Caller, Session, Venue, Process, Faults

-----------------------------------------------------------------------------
(* The theorems.                                                           *)

(* The invariant holds of every behaviour of the two processes and their   *)
(* session, however many connections are lost and processes restarted.     *)
THEOREM OrderEntryInvariant == Spec => []OrderEntryInv
<1>1. OrderEntryInv /\ [Next]_vars => OrderEntryInv'
  BY SendStep, ReceiveStep, WorkStep, BookStep, TrackStep DEF OrderEntryInv
<1>. QED
  BY <1>1, OrderEntryInit, PTL DEF Spec

(* Types, the channel within its capacity, and on the wire only the two    *)
(* times in force the venue works (timeInForceToWire, Initiator.deliver).  *)
THEOREM OrderEntryTypes == Spec => []TypeOK
<1>1. OrderEntryInv => TypeOK
  <2>1. ASSUME OrderEntryInv, NEW n \in DOMAIN out PROVE out[n].tif \in WireTIF
    <3>1. out[n] \in OutType
      BY <2>1 DEF OrderEntryInv, SendInv, SendTypes
    <3>. QED
      BY <3>1 DEF OutType
  <2>. QED
    BY <2>1 DEF OrderEntryInv, SendInv, SendTypes, SubmitState, ReceiveInv, ReceiveTypes, TypeOK
<1>. QED
  BY <1>1, OrderEntryInvariant, PTL

(* An order is worked at most once, although sim-venue forgets its ids     *)
(* when it restarts: ToApp refuses to resend it.                           *)
THEOREM OrdersAreWorkedOnce == Spec => []WorkedOnce
<1>1. OrderEntryInv => WorkedOnce
  BY DEF OrderEntryInv, WorkedWasTaken, WorkedOnce
<1>. QED
  BY <1>1, OrderEntryInvariant, PTL

(* A report FromApp has counted as received is applied, in the channel, in *)
(* the channel of a process that died, or given up on by deliver.          *)
THEOREM NoReportIsForgotten == Spec => []ReceivedIsAccounted
<1>1. OrderEntryInv => ReceivedIsAccounted
  <2>. SUFFICES ASSUME OrderEntryInv, NEW n \in 1..(inNext - 1), in[n].type = "report"
                PROVE  n \in applied \cup lost \cup abandoned \cup InChannel
    BY DEF ReceivedIsAccounted, InChannel
  <2>1. n \in 1..Len(in) /\ n < inNext
    BY DEF OrderEntryInv, ReceiveInv, ReceiveTypes
  <2>. QED
    BY <2>1 DEF OrderEntryInv, ReceiveInv, HandledIsAccounted, Handled
<1>. QED
  BY <1>1, OrderEntryInvariant, PTL

(* With nothing in flight and no restart behind them, the tracker and the  *)
(* venue's book agree on every order carry has tracked, except one that    *)
(* fell between Submit's check and its send.                               *)
THEOREM BooksAgreeWhenQuiet == Spec => []QuietAgreement
<1>1. OrderEntryInv => QuietAgreement
  <2>. SUFFICES ASSUME OrderEntryInv, Quiet, NEW o \in Orders, submit[o] = "tracked"
                PROVE  \/ book[o] = "live" /\ track[o] = "NEW"
                       \/ book[o] = "done" /\ track[o] \in {"FILLED", "CANCELED"}
                       \/ GapFilled(o) /\ track[o] \in {"pending", "REJECTED"}
    BY DEF QuietAgreement
  <2>. USE DEF OrderEntryInv
  <2>1. FirstLife /\ venueLives = 1
    BY DEF FirstLife, Quiet, SendInv, SendTypes
  <2>2. Follows(o) /\ Story(o) /\ track[o] # "none"
    BY <2>1 DEF TrackFollowsReports, ReportsFollowBook
  <2>3. About(o) \cap applied = About(o)
    <3>. SUFFICES ASSUME NEW n \in About(o) PROVE n \in applied
      OBVIOUS
    <3>1. n \in 1..Len(in) /\ in[n].type = "report" /\ n < inNext
      BY DEF About, Quiet, ReceiveInv, ReceiveTypes
    <3>2. InChannel = {} /\ lost = {} /\ abandoned = {}
      BY <2>1 DEF InChannel, Quiet, ReceiveInv, AppliedInOrder
    <3>. QED
      BY <3>1, <3>2 DEF ReceiveInv, HandledIsAccounted, Handled
  <2>4. \A n \in About(o) : in[n].status \in Terminal \cup {"NEW"}
    BY DEF About, ReceiveInv, ReportsNameOrders
  <2>5. CASE book[o] = "live"
    <3>1. About(o) # {} /\ \A n \in About(o) : in[n].status \notin Terminal
      BY <2>2, <2>5 DEF Story, Terminal
    <3>. QED
      BY <2>2, <2>3, <2>5, <3>1 DEF Follows
  <2>6. CASE book[o] = "done"
    <3>1. PICK n \in About(o) : in[n].status \in {"FILLED", "CANCELED"}
      BY <2>2, <2>6 DEF Story
    <3>2. track[o] = in[n].status
      BY <2>2, <2>3, <3>1 DEF Follows, Terminal
    <3>. QED
      BY <2>6, <3>1, <3>2
  <2>7. CASE book[o] = "none"
    <3>1. GapFilled(o)
      BY <2>2, <2>7 DEF Story, GapFilled, SendInv, SendTypes
    <3>2. \A n \in About(o) : in[n].status = "REJECTED"
      BY <2>2, <2>4, <2>7 DEF Story, Terminal
    <3>3. track[o] \in {"pending", "REJECTED"}
      BY <2>2, <2>3, <3>2 DEF Follows, Terminal
    <3>. QED
      BY <3>1, <3>3
  <2>. QED
    BY <2>5, <2>6, <2>7 DEF SendInv, SendTypes
<1>. QED
  BY <1>1, OrderEntryInvariant, PTL
-----------------------------------------------------------------------------
(* The record of the session.                                              *)

RowType == [ended : Int, disconnects : Int, in : Int, out : Int]

RecordTypes ==
    /\ now \in Nat /\ now > 0 /\ rlife \in 1..MaxRecorders
    /\ startedAt \in Nat /\ startedAt < now /\ disconnects \in Nat
    /\ seqIn \in Nat /\ seqOut \in Nat /\ lastIn \in Nat /\ lastOut \in Nat
    /\ pending \in [started : Nat, ended : Int, disconnects : Int]
    /\ rows \in [1..MaxNow -> RowType]
    /\ logons \in [1..MaxRecorders -> SUBSET Nat] /\ orphans \in SUBSET Nat

(* The logons of a process wrote the row its first one opened, no process  *)
(* wrote that of another or of a refused handshake, and what is to come    *)
(* will start later than all of them.                                      *)
LogonsKeepTheirRow ==
    /\ logons[rlife] = IF startedAt = 0 THEN {} ELSE {startedAt}
    /\ \A l \in 1..MaxRecorders :
          /\ l > rlife => logons[l] = {}
          /\ \A k \in logons[l] : 0 < k /\ k < now /\ k \notin orphans /\ logons[l] = {k}
          /\ \A m \in 1..MaxRecorders : m # l => logons[m] \cap logons[l] = {}
    /\ \A k \in orphans : k < now

(* The row of this process holds nothing newer than the recorder does, and *)
(* a row that is about to be written is that one or a row nobody wrote.    *)
RowsTrail ==
    /\ \A k \in 1..MaxNow : k >= now => rows[k] = R!Absent
    /\ startedAt \in 1..MaxNow =>
          /\ rows[startedAt].disconnects <= disconnects
          /\ rows[startedAt].in <= lastIn /\ rows[startedAt].out <= lastOut
    /\ pending # R!NoRow =>
          /\ pending.started \in 1..MaxNow /\ pending.started < now
          /\ pending.disconnects = disconnects
          /\ \/ pending.started = startedAt
             \/ rows[pending.started] = R!Absent /\ startedAt = 0

RecordInv == RecordTypes /\ LogonsKeepTheirRow /\ RowsTrail

LEMMA RecordInit == R!Init => RecordInv
<1>. SUFFICES ASSUME R!Init PROVE RecordInv
  OBVIOUS
<1>. USE DEF R!Init
<1>1. MaxRecorders \in Nat \ {0} /\ MaxNow \in Nat
  BY SessionAssumption DEF R!SessionRecordAssumption
<1>2. RecordTypes
  <2>1. pending \in [started : Nat, ended : Int, disconnects : Int]
    BY DEF R!NoRow, R!Null
  <2>2. R!Absent \in RowType
    BY DEF R!Absent, R!Null, RowType
  <2>. QED
    BY <1>1, <2>1, <2>2 DEF RecordTypes
<1>3. LogonsKeepTheirRow
  BY <1>1 DEF LogonsKeepTheirRow
<1>4. RowsTrail
  BY <1>1 DEF RowsTrail
<1>. QED
  BY <1>2, <1>3, <1>4 DEF RecordInv

(* What the row holds after a write: the recorder's numbers, or the older  *)
(* ones where the column has none.                                         *)
LEMMA UpsertIs ==
    ASSUME NEW old \in RowType, NEW e \in Int, NEW d \in Int, NEW i \in Nat, NEW o \in Nat,
           old.in <= i, old.out <= o
    PROVE  LET new == R!upsert(old, [ended |-> e, disconnects |-> d,
                                     in |-> R!seqColumn(i), out |-> R!seqColumn(o)])
           IN  /\ new \in RowType /\ new.disconnects = d
               /\ old.in <= new.in /\ new.in <= i
               /\ old.out <= new.out /\ new.out <= o
<1>1. MaxInt32 \in Nat
  BY SessionAssumption DEF R!SessionRecordAssumption
<1>. DEFINE a == R!seqColumn(i)
            b == R!seqColumn(o)
<1>2. (a = -1 \/ a = i) /\ (b = -1 \/ b = o)
  BY DEF R!seqColumn, R!Null
<1>3. a \in Int /\ b \in Int
  BY <1>2
<1>. HIDE DEF a, b
<1>. DEFINE r == [ended |-> e, disconnects |-> d, in |-> a, out |-> b]
            x == IF a = -1 THEN old.in ELSE a
            y == IF b = -1 THEN old.out ELSE b
<1>4. R!upsert(old, r) = [ended |-> e, disconnects |-> d, in |-> x, out |-> y]
  <2>1. R!upsert(old, r) = [r EXCEPT !.in = x, !.out = y]
    BY DEF R!upsert, R!Null
  <2>. HIDE DEF x, y
  <2>. QED
    BY <2>1
<1>5. old.in \in Int /\ old.out \in Int
  BY DEF RowType
<1>6. x \in Int /\ y \in Int /\ old.in <= x /\ x <= i /\ old.out <= y /\ y <= o
  BY <1>2, <1>3, <1>5
<1>. HIDE DEF x, y
<1>. QED
  BY <1>4, <1>6 DEF a, b, RowType
LEMMA WriteIs ==
    ASSUME RecordInv, R!write
    PROVE  LET k == pending.started IN
           /\ k \in 1..MaxNow /\ k < now /\ rows' \in [1..MaxNow -> RowType]
           /\ \A j \in 1..MaxNow : j # k => rows'[j] = rows[j]
           /\ rows'[k].disconnects = disconnects /\ disconnects >= rows[k].disconnects
           /\ rows[k].in <= rows'[k].in /\ rows'[k].in <= lastIn
           /\ rows[k].out <= rows'[k].out /\ rows'[k].out <= lastOut
<1>. DEFINE k == pending.started
            new == R!upsert(rows[k], [ended |-> pending.ended, disconnects |-> pending.disconnects,
                                      in |-> R!seqColumn(lastIn), out |-> R!seqColumn(lastOut)])
<1>1. pending # R!NoRow /\ rows' = [rows EXCEPT ![k] = new]
  BY DEF R!write, R!Idle
<1>2. /\ k \in 1..MaxNow /\ k < now /\ pending.disconnects = disconnects
      /\ k = startedAt \/ rows[k] = R!Absent
  BY <1>1 DEF RecordInv, RowsTrail
<1>3. /\ rows \in [1..MaxNow -> RowType] /\ lastIn \in Nat /\ lastOut \in Nat /\ disconnects \in Nat
      /\ pending.ended \in Int /\ pending.disconnects \in Int
  BY DEF RecordInv, RecordTypes
<1>4. rows[k] \in RowType
  BY <1>2, <1>3
<1>5. rows[k].disconnects <= disconnects /\ rows[k].in <= lastIn /\ rows[k].out <= lastOut
  <2>1. CASE k = startedAt
    BY <1>2, <2>1 DEF RecordInv, RowsTrail
  <2>2. CASE rows[k] = R!Absent
    BY <1>3, <2>2 DEF R!Absent, R!Null
  <2>. QED
    BY <1>2, <2>1, <2>2
<1>6. /\ new \in RowType /\ new.disconnects = disconnects
      /\ rows[k].in <= new.in /\ new.in <= lastIn
      /\ rows[k].out <= new.out /\ new.out <= lastOut
  <2>. HIDE DEF k
  <2>. QED
    BY <1>2, <1>3, <1>4, <1>5, UpsertIs
<1>. HIDE DEF k, new
<1>7. rows'[k] = new /\ rows' \in [1..MaxNow -> RowType] /\ \A j \in 1..MaxNow : j # k => rows'[j] = rows[j]
  BY <1>1, <1>2, <1>3, <1>6
<1>. QED
  BY <1>2, <1>5, <1>6, <1>7 DEF k

LEMMA RecordStep ==
    ASSUME RecordInv, [R!Next]_recordVars
    PROVE  RecordInv'
<1>1. /\ MaxRecorders \in Nat \ {0} /\ MaxNow \in Nat /\ MaxSeqNum \in Nat
      /\ RecordTypes /\ LogonsKeepTheirRow /\ RowsTrail
  BY SessionAssumption DEF R!SessionRecordAssumption, RecordInv
<1>. USE DEF RecordInv
<1>2. CASE R!logon
  <2>. DEFINE k == IF startedAt = 0 THEN now ELSE startedAt
  <2>1. /\ pending = R!NoRow /\ now < MaxNow /\ now' = now + 1 /\ startedAt' = k
        /\ pending' = [started |-> k, ended |-> -1, disconnects |-> disconnects]
        /\ logons' = [logons EXCEPT ![rlife] = logons[rlife] \cup {k}]
        /\ UNCHANGED <<rlife, disconnects, seqIn, seqOut, lastIn, lastOut, rows, orphans>>
    BY <1>2 DEF R!logon, R!Idle, R!Null, R!counterVars
  <2>2. /\ now \in Nat /\ now > 0 /\ startedAt \in Nat /\ startedAt < now /\ disconnects \in Nat
        /\ rlife \in 1..MaxRecorders /\ logons \in [1..MaxRecorders -> SUBSET Nat]
        /\ lastIn \in Nat /\ lastOut \in Nat /\ rows \in [1..MaxNow -> RowType]
    BY <1>1 DEF RecordTypes
  <2>3. k \in Nat /\ 0 < k /\ k < now + 1 /\ k \in 1..MaxNow
    BY <1>1, <2>1, <2>2
  <2>4. rows[k].disconnects <= disconnects /\ rows[k].in <= lastIn /\ rows[k].out <= lastOut
    <3>1. CASE startedAt = 0
      <4>1. rows[k] = R!Absent
        BY <1>1, <2>2, <2>3, <3>1 DEF RowsTrail
      <4>. QED
        BY <2>2, <4>1 DEF R!Absent, R!Null
    <3>2. CASE startedAt # 0
      BY <1>1, <2>3, <3>2 DEF RowsTrail
    <3>. QED
      BY <3>1, <3>2
  <2>5. k \notin orphans /\ logons[rlife] \subseteq {k}
        /\ \A m \in 1..MaxRecorders : m # rlife => k \notin logons[m]
    <3>1. CASE startedAt = 0
      BY <1>1, <2>2, <3>1 DEF LogonsKeepTheirRow
    <3>2. CASE startedAt # 0
      BY <1>1, <2>2, <3>2 DEF LogonsKeepTheirRow
    <3>. QED
      BY <3>1, <3>2
  <2>. HIDE DEF k
  <2>6. logons'[rlife] = {k} /\ \A m \in 1..MaxRecorders : m # rlife => logons'[m] = logons[m]
    BY <2>1, <2>2, <2>5
  <2>7. RecordTypes'
    <3>1. pending' \in [started : Nat, ended : Int, disconnects : Int]
      BY <2>1, <2>2, <2>3
    <3>2. logons' \in [1..MaxRecorders -> SUBSET Nat]
      BY <2>1, <2>2, <2>3
    <3>. QED
      BY <1>1, <2>1, <2>2, <2>3, <3>1, <3>2 DEF RecordTypes
  <2>8. LogonsKeepTheirRow'
    <3>1. \A l \in 1..MaxRecorders : \A j \in logons'[l] :
             0 < j /\ j < now' /\ j \notin orphans /\ logons'[l] = {j}
      <4>1. ASSUME NEW l \in 1..MaxRecorders, NEW j \in logons'[l], l = rlife
            PROVE  0 < j /\ j < now' /\ j \notin orphans /\ logons'[l] = {j}
        BY <2>1, <2>3, <2>5, <2>6, <4>1
      <4>2. ASSUME NEW l \in 1..MaxRecorders, NEW j \in logons'[l], l # rlife
            PROVE  0 < j /\ j < now' /\ j \notin orphans /\ logons'[l] = {j}
        <5>1. j \in logons[l] /\ j \in Nat
          BY <2>2, <2>6, <4>2
        <5>. QED
          BY <1>1, <2>1, <2>2, <2>6, <4>2, <5>1 DEF LogonsKeepTheirRow
      <4>. QED
        BY <4>1, <4>2
    <3>2. \A l, m \in 1..MaxRecorders : m # l => logons'[m] \cap logons'[l] = {}
      <4>. SUFFICES ASSUME NEW l \in 1..MaxRecorders, NEW m \in 1..MaxRecorders, m # l
                    PROVE  logons'[m] \cap logons'[l] = {}
        OBVIOUS
      <4>1. CASE l = rlife
        BY <2>5, <2>6, <4>1
      <4>2. CASE m = rlife
        BY <2>5, <2>6, <4>2
      <4>3. CASE l # rlife /\ m # rlife
        BY <1>1, <2>6, <4>3 DEF LogonsKeepTheirRow
      <4>. QED
        BY <4>1, <4>2, <4>3
    <3>3. \A l \in 1..MaxRecorders : l > rlife' => logons'[l] = {}
      BY <1>1, <2>1, <2>2, <2>6 DEF LogonsKeepTheirRow
    <3>4. \A j \in orphans' : j < now'
      BY <1>1, <2>1, <2>2 DEF LogonsKeepTheirRow, RecordTypes
    <3>5. logons'[rlife'] = IF startedAt' = 0 THEN {} ELSE {startedAt'}
      BY <2>1, <2>3, <2>6
    <3>. QED
      BY <2>1, <3>1, <3>2, <3>3, <3>4, <3>5 DEF LogonsKeepTheirRow
  <2>9. RowsTrail'
    <3>1. \A j \in 1..MaxNow : j >= now' => rows'[j] = R!Absent
      BY <1>1, <2>1, <2>2 DEF RowsTrail
    <3>2. pending'.started = k /\ pending'.disconnects = disconnects'
      BY <2>1
    <3>. QED
      BY <2>1, <2>3, <2>4, <3>1, <3>2 DEF RowsTrail
  <2>. QED
    BY <2>7, <2>8, <2>9
<1>3. CASE R!logout
  <2>. DEFINE k == IF startedAt = 0 THEN now ELSE startedAt
  <2>1. /\ pending = R!NoRow /\ now < MaxNow /\ now' = now + 1
        /\ pending' = [started |-> k, ended |-> now, disconnects |-> disconnects']
        /\ disconnects' = disconnects + 1
        /\ orphans' = IF startedAt = 0 THEN orphans \cup {now} ELSE orphans
        /\ UNCHANGED <<rlife, startedAt, seqIn, seqOut, lastIn, lastOut, rows, logons>>
    BY <1>3 DEF R!logout, R!Idle, R!counterVars
  <2>2. /\ now \in Nat /\ now > 0 /\ startedAt \in Nat /\ startedAt < now /\ disconnects \in Nat
        /\ rlife \in 1..MaxRecorders /\ logons \in [1..MaxRecorders -> SUBSET Nat]
        /\ rows \in [1..MaxNow -> RowType] /\ orphans \in SUBSET Nat
    BY <1>1 DEF RecordTypes
  <2>3. /\ k \in Nat /\ 0 < k /\ k < now + 1 /\ k \in 1..MaxNow
        /\ k = startedAt \/ (k = now /\ startedAt = 0)
    BY <1>1, <2>1, <2>2
  <2>. HIDE DEF k
  <2>4. RecordTypes'
    <3>1. pending' \in [started : Nat, ended : Int, disconnects : Int]
      BY <2>1, <2>2, <2>3
    <3>2. orphans' \in SUBSET Nat
      BY <2>1, <2>2
    <3>3. now' \in Nat /\ now' > 0 /\ startedAt' < now' /\ disconnects' \in Nat
      BY <2>1, <2>2
    <3>. QED
      BY <1>1, <2>1, <3>1, <3>2, <3>3 DEF RecordTypes
  <2>5. LogonsKeepTheirRow'
    <3>1. \A l \in 1..MaxRecorders : \A j \in logons[l] :
             0 < j /\ j < now' /\ j \notin orphans' /\ logons[l] = {j}
      <4>. SUFFICES ASSUME NEW l \in 1..MaxRecorders, NEW j \in logons[l]
                    PROVE  0 < j /\ j < now' /\ j \notin orphans' /\ logons[l] = {j}
        OBVIOUS
      <4>1. j \in Nat
        BY <2>2
      <4>2. 0 < j /\ j < now /\ j \notin orphans /\ logons[l] = {j}
        BY <1>1 DEF LogonsKeepTheirRow
      <4>. QED
        BY <2>1, <2>2, <4>1, <4>2
    <3>2. \A j \in orphans' : j < now'
      <4>1. \A j \in orphans : j < now /\ j \in Nat
        BY <1>1, <2>2 DEF LogonsKeepTheirRow
      <4>. QED
        BY <2>1, <2>2, <4>1
    <3>. QED
      BY <1>1, <2>1, <3>1, <3>2 DEF LogonsKeepTheirRow
  <2>6. RowsTrail'
    <3>1. \A j \in 1..MaxNow : j >= now => rows[j] = R!Absent
      BY <1>1 DEF RowsTrail
    <3>2. startedAt \in 1..MaxNow =>
            /\ rows[startedAt].disconnects <= disconnects + 1
            /\ rows[startedAt].in <= lastIn /\ rows[startedAt].out <= lastOut
      <4>1. startedAt \in 1..MaxNow => rows[startedAt].disconnects \in Int
        BY <2>2 DEF RowType
      <4>. QED
        BY <1>1, <2>2, <4>1 DEF RowsTrail
    <3>3. \A j \in 1..MaxNow : j >= now' => rows'[j] = R!Absent
      BY <2>1, <2>2, <3>1
    <3>4. startedAt = 0 => rows[k] = R!Absent
      BY <2>2, <2>3, <3>1
    <3>5. pending'.started = k /\ pending'.disconnects = disconnects'
      BY <2>1
    <3>. QED
      BY <2>1, <2>3, <3>2, <3>3, <3>4, <3>5 DEF RowsTrail
  <2>. QED
    BY <2>4, <2>5, <2>6
<1>4. CASE R!write
  <2>. DEFINE k == pending.started
  <2>1. /\ UNCHANGED <<now, rlife, startedAt, disconnects, seqIn, seqOut, lastIn, lastOut, logons, orphans>>
        /\ pending' = R!NoRow
    BY <1>4 DEF R!write, R!sessionVars, R!counterVars
  <2>2. /\ k \in 1..MaxNow /\ k < now /\ rows' \in [1..MaxNow -> RowType]
        /\ \A j \in 1..MaxNow : j # k => rows'[j] = rows[j]
        /\ rows'[k].disconnects = disconnects
        /\ rows'[k].in <= lastIn /\ rows'[k].out <= lastOut
    BY <1>4, WriteIs
  <2>. HIDE DEF k
  <2>3. R!NoRow \in [started : Nat, ended : Int, disconnects : Int]
    BY DEF R!NoRow, R!Null
  <2>4. RecordTypes'
    BY <1>1, <2>1, <2>2, <2>3 DEF RecordTypes
  <2>5. LogonsKeepTheirRow'
    BY <1>1, <2>1 DEF LogonsKeepTheirRow
  <2>6. \A j \in 1..MaxNow : j >= now => j # k /\ rows[j] = R!Absent
    BY <1>1, <2>2 DEF RowsTrail, RecordTypes
  <2>7. startedAt \in 1..MaxNow =>
          /\ rows'[startedAt].disconnects <= disconnects
          /\ rows'[startedAt].in <= lastIn /\ rows'[startedAt].out <= lastOut
    <3>1. disconnects \in Nat
      BY <1>1 DEF RecordTypes
    <3>2. CASE startedAt = k
      BY <2>2, <3>1, <3>2
    <3>3. CASE startedAt # k
      BY <1>1, <2>2, <3>3 DEF RowsTrail
    <3>. QED
      BY <3>2, <3>3
  <2>8. RowsTrail'
    BY <2>1, <2>2, <2>6, <2>7 DEF RowsTrail
  <2>. QED
    BY <2>4, <2>5, <2>8
<1>5. CASE R!writeFails
  <2>1. /\ UNCHANGED <<now, rlife, startedAt, disconnects, seqIn, seqOut, lastIn, lastOut, rows, logons, orphans>>
        /\ pending' = R!NoRow
    BY <1>5 DEF R!writeFails, R!sessionVars, R!counterVars
  <2>2. R!NoRow \in [started : Nat, ended : Int, disconnects : Int]
    BY DEF R!NoRow, R!Null
  <2>3. RecordTypes'
    BY <1>1, <2>1, <2>2 DEF RecordTypes
  <2>4. LogonsKeepTheirRow' /\ RowsTrail'
    BY <1>1, <2>1 DEF LogonsKeepTheirRow, RowsTrail
  <2>. QED
    BY <2>3, <2>4
<1>6. CASE R!Restart
  <2>1. /\ rlife < MaxRecorders /\ rlife' = rlife + 1 /\ startedAt' = 0 /\ disconnects' = 0
        /\ lastIn' = 0 /\ lastOut' = 0 /\ pending' = R!NoRow
        /\ UNCHANGED <<now, seqIn, seqOut, rows, logons, orphans>>
    BY <1>6 DEF R!Restart
  <2>2. R!NoRow \in [started : Nat, ended : Int, disconnects : Int]
    BY DEF R!NoRow, R!Null
  <2>3. rlife' \in 1..MaxRecorders /\ rlife' > rlife /\ rlife \in Int
    BY <1>1, <2>1 DEF RecordTypes
  <2>4. RecordTypes'
    BY <1>1, <2>1, <2>2, <2>3 DEF RecordTypes
  <2>5. LogonsKeepTheirRow'
    <3>1. \A l \in 1..MaxRecorders : l > rlife' => l > rlife
      BY <2>1, <2>3
    <3>. QED
      BY <1>1, <2>1, <2>3, <3>1 DEF LogonsKeepTheirRow
  <2>6. RowsTrail'
    BY <1>1, <2>1 DEF RowsTrail
  <2>. QED
    BY <2>4, <2>5, <2>6
<1>7. ASSUME UNCHANGED <<now, rlife, startedAt, disconnects, pending, rows, logons, orphans>>,
             seqIn' \in Nat, seqOut' \in Nat, lastIn' \in Nat, lastOut' \in Nat,
             lastIn' >= lastIn, lastOut' >= lastOut
      PROVE  RecordInv'
  <2>1. RecordTypes' /\ LogonsKeepTheirRow'
    BY <1>1, <1>7 DEF RecordTypes, LogonsKeepTheirRow
  <2>2. startedAt \in 1..MaxNow => rows[startedAt].in \in Int /\ rows[startedAt].out \in Int
    BY <1>1 DEF RecordTypes, RowType
  <2>3. lastIn \in Nat /\ lastOut \in Nat
    BY <1>1 DEF RecordTypes
  <2>4. startedAt \in 1..MaxNow => rows[startedAt].in <= lastIn' /\ rows[startedAt].out <= lastOut'
    BY <1>1, <1>7, <2>2, <2>3 DEF RowsTrail
  <2>5. RowsTrail'
    BY <1>1, <1>7, <2>4 DEF RowsTrail
  <2>. QED
    BY <2>1, <2>5
<1>8. ASSUME NEW n \in 1..MaxSeqNum, NEW isResend \in BOOLEAN, R!CountIn(n, isResend)
      PROVE  RecordInv'
  <2>1. n \in Nat /\ seqIn \in Nat /\ lastIn \in Nat /\ seqOut \in Nat /\ lastOut \in Nat
    BY <1>1 DEF RecordTypes
  <2>. QED
    BY <1>7, <1>8, <2>1 DEF R!CountIn, R!noteSeqNum, R!sessionVars
<1>9. ASSUME NEW n \in 1..MaxSeqNum, R!CountOut(n)
      PROVE  RecordInv'
  <2>1. n \in Nat /\ seqIn \in Nat /\ lastIn \in Nat /\ seqOut \in Nat /\ lastOut \in Nat
    BY <1>1 DEF RecordTypes
  <2>. QED
    BY <1>7, <1>9, <2>1 DEF R!CountOut, R!noteSeqNum, R!sessionVars
<1>10. CASE UNCHANGED recordVars
  <2>1. lastIn \in Nat /\ lastOut \in Nat /\ seqIn \in Nat /\ seqOut \in Nat
    BY <1>1 DEF RecordTypes
  <2>. QED
    BY <1>7, <1>10, <2>1 DEF recordVars
<1>. QED
  BY <1>2, <1>3, <1>4, <1>5, <1>6, <1>8, <1>9, <1>10 DEF R!Next

LEMMA OneRow == RecordInv => R!OneRowPerRun
<1>. SUFFICES ASSUME RecordInv, NEW l \in 1..MaxRecorders
              PROVE  /\ \A k, m \in logons[l] : k = m
                     /\ logons[l] \cap orphans = {}
                     /\ \A k \in 1..MaxRecorders : k # l => logons[k] \cap logons[l] = {}
  BY DEF R!OneRowPerRun
<1>1. /\ \A k \in logons[l] : k \notin orphans /\ logons[l] = {k}
      /\ \A m \in 1..MaxRecorders : m # l => logons[m] \cap logons[l] = {}
  BY DEF RecordInv, LogonsKeepTheirRow
<1>2. \A k, m \in logons[l] : k = m
  BY <1>1
<1>. QED
  BY <1>1, <1>2

LEMMA WritesRise ==
    ASSUME RecordInv, [R!Next]_recordVars
    PROVE  \A k \in 1..MaxNow : R!Rises(k)
<1>. SUFFICES ASSUME NEW k \in 1..MaxNow
              PROVE  /\ rows'[k].disconnects >= rows[k].disconnects
                     /\ rows'[k].in >= rows[k].in /\ rows'[k].out >= rows[k].out
  BY DEF R!Rises
<1>1. rows[k].disconnects \in Int /\ rows[k].in \in Int /\ rows[k].out \in Int
  BY DEF RecordInv, RecordTypes, RowType
<1>2. CASE rows' = rows
  BY <1>1, <1>2
<1>3. CASE R!write
  <2>1. disconnects \in Nat /\ lastIn \in Nat /\ lastOut \in Nat
    BY DEF RecordInv, RecordTypes
  <2>2. CASE k = pending.started
    <3>1. /\ rows'[k].disconnects = disconnects /\ disconnects >= rows[k].disconnects
          /\ rows[k].in <= rows'[k].in /\ rows[k].out <= rows'[k].out
          /\ rows' \in [1..MaxNow -> RowType]
      BY <1>3, <2>2, WriteIs
    <3>2. rows'[k].in \in Int /\ rows'[k].out \in Int
      BY <3>1 DEF RowType
    <3>. QED
      BY <1>1, <2>1, <3>1, <3>2
  <2>3. CASE k # pending.started
    <3>1. rows'[k] = rows[k]
      BY <1>3, <2>3, WriteIs
    <3>. QED
      BY <1>1, <3>1
  <2>. QED
    BY <2>2, <2>3
<1>4. rows' = rows \/ R!write
  BY DEF R!Next, R!logon, R!logout, R!writeFails, R!Restart, R!CountIn, R!CountOut, recordVars
<1>. QED
  BY <1>2, <1>3, <1>4

(* One row covers one process's whole session, no other process and no     *)
(* refused handshake writes it, and its disconnects and sequence numbers   *)
(* only rise, through reconnects, resends, restarts and numbers the column *)
(* cannot hold (sessionRecorder, noteSeqNum, seqColumn).                   *)
THEOREM SessionRecordIsSound == SessionSpec => RecordIsSound
<1>1. SessionInit => RecordInv
  BY RecordInit DEF SessionInit
<1>2. [SessionNext]_<<part, vars, recordVars>> => [R!Next]_recordVars
  BY DEF SessionNext
<1>3. RecordInv /\ [SessionNext]_<<part, vars, recordVars>> => RecordInv'
  BY <1>2, RecordStep
<1>4. RecordInv /\ [SessionNext]_<<part, vars, recordVars>> =>
        \A k \in 1..MaxNow : R!Written(k) => R!Rises(k)
  BY <1>2, WritesRise
<1>5. RecordInv => R!OneRowPerRun
  BY OneRow
<1>. QED
  BY <1>1, <1>3, <1>4, <1>5, PTL DEF SessionSpec, RecordIsSound
=============================================================================
