----------------------------- MODULE OrderEntry -----------------------------
(***************************************************************************)
(* Order entry from carry to sim-venue: fix.Initiator (initiator.go,       *)
(* initiator_message.go), the FIX session between the two processes, the   *)
(* callbacks of fix.Acceptor and the drain that applies reports to the     *)
(* tracker.                                                                *)
(*                                                                         *)
(* The FIX library numbers and stores every message.  A message stored but *)
(* not received is asked for again at the next logon: a report is sent     *)
(* again, an order is gap-filled because ToApp refuses to resend it.  A    *)
(* number counts as received only after FromApp has returned.  Everything  *)
(* else either process knows is memory.                                    *)
(***************************************************************************)
EXTENDS Integers, Sequences, FiniteSets

CONSTANTS
    Orders,          \* client order ids; each is minted once
    Terms,           \* the order submitted under each id
    ReportBuffer,    \* capacity of the report channel
    Contract,        \* units of quantity in one contract
    MaxDrops,        \* connections lost
    MaxVenueLives,   \* processes of sim-venue
    MaxLives,        \* processes of carry
    BrokenConsumer,  \* whether the consumer may stop draining
    CancelId,        \* the id a cancel request is minted under
    None

ASSUME OrderEntryAssumption ==
    /\ IsFiniteSet(Orders)
    /\ ReportBuffer \in Nat \ {0}
    /\ Contract \in Nat \ {0}
    /\ {MaxDrops, MaxVenueLives, MaxLives} \subseteq Nat
    /\ BrokenConsumer \in BOOLEAN
    /\ CancelId \notin Orders
    /\ None \notin Orders \cup {CancelId}

VARIABLES
    submit,     \* where the caller's Submit of each id stands
    cancel,     \* whether a cancel of the id has been sent
    terms,      \* ids the initiator remembers, Initiator.orders
    loggedOn,   \* Initiator.loggedOn
    life,       \* where Initiator.run stands
    lives,      \* processes of carry so far
    fromApp,    \* the session goroutine inside FromApp
    reports,    \* numbers of the reports in the channel
    consumer,   \* the drain goroutine
    track,      \* the tracker's state of each id
    link,       \* the connection
    drops,      \* connections lost so far
    out,        \* messages carry has stored, by number
    outSent,    \* the highest number written to this connection
    gapTo,      \* numbers up to here are resends on this connection
    outNext,    \* the number sim-venue expects
    in,         \* messages sim-venue has stored, by number
    inNext,     \* the number carry expects
    handed,     \* sim-venue's FromApp has handed outNext to the engine
    venue,      \* whether the engine still evaluates
    book,       \* the engine's live and final orders
    venueLives, \* processes of sim-venue so far
    worked,     \* history: how often the venue took each id
    applied,    \* history: numbers of the reports some tracker applied
    lost,       \* history: numbers in the channel of a process that died
    abandoned   \* history: numbers given up on by deliver

clientVars == <<submit, cancel, terms, loggedOn, life, lives>>
reportVars == <<fromApp, reports, consumer, track, applied, lost, abandoned>>
linkVars   == <<link, drops, outSent, gapTo>>
storeVars  == <<out, outNext, in, inNext>>
venueVars  == <<handed, venue, book, venueLives, worked>>
vars == <<clientVars, reportVars, linkVars, storeVars, venueVars>>

ExecState == {"NEW", "PARTIAL", "FILLED", "CANCELED", "REJECTED"}
Terminal  == {"FILLED", "CANCELED", "REJECTED"}
WireTIF   == {"GTC", "IOC"}

-----------------------------------------------------------------------------
(* Translation of an order into what this venue speaks, or a refusal.      *)

checkSize(o) == o.qty > 0 /\ o.qty % Contract = 0 /\ o.px > 0

(* A market order is an IOC limit at the caller's price; ALO has no tag.   *)
timeInForceToWire(o) ==
    CASE o.type = "LIMIT" /\ o.tif \in WireTIF       -> o.tif
      [] o.type = "MARKET" /\ o.tif \in {"", "IOC"}  -> "IOC"
      [] OTHER                                       -> "unsupported"

translate(o) ==
    IF o.leg = "perp" /\ o.side \in {"BUY", "SELL"} /\ checkSize(o)
    THEN timeInForceToWire(o)
    ELSE "unsupported"

newOrderSingle(o) ==
    [type |-> "order", clOrdID |-> o, orig |-> None, tif |-> translate(Terms[o])]
cancelRequest(o) ==
    [type |-> "cancel", clOrdID |-> CancelId, orig |-> o, tif |-> "GTC"]

(* What sim-venue sends back.  A report that answers a cancel carries the  *)
(* cancel's id, and the order's own as the original.                       *)
executionReport(clOrdID, orig, status) ==
    [type |-> "report", clOrdID |-> clOrdID, orig |-> orig, status |-> status]
cancelReject(o) ==
    [type |-> "cancelReject", clOrdID |-> CancelId, orig |-> o, status |-> "REJECTED"]
businessReject(o) ==
    [type |-> "businessReject", clOrdID |-> o, orig |-> None, status |-> "REJECTED"]

reportIdentityOwn(m) == m.clOrdID
(* The id a report is filed under: the order's own.                        *)
reportIdentity(m) == IF m.orig # None THEN m.orig ELSE m.clOrdID

-----------------------------------------------------------------------------
Init ==
    /\ submit = [o \in Orders |-> "idle"]
    /\ cancel = [o \in Orders |-> FALSE]
    /\ terms = {}
    /\ loggedOn = FALSE
    /\ life = "running"
    /\ lives = 1
    /\ fromApp = "idle"
    /\ reports = <<>>
    /\ consumer = "draining"
    /\ track = [o \in Orders |-> "none"]
    /\ link = "down" /\ drops = 0
    /\ out = <<>> /\ outSent = 0 /\ gapTo = 0 /\ outNext = 1
    /\ in = <<>> /\ inNext = 1
    /\ handed = FALSE
    /\ venue = "up"
    /\ book = [o \in Orders |-> "none"]
    /\ venueLives = 1
    /\ worked = [o \in Orders |-> 0]
    /\ applied = {} /\ lost = {} /\ abandoned = {}

-----------------------------------------------------------------------------
(* Submit and Cancel, on the caller's goroutine.                           *)

SubmitRefused(o) ==
    /\ life = "running" /\ submit[o] = "idle"
    /\ translate(Terms[o]) = "unsupported" \/ ~loggedOn \/ o \in terms
    /\ submit' = [submit EXCEPT ![o] =
                     IF translate(Terms[o]) # "unsupported" /\ ~loggedOn
                     THEN "idle"           \* ErrSessionDown: the probe retries
                     ELSE "refused"]
    /\ UNCHANGED <<cancel, terms, loggedOn, life, lives, reportVars, linkVars, storeVars, venueVars>>

(* Under the mutex: the session is up and the terms are remembered.        *)
SubmitChecked(o) ==
    /\ life = "running" /\ submit[o] = "idle"
    /\ translate(Terms[o]) # "unsupported" /\ loggedOn /\ o \notin terms
    /\ submit' = [submit EXCEPT ![o] = "checked"]
    /\ terms' = terms \cup {o}
    /\ UNCHANGED <<cancel, loggedOn, life, lives, reportVars, linkVars, storeVars, venueVars>>

(* After the unlock, whatever the session has become since: the library    *)
(* numbers and stores the message and queues it for the session goroutine. *)
SubmitSends(o) ==
    /\ life \in {"running", "stopping"} /\ submit[o] = "checked"
    /\ submit' = [submit EXCEPT ![o] = "sent"]
    /\ out' = Append(out, newOrderSingle(o))
    /\ UNCHANGED <<cancel, terms, loggedOn, life, lives, reportVars, linkVars, venueVars>>
    /\ UNCHANGED <<outNext, in, inNext>>

(* The store refused the message: nothing was sent, the terms are          *)
(* forgotten.                                                              *)
SubmitFails(o) ==
    /\ life \in {"running", "stopping"} /\ submit[o] = "checked"
    /\ submit' = [submit EXCEPT ![o] = "failed"]
    /\ terms' = terms \ {o}
    /\ UNCHANGED <<cancel, loggedOn, life, lives, reportVars, linkVars, storeVars, venueVars>>

(* The caller hands the acknowledged order to the tracker, which may have  *)
(* adopted it from its first report already.                               *)
Track(o) ==
    /\ life \in {"running", "stopping"}
    /\ submit[o] = "sent"
    /\ submit' = [submit EXCEPT ![o] = "tracked"]
    /\ track' = [track EXCEPT ![o] = IF @ = "none" THEN "pending" ELSE @]
    /\ UNCHANGED <<cancel, terms, loggedOn, life, lives, linkVars, storeVars, venueVars>>
    /\ UNCHANGED <<fromApp, reports, consumer, applied, lost, abandoned>>

Cancel(o) ==
    /\ life = "running"
    /\ o \in terms /\ loggedOn
    /\ submit[o] = "tracked" /\ ~cancel[o]
    /\ cancel' = [cancel EXCEPT ![o] = TRUE]
    /\ out' = Append(out, cancelRequest(o))
    /\ UNCHANGED <<submit, terms, loggedOn, life, lives, reportVars, linkVars, venueVars>>
    /\ UNCHANGED <<outNext, in, inNext>>

-----------------------------------------------------------------------------
(* The FIX session's own goroutine in carry.  It runs the callbacks, so    *)
(* none of this happens while FromApp is waiting.                          *)

(* A logon exchange: each side learns which numbers the other has not      *)
(* received, and what was queued before the Logon is dropped from the      *)
(* queue, so it can only travel as a resend.                               *)
Logon ==
    /\ link = "down" /\ ~loggedOn
    /\ life = "running" /\ fromApp = "idle" /\ venue = "up"
    /\ link' = "up"
    /\ outSent' = Len(out)
    /\ gapTo' = Len(out)
    /\ UNCHANGED <<drops, clientVars, reportVars, storeVars, venueVars>>

OnLogon ==
    /\ link = "up" /\ ~loggedOn /\ life = "running" /\ fromApp = "idle"
    /\ loggedOn' = TRUE
    /\ UNCHANGED <<submit, cancel, terms, life, lives, reportVars, linkVars, storeVars, venueVars>>

(* The queued messages are written to the connection.                      *)
SendQueued ==
    /\ link = "up" /\ loggedOn /\ fromApp = "idle"
    /\ outSent < Len(out)
    /\ outSent' = Len(out)
    /\ UNCHANGED <<link, drops, gapTo, clientVars, reportVars, storeVars, venueVars>>

Drop ==
    /\ link = "up" /\ drops < MaxDrops
    /\ link' = "down"
    /\ drops' = drops + 1
    /\ handed' = FALSE
    /\ outNext' = IF handed THEN outNext + 1 ELSE outNext
    /\ UNCHANGED <<outSent, gapTo, out, in, inNext, clientVars, reportVars>>
    /\ UNCHANGED <<venue, book, venueLives, worked>>

OnLogoutForgets ==
    /\ link = "down" /\ loggedOn /\ fromApp = "idle"
    /\ UNCHANGED vars
OnLogout ==
    /\ link = "down" /\ loggedOn /\ fromApp = "idle"
    /\ loggedOn' = FALSE
    /\ UNCHANGED <<submit, cancel, terms, life, lives, reportVars, linkVars, storeVars, venueVars>>

Full == Len(reports) >= ReportBuffer

(* FromApp with the next message.  A report is handed to the channel at    *)
(* once when it has room; cancel and business rejects are logged.          *)
FromAppTakes ==
    /\ life \in {"running", "stopping"} /\ link = "up"
    /\ fromApp = "idle" /\ inNext <= Len(in)
    /\ fromApp' = IF in[inNext].type = "report" /\ Full THEN "waiting" ELSE "returned"
    /\ reports' = IF in[inNext].type = "report" /\ ~Full THEN Append(reports, inNext) ELSE reports
    /\ UNCHANGED <<consumer, track, applied, lost, abandoned>>
    /\ UNCHANGED <<clientVars, linkVars, storeVars, venueVars>>

deliverDrops ==
    /\ fromApp = "waiting"
    /\ fromApp' = "returned"
    /\ \/ ~Full /\ reports' = Append(reports, inNext)
       \/ life = "stopping" /\ reports' = reports
    /\ UNCHANGED <<consumer, track, applied, lost, abandoned>>
    /\ UNCHANGED <<clientVars, linkVars, storeVars, venueVars>>
(* The channel was full; the consumer has made room.                       *)
deliver ==
    /\ fromApp = "waiting" /\ ~Full
    /\ fromApp' = "returned"
    /\ reports' = Append(reports, inNext)
    /\ UNCHANGED <<consumer, track, applied, lost, abandoned>>
    /\ UNCHANGED <<clientVars, linkVars, storeVars, venueVars>>

deliverForever == FALSE /\ UNCHANGED vars
(* deliverTimeout: only a consumer that has stopped draining leaves the    *)
(* channel full that long.                                                 *)
deliverTimeout ==
    /\ fromApp = "waiting" /\ Full /\ consumer = "stopped"
    /\ fromApp' = "returned"
    /\ abandoned' = abandoned \cup {inNext}
    /\ UNCHANGED <<reports, consumer, track, applied, lost>>
    /\ UNCHANGED <<clientVars, linkVars, storeVars, venueVars>>

(* FromApp has returned: the number counts as received.                    *)
Received ==
    /\ fromApp = "returned"
    /\ fromApp' = "idle"
    /\ inNext' = inNext + 1
    /\ UNCHANGED <<reports, consumer, track, applied, lost, abandoned>>
    /\ UNCHANGED <<out, outNext, in, clientVars, linkVars, venueVars>>

(* The drain: the report moves the order unless the order has ended.       *)
Drain ==
    /\ consumer = "draining" /\ life # "down" /\ reports # <<>>
    /\ LET m == in[Head(reports)]
           o == reportIdentity(m)
       IN  track' = [p \in Orders |->
                       IF p = o /\ track[p] \notin Terminal THEN m.status ELSE track[p]]
    /\ applied' = applied \cup {Head(reports)}
    /\ reports' = Tail(reports)
    /\ UNCHANGED <<fromApp, consumer, lost, abandoned>>
    /\ UNCHANGED <<clientVars, linkVars, storeVars, venueVars>>

ConsumerStops ==
    /\ BrokenConsumer /\ consumer = "draining"
    /\ consumer' = "stopped"
    /\ UNCHANGED <<fromApp, reports, track, applied, lost, abandoned>>
    /\ UNCHANGED <<clientVars, linkVars, storeVars, venueVars>>

-----------------------------------------------------------------------------
(* carry's process.                                                        *)

(* The context ends: Run asks the library to log out, and reports go on    *)
(* arriving until it has.                                                  *)
Stop ==
    /\ life = "running"
    /\ life' = "stopping"
    /\ UNCHANGED <<submit, cancel, terms, loggedOn, lives, reportVars, linkVars, storeVars, venueVars>>

(* initiator.Stop has waited for the session goroutine; the channel is     *)
(* closed after it.                                                        *)
Stopped ==
    /\ life = "stopping" /\ fromApp = "idle"
    /\ life' = "closed"
    /\ link' = "down"
    /\ loggedOn' = FALSE
    /\ handed' = FALSE
    /\ outNext' = IF handed THEN outNext + 1 ELSE outNext
    /\ UNCHANGED <<submit, cancel, terms, lives, reportVars, drops, outSent, gapTo>>
    /\ UNCHANGED <<out, in, inNext, venue, book, venueLives, worked>>

(* The drain has seen the end of the channel and the process exits, or it  *)
(* is killed: memory is gone, the store is not.                            *)
Exit(killed) ==
    /\ life # "down"
    /\ killed => lives < MaxLives
    /\ ~killed => life = "closed" /\ (reports = <<>> \/ consumer = "stopped")
    /\ life' = "down"
    /\ lost' = lost \cup {reports[i] : i \in DOMAIN reports}
    /\ reports' = <<>>
    /\ fromApp' = "idle"
    /\ link' = "down" /\ loggedOn' = FALSE
    /\ handed' = FALSE
    /\ outNext' = IF handed THEN outNext + 1 ELSE outNext
    /\ terms' = {}
    /\ track' = [o \in Orders |-> "none"]
    /\ submit' = [o \in Orders |-> IF submit[o] = "idle" THEN "idle" ELSE "over"]
    /\ UNCHANGED <<cancel, lives, consumer, applied, abandoned, drops, outSent, gapTo>>
    /\ UNCHANGED <<out, in, inNext, venue, book, venueLives, worked>>

Start ==
    /\ life = "down" /\ lives < MaxLives
    /\ life' = "running"
    /\ lives' = lives + 1
    /\ consumer' = "draining"
    /\ UNCHANGED <<submit, cancel, terms, loggedOn, linkVars, storeVars, venueVars>>
    /\ UNCHANGED <<fromApp, reports, track, applied, lost, abandoned>>

-----------------------------------------------------------------------------
(* sim-venue: the acceptor's callbacks and, in one step, the engine's      *)
(* answer.                                                                 *)

Says(m) == in' = Append(in, m)

resentOrders(n) == FALSE
(* ToApp returns ErrDoNotSend for a message that is being resent.          *)
gapFilled(n) == n <= gapTo

Arrived == link = "up" /\ ~handed /\ outNext <= outSent

GapFill ==
    /\ Arrived /\ gapFilled(outNext)
    /\ outNext' = outNext + 1
    /\ UNCHANGED <<out, in, inNext, clientVars, reportVars, linkVars, venueVars>>

(* A new order is accepted, or rejected for what the engine will not take. *)
VenueTakes ==
    /\ Arrived /\ ~gapFilled(outNext) /\ venue = "up"
    /\ out[outNext].type = "order"
    /\ LET o == out[outNext].clOrdID IN
         \/ /\ book[o] = "none"
            /\ book' = [book EXCEPT ![o] = "live"]
            /\ worked' = [worked EXCEPT ![o] = @ + 1]
            /\ Says(executionReport(o, None, "NEW"))
         \/ /\ Says(executionReport(o, None, "REJECTED"))
            /\ UNCHANGED <<book, worked>>
    /\ handed' = TRUE
    /\ UNCHANGED <<out, outNext, inNext, venue, venueLives, clientVars, reportVars, linkVars>>

VenueCancels ==
    /\ Arrived /\ ~gapFilled(outNext) /\ venue = "up"
    /\ out[outNext].type = "cancel"
    /\ LET o == out[outNext].orig IN
         \/ /\ book[o] = "live"
            /\ book' = [book EXCEPT ![o] = "done"]
            /\ Says(executionReport(CancelId, o, "CANCELED"))
         \/ /\ book[o] # "live"
            /\ Says(cancelReject(o))
            /\ UNCHANGED book
    /\ handed' = TRUE
    /\ UNCHANGED <<out, outNext, inNext, venue, venueLives, worked, clientVars, reportVars, linkVars>>

(* The engine has stopped: the message is refused, not dropped.            *)
VenueRefuses ==
    /\ Arrived /\ ~gapFilled(outNext) /\ venue = "stopped"
    /\ Says(businessReject(out[outNext].clOrdID))
    /\ handed' = TRUE
    /\ UNCHANGED <<out, outNext, inNext, venue, book, venueLives, worked>>
    /\ UNCHANGED <<clientVars, reportVars, linkVars>>

VenueReceived ==
    /\ handed
    /\ handed' = FALSE
    /\ outNext' = outNext + 1
    /\ UNCHANGED <<out, in, inNext, venue, book, venueLives, worked, clientVars, reportVars, linkVars>>

(* The market: a live order fills, whether or not carry is connected.      *)
VenueFills(o) ==
    /\ venue = "up" /\ book[o] = "live"
    /\ book' = [book EXCEPT ![o] = "done"]
    /\ Says(executionReport(o, None, "FILLED"))
    /\ UNCHANGED <<out, outNext, inNext, handed, venue, venueLives, worked>>
    /\ UNCHANGED <<clientVars, reportVars, linkVars>>

(* acceptor.Run: the engine stops first, the session is logged out after.  *)
VenueStops ==
    /\ venue = "up" /\ venueLives < MaxVenueLives
    /\ venue' = "stopped"
    /\ UNCHANGED <<handed, book, venueLives, worked, clientVars, reportVars, linkVars, storeVars>>

(* The process ends, orderly or not, and another one starts on the same    *)
(* store: the orders were memory.  A number handed to the engine of a      *)
(* process that died was not yet counted.                                  *)
VenueRestarts ==
    /\ venueLives < MaxVenueLives
    /\ venueLives' = venueLives + 1
    /\ venue' = "up"
    /\ book' = [o \in Orders |-> "none"]
    /\ link' = "down"
    /\ handed' = FALSE
    /\ UNCHANGED <<worked, drops, outSent, gapTo, clientVars, reportVars, storeVars>>

-----------------------------------------------------------------------------
Caller  == \E o \in Orders : \/ SubmitRefused(o) \/ SubmitChecked(o)
                             \/ SubmitSends(o) \/ SubmitFails(o)
                             \/ Track(o) \/ Cancel(o)
Deliver == deliver \/ deliverTimeout
Session == Logon \/ OnLogon \/ SendQueued \/ OnLogout \/ FromAppTakes \/ Deliver \/ Received
Venue   == GapFill \/ VenueTakes \/ VenueCancels \/ VenueRefuses \/ VenueReceived
Process == Stop \/ Stopped \/ Start \/ \E killed \in BOOLEAN : Exit(killed)
Faults  == Drop \/ ConsumerStops \/ VenueStops \/ VenueRestarts

Next == \/ Caller
        \/ Session
        \/ Drain
        \/ Venue
        \/ \E o \in Orders : VenueFills(o)
        \/ Process
        \/ Faults

Spec == Init /\ [][Next]_vars

(* Goroutines are scheduled, the library keeps reconnecting and the        *)
(* services are restarted when they exit; nothing forces a fill, a fault   *)
(* or a signal.                                                            *)
FairSpec ==
    /\ Spec
    /\ WF_vars(Logon) /\ WF_vars(OnLogon) /\ WF_vars(SendQueued) /\ WF_vars(OnLogout)
    /\ WF_vars(FromAppTakes) /\ WF_vars(deliver) /\ WF_vars(deliverTimeout) /\ WF_vars(Received)
    /\ WF_vars(Drain)
    /\ WF_vars(Venue)
    /\ WF_vars(Stopped) /\ WF_vars(Exit(FALSE)) /\ WF_vars(Start)
    /\ WF_vars(venue = "stopped" /\ VenueRestarts)

-----------------------------------------------------------------------------
(* Types, with a channel that never holds more than its capacity and only  *)
(* the two times in force the venue works on the wire.                     *)
TypeOK ==
    /\ submit \in [Orders -> {"idle", "refused", "checked", "sent", "failed", "tracked", "over"}]
    /\ terms \subseteq Orders
    /\ life \in {"running", "stopping", "closed", "down"}
    /\ fromApp \in {"idle", "waiting", "returned"}
    /\ Len(reports) <= ReportBuffer
    /\ track \in [Orders -> ExecState \cup {"none", "pending"}]
    /\ \A n \in DOMAIN out : out[n].tif \in WireTIF
    /\ outNext \in 1..(Len(out) + 1) /\ inNext \in 1..(Len(in) + 1)
    /\ book \in [Orders -> {"none", "live", "done"}]

(* An order is worked by the venue at most once, whatever is lost, resent  *)
(* or restarted: sim-venue has no memory of ids across a restart, so this  *)
(* is ToApp's refusal to resend.                                           *)
WorkedOnce == \A o \in Orders : worked[o] <= 1

(* A report the venue will not resend is accounted for: applied, still in  *)
(* the channel, in the channel of a process that died, or given up on      *)
(* after the timeout.  In particular none is lost to an orderly shutdown.  *)
ReceivedIsAccounted ==
    \A n \in 1..(inNext - 1) :
        in[n].type = "report" =>
            n \in applied \cup lost \cup abandoned \cup {reports[i] : i \in DOMAIN reports}

(* When nothing is in flight and the venue has not restarted, the tracker  *)
(* and the venue's book agree on every order carry has tracked, except one *)
(* that fell into the window between Submit's check and its send.          *)
Quiet == /\ link = "up" /\ venueLives = 1 /\ lives = 1 /\ consumer = "draining"
         /\ fromApp = "idle" /\ reports = <<>> /\ inNext = Len(in) + 1
         /\ outNext = Len(out) + 1
GapFilled(o) == worked[o] = 0
QuietAgreement ==
    Quiet => \A o \in Orders :
                submit[o] = "tracked" =>
                    \/ book[o] = "live" /\ track[o] = "NEW"
                    \/ book[o] = "done" /\ track[o] \in {"FILLED", "CANCELED"}
                    \/ GapFilled(o) /\ track[o] \in {"pending", "REJECTED"}

(* Every report the venue sends reaches a tracker, across lost connections *)
(* and restarts of either process: again and again none is outstanding,    *)
(* unless carry stays down or its consumer has stopped.                    *)
Arrives(n) == n \in applied \cup lost \cup abandoned
GoneForGood == life = "down" /\ lives = MaxLives
ReportsArrive ==
    []<>(\/ \A n \in DOMAIN in : in[n].type = "report" => Arrives(n)
         \/ GoneForGood \/ consumer = "stopped")

(* A consumer that stops draining cannot hang the logout.                  *)
StopReturns == (life = "stopping") ~> (life \in {"closed", "down"})

(* What the API specification says of an Ack: the venue has the order.     *)
AckMeansVenueHasIt ==
    \A o \in Orders :
        (submit[o] = "sent") ~> (\/ \E n \in DOMAIN in : reportIdentity(in[n]) = o
                                 \/ life # "running")

(* What the decision record says of a rejected cancel: the next report of  *)
(* the order tells the consumer, so an order asked about is an order that  *)
(* ends.                                                                   *)
AskedIsTold ==
    \A o \in Orders :
        (cancel[o] /\ (\E n \in DOMAIN in : in[n].type = "cancelReject" /\ in[n].orig = o))
            ~> (track[o] \in Terminal \/ life # "running")
=============================================================================
