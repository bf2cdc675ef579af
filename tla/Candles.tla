------------------------------ MODULE Candles -------------------------------
(***************************************************************************)
(* The candles handler (ingest/candles.go): a candle is written once a     *)
(* strictly newer one has been seen, with the values it was last seen      *)
(* with.  Its state describes what is in the database, so a reconnect      *)
(* (Reset) leaves it alone and the replay of the next subscribe fills the  *)
(* outage in.  Products do not interact, so one is modelled.               *)
(*                                                                         *)
(* Candles are numbered by their start in units of CandleInterval, their   *)
(* values are the number of changes so far.  The venue is external: on     *)
(* subscribe it sends its newest Window candles, then the forming one each *)
(* time it changes; it may skip an interval (maintenance).                 *)
(***************************************************************************)
EXTENDS Integers, Sequences, SequencesExt, FiniteSets, FiniteSetsExt

CONSTANTS
    Window,    \* candles in the snapshot of a subscribe
    Outage,    \* bound on the candles begun between two messages
    MaxCandle, \* bound on the candles
    MaxChange, \* bound on the changes of one candle
    MaxConns   \* bound on the connections

CandlesAssumption == {Window, MaxCandle} \subseteq Nat \ {0} /\ {Outage, MaxChange} \subseteq Nat

VARIABLES
    hist,     \* the venue's candles: start |-> changes; the newest is forming
    up, conns, wire, missed,  \* the connection; candles begun with none heard
    lastStart, seeded, newest, pending,  \* productCandles
    rows,     \* bars written: start |-> values
    writes,   \* starts in the order they were written
    loaded,   \* how many of them the first message wrote
    jumped,   \* a jump in the bars was counted as a gap
    garbled   \* a candle that does not parse was counted as a gap

venue == <<hist, up, conns, wire, missed>>
state == <<lastStart, seeded, newest, pending>>
seen  == <<rows, writes, loaded, jumped, garbled>>
vars  == <<venue, state, seen>>

none    == [s \in {} |-> 0]
forming == Max(DOMAIN hist)
Zero    == 0     \* the zero time

Init ==
    /\ hist = [s \in 1..1 |-> 0]
    /\ up = FALSE /\ conns = 0 /\ wire = <<>> /\ missed = 0
    /\ lastStart = Zero /\ seeded = FALSE /\ newest = Zero /\ pending = none
    /\ rows = none /\ writes = <<>> /\ loaded = 0 /\ jumped = FALSE /\ garbled = FALSE

-----------------------------------------------------------------------------
(* The venue.                                                              *)

told(h) == IF up THEN wire' = Append(wire, [s \in {Max(DOMAIN h)} |-> h[Max(DOMAIN h)]])
                 ELSE UNCHANGED wire

Change ==
    /\ hist[forming] < MaxChange /\ wire = <<>>
    /\ hist' = [hist EXCEPT ![forming] = @ + 1]
    /\ told(hist')
    /\ UNCHANGED <<up, conns, missed, state, seen>>

(* The next candle begins, at once or after an interval without one.       *)
Roll ==
    /\ wire = <<>> /\ (~up => missed < Outage)
    /\ \E s \in {forming + 1, forming + 2} :
          /\ s <= MaxCandle
          /\ hist' = [t \in DOMAIN hist \cup {s} |-> IF t = s THEN 0 ELSE hist[t]]
    /\ missed' = IF up THEN missed ELSE missed + 1
    /\ told(hist')
    /\ UNCHANGED <<up, conns, state, seen>>

Drop ==
    /\ up
    /\ up' = FALSE /\ wire' = <<>>
    /\ UNCHANGED <<hist, conns, missed, state, seen>>

(* Subscribed: Reset does nothing, and the snapshot is on its way.         *)
Connect ==
    /\ ~up /\ conns < MaxConns
    /\ up' = TRUE /\ conns' = conns + 1
    /\ wire' = <<[s \in {t \in DOMAIN hist :
                          Cardinality({r \in DOMAIN hist : r > t}) < Window} |-> hist[s]]>>
    /\ UNCHANGED <<hist, missed, state, seen>>

-----------------------------------------------------------------------------
(* Handle = parse, record, writeClosed.                                    *)

(* record keeps the candles of a message that are not yet written.         *)
recorded(candles) == {s \in DOMAIN candles : lastStart = Zero \/ s > lastStart}

merged(candles) ==
    LET new == recorded(candles)
    IN  [s \in DOMAIN pending \cup new |-> IF s \in new THEN candles[s] ELSE pending[s]]

newestOf(candles) == Max({newest} \cup recorded(candles))

(* closed: the pending candles a newer start has superseded, oldest first. *)
increasing(s)   == \A i, j \in DOMAIN s : i < j => s[i] < s[j]
sorted(S)       == CHOOSE s \in [1..Cardinality(S) -> S] : ToSet(s) = S /\ increasing(s)
closedAll(p, n) == sorted(DOMAIN p)
closed(p, n)    == sorted({s \in DOMAIN p : s < n})

(* A jump between two bars written, counted only after the first message.  *)
jump(starts) ==
    LET before == <<lastStart>> \o starts
    IN  seeded /\ \E i \in DOMAIN starts : before[i] # Zero /\ starts[i] # before[i] + 1

(* A candle that does not parse is reported and left out.                  *)
Handle ==
    /\ up /\ wire # <<>>
    /\ \E bad \in {{}} \cup {{s} : s \in DOMAIN Head(wire)} :
          LET candles == [s \in DOMAIN Head(wire) \ bad |-> Head(wire)[s]]
              touched == candles # none      \* persist runs for products with a candle
              p       == merged(candles)
              n       == newestOf(candles)
              starts  == IF touched THEN closed(p, n) ELSE <<>>
          IN  /\ pending' = [s \in DOMAIN p \ ToSet(starts) |-> p[s]]
              /\ newest' = n
              /\ lastStart' = IF starts = <<>> THEN lastStart ELSE Last(starts)
              /\ seeded' = (seeded \/ touched)
              /\ rows' = [s \in DOMAIN rows \cup ToSet(starts) |->
                            IF s \in DOMAIN rows THEN rows[s] ELSE p[s]]
              /\ writes' = writes \o starts
              /\ loaded' = IF seeded THEN loaded ELSE Len(writes')
              /\ jumped' = (jumped \/ jump(starts))
              /\ garbled' = (garbled \/ bad # {})
    /\ wire' = Tail(wire) /\ missed' = 0
    /\ UNCHANGED <<hist, up, conns>>

Next == Change \/ Roll \/ Drop \/ Connect \/ Handle

Spec == Init /\ [][Next]_vars

-----------------------------------------------------------------------------
(* Bars are written once each and in the order of their starts, replays    *)
(* and reconnects included (productCandles.record, closed, lastStart).     *)
BarsInOrder == \A i \in 2..Len(writes) : writes[i] > writes[i - 1]

(* With every candle parsed and an outage shorter than the replay window,  *)
(* a bar in the database has the candle's final values: one the socket     *)
(* last saw half formed is completed by the replay before it is written    *)
(* (productCandles.record, writeClosed, Reset).                            *)
Final      == \A s \in DOMAIN rows : rows[s] = hist[s] /\ s < forming
BarIsFinal == ~garbled => Final

(* A hole in the bars was counted as a gap, unless it lies within what the *)
(* first message wrote, which is the venue's own history                   *)
(* (CandlesHandler.writeClosed, seeded).                                   *)
HolesAreCounted ==
    \A i \in 2..Len(writes) :
        i > loaded /\ writes[i] # writes[i - 1] + 1 => jumped

(* A reconnect refills whatever the disconnection cost, or says it did     *)
(* not: with every candle parsed and no gap counted, the bars are final,   *)
(* however long the outage (the type's comment in candles.go).             *)
ReconnectRefills == ~jumped /\ ~garbled => Final
=============================================================================
