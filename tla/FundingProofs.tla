---------------------------- MODULE FundingProofs -----------------------------
(***************************************************************************)
(* Machine-checked proofs about the hourly funding runner, for every       *)
(* number of samples an hour, every retention and maintenance window, and  *)
(* any number of restarts; about the backfill that seeds it: that it asks  *)
(* for the gaps and nothing else, and that the spot series heals; and      *)
(* about the marks it samples: that each is exactly what its window showed.*)
(***************************************************************************)
EXTENDS MCFunding, FiniteSetTheorems, WellFoundedInduction, TLAPS

-----------------------------------------------------------------------------
(* The inductive invariant.                                                *)

OrNone(T) == T \cup {None}

(* When the timer is set for: the boundary it waits for.                   *)
boundary == now + left
(* When hour h has been sampled to its end.                                *)
endOf(h) == S * (h + 1)

RunnerTypes ==
    /\ now \in Nat /\ crashes \in Nat /\ up \in {"live", "backfill"}
    /\ marked \in Nat /\ marked <= now
    /\ samples \subseteq Nat /\ whole \subseteq Nat
    /\ previous \in OrNone(Nat) /\ lastHour \in OrNone(Nat)
    /\ pc \in {"wait", "emit"} /\ left \in Int
    /\ hour \in OrNone(Nat) /\ newest \in OrNone(Nat)
    /\ pc = "emit" => hour # None /\ newest # None
    /\ up = "backfill" => pc = "wait" /\ whole = {} /\ newest = None

(* A row is of an hour that is over and in no maintenance window, and      *)
(* rests on the row of an earlier hour or on none.                         *)
RowsFollow ==
    \A h \in DOMAIN rows :
        /\ h \in Nat /\ endOf(h) <= now /\ h \notin Closed
        /\ rows[h].previous # None => rows[h].previous < h /\ rows[h].previous \in DOMAIN rows

(* What the next rate will be smoothed against is on record, and not newer *)
(* than the last hour.                                                     *)
PreviousIsOnRecord == previous # None => previous \in DOMAIN rows /\ previous <= lastHour

(* A loop that is emitting runs up to the hour completed last.             *)
EmitsWhatIsOver == pc = "emit" => newest = HourOf(now) - 1

(* The timer is never set for the first hour's start, nor fires later than *)
(* its bound.                                                              *)
TimerIsBounded == up = "live" => boundary >= S /\ left >= -Lateness

(* The samples of a whole hour stay until they are past the retention.     *)
WholeIsKept ==
    \A h \in whole :
        /\ endOf(h) <= now
        /\ \A x \in InHour(h) : x >= marked - Retention => x \in samples

(* Of the hours after the last, those over before the hour the timer waits *)
(* for were missed by this process.                                        *)
WaitMissesNone ==
    up = "live" /\ pc = "wait" =>
        /\ \A h \in Nat : h > lastHour /\ endOf(h) < boundary => h \notin whole /\ endOf(h) <= marked
        /\ newest # None => lastHour >= newest

(* A loop that is emitting has not stepped over a whole hour, and each     *)
(* that is left ended no longer ago than the timer may be late.            *)
EmitMissesNone ==
    up = "live" /\ pc = "emit" =>
        /\ hour > newest => lastHour >= newest
        /\ lastHour = None => hour = newest
        /\ lastHour # None => \A h \in whole : h > lastHour => h >= hour /\ now <= endOf(h) + Lateness

(* The timer is late by no more than the retention can bridge: the newest  *)
(* MinSamples samples of an hour are still kept at its latest wake.        *)
RetentionBridges == MinSamples <= S /\ Lateness + MinSamples <= Retention + 1

SeriesInv ==
    RunnerTypes /\ TimerIsBounded /\ EmitsWhatIsOver /\ RowsFollow /\ PreviousIsOnRecord
CatchUpInv == SeriesInv /\ WholeIsKept /\ WaitMissesNone /\ EmitMissesNone

-----------------------------------------------------------------------------
(* Hours and their ends.                                                   *)

LEMMA Multiples ==
    ASSUME NEW a \in Int, NEW b \in Int
    PROVE  /\ S * a \in Int
           /\ a <= b => S * a <= S * b
           /\ a < b => S * a + S <= S * b
           /\ S * a < S * b => a < b
<1>1. S \in Nat /\ S > 0
  BY FundingAssumption
<1>2. ASSUME NEW c \in Nat PROVE S * c >= 0
  BY <1>1, <1>2
<1>3. S * a \in Int /\ S * b \in Int
  BY <1>1
<1>4. S * (b - a) = S * b - S * a /\ S * (b - a - 1) = S * b - S * a - S
  BY <1>1
<1>5. a <= b => S * a <= S * b
  BY <1>2, <1>3, <1>4
<1>6. a < b => S * a + S <= S * b
  <2>. SUFFICES ASSUME a < b PROVE S * a + S <= S * b
    OBVIOUS
  <2>1. b - a - 1 \in Nat
    OBVIOUS
  <2>2. S * (b - a - 1) >= 0
    BY <1>2, <2>1
  <2>3. S * b - S * a - S >= 0
    BY <1>4, <2>2
  <2>. QED
    BY <1>1, <1>3, <2>3
<1>7. S * (a - b) = S * a - S * b
  BY <1>1
<1>8. b <= a => S * b <= S * a
  BY <1>2, <1>3, <1>7
<1>. QED
  BY <1>3, <1>5, <1>6, <1>8

LEMMA Ends ==
    ASSUME NEW h \in Int, NEW k \in Int
    PROVE  /\ endOf(h) \in Int /\ endOf(h + 1) = endOf(h) + S
           /\ h <= k => endOf(h) <= endOf(k)
           /\ endOf(h) < endOf(k) => h < k
           /\ h \in Nat => endOf(h) >= S
<1>1. S \in Nat
  BY FundingAssumption
<1>2. S * (h + 2) = S * (h + 1) + S
  BY <1>1
<1>3. /\ S * (h + 1) \in Int
      /\ h + 1 <= k + 1 => S * (h + 1) <= S * (k + 1)
      /\ S * (h + 1) < S * (k + 1) => h + 1 < k + 1
  BY Multiples
<1>4. S * 1 = S /\ (1 <= h + 1 => S * 1 <= S * (h + 1))
  BY <1>1, Multiples
<1>5. h + 1 + 1 = h + 2
  OBVIOUS
<1>. QED
  BY <1>1, <1>2, <1>3, <1>4, <1>5 DEF endOf

LEMMA Hours ==
    ASSUME NEW t \in Nat
    PROVE  /\ HourOf(t) \in Nat
           /\ endOf(HourOf(t) - 1) <= t /\ t < endOf(HourOf(t))
           /\ untilNextHour(t) = endOf(HourOf(t)) - t
           /\ t % S = 0 => endOf(HourOf(t) - 1) = t
<1>1. S \in Nat /\ S > 0
  BY FundingAssumption
<1>2. t \div S \in Nat /\ t % S \in 0..(S - 1) /\ t = (S * (t \div S)) + (t % S)
  BY <1>1
<1>3. S * (t \div S + 1) = S * (t \div S) + S /\ S * (t \div S) \in Int
  BY <1>1, <1>2
<1>4. t \div S - 1 + 1 = t \div S
  BY <1>2
<1>. QED
  BY <1>1, <1>2, <1>3, <1>4 DEF HourOf, endOf, untilNextHour

LEMMA InHourIs == ASSUME NEW h \in Int PROVE InHour(h) = (endOf(h) - S + 1)..endOf(h)
<1>1. S \in Nat
  BY FundingAssumption
<1>2. S * (h + 1) = h * S + S /\ h * S \in Int
  BY <1>1
<1>. QED
  BY <1>1, <1>2 DEF InHour, endOf

LEMMA LaterOf ==
    ASSUME NEW a \in Int, NEW b \in Int
    PROVE  Max({a, b}) = IF a >= b THEN a ELSE b
<1>1. \E x \in {a, b} : \A y \in {a, b} : x >= y
  OBVIOUS
<1>. QED
  BY <1>1 DEF Max

(* A set of hours that has a bound has a newest member: otherwise its      *)
(* distances to the bound would have no least.                             *)
LEMMA NewestOf ==
    ASSUME NEW T \in SUBSET Nat, T # {}, NEW n \in Nat, \A h \in T : h <= n
    PROVE  Max(T) \in T /\ \A h \in T : Max(T) >= h
<1>. DEFINE Below == OpToRel(<, Nat)
            D == {n - h : h \in T}
<1>1. IsWellFoundedOn(Below, Nat)
  BY NatLessThanWellFounded
<1>2. \A x, y \in Nat : y < x => <<y, x>> \in Below
  BY DEF OpToRel
<1>3. D \subseteq Nat /\ D # {}
  <2>1. ASSUME NEW h \in T PROVE n - h \in Nat
    BY <2>1
  <2>2. PICK h \in T : TRUE
    OBVIOUS
  <2>3. n - h \in D
    BY <2>2
  <2>. QED
    BY <2>1, <2>3
<1>. HIDE DEF Below, D
<1>4. PICK d \in D : \A y \in D : ~ (<<y, d>> \in Below)
  BY <1>1, <1>3, WFMin
<1>5. \A y \in D : ~(y < d)
  BY <1>2, <1>3, <1>4, Zenon
<1>6. PICK m \in T : d = n - m
  BY <1>4 DEF D
<1>7. \A h \in T : m >= h
  <2>. SUFFICES ASSUME NEW h \in T PROVE m >= h
    OBVIOUS
  <2>1. n - h \in D
    BY DEF D
  <2>2. ~(n - h < n - m)
    BY <1>5, <1>6, <2>1
  <2>. QED
    BY <2>2
<1>. QED
  BY <1>7 DEF Max

LEMMA HoursOver ==
    ASSUME NEW h \in Int, NEW t \in Nat
    PROVE  /\ endOf(h) <= t => h <= HourOf(t) - 1
           /\ h <= HourOf(t) - 1 => endOf(h) <= t
<1>1. /\ HourOf(t) \in Nat
      /\ endOf(HourOf(t) - 1) <= t /\ t < endOf(HourOf(t))
  BY Hours
<1>2. /\ endOf(h) \in Int /\ endOf(HourOf(t)) \in Int /\ endOf(HourOf(t) - 1) \in Int
      /\ endOf(h) < endOf(HourOf(t)) => h < HourOf(t)
      /\ h <= HourOf(t) - 1 => endOf(h) <= endOf(HourOf(t) - 1)
  BY <1>1, Ends
<1>. QED
  BY <1>1, <1>2

(* The timer's next boundary: the end of the hour that is running.         *)
LEMMA NextBoundary ==
    ASSUME NEW t \in Nat
    PROVE  /\ untilNextHour(t) \in Nat
           /\ t + untilNextHour(t) = endOf(HourOf(t))
           /\ endOf(HourOf(t)) >= S
<1>1. /\ HourOf(t) \in Nat /\ t < endOf(HourOf(t))
      /\ untilNextHour(t) = endOf(HourOf(t)) - t
  BY Hours
<1>2. endOf(HourOf(t)) \in Int /\ endOf(HourOf(t)) >= S
  BY <1>1, Ends
<1>. QED
  BY <1>1, <1>2

(* A timer that fires finds an hour completed.                             *)
LEMMA FiredLate ==
    ASSUME RunnerTypes, TimerIsBounded, up = "live", left <= 0
    PROVE  HourOf(now) - 1 \in Nat
<1>1. now \in Nat /\ left \in Int /\ now >= S /\ S \in Nat
  BY FundingAssumption DEF RunnerTypes, TimerIsBounded, boundary
<1>2. endOf(0) = S
  BY <1>1 DEF endOf
<1>3. 0 <= HourOf(now) - 1
  BY <1>1, <1>2, HoursOver
<1>4. HourOf(now) \in Nat
  BY <1>1, Hours
<1>. QED
  BY <1>3, <1>4

-----------------------------------------------------------------------------
(* The series: each rate is smoothed against the past.                     *)

LEMMA SeriesInit0 == Init => SeriesInv
<1>. SUFFICES ASSUME Init PROVE SeriesInv
  OBVIOUS
<1>. USE DEF Init, idle
<1>1. now = 0 /\ left = untilNextHour(0) /\ DOMAIN rows = {}
  OBVIOUS
<1>2. /\ untilNextHour(0) \in Nat
      /\ 0 + untilNextHour(0) = endOf(HourOf(0))
      /\ endOf(HourOf(0)) >= S
  BY NextBoundary
<1>3. RunnerTypes
  BY <1>1, <1>2 DEF RunnerTypes, OrNone, None
<1>4. TimerIsBounded
  BY <1>1, <1>2, FundingAssumption DEF TimerIsBounded, boundary
<1>5. EmitsWhatIsOver /\ RowsFollow /\ PreviousIsOnRecord
  BY <1>1 DEF EmitsWhatIsOver, RowsFollow, PreviousIsOnRecord
<1>. QED
  BY <1>3, <1>4, <1>5 DEF SeriesInv

LEMMA RowsStay ==
    ASSUME RowsFollow, RunnerTypes, UNCHANGED rows, now' \in Nat, now <= now'
    PROVE  RowsFollow'
<1>1. ASSUME NEW h \in DOMAIN rows PROVE endOf(h) <= now'
  <2>1. h \in Nat /\ endOf(h) <= now /\ now \in Nat
    BY <1>1 DEF RowsFollow, RunnerTypes
  <2>2. endOf(h) \in Int
    BY <2>1, Ends
  <2>. QED
    BY <2>1, <2>2
<1>. QED
  BY <1>1 DEF RowsFollow, endOf

LEMMA SeriesOnSample == SeriesInv /\ Sample => SeriesInv'
<1>. SUFFICES ASSUME SeriesInv, Sample PROVE SeriesInv'
  OBVIOUS
<1>. USE DEF SeriesInv, clock
<1>1. now \in Nat /\ marked \in Nat /\ samples \subseteq Nat /\ whole \subseteq Nat
  BY DEF RunnerTypes
<1>2. samples' \subseteq Nat
  BY <1>1 DEF Sample
<1>3. whole' \subseteq Nat
  <2>1. CASE whole' = whole
    BY <1>1, <2>1
  <2>2. CASE now % S = 0 /\ whole' = whole \cup {HourOf(now) - 1}
    <3>1. endOf(HourOf(now) - 1) = now /\ HourOf(now) \in Nat
      BY <1>1, <2>2, Hours
    <3>2. endOf(-1) = 0 /\ now > 0
      BY <1>1, FundingAssumption DEF endOf, Sample
    <3>3. endOf(-1) < endOf(HourOf(now) - 1) => -1 < HourOf(now) - 1
      BY <3>1, Ends
    <3>4. -1 < HourOf(now) - 1
      BY <3>1, <3>2, <3>3
    <3>5. HourOf(now) - 1 \in Nat
      BY <3>1, <3>4
    <3>. QED
      BY <1>1, <2>2, <3>5
  <2>. QED
    BY <2>1, <2>2 DEF Sample
<1>4. RunnerTypes'
  BY <1>2, <1>3 DEF RunnerTypes, Sample
<1>5. RowsFollow'
  BY <1>1, RowsStay DEF Sample
<1>6. (TimerIsBounded /\ EmitsWhatIsOver /\ PreviousIsOnRecord)'
  BY DEF TimerIsBounded, boundary, EmitsWhatIsOver, PreviousIsOnRecord, Sample, HourOf
<1>. QED
  BY <1>4, <1>5, <1>6

LEMMA SeriesOnWake == SeriesInv /\ Wake => SeriesInv'
<1>. SUFFICES ASSUME SeriesInv, Wake PROVE SeriesInv'
  OBVIOUS
<1>. USE DEF SeriesInv, clock
<1>1. HourOf(now) - 1 \in Nat
  BY FiredLate DEF Wake
<1>2. firstUnrecorded(HourOf(now) - 1) \in Nat
  <2>1. lastHour \in OrNone(Nat)
    BY DEF RunnerTypes
  <2>2. CASE lastHour = None
    BY <1>1, <2>2 DEF firstUnrecorded
  <2>3. CASE lastHour # None
    <3>1. lastHour \in Nat
      BY <2>1, <2>3 DEF OrNone
    <3>2. HourOf(now) - 1 - (Retention \div S) \in Int
      BY <1>1, FundingAssumption
    <3>3. Max({HourOf(now) - 1 - (Retention \div S), lastHour + 1}) \in Nat
      BY <3>1, <3>2, LaterOf
    <3>. QED
      BY <2>3, <3>3 DEF firstUnrecorded
  <2>. QED
    BY <2>2, <2>3
<1>3. RunnerTypes'
  BY <1>1, <1>2 DEF RunnerTypes, Wake, OrNone, None
<1>4. RowsFollow'
  BY RowsStay DEF Wake, RunnerTypes
<1>5. (TimerIsBounded /\ EmitsWhatIsOver /\ PreviousIsOnRecord)'
  BY DEF TimerIsBounded, boundary, EmitsWhatIsOver, PreviousIsOnRecord, Wake, HourOf
<1>. QED
  BY <1>3, <1>4, <1>5

LEMMA SeriesOnEmit == SeriesInv /\ Emit => SeriesInv'
<1>. SUFFICES ASSUME SeriesInv, Emit PROVE SeriesInv'
  OBVIOUS
<1>. USE DEF SeriesInv, clock
<1>. DEFINE ok == emits(hour) /\ Cardinality(inHour(hour)) >= MinSamples
<1>1. /\ hour \in Nat /\ newest \in Nat /\ hour <= newest /\ newest = HourOf(now) - 1
      /\ now \in Nat /\ lastHour \in OrNone(Nat) /\ previous \in OrNone(Nat)
  BY DEF RunnerTypes, Emit, EmitsWhatIsOver, OrNone, None
<1>2. /\ rows' = IF ok THEN insert(hour, RateForHour(hour)) ELSE rows
      /\ previous' = IF ok THEN hour ELSE previous
      /\ lastHour' = Max({hour, lastHour})
  BY DEF Emit, advance
<1>3. lastHour \in Int /\ lastHour' = IF hour >= lastHour THEN hour ELSE lastHour
  BY <1>1, <1>2, LaterOf DEF OrNone, None
<1>4. lastHour' \in Nat /\ lastHour' >= hour /\ lastHour' >= lastHour
  BY <1>1, <1>3 DEF OrNone, None
<1>5. endOf(hour) <= now
  BY <1>1, HoursOver
<1>. HIDE DEF ok
<1>6. RunnerTypes'
  BY <1>1, <1>2, <1>4 DEF RunnerTypes, Emit, OrNone, None
<1>7. CASE ~ok
  <2>1. UNCHANGED <<rows, previous>>
    BY <1>2, <1>7
  <2>2. RowsFollow'
    BY <1>1, <2>1, RowsStay DEF Emit
  <2>3. PreviousIsOnRecord'
    BY <1>1, <1>3, <1>4, <2>1 DEF PreviousIsOnRecord, OrNone, None
  <2>. QED
    BY <1>6, <2>2, <2>3 DEF TimerIsBounded, boundary, EmitsWhatIsOver, Emit, HourOf
<1>8. CASE ok
  <2>1. rows' = insert(hour, RateForHour(hour)) /\ previous' = hour
    BY <1>2, <1>8
  <2>2. /\ DOMAIN rows' = DOMAIN rows \cup {hour}
        /\ \A h \in DOMAIN rows : rows'[h] = rows[h]
        /\ hour \notin DOMAIN rows => rows'[hour].previous = previous
    BY <2>1 DEF insert, RateForHour
  <2>3. hour \notin Closed /\ (lastHour = None \/ hour > lastHour)
    BY <1>8 DEF ok, emits
  <2>4. previous # None => previous < hour /\ previous \in DOMAIN rows
    BY <1>1, <1>3, <2>3 DEF PreviousIsOnRecord, OrNone, None
  <2>5. now' = now
    BY DEF Emit
  <2>6. RowsFollow'
    <3>. SUFFICES ASSUME NEW h \in DOMAIN rows'
                  PROVE  /\ h \in Nat /\ endOf(h) <= now' /\ h \notin Closed
                         /\ rows'[h].previous # None =>
                              rows'[h].previous < h /\ rows'[h].previous \in DOMAIN rows'
      BY DEF RowsFollow, endOf
    <3>1. CASE h \in DOMAIN rows
      BY <2>2, <2>5, <3>1 DEF RowsFollow
    <3>2. CASE h \notin DOMAIN rows
      BY <1>1, <1>5, <2>2, <2>3, <2>4, <2>5, <3>2
    <3>. QED
      BY <3>1, <3>2
  <2>7. PreviousIsOnRecord'
    BY <1>4, <2>1, <2>2 DEF PreviousIsOnRecord
  <2>. QED
    BY <1>6, <2>6, <2>7 DEF TimerIsBounded, boundary, EmitsWhatIsOver, Emit, HourOf
<1>. QED
  BY <1>7, <1>8

LEMMA SeriesOnEmitDone == SeriesInv /\ EmitDone => SeriesInv'
<1>. SUFFICES ASSUME SeriesInv, EmitDone PROVE SeriesInv'
  OBVIOUS
<1>. USE DEF SeriesInv, clock
<1>1. /\ untilNextHour(now) \in Nat
      /\ now + untilNextHour(now) = endOf(HourOf(now))
      /\ endOf(HourOf(now)) >= S
  BY NextBoundary DEF RunnerTypes
<1>2. left' = untilNextHour(now) /\ now' = now
  BY DEF EmitDone
<1>3. RunnerTypes'
  BY <1>1, <1>2 DEF RunnerTypes, EmitDone, OrNone, None
<1>4. TimerIsBounded'
  BY <1>1, <1>2, FundingAssumption DEF TimerIsBounded, boundary
<1>5. RowsFollow'
  BY RowsStay DEF EmitDone, RunnerTypes
<1>6. (EmitsWhatIsOver /\ PreviousIsOnRecord)'
  BY DEF EmitsWhatIsOver, PreviousIsOnRecord, EmitDone
<1>. QED
  BY <1>3, <1>4, <1>5, <1>6

LEMMA SeriesOnCrash == SeriesInv /\ Crash => SeriesInv'
<1>. SUFFICES ASSUME SeriesInv, Crash PROVE SeriesInv'
  OBVIOUS
<1>. USE DEF SeriesInv
<1>1. RunnerTypes'
  BY DEF RunnerTypes, Crash, OrNone, None
<1>2. RowsFollow'
  BY RowsStay DEF Crash, RunnerTypes
<1>. QED
  BY <1>1, <1>2 DEF TimerIsBounded, EmitsWhatIsOver, PreviousIsOnRecord, Crash

LEMMA SeriesOnClock == SeriesInv /\ AdvanceClock => SeriesInv'
<1>. SUFFICES ASSUME SeriesInv, AdvanceClock PROVE SeriesInv'
  OBVIOUS
<1>. USE DEF SeriesInv
<1>1. RunnerTypes'
  BY DEF RunnerTypes, AdvanceClock, OrNone, None
<1>2. RowsFollow'
  BY RowsStay DEF AdvanceClock, RunnerTypes
<1>3. TimerIsBounded'
  BY FundingAssumption DEF TimerIsBounded, boundary, AdvanceClock, RunnerTypes
<1>4. EmitsWhatIsOver'
  BY DEF EmitsWhatIsOver, AdvanceClock, RunnerTypes
<1>. QED
  BY <1>1, <1>2, <1>3, <1>4 DEF PreviousIsOnRecord, AdvanceClock

(* What the backfill adds continues the series, and the seed is on record. *)
LEMMA SeriesOnBackfilled == SeriesInv /\ Backfilled => SeriesInv'
<1>. SUFFICES ASSUME SeriesInv, Backfilled PROVE SeriesInv'
  OBVIOUS
<1>. USE DEF SeriesInv, clock
<1>1. now \in Nat /\ now' = now /\ HourOf(now) \in Nat
  BY Hours DEF Backfilled, RunnerTypes
<1>2. PICK computed \in SUBSET {h \in 0..(HourOf(now) - 1) : h \notin DOMAIN rows \cup Closed} :
        /\ rows' = [h \in DOMAIN rows \cup computed |->
                      IF h \in DOMAIN rows THEN rows[h] ELSE series(computed, h)]
        /\ previous' = seedHour(computed) /\ lastHour' = seedHour(computed)
  BY DEF Backfilled
<1>3. /\ DOMAIN rows' = DOMAIN rows \cup computed
      /\ \A h \in DOMAIN rows : rows'[h] = rows[h]
      /\ \A h \in computed : rows'[h] = series(computed, h)
  BY <1>2
<1>4. ASSUME NEW h \in computed
      PROVE  h \in Nat /\ h <= HourOf(now) /\ endOf(h) <= now /\ h \notin Closed
  <2>1. h \in Nat /\ h <= HourOf(now) - 1 /\ h \notin Closed
    BY <1>1, <1>2, <1>4
  <2>. QED
    BY <1>1, <2>1, HoursOver
<1>5. ASSUME NEW h \in DOMAIN rows PROVE h \in Nat /\ h <= HourOf(now)
  <2>1. h \in Nat /\ endOf(h) <= now
    BY <1>5 DEF RowsFollow
  <2>. QED
    BY <1>1, <2>1, HoursOver
<1>6. RowsFollow'
  <2>. SUFFICES ASSUME NEW h \in DOMAIN rows'
                PROVE  /\ h \in Nat /\ endOf(h) <= now' /\ h \notin Closed
                       /\ rows'[h].previous # None =>
                            rows'[h].previous < h /\ rows'[h].previous \in DOMAIN rows'
    BY DEF RowsFollow, endOf
  <2>1. CASE h \in DOMAIN rows
    BY <1>1, <1>3, <2>1 DEF RowsFollow
  <2>2. CASE h \in computed
    <3>. DEFINE earlier == {x \in computed : x < h}
    <3>1. rows'[h].previous = IF earlier = {} THEN None ELSE Max(earlier)
      BY <1>3, <2>2 DEF series
    <3>2. earlier # {} => Max(earlier) \in earlier
      <4>. SUFFICES ASSUME earlier # {} PROVE Max(earlier) \in earlier
        OBVIOUS
      <4>1. earlier \in SUBSET Nat /\ \A x \in earlier : x <= HourOf(now)
        BY <1>4
      <4>. QED
        BY <1>1, <4>1, NewestOf
    <3>3. \A x \in earlier : x < h /\ x \in DOMAIN rows'
      BY <1>3
    <3>. HIDE DEF earlier
    <3>4. rows'[h].previous # None =>
            rows'[h].previous < h /\ rows'[h].previous \in DOMAIN rows'
      BY <3>1, <3>2, <3>3
    <3>. QED
      BY <1>1, <1>4, <2>2, <3>4
  <2>. QED
    BY <1>3, <2>1, <2>2
<1>7. seedHour(computed) \in OrNone(Nat) /\ (seedHour(computed) # None => seedHour(computed) \in DOMAIN rows')
  <2>1. CASE computed # {}
    <3>1. computed \in SUBSET Nat /\ \A x \in computed : x <= HourOf(now)
      BY <1>4
    <3>2. Max(computed) \in computed
      BY <1>1, <2>1, <3>1, NewestOf
    <3>. QED
      BY <1>3, <1>4, <2>1, <3>2 DEF seedHour, OrNone
  <2>2. CASE computed = {} /\ DOMAIN rows # {}
    <3>1. DOMAIN rows \in SUBSET Nat /\ \A x \in DOMAIN rows : x <= HourOf(now)
      BY <1>5
    <3>2. Max(DOMAIN rows) \in DOMAIN rows
      BY <1>1, <2>2, <3>1, NewestOf
    <3>. QED
      BY <1>3, <1>5, <2>2, <3>2 DEF seedHour, OrNone
  <2>3. CASE computed = {} /\ DOMAIN rows = {}
    BY <2>3 DEF seedHour, OrNone
  <2>. QED
    BY <2>1, <2>2, <2>3
<1>8. PreviousIsOnRecord'
  BY <1>2, <1>7 DEF PreviousIsOnRecord, OrNone, None
<1>9. /\ untilNextHour(now) \in Nat
      /\ now + untilNextHour(now) = endOf(HourOf(now))
      /\ endOf(HourOf(now)) >= S
  BY <1>1, NextBoundary
<1>10. left' = untilNextHour(now)
  BY DEF Backfilled
<1>11. RunnerTypes'
  BY <1>1, <1>2, <1>7, <1>9, <1>10 DEF RunnerTypes, Backfilled
<1>12. TimerIsBounded'
  BY <1>1, <1>9, <1>10, FundingAssumption DEF TimerIsBounded, boundary
<1>13. EmitsWhatIsOver'
  BY <1>1 DEF EmitsWhatIsOver, Backfilled, RunnerTypes
<1>. QED
  BY <1>6, <1>8, <1>11, <1>12, <1>13

LEMMA SeriesStep == SeriesInv /\ [Next]_vars => SeriesInv'
<1>. SUFFICES ASSUME SeriesInv, [Next]_vars PROVE SeriesInv'
  OBVIOUS
<1>1. CASE UNCHANGED vars
  <2>1. RowsFollow'
    BY <1>1 DEF SeriesInv, RowsFollow, vars, clock, endOf
  <2>. QED
    BY <1>1, <2>1 DEF SeriesInv, RunnerTypes, TimerIsBounded, EmitsWhatIsOver, PreviousIsOnRecord,
                      boundary, HourOf, vars, clock, runner
<1>. QED
  BY <1>1, SeriesOnSample, SeriesOnWake, SeriesOnEmit, SeriesOnEmitDone, SeriesOnCrash,
     SeriesOnBackfilled, SeriesOnClock DEF Next

(* SmoothedAgainstThePast for every value of the constants: across         *)
(* catch-ups, gaps, crashes and seeds a rate is smoothed against the rate  *)
(* of an earlier hour that is on record (FundingRunner.Emit, Seed,         *)
(* Backfill.Run, Series).                                                  *)
THEOREM RatesFollowThePast == Spec => []SmoothedAgainstThePast
<1>1. Init => SeriesInv
  BY SeriesInit0
<1>2. SeriesInv /\ [Next]_vars => SeriesInv'
  BY SeriesStep
<1>3. SeriesInv => SmoothedAgainstThePast
  BY DEF SeriesInv, RowsFollow, SmoothedAgainstThePast
<1>. QED
  BY <1>1, <1>2, <1>3, PTL DEF Spec

-----------------------------------------------------------------------------
(* Catching up: no whole hour is left without its row.                     *)

LEMMA CatchUpInit == Init => CatchUpInv
<1>. SUFFICES ASSUME Init PROVE CatchUpInv
  OBVIOUS
<1>1. now = 0 /\ left = untilNextHour(0) /\ whole = {} /\ newest = None /\ pc = "wait"
  BY DEF Init, idle
<1>2. HourOf(0) = 0 /\ untilNextHour(0) = S
  BY FundingAssumption DEF HourOf, untilNextHour
<1>3. ASSUME NEW h \in Nat PROVE ~(endOf(h) < boundary)
  <2>1. endOf(h) \in Int /\ endOf(h) >= S
    BY Ends
  <2>. QED
    BY <1>1, <1>2, <2>1, FundingAssumption DEF boundary
<1>4. WaitMissesNone
  BY <1>1, <1>3 DEF WaitMissesNone
<1>5. WholeIsKept /\ EmitMissesNone
  BY <1>1 DEF WholeIsKept, EmitMissesNone
<1>. QED
  BY <1>4, <1>5, SeriesInit0 DEF CatchUpInv

(* A whole hour is over, so it is at most the hour completed last.         *)
LEMMA WholeIsOver ==
    ASSUME CatchUpInv, NEW h \in whole
    PROVE  h \in Nat /\ endOf(h) \in Nat /\ endOf(h) <= now /\ h <= HourOf(now) - 1
<1>1. h \in Nat /\ endOf(h) <= now /\ now \in Nat
  BY DEF CatchUpInv, SeriesInv, RunnerTypes, WholeIsKept
<1>2. endOf(h) \in Int /\ endOf(h) >= S
  BY <1>1, Ends
<1>. QED
  BY <1>1, <1>2, HoursOver, FundingAssumption

LEMMA CatchUpOnSample == CatchUpInv /\ Sample => CatchUpInv'
<1>. SUFFICES ASSUME CatchUpInv, Sample PROVE CatchUpInv'
  OBVIOUS
<1>. USE DEF CatchUpInv, clock
<1>1. /\ now \in Nat /\ marked \in Nat /\ marked < now /\ whole \subseteq Nat
      /\ samples \subseteq Nat /\ Retention \in Nat
  BY FundingAssumption DEF SeriesInv, RunnerTypes, Sample
<1>2. HourOf(now) \in Nat /\ (now % S = 0 => endOf(HourOf(now) - 1) = now)
  BY <1>1, Hours
<1>3. \A h \in whole' : \/ h \in whole
                        \/ h = HourOf(now) - 1 /\ now % S = 0 /\ InHour(h) \subseteq samples'
  BY DEF Sample
<1>4. now' = now /\ marked' = now /\ UNCHANGED <<up, pc, left, newest, hour, lastHour>>
  BY DEF Sample
<1>5. WholeIsKept'
  <2>. SUFFICES ASSUME NEW h \in whole'
                PROVE  /\ endOf(h) <= now
                       /\ \A x \in InHour(h) : x >= now - Retention => x \in samples'
    BY <1>4 DEF WholeIsKept, endOf, InHour
  <2>1. CASE h \in whole
    <3>1. endOf(h) <= now /\ h \in Nat
      BY <1>1, <2>1 DEF WholeIsKept
    <3>2. ASSUME NEW x \in InHour(h), x >= now - Retention PROVE x \in samples'
      <4>1. x \in Int
        BY <3>1, <3>2, FundingAssumption DEF InHour
      <4>2. x >= marked - Retention
        BY <1>1, <3>2, <4>1
      <4>3. x \in samples
        BY <2>1, <3>2, <4>2 DEF WholeIsKept
      <4>. QED
        BY <3>2, <4>3 DEF Sample
    <3>. QED
      BY <3>1, <3>2
  <2>2. CASE h = HourOf(now) - 1 /\ now % S = 0 /\ InHour(h) \subseteq samples'
    BY <1>1, <1>2, <2>2
  <2>. QED
    BY <1>3, <2>1, <2>2
<1>6. WaitMissesNone'
  <2>. SUFFICES ASSUME up = "live", pc = "wait"
                PROVE  /\ \A h \in Nat : h > lastHour /\ endOf(h) < boundary =>
                                           h \notin whole' /\ endOf(h) <= now
                       /\ newest # None => lastHour >= newest
    BY <1>4 DEF WaitMissesNone, boundary, endOf
  <2>1. ASSUME NEW h \in Nat, h > lastHour, endOf(h) < boundary
        PROVE  h \notin whole' /\ endOf(h) <= now
    <3>1. h \notin whole /\ endOf(h) <= marked
      BY <2>1 DEF WaitMissesNone
    <3>2. endOf(h) \in Int
      BY Ends
    <3>. QED
      BY <1>1, <1>2, <1>3, <3>1, <3>2
  <2>. QED
    BY <2>1 DEF WaitMissesNone
<1>7. EmitMissesNone'
  <2>. SUFFICES ASSUME up = "live", pc = "emit", lastHour # None,
                       NEW h \in whole', h > lastHour
                PROVE  h >= hour /\ now <= endOf(h) + Lateness
    BY <1>4 DEF EmitMissesNone, endOf
  <2>1. CASE h \in whole
    BY <2>1 DEF EmitMissesNone
  <2>2. CASE h = HourOf(now) - 1 /\ now % S = 0
    <3>1. newest = h /\ endOf(h) = now
      BY <1>2, <2>2 DEF SeriesInv, EmitsWhatIsOver
    <3>2. hour \in Nat /\ lastHour \in Nat /\ h \in Int
      BY <1>2, <2>2 DEF SeriesInv, RunnerTypes, OrNone, None
    <3>3. ~(hour > newest)
      BY <3>1, <3>2 DEF EmitMissesNone
    <3>. QED
      BY <1>1, <3>1, <3>2, <3>3, FundingAssumption
  <2>. QED
    BY <1>3, <2>1, <2>2
<1>8. SeriesInv'
  BY SeriesOnSample
<1>. QED
  BY <1>5, <1>6, <1>7, <1>8

(* The samples that reach back as far as the timer may be late reach back  *)
(* to the first hour a catch-up starts at.                                 *)
LEMMA CatchUpReaches ==
    ASSUME RetentionBridges, NEW h \in Nat, NEW t \in Nat, t <= endOf(h) + Lateness
    PROVE  HourOf(t) - 1 - (Retention \div S) <= h
<1>1. /\ S \in Nat /\ S > 0 /\ Retention \in Nat /\ Lateness \in Nat /\ Lateness <= Retention
  BY FundingAssumption DEF RetentionBridges
<1>2. HourOf(t) \in Nat /\ endOf(HourOf(t) - 1) <= t /\ endOf(HourOf(t) - 1) \in Int /\ endOf(h) \in Int
  BY Hours, Ends
<1>3. endOf(HourOf(t) - 1) - endOf(h) <= Retention
  BY <1>1, <1>2
<1>. DEFINE k == HourOf(t) - 1 - h
<1>4. S * k = endOf(HourOf(t) - 1) - endOf(h) /\ k \in Int
  BY <1>1, <1>2 DEF endOf
<1>5. Retention < endOf(HourOf(Retention)) /\ HourOf(Retention) \in Nat
  BY <1>1, Hours
<1>6. S * k < S * (HourOf(Retention) + 1)
  BY <1>1, <1>2, <1>3, <1>4, <1>5 DEF endOf
<1>7. k < HourOf(Retention) + 1
  BY <1>4, <1>5, <1>6, Multiples
<1>. QED
  BY <1>2, <1>5, <1>7 DEF HourOf

LEMMA CatchUpOnWake ==
    ASSUME RetentionBridges, CatchUpInv, Wake PROVE CatchUpInv'
<1>. USE DEF CatchUpInv, clock
<1>. DEFINE n == HourOf(now) - 1
<1>1. n \in Nat /\ now \in Nat
  BY FiredLate DEF Wake, SeriesInv, RunnerTypes
<1>2. /\ up = "live" /\ pc = "wait" /\ newest' = n /\ hour' = firstUnrecorded(n)
      /\ UNCHANGED <<now, up, marked, samples, lastHour, left, whole>>
  BY DEF Wake
<1>3. lastHour \in OrNone(Nat) /\ left \in Int /\ left >= -Lateness /\ Lateness \in Nat
  BY <1>2, FundingAssumption DEF SeriesInv, RunnerTypes, TimerIsBounded
<1>4. n - (Retention \div S) \in Int /\ n - (Retention \div S) <= n
  BY <1>1, FundingAssumption
<1>. HIDE DEF n
<1>5. lastHour = None => hour' = n
  BY <1>2 DEF firstUnrecorded
<1>6. lastHour # None =>
        hour' = IF n - (Retention \div S) >= lastHour + 1
                  THEN n - (Retention \div S) ELSE lastHour + 1
  BY <1>2, <1>3, <1>4, LaterOf DEF firstUnrecorded, OrNone
<1>7. hour' > n => lastHour >= n
  BY <1>1, <1>3, <1>4, <1>5, <1>6 DEF OrNone, None
<1>8. ASSUME lastHour # None, NEW h \in whole, h > lastHour
      PROVE  h >= hour' /\ now <= endOf(h) + Lateness
  <2>1. h \in Nat /\ endOf(h) \in Nat
    BY WholeIsOver
  <2>2. ~(endOf(h) < boundary)
    BY <1>2, <1>8, <2>1 DEF WaitMissesNone
  <2>3. now <= endOf(h) + Lateness
    BY <1>1, <1>3, <2>1, <2>2 DEF boundary
  <2>4. n - (Retention \div S) <= h
    BY <1>1, <2>1, <2>3, CatchUpReaches DEF n
  <2>. QED
    BY <1>3, <1>4, <1>6, <1>8, <2>1, <2>3, <2>4 DEF OrNone
<1>9. EmitMissesNone'
  <2>1. \A h \in whole : endOf(h)' = endOf(h)
    BY DEF endOf
  <2>. QED
    BY <1>2, <1>5, <1>7, <1>8, <2>1 DEF EmitMissesNone
<1>10. WholeIsKept'
  BY <1>2 DEF WholeIsKept, endOf, InHour
<1>11. WaitMissesNone'
  BY DEF WaitMissesNone, Wake
<1>12. SeriesInv'
  BY SeriesOnWake
<1>. QED
  BY <1>9, <1>10, <1>11, <1>12

LEMMA CatchUpOnEmit == CatchUpInv /\ Emit => CatchUpInv'
<1>. SUFFICES ASSUME CatchUpInv, Emit PROVE CatchUpInv'
  OBVIOUS
<1>. USE DEF CatchUpInv, clock
<1>1. /\ hour \in Nat /\ newest \in Nat /\ hour <= newest /\ newest = HourOf(now) - 1
      /\ now \in Nat /\ lastHour \in OrNone(Nat) /\ pc = "emit" /\ up = "live"
  BY DEF SeriesInv, RunnerTypes, Emit, EmitsWhatIsOver, OrNone, None
<1>2. /\ lastHour' = Max({hour, lastHour}) /\ hour' = hour + 1 /\ pc' = "emit"
      /\ UNCHANGED <<now, up, marked, samples, left, newest, whole>>
  BY <1>1 DEF Emit, advance
<1>3. lastHour \in Int /\ lastHour' = IF hour >= lastHour THEN hour ELSE lastHour
  BY <1>1, <1>2, LaterOf DEF OrNone, None
<1>4. lastHour' \in Nat /\ lastHour' >= hour /\ lastHour' >= lastHour
  BY <1>1, <1>3 DEF OrNone, None
<1>5. hour' > newest' => lastHour' >= newest'
  BY <1>1, <1>2, <1>4
<1>6. ASSUME NEW h \in whole, h > lastHour' PROVE h >= hour' /\ now <= endOf(h) + Lateness
  <2>1. h \in Nat /\ h <= newest
    BY <1>1, WholeIsOver
  <2>2. h >= hour' /\ h > lastHour
    BY <1>1, <1>2, <1>3, <1>4, <1>6, <2>1
  <2>3. CASE lastHour = None
    BY <1>1, <1>2, <2>1, <2>2, <2>3 DEF EmitMissesNone
  <2>4. CASE lastHour # None
    BY <1>1, <2>2, <2>4 DEF EmitMissesNone
  <2>. QED
    BY <2>2, <2>3, <2>4
<1>7. EmitMissesNone'
  <2>1. lastHour' # None
    BY <1>4 DEF None
  <2>2. \A h \in whole : endOf(h)' = endOf(h)
    BY DEF endOf
  <2>. QED
    BY <1>2, <1>5, <1>6, <2>1, <2>2 DEF EmitMissesNone
<1>8. WholeIsKept'
  BY <1>2 DEF WholeIsKept, endOf, InHour
<1>9. WaitMissesNone'
  BY <1>2 DEF WaitMissesNone
<1>10. SeriesInv'
  BY SeriesOnEmit
<1>. QED
  BY <1>7, <1>8, <1>9, <1>10

LEMMA CatchUpOnEmitDone == CatchUpInv /\ EmitDone => CatchUpInv'
<1>. SUFFICES ASSUME CatchUpInv, EmitDone PROVE CatchUpInv'
  OBVIOUS
<1>. USE DEF CatchUpInv, clock
<1>1. /\ up = "live" /\ pc = "emit" /\ hour > newest
      /\ newest = HourOf(now) - 1 /\ lastHour \in OrNone(Nat) /\ now \in Nat
  BY DEF SeriesInv, RunnerTypes, EmitDone, EmitsWhatIsOver
<1>2. /\ pc' = "wait" /\ left' = untilNextHour(now)
      /\ UNCHANGED <<now, up, marked, samples, lastHour, newest, whole>>
  BY DEF EmitDone
<1>3. now + untilNextHour(now) = endOf(HourOf(now)) /\ HourOf(now) \in Nat
  BY <1>1, NextBoundary, Hours
<1>4. lastHour >= HourOf(now) - 1
  BY <1>1 DEF EmitMissesNone
<1>5. ASSUME NEW h \in Nat, h > lastHour PROVE ~(endOf(h) < now' + left')
  <2>1. h >= HourOf(now) /\ HourOf(now) \in Int
    BY <1>1, <1>3, <1>4, <1>5 DEF OrNone, None
  <2>2. endOf(HourOf(now)) <= endOf(h) /\ endOf(h) \in Int /\ endOf(HourOf(now)) \in Int
    BY <2>1, Ends
  <2>. QED
    BY <1>2, <1>3, <2>2
<1>6. WaitMissesNone'
  <2>1. \A h \in Nat : endOf(h)' = endOf(h)
    BY DEF endOf
  <2>. QED
    BY <1>1, <1>2, <1>4, <1>5, <2>1 DEF WaitMissesNone, boundary
<1>7. EmitMissesNone'
  BY <1>2 DEF EmitMissesNone
<1>8. WholeIsKept'
  BY <1>2 DEF WholeIsKept, endOf, InHour
<1>9. SeriesInv'
  BY SeriesOnEmitDone
<1>. QED
  BY <1>6, <1>7, <1>8, <1>9

LEMMA CatchUpOnCrash == CatchUpInv /\ Crash => CatchUpInv'
<1>. SUFFICES ASSUME CatchUpInv, Crash PROVE CatchUpInv'
  OBVIOUS
<1>1. up' = "backfill" /\ whole' = {}
  BY DEF Crash
<1>. QED
  BY <1>1, SeriesOnCrash DEF CatchUpInv, WholeIsKept, WaitMissesNone, EmitMissesNone

LEMMA CatchUpOnBackfilled == CatchUpInv /\ Backfilled => CatchUpInv'
<1>. SUFFICES ASSUME CatchUpInv, Backfilled PROVE CatchUpInv'
  OBVIOUS
<1>. USE DEF CatchUpInv, clock
<1>1. now \in Nat /\ now' = now /\ marked' = now /\ HourOf(now) \in Nat
  BY Hours DEF Backfilled, SeriesInv, RunnerTypes
<1>2. pc' = "wait" /\ newest' = None /\ whole' = {} /\ left' = untilNextHour(now)
  BY DEF Backfilled, SeriesInv, RunnerTypes
<1>3. now' + left' = endOf(HourOf(now))
  BY <1>1, <1>2, NextBoundary
<1>4. ASSUME NEW h \in Nat, endOf(h) < endOf(HourOf(now)) PROVE endOf(h) <= now
  <2>1. h <= HourOf(now) - 1
    BY <1>1, <1>4, Ends
  <2>. QED
    BY <1>1, <2>1, HoursOver
<1>5. WaitMissesNone'
  <2>1. \A h \in Nat : endOf(h)' = endOf(h)
    BY DEF endOf
  <2>. QED
    BY <1>1, <1>2, <1>3, <1>4, <2>1 DEF WaitMissesNone, boundary
<1>6. EmitMissesNone' /\ WholeIsKept'
  BY <1>2 DEF EmitMissesNone, WholeIsKept
<1>7. SeriesInv'
  BY SeriesOnBackfilled
<1>. QED
  BY <1>5, <1>6, <1>7

LEMMA CatchUpOnClock == CatchUpInv /\ AdvanceClock => CatchUpInv'
<1>. SUFFICES ASSUME CatchUpInv, AdvanceClock PROVE CatchUpInv'
  OBVIOUS
<1>. USE DEF CatchUpInv
<1>1. /\ now' = now + 1 /\ left' = left - 1
      /\ UNCHANGED <<up, marked, samples, lastHour, pc, newest, whole>>
      /\ pc = "wait" /\ now \in Nat /\ left \in Int
  BY DEF AdvanceClock, SeriesInv, RunnerTypes
<1>2. WholeIsKept'
  <2>. SUFFICES ASSUME NEW h \in whole
                PROVE  endOf(h) <= now + 1 /\ \A x \in InHour(h) : x >= marked - Retention => x \in samples
    BY <1>1 DEF WholeIsKept, endOf, InHour
  <2>1. endOf(h) \in Nat /\ endOf(h) <= now
    BY WholeIsOver
  <2>. QED
    BY <1>1, <2>1 DEF WholeIsKept
<1>3. now' + left' = boundary
  BY <1>1 DEF boundary
<1>4. WaitMissesNone'
  <2>1. \A h \in Nat : endOf(h)' = endOf(h)
    BY DEF endOf
  <2>. QED
    BY <1>1, <1>3, <2>1 DEF WaitMissesNone, boundary
<1>5. EmitMissesNone'
  BY <1>1 DEF EmitMissesNone
<1>6. SeriesInv'
  BY SeriesOnClock
<1>. QED
  BY <1>2, <1>4, <1>5, <1>6

LEMMA CatchUpStep ==
    ASSUME RetentionBridges, CatchUpInv, [Next]_vars PROVE CatchUpInv'
<1>1. CASE UNCHANGED vars
  <2>. USE DEF vars, clock, runner
  <2>1. (\A h \in Nat : endOf(h)' = endOf(h)) /\ boundary' = boundary /\ whole \subseteq Nat
    BY <1>1 DEF endOf, boundary, CatchUpInv, SeriesInv, RunnerTypes
  <2>2. WaitMissesNone'
    BY <1>1, <2>1 DEF CatchUpInv, WaitMissesNone
  <2>3. WholeIsKept'
    BY <1>1 DEF CatchUpInv, WholeIsKept, endOf, InHour
  <2>4. EmitMissesNone'
    BY <1>1, <2>1 DEF CatchUpInv, EmitMissesNone
  <2>5. SeriesInv'
    BY SeriesStep DEF CatchUpInv
  <2>. QED
    BY <2>2, <2>3, <2>4, <2>5 DEF CatchUpInv
<1>. QED
  BY <1>1, CatchUpOnSample, CatchUpOnWake, CatchUpOnEmit, CatchUpOnEmitDone, CatchUpOnCrash,
     CatchUpOnBackfilled, CatchUpOnClock DEF Next

-----------------------------------------------------------------------------
(* NoHourLeft.                                                             *)

(* An hour the samples were all taken of, no longer over than the timer    *)
(* may be late, still shows enough of them.                                *)
LEMMA EnoughAreKept ==
    ASSUME RetentionBridges, CatchUpInv, NEW h \in whole, now <= endOf(h) + Lateness
    PROVE  Cardinality(inHour(h)) >= MinSamples
<1>1. /\ S \in Nat /\ MinSamples \in Nat /\ MinSamples > 0 /\ MinSamples <= S /\ Retention \in Nat
      /\ Lateness \in Nat /\ Lateness + MinSamples <= Retention + 1
  BY FundingAssumption DEF RetentionBridges
<1>2. h \in Nat /\ endOf(h) \in Nat /\ marked \in Nat /\ marked <= now /\ now \in Nat
  BY WholeIsOver DEF CatchUpInv, SeriesInv, RunnerTypes
<1>3. InHour(h) = (endOf(h) - S + 1)..endOf(h)
  BY <1>2, InHourIs
<1>. DEFINE last == (endOf(h) - MinSamples + 1)..endOf(h)
<1>4. last \subseteq inHour(h)
  <2>. SUFFICES ASSUME NEW x \in last PROVE x \in inHour(h)
    OBVIOUS
  <2>1. x \in InHour(h)
    BY <1>1, <1>2, <1>3
  <2>2. x >= marked - Retention
    BY <1>1, <1>2
  <2>. QED
    BY <2>1, <2>2 DEF inHour, CatchUpInv, WholeIsKept
<1>5. IsFiniteSet(InHour(h))
  BY <1>1, <1>2, <1>3, FS_Interval
<1>6. IsFiniteSet(inHour(h))
  BY <1>5, FS_Subset DEF inHour
<1>7. Cardinality(last) = MinSamples
  <2>. DEFINE a == endOf(h) - MinSamples + 1
              b == endOf(h)
  <2>1. a \in Int /\ b \in Int /\ ~(a > b) /\ b - a + 1 = MinSamples
    BY <1>1, <1>2
  <2>2. last = a..b
    OBVIOUS
  <2>. HIDE DEF a, b, last
  <2>3. Cardinality(a..b) = MinSamples
    BY <2>1, FS_Interval
  <2>. QED
    BY <2>2, <2>3
<1>. HIDE DEF last
<1>8. Cardinality(last) <= Cardinality(inHour(h))
  BY <1>4, <1>6, FS_Subset
<1>9. Cardinality(inHour(h)) \in Nat
  BY <1>6, FS_CardinalityType
<1>. QED
  BY <1>1, <1>7, <1>8, <1>9

LEMMA EmitKeepsHours ==
    ASSUME RetentionBridges, CatchUpInv, Emit PROVE HoursKept
<1>. SUFFICES ASSUME lastHour # None,
                     NEW h \in (whole \ Closed) \cap (lastHour + 1)..lastHour'
              PROVE  h \in DOMAIN rows'
  BY DEF HoursKept
<1>1. /\ hour \in Nat /\ lastHour \in Nat /\ pc = "emit" /\ up = "live"
      /\ lastHour' = Max({hour, lastHour})
  BY DEF CatchUpInv, SeriesInv, RunnerTypes, Emit, advance, OrNone, None
<1>2. lastHour' = IF hour >= lastHour THEN hour ELSE lastHour
  BY <1>1, LaterOf
<1>3. h \in whole /\ h \notin Closed /\ h > lastHour /\ h <= hour
  BY <1>1, <1>2
<1>4. h = hour /\ now <= endOf(h) + Lateness
  <2>1. h >= hour /\ now <= endOf(h) + Lateness
    BY <1>1, <1>3 DEF CatchUpInv, EmitMissesNone
  <2>. QED
    BY <1>1, <1>3, <2>1
<1>5. emits(hour)
  BY <1>3, <1>4 DEF emits
<1>6. Cardinality(inHour(hour)) >= MinSamples
  BY <1>3, <1>4, EnoughAreKept
<1>7. rows' = insert(hour, RateForHour(hour))
  BY <1>5, <1>6 DEF Emit
<1>. QED
  BY <1>4, <1>7 DEF insert

LEMMA StepKeepsHours ==
    ASSUME RetentionBridges, CatchUpInv, [Next]_vars PROVE HoursKept
<1>1. ASSUME lastHour' = lastHour PROVE HoursKept
  <2>1. lastHour # None => lastHour \in Int
    BY DEF CatchUpInv, SeriesInv, RunnerTypes, OrNone
  <2>2. lastHour # None => (lastHour + 1)..lastHour = {}
    BY <2>1
  <2>. QED
    BY <1>1, <2>2 DEF HoursKept
<1>2. CASE Crash
  BY <1>2 DEF Crash, HoursKept
<1>3. CASE Backfilled
  BY <1>3 DEF Backfilled, HoursKept
<1>4. CASE Emit
  BY <1>4, EmitKeepsHours
<1>5. CASE Sample \/ Wake \/ EmitDone \/ AdvanceClock \/ UNCHANGED vars
  <2>1. lastHour' = lastHour
    BY <1>5 DEF Sample, Wake, EmitDone, AdvanceClock, vars, runner
  <2>. QED
    BY <1>1, <2>1
<1>. QED
  BY <1>2, <1>3, <1>4, <1>5 DEF Next

(* NoHourLeft for every value of the constants with which the retention    *)
(* outlasts the timer: an hour whose samples this process all saw has its  *)
(* row once the runner has passed it, whatever its catch-ups, gaps and     *)
(* restarts; and between two wakes the runner has dealt with every hour    *)
(* that was completed before the last (FundingRunner.Run, firstUnrecorded, *)
(* Emit, Observe).                                                         *)
THEOREM NoHourIsLeft == ASSUME RetentionBridges PROVE Spec => NoHourLeft
<1>1. Init => CatchUpInv
  BY CatchUpInit
<1>2. CatchUpInv /\ [Next]_vars => CatchUpInv'
  BY CatchUpStep
<1>3. CatchUpInv' => CaughtUp'
  BY DEF CatchUpInv, WaitMissesNone, CaughtUp
<1>4. CatchUpInv /\ [Next]_vars => [HoursKept /\ CaughtUp']_vars
  BY <1>2, <1>3, StepKeepsHours
<1>. QED
  BY <1>1, <1>2, <1>4, PTL DEF Spec, NoHourLeft

(* What the run checks is a part of this: a behaviour of SeriesSpec keeps  *)
(* the runner's variables where Spec lets them go.                         *)
THEOREM RunIsARunner == SeriesSpec => Spec
<1>1. SeriesInit => Init
  BY DEF SeriesInit
<1>2. [SeriesNext]_<<part, vars, marksVars, backfillVars>> => [Next]_vars
  BY DEF SeriesNext
<1>. QED
  BY <1>1, <1>2, PTL DEF Spec, SeriesSpec
-----------------------------------------------------------------------------
(* The backfill: the ranges it asks for, and what a finished run leaves.   *)

(* Induction over data: what holds at zero and is passed on holds up to n, *)
(* for otherwise there would be a least number without it.                 *)
LEMMA PassedOn ==
    ASSUME NEW n \in Nat, NEW P, 0 \in P, \A i \in 0..(n - 1) : i \in P => i + 1 \in P
    PROVE  \A i \in 0..n : i \in P
<1>. DEFINE Below == OpToRel(<, Nat)
            D     == {i \in 0..n : i \notin P}
<1>. SUFFICES ASSUME D # {} PROVE FALSE
  OBVIOUS
<1>1. IsWellFoundedOn(Below, Nat)
  BY NatLessThanWellFounded
<1>2. \A x, y \in Nat : y < x => <<y, x>> \in Below
  BY DEF OpToRel
<1>3. D \subseteq Nat
  OBVIOUS
<1>. HIDE DEF Below
<1>4. PICK d \in D : \A y \in D : ~(<<y, d>> \in Below)
  BY <1>1, <1>3, WFMin
<1>5. \A y \in D : ~(y < d)
  BY <1>2, <1>3, <1>4, Zenon
<1>6. d \in 0..n /\ d \notin P /\ d # 0
  OBVIOUS
<1>7. d - 1 \in 0..(n - 1) /\ d - 1 \in 0..n /\ d - 1 < d /\ d - 1 + 1 = d
  BY <1>6
<1>8. d - 1 \in P
  BY <1>5, <1>7
<1>. QED
  BY <1>6, <1>7, <1>8

LEMMA BackfillConstants == N \in Nat /\ N > 0 /\ PageLen \in Nat /\ PageLen > 0
  BY SeriesAssumption DEF K!BackfillAssumption

TimeRange == [from : Int, to : Int]
In(m, r) == r.from <= m /\ m < r.to

(* A range of minutes none of which is in P.                               *)
Missing(r, P) ==
    /\ r \in TimeRange /\ 0 <= r.from /\ r.from < r.to
    /\ \A m \in Int : In(m, r) => m \notin P

(* What missingRanges has of the first n minutes: closed ranges, one after *)
(* the other, at most one that is open up to n, and each missing minute.   *)
ScannedTo(acc, n, P) ==
    /\ acc.out \in Seq(TimeRange)
    /\ acc.open = <<>> \/ \E r \in TimeRange : acc.open = <<r>>
    /\ \A i \in DOMAIN acc.out : Missing(acc.out[i], P) /\ acc.out[i].to <= n
    /\ \A i \in DOMAIN acc.out : i > 1 => acc.out[i].from > acc.out[i - 1].to
    /\ acc.open = <<>> => \A i \in DOMAIN acc.out : acc.out[i].to < n
    /\ acc.open # <<>> =>
         /\ Missing(acc.open[1], P) /\ acc.open[1].to = n
         /\ \A i \in DOMAIN acc.out : acc.open[1].from > acc.out[i].to
    /\ \A m \in 0..(n - 1) \ P :
         \/ \E i \in DOMAIN acc.out : In(m, acc.out[i])
         \/ acc.open # <<>> /\ In(m, acc.open[1])

LEMMA ScanStep ==
    ASSUME NEW acc, NEW n \in Nat, NEW P, ScannedTo(acc, n, P)
    PROVE  ScannedTo(K!scan(acc, n, P), n + 1, P)
<1>. DEFINE after == K!scan(acc, n, P)
            out  == acc.out
<1>1. /\ out \in Seq(TimeRange) /\ Len(out) \in Nat /\ DOMAIN out = 1..Len(out)
      /\ \A i \in DOMAIN out : out[i] \in TimeRange /\ out[i].to <= n
  BY DEF ScannedTo
<1>2. CASE n \in P /\ acc.open = <<>>
  <2>1. after.out = out /\ after.open = <<>>
    BY <1>2 DEF K!scan
  <2>. HIDE DEF after, out
  <2>2. \A m \in 0..n \ P : m \in 0..(n - 1)
    BY <1>2
  <2>3. \A i \in DOMAIN out : out[i].to < n + 1 /\ out[i].to <= n + 1
    BY <1>1 DEF TimeRange
  <2>4. n + 1 - 1 = n
    OBVIOUS
  <2>5. /\ out \in Seq(TimeRange)
        /\ \A i \in DOMAIN out : Missing(out[i], P)
        /\ \A i \in DOMAIN out : i > 1 => out[i].from > out[i - 1].to
        /\ \A m \in 0..(n - 1) \ P : \E i \in DOMAIN out : In(m, out[i])
    BY <1>2 DEF ScannedTo, out
  <2>6. \A m \in 0..(n + 1 - 1) \ P : \E i \in DOMAIN out : In(m, out[i])
    BY <2>2, <2>4, <2>5
  <2>7. ScannedTo(after, n + 1, P)
    BY <2>1, <2>3, <2>5, <2>6 DEF ScannedTo
  <2>. QED
    BY <2>7 DEF after
<1>3. CASE n \in P /\ acc.open # <<>>
  <2>. DEFINE r == acc.open[1]
  <2>1. after.out = Append(out, r) /\ after.open = <<>>
    BY <1>3 DEF K!scan
  <2>2. Missing(r, P) /\ r \in TimeRange /\ r.to = n /\ \A i \in DOMAIN out : r.from > out[i].to
    BY <1>3 DEF ScannedTo, Missing
  <2>. DEFINE s == Append(out, r)
  <2>3. /\ s \in Seq(TimeRange) /\ Len(s) = Len(out) + 1 /\ DOMAIN s = 1..(Len(out) + 1)
        /\ s[Len(out) + 1] = r /\ \A i \in DOMAIN out : i \in DOMAIN s /\ s[i] = out[i]
    BY <1>1, <2>2
  <2>. HIDE DEF after, out, r, s
  <2>4. \A i \in DOMAIN s : i \in DOMAIN out \/ i = Len(out) + 1
    BY <1>1, <2>3
  <2>5. \A i \in DOMAIN s : Missing(s[i], P) /\ s[i].to < n + 1 /\ s[i].to <= n + 1
    <3>1. \A i \in DOMAIN out : Missing(out[i], P)
      BY DEF ScannedTo, out
    <3>2. \A i \in DOMAIN out : out[i].to < n + 1 /\ out[i].to <= n + 1
      BY <1>1 DEF TimeRange
    <3>3. n < n + 1 /\ n <= n + 1
      OBVIOUS
    <3>. QED
      BY <2>2, <2>3, <2>4, <3>1, <3>2, <3>3
  <2>6. \A i \in DOMAIN s : i > 1 => s[i].from > s[i - 1].to
    <3>. SUFFICES ASSUME NEW i \in DOMAIN s, i > 1 PROVE s[i].from > s[i - 1].to
      OBVIOUS
    <3>1. i - 1 \in DOMAIN out
      BY <1>1, <2>3
    <3>. QED
      BY <1>1, <2>2, <2>3, <2>4, <3>1 DEF ScannedTo, out
  <2>7. \A m \in 0..n \ P : \E i \in DOMAIN s : In(m, s[i])
    <3>. SUFFICES ASSUME NEW m \in 0..n \ P PROVE \E i \in DOMAIN s : In(m, s[i])
      OBVIOUS
    <3>1. m \in 0..(n - 1) \ P
      BY <1>3
    <3>2. (\E i \in DOMAIN out : In(m, out[i])) \/ In(m, r)
      BY <3>1 DEF ScannedTo, out, r
    <3>3. Len(out) + 1 \in DOMAIN s
      BY <1>1, <2>3
    <3>. QED
      BY <2>3, <3>2, <3>3
  <2>8. n + 1 - 1 = n
    OBVIOUS
  <2>9. ScannedTo(after, n + 1, P)
    BY <2>1, <2>3, <2>5, <2>6, <2>7, <2>8 DEF ScannedTo, s
  <2>. QED
    BY <2>9 DEF after
<1>4. CASE n \notin P
  <2>. DEFINE r == [from |-> IF acc.open = <<>> THEN n ELSE acc.open[1].from, to |-> n + 1]
  <2>1. after.out = out /\ after.open = <<r>>
    BY <1>4 DEF K!scan
  <2>2. acc.open # <<>> => /\ Missing(acc.open[1], P) /\ acc.open[1] \in TimeRange
                           /\ acc.open[1].to = n
                           /\ \A i \in DOMAIN out : acc.open[1].from > out[i].to
    BY DEF ScannedTo, Missing
  <2>3. r \in TimeRange /\ r.to = n + 1 /\ r.from = (IF acc.open = <<>> THEN n ELSE acc.open[1].from)
    BY <2>2 DEF TimeRange
  <2>4. 0 <= r.from /\ r.from <= n
    BY <2>2, <2>3 DEF Missing, TimeRange
  <2>. HIDE DEF after, out, r
  <2>5. \A m \in Int : In(m, r) => m = n \/ (acc.open # <<>> /\ In(m, acc.open[1]))
    BY <2>2, <2>3 DEF In, TimeRange
  <2>6. Missing(r, P)
    <3>1. \A m \in Int : In(m, r) => m \notin P
      BY <1>4, <2>2, <2>5 DEF Missing
    <3>2. r.from < r.to
      BY <2>3, <2>4 DEF TimeRange
    <3>. QED
      BY <2>3, <2>4, <3>1, <3>2 DEF Missing
  <2>7. \A i \in DOMAIN out : r.from > out[i].to
    BY <1>1, <2>2, <2>3 DEF ScannedTo, out, TimeRange
  <2>8. \A m \in 0..n \ P : (\E i \in DOMAIN out : In(m, out[i])) \/ In(m, r)
    <3>. SUFFICES ASSUME NEW m \in 0..n \ P
                  PROVE  (\E i \in DOMAIN out : In(m, out[i])) \/ In(m, r)
      OBVIOUS
    <3>1. CASE m = n
      BY <2>3, <2>4, <3>1 DEF In, TimeRange
    <3>2. CASE m # n
      <4>1. m \in 0..(n - 1) \ P
        BY <3>2
      <4>2. (\E i \in DOMAIN out : In(m, out[i])) \/ (acc.open # <<>> /\ In(m, acc.open[1]))
        BY <4>1 DEF ScannedTo, out
      <4>. QED
        BY <2>2, <2>3, <4>2 DEF In, TimeRange
    <3>. QED
      BY <3>1, <3>2
  <2>9. \A i \in DOMAIN out : out[i].to <= n + 1
    BY <1>1 DEF TimeRange
  <2>10. <<r>> # <<>> /\ <<r>>[1] = r /\ n + 1 - 1 = n
    OBVIOUS
  <2>11. ScannedTo(after, n + 1, P)
    BY <2>1, <2>3, <2>6, <2>7, <2>8, <2>9, <2>10 DEF ScannedTo, out
  <2>. QED
    BY <2>11 DEF after
<1>. QED
  BY <1>2, <1>3, <1>4

(* A recursive function is whatever satisfies its equation; that something *)
(* does is shown by extending what satisfies it up to n.                   *)
LEMMA ScanExists ==
    ASSUME NEW P
    PROVE  \E f : f = [n \in 0..N |->
                         IF n = 0 THEN [out |-> <<>>, open |-> <<>>] ELSE K!scan(f[n - 1], n - 1, P)]
<1>. DEFINE start == [out |-> <<>>, open |-> <<>>]
            Upto(f, n) == f = [i \in 0..n |-> IF i = 0 THEN start ELSE K!scan(f[i - 1], i - 1, P)]
            G == {n \in 0..N : \E f : Upto(f, n)}
<1>1. N \in Nat
  BY BackfillConstants
<1>2. 0 \in G
  <2>1. Upto([i \in 0..0 |-> start], 0)
    OBVIOUS
  <2>. HIDE DEF Upto
  <2>. QED
    BY <1>1, <2>1
<1>3. \A n \in 0..(N - 1) : n \in G => n + 1 \in G
  <2>. SUFFICES ASSUME NEW n \in 0..(N - 1), n \in G PROVE \E f : Upto(f, n + 1)
    BY <1>1
  <2>1. PICK f : Upto(f, n)
    OBVIOUS
  <2>. DEFINE g == [i \in 0..(n + 1) |-> IF i = n + 1 THEN K!scan(f[n], n, P) ELSE f[i]]
  <2>2. \A i \in 0..n : g[i] = f[i]
    OBVIOUS
  <2>3. ASSUME NEW i \in 0..(n + 1)
        PROVE  g[i] = IF i = 0 THEN start ELSE K!scan(g[i - 1], i - 1, P)
    <3>1. CASE i = n + 1
      <4>1. g[i] = K!scan(f[n], n, P) /\ i # 0 /\ i - 1 = n /\ g[n] = f[n]
        BY <3>1, <2>2
      <4>. QED
        BY <4>1
    <3>2. CASE i # n + 1
      <4>1. i \in 0..n /\ (i # 0 => i - 1 \in 0..n)
        BY <3>2
      <4>2. f[i] = IF i = 0 THEN start ELSE K!scan(f[i - 1], i - 1, P)
        BY <2>1, <4>1
      <4>. HIDE DEF g
      <4>. QED
        BY <2>2, <4>1, <4>2
    <3>. QED
      BY <3>1, <3>2
  <2>4. Upto(g, n + 1)
    <3>. DEFINE e == [i \in 0..(n + 1) |-> IF i = 0 THEN start ELSE K!scan(g[i - 1], i - 1, P)]
    <3>1. DOMAIN g = 0..(n + 1) /\ g = [i \in 0..(n + 1) |-> g[i]]
      OBVIOUS
    <3>. HIDE DEF g
    <3>2. e = [i \in 0..(n + 1) |-> g[i]]
      BY <2>3
    <3>. QED
      BY <3>1, <3>2
  <2>. QED
    BY <2>4
<1>4. \A n \in 0..N : n \in G
  <2>. HIDE DEF G
  <2>. QED
    BY <1>1, <1>2, <1>3, PassedOn
<1>. QED
  BY <1>1, <1>4

LEMMA ScannedIs == ASSUME NEW P PROVE ScannedTo(K!scanned(P), N, P)
<1>. DEFINE E(f) == f = [n \in 0..N |->
                           IF n = 0 THEN [out |-> <<>>, open |-> <<>>] ELSE K!scan(f[n - 1], n - 1, P)]
            upTo == CHOOSE f : E(f)
            G    == {n \in 0..N : ScannedTo(upTo[n], n, P)}
<1>1. N \in Nat
  BY BackfillConstants
<1>2. E(upTo)
  <2>1. \E f : E(f)
    BY ScanExists
  <2>. HIDE DEF E
  <2>. QED
    BY <2>1
<1>. HIDE DEF upTo
<1>3. \A n \in 0..N : upTo[n] = IF n = 0 THEN [out |-> <<>>, open |-> <<>>]
                                ELSE K!scan(upTo[n - 1], n - 1, P)
  BY <1>2
<1>4. 0 \in G
  <2>1. upTo[0].out = <<>> /\ upTo[0].open = <<>>
    BY <1>1, <1>3
  <2>2. <<>> \in Seq(TimeRange) /\ DOMAIN <<>> = {}
    OBVIOUS
  <2>3. 0..(0 - 1) = {}
    OBVIOUS
  <2>4. ScannedTo(upTo[0], 0, P)
    BY <2>1, <2>2, <2>3 DEF ScannedTo
  <2>. QED
    BY <1>1, <2>4
<1>5. \A n \in 0..(N - 1) : n \in G => n + 1 \in G
  <2>. SUFFICES ASSUME NEW n \in 0..(N - 1), ScannedTo(upTo[n], n, P)
                PROVE  ScannedTo(upTo[n + 1], n + 1, P)
    BY <1>1
  <2>1. upTo[n + 1] = K!scan(upTo[n], n, P)
    BY <1>1, <1>3
  <2>2. n \in Nat
    BY <1>1
  <2>. QED
    BY <2>1, <2>2, ScanStep
<1>6. \A n \in 0..N : n \in G
  <2>. HIDE DEF G
  <2>. QED
    BY <1>1, <1>4, <1>5, PassedOn
<1>7. ScannedTo(upTo[N], N, P)
  BY <1>1, <1>6
<1>8. K!scanned(P) = upTo[N]
  BY DEF K!scanned, upTo
<1>. QED
  BY <1>7, <1>8
(* What missingRanges returns: the ranges of missing minutes, one after    *)
(* the other, and every missing minute is in one.                          *)
Ordered(g) == \A i \in DOMAIN g : i > 1 => g[i].from > g[i - 1].to
LEMMA RangesAre ==
    ASSUME NEW P
    PROVE  LET g == K!missingRanges(P) IN
           /\ g \in Seq(TimeRange) /\ Ordered(g)
           /\ \A i \in DOMAIN g : Missing(g[i], P) /\ g[i].to <= N
           /\ \A m \in 0..(N - 1) \ P : \E i \in DOMAIN g : In(m, g[i])
<1>. DEFINE acc == K!scanned(P)
            out == acc.out
            g   == K!missingRanges(P)
<1>1. ScannedTo(acc, N, P) /\ N \in Nat
  BY ScannedIs, BackfillConstants
<1>2. g = out \o acc.open
  BY DEF K!missingRanges
<1>3. /\ out \in Seq(TimeRange) /\ Len(out) \in Nat /\ DOMAIN out = 1..Len(out)
      /\ \A i \in DOMAIN out : Missing(out[i], P) /\ out[i].to <= N
      /\ Ordered(out)
  BY <1>1 DEF ScannedTo, Ordered
<1>4. CASE acc.open = <<>>
  <2>1. g = out
    BY <1>2, <1>3, <1>4
  <2>2. \A m \in 0..(N - 1) \ P : \E i \in DOMAIN out : In(m, out[i])
    BY <1>1, <1>4 DEF ScannedTo
  <2>. HIDE DEF g, out
  <2>. QED
    BY <1>3, <2>1, <2>2 DEF g
<1>5. CASE acc.open # <<>>
  <2>1. PICK r \in TimeRange : acc.open = <<r>>
    BY <1>1, <1>5 DEF ScannedTo
  <2>2. acc.open[1] = r
    BY <2>1
  <2>3. Missing(r, P) /\ r.to = N /\ \A i \in DOMAIN out : r.from > out[i].to
    BY <1>1, <1>5, <2>2 DEF ScannedTo
  <2>. DEFINE s == out \o <<r>>
  <2>4. /\ s \in Seq(TimeRange) /\ Len(s) = Len(out) + 1 /\ DOMAIN s = 1..(Len(out) + 1)
        /\ s[Len(out) + 1] = r /\ \A i \in DOMAIN out : i \in DOMAIN s /\ s[i] = out[i]
    BY <1>3, <2>1
  <2>5. g = s
    BY <1>2, <2>1
  <2>6. \A m \in 0..(N - 1) \ P : (\E i \in DOMAIN out : In(m, out[i])) \/ In(m, r)
    BY <1>1, <2>2 DEF ScannedTo
  <2>. HIDE DEF g, out, s
  <2>7. \A i \in DOMAIN s : i \in DOMAIN out \/ i = Len(out) + 1
    BY <1>3, <2>4
  <2>8. \A i \in DOMAIN s : Missing(s[i], P) /\ s[i].to <= N
    BY <1>1, <1>3, <2>3, <2>4, <2>7
  <2>9. Ordered(s)
    <3>. SUFFICES ASSUME NEW i \in DOMAIN s, i > 1 PROVE s[i].from > s[i - 1].to
      BY DEF Ordered
    <3>1. i - 1 \in DOMAIN out
      BY <1>3, <2>4
    <3>. QED
      BY <1>3, <2>3, <2>4, <2>7, <3>1 DEF Ordered
  <2>10. \A m \in 0..(N - 1) \ P : \E i \in DOMAIN s : In(m, s[i])
    <3>1. Len(out) + 1 \in DOMAIN s
      BY <1>3, <2>4
    <3>. QED
      BY <2>4, <2>6, <3>1
  <2>. QED
    BY <2>4, <2>5, <2>8, <2>9, <2>10 DEF g
<1>. QED
  BY <1>4, <1>5

-----------------------------------------------------------------------------
(* The inductive invariant of the backfill.                                *)

BackfillTypes ==
    /\ bpc \in {"down", "gather", "funding", "done"} /\ failed \in BOOLEAN
    /\ venue \in [K!Products -> SUBSET K!Minutes] /\ bars \in [K!Products -> SUBSET K!Minutes]
    /\ have \in [K!Products -> SUBSET K!Minutes]
    /\ venue["spot"] = K!Minutes
    /\ gaps \in Seq(TimeRange) /\ todo \subseteq K!Products
    /\ product \in K!Products \cup {"none"} /\ to \in Int /\ fetched \subseteq K!Minutes

(* What a run has it has stored, and it forgets that only by dying.        *)
HeldIsStored == \A p \in K!Products : have[p] \subseteq bars[p]

(* The ranges still to fetch; of the first the spot half may be done.      *)
Due(i) == i \in DOMAIN gaps /\ (i > 1 \/ "spot" \in todo)
GapsAreDue ==
    bpc = "gather" =>
        /\ todo # {} /\ Ordered(gaps)
        /\ \A i \in DOMAIN gaps : 0 <= gaps[i].from /\ gaps[i].from < gaps[i].to /\ gaps[i].to <= N
        /\ \A i \in DOMAIN gaps : Due(i) => \A m \in Int : In(m, gaps[i]) => m \notin have["spot"]
        /\ ~failed => \A m \in K!Minutes \ have["spot"] : \E i \in DOMAIN gaps : Due(i) /\ In(m, gaps[i])

(* The pages of one call, from the end of the range down to to.            *)
PagesFromTheEnd ==
    product # "none" =>
        /\ bpc = "gather" /\ product \in todo /\ gaps # <<>>
        /\ to <= gaps[1].to /\ \A m \in fetched : In(m, gaps[1])
        /\ product = "spot" /\ ~failed => \A m \in Int : In(m, gaps[1]) /\ m >= to => m \in fetched

FinishedIsWhole == bpc \in {"funding", "done"} /\ ~failed => have["spot"] = K!Minutes

BackfillInv ==
    BackfillTypes /\ HeldIsStored /\ GapsAreDue /\ PagesFromTheEnd /\ FinishedIsWhole

LEMMA BackfillInit == K!Init => BackfillInv
<1>. SUFFICES ASSUME K!Init PROVE BackfillInv
  OBVIOUS
<1>1. PICK t \in PerpTrades, covered \in SUBSET K!Minutes :
          /\ venue = [perp |-> t, spot |-> K!Minutes]
          /\ bars = [p \in K!Products |-> venue[p] \cap covered]
  BY DEF K!Init
<1>2. t \subseteq K!Minutes
  BY <1>1, SeriesAssumption DEF K!BackfillAssumption, K!Minutes
<1>3. venue \in [K!Products -> SUBSET K!Minutes] /\ venue["spot"] = K!Minutes
  BY <1>1, <1>2 DEF K!Products
<1>4. bars \in [K!Products -> SUBSET K!Minutes]
  BY <1>1, <1>3
<1>5. have \in [K!Products -> SUBSET K!Minutes] /\ \A p \in K!Products : have[p] = {}
  BY DEF K!Init
<1>6. gaps \in Seq(TimeRange) /\ todo = {} /\ product = "none" /\ to = 0 /\ fetched = {}
      /\ bpc = "down" /\ failed = FALSE
  BY DEF K!Init
<1>7. BackfillTypes
  <2>1. to \in Int /\ fetched \subseteq K!Minutes
    BY <1>6
  <2>4. failed \in BOOLEAN
    BY <1>6, Zenon
  <2>2. product \in K!Products \cup {"none"} /\ todo \subseteq K!Products
    BY <1>6
  <2>3. bpc \in {"down", "gather", "funding", "done"}
    BY <1>6
  <2>. QED
    BY <1>3, <1>4, <1>5, <1>6, <2>1, <2>2, <2>3, <2>4 DEF BackfillTypes
<1>8. HeldIsStored
  BY <1>5 DEF HeldIsStored
<1>. QED
  BY <1>6, <1>7, <1>8 DEF BackfillInv, GapsAreDue, PagesFromTheEnd, FinishedIsWhole

LEMMA SpotIsAProduct == "spot" \in K!Products /\ "perp" \in K!Products /\ "none" \notin K!Products
BY DEF K!Products

(* Coverage is judged on the spot candles stored.                          *)
LEMMA BackfillStart == BackfillInv /\ K!Start => BackfillInv'
<1>. SUFFICES ASSUME BackfillInv, K!Start PROVE BackfillInv'
  OBVIOUS
<1>1. /\ gaps' = K!missingRanges(bars["spot"]) /\ have' = bars /\ failed' = FALSE
      /\ todo' = K!Products /\ product' = "none" /\ to' = 0 /\ fetched' = {} /\ bpc' = "gather"
      /\ venue' = venue /\ bars' = bars
  BY DEF K!Start
<1>. DEFINE g == K!missingRanges(bars["spot"])
<1>2. /\ g \in Seq(TimeRange) /\ Ordered(g)
      /\ \A i \in DOMAIN g : Missing(g[i], bars["spot"]) /\ g[i].to <= N
      /\ \A m \in 0..(N - 1) \ bars["spot"] : \E i \in DOMAIN g : In(m, g[i])
  BY RangesAre
<1>. HIDE DEF g
<1>3. gaps' = g
  BY <1>1 DEF g
<1>4. BackfillTypes'
  <2>1. gaps' \in Seq(TimeRange)
    BY <1>2, <1>3
  <2>2. to' \in Int /\ fetched' \subseteq K!Minutes
    BY <1>1
  <2>6. failed' \in BOOLEAN
    BY <1>1, Zenon
  <2>3. product' \in K!Products \cup {"none"} /\ todo' \subseteq K!Products
    BY <1>1
  <2>4. bpc' \in {"down", "gather", "funding", "done"}
    BY <1>1
  <2>5. /\ venue' \in [K!Products -> SUBSET K!Minutes] /\ bars' \in [K!Products -> SUBSET K!Minutes]
        /\ have' \in [K!Products -> SUBSET K!Minutes] /\ venue'["spot"] = K!Minutes
    BY <1>1 DEF BackfillInv, BackfillTypes
  <2>. QED
    BY <2>1, <2>2, <2>3, <2>4, <2>5, <2>6 DEF BackfillTypes
<1>5. HeldIsStored'
  BY <1>1 DEF HeldIsStored
<1>6. GapsAreDue'
  <2>1. \A i \in DOMAIN g : Due(i)'
    BY <1>1, <1>3, SpotIsAProduct DEF Due
  <2>2. \A i \in DOMAIN g : /\ 0 <= g[i].from /\ g[i].from < g[i].to /\ g[i].to <= N
                            /\ \A m \in Int : In(m, g[i]) => m \notin bars["spot"]
    BY <1>2 DEF Missing
  <2>3. \A m \in K!Minutes \ bars["spot"] : \E i \in DOMAIN g : In(m, g[i])
    BY <1>2 DEF K!Minutes
  <2>. QED
    BY <1>1, <1>2, <1>3, <2>1, <2>2, <2>3, SpotIsAProduct DEF GapsAreDue
<1>7. PagesFromTheEnd' /\ FinishedIsWhole'
  BY <1>1 DEF PagesFromTheEnd, FinishedIsWhole
<1>. QED
  BY <1>4, <1>5, <1>6, <1>7 DEF BackfillInv

LEMMA BackfillFetchBegin == BackfillInv /\ K!FetchBegin => BackfillInv'
<1>. SUFFICES ASSUME BackfillInv, K!FetchBegin PROVE BackfillInv'
  OBVIOUS
<1>1. /\ bpc = "gather" /\ gaps # <<>> /\ product' \in todo
      /\ to' = gaps[1].to /\ fetched' = {}
      /\ UNCHANGED <<venue, bars, bpc, have, gaps, todo, failed>>
  BY DEF K!FetchBegin
<1>2. gaps[1] \in TimeRange /\ 1 \in DOMAIN gaps
  BY <1>1 DEF BackfillInv, BackfillTypes
<1>3. BackfillTypes'
  <2>1. to' \in Int /\ fetched' \subseteq K!Minutes
    BY <1>1, <1>2 DEF TimeRange
  <2>2. product' \in K!Products
    BY <1>1 DEF BackfillInv, BackfillTypes
  <2>. QED
    BY <1>1, <2>1, <2>2 DEF BackfillInv, BackfillTypes
<1>4. HeldIsStored' /\ FinishedIsWhole'
  BY <1>1 DEF BackfillInv, HeldIsStored, FinishedIsWhole
<1>5. GapsAreDue'
  BY <1>1 DEF BackfillInv, GapsAreDue, Due
<1>6. PagesFromTheEnd'
  <2>1. \A m \in Int : ~(In(m, gaps[1]) /\ m >= to')
    BY <1>1, <1>2 DEF In, TimeRange
  <2>2. to' <= gaps[1].to
    BY <1>1, <1>2 DEF TimeRange
  <2>. QED
    BY <1>1, <2>1, <2>2 DEF PagesFromTheEnd
<1>. QED
  BY <1>3, <1>4, <1>5, <1>6 DEF BackfillInv

LEMMA PageFromIs ==
    ASSUME BackfillInv, gaps # <<>>
    PROVE  K!pageFrom = IF to - PageLen >= gaps[1].from THEN to - PageLen ELSE gaps[1].from
<1>1. gaps[1].from \in Int /\ to - PageLen \in Int
  <2>1. gaps[1] \in TimeRange /\ to \in Int
    BY DEF BackfillInv, BackfillTypes
  <2>. QED
    BY <2>1, BackfillConstants DEF TimeRange
<1>. DEFINE a == to - PageLen
            b == gaps[1].from
<1>2. K!pageFrom = K!Max({a, b})
  <2>1. Head(gaps) = gaps[1]
    BY DEF BackfillInv, BackfillTypes
  <2>. QED
    BY <2>1, Zenon DEF K!pageFrom
<1>. HIDE DEF a, b
<1>3. a \in Int /\ b \in Int
  BY <1>1 DEF a, b
<1>4. (IF a >= b THEN a ELSE b) \in {a, b} /\ \A y \in {a, b} : (IF a >= b THEN a ELSE b) >= y
  BY <1>3
<1>5. K!Max({a, b}) \in {a, b} /\ \A y \in {a, b} : K!Max({a, b}) >= y
  BY <1>4 DEF K!Max
<1>6. K!Max({a, b}) = IF a >= b THEN a ELSE b
  BY <1>3, <1>5
<1>. QED
  BY <1>2, <1>6 DEF a, b

LEMMA BackfillFetchPage == BackfillInv /\ K!FetchPage => BackfillInv'
<1>. SUFFICES ASSUME BackfillInv, K!FetchPage PROVE BackfillInv'
  OBVIOUS
<1>1. /\ bpc = "gather" /\ product # "none" /\ to > gaps[1].from /\ to' = to - PageLen
      /\ UNCHANGED <<venue, bars, bpc, have, gaps, todo, product>>
  BY DEF K!FetchPage
<1>2. \/ /\ fetched' = fetched \cup {m \in venue[product] : m >= K!pageFrom /\ m < to}
         /\ failed' = failed
      \/ failed' = TRUE /\ fetched' = fetched
  BY DEF K!FetchPage
<1>3. /\ gaps # <<>> /\ product \in todo /\ product \in K!Products
      /\ \A m \in fetched : In(m, gaps[1])
  BY <1>1 DEF BackfillInv, BackfillTypes, PagesFromTheEnd
<1>4. gaps[1] \in TimeRange /\ to \in Int /\ 1 \in DOMAIN gaps /\ PageLen \in Nat
  BY <1>3, BackfillConstants DEF BackfillInv, BackfillTypes
<1>5. venue[product] \subseteq K!Minutes /\ K!Minutes \subseteq Int
  BY <1>3 DEF BackfillInv, BackfillTypes, K!Minutes
<1>6. BackfillTypes'
  <2>1. to' \in Int
    BY <1>1, <1>4
  <2>2. fetched' \subseteq K!Minutes
    BY <1>2, <1>5 DEF BackfillInv, BackfillTypes
  <2>3. failed' \in BOOLEAN
    BY <1>2 DEF BackfillInv, BackfillTypes
  <2>. QED
    BY <1>1, <2>1, <2>2, <2>3 DEF BackfillInv, BackfillTypes
<1>7. failed' = FALSE => failed = FALSE
  BY <1>2
<1>8. HeldIsStored' /\ FinishedIsWhole'
  BY <1>1, <1>7 DEF BackfillInv, HeldIsStored, FinishedIsWhole
<1>9. GapsAreDue'
  BY <1>1, <1>2 DEF BackfillInv, GapsAreDue, Due
<1>10. PagesFromTheEnd'
  <2>1. K!pageFrom = IF to - PageLen >= gaps[1].from THEN to - PageLen ELSE gaps[1].from
    BY <1>3, PageFromIs
  <2>2. to <= gaps[1].to
    BY <1>1 DEF BackfillInv, PagesFromTheEnd
  <2>3. \A m \in fetched' : In(m, gaps[1])
    <3>1. \A m \in venue[product] : m >= K!pageFrom /\ m < to => In(m, gaps[1])
      <4>. SUFFICES ASSUME NEW m \in venue[product], m >= K!pageFrom, m < to PROVE In(m, gaps[1])
        OBVIOUS
      <4>1. m \in Int /\ gaps[1].from \in Int /\ gaps[1].to \in Int
        BY <1>4, <1>5 DEF TimeRange
      <4>2. m >= gaps[1].from
        BY <1>4, <2>1, <4>1
      <4>3. m < gaps[1].to
        BY <1>4, <2>2, <4>1
      <4>. QED
        BY <4>1, <4>2, <4>3 DEF In
    <3>. QED
      BY <1>2, <1>3, <3>1
  <2>4. ASSUME product = "spot", failed' = FALSE, NEW m \in Int, In(m, gaps[1]), m >= to'
        PROVE  m \in fetched'
    <3>1. \A x \in Int : In(x, gaps[1]) /\ x >= to => x \in fetched
      BY <1>1, <1>7, <2>4 DEF BackfillInv, PagesFromTheEnd
    <3>2. CASE m >= to
      BY <1>2, <2>4, <3>1, <3>2
    <3>3. CASE m < to
      <4>1. m \in K!Minutes /\ venue[product] = K!Minutes
        <5>1. 0 <= gaps[1].from /\ gaps[1].to <= N
          BY <1>1, <1>4 DEF BackfillInv, GapsAreDue
        <5>2. N \in Nat
          BY BackfillConstants
        <5>. QED
          BY <1>4, <2>4, <5>1, <5>2 DEF In, TimeRange, K!Minutes, BackfillInv, BackfillTypes
      <4>2. m >= K!pageFrom
        BY <1>1, <1>4, <2>1, <2>4 DEF In, TimeRange
      <4>. QED
        BY <1>2, <2>4, <3>3, <4>1, <4>2
    <3>. QED
      BY <1>4, <3>2, <3>3
  <2>5. to' <= gaps[1].to
    BY <1>1, <1>4, <2>2 DEF TimeRange
  <2>6. failed' \in BOOLEAN
    BY <1>6 DEF BackfillTypes
  <2>7. product' = "spot" /\ ~failed' =>
            \A m \in Int : In(m, gaps'[1]) /\ m >= to' => m \in fetched'
    BY <1>1, <2>4, <2>6
  <2>. QED
    BY <1>1, <1>3, <2>3, <2>5, <2>7 DEF PagesFromTheEnd
<1>. QED
  BY <1>6, <1>8, <1>9, <1>10 DEF BackfillInv
(* A call that is over has the whole range, unless a page failed.          *)
LEMMA BackfillFetchStore == BackfillInv /\ K!FetchStore => BackfillInv'
<1>. SUFFICES ASSUME BackfillInv, K!FetchStore PROVE BackfillInv'
  OBVIOUS
<1>1. /\ bpc = "gather" /\ product # "none" /\ to <= gaps[1].from
      /\ have' = [have EXCEPT ![product] = @ \cup fetched]
      /\ bars' = [bars EXCEPT ![product] = @ \cup fetched]
      /\ product' = "none" /\ fetched' = {} /\ to' = 0
      /\ UNCHANGED <<venue, bpc, failed>>
  BY DEF K!FetchStore, K!recorded
<1>2. IF todo = {product} THEN gaps' = Tail(gaps) /\ todo' = K!Products
                          ELSE todo' = todo \ {product} /\ gaps' = gaps
  BY DEF K!FetchStore
<1>3. /\ gaps # <<>> /\ product \in todo /\ product \in K!Products
      /\ gaps \in Seq(TimeRange) /\ Len(gaps) \in Nat /\ DOMAIN gaps = 1..Len(gaps) /\ 1 \in DOMAIN gaps
      /\ gaps[1] \in TimeRange /\ to \in Int /\ fetched \subseteq K!Minutes
      /\ have \in [K!Products -> SUBSET K!Minutes] /\ bars \in [K!Products -> SUBSET K!Minutes]
      /\ todo \subseteq K!Products /\ K!Minutes \subseteq Int
  BY <1>1 DEF BackfillInv, BackfillTypes, PagesFromTheEnd, K!Minutes
<1>4. /\ have' \in [K!Products -> SUBSET K!Minutes] /\ bars' \in [K!Products -> SUBSET K!Minutes]
      /\ \A p \in K!Products : have'[p] = have[p] \cup (IF p = product THEN fetched ELSE {})
      /\ \A p \in K!Products : bars'[p] = bars[p] \cup (IF p = product THEN fetched ELSE {})
  BY <1>1, <1>3
<1>5. BackfillTypes'
  <2>1. gaps' \in Seq(TimeRange) /\ todo' \subseteq K!Products
    BY <1>2, <1>3
  <2>. QED
    BY <1>1, <1>4, <2>1 DEF BackfillInv, BackfillTypes
<1>6. HeldIsStored'
  BY <1>4 DEF BackfillInv, HeldIsStored
<1>7. FinishedIsWhole' /\ PagesFromTheEnd'
  BY <1>1 DEF FinishedIsWhole, PagesFromTheEnd
<1>8. GapsAreDue'
  <2>. DEFINE spot == have["spot"]
  <2>1. /\ Ordered(gaps)
        /\ \A i \in DOMAIN gaps : /\ 0 <= gaps[i].from /\ gaps[i].from < gaps[i].to /\ gaps[i].to <= N
                                  /\ gaps[i] \in TimeRange
        /\ \A i \in DOMAIN gaps : Due(i) => \A m \in Int : In(m, gaps[i]) => m \notin spot
        /\ ~failed => \A m \in K!Minutes \ spot : \E i \in DOMAIN gaps : Due(i) /\ In(m, gaps[i])
    BY <1>1, <1>3 DEF BackfillInv, GapsAreDue
  <2>2. have'["spot"] = spot \cup (IF "spot" = product THEN fetched ELSE {})
    BY <1>4, SpotIsAProduct
  <2>3. \A m \in fetched : In(m, gaps[1])
    BY <1>1 DEF BackfillInv, PagesFromTheEnd
  <2>4. product = "spot" /\ ~failed => \A m \in Int : In(m, gaps[1]) => m \in fetched
    <3>1. product = "spot" /\ ~failed => \A m \in Int : In(m, gaps[1]) /\ m >= to => m \in fetched
      BY <1>1 DEF BackfillInv, PagesFromTheEnd
    <3>2. \A m \in Int : In(m, gaps[1]) => m >= to
      BY <1>1, <1>3 DEF In, TimeRange
    <3>. QED
      BY <3>1, <3>2
  <2>5. ASSUME NEW i \in DOMAIN gaps, i > 1, NEW m \in Int, In(m, gaps[i]) PROVE ~In(m, gaps[1])
    <3>. DEFINE P == {j \in 1..Len(gaps) : j > 1 => gaps[j].from > gaps[1].to}
    <3>1. 0 \in {j - 1 : j \in P}
      BY <1>3
    <3>2. \A j \in 0..(Len(gaps) - 1 - 1) : j \in {x - 1 : x \in P} => j + 1 \in {x - 1 : x \in P}
      <4>. SUFFICES ASSUME NEW j \in 0..(Len(gaps) - 1 - 1), j + 1 \in P PROVE j + 2 \in P
        BY <1>3
      <4>1. j + 1 \in DOMAIN gaps /\ j + 2 \in DOMAIN gaps /\ j + 2 > 1 /\ j + 2 - 1 = j + 1
        BY <1>3
      <4>2. gaps[j + 2].from > gaps[j + 1].to
        BY <2>1, <4>1 DEF Ordered
      <4>3. gaps[j + 1].to >= gaps[1].to
        <5>1. CASE j + 1 = 1
          BY <1>3, <5>1 DEF TimeRange
        <5>2. CASE j + 1 # 1
          <6>1. gaps[j + 1].from > gaps[1].to
            BY <5>2
          <6>. QED
            BY <1>3, <2>1, <4>1, <6>1 DEF TimeRange
        <5>. QED
          BY <5>1, <5>2
      <4>4. gaps[j + 2].from > gaps[1].to
        <5>1. gaps[j + 2] \in TimeRange /\ gaps[j + 1] \in TimeRange
          BY <2>1, <4>1
        <5>2. gaps[j + 2].from \in Int /\ gaps[j + 1].to \in Int /\ gaps[1].to \in Int
          BY <1>3, <5>1 DEF TimeRange
        <5>. DEFINE x == gaps[j + 2].from
                    y == gaps[j + 1].to
                    z == gaps[1].to
        <5>3. x \in Int /\ y \in Int /\ z \in Int /\ x > y /\ y >= z
          BY <4>2, <4>3, <5>2
        <5>. HIDE DEF x, y, z
        <5>4. x > z
          BY <5>3
        <5>. QED
          BY <5>4 DEF x, z
      <4>. QED
        BY <1>3, <4>1, <4>4
    <3>3. Len(gaps) - 1 \in Nat
      BY <1>3
    <3>4. i - 1 \in 0..(Len(gaps) - 1)
      BY <1>3
    <3>. HIDE DEF P
    <3>5. i - 1 \in {x - 1 : x \in P}
      BY <3>1, <3>2, <3>3, <3>4, PassedOn
    <3>6. i \in P
      BY <1>3, <3>5 DEF P
    <3>7. gaps[i].from > gaps[1].to
      BY <2>5, <3>6 DEF P
    <3>. QED
      BY <1>3, <2>1, <2>5, <3>7 DEF In, TimeRange
  <2>6. ASSUME NEW i \in DOMAIN gaps, i > 1 \/ "spot" \in todo \ {product}
        PROVE  \A m \in Int : In(m, gaps[i]) => m \notin have'["spot"]
    <3>. SUFFICES ASSUME NEW m \in Int, In(m, gaps[i]) PROVE m \notin have'["spot"]
      OBVIOUS
    <3>1. m \notin spot
      BY <2>1, <2>6 DEF Due
    <3>2. CASE product # "spot"
      BY <2>2, <3>1, <3>2
    <3>3. CASE product = "spot"
      <4>1. ~In(m, gaps[1])
        BY <2>5, <2>6, <3>3
      <4>. QED
        BY <2>2, <2>3, <3>1, <4>1
    <3>. QED
      BY <3>2, <3>3
  <2>7. ASSUME ~failed, NEW m \in K!Minutes \ have'["spot"]
        PROVE  \E i \in DOMAIN gaps : (i > 1 \/ "spot" \in todo \ {product}) /\ In(m, gaps[i])
    <3>1. PICK i \in DOMAIN gaps : Due(i) /\ In(m, gaps[i])
      BY <2>1, <2>2, <2>7
    <3>2. CASE i > 1
      BY <3>1, <3>2
    <3>3. CASE i = 1
      <4>1. product # "spot"
        BY <1>3, <2>2, <2>4, <2>7, <3>1, <3>3
      <4>2. "spot" \in todo
        BY <3>1, <3>3 DEF Due
      <4>. QED
        BY <3>1, <4>1, <4>2
    <3>. QED
      BY <1>3, <3>2, <3>3
  <2>. HIDE DEF spot
  <2>8. CASE todo = {product}
    <3>1. /\ gaps' = Tail(gaps) /\ todo' = K!Products
          /\ DOMAIN gaps' = 1..(Len(gaps) - 1)
          /\ \A i \in DOMAIN gaps' : i + 1 \in DOMAIN gaps /\ gaps'[i] = gaps[i + 1]
      BY <1>2, <1>3, <2>8
    <3>2. Ordered(gaps')
      <4>. SUFFICES ASSUME NEW i \in DOMAIN gaps', i > 1 PROVE gaps'[i].from > gaps'[i - 1].to
        BY DEF Ordered
      <4>1. i - 1 \in DOMAIN gaps' /\ i - 1 + 1 = i /\ i + 1 > 1 /\ i + 1 - 1 = i
        BY <1>3, <3>1
      <4>2. gaps[i + 1].from > gaps[i].to
        BY <2>1, <3>1, <4>1 DEF Ordered
      <4>. QED
        BY <3>1, <4>1, <4>2
    <3>3. \A i \in DOMAIN gaps' : /\ 0 <= gaps'[i].from /\ gaps'[i].from < gaps'[i].to
                                  /\ gaps'[i].to <= N
      BY <2>1, <3>1
    <3>4. \A i \in DOMAIN gaps' : \A m \in Int : In(m, gaps'[i]) => m \notin have'["spot"]
      <4>. SUFFICES ASSUME NEW i \in DOMAIN gaps'
                    PROVE  \A m \in Int : In(m, gaps'[i]) => m \notin have'["spot"]
        OBVIOUS
      <4>1. i + 1 > 1 /\ i + 1 \in DOMAIN gaps /\ gaps'[i] = gaps[i + 1]
        BY <1>3, <3>1
      <4>. QED
        BY <2>6, <4>1
    <3>5. ASSUME ~failed, NEW m \in K!Minutes \ have'["spot"]
          PROVE  \E i \in DOMAIN gaps' : In(m, gaps'[i])
      <4>1. PICK i \in DOMAIN gaps : i > 1 /\ In(m, gaps[i])
        BY <2>7, <2>8, <3>5
      <4>2. i - 1 \in DOMAIN gaps' /\ i - 1 + 1 = i
        BY <1>3, <3>1, <4>1
      <4>. QED
        BY <3>1, <4>1, <4>2
    <3>6. \A i \in DOMAIN gaps' : Due(i)'
      BY <3>1, SpotIsAProduct DEF Due
    <3>. QED
      BY <1>1, <3>1, <3>2, <3>3, <3>4, <3>5, <3>6, SpotIsAProduct DEF GapsAreDue
  <2>9. CASE todo # {product}
    <3>1. todo' = todo \ {product} /\ gaps' = gaps /\ todo' # {}
      BY <1>2, <1>3, <2>9
    <3>2. \A i : Due(i)' <=> i \in DOMAIN gaps /\ (i > 1 \/ "spot" \in todo \ {product})
      BY <3>1 DEF Due
    <3>3. \A i \in DOMAIN gaps : Due(i)' => \A m \in Int : In(m, gaps[i]) => m \notin have'["spot"]
      BY <2>6, <3>2
    <3>4. ~failed => \A m \in K!Minutes \ have'["spot"] : \E i \in DOMAIN gaps : Due(i)' /\ In(m, gaps[i])
      BY <2>7, <3>2
    <3>. QED
      BY <1>1, <2>1, <3>1, <3>3, <3>4 DEF GapsAreDue
  <2>. QED
    BY <2>8, <2>9
<1>. QED
  BY <1>5, <1>6, <1>7, <1>8 DEF BackfillInv

LEMMA BackfillStep == BackfillInv /\ [K!Next]_backfillVars => BackfillInv'
<1>. SUFFICES ASSUME BackfillInv, [K!Next]_backfillVars PROVE BackfillInv'
  OBVIOUS
<1>. USE DEF BackfillInv, BackfillTypes, HeldIsStored, GapsAreDue, Due, PagesFromTheEnd, FinishedIsWhole
<1>1. CASE K!BeginFunding
  <2>1. /\ gaps = <<>> /\ bpc' = "funding" /\ bpc = "gather"
        /\ UNCHANGED <<venue, bars, have, gaps, todo, product, to, fetched, failed>>
    BY <1>1 DEF K!BeginFunding, K!fetching
  <2>2. ~failed => have["spot"] = K!Minutes
    <3>1. have["spot"] \subseteq K!Minutes /\ DOMAIN gaps = {}
      BY <2>1, SpotIsAProduct
    <3>2. ~failed => \A m \in K!Minutes \ have["spot"] : \E i \in DOMAIN gaps : Due(i) /\ In(m, gaps[i])
      BY <2>1
    <3>. QED
      BY <3>1, <3>2
  <2>3. product = "none"
    BY <2>1
  <2>. QED
    BY <2>1, <2>2, <2>3
<1>2. CASE K!ComputeHour
  <2>1. /\ bpc = "funding"
        /\ UNCHANGED <<venue, bars, bpc, have, gaps, todo, product, to, fetched, failed>>
    BY <1>2 DEF K!ComputeHour, K!fetching
  <2>. QED
    BY <2>1
<1>3. CASE K!Done
  <2>1. /\ bpc = "funding" /\ bpc' = "done"
        /\ UNCHANGED <<venue, bars, have, gaps, todo, product, to, fetched, failed>>
    BY <1>3 DEF K!Done, K!fetching
  <2>. QED
    BY <2>1
<1>4. CASE K!Die
  <2>1. /\ bpc' = "down" /\ have' = [p \in K!Products |-> {}]
        /\ gaps' = <<>> /\ todo' = {} /\ product' = "none" /\ to' = 0 /\ fetched' = {}
        /\ UNCHANGED <<venue, bars, failed>>
    BY <1>4 DEF K!Die
  <2>2. have' \in [K!Products -> SUBSET K!Minutes] /\ \A p \in K!Products : have'[p] = {}
    BY <2>1
  <2>. QED
    BY <2>1, <2>2
<1>5. CASE UNCHANGED backfillVars
  BY <1>5 DEF backfillVars
<1>. QED
  BY <1>1, <1>2, <1>3, <1>4, <1>5,
     BackfillStart, BackfillFetchBegin, BackfillFetchPage, BackfillFetchStore DEF K!Next

(* The backfill's invariant holds of every run of the series.              *)
LEMMA BackfillHolds == SeriesSpec => []BackfillInv
<1>1. SeriesInit => BackfillInv
  BY BackfillInit DEF SeriesInit
<1>2. [SeriesNext]_<<part, vars, marksVars, backfillVars>> => [K!Next]_backfillVars
  BY DEF SeriesNext
<1>3. BackfillInv /\ [SeriesNext]_<<part, vars, marksVars, backfillVars>> => BackfillInv'
  BY <1>2, BackfillStep
<1>. QED
  BY <1>1, <1>3, PTL DEF SeriesSpec

(* AsksForGaps for every length of the window, of a page and of an hour,   *)
(* whatever is stored and wherever pages fail or the process dies: the     *)
(* ranges still to fetch are the maximal runs of minutes without a spot    *)
(* candle, and a page stays inside its range (missingRanges,               *)
(* Backfill.gather, Backfill.bars).                                        *)
THEOREM BackfillAsksForGaps == SeriesSpec => []AsksForGaps
<1>1. BackfillInv => K!GapsExact
  <2>. SUFFICES ASSUME BackfillInv, bpc = "gather", todo = K!Products
                PROVE  /\ \A i \in DOMAIN gaps :
                             /\ \A m \in gaps[i].from..(gaps[i].to - 1) : m \notin have["spot"]
                             /\ gaps[i].from < gaps[i].to
                             /\ i > 1 => gaps[i].from > gaps[i - 1].to
                       /\ ~failed => \A m \in K!Minutes \ have["spot"] :
                             \E i \in DOMAIN gaps : m \in gaps[i].from..(gaps[i].to - 1)
    BY DEF K!GapsExact
  <2>1. \A i \in DOMAIN gaps : gaps[i] \in TimeRange
    BY DEF BackfillInv, BackfillTypes
  <2>2. \A i \in DOMAIN gaps, m \in Int : In(m, gaps[i]) <=> m \in gaps[i].from..(gaps[i].to - 1)
    BY <2>1 DEF In, TimeRange
  <2>3. \A i \in DOMAIN gaps : gaps[i].from..(gaps[i].to - 1) \subseteq Int
    BY <2>1 DEF TimeRange
  <2>4. \A i \in DOMAIN gaps : /\ Due(i) /\ gaps[i].from < gaps[i].to
                               /\ i > 1 => gaps[i].from > gaps[i - 1].to
    BY SpotIsAProduct DEF BackfillInv, GapsAreDue, Due, Ordered
  <2>5. \A i \in DOMAIN gaps : \A m \in Int : In(m, gaps[i]) => m \notin have["spot"]
    BY <2>4 DEF BackfillInv, GapsAreDue
  <2>6. ~failed => \A m \in K!Minutes \ have["spot"] : \E i \in DOMAIN gaps : In(m, gaps[i])
    BY DEF BackfillInv, GapsAreDue
  <2>7. K!Minutes \subseteq Int
    BY DEF K!Minutes
  <2>. QED
    BY <2>2, <2>3, <2>4, <2>5, <2>6, <2>7
<1>2. BackfillInv => K!PagesStayInside
  <2>. SUFFICES ASSUME BackfillInv, product # "none", NEW m \in fetched
                PROVE  m \in gaps[1].from..(gaps[1].to - 1)
    BY DEF K!PagesStayInside, BackfillInv, BackfillTypes, PagesFromTheEnd
  <2>1. In(m, gaps[1]) /\ gaps[1] \in TimeRange /\ m \in Int
    BY DEF BackfillInv, BackfillTypes, PagesFromTheEnd, K!Minutes
  <2>. QED
    BY <2>1 DEF In, TimeRange
<1>. QED
  BY <1>1, <1>2, BackfillHolds, PTL DEF AsksForGaps

(* SpotHeals for every value of the constants: however often pages failed  *)
(* or the process died before, a run that finishes with every page loaded  *)
(* leaves the spot series complete (Backfill.Run, gather, bars).           *)
THEOREM SpotSeriesHeals == SeriesSpec => []SpotHeals
<1>1. BackfillInv => SpotHeals
  <2>. SUFFICES ASSUME BackfillInv, bpc = "done", ~failed PROVE bars["spot"] = venue["spot"]
    BY DEF SpotHeals, K!SpotHeals
  <2>1. have["spot"] = K!Minutes /\ venue["spot"] = K!Minutes
    BY DEF BackfillInv, BackfillTypes, FinishedIsWhole
  <2>2. have["spot"] \subseteq bars["spot"] /\ bars["spot"] \subseteq K!Minutes
    BY SpotIsAProduct DEF BackfillInv, BackfillTypes, HeldIsStored
  <2>. QED
    BY <2>1, <2>2
<1>. QED
  BY <1>1, BackfillHolds, PTL

-----------------------------------------------------------------------------
(* The marks.                                                              *)

(* Boundaries lie a width apart, and the sum of two is one.                *)
LEMMA Widths ==
    ASSUME NEW w \in Nat \ {0}, NEW a \in Int, NEW b \in Int
    PROVE  w * a < w * b + w => w * a <= w * b
<1>1. ASSUME NEW c \in Nat PROVE w * c >= 0
  BY <1>1
<1>. SUFFICES ASSUME w * a < w * b + w, ~(w * a <= w * b) PROVE FALSE
  OBVIOUS
<1>2. w * (b - a) = w * b - w * a /\ w * (a - b - 1) = w * a - w * b - w
  BY w \in Int
<1>3. CASE a <= b
  <2>1. w * (b - a) >= 0
    BY <1>1, <1>3
  <2>2. w * a \in Int /\ w * b \in Int
    OBVIOUS
  <2>. QED
    BY <1>2, <2>1, <2>2
<1>4. CASE a > b
  <2>1. a - b - 1 \in Nat
    BY <1>4
  <2>2. w * (a - b - 1) >= 0
    BY <1>1, <2>1
  <2>3. w * a \in Int /\ w * b \in Int
    OBVIOUS
  <2>. QED
    BY <1>2, <2>2, <2>3
<1>. QED
  BY <1>3, <1>4

LEMMA OnBoundary ==
    ASSUME NEW w \in Nat \ {0}, NEW t \in Int, t % w = 0
    PROVE  \E q \in Int : t = w * q
<1>1. t \div w \in Int /\ t = (w * (t \div w)) + (t % w)
  OBVIOUS
<1>. QED
  BY <1>1

LEMMA MultipleIs ==
    ASSUME NEW w \in Nat \ {0}, NEW q \in Int
    PROVE  (w * q) % w = 0
<1>. DEFINE t == w * q
            d == t \div w
            r == t % w
<1>1. t \in Int
  OBVIOUS
<1>. HIDE DEF t
<1>2. d \in Int /\ r \in 0..(w - 1) /\ t = (w * d) + r
  BY <1>1
<1>. HIDE DEF d, r
<1>3. w * d \in Int /\ w * q \in Int
  BY <1>2
<1>4. w * d <= w * q /\ w * q < (w * d) + w
  BY <1>2, <1>3 DEF t
<1>5. w * q <= w * d
  BY <1>2, <1>4, Widths
<1>6. r = 0
  BY <1>2, <1>3, <1>4, <1>5 DEF t
<1>. QED
  BY <1>6 DEF r, t

LEMMA NoLaterInside ==
    ASSUME NEW w \in Nat \ {0}, NEW a \in Int, NEW b \in Int, a % w = 0, b % w = 0, a < b + w
    PROVE  a <= b
<1>1. PICK q \in Int : a = w * q
  BY OnBoundary
<1>2. PICK r \in Int : b = w * r
  BY OnBoundary
<1>. QED
  BY <1>1, <1>2, Widths

(* Multiples of w add up and differ by multiples.                          *)
LEMMA MultiplesJoin ==
    ASSUME NEW w \in Nat \ {0}, NEW a \in Int, NEW b \in Int, a % w = 0, b % w = 0
    PROVE  /\ (a + b) % w = 0 /\ (a - b) % w = 0
           /\ \A q \in Int : (a + w * q) % w = 0
           /\ a < b => a + w <= b
<1>1. PICK q \in Int : a = w * q
  BY OnBoundary
<1>2. PICK r \in Int : b = w * r
  BY OnBoundary
<1>3. w * (q + r) = w * q + w * r /\ w * (q - r) = w * q - w * r
  BY w \in Int
<1>4. (w * (q + r)) % w = 0 /\ (w * (q - r)) % w = 0
  BY MultipleIs
<1>5. (a + b) % w = 0 /\ (a - b) % w = 0
  BY <1>1, <1>2, <1>3, <1>4
<1>6. ASSUME NEW x \in Int PROVE (a + w * x) % w = 0
  <2>1. w * (q + x) = w * q + w * x
    BY w \in Int
  <2>2. (w * (q + x)) % w = 0
    BY MultipleIs
  <2>. QED
    BY <1>1, <2>1, <2>2
<1>7. a < b => a + w <= b
  <2>1. (a + w) % w = 0
    <3>1. a + w * 1 = a + w
      OBVIOUS
    <3>. QED
      BY <1>6, <3>1
  <2>2. a < b => a + w < b + w
    OBVIOUS
  <2>3. a + w \in Int
    OBVIOUS
  <2>. QED
    BY <2>1, <2>2, <2>3, NoLaterInside
<1>. QED
  BY <1>5, <1>6, <1>7

LEMMA FurtherOn ==
    ASSUME NEW w \in Nat \ {0}, NEW a \in Int, a % w = 0, NEW q \in Int, NEW c, c = w * q
    PROVE  (a + c) % w = 0
BY MultiplesJoin

(* Rounding down to a multiple, and the next one.                          *)
LEMMA TruncateIs ==
    ASSUME NEW w \in Nat \ {0}, NEW t \in Nat
    PROVE  /\ M!truncate(t, w) \in Nat /\ M!truncate(t, w) % w = 0
           /\ M!truncate(t, w) <= t /\ t < M!truncate(t, w) + w
<1>. DEFINE d == t \div w
            r == t % w
<1>1. d \in Nat /\ r \in 0..(w - 1) /\ t = (w * d) + r
  OBVIOUS
<1>2. M!truncate(t, w) = t - r
  BY DEF M!truncate
<1>. HIDE DEF d, r
<1>3. (w * d) % w = 0 /\ w * d \in Nat
  BY <1>1, MultipleIs
<1>4. M!truncate(t, w) = w * d
  BY <1>1, <1>2, <1>3
<1>. QED
  BY <1>1, <1>3, <1>4

LEMMA MarksConstants ==
    /\ B \in Nat \ {0} /\ Buckets \in Nat \ {0} /\ Grace \in Nat /\ markMargin \in Nat \ {0}
    /\ Beat \in Nat \ {0} /\ MaxLate \in Nat /\ BucketCap \in Nat \ {0} /\ MidCap \in Nat \ {0}
    /\ NoMark \notin Int
    /\ M!W \in Nat \ {0} /\ B <= M!W /\ M!W % B = 0
    /\ M!markDelay = Grace + markMargin /\ M!markDelay \in Nat
    /\ M!reach = M!W + M!markDelay + MaxLate /\ M!reach \in Nat
<1>1. /\ B \in Nat \ {0} /\ Buckets \in Nat \ {0} /\ Grace \in Nat /\ markMargin \in Nat \ {0}
      /\ Beat \in Nat \ {0} /\ MaxLate \in Nat /\ BucketCap \in Nat \ {0} /\ MidCap \in Nat \ {0}
      /\ NoMark \notin Int
  BY SeriesAssumption DEF M!MarksAssumption
<1>2. M!W = B * Buckets
  BY DEF M!W
<1>3. B * (Buckets - 1) >= 0 /\ B * (Buckets - 1) = B * Buckets - B /\ B * Buckets \in Int
  <2>1. Buckets - 1 \in Nat /\ B \in Nat
    BY <1>1
  <2>2. \A x \in Nat, y \in Nat : x * y \in Nat
    OBVIOUS
  <2>3. B * (Buckets - 1) \in Nat
    BY <2>1, <2>2
  <2>. QED
    BY <1>1, <2>3
<1>4. (B * Buckets) % B = 0
  BY <1>1, MultipleIs
<1>5. M!W \in Nat \ {0} /\ B <= M!W /\ M!W % B = 0
  BY <1>1, <1>2, <1>3, <1>4
<1>6. M!markDelay = Grace + markMargin
  BY DEF M!markDelay
<1>7. M!reach = M!W + M!markDelay + MaxLate
  BY DEF M!reach
<1>. QED
  BY <1>1, <1>5, <1>6, <1>7

(* The sum of a sequence is the last of its partial sums.                  *)
SumsUpTo(U, f, n) == U[0] = 0 /\ \A i \in 1..n : U[i] = U[i - 1] + f[i]

LEMMA SumIs ==
    ASSUME NEW n \in Nat, NEW f \in [1..n -> Nat]
    PROVE  \E U \in [0..n -> Nat] : SumsUpTo(U, f, n) /\ M!sum(f) = U[n]
<1>. DEFINE Upto(g, m) == g = [i \in 0..m |-> IF i = 0 THEN 0 ELSE g[i - 1] + f[i]]
            G == {m \in 0..n : \E g : Upto(g, m)}
            upTo == CHOOSE g : Upto(g, n)
<1>1. 0 \in G
  <2>1. Upto([i \in 0..0 |-> 0], 0)
    OBVIOUS
  <2>. HIDE DEF Upto
  <2>. QED
    BY <2>1
<1>2. \A m \in 0..(n - 1) : m \in G => m + 1 \in G
  <2>0. \A m \in 0..(n - 1) : m + 1 \in 0..n
    OBVIOUS
  <2>. HIDE DEF Upto
  <2>. SUFFICES ASSUME NEW m \in 0..(n - 1), m \in G PROVE \E g : Upto(g, m + 1)
    BY <2>0
  <2>1. PICK g : Upto(g, m)
    OBVIOUS
  <2>. USE DEF Upto
  <2>. DEFINE h == [i \in 0..(m + 1) |-> IF i = m + 1 THEN g[m] + f[m + 1] ELSE g[i]]
  <2>2. \A i \in 0..m : h[i] = g[i]
    OBVIOUS
  <2>3. ASSUME NEW i \in 0..(m + 1)
        PROVE  h[i] = IF i = 0 THEN 0 ELSE h[i - 1] + f[i]
    <3>1. CASE i = m + 1
      <4>1. h[i] = g[m] + f[m + 1] /\ i # 0 /\ i - 1 = m /\ h[m] = g[m]
        BY <3>1, <2>2
      <4>. QED
        BY <3>1, <4>1
    <3>2. CASE i # m + 1
      <4>1. i \in 0..m /\ (i # 0 => i - 1 \in 0..m)
        BY <3>2
      <4>2. g[i] = IF i = 0 THEN 0 ELSE g[i - 1] + f[i]
        BY <2>1, <4>1
      <4>. HIDE DEF h
      <4>. QED
        BY <2>2, <4>1, <4>2
    <3>. QED
      BY <3>1, <3>2
  <2>. DEFINE e == [i \in 0..(m + 1) |-> IF i = 0 THEN 0 ELSE h[i - 1] + f[i]]
  <2>4. h = [i \in 0..(m + 1) |-> h[i]]
    OBVIOUS
  <2>. HIDE DEF h
  <2>5. e = [i \in 0..(m + 1) |-> h[i]]
    BY <2>3
  <2>6. Upto(h, m + 1)
    BY <2>4, <2>5
  <2>. HIDE DEF Upto
  <2>. QED
    BY <2>6
<1>3. n \in 0..n
  OBVIOUS
<1>4. n \in G
  <2>. HIDE DEF G
  <2>. QED
    BY <1>1, <1>2, <1>3, PassedOn
<1>5. Upto(upTo, n)
  <2>. HIDE DEF Upto
  <2>. QED
    BY <1>4
<1>6. Len(f) = n
  OBVIOUS
<1>7. M!sum(f) = upTo[n]
  BY <1>6 DEF M!sum
<1>. HIDE DEF upTo
<1>8. \A i \in 0..n : upTo[i] = IF i = 0 THEN 0 ELSE upTo[i - 1] + f[i]
  BY <1>5
<1>9. SumsUpTo(upTo, f, n)
  <2>1. \A i \in 1..n : i \in 0..n /\ i # 0
    OBVIOUS
  <2>. QED
    BY <1>8, <2>1 DEF SumsUpTo
<1>10. \A i \in 0..n : upTo[i] \in Nat
  <2>. DEFINE T == {i \in 0..n : upTo[i] \in Nat}
  <2>1. 0 \in T
    BY <1>8
  <2>2. \A i \in 0..(n - 1) : i \in T => i + 1 \in T
    <3>1. \A i \in 0..(n - 1) : i + 1 \in 1..n /\ i + 1 \in 0..n /\ i + 1 - 1 = i
      OBVIOUS
    <3>. QED
      BY <1>9, <3>1 DEF SumsUpTo
  <2>3. \A i \in 0..n : i \in T
    <3>. HIDE DEF T
    <3>. QED
      BY <2>1, <2>2, PassedOn
  <2>. QED
    BY <2>3
<1>11. upTo \in [0..n -> Nat]
  BY <1>5, <1>10
<1>. QED
  BY <1>7, <1>9, <1>11


-----------------------------------------------------------------------------
(* Sums over observations and sums over moments.                           *)

(* Where nothing is added the partial sums stay.                           *)
IsZero(g, a, c) == \A x \in DOMAIN g : a < x /\ x <= c => g[x] = 0

(* The partial sums of f, a sequence of n naturals.                        *)
Sums(U, f, n) == f \in [1..n -> Nat] /\ U \in [0..n -> Nat] /\ SumsUpTo(U, f, n)

LEMMA SumsAre == ASSUME NEW n \in Nat, NEW f \in [1..n -> Nat]
                 PROVE  \E U : Sums(U, f, n) /\ M!sum(f) = U[n]
BY SumIs DEF Sums

LEMMA Summed ==
    ASSUME NEW n \in Nat, NEW f, NEW U, Sums(U, f, n)
    PROVE  /\ U[0] = 0
           /\ \A i \in 0..n : U[i] \in Nat
           /\ \A i \in 1..n : f[i] \in Nat /\ U[i] = U[i - 1] + f[i]
BY DEF Sums, SumsUpTo

LEMMA NothingAdded ==
    ASSUME NEW w \in Nat, NEW g, NEW U, Sums(U, g, w),
           NEW a \in 0..w, NEW c \in 0..w, a <= c, IsZero(g, a, c)
    PROVE  U[c] = U[a]
<1>. DEFINE P == {k \in 0..(c - a) : U[a + k] = U[a]}
<1>1. c - a \in Nat /\ a \in Int /\ c \in Int
  OBVIOUS
<1>2. 0 \in P
  BY <1>1
<1>3. ASSUME NEW k \in 0..((c - a) - 1), k \in P
      PROVE  k + 1 \in P
  <2>1. k + 1 \in 0..(c - a) /\ a + (k + 1) \in 1..w /\ (a + (k + 1)) - 1 = a + k /\ a + k \in 0..w
    BY <1>1
  <2>2. g[a + (k + 1)] = 0
    BY <1>1, <2>1 DEF IsZero, Sums
  <2>3. U[a + (k + 1)] = U[a + k] + g[a + (k + 1)]
    BY <2>1, Summed
  <2>4. U[a + k] \in Nat /\ U[a + k] = U[a]
    BY <1>3, <2>1, Summed
  <2>. QED
    BY <2>1, <2>2, <2>3, <2>4
<1>4. \A k \in 0..(c - a) : k \in P
  <2>. HIDE DEF P
  <2>. QED
    BY <1>1, <1>2, <1>3, PassedOn
<1>5. c - a \in P /\ a + (c - a) = c
  <2>1. c - a \in 0..(c - a) /\ a + (c - a) = c
    BY <1>1
  <2>2. c - a \in P
    <3>. HIDE DEF P
    <3>. QED
      BY <1>4, <2>1
  <2>. QED
    BY <2>1, <2>2
<1>. QED
  BY <1>5

(* Observations made at increasing times have the same sum as the moments  *)
(* of a stretch, if each that counts is what its moment shows, and each    *)
(* moment that shows something was observed.                               *)
Increasing(at, n) ==
    /\ \A i \in 1..n : at[i] \in Int
    /\ \A i, j \in 1..n : i < j => at[i] < at[j]
Observes(f, at, n, g, w) ==
    /\ \A i \in 1..n : f[i] # 0 => at[i] \in 1..w /\ g[at[i]] = f[i]
    /\ \A x \in 1..w : g[x] # 0 => \E i \in 1..n : at[i] = x /\ f[i] = g[x]

(* How far into a stretch of w moments the moment v reaches.               *)
Into(v, w) == IF v < 0 THEN 0 ELSE IF v > w THEN w ELSE v

LEMMA IntoIs ==
    ASSUME NEW v \in Int, NEW w \in Nat
    PROVE  Into(v, w) \in 0..w /\ \A x \in 1..w : x <= Into(v, w) <=> x <= v
BY DEF Into

LEMMA SumsByMoment ==
    ASSUME NEW n \in Nat, NEW f, NEW at, NEW w \in Nat, NEW g, NEW F, NEW G,
           Sums(F, f, n), Sums(G, g, w), Increasing(at, n), Observes(f, at, n, g, w)
    PROVE  F[n] = G[w]
<1>. DEFINE upto(i) == IF i = 0 THEN 0 ELSE Into(at[i], w)
            P == {i \in 0..n : F[i] = G[upto(i)]}
<1>3. upto(0) = 0
  OBVIOUS
<1>4. ASSUME NEW i \in 1..n
      PROVE  at[i] \in Int /\ upto(i) \in 0..w /\ \A x \in 1..w : x <= upto(i) <=> x <= at[i]
  <2>1. at[i] \in Int
    BY DEF Increasing
  <2>2. upto(i) = Into(at[i], w)
    OBVIOUS
  <2>3. Into(at[i], w) \in 0..w /\ \A x \in 1..w : x <= Into(at[i], w) <=> x <= at[i]
    BY <2>1, IntoIs
  <2>. HIDE DEF upto
  <2>. QED
    BY <2>1, <2>2, <2>3
<1>5. \A i \in 0..n : i \in P <=> F[i] = G[upto(i)]
  OBVIOUS
<1>. HIDE DEF upto, P
(* Between two observations, or after the last, no moment shows anything.  *)
<1>6. ASSUME NEW i \in 0..n, NEW c \in 0..w, i = n \/ c < at[i + 1]
      PROVE  IsZero(g, upto(i), c)
  <2>. SUFFICES ASSUME NEW x \in 1..w, upto(i) < x, x <= c, g[x] # 0
                PROVE  FALSE
    BY DEF IsZero, Sums
  <2>1. PICK k \in 1..n : at[k] = x
    BY DEF Observes
  <2>2. ~(k <= i)
    <3>. SUFFICES ASSUME k <= i PROVE FALSE
      OBVIOUS
    <3>1. i \in 1..n
      OBVIOUS
    <3>2. at[i] < x
      <4>1. at[i] \in Int /\ upto(i) \in 0..w /\ (x <= upto(i) <=> x <= at[i])
        BY <1>4, <3>1
      <4>. DEFINE a == upto(i)
                  v == at[i]
      <4>. HIDE DEF a, v
      <4>2. v \in Int /\ a \in 0..w /\ (x <= a <=> x <= v) /\ a < x
        BY <4>1 DEF a, v
      <4>3. v < x
        BY <4>2
      <4>. QED
        BY <4>3 DEF v
    <3>3. k = i \/ k < i
      BY <3>1
    <3>4. k < i => at[k] < at[i]
      BY <3>1 DEF Increasing
    <3>5. at[i] \in Int
      BY <3>1 DEF Increasing
    <3>. QED
      BY <2>1, <3>2, <3>3, <3>4, <3>5
  <2>3. i # n /\ i + 1 \in 1..n /\ i + 1 <= k
    BY <2>2
  <2>4. at[i + 1] \in Int /\ c < at[i + 1]
    BY <1>6, <2>3 DEF Increasing
  <2>5. k = i + 1 \/ i + 1 < k
    BY <2>3
  <2>6. i + 1 < k => at[i + 1] < at[k]
    BY <2>3 DEF Increasing
  <2>7. at[i + 1] <= x
    BY <2>1, <2>4, <2>5, <2>6
  <2>. QED
    BY <2>4, <2>7
<1>7. ASSUME NEW i \in 0..n PROVE upto(i) \in 0..w
  <2>1. i = 0 \/ i \in 1..n
    OBVIOUS
  <2>2. 0 \in 0..w
    OBVIOUS
  <2>. QED
    BY <1>3, <1>4, <2>1, <2>2
<1>8. 0 \in P
  <2>1. F[0] = 0 /\ G[0] = 0 /\ 0 \in 0..n
    BY Summed
  <2>. QED
    BY <1>3, <1>5, <2>1
<1>9. ASSUME NEW i \in 0..(n - 1), i \in P
      PROVE  i + 1 \in P
  <2>1. i + 1 \in 1..n /\ i + 1 \in 0..n /\ i \in 0..n /\ (i + 1) - 1 = i /\ i # n
    OBVIOUS
  <2>. DEFINE a == upto(i)
              e == upto(i + 1)
              v == at[i + 1]
  <2>2. a \in 0..w /\ e \in 0..w /\ v \in Int /\ \A x \in 1..w : x <= e <=> x <= v
    BY <1>4, <1>7, <2>1
  <2>3. \A x \in 1..w : x <= a => x < v
    <3>. SUFFICES ASSUME NEW x \in 1..w, x <= a PROVE x < v
      OBVIOUS
    <3>1. i # 0
      BY <1>3
    <3>2. i \in 1..n
      BY <3>1
    <3>3. x <= at[i] /\ at[i] \in Int
      BY <1>4, <3>2
    <3>4. at[i] < v
      BY <2>1, <3>2 DEF Increasing
    <3>. QED
      BY <2>2, <3>3, <3>4
  <2>4. F[i + 1] = F[i] + f[i + 1] /\ F[i] = G[a] /\ f[i + 1] \in Nat /\ F[i] \in Nat
    BY <1>5, <1>9, <2>1, Summed
  <2>5. f[i + 1] # 0 => v \in 1..w /\ g[v] = f[i + 1]
    BY <2>1 DEF Observes
  <2>6. \A c \in 0..w : c < v => IsZero(g, a, c)
    BY <1>6, <2>1
  <2>. HIDE DEF a, e, v
  <2>7. CASE v \in 1..w
    <3>1. e = v
      <4>1. v <= e
        BY <2>2, <2>7
      <4>2. e \in 1..w
        BY <2>2, <2>7, <4>1
      <4>3. e <= v
        BY <2>2, <4>2
      <4>. QED
        BY <2>2, <4>1, <4>3
    <3>2. v - 1 \in 0..w /\ v - 1 < v /\ a <= v - 1
      <4>1. v - 1 \in 0..w /\ v - 1 < v /\ (a >= v => v <= a)
        BY <2>2, <2>7
      <4>2. ~(v <= a)
        BY <2>2, <2>3, <2>7
      <4>. QED
        BY <2>2, <4>1, <4>2
    <3>3. G[v - 1] = G[a]
      BY <2>2, <2>6, <3>2, NothingAdded
    <3>4. G[v] = G[v - 1] + g[v]
      BY <2>7, Summed
    <3>5. g[v] = f[i + 1]
      <4>. SUFFICES ASSUME f[i + 1] = 0, g[v] # 0 PROVE FALSE
        BY <2>5
      <4>1. PICK k \in 1..n : at[k] = v /\ f[k] = g[v]
        BY <2>7 DEF Observes
      <4>2. k < i + 1 => at[k] < at[i + 1]
        BY <2>1 DEF Increasing
      <4>3. i + 1 < k => at[i + 1] < at[k]
        BY <2>1 DEF Increasing
      <4>4. k # i + 1
        BY <4>1
      <4>5. k < i + 1 \/ i + 1 < k
        BY <2>1, <4>4
      <4>. QED
        BY <2>2, <4>1, <4>2, <4>3, <4>5 DEF v
    <3>6. F[i + 1] = G[e]
      BY <2>4, <3>1, <3>3, <3>4, <3>5
    <3>. QED
      BY <1>5, <2>1, <3>6 DEF e
  <2>8. CASE v \notin 1..w
    <3>1. f[i + 1] = 0
      BY <2>5, <2>8
    <3>2. a <= e /\ IsZero(g, a, e)
      <4>1. CASE v < 1
        <5>1. ~(1 <= a)
          <6>1. 1 <= a => 1 \in 1..w
            BY <2>2
          <6>. QED
            BY <2>2, <2>3, <4>1, <6>1
        <5>2. ~(1 <= e)
          <6>1. 1 <= e => 1 \in 1..w
            BY <2>2
          <6>. QED
            BY <2>2, <4>1, <6>1
        <5>3. a = 0 /\ e = 0
          BY <2>2, <5>1, <5>2
        <5>. QED
          BY <5>3 DEF IsZero, Sums
      <4>2. CASE v > w
        <5>1. w # 0 => e >= w
          <6>1. w # 0 => w \in 1..w
            OBVIOUS
          <6>. QED
            BY <2>2, <4>2, <6>1
        <5>2. a <= e /\ e < v
          BY <2>2, <4>2, <5>1
        <5>. QED
          BY <2>2, <2>6, <5>2
      <4>. QED
        BY <2>2, <2>8, <4>1, <4>2
    <3>3. G[e] = G[a]
      BY <2>2, <3>2, NothingAdded
    <3>4. F[i + 1] = G[e]
      BY <2>4, <3>1, <3>3
    <3>. QED
      BY <1>5, <2>1, <3>4 DEF e
  <2>. QED
    BY <2>7, <2>8
<1>10. \A i \in 0..n : i \in P
  BY <1>8, <1>9, PassedOn
<1>11. n \in 0..n /\ w \in 0..w
  OBVIOUS
<1>12. F[n] = G[upto(n)] /\ upto(n) \in 0..w /\ upto(n) <= w /\ IsZero(g, upto(n), w)
  <2>1. upto(n) \in 0..w
    BY <1>7, <1>11
  <2>. QED
    BY <1>5, <1>6, <1>10, <1>11, <2>1
<1>13. G[w] = G[upto(n)]
  <2>. DEFINE z == upto(n)
  <2>1. z \in 0..w /\ z <= w /\ IsZero(g, z, w)
    BY <1>12
  <2>. HIDE DEF z
  <2>2. G[w] = G[z]
    BY <1>11, <2>1, NothingAdded
  <2>. QED
    BY <2>2 DEF z
<1>. QED
  BY <1>12, <1>13

(* f is a sequence of n naturals.                                         *)
Numbers(f, n) == f \in [1..n -> Nat]

LEMMA SumByMoment ==
    ASSUME NEW n \in Nat, NEW f, Numbers(f, n), NEW at, NEW w \in Nat, NEW g, Numbers(g, w),
           Increasing(at, n), Observes(f, at, n, g, w)
    PROVE  M!sum(f) = M!sum(g)
<1>1. PICK F : Sums(F, f, n) /\ M!sum(f) = F[n]
  BY SumsAre DEF Numbers
<1>2. PICK G : Sums(G, g, w) /\ M!sum(g) = G[w]
  BY SumsAre DEF Numbers
<1>3. F[n] = G[w]
  BY <1>1, <1>2, SumsByMoment
<1>. QED
  BY <1>1, <1>2, <1>3

-----------------------------------------------------------------------------
(* What is kept of the observations.                                       *)

(* trim drops the oldest, as many as there are too many.                   *)
Drops(r, s, d) ==
    d <= Len(s) /\ Len(r) = Len(s) - d /\ \A i \in 1..(Len(s) - d) : r[i] = s[i + d]

LEMMA TrimIs ==
    ASSUME NEW X, NEW s \in Seq(X), NEW max \in Nat \ {0}
    PROVE  /\ M!trim(s, max) \in Seq(X)
           /\ \E d \in Nat : Drops(M!trim(s, max), s, d) /\ (d = 0 \/ d = Len(s) - max)
<1>0. Len(s) \in Nat
  OBVIOUS
<1>1. CASE Len(s) <= max
  <2>1. M!trim(s, max) = s
    BY <1>1 DEF M!trim
  <2>2. 0 <= Len(s) /\ Len(s) - 0 = Len(s) /\ \A i \in 1..Len(s) : i + 0 = i
    BY <1>0
  <2>3. Drops(s, s, 0)
    BY <2>2 DEF Drops
  <2>. QED
    BY <2>1, <2>3
<1>2. CASE ~(Len(s) <= max)
  <2>. DEFINE d == Len(s) - max
              r == SubSeq(s, d + 1, Len(s))
  <2>1. M!trim(s, max) = r
    BY <1>2 DEF M!trim
  <2>2. d \in Nat /\ d <= Len(s) /\ d + 1 \in 1..Len(s) /\ Len(s) - d = Len(s) - (d + 1) + 1
    BY <1>0, <1>2
  <2>3. r \in Seq(X) /\ Len(r) = Len(s) - d /\ \A i \in 1..(Len(s) - d) : r[i] = s[i + d]
    <3>. HIDE DEF d
    <3>1. r = [i \in 1..(Len(s) - (d + 1) + 1) |-> s[i + (d + 1) - 1]]
      BY <2>2
    <3>2. \A i \in 1..(Len(s) - d) : i + (d + 1) - 1 = i + d /\ i + d \in 1..Len(s)
      BY <1>0, <2>2
    <3>3. \A i \in 1..(Len(s) - d) : s[i + d] \in X
      BY <3>2
    <3>4. r = [i \in 1..(Len(s) - d) |-> s[i + d]]
      BY <2>2, <3>1, <3>2
    <3>5. Len(s) - d \in Nat
      BY <1>0, <2>2
    <3>. HIDE DEF r
    <3>. QED
      BY <3>3, <3>4, <3>5
  <2>4. Drops(r, s, d)
    BY <2>2, <2>3 DEF Drops
  <2>. HIDE DEF d, r
  <2>5. d = Len(s) - max
    BY DEF d
  <2>. QED
    BY <2>1, <2>2, <2>3, <2>4, <2>5
<1>. QED
  BY <1>1, <1>2

(* Observations are made at least B apart.                                 *)
Spaced(time, s) ==
    \A i, j \in 1..Len(s) : i < j => time[s[i]] + B * (j - i) <= time[s[j]]

(* Of the observations made up to t, those since u are kept.               *)
UpTo(time, s, t) == \A i \in 1..Len(s) : time[s[i]] <= t
Keeps(r, s, time, u) ==
    /\ Spaced(time, r)
    /\ \A i \in 1..Len(r) : \E j \in 1..Len(s) : r[i] = s[j]
    /\ \A j \in 1..Len(s) : u < time[s[j]] => \E i \in 1..Len(r) : r[i] = s[j]

(* So of those up to now, what trim drops is max of them old.              *)
LEMMA TrimKeeps ==
    ASSUME NEW X, NEW s \in Seq(X), NEW max \in Nat \ {0}, NEW time \in [X -> Int], Spaced(time, s),
           NEW t \in Int, UpTo(time, s, t)
    PROVE  M!trim(s, max) \in Seq(X) /\ Keeps(M!trim(s, max), s, time, t - B * max)
<1>. DEFINE r == M!trim(s, max)
<1>0. r \in Seq(X) /\ \E d \in Nat : Drops(r, s, d) /\ (d = 0 \/ d = Len(s) - max)
  BY TrimIs
<1>. HIDE DEF r
<1>00. PICK d \in Nat : Drops(r, s, d) /\ (d = 0 \/ d = Len(s) - max)
  BY <1>0
<1>1. /\ d <= Len(s) /\ (d = 0 \/ d = Len(s) - max)
      /\ r \in Seq(X) /\ Len(r) = Len(s) - d
      /\ \A i \in 1..(Len(s) - d) : r[i] = s[i + d]
  BY <1>0, <1>00 DEF Drops
<1>2. Len(s) \in Nat /\ \A i \in 1..Len(r) : i + d \in 1..Len(s) /\ r[i] = s[i + d]
  BY <1>1
<1>3. Spaced(time, r)
  <2>. SUFFICES ASSUME NEW i \in 1..Len(r), NEW j \in 1..Len(r), i < j
                PROVE  time[r[i]] + B * (j - i) <= time[r[j]]
    BY DEF Spaced
  <2>0. i \in Int /\ j \in Int /\ d \in Int
    BY <1>1
  <2>1. i + d < j + d /\ (j + d) - (i + d) = j - i
    BY <2>0
  <2>. QED
    BY <1>2, <2>1 DEF Spaced
<1>4. ASSUME NEW j \in 1..Len(s), t - B * max < time[s[j]]
      PROVE  \E i \in 1..Len(r) : r[i] = s[j]
  <2>1. ~(j <= d)
    <3>. SUFFICES ASSUME j <= d PROVE FALSE
      OBVIOUS
    <3>1. d = Len(s) - max /\ Len(s) \in 1..Len(s) /\ j < Len(s) /\ max <= Len(s) - j
      BY <1>1, <1>2
    <3>2. time[s[j]] + B * (Len(s) - j) <= time[s[Len(s)]] /\ time[s[Len(s)]] <= t
      BY <3>1 DEF Spaced, UpTo
    <3>. DEFINE a == B * (Len(s) - j)
                b == B * max
                e == B * (Len(s) - j - max)
    <3>3. a \in Int /\ b \in Int /\ e \in Nat /\ a = b + e
      <4>1. B \in Nat /\ Len(s) - j \in Int /\ Len(s) - j - max \in Nat
        BY <1>2, <3>1, MarksConstants
      <4>2. \A x \in Nat, y \in Nat : x * y \in Nat
        OBVIOUS
      <4>3. \A x \in Nat, y \in Int, z \in Int : x * y \in Int /\ x * y = x * z + x * (y - z)
        OBVIOUS
      <4>. QED
        BY <4>1, <4>2, <4>3
    <3>4. time[s[j]] \in Int /\ time[s[Len(s)]] \in Int
      BY <3>1
    <3>. HIDE DEF a, b, e
    <3>5. time[s[j]] + a <= t /\ t - b < time[s[j]]
      BY <1>4, <3>2, <3>3, <3>4 DEF a, b
    <3>. QED
      BY <3>3, <3>4, <3>5
  <2>2. j - d \in 1..Len(r) /\ (j - d) + d = j
    BY <1>1, <1>2, <2>1
  <2>. QED
    BY <1>2, <2>2
<1>5. \A i \in 1..Len(r) : \E j \in 1..Len(s) : r[i] = s[j]
  BY <1>2
<1>. QED
  BY <1>1, <1>3, <1>4, <1>5 DEF r, Keeps

-----------------------------------------------------------------------------
(* The inductive invariant of the marks.                                   *)

Deals       == [px : Nat, vol : Nat \ {0}]
BucketMarks == [end : Nat, of : Deals \cup {NoMark}]
MidMarks    == [at : Nat, mid : Nat]
endTime     == [e \in BucketMarks |-> e.end]
madeAt      == [q \in MidMarks |-> q.at]

(* A bucket starts at t.                                                   *)
IsStart(t) == t \in Nat /\ t % B = 0

(* What the products showed, since the oldest moment still to be marked.   *)
WorldInv ==
    /\ mnow \in Nat
    /\ DOMAIN quoted = DOMAIN traded
    /\ \A b \in DOMAIN traded : IsStart(b) /\ b <= mnow
    /\ \A b \in Nat : IsStart(b) /\ b <= mnow /\ mnow - M!reach <= b => b \in DOMAIN traded
    /\ \A b \in DOMAIN traded, p \in M!Products :
          /\ traded[b][p] \in Deals \cup {NoMark}
          /\ quoted[b][p] \in Nat \cup {NoMark}

(* The handler's next bucket is open, or was a beat ago; nothing from it   *)
(* on is lost yet.                                                         *)
HandlerInv ==
    /\ beat \in Nat /\ beat <= Beat
    /\ next # NoMark => IsStart(next) /\ next - B <= mnow /\ mnow - beat < next + B + Grace
    /\ \A u \in uncovered : u \in Nat /\ u <= mnow /\ (next # NoMark => u < next)

(* The buckets closed so far: none that is lost, each as the product       *)
(* traded, and all of those recent enough to be kept.                      *)
BucketsKnown(p) ==
    LET s == buckets[p] IN
    /\ s \in Seq(BucketMarks) /\ Spaced(endTime, s)
    /\ \A i \in 1..Len(s) :
          /\ IsStart(s[i].end - B) /\ s[i].end <= mnow
          /\ next # NoMark => s[i].end <= next
          /\ s[i].end - B \notin uncovered
          /\ s[i].end - B \in DOMAIN traded => s[i].of = traded[s[i].end - B][p]
    /\ \A b \in DOMAIN traded \ uncovered :
          (next # NoMark => b < next) /\ mnow - B * BucketCap < b + B
             => \E i \in 1..Len(s) : s[i].end = b + B

(* The quotes made so far likewise.                                        *)
MidsKnown(p) ==
    LET s == mids[p] IN
    /\ s \in Seq(MidMarks) /\ Spaced(madeAt, s)
    /\ \A i \in 1..Len(s) :
          /\ IsStart(s[i].at) /\ s[i].at <= mnow
          /\ s[i].at \in DOMAIN traded => s[i].mid = quoted[s[i].at][p]
    /\ \A b \in DOMAIN traded :
          quoted[b][p] # NoMark /\ mnow - B * MidCap < b => \E i \in 1..Len(s) : s[i].at = b

(* The timer waits out the delay after the end of a window, and fires in   *)
(* time.                                                                   *)
TimerInv ==
    /\ fires - M!markDelay \in Nat /\ (fires - M!markDelay) % M!W = 0
    /\ M!W <= fires - M!markDelay /\ fires \in Int
    /\ mnow <= fires + MaxLate

GapInv == gap = observedGap /\ gap \in Int \cup {NoMark}

MarksInv ==
    /\ WorldInv /\ HandlerInv /\ TimerInv /\ GapInv
    /\ \A p \in M!Products : BucketsKnown(p) /\ MidsKnown(p)

LEMMA MarksInit == M!Init => MarksInv
<1>. SUFFICES ASSUME M!Init PROVE MarksInv
  OBVIOUS
<1>0. /\ B \in Nat \ {0} /\ M!W \in Nat \ {0} /\ M!markDelay \in Nat /\ M!reach \in Nat
      /\ MaxLate \in Nat /\ Grace \in Nat /\ Beat \in Nat
  BY MarksConstants
<1>1. /\ mnow = 0 /\ DOMAIN traded = {0} /\ quoted = traded
      /\ \A p \in M!Products : traded[0][p] = NoMark /\ buckets[p] = <<>> /\ mids[p] = <<>>
      /\ next = NoMark /\ beat = 0 /\ uncovered = {0} /\ gap = NoMark /\ observedGap = NoMark
      /\ fires = M!W + M!markDelay
  BY DEF M!Init
<1>2. 0 % B = 0 /\ M!W % M!W = 0
  <2>1. (B * 0) % B = 0 /\ B * 0 = 0 /\ (M!W * 1) % M!W = 0 /\ M!W * 1 = M!W
    BY <1>0, MultipleIs
  <2>. QED
    BY <2>1
<1>3. WorldInv
  BY <1>0, <1>1, <1>2 DEF WorldInv, IsStart
<1>4. HandlerInv
  BY <1>0, <1>1 DEF HandlerInv
<1>5. TimerInv
  <2>1. fires - M!markDelay = M!W /\ fires \in Int /\ 0 <= fires + MaxLate
    BY <1>0, <1>1
  <2>. QED
    BY <1>0, <1>1, <1>2, <2>1 DEF TimerInv
<1>6. GapInv
  BY <1>1 DEF GapInv
<1>7. ASSUME NEW p \in M!Products PROVE BucketsKnown(p) /\ MidsKnown(p)
  <2>1. buckets[p] = <<>> /\ mids[p] = <<>> /\ Len(<<>>) = 0 /\ 1..0 = {}
    BY <1>1
  <2>2. BucketsKnown(p)
    BY <1>1, <2>1 DEF BucketsKnown, Spaced
  <2>3. MidsKnown(p)
    BY <1>1, <2>1 DEF MidsKnown, Spaced
  <2>. QED
    BY <2>2, <2>3
<1>. QED
  BY <1>3, <1>4, <1>5, <1>6, <1>7 DEF MarksInv

(* k observations that are joined on at distances of B from c.             *)
Joins(q, s, k, time, c) ==
    /\ Len(q) = Len(s) + k
    /\ \A i \in 1..Len(s) : q[i] = s[i]
    /\ \A i \in 1..k : time[q[Len(s) + i]] = c + B * i
    /\ Len(s) # 0 => time[s[Len(s)]] <= c

LEMMA JoinKeeps ==
    ASSUME NEW X, NEW s \in Seq(X), NEW q \in Seq(X), NEW k \in Nat, NEW time \in [X -> Int],
           Spaced(time, s), NEW c \in Int, Joins(q, s, k, time, c)
    PROVE  Spaced(time, q)
<1>. USE DEF Joins
<1>. DEFINE n == Len(s)
<1>1. n \in Nat /\ B \in Nat /\ \A i \in 1..n : time[s[i]] \in Int
  <2>1. B \in Nat
    BY MarksConstants
  <2>2. n \in Nat /\ \A i \in 1..n : s[i] \in X
    OBVIOUS
  <2>3. \A x \in X : time[x] \in Int
    OBVIOUS
  <2>4. \A i \in 1..n : time[s[i]] \in Int
    <3>. HIDE DEF n
    <3>. QED
      BY <2>2, <2>3, Zenon
  <2>. QED
    BY <2>1, <2>2, <2>4
<1>2. \A x, y, z \in Int : B * (x - z) \in Int /\ B * (x - z) = B * (x - y) + B * (y - z)
                             /\ B * (x - y) \in Int
  BY <1>1
<1>3. B * 0 = 0
  BY <1>1
<1>. SUFFICES ASSUME NEW i \in 1..(n + k), NEW j \in 1..(n + k), i < j
              PROVE  time[q[i]] + B * (j - i) <= time[q[j]]
  BY DEF Spaced
<1>4. i \in Int /\ j \in Int /\ n \in Int /\ k \in Int /\ 1 <= i /\ i < j /\ j <= n + k
  BY <1>1
<1>. HIDE DEF n
<1>5. CASE j <= n
  <2>1. i \in 1..n /\ j \in 1..n
    BY <1>4, <1>5
  <2>2. q[i] = s[i] /\ q[j] = s[j]
    BY <2>1 DEF n
  <2>. QED
    BY <1>4, <2>1, <2>2 DEF Spaced, n
<1>6. CASE i <= n /\ n < j
  <2>1. i \in 1..n /\ n \in 1..n /\ j - n \in 1..k /\ n + (j - n) = j /\ n # 0
    BY <1>4, <1>6
  <2>2. q[i] = s[i] /\ time[q[j]] = c + B * (j - n)
    BY <2>1 DEF n
  <2>3. time[s[i]] + B * (n - i) <= time[s[n]]
    <3>1. CASE i = n
      <4>1. n - i = 0 /\ time[s[n]] \in Int /\ s[i] = s[n]
        BY <1>1, <1>4, <2>1, <3>1
      <4>. QED
        BY <1>3, <4>1
    <3>2. CASE i # n
      <4>1. i < n
        BY <1>4, <2>1, <3>2
      <4>. QED
        BY <2>1, <4>1 DEF Spaced, n
    <3>. QED
      BY <3>1, <3>2
  <2>4. time[s[n]] <= c
    BY <2>1 DEF n
  <2>. DEFINE a == B * (n - i)
              b == B * (j - n)
              u == time[s[i]]
              v == time[s[n]]
  <2>5. B * (j - i) = b + a /\ a \in Int /\ b \in Int /\ u \in Int /\ v \in Int
    BY <1>1, <1>2, <1>4, <2>1
  <2>. HIDE DEF a, b, u, v
  <2>6. u + a <= v /\ v <= c
    BY <2>3, <2>4 DEF a, u, v
  <2>7. u + (b + a) <= c + b
    BY <2>5, <2>6
  <2>. QED
    BY <2>2, <2>5, <2>7 DEF u, b
<1>7. CASE n < i
  <2>1. i - n \in 1..k /\ n + (i - n) = i /\ j - n \in 1..k /\ n + (j - n) = j
    BY <1>4, <1>7
  <2>2. time[q[i]] = c + B * (i - n) /\ time[q[j]] = c + B * (j - n)
    BY <2>1 DEF n
  <2>. DEFINE a == B * (j - i)
              b == B * (i - n)
  <2>3. B * (j - n) = a + b /\ a \in Int /\ b \in Int
    <3>1. B * (j - n) = B * (j - i) + B * (i - n)
      BY <1>1, <1>4
    <3>2. B * (j - i) \in Int /\ B * (i - n) \in Int
      BY <1>1, <1>4
    <3>. QED
      BY <3>1, <3>2
  <2>. HIDE DEF a, b
  <2>4. (c + b) + a <= c + (a + b)
    BY <2>3
  <2>. QED
    BY <2>2, <2>3, <2>4 DEF a, b
<1>. QED
  BY <1>4, <1>5, <1>6, <1>7

-----------------------------------------------------------------------------
(* The clock moves on.                                                     *)
LEMMA MinuteBegins ==
    ASSUME WorldInv, NEW t, t = mnow + 1, NEW m \in Showings, M!NewMinute(t, m), t % B = 0
    PROVE  /\ IsStart(t)
           /\ DOMAIN quoted' = DOMAIN traded' /\ t \in DOMAIN traded'
           /\ \A b \in DOMAIN traded' : b # t =>
                  b \in DOMAIN traded /\ traded'[b] = traded[b] /\ quoted'[b] = quoted[b]
           /\ \A b \in DOMAIN traded : b >= t - M!reach => b \in DOMAIN traded'
           /\ \A p \in M!Products :
                  /\ traded'[t][p] \in Deals \cup {NoMark}
                  /\ quoted'[t][p] = m.quoted[p]
                  /\ quoted'[t][p] \in Nat \cup {NoMark}
           /\ \A u \in uncovered' : u \in uncovered \/ (u = t /\ next = NoMark)
           /\ \A u \in DOMAIN traded' : u \in uncovered => u = t \/ u \in uncovered'
           /\ next = NoMark => t \in uncovered'
<1>. DEFINE kept == {x \in DOMAIN traded : x >= t - M!reach}
<1>1. t \in Nat /\ mnow \in Nat /\ DOMAIN quoted = DOMAIN traded
      /\ \A b \in DOMAIN traded : b \in Nat /\ b <= mnow /\ b # t
  BY DEF WorldInv, IsStart
<1>2. /\ traded' = [x \in kept \cup {t} |-> IF x = t THEN m.traded ELSE traded[x]]
      /\ quoted' = [x \in kept \cup {t} |-> IF x = t THEN m.quoted ELSE quoted[x]]
      /\ uncovered' = (uncovered \cap kept) \cup (IF next = NoMark THEN {t} ELSE {})
  BY DEF M!NewMinute
<1>3. /\ m.traded \in [M!Products -> [px : Nat, vol : Nat \ {0}] \cup {NoMark}]
      /\ m.quoted \in [M!Products -> Nat \cup {NoMark}]
  BY SeriesAssumption DEF M!MarksAssumption
<1>4. \A x \in kept : x \in DOMAIN traded /\ x # t
  BY <1>1
<1>5. \A x \in DOMAIN traded : x >= t - M!reach => x \in kept
  OBVIOUS
<1>6. IsStart(t)
  BY <1>1 DEF IsStart
<1>. HIDE DEF kept
<1>7. /\ DOMAIN traded' = kept \cup {t} /\ DOMAIN quoted' = kept \cup {t}
      /\ traded'[t] = m.traded /\ quoted'[t] = m.quoted
      /\ \A x \in kept : x # t => traded'[x] = traded[x] /\ quoted'[x] = quoted[x]
  BY <1>2
<1>8. \A p \in M!Products :
          /\ traded'[t][p] \in Deals \cup {NoMark}
          /\ quoted'[t][p] = m.quoted[p]
          /\ quoted'[t][p] \in Nat \cup {NoMark}
  BY <1>3, <1>7 DEF Deals
<1>9. \A b \in DOMAIN traded' : b # t =>
          b \in DOMAIN traded /\ traded'[b] = traded[b] /\ quoted'[b] = quoted[b]
  BY <1>4, <1>7
<1>10. \A b \in DOMAIN traded : b >= t - M!reach => b \in DOMAIN traded'
  BY <1>5, <1>7
<1>11. \A u \in uncovered' : u \in uncovered \/ (u = t /\ next = NoMark)
  BY <1>2
<1>12. \A u \in DOMAIN traded' : u \in uncovered => u = t \/ u \in uncovered'
  BY <1>2, <1>7
<1>13. next = NoMark => t \in uncovered'
  BY <1>2
<1>14. DOMAIN quoted' = DOMAIN traded' /\ t \in DOMAIN traded'
  BY <1>7
<1>. QED
  BY <1>6, <1>8, <1>9, <1>10, <1>11, <1>12, <1>13, <1>14

LEMMA ClockKeepsWorld ==
    ASSUME WorldInv, M!AdvanceClock
    PROVE  WorldInv'
<1>1. mnow \in Nat /\ mnow' = mnow + 1 /\ M!reach \in Nat /\ M!reach' = M!reach
  BY MarksConstants DEF WorldInv, M!AdvanceClock, M!reach
<1>2. CASE mnow' % B = 0
  <2>1. PICK m \in Showings : M!NewMinute(mnow + 1, m)
    BY <1>1, <1>2 DEF M!AdvanceClock
  <2>2. (mnow + 1) % B = 0
    BY <1>1, <1>2
  <2>. DEFINE t == mnow + 1
  <2>9. t = mnow + 1 /\ M!NewMinute(t, m) /\ t % B = 0
    BY <2>1, <2>2
  <2>. HIDE DEF t
  <2>3. /\ IsStart(t) /\ DOMAIN quoted' = DOMAIN traded' /\ t \in DOMAIN traded'
        /\ \A b \in DOMAIN traded' : b # t =>
               b \in DOMAIN traded /\ traded'[b] = traded[b] /\ quoted'[b] = quoted[b]
        /\ \A b \in DOMAIN traded : b >= t - M!reach => b \in DOMAIN traded'
        /\ \A p \in M!Products :
               traded'[t][p] \in Deals \cup {NoMark} /\ quoted'[t][p] \in Nat \cup {NoMark}
    BY <2>9, MinuteBegins
  <2>4. t \in Nat /\ t <= t /\ mnow' = t
    BY <1>1, <2>9
  <2>5. \A b \in DOMAIN traded' : IsStart(b) /\ b <= t
    BY <1>1, <2>3, <2>4, <2>9 DEF WorldInv, IsStart
  <2>6. ASSUME NEW b \in Nat, IsStart(b), b <= t, t - M!reach <= b PROVE b \in DOMAIN traded'
    <3>1. CASE b = t
      BY <2>3, <3>1
    <3>2. CASE b # t
      <4>1. b <= mnow /\ mnow - M!reach <= b /\ b >= t - M!reach
        BY <1>1, <2>6, <2>9, <3>2
      <4>2. b \in DOMAIN traded
        BY <2>6, <4>1 DEF WorldInv
      <4>. QED
        BY <2>3, <4>1, <4>2
    <3>. QED
      BY <3>1, <3>2
  <2>7. \A b \in DOMAIN traded', p \in M!Products :
            /\ traded'[b][p] \in Deals \cup {NoMark}
            /\ quoted'[b][p] \in Nat \cup {NoMark}
    BY <2>3 DEF WorldInv
  <2>8. M!Products' = M!Products
    BY DEF M!Products
  <2>. QED
    BY <1>1, <2>3, <2>4, <2>5, <2>6, <2>7, <2>8 DEF WorldInv, IsStart
<1>3. CASE mnow' % B # 0
  <2>1. UNCHANGED <<traded, quoted>>
    BY <1>3 DEF M!AdvanceClock
  <2>2. ASSUME NEW b \in Nat, IsStart(b), b <= mnow', mnow' - M!reach <= b PROVE b \in DOMAIN traded
    <3>1. b # mnow'
      BY <1>3, <2>2 DEF IsStart
    <3>2. b <= mnow /\ mnow - M!reach <= b
      BY <1>1, <2>2, <3>1
    <3>. QED
      BY <2>2, <3>2 DEF WorldInv
  <2>3. \A b \in DOMAIN traded : IsStart(b) /\ b <= mnow'
    BY <1>1 DEF WorldInv, IsStart
  <2>4. M!Products' = M!Products /\ mnow' \in Nat
    BY <1>1 DEF M!Products
  <2>. QED
    BY <1>1, <2>1, <2>2, <2>3, <2>4 DEF WorldInv, IsStart
<1>. QED
  BY <1>2, <1>3

LEMMA ClockKeepsHandler ==
    ASSUME WorldInv, HandlerInv, TimerInv, M!AdvanceClock
    PROVE  HandlerInv' /\ TimerInv'
<1>1. mnow \in Nat /\ mnow' = mnow + 1 /\ beat' = beat + 1 /\ beat < Beat /\ next' = next
      /\ fires' = fires /\ mnow < fires + MaxLate
  BY DEF WorldInv, M!AdvanceClock
<1>2. /\ B \in Nat \ {0} /\ Beat \in Nat /\ Grace \in Nat /\ MaxLate \in Nat
      /\ M!W \in Nat /\ M!markDelay \in Nat
  BY MarksConstants
<1>3. TimerInv'
  <2>1. fires \in Int /\ mnow + 1 <= fires + MaxLate
    BY <1>1, <1>2 DEF TimerInv
  <2>2. M!markDelay' = M!markDelay /\ M!W' = M!W
    BY DEF M!markDelay, M!W
  <2>. QED
    BY <1>1, <2>1, <2>2 DEF TimerInv
<1>4. beat' \in Nat /\ beat' <= Beat
  BY <1>1, <1>2 DEF HandlerInv
<1>5. next' # NoMark => IsStart(next') /\ next' - B <= mnow' /\ mnow' - beat' < next' + B + Grace
  <2>. SUFFICES ASSUME next # NoMark
                PROVE  IsStart(next) /\ next - B <= mnow + 1 /\ (mnow + 1) - (beat + 1) < next + B + Grace
    BY <1>1
  <2>1. IsStart(next) /\ next \in Nat /\ beat \in Nat /\ next - B <= mnow
        /\ mnow - beat < next + B + Grace
    BY DEF HandlerInv, IsStart
  <2>. QED
    BY <1>1, <1>2, <2>1
<1>6. \A u \in uncovered' : u \in Nat /\ u <= mnow' /\ (next' # NoMark => u < next')
  <2>1. \A u \in uncovered : u \in Nat /\ u <= mnow + 1 /\ (next # NoMark => u < next)
    BY <1>1 DEF HandlerInv
  <2>2. CASE mnow' % B = 0
    <3>1. PICK m \in Showings : M!NewMinute(mnow + 1, m)
      BY <1>1, <2>2 DEF M!AdvanceClock
    <3>2. \A u \in uncovered' : u \in uncovered \/ (u = mnow + 1 /\ next = NoMark)
      BY <1>1, <2>2, <3>1, MinuteBegins
    <3>. QED
      BY <1>1, <2>1, <3>2
  <2>3. CASE mnow' % B # 0
    BY <1>1, <2>1, <2>3 DEF M!AdvanceClock
  <2>. QED
    BY <2>2, <2>3
<1>7. HandlerInv'
  BY <1>4, <1>5, <1>6 DEF HandlerInv, IsStart
<1>. QED
  BY <1>3, <1>7

LEMMA ClockKeepsBuckets ==
    ASSUME WorldInv, HandlerInv, M!AdvanceClock, NEW p \in M!Products, BucketsKnown(p)
    PROVE  BucketsKnown(p)'
<1>. DEFINE s == buckets[p]
<1>1. mnow \in Nat /\ mnow' = mnow + 1 /\ next' = next /\ buckets' = buckets
  BY DEF WorldInv, M!AdvanceClock
<1>2. B \in Nat \ {0} /\ BucketCap \in Nat /\ B * BucketCap \in Int
  BY MarksConstants
<1>3. /\ s \in Seq(BucketMarks) /\ Spaced(endTime, s)
      /\ \A i \in 1..Len(s) :
            /\ IsStart(s[i].end - B) /\ s[i].end <= mnow
            /\ next # NoMark => s[i].end <= next
            /\ s[i].end - B \notin uncovered
            /\ s[i].end - B \in DOMAIN traded => s[i].of = traded[s[i].end - B][p]
      /\ \A b \in DOMAIN traded \ uncovered :
            (next # NoMark => b < next) /\ mnow - B * BucketCap < b + B
               => \E i \in 1..Len(s) : s[i].end = b + B
  BY DEF BucketsKnown
<1>4. \A i \in 1..Len(s) : s[i].end \in Nat
  <2>. HIDE DEF s
  <2>1. \A i \in 1..Len(s) : s[i] \in BucketMarks
    BY <1>3
  <2>. QED
    BY <2>1 DEF BucketMarks
<1>5. \A b \in DOMAIN traded : b \in Nat
  BY DEF WorldInv, IsStart
<1>. HIDE DEF s
<1>6. /\ \A i \in 1..Len(s) :
            /\ s[i].end - B \notin uncovered'
            /\ s[i].end - B \in DOMAIN traded' => s[i].of = traded'[s[i].end - B][p]
      /\ \A b \in DOMAIN traded' \ uncovered' :
            (next # NoMark => b < next) /\ mnow' - B * BucketCap < b + B
               => \E i \in 1..Len(s) : s[i].end = b + B
  <2>1. CASE mnow' % B = 0
    <3>. DEFINE t == mnow + 1
    <3>1. t = mnow + 1 /\ t \in Nat /\ t % B = 0 /\ mnow' = t
      BY <1>1, <2>1
    <3>2. PICK m \in Showings : M!NewMinute(t, m)
      BY <1>1, <2>1 DEF M!AdvanceClock
    <3>. HIDE DEF t
    <3>3. /\ IsStart(t)
          /\ \A b \in DOMAIN traded' : b # t => b \in DOMAIN traded /\ traded'[b] = traded[b]
          /\ \A u \in uncovered' : u \in uncovered \/ (u = t /\ next = NoMark)
          /\ \A u \in DOMAIN traded' : u \in uncovered => u = t \/ u \in uncovered'
          /\ next = NoMark => t \in uncovered'
      BY <3>1, <3>2, MinuteBegins
    <3>4. \A i \in 1..Len(s) : s[i].end - B # t
      BY <1>1, <1>2, <1>3, <1>4, <3>1
    <3>5. \A i \in 1..Len(s) :
            /\ s[i].end - B \notin uncovered'
            /\ s[i].end - B \in DOMAIN traded' => s[i].of = traded'[s[i].end - B][p]
      BY <1>3, <3>3, <3>4
    <3>6. ASSUME NEW b \in DOMAIN traded' \ uncovered', next # NoMark => b < next,
                 t - B * BucketCap < b + B
          PROVE  \E i \in 1..Len(s) : s[i].end = b + B
      <4>1. b # t
        <5>. SUFFICES ASSUME b = t PROVE FALSE
          OBVIOUS
        <5>1. next # NoMark /\ t < next
          BY <3>3, <3>6
        <5>2. IsStart(next) /\ next - B <= mnow
          BY <5>1 DEF HandlerInv
        <5>3. next \in Int /\ t \in Int /\ next < t + B /\ next % B = 0
          BY <1>1, <1>2, <3>1, <5>2 DEF IsStart
        <5>4. next <= t
          BY <1>2, <3>1, <5>3, NoLaterInside
        <5>. QED
          BY <5>1, <5>3, <5>4
      <4>2. b \in DOMAIN traded \ uncovered
        BY <3>3, <3>6, <4>1
      <4>3. mnow - B * BucketCap < b + B
        BY <1>1, <1>2, <1>5, <3>1, <3>6, <4>2
      <4>. QED
        BY <1>3, <3>6, <4>2, <4>3
    <3>. QED
      BY <3>1, <3>5, <3>6
  <2>2. CASE mnow' % B # 0
    <3>1. traded' = traded /\ uncovered' = uncovered
      BY <2>2 DEF M!AdvanceClock
    <3>2. \A b \in DOMAIN traded : mnow' - B * BucketCap < b + B => mnow - B * BucketCap < b + B
      BY <1>1, <1>2, <1>5
    <3>. QED
      BY <1>3, <3>1, <3>2
  <2>. QED
    BY <2>1, <2>2
<1>7. \A i \in 1..Len(s) : s[i].end <= mnow'
  BY <1>1, <1>3, <1>4
<1>8. s' = s
  BY <1>1 DEF s
<1>. QED
  BY <1>1, <1>3, <1>6, <1>7, <1>8 DEF BucketsKnown, s, Spaced, IsStart

LEMMA ClockKeepsMids ==
    ASSUME WorldInv, M!AdvanceClock, NEW p \in M!Products, MidsKnown(p)
    PROVE  MidsKnown(p)'
<1>. DEFINE s == mids[p]
<1>1. mnow \in Nat /\ mnow' = mnow + 1
  BY DEF WorldInv, M!AdvanceClock
<1>2. B \in Nat \ {0} /\ MidCap \in Nat \ {0} /\ B * MidCap \in Nat \ {0}
  <2>1. \A x, y \in Nat \ {0} : x * y \in Nat \ {0}
    OBVIOUS
  <2>. QED
    BY <2>1, MarksConstants
<1>3. /\ s \in Seq(MidMarks) /\ Spaced(madeAt, s)
      /\ \A i \in 1..Len(s) :
            /\ IsStart(s[i].at) /\ s[i].at <= mnow
            /\ s[i].at \in DOMAIN traded => s[i].mid = quoted[s[i].at][p]
      /\ \A b \in DOMAIN traded :
            quoted[b][p] # NoMark /\ mnow - B * MidCap < b => \E i \in 1..Len(s) : s[i].at = b
  BY DEF MidsKnown
<1>4. \A b \in DOMAIN traded : b \in Nat
  BY DEF WorldInv, IsStart
<1>5. \A i \in 1..Len(s) : s[i] \in MidMarks /\ s[i].at \in Nat /\ madeAt[s[i]] = s[i].at
  <2>. HIDE DEF s
  <2>1. \A i \in 1..Len(s) : s[i] \in MidMarks
    BY <1>3
  <2>2. \A x \in MidMarks : x.at \in Nat /\ madeAt[x] = x.at
    BY DEF MidMarks, madeAt
  <2>. QED
    BY <2>1, <2>2
<1>6. Len(s) \in Nat
  BY <1>3
<1>. HIDE DEF s
<1>7. CASE mnow' % B # 0
  <2>1. mids' = mids /\ traded' = traded /\ quoted' = quoted
    BY <1>7 DEF M!AdvanceClock
  <2>2. \A b \in DOMAIN traded : mnow' - B * MidCap < b => mnow - B * MidCap < b
    BY <1>1, <1>2, <1>4
  <2>3. \A i \in 1..Len(s) : s[i].at <= mnow'
    BY <1>1, <1>3, <1>5
  <2>4. s' = s
    BY <2>1 DEF s
  <2>. QED
    BY <1>3, <2>1, <2>2, <2>3, <2>4 DEF MidsKnown, s, Spaced, IsStart
<1>8. CASE mnow' % B = 0
  <2>. DEFINE t == mnow + 1
  <2>1. t = mnow + 1 /\ t \in Nat /\ t % B = 0 /\ mnow' = t
    BY <1>1, <1>8
  <2>2. PICK m \in Showings : M!NewMinute(t, m)
    BY <1>1, <1>8 DEF M!AdvanceClock
  <2>. HIDE DEF t
  <2>3. /\ IsStart(t) /\ t \in DOMAIN traded'
        /\ \A b \in DOMAIN traded' : b # t => b \in DOMAIN traded /\ quoted'[b] = quoted[b]
        /\ quoted'[t][p] = m.quoted[p] /\ quoted'[t][p] \in Nat \cup {NoMark}
    BY <2>1, <2>2, MinuteBegins
  <2>4. mids'[p] = IF m.quoted[p] = NoMark THEN s
                   ELSE M!trim(Append(s, [at |-> t, mid |-> m.quoted[p]]), MidCap)
    BY <2>2 DEF M!NewMinute, s
  <2>5. \A i \in 1..Len(s) : s[i].at < t /\ s[i].at # t
    BY <1>1, <1>3, <1>5, <2>1
  <2>6. CASE m.quoted[p] = NoMark
    <3>1. mids'[p] = s
      BY <2>4, <2>6
    <3>2. \A i \in 1..Len(s) : /\ IsStart(s[i].at) /\ s[i].at <= mnow'
                               /\ s[i].at \in DOMAIN traded' => s[i].mid = quoted'[s[i].at][p]
      BY <1>3, <1>5, <2>1, <2>3, <2>5
    <3>3. ASSUME NEW b \in DOMAIN traded', quoted'[b][p] # NoMark, mnow' - B * MidCap < b
          PROVE  \E i \in 1..Len(s) : s[i].at = b
      <4>1. b # t
        BY <2>3, <2>6, <3>3
      <4>2. b \in DOMAIN traded /\ quoted[b][p] # NoMark /\ b \in Nat
        BY <1>4, <2>3, <3>3, <4>1
      <4>3. mnow - B * MidCap < b
        BY <1>1, <1>2, <3>3, <4>2
      <4>. QED
        BY <1>3, <4>2, <4>3
    <3>. QED
      BY <1>3, <3>1, <3>2, <3>3 DEF MidsKnown, Spaced, IsStart
  <2>7. CASE m.quoted[p] # NoMark
    <3>. DEFINE e == [at |-> t, mid |-> m.quoted[p]]
                q == Append(s, e)
                r == M!trim(q, MidCap)
    <3>1. e \in MidMarks /\ e.at = t /\ madeAt[e] = t /\ e.mid = quoted'[t][p]
      BY <2>1, <2>3, <2>7 DEF MidMarks, madeAt
    <3>2. mids'[p] = r
      BY <2>4, <2>7
    <3>. HIDE DEF e
    <3>3. q \in Seq(MidMarks) /\ Len(q) = Len(s) + 1 /\ q[Len(s) + 1] = e
          /\ \A i \in 1..Len(s) : q[i] = s[i]
      BY <1>3, <3>1
    <3>. HIDE DEF q, r
    <3>4. madeAt \in [MidMarks -> Int]
      BY DEF madeAt, MidMarks
    <3>5. Spaced(madeAt, q)
      <4>1. t - B \in Int /\ 1 \in Nat /\ B * 1 = B
        BY <1>2, <2>1
      <4>2. \A i \in 1..1 : madeAt[q[Len(s) + i]] = (t - B) + B * i
        BY <1>2, <2>1, <3>1, <3>3, <4>1
      <4>3. Len(s) # 0 => madeAt[s[Len(s)]] <= t - B
        <5>. SUFFICES ASSUME Len(s) # 0 PROVE madeAt[s[Len(s)]] <= t - B
          OBVIOUS
        <5>. DEFINE v == s[Len(s)].at
        <5>1. Len(s) \in 1..Len(s)
          BY <1>6
        <5>2. v \in Nat /\ v % B = 0 /\ v < t /\ madeAt[s[Len(s)]] = v
          BY <1>3, <1>5, <2>5, <5>1 DEF IsStart
        <5>. HIDE DEF v
        <5>3. v + B <= t
          BY <1>2, <2>1, <5>2, MultiplesJoin
        <5>. QED
          BY <1>2, <2>1, <5>2, <5>3
      <4>. QED
        <5>1. Joins(q, s, 1, madeAt, t - B)
          BY <3>3, <4>2, <4>3 DEF Joins
        <5>. QED
          BY <1>3, <3>3, <3>4, <4>1, <5>1, JoinKeeps
    <3>6. \A i \in 1..Len(q) : i \in 1..Len(s) \/ i = Len(s) + 1
      BY <1>6, <3>3
    <3>7. \A i \in 1..Len(q) : /\ madeAt[q[i]] = q[i].at /\ q[i].at <= t /\ IsStart(q[i].at)
                               /\ q[i].at \in DOMAIN traded' => q[i].mid = quoted'[q[i].at][p]
      <4>1. t <= t
        BY <2>1
      <4>2. \A i \in 1..Len(s) : /\ madeAt[s[i]] = s[i].at /\ s[i].at <= t /\ IsStart(s[i].at)
                                 /\ s[i].at \in DOMAIN traded' => s[i].mid = quoted'[s[i].at][p]
        BY <1>3, <1>5, <2>1, <2>3, <2>5
      <4>. QED
        BY <2>3, <3>1, <3>3, <3>6, <4>1, <4>2
    <3>8. /\ r \in Seq(MidMarks) /\ Spaced(madeAt, r)
          /\ \A i \in 1..Len(r) : \E j \in 1..Len(q) : r[i] = q[j]
          /\ \A j \in 1..Len(q) : t - B * MidCap < madeAt[q[j]] => \E i \in 1..Len(r) : r[i] = q[j]
      <4>1. t \in Int /\ UpTo(madeAt, q, t)
        BY <2>1, <3>7 DEF UpTo
      <4>. QED
        <5>1. r \in Seq(MidMarks) /\ Keeps(r, q, madeAt, t - B * MidCap)
          BY <1>2, <3>3, <3>4, <3>5, <4>1, TrimKeeps DEF r
        <5>. QED
          BY <5>1 DEF Keeps
    <3>9. \A i \in 1..Len(r) : /\ r[i].at <= t /\ IsStart(r[i].at)
                               /\ r[i].at \in DOMAIN traded' => r[i].mid = quoted'[r[i].at][p]
      BY <3>7, <3>8
    <3>10. ASSUME NEW b \in DOMAIN traded', quoted'[b][p] # NoMark, t - B * MidCap < b
           PROVE  \E i \in 1..Len(r) : r[i].at = b
      <4>1. \E j \in 1..Len(q) : q[j].at = b
        <5>1. CASE b = t
          <6>1. Len(s) + 1 \in 1..Len(q)
            BY <1>6, <3>3
          <6>. QED
            BY <3>1, <3>3, <5>1, <6>1
        <5>2. CASE b # t
          <6>1. b \in DOMAIN traded /\ quoted[b][p] # NoMark /\ b \in Nat
            BY <1>4, <2>3, <3>10, <5>2
          <6>2. mnow - B * MidCap < b
            BY <1>1, <1>2, <2>1, <3>10, <6>1
          <6>3. PICK i \in 1..Len(s) : s[i].at = b
            BY <1>3, <6>1, <6>2
          <6>4. i \in 1..Len(q)
            BY <1>6, <3>3
          <6>. QED
            BY <3>3, <6>3, <6>4
        <5>. QED
          BY <5>1, <5>2
      <4>2. PICK j \in 1..Len(q) : q[j].at = b
        BY <4>1
      <4>3. t - B * MidCap < madeAt[q[j]]
        BY <3>7, <3>10, <4>2
      <4>. QED
        BY <3>8, <4>2, <4>3
    <3>. QED
      BY <2>1, <3>2, <3>8, <3>9, <3>10 DEF MidsKnown, Spaced, IsStart
  <2>. QED
    BY <2>6, <2>7
<1>. QED
  BY <1>7, <1>8

-----------------------------------------------------------------------------
(* A frame closes every bucket that ended more than the grace before.      *)
LEMMA ClosingIs ==
    ASSUME mnow \in Nat, next \in Nat
    PROVE  /\ M!closing \in Nat /\ B * M!closing \in Nat
           /\ mnow < next + B * M!closing + B + Grace
           /\ M!closing # 0 => next + B * M!closing + Grace <= mnow
<1>1. B \in Nat \ {0} /\ Grace \in Nat /\ next # NoMark
  BY MarksConstants
<1>. DEFINE e == mnow - Grace - next
            d == e \div B
            r == e % B
<1>2. CASE next + B + Grace > mnow
  <2>1. M!closing = 0 /\ B * 0 = 0
    BY <1>1, <1>2 DEF M!closing
  <2>. QED
    BY <1>1, <1>2, <2>1
<1>3. CASE ~(next + B + Grace > mnow)
  <2>1. M!closing = d
    BY <1>1, <1>3 DEF M!closing
  <2>2. e \in Nat
    BY <1>1, <1>3
  <2>3. next + Grace + e = mnow
    BY <1>1
  <2>. HIDE DEF e
  <2>4. d \in Nat /\ r \in 0..(B - 1) /\ e = (B * d) + r
    BY <1>1, <2>2
  <2>5. B * d \in Nat
    <3>1. \A x, y \in Nat : x * y \in Nat
      OBVIOUS
    <3>. QED
      BY <1>1, <2>4, <3>1
  <2>. HIDE DEF d, r
  <2>6. mnow < next + B * d + B + Grace /\ next + B * d + Grace <= mnow
    BY <1>1, <2>2, <2>3, <2>4, <2>5
  <2>. QED
    BY <2>1, <2>4, <2>5, <2>6
<1>. QED
  BY <1>2, <1>3

LEMMA ReconnectKeeps ==
    ASSUME WorldInv, HandlerInv, M!Reconnect
    PROVE  HandlerInv' /\ \A p \in M!Products : BucketsKnown(p) => BucketsKnown(p)'
<1>1. /\ next # NoMark /\ next' = NoMark /\ beat' = beat /\ mnow' = mnow /\ traded' = traded
      /\ buckets' = buckets /\ uncovered' = uncovered \cup {b \in DOMAIN traded : b >= next}
  BY DEF M!Reconnect, M!world, M!memory
<1>2. mnow \in Nat /\ \A b \in DOMAIN traded : b \in Nat /\ b <= mnow
  BY DEF WorldInv, IsStart
<1>3. HandlerInv'
  <2>1. \A u \in uncovered' : u \in Nat /\ u <= mnow
    BY <1>1, <1>2 DEF HandlerInv
  <2>2. beat' \in Nat /\ beat' <= Beat
    BY <1>1 DEF HandlerInv
  <2>. QED
    BY <1>1, <2>1, <2>2 DEF HandlerInv
<1>4. ASSUME NEW p \in M!Products, BucketsKnown(p) PROVE BucketsKnown(p)'
  <2>. DEFINE s == buckets[p]
  <2>1. /\ s \in Seq(BucketMarks) /\ Spaced(endTime, s)
        /\ \A i \in 1..Len(s) :
              /\ IsStart(s[i].end - B) /\ s[i].end <= mnow
              /\ s[i].end <= next
              /\ s[i].end - B \notin uncovered
              /\ s[i].end - B \in DOMAIN traded => s[i].of = traded[s[i].end - B][p]
        /\ \A b \in DOMAIN traded \ uncovered :
              b < next /\ mnow - B * BucketCap < b + B => \E i \in 1..Len(s) : s[i].end = b + B
    BY <1>1, <1>4 DEF BucketsKnown
  <2>2. next \in Nat /\ B \in Nat \ {0}
    BY <1>1, MarksConstants DEF HandlerInv, IsStart
  <2>. HIDE DEF s
  <2>3. \A i \in 1..Len(s) : s[i].end \in Nat
    <3>1. \A i \in 1..Len(s) : s[i] \in BucketMarks
      BY <2>1
    <3>. QED
      BY <3>1 DEF BucketMarks
  <2>4. \A i \in 1..Len(s) : s[i].end - B \notin uncovered'
    BY <1>1, <2>1, <2>2, <2>3
  <2>5. \A b \in DOMAIN traded \ uncovered' : b \in DOMAIN traded \ uncovered /\ b < next
    BY <1>1, <1>2, <2>2
  <2>6. s' = s
    BY <1>1 DEF s
  <2>7. \A b \in DOMAIN traded \ uncovered' :
           mnow - B * BucketCap < b + B => \E i \in 1..Len(s) : s[i].end = b + B
    BY <2>1, <2>5
  <2>. QED
    BY <1>1, <2>1, <2>4, <2>6, <2>7 DEF BucketsKnown, s, Spaced, IsStart
<1>. QED
  BY <1>3, <1>4

LEMMA FrameKeepsHandler ==
    ASSUME WorldInv, HandlerInv, M!Frame
    PROVE  HandlerInv'
<1>1. beat' = 0 /\ mnow' = mnow /\ uncovered' = uncovered
      /\ next' = IF next = NoMark THEN M!truncate(mnow, B) + B ELSE next + B * M!closing
  BY DEF M!Frame, M!world
<1>2. mnow \in Nat /\ B \in Nat \ {0} /\ Grace \in Nat /\ Beat \in Nat
  BY MarksConstants DEF WorldInv
<1>3. \A u \in uncovered : u \in Nat /\ u <= mnow /\ (next # NoMark => u < next)
  BY DEF HandlerInv
<1>4. next' \in Nat /\ next' % B = 0 /\ next' - B <= mnow /\ mnow < next' + B + Grace
      /\ \A u \in uncovered : u < next'
  <2>1. CASE next = NoMark
    <3>. DEFINE a == M!truncate(mnow, B)
    <3>1. a \in Nat /\ a % B = 0 /\ a <= mnow /\ mnow < a + B /\ next' = a + B
      BY <1>1, <1>2, <2>1, TruncateIs
    <3>. HIDE DEF a
    <3>2. (a + B * 1) % B = 0 /\ B * 1 = B
      BY <1>2, <3>1, MultiplesJoin
    <3>. QED
      BY <1>2, <1>3, <3>1, <3>2
  <2>2. CASE next # NoMark
    <3>1. next \in Nat /\ next % B = 0 /\ next - B <= mnow
      BY <2>2 DEF HandlerInv, IsStart
    <3>. DEFINE a == B * M!closing
    <3>2. M!closing \in Nat /\ a \in Nat /\ mnow < next + a + B + Grace
          /\ (M!closing # 0 => next + a + Grace <= mnow) /\ (M!closing = 0 => a = 0)
      BY <1>2, <3>1, ClosingIs
    <3>3. next' = next + a
      BY <1>1, <2>2
    <3>5. next \in Int /\ M!closing \in Int /\ a = B * M!closing
      BY <3>1, <3>2
    <3>. HIDE DEF a
    <3>4. (next + a) % B = 0
      BY <1>2, <3>1, <3>5, FurtherOn
    <3>. QED
      BY <1>2, <1>3, <2>2, <3>1, <3>2, <3>3, <3>4
  <2>. QED
    BY <2>1, <2>2
<1>. QED
  BY <1>1, <1>2, <1>3, <1>4 DEF HandlerInv, IsStart

LEMMA FrameKeepsBuckets ==
    ASSUME Beat <= markMargin, WorldInv, HandlerInv, M!Frame,
           NEW p \in M!Products, BucketsKnown(p)
    PROVE  BucketsKnown(p)'
<1>. DEFINE s == buckets[p]
            k == M!closing
<1>1. mnow \in Nat /\ mnow' = mnow /\ traded' = traded /\ uncovered' = uncovered
      /\ next' = (IF next = NoMark THEN M!truncate(mnow, B) + B ELSE next + B * k)
      /\ buckets'[p] = IF next = NoMark THEN s ELSE M!observed(p)
  BY DEF WorldInv, M!Frame, M!world
<1>2. /\ B \in Nat \ {0} /\ BucketCap \in Nat \ {0} /\ B * BucketCap \in Int /\ Grace \in Nat
      /\ M!W \in Nat /\ B <= M!W /\ M!markDelay = Grace + markMargin /\ MaxLate \in Nat
      /\ M!reach = M!W + M!markDelay + MaxLate /\ markMargin \in Nat /\ Beat \in Nat
  BY MarksConstants
<1>3. /\ s \in Seq(BucketMarks) /\ Spaced(endTime, s)
      /\ \A i \in 1..Len(s) :
            /\ IsStart(s[i].end - B) /\ s[i].end <= mnow
            /\ next # NoMark => s[i].end <= next
            /\ s[i].end - B \notin uncovered
            /\ s[i].end - B \in DOMAIN traded => s[i].of = traded[s[i].end - B][p]
      /\ \A b \in DOMAIN traded \ uncovered :
            (next # NoMark => b < next) /\ mnow - B * BucketCap < b + B
               => \E i \in 1..Len(s) : s[i].end = b + B
  BY DEF BucketsKnown
<1>4. Len(s) \in Nat /\ \A i \in 1..Len(s) : s[i].end \in Nat /\ s[i] \in BucketMarks
                                              /\ endTime[s[i]] = s[i].end
  <2>. HIDE DEF s
  <2>1. Len(s) \in Nat /\ \A i \in 1..Len(s) : s[i] \in BucketMarks
    BY <1>3
  <2>2. \A x \in BucketMarks : x.end \in Nat /\ endTime[x] = x.end
    BY DEF BucketMarks, endTime
  <2>. QED
    BY <2>1, <2>2
<1>5. HandlerInv' /\ \A u \in uncovered : u \in Nat /\ (next # NoMark => u < next)
  BY FrameKeepsHandler DEF HandlerInv
<1>. HIDE DEF s, k
<1>6. CASE next = NoMark
  <2>1. buckets'[p] = s
    BY <1>1, <1>6
  <2>2. \A i \in 1..Len(s) : next' # NoMark => s[i].end <= next'
    <3>1. next' = M!truncate(mnow, B) + B /\ M!truncate(mnow, B) \in Nat
          /\ mnow < M!truncate(mnow, B) + B
      BY <1>1, <1>2, <1>6, TruncateIs
    <3>. QED
      BY <1>1, <1>2, <1>3, <1>4, <3>1
  <2>3. \A b \in DOMAIN traded \ uncovered : mnow - B * BucketCap < b + B
            => \E i \in 1..Len(s) : s[i].end = b + B
    BY <1>3, <1>6
  <2>. QED
    BY <1>1, <1>3, <2>1, <2>2, <2>3 DEF BucketsKnown, Spaced, IsStart
<1>7. CASE next # NoMark
  <2>. DEFINE e(i) == [end |-> next + B * i, of |-> traded[next + B * (i - 1)][p]]
              z == [i \in 1..k |-> e(i)]
              q == s \o z
              r == M!trim(q, BucketCap)
  <2>1. buckets'[p] = r /\ next' = next + B * k
    BY <1>1, <1>7 DEF M!observed, k, s
  <2>2. IsStart(next) /\ next \in Nat /\ next % B = 0 /\ mnow < next + B + Grace + Beat
    <3>1. IsStart(next) /\ next \in Nat /\ next % B = 0 /\ beat \in Nat /\ beat <= Beat
          /\ mnow - beat < next + B + Grace
      BY <1>7 DEF HandlerInv, IsStart
    <3>. QED
      BY <1>1, <1>2, <3>1
  <2>3. k \in Nat /\ B * k \in Nat /\ (k # 0 => next + B * k + Grace <= mnow)
    BY <1>1, <2>2, ClosingIs DEF k
(* A bucket a frame closes.                                                *)
  <2>4. ASSUME NEW i \in 1..k
        PROVE  /\ next + B * (i - 1) \in DOMAIN traded /\ IsStart(next + B * (i - 1))
               /\ next + B * i \in Nat /\ next + B * i <= mnow /\ next + B * i <= next + B * k
               /\ next <= next + B * (i - 1) /\ (next + B * i) - B = next + B * (i - 1)
    <3>1. i - 1 \in Nat /\ k - i \in Nat /\ i \in Int /\ k # 0
      BY <2>3
    <3>2. B * (i - 1) \in Nat /\ B * (k - i) \in Nat
      <4>1. \A x, y \in Nat : x * y \in Nat
        OBVIOUS
      <4>. QED
        BY <1>2, <3>1, <4>1
    <3>3. B * i = B * (i - 1) + B
      BY <1>2, <3>1
    <3>4. B * k = B * i + B * (k - i)
      BY <1>2, <2>3, <3>1
    <3>. DEFINE a == B * (i - 1)
                c == B * i
                d == B * (k - i)
                g == B * k
    <3>. HIDE DEF a, c, d, g
    <3>5. /\ a \in Nat /\ d \in Nat /\ c = a + B /\ g = c + d /\ next + g + Grace <= mnow
          /\ B \in Nat \ {0} /\ Grace \in Nat /\ mnow \in Nat /\ next \in Nat
      BY <1>1, <1>2, <2>2, <2>3, <3>1, <3>2, <3>3, <3>4 DEF a, c, d, g
    <3>6. next + a \in Nat /\ next + c \in Nat /\ next + c <= mnow /\ next + c <= next + g
          /\ next <= next + a /\ (next + c) - B = next + a /\ next + a <= mnow
      BY <3>5
    <3>7. (next + a) % B = 0
      <4>1. next \in Int /\ next % B = 0 /\ i - 1 \in Int /\ a = B * (i - 1) /\ B \in Nat \ {0}
        BY <1>2, <2>2, <3>1 DEF a
      <4>. QED
        BY <4>1, FurtherOn
    <3>8. mnow - M!reach <= next + a
      BY <1>2, <2>2, <3>5
    <3>9. IsStart(next + a) /\ next + a \in DOMAIN traded
      BY <3>6, <3>7, <3>8 DEF IsStart, WorldInv
    <3>. QED
      BY <3>6, <3>9 DEF a, c, g
  <2>5. ASSUME NEW i \in 1..k
        PROVE  e(i) \in BucketMarks /\ e(i).end = next + B * i /\ endTime[e(i)] = next + B * i
               /\ e(i).of = traded[next + B * (i - 1)][p]
    <3>. DEFINE x == next + B * i
                y == traded[next + B * (i - 1)][p]
    <3>1. x \in Nat /\ y \in Deals \cup {NoMark}
      BY <2>4 DEF WorldInv
    <3>. HIDE DEF x, y
    <3>2. [end |-> x, of |-> y] \in BucketMarks
      BY <3>1 DEF BucketMarks
    <3>3. endTime[[end |-> x, of |-> y]] = x
      BY <3>2 DEF endTime
    <3>. QED
      BY <3>2, <3>3 DEF x, y
  <2>. HIDE DEF e
  <2>6. z \in Seq(BucketMarks) /\ Len(z) = k /\ \A i \in 1..k : z[i] = e(i)
    BY <2>3, <2>5
  <2>. HIDE DEF z
  <2>7. q \in Seq(BucketMarks) /\ Len(q) = Len(s) + k /\ (\A i \in 1..Len(s) : q[i] = s[i])
        /\ \A i \in 1..k : q[Len(s) + i] = e(i)
    <3>1. q \in Seq(BucketMarks) /\ Len(q) = Len(s) + k
      <4>1. \A X, x, y : x \in Seq(X) /\ y \in Seq(X) => x \o y \in Seq(X) /\ Len(x \o y) = Len(x) + Len(y)
        OBVIOUS
      <4>. QED
        BY <1>3, <2>6, <4>1
    <3>2. \A i \in 1..Len(s) : q[i] = s[i]
      BY <1>3, <1>4, <2>3, <2>6
    <3>3. ASSUME NEW i \in 1..k PROVE q[Len(s) + i] = e(i)
      <4>1. Len(s) + i \in 1..(Len(s) + Len(z)) /\ Len(s) + i > Len(s) /\ (Len(s) + i) - Len(s) = i
        BY <1>4, <2>3, <2>6
      <4>2. q[Len(s) + i] = z[(Len(s) + i) - Len(s)]
        BY <1>3, <2>6, <4>1
      <4>. QED
        BY <2>6, <4>1, <4>2
    <3>. QED
      BY <3>1, <3>2, <3>3
  <2>. HIDE DEF q, r
  <2>8. endTime \in [BucketMarks -> Int]
    BY DEF endTime, BucketMarks
  <2>9. Spaced(endTime, q)
    <3>1. Len(s) # 0 => endTime[s[Len(s)]] <= next
      <4>1. Len(s) # 0 => Len(s) \in 1..Len(s)
        BY <1>4
      <4>. QED
        BY <1>3, <1>4, <1>7, <4>1
    <3>2. next \in Int /\ \A i \in 1..k : endTime[q[Len(s) + i]] = next + B * i
      BY <2>2, <2>5, <2>7
    <3>. QED
      <4>1. Joins(q, s, k, endTime, next)
        BY <2>7, <3>1, <3>2 DEF Joins
      <4>. QED
        BY <1>3, <2>3, <2>7, <2>8, <3>2, <4>1, JoinKeeps
  <2>10. \A j \in 1..Len(q) : j \in 1..Len(s) \/ \E i \in 1..k : j = Len(s) + i
    <3>. SUFFICES ASSUME NEW j \in 1..Len(q), j \notin 1..Len(s) PROVE \E i \in 1..k : j = Len(s) + i
      OBVIOUS
    <3>1. j - Len(s) \in 1..k /\ j = Len(s) + (j - Len(s))
      BY <1>4, <2>3, <2>7
    <3>. QED
      BY <3>1
  <2>. DEFINE Known(x) ==
                 /\ endTime[x] = x.end /\ IsStart(x.end - B) /\ x.end <= mnow /\ x.end <= next + B * k
                 /\ x.end - B \notin uncovered
                 /\ x.end - B \in DOMAIN traded => x.of = traded[x.end - B][p]
  <2>11. \A j \in 1..Len(q) : Known(q[j])
    <3>1. ASSUME NEW i \in 1..Len(s) PROVE Known(s[i])
      <4>1. s[i].end <= next /\ s[i].end \in Nat
        BY <1>3, <1>4, <1>7
      <4>2. s[i].end <= next + B * k
        BY <2>2, <2>3, <4>1
      <4>. QED
        BY <1>3, <1>4, <4>2
    <3>2. ASSUME NEW i \in 1..k PROVE Known(e(i))
      <4>1. next + B * (i - 1) \notin uncovered
        <5>1. next + B * (i - 1) \in Int /\ next <= next + B * (i - 1)
          BY <2>4 DEF IsStart
        <5>. QED
          BY <1>5, <1>7, <2>2, <5>1
      <4>2. e(i).end - B = next + B * (i - 1) /\ e(i).end = next + B * i
            /\ e(i).of = traded[next + B * (i - 1)][p] /\ endTime[e(i)] = next + B * i
        BY <2>4, <2>5
      <4>. QED
        BY <2>4, <4>1, <4>2
    <3>. HIDE DEF Known
    <3>. QED
      BY <2>7, <2>10, <3>1, <3>2
  <2>12. r \in Seq(BucketMarks) /\ Keeps(r, q, endTime, mnow - B * BucketCap)
    <3>1. mnow \in Int /\ UpTo(endTime, q, mnow)
      BY <1>1, <2>11 DEF UpTo
    <3>. QED
      BY <1>2, <2>7, <2>8, <2>9, <3>1, TrimKeeps DEF r
  <2>13. \A i \in 1..Len(r) : Known(r[i])
    <3>. HIDE DEF Known
    <3>. QED
      BY <2>11, <2>12 DEF Keeps
  <2>14. ASSUME NEW b \in DOMAIN traded \ uncovered, b < next + B * k, mnow - B * BucketCap < b + B
         PROVE  \E i \in 1..Len(r) : r[i].end = b + B
    <3>1. \E j \in 1..Len(q) : q[j].end = b + B
      <4>1. CASE b < next
        <5>1. PICK i \in 1..Len(s) : s[i].end = b + B
          BY <1>3, <2>14, <4>1
        <5>2. i \in 1..Len(q) /\ q[i] = s[i]
          BY <1>4, <2>3, <2>7
        <5>. QED
          BY <5>1, <5>2
      <4>2. CASE ~(b < next)
        <5>1. b \in Nat /\ b % B = 0
          BY DEF WorldInv, IsStart
        <5>2. (b - next) % B = 0 /\ b - next \in Int
          <6>1. b \in Int /\ next \in Int /\ next % B = 0 /\ b % B = 0 /\ B \in Nat \ {0}
            BY <1>2, <2>2, <5>1
          <6>2. (b - next) % B = 0
            BY <6>1, MultiplesJoin
          <6>. QED
            BY <6>1, <6>2
        <5>3. PICK y \in Int : b - next = B * y
          BY <1>2, <5>2, OnBoundary
        <5>4. 0 <= y /\ y < k
          <6>1. ~(y < 0)
            <7>. SUFFICES ASSUME y < 0 PROVE FALSE
              OBVIOUS
            <7>1. B * (0 - y) \in Nat /\ B * (0 - y) = 0 - B * y /\ 0 - y \in Nat \ {0}
              <8>1. 0 - y \in Nat \ {0}
                OBVIOUS
              <8>2. \A x \in Nat, w \in Nat : x * w \in Nat
                OBVIOUS
              <8>. QED
                BY <1>2, <8>1, <8>2
            <7>2. \A x, w \in Nat \ {0} : x * w # 0
              OBVIOUS
            <7>3. B * (0 - y) # 0
              BY <1>2, <7>1, <7>2
            <7>. DEFINE u == B * y
                        v == B * (0 - y)
            <7>4. u \in Int /\ v \in Nat \ {0} /\ v = 0 - u /\ b - next = u
              BY <1>2, <5>3, <7>1, <7>3
            <7>. HIDE DEF u, v
            <7>. QED
              BY <2>2, <4>2, <5>1, <7>4
          <6>2. ~(k <= y)
            <7>. SUFFICES ASSUME k <= y PROVE FALSE
              OBVIOUS
            <7>1. y - k \in Nat
              BY <2>3
            <7>2. B * (y - k) \in Nat
              <8>1. \A x \in Nat, w \in Nat : x * w \in Nat
                OBVIOUS
              <8>. QED
                BY <1>2, <7>1, <8>1
            <7>3. B * y = B * k + B * (y - k)
              BY <1>2, <2>3
            <7>. DEFINE u == B * y
                        v == B * (y - k)
                        g == B * k
            <7>4. v \in Nat /\ g \in Nat /\ u = g + v /\ b - next = u /\ b < next + g
              BY <2>3, <2>14, <5>3, <7>2, <7>3
            <7>. HIDE DEF u, v, g
            <7>. QED
              BY <2>2, <5>1, <7>4
          <6>. QED
            BY <2>3, <6>1, <6>2
        <5>5. y + 1 \in 1..k /\ B * (y + 1) = B * y + B
          BY <1>2, <2>3, <5>4
        <5>6. e(y + 1).end = next + B * (y + 1)
          BY <2>5, <5>5
        <5>7. B * y \in Int /\ next + (B * y + B) = b + B
          BY <1>2, <2>2, <5>1, <5>3
        <5>8. Len(s) + (y + 1) \in 1..Len(q) /\ q[Len(s) + (y + 1)] = e(y + 1)
          BY <1>4, <2>3, <2>7, <5>5
        <5>9. e(y + 1).end = b + B
          BY <5>5, <5>6, <5>7
        <5>. QED
          BY <5>8, <5>9
      <4>. QED
        BY <4>1, <4>2
    <3>2. PICK j \in 1..Len(q) : q[j].end = b + B
      BY <3>1
    <3>3. endTime[q[j]] = b + B
      BY <2>11, <3>2
    <3>. QED
      BY <2>12, <2>14, <3>2, <3>3 DEF Keeps
  <2>15. next' \in Int /\ next' # NoMark
    BY <2>1, <2>2, <2>3, MarksConstants
  <2>16. \A i \in 1..Len(r) :
            /\ IsStart(r[i].end - B) /\ r[i].end <= mnow'
            /\ r[i].end <= next'
            /\ r[i].end - B \notin uncovered'
            /\ r[i].end - B \in DOMAIN traded' => r[i].of = traded'[r[i].end - B][p]
    BY <1>1, <2>1, <2>13
  <2>17. \A b \in DOMAIN traded' \ uncovered' :
            b < next' /\ mnow' - B * BucketCap < b + B => \E i \in 1..Len(r) : r[i].end = b + B
    BY <1>1, <2>1, <2>14
  <2>18. r \in Seq(BucketMarks) /\ Spaced(endTime, r) /\ buckets'[p] = r
    BY <2>1, <2>12 DEF Keeps
  <2>. HIDE DEF Known
  <2>. QED
    BY <2>15, <2>16, <2>17, <2>18 DEF BucketsKnown, Spaced, IsStart
<1>. QED
  BY <1>6, <1>7

-----------------------------------------------------------------------------
(* What a window's marks are sums of, observation by observation and       *)
(* moment by moment.                                                       *)
Value(s, start, end) ==
    [i \in DOMAIN s |-> IF s[i].of # NoMark /\ s[i].end > start /\ s[i].end <= end
                        THEN s[i].of.px * s[i].of.vol ELSE 0]
Volume(s, start, end) ==
    [i \in DOMAIN s |-> IF s[i].of # NoMark /\ s[i].end > start /\ s[i].end <= end
                        THEN s[i].of.vol ELSE 0]
Mids(s, start, end) ==
    [i \in DOMAIN s |-> IF s[i].at >= start /\ s[i].at < end THEN s[i].mid ELSE 0]
Quotes(s, start, end) ==
    [i \in DOMAIN s |-> IF s[i].at >= start /\ s[i].at < end THEN 1 ELSE 0]

LEMMA MarkIs ==
    ASSUME NEW p, NEW start, NEW end
    PROVE  /\ M!vwapOver(p, start, end) = M!mean(M!sum(Value(buckets[p], start, end)),
                                                 M!sum(Volume(buckets[p], start, end)))
           /\ M!midTWAPOver(p, start, end) = M!mean(M!sum(Mids(mids[p], start, end)),
                                                    M!sum(Quotes(mids[p], start, end)))
BY DEF M!vwapOver, M!midTWAPOver, Value, Volume, Mids, Quotes

LEMMA BucketSequences ==
    ASSUME NEW s \in Seq(BucketMarks), NEW start, NEW end
    PROVE  /\ Len(s) \in Nat
           /\ Value(s, start, end) \in [1..Len(s) -> Nat]
           /\ Volume(s, start, end) \in [1..Len(s) -> Nat]
<1>1. Len(s) \in Nat /\ DOMAIN s = 1..Len(s) /\ \A i \in 1..Len(s) : s[i] \in BucketMarks
  OBVIOUS
<1>2. \A x \in BucketMarks : x.of # NoMark => x.of.px \in Nat /\ x.of.vol \in Nat
  BY DEF BucketMarks, Deals
<1>3. \A x, y \in Nat : x * y \in Nat
  OBVIOUS
<1>4. \A i \in 1..Len(s) : s[i].of # NoMark =>
          s[i].of.vol \in Nat /\ s[i].of.px * s[i].of.vol \in Nat
  BY <1>1, <1>2, <1>3
<1>5. Value(s, start, end) \in [1..Len(s) -> Nat]
  BY <1>1, <1>4 DEF Value
<1>6. Volume(s, start, end) \in [1..Len(s) -> Nat]
  BY <1>1, <1>4 DEF Volume
<1>. QED
  BY <1>1, <1>5, <1>6

LEMMA MidSequences ==
    ASSUME NEW s \in Seq(MidMarks), NEW start, NEW end
    PROVE  /\ Len(s) \in Nat
           /\ Mids(s, start, end) \in [1..Len(s) -> Nat]
           /\ Quotes(s, start, end) \in [1..Len(s) -> Nat]
<1>1. Len(s) \in Nat /\ DOMAIN s = 1..Len(s) /\ \A i \in 1..Len(s) : s[i] \in MidMarks
  OBVIOUS
<1>2. \A i \in 1..Len(s) : s[i].mid \in Nat
  BY <1>1 DEF MidMarks
<1>3. Mids(s, start, end) \in [1..Len(s) -> Nat]
  BY <1>1, <1>2 DEF Mids
<1>4. Quotes(s, start, end) \in [1..Len(s) -> Nat]
  BY <1>1 DEF Quotes
<1>. QED
  BY <1>1, <1>3, <1>4

LEMMA MeanIs ==
    ASSUME NEW n \in Nat, NEW f \in [1..n -> Nat], NEW g \in [1..n -> Nat]
    PROVE  M!mean(M!sum(f), M!sum(g)) \in Nat \cup {NoMark}
<1>1. ASSUME NEW h \in [1..n -> Nat] PROVE M!sum(h) \in Nat
  <2>1. PICK U : Sums(U, h, n) /\ M!sum(h) = U[n]
    BY SumsAre
  <2>2. U[n] \in Nat
    <3>1. n \in 0..n
      OBVIOUS
    <3>. QED
      BY <2>1, <3>1, Summed
  <2>. QED
    BY <2>1, <2>2
<1>2. \A x, y \in Nat : y > 0 => x \div y \in Nat
  OBVIOUS
<1>3. M!sum(f) \in Nat /\ M!sum(g) \in Nat
  BY <1>1
<1>. QED
  BY <1>2, <1>3 DEF M!mean

LEMMA MarkTypes ==
    ASSUME NEW p \in M!Products, BucketsKnown(p), MidsKnown(p), NEW start, NEW end
    PROVE  M!markLocked(p, start, end) \in Nat \cup {NoMark}
<1>1. buckets[p] \in Seq(BucketMarks) /\ mids[p] \in Seq(MidMarks)
  BY DEF BucketsKnown, MidsKnown
<1>2. M!vwapOver(p, start, end) \in Nat \cup {NoMark}
  <2>. DEFINE s == buckets[p]
              f == Value(s, start, end)
              g == Volume(s, start, end)
  <2>1. M!vwapOver(p, start, end) = M!mean(M!sum(f), M!sum(g))
    BY MarkIs
  <2>2. Len(s) \in Nat /\ f \in [1..Len(s) -> Nat] /\ g \in [1..Len(s) -> Nat]
    BY <1>1, BucketSequences
  <2>. HIDE DEF s, f, g
  <2>3. M!mean(M!sum(f), M!sum(g)) \in Nat \cup {NoMark}
    BY <2>2, MeanIs
  <2>. QED
    BY <2>1, <2>3
<1>3. M!midTWAPOver(p, start, end) \in Nat \cup {NoMark}
  <2>. DEFINE s == mids[p]
              f == Mids(s, start, end)
              g == Quotes(s, start, end)
  <2>1. M!midTWAPOver(p, start, end) = M!mean(M!sum(f), M!sum(g))
    BY MarkIs
  <2>2. Len(s) \in Nat /\ f \in [1..Len(s) -> Nat] /\ g \in [1..Len(s) -> Nat]
    BY <1>1, MidSequences
  <2>. HIDE DEF s, f, g
  <2>3. M!mean(M!sum(f), M!sum(g)) \in Nat \cup {NoMark}
    BY <2>2, MeanIs
  <2>. QED
    BY <2>1, <2>3
<1>. QED
  BY <1>2, <1>3 DEF M!markLocked

LEMMA SampleKeeps ==
    ASSUME MarksInv, M!Sample
    PROVE  TimerInv' /\ GapInv'
<1>1. mnow \in Nat /\ mnow' = mnow /\ fires' = mnow + M!untilNextBoundary(mnow, M!W) + M!markDelay
  BY DEF MarksInv, WorldInv, M!Sample, M!world
<1>2. M!W \in Nat \ {0} /\ M!markDelay \in Nat /\ MaxLate \in Nat
  BY MarksConstants
<1>3. TimerInv'
  <2>. DEFINE e == M!truncate(mnow, M!W)
  <2>1. M!untilNextBoundary(mnow, M!W) = e + M!W - mnow
    BY DEF M!untilNextBoundary
  <2>2. e \in Nat /\ e % M!W = 0 /\ e <= mnow /\ mnow < e + M!W
    BY <1>1, <1>2, TruncateIs
  <2>. HIDE DEF e
  <2>3. fires' = (e + M!W) + M!markDelay
    BY <1>1, <1>2, <2>1, <2>2
  <2>4. M!W = M!W * 1 /\ 1 \in Int /\ e \in Int
    BY <1>2, <2>2
  <2>5. (e + M!W) % M!W = 0
    BY <1>2, <2>2, <2>4, FurtherOn
  <2>6. fires' - M!markDelay = e + M!W /\ fires' \in Int /\ e + M!W \in Nat /\ M!W <= e + M!W
        /\ mnow <= fires' + MaxLate
    BY <1>1, <1>2, <2>2, <2>3
  <2>7. M!markDelay' = M!markDelay /\ M!W' = M!W
    BY DEF M!markDelay, M!W
  <2>. QED
    BY <1>1, <2>5, <2>6, <2>7 DEF TimerInv
<1>4. GapInv'
  <2>. DEFINE end == M!truncate(mnow, M!W)
              f == M!markLocked("perp", end - M!W, end)
              g == M!markLocked("spot", end - M!W, end)
  <2>1. GapInv
    BY DEF MarksInv
  <2>2. CASE end <= lastBoundary
    BY <2>1, <2>2 DEF M!Sample, GapInv
  <2>3. CASE ~(end <= lastBoundary)
    <3>1. /\ gap' = (IF M!both(M!carried(f, g)) THEN M!carried(f, g).perp - M!carried(f, g).spot ELSE gap)
          /\ observedGap' = IF f # NoMark /\ g # NoMark THEN f - g ELSE observedGap
      BY <2>3 DEF M!Sample, M!markPair
    <3>2. f \in Nat \cup {NoMark} /\ g \in Nat \cup {NoMark}
      BY MarkTypes DEF MarksInv, M!Products
    <3>. HIDE DEF f, g
    <3>3. /\ M!carried(f, g).perp = (IF f = NoMark /\ g # NoMark /\ gap # NoMark THEN g + gap ELSE f)
          /\ M!carried(f, g).spot = IF g = NoMark /\ f # NoMark /\ gap # NoMark THEN f - gap ELSE g
      BY DEF M!carried
    <3>4. gap = observedGap /\ gap \in Int \cup {NoMark}
      BY <2>1 DEF GapInv
    <3>5. NoMark \notin Int
      BY MarksConstants
    <3>6. CASE f # NoMark /\ g # NoMark
      <4>1. M!carried(f, g).perp = f /\ M!carried(f, g).spot = g /\ M!both(M!carried(f, g))
        BY <3>3, <3>6 DEF M!both
      <4>2. gap' = f - g /\ observedGap' = f - g /\ f - g \in Int
        BY <3>1, <3>2, <3>6, <4>1
      <4>. QED
        BY <4>2 DEF GapInv
    <3>7. CASE f = NoMark /\ g # NoMark
      <4>1. gap' = gap
        <5>1. CASE gap = NoMark
          BY <3>1, <3>3, <3>7, <5>1 DEF M!both
        <5>2. CASE gap # NoMark
          <6>1. M!carried(f, g).perp = g + gap /\ M!carried(f, g).spot = g
            BY <3>3, <3>7, <5>2
          <6>2. g \in Int /\ gap \in Int /\ (g + gap) - g = gap
            BY <3>2, <3>4, <3>7, <5>2
          <6>. QED
            BY <3>1, <6>1, <6>2
        <5>. QED
          BY <5>1, <5>2
      <4>. QED
        BY <3>1, <3>4, <3>7, <4>1 DEF GapInv
    <3>8. CASE f # NoMark /\ g = NoMark
      <4>1. gap' = gap
        <5>1. CASE gap = NoMark
          BY <3>1, <3>3, <3>8, <5>1 DEF M!both
        <5>2. CASE gap # NoMark
          <6>1. M!carried(f, g).perp = f /\ M!carried(f, g).spot = f - gap
            BY <3>3, <3>8, <5>2
          <6>2. f \in Int /\ gap \in Int /\ f - (f - gap) = gap
            BY <3>2, <3>4, <3>8, <5>2
          <6>. QED
            BY <3>1, <6>1, <6>2
        <5>. QED
          BY <5>1, <5>2
      <4>. QED
        BY <3>1, <3>4, <3>8, <4>1 DEF GapInv
    <3>9. CASE f = NoMark /\ g = NoMark
      <4>1. gap' = gap
        BY <3>1, <3>3, <3>9 DEF M!both
      <4>. QED
        BY <3>1, <3>4, <3>9, <4>1 DEF GapInv
    <3>. QED
      BY <3>6, <3>7, <3>8, <3>9
  <2>. QED
    BY <2>2, <2>3
<1>. QED
  BY <1>3, <1>4

LEMMA MarksStep ==
    ASSUME Beat <= markMargin, MarksInv, [M!Next]_marksVars
    PROVE  MarksInv'
<1>. USE DEF MarksInv
<1>0. M!Products' = M!Products
  BY DEF M!Products
<1>1. CASE M!AdvanceClock
  <2>1. WorldInv' /\ HandlerInv' /\ TimerInv'
    BY <1>1, ClockKeepsWorld, ClockKeepsHandler
  <2>2. GapInv'
    BY <1>1 DEF M!AdvanceClock, GapInv
  <2>3. \A p \in M!Products : BucketsKnown(p)' /\ MidsKnown(p)'
    BY <1>1, ClockKeepsBuckets, ClockKeepsMids
  <2>. QED
    BY <1>0, <2>1, <2>2, <2>3
<1>2. CASE M!Frame
  <2>1. HandlerInv' /\ \A p \in M!Products : BucketsKnown(p)'
    BY <1>2, FrameKeepsHandler, FrameKeepsBuckets
  <2>2. UNCHANGED <<mnow, traded, quoted, uncovered, mids, gap, fires, observedGap>>
    BY <1>2 DEF M!Frame, M!world
  <2>3. WorldInv' /\ TimerInv' /\ GapInv'
    BY <2>2 DEF WorldInv, TimerInv, GapInv, M!Products, IsStart, M!reach, M!W, M!markDelay
  <2>4. \A p \in M!Products : MidsKnown(p)'
    BY <2>2 DEF MidsKnown, Spaced, IsStart
  <2>. QED
    BY <1>0, <2>1, <2>3, <2>4
<1>3. CASE M!Reconnect
  <2>1. HandlerInv' /\ \A p \in M!Products : BucketsKnown(p)'
    BY <1>3, ReconnectKeeps
  <2>2. UNCHANGED <<mnow, traded, quoted, mids, gap, fires, observedGap>>
    BY <1>3 DEF M!Reconnect, M!world, M!memory
  <2>3. WorldInv' /\ TimerInv' /\ GapInv'
    BY <2>2 DEF WorldInv, TimerInv, GapInv, M!Products, IsStart, M!reach, M!W, M!markDelay
  <2>4. \A p \in M!Products : MidsKnown(p)'
    BY <2>2 DEF MidsKnown, Spaced, IsStart
  <2>. QED
    BY <1>0, <2>1, <2>3, <2>4
<1>4. CASE M!Sample
  <2>1. TimerInv' /\ GapInv'
    BY <1>4, SampleKeeps
  <2>2. UNCHANGED <<mnow, traded, quoted, next, beat, uncovered, buckets, mids>>
    BY <1>4 DEF M!Sample, M!world, M!handler
  <2>3. WorldInv' /\ HandlerInv'
    BY <2>2 DEF WorldInv, HandlerInv, M!Products, IsStart, M!reach, M!W, M!markDelay
  <2>4. ASSUME NEW p \in M!Products PROVE BucketsKnown(p)' /\ MidsKnown(p)'
    <3>1. BucketsKnown(p)'
      BY <2>2 DEF BucketsKnown, Spaced, IsStart
    <3>2. MidsKnown(p)'
      BY <2>2 DEF MidsKnown, Spaced, IsStart
    <3>. QED
      BY <3>1, <3>2
  <2>. QED
    BY <1>0, <2>1, <2>3, <2>4
<1>5. CASE UNCHANGED marksVars
  <2>2. UNCHANGED <<mnow, traded, quoted, next, beat, uncovered, buckets, mids, gap, fires, observedGap>>
    BY <1>5 DEF marksVars
  <2>3. WorldInv' /\ HandlerInv' /\ TimerInv' /\ GapInv'
    BY <2>2 DEF WorldInv, HandlerInv, TimerInv, GapInv, M!Products, IsStart, M!reach, M!W, M!markDelay
  <2>4. ASSUME NEW p \in M!Products PROVE BucketsKnown(p)' /\ MidsKnown(p)'
    <3>1. BucketsKnown(p)'
      BY <2>2 DEF BucketsKnown, Spaced, IsStart
    <3>2. MidsKnown(p)'
      BY <2>2 DEF MidsKnown, Spaced, IsStart
    <3>. QED
      BY <3>1, <3>2
  <2>. QED
    BY <1>0, <2>3, <2>4
<1>. QED
  BY <1>1, <1>2, <1>3, <1>4, <1>5 DEF M!Next

-----------------------------------------------------------------------------
(* A window's mark is what the window showed.                              *)

(* What each moment of the window ending at end showed.                    *)
Moment(end, x) == end - M!W + x - 1
Trades(p)      == {b \in DOMAIN traded \ uncovered : traded[b][p] # NoMark}
Quoted(p)      == {b \in DOMAIN quoted : quoted[b][p] # NoMark}
ValueShown(p, end) ==
    [x \in 1..M!W |-> IF Moment(end, x) \in Trades(p)
                      THEN traded[Moment(end, x)][p].px * traded[Moment(end, x)][p].vol ELSE 0]
VolumeShown(p, end) ==
    [x \in 1..M!W |-> IF Moment(end, x) \in Trades(p) THEN traded[Moment(end, x)][p].vol ELSE 0]
MidsShown(p, end) ==
    [x \in 1..M!W |-> IF Moment(end, x) \in Quoted(p) THEN quoted[Moment(end, x)][p] ELSE 0]
QuotesShown(p, end) ==
    [x \in 1..M!W |-> IF Moment(end, x) \in Quoted(p) THEN 1 ELSE 0]

LEMMA ShownIs ==
    ASSUME NEW p, NEW end
    PROVE  M!Shown(p, end) =
             IF M!mean(M!sum(ValueShown(p, end)), M!sum(VolumeShown(p, end))) # NoMark
               THEN M!mean(M!sum(ValueShown(p, end)), M!sum(VolumeShown(p, end)))
               ELSE M!mean(M!sum(MidsShown(p, end)), M!sum(QuotesShown(p, end)))
BY DEF M!Shown, ValueShown, VolumeShown, MidsShown, QuotesShown, Moment, Trades, Quoted

LEMMA MomentSequences ==
    ASSUME WorldInv, NEW p \in M!Products, NEW end
    PROVE  /\ ValueShown(p, end) \in [1..M!W -> Nat]
           /\ VolumeShown(p, end) \in [1..M!W -> Nat]
           /\ MidsShown(p, end) \in [1..M!W -> Nat]
           /\ QuotesShown(p, end) \in [1..M!W -> Nat]
<1>1. \A b \in Trades(p) : traded[b][p] \in Deals
  BY DEF Trades, WorldInv
<1>2. \A x, y \in Nat : x * y \in Nat
  OBVIOUS
<1>3. \A b \in Trades(p) : traded[b][p].vol \in Nat /\ traded[b][p].px * traded[b][p].vol \in Nat
  BY <1>1, <1>2 DEF Deals
<1>4. \A b \in Quoted(p) : quoted[b][p] \in Nat
  BY DEF Quoted, WorldInv
<1>5. ValueShown(p, end) \in [1..M!W -> Nat]
  BY <1>3 DEF ValueShown
<1>6. VolumeShown(p, end) \in [1..M!W -> Nat]
  BY <1>3 DEF VolumeShown
<1>7. MidsShown(p, end) \in [1..M!W -> Nat]
  BY <1>4 DEF MidsShown
<1>8. QuotesShown(p, end) \in [1..M!W -> Nat]
  BY DEF QuotesShown
<1>. QED
  BY <1>5, <1>6, <1>7, <1>8

(* When the timer fires, the window it marks is at its end, and every      *)
(* bucket of it is closed.                                                 *)
DueAt(end) ==
    /\ end \in Nat /\ end % M!W = 0 /\ M!W <= end
    /\ end + M!markDelay <= mnow /\ mnow <= end + M!markDelay + MaxLate

LEMMA WindowIs ==
    ASSUME NEW end, DueAt(end)
    PROVE  end % B = 0 /\ (end - M!W) % B = 0 /\ end - M!W \in Nat
<1>1. B \in Nat \ {0} /\ M!W \in Nat \ {0} /\ M!W % B = 0 /\ Buckets \in Nat
  BY MarksConstants
<1>2. end \in Nat /\ end % M!W = 0 /\ M!W <= end
  BY DEF DueAt
<1>3. PICK q \in Int : end = M!W * q
  BY <1>1, <1>2, OnBoundary
<1>4. M!W * q = B * (Buckets * q)
  BY <1>1 DEF M!W
<1>5. end % B = 0
  <2>1. Buckets * q \in Int
    BY <1>1
  <2>2. (B * (Buckets * q)) % B = 0
    BY <1>1, <2>1, MultipleIs
  <2>. QED
    BY <1>3, <1>4, <2>2
<1>6. (end - M!W) % B = 0
  <2>1. end \in Int /\ M!W \in Int
    BY <1>1, <1>2
  <2>. QED
    BY <1>1, <1>5, <2>1, MultiplesJoin
<1>. QED
  BY <1>1, <1>2, <1>5, <1>6

LEMMA WindowIsClosed ==
    ASSUME Beat <= markMargin, WorldInv, HandlerInv, NEW end, DueAt(end),
           NEW b \in Nat, b % B = 0, b < end
    PROVE  b + B <= end /\ (next # NoMark => b < next)
<1>1. /\ B \in Nat \ {0} /\ Grace \in Nat /\ markMargin \in Nat /\ Beat \in Nat
      /\ M!markDelay = Grace + markMargin /\ MaxLate \in Nat
  BY MarksConstants
<1>2. end \in Nat /\ end % B = 0 /\ end + (Grace + markMargin) <= mnow /\ mnow \in Nat
  BY <1>1, WindowIs DEF DueAt, WorldInv
<1>3. b + B <= end
  <2>1. b \in Int /\ end \in Int
    BY <1>2
  <2>. QED
    BY <1>1, <1>2, <2>1, MultiplesJoin
<1>4. ASSUME next # NoMark PROVE b < next
  <2>1. next \in Nat /\ next % B = 0 /\ mnow - beat < next + B + Grace
        /\ beat \in Nat /\ beat <= Beat
    BY <1>4 DEF HandlerInv, IsStart
  <2>2. end < next + B /\ end \in Int /\ next \in Int
    BY <1>1, <1>2, <2>1
  <2>3. end <= next
    BY <1>1, <1>2, <2>1, <2>2, NoLaterInside
  <2>. QED
    BY <1>2, <2>2, <2>3
<1>. QED
  BY <1>3, <1>4

(* What a window holds is remembered as the venue showed it.               *)
LEMMA WindowIsRemembered ==
    ASSUME WorldInv, NEW end, DueAt(end), NEW b \in Nat, IsStart(b), end - M!W <= b, b <= mnow
    PROVE  b \in DOMAIN traded
<1>1. M!reach = M!W + M!markDelay + MaxLate /\ M!W \in Nat /\ M!markDelay \in Nat /\ MaxLate \in Nat
  BY MarksConstants
<1>2. mnow - M!reach <= b
  BY <1>1 DEF DueAt, WorldInv
<1>. QED
  BY <1>2 DEF WorldInv

LEMMA SpacedIncreases ==
    ASSUME NEW time, NEW s, Len(s) \in Nat, Spaced(time, s), NEW c \in Int,
           \A i \in 1..Len(s) : time[s[i]] \in Int
    PROVE  Increasing([i \in 1..Len(s) |-> time[s[i]] - c], Len(s))
<1>. SUFFICES ASSUME NEW i \in 1..Len(s), NEW j \in 1..Len(s), i < j
              PROVE  time[s[i]] - c < time[s[j]] - c
  BY DEF Increasing
<1>1. j - i \in Nat \ {0} /\ B \in Nat \ {0}
  BY MarksConstants
<1>2. \A x, y \in Nat \ {0} : x * y \in Nat \ {0}
  OBVIOUS
<1>. DEFINE a == B * (j - i)
<1>3. a \in Nat \ {0}
  BY <1>1, <1>2
<1>4. time[s[i]] + a <= time[s[j]]
  BY DEF Spaced
<1>. HIDE DEF a
<1>. QED
  BY <1>3, <1>4

(* The buckets of a window that traded and were not dropped are those the  *)
(* product has.                                                            *)
LEMMA BucketsAreShown ==
    ASSUME Beat <= markMargin, M!reach < B * (BucketCap + 1), WorldInv, HandlerInv,
           NEW end, DueAt(end), NEW p \in M!Products, BucketsKnown(p)
    PROVE  /\ M!sum(Value(buckets[p], end - M!W, end)) = M!sum(ValueShown(p, end))
           /\ M!sum(Volume(buckets[p], end - M!W, end)) = M!sum(VolumeShown(p, end))
<1>. DEFINE s == buckets[p]
            n == Len(s)
            c == B + (end - M!W - 1)
            at == [i \in 1..n |-> endTime[s[i]] - c]
            Inside(i) == s[i].of # NoMark /\ s[i].end > end - M!W /\ s[i].end <= end
<1>1. /\ B \in Nat \ {0} /\ M!W \in Nat \ {0} /\ B * (BucketCap + 1) = B * BucketCap + B
      /\ B * BucketCap \in Int /\ M!markDelay \in Nat /\ MaxLate \in Nat
      /\ M!reach = M!W + M!markDelay + MaxLate
  BY MarksConstants
<1>2. /\ s \in Seq(BucketMarks) /\ Spaced(endTime, s)
      /\ \A i \in 1..n :
            /\ IsStart(s[i].end - B) /\ s[i].end <= mnow
            /\ s[i].end - B \notin uncovered
            /\ s[i].end - B \in DOMAIN traded => s[i].of = traded[s[i].end - B][p]
      /\ \A b \in DOMAIN traded \ uncovered :
            (next # NoMark => b < next) /\ mnow - B * BucketCap < b + B
               => \E i \in 1..n : s[i].end = b + B
  BY DEF BucketsKnown
<1>3. n \in Nat /\ DOMAIN s = 1..n
      /\ \A i \in 1..n : s[i].end \in Nat /\ endTime[s[i]] = s[i].end
  <2>. HIDE DEF s
  <2>1. n \in Nat /\ DOMAIN s = 1..n /\ \A i \in 1..n : s[i] \in BucketMarks
    BY <1>2
  <2>2. \A x \in BucketMarks : x.end \in Nat /\ endTime[x] = x.end
    BY DEF BucketMarks, endTime
  <2>. HIDE DEF n
  <2>. QED
    BY <2>1, <2>2
<1>4. end \in Nat /\ end % B = 0 /\ (end - M!W) % B = 0 /\ end - M!W \in Nat
  BY WindowIs DEF DueAt
<1>5. c \in Int
  BY <1>1, <1>4
<1>6. Increasing(at, n)
  <2>1. \A i \in 1..n : endTime[s[i]] \in Int
    BY <1>3
  <2>2. Increasing([i \in 1..Len(s) |-> endTime[s[i]] - c], Len(s))
    <3>. HIDE DEF c, s
    <3>. QED
      BY <1>2, <1>3, <1>5, <2>1, SpacedIncreases
  <2>. QED
    BY <2>2
<1>. HIDE DEF s, n
<1>7. \A i \in 1..n : at[i] = s[i].end - c
  BY <1>3
(* A bucket of the window is what a moment of it showed.                   *)
<1>8. ASSUME NEW i \in 1..n, Inside(i)
      PROVE  /\ at[i] \in 1..M!W /\ Moment(end, at[i]) = s[i].end - B
             /\ Moment(end, at[i]) \in Trades(p) /\ traded[Moment(end, at[i])][p] = s[i].of
  <2>. DEFINE v == s[i].end
              b == v - B
  <2>1. v \in Nat /\ IsStart(b) /\ v <= mnow /\ at[i] = v - c /\ v > end - M!W /\ v <= end
    BY <1>2, <1>3, <1>7, <1>8
  <2>2. b \in Nat /\ b % B = 0 /\ v = b + B
    BY <1>1, <2>1 DEF IsStart
  <2>. HIDE DEF v, b
  <2>3. end - M!W <= b
    <3>1. end - M!W \in Int /\ b \in Int /\ end - M!W < b + B
      BY <1>4, <2>1, <2>2
    <3>. QED
      BY <1>1, <1>4, <2>2, <3>1, NoLaterInside
  <2>4. at[i] \in 1..M!W /\ Moment(end, at[i]) = b
    BY <1>1, <1>4, <2>1, <2>2, <2>3 DEF Moment
  <2>5. b \in DOMAIN traded
    <3>1. b <= mnow
      BY <1>1, <2>1, <2>2 DEF WorldInv
    <3>. QED
      BY <2>1, <2>2, <2>3, <3>1, WindowIsRemembered
  <2>6. s[i].of = traded[b][p] /\ b \notin uncovered
    BY <1>2, <2>5 DEF b, v
  <2>. QED
    BY <1>8, <2>4, <2>5, <2>6 DEF b, v, Trades
(* And a moment that showed a trade has its bucket.                        *)
<1>9. ASSUME NEW x \in 1..M!W, Moment(end, x) \in Trades(p)
      PROVE  \E i \in 1..n : Inside(i) /\ at[i] = x
  <2>. DEFINE b == Moment(end, x)
  <2>1. b \in DOMAIN traded \ uncovered /\ b \in Nat /\ b % B = 0 /\ traded[b][p] # NoMark
    BY <1>9 DEF Trades, WorldInv, IsStart
  <2>2. b = end - M!W + x - 1
    BY DEF Moment
  <2>. HIDE DEF b
  <2>3. b < end /\ end - M!W <= b
    BY <1>1, <1>4, <2>1, <2>2
  <2>4. b + B <= end /\ (next # NoMark => b < next)
    BY <2>1, <2>3, WindowIsClosed
  <2>5. mnow - B * BucketCap < b + B
    <3>. DEFINE g == B * BucketCap
    <3>1. g \in Int /\ M!W + M!markDelay + MaxLate < g + B /\ mnow \in Nat
          /\ mnow <= end + M!markDelay + MaxLate
      BY <1>1 DEF DueAt, WorldInv
    <3>. HIDE DEF g
    <3>2. mnow - g < b + B
      BY <1>1, <1>4, <2>1, <2>3, <3>1
    <3>. QED
      BY <3>2 DEF g
  <2>6. PICK i \in 1..n : s[i].end = b + B
    BY <1>2, <2>1, <2>4, <2>5
  <2>7. s[i].end - B = b /\ s[i].end > end - M!W /\ s[i].end <= end /\ at[i] = x
    BY <1>1, <1>4, <1>7, <2>1, <2>2, <2>3, <2>4, <2>6
  <2>8. s[i].of = traded[b][p]
    BY <1>2, <2>1, <2>7
  <2>. QED
    BY <2>1, <2>7, <2>8
<1>10. ASSUME NEW f, NEW g, NEW val,
              \A i \in 1..n : f[i] = IF Inside(i) THEN val[s[i].of] ELSE 0,
              \A x \in 1..M!W : g[x] = IF Moment(end, x) \in Trades(p)
                                       THEN val[traded[Moment(end, x)][p]] ELSE 0
       PROVE  Observes(f, at, n, g, M!W)
  <2>. HIDE DEF Inside, at
  <2>1. ASSUME NEW i \in 1..n, f[i] # 0 PROVE at[i] \in 1..M!W /\ g[at[i]] = f[i]
    <3>1. Inside(i)
      BY <1>10, <2>1
    <3>. QED
      BY <1>8, <1>10, <3>1
  <2>2. ASSUME NEW x \in 1..M!W, g[x] # 0 PROVE \E i \in 1..n : at[i] = x /\ f[i] = g[x]
    <3>1. Moment(end, x) \in Trades(p)
      BY <1>10, <2>2
    <3>2. PICK i \in 1..n : Inside(i) /\ at[i] = x
      BY <1>9, <3>1
    <3>. QED
      BY <1>8, <1>10, <3>1, <3>2
  <2>. QED
    BY <2>1, <2>2 DEF Observes
<1>11. /\ \A i \in 1..n : Inside(i) => s[i].of \in Deals
       /\ \A x \in 1..M!W : Moment(end, x) \in Trades(p) => traded[Moment(end, x)][p] \in Deals
  <2>1. \A b \in Trades(p) : traded[b][p] \in Deals
    BY DEF Trades, WorldInv
  <2>. HIDE DEF Inside, at
  <2>2. \A i \in 1..n : Inside(i) => s[i].of \in Deals
    BY <1>8, <2>1
  <2>. QED
    BY <2>1, <2>2
<1>12. Observes(Value(s, end - M!W, end), at, n, ValueShown(p, end), M!W)
  <2>1. \A i \in 1..n : Value(s, end - M!W, end)[i] = IF Inside(i) THEN s[i].of.px * s[i].of.vol ELSE 0
    BY <1>3 DEF Value
  <2>2. \A x \in 1..M!W : ValueShown(p, end)[x] =
            IF Moment(end, x) \in Trades(p)
            THEN traded[Moment(end, x)][p].px * traded[Moment(end, x)][p].vol ELSE 0
    BY DEF ValueShown
  <2>. HIDE DEF at, Inside
  <2>. DEFINE val == [d \in Deals |-> d.px * d.vol]
  <2>3. /\ \A i \in 1..n : Value(s, end - M!W, end)[i] = IF Inside(i) THEN val[s[i].of] ELSE 0
        /\ \A x \in 1..M!W : ValueShown(p, end)[x] =
               IF Moment(end, x) \in Trades(p) THEN val[traded[Moment(end, x)][p]] ELSE 0
    BY <1>11, <2>1, <2>2
  <2>. HIDE DEF val
  <2>. QED
    BY <1>10, <2>3
<1>13. Observes(Volume(s, end - M!W, end), at, n, VolumeShown(p, end), M!W)
  <2>1. \A i \in 1..n : Volume(s, end - M!W, end)[i] = IF Inside(i) THEN s[i].of.vol ELSE 0
    BY <1>3 DEF Volume
  <2>2. \A x \in 1..M!W : VolumeShown(p, end)[x] =
            IF Moment(end, x) \in Trades(p) THEN traded[Moment(end, x)][p].vol ELSE 0
    BY DEF VolumeShown
  <2>. HIDE DEF at, Inside
  <2>. DEFINE val == [d \in Deals |-> d.vol]
  <2>3. /\ \A i \in 1..n : Volume(s, end - M!W, end)[i] = IF Inside(i) THEN val[s[i].of] ELSE 0
        /\ \A x \in 1..M!W : VolumeShown(p, end)[x] =
               IF Moment(end, x) \in Trades(p) THEN val[traded[Moment(end, x)][p]] ELSE 0
    BY <1>11, <2>1, <2>2
  <2>. HIDE DEF val
  <2>. QED
    BY <1>10, <2>3
<1>14. /\ Numbers(Value(s, end - M!W, end), n) /\ Numbers(Volume(s, end - M!W, end), n)
       /\ Numbers(ValueShown(p, end), M!W) /\ Numbers(VolumeShown(p, end), M!W)
       /\ n \in Nat /\ M!W \in Nat
  BY <1>1, <1>2, <1>3, BucketSequences, MomentSequences DEF n, Numbers
<1>. HIDE DEF at
<1>15. M!sum(Value(s, end - M!W, end)) = M!sum(ValueShown(p, end))
  BY <1>6, <1>12, <1>14, SumByMoment
<1>16. M!sum(Volume(s, end - M!W, end)) = M!sum(VolumeShown(p, end))
  BY <1>6, <1>13, <1>14, SumByMoment
<1>. QED
  BY <1>15, <1>16 DEF s

(* The quotes of a window are those the product has.                       *)
LEMMA MidsAreShown ==
    ASSUME M!reach < B * MidCap, WorldInv,
           NEW end, DueAt(end), NEW p \in M!Products, MidsKnown(p)
    PROVE  /\ M!sum(Mids(mids[p], end - M!W, end)) = M!sum(MidsShown(p, end))
           /\ M!sum(Quotes(mids[p], end - M!W, end)) = M!sum(QuotesShown(p, end))
<1>. DEFINE s == mids[p]
            n == Len(s)
            c == end - M!W - 1
            at == [i \in 1..n |-> madeAt[s[i]] - c]
            Inside(i) == s[i].at >= end - M!W /\ s[i].at < end
<1>1. /\ B \in Nat \ {0} /\ M!W \in Nat \ {0}
      /\ B * MidCap \in Int /\ M!markDelay \in Nat /\ MaxLate \in Nat
      /\ M!reach = M!W + M!markDelay + MaxLate
  BY MarksConstants
<1>2. /\ s \in Seq(MidMarks) /\ Spaced(madeAt, s)
      /\ \A i \in 1..n :
            /\ IsStart(s[i].at) /\ s[i].at <= mnow
            /\ s[i].at \in DOMAIN traded => s[i].mid = quoted[s[i].at][p]
      /\ \A b \in DOMAIN traded :
            quoted[b][p] # NoMark /\ mnow - B * MidCap < b => \E i \in 1..n : s[i].at = b
  BY DEF MidsKnown
<1>3. n \in Nat /\ DOMAIN s = 1..n
      /\ \A i \in 1..n : s[i].at \in Nat /\ s[i].mid \in Nat /\ madeAt[s[i]] = s[i].at
  <2>. HIDE DEF s
  <2>1. n \in Nat /\ DOMAIN s = 1..n /\ \A i \in 1..n : s[i] \in MidMarks
    BY <1>2
  <2>2. \A x \in MidMarks : x.at \in Nat /\ x.mid \in Nat /\ madeAt[x] = x.at
    BY DEF MidMarks, madeAt
  <2>. HIDE DEF n
  <2>. QED
    BY <2>1, <2>2
<1>4. end \in Nat /\ end - M!W \in Nat /\ end + M!markDelay <= mnow /\ mnow \in Nat
      /\ DOMAIN quoted = DOMAIN traded /\ NoMark \notin Int
  BY WindowIs, MarksConstants DEF DueAt, WorldInv
<1>5. c \in Int
  BY <1>1, <1>4
<1>6. Increasing(at, n)
  <2>1. \A i \in 1..n : madeAt[s[i]] \in Int
    BY <1>3
  <2>2. Increasing([i \in 1..Len(s) |-> madeAt[s[i]] - c], Len(s))
    <3>. HIDE DEF c, s
    <3>. QED
      BY <1>2, <1>3, <1>5, <2>1, SpacedIncreases
  <2>. QED
    BY <2>2
<1>. HIDE DEF s, n
<1>7. \A i \in 1..n : at[i] = s[i].at - c
  BY <1>3
<1>8. ASSUME NEW i \in 1..n, Inside(i)
      PROVE  /\ at[i] \in 1..M!W /\ Moment(end, at[i]) = s[i].at
             /\ Moment(end, at[i]) \in Quoted(p) /\ quoted[Moment(end, at[i])][p] = s[i].mid
  <2>. DEFINE b == s[i].at
  <2>1. b \in Nat /\ IsStart(b) /\ b <= mnow /\ at[i] = b - c /\ b >= end - M!W /\ b < end
    BY <1>2, <1>3, <1>7, <1>8
  <2>. HIDE DEF b
  <2>2. at[i] \in 1..M!W /\ Moment(end, at[i]) = b
    BY <1>1, <1>4, <2>1 DEF Moment
  <2>3. b \in DOMAIN traded
    BY <1>4, <2>1, WindowIsRemembered
  <2>4. s[i].mid = quoted[b][p] /\ s[i].mid \in Nat
    BY <1>2, <1>3, <2>3 DEF b
  <2>. QED
    BY <1>4, <2>2, <2>3, <2>4 DEF b, Quoted
<1>9. ASSUME NEW x \in 1..M!W, Moment(end, x) \in Quoted(p)
      PROVE  \E i \in 1..n : Inside(i) /\ at[i] = x
  <2>. DEFINE b == Moment(end, x)
  <2>1. b \in DOMAIN traded /\ b \in Nat /\ quoted[b][p] # NoMark
    BY <1>4, <1>9 DEF Quoted, WorldInv, IsStart
  <2>2. b = end - M!W + x - 1
    BY DEF Moment
  <2>. HIDE DEF b
  <2>3. b < end /\ end - M!W <= b
    BY <1>1, <1>4, <2>1, <2>2
  <2>4. mnow - B * MidCap < b
    <3>. DEFINE g == B * MidCap
    <3>1. g \in Int /\ M!W + M!markDelay + MaxLate < g /\ mnow <= end + M!markDelay + MaxLate
      BY <1>1 DEF DueAt
    <3>. HIDE DEF g
    <3>2. mnow - g < b
      BY <1>1, <1>4, <2>1, <2>3, <3>1
    <3>. QED
      BY <3>2 DEF g
  <2>5. PICK i \in 1..n : s[i].at = b
    BY <1>2, <2>1, <2>4
  <2>6. at[i] = x
    BY <1>1, <1>4, <1>7, <2>1, <2>2, <2>5
  <2>. QED
    BY <2>3, <2>5, <2>6
<1>10. Observes(Mids(s, end - M!W, end), at, n, MidsShown(p, end), M!W)
  <2>. DEFINE f == Mids(s, end - M!W, end)
              g == MidsShown(p, end)
  <2>1. \A i \in 1..n : f[i] = IF Inside(i) THEN s[i].mid ELSE 0
    BY <1>3 DEF Mids
  <2>2. \A x \in 1..M!W : g[x] = IF Moment(end, x) \in Quoted(p) THEN quoted[Moment(end, x)][p] ELSE 0
    BY DEF MidsShown
  <2>. HIDE DEF at, Inside, f, g
  <2>3. ASSUME NEW i \in 1..n, f[i] # 0 PROVE at[i] \in 1..M!W /\ g[at[i]] = f[i]
    <3>1. Inside(i)
      BY <2>1, <2>3
    <3>. QED
      BY <1>8, <2>1, <2>2, <3>1
  <2>4. ASSUME NEW x \in 1..M!W, g[x] # 0 PROVE \E i \in 1..n : at[i] = x /\ f[i] = g[x]
    <3>1. Moment(end, x) \in Quoted(p)
      BY <2>2, <2>4
    <3>2. PICK i \in 1..n : Inside(i) /\ at[i] = x
      BY <1>9, <3>1
    <3>. QED
      BY <1>8, <2>1, <2>2, <3>1, <3>2
  <2>. QED
    BY <2>3, <2>4 DEF Observes, f, g
<1>11. Observes(Quotes(s, end - M!W, end), at, n, QuotesShown(p, end), M!W)
  <2>. DEFINE f == Quotes(s, end - M!W, end)
              g == QuotesShown(p, end)
  <2>1. \A i \in 1..n : f[i] = IF Inside(i) THEN 1 ELSE 0
    BY <1>3 DEF Quotes
  <2>2. \A x \in 1..M!W : g[x] = IF Moment(end, x) \in Quoted(p) THEN 1 ELSE 0
    BY DEF QuotesShown
  <2>. HIDE DEF at, Inside, f, g
  <2>3. ASSUME NEW i \in 1..n, f[i] # 0 PROVE at[i] \in 1..M!W /\ g[at[i]] = f[i]
    <3>1. Inside(i)
      BY <2>1, <2>3
    <3>. QED
      BY <1>8, <2>1, <2>2, <3>1
  <2>4. ASSUME NEW x \in 1..M!W, g[x] # 0 PROVE \E i \in 1..n : at[i] = x /\ f[i] = g[x]
    <3>1. Moment(end, x) \in Quoted(p)
      BY <2>2, <2>4
    <3>2. PICK i \in 1..n : Inside(i) /\ at[i] = x
      BY <1>9, <3>1
    <3>. QED
      BY <1>8, <2>1, <2>2, <3>1, <3>2
  <2>. QED
    BY <2>3, <2>4 DEF Observes, f, g
<1>12. /\ Numbers(Mids(s, end - M!W, end), n) /\ Numbers(Quotes(s, end - M!W, end), n)
       /\ Numbers(MidsShown(p, end), M!W) /\ Numbers(QuotesShown(p, end), M!W)
       /\ n \in Nat /\ M!W \in Nat
  BY <1>1, <1>2, <1>3, MidSequences, MomentSequences DEF n, Numbers
<1>. HIDE DEF at
<1>13. M!sum(Mids(s, end - M!W, end)) = M!sum(MidsShown(p, end))
  BY <1>6, <1>10, <1>12, SumByMoment
<1>14. M!sum(Quotes(s, end - M!W, end)) = M!sum(QuotesShown(p, end))
  BY <1>6, <1>11, <1>12, SumByMoment
<1>. QED
  BY <1>13, <1>14 DEF s

LEMMA MarkIsShown ==
    ASSUME Beat <= markMargin, M!reach < B * (BucketCap + 1), M!reach < B * MidCap,
           MarksInv, NEW end, DueAt(end), NEW p \in M!Products
    PROVE  M!markLocked(p, end - M!W, end) = M!Shown(p, end)
<1>1. WorldInv /\ HandlerInv /\ BucketsKnown(p) /\ MidsKnown(p)
  BY DEF MarksInv
<1>2. M!vwapOver(p, end - M!W, end) =
          M!mean(M!sum(ValueShown(p, end)), M!sum(VolumeShown(p, end)))
  BY <1>1, BucketsAreShown, MarkIs
<1>3. M!midTWAPOver(p, end - M!W, end) =
          M!mean(M!sum(MidsShown(p, end)), M!sum(QuotesShown(p, end)))
  BY <1>1, MidsAreShown, MarkIs
<1>. QED
  BY <1>2, <1>3, ShownIs DEF M!markLocked

LEMMA MarksStepIsWhole ==
    ASSUME Beat <= markMargin, M!markDelay + MaxLate < M!W,
           M!reach < B * (BucketCap + 1), M!reach < B * MidCap,
           MarksInv, [M!Next]_marksVars
    PROVE  M!WholeMark /\ M!CarriedGapIsObserved'
<1>1. M!CarriedGapIsObserved'
  BY MarksStep DEF MarksInv, GapInv, M!CarriedGapIsObserved
<1>2. M!WholeMark
  <2>. SUFFICES ASSUME lastBoundary' # lastBoundary, NEW p \in M!Products,
                       M!Shown(p, lastBoundary') # NoMark
                PROVE  sample'[p] = M!Shown(p, lastBoundary')
    BY DEF M!WholeMark
  <2>1. M!Sample
    BY DEF M!Next, M!AdvanceClock, M!Frame, M!Reconnect, M!memory, marksVars
  <2>. DEFINE e == M!truncate(mnow, M!W)
              f == M!markLocked("perp", e - M!W, e)
              g == M!markLocked("spot", e - M!W, e)
  <2>2. lastBoundary' = e /\ sample' = [end |-> e, perp |-> M!carried(f, g).perp, spot |-> M!carried(f, g).spot]
    BY <2>1 DEF M!Sample, M!markPair
  <2>3. DueAt(e)
    <3>. DEFINE w == fires - M!markDelay
    <3>1. /\ w \in Nat /\ w % M!W = 0 /\ M!W <= w /\ fires = w + M!markDelay
          /\ mnow <= fires + MaxLate /\ mnow >= fires /\ mnow \in Nat
          /\ M!W \in Nat \ {0} /\ M!markDelay \in Nat /\ MaxLate \in Nat
      BY <2>1, MarksConstants DEF MarksInv, TimerInv, WorldInv, M!Sample
    <3>2. e \in Nat /\ e % M!W = 0 /\ e <= mnow /\ mnow < e + M!W
      BY <3>1, TruncateIs
    <3>. HIDE DEF w, e
    <3>3. w <= mnow /\ mnow < w + M!W
      BY <3>1
    <3>4. e < w + M!W /\ w < e + M!W /\ e \in Int /\ w \in Int
      BY <3>1, <3>2, <3>3
    <3>5. e <= w /\ w <= e
      BY <3>1, <3>2, <3>4, NoLaterInside
    <3>6. e = w
      BY <3>4, <3>5
    <3>. QED
      BY <3>1, <3>6 DEF DueAt
  <2>. HIDE DEF e
  <2>4. \A q \in M!Products : M!markLocked(q, e - M!W, e) = M!Shown(q, e)
    BY <2>3, MarkIsShown
  <2>5. f = M!Shown("perp", e) /\ g = M!Shown("spot", e)
    BY <2>4 DEF M!Products
  <2>. HIDE DEF f, g
  <2>6. /\ f # NoMark => M!carried(f, g).perp = f
        /\ g # NoMark => M!carried(f, g).spot = g
    BY DEF M!carried
  <2>7. CASE p = "perp"
    BY <2>2, <2>5, <2>6, <2>7
  <2>8. CASE p = "spot"
    BY <2>2, <2>5, <2>6, <2>8
  <2>. QED
    BY <2>7, <2>8 DEF M!Products
<1>. QED
  BY <1>1, <1>2

(* While frames of the trades stream come at most a margin apart, the      *)
(* timer fires before the next window ends, and as many buckets and quotes *)
(* are kept as a window and its delay hold, a mark is exactly what its     *)
(* window showed, whatever the frames, resets and late timers between; and *)
(* a mark that is carried moves by the gap last observed (MarkIsWhole).    *)
THEOREM MarksAreWhole ==
    ASSUME Beat <= markMargin, M!markDelay + MaxLate < M!W,
           M!reach < B * (BucketCap + 1), M!reach < B * MidCap
    PROVE  SeriesSpec => MarkIsWhole
<1>1. SeriesInit => MarksInv
  BY MarksInit DEF SeriesInit
<1>2. [SeriesNext]_<<part, vars, marksVars, backfillVars>> => [M!Next]_marksVars
  BY DEF SeriesNext
<1>3. MarksInv /\ [SeriesNext]_<<part, vars, marksVars, backfillVars>> => MarksInv'
  BY <1>2, MarksStep
<1>4. MarksInv /\ [SeriesNext]_<<part, vars, marksVars, backfillVars>>
          => [M!WholeMark /\ M!CarriedGapIsObserved']_marksVars
  BY <1>2, MarksStepIsWhole
<1>. QED
  BY <1>1, <1>3, <1>4, PTL DEF SeriesSpec, MarkIsWhole

=============================================================================
