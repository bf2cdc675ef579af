--------------------------- MODULE SnapshotsProofs ----------------------------
(***************************************************************************)
(* Machine-checked proofs about the series with a row a boundary: the      *)
(* level2 book over any number of connections, whose rows show the venue's *)
(* own book, and the venue-state sampler for every interval and every age, *)
(* whatever feeds it and whenever.                                         *)
(***************************************************************************)
EXTENDS MCSnapshots, Functions, FiniteSetTheorems, WellFoundedInduction, TLAPS

-----------------------------------------------------------------------------
(* The book's stream.                                                      *)

(* A gap counted in this drought leaves gapOpen up until data is seen.     *)
DroughtInv ==
    /\ gapOpen \in BOOLEAN /\ droughtGaps \in {0, 1}
    /\ droughtGaps = 1 => gapOpen

(* The last row's boundary is not past the last one ticked.                *)
BoundaryInv ==
    /\ now \in Int /\ lastSnap \in Int
    /\ row.ts \in Int /\ row.ts <= lastSnap

LEMMA DroughtInit == Init => DroughtInv
<1>. SUFFICES ASSUME Init PROVE DroughtInv
  OBVIOUS
<1>1. gapOpen = FALSE
  BY DEF Init
<1>2. droughtGaps = 0
  BY DEF Init
<1>3. gapOpen \in BOOLEAN
  BY <1>1
<1>4. droughtGaps \in {0, 1} /\ ~(droughtGaps = 1)
  BY <1>2
<1>. QED
  BY <1>3, <1>4 DEF DroughtInv

LEMMA DroughtStep ==
    ASSUME DroughtInv, [Next]_vars
    PROVE  DroughtInv'
<1>. USE DEF DroughtInv
<1>1. ASSUME UNCHANGED <<stream, seen>> PROVE DroughtInv'
  BY <1>1 DEF stream, seen
<1>2. ASSUME UNCHANGED <<gapOpen, droughtGaps>> PROVE DroughtInv'
  BY <1>2
<1>3. CASE SendSnapshot
  BY <1>1, <1>3 DEF SendSnapshot
<1>4. CASE VenueMove
  BY <1>1, <1>4 DEF VenueMove
<1>5. CASE SendOther
  BY <1>1, <1>5 DEF SendOther
<1>6. CASE Hang
  BY <1>1, <1>6 DEF Hang
<1>7. CASE Canceled
  BY <1>2, <1>7 DEF Canceled, seen
<1>8. CASE BackoffOver
  BY <1>2, <1>8 DEF BackoffOver, seen
<1>9. CASE DialFails
  BY <1>2, <1>9 DEF DialFails, seen
<1>10. CASE Subscribed
  BY <1>2, <1>10 DEF Subscribed, connected
<1>11. CASE ReadFails
  BY <1>2, <1>11 DEF ReadFails, seen
<1>12. CASE DispatchFatal
  BY <1>2, <1>12 DEF DispatchFatal, seen
<1>13. CASE Dispatch
  <2>. DEFINE f == Head(wire)
  <2>1. CASE tickDue /\ sink = "gone"
    <3>1. gapOpen' = (gapOpen \/ silenceGap) /\ UNCHANGED seen
      BY <1>13, <2>1 DEF Dispatch
    <3>. QED
      BY <3>1 DEF seen, silenceGap
  <2>2. CASE ~(tickDue /\ sink = "gone")
    <3>1. /\ gapOpen' = ((gapOpen \/ silenceGap) /\ ~isData(f))
          /\ droughtGaps' = IF isData(f) THEN 0 ELSE droughtGaps + (IF silenceGap THEN 1 ELSE 0)
      BY <1>13, <2>2 DEF Dispatch
    <3>2. isData(f) \in BOOLEAN /\ silenceGap \in BOOLEAN /\ (silenceGap => ~gapOpen)
      BY DEF isData, silenceGap
    <3>. HIDE DEF f
    <3>3. CASE isData(f)
      BY <3>1, <3>3
    <3>4. CASE ~isData(f) /\ silenceGap
      <4>1. droughtGaps = 0
        BY <3>2, <3>4
      <4>2. droughtGaps' = 1
        BY <3>1, <3>4, <4>1
      <4>3. gapOpen' = TRUE
        BY <3>1, <3>4
      <4>. QED
        BY <4>2, <4>3
    <3>5. CASE ~isData(f) /\ ~silenceGap
      <4>1. droughtGaps' = droughtGaps + 0 /\ gapOpen' = gapOpen
        BY <3>1, <3>5
      <4>. QED
        BY <4>1
    <3>. QED
      BY <3>2, <3>3, <3>4, <3>5
  <2>. QED
    BY <2>1, <2>2
<1>14. CASE Cancel
  BY <1>1, <1>14 DEF Cancel
<1>15. CASE WriterGone
  BY <1>1, <1>15 DEF WriterGone
<1>16. CASE AdvanceClock
  BY <1>2, <1>16 DEF AdvanceClock, seen
<1>17. CASE UNCHANGED vars
  BY <1>1, <1>17 DEF vars
<1>. QED
  BY <1>3, <1>4, <1>5, <1>6, <1>7, <1>8, <1>9, <1>10, <1>11, <1>12, <1>13, <1>14, <1>15,
     <1>16, <1>17 DEF Next, StreamStep

LEMMA SmallerOf ==
    ASSUME NEW a \in Int, NEW b \in Int
    PROVE  Min({a, b}) = IF a <= b THEN a ELSE b
<1>1. \E x \in {a, b} : \A y \in {a, b} : x <= y
  OBVIOUS
<1>. QED
  BY <1>1 DEF Min

LEMMA BoundaryInit == Init => BoundaryInv
BY DEF Init, BoundaryInv, NoRow, Never

LEMMA BoundaryStep ==
    ASSUME BoundaryInv, [Next]_vars
    PROVE  BoundaryInv' /\ RowAdvances
<1>. USE DEF BoundaryInv
<1>. SUFFICES BoundaryInv' /\ (row' = row \/ row'.ts > row.ts)
  BY DEF RowAdvances
<1>1. ASSUME UNCHANGED <<now, handler, row>> PROVE BoundaryInv'
  BY <1>1 DEF handler
<1>3. CASE SendSnapshot
  BY <1>1, <1>3 DEF SendSnapshot, clock, seen
<1>4. CASE VenueMove
  BY <1>1, <1>4 DEF VenueMove, clock, seen
<1>5. CASE SendOther
  BY <1>1, <1>5 DEF SendOther, clock, seen
<1>6. CASE Hang
  BY <1>1, <1>6 DEF Hang, clock, seen
<1>7. CASE Canceled
  BY <1>1, <1>7 DEF Canceled, clock, seen
<1>8. CASE BackoffOver
  BY <1>1, <1>8 DEF BackoffOver, clock, seen
<1>9. CASE DialFails
  BY <1>1, <1>9 DEF DialFails, clock, seen
<1>10. CASE Subscribed
  BY <1>10 DEF Subscribed, connected, clock
<1>11. CASE ReadFails
  BY <1>1, <1>11 DEF ReadFails, clock, seen
<1>12. CASE DispatchFatal
  BY <1>1, <1>12 DEF DispatchFatal, clock, seen
<1>13. CASE Dispatch
  <2>1. now' = now /\ lastSnap' = IF tickDue THEN boundary ELSE lastSnap
    BY <1>13 DEF Dispatch, clock
  <2>2. boundary \in Int
    <3>1. Interval \in Nat \ {0}
      BY SnapshotsAssumption DEF BookStreamAssumption
    <3>. QED
      BY <3>1 DEF boundary
  <2>3. tickDue => boundary > lastSnap
    BY DEF tickDue
  <2>4. row' = row \/ (tickDue /\ row' = snapshot(boundary, book))
    BY <1>13 DEF Dispatch, seen
  <2>5. snapshot(boundary, book).ts = boundary
    BY DEF snapshot
  <2>. HIDE DEF BoundaryInv
  <2>6. CASE tickDue
    <3>1. row.ts \in Int /\ row.ts <= lastSnap /\ lastSnap \in Int /\ lastSnap' = boundary
      BY <2>1, <2>6 DEF BoundaryInv
    <3>2. row' = row \/ row'.ts = boundary
      BY <2>4, <2>5
    <3>. QED
      BY <2>1, <2>2, <2>3, <2>6, <3>1, <3>2 DEF BoundaryInv
  <2>7. CASE ~tickDue
    BY <2>1, <2>4, <2>7 DEF BoundaryInv
  <2>. QED
    BY <2>6, <2>7
<1>14. CASE Cancel
  BY <1>1, <1>14 DEF Cancel, seen
<1>15. CASE WriterGone
  BY <1>1, <1>15 DEF WriterGone, seen
<1>16. CASE AdvanceClock
  <2>1. MaxTime \in Nat
    BY SnapshotsAssumption DEF BookStreamAssumption
  <2>2. now' \in Int
    BY <1>16, <2>1, SmallerOf DEF AdvanceClock
  <2>. QED
    BY <1>16, <2>2 DEF AdvanceClock, handler, seen
<1>17. CASE UNCHANGED vars
  BY <1>1, <1>17 DEF vars, clock, seen
<1>. QED
  BY <1>3, <1>4, <1>5, <1>6, <1>7, <1>8, <1>9, <1>10, <1>11, <1>12, <1>13, <1>14, <1>15,
     <1>16, <1>17 DEF Next, StreamStep

-----------------------------------------------------------------------------
(* The book's stream: the book that is rebuilt, and a row of it.           *)

LEMMA Appended ==
    ASSUME NEW T, NEW s \in Seq(T), NEW e \in T
    PROVE  /\ Append(s, e) \in Seq(T) /\ Len(s) \in Nat /\ Len(Append(s, e)) = Len(s) + 1
           /\ \A n \in 1..Len(s) : Append(s, e)[n] = s[n]
           /\ Append(s, e)[Len(s) + 1] = e
OBVIOUS

LEMMA Shortened ==
    ASSUME NEW T, NEW s \in Seq(T), s # <<>>
    PROVE  /\ Tail(s) \in Seq(T) /\ Len(s) \in Nat /\ Len(s) >= 1 /\ Len(Tail(s)) = Len(s) - 1
           /\ \A n \in 1..(Len(s) - 1) : Tail(s)[n] = s[n + 1]
           /\ Head(s) = s[1] /\ s[1] \in T
OBVIOUS

Updates == UNION {[T -> 0..MaxQty] : T \in SUBSET Levels}
Frames ==
    [kind : {"snapshot", "update", "heartbeat", "fatal"}, seq : Nat, ups : Updates,
     bad : SUBSET Levels, before : Books]

Conns == [up : {FALSE}] \cup [up : {TRUE}, seq : Nat, snapped : BOOLEAN, hung : BOOLEAN]

(* The venue's book after a frame it sent.                                 *)
AfterFrame(f) == IF f.kind = "update" THEN apply(f.before, f.ups) ELSE f.before

(* Frames up to the n-th on the wire, or what was read, have the snapshot. *)
Past(n) == ready \/ \E m \in 1..n : isData(wire[m])

ConnInv ==
    /\ vbook \in Books /\ conn \in Conns
    /\ wire \in Seq(Frames)
    /\ \A n \in 1..Len(wire) : wire[n].kind = "snapshot" => wire[n].ups = wire[n].before
    /\ pc = "read" => conn.up
    /\ ~conn.up => wire = <<>>
    /\ conn.up => /\ conn.seq \in Nat
                  /\ ready \/ (\E m \in 1..Len(wire) : isData(wire[m])) => conn.snapped
                  /\ ready => haveSeq
                  /\ haveSeq => lastSeq \in Nat /\ lastSeq < conn.seq
                  /\ \A n \in 1..Len(wire) : wire[n].seq < conn.seq

(* From the snapshot on, a frame that directly follows another finds the   *)
(* venue's book as that one left it; the book that was rebuilt is the one  *)
(* the next frame finds, if no gap was counted and it is the next one.     *)
ChainInv ==
    conn.up =>
      /\ \A n \in 1..(Len(wire) - 1) :
            Past(n) /\ wire[n + 1].seq = wire[n].seq + 1 => wire[n + 1].before = AfterFrame(wire[n])
      /\ wire # <<>> /\ Past(Len(wire)) /\ ~conn.hung /\ wire[Len(wire)].seq + 1 = conn.seq
           => vbook = AfterFrame(wire[Len(wire)])
      /\ ready /\ ~gapHere =>
           /\ wire = <<>> /\ ~conn.hung /\ lastSeq + 1 = conn.seq => vbook = book
           /\ wire # <<>> /\ wire[1].seq = lastSeq + 1 => wire[1].before = book

LEMMA BookOf == ASSUME NEW b \in Books
                PROVE  b \in [DOMAIN b -> 1..MaxQty] /\ DOMAIN b \subseteq Levels
BY DEF Books

LEMMA UpdateOf == ASSUME NEW u \in Updates
                  PROVE  u \in [DOMAIN u -> 0..MaxQty] /\ DOMAIN u \subseteq Levels
BY DEF Updates

LEMMA BookIsUpdate == Books \subseteq Updates
<1>. SUFFICES ASSUME NEW b \in Books PROVE b \in Updates
  OBVIOUS
<1>1. b \in [DOMAIN b -> 1..MaxQty] /\ DOMAIN b \subseteq Levels
  BY BookOf
<1>2. MaxQty \in Nat
  BY SnapshotsAssumption DEF BookStreamAssumption
<1>3. b \in [DOMAIN b -> 0..MaxQty]
  BY <1>1, <1>2
<1>. QED
  BY <1>1, <1>3 DEF Updates

LEMMA NoBookIs == noBook \in Books
<1>1. noBook \in [{} -> 1..MaxQty] /\ {} \in SUBSET Levels
  BY DEF noBook
<1>. QED
  BY <1>1 DEF Books

LEMMA Applied ==
    ASSUME NEW b \in Books, NEW u \in Updates
    PROVE  apply(b, u) \in Books
<1>. DEFINE kept == {l \in DOMAIN b \cup DOMAIN u : l \in DOMAIN u => u[l] > 0}
            a    == apply(b, u)
<1>1. a = [l \in kept |-> IF l \in DOMAIN u THEN u[l] ELSE b[l]]
  BY DEF apply
<1>2. /\ b \in [DOMAIN b -> 1..MaxQty] /\ DOMAIN b \subseteq Levels
      /\ u \in [DOMAIN u -> 0..MaxQty] /\ DOMAIN u \subseteq Levels
  BY BookOf, UpdateOf
<1>3. \A l \in DOMAIN b : b[l] \in 1..MaxQty
  BY <1>2
<1>4. \A l \in DOMAIN u : u[l] \in 0..MaxQty
  BY <1>2
<1>5. MaxQty \in Nat
  BY SnapshotsAssumption DEF BookStreamAssumption
<1>6. \A l \in kept : (IF l \in DOMAIN u THEN u[l] ELSE b[l]) \in 1..MaxQty
  BY <1>3, <1>4, <1>5
<1>7. kept \in SUBSET Levels
  BY <1>2
<1>. HIDE DEF kept, a
<1>8. a \in [kept -> 1..MaxQty]
  BY <1>1, <1>6
<1>. QED
  BY <1>7, <1>8 DEF Books, a

(* A snapshot without a garbled level is taken over as it is.              *)
LEMMA TakenOver == ASSUME NEW b \in Books PROVE apply(noBook, b) = b
<1>1. b \in [DOMAIN b -> 1..MaxQty]
  BY BookOf
<1>2. b = [l \in DOMAIN b |-> b[l]] /\ \A l \in DOMAIN b : b[l] > 0
  BY <1>1
<1>3. {l \in DOMAIN noBook \cup DOMAIN b : l \in DOMAIN b => b[l] > 0} = DOMAIN b
  BY <1>2 DEF noBook
<1>. QED
  BY <1>2, <1>3 DEF apply

LEMMA AllParse == ASSUME NEW u \in Updates PROVE [l \in DOMAIN u \ {} |-> u[l]] = u
<1>1. u \in [DOMAIN u -> 0..MaxQty] /\ DOMAIN u \ {} = DOMAIN u
  BY UpdateOf
<1>. QED
  BY <1>1

LEMMA UpIs ==
    ASSUME NEW c \in Conns, c.up
    PROVE  c \in [up : {TRUE}, seq : Nat, snapped : BOOLEAN, hung : BOOLEAN]
BY DEF Conns

LEMMA ConnIs ==
    ASSUME NEW c \in Conns, c.up, NEW kind, NEW d,
           d = [c EXCEPT !.seq = @ + 1, !.snapped = @ \/ kind = "snapshot"]
    PROVE  /\ d \in Conns /\ d.up /\ d.hung = c.hung /\ d.seq = c.seq + 1
           /\ d.snapped = (c.snapped \/ kind = "snapshot")
<1>1. c \in [up : {TRUE}, seq : Nat, snapped : BOOLEAN, hung : BOOLEAN]
  BY UpIs
<1>2. c.seq + 1 \in Nat /\ (c.snapped \/ kind = "snapshot") \in BOOLEAN
  BY <1>1
<1>3. d \in [up : {TRUE}, seq : Nat, snapped : BOOLEAN, hung : BOOLEAN]
  BY <1>1, <1>2
<1>4. d.up /\ d.hung = c.hung /\ d.seq = c.seq + 1 /\ d.snapped = (c.snapped \/ kind = "snapshot")
  BY <1>1
<1>. QED
  BY <1>3, <1>4 DEF Conns

LEMMA HungIs ==
    ASSUME NEW c \in Conns, c.up, NEW d, d = [c EXCEPT !.hung = TRUE]
    PROVE  d \in Conns /\ d.up /\ d.hung /\ d.seq = c.seq /\ d.snapped = c.snapped
<1>1. c \in [up : {TRUE}, seq : Nat, snapped : BOOLEAN, hung : BOOLEAN]
  BY UpIs
<1>2. d \in [up : {TRUE}, seq : Nat, snapped : BOOLEAN, hung : BOOLEAN]
  BY <1>1
<1>3. d.up /\ d.hung /\ d.seq = c.seq /\ d.snapped = c.snapped
  BY <1>1
<1>. QED
  BY <1>2, <1>3 DEF Conns

LEMMA BookInit == Init => ConnInv /\ ChainInv
<1>. SUFFICES ASSUME Init PROVE ConnInv /\ ChainInv
  OBVIOUS
<1>1. vbook \in Books
  BY SnapshotsAssumption DEF Init, BookStreamAssumption
<1>2. ~conn.up /\ wire = <<>> /\ pc = "dial" /\ conn \in Conns
  BY DEF Init, Conns
<1>3. wire \in Seq(Frames) /\ Len(wire) = 0
  BY <1>2
<1>. QED
  BY <1>1, <1>2, <1>3 DEF ConnInv, ChainInv

(* What a step of the venue does to a connection: a frame f that takes the *)
(* next number and may be lost.                                            *)
EmitOf(f) ==
    /\ conn.up /\ ~conn.hung /\ conn'.up /\ ~conn'.hung
    /\ conn' \in Conns /\ conn'.seq = conn.seq + 1
    /\ conn.snapped \/ f.kind = "snapshot" => conn'.snapped
    /\ wire' = wire \/ wire' = Append(wire, f)
    /\ f \in Frames /\ f.seq = conn.seq /\ f.before = vbook /\ vbook' = AfterFrame(f)
    /\ f.kind = "snapshot" => f.ups = f.before
    /\ isData(f) => conn'.snapped
    /\ UNCHANGED <<pc, haveSeq, lastSeq, ready, book, gapHere>>

LEMMA EmitKeeps ==
    ASSUME ConnInv, ChainInv, NEW f, EmitOf(f)
    PROVE  ConnInv' /\ ChainInv'
<1>. DEFINE W == Len(wire)
<1>1. /\ conn.up /\ ~conn.hung /\ conn'.up /\ ~conn'.hung
      /\ conn' \in Conns /\ conn'.seq = conn.seq + 1
      /\ conn.snapped => conn'.snapped
      /\ wire' = wire \/ wire' = Append(wire, f)
      /\ f \in Frames /\ f.seq = conn.seq /\ f.before = vbook /\ vbook' = AfterFrame(f)
      /\ f.kind = "snapshot" => f.ups = f.before
      /\ isData(f) => conn'.snapped
      /\ pc' = pc /\ haveSeq' = haveSeq /\ lastSeq' = lastSeq /\ ready' = ready /\ book' = book
      /\ gapHere' = gapHere
  BY DEF EmitOf
<1>2. /\ vbook \in Books /\ wire \in Seq(Frames)
      /\ \A n \in 1..W : wire[n].kind = "snapshot" => wire[n].ups = wire[n].before
      /\ conn.seq \in Nat
      /\ ready \/ (\E m \in 1..W : isData(wire[m])) => conn.snapped
      /\ ready => haveSeq
      /\ haveSeq => lastSeq \in Nat /\ lastSeq < conn.seq
      /\ \A n \in 1..W : wire[n].seq < conn.seq
  BY <1>1 DEF ConnInv
<1>3. /\ \A n \in 1..(W - 1) :
            Past(n) /\ wire[n + 1].seq = wire[n].seq + 1 => wire[n + 1].before = AfterFrame(wire[n])
      /\ wire # <<>> /\ Past(W) /\ wire[W].seq + 1 = conn.seq => vbook = AfterFrame(wire[W])
      /\ ready /\ ~gapHere =>
           /\ wire = <<>> /\ lastSeq + 1 = conn.seq => vbook = book
           /\ wire # <<>> /\ wire[1].seq = lastSeq + 1 => wire[1].before = book
  BY <1>1 DEF ChainInv
<1>4. f.ups \in Updates /\ f.kind \in {"snapshot", "update", "heartbeat", "fatal"}
  BY <1>1 DEF Frames
<1>5. vbook' \in Books
  BY <1>1, <1>2, <1>4, Applied DEF AfterFrame
<1>6. W \in Nat /\ \A n \in 1..W : wire[n] \in Frames
  BY <1>2
<1>7. \A n \in 1..W : wire[n].seq \in Nat
  BY <1>6 DEF Frames
<1>8. CASE wire' = wire
  <2>1. \A n \in 1..W : wire[n].seq < conn'.seq /\ wire[n].seq + 1 # conn'.seq
    BY <1>1, <1>2, <1>7
  <2>2. ConnInv'
    <3>1. haveSeq => lastSeq \in Nat /\ lastSeq < conn'.seq
      BY <1>1, <1>2
    <3>2. conn'.seq \in Nat
      BY <1>1, <1>2
    <3>3. ready \/ (\E m \in 1..W : isData(wire[m])) => conn'.snapped
      BY <1>1, <1>2
    <3>. QED
      BY <1>1, <1>2, <1>5, <1>8, <2>1, <3>1, <3>2, <3>3 DEF ConnInv, isData
  <2>3. \A n \in 1..W : Past(n)' = Past(n)
    BY <1>1, <1>8 DEF Past, isData
  <2>4. wire # <<>> => W \in 1..W
    BY <1>2, <1>6
  <2>5. haveSeq => lastSeq + 1 # conn'.seq
    BY <1>1, <1>2
  <2>6. \A n \in 1..(W - 1) : n \in 1..W
    BY <1>6
  <2>. QED
    BY <1>1, <1>2, <1>3, <1>8, <2>1, <2>2, <2>3, <2>4, <2>5, <2>6 DEF ChainInv
<1>9. CASE wire' = Append(wire, f)
  <2>1. /\ wire' \in Seq(Frames) /\ Len(wire') = W + 1
        /\ \A n \in 1..W : wire'[n] = wire[n]
        /\ wire'[W + 1] = f
    BY <1>1, <1>2, <1>9, Appended
  <2>. HIDE DEF W
  <2>2. \A n \in 1..(W + 1) : n \in 1..W \/ n = W + 1
    BY <1>6
  <2>3. ConnInv'
    <3>1. \A n \in 1..(W + 1) : wire'[n].seq < conn'.seq
      BY <1>1, <1>2, <1>7, <2>1, <2>2
    <3>2. ready \/ (\E m \in 1..(W + 1) : isData(wire'[m])) => conn'.snapped
      BY <1>1, <1>2, <2>1, <2>2
    <3>3. \A n \in 1..(W + 1) : wire'[n].kind = "snapshot" => wire'[n].ups = wire'[n].before
      BY <1>1, <1>2, <2>1, <2>2
    <3>4. haveSeq => lastSeq \in Nat /\ lastSeq < conn'.seq
      BY <1>1, <1>2
    <3>5. conn'.seq \in Nat
      BY <1>1, <1>2
    <3>. QED
      BY <1>1, <1>2, <1>5, <2>1, <3>1, <3>2, <3>3, <3>4, <3>5 DEF ConnInv, isData
  <2>4. \A n \in 1..W : Past(n)' => Past(n)
    <3>. SUFFICES ASSUME NEW n \in 1..W, Past(n)' PROVE Past(n)
      OBVIOUS
    <3>1. \A m \in 1..n : m \in 1..W
      BY <1>6
    <3>. QED
      BY <1>1, <2>1, <3>1 DEF Past, isData
  <2>5. wire' # <<>> /\ Len(wire') - 1 = W /\ W + 1 \in 1..(W + 1)
    BY <1>6, <2>1
  <2>6. ASSUME NEW n \in 1..W, Past(n)', wire'[n + 1].seq = wire'[n].seq + 1
        PROVE  wire'[n + 1].before = AfterFrame(wire'[n])
    <3>1. Past(n)
      BY <2>4, <2>6
    <3>2. CASE n = W
      <4>1. wire # <<>> /\ wire'[n + 1] = f /\ wire'[n] = wire[W]
        BY <1>6, <2>1, <3>2 DEF W
      <4>2. wire[W].seq + 1 = conn.seq
        BY <1>1, <2>6, <4>1
      <4>. QED
        BY <1>1, <1>3, <3>1, <3>2, <4>1, <4>2
    <3>3. CASE n # W
      <4>1. n \in 1..(W - 1) /\ n + 1 \in 1..W
        BY <1>6, <3>3
      <4>. QED
        BY <1>3, <2>1, <2>6, <3>1, <4>1
    <3>. QED
      BY <3>2, <3>3
  <2>7. ready /\ ~gapHere /\ wire'[1].seq = lastSeq + 1 => wire'[1].before = book
    <3>1. CASE wire = <<>>
      <4>1. W = 0
        BY <3>1 DEF W
      <4>2. wire'[1] = f
        BY <2>1, <4>1
      <4>. QED
        BY <1>1, <1>3, <3>1, <4>2
    <3>2. CASE wire # <<>>
      <4>1. 1 \in 1..W
        BY <1>2, <3>2 DEF W
      <4>. QED
        BY <1>3, <2>1, <3>2, <4>1
    <3>. QED
      BY <3>1, <3>2
  <2>8. vbook' = AfterFrame(wire'[W + 1])
    BY <1>1, <2>1
  <2>9. ChainInv'
    <3>1. \A n \in 1..(Len(wire') - 1) :
             Past(n)' /\ wire'[n + 1].seq = wire'[n].seq + 1
               => wire'[n + 1].before = AfterFrame(wire'[n])
      BY <2>5, <2>6
    <3>2. vbook' = AfterFrame(wire'[Len(wire')])
      BY <2>1, <2>8
    <3>3. ready' /\ ~gapHere' =>
            (wire' # <<>> /\ wire'[1].seq = lastSeq' + 1 => wire'[1].before = book')
      BY <1>1, <2>7
    <3>. QED
      BY <2>5, <3>1, <3>2, <3>3 DEF ChainInv
  <2>. QED
    BY <2>3, <2>9
<1>. QED
  BY <1>1, <1>8, <1>9

LEMMA FrameIs ==
    ASSUME NEW kind \in {"snapshot", "update", "heartbeat", "fatal"}, NEW u \in Updates,
           NEW bad \in SUBSET Levels, NEW n \in Nat, vbook \in Books
    PROVE  [kind |-> kind, seq |-> n, ups |-> u, bad |-> bad, before |-> vbook] \in Frames
BY DEF Frames

LEMMA Framed ==
    ASSUME NEW k, NEW u, NEW bad
    PROVE  [Frame(k) EXCEPT !.ups = u, !.bad = bad]
             = [kind |-> k, seq |-> 0, ups |-> u, bad |-> bad, before |-> vbook]
<1>. DEFINE r == [kind |-> k, seq |-> 0, ups |-> noBook, bad |-> {}, before |-> vbook]
<1>1. Frame(k) = r
  BY DEF Frame
<1>2. [r EXCEPT !.ups = u, !.bad = bad] = [[r EXCEPT !.ups = u] EXCEPT !.bad = bad]
  OBVIOUS
<1>3. [r EXCEPT !.ups = u] = [kind |-> k, seq |-> 0, ups |-> u, bad |-> {}, before |-> vbook]
  OBVIOUS
<1>4. [[kind |-> k, seq |-> 0, ups |-> u, bad |-> {}, before |-> vbook] EXCEPT !.bad = bad]
        = [kind |-> k, seq |-> 0, ups |-> u, bad |-> bad, before |-> vbook]
  OBVIOUS
<1>. HIDE DEF r
<1>. QED
  BY <1>1, <1>2, <1>3, <1>4

(* A frame in words of the module, and what Emit makes of it.              *)
LEMMA Emitted ==
    ASSUME ConnInv, NEW kind \in {"snapshot", "update", "heartbeat", "fatal"}, NEW u \in Updates,
           NEW bad \in SUBSET Levels, NEW g,
           g = [kind |-> kind, seq |-> 0, ups |-> u, bad |-> bad, before |-> vbook],
           Emit(g),
           kind = "snapshot" => u = vbook,
           kind = "update" => conn.snapped,
           vbook' = AfterFrame(g),
           UNCHANGED <<pc, haveSeq, lastSeq, ready, book, gapHere>>
    PROVE  \E f : EmitOf(f)
<1>. DEFINE f == [kind |-> kind, seq |-> conn.seq, ups |-> u, bad |-> bad, before |-> vbook]
<1>1. /\ conn.up /\ ~conn.hung
      /\ conn' = [conn EXCEPT !.seq = @ + 1, !.snapped = @ \/ g.kind = "snapshot"]
      /\ wire' \in {wire} \cup
           (IF Len(wire) < MaxInFlight THEN {Append(wire, [g EXCEPT !.seq = conn.seq])} ELSE {})
  BY DEF Emit
<1>2. conn.seq \in Nat /\ vbook \in Books
  BY <1>1 DEF ConnInv
<1>3. f \in Frames
  BY <1>2, FrameIs
<1>4. [g EXCEPT !.seq = conn.seq] = f
  OBVIOUS
<1>5. wire' = wire \/ wire' = Append(wire, f)
  BY <1>1, <1>4
<1>6. g.kind = kind
  OBVIOUS
<1>7. /\ conn' \in Conns /\ conn'.up /\ conn'.hung = conn.hung /\ conn'.seq = conn.seq + 1
      /\ conn'.snapped = (conn.snapped \/ kind = "snapshot")
  <2>1. conn \in Conns
    BY DEF ConnInv
  <2>2. conn' = [conn EXCEPT !.seq = @ + 1, !.snapped = @ \/ kind = "snapshot"]
    BY <1>1, <1>6
  <2>. HIDE DEF f
  <2>. QED
    BY <1>1, <2>1, <2>2, ConnIs
<1>8. f.kind = kind /\ f.ups = u /\ f.before = vbook /\ f.seq = conn.seq
  OBVIOUS
<1>9. AfterFrame(g) = AfterFrame(f)
  BY DEF AfterFrame
<1>. HIDE DEF f
<1>10. isData(f) => conn'.snapped
  BY <1>7, <1>8 DEF isData
<1>. QED
  BY <1>1, <1>3, <1>5, <1>7, <1>8, <1>9, <1>10 DEF EmitOf

LEMMA VenueSteps ==
    ASSUME ConnInv, SendSnapshot \/ SendOther \/ (VenueMove /\ conn.up /\ conn.snapped /\ ~conn.hung)
    PROVE  \E f : EmitOf(f)
<1>1. vbook \in Books
  BY DEF ConnInv
<1>2. CASE SendSnapshot
  <2>1. PICK bad \in NoneOrOne(DOMAIN vbook) :
           Emit([Frame("snapshot") EXCEPT !.ups = vbook, !.bad = bad])
    BY <1>2 DEF SendSnapshot
  <2>. DEFINE g == [kind |-> "snapshot", seq |-> 0, ups |-> vbook, bad |-> bad, before |-> vbook]
  <2>2. [Frame("snapshot") EXCEPT !.ups = vbook, !.bad = bad] = g
    BY Framed
  <2>3. bad \in SUBSET Levels
    BY <1>1, BookOf DEF NoneOrOne
  <2>4. vbook \in Updates
    BY <1>1, BookIsUpdate
  <2>5. vbook' = AfterFrame(g)
    BY <1>2 DEF SendSnapshot, AfterFrame
  <2>6. UNCHANGED <<pc, haveSeq, lastSeq, ready, book, gapHere>>
    BY <1>2 DEF SendSnapshot, stream, handler, seen
  <2>7. Emit(g)
    BY <2>1, <2>2
  <2>. HIDE DEF g
  <2>. QED
    BY <2>3, <2>4, <2>5, <2>6, <2>7, Emitted DEF g
<1>3. CASE SendOther
  <2>1. PICK k \in {"heartbeat", "fatal"} : Emit(Frame(k))
    BY <1>3 DEF SendOther
  <2>. DEFINE g == [kind |-> k, seq |-> 0, ups |-> noBook, bad |-> {}, before |-> vbook]
  <2>2. Emit(g)
    BY <2>1 DEF Frame
  <2>3. noBook \in Updates
    BY NoBookIs, BookIsUpdate
  <2>4. vbook' = AfterFrame(g)
    BY <1>3 DEF SendOther, AfterFrame
  <2>5. UNCHANGED <<pc, haveSeq, lastSeq, ready, book, gapHere>>
    BY <1>3 DEF SendOther, stream, handler, seen
  <2>. HIDE DEF g
  <2>. QED
    BY <2>2, <2>3, <2>4, <2>5, Emitted DEF g
<1>4. CASE VenueMove /\ conn.up /\ conn.snapped /\ ~conn.hung
  <2>1. PICK l \in Levels, q \in 0..MaxQty :
           LET ups == [k \in {l} |-> q] IN
           /\ vbook' = apply(vbook, ups)
           /\ \E bad \in NoneOrOne({l}) : Emit([Frame("update") EXCEPT !.ups = ups, !.bad = bad])
    BY <1>4 DEF VenueMove
  <2>. DEFINE u == [k \in {l} |-> q]
  <2>2. PICK bad \in NoneOrOne({l}) : Emit([Frame("update") EXCEPT !.ups = u, !.bad = bad])
    BY <2>1
  <2>. DEFINE g == [kind |-> "update", seq |-> 0, ups |-> u, bad |-> bad, before |-> vbook]
  <2>3. [Frame("update") EXCEPT !.ups = u, !.bad = bad] = g
    BY Framed
  <2>4. u \in Updates
    <3>1. {l} \in SUBSET Levels /\ u \in [{l} -> 0..MaxQty]
      OBVIOUS
    <3>. QED
      BY <3>1 DEF Updates
  <2>5. bad \in SUBSET Levels
    BY DEF NoneOrOne
  <2>6. vbook' = AfterFrame(g)
    BY <2>1 DEF AfterFrame
  <2>7. UNCHANGED <<pc, haveSeq, lastSeq, ready, book, gapHere>>
    BY <1>4 DEF VenueMove, stream, handler, seen
  <2>8. Emit(g)
    BY <2>2, <2>3
  <2>. HIDE DEF g, u
  <2>. QED
    BY <1>4, <2>4, <2>5, <2>6, <2>7, <2>8, Emitted DEF g
<1>. QED
  BY <1>2, <1>3, <1>4

(* The venue's book moves while nothing is told of it.                     *)
LEMMA MoveKeeps ==
    ASSUME ConnInv, ChainInv, VenueMove, ~(conn.up /\ conn.snapped /\ ~conn.hung)
    PROVE  ConnInv' /\ ChainInv'
<1>1. PICK l \in Levels, q \in 0..MaxQty : vbook' = apply(vbook, [k \in {l} |-> q])
  BY DEF VenueMove
<1>2. [k \in {l} |-> q] \in Updates
  <2>1. {l} \in SUBSET Levels /\ [k \in {l} |-> q] \in [{l} -> 0..MaxQty]
    OBVIOUS
  <2>. QED
    BY <2>1 DEF Updates
<1>3. vbook' \in Books
  BY <1>1, <1>2, Applied DEF ConnInv
<1>4. /\ conn' = conn /\ wire' = wire /\ pc' = pc /\ haveSeq' = haveSeq /\ lastSeq' = lastSeq
      /\ ready' = ready /\ book' = book /\ gapHere' = gapHere
  BY DEF VenueMove, stream, handler, seen
<1>5. ConnInv'
  BY <1>3, <1>4 DEF ConnInv, isData
<1>6. \A n : Past(n)' = Past(n)
  BY <1>4 DEF Past, isData
<1>7. conn.up /\ ~conn.hung => ~ready /\ (wire # <<>> => ~Past(Len(wire)))
  BY DEF ConnInv, Past
<1>8. ChainInv'
  BY <1>4, <1>6, <1>7 DEF ChainInv, AfterFrame
<1>. QED
  BY <1>5, <1>8

(* A connection that is closed, or made.                                   *)
LEMMA ClosedKeeps ==
    ASSUME ConnInv, closed, pc' # "read", vbook' = vbook
    PROVE  ConnInv' /\ ChainInv'
<1>1. ~conn'.up /\ wire' = <<>> /\ Len(wire') = 0 /\ wire' \in Seq(Frames) /\ conn' \in Conns
  BY DEF closed, Conns
<1>. QED
  BY <1>1 DEF ConnInv, ChainInv

LEMMA SubscribedKeeps ==
    ASSUME ConnInv, Subscribed
    PROVE  ConnInv' /\ ChainInv'
<1>1. /\ conn' = [up |-> TRUE, seq |-> 1, snapped |-> FALSE, hung |-> FALSE] /\ wire' = <<>>
      /\ haveSeq' = FALSE /\ ready' = FALSE /\ vbook' = vbook
  BY DEF Subscribed, connected, Reset
<1>2. conn'.up /\ conn'.seq = 1 /\ Len(wire') = 0 /\ wire' \in Seq(Frames) /\ conn' \in Conns
  BY <1>1 DEF Conns
<1>3. ~haveSeq' /\ ~ready'
  BY <1>1
<1>. QED
  BY <1>1, <1>2, <1>3 DEF ConnInv, ChainInv, Past

LEMMA RestKeeps ==
    ASSUME ConnInv, ChainInv,
           vbook' = vbook, wire' = wire, pc' = pc \/ pc' # "read", haveSeq' = haveSeq,
           lastSeq' = lastSeq, ready' = ready, book' = book, gapHere' = gapHere,
           conn' = conn \/ (conn.up /\ conn' = [conn EXCEPT !.hung = TRUE])
    PROVE  ConnInv' /\ ChainInv'
<1>1. \A n : Past(n)' = Past(n)
  BY DEF Past, isData
<1>2. CASE conn' = conn
  BY <1>1, <1>2 DEF ConnInv, ChainInv, AfterFrame, isData
<1>3. CASE conn.up /\ conn' = [conn EXCEPT !.hung = TRUE]
  <2>1. /\ conn' \in Conns /\ conn'.up /\ conn'.seq = conn.seq /\ conn'.snapped = conn.snapped
        /\ conn'.hung
    <3>1. conn \in Conns
      BY DEF ConnInv
    <3>. QED
      BY <1>3, <3>1, HungIs
  <2>. QED
    BY <1>1, <1>3, <2>1 DEF ConnInv, ChainInv, AfterFrame, isData
<1>. QED
  BY <1>2, <1>3
(* What a frame that is read makes of the book.                            *)
LEMMA BookAfter ==
    ASSUME ConnInv, ChainInv, conn.up, wire # <<>>, handled(Head(wire)), ready',
           ~gapHere, ~sequenceGap(Head(wire)), ~handlerError(Head(wire))
    PROVE  /\ book' = AfterFrame(wire[1])
           /\ ready => book = wire[1].before
<1>. DEFINE f == wire[1]
<1>1. Head(wire) = f /\ f \in Frames /\ Len(wire) >= 1 /\ 1 \in 1..Len(wire)
  BY Shortened DEF ConnInv
<1>2. f.before \in Books /\ f.ups \in Updates /\ f.seq \in Nat
  BY <1>1 DEF Frames
<1>3. f.kind = "snapshot" => f.ups = f.before
  BY <1>1 DEF ConnInv
<1>. HIDE DEF f
<1>4. ready => book = f.before
  <2>. SUFFICES ASSUME ready PROVE book = f.before
    OBVIOUS
  <2>1. haveSeq
    BY DEF ConnInv
  <2>2. f.seq = lastSeq + 1
    BY <1>1, <2>1 DEF sequenceGap
  <2>. QED
    BY <2>2 DEF ChainInv, f
<1>5. handled(f) /\ ~handlerError(f)
  BY <1>1
<1>6. CASE isData(f) /\ (f.kind = "snapshot" \/ ready)
  <2>1. f.bad = {}
    BY <1>5, <1>6 DEF handlerError
  <2>2. book' = apply(IF f.kind = "snapshot" THEN noBook ELSE book,
                      [l \in DOMAIN f.ups \ {} |-> f.ups[l]])
    BY <1>5, <1>6, <2>1 DEF handled
  <2>3. book' = apply(IF f.kind = "snapshot" THEN noBook ELSE book, f.ups)
    BY <1>2, <2>2, AllParse
  <2>4. CASE f.kind = "snapshot"
    <3>1. book' = f.before
      BY <1>2, <1>3, <2>3, <2>4, TakenOver
    <3>. QED
      BY <1>4, <2>4, <3>1 DEF AfterFrame, f
  <2>5. CASE f.kind # "snapshot"
    <3>1. f.kind = "update" /\ ready
      BY <1>6, <2>5 DEF isData
    <3>. QED
      BY <1>4, <2>3, <3>1 DEF AfterFrame, f
  <2>. QED
    BY <2>4, <2>5
<1>7. CASE ~(isData(f) /\ (f.kind = "snapshot" \/ ready))
  <2>1. book' = book /\ ready' = ready
    BY <1>5, <1>7 DEF handled
  <2>2. ready /\ ~isData(f)
    BY <1>7, <2>1
  <2>. QED
    BY <1>4, <2>1, <2>2 DEF AfterFrame, isData, f
<1>. QED
  BY <1>6, <1>7

(* A frame that is read and not the end of the connection.                 *)
LEMMA ReadKeeps ==
    ASSUME ConnInv, ChainInv, conn.up, wire # <<>>, handled(Head(wire)), vbook' = vbook,
           wire' = Tail(wire), conn' = conn, lastSeq' = Head(wire).seq, haveSeq' = TRUE,
           gapHere' = (gapHere \/ gapOf(Head(wire)))
    PROVE  ConnInv' /\ ChainInv'
<1>. DEFINE W == Len(wire)
            f == wire[1]
<1>1. /\ wire' \in Seq(Frames) /\ W \in Nat /\ W >= 1 /\ Len(wire') = W - 1
      /\ \A n \in 1..(W - 1) : wire'[n] = wire[n + 1]
      /\ Head(wire) = f /\ f \in Frames
  BY Shortened DEF ConnInv
<1>2. f.seq \in Nat
  BY <1>1 DEF Frames
<1>3. /\ vbook \in Books /\ conn \in Conns /\ conn.seq \in Nat
      /\ \A n \in 1..W : wire[n].kind = "snapshot" => wire[n].ups = wire[n].before
      /\ ready \/ (\E m \in 1..W : isData(wire[m])) => conn.snapped
      /\ \A n \in 1..W : wire[n].seq < conn.seq
  BY DEF ConnInv
<1>4. /\ \A n \in 1..(W - 1) :
            Past(n) /\ wire[n + 1].seq = wire[n].seq + 1 => wire[n + 1].before = AfterFrame(wire[n])
      /\ Past(W) /\ ~conn.hung /\ wire[W].seq + 1 = conn.seq => vbook = AfterFrame(wire[W])
  BY DEF ChainInv
<1>5. ready' => ready \/ isData(f)
  BY <1>1 DEF handled
<1>6. ready' /\ ~gapHere' => book' = AfterFrame(f)
  BY <1>1, BookAfter DEF gapOf
<1>7. lastSeq' = f.seq
  BY <1>1
<1>. HIDE DEF W, f
<1>8. \A n \in 1..(W - 1) : n + 1 \in 1..W
  BY <1>1
<1>9. 1 \in 1..W
  BY <1>1
<1>10. ConnInv'
  <2>1. \A n \in 1..(W - 1) : wire'[n].kind = "snapshot" => wire'[n].ups = wire'[n].before
    BY <1>1, <1>3, <1>8
  <2>2. ready' \/ (\E m \in 1..(W - 1) : isData(wire'[m])) => conn.snapped
    BY <1>1, <1>3, <1>5, <1>8, <1>9 DEF f
  <2>3. \A n \in 1..(W - 1) : wire'[n].seq < conn.seq
    BY <1>1, <1>3, <1>8
  <2>4. lastSeq' \in Nat /\ lastSeq' < conn.seq
    BY <1>2, <1>3, <1>7, <1>9 DEF f
  <2>. QED
    BY <1>1, <1>3, <2>1, <2>2, <2>3, <2>4 DEF ConnInv, isData
<1>11. \A n \in 0..(W - 1) : Past(n)' => Past(n + 1)
  <2>. SUFFICES ASSUME NEW n \in 0..(W - 1), Past(n)' PROVE Past(n + 1)
    OBVIOUS
  <2>1. CASE ready'
    <3>1. 1 \in 1..(n + 1)
      BY <1>1
    <3>. QED
      BY <1>5, <2>1, <3>1 DEF Past, f
  <2>2. CASE ~ready'
    <3>1. PICK m \in 1..n : isData(wire'[m])
      BY <2>2 DEF Past, isData
    <3>2. m \in 1..(W - 1) /\ m + 1 \in 1..(n + 1)
      BY <1>1
    <3>3. isData(wire[m + 1])
      BY <1>1, <3>1, <3>2
    <3>. QED
      BY <3>2, <3>3 DEF Past
  <2>. QED
    BY <2>1, <2>2
<1>12. ASSUME NEW n \in 1..(W - 2), Past(n)', wire'[n + 1].seq = wire'[n].seq + 1
       PROVE  wire'[n + 1].before = AfterFrame(wire'[n])
  <2>1. n \in 1..(W - 1) /\ n + 1 \in 1..(W - 1) /\ n \in 0..(W - 1) /\ (n + 1) + 1 = n + 2
    BY <1>1
  <2>2. wire'[n] = wire[n + 1] /\ wire'[n + 1] = wire[n + 2]
    BY <1>1, <2>1
  <2>3. Past(n + 1)
    BY <1>11, <1>12, <2>1
  <2>. QED
    BY <1>4, <1>12, <2>1, <2>2, <2>3
<1>13. ASSUME wire' # <<>>, NEW n, n = W - 1, Past(n)', ~conn.hung, wire'[n].seq + 1 = conn.seq
       PROVE  vbook = AfterFrame(wire'[n])
  <2>1. W - 1 # 0
    <3>1. Len(wire') # 0
      BY <1>1, <1>13
    <3>. QED
      BY <1>1, <3>1
  <2>2. n \in 1..(W - 1) /\ n \in 0..(W - 1) /\ n + 1 = W
    BY <1>1, <1>13, <2>1
  <2>3. wire'[n] = wire[W] /\ Past(W)
    BY <1>1, <1>11, <1>13, <2>2
  <2>. QED
    BY <1>4, <1>13, <2>3
<1>14. ASSUME ready', ~gapHere', wire' = <<>>, ~conn.hung, lastSeq' + 1 = conn.seq
       PROVE  vbook = book'
  <2>1. W = 1
    <3>1. Len(wire') = 0
      <4>1. Len(<<>>) = 0
        OBVIOUS
      <4>. QED
        BY <1>14, <4>1, Zenon
    <3>. QED
      BY <1>1, <3>1
  <2>2. Past(W)
    BY <1>5, <1>9, <1>14 DEF Past, f
  <2>. QED
    BY <1>4, <1>6, <1>7, <1>14, <2>1, <2>2 DEF f
<1>15. ASSUME ready', ~gapHere', wire' # <<>>, wire'[1].seq = lastSeq' + 1
       PROVE  wire'[1].before = book'
  <2>1. W - 1 # 0
    BY <1>1, <1>15
  <2>2. 1 \in 1..(W - 1) /\ 1 \in 1..1
    BY <1>1, <2>1
  <2>3. Past(1)
    BY <1>5, <1>15, <2>2 DEF Past, f
  <2>4. wire'[1] = wire[1 + 1]
    BY <1>1, <2>2
  <2>. QED
    BY <1>4, <1>6, <1>7, <1>15, <2>2, <2>3, <2>4 DEF f
<1>16. (W - 1) - 1 = W - 2 /\ Len(wire') = W - 1
  BY <1>1
<1>17. ChainInv'
  <2>1. \A n \in 1..(Len(wire') - 1) :
           Past(n)' /\ wire'[n + 1].seq = wire'[n].seq + 1 => wire'[n + 1].before = AfterFrame(wire'[n])
    BY <1>12, <1>16
  <2>2. \A n : n = Len(wire') /\ wire' # <<>> /\ Past(n)' /\ ~conn.hung /\ wire'[n].seq + 1 = conn.seq
          => vbook = AfterFrame(wire'[n])
    BY <1>13, <1>16
  <2>3. ready' /\ ~gapHere' =>
          /\ wire' = <<>> /\ ~conn.hung /\ lastSeq' + 1 = conn.seq => vbook = book'
          /\ wire' # <<>> /\ wire'[1].seq = lastSeq' + 1 => wire'[1].before = book'
    BY <1>14, <1>15
  <2>. QED
    BY <2>1, <2>2, <2>3 DEF ChainInv, Past, AfterFrame, isData
<1>. QED
  BY <1>10, <1>17

LEMMA DispatchKeeps ==
    ASSUME ConnInv, ChainInv, Dispatch
    PROVE  ConnInv' /\ ChainInv'
<1>. DEFINE f == Head(wire)
<1>1. pc = "read" /\ wire # <<>> /\ vbook' = vbook
  BY DEF Dispatch
<1>2. conn.up
  BY <1>1 DEF ConnInv
<1>3. CASE tickDue /\ sink = "gone"
  <2>1. pc' = "done" /\ closed
    BY <1>3 DEF Dispatch
  <2>. QED
    BY <1>1, <2>1, ClosedKeeps
<1>4. CASE ~(tickDue /\ sink = "gone")
  <2>1. /\ lastSeq' = f.seq /\ haveSeq' = TRUE /\ handled(f)
        /\ gapHere' = (gapHere \/ gapOf(f)) /\ wire' = Tail(wire)
        /\ conn' = conn
    BY <1>4 DEF Dispatch
  <2>. QED
    BY <1>1, <1>2, <2>1, ReadKeeps
<1>. QED
  BY <1>3, <1>4

LEMMA BookStep ==
    ASSUME ConnInv, ChainInv, [Next]_vars
    PROVE  ConnInv' /\ ChainInv'
<1>1. CASE SendSnapshot \/ SendOther
  BY <1>1, VenueSteps, EmitKeeps
<1>2. CASE VenueMove
  <2>1. CASE conn.up /\ conn.snapped /\ ~conn.hung
    BY <1>2, <2>1, VenueSteps, EmitKeeps
  <2>2. CASE ~(conn.up /\ conn.snapped /\ ~conn.hung)
    BY <1>2, <2>2, MoveKeeps
  <2>. QED
    BY <2>1, <2>2
<1>3. CASE Hang
  BY <1>3, RestKeeps DEF Hang, stream, handler, seen
<1>4. CASE Canceled
  BY <1>4, ClosedKeeps DEF Canceled, stop
<1>5. CASE BackoffOver
  BY <1>5, RestKeeps DEF BackoffOver, venue, handler, seen
<1>6. CASE DialFails
  BY <1>6, ClosedKeeps DEF DialFails, backOff
<1>7. CASE Subscribed
  BY <1>7, SubscribedKeeps
<1>8. CASE ReadFails
  BY <1>8, ClosedKeeps DEF ReadFails, backOff
<1>9. CASE DispatchFatal
  BY <1>9, ClosedKeeps DEF DispatchFatal, backOff
<1>10. CASE Dispatch
  BY <1>10, DispatchKeeps
<1>11. CASE Cancel \/ WriterGone
  BY <1>11, RestKeeps DEF Cancel, WriterGone, venue, stream, handler, seen
<1>12. CASE AdvanceClock
  BY <1>12, RestKeeps DEF AdvanceClock, venue, handler, seen
<1>13. CASE UNCHANGED vars
  BY <1>13, RestKeeps DEF vars, venue, stream, handler, seen
<1>. QED
  BY <1>1, <1>2, <1>3, <1>4, <1>5, <1>6, <1>7, <1>8, <1>9, <1>10, <1>11, <1>12, <1>13
     DEF Next, StreamStep

(* A row is made of a book, and that is the one the venue had.             *)
RowShowsVenue ==
    row' # row /\ ~gapHere' =>
      Head(wire).before \in Books /\ \E ts : row' = snapshot(ts, Head(wire).before)

LEMMA RowStep ==
    ASSUME ConnInv, ChainInv, [Next]_vars
    PROVE  RowShowsVenue
<1>. SUFFICES ASSUME row' # row, ~gapHere'
              PROVE  Head(wire).before \in Books /\ \E ts : row' = snapshot(ts, Head(wire).before)
  BY DEF RowShowsVenue
<1>1. Dispatch
  <2>1. ~(SendSnapshot \/ VenueMove \/ SendOther \/ Hang)
    BY DEF SendSnapshot, VenueMove, SendOther, Hang, seen
  <2>2. ~(Canceled \/ BackoffOver \/ DialFails \/ Subscribed \/ ReadFails \/ DispatchFatal)
    BY DEF Canceled, BackoffOver, DialFails, Subscribed, connected, ReadFails, DispatchFatal, seen
  <2>3. ~(Cancel \/ WriterGone \/ AdvanceClock) /\ ~UNCHANGED vars
    BY DEF Cancel, WriterGone, AdvanceClock, vars, seen
  <2>. QED
    BY <2>1, <2>2, <2>3 DEF Next, StreamStep
<1>. DEFINE f == Head(wire)
<1>2. pc = "read" /\ wire # <<>>
  BY <1>1 DEF Dispatch
<1>3. conn.up
  BY <1>2 DEF ConnInv
<1>4. ~(tickDue /\ sink = "gone")
  BY <1>1 DEF Dispatch, seen
<1>5. /\ row' = IF tickDue THEN snapshot(boundary, book) ELSE row
      /\ gapHere' = (gapHere \/ gapOf(f))
  BY <1>1, <1>4 DEF Dispatch
<1>6. tickDue /\ ~gapHere /\ ~sequenceGap(f)
  BY <1>5 DEF gapOf
<1>7. ready /\ haveSeq
  BY <1>3, <1>6 DEF tickDue, ConnInv
<1>8. f = wire[1] /\ f \in Frames
  BY <1>2, Shortened DEF ConnInv
<1>9. wire[1].seq = lastSeq + 1
  BY <1>6, <1>7, <1>8 DEF sequenceGap
<1>10. wire[1].before = book
  BY <1>2, <1>3, <1>6, <1>7, <1>9 DEF ChainInv
<1>11. f.before \in Books
  BY <1>8 DEF Frames
<1>12. row' = snapshot(boundary, f.before)
  BY <1>5, <1>6, <1>8, <1>10
<1>. HIDE DEF f
<1>. QED
  BY <1>11, <1>12 DEF f

-----------------------------------------------------------------------------
(* What a row shows of a book.                                             *)

(* Counting up by steps, and the least of a set of naturals.               *)
LEMMA LeastOf ==
    ASSUME NEW T \in SUBSET Nat, T # {}
    PROVE  \E d \in T : \A y \in T : d <= y
<1>. DEFINE Below == OpToRel(<, Nat)
<1>1. IsWellFoundedOn(Below, Nat)
  BY NatLessThanWellFounded
<1>2. \A x, y \in Nat : y < x => <<y, x>> \in Below
  BY DEF OpToRel
<1>. HIDE DEF Below
<1>3. PICK d \in T : \A y \in T : ~(<<y, d>> \in Below)
  BY <1>1, WFMin
<1>4. \A y \in T : ~(y < d)
  BY <1>2, <1>3, Zenon
<1>. QED
  BY <1>4

LEMMA CountUp ==
    ASSUME NEW n \in Nat, NEW P, 0 \in P, \A i \in 0..(n - 1) : i \in P => i + 1 \in P
    PROVE  \A i \in 0..n : i \in P
<1>. DEFINE D == {i \in 0..n : i \notin P}
<1>. SUFFICES ASSUME D # {} PROVE FALSE
  OBVIOUS
<1>1. D \in SUBSET Nat
  OBVIOUS
<1>2. PICK d \in D : \A y \in D : d <= y
  BY <1>1, LeastOf
<1>3. d \in 0..n /\ d \notin P /\ d # 0
  OBVIOUS
<1>4. d - 1 \in 0..(n - 1) /\ d - 1 \in 0..n /\ ~(d <= d - 1) /\ d - 1 + 1 = d
  BY <1>3
<1>5. d - 1 \in P
  BY <1>2, <1>4
<1>. QED
  BY <1>3, <1>4, <1>5

(* sort.Slice: that there is an order to promise.  The least goes first;   *)
(* the other side is that order reversed.                                  *)
Ascends(s, n) == \A i, j \in 1..n : i < j => s[i] < s[j]

LEMMA AscendingExists ==
    ASSUME NEW P \in SUBSET Nat, IsFiniteSet(P)
    PROVE  \E s \in [1..Cardinality(P) -> P] : Ascends(s, Cardinality(P))
<1>. DEFINE C == Cardinality(P)
            G == {n \in Nat : \A Q \in SUBSET Nat :
                    IsFiniteSet(Q) /\ Cardinality(Q) = n => \E s \in [1..n -> Q] : Ascends(s, n)}
<1>1. C \in Nat
  BY FS_CardinalityType
<1>2. 0 \in G
  <2>. SUFFICES ASSUME NEW Q \in SUBSET Nat PROVE \E s \in [1..0 -> Q] : Ascends(s, 0)
    OBVIOUS
  <2>1. [i \in 1..0 |-> 0] \in [1..0 -> Q] /\ Ascends([i \in 1..0 |-> 0], 0)
    BY DEF Ascends
  <2>. QED
    BY <2>1
<1>3. \A n \in 0..(C - 1) : n \in G => n + 1 \in G
  <2>. SUFFICES ASSUME NEW n \in 0..(C - 1), n \in G, NEW Q \in SUBSET Nat, IsFiniteSet(Q),
                       Cardinality(Q) = n + 1
                PROVE  \E s \in [1..(n + 1) -> Q] : Ascends(s, n + 1)
    BY <1>1
  <2>1. n \in Nat /\ n + 1 # 0
    BY <1>1
  <2>2. Q # {}
    BY <2>1, FS_EmptySet
  <2>3. PICK w \in Q : \A y \in Q : w <= y
    BY <2>2, LeastOf
  <2>. DEFINE R == Q \ {w}
  <2>4. IsFiniteSet(R) /\ Cardinality(R) = n
    <3>1. IsFiniteSet(R) /\ Cardinality(R) = Cardinality(Q) - 1
      BY FS_RemoveElement
    <3>. HIDE DEF R
    <3>. QED
      BY <2>1, <3>1
  <2>5. R \in SUBSET Nat /\ \A y \in R : w < y /\ y \in Q
    BY <2>3
  <2>. HIDE DEF R
  <2>6. PICK s \in [1..n -> R] : Ascends(s, n)
    BY <2>4, <2>5
  <2>. HIDE DEF G
  <2>7. \A i \in 2..(n + 1) : i - 1 \in 1..n /\ s[i - 1] \in R
    BY <2>1, <2>6
  <2>. DEFINE t == [i \in 1..(n + 1) |-> IF i = 1 THEN w ELSE s[i - 1]]
  <2>8. t \in [1..(n + 1) -> Q]
    <3>1. \A i \in 1..(n + 1) : i = 1 \/ i \in 2..(n + 1)
      BY <2>1
    <3>. QED
      BY <2>5, <2>7, <3>1
  <2>9. ASSUME NEW i \in 1..(n + 1), NEW j \in 1..(n + 1), i < j PROVE t[i] < t[j]
    <3>1. j \in 2..(n + 1) /\ t[j] = s[j - 1] /\ t[j] \in R
      BY <2>1, <2>7, <2>9
    <3>2. CASE i = 1
      BY <2>5, <3>1, <3>2
    <3>3. CASE i # 1
      <4>1. i \in 2..(n + 1) /\ t[i] = s[i - 1] /\ i - 1 \in 1..n /\ j - 1 \in 1..n /\ i - 1 < j - 1
        BY <2>1, <2>9, <3>3
      <4>. QED
        BY <2>6, <3>1, <4>1 DEF Ascends
    <3>. QED
      BY <3>2, <3>3
  <2>. HIDE DEF t
  <2>. QED
    BY <2>8, <2>9 DEF Ascends
<1>4. C \in 0..C
  BY <1>1
<1>5. C \in G
  <2>. HIDE DEF G, C
  <2>. QED
    BY <1>1, <1>2, <1>3, <1>4, CountUp
<1>. QED
  BY <1>5

InOrder(s, n, side) == \A i, j \in 1..n : i < j => better(side, s[i], s[j])

LEMMA SortedIs ==
    ASSUME NEW P \in SUBSET Nat, IsFiniteSet(P), NEW side \in Sides
    PROVE  sorted(P, side) \in [1..Cardinality(P) -> P] /\ InOrder(sorted(P, side), Cardinality(P), side)
<1>. DEFINE C == Cardinality(P)
            Ok(s) == \A i, j \in DOMAIN s : i < j => better(side, s[i], s[j])
<1>1. C \in Nat
  BY FS_CardinalityType
<1>2. PICK a \in [1..C -> P] : Ascends(a, C)
  BY AscendingExists
<1>. HIDE DEF C
<1>3. \E s \in [1..C -> P] : Ok(s)
  <2>1. CASE side = "offer"
    <3>1. Ok(a)
      BY <1>2, <2>1 DEF Ascends, better
    <3>. QED
      BY <3>1
  <2>2. CASE side = "bid"
    <3>. DEFINE r == [i \in 1..C |-> a[C + 1 - i]]
    <3>1. \A i \in 1..C : C + 1 - i \in 1..C
      BY <1>1
    <3>2. r \in [1..C -> P]
      BY <3>1
    <3>3. ASSUME NEW i \in 1..C, NEW j \in 1..C, i < j PROVE r[i] > r[j]
      <4>1. C + 1 - j < C + 1 - i
        BY <1>1, <3>3
      <4>2. a[C + 1 - j] < a[C + 1 - i]
        BY <1>2, <3>1, <4>1 DEF Ascends
      <4>3. a[C + 1 - j] \in Nat /\ a[C + 1 - i] \in Nat
        BY <3>1
      <4>. QED
        BY <4>2, <4>3
    <3>. HIDE DEF r
    <3>4. Ok(r)
      BY <2>2, <3>2, <3>3 DEF better
    <3>. QED
      BY <3>2, <3>4
  <2>. QED
    BY <2>1, <2>2 DEF Sides
<1>4. sorted(P, side) \in [1..C -> P] /\ Ok(sorted(P, side))
  <2>1. sorted(P, side) = CHOOSE s \in [1..C -> P] : Ok(s)
    BY DEF sorted, C
  <2>. HIDE DEF Ok
  <2>. QED
    BY <1>3, <2>1
<1>. QED
  BY <1>4 DEF InOrder, C
LEMMA OrderIs ==
    ASSUME NEW side \in Sides, NEW p \in Nat, NEW q \in Nat
    PROVE  /\ ~better(side, p, p)
           /\ better(side, p, q) => ~better(side, q, p)
BY DEF better, Sides

(* The n best of the prices of a side.                                     *)
LEMMA RankIs ==
    ASSUME NEW P \in SUBSET Nat, IsFiniteSet(P), NEW side \in Sides,
           NEW s \in [1..Cardinality(P) -> P], InOrder(s, Cardinality(P), side),
           NEW i \in 1..Cardinality(P)
    PROVE  Cardinality({p \in P : better(side, p, s[i])}) = i - 1
<1>. DEFINE C == Cardinality(P)
            B == {p \in P : better(side, p, s[i])}
            f == [j \in 1..(i - 1) |-> s[j]]
<1>1. C \in Nat /\ IsFiniteSet(1..C) /\ Cardinality(1..C) = C
  BY FS_CardinalityType, FS_Interval
<1>. HIDE DEF C
<1>2. s \in [1..C -> P] /\ InOrder(s, C, side) /\ i \in 1..C
  BY DEF C
<1>3. \A k \in 1..C : s[k] \in P /\ s[k] \in Nat
  BY <1>2
<1>4. \A j, k \in 1..C : j < k => better(side, s[j], s[k]) /\ s[j] # s[k]
  BY <1>2, <1>3, OrderIs DEF InOrder
<1>5. \A j, k \in 1..C : s[j] = s[k] => j = k
  BY <1>1, <1>4
<1>6. s \in Injection(1..C, P)
  BY <1>2, <1>5 DEF Injection, IsInjective
<1>7. \A p \in P : \E k \in 1..C : s[k] = p
  <2>1. s \in Surjection(1..C, P)
    BY <1>1, <1>6, FS_Injection DEF C
  <2>. QED
    BY <2>1 DEF Surjection
<1>8. \A j \in 1..(i - 1) : j \in 1..C /\ j < i
  BY <1>1, <1>2
<1>9. f \in [1..(i - 1) -> B]
  BY <1>2, <1>3, <1>4, <1>8
<1>10. ASSUME NEW p \in B PROVE \E j \in 1..(i - 1) : f[j] = p
  <2>1. PICK k \in 1..C : s[k] = p
    BY <1>7
  <2>2. k # i /\ ~(i < k)
    BY <1>2, <1>3, <1>4, <2>1, OrderIs
  <2>3. k \in 1..(i - 1)
    BY <1>1, <1>2, <2>2
  <2>. QED
    BY <2>1, <2>3
<1>11. \A j, k \in 1..(i - 1) : f[j] = f[k] => j = k
  BY <1>5, <1>8
<1>. HIDE DEF f, B
<1>12. f \in Bijection(1..(i - 1), B)
  BY <1>9, <1>10, <1>11 DEF Bijection, Injection, Surjection, IsInjective
<1>13. ExistsBijection(1..(i - 1), B)
  BY <1>12 DEF ExistsBijection
<1>14. IsFiniteSet(1..(i - 1)) /\ Cardinality(1..(i - 1)) = i - 1
  <2>1. i - 1 \in Nat /\ i - 1 - 1 + 1 = i - 1
    BY <1>1, <1>2
  <2>2. IsFiniteSet(1..(i - 1)) /\ Cardinality(1..(i - 1)) = IF 1 > i - 1 THEN 0 ELSE i - 1 - 1 + 1
    BY <2>1, FS_Interval
  <2>. QED
    BY <2>1, <2>2
<1>. QED
  BY <1>13, <1>14, FS_Bijection DEF B

LEMMA PricesAre ==
    ASSUME NEW b \in Books, NEW side \in Sides
    PROVE  /\ pricesOf(b, side) \in SUBSET Nat /\ IsFiniteSet(pricesOf(b, side))
           /\ \A p \in pricesOf(b, side) : <<side, p>> \in DOMAIN b /\ b[<<side, p>>] \in 1..MaxQty
           /\ \A l \in DOMAIN b : l[1] = side => l[2] \in pricesOf(b, side)
<1>1. b \in [DOMAIN b -> 1..MaxQty] /\ DOMAIN b \subseteq Levels
  BY BookOf
<1>2. \A l \in DOMAIN b : l = <<l[1], l[2]>> /\ l[2] \in Prices
  BY <1>1 DEF Levels
<1>3. pricesOf(b, side) \subseteq Prices
  BY <1>2 DEF pricesOf
<1>4. Prices \subseteq Nat /\ IsFiniteSet(Prices)
  BY SnapshotsAssumption DEF BookStreamAssumption
<1>5. IsFiniteSet(pricesOf(b, side))
  BY <1>3, <1>4, FS_Subset
<1>6. ASSUME NEW p \in pricesOf(b, side) PROVE <<side, p>> \in DOMAIN b
  BY <1>2 DEF pricesOf
<1>7. \A l \in DOMAIN b : b[l] \in 1..MaxQty
  BY <1>1
<1>8. \A l \in DOMAIN b : l[1] = side => l[2] \in pricesOf(b, side)
  BY DEF pricesOf
<1>. QED
  BY <1>3, <1>4, <1>5, <1>6, <1>7, <1>8

(* The levels a row keeps of a side.                                       *)
LEMMA TopIs ==
    ASSUME NEW b \in Books, NEW side \in Sides, NEW levels, levels = top(b, side)
    PROVE  \E n \in Nat :
             /\ DOMAIN levels = 1..n /\ Len(levels) = n
             /\ n = Min({bookDepth, Cardinality(pricesOf(b, side))})
             /\ n = 0 <=> pricesOf(b, side) = {}
             /\ \A i \in 1..n :
                  /\ levels[i].px \in pricesOf(b, side) /\ levels[i].px \in Nat
                  /\ levels[i].qty = b[<<side, levels[i].px>>]
                  /\ levels[i].qty \in Nat /\ levels[i].qty >= 1
                  /\ Cardinality({p \in pricesOf(b, side) : better(side, p, levels[i].px)}) = i - 1
                  /\ i = 1 \/ better(side, levels[1].px, levels[i].px)
<1>. DEFINE P == pricesOf(b, side)
            C == Cardinality(P)
            s == sorted(P, side)
            n == Min({bookDepth, C})
<1>1. P \in SUBSET Nat /\ IsFiniteSet(P) /\ \A p \in P : b[<<side, p>>] \in 1..MaxQty
  BY PricesAre
<1>2. bookDepth \in Nat \ {0} /\ MaxQty \in Nat
  BY SnapshotsAssumption DEF BookStreamAssumption
<1>. HIDE DEF P
<1>3. C \in Nat /\ (C = 0 <=> P = {})
  BY <1>1, FS_CardinalityType, FS_EmptySet
<1>4. s \in [1..C -> P] /\ InOrder(s, C, side)
  BY <1>1, SortedIs
<1>5. levels = [i \in 1..n |-> [px |-> s[i], qty |-> b[<<side, s[i]>>]]]
  BY DEF top, P
<1>. HIDE DEF C, s
<1>6. n = IF bookDepth <= C THEN bookDepth ELSE C
  BY <1>2, <1>3, SmallerOf
<1>. HIDE DEF n
<1>7. n \in Nat /\ n <= C /\ (n = 0 <=> P = {})
  BY <1>2, <1>3, <1>6
<1>8. DOMAIN levels = 1..n /\ Len(levels) = n
  BY <1>5, <1>7
<1>9. ASSUME NEW i \in 1..n
      PROVE  /\ levels[i].px \in P /\ levels[i].px \in Nat
             /\ levels[i].qty = b[<<side, levels[i].px>>]
             /\ levels[i].qty \in Nat /\ levels[i].qty >= 1
             /\ Cardinality({p \in P : better(side, p, levels[i].px)}) = i - 1
             /\ i = 1 \/ better(side, levels[1].px, levels[i].px)
  <2>1. i \in 1..C /\ 1 \in 1..C /\ 1 \in 1..n /\ (i = 1 \/ 1 < i)
    BY <1>3, <1>7
  <2>2. levels[i].px = s[i] /\ levels[i].qty = b[<<side, s[i]>>] /\ levels[1].px = s[1]
    BY <1>5, <2>1
  <2>3. s[i] \in P /\ s[i] \in Nat
    BY <1>1, <1>4, <2>1
  <2>4. b[<<side, s[i]>>] \in 1..MaxQty
    BY <1>1, <2>3
  <2>5. Cardinality({p \in P : better(side, p, s[i])}) = i - 1
    BY <1>1, <1>4, <2>1, RankIs DEF C
  <2>6. i = 1 \/ better(side, s[1], s[i])
    BY <1>4, <2>1 DEF InOrder
  <2>. QED
    BY <1>2, <2>2, <2>3, <2>4, <2>5, <2>6
<1>. QED
  BY <1>7, <1>8, <1>9 DEF n, C, P

LEMMA TopIsSide ==
    ASSUME NEW b \in Books, NEW side \in Sides
    PROVE  SideIs(top(b, side), b, side)
<1>. DEFINE levels == top(b, side)
<1>1. PICK n \in Nat :
         /\ DOMAIN levels = 1..n /\ Len(levels) = n
         /\ n = Min({bookDepth, Cardinality(pricesOf(b, side))})
         /\ \A i \in 1..n :
              /\ levels[i].px \in pricesOf(b, side) /\ levels[i].qty = b[<<side, levels[i].px>>]
              /\ Cardinality({p \in pricesOf(b, side) : better(side, p, levels[i].px)}) = i - 1
  BY TopIs
<1>. HIDE DEF levels
<1>. QED
  BY <1>1 DEF SideIs, levels

(* A recursive function is whatever satisfies its equation; that something *)
(* does is shown by extending what satisfies it up to n.                   *)
SumsUpTo(U, f, n) == U[0] = 0 /\ \A i \in 1..n : U[i] = U[i - 1] + f[i]

LEMMA SumIs ==
    ASSUME NEW n \in Nat, NEW f \in [1..n -> Nat]
    PROVE  \E U \in [0..n -> Nat] : SumsUpTo(U, f, n) /\ sum(f) = U[n]
<1>. DEFINE Upto(g, m) == g = [i \in 0..m |-> IF i = 0 THEN 0 ELSE g[i - 1] + f[i]]
            G == {m \in 0..n : \E g : Upto(g, m)}
            upTo == CHOOSE g : Upto(g, n)
<1>1. 0 \in G
  <2>1. Upto([i \in 0..0 |-> 0], 0)
    OBVIOUS
  <2>. HIDE DEF Upto
  <2>. QED
    BY <2>1
<1>2. \A m \in 0..(n - 1) : m \in G => m + 1 \in G
  <2>0. \A m \in 0..(n - 1) : m + 1 \in 0..n
    OBVIOUS
  <2>. HIDE DEF Upto
  <2>. SUFFICES ASSUME NEW m \in 0..(n - 1), m \in G PROVE \E g : Upto(g, m + 1)
    BY <2>0
  <2>1. PICK g : Upto(g, m)
    OBVIOUS
  <2>. USE DEF Upto
  <2>. DEFINE h == [i \in 0..(m + 1) |-> IF i = m + 1 THEN g[m] + f[m + 1] ELSE g[i]]
  <2>2. \A i \in 0..m : h[i] = g[i]
    OBVIOUS
  <2>3. ASSUME NEW i \in 0..(m + 1)
        PROVE  h[i] = IF i = 0 THEN 0 ELSE h[i - 1] + f[i]
    <3>1. CASE i = m + 1
      <4>1. h[i] = g[m] + f[m + 1] /\ i # 0 /\ i - 1 = m /\ h[m] = g[m]
        BY <3>1, <2>2
      <4>. QED
        BY <3>1, <4>1
    <3>2. CASE i # m + 1
      <4>1. i \in 0..m /\ (i # 0 => i - 1 \in 0..m)
        BY <3>2
      <4>2. g[i] = IF i = 0 THEN 0 ELSE g[i - 1] + f[i]
        BY <2>1, <4>1
      <4>. HIDE DEF h
      <4>. QED
        BY <2>2, <4>1, <4>2
    <3>. QED
      BY <3>1, <3>2
  <2>. DEFINE e == [i \in 0..(m + 1) |-> IF i = 0 THEN 0 ELSE h[i - 1] + f[i]]
  <2>4. h = [i \in 0..(m + 1) |-> h[i]]
    OBVIOUS
  <2>. HIDE DEF h
  <2>5. e = [i \in 0..(m + 1) |-> h[i]]
    BY <2>3
  <2>6. Upto(h, m + 1)
    BY <2>4, <2>5
  <2>. HIDE DEF Upto
  <2>. QED
    BY <2>6
<1>3. n \in 0..n
  OBVIOUS
<1>4. n \in G
  <2>. HIDE DEF G
  <2>. QED
    BY <1>1, <1>2, <1>3, CountUp
<1>5. Upto(upTo, n)
  <2>. HIDE DEF Upto
  <2>. QED
    BY <1>4
<1>6. Len(f) = n
  OBVIOUS
<1>7. sum(f) = upTo[n]
  BY <1>6 DEF sum
<1>. HIDE DEF upTo
<1>8. \A i \in 0..n : upTo[i] = IF i = 0 THEN 0 ELSE upTo[i - 1] + f[i]
  BY <1>5
<1>9. SumsUpTo(upTo, f, n)
  <2>1. \A i \in 1..n : i \in 0..n /\ i # 0
    OBVIOUS
  <2>. QED
    BY <1>8, <2>1 DEF SumsUpTo
<1>10. \A i \in 0..n : upTo[i] \in Nat
  <2>. DEFINE T == {i \in 0..n : upTo[i] \in Nat}
  <2>1. 0 \in T
    BY <1>8
  <2>2. \A i \in 0..(n - 1) : i \in T => i + 1 \in T
    <3>1. \A i \in 0..(n - 1) : i + 1 \in 1..n /\ i + 1 \in 0..n /\ i + 1 - 1 = i
      OBVIOUS
    <3>. QED
      BY <1>9, <3>1 DEF SumsUpTo
  <2>3. \A i \in 0..n : i \in T
    <3>. HIDE DEF T
    <3>. QED
      BY <2>1, <2>2, CountUp
  <2>. QED
    BY <2>3
<1>11. upTo \in [0..n -> Nat]
  BY <1>5, <1>10
<1>. QED
  BY <1>7, <1>9, <1>11

LEMMA Weighed ==
    ASSUME NEW a \in Nat, NEW q \in Nat, NEW p \in Nat, p <= a, NEW v \in Nat, NEW t \in Nat,
           v <= a * t
    PROVE  v + p * q \in Nat /\ v + p * q <= a * (t + q)
<1>1. p * q <= a * q /\ p * q \in Nat /\ a * q \in Nat /\ a * t \in Nat
  OBVIOUS
<1>2. a * (t + q) = a * t + a * q
  OBVIOUS
<1>. QED
  BY <1>1, <1>2

Weighs(v, p, q, n) == \A i \in 1..n : v[i] = p[i] * q[i] /\ q[i] >= 1

(* The weighed mean of numbers none of which is above a is not above a.    *)
LEMMA Totals ==
    ASSUME NEW n \in Nat, NEW a \in Nat, NEW q \in [1..n -> Nat], NEW p \in [1..n -> Nat],
           NEW v \in [1..n -> Nat], Weighs(v, p, q, n)
    PROVE  /\ sum(q) \in Nat /\ sum(v) \in Nat
           /\ sum(q) = 0 <=> n = 0
           /\ (\A i \in 1..n : p[i] <= a) => sum(v) <= a * sum(q)
<1>1. PICK U \in [0..n -> Nat] : SumsUpTo(U, q, n) /\ sum(q) = U[n]
  BY SumIs
<1>2. PICK V \in [0..n -> Nat] : SumsUpTo(V, v, n) /\ sum(v) = V[n]
  BY SumIs
<1>3. n \in 0..n
  OBVIOUS
<1>4. U[n] \in Nat /\ V[n] \in Nat
  BY <1>3
<1>5. \A i \in 0..(n - 1) : i + 1 \in 1..n /\ i + 1 \in 0..n /\ i + 1 - 1 = i /\ i \in 0..n
  OBVIOUS
<1>6. U[n] = 0 <=> n = 0
  <2>1. CASE n = 0
    BY <1>1, <2>1 DEF SumsUpTo
  <2>2. CASE n # 0
    <3>1. n \in 1..n /\ n - 1 \in 0..n
      BY <2>2
    <3>2. U[n] = U[n - 1] + q[n] /\ U[n - 1] \in Nat /\ q[n] \in Nat /\ q[n] >= 1
      BY <1>1, <3>1 DEF SumsUpTo, Weighs
    <3>. QED
      BY <2>2, <3>2
  <2>. QED
    BY <2>1, <2>2
<1>7. ASSUME \A i \in 1..n : p[i] <= a PROVE V[n] <= a * U[n]
  <2>. DEFINE T == {i \in 0..n : V[i] <= a * U[i]}
  <2>1. 0 \in T
    BY <1>1, <1>2 DEF SumsUpTo
  <2>2. ASSUME NEW i \in 0..(n - 1), i \in T PROVE i + 1 \in T
    <3>1. V[i + 1] = V[i] + p[i + 1] * q[i + 1] /\ U[i + 1] = U[i] + q[i + 1]
      BY <1>1, <1>2, <1>5 DEF SumsUpTo, Weighs
    <3>2. /\ V[i] \in Nat /\ U[i] \in Nat /\ p[i + 1] \in Nat /\ q[i + 1] \in Nat
          /\ p[i + 1] <= a /\ V[i] <= a * U[i] /\ i + 1 \in 0..n
      BY <1>5, <1>7, <2>2
    <3>3. V[i] + p[i + 1] * q[i + 1] <= a * (U[i] + q[i + 1])
      BY <3>2, Weighed
    <3>. QED
      BY <3>1, <3>2, <3>3
  <2>3. n \in T
    <3>. HIDE DEF T
    <3>. QED
      BY <1>3, <2>1, <2>2, CountUp
  <2>. QED
    BY <2>3
<1>. QED
  BY <1>1, <1>2, <1>4, <1>6, <1>7

LEMMA NoElement ==
    ASSUME NEW s, DOMAIN s = 1..0, s = [i \in DOMAIN s |-> s[i]]
    PROVE  s = <<>>
OBVIOUS

(* What a row says of the sizes of a side.                                 *)
LEMMA SideTotals ==
    ASSUME NEW b \in Books, NEW side \in Sides, NEW levels, levels = top(b, side)
    PROVE  /\ totalDepth(levels) \in Nat /\ notional(levels) \in Nat
           /\ totalDepth(levels) = 0 <=> pricesOf(b, side) = {}
           /\ levels = <<>> <=> pricesOf(b, side) = {}
           /\ side = "bid" /\ levels # <<>> => notional(levels) <= levels[1].px * totalDepth(levels)
<1>. DEFINE P == pricesOf(b, side)
<1>1. PICK n \in Nat :
         /\ DOMAIN levels = 1..n /\ Len(levels) = n
         /\ n = 0 <=> P = {}
         /\ \A i \in 1..n :
              /\ levels[i].px \in Nat /\ levels[i].qty \in Nat /\ levels[i].qty >= 1
              /\ i = 1 \/ better(side, levels[1].px, levels[i].px)
  BY TopIs
<1>. HIDE DEF P
<1>. DEFINE q == [i \in 1..n |-> levels[i].qty]
            p == [i \in 1..n |-> levels[i].px]
            v == [i \in 1..n |-> levels[i].px * levels[i].qty]
<1>2. \A i \in 1..n : levels[i].px * levels[i].qty \in Nat
  BY <1>1
<1>3. q \in [1..n -> Nat] /\ p \in [1..n -> Nat] /\ v \in [1..n -> Nat]
  BY <1>1, <1>2
<1>4. Weighs(v, p, q, n)
  BY <1>1 DEF Weighs
<1>5. totalDepth(levels) = sum(q) /\ notional(levels) = sum(v)
  BY <1>1 DEF totalDepth, notional
<1>6. levels = <<>> <=> n = 0
  <2>1. levels = <<>> => n = 0
    BY <1>1
  <2>2. n = 0 => levels = <<>>
    <3>. SUFFICES ASSUME n = 0 PROVE levels = <<>>
      OBVIOUS
    <3>1. levels = [i \in DOMAIN levels |-> levels[i]]
      BY DEF top
    <3>2. DOMAIN levels = 1..0
      BY <1>1
    <3>. QED
      BY <3>1, <3>2, NoElement
  <2>. QED
    BY <2>1, <2>2
<1>. HIDE DEF q, v
<1>7. sum(q) \in Nat /\ sum(v) \in Nat /\ (sum(q) = 0 <=> n = 0)
  <2>1. 0 \in Nat
    OBVIOUS
  <2>. HIDE DEF p
  <2>. QED
    BY <1>3, <1>4, <2>1, Totals
<1>8. ASSUME side = "bid", levels # <<>> PROVE sum(v) <= levels[1].px * sum(q)
  <2>1. 1 \in 1..n
    BY <1>6, <1>8
  <2>2. levels[1].px \in Nat
    BY <1>1, <2>1
  <2>3. \A i \in 1..n : p[i] <= levels[1].px
    BY <1>1, <1>8, <2>2 DEF better
  <2>. HIDE DEF p
  <2>. QED
    BY <1>3, <1>4, <2>2, <2>3, Totals
<1>. QED
  BY <1>1, <1>5, <1>6, <1>7, <1>8 DEF P

(* What a row shows of the book it is made of.                             *)
Shows(r, b) ==
    /\ SideIs(r.bids, b, "bid") /\ SideIs(r.asks, b, "offer")
    /\ (r.imbalanceTopN = <<>>) <=> (b = noBook)
    /\ r.bids # <<>> => r.impactBid[1] <= r.bestBid * r.impactBid[2]

LEMMA SnapshotShows ==
    ASSUME NEW b \in Books, NEW ts, NEW r, r = snapshot(ts, b)
    PROVE  Shows(r, b)
<1>. DEFINE bids == top(b, "bid")
            asks == top(b, "offer")
            db   == totalDepth(bids)
            da   == totalDepth(asks)
            nb   == notional(bids)
<1>1. "bid" \in Sides /\ "offer" \in Sides
  BY DEF Sides
<1>2. SideIs(bids, b, "bid") /\ SideIs(asks, b, "offer")
  BY <1>1, TopIsSide
<1>3. /\ db \in Nat /\ nb \in Nat
      /\ db = 0 <=> pricesOf(b, "bid") = {}
      /\ bids = <<>> <=> pricesOf(b, "bid") = {}
      /\ bids # <<>> => nb <= bids[1].px * db
  BY <1>1, SideTotals
<1>4. da \in Nat /\ (da = 0 <=> pricesOf(b, "offer") = {})
  BY <1>1, SideTotals
<1>5. /\ r.bids = bids /\ r.asks = asks /\ r.bestBid = best(bids)
      /\ r.imbalanceTopN = imbalance(bids, asks) /\ r.impactBid = impactPrice(bids)
  BY DEF snapshot
<1>6. imbalance(bids, asks) = <<>> <=> db + da = 0
  BY DEF imbalance, ratio
<1>7. impactPrice(bids) = IF db = 0 THEN <<>> ELSE <<nb, db>>
  BY DEF impactPrice, ratio
<1>8. best(bids) = IF bids = <<>> THEN Never ELSE bids[1].px
  BY DEF best
<1>9. b = noBook <=> pricesOf(b, "bid") = {} /\ pricesOf(b, "offer") = {}
  <2>1. ASSUME b = noBook, NEW side \in Sides PROVE pricesOf(b, side) = {}
    BY <2>1, PricesAre DEF noBook
  <2>2. ASSUME pricesOf(b, "bid") = {}, pricesOf(b, "offer") = {} PROVE b = noBook
    <3>1. b \in [DOMAIN b -> 1..MaxQty] /\ DOMAIN b \subseteq Levels
      BY BookOf
    <3>2. \A l \in DOMAIN b : l[1] \in Sides
      BY <3>1 DEF Levels
    <3>3. DOMAIN b = {}
      BY <1>1, <2>2, <3>2, PricesAre DEF Sides
    <3>. QED
      BY <3>1, <3>3 DEF noBook
  <2>. QED
    BY <1>1, <2>1, <2>2
<1>. HIDE DEF bids, asks, db, da, nb
<1>10. r.imbalanceTopN = <<>> <=> b = noBook
  BY <1>3, <1>4, <1>5, <1>6, <1>9
<1>11. bids # <<>> => r.impactBid[1] <= r.bestBid * r.impactBid[2]
  BY <1>3, <1>5, <1>7, <1>8
<1>. QED
  BY <1>2, <1>5, <1>10, <1>11 DEF Shows

-----------------------------------------------------------------------------
(* The sampler: boundaries.                                                *)

IsBoundary(b) == b % interval = 0

LEMMA Multiples ==
    ASSUME NEW a \in Int, NEW b \in Int
    PROVE  /\ interval * a \in Int
           /\ a < b => interval * a + interval <= interval * b
           /\ interval * a < interval * b => a < b
<1>1. interval \in Nat /\ interval > 0
  BY SnapshotsAssumption DEF S!SamplerAssumption
<1>2. ASSUME NEW c \in Nat PROVE interval * c >= 0
  BY <1>1, <1>2
<1>3. interval * a \in Int /\ interval * b \in Int
  BY <1>1
<1>4. interval * (b - a - 1) = interval * b - interval * a - interval
  BY <1>1
<1>5. a < b => interval * a + interval <= interval * b
  <2>. SUFFICES ASSUME a < b PROVE interval * a + interval <= interval * b
    OBVIOUS
  <2>1. b - a - 1 \in Nat
    OBVIOUS
  <2>2. interval * (b - a - 1) >= 0
    BY <1>2, <2>1
  <2>3. interval * b - interval * a - interval >= 0
    BY <1>4, <2>2
  <2>. QED
    BY <1>1, <1>3, <2>3
<1>6. interval * (a - b) = interval * a - interval * b
  BY <1>1
<1>7. b <= a => interval * b <= interval * a
  <2>. SUFFICES ASSUME b <= a PROVE interval * b <= interval * a
    OBVIOUS
  <2>1. interval * (a - b) >= 0
    BY <1>2
  <2>. QED
    BY <1>3, <1>6, <2>1
<1>. QED
  BY <1>3, <1>5, <1>7

LEMMA BoundaryIs ==
    ASSUME NEW b \in Int
    PROVE  IsBoundary(b) <=> \E q \in Int : b = interval * q
<1>1. interval \in Nat /\ interval > 0
  BY SnapshotsAssumption DEF S!SamplerAssumption
<1>. DEFINE d == b \div interval
            r == b % interval
<1>2. d \in Int /\ r \in 0..(interval - 1) /\ b = interval * d + r
  BY <1>1
<1>3. r = 0 => b = interval * d
  BY <1>1, <1>2
<1>4. ASSUME NEW q \in Int, b = interval * q PROVE r = 0
  <2>. HIDE DEF d, r
  <2>1. interval * q \in Int /\ interval * d \in Int
    BY <1>1, <1>2
  <2>2. interval * d <= interval * q /\ interval * q < interval * d + interval
    BY <1>1, <1>2, <1>4, <2>1
  <2>3. ~(d < q)
    BY <1>1, <1>2, <2>1, <2>2, Multiples
  <2>4. ~(q < d)
    BY <1>1, <1>2, <2>1, <2>2, Multiples
  <2>5. q = d
    BY <1>2, <2>3, <2>4
  <2>. QED
    BY <1>2, <1>4, <2>1, <2>5
<1>. QED
  BY <1>2, <1>3, <1>4 DEF IsBoundary

(* Boundaries are an interval apart.                                       *)
LEMMA Apart ==
    ASSUME NEW b \in Int, NEW c \in Int, IsBoundary(b), IsBoundary(c), b < c
    PROVE  b + interval <= c
<1>1. PICK q \in Int : b = interval * q
  BY BoundaryIs
<1>2. PICK k \in Int : c = interval * k
  BY BoundaryIs
<1>. QED
  BY <1>1, <1>2, Multiples

(* The boundary a time belongs to, and the one its timer waits for.        *)
LEMMA Truncated ==
    ASSUME NEW t \in Nat
    PROVE  /\ S!truncate(t) \in Nat /\ IsBoundary(S!truncate(t))
           /\ S!truncate(t) <= t /\ t < S!truncate(t) + interval
           /\ S!untilNextBoundary(t) \in Nat
           /\ t + S!untilNextBoundary(t) = S!truncate(t) + interval
           /\ IsBoundary(S!truncate(t) + interval)
<1>1. interval \in Nat /\ interval > 0
  BY SnapshotsAssumption DEF S!SamplerAssumption
<1>2. /\ t \div interval \in Nat /\ t % interval \in 0..(interval - 1)
      /\ t = (interval * (t \div interval)) + (t % interval)
  BY <1>1
<1>. DEFINE d == t \div interval
            r == t % interval
<1>. HIDE DEF d, r
<1>3. d \in Nat /\ r \in 0..(interval - 1) /\ t = interval * d + r /\ interval * d \in Int
  BY <1>1, <1>2 DEF d, r
<1>4. S!truncate(t) = t - r
  BY DEF S!truncate, r
<1>5. S!truncate(t) = interval * d
  BY <1>1, <1>3, <1>4
<1>6. interval * (d + 1) = interval * d + interval
  BY <1>1, <1>3
<1>7. S!truncate(t) \in Nat /\ S!truncate(t) <= t /\ t < S!truncate(t) + interval
  <2>1. interval * d >= 0
    BY <1>1, <1>3
  <2>. QED
    BY <1>1, <1>3, <1>5, <2>1
<1>8. IsBoundary(S!truncate(t)) /\ IsBoundary(S!truncate(t) + interval)
  <2>1. \A q \in Int : interval * q \in Int => IsBoundary(interval * q)
    BY BoundaryIs
  <2>2. d \in Int /\ d + 1 \in Int /\ interval * d \in Int /\ interval * (d + 1) \in Int
    BY <1>1, <1>3, <1>6
  <2>3. IsBoundary(interval * d) /\ IsBoundary(interval * (d + 1))
    BY <2>1, <2>2
  <2>. QED
    BY <1>5, <1>6, <2>3
<1>9. S!untilNextBoundary(t) = S!truncate(t) + interval - t
  BY DEF S!untilNextBoundary
<1>. QED
  BY <1>1, <1>7, <1>8, <1>9
-----------------------------------------------------------------------------
(* The sampler: its inductive invariant.                                   *)

Pair     == {"perp", "spot"}
QuoteRow == [ts : Int, mid : Int]
FullRow  == [ts : Int, mid : Int, mark : Int, est : Int, hourly : Int,
             source : {"venue", "computed", "none"}, oi : Int, maint : BOOLEAN]

SamplerTypes ==
    /\ snow \in Nat /\ steps \in Nat /\ left \in Int /\ at \in Int /\ lastBoundary \in Int
    /\ obs \in [S!Sources -> Int]
    /\ pollAt \in 0..3 /\ polled \in [open : BOOLEAN, venue : BOOLEAN]
    /\ spc \in {"sleep", "quote", "fill", "flag", "submit", "stopped"} /\ product \in {1, 2}
    /\ spc = "fill" => srow \in QuoteRow
    /\ spc \in {"flag", "submit"} => srow \in FullRow
    /\ rows \in [Pair -> {S!NoRow} \cup FullRow]

(* The row being made is of the last boundary, and those products whose    *)
(* turn is still to come have no row of it.                                *)
RowsInOrder ==
    /\ \A p \in Pair : rows[p].ts <= lastBoundary
    /\ spc \in {"quote", "fill", "flag", "submit"} =>
          /\ rows["spot"].ts < lastBoundary
          /\ product = 1 => rows["perp"].ts < lastBoundary
    /\ spc \in {"fill", "flag", "submit"} => srow.ts = lastBoundary

SamplerInv == SamplerTypes /\ RowsInOrder

LEMMA Constants ==
    /\ interval \in Nat /\ interval > 0
    /\ maxQuoteAge \in Nat /\ maxMarkAge \in Nat /\ maxFundingAge \in Nat /\ maxSessionAge \in Nat
    /\ Lateness \in Nat /\ Busy \in Nat
BY SnapshotsAssumption DEF S!SamplerAssumption

LEMMA Turns ==
    /\ S!Products[1] = "perp" /\ S!Products[2] = "spot" /\ Len(S!Products) = 2
    /\ S!pollOrder[1] = "oi" /\ S!pollOrder[2] = "session" /\ S!pollOrder[3] = "venue"
    /\ Len(S!pollOrder) = 3 /\ DOMAIN S!pollOrder = {1, 2, 3}
<1>1. DOMAIN <<"oi", "session", "venue">> = 1..3
  OBVIOUS
<1>2. 1..3 = {1, 2, 3}
  OBVIOUS
<1>. QED
  BY <1>1, <1>2 DEF S!Products, S!pollOrder

LEMMA WithinIs ==
    ASSUME SamplerTypes, NEW s \in S!Sources, NEW age
    PROVE  /\ S!within(s, age) \in Int
           /\ S!within(s, age) # S!None => S!within(s, age) = obs[s] /\ at - obs[s] <= age
<1>1. obs[s] \in Int /\ S!None \in Int
  BY DEF SamplerTypes, S!None
<1>. QED
  BY <1>1 DEF S!within

(* A row that was submitted has a time, and so has none at all.            *)
LEMMA RowTimes ==
    ASSUME SamplerTypes
    PROVE  \A p \in Pair : rows[p].ts \in Int
<1>. SUFFICES ASSUME NEW p \in Pair PROVE rows[p].ts \in Int
  OBVIOUS
<1>1. rows[p] \in {S!NoRow} \cup FullRow
  BY DEF SamplerTypes
<1>2. CASE rows[p] = S!NoRow
  BY <1>2 DEF S!NoRow, S!None
<1>3. CASE rows[p] \in FullRow
  BY <1>3 DEF FullRow
<1>. QED
  BY <1>1, <1>2, <1>3

LEMMA SamplerInit == S!Init => SamplerInv
<1>. SUFFICES ASSUME S!Init PROVE SamplerInv
  OBVIOUS
<1>. USE DEF S!Init
<1>1. snow \in Nat /\ left \in Int
  <2>1. snow \in Nat
    BY Constants
  <2>. QED
    BY <2>1, Constants, Truncated
<1>2. obs \in [S!Sources -> Int] /\ S!None \in Int
  BY DEF S!None
<1>3. polled \in [open : BOOLEAN, venue : BOOLEAN]
  OBVIOUS
<1>4. rows \in [Pair -> {S!NoRow} \cup FullRow] /\ \A p \in Pair : rows[p].ts = S!None
  BY DEF Pair, S!NoRow
<1>. QED
  BY <1>1, <1>2, <1>3, <1>4 DEF SamplerInv, SamplerTypes, RowsInOrder

(* What a turn's end leaves: the next product's quote, or a new sleep.     *)
LEMMA TurnEnds ==
    ASSUME SamplerTypes, S!nextProduct, snow' = snow
    PROVE  \/ product = 1 /\ product' = 2 /\ spc' = "quote" /\ left' = left
           \/ product = 2 /\ product' = 2 /\ spc' = "sleep" /\ left' = S!untilNextBoundary(snow)
<1>1. product \in {1, 2}
  BY DEF SamplerTypes
<1>2. CASE product = 1
  BY <1>2, Turns DEF S!nextProduct
<1>3. CASE product = 2
  BY <1>3, Turns DEF S!nextProduct, S!sleepAgain
<1>. QED
  BY <1>1, <1>2, <1>3

LEMMA TypesStep ==
    ASSUME SamplerInv, [S!Next]_samplerVars
    PROVE  SamplerTypes'
<1>. USE DEF SamplerInv
<1>1. ASSUME UNCHANGED <<snow, steps, S!poll, S!sampler, rows>>, obs' \in [S!Sources -> Int]
      PROVE  SamplerTypes'
  BY <1>1 DEF SamplerTypes, S!poll, S!sampler
<1>2. obs \in [S!Sources -> Int] /\ snow \in Nat /\ {"perp", "spot", "marks", "funding", "oi", "session", "venue"} = S!Sources
  BY DEF SamplerTypes, S!Sources
<1>3. CASE S!Push
  <2>1. PICK s \in S!Pushed \cap feeds : obs' = [obs EXCEPT ![s] = snow]
    BY <1>3 DEF S!Push
  <2>2. s \in S!Sources
    BY DEF S!Pushed, S!Sources
  <2>3. obs' \in [S!Sources -> Int]
    BY <1>2, <2>1, <2>2
  <2>. QED
    BY <1>1, <1>3, <2>3 DEF S!Push, S!env, S!written
<1>4. CASE S!ObserveStatus
  BY <1>1, <1>2, <1>4 DEF S!ObserveStatus, S!env, S!written
<1>5. CASE S!Poll
  BY <1>5 DEF S!Poll, SamplerTypes, S!env, S!seen, S!sampler, S!written
<1>6. CASE S!PollObserve
  <2>1. pollAt \in {1, 2, 3} /\ pollAt' = (pollAt + 1) % 4
    BY <1>6, Turns DEF S!PollObserve
  <2>2. pollAt' \in 0..3
    BY <2>1
  <2>3. S!pollOrder[pollAt] \in S!Sources
    BY <2>1, Turns DEF S!Sources
  <2>4. obs' = obs \/ obs' = [obs EXCEPT ![S!pollOrder[pollAt]] = snow]
    BY <1>6 DEF S!PollObserve
  <2>5. obs' \in [S!Sources -> Int]
    BY <1>2, <2>3, <2>4
  <2>. QED
    BY <1>6, <2>2, <2>5 DEF S!PollObserve, SamplerTypes, S!env, S!sampler, S!written
<1>7. CASE S!Wake
  <2>1. /\ S!truncate(snow) \in Int /\ S!untilNextBoundary(snow) \in Int
    BY <1>2, Truncated
  <2>2. /\ left' \in Int /\ at' \in Int /\ lastBoundary' \in Int
        /\ spc' \in {"quote", "sleep"} /\ product' \in {1, 2}
    BY <1>7, <2>1 DEF S!Wake, S!sleepAgain, SamplerTypes
  <2>. QED
    BY <1>7, <2>2 DEF S!Wake, SamplerTypes, S!env, S!seen, S!poll
<1>8. CASE S!ReadQuote
  <2>1. product \in {1, 2} /\ lastBoundary \in Int
    BY DEF SamplerTypes
  <2>2. S!Products[product] \in S!Sources
    BY <2>1, Turns DEF S!Sources
  <2>3. srow' \in QuoteRow
    BY <1>8, <2>1, <2>2, WithinIs DEF S!ReadQuote, QuoteRow
  <2>. QED
    BY <1>8, <2>3 DEF S!ReadQuote, SamplerTypes, S!env, S!seen, S!poll, S!written
<1>9. CASE S!Fill
  <2>1. srow \in QuoteRow
    BY <1>9 DEF S!Fill, SamplerTypes
  <2>2. srow.ts \in Int /\ srow.mid \in Int
    BY <2>1 DEF QuoteRow
  <2>3. S!None \in Int /\ obs["oi"] \in Int
    BY <1>2 DEF S!None
  <2>4. /\ S!within("marks", maxMarkAge) \in Int /\ S!within("funding", maxFundingAge) \in Int
        /\ S!within("venue", maxFundingAge) \in Int
    BY <1>2, WithinIs
  <2>5. srow' \in FullRow
    BY <1>9, <2>2, <2>3, <2>4 DEF S!Fill, FullRow
  <2>. QED
    BY <1>9, <2>5 DEF S!Fill, SamplerTypes, S!env, S!seen, S!poll, S!written
<1>10. CASE S!Flag
  <2>1. srow \in FullRow
    BY <1>10 DEF S!Flag, SamplerTypes
  <2>. DEFINE maint == S!Products[product] = "perp" /\ S!inMaintenance
  <2>2. maint \in BOOLEAN
    OBVIOUS
  <2>3. \/ srow' = [srow EXCEPT !.maint = maint] /\ spc' = "submit" /\ UNCHANGED <<product, left>>
        \/ srow' = srow /\ S!nextProduct
    BY <1>10 DEF S!Flag
  <2>4. UNCHANGED <<snow, steps, S!seen, S!poll, at, lastBoundary, rows>>
    BY <1>10 DEF S!Flag, S!env, S!written
  <2>. HIDE DEF maint
  <2>5. CASE srow' = [srow EXCEPT !.maint = maint] /\ spc' = "submit" /\ UNCHANGED <<product, left>>
    <3>1. srow' \in FullRow
      BY <2>1, <2>2, <2>5 DEF FullRow
    <3>. QED
      BY <2>4, <2>5, <3>1 DEF SamplerTypes, S!seen, S!poll
  <2>6. CASE srow' = srow /\ S!nextProduct
    <3>1. spc' \in {"quote", "sleep"} /\ product' \in {1, 2} /\ left' \in Int
      <4>1. S!untilNextBoundary(snow) \in Int /\ left \in Int
        BY <1>2, Truncated DEF SamplerTypes
      <4>. QED
        BY <2>4, <2>6, <4>1, TurnEnds
    <3>. QED
      BY <2>4, <3>1 DEF SamplerTypes, S!seen, S!poll
  <2>. QED
    BY <2>3, <2>5, <2>6
<1>11. CASE S!Submit
  <2>1. srow \in FullRow /\ product \in {1, 2}
    BY <1>11 DEF S!Submit, SamplerTypes
  <2>2. rows' = [rows EXCEPT ![S!Products[product]] = srow]
    BY <1>11 DEF S!Submit
  <2>3. rows' \in [Pair -> {S!NoRow} \cup FullRow]
    BY <2>1, <2>2 DEF SamplerTypes
  <2>4. UNCHANGED <<snow, steps, S!seen, S!poll, at, lastBoundary>> /\ S!nextProduct
    BY <1>11 DEF S!Submit, S!env
  <2>5. spc' \in {"quote", "sleep"} /\ product' \in {1, 2} /\ left' \in Int
    <3>1. S!untilNextBoundary(snow) \in Int /\ left \in Int
      BY <1>2, Truncated DEF SamplerTypes
    <3>. QED
      BY <2>4, <3>1, TurnEnds
  <2>. QED
    BY <2>3, <2>4, <2>5 DEF SamplerTypes, S!seen, S!poll
<1>12. CASE S!Stop
  BY <1>12 DEF S!Stop, SamplerTypes, S!env, S!seen, S!poll, S!written
<1>13. CASE S!AdvanceClock
  <2>1. snow' \in Nat /\ left' \in Int
    BY <1>13 DEF S!AdvanceClock, SamplerTypes
  <2>. QED
    BY <1>13, <2>1 DEF S!AdvanceClock, SamplerTypes, S!seen, S!poll
<1>14. CASE S!StepBack
  <2>1. snow' \in Nat /\ steps' \in Nat
    BY <1>14 DEF S!StepBack, SamplerTypes
  <2>. QED
    BY <1>14, <2>1 DEF S!StepBack, SamplerTypes, S!seen, S!poll, S!sampler, S!written
<1>15. CASE UNCHANGED samplerVars
  BY <1>15 DEF samplerVars, SamplerTypes
<1>. QED
  BY <1>3, <1>4, <1>5, <1>6, <1>7, <1>8, <1>9, <1>10, <1>11, <1>12, <1>13, <1>14, <1>15 DEF S!Next
LEMMA OrderStep ==
    ASSUME SamplerInv, [S!Next]_samplerVars
    PROVE  RowsInOrder' /\ S!RowsAdvance
<1>1. /\ \A p \in Pair : rows[p].ts \in Int
      /\ lastBoundary \in Int /\ product \in {1, 2} /\ DOMAIN rows = Pair
      /\ "perp" \in Pair /\ "spot" \in Pair
  BY RowTimes DEF SamplerInv, SamplerTypes, Pair
<1>2. SUFFICES RowsInOrder' /\ \A p \in Pair : rows'[p] = rows[p] \/ rows'[p].ts > rows[p].ts
  BY <1>1 DEF S!RowsAdvance
<1>. USE DEF RowsInOrder
<1>3. ASSUME UNCHANGED <<spc, product, lastBoundary, srow, rows>> PROVE RowsInOrder'
  BY <1>3 DEF SamplerInv
<1>4. CASE S!Push
  BY <1>3, <1>4 DEF S!Push, S!sampler, S!written
<1>5. CASE S!ObserveStatus
  BY <1>3, <1>5 DEF S!ObserveStatus, S!sampler, S!written
<1>6. CASE S!Poll
  BY <1>3, <1>6 DEF S!Poll, S!sampler, S!written
<1>7. CASE S!PollObserve
  BY <1>3, <1>7 DEF S!PollObserve, S!sampler, S!written
<1>8. CASE S!Wake
  <2>. DEFINE ts == S!truncate(snow)
  <2>1. ts \in Int
    BY Truncated DEF SamplerInv, SamplerTypes
  <2>2. UNCHANGED <<srow, rows>>
    BY <1>8 DEF S!Wake
  <2>3. \/ ts > lastBoundary /\ lastBoundary' = ts /\ spc' = "quote"
        \/ lastBoundary' = lastBoundary /\ spc' = "sleep"
    BY <1>8 DEF S!Wake, S!isNew, S!sleepAgain
  <2>. HIDE DEF ts
  <2>4. CASE ts > lastBoundary /\ lastBoundary' = ts /\ spc' = "quote"
    <3>1. \A p \in Pair : rows[p].ts < lastBoundary'
      BY <1>1, <2>1, <2>4 DEF SamplerInv
    <3>. QED
      BY <1>1, <2>1, <2>2, <2>4, <3>1
  <2>5. CASE lastBoundary' = lastBoundary /\ spc' = "sleep"
    BY <2>2, <2>5 DEF SamplerInv
  <2>. QED
    BY <2>3, <2>4, <2>5
<1>9. CASE S!ReadQuote
  <2>1. srow'.ts = lastBoundary /\ spc = "quote" /\ spc' = "fill"
    BY <1>9 DEF S!ReadQuote
  <2>2. UNCHANGED <<product, lastBoundary, rows>>
    BY <1>9 DEF S!ReadQuote, S!written
  <2>. QED
    BY <2>1, <2>2 DEF SamplerInv
<1>10. CASE S!Fill
  <2>1. srow'.ts = srow.ts /\ spc = "fill" /\ spc' = "flag"
    BY <1>10 DEF S!Fill
  <2>2. UNCHANGED <<product, lastBoundary, rows>>
    BY <1>10 DEF S!Fill, S!written
  <2>. QED
    BY <2>1, <2>2 DEF SamplerInv
<1>11. ASSUME S!nextProduct, spc \in {"flag", "submit"}, UNCHANGED <<snow, lastBoundary>>,
              \A p \in Pair : rows'[p] = rows[p] \/ (p = S!Products[product] /\ rows'[p].ts = lastBoundary)
       PROVE  RowsInOrder'
  <2>1. \A p \in Pair : rows'[p].ts <= lastBoundary'
    BY <1>1, <1>11 DEF SamplerInv
  <2>2. \/ product = 1 /\ product' = 2 /\ spc' = "quote"
        \/ spc' = "sleep"
    BY <1>11, TurnEnds DEF SamplerInv
  <2>3. product = 1 => rows'["spot"] = rows["spot"]
    BY <1>1, <1>11, Turns
  <2>4. rows["spot"].ts < lastBoundary
    BY <1>11 DEF SamplerInv
  <2>. QED
    BY <1>11, <2>1, <2>2, <2>3, <2>4
<1>12. CASE S!Flag
  <2>. DEFINE maint == S!Products[product] = "perp" /\ S!inMaintenance
  <2>1. UNCHANGED <<snow, lastBoundary, rows>> /\ spc = "flag"
    BY <1>12 DEF S!Flag, S!env, S!written
  <2>2. \/ srow' = [srow EXCEPT !.maint = maint] /\ spc' = "submit" /\ UNCHANGED product
        \/ S!nextProduct
    BY <1>12 DEF S!Flag
  <2>. HIDE DEF maint
  <2>3. CASE srow' = [srow EXCEPT !.maint = maint] /\ spc' = "submit" /\ UNCHANGED product
    <3>1. srow \in FullRow
      BY <2>1 DEF SamplerInv, SamplerTypes
    <3>2. srow'.ts = srow.ts
      BY <2>3, <3>1 DEF FullRow
    <3>. QED
      BY <2>1, <2>3, <3>2 DEF SamplerInv
  <2>4. CASE S!nextProduct
    BY <1>11, <2>1, <2>4
  <2>. QED
    BY <2>1, <2>2, <2>3, <2>4
<1>13. CASE S!Submit
  <2>. DEFINE q == S!Products[product]
  <2>1. /\ rows' = [rows EXCEPT ![q] = srow] /\ spc = "submit" /\ S!nextProduct
        /\ UNCHANGED <<snow, lastBoundary>>
    BY <1>13 DEF S!Submit, S!env
  <2>2. q \in Pair /\ srow.ts = lastBoundary
    BY <1>1, <2>1, Turns DEF SamplerInv
  <2>3. rows[q].ts < lastBoundary
    BY <1>1, <2>1, Turns DEF SamplerInv
  <2>. HIDE DEF q
  <2>4. rows'[q].ts = lastBoundary /\ \A p \in Pair : p # q => rows'[p] = rows[p]
    BY <1>1, <2>1, <2>2
  <2>5. \A p \in Pair : rows'[p] = rows[p] \/ (p = q /\ rows'[p].ts = lastBoundary)
    BY <2>4
  <2>6. RowsInOrder'
    BY <1>11, <2>1, <2>5 DEF q
  <2>7. \A p \in Pair : rows'[p] = rows[p] \/ rows'[p].ts > rows[p].ts
    BY <1>1, <2>2, <2>3, <2>4
  <2>. QED
    BY <2>6, <2>7
<1>14. CASE S!Stop
  BY <1>14 DEF S!Stop, S!written, SamplerInv
<1>15. CASE S!AdvanceClock
  BY <1>3, <1>15 DEF S!AdvanceClock
<1>16. CASE S!StepBack
  BY <1>3, <1>16 DEF S!StepBack, S!sampler, S!written
<1>17. CASE UNCHANGED samplerVars
  BY <1>3, <1>17 DEF samplerVars
<1>. QED
  BY <1>4, <1>5, <1>6, <1>7, <1>8, <1>9, <1>10, <1>12, <1>13, <1>14, <1>15, <1>16, <1>17 DEF S!Next
-----------------------------------------------------------------------------
(* The sampler: no boundary is missed.                                     *)

(* When the timer is set for.                                              *)
due == snow + left

(* Every boundary up to t was sampled, or sat through by a blocked submit. *)
Covered(t) == \A b \in interval..t : IsBoundary(b) => b \in visited \cup blocked

(* A sleeping loop waits for a boundary that is not sampled yet, and has   *)
(* all those before it; one that is awake has all those there were.        *)
Timely ==
    steps = 0 =>
        /\ spc = "sleep" =>
              /\ IsBoundary(due) /\ due >= interval /\ left >= -Lateness
              /\ lastBoundary < due /\ Covered(due - 1)
        /\ spc \in {"quote", "fill", "flag", "submit"} => lastBoundary <= snow /\ Covered(snow)

LEMMA TimelyInit == S!Init => Timely
<1>. SUFFICES ASSUME S!Init PROVE Timely
  OBVIOUS
<1>1. snow \in 0..(interval - 1) /\ left = S!untilNextBoundary(snow) /\ lastBoundary = -9
      /\ spc = "sleep"
  BY DEF S!Init, S!None
<1>2. snow \in Nat /\ interval \in Nat /\ interval > 0 /\ Lateness \in Nat
  BY <1>1, Constants
<1>3. /\ S!truncate(snow) \in Nat /\ left \in Nat /\ due = S!truncate(snow) + interval
      /\ S!truncate(snow) <= snow /\ IsBoundary(due)
      /\ IsBoundary(S!truncate(snow))
  BY <1>1, <1>2, Truncated DEF due
<1>4. IsBoundary(0) /\ 0 \in Int
  BY <1>2 DEF IsBoundary
<1>5. S!truncate(snow) = 0
  <2>1. ~(0 < S!truncate(snow))
    BY <1>1, <1>2, <1>3, <1>4, Apart
  <2>. QED
    BY <1>3, <2>1
<1>6. due = interval
  BY <1>2, <1>3, <1>5
<1>7. Covered(due - 1)
  BY <1>2, <1>6 DEF Covered
<1>. QED
  BY <1>1, <1>2, <1>3, <1>6, <1>7 DEF Timely

(* A new sleep waits for the first boundary still to come.                 *)
LEMMA SleepIsTimely ==
    ASSUME SamplerTypes, lastBoundary <= snow, Covered(snow)
    PROVE  LET l == S!untilNextBoundary(snow) IN
           /\ IsBoundary(snow + l) /\ snow + l >= interval /\ l >= -Lateness
           /\ lastBoundary < snow + l
           /\ Covered(snow + l - 1)
<1>. DEFINE l == S!untilNextBoundary(snow)
            ts == S!truncate(snow)
<1>1. snow \in Nat /\ lastBoundary \in Int /\ interval \in Nat /\ interval > 0 /\ Lateness \in Nat
  BY Constants DEF SamplerTypes
<1>2. /\ ts \in Nat /\ IsBoundary(ts) /\ ts <= snow /\ snow < ts + interval
      /\ l \in Nat /\ snow + l = ts + interval /\ IsBoundary(ts + interval)
  BY <1>1, Truncated
<1>. HIDE DEF l, ts
<1>3. Covered(snow + l - 1)
  <2>. SUFFICES ASSUME NEW b \in interval..(snow + l - 1), IsBoundary(b)
                PROVE  b \in visited \cup blocked
    BY DEF Covered
  <2>1. b \in Int /\ b < ts + interval
    BY <1>1, <1>2
  <2>2. ~(ts < b)
    BY <1>1, <1>2, <2>1, Apart
  <2>3. b \in interval..snow
    BY <1>1, <1>2, <2>1, <2>2
  <2>. QED
    BY <2>3 DEF Covered
<1>. QED
  BY <1>1, <1>2, <1>3 DEF l

LEMMA TimelyStep ==
    ASSUME Lateness < interval, SamplerInv, Timely, [S!Next]_samplerVars
    PROVE  Timely'
<1>1. /\ snow \in Nat /\ left \in Int /\ lastBoundary \in Int /\ SamplerTypes /\ steps \in Nat
      /\ interval \in Nat /\ interval > 0 /\ Lateness \in Nat
  BY Constants DEF SamplerInv, SamplerTypes
<1>. SUFFICES ASSUME steps' = 0 PROVE Timely'
  BY DEF Timely
<1>2. ASSUME UNCHANGED <<snow, steps, left, spc, lastBoundary, visited, blocked>> PROVE Timely'
  BY <1>2 DEF Timely, Covered, due
<1>3. CASE S!Push
  BY <1>2, <1>3 DEF S!Push, S!env, S!sampler, S!written
<1>4. CASE S!ObserveStatus
  BY <1>2, <1>4 DEF S!ObserveStatus, S!env, S!sampler, S!written
<1>5. CASE S!Poll
  BY <1>2, <1>5 DEF S!Poll, S!env, S!sampler, S!written
<1>6. CASE S!PollObserve
  BY <1>2, <1>6 DEF S!PollObserve, S!env, S!sampler, S!written
<1>7. CASE S!Wake
  <2>. DEFINE ts == S!truncate(snow)
  <2>1. /\ spc = "sleep" /\ left <= 0 /\ UNCHANGED <<snow, steps, blocked>>
        /\ ts > lastBoundary => spc' = "quote" /\ lastBoundary' = ts /\ visited' = visited \cup {ts}
    BY <1>7 DEF S!Wake, S!isNew, S!env
  <2>2. /\ IsBoundary(due) /\ due >= interval /\ left >= -Lateness
        /\ lastBoundary < due /\ Covered(due - 1)
    BY <2>1 DEF Timely
  <2>3. due \in Nat /\ due <= snow /\ snow < due + interval
    BY <1>1, <2>1, <2>2 DEF due
  <2>4. ts \in Nat /\ IsBoundary(ts) /\ ts <= snow /\ snow < ts + interval
    BY <1>1, Truncated
  <2>. HIDE DEF ts
  <2>5. ts = due
    <3>1. ~(ts < due) /\ ~(due < ts)
      BY <1>1, <2>2, <2>3, <2>4, Apart
    <3>. QED
      BY <2>3, <2>4, <3>1
  <2>6. /\ spc' = "quote" /\ lastBoundary' = due /\ visited' = visited \cup {due}
    BY <2>1, <2>2, <2>5
  <2>7. Covered(snow)'
    <3>. SUFFICES ASSUME NEW b \in interval..snow, IsBoundary(b)
                  PROVE  b \in visited' \cup blocked'
      BY <2>1 DEF Covered
    <3>1. b \in Int /\ b <= snow
      BY <1>1
    <3>2. ~(due < b)
      BY <1>1, <2>2, <2>3, <3>1, Apart
    <3>3. CASE b = due
      BY <2>6, <3>3
    <3>4. CASE b # due
      <4>1. b \in interval..(due - 1)
        BY <1>1, <2>3, <3>1, <3>2, <3>4
      <4>. QED
        BY <2>1, <2>2, <2>6, <4>1 DEF Covered
    <3>. QED
      BY <3>3, <3>4
  <2>. QED
    BY <2>1, <2>3, <2>6, <2>7 DEF Timely
<1>8. CASE S!ReadQuote
  BY <1>8 DEF S!ReadQuote, Timely, Covered, S!env, S!written
<1>9. CASE S!Fill
  BY <1>9 DEF S!Fill, Timely, Covered, S!env, S!written
<1>10. ASSUME S!nextProduct, spc \in {"flag", "submit"},
              UNCHANGED <<snow, steps, lastBoundary, visited, blocked>>
       PROVE  Timely'
  <2>1. lastBoundary <= snow /\ Covered(snow)
    BY <1>10 DEF Timely
  <2>2. Covered(snow)'
    BY <1>10, <2>1 DEF Covered
  <2>3. \/ spc' = "quote"
        \/ spc' = "sleep" /\ left' = S!untilNextBoundary(snow)
    BY <1>1, <1>10, TurnEnds
  <2>4. CASE spc' = "quote"
    BY <1>10, <2>1, <2>2, <2>4 DEF Timely
  <2>5. CASE spc' = "sleep" /\ left' = S!untilNextBoundary(snow)
    <3>. DEFINE l == S!untilNextBoundary(snow)
    <3>1. /\ IsBoundary(snow + l) /\ snow + l >= interval /\ l >= -Lateness
          /\ lastBoundary < snow + l /\ Covered(snow + l - 1)
      BY <1>1, <2>1, SleepIsTimely
    <3>2. left' = l /\ due' = snow + l
      BY <1>10, <2>5 DEF due
    <3>. HIDE DEF l
    <3>3. Covered(due - 1)'
      <4>1. l \in Int /\ due' \in Int
        BY <1>1, <3>2, Truncated DEF l
      <4>2. ASSUME NEW b \in interval..(due' - 1), IsBoundary(b)
            PROVE  b \in visited' \cup blocked'
        <5>1. b \in interval..(snow + l - 1)
          BY <1>1, <3>2, <4>1, <4>2
        <5>2. b \in visited \cup blocked
          BY <3>1, <4>2, <5>1 DEF Covered
        <5>. QED
          BY <1>10, <5>2
      <4>. QED
        BY <4>2 DEF Covered
    <3>. QED
      BY <1>10, <2>5, <3>1, <3>2, <3>3 DEF Timely, IsBoundary
  <2>. QED
    BY <2>3, <2>4, <2>5
<1>11. CASE S!Flag
  <2>1. UNCHANGED <<snow, steps, lastBoundary, visited, blocked>> /\ spc = "flag"
    BY <1>11 DEF S!Flag, S!env, S!written
  <2>2. S!nextProduct \/ spc' = "submit"
    BY <1>11 DEF S!Flag
  <2>3. CASE spc' = "submit"
    BY <2>1, <2>3 DEF Timely, Covered
  <2>. QED
    BY <1>10, <2>1, <2>2, <2>3
<1>12. CASE S!Submit
  BY <1>10, <1>12 DEF S!Submit, S!env
<1>13. CASE S!Stop
  BY <1>13 DEF S!Stop, Timely
<1>14. CASE S!AdvanceClock
  <2>1. /\ snow' = snow + 1 /\ UNCHANGED <<steps, spc, lastBoundary, visited>>
        /\ spc \in {"sleep", "submit", "stopped"}
        /\ spc = "sleep" => left > -Lateness /\ left' = left - 1 /\ blocked' = blocked
        /\ spc = "submit" => blocked' = IF snow' % interval = 0 THEN blocked \cup {snow'} ELSE blocked
    BY <1>14 DEF S!AdvanceClock
  <2>2. CASE spc = "sleep"
    <3>1. due' = due
      BY <1>1, <2>1, <2>2 DEF due
    <3>2. left' >= -Lateness
      BY <1>1, <2>1, <2>2
    <3>. QED
      BY <2>1, <2>2, <3>1, <3>2 DEF Timely, Covered, IsBoundary
  <2>3. CASE spc = "submit"
    <3>1. lastBoundary <= snow /\ Covered(snow)
      BY <2>1, <2>3 DEF Timely
    <3>2. Covered(snow)'
      <4>. SUFFICES ASSUME NEW b \in interval..(snow + 1), IsBoundary(b)
                    PROVE  b \in visited' \cup blocked'
        BY <2>1 DEF Covered
      <4>1. CASE b = snow + 1
        BY <2>1, <2>3, <4>1 DEF IsBoundary
      <4>2. CASE b # snow + 1
        <5>1. b \in interval..snow
          BY <1>1, <4>2
        <5>2. blocked \subseteq blocked'
          BY <2>1, <2>3
        <5>. QED
          BY <2>1, <3>1, <5>1, <5>2 DEF Covered
      <4>. QED
        BY <4>1, <4>2
    <3>3. lastBoundary' <= snow'
      BY <1>1, <2>1, <3>1
    <3>. QED
      BY <2>1, <2>3, <3>2, <3>3 DEF Timely
  <2>4. CASE spc = "stopped"
    BY <2>1, <2>4 DEF Timely
  <2>. QED
    BY <2>1, <2>2, <2>3, <2>4
<1>15. CASE S!StepBack
  BY <1>1, <1>15 DEF S!StepBack
<1>16. CASE UNCHANGED samplerVars
  BY <1>2, <1>16 DEF samplerVars
<1>. QED
  BY <1>3, <1>4, <1>5, <1>6, <1>7, <1>8, <1>9, <1>11, <1>12, <1>13, <1>14, <1>15, <1>16 DEF S!Next

LEMMA TimelyIsEvery == SamplerInv /\ Timely => S!EveryBoundary
<1>. SUFFICES ASSUME SamplerInv, Timely, spc # "stopped", steps = 0,
                     NEW b \in interval..(snow - Lateness - 1), b % interval = 0
              PROVE  b \in visited \cup blocked
  BY DEF S!EveryBoundary
<1>1. /\ snow \in Nat /\ left \in Int /\ interval \in Nat /\ Lateness \in Nat
      /\ spc \in {"sleep", "quote", "fill", "flag", "submit", "stopped"}
  BY Constants DEF SamplerInv, SamplerTypes
<1>2. CASE spc = "sleep"
  <2>1. left >= -Lateness /\ Covered(due - 1)
    BY <1>2 DEF Timely
  <2>2. b \in interval..(due - 1)
    BY <1>1, <2>1 DEF due
  <2>. QED
    BY <2>1, <2>2 DEF Covered, IsBoundary
<1>3. CASE spc # "sleep"
  <2>1. Covered(snow)
    BY <1>1, <1>3 DEF Timely
  <2>2. b \in interval..snow
    BY <1>1
  <2>. QED
    BY <2>1, <2>2 DEF Covered, IsBoundary
<1>. QED
  BY <1>2, <1>3
-----------------------------------------------------------------------------
(* The sampler: no row is frozen.                                          *)

Young(v, ts, age) == v # S!None => v >= ts - age

(* No column of the row r is older than it may be.                         *)
Fresh(r) ==
    /\ Young(r.mid, r.ts, maxQuoteAge * interval)
    /\ Young(r.mark, r.ts, maxMarkAge)
    /\ Young(r.est, r.ts, maxFundingAge)
    /\ Young(r.hourly, r.ts, maxFundingAge)
    /\ Young(r.oi, r.ts, maxSessionAge)
HasReason(r) == r.mid # S!None \/ r.maint

(* The open interest, which ages with the session, is never older than it, *)
(* unless a poll is between the two: then it was observed at this instant. *)
InterestIsRecent ==
    /\ pollAt = 2 => obs["oi"] >= snow
    /\ pollAt # 2 => obs["oi"] >= obs["session"]

(* A row is of a boundary that has come, and its perp half is made in one  *)
(* instant.                                                                *)
MadeAtOnce ==
    /\ lastBoundary <= at
    /\ spc \in {"quote", "fill", "flag"} /\ product = 1 => at = snow

RowsAreFresh ==
    /\ spc = "fill" => Young(srow.mid, srow.ts, maxQuoteAge * interval)
    /\ spc \in {"flag", "submit"} => Fresh(srow)
    /\ spc = "submit" => HasReason(srow)
    /\ \A p \in Pair : rows[p] # S!NoRow => Fresh(rows[p]) /\ HasReason(rows[p])

FreshInv == InterestIsRecent /\ MadeAtOnce /\ RowsAreFresh

LEMMA FreshInit == S!Init => FreshInv
<1>. SUFFICES ASSUME S!Init PROVE FreshInv
  OBVIOUS
<1>1. /\ obs = [s \in S!Sources |-> S!None] /\ pollAt = 0 /\ spc = "sleep"
      /\ at = S!None /\ lastBoundary = S!None
  BY DEF S!Init
<1>2. \A p \in Pair : rows[p] = S!NoRow
  BY DEF S!Init, Pair
<1>3. "oi" \in S!Sources /\ "session" \in S!Sources /\ S!None \in Int
  BY DEF S!Sources, S!None
<1>4. InterestIsRecent
  BY <1>1, <1>3 DEF InterestIsRecent
<1>5. MadeAtOnce
  BY <1>1, <1>3 DEF MadeAtOnce
<1>. QED
  BY <1>1, <1>2, <1>4, <1>5 DEF FreshInv, RowsAreFresh

(* A value within its age at the wake is no older than it may be at the    *)
(* boundary.                                                               *)
LEMMA WithinIsYoung ==
    ASSUME SamplerTypes, MadeAtOnce, NEW s \in S!Sources, NEW age \in Int
    PROVE  Young(S!within(s, age), lastBoundary, age)
<1>1. at \in Int /\ lastBoundary \in Int /\ obs[s] \in Int /\ lastBoundary <= at
  BY DEF SamplerTypes, MadeAtOnce
<1>2. S!within(s, age) # S!None => S!within(s, age) = obs[s] /\ at - obs[s] <= age
  BY WithinIs
<1>. QED
  BY <1>1, <1>2 DEF Young

LEMMA FillIsFresh ==
    ASSUME SamplerInv, FreshInv, S!Fill
    PROVE  Fresh(srow')
<1>1. /\ srow.ts = lastBoundary /\ spc = "fill" /\ product \in {1, 2}
      /\ Young(srow.mid, srow.ts, maxQuoteAge * interval)
      /\ SamplerTypes /\ MadeAtOnce
  BY DEF S!Fill, SamplerInv, SamplerTypes, RowsInOrder, FreshInv, RowsAreFresh
<1>2. {"perp", "spot", "marks", "funding", "oi", "session", "venue"} = S!Sources
  BY DEF S!Sources
<1>. DEFINE mark == S!within("marks", maxMarkAge)
            est  == S!within("funding", maxFundingAge)
            ven  == S!within("venue", maxFundingAge)
            ses  == S!within("session", maxSessionAge)
            perp == S!Products[product] = "perp"
            oi   == IF perp /\ ses # S!None THEN obs["oi"] ELSE S!None
<1>3. /\ srow'.ts = lastBoundary /\ srow'.mid = srow.mid
      /\ srow'.mark = IF perp THEN mark ELSE S!None
      /\ srow'.est = IF perp THEN est ELSE S!None
      /\ srow'.hourly = IF perp THEN (IF ven # S!None THEN ven ELSE est) ELSE S!None
      /\ srow'.oi = oi
  BY <1>1 DEF S!Fill
<1>4. /\ Young(mark, lastBoundary, maxMarkAge) /\ Young(est, lastBoundary, maxFundingAge)
      /\ Young(ven, lastBoundary, maxFundingAge)
  BY <1>1, <1>2, Constants, WithinIsYoung
<1>5. Young(oi, lastBoundary, maxSessionAge)
  <2>. SUFFICES ASSUME perp, ses # S!None PROVE obs["oi"] >= lastBoundary - maxSessionAge
    BY DEF Young
  <2>1. product = 1
    BY <1>1, Turns
  <2>2. at = snow /\ lastBoundary <= at
    BY <1>1, <2>1 DEF MadeAtOnce
  <2>3. at - obs["session"] <= maxSessionAge
    BY <1>1, <1>2, WithinIs
  <2>4. /\ at \in Int /\ snow \in Int /\ lastBoundary \in Int /\ maxSessionAge \in Nat
        /\ obs["oi"] \in Int /\ obs["session"] \in Int
    BY <1>1, <1>2, Constants DEF SamplerTypes
  <2>5. obs["oi"] >= snow \/ obs["oi"] >= obs["session"]
    BY DEF FreshInv, InterestIsRecent
  <2>. QED
    BY <2>2, <2>3, <2>4, <2>5
<1>. HIDE DEF mark, est, ven, ses, perp, oi
<1>6. Young(S!None, lastBoundary, maxMarkAge) /\ Young(S!None, lastBoundary, maxFundingAge)
  BY DEF Young
<1>. QED
  BY <1>1, <1>3, <1>4, <1>5, <1>6 DEF Fresh

LEMMA FreshStep ==
    ASSUME SamplerInv, FreshInv, [S!Next]_samplerVars
    PROVE  FreshInv'
<1>1. /\ SamplerTypes /\ InterestIsRecent /\ MadeAtOnce /\ RowsAreFresh
      /\ snow \in Nat /\ at \in Int /\ lastBoundary \in Int /\ product \in {1, 2} /\ pollAt \in 0..3
      /\ obs \in [S!Sources -> Int] /\ "oi" \in S!Sources /\ "session" \in S!Sources
  BY DEF SamplerInv, SamplerTypes, FreshInv, S!Sources
<1>. USE DEF FreshInv
<1>2. ASSUME UNCHANGED <<snow, obs, pollAt>> PROVE InterestIsRecent'
  BY <1>1, <1>2 DEF InterestIsRecent
<1>3. ASSUME UNCHANGED <<snow, at, lastBoundary, spc, product>> PROVE MadeAtOnce'
  BY <1>1, <1>3 DEF MadeAtOnce
<1>4. ASSUME UNCHANGED <<spc, srow, rows>> PROVE RowsAreFresh'
  BY <1>1, <1>4 DEF RowsAreFresh, Fresh, Young, HasReason
<1>5. CASE S!Push
  <2>1. PICK s \in S!Pushed \cap feeds : obs' = [obs EXCEPT ![s] = snow]
    BY <1>5 DEF S!Push
  <2>2. UNCHANGED <<snow, pollAt, spc, srow, rows, product, at, lastBoundary>>
    BY <1>5 DEF S!Push, S!env, S!poll, S!sampler, S!written
  <2>3. obs'["oi"] = obs["oi"] /\ obs'["session"] = obs["session"]
    BY <1>1, <2>1 DEF S!Pushed
  <2>. QED
    BY <1>1, <1>3, <1>4, <2>2, <2>3 DEF InterestIsRecent
<1>6. CASE S!ObserveStatus
  BY <1>2, <1>3, <1>4, <1>6 DEF S!ObserveStatus, S!env, S!poll, S!sampler, S!written
<1>7. CASE S!Poll
  <2>1. UNCHANGED <<snow, obs, spc, srow, rows, product, at, lastBoundary>> /\ pollAt = 0 /\ pollAt' = 1
    BY <1>7 DEF S!Poll, S!env, S!seen, S!sampler, S!written
  <2>. QED
    BY <1>1, <1>3, <1>4, <2>1 DEF InterestIsRecent
<1>8. CASE S!PollObserve
  <2>1. UNCHANGED <<snow, spc, srow, rows, product, at, lastBoundary>>
    BY <1>8 DEF S!PollObserve, S!env, S!sampler, S!written
  <2>2. pollAt \in {1, 2, 3} /\ pollAt' = (pollAt + 1) % 4
    BY <1>8, Turns DEF S!PollObserve
  <2>3. CASE pollAt = 1
    <3>1. obs' = [obs EXCEPT !["oi"] = snow] /\ pollAt' = 2
      BY <1>8, <2>2, <2>3, Turns DEF S!PollObserve
    <3>. QED
      BY <1>1, <1>3, <1>4, <2>1, <3>1 DEF InterestIsRecent
  <2>4. CASE pollAt = 2
    <3>1. obs' = [obs EXCEPT !["session"] = snow] /\ pollAt' = 3
      BY <1>8, <2>2, <2>4, Turns DEF S!PollObserve
    <3>2. obs["oi"] >= snow
      BY <1>1, <2>4 DEF InterestIsRecent
    <3>3. obs'["oi"] = obs["oi"] /\ obs'["session"] = snow
      BY <1>1, <3>1
    <3>. QED
      BY <1>1, <1>3, <1>4, <2>1, <3>1, <3>2, <3>3 DEF InterestIsRecent
  <2>5. CASE pollAt = 3
    <3>1. (obs' = obs \/ obs' = [obs EXCEPT !["venue"] = snow]) /\ pollAt' = 0
      BY <1>8, <2>2, <2>5, Turns DEF S!PollObserve
    <3>2. obs'["oi"] = obs["oi"] /\ obs'["session"] = obs["session"]
      BY <1>1, <3>1
    <3>. QED
      BY <1>1, <1>3, <1>4, <2>1, <2>5, <3>1, <3>2 DEF InterestIsRecent
  <2>. QED
    BY <2>2, <2>3, <2>4, <2>5
<1>9. CASE S!Wake
  <2>1. UNCHANGED <<snow, obs, pollAt, srow, rows>>
    BY <1>9 DEF S!Wake, S!env, S!seen, S!poll
  <2>2. \/ lastBoundary' = S!truncate(snow) /\ at' = snow /\ spc' = "quote"
        \/ UNCHANGED <<lastBoundary, at>> /\ spc' = "sleep"
    BY <1>9 DEF S!Wake, S!sleepAgain
  <2>3. S!truncate(snow) <= snow
    BY <1>1, Truncated
  <2>4. MadeAtOnce'
    BY <1>1, <2>1, <2>2, <2>3 DEF MadeAtOnce
  <2>5. RowsAreFresh'
    BY <1>1, <2>1, <2>2 DEF RowsAreFresh, Fresh, Young, HasReason
  <2>. QED
    BY <1>2, <2>1, <2>4, <2>5
<1>10. CASE S!ReadQuote
  <2>1. UNCHANGED <<snow, obs, pollAt, rows, product, at, lastBoundary>> /\ spc = "quote" /\ spc' = "fill"
    BY <1>10 DEF S!ReadQuote, S!env, S!seen, S!poll, S!written
  <2>. DEFINE age == maxQuoteAge * interval
              mid == S!within(S!Products[product], age)
  <2>2. srow'.ts = lastBoundary /\ srow'.mid = mid
    BY <1>10 DEF S!ReadQuote
  <2>3. S!Products[product] \in S!Sources /\ age \in Int
    BY <1>1, Turns, Constants DEF S!Sources
  <2>4. Young(mid, lastBoundary, age)
    BY <1>1, <2>3, WithinIsYoung
  <2>5. MadeAtOnce'
    BY <1>1, <2>1 DEF MadeAtOnce
  <2>6. Young(srow.mid, srow.ts, maxQuoteAge * interval)'
    BY <2>2, <2>4 DEF Young
  <2>7. \A p \in Pair : rows'[p] # S!NoRow => Fresh(rows'[p]) /\ HasReason(rows'[p])
    BY <1>1, <2>1 DEF RowsAreFresh
  <2>8. RowsAreFresh'
    BY <2>1, <2>6, <2>7 DEF RowsAreFresh, Fresh, Young, HasReason
  <2>. QED
    BY <1>2, <2>1, <2>5, <2>8
<1>11. CASE S!Fill
  <2>1. UNCHANGED <<snow, obs, pollAt, rows, product, at, lastBoundary>> /\ spc = "fill" /\ spc' = "flag"
    BY <1>11 DEF S!Fill, S!env, S!seen, S!poll, S!written
  <2>2. Fresh(srow')
    BY <1>11, FillIsFresh
  <2>3. MadeAtOnce'
    BY <1>1, <2>1 DEF MadeAtOnce
  <2>4. RowsAreFresh'
    BY <1>1, <2>1, <2>2 DEF RowsAreFresh, Fresh, Young, HasReason
  <2>. QED
    BY <1>2, <2>1, <2>3, <2>4
<1>12. ASSUME S!nextProduct, UNCHANGED <<snow, obs, pollAt, at, lastBoundary>>,
              \A p \in Pair : rows'[p] # S!NoRow => Fresh(rows'[p]) /\ HasReason(rows'[p])
       PROVE  FreshInv'
  <2>1. \/ product' = 2 /\ spc' = "quote"
        \/ spc' = "sleep"
    BY <1>1, <1>12, TurnEnds
  <2>2. MadeAtOnce'
    BY <1>1, <1>12, <2>1 DEF MadeAtOnce
  <2>3. RowsAreFresh'
    BY <1>12, <2>1 DEF RowsAreFresh, Fresh, Young, HasReason
  <2>. QED
    BY <1>2, <1>12, <2>2, <2>3
<1>13. CASE S!Flag
  <2>. DEFINE maint == S!Products[product] = "perp" /\ S!inMaintenance
  <2>1. UNCHANGED <<snow, obs, pollAt, rows, at, lastBoundary>> /\ spc = "flag"
    BY <1>13 DEF S!Flag, S!env, S!seen, S!poll, S!written
  <2>2. \/ /\ srow' = [srow EXCEPT !.maint = maint] /\ spc' = "submit" /\ UNCHANGED product
           /\ srow.mid # S!None \/ maint
        \/ S!nextProduct
    BY <1>13 DEF S!Flag, S!worthWriting
  <2>3. maint \in BOOLEAN
    OBVIOUS
  <2>. HIDE DEF maint
  <2>4. \A p \in Pair : rows'[p] # S!NoRow => Fresh(rows'[p]) /\ HasReason(rows'[p])
    BY <1>1, <2>1 DEF RowsAreFresh
  <2>5. CASE /\ srow' = [srow EXCEPT !.maint = maint] /\ spc' = "submit" /\ UNCHANGED product
             /\ srow.mid # S!None \/ maint
    <3>1. srow \in FullRow /\ Fresh(srow)
      BY <1>1, <2>1 DEF SamplerTypes, RowsAreFresh
    <3>2. /\ srow'.ts = srow.ts /\ srow'.mid = srow.mid /\ srow'.mark = srow.mark
          /\ srow'.est = srow.est /\ srow'.hourly = srow.hourly /\ srow'.oi = srow.oi
          /\ srow'.maint = maint
      BY <2>3, <2>5, <3>1 DEF FullRow
    <3>3. Fresh(srow') /\ HasReason(srow')
      BY <2>5, <3>1, <3>2 DEF Fresh, HasReason
    <3>4. RowsAreFresh'
      BY <2>4, <2>5, <3>3 DEF RowsAreFresh, Fresh, Young, HasReason
    <3>5. MadeAtOnce'
      BY <1>1, <2>1, <2>5 DEF MadeAtOnce
    <3>. QED
      BY <1>2, <2>1, <3>4, <3>5
  <2>6. CASE S!nextProduct
    BY <1>12, <2>1, <2>4, <2>6
  <2>. QED
    BY <2>2, <2>5, <2>6
<1>14. CASE S!Submit
  <2>. DEFINE q == S!Products[product]
  <2>1. /\ rows' = [rows EXCEPT ![q] = srow] /\ spc = "submit" /\ S!nextProduct
        /\ UNCHANGED <<snow, obs, pollAt, at, lastBoundary>>
    BY <1>14 DEF S!Submit, S!env, S!seen, S!poll
  <2>2. Fresh(srow) /\ HasReason(srow)
    BY <1>1, <2>1 DEF RowsAreFresh
  <2>3. DOMAIN rows = Pair
    BY <1>1 DEF SamplerTypes
  <2>. HIDE DEF q
  <2>4. \A p \in Pair : rows'[p] = rows[p] \/ rows'[p] = srow
    BY <2>1, <2>3
  <2>5. \A p \in Pair : rows'[p] # S!NoRow => Fresh(rows'[p]) /\ HasReason(rows'[p])
    BY <1>1, <2>2, <2>4 DEF RowsAreFresh
  <2>. QED
    BY <1>12, <2>1, <2>5
<1>15. CASE S!Stop
  <2>1. UNCHANGED <<snow, obs, pollAt, at, lastBoundary, rows>> /\ spc' = "stopped"
    BY <1>15 DEF S!Stop, S!env, S!seen, S!poll, S!written
  <2>. QED
    BY <1>1, <1>2, <2>1 DEF MadeAtOnce, RowsAreFresh, Fresh, Young, HasReason
<1>16. CASE S!AdvanceClock
  <2>1. /\ UNCHANGED <<obs, pollAt, at, lastBoundary, spc, product, srow, rows>>
        /\ pollAt = 0 /\ spc \in {"sleep", "submit", "stopped"}
    BY <1>16 DEF S!AdvanceClock, S!seen, S!poll
  <2>. QED
    BY <1>1, <1>4, <2>1 DEF InterestIsRecent, MadeAtOnce
<1>17. CASE S!StepBack
  <2>1. /\ UNCHANGED <<obs, pollAt, at, lastBoundary, spc, product, srow, rows>>
        /\ snow' = snow - 1 /\ spc \in {"sleep", "submit"}
    BY <1>17 DEF S!StepBack, S!seen, S!poll, S!sampler, S!written
  <2>2. InterestIsRecent'
    BY <1>1, <2>1 DEF InterestIsRecent
  <2>. QED
    BY <1>1, <1>4, <2>1, <2>2 DEF MadeAtOnce
<1>18. CASE UNCHANGED samplerVars
  BY <1>2, <1>3, <1>4, <1>18 DEF samplerVars
<1>. QED
  BY <1>5, <1>6, <1>7, <1>8, <1>9, <1>10, <1>11, <1>13, <1>14, <1>15, <1>16, <1>17, <1>18 DEF S!Next

LEMMA FreshIsUnfrozen == SamplerInv /\ FreshInv => NothingFrozen
<1>. SUFFICES ASSUME SamplerInv, FreshInv, NEW p \in DOMAIN rows, rows[p] # S!NoRow
              PROVE  /\ \A c \in DOMAIN S!ages : rows[p][c] # S!None => rows[p][c] >= rows[p].ts - S!ages[c]
                     /\ rows[p].mid # S!None \/ rows[p].maint
  BY DEF NothingFrozen, S!NothingFrozen
<1>1. p \in Pair
  BY DEF SamplerInv, SamplerTypes
<1>2. Fresh(rows[p]) /\ HasReason(rows[p])
  BY <1>1 DEF FreshInv, RowsAreFresh
<1>3. DOMAIN S!ages = {"mid", "mark", "est", "hourly", "oi"}
  BY DEF S!ages
<1>4. /\ S!ages["mid"] = maxQuoteAge * interval /\ S!ages["mark"] = maxMarkAge
      /\ S!ages["est"] = maxFundingAge /\ S!ages["hourly"] = maxFundingAge
      /\ S!ages["oi"] = maxSessionAge
  BY DEF S!ages
<1>. QED
  BY <1>2, <1>3, <1>4 DEF Fresh, Young, HasReason

-----------------------------------------------------------------------------
(* The two together.                                                       *)

LEMMA StepOfEach ==
    [SnapshotsNext]_<<part, vars, samplerVars>> => [Next]_vars /\ [S!Next]_samplerVars
BY DEF SnapshotsNext

(* A drought of the data channel is counted as one gap, however often the  *)
(* connection is replaced in the middle of it (Stream.checkSilence).       *)
THEOREM DroughtIsOneGap == SnapshotsSpec => []OneGapPerDrought
<1>1. SnapshotsInit => DroughtInv
  BY DroughtInit DEF SnapshotsInit
<1>2. DroughtInv /\ [SnapshotsNext]_<<part, vars, samplerVars>> => DroughtInv'
  BY StepOfEach, DroughtStep
<1>3. DroughtInv => OneGapPerDrought
  BY DEF DroughtInv, OneGapPerDrought
<1>. QED
  BY <1>1, <1>2, <1>3, PTL DEF SnapshotsSpec

(* A recorded row shows the venue's own book as it stood before the frame  *)
(* that made it due, unless a gap was counted on this connection: the      *)
(* bookDepth best levels of each side, best first, no imbalance only when  *)
(* the book is empty, an impact price no better than the best              *)
(* (Stream.session, checkSequence, Level2Handler.Reset, Handle, Tick,      *)
(* book.top, impactPrice).                                                 *)
THEOREM RowsShowTheVenue == SnapshotsSpec => RowIsVenueBook
<1>. DEFINE Inv == ConnInv /\ ChainInv
            Shown == row' # row /\ ~gapHere' => Shows(row', Head(wire).before)
<1>1. SnapshotsInit => Inv
  BY BookInit DEF SnapshotsInit
<1>2. ASSUME [SnapshotsNext]_<<part, vars, samplerVars>> PROVE [Next]_vars
  BY <1>2 DEF SnapshotsNext
<1>3. Inv /\ [SnapshotsNext]_<<part, vars, samplerVars>> => Inv'
  BY <1>2, BookStep
<1>4. Inv /\ [SnapshotsNext]_<<part, vars, samplerVars>> => Shown
  <2>. SUFFICES ASSUME Inv, [Next]_vars PROVE Shown
    BY <1>2
  <2>1. RowShowsVenue
    BY RowStep
  <2>. QED
    BY <2>1, SnapshotShows DEF RowShowsVenue
<1>5. Shown => (row' # row /\ ~gapHere' =>
                  LET b == Head(wire).before IN
                  /\ SideIs(row'.bids, b, "bid") /\ SideIs(row'.asks, b, "offer")
                  /\ (row'.imbalanceTopN = <<>>) <=> (b = noBook)
                  /\ row'.bids # <<>> => row'.impactBid[1] <= row'.bestBid * row'.impactBid[2])
  BY DEF Shows
<1>. HIDE DEF Inv, Shown
<1>. QED
  BY <1>1, <1>3, <1>4, <1>5, PTL DEF SnapshotsSpec, RowIsVenueBook

(* No sampled row carries a price, a mark, a rate or an open interest      *)
(* older at its boundary than that column may be, whenever the feeds push, *)
(* the poll runs between the sampler's locks and the clock is set back;    *)
(* and a row has a price or says the market is shut (VenueState.rowFor,    *)
(* applyPartFiveLocked, Poller.Poll).                                      *)
THEOREM NoRowIsFrozen == SnapshotsSpec => []NothingFrozen
<1>1. SnapshotsInit => SamplerInv /\ FreshInv
  BY SamplerInit, FreshInit DEF SnapshotsInit
<1>2. SamplerInv /\ FreshInv /\ [SnapshotsNext]_<<part, vars, samplerVars>> => (SamplerInv /\ FreshInv)'
  BY StepOfEach, TypesStep, OrderStep, FreshStep DEF SamplerInv
<1>3. SamplerInv /\ FreshInv => NothingFrozen
  BY FreshIsUnfrozen
<1>. QED
  BY <1>1, <1>2, <1>3, PTL DEF SnapshotsSpec

(* The boundaries of the book's rows and of each product's sampled rows    *)
(* only advance, and while nobody sets the clock back the sampler misses   *)
(* none but those a blocked submit sat through, provided a timer is never  *)
(* late by a whole interval (Level2Handler.Tick, VenueState.sample,        *)
(* runWaiting, untilNextBoundary).                                         *)
THEOREM BoundariesOnce ==
    ASSUME Lateness < interval
    PROVE  SnapshotsSpec => EachBoundaryOnce
<1>. DEFINE Inv == BoundaryInv /\ SamplerInv /\ Timely
<1>1. SnapshotsInit => Inv
  BY BoundaryInit, SamplerInit, TimelyInit DEF SnapshotsInit
<1>2. Inv /\ [SnapshotsNext]_<<part, vars, samplerVars>> => Inv'
  BY StepOfEach, BoundaryStep, TypesStep, OrderStep, TimelyStep DEF SamplerInv
<1>3. Inv /\ [SnapshotsNext]_<<part, vars, samplerVars>> => RowAdvances /\ S!RowsAdvance
  BY StepOfEach, BoundaryStep, OrderStep
<1>4. Inv => S!EveryBoundary
  BY TimelyIsEvery
<1>. HIDE DEF Inv
<1>. QED
  BY <1>1, <1>2, <1>3, <1>4, PTL DEF SnapshotsSpec, EachBoundaryOnce
=============================================================================
