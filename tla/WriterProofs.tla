---------------------------- MODULE WriterProofs ----------------------------
(***************************************************************************)
(* Machine-checked proofs about the row writer and about the shutdown      *)
(* wiring of the binaries that own one, for every set of rows, queue size, *)
(* batch size and number of attempts.                                      *)
(***************************************************************************)
EXTENDS Pipeline, FiniteSetTheorems, TLAPS

(* Inserting keeps the table's type, never removes a row, and leaves every *)
(* row of the batch in the table.                                          *)
LEMMA InsertFacts ==
    ASSUME NEW d \in [Keys -> Nat], NEW S \in SUBSET Calls, \A k \in Keys : d[k] <= 1
    PROVE  /\ Insert(d, S) \in [Keys -> Nat]
           /\ \A k \in Keys : Insert(d, S)[k] <= 1 /\ (d[k] = 1 => Insert(d, S)[k] = 1)
           /\ \A c \in S : Insert(d, S)[KeyOf[c]] = 1
<1>1. \A c \in S : KeyOf[c] \in Keys /\ KeyOf[c] \in BatchKeys(S)
  BY WriterAssumption DEF BatchKeys
<1>. QED
  BY <1>1 DEF Insert

(* The command tags of a batch count a part of its rows.                   *)
LEMMA AffectedCount ==
    ASSUME NEW d \in [Keys -> Nat], NEW S \in SUBSET Calls
    PROVE  /\ Affected(d, S) \in Nat /\ Cardinality(S) \in Nat
           /\ Affected(d, S) <= Cardinality(S)
<1> DEFINE new == {k \in BatchKeys(S) : d[k] = 0}
<1>1. IsFiniteSet(S) /\ Cardinality(S) \in Nat
  BY FS_Subset, FS_CardinalityType, WriterAssumption
<1>2. BatchKeys(S) = {KeyOf[c] : c \in S}
  BY DEF BatchKeys
<1>3. IsFiniteSet(BatchKeys(S)) /\ Cardinality(BatchKeys(S)) <= Cardinality(S)
  <2> DEFINE f == [c \in S |-> KeyOf[c]]
  <2>1. f \in Surjection(S, BatchKeys(S))
    BY <1>2 DEF Surjection
  <2>. QED
    BY <1>1, <2>1, FS_Surjection
<1>4. IsFiniteSet(new) /\ Cardinality(new) <= Cardinality(BatchKeys(S))
  BY <1>3, FS_Subset
<1>5. Cardinality(new) \in Nat /\ Cardinality(BatchKeys(S)) \in Nat
  BY <1>3, <1>4, FS_CardinalityType
<1>. QED
  BY <1>1, <1>3, <1>4, <1>5 DEF Affected

(* Row c is somewhere in the queue q.                                      *)
Within(q, c) == \E i \in 1..Len(q) : q[i] = c

(* What adding a last row to a queue and taking its first one do to the    *)
(* rows in it.                                                             *)
LEMMA QueueFacts ==
    ASSUME NEW q \in Seq(Calls)
    PROVE  /\ \A c \in Calls : /\ Append(q, c) \in Seq(Calls)
                               /\ Len(Append(q, c)) = Len(q) + 1
                               /\ Within(Append(q, c), c)
                               /\ \A d \in Calls : Within(q, d) => Within(Append(q, c), d)
           /\ q # <<>> => /\ Head(q) \in Calls
                          /\ Tail(q) \in Seq(Calls)
                          /\ Len(Tail(q)) <= Len(q)
                          /\ \A d \in Calls : Within(q, d) => d = Head(q) \/ Within(Tail(q), d)
<1>1. ASSUME NEW c \in Calls
      PROVE  /\ Append(q, c) \in Seq(Calls)
             /\ Len(Append(q, c)) = Len(q) + 1
             /\ Within(Append(q, c), c)
             /\ \A d \in Calls : Within(q, d) => Within(Append(q, c), d)
  <2>1. /\ Append(q, c) \in Seq(Calls)
        /\ Len(Append(q, c)) = Len(q) + 1
        /\ Append(q, c)[Len(q) + 1] = c
        /\ \A i \in 1..Len(q) : Append(q, c)[i] = q[i]
    OBVIOUS
  <2>2. Len(q) \in Nat
    OBVIOUS
  <2>. QED
    BY <2>1, <2>2 DEF Within
<1>2. ASSUME q # <<>>
      PROVE  /\ Head(q) \in Calls
             /\ Tail(q) \in Seq(Calls)
             /\ Len(Tail(q)) <= Len(q)
             /\ \A d \in Calls : Within(q, d) => d = Head(q) \/ Within(Tail(q), d)
  <2>1. /\ Head(q) \in Calls /\ Head(q) = q[1]
        /\ Tail(q) \in Seq(Calls)
        /\ Len(Tail(q)) = Len(q) - 1
        /\ \A i \in 1..Len(Tail(q)) : Tail(q)[i] = q[i + 1]
        /\ Len(q) \in Nat /\ Len(q) > 0
    BY <1>2
  <2>2. ASSUME NEW d \in Calls, NEW i \in 1..Len(q), q[i] = d, i # 1
        PROVE  Within(Tail(q), d)
    <3>1. i - 1 \in 1..Len(Tail(q)) /\ (i - 1) + 1 = i
      BY <2>1, <2>2
    <3>. QED
      BY <2>1, <2>2, <3>1 DEF Within
  <2>. QED
    BY <2>1, <2>2 DEF Within
<1>. QED
  BY <1>1, <1>2

-----------------------------------------------------------------------------
(* The invariant behind the writer's promises: a row that was accepted is   *)
(* somewhere, and the tables hold every key at most once.                   *)
Held(cs, q, p, d) ==
    \A c \in Calls : cs[c] = "accepted" => Within(q, c) \/ c \in p \/ d[KeyOf[c]] = 1

WriterInv == TypeOK /\ NoRowTwice /\ Held(calls, queue, pending, db)

(* The named invariant is the run's AcceptedIsHeld, with the queue and the *)
(* tables as arguments.                                                    *)
LEMMA HeldIsAcceptedIsHeld == Held(calls, queue, pending, db) <=> AcceptedIsHeld
BY DEF Held, AcceptedIsHeld, Within, Queued

(* A fresh writer holds nothing and has accepted nothing.                  *)
LEMMA WriterInit == Init => WriterInv
<1>. SUFFICES ASSUME Init PROVE WriterInv
  OBVIOUS
<1>1. TypeOK
  <2>1. queue \in Seq(Calls) /\ Len(queue) <= QueueSize
    BY WriterAssumption DEF Init
  <2>2. calls \in [Calls -> CallStates] /\ db \in [Keys -> Nat]
    BY DEF Init, CallStates
  <2>3. attempt \in 1..MaxAttempts
    BY WriterAssumption DEF Init
  <2>. QED
    BY <2>1, <2>2, <2>3 DEF Init, TypeOK, RunStates
<1>2. NoRowTwice
  BY DEF Init, NoRowTwice
<1>3. Held(calls, queue, pending, db)
  BY DEF Init, Held
<1>. QED
  BY <1>1, <1>2, <1>3 DEF WriterInv

(* One step of any goroutine of the writer keeps the invariant.            *)
LEMMA WriterStep == WriterInv /\ [Next]_vars => WriterInv'
<1>. SUFFICES ASSUME WriterInv, [Next]_vars PROVE WriterInv'
  OBVIOUS
<1>. USE WriterAssumption DEF WriterInv, callVars, runVars, dbVars
<1>a. TypeOK /\ NoRowTwice /\ Held(calls, queue, pending, db)
  OBVIOUS
<1>b. /\ queue \in Seq(Calls) /\ Len(queue) \in Nat
      /\ pending \in SUBSET Calls /\ db \in [Keys -> Nat]
  BY <1>a DEF TypeOK
<1>c. \A k \in Keys : db[k] <= 1
  BY <1>a DEF NoRowTwice
(* A step that leaves the table, the queue and the batch alone, and tells  *)
(* no producer that its row was accepted.                                  *)
<1>d. ASSUME UNCHANGED <<queue, pending, db>>, TypeOK',
             \A c \in Calls : calls'[c] = "accepted" => calls[c] = "accepted"
      PROVE  WriterInv'
  BY <1>a, <1>d DEF NoRowTwice, Held
<1>1. ASSUME NEW c \in Calls, Check(c) PROVE WriterInv'
  <2>1. TypeOK'
    BY <1>a, <1>1 DEF Check, Returns, TypeOK, CallStates
  <2>2. \A d \in Calls : calls'[d] = "accepted" => calls[d] = "accepted"
    BY <1>a, <1>1 DEF Check, Returns, TypeOK
  <2>3. UNCHANGED <<queue, pending, db>>
    BY <1>1 DEF Check
  <2>. QED
    BY <1>d, <2>1, <2>2, <2>3
<1>2. ASSUME NEW c \in Calls, Accept(c) PROVE WriterInv'
  <2>1. queue' = Append(queue, c) /\ UNCHANGED <<pending, db>>
    BY <1>2 DEF Accept
  <2>2. TypeOK'
    BY <1>a, <1>b, <1>2, QueueFacts DEF Accept, Returns, TypeOK, CallStates
  <2>3. NoRowTwice'
    BY <1>a, <2>1 DEF NoRowTwice
  <2>4. ASSUME NEW d \in Calls, calls'[d] = "accepted"
        PROVE  Within(queue', d) \/ d \in pending' \/ db'[KeyOf[d]] = 1
    <3>1. CASE d = c
      BY <1>b, <2>1, <3>1, QueueFacts
    <3>2. CASE d # c
      <4>1. calls[d] = "accepted"
        BY <1>a, <1>2, <2>4, <3>2 DEF Accept, Returns, TypeOK
      <4>2. Within(queue, d) \/ d \in pending \/ db[KeyOf[d]] = 1
        BY <1>a, <4>1 DEF Held
      <4>. QED
        BY <1>b, <2>1, <4>2, QueueFacts
    <3>. QED
      BY <3>1, <3>2
  <2>. QED
    BY <2>2, <2>3, <2>4 DEF Held
<1>3. ASSUME NEW c \in Calls, Refuse(c) PROVE WriterInv'
  <2>1. TypeOK'
    BY <1>a, <1>3 DEF Refuse, Returns, TypeOK, CallStates
  <2>2. \A d \in Calls : calls'[d] = "accepted" => calls[d] = "accepted"
    BY <1>a, <1>3 DEF Refuse, Returns, TypeOK
  <2>3. UNCHANGED <<queue, pending, db>>
    BY <1>3 DEF Refuse
  <2>. QED
    BY <1>d, <2>1, <2>2, <2>3
(* Taking a row moves it from the queue to the batch.                      *)
<1>e. ASSUME queue # <<>>, pending' = pending \cup {Head(queue)}, queue' = Tail(queue),
             UNCHANGED <<calls, db>>
      PROVE  Held(calls, queue, pending, db)' /\ NoRowTwice'
  <2>1. ASSUME NEW d \in Calls, calls'[d] = "accepted"
        PROVE  Within(queue', d) \/ d \in pending' \/ db'[KeyOf[d]] = 1
    <3>1. Within(queue, d) \/ d \in pending \/ db[KeyOf[d]] = 1
      BY <1>a, <1>e, <2>1 DEF Held
    <3>. QED
      BY <1>b, <1>e, <3>1, QueueFacts
  <2>. QED
    BY <1>a, <1>e, <2>1 DEF Held, NoRowTwice
<1>4. ASSUME Take PROVE WriterInv'
  <2>1. TypeOK'
    BY <1>a, <1>b, <1>4, QueueFacts DEF Take, TypeOK, RunStates
  <2>. QED
    BY <1>4, <1>e, <2>1 DEF Take
<1>5. ASSUME Tick PROVE WriterInv'
  BY <1>a, <1>d, <1>5 DEF Tick, TypeOK, RunStates
<1>6. ASSUME ShutdownBegins PROVE WriterInv'
  BY <1>a, <1>d, <1>6 DEF ShutdownBegins, TypeOK, RunStates
<1>7. ASSUME Drain PROVE WriterInv'
  <2>1. CASE queue # <<>>
    <3>1. /\ pending' = pending \cup {Head(queue)} /\ queue' = Tail(queue)
          /\ UNCHANGED <<calls, producersDone, runDone, pc, attempt, err, stop, closed, done>>
          /\ UNCHANGED <<db, written, conflicts>>
      BY <1>7, <2>1 DEF Drain
    <3>2. queue' \in Seq(Calls) /\ Len(queue') <= QueueSize /\ pending' \in SUBSET Calls
      <4>1. Len(queue) <= QueueSize
        BY <1>a DEF TypeOK
      <4>2. Head(queue) \in Calls /\ Tail(queue) \in Seq(Calls) /\ Len(Tail(queue)) <= Len(queue)
        BY <1>b, <2>1, QueueFacts
      <4>. QED
        BY <1>b, <3>1, <4>1, <4>2
    <3>3. TypeOK'
      BY <1>a, <3>1, <3>2 DEF TypeOK
    <3>. QED
      BY <1>e, <2>1, <3>1, <3>3
  <2>2. CASE queue = <<>>
    BY <1>a, <1>d, <1>7, <2>2 DEF Drain, TypeOK, RunStates
  <2>. QED
    BY <2>1, <2>2
(* A commit, whether or not its answer arrives, leaves every row of the    *)
(* batch in the table.                                                     *)
<1>f. ASSUME UNCHANGED <<calls, queue>>, db' \in {db, Insert(db, pending)},
             \/ pending' = pending
             \/ pending' = {} /\ db' = Insert(db, pending)
      PROVE  Held(calls, queue, pending, db)' /\ NoRowTwice' /\ db' \in [Keys -> Nat]
  <2>1. \A d \in Calls : KeyOf[d] \in Keys
    OBVIOUS
  <2>2. /\ Insert(db, pending) \in [Keys -> Nat]
        /\ \A k \in Keys : Insert(db, pending)[k] <= 1 /\ (db[k] = 1 => Insert(db, pending)[k] = 1)
        /\ \A c \in pending : Insert(db, pending)[KeyOf[c]] = 1
    BY <1>b, <1>c, InsertFacts
  <2>3. ASSUME NEW d \in Calls, calls'[d] = "accepted"
        PROVE  Within(queue', d) \/ d \in pending' \/ db'[KeyOf[d]] = 1
    <3>1. Within(queue, d) \/ d \in pending \/ db[KeyOf[d]] = 1
      BY <1>a, <1>f, <2>3 DEF Held
    <3>. QED
      BY <1>f, <2>1, <2>2, <3>1
  <2>. QED
    BY <1>b, <1>c, <1>f, <2>2, <2>3 DEF Held, NoRowTwice
<1>8. ASSUME SendLands PROVE WriterInv'
  <2>1. Held(calls, queue, pending, db)' /\ NoRowTwice' /\ db' \in [Keys -> Nat]
    BY <1>f, <1>8 DEF SendLands
  <2>2. written' \in Nat /\ conflicts' \in Nat
    BY <1>a, <1>b, <1>8, AffectedCount DEF SendLands, TypeOK
  <2>3. TypeOK'
    BY <1>a, <1>8, <2>1, <2>2 DEF SendLands, TypeOK, RunStates
  <2>. QED
    BY <2>1, <2>3
<1>9. ASSUME SendFails PROVE WriterInv'
  <2>1. Held(calls, queue, pending, db)' /\ NoRowTwice' /\ db' \in [Keys -> Nat]
    BY <1>f, <1>9 DEF SendFails
  <2>2. attempt' \in 1..MaxAttempts /\ pc' \in RunStates /\ err' \in {"none", "fatal"}
    BY <1>a, <1>9 DEF SendFails, GiveUp, TypeOK, RunStates
  <2>3. TypeOK'
    BY <1>a, <1>9, <2>1, <2>2 DEF SendFails, TypeOK
  <2>. QED
    BY <2>1, <2>3
<1>10. ASSUME SendRefused PROVE WriterInv'
  BY <1>a, <1>d, <1>10 DEF SendRefused, GiveUp, TypeOK, RunStates
<1>11. ASSUME Exit PROVE WriterInv'
  BY <1>a, <1>d, <1>11 DEF Exit, TypeOK, RunStates
<1>12. ASSUME Close PROVE WriterInv'
  BY <1>a, <1>d, <1>12 DEF Close, TypeOK
<1>13. ASSUME CancelProducers PROVE WriterInv'
  BY <1>a, <1>d, <1>13 DEF CancelProducers, TypeOK
<1>14. ASSUME CancelRun PROVE WriterInv'
  BY <1>a, <1>d, <1>14 DEF CancelRun, TypeOK
<1>15. ASSUME UNCHANGED vars PROVE WriterInv'
  BY <1>a, <1>d, <1>15 DEF vars, TypeOK
<1>. QED
  BY <1>1, <1>2, <1>3, <1>4, <1>5, <1>6, <1>7, <1>8, <1>9, <1>10, <1>11, <1>12, <1>13, <1>14, <1>15
     DEF Next, Submit, Run, Send

(* Every variable of the writer keeps its type: the bounded channel never  *)
(* overruns its capacity, and no attempt goes past MaxAttempts.            *)
THEOREM WriterTypeCorrect == Spec => []TypeOK
<1>1. WriterInv => TypeOK
  BY DEF WriterInv
<1>. QED
  BY <1>1, WriterInit, WriterStep, PTL DEF Spec

(* Retrying is safe: however often a batch whose commit status was lost is *)
(* sent again, no table ever holds a row twice.                            *)
THEOREM RetrySafe == Spec => []NoRowTwice
<1>1. WriterInv => NoRowTwice
  BY DEF WriterInv
<1>. QED
  BY <1>1, WriterInit, WriterStep, PTL DEF Spec

(* No row that Submit accepted is dropped on its way to the database.      *)
THEOREM RowsAreHeld == Spec => []AcceptedIsHeld
<1>1. WriterInv => AcceptedIsHeld
  BY HeldIsAcceptedIsHeld DEF WriterInv
<1>. QED
  BY <1>1, WriterInit, WriterStep, PTL DEF Spec

-----------------------------------------------------------------------------
(* The keys the tables hold a row of.                                      *)
Rows(d) == {k \in Keys : d[k] > 0}

(* A committed batch adds to the tables exactly the rows its command tags  *)
(* count.                                                                  *)
LEMMA InsertCount ==
    ASSUME NEW d \in [Keys -> Nat], NEW S \in SUBSET Calls
    PROVE  /\ Cardinality(Rows(d)) \in Nat
           /\ Cardinality(Rows(Insert(d, S))) = Cardinality(Rows(d)) + Affected(d, S)
<1> DEFINE new == {k \in BatchKeys(S) : d[k] = 0}
<1>1. BatchKeys(S) \subseteq Keys
  BY WriterAssumption DEF BatchKeys
<1>2. Rows(Insert(d, S)) = Rows(d) \cup new
  BY <1>1 DEF Rows, Insert
<1>3. Rows(d) \cap new = {}
  BY <1>1 DEF Rows
<1>4. IsFiniteSet(Rows(d)) /\ IsFiniteSet(new)
  BY <1>1, FS_Subset, WriterAssumption DEF Rows
<1>5. Cardinality(Rows(d)) \in Nat /\ Cardinality(new) \in Nat
  BY <1>4, FS_CardinalityType
<1>6. Cardinality(Rows(d) \cup new)
        = Cardinality(Rows(d)) + Cardinality(new) - Cardinality(Rows(d) \cap new)
  BY <1>4, FS_Union
<1>7. Cardinality(Rows(d) \cap new) = 0
  BY <1>3, FS_EmptySet
<1>. QED
  BY <1>2, <1>5, <1>6, <1>7 DEF Affected

(* The rows-written counter never runs ahead of the tables: it is raised   *)
(* only by the answer to a commit, by what that commit added.              *)
THEOREM CounterHonest == Spec => []CounterIsHonest
<1> DEFINE Honest == written <= Cardinality(Rows(db))
<1>1. Init => Honest
  <2>. SUFFICES ASSUME Init PROVE Honest
    OBVIOUS
  <2>1. written = 0 /\ db \in [Keys -> Nat]
    BY DEF Init
  <2>2. Cardinality(Rows(db)) \in Nat
    BY <2>1, InsertCount
  <2>. QED
    BY <2>1, <2>2
<1>2. WriterInv /\ Honest /\ [Next]_vars => Honest'
  <2>. SUFFICES ASSUME WriterInv, Honest, [Next]_vars PROVE Honest'
    OBVIOUS
  <2>1. db \in [Keys -> Nat] /\ pending \in SUBSET Calls /\ written \in Nat
    BY DEF WriterInv, TypeOK
  <2>2. /\ Cardinality(Rows(db)) \in Nat
        /\ Cardinality(Rows(Insert(db, pending))) = Cardinality(Rows(db)) + Affected(db, pending)
        /\ Affected(db, pending) \in Nat
    BY <2>1, InsertCount, AffectedCount
  <2>3. CASE SendLands
    BY <2>1, <2>2, <2>3 DEF SendLands
  <2>4. CASE SendFails
    <3>1. written' = written /\ (db' = db \/ db' = Insert(db, pending))
      BY <2>4 DEF SendFails
    <3>. QED
      BY <2>1, <2>2, <3>1
  <2>5. CASE UNCHANGED <<db, written>>
    BY <2>5
  <2>6. SendLands \/ SendFails \/ UNCHANGED <<db, written>>
    BY DEF Next, Submit, Check, Accept, Refuse, Run, Take, Tick, ShutdownBegins, Drain, Send,
           SendRefused, Exit, Close, CancelProducers, CancelRun, vars, dbVars
  <2>. QED
    BY <2>3, <2>4, <2>5, <2>6
<1>3. Honest => CounterIsHonest
  BY DEF CounterIsHonest, Rows
<1>. QED
  BY <1>1, <1>2, <1>3, WriterInit, WriterStep, PTL DEF Spec

(* What the table and the counter say of the rows is true through every    *)
(* retry, lost commit, fatal error and shutdown, for any number of rows.   *)
THEOREM RowsAreKept == Spec => []RowsKept
<1>1. NoRowTwice /\ AcceptedIsHeld /\ CounterIsHonest => RowsKept
  BY DEF RowsKept
<1>. QED
  BY <1>1, RetrySafe, RowsAreHeld, CounterHonest, PTL

-----------------------------------------------------------------------------
(* The wiring around the writer.  Every step of a binary is a step of its  *)
(* writer, leaves the writer alone, or is a Submit whose own deadline has  *)
(* passed, so the writer's invariant carries over; what the wiring adds is *)
(* the order of the shutdown.                                              *)

LEMMA PipeStepIsWriterStep ==
    [PipeNext]_pipeVars => [Next]_vars \/ \E c \in Calls : SubmitExpires(c)
BY DEF PipeNext, pipeVars, Produce, FinishSubmit, Write, Signal, WriterGone, ProducersStop,
       ProducersFail, CloseWriter, Return, Next, Submit

(* Close comes after the producers, the drain after Close, and the drain   *)
(* leaves nothing behind.                                                  *)
Quiet == \A c \in Calls : calls[c] # "checked"
ShutdownInv ==
    /\ runDone = FALSE
    /\ done => pc = "done"
    /\ closed => producers = "stopped"
    /\ producers = "stopped" => Quiet
    /\ stop => closed \/ pc = "done"
    /\ pc \in {"drain", "final"} => closed
    /\ pc = "final" => queue = <<>>
    /\ pc \in {"exit", "done"} /\ err = "none" => closed /\ queue = <<>> /\ pending = {}
    /\ returned => done

(* The order of the shutdown holds from the start.                         *)
LEMMA ShutdownInit == PipeInit => ShutdownInv
BY DEF PipeInit, Init, ShutdownInv

(* Every step of the binary keeps the order of the shutdown.               *)
LEMMA ShutdownStep == WriterInv /\ ShutdownInv /\ [PipeNext]_pipeVars => ShutdownInv'
<1>. SUFFICES ASSUME WriterInv, ShutdownInv, [PipeNext]_pipeVars PROVE ShutdownInv'
  OBVIOUS
<1>a. TypeOK
  BY DEF WriterInv
<1>. USE <1>a DEF ShutdownInv, Quiet, callVars, runVars, dbVars
<1>1. ASSUME NEW c \in Calls, Produce(c) PROVE ShutdownInv'
  BY <1>1 DEF Produce, Check, Returns
<1>2. ASSUME NEW c \in Calls, FinishSubmit(c) PROVE ShutdownInv'
  <2>1. calls[c] = "checked"
    BY <1>2 DEF FinishSubmit, Accept, Refuse
  <2>2. producers # "stopped" /\ ~closed /\ producers' = producers
    BY <1>2, <2>1 DEF FinishSubmit
  <2>. QED
    BY <1>2, <2>2 DEF FinishSubmit, Accept, Refuse
<1>10. ASSUME NEW c \in Calls, SubmitExpires(c) PROVE ShutdownInv'
  BY <1>10 DEF SubmitExpires, Returns
<1>3. ASSUME Write PROVE ShutdownInv'
  <2>1. CASE Take
    BY <1>3, <2>1 DEF Write, Take
  <2>2. CASE Tick
    BY <1>3, <2>2 DEF Write, Tick
  <2>3. CASE ShutdownBegins
    BY <1>3, <2>3 DEF Write, ShutdownBegins
  <2>4. CASE Drain
    BY <1>3, <2>4 DEF Write, Drain
  <2>5. CASE SendLands
    BY <1>3, <2>5 DEF Write, SendLands, Sending
  <2>6. CASE SendFails
    BY <1>3, <2>6 DEF Write, SendFails, Sending, GiveUp
  <2>7. CASE SendRefused
    BY <1>3, <2>7 DEF Write, SendRefused, Sending, GiveUp
  <2>8. CASE Exit
    BY <1>3, <2>8 DEF Write, Exit
  <2>. QED
    BY <1>3, <2>1, <2>2, <2>3, <2>4, <2>5, <2>6, <2>7, <2>8 DEF Write, Run, Send
<1>4. ASSUME Signal PROVE ShutdownInv'
  BY <1>4 DEF Signal, CancelProducers
<1>5. ASSUME WriterGone PROVE ShutdownInv'
  BY <1>5 DEF WriterGone, CancelProducers
<1>6. ASSUME ProducersStop PROVE ShutdownInv'
  BY <1>6 DEF ProducersStop, vars
<1>11. ASSUME ProducersFail PROVE ShutdownInv'
  BY <1>11 DEF ProducersFail, vars
<1>7. ASSUME CloseWriter PROVE ShutdownInv'
  BY <1>7 DEF CloseWriter, Close
<1>8. ASSUME Return PROVE ShutdownInv'
  BY <1>8 DEF Return, vars
<1>9. ASSUME UNCHANGED pipeVars PROVE ShutdownInv'
  BY <1>9 DEF pipeVars, vars
<1>. QED
  BY <1>1, <1>2, <1>3, <1>4, <1>5, <1>6, <1>7, <1>8, <1>9, <1>10, <1>11 DEF PipeNext

(* A binary that returns without a write error has written every row any   *)
(* of its producers was told was accepted, for any number of rows and      *)
(* producers, however the signal, the queue and the flushes interleave.    *)
THEOREM ShutdownSafe == PipeSpec => []NothingStranded
<1>1. PipeInit => WriterInv /\ ShutdownInv
  BY WriterInit, ShutdownInit DEF PipeInit
<1>2. WriterInv /\ ShutdownInv /\ [PipeNext]_pipeVars => (WriterInv /\ ShutdownInv)'
  <2>1. ASSUME NEW c \in Calls, SubmitExpires(c), WriterInv PROVE WriterInv'
    <3>1. TypeOK'
      BY <2>1 DEF SubmitExpires, Returns, WriterInv, TypeOK, CallStates, runVars, dbVars
    <3>2. \A d \in Calls : calls'[d] = "accepted" => calls[d] = "accepted"
      BY <2>1 DEF SubmitExpires, Returns, WriterInv, TypeOK
    <3>3. UNCHANGED <<queue, pending, db>>
      BY <2>1 DEF SubmitExpires, runVars, dbVars
    <3>. QED
      BY <2>1, <3>1, <3>2, <3>3 DEF WriterInv, NoRowTwice, Held
  <2>. QED
    BY <2>1, WriterStep, ShutdownStep, PipeStepIsWriterStep
<1>3. WriterInv /\ ShutdownInv => NothingStranded
  <2>. SUFFICES ASSUME WriterInv, ShutdownInv, returned, err = "none",
                       NEW c \in Calls, calls[c] = "accepted"
                PROVE  db[KeyOf[c]] = 1
    BY DEF NothingStranded
  <2>1. queue = <<>> /\ pending = {}
    BY DEF ShutdownInv
  <2>2. Within(queue, c) \/ c \in pending \/ db[KeyOf[c]] = 1
    BY DEF WriterInv, Held
  <2>. QED
    BY <2>1, <2>2 DEF Within
<1>. QED
  BY <1>1, <1>2, <1>3, PTL DEF PipeSpec
=============================================================================
