------------------------------- MODULE Writer -------------------------------
(***************************************************************************)
(* The single goroutine per binary that touches the database               *)
(* (internal/db/writer.go), with the producers that Submit rows to it and  *)
(* the database behind it.                                                 *)
(*                                                                         *)
(* A call is one Submit of one row; two calls may carry the same natural   *)
(* key.  Submit is two steps, because the goroutine can be preempted       *)
(* between its two selects, and a select with several ready cases takes    *)
(* any of them.  The database runs a batch as one implicit transaction, so *)
(* a flush lands whole or not at all, but its answer can be lost after the *)
(* commit.                                                                 *)
(***************************************************************************)
EXTENDS Naturals, Sequences, FiniteSets

CONSTANTS
    Calls,        \* the Submit calls, one row each
    Keys,         \* natural keys of the rows
    KeyOf,        \* KeyOf[c]: the key of the row call c submits
    QueueSize,    \* WriterOptions.QueueSize
    BatchSize,    \* WriterOptions.BatchSize
    MaxAttempts   \* WriterOptions.MaxAttempts

ASSUME WriterAssumption ==
    /\ IsFiniteSet(Calls)
    /\ IsFiniteSet(Keys)
    /\ KeyOf \in [Calls -> Keys]
    /\ QueueSize \in Nat \ {0}
    /\ BatchSize \in Nat \ {0}
    /\ MaxAttempts \in Nat \ {0}

VARIABLES
    calls,         \* calls[c]: how far Submit call c is, or what it returned
    producersDone, \* the context the producers submit on is cancelled
    runDone,       \* the context Run was given is cancelled
    queue,         \* Writer.rows, the bounded channel
    pc,            \* where the Run goroutine is
    pending,       \* the rows enqueued and not yet written
    attempt,       \* which attempt of send is under way
    stop,          \* Writer.stop is closed
    closed,        \* Close has been called
    done,          \* Writer.done is closed, so Close returns
    err,           \* Writer.err: what Run and Close return
    db,            \* db[k]: how many rows of key k the table holds
    written,       \* the rows-written counter
    conflicts      \* the conflicts counter

callVars == <<calls, producersDone>>
runVars  == <<pc, pending, attempt, err>>
dbVars   == <<db, written, conflicts>>
vars     == <<callVars, runDone, queue, runVars, stop, closed, done, dbVars>>

CallStates == {"idle", "checked", "accepted", "stopped", "cancelled"}
RunStates  == {"loop", "send", "drain", "final", "exit", "done"}

Init == /\ calls = [c \in Calls |-> "idle"]
        /\ producersDone = FALSE
        /\ runDone = FALSE
        /\ queue = <<>>
        /\ pc = "loop"
        /\ pending = {}
        /\ attempt = 1
        /\ stop = FALSE
        /\ closed = FALSE
        /\ done = FALSE
        /\ err = "none"
        /\ db = [k \in Keys |-> 0]
        /\ written = 0
        /\ conflicts = 0

-----------------------------------------------------------------------------
(* Submit, called by a producer.                                           *)

Returns(c, result) == calls' = [calls EXCEPT ![c] = result]

(* The first select looks at stop alone.                                   *)
Check(c) == /\ calls[c] = "idle"
            /\ Returns(c, IF stop THEN "stopped" ELSE "checked")
            /\ UNCHANGED <<producersDone, runDone, queue, runVars, stop, closed, done, dbVars>>

(* The second select: room in the queue, a stopped writer, or a cancelled  *)
(* context, whichever of the ready ones Go picks.                          *)
Accept(c) == /\ calls[c] = "checked"
             /\ Len(queue) < QueueSize
             /\ queue' = Append(queue, c)
             /\ Returns(c, "accepted")
             /\ UNCHANGED <<producersDone, runDone, runVars, stop, closed, done, dbVars>>

Refuse(c) == /\ calls[c] = "checked"
             /\ \/ stop /\ Returns(c, "stopped")
                \/ producersDone /\ Returns(c, "cancelled")
             /\ UNCHANGED <<producersDone, runDone, queue, runVars, stop, closed, done, dbVars>>

-----------------------------------------------------------------------------
(* The Run goroutine.                                                      *)

(* The loop takes a row; a full batch is flushed at once.                  *)
Take == /\ pc = "loop"
        /\ queue # <<>>
        /\ pending' = pending \cup {Head(queue)}
        /\ queue' = Tail(queue)
        /\ pc' = IF Cardinality(pending') >= BatchSize THEN "send" ELSE "loop"
        /\ attempt' = 1
        /\ UNCHANGED <<callVars, runDone, err, stop, closed, done, dbVars>>

(* The ticker flushes whatever is pending; flush with nothing is a no-op.  *)
TickWaitsForFull == /\ pc = "loop"
                    /\ Cardinality(pending) >= BatchSize
                    /\ pc' = "send"
                    /\ attempt' = 1
                    /\ UNCHANGED <<callVars, runDone, queue, pending, err, stop, closed, done, dbVars>>
Tick == /\ pc = "loop"
        /\ pending # {}
        /\ pc' = "send"
        /\ attempt' = 1
        /\ UNCHANGED <<callVars, runDone, queue, pending, err, stop, closed, done, dbVars>>

(* The loop sees stop or its context, and shutdown closes stop before it   *)
(* drains.                                                                 *)
ShutdownBegins == /\ pc = "loop"
                  /\ stop \/ runDone
                  /\ stop' = TRUE
                  /\ pc' = "drain"
                  /\ UNCHANGED <<callVars, runDone, queue, pending, attempt, err, closed, done, dbVars>>

Drain == /\ pc = "drain"
         /\ IF queue # <<>>
            THEN /\ pending' = pending \cup {Head(queue)}
                 /\ queue' = Tail(queue)
                 /\ UNCHANGED <<pc, attempt>>
            ELSE /\ pc' = IF pending = {} THEN "exit" ELSE "final"
                 /\ attempt' = 1
                 /\ UNCHANGED <<queue, pending>>
         /\ UNCHANGED <<callVars, runDone, err, stop, closed, done, dbVars>>

(* What the table holds after a committed batch: every insert carries      *)
(* ON CONFLICT DO NOTHING on its natural key.                              *)
BatchKeys(S) == {KeyOf[c] : c \in S}
Insert(d, S) == [k \in Keys |-> IF d[k] = 0 /\ k \in BatchKeys(S) THEN 1 ELSE d[k]]
(* How many rows a batch adds, as the command tags report it.              *)
Affected(d, S) == Cardinality({k \in BatchKeys(S) : d[k] = 0})

Sending == pc \in {"send", "final"}

(* The batch commits and the answer arrives.                               *)
SendLands == /\ Sending
             /\ db' = Insert(db, pending)
             /\ written' = written + Affected(db, pending)
             /\ conflicts' = conflicts + (Cardinality(pending) - Affected(db, pending))
             /\ pending' = {}
             /\ pc' = IF pc = "final" THEN "exit" ELSE "loop"
             /\ UNCHANGED <<callVars, runDone, queue, attempt, err, stop, closed, done>>

GiveUp == pc' = "exit" /\ err' = "fatal" /\ UNCHANGED attempt

(* A failure another attempt could clear: the connection or the commit's   *)
(* acknowledgement is lost, so the batch may or may not have landed.  The  *)
(* backoff is cut short when FlushTimeout expires.                         *)
SendFails == /\ Sending
             /\ db' \in {db, Insert(db, pending)}
             /\ \/ /\ attempt < MaxAttempts
                   /\ attempt' = attempt + 1
                   /\ UNCHANGED <<pc, err>>
                \/ GiveUp
             /\ UNCHANGED <<callVars, runDone, queue, pending, stop, closed, done, written, conflicts>>

(* A failure of the rows or of the schema, which no retry can clear.       *)
SendRefusedDrops == /\ Sending
                    /\ GiveUp
                    /\ pending' = {}
                    /\ UNCHANGED <<callVars, runDone, queue, stop, closed, done, dbVars>>
SendRefused == /\ Sending
               /\ GiveUp
               /\ UNCHANGED <<callVars, runDone, queue, pending, stop, closed, done, dbVars>>

(* Run records the error, closes stop for the exit that skipped shutdown,  *)
(* and lets Close return.                                                  *)
Exit == /\ pc = "exit"
        /\ pc' = "done"
        /\ stop' = TRUE
        /\ done' = TRUE
        /\ UNCHANGED <<callVars, runDone, queue, pending, attempt, err, closed, dbVars>>

-----------------------------------------------------------------------------
(* The binary around it.                                                   *)

Close == /\ ~closed
         /\ closed' = TRUE
         /\ stop' = TRUE
         /\ UNCHANGED <<callVars, runDone, queue, runVars, done, dbVars>>

CancelProducers == /\ ~producersDone
                   /\ producersDone' = TRUE
                   /\ UNCHANGED <<calls, runDone, queue, runVars, stop, closed, done, dbVars>>

CancelRun == /\ ~runDone
             /\ runDone' = TRUE
             /\ UNCHANGED <<callVars, queue, runVars, stop, closed, done, dbVars>>

Submit(c) == Check(c) \/ Accept(c) \/ Refuse(c)
Send      == SendLands \/ SendFails \/ SendRefused
Run       == Take \/ Tick \/ ShutdownBegins \/ Drain \/ Send \/ Exit

Next == \/ \E c \in Calls : Submit(c)
        \/ Run
        \/ Close
        \/ CancelProducers
        \/ CancelRun

Spec == Init /\ [][Next]_vars

(* The goroutines are scheduled: Run keeps running, every attempt to send  *)
(* ends (FlushTimeout bounds it), and a Submit with a ready case takes it. *)
Fairness == /\ WF_vars(Run)
            /\ \A c \in Calls : WF_vars(Accept(c) \/ Refuse(c))

FairSpec == Spec /\ Fairness

-----------------------------------------------------------------------------
(* Every variable holds a value of its type.                               *)
TypeOK ==
    /\ calls \in [Calls -> CallStates]
    /\ producersDone \in BOOLEAN /\ runDone \in BOOLEAN
    /\ queue \in Seq(Calls) /\ Len(queue) <= QueueSize
    /\ pc \in RunStates
    /\ pending \in SUBSET Calls
    /\ attempt \in 1..MaxAttempts
    /\ stop \in BOOLEAN /\ closed \in BOOLEAN /\ done \in BOOLEAN
    /\ err \in {"none", "fatal"}
    /\ db \in [Keys -> Nat]
    /\ written \in Nat /\ conflicts \in Nat

Queued(c) == \E i \in 1..Len(queue) : queue[i] = c

(* However often a batch is re-sent after its commit status was lost, and  *)
(* however often a producer repeats a row, the table holds it once.        *)
NoRowTwice == \A k \in Keys : db[k] <= 1

(* A row Submit accepted is never dropped on the way: it is in the queue,  *)
(* in the batch, or in the table, through every failed attempt, a fatal    *)
(* error and the shutdown.                                                 *)
AcceptedIsHeld ==
    \A c \in Calls : calls[c] = "accepted" => Queued(c) \/ c \in pending \/ db[KeyOf[c]] = 1

(* The rows-written counter never claims more rows than the tables hold,   *)
(* whatever retries and conflicts there were.                              *)
CounterIsHonest == written <= Cardinality({k \in Keys : db[k] > 0})

(* What the table and the counter say of the rows is true through every    *)
(* retry: none twice, none lost, none claimed that is not there.           *)
RowsKept == NoRowTwice /\ AcceptedIsHeld /\ CounterIsHonest

(* A writer that has stopped without an error has written every row it     *)
(* accepted: a producer is told "stopped" rather than "accepted" for a row *)
(* the drain will not see.                                                 *)
AcceptedLands ==
    done /\ err = "none" => \A c \in Calls : calls[c] = "accepted" => db[KeyOf[c]] = 1
=============================================================================
