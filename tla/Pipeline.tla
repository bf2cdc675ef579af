------------------------------ MODULE Pipeline ------------------------------
(***************************************************************************)
(* The shutdown wiring of the two binaries that write: pipeline in         *)
(* cmd/ingest/main.go and simulate in cmd/sim-venue/main.go.  Both build a *)
(* writer detached from the root context, run their producers on a context *)
(* that ends with the root or with the writer, and Close the writer only   *)
(* after every producer goroutine has stopped.                             *)
(*                                                                         *)
(* The writer is Writer, unchanged; the producers are its Submit calls.    *)
(***************************************************************************)
EXTENDS Writer

VARIABLES
    producers,   \* "running" until streams.Run (acceptor.Run) has returned
    returned     \* pipeline (simulate) has returned

pipeVars == <<vars, producers, returned>>

PipeInit == Init /\ producers = "running" /\ returned = FALSE

(* A producer goroutine submits; it may still do so after its context has  *)
(* ended, because a frame already read is dispatched.                      *)
Produce(c) == /\ producers = "running"
              /\ Check(c)
              /\ UNCHANGED <<producers, returned>>
(* A Submit under way runs to its end.                                     *)
FinishSubmit(c) == /\ Accept(c) \/ Refuse(c)
                   /\ UNCHANGED <<producers, returned>>

(* The fill engine submits on a context of its own with a deadline, which  *)
(* can pass while the queue is full.                                       *)
SubmitExpires(c) == /\ calls[c] = "checked"
                    /\ Returns(c, "cancelled")
                    /\ UNCHANGED <<producersDone, runDone, queue, runVars, stop, closed, done, dbVars>>
                    /\ UNCHANGED <<producers, returned>>

Write == Run /\ UNCHANGED <<producers, returned>>

(* SIGTERM or SIGINT ends the root context, and with it the producers'.    *)
Signal == CancelProducers /\ UNCHANGED <<producers, returned>>

(* The goroutine around writer.Run cancels the producers when Run returns: *)
(* two of ingest's five streams never submit and would not notice.         *)
WriterUnnoticed == done /\ UNCHANGED pipeVars
WriterGone == /\ done
              /\ CancelProducers
              /\ UNCHANGED <<producers, returned>>

(* streams.Run waits for every producer goroutine, so no Submit is in      *)
(* flight when it returns.                                                 *)
ProducersStopEarly == /\ producers = "running"
                      /\ producersDone
                      /\ producers' = "stopped"
                      /\ UNCHANGED <<vars, returned>>
ProducersStop == /\ producers = "running"
                 /\ producersDone
                 /\ \A c \in Calls : calls[c] # "checked"
                 /\ producers' = "stopped"
                 /\ UNCHANGED <<vars, returned>>

(* acceptor.Run also returns by itself: it could not listen, or its engine *)
(* failed to record a fill.                                                *)
ProducersFail == /\ producers = "running"
                 /\ \A c \in Calls : calls[c] # "checked"
                 /\ producers' = "stopped"
                 /\ UNCHANGED <<vars, returned>>

CloseWriter == /\ producers = "stopped"
               /\ Close
               /\ UNCHANGED <<producers, returned>>

(* Close has waited for the final flush; its error is the binary's.        *)
Return == /\ closed
          /\ done
          /\ ~returned
          /\ returned' = TRUE
          /\ UNCHANGED <<vars, producers>>

PipeNext == \/ \E c \in Calls : Produce(c) \/ FinishSubmit(c) \/ SubmitExpires(c)
            \/ Write
            \/ Signal
            \/ WriterGone
            \/ ProducersStop
            \/ ProducersFail
            \/ CloseWriter
            \/ Return

(* Every goroutine of the binary is scheduled; only the signal may never   *)
(* come, a producer may never submit again and need not fail.              *)
PipeSpec == /\ PipeInit
            /\ [][PipeNext]_pipeVars
            /\ WF_pipeVars(Write)
            /\ WF_pipeVars(WriterGone)
            /\ WF_pipeVars(ProducersStop)
            /\ WF_pipeVars(CloseWriter)
            /\ WF_pipeVars(Return)
            /\ \A c \in Calls : WF_pipeVars(FinishSubmit(c))

-----------------------------------------------------------------------------
(* A binary that returns without a write error has written every row any   *)
(* of its producers was told was accepted, the ones handed over while the  *)
(* signal was being handled included.                                      *)
NothingStranded ==
    returned /\ err = "none" => \A c \in Calls : calls[c] = "accepted" => db[KeyOf[c]] = 1

(* The binary ends when it is told to, when its writer dies and when its   *)
(* producers do: it never sits alive with a dead database.                 *)
AlwaysExits == (producersDone \/ err = "fatal" \/ producers = "stopped") ~> returned

(* A row a producer was told was accepted reaches the table while the      *)
(* binary runs, or the binary ends with a write error.                     *)
AcceptedEventuallyLands ==
    \A c \in Calls : (calls[c] = "accepted") ~> (db[KeyOf[c]] = 1 \/ err = "fatal")
=============================================================================
