---------------------------- MODULE MCOrderEntry ----------------------------
(***************************************************************************)
(* carry and sim-venue over their FIX session, for TLC: what happens to an *)
(* order (OrderEntry) and to the record sim-venue keeps of the session     *)
(* (R).  The record is written and never read back, so a behaviour runs    *)
(* one of the two and the other rests where it starts.                     *)
(***************************************************************************)
EXTENDS OrderEntry, TLC

CONSTANTS
    o1, o2,
    MaxNow, MaxSeqNum, MaxResends, MaxInt32, MaxRecorders  \* of the record

VARIABLES
    part,  \* what this behaviour runs: "orders" or "record"
    now, rlife, up, startedAt, disconnects, seqIn, seqOut, lastIn, lastOut, resends, pending,
    rows, logons, orphans

(* An order the venue works and one it cannot.                             *)
TwoOrders == {o1, o2}
ALimit    == [leg |-> "perp", side |-> "BUY", qty |-> 2, px |-> 1, type |-> "LIMIT", tif |-> "GTC"]
PostOnly  == [ALimit EXCEPT !.tif = "ALO"]
MixedTerms == (o1 :> ALimit) @@ (o2 :> PostOnly)

R == INSTANCE SessionRecord WITH MaxLives <- MaxRecorders, life <- rlife

ASSUME SessionAssumption == R!SessionRecordAssumption

recordVars == <<now, rlife, up, startedAt, disconnects, seqIn, seqOut, lastIn, lastOut, resends,
                pending, rows, logons, orphans>>

SessionInit ==
    /\ part \in {"orders", "record"}
    /\ Init
    /\ R!Init

SessionNext ==
    \/ part = "orders" /\ Next   /\ UNCHANGED <<part, recordVars>>
    \/ part = "record" /\ R!Next /\ UNCHANGED <<part, vars>>

orders(A) == part = "orders" /\ A

(* The fairness of FairSpec, where the orders run.                         *)
SessionSpec ==
    /\ SessionInit /\ [][SessionNext]_<<part, vars, recordVars>>
    /\ WF_vars(orders(Logon)) /\ WF_vars(orders(OnLogon))
    /\ WF_vars(orders(SendQueued)) /\ WF_vars(orders(OnLogout))
    /\ WF_vars(orders(FromAppTakes)) /\ WF_vars(orders(deliver))
    /\ WF_vars(orders(deliverTimeout)) /\ WF_vars(orders(Received))
    /\ WF_vars(orders(Drain)) /\ WF_vars(orders(Venue))
    /\ WF_vars(orders(Stopped)) /\ WF_vars(orders(Exit(FALSE))) /\ WF_vars(orders(Start))
    /\ WF_vars(orders(venue = "stopped" /\ VenueRestarts))

-----------------------------------------------------------------------------
(* The record is sound after every write: one row covers one process's     *)
(* whole session, which neither another process nor a refused handshake    *)
(* writes, and its disconnects and sequence numbers only rise, through     *)
(* reconnects, resends and numbers the column cannot hold                  *)
(* (sessionRecorder, noteSeqNum, seqColumn).                               *)
RecordIsSound ==
    [][R!OneRowPerRun' /\ \A k \in 1..MaxNow : R!Written(k) => R!Rises(k)]_recordVars
=============================================================================
