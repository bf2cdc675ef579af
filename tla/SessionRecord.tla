--------------------------- MODULE SessionRecord ----------------------------
(***************************************************************************)
(* The record sim-venue keeps of its FIX session: sessionRecorder          *)
(* (session.go), the sequence numbers and counters of msgCounter           *)
(* (counting.go) and the upsert of FIXSessionRow on (session_id,           *)
(* started_at).                                                            *)
(*                                                                         *)
(* OnLogon and OnLogout run on the session's goroutine, one after the      *)
(* other; messages are counted on it and on the engine's.  A callback      *)
(* changes the recorder under its mutex and writes the row afterwards, so  *)
(* a number can be counted in between.                                     *)
(***************************************************************************)
EXTENDS Integers

CONSTANTS
    MaxNow,      \* bound on the callbacks, whose times name the rows
    MaxSeqNum,   \* bound on sequence numbers
    MaxResends,  \* bound on the recoveries counted
    MaxInt32,    \* the largest number the column holds
    MaxLives     \* processes of sim-venue

SessionRecordAssumption ==
    {MaxNow, MaxSeqNum, MaxResends, MaxInt32} \subseteq Nat /\ MaxLives \in Nat \ {0}

VARIABLES
    now, life,
    up,          \* the session, and fix_session_up
    startedAt,   \* recorder: first logon of this process, 0 before it
    disconnects, \* recorder: logouts of this process
    seqIn, seqOut,    \* the library's numbers, which outlive a process
    lastIn, lastOut,  \* counter: highest number seen each way
    resends,     \* fix_resend_events_total
    pending,     \* the row a callback is about to write, or NoRow
    rows,        \* the table, by started_at
    logons,      \* history: started_at of the rows logons wrote, by process
    orphans      \* history: started_at of the rows refused handshakes wrote

counterVars == <<seqIn, seqOut, lastIn, lastOut, resends>>
sessionVars == <<up, startedAt, disconnects>>
vars == <<now, life, sessionVars, counterVars, pending, rows, logons, orphans>>

Null   == -1
NoRow  == [started |-> 0, ended |-> Null, disconnects |-> 0]
Absent == [ended |-> Null, disconnects |-> Null, in |-> Null, out |-> Null]
Written(k) == rows[k] # Absent

(* Zero is nothing yet; a number past the column is left out.              *)
seqColumn(n) == IF n <= 0 \/ n > MaxInt32 THEN Null ELSE n

noteLatest(last, n) == n
(* The highest number seen: a resend replays earlier ones.                 *)
noteSeqNum(last, n) == IF n > last THEN n ELSE last

Init ==
    /\ now = 1 /\ life = 1
    /\ up = FALSE
    /\ startedAt = 0 /\ disconnects = 0
    /\ seqIn = 0 /\ seqOut = 0 /\ lastIn = 0 /\ lastOut = 0 /\ resends = 0
    /\ pending = NoRow
    /\ rows = [k \in 1..MaxNow |-> Absent]
    /\ logons = [l \in 1..MaxLives |-> {}]
    /\ orphans = {}

Idle == pending = NoRow

-----------------------------------------------------------------------------
(* ToAdmin, ToApp, FromAdmin, FromApp: the next number, or an earlier one  *)
(* that is being replayed.  A ResendRequest is counted as a recovery.      *)
CountIn(n, isResend) ==
    /\ up /\ n <= seqIn + 1
    /\ seqIn' = IF n > seqIn THEN n ELSE seqIn
    /\ lastIn' = noteSeqNum(lastIn, n)
    /\ resends' = resends + (IF isResend /\ resends < MaxResends THEN 1 ELSE 0)
    /\ UNCHANGED <<now, life, sessionVars, seqOut, lastOut, pending, rows, logons, orphans>>

CountOut(n) ==
    /\ n <= seqOut + 1
    /\ seqOut' = IF n > seqOut THEN n ELSE seqOut
    /\ lastOut' = noteSeqNum(lastOut, n)
    /\ UNCHANGED <<now, life, sessionVars, seqIn, lastIn, resends, pending, rows, logons, orphans>>

(* OnLogon: the gauge, then the record is opened or reopened.              *)
logon ==
    /\ Idle /\ ~up /\ now < MaxNow
    /\ now' = now + 1
    /\ up' = TRUE
    /\ startedAt' = IF startedAt = 0 THEN now ELSE startedAt
    /\ pending' = [started |-> startedAt', ended |-> Null, disconnects |-> disconnects]
    /\ logons' = [logons EXCEPT ![life] = @ \cup {startedAt'}]
    /\ UNCHANGED <<life, disconnects, counterVars, rows, orphans>>

(* OnLogout: the session was up, or a handshake was refused.  Before the   *)
(* first logon the latter gets a row of its own and starts nothing.        *)
logout ==
    /\ Idle /\ now < MaxNow
    /\ now' = now + 1
    /\ up' = FALSE
    /\ disconnects' = disconnects + 1
    /\ pending' = [started |-> IF startedAt = 0 THEN now ELSE startedAt,
                   ended |-> now, disconnects |-> disconnects']
    /\ orphans' = IF startedAt = 0 THEN orphans \cup {now} ELSE orphans
    /\ UNCHANGED <<life, startedAt, counterVars, rows, logons>>

(* A NULL number on the incoming row means no newer value.                 *)
upsert(old, new) ==
    [new EXCEPT !.in = IF @ = Null THEN old.in ELSE @,
                !.out = IF @ = Null THEN old.out ELSE @]

(* The row goes to the writer with the numbers as they are by now.         *)
write ==
    /\ ~Idle
    /\ rows' = [rows EXCEPT ![pending.started] =
                   upsert(@, [ended |-> pending.ended, disconnects |-> pending.disconnects,
                              in |-> seqColumn(lastIn), out |-> seqColumn(lastOut)])]
    /\ pending' = NoRow
    /\ UNCHANGED <<now, life, sessionVars, counterVars, logons, orphans>>

(* recordTimeout passed or the writer is gone: logged and nothing more.    *)
writeFails ==
    /\ ~Idle
    /\ pending' = NoRow
    /\ UNCHANGED <<now, life, sessionVars, counterVars, rows, logons, orphans>>

(* A new process, on the library's stored numbers.                         *)
Restart ==
    /\ life < MaxLives
    /\ life' = life + 1
    /\ up' = FALSE
    /\ startedAt' = 0 /\ disconnects' = 0
    /\ lastIn' = 0 /\ lastOut' = 0 /\ resends' = 0
    /\ pending' = NoRow
    /\ UNCHANGED <<now, seqIn, seqOut, rows, logons, orphans>>

Next == \/ logon \/ logout \/ write \/ writeFails \/ Restart
        \/ \E n \in 1..MaxSeqNum : \/ \E isResend \in BOOLEAN : CountIn(n, isResend)
                                   \/ CountOut(n)

Spec == Init /\ [][Next]_vars

-----------------------------------------------------------------------------
(* One row covers one process's whole session: every logon of a process    *)
(* writes the row its first logon opened, and neither another process nor  *)
(* a handshake refused before it writes that row.                          *)
OneRowPerRun ==
    \A l \in 1..MaxLives :
        /\ \A k, m \in logons[l] : k = m
        /\ logons[l] \cap orphans = {}
        /\ \A k \in 1..MaxLives : k # l => logons[k] \cap logons[l] = {}

(* A row's disconnects and its sequence numbers only rise, through         *)
(* reconnects, resends and numbers the column cannot hold.                 *)
Rises(k) == /\ rows[k]'.disconnects >= rows[k].disconnects
            /\ rows[k]'.in >= rows[k].in
            /\ rows[k]'.out >= rows[k].out

(* What the API specification says of a row that stays open: the session   *)
(* is up, or its process died.                                             *)
OpenRowIsTrue ==
    Idle => \A k \in logons[life] : Written(k) /\ rows[k].ended = Null => up
=============================================================================
