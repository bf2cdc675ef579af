----------------------------- MODULE VenueCache -----------------------------
(***************************************************************************)
(* carry's read model: venue.Cache (state.go, run.go) over the newest-row  *)
(* reads of db.Reader (latest.go).  One goroutine refreshes: it reads the  *)
(* sources one after another, and the clock, the feeds and the database    *)
(* move between two reads.  A failed read keeps the row it had.            *)
(*                                                                         *)
(* Times are kept as ages, capped where no rule can tell them apart, so    *)
(* the clock needs no bound.  A row is its age; Missing is no row.         *)
(***************************************************************************)
EXTENDS Integers, Sequences

CONSTANTS
    Reads,       \* the sources in the order Refresh reads them
    Market,      \* the sources FeedOK looks at
    Polled,      \* the sources TradeOK looks at as well
    StaleAfter,  \* STALE_FEED_SECS
    Every,       \* the refresh interval, which also bounds one refresh
    Beat         \* a feed writes at least this often while it works

Sources == {Reads[i] : i \in DOMAIN Reads}
Missing == -1
Cap     == StaleAfter + 2 * Every + 1

ASSUME VenueCacheAssumption ==
    /\ Reads \in Seq(STRING) /\ Reads # <<>>
    /\ Market \cup Polled \subseteq Sources
    /\ StaleAfter \in Nat /\ Every \in Nat \ {0} /\ Beat \in Nat

VARIABLES
    db,      \* age of the newest row of each source in its table
    answers, \* how the database answers: "at once", "slowly" or "never"
    pc,      \* the refresh goroutine: "reading" or "waiting"
    at,      \* which read Refresh is at
    since,   \* time since the refresh began
    next,    \* the state Refresh is assembling, as row ages
    rows,    \* the published state, as row ages
    stale    \* the published flags

vars == <<db, answers, pc, at, since, next, rows, stale>>

Ages   == 0..Cap
RowAge == Ages \cup {Missing}

older(a) == IF a = Missing \/ a = Cap THEN a ELSE a + 1

(* Missing, or past the limit; a row exactly on it is not past it.         *)
isStale(a) == a = Missing \/ a > StaleAfter

FeedOK  == \A s \in Market : ~stale[s]
TradeOK == FeedOK /\ \A s \in Polled : ~stale[s]

(* New: nothing is known, and the flags say so.  Run refreshes at once.    *)
Init ==
    /\ db \in [Sources -> {0, Missing}]
    /\ answers = "at once"
    /\ pc = "reading" /\ at = 1 /\ since = 0
    /\ next = [s \in Sources |-> Missing]
    /\ rows = [s \in Sources |-> Missing]
    /\ stale = [s \in Sources |-> TRUE]

-----------------------------------------------------------------------------
(* Refresh.                                                                *)

Begin ==
    /\ pc = "waiting" /\ since = Every
    /\ pc' = "reading" /\ at' = 1 /\ since' = 0
    /\ next' = rows
    /\ UNCHANGED <<db, answers, rows, stale>>

(* One read: the newest row, or the zero row when there is none.           *)
Read ==
    /\ pc = "reading" /\ at <= Len(Reads) /\ answers # "never"
    /\ next' = [next EXCEPT ![Reads[at]] = db[Reads[at]]]
    /\ at' = at + 1
    /\ UNCHANGED <<db, answers, pc, since, rows, stale>>

ReadFailsRetries ==
    /\ pc = "reading" /\ at <= Len(Reads)
    /\ answers = "never" \/ since = Every
    /\ at' = 1
    /\ UNCHANGED <<db, answers, pc, since, next, rows, stale>>
(* The read failed, or the refresh's interval has passed: the previous row *)
(* stays.                                                                  *)
ReadFails ==
    /\ pc = "reading" /\ at <= Len(Reads)
    /\ answers = "never" \/ since = Every
    /\ at' = at + 1
    /\ UNCHANGED <<db, answers, pc, since, next, rows, stale>>

PublishOnSuccess ==
    /\ pc = "reading" /\ at = Len(Reads) + 1
    /\ pc' = "waiting"
    /\ IF answers = "never" THEN UNCHANGED <<rows, stale>>
       ELSE rows' = next /\ stale' = [s \in Sources |-> isStale(next[s])]
    /\ UNCHANGED <<db, answers, at, since, next>>
(* Every source's flag is recomputed against the clock as it is now, the   *)
(* ones whose read failed included, and the state is swapped.              *)
Publish ==
    /\ pc = "reading" /\ at = Len(Reads) + 1
    /\ pc' = "waiting"
    /\ rows' = next
    /\ stale' = [s \in Sources |-> isStale(next[s])]
    /\ UNCHANGED <<db, answers, at, since, next>>

-----------------------------------------------------------------------------
(* The environment: feeds write and stop writing, a table is emptied, the  *)
(* database slows down, goes away and comes back.                          *)
Record(s) ==
    /\ db' = [db EXCEPT ![s] = 0]
    /\ UNCHANGED <<answers, pc, at, since, next, rows, stale>>

Delete(s) ==
    /\ db[s] # Missing
    /\ db' = [db EXCEPT ![s] = Missing]
    /\ UNCHANGED <<answers, pc, at, since, next, rows, stale>>

Answers ==
    /\ answers' \in {"at once", "slowly", "never"} \ {answers}
    /\ UNCHANGED <<db, pc, at, since, next, rows, stale>>

(* Time.  A refresh ends within its interval because its context does, and *)
(* the next begins with the ticker; a database that answers at once        *)
(* answers within a unit of time.                                          *)
Tick ==
    /\ since < Every
    /\ pc = "reading" => answers = "slowly"
    /\ since' = since + 1
    /\ db' = [s \in Sources |-> older(db[s])]
    /\ next' = [s \in Sources |-> older(next[s])]
    /\ rows' = [s \in Sources |-> older(rows[s])]
    /\ UNCHANGED <<answers, pc, at, stale>>

Refresh == Begin \/ Read \/ ReadFails \/ Publish
Next == \/ Refresh
        \/ Answers
        \/ Tick
        \/ \E s \in Sources : Record(s) \/ Delete(s)

Spec == Init /\ [][Next]_vars

(* The goroutine is scheduled and time passes; nothing obliges a feed to   *)
(* write or the database to answer.                                        *)
FairSpec == Spec /\ WF_vars(Refresh) /\ WF_vars(Tick)

-----------------------------------------------------------------------------
TypeOK ==
    /\ db \in [Sources -> RowAge] /\ next \in [Sources -> RowAge] /\ rows \in [Sources -> RowAge]
    /\ answers \in {"at once", "slowly", "never"}
    /\ pc \in {"reading", "waiting"}
    /\ at \in 1..(Len(Reads) + 1)
    /\ since \in 0..Every
    /\ stale \in [Sources -> BOOLEAN]

(* A source a reader of Latest finds fresh has a row, and at any moment,   *)
(* not only at the refresh, that row is at most two intervals past the     *)
(* limit: a frozen feed and a database that has stopped answering both     *)
(* trip the flag in bounded time.                                          *)
FreshIsFresh ==
    \A s \in Sources : ~stale[s] => rows[s] # Missing /\ rows[s] <= StaleAfter + 2 * Every

(* A database that has gone away for good blocks trading for good.         *)
OutageBlocks == []<>(answers # "never") \/ <>[](\A s \in Sources : stale[s])

(* The flags recover: once the database answers at once and every feed     *)
(* writes again, TradeOK returns and stays.                                *)
Healthy == answers = "at once" /\ \A s \in Sources : db[s] \in 0..Beat
Recovers == <>[]Healthy => <>[]TradeOK
=============================================================================
