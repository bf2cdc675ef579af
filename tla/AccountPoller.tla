--------------------------- MODULE AccountPoller ----------------------------
(***************************************************************************)
(* cb_account_state: AccountPoller (account.go) over the authenticated     *)
(* reads of coinbase.Client (coinbase/account.go).  A poll is three        *)
(* requests one after the other while the account moves between them; the  *)
(* first one decides whether there is a row, the others may only leave     *)
(* their columns out of it.                                                *)
(***************************************************************************)
EXTENDS Integers, Sequences

CONSTANTS
    Margins,    \* what the balance summary may show
    Positions,  \* signed contracts of the perp the account may hold
    Intraday,   \* whether intraday margin may be on: a set of Booleans
    Null

AccountPollerAssumption ==
    /\ Positions \subseteq Int /\ Intraday \subseteq BOOLEAN
    /\ Null \notin Margins /\ Null \notin Positions /\ Null \notin BOOLEAN

VARIABLES
    account,   \* the account as it is: margin, contracts, intraday
    api,       \* whether Coinbase answers: "up" or "down"
    canceled, writer,   \* the root context; "up", "full" or "gone"
    pc,        \* the poll
    row,       \* the row so far
    warned,    \* AccountPoller.warned
    held,      \* history: what the account was since the poll began
    outage,    \* history: warnings in the run of failed polls, 0 outside it
    failing,   \* history: the last poll failed
    wrote      \* history: the last poll wrote its row

poller  == <<pc, row, warned>>
history == <<held, outage, failing, wrote>>
world   == <<account, api, canceled, writer>>
vars    == <<world, poller, history>>

NoRow == [margin |-> Null, contracts |-> Null, pnl |-> Null, intraday |-> Null]
Accounts == [margin : Margins, contracts : Positions, intraday : Intraday]
now(a) == [margin |-> {a.margin}, contracts |-> {a.contracts}, intraday |-> {a.intraday}]

Init ==
    /\ account \in Accounts /\ api = "up" /\ canceled = FALSE /\ writer = "up"
    /\ pc = "wait" /\ row = NoRow /\ warned = FALSE
    /\ held = now(account) /\ outage = 0 /\ failing = FALSE /\ wrote = FALSE

-----------------------------------------------------------------------------
(* The account, the venue's API and the rest of the process.               *)

AccountMoves ==
    /\ account' \in Accounts \ {account}
    /\ held' = [k \in DOMAIN held |-> held[k] \cup {account'[k]}]
    /\ UNCHANGED <<api, canceled, writer, poller, outage, failing, wrote>>

World ==
    /\ \/ api' \in {"up", "down"} \ {api} /\ UNCHANGED <<canceled, writer>>
       \/ ~canceled /\ canceled' = TRUE /\ UNCHANGED <<api, writer>>
       \/ writer # "gone" /\ writer' \in {"up", "full", "gone"} \ {writer} /\ UNCHANGED <<api, canceled>>
    /\ UNCHANGED <<account, poller, history>>

-----------------------------------------------------------------------------
(* coinbase.Client: what a reply says, or Null for an error.               *)

(* A position is a magnitude and a side; no position is no entry.          *)
listed(c) ==
    CASE c = 0 -> <<>>
      [] c < 0 -> <<[n |-> -c, side |-> "SHORT"]>>
      [] OTHER -> <<[n |-> c, side |-> "LONG"]>>

signedContracts(n, side) ==
    CASE side = "SHORT" -> -n
      [] side = "LONG"  -> n
      [] OTHER          -> Null

(* The setting's name; anything but the two known ones is unknown.         *)
setting(on) == IF on THEN "INTRADAY" ELSE "STANDARD"
classifyIntradayMargin(name) ==
    CASE name = "STANDARD" -> FALSE
      [] name = "INTRADAY" -> TRUE
      [] OTHER             -> Null

-----------------------------------------------------------------------------
(* runOnBoundary: a boundary comes, or the context ends.                   *)
PollBegin ==
    /\ pc = "wait" /\ ~canceled
    /\ pc' = "balance" /\ row' = NoRow
    /\ held' = now(account) /\ wrote' = FALSE
    /\ UNCHANGED <<world, warned, outage, failing>>

Stop ==
    /\ pc = "wait" /\ canceled
    /\ pc' = "stopped"
    /\ UNCHANGED <<world, row, warned, history>>

(* A balance summary that was read ends the outage.                        *)
cleared == FALSE

BalanceSummary ==
    /\ pc = "balance" /\ api = "up" /\ ~canceled
    /\ row' = [row EXCEPT !.margin = account.margin, !.pnl = "account"]
    /\ warned' = cleared
    /\ pc' = "positions"
    /\ outage' = 0 /\ failing' = FALSE
    /\ UNCHANGED <<world, held, wrote>>

(* A failure of the venue leaves the row to the next boundary.             *)
degrade == pc' = IF canceled THEN "stopped" ELSE "wait"

BalanceFails ==
    /\ pc = "balance" /\ (api = "down" \/ canceled)
    /\ degrade
    /\ warned' = (warned \/ ~canceled)
    /\ outage' = IF ~warned /\ ~canceled THEN outage + 1 ELSE outage
    /\ failing' = (failing \/ ~canceled)
    /\ UNCHANGED <<world, row, held, wrote>>

(* The perp's position, if it is listed; a side outside the vocabulary, on *)
(* any product, fails the whole read.  A position's own PnL is preferred.  *)
ReadPositions ==
    /\ pc = "positions" /\ pc' = "margin"
    /\ \/ /\ api = "up" /\ ~canceled
          /\ \E havePnL \in BOOLEAN :
               row' = IF listed(account.contracts) = <<>> THEN row
                      ELSE LET p == listed(account.contracts)[1] IN
                           [row EXCEPT !.contracts = signedContracts(p.n, p.side),
                                       !.pnl = IF havePnL THEN "position" ELSE @]
       \/ UNCHANGED row
    /\ UNCHANGED <<world, warned, history>>

(* The setting, or a reply that does not name it.                          *)
ReadIntradayMargin ==
    /\ pc = "margin" /\ pc' = "submit"
    /\ \/ /\ api = "up" /\ ~canceled
          /\ \E name \in {setting(account.intraday), "", "UNSPECIFIED"} :
               row' = [row EXCEPT !.intraday = classifyIntradayMargin(name)]
       \/ UNCHANGED row
    /\ UNCHANGED <<world, warned, history>>

(* A full queue is waited for; a writer that has gone ends the poller.     *)
submit ==
    /\ pc = "submit"
    /\ \/ writer = "up" /\ pc' = "wait" /\ wrote' = TRUE
       \/ (writer = "gone" \/ canceled) /\ pc' = "stopped" /\ UNCHANGED wrote
    /\ UNCHANGED <<world, row, warned, held, outage, failing>>

Poll == PollBegin \/ Stop \/ BalanceSummary \/ BalanceFails \/ ReadPositions
            \/ ReadIntradayMargin \/ submit

Next == AccountMoves \/ World \/ Poll

(* The goroutine runs; a boundary comes and a request ends.                *)
Spec == Init /\ [][Next]_vars /\ WF_vars(Poll)

-----------------------------------------------------------------------------
(* Every column of a row that is written was true of the account between   *)
(* the row's boundary and its writing: none survives from an earlier poll, *)
(* the sign of a position is right, and a margin setting that was not read *)
(* is not recorded as off (Poll, signedContracts, classifyIntradayMargin). *)
RowIsTrue ==
    wrote => /\ row.margin \in held.margin
             /\ row.contracts \in held.contracts \cup {Null}
             /\ row.intraday \in held.intraday \cup {Null}

(* A run of failed polls is reported once, however long it is, and the     *)
(* next one is reported again (AccountPoller.degrade, warned).             *)
OutageToldOnce == (failing => outage = 1) /\ (~failing => outage = 0)

(* When the venue answers again, rows come again: no failure of the venue  *)
(* ends the poller (AccountPoller.degrade).                                *)
Working == api = "up" /\ writer = "up" /\ ~canceled
KeepsPolling == <>[]Working => []<>wrote
=============================================================================
