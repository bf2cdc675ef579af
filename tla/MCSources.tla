----------------------------- MODULE MCSources ------------------------------
(***************************************************************************)
(* The sources that poll, and what every source must not do: stop, or fail *)
(* to stop.  The Base poller (BasePoller), the account poller (A) and the  *)
(* level2 stream under its liveness constants (L) share no state, so a     *)
(* behaviour runs one of them and the others rest where they start.        *)
(***************************************************************************)
EXTENDS BasePoller, Sequences

CONSTANTS Null, Margins, Positions, Intraday  \* of the account poller

VARIABLES
    part,  \* what this behaviour runs: "base", "account" or "stream"
    account, api, acanceled, awriter, apc, arow, awarned, held, outage, failing, wrote,
    now, ctx, sink, vbook, moves, dials, conn, wire, spc, attempt, delay, waited, lived,
    haveSeq, lastSeq, lastData, gapOpen, book, ready, lastSnap, lastUpdate, srow,
    gapHere, droughtGaps

Pool(deployed, pair, ethIsToken0, initialized) ==
    [deployed |-> deployed, pair |-> pair, ethIsToken0 |-> ethIsToken0, initialized |-> initialized]

Usdc(deployed, dec) == [deployed |-> deployed, dec |-> dec]

(* The two columns are read independently of each other, so each kind of   *)
(* pool is paired with one kind of token.                                  *)
Deployments == {<<Pool(TRUE, TRUE, TRUE, TRUE), Usdc(TRUE, 1)>>,
                <<Pool(TRUE, TRUE, FALSE, TRUE), Usdc(FALSE, 1)>>,
                <<Pool(TRUE, FALSE, TRUE, TRUE), Usdc(TRUE, 1)>>,
                <<Pool(TRUE, TRUE, TRUE, FALSE), Usdc(TRUE, 5)>>}
AllPools == {d[1] : d \in Deployments}
AllUsdcs == {d[2] : d \in Deployments}

(* An account that moves between a long, a short and no position.          *)
AnyPosition == {-2, 0, 1}
A == INSTANCE AccountPoller WITH
       canceled <- acanceled, writer <- awriter, pc <- apc, row <- arow, warned <- awarned

(* A quiet connection and a cancellation at any moment, delays of two      *)
(* units.                                                                  *)
L == INSTANCE BookStream WITH
       Prices <- {1}, OpeningBooks <- {[l \in {<<"bid", 1>>} |-> 1]}, MaxQty <- 1, bookDepth <- 1,
       Interval <- 2, Quiet <- 1, readTimeout <- 2, backoffResetAfter <- 2,
       BackoffBase <- 1, BackoffMax <- 3,
       MaxTime <- 3, MaxFrames <- 1, MaxInFlight <- 1, MaxMoves <- 0, MaxDials <- 2,
       pc <- spc, row <- srow

ASSUME SourcesAssumption == A!AccountPollerAssumption /\ L!BookStreamAssumption

accountVars == <<account, api, acanceled, awriter, apc, arow, awarned, held, outage, failing, wrote>>
streamVars  == <<now, ctx, sink, vbook, moves, dials, conn, wire, spc, attempt, delay, waited, lived,
                 haveSeq, lastSeq, lastData, gapOpen, book, ready, lastSnap, lastUpdate, srow,
                 gapHere, droughtGaps>>

SourcesInit ==
    /\ part \in {"base", "account", "stream"}
    /\ Init
    /\ A!Init
    /\ L!Init
    /\ <<pool, usdc>> \in Deployments
    /\ part # "base" => ~healthy /\ ~pool.initialized
    /\ part # "account" => account = CHOOSE a \in A!Accounts : TRUE

SourcesNext ==
    \/ part = "base"    /\ Next   /\ UNCHANGED <<part, accountVars, streamVars>>
    \/ part = "account" /\ A!Next /\ UNCHANGED <<part, vars, streamVars>>
    \/ part = "stream"  /\ L!Next /\ UNCHANGED <<part, vars, accountVars>>

(* The fairness of Spec, A!Spec and L!Spec, each for the source that runs. *)
SourcesSpec ==
    /\ SourcesInit /\ [][SourcesNext]_<<part, vars, accountVars, streamVars>>
    /\ WF_vars(part = "base" /\ Poll)
    /\ WF_accountVars(part = "account" /\ A!Poll)
    /\ WF_streamVars(part = "stream" /\ L!StreamStep)
    /\ WF_streamVars(part = "stream" /\ L!AdvanceClock)

-----------------------------------------------------------------------------
(* A polled row is true: a Base row is the chain at the one block the poll *)
(* pinned, read from the right contracts, and every column of an account   *)
(* row was true of the account between the row's boundary and its writing  *)
(* (BasePoller.Poll, resolveLayout, decimalsOf, AccountPoller.Poll,        *)
(* signedContracts).                                                       *)
RowsAreTrue == RowIsOneBlock /\ RightContracts /\ A!RowIsTrue

(* A loss is told, and told once: of both price sources of a Base row, and *)
(* of the account endpoint however long it fails (spotPx, warn, degrade).  *)
LossesAreTold == LossIsTold /\ A!OutageToldOnce

(* When the node or the venue answers again, priced rows and account rows  *)
(* come again: no failure of theirs ends the poller (poolLayout,           *)
(* tokenDecimals, AccountPoller.degrade).                                  *)
SourcesComeBack == PriceReturns /\ (part = "account" => A!KeepsPolling)

(* A stream is never stuck: a peer that has gone away without closing is   *)
(* left within the read deadline, and a canceled stream returns from a     *)
(* read, a dial or a backoff delay (Stream.session, Run, sleepCtx).        *)
NeverStuck == L!DeadSocketLeft /\ L!StreamStops
=============================================================================
