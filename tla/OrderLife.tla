------------------------------ MODULE OrderLife ------------------------------
(***************************************************************************)
(* What every holder of an order promises about it, whatever reports it    *)
(* is fed: NEW -> PARTIAL* -> FILLED | CANCELED | REJECTED, sequenced by   *)
(* the filled quantity, which only ever rises (the header comment of       *)
(* internal/exec/statemachine.go and the ExecState vocabulary of           *)
(* internal/carry/venue.go).  The tracker of the carry binary and the      *)
(* fill engine of the simulated venue both implement this specification.   *)
(***************************************************************************)
EXTENDS Naturals

CONSTANT OrderID            \* the client-assigned order identifiers

VARIABLES state,            \* state[o]: where order o is in its life
          cum               \* cum[o]:   how much of order o has been filled

lifeVars == <<state, cum>>

(* "NONE" is an order nobody has heard of; "PENDING" is handed over and    *)
(* not yet answered.  The others, NEW, PARTIAL and these, are the five     *)
(* values of carry.ExecState.                                              *)
Closed == {"CANCELED", "REJECTED"}
Ends   == Closed \cup {"FILLED"}

LifeInit == /\ state = [o \in OrderID |-> "NONE"]
            /\ cum = [o \in OrderID |-> 0]

(* Order o goes to state s; every other order is left alone.              *)
Moves(o, s) == /\ state' = [state EXCEPT ![o] = s]
               /\ cum' = [cum EXCEPT ![o] = cum'[o]]
               /\ cum'[o] \in Nat

(* An order is handed over and waits for its first answer.                 *)
Hand(o) == state[o] = "NONE" /\ Moves(o, "PENDING") /\ cum'[o] = 0

(* The order is acknowledged; only a first answer can do that.             *)
Acknowledge(o) == state[o] \in {"NONE", "PENDING"} /\ Moves(o, "NEW")

(* A partial fill: the filled quantity strictly rises.                     *)
Partial(o) == /\ state[o] \notin Ends
              /\ Moves(o, "PARTIAL")
              /\ cum'[o] > cum[o]

(* The order ends, having filled no less than was known.                   *)
End(o) == /\ state[o] \notin Ends
          /\ \E e \in Ends : Moves(o, e)
          /\ cum'[o] >= cum[o]

LifeNext == \E o \in OrderID : Hand(o) \/ Acknowledge(o) \/ Partial(o) \/ End(o)

LifeSpec == LifeInit /\ [][LifeNext]_lifeVars
=============================================================================
