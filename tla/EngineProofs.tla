---------------------------- MODULE EngineProofs ----------------------------
(***************************************************************************)
(* Machine-checked proofs about the fill engine, for every set of client   *)
(* order ids, every terms and books, every fill model and every bound.     *)
(***************************************************************************)
EXTENDS Engine, FiniteSetTheorems, WellFoundedInduction, TLAPS

-----------------------------------------------------------------------------
(* The inductive invariant, clause by clause.                              *)

(* A slice list is never empty, prints something with every slice, and is  *)
(* even but for its last slice, which carries the remainder of q.          *)
Sliced(s, q) ==
    /\ s \in Seq(Nat) /\ Len(s) > 0
    /\ \A i \in 1..Len(s) : s[i] > 0
    /\ \A i \in 1..Len(s) : i < Len(s) => s[i] = s[1]
    /\ s[Len(s)] = q - s[1] * (Len(s) - 1)

(* What has printed of an order is the sum of the slices before the next,  *)
(* and it has printed within its limit.                                    *)
WellFormed(o) ==
    /\ o.qty > 0 /\ Sliced(o.slices, o.qty)
    /\ o.next \in 1..(Len(o.slices) + 1)
    /\ o.cumQty = IF Done(o) THEN o.qty ELSE o.slices[1] * (o.next - 1)
    /\ WithinLimit(o)

(* An id nobody was heard of under holds no order; a known one holds an    *)
(* order of this life, minted by this life.                                *)
KnownOrders ==
    \A id \in ClOrdID :
        IF known(id)
        THEN /\ WellFormed(orders[id])
             /\ orders[id].orderID[1] = run
             /\ orders[id].orderID[2] \in 1..minted.orders
        ELSE orders[id] = NoOrder

(* No two ids share an order id.                                           *)
OrderIDsDistinct ==
    \A i, j \in ClOrdID :
        known(i) /\ known(j) /\ orders[i].orderID = orders[j].orderID => i = j

(* An order on the book has a slice left, and the ids of its fills so far  *)
(* are the numbers of its slices; an order that ended did so once.         *)
LiveOrders ==
    \A id \in live : /\ final[id] = "none"
                     /\ ~Done(orders[id])
                     /\ orders[id].execSeq = orders[id].next - 1
EndedOrders ==
    \A id \in ClOrdID : /\ final[id] = "FILLED" => Done(orders[id])
                        /\ final[id] = "CANCELED" => ~Done(orders[id])

(* A row names the life and the order it was printed in, none of them      *)
(* ahead of what this life has minted.                                     *)
FillRow == [execID : Nat \X Nat \X Nat, orderID : Nat \X Nat, qty : Nat, px : Int]
RowsMinted ==
    /\ rows \subseteq FillRow /\ IsFiniteSet(rows)
    /\ \A x \in rows : /\ x.execID[1] = x.orderID[1] /\ x.execID[2] = x.orderID[2]
                       /\ x.orderID[1] <= run
                       /\ x.orderID[1] = run => x.orderID[2] <= minted.orders

(* The rows of an order are numbered by its printed slices, so the next    *)
(* one is new; until the writer has refused one they add up to its fills.  *)
Total(S) == MapThenSumSet(LAMBDA x : x.qty, S)
RowsArePrinted ==
    \A id \in ClOrdID : known(id) =>
        \A x \in RowsOf(orders[id]) : x.execID[3] < orders[id].next
RowsSum ==
    err # "sink" =>
        \A id \in ClOrdID : known(id) => Total(RowsOf(orders[id])) = orders[id].cumQty

(* The engine has stopped when it has an error.                            *)
ErrorsStop == pc # "stopped" => err = "none"

EngineInv ==
    /\ TypeOK /\ ErrorsStop
    /\ KnownOrders /\ OrderIDsDistinct /\ LiveOrders /\ EndedOrders
    /\ RowsMinted /\ RowsArePrinted /\ RowsSum
    /\ ReportedIsRecorded /\ IOCNeverRests

-----------------------------------------------------------------------------
(* The operators of the model.                                             *)

(* A set of naturals that is not empty has a least element, and Min is it. *)
LEMMA MinOfNats ==
    ASSUME NEW S \in SUBSET Nat, S # {}
    PROVE  Min(S) \in S /\ \A y \in S : Min(S) <= y
<1>. DEFINE Below == OpToRel(<, Nat)
<1>1. IsWellFoundedOn(Below, Nat)
  BY NatLessThanWellFounded
<1>2. \A x, y \in Nat : y < x => <<y, x>> \in Below
  BY DEF OpToRel
<1>. HIDE DEF Below
<1>3. PICK x \in S : \A y \in S : ~ (<<y, x>> \in Below)
  BY <1>1, WFMin
<1>4. \A y \in S : ~(y < x)
  BY <1>2, <1>3, Zenon
<1>5. \A y \in S : x <= y
  BY <1>4
<1>. QED
  BY <1>5 DEF Min

-----------------------------------------------------------------------------
(* Totals of sets of rows.  The library's induction takes an operator,     *)
(* which the provers cannot instantiate; a least counterexample is a set.  *)

someRow(S)   == CHOOSE x \in S : TRUE

(* g holds the total of every subset of S, as MapThenSumSet computes it:   *)
(* some row of it, and the total of the others.                            *)
Totals(g, S) == g = [s \in SUBSET S |->
                       IF s = {} THEN 0 ELSE someRow(s).qty + g[s \ {someRow(s)}]]

(* A family of subsets of a finite set that is not empty has a member that *)
(* leaves it with any element taken out.                                   *)
LEMMA LeastSubset ==
    ASSUME NEW S, IsFiniteSet(S), NEW Bad \in SUBSET SUBSET S, Bad # {}
    PROVE  \E s \in Bad : \A x \in s : s \ {x} \notin Bad
<1>. DEFINE sizes == {Cardinality(s) : s \in Bad}
<1>1. \A s \in Bad : IsFiniteSet(s) /\ Cardinality(s) \in Nat
  BY FS_Subset, FS_CardinalityType
<1>2. sizes \in SUBSET Nat /\ sizes # {}
  BY <1>1
<1>3. PICK s \in Bad : \A t \in Bad : Cardinality(s) <= Cardinality(t)
  <2>1. Min(sizes) \in sizes /\ \A n \in sizes : Min(sizes) <= n
    BY <1>2, MinOfNats
  <2>. QED
    BY <2>1
<1>4. ASSUME NEW x \in s, s \ {x} \in Bad PROVE FALSE
  <2>1. Cardinality(s \ {x}) = Cardinality(s) - 1
    BY <1>1, FS_RemoveElement
  <2>. QED
    BY <1>1, <1>3, <1>4, <2>1
<1>. QED
  BY <1>4

LEMMA SomeRowIn == ASSUME NEW S, S # {} PROVE someRow(S) \in S
  BY DEF someRow

LEMMA TotalsUnique ==
    ASSUME NEW S, IsFiniteSet(S), NEW g, NEW h, Totals(g, S), Totals(h, S)
    PROVE  g = h
<1>. DEFINE Bad == {s \in SUBSET S : g[s] # h[s]}
<1>1. /\ g = [s \in SUBSET S |-> g[s]] /\ h = [s \in SUBSET S |-> h[s]]
      /\ \A s \in SUBSET S : /\ g[s] = IF s = {} THEN 0 ELSE someRow(s).qty + g[s \ {someRow(s)}]
                             /\ h[s] = IF s = {} THEN 0 ELSE someRow(s).qty + h[s \ {someRow(s)}]
  BY DEF Totals
<1>2. Bad = {}
  <2>. SUFFICES ASSUME Bad # {} PROVE FALSE
    OBVIOUS
  <2>1. PICK s \in Bad : \A x \in s : s \ {x} \notin Bad
    BY LeastSubset
  <2>2. s \in SUBSET S /\ g[s] # h[s] /\ s # {}
    BY <1>1, <2>1
  <2>3. g[s \ {someRow(s)}] = h[s \ {someRow(s)}]
    BY <2>1, <2>2, SomeRowIn
  <2>. QED
    BY <1>1, <2>2, <2>3
<1>. QED
  BY <1>1, <1>2

LEMMA TotalsRestrict ==
    ASSUME NEW S, NEW g, Totals(g, S), NEW T \in SUBSET S
    PROVE  Totals([s \in SUBSET T |-> g[s]], T)
<1>1. \A s \in SUBSET S : g[s] = IF s = {} THEN 0 ELSE someRow(s).qty + g[s \ {someRow(s)}]
  BY DEF Totals
<1>. QED
  BY <1>1 DEF Totals

LEMMA TotalsExist ==
    ASSUME NEW S, IsFiniteSet(S)
    PROVE  \E g : Totals(g, S)
<1>. DEFINE Bad == {s \in SUBSET S : ~\E g : Totals(g, s)}
<1>. SUFFICES ASSUME Bad # {} PROVE FALSE
  OBVIOUS
<1>1. PICK s \in Bad : \A x \in s : s \ {x} \notin Bad
  BY LeastSubset
<1>. DEFINE of(t)  == CHOOSE g : Totals(g, t)
            val(t) == of(t)[t]
            g == [t \in SUBSET s |-> IF t = s THEN IF s = {} THEN 0 ELSE someRow(s).qty + val(s \ {someRow(s)})
                                     ELSE val(t)]
<1>2. ASSUME NEW t \in SUBSET s, t # s PROVE Totals(of(t), t)
  <2>1. PICK x \in s : x \notin t
    BY <1>2
  <2>2. PICK h : Totals(h, s \ {x})
    BY <1>1, <2>1
  <2>3. t \in SUBSET (s \ {x})
    BY <2>1
  <2>4. \E k : Totals(k, t)
    BY <2>2, <2>3, TotalsRestrict
  <2>. QED
    BY <2>4
<1>3. ASSUME NEW t \in SUBSET s, t # s
      PROVE  val(t) = IF t = {} THEN 0 ELSE someRow(t).qty + val(t \ {someRow(t)})
  <2>1. Totals(of(t), t)
    BY <1>2, <1>3
  <2>2. val(t) = IF t = {} THEN 0 ELSE someRow(t).qty + of(t)[t \ {someRow(t)}]
    BY <2>1 DEF Totals
  <2>3. CASE t # {}
    <3>. DEFINE u == t \ {someRow(t)}
    <3>1. u \in SUBSET t /\ u \in SUBSET s /\ u # s /\ IsFiniteSet(u)
      BY <1>1, <1>3, FS_Subset
    <3>2. Totals(of(u), u)
      BY <1>2, <3>1
    <3>3. Totals([v \in SUBSET u |-> of(t)[v]], u)
      BY <2>1, <3>1, TotalsRestrict
    <3>4. of(u) = [v \in SUBSET u |-> of(t)[v]]
      BY <3>1, <3>2, <3>3, TotalsUnique
    <3>5. of(u)[u] = of(t)[u]
      BY <3>4
    <3>. QED
      BY <2>2, <2>3, <3>5
  <2>. QED
    BY <2>2, <2>3
<1>. HIDE DEF val
<1>4. g = [t \in SUBSET s |-> IF t = {} THEN 0 ELSE someRow(t).qty + g[t \ {someRow(t)}]]
  <2>1. ASSUME NEW t \in SUBSET s
        PROVE  g[t] = IF t = {} THEN 0 ELSE someRow(t).qty + g[t \ {someRow(t)}]
    <3>1. t # {} => t \ {someRow(t)} \in SUBSET s /\ t \ {someRow(t)} # s
      BY SomeRowIn
    <3>. QED
      BY <1>3, <3>1
  <2>2. g = [t \in SUBSET s |-> g[t]]
    OBVIOUS
  <2>. HIDE DEF g
  <2>. QED
    BY <2>1, <2>2
<1>. QED
  BY <1>1, <1>4 DEF Totals

(* Unfolding the definition of the fold once.                              *)
LEMMA TotalUnfolds ==
    ASSUME NEW S, IsFiniteSet(S)
    PROVE  Total(S) = IF S = {} THEN 0 ELSE someRow(S).qty + Total(S \ {someRow(S)})
<1>. DEFINE Iter(s) == CHOOSE g : Totals(g, s)
<1>1. \A s : Total(s) = Iter(s)[s]
  BY DEF Total, MapThenSumSet, MapThenFoldSet, Totals, someRow
<1>2. \A s \in SUBSET S : Totals(Iter(s), s)
  BY FS_Subset, TotalsExist
<1>. HIDE DEF Iter
<1>3. Iter(S)[S] = IF S = {} THEN 0 ELSE someRow(S).qty + Iter(S)[S \ {someRow(S)}]
  BY <1>2 DEF Totals
<1>4. CASE S # {}
  <2>. DEFINE u == S \ {someRow(S)}
  <2>1. u \in SUBSET S /\ IsFiniteSet(u)
    BY FS_Subset
  <2>2. Totals([v \in SUBSET u |-> Iter(S)[v]], u)
    BY <1>2, <2>1, TotalsRestrict
  <2>3. Iter(u) = [v \in SUBSET u |-> Iter(S)[v]]
    BY <1>2, <2>1, <2>2, TotalsUnique
  <2>4. Iter(u)[u] = Iter(S)[u]
    BY <2>3
  <2>. QED
    BY <1>1, <1>3, <1>4, <2>4
<1>. QED
  BY <1>1, <1>3, <1>4

LEMMA TotalIsInt ==
    ASSUME NEW S, IsFiniteSet(S), \A x \in S : x.qty \in Int
    PROVE  \A s \in SUBSET S : Total(s) \in Int
<1>. DEFINE Bad == {s \in SUBSET S : Total(s) \notin Int}
<1>. SUFFICES ASSUME Bad # {} PROVE FALSE
  OBVIOUS
<1>1. PICK s \in Bad : \A x \in s : s \ {x} \notin Bad
  BY LeastSubset
<1>2. Total(s) = IF s = {} THEN 0 ELSE someRow(s).qty + Total(s \ {someRow(s)})
  BY FS_Subset, TotalUnfolds
<1>. QED
  BY <1>1, <1>2, SomeRowIn

(* One row more adds its quantity.                                         *)
LEMMA TotalAdds ==
    ASSUME NEW S, IsFiniteSet(S), \A x \in S : x.qty \in Int, NEW r, r \notin S, r.qty \in Int
    PROVE  Total(S \cup {r}) = Total(S) + r.qty /\ Total(S) \in Int
<1>. DEFINE U   == S \cup {r}
            Bad == {s \in SUBSET U : \E x \in s : Total(s) # x.qty + Total(s \ {x})}
<1>1. IsFiniteSet(U) /\ \A x \in U : x.qty \in Int
  BY FS_AddElement
<1>0. \A s \in SUBSET U : Total(s) \in Int
  BY <1>1, TotalIsInt
<1>2. Bad = {}
  <2>. SUFFICES ASSUME Bad # {} PROVE FALSE
    OBVIOUS
  <2>. HIDE DEF U
  <2>1. PICK s \in Bad : \A x \in s : s \ {x} \notin Bad
    BY <1>1, LeastSubset
  <2>2. s \in SUBSET U /\ IsFiniteSet(s)
    BY <1>1, FS_Subset
  <2>3. \A x \in s : IsFiniteSet(s \ {x})
    BY <2>2, FS_RemoveElement
  <2>4. Total(s) = IF s = {} THEN 0 ELSE someRow(s).qty + Total(s \ {someRow(s)})
    BY <2>2, TotalUnfolds
  <2>5. \A x \in s : \A y \in s \ {x} : Total(s \ {x}) = y.qty + Total((s \ {x}) \ {y})
    BY <2>1, <2>2
  <2>6. s # {}
    BY <2>1
  <2>. DEFINE c == someRow(s)
  <2>7. c \in s /\ Total(s) = c.qty + Total(s \ {c})
    BY <2>4, <2>6, SomeRowIn
  <2>8. PICK x \in s : Total(s) # x.qty + Total(s \ {x})
    BY <2>1, <2>6
  <2>. HIDE DEF c
  <2>9. x # c /\ (s \ {x}) \ {c} = (s \ {c}) \ {x}
    BY <2>7, <2>8
  <2>10. Total(s \ {c}) = x.qty + Total((s \ {c}) \ {x})
    BY <2>5, <2>7, <2>9
  <2>11. Total(s \ {x}) = c.qty + Total((s \ {c}) \ {x})
    BY <2>5, <2>7, <2>9
  <2>12. x.qty \in Int /\ c.qty \in Int /\ Total(s \ {c}) \in Int /\ Total(s \ {x}) \in Int
        /\ Total((s \ {c}) \ {x}) \in Int
    BY <1>0, <1>1, <2>2, <2>7
  <2>. QED
    BY <2>7, <2>8, <2>10, <2>11, <2>12
<1>3. U \ {r} = S /\ S \in SUBSET U /\ U \in SUBSET U /\ r \in U
  OBVIOUS
<1>4. Total(S) \in Int /\ r.qty \in Int
  BY <1>0, <1>3
<1>5. Total(U) = r.qty + Total(U \ {r})
  BY <1>2, <1>3
<1>6. Total(U) = r.qty + Total(S)
  BY <1>3, <1>5, Zenon
<1>. HIDE DEF U
<1>7. Total(U) = Total(S) + r.qty
  BY <1>4, <1>6
<1>. QED
  BY <1>4, <1>7 DEF U

-----------------------------------------------------------------------------
(* The fill model.                                                         *)

(* sliceSizes cuts a quantity into slices that add up to it, none of them  *)
(* empty, whatever the threshold and the number of slices.                 *)
LEMMA SlicesCover ==
    ASSUME NEW q \in Nat, q > 0
    PROVE  Sliced(sliceSizes(q), q)
<1>. DEFINE k == IF PartialSlices > q THEN q ELSE PartialSlices
            base == q \div k
<1>1. CASE PartialSlices <= 1 \/ q <= PartialThreshold \/ k <= 1
  <2>1. sliceSizes(q) = <<q>>
    BY <1>1 DEF sliceSizes
  <2>. QED
    BY <2>1 DEF Sliced
<1>2. CASE ~(PartialSlices <= 1 \/ q <= PartialThreshold \/ k <= 1)
  <2>. DEFINE s == [i \in 1..k |-> IF i < k THEN base ELSE q - base * (k - 1)]
  <2>1. sliceSizes(q) = s
    BY <1>2 DEF sliceSizes
  <2>2. k \in Nat /\ k > 1 /\ k <= q
    BY <1>2, EngineAssumption
  <2>. HIDE DEF k
  <2>3. base \in Nat
    BY <2>2
  <2>4. base > 0
    BY <2>2
  <2>5. k * base <= q
    BY <2>2
  <2>. HIDE DEF base
  <2>6. base * (k - 1) \in Nat /\ base * (k - 1) + base <= q
    BY <2>2, <2>3, <2>5
  <2>7. q - base * (k - 1) \in Nat /\ q - base * (k - 1) > 0
    BY <2>3, <2>4, <2>6
  <2>8. s \in Seq(Nat) /\ Len(s) = k
    BY <2>2, <2>3, <2>7
  <2>. QED
    BY <2>1, <2>2, <2>3, <2>4, <2>7, <2>8 DEF Sliced
<1>. QED
  BY <1>1, <1>2

(* An order prints at no worse than its limit, and never below zero.       *)
LEMMA PriceKept ==
    ASSUME NEW o \in OrderType, NEW b \in [ts : Int, bid : Nat, ask : Nat]
    PROVE  /\ execPx(o, b) \in Nat
           /\ o.side = "buy" => execPx(o, b) <= o.limitPx * Scale
           /\ o.side # "buy" => execPx(o, b) >= o.limitPx * Scale
<1>1. /\ Scale + SlippageBps \in Nat /\ Scale - SlippageBps \in Nat
      /\ Scale \in Nat
  BY EngineAssumption DEF Scale
<1>2. o.limitPx \in Nat /\ b.ask \in Nat /\ b.bid \in Nat
  BY DEF OrderType
<1>3. /\ b.ask * (Scale + SlippageBps) \in Nat
      /\ b.bid * (Scale - SlippageBps) \in Nat
      /\ o.limitPx * Scale \in Nat
  BY <1>1, <1>2
<1>. QED
  BY <1>3 DEF execPx

(* The next slice of an order that has one leaves it well-formed, with     *)
(* strictly more of it filled.                                             *)
LEMMA SlicePrints ==
    ASSUME NEW o \in OrderType, WellFormed(o), ~Done(o),
           book \in [ts : Int, bid : Nat, ask : Nat]
    PROVE  /\ sliced(o) \in OrderType /\ WellFormed(sliced(o))
           /\ o.slices[o.next] \in Nat /\ o.slices[o.next] > 0
           /\ execPx(o, book) \in Nat
           /\ sliced(o).cumQty = o.cumQty + o.slices[o.next]
           /\ sliced(o) = [o EXCEPT !.next = o.next + 1, !.cumQty = sliced(o).cumQty,
                                    !.notional = sliced(o).notional, !.execSeq = o.execSeq + 1]
<1>. DEFINE q == o.slices[o.next]
            px == execPx(o, book)
            limit == o.limitPx * Scale
            p == sliced(o)
<1>. HIDE DEF q, px, limit, p
<1>1. /\ o.next \in 1..Len(o.slices) /\ o.slices \in Seq(Nat) /\ Len(o.slices) \in Nat
      /\ q \in Nat /\ q > 0
  <2>1. o.slices \in Seq(Nat) /\ Len(o.slices) \in Nat
    BY DEF OrderType
  <2>2. o.next \in 1..Len(o.slices)
    BY <2>1 DEF WellFormed, Done
  <2>3. q > 0
    BY <2>2 DEF WellFormed, Sliced, q
  <2>. QED
    BY <2>1, <2>2, <2>3 DEF q
<1>2. px \in Nat /\ (o.side = "buy" => px <= limit) /\ (o.side # "buy" => px >= limit)
  BY PriceKept DEF px, limit
<1>3. limit \in Nat /\ o.cumQty \in Nat /\ o.notional \in Nat /\ o.execSeq \in Nat
  BY DEF OrderType, Scale, limit
<1>4. p = [o EXCEPT !.next = o.next + 1, !.cumQty = o.cumQty + q,
                    !.notional = o.notional + px * q, !.execSeq = o.execSeq + 1]
  BY DEF sliced, q, px, p
<1>5. px * q \in Nat
  BY <1>1, <1>2
<1>6. p \in OrderType
  <2>1. o.next + 1 \in Nat
    BY <1>1
  <2>2. o.cumQty + q \in Nat
    BY <1>1, <1>3
  <2>3. o.notional + px * q \in Nat
    BY <1>3, <1>5
  <2>4. o.execSeq + 1 \in Nat
    BY <1>3
  <2>. QED
    BY <1>4, <2>1, <2>2, <2>3, <2>4 DEF OrderType
<1>7. /\ p.slices = o.slices /\ p.qty = o.qty /\ p.next = o.next + 1
      /\ p.cumQty = o.cumQty + q /\ p.notional = o.notional + px * q
      /\ p.side = o.side /\ p.limitPx = o.limitPx
  BY <1>4 DEF OrderType
<1>8. p.cumQty = IF Done(p) THEN p.qty ELSE p.slices[1] * (p.next - 1)
  <2>. DEFINE n == Len(o.slices)
  <2>1. o.cumQty = o.slices[1] * (o.next - 1)
    BY DEF WellFormed
  <2>2. o.slices[1] \in Nat
    BY <1>1
  <2>3. CASE o.next < n
    <3>1. q = o.slices[1]
      BY <1>1, <2>3 DEF WellFormed, Sliced, q
    <3>2. ~Done(p)
      BY <1>1, <1>7, <2>3 DEF Done
    <3>. QED
      BY <1>1, <1>7, <2>1, <2>2, <3>1, <3>2
  <2>4. CASE o.next = n
    <3>1. q = o.qty - o.slices[1] * (o.next - 1)
      BY <2>4 DEF WellFormed, Sliced, q
    <3>2. Done(p)
      BY <1>1, <1>7, <2>4 DEF Done
    <3>3. o.slices[1] * (o.next - 1) \in Int /\ o.qty \in Int
      BY <1>1, <2>2 DEF OrderType
    <3>. QED
      BY <1>7, <2>1, <3>1, <3>2, <3>3
  <2>. QED
    BY <1>1, <2>3, <2>4
<1>9. WithinLimit(p)
  <2>1. limit * (o.cumQty + q) = limit * o.cumQty + limit * q
    BY <1>1, <1>3
  <2>2. /\ o.side = "buy" => px * q <= limit * q
        /\ o.side # "buy" => px * q >= limit * q
    BY <1>1, <1>2, <1>3
  <2>3. /\ o.side = "buy" => o.notional <= limit * o.cumQty
        /\ o.side # "buy" => o.notional >= limit * o.cumQty
    BY DEF WellFormed, WithinLimit, limit
  <2>4. limit * o.cumQty \in Nat /\ limit * q \in Nat
    BY <1>1, <1>3
  <2>5. /\ o.side = "buy" => p.notional <= limit * p.cumQty
        /\ o.side # "buy" => p.notional >= limit * p.cumQty
    BY <1>3, <1>5, <1>7, <2>1, <2>2, <2>3, <2>4
  <2>. QED
    BY <1>7, <2>5 DEF WithinLimit, limit
<1>10. WellFormed(p)
  <2>1. p.next \in 1..(Len(p.slices) + 1)
    BY <1>1, <1>7
  <2>2. p.qty > 0 /\ Sliced(p.slices, p.qty)
    BY <1>7 DEF WellFormed
  <2>. QED
    BY <1>8, <1>9, <2>1, <2>2 DEF WellFormed
<1>. QED
  BY <1>1, <1>2, <1>3, <1>4, <1>6, <1>7, <1>10 DEF q, px, p

-----------------------------------------------------------------------------
(* What the handlers do to an order on the book.                           *)

(* Order id becomes p: the same order, with no more than one slice more    *)
(* printed; it stays on the book with a slice left, or it leaves it with   *)
(* the end that says whether everything printed.                           *)
OrderMoves(id, p) ==
    LET o == orders[id]
    IN /\ p \in OrderType /\ WellFormed(p)
       /\ p.orderID = o.orderID /\ p.slices = o.slices /\ p.tif = o.tif
       /\ \/ p.next = o.next /\ p.cumQty = o.cumQty
          \/ /\ p.next = o.next + 1
             /\ p.cumQty = o.cumQty + o.slices[o.next] /\ o.slices[o.next] > 0
       /\ orders' = [orders EXCEPT ![id] = p]
       /\ \/ /\ UNCHANGED <<live, final>>
             /\ ~Done(p) /\ p.execSeq = p.next - 1
             /\ p.tif = "IOC" => err' # "none"
          \/ /\ live' = live \ {id}
             /\ \/ final' = [final EXCEPT ![id] = "FILLED"] /\ Done(p)
                \/ final' = [final EXCEPT ![id] = "CANCELED"] /\ ~Done(p)

(* A tick evaluates an order that is on the book and has a slice left.     *)
LEMMA FirstIsLive ==
    ASSUME EngineInv, pc = "tick"
    PROVE  /\ first \in due /\ first \in live /\ first \in ClOrdID
           /\ orders[first] \in OrderType /\ WellFormed(orders[first]) /\ ~Done(orders[first])
           /\ orders[first].execSeq = orders[first].next - 1
<1>1. due # {} /\ due \subseteq live /\ live \subseteq ClOrdID
  BY DEF EngineInv, TypeOK
<1>2. due \in SUBSET Nat
  BY <1>1, EngineAssumption
<1>3. first \in due
  BY <1>1, <1>2, MinOfNats DEF first
<1>. QED
  BY <1>1, <1>3 DEF EngineInv, TypeOK, LiveOrders, KnownOrders, known

(* A field that carries no terms and no fills may be written freely.       *)
LEMMA OtherFields ==
    ASSUME NEW o \in OrderType, WellFormed(o), NEW n \in Nat
    PROVE  /\ [o EXCEPT !.execSeq = n] \in OrderType /\ WellFormed([o EXCEPT !.execSeq = n])
           /\ [o EXCEPT !.readyAt = n] \in OrderType /\ WellFormed([o EXCEPT !.readyAt = n])
  BY DEF OrderType, WellFormed, WithinLimit, Done

LEMMA CancelMoves ==
    ASSUME EngineInv, CancelLive
    PROVE  /\ inbound.id \in live
           /\ \E p \in OrderType : OrderMoves(inbound.id, p) /\ p.next = orders[inbound.id].next
<1>. DEFINE id == inbound.id
            o  == orders[id]
            p  == [o EXCEPT !.execSeq = o.execSeq + 1]
<1>1. id \in live /\ id \in ClOrdID
  BY DEF CancelLive, EngineInv, TypeOK
<1>2. /\ o \in OrderType /\ WellFormed(o) /\ ~Done(o)
  BY <1>1 DEF EngineInv, TypeOK, LiveOrders, KnownOrders, known
<1>3. o.execSeq + 1 \in Nat
  BY <1>2 DEF OrderType
<1>4. p \in OrderType /\ WellFormed(p)
  BY <1>2, <1>3, OtherFields
<1>5. /\ p.orderID = o.orderID /\ p.slices = o.slices /\ p.tif = o.tif /\ p.next = o.next
      /\ p.cumQty = o.cumQty /\ ~Done(p)
  BY <1>2 DEF OrderType, Done
<1>6. /\ orders' = [orders EXCEPT ![id] = p]
      /\ live' = live \ {id} /\ final' = [final EXCEPT ![id] = "CANCELED"]
  BY DEF CancelLive
<1>7. OrderMoves(id, p)
  BY <1>4, <1>5, <1>6 DEF OrderMoves
<1>. QED
  BY <1>1, <1>4, <1>5, <1>7

LEMMA UnfilledMoves ==
    ASSUME EngineInv, Unfilled
    PROVE  first \in live /\ \E p \in OrderType : OrderMoves(first, p) /\ p.next = orders[first].next
<1>. DEFINE o == orders[first]
            p == [o EXCEPT !.execSeq = o.execSeq + 1]
            w == [o EXCEPT !.readyAt = nextBookRead]
<1>1. /\ first \in live /\ first \in ClOrdID
      /\ o \in OrderType /\ WellFormed(o) /\ ~Done(o) /\ o.execSeq = o.next - 1
  BY FirstIsLive DEF Unfilled
<1>2. o.execSeq + 1 \in Nat /\ nextBookRead \in Nat
  <2>1. o.execSeq + 1 \in Nat
    BY <1>1 DEF OrderType
  <2>. QED
    BY <2>1 DEF EngineInv, TypeOK
<1>3. /\ p \in OrderType /\ WellFormed(p)
      /\ w \in OrderType /\ WellFormed(w)
  BY <1>1, <1>2, OtherFields
<1>4. /\ p.orderID = o.orderID /\ p.slices = o.slices /\ p.tif = o.tif /\ p.next = o.next
      /\ p.cumQty = o.cumQty /\ ~Done(p)
      /\ w.orderID = o.orderID /\ w.slices = o.slices /\ w.tif = o.tif /\ w.next = o.next
      /\ w.cumQty = o.cumQty /\ ~Done(w) /\ w.execSeq = w.next - 1
  BY <1>1 DEF OrderType, Done
<1>5. CASE o.tif = "IOC"
  <2>1. /\ orders' = [orders EXCEPT ![first] = p]
        /\ live' = live \ {first} /\ final' = [final EXCEPT ![first] = "CANCELED"]
    BY <1>5 DEF Unfilled
  <2>2. OrderMoves(first, p)
    BY <1>3, <1>4, <2>1 DEF OrderMoves
  <2>. QED
    BY <1>1, <1>3, <1>4, <2>2
<1>6. CASE o.tif # "IOC"
  <2>1. orders' = [orders EXCEPT ![first] = w] /\ UNCHANGED <<live, final>>
    BY <1>6 DEF Unfilled, deferred
  <2>2. OrderMoves(first, w)
    BY <1>3, <1>4, <1>6, <2>1 DEF OrderMoves
  <2>. QED
    BY <1>1, <1>3, <1>4, <2>2
<1>. QED
  BY <1>5, <1>6

(* A slice printed, whether or not the writer took its row.                *)
LEMMA FillMoves ==
    ASSUME EngineInv, Fill \/ FillRefused
    PROVE  first \in live /\ \E p \in OrderType : OrderMoves(first, p) /\ p.next = orders[first].next + 1
<1>. DEFINE o == orders[first]
            p == sliced(o)
            c == [p EXCEPT !.execSeq = p.execSeq + 1]
<1>1. /\ first \in live /\ first \in ClOrdID
      /\ o \in OrderType /\ WellFormed(o) /\ ~Done(o) /\ o.execSeq = o.next - 1
  BY FirstIsLive DEF Fill, FillRefused
<1>2. book \in [ts : Int, bid : Nat, ask : Nat] /\ tickAt \in Nat
  BY DEF EngineInv, TypeOK
<1>3. /\ p \in OrderType /\ WellFormed(p) /\ p.cumQty = o.cumQty + o.slices[o.next]
      /\ o.slices[o.next] > 0
      /\ p = [o EXCEPT !.next = o.next + 1, !.cumQty = p.cumQty,
                       !.notional = p.notional, !.execSeq = o.execSeq + 1]
  BY <1>1, <1>2, SlicePrints
<1>. HIDE DEF p
<1>4. /\ p.orderID = o.orderID /\ p.slices = o.slices /\ p.tif = o.tif
      /\ p.next = o.next + 1 /\ p.execSeq = o.execSeq + 1
  BY <1>1, <1>3 DEF OrderType
<1>5. p.execSeq = p.next - 1
  BY <1>1, <1>4 DEF OrderType
<1>6. CASE Fill /\ Done(p)
  <2>1. /\ orders' = [orders EXCEPT ![first] = p]
        /\ live' = live \ {first} /\ final' = [final EXCEPT ![first] = "FILLED"]
    BY <1>6 DEF Fill, p
  <2>2. OrderMoves(first, p)
    BY <1>3, <1>4, <1>6, <2>1 DEF OrderMoves
  <2>. QED
    BY <1>1, <1>3, <1>4, <2>2
<1>7. CASE Fill /\ ~Done(p) /\ Rests(o)
  <2>1. PICK j \in Jitter : orders' = [orders EXCEPT ![first] = [p EXCEPT !.readyAt = tickAt + j]]
    BY <1>7 DEF Fill, p
  <2>2. UNCHANGED <<live, final>>
    BY <1>7 DEF Fill, p
  <2>. DEFINE w == [p EXCEPT !.readyAt = tickAt + j]
  <2>3. tickAt + j \in Nat
    BY <1>2, EngineAssumption DEF Jitter
  <2>4. w \in OrderType /\ WellFormed(w)
    BY <1>3, <2>3, OtherFields
  <2>5. /\ w.orderID = o.orderID /\ w.slices = o.slices /\ w.tif = o.tif /\ w.next = o.next + 1
        /\ w.cumQty = o.cumQty + o.slices[o.next] /\ o.slices[o.next] > 0
        /\ ~Done(w) /\ w.execSeq = w.next - 1 /\ w.tif # "IOC"
    BY <1>3, <1>4, <1>5, <1>7 DEF OrderType, Done, Rests
  <2>6. OrderMoves(first, w)
    BY <2>1, <2>2, <2>4, <2>5 DEF OrderMoves
  <2>. QED
    BY <1>1, <2>4, <2>5, <2>6
<1>8. CASE Fill /\ ~Done(p) /\ ~Rests(o)
  <2>1. /\ orders' = [orders EXCEPT ![first] = [p EXCEPT !.execSeq = @ + 1]]
        /\ live' = live \ {first} /\ final' = [final EXCEPT ![first] = "CANCELED"]
    BY <1>8 DEF Fill, p
  <2>2. orders' = [orders EXCEPT ![first] = c]
    BY <2>1
  <2>3. p.execSeq + 1 \in Nat
    BY <1>3 DEF OrderType
  <2>4. c \in OrderType /\ WellFormed(c)
    BY <1>3, <2>3, OtherFields
  <2>5. /\ c.orderID = o.orderID /\ c.slices = o.slices /\ c.tif = o.tif /\ c.next = o.next + 1
        /\ c.cumQty = o.cumQty + o.slices[o.next] /\ o.slices[o.next] > 0 /\ ~Done(c)
    BY <1>3, <1>4, <1>8 DEF OrderType, Done
  <2>6. OrderMoves(first, c)
    BY <2>1, <2>2, <2>4, <2>5 DEF OrderMoves
  <2>. QED
    BY <1>1, <2>4, <2>5, <2>6
<1>9. CASE FillRefused
  <2>1. /\ orders' = [orders EXCEPT ![first] = p] /\ err' # "none"
        /\ IF Done(p) THEN /\ live' = live \ {first}
                           /\ final' = [final EXCEPT ![first] = "FILLED"]
                      ELSE UNCHANGED <<live, final>>
    BY <1>9 DEF FillRefused, p
  <2>2. OrderMoves(first, p)
    BY <1>3, <1>4, <1>5, <2>1 DEF OrderMoves
  <2>. QED
    BY <1>1, <1>3, <1>4, <2>2
<1>. QED
  BY <1>6, <1>7, <1>8, <1>9

(* An order that moves fills nothing, or one slice of something.           *)
LEMMA MovedSlice ==
    ASSUME EngineInv, NEW id \in live, NEW p \in OrderType, OrderMoves(id, p)
    PROVE  \/ p.cumQty = orders[id].cumQty
           \/ \E q \in Nat : q > 0 /\ p.cumQty = orders[id].cumQty + q
<1>. DEFINE o == orders[id]
<1>1. o \in OrderType /\ WellFormed(o) /\ ~Done(o)
  BY DEF EngineInv, TypeOK, LiveOrders, KnownOrders, known
<1>2. o.slices \in Seq(Nat) /\ Len(o.slices) \in Nat /\ o.next \in 1..(Len(o.slices) + 1)
  <2>1. o.slices \in Seq(Nat)
    BY <1>1 DEF OrderType
  <2>. QED
    BY <1>1, <2>1 DEF WellFormed
<1>3. o.next \in 1..Len(o.slices)
  BY <1>1, <1>2 DEF Done
<1>4. o.slices[o.next] \in Nat
  BY <1>2, <1>3
<1>. QED
  BY <1>4 DEF OrderMoves

-----------------------------------------------------------------------------
(* The orders.                                                             *)

OrdersInv == KnownOrders /\ OrderIDsDistinct /\ LiveOrders /\ EndedOrders
OrderTypes ==
    /\ live \subseteq ClOrdID
    /\ final \in [ClOrdID -> {"none", "FILLED", "CANCELED"}]
    /\ orders \in [ClOrdID -> OrderType]

(* An order that moves on leaves the others, and what is known, alone.     *)
LEMMA MovedOrders ==
    ASSUME EngineInv, NEW id \in live, NEW p \in OrderType, OrderMoves(id, p),
           UNCHANGED <<run, minted>>
    PROVE  /\ OrdersInv' /\ OrderTypes'
           /\ \A i \in ClOrdID : known(i)' <=> known(i)
           /\ \A i \in ClOrdID \ {id} : orders'[i] = orders[i]
           /\ orders'[id] = p
           /\ live' \subseteq live
<1>1. /\ id \in ClOrdID /\ known(id) /\ live \subseteq ClOrdID
      /\ final \in [ClOrdID -> {"none", "FILLED", "CANCELED"}]
      /\ orders \in [ClOrdID -> OrderType]
  BY DEF EngineInv, TypeOK, known
<1>2. /\ \A i \in ClOrdID \ {id} : orders'[i] = orders[i]
      /\ orders'[id] = p
  BY <1>1 DEF OrderMoves
<1>3. OrderTypes'
  BY <1>1 DEF OrderMoves, OrderTypes
<1>4. \A i \in ClOrdID : known(i)' <=> known(i)
  BY <1>1 DEF OrderMoves, known
<1>5. \A i \in ClOrdID : orders'[i].orderID = orders[i].orderID
  BY <1>1, <1>2 DEF OrderMoves
<1>6. KnownOrders'
  <2>. SUFFICES ASSUME NEW i \in ClOrdID
                PROVE  IF known(i)' THEN /\ WellFormed(orders'[i])
                                         /\ orders'[i].orderID[1] = run'
                                         /\ orders'[i].orderID[2] \in 1..minted'.orders
                                    ELSE orders'[i] = NoOrder
    BY DEF KnownOrders
  <2>1. IF known(i) THEN /\ WellFormed(orders[i])
                         /\ orders[i].orderID[1] = run
                         /\ orders[i].orderID[2] \in 1..minted.orders
                    ELSE orders[i] = NoOrder
    BY DEF EngineInv, KnownOrders
  <2>2. CASE i = id
    BY <1>1, <1>2, <1>4, <1>5, <2>1, <2>2 DEF OrderMoves
  <2>3. CASE i # id
    BY <1>2, <1>4, <2>1, <2>3
  <2>. QED
    BY <2>2, <2>3
<1>7. OrderIDsDistinct'
  <2>1. OrderIDsDistinct
    BY DEF EngineInv
  <2>. QED
    BY <1>4, <1>5, <2>1 DEF OrderIDsDistinct
<1>8. LiveOrders'
  <2>. SUFFICES ASSUME NEW i \in live'
                PROVE  /\ final'[i] = "none"
                       /\ ~Done(orders'[i])
                       /\ orders'[i].execSeq = orders'[i].next - 1
    BY DEF LiveOrders
  <2>1. i \in live /\ i \in ClOrdID
    BY <1>1 DEF OrderMoves
  <2>2. final[i] = "none" /\ ~Done(orders[i]) /\ orders[i].execSeq = orders[i].next - 1
    BY <2>1 DEF EngineInv, LiveOrders
  <2>3. CASE i = id
    BY <1>1, <1>2, <2>2, <2>3 DEF OrderMoves
  <2>4. CASE i # id
    BY <1>1, <1>2, <2>1, <2>2, <2>4 DEF OrderMoves
  <2>. QED
    BY <2>3, <2>4
<1>9. EndedOrders'
  <2>. SUFFICES ASSUME NEW i \in ClOrdID
                PROVE  /\ final'[i] = "FILLED" => Done(orders'[i])
                       /\ final'[i] = "CANCELED" => ~Done(orders'[i])
    BY DEF EndedOrders
  <2>1. /\ final[i] = "FILLED" => Done(orders[i])
        /\ final[i] = "CANCELED" => ~Done(orders[i])
        /\ final[id] = "none"
    BY DEF EngineInv, EndedOrders, LiveOrders
  <2>2. CASE i = id
    BY <1>1, <1>2, <2>1, <2>2 DEF OrderMoves
  <2>3. CASE i # id
    BY <1>1, <1>2, <2>1, <2>3 DEF OrderMoves
  <2>. QED
    BY <2>2, <2>3
<1>10. live' \subseteq live
  BY DEF OrderMoves
<1>. QED
  BY <1>2, <1>3, <1>4, <1>6, <1>7, <1>8, <1>9, <1>10 DEF OrdersInv

(* An order that is not refused goes on the book well-formed, with none of *)
(* it printed, under an id minted for it.                                  *)
LEMMA AcceptedOrder ==
    ASSUME EngineInv, Accept
    PROVE  /\ inbound.id \in ClOrdID /\ ~known(inbound.id)
           /\ \E p \in OrderType :
                /\ orders' = [orders EXCEPT ![inbound.id] = p]
                /\ WellFormed(p) /\ ~Done(p) /\ p.next = 1 /\ p.execSeq = 0 /\ p.cumQty = 0
                /\ p.orderID = <<run, minted.orders + 1>>
<1>. DEFINE id == inbound.id
            t  == inbound.terms
<1>1. /\ inbound.kind = "order" /\ inbound \in Inbound
      /\ run \in Nat /\ minted \in [orders : Nat, execs : Nat]
  BY EngineAssumption DEF Accept, taken, EngineInv, TypeOK
<1>2. id \in ClOrdID /\ t \in Terms /\ inbound.at \in Nat
  BY <1>1 DEF Inbound
<1>3. ~known(id) /\ ~unsupported(t)
  BY DEF Accept, refusal
<1>4. /\ t.side \in {"buy", "sell"} /\ t.tif \in {"GTC", "IOC"}
      /\ t.qty \in Nat /\ t.qty > 0 /\ t.limitPx \in Nat
  BY <1>2, <1>3, EngineAssumption DEF unsupported
<1>5. Sliced(sliceSizes(t.qty), t.qty)
  BY <1>4, SlicesCover
<1>6. minted'.orders = minted.orders + 1
  BY DEF Accept
<1>7. PICK j \in Jitter :
        orders' = [orders EXCEPT ![id] =
                     [NoOrder EXCEPT !.orderID = mint(minted'.orders), !.side = t.side, !.tif = t.tif,
                                     !.qty = t.qty, !.limitPx = t.limitPx,
                                     !.slices = sliceSizes(t.qty), !.readyAt = inbound.at + j]]
  BY DEF Accept
<1>8. inbound.at + j \in Nat
  BY <1>2, EngineAssumption DEF Jitter
<1>. DEFINE p == [NoOrder EXCEPT !.orderID = mint(minted'.orders), !.side = t.side, !.tif = t.tif,
                                 !.qty = t.qty, !.limitPx = t.limitPx,
                                 !.slices = sliceSizes(t.qty), !.readyAt = inbound.at + j]
<1>9. NoOrder \in OrderType /\ NoOrder.next = 1 /\ NoOrder.execSeq = 0 /\ NoOrder.cumQty = 0
      /\ NoOrder.notional = 0
  BY DEF NoOrder, OrderType
<1>10. /\ p \in OrderType
       /\ p.orderID = <<run, minted.orders + 1>> /\ p.side = t.side /\ p.qty = t.qty
       /\ p.limitPx = t.limitPx /\ p.slices = sliceSizes(t.qty) /\ p.next = 1 /\ p.execSeq = 0
       /\ p.cumQty = 0 /\ p.notional = 0
  <2>1. mint(minted'.orders) = <<run, minted.orders + 1>>
    BY <1>6 DEF mint
  <2>2. mint(minted'.orders) \in Nat \X Nat /\ sliceSizes(t.qty) \in Seq(Nat)
    BY <1>1, <1>5, <2>1 DEF Sliced
  <2>. QED
    BY <1>4, <1>8, <1>9, <2>1, <2>2 DEF OrderType
<1>. HIDE DEF p
<1>11. p.slices[1] * (p.next - 1) = 0 /\ p.limitPx * Scale * p.cumQty = 0
  BY <1>4, <1>5, <1>10 DEF Sliced, Scale
<1>12. ~Done(p)
  BY <1>5, <1>10 DEF Sliced, Done
<1>13. p.next \in 1..(Len(p.slices) + 1)
  BY <1>5, <1>10 DEF Sliced
<1>14. WellFormed(p)
  BY <1>4, <1>5, <1>10, <1>11, <1>12, <1>13 DEF WellFormed, WithinLimit
<1>. QED
  BY <1>2, <1>3, <1>7, <1>10, <1>12, <1>14 DEF p

LEMMA OrdersStep ==
    ASSUME EngineInv, [Next]_vars
    PROVE  OrdersInv' /\ OrderTypes'
<1>1. OrdersInv /\ OrderTypes
  BY DEF EngineInv, TypeOK, OrdersInv, OrderTypes
<1>2. CASE Reject
  <2>1. UNCHANGED <<run, live, final, orders>> /\ minted'.orders = minted.orders + 1
    BY <1>2 DEF Reject, orderVars
  <2>2. minted.orders \in Nat
    BY DEF EngineInv, TypeOK
  <2>. QED
    BY <1>1, <2>1, <2>2
       DEF OrdersInv, OrderTypes, KnownOrders, OrderIDsDistinct, LiveOrders, EndedOrders, known
<1>3. CASE Accept
  <2>. DEFINE id == inbound.id
  <2>1. id \in ClOrdID /\ ~known(id)
    BY <1>3, AcceptedOrder
  <2>2. PICK p \in OrderType :
           /\ orders' = [orders EXCEPT ![id] = p]
           /\ WellFormed(p) /\ ~Done(p) /\ p.next = 1 /\ p.execSeq = 0 /\ p.cumQty = 0
           /\ p.orderID = <<run, minted.orders + 1>>
    BY <1>3, AcceptedOrder
  <2>3. /\ UNCHANGED <<run, final>> /\ live' = live \cup {id}
        /\ minted'.orders = minted.orders + 1 /\ minted.orders \in Nat
    BY <1>3 DEF Accept, EngineInv, TypeOK
  <2>. HIDE DEF id
  <2>4. /\ orders'[id] = p
        /\ \A i \in ClOrdID \ {id} : orders'[i] = orders[i]
    BY <1>1, <2>1, <2>2 DEF OrderTypes
  <2>5. \A i \in ClOrdID : known(i)' <=> known(i) \/ i = id
    BY <2>3 DEF known
  <2>6. OrderTypes'
    BY <1>1, <2>1, <2>2, <2>3 DEF OrderTypes
  <2>7. KnownOrders'
    BY <1>1, <2>1, <2>2, <2>3, <2>4, <2>5 DEF OrdersInv, KnownOrders
  <2>8. OrderIDsDistinct'
    <3>1. \A i \in ClOrdID : known(i) => orders[i].orderID # p.orderID
      BY <1>1, <2>2, <2>3 DEF OrdersInv, KnownOrders
    <3>. QED
      BY <1>1, <2>4, <2>5, <3>1 DEF OrdersInv, OrderIDsDistinct
  <2>9. LiveOrders'
    BY <1>1, <2>1, <2>2, <2>3, <2>4 DEF OrdersInv, OrderTypes, LiveOrders, known
  <2>10. EndedOrders'
    BY <1>1, <2>1, <2>2, <2>3, <2>4 DEF OrdersInv, OrderTypes, EndedOrders, known
  <2>. QED
    BY <2>6, <2>7, <2>8, <2>9, <2>10 DEF OrdersInv
<1>4. CASE CancelLive
  BY <1>4, CancelMoves, MovedOrders DEF CancelLive
<1>5. CASE Unfilled
  BY <1>5, UnfilledMoves, MovedOrders DEF Unfilled
<1>6. CASE Fill \/ FillRefused
  BY <1>6, FillMoves, MovedOrders DEF Fill, FillRefused
<1>7. CASE Restart
  <2>1. /\ live' = {} /\ final' = [id \in ClOrdID |-> "none"]
        /\ orders' = [id \in ClOrdID |-> NoOrder]
    BY <1>7 DEF Restart
  <2>2. NoOrder \in OrderType
    BY DEF NoOrder, OrderType
  <2>. QED
    BY <2>1, <2>2
       DEF OrdersInv, OrderTypes, KnownOrders, OrderIDsDistinct, LiveOrders, EndedOrders, known
<1>8. CASE CancelRejected \/ TickBegins \/ DeliverStopped \/ FromApp \/ Stop \/ RecordBook \/ Clock
           \/ UNCHANGED vars
  <2>1. UNCHANGED <<run, minted, live, final, orders>>
    BY <1>8 DEF CancelRejected, TickBegins, DeliverStopped, FromApp, Stop, RecordBook, Clock,
                vars, orderVars
  <2>. QED
    BY <1>1, <2>1
       DEF OrdersInv, OrderTypes, KnownOrders, OrderIDsDistinct, LiveOrders, EndedOrders, known
<1>. QED
  BY <1>2, <1>3, <1>4, <1>5, <1>6, <1>7, <1>8 DEF Next, Handle, Receive, Evaluate

-----------------------------------------------------------------------------
(* The types of everything else, and the loop's own rules.                 *)

LEMMA LoopStep ==
    ASSUME EngineInv, [Next]_vars
    PROVE  TypeOK' /\ ErrorsStop'
<1>. USE DEF EngineInv
<1>1. /\ live' \subseteq ClOrdID
      /\ final' \in [ClOrdID -> {"none", "FILLED", "CANCELED"}]
      /\ orders' \in [ClOrdID -> OrderType]
  BY OrdersStep DEF OrderTypes
<1>2. CASE FromApp
  <2>1. inbound' \in Inbound /\ messages' \in 0..MaxMessages
    BY <1>2, EngineAssumption DEF FromApp, TypeOK, Inbound
  <2>. QED
    BY <1>1, <1>2, <2>1
       DEF FromApp, TypeOK, ErrorsStop, orderVars, bookVars, loopVars, outVars
<1>3. CASE Reject \/ Accept
  <2>1. /\ inbound' = [kind |-> "none"] /\ pc = "select"
        /\ minted' = [orders |-> minted.orders + 1, execs |-> minted.execs + 1]
        /\ live \subseteq live'
        /\ UNCHANGED <<run, bookVars, loopVars, messages, market, now>>
    BY <1>3 DEF Reject, Accept, taken, orderVars
  <2>2. inbound' \in Inbound /\ minted' \in [orders : Nat, execs : Nat]
    BY <2>1 DEF Inbound, TypeOK
  <2>. QED
    BY <1>1, <2>1, <2>2 DEF TypeOK, ErrorsStop, bookVars, loopVars
<1>4. CASE CancelLive \/ CancelRejected
  <2>1. /\ inbound' = [kind |-> "none"] /\ pc = "select" /\ due = {} /\ due' = due
        /\ pc' \in {"select", "stopped"} /\ err' \in {err, "send"}
        /\ pc' = pc => err' = err
        /\ UNCHANGED <<run, minted, bookVars, tickAt, messages, market, now>>
    BY <1>4 DEF CancelLive, CancelRejected, taken, loopVars, TypeOK
  <2>2. inbound' \in Inbound
    BY <2>1 DEF Inbound
  <2>. QED
    BY <1>1, <2>1, <2>2 DEF TypeOK, ErrorsStop, bookVars
<1>5. CASE TickBegins
  <2>1. nextBookRead' \in Nat /\ tickAt' \in Nat
    BY <1>5, EngineAssumption DEF TickBegins, bookVars, TypeOK
  <2>2. book' \in {book, market}
    BY <1>5 DEF TickBegins, bookVars
  <2>3. /\ due' \subseteq live /\ live' = live /\ pc' \in {"select", "tick"}
        /\ pc' = "tick" <=> due' # {}
        /\ pc = "select"
        /\ UNCHANGED <<run, minted, err, inbound, messages, market, now>>
    BY <1>5 DEF TickBegins, orderVars
  <2>. QED
    BY <1>1, <2>1, <2>2, <2>3 DEF TypeOK, ErrorsStop
<1>6. CASE Unfilled \/ Fill
  <2>1. /\ due' = due \ {first} /\ live \subseteq live' \cup {first}
        /\ pc = "tick" /\ pc' = (IF due' = {} THEN "select" ELSE "tick")
        /\ UNCHANGED <<run, minted, bookVars, tickAt, err, inbound, messages, market, now>>
    BY <1>6 DEF Unfilled, Fill, nextInTick
  <2>. QED
    BY <1>1, <2>1 DEF TypeOK, ErrorsStop, bookVars
<1>7. CASE FillRefused
  <2>1. /\ due' = {} /\ pc' = "stopped" /\ err' = "sink"
        /\ UNCHANGED <<run, minted, bookVars, tickAt, inbound, messages, market, now>>
    BY <1>7 DEF FillRefused
  <2>. QED
    BY <1>1, <2>1 DEF TypeOK, ErrorsStop, bookVars
<1>8. CASE Stop
  BY <1>1, <1>8 DEF Stop, TypeOK, ErrorsStop, orderVars, bookVars, outVars
<1>9. CASE DeliverStopped
  BY <1>1, <1>9 DEF DeliverStopped, TypeOK, ErrorsStop, Inbound, orderVars, bookVars, loopVars, outVars
<1>10. CASE RecordBook
  <2>1. market' \in [ts : Int, bid : Nat, ask : Nat]
    BY <1>10, EngineAssumption DEF RecordBook, TypeOK
  <2>. QED
    BY <1>1, <1>10, <2>1 DEF RecordBook, TypeOK, ErrorsStop, orderVars, bookVars, loopVars, outVars
<1>11. CASE Clock
  BY <1>1, <1>11, EngineAssumption
     DEF Clock, TypeOK, ErrorsStop, orderVars, bookVars, loopVars, outVars
<1>12. CASE Restart
  <2>1. /\ run' \in 1..MaxRuns /\ minted' \in [orders : Nat, execs : Nat]
        /\ nextBookRead' \in Nat /\ tickAt' \in Nat
    BY <1>12, EngineAssumption DEF Restart, TypeOK
  <2>2. book' \in [ts : Int, bid : Nat, ask : Nat]
    BY <1>12 DEF Restart, TypeOK, NoBook
  <2>3. inbound' \in Inbound /\ due' = {} /\ pc' = "select" /\ err' = "none"
        /\ UNCHANGED <<messages, market, now>>
    BY <1>12 DEF Restart, Inbound
  <2>. QED
    BY <1>1, <2>1, <2>2, <2>3 DEF TypeOK, ErrorsStop
<1>13. CASE UNCHANGED vars
  BY <1>13 DEF vars, TypeOK, ErrorsStop, orderVars, bookVars, loopVars, outVars
<1>. QED
  BY <1>2, <1>3, <1>4, <1>5, <1>6, <1>7, <1>8, <1>9, <1>10, <1>11, <1>12, <1>13
     DEF Next, Handle, Receive, Evaluate

-----------------------------------------------------------------------------
(* The fills table.                                                        *)

(* The row of a fill is new: no row of an earlier life, of another order   *)
(* or of an earlier slice has its id, so ON CONFLICT DO NOTHING never      *)
(* applies to it.                                                          *)
LEMMA FillRecords ==
    ASSUME EngineInv, Fill
    PROVE  LET o == orders[first]
           IN \E f \in FillRow :
                /\ f \notin rows /\ rows' = rows \cup {f}
                /\ f.orderID = o.orderID
                /\ f.execID[1] = o.orderID[1] /\ f.execID[2] = o.orderID[2] /\ f.execID[3] = o.next
                /\ f.qty = o.slices[o.next]
                /\ \A r \in reports' : r \in reports \/ r.lastQty = 0 \/ fillRow(r) = f
<1>. DEFINE o == orders[first]
            p == sliced(o)
            c == [p EXCEPT !.execSeq = @ + 1]
            r == traded(first, o, p)
            f == fillRow(r)
<1>1. /\ first \in live /\ first \in ClOrdID
      /\ o \in OrderType /\ WellFormed(o) /\ ~Done(o) /\ o.execSeq = o.next - 1
  BY FirstIsLive DEF Fill
<1>2. /\ p \in OrderType
      /\ o.slices[o.next] \in Nat /\ execPx(o, book) \in Nat
      /\ p = [o EXCEPT !.next = o.next + 1, !.cumQty = p.cumQty,
                       !.notional = p.notional, !.execSeq = o.execSeq + 1]
  BY <1>1, SlicePrints DEF EngineInv, TypeOK
<1>3. p.orderID = o.orderID /\ p.execSeq = o.next /\ o.orderID \in Nat \X Nat /\ o.next \in Nat
  <2>1. p.orderID = o.orderID /\ p.execSeq = o.execSeq + 1
    BY <1>1, <1>2 DEF OrderType
  <2>. QED
    BY <1>1, <2>1 DEF OrderType
<1>4. f = [execID |-> orderExecID(p), orderID |-> p.orderID, qty |-> o.slices[o.next],
           px |-> execPx(o, book)]
  BY DEF fillRow, traded, report
<1>5. orderExecID(p) = <<o.orderID[1], o.orderID[2], o.next>>
  BY <1>3 DEF orderExecID
<1>. HIDE DEF p, f
<1>6. /\ f \in FillRow
      /\ f.orderID = o.orderID /\ f.execID = <<o.orderID[1], o.orderID[2], o.next>>
      /\ f.qty = o.slices[o.next]
  BY <1>2, <1>3, <1>4, <1>5 DEF FillRow
<1>7. \A x \in rows : x.execID # f.execID
  <2>. SUFFICES ASSUME NEW x \in rows, x.execID = <<o.orderID[1], o.orderID[2], o.next>>
                PROVE  FALSE
    BY <1>6
  <2>1. x.execID[1] = o.orderID[1] /\ x.execID[2] = o.orderID[2] /\ x.execID[3] = o.next
    OBVIOUS
  <2>2. /\ x \in FillRow
        /\ x.orderID[1] = o.orderID[1] /\ x.orderID[2] = o.orderID[2]
    BY <2>1 DEF EngineInv, RowsMinted
  <2>3. x.orderID = o.orderID
    BY <1>3, <2>2 DEF FillRow
  <2>4. x \in RowsOf(o) /\ known(first)
    BY <1>1, <2>3 DEF RowsOf, known
  <2>5. x.execID[3] < o.next
    BY <1>1, <2>4 DEF EngineInv, RowsArePrinted
  <2>. QED
    BY <1>3, <2>1, <2>5
<1>8. rows' = rows \cup {f}
  <2>1. rows' = recorded(r)
    BY DEF Fill, p
  <2>2. f.execID = r.execID
    BY DEF fillRow, f
  <2>. QED
    BY <1>7, <2>1, <2>2 DEF recorded, f
<1>9. \A s \in reports' : s \in reports \/ s.lastQty = 0 \/ fillRow(s) = f
  <2>1. canceled(first, c).lastQty = 0
    BY DEF canceled, report
  <2>2. reports' \subseteq reports \cup {r, canceled(first, c)}
    BY DEF Fill, p
  <2>. QED
    BY <2>1, <2>2 DEF f
<1>. QED
  BY <1>6, <1>7, <1>8, <1>9

LEMMA IOCStep ==
    ASSUME EngineInv, [Next]_vars
    PROVE  IOCNeverRests'
<1>1. IOCNeverRests
  BY DEF EngineInv
<1>2. ASSUME NEW id \in live, NEW p \in OrderType, OrderMoves(id, p), UNCHANGED <<run, minted>>,
             err' = err \/ err' # "none"
      PROVE  IOCNeverRests'
  <2>1. /\ \A i \in ClOrdID \ {id} : orders'[i] = orders[i]
        /\ orders'[id] = p /\ live' \subseteq live /\ live \subseteq ClOrdID
    BY <1>2, MovedOrders DEF EngineInv, TypeOK
  <2>2. id \in live' => (p.tif = "IOC" => err' # "none")
    BY <1>2 DEF OrderMoves
  <2>. QED
    BY <1>1, <1>2, <2>1, <2>2 DEF IOCNeverRests
<1>3. CASE Accept
  <2>1. PICK p \in OrderType : orders' = [orders EXCEPT ![inbound.id] = p] /\ p.cumQty = 0
    BY <1>3, AcceptedOrder
  <2>2. inbound.id \in ClOrdID /\ orders \in [ClOrdID -> OrderType] /\ live \subseteq ClOrdID
    BY <1>3, AcceptedOrder DEF EngineInv, TypeOK
  <2>3. live' = live \cup {inbound.id} /\ err' = err
    BY <1>3 DEF Accept, loopVars
  <2>. QED
    BY <1>1, <2>1, <2>2, <2>3 DEF IOCNeverRests
<1>4. CASE CancelLive
  BY <1>2, <1>4, CancelMoves DEF CancelLive, loopVars
<1>5. CASE Unfilled
  BY <1>2, <1>5, UnfilledMoves DEF Unfilled, nextInTick
<1>6. CASE Fill \/ FillRefused
  BY <1>2, <1>6, FillMoves DEF Fill, FillRefused, nextInTick
<1>7. CASE Restart
  BY <1>7 DEF Restart, IOCNeverRests
<1>8. CASE Reject \/ CancelRejected \/ TickBegins \/ DeliverStopped \/ FromApp \/ Stop \/ RecordBook
           \/ Clock \/ UNCHANGED vars
  <2>1. UNCHANGED <<live, orders>> /\ err' \in {err, "send"}
    BY <1>8 DEF Reject, CancelRejected, TickBegins, DeliverStopped, FromApp, Stop, RecordBook, Clock,
                vars, orderVars, loopVars
  <2>. QED
    BY <1>1, <2>1 DEF IOCNeverRests
<1>. QED
  BY <1>3, <1>4, <1>5, <1>6, <1>7, <1>8 DEF Next, Handle, Receive, Evaluate

TableInv == RowsMinted /\ RowsArePrinted /\ RowsSum /\ ReportedIsRecorded

LEMMA TableStep ==
    ASSUME EngineInv, [Next]_vars
    PROVE  TableInv'
<1>1. TableInv /\ run \in Nat /\ minted.orders \in Nat
  BY EngineAssumption DEF EngineInv, TableInv, TypeOK
<1>2. CASE Reject
  <2>1. /\ UNCHANGED <<run, live, final, orders, err, rows>> /\ minted'.orders = minted.orders + 1
        /\ \A r \in reports' : r \in reports \/ r.lastQty = 0
    BY <1>2 DEF Reject, orderVars, loopVars, report
  <2>2. RowsMinted'
    BY <1>1, <2>1 DEF TableInv, RowsMinted, FillRow
  <2>3. RowsArePrinted' /\ RowsSum'
    BY <1>1, <2>1 DEF TableInv, RowsArePrinted, RowsSum, RowsOf, known
  <2>4. ReportedIsRecorded'
    BY <1>1, <2>1 DEF TableInv, ReportedIsRecorded
  <2>. QED
    BY <2>2, <2>3, <2>4 DEF TableInv
<1>3. CASE Accept
  <2>. DEFINE id == inbound.id
  <2>1. id \in ClOrdID /\ ~known(id)
    BY <1>3, AcceptedOrder
  <2>2. PICK p \in OrderType : /\ orders' = [orders EXCEPT ![id] = p]
                               /\ p.next = 1 /\ p.cumQty = 0 /\ p.orderID = <<run, minted.orders + 1>>
    BY <1>3, AcceptedOrder
  <2>3. /\ UNCHANGED <<run, final, err, rows>> /\ live' = live \cup {id}
        /\ minted'.orders = minted.orders + 1
        /\ \A r \in reports' : r \in reports \/ r.lastQty = 0
    BY <1>3 DEF Accept, loopVars, report
  <2>. HIDE DEF id
  <2>4. /\ orders'[id] = p
        /\ \A i \in ClOrdID \ {id} : orders'[i] = orders[i]
    BY <2>1, <2>2 DEF EngineInv, TypeOK
  <2>5. \A i \in ClOrdID \ {id} : known(i)' <=> known(i)
    BY <2>3 DEF known
  <2>6. RowsMinted'
    BY <1>1, <2>3 DEF TableInv, RowsMinted, FillRow
  <2>7. \A x \in rows : x.orderID # p.orderID
    BY <1>1, <2>2 DEF TableInv, RowsMinted
  <2>8. RowsArePrinted'
    BY <1>1, <2>3, <2>4, <2>5, <2>7 DEF TableInv, RowsArePrinted, RowsOf
  <2>9. RowsSum'
    <3>. SUFFICES ASSUME err # "sink", NEW i \in ClOrdID, known(i)'
                  PROVE  Total(RowsOf(orders[i]))' = orders'[i].cumQty
      BY <2>3 DEF RowsSum
    <3>1. CASE i # id
      <4>1. RowsOf(orders[i])' = RowsOf(orders[i])
        BY <2>3, <2>4, <3>1 DEF RowsOf
      <4>. QED
        BY <1>1, <2>4, <2>5, <3>1, <4>1 DEF TableInv, RowsSum
    <3>2. CASE i = id
      <4>1. RowsOf(orders[i])' = {}
        BY <2>3, <2>4, <2>7, <3>2 DEF RowsOf
      <4>2. Total({}) = 0
        BY FS_EmptySet, TotalUnfolds
      <4>. QED
        BY <2>2, <2>4, <3>2, <4>1, <4>2
    <3>. QED
      BY <3>1, <3>2
  <2>10. ReportedIsRecorded'
    BY <1>1, <2>3 DEF TableInv, ReportedIsRecorded
  <2>. QED
    BY <2>6, <2>8, <2>9, <2>10 DEF TableInv
<1>4. ASSUME NEW id \in live, NEW p \in OrderType, OrderMoves(id, p), p.next = orders[id].next,
             UNCHANGED <<run, minted, err, rows>>,
             \A r \in reports' : r \in reports \/ r.lastQty = 0
      PROVE  TableInv'
  <2>1. /\ \A i \in ClOrdID : known(i)' <=> known(i)
        /\ \A i \in ClOrdID \ {id} : orders'[i] = orders[i]
        /\ orders'[id] = p
    BY <1>4, MovedOrders
  <2>6. orders[id].next \in Int
    BY <1>4 DEF EngineInv, TypeOK, OrderType
  <2>2. \A i \in ClOrdID : /\ orders'[i].orderID = orders[i].orderID
                           /\ orders'[i].next = orders[i].next
                           /\ orders'[i].cumQty = orders[i].cumQty
    BY <1>4, <2>1, <2>6 DEF OrderMoves
  <2>3. RowsMinted'
    BY <1>1, <1>4 DEF TableInv, RowsMinted
  <2>4. RowsArePrinted' /\ RowsSum'
    BY <1>1, <1>4, <2>1, <2>2 DEF TableInv, RowsArePrinted, RowsSum, RowsOf
  <2>5. ReportedIsRecorded'
    BY <1>1, <1>4 DEF TableInv, ReportedIsRecorded
  <2>. QED
    BY <2>3, <2>4, <2>5 DEF TableInv
<1>5. CASE CancelLive
  <2>1. \A r \in reports' : r \in reports \/ r.lastQty = 0
    BY <1>5 DEF CancelLive, canceled, report
  <2>2. UNCHANGED <<run, minted, err, rows>>
    BY <1>5 DEF CancelLive, loopVars
  <2>. QED
    BY <1>4, <1>5, <2>1, <2>2, CancelMoves
<1>6. CASE Unfilled
  <2>1. \A r \in reports' : r \in reports \/ r.lastQty = 0
    BY <1>6 DEF Unfilled, canceled, report
  <2>2. UNCHANGED <<run, minted, err, rows>>
    BY <1>6 DEF Unfilled, nextInTick
  <2>. QED
    BY <1>4, <1>6, <2>1, <2>2, UnfilledMoves
<1>7. CASE Fill
  <2>. DEFINE o == orders[first]
  <2>1. PICK p \in OrderType : OrderMoves(first, p) /\ p.next = o.next + 1
    BY <1>7, FillMoves
  <2>2. PICK f \in FillRow :
           /\ f \notin rows /\ rows' = rows \cup {f}
           /\ f.orderID = o.orderID
           /\ f.execID[1] = o.orderID[1] /\ f.execID[2] = o.orderID[2] /\ f.execID[3] = o.next
           /\ f.qty = o.slices[o.next]
           /\ \A r \in reports' : r \in reports \/ r.lastQty = 0 \/ fillRow(r) = f
    BY <1>7, FillRecords
  <2>3. UNCHANGED <<run, minted, err>> /\ first \in live /\ first \in ClOrdID
    BY <1>7, FirstIsLive DEF Fill, nextInTick
  <2>4. /\ \A i \in ClOrdID : known(i)' <=> known(i)
        /\ \A i \in ClOrdID \ {first} : orders'[i] = orders[i]
        /\ orders'[first] = p /\ known(first)
    BY <2>1, <2>3, MovedOrders DEF known
  <2>5. p.orderID = o.orderID /\ p.slices = o.slices /\ o.next \in Nat /\ o.next >= 1
        /\ o.orderID[1] = run /\ o.orderID[2] \in 1..minted.orders
    BY <2>1, <2>3, <2>4 DEF OrderMoves, EngineInv, KnownOrders, WellFormed
  <2>6. \A i \in ClOrdID \ {first} : known(i) => orders[i].orderID # o.orderID
    BY <2>3, <2>4 DEF EngineInv, OrderIDsDistinct
  <2>. HIDE DEF o
  <2>7. RowsMinted'
    <3>1. IsFiniteSet(rows')
      BY <1>1, <2>2, FS_AddElement DEF TableInv, RowsMinted
    <3>. QED
      BY <1>1, <2>2, <2>3, <2>5, <3>1 DEF TableInv, RowsMinted
  <2>8. RowsArePrinted'
    <3>. SUFFICES ASSUME NEW i \in ClOrdID, known(i)', NEW x \in rows',
                         x.orderID = orders'[i].orderID
                  PROVE  x.execID[3] < orders'[i].next
      BY DEF RowsArePrinted, RowsOf
    <3>1. x \in rows /\ x.orderID = orders[i].orderID => x.execID[3] < orders[i].next
      BY <1>1, <2>4 DEF TableInv, RowsArePrinted, RowsOf
    <3>2. CASE i # first
      BY <2>2, <2>4, <2>6, <3>1, <3>2
    <3>3. CASE i = first /\ x \in rows
      <4>1. x.execID[3] < o.next /\ x.execID[3] \in Nat
        BY <1>1, <2>4, <2>5, <3>1, <3>3 DEF o, TableInv, RowsMinted, FillRow
      <4>. QED
        BY <2>1, <2>4, <2>5, <3>3, <4>1
    <3>4. CASE i = first /\ x = f
      BY <2>1, <2>2, <2>4, <2>5, <3>4
    <3>. QED
      BY <2>2, <3>2, <3>3, <3>4
  <2>9. RowsSum'
    <3>. SUFFICES ASSUME err # "sink", NEW i \in ClOrdID, known(i)
                  PROVE  Total(RowsOf(orders[i]))' = orders'[i].cumQty
      BY <2>3, <2>4 DEF RowsSum
    <3>1. Total(RowsOf(orders[i])) = orders[i].cumQty
      BY <1>1 DEF TableInv, RowsSum
    <3>2. CASE i # first
      <4>1. RowsOf(orders[i])' = RowsOf(orders[i])
        BY <2>2, <2>4, <2>6, <3>2 DEF RowsOf
      <4>. QED
        BY <2>4, <3>1, <3>2, <4>1
    <3>3. CASE i = first
      <4>. DEFINE R == RowsOf(orders[i])
      <4>1. RowsOf(orders[i])' = R \cup {f} /\ f \notin R
        BY <2>2, <2>4, <2>5, <3>3 DEF RowsOf, o
      <4>2. R \in SUBSET rows /\ IsFiniteSet(rows) /\ \A x \in R : x.qty \in Int
        BY <1>1 DEF TableInv, RowsMinted, RowsOf, FillRow
      <4>3. IsFiniteSet(R)
        BY <4>2, FS_Subset
      <4>4. f.qty \in Int
        BY DEF FillRow
      <4>. HIDE DEF R
      <4>5. Total(R \cup {f}) = Total(R) + f.qty
        BY <4>1, <4>2, <4>3, <4>4, TotalAdds
      <4>6. Total(RowsOf(orders[i]))' = Total(R \cup {f})
        BY <4>1
      <4>7. p.cumQty = o.cumQty + o.slices[o.next]
        BY <2>1, <2>3, <2>5 DEF OrderMoves, o
      <4>8. Total(R) = o.cumQty
        BY <3>1, <3>3 DEF R, o
      <4>. QED
        BY <2>2, <2>4, <3>3, <4>5, <4>6, <4>7, <4>8
    <3>. QED
      BY <3>2, <3>3
  <2>10. ReportedIsRecorded'
    BY <1>1, <2>2 DEF TableInv, ReportedIsRecorded
  <2>. QED
    BY <2>7, <2>8, <2>9, <2>10 DEF TableInv
<1>8. CASE FillRefused
  <2>. DEFINE o == orders[first]
  <2>1. PICK p \in OrderType : OrderMoves(first, p) /\ p.next = o.next + 1
    BY <1>8, FillMoves
  <2>2. UNCHANGED <<run, minted, rows, reports>> /\ err' = "sink" /\ first \in live /\ first \in ClOrdID
    BY <1>8, FirstIsLive DEF FillRefused, outVars
  <2>3. /\ \A i \in ClOrdID : known(i)' <=> known(i)
        /\ \A i \in ClOrdID \ {first} : orders'[i] = orders[i]
        /\ orders'[first] = p /\ known(first)
    BY <2>1, <2>2, MovedOrders DEF known
  <2>4. p.orderID = o.orderID /\ p.slices = o.slices /\ o.next \in Nat
    BY <2>1, <2>2, <2>3 DEF OrderMoves, EngineInv, KnownOrders, WellFormed
  <2>5. RowsMinted' /\ RowsSum' /\ ReportedIsRecorded'
    BY <1>1, <2>2 DEF TableInv, RowsMinted, RowsSum, ReportedIsRecorded
  <2>6. RowsArePrinted'
    <3>. SUFFICES ASSUME NEW i \in ClOrdID, known(i), NEW x \in rows,
                         x.orderID = orders[i].orderID
                  PROVE  x.execID[3] < orders'[i].next
      BY <2>2, <2>3, <2>4 DEF RowsArePrinted, RowsOf
    <3>1. x.execID[3] < orders[i].next /\ x.execID[3] \in Nat
      BY <1>1 DEF TableInv, RowsArePrinted, RowsOf, RowsMinted, FillRow
    <3>. QED
      BY <2>1, <2>3, <2>4, <3>1
  <2>. QED
    BY <2>5, <2>6 DEF TableInv
<1>9. CASE Restart
  <2>1. /\ rows' \subseteq rows /\ run' = run + 1 /\ reports' = {}
        /\ live' = {} /\ final' = [id \in ClOrdID |-> "none"]
    BY <1>9 DEF Restart
  <2>2. RowsMinted'
    <3>1. IsFiniteSet(rows')
      BY <1>1, <2>1, FS_Subset DEF TableInv, RowsMinted
    <3>. QED
      BY <1>1, <2>1, <3>1 DEF TableInv, RowsMinted, FillRow
  <2>3. \A id \in ClOrdID : ~known(id)'
    BY <2>1 DEF known
  <2>. QED
    BY <2>1, <2>2, <2>3 DEF TableInv, RowsArePrinted, RowsSum, ReportedIsRecorded
<1>10. CASE CancelRejected \/ TickBegins \/ DeliverStopped \/ FromApp \/ Stop \/ RecordBook \/ Clock
            \/ UNCHANGED vars
  <2>1. UNCHANGED <<run, minted, live, final, orders, rows, reports>> /\ err' \in {err, "send"}
    BY <1>10 DEF CancelRejected, TickBegins, DeliverStopped, FromApp, Stop, RecordBook, Clock,
                 vars, orderVars, loopVars, outVars
  <2>2. err' # "sink" => err # "sink"
    <3>1. CASE CancelRejected
      <4>1. pc = "select"
        BY <3>1 DEF CancelRejected, taken
      <4>. QED
        BY <4>1 DEF EngineInv, ErrorsStop
    <3>2. CASE ~CancelRejected
      BY <1>10, <3>2 DEF TickBegins, DeliverStopped, FromApp, Stop, RecordBook, Clock, vars, loopVars
    <3>. QED
      BY <3>1, <3>2
  <2>. QED
    BY <1>1, <2>1, <2>2
       DEF TableInv, RowsMinted, RowsArePrinted, RowsSum, ReportedIsRecorded, RowsOf, known
<1>. QED
  BY <1>2, <1>3, <1>5, <1>6, <1>7, <1>8, <1>9, <1>10 DEF Next, Handle, Receive, Evaluate

-----------------------------------------------------------------------------
(* The theorems.                                                           *)

LEMMA EngineInit == Init => EngineInv
<1>. SUFFICES ASSUME Init PROVE EngineInv
  OBVIOUS
<1>1. NoOrder \in OrderType /\ WithinLimit(NoOrder)
  BY DEF NoOrder, OrderType, WithinLimit, Scale
<1>2. \A id \in ClOrdID : ~known(id) /\ orders[id] = NoOrder /\ final[id] = "none"
  BY DEF Init, known
<1>3. market \in [ts : Int, bid : Nat, ask : Nat] /\ book \in [ts : Int, bid : Nat, ask : Nat]
  BY EngineAssumption DEF Init, NoBook
<1>4. TypeOK
  BY <1>1, <1>3, EngineAssumption DEF Init, TypeOK, Inbound
<1>5. ErrorsStop /\ KnownOrders /\ OrderIDsDistinct /\ LiveOrders /\ EndedOrders
  BY <1>2 DEF Init, ErrorsStop, KnownOrders, OrderIDsDistinct, LiveOrders, EndedOrders
<1>6. RowsMinted /\ RowsArePrinted /\ RowsSum /\ ReportedIsRecorded /\ IOCNeverRests
  BY <1>2, FS_EmptySet DEF Init, RowsMinted, RowsArePrinted, RowsSum, ReportedIsRecorded, IOCNeverRests
<1>. QED
  BY <1>4, <1>5, <1>6 DEF EngineInv

LEMMA EngineStep == EngineInv /\ [Next]_vars => EngineInv'
  BY OrdersStep, LoopStep, TableStep, IOCStep DEF EngineInv, OrdersInv, TableInv

THEOREM EngineInvariant == Spec => []EngineInv
  BY EngineInit, EngineStep, PTL DEF Spec

(* Every variable of the engine holds a value of its type.                 *)
THEOREM EngineTypes == Spec => []TypeOK
<1>1. EngineInv => TypeOK
  BY DEF EngineInv
<1>. QED
  BY <1>1, EngineInvariant, PTL

(* A fill the client was told of is in the fills table as it was told, in  *)
(* every life of the process and whatever the writer refuses (onFill and   *)
(* fillRow of internal/fix/engine.go).                                     *)
THEOREM ReportsAreRecorded == Spec => []ReportedIsRecorded
<1>1. EngineInv => ReportedIsRecorded
  BY DEF EngineInv
<1>. QED
  BY <1>1, EngineInvariant, PTL

(* No order trades past its limit over its slices, and no IOC order stays  *)
(* on the book partly filled, whatever the book and the fill model.        *)
THEOREM TermsAreKept == Spec => []TermsKept
<1>1. EngineInv => LimitHolds
  <2>1. WithinLimit(NoOrder)
    BY DEF NoOrder, WithinLimit, Scale
  <2>. QED
    BY <2>1 DEF EngineInv, KnownOrders, WellFormed, LimitHolds
<1>2. EngineInv => TermsKept
  BY <1>1 DEF EngineInv, TermsKept
<1>. QED
  BY <1>2, EngineInvariant, PTL

(* Everything has printed exactly when no slice is left.                   *)
LEMMA DoneIsFilled ==
    ASSUME NEW o \in OrderType, WellFormed(o)
    PROVE  o.cumQty <= o.qty /\ (o.cumQty = o.qty <=> Done(o))
<1>. DEFINE n == Len(o.slices)
            b == o.slices[1]
<1>1. o.slices \in Seq(Nat) /\ n \in Nat /\ n > 0 /\ o.qty \in Nat
  BY DEF OrderType, WellFormed, Sliced
<1>2. b \in Nat /\ b > 0 /\ o.slices[n] > 0 /\ o.slices[n] = o.qty - b * (n - 1)
  BY <1>1 DEF WellFormed, Sliced
<1>3. o.next \in 1..(n + 1) /\ o.cumQty = IF Done(o) THEN o.qty ELSE b * (o.next - 1)
  BY DEF WellFormed
<1>4. CASE ~Done(o)
  <2>1. o.next - 1 \in Nat /\ n - 1 \in Nat /\ o.next - 1 <= n - 1
    BY <1>1, <1>3, <1>4 DEF Done
  <2>2. b * (o.next - 1) <= b * (n - 1)
    BY <1>2, <2>1
  <2>3. b * (n - 1) \in Nat /\ b * (o.next - 1) \in Nat
    BY <1>2, <2>1
  <2>4. b * (n - 1) < o.qty
    BY <1>1, <1>2, <2>3
  <2>. QED
    BY <1>1, <1>3, <1>4, <2>2, <2>3, <2>4
<1>. QED
  BY <1>1, <1>3, <1>4

(* Until the writer refuses a row, the rows of an order add up to what the *)
(* venue says it filled, to the whole order exactly when it is FILLED and  *)
(* never to more, for every fill model and any number of lives.            *)
THEOREM RowsAlwaysAddUp == Spec => []RowsAddUp
<1>1. ASSUME EngineInv, err # "sink", NEW id \in ClOrdID, known(id)
      PROVE  /\ Total(RowsOf(orders[id])) = orders[id].cumQty
             /\ orders[id].cumQty <= orders[id].qty
             /\ final[id] = "FILLED" <=> orders[id].cumQty = orders[id].qty
  <2>1. Total(RowsOf(orders[id])) = orders[id].cumQty
    BY <1>1 DEF EngineInv, RowsSum
  <2>2. orders[id] \in OrderType /\ WellFormed(orders[id])
    BY <1>1 DEF EngineInv, TypeOK, KnownOrders
  <2>3. final[id] = "FILLED" <=> Done(orders[id])
    BY <1>1 DEF EngineInv, TypeOK, LiveOrders, EndedOrders, known
  <2>. QED
    BY <2>1, <2>2, <2>3, DoneIsFilled
<1>2. EngineInv => RowsAddUp
  BY <1>1 DEF RowsAddUp, Total
<1>. QED
  BY <1>2, EngineInvariant, PTL

-----------------------------------------------------------------------------
(* The engine implements the life of an order, one per id and life of the  *)
(* process.                                                                *)

(* Two functions that differ at one argument.                              *)
LEMMA DiffersAt ==
    ASSUME NEW S, NEW f, NEW g, NEW id \in S, NEW v,
           f = [i \in S |-> f[i]], g = [i \in S |-> g[i]],
           \A i \in S : g[i] = IF i = id THEN v ELSE f[i]
    PROVE  g = [f EXCEPT ![id] = v]
<1>. DEFINE h == [f EXCEPT ![id] = v]
<1>1. h = [i \in S |-> h[i]] /\ \A i \in S : h[i] = g[i]
  OBVIOUS
<1>. HIDE DEF h
<1>2. g = h
  BY <1>1
<1>. QED
  BY <1>2 DEF h

(* A step that changes the state and the fills of one id only.             *)
LEMMA LifeMoves ==
    ASSUME NEW id \in ClOrdID, NEW s, NEW c \in Nat,
           LifeState(id)' = s, orders'[id].cumQty = c,
           \A i \in ClOrdID \ {id} : LifeState(i)' = LifeState(i)
                                     /\ orders'[i].cumQty = orders[i].cumQty
    PROVE  /\ Life!Moves(id, s)
           /\ [i \in ClOrdID |-> orders[i].cumQty]'[id] = c
<1>. DEFINE state == [i \in ClOrdID |-> LifeState(i)]
            stateN == [i \in ClOrdID |-> LifeState(i)']
            cum == [i \in ClOrdID |-> orders[i].cumQty]
            cumN == [i \in ClOrdID |-> orders'[i].cumQty]
<1>1. stateN = [state EXCEPT ![id] = s]
  <2>1. \A i \in ClOrdID : stateN[i] = IF i = id THEN s ELSE state[i]
    OBVIOUS
  <2>2. state = [i \in ClOrdID |-> state[i]] /\ stateN = [i \in ClOrdID |-> stateN[i]]
    OBVIOUS
  <2>. HIDE DEF state, stateN
  <2>. QED
    BY <2>1, <2>2, DiffersAt
<1>2. cumN = [cum EXCEPT ![id] = c]
  <2>1. \A i \in ClOrdID : cumN[i] = IF i = id THEN c ELSE cum[i]
    OBVIOUS
  <2>2. cum = [i \in ClOrdID |-> cum[i]] /\ cumN = [i \in ClOrdID |-> cumN[i]]
    OBVIOUS
  <2>. HIDE DEF cum, cumN
  <2>. QED
    BY <2>1, <2>2, DiffersAt
<1>3. cumN[id] = c
  OBVIOUS
<1>. QED
  BY <1>1, <1>2, <1>3 DEF Life!Moves

(* An order on the book that moves on: it fills some more and stays, it    *)
(* ends, or nothing a client is told of has changed.                       *)
LEMMA BookStep ==
    ASSUME EngineInv, NEW id \in live, NEW p \in OrderType, OrderMoves(id, p),
           UNCHANGED <<run, minted>>
    PROVE  [Life!LifeNext]_(Life!lifeVars)
<1>1. /\ id \in ClOrdID /\ live \subseteq ClOrdID
      /\ orders \in [ClOrdID -> OrderType] /\ orders[id] \in OrderType
      /\ final \in [ClOrdID -> {"none", "FILLED", "CANCELED"}] /\ final[id] = "none"
  BY DEF EngineInv, TypeOK, LiveOrders
<1>2. /\ \A i \in ClOrdID \ {id} : orders'[i] = orders[i]
      /\ orders'[id] = p
  BY MovedOrders
<1>3. /\ p.cumQty \in Nat /\ orders[id].cumQty \in Nat /\ p.cumQty >= orders[id].cumQty
  <2>1. p.cumQty \in Nat /\ orders[id].cumQty \in Nat
    BY <1>1 DEF OrderType
  <2>2. \/ p.cumQty = orders[id].cumQty
        \/ \E q \in Nat : q > 0 /\ p.cumQty = orders[id].cumQty + q
    BY <1>1, MovedSlice
  <2>. QED
    BY <2>1, <2>2
<1>4. \A i \in ClOrdID \ {id} : LifeState(i)' = LifeState(i) /\ orders'[i].cumQty = orders[i].cumQty
  BY <1>1, <1>2 DEF OrderMoves, LifeState
<1>5. LifeState(id) \in {"NEW", "PARTIAL"}
  BY <1>1, <1>3 DEF LifeState
<1>6. CASE UNCHANGED <<live, final>> /\ p.cumQty = orders[id].cumQty
  <2>1. \A i \in ClOrdID : LifeState(i)' = LifeState(i) /\ orders'[i].cumQty = orders[i].cumQty
    BY <1>2, <1>4, <1>6 DEF LifeState
  <2>. QED
    BY <2>1 DEF Life!lifeVars
<1>7. CASE UNCHANGED <<live, final>> /\ p.cumQty > orders[id].cumQty
  <2>1. LifeState(id)' = "PARTIAL"
    BY <1>2, <1>3, <1>7 DEF LifeState
  <2>2. Life!Moves(id, "PARTIAL") /\ [i \in ClOrdID |-> orders[i].cumQty]'[id] = p.cumQty
    BY <1>1, <1>2, <1>3, <1>4, <2>1, LifeMoves
  <2>3. Life!Partial(id)
    BY <1>1, <1>5, <1>7, <2>2 DEF Life!Partial, Life!Ends, Life!Closed
  <2>. QED
    BY <1>1, <2>3 DEF Life!LifeNext
<1>8. CASE live' = live \ {id}
  <2>1. PICK e \in {"FILLED", "CANCELED"} : LifeState(id)' = e
    BY <1>1, <1>2, <1>8 DEF OrderMoves, LifeState
  <2>2. Life!Moves(id, e) /\ [i \in ClOrdID |-> orders[i].cumQty]'[id] = p.cumQty
    BY <1>1, <1>2, <1>3, <1>4, <2>1, LifeMoves
  <2>3. Life!End(id)
    BY <1>1, <1>3, <1>5, <2>1, <2>2 DEF Life!End, Life!Ends, Life!Closed
  <2>. QED
    BY <1>1, <2>3 DEF Life!LifeNext
<1>. QED
  BY <1>3, <1>6, <1>7, <1>8 DEF OrderMoves

LEMMA LifeStep ==
    ASSUME EngineInv, [Next]_vars
    PROVE  [Restart \/ Life!LifeNext]_(Life!lifeVars)
<1>1. CASE Accept
  <2>1. PICK id \in ClOrdID : id = inbound.id /\ ~known(id)
    BY <1>1, AcceptedOrder
  <2>2. PICK p \in OrderType : orders' = [orders EXCEPT ![id] = p] /\ p.cumQty = 0
    BY <1>1, <2>1, AcceptedOrder
  <2>3. live' = live \cup {id} /\ final' = final /\ orders \in [ClOrdID -> OrderType]
    BY <1>1, <2>1 DEF Accept, EngineInv, TypeOK
  <2>4. LifeState(id) = "NONE" /\ LifeState(id)' = "NEW" /\ orders'[id].cumQty = 0
    BY <2>1, <2>2, <2>3 DEF LifeState, known
  <2>5. \A i \in ClOrdID \ {id} : LifeState(i)' = LifeState(i) /\ orders'[i].cumQty = orders[i].cumQty
    BY <2>1, <2>2, <2>3 DEF LifeState
  <2>6. Life!Moves(id, "NEW")
    BY <2>1, <2>4, <2>5, LifeMoves
  <2>7. Life!Acknowledge(id)
    BY <2>1, <2>4, <2>6 DEF Life!Acknowledge
  <2>. QED
    BY <2>1, <2>7 DEF Life!LifeNext
<1>2. CASE CancelLive
  BY <1>2, CancelMoves, BookStep DEF CancelLive
<1>3. CASE Unfilled
  BY <1>3, UnfilledMoves, BookStep DEF Unfilled
<1>4. CASE Fill \/ FillRefused
  BY <1>4, FillMoves, BookStep DEF Fill, FillRefused
<1>5. CASE Reject \/ CancelRejected \/ TickBegins \/ DeliverStopped \/ FromApp \/ Stop \/ RecordBook
           \/ Clock \/ UNCHANGED vars
  <2>1. UNCHANGED <<live, final, orders>>
    BY <1>5 DEF Reject, CancelRejected, TickBegins, DeliverStopped, FromApp, Stop, RecordBook, Clock,
                vars, orderVars
  <2>. QED
    BY <2>1 DEF Life!lifeVars, LifeState
<1>. QED
  BY <1>1, <1>2, <1>3, <1>4, <1>5 DEF Next, Handle, Receive, Evaluate

(* The engine implements OrderLife: in one life of the process an id is    *)
(* acknowledged once, its filled quantity only rises while it is open, and *)
(* once it has ended it never moves again (evaluate, finish and accept of  *)
(* internal/fix/engine.go).                                                *)
THEOREM EngineImplementsOrderLife == Spec => ImplementsOrderLife
<1>1. Init => Life!LifeInit
  <2>1. ASSUME Init PROVE \A i \in ClOrdID : LifeState(i) = "NONE" /\ orders[i].cumQty = 0
    BY <2>1 DEF Init, LifeState, NoOrder
  <2>. QED
    BY <2>1 DEF Life!LifeInit
<1>2. EngineInv /\ [Next]_vars => [Restart \/ Life!LifeNext]_(Life!lifeVars)
  BY LifeStep
<1>. QED
  BY <1>1, <1>2, EngineInvariant, PTL DEF Spec, ImplementsOrderLife
=============================================================================
