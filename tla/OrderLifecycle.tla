--------------------------- MODULE OrderLifecycle ---------------------------
(***************************************************************************)
(* What the order services promise about an order, with no reservation,    *)
(* clock, transaction or payment in sight (the transition table and the    *)
(* draft check of services/orders_s.py, the compare-and-swap of            *)
(* services/stock_reservations_s.py):                                      *)
(*   - a basket may change only until the order is submitted;              *)
(*   - a submitted order is settled or dropped, and settled is final;      *)
(*   - the physical stock moves when the shop counts it (Restock) and when *)
(*     an order is settled, and then by exactly the basket of that order.  *)
(* The transition table makes dropped final too, but a late report of the  *)
(* provider can revive a dropped order that is still being held in part;   *)
(* only that part is then debited (Revive).                                *)
(* StockReservations implements it.                                        *)
(***************************************************************************)
EXTENDS Naturals

CONSTANTS
    Orders,    \* identifiers of the orders
    Variants,  \* identifiers of the product variants
    Measured   \* the variants sold by measure: their stock is not counted

VARIABLES
    phase,     \* the status of each order
    basket,    \* the quantity of each variant in each order, 0 = none
    stock      \* the physical stock of each variant

vars == <<phase, basket, stock>>

Phases == {"none", "draft", "submitted", "paid", "cancelled"}

\* An order whose basket is still the customer's to change.
Open(o) == phase[o] \in {"none", "draft"}

Init ==
    /\ phase = [o \in Orders |-> "none"]
    /\ basket = [o \in Orders |-> [v \in Variants |-> 0]]
    /\ stock \in [Variants -> Nat]

\* The basket of o, and no other, becomes anything.
Rebasket(o) ==
    /\ basket'[o] \in [Variants -> Nat]
    /\ basket' = [basket EXCEPT ![o] = basket'[o]]

Draft(o) ==
    /\ Open(o)
    /\ phase' = [phase EXCEPT ![o] = "draft"]
    /\ Rebasket(o)
    /\ UNCHANGED stock

Submit(o) ==
    /\ Open(o)
    /\ phase' = [phase EXCEPT ![o] = "submitted"]
    /\ Rebasket(o)
    /\ \E v \in Variants : basket'[o][v] > 0
    /\ UNCHANGED stock

\* Settling debits the whole basket at once, and only if all of it is there.
Settle(o) ==
    /\ phase[o] = "submitted"
    /\ \A v \in Variants \ Measured : stock[v] >= basket[o][v]
    /\ phase' = [phase EXCEPT ![o] = "paid"]
    /\ stock' = [v \in Variants |->
                    IF v \in Measured THEN stock[v] ELSE stock[v] - basket[o][v]]
    /\ UNCHANGED basket

\* A dropped order is settled after all, for the part of its basket that is still
\* held: some of it, and never the whole.
Revive(o) ==
    /\ phase[o] = "cancelled"
    /\ \E held \in SUBSET {v \in Variants : basket[o][v] > 0} :
        /\ held # {}
        /\ \E v \in Variants \ held : basket[o][v] > 0
        /\ \A v \in held \ Measured : stock[v] >= basket[o][v]
        /\ stock' = [v \in Variants |->
                        IF v \in held \ Measured THEN stock[v] - basket[o][v] ELSE stock[v]]
    /\ phase' = [phase EXCEPT ![o] = "paid"]
    /\ UNCHANGED basket

\* One sweep may drop several orders.
Drop(S) ==
    /\ \A o \in S : phase[o] = "submitted"
    /\ phase' = [o \in Orders |-> IF o \in S THEN "cancelled" ELSE phase[o]]
    /\ UNCHANGED <<basket, stock>>

Restock(v) ==
    /\ stock'[v] \in Nat
    /\ stock' = [stock EXCEPT ![v] = stock'[v]]
    /\ UNCHANGED <<phase, basket>>

Next ==
    \/ \E o \in Orders : Draft(o) \/ Submit(o) \/ Settle(o) \/ Revive(o)
    \/ \E S \in SUBSET Orders : Drop(S)
    \/ \E v \in Variants : Restock(v)

Spec == Init /\ [][Next]_vars
=============================================================================
