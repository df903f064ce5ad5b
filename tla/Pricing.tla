------------------------------ MODULE Pricing ------------------------------
(***************************************************************************)
(* What an article costs (services/money_s.py, services/discount_s.py):    *)
(* amounts are whole cents, at most one discount applies, and it is the    *)
(* one that saves the most.  Operators only; a discount is a record with   *)
(* the fields of its row.                                                  *)
(***************************************************************************)
EXTENDS Integers, FiniteSets

CONSTANT None   \* a null column

\* A percentage of an amount, rounded half up to the cent.
HalfUp(amount, percent) == (amount * percent + 50) \div 100

AtMost(limit, amount) == IF amount > limit THEN limit ELSE amount

\* Mutation: a discount larger than the price is not cut down to it.
SavingUncapped(unit, offer) ==
    IF offer.type = "percent" THEN HalfUp(unit, offer.value) ELSE offer.value

\* What a discount takes off the unit price: never more than the price.
Saving(unit, offer) ==
    IF offer.type = "percent"
    THEN AtMost(unit, HalfUp(unit, offer.value))
    ELSE AtMost(unit, offer.value)

\* Whether a discount, with its list of products, is for a product of a category.
Covers(offer, list, product, category) ==
    \/ offer.scope = "all"
    \/ offer.scope = "category" /\ offer.category = category
    \/ offer.scope = "product" /\ offer.product = product
    \/ offer.scope = "product_list" /\ product \in list

\* Of the discounts (numbered as they were created) the one that saves the most, the
\* oldest of them when several do, none when nothing is saved.
Best(unit, offers) ==
    LET saves(d) == Saving(unit, offers[d])
        winners == {d \in DOMAIN offers : /\ saves(d) > 0
                                          /\ \A e \in DOMAIN offers : saves(e) <= saves(d)}
    IN  IF winners = {} THEN None
        ELSE CHOOSE d \in winners : \A e \in winners : d <= e

\* The discount taken off a unit price, and what is left to pay.
SavedOn(unit, offers) ==
    IF Best(unit, offers) = None THEN 0 ELSE Saving(unit, offers[Best(unit, offers)])
Final(unit, offers) == unit - SavedOn(unit, offers)

\* The storefront's page of a product: the cheapest price before and after the discounts.
Cheapest(amounts) == CHOOSE a \in amounts : \A b \in amounts : a <= b
ShownBefore(prices) == Cheapest(prices)
ShownAfter(prices, offers) == Cheapest({Final(u, offers) : u \in prices})
ShownAsReduced(prices, offers) == ShownAfter(prices, offers) < ShownBefore(prices)
=============================================================================
