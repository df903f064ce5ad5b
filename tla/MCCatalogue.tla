---------------------------- MODULE MCCatalogue ----------------------------
\* One category, one product, one discount, two requests at once; pricing is also compared
\* with the code's loop over small amounts.
EXTENDS Catalogue, TLC, SequencesExt

CONSTANTS p1, c1

Patch(t, v, s, c, p, l) ==
    [type |-> t, value |-> v, scope |-> s, category |-> c, product |-> p, list |-> l]
MCPatches ==
    { Patch("percent", 50, None, None, None, None),
      Patch(None, 150, None, None, None, None),
      Patch(None, None, "category", c1, None, None),
      Patch(None, None, "product", None, p1, None),
      Patch(None, None, "product_list", None, None, {p1}),
      Patch("fixed", 150, None, None, None, None),
      Patch(None, None, None, None, None, None) }

Symmetry == Permutations(Workers)

\* The loop of select_best_discount.
LoopBest(unit, offers) ==
    LET step(best, d) == IF Saving(unit, offers[d]) > best.amount
                         THEN [offer |-> d, amount |-> Saving(unit, offers[d])] ELSE best
    IN  FoldLeft(step, [offer |-> None, amount |-> 0],
                 SetToSortSeq(DOMAIN offers, LAMBDA d, e : d < e)).offer

Offer == [type : {"percent", "fixed"}, value : {1, 2, 33, 50, 100, 150}]
ASSUME LoopAssumption ==
    \A ids \in SUBSET {1, 2} : \A offers \in [ids -> Offer] : \A unit \in 0..5 \cup {149, 199} :
        Best(unit, offers) = LoopBest(unit, offers)

\* ROUND_HALF_UP: the nearest whole number of cents, the upper of two.
ASSUME RoundingAssumption ==
    \A unit \in 0..40, percent \in 1..100 :
        LET cents == HalfUp(unit, percent)
        IN  /\ 2 * (100 * cents - unit * percent) <= 100
            /\ 2 * (unit * percent - 100 * cents) < 100
=============================================================================
