-------------------------- MODULE CatalogueProofs --------------------------
(***************************************************************************)
(* What is proved of prices and of Catalogue, for any prices, discounts,   *)
(* edits and numbers of requests.                                          *)
(***************************************************************************)
EXTENDS Catalogue, WellFoundedInduction, TLAPS

Row == [type : {"percent", "fixed"}, value : Values \cup {1},
        scope : {"all", "category", "product", "product_list"},
        category : Categories \cup {None}, product : Products \cup {None}]
Line == [qty : Nat, unit : Nat, saved : Nat, offer : Discounts \cup {None}]
EditTask == [does : {"edit"}, at : {"read", "unlinking", "linked"}, discount : Discounts,
             seen : Row, wanted : Row, list : SUBSET Products, doomed : SUBSET Products,
             added : SUBSET Products]
BasketTask == [does : {"basket"}, at : {"asked", "taken", "priced"},
               kind : {"replace", "submit", "checkout"}, order : Orders \cup {None},
               drafts : SUBSET Orders, read : [Products -> Discounts \cup {None}],
               lines : [Products -> Line]]
Task == {Idle} \cup EditTask \cup BasketTask
Patch == [type : {"percent", "fixed", None}, value : Values \cup {None},
          scope : {"all", "category", "product", "product_list", None},
          category : Categories \cup {None}, product : Products \cup {None},
          list : (SUBSET Products) \cup {None}]

CatalogueTyped ==
    /\ categories \subseteq Categories
    /\ shelf \in [Products -> Categories \cup {None}]
    /\ price \in [Products -> Prices \cup {0}]
    /\ onSale \subseteq Products
PromotionsTyped ==
    /\ discounts \subseteq Discounts
    /\ row \in [Discounts -> Row]
    /\ list \in [Discounts -> SUBSET Products]
    /\ inForce \subseteq discounts
OrdersTyped ==
    /\ status \in [Orders -> {"none", "draft", "submitted"}]
    /\ lines \in [Orders -> [Products -> Line]]
    /\ \A o \in Orders, p \in Products : lines[o][p].saved <= lines[o][p].unit
WorkersTyped ==
    /\ worker \in [Workers -> Task]
    /\ \A w \in Workers, p \in Products : worker[w].does = "basket" =>
           worker[w].lines[p].saved <= worker[w].lines[p].unit
CountsTyped ==
    /\ retired \subseteq Categories \cup Products \cup Discounts
    /\ changes \in 0..MaxChanges
    /\ baskets \in 0..MaxBaskets

\* What holds of the rows a request under way has locked or refers to.
OnSalePriced ==
    \A p \in Products : /\ p \in onSale => price[p] > 0
                        /\ price[p] > 0 => Exists(p)
OneHolder == \A v, w \in Workers, o \in Orders : Holds(v, o) /\ Holds(w, o) => v = w
HeldOpen == \A w \in Workers, o \in Orders : Holds(w, o) => status[o] # "submitted"
CarriedExist == \A w \in Workers, p \in Products : Carries(w, p) => Exists(p)
CarriedPriced ==
    \A w \in Workers, p \in Products :
        worker[w].does = "basket" /\ worker[w].at # "asked" /\ worker[w].lines[p].qty > 0
            => price[p] > 0
Inv == /\ TypeOK /\ ReferencesHold
       /\ OnSalePriced /\ OneHolder /\ HeldOpen /\ CarriedExist /\ CarriedPriced

-----------------------------------------------------------------------------
\* Any amounts there are have a least one.
LEMMA Least ==
    ASSUME NEW S \in SUBSET Nat, S # {}
    PROVE  \E m \in S : \A n \in S : m <= n
  <1>1. PICK m \in S : \A n \in S : <<n, m>> \notin OpToRel(<, Nat)
    BY NatLessThanWellFounded, WFMin, Zenon
  <1>2. \A n \in S : ~(n < m)
    BY <1>1, Zenon DEF OpToRel
  <1>. HIDE <1>1
  <1>. QED
    BY <1>2

\* Rounding: the nearest cent, the upper of two.
LEMMA Rounded ==
    ASSUME NEW u \in Nat, NEW p \in Nat
    PROVE  /\ HalfUp(u, p) \in Nat
           /\ 2 * (100 * HalfUp(u, p) - u * p) <= 100
           /\ 2 * (u * p - 100 * HalfUp(u, p)) < 100
  <1>. DEFINE m == u * p
  <1>1. m \in Nat
    OBVIOUS
  <1>2. HalfUp(u, p) = (m + 50) \div 100
    BY DEF HalfUp
  <1>. HIDE DEF m
  <1>3. /\ (m + 50) \div 100 \in Nat
        /\ 2 * (100 * ((m + 50) \div 100) - m) <= 100
        /\ 2 * (m - 100 * ((m + 50) \div 100)) < 100
    BY <1>1
  <1>. QED
    BY <1>2, <1>3 DEF m

LEMMA Saves ==
    ASSUME NEW u \in Nat, NEW d, d.type \in {"percent", "fixed"}, d.value \in Nat
    PROVE  Saving(u, d) \in 0..u
  <1>1. HalfUp(u, d.value) \in Nat
    BY Rounded
  <1>. QED
    BY <1>1 DEF Saving, AtMost

\* The discount chosen saves the most, and the oldest of those is chosen; none when none
\* saves anything.
LEMMA Chosen ==
    ASSUME NEW u \in Nat, NEW offers, DOMAIN offers \subseteq Nat, None \notin Nat,
           \A d \in DOMAIN offers : offers[d].type \in {"percent", "fixed"} /\ offers[d].value \in Nat
    PROVE  LET b == Best(u, offers)
           IN  /\ b \in DOMAIN offers \cup {None}
               /\ b = None => \A d \in DOMAIN offers : Saving(u, offers[d]) = 0
               /\ b # None =>
                    /\ Saving(u, offers[b]) > 0
                    /\ \A d \in DOMAIN offers :
                         /\ Saving(u, offers[d]) <= Saving(u, offers[b])
                         /\ Saving(u, offers[d]) = Saving(u, offers[b]) => b <= d
  <1>. DEFINE saves(d) == Saving(u, offers[d])
              winners == {d \in DOMAIN offers : /\ saves(d) > 0
                                                /\ \A e \in DOMAIN offers : saves(e) <= saves(d)}
              left == {u - saves(d) : d \in DOMAIN offers}
  <1>1. \A d \in DOMAIN offers : saves(d) \in 0..u
    BY Saves
  <1>2. Best(u, offers) = IF winners = {} THEN None
                          ELSE CHOOSE d \in winners : \A e \in winners : d <= e
    BY DEF Best
  <1>3. winners \subseteq DOMAIN offers /\ winners \in SUBSET Nat
    OBVIOUS
  <1>4. ASSUME winners # {}
        PROVE  Best(u, offers) \in winners /\ \A e \in winners : Best(u, offers) <= e
    BY <1>2, <1>3, <1>4, Least
  <1>5. ASSUME NEW x \in DOMAIN offers, saves(x) > 0
        PROVE  winners # {}
    <2>1. left \in SUBSET Nat /\ left # {}
      BY <1>1
    <2>2. PICK m \in left : \A n \in left : m <= n
      <3>. HIDE DEF left
      <3>. QED
        BY <2>1, Least
    <2>3. PICK y \in DOMAIN offers : m = u - saves(y)
      BY <2>2
    <2>4. \A e \in DOMAIN offers : u - saves(y) <= u - saves(e)
      BY <2>2, <2>3
    <2>5. \A e \in DOMAIN offers : saves(e) <= saves(y)
      <3>. HIDE DEF saves
      <3>. QED
        BY <2>4, <1>1
    <2>6. saves(y) > 0
      <3>. HIDE DEF saves
      <3>. QED
        BY <2>5, <1>5, <1>1
    <2>. QED
      BY <2>5, <2>6
  <1>6. CASE winners = {}
    <2>1. \A d \in DOMAIN offers : saves(d) = 0
      <3>. SUFFICES ASSUME NEW d \in DOMAIN offers PROVE saves(d) = 0
        OBVIOUS
      <3>. HIDE DEF saves, winners
      <3>. QED
        BY <1>1, <1>5, <1>6
    <2>. QED
      BY <2>1, <1>2, <1>6
  <1>7. CASE winners # {}
    <2>. DEFINE b == Best(u, offers)
    <2>1. b \in winners /\ b # None
      BY <1>4, <1>7, <1>3
    <2>2. saves(b) > 0 /\ \A d \in DOMAIN offers : saves(d) <= saves(b)
      BY <2>1
    <2>3. ASSUME NEW d \in DOMAIN offers, saves(d) = saves(b)
          PROVE  b <= d
      BY <2>2, <2>3, <1>4, <1>7
    <2>. QED
      BY <2>1, <2>2, <2>3, <1>3
  <1>. QED
    BY <1>6, <1>7

-----------------------------------------------------------------------------
LEMMA Typed == TypeOK <=> /\ CatalogueTyped /\ PromotionsTyped /\ OrdersTyped
                          /\ WorkersTyped /\ CountsTyped
  BY DEF TypeOK, CatalogueTyped, PromotionsTyped, OrdersTyped, WorkersTyped, CountsTyped,
         Row, Line, Task, EditTask, BasketTask

LEMMA TypedNext == TypeOK' <=> /\ CatalogueTyped' /\ PromotionsTyped' /\ OrdersTyped'
                               /\ WorkersTyped' /\ CountsTyped'
  BY DEF TypeOK, CatalogueTyped, PromotionsTyped, OrdersTyped, WorkersTyped, CountsTyped,
         Row, Line, Task, EditTask, BasketTask

\* What a request does says which fields its state has.
LEMMA KindOf ==
    ASSUME WorkersTyped, NEW w \in Workers
    PROVE  /\ worker[w].does = "basket" => worker[w] \in BasketTask
           /\ worker[w].does = "edit" => worker[w] \in EditTask
           /\ worker[w] = Idle => worker[w].does = "nothing"
  <1>1. worker[w] \in Task
    BY DEF WorkersTyped
  <1>2. Idle.does = "nothing"
    BY DEF Idle
  <1>3. \A t \in EditTask : t.does = "edit"
    BY DEF EditTask
  <1>4. \A t \in BasketTask : t.does = "basket"
    BY DEF BasketTask
  <1>. QED
    BY <1>1, <1>2, <1>3, <1>4 DEF Task

\* A request moves on: the others are where they were.
LEMMA OneMoves ==
    ASSUME WorkersTyped, NEW w \in Workers, NEW t \in Task,
           worker' = [worker EXCEPT ![w] = t],
           t.does = "basket" => \A p \in Products : t.lines[p].saved <= t.lines[p].unit
    PROVE  /\ WorkersTyped'
           /\ worker'[w] = t
           /\ \A v \in Workers : v # w => worker'[v] = worker[v]
  BY DEF WorkersTyped

LEMMA InitTyped == Init => TypeOK
  <1>. SUFFICES ASSUME Init PROVE TypeOK
    OBVIOUS
  <1>. USE DEF Init
  <1>1. CatalogueTyped
    BY DEF CatalogueTyped
  <1>2. PromotionsTyped
    BY DEF PromotionsTyped, Row, Blank
  <1>3. OrdersTyped
    BY DEF OrdersTyped, Line, NoLine
  <1>4. WorkersTyped
    BY DEF WorkersTyped, Task, Idle
  <1>5. CountsTyped
    BY CatalogueAssumption DEF CountsTyped
  <1>. QED
    BY <1>1, <1>2, <1>3, <1>4, <1>5, Typed

\* What the assumption says of numbers.
LEMMA Numbers ==
    /\ \A x \in Prices \cup {0} : x \in Nat
    /\ \A x \in Values \cup {1} : x \in Nat
    /\ Discounts \subseteq Nat
    /\ None \notin Nat
  <1>1. Prices \subseteq Nat
    BY CatalogueAssumption
  <1>2. Values \subseteq Nat
    BY CatalogueAssumption
  <1>3. Discounts \subseteq Nat
    BY CatalogueAssumption
  <1>4. None \notin Nat
    BY CatalogueAssumption
  <1>. QED
    BY <1>1, <1>2, <1>3, <1>4

LEMMA EditedTyped ==
    ASSUME NEW r \in Row, NEW patch \in Patches
    PROVE  Edited(r, patch) \in Row
  <1>1. patch \in Patch
    BY CatalogueAssumption DEF Patch
  <1>. QED
    BY <1>1 DEF Edited, Patch, Row

LEMMA WrittenTyped ==
    ASSUME NEW r \in Row, NEW s \in Row, NEW n \in Row
    PROVE  Written(r, s, n) \in Row
  BY DEF Written, Row

LEMMA QuotedTyped ==
    ASSUME CatalogueTyped, NEW asked \in [Products -> Line]
    PROVE  /\ Quoted(asked) \in [Products -> Line]
           /\ \A p \in Products : /\ Quoted(asked)[p].saved = 0
                                  /\ Quoted(asked)[p].qty = asked[p].qty
  <1>1. \A x \in Prices \cup {0} : x \in Nat
    BY Numbers
  <1>2. ASSUME NEW p \in Products
        PROVE  /\ Quoted(asked)[p] \in Line
               /\ Quoted(asked)[p].saved = 0
               /\ Quoted(asked)[p].qty = asked[p].qty
    <2>1. asked[p] \in Line
      OBVIOUS
    <2>2. price[p] \in Prices \cup {0}
      BY DEF CatalogueTyped
    <2>3. price[p] \in Nat
      BY <2>2, <1>1
    <2>. QED
      BY <2>1, <2>3 DEF Quoted, NoLine, Line
  <1>. QED
    BY <1>2 DEF Quoted

\* The saving of a line is between nothing and its unit price.
LEMMA RepricedTyped ==
    ASSUME PromotionsTyped, NEW basket \in [Products -> Line]
    PROVE  /\ Repriced(basket) \in [Products -> Line]
           /\ \A p \in Products : /\ Repriced(basket)[p].saved <= Repriced(basket)[p].unit
                                  /\ Repriced(basket)[p].qty = basket[p].qty
  <1>1. /\ \A x \in Values \cup {1} : x \in Nat
        /\ Discounts \subseteq Nat /\ None \notin Nat
    BY Numbers
  <1>2. ASSUME NEW p \in Products
        PROVE  /\ Repriced(basket)[p] \in Line
               /\ Repriced(basket)[p].saved <= Repriced(basket)[p].unit
               /\ Repriced(basket)[p].qty = basket[p].qty
    <2>. DEFINE u == basket[p].unit
                offers == OffersFor(p)
    <2>1. basket[p] \in Line /\ u \in Nat
      BY DEF Line
    <2>2. /\ DOMAIN offers \subseteq Discounts
          /\ \A d \in DOMAIN offers : offers[d] \in Row
      BY DEF OffersFor, PromotionsTyped
    <2>3. \A d \in DOMAIN offers : offers[d].type \in {"percent", "fixed"} /\ offers[d].value \in Nat
      <3>1. \A r \in Row : r.type \in {"percent", "fixed"} /\ r.value \in Values \cup {1}
        BY DEF Row
      <3>. HIDE DEF offers
      <3>. QED
        BY <2>2, <1>1, <3>1
    <2>. HIDE DEF u, offers
    <2>4. DOMAIN offers \subseteq Nat
      BY <2>2, <1>1
    <2>5. Best(u, offers) \in DOMAIN offers \cup {None}
      BY <2>1, <2>3, <2>4, <1>1, Chosen
    <2>6. SavedOn(u, offers) \in 0..u
      BY <2>1, <2>3, <2>5, Saves DEF SavedOn
    <2>7. Repriced(basket)[p] = IF basket[p].qty = 0 THEN NoLine
              ELSE [basket[p] EXCEPT !.saved = SavedOn(u, offers), !.offer = Best(u, offers)]
      BY DEF Repriced, u, offers
    <2>8. u = basket[p].unit
      BY DEF u
    <2>9. Best(u, offers) \in Discounts \cup {None}
      BY <2>5, <2>2
    <2>10. CASE basket[p].qty = 0
      BY <2>10, <2>7, <2>1 DEF NoLine, Line
    <2>11. CASE basket[p].qty # 0
      <3>. DEFINE s == SavedOn(u, offers)
                  b == Best(u, offers)
      <3>1. s \in Nat /\ s <= u /\ b \in Discounts \cup {None}
        BY <2>1, <2>6, <2>9
      <3>2. Repriced(basket)[p] = [basket[p] EXCEPT !.saved = s, !.offer = b]
        BY <2>11, <2>7
      <3>. HIDE DEF s, b
      <3>. QED
        BY <3>1, <3>2, <2>1, <2>8 DEF Line
    <2>. QED
      BY <2>10, <2>11
  <1>. QED
    BY <1>2 DEF Repriced

\* The catalogue is edited: its own variables keep their types, the others do not move.
LEMMA CatalogTyped ==
    ASSUME TypeOK, Catalog
    PROVE  TypeOK' /\ UNCHANGED <<promotions, orders, worker>>
  <1>1. CatalogueTyped /\ CountsTyped
    BY Typed
  <1>2. None \notin Categories /\ Prices \subseteq Nat /\ MaxChanges \in Nat
    BY CatalogueAssumption
  <1>3. /\ CatalogueTyped' /\ CountsTyped' /\ UNCHANGED <<promotions, orders, worker>>
    <2>. USE <1>1, <1>2 DEF CatalogueTyped, CountsTyped, Change
    <2>1. ASSUME NEW c \in Categories, CreateCategory(c)
          PROVE  /\ CatalogueTyped' /\ CountsTyped'
                 /\ UNCHANGED <<promotions, orders, worker>>
      BY <2>1 DEF CreateCategory
    <2>2. ASSUME NEW c \in Categories, DeleteCategory(c)
          PROVE  /\ CatalogueTyped' /\ CountsTyped'
                 /\ UNCHANGED <<promotions, orders, worker>>
      BY <2>2 DEF DeleteCategory
    <2>3. ASSUME NEW p \in Products, NEW c \in Categories, CreateProduct(p, c)
          PROVE  /\ CatalogueTyped' /\ CountsTyped'
                 /\ UNCHANGED <<promotions, orders, worker>>
      BY <2>3 DEF CreateProduct
    <2>4. ASSUME NEW p \in Products, NEW c \in Categories, UpdateProduct(p, c)
          PROVE  /\ CatalogueTyped' /\ CountsTyped'
                 /\ UNCHANGED <<promotions, orders, worker>>
      BY <2>4 DEF UpdateProduct, Shown
    <2>5. ASSUME NEW p \in Products, NEW a \in Prices, CreateVariant(p, a)
          PROVE  /\ CatalogueTyped' /\ CountsTyped'
                 /\ UNCHANGED <<promotions, orders, worker>>
      BY <2>5 DEF CreateVariant
    <2>6. ASSUME NEW p \in Products, NEW a \in Prices, UpdateVariant(p, a)
          PROVE  /\ CatalogueTyped' /\ CountsTyped'
                 /\ UNCHANGED <<promotions, orders, worker>>
      BY <2>6 DEF UpdateVariant, Shown
    <2>7. ASSUME NEW p \in Products, DeleteVariant(p)
          PROVE  /\ CatalogueTyped' /\ CountsTyped'
                 /\ UNCHANGED <<promotions, orders, worker>>
      BY <2>7 DEF DeleteVariant
    <2>8. ASSUME NEW p \in Products, DeleteProduct(p)
          PROVE  /\ CatalogueTyped' /\ CountsTyped'
                 /\ UNCHANGED <<promotions, orders, worker>>
      BY <2>8 DEF DeleteProduct
    <2>. QED
      BY <2>1, <2>2, <2>3, <2>4, <2>5, <2>6, <2>7, <2>8 DEF Catalog
  <1>4. PromotionsTyped /\ OrdersTyped /\ WorkersTyped
    BY Typed
  <1>5. PromotionsTyped' /\ OrdersTyped' /\ WorkersTyped'
    <2>1. UNCHANGED <<discounts, row, list, inForce, status, lines, worker>>
      BY <1>3 DEF promotions, orders
    <2>. QED
      BY <2>1, <1>4 DEF PromotionsTyped, OrdersTyped, WorkersTyped
  <1>. QED
    BY <1>3, <1>5, TypedNext

LEMMA PromotionTyped ==
    ASSUME TypeOK, Promotion
    PROVE  TypeOK' /\ UNCHANGED <<catalogue, status>>
  <1>1. PromotionsTyped /\ CountsTyped /\ OrdersTyped /\ WorkersTyped /\ CatalogueTyped
    BY Typed
  <1>2. MaxChanges \in Nat /\ None \notin Nat
    BY CatalogueAssumption
  <1>3. ASSUME UNCHANGED <<catalogue>>
        PROVE  CatalogueTyped'
    BY <1>1, <1>3 DEF CatalogueTyped, catalogue
  <1>4. ASSUME UNCHANGED <<orders>>
        PROVE  OrdersTyped'
    BY <1>1, <1>4 DEF OrdersTyped, orders
  <1>5. ASSUME UNCHANGED <<promotions>>
        PROVE  PromotionsTyped'
    BY <1>1, <1>5 DEF PromotionsTyped, promotions
  <1>6. ASSUME UNCHANGED <<worker>>
        PROVE  WorkersTyped'
    BY <1>1, <1>6 DEF WorkersTyped
  <1>7. ASSUME NEW d \in Discounts, DeleteDiscount(d)
        PROVE  TypeOK' /\ UNCHANGED <<catalogue, status>>
    <2>. USE <1>1, <1>7 DEF DeleteDiscount
    <2>1. PromotionsTyped'
      BY DEF PromotionsTyped, Row, Blank
    <2>2. CountsTyped'
      BY <1>2 DEF CountsTyped, Change
    <2>3. OrdersTyped'
      <3>1. ASSUME NEW o \in Orders, NEW p \in Products
            PROVE  /\ lines'[o][p] \in Line
                   /\ lines'[o][p].saved <= lines'[o][p].unit
        <4>1. lines[o][p] \in Line /\ lines[o][p].saved <= lines[o][p].unit
          BY DEF OrdersTyped
        <4>2. lines'[o][p] \in {lines[o][p], [lines[o][p] EXCEPT !.offer = None]}
          OBVIOUS
        <4>. QED
          BY <4>1, <4>2 DEF Line
      <3>2. lines' \in [Orders -> [Products -> Line]]
        BY <3>1
      <3>. QED
        BY <3>1, <3>2 DEF OrdersTyped
    <2>. QED
      BY <2>1, <2>2, <2>3, <1>3, <1>6, TypedNext
  <1>8. ASSUME NEW d \in Discounts, ForceMoves(d)
        PROVE  TypeOK' /\ UNCHANGED <<catalogue, status>>
    <2>. USE <1>1, <1>8 DEF ForceMoves
    <2>1. PromotionsTyped'
      BY DEF PromotionsTyped
    <2>2. CountsTyped'
      BY <1>2 DEF CountsTyped, Change
    <2>. QED
      BY <2>1, <2>2, <1>3, <1>4, <1>6, TypedNext DEF orders
  <1>9. ASSUME NEW d \in Discounts, NEW r \in Rows, NEW products \in SUBSET Products,
               CreateDiscount(d, r, products)
        PROVE  TypeOK' /\ UNCHANGED <<catalogue, status>>
    <2>. USE <1>1, <1>9 DEF CreateDiscount
    <2>1. Blank \in Row
      BY DEF Blank, Row
    <2>2. r \in Row
      BY <2>1, EditedTyped DEF Rows
    <2>3. PromotionsTyped'
      BY <2>2 DEF PromotionsTyped
    <2>4. CountsTyped'
      BY <1>2 DEF CountsTyped, Change
    <2>. QED
      BY <2>3, <2>4, <1>3, <1>4, <1>6, TypedNext DEF orders
  <1>10. ASSUME NEW w \in Workers, NEW d \in Discounts, NEW patch \in Patches,
                EditReads(w, d, patch)
         PROVE  TypeOK' /\ UNCHANGED <<catalogue, status>>
    <2>. USE <1>1, <1>10 DEF EditReads
    <2>. DEFINE wanted == Edited(row[d], patch)
                products == IF patch.list = None THEN list[d] ELSE patch.list
                new == IF wanted.scope = "product_list" THEN products ELSE {}
                t == [does |-> "edit", at |-> "read", discount |-> d, seen |-> row[d],
                      wanted |-> wanted, doomed |-> {}, added |-> {}, list |-> new]
    <2>1. row[d] \in Row /\ list[d] \in SUBSET Products
      BY DEF PromotionsTyped
    <2>2. wanted \in Row
      BY <2>1, EditedTyped
    <2>3. patch.list \in (SUBSET Products) \cup {None}
      BY CatalogueAssumption
    <2>. HIDE DEF wanted
    <2>4. new \in SUBSET Products
      BY <2>1, <2>3
    <2>. HIDE DEF new
    <2>5. t \in EditTask
      BY <2>1, <2>2, <2>4 DEF EditTask
    <2>6. worker' = [worker EXCEPT ![w] = t]
      BY DEF wanted, new
    <2>7. t \in Task /\ t.does # "basket"
      BY <2>5 DEF Task
    <2>. HIDE DEF t
    <2>8. WorkersTyped'
      BY <2>6, <2>7, OneMoves
    <2>9. CountsTyped'
      BY <1>2 DEF CountsTyped, Change
    <2>. QED
      BY <2>8, <2>9, <1>3, <1>4, <1>5, TypedNext DEF orders
  <1>11. ASSUME NEW w \in Workers, EditUnlists(w)
         PROVE  TypeOK' /\ UNCHANGED <<catalogue, status>>
    <2>. USE <1>1, <1>11 DEF EditUnlists
    <2>. DEFINE d == worker[w].discount
                t == [worker[w] EXCEPT !.at = "unlinking", !.doomed = list[d]]
    <2>1. worker[w] \in EditTask
      BY KindOf
    <2>2. list[d] \in SUBSET Products
      BY <2>1 DEF EditTask, PromotionsTyped
    <2>3. t \in EditTask
      BY <2>1, <2>2 DEF EditTask
    <2>4. t \in Task /\ t.does # "basket"
      BY <2>3 DEF Task, EditTask
    <2>5. worker' = [worker EXCEPT ![w] = t]
      OBVIOUS
    <2>. HIDE DEF t
    <2>6. WorkersTyped'
      BY <2>4, <2>5, OneMoves
    <2>7. CountsTyped'
      BY DEF CountsTyped
    <2>. QED
      BY <2>6, <2>7, <1>3, <1>4, <1>5, TypedNext DEF orders
  <1>12. ASSUME NEW w \in Workers, EditLists(w)
         PROVE  TypeOK' /\ UNCHANGED <<catalogue, status>>
    <2>. USE <1>1, <1>12 DEF EditLists
    <2>. DEFINE d == worker[w].discount
                t == [worker[w] EXCEPT !.at = "linked",
                                      !.doomed = worker[w].doomed \cap list[d],
                                      !.added = worker[w].list]
    <2>1. worker[w] \in EditTask
      BY KindOf
    <2>2. list[d] \in SUBSET Products
      BY <2>1 DEF EditTask, PromotionsTyped
    <2>3. t \in EditTask
      BY <2>1, <2>2 DEF EditTask
    <2>4. t \in Task /\ t.does # "basket"
      BY <2>3 DEF Task, EditTask
    <2>5. worker' = [worker EXCEPT ![w] = t]
      OBVIOUS
    <2>. HIDE DEF t
    <2>6. WorkersTyped'
      BY <2>4, <2>5, OneMoves
    <2>7. CountsTyped'
      BY DEF CountsTyped
    <2>. QED
      BY <2>6, <2>7, <1>3, <1>4, <1>5, TypedNext DEF orders
  <1>13. ASSUME NEW w \in Workers, EditCommits(w)
         PROVE  TypeOK' /\ UNCHANGED <<catalogue, status>>
    <2>. USE <1>1, <1>13 DEF EditCommits
    <2>. DEFINE d == worker[w].discount
                new == Written(row[d], worker[w].seen, worker[w].wanted)
    <2>1. worker[w] \in EditTask
      BY KindOf
    <2>2. /\ d \in Discounts /\ row[d] \in Row /\ list[d] \in SUBSET Products
          /\ worker[w].seen \in Row /\ worker[w].wanted \in Row
          /\ worker[w].added \in SUBSET Products
      BY <2>1 DEF EditTask, PromotionsTyped
    <2>3. new \in Row
      BY <2>2, WrittenTyped
    <2>. HIDE DEF new
    <2>4. row' = [row EXCEPT ![d] = new]
      BY DEF new
    <2>5. PromotionsTyped'
      BY <2>2, <2>3, <2>4 DEF PromotionsTyped
    <2>6. Idle \in Task /\ Idle.does # "basket"
      BY DEF Idle, Task
    <2>7. WorkersTyped'
      BY <2>6, OneMoves
    <2>8. CountsTyped'
      BY DEF CountsTyped
    <2>. QED
      BY <2>5, <2>7, <2>8, <1>3, <1>4, TypedNext DEF orders
  <1>. QED
    BY <1>7, <1>8, <1>9, <1>10, <1>11, <1>12, <1>13 DEF Promotion

LEMMA AskedTyped ==
    ASSUME NEW asked \in Baskets
    PROVE  /\ asked \in [Products -> Line]
           /\ \A p \in Products : asked[p].saved <= asked[p].unit
  <1>1. \A q \in Quantities \cup {0} : q \in Nat
    BY CatalogueAssumption
  <1>2. ASSUME NEW q \in Quantities \cup {0}
        PROVE  /\ [NoLine EXCEPT !.qty = q] \in Line
               /\ [NoLine EXCEPT !.qty = q].saved <= [NoLine EXCEPT !.qty = q].unit
    BY <1>1 DEF NoLine, Line
  <1>3. asked \in [Products -> {[NoLine EXCEPT !.qty = q] : q \in Quantities \cup {0}}]
    BY DEF Baskets
  <1>4. ASSUME NEW p \in Products
        PROVE  asked[p] \in Line /\ asked[p].saved <= asked[p].unit
    <2>1. PICK q \in Quantities \cup {0} : asked[p] = [NoLine EXCEPT !.qty = q]
      BY <1>3
    <2>. QED
      BY <2>1, <1>2
  <1>. QED
    BY <1>3, <1>4

LEMMA BasketTyped ==
    ASSUME TypeOK, Basket
    PROVE  TypeOK' /\ UNCHANGED <<catalogue, promotions>>
  <1>1. PromotionsTyped /\ CountsTyped /\ OrdersTyped /\ WorkersTyped /\ CatalogueTyped
    BY Typed
  <1>2. MaxBaskets \in Nat /\ None \notin Nat
    BY CatalogueAssumption
  <1>3. ASSUME UNCHANGED <<catalogue, promotions>>
        PROVE  CatalogueTyped' /\ PromotionsTyped'
    BY <1>1, <1>3 DEF CatalogueTyped, catalogue, PromotionsTyped, promotions
  <1>4. ASSUME UNCHANGED <<orders>>
        PROVE  OrdersTyped'
    BY <1>1, <1>4 DEF OrdersTyped, orders
  <1>5. ASSUME NEW w \in Workers, NEW t \in BasketTask, BasketStarts(w, t),
               \A p \in Products : t.lines[p].saved <= t.lines[p].unit
        PROVE  TypeOK' /\ UNCHANGED <<catalogue, promotions>>
    <2>. USE <1>1, <1>5 DEF BasketStarts
    <2>1. t \in Task
      BY DEF Task
    <2>2. worker' = [worker EXCEPT ![w] = t]
      OBVIOUS
    <2>3. WorkersTyped'
      BY <2>1, <2>2, OneMoves
    <2>4. CountsTyped'
      BY <1>2 DEF CountsTyped
    <2>. QED
      BY <2>3, <2>4, <1>3, <1>4, TypedNext
  <1>6. ASSUME NEW w \in Workers, NEW t \in BasketTask,
               worker' = [worker EXCEPT ![w] = t],
               UNCHANGED <<catalogue, promotions, orders, retired, changes, baskets>>,
               \A p \in Products : t.lines[p].saved <= t.lines[p].unit
        PROVE  TypeOK' /\ UNCHANGED <<catalogue, promotions>>
    <2>. USE <1>1, <1>6
    <2>1. t \in Task
      BY DEF Task
    <2>2. WorkersTyped'
      BY <2>1, OneMoves
    <2>3. CountsTyped'
      BY DEF CountsTyped
    <2>. QED
      BY <2>2, <2>3, <1>3, <1>4, TypedNext
  <1>7. ASSUME NEW w \in Workers, NEW asked \in Baskets, AskDraft(w, asked)
        PROVE  TypeOK' /\ UNCHANGED <<catalogue, promotions>>
    <2>. DEFINE t == [does |-> "basket", at |-> "asked", kind |-> "replace", order |-> None,
                      drafts |-> Drafts, lines |-> asked,
                      read |-> [p \in Products |-> None]]
    <2>1. t \in BasketTask
      BY AskedTyped DEF BasketTask, Drafts
    <2>2. BasketStarts(w, t)
      BY <1>7 DEF AskDraft
    <2>3. \A p \in Products : t.lines[p].saved <= t.lines[p].unit
      BY AskedTyped
    <2>. HIDE DEF t
    <2>. QED
      BY <2>1, <2>2, <2>3, <1>5
  <1>8. ASSUME NEW w \in Workers, NEW o \in Orders, Submit(w, o)
        PROVE  TypeOK' /\ UNCHANGED <<catalogue, promotions>>
    <2>. DEFINE t == [does |-> "basket", at |-> "taken", kind |-> "submit", order |-> o,
                      drafts |-> {}, lines |-> lines[o],
                      read |-> [p \in Products |-> lines[o][p].offer]]
    <2>1. /\ lines[o] \in [Products -> Line]
          /\ \A p \in Products : lines[o][p].offer \in Discounts \cup {None}
      BY <1>1 DEF OrdersTyped, Line
    <2>2. t \in BasketTask
      BY <2>1 DEF BasketTask
    <2>3. BasketStarts(w, t)
      BY <1>8 DEF Submit
    <2>4. \A p \in Products : t.lines[p].saved <= t.lines[p].unit
      BY <1>1 DEF OrdersTyped
    <2>. HIDE DEF t
    <2>. QED
      BY <2>2, <2>3, <2>4, <1>5
  <1>9. ASSUME NEW w \in Workers, NEW o \in Orders, NEW asked \in Baskets,
               Checkout(w, o, asked)
        PROVE  TypeOK' /\ UNCHANGED <<catalogue, promotions>>
    <2>. DEFINE q == Quoted(asked)
                t == [does |-> "basket", at |-> "taken", kind |-> "checkout", order |-> o,
                      drafts |-> {}, lines |-> q,
                      read |-> [p \in Products |-> None]]
    <2>1. /\ q \in [Products -> Line]
          /\ \A p \in Products : q[p].saved = 0
      BY <1>1, AskedTyped, QuotedTyped
    <2>2. BasketStarts(w, t)
      BY <1>9 DEF Checkout
    <2>. HIDE DEF q
    <2>3. t \in BasketTask
      BY <2>1 DEF BasketTask
    <2>4. \A p \in Products : t.lines[p].saved <= t.lines[p].unit
      BY <2>1 DEF Line
    <2>. HIDE DEF t
    <2>. QED
      BY <2>2, <2>3, <2>4, <1>5
  <1>10. ASSUME NEW w \in Workers, TakeDraft(w)
         PROVE  TypeOK' /\ UNCHANGED <<catalogue, promotions>>
    <2>. DEFINE q == Quoted(worker[w].lines)
    <2>1. worker[w] \in BasketTask
      BY <1>1, <1>10, KindOf DEF TakeDraft
    <2>2. worker[w].lines \in [Products -> Line]
      BY <2>1 DEF BasketTask
    <2>3. /\ q \in [Products -> Line]
          /\ \A p \in Products : q[p].saved = 0
      BY <1>1, <2>2, QuotedTyped
    <2>4. PICK o \in Orders :
              worker' = [worker EXCEPT ![w] = [worker[w] EXCEPT !.at = "taken", !.order = o,
                                                   !.lines = q]]
      BY <1>10 DEF TakeDraft
    <2>. DEFINE t == [worker[w] EXCEPT !.at = "taken", !.order = o, !.lines = q]
    <2>. HIDE DEF q
    <2>5. t \in BasketTask
      BY <2>1, <2>3 DEF BasketTask
    <2>6. t.lines = q
      BY <2>1 DEF BasketTask
    <2>7. worker' = [worker EXCEPT ![w] = t]
      BY <2>4
    <2>8. UNCHANGED <<catalogue, promotions, orders, retired, changes, baskets>>
      BY <1>10 DEF TakeDraft
    <2>. HIDE DEF t
    <2>9. \A p \in Products : t.lines[p].saved <= t.lines[p].unit
      BY <2>3, <2>6 DEF Line
    <2>. QED
      BY <2>5, <2>7, <2>8, <2>9, <1>6
  <1>11. ASSUME NEW w \in Workers, PriceLines(w)
         PROVE  TypeOK' /\ UNCHANGED <<catalogue, promotions>>
    <2>. DEFINE q == Repriced(worker[w].lines)
    <2>1. worker[w] \in BasketTask
      BY <1>1, <1>11, KindOf DEF PriceLines
    <2>2. worker[w].lines \in [Products -> Line]
      BY <2>1 DEF BasketTask
    <2>3. /\ q \in [Products -> Line]
          /\ \A p \in Products : q[p].saved <= q[p].unit
      BY <1>1, <2>2, RepricedTyped
    <2>. DEFINE t == [worker[w] EXCEPT !.at = "priced", !.lines = q]
    <2>4. worker' = [worker EXCEPT ![w] = t]
      BY <1>11 DEF PriceLines
    <2>. HIDE DEF q
    <2>5. t \in BasketTask
      BY <2>1, <2>3 DEF BasketTask
    <2>6. t.lines = q
      BY <2>1 DEF BasketTask
    <2>7. UNCHANGED <<catalogue, promotions, orders, retired, changes, baskets>>
      BY <1>11 DEF PriceLines
    <2>. HIDE DEF t
    <2>8. \A p \in Products : t.lines[p].saved <= t.lines[p].unit
      BY <2>3, <2>6
    <2>. QED
      BY <2>4, <2>5, <2>7, <2>8, <1>6
  <1>12. Idle \in Task /\ Idle.does # "basket"
    BY DEF Idle, Task
  <1>13. ASSUME NEW w \in Workers, BasketCommits(w)
         PROVE  TypeOK' /\ UNCHANGED <<catalogue, promotions>>
    <2>. DEFINE t == worker[w]
                n == Landing(t)
    <2>1. t \in BasketTask
      BY <1>1, <1>13, KindOf DEF BasketCommits
    <2>2. ASSUME NEW p \in Products, t.order \in Orders
          PROVE  n[p] \in Line /\ n[p].saved <= n[p].unit
      <3>1. t.lines[p] \in Line
        BY <2>1 DEF BasketTask
      <3>2. t.lines[p].saved <= t.lines[p].unit
        BY <1>1, <1>13 DEF WorkersTyped, BasketCommits
      <3>3. lines[t.order][p].offer \in Discounts \cup {None}
        BY <2>2, <1>1 DEF OrdersTyped, Line
      <3>4. \E f \in Discounts \cup {None} :
               n[p] = t.lines[p] \/ n[p] = [t.lines[p] EXCEPT !.offer = f]
        BY <3>3 DEF Landing
      <3>. HIDE DEF n, t
      <3>. QED
        BY <3>1, <3>2, <3>4 DEF Line
    <2>3. n = [p \in Products |-> n[p]]
      BY DEF Landing
    <2>4. /\ status' = [status EXCEPT ![t.order] =
                           IF t.kind = "replace" THEN "draft" ELSE "submitted"]
          /\ lines' = [lines EXCEPT ![t.order] = n]
          /\ worker' = [worker EXCEPT ![w] = Idle]
          /\ UNCHANGED <<catalogue, promotions, retired, changes, baskets>>
      BY <1>13 DEF BasketCommits
    <2>. HIDE DEF n, t
    <2>5. t.order \in Orders => n \in [Products -> Line]
      BY <2>2, <2>3
    <2>6. OrdersTyped'
      <3>1. status' \in [Orders -> {"none", "draft", "submitted"}]
        BY <1>1, <2>4 DEF OrdersTyped
      <3>2. lines' \in [Orders -> [Products -> Line]]
        BY <1>1, <2>4, <2>5 DEF OrdersTyped
      <3>3. ASSUME NEW o \in Orders, NEW p \in Products
            PROVE  lines'[o][p].saved <= lines'[o][p].unit
        BY <1>1, <2>4, <2>2 DEF OrdersTyped
      <3>. QED
        BY <3>1, <3>2, <3>3 DEF OrdersTyped
    <2>7. WorkersTyped'
      BY <2>4, <1>12, <1>1, OneMoves
    <2>8. CountsTyped'
      BY <2>4, <1>1 DEF CountsTyped
    <2>. QED
      BY <2>4, <2>6, <2>7, <2>8, <1>3, TypedNext
  <1>14. ASSUME NEW w \in Workers, Refused(w)
         PROVE  TypeOK' /\ UNCHANGED <<catalogue, promotions>>
    <2>. USE <1>1, <1>14 DEF Refused
    <2>1. WorkersTyped'
      BY <1>12, OneMoves
    <2>2. CountsTyped'
      BY DEF CountsTyped
    <2>. QED
      BY <2>1, <2>2, <1>3, <1>4, TypedNext DEF orders
  <1>. QED
    BY <1>7, <1>8, <1>9, <1>10, <1>11, <1>13, <1>14 DEF Basket

-----------------------------------------------------------------------------
LEMMA InitHolds == Init => Inv
  <1>. SUFFICES ASSUME Init PROVE Inv
    OBVIOUS
  <1>. USE DEF Init
  <1>1. TypeOK
    BY InitTyped
  <1>2. OnSalePriced
    <2>1. \A x \in Prices \cup {0} : x > 0 <=> x # 0
      BY CatalogueAssumption
    <2>2. ASSUME NEW p \in Products
          PROVE  /\ p \in onSale => price[p] > 0
                 /\ price[p] > 0 => Exists(p)
      <3>1. price[p] \in Prices \cup {0}
        OBVIOUS
      <3>2. price[p] > 0 <=> price[p] # 0
        BY <2>1, <3>1
      <3>. QED
        BY <3>2 DEF Exists
    <2>. QED
      BY <2>2 DEF OnSalePriced
  <1>3. ReferencesHold
    BY DEF ReferencesHold, DiscountsAim, ShelvesExist, LinesRefer, Consistent, TargetsExist,
           Blank, NoLine, Exists
  <1>4. OneHolder /\ HeldOpen /\ CarriedExist /\ CarriedPriced
    BY DEF OneHolder, HeldOpen, CarriedExist, CarriedPriced, Holds, Carries, Idle
  <1>. QED
    BY <1>1, <1>2, <1>3, <1>4 DEF Inv

\* What an edit of the catalogue keeps: the products and prices in use, the targets of
\* discounts.
LEMMA CatalogKeeps ==
    ASSUME Inv, Catalog
    PROVE  /\ \A p \in Products : InUse(p) /\ Exists(p) => shelf'[p] # None
           /\ \A p \in Products : InUse(p) /\ price[p] > 0 => price'[p] > 0
           /\ \A d \in discounts : row[d].category \in categories => row[d].category \in categories'
           /\ \A d \in discounts, p \in Products :
                 (row[d].product = p \/ p \in list[d]) /\ Exists(p) => shelf'[p] # None
           /\ OnSalePriced' /\ ShelvesExist'
  <1>. DEFINE Kept ==
           /\ \A p \in Products : InUse(p) /\ Exists(p) => shelf'[p] # None
           /\ \A p \in Products : InUse(p) /\ price[p] > 0 => price'[p] > 0
           /\ \A d \in discounts : row[d].category \in categories => row[d].category \in categories'
           /\ \A d \in discounts, p \in Products :
                 (row[d].product = p \/ p \in list[d]) /\ Exists(p) => shelf'[p] # None
           /\ OnSalePriced' /\ ShelvesExist'
  <1>1. CatalogueTyped
    BY Typed DEF Inv
  <1>2. /\ \A c \in Categories : c # None
        /\ \A a \in Prices : a \in Nat /\ a > 0
    BY CatalogueAssumption
  <1>3. OnSalePriced /\ ShelvesExist
    BY DEF Inv, ReferencesHold
  <1>. USE <1>1, <1>2, <1>3 DEF CatalogueTyped, OnSalePriced, ShelvesExist, Exists
  <1>4. ASSUME NEW c \in Categories, CreateCategory(c)
        PROVE  Kept
    BY <1>4 DEF CreateCategory
  <1>5. ASSUME NEW c \in Categories, DeleteCategory(c)
        PROVE  Kept
    BY <1>5 DEF DeleteCategory
  <1>6. ASSUME NEW p \in Products, NEW c \in Categories, CreateProduct(p, c)
        PROVE  Kept
    BY <1>6 DEF CreateProduct
  <1>7. ASSUME NEW p \in Products, NEW c \in Categories, UpdateProduct(p, c)
        PROVE  Kept
    BY <1>7 DEF UpdateProduct, Shown
  <1>8. ASSUME NEW p \in Products, NEW a \in Prices, CreateVariant(p, a)
        PROVE  Kept
    BY <1>8 DEF CreateVariant
  <1>9. ASSUME NEW p \in Products, NEW a \in Prices, UpdateVariant(p, a)
        PROVE  Kept
    BY <1>9 DEF UpdateVariant, Shown
  <1>10. ASSUME NEW p \in Products, DeleteVariant(p)
        PROVE  Kept
    BY <1>10 DEF DeleteVariant
  <1>11. ASSUME NEW p \in Products, DeleteProduct(p)
        PROVE  Kept
    BY <1>11 DEF DeleteProduct
  <1>. QED
    BY <1>4, <1>5, <1>6, <1>7, <1>8, <1>9, <1>10, <1>11 DEF Catalog

LEMMA CatalogHolds == Inv /\ Catalog => Inv'
  <1>. SUFFICES ASSUME Inv, Catalog PROVE Inv'
    OBVIOUS
  <1>1. TypeOK' /\ UNCHANGED <<discounts, row, list, inForce, status, lines, worker>>
    BY CatalogTyped DEF Inv, promotions, orders
  <1>2. /\ \A p \in Products : InUse(p) /\ Exists(p) => shelf'[p] # None
        /\ \A p \in Products : InUse(p) /\ price[p] > 0 => price'[p] > 0
        /\ \A d \in discounts : row[d].category \in categories => row[d].category \in categories'
        /\ \A d \in discounts, p \in Products :
              (row[d].product = p \/ p \in list[d]) /\ Exists(p) => shelf'[p] # None
        /\ OnSalePriced' /\ ShelvesExist'
    BY CatalogKeeps
  <1>3. PromotionsTyped
    BY Typed DEF Inv
  <1>4. DiscountsAim'
    <2>1. ASSUME NEW d \in discounts
          PROVE  Consistent(row[d]) /\ TargetsExist(row[d], list[d])'
      <3>1. Consistent(row[d]) /\ TargetsExist(row[d], list[d])
        BY DEF Inv, ReferencesHold, DiscountsAim
      <3>2. row[d].product \in Products \cup {None} /\ list[d] \subseteq Products
        BY <1>3 DEF PromotionsTyped, Row
      <3>. QED
        BY <1>1, <1>2, <3>1, <3>2 DEF TargetsExist, Exists
    <2>. QED
      BY <1>1, <2>1 DEF DiscountsAim, Consistent
  <1>5. LinesRefer'
    <2>1. LinesRefer
      BY DEF Inv, ReferencesHold
    <2>. QED
      BY <1>1, <1>2, <2>1 DEF LinesRefer, InUse, Sold, Exists
  <1>6. OneHolder' /\ HeldOpen'
    BY <1>1 DEF Inv, OneHolder, HeldOpen, Holds
  <1>7. CarriedExist'
    BY <1>1, <1>2 DEF Inv, CarriedExist, InUse, Carries, Exists
  <1>8. CarriedPriced'
    BY <1>1, <1>2 DEF Inv, CarriedPriced, InUse, Carries
  <1>. QED
    BY <1>1, <1>2, <1>4, <1>5, <1>6, <1>7, <1>8 DEF Inv, ReferencesHold

\* An edit of a discount moves on: the baskets hold what they held.
LEMMA EditMoves ==
    ASSUME Inv, NEW w \in Workers, worker[w].does # "basket", NEW t \in Task,
           t.does # "basket", worker' = [worker EXCEPT ![w] = t], UNCHANGED <<catalogue, status>>,
           t.does = "edit" /\ t.at = "linked" => \A p \in t.added : Exists(p)
    PROVE  OneHolder' /\ HeldOpen' /\ CarriedExist' /\ CarriedPriced'
  <1>1. WorkersTyped
    BY Typed DEF Inv
  <1>2. worker'[w] = t /\ \A v \in Workers : v # w => worker'[v] = worker[v]
    BY <1>1 DEF WorkersTyped
  <1>. QED
    BY <1>2 DEF Inv, OneHolder, HeldOpen, CarriedExist, CarriedPriced, Holds, Carries, Exists,
                catalogue

LEMMA PromotionHolds == Inv /\ Promotion => Inv'
  <1>. SUFFICES ASSUME Inv, Promotion PROVE Inv'
    OBVIOUS
  <1>1. TypeOK' /\ UNCHANGED <<categories, shelf, price, onSale, status>>
    BY PromotionTyped DEF Inv, catalogue
  <1>2. PromotionsTyped /\ WorkersTyped /\ OrdersTyped
    BY Typed DEF Inv
  <1>3. DiscountsAim /\ ShelvesExist /\ LinesRefer
    BY DEF Inv, ReferencesHold
  <1>4. OnSalePriced' /\ ShelvesExist'
    BY <1>1 DEF Inv, OnSalePriced, ReferencesHold, ShelvesExist, Exists
  <1>5. ASSUME UNCHANGED worker
        PROVE  OneHolder' /\ HeldOpen' /\ CarriedExist' /\ CarriedPriced'
    BY <1>1, <1>5 DEF Inv, OneHolder, HeldOpen, CarriedExist, CarriedPriced, Holds, Carries,
                      Exists
  <1>6. ASSUME UNCHANGED <<discounts, row, list, lines>>
        PROVE  DiscountsAim' /\ LinesRefer'
    BY <1>1, <1>3, <1>6 DEF DiscountsAim, LinesRefer, Consistent, TargetsExist, Exists
  <1>. DEFINE Held == OneHolder' /\ HeldOpen' /\ CarriedExist' /\ CarriedPriced'
              Aimed == DiscountsAim' /\ LinesRefer'
  <1>7. ASSUME NEW d \in Discounts, DeleteDiscount(d)
        PROVE  Held /\ Aimed
    <2>. USE <1>7 DEF DeleteDiscount
    <2>1. \A e \in discounts' : e \in discounts /\ row'[e] = row[e] /\ list'[e] = list[e]
      BY <1>2 DEF PromotionsTyped
    <2>2. DiscountsAim'
      BY <2>1, <1>1, <1>3 DEF DiscountsAim, Consistent, TargetsExist, Exists
    <2>3. ASSUME NEW o \in Orders, NEW p \in Products
          PROVE  /\ lines'[o][p].qty = lines[o][p].qty
                 /\ lines'[o][p].offer # None => lines'[o][p].offer \in discounts'
      <3>1. lines[o][p] \in Line
        BY <1>2 DEF OrdersTyped
      <3>2. lines[o][p].offer # None => lines[o][p].offer \in discounts
        BY <1>3 DEF LinesRefer
      <3>3. lines'[o][p] = IF lines[o][p].offer = d THEN [lines[o][p] EXCEPT !.offer = None]
                           ELSE lines[o][p]
        OBVIOUS
      <3>. QED
        BY <3>1, <3>2, <3>3 DEF Line
    <2>4. LinesRefer'
      BY <2>3, <1>1, <1>3 DEF LinesRefer, Exists
    <2>. QED
      BY <2>2, <2>4, <1>5
  <1>8. ASSUME NEW d \in Discounts, ForceMoves(d)
        PROVE  Held /\ Aimed
    BY <1>8, <1>5, <1>6 DEF ForceMoves, orders
  <1>9. ASSUME NEW d \in Discounts, NEW r \in Rows, NEW products \in SUBSET Products,
               CreateDiscount(d, r, products)
        PROVE  Held /\ Aimed
    <2>. USE <1>9 DEF CreateDiscount
    <2>1. row'[d] = r /\ list'[d] = IF r.scope = "product_list" THEN products ELSE {}
      BY <1>2 DEF PromotionsTyped
    <2>2. \A e \in discounts' : e # d => e \in discounts /\ row'[e] = row[e] /\ list'[e] = list[e]
      BY <1>2 DEF PromotionsTyped
    <2>3. Consistent(r) /\ TargetsExist(r, IF r.scope = "product_list" THEN products ELSE {})
      BY DEF Valid
    <2>4. DiscountsAim'
      BY <2>1, <2>2, <2>3, <1>1, <1>3 DEF DiscountsAim, Consistent, TargetsExist, Exists
    <2>5. LinesRefer'
      BY <1>1, <1>3 DEF LinesRefer, Exists, orders
    <2>. QED
      BY <2>4, <2>5, <1>5
  <1>10. ASSUME NEW w \in Workers, NEW d \in Discounts, NEW patch \in Patches,
                EditReads(w, d, patch)
         PROVE  Held /\ Aimed
    <2>1. worker[w].does # "basket"
      BY <1>10, <1>2, KindOf DEF EditReads
    <2>2. WorkersTyped'
      BY <1>1, TypedNext
    <2>3. /\ worker' = [worker EXCEPT ![w] = worker'[w]]
          /\ worker'[w].does = "edit" /\ worker'[w].at = "read"
          /\ worker'[w] \in Task
      BY <1>10, <1>2, <2>2 DEF EditReads, WorkersTyped
    <2>. DEFINE t == worker'[w]
    <2>. HIDE DEF t
    <2>4. /\ worker' = [worker EXCEPT ![w] = t]
          /\ t.does = "edit" /\ t.at = "read" /\ t \in Task
      BY <2>3 DEF t
    <2>5. Held
      BY <2>1, <2>4, <1>1, EditMoves DEF catalogue
    <2>. QED
      BY <2>5, <1>6, <1>10 DEF EditReads, promotions, orders
  <1>11. ASSUME NEW w \in Workers, EditUnlists(w)
         PROVE  Held /\ Aimed
    <2>1. worker[w] \in EditTask /\ worker[w].does # "basket"
      BY <1>11, <1>2, KindOf DEF EditUnlists
    <2>2. WorkersTyped'
      BY <1>1, TypedNext
    <2>3. /\ worker' = [worker EXCEPT ![w] = worker'[w]]
          /\ worker'[w].does = "edit" /\ worker'[w].at = "unlinking"
          /\ worker'[w] \in Task
      BY <1>11, <1>2, <2>1, <2>2 DEF EditUnlists, WorkersTyped, EditTask
    <2>. DEFINE t == worker'[w]
    <2>. HIDE DEF t
    <2>4. /\ worker' = [worker EXCEPT ![w] = t]
          /\ t.does = "edit" /\ t.at = "unlinking" /\ t \in Task
      BY <2>3 DEF t
    <2>5. Held
      BY <2>1, <2>4, <1>1, EditMoves DEF catalogue
    <2>. QED
      BY <2>5, <1>6, <1>11 DEF EditUnlists, promotions, orders
  <1>12. ASSUME NEW w \in Workers, EditLists(w)
         PROVE  Held /\ Aimed
    <2>1. worker[w] \in EditTask /\ worker[w].does # "basket"
      BY <1>12, <1>2, KindOf DEF EditLists
    <2>2. WorkersTyped'
      BY <1>1, TypedNext
    <2>3. /\ worker' = [worker EXCEPT ![w] = worker'[w]]
          /\ worker'[w].does = "edit" /\ worker'[w].added = worker[w].list
          /\ worker'[w] \in Task
      BY <1>12, <1>2, <2>1, <2>2 DEF EditLists, WorkersTyped, EditTask
    <2>. DEFINE t == worker'[w]
    <2>. HIDE DEF t
    <2>4. /\ worker' = [worker EXCEPT ![w] = t]
          /\ t.does = "edit" /\ t.added = worker[w].list /\ t \in Task
      BY <2>3 DEF t
    <2>5. \A p \in worker[w].list : Exists(p)
      BY <1>12 DEF EditLists
    <2>6. Held
      BY <2>1, <2>4, <2>5, <1>1, EditMoves DEF catalogue
    <2>. QED
      BY <2>6, <1>6, <1>12 DEF EditLists, promotions, orders
  <1>13. ASSUME NEW w \in Workers, EditCommits(w)
         PROVE  Held /\ Aimed
    <2>. DEFINE d == worker[w].discount
                new == Written(row[d], worker[w].seen, worker[w].wanted)
                products == (list[d] \ worker[w].doomed) \cup worker[w].added
    <2>1. worker[w] \in EditTask /\ worker[w].does # "basket"
      BY <1>13, <1>2, KindOf DEF EditCommits
    <2>2. Idle \in Task /\ Idle.does = "nothing"
      BY DEF Idle, Task
    <2>3. Held
      BY <2>1, <2>2, <1>1, <1>13, EditMoves DEF EditCommits, catalogue
    <2>4. d \in Discounts /\ worker[w].added \subseteq Products
      BY <2>1 DEF EditTask
    <2>5. \A p \in worker[w].added : Exists(p)
      BY <1>13, <2>4 DEF EditCommits, Inv, CarriedExist, Carries
    <2>6. d \in discounts /\ Consistent(new) /\ TargetsExist(new, {})
      BY <1>13 DEF EditCommits
    <2>7. \A p \in list[d] : Exists(p)
      BY <2>6, <1>3 DEF DiscountsAim, TargetsExist
    <2>8. TargetsExist(new, products)
      BY <2>5, <2>6, <2>7 DEF TargetsExist
    <2>9. /\ row' = [row EXCEPT ![d] = new] /\ list' = [list EXCEPT ![d] = products]
          /\ UNCHANGED <<discounts, lines>>
      BY <1>13 DEF EditCommits, orders
    <2>. HIDE DEF new, products
    <2>10. DiscountsAim'
      <3>1. /\ row'[d] = new /\ list'[d] = products
            /\ \A e \in discounts : e # d => row'[e] = row[e] /\ list'[e] = list[e]
        BY <2>4, <2>9, <1>2 DEF PromotionsTyped
      <3>. QED
        BY <3>1, <2>6, <2>8, <2>9, <1>1, <1>3 DEF DiscountsAim, Consistent, TargetsExist, Exists
    <2>11. LinesRefer'
      BY <2>9, <1>1, <1>3 DEF LinesRefer, Exists
    <2>. QED
      BY <2>3, <2>10, <2>11
  <1>14. Held /\ Aimed
    <2>. HIDE DEF Held, Aimed
    <2>. QED
      BY <1>7, <1>8, <1>9, <1>10, <1>11, <1>12, <1>13 DEF Promotion
  <1>. QED
    BY <1>1, <1>4, <1>14 DEF Inv, ReferencesHold

\* A basket moves on; what it now holds no other held.
LEMMA BasketMoves ==
    ASSUME Inv, NEW w \in Workers, NEW t \in Task, worker' = [worker EXCEPT ![w] = t],
           t.does # "edit", UNCHANGED <<catalogue, status>>,
           t.does = "basket" /\ t.at # "asked" =>
               /\ \A o \in Orders : t.order = o =>
                     /\ status[o] # "submitted"
                     /\ \A v \in Workers : v # w => ~Holds(v, o)
               /\ \A p \in Products : t.lines[p].qty > 0 => price[p] > 0
    PROVE  OneHolder' /\ HeldOpen' /\ CarriedExist' /\ CarriedPriced'
  <1>1. WorkersTyped
    BY Typed DEF Inv
  <1>2. worker'[w] = t /\ \A v \in Workers : v # w => worker'[v] = worker[v]
    BY <1>1 DEF WorkersTyped
  <1>3. OneHolder'
    BY <1>2 DEF Inv, OneHolder, Holds
  <1>4. HeldOpen'
    BY <1>2 DEF Inv, HeldOpen, Holds
  <1>5. CarriedPriced'
    BY <1>2 DEF Inv, CarriedPriced, catalogue
  <1>6. CarriedExist'
    BY <1>2 DEF Inv, CarriedExist, Carries, Exists, OnSalePriced, catalogue
  <1>. QED
    BY <1>3, <1>4, <1>5, <1>6

LEMMA BasketHolds == Inv /\ Basket => Inv'
  <1>. SUFFICES ASSUME Inv, Basket PROVE Inv'
    OBVIOUS
  <1>1. /\ TypeOK'
        /\ UNCHANGED <<categories, shelf, price, onSale, discounts, row, list, inForce>>
    BY BasketTyped DEF Inv, catalogue, promotions
  <1>2. CatalogueTyped /\ PromotionsTyped /\ WorkersTyped /\ OrdersTyped
    BY Typed DEF Inv
  <1>3. DiscountsAim /\ ShelvesExist /\ LinesRefer
    BY DEF Inv, ReferencesHold
  <1>4. OnSalePriced' /\ ShelvesExist' /\ DiscountsAim'
    BY <1>1, <1>3 DEF Inv, OnSalePriced, ShelvesExist, DiscountsAim, Consistent, TargetsExist, Exists
  <1>5. ASSUME UNCHANGED lines
        PROVE  LinesRefer'
    BY <1>1, <1>3, <1>5 DEF LinesRefer, Exists
  <1>6. WorkersTyped'
    BY <1>1, TypedNext
  <1>. DEFINE Held == OneHolder' /\ HeldOpen' /\ CarriedExist' /\ CarriedPriced'
  <1>7. ASSUME NEW asked \in [Products -> Line], Available(asked),
               NEW p \in Products, Quoted(asked)[p].qty > 0
        PROVE  price[p] > 0
    <2>1. Quoted(asked)[p].qty = asked[p].qty
      BY <1>2, QuotedTyped
    <2>. QED
      BY <2>1, <1>7 DEF Available, Inv, OnSalePriced
  <1>8. ASSUME NEW w \in Workers, NEW asked \in Baskets, AskDraft(w, asked)
        PROVE  Held /\ LinesRefer'
    <2>1. /\ worker' = [worker EXCEPT ![w] = worker'[w]]
          /\ worker'[w].does = "basket" /\ worker'[w].at = "asked" /\ worker'[w] \in Task
      BY <1>8, <1>2, <1>6 DEF AskDraft, BasketStarts, WorkersTyped
    <2>. DEFINE t == worker'[w]
    <2>. HIDE DEF t
    <2>2. worker' = [worker EXCEPT ![w] = t] /\ t.does = "basket" /\ t.at = "asked" /\ t \in Task
      BY <2>1 DEF t
    <2>3. Held
      BY <2>2, <1>1, <1>8, BasketMoves DEF AskDraft, BasketStarts, catalogue, orders
    <2>. QED
      BY <2>3, <1>5, <1>8 DEF AskDraft, BasketStarts, orders
  <1>9. ASSUME NEW w \in Workers, NEW o \in Orders, Submit(w, o)
        PROVE  Held /\ LinesRefer'
    <2>1. /\ worker' = [worker EXCEPT ![w] = worker'[w]]
          /\ worker'[w].does = "basket" /\ worker'[w].order = o /\ worker'[w].lines = lines[o]
          /\ worker'[w] \in Task
      BY <1>9, <1>2, <1>6 DEF Submit, BasketStarts, WorkersTyped
    <2>. DEFINE t == worker'[w]
    <2>. HIDE DEF t
    <2>2. /\ worker' = [worker EXCEPT ![w] = t] /\ t.does = "basket" /\ t \in Task
          /\ t.order = o /\ t.lines = lines[o]
      BY <2>1 DEF t
    <2>3. status[o] # "submitted" /\ \A v \in Workers : ~Holds(v, o)
      BY <1>9 DEF Submit
    <2>4. \A p \in Products : t.lines[p].qty > 0 => price[p] > 0
      BY <2>2, <1>3 DEF LinesRefer
    <2>5. UNCHANGED <<catalogue, status, lines>>
      BY <1>9 DEF Submit, BasketStarts, orders
    <2>6. Held
      BY <2>2, <2>3, <2>4, <2>5, BasketMoves
    <2>. QED
      BY <2>5, <2>6, <1>5
  <1>10. ASSUME NEW w \in Workers, NEW o \in Orders, NEW asked \in Baskets,
                Checkout(w, o, asked)
         PROVE  Held /\ LinesRefer'
    <2>. DEFINE q == Quoted(asked)
    <2>1. /\ worker' = [worker EXCEPT ![w] = worker'[w]]
          /\ worker'[w].does = "basket" /\ worker'[w].order = o /\ worker'[w].lines = q
          /\ worker'[w] \in Task
      BY <1>10, <1>2, <1>6 DEF Checkout, BasketStarts, WorkersTyped
    <2>2. status[o] # "submitted" /\ \A v \in Workers : ~Holds(v, o)
      BY <1>10 DEF Checkout, Fresh
    <2>3. \A p \in Products : q[p].qty > 0 => price[p] > 0
      BY <1>10, <1>7, AskedTyped DEF Checkout
    <2>. DEFINE t == worker'[w]
    <2>. HIDE DEF t, q
    <2>4. /\ worker' = [worker EXCEPT ![w] = t] /\ t.does = "basket" /\ t \in Task
          /\ t.order = o /\ t.lines = q
      BY <2>1 DEF t
    <2>5. UNCHANGED <<catalogue, status, lines>>
      BY <1>10 DEF Checkout, BasketStarts, orders
    <2>6. Held
      BY <2>2, <2>3, <2>4, <2>5, BasketMoves
    <2>. QED
      BY <2>5, <2>6, <1>5
  <1>11. ASSUME NEW w \in Workers, TakeDraft(w)
         PROVE  Held /\ LinesRefer'
    <2>. DEFINE q == Quoted(worker[w].lines)
    <2>1. worker[w] \in BasketTask
      BY <1>2, <1>11, KindOf DEF TakeDraft
    <2>2. worker[w].lines \in [Products -> Line] /\ Available(worker[w].lines)
      BY <2>1, <1>11 DEF BasketTask, TakeDraft
    <2>3. \A p \in Products : q[p].qty > 0 => price[p] > 0
      BY <2>2, <1>7
    <2>4. PICK o \in Orders :
              /\ \A v \in Workers : ~Holds(v, o)
              /\ status[o] # "submitted"
              /\ worker' = [worker EXCEPT ![w] = [worker[w] EXCEPT !.at = "taken", !.order = o,
                                                       !.lines = q]]
      BY <1>11 DEF TakeDraft, Fresh, Drafts
    <2>. HIDE DEF q
    <2>5. /\ worker' = [worker EXCEPT ![w] = worker'[w]]
          /\ worker'[w].does = "basket" /\ worker'[w].order = o /\ worker'[w].lines = q
          /\ worker'[w] \in Task
      BY <2>1, <2>4, <1>2, <1>6 DEF WorkersTyped, BasketTask
    <2>. DEFINE t == worker'[w]
    <2>. HIDE DEF t
    <2>6. /\ worker' = [worker EXCEPT ![w] = t] /\ t.does = "basket" /\ t \in Task
          /\ t.order = o /\ t.lines = q
      BY <2>5 DEF t
    <2>7. UNCHANGED <<catalogue, status, lines>>
      BY <1>11 DEF TakeDraft, orders
    <2>8. status[o] # "submitted" /\ \A v \in Workers : ~Holds(v, o)
      BY <2>4
    <2>9. \A p \in Products : t.lines[p].qty > 0 => price[p] > 0
      BY <2>3, <2>6
    <2>10. Held
      BY <2>6, <2>7, <2>8, <2>9, BasketMoves
    <2>. QED
      BY <2>7, <2>10, <1>5
  <1>12. ASSUME NEW w \in Workers, PriceLines(w)
         PROVE  Held /\ LinesRefer'
    <2>. DEFINE q == Repriced(worker[w].lines)
                o == worker[w].order
    <2>1. worker[w] \in BasketTask /\ worker[w].does = "basket" /\ worker[w].at # "asked"
      BY <1>2, <1>12, KindOf DEF PriceLines
    <2>2. worker[w].lines \in [Products -> Line]
      BY <2>1 DEF BasketTask
    <2>3. \A p \in Products : q[p].qty > 0 => price[p] > 0
      <3>1. \A p \in Products : q[p].qty = worker[w].lines[p].qty
        BY <1>2, <2>2, RepricedTyped
      <3>. HIDE DEF q
      <3>. QED
        BY <3>1, <2>1 DEF Inv, CarriedPriced
    <2>4. Holds(w, o)
      BY <2>1 DEF Holds
    <2>5. ASSUME o \in Orders
          PROVE  status[o] # "submitted" /\ \A v \in Workers : v # w => ~Holds(v, o)
      BY <2>4, <2>5 DEF Inv, HeldOpen, OneHolder
    <2>6. worker' = [worker EXCEPT ![w] = [worker[w] EXCEPT !.at = "priced", !.lines = q]]
      BY <1>12 DEF PriceLines
    <2>. HIDE DEF q
    <2>7. /\ worker' = [worker EXCEPT ![w] = worker'[w]]
          /\ worker'[w].does = "basket" /\ worker'[w].order = o /\ worker'[w].lines = q
          /\ worker'[w] \in Task
      BY <2>1, <2>6, <1>2, <1>6 DEF WorkersTyped, BasketTask
    <2>. DEFINE t == worker'[w]
    <2>. HIDE DEF t, o
    <2>8. /\ worker' = [worker EXCEPT ![w] = t] /\ t.does = "basket" /\ t \in Task
          /\ t.order = o /\ t.lines = q
      BY <2>7 DEF t
    <2>9. UNCHANGED <<catalogue, status, lines>>
      BY <1>12 DEF PriceLines, orders
    <2>10. Held
      BY <2>3, <2>5, <2>8, <2>9, BasketMoves
    <2>. QED
      BY <2>9, <2>10, <1>5
  <1>13. Idle \in Task /\ Idle.does = "nothing"
    BY DEF Idle, Task
  <1>14. ASSUME NEW w \in Workers, BasketCommits(w)
         PROVE  Held /\ LinesRefer'
    <2>. DEFINE t == worker[w]
                n == Landing(t)
                s == IF t.kind = "replace" THEN "draft" ELSE "submitted"
    <2>1. t \in BasketTask /\ t.does = "basket" /\ t.at # "asked"
      BY <1>2, <1>14, KindOf DEF BasketCommits
    <2>2. /\ status' = [status EXCEPT ![t.order] = s]
          /\ lines' = [lines EXCEPT ![t.order] = n]
          /\ worker' = [worker EXCEPT ![w] = Idle]
          /\ \A p \in Products : n[p].offer \in discounts \cup {None}
      BY <1>14 DEF BasketCommits
    <2>3. ASSUME NEW p \in Products
          PROVE  n[p].qty = t.lines[p].qty
      BY <2>1 DEF Landing, BasketTask, Line
    <2>4. ASSUME NEW p \in Products, t.lines[p].qty > 0
          PROVE  price[p] > 0 /\ Exists(p)
      BY <2>1, <2>4 DEF Inv, CarriedPriced, OnSalePriced
    <2>. HIDE DEF n, s
    <2>5. LinesRefer'
      <3>1. ASSUME NEW o \in Orders, NEW p \in Products
            PROVE  /\ lines'[o][p].qty > 0 => Exists(p) /\ price[p] > 0
                   /\ lines'[o][p].offer # None => lines'[o][p].offer \in discounts
        <4>1. CASE o = t.order
          BY <4>1, <1>2, <2>2, <2>3, <2>4 DEF OrdersTyped
        <4>2. CASE o # t.order
          BY <4>2, <1>2, <2>2, <1>3 DEF OrdersTyped, LinesRefer
        <4>. QED
          BY <4>1, <4>2
      <3>. QED
        BY <3>1, <1>1 DEF LinesRefer, Exists
    <2>6. Holds(w, t.order)
      BY <2>1 DEF Holds
    <2>7. /\ worker'[w] = Idle
          /\ \A v \in Workers : v # w => worker'[v] = worker[v]
      BY <2>2, <1>2 DEF WorkersTyped
    <2>. HIDE DEF t
    <2>8. OneHolder'
      BY <2>7, <1>13 DEF Inv, OneHolder, Holds
    <2>9. HeldOpen'
      <3>1. ASSUME NEW v \in Workers, NEW o \in Orders, Holds(v, o)'
            PROVE  status'[o] # "submitted"
        <4>1. v # w /\ Holds(v, o)
          BY <2>7, <1>13, <3>1 DEF Holds
        <4>2. o # t.order
          BY <4>1, <2>6 DEF Inv, OneHolder
        <4>3. status'[o] = status[o]
          BY <4>2, <2>2, <1>2 DEF OrdersTyped
        <4>. QED
          BY <4>1, <4>3 DEF Inv, HeldOpen
      <3>. QED
        BY <3>1 DEF HeldOpen
    <2>10. CarriedExist' /\ CarriedPriced'
      BY <2>7, <1>1, <1>13 DEF Inv, CarriedExist, CarriedPriced, Carries, Exists
    <2>. QED
      BY <2>5, <2>8, <2>9, <2>10
  <1>15. ASSUME NEW w \in Workers, Refused(w)
         PROVE  Held /\ LinesRefer'
    <2>1. worker' = [worker EXCEPT ![w] = Idle] /\ UNCHANGED <<catalogue, status, lines>>
      BY <1>15 DEF Refused, orders
    <2>2. Held
      BY <2>1, <1>13, BasketMoves
    <2>. QED
      BY <2>1, <2>2, <1>5
  <1>16. Held /\ LinesRefer'
    <2>. HIDE DEF Held
    <2>. QED
      BY <1>8, <1>9, <1>10, <1>11, <1>12, <1>14, <1>15 DEF Basket
  <1>. QED
    BY <1>1, <1>4, <1>16 DEF Inv, ReferencesHold

LEMMA NextHolds == Inv /\ [Next]_vars => Inv'
  <1>1. ASSUME Inv, UNCHANGED vars PROVE Inv'
    <2>. USE <1>1 DEF vars, catalogue, promotions, orders
    <2>1. TypeOK'
      BY DEF Inv, TypeOK
    <2>2. ReferencesHold' /\ OnSalePriced'
      BY DEF Inv, ReferencesHold, DiscountsAim, ShelvesExist, LinesRefer, Consistent, TargetsExist,
             OnSalePriced, Exists
    <2>3. OneHolder' /\ HeldOpen' /\ CarriedExist' /\ CarriedPriced'
      BY DEF Inv, OneHolder, HeldOpen, CarriedExist, CarriedPriced, Holds, Carries, Exists
    <2>. QED
      BY <2>1, <2>2, <2>3 DEF Inv
  <1>. QED
    BY <1>1, CatalogHolds, PromotionHolds, BasketHolds DEF Next

\* A request that commits holds an order still open; a deletion takes only the reference
\* to the discount.
LEMMA SubmittedStep ==
    ASSUME Inv, [Next]_vars, NEW o \in Orders, status[o] = "submitted"
    PROVE  /\ status'[o] = "submitted"
           /\ \A p \in Products :
                 \/ lines'[o][p] = lines[o][p]
                 \/ lines'[o][p] = [lines[o][p] EXCEPT !.offer = None]
  <1>. DEFINE Kept == /\ status'[o] = "submitted"
                      /\ \A p \in Products :
                            \/ lines'[o][p] = lines[o][p]
                            \/ lines'[o][p] = [lines[o][p] EXCEPT !.offer = None]
  <1>1. OrdersTyped /\ WorkersTyped
    BY Typed DEF Inv
  <1>2. ASSUME UNCHANGED <<status, lines>>
        PROVE  Kept
    BY <1>2
  <1>3. ASSUME Catalog PROVE Kept
    BY <1>2, <1>3, CatalogTyped DEF Inv, orders
  <1>4. ASSUME Promotion PROVE Kept
    <2>1. UNCHANGED status
      BY <1>4, PromotionTyped DEF Inv
    <2>2. ASSUME NEW d \in Discounts, DeleteDiscount(d)
          PROVE  Kept
      BY <2>1, <2>2 DEF DeleteDiscount
    <2>3. ASSUME NEW d \in Discounts, ForceMoves(d)
          PROVE  Kept
      BY <2>3, <1>2 DEF ForceMoves, orders
    <2>4. ASSUME NEW d \in Discounts, NEW r \in Rows, NEW products \in SUBSET Products,
                 CreateDiscount(d, r, products)
          PROVE  Kept
      BY <2>4, <1>2 DEF CreateDiscount, orders
    <2>5. ASSUME NEW w \in Workers, NEW d \in Discounts, NEW patch \in Patches,
                 EditReads(w, d, patch)
          PROVE  Kept
      BY <2>5, <1>2 DEF EditReads, orders
    <2>6. ASSUME NEW w \in Workers, EditUnlists(w) \/ EditLists(w) \/ EditCommits(w)
          PROVE  Kept
      BY <2>6, <1>2 DEF EditUnlists, EditLists, EditCommits, orders
    <2>. HIDE DEF Kept
    <2>. QED
      BY <1>4, <2>2, <2>3, <2>4, <2>5, <2>6 DEF Promotion
  <1>5. ASSUME Basket PROVE Kept
    <2>1. ASSUME NEW w \in Workers, BasketCommits(w)
          PROVE  Kept
      <3>1. Holds(w, worker[w].order)
        BY <2>1 DEF BasketCommits, Holds
      <3>2. o # worker[w].order
        BY <3>1 DEF Inv, HeldOpen
      <3>3. status'[o] = status[o] /\ lines'[o] = lines[o]
        BY <3>2, <2>1, <1>1 DEF BasketCommits, OrdersTyped
      <3>. QED
        BY <3>3
    <2>2. ASSUME NEW w \in Workers, NEW asked \in Baskets, AskDraft(w, asked)
          PROVE  Kept
      BY <2>2, <1>2 DEF AskDraft, BasketStarts, orders
    <2>3. ASSUME NEW w \in Workers, NEW n \in Orders, Submit(w, n)
          PROVE  Kept
      BY <2>3, <1>2 DEF Submit, BasketStarts, orders
    <2>4. ASSUME NEW w \in Workers, NEW n \in Orders, NEW asked \in Baskets,
                 Checkout(w, n, asked)
          PROVE  Kept
      BY <2>4, <1>2 DEF Checkout, BasketStarts, orders
    <2>5. ASSUME NEW w \in Workers, TakeDraft(w) \/ PriceLines(w) \/ Refused(w)
          PROVE  Kept
      BY <2>5, <1>2 DEF TakeDraft, PriceLines, Refused, orders
    <2>. HIDE DEF Kept
    <2>. QED
      BY <1>5, <2>1, <2>2, <2>3, <2>4, <2>5 DEF Basket
  <1>6. ASSUME UNCHANGED vars PROVE Kept
    BY <1>6, <1>2 DEF vars, orders
  <1>. HIDE DEF Kept
  <1>7. Kept
    BY <1>3, <1>4, <1>5, <1>6 DEF Next
  <1>. QED
    BY <1>7 DEF Kept

-----------------------------------------------------------------------------
\* The prices (services/money_s.py, discount_s.py): whatever discounts there are, at most
\* one applies, no other saves more, the price paid is between nothing and the list price,
\* and none is taken only when none saves anything.
THEOREM BestPrice ==
    ASSUME NEW u \in Nat, NEW offers, DOMAIN offers \subseteq Nat,
           \A d \in DOMAIN offers : offers[d].type \in {"percent", "fixed"} /\ offers[d].value \in Nat
    PROVE  /\ Final(u, offers) \in 0..u
           /\ \A d \in DOMAIN offers : Final(u, offers) <= u - Saving(u, offers[d])
           /\ Final(u, offers) = u <=> Best(u, offers) = None
  <1>. DEFINE b == Best(u, offers)
  <1>1. None \notin Nat
    BY CatalogueAssumption
  <1>2. /\ b \in DOMAIN offers \cup {None}
        /\ b = None => \A d \in DOMAIN offers : Saving(u, offers[d]) = 0
        /\ b # None => /\ Saving(u, offers[b]) > 0
                       /\ \A d \in DOMAIN offers : Saving(u, offers[d]) <= Saving(u, offers[b])
    BY <1>1, Chosen
  <1>3. \A d \in DOMAIN offers : Saving(u, offers[d]) \in 0..u
    BY Saves
  <1>4. Final(u, offers) = u - (IF b = None THEN 0 ELSE Saving(u, offers[b]))
    BY DEF Final, SavedOn
  <1>. HIDE DEF b
  <1>5. CASE b = None
    BY <1>5, <1>2, <1>3, <1>4 DEF b
  <1>6. CASE b # None
    <2>1. b \in DOMAIN offers
      BY <1>6, <1>2
    <2>2. Saving(u, offers[b]) \in 0..u
      BY <2>1, <1>3
    <2>3. Final(u, offers) = u - Saving(u, offers[b])
      BY <1>6, <1>4
    <2>. QED
      BY <1>6, <2>2, <2>3, <1>2, <1>3 DEF b
  <1>. QED
    BY <1>5, <1>6

\* The page of a product (services/products_storefront_s.py): the price it shows is one
\* that some variant sells for and none sells for less, it is at most the price shown
\* before the discounts, and when it is shown as reduced a variant really is.
THEOREM PageIsTrue ==
    ASSUME NEW prices \in SUBSET Nat, prices # {}, NEW offers, DOMAIN offers \subseteq Nat,
           \A d \in DOMAIN offers : offers[d].type \in {"percent", "fixed"} /\ offers[d].value \in Nat
    PROVE  /\ \E u \in prices : ShownAfter(prices, offers) = Final(u, offers)
           /\ \A u \in prices : ShownAfter(prices, offers) <= Final(u, offers)
           /\ ShownAfter(prices, offers) <= ShownBefore(prices)
           /\ ShownAsReduced(prices, offers) => \E u \in prices : Final(u, offers) < u
  <1>. DEFINE finals == {Final(u, offers) : u \in prices}
              before == ShownBefore(prices)
              after == ShownAfter(prices, offers)
  <1>1. \A u \in prices : Final(u, offers) \in 0..u
    BY BestPrice
  <1>2. before \in prices /\ \A u \in prices : before <= u
    BY Least DEF ShownBefore, Cheapest
  <1>3. after \in finals /\ \A f \in finals : after <= f
    <2>1. finals \in SUBSET Nat /\ finals # {}
      <3>1. \A u \in prices : Final(u, offers) \in Nat
        BY <1>1
      <3>. QED
        BY <3>1, Zenon
    <2>. HIDE DEF finals
    <2>2. \E m \in finals : \A n \in finals : m <= n
      BY <2>1, Least
    <2>3. (CHOOSE m \in finals : \A n \in finals : m <= n) \in finals
          /\ \A n \in finals : (CHOOSE m \in finals : \A l \in finals : m <= l) <= n
      BY <2>2
    <2>4. after = CHOOSE m \in finals : \A n \in finals : m <= n
      BY DEF ShownAfter, Cheapest, finals
    <2>. QED
      BY <2>3, <2>4, Zenon
  <1>4. PICK u \in prices : after = Final(u, offers)
    BY <1>3
  <1>. HIDE DEF before, after
  <1>5. \A x \in prices : after <= Final(x, offers)
    BY <1>3
  <1>6. after <= Final(before, offers) /\ Final(before, offers) \in 0..before
    BY <1>1, <1>2, <1>5
  <1>7. after \in Nat /\ before \in Nat
    BY <1>1, <1>2, <1>4
  <1>8. after <= before
    BY <1>6, <1>7
  <1>9. after < before => Final(u, offers) < u
    BY <1>2, <1>4, <1>7
  <1>. QED
    BY <1>4, <1>5, <1>8, <1>9 DEF before, after, ShownAsReduced

\* The catalogue, the discounts and the baskets always are what the tables can hold.
THEOREM TypeCorrect == Spec => []TypeOK
  <1>1. Init => Inv
    BY InitHolds
  <1>2. Inv /\ [Next]_vars => Inv'
    BY NextHolds
  <1>3. Inv => TypeOK
    BY DEF Inv
  <1>. QED
    BY <1>1, <1>2, <1>3, PTL DEF Spec

\* Discounts aim at what exists, products are in categories there are, lines are of priced
\* products and name existing discounts, whatever is deleted while edits and baskets are
\* under way (the foreign keys and CHECKs of db/models.py with the guards of
\* products_s.py).
THEOREM References == Spec => []ReferencesHold
  <1>1. Init => Inv
    BY InitHolds
  <1>2. Inv /\ [Next]_vars => Inv'
    BY NextHolds
  <1>3. Inv => ReferencesHold
    BY DEF Inv
  <1>. QED
    BY <1>1, <1>2, <1>3, PTL DEF Spec

\* A submitted order keeps its articles, prices and savings (orders_s.py: a draft waited
\* for is taken only while it still is one).
THEOREM SubmittedForGood == Spec => SubmittedStays
  <1>1. Init => Inv
    BY InitHolds
  <1>2. Inv /\ [Next]_vars => Inv'
    BY NextHolds
  <1>3. Inv /\ [Next]_vars =>
          [\A o \in Orders : status[o] = "submitted" =>
              /\ status'[o] = "submitted"
              /\ \A p \in Products :
                    \/ lines'[o][p] = lines[o][p]
                    \/ lines'[o][p] = [lines[o][p] EXCEPT !.offer = None]]_vars
    BY SubmittedStep
  <1>. QED
    BY <1>1, <1>2, <1>3, PTL DEF Spec, SubmittedStays

=============================================================================
