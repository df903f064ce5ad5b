----------------------------- MODULE Catalogue -----------------------------
(***************************************************************************)
(* The catalogue, the discounts and the baskets of one user                *)
(* (services/products_s.py, discount_s.py, orders_s.py): administrators    *)
(* edit what requests of the user are pricing at the same time.            *)
(*                                                                         *)
(* A product stands for its one variant.  Its stock and who reserves it    *)
(* are StockReservations; payments and cancellations are OrderPayments.    *)
(* A first draft without articles is a basket replaced by an empty one.    *)
(*                                                                         *)
(* Atomicity.  The edit of a discount reads, validates, replaces its list  *)
(* of products and only then writes its row, without a lock; a basket      *)
(* looks for its draft, locks it, reads prices and later discounts.  Each  *)
(* of these is an action; what a transaction wrote is seen by the others   *)
(* when it commits.  The other operations write one row and are one action.*)
(* A rollback, whatever the reason, is the action Refused.                 *)
(***************************************************************************)
EXTENDS Pricing

CONSTANTS
    Categories, Products,
    Discounts,      \* ids, in the order of creation
    Orders,         \* ids, in the order of creation
    Workers,        \* requests that may be under way at once
    Prices,         \* the prices administrators set, in cents
    Values,         \* the values of discounts: a percentage or cents
    Quantities,     \* what a basket may ask of a product
    Patches,        \* the edits of discounts asked: None keeps a field
    MaxChanges,     \* bound: operations of administrators
    MaxBaskets      \* bound: requests of the user

ASSUME CatalogueAssumption ==
    /\ None \notin Categories \cup Products \cup Nat
    /\ None \notin {"percent", "fixed", "all", "category", "product", "product_list"}
    /\ Discounts \subseteq Nat /\ Orders \subseteq Nat
    /\ Prices \subseteq Nat \ {0} /\ Values \subseteq Nat \ {0}
    /\ Quantities \subseteq Nat
    /\ MaxChanges \in Nat /\ MaxBaskets \in Nat
    /\ Patches \subseteq [type : {"percent", "fixed", None}, value : Values \cup {None},
                          scope : {"all", "category", "product", "product_list", None},
                          category : Categories \cup {None}, product : Products \cup {None},
                          list : (SUBSET Products) \cup {None}]

VARIABLES
    categories, \* the categories there are
    shelf,      \* the category of each product, None when there is no such product
    price,      \* the price of its variant, 0 when it has none
    onSale,     \* the products whose variant is active
    discounts,  \* the discounts there are
    row,        \* the row of each discount
    list,       \* and its rows of discount_products
    inForce,    \* the discounts that are active and within their dates
    status,     \* of each order
    lines,      \* the lines of each order, by product
    worker,     \* what each request has read and will write
    retired,    \* the ids of what was deleted: none is used again
    changes, baskets    \* the operations there have been

catalogue == <<categories, shelf, price, onSale>>
promotions == <<discounts, row, list, inForce>>
orders == <<status, lines>>
vars == <<catalogue, promotions, orders, worker, retired, changes, baskets>>

Idle == [does |-> "nothing"]
NoLine == [qty |-> 0, unit |-> 0, saved |-> 0, offer |-> None]
Blank == [type |-> "fixed", value |-> 1, scope |-> "all", category |-> None, product |-> None]

TypeOK ==
    /\ categories \subseteq Categories
    /\ shelf \in [Products -> Categories \cup {None}]
    /\ price \in [Products -> Prices \cup {0}]
    /\ onSale \subseteq Products
    /\ discounts \subseteq Discounts
    /\ row \in [Discounts -> [type : {"percent", "fixed"}, value : Values \cup {1},
                              scope : {"all", "category", "product", "product_list"},
                              category : Categories \cup {None}, product : Products \cup {None}]]
    /\ list \in [Discounts -> SUBSET Products]
    /\ inForce \subseteq discounts
    /\ status \in [Orders -> {"none", "draft", "submitted"}]
    /\ lines \in [Orders -> [Products -> [qty : Nat, unit : Nat, saved : Nat,
                                          offer : Discounts \cup {None}]]]
    /\ worker \in [Workers ->
           {Idle}
           \cup [does : {"edit"}, at : {"read", "unlinking", "linked"}, discount : Discounts,
                 seen : [type : {"percent", "fixed"}, value : Values \cup {1},
                         scope : {"all", "category", "product", "product_list"},
                         category : Categories \cup {None}, product : Products \cup {None}],
                 wanted : [type : {"percent", "fixed"}, value : Values \cup {1},
                           scope : {"all", "category", "product", "product_list"},
                           category : Categories \cup {None}, product : Products \cup {None}],
                 list : SUBSET Products, doomed : SUBSET Products, added : SUBSET Products]
           \cup [does : {"basket"}, at : {"asked", "taken", "priced"},
                 kind : {"replace", "submit", "checkout"}, order : Orders \cup {None},
                 drafts : SUBSET Orders, read : [Products -> Discounts \cup {None}],
                 lines : [Products -> [qty : Nat, unit : Nat, saved : Nat,
                                       offer : Discounts \cup {None}]]]]
    /\ \A o \in Orders, p \in Products : lines[o][p].saved <= lines[o][p].unit
    /\ \A w \in Workers, p \in Products : worker[w].does = "basket" =>
           worker[w].lines[p].saved <= worker[w].lines[p].unit
    /\ retired \subseteq Categories \cup Products \cup Discounts
    /\ changes \in 0..MaxChanges
    /\ baskets \in 0..MaxBaskets

\* A shop with some products on its shelves, perhaps some discounts of a cent on all of
\* them, and no orders yet.
Init ==
    /\ categories \in SUBSET Categories
    /\ shelf \in [Products -> categories \cup {None}]
    /\ price \in [Products -> Prices \cup {0}]
    /\ \A p \in Products : shelf[p] = None <=> price[p] = 0
    /\ onSale = {p \in Products : price[p] > 0}
    /\ discounts \in SUBSET Discounts
    /\ inForce = discounts
    /\ row = [d \in Discounts |-> Blank]
    /\ list = [d \in Discounts |-> {}]
    /\ status = [o \in Orders |-> "none"]
    /\ lines = [o \in Orders |-> [p \in Products |-> NoLine]]
    /\ worker = [w \in Workers |-> Idle]
    /\ retired = {}
    /\ changes = 0 /\ baskets = 0

Exists(p) == shelf[p] # None
Drafts == {o \in Orders : status[o] = "draft"}

\* The rows a request under way holds: the order it locked, the products its lines refer
\* to, the rows of discount_products it deleted or inserted.
Holds(w, o) == worker[w].does = "basket" /\ worker[w].at # "asked" /\ worker[w].order = o
Carries(w, p) ==
    \/ /\ worker[w].does = "basket" /\ worker[w].at # "asked"
       /\ worker[w].lines[p].qty > 0
    \/ /\ worker[w].does = "edit" /\ worker[w].at = "linked"
       /\ p \in worker[w].added
Relists(w, d) ==
    IF worker[w].does = "edit" /\ worker[w].at = "linked" /\ worker[w].discount = d
    THEN worker[w].doomed \cup worker[w].added ELSE {}

Sold(p) == \E o \in Orders : lines[o][p].qty > 0
InUse(p) == Sold(p) \/ \E w \in Workers : Carries(w, p)

Change ==
    /\ changes < MaxChanges
    /\ changes' = changes + 1
    /\ UNCHANGED baskets

-----------------------------------------------------------------------------
CreateCategory(c) ==
    /\ Change
    /\ c \notin categories \cup retired
    /\ categories' = categories \cup {c}
    /\ UNCHANGED <<shelf, price, onSale, promotions, orders, worker, retired>>

\* Refused while it has products, and while a discount is for it: its column would become
\* null, which the row's CHECK does not allow.
DeleteCategory(c) ==
    /\ Change
    /\ c \in categories
    /\ \A p \in Products : shelf[p] # c
    /\ \A d \in discounts : row[d].category # c
    /\ categories' = categories \ {c}
    /\ retired' = retired \cup {c}
    /\ UNCHANGED <<shelf, price, onSale, promotions, orders, worker>>

CreateProduct(p, c) ==
    /\ Change
    /\ ~Exists(p) /\ p \notin retired /\ c \in categories
    /\ shelf' = [shelf EXCEPT ![p] = c]
    /\ price' = [price EXCEPT ![p] = 0]
    /\ onSale' = onSale \ {p}
    /\ UNCHANGED <<categories, promotions, orders, worker, retired>>

CreateVariant(p, amount) ==
    /\ Change
    /\ Exists(p) /\ price[p] = 0
    /\ price' = [price EXCEPT ![p] = amount]
    /\ onSale' \in {onSale, onSale \cup {p}}
    /\ UNCHANGED <<categories, shelf, promotions, orders, worker, retired>>

\* The active flag of a product is the one of its variants.
Shown(p) == {onSale \ {p}} \cup (IF price[p] > 0 THEN {onSale \cup {p}} ELSE {})

UpdateProduct(p, c) ==
    /\ Change
    /\ Exists(p) /\ c \in categories
    /\ shelf' = [shelf EXCEPT ![p] = c]
    /\ onSale' \in Shown(p)
    /\ UNCHANGED <<categories, price, promotions, orders, worker, retired>>

UpdateVariant(p, amount) ==
    /\ Change
    /\ Exists(p) /\ price[p] > 0
    /\ price' = [price EXCEPT ![p] = amount]
    /\ onSale' \in Shown(p)
    /\ UNCHANGED <<categories, shelf, promotions, orders, worker, retired>>

\* A variant in a line, of a draft too, cannot be deleted.
DeleteVariant(p) ==
    /\ Change
    /\ Exists(p) /\ price[p] > 0 /\ ~InUse(p)
    /\ price' = [price EXCEPT ![p] = 0]
    /\ onSale' = onSale \ {p}
    /\ UNCHANGED <<categories, shelf, promotions, orders, worker, retired>>

\* Nor a product, nor one a discount is for: the row's CHECK refuses the null, and the
\* mapper will not blank out the key of a row of discount_products.
DeleteProduct(p) ==
    /\ Change
    /\ Exists(p) /\ ~InUse(p)
    /\ \A d \in discounts : row[d].product # p /\ p \notin list[d]
    /\ shelf' = [shelf EXCEPT ![p] = None]
    /\ price' = [price EXCEPT ![p] = 0]
    /\ onSale' = onSale \ {p}
    /\ retired' = retired \cup {p}
    /\ UNCHANGED <<categories, promotions, orders, worker>>

-----------------------------------------------------------------------------
\* ck_discounts_scope_target_consistency: the scope says which target there is.
Consistent(r) ==
    /\ r.category # None <=> r.scope = "category"
    /\ r.product # None <=> r.scope = "product"

\* The foreign keys of a discount's row and of its products.
TargetsExist(r, products) ==
    /\ r.category # None => r.category \in categories
    /\ r.product # None => Exists(r.product)
    /\ \A p \in products : Exists(p)

\* What the service asks of a discount before it is written.
Valid(r, products) ==
    /\ r.type = "percent" => r.value <= 100
    /\ Consistent(r)
    /\ TargetsExist(r, IF r.scope = "product_list" THEN products ELSE {})
    /\ r.scope = "product_list" => products # {}

\* A discount for all, for one target or for a list; it may already be in force.
CreateDiscount(d, r, products) ==
    /\ Change
    /\ d \notin discounts \cup retired
    /\ Valid(r, products)
    /\ discounts' = discounts \cup {d}
    /\ row' = [row EXCEPT ![d] = r]
    /\ list' = [list EXCEPT ![d] = IF r.scope = "product_list" THEN products ELSE {}]
    /\ inForce' = inForce \cup {d}
    /\ UNCHANGED <<catalogue, orders, worker, retired>>

\* Refused while it has a list (the mapper will not blank out the key of its rows), the
\* one an edit under way is writing included; lines lose the reference and keep the amount.
DeleteDiscount(d) ==
    /\ Change
    /\ d \in discounts /\ list[d] = {}
    /\ \A w \in Workers : Relists(w, d) = {}
    /\ discounts' = discounts \ {d}
    /\ inForce' = inForce \ {d}
    /\ row' = [row EXCEPT ![d] = Blank]
    /\ lines' = [o \in Orders |-> [p \in Products |->
                    IF lines[o][p].offer = d THEN [lines[o][p] EXCEPT !.offer = None]
                    ELSE lines[o][p]]]
    /\ retired' = retired \cup {d}
    /\ UNCHANGED <<catalogue, list, status, worker>>

\* Its dates come, go or are edited, or its active flag is.
ForceMoves(d) ==
    /\ Change
    /\ d \in discounts
    /\ inForce' = IF d \in inForce THEN inForce \ {d} ELSE inForce \cup {d}
    /\ UNCHANGED <<catalogue, discounts, row, list, orders, worker, retired>>

Edited(r, patch) ==
    LET merged(old, asked) == IF asked = None THEN old ELSE asked
    IN  [type |-> merged(r.type, patch.type), value |-> merged(r.value, patch.value),
         scope |-> merged(r.scope, patch.scope),
         category |-> merged(r.category, patch.category),
         product |-> merged(r.product, patch.product)]

\* An edit merges what is asked into the row it reads and validates the result.
EditReads(w, d, patch) ==
    LET wanted == Edited(row[d], patch)
        products == IF patch.list = None THEN list[d] ELSE patch.list
    IN  /\ Change
        /\ worker[w] = Idle
        /\ d \in discounts
        /\ Valid(wanted, products)
        /\ worker' = [worker EXCEPT ![w] =
               [does |-> "edit", at |-> "read", discount |-> d, seen |-> row[d],
                wanted |-> wanted, doomed |-> {}, added |-> {},
                list |-> IF wanted.scope = "product_list" THEN products ELSE {}]]
        /\ UNCHANGED <<catalogue, promotions, orders, retired>>

\* The statement that deletes the list finds the rows there are when it starts.
EditUnlists(w) ==
    /\ worker[w].does = "edit" /\ worker[w].at = "read"
    /\ worker' = [worker EXCEPT ![w] = [worker[w] EXCEPT !.at = "unlinking",
                                            !.doomed = list[worker[w].discount]]]
    /\ UNCHANGED <<catalogue, promotions, orders, retired, changes, baskets>>

\* It waits for the edits that hold some of them, deletes those still there, and the new
\* list is inserted: a row there already refuses it.
EditLists(w) ==
    LET d == worker[w].discount
        gone == worker[w].doomed \cap list[d]
        new == worker[w].list
    IN  /\ worker[w].does = "edit" /\ worker[w].at = "unlinking"
        /\ \A v \in Workers : Relists(v, d) \cap (worker[w].doomed \cup new) = {}
        /\ d \in discounts
        /\ new \cap (list[d] \ gone) = {}
        /\ \A p \in new : Exists(p)
        /\ worker' = [worker EXCEPT ![w] = [worker[w] EXCEPT !.at = "linked",
                                                !.doomed = gone, !.added = new]]
        /\ UNCHANGED <<catalogue, promotions, orders, retired, changes, baskets>>

\* Only the columns that differ from what was read are written.
Written(r, seen, wanted) ==
    LET written(old, read, new) == IF new # read THEN new ELSE old
    IN  [type |-> written(r.type, seen.type, wanted.type),
         value |-> written(r.value, seen.value, wanted.value),
         scope |-> written(r.scope, seen.scope, wanted.scope),
         category |-> written(r.category, seen.category, wanted.category),
         product |-> written(r.product, seen.product, wanted.product)]

\* Mutation: the table has no CHECK on scopes and targets.
EditCommitsUnchecked(w) ==
    LET e == worker[w]
        d == e.discount
    IN  /\ e.does = "edit" /\ e.at = "linked"
        /\ d \in discounts
        /\ TargetsExist(Written(row[d], e.seen, e.wanted), {})
        /\ row' = [row EXCEPT ![d] = Written(row[d], e.seen, e.wanted)]
        /\ list' = [list EXCEPT ![d] = (list[d] \ e.doomed) \cup e.added]
        /\ worker' = [worker EXCEPT ![w] = Idle]
        /\ UNCHANGED <<catalogue, discounts, inForce, orders, retired, changes, baskets>>

EditCommits(w) ==
    LET e == worker[w]
        d == e.discount
        new == Written(row[d], e.seen, e.wanted)
    IN  /\ e.does = "edit" /\ e.at = "linked"
        /\ d \in discounts
        /\ Consistent(new) /\ TargetsExist(new, {})
        /\ row' = [row EXCEPT ![d] = new]
        /\ list' = [list EXCEPT ![d] = (list[d] \ e.doomed) \cup e.added]
        /\ worker' = [worker EXCEPT ![w] = Idle]
        /\ UNCHANGED <<catalogue, discounts, inForce, orders, retired, changes, baskets>>

-----------------------------------------------------------------------------
\* The lines for what is asked, at the prices of the moment; every article must be on sale.
Available(asked) == \A p \in Products : asked[p].qty > 0 => p \in onSale
Quoted(asked) ==
    [p \in Products |-> IF asked[p].qty = 0 THEN NoLine
                        ELSE [qty |-> asked[p].qty, unit |-> price[p], saved |-> 0, offer |-> None]]

\* The lines with the best discount of the moment for each.
OffersFor(p) ==
    [d \in {x \in discounts \cap inForce : Covers(row[x], list[x], p, shelf[p])} |-> row[d]]
Repriced(basket) ==
    [p \in Products |->
        IF basket[p].qty = 0 THEN NoLine
        ELSE [basket[p] EXCEPT !.saved = SavedOn(basket[p].unit, OffersFor(p)),
                               !.offer = Best(basket[p].unit, OffersFor(p))]]

Fresh(o) ==
    /\ status[o] = "none" /\ \A w \in Workers : ~Holds(w, o)
    /\ \A n \in Orders : status[n] = "none" /\ (\A w \in Workers : ~Holds(w, n)) => o <= n

BasketStarts(w, task) ==
    /\ baskets < MaxBaskets
    /\ worker[w] = Idle
    /\ baskets' = baskets + 1
    /\ worker' = [worker EXCEPT ![w] = task]
    /\ UNCHANGED <<catalogue, promotions, orders, retired, changes>>

\* The user's basket is replaced: the statement that locks the draft finds the drafts
\* there are when it starts.
AskDraft(w, asked) ==
    BasketStarts(w, [does |-> "basket", at |-> "asked", kind |-> "replace", order |-> None,
                     drafts |-> Drafts, lines |-> asked,
                     read |-> [p \in Products |-> None]])

\* Mutation: the draft waited for is taken without looking at its status again.
TakeDraftUnchecked(w) ==
    LET t == worker[w]
    IN  /\ t.does = "basket" /\ t.at = "asked"
        /\ Available(t.lines)
        /\ \E o \in Orders :
              /\ \A v \in Workers : ~Holds(v, o)
              /\ IF t.drafts = {} THEN Fresh(o)
                 ELSE o \in t.drafts /\ \A n \in t.drafts : n <= o
              /\ worker' = [worker EXCEPT ![w] = [worker[w] EXCEPT !.at = "taken", !.order = o,
                                                      !.lines = Quoted(t.lines)]]
        /\ UNCHANGED <<catalogue, promotions, orders, retired, changes, baskets>>

\* It waits for their locks, the newest first, takes the first that is still a draft, or
\* else creates one.
TakeDraft(w) ==
    LET t == worker[w]
        still == t.drafts \cap Drafts
    IN  /\ t.does = "basket" /\ t.at = "asked"
        /\ Available(t.lines)
        /\ \E o \in Orders :
              /\ \A v \in Workers : ~Holds(v, o)
              /\ IF still = {} THEN Fresh(o)
                 ELSE o \in still /\ \A n \in still : n <= o
              /\ worker' = [worker EXCEPT ![w] = [worker[w] EXCEPT !.at = "taken", !.order = o,
                                                      !.lines = Quoted(t.lines)]]
        /\ UNCHANGED <<catalogue, promotions, orders, retired, changes, baskets>>

\* The draft is submitted with the unit prices it has.
Submit(w, o) ==
    /\ status[o] = "draft" /\ \A v \in Workers : ~Holds(v, o)
    /\ \E p \in Products : lines[o][p].qty > 0
    /\ BasketStarts(w, [does |-> "basket", at |-> "taken", kind |-> "submit", order |-> o,
                        drafts |-> {}, lines |-> lines[o],
                        read |-> [p \in Products |-> lines[o][p].offer]])

\* A checkout makes an order of its own; it is not the user's draft at any time.
Checkout(w, o, asked) ==
    /\ Fresh(o) /\ Available(asked)
    /\ \E p \in Products : asked[p].qty > 0
    /\ BasketStarts(w, [does |-> "basket", at |-> "taken", kind |-> "checkout", order |-> o,
                        drafts |-> {}, lines |-> Quoted(asked),
                        read |-> [p \in Products |-> None]])

PriceLines(w) ==
    /\ worker[w].does = "basket" /\ worker[w].at = "taken"
    /\ worker' = [worker EXCEPT ![w] = [worker[w] EXCEPT !.at = "priced",
                                            !.lines = Repriced(worker[w].lines)]]
    /\ UNCHANGED <<catalogue, promotions, orders, retired, changes, baskets>>

\* A submission writes the discount of a line only if it is not the one it read; it may
\* have been deleted and forgotten by the line since.
Landing(t) ==
    [p \in Products |->
        IF t.kind = "submit" /\ t.lines[p].offer = t.read[p]
        THEN [t.lines[p] EXCEPT !.offer = lines[t.order][p].offer]
        ELSE t.lines[p]]

\* A discount deleted since the lines were priced refuses them.
BasketCommits(w) ==
    LET t == worker[w]
    IN  /\ t.does = "basket" /\ t.at = "priced"
        /\ \A p \in Products : Landing(t)[p].offer \in discounts \cup {None}
        /\ status' = [status EXCEPT ![t.order] =
                         IF t.kind = "replace" THEN "draft" ELSE "submitted"]
        /\ lines' = [lines EXCEPT ![t.order] = Landing(t)]
        /\ worker' = [worker EXCEPT ![w] = Idle]
        /\ UNCHANGED <<catalogue, promotions, retired, changes, baskets>>

\* A request is rolled back: a check, a constraint, the stock, a lost connection.
Refused(w) ==
    /\ worker[w] # Idle
    /\ worker' = [worker EXCEPT ![w] = Idle]
    /\ UNCHANGED <<catalogue, promotions, orders, retired, changes, baskets>>

-----------------------------------------------------------------------------
Baskets == [Products -> {[NoLine EXCEPT !.qty = q] : q \in Quantities \cup {0}}]
Rows == {Edited(Blank, patch) : patch \in Patches}

Catalog ==
    \/ \E c \in Categories : CreateCategory(c) \/ DeleteCategory(c)
    \/ \E p \in Products, c \in Categories : CreateProduct(p, c) \/ UpdateProduct(p, c)
    \/ \E p \in Products, a \in Prices : CreateVariant(p, a) \/ UpdateVariant(p, a)
    \/ \E p \in Products : DeleteVariant(p) \/ DeleteProduct(p)

Promotion ==
    \/ \E d \in Discounts : DeleteDiscount(d) \/ ForceMoves(d)
    \/ \E d \in Discounts, r \in Rows, products \in SUBSET Products :
           CreateDiscount(d, r, products)
    \/ \E w \in Workers, d \in Discounts, patch \in Patches : EditReads(w, d, patch)
    \/ \E w \in Workers : EditUnlists(w) \/ EditLists(w) \/ EditCommits(w)

Basket ==
    \/ \E w \in Workers, asked \in Baskets : AskDraft(w, asked)
    \/ \E w \in Workers, o \in Orders : Submit(w, o)
    \/ \E w \in Workers, o \in Orders, asked \in Baskets : Checkout(w, o, asked)
    \/ \E w \in Workers :
           TakeDraft(w) \/ PriceLines(w) \/ BasketCommits(w) \/ Refused(w)

Next == Catalog \/ Promotion \/ Basket

Spec == Init /\ [][Next]_vars

-----------------------------------------------------------------------------
\* Nothing refers to what is not there: a discount has the target its scope says and its
\* products exist, products have a category, lines have a product with a price and name
\* only discounts that exist, however deletions, overlapping edits and baskets being
\* priced interleave.
DiscountsAim == \A d \in discounts : Consistent(row[d]) /\ TargetsExist(row[d], list[d])
ShelvesExist == \A p \in Products : Exists(p) => shelf[p] \in categories
LinesRefer ==
    \A o \in Orders, p \in Products :
        /\ lines[o][p].qty > 0 => Exists(p) /\ price[p] > 0
        /\ lines[o][p].offer # None => lines[o][p].offer \in discounts
ReferencesHold == DiscountsAim /\ ShelvesExist /\ LinesRefer

\* What the user confirmed is what is charged (RN-ORD-05, RN-ORD-06, RN-DESC-08): once an
\* order is submitted its articles, prices and savings never change, whatever requests were
\* waiting for it as a draft and whatever is edited or deleted; a line only forgets the
\* discount that was deleted.
SubmittedStays ==
    [][\A o \in Orders : status[o] = "submitted" =>
           /\ status'[o] = "submitted"
           /\ \A p \in Products :
                 \/ lines'[o][p] = lines[o][p]
                 \/ lines'[o][p] = [lines[o][p] EXCEPT !.offer = None]]_vars
=============================================================================
