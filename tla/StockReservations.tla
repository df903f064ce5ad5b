------------------------- MODULE StockReservations -------------------------
(***************************************************************************)
(* The reservation engine (backend/source/services/stock_reservations_s.py *)
(* with the order services that call it, services/orders_s.py, and the job *)
(* that sweeps it, jobs/expire_stock_reservations_job.py).                 *)
(*                                                                         *)
(* A submitted order holds stock: one reservation row per order line,      *)
(* active for RESERVATION_TTL_HOURS, renewed at most once when it lapses.  *)
(* A variant's availability is its physical stock minus the rows that are  *)
(* active and have not lapsed; the physical stock falls only when an order *)
(* is paid.                                                                *)
(*                                                                         *)
(* Atomicity.  A request is one database transaction that locks the order  *)
(* and each variant it checks (SELECT ... FOR UPDATE), so a request is one *)
(* action - except the submission of an order.  That one loads the         *)
(* variants long before it locks them, and the locking query does not      *)
(* refresh an object the session already holds (no populate_existing), so  *)
(* the stock it compares with is the one of the first read.  Submission is *)
(* therefore two actions: BeginSubmit reads, SubmitReserves or             *)
(* SubmitRejected decides with what was read and with the rows of now.     *)
(*                                                                         *)
(* Time is the number of ticks each row has left: expires_at <= now is     *)
(* "no tick left".                                                         *)
(***************************************************************************)
EXTENDS Integers, FiniteSets, FiniteSetsExt

CONSTANTS
    Orders,            \* order ids, in the order the sweep visits them
    Variants,          \* variant ids, in the order of an order's lines
    Measured,          \* variants sold by measure: unlimited, never lapse
    Baskets,           \* the baskets customers ask for (variant -> quantity)
    StockLevels,       \* the stock levels the shop starts with or sets
    Ttl,               \* RESERVATION_TTL_HOURS, in ticks
    ReactivationTtl,   \* RESERVATION_REACTIVATION_TTL_HOURS, in ticks
    MaxReactivations,  \* MAX_RESERVATION_REACTIVATIONS
    BatchLimit         \* rows the job sweeps in one transaction

ASSUME ReservationAssumption ==
    /\ Orders \subseteq Nat
    /\ Variants \subseteq Nat
    /\ Measured \subseteq Variants
    /\ Baskets \subseteq [Variants -> Nat]
    /\ StockLevels \subseteq Nat
    /\ Ttl \in Nat \ {0}
    /\ ReactivationTtl \in Nat \ {0}
    /\ MaxReactivations \in Nat
    /\ BatchLimit \in Nat \ {0}

\* The tables are finite: the job counts their rows, the engine adds them up.
ASSUME FiniteTables == IsFiniteSet(Orders) /\ IsFiniteSet(Variants)

VARIABLES
    orderStatus,   \* Order.status ("none": no row yet)
    items,         \* OrderItem.quantity of each variant in each order, 0 = no line
    reservation,   \* the StockReservation row of each order line
    stock,         \* ProductVariant.stock
    listed,        \* ProductVariant.is_active
    submission     \* the request submitting each order: what it has read

vars == <<orderStatus, items, reservation, stock, listed, submission>>

OrderStatuses == {"none", "draft", "submitted", "paid", "cancelled"}
RowStatuses == {"none", "active", "consumed", "released", "expired"}

Counted == Variants \ Measured

NoRow == [status |-> "none", left |-> 0, renewals |-> 0]
Idle == [step |-> "idle"]

-----------------------------------------------------------------------------
(* Reading the state *)

Lines(o) == {v \in Variants : items[o][v] > 0}

Active(o, v) == reservation[o][v].status = "active"

\* The rows of measured variants are given an expiry in the year 9999.
Lapsed(o, v) == Active(o, v) /\ v \notin Measured /\ reservation[o][v].left = 0

Live(o, v) == Active(o, v) /\ ~Lapsed(o, v)

\* An order nobody is submitting at this moment: its row is not locked.
Unlocked(o) == submission[o] = Idle

\* The quantity of v held by the live rows, and by the rows of `extra`, which
\* this very transaction has renewed and flushed.
Held(v, extra) ==
    MapThenSumSet(LAMBDA p : items[p][v],
                  {p \in Orders : Live(p, v) \/ <<p, v>> \in extra})

-----------------------------------------------------------------------------
(* Expiration, shared by the job (all orders, a batch of rows) and by every
   request that touches an order (the rows of that order) *)

LapsedRows == {r \in Orders \X Variants : Lapsed(r[1], r[2])}

LapsedRowsOf(o) == {r \in LapsedRows : r[1] = o}

\* Mutation: the renewals are counted one too many.
RenewsOnceMore(o, rows) ==
    \A v \in Variants : <<o, v>> \in rows => reservation[o][v].renewals <= MaxReactivations

\* The rows of o were renewed less often than the policy allows.
MayRenew(o, rows) ==
    \A v \in Variants : <<o, v>> \in rows => reservation[o][v].renewals < MaxReactivations

\* The session does not flush on query (autoflush=False): when the sweep looks
\* at o, the orders it renewed before are counted only if it has cancelled an
\* order since, because the notification of a cancellation flushes.
Flushed(o, rows, renewed) ==
    {r \in rows :
        /\ r[1] \in renewed
        /\ \E c \in Orders \ renewed :
              /\ r[1] < c /\ c < o
              /\ orderStatus[c] = "submitted"
              /\ \E v \in Variants : <<c, v>> \in rows}

\* Mutation: the physical stock alone decides.
CoveredByPhysicalStock(o, v, extra) ==
    v \in Measured \/ (listed[v] /\ stock[v] >= items[o][v])

\* Variant v can serve the line of o, as its row and the flushed rows tell.
Covered(o, v, extra) ==
    \/ v \in Measured
    \/ listed[v] /\ stock[v] - Held(v, extra) >= items[o][v]

\* The lines are checked in order until one is not covered; reaching a variant
\* that is no longer listed raises, and the whole transaction is rolled back.
Raises(o, extra) ==
    \E v \in Lines(o) \cap Counted :
        /\ ~listed[v]
        /\ \A w \in Lines(o) : w < v => Covered(o, w, extra)

\* The submitted orders with a row to expire.
Due(rows) == {o \in Orders : orderStatus[o] = "submitted" /\ \E v \in Variants : <<o, v>> \in rows}

\* The orders that expiring `rows` renews: at most one answer, none if it raises.
Renewals(rows) ==
    {renewed \in SUBSET Due(rows) :
        \A o \in Due(rows) :
            LET extra == Flushed(o, rows, renewed) IN
            /\ MayRenew(o, rows) => ~Raises(o, extra)
            /\ o \in renewed <=>
                  MayRenew(o, rows) /\ \A v \in Lines(o) : Covered(o, v, extra)}

\* The orders and rows once `rows` have been expired, and `renewed` brought back.
ExpiredStatus(rows, renewed) ==
    [o \in Orders |-> IF o \in Due(rows) \ renewed THEN "cancelled" ELSE orderStatus[o]]

\* What is left of a row that holds nothing any more.
Closed(row, status) == [status |-> status, left |-> 0, renewals |-> row.renewals]

\* Mutation: a renewal is not counted.
RenewedForFree(o, v, rows, renewed) ==
    IF <<o, v>> \notin rows THEN reservation[o][v]
    ELSE IF o \in renewed
         THEN [reservation[o][v] EXCEPT !.left = ReactivationTtl]
         ELSE Closed(reservation[o][v], "expired")

ExpiredRow(o, v, rows, renewed) ==
    IF <<o, v>> \notin rows THEN reservation[o][v]
    ELSE IF o \in renewed
         THEN [status |-> "active", left |-> ReactivationTtl,
               renewals |-> reservation[o][v].renewals + 1]
         ELSE Closed(reservation[o][v], "expired")

Expire(rows) ==
    \E renewed \in Renewals(rows) :
        /\ orderStatus' = ExpiredStatus(rows, renewed)
        /\ reservation' = [o \in Orders |-> [v \in Variants |-> ExpiredRow(o, v, rows, renewed)]]
        /\ UNCHANGED <<items, stock, listed, submission>>

\* ORDER BY order_id, id LIMIT batch_limit
Batch ==
    {r \in LapsedRows :
        Cardinality({q \in LapsedRows : q[1] < r[1] \/ (q[1] = r[1] /\ q[2] < r[2])}) < BatchLimit}

\* One batch of the job.
Sweep ==
    /\ LapsedRows # {}
    /\ Expire(Batch)

\* A request that only shows the order (its reservations, its public page) still
\* expires what has lapsed, and commits it.
ShowOrder(o) ==
    /\ LapsedRowsOf(o) # {}
    /\ Expire(LapsedRowsOf(o))

-----------------------------------------------------------------------------
(* Carts and submission *)

\* Mutation: the basket is replaced whatever the status of the order.
EditDraftOfAnyOrder(o, b) ==
    /\ Unlocked(o)
    /\ \A v \in Variants : b[v] > 0 => listed[v]
    /\ orderStatus' = [orderStatus EXCEPT ![o] = "draft"]
    /\ items' = [items EXCEPT ![o] = b]
    /\ UNCHANGED <<reservation, stock, listed, submission>>

EditDraft(o, b) ==
    /\ Unlocked(o)
    /\ orderStatus[o] \in {"none", "draft"}
    /\ \A v \in Variants : b[v] > 0 => listed[v]
    /\ orderStatus' = [orderStatus EXCEPT ![o] = "draft"]
    /\ items' = [items EXCEPT ![o] = b]
    /\ UNCHANGED <<reservation, stock, listed, submission>>

\* The request loads the variants of basket b (a new order, or the draft as it
\* stands).  Only an administrator may submit variants sold by measure.
BeginSubmit(o, b, byAdmin) ==
    /\ Unlocked(o)
    /\ \/ orderStatus[o] = "none" /\ \A v \in Variants : b[v] > 0 => listed[v]
       \/ orderStatus[o] = "draft" /\ b = items[o]
    /\ \E v \in Variants : b[v] > 0
    /\ byAdmin \/ \A v \in Measured : b[v] = 0
    /\ submission' = [submission EXCEPT ![o] =
                         [step |-> "read", basket |-> b, stock |-> stock, listed |-> listed]]
    /\ UNCHANGED <<orderStatus, items, reservation, stock, listed>>

\* Mutation: what other orders hold is not subtracted.
ReservableByPhysicalStock(s) ==
    \A v \in Counted : s.basket[v] > 0 => s.listed[v] /\ s.stock[v] >= s.basket[v]

\* Every line fits: what was read of the variant, minus the rows live now.
Reservable(s) ==
    \A v \in Counted :
        s.basket[v] > 0 => s.listed[v] /\ s.stock[v] - Held(v, {}) >= s.basket[v]

FreshRow(v) ==
    [status |-> "active", left |-> IF v \in Measured THEN 0 ELSE Ttl, renewals |-> 0]

SubmitReserves(o) ==
    LET s == submission[o] IN
    /\ s # Idle
    /\ Reservable(s)
    /\ orderStatus' = [orderStatus EXCEPT ![o] = "submitted"]
    /\ items' = [items EXCEPT ![o] = s.basket]
    /\ reservation' = [reservation EXCEPT ![o] =
                          [v \in Variants |-> IF s.basket[v] > 0 THEN FreshRow(v) ELSE NoRow]]
    /\ submission' = [submission EXCEPT ![o] = Idle]
    /\ UNCHANGED <<stock, listed>>

\* One line does not fit: nothing at all is reserved.
SubmitRejected(o) ==
    /\ submission[o] # Idle
    /\ ~Reservable(submission[o])
    /\ submission' = [submission EXCEPT ![o] = Idle]
    /\ UNCHANGED <<orderStatus, items, reservation, stock, listed>>

-----------------------------------------------------------------------------
(* Paying and cancelling *)

\* Mutation: the rows renewed by this very request are left out.
ClosedUnlessRenewed(o, v, rows, renewed, status) ==
    LET row == ExpiredRow(o, v, rows, renewed) IN
    IF row.status = "active" /\ <<o, v>> \notin rows THEN Closed(row, status) ELSE row

\* Mutation: only a payment closes the rows.
ClosedByPaymentOnly(o, v, rows, renewed, status) ==
    LET row == ExpiredRow(o, v, rows, renewed) IN
    IF row.status = "active" /\ status = "consumed" THEN Closed(row, status) ELSE row

\* The row of a line once the order is settled or dropped: every active row,
\* the ones just renewed included, gets the final status.
ClosedRow(o, v, rows, renewed, status) ==
    LET row == ExpiredRow(o, v, rows, renewed) IN
    IF row.status = "active" THEN Closed(row, status) ELSE row

\* The physical stock once the active rows of o have been consumed.
Debited(o) ==
    [v \in Variants |->
        IF v \in Counted /\ Active(o, v) THEN stock[v] - items[o][v] ELSE stock[v]]

\* Mutation: the order is paid whatever became of its lapsed rows.
PayOrderAnyway(o) ==
    LET rows == LapsedRowsOf(o) IN
    /\ orderStatus[o] = "submitted"
    /\ \E renewed \in Renewals(rows) :
        /\ \A v \in Counted : Active(o, v) => stock[v] >= items[o][v]
        /\ stock' = Debited(o)
        /\ reservation' = [reservation EXCEPT ![o] =
                              [v \in Variants |-> ClosedRow(o, v, rows, renewed, "consumed")]]
    /\ orderStatus' = [orderStatus EXCEPT ![o] = "paid"]
    /\ UNCHANGED <<items, listed, submission>>

\* A payment consumes the rows; each counted one debits its variant with a
\* compare-and-swap.  A row that has lapsed must first be renewed, and any
\* failure rolls everything back, the expirations included.
PayOrder(o) ==
    LET rows == LapsedRowsOf(o) IN
    /\ orderStatus[o] = "submitted"
    /\ \E renewed \in Renewals(rows) :
        /\ rows = {} \/ o \in renewed
        /\ \A v \in Counted : Active(o, v) => stock[v] >= items[o][v]
        /\ stock' = Debited(o)
        /\ reservation' = [reservation EXCEPT ![o] =
                              [v \in Variants |-> ClosedRow(o, v, rows, renewed, "consumed")]]
    /\ orderStatus' = [orderStatus EXCEPT ![o] = "paid"]
    /\ UNCHANGED <<items, listed, submission>>

\* The provider's report is applied by a session that read the order before any
\* lock, and the lock it then waits for does not refresh what it read.  If the
\* order was cancelled meanwhile the session still sees it submitted: it consumes
\* the rows left active, were it only those of the lines sold by measure, which
\* expiration leaves alone, and writes the order paid.  With no active row left
\* it raises and changes nothing.
PayLate(o) ==
    LET rows == LapsedRowsOf(o) IN
    /\ orderStatus[o] = "cancelled"
    /\ \E v \in Variants : Active(o, v)
    /\ rows # {} => MayRenew(o, rows) /\ \A v \in Lines(o) : Covered(o, v, {})
    /\ \A v \in Counted : Active(o, v) => stock[v] >= items[o][v]
    /\ stock' = Debited(o)
    /\ reservation' = [reservation EXCEPT ![o] =
                          [v \in Variants |-> ClosedRow(o, v, rows, {o}, "consumed")]]
    /\ orderStatus' = [orderStatus EXCEPT ![o] = "paid"]
    /\ UNCHANGED <<items, listed, submission>>

\* The customer or an administrator cancels.  If the expiration that comes first
\* already cancels the order, the request changes nothing more.
CancelOrder(o) ==
    LET rows == LapsedRowsOf(o) IN
    /\ orderStatus[o] = "submitted"
    /\ \E renewed \in Renewals(rows) :
        reservation' = [reservation EXCEPT ![o] =
            [v \in Variants |->
                IF rows = {} \/ o \in renewed THEN ClosedRow(o, v, rows, renewed, "released")
                ELSE ExpiredRow(o, v, rows, renewed)]]
    /\ orderStatus' = [orderStatus EXCEPT ![o] = "cancelled"]
    /\ UNCHANGED <<items, stock, listed, submission>>

-----------------------------------------------------------------------------
(* The catalogue and the clock *)

SetStock(v, n) ==
    /\ stock' = [stock EXCEPT ![v] = n]
    /\ UNCHANGED <<orderStatus, items, reservation, listed, submission>>

SetListed(v, on) ==
    /\ listed' = [listed EXCEPT ![v] = on]
    /\ UNCHANGED <<orderStatus, items, reservation, stock, submission>>

Running(o, v) == Live(o, v) /\ v \notin Measured

Tick ==
    /\ \E o \in Orders, v \in Variants : Running(o, v)
    /\ reservation' = [o \in Orders |-> [v \in Variants |->
                          IF Running(o, v)
                          THEN [reservation[o][v] EXCEPT !.left = @ - 1]
                          ELSE reservation[o][v]]]
    /\ UNCHANGED <<orderStatus, items, stock, listed, submission>>

-----------------------------------------------------------------------------

Init ==
    /\ orderStatus = [o \in Orders |-> "none"]
    /\ items = [o \in Orders |-> [v \in Variants |-> 0]]
    /\ reservation = [o \in Orders |-> [v \in Variants |-> NoRow]]
    /\ stock \in [Variants -> StockLevels]
    /\ listed = [v \in Variants |-> TRUE]
    /\ submission = [o \in Orders |-> Idle]

Shopping ==
    \E o \in Orders :
        \/ \E b \in Baskets : EditDraft(o, b)
        \/ \E b \in Baskets, byAdmin \in BOOLEAN : BeginSubmit(o, b, byAdmin)
        \/ SubmitReserves(o)
        \/ SubmitRejected(o)
        \/ PayOrder(o)
        \/ PayLate(o)
        \/ CancelOrder(o)
        \/ ShowOrder(o)

Catalogue ==
    \E v \in Variants :
        \/ \E n \in StockLevels : SetStock(v, n)
        \/ \E on \in BOOLEAN : SetListed(v, on)

Next == Shopping \/ Catalogue \/ Sweep \/ Tick

Spec == Init /\ [][Next]_vars

\* The job runs forever on a timer, and time passes.
FairSpec == Spec /\ WF_vars(Sweep) /\ WF_vars(Tick)

-----------------------------------------------------------------------------
(* Properties *)

Rows == [status : RowStatuses, left : Nat, renewals : 0..MaxReactivations]

Submissions ==
    {Idle} \cup [step : {"read"}, basket : [Variants -> Nat],
                 stock : [Variants -> Nat], listed : [Variants -> BOOLEAN]]

\* The type of every variable; a row is renewed at most MaxReactivations times,
\* and the physical stock never goes below zero.
TypeOK ==
    /\ orderStatus \in [Orders -> OrderStatuses]
    /\ items \in [Orders -> [Variants -> Nat]]
    /\ reservation \in [Orders -> [Variants -> Rows]]
    /\ stock \in [Variants -> Nat]
    /\ listed \in [Variants -> BOOLEAN]
    /\ submission \in [Orders -> Submissions]

AllRows(o, statuses) == \A v \in Lines(o) : reservation[o][v].status \in statuses

SomeRow(o, status) == \E v \in Lines(o) : reservation[o][v].status = status

\* What the rows of o say of the order.
RowsAgree(o) ==
    /\ \A v \in Variants :
          /\ reservation[o][v].status # "none" <=>
                v \in Lines(o) /\ orderStatus[o] \notin {"none", "draft"}
          /\ reservation[o][v].status = "expired" => v \in Counted
    /\ orderStatus[o] = "submitted" => SomeRow(o, "active") /\ AllRows(o, {"active"})
    /\ orderStatus[o] = "cancelled" =>
          \/ AllRows(o, {"released"})
          \/ SomeRow(o, "expired") /\ AllRows(o, {"active", "expired"})
    /\ orderStatus[o] = "paid" =>
          SomeRow(o, "consumed") /\ AllRows(o, {"consumed", "expired"})

\* Orders and rows, updated by different pieces of code, never disagree.  A
\* submitted order holds every one of its lines.  A cancelled order has consumed
\* nothing: its rows were all released together, or some expired under it and the
\* others were left active.  A paid order has consumed its rows, but for those
\* that had expired when a late report of the provider paid it after all; and a
\* row sold by measure never expires.
Backed == \A o \in Orders : RowsAgree(o)

\* An order of counted lines only is paid for in full: every row of it has been
\* consumed, hence debited, whoever expired or renewed its rows before.  (An order
\* with a line sold by measure may be paid late, the counted rows expired.)
PaidInFull ==
    \A o \in Orders :
        orderStatus[o] = "paid" /\ Lines(o) \subseteq Counted => AllRows(o, {"consumed"})

\* An order being submitted is still open, is given something to reserve, and
\* its draft is locked.
SubmissionIsOpen ==
    \A o \in Orders :
        submission[o] # Idle =>
            /\ orderStatus[o] \in {"none", "draft"}
            /\ \E v \in Variants : submission[o].basket[v] > 0

\* A cancelled order holds no counted stock, whichever way it was cancelled: by
\* its customer, by an administrator, by the job or by a request that found its
\* rows lapsed (cancelling releases the stock at once, orders_s.py).
CancelledHoldsNothing ==
    \A o \in Orders, v \in Counted : orderStatus[o] = "cancelled" => ~Live(o, v)

\* The live rows of a variant never exceed its physical stock: what is promised
\* to one customer has not been promised to another.
NoOversell == \A v \in Counted : Held(v, {}) <= stock[v]

RenewedIn(o) == \E v \in Variants : reservation'[o][v].renewals > reservation[o][v].renewals

\* A row is brought back only if the stock of this moment covers it: the order a
\* step renews, if it renews no other, leaves its variants not overcommitted.
RenewalIsCovered ==
    [][\A o \in Orders :
          (RenewedIn(o) /\ \A p \in Orders \ {o} : ~RenewedIn(p))
              => \A v \in Lines(o) \cap Counted : Held(v, {})' <= stock'[v]]_vars

\* The engine implements the promise of OrderLifecycle: baskets frozen by the
\* submission, a stock debited once, by the whole basket of an order being paid,
\* and by nothing else but the catalogue - and by part of a basket only when a
\* cancelled order is revived by a late report.
Lifecycle == INSTANCE OrderLifecycle WITH phase <- orderStatus, basket <- items

ImplementsLifecycle == Lifecycle!Spec

\* An order with a counted line does not hold stock for ever: if nobody pays or
\* cancels it, the expirations cancel it.
SubmittedIsResolved ==
    \A o \in Orders :
        (orderStatus[o] = "submitted" /\ \E v \in Counted : items[o][v] > 0)
            ~> orderStatus[o] \in {"paid", "cancelled"}
=============================================================================
