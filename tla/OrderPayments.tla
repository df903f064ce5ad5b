--------------------------- MODULE OrderPayments ---------------------------
(***************************************************************************)
(* The payments of one submitted order: the attempts a customer starts and *)
(* retries (services/payment_s.py), the state the provider reports for     *)
(* them (services/payment_provider_s.py, for the webhook and for the       *)
(* reconciliation job), the confirmation of a manual payment, and the one  *)
(* definition of "the order got paid" (services/payment_core_s.py) that    *)
(* consumes the reservation rows.                                          *)
(*                                                                         *)
(* The rows follow StockReservations; here a renewal of lapsed rows        *)
(* succeeds or not at the will of the environment (the stock of the other  *)
(* orders), and so does the compare-and-swap of the stock.                 *)
(*                                                                         *)
(* Atomicity.  Customers' and administrators' requests lock the order row  *)
(* before they read it and are one action each.  A provider report is not: *)
(* apply_mercadopago_normalized_state reads the payment and the order with *)
(* no lock, and the reconciliation job even asks the provider in between.  *)
(* It is several actions: ReadAttempt and ReadOrder read, the others       *)
(* decide with what was read.  The consumption of the rows locks the order *)
(* and looks at the rows of that moment, but not at the order's status:    *)
(* the lock does not refresh what the session has read of it.              *)
(***************************************************************************)
EXTENDS Naturals, FiniteSets

CONSTANTS
    Payments,     \* ids of the payment attempts, in the order they are created
    Methods,      \* the payment methods in use
    Lines,        \* the order's lines, each with its reservation row
    Measured,     \* the lines sold by measure: their rows never lapse
    Handlers,     \* requests and jobs that apply provider reports, concurrently
    Sources,      \* where the reports come from
    MaxRenewals   \* MAX_RESERVATION_REACTIVATIONS

ASSUME PaymentAssumption ==
    /\ Payments \subseteq Nat
    /\ Methods \subseteq {"mercadopago", "bank_transfer", "cash"}
    /\ Lines # {}
    /\ Measured \subseteq Lines
    /\ Sources \subseteq {"webhook", "reconcile"}
    /\ MaxRenewals \in Nat

VARIABLES
    orderStatus,  \* Order.status, from "submitted" on
    rows,         \* StockReservation.status of each line; "lapsed": active, expires_at past
    renewals,     \* StockReservation.reactivation_count
    payment,      \* the Payment row of each attempt
    charged,      \* the attempts whose money the provider has taken
    credited,     \* history: the attempts that were ever recorded paid
    incident,     \* the attempts with an open PaymentIncident
    report        \* what each handler has read of the attempt it is working on

vars == <<orderStatus, rows, renewals, payment, charged, credited, incident, report>>

OrderStatuses == {"submitted", "paid", "cancelled"}
RowStatuses == {"active", "lapsed", "consumed", "released", "expired"}
PaymentStatuses == {"none", "pending", "paid", "cancelled", "expired"}
Reports == {"pending", "paid", "cancelled", "expired"}
Checkouts == {"none", "created", "setup_failed"}

NoPayment == [method |-> "none", status |-> "none", checkout |-> "none", inTime |-> FALSE]
Idle == [step |-> "idle"]

Counted == Lines \ Measured

-----------------------------------------------------------------------------
(* Expiration: every request about the order begins with it *)

\* Mutation: one renewal too many.
ExpirationsOnceMore ==
    IF \A l \in Lines : rows[l] # "lapsed" THEN {"none"}
    ELSE IF renewals <= MaxRenewals THEN {"renewed", "dropped"}
    ELSE {"dropped"}

\* What the expiration of the rows that have lapsed can end in.
Expirations ==
    IF \A l \in Lines : rows[l] # "lapsed" THEN {"none"}
    ELSE IF renewals < MaxRenewals THEN {"renewed", "dropped"}
    ELSE {"dropped"}

RowsAfter(x) ==
    [l \in Lines |-> IF rows[l] = "lapsed"
                     THEN IF x = "renewed" THEN "active" ELSE "expired"
                     ELSE rows[l]]

RenewalsAfter(x) == IF x = "renewed" THEN renewals + 1 ELSE renewals

OrderAfter(x) == IF x = "dropped" THEN "cancelled" ELSE orderStatus

\* Dropping the order cancels its pending attempts.
PaymentsAfter(x) ==
    [p \in Payments |->
        IF x = "dropped" /\ payment[p].status = "pending"
        THEN [payment[p] EXCEPT !.status = "cancelled"]
        ELSE payment[p]]

\* The job, or a request that does nothing else of consequence.
Expire ==
    \E x \in Expirations \ {"none"} :
        /\ orderStatus' = OrderAfter(x)
        /\ rows' = RowsAfter(x)
        /\ renewals' = RenewalsAfter(x)
        /\ payment' = PaymentsAfter(x)
        /\ UNCHANGED <<charged, credited, incident, report>>

\* The counted rows of an order lapse together; one sold by measure is given an
\* expiry in the year 9999.
Lapse ==
    /\ \E l \in Counted : rows[l] = "active"
    /\ rows' = [l \in Lines |->
                  IF l \in Counted /\ rows[l] = "active" THEN "lapsed" ELSE rows[l]]
    /\ UNCHANGED <<orderStatus, renewals, payment, charged, credited, incident, report>>

-----------------------------------------------------------------------------
(* Attempts *)

Exists(p) == payment[p].status # "none"

\* Ids are handed out in order.
Fresh(p) == ~Exists(p) /\ \A q \in Payments : q < p => Exists(q)

PendingOf(p, m) == payment[p].method = m /\ payment[p].status = "pending"

Attempt(m, checkout) ==
    [method |-> m, status |-> "pending", checkout |-> checkout, inTime |-> TRUE]

\* The preference is created in the same request, or the attempt is marked.
CheckoutsOf(m) == IF m = "mercadopago" THEN {"created", "setup_failed"} ELSE {"none"}

\* Mutation: the rows are not looked at again under the lock.
ConsumableUnseen(x) == TRUE

\* There are rows to consume, now that the lapsed ones have been expired.
Consumable(x) == \E l \in Lines : RowsAfter(x)[l] = "active"

\* The order can take a payment.
Payable(x) == OrderAfter(x) = "submitted" /\ Consumable(x)

\* Mutation: only an attempt that is still in time counts.
NonePendingInTime(m) == \A q \in Payments : ~(PendingOf(q, m) /\ payment[q].inTime)

NonePending(m) == \A q \in Payments : ~PendingOf(q, m)

\* A pending attempt of the method that is in time is returned instead, and one
\* that is not in time makes the insertion fail on the unique index.
CreatePayment(p, m) ==
    \E x \in Expirations, checkout \in CheckoutsOf(m) :
        /\ Payable(x)
        /\ Fresh(p)
        /\ NonePending(m)
        /\ payment' = [payment EXCEPT ![p] = Attempt(m, checkout)]
        /\ rows' = RowsAfter(x)
        /\ renewals' = RenewalsAfter(x)
        /\ UNCHANGED <<orderStatus, charged, credited, incident, report>>

Latest(q, m) ==
    /\ payment[q].method = m
    /\ \A r \in Payments : payment[r].method = m => r <= q

SetupFailed(q) == payment[q].status = "pending" /\ payment[q].checkout = "setup_failed"

Retryable(q) == payment[q].status \in {"cancelled", "expired"} \/ SetupFailed(q)

\* A retry closes a latest attempt that never got its checkout, and starts anew.
RetryPayment(p, m) ==
    \E x \in Expirations, checkout \in CheckoutsOf(m), q \in Payments :
        /\ Payable(x)
        /\ Fresh(p)
        /\ Latest(q, m)
        /\ Retryable(q)
        /\ payment' = [payment EXCEPT ![q].status = IF @ = "pending" THEN "cancelled" ELSE @,
                                      ![p] = Attempt(m, checkout)]
        /\ rows' = RowsAfter(x)
        /\ renewals' = RenewalsAfter(x)
        /\ UNCHANGED <<orderStatus, charged, credited, incident, report>>

\* A repeated checkout initialises the checkout of its attempt again, whatever
\* has become of the order.
RecoverCheckout(p) ==
    /\ SetupFailed(p)
    /\ payment' = [payment EXCEPT ![p].checkout = "created"]
    /\ UNCHANGED <<orderStatus, rows, renewals, charged, credited, incident, report>>

\* The hour of an attempt passes; attempts in cash have none.
TimeOut(p) ==
    /\ payment[p].status = "pending"
    /\ payment[p].method # "cash"
    /\ payment[p].inTime
    /\ payment' = [payment EXCEPT ![p].inTime = FALSE]
    /\ UNCHANGED <<orderStatus, rows, renewals, charged, credited, incident, report>>

\* The customer pays at the provider.  The provider's checkout knows nothing of
\* the order's or the attempt's fate.
Charge(p) ==
    /\ payment[p].checkout = "created"
    /\ p \notin charged
    /\ charged' = charged \cup {p}
    /\ UNCHANGED <<orderStatus, rows, renewals, payment, credited, incident, report>>

-----------------------------------------------------------------------------
(* Settling and cancelling *)

Consumed(current) == [l \in Lines |-> IF current[l] = "active" THEN "consumed" ELSE current[l]]

\* An administrator confirms the pending transfer or cash payment.
ConfirmManual(p) ==
    \E x \in Expirations :
        /\ Payable(x)
        /\ payment[p].method \in {"bank_transfer", "cash"}
        /\ payment[p].status = "pending"
        /\ payment' = [payment EXCEPT ![p].status = "paid"]
        /\ orderStatus' = "paid"
        /\ rows' = Consumed(RowsAfter(x))
        /\ renewals' = RenewalsAfter(x)
    /\ credited' = credited \cup {p}
    /\ UNCHANGED <<charged, incident, report>>

\* The customer or an administrator cancels: the attempts stay as they are.
CancelOrder ==
    \E x \in Expirations \ {"dropped"} :
        /\ orderStatus = "submitted"
        /\ orderStatus' = "cancelled"
        /\ rows' = [l \in Lines |-> IF RowsAfter(x)[l] = "active" THEN "released" ELSE rows[l]]
        /\ renewals' = RenewalsAfter(x)
        /\ UNCHANGED <<payment, charged, credited, incident, report>>

-----------------------------------------------------------------------------
(* Provider reports *)

\* The reconciliation job only looks at attempts it finds pending, of orders
\* that are not cancelled.  An attempt is known to the provider once it has a
\* checkout.
ReadAttempt(h, p, source) ==
    /\ report[h] = Idle
    /\ payment[p].checkout = "created"
    /\ source = "reconcile" =>
          payment[p].status = "pending" /\ orderStatus \in {"submitted", "paid"}
    /\ report' = [report EXCEPT ![h] =
                     [step |-> "read", payment |-> p, source |-> source,
                      status |-> payment[p].status, order |-> orderStatus]]
    /\ UNCHANGED <<orderStatus, rows, renewals, payment, charged, credited, incident>>

\* The order is read after the attempt, at any moment before the decision.
ReadOrder(h) ==
    /\ report[h] # Idle
    /\ report' = [report EXCEPT ![h].order = orderStatus]
    /\ UNCHANGED <<orderStatus, rows, renewals, payment, charged, credited, incident>>

\* ALLOWED_PAYMENT_TRANSITIONS, and the revival of an attempt given up.
Allowed(known, said) ==
    \/ said = known
    \/ known = "pending"
    \/ said = "paid" /\ known \in {"cancelled", "expired"}

\* The status is written only if it differs from the one that was read: not even
\* the handler's own expiration, which cancels the attempt by a statement of its
\* own, changes what its session knows of it.
Recorded(r, said, x) ==
    [PaymentsAfter(x) EXCEPT ![r.payment].status = IF said # r.status THEN said ELSE @]

\* The order as the session of the handler knows it: as it was read, or cancelled
\* by the handler's own expiration.
Seen(r, x) == IF x = "dropped" THEN "cancelled" ELSE r.order

Done(h) == report' = [report EXCEPT ![h] = Idle]

\* The provider says the attempt is still open, or over: the order is left alone.
CloseAttempt(h, said) ==
    LET r == report[h] IN
    /\ r # Idle
    /\ said # "paid"
    /\ \E x \in Expirations :
        /\ Allowed(r.status, said)
        /\ payment' = Recorded(r, said, x)
        /\ orderStatus' = OrderAfter(x)
        /\ rows' = RowsAfter(x)
        /\ renewals' = RenewalsAfter(x)
    /\ Done(h)
    /\ UNCHANGED <<charged, credited, incident>>

\* Mutation: an order that is already paid needs no review.
IncidentsIfCancelled(r, seen) ==
    incident \cup (IF seen = "cancelled" THEN {r.payment} ELSE {})

\* Mutation: a cancelled order needs no review.
IncidentsIfPaidTwice(r, seen) ==
    LET another == \E q \in Payments \ {r.payment} : payment[q].status = "paid" IN
    incident \cup (IF seen = "paid" /\ another THEN {r.payment} ELSE {})

\* Money for a cancelled order, or for an order that another attempt has paid for,
\* is put under review.
Incidents(r, seen) ==
    LET another == \E q \in Payments \ {r.payment} : payment[q].status = "paid" IN
    incident \cup (IF seen = "cancelled" \/ another THEN {r.payment} ELSE {})

\* Money for an order that is cancelled, or already paid.
CreditLate(h) ==
    LET r == report[h] IN
    /\ r # Idle
    /\ r.payment \in charged
    /\ \E x \in Expirations :
        /\ Seen(r, x) # "submitted"
        /\ payment' = Recorded(r, "paid", x)
        /\ incident' = Incidents(r, Seen(r, x))
        /\ orderStatus' = OrderAfter(x)
        /\ rows' = RowsAfter(x)
        /\ renewals' = RenewalsAfter(x)
    /\ credited' = credited \cup {r.payment}
    /\ Done(h)
    /\ UNCHANGED charged

\* Money for an order seen submitted, with rows there to be consumed.  The order
\* may have been cancelled meanwhile: expiration leaves the rows of lines sold by
\* measure active, so the order is paid and its counted rows stay expired.
SettleOrder(h) ==
    LET r == report[h] IN
    /\ r # Idle
    /\ r.payment \in charged
    /\ \E x \in Expirations :
        /\ Seen(r, x) = "submitted"
        /\ Consumable(x)
        /\ payment' = Recorded(r, "paid", x)
        /\ orderStatus' = "paid"
        /\ rows' = Consumed(RowsAfter(x))
        /\ renewals' = RenewalsAfter(x)
    /\ credited' = credited \cup {r.payment}
    /\ Done(h)
    /\ UNCHANGED <<charged, incident>>

\* The rows are gone, or the stock does not cover one of them: all is rolled back.
SettleFails(h) ==
    LET r == report[h] IN
    /\ r # Idle
    /\ r.payment \in charged
    /\ \E x \in Expirations : Seen(r, x) = "submitted"
    /\ Done(h)
    /\ UNCHANGED <<orderStatus, rows, renewals, payment, charged, credited, incident>>

\* A transition that is not allowed, an amount, currency or reference that is not
\* the attempt's, or no answer of the provider: all is rolled back.
RefuseReport(h) ==
    /\ report[h] # Idle
    /\ Done(h)
    /\ UNCHANGED <<orderStatus, rows, renewals, payment, charged, credited, incident>>

-----------------------------------------------------------------------------

Init ==
    /\ orderStatus = "submitted"
    /\ rows = [l \in Lines |-> "active"]
    /\ renewals = 0
    /\ payment = [p \in Payments |-> NoPayment]
    /\ charged = {}
    /\ credited = {}
    /\ incident = {}
    /\ report = [h \in Handlers |-> Idle]

Customer ==
    \E p \in Payments :
        \/ \E m \in Methods : CreatePayment(p, m) \/ RetryPayment(p, m)
        \/ RecoverCheckout(p)
        \/ ConfirmManual(p)
        \/ Charge(p)
        \/ TimeOut(p)

\* What a report of a paid attempt does.
Credit(h) == CreditLate(h) \/ SettleOrder(h) \/ SettleFails(h)

Provider ==
    \E h \in Handlers :
        \/ \E p \in Payments, source \in Sources : ReadAttempt(h, p, source)
        \/ ReadOrder(h)
        \/ \E said \in Reports : CloseAttempt(h, said)
        \/ Credit(h)
        \/ RefuseReport(h)

Next == Customer \/ Provider \/ CancelOrder \/ Expire \/ Lapse

Spec == Init /\ [][Next]_vars

-----------------------------------------------------------------------------
(* Properties *)

PaymentRows ==
    [method : Methods \cup {"none"}, status : PaymentStatuses,
     checkout : Checkouts, inTime : BOOLEAN]

ReportRecords ==
    {Idle} \cup [step : {"read"}, payment : Payments, source : Sources,
                 status : PaymentStatuses, order : OrderStatuses]

\* The type of every variable; the rows are renewed at most MaxRenewals times.
TypeOK ==
    /\ orderStatus \in OrderStatuses
    /\ rows \in [Lines -> RowStatuses]
    /\ renewals \in 0..MaxRenewals
    /\ payment \in [Payments -> PaymentRows]
    /\ charged \subseteq Payments
    /\ credited \subseteq Payments
    /\ incident \subseteq Payments
    /\ report \in [Handlers -> ReportRecords]

AllRows(lines, status) == \A l \in lines : rows[l] = status

\* The order and its rows, whatever reports, confirmations, cancellations and
\* expirations race for it: the rows of a submitted order are held together; a
\* cancelled order has released all of them, or its counted ones have expired; and
\* a paid order has consumed all of them - or only those sold by measure, when an
\* old read paid an order that had been cancelled with its counted rows expired.
RowsFollowOrder ==
    /\ orderStatus = "submitted" =>
          /\ AllRows(Measured, "active")
          /\ AllRows(Counted, "active") \/ AllRows(Counted, "lapsed")
    /\ orderStatus = "cancelled" =>
          \/ AllRows(Lines, "released")
          \/ AllRows(Measured, "active") /\ AllRows(Counted, "expired") /\ Counted # {}
    /\ orderStatus = "paid" =>
          /\ AllRows(Measured, "consumed")
          /\ AllRows(Counted, "consumed") \/ (Measured # {} /\ AllRows(Counted, "expired"))

Paid(p) == payment[p].status = "paid"

\* The attempts whose money came in and that nobody has been asked to review.
Unclaimed == credited \ incident

\* Money that is in and not under review belongs to a paid order, and to one
\* attempt of it: of two such attempts, an old report has overwritten the record of
\* one, so that the other did not find it (DoublePaymentIsReviewed is what the code
\* does not keep).
MoneyIsAccounted ==
    /\ Unclaimed # {} => orderStatus = "paid"
    /\ \A p, q \in Unclaimed : Paid(p) /\ Paid(q) => p = q

\* The order is paid for by one attempt and the money of any other is under review
\* (RN-PAY-13).  A handler that read an attempt as pending writes cancelled over the
\* paid one of another handler; the next attempt then looks like the first.
DoublePaymentIsReviewed == Cardinality(Unclaimed) <= 1

\* At most one pending attempt of each method, though creations, retries and the
\* provider's reports all open and close attempts.
OnePendingPerMethod ==
    \A p, q \in Payments, m \in Methods : PendingOf(p, m) /\ PendingOf(q, m) => p = q

\* The customer of an order that still holds its stock can pay with method m: an
\* attempt is in time, or one can be created, or the latest can be retried.
CanPay(m) ==
    \/ \E p \in Payments : PendingOf(p, m) /\ payment[p].inTime /\ ~SetupFailed(p)
    \/ NonePending(m)
    \/ \E q \in Payments : Latest(q, m) /\ Retryable(q)

OrderCanBePaid ==
    orderStatus = "submitted" /\ (\A l \in Lines : rows[l] = "active")
        => \A m \in Methods : CanPay(m)

\* The order and its money keep the promise of PaymentLedger, whose void account
\* can be settled only if the order has counted lines and lines sold by measure.
Ledger == INSTANCE PaymentLedger WITH
    Mixed <- Measured # {} /\ Counted # {},
    account <- CASE orderStatus = "submitted" -> "open"
                 [] orderStatus = "paid" -> "settled"
                 [] OTHER -> "void",
    recorded <- {p \in Payments : Paid(p)},
    claims <- incident

ImplementsLedger == Ledger!Spec
=============================================================================
