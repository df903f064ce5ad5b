------------------------ MODULE OrderPaymentsProofs ------------------------
(***************************************************************************)
(* Proofs about OrderPayments, for any sets of attempts, methods, lines    *)
(* sold by count and by measure, and concurrent handlers, and any limit on *)
(* the renewals.                                                           *)
(*                                                                         *)
(* The properties are not inductive: what a handler has read is old when   *)
(* it is used.  The invariant adds what limits the harm: the counted rows  *)
(* share one status and so do the measured ones, and the two match the     *)
(* order's (RowsMatch); what was read of a closed order is still true, but *)
(* that a cancelled one may have been paid (ReadsAgree); ids are handed    *)
(* out in order and a pending attempt is the latest of its method          *)
(* (InOrder); a record of money is never older than the money, and no      *)
(* money is in while the order is open (Accounted).                        *)
(***************************************************************************)
EXTENDS OrderPayments, TLAPS

RowsOf(c, m) == [l \in Lines |-> IF l \in Measured THEN m ELSE c]

\* The status of the counted rows and that of the measured ones, next to the order's.
Matches(status, c, m) ==
    /\ status = "submitted" => m = "active" /\ (c = "active" \/ (c = "lapsed" /\ Counted # {}))
    /\ status = "paid" => m = "consumed" /\ (c = "consumed" \/ (c = "expired" /\ Measured # {}))
    /\ status = "cancelled" => \/ c = "released" /\ m = "released"
                               \/ c = "expired" /\ m = "active" /\ Counted # {}

RowsMatch == \E c, m \in RowStatuses : rows = RowsOf(c, m) /\ Matches(orderStatus, c, m)

ReadsAgree ==
    \A h \in Handlers : report[h] # Idle =>
        /\ Exists(report[h].payment)
        /\ report[h].status # "none"
        /\ report[h].status = "paid" => report[h].payment \in credited
        /\ report[h].order = "paid" => orderStatus = "paid"
        /\ report[h].order = "cancelled" => orderStatus \in {"cancelled", "paid"}

InOrder ==
    /\ \A p \in Payments : Exists(p) => payment[p].method \in Methods
    /\ \A p \in Payments : ~Exists(p) => payment[p] = NoPayment
    /\ \A p, q \in Payments : Exists(p) /\ q < p => Exists(q)
    /\ \A p, r \in Payments :
          payment[p].status = "pending" /\ payment[r].method = payment[p].method => r <= p

Accounted ==
    /\ orderStatus # "paid" => Unclaimed = {}
    /\ orderStatus = "submitted" => credited = {}
    /\ \A p \in Payments : Paid(p) => p \in credited
    /\ \A p, q \in Unclaimed : Paid(p) /\ Paid(q) => p = q

IInv == TypeOK /\ RowsMatch /\ ReadsAgree /\ InOrder /\ Accounted

-----------------------------------------------------------------------------
(* Expiration *)

\* Only a submitted order has rows to expire, and what their expiration leaves
\* matches the order again.
LEMMA Expiration ==
    ASSUME TypeOK, RowsMatch, NEW x \in Expirations
    PROVE  /\ x \in {"none", "renewed", "dropped"}
           /\ x # "none" => orderStatus = "submitted"
           /\ OrderAfter(x) \in OrderStatuses
           /\ RenewalsAfter(x) \in 0..MaxRenewals
           /\ \E c, m \in RowStatuses \ {"lapsed"} :
                 RowsAfter(x) = RowsOf(c, m) /\ Matches(OrderAfter(x), c, m)
<1>1. PICK c \in RowStatuses, m \in RowStatuses :
          rows = RowsOf(c, m) /\ Matches(orderStatus, c, m)
    BY DEF RowsMatch
<1>2. x \in {"none", "renewed", "dropped"}
    BY DEF Expirations
<1>3. orderStatus \in OrderStatuses /\ m # "lapsed" /\ (c = "lapsed" => Counted # {})
    BY <1>1 DEF TypeOK, OrderStatuses, Matches
<1>4. CASE x = "none"
    <2>1. \A l \in Lines : rows[l] # "lapsed"
        BY <1>4 DEF Expirations
    <2>2. c # "lapsed"
        BY <1>1, <1>3, <2>1 DEF RowsOf, Counted
    <2>3. RowsAfter(x) = RowsOf(c, m)
        BY <1>1, <2>1 DEF RowsAfter, RowsOf
    <2>4. QED
        BY <1>1, <1>3, <1>4, <2>2, <2>3 DEF OrderAfter, RenewalsAfter, TypeOK
<1>5. CASE x # "none"
    <2>1. PICK l0 \in Lines : rows[l0] = "lapsed"
        BY <1>5 DEF Expirations
    <2>2. c = "lapsed"
        BY <1>1, <1>3, <2>1 DEF RowsOf
    <2>3. orderStatus = "submitted" /\ m = "active" /\ Counted # {}
        BY <1>1, <1>3, <2>2 DEF Matches, OrderStatuses
    <2>4. RowsAfter(x) = RowsOf(IF x = "renewed" THEN "active" ELSE "expired", "active")
        BY <1>1, <2>2, <2>3 DEF RowsAfter, RowsOf
    <2>5. CASE x = "renewed"
        <3>1. renewals < MaxRenewals
            BY <2>1, <2>5 DEF Expirations
        <3>2. RenewalsAfter(x) \in 0..MaxRenewals
            BY <2>5, <3>1, PaymentAssumption DEF RenewalsAfter, TypeOK
        <3>3. QED
            BY <2>3, <2>4, <2>5, <3>2 DEF OrderAfter, RowStatuses, Matches, OrderStatuses
    <2>6. CASE x = "dropped"
        BY <2>3, <2>4, <2>6
        DEF OrderAfter, RenewalsAfter, RowStatuses, Matches, OrderStatuses, TypeOK
    <2>7. QED BY <1>2, <1>5, <2>5, <2>6
<1>6. QED BY <1>4, <1>5

\* Unless the expiration drops the order, rows can be consumed only of one that is
\* submitted, or of one cancelled with counted rows expired and measured ones left
\* active.
LEMMA ConsumableRows ==
    ASSUME TypeOK, RowsMatch, NEW x \in Expirations, Consumable(x), x # "dropped"
    PROVE  /\ orderStatus # "paid"
           /\ orderStatus = "cancelled" => Measured # {} /\ Counted # {}
           /\ \E c, m \in RowStatuses :
                 Consumed(RowsAfter(x)) = RowsOf(c, m) /\ Matches("paid", c, m)
<1>1. PICK c \in RowStatuses \ {"lapsed"}, m \in RowStatuses \ {"lapsed"} :
          RowsAfter(x) = RowsOf(c, m) /\ Matches(OrderAfter(x), c, m)
    BY Expiration
<1>2. OrderAfter(x) = orderStatus /\ orderStatus \in OrderStatuses
    BY DEF OrderAfter, TypeOK
<1>3. PICK l \in Lines : RowsOf(c, m)[l] = "active"
    BY <1>1 DEF Consumable
<1>4. CASE orderStatus = "submitted"
    <2>1. c = "active" /\ m = "active"
        BY <1>1, <1>2, <1>4 DEF Matches
    <2>2. Consumed(RowsAfter(x)) = RowsOf("consumed", "consumed")
        BY <1>1, <2>1 DEF Consumed, RowsOf
    <2>3. QED BY <1>4, <2>2 DEF Matches, RowStatuses
<1>5. CASE orderStatus = "cancelled"
    <2>1. c = "expired" /\ m = "active" /\ Counted # {} /\ l \in Measured
        BY <1>1, <1>2, <1>3, <1>5 DEF Matches, RowsOf
    <2>2. Consumed(RowsAfter(x)) = RowsOf("expired", "consumed")
        BY <1>1, <2>1 DEF Consumed, RowsOf
    <2>3. QED BY <1>5, <2>1, <2>2 DEF Matches, RowStatuses
<1>6. CASE orderStatus = "paid"
    BY <1>1, <1>2, <1>3, <1>6 DEF Matches, RowsOf
<1>7. QED BY <1>2, <1>4, <1>5, <1>6 DEF OrderStatuses

\* Expiration touches the attempts only by cancelling pending ones.
LEMMA ExpiredAttempts ==
    ASSUME TypeOK, NEW x
    PROVE  /\ PaymentsAfter(x) \in [Payments -> PaymentRows]
           /\ \A p \in Payments :
                 /\ PaymentsAfter(x)[p].method = payment[p].method
                 /\ \/ PaymentsAfter(x)[p] = payment[p]
                    \/ /\ payment[p].status = "pending"
                       /\ PaymentsAfter(x)[p].status = "cancelled"
<1>1. ASSUME NEW p \in Payments
      PROVE  /\ PaymentsAfter(x)[p] \in PaymentRows
             /\ PaymentsAfter(x)[p].method = payment[p].method
             /\ \/ PaymentsAfter(x)[p] = payment[p]
                \/ payment[p].status = "pending" /\ PaymentsAfter(x)[p].status = "cancelled"
    <2>1. payment[p] \in PaymentRows
        BY DEF TypeOK
    <2>2. QED BY <2>1 DEF PaymentsAfter, PaymentRows, PaymentStatuses
<1>2. QED BY <1>1 DEF PaymentsAfter

-----------------------------------------------------------------------------
(* Parts of the invariant that a step keeps if it does no more than ... *)

\* ... close attempts, and neither create nor reopen one.
LEMMA OrderKept ==
    ASSUME InOrder,
           \A p \in Payments :
              \/ payment'[p] = payment[p]
              \/ /\ Exists(p)
                 /\ payment'[p].method = payment[p].method
                 /\ payment'[p].status \notin {"none", "pending"}
    PROVE  InOrder' /\ \A p \in Payments : Exists(p) => Exists(p)'
<1>1. \A p \in Payments : (Exists(p) <=> Exists(p)') /\ payment'[p].method = payment[p].method
    BY DEF Exists
<1>2. \A p \in Payments : payment'[p].status = "pending" => payment[p].status = "pending"
    OBVIOUS
<1>3. \A p \in Payments : ~Exists(p)' => payment'[p] = NoPayment
    BY <1>1 DEF InOrder, Exists
<1>4. QED BY <1>1, <1>2, <1>3 DEF InOrder

\* ... leave a closed order as it is, or pay it, and let handlers finish.
LEMMA ReadsKept ==
    ASSUME ReadsAgree,
           \A p \in Payments : Exists(p) => Exists(p)',
           TypeOK,
           orderStatus' = orderStatus \/ orderStatus = "submitted" \/ orderStatus' = "paid",
           credited \subseteq credited',
           \A h \in Handlers : report'[h] \in {report[h], Idle}
    PROVE  ReadsAgree'
<1> SUFFICES ASSUME NEW h \in Handlers, report'[h] # Idle
             PROVE  /\ Exists(report[h].payment)'
                    /\ report[h].status # "none"
                    /\ report[h].status = "paid" => report[h].payment \in credited'
                    /\ report[h].order = "paid" => orderStatus' = "paid"
                    /\ report[h].order = "cancelled" => orderStatus' \in {"cancelled", "paid"}
                    /\ report'[h] = report[h]
    BY DEF ReadsAgree, Exists
<1>1. report'[h] = report[h] /\ report[h] # Idle
    OBVIOUS
<1>2. report[h].payment \in Payments
    BY <1>1 DEF TypeOK, ReportRecords
<1>3. QED BY <1>1, <1>2 DEF ReadsAgree, Exists

\* ... record no attempt as paid, keep a paid order paid and open none.
LEMMA AccountKept ==
    ASSUME Accounted,
           \A p \in Payments : Paid(p)' => Paid(p),
           credited' = credited,
           credited \subseteq Payments,
           incident \subseteq incident',
           orderStatus = "paid" => orderStatus' = "paid",
           orderStatus' = "submitted" => orderStatus = "submitted"
    PROVE  Accounted'
<1>1. Unclaimed' \subseteq Unclaimed /\ Unclaimed \subseteq Payments
    BY DEF Unclaimed
<1>2. QED BY <1>1 DEF Accounted

\* ... settle an order that is not paid with one attempt.
LEMMA AccountSettled ==
    ASSUME Accounted,
           orderStatus # "paid",
           orderStatus' = "paid",
           NEW p \in Payments,
           \A q \in Payments \ {p} : Paid(q)' => Paid(q),
           credited' = credited \cup {p},
           incident' = incident
    PROVE  Accounted'
<1>1. Unclaimed' \subseteq {p}
    BY DEF Accounted, Unclaimed
<1>2. QED BY <1>1 DEF Accounted

\* The record a handler works with.
LEMMA ReportRead ==
    ASSUME IInv, NEW h \in Handlers, report[h] # Idle
    PROVE  /\ report[h].payment \in Payments
           /\ report[h].status \in PaymentStatuses \ {"none"}
           /\ report[h].order \in OrderStatuses
           /\ Exists(report[h].payment)
           /\ report[h].status = "paid" => report[h].payment \in credited
           /\ report[h].order = "paid" => orderStatus = "paid"
           /\ report[h].order = "cancelled" => orderStatus \in {"cancelled", "paid"}
BY DEF IInv, TypeOK, ReportRecords, ReadsAgree

\* A finished handler is idle and the others go on.
LEMMA Finished ==
    ASSUME TypeOK, NEW h \in Handlers, Done(h)
    PROVE  /\ report' \in [Handlers -> ReportRecords]
           /\ \A g \in Handlers : report'[g] \in {report[g], Idle}
BY DEF TypeOK, Done, ReportRecords

\* Recording a status other than "pending" only closes or credits the attempt.
LEMMA Recording ==
    ASSUME IInv, NEW h \in Handlers, report[h] # Idle, NEW x \in Expirations,
           NEW p0 \in Payments, p0 = report[h].payment,
           NEW said \in Reports, Allowed(report[h].status, said),
           payment' = Recorded(report[h], said, x)
    PROVE  /\ payment' \in [Payments -> PaymentRows]
           /\ InOrder'
           /\ \A p \in Payments : Exists(p) => Exists(p)'
           /\ \A p \in Payments \ {p0} : Paid(p)' <=> Paid(p)
           /\ said # report[h].status => payment'[p0].status = said
           /\ said = report[h].status => (Paid(p0)' <=> Paid(p0))
<1> DEFINE r == report[h]
           old == PaymentsAfter(x)
<1>1. r.payment \in Payments /\ Exists(r.payment)
    BY ReportRead
<1>2. /\ old \in [Payments -> PaymentRows]
      /\ \A p \in Payments :
            /\ old[p].method = payment[p].method
            /\ \/ old[p] = payment[p]
               \/ payment[p].status = "pending" /\ old[p].status = "cancelled"
    BY ExpiredAttempts DEF IInv
<1>3. said # r.status => said # "pending"
    BY DEF Allowed
<1>4. ASSUME NEW p \in Payments
      PROVE  /\ payment'[p] \in PaymentRows
             /\ payment'[p].method = payment[p].method
             /\ IF p = r.payment /\ said # r.status
                THEN payment'[p].status = said /\ said # "pending"
                ELSE payment'[p] = old[p]
    <2>1. CASE p = r.payment /\ said # r.status
        <3>1. payment'[p] = [old[p] EXCEPT !.status = said]
            BY <1>2, <2>1 DEF Recorded
        <3>2. old[p] \in PaymentRows
            BY <1>2
        <3>3. payment'[p] \in PaymentRows /\ payment'[p].method = old[p].method
              /\ payment'[p].status = said
            BY <3>1, <3>2 DEF PaymentRows, Reports, PaymentStatuses
        <3>4. QED BY <1>2, <1>3, <2>1, <3>3
    <2>2. CASE p # r.payment \/ said = r.status
        <3>1. payment'[p] = old[p]
            <4>1. old[p] \in PaymentRows
                BY <1>2
            <4>2. [old[p] EXCEPT !.status = old[p].status] = old[p]
                BY <4>1 DEF PaymentRows
            <4>3. QED BY <1>2, <2>2, <4>2 DEF Recorded
        <3>2. QED BY <1>2, <2>2, <3>1
    <2>3. QED BY <2>1, <2>2
<1>5. payment' \in [Payments -> PaymentRows]
    <2>1. payment' = [p \in Payments |-> payment'[p]]
        BY <1>2 DEF Recorded
    <2>2. QED BY <1>4, <2>1
<1>6. \A p \in Payments :
          \/ payment'[p] = payment[p]
          \/ /\ Exists(p)
             /\ payment'[p].method = payment[p].method
             /\ payment'[p].status \notin {"none", "pending"}
    BY <1>1, <1>2, <1>4 DEF Exists, Reports
<1>7. InOrder' /\ \A p \in Payments : Exists(p) => Exists(p)'
    BY <1>6, OrderKept DEF IInv
<1>8. \A p \in Payments : old[p].status = "paid" <=> Paid(p)
    BY <1>2 DEF Paid
<1> HIDE DEF old
<1>9. \A p \in Payments \ {p0} : Paid(p)' <=> Paid(p)
    BY <1>4, <1>8 DEF Paid
<1>10. /\ said # report[h].status => payment'[p0].status = said
       /\ said = report[h].status => (Paid(p0)' <=> Paid(p0))
    BY <1>4, <1>8 DEF Paid
<1>11. QED BY <1>5, <1>7, <1>9, <1>10

\* Money can always be recorded.
LEMMA PaidIsAllowed ==
    ASSUME IInv, NEW h \in Handlers, report[h] # Idle
    PROVE  Allowed(report[h].status, "paid")
BY ReportRead DEF Allowed, PaymentStatuses

\* Expiring the rows and closing attempts keeps the invariant.
LEMMA ExpirationKeeps ==
    ASSUME IInv, NEW x \in Expirations,
           orderStatus' = OrderAfter(x), rows' = RowsAfter(x), renewals' = RenewalsAfter(x)
    PROVE  /\ RowsMatch'
           /\ orderStatus' \in OrderStatuses /\ renewals' \in 0..MaxRenewals
           /\ rows' \in [Lines -> RowStatuses]
           /\ orderStatus' = orderStatus \/ orderStatus = "submitted"
           /\ orderStatus = "paid" => orderStatus' = "paid"
           /\ orderStatus' = "submitted" => orderStatus = "submitted"
<1>1. PICK c \in RowStatuses, m \in RowStatuses :
          RowsAfter(x) = RowsOf(c, m) /\ Matches(OrderAfter(x), c, m)
    BY Expiration DEF IInv
<1>2. RowsMatch' /\ rows' \in [Lines -> RowStatuses]
    BY <1>1 DEF RowsMatch, RowsOf
<1>3. QED BY <1>2, Expiration DEF IInv, OrderAfter

\* Consuming the rows keeps the invariant's part about them.
LEMMA SettledRows ==
    ASSUME IInv, NEW x \in Expirations, x # "dropped", Consumable(x),
           orderStatus' = "paid", rows' = Consumed(RowsAfter(x)),
           renewals' = RenewalsAfter(x)
    PROVE  /\ orderStatus # "paid"
           /\ orderStatus = "cancelled" => Measured # {} /\ Counted # {}
           /\ RowsMatch'
           /\ rows' \in [Lines -> RowStatuses] /\ renewals' \in 0..MaxRenewals
<1>1. PICK c \in RowStatuses, m \in RowStatuses :
          rows' = RowsOf(c, m) /\ Matches("paid", c, m)
    BY ConsumableRows DEF IInv
<1>2. RowsMatch' /\ rows' \in [Lines -> RowStatuses]
    BY <1>1 DEF RowsMatch, RowsOf
<1>3. QED BY <1>2, ConsumableRows, Expiration DEF IInv

-----------------------------------------------------------------------------
(* The steps *)

LEMMA InitIInv == Init => IInv
<1> SUFFICES ASSUME Init PROVE IInv
    OBVIOUS
<1>1. rows = RowsOf("active", "active") /\ Matches(orderStatus, "active", "active")
    BY DEF Init, RowsOf, Matches
<1>2. RowsMatch
    BY <1>1 DEF RowsMatch, RowStatuses
<1>3. TypeOK
    BY PaymentAssumption
    DEF Init, TypeOK, OrderStatuses, RowStatuses, PaymentRows, PaymentStatuses, Checkouts,
        ReportRecords, NoPayment
<1>4. ReadsAgree /\ InOrder /\ Accounted
    BY DEF Init, ReadsAgree, InOrder, Exists, NoPayment, Accounted, Unclaimed, Paid
<1>5. QED BY <1>2, <1>3, <1>4 DEF IInv

LEMMA ExpireStep == IInv /\ Expire => IInv'
<1> SUFFICES ASSUME IInv, NEW x \in Expirations,
                    orderStatus' = OrderAfter(x), rows' = RowsAfter(x),
                    renewals' = RenewalsAfter(x), payment' = PaymentsAfter(x),
                    UNCHANGED <<charged, credited, incident, report>>
             PROVE  IInv'
    BY DEF Expire
<1>1. \A p \in Payments :
          \/ payment'[p] = payment[p]
          \/ /\ Exists(p)
             /\ payment'[p].method = payment[p].method
             /\ payment'[p].status = "cancelled"
    BY ExpiredAttempts DEF IInv, Exists
<1>2. InOrder' /\ \A p \in Payments : Exists(p) => Exists(p)'
    BY <1>1, OrderKept DEF IInv
<1>3. Accounted'
    <2>1. \A p \in Payments : Paid(p)' => Paid(p)
        BY <1>1 DEF Paid
    <2>2. QED BY <2>1, ExpirationKeeps, AccountKept DEF IInv, TypeOK
<1>4. ReadsAgree'
    BY <1>2, ExpirationKeeps, ReadsKept DEF IInv
<1>5. TypeOK'
    BY ExpirationKeeps, ExpiredAttempts DEF IInv, TypeOK
<1>6. QED BY <1>2, <1>3, <1>4, <1>5, ExpirationKeeps DEF IInv

LEMMA LapseStep == IInv /\ Lapse => IInv'
<1> SUFFICES ASSUME IInv, Lapse PROVE IInv'
    OBVIOUS
<1>1. PICK c \in RowStatuses, m \in RowStatuses :
          rows = RowsOf(c, m) /\ Matches(orderStatus, c, m)
    BY DEF IInv, RowsMatch
<1>2. c = "active" /\ Counted # {}
    BY <1>1 DEF Lapse, RowsOf, Counted
<1>3. orderStatus = "submitted"
    BY <1>1, <1>2 DEF Matches, IInv, TypeOK, OrderStatuses
<1>4. rows' = RowsOf("lapsed", m)
    BY <1>1, <1>2 DEF Lapse, RowsOf, Counted
<1>5. RowsMatch' /\ rows' \in [Lines -> RowStatuses]
    BY <1>1, <1>2, <1>3, <1>4 DEF Lapse, RowsMatch, Matches, RowStatuses, RowsOf
<1>6. UNCHANGED <<orderStatus, renewals, payment, charged, credited, incident, report>>
    BY DEF Lapse
<1>7. QED
    BY <1>5, <1>6
    DEF IInv, TypeOK, ReadsAgree, InOrder, Exists, Accounted, Unclaimed, Paid

\* A request that adds an attempt to a submitted order, and may close another.
LEMMA CreationKeeps ==
    ASSUME IInv, NEW x \in Expirations, NEW p \in Payments, NEW m \in Methods, Payable(x),
           Fresh(p), NEW checkout \in Checkouts,
           payment' \in [Payments -> PaymentRows],
           payment'[p] = Attempt(m, checkout),
           \A q \in Payments \ {p} :
              /\ payment'[q].method = payment[q].method
              /\ payment'[q].status = "pending" =>
                    payment[q].status = "pending" /\ payment[q].method # m
              /\ payment'[q].status = "paid" => payment[q].status = "paid"
              /\ Exists(q) <=> payment'[q].status # "none"
              /\ ~Exists(q) => payment'[q] = NoPayment,
           rows' = RowsAfter(x), renewals' = RenewalsAfter(x),
           UNCHANGED <<orderStatus, charged, credited, incident, report>>
    PROVE  IInv'
<1>2. orderStatus = "submitted" /\ OrderAfter(x) = orderStatus
    BY Expiration DEF Payable, IInv, OrderAfter
<1>3. RowsMatch' /\ renewals' \in 0..MaxRenewals /\ rows' \in [Lines -> RowStatuses]
    BY <1>2, ExpirationKeeps
<1>4. TypeOK'
    BY <1>3 DEF IInv, TypeOK
<1>5. InOrder'
    <2>1. Attempt(m, checkout).method = m /\ Attempt(m, checkout).status = "pending"
        BY DEF Attempt
    <2>2. \A q \in Payments : Exists(q)' <=> q = p \/ Exists(q)
        BY <2>1 DEF Exists
    <2>3. \A q \in Payments : Exists(q) => q <= p /\ q # p
        <3> SUFFICES ASSUME NEW q \in Payments, Exists(q) PROVE q <= p /\ q # p
            OBVIOUS
        <3>1. q \in Nat /\ p \in Nat
            BY PaymentAssumption
        <3>2. ~Exists(p) /\ ~(p < q)
            BY DEF IInv, InOrder, Fresh
        <3>3. QED BY <3>1, <3>2
    <2>4. \A q \in Payments : Exists(q)' => payment'[q].method \in Methods
        BY <2>1, <2>2 DEF IInv, InOrder
    <2>5. \A q \in Payments : ~Exists(q)' => payment'[q] = NoPayment
        BY <2>2
    <2>6. \A q, r \in Payments : Exists(q)' /\ r < q => Exists(r)'
        BY <2>2 DEF IInv, InOrder, Fresh
    <2>7. ASSUME NEW q \in Payments, NEW r \in Payments,
                 payment'[q].status = "pending", payment'[r].method = payment'[q].method
          PROVE  r <= q
        <3>1. Exists(q)' /\ payment'[q].method \in Methods
            BY <2>4, <2>7 DEF Exists
        <3>2. Exists(r)'
            BY <2>5, <2>7, <3>1, PaymentAssumption DEF NoPayment
        <3>3. CASE q = p
            BY <2>2, <2>3, <3>2, <3>3, PaymentAssumption
        <3>4. CASE q # p /\ r = p
            BY <2>1, <2>7, <3>4
        <3>5. CASE q # p /\ r # p
            BY <2>7, <3>5 DEF IInv, InOrder
        <3>6. QED BY <3>3, <3>4, <3>5
    <2>8. QED BY <2>4, <2>5, <2>6, <2>7 DEF InOrder
<1>6. ReadsAgree'
    <2>1. \A q \in Payments : Exists(q) => Exists(q)'
        BY DEF Exists, Attempt
    <2>2. QED BY <2>1, ReadsKept DEF IInv
<1>7. Accounted'
    <2>1. Attempt(m, checkout).status = "pending"
        BY DEF Attempt
    <2>2. \A q \in Payments : Paid(q)' => Paid(q)
        BY <2>1 DEF Paid
    <2>3. QED BY <1>2, <2>2, AccountKept DEF IInv, TypeOK
<1>8. QED BY <1>3, <1>4, <1>5, <1>6, <1>7 DEF IInv

LEMMA CreateStep ==
    ASSUME IInv, NEW p \in Payments, NEW m \in Methods, CreatePayment(p, m)
    PROVE  IInv'
<1>1. PICK x \in Expirations, checkout \in CheckoutsOf(m) :
          /\ Payable(x) /\ Fresh(p) /\ NonePending(m)
          /\ payment' = [payment EXCEPT ![p] = Attempt(m, checkout)]
          /\ rows' = RowsAfter(x) /\ renewals' = RenewalsAfter(x)
          /\ UNCHANGED <<orderStatus, charged, credited, incident, report>>
    BY DEF CreatePayment
<1>2. checkout \in Checkouts
    BY DEF CheckoutsOf, Checkouts
<1>3. payment' \in [Payments -> PaymentRows] /\ payment'[p] = Attempt(m, checkout)
    <2>1. Attempt(m, checkout) \in PaymentRows
        BY <1>2 DEF Attempt, PaymentRows, PaymentStatuses
    <2>2. QED BY <1>1, <2>1 DEF IInv, TypeOK
<1>4. \A q \in Payments \ {p} : payment'[q] = payment[q]
    BY <1>1 DEF IInv, TypeOK
<1>5. \A q \in Payments : ~Exists(q) => payment[q] = NoPayment
    BY DEF IInv, InOrder
<1>6. QED
    BY <1>1, <1>2, <1>3, <1>4, <1>5, CreationKeeps DEF NonePending, PendingOf, Exists

LEMMA RetryStep ==
    ASSUME IInv, NEW p \in Payments, NEW m \in Methods, RetryPayment(p, m)
    PROVE  IInv'
<1>1. PICK x \in Expirations, checkout \in CheckoutsOf(m), q \in Payments :
          /\ Payable(x) /\ Fresh(p) /\ Latest(q, m) /\ Retryable(q)
          /\ payment' = [payment EXCEPT ![q].status = IF @ = "pending" THEN "cancelled" ELSE @,
                                        ![p] = Attempt(m, checkout)]
          /\ rows' = RowsAfter(x) /\ renewals' = RenewalsAfter(x)
          /\ UNCHANGED <<orderStatus, charged, credited, incident, report>>
    BY DEF RetryPayment
<1> DEFINE before ==
        [payment EXCEPT ![q].status = IF @ = "pending" THEN "cancelled" ELSE @]
<1>2. checkout \in Checkouts
    BY DEF CheckoutsOf, Checkouts
<1>3. payment \in [Payments -> PaymentRows] /\ payment[q] \in PaymentRows
    BY DEF IInv, TypeOK
<1>4. /\ before[q].method = payment[q].method
      /\ before[q].status = IF payment[q].status = "pending" THEN "cancelled" ELSE payment[q].status
      /\ before[q] \in PaymentRows
    BY <1>3 DEF PaymentRows, PaymentStatuses
<1>5. \A r \in Payments \ {q} : before[r] = payment[r]
    BY <1>3
<1>6. before \in [Payments -> PaymentRows]
    BY <1>3, <1>4
<1>7. payment[q].status # "none"
    BY <1>1 DEF Retryable, SetupFailed
<1>8. \A r \in Payments : ~(before[r].method = m /\ before[r].status = "pending")
    <2> SUFFICES ASSUME NEW r \in Payments, r # q, payment[r].method = m,
                        payment[r].status = "pending"
                 PROVE  FALSE
        BY <1>4, <1>5
    <2>1. r <= q /\ q <= r
        BY <1>1 DEF Latest, IInv, InOrder
    <2>2. QED BY <2>1, PaymentAssumption
<1>9. payment' \in [Payments -> PaymentRows] /\ payment'[p] = Attempt(m, checkout)
    <2>1. Attempt(m, checkout) \in PaymentRows
        BY <1>2 DEF Attempt, PaymentRows, PaymentStatuses
    <2>2. payment' = [before EXCEPT ![p] = Attempt(m, checkout)]
        BY <1>1
    <2> HIDE DEF before
    <2>3. QED BY <1>6, <2>1, <2>2
<1>10. \A r \in Payments \ {p} : payment'[r] = before[r]
    <2>1. payment' = [before EXCEPT ![p] = Attempt(m, checkout)]
        BY <1>1
    <2> HIDE DEF before
    <2>2. QED BY <1>6, <2>1
<1>11. \A r \in Payments \ {p} :
          /\ payment'[r].method = payment[r].method
          /\ payment'[r].status = "pending" =>
                payment[r].status = "pending" /\ payment[r].method # m
          /\ payment'[r].status = "paid" => payment[r].status = "paid"
          /\ Exists(r) <=> payment'[r].status # "none"
          /\ ~Exists(r) => payment'[r] = NoPayment
    <2> SUFFICES ASSUME NEW r \in Payments \ {p}
                 PROVE  /\ before[r].method = payment[r].method
                        /\ before[r].status = "pending" =>
                              payment[r].status = "pending" /\ payment[r].method # m
                        /\ before[r].status = "paid" => payment[r].status = "paid"
                        /\ Exists(r) <=> before[r].status # "none"
                        /\ ~Exists(r) => before[r] = NoPayment
        BY <1>10
    <2>1. CASE r = q
        BY <1>4, <1>7, <2>1 DEF Exists
    <2>2. CASE r # q
        <3>1. before[r] = payment[r]
            BY <1>5, <2>2
        <3>2. ~Exists(r) => payment[r] = NoPayment
            BY DEF IInv, InOrder
        <3> HIDE DEF before
        <3>3. QED BY <1>8, <3>1, <3>2 DEF Exists
    <2>3. QED BY <2>1, <2>2
<1>12. QED BY <1>1, <1>2, <1>9, <1>11, CreationKeeps

\* A request that changes one attempt that exists, and nothing about handlers.
LEMMA TouchKeeps ==
    ASSUME IInv, NEW p \in Payments, NEW row \in PaymentRows, Exists(p),
           payment' = [payment EXCEPT ![p] = row],
           row.method = payment[p].method,
           row.status = payment[p].status \/ row.status \notin {"none", "pending"}
    PROVE  /\ payment' \in [Payments -> PaymentRows]
           /\ InOrder'
           /\ \A q \in Payments : Exists(q) => Exists(q)'
           /\ \A q \in Payments \ {p} : payment'[q] = payment[q]
           /\ payment'[p] = row
<1>1. /\ payment' \in [Payments -> PaymentRows]
      /\ \A q \in Payments \ {p} : payment'[q] = payment[q]
      /\ payment'[p] = row
    BY DEF IInv, TypeOK
<1>2. \A q \in Payments :
          /\ payment'[q].method = payment[q].method
          /\ payment'[q].status = "pending" => payment[q].status = "pending"
          /\ Exists(q) <=> Exists(q)'
          /\ ~Exists(q)' => payment'[q] = NoPayment
    BY <1>1 DEF Exists, IInv, InOrder
<1>3. InOrder'
    BY <1>2 DEF IInv, InOrder
<1>4. QED BY <1>1, <1>2, <1>3

LEMMA RecoverStep ==
    ASSUME IInv, NEW p \in Payments, RecoverCheckout(p) \/ TimeOut(p)
    PROVE  IInv'
<1>1. payment[p] \in PaymentRows /\ Exists(p)
    BY DEF IInv, TypeOK, RecoverCheckout, SetupFailed, TimeOut, Exists
<1>2. PICK row \in PaymentRows :
          /\ payment' = [payment EXCEPT ![p] = row]
          /\ row.method = payment[p].method /\ row.status = payment[p].status
    <2>1. CASE RecoverCheckout(p)
        <3> DEFINE row == [payment[p] EXCEPT !.checkout = "created"]
        <3>1. row \in PaymentRows /\ row.method = payment[p].method
              /\ row.status = payment[p].status
            BY <1>1 DEF PaymentRows, Checkouts
        <3>2. payment' = [payment EXCEPT ![p] = row]
            BY <2>1 DEF RecoverCheckout
        <3>3. QED BY <3>1, <3>2
    <2>2. CASE TimeOut(p)
        <3> DEFINE row == [payment[p] EXCEPT !.inTime = FALSE]
        <3>1. row \in PaymentRows /\ row.method = payment[p].method
              /\ row.status = payment[p].status
            BY <1>1 DEF PaymentRows
        <3>2. payment' = [payment EXCEPT ![p] = row]
            BY <2>2 DEF TimeOut
        <3>3. QED BY <3>1, <3>2
    <2>3. QED BY <2>1, <2>2
<1>3. UNCHANGED <<orderStatus, rows, renewals, charged, credited, incident, report>>
    BY DEF RecoverCheckout, TimeOut
<1>4. /\ payment' \in [Payments -> PaymentRows] /\ InOrder'
      /\ \A q \in Payments : Exists(q) => Exists(q)'
      /\ \A q \in Payments : payment'[q].status = payment[q].status
    BY <1>1, <1>2, TouchKeeps
<1>5. TypeOK' /\ RowsMatch'
    BY <1>3, <1>4 DEF IInv, TypeOK, RowsMatch
<1>6. ReadsAgree' /\ Accounted'
    BY <1>3, <1>4, ReadsKept, AccountKept DEF IInv, TypeOK, Paid
<1>7. QED BY <1>4, <1>5, <1>6 DEF IInv

LEMMA ChargeStep ==
    ASSUME IInv, NEW p \in Payments, Charge(p)
    PROVE  IInv'
BY DEF Charge, IInv, TypeOK, RowsMatch, ReadsAgree, InOrder, Exists, Accounted, Unclaimed, Paid

LEMMA ConfirmStep ==
    ASSUME IInv, NEW p \in Payments, ConfirmManual(p)
    PROVE  IInv'
<1>1. PICK x \in Expirations :
          /\ Payable(x)
          /\ payment[p].status = "pending"
          /\ payment' = [payment EXCEPT ![p].status = "paid"]
          /\ orderStatus' = "paid"
          /\ rows' = Consumed(RowsAfter(x)) /\ renewals' = RenewalsAfter(x)
          /\ credited' = credited \cup {p}
          /\ UNCHANGED <<charged, incident, report>>
    BY DEF ConfirmManual
<1> DEFINE row == [payment[p] EXCEPT !.status = "paid"]
<1>2. payment[p] \in PaymentRows
    BY DEF IInv, TypeOK
<1>3. row \in PaymentRows /\ row.method = payment[p].method /\ row.status = "paid"
    BY <1>2 DEF PaymentRows, PaymentStatuses
<1>4. payment' = [payment EXCEPT ![p] = row] /\ Exists(p)
    BY <1>1 DEF Exists
<1> HIDE DEF row
<1>5. /\ payment' \in [Payments -> PaymentRows] /\ InOrder'
      /\ \A q \in Payments : Exists(q) => Exists(q)'
      /\ \A q \in Payments \ {p} : payment'[q] = payment[q]
    BY <1>3, <1>4, TouchKeeps
<1>6. /\ orderStatus # "paid" /\ renewals' \in 0..MaxRenewals
      /\ RowsMatch' /\ rows' \in [Lines -> RowStatuses]
    BY <1>1, SettledRows DEF Payable, OrderAfter
<1>7. TypeOK'
    BY <1>1, <1>5, <1>6 DEF IInv, TypeOK, OrderStatuses
<1>8. ReadsAgree'
    BY <1>1, <1>5, ReadsKept DEF IInv
<1>9. Accounted'
    BY <1>1, <1>5, <1>6, AccountSettled DEF IInv, Paid
<1>10. QED BY <1>5, <1>6, <1>7, <1>8, <1>9 DEF IInv

LEMMA CancelStep == IInv /\ CancelOrder => IInv'
<1> SUFFICES ASSUME IInv, NEW x \in Expirations \ {"dropped"},
                    orderStatus = "submitted", orderStatus' = "cancelled",
                    rows' = [l \in Lines |-> IF RowsAfter(x)[l] = "active" THEN "released"
                                                                          ELSE rows[l]],
                    renewals' = RenewalsAfter(x),
                    UNCHANGED <<payment, charged, credited, incident, report>>
             PROVE  IInv'
    BY DEF CancelOrder
<1>1. PICK c \in RowStatuses, m \in RowStatuses :
          RowsAfter(x) = RowsOf(c, m) /\ Matches(OrderAfter(x), c, m) /\ c # "lapsed"
    BY Expiration DEF IInv
<1>2. c = "active" /\ m = "active"
    BY <1>1 DEF OrderAfter, Matches
<1>3. rows' = RowsOf("released", "released")
    BY <1>1, <1>2 DEF RowsOf
<1>4. RowsMatch' /\ TypeOK'
    BY <1>3, Expiration
    DEF RowsMatch, RowsOf, Matches, RowStatuses, IInv, TypeOK, OrderStatuses
<1>5. ReadsAgree' /\ InOrder'
    BY ReadsKept DEF IInv, InOrder, Exists
<1>6. Accounted'
    BY AccountKept DEF IInv, TypeOK, Paid
<1>7. QED BY <1>4, <1>5, <1>6 DEF IInv

LEMMA ReadStep ==
    ASSUME IInv, NEW h \in Handlers, NEW p \in Payments, NEW source \in Sources,
           ReadAttempt(h, p, source)
    PROVE  IInv'
<1> DEFINE read == [step |-> "read", payment |-> p, source |-> source,
                    status |-> payment[p].status, order |-> orderStatus]
<1>1. /\ payment[p].checkout = "created" /\ payment[p] \in PaymentRows
      /\ report' = [report EXCEPT ![h] = read]
      /\ UNCHANGED <<orderStatus, rows, renewals, payment, charged, credited, incident>>
    BY DEF ReadAttempt, IInv, TypeOK
<1>2. Exists(p)
    BY <1>1 DEF IInv, InOrder, NoPayment
<1>3. /\ read \in ReportRecords /\ read.payment = p /\ read.order = orderStatus
      /\ read.status # "none" /\ (read.status = "paid" => p \in credited)
    BY <1>1, <1>2 DEF ReportRecords, PaymentRows, IInv, TypeOK, Exists, Accounted, Paid
<1> HIDE DEF read
<1>4. TypeOK' /\ RowsMatch' /\ InOrder' /\ Accounted'
    BY <1>1, <1>3 DEF IInv, TypeOK, RowsMatch, InOrder, Exists, Accounted, Unclaimed, Paid
<1>5. ReadsAgree'
    BY <1>1, <1>2, <1>3 DEF IInv, TypeOK, ReadsAgree, Exists
<1>6. QED BY <1>4, <1>5 DEF IInv

LEMMA ReadOrderStep ==
    ASSUME IInv, NEW h \in Handlers, ReadOrder(h)
    PROVE  IInv'
<1> DEFINE r == report[h]
           read == [r EXCEPT !.order = orderStatus]
<1>1. r # Idle /\ r \in ReportRecords /\ orderStatus \in OrderStatuses
    BY DEF ReadOrder, IInv, TypeOK
<1>2. /\ read \in ReportRecords /\ read # Idle /\ read.order = orderStatus
      /\ read.payment = r.payment /\ read.status = r.status
    BY <1>1 DEF ReportRecords, Idle
<1>3. /\ report' = [report EXCEPT ![h] = read]
      /\ UNCHANGED <<orderStatus, rows, renewals, payment, charged, credited, incident>>
    BY DEF ReadOrder
<1> HIDE DEF read
<1>4. TypeOK' /\ RowsMatch' /\ InOrder' /\ Accounted'
    BY <1>2, <1>3 DEF IInv, TypeOK, RowsMatch, InOrder, Exists, Accounted, Unclaimed, Paid
<1>5. ReadsAgree'
    BY <1>1, <1>2, <1>3 DEF IInv, TypeOK, ReadsAgree, Exists
<1>6. QED BY <1>4, <1>5 DEF IInv

LEMMA CloseStep ==
    ASSUME IInv, NEW h \in Handlers, NEW said \in Reports, CloseAttempt(h, said)
    PROVE  IInv'
<1>1. PICK x \in Expirations :
          /\ Allowed(report[h].status, said)
          /\ payment' = Recorded(report[h], said, x)
          /\ orderStatus' = OrderAfter(x)
          /\ rows' = RowsAfter(x) /\ renewals' = RenewalsAfter(x)
    BY DEF CloseAttempt
<1>2. report[h] # Idle /\ said # "paid" /\ Done(h) /\ UNCHANGED <<charged, credited, incident>>
    BY DEF CloseAttempt
<1>3. /\ payment' \in [Payments -> PaymentRows] /\ InOrder'
      /\ \A p \in Payments : Exists(p) => Exists(p)'
      /\ \A p \in Payments : Paid(p)' => Paid(p)
    <2>1. PICK p0 \in Payments : p0 = report[h].payment
        BY <1>2, ReportRead
    <2>2. QED BY <1>1, <1>2, <2>1, Recording DEF Paid
<1>4. RowsMatch' /\ TypeOK'
    BY <1>1, <1>2, <1>3, ExpirationKeeps, Finished DEF IInv, TypeOK
<1>5. ReadsAgree' /\ Accounted'
    BY <1>1, <1>2, <1>3, ExpirationKeeps, Finished, ReadsKept, AccountKept DEF IInv, TypeOK
<1>6. QED BY <1>3, <1>4, <1>5 DEF IInv

\* What a handler takes for a closed order is one, though perhaps paid since; or is
\* one by its own doing.
LEMMA SeenIsTrue ==
    ASSUME IInv, NEW h \in Handlers, report[h] # Idle, NEW x \in Expirations,
           Seen(report[h], x) # "submitted"
    PROVE  /\ Seen(report[h], x) \in {"paid", "cancelled"}
           /\ OrderAfter(x) # "submitted"
           /\ Seen(report[h], x) = "paid" => orderStatus = "paid"
           /\ orderStatus = "submitted" <=> x = "dropped"
<1>1. /\ report[h].order \in OrderStatuses /\ orderStatus \in OrderStatuses
      /\ report[h].order = "paid" => orderStatus = "paid"
      /\ report[h].order = "cancelled" => orderStatus \in {"cancelled", "paid"}
    BY ReportRead DEF IInv, TypeOK
<1>2. x # "none" => orderStatus = "submitted"
    BY Expiration DEF IInv
<1>3. CASE x = "dropped"
    BY <1>2, <1>3 DEF Seen, OrderAfter
<1>4. CASE x # "dropped"
    BY <1>1, <1>4 DEF Seen, OrderAfter, OrderStatuses
<1>5. QED BY <1>3, <1>4

\* What is recorded when a handler reports money.
LEMMA MoneyRecorded ==
    ASSUME IInv, NEW h \in Handlers, report[h] # Idle, NEW x \in Expirations,
           NEW p \in Payments, p = report[h].payment,
           payment' = Recorded(report[h], "paid", x)
    PROVE  /\ payment' \in [Payments -> PaymentRows] /\ InOrder'
           /\ \A q \in Payments : Exists(q) => Exists(q)'
           /\ \A q \in Payments \ {p} : Paid(q)' <=> Paid(q)
           /\ Paid(p)' \/ (p \in credited /\ (Paid(p)' <=> Paid(p)))
<1>1. "paid" \in Reports /\ Allowed(report[h].status, "paid")
    BY PaidIsAllowed DEF Reports
<1>2. report[h].status = "paid" => p \in credited
    BY ReportRead
<1>3. /\ payment' \in [Payments -> PaymentRows] /\ InOrder'
      /\ \A q \in Payments : Exists(q) => Exists(q)'
      /\ \A q \in Payments \ {p} : Paid(q)' <=> Paid(q)
      /\ "paid" # report[h].status => payment'[p].status = "paid"
      /\ "paid" = report[h].status => (Paid(p)' <=> Paid(p))
    BY <1>1, Recording
<1>4. "paid" # report[h].status => Paid(p)'
    BY <1>3 DEF Paid
<1>5. QED BY <1>2, <1>3, <1>4

LEMMA CreditLateStep ==
    ASSUME IInv, NEW h \in Handlers, CreditLate(h)
    PROVE  IInv'
<1>1. PICK x \in Expirations :
          /\ Seen(report[h], x) # "submitted"
          /\ payment' = Recorded(report[h], "paid", x)
          /\ incident' = Incidents(report[h], Seen(report[h], x))
          /\ orderStatus' = OrderAfter(x)
          /\ rows' = RowsAfter(x) /\ renewals' = RenewalsAfter(x)
    BY DEF CreditLate
<1>0. PICK p \in Payments : p = report[h].payment
    BY ReportRead DEF CreditLate
<1> DEFINE seen == Seen(report[h], x)
           another == \E q \in Payments \ {p} : Paid(q)
<1>2. /\ report[h] # Idle /\ Done(h) /\ charged' = charged
      /\ credited' = credited \cup {p}
    BY <1>0 DEF CreditLate
<1>3. /\ payment' \in [Payments -> PaymentRows] /\ InOrder'
      /\ \A q \in Payments : Exists(q) => Exists(q)'
      /\ \A q \in Payments \ {p} : Paid(q)' <=> Paid(q)
    BY <1>0, <1>1, <1>2, MoneyRecorded
<1>4. incident' = incident \cup (IF seen = "cancelled" \/ another THEN {p} ELSE {})
    BY <1>0, <1>1 DEF Incidents, Paid
<1>5. seen \in {"paid", "cancelled"} /\ (seen = "paid" => orderStatus = "paid")
      /\ orderStatus' # "submitted"
    BY <1>1, <1>2, SeenIsTrue
<1>6. orderStatus = "paid" => orderStatus' = "paid"
    BY <1>1, ExpirationKeeps
<1>7. RowsMatch' /\ TypeOK'
    BY <1>1, <1>2, <1>3, <1>4, ExpirationKeeps, Finished DEF IInv, TypeOK
<1>8. ReadsAgree'
    BY <1>1, <1>2, <1>3, ExpirationKeeps, Finished, ReadsKept DEF IInv
<1>9. \A q \in Payments : Paid(q)' => q \in credited'
    BY <1>2, <1>3 DEF IInv, Accounted
<1>10. Unclaimed \subseteq Payments
    BY DEF IInv, TypeOK, Unclaimed
<1>11. CASE seen = "cancelled" \/ another
    <2>1. Unclaimed' \subseteq Unclaimed /\ p \notin Unclaimed'
        BY <1>2, <1>4, <1>11 DEF Unclaimed
    <2>2. Accounted'
        BY <1>3, <1>5, <1>6, <1>9, <1>10, <2>1 DEF IInv, Accounted
    <2>3. QED BY <1>3, <1>7, <1>8, <2>2 DEF IInv
<1>12. CASE seen = "paid" /\ ~another
    <2>1. Unclaimed' \subseteq Payments /\ \A q \in Unclaimed' : Paid(q)' => q = p
        BY <1>2, <1>3, <1>10, <1>12 DEF Unclaimed, IInv, TypeOK
    <2>2. Accounted'
        BY <1>5, <1>6, <1>9, <1>12, <2>1 DEF Accounted
    <2>3. QED BY <1>3, <1>7, <1>8, <2>2 DEF IInv
<1>13. QED BY <1>5, <1>11, <1>12

LEMMA SettleStep ==
    ASSUME IInv, NEW h \in Handlers, SettleOrder(h)
    PROVE  IInv'
<1>1. PICK x \in Expirations :
          /\ Seen(report[h], x) = "submitted"
          /\ Consumable(x)
          /\ payment' = Recorded(report[h], "paid", x)
          /\ orderStatus' = "paid"
          /\ rows' = Consumed(RowsAfter(x)) /\ renewals' = RenewalsAfter(x)
    BY DEF SettleOrder
<1>0. PICK p \in Payments : p = report[h].payment
    BY ReportRead DEF SettleOrder
<1>2. /\ report[h] # Idle /\ Done(h) /\ UNCHANGED <<charged, incident>>
      /\ credited' = credited \cup {p}
    BY <1>0 DEF SettleOrder
<1>3. /\ payment' \in [Payments -> PaymentRows] /\ InOrder'
      /\ \A q \in Payments : Exists(q) => Exists(q)'
      /\ \A q \in Payments \ {p} : Paid(q)' <=> Paid(q)
    BY <1>0, <1>1, <1>2, MoneyRecorded
<1>4. x # "dropped"
    BY <1>1 DEF Seen
<1>5. /\ orderStatus # "paid" /\ renewals' \in 0..MaxRenewals
      /\ RowsMatch' /\ rows' \in [Lines -> RowStatuses]
    BY <1>1, <1>4, SettledRows
<1>6. TypeOK'
    BY <1>1, <1>2, <1>3, <1>5, Finished DEF IInv, TypeOK, OrderStatuses
<1>7. ReadsAgree'
    BY <1>1, <1>2, <1>3, Finished, ReadsKept DEF IInv
<1>8. Accounted'
    BY <1>1, <1>2, <1>3, <1>5, AccountSettled DEF IInv
<1>9. QED BY <1>3, <1>5, <1>6, <1>7, <1>8 DEF IInv

LEMMA FailStep ==
    ASSUME IInv, NEW h \in Handlers, SettleFails(h) \/ RefuseReport(h)
    PROVE  IInv'
<1>1. Done(h) /\ UNCHANGED <<orderStatus, rows, renewals, payment, charged, credited, incident>>
    BY DEF SettleFails, RefuseReport
<1>2. ReadsAgree'
    BY <1>1, Finished, ReadsKept DEF IInv, Exists
<1>3. QED
    BY <1>1, <1>2, Finished
    DEF IInv, TypeOK, RowsMatch, InOrder, Exists, Accounted, Unclaimed, Paid

\* The invariant is kept by every step.
LEMMA NextIInv == IInv /\ [Next]_vars => IInv'
<1> SUFFICES ASSUME IInv, [Next]_vars PROVE IInv'
    OBVIOUS
<1>1. CASE Customer
    BY <1>1, CreateStep, RetryStep, RecoverStep, ConfirmStep, ChargeStep DEF Customer
<1>2. CASE Provider
    BY <1>2, ReadStep, ReadOrderStep, CloseStep, CreditLateStep, SettleStep, FailStep
    DEF Provider, Credit
<1>3. CASE CancelOrder \/ Expire \/ Lapse
    BY <1>3, CancelStep, ExpireStep, LapseStep
<1>4. CASE UNCHANGED vars
    BY <1>4
    DEF vars, IInv, TypeOK, RowsMatch, ReadsAgree, InOrder, Exists, Accounted, Unclaimed, Paid
<1>5. QED BY <1>1, <1>2, <1>3, <1>4 DEF Next

LEMMA Invariance == Spec => []IInv
BY InitIInv, NextIInv, PTL DEF Spec

-----------------------------------------------------------------------------
(* The theorems *)

\* The variables of OrderPayments keep their types, and the rows are renewed at
\* most MaxRenewals times (expire_active_reservations).
THEOREM TypeCorrect == Spec => []TypeOK
<1>1. IInv => TypeOK
    BY DEF IInv
<1>2. QED BY <1>1, Invariance, PTL

\* The rows follow the order whatever races (apply_order_paid_transition,
\* _expire_reservations_batch): a submitted order holds all of them, and a paid one
\* has consumed all of them, except that a stale report may pay an order with rows of
\* both kinds after its counted rows have expired.
THEOREM StockFollowsOrder == Spec => []RowsFollowOrder
<1>1. IInv => RowsFollowOrder
    <2> SUFFICES ASSUME IInv PROVE RowsFollowOrder
        OBVIOUS
    <2>1. PICK c \in RowStatuses, m \in RowStatuses :
              rows = RowsOf(c, m) /\ Matches(orderStatus, c, m)
        BY DEF IInv, RowsMatch
    <2>2. AllRows(Counted, c) /\ AllRows(Measured, m)
        BY <2>1, PaymentAssumption DEF AllRows, RowsOf, Counted
    <2>3. c = m => AllRows(Lines, c)
        BY <2>1 DEF AllRows, RowsOf
    <2>4. QED BY <2>1, <2>2, <2>3 DEF Matches, RowsFollowOrder
<1>2. QED BY <1>1, Invariance, PTL

\* Money that came in and is not under review (apply_mercadopago_normalized_state)
\* belongs to a paid order, and only one attempt with such money is still recorded
\* paid, however stale a handler's reads are.
THEOREM MoneyIsNeverLost == Spec => []MoneyIsAccounted
<1>1. IInv => MoneyIsAccounted
    BY DEF IInv, Accounted, MoneyIsAccounted
<1>2. QED BY <1>1, Invariance, PTL

\* No two attempts of one method are pending (the guard of create_payment_for_order
\* and the closing of the old attempt by retry_payment_for_order).
THEOREM OnePending == Spec => []OnePendingPerMethod
<1>1. IInv => OnePendingPerMethod
    BY PaymentAssumption DEF IInv, InOrder, OnePendingPerMethod, PendingOf
<1>2. QED BY <1>1, Invariance, PTL


-----------------------------------------------------------------------------
(***************************************************************************)
(* The ledger.  Every step either records no money, or credits one         *)
(* attempt as PaymentLedger allows, or overwrites the record of one.       *)
(***************************************************************************)

\* The steps that neither record money nor overwrite the record of any.
Quiet ==
    /\ \A p \in Payments : Paid(p)' <=> Paid(p)
    /\ UNCHANGED <<credited, incident>>
    /\ orderStatus' = orderStatus \/ (orderStatus = "submitted" /\ orderStatus' = "cancelled")

\* The record of p is written, or p has been credited before.
Credited(p) ==
    /\ credited' = credited \cup {p}
    /\ \A q \in Payments \ {p} : Paid(q)' <=> Paid(q)
    /\ Paid(p)' \/ (p \in credited /\ (Paid(p)' <=> Paid(p)))

\* PaymentLedger makes the step, or nothing of it changes.
Moves == [Ledger!Next]_(Ledger!vars)

LEMMA QuietMoves ==
    ASSUME Quiet PROVE Moves
<1>1. {p \in Payments : Paid(p)}' = {p \in Payments : Paid(p)}
    BY DEF Quiet
<1>2. CASE orderStatus' = orderStatus
    BY <1>1, <1>2 DEF Moves, Ledger!vars, Quiet
<1>3. CASE orderStatus = "submitted" /\ orderStatus' = "cancelled"
    BY <1>1, <1>3 DEF Moves, Ledger!Next, Ledger!Void, Quiet
<1>4. QED BY <1>2, <1>3 DEF Quiet

LEMMA CreditMoves ==
    ASSUME NEW p \in Payments, Credited(p)
    PROVE  Ledger!Credit(p)
<1> DEFINE recorded == {q \in Payments : Paid(q)}
<1>1. recorded' = {q \in Payments : Paid(q)'}
    OBVIOUS
<1>2. CASE Paid(p)'
    <2>1. recorded' = recorded \cup {p}
        BY <1>1, <1>2 DEF Credited
    <2>2. QED BY <2>1 DEF Credited, Ledger!Credit
<1>3. CASE p \in credited /\ (Paid(p)' <=> Paid(p))
    <2>1. recorded' = recorded
        BY <1>1, <1>3 DEF Credited
    <2>2. QED BY <1>3, <2>1 DEF Credited, Ledger!Credit
<1>4. QED BY <1>2, <1>3 DEF Credited

\* A step that touches no attempt, or changes only fields the money does not show in.
LEMMA SameMoney ==
    ASSUME \A p \in Payments : payment'[p].status = "paid" <=> payment[p].status = "paid",
           UNCHANGED <<orderStatus, credited, incident>>
    PROVE  Moves
BY QuietMoves DEF Quiet, Paid

LEMMA CreateMoves ==
    ASSUME IInv, NEW p \in Payments, NEW m \in Methods, CreatePayment(p, m)
    PROVE  Moves
<1>1. PICK checkout \in CheckoutsOf(m) : payment' = [payment EXCEPT ![p] = Attempt(m, checkout)]
    BY DEF CreatePayment
<1>2. /\ payment'[p] = Attempt(m, checkout) /\ ~Exists(p)
      /\ \A q \in Payments \ {p} : payment'[q] = payment[q]
    BY <1>1 DEF IInv, TypeOK, CreatePayment, Fresh
<1>3. \A q \in Payments : payment'[q].status = "paid" <=> payment[q].status = "paid"
    BY <1>2 DEF Attempt, Exists
<1>4. QED BY <1>3, SameMoney DEF CreatePayment

LEMMA RetryMoves ==
    ASSUME IInv, NEW p \in Payments, NEW m \in Methods, RetryPayment(p, m)
    PROVE  Moves
<1>1. PICK checkout \in CheckoutsOf(m), q \in Payments :
          /\ Retryable(q)
          /\ payment' = [payment EXCEPT ![q].status = IF @ = "pending" THEN "cancelled" ELSE @,
                                        ![p] = Attempt(m, checkout)]
    BY DEF RetryPayment
<1>2. payment \in [Payments -> PaymentRows] /\ payment[q] \in PaymentRows
    BY DEF IInv, TypeOK
<1> DEFINE row == [payment[q] EXCEPT !.status =
                      IF payment[q].status = "pending" THEN "cancelled" ELSE payment[q].status]
<1>3. row.status # "paid" /\ payment[q].status # "paid"
    BY <1>1, <1>2 DEF PaymentRows, Retryable, SetupFailed
<1>4. payment' = [[payment EXCEPT ![q] = row] EXCEPT ![p] = Attempt(m, checkout)]
    BY <1>1
<1> HIDE DEF row
<1>5. /\ payment'[p] = Attempt(m, checkout) /\ ~Exists(p)
      /\ \A r \in Payments \ {p} : payment'[r] = IF r = q THEN row ELSE payment[r]
    BY <1>2, <1>4 DEF RetryPayment, Fresh
<1>6. \A r \in Payments : payment'[r].status = "paid" <=> payment[r].status = "paid"
    BY <1>3, <1>5 DEF Attempt, Exists
<1>7. QED BY <1>6, SameMoney DEF RetryPayment

LEMMA RecoverMoves ==
    ASSUME IInv, NEW p \in Payments, RecoverCheckout(p) \/ TimeOut(p)
    PROVE  Moves
<1>1. payment \in [Payments -> PaymentRows] /\ payment[p] \in PaymentRows
    BY DEF IInv, TypeOK
<1>2. payment'[p].status = payment[p].status
    BY <1>1 DEF RecoverCheckout, TimeOut, PaymentRows
<1>3. \A q \in Payments \ {p} : payment'[q] = payment[q]
    BY <1>1 DEF RecoverCheckout, TimeOut
<1>4. QED BY <1>2, <1>3, SameMoney DEF RecoverCheckout, TimeOut

\* Money that finds the order open settles it; if it finds it void, the order has
\* lines of both kinds.
LEMMA SettlingMoves ==
    ASSUME IInv, NEW p \in Payments, Credited(p), orderStatus # "paid",
           orderStatus = "cancelled" => Measured # {} /\ Counted # {},
           orderStatus' = "paid", incident' = incident
    PROVE  Moves
<1>1. Ledger!Credit(p) /\ orderStatus \in OrderStatuses
    BY CreditMoves DEF IInv, TypeOK
<1>2. CASE orderStatus = "submitted"
    <2>1. {q \in Payments : Paid(q)} = {}
        BY <1>2 DEF IInv, Accounted
    <2>2. Ledger!Settle(p)
        BY <1>1, <1>2, <2>1 DEF Ledger!Settle
    <2>3. QED BY <2>2 DEF Moves, Ledger!Next
<1>3. CASE orderStatus = "cancelled"
    <2>1. Ledger!Revive(p)
        BY <1>1, <1>3 DEF Ledger!Revive
    <2>2. QED BY <2>1 DEF Moves, Ledger!Next
<1>4. QED BY <1>1, <1>2, <1>3 DEF OrderStatuses

LEMMA ConfirmMoves ==
    ASSUME IInv, NEW p \in Payments, ConfirmManual(p)
    PROVE  Moves
<1>1. PICK x \in Expirations :
          /\ Payable(x)
          /\ payment' = [payment EXCEPT ![p].status = "paid"]
          /\ orderStatus' = "paid" /\ incident' = incident
          /\ credited' = credited \cup {p}
    BY DEF ConfirmManual
<1>2. payment \in [Payments -> PaymentRows] /\ payment[p] \in PaymentRows
    BY DEF IInv, TypeOK
<1>3. payment'[p].status = "paid" /\ \A q \in Payments \ {p} : payment'[q] = payment[q]
    BY <1>1, <1>2 DEF PaymentRows
<1>4. Credited(p)
    BY <1>1, <1>3 DEF Credited, Paid
<1>5. orderStatus = "submitted"
    BY <1>1, Expiration DEF Payable, OrderAfter, IInv
<1>6. QED BY <1>1, <1>4, <1>5, SettlingMoves

LEMMA ExpireMoves == ASSUME IInv, Expire PROVE Moves
<1>1. PICK x \in Expirations :
          payment' = PaymentsAfter(x) /\ orderStatus' = OrderAfter(x)
          /\ UNCHANGED <<credited, incident>>
    BY DEF Expire
<1>2. \A p \in Payments : Paid(p)' <=> Paid(p)
    BY <1>1, ExpiredAttempts DEF Paid, IInv
<1>3. orderStatus' = orderStatus \/ (orderStatus = "submitted" /\ orderStatus' = "cancelled")
    BY <1>1, Expiration DEF OrderAfter, IInv
<1>4. QED BY <1>1, <1>2, <1>3, QuietMoves DEF Quiet

\* A report that closes the attempt may overwrite the record of its money; then the
\* order is not open and nothing else happens to it.
LEMMA CloseMoves ==
    ASSUME IInv, NEW h \in Handlers, NEW said \in Reports, CloseAttempt(h, said)
    PROVE  Moves
<1>0. PICK p \in Payments : p = report[h].payment
    BY ReportRead DEF CloseAttempt
<1>1. PICK x \in Expirations :
          /\ Allowed(report[h].status, said)
          /\ payment' = Recorded(report[h], said, x)
          /\ orderStatus' = OrderAfter(x)
    BY DEF CloseAttempt
<1>2. report[h] # Idle /\ said # "paid" /\ UNCHANGED <<credited, incident>>
    BY <1>0 DEF CloseAttempt
<1>3. /\ \A q \in Payments \ {p} : Paid(q)' <=> Paid(q)
      /\ Paid(p)' => Paid(p)
    BY <1>0, <1>1, <1>2, Recording DEF Paid
<1>4. orderStatus' = orderStatus \/ (orderStatus = "submitted" /\ orderStatus' = "cancelled")
    BY <1>1, Expiration DEF OrderAfter, IInv
<1>5. CASE Paid(p)' <=> Paid(p)
    BY <1>2, <1>3, <1>4, <1>5, QuietMoves DEF Quiet
<1>6. CASE Paid(p) /\ ~Paid(p)'
    <2>1. p \in credited /\ orderStatus # "submitted"
        BY <1>2, <1>6 DEF IInv, Accounted
    <2>2. orderStatus' = orderStatus
        BY <1>4, <2>1
    <2>3. {q \in Payments : Paid(q)'} = {q \in Payments : Paid(q)} \ {p}
        BY <1>2, <1>3, <1>6
    <2>4. Ledger!Forget(p)
        BY <1>2, <1>6, <2>1, <2>2, <2>3 DEF Ledger!Forget, IInv, TypeOK, OrderStatuses
    <2>5. QED BY <1>2, <2>4 DEF Moves, Ledger!Next
<1>7. QED BY <1>3, <1>5, <1>6

LEMMA CreditLateMoves ==
    ASSUME IInv, NEW h \in Handlers, CreditLate(h)
    PROVE  Moves
<1>1. PICK x \in Expirations :
          /\ Seen(report[h], x) # "submitted"
          /\ payment' = Recorded(report[h], "paid", x)
          /\ incident' = Incidents(report[h], Seen(report[h], x))
          /\ orderStatus' = OrderAfter(x)
    BY DEF CreditLate
<1>0. PICK p \in Payments : p = report[h].payment
    BY ReportRead DEF CreditLate
<1> DEFINE seen == Seen(report[h], x)
           another == \E q \in Payments \ {p} : Paid(q)
<1>2. /\ report[h] # Idle /\ credited' = credited \cup {p} /\ orderStatus \in OrderStatuses
    BY <1>0 DEF CreditLate, IInv, TypeOK
<1>3. Credited(p)
    BY <1>0, <1>1, <1>2, MoneyRecorded DEF Credited
<1>4. Ledger!Credit(p)
    BY <1>2, <1>3, CreditMoves
<1>5. incident' = incident \cup (IF seen = "cancelled" \/ another THEN {p} ELSE {})
    BY <1>0, <1>1 DEF Incidents, Paid
<1>6. /\ seen \in {"paid", "cancelled"} /\ (seen = "paid" => orderStatus = "paid")
      /\ orderStatus = "submitted" <=> x = "dropped"
    BY <1>1, <1>2, SeenIsTrue
<1>7. orderStatus' = IF orderStatus = "submitted" THEN "cancelled" ELSE orderStatus
    BY <1>1, <1>6 DEF OrderAfter
<1>8. CASE seen = "cancelled" \/ another
    <2>1. incident' = incident \cup {p}
        BY <1>5, <1>8
    <2>2. Ledger!CreditLate(p)
        BY <1>2, <1>4, <1>7, <2>1 DEF Ledger!CreditLate, OrderStatuses
    <2>3. QED BY <1>2, <2>2 DEF Moves, Ledger!Next
<1>9. CASE seen = "paid" /\ ~another
    <2>1. orderStatus = "paid" /\ orderStatus' = "paid" /\ incident' = incident
        BY <1>5, <1>6, <1>7, <1>9
    <2>2. {q \in Payments : Paid(q)} \subseteq {p}
        BY <1>9
    <2>3. Ledger!CreditAgain(p)
        BY <1>4, <2>1, <2>2 DEF Ledger!CreditAgain
    <2>4. QED BY <1>2, <2>3 DEF Moves, Ledger!Next
<1>10. QED BY <1>6, <1>8, <1>9

LEMMA SettleMoves ==
    ASSUME IInv, NEW h \in Handlers, SettleOrder(h)
    PROVE  Moves
<1>1. PICK x \in Expirations :
          /\ Seen(report[h], x) = "submitted" /\ Consumable(x)
          /\ payment' = Recorded(report[h], "paid", x)
          /\ orderStatus' = "paid" /\ rows' = Consumed(RowsAfter(x))
          /\ renewals' = RenewalsAfter(x)
    BY DEF SettleOrder
<1>0. PICK p \in Payments : p = report[h].payment
    BY ReportRead DEF SettleOrder
<1>2. /\ report[h] # Idle /\ incident' = incident
      /\ credited' = credited \cup {p}
    BY <1>0 DEF SettleOrder
<1>3. Credited(p)
    BY <1>0, <1>1, <1>2, MoneyRecorded DEF Credited
<1>4. x # "dropped"
    BY <1>1 DEF Seen
<1>5. orderStatus # "paid" /\ (orderStatus = "cancelled" => Measured # {} /\ Counted # {})
    BY <1>1, <1>4, SettledRows
<1>6. QED BY <1>1, <1>2, <1>3, <1>5, SettlingMoves

LEMMA LedgerStarts == Init => Ledger!Init
<1>1. Init => {p \in Payments : Paid(p)} = {}
    BY DEF Init, Paid, NoPayment
<1>2. QED BY <1>1 DEF Init, Ledger!Init

LEMMA LedgerMoves == IInv /\ [Next]_vars => [Ledger!Next]_(Ledger!vars)
<1> SUFFICES ASSUME IInv, [Next]_vars PROVE Moves
    BY DEF Moves
<1>1. CASE Customer
    <2>1. ASSUME NEW p \in Payments, Charge(p) PROVE Moves
        BY <2>1, SameMoney DEF Charge
    <2>2. QED
        BY <1>1, <2>1, CreateMoves, RetryMoves, RecoverMoves, ConfirmMoves DEF Customer
<1>2. CASE Provider
    <2>1. ASSUME NEW h \in Handlers, NEW p \in Payments, NEW source \in Sources,
                 ReadAttempt(h, p, source)
          PROVE  Moves
        BY <2>1, SameMoney DEF ReadAttempt
    <2>2. ASSUME NEW h \in Handlers, ReadOrder(h) \/ SettleFails(h) \/ RefuseReport(h)
          PROVE  Moves
        BY <2>2, SameMoney DEF ReadOrder, SettleFails, RefuseReport
    <2>3. QED
        BY <1>2, <2>1, <2>2, CloseMoves, CreditLateMoves, SettleMoves DEF Provider, Credit
<1>3. CASE CancelOrder
    BY <1>3, QuietMoves DEF CancelOrder, Quiet, Paid
<1>4. CASE Lapse \/ UNCHANGED vars
    BY <1>4, SameMoney DEF Lapse, vars
<1>5. CASE Expire
    BY <1>5, ExpireMoves
<1>6. QED BY <1>1, <1>2, <1>3, <1>4, <1>5 DEF Next

\* The payments of an order keep the promise of PaymentLedger, with any number of
\* handlers and reads as old as they may be: money settles the order once, is claimed
\* in the step that credits it when it comes late, and is credited without a claim
\* again only for the attempt recorded or after a record was overwritten.
THEOREM LedgerKept == Spec => ImplementsLedger
BY LedgerStarts, LedgerMoves, Invariance, PTL DEF Spec, ImplementsLedger, Ledger!Spec
=============================================================================
