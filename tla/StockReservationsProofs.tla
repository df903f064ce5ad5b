---------------------- MODULE StockReservationsProofs ----------------------
(***************************************************************************)
(* Proofs about StockReservations, for any set of orders and variants, any *)
(* baskets and stock levels, and any batch size.                           *)
(***************************************************************************)
EXTENDS MCStockReservations, FiniteSetTheorems, TLAPS

(***************************************************************************)
(* What an expiration returns.                                             *)
(***************************************************************************)

\* Only a row that the policy lets renew is brought back, so no row exceeds it.
LEMMA RenewedMayRenew ==
    ASSUME NEW rows, NEW renewed \in Renewals(rows)
    PROVE  /\ renewed \subseteq Due(rows)
           /\ \A o \in renewed : MayRenew(o, rows)
BY DEF Renewals

\* An expiration leaves rows of the right type.
LEMMA ExpiredRowType ==
    ASSUME TypeOK, NEW rows, NEW renewed, NEW o \in Orders, NEW v \in Variants,
           o \in renewed /\ <<o, v>> \in rows => MayRenew(o, rows)
    PROVE  ExpiredRow(o, v, rows, renewed) \in Rows
<1>0. reservation[o][v] \in Rows
  BY DEF TypeOK
<1>1. CASE <<o, v>> \notin rows
  BY <1>0, <1>1 DEF ExpiredRow
<1>2. CASE <<o, v>> \in rows /\ o \in renewed
  <2>1. reservation[o][v].renewals < MaxReactivations
    BY <1>2 DEF MayRenew
  <2>2. reservation[o][v].renewals + 1 \in 0..MaxReactivations
    BY <1>0, <2>1, ReservationAssumption DEF Rows
  <2>3. QED
    BY <1>2, <2>2, ReservationAssumption DEF ExpiredRow, Rows, RowStatuses
<1>3. CASE <<o, v>> \in rows /\ o \notin renewed
  BY <1>0, <1>3 DEF ExpiredRow, Closed, Rows, RowStatuses
<1>4. QED
  BY <1>1, <1>2, <1>3

\* Nor does closing a row change its type.
LEMMA ClosedRowType ==
    ASSUME TypeOK, NEW rows, NEW renewed, NEW o \in Orders, NEW v \in Variants,
           NEW status \in RowStatuses,
           o \in renewed /\ <<o, v>> \in rows => MayRenew(o, rows)
    PROVE  ClosedRow(o, v, rows, renewed, status) \in Rows
<1>1. ExpiredRow(o, v, rows, renewed) \in Rows
  BY ExpiredRowType
<1>2. QED
  BY <1>1 DEF ClosedRow, Closed, Rows

\* An expiration preserves the types.
LEMMA ExpireType ==
    ASSUME TypeOK, NEW rows, Expire(rows)
    PROVE  TypeOK'
<1>1. PICK renewed \in Renewals(rows) :
        /\ orderStatus' = ExpiredStatus(rows, renewed)
        /\ reservation' = [o \in Orders |-> [v \in Variants |-> ExpiredRow(o, v, rows, renewed)]]
        /\ UNCHANGED <<items, stock, listed, submission>>
  BY DEF Expire
<1>2. orderStatus' \in [Orders -> OrderStatuses]
  BY <1>1 DEF TypeOK, ExpiredStatus, OrderStatuses
<1>3. reservation' \in [Orders -> [Variants -> Rows]]
  BY <1>1, ExpiredRowType, RenewedMayRenew
<1>4. QED
  BY <1>1, <1>2, <1>3 DEF TypeOK

(***************************************************************************)
(* Types.                                                                  *)
(***************************************************************************)

LEMMA InitType == Init => TypeOK
<1> SUFFICES ASSUME Init PROVE TypeOK
  OBVIOUS
<1>1. NoRow \in Rows
  BY ReservationAssumption DEF NoRow, Rows, RowStatuses
<1>2. stock \in [Variants -> Nat]
  BY ReservationAssumption DEF Init
<1>3. QED
  BY <1>1, <1>2 DEF Init, TypeOK, OrderStatuses, Submissions

LEMMA NextType == TypeOK /\ [Next]_vars => TypeOK'
<1> SUFFICES ASSUME TypeOK, [Next]_vars PROVE TypeOK'
  OBVIOUS
<1>1. ASSUME NEW o \in Orders, NEW b \in Baskets, EditDraft(o, b) PROVE TypeOK'
  BY <1>1, ReservationAssumption DEF TypeOK, EditDraft, OrderStatuses
<1>2. ASSUME NEW o \in Orders, NEW b \in Baskets, NEW byAdmin \in BOOLEAN,
             BeginSubmit(o, b, byAdmin)
      PROVE  TypeOK'
  <2>1. [step |-> "read", basket |-> b, stock |-> stock, listed |-> listed] \in Submissions
    BY ReservationAssumption DEF TypeOK, Submissions
  <2>2. QED
    BY <1>2, <2>1 DEF TypeOK, BeginSubmit
<1>3. ASSUME NEW o \in Orders, SubmitReserves(o) PROVE TypeOK'
  <2>1. submission[o].basket \in [Variants -> Nat]
    BY <1>3 DEF TypeOK, SubmitReserves, Submissions
  <2>2. \A v \in Variants : FreshRow(v) \in Rows /\ NoRow \in Rows
    BY ReservationAssumption DEF FreshRow, NoRow, Rows, RowStatuses
  <2>3. reservation' \in [Orders -> [Variants -> Rows]]
    BY <1>3, <2>2 DEF TypeOK, SubmitReserves
  <2>4. QED
    BY <1>3, <2>1, <2>3 DEF TypeOK, SubmitReserves, OrderStatuses, Submissions
<1>4. ASSUME NEW o \in Orders, SubmitRejected(o) PROVE TypeOK'
  BY <1>4 DEF TypeOK, SubmitRejected, Submissions
<1>5. ASSUME NEW o \in Orders, PayOrder(o) PROVE TypeOK'
  <2>1. PICK renewed \in Renewals(LapsedRowsOf(o)) :
          /\ \A v \in Counted : Active(o, v) => stock[v] >= items[o][v]
          /\ stock' = Debited(o)
          /\ reservation' = [reservation EXCEPT ![o] =
                [v \in Variants |-> ClosedRow(o, v, LapsedRowsOf(o), renewed, "consumed")]]
    BY <1>5 DEF PayOrder
  <2>2. \A v \in Variants : ClosedRow(o, v, LapsedRowsOf(o), renewed, "consumed") \in Rows
    BY ClosedRowType, RenewedMayRenew DEF RowStatuses
  <2>3. reservation' \in [Orders -> [Variants -> Rows]]
    BY <2>1, <2>2 DEF TypeOK
  <2>4. stock' \in [Variants -> Nat]
    BY <2>1 DEF TypeOK, Debited
  <2>5. QED
    BY <1>5, <2>3, <2>4 DEF TypeOK, PayOrder, OrderStatuses
<1>5a. ASSUME NEW o \in Orders, PayLate(o) PROVE TypeOK'
  <2>1. /\ \A v \in Counted : Active(o, v) => stock[v] >= items[o][v]
        /\ stock' = Debited(o)
        /\ reservation' = [reservation EXCEPT ![o] =
              [v \in Variants |-> ClosedRow(o, v, LapsedRowsOf(o), {o}, "consumed")]]
    BY <1>5a DEF PayLate
  <2>2. \A v \in Variants : ClosedRow(o, v, LapsedRowsOf(o), {o}, "consumed") \in Rows
    <3>1. \A v \in Variants : <<o, v>> \in LapsedRowsOf(o) => MayRenew(o, LapsedRowsOf(o))
      BY <1>5a DEF PayLate
    <3>2. QED
      BY <3>1, ClosedRowType DEF RowStatuses
  <2>3. reservation' \in [Orders -> [Variants -> Rows]]
    BY <2>1, <2>2 DEF TypeOK
  <2>4. stock' \in [Variants -> Nat]
    BY <2>1 DEF TypeOK, Debited
  <2>5. QED
    BY <1>5a, <2>3, <2>4 DEF TypeOK, PayLate, OrderStatuses
<1>6. ASSUME NEW o \in Orders, CancelOrder(o) PROVE TypeOK'
  <2>1. PICK renewed \in Renewals(LapsedRowsOf(o)) :
          reservation' = [reservation EXCEPT ![o] =
            [v \in Variants |->
                IF LapsedRowsOf(o) = {} \/ o \in renewed
                THEN ClosedRow(o, v, LapsedRowsOf(o), renewed, "released")
                ELSE ExpiredRow(o, v, LapsedRowsOf(o), renewed)]]
    BY <1>6 DEF CancelOrder
  <2>2. \A v \in Variants :
          /\ ClosedRow(o, v, LapsedRowsOf(o), renewed, "released") \in Rows
          /\ ExpiredRow(o, v, LapsedRowsOf(o), renewed) \in Rows
    BY ClosedRowType, ExpiredRowType, RenewedMayRenew DEF RowStatuses
  <2>3. reservation' \in [Orders -> [Variants -> Rows]]
    BY <2>1, <2>2 DEF TypeOK
  <2>4. QED
    BY <1>6, <2>3 DEF TypeOK, CancelOrder, OrderStatuses
<1>7. ASSUME NEW o \in Orders, ShowOrder(o) PROVE TypeOK'
  BY <1>7, ExpireType DEF ShowOrder
<1>8. ASSUME NEW v \in Variants, NEW n \in StockLevels, SetStock(v, n) PROVE TypeOK'
  BY <1>8, ReservationAssumption DEF TypeOK, SetStock
<1>9. ASSUME NEW v \in Variants, NEW on \in BOOLEAN, SetListed(v, on) PROVE TypeOK'
  BY <1>9 DEF TypeOK, SetListed
<1>10. CASE Sweep
  BY <1>10, ExpireType DEF Sweep
<1>11. CASE Tick
  <2>1. ASSUME NEW o \in Orders, NEW v \in Variants, Running(o, v)
        PROVE  [reservation[o][v] EXCEPT !.left = @ - 1] \in Rows
    <3>1. reservation[o][v] \in Rows /\ reservation[o][v].left # 0
      BY <2>1 DEF TypeOK, Running, Live, Lapsed
    <3>2. QED
      BY <3>1 DEF Rows
  <2>2. reservation' \in [Orders -> [Variants -> Rows]]
    BY <1>11, <2>1 DEF TypeOK, Tick
  <2>3. QED
    BY <1>11, <2>2 DEF TypeOK, Tick
<1>12. CASE UNCHANGED vars
  BY <1>12 DEF TypeOK, vars
<1>13. QED
  BY <1>1, <1>2, <1>3, <1>4, <1>5, <1>5a, <1>6, <1>7, <1>8, <1>9, <1>10, <1>11, <1>12
     DEF Next, Shopping, Catalogue

\* Every variable keeps its type: no row is renewed more often than the policy
\* allows, and no interleaving of payments and stock changes drives the physical
\* stock below zero.
THEOREM TypeCorrect == Spec => []TypeOK
<1>1. Init => TypeOK
  BY InitType
<1>2. TypeOK /\ [Next]_vars => TypeOK'
  BY NextType
<1>3. QED
  BY <1>1, <1>2, PTL DEF Spec

(***************************************************************************)
(* Orders and their rows agree.                                            *)
(***************************************************************************)

\* Backed is inductive once submissions are known to be of open orders.
IInv == TypeOK /\ SubmissionIsOpen /\ Backed

\* The definitions Backed is made of.
USE DEF AllRows, SomeRow

LEMMA InitIInv == Init => IInv
<1> SUFFICES ASSUME Init PROVE IInv
  OBVIOUS
<1>1. TypeOK
  BY InitType
<1>2. SubmissionIsOpen
  BY DEF Init, SubmissionIsOpen
<1>3. Backed
  BY DEF Init, Backed, RowsAgree, NoRow
<1>4. QED
  BY <1>1, <1>2, <1>3 DEF IInv

\* What the statuses of an order and of its rows say of one line.
LEMMA RowStatusOfOrder ==
    ASSUME IInv, NEW o \in Orders, NEW v \in Variants
    PROVE  /\ orderStatus[o] = "submitted" =>
                reservation[o][v].status = IF items[o][v] > 0 THEN "active" ELSE "none"
           /\ Active(o, v) => v \in Lines(o) /\ orderStatus[o] \in {"submitted", "cancelled"}
           /\ orderStatus[o] \in {"none", "draft"} => reservation[o][v].status = "none"
<1>1. RowsAgree(o) /\ orderStatus[o] \in OrderStatuses
  BY DEF IInv, TypeOK, Backed
<1>2. v \in Lines(o) <=> items[o][v] > 0
  BY DEF Lines
<1>3. QED
  BY <1>1, <1>2 DEF RowsAgree, Active, OrderStatuses

\* An order whose rows and status a step leaves alone still agrees with them.
LEMMA AgreementKept ==
    ASSUME NEW o \in Orders, RowsAgree(o),
           \A v \in Variants : reservation'[o][v].status = reservation[o][v].status,
           orderStatus'[o] = orderStatus[o], items'[o] = items[o]
    PROVE  RowsAgree(o)'
<1>1. Lines(o)' = Lines(o)
  BY DEF Lines
<1>2. \A v \in Lines(o) : v \in Variants
  BY DEF Lines
<1>3. QED
  BY <1>1, <1>2 DEF RowsAgree, Counted

\* How a cancelled order comes to agree with its rows.
LEMMA CancelledAgrees ==
    ASSUME NEW o \in Orders, orderStatus'[o] = "cancelled", Lines(o)' = Lines(o),
           \A v \in Variants :
              /\ reservation'[o][v].status # "none" <=> v \in Lines(o)
              /\ reservation'[o][v].status = "expired" => v \in Counted,
           \/ AllRows(o, {"released"})'
           \/ SomeRow(o, "expired")' /\ AllRows(o, {"active", "expired"})'
    PROVE  RowsAgree(o)'
BY DEF RowsAgree, Counted

\* An expiration of lapsed rows keeps orders and rows in agreement: an order is
\* renewed and keeps all its rows, or loses those that had lapsed, and is cancelled.
LEMMA ExpireBacked ==
    ASSUME IInv, NEW rows \in SUBSET LapsedRows, Expire(rows)
    PROVE  Backed' /\ SubmissionIsOpen'
<1>1. PICK renewed \in Renewals(rows) :
        /\ orderStatus' = ExpiredStatus(rows, renewed)
        /\ reservation' = [o \in Orders |-> [v \in Variants |-> ExpiredRow(o, v, rows, renewed)]]
        /\ UNCHANGED <<items, stock, listed, submission>>
  BY DEF Expire
<1>2. renewed \subseteq Due(rows)
  BY RenewedMayRenew
<1>3. ASSUME NEW o \in Orders PROVE RowsAgree(o)'
  <2> DEFINE st(v) == reservation[o][v].status
  <2>1. RowsAgree(o) /\ Lines(o)' = Lines(o) /\ Lines(o) \subseteq Variants
    BY <1>1 DEF IInv, Backed, Lines
  <2>2. \A v \in Variants :
          reservation'[o][v].status =
              IF <<o, v>> \notin rows THEN st(v) ELSE IF o \in renewed THEN "active" ELSE "expired"
    BY <1>1 DEF ExpiredRow, Closed
  <2>3. orderStatus'[o] = IF o \in Due(rows) \ renewed THEN "cancelled" ELSE orderStatus[o]
    BY <1>1 DEF ExpiredStatus
  <2>4. \A v \in Variants : <<o, v>> \in rows => Active(o, v) /\ v \in Counted
    BY DEF LapsedRows, Lapsed, Counted
  <2>5. \A v \in Variants :
          <<o, v>> \in rows =>
              st(v) = "active" /\ v \in Lines(o) /\ orderStatus[o] \in {"submitted", "cancelled"}
    BY <2>4, RowStatusOfOrder DEF Active
  <2>6. o \in Due(rows) <=> orderStatus[o] = "submitted" /\ \E v \in Variants : <<o, v>> \in rows
    BY DEF Due
  <2>7. CASE o \in renewed \/ \A v \in Variants : <<o, v>> \notin rows
    <3>1. \A v \in Variants : reservation'[o][v].status = st(v)
      BY <2>2, <2>5, <2>7
    <3>2. orderStatus'[o] = orderStatus[o] /\ items'[o] = items[o]
      BY <1>1, <2>3, <2>6, <2>7
    <3>3. QED
      BY <2>1, <3>1, <3>2, AgreementKept
  <2>8. CASE o \notin renewed /\ \E v \in Variants : <<o, v>> \in rows
    <3>1. orderStatus'[o] = "cancelled"
      BY <2>3, <2>5, <2>6, <2>8
    <3>2. \A v \in Lines(o) : st(v) \in {"active", "expired"}
      BY <2>1, <2>5, <2>8 DEF RowsAgree
    <3>3. SomeRow(o, "expired")' /\ AllRows(o, {"active", "expired"})'
      BY <2>1, <2>2, <2>5, <2>8, <3>2
    <3>4. \A v \in Variants :
            /\ reservation'[o][v].status # "none" <=> v \in Lines(o)
            /\ reservation'[o][v].status = "expired" => v \in Counted
      BY <2>1, <2>2, <2>4, <2>5, <2>8 DEF RowsAgree
    <3>5. QED
      BY <2>1, <3>1, <3>3, <3>4 DEF RowsAgree, Counted
  <2>9. QED
    BY <2>7, <2>8
<1>4. Backed'
  BY <1>3 DEF Backed
<1>5. SubmissionIsOpen'
  BY <1>1 DEF IInv, SubmissionIsOpen, ExpiredStatus, Due
<1>6. QED
  BY <1>4, <1>5

\* Closing the active rows of an order, the lapsed ones having been renewed first.
LEMMA ClosedRowStatus ==
    ASSUME NEW o \in Orders, NEW v \in Variants, NEW renewed, NEW status,
           LapsedRowsOf(o) = {} \/ o \in renewed
    PROVE  ClosedRow(o, v, LapsedRowsOf(o), renewed, status).status =
               IF Active(o, v) THEN status ELSE reservation[o][v].status
<1>1. <<o, v>> \in LapsedRowsOf(o) => Active(o, v) /\ o \in renewed
  BY DEF LapsedRowsOf, LapsedRows, Lapsed
<1>2. ExpiredRow(o, v, LapsedRowsOf(o), renewed).status = reservation[o][v].status
  BY <1>1 DEF ExpiredRow, Active
<1>3. QED
  BY <1>2 DEF ClosedRow, Closed, Active

\* A payment closes the active rows of its order, and touches nothing else of them.
LEMMA PaymentCloses ==
    ASSUME IInv, NEW o \in Orders, PayOrder(o) \/ PayLate(o)
    PROVE  /\ \A v \in Variants :
                 reservation'[o][v].status =
                     IF Active(o, v) THEN "consumed" ELSE reservation[o][v].status
           /\ \A p \in Orders \ {o} :
                 reservation'[p] = reservation[p] /\ orderStatus'[p] = orderStatus[p]
           /\ orderStatus[o] \in {"submitted", "cancelled"} /\ orderStatus'[o] = "paid"
           /\ items' = items /\ submission' = submission /\ stock' = Debited(o)
           /\ \A v \in Counted : Active(o, v) => stock[v] >= items[o][v]
           /\ \E v \in Variants : Active(o, v)
<1>0. TypeOK /\ RowsAgree(o)
  BY DEF IInv, Backed
<1>1. PICK renewed :
        /\ LapsedRowsOf(o) = {} \/ o \in renewed
        /\ reservation' = [reservation EXCEPT ![o] =
              [v \in Variants |-> ClosedRow(o, v, LapsedRowsOf(o), renewed, "consumed")]]
  <2>1. CASE PayOrder(o)
    BY <2>1 DEF PayOrder
  <2>2. CASE PayLate(o)
    <3>1. o \in {o}
      OBVIOUS
    <3>2. QED
      BY <2>2, <3>1 DEF PayLate
  <2>3. QED
    BY <2>1, <2>2
<1>2. \A v \in Variants :
        reservation'[o][v] = ClosedRow(o, v, LapsedRowsOf(o), renewed, "consumed")
  BY <1>0, <1>1 DEF TypeOK
<1>3. \A v \in Variants :
        reservation'[o][v].status = IF Active(o, v) THEN "consumed" ELSE reservation[o][v].status
  BY <1>1, <1>2, ClosedRowStatus
<1>4. \A p \in Orders \ {o} : reservation'[p] = reservation[p] /\ orderStatus'[p] = orderStatus[p]
  BY <1>0, <1>1 DEF TypeOK, PayOrder, PayLate
<1>5. /\ orderStatus[o] \in {"submitted", "cancelled"} /\ orderStatus'[o] = "paid"
      /\ items' = items /\ submission' = submission /\ stock' = Debited(o)
      /\ \A v \in Counted : Active(o, v) => stock[v] >= items[o][v]
  BY <1>0 DEF TypeOK, PayOrder, PayLate
<1>6. \E v \in Variants : Active(o, v)
  BY <1>0 DEF PayOrder, PayLate, RowsAgree, Active, Lines
<1>7. QED
  BY <1>3, <1>4, <1>5, <1>6

LEMMA NextBacked == IInv /\ [Next]_vars => IInv'
<1> SUFFICES ASSUME IInv, [Next]_vars PROVE Backed' /\ SubmissionIsOpen'
  BY NextType DEF IInv
<1>0. TypeOK /\ SubmissionIsOpen /\ Backed
  BY DEF IInv
<1>a. ASSUME NEW o \in Orders, RowsAgree(o)',
             \A p \in Orders \ {o} : /\ reservation'[p] = reservation[p]
                                     /\ orderStatus'[p] = orderStatus[p] /\ items'[p] = items[p]
      PROVE  Backed'
  <2>1. \A p \in Orders \ {o} : RowsAgree(p)'
    BY <1>0, <1>a, AgreementKept DEF Backed
  <2>2. QED
    BY <1>a, <2>1 DEF Backed
<1>b. ASSUME UNCHANGED <<orderStatus, items>>,
             \A o \in Orders, v \in Variants : reservation'[o][v].status = reservation[o][v].status
      PROVE  Backed'
  BY <1>0, <1>b, AgreementKept DEF Backed
<1>1. ASSUME NEW o \in Orders, NEW b \in Baskets, EditDraft(o, b)
      PROVE  Backed' /\ SubmissionIsOpen'
  <2>1. /\ orderStatus[o] \in {"none", "draft"} /\ orderStatus'[o] = "draft"
        /\ reservation' = reservation
        /\ \A p \in Orders \ {o} : orderStatus'[p] = orderStatus[p] /\ items'[p] = items[p]
    BY <1>0, <1>1 DEF TypeOK, EditDraft
  <2>2. \A v \in Variants : reservation'[o][v].status = "none"
    BY <2>1, RowStatusOfOrder
  <2>3. RowsAgree(o)'
    BY <2>1, <2>2 DEF RowsAgree
  <2>4. Backed'
    BY <1>a, <2>1, <2>3
  <2>5. SubmissionIsOpen'
    BY <1>0, <1>1 DEF TypeOK, SubmissionIsOpen, EditDraft, Unlocked
  <2>6. QED
    BY <2>4, <2>5
<1>2. ASSUME NEW o \in Orders, NEW b \in Baskets, NEW byAdmin \in BOOLEAN,
             BeginSubmit(o, b, byAdmin)
      PROVE  Backed' /\ SubmissionIsOpen'
  <2>1. Backed'
    BY <1>b, <1>2 DEF BeginSubmit
  <2>2. SubmissionIsOpen'
    BY <1>0, <1>2 DEF TypeOK, SubmissionIsOpen, BeginSubmit
  <2>3. QED
    BY <2>1, <2>2
<1>3. ASSUME NEW o \in Orders, SubmitReserves(o)
      PROVE  Backed' /\ SubmissionIsOpen'
  <2>1. /\ orderStatus'[o] = "submitted" /\ items'[o] = submission[o].basket
        /\ \A v \in Variants :
              reservation'[o][v] = IF submission[o].basket[v] > 0 THEN FreshRow(v) ELSE NoRow
        /\ \A p \in Orders \ {o} : /\ reservation'[p] = reservation[p]
                                   /\ orderStatus'[p] = orderStatus[p] /\ items'[p] = items[p]
    BY <1>0, <1>3 DEF TypeOK, SubmitReserves
  <2>2. \A v \in Variants :
          /\ v \in Lines(o)' <=> submission[o].basket[v] > 0
          /\ reservation'[o][v].status = IF v \in Lines(o)' THEN "active" ELSE "none"
    <3>1. \A v \in Variants : v \in Lines(o)' <=> submission[o].basket[v] > 0
      BY <2>1 DEF Lines
    <3>2. \A v \in Variants : FreshRow(v).status = "active" /\ NoRow.status = "none"
      BY DEF FreshRow, NoRow
    <3>3. QED
      BY <2>1, <3>1, <3>2
  <2>3. \E v \in Variants : v \in Lines(o)'
    BY <1>0, <1>3, <2>2 DEF SubmissionIsOpen, SubmitReserves
  <2>4. \A v \in Lines(o)' : v \in Variants
    BY DEF Lines
  <2>5. RowsAgree(o)'
    BY <2>1, <2>2, <2>3, <2>4 DEF RowsAgree
  <2>6. Backed'
    BY <1>a, <2>1, <2>5
  <2>7. SubmissionIsOpen'
    BY <1>0, <1>3 DEF TypeOK, SubmissionIsOpen, SubmitReserves
  <2>8. QED
    BY <2>6, <2>7
<1>4. ASSUME NEW o \in Orders, SubmitRejected(o)
      PROVE  Backed' /\ SubmissionIsOpen'
  <2>1. Backed'
    BY <1>b, <1>4 DEF SubmitRejected
  <2>2. SubmissionIsOpen'
    BY <1>0, <1>4 DEF TypeOK, SubmissionIsOpen, SubmitRejected
  <2>3. QED
    BY <2>1, <2>2
<1>5. ASSUME NEW o \in Orders, PayOrder(o) \/ PayLate(o)
      PROVE  Backed' /\ SubmissionIsOpen'
  <2>1. /\ \A v \in Variants :
              reservation'[o][v].status =
                  IF Active(o, v) THEN "consumed" ELSE reservation[o][v].status
        /\ \A p \in Orders \ {o} :
              reservation'[p] = reservation[p] /\ orderStatus'[p] = orderStatus[p]
        /\ orderStatus[o] \in {"submitted", "cancelled"} /\ orderStatus'[o] = "paid"
        /\ items' = items /\ submission' = submission
        /\ \E v \in Variants : Active(o, v)
    BY <1>5, PaymentCloses
  <2>2. RowsAgree(o) /\ Lines(o)' = Lines(o) /\ Lines(o) \subseteq Variants
    BY <1>0, <2>1 DEF Backed, Lines
  <2>3. \A v \in Variants : Active(o, v) => v \in Lines(o)
    BY RowStatusOfOrder
  <2>4. SomeRow(o, "consumed")' /\ AllRows(o, {"consumed", "expired"})'
    BY <2>1, <2>2, <2>3 DEF RowsAgree, Active
  <2>5. RowsAgree(o)'
    BY <2>1, <2>2, <2>3, <2>4 DEF RowsAgree, Active, Counted
  <2>6. Backed'
    BY <1>a, <2>1, <2>5
  <2>7. SubmissionIsOpen'
    BY <1>0, <2>1 DEF SubmissionIsOpen
  <2>8. QED
    BY <2>6, <2>7
<1>6. ASSUME NEW o \in Orders, CancelOrder(o)
      PROVE  Backed' /\ SubmissionIsOpen'
  <2>1. PICK renewed \in Renewals(LapsedRowsOf(o)) :
          reservation' = [reservation EXCEPT ![o] =
            [v \in Variants |->
                IF LapsedRowsOf(o) = {} \/ o \in renewed
                THEN ClosedRow(o, v, LapsedRowsOf(o), renewed, "released")
                ELSE ExpiredRow(o, v, LapsedRowsOf(o), renewed)]]
    BY <1>6 DEF CancelOrder
  <2>2. /\ \A p \in Orders \ {o} : reservation'[p] = reservation[p] /\ orderStatus'[p] = orderStatus[p]
        /\ orderStatus[o] = "submitted" /\ orderStatus'[o] = "cancelled"
        /\ items' = items /\ submission' = submission
    BY <1>0, <1>6, <2>1 DEF TypeOK, CancelOrder
  <2>3. RowsAgree(o) /\ Lines(o)' = Lines(o) /\ Lines(o) \subseteq Variants
    BY <1>0, <2>2 DEF Backed, Lines
  <2>4. \A v \in Variants :
          /\ reservation[o][v].status = IF v \in Lines(o) THEN "active" ELSE "none"
          /\ Active(o, v) <=> v \in Lines(o)
    BY <2>2, RowStatusOfOrder DEF Lines, Active
  <2>5. ASSUME LapsedRowsOf(o) = {} \/ o \in renewed PROVE Backed'
    <3>1. \A v \in Variants :
            reservation'[o][v] = ClosedRow(o, v, LapsedRowsOf(o), renewed, "released")
      BY <1>0, <2>1, <2>5 DEF TypeOK
    <3>2. \A v \in Variants :
            reservation'[o][v].status = IF v \in Lines(o) THEN "released" ELSE "none"
      BY <2>4, <2>5, <3>1, ClosedRowStatus
    <3>3. RowsAgree(o)'
      <4>1. AllRows(o, {"released"})'
        BY <2>3, <3>2
      <4>2. \A v \in Variants : /\ reservation'[o][v].status # "none" <=> v \in Lines(o)
                                /\ reservation'[o][v].status # "expired"
        BY <3>2
      <4>3. QED
        BY <2>2, <2>3, <4>1, <4>2, CancelledAgrees
    <3>4. QED
      BY <1>a, <2>2, <3>3
  <2>6. ASSUME LapsedRowsOf(o) # {}, o \notin renewed PROVE Backed'
    <3>1. \A v \in Variants : <<o, v>> \in LapsedRowsOf(o) => Active(o, v) /\ v \in Counted
      BY DEF LapsedRowsOf, LapsedRows, Lapsed, Counted
    <3>2. PICK w \in Variants : <<o, w>> \in LapsedRowsOf(o)
      BY <2>6 DEF LapsedRowsOf, LapsedRows
    <3>3. \A v \in Variants :
            reservation'[o][v].status =
                IF <<o, v>> \in LapsedRowsOf(o) THEN "expired" ELSE reservation[o][v].status
      <4>1. \A v \in Variants :
              reservation'[o][v] = ExpiredRow(o, v, LapsedRowsOf(o), renewed)
        BY <1>0, <2>1, <2>6 DEF TypeOK
      <4>2. \A v \in Variants :
              ExpiredRow(o, v, LapsedRowsOf(o), renewed).status =
                  IF <<o, v>> \in LapsedRowsOf(o) THEN "expired" ELSE reservation[o][v].status
        <5> DEFINE rows == LapsedRowsOf(o)
        <5> HIDE DEF rows
        <5>1. \A v \in Variants :
                ExpiredRow(o, v, rows, renewed).status =
                    IF <<o, v>> \in rows THEN "expired" ELSE reservation[o][v].status
          BY <2>6 DEF ExpiredRow, Closed
        <5>2. QED
          BY <5>1 DEF rows
      <4>3. QED
        BY <4>1, <4>2
    <3>4. SomeRow(o, "expired")' /\ AllRows(o, {"active", "expired"})'
      BY <2>3, <2>4, <3>1, <3>2, <3>3
    <3>5. \A v \in Variants :
            /\ reservation'[o][v].status # "none" <=> v \in Lines(o)
            /\ reservation'[o][v].status = "expired" => v \in Counted
      BY <2>4, <3>1, <3>3
    <3>6. RowsAgree(o)'
      BY <2>2, <2>3, <3>4, <3>5, CancelledAgrees
    <3>7. QED
      BY <1>a, <2>2, <3>6
  <2>7. SubmissionIsOpen'
    BY <1>0, <2>2 DEF SubmissionIsOpen
  <2>8. QED
    BY <2>5, <2>6, <2>7
<1>7. ASSUME NEW o \in Orders, ShowOrder(o)
      PROVE  Backed' /\ SubmissionIsOpen'
  BY <1>7, ExpireBacked DEF ShowOrder, LapsedRowsOf
<1>8. ASSUME NEW v \in Variants, NEW n \in StockLevels, SetStock(v, n)
      PROVE  Backed' /\ SubmissionIsOpen'
  BY <1>0, <1>b, <1>8 DEF SubmissionIsOpen, SetStock
<1>9. ASSUME NEW v \in Variants, NEW on \in BOOLEAN, SetListed(v, on)
      PROVE  Backed' /\ SubmissionIsOpen'
  BY <1>0, <1>b, <1>9 DEF SubmissionIsOpen, SetListed
<1>10. CASE Sweep
  BY <1>10, ExpireBacked DEF Sweep, Batch
<1>11. CASE Tick
  <2>1. \A o \in Orders, v \in Variants : reservation'[o][v].status = reservation[o][v].status
    BY <1>0, <1>11 DEF TypeOK, Tick, Rows
  <2>2. UNCHANGED <<orderStatus, items, submission>>
    BY <1>11 DEF Tick
  <2>3. QED
    BY <1>0, <1>b, <2>1, <2>2 DEF SubmissionIsOpen
<1>12. CASE UNCHANGED vars
  BY <1>0, <1>b, <1>12 DEF SubmissionIsOpen, vars
<1>13. QED
  BY <1>1, <1>2, <1>3, <1>4, <1>5, <1>6, <1>7, <1>8, <1>9, <1>10, <1>11, <1>12
     DEF Next, Shopping, Catalogue

\* Whatever the interleaving of submissions, payments - late ones included -,
\* cancellations, sweeps and stock changes, and however the job cuts its batches,
\* the status of an order and those of its rows agree as RowsAgree says.
THEOREM OrdersAndRowsAgree == Spec => []Backed
<1>1. Init => IInv
  BY InitIInv
<1>2. IInv /\ [Next]_vars => IInv'
  BY NextBacked
<1>3. IInv => Backed
  BY DEF IInv
<1>4. QED
  BY <1>1, <1>2, <1>3, PTL DEF Spec

(***************************************************************************)
(* The engine implements OrderLifecycle.                                   *)
(***************************************************************************)

\* Every expiration drops the orders it does not renew, all of them submitted.
LEMMA ExpireDrops ==
    ASSUME IInv, NEW rows, Expire(rows)
    PROVE  \E S \in SUBSET Orders : Lifecycle!Drop(S)
<1>1. PICK renewed \in Renewals(rows) :
        /\ orderStatus' = ExpiredStatus(rows, renewed)
        /\ UNCHANGED <<items, stock, listed, submission>>
  BY DEF Expire
<1>2. Lifecycle!Drop(Due(rows) \ renewed)
  BY <1>1 DEF Lifecycle!Drop, ExpiredStatus, Due
<1>3. Due(rows) \ renewed \in SUBSET Orders
  BY DEF Due
<1>4. QED
  BY <1>2, <1>3

LEMMA InitImplements == Init => Lifecycle!Init
BY InitType DEF Init, TypeOK, Lifecycle!Init

LEMMA StepImplements == IInv /\ [Next]_vars => [Lifecycle!Next]_(Lifecycle!vars)
<1> SUFFICES ASSUME IInv, [Next]_vars
             PROVE  Lifecycle!Next \/ UNCHANGED Lifecycle!vars
  OBVIOUS
<1>0. TypeOK /\ SubmissionIsOpen /\ Backed
  BY DEF IInv
<1>1. ASSUME NEW o \in Orders, NEW b \in Baskets, EditDraft(o, b)
      PROVE  Lifecycle!Next
  <2>1. Lifecycle!Draft(o)
    BY <1>0, <1>1, ReservationAssumption
       DEF TypeOK, EditDraft, Lifecycle!Draft, Lifecycle!Open, Lifecycle!Rebasket
  <2>2. QED
    BY <2>1 DEF Lifecycle!Next
<1>2. ASSUME NEW o \in Orders, NEW b \in Baskets, NEW byAdmin \in BOOLEAN,
             BeginSubmit(o, b, byAdmin)
      PROVE  UNCHANGED Lifecycle!vars
  BY <1>2 DEF BeginSubmit, Lifecycle!vars
<1>3. ASSUME NEW o \in Orders, SubmitReserves(o)
      PROVE  Lifecycle!Next
  <2>1. orderStatus[o] \in {"none", "draft"} /\ \E v \in Variants : submission[o].basket[v] > 0
    BY <1>0, <1>3 DEF SubmissionIsOpen, SubmitReserves
  <2>2. submission[o].basket \in [Variants -> Nat]
    BY <1>0, <1>3 DEF TypeOK, SubmitReserves, Submissions
  <2>3. items'[o] = submission[o].basket /\ items' = [items EXCEPT ![o] = submission[o].basket]
    BY <1>0, <1>3 DEF TypeOK, SubmitReserves
  <2>4. Lifecycle!Submit(o)
    BY <1>3, <2>1, <2>2, <2>3
       DEF SubmitReserves, Lifecycle!Submit, Lifecycle!Open, Lifecycle!Rebasket
  <2>5. QED
    BY <2>4 DEF Lifecycle!Next
<1>4. ASSUME NEW o \in Orders, SubmitRejected(o)
      PROVE  UNCHANGED Lifecycle!vars
  BY <1>4 DEF SubmitRejected, Lifecycle!vars
<1>5. ASSUME NEW o \in Orders, PayOrder(o)
      PROVE  Lifecycle!Next
  <2>1. /\ orderStatus[o] = "submitted"
        /\ \A v \in Counted : Active(o, v) => stock[v] >= items[o][v]
        /\ stock' = Debited(o)
        /\ orderStatus' = [orderStatus EXCEPT ![o] = "paid"]
        /\ UNCHANGED items
    BY <1>5 DEF PayOrder
  <2>2. \A v \in Variants :
          /\ items[o][v] \in Nat /\ stock[v] \in Nat
          /\ Active(o, v) <=> items[o][v] > 0
    BY <1>0, <2>1, RowStatusOfOrder DEF TypeOK, Active
  <2>3. \A v \in Variants \ Measured : stock[v] >= items[o][v]
    BY <2>1, <2>2 DEF Counted
  <2>4. \A v \in Variants :
          (IF v \in Counted /\ Active(o, v) THEN stock[v] - items[o][v] ELSE stock[v])
            = IF v \in Measured THEN stock[v] ELSE stock[v] - items[o][v]
    BY <2>2 DEF Counted
  <2>5. Lifecycle!Settle(o)
    BY <2>1, <2>3, <2>4 DEF Lifecycle!Settle, Debited
  <2>6. QED
    BY <2>5 DEF Lifecycle!Next
<1>5a. ASSUME NEW o \in Orders, PayLate(o)
      PROVE  Lifecycle!Next
  <2> DEFINE held == {v \in Variants : Active(o, v)}
  <2>1. /\ orderStatus[o] = "cancelled"
        /\ \A v \in Counted : Active(o, v) => stock[v] >= items[o][v]
        /\ stock' = Debited(o)
        /\ orderStatus' = [orderStatus EXCEPT ![o] = "paid"]
        /\ UNCHANGED items
    BY <1>5a DEF PayLate
  <2>2. held \in SUBSET {v \in Variants : items[o][v] > 0} /\ held # {}
    BY <1>5a, RowStatusOfOrder DEF PayLate, Lines
  <2>3. \E w \in Variants \ held : items[o][w] > 0
    <3>1. PICK w \in Lines(o) : reservation[o][w].status \in {"released", "expired"}
      BY <1>0, <2>1, <2>2 DEF Backed, RowsAgree, Lines
    <3>2. w \in Variants \ held /\ items[o][w] > 0
      BY <3>1 DEF Lines, Active
    <3>3. QED
      BY <3>2
  <2>4. \A v \in held \ Measured : stock[v] >= items[o][v]
    BY <2>1 DEF Counted
  <2>5. \A v \in Variants : v \in held \ Measured <=> v \in Counted /\ Active(o, v)
    BY DEF Counted
  <2>6. stock' = [v \in Variants |->
                     IF v \in held \ Measured THEN stock[v] - items[o][v] ELSE stock[v]]
    BY <2>1, <2>5 DEF Debited
  <2> HIDE DEF held
  <2>7. Lifecycle!Revive(o)
    BY <2>1, <2>2, <2>3, <2>4, <2>6 DEF Lifecycle!Revive
  <2>8. QED
    BY <2>7 DEF Lifecycle!Next
<1>6. ASSUME NEW o \in Orders, CancelOrder(o)
      PROVE  Lifecycle!Next
  <2>1. Lifecycle!Drop({o})
    BY <1>0, <1>6 DEF TypeOK, CancelOrder, Lifecycle!Drop
  <2>2. QED
    BY <2>1 DEF Lifecycle!Next
<1>7. ASSUME NEW o \in Orders, ShowOrder(o)
      PROVE  Lifecycle!Next
  BY <1>7, ExpireDrops DEF ShowOrder, Lifecycle!Next
<1>8. ASSUME NEW v \in Variants, NEW n \in StockLevels, SetStock(v, n)
      PROVE  Lifecycle!Next
  <2>1. Lifecycle!Restock(v)
    BY <1>0, <1>8, ReservationAssumption DEF TypeOK, SetStock, Lifecycle!Restock
  <2>2. QED
    BY <2>1 DEF Lifecycle!Next
<1>9. ASSUME NEW v \in Variants, NEW on \in BOOLEAN, SetListed(v, on)
      PROVE  UNCHANGED Lifecycle!vars
  BY <1>9 DEF SetListed, Lifecycle!vars
<1>10. CASE Sweep
  BY <1>10, ExpireDrops DEF Sweep, Lifecycle!Next
<1>11. CASE Tick
  BY <1>11 DEF Tick, Lifecycle!vars
<1>12. CASE UNCHANGED vars
  BY <1>12 DEF vars, Lifecycle!vars
<1>13. QED
  BY <1>1, <1>2, <1>3, <1>4, <1>5, <1>5a, <1>6, <1>7, <1>8, <1>9, <1>10, <1>11, <1>12
     DEF Next, Shopping, Catalogue

\* The reservation engine, with its two-step submissions, lazy expirations and
\* batches, keeps the promise of OrderLifecycle: frozen baskets, and a stock debited
\* by paid orders only, once, each by its whole basket - but for a cancelled order that
\* a late report revives, which debits the part of its basket it still held.
THEOREM Implementation == Spec => ImplementsLifecycle
<1>1. Init => IInv /\ Lifecycle!Init
  BY InitIInv, InitImplements
<1>2. IInv /\ [Next]_vars => IInv'
  BY NextBacked
<1>3. IInv /\ [Next]_vars => [Lifecycle!Next]_(Lifecycle!vars)
  BY StepImplements
<1>4. QED
  BY <1>1, <1>2, <1>3, PTL DEF Spec, ImplementsLifecycle, Lifecycle!Spec

(***************************************************************************)
(* Sums.  Held is a fold over a set of orders: a function defined by       *)
(* recursion on the subsets of the set, which takes away an arbitrary      *)
(* element each time.  That there is such a function, and that any element *)
(* may be taken away first, is proved by a least counterexample.           *)
(***************************************************************************)

Total(q, v, S) == MapThenSumSet(LAMBDA p : q[p][v], S)

First(s) == CHOOSE x \in s : TRUE

IsTotal(q, v, S, g) ==
    g = [s \in SUBSET S |-> IF s = {} THEN 0 ELSE q[First(s)][v] + g[s \ {First(s)}]]

TotalOf(q, v, S) == CHOOSE g : IsTotal(q, v, S, g)

\* A set of finite sets has one that contains no other.
LEMMA Minimal ==
    ASSUME NEW S, IsFiniteSet(S), NEW B \in SUBSET (SUBSET S), B # {}
    PROVE  \E T \in B : \A U \in B : U \subseteq T => U = T
<1>1. PICK T \in B : \A U \in B : <<U, T>> \notin StrictSubsetOrdering(S)
  <2>1. IsWellFoundedOn(StrictSubsetOrdering(S), SUBSET S)
    BY FS_StrictSubsetOrderingWellFounded, FS_FiniteSubsetsOfFinite
  <2>2. QED
    BY <2>1, WFMin, Zenon
<1>2. QED
  BY <1>1 DEF StrictSubsetOrdering

\* Such a function is determined on every set where there is one.
LEMMA OneTotal ==
    ASSUME NEW q, NEW v, NEW S, IsFiniteSet(S), NEW T \in SUBSET S, NEW g, NEW h,
           IsTotal(q, v, S, g), IsTotal(q, v, T, h)
    PROVE  \A s \in SUBSET T : g[s] = h[s]
<1> DEFINE B == {s \in SUBSET T : g[s] # h[s]}
<1>1. SUFFICES ASSUME B # {} PROVE FALSE
  OBVIOUS
<1>2. B \in SUBSET (SUBSET S)
  OBVIOUS
<1>3. PICK s \in B : \A u \in B : u \subseteq s => u = s
  <2> HIDE DEF B
  <2>1. QED
    BY <1>1, <1>2, Minimal
<1>4. /\ g[s] = IF s = {} THEN 0 ELSE q[First(s)][v] + g[s \ {First(s)}]
      /\ h[s] = IF s = {} THEN 0 ELSE q[First(s)][v] + h[s \ {First(s)}]
  BY <1>3, Zenon DEF IsTotal
<1>5. s # {} => First(s) \in s
  BY DEF First
<1>6. s # {} => s \ {First(s)} \notin B
  BY <1>3, <1>5
<1>7. s \in SUBSET T /\ g[s] # h[s]
  BY <1>3
<1>8. s # {} => g[s \ {First(s)}] = h[s \ {First(s)}]
  BY <1>6, <1>7
<1>9. QED
  BY <1>4, <1>7, <1>8

LEMMA TotalExists ==
    ASSUME NEW q, NEW v, NEW S, IsFiniteSet(S)
    PROVE  IsTotal(q, v, S, TotalOf(q, v, S))
<1> DEFINE B == {T \in SUBSET S : ~\E g : IsTotal(q, v, T, g)}
<1>1. SUFFICES ASSUME B # {} PROVE FALSE
  BY DEF TotalOf
<1>2. B \in SUBSET (SUBSET S)
  OBVIOUS
<1>3. PICK T \in B : \A U \in B : U \subseteq T => U = T
  <2> HIDE DEF B
  <2>1. QED
    BY <1>1, <1>2, Minimal
<1> DEFINE below(r) == TotalOf(q, v, r)[r]
           g == [s \in SUBSET T |->
                    IF s = {} THEN 0 ELSE q[First(s)][v] + below(s \ {First(s)})]
<1>4. T \in SUBSET S /\ IsFiniteSet(T) /\ \A h : ~IsTotal(q, v, T, h)
  BY <1>3, FS_Subset
<1>5. \A U \in SUBSET T : U # T => IsTotal(q, v, U, TotalOf(q, v, U))
  BY <1>3, <1>4 DEF TotalOf
<1>6. ASSUME NEW r \in SUBSET T, r # T
      PROVE  g[r] = below(r)
  <2> HIDE DEF B
  <2>1. IsFiniteSet(r) /\ IsTotal(q, v, r, TotalOf(q, v, r))
    BY <1>4, <1>5, <1>6, FS_Subset
  <2>2. below(r) = IF r = {} THEN 0 ELSE q[First(r)][v] + TotalOf(q, v, r)[r \ {First(r)}]
    BY <2>1, Zenon DEF IsTotal
  <2>3. CASE r # {}
    <3> DEFINE u == r \ {First(r)}
    <3>1. u \in SUBSET r /\ u \in SUBSET T /\ u # T
      BY <1>6
    <3>2. IsTotal(q, v, u, TotalOf(q, v, u))
      BY <3>1, <1>5
    <3>3. TotalOf(q, v, r)[u] = TotalOf(q, v, u)[u]
      <4> HIDE DEF u
      <4>1. \A s \in SUBSET u : TotalOf(q, v, r)[s] = TotalOf(q, v, u)[s]
        BY <2>1, <3>1, <3>2, OneTotal
      <4>2. QED
        BY <4>1
    <3>4. QED
      BY <2>2, <2>3, <3>3
  <2>4. QED
    BY <2>2, <2>3
<1>7. ASSUME NEW s \in SUBSET T, s # {}
      PROVE  below(s \ {First(s)}) = g[s \ {First(s)}]
  <2>1. First(s) \in s
    BY <1>7 DEF First
  <2>2. s \ {First(s)} \in SUBSET T /\ s \ {First(s)} # T
    BY <2>1
  <2>3. QED
    BY <2>2, <1>6
<1>8. IsTotal(q, v, T, g)
  <2>1. g = [s \in SUBSET T |-> IF s = {} THEN 0 ELSE q[First(s)][v] + g[s \ {First(s)}]]
    BY <1>7
  <2>2. QED
    BY <2>1 DEF IsTotal
<1>9. QED
  BY <1>4, <1>8

LEMMA TotalIs == ASSUME NEW q, NEW v, NEW S PROVE Total(q, v, S) = TotalOf(q, v, S)[S]
BY DEF Total, TotalOf, IsTotal, MapThenSumSet, MapThenFoldSet, First

\* The equations of the recursion.
LEMMA TotalStep ==
    ASSUME NEW q, NEW v, NEW S, IsFiniteSet(S)
    PROVE  /\ S = {} => Total(q, v, S) = 0
           /\ S # {} => /\ First(S) \in S
                        /\ Total(q, v, S) = q[First(S)][v] + Total(q, v, S \ {First(S)})
<1> DEFINE T == S \ {First(S)}
<1>1. IsFiniteSet(T) /\ T \in SUBSET S
  BY FS_Subset
<1>2. IsTotal(q, v, S, TotalOf(q, v, S)) /\ IsTotal(q, v, T, TotalOf(q, v, T))
  BY <1>1, TotalExists
<1>3. TotalOf(q, v, S)[T] = TotalOf(q, v, T)[T]
  <2> HIDE DEF T
  <2>1. \A s \in SUBSET T : TotalOf(q, v, S)[s] = TotalOf(q, v, T)[s]
    BY <1>1, <1>2, OneTotal
  <2>2. QED
    BY <2>1
<1>4. TotalOf(q, v, S)[S] = IF S = {} THEN 0 ELSE q[First(S)][v] + TotalOf(q, v, S)[T]
  BY <1>2, Zenon DEF IsTotal
<1>5. S # {} => First(S) \in S
  BY DEF First
<1>6. QED
  BY <1>3, <1>4, <1>5, TotalIs

\* Sums of natural numbers are natural numbers.
LEMMA TotalType ==
    ASSUME NEW q, NEW v, NEW S, IsFiniteSet(S), \A p \in S : q[p][v] \in Nat
    PROVE  Total(q, v, S) \in Nat
<1> DEFINE B == {T \in SUBSET S : Total(q, v, T) \notin Nat}
<1>1. SUFFICES ASSUME B # {} PROVE FALSE
  OBVIOUS
<1>2. B \in SUBSET (SUBSET S)
  OBVIOUS
<1>3. PICK T \in B : \A U \in B : U \subseteq T => U = T
  <2> HIDE DEF B
  <2>1. QED
    BY <1>1, <1>2, Minimal
<1>4. T \in SUBSET S /\ IsFiniteSet(T) /\ Total(q, v, T) \notin Nat
  BY <1>3, FS_Subset
<1>5. /\ T = {} => Total(q, v, T) = 0
      /\ T # {} => /\ First(T) \in T
                   /\ Total(q, v, T) = q[First(T)][v] + Total(q, v, T \ {First(T)})
  BY <1>4, TotalStep
<1>6. T # {}
  BY <1>4, <1>5
<1>7. Total(q, v, T \ {First(T)}) \in Nat
  BY <1>3, <1>4, <1>5, <1>6
<1>8. q[First(T)][v] \in Nat
  BY <1>4, <1>5, <1>6
<1>9. QED
  BY <1>4, <1>5, <1>7, <1>8, <1>6

\* Any element may be taken away first.
LEMMA TotalRemove ==
    ASSUME NEW q, NEW v, NEW S, IsFiniteSet(S), \A p \in S : q[p][v] \in Nat, NEW x \in S
    PROVE  Total(q, v, S) = q[x][v] + Total(q, v, S \ {x})
<1> DEFINE B == {T \in SUBSET S :
                    \E e \in T : Total(q, v, T) # q[e][v] + Total(q, v, T \ {e})}
<1>1. SUFFICES ASSUME B # {} PROVE FALSE
  OBVIOUS
<1>2. B \in SUBSET (SUBSET S)
  OBVIOUS
<1>3. PICK T \in B : \A U \in B : U \subseteq T => U = T
  <2> HIDE DEF B
  <2>1. QED
    BY <1>1, <1>2, Minimal
<1>4. PICK e \in T : Total(q, v, T) # q[e][v] + Total(q, v, T \ {e})
  BY <1>3
<1> DEFINE c == First(T)
           C == T \ {c}
           E == T \ {e}
<1>5. T \in SUBSET S
  BY <1>3
<1>6. IsFiniteSet(T) /\ IsFiniteSet(C) /\ IsFiniteSet(E)
  BY <1>5, FS_Subset
<1>7. c \in T /\ Total(q, v, T) = q[c][v] + Total(q, v, C)
  BY <1>4, <1>6, TotalStep
<1>8. e # c
  BY <1>4, <1>7
<1>9. C \notin B /\ E \notin B
  BY <1>3, <1>7
<1>10. /\ Total(q, v, C) = q[e][v] + Total(q, v, C \ {e})
       /\ Total(q, v, E) = q[c][v] + Total(q, v, E \ {c})
  BY <1>5, <1>7, <1>8, <1>9
<1>11. C \ {e} = E \ {c} /\ IsFiniteSet(E \ {c})
  BY <1>6, FS_Subset
<1>12. q[c][v] \in Nat /\ q[e][v] \in Nat /\ Total(q, v, E \ {c}) \in Nat
  <2>1. \A p \in E \ {c} : q[p][v] \in Nat
    BY <1>5
  <2>2. QED
    BY <2>1, <1>5, <1>7, <1>11, TotalType
<1> DEFINE X == Total(q, v, E \ {c})
<1>13. q[c][v] + (q[e][v] + X) = q[e][v] + (q[c][v] + X)
  <2> HIDE DEF c, E, X
  <2>1. QED
    BY <1>12 DEF X
<1> HIDE DEF c, C, E, B
<1>14. Total(q, v, T) = q[e][v] + Total(q, v, E)
  BY <1>7, <1>10, <1>11, <1>13
<1>15. QED
  BY <1>4, <1>14 DEF E

\* Two tables that agree on a set have the same sum over it.
LEMMA TotalAgrees ==
    ASSUME NEW q, NEW r, NEW v, NEW S, IsFiniteSet(S), \A p \in S : q[p][v] = r[p][v]
    PROVE  Total(q, v, S) = Total(r, v, S)
<1> DEFINE B == {T \in SUBSET S : Total(q, v, T) # Total(r, v, T)}
<1>1. SUFFICES ASSUME B # {} PROVE FALSE
  OBVIOUS
<1>2. B \in SUBSET (SUBSET S)
  OBVIOUS
<1>3. PICK T \in B : \A U \in B : U \subseteq T => U = T
  <2> HIDE DEF B
  <2>1. QED
    BY <1>1, <1>2, Minimal
<1>4. T \in SUBSET S /\ IsFiniteSet(T) /\ Total(q, v, T) # Total(r, v, T)
  BY <1>3, FS_Subset
<1>5. /\ T = {} => Total(q, v, T) = 0 /\ Total(r, v, T) = 0
      /\ T # {} => /\ First(T) \in T
                   /\ Total(q, v, T) = q[First(T)][v] + Total(q, v, T \ {First(T)})
                   /\ Total(r, v, T) = r[First(T)][v] + Total(r, v, T \ {First(T)})
  BY <1>4, TotalStep
<1>6. Total(q, v, T \ {First(T)}) = Total(r, v, T \ {First(T)})
  BY <1>3, <1>4, <1>5
<1>7. QED
  BY <1>4, <1>5, <1>6

\* A part adds up to no more than the whole.
LEMMA TotalPart ==
    ASSUME NEW q, NEW v, NEW S, IsFiniteSet(S), \A p \in S : q[p][v] \in Nat,
           NEW P \in SUBSET S
    PROVE  Total(q, v, P) <= Total(q, v, S)
<1> DEFINE B == {T \in SUBSET S : P \subseteq T /\ ~(Total(q, v, P) <= Total(q, v, T))}
<1>1. SUFFICES ASSUME B # {} PROVE FALSE
  OBVIOUS
<1>2. B \in SUBSET (SUBSET S)
  OBVIOUS
<1>3. PICK T \in B : \A U \in B : U \subseteq T => U = T
  <2> HIDE DEF B
  <2>1. QED
    BY <1>1, <1>2, Minimal
<1>4. T \in SUBSET S /\ P \subseteq T /\ ~(Total(q, v, P) <= Total(q, v, T)) /\ IsFiniteSet(T)
  BY <1>3, FS_Subset
<1>5. \A U \in SUBSET S : Total(q, v, U) \in Nat
  BY FS_Subset, TotalType
<1>6. PICK x \in T : x \notin P
  BY <1>4, <1>5
<1>7. Total(q, v, T) = q[x][v] + Total(q, v, T \ {x}) /\ q[x][v] \in Nat
  BY <1>4, TotalRemove
<1>8. Total(q, v, P) <= Total(q, v, T \ {x})
  BY <1>3, <1>4, <1>6
<1>9. QED
  <2> HIDE DEF B
  <2>1. Total(q, v, P) \in Nat /\ Total(q, v, T) \in Nat /\ Total(q, v, T \ {x}) \in Nat
    BY <1>4, <1>5
  <2>2. QED
    BY <1>4, <1>7, <1>8, <2>1

(***************************************************************************)
(* What is held of a variant.                                              *)
(***************************************************************************)

\* The orders that hold v.
Holding(v) == {p \in Orders : Live(p, v)}

LEMMA HeldIs ==
    ASSUME NEW v
    PROVE  /\ Held(v, {}) = Total(items, v, Holding(v))
           /\ Held(v, {})' = Total(items', v, Holding(v)')
<1>1. Held(v, {}) = TotalOf(items, v, Holding(v))[Holding(v)]
  BY DEF Held, Holding, TotalOf, IsTotal, MapThenSumSet, MapThenFoldSet, First
<1>2. Held(v, {})' = TotalOf(items', v, Holding(v)')[Holding(v)']
  BY DEF Held, Holding, TotalOf, IsTotal, MapThenSumSet, MapThenFoldSet, First
<1>3. QED
  BY <1>1, <1>2, TotalIs

\* The sets and numbers that are added up, before and after a step.
LEMMA HeldTypes ==
    ASSUME TypeOK, TypeOK', NEW v \in Variants
    PROVE  /\ IsFiniteSet(Holding(v)) /\ IsFiniteSet(Holding(v)')
           /\ \A p \in Orders : items[p][v] \in Nat /\ items'[p][v] \in Nat
           /\ Holding(v) \subseteq Orders /\ Holding(v)' \subseteq Orders
           /\ Held(v, {}) \in Nat /\ Held(v, {})' \in Nat
<1>1. Holding(v) \in SUBSET Orders /\ Holding(v)' \in SUBSET Orders
  BY DEF Holding
<1>2. IsFiniteSet(Holding(v)) /\ IsFiniteSet(Holding(v)')
  BY <1>1, FiniteTables, FS_Subset
<1>3. \A p \in Orders : items[p][v] \in Nat /\ items'[p][v] \in Nat
  BY DEF TypeOK
<1>4. Total(items, v, Holding(v)) \in Nat /\ Total(items', v, Holding(v)') \in Nat
  BY <1>1, <1>2, <1>3, TotalType
<1>5. QED
  BY <1>1, <1>2, <1>3, <1>4, HeldIs

\* When o at most comes to hold v, what is held grows by its line at most ...
LEMMA OneMoreHolds ==
    ASSUME TypeOK, TypeOK', NEW v \in Variants, NEW o \in Orders,
           Holding(v)' \subseteq Holding(v) \cup {o},
           \A p \in Holding(v)' \ {o} : items'[p][v] = items[p][v]
    PROVE  Held(v, {})' <= Held(v, {}) + items'[o][v]
<1> DEFINE H == Holding(v)
           N == Holding(v)'
           M == N \ {o}
<1>1. /\ IsFiniteSet(H) /\ IsFiniteSet(N) /\ H \subseteq Orders /\ N \subseteq Orders
      /\ \A p \in Orders : items[p][v] \in Nat /\ items'[p][v] \in Nat
      /\ Held(v, {}) \in Nat /\ Held(v, {})' \in Nat
  BY HeldTypes
<1>2. Held(v, {}) = Total(items, v, H) /\ Held(v, {})' = Total(items', v, N)
  BY HeldIs
<1>3. M \in SUBSET H /\ IsFiniteSet(M) /\ M \subseteq Orders
  BY <1>1, FS_Subset
<1>4. Total(items', v, M) = Total(items, v, M) /\ Total(items, v, M) \in Nat
  <2>1. \A p \in M : items'[p][v] = items[p][v] /\ items[p][v] \in Nat
    BY <1>1
  <2> HIDE DEF M
  <2>2. QED
    BY <1>3, <2>1, TotalAgrees, TotalType
<1>5. Total(items, v, M) <= Total(items, v, H)
  <2> HIDE DEF M, H
  <2>1. QED
    BY <1>1, <1>3, TotalPart
<1>6. CASE o \in N
  <2>1. Total(items', v, N) = items'[o][v] + Total(items', v, M)
    <3> HIDE DEF N
    <3>1. QED
      BY <1>1, <1>6, TotalRemove
  <2> HIDE DEF N, M, H
  <2>2. QED
    BY <1>1, <1>2, <1>4, <1>5, <2>1
<1>7. CASE o \notin N
  <2>1. M = N
    BY <1>7
  <2> HIDE DEF N, M, H
  <2>2. QED
    BY <1>1, <1>2, <1>4, <1>5, <2>1
<1>8. QED
  BY <1>6, <1>7

\* ... and when o, which held v, does not any more, what is held falls by its line.
LEMMA OneLessHolds ==
    ASSUME TypeOK, TypeOK', NEW v \in Variants, NEW o \in Holding(v),
           Holding(v)' \subseteq Holding(v) \ {o},
           items' = items
    PROVE  Held(v, {})' + items[o][v] <= Held(v, {})
<1> DEFINE H == Holding(v)
           N == Holding(v)'
           M == H \ {o}
<1>1. /\ IsFiniteSet(H) /\ IsFiniteSet(N) /\ H \subseteq Orders /\ N \subseteq Orders
      /\ \A p \in Orders : items[p][v] \in Nat /\ items'[p][v] \in Nat
      /\ Held(v, {}) \in Nat /\ Held(v, {})' \in Nat
  BY HeldTypes
<1>2. Held(v, {}) = Total(items, v, H) /\ Held(v, {})' = Total(items, v, N)
  BY HeldIs
<1>3. IsFiniteSet(M) /\ M \subseteq Orders /\ N \in SUBSET M
  BY <1>1, FS_Subset
<1>4. Total(items, v, M) \in Nat
  <2> HIDE DEF M
  <2>1. QED
    BY <1>1, <1>3, TotalType
<1>5. Total(items, v, N) <= Total(items, v, M)
  <2> HIDE DEF M, N
  <2>1. QED
    BY <1>1, <1>3, TotalPart
<1>6. Total(items, v, H) = items[o][v] + Total(items, v, M)
  <2> HIDE DEF H
  <2>1. QED
    BY <1>1, TotalRemove DEF H
<1>7. items[o][v] \in Nat
  BY <1>1
<1> HIDE DEF H, N, M
<1>8. QED
  BY <1>1, <1>2, <1>4, <1>5, <1>6, <1>7

\* When nobody comes to hold v, no more of it is held.
LEMMA NoMoreHolds ==
    ASSUME TypeOK, TypeOK', NEW v \in Variants,
           Holding(v)' \subseteq Holding(v),
           \A p \in Holding(v)' : items'[p][v] = items[p][v]
    PROVE  Held(v, {})' <= Held(v, {})
<1>1. CASE Holding(v)' = {}
  <2>1. Held(v, {})' = 0
    BY <1>1, HeldIs, TotalStep, FS_EmptySet
  <2>2. QED
    BY <2>1, HeldTypes
<1>2. CASE Holding(v)' # {}
  <2>1. /\ IsFiniteSet(Holding(v)) /\ IsFiniteSet(Holding(v)')
        /\ \A p \in Holding(v) : items[p][v] \in Nat
    BY HeldTypes
  <2>2. Held(v, {}) = Total(items, v, Holding(v)) /\ Held(v, {})' = Total(items', v, Holding(v)')
    BY HeldIs
  <2>3. Total(items', v, Holding(v)') = Total(items, v, Holding(v)')
    BY <2>1, TotalAgrees
  <2>4. QED
    BY <2>1, <2>2, <2>3, TotalPart
<1>3. QED
  BY <1>1, <1>2

(***************************************************************************)
(* An order that is renewed alone is covered.                              *)
(***************************************************************************)

\* What is held is a number.
LEMMA HeldType ==
    ASSUME TypeOK, NEW v \in Variants
    PROVE  Held(v, {}) \in Nat
<1>1. Holding(v) \in SUBSET Orders
  BY DEF Holding
<1>2. IsFiniteSet(Holding(v)) /\ \A p \in Holding(v) : items[p][v] \in Nat
  BY <1>1, FiniteTables, FS_Subset DEF TypeOK
<1>3. QED
  BY <1>2, HeldIs, TotalType

\* If o is the only order an expiration renews, nothing it has renewed is flushed
\* when o is looked at, so the live rows and the line of o fit in the stock.
LEMMA AloneIsCovered ==
    ASSUME TypeOK, NEW rows, NEW renewed \in Renewals(rows), NEW o \in Orders, renewed = {o}
    PROVE  \A v \in Lines(o) \cap Counted : Held(v, {}) + items[o][v] <= stock[v]
<1>1. Flushed(o, rows, renewed) = {}
  BY ReservationAssumption DEF Flushed
<1>2. o \in Due(rows)
  BY RenewedMayRenew
<1>3. \A v \in Lines(o) : Covered(o, v, Flushed(o, rows, renewed))
  BY <1>2 DEF Renewals
<1>4. ASSUME NEW v \in Lines(o) \cap Counted
      PROVE  Held(v, {}) + items[o][v] <= stock[v]
  <2>1. stock[v] - Held(v, {}) >= items[o][v]
    BY <1>1, <1>3 DEF Covered, Counted
  <2>2. v \in Variants /\ stock[v] \in Nat /\ items[o][v] \in Nat
    BY DEF TypeOK, Counted
  <2>3. Held(v, {}) \in Nat
    BY <2>2, HeldType
  <2>4. QED
    BY <2>1, <2>2, <2>3
<1>5. QED
  BY <1>4

\* The expiration of the rows of one order renews that order or nothing.
LEMMA RenewalsOfOne ==
    ASSUME NEW o \in Orders, NEW renewed \in Renewals(LapsedRowsOf(o))
    PROVE  renewed \subseteq {o}
<1>1. renewed \subseteq Due(LapsedRowsOf(o))
  BY RenewedMayRenew
<1>2. \A r \in LapsedRowsOf(o) : r[1] = o
  BY DEF LapsedRowsOf
<1>3. Due(LapsedRowsOf(o)) \subseteq {o}
  BY <1>2 DEF Due
<1>4. QED
  BY <1>1, <1>3

\* What an expiration does to the rows, as they are counted.
LEMMA ExpireHolding ==
    ASSUME TypeOK, NEW rows, NEW renewed \in Renewals(rows),
           reservation' = [o \in Orders |-> [v \in Variants |-> ExpiredRow(o, v, rows, renewed)]]
    PROVE  /\ \A v \in Variants : Holding(v)' \subseteq Holding(v) \cup renewed
           /\ \A o \in Orders : RenewedIn(o) <=> o \in renewed
<1>1. \A o \in Orders, v \in Variants : reservation'[o][v] = ExpiredRow(o, v, rows, renewed)
  OBVIOUS
<1>2. ASSUME NEW v \in Variants, NEW o \in Holding(v)', o \notin renewed
      PROVE  o \in Holding(v)
  <2>1. o \in Orders /\ reservation'[o][v].status = "active"
    BY <1>2 DEF Holding, Live, Active
  <2>2. <<o, v>> \notin rows
    BY <1>1, <1>2, <2>1 DEF ExpiredRow, Closed
  <2>3. reservation'[o][v] = reservation[o][v]
    BY <1>1, <2>1, <2>2 DEF ExpiredRow
  <2>4. QED
    BY <1>2, <2>1, <2>3 DEF Holding, Live, Active, Lapsed
<1>3. ASSUME NEW o \in Orders, o \in renewed PROVE RenewedIn(o)
  <2>1. PICK v \in Variants : <<o, v>> \in rows
    BY <1>3, RenewedMayRenew DEF Due
  <2>2. reservation'[o][v].renewals = reservation[o][v].renewals + 1
    BY <1>1, <1>3, <2>1 DEF ExpiredRow
  <2>3. reservation[o][v].renewals \in Nat
    BY ReservationAssumption DEF TypeOK, Rows
  <2>4. QED
    BY <2>2, <2>3 DEF RenewedIn
<1>4. ASSUME NEW o \in Orders, o \notin renewed PROVE ~RenewedIn(o)
  <2>1. \A v \in Variants : reservation'[o][v].renewals = reservation[o][v].renewals
    BY <1>1, <1>4 DEF ExpiredRow, Closed
  <2>2. \A v \in Variants : reservation[o][v].renewals \in Nat
    BY ReservationAssumption DEF TypeOK, Rows
  <2>3. QED
    BY <2>1, <2>2 DEF RenewedIn
<1>5. QED
  BY <1>2, <1>3, <1>4

\* The line of o for v, and what the others hold, are in stock.
Affordable(o, v) == Held(v, {}) + items[o][v] <= stock[v]

\* What a payment does to the rows of its order, and to the stock.
LEMMA PaymentHolding ==
    ASSUME IInv, NEW o \in Orders, PayOrder(o) \/ PayLate(o)
    PROVE  /\ \A v \in Variants : Holding(v)' \subseteq Holding(v) \ {o}
           /\ \A p \in Orders \ {o} : ~RenewedIn(p)
           /\ items' = items
           /\ \A v \in Counted :
                 stock'[v] = IF Active(o, v) THEN stock[v] - items[o][v] ELSE stock[v]
           /\ LapsedRowsOf(o) # {} => \A v \in Lines(o) \cap Counted : Affordable(o, v)
<1>2. TypeOK
  BY DEF IInv
<1>3. /\ \A v \in Variants : reservation'[o][v].status # "active"
      /\ \A p \in Orders \ {o} : reservation'[p] = reservation[p]
      /\ items' = items /\ stock' = Debited(o)
  BY PaymentCloses DEF Active
<1>4. \A v \in Variants : Holding(v)' \subseteq Holding(v) \ {o}
  BY <1>3 DEF Holding, Live, Active, Lapsed
<1>5. \A p \in Orders, v \in Variants : reservation[p][v].renewals \in Nat
  BY <1>2, ReservationAssumption DEF TypeOK, Rows
<1>6. \A p \in Orders \ {o} : ~RenewedIn(p)
  BY <1>3, <1>5 DEF RenewedIn
<1>7. \A v \in Counted :
        stock'[v] = IF Active(o, v) THEN stock[v] - items[o][v] ELSE stock[v]
  BY <1>3 DEF Debited, Counted
<1>8. ASSUME LapsedRowsOf(o) # {}, NEW v \in Lines(o) \cap Counted
      PROVE  Affordable(o, v)
  <2>1. CASE PayOrder(o)
    <3>1. PICK renewed \in Renewals(LapsedRowsOf(o)) : o \in renewed
      BY <1>8, <2>1 DEF PayOrder
    <3>2. renewed = {o}
      BY <3>1, RenewalsOfOne
    <3>3. QED
      BY <1>2, <3>2, AloneIsCovered DEF Affordable
  <2>2. CASE PayLate(o)
    <3>1. stock[v] - Held(v, {}) >= items[o][v]
      BY <1>8, <2>2 DEF PayLate, Covered, Counted
    <3>2. v \in Variants /\ stock[v] \in Nat /\ items[o][v] \in Nat
      BY <1>2 DEF TypeOK, Counted
    <3>3. Held(v, {}) \in Nat
      BY <1>2, <3>2, HeldType
    <3>4. QED
      BY <3>1, <3>2, <3>3 DEF Affordable
  <2>3. QED
    BY <2>1, <2>2
<1>9. QED
  BY <1>3, <1>4, <1>6, <1>7, <1>8

\* What a cancellation does to them.
LEMMA CancelHolding ==
    ASSUME TypeOK, NEW o \in Orders, CancelOrder(o)
    PROVE  /\ \A v \in Variants : Holding(v)' \subseteq Holding(v)
           /\ \A p \in Orders \ {o} : ~RenewedIn(p)
           /\ items' = items /\ stock' = stock
           /\ RenewedIn(o) => {o} \in Renewals(LapsedRowsOf(o))
<1>1. PICK renewed \in Renewals(LapsedRowsOf(o)) :
        reservation' = [reservation EXCEPT ![o] =
          [v \in Variants |->
              IF LapsedRowsOf(o) = {} \/ o \in renewed
              THEN ClosedRow(o, v, LapsedRowsOf(o), renewed, "released")
              ELSE ExpiredRow(o, v, LapsedRowsOf(o), renewed)]]
  BY DEF CancelOrder
<1>2. \A v \in Variants :
        reservation'[o][v] =
            IF LapsedRowsOf(o) = {} \/ o \in renewed
            THEN ClosedRow(o, v, LapsedRowsOf(o), renewed, "released")
            ELSE ExpiredRow(o, v, LapsedRowsOf(o), renewed)
  BY <1>1 DEF TypeOK
<1>3. \A v \in Variants :
        reservation'[o][v].status = "active" => reservation'[o][v] = reservation[o][v]
  <2>1. \A v \in Variants :
          ClosedRow(o, v, LapsedRowsOf(o), renewed, "released").status # "active"
    BY DEF ClosedRow, Closed
  <2>2. ASSUME o \notin renewed
        PROVE  \A v \in Variants :
                 LET row == ExpiredRow(o, v, LapsedRowsOf(o), renewed)
                 IN  row.status = "active" => row = reservation[o][v]
    BY <2>2 DEF ExpiredRow, Closed
  <2>3. QED
    BY <1>2, <2>1, <2>2
<1>4. \A p \in Orders \ {o} : reservation'[p] = reservation[p]
  BY <1>1 DEF TypeOK
<1>5. \A v \in Variants : Holding(v)' \subseteq Holding(v)
  BY <1>3, <1>4 DEF Holding, Live, Active, Lapsed
<1>6. \A p \in Orders, v \in Variants : reservation[p][v].renewals \in Nat
  BY ReservationAssumption DEF TypeOK, Rows
<1>7. \A p \in Orders \ {o} : ~RenewedIn(p)
  BY <1>4, <1>6 DEF RenewedIn
<1>8. renewed = {o} \/ renewed = {}
  BY RenewalsOfOne
<1>9. renewed = {} => ~RenewedIn(o)
  <2> SUFFICES ASSUME renewed = {}
               PROVE  \A v \in Variants :
                        reservation'[o][v].renewals = reservation[o][v].renewals
    BY <1>6 DEF RenewedIn
  <2>1. \A v \in Variants :
          ExpiredRow(o, v, LapsedRowsOf(o), renewed).renewals = reservation[o][v].renewals
    BY DEF ExpiredRow, Closed
  <2>2. \A v \in Variants :
          ClosedRow(o, v, LapsedRowsOf(o), renewed, "released").renewals
            = ExpiredRow(o, v, LapsedRowsOf(o), renewed).renewals
    BY DEF ClosedRow, Closed
  <2>3. QED
    BY <1>2, <2>1, <2>2
<1>10. QED
  BY <1>5, <1>7, <1>8, <1>9 DEF CancelOrder

\* What the other steps do to them: no row is renewed by any, nor comes to be live,
\* but those of a submission.
LEMMA OtherHolding ==
    ASSUME IInv, [Next]_vars,
           ~(\E o \in Orders : PayOrder(o) \/ PayLate(o) \/ CancelOrder(o) \/ ShowOrder(o)), ~Sweep
    PROVE  /\ \A p \in Orders : ~RenewedIn(p)
           /\ \/ \E o \in Orders : SubmitReserves(o)
              \/ \A v \in Variants :
                    /\ Holding(v)' \subseteq Holding(v)
                    /\ \A p \in Holding(v) : items'[p][v] = items[p][v]
<1>0. TypeOK
  BY DEF IInv
<1>1. \A p \in Orders, v \in Variants : reservation[p][v].renewals \in Nat
  BY <1>0, ReservationAssumption DEF TypeOK, Rows
<1>2. ASSUME UNCHANGED reservation
      PROVE  /\ \A p \in Orders : ~RenewedIn(p)
             /\ \A v \in Variants : Holding(v)' = Holding(v)
  BY <1>1, <1>2 DEF RenewedIn, Holding, Live, Active, Lapsed
<1>3. ASSUME NEW o \in Orders, NEW b \in Baskets, EditDraft(o, b)
      PROVE  /\ UNCHANGED reservation
             /\ \A v \in Variants : \A p \in Holding(v) : items'[p][v] = items[p][v]
  <2>1. \A v \in Variants : o \notin Holding(v)
    BY <1>3, RowStatusOfOrder DEF EditDraft, Holding, Live, Active
  <2>2. UNCHANGED reservation /\ \A p \in Orders \ {o} : items'[p] = items[p]
    BY <1>0, <1>3 DEF EditDraft, TypeOK
  <2>3. QED
    BY <2>1, <2>2 DEF Holding
<1>4. ASSUME NEW o \in Orders, SubmitReserves(o)
      PROVE  \A p \in Orders : ~RenewedIn(p)
  <2>1. \A v \in Variants : reservation'[o][v].renewals = 0
    BY <1>0, <1>4 DEF SubmitReserves, TypeOK, FreshRow, NoRow
  <2>2. \A p \in Orders \ {o} : reservation'[p] = reservation[p]
    BY <1>0, <1>4 DEF SubmitReserves, TypeOK
  <2>3. QED
    BY <1>1, <2>1, <2>2 DEF RenewedIn
<1>5. CASE Tick
  <2>1. \A o \in Orders, v \in Variants :
          /\ Running(o, v) \/ reservation'[o][v] = reservation[o][v]
          /\ reservation'[o][v].renewals = reservation[o][v].renewals
    BY <1>0, <1>5 DEF Tick, TypeOK, Rows
  <2>2. \A v \in Variants : Holding(v)' \subseteq Holding(v)
    BY <2>1 DEF Holding, Live, Active, Lapsed, Running
  <2>3. \A p \in Orders : ~RenewedIn(p)
    BY <1>1, <2>1 DEF RenewedIn
  <2>4. QED
    BY <1>5, <2>2, <2>3 DEF Tick
<1>6. CASE UNCHANGED <<reservation, items>>
  BY <1>2, <1>6
<1>7. QED
  BY <1>2, <1>3, <1>4, <1>5, <1>6
     DEF Next, Shopping, Catalogue, BeginSubmit, SubmitRejected, SetStock, SetListed, vars

\* The whole of RenewalIsCovered, of one step.
LEMMA RenewalStep ==
    ASSUME IInv, [Next]_vars, NEW o \in Orders, RenewedIn(o), \A p \in Orders \ {o} : ~RenewedIn(p),
           NEW v \in Lines(o) \cap Counted
    PROVE  Held(v, {})' <= stock'[v]
<1>1. TypeOK /\ TypeOK' /\ IInv'
  BY NextBacked DEF IInv
<1>2. v \in Variants /\ v \in Counted /\ v \in Lines(o)
  BY DEF Counted
<1>3. /\ Held(v, {}) \in Nat /\ Held(v, {})' \in Nat
      /\ stock[v] \in Nat /\ items[o][v] \in Nat /\ stock'[v] \in Nat
  BY <1>1, <1>2, HeldTypes DEF TypeOK
<1>4. ASSUME NEW rows \in SUBSET LapsedRows, Expire(rows)
      PROVE  Held(v, {})' <= stock'[v]
  <2>1. PICK renewed \in Renewals(rows) :
          /\ reservation' = [p \in Orders |-> [w \in Variants |-> ExpiredRow(p, w, rows, renewed)]]
          /\ UNCHANGED <<items, stock>>
    BY <1>4 DEF Expire
  <2>2. /\ Holding(v)' \subseteq Holding(v) \cup renewed
        /\ \A p \in Orders : RenewedIn(p) <=> p \in renewed
    BY <1>1, <1>2, <2>1, ExpireHolding
  <2>3. renewed = {o}
    BY <2>2, RenewedMayRenew DEF Due
  <2>4. Held(v, {}) + items[o][v] <= stock[v]
    BY <1>1, <2>3, AloneIsCovered
  <2>5. Held(v, {})' <= Held(v, {}) + items'[o][v]
    BY <1>1, <1>2, <2>1, <2>2, <2>3, OneMoreHolds
  <2>6. items' = items /\ stock' = stock
    BY <2>1
  <2>7. QED
    BY <1>3, <2>4, <2>5, <2>6
<1>5. ASSUME NEW p \in Orders, PayOrder(p) \/ PayLate(p)
      PROVE  Held(v, {})' <= stock'[v]
  <2>1. p = o
    BY <1>5, PaymentHolding
  <2>2. /\ Holding(v)' \subseteq Holding(v) /\ items' = items
        /\ stock'[v] = IF Active(o, v) THEN stock[v] - items[o][v] ELSE stock[v]
        /\ LapsedRowsOf(o) # {} => Affordable(o, v)
    BY <1>2, <1>5, <2>1, PaymentHolding
  <2>3. LapsedRowsOf(o) # {}
    <3> SUFFICES ASSUME LapsedRowsOf(o) = {} PROVE ~RenewedIn(o)
      OBVIOUS
    <3>1. PICK renewed :
            reservation' = [reservation EXCEPT ![o] =
              [w \in Variants |-> ClosedRow(o, w, LapsedRowsOf(o), renewed, "consumed")]]
      BY <1>5, <2>1 DEF PayOrder, PayLate
    <3>2. \A w \in Variants : reservation'[o][w].renewals = reservation[o][w].renewals
      BY <1>1, <3>1 DEF TypeOK, ClosedRow, ExpiredRow, Closed
    <3>3. \A w \in Variants : reservation[o][w].renewals \in Nat
      BY <1>1, ReservationAssumption DEF TypeOK, Rows
    <3>4. QED
      BY <3>2, <3>3 DEF RenewedIn
  <2>4. Held(v, {}) + items[o][v] <= stock[v]
    BY <2>2, <2>3 DEF Affordable
  <2>5. Held(v, {})' <= Held(v, {})
    BY <1>1, <1>2, <2>2, NoMoreHolds
  <2>6. QED
    BY <1>3, <2>2, <2>4, <2>5
<1>6. ASSUME NEW p \in Orders, CancelOrder(p)
      PROVE  Held(v, {})' <= stock'[v]
  <2>1. p = o
    BY <1>1, <1>6, CancelHolding
  <2>2. /\ Holding(v)' \subseteq Holding(v) /\ items' = items /\ stock' = stock
        /\ {o} \in Renewals(LapsedRowsOf(o))
    BY <1>1, <1>2, <1>6, <2>1, CancelHolding
  <2>3. Held(v, {}) + items[o][v] <= stock[v]
    BY <1>1, <2>2, AloneIsCovered
  <2>4. Held(v, {})' <= Held(v, {})
    BY <1>1, <1>2, <2>2, NoMoreHolds
  <2>5. QED
    BY <1>3, <2>2, <2>3, <2>4
<1>7. CASE Sweep
  BY <1>4, <1>7 DEF Sweep, Batch
<1>8. ASSUME NEW p \in Orders, ShowOrder(p)
      PROVE  Held(v, {})' <= stock'[v]
  BY <1>4, <1>8 DEF ShowOrder, LapsedRowsOf
<1>9. QED
  BY <1>5, <1>6, <1>7, <1>8, OtherHolding

\* A row is brought back only if the stock of this moment covers it: whichever
\* request or job renews an order, if it renews no other, what is held of its
\* variants afterwards is in stock.
THEOREM RenewalsCovered == Spec => RenewalIsCovered
<1>1. IInv /\ [Next]_vars =>
        [\A o \in Orders :
            (RenewedIn(o) /\ \A p \in Orders \ {o} : ~RenewedIn(p))
                => \A v \in Lines(o) \cap Counted : Held(v, {})' <= stock'[v]]_vars
  BY RenewalStep
<1>2. Init => IInv
  BY InitIInv
<1>3. IInv /\ [Next]_vars => IInv'
  BY NextBacked
<1>4. QED
  BY <1>1, <1>2, <1>3, PTL DEF Spec, RenewalIsCovered

(***************************************************************************)
(* No oversell.  The code lets two kinds of step promise the same unit     *)
(* twice: a submission that decides with the stock it read before another  *)
(* request changed it, and a batch that renews two orders together.  When  *)
(* neither happens, and the catalogue is left alone, nothing is oversold.  *)
(***************************************************************************)

\* No step brings back the rows of two orders.
OneRenewal == \A o, p \in Orders : RenewedIn(o) /\ RenewedIn(p) => o = p

\* A request that has begun to submit has read the stock of this moment.
ReadsAreCurrent == \A o \in Orders : ~Unlocked(o) => submission[o].stock = stock

SerialIInv == IInv /\ ReadsAreCurrent /\ NoOversell

LEMMA SerialInit == Init => SerialIInv
<1> SUFFICES ASSUME Init PROVE ReadsAreCurrent /\ NoOversell
  BY InitIInv DEF SerialIInv
<1>1. ReadsAreCurrent
  BY DEF Init, ReadsAreCurrent, Unlocked
<1>2. ASSUME NEW v \in Counted PROVE Held(v, {}) <= stock[v]
  <2>1. v \in Variants /\ stock[v] \in Nat
    BY InitType DEF Counted, TypeOK
  <2>2. Holding(v) = {}
    BY <2>1 DEF Init, Holding, Live, Active, NoRow
  <2>3. Held(v, {}) = 0
    BY <2>2, HeldIs, TotalStep, FS_EmptySet
  <2>4. QED
    BY <2>1, <2>3
<1>3. QED
  BY <1>1, <1>2 DEF NoOversell

\* While a request is between its two halves, no other step is taken.
LEMMA SerialReads ==
    ASSUME IInv, ReadsAreCurrent, Next, Serial
    PROVE  ReadsAreCurrent'
<1>0. submission \in [Orders -> Submissions]
  BY DEF IInv, TypeOK
<1>1. ASSUME UNCHANGED submission PROVE ReadsAreCurrent'
  BY <1>1 DEF Serial, Unlocked, ReadsAreCurrent
<1>2. ASSUME NEW o \in Orders, NEW b \in Baskets, NEW byAdmin \in BOOLEAN, BeginSubmit(o, b, byAdmin)
      PROVE  ReadsAreCurrent'
  <2>1. /\ submission'[o].stock = stock /\ stock' = stock
        /\ \A p \in Orders \ {o} : submission'[p] = submission[p]
    BY <1>0, <1>2 DEF BeginSubmit
  <2>2. QED
    BY <2>1 DEF ReadsAreCurrent, Unlocked
<1>3. ASSUME NEW o \in Orders, SubmitReserves(o) \/ SubmitRejected(o)
      PROVE  ReadsAreCurrent'
  <2>1. /\ submission'[o] = Idle /\ stock' = stock
        /\ \A p \in Orders \ {o} : submission'[p] = submission[p]
    BY <1>0, <1>3 DEF SubmitReserves, SubmitRejected
  <2>2. QED
    BY <2>1 DEF ReadsAreCurrent, Unlocked
<1>4. QED
  BY <1>1, <1>2, <1>3
     DEF Next, Shopping, Catalogue, EditDraft, PayOrder, PayLate, CancelOrder, ShowOrder, Expire,
         SetStock, SetListed, Sweep, Tick

\* An expiration that renews one order at most keeps the live rows within the stock.
LEMMA ExpireWithinStock ==
    ASSUME TypeOK, TypeOK', NoOversell, OneRenewal,
           NEW rows, Expire(rows), NEW v \in Counted
    PROVE  Held(v, {})' <= stock'[v]
<1>1. PICK renewed \in Renewals(rows) :
        /\ reservation' = [p \in Orders |-> [w \in Variants |-> ExpiredRow(p, w, rows, renewed)]]
        /\ UNCHANGED <<items, stock>>
  BY DEF Expire
<1>2. /\ v \in Variants /\ Held(v, {}) <= stock[v]
      /\ stock'[v] = stock[v] /\ stock[v] \in Nat
  BY <1>1 DEF NoOversell, Counted, TypeOK
<1>3. Held(v, {}) \in Nat /\ Held(v, {})' \in Nat /\ \A p \in Orders : items[p][v] \in Nat
  BY <1>2, HeldTypes
<1>4. /\ Holding(v)' \subseteq Holding(v) \cup renewed
      /\ \A p \in Orders : RenewedIn(p) <=> p \in renewed
  BY <1>1, <1>2, ExpireHolding
<1>5. CASE renewed = {}
  <2>1. Held(v, {})' <= Held(v, {})
    BY <1>1, <1>2, <1>4, <1>5, NoMoreHolds
  <2>2. QED
    BY <1>2, <1>3, <2>1
<1>6. CASE renewed # {}
  <2>1. renewed \subseteq Orders
    BY RenewedMayRenew DEF Due
  <2>2. PICK o \in Orders : renewed = {o}
    BY <1>4, <1>6, <2>1 DEF OneRenewal
  <2>3. Held(v, {})' <= Held(v, {}) + items[o][v]
    <3>1. Held(v, {})' <= Held(v, {}) + items'[o][v]
      BY <1>1, <1>2, <1>4, <2>2, OneMoreHolds
    <3>2. QED
      BY <1>1, <3>1
  <2>4. v \in Lines(o) => Held(v, {}) + items[o][v] <= stock[v]
    BY <2>2, AloneIsCovered
  <2>5. v \notin Lines(o) => items[o][v] = 0
    BY <1>2, <1>3 DEF Lines
  <2>6. items[o][v] \in Nat
    BY <1>3
  <2>7. QED
    BY <1>2, <1>3, <2>3, <2>4, <2>5, <2>6
<1>7. QED
  BY <1>5, <1>6

\* A payment debits what its order held, or what it has just brought back.
LEMMA PayWithinStock ==
    ASSUME IInv, TypeOK', NoOversell, NEW o \in Orders, PayOrder(o) \/ PayLate(o), NEW v \in Counted
    PROVE  Held(v, {})' <= stock'[v]
<1>1. TypeOK /\ v \in Variants /\ v \notin Measured
  BY DEF IInv, Counted
<1>2. /\ Holding(v)' \subseteq Holding(v) \ {o} /\ items' = items
      /\ stock'[v] = IF Active(o, v) THEN stock[v] - items[o][v] ELSE stock[v]
      /\ LapsedRowsOf(o) # {} /\ v \in Lines(o) => Affordable(o, v)
  BY <1>1, PaymentHolding
<1>3. /\ Held(v, {}) \in Nat /\ Held(v, {})' \in Nat
      /\ stock[v] \in Nat /\ items[o][v] \in Nat
  BY <1>1, HeldTypes DEF TypeOK
<1>4. Held(v, {}) <= stock[v]
  BY DEF NoOversell
<1>5. Held(v, {})' <= Held(v, {})
  BY <1>1, <1>2, NoMoreHolds
<1>6. CASE ~Active(o, v)
  BY <1>2, <1>3, <1>4, <1>5, <1>6
<1>7. CASE Active(o, v) /\ LapsedRowsOf(o) # {}
  <2>1. v \in Lines(o)
    BY <1>1, <1>7, RowStatusOfOrder
  <2>2. Held(v, {}) + items[o][v] <= stock[v]
    BY <1>2, <1>7, <2>1 DEF Affordable
  <2>3. QED
    BY <1>2, <1>3, <1>5, <1>7, <2>2
<1>8. CASE Active(o, v) /\ LapsedRowsOf(o) = {}
  <2>1. ~Lapsed(o, v)
    <3>1. <<o, v>> \in Orders \X Variants
      BY <1>1
    <3>2. <<o, v>>[1] = o /\ <<o, v>>[2] = v
      OBVIOUS
    <3>3. QED
      BY <1>8, <3>1, <3>2, Zenon DEF LapsedRowsOf, LapsedRows
  <2>2. o \in Holding(v)
    BY <1>8, <2>1 DEF Holding, Live
  <2>3. Held(v, {})' + items[o][v] <= Held(v, {})
    BY <1>1, <1>2, <2>2, OneLessHolds
  <2>4. QED
    BY <1>2, <1>3, <1>4, <1>8, <2>3
<1>9. QED
  BY <1>6, <1>7, <1>8

\* A submission that compares its basket with the stock of this moment.
LEMMA SubmitWithinStock ==
    ASSUME IInv, TypeOK', NoOversell, ReadsAreCurrent,
           NEW o \in Orders, SubmitReserves(o), NEW v \in Counted
    PROVE  Held(v, {})' <= stock'[v]
<1>1. TypeOK /\ v \in Variants
  BY DEF IInv, Counted
<1>2. /\ \A p \in Orders \ {o} : reservation'[p] = reservation[p] /\ items'[p] = items[p]
      /\ items'[o] = submission[o].basket
      /\ stock' = stock
  BY <1>1 DEF SubmitReserves, TypeOK
<1>3. Holding(v)' \subseteq Holding(v) \cup {o}
  BY <1>2 DEF Holding, Live, Active, Lapsed
<1>4. Held(v, {})' <= Held(v, {}) + items'[o][v]
  <2>1. \A p \in Holding(v)' \ {o} : items'[p][v] = items[p][v]
    BY <1>2 DEF Holding
  <2>2. QED
    BY <1>1, <1>3, <2>1, OneMoreHolds
<1>5. submission[o].stock = stock
  BY DEF ReadsAreCurrent, SubmitReserves, Unlocked
<1>6. items'[o][v] > 0 => stock[v] - Held(v, {}) >= items'[o][v]
  BY <1>2, <1>5 DEF SubmitReserves, Reservable
<1>7. /\ Held(v, {}) \in Nat /\ Held(v, {})' \in Nat
      /\ stock[v] \in Nat /\ items'[o][v] \in Nat
  BY <1>1, HeldTypes DEF TypeOK
<1>8. Held(v, {}) <= stock[v]
  BY DEF NoOversell
<1>9. QED
  BY <1>2, <1>4, <1>6, <1>7, <1>8

LEMMA SerialStep ==
    SerialIInv /\ [Next /\ Untouched /\ Serial /\ OneRenewal]_vars => SerialIInv'
<1> SUFFICES ASSUME SerialIInv, [Next /\ Untouched /\ Serial /\ OneRenewal]_vars
             PROVE  SerialIInv'
  OBVIOUS
<1>1. IInv /\ IInv' /\ TypeOK /\ TypeOK' /\ ReadsAreCurrent /\ NoOversell
  BY NextBacked DEF SerialIInv, IInv
<1>2. CASE UNCHANGED vars
  <2>1. \A v \in Variants : Holding(v)' = Holding(v)
    BY <1>2 DEF vars, Holding, Live, Active, Lapsed
  <2>2. ASSUME NEW v \in Counted PROVE Held(v, {})' <= stock'[v]
    <3>1. v \in Variants /\ items' = items /\ stock' = stock
      BY <1>2 DEF vars, Counted
    <3>2. Held(v, {})' <= Held(v, {})
      BY <1>1, <2>1, <3>1, NoMoreHolds
    <3>3. /\ Held(v, {}) \in Nat /\ Held(v, {})' \in Nat /\ stock[v] \in Nat
          /\ Held(v, {}) <= stock[v]
      BY <1>1, <3>1, HeldTypes DEF TypeOK, NoOversell
    <3>4. QED
      BY <3>1, <3>2, <3>3
  <2>3. ReadsAreCurrent'
    BY <1>1, <1>2 DEF vars, ReadsAreCurrent, Unlocked
  <2>4. QED
    BY <1>1, <2>2, <2>3 DEF SerialIInv, NoOversell, Counted
<1>3. CASE Next /\ Untouched /\ Serial /\ OneRenewal
  <2>1. ReadsAreCurrent'
    BY <1>1, <1>3, SerialReads
  <2>2. ASSUME NEW v \in Counted PROVE Held(v, {})' <= stock'[v]
    <3>1. v \in Variants
      BY DEF Counted
    <3>2. CASE \E o \in Orders : PayOrder(o) \/ PayLate(o)
      BY <1>1, <3>2, PayWithinStock
    <3>3. CASE Sweep \/ \E o \in Orders : ShowOrder(o)
      BY <1>1, <1>3, <3>3, ExpireWithinStock DEF Sweep, ShowOrder
    <3>4. CASE \E o \in Orders : SubmitReserves(o)
      BY <1>1, <3>4, SubmitWithinStock
    <3>5. ASSUME /\ Holding(v)' \subseteq Holding(v) /\ stock' = stock
                 /\ \A p \in Holding(v) : items'[p][v] = items[p][v]
          PROVE  Held(v, {})' <= stock'[v]
      <4>1. Held(v, {})' <= Held(v, {})
        BY <1>1, <3>1, <3>5, NoMoreHolds
      <4>2. /\ Held(v, {}) \in Nat /\ Held(v, {})' \in Nat /\ stock[v] \in Nat
            /\ Held(v, {}) <= stock[v]
        BY <1>1, <3>1, HeldTypes DEF TypeOK, NoOversell
      <4>3. QED
        BY <3>5, <4>1, <4>2
    <3>6. CASE \E o \in Orders : CancelOrder(o)
      BY <1>1, <3>1, <3>5, <3>6, CancelHolding
    <3>7. CASE ~(Sweep \/ \E o \in Orders :
                            \/ PayOrder(o) \/ PayLate(o) \/ CancelOrder(o)
                            \/ ShowOrder(o) \/ SubmitReserves(o))
      <4>1. /\ Holding(v)' \subseteq Holding(v)
            /\ \A p \in Holding(v) : items'[p][v] = items[p][v]
        BY <1>1, <1>3, <3>1, <3>7, OtherHolding
      <4>2. stock' = stock
        BY <1>3, <3>7
           DEF Next, Shopping, Catalogue, EditDraft, BeginSubmit, SubmitRejected, SetStock, SetListed,
               Tick, Untouched
      <4>3. QED
        BY <3>5, <4>1, <4>2
    <3>8. QED
      BY <3>2, <3>3, <3>4, <3>6, <3>7
  <2>3. QED
    BY <1>1, <2>1, <2>2 DEF SerialIInv, NoOversell, Counted
<1>4. QED
  BY <1>2, <1>3

\* What is promised to one customer has not been promised to another: if requests do
\* not overlap and no transaction renews two orders, the live rows of a variant never
\* exceed its stock.
THEOREM NothingOversold ==
    Init /\ [][Next /\ Untouched /\ Serial /\ OneRenewal]_vars => []NoOversell
<1>1. SerialIInv => NoOversell
  BY DEF SerialIInv
<1>2. QED
  BY <1>1, SerialInit, SerialStep, PTL

\* The line of an order that holds v is part of what is held of it.
LEMMA LineIsHeld ==
    ASSUME TypeOK, NEW v \in Variants, NEW o \in Holding(v)
    PROVE  items[o][v] <= Held(v, {})
<1>1. /\ Holding(v) \in SUBSET Orders /\ IsFiniteSet(Holding(v))
      /\ \A p \in Holding(v) : items[p][v] \in Nat
  BY FiniteTables, FS_Subset DEF Holding, TypeOK
<1> DEFINE H == Holding(v)
           M == H \ {o}
<1>2. M \in SUBSET H /\ IsFiniteSet(M)
  BY <1>1, FS_Subset
<1>3. Total(items, v, H) = items[o][v] + Total(items, v, M)
  <2> HIDE DEF H
  <2>1. QED
    BY <1>1, TotalRemove DEF H
<1>4. Total(items, v, M) \in Nat /\ items[o][v] \in Nat
  <2>1. \A p \in M : items[p][v] \in Nat
    BY <1>1
  <2> HIDE DEF M
  <2>2. QED
    BY <1>1, <1>2, <2>1, TotalType
<1> HIDE DEF M
<1>5. QED
  BY <1>3, <1>4, HeldIs DEF H

\* An order whose rows are live can be paid for: the stock it has been promised is
\* there to be debited, so the compare-and-swap of the payment does not fail.
PromisesCanBeKept ==
    \A o \in Orders, v \in Counted : Live(o, v) => items[o][v] <= stock[v]

\* What is held of a variant is in stock, so each line that holds it is.
THEOREM PromisesAreKept ==
    Init /\ [][Next /\ Untouched /\ Serial /\ OneRenewal]_vars => []PromisesCanBeKept
<1>1. SerialIInv => PromisesCanBeKept
  <2> SUFFICES ASSUME SerialIInv, NEW o \in Orders, NEW v \in Counted, Live(o, v)
               PROVE  items[o][v] <= stock[v]
    BY DEF PromisesCanBeKept
  <2>1. TypeOK /\ v \in Variants /\ o \in Holding(v)
    BY DEF SerialIInv, IInv, Counted, Holding
  <2>2. items[o][v] <= Held(v, {}) /\ Held(v, {}) <= stock[v]
    BY <2>1, LineIsHeld DEF SerialIInv, NoOversell
  <2>3. items[o][v] \in Nat /\ stock[v] \in Nat /\ Held(v, {}) \in Nat
    BY <2>1, HeldType DEF TypeOK
  <2>4. QED
    BY <2>2, <2>3
<1>2. QED
  BY <1>1, SerialInit, SerialStep, PTL

(***************************************************************************)
(* A job that takes one row at a time renews one order at a time.          *)
(***************************************************************************)

\* Of two lapsed rows, one has the other before it and is not in a batch of one.
LEMMA BatchOfOne ==
    ASSUME BatchLimit = 1, NEW q \in Batch, NEW r \in Batch
    PROVE  q = r
<1> DEFINE before(x) == {y \in LapsedRows : y[1] < x[1] \/ (y[1] = x[1] /\ y[2] < x[2])}
<1>1. IsFiniteSet(LapsedRows)
  <2>1. IsFiniteSet(Orders \X Variants)
    BY FiniteTables, FS_Product
  <2>2. LapsedRows \subseteq Orders \X Variants
    BY DEF LapsedRows
  <2>3. QED
    BY <2>1, <2>2, FS_Subset
<1>2. ASSUME NEW x \in Batch PROVE x \in LapsedRows /\ before(x) = {}
  <2>1. x \in LapsedRows /\ Cardinality(before(x)) < BatchLimit
    BY DEF Batch
  <2>2. IsFiniteSet(before(x))
    BY <1>1, FS_Subset
  <2>3. Cardinality(before(x)) \in Nat
    BY <2>2, FS_CardinalityType
  <2>4. Cardinality(before(x)) = 0
    <3> HIDE DEF before
    <3>1. QED
      BY <2>1, <2>3
  <2>5. QED
    BY <2>1, <2>2, <2>4, FS_EmptySet
<1>3. /\ q[1] \in Nat /\ q[2] \in Nat /\ q = <<q[1], q[2]>>
      /\ r[1] \in Nat /\ r[2] \in Nat /\ r = <<r[1], r[2]>>
  BY <1>2, ReservationAssumption DEF LapsedRows
<1>4. ~(q[1] < r[1] \/ (q[1] = r[1] /\ q[2] < r[2]))
  BY <1>2
<1>5. ~(r[1] < q[1] \/ (r[1] = q[1] /\ r[2] < q[2]))
  BY <1>2
<1>6. q[1] = r[1] /\ q[2] = r[2]
  BY <1>3, <1>4, <1>5
<1>7. QED
  BY <1>3, <1>6

\* The rows a step renews are those of its batch, or those of its order.
LEMMA OneRowOneRenewal ==
    ASSUME IInv, Next, BatchLimit = 1
    PROVE  OneRenewal
<1>0. TypeOK
  BY DEF IInv
<1>1. ASSUME NEW rows, Expire(rows), \A q, r \in rows : q[1] = r[1]
      PROVE  OneRenewal
  <2>1. PICK renewed \in Renewals(rows) :
          reservation' = [p \in Orders |-> [w \in Variants |-> ExpiredRow(p, w, rows, renewed)]]
    BY <1>1 DEF Expire
  <2>2. \A o \in Orders : RenewedIn(o) <=> o \in renewed
    BY <1>0, <2>1, ExpireHolding
  <2>3. \A o \in renewed : o \in Orders /\ \E v \in Variants : <<o, v>> \in rows
    BY RenewedMayRenew DEF Due
  <2>4. \A o, p \in renewed : o = p
    BY <1>1, <2>3
  <2>5. QED
    BY <2>2, <2>4 DEF OneRenewal
<1>2. CASE Sweep
  BY <1>1, <1>2, BatchOfOne DEF Sweep
<1>3. ASSUME NEW o \in Orders, ShowOrder(o) PROVE OneRenewal
  <2>1. \A q, r \in LapsedRowsOf(o) : q[1] = r[1]
    BY DEF LapsedRowsOf
  <2>2. QED
    BY <1>1, <1>3, <2>1 DEF ShowOrder
<1>4. ASSUME NEW o \in Orders, PayOrder(o) \/ PayLate(o) PROVE OneRenewal
  BY <1>4, PaymentHolding DEF OneRenewal
<1>5. ASSUME NEW o \in Orders, CancelOrder(o) PROVE OneRenewal
  BY <1>0, <1>5, CancelHolding DEF OneRenewal
<1>6. QED
  BY <1>2, <1>3, <1>4, <1>5, OtherHolding DEF OneRenewal

\* The same of the run's specification, whose job takes one row at a time.
THEOREM NothingOversoldByOne == ASSUME BatchLimit = 1 PROVE SerialFairSpec => []NoOversell
<1>1. SerialIInv /\ [Next /\ Untouched /\ Serial]_vars => SerialIInv'
  BY SerialStep, OneRowOneRenewal DEF SerialIInv
<1>2. SerialIInv => NoOversell
  BY DEF SerialIInv
<1>3. QED
  BY <1>1, <1>2, SerialInit, PTL DEF SerialFairSpec

(***************************************************************************)
(* A cancelled order holds nothing.  The job's batch limit counts rows and *)
(* may cut an order in two, which the property does not survive; batches   *)
(* of whole orders it does.                                                *)
(***************************************************************************)

\* The batch takes an order with all of its lapsed rows.
WholeOrders == \A r \in Batch : LapsedRowsOf(r[1]) \subseteq Batch

\* The counted rows of an order share one fate: they are made, renewed and closed
\* together, and lapse at the same moment.
OneFate == \A o \in Orders : \A v, w \in Lines(o) \cap Counted : reservation[o][v] = reservation[o][w]

\* A line that has no row yet has nothing of one.
EmptyRows ==
    \A o \in Orders, v \in Variants : reservation[o][v].status = "none" => reservation[o][v] = NoRow

CancelIInv == IInv /\ EmptyRows /\ OneFate /\ CancelledHoldsNothing

LEMMA CancelInit == Init => CancelIInv
<1> SUFFICES ASSUME Init PROVE EmptyRows /\ OneFate /\ CancelledHoldsNothing
  BY InitIInv DEF CancelIInv
<1>1. \A o \in Orders : orderStatus[o] = "none" /\ \A v \in Variants : reservation[o][v] = NoRow
  BY DEF Init
<1>2. QED
  BY <1>1 DEF EmptyRows, OneFate, CancelledHoldsNothing, Counted

\* Rows are expired whole when those of an order are expired together.
Whole(rows) == rows \subseteq LapsedRows /\ \A r \in rows : LapsedRowsOf(r[1]) \subseteq rows

LEMMA RowsOfOneAreWhole == ASSUME NEW o \in Orders PROVE Whole(LapsedRowsOf(o))
<1>1. \A r \in LapsedRowsOf(o) : r[1] = o
  BY DEF LapsedRowsOf
<1>2. QED
  BY <1>1 DEF Whole, LapsedRowsOf

\* When a row of an order is expired, so is every counted row of it that is active.
LEMMA AllExpired ==
    ASSUME CancelIInv, NEW rows, Whole(rows), NEW o \in Orders,
           NEW v \in Variants, <<o, v>> \in rows, NEW w \in Counted, Active(o, w)
    PROVE  <<o, w>> \in rows
<1>1. /\ w \in Variants /\ w \notin Measured
      /\ TypeOK /\ Backed
  BY DEF CancelIInv, IInv, Counted
<1>2. Lapsed(o, v)
  BY DEF Whole, LapsedRows
<1>3. v \in Counted /\ v \in Lines(o) /\ w \in Lines(o)
  BY <1>1, <1>2, RowStatusOfOrder DEF CancelIInv, Lapsed, Counted
<1>4. reservation[o][w] = reservation[o][v]
  BY <1>1, <1>3 DEF CancelIInv, OneFate
<1>5. Lapsed(o, w)
  BY <1>1, <1>2, <1>4 DEF Lapsed, Active
<1>6. /\ <<o, w>> \in Orders \X Variants
      /\ <<o, w>>[1] = o /\ <<o, w>>[2] = w
  BY <1>1
<1>7. <<o, w>> \in LapsedRowsOf(o)
  BY <1>5, <1>6, Zenon DEF LapsedRowsOf, LapsedRows
<1>8. LapsedRowsOf(<<o, v>>[1]) \subseteq rows
  BY DEF Whole
<1>9. QED
  BY <1>7, <1>8

\* Whatever expiring whole orders and closing one does to a row, it does to the others.
LEMMA SameFate ==
    ASSUME CancelIInv, NEW rows, Whole(rows), NEW o \in Orders, NEW renewed, NEW status,
           NEW v \in Lines(o) \cap Counted, NEW w \in Lines(o) \cap Counted
    PROVE  /\ ExpiredRow(o, v, rows, renewed) = ExpiredRow(o, w, rows, renewed)
           /\ ClosedRow(o, v, rows, renewed, status) = ClosedRow(o, w, rows, renewed, status)
<1>1. v \in Variants /\ w \in Variants /\ reservation[o][v] = reservation[o][w]
  BY DEF CancelIInv, OneFate, Counted
<1>2. <<o, v>> \in rows \/ <<o, w>> \in rows => Active(o, v) /\ Active(o, w)
  BY <1>1 DEF Whole, LapsedRows, Lapsed, Active
<1>3. <<o, v>> \in rows <=> <<o, w>> \in rows
  BY <1>1, <1>2, AllExpired
<1>4. ExpiredRow(o, v, rows, renewed) = ExpiredRow(o, w, rows, renewed)
  BY <1>1, <1>3 DEF ExpiredRow
<1>5. QED
  BY <1>4 DEF ClosedRow

\* Expiring or closing a row leaves a row.
LEMMA RowsStayRows ==
    ASSUME EmptyRows, NEW rows, Whole(rows), NEW o \in Orders, NEW v \in Variants,
           NEW renewed, NEW status, status # "none"
    PROVE  /\ ExpiredRow(o, v, rows, renewed).status = "none" => ExpiredRow(o, v, rows, renewed) = NoRow
           /\ LET row == ClosedRow(o, v, rows, renewed, status)
              IN  row.status = "none" => row = NoRow
<1>1. ExpiredRow(o, v, rows, renewed).status = "none" => ExpiredRow(o, v, rows, renewed) = NoRow
  <2>1. CASE <<o, v>> \in rows
    BY <2>1 DEF ExpiredRow, Closed
  <2>2. CASE <<o, v>> \notin rows
    BY <2>2 DEF ExpiredRow, EmptyRows
  <2>3. QED
    BY <2>1, <2>2
<1>2. QED
  BY <1>1 DEF ClosedRow, Closed

\* The expiration of whole orders closes every counted row of the orders it cancels,
\* and gives those of the orders it renews the same time.
LEMMA ExpireWhole ==
    ASSUME CancelIInv, NEW rows, Whole(rows), Expire(rows)
    PROVE  EmptyRows' /\ OneFate' /\ CancelledHoldsNothing'
<1>1. PICK renewed \in Renewals(rows) :
        /\ orderStatus' = ExpiredStatus(rows, renewed)
        /\ reservation' = [o \in Orders |-> [v \in Variants |-> ExpiredRow(o, v, rows, renewed)]]
        /\ items' = items
  BY DEF Expire
<1>2. \A o \in Orders, v \in Variants :
        /\ reservation'[o][v] = ExpiredRow(o, v, rows, renewed)
        /\ orderStatus'[o] = IF o \in Due(rows) \ renewed THEN "cancelled" ELSE orderStatus[o]
  BY <1>1 DEF ExpiredStatus
<1>3. renewed \subseteq Due(rows)
  BY RenewedMayRenew
<1>4. ASSUME NEW o \in Due(rows), NEW w \in Counted, Active(o, w)
      PROVE  <<o, w>> \in rows
  <2>1. o \in Orders /\ \E v \in Variants : <<o, v>> \in rows
    BY DEF Due
  <2>2. QED
    BY <1>4, <2>1, AllExpired
<1>5. EmptyRows'
  <2>1. \A o \in Orders, v \in Variants :
          ExpiredRow(o, v, rows, renewed).status = "none" => ExpiredRow(o, v, rows, renewed) = NoRow
    BY RowsStayRows DEF CancelIInv
  <2>2. QED
    BY <1>2, <2>1 DEF EmptyRows
<1>6. OneFate'
  <2>1. \A o \in Orders : \A v, w \in Lines(o) \cap Counted :
          ExpiredRow(o, v, rows, renewed) = ExpiredRow(o, w, rows, renewed)
    BY SameFate
  <2>2. QED
    BY <1>1, <1>2, <2>1 DEF OneFate, Lines, Counted
<1>7. ASSUME NEW o \in Orders, NEW v \in Counted, orderStatus'[o] = "cancelled",
             reservation'[o][v].status = "active"
      PROVE  ~Live(o, v)'
  <2>1. v \in Variants
    BY DEF Counted
  <2>2. o \notin renewed
    BY <1>2, <1>3, <1>7, <2>1 DEF Due
  <2>3. <<o, v>> \notin rows /\ reservation'[o][v] = reservation[o][v]
    <3>1. ExpiredRow(o, v, rows, renewed).status = "active"
      BY <1>2, <1>7, <2>1
    <3>2. <<o, v>> \notin rows
      BY <2>2, <3>1 DEF ExpiredRow, Closed
    <3>3. ExpiredRow(o, v, rows, renewed) = reservation[o][v]
      BY <3>2 DEF ExpiredRow
    <3>4. QED
      BY <1>2, <2>1, <3>2, <3>3
  <2>4. o \notin Due(rows)
    BY <1>4, <1>7, <2>3 DEF Active
  <2>5. orderStatus[o] = "cancelled"
    BY <1>2, <1>7, <2>1, <2>4
  <2>6. ~Live(o, v)
    BY <2>5 DEF CancelIInv, CancelledHoldsNothing
  <2>7. QED
    BY <2>3, <2>6 DEF Live, Active, Lapsed
<1>8. CancelledHoldsNothing'
  BY <1>7 DEF CancelledHoldsNothing, Counted, Live, Active
<1>9. QED
  BY <1>5, <1>6, <1>8

\* A cancellation closes every counted row, renewed on the way or not.
LEMMA CancelCloses ==
    ASSUME CancelIInv, NEW o \in Orders, CancelOrder(o), NEW v \in Counted
    PROVE  reservation'[o][v].status # "active"
<1>0. TypeOK /\ v \in Variants
  BY DEF CancelIInv, IInv, Counted
<1> DEFINE rows == LapsedRowsOf(o)
<1>1. PICK renewed \in Renewals(rows) :
        reservation'[o][v] =
            IF rows = {} \/ o \in renewed THEN ClosedRow(o, v, rows, renewed, "released")
            ELSE ExpiredRow(o, v, rows, renewed)
  BY <1>0 DEF CancelOrder, TypeOK
<1>2. CASE rows = {} \/ o \in renewed
  <2>1. ClosedRow(o, v, rows, renewed, "released").status # "active"
    BY DEF ClosedRow, Closed
  <2>2. QED
    BY <1>1, <1>2, <2>1
<1>3. CASE rows # {} /\ o \notin renewed
  <2>1. PICK w \in Variants : <<o, w>> \in rows
    BY <1>3 DEF LapsedRowsOf, LapsedRows
  <2>2. Active(o, v) => <<o, v>> \in rows
    BY <1>0, <2>1, AllExpired, RowsOfOneAreWhole
  <2>3. ExpiredRow(o, v, rows, renewed).status # "active"
    BY <1>3, <2>2 DEF ExpiredRow, Closed, Active
  <2>4. QED
    BY <1>1, <1>3, <2>3
<1>4. QED
  BY <1>2, <1>3

\* A payment and a cancellation treat the counted rows of their order alike.
LEMMA CloseTogether ==
    ASSUME CancelIInv, NEW o \in Orders, PayOrder(o) \/ PayLate(o) \/ CancelOrder(o)
    PROVE  /\ \A v, w \in Lines(o) \cap Counted : reservation'[o][v] = reservation'[o][w]
           /\ \A v \in Variants : reservation'[o][v].status = "none" => reservation'[o][v] = NoRow
<1>0. TypeOK /\ EmptyRows /\ Whole(LapsedRowsOf(o)) /\ Counted \subseteq Variants
  BY RowsOfOneAreWhole DEF CancelIInv, IInv, Counted
<1>1. ASSUME NEW renewed, NEW status \in {"consumed", "released"},
             \/ \A v \in Variants :
                   reservation'[o][v] = ClosedRow(o, v, LapsedRowsOf(o), renewed, status)
             \/ \A v \in Variants :
                   reservation'[o][v] = ExpiredRow(o, v, LapsedRowsOf(o), renewed)
      PROVE  /\ \A v, w \in Lines(o) \cap Counted : reservation'[o][v] = reservation'[o][w]
             /\ \A v \in Variants : reservation'[o][v].status = "none" => reservation'[o][v] = NoRow
  <2>1. \A v, w \in Lines(o) \cap Counted : reservation'[o][v] = reservation'[o][w]
    BY <1>0, <1>1, SameFate
  <2>2. \A v \in Variants : reservation'[o][v].status = "none" => reservation'[o][v] = NoRow
    BY <1>0, <1>1, RowsStayRows
  <2>3. QED
    BY <2>1, <2>2
<1>2. CASE PayOrder(o) \/ PayLate(o)
  <2>1. PICK renewed :
          reservation' = [reservation EXCEPT ![o] =
            [v \in Variants |-> ClosedRow(o, v, LapsedRowsOf(o), renewed, "consumed")]]
    BY <1>2 DEF PayOrder, PayLate
  <2>2. \A v \in Variants :
          reservation'[o][v] = ClosedRow(o, v, LapsedRowsOf(o), renewed, "consumed")
    BY <1>0, <2>1 DEF TypeOK
  <2>3. QED
    BY <1>1, <2>2
<1>3. CASE CancelOrder(o)
  <2>1. PICK renewed \in Renewals(LapsedRowsOf(o)) :
          reservation' = [reservation EXCEPT ![o] =
            [v \in Variants |->
                IF LapsedRowsOf(o) = {} \/ o \in renewed
                THEN ClosedRow(o, v, LapsedRowsOf(o), renewed, "released")
                ELSE ExpiredRow(o, v, LapsedRowsOf(o), renewed)]]
    BY <1>3 DEF CancelOrder
  <2>2. \A v \in Variants :
          reservation'[o][v] =
              IF LapsedRowsOf(o) = {} \/ o \in renewed
              THEN ClosedRow(o, v, LapsedRowsOf(o), renewed, "released")
              ELSE ExpiredRow(o, v, LapsedRowsOf(o), renewed)
    BY <1>0, <2>1 DEF TypeOK
  <2>3. \/ \A v \in Variants :
              reservation'[o][v] = ClosedRow(o, v, LapsedRowsOf(o), renewed, "released")
        \/ \A v \in Variants :
              reservation'[o][v] = ExpiredRow(o, v, LapsedRowsOf(o), renewed)
    BY <2>2
  <2>4. QED
    BY <1>1, <2>3
<1>4. QED
  BY <1>2, <1>3

LEMMA CancelStep ==
    CancelIInv /\ [Next /\ (Sweep => WholeOrders)]_vars => CancelIInv'
<1> SUFFICES ASSUME CancelIInv, [Next /\ (Sweep => WholeOrders)]_vars
             PROVE  EmptyRows' /\ OneFate' /\ CancelledHoldsNothing'
  BY NextBacked DEF CancelIInv
<1>0. IInv /\ TypeOK /\ Counted \subseteq Variants
  BY DEF CancelIInv, IInv, Counted
<1>1. ASSUME NEW o \in Orders,
             \A p \in Orders \ {o} : /\ orderStatus'[p] = orderStatus[p]
                                     /\ items'[p] = items[p]
                                     /\ reservation'[p] = reservation[p],
             \A v \in Variants : reservation'[o][v].status = "none" => reservation'[o][v] = NoRow,
             \A v, w \in Counted :
                items'[o][v] > 0 /\ items'[o][w] > 0 => reservation'[o][v] = reservation'[o][w],
             \A v \in Counted : orderStatus'[o] = "cancelled" => reservation'[o][v].status # "active"
      PROVE  EmptyRows' /\ OneFate' /\ CancelledHoldsNothing'
  <2>1. EmptyRows'
    BY <1>1 DEF CancelIInv, EmptyRows
  <2>2. OneFate'
    BY <1>1 DEF CancelIInv, OneFate, Lines, Counted
  <2>3. CancelledHoldsNothing'
    BY <1>1 DEF CancelIInv, CancelledHoldsNothing, Live, Active, Lapsed, Counted
  <2>4. QED
    BY <2>1, <2>2, <2>3
<1>2. ASSUME UNCHANGED <<orderStatus, items, reservation>>
      PROVE  EmptyRows' /\ OneFate' /\ CancelledHoldsNothing'
  BY <1>2 DEF CancelIInv, EmptyRows, OneFate, Lines, CancelledHoldsNothing, Live, Active, Lapsed, Counted
<1>3. ASSUME NEW o \in Orders, NEW b \in Baskets, EditDraft(o, b)
      PROVE  EmptyRows' /\ OneFate' /\ CancelledHoldsNothing'
  <2>1. /\ orderStatus'[o] = "draft" /\ reservation' = reservation
        /\ \A p \in Orders \ {o} : /\ orderStatus'[p] = orderStatus[p]
                                   /\ items'[p] = items[p]
    BY <1>0, <1>3 DEF EditDraft, TypeOK
  <2>2. \A v \in Variants : reservation[o][v] = NoRow
    BY <1>3, RowStatusOfOrder, <1>0 DEF EditDraft, CancelIInv, EmptyRows
  <2>3. QED
    BY <1>0, <1>1, <2>1, <2>2
<1>4. ASSUME NEW o \in Orders, SubmitReserves(o)
      PROVE  EmptyRows' /\ OneFate' /\ CancelledHoldsNothing'
  <2>1. /\ orderStatus'[o] = "submitted"
        /\ \A p \in Orders \ {o} : /\ orderStatus'[p] = orderStatus[p]
                                   /\ items'[p] = items[p]
                                   /\ reservation'[p] = reservation[p]
    BY <1>0, <1>4 DEF SubmitReserves, TypeOK
  <2>2. \A v \in Variants :
          reservation'[o][v] = IF items'[o][v] > 0 THEN FreshRow(v) ELSE NoRow
    BY <1>0, <1>4 DEF SubmitReserves, TypeOK
  <2>3. \A v, w \in Counted : FreshRow(v) = FreshRow(w) /\ FreshRow(v).status # "none"
    BY DEF FreshRow, Counted
  <2>4. \A v \in Variants : FreshRow(v).status # "none"
    BY DEF FreshRow
  <2>5. \A v, w \in Counted :
          items'[o][v] > 0 /\ items'[o][w] > 0 => reservation'[o][v] = reservation'[o][w]
    BY <1>0, <2>2, <2>3
  <2>6. QED
    BY <1>1, <2>1, <2>2, <2>4, <2>5
<1>5. ASSUME NEW o \in Orders, PayOrder(o) \/ PayLate(o) \/ CancelOrder(o)
      PROVE  EmptyRows' /\ OneFate' /\ CancelledHoldsNothing'
  <2>1. /\ items' = items
        /\ \A p \in Orders \ {o} : /\ orderStatus'[p] = orderStatus[p]
                                   /\ reservation'[p] = reservation[p]
    BY <1>0, <1>5 DEF PayOrder, PayLate, CancelOrder, TypeOK
  <2>2. /\ \A v, w \in Lines(o) \cap Counted : reservation'[o][v] = reservation'[o][w]
        /\ \A v \in Variants : reservation'[o][v].status = "none" => reservation'[o][v] = NoRow
    BY <1>5, CloseTogether
  <2>3. \A v \in Counted : orderStatus'[o] = "cancelled" => reservation'[o][v].status # "active"
    <3>1. CASE PayOrder(o) \/ PayLate(o)
      BY <1>0, <3>1 DEF PayOrder, PayLate, TypeOK
    <3>2. CASE CancelOrder(o)
      BY <3>2, CancelCloses
    <3>3. QED
      BY <1>5, <3>1, <3>2
  <2>4. \A v, w \in Counted :
          items'[o][v] > 0 /\ items'[o][w] > 0 => reservation'[o][v] = reservation'[o][w]
    BY <1>0, <2>1, <2>2 DEF Lines
  <2>5. QED
    BY <1>1, <2>1, <2>2, <2>3, <2>4
<1>6. CASE Sweep /\ WholeOrders
  <2>1. Whole(Batch) /\ Expire(Batch)
    BY <1>6 DEF Sweep, Batch, WholeOrders, Whole
  <2>2. QED
    BY <2>1, ExpireWhole
<1>7. ASSUME NEW o \in Orders, ShowOrder(o)
      PROVE  EmptyRows' /\ OneFate' /\ CancelledHoldsNothing'
  BY <1>7, RowsOfOneAreWhole, ExpireWhole DEF ShowOrder
<1>8. CASE Tick
  <2>1. /\ \A o \in Orders, v \in Variants :
              reservation'[o][v] = IF Running(o, v) THEN [reservation[o][v] EXCEPT !.left = @ - 1]
                                   ELSE reservation[o][v]
        /\ orderStatus' = orderStatus /\ items' = items
    BY <1>8 DEF Tick
  <2>2. ASSUME NEW o \in Orders, NEW v \in Lines(o) \cap Counted, NEW w \in Lines(o) \cap Counted
        PROVE  reservation'[o][v] = reservation'[o][w]
    <3>1. reservation[o][v] = reservation[o][w] /\ v \in Variants /\ w \in Variants
      BY <1>0 DEF CancelIInv, OneFate
    <3>2. Running(o, v) <=> Running(o, w)
      BY <3>1 DEF Running, Live, Lapsed, Active, Counted
    <3>3. QED
      BY <2>1, <3>1, <3>2
  <2>3. ASSUME NEW o \in Orders, NEW v \in Counted, orderStatus[o] = "cancelled"
        PROVE  reservation'[o][v] = reservation[o][v]
    <3>1. ~Live(o, v) /\ v \in Variants
      BY <1>0, <2>3 DEF CancelIInv, CancelledHoldsNothing
    <3>2. QED
      BY <2>1, <3>1 DEF Running
  <2>4. ASSUME NEW o \in Orders, NEW v \in Variants, reservation'[o][v].status = "none"
        PROVE  reservation'[o][v] = NoRow
    <3>1. reservation[o][v] \in Rows
      BY <1>0 DEF TypeOK
    <3>2. ~Running(o, v)
      BY <2>1, <2>4, <3>1 DEF Running, Live, Active, Rows
    <3>3. QED
      BY <2>1, <2>4, <3>2 DEF CancelIInv, EmptyRows
  <2>5. OneFate'
    BY <2>1, <2>2 DEF OneFate, Lines, Counted
  <2>6. CancelledHoldsNothing'
    BY <2>1, <2>3 DEF CancelIInv, CancelledHoldsNothing, Live, Active, Lapsed, Counted
  <2>7. EmptyRows'
    BY <2>4 DEF EmptyRows
  <2>8. QED
    BY <2>5, <2>6, <2>7
<1>9. QED
  BY <1>2, <1>3, <1>4, <1>5, <1>6, <1>7, <1>8
     DEF Next, Shopping, Catalogue, BeginSubmit, SubmitRejected, SetStock, SetListed, vars

\* The counted rows of an order are made, renewed, closed and lapse together, as long as
\* the job takes whole orders: OrderPayments, which has one count of renewals and one
\* moment of lapsing for an order, rests on it.
THEOREM RowsShareOneFate ==
    Init /\ [][Next /\ (Sweep => WholeOrders)]_vars => []OneFate
<1>1. CancelIInv => OneFate
  BY DEF CancelIInv
<1>2. QED
  BY <1>1, CancelInit, CancelStep, PTL

\* A cancelled order holds no counted stock, whichever way it was cancelled, as long
\* as the job takes whole orders.
THEOREM NothingHeldInVain ==
    Init /\ [][Next /\ (Sweep => WholeOrders)]_vars => []CancelledHoldsNothing
<1>1. CancelIInv => CancelledHoldsNothing
  BY DEF CancelIInv
<1>2. QED
  BY <1>1, CancelInit, CancelStep, PTL

\* An order of counted lines only is paid for in full, however late, as long as the
\* job takes whole orders: its rows share one fate, and a paid order consumed one.
THEOREM CountedOrdersArePaidInFull ==
    Init /\ [][Next /\ (Sweep => WholeOrders)]_vars => []PaidInFull
<1>1. CancelIInv => PaidInFull
  <2> SUFFICES ASSUME CancelIInv, NEW o \in Orders, orderStatus[o] = "paid",
                      Lines(o) \subseteq Counted, NEW v \in Lines(o)
               PROVE  reservation[o][v].status = "consumed"
    BY DEF PaidInFull
  <2>1. PICK w \in Lines(o) : reservation[o][w].status = "consumed"
    BY DEF CancelIInv, IInv, Backed, RowsAgree
  <2>2. reservation[o][v] = reservation[o][w]
    BY DEF CancelIInv, OneFate
  <2>3. QED
    BY <2>1, <2>2
<1>2. QED
  BY <1>1, CancelInit, CancelStep, PTL

\* A batch that is never full is made of whole orders.
LEMMA AmpleBatch ==
    ASSUME Cardinality(Orders \X Variants) <= BatchLimit
    PROVE  WholeOrders
<1> DEFINE all == Orders \X Variants
           before(x) == {y \in LapsedRows : y[1] < x[1] \/ (y[1] = x[1] /\ y[2] < x[2])}
<1>1. IsFiniteSet(all) /\ LapsedRows \subseteq all
  BY FiniteTables, FS_Product DEF LapsedRows
<1>2. ASSUME NEW x \in LapsedRows PROVE x \in Batch
  <2>1. x \in all /\ before(x) \in SUBSET all
    BY <1>1
  <2>2. x \notin before(x)
    <3>1. x[1] \in Nat /\ x[2] \in Nat
      BY <2>1, ReservationAssumption
    <3>2. ~(x[1] < x[1]) /\ ~(x[2] < x[2])
      BY <3>1
    <3>3. QED
      BY <3>2
  <2>3. /\ Cardinality(all) \in Nat /\ Cardinality(before(x)) \in Nat
        /\ Cardinality(before(x)) <= Cardinality(all)
        /\ Cardinality(before(x)) # Cardinality(all)
    <3> HIDE DEF all, before
    <3>1. QED
      BY <1>1, <2>1, <2>2, FS_Subset, FS_CardinalityType
  <2>4. Cardinality(before(x)) < BatchLimit
    <3>1. BatchLimit \in Nat
      BY ReservationAssumption
    <3> HIDE DEF before
    <3>2. QED
      BY <2>3, <3>1
  <2>5. QED
    BY <2>4 DEF Batch
<1>3. QED
  BY <1>2 DEF WholeOrders, LapsedRowsOf

\* The same of the specification itself, where the batch limit is large enough for
\* every row there is.
THEOREM NothingHeldWithAmpleBatches ==
    ASSUME Cardinality(Orders \X Variants) <= BatchLimit
    PROVE  Spec => []CancelledHoldsNothing
<1>1. CancelIInv /\ [Next]_vars => CancelIInv'
  BY CancelStep, AmpleBatch
<1>2. CancelIInv => CancelledHoldsNothing
  BY DEF CancelIInv
<1>3. QED
  BY <1>1, <1>2, CancelInit, PTL DEF Spec
=============================================================================
