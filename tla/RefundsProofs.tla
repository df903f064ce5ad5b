---------------------------- MODULE RefundsProofs ----------------------------
(***************************************************************************)
(* The theorems of Refunds, for any number of administrators, incidents    *)
(* and amounts.                                                            *)
(***************************************************************************)
EXTENDS Refunds, TLAPS

\* A row is requested while, and only while, a request is making it.
RequestedIsUnderWay ==
    /\ \A w \in Admins : worker[w].does = "refund" => refund[worker[w].key] = "requested"
    /\ \A k \in Keys : refund[k] = "requested" => \E w \in Admins : Doing(w, k)

\* The rows the index of active refunds admits.
OneActive == \A k, l \in Active : k = l

\* What the provider was sent is decided, is being waited for, or was lost.
SentIsKnown ==
    /\ \A w \in Admins : worker[w].does = "refund" /\ worker[w].asked => worker[w].key \in sent
    /\ \A k \in sent : \/ k \in lost
                       \/ refund[k] \in {"approved", "failed"}
                       \/ \E w \in Admins : Doing(w, k) /\ worker[w].asked

ApprovedIsReturned == \A k \in Keys : refund[k] = "approved" => k \in returned

Inv ==
    /\ TypeOK
    /\ RequestedIsUnderWay
    /\ OneActive
    /\ SentIsKnown
    /\ OneRefundApproved
    /\ OneDecision
    /\ ApprovedIsReturned

LEMMA Parts ==
    ASSUME NEW k \in Keys
    PROVE  k[1] \in Incidents /\ k[2] \in Amounts
  BY DEF Keys

LEMMA Start == Init => Inv
  <1>. SUFFICES ASSUME Init PROVE Inv
    OBVIOUS
  <1>. USE RefundsAssumption DEF Init, Free
  <1>1. TypeOK
    BY DEF TypeOK
  <1>2. RequestedIsUnderWay
    BY DEF RequestedIsUnderWay
  <1>3. OneActive
    BY DEF OneActive, Active
  <1>4. SentIsKnown
    BY DEF SentIsKnown
  <1>5. OneRefundApproved
    BY DEF OneRefundApproved
  <1>6. OneDecision
    BY DEF OneDecision
  <1>7. ApprovedIsReturned
    BY DEF ApprovedIsReturned
  <1>. QED
    BY <1>1, <1>2, <1>3, <1>4, <1>5, <1>6, <1>7 DEF Inv

\* What a busy request holds.
LEMMA Busy ==
    ASSUME TypeOK, NEW w \in Admins, worker[w].does = "refund"
    PROVE  worker[w] \in [does : {"refund"}, key : Keys, asked : BOOLEAN]
  BY DEF TypeOK, Free

\* Every step keeps the invariant.
LEMMA Kept ==
    ASSUME Inv, [Next]_vars
    PROVE  Inv'
  <1>. USE RefundsAssumption DEF Inv
  <1>0. /\ incident \in [Incidents -> {"none", "pending_review", "resolved_refunded",
                                      "resolved_no_refund"}]
        /\ refund \in [Keys -> {"none", "requested", "approved", "failed"}]
        /\ worker \in [Admins -> {Free} \cup [does : {"refund"}, key : Keys, asked : BOOLEAN]]
        /\ Free.does # "refund"
    BY DEF TypeOK, Free
  <1>1. ASSUME NEW i \in Incidents, OpenIncident(i)
        PROVE  Inv'
    <2>1. TypeOK'
      BY <1>0, <1>1 DEF OpenIncident, TypeOK
    <2>2. RequestedIsUnderWay'
      BY <1>0, <1>1 DEF OpenIncident, RequestedIsUnderWay, Doing
    <2>3. OneActive'
      BY <1>0, <1>1 DEF OpenIncident, OneActive, Active, RequestedIsUnderWay, Doing
    <2>4. SentIsKnown'
      BY <1>0, <1>1 DEF OpenIncident, SentIsKnown, Doing, RequestedIsUnderWay
    <2>5. OneRefundApproved'
      BY <1>0, <1>1 DEF OpenIncident, OneRefundApproved, OneActive, Active, RequestedIsUnderWay, Doing, OneDecision
    <2>6. OneDecision'
      BY <1>0, <1>1 DEF OpenIncident, OneDecision, Doing, RequestedIsUnderWay, Active, Locked
    <2>7. ApprovedIsReturned'
      BY <1>0, <1>1 DEF OpenIncident, ApprovedIsReturned
    <2>. QED
      BY <2>1, <2>2, <2>3, <2>4, <2>5, <2>6, <2>7
  <1>2. ASSUME NEW i \in Incidents, ResolveNoRefund(i)
        PROVE  Inv'
    <2>1. TypeOK'
      BY <1>0, <1>2 DEF ResolveNoRefund, Locked, TypeOK
    <2>2. RequestedIsUnderWay'
      BY <1>0, <1>2 DEF ResolveNoRefund, Locked, RequestedIsUnderWay, Doing
    <2>3. OneActive'
      BY <1>0, <1>2 DEF ResolveNoRefund, Locked, OneActive, Active, RequestedIsUnderWay, Doing
    <2>4. SentIsKnown'
      BY <1>0, <1>2 DEF ResolveNoRefund, Locked, SentIsKnown, Doing, RequestedIsUnderWay
    <2>5. OneRefundApproved'
      BY <1>0, <1>2 DEF ResolveNoRefund, Locked, OneRefundApproved, OneActive, Active, RequestedIsUnderWay, Doing, OneDecision
    <2>6. OneDecision'
      BY <1>0, <1>2 DEF ResolveNoRefund, Locked, OneDecision, Doing, RequestedIsUnderWay, Active, Locked
    <2>7. ApprovedIsReturned'
      BY <1>0, <1>2 DEF ResolveNoRefund, Locked, ApprovedIsReturned
    <2>. QED
      BY <2>1, <2>2, <2>3, <2>4, <2>5, <2>6, <2>7
  <1>3. ASSUME NEW k \in Keys, ProviderReturns(k)
        PROVE  Inv'
    <2>1. TypeOK'
      <3>1. left - k[2] \in 0..Paid
        BY <1>3, Parts DEF ProviderReturns, TypeOK, Amounts
      <3>. QED
        BY <1>3, <3>1 DEF ProviderReturns, TypeOK
    <2>2. RequestedIsUnderWay'
      BY <1>0, <1>3, Parts DEF ProviderReturns, RequestedIsUnderWay, Doing
    <2>3. OneActive'
      BY <1>0, <1>3, Parts DEF ProviderReturns, OneActive, Active, RequestedIsUnderWay, Doing
    <2>4. SentIsKnown'
      BY <1>0, <1>3, Parts DEF ProviderReturns, SentIsKnown, Doing, RequestedIsUnderWay
    <2>5. OneRefundApproved'
      BY <1>0, <1>3, Parts DEF ProviderReturns, OneRefundApproved, OneActive, Active, RequestedIsUnderWay, Doing, OneDecision
    <2>6. OneDecision'
      BY <1>0, <1>3, Parts DEF ProviderReturns, OneDecision, Doing, RequestedIsUnderWay, Active, Locked
    <2>7. ApprovedIsReturned'
      BY <1>0, <1>3, Parts DEF ProviderReturns, ApprovedIsReturned
    <2>. QED
      BY <2>1, <2>2, <2>3, <2>4, <2>5, <2>6, <2>7
  <1>4. ASSUME NEW k \in Keys, NEW w \in Admins, RequestRefund(w, k)
        PROVE  Inv'
    <2>1. TypeOK'
      BY <1>0, <1>4, Parts DEF RequestRefund, Insertable, Locked, TypeOK
    <2>2. RequestedIsUnderWay'
      BY <1>0, <1>4, Parts DEF RequestRefund, Insertable, Locked, RequestedIsUnderWay, Doing
    <2>3. OneActive'
      BY <1>0, <1>4, Parts DEF RequestRefund, Insertable, Locked, OneActive, Active, RequestedIsUnderWay, Doing
    <2>4. SentIsKnown'
      BY <1>0, <1>4, Parts DEF RequestRefund, Insertable, Locked, SentIsKnown, Doing, RequestedIsUnderWay
    <2>5. OneRefundApproved'
      BY <1>0, <1>4, Parts DEF RequestRefund, Insertable, Locked, OneRefundApproved, OneActive, Active, RequestedIsUnderWay, Doing, OneDecision
    <2>6. OneDecision'
      BY <1>0, <1>4, Parts DEF RequestRefund, Insertable, Locked, OneDecision, Doing, RequestedIsUnderWay, Active, Locked
    <2>7. ApprovedIsReturned'
      BY <1>0, <1>4, Parts DEF RequestRefund, Insertable, Locked, ApprovedIsReturned
    <2>. QED
      BY <2>1, <2>2, <2>3, <2>4, <2>5, <2>6, <2>7
  <1>5. ASSUME NEW k \in Keys, NEW w \in Admins, Ask(w, k)
        PROVE  Inv'
    <2>0. worker[w].does = "refund" /\ worker[w].key = k /\ worker[w] \in [does : {"refund"}, key : Keys, asked : BOOLEAN]
      BY <1>5, Busy DEF Ask, Doing
    <2>1. TypeOK'
      BY <1>0, <1>5, <2>0, Parts DEF Ask, TypeOK
    <2>2. RequestedIsUnderWay'
      BY <1>0, <1>5, <2>0, Parts DEF Ask, RequestedIsUnderWay, Doing
    <2>3. OneActive'
      BY <1>0, <1>5, <2>0, Parts DEF Ask, OneActive, Active, RequestedIsUnderWay, Doing
    <2>4. SentIsKnown'
      BY <1>0, <1>5, <2>0, Parts DEF Ask, SentIsKnown, Doing, RequestedIsUnderWay
    <2>5. OneRefundApproved'
      BY <1>0, <1>5, <2>0, Parts DEF Ask, OneRefundApproved, OneActive, Active, RequestedIsUnderWay, Doing, OneDecision
    <2>6. OneDecision'
      BY <1>0, <1>5, <2>0, Parts DEF Ask, OneDecision, Doing, RequestedIsUnderWay, Active, Locked
    <2>7. ApprovedIsReturned'
      BY <1>0, <1>5, <2>0, Parts DEF Ask, ApprovedIsReturned
    <2>. QED
      BY <2>1, <2>2, <2>3, <2>4, <2>5, <2>6, <2>7
  <1>6. ASSUME NEW k \in Keys, NEW w \in Admins, Approve(w, k)
        PROVE  Inv'
    <2>0. worker[w].does = "refund" /\ worker[w].key = k /\ worker[w] \in [does : {"refund"}, key : Keys, asked : BOOLEAN]
      BY <1>6, Busy DEF Approve, Doing
    <2>a. refund[k] = "requested" /\ \A v \in Admins : v # w => worker[v].does # "refund"
      BY <2>0 DEF RequestedIsUnderWay, OneDecision
    <2>b. \A l \in Keys : l # k => refund[l] # "requested"
      BY <2>a DEF OneActive, Active
    <2>c. worker' = [worker EXCEPT ![w] = Free] /\ \E x \in {"approved", "failed", "none"} : refund' = [refund EXCEPT ![k] = x]
      BY <1>6 DEF Approve
    <2>1. TypeOK'
      BY <1>0, <1>6, <2>0, Parts DEF Approve, TypeOK
    <2>2. RequestedIsUnderWay'
      BY <1>0, <2>a, <2>b, <2>c DEF RequestedIsUnderWay, Doing
    <2>3. OneActive'
      BY <1>0, <1>6, <2>0, Parts DEF Approve, OneActive, Active, RequestedIsUnderWay, Doing
    <2>4. SentIsKnown'
      BY <1>0, <1>6, <2>0, Parts DEF Approve, SentIsKnown, Doing, RequestedIsUnderWay
    <2>5. OneRefundApproved'
      BY <1>0, <1>6, <2>0, Parts DEF Approve, OneRefundApproved, OneActive, Active, RequestedIsUnderWay, Doing, OneDecision
    <2>6. OneDecision'
      BY <1>0, <1>6, <2>0, Parts DEF Approve, OneDecision, Doing, RequestedIsUnderWay, Active, Locked
    <2>7. ApprovedIsReturned'
      BY <1>0, <1>6, <2>0, Parts DEF Approve, ApprovedIsReturned
    <2>. QED
      BY <2>1, <2>2, <2>3, <2>4, <2>5, <2>6, <2>7
  <1>7. ASSUME NEW k \in Keys, NEW w \in Admins, Fail(w, k)
        PROVE  Inv'
    <2>0. worker[w].does = "refund" /\ worker[w].key = k /\ worker[w] \in [does : {"refund"}, key : Keys, asked : BOOLEAN]
      BY <1>7, Busy DEF Fail, Doing
    <2>a. refund[k] = "requested" /\ \A v \in Admins : v # w => worker[v].does # "refund"
      BY <2>0 DEF RequestedIsUnderWay, OneDecision
    <2>b. \A l \in Keys : l # k => refund[l] # "requested"
      BY <2>a DEF OneActive, Active
    <2>c. worker' = [worker EXCEPT ![w] = Free] /\ \E x \in {"approved", "failed", "none"} : refund' = [refund EXCEPT ![k] = x]
      BY <1>7 DEF Fail
    <2>1. TypeOK'
      BY <1>0, <1>7, <2>0, Parts DEF Fail, TypeOK
    <2>2. RequestedIsUnderWay'
      BY <1>0, <2>a, <2>b, <2>c DEF RequestedIsUnderWay, Doing
    <2>3. OneActive'
      BY <1>0, <1>7, <2>0, Parts DEF Fail, OneActive, Active, RequestedIsUnderWay, Doing
    <2>4. SentIsKnown'
      BY <1>0, <1>7, <2>0, Parts DEF Fail, SentIsKnown, Doing, RequestedIsUnderWay
    <2>5. OneRefundApproved'
      BY <1>0, <1>7, <2>0, Parts DEF Fail, OneRefundApproved, OneActive, Active, RequestedIsUnderWay, Doing, OneDecision
    <2>6. OneDecision'
      BY <1>0, <1>7, <2>0, Parts DEF Fail, OneDecision, Doing, RequestedIsUnderWay, Active, Locked
    <2>7. ApprovedIsReturned'
      BY <1>0, <1>7, <2>0, Parts DEF Fail, ApprovedIsReturned
    <2>. QED
      BY <2>1, <2>2, <2>3, <2>4, <2>5, <2>6, <2>7
  <1>8. ASSUME NEW k \in Keys, NEW w \in Admins, Crash(w, k)
        PROVE  Inv'
    <2>0. worker[w].does = "refund" /\ worker[w].key = k /\ worker[w] \in [does : {"refund"}, key : Keys, asked : BOOLEAN]
      BY <1>8, Busy DEF Crash, Doing
    <2>a. refund[k] = "requested" /\ \A v \in Admins : v # w => worker[v].does # "refund"
      BY <2>0 DEF RequestedIsUnderWay, OneDecision
    <2>b. \A l \in Keys : l # k => refund[l] # "requested"
      BY <2>a DEF OneActive, Active
    <2>c. worker' = [worker EXCEPT ![w] = Free] /\ \E x \in {"approved", "failed", "none"} : refund' = [refund EXCEPT ![k] = x]
      BY <1>8 DEF Crash
    <2>1. TypeOK'
      <3>1. worker[w].asked => k \in sent
        BY <2>0 DEF SentIsKnown
      <3>2. lost' \subseteq sent
        BY <1>8, <3>1 DEF Crash, TypeOK
      <3>. QED
        BY <1>0, <1>8, <3>2 DEF Crash, TypeOK
    <2>2. RequestedIsUnderWay'
      BY <1>0, <2>a, <2>b, <2>c DEF RequestedIsUnderWay, Doing
    <2>3. OneActive'
      BY <1>0, <1>8, <2>0, Parts DEF Crash, OneActive, Active, RequestedIsUnderWay, Doing
    <2>4. SentIsKnown'
      BY <1>0, <1>8, <2>0, Parts DEF Crash, SentIsKnown, Doing, RequestedIsUnderWay
    <2>5. OneRefundApproved'
      BY <1>0, <1>8, <2>0, Parts DEF Crash, OneRefundApproved, OneActive, Active, RequestedIsUnderWay, Doing, OneDecision
    <2>6. OneDecision'
      BY <1>0, <1>8, <2>0, Parts DEF Crash, OneDecision, Doing, RequestedIsUnderWay, Active, Locked
    <2>7. ApprovedIsReturned'
      BY <1>0, <1>8, <2>0, Parts DEF Crash, ApprovedIsReturned
    <2>. QED
      BY <2>1, <2>2, <2>3, <2>4, <2>5, <2>6, <2>7
  <1>9. CASE UNCHANGED vars
    BY <1>9 DEF vars, TypeOK, RequestedIsUnderWay, OneActive, Active, SentIsKnown, Doing,
                OneRefundApproved, OneDecision, ApprovedIsReturned
  <1>. QED
    BY <1>1, <1>2, <1>3, <1>4, <1>5, <1>6, <1>7, <1>8, <1>9 DEF Next

LEMMA Always == Spec => []Inv
  BY Start, Kept, PTL DEF Spec

-----------------------------------------------------------------------------
\* Types, for any number of requests.
THEOREM TypeCorrect == Spec => []TypeOK
  BY Always, PTL DEF Inv

\* RN-REF-03 and RN-REF-05: one refund is approved, by its own incident, whatever requests
\* are under way, and what the provider returned is on record unless a crash lost it.
THEOREM RefundsOnRecord == Spec => [](OneRefundApproved /\ ReturnsAreOnRecord /\ OneDecision)
  <1>1. Inv => OneRefundApproved /\ ReturnsAreOnRecord /\ OneDecision
    BY DEF Inv, TypeOK, SentIsKnown, ReturnsAreOnRecord, ApprovedIsReturned, RequestedIsUnderWay,
           Doing
  <1>. QED
    BY <1>1, Always, PTL

\* RN-REF-03 alone: two administrators who refund one payment at the same time, for one
\* incident or for two, do not both have their refund approved.
THEOREM OneApproval == Spec => []OneRefundApproved
  BY RefundsOnRecord, PTL

\* Nobody changes a decision.
THEOREM DecisionsStay == Spec => DecisionsAreFinal
  <1>. DEFINE Final == \A i \in Incidents :
                incident[i] \in {"resolved_refunded", "resolved_no_refund"} => incident'[i] = incident[i]
  <1>1. Inv /\ [Next]_vars => [Final]_vars
    <2>. SUFFICES ASSUME Inv, Next PROVE Final
      BY DEF vars
    <2>1. incident \in [Incidents -> {"none", "pending_review", "resolved_refunded",
                                     "resolved_no_refund"}]
      BY DEF Inv, TypeOK
    <2>2. \A k \in Keys, w \in Admins : Doing(w, k) => incident[k[1]] = "pending_review"
      BY DEF Inv, OneDecision, Doing
    <2>. QED
      BY <2>1, <2>2, Parts DEF Next, OpenIncident, ResolveNoRefund, ProviderReturns, RequestRefund,
                               Ask, Approve, Fail, Crash
  <1>. QED
    BY <1>1, Always, PTL DEF Spec, DecisionsAreFinal
=============================================================================
