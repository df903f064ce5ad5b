------------------------------ MODULE Refunds ------------------------------
(***************************************************************************)
(* The incidents of one payment of Mercado Pago that was approved too late *)
(* and the refunds administrators ask the provider for                     *)
(* (services/refund_s.py, mercadopago_client.create_refund).               *)
(*                                                                         *)
(* Atomicity.  A refund locks its incident, inserts its row and asks the   *)
(* provider inside the transaction, so it is several actions; the others   *)
(* are one.  The row is identified by what its idempotency key is made of, *)
(* the incident and the amount: the column is unique, and the provider     *)
(* executes a key once.                                                    *)
(*                                                                         *)
(* External: the provider.  It may execute a request it was sent at any    *)
(* later time, also after the shop gave up waiting for the answer, and     *)
(* returns no more than the payment.                                       *)
(*                                                                         *)
(* PostgreSQL refuses the statement that locks the incident (FOR UPDATE of *)
(* an outer join, refund_s.py:234); this is the code as it runs where that *)
(* statement is accepted.                                                  *)
(***************************************************************************)
EXTENDS Naturals

CONSTANTS
    Admins,         \* requests that may be under way at once
    Paid,           \* the amount of the payment
    MaxIncidents    \* bound: how many incidents are ever opened

ASSUME RefundsAssumption == Paid \in Nat \ {0} /\ MaxIncidents \in Nat

VARIABLES
    incident,   \* the rows of payment_incidents of the payment, by id
    refund,     \* the rows of payment_refunds, by idempotency key
    worker,     \* the refund each request is making
    sent,       \* the keys the provider was sent
    returned,   \* the keys the provider executed
    left,       \* what the provider may still return
    lost        \* history: the keys sent by transactions that were rolled back

vars == <<incident, refund, worker, sent, returned, left, lost>>

Incidents == 1..MaxIncidents
Amounts == 1..Paid
Keys == Incidents \X Amounts
Free == [does |-> "nothing"]

TypeOK ==
    /\ incident \in [Incidents -> {"none", "pending_review", "resolved_refunded",
                                   "resolved_no_refund"}]
    /\ refund \in [Keys -> {"none", "requested", "approved", "failed"}]
    /\ worker \in [Admins -> {Free} \cup [does : {"refund"}, key : Keys, asked : BOOLEAN]]
    /\ sent \subseteq Keys
    /\ returned \subseteq sent
    /\ left \in 0..Paid
    /\ lost \subseteq sent

Init ==
    /\ incident = [i \in Incidents |-> "none"]
    /\ refund = [k \in Keys |-> "none"]
    /\ worker = [w \in Admins |-> Free]
    /\ sent = {}
    /\ returned = {}
    /\ left = Paid
    /\ lost = {}

Doing(w, k) == worker[w].does = "refund" /\ worker[w].key = k
Locked(i) == \E w \in Admins : worker[w].does = "refund" /\ worker[w].key[1] = i

-----------------------------------------------------------------------------
\* The provider reports the payment approved, perhaps again: one incident at most is pending.
OpenIncident(i) ==
    /\ incident[i] = "none"
    /\ \A j \in 1..(i - 1) : incident[j] # "none"
    /\ \A j \in Incidents : incident[j] # "pending_review"
    /\ incident' = [incident EXCEPT ![i] = "pending_review"]
    /\ UNCHANGED <<refund, worker, sent, returned, left, lost>>

\* Mutation: the incident is read without its lock.
ResolveNoRefundUnlocked(i) ==
    /\ incident[i] = "pending_review"
    /\ incident' = [incident EXCEPT ![i] = "resolved_no_refund"]
    /\ UNCHANGED <<refund, worker, sent, returned, left, lost>>

ResolveNoRefund(i) ==
    /\ ~Locked(i)
    /\ incident[i] = "pending_review"
    /\ incident' = [incident EXCEPT ![i] = "resolved_no_refund"]
    /\ UNCHANGED <<refund, worker, sent, returned, left, lost>>

Active == {k \in Keys : refund[k] \in {"requested", "approved"}}

\* Mutation: the payment's other refunds are not looked at, nor indexed.
InsertableTwice(k) == refund[k] = "none"
\* No refund of the payment is active, and no row has the key, also not a failed one.
Insertable(k) == Active = {} /\ refund[k] = "none"

\* The incident is locked and pending; the row is inserted.
RequestRefund(w, k) ==
    /\ worker[w] = Free
    /\ ~Locked(k[1])
    /\ incident[k[1]] = "pending_review"
    /\ Insertable(k)
    /\ refund' = [refund EXCEPT ![k] = "requested"]
    /\ worker' = [worker EXCEPT ![w] = [does |-> "refund", key |-> k, asked |-> FALSE]]
    /\ UNCHANGED <<incident, sent, returned, left, lost>>

\* The first of the attempts that carry the key.
Ask(w, k) ==
    /\ Doing(w, k) /\ ~worker[w].asked
    /\ sent' = sent \cup {k}
    /\ worker' = [worker EXCEPT ![w].asked = TRUE]
    /\ UNCHANGED <<incident, refund, returned, left, lost>>

ProviderReturns(k) ==
    /\ k \in sent \ returned
    /\ k[2] <= left
    /\ returned' = returned \cup {k}
    /\ left' = left - k[2]
    /\ UNCHANGED <<incident, refund, worker, sent, lost>>

\* Mutation: the incident takes the refund's status.
ApproveMislabels(w, k) ==
    /\ Doing(w, k) /\ worker[w].asked
    /\ k \in returned
    /\ refund' = [refund EXCEPT ![k] = "approved"]
    /\ incident' = [incident EXCEPT ![k[1]] = "approved"]
    /\ worker' = [worker EXCEPT ![w] = Free]
    /\ UNCHANGED <<sent, returned, left, lost>>

\* The provider confirms, and the transaction commits.
Approve(w, k) ==
    /\ Doing(w, k) /\ worker[w].asked
    /\ k \in returned
    /\ refund' = [refund EXCEPT ![k] = "approved"]
    /\ incident' = [incident EXCEPT ![k[1]] = "resolved_refunded"]
    /\ worker' = [worker EXCEPT ![w] = Free]
    /\ UNCHANGED <<sent, returned, left, lost>>

\* Mutation: the failure is not committed before it is raised.
FailRollsBack(w, k) ==
    /\ Doing(w, k)
    /\ refund' = [refund EXCEPT ![k] = "none"]
    /\ worker' = [worker EXCEPT ![w] = Free]
    /\ UNCHANGED <<incident, sent, returned, left, lost>>

\* A refusal, an unusable answer, a timeout of the last attempt, or nothing to ask for:
\* the row is marked and committed, and the incident stays pending.
Fail(w, k) ==
    /\ Doing(w, k)
    /\ refund' = [refund EXCEPT ![k] = "failed"]
    /\ worker' = [worker EXCEPT ![w] = Free]
    /\ UNCHANGED <<incident, sent, returned, left, lost>>

\* The process or its connection ends before either commit.
Crash(w, k) ==
    /\ Doing(w, k)
    /\ refund' = [refund EXCEPT ![k] = "none"]
    /\ lost' = IF worker[w].asked THEN lost \cup {k} ELSE lost
    /\ worker' = [worker EXCEPT ![w] = Free]
    /\ UNCHANGED <<incident, sent, returned, left>>

Next ==
    \/ \E i \in Incidents : OpenIncident(i) \/ ResolveNoRefund(i)
    \/ \E k \in Keys :
        \/ ProviderReturns(k)
        \/ \E w \in Admins :
            RequestRefund(w, k) \/ Ask(w, k) \/ Approve(w, k) \/ Fail(w, k) \/ Crash(w, k)

Spec == Init /\ [][Next]_vars

-----------------------------------------------------------------------------
\* RN-REF-03: whatever administrators do at once, and however often the incident is opened
\* again, the shop approves one refund of the payment at most, and an incident is resolved
\* as refunded by its own refund and no other.
OneRefundApproved ==
    /\ \A k, l \in Keys : refund[k] = "approved" /\ refund[l] = "approved" => k = l
    /\ \A i \in Incidents :
        incident[i] = "resolved_refunded" <=> \E k \in Keys : k[1] = i /\ refund[k] = "approved"

\* RN-REF-05: what the provider returned is on the shop's record, approved or at least
\* failed, unless the transaction that asked for it was rolled back by a crash; what is
\* approved was returned.
ReturnsAreOnRecord ==
    \A k \in Keys :
        /\ k \in returned => refund[k] # "none" \/ k \in lost
        /\ refund[k] = "approved" => k \in returned

\* While a refund is under way its incident waits for it: nobody decides it otherwise, and
\* a decision is never changed.
OneDecision ==
    /\ \A w \in Admins : worker[w].does = "refund" => incident[worker[w].key[1]] = "pending_review"
    /\ \A v, w \in Admins : worker[v].does = "refund" /\ worker[w].does = "refund" => v = w

DecisionsAreFinal ==
    [][\A i \in Incidents :
        incident[i] \in {"resolved_refunded", "resolved_no_refund"} => incident'[i] = incident[i]]_vars
=============================================================================
