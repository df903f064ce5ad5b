--------------------------- MODULE PaymentLedger ---------------------------
(***************************************************************************)
(* What the payment services promise about the money of one order (the     *)
(* single definition of "the order got paid" in services/payment_core_s.py *)
(* and the incidents of services/refund_s.py), with no provider, request   *)
(* or reservation in sight:                                                *)
(*   - the first money that finds the order open settles it, once;         *)
(*   - money that finds it void, or settled by another attempt, is claimed *)
(*     for review in the same step that credits it;                        *)
(*   - claims are never withdrawn, nor is a settled order reopened.        *)
(* And what they do not promise: the record of a paid attempt may be       *)
(* overwritten (Forget), after which another attempt's money is credited   *)
(* with no claim (CreditAgain); and a void order with lines of both kinds  *)
(* may still be settled (Revive).                                          *)
(* OrderPayments implements it.                                            *)
(***************************************************************************)
CONSTANTS
    Payments,  \* the payment attempts of the order
    Mixed      \* the order has counted lines and lines sold by measure

VARIABLES
    account,   \* "open", "settled" or "void"
    credited,  \* the attempts whose money has come in
    recorded,  \* the attempts whose record says so now
    claims     \* the attempts a person has to review

vars == <<account, credited, recorded, claims>>

Init ==
    /\ account = "open"
    /\ credited = {}
    /\ recorded = {}
    /\ claims = {}

\* A record that has been overwritten since it was read is not written again.
Credit(p) ==
    /\ credited' = credited \cup {p}
    /\ \/ recorded' = recorded \cup {p}
       \/ p \in credited /\ UNCHANGED recorded

Settle(p) ==
    /\ account = "open"
    /\ recorded = {}
    /\ account' = "settled"
    /\ Credit(p)
    /\ UNCHANGED claims

Revive(p) ==
    /\ account = "void"
    /\ Mixed
    /\ account' = "settled"
    /\ Credit(p)
    /\ UNCHANGED claims

\* The account may become void in the very step that finds the money too late.
CreditLate(p) ==
    /\ account' = IF account = "open" THEN "void" ELSE account
    /\ Credit(p)
    /\ claims' = claims \cup {p}

\* A second report of the attempt that is recorded, or no record is left.
CreditAgain(p) ==
    /\ account = "settled"
    /\ recorded \subseteq {p}
    /\ Credit(p)
    /\ UNCHANGED <<account, claims>>

Forget(p) ==
    /\ account # "open"
    /\ p \in recorded
    /\ recorded' = recorded \ {p}
    /\ UNCHANGED <<account, credited, claims>>

Void ==
    /\ account = "open"
    /\ account' = "void"
    /\ UNCHANGED <<credited, recorded, claims>>

Next ==
    \/ Void
    \/ \E p \in Payments :
          Settle(p) \/ Revive(p) \/ CreditLate(p) \/ CreditAgain(p) \/ Forget(p)

Spec == Init /\ [][Next]_vars
=============================================================================
