--------------------------- MODULE WebhookEvents ---------------------------
(***************************************************************************)
(* The provider's notifications and the table that makes each take effect  *)
(* once (services/webhook_events_s.py): the webhook route, the job that    *)
(* reprocesses failed events and the administrator's replay.               *)
(*                                                                         *)
(* Atomicity.  Acquiring an event holds its row (a unique index for a new  *)
(* one, FOR UPDATE for an old one) until the transaction ends, so the      *)
(* route and the replay are one action each.  The job is not: it lists the *)
(* failed events first, and what its session has loaded of them is not     *)
(* refreshed by the lock it takes later.  A commit or a rollback expires   *)
(* the session; the next event is then loaded again, without a lock, when  *)
(* its turn comes and before its lock is asked for.                        *)
(*                                                                         *)
(* Applying the provider's state (OrderPayments) is an outcome here: it    *)
(* succeeds, it fails, or the payment is not there yet.                    *)
(***************************************************************************)
EXTENDS Naturals, FiniteSets

CONSTANTS
    Events,       \* the event keys
    MaxAttempts,  \* DEFAULT_WEBHOOK_MAX_ATTEMPTS
    OldFailures   \* events the table holds as failed from the start

ASSUME EventAssumption ==
    /\ MaxAttempts \in Nat \ {0}
    /\ OldFailures \subseteq Events
    /\ OldFailures # {} => MaxAttempts > 1

VARIABLES
    event,     \* the WebhookEvent row of each key
    applied,   \* how often the effect of each event has been committed
    known,     \* the events whose payment is committed on this side
    delivery,  \* what the provider is doing about each event
    listed,    \* the events the job has still to take
    loaded     \* what the job's session holds of each row, or Expired

vars == <<event, applied, known, delivery, listed, loaded>>

Statuses == {"none", "processed", "failed", "dead_letter"}
Deliveries == {"idle", "sent", "answered"}

NoEvent == [status |-> "none", attempts |-> 0, due |-> FALSE]
Expired == [status |-> "expired", attempts |-> 0, due |-> FALSE]

\* Two applications are as many as any more.
Twice == 2

-----------------------------------------------------------------------------
(* The bookkeeping *)

\* Mutation: any row will do.
AnyRow(row) == TRUE

\* acquire_webhook_event: a new row, or one that failed.
Acquirable(row) == row.status \in {"none", "failed", "dead_letter"}

\* What a replay or the job may take up again.
Retakable(row) == row.status \in {"failed", "dead_letter"}

Processed(row) == [row EXCEPT !.status = "processed", !.due = FALSE]

\* Mutation: the attempt is not counted.
FailedUncounted(row) == [row EXCEPT !.status = "failed", !.due = FALSE]

\* Mutation: there is no last attempt.
FailedForever(row) ==
    [status |-> "failed", attempts |-> row.attempts + 1, due |-> FALSE]

\* Mutation: the last attempt is never made.
FailedEarly(row) ==
    LET n == IF row.attempts < MaxAttempts THEN row.attempts + 1 ELSE MaxAttempts IN
    [status |-> IF n >= MaxAttempts - 1 THEN "dead_letter" ELSE "failed",
     attempts |-> n, due |-> FALSE]

\* mark_webhook_event_failed: the count is only compared with MaxAttempts, and
\* stops there.
Failed(row) ==
    LET n == IF row.attempts < MaxAttempts THEN row.attempts + 1 ELSE MaxAttempts IN
    [status |-> IF n = MaxAttempts THEN "dead_letter" ELSE "failed",
     attempts |-> n, due |-> FALSE]

\* The effect is committed with the mark, or not at all.
Apply(e, row) ==
    /\ e \in known
    /\ event' = [event EXCEPT ![e] = Processed(row)]
    /\ applied' = [applied EXCEPT ![e] = IF @ < Twice THEN @ + 1 ELSE @]

\* The payment is not there, or applying its state raises.
Fail(e, row) ==
    /\ event' = [event EXCEPT ![e] = Failed(row)]
    /\ UNCHANGED applied

-----------------------------------------------------------------------------
(* The provider and the route *)

\* Notifications are sent for new events, and again for old ones.
Notify(e) ==
    /\ delivery[e] # "sent"
    /\ delivery' = [delivery EXCEPT ![e] = "sent"]
    /\ UNCHANGED <<event, applied, known, listed, loaded>>

\* The transaction that creates the payment commits.
CommitPayment(e) ==
    /\ e \notin known
    /\ known' = known \cup {e}
    /\ UNCHANGED <<event, applied, delivery, listed, loaded>>

Answer(e) == delivery' = [delivery EXCEPT ![e] = "answered"]

RouteApplies(e) ==
    /\ delivery[e] = "sent"
    /\ Acquirable(event[e])
    /\ Apply(e, event[e])
    /\ Answer(e)
    /\ UNCHANGED <<known, listed, loaded>>

\* The event is marked failed, but the no-op is raised and the route rolls the
\* mark back; the provider is told 200 and will not try again.
RouteNotFound(e) ==
    /\ delivery[e] = "sent"
    /\ Acquirable(event[e])
    /\ e \notin known
    /\ Answer(e)
    /\ UNCHANGED <<event, applied, known, listed, loaded>>

\* A processed event is a duplicate: 200.
RouteDuplicate(e) ==
    /\ delivery[e] = "sent"
    /\ ~Acquirable(event[e])
    /\ Answer(e)
    /\ UNCHANGED <<event, applied, known, listed, loaded>>

\* Any other failure is rolled back too and answered 503: the provider keeps at it.
RouteFails(e) ==
    /\ delivery[e] = "sent"
    /\ Acquirable(event[e])
    /\ UNCHANGED vars

\* The provider gives up after its own number of tries.
GiveUp(e) ==
    /\ delivery[e] = "sent"
    /\ delivery' = [delivery EXCEPT ![e] = "idle"]
    /\ UNCHANGED <<event, applied, known, listed, loaded>>

-----------------------------------------------------------------------------
(* Replay and reprocessing *)

Replay(e) ==
    /\ Retakable(event[e])
    /\ Apply(e, event[e]) \/ Fail(e, event[e])
    /\ UNCHANGED <<known, delivery, listed, loaded>>

\* next_retry_at comes.
FallDue(e) ==
    /\ event[e].status = "failed"
    /\ ~event[e].due
    /\ event' = [event EXCEPT ![e].due = TRUE]
    /\ UNCHANGED <<applied, known, delivery, listed, loaded>>

\* The job loads the rows that are failed and due, with no lock.
ListFailed ==
    LET retryable == {e \in Events : event[e].status = "failed" /\ event[e].due} IN
    /\ listed = {}
    /\ retryable # {}
    /\ listed' = retryable
    /\ loaded' = [e \in Events |-> IF e \in retryable THEN event[e] ELSE Expired]
    /\ UNCHANGED <<event, applied, known, delivery>>

\* After a commit the next event is loaded again by the first look at it.
Reload(e) ==
    /\ e \in listed
    /\ \A f \in listed : loaded[f] = Expired
    /\ loaded' = [loaded EXCEPT ![e] = event[e]]
    /\ UNCHANGED <<event, applied, known, delivery, listed>>

\* The row is locked and taken to be what is loaded.  Each event ends in a commit,
\* or in a rollback if it is not acquired; both expire what the session has loaded.
Reprocess(e) ==
    /\ e \in listed /\ loaded[e] # Expired
    /\ listed' = listed \ {e}
    /\ loaded' = [f \in Events |-> Expired]
    /\ \/ /\ Retakable(loaded[e])
          /\ Apply(e, loaded[e]) \/ Fail(e, loaded[e])
       \/ /\ ~Retakable(loaded[e])
          /\ UNCHANGED <<event, applied>>
    /\ UNCHANGED <<known, delivery>>

-----------------------------------------------------------------------------

Init ==
    /\ event = [e \in Events |-> IF e \in OldFailures
                                 THEN [status |-> "failed", attempts |-> 1, due |-> TRUE]
                                 ELSE NoEvent]
    /\ applied = [e \in Events |-> 0]
    /\ known = {}
    /\ delivery = [e \in Events |-> "idle"]
    /\ listed = {}
    /\ loaded = [e \in Events |-> Expired]

Route(e) == RouteApplies(e) \/ RouteNotFound(e) \/ RouteDuplicate(e) \/ RouteFails(e)

Next ==
    \/ \E e \in Events :
          \/ Notify(e) \/ GiveUp(e) \/ CommitPayment(e)
          \/ Route(e)
          \/ Replay(e) \/ FallDue(e) \/ Reload(e) \/ Reprocess(e)
    \/ ListFailed

Spec == Init /\ [][Next]_vars

-----------------------------------------------------------------------------
(* Properties *)

Rows == [status : Statuses, attempts : 0..MaxAttempts, due : BOOLEAN]

\* The type of every variable.
TypeOK ==
    /\ event \in [Events -> Rows]
    /\ applied \in [Events -> 0..Twice]
    /\ known \subseteq Events
    /\ delivery \in [Events -> Deliveries]
    /\ listed \subseteq Events
    /\ loaded \in [Events -> Rows \cup {Expired}]

\* A dead letter has used up its attempts and a failed event has not, whoever
\* counted them: redeliveries, replays and the job with its old copy.
DeadLettersAreExhausted ==
    \A e \in Events :
        /\ event[e].status = "failed" => event[e].attempts < MaxAttempts
        /\ event[e].status = "dead_letter" => event[e].attempts = MaxAttempts

\* The table says an event is processed if and only if its effect is committed:
\* no duplicate, replay or reprocessing does it again, and none is forgotten.
ProcessedOnce ==
    \A e \in Events : applied[e] = IF event[e].status = "processed" THEN 1 ELSE 0

\* An event that has been processed is never taken up again.
ProcessedIsFinal ==
    [][\A e \in Events : event[e].status = "processed" => event'[e] = event[e]]_vars

\* A failed event does not stay failed: it is processed, or the attempts run out.
FailedIsResolved ==
    \A e \in Events :
        event[e].status = "failed" ~> event[e].status \in {"processed", "dead_letter"}
=============================================================================
