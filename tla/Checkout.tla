------------------------------ MODULE Checkout ------------------------------
(***************************************************************************)
(* The checkout of a guest or a customer and the counter sale of an        *)
(* administrator (routes/orders_r.py), made idempotent by one record per   *)
(* key (services/idempotency_s.py) that a job sweeps.                      *)
(*                                                                         *)
(* Atomicity.  The insertion of the record holds the key (a unique index)  *)
(* until the transaction ends: a twin waits for it.  A checkout is one     *)
(* transaction, up to its first commit, unless the provider's checkout     *)
(* cannot be created: then the order is committed first and the record is  *)
(* marked failed in a second transaction.  A recovery reads the record     *)
(* with no lock.  A process may die between any two of these steps, and    *)
(* what it has not committed goes with it.                                 *)
(*                                                                         *)
(* What happens to the payment afterwards is OrderPayments; here it only   *)
(* ceases to be pending.                                                   *)
(***************************************************************************)
EXTENDS Naturals, FiniteSets

CONSTANTS
    Keys,       \* the idempotency keys, each in its scope
    CounterKeys,\* those of counter sales: FailurePolicy.DISCARD; the others PERSIST
    Payloads,   \* what is ordered, and how it is to be paid
    Online,     \* the payloads to be paid with mercadopago
    Orders,     \* ids of orders
    Requests    \* concurrent requests

NoneOf == "none"

ASSUME CheckoutAssumption ==
    /\ CounterKeys \subseteq Keys
    /\ Online \subseteq Payloads
    /\ NoneOf \notin Keys \cup Payloads \cup Orders

VARIABLES
    record,   \* the IdempotencyRecord row of each key
    order,    \* what is committed of each order and its payment
    request,  \* what each request is doing
    mails,    \* how often the mail of each order has been sent
    served    \* history: the orders committed for each key since its record was pruned

vars == <<record, order, request, mails, served>>

NoRecord == [status |-> "none", payload |-> NoneOf, order |-> NoneOf]
NoOrder == [payload |-> NoneOf, checkout |-> "none"]
Idle == [step |-> "idle", key |-> NoneOf, payload |-> NoneOf, order |-> NoneOf]

RecordStatuses == {"none", "processing", "completed", "failed"}

\* "draft": the order is not even submitted; "bare": submitted, with no payment;
\* "offline": nothing to do online; "setup_failed": its payment is pending and has
\* no preference_id; "created": pending, and has one; "closed": not pending any more.
Checkouts == {"none", "draft", "bare", "offline", "setup_failed", "created", "closed"}

Steps == {"idle", "executing", "failing", "recovering", "dispatching", "answered"}

\* Two mails are as many as any more.
Twice == 2

-----------------------------------------------------------------------------
(* Resolving the key *)

Free(r) == request[r].step \in {"idle", "answered"}

\* Another transaction has inserted the record and not committed.
Held(k) == \E r \in Requests : request[r].step = "executing" /\ request[r].key = k

Busy(k) == \E r \in Requests : ~Free(r) /\ request[r].key = k

\* Mutation: any record of the key will do.
AnyPayload(k, h) == record[k] # NoRecord

\* The record is one of this request: same key, same hash.
Mine(k, h) == record[k] # NoRecord /\ record[k].payload = h

Working(step, k, h, o) == [step |-> step, key |-> k, payload |-> h, order |-> o]

\* Mutation: a checkout that failed is executed again.
TakenUnlessFailed(k) == record[k].status \in {"processing", "completed"}

Taken(k) == record[k] # NoRecord

\* acquire_record inserts the record.
Acquire(r, k, h) ==
    /\ Free(r)
    /\ ~Held(k)
    /\ ~Taken(k)
    /\ request' = [request EXCEPT ![r] = Working("executing", k, h, NoneOf)]
    /\ UNCHANGED <<record, order, mails, served>>

\* Outcome.REPLAY
Replay(r, k, h) ==
    /\ Free(r)
    /\ ~Held(k)
    /\ Mine(k, h)
    /\ record[k].status = "completed"
    /\ request' = [request EXCEPT ![r] = Working("answered", k, h, record[k].order)]
    /\ UNCHANGED <<record, order, mails, served>>

\* Outcome.RECOVER, with the ids that the failure has left.
Recover(r, k, h) ==
    /\ Free(r)
    /\ ~Held(k)
    /\ Mine(k, h)
    /\ record[k].status = "failed"
    /\ record[k].order # NoneOf
    /\ request' = [request EXCEPT ![r] = Working("recovering", k, h, record[k].order)]
    /\ UNCHANGED <<record, order, mails, served>>

\* The key is of another payload (409), in progress (409), or failed for good (502).
Refuse(r, k, h) ==
    /\ Free(r)
    /\ ~Held(k)
    /\ Taken(k)
    /\ \/ ~Mine(k, h)
       \/ record[k].status = "processing"
       \/ record[k].status = "failed" /\ record[k].order = NoneOf
    /\ request' = [request EXCEPT ![r] = Idle]
    /\ UNCHANGED <<record, order, mails, served>>

-----------------------------------------------------------------------------
(* Executing *)

\* Mutation: a checkout that could not be created is settled as a success.
SettledAnyway(status, h, o) ==
    [status |-> IF status = "processing" THEN "completed" ELSE status,
     payload |-> h, order |-> o]

Settled(status, h, o) == [status |-> status, payload |-> h, order |-> o]

\* The order o is committed for the request's key.
Commit(r, o, checkout) ==
    /\ order[o] = NoOrder
    /\ order' = [order EXCEPT ![o] = [payload |-> request[r].payload, checkout |-> checkout]]
    /\ served' = [served EXCEPT ![request[r].key] = @ \cup {o}]

\* Order, payment and record are committed together.
Complete(r, o) ==
    LET k == request[r].key
        h == request[r].payload IN
    /\ request[r].step = "executing"
    /\ Commit(r, o, IF h \in Online /\ k \notin CounterKeys THEN "created" ELSE "offline")
    /\ record' = [record EXCEPT ![k] = Settled("completed", h, o)]
    /\ request' = [request EXCEPT ![r] =
          Working(IF k \in CounterKeys THEN "answered" ELSE "dispatching", k, h, o)]
    /\ UNCHANGED mails

\* The provider's checkout cannot be created: the order and its marked payment are
\* committed, and the record with them as it is.
SetupFails(r, o) ==
    LET k == request[r].key
        h == request[r].payload IN
    /\ request[r].step = "executing"
    /\ k \notin CounterKeys
    /\ h \in Online
    /\ Commit(r, o, "setup_failed")
    /\ record' = [record EXCEPT ![k] = Settled("processing", h, NoneOf)]
    /\ request' = [request EXCEPT ![r] = Working("failing", k, h, o)]
    /\ UNCHANGED mails

\* A limit, a rule or the stock refuses the checkout before there is an order ...
Reject(r) ==
    LET k == request[r].key IN
    /\ request[r].step = "executing"
    /\ k \notin CounterKeys
    /\ record' = [record EXCEPT ![k] = Settled("failed", request[r].payload, NoneOf)]
    /\ request' = [request EXCEPT ![r] = Idle]
    /\ UNCHANGED <<order, mails, served>>

\* ... or when there is one, which is committed with the failure: the handler does
\* not roll back.
RejectHalfway(r, o) ==
    LET k == request[r].key IN
    /\ request[r].step = "executing"
    /\ k \notin CounterKeys
    /\ \E left \in {"draft", "bare"} : Commit(r, o, left)
    /\ record' = [record EXCEPT ![k] = Settled("failed", request[r].payload, NoneOf)]
    /\ request' = [request EXCEPT ![r] = Idle]
    /\ UNCHANGED mails

\* The database fails, or a counter sale does: all is rolled back.
RollBack(r) ==
    /\ request[r].step = "executing"
    /\ request' = [request EXCEPT ![r] = Idle]
    /\ UNCHANGED <<record, order, mails, served>>

\* The second commit of a failure (502): whatever the record has become since.
FailCheckout(r) ==
    LET k == request[r].key IN
    /\ request[r].step = "failing"
    /\ record' = [record EXCEPT ![k] = Settled("failed", request[r].payload, request[r].order)]
    /\ request' = [request EXCEPT ![r] = Idle]
    /\ UNCHANGED <<order, mails, served>>

\* Mutation: the payment is not looked at.
AnyCheckout(o) == TRUE

\* The payment is pending still; with the checkout of another recovery, perhaps.
Recoverable(o) == order[o].checkout \in {"setup_failed", "created"}

RecoverSucceeds(r) ==
    LET k == request[r].key
        o == request[r].order IN
    /\ request[r].step = "recovering"
    /\ Recoverable(o)
    /\ order' = [order EXCEPT ![o].checkout = "created"]
    /\ record' = [record EXCEPT ![k] = Settled("completed", request[r].payload, o)]
    /\ request' = [request EXCEPT ![r].step = "answered"]
    /\ UNCHANGED <<mails, served>>

\* The provider fails again, the payment is not pending any more, or its method
\* has been paused.  Whatever the payment is by then, its provider_status is marked
\* and committed; but its status and its preference_id, all that is told apart
\* here, are not touched: what is closed stays closed, what is created, created.
RecoverFails(r) ==
    /\ request[r].step = "recovering"
    /\ request' = [request EXCEPT ![r].step = "failing"]
    /\ UNCHANGED <<record, order, mails, served>>

\* Mutation: a replay sends the mail again.
ReplayedToo(r) == request[r].step \in {"dispatching", "answered"}

ToDispatch(r) == request[r].step = "dispatching"

\* dispatch_post_commit_actions, and the answer.
Dispatch(r) ==
    LET o == request[r].order IN
    /\ ToDispatch(r)
    /\ mails' = [mails EXCEPT ![o] =
          IF order[o].checkout = "offline" /\ @ < Twice THEN @ + 1 ELSE @]
    /\ request' = [request EXCEPT ![r].step = "answered"]
    /\ UNCHANGED <<record, order, served>>

\* The process dies.
Crash(r) ==
    /\ ~Free(r)
    /\ request' = [request EXCEPT ![r] = Idle]
    /\ UNCHANGED <<record, order, mails, served>>

-----------------------------------------------------------------------------
(* The rest of the system *)

\* The payment is paid, cancelled or expires.
Close(o) ==
    /\ order[o].checkout \in {"created", "setup_failed"}
    /\ order' = [order EXCEPT ![o].checkout = "closed"]
    /\ UNCHANGED <<record, request, mails, served>>

\* Mutation: the wrong records are swept.
StuckIfFailed(k) == record[k].status = "failed" /\ ~Busy(k)

\* In progress for 30 minutes: no request takes that long.
Stuck(k) == record[k].status = "processing" /\ ~Busy(k)

\* The job.
Sweep(k) ==
    /\ Stuck(k)
    /\ record' = [record EXCEPT ![k] = Settled("failed", @.payload, NoneOf)]
    /\ UNCHANGED <<order, request, mails, served>>

\* The job or any checkout, 24 hours after.
Prune(k) ==
    /\ record[k] # NoRecord
    /\ ~Busy(k)
    /\ record' = [record EXCEPT ![k] = NoRecord]
    /\ served' = [served EXCEPT ![k] = {}]
    /\ UNCHANGED <<order, request, mails>>

-----------------------------------------------------------------------------

Init ==
    /\ record = [k \in Keys |-> NoRecord]
    /\ order = [o \in Orders |-> NoOrder]
    /\ request = [r \in Requests |-> Idle]
    /\ mails = [o \in Orders |-> 0]
    /\ served = [k \in Keys |-> {}]

Resolve(r, k, h) == Acquire(r, k, h) \/ Replay(r, k, h) \/ Recover(r, k, h) \/ Refuse(r, k, h)

Execute(r, o) == Complete(r, o) \/ SetupFails(r, o) \/ RejectHalfway(r, o)

Proceed(r) ==
    \/ \E o \in Orders : Execute(r, o)
    \/ Reject(r) \/ RollBack(r) \/ FailCheckout(r)
    \/ RecoverSucceeds(r) \/ RecoverFails(r)
    \/ Dispatch(r)

Next ==
    \/ \E r \in Requests :
          \/ \E k \in Keys, h \in Payloads : Resolve(r, k, h)
          \/ Proceed(r) \/ Crash(r)
    \/ \E o \in Orders : Close(o)
    \/ \E k \in Keys : Sweep(k) \/ Prune(k)

Spec == Init /\ [][Next]_vars

\* A request runs to its end or dies with its process, and the sweeper runs on its
\* timer.
FairSpec ==
    /\ Spec
    /\ \A r \in Requests : WF_vars(Proceed(r) \/ Crash(r))
    /\ \A k \in Keys : WF_vars(Sweep(k))

-----------------------------------------------------------------------------
(* Properties *)

\* The type of every variable; the mail of an order is sent once at most, replays
\* and recoveries included.
TypeOK ==
    /\ record \in [Keys -> [status : RecordStatuses, payload : Payloads \cup {NoneOf},
                            order : Orders \cup {NoneOf}]]
    /\ order \in [Orders -> [payload : Payloads \cup {NoneOf}, checkout : Checkouts]]
    /\ request \in [Requests -> [step : Steps, key : Keys \cup {NoneOf},
                                 payload : Payloads \cup {NoneOf},
                                 order : Orders \cup {NoneOf}]]
    /\ mails \in [Orders -> 0..1]
    /\ served \in [Keys -> SUBSET Orders]

\* As long as its record lives, a key makes one order at most, whatever twins,
\* failures, crashes, recoveries and sweeps it goes through.
OneOrderPerKey == \A k \in Keys : Cardinality(served[k]) <= 1

\* Whoever is given an order asked for that order: a replay or a recovery never
\* answers with what another payload has made.
AnswerIsMine ==
    \A r \in Requests :
        request[r].step \in {"answered", "dispatching"} =>
            order[request[r].order].payload = request[r].payload

\* A key that is completed has its order, with everything the customer needs to
\* pay for it.
CompletedCanBePaid ==
    \A k \in Keys :
        record[k].status = "completed" =>
            \E o \in served[k] :
                /\ record[k].order = o
                /\ order[o].checkout \in {"offline", "created", "closed"}

\* A payment that is over is given no checkout any more, by however old a recovery.
ClosedStaysClosed ==
    [][\A o \in Orders : order[o].checkout = "closed" => order'[o].checkout = "closed"]_vars

\* A key does not stay in progress.
InProgressEnds == \A k \in Keys : record[k].status = "processing" ~> record[k].status # "processing"
=============================================================================
