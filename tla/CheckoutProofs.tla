--------------------------- MODULE CheckoutProofs ---------------------------
(***************************************************************************)
(* Proofs about Checkout, for any sets of keys, payloads, orders and       *)
(* concurrent requests.                                                    *)
(*                                                                         *)
(* OneOrderPerKey is not inductive: a recovery and a second commit work    *)
(* with what they read or wrote before, with nothing locked.  The          *)
(* invariant says why they do no harm: the insertion that holds a key is   *)
(* the only one and nothing has been served for it (Holders, Served), and  *)
(* a request that goes on without a lock carries the one order that its    *)
(* key's record was given (Ongoing), made of the payload both have.        *)
(***************************************************************************)
EXTENDS Checkout, FiniteSetTheorems, TLAPS

Holders ==
    \A r \in Requests : request[r].step = "executing" =>
        /\ request[r].key \in Keys
        /\ request[r].payload \in Payloads
        /\ record[request[r].key] = NoRecord
        /\ \A q \in Requests :
              request[q].step = "executing" /\ request[q].key = request[r].key => q = r

Served ==
    \A k \in Keys :
        /\ record[k] = NoRecord => served[k] = {}
        /\ record[k] # NoRecord => record[k].payload \in Payloads
        /\ record[k].order # NoneOf => served[k] = {record[k].order}
        /\ \A o, p \in served[k] : o = p
        /\ \A o \in served[k] : order[o].payload = record[k].payload

Ongoing ==
    \A r \in Requests : request[r].step \in {"failing", "recovering", "dispatching"} =>
        /\ request[r].key \in Keys
        /\ record[request[r].key] # NoRecord
        /\ request[r].payload = record[request[r].key].payload
        /\ served[request[r].key] = {request[r].order}

Answers ==
    \A r \in Requests : request[r].step \in {"answered", "dispatching"} =>
        /\ request[r].order \in Orders
        /\ request[r].payload \in Payloads
        /\ order[request[r].order].payload = request[r].payload

Completed ==
    \A k \in Keys : record[k].status = "completed" =>
        /\ record[k].order # NoneOf
        /\ order[record[k].order].checkout \in {"offline", "created", "closed"}

Mailing ==
    /\ \A o \in Orders : order[o] = NoOrder => mails[o] = 0
    /\ \A r \in Requests : request[r].step = "dispatching" =>
          /\ mails[request[r].order] = 0
          /\ \A q \in Requests :
                request[q].step = "dispatching" /\ request[q].order = request[r].order => q = r

IInv == TypeOK /\ Holders /\ Served /\ Ongoing /\ Answers /\ Completed /\ Mailing

-----------------------------------------------------------------------------

LEMMA InitIInv == Init => IInv
BY CheckoutAssumption
    DEF Init, IInv, TypeOK, Holders, Served, Ongoing, Answers, Completed, Mailing,
        NoRecord, NoOrder, Idle, RecordStatuses, Checkouts, Steps

\* A request that stops, or is given an order that is its own, disturbs nothing.
LEMMA Stops ==
    ASSUME IInv, NEW r \in Requests, NEW now,
           now = Idle \/ /\ now.step = "answered"
                         /\ now \in [step : Steps, key : Keys \cup {NoneOf},
                                     payload : Payloads, order : Orders]
                         /\ order[now.order].payload = now.payload,
           request' = [request EXCEPT ![r] = now],
           UNCHANGED <<record, order, served, mails>>
    PROVE  IInv'
<1>1. now.step \in {"idle", "answered"} /\ (now.step = "answered" => now # Idle)
    BY DEF Idle
<1>2. /\ request'[r] = now
      /\ \A q \in Requests \ {r} : request'[q] = request[q]
    BY DEF IInv, TypeOK
<1>3. TypeOK'
    BY DEF IInv, TypeOK, Idle, Steps
<1>4. Holders'
    BY <1>1, <1>2 DEF IInv, Holders
<1>5. Served' /\ Completed'
    BY DEF IInv, Served, Completed
<1>6. Ongoing'
    BY <1>1, <1>2 DEF IInv, Ongoing
<1>7. Answers'
    BY <1>1, <1>2 DEF IInv, Answers
<1>8. Mailing'
    BY <1>1, <1>2 DEF IInv, Mailing
<1>9. QED BY <1>3, <1>4, <1>5, <1>6, <1>7, <1>8 DEF IInv

LEMMA ResolveStep ==
    ASSUME IInv, NEW r \in Requests, NEW k \in Keys, NEW h \in Payloads, Resolve(r, k, h)
    PROVE  IInv'
<1>1. CASE Acquire(r, k, h)
    <2> DEFINE now == Working("executing", k, h, NoneOf)
    <2>1. /\ ~Held(k) /\ record[k] = NoRecord
          /\ request' = [request EXCEPT ![r] = now]
          /\ UNCHANGED <<record, order, mails, served>>
        BY <1>1 DEF Acquire, Taken
    <2>2. now.step = "executing" /\ now.key = k /\ now.payload = h
          /\ now \in [step : Steps, key : Keys \cup {NoneOf},
                      payload : Payloads \cup {NoneOf}, order : Orders \cup {NoneOf}]
        BY DEF Working, Steps
    <2> HIDE DEF now
    <2>3. request'[r] = now /\ \A q \in Requests \ {r} : request'[q] = request[q]
        BY <2>1 DEF IInv, TypeOK
    <2>4. TypeOK'
        BY <2>1, <2>2 DEF IInv, TypeOK
    <2>5. Holders'
        BY <2>1, <2>2, <2>3 DEF IInv, Holders, Held
    <2>6. Served' /\ Completed'
        BY <2>1 DEF IInv, Served, Completed
    <2>7. Ongoing'
        BY <2>1, <2>2, <2>3 DEF IInv, Ongoing
    <2>8. Answers'
        BY <2>1, <2>2, <2>3 DEF IInv, Answers
    <2>9. Mailing'
        BY <2>1, <2>2, <2>3 DEF IInv, Mailing
    <2>10. QED BY <2>4, <2>5, <2>6, <2>7, <2>8, <2>9 DEF IInv
<1>2. CASE Replay(r, k, h)
    <2> DEFINE now == Working("answered", k, h, record[k].order)
    <2>1. /\ record[k].status = "completed" /\ record[k].payload = h
          /\ request' = [request EXCEPT ![r] = now]
          /\ UNCHANGED <<record, order, mails, served>>
        BY <1>2 DEF Replay, Mine
    <2>2. record[k].order # NoneOf /\ record[k].order \in Orders
        BY <2>1 DEF IInv, Completed, TypeOK
    <2>3. order[record[k].order].payload = h
        BY <2>1, <2>2 DEF IInv, Served
    <2>4. now \in [step : Steps, key : Keys \cup {NoneOf}, payload : Payloads, order : Orders]
          /\ now.step = "answered" /\ order[now.order].payload = now.payload
        BY <2>2, <2>3 DEF Working, Steps
    <2> HIDE DEF now
    <2>5. QED BY <2>1, <2>4, Stops
<1>3. CASE Recover(r, k, h)
    <2> DEFINE now == Working("recovering", k, h, record[k].order)
    <2>1. /\ record[k] # NoRecord /\ record[k].payload = h /\ record[k].order # NoneOf
          /\ request' = [request EXCEPT ![r] = now]
          /\ UNCHANGED <<record, order, mails, served>>
        BY <1>3 DEF Recover, Mine
    <2>2. record[k].order \in Orders /\ served[k] = {record[k].order}
        BY <2>1 DEF IInv, TypeOK, Served
    <2>3. /\ now.step = "recovering" /\ now.key = k /\ now.payload = h
          /\ now.order = record[k].order
          /\ now \in [step : Steps, key : Keys \cup {NoneOf},
                      payload : Payloads \cup {NoneOf}, order : Orders \cup {NoneOf}]
        BY <2>2 DEF Working, Steps
    <2> HIDE DEF now
    <2>4. request'[r] = now /\ \A q \in Requests \ {r} : request'[q] = request[q]
        BY <2>1 DEF IInv, TypeOK
    <2>5. TypeOK' /\ Holders' /\ Served' /\ Completed'
        BY <2>1, <2>3, <2>4 DEF IInv, TypeOK, Holders, Served, Completed
    <2>6. Ongoing'
        <3> SUFFICES ASSUME NEW q \in Requests,
                            request'[q].step \in {"failing", "recovering", "dispatching"}
                     PROVE  /\ request'[q].key \in Keys
                            /\ record[request'[q].key] # NoRecord
                            /\ request'[q].payload = record[request'[q].key].payload
                            /\ served[request'[q].key] = {request'[q].order}
            BY <2>1 DEF Ongoing
        <3>1. CASE q = r
            BY <2>1, <2>2, <2>3, <2>4, <3>1
        <3>2. CASE q # r
            BY <2>4, <3>2 DEF IInv, Ongoing
        <3>3. QED BY <3>1, <3>2
    <2>7. Answers' /\ Mailing'
        BY <2>1, <2>3, <2>4 DEF IInv, Answers, Mailing
    <2>8. QED BY <2>5, <2>6, <2>7 DEF IInv
<1>4. CASE Refuse(r, k, h)
    BY <1>4, Stops DEF Refuse
<1>5. QED BY <1>1, <1>2, <1>3, <1>4 DEF Resolve

\* The transaction of an execution: the order, the record and what the request
\* goes on with.
LEMMA Commits ==
    ASSUME IInv, NEW r \in Requests, NEW o \in Orders,
           NEW checkout \in Checkouts \ {"none"}, NEW row, NEW now,
           request[r].step = "executing",
           Commit(r, o, checkout),
           row \in [status : RecordStatuses \ {"none"}, payload : {request[r].payload},
                    order : {NoneOf, o}],
           row.status = "completed" =>
              row.order = o /\ checkout \in {"offline", "created", "closed"},
           now = Idle \/ now \in [step : {"failing", "dispatching", "answered"},
                                  key : {request[r].key}, payload : {request[r].payload},
                                  order : {o}],
           record' = [record EXCEPT ![request[r].key] = row],
           request' = [request EXCEPT ![r] = now],
           mails' = mails
    PROVE  IInv'
<1> DEFINE k == request[r].key
           h == request[r].payload
<1>1. k \in Keys /\ h \in Payloads /\ record[k] = NoRecord /\ served[k] = {}
    BY DEF IInv, Holders, Served
<1>2. /\ order[o] = NoOrder
      /\ order'[o] = [payload |-> h, checkout |-> checkout]
      /\ \A p \in Orders \ {o} : order'[p] = order[p]
      /\ served'[k] = {o}
      /\ \A j \in Keys \ {k} : served'[j] = served[j]
      /\ order' \in [Orders -> [payload : Payloads \cup {NoneOf}, checkout : Checkouts]]
      /\ served' \in [Keys -> SUBSET Orders]
    BY <1>1 DEF Commit, IInv, TypeOK
<1>3. /\ record'[k] = row
      /\ \A j \in Keys \ {k} : record'[j] = record[j]
      /\ request'[r] = now
      /\ \A q \in Requests \ {r} : request'[q] = request[q]
    BY <1>1 DEF IInv, TypeOK
<1>4. order[o].payload \notin Payloads /\ order[o].checkout = "none" /\ row # NoRecord
    BY <1>2, CheckoutAssumption DEF NoOrder, NoRecord
<1>5. now.step # "executing" /\ now.step # "recovering"
    BY DEF Idle
<1>6. TypeOK'
    <2>1. row \in [status : RecordStatuses, payload : Payloads \cup {NoneOf},
                   order : Orders \cup {NoneOf}]
        BY <1>1
    <2>2. now \in [step : Steps, key : Keys \cup {NoneOf},
                   payload : Payloads \cup {NoneOf}, order : Orders \cup {NoneOf}]
        BY <1>1 DEF Idle, Steps
    <2>3. QED BY <1>2, <2>1, <2>2 DEF IInv, TypeOK
<1>7. Holders'
    BY <1>3, <1>5 DEF IInv, Holders
<1>8. Served'
    <2>1. \A j \in Keys \ {k} : \A p \in served[j] : p # o
        BY <1>4, <1>1, CheckoutAssumption DEF IInv, Served
    <2>2. \A j \in Keys \ {k} : \A p \in served[j] : order'[p] = order[p]
        BY <1>2, <2>1 DEF IInv, TypeOK
    <2>3. ASSUME NEW j \in Keys \ {k}
          PROVE  /\ record'[j] = NoRecord => served'[j] = {}
                 /\ record'[j] # NoRecord => record'[j].payload \in Payloads
                 /\ record'[j].order # NoneOf => served'[j] = {record'[j].order}
                 /\ \A x, p \in served'[j] : x = p
                 /\ \A x \in served'[j] : order'[x].payload = record'[j].payload
        BY <1>2, <1>3, <2>2 DEF IInv, Served
    <2>4. /\ row.order # NoneOf => served'[k] = {row.order}
          /\ row.payload = h /\ order'[o].payload = h
        BY <1>2
    <2>5. QED BY <1>1, <1>2, <1>3, <1>4, <2>3, <2>4 DEF Served
<1>9. Ongoing'
    <2>1. \A q \in Requests \ {r} :
             request[q].step \in {"failing", "recovering", "dispatching"} => request[q].key # k
        BY <1>1 DEF IInv, Ongoing
    <2>2. ASSUME now.step \in {"failing", "dispatching"}
          PROVE  now.key = k /\ now.payload = row.payload /\ now.order = o
        BY <2>2 DEF Idle
    <2> SUFFICES ASSUME NEW q \in Requests,
                        request'[q].step \in {"failing", "recovering", "dispatching"}
                 PROVE  /\ request'[q].key \in Keys
                        /\ record'[request'[q].key] # NoRecord
                        /\ request'[q].payload = record'[request'[q].key].payload
                        /\ served'[request'[q].key] = {request'[q].order}
        BY DEF Ongoing
    <2>3. CASE q = r
        BY <1>1, <1>2, <1>3, <1>4, <1>5, <2>2, <2>3
    <2>4. CASE q # r
        <3>1. request'[q] = request[q]
            BY <1>3, <2>4
        <3>2. /\ request[q].key \in Keys /\ record[request[q].key] # NoRecord
              /\ request[q].payload = record[request[q].key].payload
              /\ served[request[q].key] = {request[q].order}
            BY <3>1 DEF IInv, Ongoing
        <3>3. request[q].key # k
            BY <1>1, <3>2
        <3>4. QED BY <1>2, <1>3, <3>1, <3>2, <3>3
    <2>5. QED BY <2>3, <2>4
<1>10. Answers'
    <2>1. ASSUME now.step \in {"answered", "dispatching"}
          PROVE  now.order = o /\ now.payload = h
        BY <2>1 DEF Idle
    <2>2. \A q \in Requests \ {r} : request[q].step \in {"answered", "dispatching"} =>
             request[q].order # o
        BY <1>4 DEF IInv, Answers
    <2>3. QED BY <1>1, <1>2, <1>3, <2>1, <2>2 DEF IInv, Answers
<1>11. Completed'
    <2>1. \A j \in Keys : record[j].status = "completed" => record[j].order \in Orders \ {o}
        BY <1>4 DEF IInv, TypeOK, Completed
    <2>2. row.status = "completed" => row.order = o /\ o # NoneOf
        BY CheckoutAssumption
    <2>3. QED BY <1>2, <1>3, <2>1, <2>2 DEF IInv, Completed
<1>12. Mailing'
    <2>1. mails[o] = 0
        BY <1>2 DEF IInv, Mailing
    <2>2. \A q \in Requests \ {r} : request[q].step = "dispatching" => request[q].order # o
        BY <1>4 DEF IInv, Answers
    <2>3. now.step = "dispatching" => now.order = o
        BY DEF Idle
    <2>4. \A p \in Orders : order'[p] = NoOrder => mails[p] = 0
        BY <1>2, <2>1 DEF IInv, Mailing
    <2>5. QED BY <1>3, <2>1, <2>2, <2>3, <2>4 DEF IInv, Mailing
<1>13. QED BY <1>6, <1>7, <1>8, <1>9, <1>10, <1>11, <1>12 DEF IInv

LEMMA ExecuteStep ==
    ASSUME IInv, NEW r \in Requests, NEW o \in Orders, Execute(r, o)
    PROVE  IInv'
<1> DEFINE k == request[r].key
           h == request[r].payload
<1>1. CASE Complete(r, o)
    <2> DEFINE checkout == IF h \in Online /\ k \notin CounterKeys THEN "created" ELSE "offline"
               row == Settled("completed", h, o)
               now == Working(IF k \in CounterKeys THEN "answered" ELSE "dispatching", k, h, o)
    <2>1. /\ request[r].step = "executing" /\ Commit(r, o, checkout)
          /\ record' = [record EXCEPT ![k] = row]
          /\ request' = [request EXCEPT ![r] = now] /\ mails' = mails
        BY <1>1 DEF Complete
    <2>2. /\ row \in [status : RecordStatuses \ {"none"}, payload : {h}, order : {NoneOf, o}]
          /\ row.order = o
          /\ checkout \in {"offline", "created"} /\ checkout \in Checkouts \ {"none"}
          /\ now \in [step : {"failing", "dispatching", "answered"}, key : {k},
                      payload : {h}, order : {o}]
        BY DEF Settled, Working, RecordStatuses, Checkouts
    <2> HIDE DEF row, now, checkout
    <2>3. QED BY <2>1, <2>2, Commits
<1>2. CASE SetupFails(r, o)
    <2> DEFINE row == Settled("processing", h, NoneOf)
               now == Working("failing", k, h, o)
    <2>1. /\ request[r].step = "executing" /\ Commit(r, o, "setup_failed")
          /\ record' = [record EXCEPT ![k] = row]
          /\ request' = [request EXCEPT ![r] = now] /\ mails' = mails
        BY <1>2 DEF SetupFails
    <2>2. /\ row \in [status : RecordStatuses \ {"none"}, payload : {h}, order : {NoneOf, o}]
          /\ row.status # "completed"
          /\ "setup_failed" \in Checkouts \ {"none"}
          /\ now \in [step : {"failing", "dispatching", "answered"}, key : {k},
                      payload : {h}, order : {o}]
        BY DEF Settled, Working, RecordStatuses, Checkouts
    <2> HIDE DEF row, now
    <2>3. QED BY <2>1, <2>2, Commits
<1>3. CASE RejectHalfway(r, o)
    <2> DEFINE row == Settled("failed", h, NoneOf)
    <2>1. PICK left \in {"draft", "bare"} : Commit(r, o, left)
        BY <1>3 DEF RejectHalfway
    <2>2. /\ request[r].step = "executing"
          /\ record' = [record EXCEPT ![k] = row]
          /\ request' = [request EXCEPT ![r] = Idle] /\ mails' = mails
        BY <1>3 DEF RejectHalfway
    <2>3. /\ row \in [status : RecordStatuses \ {"none"}, payload : {h}, order : {NoneOf, o}]
          /\ row.status # "completed"
          /\ left \in Checkouts \ {"none"}
        BY DEF Settled, RecordStatuses, Checkouts
    <2> HIDE DEF row
    <2>4. QED BY <2>1, <2>2, <2>3, Commits
<1>4. QED BY <1>1, <1>2, <1>3 DEF Execute

\* A record of a key nobody holds, or that its holder settles, changes its status;
\* the request r, if it is the one, stops.
LEMMA Rewrites ==
    ASSUME IInv, NEW k \in Keys, NEW row,
           row \in [status : RecordStatuses \ {"none", "completed"}, payload : Payloads,
                    order : Orders \cup {NoneOf}],
           row.order # NoneOf => served[k] = {row.order},
           record[k] # NoRecord => row.payload = record[k].payload,
           \A q \in Requests : request'[q] \in {request[q], Idle},
           \A q \in Requests : request[q].step = "executing" /\ request[q].key = k
                                  => request'[q] = Idle,
           request' \in [Requests -> [step : Steps, key : Keys \cup {NoneOf},
                                      payload : Payloads \cup {NoneOf},
                                      order : Orders \cup {NoneOf}]],
           record' = [record EXCEPT ![k] = row],
           UNCHANGED <<order, mails, served>>
    PROVE  IInv'
<1>1. /\ record'[k] = row
      /\ \A j \in Keys \ {k} : record'[j] = record[j]
      /\ row # NoRecord
    BY DEF IInv, TypeOK, NoRecord
<1>2. \A q \in Requests : request'[q].step # "idle" => request'[q] = request[q]
    BY DEF Idle
<1>3. TypeOK'
    BY DEF IInv, TypeOK
<1>4. Holders'
    <2> SUFFICES ASSUME NEW q \in Requests, request'[q].step = "executing"
                 PROVE  /\ request'[q] = request[q] /\ request[q].key # k
        BY <1>1, <1>2 DEF IInv, Holders
    <2>1. QED BY <1>2 DEF Idle
<1>5. Served'
    <2>1. /\ row.payload \in Payloads
          /\ \A p \in served[k] : order[p].payload = row.payload
        BY DEF IInv, Served
    <2>2. QED BY <1>1, <2>1 DEF IInv, Served
<1>6. Ongoing'
    <2> SUFFICES ASSUME NEW q \in Requests,
                        request'[q].step \in {"failing", "recovering", "dispatching"}
                 PROVE  /\ request'[q].key \in Keys
                        /\ record'[request'[q].key] # NoRecord
                        /\ request'[q].payload = record'[request'[q].key].payload
                        /\ served'[request'[q].key] = {request'[q].order}
        BY DEF Ongoing
    <2>1. request'[q] = request[q]
        BY <1>2
    <2>2. /\ request[q].key \in Keys /\ record[request[q].key] # NoRecord
          /\ request[q].payload = record[request[q].key].payload
          /\ served[request[q].key] = {request[q].order}
        BY <2>1 DEF IInv, Ongoing
    <2>3. QED BY <1>1, <2>1, <2>2
<1>7. Answers' /\ Mailing'
    BY <1>2 DEF IInv, Answers, Mailing
<1>8. Completed'
    BY <1>1 DEF IInv, Completed
<1>9. QED BY <1>3, <1>4, <1>5, <1>6, <1>7, <1>8 DEF IInv

\* Requests that stop or go on as they were still have their types.
LEMMA RequestTypes ==
    ASSUME TypeOK, NEW r \in Requests, request' = [request EXCEPT ![r] = Idle]
    PROVE  /\ request' \in [Requests -> [step : Steps, key : Keys \cup {NoneOf},
                                         payload : Payloads \cup {NoneOf},
                                         order : Orders \cup {NoneOf}]]
           /\ request'[r] = Idle
           /\ \A q \in Requests : request'[q] \in {request[q], Idle}
BY DEF TypeOK, Idle, Steps

LEMMA FailStep ==
    ASSUME IInv, NEW r \in Requests, Reject(r) \/ FailCheckout(r)
    PROVE  IInv'
<1> DEFINE k == request[r].key
           h == request[r].payload
<1>1. CASE Reject(r)
    <2> DEFINE row == Settled("failed", h, NoneOf)
    <2>1. /\ request[r].step = "executing"
          /\ record' = [record EXCEPT ![k] = row]
          /\ request' = [request EXCEPT ![r] = Idle]
          /\ UNCHANGED <<order, mails, served>>
        BY <1>1 DEF Reject
    <2>2. /\ k \in Keys /\ h \in Payloads /\ record[k] = NoRecord
          /\ \A q \in Requests :
                request[q].step = "executing" /\ request[q].key = k => q = r
        BY <2>1 DEF IInv, Holders
    <2>3. row \in [status : RecordStatuses \ {"none", "completed"}, payload : Payloads,
                   order : Orders \cup {NoneOf}] /\ row.order = NoneOf
        BY <2>2 DEF Settled, RecordStatuses
    <2>4. request' \in [Requests -> [step : Steps, key : Keys \cup {NoneOf},
                                     payload : Payloads \cup {NoneOf},
                                     order : Orders \cup {NoneOf}]]
          /\ request'[r] = Idle
          /\ \A q \in Requests : request'[q] \in {request[q], Idle}
        BY <2>1, RequestTypes DEF IInv
    <2> HIDE DEF row
    <2>5. \A q \in Requests :
             request[q].step = "executing" /\ request[q].key = k => request'[q] = Idle
        BY <2>2, <2>4
    <2>6. row.order # NoneOf => served[k] = {row.order}
        BY <2>3
    <2>7. QED BY <2>1, <2>2, <2>3, <2>4, <2>5, <2>6, Rewrites
<1>2. CASE FailCheckout(r)
    <2> DEFINE row == Settled("failed", h, request[r].order)
    <2>1. /\ request[r].step = "failing"
          /\ record' = [record EXCEPT ![k] = row]
          /\ request' = [request EXCEPT ![r] = Idle]
          /\ UNCHANGED <<order, mails, served>>
        BY <1>2 DEF FailCheckout
    <2>2. /\ k \in Keys /\ record[k] # NoRecord /\ h = record[k].payload /\ h \in Payloads
          /\ served[k] = {request[r].order} /\ request[r].order \in Orders
        BY <2>1 DEF IInv, Ongoing, Served, TypeOK
    <2>3. \A q \in Requests : ~(request[q].step = "executing" /\ request[q].key = k)
        BY <2>2 DEF IInv, Holders
    <2>4. /\ row \in [status : RecordStatuses \ {"none", "completed"}, payload : Payloads,
                      order : Orders \cup {NoneOf}]
          /\ row.order = request[r].order /\ row.payload = h
        BY <2>2 DEF Settled, RecordStatuses
    <2>5. request' \in [Requests -> [step : Steps, key : Keys \cup {NoneOf},
                                     payload : Payloads \cup {NoneOf},
                                     order : Orders \cup {NoneOf}]]
          /\ request'[r] = Idle
          /\ \A q \in Requests : request'[q] \in {request[q], Idle}
        BY <2>1, RequestTypes DEF IInv
    <2> HIDE DEF row
    <2>6. /\ row.order # NoneOf => served[k] = {row.order}
          /\ record[k] # NoRecord => row.payload = record[k].payload
          /\ \A q \in Requests :
                request[q].step = "executing" /\ request[q].key = k => request'[q] = Idle
        BY <2>2, <2>3, <2>4
    <2> HIDE DEF k, h
    <2>7. k \in Keys
        BY <2>2
    <2>8. QED BY <2>1, <2>4, <2>5, <2>6, <2>7, Rewrites
<1>3. QED BY <1>1, <1>2

LEMMA SweepStep ==
    ASSUME IInv, NEW k \in Keys, Sweep(k)
    PROVE  IInv'
<1> DEFINE row == Settled("failed", record[k].payload, NoneOf)
<1>1. /\ record[k].status = "processing" /\ ~Busy(k)
      /\ record' = [record EXCEPT ![k] = row]
      /\ UNCHANGED <<order, request, mails, served>>
    BY DEF Sweep, Stuck
<1>2. record[k] # NoRecord /\ record[k].payload \in Payloads
    BY <1>1 DEF NoRecord, IInv, Served
<1>3. \A q \in Requests : ~(request[q].step = "executing" /\ request[q].key = k)
    BY <1>2 DEF IInv, Holders
<1>4. /\ row \in [status : RecordStatuses \ {"none", "completed"}, payload : Payloads,
                  order : Orders \cup {NoneOf}]
      /\ row.order = NoneOf /\ row.payload = record[k].payload
    BY <1>2 DEF Settled, RecordStatuses
<1> HIDE DEF row
<1>5. /\ request' = request
      /\ request' \in [Requests -> [step : Steps, key : Keys \cup {NoneOf},
                                    payload : Payloads \cup {NoneOf},
                                    order : Orders \cup {NoneOf}]]
    BY <1>1 DEF IInv, TypeOK
<1>6. /\ row.order # NoneOf => served[k] = {row.order}
      /\ record[k] # NoRecord => row.payload = record[k].payload
      /\ \A q \in Requests : request'[q] \in {request[q], Idle}
      /\ \A q \in Requests : request[q].step = "executing" /\ request[q].key = k
                                => request'[q] = Idle
    BY <1>3, <1>4, <1>5
<1>7. QED BY <1>1, <1>4, <1>5, <1>6, Rewrites

LEMMA RecoverSucceedsStep ==
    ASSUME IInv, NEW r \in Requests, RecoverSucceeds(r)
    PROVE  IInv'
<1> DEFINE k == request[r].key
           h == request[r].payload
           o == request[r].order
           row == Settled("completed", h, o)
<1>1. /\ request[r].step = "recovering" /\ order[o].checkout \in {"setup_failed", "created"}
      /\ order' = [order EXCEPT ![o].checkout = "created"]
      /\ record' = [record EXCEPT ![k] = row]
      /\ request' = [request EXCEPT ![r].step = "answered"]
      /\ UNCHANGED <<mails, served>>
    BY DEF RecoverSucceeds, Recoverable
<1>2. /\ k \in Keys /\ record[k] # NoRecord /\ h = record[k].payload /\ h \in Payloads
      /\ served[k] = {o} /\ o \in Orders /\ order[o].payload = h
    BY <1>1 DEF IInv, Ongoing, Served, TypeOK
<1>3. row = [status |-> "completed", payload |-> h, order |-> o]
    BY DEF Settled
<1> DEFINE now == [request[r] EXCEPT !.step = "answered"]
<1>4. request[r] \in [step : Steps, key : Keys \cup {NoneOf}, payload : Payloads \cup {NoneOf},
                      order : Orders \cup {NoneOf}]
      /\ order[o] \in [payload : Payloads \cup {NoneOf}, checkout : Checkouts]
    BY <1>2 DEF IInv, TypeOK
<1>5. now = [step |-> "answered", key |-> k, payload |-> h, order |-> o]
    BY <1>4
<1>6. request' = [request EXCEPT ![r] = now]
    BY <1>1
<1>7. [order[o] EXCEPT !.checkout = "created"] = [payload |-> h, checkout |-> "created"]
    BY <1>2, <1>4
<1>8. order' = [order EXCEPT ![o] = [payload |-> h, checkout |-> "created"]]
    BY <1>1, <1>7
<1> HIDE DEF row, now
<1>9. /\ record'[k] = row
      /\ \A j \in Keys \ {k} : record'[j] = record[j]
      /\ request'[r] = now
      /\ \A q \in Requests \ {r} : request'[q] = request[q]
      /\ order'[o] = [payload |-> h, checkout |-> "created"]
      /\ \A p \in Orders \ {o} : order'[p] = order[p]
      /\ \A p \in Orders : order'[p].payload = order[p].payload
    BY <1>1, <1>2, <1>6, <1>8 DEF IInv, TypeOK
<1>10. TypeOK'
    <2>1. row \in [status : RecordStatuses, payload : Payloads \cup {NoneOf},
                   order : Orders \cup {NoneOf}]
          /\ now \in [step : Steps, key : Keys \cup {NoneOf}, payload : Payloads \cup {NoneOf},
                      order : Orders \cup {NoneOf}]
          /\ [payload |-> h, checkout |-> "created"]
                \in [payload : Payloads \cup {NoneOf}, checkout : Checkouts]
        BY <1>2, <1>3, <1>5 DEF RecordStatuses, Steps, Checkouts
    <2>2. record' \in [Keys -> [status : RecordStatuses, payload : Payloads \cup {NoneOf},
                                order : Orders \cup {NoneOf}]]
        BY <1>1, <2>1 DEF IInv, TypeOK
    <2>3. request' \in [Requests -> [step : Steps, key : Keys \cup {NoneOf},
                                     payload : Payloads \cup {NoneOf},
                                     order : Orders \cup {NoneOf}]]
        BY <1>6, <2>1 DEF IInv, TypeOK
    <2>4. order' \in [Orders -> [payload : Payloads \cup {NoneOf}, checkout : Checkouts]]
        BY <1>8, <2>1 DEF IInv, TypeOK
    <2>5. QED BY <1>1, <2>2, <2>3, <2>4 DEF IInv, TypeOK
<1>11. row # NoRecord
    BY <1>3 DEF NoRecord
<1>12. Holders'
    <2> SUFFICES ASSUME NEW q \in Requests, request'[q].step = "executing"
                 PROVE  /\ request'[q] = request[q] /\ request[q].key # k
        BY <1>5, <1>9 DEF IInv, Holders
    <2>1. QED BY <1>2, <1>5, <1>9 DEF IInv, Holders
<1>13. Served'
    <2>1. /\ row.order # NoneOf => served[k] = {row.order}
          /\ row.payload = h
        BY <1>2, <1>3
    <2>2. \A j \in Keys : \A p \in served[j] : order'[p].payload = order[p].payload
        BY <1>9 DEF IInv, TypeOK
    <2>3. QED BY <1>1, <1>2, <1>9, <1>11, <2>1, <2>2 DEF IInv, Served
<1>14. Ongoing'
    <2> SUFFICES ASSUME NEW q \in Requests,
                        request'[q].step \in {"failing", "recovering", "dispatching"}
                 PROVE  /\ request'[q].key \in Keys
                        /\ record'[request'[q].key] # NoRecord
                        /\ request'[q].payload = record'[request'[q].key].payload
                        /\ served'[request'[q].key] = {request'[q].order}
        BY DEF Ongoing
    <2>1. request'[q] = request[q]
        BY <1>5, <1>9
    <2>2. /\ request[q].key \in Keys /\ record[request[q].key] # NoRecord
          /\ request[q].payload = record[request[q].key].payload
          /\ served[request[q].key] = {request[q].order}
        BY <2>1 DEF IInv, Ongoing
    <2>3. QED BY <1>1, <1>2, <1>3, <1>9, <1>11, <2>1, <2>2
<1>15. Answers'
    BY <1>2, <1>5, <1>9 DEF IInv, Answers
<1>16. Completed'
    <2>1. row.order = o /\ o # NoneOf
        BY <1>2, <1>3, CheckoutAssumption
    <2>2. \A j \in Keys : record[j].status = "completed" => record[j].order \in Orders
        BY DEF IInv, TypeOK, Completed
    <2>3. QED BY <1>9, <2>1, <2>2 DEF IInv, Completed
<1>17. Mailing'
    <2>1. \A p \in Orders : order'[p] = NoOrder => order[p] = NoOrder
        BY <1>9 DEF NoOrder
    <2>2. QED BY <1>1, <1>5, <1>9, <2>1 DEF IInv, Mailing
<1>18. QED BY <1>10, <1>12, <1>13, <1>14, <1>15, <1>16, <1>17 DEF IInv

\* What a recovery or a dispatch only moves on to.
LEMMA Moves ==
    ASSUME TypeOK, NEW r \in Requests, NEW step \in Steps,
           request' = [request EXCEPT ![r].step = step]
    PROVE  /\ request' \in [Requests -> [step : Steps, key : Keys \cup {NoneOf},
                                         payload : Payloads \cup {NoneOf},
                                         order : Orders \cup {NoneOf}]]
           /\ request'[r].step = step
           /\ request'[r].key = request[r].key
           /\ request'[r].payload = request[r].payload
           /\ request'[r].order = request[r].order
           /\ \A q \in Requests \ {r} : request'[q] = request[q]
BY DEF TypeOK

LEMMA RecoverFailsStep ==
    ASSUME IInv, NEW r \in Requests, RecoverFails(r)
    PROVE  IInv'
<1>1. /\ request[r].step = "recovering"
      /\ request' = [request EXCEPT ![r].step = "failing"]
      /\ UNCHANGED <<record, order, mails, served>>
    BY DEF RecoverFails
<1>2. /\ request' \in [Requests -> [step : Steps, key : Keys \cup {NoneOf},
                                    payload : Payloads \cup {NoneOf},
                                    order : Orders \cup {NoneOf}]]
      /\ request'[r].step = "failing"
      /\ request'[r].key = request[r].key
      /\ request'[r].payload = request[r].payload
      /\ request'[r].order = request[r].order
      /\ \A q \in Requests \ {r} : request'[q] = request[q]
    BY <1>1, Moves DEF IInv, Steps
<1>3. TypeOK' /\ Served' /\ Completed'
    BY <1>1, <1>2 DEF IInv, TypeOK, Served, Completed
<1>4. Holders'
    BY <1>1, <1>2 DEF IInv, Holders
<1>5. Ongoing'
    BY <1>1, <1>2 DEF IInv, Ongoing
<1>6. Answers'
    BY <1>1, <1>2 DEF IInv, Answers
<1>7. Mailing'
    BY <1>1, <1>2 DEF IInv, Mailing
<1>8. QED BY <1>3, <1>4, <1>5, <1>6, <1>7 DEF IInv

LEMMA DispatchStep ==
    ASSUME IInv, NEW r \in Requests, Dispatch(r)
    PROVE  IInv'
<1> DEFINE o == request[r].order
<1>1. /\ request[r].step = "dispatching"
      /\ request' = [request EXCEPT ![r].step = "answered"]
      /\ mails' = [mails EXCEPT ![o] =
            IF order[o].checkout = "offline" /\ @ < Twice THEN @ + 1 ELSE @]
      /\ UNCHANGED <<record, order, served>>
    BY DEF Dispatch, ToDispatch
<1>2. /\ request' \in [Requests -> [step : Steps, key : Keys \cup {NoneOf},
                                    payload : Payloads \cup {NoneOf},
                                    order : Orders \cup {NoneOf}]]
      /\ request'[r].step = "answered"
      /\ request'[r].payload = request[r].payload
      /\ request'[r].order = request[r].order
      /\ \A q \in Requests \ {r} : request'[q] = request[q]
    BY <1>1, Moves DEF IInv, Steps
<1>3. /\ o \in Orders /\ request[r].payload \in Payloads /\ order[o].payload = request[r].payload
      /\ mails[o] = 0
    BY <1>1 DEF IInv, Answers, Mailing
<1>4. mails' \in [Orders -> 0..1] /\ \A p \in Orders \ {o} : mails'[p] = mails[p]
    BY <1>1, <1>3 DEF IInv, TypeOK, Twice
<1>5. TypeOK' /\ Served' /\ Completed'
    BY <1>1, <1>2, <1>4 DEF IInv, TypeOK, Served, Completed
<1>6. Holders'
    BY <1>1, <1>2 DEF IInv, Holders
<1>7. Ongoing'
    BY <1>1, <1>2 DEF IInv, Ongoing
<1>8. Answers'
    BY <1>1, <1>2, <1>3 DEF IInv, Answers
<1>9. Mailing'
    <2>1. order[o] # NoOrder
        BY <1>3, CheckoutAssumption DEF NoOrder
    <2>2. ASSUME NEW q \in Requests \ {r}, request[q].step = "dispatching"
          PROVE  request[q].order \in Orders \ {o} /\ mails[request[q].order] = 0
        BY <1>1, <2>2 DEF IInv, Mailing, Answers
    <2>3. QED BY <1>1, <1>2, <1>4, <2>1, <2>2 DEF IInv, Mailing
<1>10. QED BY <1>5, <1>6, <1>7, <1>8, <1>9 DEF IInv

LEMMA CloseStep ==
    ASSUME IInv, NEW o \in Orders, Close(o)
    PROVE  IInv'
<1>1. /\ order' = [order EXCEPT ![o].checkout = "closed"]
      /\ order[o].checkout \in {"created", "setup_failed"}
      /\ UNCHANGED <<record, request, mails, served>>
    BY DEF Close
<1>2. /\ order' \in [Orders -> [payload : Payloads \cup {NoneOf}, checkout : Checkouts]]
      /\ order'[o].checkout = "closed"
      /\ \A p \in Orders : order'[p].payload = order[p].payload
      /\ \A p \in Orders \ {o} : order'[p] = order[p]
    BY <1>1 DEF IInv, TypeOK, Checkouts
<1>3. TypeOK' /\ Holders' /\ Ongoing'
    BY <1>1, <1>2 DEF IInv, TypeOK, Holders, Ongoing
<1>4. Served' /\ Answers'
    <2>1. \A k \in Keys : served[k] \subseteq Orders
        BY DEF IInv, TypeOK
    <2>2. QED BY <1>1, <1>2, <2>1 DEF IInv, Served, Answers
<1>5. Completed'
    BY <1>1, <1>2 DEF IInv, TypeOK, Completed
<1>6. Mailing'
    BY <1>1, <1>2 DEF IInv, Mailing, NoOrder
<1>7. QED BY <1>3, <1>4, <1>5, <1>6 DEF IInv

LEMMA PruneStep ==
    ASSUME IInv, NEW k \in Keys, Prune(k)
    PROVE  IInv'
<1>1. /\ ~Busy(k)
      /\ record' = [record EXCEPT ![k] = NoRecord]
      /\ served' = [served EXCEPT ![k] = {}]
      /\ UNCHANGED <<order, request, mails>>
    BY DEF Prune
<1>2. /\ record'[k] = NoRecord /\ served'[k] = {}
      /\ \A j \in Keys \ {k} : record'[j] = record[j] /\ served'[j] = served[j]
    BY <1>1 DEF IInv, TypeOK
<1>3. TypeOK'
    BY <1>1 DEF IInv, TypeOK, NoRecord, RecordStatuses
<1>4. Holders'
    BY <1>1, <1>2 DEF IInv, Holders
<1>5. Served' /\ Completed'
    BY <1>1, <1>2 DEF IInv, Served, Completed, NoRecord
<1>6. Ongoing'
    <2>1. \A r \in Requests :
             request[r].step \in {"failing", "recovering", "dispatching"} => request[r].key # k
        BY <1>1 DEF Busy, Free
    <2>2. QED BY <1>1, <1>2, <2>1 DEF IInv, Ongoing
<1>7. Answers' /\ Mailing'
    BY <1>1 DEF IInv, Answers, Mailing
<1>8. QED BY <1>3, <1>4, <1>5, <1>6, <1>7 DEF IInv

LEMMA NextIInv == IInv /\ [Next]_vars => IInv'
<1> SUFFICES ASSUME IInv, [Next]_vars PROVE IInv'
    OBVIOUS
<1>1. ASSUME NEW r \in Requests, Proceed(r) \/ Crash(r) PROVE IInv'
    <2>1. CASE RollBack(r) \/ Crash(r)
        BY <2>1, Stops DEF RollBack, Crash
    <2>2. QED
        BY <1>1, <2>1, ExecuteStep, FailStep, RecoverSucceedsStep, RecoverFailsStep,
           DispatchStep DEF Proceed
<1>2. CASE UNCHANGED vars
    BY <1>2 DEF vars, IInv, TypeOK, Holders, Served, Ongoing, Answers, Completed, Mailing
<1>3. QED BY <1>1, <1>2, ResolveStep, CloseStep, SweepStep, PruneStep DEF Next

LEMMA Invariance == Spec => []IInv
BY InitIInv, NextIInv, PTL DEF Spec

-----------------------------------------------------------------------------
(* The theorems *)

\* The variables of Checkout keep their types, and the mail of an order is sent at
\* most once (dispatch_post_commit_actions).
THEOREM TypeCorrect == Spec => []TypeOK
<1>1. IInv => TypeOK
    BY DEF IInv
<1>2. QED BY <1>1, Invariance, PTL

\* While its record lives, a key makes at most one order (resolve_idempotency),
\* through twins, failures, crashes, recoveries and sweeps.
THEOREM OneOrder == Spec => []OneOrderPerKey
<1>1. IInv => OneOrderPerKey
    <2> SUFFICES ASSUME IInv, NEW k \in Keys PROVE Cardinality(served[k]) <= 1
        BY DEF OneOrderPerKey
    <2>1. CASE served[k] = {}
        <3>1. Cardinality(served[k]) = 0
            BY <2>1, FS_EmptySet
        <3>2. QED BY <3>1
    <2>2. CASE served[k] # {}
        <3>1. PICK o \in served[k] : served[k] = {o}
            BY <2>2 DEF IInv, Served
        <3>2. Cardinality(served[k]) = 1
            BY <3>1, FS_Singleton
        <3>3. QED BY <3>2
    <2>3. QED BY <2>1, <2>2
<1>2. QED BY <1>1, Invariance, PTL

\* An answer is an order made of the payload that asked for it (the hash compared
\* by resolve_idempotency), a replay's and a recovery's too.
THEOREM AnswersAreMine == Spec => []AnswerIsMine
<1>1. IInv => AnswerIsMine
    BY DEF IInv, Answers, AnswerIsMine
<1>2. QED BY <1>1, Invariance, PTL

\* A completed record names the order of its key, and that order has what is needed
\* to pay for it (_recover_checkout_mp, ctx.complete).
THEOREM CompletedPayable == Spec => []CompletedCanBePaid
<1>1. IInv => CompletedCanBePaid
    BY DEF IInv, Completed, Served, CompletedCanBePaid
<1>2. QED BY <1>1, Invariance, PTL

\* A payment that is over is given no checkout any more: a commit writes only an
\* order that is not there yet, and a recovery, however old what it has read, looks
\* at the payment again (_recover_checkout_mp).
THEOREM ClosedForGood == Spec => ClosedStaysClosed
<1> DEFINE Stays ==
        \A o \in Orders : order[o].checkout = "closed" => order'[o].checkout = "closed"
<1>1. IInv /\ [Next]_vars => [Stays]_vars
    <2> SUFFICES ASSUME IInv, Next, NEW o \in Orders, order[o].checkout = "closed"
                 PROVE  order'[o].checkout = "closed"
        OBVIOUS
    <2>1. order \in [Orders -> [payload : Payloads \cup {NoneOf}, checkout : Checkouts]]
        BY DEF IInv, TypeOK
    <2>2. ASSUME NEW r \in Requests, NEW p \in Orders, Execute(r, p)
          PROVE  order'[o] = order[o]
        <3>1. order[p] = NoOrder
              /\ \E made : order' = [order EXCEPT ![p] = made]
            BY <2>2 DEF Execute, Complete, SetupFails, RejectHalfway, Commit
        <3>2. p # o
            BY <3>1 DEF NoOrder
        <3>3. QED BY <2>1, <3>1, <3>2
    <2>3. ASSUME NEW r \in Requests, RecoverSucceeds(r) PROVE order'[o] = order[o]
        BY <2>1, <2>3 DEF RecoverSucceeds, Recoverable
    <2>4. ASSUME NEW p \in Orders, Close(p) PROVE order'[o].checkout = "closed"
        BY <2>1, <2>4 DEF Close
    <2>5. CASE UNCHANGED order
        BY <2>5
    <2>6. QED
        BY <2>2, <2>3, <2>4, <2>5
           DEF Next, Proceed, Resolve, Acquire, Replay, Recover, Refuse, Reject, RollBack,
               FailCheckout, RecoverFails, Dispatch, Crash, Sweep, Prune
<1>2. QED BY <1>1, Invariance, PTL DEF Spec, ClosedStaysClosed
=============================================================================
