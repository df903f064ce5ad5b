------------------------ MODULE WebhookEventsProofs ------------------------
(***************************************************************************)
(* Proofs about WebhookEvents, for any set of events and any limit on the  *)
(* attempts.  The invariant speaks of the job's copies of the rows as well *)
(* as of the rows: a stale copy that is written back must still be a row   *)
(* whose status and count of attempts agree.                               *)
(***************************************************************************)
EXTENDS MCWebhookEvents, TLAPS

\* The status of a row and its count of attempts agree.
Agrees(row) ==
    /\ row.status = "failed" => row.attempts < MaxAttempts
    /\ row.status = "dead_letter" => row.attempts = MaxAttempts

IInv ==
    /\ TypeOK
    /\ \A e \in Events : Agrees(event[e])

-----------------------------------------------------------------------------

\* Marking a row failed gives a row that agrees, whatever the row was.
LEMMA FailedAgrees ==
    ASSUME NEW row \in Rows
    PROVE  Failed(row) \in Rows /\ Agrees(Failed(row))
BY EventAssumption DEF Failed, Rows, Statuses, Agrees

\* Marking a row processed gives a row that agrees.
LEMMA ProcessedAgrees ==
    ASSUME NEW row \in Rows
    PROVE  Processed(row) \in Rows /\ Agrees(Processed(row))
BY DEF Processed, Rows, Statuses, Agrees

\* Applying an event, or failing to, keeps the rows and the counts in order.
LEMMA HandlingKeepsRows ==
    ASSUME IInv, NEW e \in Events, NEW row \in Rows, Apply(e, row) \/ Fail(e, row)
    PROVE  /\ event' \in [Events -> Rows]
           /\ applied' \in [Events -> 0..Twice]
           /\ \A f \in Events : Agrees(event'[f])
<1>1. CASE Apply(e, row)
    BY <1>1, ProcessedAgrees DEF Apply, IInv, TypeOK, Twice
<1>2. CASE Fail(e, row)
    BY <1>2, FailedAgrees DEF Fail, IInv, TypeOK
<1>3. QED BY <1>1, <1>2

\* The initial rows: old failures and nothing else.
LEMMA InitIInv == Init => IInv
BY EventAssumption
    DEF Init, IInv, TypeOK, Agrees, NoEvent, Expired, Rows, Statuses, Deliveries, Twice

LEMMA NextIInv == IInv /\ [Next]_vars => IInv'
<1> SUFFICES ASSUME IInv, [Next]_vars PROVE IInv'
    OBVIOUS
<1> USE DEF IInv
<1>1. ASSUME NEW e \in Events, Notify(e) PROVE IInv'
    BY <1>1 DEF Notify, TypeOK, Deliveries
<1>2. ASSUME NEW e \in Events, GiveUp(e) PROVE IInv'
    BY <1>2 DEF GiveUp, TypeOK, Deliveries
<1>3. ASSUME NEW e \in Events, CommitPayment(e) PROVE IInv'
    BY <1>3 DEF CommitPayment, TypeOK
<1>4. ASSUME NEW e \in Events, RouteApplies(e) PROVE IInv'
    <2>1. event[e] \in Rows
        BY DEF TypeOK
    <2>2. event' \in [Events -> Rows] /\ applied' \in [Events -> 0..Twice]
          /\ \A f \in Events : Agrees(event'[f])
        BY <1>4, <2>1, HandlingKeepsRows DEF RouteApplies
    <2>3. QED BY <1>4, <2>2 DEF RouteApplies, Answer, TypeOK, Deliveries, Agrees
<1>5. ASSUME NEW e \in Events, RouteNotFound(e) \/ RouteDuplicate(e) PROVE IInv'
    BY <1>5 DEF RouteNotFound, RouteDuplicate, Answer, TypeOK, Deliveries
<1>6. ASSUME NEW e \in Events, RouteFails(e) PROVE IInv'
    BY <1>6 DEF RouteFails, vars, TypeOK
<1>7. ASSUME NEW e \in Events, Replay(e) PROVE IInv'
    <2>1. event[e] \in Rows
        BY DEF TypeOK
    <2>2. event' \in [Events -> Rows] /\ applied' \in [Events -> 0..Twice]
          /\ \A f \in Events : Agrees(event'[f])
        BY <1>7, <2>1, HandlingKeepsRows DEF Replay
    <2>3. QED BY <1>7, <2>2 DEF Replay, TypeOK, Agrees
<1>8. ASSUME NEW e \in Events, FallDue(e) PROVE IInv'
    BY <1>8 DEF FallDue, TypeOK, Rows, Agrees
<1>9. ASSUME NEW e \in Events, Reprocess(e) PROVE IInv'
    <2>1. loaded' \in [Events -> Rows \cup {Expired}] /\ listed' \subseteq Events
        BY <1>9 DEF Reprocess, TypeOK
    <2>2. CASE Apply(e, loaded[e]) \/ Fail(e, loaded[e])
        <3>1. loaded[e] \in Rows
            BY <1>9 DEF Reprocess, TypeOK
        <3>2. event' \in [Events -> Rows] /\ applied' \in [Events -> 0..Twice]
              /\ \A f \in Events : Agrees(event'[f])
            BY <2>2, <3>1, HandlingKeepsRows
        <3>3. QED BY <1>9, <2>1, <3>2 DEF Reprocess, TypeOK, Agrees
    <2>3. CASE UNCHANGED <<event, applied>>
        BY <1>9, <2>1, <2>3 DEF Reprocess, TypeOK, Agrees
    <2>4. QED BY <1>9, <2>2, <2>3 DEF Reprocess
<1>10. CASE ListFailed
    BY <1>10 DEF ListFailed, TypeOK, Agrees
<1>11. ASSUME NEW e \in Events, Reload(e) PROVE IInv'
    BY <1>11 DEF Reload, TypeOK, Agrees
<1>12. CASE UNCHANGED vars
    BY <1>12 DEF vars, TypeOK, Agrees
<1>13. QED
    BY <1>1, <1>2, <1>3, <1>4, <1>5, <1>6, <1>7, <1>8, <1>9, <1>10, <1>11, <1>12 DEF Next, Route

LEMMA Invariance == Spec => []IInv
BY InitIInv, NextIInv, PTL DEF Spec

-----------------------------------------------------------------------------

\* Every variable keeps its type and no count of attempts exceeds the limit,
\* although the job writes back rows it read without a lock.
THEOREM TypeCorrect == Spec => []TypeOK
<1>1. IInv => TypeOK
    BY DEF IInv
<1>2. QED BY <1>1, Invariance, PTL

\* A dead letter has used up its attempts and a failed event has not, however
\* redeliveries, replays and the job's old copies interleave.
THEOREM ExhaustedLetters == Spec => []DeadLettersAreExhausted
<1>1. IInv => DeadLettersAreExhausted
    BY DEF IInv, Agrees, DeadLettersAreExhausted
<1>2. QED BY <1>1, Invariance, PTL

(***************************************************************************)
(* The job with good copies.  It reads the failed events with no lock, and *)
(* nothing refreshes what it has read, so ProcessedOnce fails if a replay  *)
(* comes between the reading and the taking.  Undisturbed says that none   *)
(* does; it is then invariant that the copies still to be taken are the    *)
(* rows, and a processed row is never taken up.                            *)
(***************************************************************************)

Copies == \A e \in Events : e \in listed /\ loaded[e] # Expired => loaded[e] = event[e]

JobIInv == TypeOK /\ Copies /\ ProcessedOnce

\* Only a row that is not processed is handled, and that is where it is counted.
HandledOnce(e, row) ==
    /\ row = event[e]
    /\ row.status # "processed"
    /\ Apply(e, row) \/ Fail(e, row)

\* What a step may do to the rows and the counts: nothing, handle one event that
\* is not processed, or make a failed one due.
LEMMA RowSteps ==
    ASSUME JobIInv, Next
    PROVE  \/ UNCHANGED <<event, applied>>
           \/ \E e \in Events : HandledOnce(e, event[e])
           \/ \E e \in Events : FallDue(e)
<1>1. ASSUME NEW e \in Events, RouteApplies(e) PROVE HandledOnce(e, event[e])
    BY <1>1 DEF RouteApplies, HandledOnce, Acquirable
<1>2. ASSUME NEW e \in Events, Replay(e) PROVE HandledOnce(e, event[e])
    BY <1>2 DEF Replay, HandledOnce, Retakable
<1>3. ASSUME NEW e \in Events, Reprocess(e)
      PROVE  UNCHANGED <<event, applied>> \/ HandledOnce(e, event[e])
    <2>1. loaded[e] = event[e]
        BY <1>3 DEF JobIInv, Copies, Reprocess
    <2>2. QED BY <1>3, <2>1 DEF Reprocess, HandledOnce, Retakable
<1>4. QED
    BY <1>1, <1>2, <1>3
       DEF Next, Route, Notify, GiveUp, CommitPayment, RouteNotFound, RouteDuplicate, RouteFails,
           ListFailed, Reload, vars

\* Handling an event that is not processed counts it if and only if it marks it.
LEMMA HandledIsCounted ==
    ASSUME JobIInv, NEW e \in Events, HandledOnce(e, event[e])
    PROVE  /\ ProcessedOnce'
           /\ \A f \in Events : event[f].status = "processed" => event'[f] = event[f]
<1>1. /\ event \in [Events -> Rows] /\ applied \in [Events -> 0..Twice]
      /\ applied[e] = 0 /\ event[e].status # "processed"
    BY DEF JobIInv, TypeOK, ProcessedOnce, HandledOnce
<1>2. CASE Apply(e, event[e])
    <2>1. applied' = [applied EXCEPT ![e] = 1]
        BY <1>1, <1>2 DEF Apply, Twice
    <2>2. /\ event' = [event EXCEPT ![e] = Processed(event[e])]
          /\ Processed(event[e]).status = "processed"
        BY <1>1, <1>2 DEF Apply, Processed, Rows
    <2>3. QED BY <1>1, <2>1, <2>2 DEF JobIInv, ProcessedOnce
<1>3. CASE Fail(e, event[e])
    <2>1. /\ event' = [event EXCEPT ![e] = Failed(event[e])]
          /\ Failed(event[e]).status # "processed"
          /\ applied' = applied
        BY <1>3 DEF Fail, Failed
    <2>2. QED BY <1>1, <2>1 DEF JobIInv, ProcessedOnce
<1>4. QED BY <1>2, <1>3 DEF HandledOnce

\* A processed row is not touched, and a row is processed when its effect is
\* committed.
LEMMA JobRows ==
    ASSUME JobIInv, [Next]_vars
    PROVE  /\ ProcessedOnce'
           /\ \A f \in Events : event[f].status = "processed" => event'[f] = event[f]
<1>1. CASE UNCHANGED <<event, applied>>
    BY <1>1 DEF JobIInv, ProcessedOnce
<1>2. ASSUME NEW e \in Events, FallDue(e)
      PROVE  /\ ProcessedOnce'
             /\ \A f \in Events : event[f].status = "processed" => event'[f] = event[f]
    <2>1. /\ event \in [Events -> Rows] /\ event[e].status = "failed"
          /\ event' = [event EXCEPT ![e] = [event[e] EXCEPT !.due = TRUE]]
          /\ applied' = applied
        BY <1>2 DEF JobIInv, TypeOK, FallDue
    <2>2. /\ \A f \in Events : event'[f].status = event[f].status
          /\ \A f \in Events \ {e} : event'[f] = event[f]
        BY <2>1 DEF Rows
    <2>3. QED BY <2>1, <2>2 DEF JobIInv, ProcessedOnce
<1>3. QED
    BY <1>1, <1>2, RowSteps, HandledIsCounted DEF vars

\* While nobody disturbs them, the copies are the rows.
LEMMA CopiesKept ==
    ASSUME JobIInv, Next, Undisturbed
    PROVE  Copies'
<1> SUFFICES ASSUME NEW e \in Events, e \in listed', loaded'[e] # Expired
             PROVE  loaded'[e] = event'[e]
    BY DEF Copies
<1>1. CASE ListFailed
    BY <1>1 DEF ListFailed
<1>2. CASE \E f \in Events : Reprocess(f)
    BY <1>2 DEF Reprocess
<1>3. CASE loaded' = loaded /\ listed' = listed
    BY <1>3 DEF JobIInv, Copies, Undisturbed
<1>4. CASE \E f \in Events : Reload(f)
    BY <1>4 DEF Reload, JobIInv, TypeOK
<1>5. QED
    BY <1>1, <1>2, <1>3, <1>4
       DEF Next, Route, Notify, GiveUp, CommitPayment, RouteApplies, RouteNotFound,
           RouteDuplicate, RouteFails, Replay, FallDue, vars

LEMMA JobInit == Init => JobIInv
<1>1. Init => TypeOK
    BY InitIInv DEF IInv
<1>2. Init => Copies /\ ProcessedOnce
    BY DEF Init, Copies, ProcessedOnce, NoEvent
<1>3. QED BY <1>1, <1>2 DEF JobIInv

\* The invariant of the job with good copies; the counts are those of Spec.
LEMMA JobInvariance == Init /\ [][Next /\ Undisturbed]_vars => []JobIInv
<1>1. Init => JobIInv /\ IInv
    BY JobInit, InitIInv
<1>2. JobIInv /\ IInv /\ [Next /\ Undisturbed]_vars => JobIInv' /\ IInv'
    <2> SUFFICES ASSUME JobIInv, IInv, [Next /\ Undisturbed]_vars PROVE JobIInv' /\ IInv'
        OBVIOUS
    <2>1. IInv'
        BY NextIInv
    <2>2. ProcessedOnce'
        BY JobRows
    <2>3. Copies'
        BY CopiesKept DEF vars, JobIInv, Copies
    <2>4. QED BY <2>1, <2>2, <2>3 DEF IInv, JobIInv
<1>3. QED BY <1>1, <1>2, PTL

\* With good copies the table says that an event is processed if and only if its
\* effect was committed once: duplicates, replays and the job never repeat it.
THEOREM OnceProcessed == JobSpec => []ProcessedOnce
<1>1. JobIInv => ProcessedOnce
    BY DEF JobIInv
<1>2. QED BY <1>1, JobInvariance, PTL DEF JobSpec

\* With good copies no step takes up an event that has been processed.
THEOREM ProcessedForGood == JobSpec => ProcessedIsFinal
<1> DEFINE Final == \A e \in Events : event[e].status = "processed" => event'[e] = event[e]
<1>1. JobIInv /\ [Next /\ Undisturbed]_vars => [Final]_vars
    BY JobRows
<1>2. QED BY <1>1, JobInvariance, PTL DEF JobSpec, ProcessedIsFinal
=============================================================================
