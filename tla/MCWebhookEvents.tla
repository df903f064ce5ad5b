-------------------------- MODULE MCWebhookEvents --------------------------
(***************************************************************************)
(* Small instances of WebhookEvents.                                       *)
(***************************************************************************)
EXTENDS WebhookEvents

\* Nobody touches an event while the job holds a copy of it that it has still to
\* take: the copies are good.
Undisturbed ==
    \A e \in Events :
        loaded[e] # Expired /\ e \in listed' => event'[e] = event[e]

\* The job runs on its timer, takes all it has listed, and time passes.
JobSpec ==
    /\ Init /\ [][Next /\ Undisturbed]_vars
    /\ WF_vars(ListFailed)
    /\ \A e \in Events : WF_vars(Reload(e)) /\ WF_vars(Reprocess(e)) /\ WF_vars(FallDue(e))
=============================================================================
