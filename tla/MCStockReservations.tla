------------------------ MODULE MCStockReservations ------------------------
(***************************************************************************)
(* Small instances of StockReservations, and restrictions of its           *)
(* environment that isolate one cause at a time.                           *)
(***************************************************************************)
EXTENDS StockReservations

\* One variant sold by the unit, ordered by the piece.
OneUnit == {[v \in Variants |-> 1]}

\* Variant 1 alone, or one of each.
OneOrAll == {[v \in Variants |-> IF v = 1 THEN 1 ELSE 0], [v \in Variants |-> 1]}

\* The catalogue is left alone.
Untouched == UNCHANGED listed /\ (stock' # stock => orderStatus' # orderStatus)

\* One request at a time: nothing happens between the two halves of a submission.
Serial == \A o \in Orders : ~Unlocked(o) => submission'[o] # submission[o]

\* The job runs, time passes and a submission that has begun ends; no variant is
\* withdrawn from the catalogue.
SerialFairSpec ==
    /\ Init /\ [][Next /\ Untouched /\ Serial]_vars
    /\ SF_vars(Sweep /\ Serial)
    /\ SF_vars(Tick /\ Serial)
    /\ \A o \in Orders : WF_vars(SubmitReserves(o) \/ SubmitRejected(o))

OverlappingSpec == Init /\ [][Next /\ Untouched]_vars

=============================================================================
