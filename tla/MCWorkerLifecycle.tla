------------------------- MODULE MCWorkerLifecycle -------------------------
(* Model values for the workers of the instances.                           *)
EXTENDS WorkerLifecycle

CONSTANTS w1, w2

\* Bound: a worker with two runners is followed only as long as nothing fails.
TwoRunnersOrErrors ==
    errors > 0 => \A w \in Workers : "double_start" \notin races[w]

=============================================================================
