--------------------------- MODULE MCCoordinator ---------------------------
(* An instance of Coordinator for TLC: one call of execute, every kind of    *)
(* request, everything else in the process free at its awaits.               *)
EXTENDS CoordinatorInvariant, TLC

CONSTANTS c1, m1, m2, k1

OneCall == {c1}
TwoMaterials == {m1, m2}
OneCheck == {k1}
Interchangeable == Permutations(TwoMaterials)

\* A request carries no expiry or one that is already near; what is refused
\* before the first await needs no variants.
EveryRequest ==
    {q \in AnyRequest :
        /\ q.expires \in (IF q.risk = "DESTRUCTIVE" THEN {None} ELSE {1, None})
        /\ q.obstacle # "none" \/ ~ q.admitted => q.approver /\ q.prepared /\ q.expires = None
        /\ q.risk = "READ" => ~ q.approver}
=============================================================================
