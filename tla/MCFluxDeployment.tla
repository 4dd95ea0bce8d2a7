-------------------------- MODULE MCFluxDeployment --------------------------
(* Bounded instances of FluxDeployment for TLC.                            *)
EXTENDS FluxDeployment

Bounds(r, v, c, f) == [reports |-> r, services |-> v, settings |-> c, faults |-> f]

Plain(k) == [kind |-> k, resources |-> <<"one", "one">>, services |-> "some",
             registry |-> "anonymous", target |-> "local", left |-> Bounds(2, 0, 0, 0)]

\* A spec that is edited, with a fault or new Services; one that is refused at
\* first and then loses its resource; a registry or a target that changes.
Histories(k) == {[Plain(k) EXCEPT !.left = Bounds(2, 0, 0, 1)],
                 [Plain(k) EXCEPT !.left = Bounds(2, 1, 0, 0)],
                 [Plain(k) EXCEPT !.resources = <<"many", "none">>, !.left = Bounds(0, 1, 0, 1)],
                 [Plain(k) EXCEPT !.resources = <<"one">>, !.left = Bounds(2, 0, 1, 0)]}

AllScenarios == Histories("Helm") \cup Histories("Kustomize")

=============================================================================
