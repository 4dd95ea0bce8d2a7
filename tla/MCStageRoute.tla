---------------------------- MODULE MCStageRoute ----------------------------
(* Bounded instances of StageRoute for TLC.                                *)
EXTENDS StageRoute

One == {1}
Two == {1, 2}

\* What the implementation makes of the address type asked for.
Kept == {{"Cluster"}}
KeptOrPruned == {{"Cluster"}, {"other"}}

\* A Gateway is given, every execution has rules and nothing else happens.
Quiet == [provisions |-> FALSE, finalizers |-> {}, foreign |-> FALSE,
          plan |-> [e \in Executions |-> "rules"], seconds |-> [e \in Executions |-> e],
          lagging |-> {}, prunable |-> {}, deletable |-> FALSE, oneAtATime |-> FALSE,
          gateways |-> 0, faults |-> 0]

\* The Stage may be deleted.
Deletable == [Quiet EXCEPT !.deletable = TRUE]

\* The second execution has no rules, the version of the first is pruned.
Pruned == [Deletable EXCEPT !.plan = <<"rules", "no rules">>, !.prunable = {1}, !.faults = 1]

\* Another controller holds the Stage.
Shared == [Deletable EXCEPT !.foreign = TRUE, !.plan = <<"rules">>, !.faults = 2]

\* Both versions were created in the same second.
Tied == [Quiet EXCEPT !.seconds = [e \in Executions |-> 1], !.faults = 1]

\* The informer may see either version later than its execution.
Lagging == [Quiet EXCEPT !.lagging = Executions, !.faults = 1]

\* The first execution never gets anywhere.
FirstInvalid == [Deletable EXCEPT !.plan = <<"invalid", "rules">>, !.faults = 2]

\* One execution that needs a Gateway, on a Stage that has the finalizer.
Provisioning == [Quiet EXCEPT !.provisions = TRUE, !.finalizers = {"route"},
                              !.plan = <<"rules">>, !.gateways = 1]

\* The name of the Gateway is used again; calls fail.
Contested == [Provisioning EXCEPT !.gateways = 2]
Failing == [Provisioning EXCEPT !.faults = 2]

Mixed == {Pruned, Shared, Tied, Lagging, Contested, Failing}
Waiting == {FirstInvalid, Provisioning}
Deleted == {Deletable}
Sequential == {[Deletable EXCEPT !.oneAtATime = TRUE, !.faults = 1]}

=============================================================================
