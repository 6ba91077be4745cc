--------------------------- MODULE MCScalingLoop ---------------------------
(***************************************************************************)
(* Instances of ScalingLoop for TLC.                                       *)
(***************************************************************************)
EXTENDS ScalingLoop

CONSTANTS p1, p2

MCPods == {p1, p2}

PolicyOf(min, max, target, step, up, down) ==
    [MinReplicas |-> min, MaxReplicas |-> max, TargetQueueDepth |-> target,
     MaxScaleUpStep |-> step, ScaleUpAfter |-> up, ScaleDownAfter |-> down]

\* Floors of zero, one and two, targets that divide the load and that do not,
\* single steps and steps of three, windows of different lengths, and no windows.
OrderedPolicies ==
    {PolicyOf(min, 3, target, step, 1, 2) : min \in {0, 2}, target \in {1, 3}, step \in {1, 3}}
        \cup {PolicyOf(0, 3, 1, 1, 2, 1), PolicyOf(1, 3, 1, 1, 0, 0)}

\* A floor of zero.
IdlePolicies == {PolicyOf(0, 2, 1, 1, 1, 1)}
=============================================================================
