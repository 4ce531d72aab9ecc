------------------------------ MODULE MCJobWorkflow ----------------------------
(* Values of JobWorkflow's constants for TLC. *)
EXTENDS LifecycleRefinement, TLC

CONSTANTS r1, r2, r3, seed

\* Every submission in a millisecond of its own.
DistinctStamps == CHOOSE f \in [Submissions -> 0 .. Cardinality(Submissions)] :
                    \A s, t \in Submissions : s # t => f[s] # f[t]

\* Two submissions in one millisecond, the others in their own.
SharedStamps == (seed :> 0) @@ (r1 :> 1) @@ (r2 :> 1) @@ (r3 :> 2)

Everything  == Ops \X Ops
Alike       == Deciders \cup Submitters

TwoSides    == {"FRONT", "BACK"}
OneSide     == {"FRONT"}
AllStages   == StageNames
None        == {}
Shop        == {"started", "completed"}

PairSymmetry == Permutations({r1, r2})
================================================================================
