------------------------------ MODULE MCTaskPool ------------------------------
(* A small instance of TaskPool: one task of the first plan, in whatever state a
   kill leaves it, and the plan of a resumption, two tasks and one that waits
   for both.                                                                 *)
EXTENDS TaskPool, TLC

\* 2 and 3 are independent, 4 waits for both; 1 is a task of an earlier plan.
JoinDeps == 1 :> {} @@ 2 :> {} @@ 3 :> {} @@ 4 :> {2, 3}

TwoPlans == 1 :> 0 @@ 2 :> 1 @@ 3 :> 1 @@ 4 :> 1

\* The seq column starts again with every plan: 1 and 2 have the same.
Places == 1 :> 0 @@ 2 :> 0 @@ 3 :> 1 @@ 4 :> 2

ASSUME PlanIsValid == Acyclic
=============================================================================
