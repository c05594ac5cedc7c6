------------------------------ MODULE MCReplay ------------------------------
(* An instance of Replay for TLC: a planner and two workers, two recorded
   missions whose files come between two that were written by hand.          *)
EXTENDS Replay, TLC

MCRoleOf  == "planner" :> "planner" @@ "w1" :> "worker" @@ "w2" :> "worker"
MCStepsOf == 1 :> 1 @@ 4 :> 2
MCMatched == 1 :> "worker" @@ 4 :> "worker"
=============================================================================
