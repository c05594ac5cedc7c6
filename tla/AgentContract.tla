---------------------------- MODULE AgentContract ----------------------------
(* What the worker pool may expect of an agent (TaskPool, Submit, AgentReturns
   and MayCrash): it hands in candidates only while it works, and it cannot
   crash once it has handed one in.                                          *)
EXTENDS Naturals

VARIABLES
  phase,  \* "idle", "working", "returned", "crashed"
  handed  \* candidates handed in

vars == <<phase, handed>>

Init == phase = "idle" /\ handed = 0

Begin  == phase \in {"idle", "returned"} /\ phase' = "working" /\ UNCHANGED handed
Submit == phase = "working" /\ handed' = handed + 1 /\ UNCHANGED phase
Return == phase = "working" /\ phase' = "returned" /\ UNCHANGED handed
Crash  == phase = "working" /\ handed = 0 /\ phase' = "crashed" /\ UNCHANGED handed

Next == Begin \/ Submit \/ Return \/ Crash

Spec == Init /\ [][Next]_vars
=============================================================================
