------------------------------- MODULE Planning -------------------------------
(* The planner (orchestrator/planner.py) and the validation of its plan
   (orchestrator/mission.py): one answer of the model, and one repair round if
   it is no valid plan.

   An answer is abstracted to what parse_plan tells apart: a text without a
   plan ("garbled": PlanError), a plan array with an entry that is no object
   ("odd": AttributeError, from t.get), or a list of tasks.  The recursive
   search of validate_dag is a machine with the stack of its calls.          *)
EXTENDS Naturals, Sequences, FiniteSets

CONSTANTS
  Answers,  \* what the model may answer first
  Repairs   \* what it may answer in the repair round

Garbled == [kind |-> "garbled", tasks |-> <<>>]
Odd     == [kind |-> "odd", tasks |-> <<>>]
PlanOf(tasks) == [kind |-> "plan", tasks |-> tasks]

(* A plan is a list of tasks, in any order, each with an id and dependencies. *)
ASSUME AnswersAssumption ==
  \A a \in Answers \cup Repairs :
    \/ a \in {Garbled, Odd}
    \/ /\ a = PlanOf(a.tasks)
       /\ a.tasks \in Seq({a.tasks[i] : i \in DOMAIN a.tasks})
       /\ \A i \in DOMAIN a.tasks : DOMAIN a.tasks[i] = {"id", "deps"}

VARIABLES
  phase,   \* "asking", "checking", "repairing", "accepted", "failed"
           \* (PlanError) or "raised"
  answer,  \* the last answer of the model
  rounds,  \* answers of the model so far
  color,   \* of each task of the plan being checked
  path,    \* ids of the calls of visit that are not over, the last one on top
  left     \* left[n]: dependencies that the loop of visit(n) has yet to look at

search   == <<color, path, left>>
planVars == <<phase, answer, rounds, search>>

-----------------------------------------------------------------------------
(* validate_dag.                                                            *)

IdsOf(tasks)     == {tasks[i].id : i \in DOMAIN tasks}
DepsOf(tasks, n) == UNION {tasks[i].deps : i \in {j \in DOMAIN tasks : tasks[j].id = n}}

Ids     == IdsOf(answer.tasks)
Deps(n) == DepsOf(answer.tasks, n)
Top     == path[Len(path)]

PlanTypeOK ==
  /\ phase \in {"asking", "checking", "repairing", "accepted", "failed", "raised"}
  /\ answer \in {Garbled} \cup Answers \cup Repairs
  /\ rounds \in 0..2
  /\ phase \in {"checking", "accepted"} =>
       /\ answer.kind = "plan"
       /\ color \in [Ids -> {"white", "gray", "black"}]
       /\ path \in Seq(Ids)
       /\ left \in [Ids -> SUBSET Ids]

PlanInit ==
  /\ phase = "asking" /\ answer = Garbled /\ rounds = 0
  /\ color = <<>> /\ path = <<>> /\ left = <<>>

DistinctIds(tasks) == Len(tasks) = Cardinality(IdsOf(tasks))
KnownDeps(tasks)   == \A i \in DOMAIN tasks : tasks[i].deps \subseteq IdsOf(tasks)

(* PlanError: the model is asked to repair its plan, once. *)
Refused(n) == IF n = 1 THEN "repairing" ELSE "failed"

(* visit(n) begins. *)
Enter(n) ==
  /\ color' = [color EXCEPT ![n] = "gray"]
  /\ path' = Append(path, n)
  /\ left' = [left EXCEPT ![n] = Deps(n)]

(* The roots are taken in the order of the plan. *)
VisitRoot(i) ==
  /\ phase = "checking" /\ path = <<>>
  /\ color[answer.tasks[i].id] = "white"
  /\ \A j \in 1..(i - 1) : color[answer.tasks[j].id] # "white"
  /\ Enter(answer.tasks[i].id)
  /\ UNCHANGED <<phase, answer, rounds>>

(* Mutations (see PROJECT.json) precede the definition they would replace. *)
BlackIsBack(d) == color[d] # "white"

(* The edge to d closes a cycle: d is on the path from the root. *)
BackEdge(d) == color[d] = "gray"

(* The loop of visit(Top) comes to d; the dependencies are a set, without order. *)
Follow(d) ==
  /\ phase = "checking" /\ path # <<>> /\ d \in left[Top]
  /\ UNCHANGED <<answer, rounds>>
  /\ \/ /\ BackEdge(d)
        /\ phase' = Refused(rounds)
        /\ UNCHANGED search
     \/ /\ ~BackEdge(d) /\ color[d] = "white"
        /\ color' = [color EXCEPT ![d] = "gray"]
        /\ path' = Append(path, d)
        /\ left' = [left EXCEPT ![Top] = @ \ {d}, ![d] = Deps(d)]
        /\ UNCHANGED phase
     \/ /\ ~BackEdge(d) /\ color[d] # "white"
        /\ left' = [left EXCEPT ![Top] = @ \ {d}]
        /\ UNCHANGED <<phase, color, path>>

(* visit(Top) is over. *)
Leave ==
  /\ phase = "checking" /\ path # <<>> /\ left[Top] = {}
  /\ color' = [color EXCEPT ![Top] = "black"]
  /\ path' = SubSeq(path, 1, Len(path) - 1)
  /\ UNCHANGED <<phase, answer, rounds, left>>

Accept ==
  /\ phase = "checking" /\ path = <<>>
  /\ \A n \in Ids : color[n] # "white"
  /\ phase' = "accepted"
  /\ UNCHANGED <<answer, rounds, search>>

-----------------------------------------------------------------------------
(* Planner.plan.                                                            *)

(* parse_plan, up to the search. *)
Parsed(a, n) ==
  CASE a.kind = "garbled" -> Refused(n)
    [] a.kind = "odd"     -> "raised"
    [] OTHER -> IF a.tasks # <<>> /\ DistinctIds(a.tasks) /\ KnownDeps(a.tasks)
                THEN "checking" ELSE Refused(n)

Answered(a) ==
  /\ answer' = a /\ rounds' = rounds + 1
  /\ phase' = Parsed(a, rounds')
  /\ color' = [n \in IdsOf(a.tasks) |-> "white"]
  /\ left' = [n \in IdsOf(a.tasks) |-> {}]
  /\ path' = <<>>

FirstAnswer(a)  == phase = "asking" /\ Answered(a)
RepairAnswer(a) == phase = "repairing" /\ Answered(a)

(* The agent ran out of steps: PlanError, without a repair round. *)
NotFinished ==
  /\ phase \in {"asking", "repairing"}
  /\ phase' = "failed"
  /\ UNCHANGED <<answer, rounds, search>>

ChatRaises ==
  /\ phase \in {"asking", "repairing"}
  /\ phase' = "raised"
  /\ UNCHANGED <<answer, rounds, search>>

(* plan has returned or raised. *)
PlanEnded == phase \in {"accepted", "failed", "raised"} /\ UNCHANGED planVars

PlanNext ==
  \/ \E a \in Answers : FirstAnswer(a)
  \/ \E a \in Repairs : RepairAnswer(a)
  \/ \E i \in DOMAIN answer.tasks : VisitRoot(i)
  \/ \E d \in Ids : Follow(d)
  \/ Leave \/ Accept \/ NotFinished \/ ChatRaises \/ PlanEnded

PlanSpec == PlanInit /\ [][PlanNext]_planVars

-----------------------------------------------------------------------------
(* Properties.                                                              *)

(* The reference: no set of tasks in which each depends on one of the set.   *)
AcyclicPlan(tasks) ==
  \A S \in SUBSET IdsOf(tasks) : S # {} => \E n \in S : DepsOf(tasks, n) \cap S = {}

IsPlan(a) ==
  /\ a.kind = "plan" /\ a.tasks # <<>>
  /\ \A i, j \in DOMAIN a.tasks : a.tasks[i].id = a.tasks[j].id => i = j
  /\ \A i \in DOMAIN a.tasks : a.tasks[i].deps \subseteq IdsOf(a.tasks)
  /\ AcyclicPlan(a.tasks)

(* The validator accepts exactly the plans that can be run.  What reaches the
   task table is a DAG over its own tasks, as the worker pool needs to find
   something to run (TaskPool, DeadlockHasCause); and no such plan is turned
   down, in whatever order its tasks come and however they share nodes.      *)
AcceptsExactlyPlans ==
  /\ phase = "accepted" => IsPlan(answer)
  /\ phase \in {"repairing", "failed", "raised"} => ~IsPlan(answer)
=============================================================================
