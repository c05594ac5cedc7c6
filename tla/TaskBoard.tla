------------------------------ MODULE TaskBoard ------------------------------
(* What the worker pool promises about a mission's task table, without
   saying how it schedules: a task is taken up only when its dependencies are
   accepted, by one worker at a time and a bounded number of times; an
   accepted or rejected task stays so; the board is closed only when nobody
   works and no open task could be taken up.  A board can be reopened, with new
   cards on it: what was active or lost is open again, and each card may be
   taken up once more.                                                       *)
EXTENDS Naturals, FiniteSets

CONSTANTS Tasks,    \* the tasks that may be on the board
          PlanOf,   \* PlanOf[t]: 0, or the reopening that puts t on the board
          Deps,     \* the tasks each task depends on
          Workers,  \* how many tasks may be worked on at the same time
          MaxRuns   \* how many times one task may be taken up if nothing is reopened

VARIABLES card,     \* where each task's card hangs
          runs,     \* how often each task was taken up
          closed,   \* TRUE while nothing will be taken up any more
          reopened  \* how often the board was reopened

vars == <<card, runs, closed, reopened>>

Columns == {"unwritten", "open", "active", "accepted", "rejected", "lost"}

Active   == {t \in Tasks : card[t] = "active"}
Eligible == {t \in Tasks : /\ card[t] = "open"
                           /\ \A d \in Deps[t] : card[d] = "accepted"}

Init ==
  /\ card = [t \in Tasks |-> IF PlanOf[t] = 0 THEN "open" ELSE "unwritten"]
  /\ runs = [t \in Tasks |-> 0]
  /\ closed = FALSE
  /\ reopened = 0

(* Several cards may be taken up together: one pass of the scheduler fills
   every free place.                                                        *)
TakeUp(S) ==
  /\ ~closed
  /\ S # {} /\ S \subseteq Eligible
  /\ \A t \in S : runs[t] < MaxRuns + reopened
  /\ Cardinality(Active \cup S) <= Workers
  /\ card' = [t \in Tasks |-> IF t \in S THEN "active" ELSE card[t]]
  /\ runs' = [t \in Tasks |-> IF t \in S THEN runs[t] + 1 ELSE runs[t]]
  /\ UNCHANGED <<closed, reopened>>

(* A worker finishes with its card, in one of the four ways.                *)
Settle(t, column) ==
  /\ card[t] = "active"
  /\ column = "rejected" => runs[t] >= MaxRuns
  /\ column = "open" => runs[t] < MaxRuns
  /\ card' = [card EXCEPT ![t] = column]
  /\ UNCHANGED <<runs, closed, reopened>>

Close ==
  /\ ~closed
  /\ Active = {} /\ Eligible = {}
  /\ closed' = TRUE
  /\ UNCHANGED <<card, runs, reopened>>

(* Nothing accepted or rejected is touched. *)
Reopen ==
  /\ reopened' = reopened + 1
  /\ closed' = FALSE
  /\ card' = [t \in Tasks |->
        IF card[t] \in {"active", "lost"} \/ (card[t] = "unwritten" /\ PlanOf[t] = reopened')
        THEN "open" ELSE card[t]]
  /\ UNCHANGED runs

Next ==
  \/ \E S \in SUBSET Tasks : TakeUp(S)
  \/ \E t \in Tasks, column \in {"open", "accepted", "rejected", "lost"} :
       Settle(t, column)
  \/ Close
  \/ Reopen

Spec == Init /\ [][Next]_vars
=============================================================================
