------------------------------ MODULE MCPlanning ------------------------------
(* Small instances of Planning: lists of at most three tasks, every dependency
   on their ids and on an unknown one, with and without a repeated id.       *)
EXTENDS Planning

CONSTANTS a, b, c, unknown

IdLists  == {<<>>, <<a>>, <<a, b>>, <<a, b, c>>, <<a, b, a>>}
Plan(ids, deps) == [i \in DOMAIN ids |-> [id |-> ids[i], deps |-> deps[i]]]
Plans3 == UNION {{Plan(ids, deps) : deps \in [DOMAIN ids -> SUBSET {a, b, c, unknown}]} :
                 ids \in IdLists}

SomeAnswers == {PlanOf(t) : t \in Plans3} \cup {Garbled, Odd}
SomeRepairs == {Garbled, Odd, PlanOf(<<[id |-> a, deps |-> {}]>>),
                PlanOf(<<[id |-> a, deps |-> {a}]>>)}
=============================================================================
