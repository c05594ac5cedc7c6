--------------------------- MODULE MergeArenaProofs ---------------------------
(* Proofs about MergeArena, for any number of winners, any pattern of
   conflicts between them and any outcome of the tests on their combinations. *)
EXTENDS MergeArena, SequenceTheorems, TLAPS

(* How many winners have been looked at. *)
Seen == Len(Winners) - Len(todo)

(* What todo holds is the rest of the winners. *)
TodoIsRest ==
  /\ Len(todo) <= Len(Winners)
  /\ \A i \in 1..Len(todo) : todo[i] = Winners[Seen + i]

(* Those looked at since the last drop. *)
Stretch ==
  {Winners[i] : i \in {j \in 1..Seen : \A k \in j..Seen : Winners[k] \notin ToSet(dropped)}}

DroppedWereSeen == ToSet(dropped) \subseteq {Winners[i] : i \in 1..Seen}

(* The verifier has run the tests on main with each winner alone. *)
GreenAlone == {} \in green /\ \A c \in Cands : {c} \in green

(* The winner at hand, once its patch is refused. *)
AtHand == IF pc = "resolve" THEN {Head(todo)} ELSE {}

HandedOver == pc = "resolve" => todo # <<>> /\ Head(todo) \in asked

(* Between two winners the tree passes the tests. *)
TreeIsGreen == pc \in {"apply", "returned"} => Passes(tree)

TreeIsStretch ==
  pc # "raised" => /\ tree.in \cup tree.marked \subseteq Stretch \cup AtHand
                   /\ Stretch \ asked \subseteq tree.in

(* Nothing is dropped before the first winner is merged. *)
FirstMerges ==
  merged = <<>> => todo = Winners /\ tree = Main /\ pc \in {"apply", "raised"}

Returned == pc = "returned" => todo = <<>> /\ (author => head = tree)

(* Where git knows no user the arena branch stays where it began. *)
Unmade == ~author => head = Main

BranchStands == pc # "raised" => branch

IInv ==
  /\ TypeOK /\ TodoIsRest /\ DroppedWereSeen /\ GreenAlone /\ HandedOver
  /\ TreeIsGreen /\ TreeIsStretch /\ FirstMerges /\ Returned /\ Unmade
  /\ BranchStands
-----------------------------------------------------------------------------
(* Lemmas.                                                                  *)

LEMMA WinnersAre ==
  /\ Winners \in Seq(Cands) /\ Len(Winners) \in Nat \ {0}
  /\ \A i \in 1..Len(Winners) : Winners[i] \in Cands
  /\ \A i, j \in 1..Len(Winners) : Winners[i] = Winners[j] => i = j
<1>1. Winners \in Seq(Cands)
  BY WinnersAssumption DEF Cands
<1>2. Len(Winners) \in Nat /\ Len(Winners) # 0 /\ DOMAIN Winners = 1..Len(Winners)
  BY <1>1, WinnersAssumption
<1>. QED  BY <1>1, <1>2, WinnersAssumption DEF IsInjective

LEMMA ToSetOfAppend ==
  ASSUME NEW S, NEW s \in Seq(S), NEW x \in S
  PROVE  ToSet(Append(s, x)) = ToSet(s) \cup {x}
<1>1. /\ DOMAIN s = 1..Len(s) /\ Len(s) \in Nat
      /\ DOMAIN Append(s, x) = 1..(Len(s) + 1)
      /\ \A i \in 1..Len(s) : Append(s, x)[i] = s[i]
      /\ Append(s, x)[Len(s) + 1] = x
  OBVIOUS
<1>. QED  BY <1>1 DEF ToSet

(* The winner at hand is the first not looked at. *)
LEMMA AtHead ==
  ASSUME IInv, todo # <<>>
  PROVE  /\ Seen \in Nat /\ Seen + 1 <= Len(Winners)
         /\ Head(todo) = Winners[Seen + 1] /\ Head(todo) \in Cands
         /\ Head(todo) \notin ToSet(dropped)
<1>1. Len(todo) \in Nat \ {0} /\ Head(todo) = todo[1] /\ Head(todo) \in Cands
  BY DEF IInv, TypeOK
<1>2. Seen \in Nat /\ Seen + 1 <= Len(Winners) /\ Head(todo) = Winners[Seen + 1]
  BY <1>1 DEF IInv, TodoIsRest, Seen
<1>3. Head(todo) \notin ToSet(dropped)
  BY <1>2, WinnersAre DEF IInv, DroppedWereSeen
<1>. QED  BY <1>1, <1>2, <1>3

(* One winner less to do. *)
LEMMA TakenOff ==
  ASSUME IInv, todo # <<>>, todo' = Tail(todo)
  PROVE  /\ todo' \in Seq(Cands) /\ Len(todo') = Len(todo) - 1 /\ Seen' = Seen + 1
         /\ TodoIsRest'
<1>1. /\ todo' \in Seq(Cands) /\ Len(todo) \in Nat \ {0} /\ Len(todo') = Len(todo) - 1
      /\ \A i \in 1..Len(todo') : todo'[i] = todo[i + 1]
  BY HeadTailProperties DEF IInv, TypeOK
<1>2. Seen' = Seen + 1
  BY <1>1, WinnersAre DEF Seen
<1>3. TodoIsRest'
  BY <1>1, <1>2 DEF IInv, TodoIsRest, Seen
<1>. QED  BY <1>1, <1>2, <1>3

(* A merged winner joins the stretch. *)
LEMMA Merged ==
  ASSUME IInv, todo # <<>>, Merge(Head(todo))
  PROVE  /\ todo' \in Seq(Cands) /\ merged' \in Seq(Cands) /\ merged' # <<>>
         /\ Len(todo') + Len(merged') + Len(dropped') = Len(Winners)
         /\ TodoIsRest' /\ DroppedWereSeen'
         /\ Stretch' = Stretch \cup {Head(todo)}
<1>1. /\ merged' \in Seq(Cands) /\ Len(merged') = Len(merged) + 1 /\ merged' # <<>>
  <2>1. merged \in Seq(Cands) /\ Head(todo) \in Cands
    BY DEF IInv, TypeOK
  <2>2. merged' = Append(merged, Head(todo))
    BY DEF Merge
  <2>. QED  BY <2>1, <2>2
<1>2. Len(todo') + Len(merged') + Len(dropped') = Len(Winners)
  BY <1>1 DEF Merge, IInv, TypeOK
<1>3. DroppedWereSeen'
  BY AtHead, TakenOff DEF Merge, IInv, DroppedWereSeen
<1>4. Stretch' = {Winners[i] : i \in {j \in 1..(Seen + 1) :
                    \A k \in j..(Seen + 1) : Winners[k] \notin ToSet(dropped)}}
  BY TakenOff DEF Merge, Stretch
<1>5. {j \in 1..(Seen + 1) : \A k \in j..(Seen + 1) : Winners[k] \notin ToSet(dropped)}
      = {j \in 1..Seen : \A k \in j..Seen : Winners[k] \notin ToSet(dropped)} \cup {Seen + 1}
  BY AtHead
<1>6. Stretch' = Stretch \cup {Winners[Seen + 1]}
  BY <1>4, <1>5 DEF Stretch
<1>. QED  BY <1>1, <1>2, <1>3, <1>6, TakenOff, AtHead DEF Merge

(* A dropped winner ends it: nothing has been merged since. *)
LEMMA Dropped ==
  ASSUME IInv, todo # <<>>, Drop(Head(todo))
  PROVE  /\ todo' \in Seq(Cands) /\ dropped' \in Seq(Cands)
         /\ Len(todo') + Len(merged') + Len(dropped') = Len(Winners)
         /\ TodoIsRest' /\ DroppedWereSeen'
         /\ Stretch' = {}
<1>1. dropped' \in Seq(Cands) /\ Len(dropped') = Len(dropped) + 1
  BY DEF Drop, IInv, TypeOK
<1>2. Len(todo') + Len(merged') + Len(dropped') = Len(Winners)
  BY <1>1 DEF Drop, IInv, TypeOK
<1>3. ToSet(dropped') = ToSet(dropped) \cup {Winners[Seen + 1]}
  BY AtHead, ToSetOfAppend DEF Drop, IInv, TypeOK
<1>4. DroppedWereSeen'
  <2>. Seen' = Seen + 1 /\ Seen \in Nat
    BY AtHead, TakenOff DEF Drop
  <2>. QED  BY <1>3 DEF IInv, DroppedWereSeen
<1>5. Stretch' = {}
  <2>1. Seen' = Seen + 1 /\ Seen \in Nat /\ Winners[Seen + 1] \in ToSet(dropped')
    BY <1>3, AtHead, TakenOff DEF Drop
  <2>2. ASSUME NEW j \in 1..Seen'
        PROVE  \E k \in j..Seen' : Winners[k] \in ToSet(dropped')
    BY <2>1
  <2>. QED  BY <2>2 DEF Stretch
<1>. QED  BY <1>1, <1>2, <1>4, <1>5, TakenOff DEF Drop

-----------------------------------------------------------------------------
(* Every step keeps the invariant.                                          *)

LEMMA IInvInit == Init => IInv
<1> SUFFICES ASSUME Init PROVE IInv
  OBVIOUS
<1>1. TypeOK
  BY WinnersAre DEF Init, TypeOK, Trees, Main
<1>2. TodoIsRest /\ Seen = 0
  BY DEF Init, TodoIsRest, Seen
<1>3. Stretch = {} /\ ToSet(dropped) = {}
  BY <1>2 DEF Init, Stretch, ToSet
<1>4. TreeIsGreen
  BY DEF Init, TreeIsGreen, Passes, Main
<1>. QED  BY <1>1, <1>2, <1>3, <1>4 DEF Init, IInv, DroppedWereSeen, GreenAlone, HandedOver,
             TreeIsStretch, Main, FirstMerges, Returned, Unmade, BranchStands

(* The first winner is always merged: alone on main it applies and passes. *)
LEMMA MainTakesOne ==
  ASSUME IInv, tree = Main, NEW c \in Cands
  PROVE  Fits(c) /\ Passes(With(tree, c))
BY DEF IInv, GreenAlone, Fits, Passes, With, Main

LEMMA MainIsGreen ==
  ASSUME GreenAlone
  PROVE  Passes(Main)
BY DEF GreenAlone, Passes, Main

(* A patch applies and the tests pass. *)
LEMMA IInvApplyGreen ==
  ASSUME IInv, NEW c \in Cands, ApplyGreen(c)
  PROVE  IInv'
<1>1. /\ todo # <<>> /\ c = Head(todo) /\ Merge(Head(todo)) /\ pc = "apply"
      /\ tree' = With(tree, c) /\ Passes(With(tree, c))
  BY DEF ApplyGreen, Applying
<1>2. TypeOK'
  BY <1>1 DEF ApplyGreen, Merge, env, IInv, TypeOK, With, Trees
<1>3. TreeIsStretch'
  BY <1>1, Merged DEF ApplyGreen, IInv, TreeIsStretch, AtHand, With
<1>4. TreeIsGreen'
  BY <1>1 DEF ApplyGreen, TreeIsGreen, Passes, env
<1>. QED  BY <1>1, <1>2, <1>3, <1>4, Merged DEF ApplyGreen, env, IInv, GreenAlone, HandedOver,
             FirstMerges, Returned, Unmade, BranchStands

(* A patch applies and the tests fail: the winner is dropped, the arena reset. *)
LEMMA IInvApplyRed ==
  ASSUME IInv, NEW c \in Cands, ApplyRed(c)
  PROVE  IInv'
<1>1. /\ todo # <<>> /\ c = Head(todo) /\ Drop(Head(todo)) /\ pc = "apply"
      /\ tree' = Main /\ head' = Main
  BY DEF ApplyRed, Applying, ResetArena
<1>2. TypeOK'
  BY <1>1 DEF ApplyRed, Drop, env, IInv, TypeOK, Main, Trees
<1>3. TreeIsStretch'
  BY <1>1, Dropped DEF TreeIsStretch, Main
<1>4. TreeIsGreen'
  BY <1>1, MainIsGreen DEF ApplyRed, IInv, TreeIsGreen, Passes, env
<1>5. merged # <<>>
  BY MainTakesOne DEF ApplyRed, IInv, FirstMerges
<1>. QED  BY <1>1, <1>2, <1>3, <1>4, <1>5, Dropped DEF ApplyRed, Drop, env, IInv, GreenAlone,
             HandedOver, FirstMerges, Returned, Unmade, BranchStands

(* A patch does not apply: the agent gets the winner. *)
LEMMA IInvApplyConflict ==
  ASSUME IInv, NEW c \in Cands, ApplyConflict(c)
  PROVE  IInv'
<1>1. /\ todo # <<>> /\ c = Head(todo) /\ pc = "apply" /\ pc' = "resolve"
      /\ tree'.in = tree.in /\ tree'.marked \subseteq tree.marked \cup {c} /\ tree' \in Trees
  BY DEF ApplyConflict, Applying, IInv, TypeOK, Trees
<1>2. TypeOK'
  BY <1>1 DEF ApplyConflict, env, IInv, TypeOK
<1>3. TreeIsStretch'
  <2>. Stretch' = Stretch
    BY DEF ApplyConflict, Stretch, Seen
  <2>. QED  BY <1>1 DEF ApplyConflict, IInv, TreeIsStretch, AtHand
<1>4. merged # <<>>
  BY MainTakesOne DEF ApplyConflict, IInv, FirstMerges
<1>. QED  BY <1>1, <1>2, <1>3, <1>4 DEF ApplyConflict, env, IInv, GreenAlone, HandedOver, Seen,
             TreeIsGreen, TodoIsRest, DroppedWereSeen, FirstMerges, Returned, Unmade, BranchStands

(* The agent has left a tree that passes the tests. *)
LEMMA IInvResolveGreen ==
  ASSUME IInv, NEW c \in Cands, ResolveGreen(c)
  PROVE  IInv'
<1>1. /\ todo # <<>> /\ c = Head(todo) /\ c \in asked /\ Merge(Head(todo)) /\ pc = "resolve"
  BY DEF ResolveGreen, Resolving, IInv, HandedOver
<1>2. PICK t \in Trees : AgentLeaves(c, t) /\ Passes(t) /\ tree' = t /\ Committed(t)
  BY DEF ResolveGreen
<1>3. t.in \cup t.marked \subseteq tree.in \cup tree.marked \cup {c} /\ tree.in \subseteq t.in
  BY <1>2 DEF AgentLeaves, With, IInv, TypeOK, Trees
<1>4. TypeOK'
  BY <1>1, <1>2 DEF ResolveGreen, Committed, Merge, env, IInv, TypeOK
<1>5. TreeIsStretch'
  BY <1>1, <1>2, <1>3, Merged DEF ResolveGreen, IInv, TreeIsStretch, AtHand
<1>6. TreeIsGreen'
  BY <1>2 DEF ResolveGreen, TreeIsGreen, Passes, env
<1>7. Unmade'
  BY <1>1, <1>2 DEF ResolveGreen, Committed, env, IInv, Unmade
<1>. QED  BY <1>1, <1>4, <1>5, <1>6, <1>7, Merged DEF ResolveGreen, env, IInv, GreenAlone,
             HandedOver, FirstMerges, Returned, BranchStands

(* The agent has failed: the winner is dropped, the arena reset. *)
LEMMA IInvResolveFails ==
  ASSUME IInv, NEW c \in Cands, ResolveFails(c)
  PROVE  IInv'
<1>1. /\ todo # <<>> /\ c = Head(todo) /\ Drop(Head(todo)) /\ pc = "resolve"
      /\ tree' = Main /\ head' = Main
  BY DEF ResolveFails, Resolving, ResetArena, IInv, HandedOver
<1>2. TypeOK'
  BY <1>1 DEF ResolveFails, Drop, env, IInv, TypeOK, Main, Trees
<1>3. TreeIsStretch'
  BY <1>1, Dropped DEF TreeIsStretch, Main
<1>4. TreeIsGreen'
  BY <1>1, MainIsGreen DEF ResolveFails, IInv, TreeIsGreen, Passes, env
<1>. QED  BY <1>1, <1>2, <1>3, <1>4, Dropped DEF ResolveFails, Drop, env, IInv, GreenAlone,
             HandedOver, FirstMerges, Returned, Unmade, BranchStands

(* The merge returns or raises. *)
LEMMA IInvEnds ==
  ASSUME IInv, Finish \/ Raise
  PROVE  IInv'
<1>1. Stretch' = Stretch /\ UNCHANGED <<todo, tree, merged, dropped, asked, env>>
  BY DEF Finish, Raise, Stretch, Seen
<1>2. TypeOK'
  BY <1>1 DEF Finish, Raise, Committed, Finally, IInv, TypeOK, env
<1>3. TreeIsStretch' /\ TreeIsGreen'
  BY <1>1 DEF Finish, Raise, IInv, TreeIsStretch, AtHand, TreeIsGreen, Passes, env
<1>4. FirstMerges'
  BY <1>1, WinnersAre DEF Finish, Raise, IInv, FirstMerges
<1>5. BranchStands'
  <2>1. CASE Finish
    <3>. branch /\ merged # <<>>
      BY <2>1, WinnersAre DEF Finish, IInv, FirstMerges, BranchStands
    <3>. QED  BY <2>1 DEF Finish, Finally, BranchStands
  <2>2. CASE Raise
    BY <2>2 DEF Raise, BranchStands
  <2>. QED  BY <2>1, <2>2
<1>. QED  BY <1>1, <1>2, <1>3, <1>4, <1>5 DEF Finish, Raise, env, IInv, GreenAlone, HandedOver,
             Seen, TodoIsRest, DroppedWereSeen, Committed, Returned, Unmade

LEMMA IInvStep == IInv /\ [Next]_vars => IInv'
<1> SUFFICES ASSUME IInv, [Next]_vars PROVE IInv'
  OBVIOUS
<1>1. CASE UNCHANGED vars
  <2>. Stretch' = Stretch /\ AtHand' = AtHand /\ Seen' = Seen
    BY <1>1 DEF vars, env, Stretch, AtHand, Seen
  <2>. QED  BY <1>1 DEF vars, env, IInv, TypeOK, TodoIsRest, DroppedWereSeen, GreenAlone,
               HandedOver, TreeIsGreen, TreeIsStretch, FirstMerges, Returned, Unmade,
               BranchStands, Passes
<1>. QED  BY <1>1, IInvApplyGreen, IInvApplyRed, IInvApplyConflict, IInvResolveGreen,
             IInvResolveFails, IInvEnds DEF Next

(* The invariant holds over every sequence of conflicts, tests and resolutions. *)
THEOREM Inductive == Spec => []IInv
BY IInvInit, IInvStep, PTL DEF Spec

(* Every variable keeps its type, and every winner is to do, merged or dropped. *)
THEOREM TypeCorrect == Spec => []TypeOK
<1>1. IInv => TypeOK
  BY DEF IInv
<1>. QED  BY <1>1, Inductive, PTL

(* The branch a merge returns passes the tests, for any winners that break each
   other, however the agent leaves the conflicted hunks and whether or not git
   commits, although the last test run decides nothing.                      *)
THEOREM BranchIsGreen == Spec => []ResultIsGreen
<1>1. IInv => ResultIsGreen
  BY MainIsGreen DEF IInv, TreeIsGreen, Returned, Unmade, ResultIsGreen
<1>. QED  BY <1>1, Inductive, PTL

(* It holds the winners merged since the last drop, save what the agent had,
   and nothing of a dropped one.                                             *)
THEOREM BranchIsStretch == Spec => []ResultIsLastStretch
<1>1. ASSUME IInv, pc = "returned" PROVE LastStretch = Stretch
  <2>. Seen = Len(Winners) /\ DOMAIN Winners = 1..Len(Winners)
    BY <1>1 DEF IInv, Returned, Seen
  <2>. QED  BY DEF LastStretch, Stretch
<1>2. IInv => ResultIsLastStretch
  BY <1>1 DEF IInv, TreeIsStretch, AtHand, Returned, Unmade, Main, ResultIsLastStretch
<1>. QED  BY <1>2, Inductive, PTL

(* A merge that returns has merged the first winner, so that its branch is not
   torn down.                                                                *)
THEOREM BranchExists == Spec => []ResultBranchExists
<1>1. IInv => ResultBranchExists
  BY DEF IInv, BranchStands, ResultBranchExists
<1>. QED  BY <1>1, Inductive, PTL
=============================================================================
