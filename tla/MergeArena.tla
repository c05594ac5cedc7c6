------------------------------ MODULE MergeArena ------------------------------
(* Merging the winning candidates (orchestrator/merger.py) in a sandbox of
   the local worktree backend.  Nobody else touches the arena, so one action
   goes from one call of the language model or one candidate to the next.

   A file tree is abstracted to the candidates whose change it holds: "in"
   those applied or resolved, "marked" those whose hunks are left with
   conflict markers.                                                        *)
EXTENDS Naturals, Sequences, SequencesExt

CONSTANT Winners  \* the winning candidates, sorted by task id

ASSUME WinnersAssumption ==
  Winners \in Seq(ToSet(Winners)) /\ IsInjective(Winners) /\ Winners # <<>>

VARIABLES
  clash,    \* pairs of candidates whose patches conflict
  green,    \* sets of candidates the test suite passes with
  covered,  \* candidates whose conflicted files the test suite imports
  author,   \* git knows a user to commit for
  todo,     \* candidates not yet looked at
  tree,     \* the arena's working tree
  head,     \* the tree of the arena branch's last commit
  branch,   \* FALSE once teardown has removed worktree and branch
  merged,   \* ids reported as merged, in order
  dropped,  \* ids reported as dropped, in order
  asked,    \* candidates handed to the merger agent
  pc        \* "apply", "resolve", "returned" or "raised"

env  == <<clash, green, covered, author>>
vars == <<env, todo, tree, head, branch, merged, dropped, asked, pc>>

Cands == ToSet(Winners)
Trees == [in : SUBSET Cands, marked : SUBSET Cands]
Main  == [in |-> {}, marked |-> {}]

Clashes == {r \in SUBSET (Cands \X Cands) : \A p \in r : p[1] # p[2] /\ <<p[2], p[1]>> \in r}

TypeOK ==
  /\ clash \in Clashes /\ green \subseteq SUBSET Cands /\ covered \subseteq Cands
  /\ author \in BOOLEAN
  /\ todo \in Seq(Cands) /\ merged \in Seq(Cands) /\ dropped \in Seq(Cands)
  /\ tree \in Trees /\ head \in Trees
  /\ branch \in BOOLEAN
  /\ asked \subseteq Cands
  /\ pc \in {"apply", "resolve", "returned", "raised"}
  /\ Len(todo) + Len(merged) + Len(dropped) = Len(Winners)

(* The suite passes on main, and with each winner alone: the verifier has
   run it so.  Nothing is known of combinations.                            *)
Init ==
  /\ clash \in Clashes
  /\ green \in {G \in SUBSET SUBSET Cands : {} \in G /\ \A c \in Cands : {c} \in G}
  /\ covered \in SUBSET Cands
  /\ author \in BOOLEAN
  /\ todo = Winners
  /\ tree = Main /\ head = Main /\ branch = TRUE
  /\ merged = <<>> /\ dropped = <<>> /\ asked = {}
  /\ pc = "apply"

-----------------------------------------------------------------------------

(* pytest tests/ -q *)
Passes(t) == t.in \in green /\ t.marked \cap covered = {}

(* git apply --3way succeeds. *)
Fits(c) == \A d \in tree.in \cup tree.marked : <<c, d>> \notin clash

With(t, c) == [in |-> t.in \cup {c}, marked |-> t.marked \ {c}]

(* git commit, whose exit code nobody looks at. *)
Committed(t) == head' = IF author THEN t ELSE head

(* Mutations (see PROJECT.json) precede the definition they would replace. *)
NoReset(dirty) == tree' = dirty /\ UNCHANGED head

(* _reset_arena on a dirty tree: git reset --hard main, git clean -fd.  The
   reset moves the arena branch back to main as well.                       *)
ResetArena(dirty) == tree' = Main /\ head' = Main

FinallyAlways(done) == branch' = FALSE

(* The finally clause of merge: teardown if nothing was merged. *)
Finally(done) == branch' = (branch /\ done # <<>>)

Merge(c) == merged' = Append(merged, c) /\ todo' = Tail(todo) /\ UNCHANGED dropped
Drop(c)  == dropped' = Append(dropped, c) /\ todo' = Tail(todo) /\ UNCHANGED merged

Applying(c) == pc = "apply" /\ todo # <<>> /\ c = Head(todo)

(* Applied cleanly and the tests pass: kept in the working tree, not yet
   committed.                                                               *)
ApplyGreen(c) ==
  /\ Applying(c) /\ Fits(c) /\ Passes(With(tree, c))
  /\ tree' = With(tree, c)
  /\ Merge(c)
  /\ UNCHANGED <<env, head, branch, asked, pc>>

(* Applied cleanly, tests red: rolled back and dropped. *)
ApplyRed(c) ==
  /\ Applying(c) /\ Fits(c) /\ ~Passes(With(tree, c))
  /\ ResetArena(With(tree, c))
  /\ Drop(c)
  /\ UNCHANGED <<env, branch, asked, pc>>

(* git apply fails: with conflict markers in the tree, or, where the patch
   has no common base, without touching it.                                 *)
ApplyConflict(c) ==
  /\ Applying(c) /\ ~Fits(c)
  /\ tree' \in {tree, [tree EXCEPT !.marked = @ \cup {c}]}
  /\ asked' = asked \cup {c}
  /\ pc' = "resolve"
  /\ UNCHANGED <<env, todo, head, branch, merged, dropped>>

Resolving(c) == pc = "resolve" /\ c = Head(todo)

(* What the merger agent may leave behind: the candidate worked in, its
   hunks taken out, or nothing changed; with git_commit it may also have
   committed that.                                                          *)
AgentLeaves(c, t) ==
  t \in {With(tree, c), tree, [tree EXCEPT !.marked = @ \ {c}]}

(* agent.run ended with an answer and the tests pass: committed and counted
   as merged, whichever of these trees the agent left.                      *)
ResolveGreen(c) ==
  /\ Resolving(c)
  /\ \E t \in Trees : AgentLeaves(c, t) /\ Passes(t) /\ tree' = t /\ Committed(t)
  /\ Merge(c)
  /\ pc' = "apply"
  /\ UNCHANGED <<env, branch, asked>>

(* The agent ran out of steps, or its tree fails the tests. *)
ResolveFails(c) ==
  /\ Resolving(c)
  /\ \E t \in Trees : AgentLeaves(c, t) /\ ResetArena(t)
  /\ Drop(c)
  /\ pc' = "apply"
  /\ UNCHANGED <<env, branch, asked>>

(* Final tests, which decide nothing, the commit, MERGE_DONE. *)
Finish ==
  /\ pc = "apply" /\ todo = <<>>
  /\ Committed(tree)
  /\ Finally(merged)
  /\ pc' = "returned"
  /\ UNCHANGED <<env, todo, tree, merged, dropped, asked>>

(* A command or the language model raises; only finally runs. *)
Raise ==
  /\ pc \in {"apply", "resolve"}
  /\ Finally(merged)
  /\ pc' = "raised"
  /\ UNCHANGED <<env, todo, tree, head, merged, dropped, asked>>

Next ==
  \/ \E c \in Cands : \/ ApplyGreen(c) \/ ApplyRed(c) \/ ApplyConflict(c)
                      \/ ResolveGreen(c) \/ ResolveFails(c)
  \/ Finish \/ Raise

Spec == Init /\ [][Next]_vars

-----------------------------------------------------------------------------
(* Properties.                                                              *)

(* The branch a mission reports passes the tests, whatever combinations of
   winners break each other, however the agent leaves the conflicted hunks, and
   whether or not git commits, although the final test run decides nothing. *)
ResultIsGreen == pc = "returned" => Passes(head)

(* The winners counted as merged since the last one that was dropped. *)
LastStretch ==
  {Winners[i] : i \in {j \in DOMAIN Winners : \A k \in j..Len(Winners) :
                        Winners[k] \notin ToSet(dropped)}}

(* The branch holds exactly the winners merged since the last drop: nothing of
   a dropped candidate is left in it, not even markers, and nothing merged is
   lost without a drop, save what the agent has had.  (Where git knows no user
   nothing is committed, and the branch is main: README, divergences.)      *)
ResultIsLastStretch ==
  pc = "returned" => /\ head.in \cup head.marked \subseteq LastStretch
                     /\ author => LastStretch \ asked \subseteq head.in

(* docs/ARCHITECTURE.md:102, "Result: branch swarm/arena-...": the arena of a
   merge that returns is not torn down.  The first winner always applies and
   passes, being alone on main as in the verifier's sandbox.                *)
ResultBranchExists == pc = "returned" => branch

=============================================================================
