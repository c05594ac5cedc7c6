------------------------------ MODULE Sandboxes ------------------------------
(* Sandboxes of the two backends (sandbox/local_worktree.py,
   sandbox/contree_backend.py) as the worker pool and the merger use them.

   The content of a tree is the set of edits made to the seeded repository.
   A local sandbox is a worktree on a branch of its own in one repository; a
   contree sandbox is an image with a repository of its own, of which each
   command makes a new image, so that what handles share never changes.

   A local sandbox whose worktree could not be made is a path without a
   repository of its own.  git resolves it to the repository around the sandbox
   root, if there is one: by default the checkout Swarmforge runs from
   (config.py:10, 49), whose .gitignore names the directory.                 *)
EXTENDS Naturals, FiniteSets

CONSTANTS
  Boxes,   \* sandbox handles
  Edits,   \* changes an agent may make
  Foreign, \* changes made to the repository around the sandbox root, by its user
  None

ASSUME NoneAssumption == None \notin Boxes

VARIABLES
  contree, \* the configured backend: ContreeBackend or LocalWorktreeBackend
  box,     \* what has become of each handle
  work,    \* its working tree
  head,    \* the tree of its last commit
  own,     \* what it was forked with, and the edits its agent made since
  around,  \* the repository around the sandbox root: none, ignoring it or not
  outer,   \* what is committed in that repository since its main
  diff,    \* the diff last stored for it as a candidate, or None
  result   \* the sandbox whose branch the mission reports, or None

trees   == <<work, head, own>>
outside == <<around, outer>>
vars    == <<contree, box, trees, outside, diff, result>>

(* What a commit in the repository around the sandboxes may contain. *)
Outside == Foreign \cup (Boxes \X Edits)

Live == {s \in Boxes : box[s] = "open"}

TypeOK ==
  /\ contree \in BOOLEAN
  /\ box \in [Boxes -> {"none",    \* not made yet
                        "open",
                        "broken",  \* git worktree add failed, the handle was returned
                        "left",    \* broken, and not removed by its teardown
                        "gone",    \* torn down
                        "swept"}]  \* directory removed at shutdown
  /\ work \in [Boxes -> SUBSET Edits] /\ head \in [Boxes -> SUBSET Edits]
  /\ own \in [Boxes -> SUBSET Edits]
  /\ around \in {"none", "ignoring", "tracking"} /\ outer \in SUBSET Outside
  /\ diff \in [Boxes -> (SUBSET (Edits \cup Outside)) \cup {None}]
  /\ result \in Boxes \cup {None}
  /\ \A s \in Boxes : /\ box[s] \in {"none", "gone"} => work[s] = {} /\ head[s] = {}
                      /\ box[s] \in {"broken", "left"} => head[s] = {}

Nothing == [s \in Boxes |-> {}]

Init ==
  /\ contree \in BOOLEAN
  /\ box = [s \in Boxes |-> "none"]
  /\ work = Nothing /\ head = Nothing /\ own = Nothing
  /\ around \in IF contree THEN {"none"} ELSE {"none", "ignoring", "tracking"}
  /\ outer \in IF around = "none" THEN {{}} ELSE SUBSET Foreign
  /\ diff = [s \in Boxes |-> None]
  /\ result = None

-----------------------------------------------------------------------------

(* base_ref "main", which no sandbox of the local backend ever moves. *)
Seed == {}

Create(s) ==
  /\ box[s] = "none"
  /\ box' = [box EXCEPT ![s] = "open"]
  /\ head' = [head EXCEPT ![s] = Seed] /\ work' = [work EXCEPT ![s] = Seed]
  /\ UNCHANGED <<own, outside, diff, result>>

(* git refuses the branch name, which holds a task id or, in a fork, a label of
   the language model's choice, or the branch to fork, that of a broken parent;
   the exit code of "git worktree add" is not looked at.                     *)
CreateBroken(s) ==
  /\ ~contree
  /\ box[s] = "none"
  /\ box' = [box EXCEPT ![s] = "broken"]
  /\ UNCHANGED <<trees, outside, diff, result>>

(* The files a fork starts with: the parent's branch, or the parent's image. *)
Forked(p) == IF contree THEN work[p] ELSE head[p]

Fork(p, s) ==
  /\ box[p] = "open" /\ box[s] = "none"
  /\ box' = [box EXCEPT ![s] = "open"]
  /\ head' = [head EXCEPT ![s] = head[p]]
  /\ work' = [work EXCEPT ![s] = Forked(p)]
  /\ own'  = [own EXCEPT ![s] = Forked(p)]
  /\ UNCHANGED <<outside, diff, result>>

(* write_file, or a command the agent runs.  write_file also makes the directory
   of a broken sandbox.                                                      *)
Edit(s, e) ==
  /\ box[s] \in {"open", "broken"} /\ e \notin work[s]
  /\ work' = [work EXCEPT ![s] = @ \cup {e}]
  /\ own' = [own EXCEPT ![s] = @ \cup {e}]
  /\ UNCHANGED <<box, head, outside, diff, result>>

(* git add -A, git commit.  The exit code of the commit is not looked at: it is
   not made if the message is empty or, locally, git knows no user.          *)
CommittedIn(s, tree) == head' = [head EXCEPT ![s] = tree]
Committed(s) == CommittedIn(s, work[s]) \/ CommittedIn(s, head[s])

(* What "git add -A" stages in the repository around the sandboxes: all of it,
   whichever directory git was called in.                                    *)
Swallowed ==
  Foreign \cup (IF around = "tracking"
               THEN {c \in Boxes \X Edits : /\ box[c[1]] \in {"broken", "left"}
                                            /\ c[2] \in work[c[1]]}
               ELSE {})

(* A commit in a broken sandbox: without a directory git -C fails, with one it
   finds the repository around it.                                           *)
CommittedAround(s) ==
  outer' \in IF work[s] = {} \/ around = "none" THEN {outer}
            ELSE {outer, outer \cup Swallowed}

(* commit, called by the agent's git_commit, and by the merger. *)
Commit(s) ==
  /\ \/ box[s] = "open" /\ Committed(s) /\ UNCHANGED outer
     \/ box[s] = "broken" /\ CommittedAround(s) /\ UNCHANGED head
  /\ UNCHANGED <<box, work, own, around, diff, result>>

(* A mutation (see PROJECT.json), which nothing uses. *)
ExportedLast(s, tree) == IF contree THEN {} ELSE tree \ head[s]
(* git diff main...HEAD: from where the branch left main to its tip.  In a
   contree sandbox the checked-out branch is main itself.                    *)
Exported(s, tree) == IF contree THEN {} ELSE tree \ Seed

(* on_submit: commit, export_patch, create_candidate.  The agent that owns the
   sandbox is waiting for it.                                                *)
Submit(s) ==
  /\ box[s] = "open"
  /\ Committed(s)
  /\ diff' = [diff EXCEPT ![s] = Exported(s, head'[s])]
  /\ UNCHANGED <<box, work, own, outside, result>>

(* In a broken sandbox the diff is that of the repository around it, empty if
   that is on its main branch or there is none.                              *)
SubmitBroken(s) ==
  /\ box[s] = "broken"
  /\ CommittedAround(s)
  /\ \E d \in IF work[s] = {} \/ around = "none" THEN {{}} ELSE {{}, outer'} :
       diff' = [diff EXCEPT ![s] = d]
  /\ UNCHANGED <<box, trees, around, result>>

(* The merger commits its arena and reports the branch. *)
Report(s) ==
  /\ box[s] = "open" /\ result = None
  /\ Committed(s)
  /\ result' = s
  /\ UNCHANGED <<box, work, own, outside, diff>>

(* git worktree remove --force, git branch -D; no-op for contree. *)
Removed(s) == work' = [work EXCEPT ![s] = {}] /\ head' = [head EXCEPT ![s] = {}]

(* Nobody tears down a fork, nor the arena whose branch is the result.  git
   does not remove what it does not know as a worktree.                      *)
Teardown(s) ==
  /\ box[s] \in {"open", "broken"} /\ s # result
  /\ CASE contree -> UNCHANGED <<box, work, head>>
       [] ~contree /\ box[s] = "open" ->
            box' = [box EXCEPT ![s] = "gone"] /\ Removed(s)
       [] ~contree /\ box[s] = "broken" ->
            box' = [box EXCEPT ![s] = "left"] /\ UNCHANGED <<work, head>>
  /\ UNCHANGED <<own, outside, diff, result>>

(* A mutation. *)
BranchesToo(T) == head' = [s \in Boxes |-> IF s \in T THEN {} ELSE head[s]]
(* cleanup_all prunes, then removes the directory they are all in; branches stay. *)
Branches(T) == UNCHANGED head

Shutdown ==
  /\ ~contree
  /\ Live # {}
  /\ box' = [s \in Boxes |-> CASE s \in Live -> "swept"
                               [] box[s] \in {"broken", "left"} -> "gone"
                               [] OTHER -> box[s]]
  /\ work' = Nothing
  /\ Branches(Live)
  /\ UNCHANGED <<own, outside, diff, result>>

Step(s) ==
  \/ Create(s) \/ CreateBroken(s) \/ Commit(s) \/ Submit(s) \/ SubmitBroken(s)
  \/ Report(s) \/ Teardown(s)
  \/ \E p \in Boxes : Fork(p, s)
  \/ \E e \in Edits : Edit(s, e)

Next == (Shutdown \/ \E s \in Boxes : Step(s)) /\ UNCHANGED contree

Spec == Init /\ [][Next]_vars

-----------------------------------------------------------------------------
(* Properties.                                                              *)

(* The branch a mission reports outlives teardowns and the sweep at shutdown,
   with everything the arena had committed.                                  *)
ResultSurvives ==
  [][result # None => head[result] \subseteq head'[result]]_vars

Handed(s) == diff'[s] # diff[s] /\ box[s] = "open"

(* The candidate of a local sandbox never lacks what the sandbox had committed
   before, whether or not the commit of the submission is made, and never has
   anything that was not its own agent's or its parent's; and if nothing is left
   uncommitted it is all of that, in however many commits and forks it came
   about.  (When that commit is not made the rest of the work is missing; and the
   candidate of a contree sandbox is always empty: README, divergences.)     *)
LocalCandidateIsWhole ==
  [][\A s \in Boxes : Handed(s) /\ ~contree =>
       /\ head[s] \subseteq diff'[s] /\ diff'[s] \subseteq own[s]
       /\ work[s] = head'[s] => diff'[s] = own[s]]_vars

=============================================================================
