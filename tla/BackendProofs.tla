---------------------------- MODULE BackendProofs ----------------------------
(* Proofs about the two halves of a sandbox backend: Sandboxes, for any number
   of handles and edits, and Commands, for any finite set of calls and any number
   of threads; of either backend.  The halves share no state: what they say of
   the configured backend is contree in one and remote in the other.         *)
EXTENDS Sandboxes, Commands, FiniteSetTheorems, TLAPS

-----------------------------------------------------------------------------
(* Sandboxes.                                                               *)

(* A working tree is what its agent did on top of what it was forked with; the
   last commit is a part of it.                                              *)
OpenHoldsOwn == \A s \in Boxes : box[s] = "open" => work[s] = own[s] /\ head[s] \subseteq work[s]

UnmadeIsEmpty == \A s \in Boxes : box[s] = "none" => own[s] = {}

ResultStands == result # None => box[result] \in {"open", "swept"}

IInv == TypeOK /\ OpenHoldsOwn /\ UnmadeIsEmpty /\ ResultStands

-----------------------------------------------------------------------------

LEMMA IInvInit == Init => IInv
<1> SUFFICES ASSUME Init PROVE IInv
  OBVIOUS
<1>1. around \in {"none", "ignoring", "tracking"} /\ outer \in SUBSET Outside
  BY DEF Init, Outside
<1>. QED  BY <1>1 DEF Init, Nothing, IInv, TypeOK, OpenHoldsOwn, UnmadeIsEmpty, ResultStands

(* A handle is made, new or out of another's files. *)
LEMMA IInvMade ==
  ASSUME IInv, NEW s \in Boxes, UNCHANGED contree,
         \/ Create(s) \/ CreateBroken(s) \/ \E p \in Boxes : Fork(p, s)
  PROVE  IInv'
<1>1. CASE Create(s)
  <2>1. TypeOK'
    BY <1>1 DEF Create, Seed, outside, IInv, TypeOK
  <2>2. OpenHoldsOwn' /\ UnmadeIsEmpty'
    BY <1>1 DEF Create, Seed, IInv, TypeOK, OpenHoldsOwn, UnmadeIsEmpty
  <2>3. ResultStands'
    BY <1>1 DEF Create, IInv, TypeOK, ResultStands
  <2>. QED  BY <2>1, <2>2, <2>3 DEF IInv
<1>2. CASE CreateBroken(s)
  <2>1. TypeOK'
    BY <1>2 DEF CreateBroken, trees, outside, IInv, TypeOK
  <2>2. OpenHoldsOwn' /\ UnmadeIsEmpty'
    BY <1>2 DEF CreateBroken, trees, IInv, TypeOK, OpenHoldsOwn, UnmadeIsEmpty
  <2>3. ResultStands'
    BY <1>2 DEF CreateBroken, IInv, TypeOK, ResultStands
  <2>. QED  BY <2>1, <2>2, <2>3 DEF IInv
<1>3. ASSUME NEW p \in Boxes, Fork(p, s) PROVE IInv'
  <2>0. Forked(p) \in SUBSET Edits /\ head[p] \subseteq Forked(p) /\ head[p] \in SUBSET Edits
    BY <1>3 DEF Fork, Forked, IInv, TypeOK, OpenHoldsOwn
  <2>1. TypeOK'
    BY <1>3, <2>0 DEF Fork, outside, IInv, TypeOK
  <2>2. OpenHoldsOwn' /\ UnmadeIsEmpty'
    BY <1>3, <2>0 DEF Fork, IInv, TypeOK, OpenHoldsOwn, UnmadeIsEmpty
  <2>3. ResultStands'
    BY <1>3 DEF Fork, IInv, TypeOK, ResultStands
  <2>. QED  BY <2>1, <2>2, <2>3 DEF IInv
<1>. QED  BY <1>1, <1>2, <1>3

(* What a submission stores is a set of edits, whichever repository it is of. *)
LEMMA AroundIsOutside ==
  ASSUME TypeOK, NEW s \in Boxes, CommittedAround(s)
  PROVE  outer' \in SUBSET Outside
<1>1. outer \in SUBSET Outside /\ Swallowed \in SUBSET Outside
  BY DEF TypeOK, Swallowed, Outside
<1>. QED  BY <1>1 DEF CommittedAround

(* A commit that is made, or is not, leaves a part of the working tree. *)
LEMMA CommittedPart ==
  ASSUME IInv, NEW s \in Boxes, box[s] = "open", Committed(s)
  PROVE  /\ head' \in [Boxes -> SUBSET Edits]
         /\ head'[s] \in {work[s], head[s]}
         /\ \A q \in Boxes \ {s} : head'[q] = head[q]
BY DEF Committed, CommittedIn, IInv, TypeOK

(* Its agent, or the merger, commits in it. *)
LEMMA IInvCommits ==
  ASSUME IInv, NEW s \in Boxes, UNCHANGED contree,
         Commit(s) \/ Submit(s) \/ SubmitBroken(s) \/ Report(s)
  PROVE  IInv'
<1>0. TypeOK
  BY DEF IInv
<1>1. CASE box[s] = "open" /\ Committed(s) /\ UNCHANGED <<box, work, own, around, outer>>
  <2>1. /\ head' \in [Boxes -> SUBSET Edits]
        /\ head'[s] \in {work[s], head[s]}
        /\ \A q \in Boxes \ {s} : head'[q] = head[q]
    BY <1>1, CommittedPart
  <2>2. OpenHoldsOwn' /\ UnmadeIsEmpty'
    BY <1>1, <2>1 DEF IInv, TypeOK, OpenHoldsOwn, UnmadeIsEmpty
  <2>3. diff' \in [Boxes -> (SUBSET (Edits \cup Outside)) \cup {None}]
    <3>1. Exported(s, head'[s]) \in SUBSET (Edits \cup Outside)
      BY <2>1 DEF Exported
    <3>2. CASE Submit(s)
      BY <3>1, <3>2, <1>0 DEF Submit, TypeOK
    <3>3. CASE ~Submit(s)
      BY <3>3, <1>0, <1>1 DEF Commit, SubmitBroken, Report, TypeOK
    <3>. QED  BY <3>2, <3>3
  <2>4. result' \in Boxes \cup {None} /\ ResultStands'
    BY <1>1 DEF Commit, Submit, SubmitBroken, Report, IInv, TypeOK, ResultStands
  <2>5. TypeOK'
    BY <1>0, <1>1, <2>1, <2>3, <2>4 DEF TypeOK
  <2>. QED  BY <2>2, <2>4, <2>5 DEF IInv
<1>2. CASE /\ box[s] = "broken" /\ CommittedAround(s)
           /\ UNCHANGED <<box, work, head, own, around, result>>
  <2>1. outer' \in SUBSET Outside
    BY <1>0, <1>2, AroundIsOutside
  <2>2. diff' \in [Boxes -> (SUBSET (Edits \cup Outside)) \cup {None}]
    <3>1. CASE SubmitBroken(s)
      <4>1. PICK d \in {{}, outer'} : diff' = [diff EXCEPT ![s] = d]
        BY <3>1 DEF SubmitBroken
      <4>. QED  BY <4>1, <2>1, <1>0 DEF TypeOK
    <3>2. CASE ~SubmitBroken(s)
      BY <3>2, <1>0, <1>2 DEF Commit, Submit, Report, TypeOK
    <3>. QED  BY <3>1, <3>2
  <2>3. TypeOK'
    BY <1>0, <1>2, <2>1, <2>2 DEF TypeOK
  <2>. QED  BY <1>2, <2>3 DEF IInv, OpenHoldsOwn, UnmadeIsEmpty, ResultStands
<1>. QED  BY <1>1, <1>2 DEF Commit, Submit, SubmitBroken, Report, outside, trees

LEMMA IInvEdited ==
  ASSUME IInv, NEW s \in Boxes, NEW e \in Edits, UNCHANGED contree, Edit(s, e)
  PROVE  IInv'
<1>1. TypeOK'
  BY DEF Edit, outside, IInv, TypeOK
<1>2. OpenHoldsOwn' /\ UnmadeIsEmpty'
  BY DEF Edit, IInv, TypeOK, OpenHoldsOwn, UnmadeIsEmpty
<1>3. ResultStands'
  BY DEF Edit, IInv, ResultStands
<1>. QED  BY <1>1, <1>2, <1>3 DEF IInv

LEMMA IInvEnds ==
  ASSUME IInv, UNCHANGED contree, Shutdown \/ \E s \in Boxes : Teardown(s)
  PROVE  IInv'
<1>1. CASE Shutdown
  <2>1. TypeOK'
    BY <1>1 DEF Shutdown, Branches, Nothing, outside, IInv, TypeOK
  <2>2. OpenHoldsOwn' /\ UnmadeIsEmpty'
    BY <1>1 DEF Shutdown, Branches, Nothing, Live, IInv, TypeOK, OpenHoldsOwn, UnmadeIsEmpty
  <2>3. ResultStands'
    BY <1>1 DEF Shutdown, Live, IInv, TypeOK, ResultStands
  <2>. QED  BY <2>1, <2>2, <2>3 DEF IInv
<1>2. ASSUME NEW s \in Boxes, Teardown(s) PROVE IInv'
  <2>1. \/ UNCHANGED <<box, work, head>>
        \/ box[s] = "open" /\ box' = [box EXCEPT ![s] = "gone"] /\ Removed(s)
        \/ box[s] = "broken" /\ box' = [box EXCEPT ![s] = "left"] /\ UNCHANGED <<work, head>>
    BY <1>2 DEF Teardown
  <2>2. TypeOK'
    BY <1>2, <2>1 DEF Teardown, Removed, outside, IInv, TypeOK
  <2>3. OpenHoldsOwn' /\ UnmadeIsEmpty'
    BY <1>2, <2>1 DEF Teardown, Removed, IInv, TypeOK, OpenHoldsOwn, UnmadeIsEmpty
  <2>4. ResultStands'
    BY <1>2, <2>1 DEF Teardown, IInv, TypeOK, ResultStands
  <2>. QED  BY <2>2, <2>3, <2>4 DEF IInv
<1>. QED  BY <1>1, <1>2

LEMMA IInvStep == IInv /\ [Next]_vars => IInv'
<1> SUFFICES ASSUME IInv, [Next]_vars PROVE IInv'
  OBVIOUS
<1>1. CASE UNCHANGED vars
  BY <1>1 DEF vars, trees, outside, IInv, TypeOK, OpenHoldsOwn, UnmadeIsEmpty, ResultStands
<1>. QED  BY <1>1, IInvMade, IInvCommits, IInvEdited, IInvEnds DEF Next, Step

(* The invariant holds over every order of calls by any clients. *)
THEOREM Inductive == Spec => []IInv
BY IInvInit, IInvStep, PTL DEF Spec

(* Every variable keeps its type, and a tree that is not there is empty. *)
THEOREM TypeCorrect == Spec => []TypeOK
<1>1. IInv => TypeOK
  BY DEF IInv
<1>. QED  BY <1>1, Inductive, PTL

(* Nothing takes a commit away from the branch that is the mission's result. *)
LEMMA ResultStep ==
  ASSUME IInv, [Next]_vars, result # None
  PROVE  head[result] \subseteq head'[result]
<1>1. result \in Boxes /\ box[result] \in {"open", "swept"}
  BY DEF IInv, TypeOK, ResultStands
<1>2. CASE Shutdown \/ UNCHANGED vars
  BY <1>2 DEF Shutdown, Branches, vars, trees
<1>3. ASSUME NEW s \in Boxes, Step(s) PROVE head[result] \subseteq head'[result]
  <2>1. CASE Committed(s) /\ box[s] = "open"
    BY <2>1, <1>1, CommittedPart DEF IInv, OpenHoldsOwn, TypeOK
  <2>2. CASE UNCHANGED head
    BY <2>2
  <2>3. CASE Create(s) \/ \E p \in Boxes : Fork(p, s)
    BY <2>3, <1>1 DEF Create, Fork, IInv, TypeOK
  <2>4. CASE Teardown(s)
    BY <2>4, <1>1 DEF Teardown, Removed, IInv, TypeOK
  <2>. QED  BY <1>3, <2>1, <2>2, <2>3, <2>4
       DEF Step, CreateBroken, Commit, Submit, SubmitBroken, Report, Edit, trees
<1>. QED  BY <1>2, <1>3 DEF Next

(* The branch a mission ends with keeps its commits through teardown and the
   cleanup of branches.                                                      *)
THEOREM ResultStays == Spec => ResultSurvives
<1>1. IInv /\ [Next]_vars => [result # None => head[result] \subseteq head'[result]]_vars
  BY ResultStep
<1>. QED  BY <1>1, Inductive, PTL DEF Spec, ResultSurvives

(* A candidate is the tree of the sandbox's last commit: what was committed
   before, or all that its agent did.                                        *)
LEMMA HandedStep ==
  ASSUME IInv, [Next]_vars, NEW s \in Boxes, Handed(s), ~contree
  PROVE  /\ head[s] \subseteq diff'[s] /\ diff'[s] \subseteq own[s]
         /\ work[s] = head'[s] => diff'[s] = own[s]
<1>1. Submit(s)
  BY DEF Handed, Next, vars, Step, IInv, TypeOK, Shutdown, Create, CreateBroken, Commit, Submit,
     SubmitBroken, Report, Teardown, Fork, Edit
<1>2. head'[s] \in {work[s], head[s]}
  BY <1>1, CommittedPart DEF Submit
<1>3. diff'[s] = head'[s]
  BY <1>1 DEF Submit, Exported, Seed, IInv, TypeOK
<1>4. work[s] = own[s] /\ head[s] \subseteq work[s]
  BY <1>1 DEF Submit, IInv, OpenHoldsOwn
<1>. QED  BY <1>2, <1>3, <1>4

(* LocalCandidateIsWhole: whether or not git makes the commit of a submission,
   the diff stored has all that was committed before and nothing that is not the
   agent's or its parent's; if nothing is left uncommitted it is all of that. *)
THEOREM CandidateIsWhole == Spec => LocalCandidateIsWhole
<1>1. IInv /\ [Next]_vars =>
        [\A s \in Boxes : Handed(s) /\ ~contree =>
           /\ head[s] \subseteq diff'[s] /\ diff'[s] \subseteq own[s]
           /\ work[s] = head'[s] => diff'[s] = own[s]]_vars
  BY HandedStep
<1>. QED  BY <1>1, Inductive, PTL DEF Spec, LocalCandidateIsWhole

-----------------------------------------------------------------------------
(* Commands.                                                                *)

CallsTypes ==
  /\ remote \in BOOLEAN
  /\ pc \in [Calls -> {"idle", "queued", "running", "draining", "over"}]
  /\ answer \in [Calls -> Answers \cup {"none", "raised", "cancelled"}]
  /\ command \in [Calls -> Exits \cup {"none", "alive", "killed", "lost"}]
  /\ orphan \in [Calls -> {"none", "attached", "detached"}]
  /\ tree \subseteq Calls

(* A call that has not begun has no processes. *)
NotBegun == \A c \in Calls :
  pc[c] \in {"idle", "queued"} => command[c] = "none" /\ orphan[c] = "none"

(* A command that runs is not told dead: only the timeout kills one locally. *)
Running == \A c \in Calls :
  pc[c] = "running" =>
    command[c] \in {"alive"} \cup Exits \cup IF remote THEN {"killed", "lost"} ELSE {}

(* Until its call is over a caller hears nothing, unless it was cancelled;
   with contree a cancelled call is over.                                    *)
Unanswered == \A c \in Calls :
  pc[c] # "over" => answer[c] = "none" \/ (~remote /\ answer[c] = "cancelled")

(* A local call ends only when its command has, and its pipes are closed. *)
Closed == \A c \in Calls :
  ~remote /\ pc[c] = "over" => command[c] # "alive" /\ orphan[c] # "attached"

CallsIInv == CallsTypes /\ NotBegun /\ Running /\ Unanswered /\ Closed /\ ZeroIsTrue

DoesOne(c) ==
  \/ Progress(c)
  \/ (Call(c) \/ Fault(c) \/ World(c)) /\ UNCHANGED remote

LEMMA CallsIInvInit == CallsInit => CallsIInv
BY DEF CallsInit, CallsIInv, CallsTypes, NotBegun, Running, Unanswered, Closed, ZeroIsTrue

(* The processes of a command end, spawn and write; the call is not told. *)
LEMMA IInvWorld ==
  ASSUME NEW c \in Calls, CallsIInv, World(c), UNCHANGED remote
  PROVE  CallsIInv'
<1>1. CASE Spawn(c)
  BY <1>1 DEF Spawn, CallsIInv, CallsTypes, NotBegun, Running, Unanswered, Closed, ZeroIsTrue
<1>2. CASE LetGo(c)
  BY <1>2 DEF LetGo, CallsIInv, CallsTypes, NotBegun, Running, Unanswered, Closed, ZeroIsTrue
<1>3. CASE Exit(c)
  BY <1>3 DEF Exit, CallsIInv, CallsTypes, NotBegun, Running, Unanswered, Closed, ZeroIsTrue
<1>4. CASE Touch(c)
  BY <1>4 DEF Touch, CallsIInv, CallsTypes, NotBegun, Running, Unanswered, Closed, ZeroIsTrue
<1>. QED  BY <1>1, <1>2, <1>3, <1>4 DEF World

(* A call is made, cancelled, or fails. *)
LEMMA IInvFault ==
  ASSUME NEW c \in Calls, CallsIInv, Call(c) \/ Fault(c), UNCHANGED remote
  PROVE  CallsIInv'
<1>1. CASE Call(c)
  BY <1>1 DEF Call, Enter, CallsIInv, CallsTypes, NotBegun, Running, Unanswered, Closed,
     ZeroIsTrue
<1>2. CASE NotFound(c)
  BY <1>2 DEF NotFound, Over, Enter, CallsIInv, CallsTypes, NotBegun, Running, Unanswered, Closed,
     ZeroIsTrue, Answers
<1>3. CASE StartRaises(c)
  BY <1>3 DEF StartRaises, Over, Enter, CallsIInv, CallsTypes, NotBegun, Running, Unanswered,
     Closed, ZeroIsTrue
<1>4. CASE PollRaises(c)
  BY <1>4 DEF PollRaises, Over, Enter, CallsIInv, CallsTypes, NotBegun, Running, Unanswered,
     Closed, ZeroIsTrue
<1>5. CASE Cancel(c)
  BY <1>5 DEF Cancel, Enter, CallsIInv, CallsTypes, NotBegun, Running, Unanswered, Closed,
     ZeroIsTrue
<1>. QED  BY <1>1, <1>2, <1>3, <1>4, <1>5 DEF Fault

(* A call goes on: it starts, polls, times out, drains or returns. *)
LEMMA IInvProgress ==
  ASSUME NEW c \in Calls, CallsIInv, Progress(c)
  PROVE  CallsIInv'
<1>1. CASE Start(c)
  BY <1>1 DEF Progress, Start, Enter, CallsIInv, CallsTypes, NotBegun, Running, Unanswered,
     Closed, ZeroIsTrue
<1>2. CASE Returns(c)
  BY <1>2 DEF Progress, Returns, PipesClosed, Over, Enter, CallsIInv, CallsTypes, NotBegun,
     Running, Unanswered, Closed, ZeroIsTrue, Answers
<1>3. CASE TimesOut(c)
  BY <1>3 DEF Progress, TimesOut, Killed, Enter, CallsIInv, CallsTypes, NotBegun, Running,
     Unanswered, Closed, ZeroIsTrue
<1>4. CASE Drained(c)
  BY <1>4 DEF Progress, Drained, PipesClosed, Over, Enter, CallsIInv, CallsTypes, NotBegun,
     Running, Unanswered, Closed, ZeroIsTrue
<1>5. CASE Polled(c)
  BY <1>5 DEF Progress, Polled, Code, Over, Enter, CallsIInv, CallsTypes, NotBegun, Running,
     Unanswered, Closed, ZeroIsTrue, Answers
<1>. QED  BY <1>1, <1>2, <1>3, <1>4, <1>5 DEF Progress

LEMMA CallsIInvStep == CallsIInv /\ [CallsNext]_callVars => CallsIInv'
<1> SUFFICES ASSUME CallsIInv, [CallsNext]_callVars PROVE CallsIInv'
  OBVIOUS
<1>1. CASE UNCHANGED callVars
  BY <1>1 DEF callVars, CallsIInv, CallsTypes, NotBegun, Running, Unanswered, Closed, ZeroIsTrue
<1>2. ASSUME NEW c \in Calls, DoesOne(c) PROVE CallsIInv'
  BY <1>2, IInvProgress, IInvFault, IInvWorld DEF DoesOne
<1>. QED  BY <1>1, <1>2 DEF CallsNext, DoesOne

(* The invariant holds over every order of ends, timeouts and cancellations. *)
THEOREM CallsInductive == CallsSpec => []CallsIInv
BY CallsIInvInit, CallsIInvStep, PTL DEF CallsSpec

(* ZeroIsTrue: run_cmd and the poll tell exit code 0 only of a command that
   ended by itself with 0, whatever timeouts, cancellations and lost answers
   come in between.                                                          *)
THEOREM ZeroTold == CallsSpec => []ZeroIsTrue
<1>1. CallsIInv => ZeroIsTrue
  BY DEF CallsIInv
<1>. QED  BY <1>1, CallsInductive, PTL

(* The step that makes a change of a command visible in its sandbox. *)
LEMMA EffectOfStep ==
  ASSUME CallsIInv, [CallsNext]_callVars, NEW c \in tree' \ tree
  PROVE  IF remote THEN answer'[c] \in Answers
         ELSE pc[c] # "over" \/ orphan[c] = "detached"
<1>1. PICK d \in Calls : DoesOne(d)
  BY DEF CallsNext, DoesOne, callVars
<1>2. (Touch(d) \/ Polled(d)) /\ c = d
  BY <1>1 DEF DoesOne, Progress, Start, Returns, TimesOut, Drained, Polled, Call, Fault, NotFound,
     StartRaises, PollRaises, Cancel, World, Spawn, LetGo, Exit, Touch
<1>3. CASE Touch(d)
  BY <1>2, <1>3 DEF Touch, CallsIInv, CallsTypes, Closed
<1>4. CASE Polled(d)
  <2>1. remote /\ pc[d] = "running" /\ command[d] \in Exits \cup {"lost"}
    BY <1>2, <1>4 DEF Polled, CallsIInv, Running
  <2>2. answer[d] = "none"
    BY <2>1 DEF CallsIInv, Unanswered
  <2>3. answer'[d] = Code(command[d])
    BY <1>2, <1>4, <2>1, <2>2 DEF Polled, Over, CallsIInv, CallsTypes
  <2>. QED  BY <1>2, <2>1, <2>3 DEF Code, Answers, Exits
<1>. QED  BY <1>2, <1>3, <1>4

(* EffectsBelongToCall: a command changes the sandbox only while its call lasts,
   or through a process that let go of the pipes; an operation of contree only
   by a call that returns its code.                                          *)
THEOREM EffectsInCall == CallsSpec => EffectsBelongToCall
<1>1. CallsIInv /\ [CallsNext]_callVars =>
        [\A c \in tree' \ tree :
           IF remote THEN answer'[c] \in Answers
           ELSE pc[c] # "over" \/ orphan[c] = "detached"]_callVars
  BY EffectOfStep
<1>. QED  BY <1>1, CallsInductive, PTL DEF CallsSpec, EffectsBelongToCall

-----------------------------------------------------------------------------
(* The executor has no more threads at work than it has.                    *)

Bounded == ~remote => Cardinality(Busy) <= Threads

LEMMA BusyIsFinite == IsFiniteSet(Busy) /\ Cardinality(Busy) \in Nat
<1>1. IsFiniteSet(Busy)
  BY CallsAssumption, FS_Subset DEF Busy
<1>. QED  BY <1>1, FS_CardinalityType

(* A step that takes no thread. *)
LEMMA BusyShrinks ==
  ASSUME Bounded, Busy' \subseteq Busy, UNCHANGED remote
  PROVE  Bounded'
<1>1. Cardinality(Busy') <= Cardinality(Busy)
  BY BusyIsFinite, FS_Subset
<1>2. Cardinality(Busy') \in Nat
  BY BusyIsFinite, FS_Subset, FS_CardinalityType
<1>. QED  BY <1>1, <1>2, BusyIsFinite, ThreadsAssumption DEF Bounded

(* Only a start makes a command run, and it finds a thread free. *)
LEMMA BoundedStart ==
  ASSUME NEW c \in Calls, CallsTypes, Start(c), UNCHANGED remote
  PROVE  Bounded'
<1>1. Busy' = Busy \cup {c}
  BY DEF Start, Enter, CallsTypes, Busy
<1>2. Cardinality(Busy') <= Cardinality(Busy) + 1
  BY <1>1, BusyIsFinite, FS_AddElement
<1>3. Cardinality(Busy') \in Nat
  BY <1>1, BusyIsFinite, FS_AddElement
<1>4. ~remote => Cardinality(Busy) < Threads
  BY DEF Start
<1>. QED  BY <1>2, <1>3, <1>4, BusyIsFinite, ThreadsAssumption DEF Bounded

LEMMA BoundedStep == CallsIInv /\ Bounded /\ [CallsNext]_callVars => Bounded'
<1> SUFFICES ASSUME CallsIInv, Bounded, [CallsNext]_callVars PROVE Bounded'
  OBVIOUS
<1>1. CASE UNCHANGED callVars
  BY <1>1, BusyShrinks DEF callVars, Busy
<1>2. ASSUME NEW c \in Calls, DoesOne(c) PROVE Bounded'
  <2>0. UNCHANGED remote /\ CallsTypes
    BY <1>2 DEF DoesOne, Progress, CallsIInv
  <2>1. CASE Start(c)
    BY <2>0, <2>1, BoundedStart
  <2>2. CASE ~Start(c)
    <3>1. \A d \in Calls : pc'[d] = pc[d] \/ pc'[d] \in {"queued", "over"}
                           \/ (pc[d] = "running" /\ pc'[d] = "draining")
      BY <1>2, <2>0, <2>2 DEF DoesOne, Progress, Returns, TimesOut, Drained, Polled, Call, Fault,
         NotFound, StartRaises, PollRaises, Cancel, World, Spawn, LetGo, Exit, Touch, Over, Enter,
         CallsTypes
    <3>. QED  BY <2>0, <3>1, BusyShrinks DEF Busy
  <2>. QED  BY <2>1, <2>2
<1>. QED  BY <1>1, <1>2 DEF CallsNext, DoesOne

(* TypeOK: the variables keep their types, and blocked commands never take more
   than the executor's threads.                                              *)
THEOREM CallsTypeCorrect == CallsSpec => []CallsTypeOK
<1>1. CallsInit => Bounded
  <2>1. CallsInit => Busy = {}
    BY DEF CallsInit, Busy
  <2>. QED  BY <2>1, FS_EmptySet, ThreadsAssumption DEF Bounded
<1>2. CallsIInv /\ Bounded => CallsTypeOK
  BY DEF CallsIInv, CallsTypes, Bounded, CallsTypeOK
<1>. QED  BY <1>1, <1>2, BoundedStep, CallsInductive, PTL DEF CallsSpec
=============================================================================
