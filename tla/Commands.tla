------------------------------ MODULE Commands ------------------------------
(* One command in a sandbox: SandboxBackend.exec of both backends, down to
   run_cmd (proc.py) and to the operations of the contree service.

   Locally run_cmd blocks a thread of asyncio's executor until the command has
   ended and every process that inherited its pipes has closed them, or has
   ended too.  With contree the command runs in the service, from the image of
   the sandbox, and leaves a new image.  A caller may be cancelled, which stops
   neither a thread nor an operation.                                        *)
EXTENDS Naturals, FiniteSets

CONSTANTS
  Calls,    \* calls of exec
  Threads   \* threads of the executor

ASSUME ThreadsAssumption == Threads \in Nat \ {0}
ASSUME CallsAssumption == IsFiniteSet(Calls)

VARIABLES
  remote,   \* the configured backend: contree, or the local one
  pc,       \* where the call stands: in its thread, or in its coroutine
  answer,   \* what its caller got
  command,  \* the process, or the operation of the service
  orphan,   \* what the command left running: "none", or a process that is
            \* "attached" to the pipes, or "detached" from them
  tree      \* calls whose command has changed the sandbox

callVars == <<remote, pc, answer, command, orphan, tree>>

Exits   == {"ok", "bad"}              \* exit code 0, another one
Answers == Exits \cup {"missing"}     \* 127: no such command; -1: no code given
Busy    == {c \in Calls : pc[c] \in {"running", "draining"}}

CallsTypeOK ==
  /\ remote \in BOOLEAN
  /\ pc \in [Calls -> {"idle", "queued", "running", "draining", "over"}]
  /\ answer \in [Calls -> Answers \cup {"none", "raised", "cancelled"}]
  /\ command \in [Calls -> Exits \cup {"none", "alive", "killed", "lost"}]
  /\ orphan \in [Calls -> {"none", "attached", "detached"}]
  /\ tree \subseteq Calls
  /\ ~remote => Cardinality(Busy) <= Threads

CallsInit ==
  /\ remote \in BOOLEAN
  /\ pc = [c \in Calls |-> "idle"] /\ answer = [c \in Calls |-> "none"]
  /\ command = [c \in Calls |-> "none"] /\ orphan = [c \in Calls |-> "none"]
  /\ tree = {}

-----------------------------------------------------------------------------

Enter(c, p) == pc' = [pc EXCEPT ![c] = p]

(* exec comes back with an ExecResult or an exception, if anyone waits. *)
Over(c, a) ==
  /\ Enter(c, "over")
  /\ answer' = [answer EXCEPT ![c] = IF @ = "none" THEN a ELSE @]

Call(c) ==
  /\ pc[c] = "idle"
  /\ Enter(c, "queued")
  /\ UNCHANGED <<answer, command, orphan, tree>>

(* The task of the caller is cancelled: at a shutdown of the server.  A call
   of contree ends with it, a thread goes on; a command that no thread has
   taken yet is withdrawn.                                                   *)
Cancel(c) ==
  /\ pc[c] \in {"queued", "running", "draining"} /\ answer[c] = "none"
  /\ answer' = [answer EXCEPT ![c] = "cancelled"]
  /\ IF remote \/ pc[c] = "queued" THEN Enter(c, "over") ELSE UNCHANGED pc
  /\ UNCHANGED <<command, orphan, tree>>

(* Popen, or POST /v1/instances answered with a Location. *)
Start(c) ==
  /\ pc[c] = "queued"
  /\ remote \/ Cardinality(Busy) < Threads
  /\ Enter(c, "running")
  /\ command' = [command EXCEPT ![c] = "alive"]
  /\ UNCHANGED <<answer, orphan, tree>>

(* No such command, or no such directory: FileNotFoundError becomes 127.  The
   git rev-parse that follows every command may raise all the same.          *)
NotFound(c) ==
  /\ ~remote /\ pc[c] = "queued" /\ Cardinality(Busy) < Threads
  /\ \E a \in {"missing", "raised"} : Over(c, a)
  /\ UNCHANGED <<command, orphan, tree>>

(* Popen raises something else; or the service refuses, or its answer is lost
   while the operation runs.                                                 *)
StartRaises(c) ==
  /\ pc[c] = "queued" /\ (remote \/ Cardinality(Busy) < Threads)
  /\ Over(c, "raised")
  /\ command' \in {command, IF remote THEN [command EXCEPT ![c] = "alive"] ELSE command}
  /\ UNCHANGED <<orphan, tree>>

-----------------------------------------------------------------------------
(* The command.                                                             *)

(* It starts a process in the background. *)
Spawn(c) ==
  /\ ~remote /\ command[c] = "alive" /\ orphan[c] = "none"
  /\ orphan' \in {[orphan EXCEPT ![c] = o] : o \in {"attached", "detached"}}
  /\ UNCHANGED <<pc, answer, command, tree>>

(* That process ends, or closes the pipes and lives on. *)
LetGo(c) ==
  /\ orphan[c] = "attached"
  /\ orphan' \in {[orphan EXCEPT ![c] = o] : o \in {"none", "detached"}}
  /\ UNCHANGED <<pc, answer, command, tree>>

(* It ends.  An operation may also be FAILED or CANCELLED, its timeout included
   ("killed"), or a SUCCESS that tells no exit code ("lost").                *)
Exit(c) ==
  /\ command[c] = "alive"
  /\ \E e \in Exits \cup (IF remote THEN {"killed", "lost"} ELSE {}) :
       command' = [command EXCEPT ![c] = e]
  /\ UNCHANGED <<pc, answer, orphan, tree>>

(* A process of a local command writes where the command was started.  What an
   operation writes is in its own image until exec takes that.               *)
Touch(c) ==
  /\ ~remote /\ c \notin tree
  /\ command[c] = "alive" \/ orphan[c] # "none"
  /\ tree' = tree \cup {c}
  /\ UNCHANGED <<pc, answer, command, orphan>>

-----------------------------------------------------------------------------
(* run_cmd.                                                                 *)

(* Mutations (see PROJECT.json) precede the definition they would replace. *)
ProcessEnded(c) == command[c] # "alive"

(* communicate() returns at the end of both pipes. *)
PipesClosed(c) == command[c] # "alive" /\ orphan[c] # "attached"

(* The code of the command, and git rev-parse. *)
Returns(c) ==
  /\ ~remote /\ pc[c] = "running" /\ PipesClosed(c)
  /\ \E a \in {command[c], "raised"} : Over(c, a)
  /\ UNCHANGED <<command, orphan, tree>>

NobodyKilled(c) == UNCHANGED <<command, orphan>>
(* _kill_tree: killpg fails unless the command made a process group of its own
   (on Windows taskkill takes the tree): then only the child is killed.  If the
   child has ended, with the pipes held by another process, nothing is.      *)
Killed(c) ==
  IF command[c] = "alive"
  THEN /\ command' = [command EXCEPT ![c] = "killed"]
       /\ orphan' \in {orphan, [orphan EXCEPT ![c] = "none"]}
  ELSE UNCHANGED <<command, orphan>>

TimesOut(c) ==
  /\ ~remote /\ pc[c] = "running"
  /\ Enter(c, "draining")
  /\ Killed(c)
  /\ UNCHANGED <<answer, tree>>

(* The second communicate(), without a timeout; then a text is added to the
   bytes it returned: TypeError.                                             *)
Drained(c) ==
  /\ pc[c] = "draining" /\ PipesClosed(c)
  /\ Over(c, "raised")
  /\ UNCHANGED <<command, orphan, tree>>

-----------------------------------------------------------------------------
(* _run of contree.                                                         *)

CodeOrZero(s) == IF s = "lost" THEN "ok" ELSE s
(* state.get("exit_code", -1) *)
Code(s) == IF s = "lost" THEN "missing" ELSE s

(* A poll finds the operation ended.  The handle moves to the result image, if
   there is one.                                                             *)
Polled(c) ==
  /\ remote /\ pc[c] = "running" /\ command[c] # "alive"
  /\ IF command[c] = "killed"
     THEN Over(c, "raised") /\ UNCHANGED tree
     ELSE Over(c, Code(command[c])) /\ tree' \in {tree, tree \cup {c}}
  /\ UNCHANGED <<command, orphan>>

(* A poll fails: the connection, or raise_for_status. *)
PollRaises(c) ==
  /\ remote /\ pc[c] = "running"
  /\ Over(c, "raised")
  /\ UNCHANGED <<command, orphan, tree>>

Progress(c) ==
  /\ Start(c) \/ Returns(c) \/ TimesOut(c) \/ Drained(c) \/ Polled(c)
  /\ UNCHANGED remote
Fault(c)    == NotFound(c) \/ StartRaises(c) \/ PollRaises(c) \/ Cancel(c)
World(c)    == Spawn(c) \/ LetGo(c) \/ Exit(c) \/ Touch(c)

CallsNext ==
  \E c \in Calls :
    \/ Progress(c)
    \/ (Call(c) \/ Fault(c) \/ World(c)) /\ UNCHANGED remote

CallsSpec == CallsInit /\ [][CallsNext]_callVars

(* Threads and coroutines run, timeouts fire.  Of commands, the processes they
   start and the service nothing is assumed.                                 *)
CallsFairSpec == CallsSpec /\ \A c \in Calls : WF_callVars(Progress(c))

-----------------------------------------------------------------------------
(* Properties.                                                              *)

(* Exit code 0, on which the verifier and the merger build, is told only of a
   command that ended by itself with 0: no timeout that races with its end, no
   lost report and no failed spawn becomes one (proc.py:35-43).              *)
ZeroIsTrue == \A c \in Calls : answer[c] = "ok" => command[c] = "ok"

(* Nothing happens behind the caller's back: locally a command changes the
   sandbox only until its call is over, a timeout included, or through a process
   that gave up its pipes; with contree only a call that returns does.       *)
EffectsBelongToCall ==
  [][\A c \in tree' \ tree :
       IF remote THEN answer'[c] \in Answers
       ELSE pc[c] # "over" \/ orphan[c] = "detached"]_callVars

Held(c) == IF remote THEN command[c] = "alive" ELSE orphan[c] = "attached"

(* Every call ends, if each process left in the background lets go of the pipes
   some time, and each operation ends: nothing else can hold a thread, nor
   the calls that wait for one.                                              *)
CallsEnd ==
  (\A c \in Calls : []<>~Held(c)) => \A c \in Calls : pc[c] = "queued" ~> pc[c] = "over"
=============================================================================
