------------------------------- MODULE Mission -------------------------------
(* Missions, the processes that run them, and restarts
   (orchestrator/orchestrator.py, api/app.py, api/routes_missions.py, cli.py).

   The server has one MissionRunner for all its missions; `swarmforge mission`
   is a process of its own with a runner of its own, on the same database.
   Inside a process missions interleave where run_mission suspends: in the
   planner, in make_repo, in the pool, the verifier, the judge, the merger.
   The inside of each stage is left to the other modules.                    *)
EXTENDS Naturals, FiniteSets, Sequences

CONSTANTS
  Missions,
  FromCli,    \* those started with `swarmforge mission`, the rest by the API
  None,       \* Python's None
  MaxStarts   \* bound: starts of the server

ASSUME CliAssumption  == FromCli \subseteq Missions
ASSUME NoneAssumption == None \notin Missions
ASSUME StartsAssumption == MaxStarts \in Nat

VARIABLES
  status,      \* status column; "absent" before create_mission
  error,       \* error column, by cause
  stored,      \* stored[m]: the task table has rows of m
  announced,   \* announced[m]: the terminal events stored for m, in order
  run,         \* run[h][m]: how far run_mission(m) has come in process h
  serverUp,
  starts,      \* times the server was started
  runnerRepo,  \* repo_dir of the server's runner
  backendRepo, \* the repository the server's backend makes sandboxes from
  builtIn,     \* builtIn[m]: the repository the running server's pool of m started with
  shared,      \* missions the server took over from a live CLI process
  claimed,     \* claimed[m]: a task row of m says claimed or running, and m is
               \* not over (no run reads its rows again)
  scripted,    \* the provider of the CLI processes is the mock: it never waits
  watch        \* watch[m]: how far the CLI's printing of m's events has come

db     == <<status, error, stored, announced, claimed>>
cli    == <<scripted, watch>>
server == <<serverUp, starts, runnerRepo, backendRepo, builtIn>>
vars   == <<db, run, server, shared, cli>>

Hosts    == {"server", "cli"}
Stages   == <<"executing", "verifying", "judging", "merging">>
Terminal == {"done", "failed"}
Active   == {Stages[i] : i \in 1..Len(Stages)}
Phases   == {"idle", "started", "planning", "seeding", "done", "failed"} \cup Active
Repos    == Missions \cup {None}

(* The phase "done" or "failed" of a run is that between the update of the
   status and the publication of the terminal event.                         *)
TypeOK ==
  /\ status \in [Missions -> {"absent", "planning", "spawning"} \cup Active \cup Terminal]
  /\ error \in [Missions -> {"none", "clash", "stage"}]
  /\ stored \in [Missions -> BOOLEAN]
  /\ announced \in [Missions -> Seq(Terminal)]
  /\ run \in [Hosts -> [Missions -> Phases]]
  /\ serverUp \in BOOLEAN /\ starts \in 0..MaxStarts
  /\ runnerRepo \in Repos /\ backendRepo \in Repos
  /\ runnerRepo = None <=> backendRepo = None
  /\ builtIn \in [Missions -> Repos] /\ shared \subseteq Missions
  /\ claimed \in [Missions -> BOOLEAN] /\ scripted \in BOOLEAN
  /\ watch \in [Missions -> {"off", "due", "subscribed", "over"}]

Idle == [m \in Missions |-> "idle"]

Init ==
  /\ status = [m \in Missions |-> "absent"]
  /\ error = [m \in Missions |-> "none"]
  /\ stored = [m \in Missions |-> FALSE]
  /\ announced = [m \in Missions |-> <<>>]
  /\ run = [h \in Hosts |-> Idle]
  /\ serverUp = FALSE /\ starts = 0
  /\ runnerRepo = None /\ backendRepo = None
  /\ builtIn = [m \in Missions |-> None]
  /\ shared = {}
  /\ claimed = [m \in Missions |-> FALSE]
  /\ scripted \in BOOLEAN
  /\ watch = [m \in Missions |-> "off"]

-----------------------------------------------------------------------------
(* Processes.                                                               *)

(* create_mission and the start of its run: by POST /api/missions, or by the
   command line.  The task is created in the same step, and begins later; the
   command line gathers it with the task that prints the mission's events.   *)
Create(h, m) ==
  /\ status[m] = "absent"
  /\ m \in FromCli <=> h = "cli"
  /\ h = "server" => serverUp
  /\ status' = [status EXCEPT ![m] = "planning"]
  /\ run' = [run EXCEPT ![h][m] = "started"]
  /\ watch' = IF h = "cli" THEN [watch EXCEPT ![m] = "due"] ELSE watch
  /\ UNCHANGED <<error, stored, announced, claimed, server, shared, scripted>>

(* Mutations (see PROJECT.json) precede the definition they would replace. *)
UnfinishedOrFailed == {m \in Missions : status[m] \notin {"absent", "done"}}
UnfinishedAndPlanned == {m \in Missions : status[m] \in {"spawning"} \cup Active}

(* non_terminal_missions *)
Unfinished == {m \in Missions : status[m] \notin {"absent"} \cup Terminal}

(* Those with rows in status "claimed": between two steps there are none, since a
   row that is claimed is marked running at once.                            *)
ClaimedOnly == {}
(* Whose claimed, running and retrying rows go back to "ready". *)
Rehydrated == Unfinished

(* The lifespan of the application: a new runner, and a run for every mission
   that is not finished, whoever may be running it.                          *)
StartServer ==
  /\ ~serverUp /\ starts < MaxStarts
  /\ serverUp' = TRUE /\ starts' = starts + 1
  /\ run' = [run EXCEPT !["server"] =
              [m \in Missions |-> IF m \in Unfinished THEN "started" ELSE "idle"]]
  /\ shared' = shared \cup {m \in Unfinished : run["cli"][m] # "idle"}
  /\ claimed' = [m \in Missions |-> claimed[m] /\ m \notin Rehydrated]
  /\ UNCHANGED <<status, error, stored, announced, runnerRepo, backendRepo, builtIn, cli>>

(* The server is killed, or stopped, which cancels its runs: CancelledError
   is no Exception, so run_mission leaves the row as it is.                  *)
StopServer ==
  /\ serverUp /\ starts < MaxStarts
  /\ serverUp' = FALSE
  /\ run' = [run EXCEPT !["server"] = Idle]
  /\ runnerRepo' = None /\ backendRepo' = None
  /\ builtIn' = [m \in Missions |-> None]
  /\ UNCHANGED <<db, starts, shared, cli>>

KillCli(m) ==
  /\ watch[m] \notin {"off", "over"}
  /\ run' = [run EXCEPT !["cli"][m] = "idle"]
  /\ watch' = [watch EXCEPT ![m] = "off"]
  /\ UNCHANGED <<db, server, shared, scripted>>

(* watch subscribes once run_mission has suspended for the first time. *)
Watch(m) ==
  /\ watch[m] = "due" /\ run["cli"][m] # "started"
  /\ watch' = [watch EXCEPT ![m] = "subscribed"]
  /\ UNCHANGED <<db, run, server, shared, scripted>>

-----------------------------------------------------------------------------
(* run_mission.                                                             *)

Enter(h, m, p) == run' = [run EXCEPT ![h][m] = p]
Write(m, s)    == status' = [status EXCEPT ![m] = s]
Free(m)        == claimed' = [claimed EXCEPT ![m] = FALSE]

Begin(h, m) ==
  /\ run[h][m] = "started"
  /\ h = "cli" => ~scripted
  /\ Write(m, "planning")
  /\ Enter(h, m, "planning")
  /\ UNCHANGED <<error, stored, announced, claimed, server, shared, cli>>

(* With the mock nothing suspends until make_repo, so that a plan that fails
   makes the whole run one step.                                             *)
BeginScripted(m) ==
  /\ scripted /\ run["cli"][m] = "started"
  /\ \/ /\ Write(m, "spawning") /\ Enter("cli", m, "seeding")
        /\ stored' = [stored EXCEPT ![m] = TRUE]
        /\ UNCHANGED <<error, announced, claimed>>
     \/ /\ Write(m, "failed") /\ Enter("cli", m, "idle")
        /\ \E cause \in {"stage"} \cup IF stored[m] THEN {"clash"} ELSE {} :
             error' = [error EXCEPT ![m] = cause]
        /\ announced' = [announced EXCEPT ![m] = Append(@, "failed")]
        /\ Free(m) /\ UNCHANGED stored
  /\ UNCHANGED <<server, shared, cli>>

BackendAlwaysRepo(repo) == backendRepo' = repo

(* "if backend.repo_dir is None", for the local backend. *)
BackendRepo(repo) == backendRepo' = IF backendRepo = None THEN repo ELSE backendRepo

(* From the repository to the first pass of the pool, which claims the rows
   that depend on none, nothing suspends.  A CLI
   process has a runner and a backend of its own, for one mission.           *)
Execute(h, m, repo) ==
  /\ Write(m, "executing")
  /\ Enter(h, m, "executing")
  /\ claimed' = [claimed EXCEPT ![m] = TRUE]
  /\ IF h = "server"
     THEN /\ runnerRepo' = repo
          /\ BackendRepo(repo)
          /\ builtIn' = [builtIn EXCEPT ![m] = backendRepo']
     ELSE UNCHANGED <<runnerRepo, backendRepo, builtIn>>
  /\ UNCHANGED <<serverUp, starts, cli>>

(* The plan is accepted and its tasks are inserted.  Rows of an earlier run
   are no hindrance if the new plan uses other ids.  "self.repo_dir or await
   make_repo": the server's runner seeds a repository only if it has none.   *)
PlanStored(h, m) ==
  /\ run[h][m] = "planning"
  /\ stored' = [stored EXCEPT ![m] = TRUE]
  /\ IF h = "server" /\ runnerRepo # None
     THEN Execute(h, m, runnerRepo)
     ELSE Write(m, "spawning") /\ Enter(h, m, "seeding") /\ UNCHANGED <<server, claimed, cli>>
  /\ UNCHANGED <<error, announced, shared>>

(* make_repo has returned. *)
Seeded(h, m) ==
  /\ run[h][m] = "seeding"
  /\ Execute(h, m, m)
  /\ UNCHANGED <<error, stored, announced, shared>>

(* The pool, the verifier or the judge returns: the pool only with every row done
   or failed; with a row that a lost worker left running it raises.          *)
StageReturns(h, m, i) ==
  /\ i < Len(Stages) /\ run[h][m] = Stages[i]
  /\ Write(m, Stages[i + 1])
  /\ Enter(h, m, Stages[i + 1])
  /\ IF Stages[i] = "executing" THEN Free(m) ELSE UNCHANGED claimed
  /\ UNCHANGED <<error, stored, announced, server, shared, cli>>

(* The merger returns: status done, then MISSION_DONE. *)
MergeReturns(h, m) ==
  /\ run[h][m] = "merging"
  /\ Write(m, "done")
  /\ Enter(h, m, "done")
  /\ Free(m)
  /\ UNCHANGED <<error, stored, announced, server, shared, cli>>

Fail(h, m, cause) ==
  /\ Write(m, "failed")
  /\ error' = [error EXCEPT ![m] = cause]
  /\ Enter(h, m, "failed")
  /\ Free(m)
  /\ UNCHANGED <<stored, announced, server, shared, cli>>

(* create_tasks raises: an id of the plan is already a row of this mission. *)
PlanClashes(h, m) ==
  /\ run[h][m] = "planning" /\ stored[m]
  /\ Fail(h, m, "clash")

(* Any other exception of a stage, and "no viable candidates". *)
StageRaises(h, m) ==
  /\ run[h][m] \in {"planning", "seeding"} \cup Active
  /\ Fail(h, m, "stage")

(* MISSION_DONE or MISSION_FAILED, which a kill can still prevent.  The watch
   that has subscribed to this process's events reads it and returns.        *)
Announce(h, m) ==
  /\ run[h][m] \in Terminal
  /\ announced' = [announced EXCEPT ![m] = Append(@, run[h][m])]
  /\ Enter(h, m, "idle")
  /\ watch' = IF h = "cli" /\ watch[m] = "subscribed" THEN [watch EXCEPT ![m] = "over"] ELSE watch
  /\ UNCHANGED <<status, error, stored, claimed, server, shared, scripted>>

AnyTime(h, m) == TRUE
(* The event loop starts watch before it resumes the run it was gathered with. *)
MayResume(h, m) == h = "cli" => watch[m] # "due"

RunStep(h, m) ==
  \/ Begin(h, m)
  \/ h = "cli" /\ BeginScripted(m)
  \/ /\ MayResume(h, m)
     /\ \/ PlanStored(h, m) \/ PlanClashes(h, m) \/ Seeded(h, m)
        \/ \E i \in 1..Len(Stages) : StageReturns(h, m, i)
        \/ MergeReturns(h, m) \/ StageRaises(h, m) \/ Announce(h, m)

Next ==
  \/ StartServer \/ StopServer
  \/ \E m \in Missions :
       KillCli(m) \/ Watch(m) \/ \E h \in Hosts : Create(h, m) \/ RunStep(h, m)

Spec == Init /\ [][Next]_vars

(* Each stage ends (its own module says why), a server that is down is started
   again, and the event loop of a CLI process runs the tasks that are ready.
   As runs are finite, it is enough that something of this goes on.          *)
Progress == StartServer \/ \E m \in Missions : Watch(m) \/ \E h \in Hosts : RunStep(h, m)

FairSpec == Spec /\ WF_vars(Progress)

-----------------------------------------------------------------------------
(* Properties.                                                              *)

(* "done" and "failed" have no successor in MISSION_TRANSITIONS
   (state_machine.py:16-17): no kill and no restart moves a mission out of
   them, unless two processes run it.                                        *)
TerminalIsFinal ==
  [][\A m \in Missions \ shared' : status[m] \in Terminal => status'[m] = status[m]]_vars

(* A mission gets at most one terminal event, the one of its status, over any
   number of kills and restarts, whoever started it: the row is terminal before
   the event is published.                                                   *)
AnnouncedOnceAndTrue ==
  \A m \in Missions \ shared :
    announced[m] \in {<<>>} \cup {<<s>> : s \in Terminal \cap {status[m]}}

(* All the sandboxes of a server's mission, the arena included, are made from
   the repository its pool started with, although the runner and its backend
   are shared and another mission may be seeding its repository meanwhile.   *)
BuiltInOneRepo ==
  \A m \in Missions : run["server"][m] \in Active =>
    builtIn[m] # None /\ backendRepo = builtIn[m]

(* Every mission the server runs, created by it or left behind by a killed
   process, ends, kills and restarts notwithstanding.                        *)
MissionsEnd ==
  \A m \in Missions :
    run["server"][m] # "idle" ~> status[m] \in Terminal \/ m \in shared

(* The pool of a resumed mission finds no row of its former run claimed or
   running, which it would neither run nor wait for.                         *)
ResumedRowsAreFree ==
  [][\A m \in Missions \ shared' :
       run'["server"][m] = "executing" /\ run["server"][m] # "executing" => ~claimed[m]]_vars

(* `swarmforge mission` comes back when its mission is over, unless it was
   killed: the printing task hears of every end but that of a scripted run
   that failed before it could suspend (README).                             *)
CliReturns ==
  \A m \in FromCli : run["cli"][m] = "started" ~>
    \/ watch[m] \in {"off", "over"}
    \/ scripted /\ status[m] = "failed" /\ error[m] = "stage" /\ ~stored[m]
    \/ m \in shared

-----------------------------------------------------------------------------
(* README.md:88-89 and docs/ARCHITECTURE.md:56-57: a mission killed with the
   server resumes on restart, so it does not fail for having been killed.    *)
ResumedMissionSurvives == \A m \in Missions \ shared : error[m] # "clash"
=============================================================================
