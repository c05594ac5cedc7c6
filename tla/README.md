# Swarmforge, specified

TLA+ specifications of Swarmforge, an orchestrator that splits a change request
into tasks, gives each task to an agent in a sandbox of its own, verifies the
candidates they hand in, lets a judge rank them and merges the winners. The
modules are read off `src/src/swarmforge/` (and one file of the dashboard); TLC
checks them on small instances, TLAPS proves theorems about each component for
every instance. `PROJECT.json` lists every run, every mutation, the source lines
of every definition, the findings, the hazards and the theorems.

    tlc -config TaskPool.cfg MCTaskPool.tla         # one run: cfg and module from "runs"
    tlapm TaskPoolProofs.tla                        # the proofs about one component

## 1. The system

```
 POST /missions, CLI ──> MissionRunner.run_mission            (Mission)
                           │ planning   Planner               (Planning)
                           │ executing  WorkerPool            (TaskPool ⊑ TaskBoard)
                           │              └ Agent.run         (AgentLoop ⊑ AgentContract)
                           │              ├ LLMProvider       (Replay: mock, recording)
                           │              └ SandboxBackend    (Sandboxes)
                           │                  └ exec, run_cmd (Commands)
                           │ verifying  Verifier ┐
                           │ judging    Judge    ┘            (Verification)
                           │ merging    Merger                (MergeArena)
   every component ──> EventBus ──> SQLite, SSE ──> dashboard (EventFeed ⊑ Feed)
```

| Component | State | Operations | Interacts by | What makes it hard | What makes it correct |
|---|---|---|---|---|---|
| Worker pool `orchestrator/workers.py` | task rows, set of coroutines in flight | promote, claim, run, submit, retry, fail, tear down; resume after a kill | task and candidate tables, backend, agents, events | loop and workers interleave at every await; retries against claims; failed dependencies; rows and candidates that a killed pool leaves | one worker per task, dependencies done, bounded parallelism, no rerun after a submission but that of a killed run, agent ids used once, termination |
| Agent loop `agents/base.py`, tools `agents/tools/` | conversation, step count, agent row | chat, dispatch, account, stop | provider, tools, `should_stop` | several calls in one reply, failing tools, a provider that raises | answered conversations, no request after a submission, a row that tells the result |
| Event bus and stream `events/bus.py`, `api/routes_events.py` | events table, queues per stream, last id | publish, subscribe, replay, go live, reconnect | SQLite, asyncio queues, HTTP | events published during a replay, lost connections, restarts, a second publishing process | every page shows every event once and in order, and catches up |
| Dashboard `apps/dashboard/src/useMission.ts` | events shown | receive, reload, reconnect | EventSource | ids across reconnections | as above |
| Mission runner `orchestrator/orchestrator.py`, `api/app.py`, `cli.py` | mission row, shared runner and backend, the command line's watch | create, stages, fail, announce, rehydrate, watch | all components; two processes share a database | kills between any two steps, missions of one runner interleaving, a CLI process beside the server, an event published before its reader subscribes | terminal statuses stay, one true terminal event, one repository per mission, free rows for a resumed one, every mission ends, the command returns |
| Verifier `orchestrator/verifier.py` | `tests_passed` of candidates, semaphore | create, apply, test, ask, tear down | backend, agent, candidate rows | parallel verifications, exceptions through `gather` | only green, unvetoed candidates pass; rows and results agree |
| Judge `orchestrator/judge.py` | ranking, winners | shortcut, ask, parse, choose | provider | made-up and repeated ids, no winner marked, unreadable answers | winners are verified candidates; there is one when something passed |
| Merge arena `orchestrator/merger.py` | arena tree and branch, merged and dropped | apply, test, resolve, reset, commit | backend, merger agent | combinations that break the tests, half-resolved conflicts, the reset | the branch is green, exists, and holds nothing dropped |
| Planner `orchestrator/planner.py`, `mission.py` | one plan | ask, parse, repair, validate | agent | cycles off the first path, shared dependencies, odd answers | exactly the runnable plans are accepted |
| Sandbox backends `sandbox/` | worktrees and branches, or images | create, fork, write, exec, commit, export, tear down, clean up | git, the contree service | ignored exit codes of `git commit` and `git worktree add`, a repository around the sandbox root, forks of uncommitted work | candidates with all that was committed and nothing of others, a result that survives cleanup |
| Commands `proc.py`, `exec` of both backends, `agents/tools/exec_tool.py` | processes, pipes, threads; operations of the service | start, time out, kill, drain, poll | subprocesses, `asyncio.to_thread`, HTTP | a timeout racing with the end, background processes, cancelled callers, lost answers | zero is true, no effect after the call, calls end |
| Providers `llm/mock.py`, `llm/recording.py` | transcripts, scenario files, cursors | record, save, load, choose a scenario, step | agents; files between two processes | sessions sharing scenarios, a scenario changing in mid-run, missions recorded together | steps in order, no falling back, a recorded session replayed as it was |
| Store `store/db.py` | six tables | one locked statement each | everything | claims, counters | see the owners of the tables |

Not modelled: wire formats, prices, configuration, schemas, event names, prompts,
rendering, example data and scripts (no behaviour of their own). `PROJECT.json`
has the list with reasons, and says what is left out of the components that are
partly modelled.

## 2. Modules and how they correspond to the code

The server, the pool and the agents are coroutines of one asyncio event loop.
Code between two suspension points runs alone, so it is one action; each `await`
that suspends is a boundary between actions. `EventBus.publish` is a coroutine
that never suspends (a locked SQLite statement and `put_nowait`), so it is part of
the action around it. Each statement of the store is atomic under its lock.

**TaskPool** (`workers.py`, tasks and candidates tables). `Tick` is a whole pass
of `run_until_done`: promotion, claims until `max_workers` coroutines are in
flight, and the task-deadlock check. Claims of one pass take the claimable rows
of lowest `seq`: the set `C` of `ClaimedNow`, which is open only where rows of two
plans have the same `seq`. A *run* is one worker coroutine, named by its task and by
the attempts value it claimed (which is also in its agent id). `Created`, `CreateFails`, `Submit`,
`AgentReturns`, `AgentCrashes`, `TornDown`, `TeardownFails` are the segments of
`_run_worker`; `AgentReturns` marks the task done whether or not anything was
submitted, because `if submitted.is_set:` tests the method.

The mission may be killed and resumed at any step, after its pool has ended too
(`Resume`): the coroutines are gone, rows that say running go back to ready with their
attempts, candidates stay, and the rows of a new plan (`PlanOf`) are added, which are
`absent` until then. There is such a pool only if the ids of the new plan are not
among the old rows; what happens if they are is in Mission. Restarts that never get as
far as a stored plan only reset rows and are one resumption with the next that does.
Two pools at work on one table at the same time are not modelled; how they come about
is in Mission (`shared`).

**TaskBoard** is what the pool promises without saying how it schedules; `ImplementsBoard` is the
refinement (`card` from the status column, a running row with no worker being a
lost card).

**AgentLoop** (`agents/base.py`, `tools/registry.py`, agents table). One action per
segment of `Agent.run`: `Ask`, the three outcomes of `llm.chat`, one `Dispatch`
per tool call, and the three ends of a step. `role`, chosen in `Init`, tells the
workers (who can submit) and the planner (who may run twice) from the others. **AgentContract** is what TaskPool
assumes of an agent: submissions only while it works, no crash after one.
`ImplementsContract` discharges that assumption.

**EventFeed** (`events/bus.py`, `routes_events.py`, `useMission.ts`). `Publish`
inserts and fans out; `Connect` subscribes and takes the snapshot after the
`Last-Event-ID`; `Replay` and `Live` yield frames; `Receive` is the page;
`Cut` and `Reload` lose everything queued and in flight, as a broken connection
or a restarted server does; `PublishElsewhere` is a CLI process, whose events
reach the table but not the server's queues. **Feed** is the feed that the stream
implements: it may leave out events of another process and no others, and shows
what it shows in order and once.

**Mission** (`orchestrator.py`, `app.py`, `cli.py`, `routes_missions.py`,
`routes_diff.py`). One action per segment of `run_mission`, in the process that runs
it: the server, with one runner and one backend for all its missions, or a CLI
process with its own (`FromCli`). `StopServer` and `KillCli` may happen between any two steps;
`StartServer` rehydrates, whoever may
be running the mission; `shared` remembers the missions it took over from a live
CLI process, which nothing in the code guards. `claimed` is what rehydration needs
of the task table: whether rows of the mission may say claimed or running, which is so
from the start of the pool to its return, the end of the mission or the next rehydration.
`swarmforge mission` gathers the run with `watch`, which subscribes when the run
first suspends (`Watch`) and returns on the terminal event. With the mock provider
(`scripted`) a run does not suspend before `make_repo`, so `BeginScripted` goes from
the start to there, or to the end. `runnerRepo` and `backendRepo` are the two attributes
that missions of the server share. The local backend is assumed.

**Verification** (`verifier.py`, `judge.py`). Every candidate is empty, unfit, red
or green; each verification goes through waiting, creating, applying, testing,
asking and teardown, and each of these may fail; `gather` raises at the first
exception and leaves the others running. The judge's answer is any ranking over
the candidates and a made-up id, an unreadable text, or an exception. The verifier
agent may agree, veto, or answer null, which is stored nowhere; the candidates in
`Former` may have a verdict from a run of the mission that was killed. Candidates
are numbers in the order of their creation, which is the order `verify_all`
returns them in; what passed and who wins are sets (the merger sorts the winners).

**MergeArena** (`merger.py`). A tree is the set of candidates it holds and the set
left with conflict markers. Which patches conflict, which combinations are green
and which conflicted files the tests import are chosen in `Init` and never
change, as is whether git knows a user to commit for (`author`): the merger does not
look at the exit code of `git commit` (`Committed`). The agent may resolve the
candidate's hunks or leave markers, and may give up, run out of steps or crash.

**Planning** (`planner.py`, `mission.py`). One answer and one repair, each through
the parser (`Parsed`) and `validate_dag`, whose recursive depth-first search is a
machine with the stack of its calls (`path`) and what the loop of each has yet to
look at (`left`): `VisitRoot` and `Follow` begin a call, `Leave` ends it, and a gray
dependency (`BackEdge`) ends everything. The dependencies of a task are a set, taken in
any order. `AcyclicPlan` is the reference definition, over sets of tasks.

**Sandboxes** (`local_worktree.py`, `contree_backend.py`). The content of a tree is
a set of edits. `contree`, chosen in `Init`, is the backend: a local sandbox is a worktree on a
branch of its own, a contree handle an image that commits to `main` itself. (Commands
calls the same choice `remote`.) A commit is made or not (`Committed`), since its exit
code is dropped. A worktree that git refused to make (`CreateBroken`) leaves a
directory without a repository, in which an agent can work like in any other: its git
commands go to the repository `around` the sandbox root, where there is one. In that
repository `git add -A` takes in everything that is not ignored (`Swallowed`): what
its user was changing (`Foreign`), and the files of all broken sandboxes. With the
default settings this is the checkout of Swarmforge itself, and it ignores the
directory of the sandboxes. What each worktree has is separate by the shape of the
model (files and branch of a worktree are its own, as git keeps them), so no property
states it.
Clients call in any order; the pool, the verifier and the merger use a part of
these orders.

**Commands** (`proc.py`, `exec` of both backends). A local call waits for a thread,
starts the command, and returns at the end of its pipes, which a background
process it left (`orphan`) may hold; a timeout kills the command and perhaps what it
started, and drains the pipes without a limit. With contree the command is an
operation, polled until it is terminal, and its image replaces the sandbox's when
the call returns. `Cancel`, `StartRaises` and `PollRaises` leave the thread or the
operation running. `tree` records whose effects reached the sandbox.

**Replay** (`llm/recording.py`, `llm/mock.py`). One process appends every reply to one
list (`Record`) and writes it role by role when a mission ends (`SaveRecording`); a
later process chooses a scenario for every chat (`Best` of `Candidates`, by what has
been `heard` in the run's conversation) and takes its session's next step. A
recorded reply is its mission, agent and number, and a saved file the set of places in
the list that its replies have, by role; of a hand-written scenario the needle, the
number of steps and the place among the file names count.

`MC*` modules give the constants that a cfg cannot express.

## 3. Runs

| Run | Question | Bounds | Why they are enough |
|---|---|---|---|
| TaskPool | is the pool safe, does it implement the board, does it end, is a ready task claimed? | 4 tasks in 2 plans: one of the first run, then two and one on both; 2 workers; `MAX_ATTEMPTS` = 1, so 2 runs of a task and one more after a kill; 1 submission a run; 1 resumption | the first task in every state a kill can leave it, then competing with a plan of two tasks in parallel and a join: a full pool with a task waiting, retries and reset rows that go ahead of it, the last run of a task killed before and after its submission. A second resumption and `MAX_ATTEMPTS` = 2 add lengths, which the proofs cover, and no new kind of row |
| AgentLoop | does the loop keep its contract, its conversation and its status? | every role; 3 steps, 2 calls a reply | a submission first, last or twice in a batch, at any step; the planner's repair run |
| EventFeed | do pages miss, repeat or reorder, do they catch up? | 2 pages, 4 events of either process, 2 cuts | an event before, during and after a replay, on a first and on a second connection |
| Mission | are statuses, events, rows and repositories right under kills and restarts, and does the command return? | a mission of the server and one of the command line, scripted or not; 2 starts | both missions in one runner after a restart, every point of a kill, a server started during a CLI run, an end before the watch has subscribed |
| Verification | is only verified code chosen, do verifications end? | 3 candidates of every quality, one with or without an older verdict; 2 slots, rankings up to 2 | one waits for a slot; a ghost or a duplicate beside a real entry; an older verdict that the new one agrees with, overwrites, or leaves |
| MergeArena | is the result green, present, and exactly what was merged since the last drop? | 3 winners, all conflicts, all green combinations, git commits or not | one merged before and one after a dropped one |
| Planning | are exactly the runnable plans accepted? | all plans up to 3 tasks | cycles of length 1 to 3, on and off the first path, and shared nodes |
| Sandboxes | have candidates what was committed and nothing else, do results survive? | either backend, 3 sandboxes, 2 edits, 1 change in the repository around them; symmetric | a parent, its fork and a stranger, or two broken ones and a good one; one edit committed and one not |
| Commands | is a zero true, is a call over when it is over, do calls end? | 2 commands on 1 thread, or 2 operations; one background process each | one call waits for the thread the other holds, before and after its timeout |
| Replay | are scenarios replayed in order and recordings as they were? | 2 recorded missions, 3 replies; a planner with 2 runs and 2 workers, 3 chats; 2 hand-written scenarios | missions recorded in each other's gaps, saved before and after; hand-written files of one and of two steps before and after the recorded ones, so that both are used up; a scenario left for another one and a third chat |

The type invariant of every module is `TypeOK`; only that of TaskPool is among the
runs' properties (it bounds the attempts), the others document the state.

Two runs check a sentence of the documentation that the code does not keep; each
ends with a counterexample, and `PROJECT.json` explains it under "findings":

| Run | What the counterexample shows |
|---|---|
| TaskPool_DoneTaskHasCandidate | a task is done although its agent handed in nothing |
| Mission_ResumedMissionSurvives | a mission killed after planning fails on restart, on its own task rows |

### Other divergences

Places where the modules behave as the code does and a document or a comment says
something else. No run is spent on them: each is visible in one or two definitions.

| Code | What it does | What is said |
|---|---|---|
| `workers.py:156`, `MayRetry` | a task runs up to three times | "2 attempts, then fail the task", `docs/ARCHITECTURE.md:80` |
| `workers.py:67`, `:88`, `GivesUp`, `CreateFails` | a failed task with dependents, or a worker lost before its try block, ends the mission | "the mission continues with the survivors", `docs/ARCHITECTURE.md:80`; "a worker crash must not kill the swarm", `workers.py:112` |
| `orchestrator.py:154`, `Rehydrated` | a task whose worker was killed after its submission is run once more: verifier and judge get the candidates of two runs, and if the last run crashes a task with a candidate is failed | "so a crashed run resumes", `docs/ARCHITECTURE.md:57` |
| `local_worktree.py:103`, `Committed` (Sandboxes, MergeArena) | the exit code of `git commit` is dropped: where git knows no user, or the summary is empty, a candidate is stored without the work that was to be committed, and the branch of a result is `main` | "Commit your work and submit it as a candidate solution for your task", `swarm_tools.py:23`; "Result: branch", `docs/ARCHITECTURE.md:102` |
| `verifier.py:65`, `Passed`, `Finish` | a verdict of null fails the candidate but leaves its row as it was (`db.py:247`): unset, or in a resumed mission what an earlier run wrote, "passed" perhaps | "unparseable verifier output falls back to pytest ground truth", `docs/ARCHITECTURE.md:87` |
| `merger.py:129`, `ResetArena` | dropping a winner resets the arena to main and wipes the winners merged before it, which stay listed as merged | "if it can't repair, the candidate is dropped", that one only, `docs/ARCHITECTURE.md:99` |
| `contree_backend.py:185`, `Exported` | a contree sandbox commits to `main`, so its diff against `main` is empty and so is every candidate | "candidates from either" backend "merge identically", `README.md:109` |
| `cli.py:38`, `BeginScripted` | with the mock, a mission whose plan fails is over before the watch subscribes, and the command never returns | "Run one mission to completion in the current terminal", `cli.py:9` |
| `proc.py:40`, `Drained` | after a timeout a text is added to bytes: `run_cmd` raises TypeError | the code 124 and "timed out after ...", on the same line |
| `proc.py:54`, `Killed` | the child leads no process group, so only it is killed | "kills the process tree on timeout", `proc.py:13` |
| `recording.py:49`, `OfRole` | two workers, or two missions of one process, are saved as one sequence; of two recorded missions the first file name wins | "One real run against Token Factory becomes an offline-replayable mock", `recording.py:3` |
| `merger.py:80`, `ApplyRed` | red tests drop the candidate | "Conflict or red tests → the merger agent", `docs/ARCHITECTURE.md:98` |
| `merger.py:110`, `ResolveGreen` | a conflict left unresolved in a file no test imports counts as merged, whatever the agent's answer | "If the conflict is irreconcilable, state so plainly in your final answer", `prompts/merger.md:13` |
| `orchestrator.py:151`, `StartServer` | takes over a mission a live CLI process is running | "so a crashed run resumes", `docs/ARCHITECTURE.md:57` |
| `orchestrator.py:62`, `PlanStored` | all missions of a server work in the repository of the first | "lazily seeded per mission", `orchestrator.py:30` |
| `routes_diff.py:27` | reads the runner's last repository | the diff of the mission asked for |
| `judge.py:63`, `WinnersOf` | without a marked winner, takes the first passing candidate | "highest-ranked passing candidate", `docs/ARCHITECTURE.md:93` |
| `mission.py:67`, `Odd` | an answer of an odd shape raises past the repair attempt | "one repair round-trip re-asks the model on invalid output", `docs/ARCHITECTURE.md:71` |
| `base.py:107`, `ReplyAnswer` | an answer cut by `max_tokens` is final | the loop ends on `stop_reason == "stop"`, `docs/ARCHITECTURE.md:45` |
| `base.py:79`, `ChatRaises` | a crashed agent's row stays "running" | "active workers pulse", `docs/ARCHITECTURE.md:108` |
| `local_worktree.py:59`, `Fork` | a fork lacks the parent's uncommitted work | "branching from your current state", `swarm_tools.py:16` |
| `local_worktree.py:48`, `:59`, `CreateBroken`, `SubmitBroken` | a refused branch name leaves a directory that is no worktree; its commits and its candidate are those of the repository around the sandbox root (`config.py:49`: the checkout Swarmforge runs from), of which everything uncommitted is committed too | "Each sandbox = a git worktree", `local_worktree.py:18` |

Deadlock checking is on for Planning, where the end is a step (`PlanEnded`): from no
plan can the search get stuck. It is off in the other runs, as each of those machines
really stops (a returned pool, an ended mission, a full bound).

## 4. Fairness

Liveness is checked where the code's own scheduling gives it:

* TaskPool and Verification: asyncio runs every ready coroutine. For Verification this
  is weak fairness of each; for TaskPool weak fairness of `Progress` as a whole is
  enough, as each pass and each worker only goes forward and runs are bounded
  (resumptions are not part of `Progress`: nothing makes a server die). And what
  coroutines await ends: HTTP requests have a 120 s timeout, commands a timeout in
  `run_cmd`, agents `max_steps`; the loop of the pool wakes every 0.25 s. A claim of *which* outcome an await has is never
  made: it may return or raise.
* Mission: weak fairness of `Progress` as a whole: the steps of runs, the watch and
  the start of a server that is down, of which some one goes on. Runs are finite
  and starts are bounded by `MaxStarts`, so nothing of it is starved.
  `MissionsEnd` speaks of the missions the server runs; a killed CLI process is not
  started again. Missions that two processes run at once are exempt.
* Commands: threads and coroutines run and timeouts fire. Nothing is assumed of
  commands, of what they start, or of the service; `CallsEnd` names what it needs of
  them as its antecedent: each background process lets go of the pipes some time,
  and each operation ends. Without it the code gives no bound, since neither the
  second `communicate` nor the poll has a limit. The models of the other components
  take `CallsEnd` for granted.
* EventFeed: EventSource reconnects by itself and a stream is scheduled when it
  has something to yield. Cuts are bounded, otherwise a page might be cut off for
  ever; nothing is assumed of publishers.

## 5. Proofs

Eight modules `...Proofs` prove theorems about all ten components for every value of
their constants: BackendProofs about Sandboxes and Commands, DecisionProofs about
Verification and Planning, the others about the module they are named after. Each
component has an inductive invariant (`IInv`; `CallsIInv` and `PlanIInv` for the second
of two): one lemma per kind of step shows that the step keeps it, another that it
always holds, and the theorems follow from it. TLC has checked each of these
invariants on the instance of its run, too.

What is assumed of the constants is named in the modules: finite sets of tasks,
candidates and calls; positive bounds where the code's are; `FromCli` a set of
missions; the winners of a merge a sequence without repetition; the ghost id of the
judge and the "none" of other modules outside the sets they extend. Of an answer it
is assumed that it is a list of tasks, of any length, with ids and dependencies of any
kind; of scenario files that they have natural numbers as names, the recorded ones
others than the hand-written ones, and finitely many steps. The
dependencies of TaskPool stay within a plan and may be cyclic, except in
`DeadlockIsCaused`.

| Module | Theorem | States |
|---|---|---|
| TaskPool | `TypeCorrect` | `TypeOK`: no row is claimed more than `MaxAttempts + 1` times, and once more for each resumption |
| | `WorkerUnique` | `OneWorkerPerTask` |
| | `WorkOnDoneDeps` | `DepsDoneWhileWorking` |
| | `ParallelismIsBounded` | `BoundedParallelism` |
| | `SubmissionIsLastUnlessKilled` | `RerunOnlyAfterKill` |
| | `RunIdsAreFresh` | `AgentIdsAreFresh` |
| | `FailureIsExhaustion` | `FailedOnlyAfterEveryRun` |
| | `DeadlockIsCaused` | `DeadlockHasCause`, for a plan without a cycle |
| | `SettledStays` | `SettledIsFinal`, which TLC sees as part of `ImplementsBoard` |
| | `PoolImplementsBoard` | `ImplementsBoard`, the refinement of TaskBoard |
| EventFeed | `PagesShowInOrder` | `ShownInOrder` |
| | `StreamLosesNothing` | `NothingLostInStream` |
| | `StreamImplementsFeed` | `ImplementsFeed`, the refinement of Feed |
| Mission | `OneTrueEvent` | `AnnouncedOnceAndTrue` |
| | `EndsOnce` | `TerminalIsFinal` |
| | `OneRepo` | `BuiltInOneRepo` |
| | `RowsAreFree` | `ResumedRowsAreFree` |
| Verification | `OnlyVerifiedWin` | `WinnersAreVerified` |
| | `StoredIsReturned` | `ReturnedIsStored` |
| | `OneIsPicked` | `JudgePicksOne` |
| MergeArena | `BranchIsGreen` | `ResultIsGreen` |
| | `BranchIsStretch` | `ResultIsLastStretch` |
| | `BranchExists` | `ResultBranchExists` |
| Sandboxes | `ResultStays` | `ResultSurvives` |
| | `CandidateIsWhole` | `LocalCandidateIsWhole` |
| AgentLoop | `RequestsAreAnswered` | `ConversationIsAnswered` |
| | `RowIsTrue` | `RowTellsResult` |
| | `KeepsContract` | `ImplementsContract`, the refinement of AgentContract |
| Commands | `ZeroTold` | `ZeroIsTrue` |
| | `EffectsInCall` | `EffectsBelongToCall` |
| Planning | `PlansAreAccepted` | `AcceptsExactlyPlans`: the search is right for every plan |
| | `SearchIsNeverStuck` | a search that is not over has a next step |
| | `SearchDescends` | each step leaves fewer tasks unvisited, or as many and fewer calls, or the same calls and a dependency less: the search ends |
| Replay | `ScenariosAreConsumedInOrder` | `StepsInOrder` |
| | `ScenariosAreLeftForGood` | `NeverBack` |
| | `RecordingsAreReplayed` | `SoleSessionIsReplayed` |

Every component has a `TypeCorrect` (`CallsTypeCorrect`, `PlanTypeCorrect`). The properties are not inductive as they stand; what
each `IInv` adds is why the code is right:

**TaskPool.** `OneWorkerPerTask`, say, survives a claim only because a row in status
ready has no worker, and that only because the run which put it back is over.

* `Started`: the runs of a task that have started are exactly those with a number
  below its attempts column, so a claim starts a run that never existed; a restart
  leaves the column alone, so this is true of resumed pools, too (`AgentIdsAreFresh`).
* `BusyRow`: a run that is at work has its row in status running, and its number
  is the last one: this makes the worker unique.
* `RunLeft`, `UsedUp`: a row that waits has a run left, one more than `MaxAttempts`
  allows for every resumption, and a failed one has none; `_retry_or_fail` compares the
  attempts value from before the claim.
* `DepsKept`: a row that left pending has its dependencies done. It is needed for
  retried rows, which go back to ready unchecked.
* `HandedIn`: a run that submitted is at work, or was killed, or has marked its task
  done and is the last run of it; the guard of `AgentCrashes` (no crash after a
  submission) is what `AgentContract` provides.
* `Unplanned`: the rows that are absent are those of plans to come, so a resumption
  never touches one that was settled.
* `BoundedParallelism`, `Drained`: the counting part, and that the loop was only
  left with every row settled.
* `RunningHasRun` (for `DeadlockIsCaused`): a row that says running has a worker or
  had one that was lost. When a pass gives up, a plan without a cycle has an
  unsettled task that waits for no unsettled one (`Acyclic` says it of every set of
  tasks, so no induction over the graph is needed); unless a dependency of it has
  failed it is running, and its run is lost. That accepted plans are `Acyclic`, for
  plans of any size, is the theorem `PlansAreAccepted` of Planning; MCTaskPool assumes it
  of its plan (`PlanIsValid`).

The refinement needs the invariant too: `BoardTick` maps a pass to
`TakeUp`, `Close` or a stutter, `BoardSettle` and `BoardWorkerStep` the workers.

**EventFeed.** `Page` follows an event from the table to the page. `WireGoesOn`:
frames on the wire ascend and go on from the last one received. `LastSent`:
the stream's `last_id` is the last frame it sent, over this connection or an
earlier one, which is what makes `Last-Event-ID` the right place to go on from.
`QueueFollowsSnapshot`: the rows of the snapshot that are left follow `last_id`
without a gap, and the queue is above all of them; this holds because nothing
runs between subscribing and reading the snapshot, and it makes the filter on
`last_id` a second line of defence. `Delivers` is `NothingLostInStream`. The
refinement (`FeedReceive`) uses all four: a frame that arrives is the least event
the page lacks, but for those of another process.

**Mission.** `Alone`, for a mission that one process runs: as long as the run works,
the row is not terminal (`WorkIsUnfinished`); the server or the command line runs
it, not both (`OneRuns`); there is no event before the row is terminal, nor while a
run stands between row and event (`EventFollowsRow`); from a start of the server's
run to the pool's first pass no row is claimed (`RowsFree`). A mission that was
taken over from a live process is exempt, as in the properties. `BuiltInOneRepo` is
inductive by itself: it speaks of all missions, taken over or not.

**Verification.** `VerdictOnce`: row and result are written together, once, on the way
to teardown, but for a null, and whatever the row said before; `PassedIsEarned`: "passed" was written for a green, unvetoed candidate;
`AllOut` and `JudgeIsLast`: results no longer change once the judge looks at them.
That `passing[0]` exists needs that every set of numbers has a least one
(`LeastNatural`).

**MergeArena.** `TodoIsRest` ties the loop to the list of winners, `TreeIsStretch` the
tree to the winners looked at since the last drop, and `TreeIsGreen` says that
between two winners the tests pass: a reset restores it, as main is green.
`GreenAlone` is what the verifier has established of each winner. `Unmade`: where git
knows no user the branch never leaves `main`, which is green as well.
`FirstMerges` is why `ResultBranchExists`: the first winner applies to main and is
green there, so that something is merged before anything is dropped.

**Sandboxes.** `OpenHoldsOwn`: a working tree is what its agent did on top of what it
was forked with, and contains the last commit. `UnmadeIsEmpty` and `ResultStands`
are what forks and shutdown need.

**AgentLoop.** `Answering` and `AskedFor` say of the whole conversation which message
answers which call; `Waiting` says that the calls still to be dispatched are the
last of the last reply, so that the next answer has its place. `HandsInLast` is
what the contract needs: a worker that has handed in does not ask the model again.
`Spent` counts replies against steps.

**Commands.** `Running`, `NotBegun`, `Unanswered` and `Closed` tie the state of a call to
that of its command: a local call is over only when the command has ended and its
pipes are closed, and no call has an answer before it is over.

**Planning.** The correctness of a depth-first search, without an induction over the
graph. `GrayIsOnPath`: the gray tasks are those on the stack, each once, and each is a
dependency of the one below it. So a gray dependency closes a cycle, and the tasks of
the stack from it upwards are a set in which each depends on another
(`BackEdgeIsCycle`): what is refused is no plan. `LookedAt`: what the loop of a call has
passed is black, or is the next call. `BlackIsSafe`: black tasks depend on black ones,
and every set of them has a member that depends on none of it. When a call ends, its
task joins them, and no set gains a cycle: nothing that was black depends on the new
task, and all it depends on was black. When every task is black `BlackIsSafe` is
`AcyclicPlan`. The invariant contains `AcceptsExactlyPlans` as a conjunct, for a
refusal must stay true of the answer while the repair is awaited. That as many ids
as tasks means distinct ids is `DistinctByLength`. That the search ends needs only that
the tasks are finitely many (`SearchIsFinite`).

**Replay.** `Numbered` and `SavedIsPrefix` are about the recording: the number of a reply
is its place among those of its session, and a saved file holds the replies of its role in
a first part of the list, whatever was recorded after. `Ascends`: in a run the
scenarios chosen are of ever more precedence, because what was heard stays heard and
files do not change; precedence is an order (`PrecedesIsOrder`), so there is no way back
(`NeverBack`). `Consumed` ties the cursor of a session in a file to the steps it was
given, and goes on counting when they are used up. `RecordingsAreReplayed` puts these
together: step k of a file is its k-th place (`KthExists`), and if all replies of the file
are of one session, the places up to it are that session's first k replies.

## 6. What is only model-checked, and what is left out

* Liveness (`PoolEnds`, `ReadyIsClaimed`, `PagesCatchUp`, `MissionsEnd`,
  `VerificationEnds`, `CliReturns`, `CallsEnd`): the prover has no fairness and no `ENABLED`.
  Every invariant, action property and refinement of a passing run is a theorem. That the
  search of Planning ends is one, too, in the form of `SearchIsNeverStuck` and
  `SearchDescends`; the step from these to a liveness property is not taken.

Abstractions to know of:

* The store and the bus do not fail. Cancellation other than that of the final
  gather and of a killed process is not modelled.
* With the local backend `create` raises only when no repository was assigned or
  git is missing; with contree any HTTP error does. TaskPool allows it always.
* MergeArena: tests are deterministic, `main` is green, each winner is green alone
  (the verifier saw it so), and the agent touches the hunks of its candidate
  only. Git commits for a user it knows and for no other, during the whole merge. The
  patch file the merger writes into the arena is committed with the
  result and not modelled.
* Verification: an answer of the agent is true (or without the field, or no JSON),
  false, or null. Of other values of the field, 0 and "" count as false in the code
  and most others, such as the text "false", as true; a list or an object cannot be
  stored, which raises and fails the candidate (`Crashes`).
* Mission: the inside of the stages. `claimed` stands for the task rows: it is set
  when the pool starts and cleared when it returns, since `run_until_done` returns only
  when every row is done or failed. For the server `Begin` lets other
  coroutines run while the planner works, with the mock too. A run taken over by another process can also find its repository directory
  removed by `make_repo`.
* Sandboxes: one process. A commit is made wholly or not at all, for whatever reason.
  What is in the repository around the sandboxes is what is committed there since its
  own `main`, and its user commits nothing meanwhile. The teardown of a broken sandbox
  removes nothing, as git knows no such worktree (`left`). A fork gets no tools of its
  own in the code, so nothing works in it; the model lets its holder work, which the
  protocol class allows.
* EventFeed: ids are consecutive per mission; the page's cap of 600 events is left
  out.
* Commands: a command leaves at most one process behind. Exit codes other than
  zero are one value. Output and its truncation are left out.
* Planning: no plan is so deep that the recursion of `visit` meets Python's limit (a
  RecursionError would end the mission as an odd answer does).
* Replay: hand-written scenarios need a needle and name a role; a needle once heard in a run stays, since conversations only
  grow. Replies are not looked into, so agents take turns in any order. The first
  eight characters of a mission's id are taken as unique, and their order as
  that of the file names; a hand-written file with only a role, or none, is left
  out.
* AgentLoop: the planner's second run is allowed after any answer, since whether
  the first plan was valid is Planning's matter.

## 7. Plan

Done, in this order: TaskPool with its board and its proofs, EventFeed with its
feed, MergeArena, Mission, Verification, Planning, Sandboxes, AgentLoop with its
contract, Commands, Replay, and in Mission the rows of a resumed mission and the
command line's watch.

The theorems of section 5 are done: every safety and action property of these modules
that a run checks, and the three refinements.

Next:

1. **Takeover**: TaskPool with two processes on one task table, for rows that are
   reset to ready while a live process works on them.
2. **Recorded mixtures**: what a replay gives two sessions of one role that were
   recorded in turns (finding of section 3), as an abstract specification of the
   recording.
