---------------------------- MODULE MissionProofs ----------------------------
(* Proofs about Mission, for any number of missions, whichever of them the
   command line started, and any number of starts of the server.             *)
EXTENDS Mission, TLAPS

Before == {"started", "planning", "seeding"}  \* phases before the pool's first pass

(* A process that is still working on a mission has not seen it end. *)
WorkIsUnfinished(m) ==
  \A h \in Hosts : run[h][m] \in Before \cup Active => status[m] \notin {"absent"} \cup Terminal

(* One process runs a mission. *)
OneRuns(m) == run["server"][m] = "idle" \/ run["cli"][m] = "idle"

(* Before create_mission there is nothing of a mission. *)
Untouched(m) ==
  status[m] = "absent" =>
    (\A h \in Hosts : run[h][m] = "idle") /\ ~claimed[m] /\ announced[m] = <<>>

(* The event follows the row: none before it is terminal, nor while the run
   stands between the two, and then the row says what the event will.        *)
EventFollowsRow(m) ==
  /\ status[m] \notin Terminal => announced[m] = <<>>
  /\ \A h \in Hosts : run[h][m] \in Terminal => status[m] = run[h][m] /\ announced[m] = <<>>
  /\ announced[m] \in {<<>>} \cup {<<s>> : s \in Terminal \cap {status[m]}}

(* The rows are free from the start of a server's run to the pool's first pass. *)
RowsFree(m) == run["server"][m] \in Before => ~claimed[m]

Alone(m) == WorkIsUnfinished(m) /\ OneRuns(m) /\ EventFollowsRow(m) /\ RowsFree(m)

Runs ==
  /\ ~serverUp => run["server"] = Idle
  /\ \A m \in Missions : Untouched(m)
  /\ \A m \in Missions \ shared : Alone(m)

IInv == TypeOK /\ Runs /\ BuiltInOneRepo

-----------------------------------------------------------------------------
(* Lemmas.                                                                  *)

LEMMA ActiveIs == Active = {"executing", "verifying", "judging", "merging"}
<1>1. 1..Len(Stages) = {1, 2, 3, 4}
  BY DEF Stages
<1>. QED  BY <1>1 DEF Active, Stages

LEMMA StageIs ==
  ASSUME NEW i \in 1..Len(Stages), i < Len(Stages)
  PROVE  Stages[i] \in Active /\ Stages[i + 1] \in Active
BY ActiveIs DEF Stages

LEMMA IInvInit == Init => IInv
<1> SUFFICES ASSUME Init PROVE IInv
  OBVIOUS
<1>1. TypeOK
  <2>1. announced \in [Missions -> Seq(Terminal)]
    BY DEF Init
  <2>2. run \in [Hosts -> [Missions -> Phases]]
    BY DEF Init, Idle, Phases
  <2>3. status \in [Missions -> {"absent"}] /\ error \in [Missions -> {"none"}]
    BY DEF Init
  <2>4. stored \in [Missions -> BOOLEAN] /\ claimed \in [Missions -> BOOLEAN]
    BY DEF Init
  <2>5. builtIn \in [Missions -> Repos] /\ watch \in [Missions -> {"off"}]
    BY DEF Init, Repos
  <2>6. starts = 0 /\ 0 \in 0..MaxStarts
    BY StartsAssumption DEF Init
  <2>8. serverUp = FALSE /\ shared = {} /\ scripted \in BOOLEAN
    BY Zenon DEF Init
  <2>7. runnerRepo = None /\ backendRepo = None /\ None \in Repos
    BY DEF Init, Repos
  <2>. QED  BY <2>1, <2>2, <2>3, <2>4, <2>5, <2>6, <2>7, <2>8 DEF TypeOK
<1>2. Runs
  BY ActiveIs DEF Init, Runs, Hosts, Terminal, Idle, Untouched, Alone, Before, WorkIsUnfinished,
     OneRuns, EventFollowsRow, RowsFree
<1>3. BuiltInOneRepo
  BY ActiveIs DEF Init, BuiltInOneRepo, Idle, Hosts
<1>. QED  BY <1>1, <1>2, <1>3 DEF IInv

LEMMA EnterType ==
  ASSUME TypeOK, NEW h \in Hosts, NEW m \in Missions, NEW p \in Phases, Enter(h, m, p)
  PROVE  run' \in [Hosts -> [Missions -> Phases]]
BY DEF Enter, TypeOK

(* A step leaves alone the missions whose rows, events and runs it keeps. *)
LEMMA OtherStays ==
  ASSUME NEW n \in Missions, Alone(n), \A g \in Hosts : run'[g][n] = run[g][n],
         status'[n] = status[n], announced'[n] = announced[n], claimed'[n] = claimed[n]
  PROVE  Alone(n)'
BY DEF Alone, WorkIsUnfinished, OneRuns, EventFollowsRow, RowsFree, Hosts

(* A run that works writes its mission's row and goes on, or ends with it. *)
LEMMA Advance ==
  ASSUME IInv, NEW h \in Hosts, NEW m \in Missions,
         NEW p \in Before \cup Active \cup Terminal,
         NEW s \in {"planning", "spawning"} \cup Active \cup Terminal,
         IF p \in Terminal THEN s = p ELSE s \notin Terminal,
         run[h][m] \in Before \cup Active,
         Enter(h, m, p), Write(m, s),
         \A n \in Missions \ {m} : claimed'[n] = claimed[n],
         p \in Before => run[h][m] \in Before /\ claimed'[m] = claimed[m],
         UNCHANGED <<announced, shared, serverUp>>
  PROVE  Runs'
<1>1. (~serverUp => run["server"] = Idle)'
  BY ActiveIs DEF IInv, TypeOK, Runs, Enter, Idle, Before
<1>2. ASSUME NEW n \in Missions PROVE Untouched(n)'
  <2>1. CASE n = m
    <3>. status'[m] = s /\ s # "absent"
      BY ActiveIs DEF IInv, TypeOK, Write, Terminal
    <3>. QED  BY <2>1 DEF Untouched
  <2>2. CASE n # m
    BY <2>2 DEF IInv, TypeOK, Runs, Enter, Write, Untouched
  <2>. QED  BY <2>1, <2>2
<1>3. ASSUME NEW n \in Missions \ shared, n # m PROVE Alone(n)'
  BY <1>3, OtherStays DEF IInv, TypeOK, Runs, Enter, Write
<1>4. ASSUME m \notin shared PROVE Alone(m)'
  <2>. /\ \A g \in Hosts : run'[g][m] = IF g = h THEN p ELSE run[g][m]
       /\ status'[m] = s /\ announced'[m] = announced[m]
    BY DEF IInv, TypeOK, Enter, Write
  <2>1. announced[m] = <<>> /\ \A g \in Hosts : g # h => run[g][m] = "idle"
    BY <1>4, ActiveIs DEF IInv, Runs, Alone, WorkIsUnfinished, OneRuns, EventFollowsRow, Hosts,
       Before
  <2>2. s # "absent"
    BY ActiveIs DEF Terminal
  <2>3. WorkIsUnfinished(m)'
    BY <2>1, <2>2, ActiveIs DEF WorkIsUnfinished, Before, Terminal
  <2>4. OneRuns(m)'
    BY <2>1 DEF OneRuns, Hosts
  <2>5. EventFollowsRow(m)'
    BY <2>1 DEF EventFollowsRow, Terminal
  <2>6. RowsFree(m)'
    BY <1>4, <2>1 DEF IInv, Runs, Alone, RowsFree, Hosts, Before
  <2>. QED  BY <2>3, <2>4, <2>5, <2>6 DEF Alone
<1>. QED  BY <1>1, <1>2, <1>3, <1>4 DEF Runs

(* BuiltInOneRepo survives whatever leaves the repositories alone and adds no
   run to the server's that build sandboxes.                                 *)
LEMMA NoneBuilds ==
  ASSUME IInv, UNCHANGED <<backendRepo, builtIn>>,
         \A n \in Missions : run'["server"][n] \in Active => run["server"][n] \in Active
  PROVE  BuiltInOneRepo'
BY DEF IInv, BuiltInOneRepo

-----------------------------------------------------------------------------
(* Every step keeps the invariant.                                          *)

LEMMA IInvBegin ==
  ASSUME IInv, NEW h \in Hosts, NEW m \in Missions, Begin(h, m)
  PROVE  IInv'
<1>1. TypeOK'
  BY DEF Begin, Write, Enter, IInv, TypeOK, Phases, server, cli
<1>2. Runs'
  BY Advance DEF Begin, IInv, TypeOK, Before, server
<1>3. BuiltInOneRepo'
  BY NoneBuilds, ActiveIs DEF Begin, Enter, IInv, TypeOK, server
<1>. QED  BY <1>1, <1>2, <1>3 DEF IInv

LEMMA IInvReturns ==
  ASSUME IInv, NEW h \in Hosts, NEW m \in Missions, NEW i \in 1..Len(Stages), StageReturns(h, m, i)
  PROVE  IInv'
<1>. Stages[i] \in Active /\ Stages[i + 1] \in Active
  BY StageIs DEF StageReturns
<1>1. TypeOK'
  BY DEF StageReturns, Write, Enter, Free, IInv, TypeOK, Phases, server, cli
<1>2. Runs'
  BY Advance, ActiveIs DEF StageReturns, Free, IInv, TypeOK, Before, server
<1>3. BuiltInOneRepo'
  BY NoneBuilds DEF StageReturns, Enter, IInv, TypeOK, server
<1>. QED  BY <1>1, <1>2, <1>3 DEF IInv

LEMMA IInvMerged ==
  ASSUME IInv, NEW h \in Hosts, NEW m \in Missions, MergeReturns(h, m)
  PROVE  IInv'
<1>1. TypeOK'
  BY DEF MergeReturns, Write, Enter, Free, IInv, TypeOK, Phases, Terminal, server, cli
<1>2. Runs'
  BY Advance, ActiveIs DEF MergeReturns, Free, IInv, TypeOK, Before, Terminal, server
<1>3. BuiltInOneRepo'
  BY NoneBuilds, ActiveIs DEF MergeReturns, Enter, IInv, TypeOK, server
<1>. QED  BY <1>1, <1>2, <1>3 DEF IInv

LEMMA IInvFails ==
  ASSUME IInv, NEW h \in Hosts, NEW m \in Missions, PlanClashes(h, m) \/ StageRaises(h, m)
  PROVE  IInv'
<1>1. TypeOK'
  BY EnterType DEF PlanClashes, StageRaises, Fail, Write, Free, IInv, TypeOK, Phases, Terminal,
     server, cli
<1>2. Runs'
  BY Advance DEF PlanClashes, StageRaises, Fail, Free, IInv, TypeOK, Before, Terminal, server
<1>3. BuiltInOneRepo'
  BY NoneBuilds, ActiveIs DEF PlanClashes, StageRaises, Fail, Enter, IInv, TypeOK, Hosts, server
<1>. QED  BY <1>1, <1>2, <1>3 DEF IInv

LEMMA IInvExecute ==
  ASSUME IInv, NEW h \in Hosts, NEW m \in Missions, NEW repo \in Missions,
         run[h][m] \in {"planning", "seeding"}, Execute(h, m, repo),
         stored' \in [Missions -> BOOLEAN], UNCHANGED <<error, announced, shared>>
  PROVE  IInv'
<1>1. TypeOK'
  <2>1. /\ run' \in [Hosts -> [Missions -> Phases]]
        /\ status' \in [Missions -> {"absent", "planning", "spawning"} \cup Active \cup Terminal]
    BY EnterType, ActiveIs DEF Execute, Write, IInv, TypeOK, Phases
  <2>2. /\ runnerRepo' \in Repos /\ backendRepo' \in Repos
        /\ runnerRepo' = None <=> backendRepo' = None
        /\ builtIn' \in [Missions -> Repos]
    BY NoneAssumption DEF Execute, BackendRepo, IInv, TypeOK, Repos
  <2>. QED  BY <2>1, <2>2 DEF Execute, IInv, TypeOK, cli
<1>2. Runs'
  BY Advance, ActiveIs DEF Execute, IInv, TypeOK, Before
<1>3. BuiltInOneRepo'
  BY NoneAssumption DEF Execute, BackendRepo, Enter, IInv, TypeOK, BuiltInOneRepo
<1>. QED  BY <1>1, <1>2, <1>3 DEF IInv

(* The plan is stored, and the run suspends in make_repo or goes on. *)
LEMMA IInvPlanStored ==
  ASSUME IInv, NEW h \in Hosts, NEW m \in Missions, PlanStored(h, m)
  PROVE  IInv'
<1>1. CASE h = "server" /\ runnerRepo # None
  BY <1>1, IInvExecute DEF PlanStored, IInv, TypeOK, Repos
<1>2. CASE ~(h = "server" /\ runnerRepo # None)
  <2>1. TypeOK'
    BY <1>2, EnterType DEF PlanStored, Write, IInv, TypeOK, Phases, server, cli
  <2>2. Runs'
    BY <1>2, Advance DEF PlanStored, IInv, TypeOK, Before, Terminal, server
  <2>3. BuiltInOneRepo'
    BY <1>2, NoneBuilds, ActiveIs DEF PlanStored, Enter, IInv, TypeOK, Hosts, server
  <2>. QED  BY <2>1, <2>2, <2>3 DEF IInv
<1>. QED  BY <1>1, <1>2

LEMMA IInvSeeded ==
  ASSUME IInv, NEW h \in Hosts, NEW m \in Missions, Seeded(h, m)
  PROVE  IInv'
BY IInvExecute DEF Seeded, IInv, TypeOK

LEMMA IInvScripted ==
  ASSUME IInv, NEW m \in Missions, BeginScripted(m)
  PROVE  IInv'
<1>1. TypeOK'
  <2>1. run' \in [Hosts -> [Missions -> Phases]]
    BY EnterType DEF BeginScripted, IInv, Phases, Hosts
  <2>2. announced' \in [Missions -> Seq(Terminal)]
    <3>. Append(announced[m], "failed") \in Seq(Terminal)
      BY DEF IInv, TypeOK, Terminal
    <3>. QED  BY DEF BeginScripted, IInv, TypeOK
  <2>3. error' \in [Missions -> {"none", "clash", "stage"}]
    BY DEF BeginScripted, IInv, TypeOK
  <2>4. stored' \in [Missions -> BOOLEAN] /\ claimed' \in [Missions -> BOOLEAN]
    BY DEF BeginScripted, Free, IInv, TypeOK
  <2>. QED  BY <2>1, <2>2, <2>3, <2>4 DEF BeginScripted, Write, IInv, TypeOK, Terminal, server,
               cli
<1>2. Runs'
  <2>1. (~serverUp => run["server"] = Idle)'
    BY DEF BeginScripted, Enter, IInv, TypeOK, Runs, Hosts, server
  <2>2. (\A n \in Missions : Untouched(n))'
    BY DEF BeginScripted, Write, Enter, Free, IInv, TypeOK, Runs, Hosts, Untouched, cli
  <2>3. (\A n \in Missions \ shared : Alone(n))'
    <3>1. ASSUME NEW n \in Missions \ shared, n # m PROVE Alone(n)'
      <4>1. status'[n] = status[n] /\ announced'[n] = announced[n] /\ claimed'[n] = claimed[n]
        BY <3>1 DEF BeginScripted, Write, Free, IInv, TypeOK
      <4>2. \A g \in Hosts : run'[g][n] = run[g][n]
        <5>1. \E p : Enter("cli", m, p)
          BY DEF BeginScripted
        <5>. QED  BY <3>1, <5>1 DEF Enter, IInv, TypeOK
      <4>. QED  BY <4>1, <4>2, OtherStays DEF IInv, Runs
    <3>2. ASSUME m \notin shared PROVE Alone(m)'
      <4>1. run["server"][m] = "idle" /\ announced[m] = <<>>
        BY <3>2 DEF BeginScripted, IInv, Runs, Alone, WorkIsUnfinished, OneRuns, EventFollowsRow,
           Before, Hosts
      <4>2. CASE Write(m, "spawning") /\ Enter("cli", m, "seeding") /\ UNCHANGED announced
        BY <4>1, <4>2 DEF Write, Enter, IInv, TypeOK, Hosts, Alone, WorkIsUnfinished, OneRuns,
           EventFollowsRow, RowsFree, Before, Terminal
      <4>3. CASE /\ Write(m, "failed") /\ Enter("cli", m, "idle")
                 /\ announced' = [announced EXCEPT ![m] = Append(@, "failed")]
        <5>1. announced'[m] = <<"failed">> /\ status'[m] = "failed"
          BY <4>1, <4>3 DEF Write, IInv, TypeOK
        <5>2. \A h \in Hosts : run'[h][m] = "idle"
          BY <4>1, <4>3 DEF Enter, IInv, TypeOK, Hosts
        <5>. QED  BY <5>1, <5>2, ActiveIs DEF Hosts, Alone, WorkIsUnfinished, OneRuns,
                     EventFollowsRow, RowsFree, Before, Terminal
      <4>. QED  BY <4>2, <4>3 DEF BeginScripted
    <3>. QED  BY <3>1, <3>2 DEF BeginScripted
  <2>. QED  BY <2>1, <2>2, <2>3 DEF Runs
<1>3. BuiltInOneRepo'
  BY NoneBuilds DEF BeginScripted, Enter, IInv, TypeOK, Hosts, server
<1>. QED  BY <1>1, <1>2, <1>3 DEF IInv

(* The event of the row that has just been written. *)
LEMMA IInvAnnounce ==
  ASSUME IInv, NEW h \in Hosts, NEW m \in Missions, Announce(h, m)
  PROVE  IInv'
<1>1. TypeOK'
  BY DEF Announce, Enter, IInv, TypeOK, Phases, server
<1>2. Runs'
  <2>1. (~serverUp => run["server"] = Idle)'
    BY DEF Announce, Enter, Idle, IInv, TypeOK, Runs, Hosts, server
  <2>2. (\A n \in Missions : Untouched(n))'
    BY DEF Announce, Enter, IInv, TypeOK, Runs, Untouched, Terminal
  <2>3. (\A n \in Missions \ shared : Alone(n))'
    <3>1. ASSUME NEW n \in Missions \ shared, n # m PROVE Alone(n)'
      BY <3>1, OtherStays DEF Announce, Enter, IInv, TypeOK, Runs
    <3>2. ASSUME m \notin shared PROVE Alone(m)'
      <4>1. /\ \A g \in Hosts : g # h => run[g][m] = "idle"
            /\ status[m] = run[h][m] /\ announced[m] = <<>>
        BY <3>2 DEF Announce, IInv, Runs, Alone, OneRuns, EventFollowsRow, Terminal, Hosts
      <4>2. announced'[m] = <<status[m]>> /\ status'[m] = status[m] /\ status[m] \in Terminal
        BY <4>1 DEF Announce, IInv, TypeOK
      <4>3. \A g \in Hosts : run'[g][m] = "idle"
        BY <4>1 DEF Announce, Enter, IInv, TypeOK
      <4>. QED  BY <4>2, <4>3, ActiveIs DEF Hosts, Alone, WorkIsUnfinished, OneRuns,
                   EventFollowsRow, RowsFree, Before, Terminal
    <3>. QED  BY <3>1, <3>2 DEF Announce
  <2>. QED  BY <2>1, <2>2, <2>3 DEF Runs
<1>3. BuiltInOneRepo'
  BY NoneBuilds, ActiveIs DEF Announce, Enter, IInv, TypeOK, server
<1>. QED  BY <1>1, <1>2, <1>3 DEF IInv

LEMMA IInvCreate ==
  ASSUME IInv, NEW h \in Hosts, NEW m \in Missions, Create(h, m)
  PROVE  IInv'
<1>1. TypeOK'
  BY DEF Create, IInv, TypeOK, Phases, server
<1>2. Runs'
  <2>1. (~serverUp => run["server"] = Idle)'
    BY DEF Create, IInv, TypeOK, Runs, server
  <2>2. (\A n \in Missions : Untouched(n))'
    BY DEF Create, IInv, TypeOK, Runs, Untouched
  <2>3. (\A n \in Missions \ shared : Alone(n))'
    BY DEF Create, IInv, TypeOK, Runs, Hosts, Alone, WorkIsUnfinished, OneRuns, EventFollowsRow,
       RowsFree, Untouched, Terminal
  <2>. QED  BY <2>1, <2>2, <2>3 DEF Runs
<1>3. BuiltInOneRepo'
  BY NoneBuilds, ActiveIs DEF Create, IInv, TypeOK, server
<1>. QED  BY <1>1, <1>2, <1>3 DEF IInv

(* The server starts and rehydrates: it resets rows and runs what is unfinished. *)
LEMMA IInvStart ==
  ASSUME IInv, StartServer
  PROVE  IInv'
<1>1. TypeOK'
  BY StartsAssumption DEF StartServer, Unfinished, IInv, TypeOK, Phases, Hosts, cli
<1>2. Runs'
  <2>1. (~serverUp => run["server"] = Idle)'
    BY DEF StartServer, IInv, TypeOK
  <2>2. (\A n \in Missions : Untouched(n))'
    BY DEF StartServer, Unfinished, IInv, TypeOK, Runs, Untouched
  <2>3. (\A n \in Missions \ shared : Alone(n))'
    BY ActiveIs DEF StartServer, Unfinished, Rehydrated, IInv, TypeOK, Runs, Alone,
       WorkIsUnfinished, OneRuns, EventFollowsRow, RowsFree, Before, Terminal
  <2>. QED  BY <2>1, <2>2, <2>3 DEF Runs
<1>3. BuiltInOneRepo'
  BY NoneBuilds, ActiveIs DEF StartServer, IInv, TypeOK
<1>. QED  BY <1>1, <1>2, <1>3 DEF IInv

(* The server is killed, with all its runs. *)
LEMMA IInvStop ==
  ASSUME IInv, StopServer
  PROVE  IInv'
<1>1. TypeOK'
  <2>1. Idle \in [Missions -> Phases] /\ None \in Repos
    BY DEF Idle, Phases, Repos
  <2>2. run' \in [Hosts -> [Missions -> Phases]]
    BY <2>1 DEF StopServer, IInv, TypeOK
  <2>. QED  BY <2>1, <2>2 DEF StopServer, IInv, TypeOK, cli, db
<1>2. Runs'
  <2>1. (~serverUp => run["server"] = Idle)'
    BY DEF StopServer, IInv, TypeOK, Hosts
  <2>2. (\A n \in Missions : Untouched(n))'
    BY DEF StopServer, IInv, TypeOK, Runs, Idle, Untouched, db
  <2>3. (\A n \in Missions \ shared : Alone(n))'
    BY ActiveIs DEF StopServer, IInv, TypeOK, Runs, Idle, Alone, WorkIsUnfinished, OneRuns,
       EventFollowsRow, RowsFree, Before, Terminal, db
  <2>. QED  BY <2>1, <2>2, <2>3 DEF Runs
<1>3. BuiltInOneRepo'
  BY ActiveIs DEF StopServer, BuiltInOneRepo, Idle, IInv, TypeOK, Hosts
<1>. QED  BY <1>1, <1>2, <1>3 DEF IInv

LEMMA IInvKill ==
  ASSUME IInv, NEW m \in Missions, KillCli(m)
  PROVE  IInv'
<1>. Enter("cli", m, "idle")
  BY DEF KillCli, Enter
<1>1. TypeOK'
  BY DEF KillCli, IInv, TypeOK, Phases, server, db
<1>2. Runs'
  <2>1. (~serverUp => run["server"] = Idle)'
    BY DEF KillCli, IInv, TypeOK, Runs, server
  <2>2. (\A n \in Missions : Untouched(n))'
    BY DEF KillCli, IInv, TypeOK, Runs, Untouched, db
  <2>3. ASSUME NEW n \in Missions \ shared PROVE Alone(n)'
    <3>. \A g \in Hosts : run'[g][n] \in {"idle", run[g][n]}
      BY DEF KillCli, IInv, TypeOK
    <3>. QED  BY DEF KillCli, IInv, Runs, Alone, WorkIsUnfinished, OneRuns, EventFollowsRow,
                 RowsFree, Hosts, db
  <2>. QED  BY <2>1, <2>2, <2>3 DEF Runs, KillCli
<1>3. BuiltInOneRepo'
  BY NoneBuilds DEF KillCli, IInv, TypeOK, server
<1>. QED  BY <1>1, <1>2, <1>3 DEF IInv

LEMMA IInvStutter ==
  ASSUME IInv, UNCHANGED <<db, run, server, shared>>,
         watch' \in [Missions -> {"off", "due", "subscribed", "over"}], scripted' \in BOOLEAN
  PROVE  IInv'
<1>1. TypeOK'
  BY DEF IInv, TypeOK, db, server
<1>2. Runs'
  BY DEF IInv, Runs, Untouched, Alone, WorkIsUnfinished, OneRuns, EventFollowsRow, RowsFree, db,
     server
<1>3. BuiltInOneRepo'
  BY DEF IInv, BuiltInOneRepo, server
<1>. QED  BY <1>1, <1>2, <1>3 DEF IInv

LEMMA IInvStep == IInv /\ [Next]_vars => IInv'
<1> SUFFICES ASSUME IInv, [Next]_vars PROVE IInv'
  OBVIOUS
<1>1. CASE UNCHANGED vars
  BY <1>1, IInvStutter DEF vars, cli, IInv, TypeOK
<1>2. ASSUME NEW m \in Missions, Watch(m) PROVE IInv'
  BY <1>2, IInvStutter DEF Watch, IInv, TypeOK
<1>3. ASSUME NEW m \in Missions, NEW h \in Hosts, RunStep(h, m) PROVE IInv'
  BY <1>3, IInvBegin, IInvScripted, IInvPlanStored, IInvSeeded, IInvReturns, IInvMerged,
     IInvFails, IInvAnnounce DEF RunStep
<1>. QED  BY <1>1, <1>2, <1>3, IInvStart, IInvStop, IInvKill, IInvCreate DEF Next

(* The invariant holds over every interleaving of missions, kills and starts. *)
THEOREM Inductive == Spec => []IInv
BY IInvInit, IInvStep, PTL DEF Spec

(* Every variable keeps its type. *)
THEOREM TypeCorrect == Spec => []TypeOK
<1>1. IInv => TypeOK
  BY DEF IInv
<1>. QED  BY <1>1, Inductive, PTL

(* run_mission writes the row before it publishes: a mission gets at most one
   terminal event and it is the one of its status, over any kills and restarts,
   as long as one process runs it.                                           *)
THEOREM OneTrueEvent == Spec => []AnnouncedOnceAndTrue
<1>1. IInv => AnnouncedOnceAndTrue
  BY DEF IInv, Runs, Alone, EventFollowsRow, AnnouncedOnceAndTrue
<1>. QED  BY <1>1, Inductive, PTL

(* The shared runner and backend of the server give all sandboxes of a mission
   the repository its pool started with.                                     *)
THEOREM OneRepo == Spec => []BuiltInOneRepo
<1>1. IInv => BuiltInOneRepo
  BY DEF IInv
<1>. QED  BY <1>1, Inductive, PTL

(* No step of a process that runs a mission alone, and no restart, moves it out
   of "done" or "failed".                                                    *)
LEMMA FinalStep ==
  ASSUME IInv, [Next]_vars, NEW m \in Missions \ shared', status[m] \in Terminal
  PROVE  status'[m] = status[m]
<1>1. shared \subseteq shared'
  BY DEF Next, vars, RunStep, Begin, BeginScripted, PlanStored, Seeded, StageReturns,
     MergeReturns, PlanClashes, StageRaises, Fail, Announce, Create, StartServer, StopServer,
     KillCli, Watch
<1>2. status[m] # "absent" /\ \A h \in Hosts : run[h][m] \notin Before \cup Active
  BY <1>1 DEF IInv, Runs, Alone, WorkIsUnfinished, Terminal
<1>3. ASSUME NEW n \in Missions, NEW h \in Hosts, RunStep(h, n) PROVE status'[m] = status[m]
  <2>1. CASE n = m
    <3>. ~Begin(h, m) /\ ~(h = "cli" /\ BeginScripted(m)) /\ ~PlanStored(h, m) /\ ~PlanClashes(h, m)
      BY <1>2 DEF Begin, BeginScripted, PlanStored, PlanClashes, Before
    <3>. ~Seeded(h, m) /\ ~MergeReturns(h, m) /\ ~StageRaises(h, m)
      BY <1>2, ActiveIs DEF Seeded, MergeReturns, StageRaises, Before
    <3>. ASSUME NEW i \in 1..Len(Stages) PROVE ~StageReturns(h, m, i)
      BY <1>2, StageIs DEF StageReturns
    <3>. QED  BY <1>3, <2>1 DEF RunStep, Announce
  <2>2. CASE n # m
    BY <1>3, <2>2 DEF IInv, TypeOK, RunStep, Write, Begin, BeginScripted, PlanStored, Execute,
       Seeded, StageReturns, MergeReturns, PlanClashes, StageRaises, Fail, Announce
  <2>. QED  BY <2>1, <2>2
<1>4. ASSUME NEW n \in Missions, NEW h \in Hosts, Create(h, n) PROVE status'[m] = status[m]
  BY <1>2, <1>4 DEF Create, IInv, TypeOK
<1>. QED  BY <1>3, <1>4 DEF Next, vars, db, StartServer, StopServer, KillCli, Watch

(* A mission that one process runs keeps its terminal status, through kills and
   rehydrations: the rule of state_machine.py that no code consults.         *)
THEOREM EndsOnce == Spec => TerminalIsFinal
<1>1. IInv /\ [Next]_vars =>
        [\A m \in Missions \ shared' : status[m] \in Terminal => status'[m] = status[m]]_vars
  BY FinalStep
<1>. QED  BY <1>1, Inductive, PTL DEF Spec, TerminalIsFinal

(* The pool of a mission the server takes up again, alone, finds no row that a
   former run left claimed or running.                                       *)
LEMMA ExecuteStep ==
  ASSUME IInv, [Next]_vars, NEW m \in Missions \ shared',
         run'["server"][m] = "executing", run["server"][m] # "executing"
  PROVE  ~claimed[m]
<1>1. shared \subseteq shared'
  BY DEF Next, vars, RunStep, Begin, BeginScripted, PlanStored, Seeded, StageReturns,
     MergeReturns, PlanClashes, StageRaises, Fail, Announce, Create, StartServer, StopServer,
     KillCli, Watch
<1>2. run["server"][m] \in Before
  <2>1. ASSUME NEW n \in Missions, NEW h \in Hosts, RunStep(h, n)
        PROVE  h = "server" /\ n = m
    BY <2>1 DEF IInv, TypeOK, Hosts, RunStep, Enter, Begin, BeginScripted, PlanStored, Execute,
       Seeded, StageReturns, MergeReturns, PlanClashes, StageRaises, Fail, Announce
  <2>2. ASSUME RunStep("server", m) PROVE run["server"][m] \in Before
    <3>1. \A i \in 1..Len(Stages) : i < Len(Stages) => Stages[i + 1] # "executing"
      BY DEF Stages
    <3>. QED  BY <2>2, <3>1 DEF IInv, TypeOK, Hosts, Before, RunStep, Enter, Begin, PlanStored,
                 Seeded, StageReturns, MergeReturns, PlanClashes, StageRaises, Fail, Announce
  <2>3. \A n \in Missions : ~KillCli(n) /\ ~Watch(n)
    BY DEF KillCli, Watch, IInv, TypeOK, Hosts
  <2>4. \A n \in Missions, h \in Hosts : ~Create(h, n)
    BY DEF Create, IInv, TypeOK, Hosts
  <2>5. ~StartServer /\ ~StopServer /\ ~UNCHANGED vars
    BY DEF StartServer, StopServer, Idle, vars, IInv, TypeOK, Hosts
  <2>. QED  BY <2>1, <2>2, <2>3, <2>4, <2>5 DEF Next
<1>. QED  BY <1>1, <1>2 DEF IInv, Runs, Alone, RowsFree

(* When the server resumes a mission alone, no task row still says claimed or
   running as its pool starts.                                               *)
THEOREM RowsAreFree == Spec => ResumedRowsAreFree
<1>1. IInv /\ [Next]_vars =>
        [\A m \in Missions \ shared' :
           run'["server"][m] = "executing" /\ run["server"][m] # "executing" => ~claimed[m]]_vars
  BY ExecuteStep
<1>. QED  BY <1>1, Inductive, PTL DEF Spec, ResumedRowsAreFree
=============================================================================
