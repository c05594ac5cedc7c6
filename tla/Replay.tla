------------------------------- MODULE Replay -------------------------------
(* Recording a run and replaying it (llm/recording.py, llm/mock.py,
   _save_recording in orchestrator/orchestrator.py).

   A process with SWARMFORGE_RECORD_DIR set records the replies of its
   provider in one list, whatever mission and agent they are for, and writes
   the list, role by role, when a mission ends.  Later a process with the mock
   provider reads a directory of such files and of scenarios written by hand.  *)
EXTENDS Naturals, Sequences, FiniteSets

CONSTANTS
  Missions,    \* recorded ones, naturals: the order of their file names
  Agents,      \* of a mission, recorded or replayed
  RoleOf,      \* RoleOf[a]: the role of agent a
  ByHand,      \* names (naturals) of the files written by hand
  Matched,     \* Matched[f]: the role file f is for; its needle is f itself
  StepsOf,     \* StepsOf[f]: how many steps file f has
  MaxRecorded, \* bound: replies recorded
  MaxChats     \* bound: chats of all replayed sessions

(* File name 0 stands for no file. *)
ASSUME FilesAssumption ==
  /\ Missions \subseteq Nat \ {0} /\ ByHand \subseteq Nat \ {0} /\ Missions \cap ByHand = {}
  /\ StepsOf \in [ByHand -> Nat] /\ Agents # {}
  /\ MaxRecorded \in Nat /\ MaxChats \in Nat

VARIABLES
  recording,   \* the recording process still runs
  transcripts, \* its list: of each reply, the mission, the agent, its number
  saved,       \* saved[m]: the files of mission m, by role: of which places of
               \* the list the replies are, in its order; <<>> before
  run,         \* run[a]: which run of agent a is at work
  heard,       \* heard[a]: the needles that occur in the conversation of that run
  cursors,     \* cursors[a]: of each file, the steps consumed by a's session
  seen         \* seen[a]: the answers a got, by run, file and step

replay == <<run, heard, cursors, seen>>
vars   == <<recording, transcripts, saved, replay>>

Roles   == {RoleOf[a] : a \in Agents}
Names   == Missions \cup ByHand
Replies == [mission : Missions, agent : Agents, n : Nat]
Turns   == [run : 1..2, file : Names \cup {0}, step : Nat]

TypeOK ==
  /\ recording \in BOOLEAN
  /\ transcripts \in Seq(Replies)
  /\ saved \in [Missions -> {<<>>} \cup [Roles -> SUBSET (DOMAIN transcripts)]]
  /\ run \in [Agents -> 1..2]
  /\ heard \in [Agents -> SUBSET ByHand]
  /\ cursors \in [Agents -> [Names -> Nat]]
  /\ seen \in [Agents -> Seq(Turns)]

Init ==
  /\ recording = TRUE /\ transcripts = <<>>
  /\ saved = [m \in Missions |-> <<>>]
  /\ run = [a \in Agents |-> 1]
  /\ heard = [a \in Agents |-> {}]
  /\ cursors = [a \in Agents |-> [f \in Names |-> 0]]
  /\ seen = [a \in Agents |-> <<>>]

-----------------------------------------------------------------------------
(* The process that records.                                                *)

Of(m, a) == {i \in DOMAIN transcripts :
               transcripts[i].mission = m /\ transcripts[i].agent = a}

(* RecordingProvider.chat, for an agent of a mission that is not over. *)
Record(m, a) ==
  /\ recording /\ saved[m] = <<>> /\ Len(transcripts) < MaxRecorded
  /\ transcripts' = Append(transcripts,
       [mission |-> m, agent |-> a, n |-> Cardinality(Of(m, a)) + 1])
  /\ UNCHANGED <<recording, saved, replay>>

(* Mutations (see PROJECT.json) precede the definition they would replace. *)
EveryReply(r) == DOMAIN transcripts
(* save_scenarios *)
OfRole(r) == {i \in DOMAIN transcripts : RoleOf[transcripts[i].agent] = r}

(* The end of run_mission, whatever it ended with. *)
SaveRecording(m) ==
  /\ recording /\ saved[m] = <<>>
  /\ saved' = [saved EXCEPT ![m] = [r \in Roles |-> OfRole(r)]]
  /\ UNCHANGED <<recording, transcripts, replay>>

(* The process is over, perhaps killed; the other one reads what there is. *)
LoadScenarios ==
  /\ recording
  /\ recording' = FALSE
  /\ UNCHANGED <<transcripts, saved, replay>>

-----------------------------------------------------------------------------
(* The process that replays: MockProvider.                                  *)

OnlyLast(a, new) == new
(* All messages of the run count, tool results too. *)
Conversation(a, new) == heard[a] \cup new

(* A hand-written file whose needle was heard, before a recorded one. *)
Specificity(f) == IF f \in ByHand THEN 2 ELSE 1

Candidates(r, needles) ==
  {f \in needles : Matched[f] = r} \cup {m \in Missions : saved[m] # <<>>}

(* max takes the first of the most specific, in the order of the names. *)
Best(F) == CHOOSE f \in F : \A g \in F :
  \/ Specificity(f) > Specificity(g)
  \/ Specificity(f) = Specificity(g) /\ f <= g

Lines(f, r) == IF f \in ByHand THEN StepsOf[f] ELSE Cardinality(saved[f][r])

CursorOfFile(a, f) == Cardinality({x \in Agents \X (1..MaxChats) :
                        x[2] \in DOMAIN seen[x[1]] /\ seen[x[1]][x[2]].file = f})
Cursor(a, f) == cursors[a][f]

(* Step 0: the scenario is exhausted, or there is none. *)
Step(f, n, r) == IF n < Lines(f, r) THEN n + 1 ELSE 0
Given(a, f, step) ==
  seen' = [seen EXCEPT ![a] = Append(@, [run |-> run[a], file |-> f, step |-> step])]

(* An exhausted scenario ends the run. *)
AtWork(a) == \A i \in DOMAIN seen[a] : seen[a][i].run = run[a] => seen[a][i].step # 0

(* MockProvider.chat, with what has come into the conversation since. *)
Chat(a, new) ==
  LET needles == Conversation(a, new)
      F == Candidates(RoleOf[a], needles)
  IN /\ ~recording /\ AtWork(a)
     /\ Cardinality({x \in Agents \X (1..MaxChats) : x[2] \in DOMAIN seen[x[1]]}) < MaxChats
     /\ heard' = [heard EXCEPT ![a] = needles]
     /\ IF F = {} THEN Given(a, 0, 0) /\ UNCHANGED cursors
        ELSE LET f == Best(F) IN
             /\ Given(a, f, Step(f, Cursor(a, f), RoleOf[a]))
             /\ cursors' = [cursors EXCEPT ![a][f] = @ + 1]
     /\ UNCHANGED <<recording, transcripts, saved, run>>

(* The planner is asked to repair its plan, in a conversation of its own but
   in the same session.                                                      *)
RunAgain(a) ==
  /\ RoleOf[a] = "planner" /\ run[a] = 1 /\ seen[a] # <<>>
  /\ run' = [run EXCEPT ![a] = 2]
  /\ heard' = [heard EXCEPT ![a] = {}]
  /\ UNCHANGED <<recording, transcripts, saved, cursors, seen>>

Next ==
  \/ \E m \in Missions : SaveRecording(m) \/ \E a \in Agents : Record(m, a)
  \/ LoadScenarios
  \/ \E a \in Agents : RunAgain(a) \/ \E new \in SUBSET ByHand : Chat(a, new)

Spec == Init /\ [][Next]_vars

-----------------------------------------------------------------------------
(* Properties.                                                              *)

(* The turns at which a got a step of file f. *)
At(a, f) == {i \in DOMAIN seen[a] : seen[a][i].file = f /\ seen[a][i].step # 0}

UpTo(S, i) == Cardinality({j \in S : j <= i})

(* A session gets the steps of each scenario from the first on, none twice,
   skipped or withheld, although sessions share scenarios, take turns in any
   order, and leave a scenario for another one (mock.py:35-37).              *)
StepsInOrder ==
  \A a \in Agents, f \in Names : \A i \in DOMAIN seen[a] :
    seen[a][i].file = f =>
      IF seen[a][i].step # 0 THEN seen[a][i].step = UpTo(At(a, f), i)
      ELSE UpTo(At(a, f), i) = Lines(f, RoleOf[a])

(* A needle that turns up in a tool result may move a session to another
   scenario in the middle of a run, but never back into one it had left.     *)
NeverBack ==
  \A a \in Agents : \A i, j, k \in DOMAIN seen[a] :
    i < j /\ j < k /\ seen[a][i].run = seen[a][k].run /\ seen[a][i].file = seen[a][k].file
      => seen[a][j].file = seen[a][i].file

(* The reply that step k of a recorded file is. *)
Line(P, k) == transcripts[CHOOSE p \in P : UpTo(P, p) = k]

SoleSession(P) == \A p, q \in P :
  /\ transcripts[p].mission = transcripts[q].mission
  /\ transcripts[p].agent = transcripts[q].agent

(* Where the process had recorded one session of the role when it saved the
   file, whatever else it recorded meanwhile, the replay repeats that session
   reply by reply.  (Of two sessions it repeats the mixture: README.)        *)
SoleSessionIsReplayed ==
  \A a \in Agents, f \in Missions :
    saved[f] # <<>> /\ SoleSession(saved[f][RoleOf[a]]) =>
      \A i \in At(a, f) :
        LET t == Line(saved[f][RoleOf[a]], seen[a][i].step)
        IN RoleOf[t.agent] = RoleOf[a] /\ t.n = UpTo(At(a, f), i)
=============================================================================
