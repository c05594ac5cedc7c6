------------------------------ MODULE AgentLoop ------------------------------
(* One agent: the tool-calling loop of agents/base.py with the dispatch of
   agents/tools/registry.py, its row in the agents table, and the tool
   submit_candidate of the worker pool.

   A reply of the language model is a list of tool calls, or an answer.  Of a
   call only what dispatch makes of it counts: a tool that returns, a name that
   is not registered, a tool that raises, or submit_candidate.  The store and
   the event bus do not fail.                                                *)
EXTENDS Naturals, Sequences

CONSTANTS
  MaxSteps,  \* AgentConfig.max_steps
  MaxBatch   \* tool calls in one reply

ASSUME AgentAssumption ==
  MaxSteps \in Nat \ {0} /\ MaxBatch \in Nat \ {0}

VARIABLES
  role,       \* "worker", "planner", or "other": verifier, judge, merger
  pc,         \* where run stands
  runs,       \* calls of run so far
  step,       \* the loop's step
  messages,   \* the conversation after the two opening messages
  todo,       \* calls of the last reply not dispatched yet
  submitted,  \* the worker's event
  handed,     \* candidates stored
  stop,       \* stop_reason of the last reply
  row,        \* status column of the agent's row
  billed      \* steps column of the row

talk == <<step, messages, todo, stop>>
vars == <<role, pc, runs, talk, submitted, handed, row, billed>>

(* Only workers have the tool submit_candidate. *)
Outcomes == {"returns", "unknown", "raises"} \cup (IF role = "worker" THEN {"submits"} ELSE {})
Batches  == UNION {[1..n -> Outcomes] : n \in 1..MaxBatch}
(* The planner's agent runs again when its plan was not valid. *)
MaxRuns  == IF role = "planner" THEN 2 ELSE 1
(* finish_reason, whatever the reply holds: "length" when max_tokens cut it. *)
Stops    == {"stop", "length", "tool_calls"}

Assistant(n) == [role |-> "assistant", calls |-> n]
Tool(i)      == [role |-> "tool", call |-> i]

Ended == {"answered", "submitted", "max_steps", "crashed"}

TypeOK ==
  /\ role \in {"worker", "planner", "other"}
  /\ pc \in {"idle", "step", "chat", "tools"} \cup Ended
  /\ runs \in 0..MaxRuns /\ step \in 0..MaxSteps
  /\ todo \in Batches \cup {<<>>}
  /\ submitted \in BOOLEAN /\ handed \in 0..MaxBatch
  /\ stop \in Stops \cup {"none"}
  /\ row \in {"idle", "running", "done", "max_steps"}
  /\ billed \in 0..(MaxSteps * MaxRuns)
  /\ Len(messages) <= MaxSteps * (1 + MaxBatch)

(* upsert_agent has inserted the row. *)
Init ==
  /\ role \in {"worker", "planner", "other"}
  /\ pc = "idle" /\ runs = 0 /\ step = 0 /\ messages = <<>> /\ todo = <<>>
  /\ submitted = FALSE /\ handed = 0 /\ stop = "none"
  /\ row = "idle" /\ billed = 0

-----------------------------------------------------------------------------

(* Mutations (see PROJECT.json) precede the definition they would replace. *)
StartedOnce == row' = IF row = "idle" THEN "running" ELSE row
Started == row' = "running"

Run ==
  /\ pc \in {"idle", "answered"} /\ runs < MaxRuns
  /\ pc' = "step" /\ runs' = runs + 1
  /\ step' = 1 /\ messages' = <<>> /\ todo' = <<>> /\ stop' = "none"
  /\ Started
  /\ UNCHANGED <<submitted, handed, billed>>

(* AGENT_STEP is published, then llm.chat gets the messages. *)
Ask ==
  /\ pc = "step"
  /\ pc' = "chat"
  /\ UNCHANGED <<runs, talk, submitted, handed, row, billed>>

(* _account: one step for one reply, whatever it holds. *)
Billed == billed' = billed + 1

ReplyCalls(calls) ==
  /\ pc = "chat"
  /\ pc' = "tools"
  /\ todo' = calls /\ stop' \in Stops
  /\ messages' = Append(messages, Assistant(Len(calls)))
  /\ Billed
  /\ UNCHANGED <<runs, step, submitted, handed, row>>

(* Any reply without calls is the final answer, its stop_reason is not read. *)
ReplyAnswer(reason) ==
  /\ pc = "chat"
  /\ pc' = "answered" /\ row' = "done"
  /\ stop' = reason
  /\ Billed
  /\ UNCHANGED <<runs, step, messages, todo, submitted, handed>>

(* The provider raises: a timeout, an error status, a reply it cannot read.
   Nothing touches the row.                                                  *)
ChatRaises ==
  /\ pc = "chat"
  /\ pc' = "crashed"
  /\ UNCHANGED <<runs, talk, submitted, handed, row, billed>>

AnsweredIfReturned(outcome, i) ==
  messages' = IF outcome = "raises" THEN messages ELSE Append(messages, Tool(i))
(* dispatch answers every call; an exception becomes the text of the answer. *)
Answered(outcome, i) == messages' = Append(messages, Tool(i))

LastAsked(ms) == CHOOSE k \in DOMAIN ms :
  ms[k].role = "assistant" /\ \A j \in (k + 1)..Len(ms) : ms[j].role = "tool"

Dispatch ==
  /\ pc = "tools" /\ todo # <<>>
  /\ Answered(Head(todo), messages[LastAsked(messages)].calls - Len(todo) + 1)
  /\ todo' = Tail(todo)
  /\ submitted' = (submitted \/ Head(todo) = "submits")
  /\ handed' = IF Head(todo) = "submits" THEN handed + 1 ELSE handed
  /\ UNCHANGED <<pc, runs, step, stop, row, billed>>

NeverStops == FALSE
(* should_stop *)
ShouldStop == role = "worker" /\ submitted

Stopped ==
  /\ pc = "tools" /\ todo = <<>> /\ ShouldStop
  /\ pc' = "submitted" /\ row' = "done"
  /\ UNCHANGED <<runs, talk, submitted, handed, billed>>

(* range(1, max_steps + 1) *)
MayStep(n) == n < MaxSteps

NextStep ==
  /\ pc = "tools" /\ todo = <<>> /\ ~ShouldStop
  /\ MayStep(step)
  /\ pc' = "step" /\ step' = step + 1
  /\ UNCHANGED <<runs, messages, todo, stop, submitted, handed, row, billed>>

OutOfSteps ==
  /\ pc = "tools" /\ todo = <<>> /\ ~ShouldStop
  /\ ~MayStep(step)
  /\ pc' = "max_steps" /\ row' = "max_steps"
  /\ UNCHANGED <<runs, talk, submitted, handed, billed>>

Loop ==
  \/ Ask \/ ChatRaises \/ Dispatch \/ Stopped \/ NextStep \/ OutOfSteps
  \/ \E calls \in Batches : ReplyCalls(calls)
  \/ \E reason \in Stops : ReplyAnswer(reason)

Next == (Run \/ Loop) /\ UNCHANGED role

Spec == Init /\ [][Next]_vars

-----------------------------------------------------------------------------
(* Properties.                                                              *)

Asked == {k \in DOMAIN messages : messages[k].role = "assistant"}

(* Every request sent to the model is a conversation it accepts: each of its
   earlier calls is answered, once, in order, before its next reply.         *)
ConversationIsAnswered ==
  pc = "chat" =>
    /\ \A k \in Asked : \A i \in 1..messages[k].calls :
         k + i \in DOMAIN messages /\ messages[k + i] = Tool(i)
    /\ \A j \in DOMAIN messages \ Asked :
         \E k \in Asked : j = k + messages[j].call /\ messages[j].call <= messages[k].calls

(* The row shows "done" exactly for the runs that hand their caller a result,
   and never while the agent still works.                                    *)
RowTellsResult ==
  /\ row = "done" <=> pc \in {"answered", "submitted"}
  /\ row = "max_steps" <=> pc = "max_steps"

(* The loop does what the worker pool expects of an agent. *)
Contract == INSTANCE AgentContract WITH
  phase <- CASE pc = "idle" -> "idle" [] pc = "crashed" -> "crashed"
             [] pc \in {"answered", "submitted", "max_steps"} -> "returned"
             [] OTHER -> "working"
ImplementsContract == Contract!Spec

=============================================================================
