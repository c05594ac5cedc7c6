---------------------------- MODULE AgentLoopProofs ----------------------------
(* Proofs about AgentLoop, for every role, any number of steps and any size of
   a batch of tool calls.                                                    *)
EXTENDS AgentLoop, SequenceTheorems, TLAPS

Messages == [role : {"assistant"}, calls : 1..MaxBatch] \cup [role : {"tool"}, call : 1..MaxBatch]

(* Until a run is over its row says "running"; a crash leaves it so. *)
RowFollows ==
  /\ pc = "idle" => row = "idle"
  /\ pc \in {"step", "chat", "tools", "crashed"} => row = "running"
  /\ pc \in {"answered", "submitted"} => row = "done"
  /\ pc = "max_steps" => row = "max_steps"

(* A worker that has handed in is in its last batch, or back. *)
HandsInLast ==
  /\ submitted <=> handed > 0
  /\ handed > 0 => role = "worker" /\ pc \in {"tools", "submitted"}
  /\ handed + Len(todo) <= MaxBatch
  /\ pc # "tools" => todo = <<>>

(* What a call says it asks for has been answered in the messages after it as
   far as they go, and they go on for as long as calls are waiting.          *)
Answering ==
  \A k \in Asked :
    /\ k + messages[k].calls <= Len(messages) + Len(todo)
    /\ \A i \in 1..messages[k].calls : k + i <= Len(messages) => messages[k + i] = Tool(i)

(* No answer without its call. *)
AskedFor ==
  \A j \in DOMAIN messages \ Asked :
    \E k \in Asked : j = k + messages[j].call /\ messages[j].call <= messages[k].calls

(* The calls that wait are the last of the reply that was answered last. *)
Waiting ==
  pc = "tools" =>
    \E k \in Asked : /\ \A j \in (k + 1)..Len(messages) : messages[j].role = "tool"
                     /\ k + messages[k].calls = Len(messages) + Len(todo)

(* A run takes one reply in a step, and a reply one batch. *)
Spent ==
  /\ runs = 0 <=> pc = "idle"
  /\ pc = "idle" => billed = 0
  /\ pc # "idle" => step \in 1..MaxSteps
  /\ pc # "idle" =>
       billed <= (runs - 1) * MaxSteps + IF pc \in {"step", "chat"} THEN step - 1 ELSE step
  /\ Len(messages) <= IF pc \in {"step", "chat"} THEN (step - 1) * (1 + MaxBatch)
                      ELSE step * (1 + MaxBatch) - Len(todo)

Types ==
  /\ role \in {"worker", "planner", "other"}
  /\ pc \in {"idle", "step", "chat", "tools"} \cup Ended
  /\ runs \in 0..MaxRuns /\ step \in 0..MaxSteps
  /\ todo \in Seq(Outcomes)
  /\ submitted \in BOOLEAN /\ handed \in Nat
  /\ stop \in Stops \cup {"none"}
  /\ row \in {"idle", "running", "done", "max_steps"}
  /\ billed \in Nat
  /\ messages \in Seq(Messages)

Control == Types /\ RowFollows /\ HandsInLast
Talk    == Answering /\ AskedFor /\ Waiting

IInv == Control /\ Talk /\ Spent

-----------------------------------------------------------------------------
(* Lemmas.                                                                  *)

LEMMA BatchIs ==
  ASSUME NEW calls \in Batches
  PROVE  calls \in Seq(Outcomes) /\ Len(calls) \in 1..MaxBatch
<1>1. PICK n \in 1..MaxBatch : calls \in [1..n -> Outcomes]
  BY DEF Batches
<1>. QED  BY <1>1, AgentAssumption

LEMMA BatchOf ==
  ASSUME NEW calls \in Seq(Outcomes), Len(calls) \in 1..MaxBatch
  PROVE  calls \in Batches
<1>1. calls \in [1..Len(calls) -> Outcomes]
  OBVIOUS
<1>. QED  BY <1>1 DEF Batches

(* Roles tell the two kinds of message apart. *)
LEMMA MessageIs ==
  ASSUME NEW x \in Messages
  PROVE  \/ x.role = "assistant" /\ x.calls \in 1..MaxBatch
         \/ x.role = "tool" /\ x.call \in 1..MaxBatch
BY DEF Messages

(* The last message with calls, by which the tail of the conversation is judged. *)
LEMMA LastAskedIs ==
  ASSUME NEW ms \in Seq(Messages), NEW k \in DOMAIN ms, ms[k].role = "assistant",
         \A j \in (k + 1)..Len(ms) : ms[j].role = "tool"
  PROVE  LastAsked(ms) = k
<1>1. ASSUME NEW l \in DOMAIN ms, ms[l].role = "assistant",
             \A j \in (l + 1)..Len(ms) : ms[j].role = "tool"
      PROVE  l = k
  <2>. k \in 1..Len(ms) /\ l \in 1..Len(ms) /\ Len(ms) \in Nat
    OBVIOUS
  <2>1. ~(k < l)
    BY <1>1
  <2>2. ~(l < k)
    BY <1>1
  <2>. QED  BY <2>1, <2>2
<1>. QED  BY <1>1 DEF LastAsked

(* Arithmetic of the bill. *)
LEMMA Times ==
  ASSUME NEW a \in Nat, NEW b \in Nat, NEW k \in Nat, a <= b
  PROVE  a * k \in Nat /\ a * k <= b * k /\ (a + 1) * k = a * k + k
OBVIOUS

-----------------------------------------------------------------------------
(* Who works, what its row says and what it has handed in.                  *)

LEMMA ControlInit == Init => Control
<1> SUFFICES ASSUME Init PROVE Control
  OBVIOUS
<1>1. /\ runs \in 0..MaxRuns /\ step \in 0..MaxSteps
      /\ todo \in Seq(Outcomes) /\ Len(todo) = 0 /\ messages \in Seq(Messages)
  BY AgentAssumption DEF Init, MaxRuns
<1>2. Types
  BY <1>1 DEF Init, Types
<1>3. HandsInLast
  BY <1>1, AgentAssumption DEF Init, HandsInLast
<1>. QED  BY <1>2, <1>3 DEF Init, Control, RowFollows

LEMMA ControlStep ==
  ASSUME Control, Talk, Spent, (Run \/ Loop) /\ UNCHANGED role
  PROVE  Control'
<1>. Outcomes' = Outcomes /\ MaxRuns' = MaxRuns
  BY DEF Outcomes, MaxRuns
<1>1. CASE Run
  BY <1>1, AgentAssumption DEF Run, Started, Control, Types, MaxRuns, RowFollows, HandsInLast
<1>2. CASE Ask \/ ChatRaises \/ Stopped \/ OutOfSteps
  BY <1>2 DEF Ask, ChatRaises, Stopped, OutOfSteps, ShouldStop, talk, Control, Types, Ended,
     RowFollows, HandsInLast
<1>3. CASE NextStep
  BY <1>3, AgentAssumption DEF NextStep, ShouldStop, MayStep, Control, Types, RowFollows,
     HandsInLast
<1>4. ASSUME NEW calls \in Batches, ReplyCalls(calls) PROVE Control'
  <2>1. messages' \in Seq(Messages)
    BY <1>4, BatchIs DEF ReplyCalls, Assistant, Messages, Control, Types
  <2>. QED  BY <1>4, <2>1, BatchIs DEF ReplyCalls, Billed, Control, Types, RowFollows, HandsInLast
<1>5. ASSUME NEW reason \in Stops, ReplyAnswer(reason) PROVE Control'
  BY <1>5 DEF ReplyAnswer, Billed, Control, Types, Ended, RowFollows, HandsInLast
<1>6. CASE Dispatch
  <2>1. /\ todo' \in Seq(Outcomes) /\ Len(todo') = Len(todo) - 1
        /\ Head(todo) \in Outcomes /\ Len(todo) \in Nat /\ Len(todo') \in Nat
    BY <1>6 DEF Dispatch, Control, Types
  <2>2. Head(todo) = "submits" => role = "worker"
    BY <2>1 DEF Outcomes
  <2>3. messages' \in Seq(Messages)
    <3>1. PICK k \in Asked : /\ \A j \in (k + 1)..Len(messages) : messages[j].role = "tool"
                             /\ k + messages[k].calls = Len(messages) + Len(todo)
      BY <1>6 DEF Dispatch, Talk, Waiting
    <3>2. k \in 1..Len(messages) /\ messages[k].calls \in 1..MaxBatch /\ LastAsked(messages) = k
      BY <3>1, LastAskedIs, MessageIs DEF Asked, Control, Types
    <3>3. messages[k].calls - Len(todo) + 1 \in 1..MaxBatch
      BY <1>6, <2>1, <3>1, <3>2, AgentAssumption
    <3>. QED  BY <1>6, <3>2, <3>3 DEF Dispatch, Answered, Tool, Messages, Control, Types
  <2>4. Types'
    BY <1>6, <2>1, <2>3 DEF Dispatch, Control, Types
  <2>5. RowFollows'
    BY <1>6 DEF Dispatch, Control, RowFollows
  <2>6. HandsInLast'
    <3>1. CASE Head(todo) = "submits"
      <4>. submitted' /\ handed' = handed + 1 /\ handed \in Nat /\ pc' = "tools"
        BY <1>6, <3>1 DEF Dispatch, Control, Types
      <4>. QED  BY <2>1, <2>2, <3>1 DEF Control, HandsInLast
    <3>2. CASE Head(todo) # "submits"
      <4>1. submitted' = submitted
        BY <1>6, <3>2 DEF Dispatch, Control, Types
      <4>2. handed' = handed /\ handed \in Nat /\ pc = "tools" /\ pc' = "tools"
        BY <1>6, <3>2 DEF Dispatch, Control, Types
      <4>3. submitted' <=> handed' > 0
        BY <4>1, <4>2 DEF Control, HandsInLast
      <4>4. handed' > 0 => role' = "worker"
        BY <4>2 DEF Control, HandsInLast
      <4>5. handed' + Len(todo') <= MaxBatch
        BY <2>1, <4>2, AgentAssumption DEF Control, HandsInLast
      <4>. QED  BY <4>2, <4>3, <4>4, <4>5 DEF HandsInLast
    <3>. QED  BY <3>1, <3>2
  <2>. QED  BY <2>4, <2>5, <2>6 DEF Control
<1>. QED  BY <1>1, <1>2, <1>3, <1>4, <1>5, <1>6 DEF Loop

-----------------------------------------------------------------------------
(* The conversation.                                                        *)

LEMMA TalkInit == Init => Talk
BY DEF Init, Talk, Answering, AskedFor, Waiting, Asked

(* One reply, all of whose calls wait. *)
LEMMA TalkReply ==
  ASSUME Control, Talk, NEW calls \in Batches, ReplyCalls(calls), Control'
  PROVE  Talk'
<1> DEFINE n == Len(messages)
<1>1. /\ n \in Nat /\ DOMAIN messages = 1..n
      /\ Len(messages') = n + 1 /\ DOMAIN messages' = 1..(n + 1)
      /\ \A k \in 1..n : messages'[k] = messages[k]
  BY DEF ReplyCalls, Control, Types
<1>2. /\ messages'[n + 1].role = "assistant" /\ messages'[n + 1].calls = Len(calls)
      /\ Len(calls) \in 1..MaxBatch
  BY BatchIs DEF ReplyCalls, Assistant
<1>3. Asked' = Asked \cup {n + 1} /\ Asked \subseteq 1..n
  BY <1>1, <1>2 DEF Asked
<1>4. \A k \in Asked : messages[k].calls \in 1..MaxBatch
  BY MessageIs DEF Asked, Control, Types
<1>5. todo = <<>> /\ Len(todo) = 0 /\ todo' = calls
  BY DEF ReplyCalls, Control, HandsInLast
<1>6. Answering'
  <2>1. ASSUME NEW k \in Asked
        PROVE  /\ k + messages'[k].calls <= Len(messages') + Len(todo')
               /\ \A i \in 1..messages'[k].calls :
                    k + i <= Len(messages') => messages'[k + i] = Tool(i)
    <3>. messages'[k] = messages[k] /\ k \in 1..n /\ k + messages[k].calls <= n
      BY <1>1, <1>3, <1>5 DEF Talk, Answering
    <3>. QED  BY <1>1, <1>2, <1>4, <1>5 DEF Talk, Answering
  <2>2. /\ n + 1 + messages'[n + 1].calls <= Len(messages') + Len(todo')
        /\ \A i \in 1..messages'[n + 1].calls : ~(n + 1 + i <= Len(messages'))
    BY <1>1, <1>2, <1>5
  <2>. QED  BY <1>3, <2>1, <2>2 DEF Answering
<1>7. AskedFor'
  <2>1. ASSUME NEW j \in (1..n) \ Asked
        PROVE  \E k \in Asked : j = k + messages'[j].call /\ messages'[j].call <= messages'[k].calls
    BY <1>1, <1>3 DEF Talk, AskedFor
  <2>. QED  BY <1>1, <1>3, <2>1 DEF AskedFor
<1>8. Waiting'
  BY <1>1, <1>2, <1>3, <1>5 DEF Waiting
<1>. QED  BY <1>6, <1>7, <1>8 DEF Talk

(* The answer of the next call that waits. *)
LEMMA TalkDispatch ==
  ASSUME Control, Talk, Dispatch, Control'
  PROVE  Talk'
<1> DEFINE n == Len(messages)
<1>0. PICK l \in Asked : /\ \A j \in (l + 1)..n : messages[j].role = "tool"
                         /\ l + messages[l].calls = n + Len(todo)
  BY DEF Dispatch, Talk, Waiting
<1>1. l \in 1..n /\ n \in Nat /\ messages[l].role = "assistant" /\ messages[l].calls \in 1..MaxBatch
  BY <1>0, MessageIs DEF Asked, Control, Types
<1>2. /\ DOMAIN messages = 1..n /\ Len(messages') = n + 1 /\ DOMAIN messages' = 1..(n + 1)
      /\ \A k \in 1..n : messages'[k] = messages[k]
  BY DEF Dispatch, Answered
<1>3. Len(todo) \in Nat \ {0} /\ Len(todo') = Len(todo) - 1
  BY DEF Dispatch
<1>4. /\ messages'[n + 1] = Tool(n + 1 - l)
      /\ messages'[n + 1].role = "tool" /\ messages'[n + 1].call = n + 1 - l
  <2>1. LastAsked(messages) = l
    BY <1>0, <1>1, LastAskedIs DEF Control, Types
  <2>2. messages[l].calls - Len(todo) + 1 = n + 1 - l
    BY <1>0, <1>1, <1>3
  <2>3. messages'[n + 1] = Tool(n + 1 - l)
    BY <2>1, <2>2 DEF Dispatch, Answered
  <2>. QED  BY <2>3 DEF Tool
<1>5. Asked' = Asked /\ Asked \subseteq 1..n
  BY <1>2, <1>4, <1>1 DEF Asked
<1>6. \A k \in Asked : messages[k].calls \in 1..MaxBatch
  BY MessageIs DEF Asked, Control, Types
<1>7. ASSUME NEW k \in Asked, k # l PROVE k + messages[k].calls <= n
  <2>0. k \in 1..n /\ messages[k].role = "assistant"
    BY <1>2 DEF Asked
  <2>1. ~(k > l)
    BY <1>0, <1>1, <2>0
  <2>2. CASE k < l
    <3>1. ASSUME l - k \in 1..messages[k].calls PROVE FALSE
      <4>1. messages[k + (l - k)] = Tool(l - k) /\ k + (l - k) = l
        BY <1>1, <2>0, <3>1 DEF Talk, Answering
      <4>. QED  BY <1>1, <4>1 DEF Tool
    <3>. QED  BY <1>1, <1>6, <2>0, <2>2, <3>1
  <2>. QED  BY <1>1, <1>7, <2>0, <2>1, <2>2
<1>8. Answering'
  <2>1. ASSUME NEW k \in Asked, k # l
        PROVE  /\ k + messages'[k].calls <= Len(messages') + Len(todo')
               /\ \A i \in 1..messages'[k].calls :
                    k + i <= Len(messages') => messages'[k + i] = Tool(i)
    <3>1. messages'[k] = messages[k] /\ k \in 1..n /\ k + messages[k].calls <= n
      BY <1>2, <1>5, <1>7, <2>1
    <3>2. k + messages'[k].calls <= Len(messages') + Len(todo')
      BY <1>1, <1>2, <1>3, <1>6, <3>1
    <3>3. ASSUME NEW i \in 1..messages[k].calls PROVE messages'[k + i] = Tool(i)
      <4>1. k + i \in 1..n
        BY <1>1, <1>6, <3>1
      <4>2. messages[k + i] = Tool(i)
        BY <4>1 DEF Talk, Answering
      <4>. QED  BY <1>2, <4>1, <4>2
    <3>. QED  BY <3>1, <3>2, <3>3
  <2>2. /\ l + messages'[l].calls <= Len(messages') + Len(todo')
        /\ \A i \in 1..messages'[l].calls : l + i <= Len(messages') => messages'[l + i] = Tool(i)
    <3>1. messages'[l] = messages[l] /\ messages[l].calls \in Nat
      BY <1>1, <1>2
    <3>2. ASSUME NEW i \in 1..messages[l].calls, l + i <= n PROVE messages'[l + i] = Tool(i)
      BY <1>1, <1>2, <3>2 DEF Talk, Answering
    <3>3. ASSUME NEW i \in 1..messages[l].calls, l + i = n + 1 PROVE messages'[l + i] = Tool(i)
      <4>. i = n + 1 - l
        BY <1>1, <3>3
      <4>. QED  BY <1>4, <3>3
    <3>. QED  BY <1>0, <1>1, <1>2, <1>3, <3>1, <3>2, <3>3
  <2>. QED  BY <1>5, <2>1, <2>2 DEF Answering
<1>9. AskedFor'
  <2>1. ASSUME NEW j \in (1..n) \ Asked
        PROVE  \E k \in Asked : j = k + messages'[j].call /\ messages'[j].call <= messages'[k].calls
    BY <1>2, <1>5 DEF Talk, AskedFor
  <2>2. n + 1 = l + messages'[n + 1].call /\ messages'[n + 1].call <= messages'[l].calls
    BY <1>0, <1>1, <1>2, <1>3, <1>4
  <2>. QED  BY <1>2, <1>5, <2>1, <2>2 DEF AskedFor
<1>10. Waiting'
  BY <1>0, <1>1, <1>2, <1>3, <1>4, <1>5 DEF Waiting
<1>. QED  BY <1>8, <1>9, <1>10 DEF Talk

LEMMA TalkStep ==
  ASSUME Control, Talk, Spent, Run \/ Loop, Control'
  PROVE  Talk'
<1>1. CASE Run
  BY <1>1 DEF Run, Talk, Answering, AskedFor, Waiting, Asked
<1>2. CASE pc' # "tools" /\ UNCHANGED <<messages, todo>>
  BY <1>2 DEF Talk, Answering, AskedFor, Waiting, Asked
<1>3. CASE \/ Ask \/ ChatRaises \/ Stopped \/ OutOfSteps \/ NextStep
           \/ \E reason \in Stops : ReplyAnswer(reason)
  BY <1>2, <1>3 DEF Ask, ChatRaises, Stopped, OutOfSteps, NextStep, ReplyAnswer, talk
<1>. QED  BY <1>1, <1>3, TalkReply, TalkDispatch DEF Loop

-----------------------------------------------------------------------------
(* What runs, steps and batches add up to.                                  *)

LEMMA SpentInit == Init => Spent
BY AgentAssumption DEF Init, Spent

LEMMA SpentStep ==
  ASSUME Control, Spent, Run \/ Loop, Control'
  PROVE  Spent'
<1> DEFINE K == 1 + MaxBatch
<1>0. K \in Nat /\ MaxSteps \in Nat \ {0} /\ step \in Nat /\ runs \in Nat
  BY AgentAssumption DEF Control, Types
<1>1. CASE Run
  <2>1. (runs' - 1) * MaxSteps = IF runs = 0 THEN 0 ELSE (runs - 1) * MaxSteps + MaxSteps
    BY <1>0, <1>1 DEF Run
  <2>2. billed <= (runs' - 1) * MaxSteps
    BY <1>0, <1>1, <2>1 DEF Run, Control, Types, Spent
  <2>. QED  BY <1>0, <1>1, <2>2 DEF Run, Spent
<1>2. CASE Ask \/ Stopped \/ OutOfSteps
  BY <1>2, <1>0 DEF Ask, Stopped, OutOfSteps, talk, Spent
<1>3. CASE ChatRaises \/ \E reason \in Stops : ReplyAnswer(reason)
  <2>1. (step - 1) * K <= step * K
    BY <1>0, <1>3
  <2>2. Len(todo) = 0 /\ Len(todo') = 0
    BY <1>3 DEF ChatRaises, ReplyAnswer, Control, HandsInLast
  <2>3. pc = "chat" /\ pc' \in {"crashed", "answered"} /\ UNCHANGED <<runs, step, messages>>
    BY <1>3 DEF ChatRaises, ReplyAnswer, talk
  <2>4. billed' <= billed + 1
    BY <1>3 DEF ChatRaises, ReplyAnswer, Billed, Control, Types
  <2>5. (runs - 1) * MaxSteps \in Int /\ billed \in Nat /\ billed' \in Nat
    BY <1>0 DEF Control, Types
  <2>. QED  BY <1>0, <2>1, <2>2, <2>3, <2>4, <2>5 DEF Spent
<1>4. CASE NextStep
  <2>1. (step' - 1) * K = step * K
    BY <1>0, <1>4 DEF NextStep
  <2>. QED  BY <1>0, <1>4, <2>1 DEF NextStep, Spent, Control, Types
<1>5. ASSUME NEW calls \in Batches, ReplyCalls(calls) PROVE Spent'
  <2>1. step * K = (step - 1) * K + K
    BY <1>0, <1>5
  <2>2. Len(calls) <= MaxBatch /\ Len(messages') = Len(messages) + 1 /\ Len(messages) \in Nat
    BY <1>5, BatchIs DEF ReplyCalls
  <2>3. /\ pc = "chat" /\ pc' = "tools" /\ UNCHANGED <<runs, step>>
        /\ billed' = billed + 1 /\ todo' = calls
    BY <1>5 DEF ReplyCalls, Billed
  <2>4. /\ (runs - 1) * MaxSteps \in Int /\ (step - 1) * K \in Int
        /\ billed \in Nat /\ Len(calls) \in Nat
    BY <1>0, <1>5 DEF Control, Types
  <2>5. Len(messages') <= step * K - Len(calls)
    <3>1. Len(messages) <= (step - 1) * K
      BY <2>3 DEF Spent
    <3>. HIDE DEF K
    <3>2. K = 1 + MaxBatch
      BY DEF K
    <3>3. step * K \in Int
      BY <1>0
    <3>. QED  BY <1>0, <2>1, <2>2, <2>4, <3>1, <3>2, <3>3, AgentAssumption
  <2>6. billed' <= (runs - 1) * MaxSteps + step
    BY <1>0, <2>3, <2>4 DEF Spent
  <2>. QED  BY <2>3, <2>5, <2>6 DEF Spent
<1>6. CASE Dispatch
  <2>1. Len(todo') = Len(todo) - 1 /\ Len(messages') = Len(messages) + 1
    BY <1>6 DEF Dispatch, Answered
  <2>. QED  BY <1>0, <1>6, <2>1 DEF Dispatch, Spent
<1>. QED  BY <1>1, <1>2, <1>3, <1>4, <1>5, <1>6 DEF Loop

-----------------------------------------------------------------------------
(* The theorems.                                                            *)

LEMMA IInvInit == Init => IInv
BY ControlInit, TalkInit, SpentInit DEF IInv

LEMMA IInvStep == IInv /\ [Next]_vars => IInv'
<1> SUFFICES ASSUME IInv, [Next]_vars PROVE IInv'
  OBVIOUS
<1>1. CASE UNCHANGED vars
  BY <1>1 DEF vars, talk, IInv, Control, Types, MaxRuns, Outcomes, RowFollows, HandsInLast, Talk,
     Answering, AskedFor, Waiting, Asked, Spent
<1>2. CASE Next
  BY <1>2, ControlStep, TalkStep, SpentStep DEF Next, IInv
<1>. QED  BY <1>1, <1>2

(* The invariant holds of every run of every agent. *)
THEOREM Inductive == Spec => []IInv
BY IInvInit, IInvStep, PTL DEF Spec

(* Every variable keeps its type: no run takes more than max_steps replies, and
   no conversation grows beyond what its steps allow.                        *)
THEOREM TypeCorrect == Spec => []TypeOK
<1>1. ASSUME IInv PROVE TypeOK
  <2>1. todo \in Batches \cup {<<>>} /\ handed \in 0..MaxBatch
    <3>1. /\ todo \in Seq(Outcomes) /\ Len(todo) \in Nat /\ handed \in Nat
          /\ handed + Len(todo) <= MaxBatch
      BY <1>1 DEF IInv, Control, Types, HandsInLast
    <3>. QED  BY <3>1, BatchOf, AgentAssumption
  <2>2. billed \in 0..(MaxSteps * MaxRuns)
    <3>1. MaxRuns \in {1, 2} /\ MaxSteps \in Nat /\ billed \in Nat /\ runs \in 0..MaxRuns
      BY <1>1, AgentAssumption DEF MaxRuns, IInv, Control, Types
    <3>2. CASE runs = 0
      BY <1>1, <3>1, <3>2 DEF IInv, Spent
    <3>3. CASE runs = 1
      BY <1>1, <3>1, <3>3 DEF IInv, Spent
    <3>4. CASE runs = 2
      BY <1>1, <3>1, <3>4 DEF IInv, Spent
    <3>. QED  BY <3>1, <3>2, <3>3, <3>4
  <2>3. Len(messages) <= MaxSteps * (1 + MaxBatch)
    <3> DEFINE K == 1 + MaxBatch
    <3>1. /\ K \in Nat /\ step \in Nat /\ MaxSteps \in Nat
          /\ Len(messages) \in Nat /\ Len(todo) \in Nat
      BY <1>1, AgentAssumption DEF IInv, Control, Types
    <3>2. step * K <= MaxSteps * K /\ (pc \in {"step", "chat"} => (step - 1) * K <= step * K)
      BY <1>1, <3>1, Times DEF IInv, Spent, Control, Types
    <3>3. Len(messages) <= step * K
      BY <1>1, <3>1, <3>2 DEF IInv, Spent
    <3>. QED  BY <3>1, <3>2, <3>3
  <2>. QED  BY <1>1, <2>1, <2>2, <2>3 DEF IInv, Control, Types, TypeOK
<1>2. IInv => TypeOK
  BY <1>1
<1>. QED  BY <1>2, Inductive, PTL

(* Every request to the model is a conversation in which each earlier call is
   answered, once and in order, however dispatch ended.                      *)
THEOREM RequestsAreAnswered == Spec => []ConversationIsAnswered
<1>1. ASSUME IInv PROVE ConversationIsAnswered
  BY <1>1, MessageIs DEF IInv, Control, Types, HandsInLast, Talk, Answering, AskedFor, Asked,
     ConversationIsAnswered
<1>2. IInv => ConversationIsAnswered
  BY <1>1
<1>. QED  BY <1>2, Inductive, PTL

(* The row says "done" for exactly the runs that hand their caller a result. *)
THEOREM RowIsTrue == Spec => []RowTellsResult
<1>1. IInv => RowTellsResult
  BY DEF IInv, Control, Types, Ended, RowFollows, RowTellsResult
<1>. QED  BY <1>1, Inductive, PTL

(* The loop implements the agent that the worker pool is modelled with. *)
LEMMA ContractStep ==
  ASSUME IInv, [Next]_vars
  PROVE  [Contract!Next]_Contract!vars
<1>. USE DEF Contract!Next, Contract!vars, Contract!Begin, Contract!Submit, Contract!Return,
             Contract!Crash
<1>1. CASE UNCHANGED vars
  BY <1>1 DEF vars
<1>2. CASE Run
  BY <1>2 DEF Run
<1>3. CASE Ask \/ NextStep \/ \E calls \in Batches : ReplyCalls(calls)
  BY <1>3 DEF Ask, NextStep, ReplyCalls
<1>4. CASE ChatRaises
  BY <1>4 DEF ChatRaises, IInv
<1>5. CASE Dispatch
  BY <1>5 DEF Dispatch
<1>6. CASE Stopped \/ OutOfSteps \/ \E reason \in Stops : ReplyAnswer(reason)
  BY <1>6 DEF Stopped, OutOfSteps, ReplyAnswer
<1>. QED  BY <1>1, <1>2, <1>3, <1>4, <1>5, <1>6 DEF Next, Loop

(* Agent.run keeps AgentContract, on which TaskPool relies: it submits only while
   it works, and after a submission it returns instead of crashing.          *)
THEOREM KeepsContract == Spec => ImplementsContract
<1>1. Init => Contract!Init
  BY DEF Init, Contract!Init
<1>2. IInv /\ [Next]_vars => [Contract!Next]_Contract!vars
  BY ContractStep
<1>. QED  BY <1>1, <1>2, Inductive, PTL DEF Spec, ImplementsContract, Contract!Spec
=============================================================================
