---------------------------- MODULE DecisionProofs ----------------------------
(* Proofs about what the orchestrator makes of the answers of models: Planning,
   for answers with any number of tasks that depend on any, and Verification, for
   any finite number of candidates, any number of slots and rankings of any
   bounded length.                                                           *)
EXTENDS Planning, Verification, FiniteSetTheorems, SequenceTheorems, WellFoundedInduction, TLAPS

-----------------------------------------------------------------------------
(* Verification.                                                            *)

Before == {"waiting", "creating", "applying", "testing", "asking"}

(* A verification reaches its verdict once, when it goes to tear its sandbox
   down; if it is not null the row has it too.                               *)
VerdictOnce == \A c \in Cands :
  /\ result[c] \in {"passed", "failed"} => row[c] = result[c]
  /\ at[c] \in Before => result[c] = "unset" /\ c \notin vetoed
  /\ at[c] \in {"teardown", "out"} => result[c] # "unset"

PassedIsEarned == \A c \in Cands : result[c] = "passed" => quality[c] = "green" /\ c \notin vetoed

AllOut == gather = "returned" => \A c \in Cands : at[c] = "out"

(* The judge comes after verify_all, on results that no longer change. *)
JudgeIsLast ==
  /\ judge # "idle" => gather = "returned"
  /\ judge = "asking" => Passing # {}
  /\ judge = "judged" => winners # {} /\ winners \subseteq Passing
  /\ judge = "none" => Passing = {}
  /\ judge # "judged" => winners = {}

IInv == TypeOK /\ VerdictOnce /\ PassedIsEarned /\ AllOut /\ JudgeIsLast
-----------------------------------------------------------------------------
(* Lemmas.                                                                  *)

LEMMA LeastNatural ==
  ASSUME NEW S \in SUBSET Nat, S # {}
  PROVE  \E x \in S : \A y \in S : x <= y
<1>1. PICK x \in S : \A y \in S : ~ (<<y, x>> \in OpToRel(<, Nat))
  BY NatLessThanWellFounded, WFMin
<1>2. \A y \in S : ~ (y < x)
  BY <1>1 DEF OpToRel
<1>. QED  BY <1>2

(* passing[0] exists and has passed. *)
LEMMA EarliestPasses ==
  ASSUME Passing # {}
  PROVE  Earliest \in Passing
<1>1. Passing \in SUBSET Nat
  BY CandsAssumption DEF Passing
<1>. QED  BY <1>1, LeastNatural DEF Earliest

LEMMA SomePass ==
  ASSUME Cardinality(Passing) # 0
  PROVE  Passing # {}
BY FS_EmptySet

(* A verification goes from one stage to another without a verdict. *)
LEMMA Moves ==
  ASSUME IInv, NEW c \in Cands, NEW s \in Stages, at[c] # "out",
         Move(c, s), s \in {"teardown", "out"} => result[c] # "unset",
         s \in Before => at[c] \in Before,
         gather' = gather \/ (gather' \in {"returned", "raised"} /\ gather # "returned"),
         gather' = "returned" /\ gather # "returned" =>
           s = "out" /\ \A d \in Cands \ {c} : at[d] = "out",
         UNCHANGED <<quality, row, result, vetoed, verdict>>
  PROVE  IInv'
<1>1. TypeOK'
  BY DEF IInv, TypeOK, Move, verdict
<1>2. VerdictOnce'
  BY DEF IInv, TypeOK, VerdictOnce, Move
<1>3. PassedIsEarned'
  BY DEF IInv, PassedIsEarned
<1>4. AllOut'
  BY DEF IInv, TypeOK, AllOut, Move
<1>5. JudgeIsLast'
  BY DEF IInv, JudgeIsLast, Passing, verdict
<1>. QED  BY <1>1, <1>2, <1>3, <1>4, <1>5 DEF IInv

(* It ends with one, and no other way. *)
LEMMA Judges ==
  ASSUME IInv, NEW c \in Cands, NEW v \in {"passed", "failed", "null"},
         at[c] \in Before, Move(c, "teardown"), Finish(c, v),
         vetoed' = vetoed \/ (v = "failed" /\ vetoed' = vetoed \cup {c}),
         v = "passed" => quality[c] = "green",
         UNCHANGED <<quality, gather, verdict>>
  PROVE  IInv'
<1>0. gather # "returned"
  BY DEF IInv, AllOut, Before
<1>1. TypeOK'
  BY DEF IInv, TypeOK, Stages, Move, Finish, verdict
<1>2. VerdictOnce'
  BY DEF IInv, TypeOK, VerdictOnce, Move, Finish, Before
<1>3. PassedIsEarned'
  BY DEF IInv, TypeOK, VerdictOnce, PassedIsEarned, Finish
<1>4. AllOut'
  BY <1>0 DEF AllOut
<1>5. JudgeIsLast'
  BY <1>0 DEF IInv, JudgeIsLast, verdict
<1>. QED  BY <1>1, <1>2, <1>3, <1>4, <1>5 DEF IInv

-----------------------------------------------------------------------------
(* Every step keeps the invariant.                                          *)

LEMMA IInvInit == Init => IInv
<1> SUFFICES ASSUME Init PROVE IInv
  OBVIOUS
<1>1. TypeOK
  <2>1. ranking \in [1..0 -> Entries]
    BY DEF Init
  <2>2. ranking \in Rankings
    BY <2>1, BoundsAssumption DEF Rankings
  <2>. QED  BY <2>2 DEF Init, TypeOK, Stages
<1>. QED  BY <1>1 DEF Init, IInv, VerdictOnce, PassedIsEarned, AllOut, JudgeIsLast

LEMMA IInvVerify ==
  ASSUME IInv, NEW c \in Cands, Verify(c)
  PROVE  IInv'
<1>1. CASE Acquire(c) \/ Tested(c)
  BY <1>1, Moves DEF Acquire, Tested, Before, Stages
<1>2. CASE Created(c)
  BY <1>2, Moves, Judges DEF Created, Before, Stages
<1>3. CASE Applied(c)
  BY <1>3, Moves, Judges DEF Applied, Before, Stages
<1>4. CASE CreateFails(c) \/ TeardownFails(c)
  BY <1>4, Moves DEF CreateFails, TeardownFails, RaiseGather, Before, Stages, IInv, TypeOK
<1>5. ASSUME NEW said \in Sayings, AgentAnswers(c, said) PROVE IInv'
  <2>1. /\ Passed(c, said) \in {"passed", "failed", "null"}
        /\ Passed(c, said) = "passed" => quality[c] = "green"
        /\ said = "vetoes" => Passed(c, said) = "failed"
    BY <1>5 DEF Passed, Sayings
  <2>. QED  BY <1>5, <2>1, Judges DEF AgentAnswers, Before
<1>6. CASE Crashes(c)
  BY <1>6, Judges DEF Crashes, Before
<1>7. CASE TornDown(c)
  BY <1>7, Moves DEF TornDown, Before, Stages, IInv, VerdictOnce
<1>. QED  BY <1>1, <1>2, <1>3, <1>4, <1>5, <1>6, <1>7 DEF Verify

(* The winners are among those that passed, whatever the ranking says. *)
LEMMA WinnersPassed ==
  ASSUME IInv, Passing # {}, NEW r
  PROVE  WinnersOf(r) # {} /\ WinnersOf(r) \subseteq Passing
BY EarliestPasses DEF WinnersOf, Chosen

(* The ranking that stands in for an unreadable one. *)
LEMMA OneEntry ==
  ASSUME IInv, Passing # {}
  PROVE  <<[id |-> Earliest, winner |-> TRUE]>> \in Rankings
<1>1. [id |-> Earliest, winner |-> TRUE] \in Entries
  BY EarliestPasses DEF Entries, Passing
<1>2. \A e \in Entries : <<e>> \in [1..1 -> Entries]
  OBVIOUS
<1>3. 1 \in 0..MaxRanks
  BY BoundsAssumption
<1>4. [1..1 -> Entries] \subseteq Rankings
  BY <1>3 DEF Rankings
<1>. QED  BY <1>1, <1>2, <1>4

(* A ranking is still one with the unknown ids marked as losers. *)
LEMMA CheckedRanking ==
  ASSUME NEW r \in Rankings
  PROVE  Checked(r) \in Rankings
<1>1. PICK n \in 0..MaxRanks : r \in [1..n -> Entries]
  BY DEF Rankings
<1>2. Checked(r) \in [1..n -> Entries]
  BY <1>1 DEF Checked, Entries
<1>. QED  BY <1>2 DEF Rankings

LEMMA IInvJudged ==
  ASSUME IInv, NEW r \in Rankings, Judged(r)
  PROVE  IInv'
<1>1. Passing # {} /\ Passing' = Passing
  BY DEF Judged, IInv, JudgeIsLast, Passing, checks
<1>2. TypeOK'
  BY <1>1, WinnersPassed DEF Judged, IInv, TypeOK, checks, Passing
<1>3. JudgeIsLast'
  BY <1>1, WinnersPassed DEF Judged, IInv, JudgeIsLast, checks
<1>. QED  BY <1>2, <1>3 DEF Judged, checks, IInv, VerdictOnce, PassedIsEarned, AllOut

LEMMA IInvJudge ==
  ASSUME IInv, JudgeStep
  PROVE  IInv'
<1>1. CASE Ranks
  BY <1>1, IInvJudged, CheckedRanking DEF Ranks
<1>2. CASE Unparseable
  BY <1>2, IInvJudged, OneEntry DEF Unparseable, Judged, IInv, JudgeIsLast
<1>3. CASE Shortcut
  <2>1. Passing # {} /\ Passing' = Passing /\ Passing \subseteq Cands
    BY <1>3, SomePass DEF Shortcut, Passing, checks
  <2>2. TypeOK'
    BY <1>3, <2>1, OneEntry DEF Shortcut, IInv, TypeOK, checks
  <2>. QED  BY <1>3, <2>1, <2>2 DEF Shortcut, checks, IInv, VerdictOnce, PassedIsEarned, AllOut,
               JudgeIsLast
<1>4. CASE NothingPasses \/ AskJudge \/ JudgeRaises
  <2>1. Passing' = Passing /\ (AskJudge => Passing # {})
    BY <1>4, SomePass DEF NothingPasses, AskJudge, JudgeRaises, Passing, checks
  <2>2. TypeOK'
    BY <1>4 DEF NothingPasses, AskJudge, JudgeRaises, IInv, TypeOK, checks
  <2>. QED  BY <1>4, <2>1, <2>2 DEF NothingPasses, AskJudge, JudgeRaises, checks, IInv,
               VerdictOnce, PassedIsEarned, AllOut, JudgeIsLast
<1>. QED  BY <1>1, <1>2, <1>3, <1>4 DEF JudgeStep

LEMMA IInvStep == IInv /\ [Next]_vars => IInv'
<1> SUFFICES ASSUME IInv, [Next]_vars PROVE IInv'
  OBVIOUS
<1>1. CASE UNCHANGED vars
  BY <1>1 DEF vars, checks, verdict, IInv, TypeOK, VerdictOnce, PassedIsEarned, AllOut,
     JudgeIsLast, Passing
<1>. QED  BY <1>1, IInvVerify, IInvJudge DEF Next

(* The invariant holds over every order of verifications and every ranking. *)
THEOREM Inductive == Spec => []IInv
BY IInvInit, IInvStep, PTL DEF Spec

(* Every variable keeps its type. *)
THEOREM TypeCorrect == Spec => []TypeOK
<1>1. IInv => TypeOK
  BY DEF IInv
<1>. QED  BY <1>1, Inductive, PTL

(* Only what applies to main, passes pytest there and was not vetoed can win,
   in whatever order verifications end, fail and are judged.                 *)
THEOREM OnlyVerifiedWin == Spec => []WinnersAreVerified
<1>1. ASSUME IInv, NEW c \in winners
      PROVE  quality[c] = "green" /\ c \notin vetoed /\ row[c] = "passed"
  <2>. c \in Passing
    BY <1>1 DEF IInv, JudgeIsLast
  <2>. QED  BY <1>1 DEF IInv, VerdictOnce, PassedIsEarned, Passing
<1>2. IInv => WinnersAreVerified
  BY <1>1 DEF WinnersAreVerified
<1>. QED  BY <1>2, Inductive, PTL

(* A verify_all that returns has no verification left behind, and what it
   returns is what the rows say.                                             *)
THEOREM StoredIsReturned == Spec => []ReturnedIsStored
<1>1. IInv => ReturnedIsStored
  BY DEF IInv, TypeOK, AllOut, VerdictOnce, ReturnedIsStored
<1>. QED  BY <1>1, Inductive, PTL

(* When candidates passed, the judge picks one, unless it raises. *)
THEOREM OneIsPicked == Spec => []JudgePicksOne
<1>1. IInv => JudgePicksOne
  BY DEF IInv, TypeOK, JudgeIsLast, JudgePicksOne
<1>. QED  BY <1>1, Inductive, PTL

-----------------------------------------------------------------------------
(* Planning.                                                                *)

(* What is on the stack is gray, once, and each call was made for a dependency
   of the one below it.                                                      *)
GrayIsOnPath ==
  /\ \A n \in Ids : color[n] = "gray" <=> \E i \in 1..Len(path) : path[i] = n
  /\ \A i, j \in 1..Len(path) : path[i] = path[j] => i = j
  /\ \A i \in 1..Len(path) : i > 1 => path[i] \in Deps(path[i - 1])

(* What the loop of a call has looked at is black, but for the next call. *)
LookedAt ==
  \A i \in 1..Len(path) :
    /\ left[path[i]] \subseteq Deps(path[i])
    /\ \A d \in Deps(path[i]) \ left[path[i]] :
         color[d] = "black" \/ (i < Len(path) /\ d = path[i + 1])

Black == {n \in Ids : color[n] = "black"}

(* Black tasks depend on black tasks only, and on no cycle of them. *)
BlackIsSafe ==
  /\ \A n \in Black : Deps(n) \subseteq Black
  /\ \A S \in SUBSET Black : S # {} => \E n \in S : Deps(n) \cap S = {}

(* What was established before the search. *)
Listed ==
  /\ answer \in Answers \cup Repairs /\ answer.kind = "plan" /\ answer.tasks # <<>>
  /\ \A i, j \in DOMAIN answer.tasks : answer.tasks[i].id = answer.tasks[j].id => i = j
  /\ KnownDeps(answer.tasks)
  /\ rounds \in 1..2

Searching == Listed /\ GrayIsOnPath /\ LookedAt /\ BlackIsSafe

Begun ==
  /\ phase = "asking" => answer = Garbled /\ rounds = 0
  /\ phase = "repairing" => rounds = 1

PlanIInv ==
  /\ PlanTypeOK
  /\ AcceptsExactlyPlans
  /\ Begun
  /\ phase = "checking" => Searching
-----------------------------------------------------------------------------
(* Lemmas.                                                                  *)

(* The length of the list tells whether an id is repeated. *)
LEMMA DistinctByLength ==
  ASSUME NEW T, NEW tasks \in Seq(T)
  PROVE  DistinctIds(tasks) <=> \A i, j \in DOMAIN tasks : tasks[i].id = tasks[j].id => i = j
<1>. DEFINE I == DOMAIN tasks
            f == [i \in I |-> tasks[i].id]
<1>1. I = 1..Len(tasks) /\ Len(tasks) \in Nat
  OBVIOUS
<1>2. IsFiniteSet(I) /\ Cardinality(I) = Len(tasks)
  BY <1>1, FS_Interval
<1>3. f \in Surjection(I, IdsOf(tasks))
  BY DEF Surjection, IdsOf
<1>4. Cardinality(IdsOf(tasks)) = Cardinality(I) <=> f \in Injection(I, IdsOf(tasks))
  BY <1>2, <1>3, FS_Surjection
<1>5. f \in Injection(I, IdsOf(tasks)) <=> \A i, j \in I : tasks[i].id = tasks[j].id => i = j
  BY <1>3 DEF Injection, IsInjective, Surjection
<1>. QED  BY <1>2, <1>4, <1>5 DEF DistinctIds

(* Of a task whose dependencies are all black, and which is not, nothing black
   depends: it closes no cycle.                                              *)
LEMMA OneMoreBlack ==
  ASSUME BlackIsSafe, NEW n \in Ids \ Black, Deps(n) \subseteq Black
  PROVE  \A S \in SUBSET (Black \cup {n}) : S # {} => \E m \in S : Deps(m) \cap S = {}
<1>. SUFFICES ASSUME NEW S \in SUBSET (Black \cup {n}), S # {}
              PROVE  \E m \in S : Deps(m) \cap S = {}
  OBVIOUS
<1>1. CASE S \ {n} = {}
  <2>1. S = {n}
    BY <1>1
  <2>. QED  BY <2>1
<1>2. CASE S \ {n} # {}
  <2>1. S \ {n} \in SUBSET Black
    OBVIOUS
  <2>2. PICK m \in S \ {n} : Deps(m) \cap (S \ {n}) = {}
    BY <1>2, <2>1 DEF BlackIsSafe
  <2>3. n \notin Deps(m)
    BY <2>1, <2>2 DEF BlackIsSafe
  <2>. QED  BY <2>2, <2>3
<1>. QED  BY <1>1, <1>2

(* The search stays within the plan. *)
LEMMA DepsAreIds ==
  ASSUME Listed
  PROVE  \A n \in Ids : Deps(n) \in SUBSET Ids
BY DEF Listed, KnownDeps, Ids, Deps, DepsOf

(* A dependency that is on the stack closes a cycle: from it up to the top. *)
LEMMA BackEdgeIsCycle ==
  ASSUME PlanIInv, Listed, phase = "checking", path # <<>>,
         GrayIsOnPath, LookedAt, NEW d \in left[Top], color[d] = "gray"
  PROVE  ~IsPlan(answer)
<1>1. path \in Seq(Ids) /\ Len(path) \in Nat \ {0}
  BY DEF PlanIInv, PlanTypeOK
<1>2. Top \in Ids /\ d \in Deps(Top) /\ d \in Ids
  BY <1>1, DepsAreIds DEF LookedAt, Top
<1>3. PICK k \in 1..Len(path) : path[k] = d
  BY <1>2 DEF GrayIsOnPath
<1>. DEFINE S == {path[j] : j \in k..Len(path)}
<1>4. S \in SUBSET Ids /\ S # {}
  <2>1. \A j \in k..Len(path) : path[j] \in Ids
    BY <1>1, <1>3
  <2>2. d \in S
    BY <1>1, <1>3
  <2>. QED  BY <2>1, <2>2
<1>5. \A n \in S : Deps(n) \cap S # {}
  <2>. SUFFICES ASSUME NEW j \in k..Len(path) PROVE Deps(path[j]) \cap S # {}
    OBVIOUS
  <2>0. k \in Nat \ {0} /\ j \in Nat /\ k <= j /\ j <= Len(path)
    BY <1>1, <1>3
  <2>1. CASE j = Len(path)
    BY <1>1, <1>2, <1>3, <2>1 DEF Top
  <2>2. CASE j # Len(path)
    <3>1. j < Len(path)
      BY <1>1, <2>0, <2>2
    <3>2. j + 1 \in 1..Len(path) /\ j + 1 \in k..Len(path) /\ j + 1 > 1 /\ (j + 1) - 1 = j
      BY <1>1, <2>0, <3>1
    <3>3. path[j + 1] \in Deps(path[j])
      BY <3>2 DEF GrayIsOnPath
    <3>. QED  BY <3>2, <3>3
  <2>. QED  BY <2>1, <2>2
<1>6. ~AcyclicPlan(answer.tasks)
  BY <1>4, <1>5 DEF AcyclicPlan, Ids, Deps
<1>. QED  BY <1>6 DEF IsPlan

(* The answer stays, and so does its graph. *)
LEMMA SameGraph ==
  ASSUME UNCHANGED <<answer, rounds>>
  PROVE  /\ Ids' = Ids /\ \A n : Deps(n)' = Deps(n)
         /\ (Listed => Listed') /\ (IsPlan(answer)' <=> IsPlan(answer))
BY DEF Ids, Deps, Listed

(* A call of visit(n) begins, from the loop of the last one if there is one. *)
LEMMA Entered ==
  ASSUME PlanIInv, phase = "checking", UNCHANGED <<phase, answer, rounds>>,
         NEW n \in Ids, color[n] = "white",
         path # <<>> => n \in left[Top],
         color' = [color EXCEPT ![n] = "gray"],
         path' = Append(path, n),
         left' \in [Ids -> SUBSET Ids], left'[n] = Deps(n),
         \A i \in 1..Len(path) :
           left'[path[i]] = IF i = Len(path) THEN left[path[i]] \ {n} ELSE left[path[i]]
  PROVE  PlanIInv'
<1>. DEFINE L == Len(path)
<1>1. Searching /\ Listed /\ GrayIsOnPath /\ LookedAt /\ BlackIsSafe
  BY DEF PlanIInv, Searching
<1>2. /\ path \in Seq(Ids) /\ L \in Nat /\ answer.kind = "plan"
      /\ color \in [Ids -> {"white", "gray", "black"}]
  BY DEF PlanIInv, PlanTypeOK
<1>3. /\ path' \in Seq(Ids) /\ Len(path') = L + 1 /\ path'[L + 1] = n
      /\ \A i \in 1..L : path'[i] = path[i] /\ path[i] \in Ids /\ path[i] # n
  <2>1. \A i \in 1..L : path[i] \in Ids
    BY <1>2
  <2>2. \A i \in 1..L : path[i] # n
    BY <1>1, <2>1 DEF GrayIsOnPath
  <2>. QED  BY <1>2, <2>1, <2>2
<1>4. Ids' = Ids /\ (\A m : Deps(m)' = Deps(m)) /\ Listed'
  BY <1>1, SameGraph
<1>5. PlanTypeOK'
  BY <1>2, <1>3, <1>4 DEF PlanIInv, PlanTypeOK
<1>6. GrayIsOnPath'
  <2>1. \A m \in Ids : color'[m] = "gray" <=> \E i \in 1..(L + 1) : path'[i] = m
    BY <1>1, <1>2, <1>3 DEF GrayIsOnPath
  <2>2. \A i, j \in 1..(L + 1) : path'[i] = path'[j] => i = j
    BY <1>1, <1>2, <1>3 DEF GrayIsOnPath
  <2>3. \A i \in 1..(L + 1) : i > 1 => path'[i] \in Deps(path'[i - 1])
    <3>. SUFFICES ASSUME NEW i \in 1..(L + 1), i > 1 PROVE path'[i] \in Deps(path'[i - 1])
      OBVIOUS
    <3>1. CASE i \in 1..L
      BY <1>1, <1>2, <1>3, <3>1 DEF GrayIsOnPath
    <3>2. CASE i = L + 1
      <4>1. L \in 1..L /\ path # <<>> /\ i - 1 = L
        BY <1>2, <3>2
      <4>2. n \in Deps(path[L])
        BY <1>1, <4>1 DEF LookedAt, Top
      <4>. QED  BY <1>3, <3>2, <4>1, <4>2
    <3>. QED  BY <1>2, <3>1, <3>2
  <2>. QED  BY <1>3, <1>4, <2>1, <2>2, <2>3 DEF GrayIsOnPath
<1>7. LookedAt'
  <2>. SUFFICES ASSUME NEW i \in 1..(L + 1)
                PROVE  /\ left'[path'[i]] \subseteq Deps(path'[i])
                       /\ \A d \in Deps(path'[i]) \ left'[path'[i]] :
                            color'[d] = "black" \/ (i < L + 1 /\ d = path'[i + 1])
    BY <1>3, <1>4 DEF LookedAt
  <2>1. CASE i = L + 1
    BY <1>3, <2>1
  <2>2. CASE i \in 1..L /\ i # L
    <3>1. i < L /\ i + 1 \in 1..L
      BY <1>2, <2>2
    <3>2. path'[i] = path[i] /\ path'[i + 1] = path[i + 1] /\ left'[path[i]] = left[path[i]]
      BY <1>3, <2>2, <3>1
    <3>3. \A d \in Ids : color[d] = "black" => color'[d] = "black"
      BY <1>2
    <3>4. /\ left[path[i]] \subseteq Deps(path[i])
          /\ \A d \in Deps(path[i]) \ left[path[i]] : color[d] = "black" \/ d = path[i + 1]
      BY <1>1, <2>2 DEF LookedAt
    <3>5. Deps(path[i]) \in SUBSET Ids
      BY <1>1, <1>3, <2>2, DepsAreIds
    <3>. QED  BY <1>2, <3>1, <3>2, <3>3, <3>4, <3>5
  <2>3. CASE i \in 1..L /\ i = L
    <3>1. left'[path'[i]] = left[path[i]] \ {n} /\ path'[i + 1] = n
      BY <1>2, <1>3, <2>3
    <3>2. \A d \in Ids : color[d] = "black" => color'[d] = "black"
      BY <1>2
    <3>. QED  BY <1>1, <1>2, <1>3, <2>3, <3>1, <3>2, DepsAreIds DEF LookedAt
  <2>. QED  BY <1>2, <2>1, <2>2, <2>3
<1>8. BlackIsSafe'
  <2>1. Black' = Black
    BY <1>2, <1>4 DEF Black
  <2>. QED  BY <1>1, <1>4, <2>1 DEF BlackIsSafe
<1>9. AcceptsExactlyPlans'
  BY DEF AcceptsExactlyPlans
<1>. QED  BY <1>4, <1>5, <1>6, <1>7, <1>8, <1>9 DEF PlanIInv, Searching, Begun

LEMMA IInvVisitRoot ==
  ASSUME PlanIInv, NEW i \in DOMAIN answer.tasks, VisitRoot(i)
  PROVE  PlanIInv'
<1>1. answer.tasks[i].id \in Ids /\ Listed /\ path = <<>>
  BY DEF VisitRoot, PlanIInv, Searching, Ids, IdsOf
<1>2. left' \in [Ids -> SUBSET Ids] /\ left'[answer.tasks[i].id] = Deps(answer.tasks[i].id)
  BY <1>1, DepsAreIds DEF VisitRoot, Enter, PlanIInv, PlanTypeOK
<1>3. \A j \in 1..Len(path) : FALSE
  BY <1>1
<1>. QED  BY <1>1, <1>2, <1>3, Entered DEF VisitRoot, Enter

(* The loop of the last call looks at a dependency. *)
LEMMA IInvFollow ==
  ASSUME PlanIInv, NEW d \in Ids, Follow(d)
  PROVE  PlanIInv'
<1>1. /\ phase = "checking" /\ path # <<>> /\ d \in left[Top] /\ UNCHANGED <<answer, rounds>>
      /\ Searching /\ Listed /\ GrayIsOnPath /\ LookedAt /\ BlackIsSafe
  BY DEF Follow, PlanIInv, Searching
<1>2. /\ path \in Seq(Ids) /\ Len(path) \in Nat \ {0} /\ answer.kind = "plan"
      /\ color \in [Ids -> {"white", "gray", "black"}] /\ left \in [Ids -> SUBSET Ids]
  BY <1>1 DEF PlanIInv, PlanTypeOK
<1>3. Top \in Ids /\ Top = path[Len(path)] /\ color[Top] = "gray"
  BY <1>1, <1>2 DEF Top, GrayIsOnPath
<1>4. CASE BackEdge(d)
  <2>1. phase' = Refused(rounds) /\ phase' \in {"repairing", "failed"} /\ UNCHANGED search
    BY <1>4 DEF Follow, Refused
  <2>2. ~IsPlan(answer)
    BY <1>1, <1>4, BackEdgeIsCycle DEF BackEdge
  <2>3. ~IsPlan(answer)'
    BY <1>1, <2>2, SameGraph
  <2>4. PlanTypeOK'
    BY <1>1, <2>1 DEF PlanIInv, PlanTypeOK
  <2>. QED  BY <1>1, <2>1, <2>3, <2>4 DEF PlanIInv, AcceptsExactlyPlans, Begun, Refused
<1>5. CASE color[d] = "white"
  <2>1. /\ UNCHANGED phase
        /\ color' = [color EXCEPT ![d] = "gray"] /\ path' = Append(path, d)
        /\ left' = [left EXCEPT ![Top] = @ \ {d}, ![d] = Deps(d)]
    BY <1>5 DEF Follow, BackEdge
  <2>2. left' \in [Ids -> SUBSET Ids] /\ left'[d] = Deps(d)
    BY <1>1, <1>2, <1>3, <2>1, DepsAreIds
  <2>3. \A i \in 1..Len(path) : path[i] \in Ids /\ path[i] # d
    BY <1>1, <1>2, <1>5 DEF GrayIsOnPath
  <2>4. \A i \in 1..Len(path) : path[i] = Top <=> i = Len(path)
    BY <1>1, <1>2, <1>3 DEF GrayIsOnPath
  <2>5. \A i \in 1..Len(path) :
          left'[path[i]] = IF i = Len(path) THEN left[path[i]] \ {d} ELSE left[path[i]]
    BY <1>2, <1>3, <2>1, <2>3, <2>4
  <2>. QED  BY <1>1, <1>5, <2>1, <2>2, <2>5, Entered
<1>6. CASE color[d] = "black"
  <2>1. left' = [left EXCEPT ![Top] = @ \ {d}] /\ UNCHANGED <<phase, color, path>>
    BY <1>6 DEF Follow, BackEdge
  <2>2. Ids' = Ids /\ (\A m : Deps(m)' = Deps(m)) /\ Listed'
    BY <1>1, SameGraph
  <2>3. PlanTypeOK'
    BY <1>1, <1>2, <1>3, <2>1, <2>2 DEF PlanIInv, PlanTypeOK
  <2>4. GrayIsOnPath' /\ BlackIsSafe'
    <3>1. Black' = Black
      BY <2>1, <2>2 DEF Black
    <3>. QED  BY <1>1, <2>1, <2>2, <3>1 DEF GrayIsOnPath, BlackIsSafe
  <2>5. LookedAt'
    <3>. SUFFICES ASSUME NEW i \in 1..Len(path)
                  PROVE  /\ left'[path[i]] \subseteq Deps(path[i])
                         /\ \A e \in Deps(path[i]) \ left'[path[i]] :
                              color[e] = "black" \/ (i < Len(path) /\ e = path[i + 1])
      BY <2>1, <2>2 DEF LookedAt
    <3>1. path[i] \in Ids
      BY <1>2
    <3>2. left'[path[i]] = left[path[i]] \/ left'[path[i]] = left[path[i]] \ {d}
      BY <1>2, <1>3, <2>1, <3>1
    <3>. QED  BY <1>1, <1>6, <3>2 DEF LookedAt
  <2>6. AcceptsExactlyPlans'
    BY <1>1, <2>1 DEF AcceptsExactlyPlans
  <2>. QED  BY <1>1, <2>1, <2>2, <2>3, <2>4, <2>5, <2>6 DEF PlanIInv, Searching, Begun
<1>. QED  BY <1>2, <1>4, <1>5, <1>6 DEF BackEdge

(* The last call is over. *)
LEMMA IInvLeave ==
  ASSUME PlanIInv, Leave
  PROVE  PlanIInv'
<1>. DEFINE n == Top
<1>1. /\ phase = "checking" /\ path # <<>> /\ left[n] = {}
      /\ UNCHANGED <<phase, answer, rounds, left>>
      /\ color' = [color EXCEPT ![n] = "black"]
      /\ path' = SubSeq(path, 1, Len(path) - 1)
      /\ Searching /\ Listed /\ GrayIsOnPath /\ LookedAt /\ BlackIsSafe
  BY DEF Leave, PlanIInv, Searching
<1>2. /\ path \in Seq(Ids) /\ Len(path) \in Nat \ {0} /\ answer.kind = "plan"
      /\ color \in [Ids -> {"white", "gray", "black"}] /\ left \in [Ids -> SUBSET Ids]
  BY <1>1 DEF PlanIInv, PlanTypeOK
<1>3. n \in Ids /\ n = path[Len(path)] /\ color[n] = "gray"
  BY <1>1, <1>2 DEF Top, GrayIsOnPath
<1>4. /\ path' \in Seq(Ids) /\ Len(path') = Len(path) - 1 /\ Len(path') \in Nat
      /\ \A i \in 1..Len(path') : i \in 1..Len(path) /\ path'[i] = path[i] /\ path[i] \in Ids
  <2>1. /\ path' \in Seq(Ids) /\ Len(path') = Len(path) - 1
        /\ \A i \in 1..(Len(path) - 1) : path'[i] = path[i]
    <3>1. \A i \in 1..(Len(path) - 1) : path[i] \in Ids
      BY <1>2
    <3>2. Len(path) - 1 \in Int /\ 1 \in Int /\ (Len(path) - 1) - 1 + 1 = Len(path) - 1
      BY <1>2
    <3>3. /\ SubSeq(path, 1, Len(path) - 1) \in Seq(Ids)
          /\ Len(SubSeq(path, 1, Len(path) - 1)) =
             IF 1 <= Len(path) - 1 THEN (Len(path) - 1) - 1 + 1 ELSE 0
          /\ \A i \in 1..((Len(path) - 1) - 1 + 1) :
               SubSeq(path, 1, Len(path) - 1)[i] = path[1 + i - 1]
      BY <3>1, <3>2, SubSeqProperties
    <3>4. \A i \in 1..(Len(path) - 1) : i \in 1..((Len(path) - 1) - 1 + 1) /\ 1 + i - 1 = i
      BY <1>2
    <3>5. (IF 1 <= Len(path) - 1 THEN (Len(path) - 1) - 1 + 1 ELSE 0) = Len(path) - 1
      <4>1. \A m \in Nat : (IF 1 <= m THEN m - 1 + 1 ELSE 0) = m
        OBVIOUS
      <4>2. Len(path) - 1 \in Nat
        BY <1>2
      <4>. QED  BY <4>1, <4>2
    <3>6. \A i \in 1..(Len(path) - 1) : SubSeq(path, 1, Len(path) - 1)[i] = path[i]
      BY <3>3, <3>4
    <3>. QED  BY <1>1, <3>3, <3>5, <3>6
  <2>2. \A i \in 1..(Len(path) - 1) : i \in 1..Len(path)
    BY <1>2
  <2>3. \A i \in 1..Len(path) : path[i] \in Ids
    BY <1>2
  <2>. QED  BY <1>2, <2>1, <2>2, <2>3
<1>5. Ids' = Ids /\ (\A m : Deps(m)' = Deps(m)) /\ Listed'
  BY <1>1, SameGraph
<1>6. \A i \in 1..Len(path') : path[i] # n
  BY <1>1, <1>2, <1>3, <1>4 DEF GrayIsOnPath
<1>7. PlanTypeOK'
  BY <1>1, <1>2, <1>3, <1>4, <1>5 DEF PlanIInv, PlanTypeOK
<1>8. GrayIsOnPath'
  <2>1. \A m \in Ids : color'[m] = "gray" <=> \E i \in 1..Len(path') : path'[i] = m
    <3>. SUFFICES ASSUME NEW m \in Ids
                  PROVE  color'[m] = "gray" <=> \E i \in 1..Len(path') : path'[i] = m
      OBVIOUS
    <3>1. CASE m = n
      BY <1>1, <1>2, <1>3, <1>4, <1>6, <3>1
    <3>2. CASE m # n
      <4>1. color'[m] = color[m]
        BY <1>1, <1>2, <3>2
      <4>2. \A i \in 1..Len(path) : path[i] = m => i \in 1..Len(path')
        BY <1>2, <1>3, <1>4, <3>2
      <4>. QED  BY <1>1, <1>4, <4>1, <4>2 DEF GrayIsOnPath
    <3>. QED  BY <3>1, <3>2
  <2>2. \A i, j \in 1..Len(path') : path'[i] = path'[j] => i = j
    BY <1>1, <1>4 DEF GrayIsOnPath
  <2>3. \A i \in 1..Len(path') : i > 1 => path'[i] \in Deps(path'[i - 1])
    BY <1>1, <1>4 DEF GrayIsOnPath
  <2>. QED  BY <1>5, <2>1, <2>2, <2>3 DEF GrayIsOnPath
<1>9. LookedAt'
  <2>. SUFFICES ASSUME NEW i \in 1..Len(path')
                PROVE  /\ left[path[i]] \subseteq Deps(path[i])
                       /\ \A d \in Deps(path[i]) \ left[path[i]] :
                            color'[d] = "black" \/ (i < Len(path') /\ d = path'[i + 1])
    BY <1>1, <1>4, <1>5 DEF LookedAt
  <2>1. i \in 1..Len(path) /\ Deps(path[i]) \in SUBSET Ids
    BY <1>1, <1>4, DepsAreIds
  <2>2. \A d \in Ids : color[d] = "black" => color'[d] = "black"
    BY <1>1, <1>2
  <2>3. ASSUME NEW d \in Deps(path[i]), i < Len(path), d = path[i + 1]
        PROVE  color'[d] = "black" \/ (i < Len(path') /\ d = path'[i + 1])
    <3>1. CASE i + 1 = Len(path)
      BY <1>1, <1>2, <1>3, <2>3, <3>1
    <3>2. CASE i + 1 # Len(path)
      <4>1. i < Len(path') /\ i + 1 \in 1..Len(path')
        BY <1>2, <1>4, <2>3, <3>2
      <4>. QED  BY <1>4, <2>3, <4>1
    <3>. QED  BY <3>1, <3>2
  <2>. QED  BY <1>1, <2>1, <2>2, <2>3 DEF LookedAt
<1>10. BlackIsSafe'
  <2>1. Black' = Black \cup {n} /\ n \in Ids \ Black
    BY <1>1, <1>2, <1>3, <1>5 DEF Black
  <2>2. Deps(n) \subseteq Black
    <3>1. \A d \in Deps(n) : color[d] = "black"
      BY <1>1, <1>2, <1>3 DEF LookedAt
    <3>. QED  BY <1>1, <1>3, <3>1, DepsAreIds DEF Black
  <2>3. \A S \in SUBSET Black' : S # {} => \E m \in S : Deps(m) \cap S = {}
    BY <1>1, <2>1, <2>2, OneMoreBlack
  <2>4. \A m \in Black' : Deps(m) \subseteq Black'
    BY <1>1, <2>1, <2>2 DEF BlackIsSafe
  <2>. QED  BY <1>5, <2>3, <2>4 DEF BlackIsSafe
<1>11. AcceptsExactlyPlans'
  BY <1>1 DEF AcceptsExactlyPlans
<1>. QED  BY <1>1, <1>5, <1>7, <1>8, <1>9, <1>10, <1>11 DEF PlanIInv, Searching, Begun

(* The search is over: all tasks are black. *)
LEMMA IInvAccept ==
  ASSUME PlanIInv, Accept
  PROVE  PlanIInv'
<1>1. /\ phase = "checking" /\ phase' = "accepted" /\ path = <<>>
      /\ UNCHANGED <<answer, rounds, search>>
      /\ \A n \in Ids : color[n] # "white"
      /\ Listed /\ GrayIsOnPath /\ BlackIsSafe
  BY DEF Accept, PlanIInv, Searching
<1>2. Black = Ids
  BY <1>1 DEF GrayIsOnPath, Black, PlanIInv, PlanTypeOK
<1>3. AcyclicPlan(answer.tasks)
  BY <1>1, <1>2 DEF BlackIsSafe, AcyclicPlan, Ids, Deps
<1>4. IsPlan(answer)'
  BY <1>1, <1>3, SameGraph DEF IsPlan, Listed, KnownDeps
<1>5. PlanTypeOK'
  BY <1>1, SameGraph DEF PlanIInv, PlanTypeOK, search
<1>. QED  BY <1>1, <1>4, <1>5 DEF PlanIInv, AcceptsExactlyPlans, Begun

(* An answer comes in. *)
LEMMA IInvAnswered ==
  ASSUME PlanIInv, NEW a \in Answers \cup Repairs, Answered(a), rounds \in 0..1,
         phase \in {"asking", "repairing"}
  PROVE  PlanIInv'
<1>1. \/ a \in {Garbled, Odd}
      \/ a = PlanOf(a.tasks) /\ a.tasks \in Seq({a.tasks[i] : i \in DOMAIN a.tasks})
  BY AnswersAssumption
<1>2. /\ answer' = a /\ rounds' \in 1..2 /\ phase' = Parsed(a, rounds')
      /\ Ids' = IdsOf(a.tasks) /\ color' = [n \in Ids' |-> "white"]
      /\ left' = [n \in Ids' |-> {}] /\ path' = <<>>
  BY DEF Answered, Ids
<1>3. phase' \in {"checking", "repairing", "failed", "raised"}
  BY <1>2 DEF Parsed, Refused
<1>4. CASE phase' = "checking"
  <2>1. a.kind = "plan" /\ a.tasks # <<>> /\ DistinctIds(a.tasks) /\ KnownDeps(a.tasks)
    BY <1>1, <1>2, <1>4 DEF Parsed, Refused, Garbled, Odd, PlanOf
  <2>2. a.tasks \in Seq({a.tasks[i] : i \in DOMAIN a.tasks})
    BY <1>1, <2>1 DEF Garbled, Odd
  <2>3. Listed'
    BY <1>2, <2>1, <2>2, DistinctByLength DEF Listed
  <2>4. PlanTypeOK'
    BY <1>2, <1>4, <2>1 DEF PlanTypeOK
  <2>5. Black' = {}
    BY <1>2 DEF Black
  <2>6. GrayIsOnPath' /\ LookedAt' /\ BlackIsSafe'
    BY <1>2, <2>5 DEF GrayIsOnPath, LookedAt, BlackIsSafe
  <2>. QED  BY <1>4, <2>3, <2>4, <2>6 DEF PlanIInv, Searching, AcceptsExactlyPlans, Begun
<1>5. CASE phase' # "checking"
  <2>1. ~IsPlan(a)
    <3>. SUFFICES ASSUME IsPlan(a) PROVE FALSE
      OBVIOUS
    <3>1. a.kind = "plan" /\ a.tasks # <<>> /\ KnownDeps(a.tasks)
      BY DEF IsPlan, KnownDeps
    <3>2. a.tasks \in Seq({a.tasks[i] : i \in DOMAIN a.tasks})
      BY <1>1, <3>1 DEF Garbled, Odd
    <3>3. DistinctIds(a.tasks)
      BY <3>2, DistinctByLength DEF IsPlan
    <3>. QED  BY <1>2, <1>5, <3>1, <3>3 DEF Parsed
  <2>2. PlanTypeOK'
    BY <1>2, <1>3, <1>5 DEF PlanTypeOK
  <2>3. phase' = "repairing" => rounds' = 1
    BY <1>2 DEF Parsed, Refused
  <2>. QED  BY <1>2, <1>3, <1>5, <2>1, <2>2, <2>3 DEF PlanIInv, AcceptsExactlyPlans, Begun
<1>. QED  BY <1>4, <1>5

(* The run of the agent ends without an answer. *)
LEMMA IInvNoAnswer ==
  ASSUME PlanIInv, NotFinished \/ ChatRaises
  PROVE  PlanIInv'
<1>1. /\ phase \in {"asking", "repairing"} /\ phase' \in {"failed", "raised"}
      /\ UNCHANGED <<answer, rounds, search>>
  BY DEF NotFinished, ChatRaises
<1>2. ~IsPlan(answer)
  <2>1. CASE phase = "asking"
    BY <2>1 DEF PlanIInv, Begun, Garbled, IsPlan
  <2>2. CASE phase = "repairing"
    BY <2>2 DEF PlanIInv, AcceptsExactlyPlans
  <2>. QED  BY <1>1, <2>1, <2>2
<1>3. ~IsPlan(answer)'
  BY <1>1, <1>2, SameGraph
<1>. QED  BY <1>1, <1>3 DEF PlanIInv, PlanTypeOK, AcceptsExactlyPlans, Begun

LEMMA PlanInductive == PlanSpec => []PlanIInv
<1>1. PlanInit => PlanIInv
  BY DEF PlanInit, PlanIInv, PlanTypeOK, AcceptsExactlyPlans, Begun
<1>2. ASSUME PlanIInv, [PlanNext]_planVars
      PROVE  PlanIInv'
  <2>1. ASSUME NEW a \in Answers, FirstAnswer(a) PROVE PlanIInv'
    BY <1>2, <2>1, IInvAnswered DEF FirstAnswer, PlanIInv, Begun
  <2>2. ASSUME NEW a \in Repairs, RepairAnswer(a) PROVE PlanIInv'
    BY <1>2, <2>2, IInvAnswered DEF RepairAnswer, PlanIInv, Begun
  <2>3. ASSUME NEW i \in DOMAIN answer.tasks, VisitRoot(i) PROVE PlanIInv'
    BY <1>2, <2>3, IInvVisitRoot
  <2>4. ASSUME NEW d \in Ids, Follow(d) PROVE PlanIInv'
    BY <1>2, <2>4, IInvFollow
  <2>5. CASE Leave
    BY <1>2, <2>5, IInvLeave
  <2>6. CASE Accept
    BY <1>2, <2>6, IInvAccept
  <2>7. CASE NotFinished \/ ChatRaises
    BY <1>2, <2>7, IInvNoAnswer
  <2>8. CASE UNCHANGED planVars
    <3>1. UNCHANGED <<phase, answer, rounds, color, path, left>>
      BY <2>8 DEF planVars, search
    <3>2. /\ Ids' = Ids /\ (\A n : Deps(n)' = Deps(n)) /\ (Listed => Listed')
          /\ (IsPlan(answer)' <=> IsPlan(answer)) /\ Black' = Black
      BY <3>1, SameGraph DEF Black, Ids
    <3>3. PlanTypeOK' /\ AcceptsExactlyPlans' /\ Begun'
      BY <1>2, <3>1, <3>2 DEF PlanIInv, PlanTypeOK, AcceptsExactlyPlans, Begun
    <3>4. Searching => Searching'
      BY <3>1, <3>2 DEF Searching, GrayIsOnPath, LookedAt, BlackIsSafe
    <3>. QED  BY <1>2, <3>1, <3>3, <3>4 DEF PlanIInv
  <2>. QED  BY <1>2, <2>1, <2>2, <2>3, <2>4, <2>5, <2>6, <2>7, <2>8 DEF PlanNext, PlanEnded
<1>. QED  BY <1>1, <1>2, PTL DEF PlanSpec

(* The planner's variables keep their types; it asks at most twice. *)
THEOREM PlanTypeCorrect == PlanSpec => []PlanTypeOK
BY PlanInductive, PTL DEF PlanIInv

(* validate_dag accepts a list of tasks if and only if its ids are distinct, its
   dependencies are among them and none of them lies on a cycle: for lists of any
   length, however the search comes across them (AcceptsExactlyPlans).       *)
THEOREM PlansAreAccepted == PlanSpec => []AcceptsExactlyPlans
BY PlanInductive, PTL DEF PlanIInv

-----------------------------------------------------------------------------
(* The search ends: it can always go on, and each step brings its end closer. *)

White == {n \in Ids : color[n] = "white"}

(* In a search that is not over a root, a dependency or a return is next. *)
SearchGoesOn ==
  phase = "checking" =>
    IF path = <<>>
    THEN \/ White = {}
         \/ \E i \in DOMAIN answer.tasks :
              /\ color[answer.tasks[i].id] = "white"
              /\ \A j \in 1..(i - 1) : color[answer.tasks[j].id] # "white"
    ELSE left[Top] = {} \/ \E d \in Ids : d \in left[Top]

(* A step of it leaves fewer tasks unvisited, or as many and a call less, or the
   same calls with a dependency less to look at.                             *)
Descends ==
  \/ Cardinality(White') < Cardinality(White)
  \/ White' = White /\ Len(path') < Len(path)
  \/ White' = White /\ path' = path /\ Cardinality(left'[Top]) < Cardinality(left[Top])

(* All of these are finite. *)
LEMMA SearchIsFinite ==
  ASSUME PlanIInv, phase = "checking"
  PROVE  /\ answer.tasks \in Seq({answer.tasks[i] : i \in DOMAIN answer.tasks})
         /\ IsFiniteSet(Ids)
         /\ \A S \in SUBSET Ids : IsFiniteSet(S) /\ Cardinality(S) \in Nat
<1>1. answer.tasks \in Seq({answer.tasks[i] : i \in DOMAIN answer.tasks})
  BY AnswersAssumption DEF PlanIInv, Searching, Listed, Garbled, Odd
<1>2. DOMAIN answer.tasks = 1..Len(answer.tasks) /\ Len(answer.tasks) \in Nat
  BY <1>1
<1>3. IsFiniteSet(DOMAIN answer.tasks)
  BY <1>2, FS_Interval
<1>. DEFINE f == [i \in DOMAIN answer.tasks |-> answer.tasks[i].id]
<1>4. f \in Surjection(DOMAIN answer.tasks, Ids)
  BY DEF Surjection, Ids, IdsOf
<1>5. IsFiniteSet(Ids)
  <2>. HIDE DEF f
  <2>. QED  BY <1>3, <1>4, FS_Surjection
<1>. QED  BY <1>1, <1>5, FS_Subset, FS_CardinalityType

LEMMA FewerWhite ==
  ASSUME PlanIInv, phase = "checking", NEW n \in White, Ids' = Ids,
         color' = [color EXCEPT ![n] = "gray"]
  PROVE  Cardinality(White') < Cardinality(White)
<1>1. White' = White \ {n}
  BY DEF White, PlanIInv, PlanTypeOK
<1>2. IsFiniteSet(White) /\ Cardinality(White) \in Nat
  BY SearchIsFinite DEF White
<1>3. Cardinality(White \ {n}) = Cardinality(White) - 1
  BY <1>2, FS_RemoveElement
<1>. QED  BY <1>1, <1>2, <1>3

(* The search of validate_dag is never without a next step: an unvisited root
   can be taken, or the call on top of the stack goes on or returns.         *)
THEOREM SearchIsNeverStuck == PlanSpec => []SearchGoesOn
<1>1. PlanIInv => SearchGoesOn
  <2>. SUFFICES ASSUME PlanIInv, phase = "checking"
                PROVE  SearchGoesOn
    BY DEF SearchGoesOn
  <2>1. CASE path = <<>> /\ White # {}
    <3>. DEFINE I == {i \in DOMAIN answer.tasks : color[answer.tasks[i].id] = "white"}
    <3>1. DOMAIN answer.tasks = 1..Len(answer.tasks) /\ Len(answer.tasks) \in Nat
      BY SearchIsFinite
    <3>2. I \in SUBSET Nat /\ I # {}
      BY <2>1, <3>1 DEF White, Ids, IdsOf
    <3>3. PICK i \in I : \A j \in I : i <= j
      <4>. HIDE DEF I
      <4>. QED  BY <3>2, LeastNatural
    <3>4. \A j \in 1..(i - 1) : j \in DOMAIN answer.tasks /\ ~ (i <= j)
      BY <3>1
    <3>. QED  BY <2>1, <3>3, <3>4 DEF SearchGoesOn
  <2>2. CASE path = <<>> /\ White = {}
    BY <2>2 DEF SearchGoesOn
  <2>3. CASE path # <<>>
    <3>1. path \in Seq(Ids) /\ Len(path) \in Nat \ {0}
      BY <2>3 DEF PlanIInv, PlanTypeOK
    <3>2. Top \in Ids
      BY <3>1 DEF Top
    <3>3. left[Top] \in SUBSET Ids
      BY <3>2 DEF PlanIInv, PlanTypeOK
    <3>. QED  BY <2>3, <3>3 DEF SearchGoesOn
  <2>. QED  BY <2>1, <2>2, <2>3
<1>. QED  BY <1>1, PlanInductive, PTL

(* Each of its steps goes down in an order without infinite descents, so that it
   accepts or refuses after finitely many: visit is entered once for each task,
   and looks at each dependency once.                                        *)
THEOREM SearchDescends ==
  PlanSpec => [][phase = "checking" /\ phase' = "checking" => Descends]_planVars
<1>1. ASSUME PlanIInv, PlanNext, phase = "checking", phase' = "checking"
      PROVE  Descends
  <2>0. /\ path \in Seq(Ids) /\ Len(path) \in Nat
        /\ color \in [Ids -> {"white", "gray", "black"}] /\ left \in [Ids -> SUBSET Ids]
    BY <1>1 DEF PlanIInv, PlanTypeOK
  <2>1. ASSUME NEW i \in DOMAIN answer.tasks, VisitRoot(i)
        PROVE  Descends
    <3>1. answer.tasks[i].id \in White /\ Ids' = Ids
      BY <2>1 DEF VisitRoot, White, Ids, IdsOf
    <3>. QED  BY <1>1, <2>1, <3>1, FewerWhite DEF VisitRoot, Enter, Descends
  <2>2. ASSUME NEW d \in Ids, Follow(d)
        PROVE  Descends
    <3>1. UNCHANGED answer /\ Ids' = Ids /\ path # <<>> /\ d \in left[Top]
      BY <2>2 DEF Follow, Ids
    <3>2. ~BackEdge(d)
      BY <1>1, <2>2 DEF Follow, Refused
    <3>3. CASE color[d] = "white"
      <4>1. d \in White /\ color' = [color EXCEPT ![d] = "gray"]
        BY <2>2, <3>2, <3>3 DEF Follow, White
      <4>. QED  BY <1>1, <3>1, <4>1, FewerWhite DEF Descends
    <3>4. CASE color[d] # "white"
      <4>1. left' = [left EXCEPT ![Top] = @ \ {d}] /\ UNCHANGED <<color, path>>
        BY <2>2, <3>2, <3>4 DEF Follow
      <4>2. Top \in Ids
        BY <2>0, <3>1 DEF Top
      <4>3. left'[Top] = left[Top] \ {d} /\ left[Top] \in SUBSET Ids
        BY <2>0, <4>1, <4>2
      <4>4. IsFiniteSet(left[Top]) /\ Cardinality(left[Top]) \in Nat
        BY <1>1, <4>3, SearchIsFinite
      <4>5. Cardinality(left'[Top]) = Cardinality(left[Top]) - 1
        <5>1. Cardinality(left[Top] \ {d}) = Cardinality(left[Top]) - 1
          BY <3>1, <4>4, FS_RemoveElement
        <5>. QED  BY <4>3, <5>1
      <4>6. White' = White
        BY <3>1, <4>1 DEF White
      <4>. QED  BY <4>1, <4>4, <4>5, <4>6 DEF Descends
    <3>. QED  BY <3>3, <3>4
  <2>3. CASE Leave
    <3>1. /\ path # <<>> /\ UNCHANGED answer /\ Ids' = Ids
          /\ color' = [color EXCEPT ![Top] = "black"]
          /\ path' = SubSeq(path, 1, Len(path) - 1)
      BY <2>3 DEF Leave, Ids
    <3>2. Len(path) \in Nat \ {0} /\ Top \in Ids /\ color[Top] = "gray"
      BY <1>1, <2>0, <3>1 DEF Top, PlanIInv, Searching, GrayIsOnPath
    <3>3. White' = White
      BY <2>0, <3>1, <3>2 DEF White
    <3>4. Len(path') < Len(path)
      BY <2>0, <3>1, <3>2
    <3>. QED  BY <3>3, <3>4 DEF Descends
  <2>. QED  BY <1>1, <2>1, <2>2, <2>3 DEF PlanNext, FirstAnswer, RepairAnswer, Accept,
               NotFinished, ChatRaises, PlanEnded
<1>2. PlanIInv /\ [PlanNext]_planVars =>
        [phase = "checking" /\ phase' = "checking" => Descends]_planVars
  BY <1>1
<1>. QED  BY <1>2, PlanInductive, PTL DEF PlanSpec
=============================================================================
