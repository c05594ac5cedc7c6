----------------------------- MODULE Verification -----------------------------
(* From the pool's candidates to the winners: the verifier checks all of them
   at once, a few at a time, each in a sandbox of its own
   (orchestrator/verifier.py), then the judge ranks those that passed
   (orchestrator/judge.py).  A verification suspends in create, apply, pytest,
   the verifier agent and teardown.                                         *)
EXTENDS Naturals, FiniteSets, Sequences

CONSTANTS
  Cands,    \* the mission's candidates, numbered in order of creation
  Former,   \* those that a killed run of the mission may have verified before
  Slots,    \* Semaphore(4)
  Ghost,    \* a candidate id the judge made up
  MaxRanks  \* bound: entries of the judge's ranking

ASSUME CandsAssumption ==
  Cands \subseteq Nat /\ IsFiniteSet(Cands) /\ Cands # {} /\ Ghost \notin Cands
  /\ Former \subseteq Cands
ASSUME BoundsAssumption == Slots \in Nat \ {0} /\ MaxRanks \in Nat \ {0}

VARIABLES
  quality,  \* what is in each candidate's diff
  at,       \* how far the verification of each candidate has come
  row,      \* tests_passed column of each candidate
  result,   \* tests_passed of the dict each verification returns
  vetoed,   \* candidates of which the verifier agent said "passed" is false
  gather,   \* verify_all: "running", "returned" or "raised"
  judge,    \* the judge: "idle", "asking", "judged", "none" or "raised"
  ranking,  \* the ranking the judge stored
  winners   \* the candidates the judge returned (the merger sorts them)

checks  == <<at, row, result, vetoed, gather>>
verdict == <<judge, ranking, winners>>
vars    == <<quality, checks, verdict>>

Qualities == {"empty",  \* an empty diff
              "unfit",  \* git apply fails on main
              "red",    \* applies, pytest fails
              "green"}  \* applies, pytest passes

Stages == {"waiting", "creating", "applying", "testing", "asking", "teardown",
           "out", "lost"}

(* One entry of the judge's ranking. *)
Entries == [id : Cands \cup {Ghost}, winner : BOOLEAN]
Rankings == UNION {[1..n -> Entries] : n \in 0..MaxRanks}

TypeOK ==
  /\ quality \in [Cands -> Qualities]
  /\ at \in [Cands -> Stages]
  /\ row \in [Cands -> {"unset", "passed", "failed"}]
  /\ result \in [Cands -> {"unset", "passed", "failed", "null"}]
  /\ vetoed \subseteq Cands
  /\ gather \in {"running", "returned", "raised"}
  /\ judge \in {"idle", "asking", "judged", "none", "raised"}
  /\ ranking \in Rankings
  /\ winners \subseteq Cands

Init ==
  /\ quality \in [Cands -> Qualities]
  /\ at = [c \in Cands |-> "waiting"]
  /\ row \in [Cands -> {"unset", "passed", "failed"}]
  /\ \A c \in Cands \ Former : row[c] = "unset"
  /\ result = [c \in Cands |-> "unset"]
  /\ vetoed = {}
  /\ gather = "running"
  /\ judge = "idle" /\ ranking = <<>> /\ winners = {}

-----------------------------------------------------------------------------
(* One verification.                                                        *)

Move(c, s) == at' = [at EXCEPT ![c] = s]
Busy == {c \in Cands : at[c] \notin {"waiting", "out", "lost"}}

SlotFree == Cardinality(Busy) < Slots

Acquire(c) ==
  /\ at[c] = "waiting" /\ SlotFree
  /\ Move(c, "creating")
  /\ UNCHANGED <<quality, row, result, vetoed, gather, verdict>>

(* Mutations (see PROJECT.json) precede the definition they would replace. *)
RowOnly(c, v)  == row' = [row EXCEPT ![c] = v] /\ UNCHANGED result

(* _finish: the row, the event, the dict.  update_candidate leaves out a column
   whose new value is None, so that a null is only in the dict.              *)
Finish(c, v) ==
  /\ row' = IF v = "null" THEN row ELSE [row EXCEPT ![c] = v]
  /\ result' = [result EXCEPT ![c] = v]

(* backend.create returns; an empty diff is failed without a test run. *)
Created(c) ==
  /\ at[c] = "creating"
  /\ IF quality[c] = "empty"
     THEN Finish(c, "failed") /\ Move(c, "teardown")
     ELSE Move(c, "applying") /\ UNCHANGED <<row, result>>
  /\ UNCHANGED <<quality, vetoed, gather, verdict>>

RaiseLeavesGather == UNCHANGED gather

(* asyncio.gather raises the first exception at once.  The verifications that
   are still under way, or waiting, go on with nobody to collect them.       *)
RaiseGather == gather' = IF gather = "running" THEN "raised" ELSE gather

(* backend.create is outside the try block. *)
CreateFails(c) ==
  /\ at[c] = "creating"
  /\ Move(c, "lost")
  /\ RaiseGather
  /\ UNCHANGED <<quality, row, result, vetoed, verdict>>

Applied(c) ==
  /\ at[c] = "applying"
  /\ IF quality[c] = "unfit"
     THEN Finish(c, "failed") /\ Move(c, "teardown")
     ELSE Move(c, "testing") /\ UNCHANGED <<row, result>>
  /\ UNCHANGED <<quality, vetoed, gather, verdict>>

Tested(c) ==
  /\ at[c] = "testing"
  /\ Move(c, "asking")
  /\ UNCHANGED <<quality, row, result, vetoed, gather, verdict>>

(* What the agent's answer says of "passed": true or nothing, false (or another
   falsy value that SQLite stores), or null.                                 *)
Sayings == {"agrees", "vetoes", "null"}

PassedIfAgentSaysSo(c, said) ==
  IF said = "agrees" THEN "passed" ELSE IF said = "null" THEN "null" ELSE "failed"

(* pytest_ok and verdict.get("passed", pytest_ok): null is a value, and falsy.
   No JSON object in the answer falls back to pytest_ok.                     *)
Passed(c, said) ==
  CASE quality[c] # "green" \/ said = "vetoes" -> "failed"
    [] quality[c] = "green" /\ said = "null"   -> "null"
    [] quality[c] = "green" /\ said = "agrees" -> "passed"

AgentAnswers(c, said) ==
  /\ at[c] = "asking"
  /\ vetoed' = IF said = "vetoes" THEN vetoed \cup {c} ELSE vetoed
  /\ Finish(c, Passed(c, said))
  /\ Move(c, "teardown")
  /\ UNCHANGED <<quality, gather, verdict>>

(* Anything that raises inside the try block fails the candidate. *)
Crashes(c) ==
  /\ at[c] \in {"applying", "testing", "asking"}
  /\ Finish(c, "failed")
  /\ Move(c, "teardown")
  /\ UNCHANGED <<quality, vetoed, gather, verdict>>

(* gather returns when the last verification does. *)
TornDown(c) ==
  /\ at[c] = "teardown"
  /\ Move(c, "out")
  /\ gather' = IF gather = "running" /\ \A d \in Cands \ {c} : at[d] = "out"
               THEN "returned" ELSE gather
  /\ UNCHANGED <<quality, row, result, vetoed, verdict>>

TeardownFails(c) ==
  /\ at[c] = "teardown"
  /\ Move(c, "lost")
  /\ RaiseGather
  /\ UNCHANGED <<quality, row, result, vetoed, verdict>>

Verify(c) ==
  \/ Acquire(c) \/ Created(c) \/ CreateFails(c) \/ Applied(c) \/ Tested(c)
  \/ \E said \in Sayings : AgentAnswers(c, said)
  \/ Crashes(c) \/ TornDown(c) \/ TeardownFails(c)

-----------------------------------------------------------------------------
(* The judge, on what verify_all returned.                                  *)

Passing == {c \in Cands : result[c] = "passed"}

(* passing[0] *)
Earliest == CHOOSE c \in Passing : \A d \in Passing : c <= d

NothingPasses ==
  /\ gather = "returned" /\ judge = "idle" /\ Passing = {}
  /\ judge' = "none"
  /\ UNCHANGED <<quality, checks, ranking, winners>>

(* One passing candidate wins without being judged. *)
Shortcut ==
  /\ gather = "returned" /\ judge = "idle" /\ Cardinality(Passing) = 1
  /\ judge' = "judged" /\ winners' = Passing
  /\ ranking' = <<[id |-> Earliest, winner |-> TRUE]>>
  /\ UNCHANGED <<quality, checks>>

AskJudge ==
  /\ gather = "returned" /\ judge = "idle" /\ Cardinality(Passing) > 1
  /\ judge' = "asking"
  /\ UNCHANGED <<quality, checks, ranking, winners>>

(* Ids that are no passing candidate's never win (_parse_ranking). *)
Checked(r) == [i \in DOMAIN r |->
  IF r[i].id \in Passing THEN r[i] ELSE [r[i] EXCEPT !.winner = FALSE]]

Chosen(r) == {c \in Passing : \E i \in DOMAIN r : r[i].id = c /\ r[i].winner}

NoFallback(r) == Chosen(r)

(* "or [passing[0]]" *)
WinnersOf(r) == IF Chosen(r) = {} THEN {Earliest} ELSE Chosen(r)

Judged(r) ==
  /\ judge = "asking"
  /\ ranking' = r
  /\ winners' = WinnersOf(r)
  /\ judge' = "judged"
  /\ UNCHANGED <<quality, checks>>

Ranks == \E r \in Rankings : Judged(Checked(r))

(* No JSON in the answer. *)
Unparseable == Judged(<<[id |-> Earliest, winner |-> TRUE]>>)

(* The model call raises, or the answer is JSON of a shape nobody expects,
   such as {"ranking": null}.                                                *)
JudgeRaises ==
  /\ judge = "asking"
  /\ judge' = "raised"
  /\ UNCHANGED <<quality, checks, ranking, winners>>

JudgeStep == NothingPasses \/ Shortcut \/ AskJudge \/ Ranks \/ Unparseable \/ JudgeRaises

Next == JudgeStep \/ \E c \in Cands : Verify(c)

Spec == Init /\ [][Next]_vars

(* Commands and model calls end by their timeouts, agents by max_steps. *)
FairSpec == Spec /\ WF_vars(JudgeStep) /\ \A c \in Cands : WF_vars(Verify(c))

-----------------------------------------------------------------------------
(* Properties.                                                              *)

(* Only test-passing code goes on to the merge (README.md, "Why it matters"):
   a winner applies to main, passes pytest and was not vetoed by the verifier,
   whatever the judge answers.                                              *)
WinnersAreVerified ==
  \A c \in winners : quality[c] = "green" /\ c \notin vetoed /\ row[c] = "passed"

(* When verify_all returns, no verification is under way, each has a result, and
   what it returns is what the rows say, those of a resumed mission included,
   which may have had another verdict before: the judge and a reader of the
   database agree.  A null leaves the row as it was (README, divergences).   *)
ReturnedIsStored ==
  gather = "returned" =>
    \A c \in Cands : at[c] = "out" /\ result[c] \in {row[c], "null"} \ {"unset"}

(* The mission is never without a winner when candidates passed, but for a
   judge that raises.                                                        *)
JudgePicksOne ==
  gather = "returned" /\ Passing # {} => judge \in {"idle", "asking", "raised"} \/ winners # {}

(* verify_all ends, and every sandbox is given back or lost, even when one
   verification has made the gather raise.                                   *)
VerificationEnds == <>[](gather # "running" /\ Busy = {})
=============================================================================
