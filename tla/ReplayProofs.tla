----------------------------- MODULE ReplayProofs -----------------------------
(* Proofs about Replay, for any missions, agents, files and roles, recordings
   and sessions of any length.                                               *)
EXTENDS Replay, FiniteSetTheorems, SequenceTheorems, WellFoundedInduction, TLAPS

(* f is chosen before g, or is g: no file comes last. *)
Precedes(f, g) ==
  \/ g = 0
  \/ /\ f # 0
     /\ Specificity(f) > Specificity(g) \/ (Specificity(f) = Specificity(g) /\ f <= g)

(* The recording. *)
Numbered == \A i \in DOMAIN transcripts :
  transcripts[i].n = UpTo(Of(transcripts[i].mission, transcripts[i].agent), i)

SavedIsPrefix == \A m \in Missions : saved[m] # <<>> =>
  \E n \in 0..Len(transcripts) : \A r \in Roles :
    saved[m][r] = {i \in 1..n : RoleOf[transcripts[i].agent] = r}

NoneYet == recording => \A a \in Agents :
  seen[a] = <<>> /\ heard[a] = {} /\ \A f \in Names : cursors[a][f] = 0

(* Within a run the scenarios chosen are of ever more precedence, and those of
   the present run can still be chosen.                                      *)
Ascends == \A a \in Agents : \A i \in DOMAIN seen[a] :
  /\ seen[a][i].run <= run[a]
  /\ seen[a][i].run = run[a] =>
       seen[a][i].file \in {0} \cup Candidates(RoleOf[a], heard[a])
  /\ \A j \in DOMAIN seen[a] : i < j =>
       /\ seen[a][i].run <= seen[a][j].run
       /\ seen[a][i].run = seen[a][j].run => Precedes(seen[a][j].file, seen[a][i].file)

(* A cursor counts the steps given, and goes on when they are used up. *)
Consumed == \A a \in Agents, f \in Names :
  /\ cursors[a][f] = 0 => At(a, f) = {} /\ \A i \in DOMAIN seen[a] : seen[a][i].file # f
  /\ cursors[a][f] # 0 =>
       /\ f \in ByHand \/ saved[f] # <<>>
       /\ Cardinality(At(a, f)) = IF cursors[a][f] <= Lines(f, RoleOf[a])
                                  THEN cursors[a][f] ELSE Lines(f, RoleOf[a])

IInv == TypeOK /\ Numbered /\ SavedIsPrefix /\ NoneYet /\ Ascends /\ Consumed /\ StepsInOrder
-----------------------------------------------------------------------------
(* Lemmas.                                                                  *)

LEMMA LeastNatural ==
  ASSUME NEW S \in SUBSET Nat, S # {}
  PROVE  \E x \in S : \A y \in S : x <= y
<1>1. PICK x \in S : \A y \in S : ~ (<<y, x>> \in OpToRel(<, Nat))
  BY NatLessThanWellFounded, WFMin
<1>2. \A y \in S : ~ (y < x)
  BY <1>1 DEF OpToRel
<1>. QED  BY <1>2

LEMMA GreatestNatural ==
  ASSUME NEW n \in Nat, NEW S \in SUBSET Nat, S # {}, \A x \in S : x <= n
  PROVE  \E x \in S : \A y \in S : y <= x
<1>. DEFINE T == {n - x : x \in S}
<1>1. \A x \in S : n - x \in Nat
  OBVIOUS
<1>2. T \in SUBSET Nat /\ T # {}
  BY <1>1
<1>3. PICK t \in T : \A u \in T : t <= u
  <2>. HIDE DEF T
  <2>. QED  BY <1>2, LeastNatural
<1>4. PICK x \in S : t = n - x
  OBVIOUS
<1>5. \A y \in S : n - x <= n - y
  BY <1>3, <1>4
<1>6. x \in Nat /\ \A y \in S : y \in Nat
  OBVIOUS
<1>. QED  BY <1>5, <1>6

(* Of the positions in a list the k-th exists. *)
LEMMA KthExists ==
  ASSUME NEW n \in Nat, NEW P \in SUBSET (1..n), NEW k \in 1..Cardinality(P)
  PROVE  \E p \in P : UpTo(P, p) = k
<1>0. P \in SUBSET Nat /\ \A p \in P : p \in Nat /\ p <= n
  OBVIOUS
<1>1. IsFiniteSet(P) /\ Cardinality(P) \in Nat
  <2>1. IsFiniteSet(1..n)
    BY FS_Interval
  <2>. QED  BY <2>1, FS_Subset, FS_CardinalityType
<1>2. \A p \in P : /\ UpTo(P, p) \in Nat
                   /\ IsFiniteSet({j \in P : j < p}) /\ Cardinality({j \in P : j < p}) \in Nat
  <2>. TAKE p \in P
  <2>1. {j \in P : j <= p} \in SUBSET P /\ {j \in P : j < p} \in SUBSET P
    OBVIOUS
  <2>. QED  BY <1>1, <2>1, FS_Subset, FS_CardinalityType DEF UpTo
<1>. DEFINE S == {p \in P : k <= UpTo(P, p)}
<1>3. S \in SUBSET Nat /\ S # {}
  <2>1. P # {}
    BY <1>1, FS_EmptySet
  <2>2. PICK p \in P : \A j \in P : j <= p
    BY <1>0, <2>1, GreatestNatural
  <2>3. {j \in P : j <= p} = P
    BY <2>2
  <2>4. UpTo(P, p) = Cardinality(P)
    BY <2>3 DEF UpTo
  <2>5. k <= UpTo(P, p)
    BY <1>1, <2>4
  <2>. QED  BY <1>0, <2>5
<1>4. PICK p \in S : \A q \in S : p <= q
  BY <1>3, LeastNatural
<1>5. p \in P /\ k <= UpTo(P, p) /\ \A q \in P : q < p => ~ (k <= UpTo(P, q))
  BY <1>0, <1>4
<1>. DEFINE B == {j \in P : j < p}
<1>6. UpTo(P, p) = Cardinality(B) + 1
  <2>0. \A j \in P : j <= p <=> j < p \/ j = p
    BY <1>0, <1>5
  <2>1. {j \in P : j <= p} = B \cup {p}
    BY <1>5, <2>0
  <2>2. p \notin B
    BY <1>0, <1>5
  <2>. QED  BY <1>2, <1>5, <2>1, <2>2, FS_AddElement DEF UpTo
<1>7. Cardinality(B) < k
  <2>1. CASE B = {}
    BY <2>1, FS_EmptySet
  <2>2. CASE B # {}
    <3>1. PICK q \in B : \A j \in B : j <= q
      <4>1. B \in SUBSET Nat /\ \A j \in B : j <= n
        BY <1>0
      <4>. QED  BY <2>2, <4>1, GreatestNatural
    <3>2. {j \in P : j <= q} = B
      <4>1. \A j \in P : j <= q => j < p
        BY <1>0, <1>5, <3>1
      <4>2. \A j \in P : j < p => j <= q
        BY <3>1
      <4>. QED  BY <4>1, <4>2
    <3>3. UpTo(P, q) = Cardinality(B)
      BY <3>2 DEF UpTo
    <3>4. ~ (k <= UpTo(P, q))
      BY <1>5, <3>1
    <3>5. Cardinality(B) \in Nat
      BY <1>2, <1>5
    <3>. QED  BY <3>3, <3>4, <3>5
  <2>. QED  BY <2>1, <2>2
<1>8. k \in Nat /\ Cardinality(B) \in Nat
  BY <1>1, <1>2, <1>5
<1>. QED  BY <1>5, <1>6, <1>7, <1>8

(* What max takes is there, and precedes the rest. *)
LEMMA BestIsBest ==
  ASSUME NEW F \in SUBSET Names, F # {}
  PROVE  Best(F) \in F /\ \A g \in F : Precedes(Best(F), g)
<1>1. \A f \in Names : f \in Nat \ {0}
  BY FilesAssumption DEF Names
<1>. DEFINE H == F \cap ByHand
            IsBest(f) == \A g \in F : \/ Specificity(f) > Specificity(g)
                                      \/ Specificity(f) = Specificity(g) /\ f <= g
<1>2. \E f \in F : IsBest(f)
  <2>1. CASE H # {}
    <3>1. PICK f \in H : \A g \in H : f <= g
      BY <1>1, <2>1, LeastNatural
    <3>. QED  BY <3>1 DEF Specificity
  <2>2. CASE H = {}
    <3>1. PICK f \in F : \A g \in F : f <= g
      BY <1>1, LeastNatural
    <3>. QED  BY <2>2, <3>1 DEF Specificity
  <2>. QED  BY <2>1, <2>2
<1>3. Best(F) \in F /\ IsBest(Best(F))
  BY <1>2 DEF Best
<1>. QED  BY <1>1, <1>3 DEF Precedes

(* Of two scenarios only one precedes the other. *)
LEMMA PrecedesIsOrder ==
  ASSUME NEW f \in Names \cup {0}, NEW g \in Names \cup {0}, Precedes(f, g), Precedes(g, f)
  PROVE  f = g
<1>1. f \in Nat /\ g \in Nat /\ Specificity(f) \in Nat /\ Specificity(g) \in Nat
  BY FilesAssumption DEF Names, Specificity
<1>. QED  BY <1>1 DEF Precedes

LEMMA ReplayGoesOn ==
  ASSUME IInv, UNCHANGED <<saved, run, heard, cursors, seen>>, recording' => recording
  PROVE  NoneYet' /\ Ascends' /\ Consumed' /\ StepsInOrder'
<1>1. /\ \A a, f : At(a, f)' = At(a, f)
      /\ \A f, r : Lines(f, r)' = Lines(f, r)
      /\ \A r, needles : Candidates(r, needles)' = Candidates(r, needles)
  BY DEF At, Lines, Candidates
<1>2. NoneYet'
  BY DEF IInv, NoneYet
<1>3. Ascends'
  BY <1>1 DEF IInv, Ascends
<1>4. Consumed'
  BY <1>1 DEF IInv, Consumed
<1>5. StepsInOrder'
  BY <1>1 DEF IInv, StepsInOrder
<1>. QED  BY <1>2, <1>3, <1>4, <1>5

(* The recording process. *)
LEMMA IInvRecord ==
  ASSUME IInv, NEW m \in Missions, NEW a \in Agents, Record(m, a)
  PROVE  IInv'
<1>. DEFINE L == Len(transcripts)
            t == [mission |-> m, agent |-> a, n |-> Cardinality(Of(m, a)) + 1]
<1>1. /\ transcripts' = Append(transcripts, t)
      /\ UNCHANGED <<recording, saved, run, heard, cursors, seen>>
  BY DEF Record, replay
<1>2. transcripts \in Seq(Replies) /\ L \in Nat
  BY DEF IInv, TypeOK
<1>3. \A c, b : /\ Of(c, b) \in SUBSET (1..L)
                 /\ IsFiniteSet(Of(c, b)) /\ Cardinality(Of(c, b)) \in Nat
  <2>1. \A c, b : Of(c, b) \in SUBSET (1..L)
    BY <1>2 DEF Of
  <2>2. IsFiniteSet(1..L)
    BY <1>2, FS_Interval
  <2>. QED  BY <2>1, <2>2, FS_Subset, FS_CardinalityType
<1>4. t \in Replies
  BY <1>3 DEF Replies
<1>5. /\ transcripts' \in Seq(Replies) /\ Len(transcripts') = L + 1 /\ transcripts'[L + 1] = t
      /\ \A i \in 1..L : transcripts'[i] = transcripts[i]
  BY <1>1, <1>2, <1>4
<1>6. /\ DOMAIN transcripts = 1..L /\ DOMAIN transcripts' = 1..(L + 1)
      /\ 1..(L + 1) = (1..L) \cup {L + 1} /\ L + 1 \notin 1..L
  BY <1>2, <1>5
<1>7. TypeOK'
  <2>1. saved' \in [Missions -> {<<>>} \cup [Roles -> SUBSET (DOMAIN transcripts')]]
    <3>1. SUBSET (DOMAIN transcripts) \subseteq SUBSET (DOMAIN transcripts')
      BY <1>6
    <3>2. \A g \in [Roles -> SUBSET (DOMAIN transcripts)] :
            g \in [Roles -> SUBSET (DOMAIN transcripts')]
      BY <3>1
    <3>. QED  BY <1>1, <3>2 DEF IInv, TypeOK
  <2>. QED  BY <1>1, <1>5, <2>1 DEF IInv, TypeOK
<1>8. Numbered'
  <2>. DEFINE New(c, b) == {j \in DOMAIN transcripts' : /\ transcripts'[j].mission = c
                                                        /\ transcripts'[j].agent = b}
              Before(S, i) == {j \in S : j <= i}
  <2>. SUFFICES ASSUME NEW i \in 1..(L + 1)
                PROVE  transcripts'[i].n =
                         Cardinality(Before(New(transcripts'[i].mission, transcripts'[i].agent), i))
    BY <1>6 DEF Numbered, UpTo, Of
  <2>1. \A c, b : \A j : j \in New(c, b) <=>
          j \in Of(c, b) \/ (j = L + 1 /\ t.mission = c /\ t.agent = b)
    BY <1>5, <1>6 DEF Of
  <2>2. CASE i = L + 1
    <3>1. t.mission = m /\ t.agent = a
      OBVIOUS
    <3>2. New(m, a) = Of(m, a) \cup {L + 1} /\ L + 1 \notin Of(m, a)
      <4>1. L + 1 \notin Of(m, a)
        BY <1>3, <1>6
      <4>2. \A j : j \in New(m, a) <=> j \in Of(m, a) \/ j = L + 1
        BY <2>1, <3>1
      <4>. HIDE DEF New
      <4>. QED  BY <4>1, <4>2
    <3>3. \A j \in New(m, a) : j <= L + 1
      BY <1>2, <1>6
    <3>4. Before(New(m, a), L + 1) = New(m, a)
      <4>. HIDE DEF New
      <4>. QED  BY <3>3
    <3>5. Cardinality(New(m, a)) = Cardinality(Of(m, a)) + 1
      <4>. HIDE DEF New
      <4>. QED  BY <1>3, <3>2, FS_AddElement
    <3>6. transcripts'[i].mission = m /\ transcripts'[i].agent = a /\
          transcripts'[i].n = Cardinality(Of(m, a)) + 1
      BY <1>5, <2>2
    <3>. HIDE DEF New, Before
    <3>. QED  BY <2>2, <3>4, <3>5, <3>6
  <2>3. CASE i \in 1..L
    <3>. DEFINE c == transcripts[i].mission
                b == transcripts[i].agent
    <3>1. transcripts'[i] = transcripts[i] /\ transcripts[i].n = Cardinality(Before(Of(c, b), i))
      BY <1>5, <1>6, <2>3 DEF IInv, Numbered, UpTo
    <3>2. ~ (L + 1 <= i)
      BY <1>2, <2>3
    <3>3. Before(New(c, b), i) = Before(Of(c, b), i)
      <4>1. \A j : j \in Before(New(c, b), i) <=> j \in Before(Of(c, b), i)
        <5>. HIDE DEF New
        <5>. QED  BY <2>1, <3>2
      <4>. HIDE DEF Before
      <4>. QED  BY <4>1
    <3>. HIDE DEF New, Before
    <3>. QED  BY <3>1, <3>3
  <2>. QED  BY <1>6, <2>2, <2>3
<1>9. SavedIsPrefix'
  <2>. SUFFICES ASSUME NEW c \in Missions, saved[c] # <<>>
                PROVE  \E n \in 0..(L + 1) : \A r \in Roles :
                         saved[c][r] = {i \in 1..n : RoleOf[transcripts'[i].agent] = r}
    BY <1>1, <1>5 DEF SavedIsPrefix
  <2>1. PICK n \in 0..L : \A r \in Roles :
          saved[c][r] = {i \in 1..n : RoleOf[transcripts[i].agent] = r}
    BY DEF IInv, SavedIsPrefix
  <2>2. n \in 0..(L + 1) /\ \A i \in 1..n : transcripts'[i] = transcripts[i]
    BY <1>2, <1>5
  <2>3. ASSUME NEW r \in Roles
        PROVE  saved[c][r] = {i \in 1..n : RoleOf[transcripts'[i].agent] = r}
    <3>1. \A i \in 1..n : RoleOf[transcripts'[i].agent] = r <=> RoleOf[transcripts[i].agent] = r
      BY <2>2
    <3>2. saved[c][r] = {i \in 1..n : RoleOf[transcripts[i].agent] = r}
      BY <2>1
    <3>. QED  BY <3>1, <3>2
  <2>. QED  BY <2>2, <2>3
<1>10. NoneYet' /\ Ascends' /\ Consumed' /\ StepsInOrder'
  BY <1>1, ReplayGoesOn
<1>. QED  BY <1>7, <1>8, <1>9, <1>10 DEF IInv

LEMMA IInvSaveRecording ==
  ASSUME IInv, NEW m \in Missions, SaveRecording(m)
  PROVE  IInv'
<1>1. /\ recording /\ saved[m] = <<>>
      /\ saved' = [saved EXCEPT ![m] = [r \in Roles |-> OfRole(r)]]
      /\ UNCHANGED <<recording, transcripts, run, heard, cursors, seen>>
  BY DEF SaveRecording, replay
<1>2. transcripts \in Seq(Replies) /\ DOMAIN transcripts = 1..Len(transcripts)
  BY DEF IInv, TypeOK
<1>3. TypeOK'
  <2>1. [r \in Roles |-> OfRole(r)] \in [Roles -> SUBSET (DOMAIN transcripts)]
    BY DEF OfRole
  <2>. QED  BY <1>1, <2>1 DEF IInv, TypeOK
<1>4. Numbered'
  <2>1. \A c, b : Of(c, b)' = Of(c, b)
    BY <1>1 DEF Of
  <2>. QED  BY <1>1, <2>1 DEF IInv, Numbered
<1>5. SavedIsPrefix'
  <2>. SUFFICES ASSUME NEW c \in Missions, saved'[c] # <<>>
                PROVE  \E n \in 0..Len(transcripts) : \A r \in Roles :
                         saved'[c][r] = {i \in 1..n : RoleOf[transcripts[i].agent] = r}
    BY <1>1 DEF SavedIsPrefix
  <2>1. CASE c = m
    <3>1. \A r \in Roles :
            saved'[c][r] = {i \in 1..Len(transcripts) : RoleOf[transcripts[i].agent] = r}
      BY <1>1, <1>2, <2>1 DEF OfRole, IInv, TypeOK
    <3>2. Len(transcripts) \in 0..Len(transcripts)
      BY <1>2
    <3>. QED  BY <3>1, <3>2
  <2>2. CASE c # m
    BY <1>1, <2>2 DEF IInv, TypeOK, SavedIsPrefix
  <2>. QED  BY <2>1, <2>2
<1>6. \A a \in Agents : /\ seen'[a] = <<>> /\ \A f : At(a, f)' = {}
                        /\ \A f \in Names : cursors'[a][f] = 0
  BY <1>1 DEF IInv, NoneYet, At
<1>7. NoneYet'
  BY <1>1 DEF IInv, NoneYet
<1>8. Ascends' /\ Consumed' /\ StepsInOrder'
  BY <1>6 DEF Ascends, Consumed, StepsInOrder
<1>. QED  BY <1>3, <1>4, <1>5, <1>7, <1>8 DEF IInv

LEMMA IInvLoadScenarios ==
  ASSUME IInv, LoadScenarios
  PROVE  IInv'
<1>1. recording' = FALSE /\ UNCHANGED <<transcripts, saved, run, heard, cursors, seen>>
  BY DEF LoadScenarios, replay
<1>2. TypeOK'
  BY <1>1 DEF IInv, TypeOK
<1>3. SavedIsPrefix'
  BY <1>1 DEF IInv, SavedIsPrefix
<1>4. Numbered'
  <2>1. \A c, b : Of(c, b)' = Of(c, b)
    BY <1>1 DEF Of
  <2>. QED  BY <1>1, <2>1 DEF IInv, Numbered
<1>. QED  BY <1>1, <1>2, <1>3, <1>4, ReplayGoesOn DEF IInv

(* The planner begins another run. *)
LEMMA IInvRunAgain ==
  ASSUME IInv, NEW a \in Agents, RunAgain(a)
  PROVE  IInv'
<1>1. /\ run[a] = 1 /\ run' = [run EXCEPT ![a] = 2] /\ heard' = [heard EXCEPT ![a] = {}]
      /\ UNCHANGED <<recording, transcripts, saved, cursors, seen>>
      /\ seen[a] # <<>>
  BY DEF RunAgain
<1>2. TypeOK' /\ SavedIsPrefix'
  BY <1>1 DEF IInv, TypeOK, SavedIsPrefix
<1>3. Numbered'
  <2>1. \A c, b : Of(c, b)' = Of(c, b)
    BY <1>1 DEF Of
  <2>. QED  BY <1>1, <2>1 DEF IInv, Numbered
<1>4. NoneYet'
  BY <1>1 DEF IInv, NoneYet
<1>5. Consumed' /\ StepsInOrder'
  <2>1. (\A b, f : At(b, f)' = At(b, f)) /\ (\A f, r : Lines(f, r)' = Lines(f, r))
    BY <1>1 DEF At, Lines
  <2>. QED  BY <1>1, <2>1 DEF IInv, Consumed, StepsInOrder
<1>6. Ascends'
  <2>1. \A r, needles : Candidates(r, needles)' = Candidates(r, needles)
    BY <1>1 DEF Candidates
  <2>2. \A b \in Agents \ {a} : run'[b] = run[b] /\ heard'[b] = heard[b]
    BY <1>1 DEF IInv, TypeOK
  <2>3. run'[a] = 2 /\ run[a] = 1
    BY <1>1 DEF IInv, TypeOK
  <2>. SUFFICES ASSUME NEW b \in Agents, NEW i \in DOMAIN seen[b]
                PROVE  /\ seen[b][i].run <= run'[b]
                       /\ seen[b][i].run = run'[b] =>
                            seen[b][i].file \in {0} \cup Candidates(RoleOf[b], heard'[b])
                       /\ \A j \in DOMAIN seen[b] : i < j =>
                            /\ seen[b][i].run <= seen[b][j].run
                            /\ seen[b][i].run = seen[b][j].run =>
                                 Precedes(seen[b][j].file, seen[b][i].file)
    BY <1>1, <2>1 DEF Ascends
  <2>4. seen[b][i].run \in 1..2
    <3>1. seen[b] \in Seq(Turns)
      BY DEF IInv, TypeOK
    <3>2. seen[b][i] \in Turns
      BY <3>1
    <3>. QED  BY <3>2 DEF Turns
  <2>5. CASE b = a
    BY <2>3, <2>4, <2>5 DEF IInv, Ascends
  <2>6. CASE b # a
    BY <2>2, <2>6 DEF IInv, Ascends
  <2>. QED  BY <2>5, <2>6
<1>. QED  BY <1>2, <1>3, <1>4, <1>5, <1>6 DEF IInv

(* A scenario that can be chosen has a number of steps. *)
LEMMA LinesAreCounted ==
  ASSUME TypeOK, NEW a \in Agents, NEW f \in Names, f \in ByHand \/ saved[f] # <<>>
  PROVE  Lines(f, RoleOf[a]) \in Nat
<1>1. CASE f \in ByHand
  BY <1>1, FilesAssumption DEF Lines
<1>2. CASE f \notin ByHand
  <2>1. f \in Missions /\ RoleOf[a] \in Roles
    BY <1>2 DEF Names, Roles
  <2>2. saved[f][RoleOf[a]] \in SUBSET (DOMAIN transcripts)
    BY <1>2, <2>1 DEF TypeOK
  <2>3. transcripts \in Seq(Replies)
    BY DEF TypeOK
  <2>4. DOMAIN transcripts = 1..Len(transcripts) /\ Len(transcripts) \in Nat
    BY <2>3
  <2>5. IsFiniteSet(1..Len(transcripts))
    BY <2>4, FS_Interval
  <2>6. Cardinality(saved[f][RoleOf[a]]) \in Nat
    BY <2>2, <2>4, <2>5, FS_Subset, FS_CardinalityType
  <2>. QED  BY <1>2, <2>6 DEF Lines
<1>. QED  BY <1>1, <1>2

(* The session of a agent chats: what it chooses precedes what it chose before
   in the run, and is given step by step.                                    *)
LEMMA IInvChat ==
  ASSUME IInv, NEW a \in Agents, NEW new \in SUBSET ByHand, Chat(a, new)
  PROVE  IInv'
<1>. DEFINE needles == heard[a] \cup new
            r == RoleOf[a]
            F == Candidates(r, needles)
            L == Len(seen[a])
<1>1. /\ ~recording /\ heard' = [heard EXCEPT ![a] = needles]
      /\ UNCHANGED <<recording, transcripts, saved, run>>
  BY DEF Chat, Conversation
<1>2. /\ needles \in SUBSET ByHand /\ seen[a] \in Seq(Turns) /\ run[a] \in 1..2
      /\ cursors[a] \in [Names -> Nat]
  BY DEF IInv, TypeOK
<1>3. /\ F \in SUBSET Names /\ 0 \notin Names
      /\ \A f \in F : f \in ByHand \/ saved[f] # <<>>
  BY <1>2, FilesAssumption DEF Candidates, Names
<1>4. PICK f \in Names \cup {0}, step \in Nat :
        /\ seen' = [seen EXCEPT ![a] = Append(@, [run |-> run[a], file |-> f, step |-> step])]
        /\ f = 0 => F = {} /\ cursors' = cursors
        /\ f # 0 => /\ f \in F /\ \A g \in F : Precedes(f, g)
                    /\ cursors' = [cursors EXCEPT ![a][f] = @ + 1]
                    /\ step = IF cursors[a][f] < Lines(f, r) THEN cursors[a][f] + 1 ELSE 0
  <2>1. CASE F = {}
    BY <2>1 DEF Chat, Conversation, Given
  <2>2. CASE F # {}
    <3>1. Best(F) \in F /\ \A g \in F : Precedes(Best(F), g)
      BY <1>3, <2>2, BestIsBest
    <3>2. Step(Best(F), cursors[a][Best(F)], r) \in Nat
      <4>1. cursors[a][Best(F)] \in Nat
        BY <1>2, <1>3, <3>1
      <4>2. \A c \in Nat : c + 1 \in Nat
        OBVIOUS
      <4>. QED  BY <4>1, <4>2 DEF Step
    <3>3. /\ seen' = [seen EXCEPT ![a] = Append(@, [run |-> run[a], file |-> Best(F),
                        step |-> Step(Best(F), cursors[a][Best(F)], r)])]
          /\ cursors' = [cursors EXCEPT ![a][Best(F)] = @ + 1]
      BY <2>2 DEF Chat, Conversation, Given, Cursor
    <3>. QED  BY <1>3, <3>1, <3>2, <3>3 DEF Step
  <2>. QED  BY <2>1, <2>2
<1>. DEFINE turn == [run |-> run[a], file |-> f, step |-> step]
<1>5. turn \in Turns
  BY <1>2 DEF Turns
<1>6. /\ seen'[a] = Append(seen[a], turn) /\ L \in Nat
      /\ \A b \in Agents \ {a} : seen'[b] = seen[b]
  BY <1>2, <1>4 DEF IInv, TypeOK
<1>7. /\ seen'[a] \in Seq(Turns) /\ DOMAIN seen[a] = 1..L /\ DOMAIN seen'[a] = 1..(L + 1)
      /\ 1..(L + 1) = (1..L) \cup {L + 1} /\ L + 1 \notin 1..L
      /\ seen'[a][L + 1] = turn /\ \A i \in 1..L : seen'[a][i] = seen[a][i]
  BY <1>2, <1>5, <1>6
<1>8. /\ \A b \in Agents \ {a} : cursors'[b] = cursors[b]
      /\ \A g \in Names \ {f} : cursors'[a][g] = cursors[a][g]
      /\ f \in Names => cursors'[a][f] = cursors[a][f] + 1
      /\ cursors' \in [Agents -> [Names -> Nat]]
  <2>1. CASE f = 0
    BY <1>3, <1>4, <2>1 DEF IInv, TypeOK
  <2>2. CASE f # 0
    <3>1. f \in Names /\ cursors' = [cursors EXCEPT ![a] = [cursors[a] EXCEPT ![f] = @ + 1]]
      BY <1>4, <2>2
    <3>2. cursors[a][f] + 1 \in Nat /\ cursors \in [Agents -> [Names -> Nat]]
      BY <1>2, <3>1 DEF IInv, TypeOK
    <3>3. [cursors[a] EXCEPT ![f] = @ + 1] \in [Names -> Nat]
      BY <1>2, <3>1, <3>2
    <3>. QED  BY <1>2, <3>1, <3>2, <3>3
  <2>. QED  BY <2>1, <2>2
<1>9. TypeOK'
  <2>1. seen' \in [Agents -> Seq(Turns)]
    BY <1>4, <1>6, <1>7 DEF IInv, TypeOK
  <2>2. heard' \in [Agents -> SUBSET ByHand]
    BY <1>1, <1>2 DEF IInv, TypeOK
  <2>. QED  BY <1>1, <1>8, <2>1, <2>2 DEF IInv, TypeOK
<1>10. SavedIsPrefix' /\ NoneYet'
  BY <1>1 DEF IInv, SavedIsPrefix, NoneYet
<1>11. Numbered'
  <2>1. \A c, b : Of(c, b)' = Of(c, b)
    BY <1>1 DEF Of
  <2>. QED  BY <1>1, <2>1 DEF IInv, Numbered
<1>12. Ascends'
  <2>1. \A q, S : Candidates(q, S)' = Candidates(q, S)
    BY <1>1 DEF Candidates
  <2>2. heard'[a] = needles /\ \A b \in Agents \ {a} : heard'[b] = heard[b]
    BY <1>1 DEF IInv, TypeOK
  <2>. SUFFICES ASSUME NEW b \in Agents, NEW i \in DOMAIN seen'[b]
                PROVE  /\ seen'[b][i].run <= run[b]
                       /\ seen'[b][i].run = run[b] =>
                            seen'[b][i].file \in {0} \cup Candidates(RoleOf[b], heard'[b])
                       /\ \A j \in DOMAIN seen'[b] : i < j =>
                            /\ seen'[b][i].run <= seen'[b][j].run
                            /\ seen'[b][i].run = seen'[b][j].run =>
                                 Precedes(seen'[b][j].file, seen'[b][i].file)
    BY <1>1, <2>1 DEF Ascends
  <2>3. CASE b # a
    BY <1>6, <2>2, <2>3 DEF IInv, Ascends
  <2>4. CASE b = a /\ i = L + 1
    <3>1. \A j \in 1..(L + 1) : ~ (L + 1 < j)
      BY <1>6
    <3>2. f \in {0} \cup F
      BY <1>4
    <3>3. run[a] <= run[a]
      BY <1>2
    <3>4. seen'[b][i] = turn /\ turn.run = run[a] /\ turn.file = f
      BY <1>7, <2>4
    <3>5. \A j \in DOMAIN seen'[b] : ~ (i < j)
      BY <1>7, <2>4, <3>1
    <3>. QED  BY <2>2, <2>4, <3>2, <3>3, <3>4, <3>5
  <2>5. CASE b = a /\ i \in 1..L
    <3>1. /\ seen'[a][i] = seen[a][i] /\ seen[a][i].run <= run[a]
          /\ seen[a][i].run = run[a] => seen[a][i].file \in {0} \cup Candidates(r, heard[a])
          /\ \A j \in 1..L : i < j =>
               /\ seen[a][i].run <= seen[a][j].run
               /\ seen[a][i].run = seen[a][j].run => Precedes(seen[a][j].file, seen[a][i].file)
      BY <1>7, <2>5 DEF IInv, Ascends
    <3>2. Candidates(r, heard[a]) \subseteq F
      BY DEF Candidates
    <3>3. seen[a][i].run = run[a] => Precedes(f, seen[a][i].file)
      BY <1>4, <3>1, <3>2 DEF Precedes
    <3>4. \A j \in 1..(L + 1) : i < j =>
            /\ seen[a][i].run <= seen'[a][j].run
            /\ seen[a][i].run = seen'[a][j].run => Precedes(seen'[a][j].file, seen[a][i].file)
      BY <1>7, <3>1, <3>3
    <3>. QED  BY <1>7, <2>2, <2>5, <3>1, <3>2, <3>4
  <2>. QED  BY <1>7, <2>3, <2>4, <2>5
<1>13. Consumed' /\ StepsInOrder'
  <2>. DEFINE Now(b, g) == {i \in DOMAIN seen'[b] : seen'[b][i].file = g /\ seen'[b][i].step # 0}
              Before(S, i) == {j \in S : j <= i}
              Counted(b, g) ==
                /\ cursors'[b][g] = 0 => /\ Now(b, g) = {}
                                         /\ \A i \in DOMAIN seen'[b] : seen'[b][i].file # g
                /\ cursors'[b][g] # 0 =>
                     /\ g \in ByHand \/ saved[g] # <<>>
                     /\ Cardinality(Now(b, g)) = IF cursors'[b][g] <= Lines(g, RoleOf[b])
                                                 THEN cursors'[b][g] ELSE Lines(g, RoleOf[b])
              InOrder(b, g) == \A i \in DOMAIN seen'[b] : seen'[b][i].file = g =>
                IF seen'[b][i].step # 0 THEN seen'[b][i].step = Cardinality(Before(Now(b, g), i))
                ELSE Cardinality(Before(Now(b, g), i)) = Lines(g, RoleOf[b])
  <2>1. \A g, q : Lines(g, q)' = Lines(g, q)
    BY <1>1 DEF Lines
  <2>. SUFFICES ASSUME NEW b \in Agents, NEW g \in Names
                PROVE  Counted(b, g) /\ InOrder(b, g)
    <3>1. Consumed' <=> \A b \in Agents, g \in Names : Counted(b, g)
      BY <1>1, <2>1 DEF Consumed, At
    <3>2. StepsInOrder' <=> \A b \in Agents, g \in Names : InOrder(b, g)
      BY <1>1, <2>1 DEF StepsInOrder, UpTo, At
    <3>. HIDE DEF Counted, InOrder
    <3>. QED  BY <3>1, <3>2
  <2>2. /\ cursors[b][g] = 0 => At(b, g) = {} /\ \A i \in DOMAIN seen[b] : seen[b][i].file # g
        /\ cursors[b][g] # 0 =>
             /\ g \in ByHand \/ saved[g] # <<>>
             /\ Cardinality(At(b, g)) = IF cursors[b][g] <= Lines(g, RoleOf[b])
                                        THEN cursors[b][g] ELSE Lines(g, RoleOf[b])
        /\ \A i \in DOMAIN seen[b] : seen[b][i].file = g =>
             IF seen[b][i].step # 0 THEN seen[b][i].step = Cardinality(Before(At(b, g), i))
             ELSE Cardinality(Before(At(b, g), i)) = Lines(g, RoleOf[b])
    BY DEF IInv, Consumed, StepsInOrder, UpTo
  <2>3. CASE b # a
    <3>1. Now(b, g) = At(b, g) /\ seen'[b] = seen[b] /\ cursors'[b][g] = cursors[b][g]
      BY <1>6, <1>8, <2>3 DEF At
    <3>. HIDE DEF Now, Before
    <3>. QED  BY <2>2, <3>1
  <2>4. CASE b = a /\ g # f
    <3>1. Now(a, g) = At(a, g)
      BY <1>7, <2>4 DEF At
    <3>2. cursors'[a][g] = cursors[a][g]
      BY <1>8, <2>4
    <3>3. \A i \in DOMAIN seen'[a] : seen'[a][i].file = g =>
            i \in DOMAIN seen[a] /\ seen'[a][i] = seen[a][i]
      BY <1>7, <2>4
    <3>4. \A i \in DOMAIN seen[a] : i \in DOMAIN seen'[a] /\ seen'[a][i] = seen[a][i]
      BY <1>7
    <3>5. Counted(a, g)
      <4>. HIDE DEF Now
      <4>. QED  BY <2>2, <2>4, <3>1, <3>2, <3>3
    <3>6. InOrder(a, g)
      <4>. HIDE DEF Now, Before
      <4>. QED  BY <2>2, <2>4, <3>1, <3>3
    <3>. HIDE DEF Counted, InOrder
    <3>. QED  BY <2>4, <3>5, <3>6
  <2>5. CASE b = a /\ g = f
    <3>. DEFINE c == cursors[a][f]
                K == Lines(f, r)
    <3>1. /\ f \in Names /\ f \in F /\ c \in Nat /\ cursors'[a][f] = c + 1
          /\ step = IF c < K THEN c + 1 ELSE 0
      BY <1>2, <1>3, <1>4, <1>8, <2>5
    <3>2. K \in Nat
      BY <1>3, <3>1, LinesAreCounted DEF IInv
    <3>3. At(a, f) \in SUBSET (1..L) /\ IsFiniteSet(At(a, f)) /\ L + 1 \notin At(a, f)
      <4>1. At(a, f) \in SUBSET (1..L)
        BY <1>7 DEF At
      <4>2. IsFiniteSet(1..L)
        BY <1>6, FS_Interval
      <4>. QED  BY <1>7, <4>1, <4>2, FS_Subset
    <3>4. Cardinality(At(a, f)) = IF c <= K THEN c ELSE K
      <4>1. c = 0 => Cardinality(At(a, f)) = 0
        BY <2>2, <2>5, FS_EmptySet
      <4>. QED  BY <2>2, <2>5, <3>1, <3>2, <4>1
    <3>5. \A j : j \in Now(a, f) <=> j \in At(a, f) \/ (j = L + 1 /\ step # 0)
      <4>1. \A j \in 1..L : j \in Now(a, f) <=> j \in At(a, f)
        BY <1>7 DEF At
      <4>2. L + 1 \in Now(a, f) <=> step # 0
        BY <1>7
      <4>3. Now(a, f) \subseteq 1..(L + 1)
        BY <1>7
      <4>. HIDE DEF Now
      <4>. QED  BY <1>7, <3>3, <4>1, <4>2, <4>3
    <3>6. Now(a, f) = IF step # 0 THEN At(a, f) \cup {L + 1} ELSE At(a, f)
      <4>. HIDE DEF Now
      <4>. QED  BY <3>5
    <3>7. Cardinality(Now(a, f)) = IF c < K THEN c + 1 ELSE K
      <4>1. Cardinality(At(a, f) \cup {L + 1}) = Cardinality(At(a, f)) + 1
        BY <3>3, FS_AddElement
      <4>2. CASE c < K
        <5>1. step # 0 /\ c <= K
          BY <3>1, <3>2, <4>2
        <5>. HIDE DEF Now
        <5>. QED  BY <3>4, <3>6, <4>1, <4>2, <5>1
      <4>3. CASE ~ (c < K)
        <5>1. step = 0 /\ (IF c <= K THEN c ELSE K) = K
          BY <3>1, <3>2, <4>3
        <5>. HIDE DEF Now
        <5>. QED  BY <3>4, <3>6, <4>3, <5>1
      <4>. QED  BY <4>2, <4>3
    <3>8. Counted(a, f)
      <4>1. c + 1 # 0 /\ (IF c + 1 <= K THEN c + 1 ELSE K) = (IF c < K THEN c + 1 ELSE K)
        BY <3>1, <3>2
      <4>. HIDE DEF Now
      <4>. QED  BY <1>3, <3>1, <3>7, <4>1
    <3>9. ASSUME NEW i \in 1..L, seen[a][i].file = f
          PROVE  IF seen[a][i].step # 0 THEN seen[a][i].step = Cardinality(Before(Now(a, f), i))
                 ELSE Cardinality(Before(Now(a, f), i)) = K
      <4>1. ~ (L + 1 <= i)
        BY <1>6
      <4>2. \A j : j \in Before(Now(a, f), i) <=> j \in Before(At(a, f), i)
        <5>. HIDE DEF Now
        <5>. QED  BY <3>5, <4>1
      <4>3. Before(Now(a, f), i) = Before(At(a, f), i)
        <5>. HIDE DEF Before, Now
        <5>. QED  BY <4>2
      <4>. HIDE DEF Before, Now
      <4>. QED  BY <1>7, <2>2, <2>5, <3>9, <4>3
    <3>10. Cardinality(Before(Now(a, f), L + 1)) = IF c < K THEN c + 1 ELSE K
      <4>1. \A j \in Now(a, f) : j <= L + 1
        BY <1>6, <1>7
      <4>2. Before(Now(a, f), L + 1) = Now(a, f)
        <5>. HIDE DEF Now
        <5>. QED  BY <4>1
      <4>. HIDE DEF Before, Now
      <4>. QED  BY <3>7, <4>2
    <3>11. IF step # 0 THEN step = Cardinality(Before(Now(a, f), L + 1))
           ELSE Cardinality(Before(Now(a, f), L + 1)) = K
      <4>1. (c < K => step # 0) /\ (~ (c < K) => step = 0)
        BY <3>1
      <4>. HIDE DEF Before, Now
      <4>. QED  BY <3>1, <3>10, <4>1
    <3>12. InOrder(a, f)
      <4>. HIDE DEF Before, Now
      <4>. QED  BY <1>7, <3>9, <3>11
    <3>. HIDE DEF Counted, InOrder
    <3>. QED  BY <2>5, <3>8, <3>12
  <2>. QED  BY <2>3, <2>4, <2>5
<1>. QED  BY <1>9, <1>10, <1>11, <1>12, <1>13 DEF IInv

-----------------------------------------------------------------------------
(* The invariant.                                                           *)

LEMMA IInvInit ==
  ASSUME Init
  PROVE  IInv
<1>1. Roles # {}
  BY FilesAssumption DEF Roles
<1>2. TypeOK
  BY DEF Init, TypeOK
<1>3. \A a \in Agents : seen[a] = <<>> /\ \A f : At(a, f) = {}
  BY DEF Init, At
<1>4. NoneYet /\ Ascends /\ Consumed /\ StepsInOrder
  BY <1>3 DEF Init, NoneYet, Ascends, Consumed, StepsInOrder
<1>5. Numbered /\ SavedIsPrefix
  BY DEF Init, Numbered, SavedIsPrefix
<1>. QED  BY <1>2, <1>4, <1>5 DEF IInv

LEMMA Inductive == Spec => []IInv
<1>1. Init => IInv
  BY IInvInit
<1>2. IInv /\ [Next]_vars => IInv'
  <2>. SUFFICES ASSUME IInv, [Next]_vars
                PROVE  IInv'
    OBVIOUS
  <2>1. ASSUME NEW m \in Missions, SaveRecording(m)
        PROVE  IInv'
    BY <2>1, IInvSaveRecording
  <2>2. ASSUME NEW m \in Missions, NEW a \in Agents, Record(m, a)
        PROVE  IInv'
    BY <2>2, IInvRecord
  <2>3. CASE LoadScenarios
    BY <2>3, IInvLoadScenarios
  <2>4. ASSUME NEW a \in Agents, RunAgain(a)
        PROVE  IInv'
    BY <2>4, IInvRunAgain
  <2>5. ASSUME NEW a \in Agents, NEW new \in SUBSET ByHand, Chat(a, new)
        PROVE  IInv'
    BY <2>5, IInvChat
  <2>6. CASE UNCHANGED vars
    <3>1. UNCHANGED <<recording, transcripts, saved, run, heard, cursors, seen>>
      BY <2>6 DEF vars, replay
    <3>2. TypeOK'
      BY <3>1 DEF IInv, TypeOK
    <3>3. SavedIsPrefix'
      BY <3>1 DEF IInv, SavedIsPrefix
    <3>4. Numbered'
      <4>1. \A c, b : Of(c, b)' = Of(c, b)
        BY <3>1 DEF Of
      <4>. QED  BY <3>1, <4>1 DEF IInv, Numbered
    <3>. QED  BY <3>1, <3>2, <3>3, <3>4, ReplayGoesOn DEF IInv
  <2>. QED  BY <2>1, <2>2, <2>3, <2>4, <2>5, <2>6 DEF Next
<1>. QED  BY <1>1, <1>2, PTL DEF Spec

(* The state of a replay has the shapes that the code relies on: what a saved
   file holds are replies of the list (save_scenarios), cursors are counts
   (mock.py).                                                                *)
THEOREM TypeCorrect == Spec => []TypeOK
<1>1. IInv => TypeOK
  BY DEF IInv
<1>. QED  BY <1>1, Inductive, PTL

(* Whatever sessions take turns and whatever scenarios they move between, each
   gets the steps of a scenario from the first on, none twice, skipped or
   withheld (mock.py:35-37).                                                 *)
THEOREM ScenariosAreConsumedInOrder == Spec => []StepsInOrder
<1>1. IInv => StepsInOrder
  BY DEF IInv
<1>. QED  BY <1>1, Inductive, PTL

(* No session goes back, within a run, into a scenario that it had left, as the
   needles that were heard only grow (MockProvider.chat).                    *)
THEOREM ScenariosAreLeftForGood == Spec => []NeverBack
<1>1. IInv => NeverBack
  <2>. SUFFICES ASSUME IInv, NEW a \in Agents,
                       NEW i \in DOMAIN seen[a], NEW j \in DOMAIN seen[a], NEW k \in DOMAIN seen[a],
                       i < j, j < k, seen[a][i].run = seen[a][k].run,
                       seen[a][i].file = seen[a][k].file
                PROVE  seen[a][j].file = seen[a][i].file
    BY DEF NeverBack
  <2>1. seen[a] \in Seq(Turns)
    BY DEF IInv, TypeOK
  <2>2. seen[a][i] \in Turns /\ seen[a][j] \in Turns /\ seen[a][k] \in Turns
    BY <2>1
  <2>3. /\ seen[a][i].run \in Nat /\ seen[a][j].run \in Nat
        /\ seen[a][i].file \in Names \cup {0} /\ seen[a][j].file \in Names \cup {0}
    BY <2>2 DEF Turns
  <2>4. /\ seen[a][i].run <= seen[a][j].run /\ seen[a][j].run <= seen[a][k].run
        /\ seen[a][i].run = seen[a][j].run => Precedes(seen[a][j].file, seen[a][i].file)
        /\ seen[a][j].run = seen[a][k].run => Precedes(seen[a][k].file, seen[a][j].file)
    BY DEF IInv, Ascends
  <2>5. seen[a][i].run = seen[a][j].run
    BY <2>3, <2>4
  <2>. QED  BY <2>3, <2>4, <2>5, PrecedesIsOrder
<1>. QED  BY <1>1, Inductive, PTL

(* The replay of a role of which one session had been recorded when the file
   was saved repeats that session reply by reply (save_scenarios).           *)
THEOREM RecordingsAreReplayed == Spec => []SoleSessionIsReplayed
<1>1. IInv => SoleSessionIsReplayed
  <2>. SUFFICES ASSUME IInv, NEW a \in Agents, NEW f \in Missions, saved[f] # <<>>,
                       SoleSession(saved[f][RoleOf[a]]), NEW i \in At(a, f)
                PROVE  LET t == Line(saved[f][RoleOf[a]], seen[a][i].step)
                       IN RoleOf[t.agent] = RoleOf[a] /\ t.n = UpTo(At(a, f), i)
    BY DEF SoleSessionIsReplayed
  <2>. DEFINE r == RoleOf[a]
              P == saved[f][r]
              k == seen[a][i].step
  <2>1. f \in Names /\ f \notin ByHand /\ r \in Roles
    BY FilesAssumption DEF Names, Roles
  <2>2. transcripts \in Seq(Replies) /\ Len(transcripts) \in Nat
    BY DEF IInv, TypeOK
  <2>3. PICK n \in 0..Len(transcripts) : P = {p \in 1..n : RoleOf[transcripts[p].agent] = r}
    BY <2>1 DEF IInv, SavedIsPrefix
  <2>4. k \in 1..Cardinality(P) /\ k = UpTo(At(a, f), i)
    <3>1. k # 0 /\ k = UpTo(At(a, f), i) /\ At(a, f) # {} /\ i \in DOMAIN seen[a]
      BY <2>1 DEF IInv, StepsInOrder, At
    <3>2. IsFiniteSet(At(a, f)) /\ Cardinality(At(a, f)) \in Nat
      <4>1. seen[a] \in Seq(Turns)
        BY DEF IInv, TypeOK
      <4>2. Len(seen[a]) \in Nat /\ DOMAIN seen[a] = 1..Len(seen[a])
        BY <4>1
      <4>3. IsFiniteSet(1..Len(seen[a])) /\ At(a, f) \in SUBSET (1..Len(seen[a]))
        BY <4>2, FS_Interval DEF At
      <4>. QED  BY <4>3, FS_Subset, FS_CardinalityType
    <3>3. k \in Nat /\ k <= Cardinality(At(a, f))
      <4>1. {j \in At(a, f) : j <= i} \in SUBSET At(a, f)
        OBVIOUS
      <4>. QED  BY <3>1, <3>2, <4>1, FS_Subset, FS_CardinalityType DEF UpTo
    <3>4. Cardinality(At(a, f)) <= Cardinality(P)
      <4>1. Lines(f, r) = Cardinality(P)
        BY <2>1 DEF Lines
      <4>2. Cardinality(P) \in Nat /\ cursors[a][f] \in Nat
        BY <2>1, <4>1, LinesAreCounted DEF IInv, TypeOK
      <4>3. Cardinality(At(a, f)) = IF cursors[a][f] <= Cardinality(P)
                                    THEN cursors[a][f] ELSE Cardinality(P)
        BY <2>1, <3>1, <4>1 DEF IInv, Consumed
      <4>. QED  BY <4>2, <4>3
    <3>5. Cardinality(P) \in Nat
      BY <2>1, LinesAreCounted DEF IInv, Lines
    <3>. QED  BY <3>1, <3>2, <3>3, <3>4, <3>5
  <2>. DEFINE q == CHOOSE p \in P : UpTo(P, p) = k
  <2>5. q \in P /\ UpTo(P, q) = k
    <3>1. n \in Nat /\ P \in SUBSET (1..n)
      BY <2>2, <2>3
    <3>2. \E p \in P : UpTo(P, p) = k
      <4>. HIDE DEF P, k
      <4>. QED  BY <2>4, <3>1, KthExists
    <3>. HIDE DEF P, k
    <3>. QED  BY <3>2
  <2>. DEFINE t == transcripts[q]
  <2>6. t = Line(P, k) /\ q \in 1..n /\ q \in DOMAIN transcripts /\ RoleOf[t.agent] = r
    <3>1. t = Line(P, k)
      BY DEF Line
    <3>2. q \in 1..n /\ RoleOf[t.agent] = r
      <4>. HIDE DEF q
      <4>. QED  BY <2>3, <2>5
    <3>3. \A p \in 1..n : p \in DOMAIN transcripts
      BY <2>2
    <3>. HIDE DEF q
    <3>. QED  BY <3>1, <3>2, <3>3
  <2>7. t.n = Cardinality({j \in Of(t.mission, t.agent) : j <= q})
    BY <2>6 DEF IInv, Numbered, UpTo
  <2>8. {j \in Of(t.mission, t.agent) : j <= q} = {j \in P : j <= q}
    <3>1. \A j \in P : j \in Of(t.mission, t.agent)
      <4>1. \A j \in P : /\ transcripts[j].mission = transcripts[q].mission
                         /\ transcripts[j].agent = transcripts[q].agent
        <5>. HIDE DEF q
        <5>. QED  BY <2>5 DEF SoleSession
      <4>2. \A j \in 1..n : j \in DOMAIN transcripts
        BY <2>2
      <4>. HIDE DEF q
      <4>. QED  BY <2>3, <4>1, <4>2 DEF Of
    <3>2. \A j \in Of(t.mission, t.agent) : j <= q => j \in P
      <4>1. \A j \in DOMAIN transcripts : j <= q => j \in 1..n
        BY <2>2, <2>6
      <4>. QED  BY <2>3, <2>6, <4>1 DEF Of
    <3>. HIDE DEF q, P
    <3>. QED  BY <3>1, <3>2
  <2>. HIDE DEF q, P, k
  <2>9. t.n = k
    BY <2>5, <2>7, <2>8 DEF UpTo
  <2>. QED  BY <2>4, <2>6, <2>9 DEF P, k
<1>. QED  BY <1>1, Inductive, PTL
=============================================================================
