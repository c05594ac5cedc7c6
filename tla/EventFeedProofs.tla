---------------------------- MODULE EventFeedProofs ----------------------------
(* Proofs about EventFeed, for any set of pages, number of events and of lost
   connections.                                                              *)
EXTENDS EventFeed, SequenceTheorems, TLAPS

Ascending(s) == \A i, j \in 1..Len(s) : i < j => s[i] < s[j]
Above(s, n)  == \A i \in 1..Len(s) : s[i] > n
UpTo(s, n)   == \A i \in 1..Len(s) : s[i] <= n

(* What is on its way to a page goes on from where the page is, in order. *)
WireGoesOn(p) ==
  /\ Ascending(shown[p]) /\ Ascending(wire[p]) /\ Above(wire[p], Cursor(p))
  /\ UpTo(shown[p], log) /\ UpTo(wire[p], log)

(* last_id of a stream is the id of the last frame it has sent to the page,
   over this connection or an earlier one.                                   *)
LastSent(p) == lastId[p] = IF wire[p] = <<>> THEN Cursor(p) ELSE Last(wire[p])

(* The snapshot goes on from last_id without a gap, and the live queue holds
   only what was published after it.                                         *)
QueueFollowsSnapshot(p) ==
  /\ \A i \in 1..Len(replay[p]) : replay[p][i] = lastId[p] + i
  /\ lastId[p] + Len(replay[p]) <= log
  /\ Ascending(queue[p]) /\ Above(queue[p], lastId[p] + Len(replay[p])) /\ UpTo(queue[p], log)

Delivers(p) ==
  \A i \in (Cursor(p) + 1)..log :
    i \in ToSet(wire[p]) \cup ToSet(replay[p]) \cup ToSet(queue[p]) \cup foreign

(* A page, and the stream it has open. *)
Page(p) ==
  /\ WireGoesOn(p)
  /\ ~open[p] => wire[p] = <<>>
  /\ open[p] => LastSent(p) /\ QueueFollowsSnapshot(p) /\ Delivers(p)

IInv == TypeOK /\ \A p \in Pages : Page(p)
-----------------------------------------------------------------------------
(* Lemmas on sequences of ids.                                              *)

LEMMA AppendKeeps ==
  ASSUME NEW s \in Seq(Nat), NEW x \in Nat
  PROVE  /\ Append(s, x) \in Seq(Nat) /\ Append(s, x) # <<>> /\ Len(Append(s, x)) = Len(s) + 1
         /\ Ascending(s) /\ (\A i \in 1..Len(s) : s[i] < x) => Ascending(Append(s, x))
         /\ \A n \in Nat : Above(s, n) /\ x > n => Above(Append(s, x), n)
         /\ \A n \in Nat : UpTo(s, n) /\ x <= n => UpTo(Append(s, x), n)
         /\ Last(Append(s, x)) = x
         /\ ToSet(Append(s, x)) = ToSet(s) \cup {x}
<1>1. /\ Append(s, x) \in Seq(Nat) /\ Append(s, x) # <<>> /\ Len(s) \in Nat
      /\ Len(Append(s, x)) = Len(s) + 1 /\ DOMAIN Append(s, x) = 1..(Len(s) + 1)
      /\ DOMAIN s = 1..Len(s) /\ \A i \in 1..Len(s) : s[i] \in Nat
      /\ \A i \in 1..Len(s) : Append(s, x)[i] = s[i]
      /\ Append(s, x)[Len(s) + 1] = x
  OBVIOUS
<1>2. Ascending(s) /\ (\A i \in 1..Len(s) : s[i] < x) => Ascending(Append(s, x))
  <2>1. SUFFICES ASSUME Ascending(s), \A i \in 1..Len(s) : s[i] < x,
                        NEW i \in 1..(Len(s) + 1), NEW j \in 1..(Len(s) + 1), i < j
                 PROVE  Append(s, x)[i] < Append(s, x)[j]
    BY <1>1 DEF Ascending
  <2>2. Len(s) \in Nat
    OBVIOUS
  <2>3. i \in 1..Len(s) /\ (j \in 1..Len(s) \/ j = Len(s) + 1)
    BY <2>1, <2>2
  <2>. QED  BY <1>1, <2>1, <2>3 DEF Ascending
<1>3. \A n \in Nat : Above(s, n) /\ x > n => Above(Append(s, x), n)
  BY <1>1 DEF Above
<1>4. \A n \in Nat : UpTo(s, n) /\ x <= n => UpTo(Append(s, x), n)
  BY <1>1 DEF UpTo
<1>5. Last(Append(s, x)) = x
  BY <1>1 DEF Last
<1>6. ToSet(Append(s, x)) = ToSet(s) \cup {x}
  BY <1>1 DEF ToSet
<1>. QED  BY <1>1, <1>2, <1>3, <1>4, <1>5, <1>6

(* One id less at the front. *)
LEMMA TailKeeps ==
  ASSUME NEW s \in Seq(Nat), s # <<>>
  PROVE  /\ Head(s) \in Nat /\ Head(s) = s[1] /\ Tail(s) \in Seq(Nat)
         /\ Len(s) \in Nat \ {0} /\ Len(Tail(s)) = Len(s) - 1
         /\ \A i \in 1..Len(Tail(s)) : Tail(s)[i] = s[i + 1]
         /\ Ascending(s) => Ascending(Tail(s)) /\ Above(Tail(s), Head(s))
         /\ \A n \in Nat : Above(s, n) => Above(Tail(s), n) /\ Head(s) > n
         /\ \A n \in Nat : UpTo(s, n) => UpTo(Tail(s), n) /\ Head(s) <= n
         /\ IF Tail(s) = <<>> THEN Last(s) = Head(s) ELSE Last(Tail(s)) = Last(s)
         /\ ToSet(s) = {Head(s)} \cup ToSet(Tail(s))
<1>1. /\ Len(s) \in Nat \ {0} /\ Head(s) = s[1] /\ Tail(s) \in Seq(Nat) /\ Len(Tail(s)) = Len(s) - 1
      /\ DOMAIN s = 1..Len(s) /\ \A i \in 1..Len(s) : s[i] \in Nat
      /\ DOMAIN Tail(s) = 1..(Len(s) - 1)
      /\ \A i \in 1..(Len(s) - 1) : Tail(s)[i] = s[i + 1]
  OBVIOUS
<1>2. Ascending(s) => Ascending(Tail(s)) /\ Above(Tail(s), Head(s))
  BY <1>1 DEF Ascending, Above
<1>3. \A n \in Nat : Above(s, n) => Above(Tail(s), n) /\ Head(s) > n
  BY <1>1 DEF Above
<1>4. \A n \in Nat : UpTo(s, n) => UpTo(Tail(s), n) /\ Head(s) <= n
  BY <1>1 DEF UpTo
<1>5. IF Tail(s) = <<>> THEN Last(s) = Head(s) ELSE Last(Tail(s)) = Last(s)
  <2>1. CASE Tail(s) = <<>>
    <3>. Len(s) = 1
      BY <1>1, <2>1
    <3>. QED  BY <1>1, <2>1 DEF Last
  <2>2. CASE Tail(s) # <<>>
    <3>. Len(Tail(s)) \in 1..(Len(s) - 1) /\ Len(Tail(s)) + 1 = Len(s)
      BY <1>1, <2>2
    <3>. QED  BY <1>1, <2>2 DEF Last
  <2>. QED  BY <2>1, <2>2
<1>6. ToSet(s) = {Head(s)} \cup ToSet(Tail(s))
  <2>1. ASSUME NEW i \in 1..Len(s) PROVE s[i] \in {Head(s)} \cup ToSet(Tail(s))
    <3>1. CASE i = 1
      BY <1>1, <3>1
    <3>2. CASE i # 1
      <4>. i - 1 \in 1..(Len(s) - 1) /\ (i - 1) + 1 = i
        BY <1>1, <3>2
      <4>. Tail(s)[i - 1] = s[i]
        BY <1>1
      <4>. QED  BY <1>1 DEF ToSet
    <3>. QED  BY <3>1, <3>2
  <2>2. ASSUME NEW i \in 1..(Len(s) - 1) PROVE Tail(s)[i] \in ToSet(s)
    <3>. i + 1 \in 1..Len(s)
      BY <1>1
    <3>. QED  BY <1>1 DEF ToSet
  <2>3. Head(s) \in ToSet(s)
    BY <1>1 DEF ToSet
  <2>4. ToSet(s) \subseteq {Head(s)} \cup ToSet(Tail(s))
    BY <1>1, <2>1 DEF ToSet
  <2>5. ToSet(Tail(s)) \subseteq ToSet(s)
    BY <1>1, <2>2 DEF ToSet
  <2>. QED  BY <2>3, <2>4, <2>5
<1>. QED  BY <1>1, <1>2, <1>3, <1>4, <1>5, <1>6

(* The last id of an ascending sequence is the greatest. *)
LEMMA LastIsGreatest ==
  ASSUME NEW s \in Seq(Nat), s # <<>>, Ascending(s)
  PROVE  /\ Last(s) = s[Len(s)] /\ Len(s) \in Nat \ {0} /\ Last(s) \in Nat
         /\ \A i \in 1..Len(s) : s[i] \in Nat /\ s[i] <= Last(s)
<1>1. Last(s) = s[Len(s)] /\ Len(s) \in Nat \ {0} /\ \A i \in 1..Len(s) : s[i] \in Nat
  BY DEF Last
<1>2. ASSUME NEW i \in 1..Len(s) PROVE s[i] <= s[Len(s)]
  <2>1. CASE i = Len(s)
    BY <1>1, <2>1
  <2>2. CASE i # Len(s)
    <3>. i < Len(s) /\ Len(s) \in 1..Len(s)
      BY <1>1, <2>2
    <3>. QED  BY <1>1 DEF Ascending
  <2>. QED  BY <2>1, <2>2
<1>. QED  BY <1>1, <1>2

(* An id above the last one sent, l, keeps the frames ascending. *)
LEMMA SendsOn ==
  ASSUME NEW s \in Seq(Nat), NEW n \in Nat, NEW l \in Nat, NEW c \in Nat, NEW x \in Nat,
         Ascending(s), Above(s, c), UpTo(s, n), l = IF s = <<>> THEN c ELSE Last(s),
         x > l, x <= n
  PROVE  Ascending(Append(s, x)) /\ Above(Append(s, x), c) /\ UpTo(Append(s, x), n)
<1>1. x > c /\ \A i \in 1..Len(s) : s[i] < x
  <2>1. CASE s = <<>>
    BY <2>1
  <2>2. CASE s # <<>>
    <3>1. /\ Len(s) \in 1..Len(s) /\ l = s[Len(s)]
          /\ \A i \in 1..Len(s) : s[i] \in Nat /\ s[i] <= l
      BY <2>2, LastIsGreatest
    <3>2. l > c
      BY <3>1 DEF Above
    <3>. QED  BY <3>1, <3>2
  <2>. QED  BY <2>1, <2>2
<1>. QED  BY <1>1, AppendKeeps

(* Nothing at or below n is among ids above n. *)
LEMMA NotAbove ==
  ASSUME NEW s \in Seq(Nat), NEW n \in Nat, Above(s, n), NEW i \in Nat, i <= n
  PROVE  i \notin ToSet(s)
<1>1. \A k \in 1..Len(s) : s[k] \in Nat /\ s[k] > n
  BY DEF Above
<1>2. ToSet(s) = {s[k] : k \in 1..Len(s)}
  BY DEF ToSet
<1>. QED  BY <1>1, <1>2

LEMMA Types ==
  ASSUME TypeOK, NEW p \in Pages
  PROVE  /\ log \in Nat /\ lastId[p] \in Nat
         /\ shown[p] \in Seq(Nat) /\ wire[p] \in Seq(Nat)
         /\ replay[p] \in Seq(Nat) /\ queue[p] \in Seq(Nat)
<1>1. Ids \subseteq Nat /\ Seq(Ids) \subseteq Seq(Nat)
  BY BoundsAssumption, SeqMonotonic DEF Ids
<1>. QED  BY <1>1 DEF TypeOK

(* The cursor of a page is its greatest id. *)
LEMMA CursorIs ==
  ASSUME TypeOK, NEW p \in Pages, Ascending(shown[p]), UpTo(shown[p], log)
  PROVE  /\ Cursor(p) \in 0..log /\ \A i \in 1..Len(shown[p]) : shown[p][i] <= Cursor(p)
<1>1. CASE shown[p] = <<>>
  BY <1>1, Types DEF Cursor
<1>2. CASE shown[p] # <<>>
  <2>. /\ Len(shown[p]) \in Nat \ {0} /\ Cursor(p) = shown[p][Len(shown[p])]
       /\ \A i \in 1..Len(shown[p]) : shown[p][i] \in Nat /\ shown[p][i] <= Cursor(p)
    BY <1>2, Types, LastIsGreatest DEF Cursor
  <2>. QED  BY Types DEF UpTo
<1>. QED  BY <1>1, <1>2

(* A step leaves alone the pages it does not touch. *)
LEMMA OtherPage ==
  ASSUME NEW q \in Pages, Page(q), UNCHANGED <<log, foreign>>,
         open'[q] = open[q], replay'[q] = replay[q], queue'[q] = queue[q],
         lastId'[q] = lastId[q], wire'[q] = wire[q], shown'[q] = shown[q]
  PROVE  Page(q)'
BY DEF Page, WireGoesOn, LastSent, QueueFollowsSnapshot, Delivers, Cursor

-----------------------------------------------------------------------------
(* Every step keeps the invariant.                                          *)

LEMMA IInvInit == Init => IInv
<1> SUFFICES ASSUME Init PROVE IInv
  OBVIOUS
<1>1. TypeOK
  BY BoundsAssumption DEF Init, TypeOK
<1>. QED  BY <1>1 DEF Init, IInv, Page, WireGoesOn, Ascending, Above, UpTo

(* One more event, which a live queue gets unless another process has it. *)
LEMMA IInvPublish ==
  ASSUME IInv, Publish \/ PublishElsewhere
  PROVE  IInv'
<1>1. /\ log \in Nat /\ log' = log + 1 /\ log' \in Ids
      /\ UNCHANGED <<open, replay, lastId, wire, shown, cuts>>
  BY BoundsAssumption DEF IInv, TypeOK, Publish, PublishElsewhere, Inserted, Ids
<1>2. foreign \subseteq foreign' /\ foreign' \subseteq Ids
  BY <1>1 DEF IInv, TypeOK, Publish, PublishElsewhere
<1>3. ASSUME NEW p \in Pages
      PROVE  \/ queue'[p] = Append(queue[p], log')
             \/ queue'[p] = queue[p] /\ (open[p] => log' \in foreign')
  BY <1>1 DEF IInv, TypeOK, Publish, PublishElsewhere, FrameId
<1>4. TypeOK'
  <2>1. Publish => queue' \in [Pages -> Seq(Ids)]
    <3>. \A p \in Pages : queue[p] \in Seq(Ids) /\ Append(queue[p], log + 1) \in Seq(Ids)
      BY <1>1 DEF IInv, TypeOK
    <3>. QED  BY DEF Publish, FrameId
  <2>2. PublishElsewhere => queue' \in [Pages -> Seq(Ids)]
    BY DEF IInv, TypeOK, PublishElsewhere
  <2>. queue' \in [Pages -> Seq(Ids)]
    BY <2>1, <2>2
  <2>. QED  BY <1>1, <1>2 DEF IInv, TypeOK, Ids
<1>5. ASSUME NEW p \in Pages PROVE Page(p)'
  <2>0. Cursor(p)' = Cursor(p)
    BY <1>1 DEF Cursor
  <2>1. WireGoesOn(p)'
    BY <1>1, <2>0, Types DEF IInv, Page, WireGoesOn, UpTo
  <2>2. ASSUME open[p] PROVE LastSent(p)' /\ QueueFollowsSnapshot(p)' /\ Delivers(p)'
    <3>0. LastSent(p) /\ QueueFollowsSnapshot(p) /\ Delivers(p)
      BY <2>2 DEF IInv, Page
    <3>1. LastSent(p)'
      BY <1>1, <2>0, <3>0 DEF LastSent
    <3>2. /\ log' \in Nat /\ queue[p] \in Seq(Nat) /\ Len(replay[p]) \in Nat /\ lastId[p] \in Nat
          /\ \A i \in 1..Len(queue[p]) : queue[p][i] \in Nat /\ queue[p][i] < log'
      BY <1>1, <3>0, Types DEF IInv, QueueFollowsSnapshot, UpTo
    <3>3. /\ Ascending(queue[p])' /\ UpTo(queue'[p], log')
          /\ Above(queue'[p], lastId[p] + Len(replay[p]))
      <4>1. /\ Ascending(queue[p]) /\ UpTo(queue[p], log')
            /\ Above(queue[p], lastId[p] + Len(replay[p]))
        BY <3>0, <3>2 DEF QueueFollowsSnapshot, UpTo
      <4>2. log' > lastId[p] + Len(replay[p])
        BY <1>1, <3>0, <3>2 DEF QueueFollowsSnapshot
      <4>3. CASE queue'[p] = Append(queue[p], log')
        <5>1. Ascending(Append(queue[p], log'))
          BY <3>2, <4>1, AppendKeeps
        <5>2. Above(Append(queue[p], log'), lastId[p] + Len(replay[p]))
          BY <3>2, <4>1, <4>2, AppendKeeps
        <5>3. UpTo(Append(queue[p], log'), log')
          BY <3>2, <4>1, AppendKeeps
        <5>. QED  BY <4>3, <5>1, <5>2, <5>3
      <4>4. CASE queue'[p] = queue[p]
        BY <4>1, <4>4 DEF Ascending
      <4>. QED  BY <1>3, <4>3, <4>4
    <3>4. QueueFollowsSnapshot(p)'
      <4>1. lastId[p] + Len(replay[p]) <= log'
        BY <1>1, <3>0, <3>2 DEF QueueFollowsSnapshot
      <4>. QED  BY <1>1, <3>0, <3>3, <4>1 DEF QueueFollowsSnapshot
    <3>5. ToSet(queue[p]) \subseteq ToSet(queue'[p]) /\ log' \in ToSet(queue'[p]) \cup foreign'
      BY <1>3, <2>2, <3>2, AppendKeeps
    <3>6. Delivers(p)'
      BY <1>1, <1>2, <2>0, <3>0, <3>5 DEF Delivers, IInv
    <3>. QED  BY <3>1, <3>4, <3>6
  <2>. QED  BY <1>1, <2>1, <2>2 DEF IInv, Page
<1>. QED  BY <1>4, <1>5 DEF IInv

(* The stream begins after the last frame the page has received. *)
LEMMA IInvConnect ==
  ASSUME IInv, NEW p \in Pages, Connect(p)
  PROVE  IInv'
<1>0. /\ Cursor(p) \in 0..log /\ log \in 0..MaxEvents /\ log \in Nat /\ Cursor(p)' = Cursor(p)
      /\ WireGoesOn(p) /\ wire[p] = <<>>
  BY CursorIs DEF Connect, IInv, TypeOK, Page, WireGoesOn, Cursor
<1>1. /\ RowsSince(Cursor(p)) \in Seq(Ids) /\ Len(RowsSince(Cursor(p))) = log - Cursor(p)
      /\ \A i \in 1..(log - Cursor(p)) : RowsSince(Cursor(p))[i] = Cursor(p) + i
  BY <1>0, BoundsAssumption DEF RowsSince, Ids
<1>2. TypeOK'
  <2>. Cursor(p) \in 0..MaxEvents /\ <<>> \in Seq(Ids)
    BY <1>0, BoundsAssumption
  <2>1. lastId' \in [Pages -> 0..MaxEvents] /\ queue' \in [Pages -> Seq(Ids)]
    BY DEF Connect, IInv, TypeOK
  <2>2. replay' \in [Pages -> Seq(Ids)] /\ open' \in [Pages -> BOOLEAN]
    BY <1>1 DEF Connect, IInv, TypeOK
  <2>. QED  BY <2>1, <2>2 DEF Connect, IInv, TypeOK
<1>3. /\ open'[p] /\ lastId'[p] = Cursor(p) /\ replay'[p] = RowsSince(Cursor(p)) /\ queue'[p] = <<>>
      /\ UNCHANGED <<log, foreign, wire, shown>>
  BY DEF Connect, IInv, TypeOK
<1>4. LastSent(p)' /\ WireGoesOn(p)'
  BY <1>0, <1>3 DEF LastSent, WireGoesOn
<1>5. QueueFollowsSnapshot(p)'
  BY <1>0, <1>1, <1>3 DEF QueueFollowsSnapshot, Ascending, Above, UpTo
<1>6. Delivers(p)'
  <2>1. ASSUME NEW i \in (Cursor(p) + 1)..log PROVE i \in ToSet(replay'[p])
    <3>. i - Cursor(p) \in 1..(log - Cursor(p)) /\ Cursor(p) + (i - Cursor(p)) = i
      BY <1>0
    <3>. QED  BY <1>1, <1>3 DEF ToSet
  <2>. QED  BY <1>0, <1>3, <2>1 DEF Delivers
<1>7. ASSUME NEW q \in Pages, q # p PROVE Page(q)'
  BY <1>7, OtherPage DEF Connect, IInv, TypeOK
<1>. QED  BY <1>2, <1>3, <1>4, <1>5, <1>6, <1>7 DEF IInv, Page

(* The next id is sent, from the snapshot or the queue. *)
LEMMA IInvSends ==
  ASSUME IInv, NEW p \in Pages, NEW id \in Nat, open[p], id > lastId[p], id <= log,
         wire' = [wire EXCEPT ![p] = Append(@, id)], lastId' = [lastId EXCEPT ![p] = id],
         replay' \in [Pages -> Seq(Ids)], queue' \in [Pages -> Seq(Ids)],
         \A q \in Pages \ {p} : replay'[q] = replay[q] /\ queue'[q] = queue[q],
         QueueFollowsSnapshot(p)',
         ToSet(replay[p]) \cup ToSet(queue[p])
           \subseteq {id} \cup ToSet(replay'[p]) \cup ToSet(queue'[p]),
         UNCHANGED <<log, foreign, open, shown, cuts>>
  PROVE  IInv'
<1>0. /\ log \in Nat /\ wire[p] \in Seq(Nat) /\ lastId[p] \in Nat
      /\ WireGoesOn(p) /\ LastSent(p) /\ Delivers(p) /\ Cursor(p) \in 0..log
  BY Types, CursorIs DEF IInv, Page, WireGoesOn
<1>1. wire'[p] = Append(wire[p], id) /\ lastId'[p] = id /\ Cursor(p)' = Cursor(p)
  BY DEF IInv, TypeOK, Cursor
<1>2. Ascending(Append(wire[p], id)) /\ Above(Append(wire[p], id), Cursor(p))
      /\ UpTo(Append(wire[p], id), log)
  <2>1. /\ Ascending(wire[p]) /\ Above(wire[p], Cursor(p)) /\ UpTo(wire[p], log)
        /\ lastId[p] = IF wire[p] = <<>> THEN Cursor(p) ELSE Last(wire[p])
        /\ Cursor(p) \in Nat
    BY <1>0 DEF WireGoesOn, LastSent
  <2>. QED  BY <1>0, <2>1, SendsOn
<1>3. WireGoesOn(p)'
  BY <1>0, <1>1, <1>2 DEF WireGoesOn
<1>4. LastSent(p)'
  BY <1>0, <1>1, AppendKeeps DEF LastSent
<1>5. Delivers(p)'
  BY <1>0, <1>1, AppendKeeps DEF Delivers
<1>6. ASSUME NEW q \in Pages, q # p PROVE Page(q)'
  BY <1>6, OtherPage DEF IInv, TypeOK
<1>7. TypeOK'
  <2>. id \in Ids
    BY <1>0, BoundsAssumption DEF IInv, TypeOK, Ids
  <2>. id \in 0..MaxEvents
    BY BoundsAssumption DEF Ids
  <2>. Append(wire[p], id) \in Seq(Ids)
    BY DEF IInv, TypeOK
  <2>1. wire' \in [Pages -> Seq(Ids)] /\ lastId' \in [Pages -> 0..MaxEvents]
    BY DEF IInv, TypeOK
  <2>. QED  BY <2>1 DEF IInv, TypeOK
<1>. QED  BY <1>3, <1>4, <1>5, <1>6, <1>7 DEF IInv, Page

(* The next row of the snapshot. *)
LEMMA IInvReplay ==
  ASSUME IInv, NEW p \in Pages, Replay(p)
  PROVE  IInv'
<1>0. open[p] /\ replay[p] # <<>> /\ QueueFollowsSnapshot(p)
  BY DEF Replay, IInv, Page
<1> DEFINE id == Head(replay[p])
<1>1. /\ replay[p] \in Seq(Nat) /\ lastId[p] \in Nat /\ log \in Nat
      /\ Len(replay[p]) \in Nat \ {0} /\ replay'[p] = Tail(replay[p])
      /\ Len(replay'[p]) = Len(replay[p]) - 1
      /\ \A i \in 1..Len(replay'[p]) : replay'[p][i] = replay[p][i + 1]
      /\ ToSet(replay[p]) = {id} \cup ToSet(replay'[p])
  BY <1>0, Types, TailKeeps DEF Replay, IInv, TypeOK
<1>2. id = lastId[p] + 1 /\ id <= log
  BY <1>0, <1>1 DEF QueueFollowsSnapshot
<1>3. lastId' = [lastId EXCEPT ![p] = id] /\ lastId'[p] = lastId[p] + 1
  <2>. id > lastId[p]
    BY <1>1, <1>2
  <2>. QED  BY <1>2 DEF Replay, IInv, TypeOK
<1>4. QueueFollowsSnapshot(p)'
  <2>1. \A i \in 1..Len(replay'[p]) : replay'[p][i] = lastId'[p] + i
    <3>1. SUFFICES ASSUME NEW i \in 1..Len(replay'[p]) PROVE replay'[p][i] = lastId'[p] + i
      OBVIOUS
    <3>2. i \in Nat /\ i + 1 \in 1..Len(replay[p]) /\ replay'[p][i] = replay[p][i + 1]
      BY <1>1
    <3>3. replay[p][i + 1] = lastId[p] + (i + 1)
      BY <1>0, <3>2 DEF QueueFollowsSnapshot
    <3>4. \A m, n \in Nat : m + (n + 1) = (m + 1) + n
      OBVIOUS
    <3>. QED  BY <1>1, <1>3, <3>2, <3>3, <3>4
  <2>2. lastId'[p] + Len(replay'[p]) = lastId[p] + Len(replay[p])
    BY <1>1, <1>3
  <2>. QED  BY <1>0, <2>1, <2>2 DEF Replay, QueueFollowsSnapshot
<1>5. replay' \in [Pages -> Seq(Ids)] /\ queue' \in [Pages -> Seq(Ids)]
  <2>. Tail(replay[p]) \in Seq(Ids)
    BY <1>0 DEF IInv, TypeOK
  <2>. QED  BY DEF Replay, IInv, TypeOK
<1>6. \A q \in Pages \ {p} : replay'[q] = replay[q] /\ queue'[q] = queue[q]
  BY DEF Replay, IInv, TypeOK
<1>7. ToSet(replay[p]) \cup ToSet(queue[p])
        \subseteq {id} \cup ToSet(replay'[p]) \cup ToSet(queue'[p])
  BY <1>1 DEF Replay
<1>8. id \in Nat /\ id > lastId[p]
  BY <1>1, <1>2
<1>9. wire' = [wire EXCEPT ![p] = Append(@, id)] /\ UNCHANGED <<log, foreign, open, shown, cuts>>
  BY <1>3 DEF Replay
<1>. QED  BY <1>0, <1>2, <1>3, <1>4, <1>5, <1>6, <1>7, <1>8, <1>9, IInvSends

(* The next event of the queue: the snapshot has been used up, so it is new. *)
LEMMA IInvLive ==
  ASSUME IInv, NEW p \in Pages, Live(p)
  PROVE  IInv'
<1>0. open[p] /\ replay[p] = <<>> /\ queue[p] # <<>> /\ QueueFollowsSnapshot(p)
  BY DEF Live, MayGoLive, IInv, Page
<1> DEFINE id == Head(queue[p])
<1>1. /\ queue[p] \in Seq(Nat) /\ lastId[p] \in Nat /\ log \in Nat /\ id \in Nat
      /\ queue'[p] = Tail(queue[p]) /\ ToSet(queue[p]) = {id} \cup ToSet(queue'[p])
  BY <1>0, Types, TailKeeps DEF Live, IInv, TypeOK
<1>2. id > lastId[p] /\ id <= log
  BY <1>0, <1>1, TailKeeps DEF QueueFollowsSnapshot
<1>3. /\ lastId' = [lastId EXCEPT ![p] = id] /\ lastId'[p] = id
      /\ wire' = [wire EXCEPT ![p] = Append(@, id)]
  BY <1>1, <1>2 DEF Live, IInv, TypeOK
<1>4. QueueFollowsSnapshot(p)'
  <2>. Ascending(queue'[p]) /\ Above(queue'[p], id) /\ UpTo(queue'[p], log)
    BY <1>0, <1>1, TailKeeps DEF QueueFollowsSnapshot
  <2>. Len(replay[p]) = 0 /\ id + 0 = id
    BY <1>0, <1>1
  <2>. QED  BY <1>0, <1>1, <1>2, <1>3 DEF Live, QueueFollowsSnapshot
<1>5. queue' \in [Pages -> Seq(Ids)] /\ replay' \in [Pages -> Seq(Ids)]
  <2>. Tail(queue[p]) \in Seq(Ids)
    BY <1>0 DEF IInv, TypeOK
  <2>. QED  BY DEF Live, IInv, TypeOK
<1>6. \A q \in Pages \ {p} : replay'[q] = replay[q] /\ queue'[q] = queue[q]
  BY DEF Live, IInv, TypeOK
<1>7. ToSet(replay[p]) \cup ToSet(queue[p])
        \subseteq {id} \cup ToSet(replay'[p]) \cup ToSet(queue'[p])
  BY <1>1 DEF Live
<1>8. id \in Nat /\ id > lastId[p]
  BY <1>1, <1>2
<1>9. wire' = [wire EXCEPT ![p] = Append(@, id)] /\ UNCHANGED <<log, foreign, open, shown, cuts>>
  BY <1>3 DEF Live
<1>. QED  BY <1>0, <1>2, <1>3, <1>4, <1>5, <1>6, <1>7, <1>8, <1>9, IInvSends

(* A frame arrives, and the page's cursor moves with it. *)
LEMMA IInvReceive ==
  ASSUME IInv, NEW p \in Pages, Receive(p)
  PROVE  IInv'
<1> DEFINE id == Head(wire[p])
<1>0. /\ wire[p] # <<>> /\ open[p] /\ wire[p] \in Seq(Nat) /\ shown[p] \in Seq(Nat) /\ log \in Nat
      /\ WireGoesOn(p) /\ LastSent(p) /\ QueueFollowsSnapshot(p) /\ Delivers(p)
      /\ Cursor(p) \in 0..log /\ \A i \in 1..Len(shown[p]) : shown[p][i] <= Cursor(p)
  BY Types, CursorIs DEF Receive, IInv, Page, WireGoesOn
<1>1. /\ wire'[p] = Tail(wire[p]) /\ shown'[p] = Append(shown[p], id)
      /\ UNCHANGED <<log, foreign, open, replay, queue, lastId, cuts>>
  BY DEF Receive, IInv, TypeOK
<1>2. id \in Nat /\ id > Cursor(p) /\ id <= log
  BY <1>0, TailKeeps DEF WireGoesOn
<1>3. Cursor(p)' = id
  BY <1>0, <1>1, <1>2, AppendKeeps DEF Cursor
<1>4. WireGoesOn(p)'
  <2>1. Ascending(shown'[p]) /\ UpTo(shown'[p], log)
    <3>1. Cursor(p) \in Nat /\ id \in Nat /\ Cursor(p) < id
      BY <1>0, <1>2
    <3>2. \A i \in 1..Len(shown[p]) : shown[p][i] \in Nat /\ shown[p][i] <= Cursor(p)
      BY <1>0
    <3>3. \A i \in 1..Len(shown[p]) : shown[p][i] < id
      BY <3>1, <3>2
    <3>4. shown[p] \in Seq(Nat) /\ log \in Nat /\ Ascending(shown[p]) /\ UpTo(shown[p], log)
      BY <1>0 DEF WireGoesOn
    <3>. QED  BY <1>1, <1>2, <3>3, <3>4, AppendKeeps
  <2>2. Ascending(wire'[p]) /\ Above(wire'[p], id) /\ UpTo(wire'[p], log)
    BY <1>0, <1>1, TailKeeps DEF WireGoesOn
  <2>. QED  BY <1>1, <1>3, <2>1, <2>2 DEF WireGoesOn
<1>5. LastSent(p)'
  BY <1>0, <1>1, <1>3, TailKeeps DEF LastSent
<1>6. QueueFollowsSnapshot(p)'
  BY <1>0, <1>1 DEF QueueFollowsSnapshot
<1>7. Delivers(p)'
  <2>1. ToSet(wire[p]) = {id} \cup ToSet(wire'[p])
    BY <1>0, <1>1, TailKeeps
  <2>2. ASSUME NEW i \in (id + 1)..log
        PROVE  i \in ToSet(wire'[p]) \cup ToSet(replay[p]) \cup ToSet(queue[p]) \cup foreign
    <3>. i \in (Cursor(p) + 1)..log /\ i # id
      BY <1>0, <1>2
    <3>. QED  BY <1>0, <2>1 DEF Delivers
  <2>. QED  BY <1>1, <1>3, <2>2 DEF Delivers
<1>8. ASSUME NEW q \in Pages, q # p PROVE Page(q)'
  BY <1>8, OtherPage DEF Receive, IInv, TypeOK
<1>9. TypeOK'
  <2>1. wire[p] \in Seq(Ids) /\ shown[p] \in Seq(Ids)
    BY DEF IInv, TypeOK
  <2>2. Append(shown[p], id) \in Seq(Ids) /\ Tail(wire[p]) \in Seq(Ids)
    BY <1>0, <2>1
  <2>3. shown' \in [Pages -> Seq(Ids)] /\ wire' \in [Pages -> Seq(Ids)]
    BY <2>2 DEF Receive, IInv, TypeOK
  <2>. QED  BY <2>3 DEF Receive, IInv, TypeOK
<1>. QED  BY <1>0, <1>1, <1>4, <1>5, <1>6, <1>7, <1>8, <1>9 DEF IInv, Page

(* The connection is lost; what the page has stays, unless it is reloaded. *)
LEMMA IInvHangsUp ==
  ASSUME IInv, NEW p \in Pages, Cut(p) \/ Reload(p)
  PROVE  IInv'
<1>0. HangUp(p) /\ shown' \in {shown, [shown EXCEPT ![p] = <<>>]}
  BY DEF Cut, Reload
<1>1. /\ ~open'[p] /\ wire'[p] = <<>> /\ shown'[p] \in {<<>>, shown[p]}
      /\ UNCHANGED <<log, foreign, lastId>>
  BY <1>0 DEF HangUp, IInv, TypeOK
<1>2. TypeOK'
  <2>. <<>> \in Seq(Ids)
    OBVIOUS
  <2>1. cuts' \in 0..MaxCuts
    BY <1>0, BoundsAssumption DEF HangUp, IInv, TypeOK
  <2>2. open' \in [Pages -> BOOLEAN] /\ replay' \in [Pages -> Seq(Ids)]
    BY <1>0 DEF HangUp, IInv, TypeOK
  <2>3. queue' \in [Pages -> Seq(Ids)] /\ wire' \in [Pages -> Seq(Ids)]
    BY <1>0 DEF HangUp, IInv, TypeOK
  <2>4. shown' \in [Pages -> Seq(Ids)]
    BY <1>0 DEF IInv, TypeOK
  <2>. QED  BY <1>1, <2>1, <2>2, <2>3, <2>4 DEF IInv, TypeOK
<1>3. Page(p)'
  BY <1>1 DEF IInv, Page, WireGoesOn, Ascending, Above, UpTo
<1>4. ASSUME NEW q \in Pages, q # p PROVE Page(q)'
  BY <1>0, <1>4, OtherPage DEF HangUp, IInv, TypeOK
<1>. QED  BY <1>2, <1>3, <1>4 DEF IInv

LEMMA IInvStep == IInv /\ [Next]_vars => IInv'
<1> SUFFICES ASSUME IInv, [Next]_vars PROVE IInv'
  OBVIOUS
<1>1. CASE UNCHANGED vars
  <2>1. TypeOK'
    BY <1>1 DEF vars, IInv, TypeOK
  <2>2. ASSUME NEW q \in Pages PROVE Page(q)'
    BY <1>1, OtherPage DEF vars, IInv
  <2>. QED  BY <2>1, <2>2 DEF IInv
<1>. QED  BY <1>1, IInvPublish, IInvConnect, IInvReplay, IInvLive, IInvReceive, IInvHangsUp
             DEF Next, PageStep

(* The invariant holds over all publications, cuts and reconnections. *)
THEOREM Inductive == Spec => []IInv
BY IInvInit, IInvStep, PTL DEF Spec

(* Every variable keeps its type. *)
THEOREM TypeCorrect == Spec => []TypeOK
<1>1. IInv => TypeOK
  BY DEF IInv
<1>. QED  BY <1>1, Inductive, PTL

(* No page shows an event twice or out of order, over any replays, cuts and
   reconnections, with events from several processes.                        *)
THEOREM PagesShowInOrder == Spec => []ShownInOrder
<1>1. ASSUME IInv, NEW p \in Pages, NEW i \in 1..(Len(shown[p]) - 1)
      PROVE  shown[p][i] < shown[p][i + 1]
  <2>. Len(shown[p]) \in Nat
    BY <1>1, Types DEF IInv
  <2>. QED  BY <1>1 DEF IInv, Page, WireGoesOn, Ascending
<1>2. IInv => ShownInOrder
  BY <1>1 DEF ShownInOrder
<1>. QED  BY <1>2, Inductive, PTL

(* What the page of an open stream lacks is in the snapshot, the queue or on
   the wire, unless another process published it.                            *)
THEOREM StreamLosesNothing == Spec => []NothingLostInStream
<1>1. IInv => NothingLostInStream
  BY DEF IInv, Page, Delivers, NothingLostInStream
<1>. QED  BY <1>1, Inductive, PTL
-----------------------------------------------------------------------------
(* Refinement of Feed.                                                      *)

(* A frame that arrives is the next event the page lacks, but for events of
   another process: what the stream still holds comes after what it has sent. *)
LEMMA FeedReceive ==
  ASSUME IInv, NEW p \in Pages, Receive(p)
  PROVE  F!ShowNext(p)
<1> DEFINE id == Head(wire[p])
<1>0. /\ wire[p] # <<>> /\ open[p] /\ wire[p] \in Seq(Nat) /\ log \in Nat /\ Cursor(p) \in 0..log
      /\ replay[p] \in Seq(Nat) /\ queue[p] \in Seq(Nat) /\ lastId[p] \in Nat
      /\ WireGoesOn(p) /\ LastSent(p) /\ QueueFollowsSnapshot(p) /\ Delivers(p)
  BY Types, CursorIs DEF Receive, IInv, Page, WireGoesOn
<1>1. F!At(p) = Cursor(p)
  BY DEF F!At, Cursor, Last
<1>2. id \in (Cursor(p) + 1)..log
  BY <1>0, TailKeeps DEF WireGoesOn
<1>3. lastId[p] \in Nat /\ lastId[p] >= id
  <2>. 1 \in 1..Len(wire[p]) /\ id = wire[p][1]
    BY <1>0, TailKeeps
  <2>. QED  BY <1>0, LastIsGreatest DEF LastSent, WireGoesOn
<1>4. Above(replay[p], lastId[p]) /\ Above(queue[p], lastId[p])
  <2>1. Len(replay[p]) \in Nat
    BY <1>0
  <2>2. \A k \in 1..Len(replay[p]) : replay[p][k] = lastId[p] + k
    BY <1>0 DEF QueueFollowsSnapshot
  <2>3. Above(replay[p], lastId[p])
    BY <1>3, <2>1, <2>2 DEF Above
  <2>4. \A k \in 1..Len(queue[p]) : queue[p][k] \in Nat
    <3>. queue[p] \in Seq(Nat)
      BY <1>0
    <3>. QED  OBVIOUS
  <2>5. Above(queue[p], lastId[p] + Len(replay[p]))
    BY <1>0 DEF QueueFollowsSnapshot
  <2>6. Above(queue[p], lastId[p])
    BY <1>3, <2>1, <2>4, <2>5 DEF Above
  <2>. QED  BY <2>3, <2>6
<1>5. ASSUME NEW i \in (Cursor(p) + 1)..(id - 1) PROVE i \in foreign
  <2>1. i \in Nat /\ i < id /\ i <= lastId[p] /\ id \in Nat /\ i \in (Cursor(p) + 1)..log
    <3>. Cursor(p) \in Nat /\ log \in Nat /\ id \in Nat /\ id <= log
      BY <1>0, <1>2
    <3>. QED  BY <1>3
  <2>2. i \notin ToSet(wire[p])
    <3>. ToSet(wire[p]) = {id} \cup ToSet(Tail(wire[p])) /\ Tail(wire[p]) \in Seq(Nat)
         /\ Above(Tail(wire[p]), id)
      BY <1>0, TailKeeps DEF WireGoesOn
    <3>1. i <= id /\ i # id
      BY <2>1
    <3>2. i \notin ToSet(Tail(wire[p]))
      BY <2>1, <3>1, NotAbove
    <3>. QED  BY <3>1, <3>2
  <2>3. i \notin ToSet(replay[p]) \cup ToSet(queue[p])
    BY <1>0, <1>4, <2>1, NotAbove
  <2>. QED  BY <1>0, <2>1, <2>2, <2>3 DEF Delivers
<1>6. shown' = [shown EXCEPT ![p] = Append(@, id)] /\ UNCHANGED <<log, foreign>>
  BY DEF Receive
<1>. QED  BY <1>1, <1>2, <1>5, <1>6 DEF F!ShowNext

LEMMA FeedStep == IInv /\ [Next]_vars => [F!Next]_F!vars
<1> SUFFICES ASSUME IInv, [Next]_vars PROVE [F!Next]_F!vars
  OBVIOUS
<1>1. CASE Publish
  BY <1>1 DEF Publish, Inserted, F!Next, F!Happen
<1>2. CASE PublishElsewhere
  BY <1>2 DEF PublishElsewhere, Inserted, F!Next, F!HappenAway
<1>3. ASSUME NEW p \in Pages, PageStep(p) \/ Cut(p) \/ Reload(p) PROVE F!Next \/ UNCHANGED F!vars
  <2>1. CASE Receive(p)
    BY <2>1, FeedReceive DEF F!Next
  <2>2. CASE Reload(p)
    BY <2>2 DEF Reload, HangUp, F!Next, F!StartOver
  <2>3. CASE Connect(p) \/ Replay(p) \/ Live(p) \/ Cut(p)
    BY <2>3 DEF Connect, Replay, Live, Cut, HangUp, F!vars
  <2>. QED  BY <1>3, <2>1, <2>2, <2>3 DEF PageStep
<1>4. CASE UNCHANGED vars
  BY <1>4 DEF vars, F!vars
<1>. QED  BY <1>1, <1>2, <1>3, <1>4 DEF Next

(* Replays, live events, cuts and reconnections show a page every event of the
   serving process, in order and once.                                       *)
THEOREM StreamImplementsFeed == Spec => ImplementsFeed
<1>1. Init => F!Init
  BY DEF Init, F!Init
<1>2. IInv /\ [Next]_vars => [F!Next]_F!vars
  BY FeedStep
<1>. QED  BY <1>1, <1>2, Inductive, PTL DEF Spec, F!Spec, ImplementsFeed
=============================================================================
