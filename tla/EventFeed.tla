------------------------------ MODULE EventFeed ------------------------------
(* The event backbone of one mission: EventBus (events/bus.py) persists every
   event and fans it out to the queues of the open SSE streams; each stream
   (api/routes_events.py) replays the stored events after Last-Event-ID, then
   takes from its queue; a page (EventSource in the dashboard) reconnects by
   itself with the id of the last frame it received.

   Ids are consecutive per mission here.  In the store they are shared with
   other missions, but the code only compares them.                         *)
EXTENDS Naturals, FiniteSets, Sequences, SequencesExt

CONSTANTS
  Pages,       \* the open dashboard pages
  MaxEvents,   \* bound: events of the mission
  MaxCuts      \* bound: lost connections and reloads, over all pages

ASSUME BoundsAssumption == MaxEvents \in Nat /\ MaxCuts \in Nat

VARIABLES
  log,      \* last event id given out by the store
  foreign,  \* ids published by the process that does not serve the streams
  open,     \* open[p]: the server runs a stream for page p
  replay,   \* replay[p]: rows of the snapshot not yet yielded
  queue,    \* queue[p]: the stream's live queue
  lastId,   \* lastId[p]: last_id of the stream
  wire,     \* wire[p]: frames sent, not yet received
  shown,    \* shown[p]: ids the page has received since it was loaded
  cuts      \* connections lost and pages reloaded so far

vars == <<log, foreign, open, replay, queue, lastId, wire, shown, cuts>>
stream == <<open, replay, queue, lastId>>

Ids == 1..MaxEvents

TypeOK ==
  /\ log \in 0..MaxEvents /\ foreign \subseteq Ids
  /\ open \in [Pages -> BOOLEAN]
  /\ replay \in [Pages -> Seq(Ids)] /\ queue \in [Pages -> Seq(Ids)]
  /\ wire \in [Pages -> Seq(Ids)]   /\ shown \in [Pages -> Seq(Ids)]
  /\ lastId \in [Pages -> 0..MaxEvents]
  /\ cuts \in 0..MaxCuts

Init ==
  /\ log = 0 /\ foreign = {}
  /\ open = [p \in Pages |-> FALSE]
  /\ replay = [p \in Pages |-> <<>>]
  /\ queue = [p \in Pages |-> <<>>]
  /\ lastId = [p \in Pages |-> 0]
  /\ wire = [p \in Pages |-> <<>>]
  /\ shown = [p \in Pages |-> <<>>]
  /\ cuts = 0

-----------------------------------------------------------------------------

(* insert_event: the row's id is the next one. *)
Inserted == log' = log + 1

(* The id carried by the frame: that of the copy insert_event returns. *)
FrameIdUnassigned == 0
FrameId == log + 1

(* EventBus.publish in the serving process: insert, then put_nowait into every
   queue; nothing runs in between.                                          *)
Publish ==
  /\ log < MaxEvents
  /\ Inserted
  /\ queue' = [p \in Pages |-> IF open[p] THEN Append(queue[p], FrameId) ELSE queue[p]]
  /\ UNCHANGED <<foreign, open, replay, lastId, wire, shown, cuts>>

(* `swarmforge mission` is a process with a bus of its own, on the same
   database: the queues of this one get nothing.                             *)
PublishElsewhere ==
  /\ log < MaxEvents
  /\ Inserted
  /\ foreign' = foreign \cup {log + 1}
  /\ UNCHANGED <<open, replay, queue, lastId, wire, shown, cuts>>

-----------------------------------------------------------------------------
(* The stream of one page.                                                  *)

(* Rows with id > since, in id order (get_events). *)
RowsSinceInclusive(since) == [i \in 1..(log + 1 - since) |-> since + i - 1]
RowsSince(since) == [i \in 1..(log - since) |-> since + i]

(* Last-Event-ID of a reconnecting page; none for a page just loaded. *)
Cursor(p) == IF shown[p] = <<>> THEN 0 ELSE Last(shown[p])

(* A request starts the generator: subscribe, then read the snapshot, with
   no suspension between the two.                                           *)
Connect(p) ==
  /\ ~open[p]
  /\ open' = [open EXCEPT ![p] = TRUE]
  /\ lastId' = [lastId EXCEPT ![p] = Cursor(p)]
  /\ replay' = [replay EXCEPT ![p] = RowsSince(Cursor(p))]
  /\ queue' = [queue EXCEPT ![p] = <<>>]
  /\ UNCHANGED <<log, foreign, wire, shown, cuts>>

(* Yield one row of the snapshot; the stream suspends after each. *)
Replay(p) ==
  /\ open[p] /\ replay[p] # <<>>
  /\ wire' = [wire EXCEPT ![p] = Append(@, Head(replay[p]))]
  /\ lastId' = [lastId EXCEPT ![p] = IF Head(replay[p]) > @ THEN Head(replay[p]) ELSE @]
  /\ replay' = [replay EXCEPT ![p] = Tail(@)]
  /\ UNCHANGED <<log, foreign, open, queue, shown, cuts>>

(* The live loop starts once the snapshot is used up. *)
LiveAtOnce(p) == open[p] /\ queue[p] # <<>>
MayGoLive(p)  == open[p] /\ replay[p] = <<>> /\ queue[p] # <<>>

(* Take one event of the live queue; ids at or below last_id are dropped. *)
Live(p) ==
  /\ MayGoLive(p)
  /\ LET id == Head(queue[p]) IN
       IF id <= lastId[p]
       THEN UNCHANGED <<lastId, wire>>
       ELSE /\ lastId' = [lastId EXCEPT ![p] = id]
            /\ wire' = [wire EXCEPT ![p] = Append(@, id)]
  /\ queue' = [queue EXCEPT ![p] = Tail(@)]
  /\ UNCHANGED <<log, foreign, open, replay, shown, cuts>>

(* onmessage. *)
Receive(p) ==
  /\ wire[p] # <<>>
  /\ shown' = [shown EXCEPT ![p] = Append(@, Head(wire[p]))]
  /\ wire' = [wire EXCEPT ![p] = Tail(@)]
  /\ UNCHANGED <<log, foreign, open, replay, queue, lastId, cuts>>

(* The connection breaks or the server restarts: the generator's finally
   unsubscribes, what was queued or in flight is gone, the rows stay.        *)
HangUp(p) ==
  /\ cuts < MaxCuts /\ cuts' = cuts + 1
  /\ open' = [open EXCEPT ![p] = FALSE]
  /\ replay' = [replay EXCEPT ![p] = <<>>]
  /\ queue' = [queue EXCEPT ![p] = <<>>]
  /\ wire' = [wire EXCEPT ![p] = <<>>]
  /\ UNCHANGED <<log, foreign, lastId>>

Cut(p) == open[p] /\ HangUp(p) /\ UNCHANGED shown

(* The page is reloaded: a new EventSource without a Last-Event-ID. *)
Reload(p) == HangUp(p) /\ shown' = [shown EXCEPT ![p] = <<>>]

PageStep(p) == Connect(p) \/ Replay(p) \/ Live(p) \/ Receive(p)

Next ==
  \/ Publish \/ PublishElsewhere
  \/ \E p \in Pages : PageStep(p) \/ Cut(p) \/ Reload(p)

Spec == Init /\ [][Next]_vars

(* EventSource keeps reconnecting, a stream is scheduled whenever it has
   something to yield, and what is sent on an open connection arrives.      *)
FairSpec == Spec /\ \A p \in Pages : WF_vars(PageStep(p))

-----------------------------------------------------------------------------
(* Properties.                                                              *)

(* A page never shows an event twice nor out of order, over any number of
   replays, lost connections and reconnections.                             *)
ShownInOrder ==
  \A p \in Pages : \A i \in 1..(Len(shown[p]) - 1) : shown[p][i] < shown[p][i + 1]

(* What an open stream still has to deliver is exactly what the page lacks:
   nothing is lost between snapshot, queue and wire.                        *)
NothingLostInStream ==
  \A p \in Pages : open[p] =>
    \A i \in (Cursor(p) + 1)..log :
      \/ i \in ToSet(wire[p]) \cup ToSet(replay[p]) \cup ToSet(queue[p])
      \/ i \in foreign

(* Once the mission is over and connections hold, every page shows every
   event of the serving process.                                            *)
PagesCatchUp ==
  <>[](\A p \in Pages : (1..log) \subseteq ToSet(shown[p]) \cup foreign)

F == INSTANCE Feed WITH away <- foreign

(* The stream with its cuts and reconnections implements the feed that leaves
   out no event of its own process, nor shows any twice or too early.        *)
ImplementsFeed == F!Spec
=============================================================================
