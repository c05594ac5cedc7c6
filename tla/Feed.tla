--------------------------------- MODULE Feed ---------------------------------
(* What the event backbone promises to a dashboard: a page shows the mission's
   events in order, each once, and leaves none out but perhaps some that
   another process published; it goes back to nothing only when the page
   itself is reloaded.                                                       *)
EXTENDS Naturals, Sequences

CONSTANT Pages

VARIABLES log,    \* id of the mission's last event; the first has id 1
          away,   \* ids of the events that another process published
          shown   \* shown[p]: ids of the events page p has shown, in order

vars == <<log, away, shown>>

Init == log = 0 /\ away = {} /\ shown = [p \in Pages |-> <<>>]

Happen == log' = log + 1 /\ UNCHANGED <<away, shown>>

HappenAway == log' = log + 1 /\ away' = away \cup {log'} /\ UNCHANGED shown

At(p) == IF shown[p] = <<>> THEN 0 ELSE shown[p][Len(shown[p])]

ShowNext(p) ==
  /\ \E id \in (At(p) + 1)..log :
       /\ \A i \in (At(p) + 1)..(id - 1) : i \in away
       /\ shown' = [shown EXCEPT ![p] = Append(@, id)]
  /\ UNCHANGED <<log, away>>

StartOver(p) == shown' = [shown EXCEPT ![p] = <<>>] /\ UNCHANGED <<log, away>>

Next == Happen \/ HappenAway \/ \E p \in Pages : ShowNext(p) \/ StartOver(p)

Spec == Init /\ [][Next]_vars
=============================================================================
