--------------------------- MODULE SerialDisplay ---------------------------
(***************************************************************************)
(* What the alert queue and the toast queue promise: things asked to be    *)
(* shown are shown one at a time, in the order in which they were asked    *)
(* for, and none twice; one whose turn comes may be given up instead.      *)
(* AlertService and ToastQueue implement it.                               *)
(***************************************************************************)
EXTENDS Naturals

VARIABLES
  requested,  \* how many were asked for; they are numbered from one
  waiting,    \* those that were neither shown nor given up
  showing,    \* those on screen
  broken      \* the display no longer promises to show one at a time

displayVars == <<requested, waiting, showing, broken>>

Init ==
  /\ requested = 0
  /\ waiting = {}
  /\ showing = {}
  /\ broken = FALSE

IsNext(i) == i \in waiting /\ \A j \in waiting : i <= j

Request ==
  /\ requested' = requested + 1
  /\ waiting' = waiting \cup {requested + 1}
  /\ UNCHANGED showing

ShowNext(i) ==
  /\ IsNext(i)
  /\ showing = {} \/ broken
  /\ waiting' = waiting \ {i}
  /\ showing' = showing \cup {i}
  /\ UNCHANGED requested

GiveUp(i) ==
  /\ IsNext(i)
  /\ waiting' = waiting \ {i}
  /\ UNCHANGED <<requested, showing>>

TakeAway(i) ==
  /\ i \in showing
  /\ showing' = showing \ {i}
  /\ UNCHANGED <<requested, waiting>>

(* A display may break at any step, and stays broken. *)
Next ==
  /\ \/ Request
     \/ \E i \in waiting : ShowNext(i) \/ GiveUp(i)
     \/ \E i \in showing : TakeAway(i)
     \/ UNCHANGED <<requested, waiting, showing>>
  /\ broken' \in {broken, TRUE}

Spec == Init /\ [][Next]_displayVars
=============================================================================
