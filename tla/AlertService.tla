---------------------------- MODULE AlertService ----------------------------
(***************************************************************************)
(* The queue of modal alerts of the application (popup/AlertService.swift) *)
(* with the part of CustomAlertViewController and RxAlert that drives it.  *)
(*                                                                         *)
(* Every alert is a full-screen view added to the key window.  enqueue     *)
(* decides synchronously whether the alert must wait, but the alert is put *)
(* on screen, and isPresenting set, only by a block posted to the main     *)
(* queue: between the two, other main-thread work may run.                 *)
(*                                                                         *)
(* Operators whose name ends in Mutant are plausible bugs of the operator  *)
(* that follows them; no specification uses them.                          *)
(***************************************************************************)
EXTENDS Naturals, Sequences, SequencesExt

CONSTANT MaxAlerts   \* bound: the alerts the application creates

ASSUME MaxAlertsAssumption == MaxAlerts \in Nat

NoAlert == 0              \* presentViewController = nil
Alert == 1 .. MaxAlerts   \* alerts, numbered in the order they are created

VARIABLES
  queue,                  \* alerts that wait for the one on screen
  isPresenting,
  presentViewController,  \* the alert that dismiss() will remove
  posted,                 \* present blocks waiting in the main queue
  onWindow,               \* alert views on the window, topmost last
  keyWindow,              \* does the application have a key window?
  created,                \* alerts created so far
  lastShown,              \* history: the last alert put on screen
  raced,                  \* history: an alert was posted while another was
  dropped                 \* history: a present block found no key window

serviceVars == <<queue, isPresenting, presentViewController, posted, onWindow>>
historyVars == <<lastShown, raced, dropped>>
vars == <<serviceVars, historyVars, keyWindow, created>>

Init ==
  /\ queue = <<>>
  /\ isPresenting = FALSE
  /\ presentViewController = NoAlert
  /\ posted = <<>>
  /\ onWindow = <<>>
  /\ keyWindow = TRUE
  /\ created = 0
  /\ lastShown = NoAlert
  /\ raced = FALSE
  /\ dropped = FALSE

-----------------------------------------------------------------------------
(* present(viewController:) only posts a block to the main queue. *)
PostPresent(a) ==
  /\ posted' = Append(posted, a)
  /\ raced' = (raced \/ posted # <<>>)

(* enqueue without its guard on isPresenting. *)
EnqueueUnguardedMutant(a) ==
  /\ PostPresent(a)
  /\ UNCHANGED <<queue, isPresenting, presentViewController, onWindow, lastShown, dropped>>

(* enqueue(alert:), called by RxAlert.composite with a new alert. *)
Enqueue(a) ==
  /\ \/ /\ isPresenting
        /\ queue' = Append(queue, a)
        /\ UNCHANGED <<posted, raced>>
     \/ /\ ~isPresenting
        /\ PostPresent(a)
        /\ UNCHANGED queue
  /\ UNCHANGED <<isPresenting, presentViewController, onWindow, lastShown, dropped>>

(* dequeue that leaves isPresenting set when nothing waits. *)
DequeueKeepsFlagMutant ==
  \/ /\ queue = <<>>
     /\ UNCHANGED <<isPresenting, queue, posted, raced>>
  \/ /\ queue # <<>>
     /\ queue' = Tail(queue)
     /\ PostPresent(Head(queue))
     /\ UNCHANGED isPresenting

(* dequeue that takes the newest alert: removeLast for removeFirst. *)
DequeueLastMutant ==
  \/ /\ queue = <<>>
     /\ isPresenting' = FALSE
     /\ UNCHANGED <<queue, posted, raced>>
  \/ /\ queue # <<>>
     /\ queue' = Front(queue)
     /\ PostPresent(Last(queue))
     /\ UNCHANGED isPresenting

(* dequeue(): the next waiting alert is posted; with none, presenting ends. *)
Dequeue ==
  \/ /\ queue = <<>>
     /\ isPresenting' = FALSE
     /\ UNCHANGED <<queue, posted, raced>>
  \/ /\ queue # <<>>
     /\ queue' = Tail(queue)
     /\ PostPresent(Head(queue))
     /\ UNCHANGED isPresenting

(* dismiss() that forgets to dequeue. *)
DismissNoDequeueMutant ==
  /\ onWindow' = SelectSeq(onWindow, LAMBDA a : a # presentViewController)
  /\ presentViewController' = NoAlert
  /\ UNCHANGED <<queue, posted, raced, isPresenting, lastShown, dropped>>

(* dismiss() takes off the window the alert the service remembers, which is *)
(* not necessarily the alert whose button was tapped, then dequeues.        *)
Dismiss ==
  /\ \/ /\ presentViewController \notin ToSet(onWindow)
        /\ UNCHANGED onWindow
     \/ \E i \in DOMAIN onWindow :
          /\ onWindow[i] = presentViewController
          /\ onWindow' = RemoveAt(onWindow, i)
  /\ presentViewController' = NoAlert
  /\ Dequeue
  /\ UNCHANGED <<lastShown, dropped>>

(* The block of present(viewController:) runs on the main queue. *)
RunPresentBlock ==
  /\ posted # <<>>
  /\ posted' = Tail(posted)
  /\ \/ /\ keyWindow
        /\ presentViewController' = Head(posted)
        /\ isPresenting' = TRUE
        /\ onWindow' = Append(onWindow, Head(posted))
        /\ lastShown' = Head(posted)
        /\ UNCHANGED dropped
     \/ /\ ~keyWindow
        /\ dropped' = TRUE
        /\ UNCHANGED <<presentViewController, isPresenting, onWindow, lastShown>>
  /\ UNCHANGED <<queue, raced>>

-----------------------------------------------------------------------------
(* show that hands over the number of the alert before it. *)
ShowOffByOneMutant ==
  /\ created < MaxAlerts
  /\ created' = created + 1
  /\ Enqueue(created)
  /\ UNCHANGED keyWindow

(* RxAlert.show: a new alert is built and enqueued. *)
Show ==
  /\ created < MaxAlerts
  /\ created' = created + 1
  /\ Enqueue(created + 1)
  /\ UNCHANGED keyWindow

PresentNext ==
  /\ RunPresentBlock
  /\ UNCHANGED <<created, keyWindow>>

(* An alert covers the whole window: only the topmost one can be touched.   *)
(* Its buttons, its close button and a tap outside of it all call dismiss().*)
Answer ==
  /\ onWindow # <<>>
  /\ Dismiss
  /\ UNCHANGED <<created, keyWindow>>

(* Scenes connect and disconnect outside of the program's control. *)
KeyWindowChanges ==
  /\ keyWindow' = ~keyWindow
  /\ UNCHANGED <<serviceVars, historyVars, created>>

Next == Show \/ PresentNext \/ Answer \/ KeyWindowChanges

Spec == Init /\ [][Next]_vars

(* The main queue runs its blocks; the user answers what is on screen. *)
FairSpec == Spec /\ WF_vars(PresentNext) /\ WF_vars(Answer)

-----------------------------------------------------------------------------
(* Types of the service's fields, of the two queues and of the history. *)
TypeOK ==
  /\ queue \in Seq(Alert)
  /\ isPresenting \in BOOLEAN
  /\ presentViewController \in Alert \cup {NoAlert}
  /\ posted \in Seq(Alert)
  /\ onWindow \in Seq(Alert)
  /\ keyWindow \in BOOLEAN
  /\ created \in 0 .. MaxAlerts
  /\ lastShown \in Alert \cup {NoAlert}
  /\ raced \in BOOLEAN
  /\ dropped \in BOOLEAN

(* The .queue mode of AlertService: two alerts are on screen together, or   *)
(* the alert on screen is not the one dismiss() would remove, only after    *)
(* two present blocks were pending at once (enqueue reads isPresenting, the *)
(* block posted by present sets it).                                        *)
OverlapOnlyAfterRace ==
  ~raced => /\ Len(onWindow) <= 1
            /\ onWindow # <<>> => presentViewController = onWindow[1]

(* The service never claims to be presenting, and so makes every later      *)
(* alert wait, with nothing on screen that could be dismissed nor about to  *)
(* be, unless a present block found no key window (present leaves           *)
(* isPresenting as the alert before it had set it).                         *)
StuckOnlyAfterDrop ==
  isPresenting /\ ~dropped => onWindow # <<>> \/ posted # <<>>

(* First come, first shown: whatever the interleaving of enqueue, dismiss   *)
(* and the main queue, alerts go on screen in the order they were created.  *)
ShownInOrder == [][lastShown' # lastShown => lastShown' > lastShown]_vars

(* What the service promises: posted blocks and queue together are one line *)
(* of alerts, shown one at a time until two blocks were posted at once.     *)
Display == INSTANCE SerialDisplay WITH
  requested <- created,
  waiting <- ToSet(posted) \cup ToSet(queue),
  showing <- ToSet(onWindow),
  broken <- raced

(* The alert queue is a serial display, whatever the interleaving of        *)
(* enqueue, dismiss, the main queue and the coming and going of the key     *)
(* window: no alert overtakes another, comes up twice or, but for a race,   *)
(* over another one.                                                        *)
ImplementsSerialDisplay == Display!Spec

(* Every alert enqueued is shown in the end, if the user answers the alerts *)
(* he sees and no present block loses its window.                           *)
EveryAlertShown == \A a \in Alert : (created >= a) ~> (lastShown >= a \/ dropped)
=============================================================================
