----------------------------- MODULE ToastQueue -----------------------------
(***************************************************************************)
(* Toast.show: the toasts of the application are operations of one serial  *)
(* OperationQueue (ToastCenter); a new toast cancels the one before it.    *)
(*                                                                         *)
(* An operation is started by a worker thread of the queue and does its    *)
(* work in blocks it posts to the main queue; cancel posts a block too, and *)
(* the animations end on their own.  What the OperationQueue itself does   *)
(* (it starts its operations in order, one at a time, and drops them when  *)
(* they finish) is Foundation's.                                           *)
(*                                                                         *)
(* Operators whose name ends in Mutant are plausible bugs of the operator  *)
(* that follows them; no specification uses them.                          *)
(***************************************************************************)
EXTENDS Naturals, Sequences, FiniteSets

CONSTANT MaxToasts   \* bound: the toasts the application shows

ASSUME MaxToastsAssumption == MaxToasts \in Nat

Toasts == 1 .. MaxToasts   \* numbered in the order they are created

VARIABLES
  created,     \* toasts added to the operation queue so far
  onKeyboard,  \* those of type .onKeyboard
  started,     \* operations the queue has called start() of
  isCancelled,
  isExecuting,
  isFinished,
  mainQueue,   \* blocks posted to the main queue, oldest first
  onWindow,    \* toasts whose view is on a window
  animation,   \* how far the animations of each toast went
  keyWindow,   \* does the application have a key window?
  crashed      \* the force unwrap of the key window trapped

operationVars == <<started, isCancelled, isExecuting, isFinished>>
viewVars == <<onWindow, animation>>
vars == <<created, onKeyboard, operationVars, mainQueue, viewVars, keyWindow, crashed>>

Init ==
  /\ created = 0
  /\ onKeyboard = {}
  /\ started = {}
  /\ isCancelled = {}
  /\ isExecuting = {}
  /\ isFinished = {}
  /\ mainQueue = <<>>
  /\ onWindow = {}
  /\ animation = [t \in Toasts |-> "none"]
  /\ keyWindow = TRUE
  /\ crashed = FALSE

(* queue.operations: the operations that have not finished, oldest first. *)
Operations == (1 .. created) \ isFinished

IsFirst(t, S) == t \in S /\ \A u \in S : t <= u

(* currentToast: the first operation neither cancelled nor finished. *)
IsCurrentToast(t) == IsFirst(t, Operations \ isCancelled)

Block(kind, t) == [kind |-> kind, toast |-> t]

-----------------------------------------------------------------------------
(* Toast.show that forgets the toast before. *)
ShowMutant ==
  /\ ~crashed
  /\ created < MaxToasts
  /\ created' = created + 1
  /\ onKeyboard' \in {onKeyboard, onKeyboard \cup {created + 1}}
  /\ UNCHANGED <<mainQueue, operationVars, viewVars, keyWindow, crashed>>

(* Toast.show and Toast.showOnKeyboard, on the main thread: the current     *)
(* toast is cancelled, then the new one is added to the operation queue.    *)
Show ==
  /\ ~crashed
  /\ created < MaxToasts
  /\ created' = created + 1
  /\ onKeyboard' \in {onKeyboard, onKeyboard \cup {created + 1}}
  /\ \/ \E t \in Operations :
          /\ IsCurrentToast(t)
          /\ isCancelled' = isCancelled \cup {t}
          /\ mainQueue' = Append(mainQueue, Block("cancel", t))
     \/ /\ Operations \subseteq isCancelled
        /\ UNCHANGED <<isCancelled, mainQueue>>
  /\ UNCHANGED <<started, isExecuting, isFinished, viewVars, keyWindow, crashed>>

Runnable(t) == t \notin isFinished \cup isCancelled \cup isExecuting

(* A worker of the queue calls start() of the next operation, which posts   *)
(* itself to the main queue, or returns if the operation was cancelled.     *)
WorkerStarts(t) ==
  /\ ~crashed
  /\ IsFirst(t, Operations)
  /\ t \notin started
  /\ started' = started \cup {t}
  /\ mainQueue' = IF Runnable(t) THEN Append(mainQueue, Block("start", t)) ELSE mainQueue
  /\ UNCHANGED <<created, onKeyboard, isCancelled, isExecuting, isFinished, viewVars,
                 keyWindow, crashed>>

(* start() on the main thread that does not look at isCancelled again. *)
StartMutant(t) ==
  /\ \/ /\ t \notin isFinished \cup isExecuting
        /\ isExecuting' = isExecuting \cup {t}
        /\ mainQueue' = Append(Tail(mainQueue), Block("present", t))
     \/ /\ t \in isFinished \cup isExecuting
        /\ mainQueue' = Tail(mainQueue)
        /\ UNCHANGED isExecuting
  /\ UNCHANGED <<isFinished, viewVars, crashed>>

(* start() on the main thread: main() begins executing and posts its work. *)
Start(t) ==
  /\ \/ /\ Runnable(t)
        /\ isExecuting' = isExecuting \cup {t}
        /\ mainQueue' = Append(Tail(mainQueue), Block("present", t))
     \/ /\ ~Runnable(t)
        /\ mainQueue' = Tail(mainQueue)
        /\ UNCHANGED isExecuting
  /\ UNCHANGED <<isFinished, viewVars, crashed>>

(* The work of main(): the view goes on the window and fades in; a normal   *)
(* toast unwraps the key window.                                            *)
Present(t) ==
  /\ mainQueue' = Tail(mainQueue)
  /\ \/ /\ keyWindow \/ t \in onKeyboard
        /\ onWindow' = onWindow \cup {t}
        /\ animation' = [animation EXCEPT ![t] = "in"]
        /\ UNCHANGED crashed
     \/ /\ ~keyWindow /\ t \notin onKeyboard
        /\ crashed' = TRUE
        /\ UNCHANGED viewVars
  /\ UNCHANGED <<isExecuting, isFinished>>

(* finish() that leaves the operation executing. *)
FinishMutant(t) ==
  /\ isFinished' = isFinished \cup {t}
  /\ UNCHANGED isExecuting

(* finish(), run once by the animations and once more by a cancellation. *)
Finish(t) ==
  /\ isExecuting' = isExecuting \ {t}
  /\ isFinished' = isFinished \cup {t}

(* The block of cancel() without finish(). *)
CancelMutant(t) ==
  /\ mainQueue' = Tail(mainQueue)
  /\ onWindow' = onWindow \ {t}
  /\ UNCHANGED <<isExecuting, isFinished, animation, crashed>>

(* The block of cancel() that leaves the view to its animations. *)
CancelKeepsViewMutant(t) ==
  /\ mainQueue' = Tail(mainQueue)
  /\ Finish(t)
  /\ UNCHANGED <<viewVars, crashed>>

(* The block of cancel(): finish(), and the view goes away at once. *)
Cancel(t) ==
  /\ mainQueue' = Tail(mainQueue)
  /\ Finish(t)
  /\ onWindow' = onWindow \ {t}
  /\ UNCHANGED <<animation, crashed>>

(* The main queue runs its oldest block. *)
MainQueueRuns ==
  /\ ~crashed
  /\ mainQueue # <<>>
  /\ LET t == Head(mainQueue).toast IN
       \/ Head(mainQueue).kind = "start" /\ Start(t)
       \/ Head(mainQueue).kind = "present" /\ Present(t)
       \/ Head(mainQueue).kind = "cancel" /\ Cancel(t)
  /\ UNCHANGED <<created, onKeyboard, started, isCancelled, keyWindow>>

-----------------------------------------------------------------------------
(* The completion of the fade-in starts the wait of `duration` seconds. *)
FadeInEnds(t) ==
  /\ animation[t] = "in"
  /\ animation' = [animation EXCEPT ![t] = "wait"]
  /\ UNCHANGED <<isExecuting, isFinished, onWindow>>

(* The completion of the wait that leaves the toast executing. *)
WaitEndsMutant(t) ==
  /\ animation[t] = "wait"
  /\ animation' = [animation EXCEPT ![t] = "out"]
  /\ UNCHANGED <<isExecuting, isFinished, onWindow>>

(* The completion of the wait finishes the operation, then fades it out. *)
WaitEnds(t) ==
  /\ animation[t] = "wait"
  /\ Finish(t)
  /\ animation' = [animation EXCEPT ![t] = "out"]
  /\ UNCHANGED onWindow

(* The completion of the fade-out takes the view off the window. *)
FadeOutEnds(t) ==
  /\ animation[t] = "out"
  /\ animation' = [animation EXCEPT ![t] = "done"]
  /\ onWindow' = onWindow \ {t}
  /\ UNCHANGED <<isExecuting, isFinished>>

AnimationEnds(t) ==
  /\ ~crashed
  /\ FadeInEnds(t) \/ WaitEnds(t) \/ FadeOutEnds(t)
  /\ UNCHANGED <<created, onKeyboard, started, isCancelled, mainQueue, keyWindow, crashed>>

(* Scenes connect and disconnect outside of the program's control. *)
KeyWindowChanges ==
  /\ ~crashed
  /\ keyWindow' = ~keyWindow
  /\ UNCHANGED <<created, onKeyboard, operationVars, mainQueue, viewVars, crashed>>

Next ==
  \/ Show
  \/ \E t \in Toasts : WorkerStarts(t) \/ AnimationEnds(t)
  \/ MainQueueRuns
  \/ KeyWindowChanges

Spec == Init /\ [][Next]_vars

(* The threads of the operation queue, the main queue and the animations    *)
(* make progress; nobody has to show a toast.                               *)
FairSpec ==
  /\ Spec
  /\ WF_vars(MainQueueRuns)
  /\ \A t \in Toasts : WF_vars(WorkerStarts(t)) /\ WF_vars(AnimationEnds(t))

-----------------------------------------------------------------------------
(* Types of the operation's flags, the posted blocks and the views; an      *)
(* operation never claims to be executing and finished, nor to be executing *)
(* before the queue started it.                                             *)
TypeOK ==
  /\ created \in 0 .. MaxToasts
  /\ onKeyboard \in SUBSET Toasts
  /\ started \in SUBSET (1 .. created)
  /\ isCancelled \in SUBSET (1 .. created)
  /\ isFinished \in SUBSET (1 .. created)
  /\ isExecuting \in SUBSET (started \ isFinished)
  /\ mainQueue \in Seq([kind : {"start", "present", "cancel"}, toast : Toasts])
  /\ onWindow \in SUBSET Toasts
  /\ animation \in [Toasts -> {"none", "in", "wait", "out", "done"}]
  /\ keyWindow \in BOOLEAN
  /\ crashed \in BOOLEAN

(* However toasts follow each other, at most one is neither cancelled nor   *)
(* finished: cancelling only the first of them is cancelling all of them.   *)
OneLiveToast == Cardinality(Operations \ isCancelled) <= 1

(* A toast that was cancelled and finished has left the window for good,    *)
(* unless it had finished by itself and is fading out: no block posted      *)
(* before the cancellation puts it back.                                    *)
CancelledStaysGone ==
  \A t \in isCancelled \cap isFinished : t \in onWindow => animation[t] = "out"

(* What the toasts promise: the operations of the queue that have not put   *)
(* their view on a window are one line of toasts; a toast counts as shown   *)
(* until it fades out.                                                      *)
Display == INSTANCE SerialDisplay WITH
  requested <- created,
  waiting <- {t \in Operations : animation[t] = "none"},
  showing <- {t \in onWindow : animation[t] \in {"in", "wait"}},
  broken <- FALSE

(* The toast queue is a serial display that never breaks: whatever the      *)
(* workers, the main queue and the animations do, and with toasts cancelled *)
(* at any point, no toast overtakes another or comes up twice; two are on   *)
(* the window together only while the older fades out.                      *)
ImplementsSerialDisplay == Display!Spec

(* The operation queue never blocks: every toast finishes, cancelled before *)
(* or after the queue started it.                                           *)
EveryToastFinishes == \A t \in Toasts : (created >= t) ~> (t \in isFinished \/ crashed)

(* The newest toast is seen, unless another one comes after it. *)
NewestIsShown ==
  \A t \in Toasts : (created = t) ~> (animation[t] # "none" \/ created > t \/ crashed)
=============================================================================
