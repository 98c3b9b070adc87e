-------------------------- MODULE ShutterCountdown --------------------------
(***************************************************************************)
(* The screen that counts down to a shutter (Feature/ToastWithView): a     *)
(* repeating timer of its view model hands a number a second, and a seeker *)
(* at the end, to the process's ViewToaster, which shows each in a later   *)
(* block of the main queue and lets it fade out on its own.                *)
(*                                                                         *)
(* A view is the opening of the screen it was made by and its place in the *)
(* count: 0 for the first number, CountFrom for zero, then the seeker.     *)
(*                                                                         *)
(* Operators whose name ends in Mutant are plausible bugs of the operator  *)
(* that follows them; no specification uses them.                          *)
(***************************************************************************)
EXTENDS ScreenSizes, Sequences

Seeker == CountFrom + 1
View == [opening : 1 .. MaxOpenings, place : 0 .. Seeker]
NoView == [opening |-> 0, place |-> 0]   \* currentShowingView = nil

VARIABLES
  openings,            \* screens opened so far
  open,                \* is the last of them still there?
  shutterTimers,       \* openings whose timer is valid
  addCount,            \* of the block of each timer
  posted,              \* views whose block waits in the main queue, oldest first
  toastWindow,         \* lazy: "unset" until its first use, then a window or nil
  onWindow,            \* views on the window
  currentShowingView,
  keyWindow,           \* does the application have a key window?
  crashed              \* a constraint to the superview of a view that has none

timerVars == <<shutterTimers, addCount>>
toasterVars == <<toastWindow, onWindow, currentShowingView>>
vars == <<openings, open, timerVars, posted, toasterVars, keyWindow, crashed>>

Init ==
  /\ openings = 0
  /\ open = FALSE
  /\ shutterTimers = {}
  /\ addCount = [o \in 1 .. MaxOpenings |-> 0]
  /\ posted = <<>>
  /\ toastWindow = "unset"
  /\ onWindow = {}
  /\ currentShowingView = NoView
  /\ keyWindow = TRUE
  /\ crashed = FALSE

-----------------------------------------------------------------------------
(* animate(withType:) posts the block that shows the view. *)
Animate(opening, place) ==
  posted' = Append(posted, [opening |-> opening, place |-> place])

(* The screen is pushed: transform shows the first number and starts the    *)
(* timer.                                                                   *)
Open ==
  /\ ~crashed
  /\ ~open
  /\ openings < MaxOpenings
  /\ openings' = openings + 1
  /\ open' = TRUE
  /\ Animate(openings + 1, 0)
  /\ shutterTimers' = shutterTimers \cup {openings + 1}
  /\ UNCHANGED <<addCount, toasterVars, keyWindow, crashed>>

(* deinit that leaves its timer running. *)
CloseMutant ==
  /\ ~crashed
  /\ open
  /\ open' = FALSE
  /\ onWindow' = onWindow \ {currentShowingView}
  /\ UNCHANGED <<openings, timerVars, posted, toastWindow, currentShowingView,
                 keyWindow, crashed>>

(* The screen is popped: deinit of its view model stops the timer and takes *)
(* the view shown last off the window; blocks that were posted will run.    *)
Close ==
  /\ ~crashed
  /\ open
  /\ open' = FALSE
  /\ shutterTimers' = shutterTimers \ {openings}
  /\ onWindow' = onWindow \ {currentShowingView}
  /\ UNCHANGED <<openings, addCount, posted, toastWindow, currentShowingView,
                 keyWindow, crashed>>

(* A timer that ends without completing the count. *)
TickMutant(o) ==
  /\ ~crashed
  /\ o \in shutterTimers
  /\ Len(posted) < MaxPosted
  /\ \/ /\ addCount[o] = CountFrom
        /\ shutterTimers' = shutterTimers \ {o}
        /\ UNCHANGED posted
        /\ UNCHANGED addCount
     \/ /\ addCount[o] # CountFrom
        /\ Animate(o, addCount[o] + 1)
        /\ addCount' = [addCount EXCEPT ![o] = @ + 1]
        /\ UNCHANGED shutterTimers
  /\ UNCHANGED <<openings, open, toasterVars, keyWindow, crashed>>

(* A timer fires, once a second: the next number, or the end of the count   *)
(* (shutterCountComplete) and the seeker.                                   *)
Tick(o) ==
  /\ ~crashed
  /\ o \in shutterTimers
  /\ Len(posted) < MaxPosted
  /\ \/ /\ addCount[o] = CountFrom
        /\ shutterTimers' = shutterTimers \ {o}
        /\ Animate(o, Seeker)
        /\ UNCHANGED addCount
     \/ /\ addCount[o] # CountFrom
        /\ Animate(o, addCount[o] + 1)
        /\ addCount' = [addCount EXCEPT ![o] = @ + 1]
        /\ UNCHANGED shutterTimers
  /\ UNCHANGED <<openings, open, toasterVars, keyWindow, crashed>>

(* The block of animate: the view goes on the window the toaster found when *)
(* it first needed one; without one its constraints trap.                   *)
ShowView ==
  /\ ~crashed
  /\ posted # <<>>
  /\ posted' = Tail(posted)
  /\ currentShowingView' = Head(posted)
  /\ toastWindow' = IF toastWindow # "unset" THEN toastWindow
                    ELSE IF keyWindow THEN "window" ELSE "nil"
  /\ \/ /\ toastWindow' = "window"
        /\ onWindow' = onWindow \cup {Head(posted)}
        /\ UNCHANGED crashed
     \/ /\ toastWindow' = "nil"
        /\ crashed' = TRUE
        /\ UNCHANGED onWindow
  /\ UNCHANGED <<openings, open, timerVars, keyWindow>>

(* The last animation of a view ends. *)
ViewLeaves(view) ==
  /\ ~crashed
  /\ view \in onWindow
  /\ onWindow' = onWindow \ {view}
  /\ UNCHANGED <<openings, open, timerVars, posted, toastWindow, currentShowingView,
                 keyWindow, crashed>>

(* Scenes connect and disconnect outside of the program's control. *)
KeyWindowChanges ==
  /\ ~crashed
  /\ keyWindow' = ~keyWindow
  /\ UNCHANGED <<openings, open, timerVars, posted, toasterVars, crashed>>

Next ==
  \/ Open
  \/ Close
  \/ \E o \in 1 .. MaxOpenings : Tick(o)
  \/ ShowView
  \/ \E view \in View : ViewLeaves(view)
  \/ KeyWindowChanges

Spec == Init /\ [][Next]_vars

(* The timers fire and the main queue runs its blocks. *)
Fairness == WF_vars(ShowView) /\ \A o \in 1 .. MaxOpenings : WF_vars(Tick(o))

FairSpec == Spec /\ Fairness

-----------------------------------------------------------------------------
(* Types of the timer's and the toaster's fields. *)
TypeOK ==
  /\ openings \in 0 .. MaxOpenings
  /\ open \in BOOLEAN
  /\ shutterTimers \in SUBSET (1 .. openings)
  /\ addCount \in [1 .. MaxOpenings -> 0 .. CountFrom]
  /\ posted \in Seq(View)
  /\ toastWindow \in {"unset", "nil", "window"}
  /\ onWindow \in SUBSET View
  /\ currentShowingView \in View \cup {NoView}
  /\ keyWindow \in BOOLEAN
  /\ crashed \in BOOLEAN

(* The views of one opening come up one after the other, from the first     *)
(* number to the seeker, and none after a view of a later opening, however  *)
(* late the main queue runs and whenever the screen is closed and opened    *)
(* again.                                                                   *)
NoNumberIsSkipped ==
  [][LET new == currentShowingView' IN
       new # currentShowingView
         => \/ /\ new.opening = currentShowingView.opening
               /\ new.place = currentShowingView.place + 1
            \/ /\ new.opening > currentShowingView.opening
               /\ new.place = 0]_vars

(* Every countdown ends with its seeker, unless its screen is closed or the *)
(* toaster cached a missing window.                                         *)
CountEnds ==
  \A o \in 1 .. MaxOpenings :
    (openings = o) ~>
      (currentShowingView = [opening |-> o, place |-> Seeker] \/ ~open \/ openings > o \/ crashed)
=============================================================================
