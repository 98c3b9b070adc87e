----------------------- MODULE CountdownScreenProofs -----------------------
(***************************************************************************)
(* Theorems about the countdown screen, for any number to count from and   *)
(* however often the screen is opened.                                     *)
(***************************************************************************)
EXTENDS Screens, TLAPS, SequenceTheorems

(* A step of a session is one of the countdown, or leaves it alone. *)
LEMMA ToastSteps == [Next]_vars => [Toast!Next]_toastVars
BY Zenon DEF Next, OnPlayer, OnRotate, OnToast, OnEvent, vars

Counted(o, p) == [opening |-> o, place |-> p]

CountTypes ==
  /\ openings \in 0 .. MaxOpenings
  /\ shutterTimers \in SUBSET (1 .. openings)
  /\ addCount \in [1 .. MaxOpenings -> 0 .. CountFrom]
  /\ posted \in Seq(Toast!View)
  /\ currentShowingView \in Toast!View \cup {Toast!NoView}

(* What the actions do to the count, without the toaster's window. *)
LEMMA OpenCounts ==
  Toast!Open => /\ ~open /\ openings < MaxOpenings /\ openings' = openings + 1
                /\ open' /\ posted' = Append(posted, Counted(openings + 1, 0))
                /\ shutterTimers' = shutterTimers \cup {openings + 1}
                /\ UNCHANGED <<addCount, currentShowingView, toastWindow, onWindow>>
BY Zenon DEF Toast!Open, Toast!Animate, Toast!toasterVars, Counted

LEMMA CloseCounts ==
  Toast!Close => /\ ~open' /\ shutterTimers' = shutterTimers \ {openings}
                 /\ onWindow' = onWindow \ {currentShowingView}
                 /\ UNCHANGED <<openings, addCount, posted, currentShowingView, toastWindow>>
BY Zenon DEF Toast!Close

LEMMA TickCounts ==
  ASSUME NEW o, Toast!Tick(o)
  PROVE  /\ o \in shutterTimers
         /\ UNCHANGED <<openings, open, currentShowingView, toastWindow, onWindow>>
         /\ \/ /\ addCount[o] = CountFrom
               /\ posted' = Append(posted, Counted(o, Toast!Seeker))
               /\ shutterTimers' = shutterTimers \ {o} /\ UNCHANGED addCount
            \/ /\ addCount[o] # CountFrom
               /\ posted' = Append(posted, Counted(o, addCount[o] + 1))
               /\ addCount' = [addCount EXCEPT ![o] = @ + 1] /\ UNCHANGED shutterTimers
BY Zenon DEF Toast!Tick, Toast!Animate, Toast!toasterVars, Counted

LEMMA ShowCounts ==
  Toast!ShowView => /\ posted # <<>> /\ posted' = Tail(posted)
                    /\ currentShowingView' = Head(posted)
                    /\ toastWindow' \in {toastWindow, "window", "nil"}
                    /\ \/ onWindow' = onWindow \cup {Head(posted)}
                       \/ UNCHANGED onWindow
                    /\ UNCHANGED <<openings, open, shutterTimers, addCount>>
<1> SUFFICES ASSUME Toast!ShowView
             PROVE  /\ posted # <<>> /\ posted' = Tail(posted)
                    /\ currentShowingView' = Head(posted)
                    /\ toastWindow' \in {toastWindow, "window", "nil"}
                    /\ \/ onWindow' = onWindow \cup {Head(posted)}
                       \/ UNCHANGED onWindow
                    /\ UNCHANGED <<openings, open, shutterTimers, addCount>>
  OBVIOUS
<1>1. toastWindow' \in {toastWindow, "window", "nil"}
  <2>1. toastWindow' = IF toastWindow # "unset" THEN toastWindow
                       ELSE IF keyWindow THEN "window" ELSE "nil"
    BY Zenon DEF Toast!ShowView
  <2> QED
    BY Zenon, <2>1
<1> QED
  BY Zenon, <1>1 DEF Toast!ShowView, Toast!timerVars

LEMMA OtherCounts ==
  ASSUME \/ \E view \in Toast!View : Toast!ViewLeaves(view)
         \/ Toast!KeyWindowChanges
         \/ UNCHANGED toastVars
  PROVE  /\ onWindow' \in SUBSET onWindow
         /\ UNCHANGED <<openings, open, shutterTimers, addCount, posted,
                        currentShowingView, toastWindow>>
<1>1. ASSUME NEW view, Toast!ViewLeaves(view)
      PROVE  /\ onWindow' \in SUBSET onWindow
             /\ UNCHANGED <<openings, open, shutterTimers, addCount, posted,
                            currentShowingView, toastWindow>>
  BY Zenon, <1>1 DEF Toast!ViewLeaves, Toast!timerVars
<1>2. CASE Toast!KeyWindowChanges \/ UNCHANGED toastVars
  BY Zenon, <1>2 DEF Toast!KeyWindowChanges, toastVars, Toast!timerVars, Toast!toasterVars
<1> QED
  BY <1>1, <1>2

LEMMA CountedType ==
  ASSUME NEW o \in 1 .. MaxOpenings, NEW p \in 0 .. CountFrom + 1
  PROVE  Counted(o, p) \in Toast!View
BY DEF Counted, Toast!View, Toast!Seeker

LEMMA PostedType ==
  ASSUME posted \in Seq(Toast!View), NEW v \in Toast!View
  PROVE  Append(posted, v) \in Seq(Toast!View)
BY AppendProperties

LEMMA CountInductive == CountTypes /\ [Next]_vars => CountTypes'
<1> SUFFICES ASSUME CountTypes, [Toast!Next]_toastVars PROVE CountTypes'
  BY ToastSteps
<1>0. /\ MaxOpenings \in Nat /\ CountFrom \in Nat
      /\ openings \in 0 .. MaxOpenings /\ posted \in Seq(Toast!View)
      /\ shutterTimers \in SUBSET (1 .. openings)
      /\ addCount \in [1 .. MaxOpenings -> 0 .. CountFrom]
      /\ currentShowingView \in Toast!View \cup {Toast!NoView}
  BY CountAssumption DEF CountTypes
<1>1. CASE Toast!Open
  <2>1. openings + 1 \in 1 .. MaxOpenings /\ 0 \in 0 .. CountFrom + 1
    BY <1>0, <1>1, OpenCounts
  <2>2. Counted(openings + 1, 0) \in Toast!View
    BY Zenon, <2>1, CountedType
  <2>3. posted' \in Seq(Toast!View)
    BY Zenon, <1>0, <1>1, <2>2, OpenCounts, PostedType
  <2>4. openings' \in 0 .. MaxOpenings /\ shutterTimers' \in SUBSET (1 .. openings')
    <3>1. openings' = openings + 1 /\ shutterTimers' = shutterTimers \cup {openings + 1}
      BY Zenon, <1>1, OpenCounts
    <3> QED
      BY <1>0, <2>1, <3>1
  <2> QED
    BY Zenon, <1>0, <1>1, <2>3, <2>4, OpenCounts DEF CountTypes
<1>2. CASE Toast!Close
  BY Zenon, <1>0, <1>2, CloseCounts DEF CountTypes
<1>3. ASSUME NEW o \in 1 .. MaxOpenings, Toast!Tick(o)
      PROVE  CountTypes'
  <2>1. addCount[o] \in 0 .. CountFrom
    BY <1>0
  <2>2. Counted(o, addCount[o] + 1) \in Toast!View /\ Counted(o, Toast!Seeker) \in Toast!View
    <3>1. addCount[o] + 1 \in 0 .. CountFrom + 1 /\ Toast!Seeker \in 0 .. CountFrom + 1
      BY <1>0, <2>1 DEF Toast!Seeker
    <3> QED
      BY <3>1, CountedType
  <2>3. posted' \in Seq(Toast!View)
    BY Zenon, <1>0, <1>3, <2>2, TickCounts, PostedType
  <2>4. addCount' \in [1 .. MaxOpenings -> 0 .. CountFrom]
    <3>1. addCount[o] # CountFrom => addCount[o] + 1 \in 0 .. CountFrom
      BY <1>0, <2>1
    <3> QED
      BY <1>0, <1>3, <3>1, TickCounts
  <2>5. shutterTimers' \in SUBSET (1 .. openings)
    BY Zenon, <1>0, <1>3, TickCounts
  <2> QED
    BY Zenon, <1>0, <1>3, <2>3, <2>4, <2>5, TickCounts DEF CountTypes
<1>4. CASE Toast!ShowView
  <2>1. Head(posted) \in Toast!View /\ Tail(posted) \in Seq(Toast!View)
    BY <1>0, <1>4, ShowCounts, HeadTailProperties
  <2> QED
    BY Zenon, <1>0, <1>4, <2>1, ShowCounts DEF CountTypes
<1>5. CASE \/ \E view \in Toast!View : Toast!ViewLeaves(view)
           \/ Toast!KeyWindowChanges
           \/ UNCHANGED toastVars
  BY Zenon, <1>0, <1>5, OtherCounts DEF CountTypes
<1> QED
  BY Zenon, <1>1, <1>2, <1>3, <1>4, <1>5 DEF Toast!Next

-----------------------------------------------------------------------------
(* The view that was shown or posted last; what comes after a view; and    *)
(* that all views, shown and posted, come one after the other, with the    *)
(* timer of the last opening ready to go on.                               *)
NewestView == IF posted = <<>> THEN currentShowingView ELSE posted[Len(posted)]

Follows(v, w) ==
  \/ w.opening = v.opening /\ w.place = v.place + 1
  \/ w.opening > v.opening /\ w.place = 0

ViewsInOrder ==
  /\ \A k \in 1 .. Len(posted) - 1 : Follows(posted[k], posted[k + 1])
  /\ posted # <<>> => Follows(currentShowingView, posted[1])

TimerGoesOn ==
  /\ shutterTimers \subseteq {openings}
  /\ ~open => shutterTimers = {}
  /\ shutterTimers # {} => NewestView = Counted(openings, addCount[openings])
  /\ \A o \in 1 .. MaxOpenings : o > openings => addCount[o] = 0
  /\ NewestView.opening <= openings

CountInOrder == ViewsInOrder /\ TimerGoesOn

LEMMA PostInOrder ==
  ASSUME posted \in Seq(Toast!View), ViewsInOrder, NEW v \in Toast!View,
         Follows(NewestView, v), posted' = Append(posted, v), UNCHANGED currentShowingView
  PROVE  ViewsInOrder' /\ NewestView' = v
<1>1. /\ Len(posted) \in Nat /\ Len(posted') = Len(posted) + 1 /\ posted' # <<>>
      /\ \A k \in 1 .. Len(posted) : posted'[k] = posted[k]
      /\ posted'[Len(posted) + 1] = v
  BY AppendProperties
<1>2. posted = <<>> <=> Len(posted) = 0
  BY EmptySeq
<1>3. NewestView' = v
  BY Zenon, <1>1 DEF NewestView
<1>4. ASSUME NEW k \in 1 .. Len(posted') - 1
      PROVE  Follows(posted'[k], posted'[k + 1])
  <2>1. k \in 1 .. Len(posted) /\ posted'[k] = posted[k]
    BY <1>1
  <2>2. CASE k = Len(posted)
    <3>1. posted # <<>>
      BY <1>1, <1>2, <2>1, <2>2
    <3> QED
      BY Zenon, <1>1, <2>1, <2>2, <3>1 DEF NewestView
  <2>3. CASE k # Len(posted)
    <3>1. k \in 1 .. Len(posted) - 1 /\ k + 1 \in 1 .. Len(posted)
      BY <1>1, <2>1, <2>3
    <3> QED
      BY Zenon, <1>1, <2>1, <3>1 DEF ViewsInOrder
  <2> QED
    BY <2>2, <2>3
<1>5. Follows(currentShowingView', posted'[1])
  <2>1. CASE posted = <<>>
    <3>1. posted'[1] = v
      BY <1>1, <1>2, <2>1
    <3> QED
      BY Zenon, <2>1, <3>1 DEF NewestView
  <2>2. CASE posted # <<>>
    <3>1. posted'[1] = posted[1]
      BY <1>1, <1>2, <2>2
    <3> QED
      BY Zenon, <2>2, <3>1 DEF ViewsInOrder
  <2> QED
    BY <2>1, <2>2
<1> QED
  BY Zenon, <1>3, <1>4, <1>5 DEF ViewsInOrder

LEMMA ShowInOrder ==
  ASSUME posted \in Seq(Toast!View), ViewsInOrder, posted # <<>>,
         posted' = Tail(posted), currentShowingView' = Head(posted)
  PROVE  ViewsInOrder' /\ NewestView' = NewestView
<1>1. /\ Len(posted) \in Nat \ {0} /\ posted' \in Seq(Toast!View)
      /\ Len(posted') = Len(posted) - 1
      /\ \A k \in 1 .. Len(posted) - 1 : posted'[k] = posted[k + 1]
  BY HeadTailProperties
<1>2. currentShowingView' = posted[1]
  OBVIOUS
<1>3. posted' = <<>> <=> Len(posted) = 1
  <2>1. posted' = <<>> <=> Len(posted') = 0
    BY <1>1, EmptySeq
  <2> QED
    BY <1>1, <2>1
<1>4. NewestView' = NewestView
  <2>1. CASE posted' = <<>>
    BY Zenon, <1>2, <1>3, <2>1 DEF NewestView
  <2>2. CASE posted' # <<>>
    <3>1. posted'[Len(posted')] = posted[Len(posted)]
      <4>1. Len(posted) - 1 \in 1 .. Len(posted) - 1 /\ Len(posted) - 1 + 1 = Len(posted)
        BY <1>1, <1>3, <2>2
      <4> QED
        BY Zenon, <1>1, <4>1
    <3> QED
      BY Zenon, <2>2, <3>1 DEF NewestView
  <2> QED
    BY <2>1, <2>2
<1>5. ASSUME NEW k \in 1 .. Len(posted') - 1
      PROVE  Follows(posted'[k], posted'[k + 1])
  <2>1. /\ k \in 1 .. Len(posted) - 1 /\ k + 1 \in 1 .. Len(posted) - 1
        /\ posted'[k] = posted[k + 1] /\ posted'[k + 1] = posted[k + 1 + 1]
    BY <1>1
  <2> QED
    BY Zenon, <2>1 DEF ViewsInOrder
<1>6. posted' # <<>> => Follows(currentShowingView', posted'[1])
  <2> SUFFICES ASSUME posted' # <<>> PROVE Follows(currentShowingView', posted'[1])
    OBVIOUS
  <2>1. 1 \in 1 .. Len(posted) - 1 /\ posted'[1] = posted[1 + 1]
    BY <1>1, <1>3
  <2> QED
    BY Zenon, <1>2, <2>1 DEF ViewsInOrder
<1> QED
  BY Zenon, <1>4, <1>5, <1>6 DEF ViewsInOrder

LEMMA CountInOrderInductive ==
  CountTypes /\ CountInOrder /\ [Next]_vars => CountInOrder'
<1> SUFFICES ASSUME CountTypes, CountInOrder, [Toast!Next]_toastVars
             PROVE  CountInOrder'
  BY ToastSteps
<1>0. /\ MaxOpenings \in Nat /\ CountFrom \in Nat
      /\ openings \in 0 .. MaxOpenings /\ posted \in Seq(Toast!View)
      /\ shutterTimers \in SUBSET (1 .. openings)
      /\ addCount \in [1 .. MaxOpenings -> 0 .. CountFrom]
      /\ currentShowingView \in Toast!View \cup {Toast!NoView}
  BY CountAssumption DEF CountTypes
<1>n. NewestView.opening \in Int
  <2>1. currentShowingView.opening \in Int
    BY <1>0 DEF Toast!View, Toast!NoView
  <2>2. posted # <<>> => posted[Len(posted)] \in Toast!View
    BY <1>0, EmptySeq
  <2>3. \A v \in Toast!View : v.opening \in Int
    BY DEF Toast!View
  <2> QED
    BY Zenon, <2>1, <2>2, <2>3 DEF NewestView
<1>1. CASE Toast!Open
  <2> DEFINE v == Counted(openings + 1, 0)
  <2>1. openings + 1 \in 1 .. MaxOpenings /\ 0 \in 0 .. CountFrom + 1
    BY <1>0, <1>1, OpenCounts
  <2>2. v \in Toast!View
    BY Zenon, <2>1, CountedType
  <2>3. Follows(NewestView, v)
    <3>1. v.opening = openings + 1 /\ v.place = 0
      BY DEF Counted
    <3>2. NewestView.opening <= openings
      BY DEF CountInOrder, TimerGoesOn
    <3> HIDE DEF v
    <3> QED
      BY <1>0, <1>n, <3>1, <3>2 DEF Follows
  <2>4. posted' = Append(posted, v) /\ UNCHANGED <<currentShowingView, addCount>>
    BY Zenon, <1>1, OpenCounts
  <2>5. ViewsInOrder' /\ NewestView' = v
    <3> HIDE DEF v
    <3> QED
      BY Zenon, <1>0, <2>2, <2>3, <2>4, PostInOrder DEF CountInOrder
  <2>6. openings' = openings + 1 /\ open' /\ shutterTimers' = {openings + 1}
    BY Zenon, <1>1, OpenCounts DEF CountInOrder, TimerGoesOn
  <2>7. \A o \in 1 .. MaxOpenings : o > openings => addCount[o] = 0
    BY DEF CountInOrder, TimerGoesOn
  <2>8. NewestView'.opening <= openings'
    BY <1>0, <2>5, <2>6 DEF Counted
  <2>9. /\ shutterTimers' # {} => NewestView' = Counted(openings', addCount'[openings'])
        /\ \A o \in 1 .. MaxOpenings : o > openings' => addCount'[o] = 0
    <3>1. addCount[openings + 1] = 0
      BY <1>0, <2>1, <2>7
    <3>2. \A o \in 1 .. MaxOpenings : o > openings + 1 => addCount[o] = 0
      BY <1>0, <2>7
    <3> QED
      BY Zenon, <2>4, <2>5, <2>6, <3>1, <3>2
  <2> QED
    BY Zenon, <2>5, <2>6, <2>8, <2>9 DEF CountInOrder, TimerGoesOn
<1>2. CASE Toast!Close
  <2>1. /\ ~open' /\ shutterTimers' = shutterTimers \ {openings}
        /\ UNCHANGED <<openings, addCount, posted, currentShowingView>>
    BY Zenon, <1>2, CloseCounts
  <2>2. shutterTimers' = {}
    BY Zenon, <2>1 DEF CountInOrder, TimerGoesOn
  <2> QED
    BY Zenon, <2>1, <2>2 DEF CountInOrder, TimerGoesOn, ViewsInOrder, NewestView
<1>3. ASSUME NEW o \in 1 .. MaxOpenings, Toast!Tick(o)
      PROVE  CountInOrder'
  <2>1. o \in shutterTimers /\ UNCHANGED <<openings, open, currentShowingView>>
    BY Zenon, <1>3, TickCounts
  <2>2. o = openings /\ shutterTimers = {o} /\ open
    BY Zenon, <2>1 DEF CountInOrder, TimerGoesOn
  <2>3. NewestView = Counted(o, addCount[o])
    BY Zenon, <2>2 DEF CountInOrder, TimerGoesOn
  <2>4. addCount[o] \in 0 .. CountFrom
    BY <1>0
  <2> DEFINE v == Counted(o, addCount[o] + 1)
  <2>5. v \in Toast!View
    <3>1. addCount[o] + 1 \in 0 .. CountFrom + 1
      BY <1>0, <2>4
    <3> QED
      BY <3>1, CountedType
  <2>6. Follows(NewestView, v)
    BY <2>3 DEF Follows, Counted
  <2>7. posted' = Append(posted, v)
    <3>1. addCount[o] = CountFrom => Counted(o, Toast!Seeker) = v
      BY DEF Toast!Seeker
    <3> QED
      BY Zenon, <1>3, <3>1, TickCounts
  <2>8. ViewsInOrder' /\ NewestView' = v
    <3> HIDE DEF v
    <3> QED
      BY Zenon, <1>0, <2>1, <2>5, <2>6, <2>7, PostInOrder DEF CountInOrder
  <2>9. /\ shutterTimers' \subseteq {openings'}
        /\ ~open' => shutterTimers' = {}
    BY Zenon, <1>3, <2>1, <2>2, TickCounts
  <2>10. shutterTimers' # {} => NewestView' = Counted(openings', addCount'[openings'])
    <3> SUFFICES ASSUME shutterTimers' # {}
                 PROVE  NewestView' = Counted(openings', addCount'[openings'])
      OBVIOUS
    <3>1. addCount' = [addCount EXCEPT ![o] = @ + 1]
      BY Zenon, <1>3, <2>2, TickCounts
    <3>2. addCount'[o] = addCount[o] + 1
      BY <1>0, <3>1
    <3> QED
      BY Zenon, <2>1, <2>2, <2>8, <3>2
  <2>11. \A p \in 1 .. MaxOpenings : p > openings' => addCount'[p] = 0
    <3>1. \A p \in 1 .. MaxOpenings : p # o => addCount'[p] = addCount[p]
      BY <1>0, <1>3, TickCounts
    <3>2. \A p \in 1 .. MaxOpenings : p > openings => addCount[p] = 0
      BY DEF CountInOrder, TimerGoesOn
    <3> QED
      BY <1>0, <2>1, <2>2, <3>1, <3>2
  <2>12. NewestView'.opening <= openings'
    BY <1>0, <2>1, <2>2, <2>8 DEF Counted
  <2> QED
    BY Zenon, <2>8, <2>9, <2>10, <2>11, <2>12 DEF CountInOrder, TimerGoesOn
<1>4. CASE Toast!ShowView
  <2>1. ViewsInOrder' /\ NewestView' = NewestView
    BY Zenon, <1>0, <1>4, ShowCounts, ShowInOrder DEF CountInOrder
  <2>2. UNCHANGED <<openings, open, shutterTimers, addCount>>
    BY Zenon, <1>4, ShowCounts
  <2> QED
    BY Zenon, <2>1, <2>2 DEF CountInOrder, TimerGoesOn
<1>5. CASE \/ \E view \in Toast!View : Toast!ViewLeaves(view)
           \/ Toast!KeyWindowChanges
           \/ UNCHANGED toastVars
  <2>1. UNCHANGED <<openings, open, shutterTimers, addCount, posted, currentShowingView>>
    BY Zenon, <1>5, OtherCounts
  <2> QED
    BY Zenon, <2>1 DEF CountInOrder, TimerGoesOn, ViewsInOrder, NewestView
<1> QED
  BY Zenon, <1>1, <1>2, <1>3, <1>4, <1>5 DEF Toast!Next

(* A step shows no view, or the one that comes after the view shown last. *)
LEMMA StepShowsNext ==
  CountTypes /\ CountInOrder /\ [Next]_vars
    => currentShowingView' = currentShowingView \/ Follows(currentShowingView, currentShowingView')
<1> SUFFICES ASSUME CountTypes, CountInOrder, [Toast!Next]_toastVars
             PROVE  \/ currentShowingView' = currentShowingView
                    \/ Follows(currentShowingView, currentShowingView')
  BY ToastSteps
<1>1. CASE Toast!ShowView
  <2>1. posted # <<>> /\ currentShowingView' = Head(posted)
    BY Zenon, <1>1, ShowCounts
  <2>2. Head(posted) = posted[1]
    OBVIOUS
  <2> QED
    BY Zenon, <2>1, <2>2 DEF CountInOrder, ViewsInOrder
<1>2. ASSUME NEW o, Toast!Tick(o) PROVE currentShowingView' = currentShowingView
  BY Zenon, <1>2, TickCounts
<1> QED
  BY Zenon, <1>1, <1>2, OpenCounts, CloseCounts, OtherCounts DEF Toast!Next

LEMMA CountAlways == Spec => [](CountTypes /\ CountInOrder)
<1>1. Toast!Init => CountTypes
  <2> SUFFICES ASSUME Toast!Init PROVE CountTypes
    OBVIOUS
  <2>1. posted \in Seq(Toast!View)
    BY DEF Toast!Init
  <2>2. addCount \in [1 .. MaxOpenings -> 0 .. CountFrom]
    BY CountAssumption DEF Toast!Init
  <2>3. openings \in 0 .. MaxOpenings
    BY CountAssumption DEF Toast!Init
  <2> QED
    BY Zenon, <2>1, <2>2, <2>3 DEF Toast!Init, CountTypes
<1>2. Toast!Init => CountInOrder
  <2> SUFFICES ASSUME Toast!Init PROVE CountInOrder
    OBVIOUS
  <2>1. posted = <<>> /\ Len(posted) = 0 /\ openings = 0 /\ shutterTimers = {}
    BY DEF Toast!Init
  <2>2. \A o \in 1 .. MaxOpenings : addCount[o] = 0
    BY DEF Toast!Init
  <2>3. currentShowingView.opening <= openings
    BY DEF Toast!Init, Toast!NoView
  <2>4. \A k \in 1 .. Len(posted) - 1 : FALSE
    BY <2>1
  <2> QED
    BY Zenon, <2>1, <2>2, <2>3, <2>4
       DEF CountInOrder, ViewsInOrder, TimerGoesOn, NewestView
<1>3. Init => Toast!Init
  BY Zenon DEF Init
<1> QED
  BY <1>1, <1>2, <1>3, CountInductive, CountInOrderInductive, PTL DEF Spec

(* The views of one opening come up one after the other, from the first     *)
(* number on, and none after a view of a later opening.                     *)
THEOREM CountsInOrder == Spec => NoNumberIsSkipped
<1>1. CountTypes /\ CountInOrder /\ [Next]_vars
        => [LET new == currentShowingView' IN
              new # currentShowingView
                => \/ /\ new.opening = currentShowingView.opening
                      /\ new.place = currentShowingView.place + 1
                   \/ /\ new.opening > currentShowingView.opening
                      /\ new.place = 0]_(Toast!vars)
  BY Zenon, StepShowsNext DEF Follows
<1> QED
  BY <1>1, CountAlways, PTL DEF Spec, NoNumberIsSkipped, Toast!NoNumberIsSkipped

-----------------------------------------------------------------------------
(* The toaster's window and the views on it. *)
ToasterTypes ==
  /\ open \in BOOLEAN
  /\ toastWindow \in {"unset", "nil", "window"}
  /\ onWindow \in SUBSET Toast!View
  /\ keyWindow \in BOOLEAN
  /\ crashed \in BOOLEAN

LEMMA ToastSplit == Toast!TypeOK <=> CountTypes /\ ToasterTypes
BY Zenon DEF Toast!TypeOK, CountTypes, ToasterTypes

LEMMA ToasterInductive == CountTypes /\ ToasterTypes /\ [Next]_vars => ToasterTypes'
<1> SUFFICES ASSUME CountTypes, ToasterTypes, [Toast!Next]_toastVars PROVE ToasterTypes'
  BY ToastSteps
<1>1. CASE Toast!Open
  BY Zenon, <1>1 DEF Toast!Open, Toast!toasterVars, ToasterTypes
<1>2. CASE Toast!Close
  <2>1. /\ open' = FALSE /\ onWindow' = onWindow \ {currentShowingView}
        /\ UNCHANGED <<toastWindow, keyWindow, crashed>>
    BY Zenon, <1>2 DEF Toast!Close
  <2>2. onWindow' \subseteq onWindow
    BY <2>1
  <2> QED
    BY Zenon, <2>1, <2>2 DEF ToasterTypes
<1>3. ASSUME NEW o, Toast!Tick(o) PROVE ToasterTypes'
  BY Zenon, <1>3 DEF Toast!Tick, Toast!toasterVars, ToasterTypes
<1>4. CASE Toast!ShowView
  <2>1. /\ posted # <<>> /\ toastWindow' \in {toastWindow, "window", "nil"}
        /\ \/ onWindow' = onWindow \cup {Head(posted)}
           \/ UNCHANGED onWindow
        /\ UNCHANGED open
    BY Zenon, <1>4, ShowCounts
  <2>2. Head(posted) \in Toast!View
    BY <2>1 DEF CountTypes
  <2>3. onWindow' \in SUBSET Toast!View
    BY <2>1, <2>2 DEF ToasterTypes
  <2>4. toastWindow' \in {"unset", "nil", "window"}
    BY <2>1 DEF ToasterTypes
  <2>5. crashed' \in BOOLEAN /\ UNCHANGED keyWindow
    BY Zenon, <1>4 DEF Toast!ShowView, ToasterTypes
  <2> QED
    BY Zenon, <2>1, <2>3, <2>4, <2>5 DEF ToasterTypes
<1>5. ASSUME NEW view, Toast!ViewLeaves(view) PROVE ToasterTypes'
  <2>1. onWindow' \subseteq onWindow /\ UNCHANGED <<open, toastWindow, keyWindow, crashed>>
    BY Zenon, <1>5 DEF Toast!ViewLeaves
  <2> QED
    BY Zenon, <2>1 DEF ToasterTypes
<1>6. CASE Toast!KeyWindowChanges
  BY Zenon, <1>6 DEF Toast!KeyWindowChanges, Toast!toasterVars, ToasterTypes
<1>7. CASE UNCHANGED toastVars
  BY Zenon, <1>7 DEF toastVars, ToasterTypes
<1> QED
  BY Zenon, <1>1, <1>2, <1>3, <1>4, <1>5, <1>6, <1>7 DEF Toast!Next

LEMMA ToastTypesAlways == Spec => []Toast!TypeOK
<1>1. Toast!Init => ToasterTypes
  BY Zenon DEF Toast!Init, ToasterTypes
<1>2. Init => ToasterTypes
  BY Zenon, <1>1 DEF Init
<1> QED
  BY <1>2, CountAlways, ToasterInductive, ToastSplit, PTL DEF Spec
-----------------------------------------------------------------------------
(* A countdown whose screen is open still has its timer, or its seeker is   *)
(* the view posted last or shown last.                                      *)
SeekerIsNewest == NewestView = Counted(openings, Toast!Seeker)

TimerOrSeeker == open => openings \in shutterTimers \/ SeekerIsNewest

LEMMA TimerOrSeekerInductive ==
  CountTypes /\ CountInOrder /\ TimerOrSeeker /\ [Next]_vars => TimerOrSeeker'
<1> SUFFICES ASSUME CountTypes, CountInOrder, TimerOrSeeker, [Toast!Next]_toastVars, open'
             PROVE  openings' \in shutterTimers' \/ SeekerIsNewest'
  BY ToastSteps DEF TimerOrSeeker
<1>1. CASE Toast!Open
  BY Zenon, <1>1, OpenCounts
<1>2. CASE Toast!Close
  BY Zenon, <1>2, CloseCounts
<1>3. ASSUME NEW o \in 1 .. MaxOpenings, Toast!Tick(o)
      PROVE  openings' \in shutterTimers' \/ SeekerIsNewest'
  <2>1. o \in shutterTimers /\ UNCHANGED <<openings, currentShowingView>>
    BY Zenon, <1>3, TickCounts
  <2>2. o = openings /\ NewestView = Counted(o, addCount[o])
    BY Zenon, <2>1 DEF CountInOrder, TimerGoesOn
  <2>3. CASE addCount[o] # CountFrom
    BY Zenon, <1>3, <2>1, <2>2, <2>3, TickCounts
  <2>4. CASE addCount[o] = CountFrom
    <3> DEFINE v == Counted(o, Toast!Seeker)
    <3>1. posted' = Append(posted, v)
      BY Zenon, <1>3, <2>4, TickCounts
    <3>2. v \in Toast!View
      <4>1. Toast!Seeker \in 0 .. CountFrom + 1
        BY CountAssumption DEF Toast!Seeker
      <4> QED
        BY <4>1, CountedType
    <3>3. Follows(NewestView, v)
      BY <2>2, <2>4 DEF Follows, Counted, Toast!Seeker
    <3>4. NewestView' = v
      <4> HIDE DEF v
      <4> QED
        BY Zenon, <2>1, <3>1, <3>2, <3>3, PostInOrder DEF CountTypes, CountInOrder
    <3> QED
      BY Zenon, <2>1, <2>2, <3>4 DEF SeekerIsNewest, Toast!Seeker
  <2> QED
    BY <2>3, <2>4
<1>4. CASE Toast!ShowView
  <2>1. NewestView' = NewestView
    BY Zenon, <1>4, ShowCounts, ShowInOrder DEF CountTypes, CountInOrder
  <2>2. UNCHANGED <<openings, open, shutterTimers>>
    BY Zenon, <1>4, ShowCounts
  <2> QED
    BY Zenon, <2>1, <2>2 DEF TimerOrSeeker, SeekerIsNewest, Toast!Seeker
<1>5. CASE \/ \E view \in Toast!View : Toast!ViewLeaves(view)
           \/ Toast!KeyWindowChanges
           \/ UNCHANGED toastVars
  <2>1. UNCHANGED <<openings, open, shutterTimers, posted, currentShowingView>>
    BY Zenon, <1>5, OtherCounts
  <2> QED
    BY Zenon, <2>1 DEF TimerOrSeeker, SeekerIsNewest, NewestView, Toast!Seeker
<1> QED
  BY Zenon, <1>1, <1>2, <1>3, <1>4, <1>5 DEF Toast!Next

(* While its screen is open a countdown is never stuck: its timer is valid, *)
(* or the timer that ended it (shutterCountComplete) has left the seeker on *)
(* its way or shown.                                                        *)
THEOREM CountGoesOn ==
  Spec => [](open => \/ openings \in shutterTimers
                     \/ currentShowingView = Counted(openings, Toast!Seeker)
                     \/ \E k \in 1 .. Len(posted) : posted[k] = Counted(openings, Toast!Seeker))
<1> DEFINE NeverStuck ==
      open => \/ openings \in shutterTimers
              \/ currentShowingView = Counted(openings, Toast!Seeker)
              \/ \E k \in 1 .. Len(posted) : posted[k] = Counted(openings, Toast!Seeker)
<1>1. Init => TimerOrSeeker
  BY Zenon DEF Init, Toast!Init, TimerOrSeeker
<1>2. CountTypes /\ TimerOrSeeker => NeverStuck
  <2> SUFFICES ASSUME CountTypes, posted # <<>>, NewestView = Counted(openings, Toast!Seeker)
               PROVE  \E k \in 1 .. Len(posted) : posted[k] = Counted(openings, Toast!Seeker)
    BY Zenon DEF TimerOrSeeker, SeekerIsNewest, NewestView
  <2>1. Len(posted) \in 1 .. Len(posted)
    BY EmptySeq DEF CountTypes
  <2> QED
    BY Zenon, <2>1 DEF NewestView
<1> QED
  BY <1>1, <1>2, CountAlways, TimerOrSeekerInductive, PTL DEF Spec
=============================================================================
