------------------------- MODULE RotateScreenProofs -------------------------
(***************************************************************************)
(* Theorems about the screen that turns with the device, for any number of *)
(* items in its picker and of values on their way.                         *)
(***************************************************************************)
EXTENDS Screens, TLAPS, SequenceTheorems

Newest(s) == s[Len(s)]

LEMMA NewestOfAppend ==
  ASSUME NEW S, NEW s \in Seq(S), NEW a \in S
  PROVE  /\ Append(s, a) \in Seq(S) /\ Append(s, a) # <<>>
         /\ Len(Append(s, a)) = Len(s) + 1
         /\ Newest(Append(s, a)) = a
BY AppendProperties DEF Newest

LEMMA NewestOfTail ==
  ASSUME NEW S, NEW s \in Seq(S), s # <<>>
  PROVE  /\ Tail(s) \in Seq(S) /\ Head(s) \in S
         /\ Tail(s) = <<>> => Newest(s) = Head(s) /\ Len(s) = 1
         /\ Tail(s) # <<>> => Newest(Tail(s)) = Newest(s)
<1>1. /\ Tail(s) \in Seq(S) /\ Head(s) \in S /\ Len(s) \in Nat \ {0}
      /\ Len(Tail(s)) = Len(s) - 1
      /\ \A k \in 1 .. Len(s) - 1 : Tail(s)[k] = s[k + 1]
  BY HeadTailProperties
<1>2. CASE Tail(s) = <<>>
  <2> DEFINE t == Tail(s)
  <2>0. t = <<>> => Len(t) = 0
    <3> HIDE DEF t
    <3> QED
      OBVIOUS
  <2>1. Len(s) = 1
    <3>1. Len(Tail(s)) = 0
      BY Zenon, <1>2, <2>0
    <3>2. Len(s) - 1 = 0 /\ Len(s) \in Nat \ {0}
      BY Zenon, <1>1, <3>1
    <3> QED
      BY <3>2
  <2>2. Head(s) = s[1]
    OBVIOUS
  <2> QED
    BY <1>1, <1>2, <2>1, <2>2 DEF Newest
<1>3. CASE Tail(s) # <<>>
  <2>1. Len(s) - 1 \in 1 .. Len(s) - 1 /\ Len(s) - 1 + 1 = Len(s)
    BY <1>1, <1>3, EmptySeq
  <2> QED
    BY <1>1, <1>3, <2>1 DEF Newest
<1> QED
  BY <1>2, <1>3

(* A step of a session is one of this screen, or leaves it alone. *)
LEMMA RotateSteps == [Next]_vars => [Rotate!Next]_rotateVars
BY Zenon DEF Next, OnPlayer, OnRotate, OnToast, OnEvent, vars

TwoWays == {"portrait", "landscapeRight"}
Scrolls == [orientation : TwoWays, item : 0 .. LastItem]

StreamTypes ==
  /\ relay \in TwoWays /\ orientationLock \in TwoWays /\ layout \in TwoWays
  /\ onItsWay \in Seq(TwoWays)
  /\ latest \in TwoWays \cup {"none"}
  /\ currentOrientation \in TwoWays

PickerTypes ==
  /\ currentSelectItem \in 0 .. LastItem
  /\ selectedButton \in 0 .. LastItem
  /\ scrolls \in Seq(Scrolls)
  /\ offset \in Scrolls

RotateFlags ==
  /\ subscribed \in BOOLEAN /\ window \in BOOLEAN
  /\ firstSkipped \in BOOLEAN /\ turned \in BOOLEAN

LEMMA RotateSplit == Rotate!TypeOK <=> StreamTypes /\ PickerTypes /\ RotateFlags
BY Zenon DEF Rotate!TypeOK, Rotate!Orientations, Rotate!Items, Rotate!NoOrientation,
   StreamTypes, PickerTypes, RotateFlags, TwoWays, Scrolls

(* What the steps do, without the flags that decide it. *)
RotatesTo(orientation) ==
  /\ layout' = orientation
  /\ orientationLock' = orientation
  /\ currentOrientation' = orientation

SelectsItem(item) ==
  /\ currentSelectItem' = item
  /\ selectedButton' = Rotate!IndexForOrientation(currentOrientation', item)
  /\ scrolls' = Append(scrolls, Rotate!Scroll(currentOrientation', item))
  /\ UNCHANGED offset

SameLayout == UNCHANGED <<layout, orientationLock, currentOrientation>>
SamePicker ==
  UNCHANGED <<currentOrientation, currentSelectItem, selectedButton, scrolls, offset>>

LEMMA OpenData ==
  Rotate!Open => /\ ~subscribed /\ subscribed' /\ onItsWay' = <<relay>>
                 /\ currentOrientation' = "portrait"
                 /\ UNCHANGED <<relay, orientationLock, window, latest, firstSkipped, layout, turned>>
                 /\ SelectsItem(currentSelectItem)
BY Zenon DEF Rotate!Open, Rotate!ReloadData, Rotate!SelectedItem, SelectsItem

LEMMA CloseData ==
  Rotate!Close => /\ ~subscribed' /\ onItsWay' = <<>> /\ ~window' /\ latest' = "none"
                  /\ ~firstSkipped' /\ layout' = "portrait" /\ currentOrientation' = "portrait"
                  /\ currentSelectItem' = 0 /\ selectedButton' = 0 /\ scrolls' = <<>>
                  /\ offset' = Rotate!Scroll("portrait", 0) /\ ~turned'
                  /\ UNCHANGED <<relay, orientationLock>>
BY Zenon DEF Rotate!Close, Rotate!NoOrientation

LEMMA TurnData ==
  Rotate!DeviceTurns
    => /\ relay' \in TwoWays
       /\ \/ subscribed /\ turned' /\ onItsWay' = Append(onItsWay, relay')
          \/ ~subscribed /\ ~turned' /\ UNCHANGED onItsWay
       /\ SameLayout /\ SamePicker /\ UNCHANGED <<subscribed, window, latest, firstSkipped>>
<1> SUFFICES ASSUME Rotate!DeviceTurns
             PROVE  /\ relay' \in TwoWays
                    /\ \/ subscribed /\ turned' /\ onItsWay' = Append(onItsWay, relay')
                       \/ ~subscribed /\ ~turned' /\ UNCHANGED onItsWay
                    /\ SameLayout /\ SamePicker
                    /\ UNCHANGED <<subscribed, window, latest, firstSkipped>>
  OBVIOUS
<1>1. PICK o \in TwoWays : /\ relay' = o
                           /\ onItsWay' = IF subscribed THEN Append(onItsWay, o) ELSE onItsWay
  BY DEF Rotate!DeviceTurns, Rotate!Orientations, TwoWays
<1>2. turned' = subscribed
  BY Zenon DEF Rotate!DeviceTurns
<1>3. SameLayout /\ SamePicker /\ UNCHANGED <<subscribed, window, latest, firstSkipped>>
  BY Zenon DEF Rotate!DeviceTurns, Rotate!pickerVars, SameLayout, SamePicker
<1> QED
  BY Zenon, <1>1, <1>2, <1>3

(* What comes out of the throttle. *)
LEMMA EmitData ==
  ASSUME NEW o, Rotate!Emit(o), UNCHANGED offset
  PROVE  /\ firstSkipped'
         /\ \/ firstSkipped /\ RotatesTo(o) /\ SelectsItem(currentSelectItem)
            \/ ~firstSkipped /\ SameLayout /\ SamePicker
BY Zenon DEF Rotate!Emit, Rotate!RotateLayout, Rotate!ReloadData, Rotate!SelectedItem,
   Rotate!pickerVars, RotatesTo, SelectsItem, SameLayout, SamePicker

LEMMA ReceiveData ==
  Rotate!MainReceives
    => /\ onItsWay # <<>> /\ onItsWay' = Tail(onItsWay)
       /\ UNCHANGED <<relay, subscribed, turned, offset>>
       /\ \/ ~window /\ window' /\ latest' = "none" /\ Rotate!Emit(Head(onItsWay))
          \/ window /\ latest' = Head(onItsWay) /\ UNCHANGED <<window, firstSkipped>>
             /\ SameLayout /\ SamePicker
BY Zenon DEF Rotate!MainReceives, Rotate!NoOrientation, Rotate!pickerVars, SameLayout, SamePicker

LEMMA SecondData ==
  Rotate!SecondPasses
    => /\ window /\ UNCHANGED <<relay, subscribed, turned, onItsWay, offset>>
       /\ \/ latest # "none" /\ latest' = "none" /\ Rotate!Emit(latest) /\ UNCHANGED window
          \/ latest = "none" /\ ~window' /\ UNCHANGED <<latest, firstSkipped>>
             /\ SameLayout /\ SamePicker
BY Zenon DEF Rotate!SecondPasses, Rotate!NoOrientation, Rotate!pickerVars, SameLayout, SamePicker

PickerStep ==
  /\ UNCHANGED <<relay, orientationLock, subscribed, onItsWay, window, latest, firstSkipped,
                 layout, currentOrientation, turned>>
  /\ \/ \E item : SelectsItem(item)
                  /\ item \in {currentSelectItem}
                       \cup {Rotate!IndexForOrientation(currentOrientation, b) : b \in 0 .. LastItem}
     \/ /\ scrolls # <<>> /\ offset' = Head(scrolls) /\ scrolls' = Tail(scrolls)
        /\ UNCHANGED <<currentSelectItem, selectedButton>>

LEMMA PickerData ==
  ASSUME \/ \E b \in Rotate!Items : Rotate!TapButton(b)
         \/ Rotate!LayoutSubviews
         \/ Rotate!ScrollToIndex
  PROVE  PickerStep
<1>1. ASSUME NEW b \in Rotate!Items, Rotate!TapButton(b)
      PROVE  PickerStep
  <2> DEFINE item == Rotate!IndexForOrientation(currentOrientation, b)
  <2>1. SelectsItem(item)
    BY Zenon, <1>1 DEF Rotate!TapButton, Rotate!SelectedItem, SelectsItem
  <2>2. UNCHANGED <<relay, orientationLock, subscribed, onItsWay, window, latest,
                    firstSkipped, layout, currentOrientation, turned>>
    BY Zenon, <1>1 DEF Rotate!TapButton, Rotate!streamVars
  <2> QED
    BY Zenon, <2>1, <2>2 DEF PickerStep, Rotate!Items
<1>2. CASE Rotate!LayoutSubviews
  <2>1. SelectsItem(currentSelectItem)
    BY Zenon, <1>2 DEF Rotate!LayoutSubviews, Rotate!SelectedItem, SelectsItem
  <2>2. UNCHANGED <<relay, orientationLock, subscribed, onItsWay, window, latest,
                    firstSkipped, layout, currentOrientation, turned>>
    BY Zenon, <1>2 DEF Rotate!LayoutSubviews, Rotate!streamVars
  <2> QED
    BY Zenon, <2>1, <2>2 DEF PickerStep
<1>3. CASE Rotate!ScrollToIndex
  BY Zenon, <1>3 DEF Rotate!ScrollToIndex, Rotate!streamVars, PickerStep
<1> QED
  BY <1>1, <1>2, <1>3

-----------------------------------------------------------------------------
LEMMA IndexType ==
  ASSUME NEW o, NEW i \in 0 .. LastItem
  PROVE  /\ Rotate!IndexForOrientation(o, i) \in 0 .. LastItem
         /\ Rotate!IndexForOrientation(o, Rotate!IndexForOrientation(o, i)) = i
BY ItemsAssumption DEF Rotate!IndexForOrientation

LEMMA SelectTypes ==
  ASSUME PickerTypes, currentOrientation' \in TwoWays, NEW item \in 0 .. LastItem,
         SelectsItem(item)
  PROVE  PickerTypes'
<1>1. Rotate!IndexForOrientation(currentOrientation', item) \in 0 .. LastItem
  BY IndexType
<1>2. Rotate!Scroll(currentOrientation', item) \in Scrolls
  BY DEF Rotate!Scroll, Scrolls
<1>3. scrolls' \in Seq(Scrolls)
  BY <1>2, NewestOfAppend DEF PickerTypes, SelectsItem
<1> QED
  BY Zenon, <1>1, <1>3 DEF PickerTypes, SelectsItem

LEMMA RotateDataInductive ==
  StreamTypes /\ PickerTypes /\ [Next]_vars => StreamTypes' /\ PickerTypes'
<1> SUFFICES ASSUME StreamTypes, PickerTypes, [Rotate!Next]_rotateVars
             PROVE  StreamTypes' /\ PickerTypes'
  BY RotateSteps
<1>0. currentSelectItem \in 0 .. LastItem /\ LastItem \in Nat /\ "portrait" \in TwoWays
  BY ItemsAssumption DEF PickerTypes, TwoWays
<1>1. ASSUME SamePicker PROVE PickerTypes'
  BY Zenon, <1>1 DEF SamePicker, PickerTypes
<1>2. CASE Rotate!Open
  <2>1. onItsWay' \in Seq(TwoWays)
    <3>1. \A a \in TwoWays : <<a>> \in Seq(TwoWays)
      OBVIOUS
    <3> QED
      BY Zenon, <1>2, <3>1, OpenData DEF StreamTypes
  <2>2. StreamTypes'
    BY Zenon, <1>0, <1>2, <2>1, OpenData DEF StreamTypes
  <2> QED
    BY Zenon, <1>0, <1>2, <2>2, OpenData, SelectTypes DEF StreamTypes
<1>3. CASE Rotate!Close
  <2>1. Rotate!Scroll("portrait", 0) \in Scrolls /\ 0 \in 0 .. LastItem
    BY <1>0 DEF Rotate!Scroll, Scrolls
  <2>2. onItsWay' \in Seq(TwoWays) /\ scrolls' \in Seq(Scrolls)
    BY <1>3, CloseData
  <2> QED
    BY Zenon, <1>0, <1>3, <2>1, <2>2, CloseData DEF StreamTypes, PickerTypes
<1>4. CASE Rotate!DeviceTurns
  <2>1. onItsWay' \in Seq(TwoWays)
    BY <1>4, TurnData, NewestOfAppend DEF StreamTypes
  <2> QED
    BY Zenon, <1>1, <1>4, <2>1, TurnData DEF StreamTypes, SameLayout
<1>5. ASSUME NEW o \in TwoWays, Rotate!Emit(o), UNCHANGED offset
      PROVE  /\ layout' \in TwoWays /\ orientationLock' \in TwoWays
             /\ currentOrientation' \in TwoWays /\ PickerTypes'
  <2>1. CASE RotatesTo(o) /\ SelectsItem(currentSelectItem)
    <3>1. currentOrientation' \in TwoWays
      BY Zenon, <1>5, <2>1 DEF RotatesTo
    <3>2. PickerTypes'
      BY Zenon, <1>0, <2>1, <3>1, SelectTypes
    <3> QED
      BY Zenon, <1>5, <2>1, <3>2 DEF RotatesTo
  <2>2. CASE SameLayout /\ SamePicker
    BY Zenon, <1>1, <2>2 DEF SameLayout, StreamTypes
  <2> QED
    BY Zenon, <1>5, <2>1, <2>2, EmitData
<1>6. CASE Rotate!MainReceives
  <2>1. Head(onItsWay) \in TwoWays /\ Tail(onItsWay) \in Seq(TwoWays)
    BY <1>6, ReceiveData, NewestOfTail DEF StreamTypes
  <2> QED
    BY Zenon, <1>1, <1>5, <1>6, <2>1, ReceiveData DEF StreamTypes, SameLayout
<1>7. CASE Rotate!SecondPasses
  BY Zenon, <1>1, <1>5, <1>7, SecondData DEF StreamTypes, SameLayout
<1>8. CASE PickerStep
  <2>1. StreamTypes'
    BY Zenon, <1>8 DEF PickerStep, StreamTypes
  <2>2. ASSUME NEW item, SelectsItem(item),
               item \in {currentSelectItem}
                 \cup {Rotate!IndexForOrientation(currentOrientation, b) : b \in 0 .. LastItem}
        PROVE  PickerTypes'
    <3>1. item \in 0 .. LastItem
      BY <1>0, <2>2, IndexType
    <3> QED
      BY Zenon, <2>1, <2>2, <3>1, SelectTypes DEF StreamTypes
  <2>3. CASE /\ scrolls # <<>> /\ offset' = Head(scrolls) /\ scrolls' = Tail(scrolls)
             /\ UNCHANGED <<currentSelectItem, selectedButton>>
    <3>1. Tail(scrolls) \in Seq(Scrolls) /\ Head(scrolls) \in Scrolls
      BY <2>3, NewestOfTail DEF PickerTypes
    <3> QED
      BY Zenon, <2>1, <2>3, <3>1 DEF PickerTypes
  <2> QED
    BY Zenon, <1>8, <2>1, <2>2, <2>3 DEF PickerStep
<1>9. CASE UNCHANGED rotateVars
  BY Zenon, <1>9 DEF rotateVars, StreamTypes, PickerTypes
<1> QED
  BY Zenon, <1>2, <1>3, <1>4, <1>6, <1>7, <1>8, <1>9, PickerData DEF Rotate!Next

LEMMA RotateFlagsInductive == RotateFlags /\ [Next]_vars => RotateFlags'
<1> SUFFICES ASSUME RotateFlags, [Rotate!Next]_rotateVars PROVE RotateFlags'
  BY RotateSteps
<1>1. CASE Rotate!Open
  BY Zenon, <1>1 DEF RotateFlags, Rotate!Open
<1>2. CASE Rotate!Close
  BY Zenon, <1>2 DEF RotateFlags, Rotate!Close
<1>3. CASE Rotate!DeviceTurns
  BY Zenon, <1>3 DEF RotateFlags, Rotate!DeviceTurns
<1>4. CASE Rotate!MainReceives
  BY Zenon, <1>4 DEF RotateFlags, Rotate!MainReceives, Rotate!Emit
<1>5. CASE Rotate!SecondPasses
  BY Zenon, <1>5 DEF RotateFlags, Rotate!SecondPasses, Rotate!Emit
<1>6. CASE PickerStep
  BY Zenon, <1>6 DEF RotateFlags, PickerStep
<1>7. CASE UNCHANGED rotateVars
  BY Zenon, <1>7 DEF rotateVars, RotateFlags
<1> QED
  BY Zenon, <1>1, <1>2, <1>3, <1>4, <1>5, <1>6, <1>7, PickerData DEF Rotate!Next

LEMMA RotateTypesAlways == Spec => [](StreamTypes /\ PickerTypes /\ RotateFlags)
<1>1. Rotate!Init => StreamTypes
  BY DEF Rotate!Init, Rotate!NoOrientation, StreamTypes, TwoWays
<1>2. Rotate!Init => PickerTypes
  BY ItemsAssumption DEF Rotate!Init, Rotate!Scroll, PickerTypes, Scrolls, TwoWays
<1>3. Rotate!Init => RotateFlags
  BY Zenon DEF Rotate!Init, RotateFlags
<1>4. Init => Rotate!Init
  BY Zenon DEF Init
<1> QED
  BY <1>1, <1>2, <1>3, <1>4, RotateDataInductive, RotateFlagsInductive, PTL DEF Spec

-----------------------------------------------------------------------------
(* What the device was turned to last is the newest value on its way, or    *)
(* the one the throttle keeps, or what the screen has; and the value that   *)
(* skip(1) drops is not the last one if the device was turned.              *)
Settled == layout = relay /\ currentOrientation = relay /\ orientationLock = relay

StreamInOrder ==
  /\ ~subscribed => ~window /\ latest = "none" /\ ~firstSkipped /\ onItsWay = <<>> /\ ~turned
  /\ ~firstSkipped => ~window /\ latest = "none"
  /\ subscribed /\ ~firstSkipped => onItsWay # <<>>
  /\ turned => /\ onItsWay # <<>> => Newest(onItsWay) = relay
               /\ ~firstSkipped => Len(onItsWay) # 1
               /\ onItsWay = <<>> => \/ latest = relay
                                     \/ latest = "none" /\ Settled

LEMMA StreamInductive ==
  StreamTypes /\ StreamInOrder /\ [Next]_vars => StreamInOrder'
<1> SUFFICES ASSUME StreamTypes, StreamInOrder, [Rotate!Next]_rotateVars
             PROVE  StreamInOrder'
  BY RotateSteps
<1>0. ASSUME SameLayout, UNCHANGED relay PROVE Settled' <=> Settled
  BY Zenon, <1>0 DEF SameLayout, Settled
<1>1. CASE Rotate!Open
  <2>1. onItsWay' # <<>>
    BY <1>1, OpenData
  <2>2. /\ ~subscribed /\ subscribed'
        /\ UNCHANGED <<window, latest, firstSkipped, turned>>
    BY Zenon, <1>1, OpenData
  <2>3. subscribed' /\ ~turned' /\ ~window' /\ latest' = "none"
    BY Zenon, <2>2 DEF StreamInOrder
  <2> QED
    BY Zenon, <2>1, <2>3 DEF StreamInOrder
<1>2. CASE Rotate!Close
  BY Zenon, <1>2, CloseData DEF StreamInOrder
<1>3. CASE Rotate!DeviceTurns
  <2>0. UNCHANGED <<subscribed, window, latest, firstSkipped>>
    BY Zenon, <1>3, TurnData
  <2>1. CASE subscribed /\ turned' /\ onItsWay' = Append(onItsWay, relay')
    <3>1. onItsWay' # <<>> /\ Newest(onItsWay') = relay' /\ Len(onItsWay') = Len(onItsWay) + 1
      BY <1>3, <2>1, TurnData, NewestOfAppend DEF StreamTypes
    <3>2. onItsWay # <<>> => Len(onItsWay') # 1
      BY <3>1, EmptySeq DEF StreamTypes
    <3>3. /\ subscribed'
          /\ ~firstSkipped' => ~window' /\ latest' = "none"
          /\ ~firstSkipped' => Len(onItsWay') # 1
      BY Zenon, <2>0, <2>1, <3>2 DEF StreamInOrder
    <3> QED
      BY Zenon, <3>1, <3>3 DEF StreamInOrder
  <2>2. CASE ~subscribed /\ ~turned' /\ UNCHANGED onItsWay
    <3>1. /\ ~subscribed' /\ ~window' /\ latest' = "none" /\ ~firstSkipped' /\ onItsWay' = <<>>
      BY Zenon, <2>0, <2>2 DEF StreamInOrder
    <3> QED
      BY Zenon, <2>2, <3>1 DEF StreamInOrder
  <2> QED
    BY Zenon, <1>3, <2>1, <2>2, TurnData
<1>4. ASSUME NEW o, Rotate!Emit(o), UNCHANGED <<offset, relay>>, firstSkipped, o = relay
      PROVE  Settled'
  BY Zenon, <1>4, EmitData DEF RotatesTo, Settled
<1>5. CASE Rotate!MainReceives
  <2>1. /\ onItsWay # <<>> /\ onItsWay' = Tail(onItsWay)
        /\ UNCHANGED <<relay, subscribed, turned, offset>>
    BY Zenon, <1>5, ReceiveData
  <2>2. /\ onItsWay' = <<>> => Newest(onItsWay) = Head(onItsWay) /\ Len(onItsWay) = 1
        /\ onItsWay' # <<>> => Newest(onItsWay') = Newest(onItsWay)
        /\ Head(onItsWay) \in TwoWays
    BY <2>1, NewestOfTail DEF StreamTypes
  <2>3. subscribed
    BY Zenon, <2>1 DEF StreamInOrder
  <2>4. CASE ~window /\ window' /\ latest' = "none" /\ Rotate!Emit(Head(onItsWay))
    <3>1. firstSkipped'
      BY Zenon, <2>1, <2>4, EmitData
    <3>2. turned /\ onItsWay' = <<>> => Settled'
      BY Zenon, <1>4, <2>1, <2>2, <2>4 DEF StreamInOrder
    <3> QED
      BY Zenon, <2>1, <2>2, <2>3, <2>4, <3>1, <3>2 DEF StreamInOrder
  <2>5. CASE window /\ latest' = Head(onItsWay) /\ UNCHANGED <<window, firstSkipped>>
    <3>1. firstSkipped'
      BY Zenon, <2>5 DEF StreamInOrder
    <3>2. turned /\ onItsWay' = <<>> => latest' = relay
      BY Zenon, <2>1, <2>2, <2>5 DEF StreamInOrder
    <3> QED
      BY Zenon, <2>1, <2>2, <2>3, <2>5, <3>1, <3>2 DEF StreamInOrder
  <2> QED
    BY Zenon, <1>5, <2>4, <2>5, ReceiveData
<1>6. CASE Rotate!SecondPasses
  <2>1. window /\ UNCHANGED <<relay, subscribed, turned, onItsWay, offset>>
    BY Zenon, <1>6, SecondData
  <2>2. subscribed /\ firstSkipped
    BY Zenon, <2>1 DEF StreamInOrder
  <2>3. CASE latest # "none" /\ latest' = "none" /\ Rotate!Emit(latest) /\ UNCHANGED window
    <3>1. firstSkipped'
      BY Zenon, <2>1, <2>3, EmitData
    <3>2. turned /\ onItsWay = <<>> => Settled'
      BY Zenon, <1>4, <2>1, <2>2, <2>3 DEF StreamInOrder
    <3> QED
      BY Zenon, <2>1, <2>2, <2>3, <3>1, <3>2 DEF StreamInOrder
  <2>4. CASE latest = "none" /\ ~window' /\ UNCHANGED <<latest, firstSkipped>>
             /\ SameLayout /\ SamePicker
    BY Zenon, <1>0, <2>1, <2>2, <2>4 DEF StreamInOrder
  <2> QED
    BY Zenon, <1>6, <2>3, <2>4, SecondData
<1>7. CASE PickerStep
  <2>1. SameLayout
    BY Zenon, <1>7 DEF PickerStep, SameLayout
  <2> QED
    BY Zenon, <1>0, <1>7, <2>1 DEF StreamInOrder, PickerStep
<1>8. CASE UNCHANGED rotateVars
  <2>1. SameLayout
    BY Zenon, <1>8 DEF rotateVars, SameLayout
  <2> QED
    BY Zenon, <1>0, <1>8, <2>1 DEF StreamInOrder, rotateVars
<1> QED
  BY Zenon, <1>1, <1>2, <1>3, <1>5, <1>6, <1>7, <1>8, PickerData DEF Rotate!Next

(* When nothing is on its way, the screen, its picker and the lock have the *)
(* orientation the device was turned to.                                    *)
THEOREM SettlesOnDevice == Spec => []SettledOnDevice
<1>1. Init => StreamInOrder
  BY DEF Init, Rotate!Init, Rotate!NoOrientation, StreamInOrder
<1>2. StreamTypes /\ StreamInOrder => Rotate!SettledOnDevice
  BY DEF StreamTypes, StreamInOrder, Settled, TwoWays, Rotate!SettledOnDevice, Rotate!NoOrientation
<1> QED
  BY <1>1, <1>2, StreamInductive, RotateTypesAlways, PTL DEF Spec, SettledOnDevice

-----------------------------------------------------------------------------
(* The selected button shows the selected item, and the scroll that was     *)
(* asked for last is the one the picker needs.                              *)
PickerInOrder ==
  /\ Rotate!IndexForOrientation(currentOrientation, selectedButton) = currentSelectItem
  /\ scrolls = <<>> => offset = Rotate!Scroll(currentOrientation, currentSelectItem)
  /\ scrolls # <<>> => Newest(scrolls) = Rotate!Scroll(currentOrientation, currentSelectItem)

LEMMA SelectInOrder ==
  ASSUME PickerTypes, currentOrientation' \in TwoWays, NEW item \in 0 .. LastItem,
         SelectsItem(item)
  PROVE  PickerInOrder'
<1>1. Rotate!IndexForOrientation(currentOrientation', selectedButton') = item
  BY Zenon, IndexType DEF SelectsItem
<1>2. Rotate!Scroll(currentOrientation', item) \in Scrolls
  BY DEF Rotate!Scroll, Scrolls
<1>3. scrolls' # <<>> /\ Newest(scrolls') = Rotate!Scroll(currentOrientation', item)
  BY <1>2, NewestOfAppend DEF PickerTypes, SelectsItem
<1> QED
  BY Zenon, <1>1, <1>3 DEF PickerInOrder, SelectsItem

LEMMA PickerInductive ==
  StreamTypes /\ PickerTypes /\ PickerInOrder /\ [Next]_vars => PickerInOrder'
<1> SUFFICES ASSUME StreamTypes, PickerTypes, PickerInOrder, [Rotate!Next]_rotateVars, [Next]_vars
             PROVE  PickerInOrder'
  BY RotateSteps
<1>0. currentSelectItem \in 0 .. LastItem /\ currentOrientation' \in TwoWays
  BY Zenon, RotateDataInductive DEF PickerTypes, StreamTypes
<1>1. ASSUME SamePicker PROVE PickerInOrder'
  BY Zenon, <1>1 DEF SamePicker, PickerInOrder
<1>2. ASSUME SelectsItem(currentSelectItem) PROVE PickerInOrder'
  BY Zenon, <1>0, <1>2, SelectInOrder
<1>3. CASE Rotate!Open
  BY Zenon, <1>2, <1>3, OpenData
<1>4. CASE Rotate!Close
  <2>1. Rotate!IndexForOrientation("portrait", 0) = 0
    BY DEF Rotate!IndexForOrientation
  <2> QED
    BY Zenon, <1>4, <2>1, CloseData DEF PickerInOrder
<1>5. CASE Rotate!DeviceTurns
  BY Zenon, <1>1, <1>5, TurnData
<1>6. CASE Rotate!MainReceives
  BY Zenon, <1>1, <1>2, <1>6, ReceiveData, EmitData
<1>7. CASE Rotate!SecondPasses
  BY Zenon, <1>1, <1>2, <1>7, SecondData, EmitData
<1>8. CASE PickerStep
  <2>1. ASSUME NEW item, SelectsItem(item),
               item \in {currentSelectItem}
                 \cup {Rotate!IndexForOrientation(currentOrientation, b) : b \in 0 .. LastItem}
        PROVE  PickerInOrder'
    <3>1. item \in 0 .. LastItem
      BY <1>0, <2>1, IndexType
    <3> QED
      BY Zenon, <1>0, <2>1, <3>1, SelectInOrder
  <2>2. CASE /\ scrolls # <<>> /\ offset' = Head(scrolls) /\ scrolls' = Tail(scrolls)
             /\ UNCHANGED <<currentSelectItem, selectedButton>>
    <3>1. /\ scrolls' = <<>> => Newest(scrolls) = offset'
          /\ scrolls' # <<>> => Newest(scrolls') = Newest(scrolls)
      BY <2>2, NewestOfTail DEF PickerTypes
    <3>2. UNCHANGED currentOrientation
      BY Zenon, <1>8 DEF PickerStep
    <3> QED
      BY Zenon, <2>2, <3>1, <3>2 DEF PickerInOrder
  <2> QED
    BY Zenon, <1>8, <2>1, <2>2 DEF PickerStep
<1>9. CASE UNCHANGED rotateVars
  BY Zenon, <1>1, <1>9 DEF rotateVars, SamePicker
<1> QED
  BY Zenon, <1>3, <1>4, <1>5, <1>6, <1>7, <1>8, <1>9, PickerData DEF Rotate!Next

(* The picker settles on its selected item, for any number of items and     *)
(* whatever is selected and turned before its scrolls are carried out.      *)
THEOREM PickerAlwaysSettles == Spec => []PickerSettles
<1>1. Init => PickerInOrder
  <2>1. Rotate!IndexForOrientation("portrait", 0) = 0
    BY DEF Rotate!IndexForOrientation
  <2> QED
    BY Zenon, <2>1 DEF Init, Rotate!Init, PickerInOrder
<1>2. PickerInOrder => Rotate!PickerSettles
  BY Zenon DEF PickerInOrder, Rotate!PickerSettles
<1> QED
  BY <1>1, <1>2, PickerInductive, RotateTypesAlways, PTL DEF Spec, PickerSettles
=============================================================================
