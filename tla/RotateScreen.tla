---------------------------- MODULE RotateScreen ----------------------------
(***************************************************************************)
(* The camera-like screen that turns with the device                       *)
(* (Feature/RotateStackScoll), with its picker of items, and the process's *)
(* DeviceOrientationHelper, whose accelerometer says how the device is     *)
(* held.                                                                   *)
(*                                                                         *)
(* The orientation reaches the screen late: distinctUntilChanged and       *)
(* observeOn post every change to the main queue, throttle lets one value  *)
(* pass a second and keeps the latest of the others, and skip(1) drops the *)
(* first.  The picker scrolls to its selected item a tenth of a second     *)
(* after the selection.                                                    *)
(*                                                                         *)
(* Operators whose name ends in Mutant are plausible bugs of the operator  *)
(* that follows them; no specification uses them.                          *)
(***************************************************************************)
EXTENDS ScreenSizes, Sequences

Orientations == {"portrait", "landscapeRight"}
NoOrientation == "none"
Items == 0 .. LastItem

VARIABLES
  relay,            \* currentDeviceOrientaionBehaviorRelay: how the device is held
  orientationLock,  \* of the application; outlives the screen
  subscribed,       \* is the screen open?
  onItsWay,         \* values posted to the main queue, oldest first
  window,           \* the second of the throttle has not passed
  latest,           \* the value the throttle keeps, or NoOrientation
  firstSkipped,     \* skip(1) has dropped its value
  layout,           \* which constraints of the screen are active
  currentOrientation,  \* of the picker
  currentSelectItem,   \* of the picker
  selectedButton,   \* position of the button that is selected
  scrolls,          \* scrolls of the picker that wait for their tenth of a second
  offset,           \* the scroll that was carried out last
  turned            \* history: the device was turned while the screen was open

streamVars == <<onItsWay, window, latest, firstSkipped>>
pickerVars == <<currentOrientation, currentSelectItem, selectedButton, scrolls>>
vars == <<relay, orientationLock, subscribed, streamVars, layout, pickerVars, offset, turned>>

(* indexForOrientation: landscape shows the items in the opposite order, so *)
(* it takes an item to its button, and a button to its item.                *)
IndexForOrientation(orientation, i) ==
  IF orientation = "portrait" THEN i ELSE LastItem - i

Scroll(orientation, item) == [orientation |-> orientation, item |-> item]

(* The application starts, with the screen closed. *)
Init ==
  /\ relay = "portrait"
  /\ orientationLock = "portrait"
  /\ subscribed = FALSE
  /\ onItsWay = <<>>
  /\ window = FALSE
  /\ latest = NoOrientation
  /\ firstSkipped = FALSE
  /\ layout = "portrait"
  /\ currentOrientation = "portrait"
  /\ currentSelectItem = 0
  /\ selectedButton = 0
  /\ scrolls = <<>>
  /\ offset = Scroll("portrait", 0)
  /\ turned = FALSE

(* The blocks this screen has on the main queue. *)
Pending == Len(onItsWay) + Len(scrolls)

-----------------------------------------------------------------------------
(* selectedItem(_:) of a picker with the buttons of an orientation. *)
SelectedItem(orientation, item) ==
  /\ currentSelectItem' = item
  /\ selectedButton' = IndexForOrientation(orientation, item)
  /\ scrolls' = Append(scrolls, Scroll(orientation, item))

(* reloadData that leaves the offset to the scrolls before it. *)
ReloadDataMutant(orientation) ==
  /\ currentOrientation' = orientation
  /\ selectedButton' = IndexForOrientation(orientation, currentSelectItem)
  /\ UNCHANGED <<currentSelectItem, scrolls>>

(* reloadData(_:): new buttons, and the selected item is selected again. *)
ReloadData(orientation) ==
  /\ currentOrientation' = orientation
  /\ SelectedItem(orientation, currentSelectItem)

(* The screen is pushed: it subscribes, which hands it the orientation of   *)
(* the moment, and didMoveToWindow fills the picker.                        *)
Open ==
  /\ ~subscribed
  /\ subscribed' = TRUE
  /\ onItsWay' = <<relay>>
  /\ ReloadData("portrait")
  /\ UNCHANGED <<relay, orientationLock, window, latest, firstSkipped, layout, offset, turned>>

(* The screen is popped: the view goes with its subscription and its        *)
(* picker, whatever is on its way.  The lock stays.                         *)
Close ==
  /\ subscribed
  /\ subscribed' = FALSE
  /\ onItsWay' = <<>>
  /\ window' = FALSE
  /\ latest' = NoOrientation
  /\ firstSkipped' = FALSE
  /\ layout' = "portrait"
  /\ currentOrientation' = "portrait"
  /\ currentSelectItem' = 0
  /\ selectedButton' = 0
  /\ scrolls' = <<>>
  /\ offset' = Scroll("portrait", 0)
  /\ turned' = FALSE
  /\ UNCHANGED <<relay, orientationLock>>

(* The accelerometer, on a thread of its own: the device is held another way. *)
DeviceTurns ==
  /\ Pending < MaxPosted
  /\ \E orientation \in Orientations \ {relay} :
       /\ relay' = orientation
       /\ onItsWay' = IF subscribed THEN Append(onItsWay, orientation) ELSE onItsWay
  /\ turned' = subscribed
  /\ UNCHANGED <<orientationLock, subscribed, window, latest, firstSkipped, layout,
                 pickerVars, offset>>

(* rotateLayout without rotateWindow. *)
RotateLayoutMutant(orientation) ==
  /\ layout' = orientation
  /\ ReloadData(orientation)
  /\ UNCHANGED orientationLock

(* rotateLayout(_:): the constraints, the lock and the picker. *)
RotateLayout(orientation) ==
  /\ layout' = orientation
  /\ orientationLock' = orientation
  /\ ReloadData(orientation)

(* What the throttle lets pass, but for the first, rotates the screen. *)
Emit(orientation) ==
  /\ firstSkipped' = TRUE
  /\ \/ firstSkipped /\ RotateLayout(orientation)
     \/ ~firstSkipped /\ UNCHANGED <<layout, orientationLock, pickerVars>>

(* A throttle that drops what comes during its second: latest: false. *)
MainReceivesMutant ==
  /\ onItsWay # <<>>
  /\ onItsWay' = Tail(onItsWay)
  /\ \/ ~window /\ window' = TRUE /\ Emit(Head(onItsWay))
     \/ window /\ UNCHANGED <<window, firstSkipped, layout, orientationLock, pickerVars>>
  /\ UNCHANGED <<relay, subscribed, latest, offset, turned>>

(* A value arrives on the main queue and at the throttle. *)
MainReceives ==
  /\ onItsWay # <<>>
  /\ onItsWay' = Tail(onItsWay)
  /\ \/ /\ ~window
        /\ window' = TRUE
        /\ latest' = NoOrientation
        /\ Emit(Head(onItsWay))
     \/ /\ window
        /\ latest' = Head(onItsWay)
        /\ UNCHANGED <<window, firstSkipped, layout, orientationLock, pickerVars>>
  /\ UNCHANGED <<relay, subscribed, offset, turned>>

(* The second of the throttle passes: the value it keeps, if any, is let    *)
(* pass and starts another second.                                          *)
SecondPasses ==
  /\ window
  /\ \/ /\ latest # NoOrientation
        /\ latest' = NoOrientation
        /\ Emit(latest)
        /\ UNCHANGED window
     \/ /\ latest = NoOrientation
        /\ window' = FALSE
        /\ UNCHANGED <<latest, firstSkipped, layout, orientationLock, pickerVars>>
  /\ UNCHANGED <<relay, subscribed, onItsWay, offset, turned>>

(* A button is tapped: it selects the item it was made for. *)
TapButton(position) ==
  /\ subscribed
  /\ Pending < MaxPosted
  /\ SelectedItem(currentOrientation, IndexForOrientation(currentOrientation, position))
  /\ UNCHANGED <<relay, orientationLock, subscribed, streamVars, layout,
                 currentOrientation, offset, turned>>

(* layoutSubviews of the picker selects the selected item again. *)
LayoutSubviews ==
  /\ subscribed
  /\ Pending < MaxPosted
  /\ SelectedItem(currentOrientation, currentSelectItem)
  /\ UNCHANGED <<relay, orientationLock, subscribed, streamVars, layout,
                 currentOrientation, offset, turned>>

(* The block of scrollToIndex: it finds the button of its item among those  *)
(* of now, and scrolls along the orientation of then.                       *)
ScrollToIndex ==
  /\ scrolls # <<>>
  /\ offset' = Head(scrolls)
  /\ scrolls' = Tail(scrolls)
  /\ UNCHANGED <<relay, orientationLock, subscribed, streamVars, layout,
                 currentOrientation, currentSelectItem, selectedButton, turned>>

Next ==
  \/ Open
  \/ Close
  \/ DeviceTurns
  \/ MainReceives
  \/ SecondPasses
  \/ \E position \in Items : TapButton(position)
  \/ LayoutSubviews
  \/ ScrollToIndex

Spec == Init /\ [][Next]_vars

(* The main queue runs what was posted to it and the timers of the throttle *)
(* and the picker fire; nobody has to turn the device or to tap.            *)
Fairness == WF_vars(MainReceives) /\ WF_vars(SecondPasses) /\ WF_vars(ScrollToIndex)

FairSpec == Spec /\ Fairness

-----------------------------------------------------------------------------
(* Types of the stream's, the screen's and the picker's fields. *)
TypeOK ==
  /\ relay \in Orientations
  /\ orientationLock \in Orientations
  /\ subscribed \in BOOLEAN
  /\ onItsWay \in Seq(Orientations)
  /\ window \in BOOLEAN
  /\ latest \in Orientations \cup {NoOrientation}
  /\ firstSkipped \in BOOLEAN
  /\ layout \in Orientations
  /\ currentOrientation \in Orientations
  /\ currentSelectItem \in Items
  /\ selectedButton \in Items
  /\ scrolls \in Seq([orientation : Orientations, item : Items])
  /\ offset \in [orientation : Orientations, item : Items]
  /\ turned \in BOOLEAN

(* When nothing is on its way, the screen, its picker and the lock of the   *)
(* application have the orientation of the device, if the device was turned *)
(* since the screen opened: throttle and distinctUntilChanged never lose    *)
(* the last of a series of turns.  (Before the first turn skip(1) leaves a  *)
(* screen opened in landscape upright.)                                     *)
SettledOnDevice ==
  turned /\ onItsWay = <<>> /\ latest = NoOrientation
    => layout = relay /\ currentOrientation = relay /\ orientationLock = relay

(* The selected button is the one that shows the selected item, through all *)
(* rotations; and when no scroll is waiting, the picker was last scrolled   *)
(* to that item, along the orientation it has now.                          *)
PickerSettles ==
  /\ IndexForOrientation(currentOrientation, selectedButton) = currentSelectItem
  /\ scrolls = <<>> => offset = Scroll(currentOrientation, currentSelectItem)

(* A screen follows the device: once turned, it comes to have the           *)
(* orientation the device is held in, unless it is turned again or closed.  *)
FollowsDevice ==
  \A orientation \in Orientations :
    (turned /\ relay = orientation) ~> (layout = orientation \/ relay # orientation \/ ~turned)
=============================================================================
