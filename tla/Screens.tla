------------------------------ MODULE Screens ------------------------------
(***************************************************************************)
(* The small screens that InitFlow pushes from the main list, one at a     *)
(* time: the player's slider, the screen that turns with the device, the   *)
(* countdown and the list of events.  No two of them share state, so what  *)
(* a session does on one is what it would do without the others: here a    *)
(* session chooses its screen, and opens and leaves that one as often as   *)
(* it likes.                                                               *)
(***************************************************************************)
EXTENDS ScreenSizes

VARIABLES
  screen,  \* the screen of this session
  (* RangeSlider *)
  type, currentValue, lowerValue, upperValue, highlighted, tracking, touched,
  cancelled,
  (* RotateScreen *)
  relay, orientationLock, subscribed, onItsWay, window, latest, firstSkipped,
  layout, currentOrientation, currentSelectItem, selectedButton, scrolls,
  offset, turned,
  (* ShutterCountdown *)
  openings, open, shutterTimers, addCount, posted, toastWindow, onWindow,
  currentShowingView, keyWindow, crashed,
  (* EventList *)
  now, executing, animating, triggers, reloads, loadFailed, events, pass, rest,
  kept, list, began

Player == INSTANCE RangeSlider
Rotate == INSTANCE RotateScreen
Toast == INSTANCE ShutterCountdown
Event == INSTANCE EventList

playerVars == <<type, currentValue, lowerValue, upperValue, highlighted, tracking,
                touched, cancelled>>
rotateVars == <<relay, orientationLock, subscribed, onItsWay, window, latest,
                firstSkipped, layout, currentOrientation, currentSelectItem,
                selectedButton, scrolls, offset, turned>>
toastVars == <<openings, open, shutterTimers, addCount, posted, toastWindow,
               onWindow, currentShowingView, keyWindow, crashed>>
eventVars == <<now, executing, animating, triggers, reloads, loadFailed, events,
               pass, rest, kept, list, began>>
vars == <<screen, playerVars, rotateVars, toastVars, eventVars>>

Init ==
  /\ screen \in {"playerSlider", "rotateStackScroll", "toastWithView", "multiSelectCollection"}
  /\ Player!Init
  /\ Rotate!Init
  /\ Toast!Init
  /\ Event!Init

OnPlayer ==
  /\ screen = "playerSlider"
  /\ Player!Next
  /\ UNCHANGED <<screen, rotateVars, toastVars, eventVars>>

OnRotate ==
  /\ screen = "rotateStackScroll"
  /\ Rotate!Next
  /\ UNCHANGED <<screen, playerVars, toastVars, eventVars>>

OnToast ==
  /\ screen = "toastWithView"
  /\ Toast!Next
  /\ UNCHANGED <<screen, playerVars, rotateVars, eventVars>>

OnEvent ==
  /\ screen = "multiSelectCollection"
  /\ Event!Next
  /\ UNCHANGED <<screen, playerVars, rotateVars, toastVars>>

Next == OnPlayer \/ OnRotate \/ OnToast \/ OnEvent

(* Timers and the main queue, as RotateScreen and ShutterCountdown ask. *)
Spec ==
  /\ Init
  /\ [][Next]_vars
  /\ Rotate!Fairness
  /\ Toast!Fairness

-----------------------------------------------------------------------------
(* The types of every screen's fields; among them that the two ends of the  *)
(* slider's range stay in order.                                            *)
TypeOK == Player!TypeOK /\ Rotate!TypeOK /\ Toast!TypeOK /\ Event!TypeOK

(* Player: a drag moves only a thumb its touch began on, unless the touch   *)
(* before was cancelled.                                                    *)
OnlyTouchedThumbMoves == Player!OnlyTouchedThumbMoves

(* Player: a range that is not closed at the start can be made wider.       *)
RangeCanWiden == Player!RangeCanWiden

(* Rotating screen: it settles on the orientation of the device.            *)
SettledOnDevice == Rotate!SettledOnDevice

(* Rotating screen: its picker settles on the selected item.                *)
PickerSettles == Rotate!PickerSettles

(* Rotating screen: it follows the device once it was turned.               *)
FollowsDevice == Rotate!FollowsDevice

(* Countdown: numbers come up in order, across closings and openings.       *)
NoNumberIsSkipped == Toast!NoNumberIsSkipped

(* Countdown: it ends with the seeker.                                      *)
CountEnds == Toast!CountEnds

(* Events: every event that is shown is listed once.                        *)
EachEventOnce == Event!EachEventOnce

(* Events: the groups and their order.                                      *)
GroupedAndSorted == Event!GroupedAndSorted

(* Events: a refresh spins for ever only after a failed load.               *)
SpinsOnlyAfterFailure == Event!SpinsOnlyAfterFailure
=============================================================================
