---------------------------- MODULE ScreenSizes ----------------------------
(***************************************************************************)
(* What the modules of the small screens are parameterised by: RangeSlider,*)
(* RotateScreen, ShutterCountdown and EventList.                           *)
(***************************************************************************)
EXTENDS Integers

CONSTANTS
  MaxValue,     \* RangeSlider: maximumValue, in steps of a drag
  Reach,        \* RangeSlider: how far from its middle a thumb is touched
  LastItem,     \* RotateScreen: the last item of the picker; the first is 0
  CountFrom,    \* ShutterCountdown: the first number shown
  MaxOpenings,  \* bound: screens of the countdown opened
  Dates,        \* EventList: moments at which events start and stop
  Horizon,      \* bound: the last moment of its clock; the first is 0
  MaxEvents,    \* bound: events in an answer of the server
  MaxPosted     \* bound: blocks, timers and values on their way to the main queue

(* A slider is wider than the reach of one thumb. *)
ASSUME SliderAssumption ==
  MaxValue \in Nat /\ Reach \in Nat /\ Reach < MaxValue
ASSUME ItemsAssumption == LastItem \in Nat
ASSUME CountAssumption == CountFrom \in Nat /\ MaxOpenings \in Nat
ASSUME EventsAssumption == Dates \subseteq Nat /\ Horizon \in Nat /\ MaxEvents \in Nat
ASSUME PostedAssumption == MaxPosted \in Nat
=============================================================================
