---------------------------- MODULE RangeSlider ----------------------------
(***************************************************************************)
(* The slider of the player screen (Feature/PlayerSlider/RangeSlider.swift)*)
(* and the controls around it: three buttons that change its type and a    *)
(* second slider that sets its current value.  The slider follows one      *)
(* touch at a time; the other controls can be used by another finger       *)
(* meanwhile.                                                              *)
(*                                                                         *)
(* Values are whole steps.  A drag by d moves a thumb by d steps: the      *)
(* factor between the width of the track and the way of the thumb is left  *)
(* out.                                                                    *)
(*                                                                         *)
(* Operators whose name ends in Mutant are plausible bugs of the operator  *)
(* that follows them; no specification uses them.                          *)
(***************************************************************************)
EXTENDS ScreenSizes

Values == 0 .. MaxValue
Types == {"play", "range", "small"}
Thumbs == {"lower", "upper", "player"}

VARIABLES
  type,
  currentValue, lowerValue, upperValue,
  highlighted,  \* thumbs whose layer is highlighted
  tracking,     \* UIControl.isTracking: a touch is being followed
  touched,      \* history: the thumbs in reach of that touch as it began
  cancelled     \* history: the touch before was cancelled, not ended

valueVars == <<currentValue, lowerValue, upperValue>>
touchVars == <<highlighted, tracking, touched, cancelled>>
vars == <<type, valueVars, touchVars>>

Init ==
  /\ type = "play"
  /\ currentValue = 0
  /\ lowerValue = 0
  /\ upperValue = MaxValue
  /\ highlighted = {}
  /\ tracking = FALSE
  /\ touched = {}
  /\ cancelled = FALSE

(* The screen is left and opened again: a new view, with a new slider. *)
Reopen ==
  /\ type' = "play"
  /\ currentValue' = 0
  /\ lowerValue' = 0
  /\ upperValue' = MaxValue
  /\ highlighted' = {}
  /\ tracking' = FALSE
  /\ touched' = {}
  /\ cancelled' = FALSE

(* The value under each thumb. *)
Value(thumb) ==
  CASE thumb = "lower" -> lowerValue
    [] thumb = "upper" -> upperValue
    [] thumb = "player" -> currentValue

ThumbsOfType ==
  CASE type = "play" -> {"player"}
    [] type = "range" -> {"lower", "upper"}
    [] type = "small" -> {}

Near(x, thumb) == Value(thumb) - Reach <= x /\ x <= Value(thumb) + Reach

-----------------------------------------------------------------------------
(* A button sets the type, and the type the range, also when it was the     *)
(* type before; the thumbs that are highlighted stay so.                    *)
SetType(t) ==
  /\ type' = t
  /\ \/ /\ t # "small"
        /\ lowerValue' = currentValue
        /\ upperValue' = MaxValue
     \/ /\ t = "small"
        /\ UNCHANGED <<lowerValue, upperValue>>
  /\ UNCHANGED <<currentValue, touchVars>>

(* The second slider. *)
SetCurrentValue(v) ==
  /\ currentValue' = v
  /\ UNCHANGED <<type, lowerValue, upperValue, touchVars>>

(* The hit test with the thumbs the other way round. *)
HitMutant(x) ==
  {t \in ThumbsOfType : Near(x, t) /\ (t = "lower" => ~Near(x, "upper"))}

(* The hit test of beginTracking: of two thumbs in reach, the lower one. *)
Hit(x) ==
  {t \in ThumbsOfType : Near(x, t) /\ (t = "upper" => ~Near(x, "lower"))}

(* beginTracking: the touch is followed if a thumb of the type is           *)
(* highlighted, by this touch or since before.                              *)
BeginTracking(x) ==
  /\ ~tracking
  /\ type # "small"
  /\ highlighted' = highlighted \cup Hit(x)
  /\ tracking' = (highlighted' \cap ThumbsOfType # {})
  /\ touched' = {t \in ThumbsOfType : Near(x, t)}
  /\ UNCHANGED <<type, valueVars, cancelled>>

BoundValue(v, low, high) ==
  IF v < low THEN low ELSE IF v > high THEN high ELSE v

(* boundValue of the whole track for both ends of the range. *)
DraggedMutant(thumb, d) == BoundValue(Value(thumb) + d, 0, MaxValue)

(* Where a drag by d takes a thumb. *)
Dragged(thumb, d) ==
  BoundValue(Value(thumb) + d,
             IF thumb = "upper" THEN lowerValue ELSE 0,
             IF thumb = "lower" THEN upperValue ELSE MaxValue)

(* continueTracking: the lower thumb moves if it is highlighted, else the   *)
(* upper one; none if the type changed to one without a highlighted thumb.  *)
ContinueTracking(d) ==
  /\ tracking
  /\ LET moves(t) ==
           /\ t \in highlighted \cap ThumbsOfType
           /\ t = "upper" => "lower" \notin highlighted
     IN /\ lowerValue' = IF moves("lower") THEN Dragged("lower", d) ELSE lowerValue
        /\ upperValue' = IF moves("upper") THEN Dragged("upper", d) ELSE upperValue
        /\ currentValue' = IF moves("player") THEN Dragged("player", d) ELSE currentValue
  /\ UNCHANGED <<type, touchVars>>

(* endTracking that forgets the upper thumb. *)
EndTrackingMutant ==
  /\ tracking
  /\ tracking' = FALSE
  /\ highlighted' = highlighted \ {"lower", "player"}
  /\ touched' = {}
  /\ cancelled' = FALSE
  /\ UNCHANGED <<type, valueVars>>

(* endTracking. *)
EndTracking ==
  /\ tracking
  /\ tracking' = FALSE
  /\ highlighted' = {}
  /\ touched' = {}
  /\ cancelled' = FALSE
  /\ UNCHANGED <<type, valueVars>>

(* A touch that the system takes away, for a swipe back for example, ends   *)
(* with cancelTracking, which the slider leaves as it is.                   *)
CancelTracking ==
  /\ tracking
  /\ tracking' = FALSE
  /\ touched' = {}
  /\ cancelled' = TRUE
  /\ UNCHANGED <<type, valueVars, highlighted>>

Next ==
  \/ Reopen
  \/ \E t \in Types : SetType(t)
  \/ \E v \in Values : SetCurrentValue(v) \/ BeginTracking(v)
  \/ \E d \in {-1, 1} : ContinueTracking(d)
  \/ EndTracking
  \/ CancelTracking

Spec == Init /\ [][Next]_vars

-----------------------------------------------------------------------------
(* Types of the slider's fields; the two ends of the range stay in order    *)
(* and on the track, whatever is dragged and set in between.                *)
TypeOK ==
  /\ type \in Types
  /\ currentValue \in Values
  /\ upperValue \in Values
  /\ lowerValue \in 0 .. upperValue
  /\ highlighted \in SUBSET Thumbs
  /\ tracking \in BOOLEAN
  /\ touched \in SUBSET Thumbs
  /\ cancelled \in BOOLEAN

(* A drag moves no thumb that was out of reach of the touch as it began,    *)
(* although thumbs stay highlighted while buttons change the type under     *)
(* them.  A touch that was cancelled takes that away until the next one     *)
(* ends: its thumb follows the next touch, wherever that is.                *)
OnlyTouchedThumbMoves ==
  [][\A d \in {-1, 1} :
       ContinueTracking(d) /\ ~cancelled
         => \A t \in Thumbs : Value(t)' # Value(t) => t \in touched]_vars

(* A range that is not the whole track can be made wider by some touch and  *)
(* some drag, unless it is closed at the start: there the lower thumb, which*)
(* the hit test prefers, covers the upper one.                              *)
RangeCanWiden ==
  type = "range" /\ upperValue > 0 /\ (lowerValue > 0 \/ upperValue < MaxValue)
    => \E x \in Values :
         \/ "lower" \in Hit(x) /\ Dragged("lower", -1) < lowerValue
         \/ "upper" \in Hit(x) /\ Dragged("upper", 1) > upperValue
=============================================================================
