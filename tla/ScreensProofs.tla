---------------------------- MODULE ScreensProofs ----------------------------
(***************************************************************************)
(* Theorems about the small screens: the player's slider, for a track of   *)
(* any length and thumbs of any reach; the list of events, for answers of  *)
(* any length and any clock; and the types of all four screens, with what  *)
(* is known of the rotating screen and of the countdown.                   *)
(***************************************************************************)
EXTENDS RotateScreenProofs, CountdownScreenProofs, FiniteSets, FiniteSetTheorems

(* A step of a session is one of the slider, or leaves it alone. *)
LEMMA PlayerSteps == [Next]_vars => [Player!Next]_playerVars
BY Zenon DEF Next, OnPlayer, OnRotate, OnToast, OnEvent, vars

LEMMA BoundValueType ==
  ASSUME NEW v \in Int, NEW low \in Int, NEW high \in Int, low <= high
  PROVE  Player!BoundValue(v, low, high) \in low .. high
BY DEF Player!BoundValue

PlayerValues ==
  /\ currentValue \in 0 .. MaxValue
  /\ upperValue \in 0 .. MaxValue
  /\ lowerValue \in 0 .. upperValue

PlayerTouch ==
  /\ type \in {"play", "range", "small"}
  /\ highlighted \in SUBSET {"lower", "upper", "player"}
  /\ tracking \in BOOLEAN
  /\ touched \in SUBSET {"lower", "upper", "player"}
  /\ cancelled \in BOOLEAN

LEMMA PlayerSplit == Player!TypeOK <=> PlayerValues /\ PlayerTouch
BY DEF Player!TypeOK, Player!Types, Player!Values, Player!Thumbs, PlayerValues, PlayerTouch

(* Where a drag takes each thumb. *)
LEMMA DraggedTypes ==
  ASSUME PlayerValues, NEW d \in Int
  PROVE  /\ Player!Dragged("lower", d) \in 0 .. upperValue
         /\ Player!Dragged("upper", d) \in lowerValue .. MaxValue
         /\ Player!Dragged("player", d) \in 0 .. MaxValue
<1>1. /\ lowerValue \in Int /\ upperValue \in Int /\ currentValue \in Int
      /\ 0 <= lowerValue /\ lowerValue <= upperValue /\ upperValue <= MaxValue
      /\ MaxValue \in Int
  BY SliderAssumption DEF PlayerValues
<1>2. /\ Player!Value("lower") = lowerValue
      /\ Player!Value("upper") = upperValue
      /\ Player!Value("player") = currentValue
  BY DEF Player!Value
<1>3. Player!BoundValue(lowerValue + d, 0, upperValue) \in 0 .. upperValue
  BY <1>1, BoundValueType
<1>4. Player!BoundValue(upperValue + d, lowerValue, MaxValue) \in lowerValue .. MaxValue
  BY <1>1, BoundValueType
<1>5. Player!BoundValue(currentValue + d, 0, MaxValue) \in 0 .. MaxValue
  BY <1>1, BoundValueType
<1> QED
  BY <1>2, <1>3, <1>4, <1>5 DEF Player!Dragged

(* What the actions do to the values. *)
LEMMA PlayerValueSteps ==
  ASSUME PlayerTouch, [Player!Next]_playerVars
  PROVE  \/ UNCHANGED <<currentValue, lowerValue, upperValue>>
         \/ currentValue' = 0 /\ lowerValue' = 0 /\ upperValue' = MaxValue
         \/ lowerValue' = currentValue /\ upperValue' = MaxValue /\ UNCHANGED currentValue
         \/ currentValue' \in 0 .. MaxValue /\ UNCHANGED <<lowerValue, upperValue>>
         \/ \E d \in {-1, 1} :
              \/ lowerValue' = Player!Dragged("lower", d) /\ UNCHANGED <<currentValue, upperValue>>
              \/ upperValue' = Player!Dragged("upper", d) /\ UNCHANGED <<currentValue, lowerValue>>
              \/ currentValue' = Player!Dragged("player", d) /\ UNCHANGED <<lowerValue, upperValue>>
<1>1. CASE Player!Reopen
  BY Zenon, <1>1 DEF Player!Reopen
<1>2. ASSUME NEW t \in Player!Types, Player!SetType(t)
      PROVE  \/ UNCHANGED <<currentValue, lowerValue, upperValue>>
             \/ lowerValue' = currentValue /\ upperValue' = MaxValue /\ UNCHANGED currentValue
  BY Zenon, <1>2 DEF Player!SetType
<1>3. ASSUME NEW v \in Player!Values, Player!SetCurrentValue(v) \/ Player!BeginTracking(v)
      PROVE  \/ UNCHANGED <<currentValue, lowerValue, upperValue>>
             \/ currentValue' \in 0 .. MaxValue /\ UNCHANGED <<lowerValue, upperValue>>
  BY Zenon, <1>3 DEF Player!SetCurrentValue, Player!BeginTracking, Player!Values, Player!valueVars
<1>4. ASSUME NEW d \in {-1, 1}, Player!ContinueTracking(d)
      PROVE  \/ UNCHANGED <<currentValue, lowerValue, upperValue>>
             \/ lowerValue' = Player!Dragged("lower", d) /\ UNCHANGED <<currentValue, upperValue>>
             \/ upperValue' = Player!Dragged("upper", d) /\ UNCHANGED <<currentValue, lowerValue>>
             \/ currentValue' = Player!Dragged("player", d) /\ UNCHANGED <<lowerValue, upperValue>>
  <2>1. CASE type = "play"
    <3>1. Player!ThumbsOfType = {"player"}
      BY <2>1 DEF Player!ThumbsOfType
    <3> QED
      BY <1>4, <3>1 DEF Player!ContinueTracking
  <2>2. CASE type = "range"
    <3>1. Player!ThumbsOfType = {"lower", "upper"}
      BY <2>2 DEF Player!ThumbsOfType
    <3> QED
      BY <1>4, <3>1 DEF Player!ContinueTracking
  <2>3. CASE type = "small"
    <3>1. Player!ThumbsOfType = {}
      BY <2>3 DEF Player!ThumbsOfType
    <3> QED
      BY <1>4, <3>1 DEF Player!ContinueTracking
  <2> QED
    BY <2>1, <2>2, <2>3 DEF PlayerTouch
<1>5. CASE Player!EndTracking \/ Player!CancelTracking
  BY Zenon, <1>5 DEF Player!EndTracking, Player!CancelTracking, Player!valueVars
<1>6. CASE UNCHANGED playerVars
  BY Zenon, <1>6 DEF playerVars
<1> QED
  BY Zenon, <1>1, <1>2, <1>3, <1>4, <1>5, <1>6 DEF Player!Next

LEMMA PlayerValuesInductive == PlayerValues /\ PlayerTouch /\ [Next]_vars => PlayerValues'
<1> SUFFICES ASSUME PlayerValues, PlayerTouch, [Player!Next]_playerVars PROVE PlayerValues'
  BY PlayerSteps
<1>0. MaxValue \in Int /\ 0 <= MaxValue
  BY SliderAssumption
<1>1. ASSUME NEW d \in {-1, 1},
             \/ lowerValue' = Player!Dragged("lower", d) /\ UNCHANGED <<currentValue, upperValue>>
             \/ upperValue' = Player!Dragged("upper", d) /\ UNCHANGED <<currentValue, lowerValue>>
             \/ currentValue' = Player!Dragged("player", d) /\ UNCHANGED <<lowerValue, upperValue>>
      PROVE  PlayerValues'
  <2>1. /\ Player!Dragged("lower", d) \in 0 .. upperValue
        /\ Player!Dragged("upper", d) \in lowerValue .. MaxValue
        /\ Player!Dragged("player", d) \in 0 .. MaxValue
    BY DraggedTypes
  <2> QED
    BY <1>0, <1>1, <2>1 DEF PlayerValues
<1> QED
  BY <1>0, <1>1, PlayerValueSteps DEF PlayerValues

LEMMA PlayerTouchInductive == PlayerTouch /\ [Next]_vars => PlayerTouch'
<1> SUFFICES ASSUME PlayerTouch, [Player!Next]_playerVars PROVE PlayerTouch'
  BY PlayerSteps
<1>1. ASSUME NEW x \in Player!Values, Player!BeginTracking(x)
      PROVE  PlayerTouch'
  <2>1. Player!ThumbsOfType \subseteq {"lower", "upper", "player"}
    BY DEF Player!ThumbsOfType, PlayerTouch
  <2>2. Player!Hit(x) \subseteq {"lower", "upper", "player"}
    BY <2>1 DEF Player!Hit
  <2>3. /\ highlighted' = highlighted \cup Player!Hit(x)
        /\ touched' \subseteq Player!ThumbsOfType
        /\ tracking' \in BOOLEAN /\ UNCHANGED <<type, cancelled>>
    BY <1>1 DEF Player!BeginTracking
  <2> QED
    BY <2>1, <2>2, <2>3 DEF PlayerTouch
<1>2. CASE Player!Reopen \/ Player!EndTracking \/ Player!CancelTracking
  BY <1>2 DEF PlayerTouch, Player!Reopen, Player!EndTracking, Player!CancelTracking
<1>3. ASSUME NEW t \in Player!Types, Player!SetType(t)
      PROVE  PlayerTouch'
  BY <1>3 DEF PlayerTouch, Player!SetType, Player!Types, Player!touchVars
<1>4. CASE UNCHANGED <<type, highlighted, tracking, touched, cancelled>>
  BY <1>4 DEF PlayerTouch
<1> QED
  BY Zenon, <1>1, <1>2, <1>3, <1>4
     DEF Player!Next, Player!SetCurrentValue, Player!ContinueTracking, Player!touchVars,
         playerVars

LEMMA PlayerInit == Init => PlayerValues /\ PlayerTouch
<1>1. Player!Init => PlayerValues
  BY SliderAssumption DEF Player!Init, PlayerValues
<1>2. Player!Init => PlayerTouch
  BY DEF Player!Init, PlayerTouch
<1> QED
  BY Zenon, <1>1, <1>2 DEF Init

LEMMA PlayerTypesAlways == Spec => []Player!TypeOK
<1>1. PlayerValues /\ PlayerTouch /\ [Next]_vars => (PlayerValues /\ PlayerTouch)'
  BY PlayerValuesInductive, PlayerTouchInductive
<1> QED
  BY <1>1, PlayerInit, PlayerSplit, PTL DEF Spec

(* A range that is not closed at the start can be made wider. *)
THEOREM RangeWidens == Spec => []RangeCanWiden
<1>1. PlayerValues => Player!RangeCanWiden
  <2> SUFFICES ASSUME PlayerValues, type = "range", upperValue > 0,
                      lowerValue > 0 \/ upperValue < MaxValue
               PROVE  \E x \in 0 .. MaxValue :
                        \/ "lower" \in Player!Hit(x) /\ Player!Dragged("lower", -1) < lowerValue
                        \/ "upper" \in Player!Hit(x) /\ Player!Dragged("upper", 1) > upperValue
    BY Zenon DEF Player!RangeCanWiden, Player!Values
  <2>0. /\ lowerValue \in Int /\ upperValue \in Int /\ MaxValue \in Int /\ Reach \in Int
        /\ 0 <= lowerValue /\ lowerValue <= upperValue /\ upperValue <= MaxValue
        /\ 0 <= Reach /\ Reach < MaxValue
    BY SliderAssumption DEF PlayerValues
  <2>1. /\ Player!ThumbsOfType = {"lower", "upper"}
        /\ Player!Value("lower") = lowerValue
        /\ Player!Value("upper") = upperValue
    BY DEF Player!ThumbsOfType, Player!Value
  <2>2. CASE lowerValue > 0
    <3>1. lowerValue \in 0 .. MaxValue /\ "lower" \in Player!Hit(lowerValue)
      BY <2>0, <2>1 DEF Player!Hit, Player!Near
    <3>2. Player!Dragged("lower", -1) < lowerValue
      BY <2>0, <2>1, <2>2 DEF Player!Dragged, Player!BoundValue
    <3> QED
      BY <3>1, <3>2
  <2>3. CASE lowerValue = 0 /\ upperValue < MaxValue
    <3> DEFINE x == IF upperValue + Reach <= MaxValue THEN upperValue + Reach ELSE MaxValue
    <3>1. x \in 0 .. MaxValue /\ upperValue - Reach <= x /\ x <= upperValue + Reach /\ x > Reach
      BY <2>0, <2>3
    <3>2. Player!Near(x, "upper") /\ ~Player!Near(x, "lower")
      BY <2>0, <2>1, <2>3, <3>1 DEF Player!Near
    <3> HIDE DEF x
    <3>3. "upper" \in Player!Hit(x)
      BY <2>1, <3>2 DEF Player!Hit
    <3>4. Player!Dragged("upper", 1) > upperValue
      BY <2>0, <2>1, <2>3 DEF Player!Dragged, Player!BoundValue
    <3> QED
      BY <3>1, <3>3, <3>4
  <2> QED
    BY <2>0, <2>2, <2>3
<1> QED
  BY <1>1, PlayerTypesAlways, PlayerSplit, PTL DEF RangeCanWiden

-----------------------------------------------------------------------------
(* A thumb that is highlighted was touched, and there is one only while its *)
(* touch is followed; until a touch is cancelled.                           *)
HighlightedIsTouched ==
  ~cancelled => /\ highlighted \subseteq touched
                /\ ~tracking => highlighted = {}

LEMMA HighlightedInductive == HighlightedIsTouched /\ [Next]_vars => HighlightedIsTouched'
<1> SUFFICES ASSUME HighlightedIsTouched, [Player!Next]_playerVars
             PROVE  HighlightedIsTouched'
  BY PlayerSteps
<1>1. ASSUME NEW x \in Player!Values, Player!BeginTracking(x)
      PROVE  HighlightedIsTouched'
  BY <1>1 DEF HighlightedIsTouched, Player!BeginTracking, Player!Hit, Player!ThumbsOfType
<1>2. CASE Player!Reopen \/ Player!EndTracking \/ Player!CancelTracking
  BY <1>2 DEF HighlightedIsTouched, Player!Reopen, Player!EndTracking, Player!CancelTracking
<1>3. CASE UNCHANGED <<highlighted, tracking, touched, cancelled>>
  BY <1>3 DEF HighlightedIsTouched
<1> QED
  BY Zenon, <1>1, <1>2, <1>3
     DEF Player!Next, Player!SetType, Player!SetCurrentValue, Player!ContinueTracking,
         Player!touchVars, playerVars

(* A drag moves only thumbs its touch began on, unless the touch before was *)
(* cancelled.                                                               *)
THEOREM TouchedThumbMoves == Spec => OnlyTouchedThumbMoves
<1>1. Init => HighlightedIsTouched
  BY DEF Init, Player!Init, HighlightedIsTouched
<1>2. HighlightedIsTouched
        => \A d \in {-1, 1} :
             Player!ContinueTracking(d) /\ ~cancelled
               => \A t \in Player!Thumbs : Player!Value(t)' # Player!Value(t) => t \in touched
  BY DEF HighlightedIsTouched, Player!ContinueTracking, Player!Thumbs, Player!Value
<1> QED
  BY <1>1, <1>2, HighlightedInductive, PTL
     DEF Spec, OnlyTouchedThumbMoves, Player!OnlyTouchedThumbMoves

-----------------------------------------------------------------------------
(* A step of a session is one of the list of events, or leaves it alone. *)
LEMMA EventSteps == [Next]_vars => [Event!Next]_eventVars
BY Zenon DEF Next, OnPlayer, OnRotate, OnToast, OnEvent, vars

(* Triggers and reloads that are on their way are counted. *)
OnTheirWay == triggers \in Nat /\ reloads \in Nat

LEMMA SpinsInductive ==
  OnTheirWay /\ Event!SpinsOnlyAfterFailure /\ [Next]_vars
    => OnTheirWay' /\ Event!SpinsOnlyAfterFailure'
<1> SUFFICES ASSUME OnTheirWay, Event!SpinsOnlyAfterFailure, [Event!Next]_eventVars
             PROVE  OnTheirWay' /\ Event!SpinsOnlyAfterFailure'
  BY EventSteps
<1>1. CASE Event!PullToRefresh
  <2>1. triggers' = triggers + 1 /\ reloads' = reloads
    BY <1>1 DEF Event!PullToRefresh
  <2>2. triggers' > 0 /\ OnTheirWay'
    BY <2>1 DEF OnTheirWay
  <2> QED
    BY Zenon, <2>2 DEF Event!SpinsOnlyAfterFailure
<1>2. CASE Event!RefreshTrigger
  <2>1. triggers > 0 /\ triggers' = triggers - 1 /\ reloads' = reloads /\ executing'
    BY Zenon, <1>2 DEF Event!RefreshTrigger
  <2>2. OnTheirWay'
    BY <2>1 DEF OnTheirWay
  <2> QED
    BY Zenon, <2>1, <2>2 DEF Event!SpinsOnlyAfterFailure
<1>3. CASE Event!LoadFails
  BY Zenon, <1>3 DEF Event!LoadFails, Event!SpinsOnlyAfterFailure, OnTheirWay
<1>4. CASE Event!SortEnds
  <2>1. reloads' = reloads + 1 /\ triggers' = triggers
    BY Zenon, <1>4 DEF Event!SortEnds
  <2>2. reloads' > 0 /\ OnTheirWay'
    BY <2>1 DEF OnTheirWay
  <2> QED
    BY Zenon, <2>2 DEF Event!SpinsOnlyAfterFailure
<1>5. CASE Event!Reloaded
  <2>1. reloads > 0 /\ reloads' = reloads - 1 /\ triggers' = triggers /\ ~animating'
    BY Zenon, <1>5 DEF Event!Reloaded
  <2>2. OnTheirWay'
    BY <2>1 DEF OnTheirWay
  <2> QED
    BY Zenon, <2>1, <2>2 DEF Event!SpinsOnlyAfterFailure
<1>6. CASE Event!Reopen
  <2>1. triggers' = 0 /\ reloads' = 0 /\ ~animating'
    BY Zenon, <1>6 DEF Event!Reopen
  <2>2. OnTheirWay'
    BY <2>1 DEF OnTheirWay
  <2> QED
    BY Zenon, <2>1, <2>2 DEF Event!SpinsOnlyAfterFailure
<1>7. CASE UNCHANGED <<animating, triggers, executing, reloads, loadFailed>>
  BY Zenon, <1>7 DEF Event!SpinsOnlyAfterFailure, OnTheirWay
<1> QED
  BY Zenon, <1>1, <1>2, <1>3, <1>4, <1>5, <1>6, <1>7
     DEF Event!Next, Event!LoadAnswers, Event!FilterNext, Event!FilterEnds,
         Event!TimePasses, Event!loadVars, eventVars

LEMMA SpinsAlways == Spec => [](OnTheirWay /\ Event!SpinsOnlyAfterFailure)
<1>1. Event!Init => OnTheirWay
  BY DEF Event!Init, OnTheirWay
<1>2. Event!Init => Event!SpinsOnlyAfterFailure
  BY Zenon DEF Event!Init, Event!SpinsOnlyAfterFailure
<1>3. Init => OnTheirWay /\ Event!SpinsOnlyAfterFailure
  BY Zenon, <1>1, <1>2 DEF Init
<1> QED
  BY <1>3, SpinsInductive, PTL DEF Spec

(* A refresh spins with nothing on its way only after its load failed. *)
THEOREM SpinsAfterFailure == Spec => []SpinsOnlyAfterFailure
BY SpinsAlways, PTL DEF SpinsOnlyAfterFailure

-----------------------------------------------------------------------------
(* Sequences of event numbers: how often one occurs in them. *)
Once(s, i) == \E n \in DOMAIN s : \A m \in DOMAIN s : s[m] = i <=> m = n
Never(s, i) == \A n \in DOMAIN s : s[n] # i

LEMMA OnceIsOne ==
  ASSUME NEW s, NEW i, Once(s, i)
  PROVE  Cardinality({n \in DOMAIN s : s[n] = i}) = 1
<1>1. PICK n \in DOMAIN s : \A m \in DOMAIN s : s[m] = i <=> m = n
  BY DEF Once
<1>2. {m \in DOMAIN s : s[m] = i} = {n}
  BY <1>1
<1> QED
  BY <1>2, FS_Singleton

LEMMA NeverIsNone ==
  ASSUME NEW s, NEW i, Never(s, i)
  PROVE  Cardinality({n \in DOMAIN s : s[n] = i}) = 0
<1>1. {n \in DOMAIN s : s[n] = i} = {}
  BY DEF Never
<1> QED
  BY <1>1, FS_EmptySet

(* What a sequence put behind another one holds. *)
LEMMA JoinedPlaces ==
  ASSUME NEW S, NEW s \in Seq(S), NEW t \in Seq(S)
  PROVE  /\ s \o t \in Seq(S)
         /\ DOMAIN s = 1 .. Len(s) /\ DOMAIN t = 1 .. Len(t)
         /\ DOMAIN (s \o t) = 1 .. Len(s) + Len(t)
         /\ Len(s) \in Nat /\ Len(t) \in Nat
         /\ \A n \in 1 .. Len(s) : (s \o t)[n] = s[n]
         /\ \A n \in 1 .. Len(t) : (s \o t)[Len(s) + n] = t[n]
         /\ \A n \in 1 .. Len(s) + Len(t) :
              n \in 1 .. Len(s) \/ \E k \in 1 .. Len(t) : n = Len(s) + k
<1>1. /\ s \o t \in Seq(S)
      /\ Len(s \o t) = Len(s) + Len(t)
      /\ \A n \in 1 .. Len(s) + Len(t) :
           (s \o t)[n] = IF n <= Len(s) THEN s[n] ELSE t[n - Len(s)]
  BY ConcatProperties
<1>2. /\ DOMAIN s = 1 .. Len(s) /\ DOMAIN t = 1 .. Len(t)
      /\ DOMAIN (s \o t) = 1 .. Len(s \o t)
      /\ Len(s) \in Nat /\ Len(t) \in Nat
  BY <1>1, LenProperties
<1>3. \A n \in 1 .. Len(s) : (s \o t)[n] = s[n]
  BY <1>1, <1>2
<1>4. \A n \in 1 .. Len(t) : (s \o t)[Len(s) + n] = t[n]
  BY <1>1, <1>2
<1>5. \A n \in 1 .. Len(s) + Len(t) :
        n \in 1 .. Len(s) \/ \E k \in 1 .. Len(t) : n = Len(s) + k
  <2> SUFFICES ASSUME NEW n \in 1 .. Len(s) + Len(t), n \notin 1 .. Len(s)
               PROVE  \E k \in 1 .. Len(t) : n = Len(s) + k
    OBVIOUS
  <2>1. n - Len(s) \in 1 .. Len(t) /\ n = Len(s) + (n - Len(s))
    BY <1>2
  <2> QED
    BY <2>1
<1> QED
  BY <1>1, <1>2, <1>3, <1>4, <1>5

LEMMA JoinedOnce ==
  ASSUME NEW S, NEW s \in Seq(S), NEW t \in Seq(S), NEW i
  PROVE  /\ Once(s, i) /\ Never(t, i) => Once(s \o t, i)
         /\ Never(s, i) /\ Once(t, i) => Once(s \o t, i)
         /\ Never(s, i) /\ Never(t, i) => Never(s \o t, i)
<1> DEFINE j == s \o t
<1>0. /\ DOMAIN s = 1 .. Len(s) /\ DOMAIN t = 1 .. Len(t)
      /\ DOMAIN j = 1 .. Len(s) + Len(t)
      /\ Len(s) \in Nat /\ Len(t) \in Nat
      /\ \A n \in 1 .. Len(s) : j[n] = s[n]
      /\ \A n \in 1 .. Len(t) : j[Len(s) + n] = t[n]
      /\ \A n \in 1 .. Len(s) + Len(t) :
           n \in 1 .. Len(s) \/ \E k \in 1 .. Len(t) : n = Len(s) + k
  BY JoinedPlaces
<1> HIDE DEF j
<1>1. ASSUME Once(s, i), Never(t, i) PROVE Once(j, i)
  <2>1. PICK n \in DOMAIN s : \A m \in DOMAIN s : s[m] = i <=> m = n
    BY Zenon, <1>1 DEF Once
  <2>2. \A m \in 1 .. Len(t) : t[m] # i
    BY Zenon, <1>0, <1>1 DEF Never
  <2>3. n \in DOMAIN j
    BY <1>0
  <2>4. ASSUME NEW m \in DOMAIN j PROVE j[m] = i <=> m = n
    <3>1. CASE m \in 1 .. Len(s)
      BY <1>0, <2>1, <3>1
    <3>2. ASSUME NEW k \in 1 .. Len(t), m = Len(s) + k PROVE j[m] = i <=> m = n
      BY <1>0, <2>2, <3>2
    <3> QED
      BY <1>0, <3>1, <3>2
  <2> QED
    BY <2>3, <2>4 DEF Once
<1>2. ASSUME Never(s, i), Once(t, i) PROVE Once(j, i)
  <2>1. PICK n \in DOMAIN t : \A m \in DOMAIN t : t[m] = i <=> m = n
    BY Zenon, <1>2 DEF Once
  <2>2. \A m \in 1 .. Len(s) : s[m] # i
    BY Zenon, <1>0, <1>2 DEF Never
  <2>3. Len(s) + n \in DOMAIN j
    BY <1>0
  <2>4. ASSUME NEW m \in DOMAIN j PROVE j[m] = i <=> m = Len(s) + n
    <3>1. CASE m \in 1 .. Len(s)
      BY <1>0, <2>2, <3>1
    <3>2. ASSUME NEW k \in 1 .. Len(t), m = Len(s) + k PROVE j[m] = i <=> m = Len(s) + n
      BY <1>0, <2>1, <3>2
    <3> QED
      BY <1>0, <3>1, <3>2
  <2> QED
    BY <2>3, <2>4 DEF Once
<1>3. ASSUME Never(s, i), Never(t, i) PROVE Never(j, i)
  BY <1>0, <1>3 DEF Never
<1> QED
  BY <1>1, <1>2, <1>3 DEF j

(* The list's module counts with the same operator. *)
LEMMA SameCardinality == \A S : Event!Cardinality(S) = Cardinality(S)
BY Zenon DEF Event!Cardinality, Cardinality

(* sorted(by:) returns each of the elements it was given once, in order. *)
LEMMA SortedOnce ==
  ASSUME NEW S, IsFiniteSet(S), NEW s \in Event!Sorted(S)
  PROVE  /\ s \in Seq(S)
         /\ \A i \in S : Once(s, i)
         /\ \A m, n \in DOMAIN s : m < n => ~Event!SortFuc(events[s[n]], events[s[m]])
<1> DEFINE c == Cardinality(S)
<1>1. c \in Nat
  BY FS_CardinalityType
<1>2. /\ s \in [1 .. c -> S]
      /\ \A i \in S : \E n \in DOMAIN s : s[n] = i
      /\ \A m, n \in DOMAIN s : m < n => ~Event!SortFuc(events[s[n]], events[s[m]])
  BY SameCardinality DEF Event!Sorted
<1>3. IsFiniteSet(1 .. c) /\ Cardinality(1 .. c) = c
  BY <1>1, FS_Interval
<1>4. s \in Surjection(1 .. c, S)
  BY <1>2 DEF Surjection
<1>5. s \in Injection(1 .. c, S)
  <2> HIDE DEF c
  <2> QED
    BY <1>3, <1>4, FS_SurjSameCardinalityImpliesInj DEF c
<1>6. \A m, n \in 1 .. c : s[m] = s[n] => m = n
  BY <1>5 DEF Injection, IsInjective
<1>7. s \in Seq(S)
  BY <1>1, <1>2
<1> HIDE DEF c
<1>8. ASSUME NEW i \in S PROVE Once(s, i)
  BY <1>2, <1>6 DEF Once
<1> QED
  BY <1>2, <1>7, <1>8

-----------------------------------------------------------------------------
(* The clock of the list of events only goes on. *)
EventClock ==
  /\ now \in Event!Clock
  /\ began \in Event!Clock
  /\ began <= now

EventLoad ==
  /\ executing \in BOOLEAN
  /\ animating \in BOOLEAN
  /\ loadFailed \in BOOLEAN

(* The events of the answer that are to be shown: no other is in the list,  *)
(* or on its way into it.                                                   *)
Shown == Event!ShowList(events)

EventSort ==
  /\ events \in Seq(Event!Event)
  /\ pass \in {"none", "fixed", "running", "unfixed", "ended"}
  /\ rest \in SUBSET Shown
  /\ kept \in SUBSET Shown
  /\ list \in Seq(Shown)
  /\ rest \cap kept = {}
  /\ pass = "none" => rest = {} /\ kept = {}

(* The group an event was to be put in when the sorting began. *)
Wanted(i) == Event!Group(events[i], began)

(* The last group that is in the list already, and those whose events the   *)
(* filter that is running lets pass.                                        *)
GroupsDone(p) == IF p = "fixed" THEN 0 ELSE IF p = "ended" THEN 2 ELSE 1

GroupsPass(p) ==
  IF p = "fixed" THEN {1}
  ELSE IF p = "running" THEN {1, 2}
  ELSE IF p = "unfixed" THEN {2} ELSE {3}

(* Where a steady event is, in the middle of the sorting: in the list, if   *)
(* its group is done; among those that were let pass, if it was asked and   *)
(* is of a group the filter is for.  The filter after the running events    *)
(* asks these only.                                                         *)
Placed(i) ==
  /\ Wanted(i) <= GroupsDone(pass) => Once(list, i)
  /\ Wanted(i) > GroupsDone(pass) => Never(list, i)
  /\ i \in rest \/ (i \in kept <=> Wanted(i) \in GroupsPass(pass))
  /\ pass = "unfixed" /\ Wanted(i) = 3 => i \notin rest

AllPlaced == pass # "none" => \A i \in Shown : Event!Steady(i) => Placed(i)

(* The order of the code, which has the latest stop first among the events  *)
(* of a group that start together.                                          *)
CodePrecedes(e, f, t) ==
  \/ Event!Group(e, t) < Event!Group(f, t)
  \/ /\ Event!Group(e, t) = Event!Group(f, t)
     /\ \/ e.startAt > f.startAt
        \/ e.startAt = f.startAt /\ e.stopAt >= f.stopAt

(* The steady events of a list are in that order. *)
InOrder(s) ==
  \A m, n \in DOMAIN s :
    m < n /\ Event!Steady(s[m]) /\ Event!Steady(s[n])
      => CodePrecedes(events[s[m]], events[s[n]], began)

ListInOrder == pass # "none" => InOrder(list)

LEMMA WantedGroups == \A i : Wanted(i) \in {1, 2, 3}
BY DEF Wanted, Event!Group

LEMMA ShownEvents ==
  ASSUME EventSort, NEW i \in Shown
  PROVE  /\ i \in DOMAIN events
         /\ events[i] \in Event!Event
         /\ events[i].startAt \in Nat /\ events[i].stopAt \in Nat
         /\ events[i].is_fixed \in BOOLEAN
         /\ events[i].show
<1>1. i \in DOMAIN events /\ events[i].show
  BY DEF Shown, Event!ShowList
<1>2. events[i] \in Event!Event
  BY <1>1 DEF EventSort
<1> QED
  BY <1>1, <1>2, EventsAssumption DEF Event!Event

(* A steady event is of the same group now. *)
LEMMA SteadyNow ==
  ASSUME EventClock, NEW i, Event!Steady(i)
  PROVE  Event!Group(events[i], now) = Wanted(i)
<1>1. now \in began .. now
  BY EventsAssumption DEF EventClock, Event!Clock
<1> QED
  BY <1>1 DEF Event!Steady, Wanted

(* What the filters ask, for the group an event is of. *)
LEMMA GroupPasses ==
  ASSUME NEW e, e.is_fixed \in BOOLEAN, pass # "none", EventSort
  PROVE  Event!Passes(e) <=> \/ Event!Group(e, now) \in GroupsPass(pass)
                             \/ pass = "unfixed" /\ Event!Group(e, now) = 3
<1> DEFINE r == Event!IsRunningEvent(e, now)
           g == Event!Group(e, now)
<1>1. /\ g = 1 <=> r /\ e.is_fixed
      /\ g = 2 <=> r /\ ~e.is_fixed
      /\ g = 3 <=> ~r
      /\ g \in {1, 2, 3}
  BY DEF Event!Group, Event!IsRunningEvent
<1>2. Event!IsFixedEvent(e, now) <=> r /\ e.is_fixed
  BY DEF Event!IsFixedEvent
<1> HIDE DEF r, g
<1>3. CASE pass = "fixed"
  <2>1. Event!Passes(e) <=> Event!IsFixedEvent(e, now)
    BY <1>3 DEF Event!Passes
  <2>2. GroupsPass(pass) = {1}
    BY <1>3 DEF GroupsPass
  <2> QED
    BY <1>1, <1>2, <1>3, <2>1, <2>2 DEF g
<1>4. CASE pass = "running"
  <2>1. Event!Passes(e) <=> Event!IsRunningEvent(e, now)
    BY <1>4 DEF Event!Passes
  <2>2. GroupsPass(pass) = {1, 2}
    BY <1>4 DEF GroupsPass
  <2> QED
    BY <1>1, <1>4, <2>1, <2>2 DEF g, r
<1>5. CASE pass = "unfixed"
  <2>1. Event!Passes(e) <=> ~Event!IsFixedEvent(e, now)
    BY <1>5 DEF Event!Passes
  <2>2. GroupsPass(pass) = {2}
    BY <1>5 DEF GroupsPass
  <2> QED
    BY <1>1, <1>2, <1>5, <2>1, <2>2 DEF g
<1>6. CASE pass = "ended"
  <2>1. Event!Passes(e) <=> ~Event!IsRunningEvent(e, now)
    BY <1>6 DEF Event!Passes
  <2>2. GroupsPass(pass) = {3}
    BY <1>6 DEF GroupsPass
  <2> QED
    BY <1>1, <1>6, <2>1, <2>2 DEF g, r
<1> QED
  BY <1>3, <1>4, <1>5, <1>6 DEF EventSort

(* The group that a filter's results become is behind what is in the list:  *)
(* the events of the list it makes, and their order.                        *)
LEMMA GroupJoins ==
  ASSUME EventClock, EventSort, AllPlaced, ListInOrder,
         pass \in {"fixed", "unfixed", "ended"}, rest = {},
         NEW s \in Event!Sorted(kept)
  PROVE  /\ list \o s \in Seq(Shown)
         /\ \A i \in Shown :
              Event!Steady(i)
                => IF Wanted(i) <= GroupsDone(pass) \/ Wanted(i) \in GroupsPass(pass)
                   THEN Once(list \o s, i)
                   ELSE Never(list \o s, i)
         /\ InOrder(list \o s)
<1>1. IsFiniteSet(kept)
  <2>1. kept \in SUBSET (1 .. Len(events)) /\ Len(events) \in Nat
    BY DEF EventSort, Shown, Event!ShowList
  <2>2. IsFiniteSet(1 .. Len(events))
    BY <2>1, FS_Interval
  <2> QED
    BY <2>1, <2>2, FS_Subset
<1>2. /\ s \in Seq(kept)
      /\ \A i \in kept : Once(s, i)
      /\ \A m, n \in DOMAIN s : m < n => ~Event!SortFuc(events[s[n]], events[s[m]])
  BY <1>1, SortedOnce
<1>3. list \in Seq(Shown) /\ s \in Seq(Shown)
  BY <1>2 DEF EventSort
<1>4. /\ list \o s \in Seq(Shown)
      /\ DOMAIN list = 1 .. Len(list) /\ DOMAIN s = 1 .. Len(s)
      /\ DOMAIN (list \o s) = 1 .. Len(list) + Len(s)
      /\ Len(list) \in Nat /\ Len(s) \in Nat
      /\ \A n \in 1 .. Len(list) : (list \o s)[n] = list[n]
      /\ \A n \in 1 .. Len(s) : (list \o s)[Len(list) + n] = s[n]
      /\ \A n \in 1 .. Len(list) + Len(s) :
           n \in 1 .. Len(list) \/ \E k \in 1 .. Len(s) : n = Len(list) + k
  BY <1>3, JoinedPlaces
<1>5. /\ \A n \in DOMAIN list : list[n] \in Shown
      /\ \A n \in DOMAIN s : s[n] \in kept
      /\ kept \subseteq Shown
  BY <1>2, <1>3, <1>4 DEF EventSort
<1>6. \A i : i \notin kept => Never(s, i)
  BY Zenon, <1>5 DEF Never
<1>7. ASSUME NEW i \in Shown, Event!Steady(i)
      PROVE  /\ Wanted(i) <= GroupsDone(pass) => Once(list, i)
             /\ Wanted(i) > GroupsDone(pass) => Never(list, i)
             /\ i \in kept <=> Wanted(i) \in GroupsPass(pass)
  BY Zenon, <1>7 DEF AllPlaced, Placed
<1>8. /\ \A i : Wanted(i) \in {1, 2, 3}
      /\ GroupsDone(pass) \in {0, 1, 2}
      /\ GroupsPass(pass) = {GroupsDone(pass) + 1}
  BY WantedGroups DEF GroupsDone, GroupsPass
<1>9. ASSUME NEW i \in Shown, Event!Steady(i)
      PROVE  IF Wanted(i) <= GroupsDone(pass) \/ Wanted(i) \in GroupsPass(pass)
             THEN Once(list \o s, i)
             ELSE Never(list \o s, i)
  <2>1. CASE Wanted(i) <= GroupsDone(pass)
    <3>1. Wanted(i) \notin GroupsPass(pass)
      BY <1>8, <2>1
    <3>2. Once(list, i) /\ Never(s, i)
      BY Zenon, <1>6, <1>7, <1>9, <2>1, <3>1
    <3> QED
      BY Zenon, <1>3, <2>1, <3>2, JoinedOnce
  <2>2. CASE Wanted(i) \in GroupsPass(pass)
    <3>1. Wanted(i) > GroupsDone(pass)
      BY <1>8, <2>2
    <3>2. Never(list, i) /\ Once(s, i)
      BY Zenon, <1>2, <1>7, <1>9, <2>2, <3>1
    <3> QED
      BY Zenon, <1>3, <2>2, <3>2, JoinedOnce
  <2>3. CASE ~(Wanted(i) <= GroupsDone(pass)) /\ Wanted(i) \notin GroupsPass(pass)
    <3>1. Wanted(i) > GroupsDone(pass)
      BY <1>8, <2>3
    <3>2. Never(list, i) /\ Never(s, i)
      BY Zenon, <1>6, <1>7, <1>9, <2>3, <3>1
    <3> QED
      BY Zenon, <1>3, <2>3, <3>2, JoinedOnce
  <2> QED
    BY Zenon, <2>1, <2>2, <2>3
<1>10. InOrder(list \o s)
  <2> DEFINE j == list \o s
  <2> SUFFICES ASSUME NEW m \in DOMAIN j, NEW n \in DOMAIN j, m < n,
                      Event!Steady(j[m]), Event!Steady(j[n])
               PROVE  CodePrecedes(events[j[m]], events[j[n]], began)
    BY Zenon DEF InOrder
  <2>1. CASE m \in 1 .. Len(list) /\ n \in 1 .. Len(list)
    <3>1. j[m] = list[m] /\ j[n] = list[n]
      BY Zenon, <1>4, <2>1
    <3>2. m \in DOMAIN list /\ n \in DOMAIN list
      BY Zenon, <1>4, <2>1
    <3>3. InOrder(list)
      BY DEF ListInOrder
    <3> HIDE DEF j
    <3> QED
      BY Zenon, <3>1, <3>2, <3>3 DEF InOrder
  <2>2. ASSUME NEW k \in 1 .. Len(s), n = Len(list) + k, m \in 1 .. Len(list)
        PROVE  CodePrecedes(events[j[m]], events[j[n]], began)
    <3>1. /\ j[m] = list[m] /\ j[n] = s[k]
          /\ list[m] \in Shown /\ s[k] \in kept /\ s[k] \in Shown
      BY Zenon, <1>4, <1>5, <2>2
    <3>2. Wanted(s[k]) \in GroupsPass(pass)
      BY Zenon, <1>7, <3>1
    <3>3. ~(Wanted(list[m]) > GroupsDone(pass))
      <4>1. ~Never(list, list[m])
        BY Zenon, <1>4, <2>2 DEF Never
      <4> QED
        BY Zenon, <1>7, <3>1, <4>1
    <3>4. Wanted(list[m]) < Wanted(s[k])
      <4>1. Wanted(list[m]) \in Int /\ Wanted(s[k]) \in Int
        BY <1>8
      <4> QED
        BY <1>8, <3>2, <3>3, <4>1
    <3> HIDE DEF j
    <3> QED
      BY Zenon, <3>1, <3>4 DEF Wanted, CodePrecedes
  <2>3. ASSUME NEW k \in 1 .. Len(s), n = Len(list) + k,
               NEW l \in 1 .. Len(s), m = Len(list) + l
        PROVE  CodePrecedes(events[j[m]], events[j[n]], began)
    <3>1. /\ j[m] = s[l] /\ j[n] = s[k]
          /\ s[k] \in kept /\ s[k] \in Shown
          /\ s[l] \in kept /\ s[l] \in Shown
      BY Zenon, <1>4, <1>5, <2>3
    <3>2. Wanted(s[k]) \in GroupsPass(pass) /\ Wanted(s[l]) \in GroupsPass(pass)
      BY Zenon, <1>7, <3>1
    <3>3. Wanted(s[l]) = Wanted(s[k])
      BY <1>8, <3>2
    <3>4. l < k
      BY <1>4, <2>3
    <3>5. ~Event!SortFuc(events[s[k]], events[s[l]])
      BY Zenon, <1>2, <1>4, <3>4
    <3>6. /\ events[s[k]].startAt \in Nat /\ events[s[k]].stopAt \in Nat
          /\ events[s[l]].startAt \in Nat /\ events[s[l]].stopAt \in Nat
      BY Zenon, <3>1, ShownEvents
    <3>7. \/ events[s[l]].startAt > events[s[k]].startAt
          \/ /\ events[s[l]].startAt = events[s[k]].startAt
             /\ events[s[l]].stopAt >= events[s[k]].stopAt
      BY <3>5, <3>6 DEF Event!SortFuc
    <3> HIDE DEF j
    <3> QED
      BY Zenon, <3>1, <3>3, <3>7 DEF Wanted, CodePrecedes
  <2>4. CASE m \notin 1 .. Len(list) /\ n \in 1 .. Len(list)
    BY <1>4, <2>4
  <2> QED
    BY Zenon, <1>4, <2>1, <2>2, <2>3, <2>4
<1> QED
  BY Zenon, <1>4, <1>9, <1>10

-----------------------------------------------------------------------------
LEMMA EventClockInductive == EventClock /\ [Next]_vars => EventClock'
<1> SUFFICES ASSUME EventClock, [Event!Next]_eventVars PROVE EventClock'
  BY EventSteps
<1>0. Horizon \in Nat
  BY EventsAssumption
<1>1. CASE Event!LoadAnswers
  BY <1>0, <1>1 DEF Event!LoadAnswers, EventClock, Event!Clock
<1>2. CASE Event!Reopen
  BY <1>0, <1>2 DEF Event!Reopen, EventClock, Event!Clock
<1>3. CASE Event!TimePasses
  <2>1. now < Horizon /\ now' = now + 1 /\ began' = began
    BY Zenon, <1>3 DEF Event!TimePasses, Event!sortVars
  <2> QED
    BY <1>0, <2>1 DEF EventClock, Event!Clock
<1>4. CASE UNCHANGED <<now, began>>
  BY <1>4 DEF EventClock
<1> QED
  BY Zenon, <1>1, <1>2, <1>3, <1>4
     DEF Event!Next, Event!PullToRefresh, Event!RefreshTrigger, Event!LoadFails,
         Event!FilterNext, Event!FilterEnds, Event!SortEnds, Event!Reloaded,
         Event!sortVars, eventVars

LEMMA EventLoadInductive == EventLoad /\ [Next]_vars => EventLoad'
<1> SUFFICES ASSUME EventLoad, [Event!Next]_eventVars PROVE EventLoad'
  BY EventSteps
<1>1. CASE Event!PullToRefresh
  BY Zenon, <1>1 DEF Event!PullToRefresh, EventLoad
<1>2. CASE Event!RefreshTrigger
  BY Zenon, <1>2 DEF Event!RefreshTrigger, EventLoad
<1>3. CASE Event!LoadFails
  BY Zenon, <1>3 DEF Event!LoadFails, EventLoad
<1>4. CASE Event!SortEnds
  BY Zenon, <1>4 DEF Event!SortEnds, EventLoad
<1>5. CASE Event!Reloaded
  BY Zenon, <1>5 DEF Event!Reloaded, EventLoad
<1>6. CASE Event!Reopen
  BY Zenon, <1>6 DEF Event!Reopen, EventLoad
<1>7. CASE UNCHANGED <<executing, animating, loadFailed>>
  BY Zenon, <1>7 DEF EventLoad
<1> QED
  BY Zenon, <1>1, <1>2, <1>3, <1>4, <1>5, <1>6, <1>7
     DEF Event!Next, Event!LoadAnswers, Event!FilterNext, Event!FilterEnds,
         Event!TimePasses, Event!loadVars, eventVars

(* While one answer is sorted, an event that is steady still was so before. *)
LEMMA SortingGoesOn ==
  ASSUME EventClock, EventClock', now <= now', UNCHANGED <<events, began>>
  PROVE  /\ Shown' = Shown
         /\ \A i : Event!Steady(i)' => Event!Steady(i)
         /\ \A i : Wanted(i)' = Wanted(i)
<1>1. Shown' = Shown
  BY Zenon DEF Shown, Event!ShowList
<1>2. ASSUME NEW i, Event!Steady(i)' PROVE Event!Steady(i)
  <2>1. began .. now \subseteq began .. now'
    BY EventsAssumption DEF EventClock, Event!Clock
  <2>2. \A t \in began .. now' : Event!Group(events[i], t) = Event!Group(events[i], began)
    BY Zenon, <1>2 DEF Event!Steady, Event!Group, Event!IsRunningEvent
  <2> QED
    BY Zenon, <2>1, <2>2 DEF Event!Steady
<1>3. ASSUME NEW i PROVE Wanted(i)' = Wanted(i)
  BY Zenon DEF Wanted, Event!Group, Event!IsRunningEvent
<1> QED
  BY Zenon, <1>1, <1>2, <1>3

LEMMA OrderGoesOn ==
  ASSUME EventClock, EventClock', now <= now', UNCHANGED <<events, began>>, InOrder(list')
  PROVE  InOrder(list)'
<1>1. SUFFICES ASSUME NEW m \in DOMAIN list', NEW n \in DOMAIN list', m < n,
                      Event!Steady(list[m])', Event!Steady(list[n])'
               PROVE  CodePrecedes(events[list[m]], events[list[n]], began)'
  BY Zenon DEF InOrder
<1>2. began .. now \subseteq began .. now'
  BY EventsAssumption DEF EventClock, Event!Clock
<1>3. ASSUME NEW k \in {m, n} PROVE Event!Steady(list'[k])
  <2>1. Event!Steady(list[k])'
    BY Zenon, <1>1, <1>3
  <2> QED
    BY Zenon, <1>2, <2>1 DEF Event!Steady, Event!Group, Event!IsRunningEvent
<1>4. CodePrecedes(events[list'[m]], events[list'[n]], began)
  BY Zenon, <1>1, <1>3 DEF InOrder
<1> QED
  BY Zenon, <1>4 DEF CodePrecedes, Event!Group, Event!IsRunningEvent

EventSorted == EventSort /\ AllPlaced /\ ListInOrder

(* Time goes on, or nothing happens to the sorting. *)
LEMMA SortingWaits ==
  ASSUME EventClock, EventClock', EventSorted, now <= now',
         UNCHANGED <<events, pass, rest, kept, list, began>>
  PROVE  EventSorted'
<1>1. /\ Shown' = Shown
      /\ \A i : Event!Steady(i)' => Event!Steady(i)
      /\ \A i : Wanted(i)' = Wanted(i)
  BY SortingGoesOn
<1>2. EventSort'
  BY Zenon, <1>1 DEF EventSorted, EventSort
<1>3. AllPlaced'
  BY Zenon, <1>1 DEF EventSorted, AllPlaced, Placed
<1>4. ListInOrder'
  BY Zenon, <1>1, OrderGoesOn DEF EventSorted, ListInOrder
<1> QED
  BY Zenon, <1>2, <1>3, <1>4 DEF EventSorted

(* An answer arrives: no event was asked, none is in the list. *)
LEMMA AnswerIsUnsorted ==
  ASSUME EventClock, Event!LoadAnswers
  PROVE  EventSorted'
<1>1. /\ events' \in Event!Answers /\ pass' = "fixed" /\ kept' = {} /\ list' = <<>>
      /\ rest' = Shown'
  BY Zenon DEF Event!LoadAnswers, Shown
<1>2. events' \in Seq(Event!Event)
  BY <1>1 DEF Event!Answers
<1>3. list' \in Seq(Shown') /\ DOMAIN list' = {}
  BY <1>1
<1>4. EventSort'
  BY <1>1, <1>2, <1>3 DEF EventSort
<1>5. ASSUME NEW i \in Shown' PROVE Placed(i)'
  <2>1. ~(Wanted(i)' <= GroupsDone("fixed"))
    BY DEF GroupsDone, Wanted, Event!Group
  <2>2. Never(list', i)
    BY <1>3 DEF Never
  <2>3. i \in rest' /\ pass' # "unfixed"
    BY <1>1
  <2> QED
    BY Zenon, <1>1, <2>1, <2>2, <2>3 DEF Placed
<1>6. InOrder(list)'
  BY Zenon, <1>3 DEF InOrder
<1> QED
  BY Zenon, <1>4, <1>5, <1>6 DEF EventSorted, AllPlaced, ListInOrder

(* One more event is asked. *)
LEMMA AskedIsPlaced ==
  ASSUME EventClock, EventClock', EventSorted, Event!FilterNext
  PROVE  EventSorted'
<1>1. PICK i \in rest :
        /\ rest' = rest \ {i}
        /\ \/ Event!Passes(events[i]) /\ kept' = kept \cup {i}
           \/ ~Event!Passes(events[i]) /\ UNCHANGED kept
  BY Zenon DEF Event!FilterNext
<1>2. UNCHANGED <<now, events, pass, list, began>>
  BY Zenon DEF Event!FilterNext
<1>3. now <= now'
  BY <1>2, EventsAssumption DEF EventClock, Event!Clock
<1>4. /\ Shown' = Shown
      /\ \A k : Event!Steady(k)' => Event!Steady(k)
      /\ \A k : Wanted(k)' = Wanted(k)
  BY Zenon, <1>2, <1>3, SortingGoesOn
<1>5. /\ rest \subseteq Shown /\ kept \subseteq Shown /\ rest \cap kept = {}
      /\ pass # "none" /\ i \in Shown
  BY <1>1 DEF EventSorted, EventSort
<1>6. EventSort'
  <2>1. rest' \subseteq Shown /\ kept' \subseteq Shown /\ rest' \cap kept' = {} /\ pass' # "none"
    BY <1>1, <1>2, <1>5
  <2> QED
    BY Zenon, <1>2, <1>4, <2>1 DEF EventSorted, EventSort
<1>7. ASSUME NEW k \in Shown', Event!Steady(k)' PROVE Placed(k)'
  <2>1. k \in Shown /\ Event!Steady(k) /\ Wanted(k)' = Wanted(k)
    BY Zenon, <1>4, <1>7
  <2>2. Placed(k)
    BY Zenon, <1>5, <2>1 DEF EventSorted, AllPlaced
  <2>3. CASE k # i
    <3>1. (k \in rest' <=> k \in rest) /\ (k \in kept' <=> k \in kept)
      BY <1>1, <2>3
    <3> QED
      BY Zenon, <1>2, <2>1, <2>2, <3>1 DEF Placed
  <2>4. CASE k = i
    <3>1. k \notin rest' /\ (k \in kept' <=> Event!Passes(events[k]))
      BY <1>1, <1>5, <2>4
    <3>2. Event!Group(events[k], now) = Wanted(k)
      BY Zenon, <2>1, SteadyNow
    <3>3. events[k].is_fixed \in BOOLEAN
      BY Zenon, <2>1, ShownEvents DEF EventSorted
    <3>4. Event!Passes(events[k])
            <=> \/ Wanted(k) \in GroupsPass(pass)
                \/ pass = "unfixed" /\ Wanted(k) = 3
      <4>1. EventSort /\ pass # "none"
        BY Zenon, <1>5 DEF EventSorted
      <4>2. Event!Passes(events[k])
              <=> \/ Event!Group(events[k], now) \in GroupsPass(pass)
                  \/ pass = "unfixed" /\ Event!Group(events[k], now) = 3
        BY <3>3, <4>1, GroupPasses
      <4> QED
        BY <3>2, <4>2
    <3>5. ~(pass = "unfixed" /\ Wanted(k) = 3)
      BY Zenon, <1>1, <2>2, <2>4 DEF Placed
    <3> QED
      BY Zenon, <1>2, <2>1, <2>2, <3>1, <3>4, <3>5 DEF Placed
  <2> QED
    BY <2>3, <2>4
<1>8. InOrder(list)'
  BY Zenon, <1>2, <1>3, <1>5, OrderGoesOn DEF EventSorted, ListInOrder
<1> QED
  BY Zenon, <1>6, <1>7, <1>8 DEF EventSorted, AllPlaced, ListInOrder

(* The running events are known: those of them that are fixed are left out  *)
(* next.                                                                    *)
LEMMA RunningEnds ==
  ASSUME EventClock, EventClock', EventSorted, Event!FilterEnds("running", "unfixed"),
         UNCHANGED now
  PROVE  EventSorted'
<1>1. /\ pass = "running" /\ rest = {} /\ pass' = "unfixed" /\ kept' = {}
      /\ rest' = kept /\ list' = list /\ events' = events /\ began' = began
  BY DEF Event!FilterEnds
<1>2. now <= now'
  BY EventsAssumption DEF EventClock, Event!Clock
<1>3. /\ Shown' = Shown
      /\ \A k : Event!Steady(k)' => Event!Steady(k)
      /\ \A k : Wanted(k)' = Wanted(k)
  BY Zenon, <1>1, <1>2, SortingGoesOn
<1>4. EventSort'
  <2>1. kept' \subseteq Shown /\ rest' \cap kept' = {} /\ pass' # "none"
    BY <1>1
  <2>2. pass' \in {"none", "fixed", "running", "unfixed", "ended"}
    BY <1>1
  <2> QED
    BY Zenon, <1>1, <1>3, <2>1, <2>2 DEF EventSorted, EventSort
<1>5. ASSUME NEW k \in Shown', Event!Steady(k)' PROVE Placed(k)'
  <2>1. k \in Shown /\ Event!Steady(k) /\ Wanted(k)' = Wanted(k)
    BY Zenon, <1>3, <1>5
  <2>2. Placed(k)
    BY <1>1, <2>1 DEF EventSorted, AllPlaced
  <2>3. /\ GroupsDone(pass) = 1 /\ GroupsPass(pass) = {1, 2}
        /\ GroupsDone(pass') = 1 /\ GroupsPass(pass') = {2}
    BY <1>1 DEF GroupsDone, GroupsPass
  <2>4. k \in kept <=> Wanted(k) \in {1, 2}
    BY <1>1, <2>2, <2>3 DEF Placed
  <2>5. k \in rest' \/ (k \in kept' <=> Wanted(k) \in GroupsPass(pass'))
    BY <1>1, <2>3, <2>4
  <2>6. Wanted(k) = 3 => k \notin rest'
    BY <1>1, <2>4
  <2> QED
    BY Zenon, <1>1, <2>1, <2>2, <2>3, <2>5, <2>6 DEF Placed
<1>6. InOrder(list)'
  <2>1. pass # "none"
    BY <1>1
  <2> QED
    BY Zenon, <1>1, <1>2, <2>1, OrderGoesOn DEF EventSorted, ListInOrder
<1> QED
  BY Zenon, <1>4, <1>5, <1>6 DEF EventSorted, AllPlaced, ListInOrder

(* Fixed events, or those that run and are not fixed, become a group. *)
LEMMA GroupEnds ==
  ASSUME EventClock, EventClock', EventSorted, UNCHANGED now,
         \/ Event!FilterEnds("fixed", "running")
         \/ Event!FilterEnds("unfixed", "ended")
  PROVE  EventSorted'
<1>1. /\ \/ pass = "fixed" /\ pass' = "running"
         \/ pass = "unfixed" /\ pass' = "ended"
      /\ rest = {} /\ kept' = {} /\ rest' = Shown /\ events' = events /\ began' = began
      /\ \E s \in Event!Sorted(kept) : list' = list \o s
  BY DEF Event!FilterEnds, Shown
<1>2. PICK s \in Event!Sorted(kept) : list' = list \o s
  BY <1>1
<1>3. now <= now'
  BY EventsAssumption DEF EventClock, Event!Clock
<1>4. /\ Shown' = Shown
      /\ \A k : Event!Steady(k)' => Event!Steady(k)
      /\ \A k : Wanted(k)' = Wanted(k)
  BY Zenon, <1>1, <1>3, SortingGoesOn
<1>5. /\ list' \in Seq(Shown)
      /\ \A i \in Shown :
           Event!Steady(i)
             => IF Wanted(i) <= GroupsDone(pass) \/ Wanted(i) \in GroupsPass(pass)
                THEN Once(list', i)
                ELSE Never(list', i)
      /\ InOrder(list')
  <2>1. pass \in {"fixed", "unfixed", "ended"}
    BY <1>1
  <2> QED
    BY Zenon, <1>1, <1>2, <2>1, GroupJoins DEF EventSorted
<1>6. EventSort'
  <2>1. kept' \subseteq Shown /\ rest' \cap kept' = {} /\ pass' # "none" /\ rest' \subseteq Shown
    BY <1>1
  <2>2. pass' \in {"none", "fixed", "running", "unfixed", "ended"}
    BY <1>1
  <2> QED
    BY Zenon, <1>1, <1>4, <1>5, <2>1, <2>2 DEF EventSorted, EventSort
<1>7. ASSUME NEW k \in Shown', Event!Steady(k)' PROVE Placed(k)'
  <2>1. k \in Shown /\ Event!Steady(k) /\ Wanted(k)' = Wanted(k)
    BY Zenon, <1>4, <1>7
  <2>2. Wanted(k) \in {1, 2, 3}
    BY WantedGroups
  <2>3. /\ Wanted(k) <= GroupsDone(pass') <=>
             Wanted(k) <= GroupsDone(pass) \/ Wanted(k) \in GroupsPass(pass)
        /\ Wanted(k) > GroupsDone(pass') <=> ~(Wanted(k) <= GroupsDone(pass'))
    BY <1>1, <2>2 DEF GroupsDone, GroupsPass
  <2>4. /\ Wanted(k) <= GroupsDone(pass') => Once(list', k)
        /\ Wanted(k) > GroupsDone(pass') => Never(list', k)
    BY Zenon, <1>5, <2>1, <2>3
  <2>5. k \in rest' /\ pass' # "unfixed"
    BY <1>1, <2>1
  <2> QED
    BY Zenon, <2>1, <2>4, <2>5 DEF Placed
<1>8. InOrder(list)'
  BY Zenon, <1>1, <1>3, <1>5, OrderGoesOn
<1> QED
  BY Zenon, <1>6, <1>7, <1>8 DEF EventSorted, AllPlaced, ListInOrder

(* The last group joins: what the finished list holds. *)
LEMMA SortedList ==
  ASSUME EventClock, EventSorted, Event!SortEnds
  PROVE  /\ list' \in Seq(Shown)
         /\ \A i \in Shown : Event!Steady(i) => Once(list', i)
         /\ InOrder(list')
<1>1. /\ pass = "ended" /\ rest = {}
      /\ \E s \in Event!Sorted(kept) : list' = list \o s
  BY Zenon DEF Event!SortEnds
<1>2. PICK s \in Event!Sorted(kept) : list' = list \o s
  BY <1>1
<1>3. /\ list' \in Seq(Shown)
      /\ \A i \in Shown :
           Event!Steady(i)
             => IF Wanted(i) <= GroupsDone(pass) \/ Wanted(i) \in GroupsPass(pass)
                THEN Once(list', i)
                ELSE Never(list', i)
      /\ InOrder(list')
  <2>1. pass \in {"fixed", "unfixed", "ended"}
    BY <1>1
  <2> QED
    BY Zenon, <1>1, <1>2, <2>1, GroupJoins DEF EventSorted
<1>4. \A i : Wanted(i) <= GroupsDone(pass) \/ Wanted(i) \in GroupsPass(pass)
  BY <1>1, WantedGroups DEF GroupsDone, GroupsPass
<1> QED
  BY Zenon, <1>3, <1>4

LEMMA SortingEnds ==
  ASSUME EventClock, EventSorted, Event!SortEnds
  PROVE  EventSorted'
<1>1. /\ pass' = "none" /\ kept' = {} /\ rest' = {} /\ events' = events
  BY Zenon DEF Event!SortEnds
<1>2. Shown' = Shown
  BY Zenon, <1>1 DEF Shown, Event!ShowList
<1>3. list' \in Seq(Shown)
  BY SortedList
<1>4. EventSort'
  <2>1. /\ rest' \subseteq Shown' /\ kept' \subseteq Shown' /\ rest' \cap kept' = {}
        /\ pass' \in {"none", "fixed", "running", "unfixed", "ended"}
    BY <1>1
  <2> QED
    BY Zenon, <1>1, <1>2, <1>3, <2>1 DEF EventSorted, EventSort
<1> QED
  BY Zenon, <1>1, <1>4 DEF EventSorted, AllPlaced, ListInOrder

LEMMA NothingSorted ==
  events = <<>> /\ pass = "none" /\ rest = {} /\ kept = {} /\ list = <<>> => EventSorted
<1> SUFFICES ASSUME events = <<>>, pass = "none", rest = {}, kept = {}, list = <<>>
             PROVE  EventSorted
  OBVIOUS
<1>1. events \in Seq(Event!Event) /\ list \in Seq(Shown) /\ rest \cap kept = {}
  OBVIOUS
<1>2. pass \in {"none", "fixed", "running", "unfixed", "ended"}
  OBVIOUS
<1>3. EventSort
  BY <1>1, <1>2 DEF EventSort
<1> QED
  BY <1>3 DEF EventSorted, AllPlaced, ListInOrder

LEMMA EventSortedInductive ==
  EventClock /\ EventSorted /\ [Next]_vars => EventSorted'
<1> SUFFICES ASSUME EventClock, EventSorted, [Next]_vars PROVE EventSorted'
  OBVIOUS
<1>0. EventClock' /\ [Event!Next]_eventVars
  BY EventClockInductive, EventSteps
<1>1. CASE Event!LoadAnswers
  BY Zenon, <1>1, AnswerIsUnsorted
<1>2. CASE Event!FilterNext
  BY Zenon, <1>0, <1>2, AskedIsPlaced
<1>3. CASE Event!FilterEnds("fixed", "running") \/ Event!FilterEnds("unfixed", "ended")
  <2>1. UNCHANGED now
    BY Zenon, <1>3 DEF Event!FilterEnds
  <2> QED
    BY Zenon, <1>0, <1>3, <2>1, GroupEnds
<1>4. CASE Event!FilterEnds("running", "unfixed")
  <2>1. UNCHANGED now
    BY Zenon, <1>4 DEF Event!FilterEnds
  <2> QED
    BY Zenon, <1>0, <1>4, <2>1, RunningEnds
<1>5. CASE Event!SortEnds
  BY Zenon, <1>5, SortingEnds
<1>6. CASE Event!Reopen
  <2>1. events' = <<>> /\ pass' = "none" /\ rest' = {} /\ kept' = {} /\ list' = <<>>
    BY Zenon, <1>6 DEF Event!Reopen
  <2>2. (events = <<>> /\ pass = "none" /\ rest = {} /\ kept = {} /\ list = <<>>)' => EventSorted'
    BY NothingSorted, PTL
  <2> QED
    BY <2>1, <2>2
<1>7. CASE UNCHANGED Event!sortVars /\ (UNCHANGED now \/ Event!TimePasses)
  <2>1. now <= now'
    <3>1. now' = now \/ now' = now + 1
      BY Zenon, <1>7 DEF Event!TimePasses
    <3> QED
      BY <3>1, EventsAssumption DEF EventClock, Event!Clock
  <2> QED
    BY Zenon, <1>0, <1>7, <2>1, SortingWaits DEF Event!sortVars
<1> QED
  BY Zenon, <1>0, <1>1, <1>2, <1>3, <1>4, <1>5, <1>6, <1>7
     DEF Event!Next, Event!PullToRefresh, Event!RefreshTrigger, Event!LoadFails,
         Event!Reloaded, Event!TimePasses, Event!sortVars, eventVars

LEMMA EventAlways == Spec => [](EventClock /\ EventLoad /\ EventSorted)
<1>1. Event!Init => EventClock
  BY EventsAssumption DEF Event!Init, EventClock, Event!Clock
<1>2. Event!Init => EventLoad
  BY DEF Event!Init, EventLoad
<1>3. Event!Init => EventSorted
  BY Zenon, NothingSorted DEF Event!Init
<1>4. Init => EventClock /\ EventLoad /\ EventSorted
  BY Zenon, <1>1, <1>2, <1>3 DEF Init
<1> QED
  BY <1>4, EventClockInductive, EventLoadInductive, EventSortedInductive, PTL DEF Spec

(* Every event that is to be shown is in the sorted list once, unless it    *)
(* started or stopped between two questions of the filters; and no other.   *)
THEOREM SortsEachOnce == Spec => EachEventOnce
<1>1. EventClock /\ EventSorted /\ Event!SortEnds
        => \A i \in DOMAIN events :
             ~events[i].show \/ Event!Steady(i)
               => Event!Cardinality({n \in DOMAIN list' : list'[n] = i})
                    = IF events[i].show THEN 1 ELSE 0
  <2> SUFFICES ASSUME EventClock, EventSorted, Event!SortEnds, NEW i \in DOMAIN events,
                      ~events[i].show \/ Event!Steady(i)
               PROVE  Cardinality({n \in DOMAIN list' : list'[n] = i})
                        = IF events[i].show THEN 1 ELSE 0
    BY Zenon, SameCardinality
  <2>1. /\ list' \in Seq(Shown)
        /\ \A k \in Shown : Event!Steady(k) => Once(list', k)
    BY Zenon, SortedList
  <2>2. i \in Shown <=> events[i].show
    BY DEF Shown, Event!ShowList
  <2>3. CASE events[i].show
    <3>1. Once(list', i)
      BY Zenon, <2>1, <2>2, <2>3
    <3>2. Cardinality({n \in DOMAIN list' : list'[n] = i}) = 1
      BY Zenon, <3>1, OnceIsOne
    <3> QED
      BY <2>3, <3>2
  <2>4. CASE ~events[i].show
    <3>1. \A n \in DOMAIN list' : list'[n] \in Shown
      BY <2>1
    <3>2. Never(list', i)
      BY Zenon, <2>2, <2>4, <3>1 DEF Never
    <3>3. Cardinality({n \in DOMAIN list' : list'[n] = i}) = 0
      BY Zenon, <3>2, NeverIsNone
    <3> QED
      BY <2>4, <3>3
  <2> QED
    BY <2>3, <2>4
<1>2. EventClock /\ EventSorted
        => [Event!SortEnds
              => \A i \in DOMAIN events :
                   ~events[i].show \/ Event!Steady(i)
                     => Event!Cardinality({n \in DOMAIN list' : list'[n] = i})
                          = IF events[i].show THEN 1 ELSE 0]_(Event!vars)
  BY Zenon, <1>1
<1> QED
  BY <1>2, EventAlways, PTL DEF EachEventOnce, Event!EachEventOnce

LEMMA CodeOrder ==
  EventClock /\ EventSorted /\ Event!SortEnds
    => \A m, n \in DOMAIN list' :
         m < n /\ Event!Steady(list'[m]) /\ Event!Steady(list'[n])
           => CodePrecedes(events[list'[m]], events[list'[n]], began)
BY Zenon, SortedList DEF InOrder

(* The sorted list has its groups one after the other, each with the later  *)
(* start first, as far as its events were steady.                           *)
THEOREM SortsIntoGroups == Spec => GroupedAndSorted
<1>1. EventClock /\ EventSorted
        => [Event!SortEnds
              => \A m, n \in DOMAIN list' :
                   m < n /\ Event!Steady(list'[m]) /\ Event!Steady(list'[n])
                     => Event!MayPrecede(events[list'[m]], events[list'[n]], began)]_(Event!vars)
  BY Zenon, CodeOrder DEF CodePrecedes, Event!MayPrecede
<1> QED
  BY <1>1, EventAlways, PTL DEF GroupedAndSorted, Event!GroupedAndSorted

(* What the code makes of equal starts (sortFuc, EventViewModel.swift:80):  *)
(* the latest stop first in every group, against the comment of line 67,    *)
(* which asks for the nearest.                                              *)
THEOREM LatestStopFirst ==
  Spec => [][Event!SortEnds =>
               \A m, n \in DOMAIN list' :
                 /\ m < n /\ Event!Steady(list'[m]) /\ Event!Steady(list'[n])
                 /\ Event!Group(events[list'[m]], began) = Event!Group(events[list'[n]], began)
                 /\ events[list'[m]].startAt = events[list'[n]].startAt
                 => events[list'[m]].stopAt >= events[list'[n]].stopAt]_(Event!vars)
<1>1. ASSUME EventClock, EventSorted, Event!SortEnds,
             NEW m \in DOMAIN list', NEW n \in DOMAIN list',
             m < n, Event!Steady(list'[m]), Event!Steady(list'[n]),
             Event!Group(events[list'[m]], began) = Event!Group(events[list'[n]], began),
             events[list'[m]].startAt = events[list'[n]].startAt
      PROVE  events[list'[m]].stopAt >= events[list'[n]].stopAt
  <2>1. CodePrecedes(events[list'[m]], events[list'[n]], began)
    BY Zenon, <1>1, CodeOrder
  <2>2. list'[m] \in Shown /\ list'[n] \in Shown /\ EventSort
    <3>1. list' \in Seq(Shown)
      BY Zenon, <1>1, SortedList
    <3> QED
      BY <1>1, <3>1 DEF EventSorted
  <2>3. /\ events[list'[m]].startAt \in Nat /\ events[list'[n]].startAt \in Nat
        /\ Event!Group(events[list'[m]], began) \in {1, 2, 3}
    BY Zenon, <2>2, ShownEvents, WantedGroups DEF Wanted
  <2> QED
    BY <1>1, <2>1, <2>3 DEF CodePrecedes
<1>2. EventClock /\ EventSorted
        => [Event!SortEnds =>
              \A m, n \in DOMAIN list' :
                /\ m < n /\ Event!Steady(list'[m]) /\ Event!Steady(list'[n])
                /\ Event!Group(events[list'[m]], began) = Event!Group(events[list'[n]], began)
                /\ events[list'[m]].startAt = events[list'[n]].startAt
                => events[list'[m]].stopAt >= events[list'[n]].stopAt]_(Event!vars)
  BY Zenon, <1>1
<1> QED
  BY <1>2, EventAlways, PTL

-----------------------------------------------------------------------------
LEMMA EventTypes == EventClock /\ EventLoad /\ OnTheirWay /\ EventSorted => Event!TypeOK
<1> SUFFICES ASSUME EventClock, EventLoad, OnTheirWay, EventSorted PROVE Event!TypeOK
  OBVIOUS
<1>1. Shown \subseteq DOMAIN events
  BY DEF Shown, Event!ShowList
<1>2. /\ events \in Seq(Event!Event)
      /\ pass \in {"none", "fixed", "running", "unfixed", "ended"}
      /\ rest \in SUBSET Shown /\ kept \in SUBSET Shown /\ list \in Seq(Shown)
  BY DEF EventSorted, EventSort
<1>3. rest \in SUBSET DOMAIN events /\ kept \in SUBSET DOMAIN events
  BY <1>1, <1>2
<1>4. list \in Seq(DOMAIN events)
  BY <1>1, <1>2
<1> QED
  BY Zenon, <1>2, <1>3, <1>4 DEF Event!TypeOK, EventClock, EventLoad, OnTheirWay

(* The fields of all the small screens keep their types, whichever of them  *)
(* a session opens and however often; among them that the two ends of the   *)
(* slider's range stay in order.                                            *)
THEOREM TypeCorrect == Spec => []TypeOK
<1>1. Spec => []Event!TypeOK
  BY SpinsAlways, EventAlways, EventTypes, PTL
<1>2. Spec => []Rotate!TypeOK
  BY RotateTypesAlways, RotateSplit, PTL
<1> QED
  BY <1>1, <1>2, PlayerTypesAlways, ToastTypesAlways, PTL DEF TypeOK

=============================================================================
