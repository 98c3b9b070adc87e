------------------------- MODULE AlertServiceProofs -------------------------
(***************************************************************************)
(* Theorems about AlertService for any number of alerts.                   *)
(***************************************************************************)
EXTENDS AlertService, TLAPS, SequenceTheorems

(* Removing an element of a sequence shortens it by one. *)
LEMMA RemoveAtType ==
  ASSUME NEW S, NEW s \in Seq(S), NEW i \in 1 .. Len(s)
  PROVE  /\ RemoveAt(s, i) \in Seq(S)
         /\ Len(RemoveAt(s, i)) = Len(s) - 1
<1> DEFINE l == SubSeq(s, 1, i - 1)
           r == SubSeq(s, i + 1, Len(s))
<1>1. /\ l \in Seq(S) /\ Len(l) = i - 1
      /\ r \in Seq(S) /\ Len(r) = Len(s) - i
  OBVIOUS
<1>2. l \o r \in Seq(S) /\ Len(l \o r) = Len(l) + Len(r)
  BY <1>1, ConcatProperties
<1>3. RemoveAt(s, i) = l \o r
  BY DEF RemoveAt
<1> HIDE DEF l, r
<1>4. Len(l \o r) = Len(s) - 1
  BY <1>1, <1>2
<1> QED
  BY Zenon, <1>2, <1>3, <1>4

(* What the actions do to the two queues and to the window, without the     *)
(* flags that decide it.                                                    *)
LEMMA ShowData ==
  Show => /\ created < MaxAlerts /\ created' = created + 1
          /\ UNCHANGED <<onWindow, presentViewController, lastShown>>
          /\ \/ queue' = Append(queue, created + 1) /\ UNCHANGED posted
             \/ posted' = Append(posted, created + 1) /\ UNCHANGED queue
BY Zenon DEF Show, Enqueue, PostPresent

LEMMA PresentData ==
  PresentNext => /\ posted # <<>> /\ posted' = Tail(posted)
                 /\ UNCHANGED <<queue, created>>
                 /\ \/ /\ presentViewController' = Head(posted)
                       /\ onWindow' = Append(onWindow, Head(posted))
                       /\ lastShown' = Head(posted)
                    \/ UNCHANGED <<presentViewController, onWindow, lastShown>>
BY Zenon DEF PresentNext, RunPresentBlock

LEMMA AnswerData ==
  Answer => /\ onWindow # <<>> /\ presentViewController' = NoAlert
            /\ UNCHANGED <<created, lastShown>>
            /\ \/ presentViewController \notin ToSet(onWindow) /\ UNCHANGED onWindow
               \/ \E i \in DOMAIN onWindow : /\ onWindow[i] = presentViewController
                                             /\ onWindow' = RemoveAt(onWindow, i)
            /\ \/ queue = <<>> /\ UNCHANGED <<queue, posted>>
               \/ /\ queue # <<>> /\ queue' = Tail(queue)
                  /\ posted' = Append(posted, Head(queue))
BY Zenon DEF Answer, Dismiss, Dequeue, PostPresent

FlagTypes ==
  /\ isPresenting \in BOOLEAN /\ keyWindow \in BOOLEAN
  /\ raced \in BOOLEAN /\ dropped \in BOOLEAN

DataTypes ==
  /\ queue \in Seq(Alert) /\ posted \in Seq(Alert) /\ onWindow \in Seq(Alert)
  /\ presentViewController \in Alert \cup {NoAlert}
  /\ lastShown \in Alert \cup {NoAlert}
  /\ created \in 0 .. MaxAlerts

LEMMA SplitTypes == TypeOK <=> FlagTypes /\ DataTypes
BY Zenon DEF TypeOK, FlagTypes, DataTypes

LEMMA FlagTypesInductive == FlagTypes /\ [Next]_vars => FlagTypes'
BY DEF FlagTypes, Next, Show, Enqueue, PostPresent, PresentNext, RunPresentBlock,
       Answer, Dismiss, Dequeue, KeyWindowChanges, vars, serviceVars, historyVars

LEMMA DataTypesInductive == DataTypes /\ [Next]_vars => DataTypes'
<1> SUFFICES ASSUME DataTypes, [Next]_vars PROVE DataTypes'
  OBVIOUS
<1> USE MaxAlertsAssumption DEF DataTypes
<1>1. CASE Show
  <2>1. created + 1 \in Alert /\ created' \in 0 .. MaxAlerts
    BY <1>1, ShowData DEF Alert
  <2>2. /\ Append(queue, created + 1) \in Seq(Alert)
        /\ Append(posted, created + 1) \in Seq(Alert)
    BY <2>1, AppendProperties
  <2> QED
    BY Zenon, <1>1, <2>1, <2>2, ShowData
<1>2. CASE PresentNext
  <2>1. Head(posted) \in Alert /\ Tail(posted) \in Seq(Alert)
    BY <1>2, PresentData, HeadTailProperties
  <2>2. Append(onWindow, Head(posted)) \in Seq(Alert)
    BY <2>1, AppendProperties
  <2> QED
    BY Zenon, <1>2, <2>1, <2>2, PresentData
<1>3. CASE Answer
  <2>1. onWindow' \in Seq(Alert)
    BY <1>3, AnswerData, RemoveAtType
  <2>2. CASE queue = <<>>
    BY Zenon, <1>3, <2>1, <2>2, AnswerData
  <2>3. CASE queue # <<>>
    <3>1. Head(queue) \in Alert /\ Tail(queue) \in Seq(Alert)
      BY <2>3, HeadTailProperties
    <3>2. Append(posted, Head(queue)) \in Seq(Alert)
      BY <3>1, AppendProperties
    <3> QED
      BY Zenon, <1>3, <2>1, <2>3, <3>1, <3>2, AnswerData
  <2> QED
    BY <2>2, <2>3
<1>4. CASE KeyWindowChanges
  BY <1>4 DEF KeyWindowChanges, serviceVars, historyVars
<1>5. CASE UNCHANGED vars
  BY <1>5 DEF vars, serviceVars, historyVars
<1> QED
  BY <1>1, <1>2, <1>3, <1>4, <1>5 DEF Next

(* Type correctness: the fields and the two queues keep their types. *)
THEOREM TypeCorrect == Spec => []TypeOK
<1>1. Init => FlagTypes
  BY DEF Init, FlagTypes
<1>2. Init => DataTypes
  BY MaxAlertsAssumption, EmptySeq DEF Init, DataTypes
<1> QED
  BY <1>1, <1>2, SplitTypes, FlagTypesInductive, DataTypesInductive, PTL DEF Spec

-----------------------------------------------------------------------------
(* Without a race one alert exists between the main queue and the window,   *)
(* and while it is on screen the service knows that it is presenting it.    *)
AtMostOne ==
  ~raced => /\ Len(posted) + Len(onWindow) <= 1
            /\ onWindow # <<>> => /\ isPresenting
                                  /\ presentViewController = onWindow[1]

LEMMA SumAtMostOne ==
  ASSUME NEW m \in Nat, NEW n \in Nat, m # 0, m + n <= 1
  PROVE  m = 1 /\ n = 0
OBVIOUS

LEMMA OneElement ==
  ASSUME NEW S, NEW s \in Seq(S), NEW t \in Seq(S),
         s # <<>>, Len(s) + Len(t) <= 1
  PROVE  Len(s) = 1 /\ t = <<>>
<1>1. Len(s) \in Nat /\ Len(t) \in Nat
  OBVIOUS
<1>2. Len(s) # 0
  BY EmptySeq
<1>3. Len(s) = 1 /\ Len(t) = 0
  BY ONLY <1>1, <1>2, SumAtMostOne, Len(s) + Len(t) <= 1, Zenon
<1> QED
  BY <1>3, EmptySeq

(* A present block that runs alone finds the window empty. *)
LEMMA PresentAlone ==
  ASSUME DataTypes, AtMostOne, PresentNext, ~raced
  PROVE  /\ Len(posted) = 1 /\ onWindow = <<>> /\ posted' = <<>>
         /\ \/ keyWindow /\ Len(onWindow') = 1 /\ onWindow'[1] = posted[1]
            \/ ~keyWindow /\ onWindow' = <<>>
<1> USE DEF DataTypes
<1>1. posted # <<>> /\ posted' = Tail(posted)
  BY PresentData
<1>2. Len(posted) + Len(onWindow) <= 1
  BY DEF AtMostOne
<1>3. Len(posted) = 1 /\ onWindow = <<>>
  BY <1>1, <1>2, OneElement
<1>4. posted' \in Seq(Alert) /\ Len(posted') = Len(posted) - 1
  BY <1>1, HeadTailProperties
<1>5. posted' = <<>>
  BY <1>3, <1>4, EmptySeq
<1>6. CASE keyWindow
  <2>1. onWindow' = Append(onWindow, Head(posted))
    BY Zenon, <1>6 DEF PresentNext, RunPresentBlock
  <2>2. Len(onWindow') = 1 /\ onWindow'[1] = Head(posted)
    BY <1>3, <2>1
  <2> QED
    BY <1>3, <1>5, <1>6, <2>2
<1>7. CASE ~keyWindow
  BY <1>3, <1>5, <1>7 DEF PresentNext, RunPresentBlock
<1> QED
  BY <1>6, <1>7

(* Answering the only alert leaves the window empty. *)
LEMMA AnswerAlone ==
  ASSUME DataTypes, AtMostOne, Answer, ~raced
  PROVE  Len(onWindow) = 1 /\ posted = <<>> /\ onWindow' = <<>>
<1> USE DEF DataTypes
<1>1. onWindow # <<>>
  BY AnswerData
<1>2. /\ Len(onWindow) + Len(posted) <= 1
      /\ presentViewController = onWindow[1]
  BY <1>1 DEF AtMostOne
<1>3. Len(onWindow) = 1 /\ posted = <<>>
  BY <1>1, <1>2, OneElement
<1>4. presentViewController \in ToSet(onWindow)
  BY <1>2, <1>3 DEF ToSet
<1>5. PICK i \in DOMAIN onWindow : onWindow' = RemoveAt(onWindow, i)
  BY <1>4, AnswerData
<1>6. i \in 1 .. Len(onWindow)
  OBVIOUS
<1>7. /\ RemoveAt(onWindow, i) \in Seq(Alert)
      /\ Len(RemoveAt(onWindow, i)) = Len(onWindow) - 1
  BY Zenon, <1>6, RemoveAtType
<1>8. Len(onWindow') = 0 /\ onWindow' \in Seq(Alert)
  BY <1>3, <1>5, <1>7
<1>9. onWindow' = <<>>
  BY <1>8
<1> QED
  BY <1>3, <1>9

LEMMA AtMostOneInductive == TypeOK /\ AtMostOne /\ [Next]_vars => AtMostOne'
<1> SUFFICES ASSUME DataTypes, AtMostOne, [Next]_vars, ~raced' PROVE AtMostOne'
  BY SplitTypes DEF AtMostOne
<1> USE DEF DataTypes
<1>0. CASE UNCHANGED <<posted, onWindow, isPresenting, presentViewController, raced>>
  BY <1>0 DEF AtMostOne
<1>1. CASE Show
  <2>1. CASE isPresenting
    <3>1. UNCHANGED <<posted, onWindow, isPresenting, presentViewController, raced>>
      BY <1>1, <2>1 DEF Show, Enqueue
    <3> QED
      BY <3>1, <1>0
  <2>2. CASE ~isPresenting
    <3>1. ~raced /\ posted = <<>> /\ UNCHANGED onWindow
      BY Zenon, <1>1, <2>2 DEF Show, Enqueue, PostPresent
    <3>2. onWindow = <<>>
      BY <2>2, <3>1 DEF AtMostOne
    <3>3. posted' = Append(posted, created + 1)
      BY Zenon, <1>1, <2>2 DEF Show, Enqueue, PostPresent
    <3>4. Len(posted') = 1 /\ Len(onWindow') = 0
      BY <3>1, <3>2, <3>3
    <3> QED
      BY <3>1, <3>2, <3>4 DEF AtMostOne
  <2> QED
    BY <2>1, <2>2
<1>2. CASE PresentNext
  <2>1. ~raced
    BY <1>2 DEF PresentNext, RunPresentBlock
  <2>2. /\ Len(posted) = 1 /\ posted' = <<>>
        /\ \/ keyWindow /\ Len(onWindow') = 1 /\ onWindow'[1] = posted[1]
           \/ ~keyWindow /\ onWindow' = <<>>
    BY <1>2, <2>1, PresentAlone
  <2>3. CASE keyWindow
    <3>1. isPresenting' /\ presentViewController' = posted[1]
      BY <1>2, <2>3 DEF PresentNext, RunPresentBlock
    <3>2. Len(posted') = 0 /\ Len(onWindow') = 1 /\ onWindow'[1] = posted[1]
      BY <2>2, <2>3
    <3>3. Len(posted') + Len(onWindow') <= 1
      BY <3>2
    <3> QED
      BY Zenon, <3>1, <3>2, <3>3 DEF AtMostOne
  <2>4. CASE ~keyWindow
    <3>1. Len(posted') = 0 /\ Len(onWindow') = 0 /\ onWindow' = <<>>
      BY <2>2, <2>4
    <3> QED
      BY <3>1 DEF AtMostOne
  <2> QED
    BY <2>3, <2>4
<1>3. CASE Answer
  <2>1. ~raced
    BY Zenon, <1>3 DEF Answer, Dismiss, Dequeue, PostPresent
  <2>2. posted = <<>> /\ onWindow' = <<>>
    BY <1>3, <2>1, AnswerAlone
  <2>3. Len(posted') <= 1 /\ Len(posted') \in Nat
    <3>1. CASE queue = <<>>
      BY <1>3, <2>2, <3>1, AnswerData
    <3>2. CASE queue # <<>>
      <4>1. posted' = Append(posted, Head(queue)) /\ Head(queue) \in Alert
        BY <1>3, <3>2, AnswerData, HeadTailProperties
      <4>2. Len(posted') = 1
        BY <2>2, <4>1, AppendProperties, EmptySeq
      <4> QED
        BY <4>2
    <3> QED
      BY <3>1, <3>2
  <2>4. Len(onWindow') = 0
    BY <2>2
  <2> QED
    BY <2>2, <2>3, <2>4 DEF AtMostOne
<1>4. CASE KeyWindowChanges
  BY <1>0, <1>4 DEF KeyWindowChanges, serviceVars, historyVars
<1>5. CASE UNCHANGED vars
  BY <1>0, <1>5 DEF vars, serviceVars, historyVars
<1> QED
  BY <1>1, <1>2, <1>3, <1>4, <1>5 DEF Next

(* The strengthening itself, for the modules that show alerts. *)
LEMMA AtMostOneAlways == Spec => []AtMostOne
<1>1. Init => AtMostOne
  BY DEF Init, AtMostOne
<1> QED
  BY <1>1, TypeCorrect, AtMostOneInductive, PTL DEF Spec

(* Alerts overlap only after two present blocks were pending at once. *)
THEOREM OverlapNeedsRace == Spec => []OverlapOnlyAfterRace
<1>1. TypeOK /\ AtMostOne => OverlapOnlyAfterRace
  BY DEF TypeOK, AtMostOne, OverlapOnlyAfterRace
<1> QED
  BY <1>1, TypeCorrect, AtMostOneAlways, PTL

-----------------------------------------------------------------------------
LEMMA StuckInductive ==
  TypeOK /\ StuckOnlyAfterDrop /\ [Next]_vars => StuckOnlyAfterDrop'
<1> SUFFICES ASSUME TypeOK, StuckOnlyAfterDrop, [Next]_vars
             PROVE  StuckOnlyAfterDrop'
  OBVIOUS
<1> USE DEF TypeOK, StuckOnlyAfterDrop
<1>1. CASE Show
  BY <1>1 DEF Show, Enqueue, PostPresent
<1>2. CASE PresentNext
  <2>1. CASE keyWindow
    <3>1. onWindow' = Append(onWindow, Head(posted)) /\ posted # <<>>
      BY <1>2, <2>1 DEF PresentNext, RunPresentBlock
    <3>2. Append(onWindow, Head(posted)) # <<>>
      BY <3>1, HeadTailProperties, AppendProperties
    <3> QED
      BY Zenon, <3>1, <3>2
  <2>2. CASE ~keyWindow
    BY <1>2, <2>2 DEF PresentNext, RunPresentBlock
  <2> QED
    BY <2>1, <2>2
<1>3. CASE Answer
  BY <1>3 DEF Answer, Dismiss, Dequeue, PostPresent
<1>4. CASE KeyWindowChanges
  BY <1>4 DEF KeyWindowChanges, serviceVars, historyVars
<1>5. CASE UNCHANGED vars
  BY <1>5 DEF vars, serviceVars, historyVars
<1> QED
  BY <1>1, <1>2, <1>3, <1>4, <1>5 DEF Next

(* The service is stuck only after a present block found no key window. *)
THEOREM StuckNeedsDrop == Spec => []StuckOnlyAfterDrop
<1>1. Init => StuckOnlyAfterDrop
  BY DEF Init, StuckOnlyAfterDrop
<1> QED
  BY <1>1, TypeCorrect, StuckInductive, PTL DEF Spec

-----------------------------------------------------------------------------
Ascending(s) == \A i, j \in 1 .. Len(s) : i < j => s[i] < s[j]

(* The alerts not shown yet stand in line in the order of their creation:   *)
(* first those posted, then those that wait, and no alert is posted past    *)
(* one that waits because alerts wait only while isPresenting is set.       *)
InLine ==
  /\ Ascending(posted)
  /\ Ascending(queue)
  /\ \A i \in 1 .. Len(posted), j \in 1 .. Len(queue) : posted[i] < queue[j]
  /\ \A i \in 1 .. Len(posted) : lastShown < posted[i] /\ posted[i] <= created
  /\ \A j \in 1 .. Len(queue) : lastShown < queue[j] /\ queue[j] <= created
  /\ lastShown <= created
  /\ queue # <<>> => isPresenting

LEMMA AppendAscending ==
  ASSUME NEW s \in Seq(Nat), NEW a \in Nat, Ascending(s),
         \A i \in 1 .. Len(s) : s[i] < a
  PROVE  Ascending(Append(s, a))
BY DEF Ascending

LEMMA TailAscending ==
  ASSUME NEW s \in Seq(Nat), s # <<>>, Ascending(s)
  PROVE  /\ Ascending(Tail(s))
         /\ \A i \in 1 .. Len(Tail(s)) : Head(s) < Tail(s)[i]
BY DEF Ascending

LEMMA InLineInductive == TypeOK /\ InLine /\ [Next]_vars => InLine'
<1> SUFFICES ASSUME TypeOK, InLine, [Next]_vars PROVE InLine'
  OBVIOUS
<1> USE MaxAlertsAssumption
<1>0. /\ queue \in Seq(Nat) /\ posted \in Seq(Nat)
      /\ lastShown \in Nat /\ created \in Nat
  BY DEF TypeOK, Alert, NoAlert
<1>1. CASE Show
  <2>1. CASE isPresenting
    <3>1. queue' = Append(queue, created + 1) /\ UNCHANGED <<posted, lastShown, isPresenting>>
      BY <1>1, <2>1 DEF Show, Enqueue
    <3>2. Ascending(queue')
      BY <1>0, <3>1, AppendAscending DEF InLine
    <3> QED
      BY <1>0, <1>1, <2>1, <3>1, <3>2 DEF InLine, Show
  <2>2. CASE ~isPresenting
    <3>1. posted' = Append(posted, created + 1) /\ UNCHANGED <<queue, lastShown, isPresenting>>
      BY <1>1, <2>2 DEF Show, Enqueue, PostPresent
    <3>2. queue = <<>>
      BY <2>2 DEF InLine
    <3>3. Ascending(posted')
      BY <1>0, <3>1, AppendAscending DEF InLine
    <3> QED
      BY <1>0, <1>1, <3>1, <3>2, <3>3 DEF InLine, Show
  <2> QED
    BY <2>1, <2>2
<1>2. CASE PresentNext
  <2>1. /\ posted # <<>> /\ posted' = Tail(posted)
        /\ UNCHANGED <<queue, created>>
        /\ lastShown' \in {lastShown, Head(posted)}
        /\ isPresenting => isPresenting'
    BY <1>2 DEF PresentNext, RunPresentBlock
  <2>2. /\ Ascending(posted')
        /\ \A i \in 1 .. Len(posted') : Head(posted) < posted'[i]
    BY <1>0, <2>1, TailAscending DEF InLine
  <2>3. Head(posted) = posted[1] /\ 1 \in 1 .. Len(posted)
    BY <1>0, <2>1
  <2>4. /\ Len(posted') = Len(posted) - 1
        /\ \A i \in 1 .. Len(posted') : posted'[i] = posted[i + 1]
    BY <1>0, <2>1, HeadTailProperties
  <2>5. \A i \in 1 .. Len(posted') : i + 1 \in 1 .. Len(posted)
    BY <1>0, <2>4
  <2>6. \A i \in 1 .. Len(posted'), j \in 1 .. Len(queue') : posted'[i] < queue'[j]
    BY <2>1, <2>4, <2>5 DEF InLine
  <2>7. \A i \in 1 .. Len(posted') : lastShown' < posted'[i] /\ posted'[i] <= created'
    BY <1>0, <2>1, <2>2, <2>3, <2>4, <2>5 DEF InLine
  <2>8. \A j \in 1 .. Len(queue') : lastShown' < queue'[j] /\ queue'[j] <= created'
    BY <1>0, <2>1, <2>3 DEF InLine
  <2>9. lastShown' <= created' /\ (queue' # <<>> => isPresenting')
    BY <1>0, <2>1, <2>3 DEF InLine
  <2> QED
    BY <2>1, <2>2, <2>6, <2>7, <2>8, <2>9 DEF InLine
<1>3. CASE Answer
  <2>1. CASE queue = <<>>
    BY <1>3, <2>1 DEF InLine, Answer, Dismiss, Dequeue
  <2>2. CASE queue # <<>>
    <3>1. /\ queue' = Tail(queue) /\ posted' = Append(posted, Head(queue))
          /\ UNCHANGED <<lastShown, created, isPresenting>>
      BY <1>3, <2>2 DEF Answer, Dismiss, Dequeue, PostPresent
    <3>2. /\ Ascending(queue')
          /\ \A i \in 1 .. Len(queue') : Head(queue) < queue'[i]
      BY <1>0, <2>2, <3>1, TailAscending DEF InLine
    <3>3. Head(queue) = queue[1] /\ 1 \in 1 .. Len(queue) /\ Head(queue) \in Nat
      BY <1>0, <2>2
    <3>4. Ascending(posted')
      BY <1>0, <3>1, <3>3, AppendAscending DEF InLine
    <3> QED
      BY <1>0, <2>2, <3>1, <3>2, <3>3, <3>4 DEF InLine
  <2> QED
    BY <2>1, <2>2
<1>4. CASE KeyWindowChanges
  BY <1>4 DEF InLine, KeyWindowChanges, serviceVars, historyVars
<1>5. CASE UNCHANGED vars
  BY <1>5 DEF InLine, vars, serviceVars, historyVars
<1> QED
  BY <1>1, <1>2, <1>3, <1>4, <1>5 DEF Next

(* First come, first shown. *)
THEOREM AlertsShownInOrder == Spec => ShownInOrder
<1>1. Init => InLine
  BY DEF Init, InLine, Ascending, NoAlert
<1>2. InLine /\ TypeOK /\ [Next]_vars
        => [lastShown' # lastShown => lastShown' > lastShown]_vars
  <2> SUFFICES ASSUME InLine, TypeOK, Next, lastShown' # lastShown
               PROVE  lastShown' > lastShown
    OBVIOUS
  <2>1. RunPresentBlock
    BY DEF Next, Show, Enqueue, PresentNext, Answer, Dismiss, KeyWindowChanges,
           historyVars
  <2>2. posted # <<>> /\ lastShown' = posted[1] /\ posted \in Seq(Nat)
    BY <2>1, MaxAlertsAssumption DEF RunPresentBlock, TypeOK, Alert
  <2>3. lastShown \in Nat
    BY MaxAlertsAssumption DEF TypeOK, Alert, NoAlert
  <2> QED
    BY <2>2, <2>3 DEF InLine
<1> QED
  BY <1>1, <1>2, TypeCorrect, InLineInductive, PTL DEF Spec, ShownInOrder

-----------------------------------------------------------------------------
(* Alerts on the window are older than those in line, and the newer ones    *)
(* are on top: no alert is there twice.                                     *)
OnWindowInOrder ==
  /\ Ascending(onWindow)
  /\ \A i \in 1 .. Len(onWindow) : onWindow[i] <= lastShown

(* Removing an element leaves the others, in their order. *)
LEMMA RemoveAtElements ==
  ASSUME NEW s \in Seq(Nat), NEW i \in 1 .. Len(s)
  PROVE  /\ RemoveAt(s, i) \in Seq(Nat)
         /\ Len(RemoveAt(s, i)) = Len(s) - 1
         /\ \A k \in 1 .. Len(s) - 1 :
              RemoveAt(s, i)[k] = IF k < i THEN s[k] ELSE s[k + 1]
<1> DEFINE l == SubSeq(s, 1, i - 1)
           r == SubSeq(s, i + 1, Len(s))
<1>1. /\ l \in Seq(Nat) /\ Len(l) = i - 1 /\ \A k \in 1 .. i - 1 : l[k] = s[k]
      /\ r \in Seq(Nat) /\ Len(r) = Len(s) - i
      /\ \A k \in 1 .. Len(s) - i : r[k] = s[k + i]
  <2>1. i - 1 \in Int /\ i + 1 \in Int /\ Len(s) \in Int /\ 1 \in Int
    OBVIOUS
  <2>2. \A k \in 1 .. i - 1 : s[k] \in Nat
    OBVIOUS
  <2>3. \A k \in i + 1 .. Len(s) : s[k] \in Nat
    OBVIOUS
  <2>4. l \in Seq(Nat) /\ Len(l) = i - 1 /\ \A k \in 1 .. i - 1 : l[k] = s[k]
    BY <2>1, <2>2, SubSeqProperties
  <2>5. /\ r \in Seq(Nat) /\ Len(r) = Len(s) - i
        /\ \A k \in 1 .. Len(s) - i : r[k] = s[k + i]
    BY <2>1, <2>3, SubSeqProperties
  <2> QED
    BY <2>4, <2>5
<1>2. RemoveAt(s, i) = l \o r
  BY DEF RemoveAt
<1> HIDE DEF l, r
<1>3. /\ Len(l \o r) = Len(s) - 1
      /\ \A k \in 1 .. Len(s) - 1 : (l \o r)[k] = IF k < i THEN s[k] ELSE s[k + 1]
  <2>1. /\ Len(l \o r) = Len(l) + Len(r)
        /\ \A k \in 1 .. Len(l) + Len(r) :
             (l \o r)[k] = IF k <= Len(l) THEN l[k] ELSE r[k - Len(l)]
    BY <1>1, ConcatProperties
  <2>2. Len(l) = i - 1 /\ Len(r) = Len(s) - i /\ Len(s) \in Nat /\ i \in Nat
    BY <1>1
  <2>3. Len(l \o r) = Len(s) - 1
    BY <2>1, <2>2
  <2>4. ASSUME NEW k \in 1 .. Len(s) - 1
        PROVE  (l \o r)[k] = IF k < i THEN s[k] ELSE s[k + 1]
    <3>1. (l \o r)[k] = IF k <= i - 1 THEN l[k] ELSE r[k - (i - 1)]
      BY <2>1, <2>2
    <3>2. CASE k < i
      BY <1>1, <2>2, <3>1, <3>2
    <3>3. CASE ~(k < i)
      <4>1. /\ (l \o r)[k] = r[k - (i - 1)] /\ k - (i - 1) \in 1 .. Len(s) - i
            /\ k - (i - 1) + i = k + 1
        BY <2>2, <3>1, <3>3
      <4> QED
        BY <1>1, <3>3, <4>1
    <3> QED
      BY <3>2, <3>3
  <2> QED
    BY <2>3, <2>4
<1> QED
  BY Zenon, <1>2, <1>3, RemoveAtType

LEMMA Elements ==
  ASSUME NEW s \in Seq(Nat)
  PROVE  \A x : x \in ToSet(s) <=> \E k \in 1 .. Len(s) : x = s[k]
BY DEF ToSet

LEMMA RemoveAtAscending ==
  ASSUME NEW s \in Seq(Nat), NEW i \in 1 .. Len(s), Ascending(s)
  PROVE  /\ Ascending(RemoveAt(s, i))
         /\ ToSet(RemoveAt(s, i)) = ToSet(s) \ {s[i]}
<1> DEFINE t == RemoveAt(s, i)
<1>1. /\ t \in Seq(Nat) /\ Len(t) = Len(s) - 1
      /\ \A k \in 1 .. Len(s) - 1 : t[k] = IF k < i THEN s[k] ELSE s[k + 1]
  BY RemoveAtElements
<1> HIDE DEF t
<1>2. ASSUME NEW k \in 1 .. Len(t)
      PROVE  \E j \in 1 .. Len(s) : /\ t[k] = s[j] /\ j # i
                                     /\ j = IF k < i THEN k ELSE k + 1
  <2>1. CASE k < i
    <3>1. k \in 1 .. Len(s) /\ k # i /\ t[k] = s[k]
      BY <1>1, <2>1
    <3> QED
      BY <2>1, <3>1
  <2>2. CASE ~(k < i)
    <3>1. k + 1 \in 1 .. Len(s) /\ k + 1 # i /\ t[k] = s[k + 1]
      BY <1>1, <2>2
    <3> QED
      BY <2>2, <3>1
  <2> QED
    BY <2>1, <2>2
<1>3. ASSUME NEW a \in 1 .. Len(t), NEW b \in 1 .. Len(t), a < b
      PROVE  t[a] < t[b]
  <2>0. a \in Int /\ b \in Int /\ i \in Int /\ a < b
    BY <1>3
  <2>1. PICK c \in 1 .. Len(s) : t[a] = s[c] /\ c = IF a < i THEN a ELSE a + 1
    BY <1>2
  <2>2. PICK d \in 1 .. Len(s) : t[b] = s[d] /\ d = IF b < i THEN b ELSE b + 1
    BY <1>2
  <2>3. c < d
    BY ONLY <2>0, <2>1, <2>2
  <2> QED
    BY <2>1, <2>2, <2>3 DEF Ascending
<1>4. ASSUME NEW x \in ToSet(t)
      PROVE  x \in ToSet(s) \ {s[i]}
  <2>1. PICK k \in 1 .. Len(t) : x = t[k]
    BY <1>1 DEF ToSet
  <2>2. PICK j \in 1 .. Len(s) : x = s[j] /\ j # i
    BY <1>2, <2>1
  <2>3. s[j] \in Nat /\ s[i] \in Nat /\ (s[j] < s[i] \/ s[i] < s[j])
    BY <2>2 DEF Ascending
  <2> QED
    BY <2>2, <2>3 DEF ToSet
<1>5. ASSUME NEW x \in ToSet(s), x # s[i]
      PROVE  x \in ToSet(t)
  <2>1. PICK j \in 1 .. Len(s) : x = s[j] /\ j # i
    BY <1>5 DEF ToSet
  <2>2. CASE j < i
    <3>1. j \in 1 .. Len(t) /\ t[j] = s[j]
      BY <1>1, <2>2
    <3> QED
      BY <2>1, <3>1 DEF ToSet
  <2>3. CASE j > i
    <3>1. j - 1 \in 1 .. Len(t) /\ t[j - 1] = s[j]
      BY <1>1, <2>3
    <3> QED
      BY <2>1, <3>1 DEF ToSet
  <2> QED
    BY <2>1, <2>2, <2>3
<1>6. Ascending(t)
  BY <1>3 DEF Ascending
<1>7. ToSet(t) = ToSet(s) \ {s[i]}
  BY <1>4, <1>5, Zenon DEF ToSet
<1> QED
  BY <1>6, <1>7 DEF t

LEMMA AppendElements ==
  ASSUME NEW s \in Seq(Nat), NEW a \in Nat
  PROVE  ToSet(Append(s, a)) = ToSet(s) \cup {a}
<1>1. \A x : x \in ToSet(s) <=> \E k \in 1 .. Len(s) : x = s[k]
  BY DEF ToSet
<1>2. \A x : x \in ToSet(Append(s, a)) <=> \E k \in 1 .. Len(s) + 1 : x = Append(s, a)[k]
  BY DEF ToSet
<1>3. \A k \in 1 .. Len(s) + 1 : Append(s, a)[k] = IF k = Len(s) + 1 THEN a ELSE s[k]
  OBVIOUS
<1> QED
  BY <1>1, <1>2, <1>3

LEMMA TailElements ==
  ASSUME NEW s \in Seq(Nat), s # <<>>, Ascending(s)
  PROVE  /\ Head(s) \in ToSet(s)
         /\ ToSet(Tail(s)) = ToSet(s) \ {Head(s)}
         /\ \A x \in ToSet(s) : Head(s) <= x
<1>1. \A x : x \in ToSet(s) <=> \E k \in 1 .. Len(s) : x = s[k]
  BY DEF ToSet
<1>2. \A x : x \in ToSet(Tail(s)) <=> \E k \in 1 .. Len(s) - 1 : x = s[k + 1]
  <2>1. /\ Len(Tail(s)) = Len(s) - 1 /\ Tail(s) \in Seq(Nat)
        /\ \A k \in 1 .. Len(s) - 1 : Tail(s)[k] = s[k + 1]
    BY HeadTailProperties
  <2>2. \A x : x \in ToSet(Tail(s)) <=> \E k \in 1 .. Len(Tail(s)) : x = Tail(s)[k]
    BY <2>1, Elements
  <2> QED
    BY <2>1, <2>2
<1>3. Head(s) = s[1] /\ 1 \in 1 .. Len(s)
  OBVIOUS
<1>4. \A k \in 2 .. Len(s) : s[1] < s[k]
  BY <1>3 DEF Ascending
<1> QED
  BY <1>1, <1>2, <1>3, <1>4

LEMMA OnWindowInOrderInductive ==
  TypeOK /\ InLine /\ OnWindowInOrder /\ [Next]_vars => OnWindowInOrder'
<1> SUFFICES ASSUME TypeOK, InLine, OnWindowInOrder, [Next]_vars PROVE OnWindowInOrder'
  OBVIOUS
<1> USE MaxAlertsAssumption
<1>0. onWindow \in Seq(Nat) /\ posted \in Seq(Nat) /\ lastShown \in Nat
  BY DEF TypeOK, Alert, NoAlert
<1>1. CASE UNCHANGED <<onWindow, lastShown>>
  BY <1>1 DEF OnWindowInOrder
<1>2. CASE Show
  BY <1>1, <1>2, ShowData
<1>3. CASE PresentNext
  <2>1. CASE onWindow' = Append(onWindow, Head(posted)) /\ lastShown' = Head(posted)
    <3>1. posted # <<>>
      BY <1>3, PresentData
    <3>2. Head(posted) \in Nat /\ lastShown < Head(posted)
      BY <1>0, <3>1 DEF InLine
    <3>3. \A k \in 1 .. Len(onWindow) : onWindow[k] \in Nat /\ onWindow[k] < Head(posted)
      BY <1>0, <3>2 DEF OnWindowInOrder
    <3>4. Ascending(onWindow')
      BY <1>0, <2>1, <3>2, <3>3, AppendAscending DEF OnWindowInOrder
    <3>5. /\ Len(onWindow') = Len(onWindow) + 1
          /\ \A k \in 1 .. Len(onWindow) : onWindow'[k] = onWindow[k]
          /\ onWindow'[Len(onWindow) + 1] = Head(posted)
      BY <1>0, <2>1, <3>2, AppendProperties
    <3>6. \A k \in 1 .. Len(onWindow') : onWindow'[k] <= lastShown'
      BY <1>0, <2>1, <3>2, <3>3, <3>5
    <3> QED
      BY <3>4, <3>6 DEF OnWindowInOrder
  <2> QED
    BY Zenon, <1>1, <1>3, <2>1 DEF PresentNext, RunPresentBlock
<1>4. CASE Answer
  <2>1. CASE UNCHANGED onWindow
    BY <1>1, <1>4, <2>1, AnswerData
  <2>2. CASE \E i \in DOMAIN onWindow : onWindow' = RemoveAt(onWindow, i)
    <3>1. PICK i \in 1 .. Len(onWindow) : onWindow' = RemoveAt(onWindow, i)
      BY <1>0, <2>2
    <3>2. Ascending(onWindow')
      BY <1>0, <3>1, RemoveAtAscending DEF OnWindowInOrder
    <3>3. ToSet(onWindow') \subseteq ToSet(onWindow) /\ onWindow' \in Seq(Nat)
      BY <1>0, <3>1, RemoveAtAscending, RemoveAtElements DEF OnWindowInOrder
    <3>4. \A k \in 1 .. Len(onWindow') : onWindow'[k] \in ToSet(onWindow)
      BY <3>3, Elements
    <3>5. \A x \in ToSet(onWindow) : x <= lastShown
      BY <1>0, Elements DEF OnWindowInOrder
    <3>6. lastShown' = lastShown
      BY <1>4, AnswerData
    <3> QED
      BY <3>2, <3>4, <3>5, <3>6 DEF OnWindowInOrder
  <2> QED
    BY Zenon, <1>4, <2>1, <2>2, AnswerData
<1>5. CASE KeyWindowChanges
  BY <1>1, <1>5 DEF KeyWindowChanges, serviceVars, historyVars
<1>6. CASE UNCHANGED vars
  BY <1>1, <1>6 DEF vars, serviceVars, historyVars
<1> QED
  BY <1>2, <1>3, <1>4, <1>5, <1>6 DEF Next

(* The alerts in line are numbers up to the last one created, and the block *)
(* that runs next has the smallest of them.                                 *)
LEMMA FirstInLine ==
  ASSUME TypeOK, InLine, posted # <<>>
  PROVE  /\ Head(posted) \in ToSet(posted)
         /\ \A x \in ToSet(posted) \cup ToSet(queue) : Head(posted) <= x
         /\ ToSet(Tail(posted)) = ToSet(posted) \ {Head(posted)}
         /\ Head(posted) \notin ToSet(queue)
<1>1. posted \in Seq(Nat) /\ queue \in Seq(Nat)
  BY MaxAlertsAssumption DEF TypeOK, Alert
<1>2. /\ Head(posted) \in ToSet(posted)
      /\ ToSet(Tail(posted)) = ToSet(posted) \ {Head(posted)}
      /\ \A x \in ToSet(posted) : Head(posted) <= x
  BY <1>1, TailElements DEF InLine
<1>3. Head(posted) = posted[1] /\ 1 \in 1 .. Len(posted) /\ posted[1] \in Nat
  BY <1>1
<1>4. \A x \in ToSet(queue) : x \in Nat /\ Head(posted) < x
  BY <1>1, <1>3, Elements DEF InLine
<1> QED
  BY <1>2, <1>3, <1>4

(* Every step of the alert queue is one of the serial display's. *)
LEMMA StepImplements ==
  TypeOK /\ AtMostOne /\ InLine /\ OnWindowInOrder /\ [Next]_vars
    => [Display!Next]_(Display!displayVars)
<1> SUFFICES ASSUME TypeOK, AtMostOne, InLine, OnWindowInOrder, [Next]_vars
             PROVE  [Display!Next]_(Display!displayVars)
  OBVIOUS
<1> DEFINE waiting == ToSet(posted) \cup ToSet(queue)
           showing == ToSet(onWindow)
<1>0. /\ onWindow \in Seq(Nat) /\ posted \in Seq(Nat) /\ queue \in Seq(Nat)
      /\ created \in Nat
  BY MaxAlertsAssumption DEF TypeOK, Alert
<1>1. raced' \in {raced, TRUE}
  BY Zenon DEF TypeOK, Next, Show, Enqueue, PostPresent, PresentNext, RunPresentBlock,
       Answer, Dismiss, Dequeue, KeyWindowChanges, vars, serviceVars, historyVars
<1>2. CASE Show
  <2>1. created' = created + 1 /\ showing' = showing
    BY Zenon, <1>2, ShowData
  <2>2. waiting' = waiting \cup {created + 1}
    <3>1. CASE queue' = Append(queue, created + 1) /\ UNCHANGED posted
      <4>1. ToSet(queue') = ToSet(queue) \cup {created + 1}
        BY <1>0, <3>1, AppendElements
      <4> QED
        BY <3>1, <4>1
    <3>2. CASE posted' = Append(posted, created + 1) /\ UNCHANGED queue
      <4>1. ToSet(posted') = ToSet(posted) \cup {created + 1}
        BY <1>0, <3>2, AppendElements
      <4> QED
        BY <3>2, <4>1
    <3> QED
      BY Zenon, <1>2, <3>1, <3>2, ShowData
  <2> QED
    BY Zenon, <1>1, <2>1, <2>2 DEF Display!Next, Display!Request
<1>3. CASE PresentNext
  <2> DEFINE a == Head(posted)
  <2>1. posted # <<>> /\ posted' = Tail(posted) /\ UNCHANGED <<queue, created>>
    BY Zenon, <1>3, PresentData
  <2>2. a \in waiting /\ Display!IsNext(a) /\ waiting' = waiting \ {a}
    BY <2>1, FirstInLine DEF Display!IsNext
  <2>3. CASE UNCHANGED onWindow
    <3>1. Display!GiveUp(a)
      BY Zenon, <2>1, <2>2, <2>3 DEF Display!GiveUp
    <3> QED
      BY Zenon, <1>1, <2>2, <3>1 DEF Display!Next
  <2>4. CASE onWindow' = Append(onWindow, a)
    <3>1. a \in Nat
      BY <1>0, <2>1
    <3>2. showing' = showing \cup {a}
      BY <1>0, <2>4, <3>1, AppendElements
    <3>3. showing = {} \/ raced
      <4>1. CASE ~raced
        <5>1. onWindow = <<>>
          BY Zenon, <1>3, <4>1, PresentAlone, SplitTypes
        <5> QED
          BY <5>1 DEF ToSet
      <4> QED
        BY <4>1
    <3>4. Display!ShowNext(a)
      BY Zenon, <2>1, <2>2, <3>2, <3>3 DEF Display!ShowNext
    <3> QED
      BY Zenon, <1>1, <2>2, <3>4 DEF Display!Next
  <2> QED
    BY Zenon, <1>3, <2>3, <2>4, PresentData
<1>4. CASE Answer
  <2>1. UNCHANGED created
    BY Zenon, <1>4, AnswerData
  <2>2. waiting' = waiting
    <3>1. CASE queue # <<>> /\ queue' = Tail(queue) /\ posted' = Append(posted, Head(queue))
      <4>1. Head(queue) \in Nat /\ Head(queue) \in ToSet(queue)
            /\ ToSet(queue') = ToSet(queue) \ {Head(queue)}
        BY <1>0, <3>1, TailElements DEF InLine
      <4>2. ToSet(posted') = ToSet(posted) \cup {Head(queue)}
        BY <1>0, <3>1, <4>1, AppendElements
      <4> QED
        BY <4>1, <4>2
    <3> QED
      BY Zenon, <1>4, <3>1, AnswerData
  <2>3. CASE UNCHANGED onWindow
    BY Zenon, <1>1, <2>1, <2>2, <2>3 DEF Display!Next
  <2>4. CASE \E i \in DOMAIN onWindow : onWindow' = RemoveAt(onWindow, i)
    <3>1. PICK i \in 1 .. Len(onWindow) : onWindow' = RemoveAt(onWindow, i)
      BY <1>0, <2>4
    <3>2. onWindow[i] \in showing /\ showing' = showing \ {onWindow[i]}
      BY <1>0, <3>1, RemoveAtAscending, Elements DEF OnWindowInOrder
    <3>3. Display!TakeAway(onWindow[i])
      BY Zenon, <2>1, <2>2, <3>2 DEF Display!TakeAway
    <3> QED
      BY Zenon, <1>1, <3>2, <3>3 DEF Display!Next
  <2> QED
    BY Zenon, <1>4, <2>3, <2>4, AnswerData
<1>5. CASE KeyWindowChanges
  BY Zenon, <1>5 DEF KeyWindowChanges, serviceVars, historyVars, Display!displayVars
<1>6. CASE UNCHANGED vars
  BY Zenon, <1>6 DEF vars, serviceVars, historyVars, Display!displayVars
<1> QED
  BY Zenon, <1>2, <1>3, <1>4, <1>5, <1>6 DEF Next

LEMMA InLineAlways == Spec => [](InLine /\ OnWindowInOrder)
<1>1. Init => InLine /\ OnWindowInOrder
  BY DEF Init, InLine, OnWindowInOrder, Ascending, NoAlert
<1> QED
  BY <1>1, TypeCorrect, InLineInductive, OnWindowInOrderInductive, PTL DEF Spec

(* The alert queue is a serial display, for any number of alerts and in     *)
(* every interleaving.                                                      *)
THEOREM IsSerialDisplay == Spec => ImplementsSerialDisplay
<1>1. Init => Display!Init
  BY DEF Init, Display!Init, ToSet
<1> QED
  BY <1>1, StepImplements, TypeCorrect, AtMostOneAlways, InLineAlways,
     PTL DEF Spec, ImplementsSerialDisplay, Display!Spec
=============================================================================
