----------------------- MODULE CompactActivityProofs -----------------------
(***************************************************************************)
(* Theorems about CompactActivity for any finite set of keys.              *)
(***************************************************************************)
EXTENDS CompactActivity, TLAPS, FiniteSetTheorems

AlertThms == INSTANCE AlertServiceProofs

-----------------------------------------------------------------------------
(* The list drives the alert service through its interface only. *)
LEMMA AlertStep == [Next]_vars => [Alerts!Next]_(Alerts!vars)
<1> SUFFICES ASSUME [Next]_vars PROVE [Alerts!Next]_alertVars
  BY DEF alertVars, Alerts!vars, Alerts!serviceVars, Alerts!historyVars
<1>1. CASE UNCHANGED vars
  BY <1>1 DEF vars
<1>2. CASE UserNext
  BY <1>2, Zenon DEF UserNext, HeaderDelete, HeaderCancel, HeaderCheck, TapRow, TapDelete,
    AnswerCancel, AnswerDone, PullToRefresh, OpenSheet, CloseSheet, SortData, Alerts!Next
<1>3. CASE MainQueueNext
  BY <1>3, Zenon DEF MainQueueNext, AlertPresented, RefreshTrigger, Reloaded, Alerts!Next
<1>4. CASE WindowChanges
  BY <1>4, Zenon DEF WindowChanges, Alerts!Next
<1> QED
  BY <1>1, <1>2, <1>3, <1>4 DEF Next

(* The alerts of the list behave as AlertService says. *)
THEOREM ImplementsAlertService == Spec => Alerts!Spec
<1>1. Init => Alerts!Init
  BY DEF Init
<1> QED
  BY <1>1, AlertStep, PTL DEF Spec, Alerts!Spec

(* The theorems about AlertService, for the alerts of the list. *)
LEMMA SameAlerts ==
  /\ Alerts!TypeOK <=> AlertThms!TypeOK
  /\ Alerts!Init <=> AlertThms!Init
  /\ [Alerts!Next]_(Alerts!vars) <=> [AlertThms!Next]_(AlertThms!vars)
  /\ Alerts!Answer <=> AlertThms!Answer
  /\ Alerts!PresentNext <=> AlertThms!PresentNext
<1> USE DEF Alerts!Alert, AlertThms!Alert, Alerts!NoAlert, AlertThms!NoAlert
<1>1. Alerts!TypeOK <=> AlertThms!TypeOK
  BY DEF Alerts!TypeOK, AlertThms!TypeOK
<1>2. Alerts!Init <=> AlertThms!Init
  BY DEF Alerts!Init, AlertThms!Init
<1>3. Alerts!Dequeue <=> AlertThms!Dequeue
  BY DEF Alerts!Dequeue, AlertThms!Dequeue, Alerts!PostPresent, AlertThms!PostPresent
<1>4. Alerts!Show <=> AlertThms!Show
  BY DEF Alerts!Show, AlertThms!Show, Alerts!Enqueue, AlertThms!Enqueue,
    Alerts!PostPresent, AlertThms!PostPresent
<1>5. Alerts!PresentNext <=> AlertThms!PresentNext
  BY DEF Alerts!PresentNext, AlertThms!PresentNext,
    Alerts!RunPresentBlock, AlertThms!RunPresentBlock
<1>6. Alerts!Answer <=> AlertThms!Answer
  BY <1>3, Zenon DEF Alerts!Answer, AlertThms!Answer, Alerts!Dismiss, AlertThms!Dismiss,
    Alerts!RemoveAt, AlertThms!RemoveAt, Alerts!ToSet, AlertThms!ToSet
<1>7. Alerts!KeyWindowChanges <=> AlertThms!KeyWindowChanges
  BY DEF Alerts!KeyWindowChanges, AlertThms!KeyWindowChanges,
    Alerts!serviceVars, AlertThms!serviceVars, Alerts!historyVars, AlertThms!historyVars
<1>8. Alerts!Next <=> AlertThms!Next
  BY <1>4, <1>5, <1>6, <1>7, Zenon DEF Alerts!Next, AlertThms!Next
<1>9. [Alerts!Next]_(Alerts!vars) <=> [AlertThms!Next]_(AlertThms!vars)
  BY <1>8 DEF Alerts!vars, AlertThms!vars, Alerts!serviceVars, AlertThms!serviceVars,
    Alerts!historyVars, AlertThms!historyVars
<1> QED
  BY <1>1, <1>2, <1>5, <1>6, <1>9

LEMMA SameBehaviours == Alerts!Spec <=> AlertThms!Spec
BY SameAlerts, PTL DEF Alerts!Spec, AlertThms!Spec

LEMMA AlertTypes == Spec => []Alerts!TypeOK
<1>1. AlertThms!Spec => []AlertThms!TypeOK
  BY AlertThms!TypeCorrect, BoundsAssumption
<1> QED
  BY <1>1, SameAlerts, SameBehaviours, ImplementsAlertService, PTL

-----------------------------------------------------------------------------
(* A row number of an array is below its length, and tells its row apart. *)
LEMMA FiniteParts ==
  ASSUME NEW S \in SUBSET Keys
  PROVE  IsFiniteSet(S) /\ Cardinality(S) \in Nat /\ S \subseteq Nat
         /\ Cardinality(S) <= Cardinality(Keys)
BY KeysAssumption, FS_Subset, FS_CardinalityType

LEMMA FewerThan ==
  ASSUME NEW S \in SUBSET Keys, NEW k \in S, NEW P \in SUBSET (S \ {k})
  PROVE  Cardinality(P) \in 0 .. Cardinality(S) - 1
<1>1. IsFiniteSet(S) /\ Cardinality(S) \in Nat
  BY FiniteParts
<1>2. IsFiniteSet(S \ {k}) /\ Cardinality(S \ {k}) = Cardinality(S) - 1
  BY <1>1, FS_RemoveElement
<1>3. IsFiniteSet(P) /\ Cardinality(P) \in Nat /\ Cardinality(P) <= Cardinality(S \ {k})
  BY <1>2, FS_Subset, FS_CardinalityType
<1> QED
  BY <1>1, <1>2, <1>3

LEMMA ServerRowInRange ==
  ASSUME NEW S \in SUBSET Keys, NEW k \in S
  PROVE  ServerRow(S, k) \in 0 .. Cardinality(S) - 1
<1>1. k \in Nat
  BY KeysAssumption
<1>2. {j \in S : j < k} \in SUBSET (S \ {k})
  BY <1>1
<1> QED
  BY <1>2, FewerThan DEF ServerRow

LEMMA TableRowInRange ==
  ASSUME table \in SUBSET Keys, NEW k \in table
  PROVE  TableRow(k) \in 0 .. Cardinality(table) - 1
<1>1. k \in Nat
  BY KeysAssumption
<1>2. {j \in table : j > k} \in SUBSET (table \ {k})
  BY <1>1
<1>3. Cardinality({j \in table : j > k}) \in 0 .. Cardinality(table) - 1
  BY <1>2, FewerThan
<1>4. ServerRow(table, k) \in 0 .. Cardinality(table) - 1
  BY ServerRowInRange
<1> QED
  BY <1>3, <1>4 DEF TableRow

LEMMA ServerRowGrows ==
  ASSUME NEW S \in SUBSET Keys, NEW k \in S, NEW l \in S, k < l
  PROVE  ServerRow(S, k) < ServerRow(S, l)
<1> DEFINE Below(m) == {j \in S : j < m}
<1>1. S \subseteq Nat /\ IsFiniteSet(S)
  BY FiniteParts
<1>2. Below(l) \in SUBSET Keys
  OBVIOUS
<1>3. /\ k \in Below(l)
      /\ Below(k) \in SUBSET (Below(l) \ {k})
  <2>1. \A j \in S : j < k => j < l /\ j # k
    BY <1>1
  <2> QED
    BY <2>1
<1>4. Cardinality(Below(k)) \in 0 .. Cardinality(Below(l)) - 1
  BY <1>2, <1>3, FewerThan
<1>5. Cardinality(Below(l)) \in Nat
  BY <1>2, FiniteParts
<1> QED
  BY <1>4, <1>5 DEF ServerRow

LEMMA ServerRowInjective ==
  ASSUME NEW S \in SUBSET Keys, NEW k \in S, NEW l \in S,
         ServerRow(S, k) = ServerRow(S, l)
  PROVE  k = l
<1>1. k \in Nat /\ l \in Nat
  BY FiniteParts
<1>2. ServerRow(S, k) \in Int /\ ServerRow(S, l) \in Int
  BY ServerRowInRange, FiniteParts
<1>3. ~(k < l) /\ ~(l < k)
  BY <1>2, ServerRowGrows
<1> QED
  BY <1>1, <1>3

-----------------------------------------------------------------------------
(* Types, in two parts: the flags and the data. *)
FlagTypes ==
  /\ deleteMode \in BOOLEAN
  /\ allowsMultipleSelection \in BOOLEAN
  /\ checkButton \in BOOLEAN
  /\ bottomButton \in BOOLEAN
  /\ animating \in BOOLEAN
  /\ sheet \in BOOLEAN
  /\ refreshedInDelete \in BOOLEAN
  /\ crashed \in BOOLEAN
  /\ sortType \in {"download", "size"}

DataTypes ==
  /\ store \in SUBSET Keys
  /\ table = store
  /\ selected \in SUBSET table
  /\ triggers \in Nat
  /\ reloads \in Nat
  /\ triggers + reloads <= MaxPosted

Captures == [rows : SUBSET (0 .. Cardinality(Keys) - 1), keys : SUBSET Keys]

AskedType == asked \in [1 .. MaxAlerts -> Captures]

LEMMA FlagTypesInductive == FlagTypes /\ [Next]_vars => FlagTypes'
<1> SUFFICES ASSUME FlagTypes, [Next]_vars PROVE FlagTypes'
  OBVIOUS
<1> USE DEF FlagTypes, modeVars, selectionVars, refreshVars, dataVars, endVars
<1>1. CASE HeaderDelete
  BY <1>1 DEF HeaderDelete
<1>2. CASE HeaderCancel
  BY <1>2 DEF HeaderCancel, LeaveDeleteMode
<1>3. CASE HeaderCheck
  BY <1>3 DEF HeaderCheck
<1>4. CASE \E k \in table : TapRow(k)
  BY <1>4 DEF TapRow
<1>5. CASE TapDelete
  BY <1>5 DEF TapDelete
<1>6. CASE AnswerCancel
  BY <1>6 DEF AnswerCancel
<1>7. CASE AnswerDone
  BY <1>7 DEF AnswerDone, LeaveDeleteMode
<1>8. CASE AlertPresented
  BY <1>8 DEF AlertPresented
<1>9. CASE WindowChanges
  BY <1>9 DEF WindowChanges
<1>10. CASE PullToRefresh
  BY <1>10 DEF PullToRefresh
<1>11. CASE RefreshTrigger
  BY <1>11 DEF RefreshTrigger
<1>12. CASE Reloaded
  BY <1>12 DEF Reloaded
<1>13. CASE OpenSheet
  BY <1>13 DEF OpenSheet
<1>14. CASE CloseSheet
  BY <1>14 DEF CloseSheet
<1>15. CASE \E type \in {"download", "size"} : SortData(type)
  BY <1>15 DEF SortData
<1>16. CASE UNCHANGED vars
  BY <1>16 DEF vars
<1> QED
  BY <1>1, <1>2, <1>3, <1>4, <1>5, <1>6, <1>7, <1>8, <1>9, <1>10, <1>11, <1>12,
    <1>13, <1>14, <1>15, <1>16 DEF Next, UserNext, MainQueueNext

LEMMA DataTypesInductive == DataTypes /\ [Next]_vars => DataTypes'
<1> SUFFICES ASSUME DataTypes, [Next]_vars PROVE DataTypes'
  OBVIOUS
<1> USE DEF DataTypes, modeVars, selectionVars, refreshVars, dataVars, endVars,
      ReloadData, RoomFor
<1>1. CASE HeaderDelete
  BY <1>1 DEF HeaderDelete
<1>2. CASE HeaderCancel
  BY <1>2 DEF HeaderCancel
<1>3. CASE HeaderCheck
  BY <1>3 DEF HeaderCheck
<1>4. CASE \E k \in table : TapRow(k)
  BY <1>4 DEF TapRow
<1>5. CASE TapDelete
  BY <1>5 DEF TapDelete
<1>6. CASE AnswerCancel
  BY <1>6 DEF AnswerCancel
<1>7. CASE AnswerDone
  BY <1>7 DEF AnswerDone, WithoutRows
<1>8. CASE AlertPresented
  BY <1>8 DEF AlertPresented
<1>9. CASE WindowChanges
  BY <1>9 DEF WindowChanges
<1>10. CASE PullToRefresh
  BY <1>10 DEF PullToRefresh
<1>11. CASE RefreshTrigger
  BY <1>11 DEF RefreshTrigger
<1>12. CASE Reloaded
  <2>1. reloads > 0 /\ reloads' = reloads - 1 /\ UNCHANGED <<store, table, selected, triggers>>
    BY <1>12, Zenon DEF Reloaded
  <2> QED
    BY <2>1, BoundsAssumption
<1>13. CASE OpenSheet
  BY <1>13 DEF OpenSheet
<1>14. CASE CloseSheet
  BY <1>14 DEF CloseSheet
<1>15. CASE \E type \in {"download", "size"} : SortData(type)
  BY <1>15 DEF SortData
<1>16. CASE UNCHANGED vars
  BY <1>16 DEF vars
<1> QED
  BY <1>1, <1>2, <1>3, <1>4, <1>5, <1>6, <1>7, <1>8, <1>9, <1>10, <1>11, <1>12,
    <1>13, <1>14, <1>15, <1>16 DEF Next, UserNext, MainQueueNext

(* What a step does to the store, to the alerts and to what they captured. *)
Asks == /\ Alerts!Show /\ onWindow = <<>> /\ selected # {}
        /\ asked' = [asked EXCEPT ![created + 1] = Ask]
        /\ UNCHANGED <<store, table>>

Deletes == LET rows == asked[AlertOnTop].rows IN
             \/ /\ \A r \in rows : r < Cardinality(store)
                /\ store' = WithoutRows(rows)
                /\ UNCHANGED crashed
             \/ /\ \E r \in rows : r >= Cardinality(store)
                /\ UNCHANGED store

LEMMA AlertSteps ==
  [Next]_vars => \/ UNCHANGED <<store, asked, alertVars>>
                 \/ Asks
                 \/ Alerts!Answer /\ UNCHANGED asked /\ (UNCHANGED <<store, crashed>> \/ Deletes)
                 \/ Alerts!PresentNext /\ UNCHANGED <<store, asked>>
                 \/ Alerts!KeyWindowChanges /\ UNCHANGED <<store, asked>>
<1> SUFFICES ASSUME [Next]_vars PROVE
      \/ UNCHANGED <<store, asked, alertVars>>
      \/ Asks
      \/ Alerts!Answer /\ UNCHANGED asked /\ (UNCHANGED <<store, crashed>> \/ Deletes)
      \/ Alerts!PresentNext /\ UNCHANGED <<store, asked>>
      \/ Alerts!KeyWindowChanges /\ UNCHANGED <<store, asked>>
  OBVIOUS
<1> USE DEF dataVars, endVars
<1>1. CASE TapDelete
  BY <1>1, Zenon DEF TapDelete, Touchable, Asks
<1>2. CASE AnswerDone
  BY <1>2, Zenon DEF AnswerDone, Deletes
<1>3. CASE AnswerCancel \/ AlertPresented \/ WindowChanges
  BY <1>3, Zenon DEF AnswerCancel, AlertPresented, WindowChanges
<1>4. CASE UNCHANGED vars
  BY <1>4 DEF vars
<1> QED
  BY <1>1, <1>2, <1>3, <1>4, Zenon DEF Next, UserNext, MainQueueNext, HeaderDelete,
    HeaderCancel, HeaderCheck, TapRow, PullToRefresh, OpenSheet, CloseSheet, SortData,
    RefreshTrigger, Reloaded

LEMMA ShowNumbersAlert ==
  ASSUME Alerts!TypeOK, Alerts!Show
  PROVE  created + 1 \in 1 .. MaxAlerts
<1>1. created \in 0 .. MaxAlerts /\ created < MaxAlerts
  BY DEF Alerts!TypeOK, Alerts!Show
<1> QED
  BY <1>1, BoundsAssumption

LEMMA AskedInductive == DataTypes /\ Alerts!TypeOK /\ AskedType /\ [Next]_vars => AskedType'
<1> SUFFICES ASSUME DataTypes, Alerts!TypeOK, AskedType, [Next]_vars PROVE AskedType'
  OBVIOUS
<1>1. Ask \in Captures
  <2>1. table \in SUBSET Keys /\ selected \in SUBSET table
    BY DEF DataTypes
  <2>2. \A k \in selected : TableRow(k) \in 0 .. Cardinality(Keys) - 1
    <3> TAKE k \in selected
    <3>1. TableRow(k) \in 0 .. Cardinality(table) - 1
      BY <2>1, TableRowInRange
    <3>2. /\ Cardinality(table) \in Nat /\ Cardinality(table) <= Cardinality(Keys)
          /\ Cardinality(Keys) \in Nat
      BY <2>1, FiniteParts
    <3> QED
      BY <3>1, <3>2
  <2>3. TableRows(selected) \in SUBSET (0 .. Cardinality(Keys) - 1)
    BY <2>2 DEF TableRows
  <2> QED
    BY <2>1, <2>3 DEF Ask, Captures
<1>2. CASE Asks
  BY <1>1, <1>2, ShowNumbersAlert DEF AskedType, Asks
<1> QED
  BY <1>2, AlertSteps DEF AskedType

Types == FlagTypes /\ DataTypes /\ AskedType /\ Alerts!TypeOK

LEMMA SplitTypes == Types => TypeOK
<1>1. DataTypes => triggers \in 0 .. MaxPosted /\ reloads \in 0 .. MaxPosted
  BY BoundsAssumption DEF DataTypes
<1> QED
  BY <1>1 DEF Types, FlagTypes, DataTypes, AskedType, Captures, TypeOK

LEMMA TypesAlways == Spec => []Types
<1>1. Init => FlagTypes
  BY DEF Init, FlagTypes
<1>2. Init => DataTypes
  BY BoundsAssumption DEF Init, DataTypes
<1>3. Init => AskedType
  BY DEF Init, AskedType, Captures, NothingAsked
<1> QED
  BY <1>1, <1>2, <1>3, AlertTypes, FlagTypesInductive, DataTypesInductive, AskedInductive,
    PTL DEF Spec, Types

(* The list's fields and what the alerts captured keep their types. *)
THEOREM TypeCorrect == Spec => []TypeOK
BY TypesAlways, SplitTypes, PTL

-----------------------------------------------------------------------------
(* The list in delete mode, its view model and its header. *)
LEMMA NoDetailInductive == NoDetailInDeleteMode /\ [Next]_vars => NoDetailInDeleteMode'
<1> SUFFICES ASSUME NoDetailInDeleteMode, [Next]_vars PROVE NoDetailInDeleteMode'
  OBVIOUS
<1> USE DEF NoDetailInDeleteMode, modeVars
<1>1. CASE UNCHANGED modeVars
  BY <1>1
<1>2. CASE HeaderDelete \/ HeaderCancel \/ AnswerDone
  BY <1>2, Zenon DEF HeaderDelete, HeaderCancel, AnswerDone, LeaveDeleteMode
<1>3. CASE UserNext
  BY <1>1, <1>2, <1>3, Zenon DEF UserNext, HeaderCheck, TapRow, TapDelete, AnswerCancel,
    PullToRefresh, OpenSheet, CloseSheet, SortData
<1>4. CASE MainQueueNext
  BY <1>1, <1>4, Zenon DEF MainQueueNext, AlertPresented, RefreshTrigger, Reloaded
<1>5. CASE WindowChanges
  BY <1>1, <1>5 DEF WindowChanges
<1>6. CASE UNCHANGED vars
  BY <1>1, <1>6 DEF vars
<1> QED
  BY <1>3, <1>4, <1>5, <1>6 DEF Next

(* The view model is in delete mode whenever the table is. *)
THEOREM NoDetail == Spec => []NoDetailInDeleteMode
<1>1. Init => NoDetailInDeleteMode
  BY DEF Init, NoDetailInDeleteMode
<1> QED
  BY <1>1, NoDetailInductive, PTL DEF Spec

LEMMA CheckedInductive ==
  Types /\ AllSelectedImpliesChecked /\ [Next]_vars => AllSelectedImpliesChecked'
<1> SUFFICES ASSUME Types, AllSelectedImpliesChecked, [Next]_vars,
                    table' # {}, selected' = table'
             PROVE  checkButton'
  BY DEF AllSelectedImpliesChecked
<1> USE DEF AllSelectedImpliesChecked, selectionVars, dataVars
<1>1. CASE UNCHANGED <<table, selected, checkButton>>
  BY <1>1
<1>2. selected' # {}
  OBVIOUS
<1>3. CASE HeaderCheck
  BY <1>3, <1>2, Zenon DEF HeaderCheck, Types, FlagTypes
<1>4. CASE \E k \in table : TapRow(k)
  BY <1>4, Zenon DEF TapRow
<1>5. CASE UserNext
  BY <1>1, <1>2, <1>3, <1>4, <1>5, Zenon DEF UserNext, HeaderDelete, HeaderCancel, TapDelete,
    AnswerCancel, AnswerDone, PullToRefresh, OpenSheet, CloseSheet, SortData, ReloadData
<1>6. CASE MainQueueNext
  BY <1>1, <1>2, <1>6, Zenon DEF MainQueueNext, AlertPresented, RefreshTrigger, Reloaded,
    ReloadData
<1>7. CASE WindowChanges
  BY <1>1, <1>7 DEF WindowChanges
<1>8. CASE UNCHANGED vars
  BY <1>1, <1>8 DEF vars
<1> QED
  BY <1>5, <1>6, <1>7, <1>8 DEF Next

(* The header's box is checked whenever every row is selected. *)
THEOREM AllSelectedChecked == Spec => []AllSelectedImpliesChecked
<1>1. Init => AllSelectedImpliesChecked
  BY DEF Init, AllSelectedImpliesChecked
<1> QED
  BY <1>1, TypesAlways, CheckedInductive, PTL DEF Spec

-----------------------------------------------------------------------------
(* What the actions do to the refresh control and to the posted work. *)
LEMMA RefreshSteps ==
  [Next]_vars =>
    \/ UNCHANGED <<animating, triggers, reloads, allowsMultipleSelection>>
    \/ reloads' \in {reloads + 1, reloads + 2}
    \/ triggers' = triggers + 1
    \/ animating' => allowsMultipleSelection'
<1> SUFFICES ASSUME [Next]_vars PROVE
      \/ UNCHANGED <<animating, triggers, reloads, allowsMultipleSelection>>
      \/ reloads' \in {reloads + 1, reloads + 2}
      \/ triggers' = triggers + 1
      \/ animating' => allowsMultipleSelection'
  OBVIOUS
<1> USE DEF refreshVars, modeVars
<1>1. CASE Reloaded
  BY <1>1, Zenon DEF Reloaded
<1>2. CASE UserNext
  BY <1>2, Zenon DEF UserNext, HeaderDelete, HeaderCancel, HeaderCheck, TapRow, TapDelete,
    AnswerCancel, AnswerDone, PullToRefresh, OpenSheet, CloseSheet, SortData, ReloadData
<1>3. CASE AlertPresented \/ RefreshTrigger
  BY <1>3, Zenon DEF AlertPresented, RefreshTrigger, ReloadData
<1>4. CASE WindowChanges
  BY <1>4 DEF WindowChanges
<1>5. CASE UNCHANGED vars
  BY <1>5 DEF vars
<1> QED
  BY <1>1, <1>2, <1>3, <1>4, <1>5 DEF Next, MainQueueNext

LEMMA RefreshInductive == Types /\ Types' /\ RefreshCanEnd /\ [Next]_vars => RefreshCanEnd'
<1> SUFFICES ASSUME DataTypes, DataTypes', RefreshCanEnd, [Next]_vars,
                    animating', ~allowsMultipleSelection'
             PROVE  triggers' > 0 \/ reloads' > 0
  BY DEF Types, RefreshCanEnd
<1>1. triggers \in Nat /\ reloads \in Nat /\ triggers' \in Nat /\ reloads' \in Nat
  BY DEF DataTypes
<1>2. CASE UNCHANGED <<animating, triggers, reloads, allowsMultipleSelection>>
  BY <1>2 DEF RefreshCanEnd
<1>3. CASE reloads' \in {reloads + 1, reloads + 2} \/ triggers' = triggers + 1
  BY <1>1, <1>3
<1> QED
  BY <1>2, <1>3, RefreshSteps

(* A refresh that is running outside of delete mode has what will end it. *)
THEOREM RefreshHasAnEnd == Spec => []RefreshCanEnd
<1>1. Init => RefreshCanEnd
  BY DEF Init, RefreshCanEnd
<1> QED
  BY <1>1, TypesAlways, RefreshInductive, PTL DEF Spec

-----------------------------------------------------------------------------
(* No alert of the list ever waits in the service's queue: the list cannot  *)
(* be touched under an alert, and the service is presenting only then.      *)
NoneWaits == queue = <<>> /\ (isPresenting => onWindow # <<>>)

LEMMA NoneWaitsInductive ==
  Alerts!TypeOK /\ NoneWaits /\ [Next]_vars => NoneWaits'
<1> SUFFICES ASSUME Alerts!TypeOK, NoneWaits, [Next]_vars PROVE NoneWaits'
  OBVIOUS
<1> USE DEF NoneWaits
<1>1. CASE UNCHANGED alertVars
  BY <1>1 DEF alertVars
<1>2. CASE Asks
  BY <1>2, Zenon DEF Asks, Alerts!Show, Alerts!Enqueue
<1>3. CASE Alerts!Answer
  BY <1>3, Zenon DEF Alerts!Answer, Alerts!Dismiss, Alerts!Dequeue
<1>4. CASE Alerts!PresentNext
  <2>1. posted # <<>> /\ posted \in Seq(Alerts!Alert) /\ onWindow \in Seq(Alerts!Alert)
    BY <1>4 DEF Alerts!PresentNext, Alerts!RunPresentBlock, Alerts!TypeOK
  <2>2. Append(onWindow, Head(posted)) # <<>>
    BY <2>1
  <2>3. queue' = <<>>
    BY <1>4 DEF Alerts!PresentNext, Alerts!RunPresentBlock
  <2>4. \/ onWindow' = Append(onWindow, Head(posted))
        \/ UNCHANGED <<isPresenting, onWindow>>
    BY <1>4, Zenon DEF Alerts!PresentNext, Alerts!RunPresentBlock
  <2>5. onWindow' # <<>> \/ UNCHANGED <<isPresenting, onWindow>>
    BY ONLY <2>2, <2>4
  <2> QED
    BY <2>3, <2>5
<1>5. CASE Alerts!KeyWindowChanges
  BY <1>5 DEF Alerts!KeyWindowChanges, Alerts!serviceVars
<1> QED
  BY <1>1, <1>2, <1>3, <1>4, <1>5, AlertSteps

LEMMA NoneWaitsAlways == Spec => []NoneWaits
<1>1. Init => NoneWaits
  BY DEF Init, NoneWaits, Alerts!Init
<1> QED
  BY <1>1, AlertTypes, NoneWaitsInductive, PTL DEF Spec

-----------------------------------------------------------------------------
(* Without a race, what a pending alert captured stays true of the store:   *)
(* its row numbers are below the length of the array and, in the tabs that  *)
(* do not sort, they are those of the rows the user selected.               *)
Pending ==
  {posted[i] : i \in 1 .. Len(posted)} \cup {onWindow[i] : i \in 1 .. Len(onWindow)}

InRange(a) == \A r \in asked[a].rows : r \in 0 .. Cardinality(store) - 1

Exact(a) ==
  /\ asked[a].keys \in SUBSET store
  /\ asked[a].rows = {ServerRow(store, k) : k \in asked[a].keys}

AskedFits == ~raced => \A a \in Pending : InRange(a) /\ (Detail # "download" => Exact(a))

LEMMA AtMostOneAlert == Spec => []AlertThms!AtMostOne
<1>1. AlertThms!Spec => []AlertThms!AtMostOne
  BY AlertThms!AtMostOneAlways, BoundsAssumption
<1> QED
  BY <1>1, SameAlerts, SameBehaviours, ImplementsAlertService, PTL

LEMMA PendingAfterShow ==
  ASSUME NoneWaits, Alerts!Show, onWindow = <<>>, ~raced'
  PROVE  Pending' = {created + 1} /\ UNCHANGED onWindow
<1>1. ~isPresenting
  BY DEF NoneWaits
<1>2. posted = <<>> /\ posted' = Append(posted, created + 1) /\ UNCHANGED onWindow
  BY <1>1, Zenon DEF Alerts!Show, Alerts!Enqueue, Alerts!PostPresent
<1>3. Len(posted') = 1 /\ posted'[1] = created + 1 /\ Len(onWindow') = 0
  BY <1>2
<1>4. 1 .. Len(posted') = {1} /\ 1 .. Len(onWindow') = {}
  BY <1>3
<1>5. {posted'[i] : i \in 1 .. Len(posted')} = {created + 1}
  BY ONLY <1>3, <1>4
<1>6. {onWindow'[i] : i \in 1 .. Len(onWindow')} = {}
  BY ONLY <1>4
<1> QED
  BY <1>2, <1>5, <1>6, Zenon DEF Pending

LEMMA PendingAfterAnswer ==
  ASSUME Alerts!TypeOK, AlertThms!AtMostOne, NoneWaits, Alerts!Answer, ~raced
  PROVE  /\ Pending' = {}
         /\ Len(onWindow) = 1 /\ onWindow[Len(onWindow)] \in Pending
<1>1. AlertThms!DataTypes /\ AlertThms!Answer
  BY SameAlerts, AlertThms!SplitTypes, BoundsAssumption
<1>2. Len(onWindow) = 1 /\ posted = <<>> /\ onWindow' = <<>>
  BY <1>1, AlertThms!AnswerAlone, BoundsAssumption
<1>3. posted' = posted
  BY Zenon DEF NoneWaits, Alerts!Answer, Alerts!Dismiss, Alerts!Dequeue
<1>4. 1 .. Len(posted') = {} /\ 1 .. Len(onWindow') = {} /\ 1 \in 1 .. Len(onWindow)
  BY <1>2, <1>3
<1> QED
  BY <1>2, <1>4, Zenon DEF Pending

LEMMA PendingAfterPresent ==
  ASSUME Alerts!TypeOK, AlertThms!AtMostOne, Alerts!PresentNext, ~raced
  PROVE  Pending' \subseteq Pending
<1>1. AlertThms!DataTypes /\ AlertThms!PresentNext
  BY SameAlerts, AlertThms!SplitTypes, BoundsAssumption
<1>2. /\ Len(posted) = 1 /\ onWindow = <<>> /\ posted' = <<>>
      /\ \/ Len(onWindow') = 1 /\ onWindow'[1] = posted[1]
         \/ onWindow' = <<>>
  BY <1>1, AlertThms!PresentAlone, BoundsAssumption
<1>3. 1 .. Len(posted') = {} /\ 1 \in 1 .. Len(posted)
  BY <1>2
<1>4. ASSUME Len(onWindow') = 1 PROVE 1 .. Len(onWindow') = {1}
  BY <1>4
<1>5. ASSUME onWindow' = <<>> PROVE 1 .. Len(onWindow') = {}
  BY <1>5
<1>6. \/ 1 .. Len(onWindow') = {1} /\ onWindow'[1] = posted[1]
      \/ 1 .. Len(onWindow') = {}
  BY <1>2, <1>4, <1>5, Zenon
<1> QED
  BY <1>3, <1>6, Zenon DEF Pending

LEMMA RaceRemains == [Next]_vars /\ ~raced' => ~raced
<1>1. Alerts!Dequeue => (raced => raced')
  BY Zenon DEF Alerts!Dequeue, Alerts!PostPresent
<1> QED
  BY <1>1, AlertSteps, Zenon DEF Asks, alertVars, Alerts!Show, Alerts!Enqueue,
    Alerts!PostPresent, Alerts!Answer, Alerts!Dismiss, Alerts!PresentNext,
    Alerts!RunPresentBlock, Alerts!KeyWindowChanges, Alerts!historyVars

LEMMA AskedFitsNow ==
  ASSUME Types, selected # {}
  PROVE  /\ \A r \in Ask.rows : r \in 0 .. Cardinality(store) - 1
         /\ Ask.keys \in SUBSET store
         /\ Detail # "download" => Ask.rows = {ServerRow(store, k) : k \in Ask.keys}
<1>1. store \in SUBSET Keys /\ table = store /\ selected \in SUBSET table
  BY DEF Types, DataTypes
<1>2. \A k \in selected : TableRow(k) \in 0 .. Cardinality(store) - 1
  BY <1>1, TableRowInRange
<1>3. Detail # "download" => \A k \in selected : TableRow(k) = ServerRow(store, k)
  BY <1>1 DEF TableRow, NewestFirst
<1> QED
  BY <1>1, <1>2, <1>3 DEF Ask, TableRows

LEMMA AskedFitsInductive ==
  Types /\ AlertThms!AtMostOne /\ NoneWaits /\ AskedFits /\ [Next]_vars => AskedFits'
<1> SUFFICES ASSUME Types, AlertThms!AtMostOne, NoneWaits, AskedFits, [Next]_vars, ~raced',
                    NEW a \in Pending'
             PROVE  (InRange(a) /\ (Detail # "download" => Exact(a)))'
  BY DEF AskedFits
<1>1. ~raced /\ Alerts!TypeOK
  BY RaceRemains DEF Types
<1>2. CASE UNCHANGED <<store, asked>> /\ Pending' \subseteq Pending
  BY <1>1, <1>2 DEF AskedFits, InRange, Exact
<1>3. CASE Asks
  <2>1. a = created + 1 /\ created + 1 \in 1 .. MaxAlerts
    BY <1>1, <1>3, PendingAfterShow, ShowNumbersAlert DEF Asks
  <2>2. asked'[a] = Ask /\ store' = store
    BY <1>3, <2>1 DEF Asks, Types, AskedType
  <2>3. selected # {}
    BY <1>3 DEF Asks
  <2> QED
    BY <2>2, <2>3, AskedFitsNow DEF InRange, Exact
<1>4. CASE Alerts!Answer
  BY <1>1, <1>4, PendingAfterAnswer
<1>5. CASE Alerts!PresentNext /\ UNCHANGED <<store, asked>>
  BY <1>1, <1>2, <1>5, PendingAfterPresent
<1>6. CASE UNCHANGED <<posted, onWindow, store, asked>>
  BY <1>2, <1>6 DEF Pending
<1> QED
  BY <1>3, <1>4, <1>5, <1>6, AlertSteps, Zenon DEF alertVars, Alerts!KeyWindowChanges,
    Alerts!serviceVars

LEMMA AskedFitsAlways == Spec => []AskedFits
<1>1. Init => AskedFits
  BY DEF Init, AskedFits, Pending, Alerts!Init
<1> QED
  BY <1>1, TypesAlways, AtMostOneAlert, NoneWaitsAlways, AskedFitsInductive, PTL DEF Spec

-----------------------------------------------------------------------------
(* In the tabs that do not sort, the rows that go are the rows confirmed. *)
LEMMA DeletesConfirmed ==
  ASSUME NEW keys \in SUBSET store, store \in SUBSET Keys
  PROVE  WithoutRows({ServerRow(store, k) : k \in keys}) = store \ keys
<1>1. \A k \in store, l \in keys : ServerRow(store, k) = ServerRow(store, l) => k = l
  BY ServerRowInjective
<1> QED
  BY <1>1 DEF WithoutRows

THEOREM ConfirmedDeleted ==
  ASSUME Detail # "download"
  PROVE  Spec => ConfirmedIsDeleted
<1>1. Types /\ AlertThms!AtMostOne /\ NoneWaits /\ AskedFits /\ [Next]_vars
        => [~raced /\ store' # store => store' = store \ asked[AlertOnTop].keys]_vars
  <2> SUFFICES ASSUME Types, AlertThms!AtMostOne, NoneWaits, AskedFits, [Next]_vars,
                      ~raced, store' # store
               PROVE  store' = store \ asked[AlertOnTop].keys
    OBVIOUS
  <2>1. Alerts!Answer /\ Deletes
    BY AlertSteps DEF Asks
  <2>2. store' = WithoutRows(asked[AlertOnTop].rows)
    BY <2>1 DEF Deletes
  <2>3. AlertOnTop \in Pending
    BY <2>1, PendingAfterAnswer DEF AlertOnTop, Types
  <2>4. Exact(AlertOnTop)
    BY <2>3 DEF AskedFits
  <2>5. store \in SUBSET Keys
    BY DEF Types, DataTypes
  <2> QED
    BY <2>2, <2>4, <2>5, DeletesConfirmed DEF Exact
<1> QED
  BY <1>1, TypesAlways, AtMostOneAlert, NoneWaitsAlways, AskedFitsAlways,
    PTL DEF Spec, ConfirmedIsDeleted

-----------------------------------------------------------------------------
(* On the sorted tab too it is known which rows go: the confirmed ones, or, *)
(* if the newest row came first when they were selected, those that stand   *)
(* as far from the start of the store as the confirmed ones do from its end. *)
After(k) == Cardinality({j \in store : j > k})

Mirrored(keys) == {k \in store : \E m \in keys : ServerRow(store, k) = After(m)}

Numbers(keys) == {{ServerRow(store, k) : k \in keys}, {After(k) : k \in keys}}

Captured ==
  ~raced => \A a \in Pending :
              /\ asked[a].keys \in SUBSET store
              /\ asked[a].rows \in Numbers(asked[a].keys)

LEMMA CapturedNow ==
  ASSUME Types
  PROVE  Ask.keys \in SUBSET store /\ Ask.rows \in Numbers(Ask.keys)
<1>1. table = store /\ selected \in SUBSET store
  BY DEF Types, DataTypes
<1>2. CASE NewestFirst
  <2>1. \A k : TableRow(k) = After(k)
    BY Zenon, <1>1, <1>2 DEF TableRow, After
  <2> QED
    BY <1>1, <2>1 DEF Ask, TableRows, Numbers
<1>3. CASE ~NewestFirst
  <2>1. \A k : TableRow(k) = ServerRow(store, k)
    BY Zenon, <1>1, <1>3 DEF TableRow
  <2> QED
    BY <1>1, <2>1 DEF Ask, TableRows, Numbers
<1> QED
  BY <1>2, <1>3

LEMMA CapturedInductive ==
  Types /\ AlertThms!AtMostOne /\ NoneWaits /\ Captured /\ [Next]_vars => Captured'
<1> SUFFICES ASSUME Types, AlertThms!AtMostOne, NoneWaits, Captured, [Next]_vars, ~raced',
                    NEW a \in Pending'
             PROVE  /\ asked'[a].keys \in SUBSET store'
                    /\ asked'[a].rows \in Numbers(asked[a].keys)'
  BY DEF Captured
<1>1. ~raced /\ Alerts!TypeOK
  BY RaceRemains DEF Types
<1>2. CASE UNCHANGED <<store, asked>> /\ Pending' \subseteq Pending
  <2>1. a \in Pending /\ asked' = asked /\ store' = store
    BY <1>2
  <2>2. asked[a].keys \in SUBSET store /\ asked[a].rows \in Numbers(asked[a].keys)
    BY Zenon, <1>1, <2>1 DEF Captured
  <2>3. Numbers(asked[a].keys)' = Numbers(asked[a].keys)
    BY Zenon, <2>1 DEF Numbers, After, ServerRow
  <2> QED
    BY Zenon, <2>1, <2>2, <2>3
<1>3. CASE Asks
  <2>1. a = created + 1 /\ created + 1 \in 1 .. MaxAlerts
    BY <1>1, <1>3, PendingAfterShow, ShowNumbersAlert DEF Asks
  <2>2. asked'[a] = Ask /\ store' = store
    BY <1>3, <2>1 DEF Asks, Types, AskedType
  <2>3. Numbers(asked[a].keys)' = Numbers(Ask.keys)
    BY Zenon, <2>2 DEF Numbers, After, ServerRow
  <2> QED
    BY Zenon, <2>2, <2>3, CapturedNow
<1>4. CASE Alerts!Answer
  BY <1>1, <1>4, PendingAfterAnswer
<1>5. CASE Alerts!PresentNext /\ UNCHANGED <<store, asked>>
  BY <1>1, <1>2, <1>5, PendingAfterPresent
<1>6. CASE UNCHANGED <<posted, onWindow, store, asked>>
  BY <1>2, <1>6 DEF Pending
<1> QED
  BY <1>3, <1>4, <1>5, <1>6, AlertSteps, Zenon DEF alertVars, Alerts!KeyWindowChanges,
    Alerts!serviceVars

(* On every tab, a deletion that no second confirmation raced with removes  *)
(* the rows that were confirmed or their mirror images (WithoutRows reads   *)
(* the numbers of the table's rows, which may be sorted, in the store's     *)
(* order); no other row goes, and none of them is left.                     *)
THEOREM ConfirmedOrMirroredDeleted ==
  Spec => [][~raced /\ store' # store =>
               \/ store' = store \ asked[AlertOnTop].keys
               \/ store' = store \ Mirrored(asked[AlertOnTop].keys)]_vars
<1>1. Init => Captured
  BY DEF Init, Captured, Pending, Alerts!Init
<1>2. Types /\ AlertThms!AtMostOne /\ NoneWaits /\ Captured /\ [Next]_vars
        => [~raced /\ store' # store =>
               \/ store' = store \ asked[AlertOnTop].keys
               \/ store' = store \ Mirrored(asked[AlertOnTop].keys)]_vars
  <2> SUFFICES ASSUME Types, AlertThms!AtMostOne, NoneWaits, Captured, [Next]_vars,
                      ~raced, store' # store
               PROVE  \/ store' = store \ asked[AlertOnTop].keys
                      \/ store' = store \ Mirrored(asked[AlertOnTop].keys)
    OBVIOUS
  <2>1. Alerts!Answer /\ Deletes
    BY AlertSteps DEF Asks
  <2>2. store' = WithoutRows(asked[AlertOnTop].rows)
    BY <2>1 DEF Deletes
  <2>3. AlertOnTop \in Pending
    BY <2>1, PendingAfterAnswer DEF AlertOnTop, Types
  <2> DEFINE keys == asked[AlertOnTop].keys
  <2>4. /\ keys \in SUBSET store
        /\ asked[AlertOnTop].rows \in Numbers(keys)
        /\ store \in SUBSET Keys
    BY <2>3 DEF Captured, Types, DataTypes
  <2>5. CASE asked[AlertOnTop].rows = {ServerRow(store, k) : k \in keys}
    BY <2>2, <2>4, <2>5, DeletesConfirmed
  <2>6. CASE asked[AlertOnTop].rows = {After(k) : k \in keys}
    <3>1. WithoutRows({After(k) : k \in keys}) = store \ Mirrored(keys)
      BY DEF WithoutRows, Mirrored
    <3> QED
      BY Zenon, <2>2, <2>6, <3>1
  <2> QED
    BY Zenon, <2>4, <2>5, <2>6 DEF Numbers
<1> QED
  BY <1>1, <1>2, TypesAlways, AtMostOneAlert, NoneWaitsAlways, CapturedInductive,
    PTL DEF Spec

-----------------------------------------------------------------------------
(* On every tab a deletion removes as many rows as were confirmed: the row  *)
(* numbers of the table are as many as the selected rows, and every number  *)
(* below the length of the store's array is the number of a row.            *)
LEMMA SameCount ==
  ASSUME NEW S, IsFiniteSet(S), NEW T, NEW f \in [S -> T],
         \A a, b \in S : f[a] = f[b] => a = b,
         \A t \in T : \E a \in S : f[a] = t
  PROVE  Cardinality(T) = Cardinality(S)
<1>1. f \in Bijection(S, T)
  BY DEF Bijection, Injection, Surjection, IsInjective
<1> QED
  BY <1>1, FS_Bijection DEF ExistsBijection

LEMMA OntoByCount ==
  ASSUME NEW S, NEW T, IsFiniteSet(S), IsFiniteSet(T), Cardinality(S) = Cardinality(T),
         NEW f \in [S -> T], \A a, b \in S : f[a] = f[b] => a = b
  PROVE  \A t \in T : \E a \in S : f[a] = t
<1>1. f \in Injection(S, T)
  BY DEF Injection, IsInjective
<1>2. f \in Surjection(S, T)
  BY <1>1, FS_Injection
<1> QED
  BY <1>2 DEF Surjection

LEMMA ServerRowOnto ==
  ASSUME NEW S \in SUBSET Keys, NEW r \in 0 .. Cardinality(S) - 1
  PROVE  \E k \in S : ServerRow(S, k) = r
<1> DEFINE n == Cardinality(S)
           row == [k \in S |-> ServerRow(S, k)]
<1>1. n \in Nat /\ IsFiniteSet(S)
  BY FiniteParts
<1>2. row \in [S -> 0 .. n - 1]
  BY ServerRowInRange
<1>3. \A k, l \in S : row[k] = row[l] => k = l
  BY ServerRowInjective
<1>4. IsFiniteSet(0 .. n - 1) /\ Cardinality(0 .. n - 1) = n
  BY <1>1, FS_Interval
<1>5. \A q \in 0 .. n - 1 : \E k \in S : row[k] = q
  <2> DEFINE T == 0 .. n - 1
  <2>1. IsFiniteSet(T) /\ Cardinality(S) = Cardinality(T) /\ row \in [S -> T]
    BY <1>2, <1>4
  <2> HIDE DEF row, T
  <2>2. \A q \in T : \E k \in S : row[k] = q
    BY <1>1, <1>3, <2>1, OntoByCount
  <2> QED
    BY <2>2 DEF T
<1> QED
  BY <1>5

LEMMA DeletesAsMany ==
  ASSUME store \in SUBSET Keys, NEW rows \in SUBSET (0 .. Cardinality(store) - 1)
  PROVE  Cardinality(store \ WithoutRows(rows)) = Cardinality(rows)
<1> DEFINE gone == {k \in store : ServerRow(store, k) \in rows}
           row == [k \in gone |-> ServerRow(store, k)]
<1>1. store \ WithoutRows(rows) = gone
  BY DEF WithoutRows
<1>2. IsFiniteSet(gone)
  BY FiniteParts
<1>3. \A k, l \in gone : row[k] = row[l] => k = l
  BY ServerRowInjective
<1>4. \A r \in rows : \E k \in gone : row[k] = r
  BY ServerRowOnto
<1>5. row \in [gone -> rows]
  OBVIOUS
<1>6. Cardinality(rows) = Cardinality(gone)
  <2> HIDE DEF row, gone
  <2> QED
    BY <1>2, <1>3, <1>4, <1>5, SameCount
<1> QED
  BY <1>1, <1>6

LEMMA NewestRowFalls ==
  ASSUME table \in SUBSET Keys, NEW k \in table, NEW l \in table, k < l
  PROVE  Cardinality({j \in table : j > k}) # Cardinality({j \in table : j > l})
<1> DEFINE Above(m) == {j \in table : j > m}
<1>1. table \subseteq Nat
  BY FiniteParts
<1>2. /\ Above(k) \in SUBSET Keys
      /\ l \in Above(k)
      /\ Above(l) \in SUBSET (Above(k) \ {l})
  <2>1. \A j \in table : j > l => j > k /\ j # l
    BY <1>1
  <2> QED
    BY <2>1
<1>3. Cardinality(Above(l)) \in 0 .. Cardinality(Above(k)) - 1
  BY <1>2, FewerThan
<1>4. Cardinality(Above(k)) \in Nat
  BY <1>2, FiniteParts
<1> QED
  BY <1>3, <1>4

LEMMA TableRowInjective ==
  ASSUME table \in SUBSET Keys, NEW k \in table, NEW l \in table,
         TableRow(k) = TableRow(l)
  PROVE  k = l
<1>1. k \in Nat /\ l \in Nat
  BY FiniteParts
<1>2. CASE NewestFirst
  BY <1>1, <1>2, NewestRowFalls DEF TableRow
<1>3. CASE ~NewestFirst
  BY <1>3, ServerRowInjective DEF TableRow
<1> QED
  BY <1>2, <1>3

LEMMA AsksAsMany ==
  ASSUME table \in SUBSET Keys, selected \in SUBSET table
  PROVE  Cardinality(Ask.rows) = Cardinality(Ask.keys)
<1> DEFINE row == [k \in selected |-> TableRow(k)]
<1>1. IsFiniteSet(selected)
  BY FiniteParts
<1>2. \A k, l \in selected : row[k] = row[l] => k = l
  BY TableRowInjective
<1>3. row \in [selected -> TableRows(selected)]
  BY DEF TableRows
<1>4. \A r \in TableRows(selected) : \E k \in selected : row[k] = r
  BY DEF TableRows
<1>5. Cardinality(TableRows(selected)) = Cardinality(selected)
  <2> HIDE DEF row
  <2> QED
    BY <1>1, <1>2, <1>3, <1>4, SameCount
<1> QED
  BY <1>5 DEF Ask

LEMMA OnlyElement ==
  ASSUME NEW S, NEW s \in Seq(S), Len(s) = 1
  PROVE  s[1] \in S
OBVIOUS

(* Every alert captured as many row numbers as the user saw rows. *)
AskedAsMany ==
  \A a \in 1 .. MaxAlerts : Cardinality(asked[a].rows) = Cardinality(asked[a].keys)

LEMMA AskedAsManyInductive == Types /\ AskedAsMany /\ [Next]_vars => AskedAsMany'
<1> SUFFICES ASSUME Types, AskedAsMany, [Next]_vars PROVE AskedAsMany'
  OBVIOUS
<1>1. CASE Asks
  <2>1. Cardinality(Ask.rows) = Cardinality(Ask.keys)
    BY AsksAsMany DEF Types, DataTypes
  <2>2. asked' = [asked EXCEPT ![created + 1] = Ask]
    BY <1>1 DEF Asks
  <2>3. \A a \in 1 .. MaxAlerts : asked'[a] = asked[a] \/ asked'[a] = Ask
    BY <2>2 DEF Types, AskedType
  <2> QED
    BY <2>1, <2>3 DEF AskedAsMany
<1> QED
  BY <1>1, AlertSteps DEF AskedAsMany

(* AsManyDeleted, on every tab. *)
THEOREM AsManyAreDeleted == Spec => AsManyDeleted
<1>1. Init => AskedAsMany
  <2> SUFFICES ASSUME Init, NEW a \in 1 .. MaxAlerts
               PROVE  asked[a].rows = asked[a].keys
    BY DEF AskedAsMany
  <2>1. asked[a] = NothingAsked
    BY DEF Init
  <2> QED
    BY <2>1 DEF NothingAsked
<1>2. Types /\ AlertThms!AtMostOne /\ NoneWaits /\ AskedFits /\ AskedAsMany /\ [Next]_vars
        => [~raced /\ store' # store =>
              Cardinality(store \ store') = Cardinality(asked[AlertOnTop].keys)]_vars
  <2> SUFFICES ASSUME Types, AlertThms!AtMostOne, NoneWaits, AskedFits, AskedAsMany,
                      [Next]_vars, ~raced, store' # store
               PROVE  Cardinality(store \ store') = Cardinality(asked[AlertOnTop].keys)
    OBVIOUS
  <2>1. Alerts!Answer /\ Deletes
    BY AlertSteps DEF Asks
  <2>2. store' = WithoutRows(asked[AlertOnTop].rows)
    BY <2>1 DEF Deletes
  <2>3. AlertOnTop \in Pending /\ Len(onWindow) = 1
    BY <2>1, PendingAfterAnswer DEF AlertOnTop, Types
  <2>4. AlertOnTop \in 1 .. MaxAlerts
    <3>1. onWindow \in Seq(1 .. MaxAlerts)
      BY DEF Types, Alerts!TypeOK, Alerts!Alert
    <3>2. onWindow[1] \in 1 .. MaxAlerts
      BY <2>3, <3>1, OnlyElement, Zenon
    <3> QED
      BY <2>3, <3>2 DEF AlertOnTop
  <2>5. asked[AlertOnTop].rows \in SUBSET (0 .. Cardinality(store) - 1)
    BY <2>3 DEF AskedFits, InRange
  <2>6. store \in SUBSET Keys
    BY DEF Types, DataTypes
  <2>7. Cardinality(asked[AlertOnTop].rows) = Cardinality(asked[AlertOnTop].keys)
    BY <2>4 DEF AskedAsMany
  <2> QED
    BY <2>2, <2>5, <2>6, <2>7, DeletesAsMany
<1> QED
  BY <1>1, <1>2, TypesAlways, AtMostOneAlert, NoneWaitsAlways, AskedFitsAlways,
    AskedAsManyInductive, PTL DEF Spec, AsManyDeleted

-----------------------------------------------------------------------------
(* The delete button is on screen in delete mode only, which the sort sheet *)
(* is not; and it is there without selected rows only after a refresh.      *)
ButtonFollowsRows ==
  /\ bottomButton => allowsMultipleSelection
  /\ sheet => ~allowsMultipleSelection
  /\ bottomButton /\ selected = {} => refreshedInDelete

LEMMA ButtonInductive == ButtonFollowsRows /\ [Next]_vars => ButtonFollowsRows'
<1> SUFFICES ASSUME ButtonFollowsRows, [Next]_vars PROVE ButtonFollowsRows'
  OBVIOUS
<1> USE DEF ButtonFollowsRows, modeVars, selectionVars, endVars
<1>1. CASE HeaderDelete
  BY <1>1 DEF HeaderDelete, HeaderShown, Touchable
<1>2. CASE HeaderCancel \/ AnswerDone
  BY <1>2 DEF HeaderCancel, AnswerDone, LeaveDeleteMode
<1>3. CASE HeaderCheck \/ \E k \in table : TapRow(k)
  <2>1. \/ allowsMultipleSelection /\ bottomButton' = (selected' # {})
        \/ UNCHANGED bottomButton /\ selected' # {}
    BY <1>3 DEF HeaderCheck, TapRow
  <2>2. UNCHANGED <<allowsMultipleSelection, sheet>>
    BY <1>3 DEF HeaderCheck, TapRow
  <2>3. bottomButton' => allowsMultipleSelection'
    BY <2>1, <2>2
  <2>4. sheet' => ~allowsMultipleSelection'
    BY <2>2
  <2>5. bottomButton' => selected' # {}
    BY <2>1
  <2> QED
    BY <2>3, <2>4, <2>5
<1>4. CASE TapDelete \/ AnswerCancel \/ PullToRefresh \/ OpenSheet \/ CloseSheet
  BY <1>4 DEF TapDelete, AnswerCancel, PullToRefresh, OpenSheet, CloseSheet
<1>5. CASE \E type \in {"download", "size"} : SortData(type)
  BY <1>5 DEF SortData
<1>6. CASE AlertPresented \/ Reloaded \/ WindowChanges
  BY <1>6 DEF AlertPresented, Reloaded, WindowChanges
<1>7. CASE RefreshTrigger
  BY <1>7 DEF RefreshTrigger
<1>8. CASE UNCHANGED vars
  BY <1>8 DEF vars
<1> QED
  BY <1>1, <1>2, <1>3, <1>4, <1>5, <1>6, <1>7, <1>8 DEF Next, UserNext, MainQueueNext

LEMMA CrashSteps ==
  [Next]_vars => \/ UNCHANGED crashed
                 \/ bottomButton /\ selected = {}
                 \/ /\ Alerts!Answer
                    /\ \E r \in asked[AlertOnTop].rows : r >= Cardinality(store)
<1> SUFFICES ASSUME [Next]_vars PROVE
      \/ UNCHANGED crashed
      \/ bottomButton /\ selected = {}
      \/ Alerts!Answer /\ \E r \in asked[AlertOnTop].rows : r >= Cardinality(store)
  OBVIOUS
<1> USE DEF endVars
<1>1. CASE UserNext
  BY <1>1, Zenon DEF UserNext, HeaderDelete, HeaderCancel, HeaderCheck, TapRow, TapDelete,
    AnswerCancel, AnswerDone, PullToRefresh, OpenSheet, CloseSheet, SortData
<1>2. CASE MainQueueNext
  BY <1>2, Zenon DEF MainQueueNext, AlertPresented, RefreshTrigger, Reloaded
<1>3. CASE WindowChanges
  BY <1>3 DEF WindowChanges
<1>4. CASE UNCHANGED vars
  BY <1>4 DEF vars
<1> QED
  BY <1>1, <1>2, <1>3, <1>4 DEF Next

LEMMA HistoryGrows ==
  [Next]_vars => (raced => raced') /\ (refreshedInDelete => refreshedInDelete')
<1>1. [Next]_vars => (raced => raced')
  BY RaceRemains
<1>2. [Next]_vars => (refreshedInDelete => refreshedInDelete')
  BY Zenon DEF vars, endVars, Next, UserNext, MainQueueNext, HeaderDelete, HeaderCancel,
    HeaderCheck, TapRow, TapDelete, AnswerCancel, AnswerDone, PullToRefresh, OpenSheet,
    CloseSheet, SortData, AlertPresented, RefreshTrigger, Reloaded, WindowChanges
<1> QED
  BY <1>1, <1>2

LEMMA CrashInductive ==
  /\ Types /\ AlertThms!AtMostOne /\ NoneWaits /\ AskedFits /\ ButtonFollowsRows
  /\ CrashNeedsRefreshOrRace /\ [Next]_vars
  => CrashNeedsRefreshOrRace'
<1> SUFFICES ASSUME Types, AlertThms!AtMostOne, NoneWaits, AskedFits, ButtonFollowsRows,
                    CrashNeedsRefreshOrRace, [Next]_vars, crashed', ~raced
             PROVE  refreshedInDelete \/ refreshedInDelete'
  BY HistoryGrows DEF CrashNeedsRefreshOrRace
<1>1. CASE UNCHANGED crashed
  BY <1>1 DEF CrashNeedsRefreshOrRace
<1>2. CASE bottomButton /\ selected = {}
  BY <1>2 DEF ButtonFollowsRows
<1>3. CASE Alerts!Answer /\ \E r \in asked[AlertOnTop].rows : r >= Cardinality(store)
  <2>1. AlertOnTop \in Pending
    BY <1>3, PendingAfterAnswer DEF AlertOnTop, Types
  <2>2. \A r \in asked[AlertOnTop].rows : r \in 0 .. Cardinality(store) - 1
    BY <2>1 DEF AskedFits, InRange
  <2>3. Cardinality(store) \in Nat
    BY FiniteParts DEF Types, DataTypes
  <2> QED
    BY <1>3, <2>2, <2>3
<1> QED
  BY <1>1, <1>2, <1>3, CrashSteps

(* A deletion traps only after a refresh in delete mode or a double tap. *)
THEOREM CrashNeedsRace == Spec => []CrashNeedsRefreshOrRace
<1>1. Init => CrashNeedsRefreshOrRace /\ ButtonFollowsRows
  BY DEF Init, CrashNeedsRefreshOrRace, ButtonFollowsRows
<1>2. Spec => []ButtonFollowsRows
  BY <1>1, ButtonInductive, PTL DEF Spec
<1> QED
  BY <1>1, <1>2, TypesAlways, AtMostOneAlert, NoneWaitsAlways, AskedFitsAlways,
    CrashInductive, PTL DEF Spec
=============================================================================
