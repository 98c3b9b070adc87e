--------------------------- MODULE CompactActivity ---------------------------
(***************************************************************************)
(* One activity list (Feature/MultiTable/Compact): the stored rows, the    *)
(* view model, the table with its delete mode and its pull-to-refresh, and *)
(* the confirmation alert, which is an alert of AlertService.              *)
(*                                                                         *)
(* A row is its key.  The stores hold their rows in ascending key order;   *)
(* every tab shows the store's order except the download tab, sorted by    *)
(* date by default, whose newest row comes first.                          *)
(*                                                                         *)
(* Operators whose name ends in Mutant are plausible bugs of the operator  *)
(* that follows them; no specification uses them.                          *)
(***************************************************************************)
EXTENDS Naturals, Sequences, FiniteSets

CONSTANTS
  Keys,          \* the rows the store may hold
  Detail,        \* which of the four tabs: "recently", "download", ...
  MaxAlerts,     \* bound: confirmation alerts raised
  MaxPosted      \* bound: refresh timers and reload notifications pending

ASSUME KeysAssumption == Keys \subseteq Nat /\ IsFiniteSet(Keys)
ASSUME DetailAssumption == Detail \in {"recently", "download", "like", "reply"}
ASSUME BoundsAssumption == MaxAlerts \in Nat /\ MaxPosted \in Nat

VARIABLES
  store,                    \* Server / RealmLocalDB: keys of the stored rows
  table,                    \* tableRelay: keys of the rows shown
  sortType,                 \* of the view model
  deleteMode,               \* of the view model
  allowsMultipleSelection,  \* of the table: the view's delete mode
  selected,                 \* indexPathsForSelectedRows, as keys
  checkButton,              \* is the "select all" box of the header checked?
  bottomButton,             \* is the delete button on screen?
  animating,                \* is the refresh control refreshing?
  triggers,                 \* refresh timers (2 s) that have not fired yet
  reloads,                  \* notifications of reloadData in the main queue
  sheet,                    \* is the sort sheet on screen?
  asked,                    \* what the completion of an alert captured
  refreshedInDelete,        \* history: rows were reloaded in delete mode
  crashed,                  \* a force unwrap or an array index trapped
  (* the variables of AlertService *)
  queue, isPresenting, presentViewController, posted, onWindow,
  keyWindow, created, lastShown, raced, dropped

Alerts == INSTANCE AlertService

alertVars == <<queue, isPresenting, presentViewController, posted, onWindow,
               lastShown, raced, dropped, keyWindow, created>>
modeVars == <<deleteMode, allowsMultipleSelection>>
selectionVars == <<selected, checkButton, bottomButton>>
refreshVars == <<animating, triggers, reloads>>
dataVars == <<store, table, sortType>>
endVars == <<refreshedInDelete, crashed>>
vars == <<dataVars, modeVars, selectionVars, refreshVars, sheet, asked,
          endVars, alertVars>>

-----------------------------------------------------------------------------
(* The index of k in the array that stores S. *)
ServerRow(S, k) == Cardinality({j \in S : j < k})

(* The order of the download tab: newest first, or largest first, which is  *)
(* the stored order.  The other tabs never sort.                            *)
NewestFirst == Detail = "download" /\ sortType = "download"

(* The index of the table row that shows k. *)
TableRow(k) ==
  IF NewestFirst THEN Cardinality({j \in table : j > k}) ELSE ServerRow(table, k)

TableRows(S) == {TableRow(k) : k \in S}

(* WithoutRows that takes the row numbers for keys. *)
WithoutRowsMutant(rows) == store \ rows

(* delete...Contents(indexPathString:), the rows that are left. *)
WithoutRows(rows) == {k \in store : ServerRow(store, k) \notin rows}

NothingAsked == [rows |-> {}, keys |-> {}]

Init ==
  /\ store \in SUBSET Keys
  /\ table = store
  /\ sortType = "download"
  /\ deleteMode = FALSE
  /\ allowsMultipleSelection = FALSE
  /\ selected = {}
  /\ checkButton = FALSE
  /\ bottomButton = FALSE
  /\ animating = FALSE
  /\ triggers = 0
  /\ reloads = 0
  /\ sheet = FALSE
  /\ asked = [a \in 1 .. MaxAlerts |-> NothingAsked]
  /\ refreshedInDelete = FALSE
  /\ crashed = FALSE
  /\ Alerts!Init

(* An alert or the sheet over the list takes every touch. *)
Touchable == ~crashed /\ onWindow = <<>> /\ ~sheet

(* The header is hidden over an empty table. *)
HeaderShown == Touchable /\ table # {}

(* reloadData clears the selection, and `reloaded` posts a notification.    *)
ReloadData(times) ==
  /\ selected' = {}
  /\ reloads' = reloads + times

(* The bound on the work posted to the main queue, for what adds to it. *)
RoomFor(times) == triggers + reloads + times <= MaxPosted

-----------------------------------------------------------------------------
(* The header's delete button, forgotten by the view model. *)
HeaderDeleteMutant ==
  /\ HeaderShown
  /\ ~allowsMultipleSelection
  /\ allowsMultipleSelection' = TRUE
  /\ RoomFor(1) /\ ReloadData(1)
  /\ UNCHANGED <<dataVars, deleteMode, checkButton, bottomButton, animating, triggers,
                 sheet, asked, endVars, alertVars>>

(* headerViewAction .delete: first the view model, then the view. *)
HeaderDelete ==
  /\ HeaderShown
  /\ ~allowsMultipleSelection
  /\ deleteMode' = TRUE
  /\ allowsMultipleSelection' = TRUE
  /\ RoomFor(1) /\ ReloadData(1)
  /\ UNCHANGED <<dataVars, checkButton, bottomButton, animating, triggers,
                 sheet, asked, endVars, alertVars>>

(* topViewEventProcessor(.cancel) that keeps the delete button. *)
LeaveDeleteModeMutant ==
  /\ allowsMultipleSelection' = FALSE
  /\ checkButton' = FALSE
  /\ UNCHANGED bottomButton

(* topViewEventProcessor(.cancel), but for the reload. *)
LeaveDeleteMode ==
  /\ allowsMultipleSelection' = FALSE
  /\ checkButton' = FALSE
  /\ bottomButton' = FALSE

(* HeaderCancel that deselects the rows without reloading them. *)
HeaderCancelMutant ==
  /\ HeaderShown
  /\ allowsMultipleSelection
  /\ deleteMode' = FALSE
  /\ LeaveDeleteMode
  /\ selected' = {}
  /\ UNCHANGED <<dataVars, refreshVars, sheet, asked, endVars, alertVars>>

(* headerViewAction .cancel. *)
HeaderCancel ==
  /\ HeaderShown
  /\ allowsMultipleSelection
  /\ deleteMode' = FALSE
  /\ LeaveDeleteMode
  /\ RoomFor(1) /\ ReloadData(1)
  /\ UNCHANGED <<dataVars, animating, triggers, sheet, asked, endVars, alertVars>>

(* headerViewAction .check: select all rows or none, without delegate calls. *)
HeaderCheck ==
  /\ HeaderShown
  /\ allowsMultipleSelection
  /\ checkButton' = ~checkButton
  /\ selected' = IF checkButton THEN {} ELSE table
  /\ bottomButton' = (selected' # {})
  /\ UNCHANGED <<dataVars, modeVars, refreshVars, sheet, asked, endVars, alertVars>>

(* TapRow whose "all selected" observer looks at the delete mode only. *)
TapRowMutant(k) ==
  /\ Touchable
  /\ \/ /\ allowsMultipleSelection
        /\ \/ k \notin selected /\ selected' = selected \cup {k}
           \/ k \in selected /\ selected' = selected \ {k}
        /\ bottomButton' = (selected' # {})
        /\ UNCHANGED checkButton
     \/ /\ ~allowsMultipleSelection
        /\ selected' = {k}
        /\ UNCHANGED <<bottomButton, checkButton>>
  /\ UNCHANGED <<dataVars, modeVars, refreshVars, sheet, asked, endVars, alertVars>>

(* A tap on the row of k: in delete mode it toggles the row and the delete  *)
(* button follows; otherwise it selects the row alone and asks the view     *)
(* model for the detail.  In both, the box is set to "all rows selected".   *)
TapRow(k) ==
  /\ Touchable
  /\ \/ /\ allowsMultipleSelection
        /\ \/ k \notin selected /\ selected' = selected \cup {k}
           \/ k \in selected /\ selected' = selected \ {k}
        /\ bottomButton' = (selected' # {})
     \/ /\ ~allowsMultipleSelection
        /\ selected' = {k}
        /\ UNCHANGED bottomButton
  /\ checkButton' = (selected' = table)
  /\ UNCHANGED <<dataVars, modeVars, refreshVars, sheet, asked, endVars, alertVars>>

(* showAlert that hands over row numbers counted from one. *)
AskMutant == [rows |-> {TableRow(k) + 1 : k \in selected}, keys |-> selected]

(* What showAlert's completion captures: the selected rows, here with the   *)
(* keys the user saw in them.                                               *)
Ask == [rows |-> TableRows(selected), keys |-> selected]

(* A tap on the delete button: indexPathsForSelectedRows! and an alert. *)
TapDelete ==
  /\ Touchable
  /\ bottomButton
  /\ \/ /\ selected = {}
        /\ crashed' = TRUE
        /\ UNCHANGED <<asked, alertVars>>
     \/ /\ selected # {}
        /\ Alerts!Show
        /\ asked' = [asked EXCEPT ![created + 1] = Ask]
        /\ UNCHANGED crashed
  /\ UNCHANGED <<dataVars, modeVars, selectionVars, refreshVars, sheet, refreshedInDelete>>

-----------------------------------------------------------------------------
AlertOnTop == onWindow[Len(onWindow)]

(* The cancel button of the alert: it only goes away. *)
AnswerCancel ==
  /\ ~crashed
  /\ Alerts!Answer
  /\ UNCHANGED <<dataVars, modeVars, selectionVars, refreshVars, sheet, asked, endVars>>

(* The done button: the alert goes away, then deleteItems(rows) runs to its *)
(* end: the store, deleteComplete (the view leaves delete mode), the load.  *)
AnswerDone ==
  /\ ~crashed
  /\ Alerts!Answer
  /\ LET rows == asked[AlertOnTop].rows IN
       \/ /\ \E r \in rows : r >= Cardinality(store)
          /\ crashed' = TRUE
          /\ UNCHANGED <<store, table, modeVars, selectionVars, reloads>>
       \/ /\ \A r \in rows : r < Cardinality(store)
          /\ store' = WithoutRows(rows)
          /\ table' = store'
          /\ LeaveDeleteMode
          /\ RoomFor(2) /\ ReloadData(2)
          /\ UNCHANGED <<deleteMode, crashed>>
  /\ UNCHANGED <<sortType, animating, triggers, sheet, asked, refreshedInDelete>>

(* The main queue puts the alert on the window. *)
AlertPresented ==
  /\ ~crashed
  /\ Alerts!PresentNext
  /\ UNCHANGED <<dataVars, modeVars, selectionVars, refreshVars, sheet, asked, endVars>>

WindowChanges ==
  /\ ~crashed
  /\ Alerts!KeyWindowChanges
  /\ UNCHANGED <<dataVars, modeVars, selectionVars, refreshVars, sheet, asked, endVars>>

-----------------------------------------------------------------------------
(* The list is pulled down and let go (the control is detached in delete    *)
(* mode): scrollViewDidEndDragging starts a timer unless it animates.       *)
PullToRefresh ==
  /\ Touchable
  /\ ~allowsMultipleSelection
  /\ ~animating
  /\ RoomFor(1)
  /\ animating' = TRUE
  /\ triggers' = triggers + 1
  /\ UNCHANGED <<dataVars, modeVars, selectionVars, reloads, sheet, asked, endVars, alertVars>>

(* The timer fires, whatever the mode of the list by now: refreshData. *)
RefreshTrigger ==
  /\ ~crashed
  /\ triggers > 0
  /\ triggers' = triggers - 1
  /\ table' = store
  /\ ReloadData(1)
  /\ refreshedInDelete' = (refreshedInDelete \/ allowsMultipleSelection)
  /\ UNCHANGED <<store, sortType, modeVars, checkButton, bottomButton, animating,
                 sheet, asked, crashed, alertVars>>

(* endRefresh with the filter on the mode negated. *)
ReloadedMutant ==
  /\ ~crashed
  /\ reloads > 0
  /\ reloads' = reloads - 1
  /\ animating' = (animating /\ ~allowsMultipleSelection)
  /\ UNCHANGED <<dataVars, modeVars, selectionVars, triggers, sheet, asked, endVars, alertVars>>

(* A notification of reloadData: outside of delete mode, endRefresh. *)
Reloaded ==
  /\ ~crashed
  /\ reloads > 0
  /\ reloads' = reloads - 1
  /\ animating' = (animating /\ allowsMultipleSelection)
  /\ UNCHANGED <<dataVars, modeVars, selectionVars, triggers, sheet, asked, endVars, alertVars>>

(* The header's drop-down of the download tab shows the sort sheet. *)
OpenSheet ==
  /\ HeaderShown
  /\ Detail = "download"
  /\ ~allowsMultipleSelection
  /\ sheet' = TRUE
  /\ UNCHANGED <<dataVars, modeVars, selectionVars, refreshVars, asked, endVars, alertVars>>

(* The sheet is closed without a choice. *)
CloseSheet ==
  /\ ~crashed /\ sheet /\ onWindow = <<>>
  /\ sheet' = FALSE
  /\ UNCHANGED <<dataVars, modeVars, selectionVars, refreshVars, asked, endVars, alertVars>>

(* A sort order is chosen: sortData loads, then the view reloads once more. *)
SortData(type) ==
  /\ ~crashed /\ sheet /\ onWindow = <<>>
  /\ sheet' = FALSE
  /\ sortType' = type
  /\ table' = store
  /\ RoomFor(2) /\ ReloadData(2)
  /\ UNCHANGED <<store, modeVars, checkButton, bottomButton, animating, triggers,
                 asked, endVars, alertVars>>

UserNext ==
  \/ HeaderDelete \/ HeaderCancel \/ HeaderCheck \/ TapDelete
  \/ \E k \in table : TapRow(k)
  \/ AnswerCancel \/ AnswerDone
  \/ PullToRefresh
  \/ OpenSheet \/ CloseSheet
  \/ \E type \in {"download", "size"} : SortData(type)

MainQueueNext == AlertPresented \/ RefreshTrigger \/ Reloaded

Next == UserNext \/ MainQueueNext \/ WindowChanges

Spec == Init /\ [][Next]_vars

(* The main queue runs what was posted to it, timers included. *)
FairSpec == Spec /\ WF_vars(AlertPresented) /\ WF_vars(RefreshTrigger) /\ WF_vars(Reloaded)

-----------------------------------------------------------------------------
(* Types of the list's fields, of what the alerts captured and of the work  *)
(* the list posted to the main queue.                                       *)
TypeOK ==
  /\ store \in SUBSET Keys
  /\ table = store
  /\ sortType \in {"download", "size"}
  /\ deleteMode \in BOOLEAN
  /\ allowsMultipleSelection \in BOOLEAN
  /\ selected \in SUBSET table
  /\ checkButton \in BOOLEAN
  /\ bottomButton \in BOOLEAN
  /\ animating \in BOOLEAN
  /\ triggers \in 0 .. MaxPosted
  /\ reloads \in 0 .. MaxPosted
  /\ sheet \in BOOLEAN
  /\ asked \in [1 .. MaxAlerts -> [rows : SUBSET (0 .. Cardinality(Keys) - 1),
                                    keys : SUBSET Keys]]
  /\ refreshedInDelete \in BOOLEAN
  /\ crashed \in BOOLEAN
  /\ Alerts!TypeOK

(* While rows are being selected for deletion the view model knows it, so   *)
(* no tap opens a detail or plays a content (cellDetail and cellPlay read   *)
(* deleteMode, the table reads allowsMultipleSelection).                    *)
NoDetailInDeleteMode == allowsMultipleSelection => deleteMode

(* The header's box is checked whenever every row is selected, however the  *)
(* rows came to be selected: one by one, all at once, or the only row of a  *)
(* table that is not in delete mode.                                        *)
AllSelectedImpliesChecked == table # {} /\ selected = table => checkButton

(* The two traps of a deletion, the force unwrap of the selection and the   *)
(* row numbers that index the store, are reached only if a refresh reloaded *)
(* the rows in delete mode or two confirmations were pending at once.       *)
CrashNeedsRefreshOrRace == crashed => refreshedInDelete \/ raced

(* What the user confirms is what the store loses: the rows that go are     *)
(* those that were selected when the alert was raised, although the alert   *)
(* keeps row numbers and the list goes on living until it is answered.      *)
ConfirmedIsDeleted ==
  [][~raced /\ store' # store => store' = store \ asked[AlertOnTop].keys]_vars

(* A deletion removes as many rows as were confirmed, whatever the order    *)
(* the table shows them in.                                                 *)
AsManyDeleted ==
  [][~raced /\ store' # store =>
       Cardinality(store \ store') = Cardinality(asked[AlertOnTop].keys)]_vars

(* A list that is refreshing outside of delete mode has a timer or a reload *)
(* notification on its way that will end it, whatever happened to the mode  *)
(* between the pull and the timer.                                          *)
RefreshCanEnd == animating /\ ~allowsMultipleSelection => triggers > 0 \/ reloads > 0

(* The refresh control stops, unless the user stays in delete mode.         *)
RefreshEnds == animating ~> (~animating \/ allowsMultipleSelection \/ crashed)

-----------------------------------------------------------------------------
(* What comments of the source claim and the code does not do. *)

(* CompactViewModel.swift:40, "when something was deleted, an event to      *)
(* reset the delete mode": the view model leaves delete mode with the view. *)
DeleteModeIsReset == deleteMode => allowsMultipleSelection

(* CompactView.swift:173, "the delete button passes the selected cells to   *)
(* the alert": a tap on it finds selected cells to pass.                    *)
DeleteButtonHasRows == bottomButton => selected # {}

(* Server.swift:37, "deletes the desired data": as ConfirmedIsDeleted, even *)
(* if the delete button was tapped twice before the alert came up.          *)
OnlyConfirmedIsDeleted ==
  [][store' # store => store \ store' \subseteq asked[AlertOnTop].keys]_vars
=============================================================================
