----------------------------- MODULE EventList -----------------------------
(***************************************************************************)
(* The list of events (Feature/MultiCollection/Event): a load that answers *)
(* or fails, pull-to-refresh, and the sorting of the answer into three     *)
(* groups.  Every filter of the sorting asks the clock again, for every    *)
(* event: an event can start or stop between two questions.                *)
(*                                                                         *)
(* The repository behind the load (FDRepository) is not part of the source *)
(* any more; a load is taken to answer or to fail, on the main thread.     *)
(*                                                                         *)
(* Operators whose name ends in Mutant are plausible bugs of the operator  *)
(* that follows them; no specification uses them.                          *)
(***************************************************************************)
EXTENDS ScreenSizes, Sequences, FiniteSets

Clock == 0 .. Horizon

(* FDEvent.  An event without both its dates is dropped by the same filters *)
(* as one that is not to be shown: show stands for the three of them.       *)
Event == [startAt : Dates, stopAt : Dates, is_fixed : BOOLEAN, show : BOOLEAN]
Answers == UNION {[1 .. n -> Event] : n \in 0 .. MaxEvents}

VARIABLES
  now,         \* Date()
  executing,   \* of dataLoadAction: a load is under way
  animating,   \* of the refresh control
  triggers,    \* refresh timers (2 s) that have not fired yet
  reloads,     \* notifications of reloadData in the main queue
  loadFailed,  \* history: the load that ended last failed
  events,      \* the answer that was sorted last
  pass,        \* the filter that is running, or "none"
  rest,        \* numbers of the events it has not asked yet
  kept,        \* numbers of those it lets pass
  list,        \* the groups that are done; between loads, the table
  began        \* history: the moment at which the sorting began

loadVars == <<executing, animating, triggers, reloads, loadFailed>>
sortVars == <<events, pass, rest, kept, list, began>>
vars == <<now, loadVars, sortVars>>

Init ==
  /\ now = 0
  /\ executing = TRUE   \* viewDidLoad triggers the first load
  /\ animating = FALSE
  /\ triggers = 0
  /\ reloads = 0
  /\ loadFailed = FALSE
  /\ events = <<>>
  /\ pass = "none"
  /\ rest = {}
  /\ kept = {}
  /\ list = <<>>
  /\ began = 0

-----------------------------------------------------------------------------
IsRunningEvent(e, t) == e.startAt < t /\ e.show /\ t < e.stopAt

IsFixedEvent(e, t) == IsRunningEvent(e, t) /\ e.is_fixed

(* showList: the events that are to be shown and have both dates. *)
ShowList(answer) == {i \in DOMAIN answer : answer[i].show}

(* sortFuc that puts the event that starts first in front. *)
SortFucMutant(l, r) ==
  \/ l.startAt = r.startAt /\ l.stopAt > r.stopAt
  \/ l.startAt < r.startAt

(* sortFuc: the latest start first, and of two equal ones the latest stop. *)
SortFuc(l, r) ==
  \/ l.startAt = r.startAt /\ l.stopAt > r.stopAt
  \/ l.startAt > r.startAt

(* sorted(by: sortFuc): each event once, and none in front of one that      *)
(* sortFuc puts in front of it; the order of equal ones is not promised.    *)
Sorted(numbers) ==
  {s \in [1 .. Cardinality(numbers) -> numbers] :
     /\ \A i \in numbers : \E n \in DOMAIN s : s[n] = i
     /\ \A m, n \in DOMAIN s : m < n => ~SortFuc(events[s[n]], events[s[m]])}

(* The main thread is free of the sorting, which takes it as a whole. *)
Idle == pass = "none"

(* The user pulls the table: a timer will trigger the load. *)
PullToRefresh ==
  /\ Idle
  /\ ~animating
  /\ triggers + reloads < MaxPosted
  /\ animating' = TRUE
  /\ triggers' = triggers + 1
  /\ UNCHANGED <<now, executing, reloads, loadFailed, sortVars>>

(* The timer fires: a load, unless one is under way (notEnabled). *)
RefreshTrigger ==
  /\ Idle
  /\ triggers > 0
  /\ triggers' = triggers - 1
  /\ executing' = TRUE
  /\ UNCHANGED <<now, animating, reloads, loadFailed, sortVars>>

(* A load fails.  Nobody listens to the errors of the view model. *)
LoadFails ==
  /\ Idle
  /\ executing
  /\ executing' = FALSE
  /\ loadFailed' = TRUE
  /\ UNCHANGED <<now, animating, triggers, reloads, sortVars>>

(* A load answers: sortEvents begins, with the fixed events. *)
LoadAnswers ==
  /\ Idle
  /\ executing
  /\ events' \in Answers
  /\ pass' = "fixed"
  /\ rest' = ShowList(events')
  /\ kept' = {}
  /\ list' = <<>>
  /\ began' = now
  /\ UNCHANGED <<now, loadVars>>

(* Filters of which the third does not ask whether an event is fixed. *)
PassesMutant(e) ==
  \/ pass = "fixed" /\ IsFixedEvent(e, now)
  \/ pass = "running" /\ IsRunningEvent(e, now)
  \/ pass = "unfixed"
  \/ pass = "ended" /\ ~IsRunningEvent(e, now)

(* What each filter asks. *)
Passes(e) ==
  \/ pass = "fixed" /\ IsFixedEvent(e, now)
  \/ pass = "running" /\ IsRunningEvent(e, now)
  \/ pass = "unfixed" /\ ~IsFixedEvent(e, now)
  \/ pass = "ended" /\ ~IsRunningEvent(e, now)

(* A filter asks the next event, in the order of the answer. *)
FilterNext ==
  /\ \E i \in rest :
       /\ \A j \in rest : i <= j
       /\ rest' = rest \ {i}
       /\ \/ Passes(events[i]) /\ kept' = kept \cup {i}
          \/ ~Passes(events[i]) /\ UNCHANGED kept
  /\ UNCHANGED <<now, loadVars, events, pass, list, began>>

(* A filter has asked all; the running events are filtered once more, the   *)
(* other results are sorted and are groups of the list.                     *)
FilterEnds(ended, next) ==
  /\ pass = ended
  /\ rest = {}
  /\ pass' = next
  /\ kept' = {}
  /\ \/ ended = "running" /\ rest' = kept /\ list' = list
     \/ /\ ended # "running"
        /\ rest' = ShowList(events)
        /\ \E group \in Sorted(kept) : list' = list \o group
  /\ UNCHANGED <<now, loadVars, events, began>>

(* The end of a load whose answer does not reload the table. *)
SortEndsMutant ==
  /\ pass = "ended"
  /\ rest = {}
  /\ pass' = "none"
  /\ kept' = {}
  /\ \E group \in Sorted(kept) : list' = list \o group
  /\ executing' = FALSE
  /\ loadFailed' = FALSE
  /\ UNCHANGED <<now, animating, triggers, reloads, events, rest, began>>

(* The last group completes the list: the table reloads, and the load ends. *)
SortEnds ==
  /\ pass = "ended"
  /\ rest = {}
  /\ pass' = "none"
  /\ kept' = {}
  /\ \E group \in Sorted(kept) : list' = list \o group
  /\ reloads' = reloads + 1
  /\ executing' = FALSE
  /\ loadFailed' = FALSE
  /\ UNCHANGED <<now, animating, triggers, events, rest, began>>

(* The notification of the reload arrives: endRefresh. *)
Reloaded ==
  /\ Idle
  /\ reloads > 0
  /\ reloads' = reloads - 1
  /\ animating' = FALSE
  /\ UNCHANGED <<now, executing, triggers, loadFailed, sortVars>>

(* The screen is left and opened again: makeMoreSeeControllers makes a new  *)
(* list with a new load.                                                    *)
Reopen ==
  /\ Idle
  /\ executing' = TRUE
  /\ animating' = FALSE
  /\ triggers' = 0
  /\ reloads' = 0
  /\ loadFailed' = FALSE
  /\ events' = <<>>
  /\ pass' = "none"
  /\ rest' = {}
  /\ kept' = {}
  /\ list' = <<>>
  /\ began' = 0
  /\ UNCHANGED now

(* The clock goes on, also between two questions of a filter. *)
TimePasses ==
  /\ now < Horizon
  /\ now' = now + 1
  /\ UNCHANGED <<loadVars, sortVars>>

Next ==
  \/ PullToRefresh
  \/ RefreshTrigger
  \/ LoadFails
  \/ LoadAnswers
  \/ FilterNext
  \/ FilterEnds("fixed", "running")
  \/ FilterEnds("running", "unfixed")
  \/ FilterEnds("unfixed", "ended")
  \/ SortEnds
  \/ Reloaded
  \/ Reopen
  \/ TimePasses

Spec == Init /\ [][Next]_vars

-----------------------------------------------------------------------------
(* Types of the load's and the sorting's fields. *)
TypeOK ==
  /\ now \in Clock
  /\ executing \in BOOLEAN
  /\ animating \in BOOLEAN
  /\ triggers \in Nat
  /\ reloads \in Nat
  /\ loadFailed \in BOOLEAN
  /\ events \in Seq(Event)
  /\ pass \in {"none", "fixed", "running", "unfixed", "ended"}
  /\ rest \in SUBSET (DOMAIN events)
  /\ kept \in SUBSET (DOMAIN events)
  /\ list \in Seq(DOMAIN events)
  /\ began \in Clock

(* The group sortEvents is to put an event in, at a moment. *)
Group(e, t) ==
  IF ~IsRunningEvent(e, t) THEN 3 ELSE IF e.is_fixed THEN 1 ELSE 2

(* May e be above f, as sortEvents is to arrange them at a moment?  Of two  *)
(* events that start together its comment wants the nearest stop first and  *)
(* its code takes the latest: this allows both.                             *)
MayPrecede(e, f, t) ==
  \/ Group(e, t) < Group(f, t)
  \/ /\ Group(e, t) = Group(f, t)
     /\ e.startAt > f.startAt \/ e.startAt = f.startAt

(* An event that neither starts nor stops while the list is being sorted. *)
Steady(i) == \A t \in began .. now : Group(events[i], t) = Group(events[i], began)

(* The three filters of sortEvents are a partition: when the sorting ends,  *)
(* every event that is to be shown is in the list once, unless it started   *)
(* or stopped between two of their questions.                               *)
EachEventOnce ==
  [][SortEnds =>
       \A i \in DOMAIN events :
         ~events[i].show \/ Steady(i)
           => Cardinality({n \in DOMAIN list' : list'[n] = i})
                = IF events[i].show THEN 1 ELSE 0]_vars

(* The list is what sortEvents is for: fixed events first, then the running *)
(* ones, then the others, in each group the later start first; for all      *)
(* events that were steady while they were sorted.  Of events that start    *)
(* together it asks nothing.                                                *)
GroupedAndSorted ==
  [][SortEnds =>
       \A m, n \in DOMAIN list' :
         m < n /\ Steady(list'[m]) /\ Steady(list'[n])
           => MayPrecede(events[list'[m]], events[list'[n]], began)]_vars

(* A refresh spins with nothing on its way that could end it only after its *)
(* load failed; no later pull can start another, because it still spins.    *)
SpinsOnlyAfterFailure ==
  animating => triggers > 0 \/ executing \/ reloads > 0 \/ loadFailed
=============================================================================
