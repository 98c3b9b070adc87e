# Pineone: a verification development

TLA+ models of the parts of this repository that keep state and meet
concurrency, the TLC runs that check them and the TLAPS proofs about them.

`src/` holds a trainee's work: two iOS applications in Swift
(`SwiftProjects/Foundation-master`, about 20 000 lines of its own, and
`SwiftProjects/20200904ConstraintTraining`, about 5 000), small exercises, and
notes. Below, paths without `src/` are relative to
`src/SwiftProjects/Foundation-master/FoundationProj/` (the *Foundation* app) or
to `src/SwiftProjects/20200904ConstraintTraining/20200904ConstraintTraining/`
(the *quiz* app, files under `8_MVVM/` and beside it).

## 1. Inventory

### Components with behaviour of their own

| Component | State | Operations | Talks to |
|---|---|---|---|
| Alert queue (`popup/AlertService.swift`, `RxAlertView.swift`, `CustomAlertViewController.swift`) | waiting alerts, `isPresenting`, the alert to dismiss, blocks posted to the main queue, alerts on the window | show, present block, answer | key window, whoever asks |
| Activity list (`Feature/MultiTable/Compact/`) | rows, delete mode (twice), selection, "select all" box, delete button, refresh control, sort order | header buttons, taps, delete and confirm, pull to refresh, sort | alert queue, `Server`, `RealmLocalDB`, sort sheet |
| Stand-ins for the data (`Feature/MultiTable/Server.swift`, `RealmLocalDB.swift`) | arrays of rows | load, delete by row number | activity list |
| Toast queue (`Service/Toast.swift`, `Foundation/Toast/`) | an `OperationQueue` of toasts, their flags, their views | show, cancel, start, the animations' ends | key window, main queue, worker threads |
| Tab pager (`Foundation/TabPager/`, `Coordinator/Flow/InitFlow.swift`) | requested tab, page shown, scrolls under way, touchability of the header and the pages | tap on a tab, timer, end of a scroll | the activity lists it shows |
| Quiz editor (`8_MVVM/`, `QuestionTabBarController.swift`, `DataRepository/`) | saved data, the view model's copy, what the views show | type, "+", "x", pick images, "complete", leave and return | `MainRepository` |
| Player slider (`Feature/PlayerSlider/`) | the slider's type, its three values, the highlighted thumbs, the touch | three buttons, the second slider, touch, drag, let go | UIKit's touch tracking |
| Rotating screen (`Feature/RotateStackScoll/`, `Extensions/DeviceOrientationHelper.swift`) | how the device is held, values on their way, the throttle's second, the layout, the picker's item and scrolls | open, close, turn the device, tap an item, layout | accelerometer, main queue, the application's orientation lock |
| Shutter countdown (`Feature/ToastWithView/`) | a repeating timer, its count, views posted and on the window | open, tick, show, close | main queue, the window its `ViewToaster` found first |
| Event list (`Feature/MultiCollection/Event/`) | the load, the refresh control, the answer and the groups sorted so far | load, pull to refresh, sort | the clock, the server |

The rest keeps no state worth a model, is not reached, or is not this
repository's: older activity lists (`Like`, `Download`, `Recently`, `Reply`),
which no flow creates any more; `AlertPresentManager`, `LoadingService` and the
video overlay, which have no live caller; a download manager without method
bodies; lists of fixed data, layout, animation, resources and extensions; the
link images, whose loading is a library's; the photo selection, whose repository
is commented out; the filter slider, which follows one touch; the seven earlier
variants of the quiz screen; the exercises; vendored Pods.
`PROJECT.json` lists every one with the reason. The test targets are Xcode's
templates: nothing modelled here is tested in the repository.

### How they interact

Everything runs on the main thread except the worker that starts toast
operations. What makes the behaviour hard is that almost nothing happens at
once: `DispatchQueue.main.async`, timers, UIKit's layout pass, animation
completions and `MainScheduler.asyncInstance` all postpone half of an operation
to a later turn of the main queue, where the other half finds another state.

* An activity list raises a confirmation through the alert queue; the alert's
  block captures row *numbers*, and the list may be reloaded before the answer.
* The alert queue decides in the caller's turn whether to wait, and presents in
  a later turn; the two read the same flag.
* A toast cancels the one before; cancelling sets a flag at once and finishes
  the operation in a later turn, while a worker may be starting it.
* The tab pager's timer asks for a tab without regard to the user.
* The quiz editor keeps a copy of what the views show, updated by reports that
  arrive later than the edits.
* The four small screens are pushed from the main list one at a time. Each one
  has its own second actor: another finger (player slider), the accelerometer
  and two timers (rotating screen), a timer whose views outlive the screen
  (countdown), a clock that goes on while the list is sorted (event list).

### What makes each component correct

* Alert queue: alerts come up one at a time, in order, and none is forgotten.
* Activity list: what is confirmed is what is deleted; the two delete modes and
  the box agree with the selection; a refresh ends; no array index or force
  unwrap traps.
* Toast queue: toasts come up in order and none twice, two are on the window
  together only while the older fades out, none comes back after it was
  cancelled, none blocks the serial queue.
* Tab pager: one scroll at a time, nothing left untouchable, the page of the
  last tap.
* Quiz editor: rows and answers correspond; what is saved is what is on screen.
* Player slider: the two ends of the range stay in order, a drag moves the thumb
  that was touched, a range can be opened again.
* Rotating screen: it ends up the way the device is held, its picker on the
  selected item.
* Countdown: every number comes up, in order, and the count ends.
* Event list: every event once, in the right group and order; a refresh ends.

The hazards in `PROJECT.json` name the line where each of these could go wrong.

## 2. Modules

| Module | Models | Depends on |
|---|---|---|
| `SerialDisplay` | what a queue of things to show promises, abstractly | |
| `AlertService` | the alert queue | `INSTANCE SerialDisplay` |
| `AlertServiceProofs` | its theorems | `AlertService` |
| `CompactActivity` | one activity list with its data and its confirmations | `INSTANCE AlertService` |
| `CompactActivityProofs` | its theorems | `CompactActivity`, `INSTANCE AlertServiceProofs` |
| `ToastQueue` | the toasts | `INSTANCE SerialDisplay` |
| `ToastQueueProofs` | its theorems | `ToastQueue` |
| `TabPager` | the pager | |
| `TabPagerProofs` | its theorems | `TabPager` |
| `QuizEditor` | the quiz editor and its repository | |
| `QuizEditorProofs` | its theorems | `QuizEditor` |
| `ScreenSizes` | the constants of the small screens and what is assumed of them | |
| `RangeSlider`, `RotateScreen`, `ShutterCountdown`, `EventList` | one small screen each | `ScreenSizes` |
| `Screens` | the four together, of which a session chooses one | an `INSTANCE` of each |
| `RotateScreenProofs`, `CountdownScreenProofs` | theorems about the rotating screen and about the countdown | `Screens` |
| `ScreensProofs` | theorems about the player, the event list and the types of all four screens | the two above |

Each run is a module with a `.cfg` that gives its constants; the constants are
small sets of numbers or strings, so no separate module is needed to
instantiate them. Operators whose names end in `Mutant` are plausible bugs of the
operator after them: no specification uses them, and `PROJECT.json` says which
property each of them breaks.

### SerialDisplay

Things are asked for (`Request`), wait in line, and the first in line is shown
when nothing else is (`ShowNext`), or given up (`GiveUp`); what is shown is taken
away (`TakeAway`). A display may break, and then promises the order only. The
alert queue is one whose `waiting` are the posted and the queued alerts and
which breaks at a race; the toast queue is one that never breaks, whose
`waiting` are the operations without a view and whose `showing` are the views
that do not fade out yet.

### AlertService

`enqueue` either presents or waits: `Show` reads `isPresenting` and either posts
a present block (`posted`) or appends to `queue`. `PresentNext` runs the oldest
block: it sets `isPresenting` and puts the view on the window, or gives up
without a key window (`dropped`). `Answer` is a tap on any button of the topmost
alert: `Dismiss` removes the alert the service remembers and `Dequeue` posts the
next one. `raced` and `dropped` are history: an alert was posted while another
one was, and a block lost its window. The properties say that everything wrong
needs one of the two.

### CompactActivity

A row is its key; the store is a set of keys in ascending order, and a row
number is the count of smaller keys (`ServerRow`). The download tab shows the
opposite order (`NewestFirst`, `TableRow`). `HeaderDelete`, `HeaderCancel` and
`HeaderCheck` are the header's buttons, `TapRow` the table's delegate,
`TapDelete` the delete button, `AnswerDone` the whole of `deleteItems`: the
store, the view's return from delete mode, the load. `ReloadData` is the
extension that clears the selection and posts a notification, whose arrival
(`Reloaded`) ends a refresh outside of delete mode. `PullToRefresh` and
`RefreshTrigger` are the two ends of a two-second timer nothing cancels. The
alerts are an instance of `AlertService` on the same variables: the list takes
its steps `Show`, `Answer` and `PresentNext` and no other, which is proved
(`ImplementsAlertService`). `asked` records what the alert's closure captured,
and the keys the user saw in these rows, to say what he meant.

### ToastQueue

A toast is a number. `Show` cancels the current toast and adds the new one.
`WorkerStarts` is the queue's thread calling `start()`, whose main-thread half
(`Start`), work (`Present`) and cancellation (`Cancel`) are blocks of
`mainQueue`. The three completions of the animations (`FadeInEnds`, `WaitEnds`,
`FadeOutEnds`) come at any time. A block without a key window traps (`crashed`); a toast
over the keyboard goes on the application's last window, which is taken to exist.

### TabPager

`Accept` is the relay with `distinctUntilChanged`, `PageScroll` the scroll it
starts, `TransitionEnds` its completion. `DidSelectItem` needs the header's
touches; `ChangeIndex`, the timer of `didLoadsetupLayout`, does not.
`tapped` is history: the last tap the timer did not follow. The page view
controller is taken to replace its page at once and to end its animations in the
order they began. `reload()` replaces the Rx delegate of the header, so one tap
is one request.

### QuizEditor

`nowSceneData` is the view model's copy; `textViews` and `rows` are what is on
screen. A text view reports in a later turn (`EditText`, `TextChange`), a field
at once (`FieldReports`, with the row number of its cell), a reloaded table is
laid out later (`AcceptAnswers`, `LayoutRows`). When the layout takes the cell of
the field in focus away, the field reports its old text under its old number, or
it does not: both are modelled. `LeaveTab` and `ReturnToTab` are the second tab
of the screen; the return runs `loadData`. `Reopen` makes a new editor.
`overwritten` and `lateReport` are history and name the two ways the copy and
the screen come apart.

### RangeSlider

`SetType` is the three buttons, which set the range as well; `SetCurrentValue`
the second slider. `BeginTracking`, `ContinueTracking` and `EndTracking` are the
overrides of `UIControl`; `CancelTracking` is the one the code does not
override. `Hit` is the hit test, which prefers the lower thumb, `Dragged` the
drag with its `boundValue`. The factor between the slider's width and the way of
the thumb is left out: a drag is by whole steps. `touched` and `cancelled` are
history.

### RotateScreen

`relay` is how the device is held. The operators between it and the screen are
spelled out in the order of the code: `distinctUntilChanged` and `observeOn`
post a value per change (`DeviceTurns`), `throttle` lets one pass a second and
keeps the newest of the others (`MainReceives`, `SecondPasses`), `skip(1)` drops
the first (`Emit`). `RotateLayout` turns the constraints, the lock and the
picker. Every selection of the picker schedules a scroll (`SelectedItem`,
`ScrollToIndex`), which finds the buttons of then or of now. `turned` is history.

### ShutterCountdown

A view is the opening that posted it and its place in the count. `Open` posts
the first number and starts the timer, `Tick` posts the next or ends the count
with the seeker, `ShowView` is the posted block, which caches the window at its
first use and traps without one, `Close` is the `deinit` of the view model.

### EventList

`LoadAnswers` starts `sortEvents` with any answer of the server. Every filter
asks the clock for every event, so `FilterNext` is one question and `TimePasses`
may come between two; the main thread does nothing else meanwhile (`Idle`).
`FilterEnds` sorts a group, `SortEnds` the last, and the table reloads. What a
filter kept is a set, and sorting it gives any sequence of it that `sortFuc`
allows (`Sorted`): the library does not promise an order of events with the same
times.
`PullToRefresh`, `RefreshTrigger`, `Reloaded` are as in the activity list;
`LoadFails` is the error nobody listens to. What the repository behind the load
was is no longer in the source: it answers or fails, at any time. `began` and
`loadFailed` are history.

### Screens

The four screens share no state, so a session on one does what it would do
without the others. `Screens` chooses one at the start; the sets of states add up
instead of being multiplied.

## 3. Runs

Runs of safety properties alone use `Spec`, runs with a liveness property
`FairSpec`. `CHECK_DEADLOCK FALSE` appears
where a trap stops the program (`crashed`).

| Run | Bounds | Shows |
|---|---|---|
| `alert_service` | 4 alerts | `TypeOK`, `OverlapOnlyAfterRace`, `StuckOnlyAfterDrop`, `ShownInOrder`, `ImplementsSerialDisplay`, `EveryAlertShown` |
| `compact_server_tab` | 3 rows, 2 confirmations, 3 pending timers and notifications | `TypeOK`, `NoDetailInDeleteMode`, `AllSelectedImpliesChecked`, `CrashNeedsRefreshOrRace`, `ConfirmedIsDeleted` |
| `compact_download_tab` | 3 rows, 1 confirmation, 4 pending | `RefreshCanEnd`, `AsManyDeleted`, `RefreshEnds` |
| `toast_queue` | 3 toasts | `TypeOK`, `OneLiveToast`, `CancelledStaysGone`, `ImplementsSerialDisplay`, `EveryToastFinishes`, `NewestIsShown` |
| `tab_pager` | 8 tabs | `TypeOK`, `ScrollsAreBounded`, `DisabledWhileScrolling`, `SettledOnTap`, `TouchesComeBack` |
| `quiz_editor` | answers and images together 2, one text besides the empty one, one image | `TypeOK`, `RowsAgree`, `TextsAgree`, `SavesTheScreen` |
| `screens` | slider of 5 values, 3 items, 2 openings of a count from 3, 2 events over 4 moments, 3 pending | `TypeOK`, `RangeCanWiden`, `OnlyTouchedThumbMoves`; `SettledOnDevice`, `PickerSettles`, `FollowsDevice`; `NoNumberIsSkipped`, `CountEnds`; `EachEventOnce`, `GroupedAndSorted`, `SpinsOnlyAfterFailure` |

Why the bounds are enough. Four alerts give one on screen, one posted and two
waiting, so that order can go wrong in the queue. Three rows are the fewest for
which a row between two others is deleted and for which reversing the order
moves some rows and keeps one; two confirmations are what a race needs. Up to
four pending notifications let a deletion, which posts two, meet a refresh and a
cancellation. Three toasts are one fading, one cancelled and one new. The pager
has four tabs in the program; its overlaps involve two scrolls and a third tap.
Two answers are enough for a row number that moved and for two "x" in one turn;
one text besides the empty one tells an old text from a new one.
Five values of a slider whose thumbs reach one value to each side are the fewest
for which the thumbs can be apart, overlap and coincide at both ends. Three items
are the fewest that landscape reverses with one in the middle. With two openings
the blocks of the first countdown meet the screen of the second. The moments of
the events, 1 and 3 of 0 to 3, leave moments before an event runs, one at which it
runs and one at which it has stopped; two events are what an order is about, and
each can start or stop between any two questions of the sorting.
Three pending blocks are two turns of the device behind one that arrived.

The counters that a bound cuts (`MaxAlerts`, `MaxToasts`, `MaxPosted`,
`MaxItems`, `MaxOpenings`, `MaxEvents`, `Horizon`) appear in guards and in the
sets of inputs and nowhere else. Where `MaxPosted` delays a step of the user or
of a timer, the main queue empties itself.

Fairness. `FairSpec` assumes what the platform does: the main queue runs its
blocks, timers fire (those of the pager, the refresh control, the throttle, the
picker and the countdown), the operation queue starts its operations, animations
end. The `Spec` of `Screens` carries the same assumptions for its screens.
No liveness property relies on the user, with one exception: an alert covers
everything, so `EveryAlertShown` assumes that alerts on screen are answered.
`RefreshEnds` lets the user stay in delete mode for ever, where the program
itself waits; `FollowsDevice` lets the device be turned again or the screen be
closed, `CountEnds` the screen be closed; the properties of the toasts, the
refresh and the countdown except a trap.

### Where the code departs from its own comments

Five runs end in a counterexample on purpose, four for a comment of the
activity list and one for the quiz editor; `PROJECT.json` quotes the comments.

| Run | Property | What happens |
|---|---|---|
| `compact_delete_mode_stays` | `DeleteModeIsReset` | after a deletion the view leaves delete mode and the view model does not; taps on rows are then ignored |
| `compact_stale_button` | `DeleteButtonHasRows` | a refresh timer that fires in delete mode leaves a delete button whose tap unwraps nil |
| `compact_double_tap` | `OnlyConfirmedIsDeleted` | two taps raise two confirmations of the same row numbers; the second deletes other rows, or traps |
| `compact_sorted_delete` | `ConfirmedIsDeleted` | on the download tab the row numbers of the sorted table are used on the unsorted store |
| `quiz_complete` | `CompleteSavesTheScreen` | after a return from the other tab "complete" saves the text of before, with the new one on screen |

Other departures have no run of their own; where a property holds around one, its
statement names it:

* The comment at `CompactView.swift:166` ties the "select all" box to the
  selection of every row; a reload that clears the selection leaves the box
  checked. `AllSelectedImpliesChecked` is the direction that holds.
* The comment at `EventViewModel.swift:67` wants events that start together
  ordered by the nearest stop; the code of line 80 puts the latest stop first.
  `GroupedAndSorted` states what the two agree on and asks nothing of such
  events; the theorem `LatestStopFirst` says what the code makes of them.
* A load of events that fails leaves the refresh control spinning, and no pull
  can start another load (`SpinsOnlyAfterFailure`).
* A touch that the system cancels leaves its thumb highlighted; the next touch
  moves it from wherever it begins (`OnlyTouchedThumbMoves`).
* A range that was closed at the start of the slider cannot be opened again by
  a drag: the lower thumb covers the upper one (`RangeCanWiden`).
* A rotating screen opened in landscape stays upright until the first turn, which
  `skip(1)` waits for, and the orientation lock it set outlives it
  (`SettledOnDevice`).
* The countdown's toaster keeps the window it found first; one that found none
  traps (`CountEnds`).

The passing properties say how far each departure goes: without a refresh in
delete mode and without a second confirmation nothing traps
(`CrashNeedsRefreshOrRace`); on the tabs that do not sort, one confirmation
deletes exactly what was selected (`ConfirmedIsDeleted`); and on every tab it
deletes as many rows (`AsManyDeleted`).

## 4. Proofs

TLAPS proves the following for every value of the constants. The assumptions
are those the modules name: the bounds are naturals, the keys a finite set of
naturals, the tab one of the four, the pager has at least one item, the empty
text is not one the user types, a slider is wider than the reach of a thumb.

**AlertService.** `TypeCorrect`. `OverlapNeedsRace` needs a stronger invariant,
`AtMostOne`: without a race the posted blocks and the alerts on the window are
together at most one, `dismiss()` remembers the one on the window, and
`isPresenting` is set while there is one; each action moves that one alert.
`StuckNeedsDrop` is inductive with the types. `AlertsShownInOrder` needs
`InLine`: the last alert shown, the posted ones and the waiting ones are
numbered in ascending order, in that order; a new alert joins at the end and
the next one shown leaves at the front. `IsSerialDisplay` maps every step to one of
`SerialDisplay` or to a stutter: the two invariants say that the alert presented
is the first in line and that the window is empty, unless there was a race.

**CompactActivity.** `ImplementsAlertService`: every step of the list is a step
of the alert queue or leaves it alone, so the theorems above hold for its alerts
and are reused rather than proved again. `TypeCorrect` includes that the table
is the store and that selected rows exist; it rests on lemmas about row numbers
(a row number is below the number of rows, distinct rows have distinct numbers),
proved from the library's facts about cardinality. `NoDetail`,
`AllSelectedChecked` and `RefreshHasAnEnd` are inductive with the types.
`ConfirmedDeleted` needs `AskedFits`: unless two confirmations raced, what every
pending alert captured are row numbers of the store as it is now, and, but on
the download tab, of exactly the keys the user saw. Nothing changes the store
while an alert is pending except its answer; that is what the race takes
away. On the download tab, where the run `compact_sorted_delete` refutes it,
`ConfirmedOrMirroredDeleted` says exactly what goes instead: the confirmed rows,
or those as far from the start of the store as the confirmed ones are from
its end. `AsManyAreDeleted` covers the sorted tab too: what an alert captured are as
many row numbers as rows were selected (distinct rows of the table, in either
order, have distinct numbers), and every number below the length of the store is
the number of one of its rows, because the numbers are as many and distinct.
`CrashNeedsRace` adds `ButtonFollowsRows`: the delete button is shown
only over a selection, but for a refresh in delete mode.

**TabPager.** `ScrollsBounded`, `DisabledOnlyWhileScrolling` and `SettlesOnTap`
follow from one inductive invariant, `IInv`: the scrolls are in one of three
phases (`Settled`, `Scrolling`, `Overlapping`), and the page is the one of the
relay and of the last tap. The bound of two is not inductive without the phases:
one has to know that a header that takes touches means at most one scroll,
and that before the timer it means none.

**ToastQueue.** Types, `OneLiveToast` (`AtMostOneLive`), `CancelledStaysGone`
(`CancelledIsGone`) and the refinement of `SerialDisplay` (`IsSerialDisplay`) for
any number of toasts. The refinement is used as well as proved:
`OneToastAtATime` follows from the abstract display alone, whatever the
workers and the animations do. `NoToastIsForgotten` adds `GoesOn`: a started toast
keeps a block in the main queue or an animation until it is finished, so that the
serial queue is never blocked. They share `ToastInv`, which relates the flags of every
toast to its blocks in the main queue: which blocks a toast may have given its
flags; that cancellations are posted in the order of the toasts and nothing of a
toast is presented after its cancellation or twice; that a cancelled, unfinished
toast has its cancellation on the way; that only the newest toast is live; that
a started operation is the first unfinished one; and which views belong to which
stage of the animations. The order of the blocks is what it takes to see that a
toast cannot be presented behind its own cancellation.

**QuizEditor.** `RowsAgree` (`TableShowsAnswers`), `TextsAgree` (`TextsReport`)
and `SavesTheScreen` (`CompleteSaves`) for any texts, images and number of
answers. The invariant is about what the table shows or is about to show: the
items handed to it if it is not laid out, its rows if it is, have the length of
the answers kept and equal them but for a late report. `TextsAgree` is inductive.

**Player slider.** `RangeWidens` rests on the order of the two ends, which the
bounds of a drag keep; `TouchedThumbMoves` on the fact that, unless the touch
before was cancelled, only thumbs that were in reach when the touch began are
highlighted, although the type may have changed since.

**Rotating screen.** `SettlesOnDevice` from `StreamInOrder`: once the device was
turned, its orientation is the newest value on its way, or nothing is on its way
and the throttle keeps it, or nothing is kept and the screen has it.
`PickerAlwaysSettles` from `PickerInOrder`: the newest scroll scheduled, or
else the one carried out last, is to the selected item along the orientation of
now.

**Countdown.** `CountsInOrder` from `ViewsInOrder`: the view on
screen, the blocks in the main queue and the count of the timer are a chain
without a gap, and only the newest opening has a timer. `CountGoesOn` adds
`TimerOrSeeker`: the timer goes away with the screen, or when it posts the
seeker, which is then the newest view until another opening posts one.

**Events.** `SortsEachOnce` and `SortsIntoGroups` for any number of events and
any clock. The property speaks of the moment the sorting ends, so the invariant
has to say where an event is in the middle of it: `EventSorted` says, of every
event that has been steady so far, that it is in the sorted groups once if its
group's pass is over, among the kept ones of this pass if its filter was asked
and it belongs here, among the rest if it was not asked yet, and nowhere twice;
and that the groups listed so far are in the order of the code
(`ListInOrder`), from which `LatestStopFirst` follows too. Two facts about time carry it:
an event that is steady at a later moment was steady before (`SortingGoesOn`),
and what an answer wants of an event does not change while it is sorted. An event
that starts or stops meanwhile is simply not spoken of, and can be in two groups
or in none. `SpinsAfterFailure` is inductive once the counters are naturals.

**All four screens.** `TypeCorrect` of `Screens` joins the types of the four;
for the events it needs `EventSorted` as well, and for the slider the order of
its ends.

What is only model-checked: the liveness properties `EveryAlertShown`,
`RefreshEnds`, `EveryToastFinishes`, `NewestIsShown`, `TouchesComeBack`,
`FollowsDevice` and `CountEnds`, because temporal proofs under fairness and
ENABLED are beyond the prover; and the five runs that end in a counterexample, which
state what does not hold. The safety half of most of them is proved: that
nothing waits for ever because what it waits for is no longer on its way.
`StuckNeedsDrop` is that half of `EveryAlertShown`, `RefreshHasAnEnd` of
`RefreshEnds`, `NoToastIsForgotten` of `EveryToastFinishes`, `SettlesOnTap` of
`TouchesComeBack`, `SettlesOnDevice` of `FollowsDevice`, `CountGoesOn` of
`CountEnds`. What is left to TLC is that fair steps use up what is on its way.

## 5. Not modelled

Layout, wording, colours, animations as geometry; the contents of rows; the
detail screen; leaving the activity screen, which discards its list. Two tabs of
the activity screen at once: their lists share nothing but the alert queue and
the pager, and an alert or a scroll that is on screen takes the touches of both.
The dealings of UIKit, RxCocoa and Foundation that the modules rely on are stated
at the head of each module and marked external where they are definitions.

Of the parts listed as not modelled, most are vendored (`Pods/`, by far the
largest part of the tree: Firestore, gRPC, BoringSSL, Realm, RxSwift and others)
and are used through their interfaces only. Of the repository's own code:

* Link images: which image belongs to which cell is settled by the library that
  loads them. Photo selection: no flow creates it and its repository is commented
  out.
* Filter slider: one touch moves one value, and nothing else runs meanwhile.
* Older activity lists, alert presenter, loading indicator, video overlay: no
  flow reaches them, or nothing calls them.
* Downloads: classes whose methods have no bodies.
* Server access, models, resources, extensions, navigation bars, web view,
  animated profile, flows: declarations, layout, and calls handed on to a
  library, without state of their own that two actors meet in.
* The seven earlier variants of the quiz screen: the same screen, each with a
  part of what `QuizEditor` models.
* Exercises and notes.

A program change is best followed by the run of its module, then its proofs: a
property that TLC refutes is cheaper to read than an obligation that fails.
