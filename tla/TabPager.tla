------------------------------ MODULE TabPager ------------------------------
(***************************************************************************)
(* TabPagerView and TabPagerContents: the header of tabs above the pages of *)
(* the activity screen.  The relay `current` holds the tab to show; its     *)
(* subscriptions scroll the pages to it and select its header cell.  A tap  *)
(* on the header sets the relay, and so does a timer, once, half a second   *)
(* after the screen was set up.  The header takes no touch from the moment  *)
(* a scroll begins until a scroll ends.                                     *)
(*                                                                         *)
(* The scroll itself is UIPageViewController's: setViewControllers replaces *)
(* the page at once and reports the end of its animation later; animations  *)
(* end in the order they began.  Dragging the pages is disabled in the      *)
(* source (its data source has no page before or after another).            *)
(*                                                                         *)
(* Operators whose name ends in Mutant are plausible bugs of the operator  *)
(* that follows them; no specification uses them.                          *)
(***************************************************************************)
EXTENDS Naturals, Sequences

CONSTANT NumberOfItems   \* tabs of the pager

ASSUME NumberOfItemsAssumption == NumberOfItems \in Nat \ {0}

Pages == 0 .. NumberOfItems - 1
DefaultIndex == 0
None == NumberOfItems   \* no tab yet

VARIABLES
  current,        \* the relay: the tab to show; its header cell is selected
  page,           \* the page the page view controller holds
  transitions,    \* targets of the animations that have not ended, oldest first
  headerEnabled,  \* does the header take touches?
  disabledPages,  \* pages whose subviews take no touch
  timerPending,   \* the timer of didLoadsetupLayout has not fired
  tapped          \* history: the last tap on the header the timer did not follow

scrollVars == <<page, transitions, headerEnabled, disabledPages>>
vars == <<current, scrollVars, timerPending, tapped>>

(* reload and didLoadsetupLayout, when the screen opens: the first page is  *)
(* put up without animation and the timer is set.                           *)
Init ==
  /\ current = None
  /\ page = DefaultIndex
  /\ transitions = <<>>
  /\ headerEnabled = TRUE
  /\ disabledPages = {}
  /\ timerPending = TRUE
  /\ tapped = None

-----------------------------------------------------------------------------
(* pageScroll that leaves the header touchable. *)
PageScrollMutant(index) ==
  \/ /\ index = page
     /\ disabledPages' = disabledPages \ {index}
     /\ UNCHANGED <<page, transitions, headerEnabled>>
  \/ /\ index # page
     /\ page' = index
     /\ transitions' = Append(transitions, index)
     /\ disabledPages' = disabledPages \cup {index}
     /\ UNCHANGED headerEnabled

(* The subscription of `current`: the header is disabled, and pageScroll    *)
(* either has the page already and calls its handler, or begins a scroll.   *)
PageScroll(index) ==
  \/ /\ index = page
     /\ headerEnabled' = TRUE
     /\ disabledPages' = disabledPages \ {index}
     /\ UNCHANGED <<page, transitions>>
  \/ /\ index # page
     /\ page' = index
     /\ transitions' = Append(transitions, index)
     /\ headerEnabled' = FALSE
     /\ disabledPages' = disabledPages \cup {index}

(* current.accept without distinctUntilChanged: a scroll to the page that   *)
(* is shown ends at once, and enables what the earlier scroll disabled.     *)
AcceptMutant(index) ==
  /\ current' = index
  /\ PageScroll(index)

(* current.accept: distinctUntilChanged drops an index that is repeated. *)
Accept(index) ==
  /\ current' = index
  /\ \/ index # current /\ PageScroll(index)
     \/ index = current /\ UNCHANGED scrollVars

(* didSelectItemAt that selects the cell after the one that was touched. *)
DidSelectItemMutant(index) ==
  /\ headerEnabled
  /\ Accept(index + 1)
  /\ tapped' = index
  /\ UNCHANGED timerPending

(* didSelectItemAt: the user taps a header cell. *)
DidSelectItem(index) ==
  /\ headerEnabled
  /\ Accept(index)
  /\ tapped' = index
  /\ UNCHANGED timerPending

(* The timer asks for the default tab, whatever was tapped before. *)
ChangeIndex ==
  /\ timerPending
  /\ timerPending' = FALSE
  /\ Accept(DefaultIndex)
  /\ tapped' = None

(* A completion that leaves the header disabled. *)
TransitionKeepsHeaderMutant ==
  /\ transitions # <<>>
  /\ transitions' = Tail(transitions)
  /\ disabledPages' = disabledPages \ {Head(transitions)}
  /\ UNCHANGED <<current, page, headerEnabled, timerPending, tapped>>

(* A completion that forgets the subviews of the page it scrolled to. *)
TransitionKeepsPageMutant ==
  /\ transitions # <<>>
  /\ transitions' = Tail(transitions)
  /\ headerEnabled' = TRUE
  /\ UNCHANGED <<current, page, disabledPages, timerPending, tapped>>

(* The completion of a scroll enables the header and the page's subviews. *)
TransitionEnds ==
  /\ transitions # <<>>
  /\ transitions' = Tail(transitions)
  /\ headerEnabled' = TRUE
  /\ disabledPages' = disabledPages \ {Head(transitions)}
  /\ UNCHANGED <<current, page, timerPending, tapped>>

Next ==
  \/ \E index \in Pages : DidSelectItem(index)
  \/ ChangeIndex
  \/ TransitionEnds

Spec == Init /\ [][Next]_vars

(* Animations end; nobody has to tap. *)
FairSpec == Spec /\ WF_vars(TransitionEnds)

-----------------------------------------------------------------------------
(* Types of the relay, the header and the pages. *)
TypeOK ==
  /\ current \in Pages \cup {None}
  /\ page \in Pages
  /\ transitions \in Seq(Pages)
  /\ headerEnabled \in BOOLEAN
  /\ disabledPages \in SUBSET Pages
  /\ timerPending \in BOOLEAN
  /\ tapped \in Pages \cup {None}

(* The header guards the scrolls: before the timer fires at most one is     *)
(* under way, and none while the header takes touches.  The timer does not  *)
(* ask the header, and the overlap it makes can be passed on from tap to    *)
(* tap for as long as the user taps quickly, but it never grows.            *)
ScrollsAreBounded ==
  /\ Len(transitions) <= 2
  /\ headerEnabled => Len(transitions) <= 1
  /\ timerPending => Len(transitions) <= 1
  /\ timerPending /\ headerEnabled => transitions = <<>>

(* The subviews of a page are disabled exactly while a scroll to it is      *)
(* under way, although every scroll disables the page when it begins and    *)
(* enables it when it ends, and scrolls overlap.                            *)
DisabledWhileScrolling ==
  disabledPages = {transitions[i] : i \in DOMAIN transitions}

(* When the animations have ended, the user can tap, the page is the one of *)
(* the selected header cell, and it is the last one tapped.                 *)
SettledOnTap ==
  transitions = <<>> =>
    /\ headerEnabled
    /\ current \in {page, None}
    /\ tapped \in {page, None}

(* However quickly the user taps, the header takes touches again and again, *)
(* and so does every page that was scrolled to.                             *)
TouchesComeBack ==
  /\ []<>headerEnabled
  /\ \A p \in Pages : []<>(p \notin disabledPages)
=============================================================================
