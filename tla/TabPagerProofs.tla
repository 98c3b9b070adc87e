--------------------------- MODULE TabPagerProofs ---------------------------
(***************************************************************************)
(* The pager keeps its pages, its header and its scrolls in step, for any   *)
(* number of tabs.  The three safety invariants of TabPager follow from one *)
(* that says in which of three phases the scrolls are: none under way, one, *)
(* or the two that an unguarded timer makes.                                *)
(***************************************************************************)
EXTENDS TabPager, TLAPS

(* No scroll is under way. *)
Settled ==
  /\ transitions = <<>>
  /\ disabledPages = {}
  /\ headerEnabled

(* One scroll is under way, to the page shown; before the timer fires it    *)
(* keeps the header disabled.                                               *)
Scrolling ==
  /\ transitions = <<page>>
  /\ disabledPages = {page}
  /\ headerEnabled => ~timerPending

(* Two scrolls are under way, the later one to the page shown. *)
Overlapping(p) ==
  /\ p # page
  /\ transitions = <<p, page>>
  /\ disabledPages = {p, page}
  /\ ~headerEnabled
  /\ ~timerPending

ScrollPhase == Settled \/ Scrolling \/ \E p \in Pages : Overlapping(p)

(* Until the first request the first page is shown; from then on the page   *)
(* is the one of the relay, and of the last tap.                            *)
PageIsCurrent ==
  /\ current = None => Settled /\ page = DefaultIndex /\ tapped = None
  /\ current # None => current = page
  /\ tapped \in {None, page}

IInv == TypeOK /\ ScrollPhase /\ PageIsCurrent

-----------------------------------------------------------------------------
LEMMA DefaultIsPage == DefaultIndex \in Pages /\ None \notin Pages
  BY NumberOfItemsAssumption DEF DefaultIndex, Pages, None

LEMMA InitIInv == Init => IInv
  BY DefaultIsPage DEF Init, IInv, TypeOK, ScrollPhase, Settled, PageIsCurrent

LEMMA AppendToOne ==
  ASSUME NEW S, NEW p \in S, NEW q \in S
  PROVE  Append(<<p>>, q) = <<p, q>>
<1> DEFINE s == Append(<<p>>, q)
<1>1. s \in Seq(S) /\ Len(s) = 2 /\ s[1] = p /\ s[2] = q
  OBVIOUS
<1> HIDE DEF s
<1>2. s = <<p, q>>
  BY <1>1
<1> QED
  BY <1>2 DEF s

(* A request made while nothing scrolls: the page is there, or a scroll to  *)
(* it begins and the header is disabled.                                    *)
LEMMA AcceptSettled ==
  ASSUME TypeOK, PageIsCurrent, Settled, NEW index \in Pages, Accept(index)
  PROVE  /\ page' = index /\ current' = index
         /\ Settled' \/ (Scrolling' /\ ~headerEnabled')
<1>1. CASE index = current
  BY <1>1, DefaultIsPage DEF PageIsCurrent, Accept, Settled, scrollVars
<1>2. CASE index # current /\ index = page
  BY <1>2 DEF Accept, PageScroll, Settled
<1>3. CASE index # current /\ index # page
  <2>1. /\ page' = index /\ current' = index
        /\ transitions' = Append(transitions, index)
        /\ disabledPages' = disabledPages \cup {index}
    BY <1>3 DEF Accept, PageScroll
  <2>2. ~headerEnabled'
    BY <1>3 DEF Accept, PageScroll
  <2>3. transitions' = <<index>>
    BY <2>1 DEF Settled
  <2> QED
    BY <2>1, <2>2, <2>3 DEF Settled, Scrolling
<1> QED
  BY <1>1, <1>2, <1>3

(* A request made while a scroll is under way: it is dropped, or it is for  *)
(* another page and a second scroll begins.                                 *)
LEMMA AcceptScrolling ==
  ASSUME TypeOK, PageIsCurrent, Scrolling, NEW index \in Pages, Accept(index),
         ~timerPending'
  PROVE  /\ page' = index /\ current' = index
         /\ ScrollPhase'
<1>1. current = page
  BY DEF PageIsCurrent, Settled, Scrolling
<1>2. CASE index = current
  BY <1>1, <1>2 DEF Accept, ScrollPhase, Scrolling, scrollVars
<1>3. CASE index # current
  <2>1. /\ page' = index /\ current' = index
        /\ transitions' = Append(transitions, index)
        /\ disabledPages' = disabledPages \cup {index}
    BY <1>1, <1>3 DEF Accept, PageScroll
  <2>2. ~headerEnabled'
    BY <1>1, <1>3 DEF Accept, PageScroll
  <2>3. transitions' = <<page, index>>
    <3>1. transitions = <<page>> /\ page \in Pages
      BY DEF Scrolling, TypeOK
    <3>2. transitions' = Append(<<page>>, index)
      BY <2>1, <3>1
    <3> QED
      BY <3>1, <3>2, AppendToOne
  <2>4. transitions' = <<page, page'>> /\ page # page' /\ disabledPages' = {page, page'}
    BY <1>1, <1>3, <2>1, <2>3 DEF Scrolling
  <2>5. PICK p \in Pages : p = page
    BY DEF TypeOK
  <2>6. p # page' /\ transitions' = <<p, page'>> /\ disabledPages' = {p, page'}
    BY <2>4, <2>5
  <2>7. Overlapping(p)'
    BY <2>2, <2>6 DEF Overlapping
  <2> QED
    BY <2>1, <2>7 DEF ScrollPhase
<1> QED
  BY <1>2, <1>3

-----------------------------------------------------------------------------
LEMMA AcceptTypes ==
  ASSUME TypeOK, NEW index \in Pages, Accept(index)
  PROVE  /\ current' \in Pages \cup {None}
         /\ page' \in Pages
         /\ transitions' \in Seq(Pages)
         /\ headerEnabled' \in BOOLEAN
         /\ disabledPages' \in SUBSET Pages
<1>1. CASE PageScroll(index)
  <2>1. CASE index = page
    BY <1>1, <2>1 DEF PageScroll, TypeOK, Accept
  <2>2. CASE index # page
    <3>1. headerEnabled' \in BOOLEAN
      BY <1>1, <2>2 DEF PageScroll
    <3>2. /\ page' = index /\ current' = index
          /\ transitions' = Append(transitions, index)
          /\ disabledPages' = disabledPages \cup {index}
      BY <1>1, <2>2 DEF PageScroll, Accept
    <3>3. transitions \in Seq(Pages) /\ disabledPages \in SUBSET Pages
      BY DEF TypeOK
    <3>4. transitions' \in Seq(Pages)
      BY <3>2, <3>3
    <3> QED
      BY <3>1, <3>2, <3>3, <3>4
  <2> QED
    BY <2>1, <2>2
<1>2. CASE UNCHANGED scrollVars
  BY <1>2 DEF scrollVars, TypeOK, Accept
<1> QED
  BY <1>1, <1>2 DEF Accept

LEMMA DidSelectItemIInv ==
  ASSUME IInv, NEW index \in Pages, DidSelectItem(index)
  PROVE  IInv'
<1> USE DEF IInv
<1>1. /\ headerEnabled /\ Accept(index)
      /\ tapped' = index /\ timerPending' = timerPending
  BY DEF DidSelectItem
<1>2. ScrollPhase' /\ page' = index /\ current' = index
  <2>1. CASE Settled
    BY <1>1, <2>1, AcceptSettled DEF ScrollPhase, Scrolling
  <2>2. CASE Scrolling
    <3>1. ~timerPending'
      BY <1>1, <2>2 DEF Scrolling
    <3> QED
      BY <1>1, <2>2, <3>1, AcceptScrolling
  <2> QED
    BY <1>1, <2>1, <2>2 DEF ScrollPhase, Overlapping
<1>3. TypeOK'
  BY <1>1, AcceptTypes DEF TypeOK
<1>4. PageIsCurrent'
  BY <1>1, <1>2, DefaultIsPage DEF PageIsCurrent
<1> QED
  BY <1>2, <1>3, <1>4

LEMMA ChangeIndexIInv ==
  ASSUME IInv, ChangeIndex
  PROVE  IInv'
<1> USE DEF IInv
<1>1. /\ timerPending /\ Accept(DefaultIndex)
      /\ tapped' = None /\ ~timerPending' /\ timerPending' \in BOOLEAN
  BY DEF ChangeIndex
<1>2. ScrollPhase' /\ page' = DefaultIndex /\ current' = DefaultIndex
  <2>1. CASE Settled
    BY <1>1, <2>1, DefaultIsPage, AcceptSettled DEF ScrollPhase
  <2>2. CASE Scrolling
    BY <1>1, <2>2, DefaultIsPage, AcceptScrolling
  <2> QED
    BY <1>1, <2>1, <2>2 DEF ScrollPhase, Overlapping
<1>3. TypeOK'
  BY <1>1, AcceptTypes, DefaultIsPage DEF TypeOK
<1>4. PageIsCurrent'
  BY <1>1, <1>2, DefaultIsPage DEF PageIsCurrent
<1> QED
  BY <1>2, <1>3, <1>4

LEMMA TransitionEndsIInv ==
  ASSUME IInv, TransitionEnds
  PROVE  IInv'
<1> USE DEF IInv
<1>1. /\ transitions # <<>>
      /\ transitions' = Tail(transitions)
      /\ disabledPages' = disabledPages \ {Head(transitions)}
      /\ UNCHANGED <<current, page, timerPending, tapped>>
  BY DEF TransitionEnds
<1>2. headerEnabled' /\ headerEnabled' \in BOOLEAN
  BY DEF TransitionEnds
<1>3. ScrollPhase'
  <2>1. CASE Scrolling
    <3>1. transitions' = <<>> /\ disabledPages' = {}
      BY <1>1, <2>1 DEF Scrolling
    <3> QED
      BY <1>2, <3>1 DEF ScrollPhase, Settled
  <2>2. ASSUME NEW p \in Pages, Overlapping(p)
        PROVE  ScrollPhase'
    <3>1. transitions' = <<page'>> /\ disabledPages' = {page'}
      BY <1>1, <2>2 DEF Overlapping
    <3>2. ~timerPending'
      BY <1>1, <2>2 DEF Overlapping
    <3> QED
      BY <3>1, <3>2 DEF ScrollPhase, Scrolling
  <2> QED
    BY <1>1, <2>1, <2>2 DEF ScrollPhase, Settled
<1>4. TypeOK'
  <2>1. transitions' \in Seq(Pages) /\ disabledPages' \in SUBSET Pages
    BY <1>1 DEF TypeOK
  <2> QED
    BY <1>1, <1>2, <2>1 DEF TypeOK
<1>5. PageIsCurrent'
  BY <1>1 DEF PageIsCurrent, Settled
<1> QED
  BY <1>3, <1>4, <1>5

THEOREM Inductive == Spec => []IInv
<1>1. IInv /\ [Next]_vars => IInv'
  <2> SUFFICES ASSUME IInv, [Next]_vars PROVE IInv'
    OBVIOUS
  <2>1. CASE \E index \in Pages : DidSelectItem(index)
    BY <2>1, DidSelectItemIInv
  <2>2. CASE ChangeIndex
    BY <2>2, ChangeIndexIInv
  <2>3. CASE TransitionEnds
    BY <2>3, TransitionEndsIInv
  <2>4. CASE UNCHANGED vars
    BY <2>4 DEF vars, scrollVars, IInv, TypeOK, ScrollPhase, Settled, Scrolling,
                Overlapping, PageIsCurrent
  <2> QED
    BY <2>1, <2>2, <2>3, <2>4 DEF Next
<1> QED
  BY InitIInv, <1>1, PTL DEF Spec

-----------------------------------------------------------------------------
(* The types hold for any number of tabs. *)
THEOREM TypeCorrect == Spec => []TypeOK
  BY Inductive, PTL DEF IInv

LEMMA PhaseBounds ==
  ASSUME IInv
  PROVE  ScrollsAreBounded
<1> USE DEF IInv
<1>1. CASE Settled
  BY <1>1 DEF Settled, ScrollsAreBounded
<1>2. CASE Scrolling
  <2>1. Len(transitions) = 1
    BY <1>2 DEF Scrolling
  <2>2. ~(timerPending /\ headerEnabled)
    BY <1>2 DEF Scrolling
  <2> QED
    BY <2>1, <2>2 DEF ScrollsAreBounded
<1>3. ASSUME NEW p \in Pages, Overlapping(p)
      PROVE  ScrollsAreBounded
  <2>1. Len(transitions) = 2
    BY <1>3 DEF Overlapping
  <2> QED
    BY <1>3, <2>1 DEF Overlapping, ScrollsAreBounded
<1> QED
  BY <1>1, <1>2, <1>3 DEF ScrollPhase

(* At most two scrolls overlap, and only the timer makes them: without it   *)
(* the header admits one at a time.                                         *)
THEOREM ScrollsBounded == Spec => []ScrollsAreBounded
  BY Inductive, PhaseBounds, PTL

LEMMA PhaseDisabled ==
  ASSUME IInv
  PROVE  DisabledWhileScrolling
<1> USE DEF IInv
<1>1. CASE Settled
  BY <1>1 DEF Settled, DisabledWhileScrolling
<1>2. CASE Scrolling
  BY <1>2 DEF Scrolling, DisabledWhileScrolling
<1>3. ASSUME NEW p \in Pages, Overlapping(p)
      PROVE  DisabledWhileScrolling
  BY <1>3 DEF Overlapping, DisabledWhileScrolling
<1> QED
  BY <1>1, <1>2, <1>3 DEF ScrollPhase

(* No page is left without touches when its scroll is over, and none has    *)
(* them while a scroll to it is under way, overlapping scrolls included.    *)
THEOREM DisabledOnlyWhileScrolling == Spec => []DisabledWhileScrolling
  BY Inductive, PhaseDisabled, PTL

LEMMA PhaseSettled ==
  ASSUME IInv
  PROVE  SettledOnTap
<1> SUFFICES ASSUME transitions = <<>>
             PROVE  headerEnabled /\ current \in {page, None} /\ tapped \in {page, None}
  BY DEF SettledOnTap
<1>1. Settled
  BY DEF IInv, ScrollPhase, Scrolling, Overlapping
<1> QED
  BY <1>1 DEF IInv, PageIsCurrent, Settled

(* Once the scrolls are over the header can be tapped, and the page shown   *)
(* is the last one tapped since the timer fired.                            *)
THEOREM SettlesOnTap == Spec => []SettledOnTap
  BY Inductive, PhaseSettled, PTL
=============================================================================
