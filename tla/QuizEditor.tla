----------------------------- MODULE QuizEditor -----------------------------
(***************************************************************************)
(* The multiple-choice editor of the MVVM screen: a question and its        *)
(* explanation with their images, and a table of answers.  The view model   *)
(* keeps what the screen shows in nowSceneData; the button "complete"       *)
(* copies it to MainRepository, which outlives the screen.                  *)
(*                                                                         *)
(* What the screen shows and what the view model keeps are told apart here: *)
(* text views report their text in a later turn of the main queue, reloaded *)
(* rows are laid out in a later pass, and a field that loses the focus      *)
(* reports its text under the row number it was last given.                 *)
(*                                                                         *)
(* UIKit's part is taken as it is used: a tab that comes back gets          *)
(* viewWillAppear, a text view posts a change for every edit, a reload      *)
(* hands its cells out again when it is laid out, and the image picker is a *)
(* sheet that covers the screen without taking it away.                     *)
(*                                                                         *)
(* Operators whose name ends in Mutant are plausible bugs of the operator  *)
(* that follows them; no specification uses them.                          *)
(***************************************************************************)
EXTENDS Naturals, Sequences, SequencesExt

CONSTANTS
  Texts,      \* what the user types
  Empty,      \* the empty text
  Images,     \* what the user picks
  MaxItems    \* bound: answers and images, taken together

ASSUME MaxItemsAssumption == MaxItems \in Nat
ASSUME EmptyAssumption == Empty \notin Texts

Kinds == {"question", "explanation"}   \* ImagePickerType, and the text views

(* DataForScene: a question that was never set is shown like an empty one. *)
DataForScene ==
  [text : [Kinds -> Texts \cup {Empty}],
   answers : Seq(Texts \cup {Empty}),
   images : [Kinds -> Seq(Images)]]

VARIABLES
  repository,    \* MainRepository.shared.dataForScene
  nowSceneData,  \* what the view model keeps
  textViews,     \* what the two text views show
  unreported,    \* text views that were edited and have not said so yet
  items,         \* answers last handed to the table
  rows,          \* answers the cells of the table show, by row number
  needsLayout,   \* items were handed to the table after its last layout
  focus,         \* row whose field is being edited, or 0
  otherTab,      \* the user is on the other tab
  picker,        \* kind the image picker is up for, or "none"
  overwritten,   \* history: text views that loadData made differ from the data
  lateReport     \* history: a field reported under a row number that had moved

sceneVars == <<nowSceneData, items, needsLayout>>
viewVars == <<textViews, unreported, rows, focus>>
historyVars == <<overwritten, lateReport>>
vars == <<repository, sceneVars, viewVars, otherTab, picker, historyVars>>

(* The first time the screen is opened, with nothing saved. *)
Init ==
  /\ repository = [text |-> [k \in Kinds |-> Empty], answers |-> <<>>,
                   images |-> [k \in Kinds |-> <<>>]]
  /\ nowSceneData = repository
  /\ textViews = repository.text
  /\ unreported = {}
  /\ items = <<>>
  /\ rows = <<>>
  /\ needsLayout = TRUE
  /\ focus = 0
  /\ otherTab = FALSE
  /\ picker = "none"
  /\ overwritten = {}
  /\ lateReport = FALSE

(* viewWillAppear of the tab bar: the screen is opened again after it was   *)
(* closed, or a swipe back is abandoned.  Either way the editor is new: its *)
(* text views read the repository, and its viewWillAppear loads the rest.   *)
Reopen ==
  /\ picker = "none"
  /\ nowSceneData' = repository
  /\ textViews' = repository.text
  /\ unreported' = {}
  /\ items' = repository.answers
  /\ rows' = <<>>
  /\ needsLayout' = TRUE
  /\ focus' = 0
  /\ otherTab' = FALSE
  /\ overwritten' = {}
  /\ lateReport' = FALSE
  /\ UNCHANGED <<repository, picker>>

(* The bound: answers and images together. *)
HasRoom ==
  Len(nowSceneData.answers) + Len(nowSceneData.images["question"])
    + Len(nowSceneData.images["explanation"]) < MaxItems

Touchable == picker = "none" /\ ~otherTab

(* answerTextChange: a row number past the end is ignored. *)
AnswerTextChange(answers, text, row) ==
  IF row <= Len(answers) THEN [answers EXCEPT ![row] = text] ELSE answers

(* A field reports its text: when it gets the focus, for every edit, and    *)
(* when it loses the focus.                                                 *)
FieldReports(row, text) ==
  /\ nowSceneData' =
       [nowSceneData EXCEPT !.answers = AnswerTextChange(@, text, row)]
  /\ lateReport' =
       (lateReport \/ (needsLayout /\ AnswerTextChange(nowSceneData.answers, text, row)
                                        # nowSceneData.answers))

(* The user edits the field of a row, once no other field has the focus. *)
EditAnswer(row, text) ==
  /\ Touchable
  /\ ~needsLayout
  /\ row \in DOMAIN rows
  /\ focus \in {0, row}
  /\ rows' = [rows EXCEPT ![row] = text]
  /\ focus' = row
  /\ FieldReports(row, text)
  /\ UNCHANGED <<repository, textViews, unreported, items, needsLayout, otherTab,
                 picker, overwritten>>

(* The field in focus loses it, to another one or with the keyboard. *)
EndEditing ==
  /\ Touchable
  /\ ~needsLayout
  /\ focus # 0
  /\ focus' = 0
  /\ FieldReports(focus, rows[focus])
  /\ UNCHANGED <<repository, textViews, unreported, rows, items, needsLayout,
                 otherTab, picker, overwritten>>

(* answerRelay.accept: the table gets the answers and reloads. *)
AcceptAnswers(answers) ==
  /\ items' = answers
  /\ needsLayout' = TRUE

(* "+" adds an empty answer. *)
TapPlusButton ==
  /\ Touchable
  /\ HasRoom
  /\ nowSceneData' = [nowSceneData EXCEPT !.answers = Append(@, Empty)]
  /\ AcceptAnswers(nowSceneData'.answers)
  /\ UNCHANGED <<repository, viewVars, otherTab, picker, historyVars>>

(* "x" of a row removes the answer of that number, if there is one: two     *)
(* touches can end before the table is laid out.                            *)
TapXButton(row) ==
  /\ Touchable
  /\ row \in DOMAIN rows
  /\ row <= Len(nowSceneData.answers)
  /\ nowSceneData' = [nowSceneData EXCEPT !.answers = RemoveAt(@, row)]
  /\ AcceptAnswers(nowSceneData'.answers)
  /\ UNCHANGED <<repository, viewVars, otherTab, picker, historyVars>>

(* A layout that leaves the focus on its row number. *)
LayoutRowsMutant ==
  /\ needsLayout
  /\ rows' = items
  /\ needsLayout' = FALSE
  /\ UNCHANGED <<nowSceneData, lateReport, repository, textViews, unreported, items,
                 focus, otherTab, picker, overwritten>>

(* The reloaded table is laid out: its cells get new texts and row numbers. *)
(* The field in focus may report before (its cell is taken away) or keep    *)
(* the focus with what its cell shows now.                                  *)
LayoutRows ==
  /\ needsLayout
  /\ rows' = items
  /\ needsLayout' = FALSE
  /\ \/ /\ focus # 0
        /\ focus' = 0
        /\ FieldReports(focus, rows[focus])
     \/ /\ focus' = IF focus \in DOMAIN items THEN focus ELSE 0
        /\ UNCHANGED <<nowSceneData, lateReport>>
  /\ UNCHANGED <<repository, textViews, unreported, items, otherTab, picker, overwritten>>

-----------------------------------------------------------------------------
(* The user edits a text view. *)
EditText(kind, text) ==
  /\ Touchable
  /\ textViews' = [textViews EXCEPT ![kind] = text]
  /\ unreported' = unreported \cup {kind}
  /\ UNCHANGED <<repository, sceneVars, rows, focus, otherTab, picker, historyVars>>

(* questionTextChange that is wired to the other text view. *)
TextChangeMutant(kind) ==
  /\ kind \in unreported
  /\ unreported' = unreported \ {kind}
  /\ \E other \in Kinds \ {kind} :
       nowSceneData' = [nowSceneData EXCEPT !.text[other] = textViews[kind]]
  /\ overwritten' = overwritten \ {kind}
  /\ UNCHANGED <<repository, items, needsLayout, textViews, rows, focus, otherTab,
                 picker, lateReport>>

(* questionTextChange and explanationTextChange, in a later turn of the     *)
(* main queue: the text of that moment.                                     *)
TextChange(kind) ==
  /\ kind \in unreported
  /\ unreported' = unreported \ {kind}
  /\ nowSceneData' = [nowSceneData EXCEPT !.text[kind] = textViews[kind]]
  /\ overwritten' = overwritten \ {kind}
  /\ UNCHANGED <<repository, items, needsLayout, textViews, rows, focus, otherTab,
                 picker, lateReport>>

(* A camera button says for which images the picker comes up. *)
TapCameraButton(kind) ==
  /\ Touchable
  /\ picker' = kind
  /\ UNCHANGED <<repository, sceneVars, viewVars, otherTab, historyVars>>

(* The picked image is added to the images of that kind; the collections    *)
(* are handed the images after every change of theirs.                      *)
PickImage(image) ==
  /\ picker # "none"
  /\ HasRoom
  /\ nowSceneData' = [nowSceneData EXCEPT !.images[picker] = Append(@, image)]
  /\ picker' = "none"
  /\ UNCHANGED <<repository, items, needsLayout, viewVars, otherTab, historyVars>>

ClosePicker ==
  /\ picker # "none"
  /\ picker' = "none"
  /\ UNCHANGED <<repository, sceneVars, viewVars, otherTab, historyVars>>

-----------------------------------------------------------------------------
(* The editor leaves the window, and a field in focus its focus. *)
LeaveTab ==
  /\ Touchable
  /\ otherTab' = TRUE
  /\ focus' = 0
  /\ \/ focus # 0 /\ FieldReports(focus, rows[focus])
     \/ focus = 0 /\ UNCHANGED <<nowSceneData, lateReport>>
  /\ UNCHANGED <<repository, textViews, unreported, rows, items, needsLayout, picker,
                 overwritten>>

(* loadData that keeps the table as it is. *)
ReturnToTabMutant ==
  /\ otherTab
  /\ otherTab' = FALSE
  /\ nowSceneData' = repository
  /\ overwritten' = {k \in Kinds : textViews[k] # repository.text[k]}
  /\ lateReport' = FALSE
  /\ UNCHANGED <<items, needsLayout, repository, viewVars, picker>>

(* viewWillAppear of the editor: loadData puts the saved data in the place  *)
(* of what was edited, and hands the table and the collections theirs.  The *)
(* text views keep their text.                                              *)
ReturnToTab ==
  /\ otherTab
  /\ otherTab' = FALSE
  /\ nowSceneData' = repository
  /\ AcceptAnswers(repository.answers)
  /\ overwritten' = {k \in Kinds : textViews[k] # repository.text[k]}
  /\ lateReport' = FALSE
  /\ UNCHANGED <<repository, viewVars, picker>>

(* "complete" that saves the texts only. *)
TapCompleteButtonMutant ==
  /\ Touchable
  /\ repository' = [repository EXCEPT !.text = nowSceneData.text]
  /\ UNCHANGED <<sceneVars, viewVars, otherTab, picker, historyVars>>

(* "complete" saves what the view model keeps. *)
TapCompleteButton ==
  /\ Touchable
  /\ repository' = nowSceneData
  /\ UNCHANGED <<sceneVars, viewVars, otherTab, picker, historyVars>>

Next ==
  \/ Reopen
  \/ \E row \in 1 .. MaxItems :
       \/ TapXButton(row)
       \/ \E text \in Texts \cup {Empty} : EditAnswer(row, text)
  \/ EndEditing
  \/ TapPlusButton
  \/ LayoutRows
  \/ \E kind \in Kinds :
       \/ TextChange(kind)
       \/ TapCameraButton(kind)
       \/ \E text \in Texts \cup {Empty} : EditText(kind, text)
  \/ \E image \in Images : PickImage(image)
  \/ ClosePicker
  \/ LeaveTab
  \/ ReturnToTab
  \/ TapCompleteButton

Spec == Init /\ [][Next]_vars

-----------------------------------------------------------------------------
(* Types of the scene's data and of the views; a row is in focus only if it *)
(* is on screen.                                                            *)
TypeOK ==
  /\ repository \in DataForScene
  /\ nowSceneData \in DataForScene
  /\ textViews \in [Kinds -> Texts \cup {Empty}]
  /\ unreported \in SUBSET Kinds
  /\ items \in Seq(Texts \cup {Empty})
  /\ rows \in Seq(Texts \cup {Empty})
  /\ needsLayout \in BOOLEAN
  /\ focus \in 0 .. Len(rows)
  /\ otherTab \in BOOLEAN
  /\ picker \in Kinds \cup {"none"}
  /\ overwritten \in SUBSET Kinds
  /\ lateReport \in BOOLEAN

(* Once it is laid out the table has a row for every answer the view model  *)
(* keeps, whatever was added and removed before the layout; and the rows    *)
(* show these answers, unless a field lost its focus to a reload and its    *)
(* text went to the answer that had moved to its row number.                *)
RowsAgree ==
  ~needsLayout =>
    /\ Len(rows) = Len(nowSceneData.answers)
    /\ rows = nowSceneData.answers \/ lateReport

(* A text view and the view model disagree only until the text view reports *)
(* or after loadData put the saved text under it, which the view is not     *)
(* told.                                                                    *)
TextsAgree ==
  \A k \in Kinds :
    textViews[k] # nowSceneData.text[k] => k \in unreported \cup overwritten

(* "complete" saves the rows and the texts on screen, once everything on    *)
(* screen was reported and laid out, except in the two cases above.         *)
SavesTheScreen ==
  [][TapCompleteButton /\ unreported = {} /\ ~needsLayout /\ ~lateReport
       => /\ repository'.answers = rows
          /\ \A k \in Kinds \ overwritten : repository'.text[k] = textViews[k]]_vars

(* The comment of tapCompleteButton: the button saves the data of the       *)
(* screen.  It does not when the user comes back from the other tab.        *)
CompleteSavesTheScreen ==
  [][TapCompleteButton /\ unreported = {} /\ ~needsLayout
       => repository'.text = textViews]_vars
=============================================================================
