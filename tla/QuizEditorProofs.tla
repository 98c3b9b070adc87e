-------------------------- MODULE QuizEditorProofs --------------------------
(***************************************************************************)
(* Theorems about QuizEditor for any texts and images and any number of    *)
(* them.                                                                   *)
(***************************************************************************)
EXTENDS QuizEditor, TLAPS, SequenceTheorems

AllTexts == Texts \cup {Empty}

LEMMA AnswerChanged ==
  ASSUME NEW s \in Seq(AllTexts), NEW x \in AllTexts, NEW row \in Nat \ {0}
  PROVE  /\ AnswerTextChange(s, x, row) \in Seq(AllTexts)
         /\ Len(AnswerTextChange(s, x, row)) = Len(s)
         /\ row \in 1 .. Len(s) /\ x = s[row] => AnswerTextChange(s, x, row) = s
         /\ row \in 1 .. Len(s) => AnswerTextChange(s, x, row) = [s EXCEPT ![row] = x]
BY DEF AnswerTextChange

LEMMA AnswerRemoved ==
  ASSUME NEW S, NEW s \in Seq(S), NEW i \in 1 .. Len(s)
  PROVE  RemoveAt(s, i) \in Seq(S)
<1>1. SubSeq(s, 1, i - 1) \in Seq(S) /\ SubSeq(s, i + 1, Len(s)) \in Seq(S)
  OBVIOUS
<1> QED
  BY <1>1, ConcatProperties DEF RemoveAt

-----------------------------------------------------------------------------
SceneTypes ==
  /\ repository \in DataForScene
  /\ nowSceneData \in DataForScene
  /\ textViews \in [Kinds -> AllTexts]
  /\ items \in Seq(AllTexts)
  /\ rows \in Seq(AllTexts)

ScreenTypes ==
  /\ unreported \in SUBSET Kinds /\ overwritten \in SUBSET Kinds
  /\ picker \in Kinds \cup {"none"}
  /\ needsLayout \in BOOLEAN /\ otherTab \in BOOLEAN /\ lateReport \in BOOLEAN

FocusOnScreen == focus \in 0 .. Len(rows)

LEMMA SplitTypes == TypeOK <=> SceneTypes /\ ScreenTypes /\ FocusOnScreen
BY Zenon DEF TypeOK, SceneTypes, ScreenTypes, FocusOnScreen, AllTexts

LEMMA ScreenTypesInductive == ScreenTypes /\ [Next]_vars => ScreenTypes'
BY Zenon DEF ScreenTypes, Next, vars, sceneVars, viewVars, historyVars, Reopen, EditAnswer,
   EndEditing, TapPlusButton, TapXButton, LayoutRows, EditText, TextChange, TapCameraButton,
   PickImage, ClosePicker, LeaveTab, ReturnToTab, TapCompleteButton, FieldReports,
   AcceptAnswers, AllTexts

(* What the steps do to the data of the screen. *)
LEMMA SceneFields ==
  ASSUME NEW d \in DataForScene
  PROVE  /\ d.text \in [Kinds -> AllTexts]
         /\ d.answers \in Seq(AllTexts)
         /\ d.images \in [Kinds -> Seq(Images)]
BY DEF DataForScene, AllTexts

LEMMA SceneWithAnswers ==
  ASSUME NEW d \in DataForScene, NEW a \in Seq(AllTexts)
  PROVE  /\ [d EXCEPT !.answers = a] \in DataForScene
         /\ [d EXCEPT !.answers = a].answers = a
         /\ [d EXCEPT !.answers = a].text = d.text
BY DEF DataForScene, AllTexts

LEMMA SceneWithText ==
  ASSUME NEW d \in DataForScene, NEW k \in Kinds, NEW x \in AllTexts
  PROVE  /\ [d EXCEPT !.text[k] = x] \in DataForScene
         /\ [d EXCEPT !.text[k] = x].answers = d.answers
         /\ [d EXCEPT !.text[k] = x].text[k] = x
         /\ \A j \in Kinds : j # k => [d EXCEPT !.text[k] = x].text[j] = d.text[j]
BY DEF DataForScene, AllTexts

LEMMA SceneWithImage ==
  ASSUME NEW d \in DataForScene, NEW k \in Kinds, NEW i \in Images
  PROVE  /\ [d EXCEPT !.images[k] = Append(@, i)] \in DataForScene
         /\ [d EXCEPT !.images[k] = Append(@, i)].answers = d.answers
         /\ [d EXCEPT !.images[k] = Append(@, i)].text = d.text
<1>1. d.images[k] \in Seq(Images)
  BY SceneFields
<1>2. Append(d.images[k], i) \in Seq(Images)
  BY <1>1, AppendProperties
<1> DEFINE new == Append(d.images[k], i)
<1>3. new \in Seq(Images) /\ [d EXCEPT !.images[k] = Append(@, i)] = [d EXCEPT !.images[k] = new]
  BY Zenon, <1>2
<1> HIDE DEF new
<1> QED
  BY <1>3 DEF DataForScene

LEMMA FieldReportsData ==
  ASSUME SceneTypes, NEW row \in Nat \ {0}, NEW x \in AllTexts, FieldReports(row, x)
  PROVE  /\ nowSceneData' \in DataForScene
         /\ nowSceneData'.text = nowSceneData.text
         /\ nowSceneData'.answers = AnswerTextChange(nowSceneData.answers, x, row)
         /\ Len(nowSceneData'.answers) = Len(nowSceneData.answers)
         /\ lateReport => lateReport'
         /\ needsLayout => nowSceneData'.answers = nowSceneData.answers \/ lateReport'
<1> DEFINE a == AnswerTextChange(nowSceneData.answers, x, row)
<1>1. nowSceneData \in DataForScene /\ nowSceneData.answers \in Seq(AllTexts)
  BY Zenon, SceneFields DEF SceneTypes
<1>2. a \in Seq(AllTexts) /\ Len(a) = Len(nowSceneData.answers)
  BY Zenon, <1>1, AnswerChanged
<1>3. /\ nowSceneData' = [nowSceneData EXCEPT !.answers = a]
      /\ lateReport' = (lateReport \/ (needsLayout /\ a # nowSceneData.answers))
  BY Zenon DEF FieldReports
<1> HIDE DEF a
<1>4. /\ nowSceneData' \in DataForScene /\ nowSceneData'.answers = a
      /\ nowSceneData'.text = nowSceneData.text
  BY Zenon, <1>1, <1>2, <1>3, SceneWithAnswers
<1>5. a = AnswerTextChange(nowSceneData.answers, x, row)
  BY DEF a
<1> QED
  BY Zenon, <1>2, <1>3, <1>4, <1>5

(* The field in focus has a text of its row. *)
LEMMA FocusReports ==
  ASSUME SceneTypes, FocusOnScreen, focus # 0
  PROVE  focus \in 1 .. Len(rows) /\ focus \in Nat \ {0} /\ rows[focus] \in AllTexts
BY DEF SceneTypes, FocusOnScreen

-----------------------------------------------------------------------------
(* What the table shows, or will show once it is laid out, is the view      *)
(* model's answers; a field that reports late leaves their number alone.    *)
Shown == IF needsLayout THEN items ELSE rows

TableAgrees ==
  /\ Len(Shown) = Len(nowSceneData.answers)
  /\ Shown = nowSceneData.answers \/ lateReport

EditorInv == SceneTypes /\ FocusOnScreen /\ TableAgrees /\ TextsAgree

(* Steps that hand the table the answers the view model has then. *)
LEMMA AcceptKeeps ==
  ASSUME EditorInv, nowSceneData' \in DataForScene, AcceptAnswers(nowSceneData'.answers)
  PROVE  items' \in Seq(AllTexts) /\ TableAgrees'
<1>1. items' = nowSceneData'.answers /\ needsLayout'
  BY Zenon DEF AcceptAnswers
<1>2. nowSceneData'.answers \in Seq(AllTexts)
  BY Zenon, SceneFields
<1>3. Shown' = items'
  BY Zenon, <1>1 DEF Shown
<1> QED
  BY Zenon, <1>1, <1>2, <1>3 DEF TableAgrees

(* A late report of the field in focus, when the table is not laid out. *)
LEMMA FocusReportKeeps ==
  ASSUME EditorInv, focus # 0, FieldReports(focus, rows[focus])
  PROVE  /\ nowSceneData' \in DataForScene
         /\ nowSceneData'.text = nowSceneData.text
         /\ Len(Shown) = Len(nowSceneData'.answers)
         /\ Shown = nowSceneData'.answers \/ lateReport'
<1>0. SceneTypes /\ FocusOnScreen /\ TableAgrees
  BY Zenon DEF EditorInv
<1>1. focus \in 1 .. Len(rows) /\ focus \in Nat \ {0} /\ rows[focus] \in AllTexts
  BY Zenon, <1>0, FocusReports
<1>2. /\ nowSceneData' \in DataForScene
      /\ nowSceneData'.text = nowSceneData.text
      /\ nowSceneData'.answers = AnswerTextChange(nowSceneData.answers, rows[focus], focus)
      /\ Len(nowSceneData'.answers) = Len(nowSceneData.answers)
      /\ lateReport => lateReport'
      /\ needsLayout => nowSceneData'.answers = nowSceneData.answers \/ lateReport'
  BY Zenon, <1>0, <1>1, FieldReportsData
<1>3. Len(Shown) = Len(nowSceneData'.answers)
  BY Zenon, <1>0, <1>2 DEF TableAgrees
<1>4. CASE needsLayout
  BY Zenon, <1>0, <1>2, <1>3, <1>4 DEF TableAgrees
<1>5. CASE ~needsLayout
  <2>1. Shown = rows
    BY Zenon, <1>5 DEF Shown
  <2>2. CASE rows = nowSceneData.answers
    <3>1. nowSceneData'.answers = nowSceneData.answers
      <4>1. nowSceneData.answers \in Seq(AllTexts)
        BY Zenon, <1>0, SceneFields DEF SceneTypes
      <4>2. /\ focus \in 1 .. Len(nowSceneData.answers)
            /\ rows[focus] = nowSceneData.answers[focus]
        BY Zenon, <1>1, <2>2
      <4> QED
        BY Zenon, <1>1, <1>2, <4>1, <4>2, AnswerChanged
    <3> QED
      BY Zenon, <1>2, <1>3, <2>1, <2>2, <3>1
  <2> QED
    BY Zenon, <1>0, <1>2, <1>3, <2>1, <2>2 DEF TableAgrees
<1> QED
  BY <1>4, <1>5

LEMMA ReopenKeeps == EditorInv /\ Reopen => EditorInv'
<1> SUFFICES ASSUME EditorInv, Reopen PROVE EditorInv'
  OBVIOUS
<1>1. /\ repository \in DataForScene /\ repository' = repository
      /\ nowSceneData' = repository /\ textViews' = repository.text /\ needsLayout'
      /\ items' = repository.answers /\ rows' = <<>> /\ focus' = 0
  BY Zenon DEF Reopen, EditorInv, SceneTypes
<1>2. repository.text \in [Kinds -> AllTexts] /\ repository.answers \in Seq(AllTexts)
  BY Zenon, <1>1, SceneFields
<1>3. rows' \in Seq(AllTexts) /\ FocusOnScreen'
  BY <1>1 DEF FocusOnScreen
<1>4. SceneTypes'
  BY Zenon, <1>1, <1>2, <1>3 DEF SceneTypes
<1>5. TableAgrees'
  BY Zenon, <1>1 DEF TableAgrees, Shown
<1>6. TextsAgree'
  BY Zenon, <1>1 DEF TextsAgree
<1> QED
  BY Zenon, <1>3, <1>4, <1>5, <1>6 DEF EditorInv

LEMMA EditAnswerKeeps ==
  ASSUME EditorInv, NEW row \in 1 .. MaxItems, NEW text \in AllTexts, EditAnswer(row, text)
  PROVE  EditorInv'
<1>0. SceneTypes /\ FocusOnScreen /\ TableAgrees /\ TextsAgree
  BY Zenon DEF EditorInv
<1>1. /\ ~needsLayout /\ ~needsLayout' /\ row \in DOMAIN rows
      /\ rows' = [rows EXCEPT ![row] = text]
      /\ focus' = row /\ FieldReports(row, text)
      /\ repository' = repository /\ textViews' = textViews /\ unreported' = unreported
      /\ items' = items /\ overwritten' = overwritten
  BY Zenon DEF EditAnswer
<1>2. row \in Nat \ {0}
  BY MaxItemsAssumption
<1>3. /\ nowSceneData' \in DataForScene
      /\ nowSceneData'.text = nowSceneData.text
      /\ nowSceneData'.answers = AnswerTextChange(nowSceneData.answers, text, row)
      /\ Len(nowSceneData'.answers) = Len(nowSceneData.answers)
      /\ lateReport => lateReport'
  BY Zenon, <1>0, <1>1, <1>2, FieldReportsData
<1>4. rows \in Seq(AllTexts) /\ nowSceneData.answers \in Seq(AllTexts)
  BY Zenon, <1>0, SceneFields DEF SceneTypes
<1>5. /\ row \in 1 .. Len(rows) /\ rows' \in Seq(AllTexts) /\ Len(rows') = Len(rows)
      /\ focus' \in 0 .. Len(rows')
  BY <1>1, <1>4
<1>6. Shown = rows /\ Shown' = rows'
  BY Zenon, <1>1 DEF Shown
<1>7. Len(Shown') = Len(nowSceneData'.answers)
  BY Zenon, <1>0, <1>3, <1>5, <1>6 DEF TableAgrees
<1>8. Shown' = nowSceneData'.answers \/ lateReport'
  <2>1. CASE rows = nowSceneData.answers
    <3>1. row \in 1 .. Len(nowSceneData.answers)
      BY Zenon, <1>5, <2>1
    <3>2. nowSceneData'.answers = [nowSceneData.answers EXCEPT ![row] = text]
      BY Zenon, <1>2, <1>3, <1>4, <3>1, AnswerChanged
    <3> QED
      BY Zenon, <1>1, <1>6, <2>1, <3>2
  <2> QED
    BY Zenon, <1>0, <1>3, <1>6, <2>1 DEF TableAgrees
<1>9. SceneTypes'
  BY Zenon, <1>0, <1>1, <1>3, <1>5 DEF SceneTypes
<1>10. TextsAgree'
  BY Zenon, <1>0, <1>1, <1>3 DEF TextsAgree
<1> QED
  BY Zenon, <1>5, <1>7, <1>8, <1>9, <1>10 DEF EditorInv, TableAgrees, FocusOnScreen

LEMMA EndEditingKeeps ==
  ASSUME EditorInv, EndEditing \/ LeaveTab
  PROVE  EditorInv'
<1>0. SceneTypes /\ FocusOnScreen /\ TableAgrees /\ TextsAgree
  BY Zenon DEF EditorInv
<1>1. /\ focus' = 0 /\ needsLayout' = needsLayout /\ rows' = rows /\ items' = items
      /\ repository' = repository /\ textViews' = textViews /\ unreported' = unreported
      /\ overwritten' = overwritten
  BY Zenon DEF EndEditing, LeaveTab
<1>2. \/ focus # 0 /\ FieldReports(focus, rows[focus])
      \/ nowSceneData' = nowSceneData /\ lateReport' = lateReport
  BY Zenon DEF EndEditing, LeaveTab
<1>3. Shown' = Shown
  BY Zenon, <1>1 DEF Shown
<1>4. FocusOnScreen'
  BY <1>0, <1>1 DEF FocusOnScreen, SceneTypes
<1>5. /\ nowSceneData' \in DataForScene /\ nowSceneData'.text = nowSceneData.text
      /\ TableAgrees'
  BY Zenon, <1>0, <1>2, <1>3, FocusReportKeeps DEF EditorInv, TableAgrees, SceneTypes
<1>6. SceneTypes' /\ TextsAgree'
  BY Zenon, <1>0, <1>1, <1>5 DEF SceneTypes, TextsAgree
<1> QED
  BY Zenon, <1>4, <1>5, <1>6 DEF EditorInv

LEMMA LayoutRowsKeeps ==
  ASSUME EditorInv, LayoutRows
  PROVE  EditorInv'
<1>0. SceneTypes /\ FocusOnScreen /\ TableAgrees /\ TextsAgree
  BY Zenon DEF EditorInv
<1>1. /\ needsLayout /\ ~needsLayout' /\ rows' = items /\ items' = items
      /\ repository' = repository /\ textViews' = textViews /\ unreported' = unreported
      /\ overwritten' = overwritten
      /\ \/ focus # 0 /\ focus' = 0 /\ FieldReports(focus, rows[focus])
         \/ /\ focus' = IF focus \in DOMAIN items THEN focus ELSE 0
            /\ nowSceneData' = nowSceneData /\ lateReport' = lateReport
  BY Zenon DEF LayoutRows
<1>2. Shown' = Shown
  BY Zenon, <1>1 DEF Shown
<1>3. /\ nowSceneData' \in DataForScene /\ nowSceneData'.text = nowSceneData.text
      /\ TableAgrees'
  <2>1. CASE focus # 0 /\ FieldReports(focus, rows[focus])
    BY Zenon, <1>2, <2>1, FocusReportKeeps DEF TableAgrees
  <2>2. CASE nowSceneData' = nowSceneData /\ lateReport' = lateReport
    BY Zenon, <1>0, <1>2, <2>2 DEF TableAgrees, SceneTypes
  <2> QED
    BY Zenon, <1>1, <2>1, <2>2
<1>4. FocusOnScreen'
  <2>1. items \in Seq(AllTexts)
    BY Zenon, <1>0 DEF SceneTypes
  <2>2. DOMAIN items = 1 .. Len(items) /\ Len(items) \in Nat
    BY <2>1
  <2>3. focus' = 0 \/ focus' \in 1 .. Len(items)
    BY Zenon, <1>1, <2>2
  <2>4. focus' \in 0 .. Len(items)
    BY <2>2, <2>3
  <2> QED
    BY Zenon, <1>1, <2>4 DEF FocusOnScreen
<1>5. SceneTypes' /\ TextsAgree'
  BY Zenon, <1>0, <1>1, <1>3 DEF SceneTypes, TextsAgree
<1> QED
  BY Zenon, <1>3, <1>4, <1>5 DEF EditorInv

LEMMA AnswersKeep ==
  ASSUME EditorInv, TapPlusButton \/ \E row \in 1 .. MaxItems : TapXButton(row)
  PROVE  EditorInv'
<1>0. SceneTypes /\ FocusOnScreen /\ TextsAgree
  BY Zenon DEF EditorInv
<1>1. PICK a \in Seq(AllTexts) :
        nowSceneData' = [nowSceneData EXCEPT !.answers = a] /\ AcceptAnswers(nowSceneData'.answers)
  <2>0. nowSceneData.answers \in Seq(AllTexts)
    BY Zenon, <1>0, SceneFields DEF SceneTypes
  <2>1. CASE TapPlusButton
    <3>1. Append(nowSceneData.answers, Empty) \in Seq(AllTexts)
      BY <2>0, AppendProperties DEF AllTexts
    <3> QED
      BY Zenon, <2>1, <3>1 DEF TapPlusButton
  <2>2. ASSUME NEW row \in 1 .. MaxItems, TapXButton(row)
        PROVE  \E a \in Seq(AllTexts) :
                 /\ nowSceneData' = [nowSceneData EXCEPT !.answers = a]
                 /\ AcceptAnswers(nowSceneData'.answers)
    <3>1. row <= Len(nowSceneData.answers)
      BY Zenon, <2>2 DEF TapXButton
    <3>2. row \in 1 .. Len(nowSceneData.answers)
      BY <2>0, <3>1, MaxItemsAssumption
    <3>3. RemoveAt(nowSceneData.answers, row) \in Seq(AllTexts)
      BY Zenon, <2>0, <3>2, AnswerRemoved
    <3> QED
      BY Zenon, <2>2, <3>3 DEF TapXButton
  <2> QED
    BY Zenon, <2>1, <2>2
<1>2. /\ repository' = repository /\ textViews' = textViews /\ unreported' = unreported
      /\ overwritten' = overwritten /\ rows' = rows /\ focus' = focus
  BY Zenon DEF TapPlusButton, TapXButton, viewVars, historyVars
<1>3. nowSceneData' \in DataForScene /\ nowSceneData'.text = nowSceneData.text
  BY Zenon, <1>0, <1>1, SceneWithAnswers DEF SceneTypes
<1>4. items' \in Seq(AllTexts) /\ TableAgrees'
  BY Zenon, <1>1, <1>3, AcceptKeeps
<1>5. SceneTypes' /\ TextsAgree' /\ FocusOnScreen'
  BY Zenon, <1>0, <1>2, <1>3, <1>4 DEF SceneTypes, TextsAgree, FocusOnScreen
<1> QED
  BY Zenon, <1>4, <1>5 DEF EditorInv

LEMMA ReturnToTabKeeps == EditorInv /\ ReturnToTab => EditorInv'
<1> SUFFICES ASSUME EditorInv, ReturnToTab PROVE EditorInv'
  OBVIOUS
<1>0. SceneTypes /\ FocusOnScreen
  BY Zenon DEF EditorInv
<1>1. /\ repository' = repository /\ textViews' = textViews /\ rows' = rows /\ focus' = focus
      /\ nowSceneData' = repository /\ AcceptAnswers(nowSceneData'.answers)
      /\ overwritten' = {k \in Kinds : textViews[k] # repository.text[k]}
  BY Zenon DEF ReturnToTab, viewVars
<1>2. nowSceneData' \in DataForScene
  BY Zenon, <1>0, <1>1 DEF SceneTypes
<1>3. items' \in Seq(AllTexts) /\ TableAgrees'
  BY Zenon, <1>1, <1>2, AcceptKeeps
<1>4. SceneTypes' /\ FocusOnScreen'
  BY Zenon, <1>0, <1>1, <1>2, <1>3 DEF SceneTypes, FocusOnScreen
<1>5. TextsAgree'
  BY Zenon, <1>1 DEF TextsAgree
<1> QED
  BY Zenon, <1>3, <1>4, <1>5 DEF EditorInv

(* The steps that leave the table alone. *)
LEMMA TextsKeep ==
  ASSUME EditorInv, ScreenTypes,
         \/ \E kind \in Kinds : \/ TextChange(kind)
                                \/ \E text \in AllTexts : EditText(kind, text)
         \/ \E image \in Images : PickImage(image)
         \/ TapCompleteButton
         \/ UNCHANGED <<repository, sceneVars, viewVars, historyVars>>
  PROVE  EditorInv'
<1>0. SceneTypes /\ FocusOnScreen /\ TableAgrees /\ TextsAgree
  BY Zenon DEF EditorInv
<1>k. ASSUME items' = items, needsLayout' = needsLayout, rows' = rows, focus' = focus,
             lateReport' = lateReport, nowSceneData'.answers = nowSceneData.answers,
             nowSceneData' \in DataForScene, repository' \in DataForScene,
             textViews' \in [Kinds -> AllTexts], TextsAgree'
      PROVE  EditorInv'
  BY Zenon, <1>0, <1>k DEF EditorInv, SceneTypes, FocusOnScreen, TableAgrees, Shown
<1>1. ASSUME NEW kind \in Kinds, TextChange(kind)
      PROVE  EditorInv'
  <2>1. /\ nowSceneData' = [nowSceneData EXCEPT !.text[kind] = textViews[kind]]
        /\ unreported' = unreported \ {kind} /\ overwritten' = overwritten \ {kind}
        /\ repository' = repository /\ textViews' = textViews /\ items' = items
        /\ needsLayout' = needsLayout /\ rows' = rows /\ focus' = focus
        /\ lateReport' = lateReport
    BY Zenon, <1>1 DEF TextChange
  <2>2. textViews[kind] \in AllTexts /\ nowSceneData \in DataForScene
    BY <1>0 DEF SceneTypes
  <2>3. /\ nowSceneData' \in DataForScene /\ nowSceneData'.answers = nowSceneData.answers
        /\ nowSceneData'.text[kind] = textViews[kind]
        /\ \A j \in Kinds : j # kind => nowSceneData'.text[j] = nowSceneData.text[j]
    BY Zenon, <2>1, <2>2, SceneWithText
  <2>4. TextsAgree'
    BY Zenon, <1>0, <2>1, <2>3 DEF TextsAgree
  <2> QED
    BY Zenon, <1>0, <1>k, <2>1, <2>3, <2>4 DEF SceneTypes
<1>2. ASSUME NEW kind \in Kinds, NEW text \in AllTexts, EditText(kind, text)
      PROVE  EditorInv'
  <2>1. /\ textViews' = [textViews EXCEPT ![kind] = text]
        /\ unreported' = unreported \cup {kind} /\ overwritten' = overwritten
        /\ repository' = repository /\ nowSceneData' = nowSceneData /\ items' = items
        /\ needsLayout' = needsLayout /\ rows' = rows /\ focus' = focus
        /\ lateReport' = lateReport
    BY Zenon, <1>2 DEF EditText, sceneVars, historyVars
  <2>2. /\ textViews' \in [Kinds -> AllTexts]
        /\ \A j \in Kinds : j # kind => textViews'[j] = textViews[j]
    BY <1>0, <2>1 DEF SceneTypes
  <2>3. TextsAgree'
    BY Zenon, <1>0, <2>1, <2>2 DEF TextsAgree
  <2> QED
    BY Zenon, <1>0, <1>k, <2>1, <2>2, <2>3 DEF SceneTypes
<1>3. ASSUME NEW image \in Images, PickImage(image), picker \in Kinds
      PROVE  EditorInv'
  <2>1. /\ nowSceneData' = [nowSceneData EXCEPT !.images[picker] = Append(@, image)]
        /\ unreported' = unreported /\ overwritten' = overwritten
        /\ repository' = repository /\ textViews' = textViews /\ items' = items
        /\ needsLayout' = needsLayout /\ rows' = rows /\ focus' = focus
        /\ lateReport' = lateReport
    BY Zenon, <1>3 DEF PickImage, viewVars, historyVars
  <2>2. /\ nowSceneData' \in DataForScene /\ nowSceneData'.answers = nowSceneData.answers
        /\ nowSceneData'.text = nowSceneData.text
    BY Zenon, <1>0, <1>3, <2>1, SceneWithImage DEF SceneTypes
  <2>3. TextsAgree'
    BY Zenon, <1>0, <2>1, <2>2 DEF TextsAgree
  <2> QED
    BY Zenon, <1>0, <1>k, <2>1, <2>2, <2>3 DEF SceneTypes
<1>4. CASE TapCompleteButton \/ UNCHANGED <<repository, sceneVars, viewVars, historyVars>>
  <2>1. /\ repository' \in {repository, nowSceneData}
        /\ unreported' = unreported /\ overwritten' = overwritten
        /\ nowSceneData' = nowSceneData /\ textViews' = textViews /\ items' = items
        /\ needsLayout' = needsLayout /\ rows' = rows /\ focus' = focus
        /\ lateReport' = lateReport
    BY Zenon, <1>4 DEF TapCompleteButton, sceneVars, viewVars, historyVars
  <2>2. repository' \in DataForScene
    BY Zenon, <1>0, <2>1 DEF SceneTypes
  <2>3. TextsAgree'
    BY Zenon, <1>0, <2>1 DEF TextsAgree
  <2> QED
    BY Zenon, <1>0, <1>k, <2>1, <2>2, <2>3 DEF SceneTypes
<1> QED
  BY Zenon, <1>1, <1>2, <1>3, <1>4 DEF PickImage, ScreenTypes

LEMMA EditorInductive == EditorInv /\ ScreenTypes /\ [Next]_vars => EditorInv'
<1> SUFFICES ASSUME EditorInv, ScreenTypes, [Next]_vars PROVE EditorInv'
  OBVIOUS
<1>1. CASE \E row \in 1 .. MaxItems :
             TapXButton(row) \/ \E text \in AllTexts : EditAnswer(row, text)
  BY Zenon, <1>1, AnswersKeep, EditAnswerKeeps
<1>2. CASE \E kind \in Kinds :
             \/ TextChange(kind)
             \/ TapCameraButton(kind)
             \/ \E text \in AllTexts : EditText(kind, text)
  BY Zenon, <1>2, TextsKeep DEF TapCameraButton
<1>3. CASE ClosePicker \/ UNCHANGED vars
  BY Zenon, <1>3, TextsKeep DEF ClosePicker, vars
<1> QED
  BY Zenon, <1>1, <1>2, <1>3, ReopenKeeps, EndEditingKeeps, LayoutRowsKeeps, AnswersKeep,
     TextsKeep, ReturnToTabKeeps DEF Next, AllTexts

LEMMA EditorInit == Init => EditorInv /\ ScreenTypes
<1> SUFFICES ASSUME Init PROVE EditorInv /\ ScreenTypes
  OBVIOUS
<1>1. /\ repository = [text |-> [k \in Kinds |-> Empty], answers |-> <<>>,
                       images |-> [k \in Kinds |-> <<>>]]
      /\ nowSceneData = repository /\ textViews = repository.text
      /\ unreported = {} /\ items = <<>> /\ rows = <<>> /\ needsLayout = TRUE
      /\ focus = 0 /\ otherTab = FALSE /\ picker = "none" /\ overwritten = {}
      /\ lateReport = FALSE
  BY Zenon DEF Init
<1>2. repository \in DataForScene
  BY <1>1 DEF DataForScene
<1>3. items \in Seq(AllTexts) /\ rows \in Seq(AllTexts) /\ FocusOnScreen
  BY <1>1 DEF FocusOnScreen
<1>4. nowSceneData.answers = <<>>
  BY <1>1
<1>5. TableAgrees
  BY Zenon, <1>1, <1>4 DEF TableAgrees, Shown
<1>6. TextsAgree
  BY Zenon, <1>1 DEF TextsAgree
<1>7. textViews \in [Kinds -> AllTexts]
  BY Zenon, <1>1, <1>2, SceneFields
<1> QED
  BY Zenon, <1>1, <1>2, <1>3, <1>5, <1>6, <1>7 DEF EditorInv, SceneTypes, ScreenTypes

LEMMA EditorAlways == Spec => [](EditorInv /\ ScreenTypes)
BY EditorInit, EditorInductive, ScreenTypesInductive, PTL DEF Spec

(* The types of the scene's data, of the views and of the focus. *)
THEOREM TypeCorrect == Spec => []TypeOK
<1>1. EditorInv /\ ScreenTypes => TypeOK
  BY Zenon, SplitTypes DEF EditorInv
<1> QED
  BY <1>1, EditorAlways, PTL

(* Once laid out, the table has a row for every answer, and shows them      *)
(* unless a field reported late.                                            *)
THEOREM TableShowsAnswers == Spec => []RowsAgree
<1>1. EditorInv => RowsAgree
  BY Zenon DEF EditorInv, TableAgrees, Shown, RowsAgree
<1> QED
  BY <1>1, EditorAlways, PTL

(* Text views and view model disagree only for a report on its way, or      *)
(* after loadData.                                                          *)
THEOREM TextsReport == Spec => []TextsAgree
<1>1. EditorInv => TextsAgree
  BY Zenon DEF EditorInv
<1> QED
  BY <1>1, EditorAlways, PTL

(* "complete" saves what is on screen, but for the two ways in which the    *)
(* view model no longer has it.                                             *)
THEOREM CompleteSaves == Spec => SavesTheScreen
<1>1. EditorInv =>
        (TapCompleteButton /\ unreported = {} /\ ~needsLayout /\ ~lateReport
           => /\ repository'.answers = rows
              /\ \A k \in Kinds \ overwritten : repository'.text[k] = textViews[k])
  <2> SUFFICES ASSUME EditorInv, TapCompleteButton, unreported = {}, ~needsLayout, ~lateReport
               PROVE  /\ repository'.answers = rows
                      /\ \A k \in Kinds \ overwritten : repository'.text[k] = textViews[k]
    OBVIOUS
  <2>1. repository' = nowSceneData
    BY Zenon DEF TapCompleteButton
  <2>2. rows = nowSceneData.answers
    BY Zenon DEF EditorInv, TableAgrees, Shown
  <2>3. \A k \in Kinds \ overwritten : nowSceneData.text[k] = textViews[k]
    BY Zenon DEF EditorInv, TextsAgree
  <2> QED
    BY Zenon, <2>1, <2>2, <2>3
<1> QED
  BY <1>1, EditorAlways, PTL DEF SavesTheScreen
=============================================================================
