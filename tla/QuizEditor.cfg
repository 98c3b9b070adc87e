\* Answers, texts and images of both kinds, added, edited, saved, reopened and
\* left for the other tab in every order.
SPECIFICATION Spec
CONSTANTS
  Texts = {"a"}
  Empty = ""
  Images = {"i"}
  MaxItems = 2
INVARIANTS TypeOK RowsAgree TextsAgree
PROPERTIES SavesTheScreen
