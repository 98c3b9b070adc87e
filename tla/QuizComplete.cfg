\* The comment of tapCompleteButton, against a return from the other tab.
SPECIFICATION Spec
CONSTANTS
  Texts = {"a"}
  Empty = ""
  Images = {}
  MaxItems = 0
PROPERTIES CompleteSavesTheScreen
