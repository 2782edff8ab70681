SPECIFICATION Spec
CONSTANTS
  None = None
  Line <- Lines
  Blank = ""
  Clean <- Spelling
  Canonical <- Url
  MaxLine = 6
  Tag = {"div", "p", "script", "img"}
  Skip = {"script"}
  Void = {"img"}
  MaxEvent = 7
  Word <- Words
  Draft = {"a", "b", "c", "d"}
  Intents <- Headers
  Wanted = "k"
  Nothing = None
  PageSize = 2
  MaxDraftPages = 2
  MaxWord = 6
INVARIANTS
  ItemsAreIndependent
  VisibleIsUnconcealed
  OneDenialOneMode
  DeniedIsNotOffered
  ReceiptIsUndisputed
CHECK_DEADLOCK FALSE
