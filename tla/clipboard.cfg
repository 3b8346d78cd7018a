SPECIFICATION Spec
CONSTANTS
  FormatLists <- Rich
  StoreBuffers = TRUE
  MaxTexts = 2
  MaxCopies = 2
  MaxToggles = 2
  MaxPastes = 1
CHECK_DEADLOCK FALSE
INVARIANTS
  ClipboardInv
  PasteIsCurrent
  LastCopyEmitted
