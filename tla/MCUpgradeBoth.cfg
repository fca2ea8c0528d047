SPECIFICATION Spec
CONSTANTS
  old = old
  new = new
  Images <- MCImages
  ImageSize <- MCImageSize
  MaxPages = 4
  RowPages = 2
  Factory = old
  UseModbus = TRUE
  UseConsole = TRUE
  SpiFaults = FALSE
  MaxResets = 0
  MaxReadFaults = 0
INVARIANTS
  HeaderNamesCompleteImage
