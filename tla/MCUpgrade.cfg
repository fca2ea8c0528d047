SPECIFICATION OneSpec
CONSTANTS
  old = old
  new = new
  Images <- MCImages
  ImageSize <- MCImageSize
  MaxPages = 3
  RowPages = 2
  Factory = old
  UseModbus = TRUE
  UseConsole = FALSE
  SpiFaults = TRUE
  MaxResets = 2
  MaxReadFaults = 1
INVARIANTS
  HeaderTellsTheTruth
  FirmwareNeverLost
  HangIsRetryable
PROPERTIES
  ActivatedImageRuns
CHECK_DEADLOCK FALSE
