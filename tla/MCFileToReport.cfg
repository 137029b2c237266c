SPECIFICATION FileToReportSpec
CONSTANTS
  Files <- MCFiles
  TARGET_TOTAL_FRAMES = 3
  CaptureStep = 2
  MAX_FRAMES_BUDGET = 3
  MaxDimension = 16
  MaxFileSizeKb = 30
  LowestQuality = 1
  TargetQuality = 5
  DOCUMENT_MAX_PAGES = 3
  ANIMATION_TARGET_TOTAL_FRAMES = 3
  SCENE_SENSITIVITY = 1
  MaxMishaps = 2
  Reported <- MCReported
  MAX_JPEGS_PER_INFERENCE = 2
  EXCEL_MAX_ROWS = 2
  EXPORT_WRITE_ATTEMPTS = 2
  MaxExports = 1
INVARIANTS
  RowsTellTheConversion
  ScenesAreKept
  SelectionIsTheRequest
  PicturesAsIntended
  ReportsAreWhole
  ExportAccounts
  OmissionsTold
  NotesTellTheTruth
PROPERTIES
  NothingOverwritten
CHECK_DEADLOCK FALSE
