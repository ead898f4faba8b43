SPECIFICATION MCSpec
CONSTANTS
  Others = {1, 2}
  RefRows = {0, 1}
  OtherRows = {0, 1}
  Scores = {0, 1, 2}
  Threshold = 1
  Ranks = {1, 2, 3, 4}
  Levels = {600, 800, 900, 960, 1000}
  SingleLevels = {0, 300, 600, 1000}
  TopCols = 3
  NoAnswer = NoAnswer
  Cols = {"date", "amount"}
  KeyTexts = {"k", "null", ""}
  Cells <- MCCells
  NullTexts = {"null", ""}
  Null = ""
  Value <- MCValue
  MaxRows = 3
  MaxListed = 1
  RowHashCap = 2
  NoReport = NoReport
  MaxSources = 3
  SourceFiles <- MCSourceFiles
  FileNames = {"a", "b", "c"}
  SampleSize = 2
  DateTexts <- MCDates
  ColNames <- MCColNames
  Upper <- MCUpper
  Covers <- MCCovers
  SrcTables <- MCSrcTables
  TgtTables <- MCTgtTables
  Plans <- MCPlans
  Unnamed = Unnamed
  Changes <- MCChanges
  Tolerated <- MCTolerated
  MaxBreaks = 3
  Shown = 2
  None = None
  Columns <- MCColumns
  Role <- MCRole
  Objects = {2, 4}
  Numerics = {1, 5}
  Contents <- MCContents
  Empty = "null"
  Blank = " "
  Uneven = {5}
  Dates = {"d1", "d2"}
  TextChecks <- MCChecks
  TextVerdict <- MCVerdict
  MaxIds = 1
  MaxOthers = 1
  ConflictRows = 2
  TooSoon <- MCTooSoon
  CellKinds <- MCCellKinds
  PresentKinds = {"domain_accuracy"}
  BrokenBy <- MCBrokenBy
  Formats <- MCFormats
  Fresh <- MCFresh
  Precise <- MCPrecise
  Tables <- MCTables
  Requests <- MCRequests
  Saved <- MCSaved
  Patterns = {{}, {5}, {2, 4}}
  IdLike = 95
  High = 60
  EnumLike = 50
  NotRun = NotRun
  RefSources <- MCRefSources
  RefOptions <- MCRefOptions
  RefParams <- MCRefParams
  KeyForm <- MCKeyForm
  TextForm <- MCTextForm
  LabelForm <- MCLabelForm
  LabelLike <- MCLabelLike
  Synonyms <- MCSynonyms
  Amounts = {"amount"}
  Unasked = Unasked
  NoXref = NoXref
  Failed = Failed
INVARIANTS
  AnalysesTypeOK OneToOne NoBetterPairLeft
  KeyJoins BestOfItsWidth FallbackIsLastResort
  CleanMeansEqual SilentRowsAreDuplicates CountsBalance
   EnginesAgree
  OneColumnPerLabel KeysNormalisedAlike TolerancesHideNothing
  AIKeepsTheFloor ExcludedPlayNoPart BetterDataScoresHigher
  DisagreementsAreConflicts
