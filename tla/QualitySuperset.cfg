SPECIFICATION QualitySpec
CONSTANTS
  None = None
  Columns <- MCColumns
  Role <- MCRole
  Objects = {2, 4}
  Numerics = {1, 5}
  Contents <- MCContents
  Empty = "null"
  Blank = " "
  Uneven = {5}
  Dates = {"d1", "d2"}
  TextChecks <- MCChecks
  TextVerdict <- MCVerdict
  MaxIds = 1
  MaxOthers = 1
  ConflictRows = 2
  TooSoon <- MCTooSoon
  CellKinds <- MCCellKinds
  PresentKinds = {"domain_accuracy"}
  BrokenBy <- MCBrokenBy
  Formats <- MCFormats
  Fresh <- MCFresh
  Precise <- MCPrecise
  Tables <- MCTables
  Requests <- MCRequests
  Saved = {{}}
  Patterns = {{}, {5}, {2, 4}}
  IdLike = 95
  High = 60
  EnumLike = 50
  NotRun = NotRun
INVARIANTS AISupersetOfStandard
