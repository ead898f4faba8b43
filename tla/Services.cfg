SPECIFICATION ServicesSpec
CONSTANTS
  u1 = u1
  u2 = u2
  u3 = u3
  q1 = q1
  q2 = q2
  Users = {u1, u2}
  Forced = {u1}
  Passwords = {"p", "q"}
  MaxSalts = 3
  Requests = {q1}
  NoAccount = NoAccount
  NoHash = NoHash
  NoCaller = NoCaller
  k1 = k1
  k2 = k2
  Keys = {k1, k2}
  Garbage = Garbage
  NoKey = NoKey
  None = None
  GraceDays = 2
  MaxDay = 4
  s1 = s1
  s2 = s2
  Sids = {s1, s2}
  Files = {1, 2}
  Inputs <- MCInputs
  MaxBusy = 2
  Nothing = Nothing
  FallbackOrder <- MCFallbackOrder
  DpaProviders = {"bedrock", "openai"}
  ToolProviders = {"groq", "openai"}
  Nobody = Nobody
  Silence = Silence
  HistoryTurns = 4
  HelpTurns = 2
  MaxRounds = 3
  MaxCalls = 2
SYMMETRY MCSymmetry
INVARIANTS SessionsTypeOK OneReport RowsLeadToSessions TypeOK SpentLinksAreDead LicenseTypeOK LicenseInTime RestartReadsActivated SentAsAllowed
PROPERTIES LastAdminStays
