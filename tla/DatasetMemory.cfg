SPECIFICATION Spec
CONSTANTS
  u1 = u1
  u2 = u2
  f1 = f1
  f2 = f2
  d1 = d1
  d2 = d2
  a = a
  b = b
  s1 = s1
  s2 = s2
  s3 = s3
  Users = {u1, u2}
  Legacy = Legacy
  Fps = {f1}
  Texts = {a, b}
  Categories = {"exclude", "hints"}
  Names = {}
  Datasets = {d1}
  NoCols = NoCols
  NoEntry = NoEntry
  Torn = Torn
  LegacyRules <- MCLegacyRules
  MaxRules = 2
  Sessions = {s1}
  FpOf <- MCFpOf
  NamesOf <- MCNamesOf
  Score <- MCScore
  NoFp = NoFp
  NoSession = NoSession
  NoQuestion = NoQuestion
SYMMETRY MCSymmetry
INVARIANTS TypeOK DiskShowsTheSame
PROPERTIES ImplementsRuleBook AppliesOnlyStoredRules
