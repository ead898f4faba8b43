SPECIFICATION SessionsSpec
CONSTANTS
  s1 = s1
  s2 = s2
  Sids = {s1, s2}
  Files = {1, 2}
  Inputs <- MCInputs
  MaxBusy = 2
  Nothing = Nothing
SYMMETRY MCSymmetry
INVARIANT DownloadIsTheRun
