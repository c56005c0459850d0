SPECIFICATION Spec
CONSTANTS
  j1 = j1
  j2 = j2
  j3 = j3
  j4 = j4
  m1 = m1
  m2 = m2
  None = None
  Model <- Models
  Job <- PairJob
  Route <- PairRoute
  Wanted <- PairWanted
  MaxDeaths = 0
  MaxGiveUps = 0
  MaxRestarts = 1
INVARIANT SingleResident
