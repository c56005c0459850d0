SPECIFICATION TimerSpec
CONSTANTS
  j1 = j1
  j2 = j2
  j3 = j3
  j4 = j4
  m1 = m1
  m2 = m2
  None = None
  Model <- Models
  Job <- TrioJob
  Route <- TrioRoute
  Wanted <- TrioWanted
  MaxDeaths = 0
  MaxGiveUps = 2
  MaxRestarts = 0
PROPERTY EveryJobAnswered
