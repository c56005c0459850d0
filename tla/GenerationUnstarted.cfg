SPECIFICATION Spec
CONSTANTS
  c1 = c1
  c2 = c2
  c3 = c3
  c4 = c4
  m1 = m1
  m2 = m2
  Unload = Unload
  None = None
  Many = Many
  Model <- Models
  Call <- Calls
  Target <- Targets
  MaxProcess = 2
  MaxKills = 0
PROPERTY UnloadFailsOnlyIfAlive
