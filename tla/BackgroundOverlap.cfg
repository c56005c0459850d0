SPECIFICATION Spec
CONSTANTS
  c1 = c1
  c2 = c2
  c3 = c3
  c4 = c4
  m1 = m1
  m2 = m2
  Unload = Unload
  None = None
  Model <- Models
  Bria = m2
  Birefnet = m1
  Call <- Calls
  Target <- Targets
  Guided <- GuidedCalls
INVARIANT SingleMatting
