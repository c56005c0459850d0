SPECIFICATION Spec
CONSTANTS
  c1 = c1
  c2 = c2
  c3 = c3
  c4 = c4
  x4plus = x4plus
  anime = anime
  Unload = Unload
  None = None
  Model <- Models
  Call <- Calls
  Target <- Targets
INVARIANT UnloadsBeforeLoading
