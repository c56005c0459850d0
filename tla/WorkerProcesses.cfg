SPECIFICATION OneSpec
CONSTANTS
  c1 = c1
  c2 = c2
  c3 = c3
  c4 = c4
  m1 = m1
  m2 = m2
  Unload = Unload
  None = None
  Many = Many
  MaxProcess = 4
  MaxKills = 1
  Model <- Models
  Bria = m2
  Birefnet = m1
  Call <- Calls
  Target <- Targets
  Guided <- GuidedCalls
  t1 = t1
  t2 = t2
  t3 = t3
  t4 = t4
  t5 = t5
  t6 = t6
  Nobody = Nobody
  Check <- Checks
  OnLoop <- LoopChecks
  Kind <- Kinds
  Size <- Sizes
INVARIANTS HealthOwnsUp TileRestored RunsTarget CleanSingle StagesApart NothingSurvives OneChild HealthHonest RightLimit HugeRefused
PROPERTIES MemoryContract ImageOfTarget EveryCallEnds ImplementsSlot GenerationMemory
