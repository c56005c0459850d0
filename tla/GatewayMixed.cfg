SPECIFICATION Spec
CONSTANTS
  r1 = r1
  r2 = r2
  r3 = r3
  r4 = r4
  EventLoop = EventLoop
  Nobody = Nobody
  Request <- MixedRequest
  Route <- MixedRoute
  PoolSize = 1
  MaxFlips = 1
INVARIANTS LaneOwnerRuns StatusHonest RetrySafe
PROPERTIES ImplementsLane
