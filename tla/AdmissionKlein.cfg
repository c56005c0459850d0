SPECIFICATION BoundedSpec
CONSTRAINT Surroundings
CONSTANTS
  Ideogram = Ideogram
  Longcat = Longcat
  Turbo = Turbo
  Klein = Klein
  Dev = Dev
  Nothing = Nothing
  Requests <- Variants
  Staging <- Stagings
  Faulty <- Lies
  MaxSeed = 9
  MaxChanges = 1
INVARIANT KleinFourSteps
