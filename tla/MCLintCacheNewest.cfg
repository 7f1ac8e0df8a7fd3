SPECIFICATION Spec
CONSTANTS
  r1 = r1
  r2 = r2
  r3 = r3
  h1 = h1
  h2 = h2
  a = a
  b = b
  c = c
  Runs <- MCRuns
  Hashes <- MCHashes
  HashOf <- MCHashOf
  Keys <- MCKeys
  MaxFileCount = 2
  MaxRulesetCount = 2
  Miss = Miss
  Bad = Bad
  NoBucket = NoBucket
  BadBucket = BadBucket
  MaxTime = 0
  MaxDamages = 0
  MaxMisreads = 0
PROPERTIES
  NewestAreKept
CHECK_DEADLOCK FALSE
