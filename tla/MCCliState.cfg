SPECIFICATION Spec
CONSTANTS
  r1 = r1
  r2 = r2
  onboarding = onboarding
  ciPitch = ciPitch
  setupHint = setupHint
  hooks = hooks
  agent = agent
  NoPick = NoPick
  Runs <- MCRuns
  Items <- MCItems
  GlobalItems = {onboarding}
  FireWhenUnknown = {setupHint}
  Version <- MCVersion
  Bumped = {ciPitch}
  Picks = {agent}
  InitialFiles <- MCFiles
SYMMETRY Symmetry
PROPERTIES
  NeverNags
  NewerStateSurvives
  OthersAreKept
