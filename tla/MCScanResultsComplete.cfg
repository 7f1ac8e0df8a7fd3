SPECIFICATION MCSpec
CONSTANTS
  Scans = {one, other}
  Requests <- MCRequests
  Trees <- MCTrees
  Identity <- MCIdentity
  Manifest <- MCManifest
  Commits <- MCCommits
  Symbolic = Symbolic
  NoBase = NoBase
  Unread = Unread
  Off = Off
  Pending = Pending
  NotAsked = NotAsked
  Missing = Missing
  MaxEntries = 1
  MaxEdits = 1
  MaxTroubles = 1
INVARIANT
  StoredIsAlwaysComplete
SYMMETRY MCSymmetry
CHECK_DEADLOCK FALSE
