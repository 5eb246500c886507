CONSTANTS
  a = a
  b = b
  s = s
  t = t
  q = q
  w = w
  Row = {a, b}
  Source = {s}
  Refs <- Shared
  Candidate = {w}
  Preimage = Preimage
  Policy <- Pushed
  Ancestry = {a}
  Linked = {a}
  Patched = {a}
  Idempotent = {}
  Text = {t}
  Conflicted = {}
  Quoting = {}
  Operation = "sync"
  Excludable = {}
  Editable = {b}
  Failing = {}
  Cancels = {}
  Nothing = Nothing
SPECIFICATION SessionDeckSpec
INVARIANT FreshProposals
PROPERTIES ApprovalStands DeckRunsWhatItShows
CHECK_DEADLOCK FALSE
