CONSTANTS
  a = a
  b = b
  s = s
  t = t
  q = q
  w = w
  Row = {a, b}
  Source = {s}
  Refs <- Shared
  Candidate = {w}
  Preimage = Preimage
  Policy <- OneSided
  Ancestry = {}
  Linked = {}
  Patched = {b}
  Idempotent <- NoopCaptures
  Text = {}
  Conflicted = {}
  Quoting = {}
  Operation = "sync"
  Excludable = {}
  Editable = {a}
  Failing = {a}
  Cancels = {"editor"}
  Nothing = Nothing
SPECIFICATION SharedSpec
INVARIANTS CoherentCaches ApprovedIsReady
PROPERTIES OtherRowsKeepTheirWork EditIsTransaction
CHECK_DEADLOCK FALSE
