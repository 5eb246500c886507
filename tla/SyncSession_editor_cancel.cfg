CONSTANTS
  a = a
  b = b
  s = s
  t = t
  q = q
  w = w
  Row = {a, b}
  Source = {s}
  Refs <- Shared
  Candidate = {w}
  Preimage = Preimage
  Policy <- Pushed
  Ancestry = {}
  Linked = {}
  Patched = {}
  Idempotent = {}
  Text = {t}
  Conflicted = {t}
  Quoting = {}
  Operation = "sync"
  Excludable = {}
  Editable = {a}
  Failing = {}
  Cancels = {"editor"}
  Nothing = Nothing
SPECIFICATION Spec
INVARIANT EditorCancelIsLocal
CHECK_DEADLOCK FALSE
