CONSTANTS
  r1 = r1
  r2 = r2
  p1 = p1
  p2 = p2
  t1 = t1
  t2 = t2
  t3 = t3
  a = a
  ab = ab
  root = root
  f = f
  g = g
  x1 = x1
  x2 = x2
  Repo = {r1, r2}
  Package = {p1, p2}
  Target = {t1, t2, t3}
  Unit = {a, ab, root, f, g}
  Addition = {x1, x2}
  Parent <- TheParent
  Position <- ThePosition
  Nested <- TheNested
  DirectoryRoot = {root}
  HookScope <- TheHooks
  NoopHook <- TheNoopHooks
  Unselected = Unselected
  Plan <- ThePlan
SPECIFICATION FairSpec
INVARIANTS BaseFollowsEffects LiveFollowsSources HooksBracket DeletionsMakeRoom SnapshotHoldsOriginals ReportIsTrue CommitsWholeRuns
PROPERTY EveryRunEnds
CHECK_DEADLOCK FALSE
