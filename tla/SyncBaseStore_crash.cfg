CONSTANTS
  Writers = {w1}
  Readers = {r1}
  u1 = u1
  u2 = u2
  t1 = t1
  t2 = t2
  Unit = {u1, u2}
  Target = {t1, t2}
  TargetOf <- OneTarget
  Payload = {p1}
  Absent = Absent
  Corrupt = Corrupt
  Unversioned = Unversioned
  Unread = Unread
  NoCall = NoCall
SPECIFICATION Spec
INVARIANTS CoherentRead UnversionedNeverAdopted ConfirmedSaveSurvives NeverLockedOut
PROPERTY CorruptNeverReplaced
