CONSTANTS
  Writers = {w1, w2}
  Readers = {}
  u1 = u1
  u2 = u2
  t1 = t1
  t2 = t2
  Unit = {u1}
  Target = {t1, t2}
  TargetOf <- OneUnit
  Payload = {p1, p2}
  Absent = Absent
  Corrupt = Corrupt
  Unversioned = Unversioned
  Unread = Unread
  NoCall = NoCall
SPECIFICATION FairSpec
PROPERTIES EveryCallEnds ImplementsMap
