SPECIFICATION SnapshotsSpec
INVARIANT RestoresBytesAndModes
CHECK_DEADLOCK FALSE
