SPECIFICATION DirectorySpec
INVARIANT MissingIsAbsent
CHECK_DEADLOCK FALSE
