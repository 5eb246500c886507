CONSTANTS
  None = None
  Failed = Failed
  Missing = Missing
  o1 = o1
  o2 = o2
  Rank <- MCRank
  Configs <- MCConfigs
  Queries <- MCQueries
SPECIFICATION WorkspaceSpec
SYMMETRY Interchangeable
INVARIANTS CensusVouches IneligibleHasNoBase GuardsDecide
PROPERTIES ReadsAgree OwnersStayUnique NothingTakenUnasked HistoryRestores ReclaimedAreGone EndsInAgreement MergeKeepsEdits DeletionsAreReal
CHECK_DEADLOCK FALSE
