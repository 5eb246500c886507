CONSTANTS
  None = None
  Failed = Failed
  Rank <- MCRank
  Configs <- MCConfigs
  Queries <- MCQueries
SPECIFICATION Spec
INVARIANT DependenciesFirst
