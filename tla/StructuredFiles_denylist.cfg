SPECIFICATION Spec
CONSTANTS
  Doc <- JsonDocs
  Request <- Denylist
  JsonText <- Same
  YamlText <- AllAlike
  Value <- MCValue
  Reading <- MCReading
  Nothing = Nothing
  Failed = Failed
PROPERTIES LiveOnlyKeysSurvive
CHECK_DEADLOCK FALSE
