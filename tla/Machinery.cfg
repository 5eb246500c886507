SPECIFICATION FairSpec
CONSTANTS
  c1 = c1
  c2 = c2
  reading = reading
  writing = writing
  changing = changing
  leasing = leasing
  w = w
  a = a
  b = b
  d = d
  s = s
  t = t
  Preimage = Preimage
  None = None
  Doc <- AllDocs
  Wish <- AllRequests
  JsonText <- JsonNames
  YamlText <- YamlNames
  Value <- AllValues
  Reading <- AllReadings
  Failed = Failed
INVARIANT NeededTempsStay
PROPERTIES FailureEndsThePool EveryCallComesBack PromptsAreOrderly PullIsQuiet EditSticks PushSparesTheRest
CHECK_DEADLOCK FALSE
