SPECIFICATION MCSpec
CONSTANTS
  d1 = d1
  d2 = d2
  ann = ann
  ben = ben
  blog = blog
  shop = shop
  NoDep = NoDep
  NoUpload = NoUpload
  Dep = {d1, d2}
  Slug = {blog}
  SlugOf <- PairTogether
  TokenOf <- TwoTokens
  Upload = {u1, u2}
  Reader = {}
  MaxRunning = 1
  MaxAwaiting = 2
  MaxKills = 1
  Overlap = FALSE
  LostAnswers = FALSE
  PreKeep = 1
  MaxVersion = 3
  MaxRestores = 2
  MaxRuns = 1
  MaxStops = 2
  MaxDeploys = 1
  Deploying = {"idle", "waiting", "extracting", "watching", "starting"}
INVARIANTS ArchiveWaits OneActivePerSlug SettledIsLatest
PROPERTIES EveryDeploymentEnds SpoolEmptied SwapsSafely NotLeftStopped
CHECK_DEADLOCK FALSE
