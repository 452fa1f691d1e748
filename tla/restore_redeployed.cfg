SPECIFICATION RestoreSpec
CONSTANTS
  PreKeep = 1
  MaxVersion = 3
  MaxRestores = 1
  MaxRuns = 0
  MaxStops = 0
  MaxDeploys = 1
  Deploying = {"idle", "stopped"}
INVARIANT ReplacedIsSaved
CHECK_DEADLOCK FALSE
