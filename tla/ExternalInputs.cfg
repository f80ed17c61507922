CONSTANTS
  Order <- MCOrder
  Json <- MCJson
  Refresher = Refresher
  Consumers = {build}
  Down = {"ubuntu-config"}
  Truncated = {}
  MaxVersion = 2
  MaxRevision = 2
  MaxFaults = 2
  NoBundle = NoBundle
SPECIFICATION FairSpec
INVARIANTS TypeOK RestoredValid RestoreServes RetentionHonest
PROPERTIES KnownGoodKept ReachableCatchUp
