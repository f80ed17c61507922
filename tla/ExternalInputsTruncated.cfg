CONSTANTS
  Order <- MCOrder
  Json <- MCJson
  Refresher = Refresher
  Consumers = {}
  Down = {}
  Truncated = {"gentoo-sources"}
  MaxVersion = 2
  MaxRevision = 2
  MaxFaults = 0
  NoBundle = NoBundle
SPECIFICATION FairSpec
PROPERTIES ReachableCatchUp
