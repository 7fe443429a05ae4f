SPECIFICATION Spec
CONSTANTS
  MaxMeasure = 6
  BucketLimit = 2
  Fanout = 2
  MaxDepth = 1
  Hash <- MCHash
  Key = {1, 2, 3, 4, 5}
  Locations <- MCLocations
  WeightOf <- MCWeightOf
  Fact <- MCFact
  MaxCommits = 2
  MaxFaults = 1
  MaxEdits = 1
INVARIANTS IndexExact CheckpointReadable
