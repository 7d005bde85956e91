CONSTANTS
  N = 3
  W = 6
  InitTimeout = 3
  MaxRtt = 2
SPECIFICATION FairSpec
INVARIANTS TypeOK RttBounded SampleFresh
PROPERTIES BackOff Fires
