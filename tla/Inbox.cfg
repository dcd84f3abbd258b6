SPECIFICATION FairSpec
CONSTANTS
  Deliveries = {d1, d2, d3}
  AcksUnknown = TRUE
  MaxTrouble = 3
INVARIANT NeitherLostNorRepeated
PROPERTY EventIsApplied
