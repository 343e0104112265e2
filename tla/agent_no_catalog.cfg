CONSTANTS
  N = 2 MaxBackoff = 2 LongFrom = 2 MaxFaults = 1
  FaultKinds = {"register"}
  MayStop = FALSE Prompt = TRUE
SPECIFICATION FairSpec
PROPERTY CatalogArrives
