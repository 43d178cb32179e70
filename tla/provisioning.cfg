SPECIFICATION FairSpec
CONSTANTS
  SegmentCount = 3
  MaxStops = 3
  MaxStores = 2
  Garbage = Garbage
INVARIANTS TypeOK ReadyIsProvisioned
PROPERTIES ForeignHeadersKept ProvisioningResumes
