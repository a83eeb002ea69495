SPECIFICATION Spec
CONSTANTS
  Items = {http, dns, ssh}
  Sources = {s1, s2}
  None = None
  Window = 2
  MaxBaskets = 2
  Every = 1
  SupportNum = 1
  SupportDen = 2
  MaxNow = 2
  MaxBatches = 3
  MaxCrashes = 1
  Batches <- MCBatches
  Hashes <- MCHashes
SYMMETRY MCSymmetry
INVARIANTS RowsNeverOver AlgorithmsAgree
PROPERTIES PublishedExact RowsImmutable
CHECK_DEADLOCK FALSE
