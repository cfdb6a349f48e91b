CONSTANTS
  a = a  b = b
  Nobody = Nobody
  NoImage = NoImage
  Readers <- Both
  Writers <- Both
  Checkpointers <- Both
  Pages = {1, 2}
  NReader = 2
  SyncModes = {FALSE, TRUE}
  HeaderFresh = TRUE
  MaxTxns = 2
  MaxFrames = 2
  MaxCrashes = 1
SPECIFICATION Spec
SYMMETRY Symmetric
INVARIANTS
    CacheFresh
    Recoverable
PROPERTIES
    ImplementsAbstract
CHECK_DEADLOCK FALSE
