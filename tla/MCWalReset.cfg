CONSTANTS
  a = a  b = b
  Nobody = Nobody
  NoImage = NoImage
  Readers <- Both
  Writers <- Both
  Checkpointers <- Both
  Pages = {1, 2}
  NReader = 2
  SyncModes = {FALSE}
  HeaderFresh = FALSE
  MaxTxns = 2
  MaxFrames = 2
  MaxCrashes = 0
SPECIFICATION Spec
SYMMETRY Symmetric
INVARIANTS
    BackfillWithinLog
CHECK_DEADLOCK FALSE
