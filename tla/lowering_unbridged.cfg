CONSTANTS
  Bodies <- MCEdgeBodies
  Signatures <- MCSignatures
  Functions <- MCFunctions
  Prelude <- MCPrelude
SPECIFICATION Spec
INVARIANT WellTyped
CHECK_DEADLOCK FALSE
