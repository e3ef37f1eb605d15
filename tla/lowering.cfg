CONSTANTS
  Bodies <- MCBodies
  Signatures <- MCSignatures
  Functions <- MCFunctions
  Prelude <- MCPrelude
SPECIFICATION Spec
INVARIANT WellTyped
INVARIANT CallsResolve
CHECK_DEADLOCK FALSE
