CONSTANTS
  Bodies <- MCVarargBodies
  Signatures <- MCSignatures
  Functions <- MCFunctions
  Prelude <- MCPrelude
SPECIFICATION Spec
INVARIANT CallsResolve
CHECK_DEADLOCK FALSE
