CONSTANTS
  Funcs <- MCFuncs
  Main = "m"
  Critical <- MCCritical
  Indirect = Indirect
  Bodies <- MCBodies
SPECIFICATION Spec
INVARIANT PruneComplete
\* The pass ends once every body has been pruned or kept.
CHECK_DEADLOCK FALSE
