CONSTANTS
  Funcs <- MCFuncs
  Main = "m"
  Critical <- MCCritical
  Indirect = Indirect
  Bodies <- MCBodies
SPECIFICATION Spec
INVARIANT TypeOK
INVARIANT StackIsCallChain
INVARIANT KeepersSound
PROPERTY Terminates
\* The pass ends once every body has been pruned or kept.
CHECK_DEADLOCK FALSE
PROPERTY ImplementsPruning
