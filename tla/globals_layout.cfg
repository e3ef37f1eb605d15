CONSTANTS
  IntBits <- MCIntBits
  Default <- MCDefault
  Modules <- FittingModules
SPECIFICATION Spec
\* globalDecl runs once per global; nothing follows the $GLOBALS_BOTTOM axiom.
CHECK_DEADLOCK FALSE
INVARIANT TypeOK
INVARIANT NamedGlobalsDisjoint
INVARIANT BelowZeroAboveBottom
PROPERTY ImplementsAllocation
