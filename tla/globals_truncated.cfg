CONSTANTS
  IntBits <- MCIntBits
  Default <- MCDefault
  Modules <- TruncatedModules
SPECIFICATION Spec
\* globalDecl runs once per global; nothing follows the $GLOBALS_BOTTOM axiom.
CHECK_DEADLOCK FALSE
INVARIANT UniqueAddresses
