CONSTANTS
  Modules <- MCModules
  PtrBytes = 8
SPECIFICATION Spec
INVARIANT TypeOK
INVARIANT InitRoundTrip
\* The expansion ends with the STATIC_INIT procedure or with the assert.
CHECK_DEADLOCK FALSE
