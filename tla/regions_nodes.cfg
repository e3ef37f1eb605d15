CONSTANTS
  Values <- MCValues
  ModuleOrder <- MCModuleOrder
  Allocas <- MCAllocas
  PtrCalls <- MCPtrCalls
  Oracles <- NodeOracles

SPECIFICATION Spec

\* The translation ends once the prelude is rendered.
CHECK_DEADLOCK FALSE

INVARIANT TypeOK
INVARIANT RegionsDisjoint
PROPERTY ImplementsPartition
