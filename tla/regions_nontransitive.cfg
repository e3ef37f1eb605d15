CONSTANTS
  Values <- MCValues
  ModuleOrder <- MCModuleOrder
  Allocas <- MCAllocas
  PtrCalls <- MCPtrCalls
  Oracles <- FieldOracles


SPECIFICATION Spec

CHECK_DEADLOCK FALSE

INVARIANT RegionsDisjoint
