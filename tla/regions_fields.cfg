CONSTANTS
  Values <- MCValues
  ModuleOrder <- MCModuleOrder
  Allocas <- MCAllocas
  PtrCalls <- MCPtrCalls
  Oracles <- FieldOracles


SPECIFICATION Spec

\* The translation ends once the prelude is rendered.
CHECK_DEADLOCK FALSE

INVARIANT RepresentativesSeparate
INVARIANT FirstMatch
PROPERTY RegionAssignmentStable
