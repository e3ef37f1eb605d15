--------------------------- MODULE MemoryRegions ---------------------------
(***************************************************************************)
(* The memory-region partitioner of SmackRep (SmackRep.cpp, SmackRep.h)    *)
(* and the phases of SmackModuleGenerator::generateProgram that drive it.  *)
(*                                                                         *)
(* memoryRegions is the vector of (representative value, alloced flag)     *)
(* pairs; regionOfValue is the map from every value ever resolved to the   *)
(* index of its region.  Region i of the model is "$M.(i-1)" in the code   *)
(* (the code counts from 0, sequences count from 1).                       *)
(*                                                                         *)
(* The alias analysis (DSAAliasAnalysis) is an oracle outside the code:    *)
(* one oracle is chosen in Init from the set Oracles and never changes.    *)
(* oracle.alias holds the pairs <<v, w>> for which isNoAlias(v, w) is      *)
(* FALSE, oracle.alloced the values for which isAlloced(v) is TRUE.        *)
(***************************************************************************)
EXTENDS Naturals, Sequences, FiniteSets

CONSTANTS
  Values,       \* memory-referencing LLVM values (pointers)
  ModuleOrder,  \* the instructions of the module, in visiting order
  Allocas,      \* the alloca instructions
  PtrCalls,     \* the call instructions whose result type is a pointer
  Oracles       \* the admissible alias oracles

ASSUME ConstantsAssumption ==
  /\ IsFiniteSet(Values)
  /\ ModuleOrder \in Seq(Values)
  /\ Allocas \subseteq Values
  /\ PtrCalls \subseteq Values
  /\ Oracles \subseteq [alias : SUBSET (Values \X Values), alloced : SUBSET Values]
  \* a value may always alias itself
  /\ \A o \in Oracles, v \in Values : <<v, v>> \in o.alias

VARIABLES
  oracle,          \* the alias analysis consulted by getRegion
  memoryRegions,   \* SmackRep::memoryRegions
  regionOfValue,   \* SmackRep::regionOfValue
  pc,              \* the phase of generateProgram
  cursor,          \* the next instruction collectRegions visits
  prelude          \* the add_ptr_to_region lines of getPrelude, in order

vars == <<oracle, memoryRegions, regionOfValue, pc, cursor, prelude>>

Phases == {"collect", "lower", "prelude", "done"}

Region == [rep : Values, alloced : BOOLEAN]

NoAlias(v, w) == <<v, w>> \notin oracle.alias

(***************************************************************************)
(* The scan of getRegion: the first region whose representative may alias  *)
(* v, or one past the last region when none does.                          *)
(***************************************************************************)
Hits(v) == {r \in 1..Len(memoryRegions) : ~NoAlias(v, memoryRegions[r].rep)}

(* Mutations of the scan: a new region on every call (the match test     *)
(* dropped) and the last matching region instead of the first.            *)
ScanAlwaysNew(v) == Len(memoryRegions) + 1

ScanLastAlias(v) ==
  IF Hits(v) = {} THEN Len(memoryRegions) + 1
  ELSE CHOOSE r \in Hits(v) : \A s \in Hits(v) : s <= r

ScanRegion(v) ==
  IF Hits(v) = {} THEN Len(memoryRegions) + 1
  ELSE CHOOSE r \in Hits(v) : \A s \in Hits(v) : r <= s

(***************************************************************************)
(* SmackRep::getRegion(v): scan, append a new region (v, false) when no    *)
(* representative may alias v, or-in isAlloced(v), record the region of v. *)
(***************************************************************************)
(* Mutation: the push_back of a new region is missing.                    *)
GetRegionNoAppend(v) ==
  LET r == ScanRegion(v)
  IN  /\ memoryRegions' = [memoryRegions EXCEPT ![r].alloced = @ \/ v \in oracle.alloced]
      /\ regionOfValue' = [x \in DOMAIN regionOfValue \cup {v} |->
                              IF x = v THEN r ELSE regionOfValue[x]]

GetRegion(v) ==
  LET r     == ScanRegion(v)
      grown == IF r = Len(memoryRegions) + 1
                 THEN Append(memoryRegions, [rep |-> v, alloced |-> FALSE])
                 ELSE memoryRegions
  IN  /\ memoryRegions' = [grown EXCEPT ![r].alloced = @ \/ v \in oracle.alloced]
      /\ regionOfValue' = [x \in DOMAIN regionOfValue \cup {v} |->
                              IF x = v THEN r ELSE regionOfValue[x]]

(* The instructions RegionCollector resolves: allocas and pointer calls.   *)
Collected(i) == i \in Allocas \/ i \in PtrCalls

Init ==
  /\ oracle \in Oracles
  /\ memoryRegions = <<>>
  /\ regionOfValue = [x \in {} |-> 0]
  /\ pc = "collect"
  /\ cursor = 1
  /\ prelude = <<>>

(* collectRegions visits an alloca or a pointer-typed call.                *)
CollectVisit ==
  /\ pc = "collect"
  /\ cursor <= Len(ModuleOrder)
  /\ Collected(ModuleOrder[cursor])
  /\ GetRegion(ModuleOrder[cursor])
  /\ cursor' = cursor + 1
  /\ UNCHANGED <<oracle, pc, prelude>>

(* collectRegions visits any other instruction: the visitor ignores it.   *)
CollectSkip ==
  /\ pc = "collect"
  /\ cursor <= Len(ModuleOrder)
  /\ ~Collected(ModuleOrder[cursor])
  /\ cursor' = cursor + 1
  /\ UNCHANGED <<oracle, memoryRegions, regionOfValue, pc, prelude>>

(* collectRegions returns; globals and functions are lowered next.         *)
EndCollect ==
  /\ pc = "collect"
  /\ cursor = Len(ModuleOrder) + 1
  /\ pc' = "lower"
  /\ UNCHANGED <<oracle, memoryRegions, regionOfValue, cursor, prelude>>

(***************************************************************************)
(* A lowering step that resolves the region of a value: mem(v) for a load  *)
(* or a store, the operands of memcpy and memset, globalDecl of an         *)
(* initialized global, isExternal(v) of a pointer.  isExternal reads the   *)
(* alloced flag of the region, which it leaves as getRegion set it.        *)
(***************************************************************************)
LowerAccess(v) ==
  /\ pc = "lower"
  /\ GetRegion(v)
  /\ UNCHANGED <<oracle, pc, cursor, prelude>>

(* generateProgram adds getModifies() to every procedure with a body.      *)
AddModifies ==
  /\ pc = "lower"
  /\ pc' = "prelude"
  /\ UNCHANGED <<oracle, memoryRegions, regionOfValue, cursor, prelude>>

(***************************************************************************)
(* getPrelude iterates regionOfValue, a std::map keyed by Value pointers:  *)
(* the lines come in the order of the values' heap addresses, which the    *)
(* code does not choose.  Any ordering of the resolved values may occur.   *)
(***************************************************************************)
AddressOrders(S) == {f \in [1..Cardinality(S) -> S] : \A x \in S : \E i \in DOMAIN f : f[i] = x}

PreludeLines(order) == [i \in DOMAIN order |-> <<regionOfValue[order[i]], order[i]>>]

GetPrelude ==
  /\ pc = "prelude"
  /\ \E order \in AddressOrders(DOMAIN regionOfValue) : prelude' = PreludeLines(order)
  /\ pc' = "done"
  /\ UNCHANGED <<oracle, memoryRegions, regionOfValue, cursor>>

Next ==
  \/ CollectVisit
  \/ CollectSkip
  \/ EndCollect
  \/ \E v \in Values : LowerAccess(v)
  \/ AddModifies
  \/ GetPrelude

Spec == Init /\ [][Next]_vars

-----------------------------------------------------------------------------
(* The type invariant.  A region index is always one that getPrelude       *)
(* declares, i.e. at most the number of regions.                           *)
TypeOK ==
  /\ oracle \in [alias : SUBSET (Values \X Values), alloced : SUBSET Values]
  /\ \A v \in Values : <<v, v>> \in oracle.alias
  /\ memoryRegions \in Seq(Region)
  /\ DOMAIN regionOfValue \subseteq Values
  /\ regionOfValue \in [DOMAIN regionOfValue -> 1..Len(memoryRegions)]
  /\ pc \in Phases
  /\ cursor \in 1..Len(ModuleOrder) + 1
  /\ prelude \in Seq(Nat \X Values)

(***************************************************************************)
(* Spec section 8, region disjointness: two values that getRegion placed   *)
(* in different regions are reported no-alias by the oracle.  Loads and    *)
(* stores through them then use different $M maps soundly.                 *)
(***************************************************************************)
RegionsDisjoint ==
  \A v, w \in DOMAIN regionOfValue :
    regionOfValue[v] # regionOfValue[w] => NoAlias(v, w) /\ NoAlias(w, v)

(***************************************************************************)
(* The representative of every region is placed in that region, and the    *)
(* representatives of two regions never alias (getRegion only appends a    *)
(* region for a value no earlier representative may alias).                *)
(***************************************************************************)
RepresentativesSeparate ==
  /\ \A r \in 1..Len(memoryRegions) :
        /\ memoryRegions[r].rep \in DOMAIN regionOfValue
        /\ regionOfValue[memoryRegions[r].rep] = r
  /\ \A r, s \in 1..Len(memoryRegions) :
        s < r => NoAlias(memoryRegions[r].rep, memoryRegions[s].rep)

(***************************************************************************)
(* The region of every resolved value is the first region whose            *)
(* representative may alias it, as the scan of getRegion would find it    *)
(* now: no region appended since, and no or-ing of alloced flags, has     *)
(* moved a value's first match.                                            *)
(***************************************************************************)
FirstMatch ==
  \A v \in DOMAIN regionOfValue :
    /\ ~NoAlias(v, memoryRegions[regionOfValue[v]].rep)
    /\ \A s \in 1..regionOfValue[v] - 1 : NoAlias(v, memoryRegions[s].rep)

(***************************************************************************)
(* Action property: once getRegion has placed a value in a region, every   *)
(* later call returns the same region, so the $M map used for an access    *)
(* does not depend on when the access is translated.                       *)
(***************************************************************************)
RegionAssignmentStable ==
  [][\A v \in DOMAIN regionOfValue :
        v \in DOMAIN regionOfValue' /\ regionOfValue'[v] = regionOfValue[v]]_vars

(***************************************************************************)
(* The partitioner implements its abstract specification RegionPartition: *)
(* regionOfValue is the assignment, the number of entries of memoryRegions *)
(* the number of regions.  A getRegion call on a value already resolved    *)
(* must be a stuttering step of the abstract specification.                *)
(***************************************************************************)
Partition == INSTANCE RegionPartition
               WITH alias <- oracle.alias,
                    assign <- regionOfValue,
                    count <- Len(memoryRegions)

ImplementsPartition == Partition!ASpec

=============================================================================
