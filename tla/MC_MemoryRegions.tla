-------------------------- MODULE MC_MemoryRegions --------------------------
(***************************************************************************)
(* A small module for TLC: a stack slot "a" (alloca), a heap pointer "c"   *)
(* (a call to malloc), a pointer "e" computed by an instruction that       *)
(* collectRegions does not resolve (a getelementptr), and a global "g".    *)
(***************************************************************************)
EXTENDS MemoryRegions

MCValues == {"a", "c", "e", "g"}

MCModuleOrder == <<"a", "e", "c">>

MCAllocas == {"a"}

MCPtrCalls == {"c"}

Diagonal == {<<v, v>> : v \in MCValues}

Nodes == [MCValues -> 1..4]

(* The values a node created by one of the creators holds are alloced.    *)
AllocedOf(node, creators) == {v \in MCValues : \E x \in creators : node[v] = node[x]}

(***************************************************************************)
(* Oracles of a field-insensitive points-to analysis: two pointers may     *)
(* alias exactly when they point to the same node, and a node is alloced   *)
(* when an alloca or an allocation call created it.                        *)
(***************************************************************************)
NodeOracles ==
  {[alias   |-> {p \in MCValues \X MCValues : node[p[1]] = node[p[2]]},
    alloced |-> AllocedOf(node, creators)] :
     node \in Nodes, creators \in SUBSET (MCAllocas \cup MCPtrCalls)}

(***************************************************************************)
(* Oracles of a field-sensitive analysis such as DSA: pointers into two    *)
(* nodes never alias, pointers into one node alias when the fields they    *)
(* address overlap, which need not be a transitive relation.               *)
(***************************************************************************)
FieldOracles ==
  UNION {{[alias   |-> Diagonal \cup {p \in MCValues \X MCValues : {p[1], p[2]} \in K},
           alloced |-> AllocedOf(node, MCAllocas \cup MCPtrCalls)] :
            K \in SUBSET {{x, y} : x, y \in {v \in MCValues : node[v] = n}}} :
           node \in Nodes, n \in 1..4}

=============================================================================
