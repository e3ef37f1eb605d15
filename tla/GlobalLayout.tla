---------------------------- MODULE GlobalLayout ----------------------------
(***************************************************************************)
(* The address layout of globals by SmackRep::globalDecl (SmackRep.cpp)    *)
(* over the global loop of SmackModuleGenerator::generateProgram, and the  *)
(* $GLOBALS_BOTTOM axiom getPrelude emits afterwards.                      *)
(*                                                                         *)
(* globalsBottom is a C++ int and storageSize returns unsigned, of IntBits *)
(* bits each; getTypeStoreSize is a uint64 that storageSize narrows.       *)
(* `globalsBottom -= size` converts globalsBottom to unsigned, subtracts   *)
(* modulo 2^IntBits and converts back to int.                              *)
(*                                                                         *)
(* A global is a record: whether it has an initializer, whether its name   *)
(* matches ^\.str[0-9]*$, whether its element type is sized, and the store *)
(* size of that type.  In the Boogie output every global is a unique      *)
(* constant; the value of place[i] is the address the verifier assigns to *)
(* global i, fixed by the axiom for named globals and free for a .str.     *)
(***************************************************************************)
EXTENDS Integers, Sequences, FiniteSets, TLC

CONSTANTS
  IntBits,   \* the width of int and unsigned
  Modules,   \* the admissible sequences of globals, in module order
  Default    \* the size used for an unsized element type (1024)

ASSUME LayoutAssumption ==
  /\ IntBits \in Nat \ {0}
  /\ Default \in Nat
  /\ Modules \subseteq Seq([init : BOOLEAN, str : BOOLEAN, sized : BOOLEAN, store : Nat])

(* The two facts about the int range that the proofs use; the provers    *)
(* have no axioms for ^, so they are stated here and evaluated by TLC.    *)
ASSUME WidthAssumption ==
  /\ 2 ^ (IntBits - 1) \in Nat \ {0}
  /\ 2 ^ IntBits = 2 * 2 ^ (IntBits - 1)

VARIABLES
  globals,        \* the globals of the module
  next,           \* the index of the next global globalDecl handles
  globalsBottom,  \* SmackRep::globalsBottom
  place,          \* the address of every initialized global
  axiomatized,    \* the globals whose address an axiom fixes
  external,       \* the globals given an $isExternal axiom
  bottomAxiom     \* the value of the $GLOBALS_BOTTOM axiom, once emitted

gvars == <<globals, next, globalsBottom, place, axiomatized, external, bottomAxiom>>

Unsigned(x) == x % (2 ^ IntBits)

(* The int whose two's-complement representation is x modulo 2^IntBits.  *)
Signed(x) == IF Unsigned(x) >= 2 ^ (IntBits - 1) THEN Unsigned(x) - 2 ^ IntBits ELSE Unsigned(x)

(* Mutation: the isSized() test inverted.                                  *)
GlobalSizeSwapped(g) == IF g.sized THEN Default ELSE Unsigned(g.store)

(* The size globalDecl subtracts: storageSize narrowed, or the default.    *)
GlobalSize(g) == IF g.sized THEN Unsigned(g.store) ELSE Default

(* The bytes the global really occupies.                                   *)
Extent(g) == IF g.sized THEN g.store ELSE Default

Current == globals[next]

Declaring == next <= Len(globals)

(* Mutation: the axiom takes the value of globalsBottom before the        *)
(* decrement.                                                              *)
BottomBeforeDecrement(b, g) == b

(* The address the axiom of a named global gives it.                      *)
Decremented(b, g) == Signed(b - GlobalSize(g))

(* The address a of the constant declared for the current global.        *)
PlaceAt(a) == [i \in DOMAIN place \cup {next} |-> IF i = next THEN a ELSE place[i]]

Init ==
  /\ globals \in Modules
  /\ next = 1
  /\ globalsBottom = 0
  /\ place = [i \in {} |-> 0]
  /\ axiomatized = {}
  /\ external = {}
  /\ bottomAxiom = {}

(* An initialized global not named .str: decrement, address axiom.         *)
DeclareNamed ==
  /\ Declaring
  /\ Current.init /\ ~Current.str
  /\ globalsBottom' = Signed(globalsBottom - GlobalSize(Current))
  /\ place' = PlaceAt(Decremented(globalsBottom, Current))
  /\ axiomatized' = axiomatized \cup {next}
  /\ next' = next + 1
  /\ UNCHANGED <<globals, external, bottomAxiom>>

(***************************************************************************)
(* An initialized .str global: decrement, no axiom.  Its address is any    *)
(* value distinct from the other constants; the model takes it from a      *)
(* sample of those values (the new bottom, or one past a global's start).  *)
(***************************************************************************)
DeclareString ==
  /\ Declaring
  /\ Current.init /\ Current.str
  /\ globalsBottom' = Signed(globalsBottom - GlobalSize(Current))
  /\ \E a \in ({globalsBottom'} \cup {place[j] + 1 : j \in DOMAIN place})
                \ {place[j] : j \in DOMAIN place} :
        place' = PlaceAt(a)
  /\ next' = next + 1
  /\ UNCHANGED <<globals, axiomatized, external, bottomAxiom>>

(* Mutation: the $isExternal axiom is taken for an address axiom.         *)
DeclareExternalAxiomatized ==
  /\ Declaring
  /\ ~Current.init
  /\ external' = external \cup {next}
  /\ axiomatized' = axiomatized \cup {next}
  /\ next' = next + 1
  /\ UNCHANGED <<globals, globalsBottom, place, bottomAxiom>>

(* A global without initializer: an $isExternal axiom, no address.        *)
DeclareExternal ==
  /\ Declaring
  /\ ~Current.init
  /\ external' = external \cup {next}
  /\ next' = next + 1
  /\ UNCHANGED <<globals, globalsBottom, place, axiomatized, bottomAxiom>>

(* Mutation: the prelude is built before the loop over the globals ends.  *)
EmitBottomEarly ==
  /\ bottomAxiom = {}
  /\ bottomAxiom' = {globalsBottom}
  /\ UNCHANGED <<globals, next, globalsBottom, place, axiomatized, external>>

(* getPrelude emits add_axiom(Eq("$GLOBALS_BOTTOM", globalsBottom)).       *)
EmitBottom ==
  /\ ~Declaring
  /\ bottomAxiom = {}
  /\ bottomAxiom' = {globalsBottom}
  /\ UNCHANGED <<globals, next, globalsBottom, place, axiomatized, external>>

Next == DeclareNamed \/ DeclareString \/ DeclareExternal \/ EmitBottom

Spec == Init /\ [][Next]_gvars

-----------------------------------------------------------------------------
IntRange == -(2 ^ (IntBits - 1)) .. 2 ^ (IntBits - 1) - 1

(* The type invariant.                                                     *)
TypeOK ==
  /\ next \in 1..Len(globals) + 1
  /\ globalsBottom \in IntRange
  /\ DOMAIN place \subseteq 1..next - 1
  /\ place \in [DOMAIN place -> Int]
  /\ axiomatized \subseteq DOMAIN place
  /\ external \subseteq 1..next - 1
  /\ bottomAxiom \subseteq IntRange

(***************************************************************************)
(* The address axioms are consistent with the unique constants: no two     *)
(* named globals are axiomatized to the same address.  Two such axioms     *)
(* make the whole Boogie program vacuous.                                  *)
(***************************************************************************)
UniqueAddresses ==
  \A i, j \in axiomatized : i # j => place[i] # place[j]

(***************************************************************************)
(* Spec section 4.7: the byte ranges [address, address + size) of the      *)
(* named initialized globals, with the size the global really has, never  *)
(* overlap, so the static initializer of one never writes into another.   *)
(***************************************************************************)
NamedGlobalsDisjoint ==
  \A i, j \in axiomatized :
    i # j => place[i] + Extent(globals[i]) <= place[j] \/ place[j] + Extent(globals[j]) <= place[i]

(***************************************************************************)
(* Spec section 4.7 for every initialized global, .str constants included: *)
(* addInit writes the initializer of a .str at its address too, so its    *)
(* range must be disjoint from the others in every model of the axioms.   *)
(***************************************************************************)
InitializedGlobalsDisjoint ==
  \A i, j \in DOMAIN place :
    i # j => place[i] + Extent(globals[i]) <= place[j] \/ place[j] + Extent(globals[j]) <= place[i]

(***************************************************************************)
(* Every named global lies between $GLOBALS_BOTTOM and address 0, the     *)
(* range the memory model keeps apart from the heap and the stack.        *)
(***************************************************************************)
BelowZeroAboveBottom ==
  \A i \in axiomatized :
    /\ place[i] + Extent(globals[i]) <= 0
    /\ \A b \in bottomAxiom : b <= place[i]

(* The globals that get an address axiom: initialized, not named .str.    *)
Named == {i \in 1..Len(globals) : globals[i].init /\ ~globals[i].str}

(***************************************************************************)
(* The layout implements its abstract specification GlobalAllocation: the *)
(* blocks are the axiomatized addresses with the sizes the globals really  *)
(* have, the bottom is the $GLOBALS_BOTTOM axiom.  A .str or external      *)
(* global is a stuttering step, EmitBottom the sealing step.              *)
(***************************************************************************)
Allocation == INSTANCE GlobalAllocation
                WITH Low <- -(2 ^ (IntBits - 1)),
                     size <- [i \in Named |-> Extent(globals[i])],
                     block <- [i \in axiomatized |-> place[i]],
                     bottom <- bottomAxiom

ImplementsAllocation == Allocation!ASpec

=============================================================================
