----------------------------- MODULE StaticInit -----------------------------
(***************************************************************************)
(* Static-initializer expansion: SmackRep::addInit, called by globalDecl   *)
(* for every initialized global in module order, and getStaticInit, which  *)
(* turns the buffered staticInits into the body of the STATIC_INIT         *)
(* procedure (SmackRep.cpp).                                               *)
(*                                                                         *)
(* An initializer is given by its type: every scalar of it is one          *)
(* assignment $M.r[addr] := value; the values do not matter here.  A type  *)
(* is a record: a scalar ("int" of some bytes, "ptr", "float"), an        *)
(* "array" of count elements of one type, or a "struct" of a sequence of   *)
(* field types.  storageSize and fieldOffset are the DataLayout queries,   *)
(* modelled by the layout rules of LLVM's DataLayout.                      *)
(***************************************************************************)
EXTENDS Naturals, Sequences

CONSTANTS
  Modules,   \* the admissible sequences of global initializer types
  PtrBytes   \* the size and alignment of a pointer

VARIABLES
  globals,      \* the initializer type of every initialized global
  next,         \* the next global globalDecl handles
  staticInits,  \* SmackRep::staticInits: <<global, byte offset, scalar type>>
  initProc,     \* the body of the STATIC_INIT procedure, once built
  pc            \* "globals", "done", or "aborted" by the assert of addInit

ivars == <<globals, next, staticInits, initProc, pc>>

RoundUp(n, a) == ((n + a - 1) \div a) * a

Scalar(t) == t.kind \in {"int", "ptr", "float"}

(***************************************************************************)
(* DataLayout: the ABI alignment, the allocation size (getTypeAllocSize)   *)
(* and the store size (getTypeStoreSize) of a type, the offset of a        *)
(* struct field (getElementOffset).  Fields are 1-based here.              *)
(***************************************************************************)
RECURSIVE Align(_), AllocSize(_), FieldOffsetOf(_, _)

Align(t) ==
  CASE t.kind = "int"    -> t.align
    [] t.kind = "ptr"    -> PtrBytes
    [] t.kind = "float"  -> t.align
    [] t.kind = "array"  -> Align(t.elem)
    [] t.kind = "struct" -> LET as == {Align(t.fields[i]) : i \in 1..Len(t.fields)}
                            IN  IF as = {} THEN 1 ELSE CHOOSE a \in as : \A b \in as : b <= a

ScalarBytes(t) == IF t.kind = "ptr" THEN PtrBytes ELSE t.bytes

(* A field starts at the end of the previous one, rounded up to its       *)
(* alignment.                                                              *)
FieldOffsetOf(t, i) ==
  IF i = 1 THEN 0
  ELSE RoundUp(FieldOffsetOf(t, i - 1) + AllocSize(t.fields[i - 1]), Align(t.fields[i]))

AllocSize(t) ==
  CASE Scalar(t)         -> RoundUp(ScalarBytes(t), Align(t))
    [] t.kind = "array"  -> t.count * AllocSize(t.elem)
    [] t.kind = "struct" -> IF t.fields = <<>> THEN 0
                            ELSE RoundUp(FieldOffsetOf(t, Len(t.fields))
                                           + AllocSize(t.fields[Len(t.fields)]), Align(t))

(* SmackRep::storageSize: getTypeStoreSize, the size without tail         *)
(* alignment for a scalar and the allocation size for an aggregate.       *)
StorageSize(t) == IF Scalar(t) THEN ScalarBytes(t) ELSE AllocSize(t)

(* SmackRep::fieldOffset.                                                  *)
FieldOffset(t, i) == FieldOffsetOf(t, i)

(* The assert of addInit: no lowering for a floating-point initializer.   *)
RECURSIVE Unsupported(_)
Unsupported(t) ==
  CASE t.kind = "float"  -> TRUE
    [] t.kind = "array"  -> t.count > 0 /\ Unsupported(t.elem)
    [] t.kind = "struct" -> \E i \in 1..Len(t.fields) : Unsupported(t.fields[i])
    [] OTHER             -> FALSE

(***************************************************************************)
(* SmackRep::addInit(region, addr, val) for a value of type t at byte      *)
(* offset addr from the global: the assignments it pushes, in order.       *)
(* An array element i is at pa(addr, i, storageSize(elem)), a struct       *)
(* field i at pa(addr, fieldOffset(st, i), 1).                             *)
(***************************************************************************)
RECURSIVE AddInitFieldByIndex(_, _), AddInitArray(_, _, _), AddInitStruct(_, _, _)

(* Mutation: the fields of a struct advanced by their index, not their    *)
(* offset.                                                                 *)
AddInitFieldByIndex(addr, t) ==
  CASE Scalar(t)         -> <<<<addr, t>>>>
    [] t.kind = "array"  -> AddInitArray(addr, t, 0)
    [] t.kind = "struct" -> LET F[i \in 0..Len(t.fields)] ==
                                  IF i = 0 THEN <<>>
                                  ELSE F[i - 1] \o AddInitFieldByIndex(addr + (i - 1), t.fields[i])
                            IN  F[Len(t.fields)]

(* Mutation: an aggregate initializer written as one value.               *)
AddInitWhole(addr, t) == <<<<addr, t>>>>

RECURSIVE AddInit(_, _)
AddInit(addr, t) ==
  CASE Scalar(t)         -> <<<<addr, t>>>>
    [] t.kind = "array"  -> AddInitArray(addr, t, 0)
    [] t.kind = "struct" -> AddInitStruct(addr, t, 1)

(* The loop over the elements i, i+1, ... of an array.                    *)
AddInitArray(addr, t, i) ==
  IF i >= t.count THEN <<>>
  ELSE AddInit(addr + i * StorageSize(t.elem), t.elem) \o AddInitArray(addr, t, i + 1)

(* The loop over the fields i, i+1, ... of a struct.                      *)
AddInitStruct(addr, t, i) ==
  IF i > Len(t.fields) THEN <<>>
  ELSE AddInit(addr + FieldOffset(t, i), t.fields[i]) \o AddInitStruct(addr, t, i + 1)

(* The statements of global g, tagged with g.                              *)
Tagged(g, s) == [k \in 1..Len(s) |-> <<g, s[k][1], s[k][2]>>]

Init ==
  /\ globals \in Modules
  /\ next = 1
  /\ staticInits = <<>>
  /\ initProc = <<>>
  /\ pc = "globals"

(* globalDecl of an initialized global: addInit of its whole initializer. *)
AddGlobalInit ==
  /\ pc = "globals"
  /\ next <= Len(globals)
  /\ ~Unsupported(globals[next])
  /\ staticInits' = staticInits \o Tagged(next, AddInit(0, globals[next]))
  /\ next' = next + 1
  /\ UNCHANGED <<globals, initProc, pc>>

(* addInit reaches a floating-point constant: assert (false) aborts the   *)
(* translation.                                                            *)
AssertFails ==
  /\ pc = "globals"
  /\ next <= Len(globals)
  /\ Unsupported(globals[next])
  /\ pc' = "aborted"
  /\ UNCHANGED <<globals, next, staticInits, initProc>>

(* getStaticInit: one block holding every buffered statement, then return. *)
GetStaticInit ==
  /\ pc = "globals"
  /\ next > Len(globals)
  /\ initProc' = staticInits \o <<"return">>
  /\ pc' = "done"
  /\ UNCHANGED <<globals, next, staticInits>>

Next == AddGlobalInit \/ AssertFails \/ GetStaticInit

Spec == Init /\ [][Next]_ivars

-----------------------------------------------------------------------------
(* The scalar leaves of a type, counted.                                   *)
RECURSIVE Leaves(_)
Leaves(t) ==
  CASE Scalar(t)         -> 1
    [] t.kind = "array"  -> t.count * Leaves(t.elem)
    [] t.kind = "struct" -> LET F[i \in 0..Len(t.fields)] ==
                                  IF i = 0 THEN 0 ELSE F[i - 1] + Leaves(t.fields[i])
                            IN  F[Len(t.fields)]

(* The statements staticInits holds for global g.                          *)
Of(g) == SelectSeq(staticInits, LAMBDA s : s[1] = g)

(* The type invariant.                                                     *)
TypeOK ==
  /\ next \in 1..Len(globals) + 1
  /\ \A k \in 1..Len(staticInits) : staticInits[k][1] \in 1..next - 1 /\ Scalar(staticInits[k][3])
  /\ pc \in {"globals", "done", "aborted"}

(***************************************************************************)
(* Spec section 8, the static-init round trip: the initializer of every    *)
(* global handled so far became exactly one assignment per scalar leaf,    *)
(* at ascending offsets, each scalar's bytes ending before the next one    *)
(* starts and the last within the global's storage size.                   *)
(***************************************************************************)
InitRoundTrip ==
  \A g \in 1..next - 1 :
    LET s == Of(g)
    IN  /\ Len(s) = Leaves(globals[g])
        /\ \A k \in 1..Len(s) - 1 : s[k][2] + StorageSize(s[k][3]) <= s[k + 1][2]
        /\ \A k \in 1..Len(s) : s[k][2] + StorageSize(s[k][3]) <= StorageSize(globals[g])

=============================================================================
