# TLA+ models of the SMACK LLVM-to-Boogie translator

This directory holds TLA+ models of the parts of `src/` (SMACK's translator
from LLVM IR to Boogie) whose behaviour a model checker can reach. For each
part it has a TLC configuration, and TLAPS proofs of the main invariants. The
translator runs on one thread, synchronously. What makes it hard to get right
is not concurrency. It is the order in which its passes run, the state they
share (the region list, the declaration set, the counters) and the arithmetic
of its layout. The models keep exactly that.

## The system and its parts

| Part | Source | Module | Status |
|---|---|---|---|
| Memory region partitioner (`getRegion`, `isExternal`, `collectRegions`, the modifies phase, `getPrelude`) | `SmackRep.cpp` 203-250, 808-852; `SmackRep.h` 131-132, 237-248; `SmackModuleGenerator.cpp` 34-129 | `MemoryRegions`, abstract `RegionPartition` | modelled, proved |
| Dead-function pruning (`PruneFunctionPass::runOnModule`) | `PruneFunctionPass.cpp` 16-78 | `PruneFunctions`, abstract `CriticalPruning` | modelled, proved (safety) |
| Global address layout (`globalDecl`, `$GLOBALS_BOTTOM`) | `SmackRep.cpp` 909-958, 836; `SmackModuleGenerator.cpp` 43-45 | `GlobalLayout`, abstract `GlobalAllocation` | modelled, proved |
| Static-initializer expansion (`addInit`, `getStaticInit`) | `SmackRep.cpp` 862-906, 195-201 | `StaticInit` | modelled |
| Value lowering (`expr`, `lit`, `undef`, `op`, `pred`, `ptrArith`, casts) | `SmackRep.cpp` 166-192, 252-292, 347-507, 520-704 | `Lowering` | partly |
| Call lowering (`call`, `arg`, `proc`, `memcpy`, `memset`, the declaration set) | `SmackRep.cpp` 301-326, 712-778, 968-1029; `BoogieAst.h` 416-426; `SmackModuleGenerator.cpp` 51-59 | `Lowering` | partly |

`PROJECT.json` lists every component, including those not modelled and why.

### How the parts interact

`SmackModuleGenerator::generateProgram` drives the translation:

1. `collectRegions` resolves the region of every alloca and every
   pointer-typed call of the module, in module order.
2. It lowers the globals and then the functions. Each load, store, memcpy,
   memset, initialized global and `isExternal` query calls `getRegion`, which
   may still create regions.
   Each global gets its address from `globalsBottom`, and its
   initializer is expanded into the buffered static-init statements.
   Each function with a body gets its procedure. The calls in its body
   add synthesized declarations to the same declaration set.
3. It adds `getModifies()` (one `$M.i` per region) to every procedure with a
   body.
4. It renders the prelude, which declares the regions and emits one
   `$add_ptr_to_region` line per resolved value.

`PruneFunctionPass` is an LLVM module pass that would run before translation.
The driver has it commented out.

## MemoryRegions

State: `memoryRegions` is the vector of (representative, alloced) pairs, and
`regionOfValue` is the std::map from values to region indices. Region `i` of
the model is `$M.(i-1)` of the code. The alias analysis (DSA) is outside the
code, so it is a fixed oracle chosen in `Init` from `Oracles`:

- `alias` holds the pairs for which `isNoAlias` is false;
- `alloced` holds the values for which `isAlloced` is true.

The assumption `ConstantsAssumption` requires only that every value may alias
itself.

Each action is one whole handler:

- `CollectVisit`, `CollectSkip` and `EndCollect` are the visitor's loop.
- `LowerAccess(v)` is any lowering step that calls `getRegion(v)`. It covers
  `mem`, `memcpy`, `memset`, `globalDecl` and `isExternal`, and includes the
  append and the or-ing of the alloced flag.
- `AddModifies` is the modifies phase.
- `GetPrelude` renders the prelude lines. The code iterates a std::map
  keyed by `const Value*`, so any ordering of the resolved values may come out.

Runs:

| Run | Oracles | Result and meaning |
|---|---|---|
| `regions_nodes` | every field-insensitive points-to oracle over 4 values (a node per value, 50 initial states) | Passes: the type invariant, `RegionsDisjoint`, and the refinement `ImplementsPartition` of `RegionPartition`. |
| `regions_fields` | every field-sensitive oracle, whose may-alias relation need not be transitive (83 initial states) | Passes: `RepresentativesSeparate`, `FirstMatch` (each value's region is the one the scan would find now) and the action property `RegionAssignmentStable`. |
| `regions_nontransitive` | the field-sensitive oracles | Violation of `RegionsDisjoint`. With a may-alias e and e may-alias c but not a-c, a and c become representatives and e joins a's region. e and c may alias and yet use different maps. Spec section 8 says otherwise. |

The instance has four values: an alloca, a malloc call, an unresolved GEP
and a global. This covers:

- a value first resolved during collection and one first resolved during
  lowering;
- a value that starts a region and one that joins a region;
- both alloced flags;
- chains of three values, the smallest size at which non-transitivity shows.

### Proofs (`MemoryRegions_proofs`)

These hold for every finite set of values and every oracle:

- `TypeCorrect`: `Spec => []TypeOK`.
- `Separate`: `Spec => []RepresentativesSeparate`.
- `FirstMatchHolds`: `Spec => []FirstMatch`.
  The inductive invariant is `IInv == TypeOK /\ RepresentativesSeparate /\
  FirstMatch`. `FirstMatch` is needed because a repeated `getRegion(v)` must
  return v's old region (lemma `ScanAssigned`). That holds only because no
  earlier region's representative may alias v, and a region appended since
  has a larger index.
- `AssignmentStable`: `Spec => RegionAssignmentStable`.
- `DisjointForEquivalence`: when every oracle's relation is symmetric and
  transitive, `Spec => []RegionsDisjoint`. Two values in different regions
  match different first representatives, and those representatives do not
  alias (lemma `FirstMatchesApart`).
- `RefinesPartition`: under the same hypothesis, `Spec => ImplementsPartition`.
  Every `getRegion` step maps to a `Place` step, or to a stutter when the value
  was already resolved.

## PruneFunctions

The body of a function is reduced to the sequence of its call instructions:
a callee, or `Indirect` for an indirect call. The call graph is chosen in
`Init` from `Bodies`.

Actions:

- `ScanIndirect`, `ScanSeen`, `ScanKeeper` and `ScanPush` are the four
  branches of the loop body.
- `PopFrame` is the `pop_back`. Because of the `goto done`, the scan of the
  caller restarts at `inst_begin`, so `ip` is reset.
- `Prune` is the deletion loop.

Fairness `WF(Next)` is justified because the pass is one sequential loop.

`CriticalPruning` is the abstract specification: what the pass promises,
with no search. Once, at the end, it deletes the bodies of a set of
functions. It never deletes the body of a critical function. Every function
that keeps its body leads to a critical function through direct calls. It
does not promise to keep every such function, and `prune_complete` shows
that the code does not.

`ImplementsPruning` maps the call graph to the pairs `CallPairs` and
`done` to `pc = "done"`. The search steps map to stuttering steps, and
`Prune` maps to the deletion step.

Runs:

| Run | Result and meaning |
|---|---|
| `prune` | Passes on all 9261 call graphs of main plus two helpers, each making at most two calls to f, g, the critical c or through a pointer (recursion included). `StackIsCallChain`, `KeepersSound` (a keeper is critical or reaches a critical function), `Terminates` and `ImplementsPruning` hold. |
| `prune_complete` | Violation of `PruneComplete`. Because `seen` is tested before `keepers`, a function whose call to a critical function comes after another caller's is pruned. |

### Proofs (`PruneFunctions_proofs`)

These proofs cover every finite set of functions, every `main`, every set of
critical functions and every call graph. They assume only
`PruneAssumption`.

- `TypeCorrect` proves `Spec => []TypeOK`.
- `CallChain` proves `Spec => []StackIsCallChain`.
- `KeepersAreSound` proves `Spec => []KeepersSound`.
- `PruneRefinement` proves `Spec => ImplementsPruning`.

`KeepersSound` is not inductive on its own. When `ScanKeeper` fires,
every function on the stack becomes a keeper. That is sound only because
each function on the stack reaches the top through direct calls. The
strengthening `IInv` therefore adds two conjuncts:

- `ChainReaches`: every stack entry reaches every entry above it.
- `StackIsCallChain`, which `ScanPush` needs to extend `ChainReaches`.

TLC checked `IInv` as an invariant of the `prune` instance before it was
proved. The argument has one lemma per action, and it rests on three facts
about `ReachersOf`, the least caller-closed set:

- `CallerReaches`: a caller of a reacher is a reacher.
- `ReachTrans`: reaching is transitive.
- `SelfReach`: every function of T reaches T.

The refinement proof adds two facts:

- `CriticalKept`: the critical functions stay keepers.
- `LeadingIsReachers`: the abstract `Leading` set is `ReachersOf(Critical)`
  under the mapping, since both are least caller-closed sets of the same
  graph.

With these, `Prune` is `DeleteBodies(Funcs \ keepers)`, and every other step
leaves the body, `pruned` and `pc` alone.

## GlobalLayout

State: `globalsBottom`, the address `place` of each initialized global, the
globals with an address axiom (`axiomatized`) and those with an `$isExternal`
axiom (`external`), and the `$GLOBALS_BOTTOM` axiom. `int` and `unsigned`
are `IntBits` bits wide. `storageSize` narrows the 64-bit store size modulo
`2^IntBits`, and `globalsBottom -= size` wraps. The actions are the three
branches of `globalDecl`: `DeclareNamed`, `DeclareString` (a `.str` global,
with no axiom) and `DeclareExternal`. `EmitBottom` is the axiom line of
`getPrelude`. A `.str` global is only constrained to be unique, so its
address is any value distinct from the others. The model picks it from the
values that matter: the new bottom, or one byte into another global.

`GlobalAllocation` is the abstract specification: what the layout promises
the memory model, with no counter and no wrap-around. Every global with an
address axiom gets a block of its positive size inside `[Low, 0)`. The block
is apart from the blocks placed before it. The `$GLOBALS_BOTTOM` axiom comes
once, after every such global is placed, and is at or below every block.
`ImplementsAllocation` maps these as follows:

- the blocks are the axiomatized addresses `place[i]`, with the sizes
  `Extent` that the globals really have (the set `Named`);
- the bottom is `bottomAxiom`;
- `Low` is `-2^(IntBits-1)`.

A `.str` or external global maps to a stuttering step. `EmitBottom` maps to
the sealing step.

The runs use `IntBits = 12`, so that wrap-around is reached with store sizes
of a few thousand bytes. The default size of 1024 for an unsized type is
kept.

| Run | Result and meaning |
|---|---|
| `globals_layout` | Passes on modules of up to three globals with sizes 1 and 4, sized or not, initialized or not, `.str` or not, whose total fits the int range. Named globals get disjoint ranges (`NamedGlobalsDisjoint`); since every fitting global takes at least one byte, this also gives distinct addresses, between `$GLOBALS_BOTTOM` and 0 (`BelowZeroAboveBottom`). The layout also implements `GlobalAllocation` (`ImplementsAllocation`). |
| `globals_truncated` | Violation of `UniqueAddresses`: a store size of `2^IntBits` narrows to 0, so two unique constants are axiomatized equal and the program is vacuous. |
| `globals_strings` | Violation of `InitializedGlobalsDisjoint`: a `.str` global may be placed inside another global. |

### Proofs (`GlobalLayout_proofs`)

The invariants of `globals_layout`, and `UniqueAddresses` (the property
`globals_truncated` breaks), are proved for every int width `IntBits` and
every set `Modules` of global sequences, under one hypothesis, `FitsAll`.
It says that in every module the initialized globals together reserve at
most `2^(IntBits-1)` bytes, and that each of them has a positive narrowed
size. `globals_truncated` breaks the second part with a global of
`2^IntBits` bytes. No run reaches the first part, the wrap past 2 GiB of
globals. The theorems are about the named globals only. They say nothing
of `.str` globals, which `globals_strings` shows may overlap others even in
modules that satisfy `FitsAll`.

- `TypeCorrect`: `Spec => []TypeOK`.
- `AddressesUnique`: `Spec => []UniqueAddresses`, the property that
  `globals_truncated` shows false without `FitsAll`.
- `GlobalsDisjoint`: `Spec => []NamedGlobalsDisjoint`.
- `BottomBelowGlobals`: `Spec => []BelowZeroAboveBottom`.
- `Refinement`: `Spec => ImplementsAllocation`.

The provers have no axioms for `^`. The two facts they need about it are
stated as `WidthAssumption` in `GlobalLayout`, and TLC evaluates them on every
run. One is that `2^(IntBits-1)` is a positive natural. The other is that
`2^IntBits` is twice that.

The invariants are not inductive as they stand. A new global is disjoint
from the earlier ones only because the counter is still above their bottom,
and the counter has not wrapped only because enough of the budget is left.
`IInv` therefore adds two conjuncts:

- `Budget`: for the suffix sums `r` of the module's reserved sizes,
  `globalsBottom = r[next] - r[1]`. So the counter has gone down by exactly
  the bytes reserved so far, and stays above `-2^(IntBits-1)`.
- `Above`: every axiomatized global lies in `[globalsBottom, 0)`.

`IInv` also includes the type invariant, the three properties, and a fact
about the bottom axiom: it is empty while globals are still being declared,
and it names the counter once emitted. Given the budget, `Signed` is the
identity on the decremented value (`SignedIdentity`), so no step wraps. There
is one lemma per action. TLC checked `IInv` on the `globals_layout` instance,
using a computable copy of the suffix sums: 23058 states, no violation.
`PlaceAt` writes the new global's address as a function over the extended
domain, because the provers cannot expand `@@` and `:>`.

The refinement needs one more invariant, `NamedPlaced`. It says that the
address axioms are exactly those of the initialized, non-`.str` globals
handled so far. With it, `EmitBottom` runs only when every block of the
abstract state has been placed. The refinement proof shows that:

- `Init` maps to `AInit`, because the positive sizes come from `FitsAll`.
- A `DeclareNamed` step is a `Place` of the new global, and the invariant
  of the state after the step shows the block fits. `DeclareNamedPlaces`
  proves this.
- `EmitBottom` is a `Seal` of the final counter (`EmitBottomSeals`).
- A `.str` or external declaration is a stutter (`OtherDeclStutters`).

`GlobalAllocation_proofs` shows that the abstract specification does keep
its promise, for every `Low`. `AllocationApart` proves
`ASpec => []BlocksApart`: no two placed blocks overlap. Its inductive
invariant `AInv` adds that sizes are positive, that blocks are placed
globals inside `[Low, 0)`, and that the bottom axiom is at or below every
block. There is one lemma per abstract action (`PlaceAInv`, `SealAInv`).
Together with `Refinement`, this derives disjointness by a second route, one
that does not depend on the counter.

## StaticInit

State: the buffered `staticInits` as (global, byte offset, scalar type)
triples, and the `STATIC_INIT` body. Types follow LLVM's DataLayout rules:
ABI alignment, allocation size, store size and struct field offsets. The
rules are recursive operators, so this module is checked by TLC only.
`AddGlobalInit` is `addInit` of a whole initializer. `AssertFails` is the
`assert(false)` reached by a floating-point initializer; the model takes the
assert-enabled build. `GetStaticInit` builds the procedure.

`static_init` passes on one or two globals whose types nest arrays and
structs two levels deep over `i8`, a 3-byte `i24` aligned to 4, `i32`,
pointers and doubles. `InitRoundTrip` holds: one assignment per scalar, at
ascending offsets that do not overlap, inside the global's storage size. The
`i24` case matters because `addInit` strides arrays by the store size (3),
not the allocation size (4). The offsets then differ from LLVM's, but the
writes stay disjoint.

## Lowering

A source value is a record: a named value, a constant, `undef`, a binary
operator, a comparison, a cast or a GEP, of type `i1`, `i64`, `ptr` or
`double`. A lowered expression is a record: a variable of a Boogie type,
`$u.n`, a literal, an application of a prelude function, or `==`/`!=`.
`Lower` is `expr` with the two counters threaded through it. `BinOp` is
`op`, `Cmp` is `pred`, `Cast` is the cast functions and `PtrArith` is
`ptrArith`. `TypeOf` types a lowered expression against the prelude
signatures of spec sections 4.2 and 4.4 (`MCSignatures`).

Calls go through `LowerCall`, which models `call`, `arg` and `proc`.
`LowerIntrinsic` models `memcpy` and `memset`. Both insert declarations with
`AddDecl`, which is `std::set` insertion under `DeclCompare`: a second
declaration of the same kind and name is dropped. `DeclareFunction(f)` is
the iteration of the function loop for another function with a body. It
interleaves freely with the lowering of the current body, since the current
function may come anywhere in module order. `DeclareUndefs` is the
undefined-value part of `getPrelude`.

| Run | Result and meaning |
|---|---|
| `lowering` | Passes on bodies of one or two instructions, 209k states. `WellTyped`: every expression and call argument is well typed. `CallsResolve`: every call binds to one declaration of its arity, and a call of a function with a body binds to that body's procedure. |
| `lowering_unbridged` | Violation of `WellTyped` by each of these: `uitofp i1`, `icmp ult` on `i1`, `and` with an `undef i1`, `bitcast i64` to `double`, and a double passed to a variadic function's fixed double parameter. |
| `lowering_varargs` | Violation of `CallsResolve`: a call of a defined variadic function binds to a bodiless `f#n` declaration. |

The pass run's inputs are the forms for which the code inserts the
conversions: Boolean operators, `trunc` to `i1`, `zext`/`sext` from `i1`,
`icmp eq`/`ne` on `i1`, float and pointer conversions, GEPs, and calls of
every kind. The violation runs hold the forms for which it does not.

Deadlock checking is off in every run. Each models one pass of a
translation that ends, and its final state has no successor by design.

## What is not proved

- Liveness (`Terminates`) is only model-checked, because TLAPS does not
  handle ENABLED and fairness here.
- Properties of a recursive definition for every input are only
  model-checked. `StaticInit` and `Lowering` are built on recursive
  operators (the DataLayout rules, `addInit`, `expr`), so they are checked by
  TLC only.
- For `GlobalLayout`, `InitializedGlobalsDisjoint` and the violations are
  only model-checked. The proofs assume `FitsAll`, and `WidthAssumption`
  is only evaluated by TLC for the width of the runs. For `PruneFunctions`,
  `Terminates` is only model-checked, and so is the violation of
  `PruneComplete`.

See `PROJECT.json` for the map from each definition to the lines it
models, the mutants that show each property can fail, and the hazards.
