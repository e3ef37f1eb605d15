------------------------ MODULE GlobalLayout_proofs ------------------------
(***************************************************************************)
(* Proofs about the global layout of SmackRep::globalDecl as modelled in   *)
(* GlobalLayout, for every int width, every default size and every module *)
(* whose globals fit below address 0 in the int range.                    *)
(***************************************************************************)
EXTENDS GlobalLayout, SequenceTheorems, TLAPS

Half == 2 ^ (IntBits - 1)

(* The bytes globalDecl reserves for global g (none without initializer). *)
Occupied(g) == IF g.init THEN Extent(g) ELSE 0

(***************************************************************************)
(* The suffix sums of the reserved bytes of s: r[k] is what globals k, k+1 *)
(* ... reserve together.  Written as the set of functions that satisfy the *)
(* defining recurrence, so that no recursive definition is needed.         *)
(***************************************************************************)
SuffixSums(s) ==
  {r \in [1..Len(s) + 1 -> Nat] :
     /\ r[Len(s) + 1] = 0
     /\ \A k \in 1..Len(s) : r[k] = r[k + 1] + Occupied(s[k])}

(***************************************************************************)
(* A module fits when its initialized globals together reserve at most    *)
(* 2^(IntBits-1) bytes, the magnitude of the least int, and each reserves *)
(* at least one byte (a zero-sized global would share its address).       *)
(***************************************************************************)
Fits(s) ==
  /\ \E r \in SuffixSums(s) : r[1] <= Half
  /\ \A k \in 1..Len(s) : s[k].init => Extent(s[k]) > 0

FitsAll == \A s \in Modules : Fits(s)

(***************************************************************************)
(* The inductive invariant.  The layout properties are not inductive on   *)
(* their own: each step places the new named global just below the       *)
(* current bottom, so every earlier one must lie at or above the bottom,  *)
(* and the decrement stays exact (no wrap of globalsBottom) only because  *)
(* the bottom is what the globals declared so far reserved, which the     *)
(* fitting bound keeps within the int range.                               *)
(***************************************************************************)
Above ==
  \A i \in axiomatized :
    /\ globals[i].init
    /\ globalsBottom <= place[i]
    /\ place[i] + Extent(globals[i]) <= 0

Budget == \A r \in SuffixSums(globals) : globalsBottom = r[next] - r[1]

IInv ==
  /\ TypeOK
  /\ globals \in Modules
  /\ globalsBottom <= 0
  /\ Budget
  /\ Above
  /\ UniqueAddresses
  /\ NamedGlobalsDisjoint
  /\ bottomAxiom \subseteq {globalsBottom}
  /\ Declaring => bottomAxiom = {}

-----------------------------------------------------------------------------
(* The globals of an admissible module are records of the four fields.    *)
LEMMA GlobalFields ==
  ASSUME NEW s \in Modules, NEW k \in 1..Len(s)
  PROVE  /\ s[k].init \in BOOLEAN /\ s[k].str \in BOOLEAN /\ s[k].sized \in BOOLEAN
         /\ s[k].store \in Nat
         /\ Extent(s[k]) \in Nat
<1>1. s \in Seq([init : BOOLEAN, str : BOOLEAN, sized : BOOLEAN, store : Nat])
  BY LayoutAssumption
<1>2. s[k] \in [init : BOOLEAN, str : BOOLEAN, sized : BOOLEAN, store : Nat]
  BY <1>1, LenProperties
<1>. QED
  BY <1>2, LayoutAssumption DEF Extent

(* Placing the current global leaves the others where they were.         *)
LEMMA PlaceAtFacts ==
  ASSUME NEW a, next \notin DOMAIN place
  PROVE  /\ DOMAIN PlaceAt(a) = DOMAIN place \cup {next}
         /\ PlaceAt(a)[next] = a
         /\ \A x \in DOMAIN place : PlaceAt(a)[x] = place[x]
BY DEF PlaceAt

(* A value of the int range is its own two's-complement reading.          *)
LEMMA SignedIdentity ==
  ASSUME NEW x \in Int, -Half <= x, x <= Half - 1
  PROVE  Signed(x) = x
BY WidthAssumption DEF Signed, Unsigned, Half

(***************************************************************************)
(* The step of globalDecl for an initialized global: the size it          *)
(* subtracts is the size the global occupies, it is positive, and the new *)
(* bottom is exact, in the int range, and what the globals up to this one *)
(* reserve.                                                                *)
(***************************************************************************)
LEMMA DecrementFacts ==
  ASSUME IInv, FitsAll, Declaring, Current.init
  PROVE  LET nb == globalsBottom - GlobalSize(Current)
         IN  /\ GlobalSize(Current) = Extent(Current)
             /\ Extent(Current) \in Nat \ {0}
             /\ Signed(nb) = nb
             /\ nb \in IntRange
             /\ nb <= 0
             /\ \A r \in SuffixSums(globals) : nb = r[next + 1] - r[1]
<1> DEFINE E == Extent(Current)
           nb == globalsBottom - GlobalSize(Current)
<1>1. /\ globals \in Modules /\ next \in 1..Len(globals) /\ Len(globals) \in Nat
      /\ globalsBottom \in Int /\ globalsBottom <= 0
  BY LayoutAssumption, LenProperties DEF IInv, TypeOK, Declaring, IntRange
<1>2. /\ Current.sized \in BOOLEAN /\ Current.store \in Nat
      /\ E \in Nat \ {0}
  <2>1. Extent(globals[next]) \in Nat /\ globals[next].store \in Nat
        /\ globals[next].sized \in BOOLEAN
    BY <1>1, GlobalFields
  <2>2. Extent(globals[next]) > 0
    BY <1>1 DEF FitsAll, Fits, Current
  <2>. QED
    BY <2>1, <2>2 DEF Current
<1>3. PICK r \in SuffixSums(globals) : r[1] <= Half
  BY <1>1 DEF FitsAll, Fits
<1>4. /\ r \in [1..Len(globals) + 1 -> Nat]
      /\ r[next] = r[next + 1] + E
      /\ globalsBottom = r[next] - r[1]
  BY <1>1, <1>3 DEF SuffixSums, Occupied, Current, IInv, Budget
<1>5. Half \in Nat \ {0} /\ 2 ^ IntBits = 2 * Half
  BY WidthAssumption DEF Half
<1>4a. r[1] \in Nat /\ r[next] \in Nat /\ r[next + 1] \in Nat
  BY <1>1, <1>4
<1>6. E <= Half
  BY <1>1, <1>2, <1>3, <1>4, <1>4a, <1>5
<1>7. GlobalSize(Current) = E
  <2>1. CASE Current.sized
    <3>1. Current.store = E
      BY <2>1 DEF Extent
    <3>2. Unsigned(Current.store) = Current.store
      BY <1>2, <1>5, <1>6, <3>1 DEF Unsigned
    <3>. QED
      BY <2>1, <3>1, <3>2 DEF GlobalSize
  <2>2. CASE ~Current.sized
    BY <2>2 DEF GlobalSize, Extent
  <2>. QED
    BY <1>2, <2>1, <2>2
<1>8. /\ nb = r[next + 1] - r[1]
      /\ nb \in IntRange /\ nb <= 0
  <2>1. nb = r[next + 1] - r[1]
    BY <1>1, <1>2, <1>4, <1>4a, <1>7
  <2>2. -Half <= nb
    <3>1. r[1] <= Half /\ r[next + 1] \in Nat /\ r[1] \in Nat
      BY <1>3, <1>4a
    <3>. QED
      BY <2>1, <3>1, <1>5
  <2>4. nb <= 0
    BY <1>1, <1>2, <1>7
  <2>3. nb \in Int
    BY <2>1, <1>4a
  <2>. QED
    BY <2>1, <2>2, <2>4, <2>3, <1>5 DEF IntRange, Half
<1>9. \A q \in SuffixSums(globals) : nb = q[next + 1] - q[1]
  <2>1. SUFFICES ASSUME NEW q \in SuffixSums(globals) PROVE nb = q[next + 1] - q[1]
    OBVIOUS
  <2>2. /\ q[next] = q[next + 1] + E
        /\ q[1] \in Nat /\ q[next] \in Nat /\ q[next + 1] \in Nat
    BY <2>1, <1>1 DEF SuffixSums, Occupied, Current
  <2>3. globalsBottom = q[next] - q[1]
    BY <2>1 DEF IInv, Budget
  <2>. QED
    BY <2>2, <2>3, <1>2, <1>7
<1>10. Signed(nb) = nb
  BY <1>8, <1>5, SignedIdentity DEF IntRange, Half
<1>. QED
  BY <1>2, <1>7, <1>8, <1>9, <1>10

THEOREM InitIInv ==
  ASSUME FitsAll
  PROVE  Init => IInv
<1> SUFFICES ASSUME Init PROVE IInv
  OBVIOUS
<1>1. globals \in Modules /\ Len(globals) \in Nat
  BY LayoutAssumption, LenProperties DEF Init
<1>2. Half \in Nat \ {0}
  BY WidthAssumption DEF Half
<1>3. TypeOK
  BY <1>1, <1>2 DEF Init, TypeOK, IntRange, Half
<1>4. Budget
  BY <1>1 DEF Init, Budget, SuffixSums
<1>. QED
  BY <1>1, <1>3, <1>4
     DEF Init, IInv, Above, UniqueAddresses, NamedGlobalsDisjoint, Declaring

(* The facts every declaring step starts from.                             *)
LEMMA DeclaringFacts ==
  ASSUME IInv, Declaring
  PROVE  /\ next \in 1..Len(globals) /\ Len(globals) \in Nat
         /\ next \notin DOMAIN place
         /\ globals \in Modules
         /\ bottomAxiom = {}
         /\ Current.init \in BOOLEAN
BY LayoutAssumption, LenProperties, GlobalFields DEF IInv, TypeOK, Declaring, Current

LEMMA DeclareNamedIInv ==
  ASSUME FitsAll, IInv, DeclareNamed
  PROVE  IInv'
<1> DEFINE E == Extent(Current)
           nb == globalsBottom - GlobalSize(Current)
<1>1. /\ next \in 1..Len(globals) /\ Len(globals) \in Nat
      /\ next \notin DOMAIN place /\ bottomAxiom = {}
  BY DeclaringFacts DEF DeclareNamed
<1>2. /\ GlobalSize(Current) = E /\ E \in Nat \ {0}
      /\ Signed(nb) = nb /\ nb \in IntRange /\ nb <= 0
      /\ \A r \in SuffixSums(globals) : nb = r[next + 1] - r[1]
  BY DecrementFacts DEF DeclareNamed
<1>3. /\ globalsBottom' = nb /\ place' = PlaceAt(nb) /\ next' = next + 1
      /\ axiomatized' = axiomatized \cup {next}
      /\ UNCHANGED <<globals, external, bottomAxiom>>
      /\ Current.init
  BY <1>2 DEF DeclareNamed, Decremented
<1>4. /\ DOMAIN place' = DOMAIN place \cup {next}
      /\ place'[next] = nb
      /\ \A x \in DOMAIN place : place'[x] = place[x]
  BY <1>1, <1>3, PlaceAtFacts
<1>5. /\ globalsBottom \in Int /\ nb < globalsBottom /\ nb + E = globalsBottom
  BY <1>2 DEF IInv, TypeOK, IntRange
<1>6. TypeOK'
  <2>1. place' \in [DOMAIN place' -> Int]
    <3>1. place' = [x \in DOMAIN place \cup {next} |-> IF x = next THEN nb ELSE place[x]]
      BY <1>3 DEF PlaceAt
    <3>2. \A x \in DOMAIN place : place[x] \in Int
      BY DEF IInv, TypeOK
    <3>. QED
      BY <3>1, <3>2, <1>2 DEF IntRange
  <2>2. /\ next' \in 1..Len(globals') + 1
        /\ globalsBottom' \in IntRange
        /\ DOMAIN place' \subseteq 1..next' - 1
        /\ axiomatized' \subseteq DOMAIN place'
        /\ external' \subseteq 1..next' - 1
        /\ bottomAxiom' \subseteq IntRange
    BY <1>1, <1>2, <1>3, <1>4 DEF IInv, TypeOK
  <2>. QED
    BY <2>1, <2>2 DEF TypeOK
<1>7. Budget'
  BY <1>2, <1>3 DEF Budget
<1>8. Above'
  <2>1. SUFFICES ASSUME NEW i \in axiomatized'
                 PROVE  /\ globals[i].init /\ nb <= place'[i]
                        /\ place'[i] + Extent(globals[i]) <= 0
    BY <1>3 DEF Above
  <2>2. CASE i = next
    BY <2>2, <1>2, <1>3, <1>4, <1>5 DEF IInv, Current
  <2>3. CASE i # next
    <3>1. i \in axiomatized /\ i \in DOMAIN place /\ place[i] \in Int
      BY <2>1, <2>3, <1>3 DEF IInv, TypeOK
    <3>2. /\ globals[i].init /\ globalsBottom <= place[i]
          /\ place[i] + Extent(globals[i]) <= 0
      BY <3>1 DEF IInv, Above
    <3>. QED
      BY <3>1, <3>2, <1>3, <1>4, <1>5
  <2>. QED
    BY <2>2, <2>3
<1>9. /\ UniqueAddresses'
      /\ NamedGlobalsDisjoint'
  <2>1. \A i \in axiomatized :
          /\ i \in DOMAIN place /\ i # next /\ place'[i] = place[i]
          /\ place[i] \in Int /\ globalsBottom <= place[i]
    BY <1>1, <1>4 DEF IInv, TypeOK, Above
  <2>2. place'[next] + E <= globalsBottom /\ place'[next] \in Int
    BY <1>2, <1>4, <1>5 DEF IntRange
  <2>3. \A i \in axiomatized : Extent(globals[i]) \in Nat
    BY <2>1, GlobalFields DEF IInv, TypeOK
  <2>4. \A i \in axiomatized : place'[next] # place'[i]
    BY <2>1, <2>2, <1>2, <1>5
  <2>5. \A i \in axiomatized :
          place'[next] + Extent(globals[next]) <= place'[i]
    BY <2>1, <2>2, <2>3, <1>2, <1>5 DEF Current
  <2>6. UniqueAddresses'
    BY <1>3, <2>1, <2>4 DEF IInv, UniqueAddresses
  <2>7. NamedGlobalsDisjoint'
    BY <1>3, <2>1, <2>5 DEF IInv, NamedGlobalsDisjoint
  <2>. QED
    BY <2>6, <2>7
<1>10. (globalsBottom' <= 0) /\ (bottomAxiom' \subseteq {globalsBottom'})
       /\ (Declaring' => bottomAxiom' = {})
  BY <1>1, <1>2, <1>3
<1>. QED
  BY <1>3, <1>6, <1>7, <1>8, <1>9, <1>10 DEF IInv

LEMMA DeclareStringIInv ==
  ASSUME FitsAll, IInv, DeclareString
  PROVE  IInv'
<1> DEFINE nb == globalsBottom - GlobalSize(Current)
<1>1. /\ next \in 1..Len(globals) /\ Len(globals) \in Nat
      /\ next \notin DOMAIN place /\ bottomAxiom = {}
  BY DeclaringFacts DEF DeclareString
<1>2. /\ GlobalSize(Current) \in Nat \ {0}
      /\ Signed(nb) = nb /\ nb \in IntRange /\ nb <= 0
      /\ \A r \in SuffixSums(globals) : nb = r[next + 1] - r[1]
  BY DecrementFacts DEF DeclareString
<1>3. /\ globalsBottom' = nb /\ next' = next + 1
      /\ UNCHANGED <<globals, axiomatized, external, bottomAxiom>>
  BY <1>2 DEF DeclareString
<1>4. PICK a \in Int : place' = PlaceAt(a)
  <2>1. \A j \in DOMAIN place : place[j] \in Int
    BY DEF IInv, TypeOK
  <2>. QED
    BY <1>2, <1>3, <2>1 DEF DeclareString, IntRange
<1>5. /\ DOMAIN place' = DOMAIN place \cup {next}
      /\ \A x \in DOMAIN place : place'[x] = place[x]
      /\ place' \in [DOMAIN place' -> Int]
  <2>1. \A j \in DOMAIN place : place[j] \in Int
    BY DEF IInv, TypeOK
  <2>. QED
    BY <1>1, <1>4, <2>1, PlaceAtFacts DEF PlaceAt
<1>6. globalsBottom \in Int /\ nb <= globalsBottom
  BY <1>2 DEF IInv, TypeOK, IntRange
<1>7. \A i \in axiomatized : i \in DOMAIN place /\ place'[i] = place[i]
  BY <1>5 DEF IInv, TypeOK
<1>8. TypeOK'
  BY <1>1, <1>2, <1>3, <1>5 DEF IInv, TypeOK
<1>9. Budget'
  BY <1>2, <1>3 DEF Budget
<1>10. Above'
  <2>1. \A i \in axiomatized : place[i] \in Int /\ globalsBottom <= place[i]
    BY DEF IInv, TypeOK, Above
  <2>. QED
    BY <1>3, <1>6, <1>7, <2>1 DEF IInv, Above
<1>11. UniqueAddresses' /\ NamedGlobalsDisjoint'
  BY <1>3, <1>7 DEF IInv, UniqueAddresses, NamedGlobalsDisjoint
<1>12. (globalsBottom' <= 0) /\ (bottomAxiom' \subseteq {globalsBottom'})
       /\ (Declaring' => bottomAxiom' = {})
  BY <1>1, <1>2, <1>3
<1>. QED
  BY <1>3, <1>8, <1>9, <1>10, <1>11, <1>12 DEF IInv

LEMMA DeclareExternalIInv ==
  ASSUME IInv, DeclareExternal
  PROVE  IInv'
<1>1. /\ next \in 1..Len(globals) /\ Len(globals) \in Nat
      /\ bottomAxiom = {} /\ ~Current.init
  BY DeclaringFacts DEF DeclareExternal
<1>2. /\ external' = external \cup {next} /\ next' = next + 1
      /\ UNCHANGED <<globals, globalsBottom, place, axiomatized, bottomAxiom>>
  BY DEF DeclareExternal
<1>3. TypeOK'
  BY <1>1, <1>2 DEF IInv, TypeOK
<1>4. Budget'
  <2>1. SUFFICES ASSUME NEW r \in SuffixSums(globals)
                 PROVE  globalsBottom = r[next + 1] - r[1]
    BY <1>2 DEF Budget
  <2>2. r[next] = r[next + 1] /\ r[next] \in Nat /\ r[1] \in Nat
    BY <1>1 DEF SuffixSums, Occupied, Current
  <2>3. globalsBottom = r[next] - r[1]
    BY DEF IInv, Budget
  <2>. QED
    BY <2>2, <2>3
<1>. QED
  BY <1>1, <1>2, <1>3, <1>4
     DEF IInv, Above, UniqueAddresses, NamedGlobalsDisjoint, Declaring

LEMMA EmitBottomIInv ==
  ASSUME IInv, EmitBottom
  PROVE  IInv'
<1>1. /\ bottomAxiom' = {globalsBottom} /\ ~Declaring
      /\ UNCHANGED <<globals, next, globalsBottom, place, axiomatized, external>>
  BY DEF EmitBottom
<1>. QED
  BY <1>1 DEF IInv, TypeOK, Budget, Above, UniqueAddresses, NamedGlobalsDisjoint,
              Declaring

LEMMA StutterIInv ==
  ASSUME IInv, UNCHANGED gvars
  PROVE  IInv'
BY DEF gvars, IInv, TypeOK, Budget, Above, UniqueAddresses, NamedGlobalsDisjoint,
       Declaring, IntRange

THEOREM NextIInv ==
  ASSUME FitsAll
  PROVE  IInv /\ [Next]_gvars => IInv'
BY DeclareNamedIInv, DeclareStringIInv, DeclareExternalIInv, EmitBottomIInv,
   StutterIInv DEF Next

THEOREM Inductive ==
  ASSUME FitsAll
  PROVE  Spec => []IInv
BY InitIInv, NextIInv, PTL DEF Spec

-----------------------------------------------------------------------------
(* globalDecl keeps globalsBottom and every address in the int range, for *)
(* every module that fits.                                                 *)
THEOREM TypeCorrect ==
  ASSUME FitsAll
  PROVE  Spec => []TypeOK
BY Inductive, PTL DEF IInv

(***************************************************************************)
(* No two address axioms of globalDecl name the same address, for every   *)
(* int width and every module that fits (UniqueAddresses).                *)
(***************************************************************************)
THEOREM AddressesUnique ==
  ASSUME FitsAll
  PROVE  Spec => []UniqueAddresses
BY Inductive, PTL DEF IInv

(***************************************************************************)
(* The byte ranges of the named initialized globals never overlap, for    *)
(* every int width and every module that fits (NamedGlobalsDisjoint).     *)
(***************************************************************************)
THEOREM GlobalsDisjoint ==
  ASSUME FitsAll
  PROVE  Spec => []NamedGlobalsDisjoint
BY Inductive, PTL DEF IInv

(***************************************************************************)
(* Every named global lies between the $GLOBALS_BOTTOM axiom of          *)
(* getPrelude and address 0 (BelowZeroAboveBottom).                        *)
(***************************************************************************)
LEMMA IInvBelowZero ==
  ASSUME IInv
  PROVE  BelowZeroAboveBottom
BY DEF IInv, Above, BelowZeroAboveBottom

THEOREM BottomBelowGlobals ==
  ASSUME FitsAll
  PROVE  Spec => []BelowZeroAboveBottom
BY Inductive, IInvBelowZero, PTL

-----------------------------------------------------------------------------
(***************************************************************************)
(* The refinement needs one more fact: the address axioms are exactly     *)
(* those of the globals handled so far that are initialized and not .str, *)
(* so that when getPrelude runs every such global has its axiom.          *)
(***************************************************************************)
NamedPlaced == axiomatized = {i \in Named : i < next}

LEMMA NamedPlacedInit == Init => NamedPlaced
BY DEF Init, NamedPlaced, Named

LEMMA NamedPlacedStep ==
  ASSUME IInv, NamedPlaced, [Next]_gvars
  PROVE  NamedPlaced'
<1>1. CASE DeclareNamed
  <2>1. next \in 1..Len(globals) /\ Current.init /\ ~Current.str
    BY <1>1, DeclaringFacts DEF DeclareNamed
  <2>2. /\ axiomatized' = axiomatized \cup {next} /\ next' = next + 1
        /\ globals' = globals
    BY <1>1 DEF DeclareNamed
  <2>. QED
    BY <2>1, <2>2 DEF NamedPlaced, Named, Current
<1>2. CASE DeclareString
  <2>1. next \in 1..Len(globals) /\ Current.str
    BY <1>2, DeclaringFacts DEF DeclareString
  <2>2. /\ axiomatized' = axiomatized /\ next' = next + 1 /\ globals' = globals
    BY <1>2 DEF DeclareString
  <2>. QED
    BY <2>1, <2>2 DEF NamedPlaced, Named, Current
<1>3. CASE DeclareExternal
  <2>1. next \in 1..Len(globals) /\ ~Current.init
    BY <1>3, DeclaringFacts DEF DeclareExternal
  <2>2. /\ axiomatized' = axiomatized /\ next' = next + 1 /\ globals' = globals
    BY <1>3 DEF DeclareExternal
  <2>. QED
    BY <2>1, <2>2 DEF NamedPlaced, Named, Current
<1>4. CASE EmitBottom \/ UNCHANGED gvars
  BY <1>4 DEF EmitBottom, gvars, NamedPlaced, Named
<1>. QED
  BY <1>1, <1>2, <1>3, <1>4 DEF Next

LEMMA NamedPlacedAlways ==
  ASSUME FitsAll
  PROVE  Spec => [](IInv /\ NamedPlaced)
<1>1. Init => IInv /\ NamedPlaced
  BY InitIInv, NamedPlacedInit
<1>2. IInv /\ NamedPlaced /\ [Next]_gvars => (IInv /\ NamedPlaced)'
  BY NextIInv, NamedPlacedStep
<1>. QED
  BY <1>1, <1>2, PTL DEF Spec

(* The sizes of the blocks: every initialized global occupies a positive   *)
(* number of bytes in a module that fits.                                  *)
LEMMA NamedSizes ==
  ASSUME FitsAll, globals \in Modules
  PROVE  \A i \in Named : Extent(globals[i]) \in Nat \ {0}
BY GlobalFields DEF FitsAll, Fits, Named

(***************************************************************************)
(* A step of globalDecl for a named global is a Place step of the          *)
(* abstract allocation: the new address and its block come from the       *)
(* invariant of the state after the step.                                 *)
(***************************************************************************)
LEMMA DeclareNamedPlaces ==
  ASSUME FitsAll, IInv, IInv', NamedPlaced, DeclareNamed
  PROVE  Allocation!ANext
<1> DEFINE a == place'[next]
           E == Extent(Current)
<1>1. /\ next \in 1..Len(globals) /\ Len(globals) \in Nat
      /\ next \notin DOMAIN place /\ globals \in Modules /\ bottomAxiom = {}
  BY DeclaringFacts DEF DeclareNamed
<1>2. /\ place' = PlaceAt(Decremented(globalsBottom, Current))
      /\ axiomatized' = axiomatized \cup {next}
      /\ globals' = globals /\ bottomAxiom' = bottomAxiom
      /\ Current.init /\ ~Current.str
  BY DEF DeclareNamed
<1>3. next \in Named /\ next \notin axiomatized
  BY <1>1, <1>2 DEF Named, Current, IInv, TypeOK
<1>4. \A j \in axiomatized : place'[j] = place[j] /\ j # next
  BY <1>1, <1>2, PlaceAtFacts DEF IInv, TypeOK
<1>5. E \in Nat \ {0}
  BY <1>1, <1>3, NamedSizes DEF Current
<1>6. /\ a \in Int
      /\ -(2 ^ (IntBits - 1)) <= a
      /\ a + E <= 0
  <2>1. next \in axiomatized'
    BY <1>2
  <2>2. /\ globalsBottom' <= a /\ a + E <= 0
    BY <2>1, <1>2 DEF IInv, Above, Current
  <2>3. /\ a \in Int /\ globalsBottom' \in IntRange
    BY <2>1 DEF IInv, TypeOK
  <2>4. Half \in Nat /\ globalsBottom' \in Int /\ -Half <= globalsBottom'
    BY <2>3, WidthAssumption DEF IntRange, Half
  <2>. QED
    BY <2>2, <2>3, <2>4 DEF Half
<1>7. \A j \in axiomatized : a + E <= place[j] \/ place[j] + Extent(globals[j]) <= a
  <2> SUFFICES ASSUME NEW j \in axiomatized
               PROVE  a + E <= place[j] \/ place[j] + Extent(globals[j]) <= a
    OBVIOUS
  <2>1. next \in axiomatized' /\ j \in axiomatized' /\ j # next
    BY <1>2, <1>4
  <2>2. \/ place'[next] + Extent(globals'[next]) <= place'[j]
        \/ place'[j] + Extent(globals'[j]) <= place'[next]
    BY <2>1 DEF IInv, NamedGlobalsDisjoint
  <2>. QED
    BY <2>2, <1>2, <1>4 DEF Current
<1>8. [j \in axiomatized' |-> place'[j]]
        = [j \in axiomatized \cup {next} |->
             IF j = next THEN a ELSE [i \in axiomatized |-> place[i]][j]]
  <2>1. \A j \in axiomatized \cup {next} :
          place'[j] = IF j = next THEN a ELSE [i \in axiomatized |-> place[i]][j]
    BY <1>4
  <2>. QED
    BY <2>1, <1>2, Zenon
<1>9. a \in -(2 ^ (IntBits - 1))..0
  BY <1>5, <1>6
<1>10. axiomatized \subseteq Named /\ Named' = Named
  BY <1>2 DEF NamedPlaced, Named
<1>. QED
  <2> DEFINE size == [i \in Named |-> Extent(globals[i])]
             block == [i \in axiomatized |-> place[i]]
  <2>1. next \in DOMAIN size \ DOMAIN block
    BY <1>3
  <2>2. -(2 ^ (IntBits - 1)) <= a /\ a + size[next] <= 0
    BY <1>3, <1>6 DEF Current
  <2>3. \A j \in DOMAIN block : Allocation!Apart(next, a, j)
    BY <1>3, <1>7, <1>10 DEF Allocation!Apart, Current
  <2>4. /\ [i \in axiomatized' |-> place'[i]]
            = [j \in DOMAIN block \cup {next} |-> IF j = next THEN a ELSE block[j]]
        /\ [i \in Named' |-> Extent(globals'[i])] = size
        /\ bottomAxiom' = bottomAxiom
    BY <1>8, <1>10, <1>2
  <2>5. Allocation!Place(next, a)
    BY <1>1, <2>1, <2>2, <2>3, <2>4 DEF Allocation!Place
  <2>6. next \in DOMAIN size
    BY <1>3
  <2>. QED
    BY <2>5, <2>6, <1>9 DEF Allocation!ANext, Allocation!Place

(***************************************************************************)
(* getPrelude's axiom is the Seal step: every named global is placed once *)
(* the loop is over, and the final bottom lies below all of them.         *)
(***************************************************************************)
LEMMA EmitBottomSeals ==
  ASSUME IInv, NamedPlaced, EmitBottom
  PROVE  Allocation!ANext
<1>1. /\ bottomAxiom = {} /\ bottomAxiom' = {globalsBottom} /\ ~Declaring
      /\ UNCHANGED <<globals, next, globalsBottom, place, axiomatized>>
  BY DEF EmitBottom
<1>2. axiomatized = Named
  <2>1. next = Len(globals) + 1 /\ Len(globals) \in Nat
    BY <1>1, LayoutAssumption, LenProperties DEF IInv, TypeOK, Declaring
  <2>. QED
    BY <2>1 DEF NamedPlaced, Named
<1>3. /\ globalsBottom \in -(2 ^ (IntBits - 1))..0
      /\ \A j \in axiomatized : globalsBottom <= place[j]
  <2>1. /\ globalsBottom \in IntRange /\ globalsBottom <= 0
        /\ \A j \in axiomatized : globalsBottom <= place[j]
    BY DEF IInv, TypeOK, Above
  <2>2. Half \in Nat
    BY WidthAssumption DEF Half
  <2>. QED
    BY <2>1, <2>2 DEF IntRange, Half
<1>4. /\ Named' = Named
      /\ [i \in axiomatized' |-> place'[i]] = [i \in axiomatized |-> place[i]]
  BY <1>1 DEF Named
<1>5. Allocation!Seal(globalsBottom)
  BY <1>1, <1>2, <1>3, <1>4 DEF Allocation!Seal
<1>. QED
  BY <1>3, <1>5, Zenon DEF Allocation!ANext

(* A .str or an external global leaves the abstract state alone.          *)
LEMMA OtherDeclStutters ==
  ASSUME IInv, DeclareString \/ DeclareExternal \/ UNCHANGED gvars
  PROVE  UNCHANGED Allocation!avars
<1>1. CASE DeclareString
  <2>1. /\ next \notin DOMAIN place /\ axiomatized \subseteq DOMAIN place
    BY <1>1, DeclaringFacts DEF DeclareString, IInv, TypeOK
  <2>2. \E a : place' = PlaceAt(a)
    BY <1>1 DEF DeclareString
  <2>3. \A j \in axiomatized : place'[j] = place[j]
    BY <2>1, <2>2, PlaceAtFacts
  <2>. QED
    BY <1>1, <2>3 DEF DeclareString, Allocation!avars, Named
<1>2. CASE DeclareExternal \/ UNCHANGED gvars
  BY <1>2 DEF DeclareExternal, gvars, Allocation!avars, Named
<1>. QED
  BY <1>1, <1>2

(***************************************************************************)
(* globalDecl over the globals of a module, followed by the bottom axiom  *)
(* of getPrelude, implements the abstract allocation of disjoint blocks   *)
(* in [-2^(IntBits-1), 0) (ImplementsAllocation), for every int width and *)
(* every module that fits.                                                 *)
(***************************************************************************)
THEOREM Refinement ==
  ASSUME FitsAll
  PROVE  Spec => ImplementsAllocation
<1>1. Init => Allocation!AInit
  <2> SUFFICES ASSUME Init PROVE Allocation!AInit
    OBVIOUS
  <2>1. globals \in Modules
    BY DEF Init
  <2>. QED
    BY <2>1, NamedSizes DEF Init, Allocation!AInit
<1>2. IInv /\ NamedPlaced /\ IInv' /\ [Next]_gvars
        => [Allocation!ANext]_Allocation!avars
  <2> SUFFICES ASSUME IInv, NamedPlaced, IInv', [Next]_gvars
               PROVE  [Allocation!ANext]_Allocation!avars
    OBVIOUS
  <2>1. CASE DeclareNamed
    BY <2>1, DeclareNamedPlaces
  <2>2. CASE EmitBottom
    BY <2>2, EmitBottomSeals
  <2>3. CASE DeclareString \/ DeclareExternal \/ UNCHANGED gvars
    BY <2>3, OtherDeclStutters
  <2>. QED
    BY <2>1, <2>2, <2>3 DEF Next
<1>3. Spec => [](IInv /\ NamedPlaced)
  BY NamedPlacedAlways
<1>. QED
  BY <1>1, <1>2, <1>3, PTL DEF Spec, ImplementsAllocation, Allocation!ASpec

=============================================================================
