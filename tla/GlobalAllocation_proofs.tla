---------------------- MODULE GlobalAllocation_proofs ----------------------
(***************************************************************************)
(* What the abstract allocation of globals guarantees: every block placed *)
(* lies in [Low, 0), no two blocks overlap, and the bottom axiom, once    *)
(* emitted, is at or below every block.  With GlobalLayout_proofs!        *)
(* Refinement this is the promise the address axioms of                   *)
(* SmackRep::declareGlobals keep for the memory model.                    *)
(***************************************************************************)
EXTENDS GlobalAllocation, TLAPS

(* The inductive invariant: sizes are positive, blocks are placed globals *)
(* with addresses in range, pairwise apart, and above the bottom.         *)
AInv ==
  /\ \A i \in DOMAIN size : size[i] \in Nat \ {0}
  /\ DOMAIN block \subseteq DOMAIN size
  /\ block \in [DOMAIN block -> Int]
  /\ \A j \in DOMAIN block : Low <= block[j] /\ block[j] + size[j] <= 0
  /\ \A i, j \in DOMAIN block : i # j => Apart(i, block[i], j)
  /\ \A b \in bottom : \A j \in DOMAIN block : b <= block[j]

(* Blocks placed by the allocation never overlap.                          *)
BlocksApart == \A i, j \in DOMAIN block : i # j => Apart(i, block[i], j)

LEMMA AInitAInv == AInit => AInv
  BY DEF AInit, AInv

LEMMA PlaceAInv ==
  ASSUME AInv, NEW i \in DOMAIN size, NEW a \in Low..0, Place(i, a)
  PROVE  AInv'
<1> DEFINE D == DOMAIN block \cup {i}
<1>1. DOMAIN block' = D /\ \A j \in D : block'[j] = IF j = i THEN a ELSE block[j]
  BY DEF Place
<1>2. size' = size /\ bottom' = bottom /\ bottom = {}
  BY DEF Place
<1>3. i \notin DOMAIN block /\ Low <= a /\ a + size[i] <= 0
      /\ \A j \in DOMAIN block : Apart(i, a, j)
  BY DEF Place
<1>4. size[i] \in Nat \ {0} /\ a \in Int
  BY DEF AInv
<1>5. \A p, q \in D : p # q => block'[p] + size[p] <= block'[q] \/ block'[q] + size[q] <= block'[p]
  <2>1. SUFFICES ASSUME NEW p \in D, NEW q \in D, p # q
                 PROVE  block'[p] + size[p] <= block'[q] \/ block'[q] + size[q] <= block'[p]
    OBVIOUS
  <2>2. CASE p = i
    BY <2>1, <2>2, <1>1, <1>3 DEF Apart
  <2>3. CASE q = i
    BY <2>1, <2>3, <1>1, <1>3, <1>4 DEF Apart, AInv
  <2>4. CASE p # i /\ q # i
    BY <2>1, <2>4, <1>1 DEF Apart, AInv
  <2>. QED
    BY <2>2, <2>3, <2>4
<1>6. \A j \in D : block'[j] \in Int /\ Low <= block'[j] /\ block'[j] + size[j] <= 0
  BY <1>1, <1>3, <1>4 DEF AInv
<1>7. D \subseteq DOMAIN size /\ block' \in [D -> Int]
  <2>1. D \subseteq DOMAIN size
    BY DEF AInv
  <2>2. block' = [j \in D |-> block'[j]]
    BY DEF Place
  <2>. QED
    BY <2>1, <2>2, <1>6
<1>. QED
  BY <1>1, <1>2, <1>5, <1>6, <1>7 DEF AInv, Apart

LEMMA SealAInv ==
  ASSUME AInv, NEW b \in Low..0, Seal(b)
  PROVE  AInv'
  BY DEF Seal, AInv, Apart

LEMMA NextAInv == AInv /\ [ANext]_avars => AInv'
<1> SUFFICES ASSUME AInv, [ANext]_avars PROVE AInv'
  OBVIOUS
<1>1. CASE \E i \in DOMAIN size, a \in Low..0 : Place(i, a)
  BY <1>1, PlaceAInv
<1>2. CASE \E b \in Low..0 : Seal(b)
  BY <1>2, SealAInv
<1>3. CASE UNCHANGED avars
  BY <1>3 DEF AInv, avars, Apart
<1>. QED
  BY <1>1, <1>2, <1>3 DEF ANext

(* The abstract allocation never places two overlapping blocks.           *)
THEOREM AllocationApart == ASpec => []BlocksApart
<1>1. ASpec => []AInv
  BY AInitAInv, NextAInv, PTL DEF ASpec
<1>. QED
  BY <1>1, PTL DEF AInv, BlocksApart

=============================================================================
