------------------------- MODULE GlobalAllocation -------------------------
(***************************************************************************)
(* What the layout of globals promises the memory model (spec section     *)
(* 4.7), with no counter and no wrap-around: every global that gets an     *)
(* address axiom gets a block of its size inside [Low, 0), apart from the  *)
(* blocks placed before it; the $GLOBALS_BOTTOM axiom comes once, after    *)
(* every such global is placed, with a value in the range at or below      *)
(* every block.  Blocks have a positive size, so apart blocks also have    *)
(* distinct addresses.                                                     *)
(***************************************************************************)
EXTENDS Integers

CONSTANT Low   \* the least address of the int range

VARIABLES
  size,    \* the bytes of every global that gets an address axiom
  block,   \* the start address of every global placed so far
  bottom   \* the value of the bottom axiom, once emitted

avars == <<size, block, bottom>>

AInit ==
  /\ \A i \in DOMAIN size : size[i] \in Nat \ {0}
  /\ block = [i \in {} |-> 0]
  /\ bottom = {}

(* The block of i starting at a and the placed block of j do not overlap. *)
Apart(i, a, j) == a + size[i] <= block[j] \/ block[j] + size[j] <= a

(* Global i, not placed yet, gets the block starting at a.                 *)
Place(i, a) ==
  /\ bottom = {}
  /\ i \in DOMAIN size \ DOMAIN block
  /\ Low <= a /\ a + size[i] <= 0
  /\ \A j \in DOMAIN block : Apart(i, a, j)
  /\ block' = [j \in DOMAIN block \cup {i} |-> IF j = i THEN a ELSE block[j]]
  /\ UNCHANGED <<size, bottom>>

(* Every global is placed: the bottom axiom gets b, below every block.     *)
Seal(b) ==
  /\ bottom = {}
  /\ DOMAIN block = DOMAIN size
  /\ Low <= b
  /\ \A j \in DOMAIN block : b <= block[j]
  /\ bottom' = {b}
  /\ UNCHANGED <<size, block>>

ANext ==
  \/ \E i \in DOMAIN size, a \in Low..0 : Place(i, a)
  \/ \E b \in Low..0 : Seal(b)

ASpec == AInit /\ [][ANext]_avars

=============================================================================
