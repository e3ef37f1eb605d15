-------------------------- MODULE RegionPartition --------------------------
(***************************************************************************)
(* What the memory-region partitioner promises its callers (spec section   *)
(* 4.3), with no scan and no representatives: every value it has resolved  *)
(* belongs to one region for the rest of the translation; regions are      *)
(* numbered 1..count in the order they are created; a value is placed in   *)
(* an existing region or in a new one numbered count + 1; and a value is   *)
(* never placed apart from a value it may alias, so a load and a store     *)
(* that may touch the same memory use the same region map.                 *)
(***************************************************************************)
EXTENDS Naturals

CONSTANT Values

VARIABLES
  alias,   \* the may-alias relation of the oracle, fixed for the run
  assign,  \* the region of every value resolved so far
  count    \* the number of regions

avars == <<alias, assign, count>>

AInit ==
  /\ alias \subseteq Values \X Values
  /\ assign = [x \in {} |-> 0]
  /\ count = 0

(* Value v, not resolved yet, is placed in region r.                       *)
Place(v, r) ==
  /\ v \notin DOMAIN assign
  /\ r \in 1..count + 1
  /\ \A w \in DOMAIN assign :
        assign[w] # r => <<v, w>> \notin alias /\ <<w, v>> \notin alias
  /\ assign' = [x \in DOMAIN assign \cup {v} |-> IF x = v THEN r ELSE assign[x]]
  /\ count' = IF r = count + 1 THEN count + 1 ELSE count
  /\ UNCHANGED alias

ANext == \E v \in Values, r \in 1..count + 1 : Place(v, r)

ASpec == AInit /\ [][ANext]_avars

=============================================================================
