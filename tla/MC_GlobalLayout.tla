-------------------------- MODULE MC_GlobalLayout --------------------------
(***************************************************************************)
(* Modules of up to three globals for TLC, with int and unsigned scaled    *)
(* to 12 bits so that the default size 1024 is a quarter of the unsigned   *)
(* range, as it is a small part of the 32-bit one.                         *)
(***************************************************************************)
EXTENDS GlobalLayout

MCIntBits == 12

MCDefault == 1024

Global(stores, strs) ==
  [init : BOOLEAN, str : strs, sized : BOOLEAN, store : stores]

UpTo3(G) == {<<>>} \cup {<<a>> : a \in G} \cup {<<a, b>> : a, b \in G} \cup {<<a, b, c>> : a, b, c \in G}

TotalExtent(s) ==
  LET e(i) == IF i <= Len(s) /\ s[i].init THEN Extent(s[i]) ELSE 0
  IN  e(1) + e(2) + e(3)

(***************************************************************************)
(* The modules whose layout fits: store sizes that survive the narrowing  *)
(* to unsigned, and a total within the int range.                          *)
(***************************************************************************)
FittingModules ==
  {s \in UpTo3(Global({1, 4}, {FALSE, TRUE})) : TotalExtent(s) <= 2 ^ (MCIntBits - 1)}

(* A global whose store size 4096 = 2^12 storageSize narrows to 0.        *)
TruncatedModules == UpTo3(Global({4, 4096}, {FALSE}))


=============================================================================
