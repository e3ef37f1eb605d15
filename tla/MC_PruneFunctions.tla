------------------------- MODULE MC_PruneFunctions -------------------------
(***************************************************************************)
(* A small module for TLC: main "m", two helpers "f" and "g" and a         *)
(* critical declaration "c" (an SSL entry point, body empty).  Each of m,  *)
(* f and g makes at most two calls, to f, g, c or through a pointer;       *)
(* recursion (f calling f, g calling f and f calling g) is included.       *)
(***************************************************************************)
EXTENDS PruneFunctions

MCFuncs == {"m", "f", "g", "c"}

MCCritical == {"c"}

Targets == {"f", "g", "c", Indirect}

CallSeqs == {<<>>} \cup {<<x>> : x \in Targets} \cup {<<x, y>> : x, y \in Targets}

MCBodies == {b \in [MCFuncs -> CallSeqs] : b["c"] = <<>>}

=============================================================================
