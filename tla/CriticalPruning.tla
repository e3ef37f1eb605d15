------------------------- MODULE CriticalPruning -------------------------
(***************************************************************************)
(* What PruneFunctionPass promises, with no search: once, at the end, it   *)
(* deletes the bodies of a set of functions, never the body of a critical  *)
(* (SSL) function, and every function that keeps its body leads to a       *)
(* critical function through direct calls.  It does not promise to keep   *)
(* every such function.                                                    *)
(***************************************************************************)
CONSTANTS
  Funcs,     \* the functions of the module
  Critical   \* the critical functions

VARIABLES
  calls,    \* the direct calls <<caller, callee>> of the module, fixed
  pruned,   \* the functions whose body is deleted
  done      \* whether the pass has run

avars == <<calls, pruned, done>>

(* The functions leading to a critical one: the least set that holds the  *)
(* critical functions and every caller of one of its members.             *)
LeadsClosed(S) ==
  /\ Critical \subseteq S
  /\ \A f \in Funcs, g \in S : <<f, g>> \in calls => f \in S

Leading == {f \in Funcs : \A S \in SUBSET Funcs : LeadsClosed(S) => f \in S}

AInit ==
  /\ calls \subseteq Funcs \X Funcs
  /\ pruned = {}
  /\ done = FALSE

(* The bodies of the functions P are deleted, all others are kept.         *)
DeleteBodies(P) ==
  /\ ~done
  /\ P \subseteq Funcs \ Critical
  /\ Funcs \ P \subseteq Leading
  /\ pruned' = P
  /\ done' = TRUE
  /\ UNCHANGED calls

ANext == \E P \in SUBSET Funcs : DeleteBodies(P)

ASpec == AInit /\ [][ANext]_avars

=============================================================================
