--------------------------- MODULE PruneFunctions ---------------------------
(***************************************************************************)
(* PruneFunctionPass::runOnModule (PruneFunctionPass.cpp): an iterative    *)
(* depth-first search from main over the direct calls of the module that   *)
(* records as keepers the functions found on a call chain to one of the    *)
(* critical (SSL) functions, followed by the deletion of the body of every *)
(* function that is not a keeper.                                          *)
(*                                                                         *)
(* The body of a function is abstracted to the sequence of its call        *)
(* instructions in instruction order: a direct call is its callee, an      *)
(* indirect call (getCalledFunction() == null) is the value Indirect.      *)
(* Other instructions do nothing in the loop and are left out.  A          *)
(* declaration has the empty body.  The call graph is chosen in Init from  *)
(* Bodies and never changes during the pass.                               *)
(***************************************************************************)
EXTENDS Naturals, Sequences, FiniteSets

CONSTANTS
  Funcs,     \* the functions of the module
  Main,      \* M.getFunction("main")
  Critical,  \* SSL_library_init, SSL_CTX_new, SSL_CTX_ctrl, SSL_CTX_set_verify
  Indirect,  \* the callee of an indirect call
  Bodies     \* the admissible call sequences of the functions

ASSUME PruneAssumption ==
  /\ IsFiniteSet(Funcs)
  /\ Main \in Funcs
  /\ Critical \subseteq Funcs
  /\ Indirect \notin Funcs
  /\ Bodies \subseteq [Funcs -> Seq(Funcs \cup {Indirect})]

VARIABLES
  body,     \* the call instructions of every function
  stack,    \* the DFS stack, top at the end
  seen,     \* the functions the search has processed
  keepers,  \* the functions whose body is kept
  ip,       \* the position of the inst_iterator in the body of the top
  pruned,   \* the functions whose body deleteBody removed
  pc        \* "search" while the while loop runs, "done" after the pruning

pvars == <<body, stack, seen, keepers, ip, pruned, pc>>

(* The function at the top of the stack and the call its scan is at.       *)
Top == stack[Len(stack)]

Callee == body[Top][ip]

Scanning == pc = "search" /\ stack # <<>> /\ ip <= Len(body[Top])

StackSet == {stack[i] : i \in 1..Len(stack)}

Init ==
  /\ body \in Bodies
  /\ stack = <<Main>>
  /\ seen = {Main}
  /\ keepers = Critical
  /\ ip = 1
  /\ pruned = {}
  /\ pc = "search"

(* Mutation: the null check is gone and an indirect call is recorded as  *)
(* seen like a direct one.                                                 *)
ScanIndirectRecorded ==
  /\ Scanning
  /\ Callee = Indirect
  /\ seen' = seen \cup {Callee}
  /\ ip' = ip + 1
  /\ UNCHANGED <<body, stack, keepers, pruned, pc>>

(* An indirect call: skipped (continue).                                   *)
ScanIndirect ==
  /\ Scanning
  /\ Callee = Indirect
  /\ ip' = ip + 1
  /\ UNCHANGED <<body, stack, seen, keepers, pruned, pc>>

(* Mutation: the skip of a seen callee does not advance the iterator.     *)
ScanSeenStuck ==
  /\ Scanning
  /\ Callee # Indirect
  /\ Callee \in seen
  /\ UNCHANGED <<body, stack, seen, keepers, ip, pruned, pc>>

(* A direct call of a function already seen: skipped (continue).           *)
ScanSeen ==
  /\ Scanning
  /\ Callee # Indirect
  /\ Callee \in seen
  /\ ip' = ip + 1
  /\ UNCHANGED <<body, stack, seen, keepers, pruned, pc>>

(* Mutation: every function processed so far becomes a keeper, not only   *)
(* the ones on the stack.                                                  *)
ScanKeeperAllSeen ==
  /\ Scanning
  /\ Callee # Indirect
  /\ Callee \notin seen
  /\ Callee \in keepers
  /\ seen' = seen \cup {Callee}
  /\ keepers' = keepers \cup seen'
  /\ ip' = ip + 1
  /\ UNCHANGED <<body, stack, pruned, pc>>

(* A call of an unseen keeper: every function on the stack becomes a      *)
(* keeper, and the scan goes on.                                           *)
ScanKeeper ==
  /\ Scanning
  /\ Callee # Indirect
  /\ Callee \notin seen
  /\ Callee \in keepers
  /\ seen' = seen \cup {Callee}
  /\ keepers' = keepers \cup StackSet
  /\ ip' = ip + 1
  /\ UNCHANGED <<body, stack, pruned, pc>>

(* Mutation: the pushed callee is not inserted into seen.                *)
ScanPushUnseen ==
  /\ Scanning
  /\ Callee # Indirect
  /\ Callee \notin seen
  /\ Callee \notin keepers
  /\ stack' = Append(stack, Callee)
  /\ ip' = 1
  /\ UNCHANGED <<body, seen, keepers, pruned, pc>>

(* A call of an unseen function that is not a keeper: it is pushed and the *)
(* search goes on from it (goto done); the scan of its caller restarts     *)
(* from inst_begin when the caller is on top again.                        *)
ScanPush ==
  /\ Scanning
  /\ Callee # Indirect
  /\ Callee \notin seen
  /\ Callee \notin keepers
  /\ seen' = seen \cup {Callee}
  /\ stack' = Append(stack, Callee)
  /\ ip' = 1
  /\ UNCHANGED <<body, keepers, pruned, pc>>

(* The scan of the top reached inst_end: pop_back.                         *)
PopFrame ==
  /\ pc = "search"
  /\ stack # <<>>
  /\ ip > Len(body[Top])
  /\ stack' = SubSeq(stack, 1, Len(stack) - 1)
  /\ ip' = 1
  /\ UNCHANGED <<body, seen, keepers, pruned, pc>>

(* Mutation: the bodies deleted are those the search never reached.      *)
PruneUnseen ==
  /\ pc = "search"
  /\ stack = <<>>
  /\ pruned' = Funcs \ seen
  /\ pc' = "done"
  /\ UNCHANGED <<body, stack, seen, keepers, ip>>

(* The stack is empty: deleteBody on every function that is not a keeper. *)
Prune ==
  /\ pc = "search"
  /\ stack = <<>>
  /\ pruned' = Funcs \ keepers
  /\ pc' = "done"
  /\ UNCHANGED <<body, stack, seen, keepers, ip>>

Next ==
  \/ ScanIndirect
  \/ ScanSeen
  \/ ScanKeeper
  \/ ScanPush
  \/ PopFrame
  \/ Prune

(* The pass is one sequential loop: a step that can be taken is taken.     *)
Spec == Init /\ [][Next]_pvars /\ WF_pvars(Next)

-----------------------------------------------------------------------------
(* f has a direct call of g.                                               *)
Calls(f, g) == \E i \in 1..Len(body[f]) : body[f][i] = g

(* The functions that reach a function of T through direct calls (T       *)
(* included): the least set containing T and every caller of its members.  *)
CallerClosed(S, T) == T \subseteq S /\ \A f \in Funcs : (\E g \in S : Calls(f, g)) => f \in S

ReachersOf(T) == {f \in Funcs : \A S \in SUBSET Funcs : CallerClosed(S, T) => f \in S}

(* The functions main reaches through direct calls (main included).        *)
CalleeClosed(S) == Main \in S /\ \A f \in S, g \in Funcs : Calls(f, g) => g \in S

Reachable == {f \in Funcs : \A S \in SUBSET Funcs : CalleeClosed(S) => f \in S}

(* The type invariant.                                                     *)
TypeOK ==
  /\ body \in [Funcs -> Seq(Funcs \cup {Indirect})]
  /\ stack \in Seq(Funcs)
  /\ seen \subseteq Funcs
  /\ keepers \subseteq Funcs
  /\ ip \in Nat \ {0}
  /\ pruned \subseteq Funcs
  /\ pc \in {"search", "done"}

(***************************************************************************)
(* The DFS stack is a call chain from main: it starts at main, each entry  *)
(* is called directly by the one below it, no function is on it twice,     *)
(* and every function on it has been seen.                                 *)
(***************************************************************************)
StackIsCallChain ==
  /\ stack # <<>> => stack[1] = Main
  /\ \A i \in 1..Len(stack) - 1 : Calls(stack[i], stack[i + 1])
  /\ \A i, j \in 1..Len(stack) : i # j => stack[i] # stack[j]
  /\ StackSet \subseteq seen

(***************************************************************************)
(* Soundness of the keepers: every function whose body the pass keeps is   *)
(* critical or reaches a critical function through direct calls, so the    *)
(* pass never keeps a function that cannot lead to the SSL calls.          *)
(***************************************************************************)
KeepersSound == keepers \subseteq ReachersOf(Critical)

(***************************************************************************)
(* Liveness: the while loop ends and the pruning loop runs, whatever the   *)
(* call graph (recursion included), since a function is pushed at most     *)
(* once and every scan is finite.                                          *)
(***************************************************************************)
Terminates == <>(pc = "done")

(***************************************************************************)
(* Completeness, as the pass's registration says ("Prune functions that    *)
(* don't reach SSL critical one"): when the pass ends, no function that    *)
(* main reaches and that reaches a critical function has lost its body.    *)
(***************************************************************************)
PruneComplete ==
  pc = "done" => \A f \in Reachable \cap ReachersOf(Critical) : f \notin pruned


(* The direct calls of the module as pairs.                                *)
CallPairs == {fg \in Funcs \X Funcs : Calls(fg[1], fg[2])}

(***************************************************************************)
(* The pass implements its abstract specification CriticalPruning: the     *)
(* search is a sequence of stuttering steps, and the pruning loop deletes  *)
(* the bodies of a set of non-critical functions whose complement leads    *)
(* to the critical ones.                                                   *)
(***************************************************************************)
Pruning == INSTANCE CriticalPruning WITH calls <- CallPairs, done <- (pc = "done")

ImplementsPruning == Pruning!ASpec

=============================================================================
