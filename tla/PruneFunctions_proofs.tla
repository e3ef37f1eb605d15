----------------------- MODULE PruneFunctions_proofs -----------------------
(***************************************************************************)
(* Proofs about PruneFunctionPass::runOnModule as modelled in             *)
(* PruneFunctions, for every finite set of functions, every main, every   *)
(* set of critical functions and every call graph.                        *)
(***************************************************************************)
EXTENDS PruneFunctions, SequenceTheorems, TLAPS

(* Every function on the DFS stack reaches every function above it.        *)
ChainReaches ==
  \A i, j \in 1..Len(stack) : i < j => stack[i] \in ReachersOf({stack[j]})

(***************************************************************************)
(* The inductive invariant.  KeepersSound alone is not inductive: when a  *)
(* keeper is found, every function on the stack becomes a keeper, which   *)
(* is sound only because each of them reaches the top through direct     *)
(* calls (ChainReaches), and that needs the stack to be a call chain.     *)
(***************************************************************************)
IInv == TypeOK /\ StackIsCallChain /\ KeepersSound /\ ChainReaches

-----------------------------------------------------------------------------
(* A caller of a function that reaches T reaches T.                        *)
LEMMA CallerReaches ==
  ASSUME NEW T, NEW f \in Funcs, NEW g, Calls(f, g), g \in ReachersOf(T)
  PROVE  f \in ReachersOf(T)
<1>1. SUFFICES ASSUME NEW S \in SUBSET Funcs, CallerClosed(S, T) PROVE f \in S
  BY DEF ReachersOf
<1>2. g \in S
  BY <1>1 DEF ReachersOf
<1>. QED
  BY <1>1, <1>2 DEF CallerClosed

(* Reaching is transitive.                                                 *)
LEMMA ReachTrans ==
  ASSUME NEW T, NEW x, NEW y, x \in ReachersOf({y}), y \in ReachersOf(T)
  PROVE  x \in ReachersOf(T)
<1>1. x \in Funcs
  BY DEF ReachersOf
<1>2. SUFFICES ASSUME NEW S \in SUBSET Funcs, CallerClosed(S, T) PROVE x \in S
  BY <1>1 DEF ReachersOf
<1>3. y \in S
  BY <1>2 DEF ReachersOf
<1>4. CallerClosed(S, {y})
  BY <1>2, <1>3 DEF CallerClosed
<1>. QED
  BY <1>4 DEF ReachersOf

(* Every function of T reaches T.                                          *)
LEMMA SelfReach ==
  ASSUME NEW T \in SUBSET Funcs
  PROVE  T \subseteq ReachersOf(T)
BY DEF ReachersOf, CallerClosed

(* The call graph never changes, so neither does reaching.                *)
LEMMA ReachersStable ==
  ASSUME NEW T, body' = body
  PROVE  ReachersOf(T)' = ReachersOf(T)
BY DEF ReachersOf, CallerClosed, Calls

-----------------------------------------------------------------------------
(* The callee a scanning step looks at is a call of the top of the stack. *)
LEMMA CalleeFacts ==
  ASSUME TypeOK, Scanning
  PROVE  /\ Top \in Funcs
         /\ Callee \in Funcs \cup {Indirect}
         /\ Callee # Indirect => Calls(Top, Callee)
<1>1. Len(stack) \in Nat \ {0} /\ Top \in Funcs
  BY EmptySeq, LenProperties DEF TypeOK, Scanning, Top
<1>2. body[Top] \in Seq(Funcs \cup {Indirect}) /\ ip \in 1..Len(body[Top])
  BY <1>1 DEF TypeOK, Scanning
<1>. QED
  BY <1>1, <1>2 DEF Callee, Calls

THEOREM InitIInv == Init => IInv
<1> SUFFICES ASSUME Init PROVE IInv
  OBVIOUS
<1>1. TypeOK
  BY PruneAssumption DEF Init, TypeOK
<1>2. StackIsCallChain
  BY PruneAssumption DEF Init, StackIsCallChain, StackSet
<1>3. KeepersSound
  BY SelfReach, PruneAssumption DEF Init, KeepersSound
<1>4. ChainReaches
  BY DEF Init, ChainReaches
<1>. QED
  BY <1>1, <1>2, <1>3, <1>4 DEF IInv

(* The steps that leave the stack and the keepers alone keep IInv.         *)
LEMMA ScanSkipIInv ==
  ASSUME IInv, ScanIndirect \/ ScanSeen
  PROVE  IInv'
<1>1. UNCHANGED <<body, stack, seen, keepers, pruned, pc>> /\ ip' = ip + 1
  BY DEF ScanIndirect, ScanSeen
<1>2. TypeOK'
  BY <1>1 DEF IInv, TypeOK
<1>3. KeepersSound'
  BY <1>1, ReachersStable DEF IInv, KeepersSound
<1>4. ChainReaches'
  BY <1>1, ReachersStable DEF IInv, ChainReaches
<1>5. StackIsCallChain'
  BY <1>1 DEF IInv, StackIsCallChain, Calls, StackSet
<1>. QED
  BY <1>2, <1>3, <1>4, <1>5 DEF IInv

LEMMA ScanKeeperIInv ==
  ASSUME IInv, ScanKeeper
  PROVE  IInv'
<1>1. /\ Callee \in Funcs /\ Callee \in keepers /\ Calls(Top, Callee) /\ Top \in Funcs
      /\ UNCHANGED <<body, stack, pruned, pc>>
      /\ seen' = seen \cup {Callee} /\ keepers' = keepers \cup StackSet /\ ip' = ip + 1
  BY CalleeFacts DEF IInv, ScanKeeper
<1>2. Top \in ReachersOf(Critical)
  BY <1>1, CallerReaches DEF IInv, KeepersSound
<1>3. StackSet \subseteq ReachersOf(Critical)
  <2>1. SUFFICES ASSUME NEW i \in 1..Len(stack) PROVE stack[i] \in ReachersOf(Critical)
    BY DEF StackSet
  <2>2. Len(stack) \in Nat /\ Top = stack[Len(stack)]
    BY LenProperties DEF IInv, TypeOK, Top
  <2>3. CASE i = Len(stack)
    BY <1>2, <2>2, <2>3
  <2>4. CASE i < Len(stack)
    <3>1. stack[i] \in ReachersOf({Top})
      BY <2>1, <2>2, <2>4 DEF IInv, ChainReaches
    <3>. QED
      BY <3>1, <1>2, ReachTrans
  <2>. QED
    BY <2>1, <2>2, <2>3, <2>4
<1>4. TypeOK'
  BY <1>1 DEF IInv, TypeOK, StackSet
<1>5. KeepersSound'
  BY <1>1, <1>3, ReachersStable DEF IInv, KeepersSound
<1>6. ChainReaches'
  BY <1>1, ReachersStable DEF IInv, ChainReaches
<1>7. StackIsCallChain'
  BY <1>1 DEF IInv, StackIsCallChain, Calls, StackSet
<1>. QED
  BY <1>4, <1>5, <1>6, <1>7 DEF IInv

LEMMA ScanPushIInv ==
  ASSUME IInv, ScanPush
  PROVE  IInv'
<1> DEFINE c == Callee
           n == Len(stack)
<1>1. /\ c \in Funcs /\ c \notin seen /\ Calls(Top, c) /\ Top \in Funcs
      /\ UNCHANGED <<body, keepers, pruned, pc>>
      /\ seen' = seen \cup {c} /\ stack' = Append(stack, c) /\ ip' = 1
  BY CalleeFacts DEF IInv, ScanPush
<1>2. /\ stack \in Seq(Funcs) /\ n \in Nat \ {0} /\ Top = stack[n]
  BY EmptySeq, LenProperties DEF IInv, TypeOK, ScanPush, Scanning, Top
<1>3. /\ stack' \in Seq(Funcs) /\ Len(stack') = n + 1
      /\ \A i \in 1..n : stack'[i] = stack[i]
      /\ stack'[n + 1] = c
  BY <1>1, <1>2, AppendProperties
<1>4. TypeOK'
  BY <1>1, <1>3 DEF IInv, TypeOK
<1>5. KeepersSound'
  BY <1>1, ReachersStable DEF IInv, KeepersSound
<1>6. StackIsCallChain'
  <2>1. stack'[1] = Main
    BY <1>2, <1>3 DEF IInv, StackIsCallChain
  <2>2. \A i \in 1..Len(stack') - 1 : Calls(stack'[i], stack'[i + 1])
    <3>1. SUFFICES ASSUME NEW i \in 1..n PROVE Calls(stack'[i], stack'[i + 1])
      BY <1>2, <1>3
    <3>2. CASE i = n
      BY <3>1, <3>2, <1>1, <1>2, <1>3
    <3>3. CASE i < n
      BY <3>1, <3>3, <1>2, <1>3 DEF IInv, StackIsCallChain
    <3>. QED
      BY <3>1, <3>2, <3>3, <1>2
  <2>3. \A i, j \in 1..Len(stack') : i # j => stack'[i] # stack'[j]
    <3>1. \A i \in 1..n : stack[i] # c
      BY <1>1 DEF IInv, StackIsCallChain, StackSet
    <3>. QED
      BY <3>1, <1>2, <1>3 DEF IInv, StackIsCallChain
  <2>4. StackSet' \subseteq seen'
    BY <1>1, <1>2, <1>3 DEF IInv, StackIsCallChain, StackSet
  <2>. QED
    BY <1>1, <2>1, <2>2, <2>3, <2>4, <1>3 DEF StackIsCallChain, Calls
<1>7. ChainReaches'
  <2>1. Top \in ReachersOf({c})
    BY <1>1, SelfReach, CallerReaches
  <2>2. SUFFICES ASSUME NEW i \in 1..n + 1, NEW j \in 1..n + 1, i < j
                 PROVE  stack'[i] \in ReachersOf({stack'[j]})
    BY <1>1, <1>3, ReachersStable DEF ChainReaches
  <2>3. CASE j <= n
    BY <2>2, <2>3, <1>2, <1>3 DEF IInv, ChainReaches
  <2>4. CASE j = n + 1 /\ i = n
    BY <2>4, <2>1, <1>2, <1>3
  <2>5. CASE j = n + 1 /\ i < n
    <3>1. stack[i] \in ReachersOf({Top})
      BY <2>2, <2>5, <1>2 DEF IInv, ChainReaches
    <3>2. stack'[i] = stack[i] /\ stack'[j] = c
      BY <2>2, <2>5, <1>2, <1>3
    <3>. QED
      BY <3>1, <3>2, <2>1, ReachTrans
  <2>. QED
    BY <2>2, <2>3, <2>4, <2>5, <1>2
<1>. QED
  BY <1>4, <1>5, <1>6, <1>7 DEF IInv

LEMMA PopFrameIInv ==
  ASSUME IInv, PopFrame
  PROVE  IInv'
<1>1. /\ stack' = SubSeq(stack, 1, Len(stack) - 1) /\ ip' = 1
      /\ UNCHANGED <<body, seen, keepers, pruned, pc>>
  BY DEF PopFrame
<1>2. stack \in Seq(Funcs)
  BY DEF IInv, TypeOK
<1>3. PICK n \in Nat \ {0} : n = Len(stack)
  BY <1>2, EmptySeq, LenProperties DEF PopFrame
<1>4. /\ stack' \in Seq(Funcs) /\ Len(stack') = n - 1
      /\ \A i \in 1..n - 1 : stack'[i] = stack[i]
  <2>1. \A i \in 1..n - 1 : stack[i] \in Funcs
    BY <1>2, <1>3, LenProperties
  <2>2. /\ SubSeq(stack, 1, n - 1) \in Seq(Funcs)
        /\ Len(SubSeq(stack, 1, n - 1)) = IF 1 <= n - 1 THEN n - 1 - 1 + 1 ELSE 0
        /\ \A i \in 1..n - 1 - 1 + 1 : SubSeq(stack, 1, n - 1)[i] = stack[1 + i - 1]
    BY <1>3, <2>1, SubSeqProperties
  <2>. QED
    BY <1>1, <1>3, <2>2
<1>5. TypeOK'
  BY <1>1, <1>4 DEF IInv, TypeOK
<1>6. KeepersSound'
  BY <1>1, ReachersStable DEF IInv, KeepersSound
<1>7. ChainReaches'
  BY <1>1, <1>3, <1>4, ReachersStable DEF IInv, ChainReaches
<1>8. StackIsCallChain'
  <2>1. stack' # <<>> => stack'[1] = Main
    BY <1>3, <1>4 DEF IInv, StackIsCallChain
  <2>2. \A i \in 1..Len(stack') - 1 : Calls(stack'[i], stack'[i + 1])
    BY <1>3, <1>4 DEF IInv, StackIsCallChain
  <2>3. \A i, j \in 1..Len(stack') : i # j => stack'[i] # stack'[j]
    BY <1>3, <1>4 DEF IInv, StackIsCallChain
  <2>4. StackSet' \subseteq seen'
    BY <1>1, <1>3, <1>4 DEF IInv, StackIsCallChain, StackSet
  <2>. QED
    BY <1>1, <2>1, <2>2, <2>3, <2>4 DEF StackIsCallChain, Calls
<1>. QED
  BY <1>5, <1>6, <1>7, <1>8 DEF IInv

LEMMA PruneIInv ==
  ASSUME IInv, Prune
  PROVE  IInv'
<1>1. UNCHANGED <<body, stack, seen, keepers, ip>> /\ pruned' = Funcs \ keepers /\ pc' = "done"
  BY DEF Prune
<1>. QED
  BY <1>1, ReachersStable DEF IInv, TypeOK, StackIsCallChain, KeepersSound, ChainReaches, Calls, StackSet

LEMMA StutterIInv ==
  ASSUME IInv, UNCHANGED pvars
  PROVE  IInv'
<1>1. UNCHANGED <<body, stack, seen, keepers, ip, pruned, pc>>
  BY DEF pvars
<1>. QED
  BY <1>1, ReachersStable DEF IInv, TypeOK, StackIsCallChain, KeepersSound, ChainReaches, Calls, StackSet

THEOREM NextIInv == IInv /\ [Next]_pvars => IInv'
<1> SUFFICES ASSUME IInv, [Next]_pvars PROVE IInv'
  OBVIOUS
<1>. QED
  BY ScanSkipIInv, ScanKeeperIInv, ScanPushIInv, PopFrameIInv, PruneIInv, StutterIInv DEF Next

THEOREM Inductive == Spec => []IInv
BY InitIInv, NextIInv, PTL DEF Spec

-----------------------------------------------------------------------------
(* Type correctness of the pass's state, for every call graph.            *)
THEOREM TypeCorrect == Spec => []TypeOK
BY Inductive, PTL DEF IInv

(***************************************************************************)
(* The DFS stack of runOnModule is always a call chain from main without  *)
(* repetition, whatever the call graph (StackIsCallChain).                *)
(***************************************************************************)
THEOREM CallChain == Spec => []StackIsCallChain
BY Inductive, PTL DEF IInv

(***************************************************************************)
(* Every function runOnModule keeps reaches a critical function through   *)
(* direct calls (KeepersSound), for every call graph.                     *)
(***************************************************************************)
THEOREM KeepersAreSound == Spec => []KeepersSound
BY Inductive, PTL DEF IInv

-----------------------------------------------------------------------------
(* The critical functions are keepers from the start and keepers are      *)
(* never dropped, so no critical body is ever deleted.                    *)
CriticalKept == Critical \subseteq keepers

LEMMA CriticalKeptAlways == Spec => []CriticalKept
<1>1. Init => CriticalKept
  BY DEF Init, CriticalKept
<1>2. CriticalKept /\ [Next]_pvars => CriticalKept'
  BY DEF CriticalKept, Next, pvars, ScanIndirect, ScanSeen, ScanKeeper, ScanPush,
         PopFrame, Prune
<1>. QED
  BY <1>1, <1>2, PTL DEF Spec

(* The functions the abstract specification says lead to a critical one   *)
(* are the reachers of the critical functions.                            *)
LEMMA LeadingIsReachers == Pruning!Leading = ReachersOf(Critical)
<1>1. \A S \in SUBSET Funcs : Pruning!LeadsClosed(S) <=> CallerClosed(S, Critical)
  BY DEF Pruning!LeadsClosed, CallerClosed, CallPairs
<1>. QED
  BY <1>1 DEF Pruning!Leading, ReachersOf

(* Every step of the search, and a stutter, leaves the abstract state alone. *)
LEMMA SearchStutters ==
  ASSUME [Next]_pvars, ~Prune
  PROVE  UNCHANGED Pruning!avars
<1>1. UNCHANGED <<body, pruned, pc>>
  BY DEF Next, pvars, ScanIndirect, ScanSeen, ScanKeeper, ScanPush, PopFrame
<1>. QED
  BY <1>1 DEF Pruning!avars, CallPairs, Calls

(* The pruning loop is the abstract step that deletes the bodies of the   *)
(* functions that are not keepers.                                         *)
LEMMA PruneDeletes ==
  ASSUME IInv, CriticalKept, Prune
  PROVE  Pruning!ANext
<1>1. /\ pc = "search" /\ pruned' = Funcs \ keepers /\ pc' = "done"
      /\ body' = body
  BY DEF Prune
<1>2. keepers \subseteq ReachersOf(Critical) /\ keepers \subseteq Funcs
  BY DEF IInv, KeepersSound, TypeOK
<1>3. CallPairs' = CallPairs
  BY <1>1 DEF CallPairs, Calls
<1>4. Pruning!DeleteBodies(Funcs \ keepers)
  BY <1>1, <1>2, <1>3, LeadingIsReachers DEF Pruning!DeleteBodies, CriticalKept
<1>. QED
  BY <1>4 DEF Pruning!ANext

(***************************************************************************)
(* runOnModule implements CriticalPruning (ImplementsPruning), for every   *)
(* call graph: it deletes bodies once, at the end, never a critical one,   *)
(* and every function it keeps leads to a critical function.              *)
(***************************************************************************)
THEOREM PruneRefinement == Spec => ImplementsPruning
<1>1. Init => Pruning!AInit
  BY DEF Init, Pruning!AInit, CallPairs
<1>2. IInv /\ CriticalKept /\ [Next]_pvars => [Pruning!ANext]_Pruning!avars
  BY PruneDeletes, SearchStutters
<1>3. Spec => [](IInv /\ CriticalKept)
  BY Inductive, CriticalKeptAlways, PTL
<1>. QED
  BY <1>1, <1>2, <1>3, PTL DEF Spec, ImplementsPruning, Pruning!ASpec

=============================================================================
