------------------------ MODULE MemoryRegions_proofs ------------------------
(***************************************************************************)
(* Proofs about the memory-region partitioner of MemoryRegions, for every  *)
(* set of values, every module order and every alias oracle.               *)
(***************************************************************************)
EXTENDS MemoryRegions, SequenceTheorems, FiniteSetTheorems, TLAPS

(***************************************************************************)
(* A nonempty set of naturals has a least element: the region the scan of  *)
(* getRegion stops at exists whenever some representative may alias v.    *)
(***************************************************************************)
LEMMA LeastExists ==
  ASSUME NEW T \in SUBSET Nat, T # {}
  PROVE  \E r \in T : \A s \in T : r <= s
<1>1. PICK x \in T : \A y \in T : ~(<<y, x>> \in OpToRel(<, Nat))
  BY WFMin, NatLessThanWellFounded, Zenon
<1>2. \A y \in T : x <= y
  <2>1. SUFFICES ASSUME NEW y \in T, y < x PROVE FALSE
    OBVIOUS
  <2>2. <<y, x>> \in OpToRel(<, Nat)
    BY <2>1, Zenon DEF OpToRel
  <2>. QED
    BY <1>1, <2>2
<1>. QED
  BY <1>2

(***************************************************************************)
(* What the scan of getRegion returns: one past the last region when no    *)
(* representative may alias v, the first region whose representative may  *)
(* alias v otherwise.                                                      *)
(***************************************************************************)
LEMMA ScanRegionFacts ==
  ASSUME NEW v, memoryRegions \in Seq(Region)
  PROVE  /\ Hits(v) = {} => ScanRegion(v) = Len(memoryRegions) + 1
         /\ Hits(v) # {} =>
               /\ ScanRegion(v) \in Hits(v)
               /\ \A s \in Hits(v) : ScanRegion(v) <= s
         /\ ScanRegion(v) \in 1..Len(memoryRegions) + 1
<1>1. Hits(v) \subseteq 1..Len(memoryRegions)
  BY DEF Hits
<1>2. CASE Hits(v) # {}
  <2>1. \E r \in Hits(v) : \A s \in Hits(v) : r <= s
    BY <1>1, <1>2, LeastExists, LenProperties
  <2>. QED
    BY <2>1, <1>1, <1>2, LenProperties DEF ScanRegion
<1>3. CASE Hits(v) = {}
  BY <1>3, LenProperties DEF ScanRegion
<1>. QED
  BY <1>2, <1>3

(***************************************************************************)
(* What a getRegion call changes: the regions already there keep their     *)
(* representatives, one region (v, ...) is appended exactly when no        *)
(* representative may alias v, v is mapped to the region the scan found,   *)
(* and every other resolved value keeps its region.                        *)
(***************************************************************************)
LEMMA GetRegionEffect ==
  ASSUME NEW v \in Values,
         memoryRegions \in Seq(Region),
         oracle.alloced \subseteq Values,
         GetRegion(v)
  PROVE  /\ memoryRegions' \in Seq(Region)
         /\ Len(memoryRegions') = IF Hits(v) = {} THEN Len(memoryRegions) + 1
                                  ELSE Len(memoryRegions)
         /\ \A s \in 1..Len(memoryRegions) :
               memoryRegions'[s].rep = memoryRegions[s].rep
         /\ Hits(v) = {} => memoryRegions'[Len(memoryRegions) + 1].rep = v
         /\ DOMAIN regionOfValue' = DOMAIN regionOfValue \cup {v}
         /\ regionOfValue'[v] = ScanRegion(v)
         /\ \A x \in DOMAIN regionOfValue \ {v} : regionOfValue'[x] = regionOfValue[x]
<1> DEFINE n == Len(memoryRegions)
           r == ScanRegion(v)
           grown == IF r = n + 1
                      THEN Append(memoryRegions, [rep |-> v, alloced |-> FALSE])
                      ELSE memoryRegions
           upd == [grown[r] EXCEPT !.alloced = @ \/ v \in oracle.alloced]
<1>1. memoryRegions' = [grown EXCEPT ![r] = upd]
  BY DEF GetRegion
<1>2. n \in Nat /\ r \in 1..n + 1
  BY ScanRegionFacts, LenProperties
<1>3. /\ grown \in Seq(Region)
      /\ Len(grown) = IF Hits(v) = {} THEN n + 1 ELSE n
      /\ r \in 1..Len(grown)
      /\ \A s \in 1..n : grown[s] = memoryRegions[s]
      /\ Hits(v) = {} => grown[n + 1].rep = v
  <2>1. [rep |-> v, alloced |-> FALSE] \in Region
    BY DEF Region
  <2>2. CASE Hits(v) = {}
    BY <2>1, <2>2, ScanRegionFacts, AppendProperties
  <2>3. CASE Hits(v) # {}
    <3>1. r \in Hits(v)
      BY <2>3, ScanRegionFacts
    <3>2. r \in 1..n
      BY <3>1 DEF Hits
    <3>. QED
      BY <2>3, <3>2
  <2>. QED
    BY <2>2, <2>3
<1>4. upd \in Region /\ upd.rep = grown[r].rep
  <2>1. grown[r] \in Region
    <3>. HIDE DEF grown
    <3>. QED
      BY <1>3, LenProperties
  <2>. HIDE DEF grown
  <2>. QED
    BY <2>1 DEF Region
<1>. HIDE DEF grown, upd
<1>5. /\ memoryRegions' \in Seq(Region)
      /\ Len(memoryRegions') = Len(grown)
      /\ \A s \in 1..Len(grown) : memoryRegions'[s].rep = grown[s].rep
  BY <1>1, <1>3, <1>4, ExceptSeq
<1>6. /\ DOMAIN regionOfValue' = DOMAIN regionOfValue \cup {v}
      /\ regionOfValue'[v] = r
      /\ \A x \in DOMAIN regionOfValue \ {v} : regionOfValue'[x] = regionOfValue[x]
  BY DEF GetRegion
<1>. QED
  BY <1>2, <1>3, <1>5, <1>6

(* A getRegion call keeps the region state well typed.                     *)
LEMMA GetRegionTypeOK ==
  ASSUME TypeOK, NEW v \in Values, GetRegion(v)
  PROVE  /\ memoryRegions' \in Seq(Region)
         /\ DOMAIN regionOfValue' \subseteq Values
         /\ regionOfValue' \in [DOMAIN regionOfValue' -> 1..Len(memoryRegions')]
<1>1. /\ memoryRegions \in Seq(Region)
      /\ oracle.alloced \subseteq Values
  BY DEF TypeOK
<1>2. /\ memoryRegions' \in Seq(Region)
      /\ Len(memoryRegions') = IF Hits(v) = {} THEN Len(memoryRegions) + 1
                               ELSE Len(memoryRegions)
  BY <1>1, GetRegionEffect
<1>3. /\ Len(memoryRegions) \in Nat
      /\ Len(memoryRegions) <= Len(memoryRegions')
      /\ ScanRegion(v) \in 1..Len(memoryRegions')
  <2>1. Len(memoryRegions) \in Nat
    BY <1>1, LenProperties
  <2>2. ScanRegion(v) \in 1..Len(memoryRegions) + 1
    BY <1>1, ScanRegionFacts
  <2>3. Hits(v) # {} => ScanRegion(v) \in 1..Len(memoryRegions)
    BY <1>1, ScanRegionFacts DEF Hits
  <2>. QED
    BY <1>2, <2>1, <2>2, <2>3
<1>5. regionOfValue' = [x \in DOMAIN regionOfValue \cup {v} |->
                          IF x = v THEN ScanRegion(v) ELSE regionOfValue[x]]
  BY DEF GetRegion
<1>. QED
  BY <1>2, <1>3, <1>5 DEF TypeOK

(* The initial state is well typed.                                       *)
LEMMA TypeInit == Init => TypeOK
<1> SUFFICES ASSUME Init PROVE TypeOK
  OBVIOUS
<1>1. Len(ModuleOrder) \in Nat
  BY ConstantsAssumption, LenProperties
<1>2. oracle \in [alias : SUBSET (Values \X Values), alloced : SUBSET Values]
      /\ \A v \in Values : <<v, v>> \in oracle.alias
  BY ConstantsAssumption DEF Init
<1>3. memoryRegions \in Seq(Region) /\ prelude \in Seq(Nat \X Values)
  BY DEF Init
<1>4. regionOfValue \in [DOMAIN regionOfValue -> 1..Len(memoryRegions)]
      /\ DOMAIN regionOfValue \subseteq Values
  BY DEF Init
<1>. QED
  BY <1>1, <1>2, <1>3, <1>4 DEF Init, TypeOK, Phases

(* Every step keeps the state well typed.                                  *)
LEMMA TypeStep == TypeOK /\ [Next]_vars => TypeOK'
<1> SUFFICES ASSUME TypeOK, [Next]_vars PROVE TypeOK'
  OBVIOUS
<1>0. ModuleOrder \in Seq(Values) /\ Len(ModuleOrder) \in Nat
  BY ConstantsAssumption, LenProperties
<1>1. CASE CollectVisit
  <2>1. ModuleOrder[cursor] \in Values
    BY <1>0, <1>1, LenProperties DEF CollectVisit, TypeOK
  <2>. QED
    BY <1>0, <1>1, <2>1, GetRegionTypeOK DEF CollectVisit, TypeOK
<1>2. CASE CollectSkip
  BY <1>0, <1>2 DEF CollectSkip, TypeOK
<1>3. CASE EndCollect
  BY <1>3 DEF EndCollect, TypeOK, Phases
<1>4. CASE \E v \in Values : LowerAccess(v)
  BY <1>4, GetRegionTypeOK DEF LowerAccess, TypeOK
<1>5. CASE AddModifies
  BY <1>5 DEF AddModifies, TypeOK, Phases
<1>6. CASE GetPrelude
  <2>1. PICK order \in AddressOrders(DOMAIN regionOfValue) :
              prelude' = PreludeLines(order)
    BY <1>6 DEF GetPrelude
  <2>2. Cardinality(DOMAIN regionOfValue) \in Nat
    BY ConstantsAssumption, FS_Subset, FS_CardinalityType DEF TypeOK
  <2>3. \A i \in 1..Cardinality(DOMAIN regionOfValue) :
           <<regionOfValue[order[i]], order[i]>> \in Nat \X Values
    BY <2>1 DEF AddressOrders, TypeOK
  <2>4. PreludeLines(order) \in Seq(Nat \X Values)
    <3>. DEFINE k == Cardinality(DOMAIN regionOfValue)
                e(i) == <<regionOfValue[order[i]], order[i]>>
    <3>1. PreludeLines(order) = [i \in 1..k |-> e(i)]
      BY <2>1 DEF PreludeLines, AddressOrders
    <3>. HIDE DEF k, e
    <3>. QED
      BY <2>2, <2>3, <3>1, IsASeq DEF k, e
  <2>. QED
    BY <1>6, <2>1, <2>4 DEF GetPrelude, TypeOK, Phases
<1>7. CASE UNCHANGED vars
  BY <1>7 DEF vars, TypeOK
<1>. QED
  BY <1>1, <1>2, <1>3, <1>4, <1>5, <1>6, <1>7 DEF Next
(***************************************************************************)
(* Type correctness: every region index getRegion hands out is one the     *)
(* prelude declares, collectRegions never reads past the module, and the   *)
(* prelude lines name a region and a value.                                *)
(***************************************************************************)
THEOREM TypeCorrect == Spec => []TypeOK
<1>. QED
  BY TypeInit, TypeStep, PTL DEF Spec

(***************************************************************************)
(* The scan of getRegion finds a resolved value in the region it was      *)
(* placed in: what FirstMatch says of v is exactly the first-match scan.   *)
(***************************************************************************)
LEMMA ScanAssigned ==
  ASSUME TypeOK, FirstMatch, NEW v \in DOMAIN regionOfValue
  PROVE  Hits(v) # {} /\ ScanRegion(v) = regionOfValue[v]
<1> DEFINE rv == regionOfValue[v]
<1>1. Len(memoryRegions) \in Nat /\ rv \in 1..Len(memoryRegions)
  BY LenProperties DEF TypeOK
<1>2. rv \in Hits(v)
  BY <1>1 DEF FirstMatch, Hits
<1>3. \A s \in Hits(v) : rv <= s
  BY <1>1 DEF FirstMatch, Hits
<1>4. ScanRegion(v) \in Hits(v) /\ \A s \in Hits(v) : ScanRegion(v) <= s
  BY <1>2, ScanRegionFacts DEF TypeOK
<1>5. Hits(v) \subseteq Nat
  BY DEF Hits
<1>. QED
  BY <1>2, <1>3, <1>4, <1>5

(***************************************************************************)
(* A getRegion call keeps representatives separate and every resolved     *)
(* value at its first match.  Three cases: v was resolved before (nothing  *)
(* moves), v is new and some representative may alias it (v joins the     *)
(* first such region), v is new and none does (v founds region n + 1).     *)
(***************************************************************************)
LEMMA GetRegionInv ==
  ASSUME TypeOK, RepresentativesSeparate, FirstMatch,
         NEW v \in Values, GetRegion(v), oracle' = oracle
  PROVE  RepresentativesSeparate' /\ FirstMatch'
<1> DEFINE n == Len(memoryRegions)
           r == ScanRegion(v)
           rep(s) == memoryRegions[s].rep
<1>1. /\ memoryRegions \in Seq(Region)
      /\ oracle.alloced \subseteq Values
      /\ n \in Nat
      /\ \A x \in DOMAIN regionOfValue : regionOfValue[x] \in 1..n
  BY LenProperties DEF TypeOK
<1>2. /\ Len(memoryRegions') = IF Hits(v) = {} THEN n + 1 ELSE n
      /\ \A s \in 1..n : memoryRegions'[s].rep = rep(s)
      /\ Hits(v) = {} => memoryRegions'[n + 1].rep = v
      /\ DOMAIN regionOfValue' = DOMAIN regionOfValue \cup {v}
      /\ regionOfValue'[v] = r
      /\ \A x \in DOMAIN regionOfValue \ {v} : regionOfValue'[x] = regionOfValue[x]
  BY <1>1, GetRegionEffect
<1>3. \A a, b : NoAlias(a, b)' = NoAlias(a, b)
  BY DEF NoAlias
<1>4. /\ Hits(v) = {} => r = n + 1 /\ \A s \in 1..n : NoAlias(v, rep(s))
      /\ Hits(v) # {} => /\ r \in 1..n /\ ~NoAlias(v, rep(r))
                         /\ \A s \in 1..r - 1 : NoAlias(v, rep(s))
  <2>1. Hits(v) # {} => r \in Hits(v) /\ \A s \in Hits(v) : r <= s
    BY <1>1, ScanRegionFacts
  <2>2. Hits(v) = {} => r = n + 1
    BY <1>1, ScanRegionFacts
  <2>. QED
    BY <1>1, <2>1, <2>2 DEF Hits
<1>5. CASE v \in DOMAIN regionOfValue
  <2>1. Hits(v) # {} /\ r = regionOfValue[v]
    BY <1>5, ScanAssigned
  <2>2. /\ Len(memoryRegions') = n
        /\ DOMAIN regionOfValue' = DOMAIN regionOfValue
        /\ \A x \in DOMAIN regionOfValue : regionOfValue'[x] = regionOfValue[x]
    BY <1>2, <1>5, <2>1
  <2>3. RepresentativesSeparate'
    BY <1>2, <1>3, <2>2 DEF RepresentativesSeparate
  <2>4. FirstMatch'
    <3>1. SUFFICES ASSUME NEW x \in DOMAIN regionOfValue'
                   PROVE  /\ ~NoAlias(x, memoryRegions'[regionOfValue'[x]].rep)
                          /\ \A s \in 1..regionOfValue'[x] - 1 :
                                NoAlias(x, memoryRegions'[s].rep)
      BY <1>3 DEF FirstMatch
    <3>. QED
      BY <1>1, <1>2, <2>2 DEF FirstMatch
  <2>. QED
    BY <2>3, <2>4
<1>6. CASE v \notin DOMAIN regionOfValue /\ Hits(v) # {}
  <2>1. /\ Len(memoryRegions') = n
        /\ r \in 1..n /\ ~NoAlias(v, rep(r))
        /\ \A s \in 1..r - 1 : NoAlias(v, rep(s))
    BY <1>2, <1>4, <1>6
  <2>2. \A x \in DOMAIN regionOfValue : regionOfValue'[x] = regionOfValue[x]
    BY <1>2, <1>6
  <2>3. RepresentativesSeparate'
    BY <1>2, <1>3, <2>1, <2>2 DEF RepresentativesSeparate
  <2>4. FirstMatch'
    <3>1. SUFFICES ASSUME NEW x \in DOMAIN regionOfValue'
                   PROVE  /\ ~NoAlias(x, memoryRegions'[regionOfValue'[x]].rep)
                          /\ \A s \in 1..regionOfValue'[x] - 1 :
                                NoAlias(x, memoryRegions'[s].rep)
      BY <1>3 DEF FirstMatch
    <3>2. CASE x = v
      BY <1>1, <1>2, <2>1, <3>2
    <3>3. CASE x # v
      BY <1>1, <1>2, <2>2, <3>3 DEF FirstMatch
    <3>. QED
      BY <3>2, <3>3
  <2>. QED
    BY <2>3, <2>4
<1>7. CASE Hits(v) = {}
  <2>1. v \notin DOMAIN regionOfValue
    BY <1>7, ScanAssigned
  <2>2. /\ Len(memoryRegions') = n + 1
        /\ r = n + 1
        /\ memoryRegions'[n + 1].rep = v
        /\ \A s \in 1..n : NoAlias(v, rep(s))
        /\ ~NoAlias(v, v)
    BY <1>2, <1>4, <1>7 DEF TypeOK, NoAlias
  <2>3. \A x \in DOMAIN regionOfValue : regionOfValue'[x] = regionOfValue[x]
    BY <1>2, <2>1
  <2>4. RepresentativesSeparate'
    <3>1. SUFFICES ASSUME NEW q \in 1..n + 1
                   PROVE  /\ memoryRegions'[q].rep \in DOMAIN regionOfValue'
                          /\ regionOfValue'[memoryRegions'[q].rep] = q
                          /\ \A s \in 1..n + 1 :
                                s < q => NoAlias(memoryRegions'[q].rep,
                                                 memoryRegions'[s].rep)
      BY <1>3, <2>2 DEF RepresentativesSeparate
    <3>2. CASE q = n + 1
      BY <1>1, <1>2, <2>2, <3>2
    <3>3. CASE q \in 1..n
      <4>1. rep(q) \in DOMAIN regionOfValue /\ regionOfValue[rep(q)] = q
        BY <3>3 DEF RepresentativesSeparate
      <4>2. \A s \in 1..n : s < q => NoAlias(rep(q), rep(s))
        BY <3>3 DEF RepresentativesSeparate
      <4>. QED
        BY <1>1, <1>2, <2>3, <3>3, <4>1, <4>2
    <3>. QED
      BY <3>2, <3>3, <1>1
  <2>5. FirstMatch'
    <3>1. SUFFICES ASSUME NEW x \in DOMAIN regionOfValue'
                   PROVE  /\ ~NoAlias(x, memoryRegions'[regionOfValue'[x]].rep)
                          /\ \A s \in 1..regionOfValue'[x] - 1 :
                                NoAlias(x, memoryRegions'[s].rep)
      BY <1>3 DEF FirstMatch
    <3>2. CASE x = v
      BY <1>1, <1>2, <2>2, <3>2
    <3>3. CASE x # v
      BY <1>1, <1>2, <2>3, <3>3 DEF FirstMatch
    <3>. QED
      BY <3>2, <3>3
  <2>. QED
    BY <2>4, <2>5
<1>. QED
  BY <1>5, <1>6, <1>7

(***************************************************************************)
(* The inductive invariant: the type invariant, separate representatives  *)
(* and first matches.  RepresentativesSeparate alone is not inductive: a  *)
(* value resolved twice would be moved by a later scan unless its region  *)
(* is still its first match, which is what FirstMatch records.            *)
(***************************************************************************)
IInv == TypeOK /\ RepresentativesSeparate /\ FirstMatch

LEMMA IInvInit == Init => IInv
<1> SUFFICES ASSUME Init PROVE IInv
  OBVIOUS
<1>1. TypeOK
  BY TypeInit
<1>2. Len(memoryRegions) = 0 /\ DOMAIN regionOfValue = {}
  BY DEF Init
<1>. QED
  BY <1>1, <1>2 DEF IInv, RepresentativesSeparate, FirstMatch

LEMMA IInvStep == IInv /\ [Next]_vars => IInv'
<1> SUFFICES ASSUME IInv, [Next]_vars PROVE IInv'
  OBVIOUS
<1>1. TypeOK'
  BY TypeStep DEF IInv
<1>2. CASE CollectVisit
  <2>1. ModuleOrder[cursor] \in Values
    BY <1>2, ConstantsAssumption, LenProperties DEF CollectVisit, TypeOK, IInv
  <2>. QED
    BY <1>1, <1>2, <2>1, GetRegionInv DEF CollectVisit, IInv
<1>3. CASE \E v \in Values : LowerAccess(v)
  BY <1>1, <1>3, GetRegionInv DEF LowerAccess, IInv
<1>4. CASE UNCHANGED <<oracle, memoryRegions, regionOfValue>>
  BY <1>1, <1>4 DEF IInv, RepresentativesSeparate, FirstMatch, NoAlias
<1>. QED
  BY <1>2, <1>3, <1>4
  DEF Next, vars, CollectSkip, EndCollect, AddModifies, GetPrelude

(* The strengthened invariant holds in every reachable state.              *)
LEMMA IInvAlways == Spec => []IInv
BY IInvInit, IInvStep, PTL DEF Spec

(***************************************************************************)
(* The regions getRegion creates stay apart: every representative lies in  *)
(* its own region, and no representative may alias an earlier one, for    *)
(* every oracle, transitive or not.                                        *)
(***************************************************************************)
THEOREM Separate == Spec => []RepresentativesSeparate
BY IInvAlways, PTL DEF IInv

(***************************************************************************)
(* The first-match scan of getRegion is stable: every resolved value sits  *)
(* in the first region whose representative may alias it, however many     *)
(* regions later calls appended, for every oracle.                         *)
(***************************************************************************)
THEOREM FirstMatchHolds == Spec => []FirstMatch
BY IInvAlways, PTL DEF IInv

(***************************************************************************)
(* A getRegion call never moves a value resolved before it.               *)
(***************************************************************************)
LEMMA GetRegionKeeps ==
  ASSUME IInv, NEW w \in Values, GetRegion(w)
  PROVE  \A v \in DOMAIN regionOfValue :
            v \in DOMAIN regionOfValue' /\ regionOfValue'[v] = regionOfValue[v]
<1>1. /\ DOMAIN regionOfValue' = DOMAIN regionOfValue \cup {w}
      /\ regionOfValue'[w] = ScanRegion(w)
      /\ \A x \in DOMAIN regionOfValue \ {w} : regionOfValue'[x] = regionOfValue[x]
  BY GetRegionEffect DEF IInv, TypeOK
<1>2. w \in DOMAIN regionOfValue => ScanRegion(w) = regionOfValue[w]
  BY ScanAssigned DEF IInv
<1>. QED
  BY <1>1, <1>2

(***************************************************************************)
(* Region assignment is stable: no step of the translation moves a value   *)
(* getRegion has placed, so every access to it uses the same $M map.      *)
(***************************************************************************)
THEOREM AssignmentStable == Spec => RegionAssignmentStable
<1>1. IInv /\ [Next]_vars =>
        [\A v \in DOMAIN regionOfValue :
            v \in DOMAIN regionOfValue' /\ regionOfValue'[v] = regionOfValue[v]]_vars
  <2> SUFFICES ASSUME IInv, [Next]_vars
               PROVE  \A v \in DOMAIN regionOfValue :
                         v \in DOMAIN regionOfValue' /\ regionOfValue'[v] = regionOfValue[v]
    OBVIOUS
  <2>1. CASE CollectVisit
    <3>1. ModuleOrder[cursor] \in Values
      BY <2>1, ConstantsAssumption, LenProperties DEF CollectVisit, TypeOK, IInv
    <3>. QED
      BY <2>1, <3>1, GetRegionKeeps DEF CollectVisit
  <2>2. CASE \E v \in Values : LowerAccess(v)
    BY <2>2, GetRegionKeeps DEF LowerAccess
  <2>3. CASE UNCHANGED regionOfValue
    BY <2>3
  <2>. QED
    BY <2>1, <2>2, <2>3
    DEF Next, vars, CollectSkip, EndCollect, AddModifies, GetPrelude
<1>. QED
  BY <1>1, IInvInit, IInvStep, PTL DEF Spec, RegionAssignmentStable

-----------------------------------------------------------------------------
(***************************************************************************)
(* When the alias analysis answers with an equivalence relation, as a      *)
(* field-insensitive points-to analysis does (two pointers may alias       *)
(* exactly when they point to the same node), first-match regions are     *)
(* disjoint.  TLC shows on regions_nontransitive that without transitivity *)
(* they need not be.                                                       *)
(***************************************************************************)
EquivalenceOracles ==
  \A o \in Oracles : \A a, b, c \in Values :
    /\ <<a, b>> \in o.alias => <<b, a>> \in o.alias
    /\ <<a, b>> \in o.alias /\ <<b, c>> \in o.alias => <<a, c>> \in o.alias

(* The oracle is the one Init chose: every step leaves it alone.           *)
LEMMA OracleFixed == Spec => [](oracle \in Oracles)
<1>1. Init => oracle \in Oracles
  BY DEF Init
<1>2. oracle \in Oracles /\ [Next]_vars => (oracle \in Oracles)'
  BY DEF Next, vars, CollectVisit, CollectSkip, EndCollect, LowerAccess,
         AddModifies, GetPrelude
<1>. QED
  BY <1>1, <1>2, PTL DEF Spec

(***************************************************************************)
(* The core of disjointness, for any state: a value b whose first match is *)
(* a later region than a's does not alias a, because a aliases the         *)
(* representative of its own region, which b does not alias.               *)
(***************************************************************************)
LEMMA FirstMatchesApart ==
  ASSUME NEW al, NEW mr \in Seq(Region), NEW rov, NEW a, NEW b,
         a \in DOMAIN rov, b \in DOMAIN rov, a \in Values, b \in Values,
         rov[a] \in 1..Len(mr), rov[b] \in 1..Len(mr), rov[a] < rov[b],
         <<a, mr[rov[a]].rep>> \in al,
         \A s \in 1..rov[b] - 1 : <<b, mr[s].rep>> \notin al,
         \A x, y, z \in Values :
            /\ <<x, y>> \in al => <<y, x>> \in al
            /\ <<x, y>> \in al /\ <<y, z>> \in al => <<x, z>> \in al
  PROVE  <<a, b>> \notin al /\ <<b, a>> \notin al
<1>1. mr[rov[a]].rep \in Values
  <2>1. mr[rov[a]] \in Region
    BY LenProperties
  <2>. QED
    BY <2>1 DEF Region
<1>2. <<b, mr[rov[a]].rep>> \notin al
  <2>1. rov[a] \in 1..rov[b] - 1
    BY LenProperties
  <2>. QED
    BY <2>1
<1>. QED
  BY <1>1, <1>2, Zenon

(* Under an equivalence oracle the inductive invariant gives disjointness. *)
LEMMA DisjointFromIInv ==
  ASSUME IInv, oracle \in Oracles, EquivalenceOracles
  PROVE  RegionsDisjoint
<1>1. \A x, y, z \in Values :
         /\ <<x, y>> \in oracle.alias => <<y, x>> \in oracle.alias
         /\ <<x, y>> \in oracle.alias /\ <<y, z>> \in oracle.alias
              => <<x, z>> \in oracle.alias
  BY DEF EquivalenceOracles
<1>2. ASSUME NEW a \in DOMAIN regionOfValue, NEW b \in DOMAIN regionOfValue,
             regionOfValue[a] < regionOfValue[b]
      PROVE  NoAlias(a, b) /\ NoAlias(b, a)
  <2>1. /\ memoryRegions \in Seq(Region)
        /\ a \in Values /\ b \in Values
        /\ regionOfValue[a] \in 1..Len(memoryRegions)
        /\ regionOfValue[b] \in 1..Len(memoryRegions)
    BY DEF IInv, TypeOK
  <2>2. /\ <<a, memoryRegions[regionOfValue[a]].rep>> \in oracle.alias
        /\ \A s \in 1..regionOfValue[b] - 1 :
              <<b, memoryRegions[s].rep>> \notin oracle.alias
    BY DEF IInv, FirstMatch, NoAlias
  <2>. QED
    BY <1>1, <1>2, <2>1, <2>2, FirstMatchesApart DEF NoAlias
<1>3. \A v \in DOMAIN regionOfValue : regionOfValue[v] \in Nat
  BY LenProperties DEF IInv, TypeOK
<1>. QED
  BY <1>2, <1>3 DEF RegionsDisjoint

(***************************************************************************)
(* Spec section 8, region disjointness, for every alias oracle that is an  *)
(* equivalence relation: values getRegion placed in different regions     *)
(* never alias.                                                            *)
(***************************************************************************)
THEOREM DisjointForEquivalence == EquivalenceOracles => (Spec => []RegionsDisjoint)
<1> SUFFICES ASSUME EquivalenceOracles PROVE Spec => []RegionsDisjoint
  OBVIOUS
<1>1. Spec => []IInv
  BY IInvInit, IInvStep, PTL DEF Spec
<1>2. IInv /\ oracle \in Oracles => RegionsDisjoint
  BY DisjointFromIInv
<1>. QED
  BY <1>1, <1>2, OracleFixed, PTL

-----------------------------------------------------------------------------
(***************************************************************************)
(* A getRegion call is a step of the abstract partition: a stutter when v  *)
(* was resolved before, the placement Place(v, r) of v in the region r    *)
(* the scan found otherwise, r = count + 1 exactly when a region is        *)
(* appended.  The placement is legal because the state it leads to is     *)
(* disjoint.                                                              *)
(***************************************************************************)
LEMMA GetRegionRefines ==
  ASSUME IInv, RegionsDisjoint', NEW v \in Values, GetRegion(v), oracle' = oracle
  PROVE  [Partition!ANext]_Partition!avars
<1> DEFINE n == Len(memoryRegions)
           r == ScanRegion(v)
<1>1. /\ memoryRegions \in Seq(Region)
      /\ n \in Nat
      /\ regionOfValue \in [DOMAIN regionOfValue -> 1..n]
  BY LenProperties DEF IInv, TypeOK
<1>2. /\ Len(memoryRegions') = IF Hits(v) = {} THEN n + 1 ELSE n
      /\ DOMAIN regionOfValue' = DOMAIN regionOfValue \cup {v}
      /\ regionOfValue'[v] = r
      /\ \A x \in DOMAIN regionOfValue \ {v} : regionOfValue'[x] = regionOfValue[x]
      /\ regionOfValue' = [x \in DOMAIN regionOfValue \cup {v} |->
                              IF x = v THEN r ELSE regionOfValue[x]]
  BY <1>1, GetRegionEffect DEF IInv, TypeOK, GetRegion
<1>3. /\ Hits(v) = {} => r = n + 1
      /\ Hits(v) # {} => r \in 1..n
      /\ r \in 1..n + 1
  BY <1>1, ScanRegionFacts DEF Hits
<1>4. CASE v \in DOMAIN regionOfValue
  <2>1. Hits(v) # {} /\ r = regionOfValue[v]
    BY <1>4, ScanAssigned DEF IInv
  <2>2. regionOfValue' = regionOfValue
    BY <1>1, <1>2, <1>4, <2>1
  <2>3. Len(memoryRegions') = n
    BY <1>2, <2>1
  <2>. QED
    BY <2>2, <2>3 DEF Partition!avars
<1>5. CASE v \notin DOMAIN regionOfValue
  <2>1. \A w \in DOMAIN regionOfValue :
           regionOfValue[w] # r =>
             <<v, w>> \notin oracle.alias /\ <<w, v>> \notin oracle.alias
    BY <1>2, <1>5 DEF RegionsDisjoint, NoAlias
  <2>2. Len(memoryRegions') = IF r = n + 1 THEN n + 1 ELSE n
    BY <1>1, <1>2, <1>3
  <2>3. Partition!Place(v, r)
    BY <1>2, <1>3, <1>5, <2>1, <2>2 DEF Partition!Place
  <2>. QED
    BY <1>3, <2>3 DEF Partition!ANext
<1>. QED
  BY <1>4, <1>5

(***************************************************************************)
(* The partitioner implements its abstract specification whenever the      *)
(* alias oracle is an equivalence relation: the assignment regionOfValue   *)
(* and the region count Len(memoryRegions) only ever change by placing a   *)
(* new value, in an existing region or a new last one, apart from every    *)
(* value it may alias.                                                     *)
(***************************************************************************)
THEOREM RefinesPartition == EquivalenceOracles => (Spec => ImplementsPartition)
<1> SUFFICES ASSUME EquivalenceOracles PROVE Spec => ImplementsPartition
  OBVIOUS
<1>1. Init => Partition!AInit
  BY ConstantsAssumption DEF Init, Partition!AInit
<1>2. IInv /\ RegionsDisjoint' /\ [Next]_vars => [Partition!ANext]_Partition!avars
  <2> SUFFICES ASSUME IInv, RegionsDisjoint', [Next]_vars
               PROVE  [Partition!ANext]_Partition!avars
    OBVIOUS
  <2>1. CASE CollectVisit
    <3>1. ModuleOrder[cursor] \in Values
      BY <2>1, ConstantsAssumption, LenProperties DEF CollectVisit, TypeOK, IInv
    <3>. QED
      BY <2>1, <3>1, GetRegionRefines DEF CollectVisit
  <2>2. CASE \E v \in Values : LowerAccess(v)
    BY <2>2, GetRegionRefines DEF LowerAccess
  <2>3. CASE UNCHANGED <<oracle, memoryRegions, regionOfValue>>
    BY <2>3 DEF Partition!avars
  <2>. QED
    BY <2>1, <2>2, <2>3
    DEF Next, vars, CollectSkip, EndCollect, AddModifies, GetPrelude
<1>3. Spec => []IInv
  BY IInvInit, IInvStep, PTL DEF Spec
<1>4. Spec => []RegionsDisjoint
  BY DisjointForEquivalence
<1>. QED
  BY <1>1, <1>2, <1>3, <1>4, PTL DEF ImplementsPartition, Partition!ASpec, Spec

=============================================================================
