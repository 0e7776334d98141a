----------------------------- MODULE ScanProofs -----------------------------
(***************************************************************************)
(* The scan's verdict, for any listing, page length and number of          *)
(* attempts, however the source orders its pages: type correctness, how    *)
(* much a complete scan can have missed, and that it missed nothing where  *)
(* nothing is re-filed.                                                    *)
(***************************************************************************)
EXTENDS Scan, FiniteSetTheorems, TLAPS

LEMMA MaxOfTwo ==
  ASSUME NEW a \in Nat, NEW b \in Nat
  PROVE  Max({a, b}) \in {a, b} /\ Max({a, b}) >= a /\ Max({a, b}) >= b
<1>1. \E x \in {a, b} : \A y \in {a, b} : x >= y
  <2>1. CASE a >= b
    BY <2>1
  <2>2. CASE b >= a
    BY <2>2
  <2> QED
    BY <2>1, <2>2
<1> DEFINE m == CHOOSE x \in {a, b} : \A y \in {a, b} : x >= y
<1>2. m \in {a, b} /\ \A y \in {a, b} : m >= y
  BY <1>1
<1>3. Max({a, b}) = m
  BY DEF Max
<1> QED
  BY <1>2, <1>3

(* A page holds listed filings only, and finitely many.                    *)
LEMMA PageIsListed ==
  ASSUME TypeOK, NEW rank, NEW P \in Pages(start, rank)
  PROVE  P \subseteq Listed /\ Cardinality(P) \in Nat
<1>1. P \subseteq Listed
  BY DEF Pages, kSubset
<1>2. IsFiniteSet(P)
  <2>1. P \in SUBSET Filings
    BY <1>1 DEF Listed, TypeOK
  <2> QED
    BY <2>1, FS_Subset, ListingAssumption
<1> QED
  BY <1>1, <1>2, FS_CardinalityType

LEMMA ListedIsFinite ==
  ASSUME TypeOK
  PROVE  IsFiniteSet(Listed) /\ Cardinality(Listed) \in Nat
<1>1. Listed \in SUBSET Filings
  BY DEF Listed, TypeOK
<1> QED
  BY <1>1, FS_Subset, FS_CardinalityType, ListingAssumption

LEMMA Typed == Init => TypeOK
BY ListingAssumption, ScanAssumption DEF Init, InitListing, TypeOK, Listed

LEMMA TypeKept == TypeOK /\ [Next]_vars => TypeOK'
<1> SUFFICES ASSUME TypeOK, [Next]_vars PROVE TypeOK'
  OBVIOUS
<1> USE ListingAssumption, ScanAssumption
<1>1. CASE UNCHANGED vars
  BY <1>1 DEF vars, TypeOK, Listed
<1>2. ASSUME NEW n \in 1..MaxScanAttempts, Attempt(n) PROVE TypeOK'
  BY <1>2 DEF Attempt, Watch, TypeOK, Listed, source
<1>3. CASE Begin
  BY <1>2, <1>3 DEF Begin
<1>4. CASE NextPage
  <2>1. PICK P \in Pages(start, Ascending) :
          /\ got' = got \cup P
          /\ seen' = seen + Cardinality(P)
          /\ total' = Max({total, Cardinality(Listed)})
          /\ \/ pc' = "judge" /\ UNCHANGED start
             \/ pc' = "page" /\ start' = start + PageLength
    BY <1>4 DEF NextPage
  <2>2. P \subseteq Filings /\ Cardinality(P) \in Nat
    BY PageIsListed DEF Listed, TypeOK
  <2>3. total' \in Nat
    BY <2>1, MaxOfTwo, ListedIsFinite DEF TypeOK
  <2>4. UNCHANGED <<source, watched, attempt>>
    BY <1>4 DEF NextPage
  <2> QED
    BY <2>1, <2>2, <2>3, <2>4 DEF TypeOK, Listed, source, watched
<1>5. CASE Finish
  BY <1>5 DEF Finish, TypeOK, Listed, source, watched
<1>6. CASE Rescan
  BY <1>2, <1>6 DEF Rescan, TypeOK
<1>7. CASE RequestFails \/ Return
  BY <1>7 DEF RequestFails, Return, Reset, StopWatching, TypeOK, Listed, source
<1>8. CASE SourceStep /\ UNCHANGED scanVars
  BY <1>8 DEF SourceStep, Publish, Withdraw, scanVars, TypeOK, Listed, watched
<1> QED
  BY <1>1, <1>3, <1>4, <1>5, <1>6, <1>7, <1>8 DEF Next, ScanStep

(* Type correctness of the scan.                                           *)
THEOREM ScanTyped == Spec => []TypeOK
<1>1. Init => TypeOK
  BY Typed
<1>2. TypeOK /\ [Next]_vars => TypeOK'
  BY TypeKept
<1> QED
  BY <1>1, <1>2, PTL DEF Spec
-----------------------------------------------------------------------------
(* What was listed at the last request: everything collected is in it or   *)
(* has left, and everything that stood from the first request is in it.    *)
Witnessed ==
  /\ got \subseteq Listed \cup left
  /\ pc \in {"judge", "done"} =>
       \E L \in SUBSET published :
         got \subseteq L \cup left /\ stood \subseteq L /\ Cardinality(L) =< total

LEMMA WitnessKept == TypeOK /\ Witnessed /\ [Next]_vars => Witnessed'
<1> SUFFICES ASSUME TypeOK, Witnessed, [Next]_vars PROVE Witnessed'
  OBVIOUS
<1>1. CASE UNCHANGED vars
  BY <1>1 DEF vars, Witnessed, Listed
<1>2. ASSUME NEW n, Attempt(n) PROVE Witnessed'
  BY <1>2 DEF Attempt, Witnessed
<1>3. CASE Begin \/ Rescan
  BY <1>2, <1>3 DEF Begin, Rescan
<1>4. CASE NextPage
  <2>1. PICK P \in Pages(start, Ascending) :
          /\ got' = got \cup P
          /\ total' = Max({total, Cardinality(Listed)})
    BY <1>4 DEF NextPage
  <2>2. UNCHANGED <<published, withdrawn, stood, left>>
    BY <1>4 DEF NextPage, source, watched
  <2>3. got' \subseteq Listed \cup left
    BY <2>1, PageIsListed DEF Witnessed
  <2>4. Listed \in SUBSET published /\ stood \subseteq Listed
    BY DEF TypeOK, Listed
  <2>5. Cardinality(Listed) =< total'
    BY <2>1, MaxOfTwo, ListedIsFinite DEF TypeOK
  <2> QED
    BY <2>2, <2>3, <2>4, <2>5 DEF Witnessed, Listed
<1>5. CASE Finish
  BY <1>5 DEF Finish, Witnessed, source, watched, Listed
<1>6. CASE RequestFails \/ Return
  BY <1>6 DEF RequestFails, Return, Reset, Witnessed
<1>7. CASE SourceStep /\ UNCHANGED scanVars
  <2>1. PICK f \in Filings : Publish(f) \/ Withdraw(f)
    BY <1>7 DEF SourceStep
  <2>2. published \subseteq published' /\ left \subseteq left' /\ stood' \subseteq stood
    BY <2>1 DEF Publish, Withdraw, watched
  <2>3. Listed \cup left \subseteq (Listed \cup left)'
    BY <2>1 DEF Publish, Withdraw, watched, Listed, TypeOK
  <2> QED
    BY <1>7, <2>2, <2>3 DEF scanVars, Witnessed
<1> QED
  BY <1>1, <1>3, <1>4, <1>5, <1>6, <1>7 DEF Next, ScanStep

LEMMA WitnessHolds == Spec => []Witnessed
<1>1. Init => Witnessed
  BY DEF Init, Witnessed
<1> QED
  BY <1>1, WitnessKept, ScanTyped, PTL DEF Spec

(* Of two finite sets the one that is not smaller lacks no more of the     *)
(* other than it has besides.                                              *)
LEMMA LargerLacksLess ==
  ASSUME NEW S, NEW T, IsFiniteSet(S), IsFiniteSet(T), Cardinality(S) =< Cardinality(T)
  PROVE  Cardinality(S \ T) =< Cardinality(T \ S)
<1>1. Cardinality(S \ T) = Cardinality(S) - Cardinality(S \cap T)
  BY FS_Difference
<1>2. Cardinality(T \ S) = Cardinality(T) - Cardinality(S \cap T)
  <2>1. T \cap S = S \cap T
    OBVIOUS
  <2> QED
    BY <2>1, FS_Difference
<1>3. \A a, b, c \in Int : a =< b => a - c =< b - c
  OBVIOUS
<1>4. Cardinality(S) \in Int /\ Cardinality(T) \in Int /\ Cardinality(S \cap T) \in Int
  <2>1. IsFiniteSet(S \cap T)
    BY FS_Intersection
  <2> QED
    BY <2>1, FS_CardinalityType
<1>5. Cardinality(S) - Cardinality(S \cap T) =< Cardinality(T) - Cardinality(S \cap T)
  BY <1>3, <1>4
<1> QED
  BY <1>1, <1>2, <1>5

(* A scan that counts as many distinct filings as the source ever said     *)
(* there were lacks at most one for each that it read and that has left    *)
(* since, with filings arriving meanwhile and pages in any order.          *)
THEOREM CompleteScanCounts == Spec => []CompleteMissesNoMore
<1>1. TypeOK /\ Witnessed => CompleteMissesNoMore
  <2> SUFFICES ASSUME TypeOK, Witnessed, pc = "done", Complete
               PROVE  Cardinality(stood \ got) =< Cardinality(got \cap left)
    BY DEF CompleteMissesNoMore
  <2>1. PICK L \in SUBSET published :
          got \subseteq L \cup left /\ stood \subseteq L /\ Cardinality(L) =< total
    BY DEF Witnessed
  <2>2. IsFiniteSet(L) /\ IsFiniteSet(got)
    BY FS_Subset, ListingAssumption DEF TypeOK
  <2>3. Cardinality(L) =< Cardinality(got)
    BY <2>1, <2>2, FS_CardinalityType DEF Complete, TypeOK
  <2>4. Cardinality(L \ got) =< Cardinality(got \ L)
    BY <2>2, <2>3, LargerLacksLess
  <2>5. IsFiniteSet(L \ got) /\ IsFiniteSet(got \cap left) /\ IsFiniteSet(got \ L)
    BY <2>2, FS_Subset
  <2>6. Cardinality(stood \ got) =< Cardinality(L \ got)
    BY <2>1, <2>5, FS_Subset
  <2>7. Cardinality(got \ L) =< Cardinality(got \cap left)
    <3>1. got \ L \subseteq got \cap left
      BY <2>1
    <3> QED
      BY <2>5, <3>1, FS_Subset
  <2>8. IsFiniteSet(stood \ got)
    BY <2>1, <2>2, FS_Subset
  <2> QED
    BY <2>4, <2>5, <2>6, <2>7, <2>8, FS_CardinalityType
<1> QED
  BY <1>1, ScanTyped, WitnessHolds, PTL
-----------------------------------------------------------------------------
NoRefiling == \A f \in Filings : Refiles[f] = None

(* While nothing is re-filed nothing leaves, and a complete scan has all   *)
(* that was listed throughout.                                             *)
THEOREM CompleteScanMissesNothing ==
  ASSUME NoRefiling
  PROVE  Spec => [](pc = "done" /\ Complete => stood \subseteq got)
<1>1. Init => withdrawn = {}
  <2> SUFFICES ASSUME Init PROVE withdrawn = {}
    OBVIOUS
  <2>1. published \subseteq Filings
    BY DEF Init, InitListing
  <2>2. \A f \in Filings, g \in published : Refiles[g] # f
    BY <2>1, ListingAssumption DEF NoRefiling
  <2> QED
    BY <2>2 DEF Init, InitListing
<1>2. TypeOK /\ withdrawn = {} /\ [Next]_vars => (withdrawn = {})'
  <2> SUFFICES ASSUME TypeOK, withdrawn = {}, [Next]_vars PROVE withdrawn' = {}
    OBVIOUS
  <2>1. \A f \in Filings : ~Withdraw(f)
    BY ListingAssumption DEF Withdraw, NoRefiling, TypeOK
  <2>2. CASE UNCHANGED source
    BY <2>2 DEF source
  <2>3. CASE SourceStep
    BY <2>1, <2>3 DEF SourceStep, Publish
  <2>4. ScanStep \/ UNCHANGED vars => UNCHANGED source
    BY DEF ScanStep, Begin, NextPage, Finish, Rescan, Attempt, RequestFails, Return, Reset,
       vars, source
  <2> QED
    BY <2>2, <2>3, <2>4 DEF Next
<1>3. ASSUME TypeOK, CompleteMissesNoMore, withdrawn = {}
      PROVE  pc = "done" /\ Complete => stood \subseteq got
  <2> SUFFICES ASSUME pc = "done", Complete PROVE stood \ got = {}
    OBVIOUS
  <2>1. got \cap left = {}
    BY <1>3 DEF TypeOK
  <2>2. IsFiniteSet(stood \ got)
    <3>1. stood \ got \in SUBSET Filings
      BY <1>3 DEF TypeOK, Listed
    <3> QED
      BY <3>1, FS_Subset, ListingAssumption
  <2>3. Cardinality(stood \ got) =< 0
    BY <1>3, <2>1, FS_EmptySet DEF CompleteMissesNoMore
  <2> QED
    BY <2>2, <2>3, FS_EmptySet, FS_CardinalityType
<1> QED
  BY <1>1, <1>2, <1>3, ScanTyped, CompleteScanCounts, PTL DEF Spec
=============================================================================
