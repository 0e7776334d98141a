-------------------------- MODULE ScanNewestProofs --------------------------
(***************************************************************************)
(* What is proved of the monitor's newest-first read, for every listing,   *)
(* page length and set of malformed rows, however filings come and are     *)
(* re-filed between its pages.  Its completeness is proved of a source     *)
(* that keeps the requested order, which is what the code has measured.    *)
(***************************************************************************)
EXTENDS ScanNewest, FiniteSetTheorems, TLAPS

(* A finite set has an element that comes last: no strict subset of it     *)
(* holds the elements from the last one on.                                *)
LEMMA HasLast ==
  ASSUME NEW S, IsFiniteSet(S), S # {}, NEW w \in [S -> Int]
  PROVE  \E x \in S : \A y \in S : w[y] =< w[x]
  <1> DEFINE From(k) == {y \in S : w[y] >= w[k]}
             T == {From(k) : k \in S}
  <1>1. IsWellFoundedOn(StrictSubsetOrdering(S), SUBSET S)
    BY FS_StrictSubsetOrderingWellFounded, FS_FiniteSubsetsOfFinite
  <1>2. T \subseteq SUBSET S /\ T # {}
    <2>1. PICK s \in S : TRUE
      OBVIOUS
    <2>2. From(s) \in T
      BY <2>1
    <2> QED BY <2>2
  <1>3. PICK G \in T : \A H \in T : ~(<<H, G>> \in StrictSubsetOrdering(S))
    <2> HIDE DEF T
    <2> QED BY <1>1, <1>2, WFMin
  <1>4. PICK x \in S : G = From(x)
    OBVIOUS
  <1>5. ASSUME NEW y \in S, ~(w[y] =< w[x]) PROVE FALSE
    <2>1. From(y) \subseteq From(x) /\ x \in From(x) /\ x \notin From(y)
      BY <1>5
    <2>2. <<From(y), G>> \in StrictSubsetOrdering(S)
      BY <1>2, <1>4, <2>1 DEF StrictSubsetOrdering
    <2> QED BY <1>3, <2>2
  <1> QED BY <1>4, <1>5

(* The newest instant of a page and of what was read before it.            *)
LEMMA NewestOfPage ==
  ASSUME NEW V \in SUBSET Filings, NEW t \in Int
  PROVE  LET m == Max({t} \cup {At[f] : f \in V})
         IN  /\ m = t \/ \E f \in V : m = At[f]
             /\ m >= t /\ \A f \in V : m >= At[f]
  <1> DEFINE U == {t} \cup {At[f] : f \in V}
  <1>1. \E x \in U : \A y \in U : x >= y
    <2>1. CASE V = {}
      BY <2>1
    <2>2. CASE V # {}
      <3>1. IsFiniteSet(V) /\ [f \in V |-> At[f]] \in [V -> Int]
        BY FS_Subset, ListingAssumption
      <3>2. PICK x \in V : \A y \in V : At[y] =< At[x]
        <4>1. \E x \in V : \A y \in V : [f \in V |-> At[f]][y] =< [f \in V |-> At[f]][x]
          BY <2>2, <3>1, HasLast
        <4> QED BY <4>1
      <3>3. At[x] \in Int
        BY ListingAssumption
      <3>4. CASE At[x] >= t
        BY <3>2, <3>4
      <3>5. CASE At[x] < t
        <4>1. \A y \in V : At[y] \in Int /\ At[y] =< t
          BY <3>2, <3>3, <3>5, ListingAssumption
        <4> QED BY <4>1
      <3> QED BY <3>3, <3>4, <3>5
    <2> QED BY <2>1, <2>2
  <1>2. Max(U) \in U /\ \A y \in U : Max(U) >= y
    BY <1>1 DEF Max
  <1> QED BY <1>2

LEMMA OldestOfPage ==
  ASSUME NEW V \in SUBSET Filings, V # {}
  PROVE  LET m == Min({At[f] : f \in V})
         IN  (\E f \in V : m = At[f]) /\ \A f \in V : m =< At[f]
  <1> DEFINE U == {At[f] : f \in V}
             w == [f \in V |-> 0 - At[f]]
  <1>1. IsFiniteSet(V) /\ w \in [V -> Int]
    BY FS_Subset, ListingAssumption
  <1>2. PICK x \in V : \A y \in V : w[y] =< w[x]
    BY <1>1, HasLast
  <1>3. \A y \in V : At[x] =< At[y]
    BY <1>2, ListingAssumption
  <1>4. Min(U) \in U /\ \A y \in U : Min(U) =< y
    BY <1>3 DEF Min
  <1> QED BY <1>4

LEMMA LeastOfTwo ==
  ASSUME NEW a \in Int, NEW b \in Int
  PROVE  /\ Min({a, b}) \in {a, b} /\ Min({a, b}) =< a /\ Min({a, b}) =< b
         /\ a =< b => Min({a, b}) = a
  <1>1. \E x \in {a, b} : \A y \in {a, b} : x =< y
    <2>1. CASE a =< b
      BY <2>1
    <2>2. CASE b =< a
      BY <2>2
    <2> QED BY <2>1, <2>2
  <1>2. Min({a, b}) \in {a, b} /\ \A y \in {a, b} : Min({a, b}) =< y
    BY <1>1 DEF Min
  <1> QED BY <1>2

LEMMA GreatestOfTwo ==
  ASSUME NEW a \in Int, NEW b \in Int
  PROVE  Max({a, b}) \in {a, b} /\ Max({a, b}) >= a /\ Max({a, b}) >= b
  <1>1. \E x \in {a, b} : \A y \in {a, b} : x >= y
    <2>1. CASE a >= b
      BY <2>1
    <2>2. CASE b >= a
      BY <2>2
    <2> QED BY <2>1, <2>2
  <1>2. Max({a, b}) \in {a, b} /\ \A y \in {a, b} : Max({a, b}) >= y
    BY <1>1 DEF Max
  <1> QED BY <1>2
-----------------------------------------------------------------------------
(* The filings a read has still to come across, if it is to be complete.   *)
Owed == {f \in Listed : /\ At[f] >= cursor /\ f \notin rows
                        /\ ~Shadowed(f) /\ ~Moving(f)}

(* The listed filings before f's minute, and those of it that were read.   *)
Above(f) == {g \in Listed : At[g] > At[f]}
Level(f) == {g \in Listed \cap seenIds : At[g] = At[f]}

(* A page is full, or the read ends with it.                               *)
Progress == pc = "page" => seenRaw = start /\ (start > 0 => start < total)

(* No filing to come is older than the newest read or the cursor.          *)
InstantsOfFilings ==
  \A t \in {newest, cursor} : t = NoInstant \/ \E g \in published : t = At[g]

Kept == pc = "page" => \A g \in seenIds : At[g] >= cursor => g \in rows

(* What was read when the total was last the read's own stands before      *)
(* whatever the read still owes.                                           *)
Room ==
  pc = "page" /\ start > 0 =>
    \A f \in Owed :
      seenRaw + Cardinality(Listed) =< total + Cardinality(Above(f)) + Cardinality(Level(f))

Whole == pc = "complete" => Owed = {}

NewestInv ==
  /\ TypeOK
  /\ Progress
  /\ InstantsOfFilings
  /\ Kept
  /\ Room
  /\ Whole
  /\ CursorLosesNothing
-----------------------------------------------------------------------------
LEMMA ListedIsFinite ==
  ASSUME TypeOK, NEW S \in SUBSET Listed
  PROVE  IsFiniteSet(S) /\ Cardinality(S) \in Nat /\ Cardinality(S) =< Cardinality(Listed)
  <1>1. IsFiniteSet(Listed)
    <2>1. Listed \in SUBSET Filings
      BY DEF Listed, TypeOK
    <2> QED BY <2>1, FS_Subset, ListingAssumption
  <1> QED BY <1>1, FS_Subset, FS_CardinalityType

(* How many rows a page has.                                               *)
LEMMA PageSize ==
  ASSUME TypeOK, NEW P \in Pages(start, Descending)
  PROVE  LET n == Cardinality(Listed)
         IN  /\ P \subseteq Listed /\ Cardinality(P) \in Nat
             /\ Cardinality(P) =< PageLength
             /\ P = {} \/ Cardinality(P) < PageLength => start + Cardinality(P) >= n
             /\ start =< n => start + Cardinality(P) =< n
             /\ n - Cardinality(P) \in Nat
  <1> DEFINE n == Cardinality(Listed)
             m == Min({PageLength, n - start})
             size == Max({0, m})
  <1>1. P \subseteq Listed /\ Cardinality(P) = size
    BY DEF Pages, kSubset
  <1>2. n \in Nat /\ start \in Nat /\ PageLength \in Nat \ {0} /\ Cardinality(P) \in Nat
    BY <1>1, ListedIsFinite, ListingAssumption DEF TypeOK
  <1>3. m \in Int /\ m =< PageLength /\ m =< n - start /\ m \in {PageLength, n - start}
    <2>1. n - start \in Int /\ PageLength \in Int
      BY <1>2
    <2> HIDE DEF n
    <2>2. m \in {PageLength, n - start} /\ m =< PageLength /\ m =< n - start
      BY ONLY <2>1, LeastOfTwo
    <2> QED BY <2>1, <2>2
  <1>4. size \in {0, m} /\ size >= 0 /\ size >= m
    <2> HIDE DEF m
    <2>1. 0 \in Int
      OBVIOUS
    <2> QED BY ONLY <1>3, <2>1, GreatestOfTwo, Zenon
  <1>5. P = {} => Cardinality(P) = 0
    BY FS_EmptySet
  <1> HIDE DEF n, m, size
  <1>6. /\ size =< PageLength /\ (size < PageLength => start + size >= n)
        /\ (size = 0 => start >= n)
        /\ (start =< n => start + size =< n) /\ size =< n
    BY <1>2, <1>3, <1>4
  <1>7. start + size >= n \/ ~(P = {} \/ size < PageLength)
    BY <1>1, <1>2, <1>4, <1>5, <1>6
  <1> QED BY <1>1, <1>2, <1>6, <1>7 DEF n

(* Of a listing that keeps its order, a page is preceded by as many rows   *)
(* as were asked to be skipped.                                            *)
LEMMA RowsBeforePage ==
  ASSUME TypeOK, Ordered, NEW P \in Pages(start, Descending),
         start =< Cardinality(Listed), P # {}
  PROVE  \E B \in SUBSET (Listed \ P) :
           /\ Cardinality(B) = start
           /\ \A b \in B, p \in P : At[b] >= At[p]
           /\ \A x \in B \cup P, y \in Listed \ (B \cup P) : At[x] >= At[y]
  <1> DEFINE n == Cardinality(Listed)
             size == Max({0, Min({PageLength, n - start})})
  <1>1. Cardinality(P) = size /\ P \subseteq Listed
    BY DEF Pages, kSubset
  <1>2. PICK B \in kSubset(Min({start, n - size}), Listed \ P) :
          /\ \A s \in B, t \in P : Descending[s] =< Descending[t]
          /\ \A s \in B \cup P, t \in Listed \ (B \cup P) : Descending[s] =< Descending[t]
    BY DEF Pages
  <1>3. \A g \in Listed : Descending[g] = 0 - At[g] /\ At[g] \in Nat
    BY ListingAssumption DEF Descending, Listed, TypeOK
  <1>4. start + Cardinality(P) =< n /\ start \in Nat /\ n \in Nat /\ Cardinality(P) \in Nat
    BY PageSize, ListedIsFinite DEF TypeOK
  <1>5. Min({start, n - size}) = start
    <2>1. start =< n - size /\ n - size \in Int
      BY <1>1, <1>4
    <2> HIDE DEF size, n
    <2>2. start \in Int
      BY <1>4
    <2> QED BY ONLY <2>1, <2>2, LeastOfTwo
  <1>6. B \in SUBSET (Listed \ P) /\ Cardinality(B) = start
    BY <1>2, <1>5 DEF kSubset
  <1>7. \A b \in B, p \in P : At[b] >= At[p]
    BY <1>1, <1>2, <1>3, <1>6
  <1>8. \A x \in B \cup P, y \in Listed \ (B \cup P) : At[x] >= At[y]
    BY <1>1, <1>2, <1>3, <1>6
  <1> QED BY <1>6, <1>7, <1>8

-----------------------------------------------------------------------------
(* A page leaves what a read owes behind the rows it has read: either some *)
(* of the page comes before it and then all that precedes the page does,   *)
(* or the page is of its own minute.                                       *)
LEMMA RoomAfterPage ==
  ASSUME TypeOK, Ordered, NEW P \in Pages(start, Descending), start =< Cardinality(Listed),
         NEW f \in Listed, f \notin P, f \notin seenIds, ~Shadowed(f),
         P \cap seenIds = {},
         \/ start =< Cardinality(Above(f)) + Cardinality(Level(f))
         \/ \E y \in P : At[y] > At[f],
         NEW L, L = {g \in Listed \cap (seenIds \cup (P \ Malformed)) : At[g] = At[f]}
  PROVE  /\ start + Cardinality(P) =< Cardinality(Above(f)) + Cardinality(L)
         /\ \A p \in P : At[p] >= At[f]
  <1> DEFINE A == Above(f)
             E == Level(f)
             Same == {p \in P : At[p] = At[f]}
             Other == P \ Same
  <1>1. /\ \A g \in Listed : At[g] \in Nat /\ g \in Filings
        /\ start \in Nat /\ P \subseteq Listed
    BY PageSize, ListingAssumption DEF Listed, TypeOK
  <1>2. \A S \in SUBSET Listed : IsFiniteSet(S) /\ Cardinality(S) \in Nat
    BY ListedIsFinite
  <1>3. \A S \in SUBSET Listed : \A T \in SUBSET S : Cardinality(T) =< Cardinality(S)
    BY <1>2, FS_Subset
  <1>4. \A S \in SUBSET Listed, T \in SUBSET Listed :
           S \cap T = {} => Cardinality(S \cup T) = Cardinality(S) + Cardinality(T)
    <2> SUFFICES ASSUME NEW S \in SUBSET Listed, NEW T \in SUBSET Listed, S \cap T = {}
                 PROVE  Cardinality(S \cup T) = Cardinality(S) + Cardinality(T)
      OBVIOUS
    <2>1. Cardinality(S \cup T) = Cardinality(S) + Cardinality(T) - Cardinality(S \cap T)
      BY <1>2, FS_Union
    <2>2. Cardinality(S \cap T) = 0
      BY FS_EmptySet
    <2> QED BY <1>2, <2>1, <2>2
  <1>5. /\ A \in SUBSET Listed /\ E \in SUBSET Listed /\ L \in SUBSET Listed
        /\ Same \in SUBSET Listed /\ Other \in SUBSET Listed
    BY <1>1 DEF Above, Level
  <1>6. Cardinality(P) = Cardinality(Same) + Cardinality(Other)
    <2>1. P = Same \cup Other /\ Same \cap Other = {}
      OBVIOUS
    <2> HIDE DEF Same, Other
    <2> QED BY <1>4, <1>5, <2>1
  <1>7. Cardinality(E) + Cardinality(Same) =< Cardinality(L)
    <2>1. Same \cap Malformed = {}
      BY DEF Shadowed
    <2>2. E \cup Same \in SUBSET L /\ E \cap Same = {}
      BY <1>1, <2>1 DEF Level
    <2> HIDE DEF E, Same
    <2>3. Cardinality(E \cup Same) = Cardinality(E) + Cardinality(Same)
      BY <1>4, <1>5, <2>2
    <2>4. Cardinality(E \cup Same) =< Cardinality(L)
      BY <1>3, <1>5, <2>2
    <2> QED BY <2>3, <2>4
  <1>8. /\ Cardinality(A) \in Nat /\ Cardinality(E) \in Nat /\ Cardinality(L) \in Nat
        /\ Cardinality(Same) \in Nat /\ Cardinality(Other) \in Nat
    BY <1>2, <1>5
  <1>9. CASE Other = {}
    <2>1. Cardinality(Other) = 0
      BY <1>9, FS_EmptySet
    <2>2. \A p \in P : At[p] = At[f]
      BY <1>9
    <2>3. start =< Cardinality(A) + Cardinality(E)
      BY <1>1, <2>2
    <2>4. \A p \in P : At[p] >= At[f]
      BY <1>1, <2>2
    <2> HIDE DEF A, E, Same, Other
    <2>5. start + Cardinality(P) =< Cardinality(A) + Cardinality(L)
      BY <1>1, <1>6, <1>7, <1>8, <2>1, <2>3
    <2> QED BY <2>4, <2>5 DEF A
  <1>10. CASE Other # {}
    <2>1. PICK q \in P : At[q] # At[f]
      BY <1>10
    <2>2. PICK B \in SUBSET (Listed \ P) :
             /\ Cardinality(B) = start
             /\ \A b \in B, p \in P : At[b] >= At[p]
             /\ \A x \in B \cup P, y \in Listed \ (B \cup P) : At[x] >= At[y]
      BY <2>1, RowsBeforePage
    <2>3. CASE f \notin B
      <3>1. \A p \in P : At[p] >= At[f]
        BY <2>2, <2>3
      <3>2. At[q] > At[f]
        BY <1>1, <2>1, <3>1
      <3>3. \A b \in B : At[b] > At[f]
        BY <1>1, <2>2, <3>2
      <3>4. \A p \in Other : At[p] > At[f]
        BY <1>1, <3>1
      <3>5. B \cup Other \in SUBSET A /\ B \cap Other = {} /\ B \in SUBSET Listed
        BY <1>1, <2>2, <3>3, <3>4 DEF Above
      <3> HIDE DEF A, E, Same, Other
      <3>6. start + Cardinality(Other) =< Cardinality(A)
        <4>1. Cardinality(B \cup Other) = start + Cardinality(Other)
          BY <1>4, <1>5, <2>2, <3>5
        <4>2. Cardinality(B \cup Other) =< Cardinality(A)
          BY <1>3, <1>5, <3>5
        <4> QED BY <4>1, <4>2
      <3>7. start + Cardinality(P) =< Cardinality(A) + Cardinality(L)
        BY <1>1, <1>6, <1>7, <1>8, <3>6
      <3> QED BY <3>1, <3>7 DEF A
    <2>4. CASE f \in B
      <3>1. \A p \in P : At[p] =< At[f]
        BY <1>1, <2>2, <2>4
      <3>2. At[q] < At[f] /\ ~\E y \in P : At[y] > At[f]
        BY <1>1, <2>1, <3>1
      <3>3. \A x \in Listed : At[x] >= At[f] => x \in B \cup P
        BY <1>1, <2>2, <3>2
      <3>4. A \subseteq B
        BY <1>1, <3>1, <3>3 DEF Above
      <3>5. E \subseteq B
        BY <1>1, <3>3 DEF Level
      <3>6. A \cap E = {} /\ f \notin A \cup E
        BY <1>1 DEF Above, Level
      <3> HIDE DEF A, E, Same, Other
      <3>7. Cardinality((A \cup E) \cup {f}) = Cardinality(A) + Cardinality(E) + 1
        <4>1. Cardinality(A \cup E) = Cardinality(A) + Cardinality(E)
          BY <1>4, <1>5, <3>6
        <4>2. IsFiniteSet(A \cup E)
          BY <1>2, <1>5
        <4> QED BY <3>6, <4>1, <4>2, FS_AddElement
      <3>8. (A \cup E) \cup {f} \in SUBSET B /\ B \in SUBSET Listed
        BY <2>2, <2>4, <3>4, <3>5
      <3>9. Cardinality(A) + Cardinality(E) + 1 =< start
        BY <1>3, <2>2, <3>7, <3>8
      <3> QED BY <1>1, <1>8, <3>2, <3>9 DEF A, E
    <2> QED BY <2>3, <2>4
  <1> QED BY <1>9, <1>10
-----------------------------------------------------------------------------
(* A page ends the read, or is counted and kept.                           *)
LEMMA PageOutcome ==
  ASSUME NextPage
  PROVE  /\ pc = "page" /\ UNCHANGED <<published, withdrawn, stood, left, cursor, accounted>>
         /\ \/ /\ pc' \in {"drift", "broken"} /\ total' \in {total, Cardinality(Listed)}
               /\ UNCHANGED <<start, seenRaw, seenIds, rows, previous, newest>>
            \/ \E P \in Pages(start, Descending) :
                 /\ start > 0 => total = Cardinality(Listed)
                 /\ total' = Cardinality(Listed)
                 /\ ~Violates(P \ Malformed) /\ Accept(P)
  BY DEF NextPage, Drifted, read, source, watched

LEMMA PageInstants ==
  ASSUME TypeOK, NEW P \in Pages(start, Descending), Accept(P)
  PROVE  /\ newest' = newest \/ \E y \in P : newest' = At[y]
         /\ previous' = previous \/ \E y \in P : previous' = At[y]
  <1> DEFINE V == P \ Malformed
  <1>1. V \in SUBSET Filings /\ newest \in Int
    BY PageSize, ListingAssumption, NewestAssumption DEF Listed, TypeOK, Instants
  <1>2. newest' = Max({newest} \cup {At[f] : f \in V})
    BY DEF Accept
  <1>3. previous' = previous \/ (V # {} /\ previous' = Min({At[f] : f \in V}))
    BY DEF Accept
  <1> HIDE DEF V
  <1>4. newest' = newest \/ \E y \in V : newest' = At[y]
    BY <1>1, <1>2, NewestOfPage
  <1>5. previous' = previous \/ \E y \in V : previous' = At[y]
    BY <1>1, <1>3, OldestOfPage
  <1> QED BY <1>4, <1>5 DEF V

LEMMA NewestTyped == Init => TypeOK
  BY ListingAssumption, NewestAssumption DEF Init, InitListing, TypeOK, Listed, Instants

LEMMA NewestTypesKept ==
  ASSUME TypeOK, [Next]_vars
  PROVE  TypeOK'
  <1> USE ListingAssumption, NewestAssumption
  <1>1. CASE UNCHANGED vars
    BY <1>1 DEF vars, TypeOK, Listed
  <1>2. CASE Begin
    BY <1>2 DEF Begin, Blank, Watch, source, TypeOK, Listed, Instants
  <1>3. CASE Freeze
    BY <1>3 DEF Freeze, Blank, StopWatching, source, TypeOK, Listed, Instants
  <1>4. CASE Advance
    <2>1. cursor' \in Instants
      <3>1. cursor \in Int /\ newest \in Int
        BY DEF TypeOK, Instants
      <3>2. cursor' \in {cursor, newest}
        BY <1>4, <3>1, GreatestOfTwo DEF Advance
      <3> QED BY <3>2 DEF TypeOK
    <2> QED BY <1>4, <2>1 DEF Advance, Blank, StopWatching, source, TypeOK, Listed, Instants
  <1>5. CASE NextPage
    <2>1. /\ UNCHANGED <<published, withdrawn, stood, left, cursor, accounted>>
          /\ Cardinality(Listed) \in Nat
      BY <1>5, PageOutcome, ListedIsFinite
    <2>2. CASE /\ pc' \in {"drift", "broken"} /\ total' \in {total, Cardinality(Listed)}
               /\ UNCHANGED <<start, seenRaw, seenIds, rows, previous, newest>>
      BY <2>1, <2>2 DEF TypeOK, Listed, Instants
    <2>3. ASSUME NEW P \in Pages(start, Descending), Accept(P),
                 total' = Cardinality(Listed)
          PROVE  TypeOK'
      <3>1. P \subseteq Filings /\ Cardinality(P) \in Nat
        BY PageSize DEF Listed, TypeOK
      <3>2. newest' \in Instants /\ previous' \in Instants
        BY <2>3, <3>1, PageInstants DEF TypeOK, Instants
      <3>3. /\ seenIds' \subseteq Filings \ Malformed /\ rows' \subseteq Filings
            /\ seenRaw' \in Nat /\ start' \in Nat /\ pc' \in {"page", "complete"}
        BY <2>3, <3>1 DEF Accept, TypeOK
      <3> QED BY <2>1, <2>3, <3>2, <3>3 DEF TypeOK, Listed, Instants
    <2> QED BY <1>5, <2>2, <2>3, PageOutcome
  <1>6. ASSUME NEW f \in Filings, Publish(f), UNCHANGED <<pc, read, cursor, accounted>>
        PROVE  TypeOK'
    BY <1>6 DEF Publish, watched, read, TypeOK, Listed, Instants
  <1>7. ASSUME NEW f \in Filings, Withdraw(f), UNCHANGED <<pc, read, cursor, accounted>>
        PROVE  TypeOK'
    BY <1>7 DEF Withdraw, read, TypeOK, Listed, Instants
  <1> QED BY <1>1, <1>2, <1>3, <1>4, <1>5, <1>6, <1>7 DEF Next, ReadStep, SourceStep

(* Every variable of a read keeps its type.                                *)
THEOREM NewestTypeCorrect == Spec => []TypeOK
  <1>1. Init => TypeOK
    BY NewestTyped
  <1>2. TypeOK /\ [Next]_vars => TypeOK'
    BY NewestTypesKept
  <1> QED BY <1>1, <1>2, PTL DEF Spec
-----------------------------------------------------------------------------
(* What is listed next is no older than what was read or promised.         *)
LEMMA NoneIsOlder ==
  ASSUME TypeOK, InstantsOfFilings, NEW g \in Filings, Publish(g)
  PROVE  At[g] >= newest /\ At[g] >= cursor
  <1>1. NoInstant < At[g]
    BY ListingAssumption, NewestAssumption
  <1>2. ASSUME NEW t \in {newest, cursor} PROVE At[g] >= t
    <2>1. CASE t = NoInstant
      BY <1>1, <2>1, ListingAssumption, NewestAssumption
    <2>2. CASE \E h \in published : t = At[h]
      BY <2>2 DEF Publish
    <2> QED BY <1>2, <2>1, <2>2 DEF InstantsOfFilings
  <1> QED BY <1>2

LEMMA PublishedKeeps ==
  ASSUME NewestInv, NEW g \in Filings, Publish(g), UNCHANGED <<pc, read, cursor, accounted>>,
         TypeOK'
  PROVE  NewestInv'
  <1>0. /\ TypeOK /\ Progress /\ InstantsOfFilings /\ Kept /\ Room /\ Whole
        /\ CursorLosesNothing
    BY DEF NewestInv
  <1>1. /\ UNCHANGED <<pc, start, seenRaw, total, seenIds, rows, newest, cursor, accounted>>
        /\ UNCHANGED <<withdrawn, stood, left>> /\ published' = published \cup {g}
        /\ g \notin published /\ \A f \in published : At[f] =< At[g]
    BY DEF Publish, read, watched
  <1>2. At[g] >= newest /\ At[g] >= cursor
    BY <1>0, NoneIsOlder
  <1>3. Listed' = Listed \cup {g} /\ g \notin Listed /\ g \notin stood
    BY <1>0, <1>1 DEF Listed, TypeOK
  <1>4. \A f \in Listed : At[f] \in Nat /\ At[f] =< At[g]
    BY <1>0, <1>1, ListingAssumption DEF Listed, TypeOK
  <1>5. ASSUME NEW f \in Owed' PROVE f \in Owed /\ At[g] > At[f]
    <2>1. /\ f \in Listed' /\ At[f] >= cursor /\ f \notin rows /\ ~Shadowed(f)
          /\ ~(At[f] >= newest /\ \E x \in (Listed' \ stood') \cup left' : At[x] = At[f])
      BY <1>1 DEF Owed, Moving, Shadowed
    <2>2. g \in Listed' \ stood'
      BY <1>1, <1>3
    <2>3. f # g
      BY <1>2, <2>1, <2>2
    <2>4. f \in Listed
      BY <1>3, <2>1, <2>3
    <2>5. ~Moving(f)
      <3>1. (Listed \ stood) \cup left \subseteq (Listed' \ stood') \cup left'
        BY <1>1, <1>3
      <3>2. ~(At[f] >= newest /\ \E x \in (Listed \ stood) \cup left : At[x] = At[f])
        BY <2>1, <3>1
      <3> QED BY <3>2 DEF Moving
    <2>6. At[f] # At[g]
      BY <1>2, <2>1, <2>2
    <2>7. At[g] \in Nat
      BY ListingAssumption
    <2>8. At[g] > At[f]
      BY <1>4, <2>4, <2>6, <2>7
    <2> QED BY <2>1, <2>4, <2>5, <2>8 DEF Owed
  <1>6. Room'
    <2> SUFFICES ASSUME pc = "page", start > 0, NEW f \in Owed'
                 PROVE  seenRaw + Cardinality(Listed')
                          =< total + Cardinality(Above(f)') + Cardinality(Level(f)')
      BY <1>1 DEF Room
    <2>1. f \in Owed /\ At[g] > At[f]
      BY <1>5
    <2>2. seenRaw + Cardinality(Listed) =< total + Cardinality(Above(f)) + Cardinality(Level(f))
      BY <1>0, <2>1 DEF Room
    <2>3. Above(f)' = Above(f) \cup {g} /\ g \notin Above(f)
      BY <1>3, <2>1 DEF Above
    <2>4. Level(f)' = Level(f)
      BY <1>1, <1>3, <1>4, <2>1, ListingAssumption DEF Level
    <2>5. Above(f) \in SUBSET Listed /\ Level(f) \in SUBSET Listed
      BY DEF Above, Level
    <2>6. /\ IsFiniteSet(Above(f)) /\ Cardinality(Above(f)) \in Nat
          /\ IsFiniteSet(Listed) /\ Cardinality(Listed) \in Nat
          /\ Cardinality(Level(f)) \in Nat
      BY <1>0, <2>5, ListedIsFinite
    <2>7. Cardinality(Above(f)') = Cardinality(Above(f)) + 1
      BY <2>3, <2>6, FS_AddElement
    <2>8. Cardinality(Listed') = Cardinality(Listed) + 1
      BY <1>3, <2>6, FS_AddElement
    <2>9. seenRaw \in Nat /\ total \in Nat
      BY <1>0 DEF TypeOK
    <2> QED BY <2>2, <2>4, <2>6, <2>7, <2>8, <2>9
  <1>7. Whole'
    BY <1>0, <1>1, <1>5 DEF Whole
  <1>8. CursorLosesNothing'
    <2> SUFFICES ASSUME NEW f \in Listed', At[f] < cursor
                 PROVE  f \in accounted \/ Shadowed(f)
      BY <1>1 DEF CursorLosesNothing, Shadowed
    <2>1. cursor \in Int /\ At[g] \in Int
      BY <1>0, ListingAssumption, NewestAssumption DEF TypeOK, Instants
    <2>2. f # g
      BY <1>2, <2>1
    <2> QED BY <1>0, <1>3, <2>2 DEF CursorLosesNothing
  <1>9. Progress' /\ InstantsOfFilings' /\ Kept'
    BY <1>0, <1>1 DEF Progress, InstantsOfFilings, Kept
  <1> QED BY <1>6, <1>7, <1>8, <1>9 DEF NewestInv

LEMMA WithdrawnKeeps ==
  ASSUME NewestInv, NEW h \in Filings, Withdraw(h), UNCHANGED <<pc, read, cursor, accounted>>,
         TypeOK'
  PROVE  NewestInv'
  <1>0. /\ TypeOK /\ Progress /\ InstantsOfFilings /\ Kept /\ Room /\ Whole
        /\ CursorLosesNothing
    BY DEF NewestInv
  <1>1. /\ UNCHANGED <<pc, start, seenRaw, total, seenIds, rows, newest, cursor, accounted>>
        /\ published' = published /\ withdrawn' = withdrawn \cup {h}
        /\ stood' = stood \ {h} /\ left' = left \cup {h} /\ h \in Listed
    BY DEF Withdraw, read
  <1>2. Listed' = Listed \ {h}
    BY <1>1 DEF Listed
  <1>3. Owed' \subseteq Owed
    BY <1>1, <1>2 DEF Owed, Moving, Shadowed
  <1>4. Room'
    <2> SUFFICES ASSUME pc = "page", start > 0, NEW f \in Owed'
                 PROVE  seenRaw + Cardinality(Listed')
                          =< total + Cardinality(Above(f)') + Cardinality(Level(f)')
      BY <1>1 DEF Room
    <2> DEFINE A == Above(f)
               E == Level(f)
    <2>1. seenRaw + Cardinality(Listed) =< total + Cardinality(A) + Cardinality(E)
      BY <1>0, <1>3 DEF Room
    <2>2. Above(f)' = A \ {h} /\ Level(f)' = E \ {h}
      BY <1>1, <1>2 DEF Above, Level
    <2>3. h \notin A \/ h \notin E
      BY <1>0, <1>3, ListingAssumption DEF Above, Level, Owed, Listed, TypeOK
    <2>4. A \in SUBSET Listed /\ E \in SUBSET Listed
      BY DEF Above, Level
    <2> HIDE DEF A, E
    <2>5. /\ IsFiniteSet(A) /\ Cardinality(A) \in Nat
          /\ IsFiniteSet(E) /\ Cardinality(E) \in Nat
          /\ IsFiniteSet(Listed) /\ Cardinality(Listed) \in Nat
      BY <1>0, <2>4, ListedIsFinite
    <2>6. Cardinality(A \ {h}) = IF h \in A THEN Cardinality(A) - 1 ELSE Cardinality(A)
      BY <2>5, FS_RemoveElement
    <2>7. Cardinality(E \ {h}) = IF h \in E THEN Cardinality(E) - 1 ELSE Cardinality(E)
      BY <2>5, FS_RemoveElement
    <2>8. Cardinality(Listed') = Cardinality(Listed) - 1
      BY <1>1, <1>2, <2>5, FS_RemoveElement
    <2>9. seenRaw \in Nat /\ total \in Nat
      BY <1>0 DEF TypeOK
    <2> QED BY <2>1, <2>2, <2>3, <2>5, <2>6, <2>7, <2>8, <2>9
  <1>5. Whole'
    BY <1>0, <1>1, <1>3 DEF Whole
  <1>6. CursorLosesNothing'
    BY <1>0, <1>1, <1>2 DEF CursorLosesNothing, Shadowed
  <1>7. Progress' /\ InstantsOfFilings' /\ Kept'
    BY <1>0, <1>1 DEF Progress, InstantsOfFilings, Kept
  <1> QED BY <1>4, <1>5, <1>6, <1>7 DEF NewestInv
-----------------------------------------------------------------------------
(* A page that is kept keeps the invariant: above all, the read does not   *)
(* end while it owes a filing.                                             *)
LEMMA PageKeeps ==
  ASSUME NewestInv, Ordered, pc = "page", NEW P \in Pages(start, Descending),
         start > 0 => total = Cardinality(Listed), total' = Cardinality(Listed),
         ~Violates(P \ Malformed), Accept(P),
         UNCHANGED <<published, withdrawn, stood, left, cursor, accounted>>, TypeOK'
  PROVE  NewestInv'
  <1> DEFINE n == Cardinality(Listed)
             V == P \ Malformed
             L(f) == {g \in Listed \cap (seenIds \cup V) : At[g] = At[f]}
  <1>0. /\ TypeOK /\ Progress /\ InstantsOfFilings /\ Kept /\ Room /\ CursorLosesNothing
    BY DEF NewestInv
  <1>1. /\ n \in Nat /\ start \in Nat /\ seenRaw = start /\ start =< n
        /\ PageLength \in Nat /\ total' = n
    BY <1>0, ListedIsFinite, ListingAssumption DEF Progress, TypeOK
  <1>2. /\ P \subseteq Listed /\ Cardinality(P) \in Nat /\ Cardinality(P) =< PageLength
        /\ P = {} \/ Cardinality(P) < PageLength => start + Cardinality(P) >= n
    BY <1>0, PageSize
  <1>3. /\ seenIds' = seenIds \cup V /\ seenRaw' = start + Cardinality(P)
        /\ rows' = rows \cup {f \in P : f \in Malformed \/ At[f] >= cursor}
        /\ pc' \in {"page", "complete"}
    BY <1>1 DEF Accept
  <1>4. pc' = "page" => /\ \A f \in V : ~(At[f] < cursor)
                        /\ P # {} /\ ~(Cardinality(P) < PageLength)
                        /\ ~(seenRaw' >= total') /\ start' = start + PageLength
    BY DEF Accept
  <1>5. \/ pc' = "page"
        \/ \E f \in V : At[f] < cursor
        \/ P = {} \/ Cardinality(P) < PageLength \/ seenRaw' >= total'
    BY DEF Accept
  <1>6. newest' = newest \/ \E y \in P : newest' = At[y]
    BY <1>0, PageInstants
  <1>7. P \cap seenIds = {}
    BY <1>0 DEF Violates, TypeOK
  <1>8. Listed' = Listed
    BY DEF Listed
  <1>9. ASSUME NEW f \in Owed'
        PROVE  /\ seenRaw' =< Cardinality(Above(f)) + Cardinality(L(f))
               /\ \A p \in P : At[p] >= At[f]
               /\ f \in Listed /\ f \notin seenIds \cup P /\ At[f] >= cursor
    <2>1. /\ f \in Listed /\ At[f] >= cursor /\ f \notin rows' /\ ~Shadowed(f)
          /\ ~(At[f] >= newest' /\ \E g \in (Listed \ stood) \cup left : At[g] = At[f])
      BY <1>8 DEF Owed, Moving, Shadowed
    <2>2. f \notin rows /\ f \notin P
      BY <1>3, <2>1
    <2>3. f \notin seenIds
      BY <1>0, <2>1, <2>2 DEF Kept
    <2>4. At[f] \in Int /\ newest \in Int
      BY <1>0, <2>1, ListingAssumption, NewestAssumption DEF Listed, TypeOK, Instants
    <2>5. Cardinality(Above(f)) \in Nat /\ Cardinality(Level(f)) \in Nat
      <3>1. Above(f) \in SUBSET Listed /\ Level(f) \in SUBSET Listed
        BY DEF Above, Level
      <3> QED BY <1>0, <3>1, ListedIsFinite
    <2>6. \/ start =< Cardinality(Above(f)) + Cardinality(Level(f))
          \/ \E y \in P : At[y] > At[f]
      <3>1. CASE start = 0
        BY <2>5, <3>1
      <3>2. CASE start > 0 /\ ~Moving(f)
        <4>1. f \in Owed
          BY <2>1, <2>2, <3>2 DEF Owed
        <4>2. start + n =< n + Cardinality(Above(f)) + Cardinality(Level(f))
          BY <1>0, <1>1, <3>2, <4>1 DEF Room
        <4> HIDE DEF n
        <4> QED BY <1>1, <2>5, <4>2
      <3>3. CASE Moving(f)
        <4>1. At[f] >= newest /\ ~(At[f] >= newest')
          BY <2>1, <3>3 DEF Moving
        <4>2. PICK y \in P : newest' = At[y]
          BY <1>6, <4>1
        <4>3. At[y] \in Int
          BY <1>0, <1>2, ListingAssumption DEF Listed, TypeOK
        <4> QED BY <2>4, <4>1, <4>2, <4>3
      <3> QED BY <1>1, <3>1, <3>2, <3>3
    <2>7. /\ start + Cardinality(P) =< Cardinality(Above(f)) + Cardinality(L(f))
          /\ \A p \in P : At[p] >= At[f]
      BY <1>0, <1>1, <1>7, <2>1, <2>2, <2>3, <2>6, RoomAfterPage
    <2> QED BY <1>3, <2>1, <2>2, <2>3, <2>7
  <1>10. ASSUME NEW f \in Owed'
         PROVE  /\ Cardinality(Above(f)) \in Nat /\ Cardinality(L(f)) \in Nat
                /\ Cardinality(Above(f)) + Cardinality(L(f)) + 1 =< n
    <2> DEFINE A == Above(f)
               M == L(f)
    <2>0. \A g \in Listed : At[g] \in Nat
      BY <1>0, ListingAssumption DEF Listed, TypeOK
    <2>1. /\ A \in SUBSET Listed /\ M \in SUBSET Listed /\ A \cap M = {}
          /\ f \in Listed /\ f \notin A \cup M
      <3>1. f \in Listed /\ f \notin seenIds \cup P
        BY <1>9
      <3> QED BY <2>0, <3>1 DEF Above
    <2>2. (A \cup M) \cup {f} \in SUBSET Listed
      BY <2>1
    <2> HIDE DEF A, M
    <2>3. /\ IsFiniteSet(A) /\ Cardinality(A) \in Nat
          /\ IsFiniteSet(M) /\ Cardinality(M) \in Nat
      BY <1>0, <2>1, ListedIsFinite
    <2>4. IsFiniteSet(A \cup M) /\ Cardinality(A \cup M) = Cardinality(A) + Cardinality(M)
      <3>1. Cardinality(A \cap M) = 0
        BY <2>1, FS_EmptySet
      <3>2. /\ IsFiniteSet(A \cup M)
            /\ Cardinality(A \cup M) = Cardinality(A) + Cardinality(M) - Cardinality(A \cap M)
        BY <2>3, FS_Union
      <3> QED BY <2>3, <3>1, <3>2
    <2>5. Cardinality((A \cup M) \cup {f}) = Cardinality(A \cup M) + 1
      BY <2>1, <2>4, FS_AddElement
    <2>6. Cardinality((A \cup M) \cup {f}) =< n
      BY <1>0, <2>2, ListedIsFinite
    <2>7. Cardinality(A) + Cardinality(M) + 1 =< n
      BY <2>4, <2>5, <2>6
    <2> QED BY <2>3, <2>7 DEF A, M
  <1>11. Room'
    <2> SUFFICES ASSUME pc' = "page", NEW f \in Owed'
                 PROVE  seenRaw' + n =< n + Cardinality(Above(f)) + Cardinality(Level(f)')
      BY <1>1, <1>8 DEF Room, Above
    <2>1. Level(f)' = L(f)
      BY <1>3, <1>8 DEF Level
    <2>2. seenRaw' =< Cardinality(Above(f)) + Cardinality(L(f))
      BY <1>9
    <2>3. Cardinality(Above(f)) \in Nat /\ Cardinality(L(f)) \in Nat /\ seenRaw' \in Nat
      BY <1>10 DEF TypeOK
    <2> HIDE DEF n, L
    <2> QED BY <1>1, <2>1, <2>2, <2>3
  <1>12. Whole'
    <2> SUFFICES ASSUME pc' = "complete", NEW f \in Owed'
                 PROVE  FALSE
      BY DEF Whole
    <2>1. ~(seenRaw' >= n)
      <3>1. seenRaw' =< Cardinality(Above(f)) + Cardinality(L(f))
        BY <1>9
      <3>2. /\ Cardinality(Above(f)) \in Nat /\ Cardinality(L(f)) \in Nat
            /\ Cardinality(Above(f)) + Cardinality(L(f)) + 1 =< n
        BY <1>10
      <3>3. seenRaw' \in Nat
        BY DEF TypeOK
      <3> HIDE DEF n, L
      <3> QED BY <1>1, <3>1, <3>2, <3>3
    <2>2. \A p \in P : ~(At[p] < cursor)
      <3>1. f \in Listed /\ At[f] >= cursor /\ \A p \in P : At[p] >= At[f]
        BY <1>9
      <3>2. \A g \in Listed : At[g] \in Int
        BY <1>0, ListingAssumption DEF Listed, TypeOK
      <3>3. cursor \in Int
        BY <1>0, ListingAssumption, NewestAssumption DEF TypeOK, Instants
      <3> QED BY <1>2, <3>1, <3>2, <3>3
    <2>3. ~(P = {} \/ Cardinality(P) < PageLength \/ seenRaw' >= total')
      BY <1>1, <1>2, <1>3, <2>1
    <2> QED BY <1>5, <2>2, <2>3
  <1>13. Progress'
    BY <1>1, <1>2, <1>3, <1>4 DEF Progress
  <1>14. InstantsOfFilings'
    BY <1>0, <1>2, <1>6 DEF InstantsOfFilings, Listed
  <1>15. Kept'
    BY <1>0, <1>3 DEF Kept
  <1>16. CursorLosesNothing'
    BY <1>0, <1>8 DEF CursorLosesNothing, Shadowed
  <1> QED BY <1>11, <1>12, <1>13, <1>14, <1>15, <1>16 DEF NewestInv

LEMMA AdvanceKeeps ==
  ASSUME NewestInv, Advance, TypeOK'
  PROVE  NewestInv'
  <1>0. TypeOK /\ InstantsOfFilings /\ Whole /\ CursorLosesNothing
    BY DEF NewestInv
  <1>1. /\ pc = "complete" /\ pc' = "idle" /\ newest' = NoInstant
        /\ cursor' = Max({cursor, newest}) /\ accounted' = accounted \cup rows
        /\ published' = published /\ withdrawn' = withdrawn
    BY DEF Advance, Blank, source
  <1>2. cursor \in Int /\ newest \in Int /\ \A f \in Listed : At[f] \in Int
    BY <1>0, ListingAssumption, NewestAssumption DEF Listed, TypeOK, Instants
  <1>3. cursor' \in {cursor, newest}
    BY <1>1, <1>2, GreatestOfTwo
  <1>4. InstantsOfFilings'
    BY <1>0, <1>1, <1>3 DEF InstantsOfFilings
  <1>5. CursorLosesNothing'
    <2> SUFFICES ASSUME NEW f \in Listed, At[f] < cursor'
                 PROVE  f \in accounted' \/ Shadowed(f)
      BY <1>1 DEF CursorLosesNothing, Listed, Shadowed
    <2>1. CASE At[f] < cursor
      BY <1>0, <1>1, <2>1 DEF CursorLosesNothing
    <2>2. CASE ~(At[f] < cursor)
      <3>1. At[f] >= cursor /\ ~(At[f] >= newest)
        BY <1>2, <1>3, <2>2
      <3>2. f \notin Owed
        BY <1>0, <1>1 DEF Whole
      <3> QED BY <1>1, <3>1, <3>2 DEF Owed, Moving
    <2> QED BY <2>1, <2>2
  <1>6. Progress' /\ Kept' /\ Room' /\ Whole'
    BY <1>1 DEF Progress, Kept, Room, Whole
  <1> QED BY <1>4, <1>5, <1>6 DEF NewestInv

LEMMA NewestInvKept ==
  ASSUME Ordered, NewestInv, [Next]_vars
  PROVE  NewestInv'
  <1>0. /\ TypeOK /\ Progress /\ InstantsOfFilings /\ Kept /\ Room /\ Whole
        /\ CursorLosesNothing
    BY DEF NewestInv
  <1>1. TypeOK'
    BY <1>0, NewestTypesKept
  <1>2. CASE UNCHANGED vars
    <2>1. Room' /\ Whole'
      BY <1>0, <1>2 DEF vars, Room, Whole, Owed, Above, Level, Listed, Shadowed, Moving
    <2>2. Progress' /\ InstantsOfFilings' /\ Kept' /\ CursorLosesNothing'
      BY <1>0, <1>2 DEF vars, Progress, InstantsOfFilings, Kept, CursorLosesNothing, Listed,
         Shadowed
    <2> QED BY <1>1, <2>1, <2>2 DEF NewestInv
  <1>3. ASSUME pc' \notin {"page", "complete"}, newest' \in {newest, NoInstant},
               UNCHANGED <<published, withdrawn, cursor, accounted>>
        PROVE  NewestInv'
    <2>1. Progress' /\ Kept' /\ Room' /\ Whole'
      BY <1>3 DEF Progress, Kept, Room, Whole
    <2>2. InstantsOfFilings' /\ CursorLosesNothing'
      BY <1>0, <1>3 DEF InstantsOfFilings, CursorLosesNothing, Listed, Shadowed
    <2> QED BY <1>1, <2>1, <2>2 DEF NewestInv
  <1>4. CASE Begin
    <2>1. /\ pc' = "page" /\ start' = 0 /\ seenRaw' = 0 /\ seenIds' = {}
          /\ newest' = NoInstant /\ UNCHANGED <<published, withdrawn, cursor, accounted>>
      BY <1>4 DEF Begin, Blank, source
    <2>2. Progress' /\ Kept' /\ Room' /\ Whole'
      BY <2>1 DEF Progress, Kept, Room, Whole
    <2>3. InstantsOfFilings' /\ CursorLosesNothing'
      BY <1>0, <2>1 DEF InstantsOfFilings, CursorLosesNothing, Listed, Shadowed
    <2> QED BY <1>1, <2>2, <2>3 DEF NewestInv
  <1>5. CASE NextPage
    <2>1. pc = "page" /\ UNCHANGED <<published, withdrawn, stood, left, cursor, accounted>>
      BY <1>5, PageOutcome
    <2>2. CASE pc' \in {"drift", "broken"} /\ newest' = newest
      BY <1>3, <2>1, <2>2
    <2>3. ASSUME NEW P \in Pages(start, Descending),
                 start > 0 => total = Cardinality(Listed), total' = Cardinality(Listed),
                 ~Violates(P \ Malformed), Accept(P)
          PROVE  NewestInv'
      BY <1>1, <2>1, <2>3, PageKeeps
    <2> QED BY <1>5, <2>2, <2>3, PageOutcome
  <1>6. CASE Freeze
    BY <1>3, <1>6 DEF Freeze, Blank, source
  <1>7. CASE Advance
    BY <1>1, <1>7, AdvanceKeeps
  <1>8. CASE SourceStep /\ UNCHANGED <<pc, read, cursor, accounted>>
    BY <1>1, <1>8, PublishedKeeps, WithdrawnKeeps DEF SourceStep
  <1> QED BY <1>2, <1>4, <1>5, <1>6, <1>7, <1>8 DEF Next, ReadStep

(* The inductive invariant, of a source that keeps the requested order.    *)
THEOREM NewestInvHolds ==
  ASSUME Ordered
  PROVE  Spec => []NewestInv
  <1>1. Init => NewestInv
    <2> SUFFICES ASSUME Init PROVE NewestInv
      OBVIOUS
    <2>1. /\ pc = "idle" /\ newest = NoInstant /\ cursor = NoInstant
      BY DEF Init
    <2>2. CursorLosesNothing
      <3>1. \A f \in Listed : At[f] \in Nat
        BY NewestTyped, ListingAssumption DEF Listed, TypeOK
      <3> QED BY <2>1, <3>1, NewestAssumption DEF CursorLosesNothing
    <2> QED BY <2>1, <2>2, NewestTyped
            DEF NewestInv, Progress, InstantsOfFilings, Kept, Room, Whole
  <1>2. NewestInv /\ [Next]_vars => NewestInv'
    BY NewestInvKept
  <1> QED BY <1>1, <1>2, PTL DEF Spec

(* A complete read is complete but for the newest minute: no filing that   *)
(* was listed all the while escapes the drift and identity checks.         *)
THEOREM CompleteReadKeepsAll ==
  ASSUME Ordered
  PROVE  Spec => []CompleteKeepsAll
  <1>1. NewestInv => CompleteKeepsAll
    BY DEF NewestInv, TypeOK, Whole, Owed, CompleteKeepsAll
  <1> QED BY <1>1, NewestInvHolds, PTL

(* Over any number of reads, complete or not, the cursor passes no listed  *)
(* filing that was not handed over.                                        *)
THEOREM CursorNeverLoses ==
  ASSUME Ordered
  PROVE  Spec => []CursorLosesNothing
  <1>1. NewestInv => CursorLosesNothing
    BY DEF NewestInv
  <1> QED BY <1>1, NewestInvHolds, PTL
=============================================================================
