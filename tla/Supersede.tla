----------------------------- MODULE Supersede ------------------------------
(***************************************************************************)
(* Which filing replaces which: pipeline/supersede.py.  Rule R1 groups the *)
(* filings of one document id, rule R2 those of one key; in each group the *)
(* highest version replaces every strictly lower one.                      *)
(***************************************************************************)
EXTENDS Manifest

CorrelatableStates == PendingStates \cup {"available"}

(* correlatable_in_window, with the window as [first, last].               *)
Correlatable(rows, first, last) ==
  {d \in Docs : /\ ~rows[d].purged
                /\ rows[d].state \in CorrelatableStates
                /\ Delivery[d] \in first..last}

Outranks(d, e) ==
  \/ Version[d] > Version[e]
  \/ Version[d] = Version[e] /\ Id[d] > Id[e]

(* max(members, key = (version, document_id))                              *)
IsWinner(w, G) == w \in G /\ \A e \in G \ {w} : Outranks(w, e)

IdGroup(D, d) == {e \in D : Id[e] = Id[d]}

KeyGroup(D, d) == {e \in D : Key[e] = Key[d] /\ Key[e] # NoKey}

(* The groups are met in (id, version) order, so that d's id group comes   *)
(* before its key group unless a filing with a lower id opened the latter. *)
KeyGroupFirst(D, d) == \E e \in KeyGroup(D, d) : Id[e] < Id[d]

(* Mutant: a winner replaces what is not lower.                            *)
ReplacesAny(D, w, d) == IsWinner(w, IdGroup(D, d)) \/ IsWinner(w, KeyGroup(D, d))

(* correlate: among D, w replaces d.  Of the winners of the two groups the *)
(* higher version prevails, and of two of one version the group met first. *)
Replaces(D, w, d) ==
  /\ Version[w] > Version[d]
  /\ \/ /\ IsWinner(w, IdGroup(D, d))
        /\ \A x \in D : IsWinner(x, KeyGroup(D, d)) =>
             \/ Version[x] < Version[w]
             \/ Version[x] = Version[w] /\ ~KeyGroupFirst(D, d)
     \/ /\ IsWinner(w, KeyGroup(D, d))
        /\ \A x \in D : IsWinner(x, IdGroup(D, d)) =>
             \/ Version[x] < Version[w]
             \/ Version[x] = Version[w] /\ KeyGroupFirst(D, d)

Losers(D) == {d \in D : \E w \in D : Replaces(D, w, d)}

Replacement(D, d) == CHOOSE w \in D : Replaces(D, w, d)

(* What detect's transaction does to the rows.                             *)
Detected(rows, first, last) ==
  LET D == Correlatable(rows, first, last)
      L == Losers(D)
      Mark(d) == MarkSupersededBy(rows[d], Replacement(D, d))
  IN  [d \in Docs |->
         IF d \notin L THEN rows[d]
         ELSE IF rows[d].state \in PendingStates
         THEN SetState(Mark(d), "superseded")
         ELSE Mark(d)]

(* Mutant: the replacement need not have arrived.                          *)
DoomedUnchecked(rows, first, last) ==
  LET D == Correlatable(rows, first, last)
  IN  {d \in D : rows[d].state = "available" /\ rows[d].by \in D}

(* What sweep finds to delete: losers on disk whose replacement is on disk *)
(* too and still inside the window.                                        *)
Doomed(rows, first, last) ==
  LET D == Correlatable(rows, first, last)
  IN  {d \in D : /\ rows[d].state = "available"
                 /\ rows[d].by \in D
                 /\ rows[rows[d].by].state = "available"}
=============================================================================
