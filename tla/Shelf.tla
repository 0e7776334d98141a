------------------------------- MODULE Shelf --------------------------------
(***************************************************************************)
(* What the archive promises the people who read it.  The shelf holds the  *)
(* filings that can be read.  A filing is put there at most once in its    *)
(* life, and is taken away only because it aged out of the retention       *)
(* window or because a higher version of the same publication is on the    *)
(* shelf instead.                                                          *)
(***************************************************************************)
EXTENDS Integers

CONSTANTS Docs, Pub, Version, Delivery, RetentionDays

VARIABLES
  shelf,  \* the filings that can be read
  ever,   \* the filings that were ever put on the shelf
  today

Init == shelf = {} /\ ever = {} /\ today = 1

Expired == {d \in Docs : Delivery[d] < today - (RetentionDays - 1)}

(* e can be read in place of d.                                            *)
Replaces(e, d) == Pub[e] = Pub[d] /\ Version[e] > Version[d]

Publish ==
  /\ \E d \in Docs \ ever : shelf' = shelf \cup {d} /\ ever' = ever \cup {d}
  /\ UNCHANGED today

Withdraw ==
  /\ \E d \in shelf : /\ shelf' = shelf \ {d}
                      /\ \E e \in shelf' : Replaces(e, d)
  /\ UNCHANGED <<ever, today>>

Expire ==
  /\ \E S \in SUBSET Expired : shelf' = shelf \ S
  /\ UNCHANGED <<ever, today>>

NextDay == today' = today + 1 /\ UNCHANGED <<shelf, ever>>

Next == Publish \/ Withdraw \/ Expire \/ NextDay

Spec == Init /\ [][Next]_<<shelf, ever, today>>
=============================================================================
