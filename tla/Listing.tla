------------------------------ MODULE Listing -------------------------------
(***************************************************************************)
(* The listing of the source as the code meets it (fnet/listing.py and its *)
(* notes on what was measured): filings appear in the order of dataEntrega,*)
(* a re-filing withdraws the version it replaces, and a page is what the   *)
(* requested order puts at the requested offset at the moment of the       *)
(* request, ties falling as they may.  Nothing locks it between two pages. *)
(***************************************************************************)
EXTENDS Integers, FiniteSetsExt

CONSTANTS
  Filings,
  At,          \* At[f]: dataEntrega, to the minute
  Refiles,     \* Refiles[f]: the filing f withdraws, or None
  None,
  PageLength,
  Ordered      \* whether the source keeps the requested order across offsets

ASSUME ListingAssumption ==
  /\ IsFiniteSet(Filings) /\ None \notin Filings
  /\ At \in [Filings -> Nat]
  /\ Refiles \in [Filings -> Filings \cup {None}]
  /\ PageLength \in Nat \ {0}
  /\ Ordered \in BOOLEAN

VARIABLES
  published,  \* what was ever listed
  withdrawn,  \* what went from the listing
  stood,      \* history: what has been listed all the time since the read began
  left        \* history: what has gone from the listing since it began

source == <<published, withdrawn>>
watched == <<stood, left>>

Listed == published \ withdrawn

InitListing ==
  /\ published \in {S \in SUBSET Filings :
       /\ \A f \in S : Refiles[f] \in S \cup {None}
       /\ \A f \in S, g \in Filings \ S : At[f] =< At[g]}
  /\ withdrawn = {f \in Filings : \E g \in published : Refiles[g] = f}
  /\ stood = {} /\ left = {}

(* A read begins; it is over.                                              *)
Watch == stood' = Listed /\ left' = {}
StopWatching == stood' = {} /\ left' = {}

Publish(f) ==
  /\ f \notin published
  /\ \A g \in published : At[g] =< At[f]
  /\ Refiles[f] \in published \cup {None}
  /\ published' = published \cup {f}
  /\ UNCHANGED <<withdrawn, watched>>

(* A moment after the new version comes the old one goes, and the total    *)
(* shrinks.                                                                *)
Withdraw(f) ==
  /\ f \in Listed /\ \E g \in published : Refiles[g] = f
  /\ withdrawn' = withdrawn \cup {f}
  /\ stood' = stood \ {f} /\ left' = left \cup {f}
  /\ UNCHANGED published

(* Both may happen between any two requests.                               *)
SourceStep == \E f \in Filings : Publish(f) \/ Withdraw(f)

(* What a request for the rows from start on may return, with rank the     *)
(* requested order.                                                        *)
Pages(start, rank) ==
  LET n == Cardinality(Listed)
      size == Max({0, Min({PageLength, n - start})})
      InOrder(S, T) == \A s \in S, t \in T : rank[s] =< rank[t]
  IN  {P \in kSubset(size, Listed) :
         Ordered =>
           \E B \in kSubset(Min({start, n - size}), Listed \ P) :
             InOrder(B, P) /\ InOrder(B \cup P, Listed \ (B \cup P))}

Ascending == At
Descending == [f \in Filings |-> 0 - At[f]]
=============================================================================
