----------------------------- MODULE ScanNewest -----------------------------
(***************************************************************************)
(* The monitor's newest-first read of fnet/listing.py, and the cursor its  *)
(* caller advances after a complete one (discover.run_monitor, here with   *)
(* every gated query succeeding).  The read stops at the first row below   *)
(* the cursor, so it cannot count coverage; it validates what it is served *)
(* instead.                                                                *)
(***************************************************************************)
EXTENDS Listing

CONSTANTS
  Malformed,  \* filings whose row fails validation
  NoInstant   \* no cursor yet, or no row read yet; below every instant

ASSUME NewestAssumption ==
  /\ Malformed \subseteq Filings
  /\ NoInstant \in Int /\ NoInstant < 0

VARIABLES
  pc,        \* "idle", "page", "complete", "drift", "broken"
  start,     \* offset of the next request
  seenRaw,   \* rows served in this read
  total,     \* recordsFiltered of the first page
  seenIds,   \* identities read
  rows,      \* the rows kept: those at or above the cursor
  previous,  \* dataEntrega of the last row
  newest,    \* the largest dataEntrega read
  cursor,    \* last_delivery_at of the fund type
  accounted  \* every row a complete read has handed over

read == <<start, seenRaw, total, seenIds, rows, previous, newest>>
vars == <<published, withdrawn, stood, left, pc, start, seenRaw, total, seenIds, rows, previous,
          newest, cursor, accounted>>

Instants == {At[f] : f \in Filings} \cup {NoInstant}

TypeOK ==
  /\ withdrawn \subseteq published /\ published \subseteq Filings
  /\ stood \subseteq Listed /\ left \subseteq withdrawn
  /\ pc \in {"idle", "page", "complete", "drift", "broken"}
  /\ start \in Nat /\ seenRaw \in Nat /\ total \in Nat
  /\ seenIds \subseteq Filings \ Malformed
  /\ rows \subseteq Filings
  /\ previous \in Instants /\ newest \in Instants /\ cursor \in Instants
  /\ accounted \subseteq Filings

Blank ==
  /\ start' = 0 /\ seenRaw' = 0 /\ total' = 0 /\ seenIds' = {} /\ rows' = {}
  /\ previous' = NoInstant /\ newest' = NoInstant

Init ==
  /\ InitListing
  /\ pc = "idle" /\ start = 0 /\ seenRaw = 0 /\ total = 0 /\ seenIds = {} /\ rows = {}
  /\ previous = NoInstant /\ newest = NoInstant
  /\ cursor = NoInstant /\ accounted = {}

Begin ==
  /\ pc = "idle" /\ pc' = "page"
  /\ Blank /\ Watch
  /\ UNCHANGED <<source, cursor, accounted>>

(* An order violation or a repeated identity.  A page by itself comes in   *)
(* order.                                                                  *)
Violates(V) ==
  \/ V \cap seenIds # {}
  \/ previous # NoInstant /\ \E f \in V : At[f] > previous

(* The rows of one page, kept and counted, and whether the read ends here. *)
(* Malformed rows are counted as read but never looked at.                 *)
Accept(P) ==
  LET V == P \ Malformed
      crossed == \E f \in V : At[f] < cursor
      ended == P = {} \/ Cardinality(P) < PageLength \/ seenRaw' >= total'
  IN  /\ seenIds' = seenIds \cup V
      /\ rows' = rows \cup {f \in P : f \in Malformed \/ At[f] >= cursor}
      /\ previous' = IF V = {} THEN previous ELSE Min({At[f] : f \in V})
      /\ newest' = Max({newest} \cup {At[f] : f \in V})
      /\ seenRaw' = seenRaw + Cardinality(P)
      /\ IF crossed \/ ended
         THEN pc' = "complete" /\ UNCHANGED start
         ELSE pc' = "page" /\ start' = start + PageLength

(* Mutant: the total is not watched.                                       *)
NeverDrifted(n) == FALSE

(* Whether the total moved since the first page.                           *)
Drifted(n) == start > 0 /\ n # total

NextPage ==
  /\ pc = "page"
  /\ LET n == Cardinality(Listed) IN
     \/ /\ Drifted(n)
        /\ pc' = "drift" /\ UNCHANGED read
     \/ /\ ~Drifted(n)
        /\ \E P \in Pages(start, Descending) :
             /\ total' = n
             /\ \/ /\ Violates(P \ Malformed) /\ pc' = "broken"
                   /\ UNCHANGED <<start, seenRaw, seenIds, rows, previous, newest>>
                \/ ~Violates(P \ Malformed) /\ Accept(P)
  /\ UNCHANGED <<source, watched, cursor, accounted>>

(* Mutants: one minute too far, and without a complete read.               *)
AdvancePast ==
  /\ pc = "complete" /\ pc' = "idle"
  /\ cursor' = Max({cursor, newest + 1})
  /\ accounted' = accounted \cup rows
  /\ Blank /\ StopWatching
  /\ UNCHANGED source

AdvanceIncomplete ==
  /\ pc \notin {"idle", "page"} /\ pc' = "idle"
  /\ cursor' = Max({cursor, newest})
  /\ accounted' = accounted \cup rows
  /\ Blank /\ StopWatching
  /\ UNCHANGED source

(* advance_listing_cursor: forward, never back, and only when something    *)
(* was read.                                                               *)
Advance ==
  /\ pc = "complete" /\ pc' = "idle"
  /\ cursor' = Max({cursor, newest})
  /\ accounted' = accounted \cup rows
  /\ Blank /\ StopWatching
  /\ UNCHANGED source

(* A failed request, a read that is not complete, a gated query that       *)
(* failed: the cursor stays where it is.                                   *)
Freeze ==
  /\ pc # "idle" /\ pc' = "idle"
  /\ Blank /\ StopWatching
  /\ UNCHANGED <<source, cursor, accounted>>

ReadStep == Begin \/ NextPage \/ Advance \/ Freeze

Next == ReadStep \/ (SourceStep /\ UNCHANGED <<pc, read, cursor, accounted>>)

Spec == Init /\ [][Next]_vars
-----------------------------------------------------------------------------
(* A malformed row is not checked for repetition.  Served again, in the    *)
(* place of a good row of the same minute, it hides that row.              *)
Shadowed(f) == \E m \in Malformed : m # f /\ At[m] = At[f]

(* Another filing of the newest minute read came or went during the read:  *)
(* the rows of that minute may have changed places and the total not.      *)
Moving(f) ==
  At[f] >= newest /\ \E g \in (Listed \ stood) \cup left : At[g] = At[f]

(* A complete read has kept every filing at or above the cursor that was   *)
(* listed all the while and that no malformed row shadows, whatever was    *)
(* filed or re-filed between its pages.  (the drift and identity checks of *)
(* scan_newest stand in for the coverage it cannot count)  Only the newest *)
(* minute may be incomplete, which the cursor makes the next read repeat.  *)
CompleteKeepsAll ==
  pc = "complete" =>
    \A f \in stood : At[f] >= cursor => f \in rows \/ Shadowed(f) \/ Moving(f)

(* The cursor is a promise that everything below it was dealt with: a      *)
(* filing still listed below it was handed over by some complete read, the *)
(* ones filed in the very minute of an earlier cursor included.            *)
CursorLosesNothing ==
  \A f \in Listed : At[f] < cursor => f \in accounted \/ Shadowed(f)
=============================================================================
