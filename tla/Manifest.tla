------------------------------ MODULE Manifest ------------------------------
(***************************************************************************)
(* The manifest: one row per publication (document_id, version), and what  *)
(* each SQL statement of manifest/repo.py does to one row.  Everything is  *)
(* constant-level, so that every module that touches the manifest applies  *)
(* the same statements.                                                    *)
(***************************************************************************)
EXTENDS Integers

CONSTANTS
  Docs,        \* the publications the source ever lists
  Id,          \* Id[d]: the source's document id
  Version,     \* Version[d]: versao, raised by a re-filing
  Key,         \* Key[d]: entity, category, type, species and reference date,
               \* or NoKey when the reference date is empty
  NoKey,
  Pub,         \* Pub[d]: the publication d is a filing of, the finest partition
               \* that joins equal ids and equal keys
  Delivery,    \* Delivery[d]: dataEntrega as a day number
  None         \* "no such document": NULL in superseded_by_*

(* A publication is identified by (document_id, version).                  *)
ASSUME DocsAssumption ==
  /\ None \notin Docs
  /\ Id \in [Docs -> Nat]
  /\ Version \in [Docs -> Nat]
  /\ Delivery \in [Docs -> Nat \ {0}]
  /\ \A d, e \in Docs : Id[d] = Id[e] /\ Version[d] = Version[e] => d = e

(* One publication: filings that share an id (rule R1) or a key (rule R2). *)
ASSUME PubAssumption ==
  \A d, e \in Docs :
    \/ Id[d] = Id[e]
    \/ Key[d] = Key[e] /\ Key[d] # NoKey
    => Pub[d] = Pub[e]

(* A re-filing is delivered no earlier than what it re-files.              *)
ASSUME RefilingsArriveLater ==
  \A d, e \in Docs :
    Pub[d] = Pub[e] /\ Version[d] < Version[e] => Delivery[d] =< Delivery[e]
-----------------------------------------------------------------------------
LocalState == {"discovered", "downloading", "available", "failed", "purged",
               "skipped", "abandoned", "superseded"}

IntermediateStates == {"discovered", "downloading"}

(* Mutant: a failed row is not taken back.                                 *)
PendingStatesOnce == {"discovered", "downloading", "skipped"}

PendingStates == {"discovered", "downloading", "failed", "skipped"}

(* A row as stored.  "absent" stands for no row.  path says whether a      *)
(* destination is recorded (a publication has one file name) and with it   *)
(* the extension; landed whether downloaded_at is set; purged whether      *)
(* purged_at is set; by is superseded_by_*, None while superseded_at is    *)
(* NULL; fails counts the attempts that spend the download budget.         *)
Row == [state  : LocalState \cup {"absent"},
        path   : BOOLEAN,
        landed : BOOLEAN,
        purged : BOOLEAN,
        by     : Docs \cup {None},
        fails  : Nat]

NoRow == [state |-> "absent", path |-> FALSE, landed |-> FALSE,
          purged |-> FALSE, by |-> None, fails |-> 0]

IsPending(r) == r.state \in PendingStates /\ ~r.purged
-----------------------------------------------------------------------------
(* Mutant: rediscovery takes the state of the listing, whatever it was.    *)
UpsertDiscoveredAnew(r) ==
  IF r.state = "absent" THEN [NoRow EXCEPT !.state = "discovered"]
  ELSE [r EXCEPT !.state = "discovered"]

(* Rediscovery leaves everything that describes the local copy alone; only *)
(* an abandoned row goes back to the queue.                                *)
UpsertDiscovered(r) ==
  IF r.state = "absent" THEN [NoRow EXCEPT !.state = "discovered"]
  ELSE IF r.state = "abandoned" /\ ~r.purged
  THEN [r EXCEPT !.state = "discovered"]
  ELSE r

SetState(r, s) == [r EXCEPT !.state = s]

(* Conditional on the row still being the one in flight.                   *)
SetDownloadTarget(r) ==
  IF r.state = "downloading" THEN [r EXCEPT !.path = TRUE] ELSE r

MarkAvailable(r) ==
  [r EXCEPT !.state = "available", !.path = TRUE, !.landed = TRUE,
            !.purged = FALSE]

RecordFailure(r) == [r EXCEPT !.fails = @ + 1]

MarkFailed(r) == [r EXCEPT !.state = "failed"]

(* The winner on record is replaced only by a higher version, or by the    *)
(* later filing of the same version.                                       *)
MarkSupersededBy(r, w) ==
  IF \/ r.by = None
     \/ Version[r.by] < Version[w]
     \/ Version[r.by] = Version[w] /\ Id[r.by] < Id[w]
  THEN [r EXCEPT !.by = w]
  ELSE r

MarkSupersededRemoved(r) == [r EXCEPT !.state = "superseded", !.path = FALSE]

MarkPurged(r) == [r EXCEPT !.state = "purged", !.purged = TRUE, !.path = FALSE]

AbandonPending(r) == IF IsPending(r) THEN [r EXCEPT !.state = "abandoned"] ELSE r
=============================================================================
