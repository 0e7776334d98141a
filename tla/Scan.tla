-------------------------------- MODULE Scan --------------------------------
(***************************************************************************)
(* The full-coverage scan of fnet/listing.py: pages in ascending order,    *)
(* coverage counted on distinct identities, the whole scan repeated while  *)
(* it falls short of recordsFiltered.                                      *)
(***************************************************************************)
EXTENDS Listing

CONSTANT MaxScanAttempts

ASSUME ScanAssumption == MaxScanAttempts \in Nat \ {0}

VARIABLES
  pc,        \* "idle", "page", "judge", "done"
  attempt,
  start,     \* offset of the next request
  seen,      \* rows served in this attempt, repeats included
  total,     \* the largest recordsFiltered of this attempt
  got        \* distinct identities and distinct malformed rows

scanVars == <<pc, attempt, start, seen, total, got>>
vars == <<published, withdrawn, stood, left, pc, attempt, start, seen, total, got>>

TypeOK ==
  /\ withdrawn \subseteq published /\ published \subseteq Filings
  /\ stood \subseteq Listed /\ left \subseteq withdrawn
  /\ pc \in {"idle", "page", "judge", "done"}
  /\ attempt \in 0..MaxScanAttempts
  /\ start \in Nat /\ seen \in Nat /\ total \in Nat
  /\ got \subseteq Filings

Init ==
  /\ InitListing
  /\ pc = "idle" /\ attempt = 0 /\ start = 0 /\ seen = 0 /\ total = 0 /\ got = {}

Attempt(n) ==
  /\ pc' = "page" /\ attempt' = n
  /\ start' = 0 /\ seen' = 0 /\ total' = 0 /\ got' = {}
  /\ Watch
  /\ UNCHANGED source

Begin == pc = "idle" /\ Attempt(1)

(* One turn of _pages and of the loop over it.                             *)
NextPage ==
  /\ pc = "page"
  /\ \E P \in Pages(start, Ascending) :
       LET n == Cardinality(Listed) IN
       /\ got' = got \cup P
       /\ seen' = seen + Cardinality(P)
       /\ total' = Max({total, n})
       /\ IF P = {} \/ seen' >= n \/ Cardinality(P) < PageLength
          THEN pc' = "judge" /\ UNCHANGED start
          ELSE pc' = "page" /\ start' = start + PageLength
  /\ UNCHANGED <<source, watched, attempt>>

(* Mutant: coverage counted in rows served, repeats included.              *)
CompleteByRows == seen >= total

(* ScanResult.complete                                                     *)
Complete == Cardinality(got) >= total

Finish ==
  /\ pc = "judge"
  /\ Complete \/ attempt = MaxScanAttempts
  /\ pc' = "done"
  /\ UNCHANGED <<source, watched, attempt, start, seen, total, got>>

(* Mutant: an attempt that does not count.                                 *)
RescanUncounted == pc = "judge" /\ ~Complete /\ attempt < MaxScanAttempts /\ Attempt(attempt)

Rescan == pc = "judge" /\ ~Complete /\ attempt < MaxScanAttempts /\ Attempt(attempt + 1)

(* A request that fails for good ends the scan with an exception; a scan   *)
(* that is over leaves nothing behind, and another may begin.              *)
Reset ==
  /\ pc' = "idle" /\ attempt' = 0 /\ start' = 0 /\ seen' = 0 /\ total' = 0
  /\ got' = {} /\ StopWatching
  /\ UNCHANGED source

RequestFails == pc = "page" /\ Reset

Return == pc = "done" /\ Reset

ScanStep == Begin \/ NextPage \/ Finish \/ Rescan \/ RequestFails \/ Return

Next == ScanStep \/ (SourceStep /\ UNCHANGED scanVars)

Spec == Init /\ [][Next]_vars

FairSpec == Spec /\ WF_vars(NextPage \/ Finish \/ Rescan)
-----------------------------------------------------------------------------
(* A scan that calls itself complete has collected every filing that was   *)
(* listed from its first page to its last, with at most one exception for  *)
(* each row it read that was withdrawn before it ended: such a row makes   *)
(* up in the count for one that moved across a page boundary.  What it     *)
(* read in an earlier attempt makes up for nothing.                        *)
CompleteMissesNoMore ==
  pc = "done" /\ Complete => Cardinality(stood \ got) =< Cardinality(got \cap left)

(* Rescanning ends, however badly the source paginates.                    *)
ScanEnds == pc = "page" ~> pc \in {"done", "idle"}
=============================================================================
