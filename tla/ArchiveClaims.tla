--------------------------- MODULE ArchiveClaims ----------------------------
(***************************************************************************)
(* A sentence of the repository about the archive that the code does not   *)
(* keep, and the liveness of the download queue, which holds although      *)
(* commands work beside the runs (Commands).                               *)
(***************************************************************************)
EXTENDS ArchiveInv

(* "If the replacement failed to download, the original stays: the reader  *)
(* is never left with neither copy" (supersede.py).  Inside the window a   *)
(* superseded filing leaves a copy on the shelf, or one that is still      *)
(* going to be fetched or that nobody follows any more.                    *)
NeverNeitherCopy ==
  \A d \in Docs :
    row[d].state = "superseded" /\ ~Aged(d, today) =>
      \E e \in Docs : /\ Pub[e] = Pub[d]
                      /\ \/ OnShelf(e)
                         \/ IsPending(row[e]) /\ row[e].fails < MaxAttempts
                         \/ row[e].state = "abandoned"

-----------------------------------------------------------------------------
(* What can hold a download up: death, a shutdown request, an edit of the  *)
(* watch list, a scope that is not usable.  A run that reaches its end     *)
(* leaves as a dying one does, but with its work done.                     *)
Interruption ==
  \/ Crash /\ ~SyncScopes /\ ~EndPurge
  \/ StopDownloads \/ EditFunds
  \/ pc = "scopes" /\ usable' # watch

(* Whatever waits in the queue is settled: fetched, declined, replaced,    *)
(* aged out, stood down, or its attempt budget is spent.                   *)
(* (pending_downloads takes failed rows back, reconcile takes interrupted  *)
(* ones back.)                                                             *)
Waits(d) == row[d].state \in {"discovered", "downloading", "failed"} /\ ~row[d].purged

QueueSettles ==
  \A d \in Docs : Waits(d) ~> ~Waits(d) \/ row[d].fails >= MaxAttempts
=============================================================================
