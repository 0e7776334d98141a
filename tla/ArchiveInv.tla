---------------------------- MODULE ArchiveInv -----------------------------
(***************************************************************************)
(* The inductive invariant behind the safety properties of Archive: what   *)
(* each stage may rely on about the manifest and the disk although it      *)
(* works from a snapshot it took earlier.                                  *)
(***************************************************************************)
EXTENDS Archive

(* The columns of one row agree with its state.                            *)
RowAgrees(r) ==
  /\ r.state = "absent" => r.by = None /\ ~r.path /\ ~r.landed
  /\ r.purged <=> r.state = "purged"
  /\ r.landed => r.state \in {"available", "superseded", "purged"}
  /\ r.state = "available" => r.landed

RowsAgree == \A d \in Docs : RowAgrees(row[d])

(* The snapshots of reconcile and of the download queue are never stale.   *)
QueueIsPending ==
  /\ pc = "reconcile" => \A d \in todo : row[d].state \in IntermediateStates
  /\ pc \in {"decline", "fetch"} \cup FetchOne =>
       \A d \in todo \cup done : row[d].state \in PendingStates
  /\ pc \in {"fetch"} \cup FetchOne => done = {}
  /\ pc \in FetchOne => /\ cur \in Docs \ todo
                        /\ row[cur].state = "downloading"

(* The destination is on record before the file can appear there, and what *)
(* is renamed there is complete.                                           *)
Publishing ==
  /\ pc \in {"stage", "staging", "rename", "mark"} => row[cur].path
  /\ pc = "rename" => part = "whole"
  /\ pc = "mark" => file[cur] = "whole"

(* What the sweep deletes still has its replacement available.             *)
SweepIsSafe ==
  pc = "sweep" => \A d \in todo \cup done : /\ row[d].state = "available"
                                           /\ row[d].by \in Docs
                                           /\ row[row[d].by].state = "available"

(* What it reports as deleted is gone.                                     *)
SweepIsDone == pc = "sweep" => \A d \in done : file[d] = "none"

(* What purge has left is before the frontier, and it forgets no file.     *)
PurgeIsComplete ==
  pc = "purge" =>
    /\ \A d \in todo : Aged(d, win)
    /\ \A d \in Docs : Aged(d, win) /\ file[d] # "none" => d \in todo \cup done

IInv ==
  /\ TypeOK
  /\ RowsAgree
  /\ QueueIsPending
  /\ Publishing
  /\ NoStrayFile
  /\ SweepIsSafe
  /\ SweepIsDone
  /\ PurgeIsComplete
  /\ PurgedMeansAged
  /\ MarksPointUp
  /\ ReaderHasACopy
=============================================================================
