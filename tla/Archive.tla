------------------------------ MODULE Archive -------------------------------
(***************************************************************************)
(* The archive under one run at a time: the manifest, the files under the  *)
(* documents root, the staging area, the calendar, and the run that moves  *)
(* them (run.execute and the pipeline stages it calls).  The run can die   *)
(* between any two of its statements; the next one starts from what the    *)
(* manifest and the disk say.  Everything it held in memory is lost.       *)
(***************************************************************************)
EXTENDS Supersede

CONSTANTS
  Entities,       \* Fundos.NET ids
  Entity,         \* Entity[d]: the entity that files d
  Predicted,      \* publications whose category text hints at a wanted format
  Wanted,         \* publications whose real content is of a wanted format
  RetentionDays,  \* [retention].days
  MaxAttempts,    \* MAX_ATTEMPTS_PER_DOCUMENT
  MaxDay          \* bound: the last day the calendar reaches

ASSUME ArchiveAssumption ==
  /\ Entity \in [Docs -> Entities]
  /\ Predicted \subseteq Docs
  /\ Wanted \subseteq Docs
  /\ RetentionDays \in Nat \ {0}
  /\ MaxAttempts \in Nat \ {0}
  /\ MaxDay \in Nat \ {0}

VARIABLES
  row,     \* the manifest, durable
  file,    \* file[d]: what is at d's final path, durable
  watch,   \* entities funds.yaml configures, edited by people
  today,   \* the calendar
  pc,      \* the stage the run is in, "off" when none is running
  win,     \* last day of the run's retention window
  dwin,    \* last day of the run's discovery window
  usable,  \* entities whose scope is usable in this run
  todo,    \* what the current stage has still to visit (its snapshot)
  done,    \* what the current stage has to report to the manifest
  cur,     \* the publication being fetched
  part     \* what its staging file holds; a file an earlier run left there is
           \* truncated before it is used, so only this run's content matters

disk == <<row, file>>
world == <<watch, today>>
setup == <<win, dwin, usable>>
work  == <<todo, done, cur, part>>
run   == <<pc, setup, work>>
vars  == <<row, file, watch, today, pc, win, dwin, usable, todo, done, cur, part>>

Content == {"none", "torn", "whole"}

Stages == {"off", "start", "reconcile", "scopes", "discover", "detect",
           "decline", "fetch", "request", "stage", "staging", "rename",
           "mark", "failing", "sweep", "purge"}

FetchOne == {"request", "stage", "staging", "rename", "mark", "failing"}

(* retention_window(RetentionDays, last).first                             *)
First(last) == last - (RetentionDays - 1)

Aged(d, last) == Delivery[d] < First(last)

TypeOK ==
  /\ row \in [Docs -> Row]
  /\ file \in [Docs -> Content]
  /\ part \in Content
  /\ watch \subseteq Entities
  /\ today \in 1..MaxDay
  /\ pc \in Stages
  /\ win \in 0..today
  /\ dwin \in 0..today
  /\ usable \subseteq Entities
  /\ todo \subseteq Docs
  /\ done \subseteq Docs
  /\ cur \in Docs \cup {None}

Init ==
  /\ row = [d \in Docs |-> NoRow]
  /\ file = [d \in Docs |-> "none"]
  /\ watch = {}
  /\ today = 1
  /\ pc = "off" /\ win = 0 /\ dwin = 0
  /\ usable = {} /\ todo = {} /\ done = {} /\ cur = None /\ part = "none"
-----------------------------------------------------------------------------
(* The world: midnight, which can fall inside a run, and people editing    *)
(* funds.yaml.  A run reads funds.yaml once, so an edit made meanwhile is  *)
(* an edit made after it.                                                  *)
Midnight ==
  /\ today < MaxDay
  /\ today' = today + 1
  /\ UNCHANGED <<disk, watch, run>>

EditFunds ==
  /\ pc = "off"
  /\ watch' \in (SUBSET Entities) \ {watch}
  /\ UNCHANGED <<disk, today, run>>

(* The process dies: killed, or an exception no stage handles.             *)
Leave ==
  /\ pc' = "off" /\ win' = 0 /\ dwin' = 0
  /\ usable' = {} /\ todo' = {} /\ done' = {} /\ cur' = None /\ part' = "none"

Crash == pc # "off" /\ Leave /\ UNCHANGED <<disk, world>>
-----------------------------------------------------------------------------
(* execute computes the two windows with one call of today() each.         *)
Start ==
  /\ pc = "off"
  /\ pc' = "start" /\ win' = today
  /\ UNCHANGED <<disk, world, dwin, usable, work>>

OpenManifest ==
  /\ pc = "start"
  /\ pc' = "reconcile" /\ dwin' = today
  /\ todo' = {d \in Docs : row[d].state \in IntermediateStates}
  /\ UNCHANGED <<disk, world, win, usable, done, cur, part>>

(* One row of reconcile.run.  A recorded destination that holds a valid    *)
(* file is adopted.  Anything else goes back to the queue, and so does a   *)
(* valid file that cannot be read this time or exceeds the size limit.     *)
Adopt(d) ==
  /\ pc = "reconcile" /\ d \in todo
  /\ row[d].path /\ file[d] = "whole"
  /\ row' = [row EXCEPT ![d] = MarkAvailable(@)]
  /\ todo' = todo \ {d}
  /\ UNCHANGED <<file, world, pc, setup, done, cur, part>>

Requeue(d) ==
  /\ pc = "reconcile" /\ d \in todo
  /\ row' = [row EXCEPT ![d] = SetState(@, "discovered")]
  /\ todo' = todo \ {d}
  /\ UNCHANGED <<file, world, pc, setup, done, cur, part>>

(* sweep_staging then removes staging files, which no property sees.       *)
EndReconcile ==
  /\ pc = "reconcile" /\ todo = {}
  /\ pc' = "scopes"
  /\ UNCHANGED <<disk, world, setup, work>>

(* funds.yaml is read, some of its scopes turn out usable, and what no     *)
(* configured scope owns is stood down.  With nothing usable (or on a dry  *)
(* run) the run ends here.                                                 *)
SyncScopes ==
  /\ pc = "scopes"
  /\ row' = [d \in Docs |-> IF Entity[d] \in watch THEN row[d]
                            ELSE AbandonPending(row[d])]
  /\ \/ \E U \in (SUBSET watch) \ {{}} :
          /\ usable' = U /\ pc' = "discover"
          /\ UNCHANGED <<win, dwin, work>>
     \/ Leave
  /\ UNCHANGED <<file, world>>

(* Discovery records whatever the listing yields of what it was asked:     *)
(* deliveries of the usable entities inside the discovery window.  An      *)
(* incomplete scan, a gated entity, a failed request or a shutdown all     *)
(* leave out some of it.                                                   *)
Discover ==
  /\ pc = "discover"
  /\ \E S \in SUBSET {d \in Docs : /\ Entity[d] \in usable
                                   /\ Delivery[d] \in First(dwin)..dwin} :
       row' = [d \in Docs |-> IF d \in S THEN UpsertDiscovered(row[d]) ELSE row[d]]
  /\ pc' = "detect" /\ dwin' = 0
  /\ UNCHANGED <<file, world, win, usable, work>>

(* Mutant: the queue is read before the replaced filings leave it.         *)
DetectAfterQueue ==
  /\ pc = "detect"
  /\ row' = Detected(row, First(win), win)
  /\ pc' = "decline"
  /\ LET known == {d \in Docs : IsPending(row[d]) /\ Entity[d] \in usable}
     IN  /\ todo' = {d \in known : row[d].path \/ d \in Predicted}
         /\ done' = known \ todo'
  /\ UNCHANGED <<file, world, setup, cur, part>>

(* supersede.detect, then fetch.run reads the queue and splits it.         *)
Detect ==
  /\ pc = "detect"
  /\ row' = Detected(row, First(win), win)
  /\ pc' = "decline"
  /\ LET known == {d \in Docs : IsPending(row'[d]) /\ Entity[d] \in usable}
     IN  /\ todo' = {d \in known : row'[d].path \/ d \in Predicted}
         /\ done' = known \ todo'
  /\ UNCHANGED <<file, world, setup, cur, part>>

(* What the hint excludes is skipped without a request; a row that was     *)
(* skipped before stays as it is.                                          *)
Decline(d) ==
  /\ pc = "decline" /\ d \in done
  /\ row' = [row EXCEPT ![d] = SetState(@, "skipped")]
  /\ done' = done \ {d}
  /\ UNCHANGED <<file, world, pc, setup, todo, cur, part>>

StartDownloads ==
  /\ pc = "decline" /\ done = {}
  /\ pc' = "fetch"
  /\ UNCHANGED <<disk, world, setup, work>>
-----------------------------------------------------------------------------
(* The queue is served oldest delivery first, then by id and version.      *)
Before(d, e) ==
  \/ Delivery[d] < Delivery[e]
  \/ /\ Delivery[d] = Delivery[e]
     /\ Id[d] < Id[e] \/ (Id[d] = Id[e] /\ Version[d] < Version[e])

IsNext(d) == d \in todo /\ \A e \in todo \ {d} : Before(d, e)

(* A publication whose attempt budget is spent is passed over, untouched.  *)
PassOver(d) ==
  /\ pc = "fetch" /\ IsNext(d)
  /\ row[d].fails >= MaxAttempts
  /\ todo' = todo \ {d}
  /\ UNCHANGED <<disk, world, pc, setup, done, cur, part>>

Request(d) ==
  /\ pc = "fetch" /\ IsNext(d)
  /\ row[d].fails < MaxAttempts
  /\ row' = [row EXCEPT ![d] = SetState(@, "downloading")]
  /\ cur' = d /\ todo' = todo \ {d} /\ pc' = "request"
  /\ UNCHANGED <<file, world, setup, done, part>>

(* A refused, invalid, divergent or unwritable document: the attempt is    *)
(* recorded first, the row is marked failed in a statement of its own.     *)
AttemptFails ==
  /\ pc \in {"request", "stage", "staging", "rename"}
  /\ row' = [row EXCEPT ![cur] = RecordFailure(@)]
  /\ pc' = "failing" /\ part' = "none"
  /\ UNCHANGED <<file, world, setup, todo, done, cur>>

FailCurrent ==
  /\ pc = "failing"
  /\ row' = [row EXCEPT ![cur] = MarkFailed(@)]
  /\ pc' = "fetch" /\ cur' = None
  /\ UNCHANGED <<file, world, setup, todo, done, part>>

(* The content turns out to be of a format nobody asked for.               *)
Filter ==
  /\ pc = "request" /\ cur \notin Wanted
  /\ row' = [row EXCEPT ![cur] = SetState(@, "skipped")]
  /\ pc' = "fetch" /\ cur' = None
  /\ UNCHANGED <<file, world, setup, todo, done, part>>

(* Mutant: the destination is not recorded.                                *)
RecordNoTarget ==
  /\ pc = "request" /\ cur \in Wanted
  /\ pc' = "stage"
  /\ UNCHANGED <<disk, world, setup, work>>

(* _publish: destination first, then the staging file, then the rename,    *)
(* then the row.                                                           *)
RecordTarget ==
  /\ pc = "request" /\ cur \in Wanted
  /\ row' = [row EXCEPT ![cur] = SetDownloadTarget(@)]
  /\ pc' = "stage"
  /\ UNCHANGED <<file, world, setup, work>>

OpenPart ==
  /\ pc = "stage"
  /\ part' = "torn"
  /\ pc' = "staging"
  /\ UNCHANGED <<disk, world, setup, todo, done, cur>>

WritePart ==
  /\ pc = "staging"
  /\ part' = "whole"
  /\ pc' = "rename"
  /\ UNCHANGED <<disk, world, setup, todo, done, cur>>

RenamePart ==
  /\ pc = "rename"
  /\ file' = [file EXCEPT ![cur] = part]
  /\ part' = "none"
  /\ pc' = "mark"
  /\ UNCHANGED <<row, world, setup, todo, done, cur>>

MarkCurrent ==
  /\ pc = "mark"
  /\ row' = [row EXCEPT ![cur] = MarkAvailable(@)]
  /\ pc' = "fetch" /\ cur' = None
  /\ UNCHANGED <<file, world, setup, todo, done, part>>

(* The queue is served, or a shutdown was requested and the rest of it is  *)
(* left for another run; supersede.sweep reads what it may delete.         *)
LeaveFetch ==
  /\ pc = "fetch"
  /\ pc' = "sweep"
  /\ todo' = Doomed(row, First(win), win)
  /\ UNCHANGED <<disk, world, setup, done, cur, part>>

EndDownloads == todo = {} /\ LeaveFetch

StopDownloads == todo # {} /\ LeaveFetch
-----------------------------------------------------------------------------
(* remove_files, one file of the sweep: deleted, or left for another run.  *)
Unlink(d) ==
  /\ pc = "sweep" /\ d \in todo
  /\ file' = [file EXCEPT ![d] = "none"]
  /\ todo' = todo \ {d} /\ done' = done \cup {d}
  /\ UNCHANGED <<row, world, pc, setup, cur, part>>

UnlinkFails(d) ==
  /\ pc = "sweep" /\ d \in todo
  /\ todo' = todo \ {d}
  /\ UNCHANGED <<disk, world, pc, setup, done, cur, part>>

(* Mutant: the frontier day itself is purged.                              *)
EndSweepInclusive ==
  /\ pc = "sweep" /\ todo = {}
  /\ row' = [d \in Docs |-> IF d \in done THEN MarkSupersededRemoved(row[d])
                            ELSE row[d]]
  /\ pc' = "purge" /\ done' = {}
  /\ todo' = {d \in Docs : Delivery[d] =< First(win) /\ file[d] # "none"}
  /\ UNCHANGED <<file, world, setup, cur, part>>

(* The rows of the deleted files, in one transaction; then purge lists the *)
(* date directories before the frontier.                                   *)
EndSweep ==
  /\ pc = "sweep" /\ todo = {}
  /\ row' = [d \in Docs |-> IF d \in done THEN MarkSupersededRemoved(row[d])
                            ELSE row[d]]
  /\ pc' = "purge" /\ done' = {}
  /\ todo' = {d \in Docs : Aged(d, win) /\ file[d] # "none"}
  /\ UNCHANGED <<file, world, setup, cur, part>>

SameDay(d) == {e \in Docs : Delivery[e] = Delivery[d]}

Oldest(d) == d \in todo /\ \A e \in todo : Delivery[d] =< Delivery[e]

(* One date directory of purge.run: removed whole, or left with part of    *)
(* its files gone and its date withheld from the manifest update.          *)
RemoveDay(d) ==
  /\ pc = "purge" /\ Oldest(d)
  /\ file' = [e \in Docs |-> IF e \in SameDay(d) THEN "none" ELSE file[e]]
  /\ todo' = todo \ SameDay(d)
  /\ UNCHANGED <<row, world, pc, setup, done, cur, part>>

RemoveDayFails(d) ==
  /\ pc = "purge" /\ Oldest(d)
  /\ \E G \in SUBSET SameDay(d) :
       file' = [e \in Docs |-> IF e \in G THEN "none" ELSE file[e]]
  /\ todo' = todo \ SameDay(d)
  /\ done' = done \cup SameDay(d)
  /\ UNCHANGED <<row, world, pc, setup, cur, part>>

(* Mutant: rows of the frontier day are marked purged.                     *)
EndPurgeInclusive ==
  /\ pc = "purge" /\ todo = {}
  /\ row' = [d \in Docs |->
               IF /\ Delivery[d] =< First(win) /\ d \notin done
                  /\ ~row[d].purged /\ row[d].state # "absent"
               THEN MarkPurged(row[d]) ELSE row[d]]
  /\ Leave
  /\ UNCHANGED <<file, world>>

(* Mutant: only what can be read is marked purged.                         *)
EndPurgeReadable ==
  /\ pc = "purge" /\ todo = {}
  /\ row' = [d \in Docs |->
               IF Aged(d, win) /\ d \notin done /\ row[d].state = "available"
               THEN MarkPurged(row[d]) ELSE row[d]]
  /\ Leave
  /\ UNCHANGED <<file, world>>

(* mark_purged(before = window.first, exclude_dates = the failed ones).    *)
EndPurge ==
  /\ pc = "purge" /\ todo = {}
  /\ row' = [d \in Docs |->
               IF /\ Aged(d, win) /\ d \notin done
                  /\ ~row[d].purged /\ row[d].state # "absent"
               THEN MarkPurged(row[d]) ELSE row[d]]
  /\ Leave
  /\ UNCHANGED <<file, world>>
-----------------------------------------------------------------------------
FetchStep ==
  \/ \E d \in Docs : PassOver(d) \/ Request(d)
  \/ AttemptFails \/ FailCurrent \/ Filter
  \/ RecordTarget \/ OpenPart \/ WritePart \/ RenamePart \/ MarkCurrent

RunStep ==
  \/ Start \/ OpenManifest
  \/ \E d \in Docs : Adopt(d) \/ Requeue(d)
  \/ EndReconcile \/ SyncScopes \/ Discover \/ Detect
  \/ \E d \in Docs : Decline(d)
  \/ StartDownloads \/ FetchStep \/ EndDownloads \/ StopDownloads
  \/ \E d \in Docs : Unlink(d) \/ UnlinkFails(d)
  \/ EndSweep
  \/ \E d \in Docs : RemoveDay(d) \/ RemoveDayFails(d)
  \/ EndPurge

Next == RunStep \/ Midnight \/ EditFunds \/ Crash

Spec == Init /\ [][Next]_vars
-----------------------------------------------------------------------------
(* A filing the manifest calls available can be read, or a higher version  *)
(* of the same publication can: whatever a crash interrupted, the reader   *)
(* of the share finds one copy of everything inside the retention window.  *)
(* (mark_available after the rename, unlink before mark_superseded_removed,*)
(* rmtree before mark_purged)                                              *)
OnShelf(d) == row[d].state = "available" /\ file[d] = "whole"

Replaced(d) ==
  \E e \in Docs : Pub[e] = Pub[d] /\ Version[e] > Version[d] /\ OnShelf(e)

ReaderHasACopy ==
  \A d \in Docs :
    row[d].state = "available" /\ ~Aged(d, today) => OnShelf(d) \/ Replaced(d)

(* Nothing but whole documents at a final path, and none the manifest has  *)
(* lost track of: the destination is on record before the file appears and *)
(* forgotten only after it is gone.                                        *)
NoStrayFile ==
  \A d \in Docs : file[d] # "none" => file[d] = "whole" /\ row[d].path

(* purged keeps meaning "aged past the retention frontier" (LocalState).   *)
PurgedMeansAged == \A d \in Docs : row[d].purged => Aged(d, today)

(* A supersession on record points up: to a strictly higher version of the *)
(* same publication, one the manifest knows.  A superseded row always has  *)
(* one.                                                                    *)
MarksPointUp ==
  \A d \in Docs :
    /\ row[d].by # None =>
         /\ Pub[row[d].by] = Pub[d] /\ Version[row[d].by] > Version[d]
         /\ row[row[d].by].state # "absent"
    /\ row[d].state = "superseded" => row[d].by # None

(* Nothing that once landed is requested again, whatever happened to it    *)
(* since: rediscovery, a crash, an edit of the watch list, its removal.    *)
NeverRefetched ==
  [][\A d \in Docs : pc' = "request" /\ cur' = d => ~row[d].landed]_vars

(* The run implements the promise made to the readers.                     *)
ShelfView == INSTANCE Shelf WITH
               shelf <- {d \in Docs : OnShelf(d)},
               ever  <- {d \in Docs : row[d].landed}

KeepsItsPromise == ShelfView!Spec
=============================================================================
