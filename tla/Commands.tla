------------------------------ MODULE Commands ------------------------------
(***************************************************************************)
(* rm, reconcile and purge as commands of their own (cli.py).  They take   *)
(* no lock: each is a process that works on the manifest and the files of  *)
(* Archive beside the run that may be going on, from snapshots of its own. *)
(* One command at a time.                                                  *)
(***************************************************************************)
EXTENDS ArchiveClaims

CONSTANT MaxCommands  \* bound: how many commands people give

ASSUME CommandsAssumption == MaxCommands \in Nat

VARIABLES
  given,     \* how many have been given
  cmd,       \* how far the command is
  fund,      \* rm: the entity being removed from the watch list
  seen,      \* what it has still to visit (its snapshot)
  known,     \* reconcile: those of its snapshot that had a destination
  met,       \* rm: the files removed; purge: the dates that resisted
  cwin,      \* purge: last day of its own window
  gone,      \* the directory the run is publishing into was removed
  discarded, \* history: the filings whose files rm was told to delete
  late       \* history: what a run put into place after it had aged

command == <<given, cmd, fund, seen, known, met, cwin>>
history == <<discarded, late>>
beside == <<command, gone, history>>
commandsVars == <<vars, beside>>

Publishes == {"stage", "staging", "rename"}

CommandsTypeOK ==
  /\ TypeOK
  /\ given \in 0..MaxCommands
  /\ cmd \in {"off", "ask", "stand down", "remove", "settle", "adopt", "requeue", "empty"}
  /\ fund \in Entities \cup {None}
  /\ seen \subseteq Docs /\ known \subseteq Docs /\ met \subseteq Docs
  /\ cwin \in 0..today
  /\ gone \in BOOLEAN /\ (gone => pc \in Publishes)
  /\ discarded \subseteq Docs /\ late \subseteq Docs

CommandsInit ==
  /\ Init
  /\ given = 0 /\ cmd = "off" /\ fund = None
  /\ seen = {} /\ known = {} /\ met = {} /\ cwin = 0
  /\ gone = FALSE /\ discarded = {} /\ late = {}

Return ==
  /\ given' = given
  /\ cmd' = "off" /\ fund' = None /\ seen' = {} /\ known' = {} /\ met' = {} /\ cwin' = 0

Turn(stage) ==
  /\ given < MaxCommands /\ given' = given + 1
  /\ cmd = "off" /\ cmd' = stage

(* What the command visits next: its queries order by delivery and id.     *)
Foremost(d) == d \in seen /\ \A e \in seen \ {d} : Before(d, e)

(* The run finds the directory it was about to publish into gone.          *)
Undercut(days) == gone \/ (pc \in Publishes /\ cur \in days)
-----------------------------------------------------------------------------
(* rm: what is on disk is read before the prompt.                          *)
AskRm(e) ==
  /\ Turn("ask") /\ e \in watch
  /\ fund' = e
  /\ seen' = {d \in Docs : Entity[d] = e /\ row[d].state = "available" /\ ~row[d].purged}
  /\ UNCHANGED <<vars, known, met, cwin, gone, history>>

SaveRm ==
  /\ cmd = "ask" /\ cmd' = "stand down"
  /\ watch' = watch \ {fund}
  /\ UNCHANGED <<disk, today, run, given, fund, seen, known, met, cwin, gone, history>>

(* abandon_pending; with --delete-documents the files are next.            *)
StandDown(delete) ==
  /\ cmd = "stand down"
  /\ row' = [d \in Docs |-> IF Entity[d] = fund THEN AbandonPending(row[d]) ELSE row[d]]
  /\ IF delete /\ seen # {}
     THEN /\ cmd' = "remove" /\ discarded' = discarded \cup seen
          /\ UNCHANGED <<given, fund, seen, known, met, cwin>>
     ELSE Return /\ UNCHANGED discarded
  /\ UNCHANGED <<file, world, run, gone, late>>

RemoveFile(d) ==
  /\ cmd = "remove" /\ Foremost(d)
  /\ file' = [file EXCEPT ![d] = "none"]
  /\ seen' = seen \ {d} /\ met' = met \cup {d}
  /\ UNCHANGED <<row, world, run, given, cmd, fund, known, cwin, gone, history>>

RemoveFileFails(d) ==
  /\ cmd = "remove" /\ Foremost(d)
  /\ seen' = seen \ {d}
  /\ UNCHANGED <<vars, given, cmd, fund, known, met, cwin, gone, history>>

(* remove_files takes the emptied directories away; then the rows of the   *)
(* removed files are marked, whatever they have become meanwhile.          *)
EndRm ==
  /\ cmd = "remove" /\ seen = {}
  /\ row' = [d \in Docs |-> IF d \in met THEN MarkPurged(row[d]) ELSE row[d]]
  /\ gone' = Undercut({d \in Docs : /\ SameDay(d) \cap met # {}
                                    /\ \A e \in SameDay(d) : file[e] = "none"})
  /\ Return
  /\ UNCHANGED <<file, world, run, history>>
-----------------------------------------------------------------------------
AskReconcile ==
  /\ Turn("settle")
  /\ seen' = {d \in Docs : row[d].state \in IntermediateStates}
  /\ known' = {d \in seen' : row[d].path}
  /\ UNCHANGED <<vars, fund, met, cwin, gone, history>>

(* Mutant: a destination on record will do, without a file.                *)
JudgeTrusting ==
  /\ cmd = "settle"
  /\ \E d \in Docs :
       /\ Foremost(d)
       /\ cmd' = IF d \in known THEN "adopt" ELSE "requeue"
  /\ UNCHANGED <<vars, given, fund, seen, known, met, cwin, gone, history>>

(* The file is read and validated, if the row had a destination then ...   *)
Judge ==
  /\ cmd = "settle"
  /\ \E d \in Docs :
       /\ Foremost(d)
       /\ \/ d \in known /\ file[d] = "whole" /\ cmd' = "adopt"
          \/ cmd' = "requeue"
  /\ UNCHANGED <<vars, given, fund, seen, known, met, cwin, gone, history>>

(* ... and the row is written after that, whatever it has become.          *)
Settle(d) ==
  /\ cmd \in {"adopt", "requeue"} /\ Foremost(d)
  /\ row' = [row EXCEPT ![d] = IF cmd = "adopt" THEN MarkAvailable(@)
                               ELSE SetState(@, "discovered")]
  /\ cmd' = "settle" /\ seen' = seen \ {d}
  /\ UNCHANGED <<file, world, run, given, fund, known, met, cwin, gone, history>>

EndReconcileCommand ==
  /\ cmd = "settle" /\ seen = {} /\ Return
  /\ UNCHANGED <<vars, gone, history>>
-----------------------------------------------------------------------------
(* Mutant: a window that ends tomorrow.                                    *)
AskPurgeTomorrow ==
  /\ Turn("empty")
  /\ cwin' = today + 1
  /\ seen' = {d \in Docs : Aged(d, today + 1) /\ file[d] # "none"}
  /\ UNCHANGED <<vars, fund, known, met, gone, history>>

(* purge has a window of its own, which ends today.                        *)
AskPurge ==
  /\ Turn("empty")
  /\ cwin' = today
  /\ seen' = {d \in Docs : Aged(d, today) /\ file[d] # "none"}
  /\ UNCHANGED <<vars, fund, known, met, gone, history>>

EmptyDay(d) ==
  /\ cmd = "empty" /\ Foremost(d)
  /\ file' = [e \in Docs |-> IF e \in SameDay(d) THEN "none" ELSE file[e]]
  /\ seen' = seen \ SameDay(d)
  /\ gone' = Undercut(SameDay(d))
  /\ UNCHANGED <<row, world, run, given, cmd, fund, known, met, cwin, history>>

EmptyDayFails(d) ==
  /\ cmd = "empty" /\ Foremost(d)
  /\ \E G \in SUBSET SameDay(d) :
       file' = [e \in Docs |-> IF e \in G THEN "none" ELSE file[e]]
  /\ seen' = seen \ SameDay(d) /\ met' = met \cup SameDay(d)
  /\ UNCHANGED <<row, world, run, given, cmd, fund, known, cwin, gone, history>>

(* Mutant: the dates that resisted are marked with the others.             *)
EndPurgeCommandRegardless ==
  /\ cmd = "empty" /\ seen = {}
  /\ row' = [d \in Docs |->
               IF Aged(d, cwin) /\ ~row[d].purged /\ row[d].state # "absent"
               THEN MarkPurged(row[d]) ELSE row[d]]
  /\ Return
  /\ UNCHANGED <<file, world, run, gone, history>>

EndPurgeCommand ==
  /\ cmd = "empty" /\ seen = {}
  /\ row' = [d \in Docs |->
               IF /\ Aged(d, cwin) /\ d \notin met
                  /\ ~row[d].purged /\ row[d].state # "absent"
               THEN MarkPurged(row[d]) ELSE row[d]]
  /\ Return
  /\ UNCHANGED <<file, world, run, gone, history>>
-----------------------------------------------------------------------------
(* Interrupted, refused at the prompt, or its save of funds.yaml refused   *)
(* because somebody else changed the file.                                 *)
CommandEnds == cmd # "off" /\ Return /\ UNCHANGED <<vars, gone, history>>

CommandStep ==
  \/ \E e \in Entities : AskRm(e)
  \/ SaveRm \/ (\E delete \in BOOLEAN : StandDown(delete))
  \/ \E d \in Docs : RemoveFile(d) \/ RemoveFileFails(d)
  \/ EndRm
  \/ AskReconcile \/ Judge \/ (\E d \in Docs : Settle(d)) \/ EndReconcileCommand
  \/ AskPurge
  \/ \E d \in Docs : EmptyDay(d) \/ EmptyDayFails(d)
  \/ EndPurgeCommand \/ CommandEnds

(* The run's rename needs its directory.                                   *)
RunGoesOn ==
  /\ RunStep
  /\ gone => ~RenamePart
  /\ gone' = (gone /\ pc' \in Publishes)
  /\ late' = IF RenamePart /\ Aged(cur, today) THEN late \cup {cur} ELSE late
  /\ UNCHANGED <<command, discarded>>

CommandsNext ==
  \/ RunGoesOn \/ CommandStep
  \/ Midnight /\ UNCHANGED beside
  \/ EditFunds /\ cmd # "ask" /\ UNCHANGED beside
  \/ Crash /\ gone' = FALSE /\ UNCHANGED <<command, history>>

CommandsSpec == CommandsInit /\ [][CommandsNext]_commandsVars

(* Runs follow each other and go on; people stop giving commands, what     *)
(* interrupts a run is finite, and so is what keeps it from deleting.      *)
CommandsFairSpec ==
  /\ CommandsSpec
  /\ WF_commandsVars(RunGoesOn)
  /\ <>[](cmd = "off")
  /\ <>[][~Interruption /\ ~(\E d \in Docs : RemoveDayFails(d))]_vars
-----------------------------------------------------------------------------
(* What commands do beside a run takes no copy away from the readers of    *)
(* the share: of what landed once and has not aged there is a file, its    *)
(* own or a later version's, whatever the manifest says of it for the      *)
(* moment, unless it was one of those that somebody had rm delete.         *)
CommandsLeaveACopy ==
  \A d \in Docs :
    row[d].landed /\ ~Aged(d, today) =>
      \E e \in Docs : /\ Pub[e] = Pub[d] /\ Version[e] >= Version[d]
                      /\ file[e] = "whole" \/ e \in discarded

(* purged means deleted on request, or aged and gone: a date that a purge  *)
(* could not clear keeps its rows.  Only what a run put into place after   *)
(* it had aged can have a file beside a row that is purged already.        *)
PurgedMeansAgedOrDiscarded ==
  \A d \in Docs :
    row[d].purged /\ d \notin discarded =>
      Aged(d, today) /\ (file[d] # "none" => d \in late)

(* Whatever commands and runs did to each other (rows requeued under a     *)
(* download, files renamed into place that no row knows of, filings the    *)
(* queue fetched although they had aged meanwhile): behind the frontier    *)
(* everything is gone in the end and its row says so, as long as a fund is *)
(* followed at all.                                                        *)
AgesOut ==
  <>[](watch # {}) =>
    \A d \in Docs : row[d].state # "absent" /\ Aged(d, today)
                      ~> row[d].purged /\ file[d] = "none"
=============================================================================
