--------------------------- MODULE ArchiveProofs ----------------------------
(***************************************************************************)
(* What is proved of Archive, of the index of arrivals its runs write and of*)
(* the commands given beside them, for every set of documents, every       *)
(* retention and every attempt budget: in that order, since a step of Inbox*)
(* is one of Archive, and Commands uses what is proved of the statements.  *)
(***************************************************************************)
EXTENDS Commands, Inbox, FiniteSetTheorems, TLAPS

(* A set of days has a first one: no strict subset of 0..n precedes the    *)
(* smallest of those that hold the days up to one of them.                 *)
LEMMA HasFirstDay ==
  ASSUME NEW S \in SUBSET Nat, S # {}
  PROVE  \E x \in S : \A y \in S : x =< y
  <1>1. PICK n \in S : TRUE
    OBVIOUS
  <1> DEFINE Upto(k) == S \cap (0..k)
             T == {Upto(k) : k \in Upto(n)}
  <1>2. IsFiniteSet(0..n)
    BY FS_Interval
  <1>3. IsWellFoundedOn(StrictSubsetOrdering(0..n), SUBSET (0..n))
    BY <1>2, FS_StrictSubsetOrderingWellFounded, FS_FiniteSubsetsOfFinite
  <1>4. T \subseteq SUBSET (0..n) /\ T # {}
    <2>1. n \in Upto(n)
      BY <1>1
    <2>2. Upto(n) \in T
      BY <2>1
    <2>3. \A k \in Upto(n) : Upto(k) \subseteq 0..n
      BY <1>1
    <2> QED BY <2>2, <2>3
  <1>5. PICK G \in T : \A H \in T : ~(<<H, G>> \in StrictSubsetOrdering(0..n))
    <2> HIDE DEF T
    <2> QED BY <1>3, <1>4, WFMin
  <1>6. PICK x \in Upto(n) : G = Upto(x)
    OBVIOUS
  <1>7. ASSUME NEW y \in S, y < x PROVE FALSE
    <2>1. y \in Upto(n) /\ Upto(y) \in T
      BY <1>7
    <2>2. Upto(y) \subseteq Upto(x) /\ x \in Upto(x) /\ x \notin Upto(y)
      BY <1>7
    <2>3. <<Upto(y), G>> \in StrictSubsetOrdering(0..n)
      BY <1>4, <1>6, <2>1, <2>2 DEF StrictSubsetOrdering
    <2> QED BY <1>5, <2>1, <2>3
  <1> QED BY <1>6, <1>7

LEMMA FirstDayIsLeft ==
  ASSUME NEW S \in SUBSET Nat, S # {}
  PROVE  Min(S) \in S
  BY HasFirstDay DEF Min

USE DocsAssumption, PubAssumption, RefilingsArriveLater, ArchiveAssumption
-----------------------------------------------------------------------------
(***************************************************************************)
(* The runs by themselves: Archive.                                        *)
(***************************************************************************)
(* Every statement of the manifest maps a row to a row.                    *)
LEMMA StatementsKeepRows ==
  ASSUME NEW r \in Row
  PROVE  /\ NoRow \in Row
         /\ UpsertDiscovered(r) \in Row
         /\ \A s \in LocalState : SetState(r, s) \in Row
         /\ SetDownloadTarget(r) \in Row
         /\ MarkAvailable(r) \in Row
         /\ RecordFailure(r) \in Row
         /\ MarkFailed(r) \in Row
         /\ \A w \in Docs : MarkSupersededBy(r, w) \in Row
         /\ MarkSupersededRemoved(r) \in Row
         /\ MarkPurged(r) \in Row
         /\ AbandonPending(r) \in Row
  <1> USE DEF Row, LocalState
  <1>1. NoRow \in Row
    BY DEF NoRow
  <1>2. UpsertDiscovered(r) \in Row
    BY <1>1 DEF UpsertDiscovered, NoRow
  <1>3. \A s \in LocalState : SetState(r, s) \in Row
    BY DEF SetState
  <1>4. SetDownloadTarget(r) \in Row /\ MarkAvailable(r) \in Row
    BY DEF SetDownloadTarget, MarkAvailable
  <1>5. RecordFailure(r) \in Row /\ MarkFailed(r) \in Row
    BY DEF RecordFailure, MarkFailed
  <1>6. \A w \in Docs : MarkSupersededBy(r, w) \in Row
    BY DEF MarkSupersededBy
  <1>7. MarkSupersededRemoved(r) \in Row /\ MarkPurged(r) \in Row
    BY DEF MarkSupersededRemoved, MarkPurged
  <1>8. AbandonPending(r) \in Row
    BY DEF AbandonPending
  <1> QED BY <1>1, <1>2, <1>3, <1>4, <1>5, <1>6, <1>7, <1>8

(* What correlate pairs: a strictly higher version of one publication.     *)
LEMMA ReplacementPointsUp ==
  ASSUME NEW D \in SUBSET Docs, NEW d \in Losers(D)
  PROVE  /\ d \in D
         /\ Replacement(D, d) \in D
         /\ Pub[Replacement(D, d)] = Pub[d]
         /\ Version[Replacement(D, d)] > Version[d]
  <1> DEFINE w == Replacement(D, d)
  <1>1. d \in D /\ w \in D /\ Replaces(D, w, d)
    BY DEF Losers, Replacement
  <1>2. w \in IdGroup(D, d) \/ w \in KeyGroup(D, d)
    BY <1>1 DEF Replaces, IsWinner
  <1>3. Pub[w] = Pub[d]
    BY <1>1, <1>2 DEF IdGroup, KeyGroup
  <1> QED BY <1>1, <1>3 DEF Replaces

(* detect keeps rows rows.                                                 *)
LEMMA DetectedKeepsRows ==
  ASSUME NEW rows \in [Docs -> Row], NEW f, NEW l
  PROVE  Detected(rows, f, l) \in [Docs -> Row]
  <1> DEFINE D == Correlatable(rows, f, l)
             Mark(d) == MarkSupersededBy(rows[d], Replacement(D, d))
  <1> SUFFICES ASSUME NEW d \in Docs
               PROVE  Detected(rows, f, l)[d] \in Row
    BY DEF Detected
  <1>1. D \in SUBSET Docs
    BY DEF Correlatable
  <1>2. CASE d \notin Losers(D)
    BY <1>2 DEF Detected
  <1>3. CASE d \in Losers(D)
    <2>1. Mark(d) \in Row
      BY <1>1, <1>3, ReplacementPointsUp, StatementsKeepRows
    <2>2. SetState(Mark(d), "superseded") \in Row
      BY <2>1, StatementsKeepRows DEF LocalState
    <2> QED BY <2>1, <2>2 DEF Detected
  <1> QED BY <1>2, <1>3
-----------------------------------------------------------------------------
(* No step of a run, of the calendar or of people changes a type.          *)
LEMMA TypesKept == TypeOK /\ [Next]_vars => TypeOK'
  <1> SUFFICES ASSUME TypeOK, [Next]_vars PROVE TypeOK'
    OBVIOUS
  <1> USE DEF TypeOK, disk, world, setup, work, run, Content, Stages
  <1>1. CASE Midnight
    BY <1>1 DEF Midnight
  <1>2. CASE EditFunds
    BY <1>2 DEF EditFunds
  <1>3. CASE Crash
    BY <1>3 DEF Crash, Leave
  <1>4. CASE Start \/ OpenManifest \/ EndReconcile \/ StartDownloads
    BY <1>4 DEF Start, OpenManifest, EndReconcile, StartDownloads
  <1>5. ASSUME NEW d \in Docs, Adopt(d) \/ Requeue(d) \/ Decline(d)
        PROVE  TypeOK'
    <2>1. row' \in [Docs -> Row]
      BY <1>5, StatementsKeepRows DEF Adopt, Requeue, Decline, LocalState
    <2> QED BY <1>5, <2>1 DEF Adopt, Requeue, Decline
  <1>6. CASE SyncScopes
    <2>1. row' \in [Docs -> Row]
      BY <1>6, StatementsKeepRows DEF SyncScopes
    <2> QED BY <1>6, <2>1 DEF SyncScopes, Leave
  <1>7. CASE Discover
    <2>1. row' \in [Docs -> Row]
      BY <1>7, StatementsKeepRows DEF Discover
    <2> QED BY <1>7, <2>1 DEF Discover
  <1>8. CASE Detect
    <2>1. row' \in [Docs -> Row]
      BY <1>8, DetectedKeepsRows DEF Detect
    <2> QED BY <1>8, <2>1 DEF Detect
  <1>9. ASSUME NEW d \in Docs, PassOver(d) \/ Request(d)
        PROVE  TypeOK'
    <2>1. row' \in [Docs -> Row]
      BY <1>9, StatementsKeepRows DEF PassOver, Request, LocalState
    <2> QED BY <1>9, <2>1 DEF PassOver, Request
  <1>10. CASE AttemptFails \/ FailCurrent \/ Filter \/ RecordTarget \/ MarkCurrent
    <2>1. row' \in [Docs -> Row]
      BY <1>10, StatementsKeepRows
      DEF AttemptFails, FailCurrent, Filter, RecordTarget, MarkCurrent, LocalState
    <2> QED BY <1>10, <2>1
        DEF AttemptFails, FailCurrent, Filter, RecordTarget, MarkCurrent
  <1>11. CASE OpenPart \/ WritePart \/ RenamePart
    BY <1>11 DEF OpenPart, WritePart, RenamePart
  <1>12. CASE EndDownloads \/ StopDownloads
    BY <1>12 DEF EndDownloads, StopDownloads, LeaveFetch, Doomed, Correlatable
  <1>13. ASSUME NEW d \in Docs, Unlink(d) \/ UnlinkFails(d)
         PROVE  TypeOK'
    BY <1>13 DEF Unlink, UnlinkFails
  <1>14. CASE EndSweep
    <2>1. row' \in [Docs -> Row]
      BY <1>14, StatementsKeepRows DEF EndSweep
    <2> QED BY <1>14, <2>1 DEF EndSweep
  <1>15. ASSUME NEW d \in Docs, RemoveDay(d) \/ RemoveDayFails(d)
         PROVE  TypeOK'
    BY <1>15 DEF RemoveDay, RemoveDayFails, SameDay
  <1>16. CASE EndPurge
    <2>1. row' \in [Docs -> Row]
      BY <1>16, StatementsKeepRows DEF EndPurge
    <2> QED BY <1>16, <2>1 DEF EndPurge, Leave
  <1>17. CASE UNCHANGED vars
    BY <1>17 DEF vars
  <1> QED BY <1>1, <1>2, <1>3, <1>4, <1>5, <1>6, <1>7, <1>8, <1>9, <1>10, <1>11,
             <1>12, <1>13, <1>14, <1>15, <1>16, <1>17
          DEF Next, RunStep, FetchStep

(* The manifest, the disk and the run always hold values of their types.   *)
THEOREM TypeCorrect == Spec => []TypeOK
  <1>1. Init => TypeOK
    BY DEF Init, TypeOK, Row, NoRow, LocalState, Content, Stages
  <1> QED BY <1>1, TypesKept, PTL DEF Spec
-----------------------------------------------------------------------------
(* What each statement of the manifest does to the columns of a row.       *)
LEMMA StatementColumns ==
  ASSUME NEW r \in Row
  PROVE  /\ \A s \in LocalState :
              /\ SetState(r, s).state = s
              /\ SetState(r, s).path = r.path
              /\ SetState(r, s).landed = r.landed
              /\ SetState(r, s).purged = r.purged
              /\ SetState(r, s).by = r.by
         /\ /\ SetDownloadTarget(r).state = r.state
            /\ r.path => SetDownloadTarget(r).path
            /\ r.state = "downloading" => SetDownloadTarget(r).path
            /\ SetDownloadTarget(r).landed = r.landed
            /\ SetDownloadTarget(r).purged = r.purged
            /\ SetDownloadTarget(r).by = r.by
         /\ /\ MarkAvailable(r).state = "available"
            /\ MarkAvailable(r).path
            /\ MarkAvailable(r).landed
            /\ ~MarkAvailable(r).purged
            /\ MarkAvailable(r).by = r.by
         /\ /\ RecordFailure(r).state = r.state
            /\ RecordFailure(r).path = r.path
            /\ RecordFailure(r).landed = r.landed
            /\ RecordFailure(r).purged = r.purged
            /\ RecordFailure(r).by = r.by
         /\ /\ MarkSupersededRemoved(r).state = "superseded"
            /\ ~MarkSupersededRemoved(r).path
            /\ MarkSupersededRemoved(r).landed = r.landed
            /\ MarkSupersededRemoved(r).purged = r.purged
            /\ MarkSupersededRemoved(r).by = r.by
         /\ /\ MarkPurged(r).state = "purged"
            /\ ~MarkPurged(r).path
            /\ MarkPurged(r).landed = r.landed
            /\ MarkPurged(r).purged
            /\ MarkPurged(r).by = r.by
         /\ MarkFailed(r) = SetState(r, "failed")
         /\ AbandonPending(r) = IF IsPending(r) THEN SetState(r, "abandoned") ELSE r
  BY DEF Row, LocalState, SetState, SetDownloadTarget, MarkAvailable, RecordFailure,
         MarkSupersededRemoved, MarkPurged, MarkFailed, AbandonPending

LEMMA AbandonedColumns ==
  ASSUME NEW r \in Row
  PROVE  /\ AbandonPending(r).landed = r.landed
         /\ AbandonPending(r).purged = r.purged
         /\ AbandonPending(r).by = r.by
         /\ r.path => AbandonPending(r).path
  BY DEF AbandonPending, Row

(* Rediscovery makes a row of nothing, and an abandoned row waits again.   *)
LEMMA UpsertColumns ==
  ASSUME NEW r \in Row, RowAgrees(r)
  PROVE  LET n == UpsertDiscovered(r)
         IN  /\ n.path = r.path /\ n.landed = r.landed
             /\ n.purged = r.purged /\ n.by = r.by
             /\ n.state # r.state => /\ n.state = "discovered"
                                     /\ r.state \in {"absent", "abandoned"}
             /\ n.state # "absent"
  BY DEF UpsertDiscovered, NoRow, Row, LocalState, RowAgrees

(* The winner on record only ever changes to the one correlate found, and  *)
(* nothing else of the row does.                                           *)
LEMMA MarkColumns ==
  ASSUME NEW r \in Row, NEW w \in Docs
  PROVE  LET n == MarkSupersededBy(r, w)
         IN  /\ n.state = r.state /\ n.path = r.path
             /\ n.landed = r.landed /\ n.purged = r.purged
             /\ n.by = w \/ (n.by = r.by /\ r.by # None)
  BY DEF MarkSupersededBy, Row

(* detect changes a row only if it loses: then its replacement goes on     *)
(* record, and a row that was waiting for a download stops waiting.        *)
LEMMA DetectedColumns ==
  ASSUME NEW rows \in [Docs -> Row], NEW f, NEW l, NEW d \in Docs,
         Detected(rows, f, l)[d] # rows[d]
  PROVE  LET n == Detected(rows, f, l)[d]
         IN  /\ rows[d].state \in CorrelatableStates /\ ~rows[d].purged
             /\ n.path = rows[d].path /\ n.landed = rows[d].landed
             /\ n.purged = rows[d].purged
             /\ n.state = IF rows[d].state \in PendingStates THEN "superseded"
                          ELSE rows[d].state
             /\ n.by \in Docs
             /\ \/ n.by = rows[d].by
                \/ /\ Pub[n.by] = Pub[d] /\ Version[n.by] > Version[d]
                   /\ rows[n.by].state # "absent"
  <1> DEFINE D == Correlatable(rows, f, l)
             w == Replacement(D, d)
             m == MarkSupersededBy(rows[d], w)
             n == Detected(rows, f, l)[d]
  <1>1. D \in SUBSET Docs
    BY DEF Correlatable
  <1>2. d \in Losers(D)
    BY DEF Detected
  <1>3. d \in D /\ w \in D /\ Pub[w] = Pub[d] /\ Version[w] > Version[d]
    BY <1>1, <1>2, ReplacementPointsUp
  <1>4. /\ rows[d].state \in CorrelatableStates /\ ~rows[d].purged
        /\ rows[w].state # "absent"
    BY <1>3 DEF Correlatable, CorrelatableStates, PendingStates
  <1>5. n = IF rows[d].state \in PendingStates THEN SetState(m, "superseded") ELSE m
    BY <1>2 DEF Detected
  <1>6. /\ m \in Row /\ m.state = rows[d].state /\ m.path = rows[d].path
        /\ m.landed = rows[d].landed /\ m.purged = rows[d].purged
        /\ m.by = w \/ (m.by = rows[d].by /\ rows[d].by # None)
    BY <1>1, <1>3, MarkColumns, StatementsKeepRows
  <1>7. /\ n.path = m.path /\ n.landed = m.landed /\ n.purged = m.purged
        /\ n.by = m.by
        /\ n.state = IF rows[d].state \in PendingStates THEN "superseded"
                     ELSE rows[d].state
    BY <1>5, <1>6, StatementColumns DEF LocalState
  <1>8. rows[d].by \in Docs \cup {None}
    BY DEF Row
  <1> HIDE DEF D, w, m, n
  <1>9. /\ n.by \in Docs
        /\ \/ n.by = rows[d].by
           \/ /\ Pub[n.by] = Pub[d] /\ Version[n.by] > Version[d]
              /\ rows[n.by].state # "absent"
    BY <1>1, <1>3, <1>4, <1>6, <1>7, <1>8
  <1> QED BY <1>4, <1>6, <1>7, <1>9 DEF n

(* Each statement keeps the columns in agreement in the states where the   *)
(* run applies it.                                                         *)
LEMMA StatementsAgree ==
  ASSUME NEW r \in Row, RowAgrees(r)
  PROVE  /\ RowAgrees(UpsertDiscovered(r))
         /\ RowAgrees(MarkAvailable(r))
         /\ RowAgrees(SetDownloadTarget(r)) \/ r.state # "downloading"
         /\ RowAgrees(RecordFailure(r))
         /\ RowAgrees(AbandonPending(r))
         /\ r.state \in PendingStates =>
              /\ \A s \in PendingStates : RowAgrees(SetState(r, s))
              /\ RowAgrees(MarkFailed(r))
         /\ r.state = "available" => RowAgrees(MarkSupersededRemoved(r))
         /\ r.state # "absent" => RowAgrees(MarkPurged(r))
  <1> USE DEF RowAgrees, PendingStates, LocalState
  <1>1. RowAgrees(UpsertDiscovered(r))
    BY UpsertColumns
  <1>2. RowAgrees(MarkAvailable(r)) /\ RowAgrees(RecordFailure(r))
    BY StatementColumns
  <1>3. RowAgrees(SetDownloadTarget(r)) \/ r.state # "downloading"
    BY StatementColumns
  <1>4. RowAgrees(AbandonPending(r))
    BY StatementColumns DEF IsPending
  <1>5. r.state \in PendingStates =>
          /\ \A s \in PendingStates : RowAgrees(SetState(r, s))
          /\ RowAgrees(MarkFailed(r))
    BY StatementColumns
  <1>6. r.state = "available" => RowAgrees(MarkSupersededRemoved(r))
    BY StatementColumns
  <1>7. r.state # "absent" => RowAgrees(MarkPurged(r))
    BY StatementColumns
  <1> QED BY <1>1, <1>2, <1>3, <1>4, <1>5, <1>6, <1>7

LEMMA DetectedAgrees ==
  ASSUME NEW rows \in [Docs -> Row], NEW f, NEW l, NEW d \in Docs,
         RowAgrees(rows[d])
  PROVE  RowAgrees(Detected(rows, f, l)[d])
  BY DetectedColumns DEF RowAgrees, CorrelatableStates, PendingStates

Fresh == RowsAgree /\ QueueIsPending /\ SweepIsSafe

(* The columns of a row agree, and no snapshot a stage works from is stale:*)
(* nothing but the run itself changes the rows it has queued.              *)
THEOREM SnapshotsAreFresh == Spec => []Fresh
  <1>1. Init => Fresh
    BY DEF Init, Fresh, RowsAgree, RowAgrees, QueueIsPending, SweepIsSafe, NoRow, FetchOne
  <1>2. TypeOK /\ Fresh /\ [Next]_vars => Fresh'
    <2> SUFFICES ASSUME TypeOK, Fresh, [Next]_vars PROVE Fresh'
      OBVIOUS
    <2>0. /\ row \in [Docs -> Row] /\ todo \subseteq Docs /\ done \subseteq Docs
          /\ \A d \in Docs : row[d] \in Row /\ RowAgrees(row[d])
          /\ QueueIsPending /\ SweepIsSafe
      BY DEF TypeOK, Fresh, RowsAgree
    <2> SUFFICES RowsAgree' /\ QueueIsPending' /\ SweepIsSafe'
      BY DEF Fresh
    <2> USE <2>0 DEF RowsAgree, FetchOne, PendingStates, IntermediateStates,
                     disk, world, setup, work, run
    <2>1. CASE Midnight \/ EditFunds \/ Crash \/ Start \/ UNCHANGED vars
      BY <2>1 DEF Midnight, EditFunds, Crash, Leave, Start, vars,
                  QueueIsPending, SweepIsSafe
    <2>2. CASE OpenManifest \/ EndReconcile \/ StartDownloads
      BY <2>2 DEF OpenManifest, EndReconcile, StartDownloads,
                  QueueIsPending, SweepIsSafe
    <2>3. ASSUME NEW d \in Docs, Adopt(d) \/ Requeue(d) \/ Decline(d)
          PROVE  RowsAgree' /\ QueueIsPending' /\ SweepIsSafe'
      <3>1. row[d].state \in PendingStates
        BY <2>3 DEF Adopt, Requeue, Decline, QueueIsPending
      <3>2. RowsAgree'
        BY <2>3, <3>1, StatementsAgree DEF Adopt, Requeue, Decline
      <3>3. CASE Adopt(d) \/ Requeue(d)
        BY <3>2, <3>3 DEF Adopt, Requeue, QueueIsPending, SweepIsSafe
      <3>4. CASE Decline(d)
        <4>1. row'[d].state = "skipped"
          BY <3>4, StatementColumns DEF Decline, LocalState
        <4> QED BY <3>2, <3>4, <4>1 DEF Decline, QueueIsPending, SweepIsSafe
      <3> QED BY <2>3, <3>3, <3>4
    <2>4. CASE SyncScopes
      <3>1. RowsAgree'
        BY <2>4, StatementsAgree DEF SyncScopes
      <3>2. QueueIsPending' /\ SweepIsSafe'
        BY <2>4 DEF SyncScopes, Leave, QueueIsPending, SweepIsSafe
      <3> QED BY <3>1, <3>2
    <2>5. CASE Discover
      <3>1. RowsAgree'
        BY <2>5, StatementsAgree DEF Discover
      <3>2. QueueIsPending' /\ SweepIsSafe'
        BY <2>5 DEF Discover, QueueIsPending, SweepIsSafe
      <3> QED BY <3>1, <3>2
    <2>6. CASE Detect
      <3>1. RowsAgree'
        BY <2>6, DetectedAgrees, DetectedKeepsRows DEF Detect
      <3>2. QueueIsPending' /\ SweepIsSafe'
        BY <2>6 DEF Detect, IsPending, QueueIsPending, SweepIsSafe
      <3> QED BY <3>1, <3>2
    <2>7. ASSUME NEW d \in Docs, PassOver(d) \/ Request(d)
          PROVE  RowsAgree' /\ QueueIsPending' /\ SweepIsSafe'
      <3>1. d \in todo /\ row[d].state \in PendingStates
        BY <2>7 DEF PassOver, Request, IsNext, QueueIsPending
      <3>2. RowsAgree'
        BY <2>7, <3>1, StatementsAgree DEF PassOver, Request
      <3>3. QueueIsPending' /\ SweepIsSafe'
        BY <2>7, <3>1, StatementColumns
           DEF PassOver, Request, QueueIsPending, SweepIsSafe, LocalState
      <3> QED BY <3>2, <3>3
    <2>8. CASE AttemptFails \/ FailCurrent \/ Filter \/ RecordTarget \/ MarkCurrent
      <3>1. cur \in Docs \ todo /\ row[cur].state = "downloading" /\ done = {}
        BY <2>8 DEF AttemptFails, FailCurrent, Filter, RecordTarget, MarkCurrent,
                    QueueIsPending
      <3>2. RowsAgree'
        BY <2>8, <3>1, StatementsAgree
           DEF AttemptFails, FailCurrent, Filter, RecordTarget, MarkCurrent
      <3>3. \A d \in todo' \cup done' : row'[d] = row[d]
        BY <2>8, <3>1
           DEF AttemptFails, FailCurrent, Filter, RecordTarget, MarkCurrent
      <3>4. pc' \in FetchOne => cur' = cur /\ row'[cur].state = "downloading"
        BY <2>8, <3>1, StatementColumns
           DEF AttemptFails, FailCurrent, Filter, RecordTarget, MarkCurrent
      <3>5. /\ pc \in FetchOne /\ pc' \in {"fetch"} \cup FetchOne
            /\ todo' = todo /\ done' = done
        BY <2>8 DEF AttemptFails, FailCurrent, Filter, RecordTarget, MarkCurrent
      <3> QED BY <3>1, <3>2, <3>3, <3>4, <3>5 DEF QueueIsPending, SweepIsSafe
    <2>9. CASE OpenPart \/ WritePart \/ RenamePart
      BY <2>9 DEF OpenPart, WritePart, RenamePart, QueueIsPending, SweepIsSafe
    <2>10. CASE EndDownloads \/ StopDownloads
      <3>1. done = {}
        BY <2>10 DEF EndDownloads, StopDownloads, LeaveFetch, QueueIsPending
      <3> QED BY <2>10, <3>1
              DEF EndDownloads, StopDownloads, LeaveFetch, Doomed, Correlatable,
                  QueueIsPending, SweepIsSafe
    <2>11. ASSUME NEW d \in Docs,
                  Unlink(d) \/ UnlinkFails(d) \/ RemoveDay(d) \/ RemoveDayFails(d)
           PROVE  RowsAgree' /\ QueueIsPending' /\ SweepIsSafe'
      BY <2>11 DEF Unlink, UnlinkFails, RemoveDay, RemoveDayFails,
                   QueueIsPending, SweepIsSafe
    <2>12. CASE EndSweep
      <3>1. RowsAgree'
        BY <2>12, StatementsAgree DEF EndSweep, SweepIsSafe
      <3> QED BY <2>12, <3>1 DEF EndSweep, QueueIsPending, SweepIsSafe
    <2>13. CASE EndPurge
      <3>1. RowsAgree'
        BY <2>13, StatementsAgree DEF EndPurge
      <3> QED BY <2>13, <3>1 DEF EndPurge, Leave, QueueIsPending, SweepIsSafe
    <2> QED BY <2>1, <2>2, <2>3, <2>4, <2>5, <2>6, <2>7, <2>8, <2>9, <2>10, <2>11,
               <2>12, <2>13
            DEF Next, RunStep, FetchStep
  <1> QED BY <1>1, <1>2, TypeCorrect, PTL DEF Spec
-----------------------------------------------------------------------------
(* The statements that write the manifest, of all the steps.               *)
LEMMA WhatWritesRows ==
  ASSUME [Next]_vars
  PROVE  \/ UNCHANGED row
         \/ Detect \/ SyncScopes \/ Discover \/ EndSweep \/ EndPurge
         \/ AttemptFails \/ FailCurrent \/ Filter \/ RecordTarget \/ MarkCurrent
         \/ \E e \in Docs : Adopt(e) \/ Requeue(e) \/ Decline(e) \/ Request(e)
  BY DEF Next, RunStep, FetchStep, Midnight, EditFunds, Crash, Start, OpenManifest,
         EndReconcile, StartDownloads, PassOver, OpenPart, WritePart, RenamePart,
         EndDownloads, StopDownloads, LeaveFetch, Unlink, UnlinkFails, RemoveDay,
         RemoveDayFails, disk, vars

RowGrows(d) ==
  /\ row[d].state # "absent" => row'[d].state # "absent"
  /\ row[d].landed => row'[d].landed
  /\ row'[d].by = row[d].by \/ Detect
  /\ row'[d].state = "superseded" =>
       row[d].state = "superseded" \/ row'[d].by # None

(* No step loses a row or the fact that it landed; only detect changes the *)
(* winner on record; and a row becomes superseded with one on record.      *)
LEMMA RowsOnlyGrow ==
  ASSUME TypeOK, Fresh, [Next]_vars, NEW d \in Docs
  PROVE  RowGrows(d)
  <1>0. /\ row \in [Docs -> Row] /\ row[d] \in Row /\ RowAgrees(row[d])
        /\ SweepIsSafe
    BY DEF TypeOK, Fresh, RowsAgree
  <1> USE <1>0 DEF RowGrows
  <1>1. CASE UNCHANGED row
    BY <1>1
  <1>2. ASSUME NEW e \in Docs, Adopt(e) \/ Requeue(e) \/ Decline(e) \/ Request(e)
        PROVE  RowGrows(d)
    <2>1. CASE e # d
      BY <1>2, <2>1 DEF Adopt, Requeue, Decline, Request
    <2>2. CASE e = d /\ Adopt(e)
      BY <2>2, StatementColumns DEF Adopt
    <2>3. CASE e = d /\ (Requeue(e) \/ Decline(e) \/ Request(e))
      BY <2>3, StatementColumns DEF Requeue, Decline, Request, LocalState
    <2> QED BY <1>2, <2>1, <2>2, <2>3
  <1>3. CASE AttemptFails \/ FailCurrent \/ Filter \/ RecordTarget \/ MarkCurrent
    BY <1>3, StatementColumns
       DEF AttemptFails, FailCurrent, Filter, RecordTarget, MarkCurrent, LocalState
  <1>4. CASE SyncScopes
    BY <1>4, StatementColumns DEF SyncScopes, LocalState
  <1>5. CASE Discover
    BY <1>5, UpsertColumns DEF Discover
  <1>6. CASE Detect
    BY <1>6, DetectedColumns, DocsAssumption
       DEF Detect, PendingStates, CorrelatableStates
  <1>7. CASE EndSweep
    BY <1>7, StatementColumns, DocsAssumption DEF EndSweep, SweepIsSafe
  <1>8. CASE EndPurge
    BY <1>8, StatementColumns DEF EndPurge
  <1>9. UNCHANGED row \/ Detect \/ SyncScopes \/ Discover \/ EndSweep \/ EndPurge
        \/ AttemptFails \/ FailCurrent \/ Filter \/ RecordTarget \/ MarkCurrent
        \/ \E e \in Docs : Adopt(e) \/ Requeue(e) \/ Decline(e) \/ Request(e)
    BY WhatWritesRows
  <1> QED BY ONLY <1>1, <1>2, <1>3, <1>4, <1>5, <1>6, <1>7, <1>8, <1>9

(* What landed once is never requested again.                              *)
THEOREM LandsOnce == Spec => NeverRefetched
  <1>1. TypeOK /\ Fresh /\ Fresh' /\ [Next]_vars =>
          [\A d \in Docs : pc' = "request" /\ cur' = d => ~row[d].landed]_vars
    BY RowsOnlyGrow
       DEF RowGrows, Fresh, RowsAgree, RowAgrees, QueueIsPending, FetchOne
  <1> QED BY <1>1, TypeCorrect, SnapshotsAreFresh, PTL DEF Spec, NeverRefetched

(* A filing marked superseded always names a higher version of its own     *)
(* publication, one the manifest knows.                                    *)
THEOREM SupersessionPointsUp == Spec => []MarksPointUp
  <1>1. Init => MarksPointUp
    <2>1. Init => \A d \in Docs : row[d].by = None /\ row[d].state = "absent"
      <3> SUFFICES ASSUME Init, NEW d \in Docs
                   PROVE  row[d].by = None /\ row[d].state = "absent"
        OBVIOUS
      <3>1. row[d] = NoRow
        BY DEF Init
      <3> QED BY <3>1 DEF NoRow
    <2> QED BY <2>1 DEF MarksPointUp
  <1>2. TypeOK /\ Fresh /\ MarksPointUp /\ [Next]_vars => MarksPointUp'
    <2> SUFFICES ASSUME TypeOK, Fresh, MarksPointUp, [Next]_vars, NEW d \in Docs
                 PROVE  /\ row'[d].by # None =>
                             /\ Pub[row'[d].by] = Pub[d]
                             /\ Version[row'[d].by] > Version[d]
                             /\ row'[row'[d].by].state # "absent"
                        /\ row'[d].state = "superseded" => row'[d].by # None
      BY DEF MarksPointUp
    <2>1. row \in [Docs -> Row] /\ row[d].by \in Docs \cup {None}
      BY DEF TypeOK, Row
    <2>2. CASE row'[d].by = row[d].by
      BY <2>1, <2>2, RowsOnlyGrow DEF MarksPointUp, RowGrows
    <2>3. CASE Detect /\ row'[d].by # row[d].by
      <3>1. /\ row'[d].by \in Docs
            /\ Pub[row'[d].by] = Pub[d] /\ Version[row'[d].by] > Version[d]
            /\ row[row'[d].by].state # "absent"
        BY <2>1, <2>3, DetectedColumns DEF Detect
      <3> QED BY <3>1, RowsOnlyGrow, DocsAssumption DEF RowGrows
    <2> QED BY <2>2, <2>3, RowsOnlyGrow DEF RowGrows
  <1> QED BY <1>1, <1>2, TypeCorrect, SnapshotsAreFresh, PTL DEF Spec
-----------------------------------------------------------------------------
Filed == Publishing /\ NoStrayFile /\ SweepIsDone /\ PurgeIsComplete

(* A recorded destination is forgotten only with a row that sweep or purge *)
(* moves, and neither touches the row of a file that is still there.       *)
LEMMA PathsStay ==
  ASSUME TypeOK, Fresh, [Next]_vars, NEW d \in Docs, row[d].path
  PROVE  row'[d].path \/ (EndSweep /\ d \in done)
                      \/ (EndPurge /\ Aged(d, win) /\ d \notin done)
  <1>0. /\ row \in [Docs -> Row] /\ row[d] \in Row /\ RowAgrees(row[d])
    BY DEF TypeOK, Fresh, RowsAgree
  <1> USE <1>0
  <1>1. CASE UNCHANGED row
    BY <1>1
  <1>2. ASSUME NEW e \in Docs, Adopt(e) \/ Requeue(e) \/ Decline(e) \/ Request(e)
        PROVE  row'[d].path
    <2>1. CASE e # d
      BY <1>2, <2>1 DEF Adopt, Requeue, Decline, Request
    <2>2. CASE e = d
      BY <1>2, <2>2, StatementColumns DEF Adopt, Requeue, Decline, Request, LocalState
    <2> QED BY <2>1, <2>2
  <1>3. ASSUME AttemptFails \/ FailCurrent \/ Filter \/ RecordTarget \/ MarkCurrent
        PROVE  row'[d].path
    <2>1. CASE d # cur
      BY <1>3, <2>1 DEF AttemptFails, FailCurrent, Filter, RecordTarget, MarkCurrent
    <2>2. CASE d = cur /\ (AttemptFails \/ MarkCurrent)
      BY <2>2, StatementColumns DEF AttemptFails, MarkCurrent
    <2>3. CASE d = cur /\ RecordTarget
      BY <2>3, StatementColumns DEF RecordTarget
    <2>4. CASE d = cur /\ (FailCurrent \/ Filter)
      BY <2>4, StatementColumns DEF FailCurrent, Filter, LocalState
    <2> QED BY <1>3, <2>1, <2>2, <2>3, <2>4
  <1>4. SyncScopes => row'[d].path
    <2>1. AbandonPending(row[d]).path
      BY AbandonedColumns
    <2> QED BY <2>1 DEF SyncScopes
  <1>5. Discover => row'[d].path
    BY UpsertColumns DEF Discover
  <1>6. Detect => row'[d].path
    BY DetectedColumns DEF Detect
  <1>7. EndSweep => row'[d].path \/ d \in done
    BY DEF EndSweep
  <1>8. EndPurge => row'[d].path \/ (Aged(d, win) /\ d \notin done)
    BY DEF EndPurge
  <1>9. UNCHANGED row \/ Detect \/ SyncScopes \/ Discover \/ EndSweep \/ EndPurge
        \/ AttemptFails \/ FailCurrent \/ Filter \/ RecordTarget \/ MarkCurrent
        \/ \E e \in Docs : Adopt(e) \/ Requeue(e) \/ Decline(e) \/ Request(e)
    BY WhatWritesRows
  <1> QED BY <1>1, <1>2, <1>3, <1>4, <1>5, <1>6, <1>7, <1>8, <1>9

(* The destination is on record before a file can appear there, only whole *)
(* files appear, and a destination is forgotten only after its file.       *)
THEOREM FilesAreKnown == Spec => []Filed
  <1>1. Init => Filed
    BY DEF Init, Filed, Publishing, NoStrayFile, SweepIsDone, PurgeIsComplete
  <1>2. TypeOK /\ Fresh /\ Filed /\ [Next]_vars => Filed'
    <2> SUFFICES ASSUME TypeOK, Fresh, Filed, [Next]_vars PROVE Filed'
      OBVIOUS
    <2>0. /\ row \in [Docs -> Row] /\ file \in [Docs -> Content]
          /\ todo \subseteq Docs /\ done \subseteq Docs
          /\ QueueIsPending /\ Publishing /\ NoStrayFile /\ SweepIsDone
          /\ PurgeIsComplete
      BY DEF TypeOK, Fresh, Filed
    <2> SUFFICES Publishing' /\ NoStrayFile' /\ SweepIsDone' /\ PurgeIsComplete'
      BY DEF Filed
    <2> USE <2>0 DEF disk, world, setup, work, run, FetchOne
    <2>1. NoStrayFile'
      <3> SUFFICES ASSUME NEW d \in Docs, file'[d] # "none"
                   PROVE  file'[d] = "whole" /\ row'[d].path
        BY DEF NoStrayFile
      <3>1. CASE RenamePart
        <4>1. CASE d = cur
          BY <3>1, <4>1 DEF RenamePart, Publishing
        <4>2. CASE d # cur
          BY <3>1, <4>2 DEF RenamePart, NoStrayFile
        <4> QED BY <4>1, <4>2
      <3>2. CASE ~RenamePart
        <4>1. file'[d] = file[d]
          BY <3>2 DEF Next, RunStep, FetchStep, Midnight, EditFunds, Crash, Start,
             OpenManifest, Adopt, Requeue, Decline, EndReconcile, SyncScopes, Discover,
             Detect, StartDownloads, PassOver, Request, AttemptFails, FailCurrent,
             Filter, RecordTarget, MarkCurrent, OpenPart, WritePart, EndDownloads,
             StopDownloads, LeaveFetch, Unlink, UnlinkFails, EndSweep, RemoveDay,
             RemoveDayFails, EndPurge, vars
        <4>2. file[d] = "whole" /\ row[d].path
          BY <4>1 DEF NoStrayFile
        <4>3. ~(EndSweep /\ d \in done)
          BY <4>1 DEF EndSweep, SweepIsDone
        <4>4. ~(EndPurge /\ Aged(d, win) /\ d \notin done)
          BY <4>1 DEF EndPurge, PurgeIsComplete
        <4> QED BY <4>1, <4>2, <4>3, <4>4, PathsStay
      <3> QED BY <3>1, <3>2
    <2>2. Publishing'
      <3>1. CASE RecordTarget
        <4>1. cur \in Docs /\ row[cur].state = "downloading"
          BY <3>1 DEF RecordTarget, QueueIsPending
        <4>2. row'[cur].path
          BY <3>1, <4>1, StatementColumns DEF RecordTarget
        <4> QED BY <3>1, <4>2 DEF RecordTarget, Publishing
      <3>2. CASE RenamePart
        BY <3>2 DEF RenamePart, Publishing, QueueIsPending
      <3>3. CASE OpenPart \/ WritePart \/ Midnight \/ UNCHANGED vars
        BY <3>3 DEF OpenPart, WritePart, Midnight, vars, Publishing
      <3>4. CASE ~(RecordTarget \/ RenamePart \/ OpenPart \/ WritePart
                   \/ Midnight \/ UNCHANGED vars)
        <4>1. pc' \notin {"stage", "staging", "rename", "mark"}
          BY <3>4 DEF Next, RunStep, FetchStep, EditFunds, Crash, Start,
             OpenManifest, Adopt, Requeue, Decline, EndReconcile, SyncScopes, Discover,
             Detect, StartDownloads, PassOver, Request, AttemptFails, FailCurrent,
             Filter, MarkCurrent, EndDownloads, StopDownloads, LeaveFetch, Unlink,
             UnlinkFails, EndSweep, RemoveDay, RemoveDayFails, EndPurge, Leave
        <4> QED BY <4>1 DEF Publishing
      <3> QED BY <3>1, <3>2, <3>3, <3>4
    <2>3. SweepIsDone'
      <3>1. CASE EndDownloads \/ StopDownloads
        BY <3>1 DEF EndDownloads, StopDownloads, LeaveFetch, SweepIsDone, QueueIsPending
      <3>2. ASSUME NEW d \in Docs, Unlink(d) \/ UnlinkFails(d)
            PROVE  SweepIsDone'
        BY <3>2 DEF Unlink, UnlinkFails, SweepIsDone
      <3>3. CASE Midnight \/ UNCHANGED vars
        BY <3>3 DEF Midnight, vars, SweepIsDone
      <3>4. CASE ~(EndDownloads \/ StopDownloads \/ Midnight \/ UNCHANGED vars
                   \/ \E d \in Docs : Unlink(d) \/ UnlinkFails(d))
        <4>1. pc' # "sweep"
          BY <3>4 DEF Next, RunStep, FetchStep, EditFunds, Crash, Start,
             OpenManifest, Adopt, Requeue, Decline, EndReconcile, SyncScopes, Discover,
             Detect, StartDownloads, PassOver, Request, AttemptFails, FailCurrent,
             Filter, RecordTarget, OpenPart, WritePart, RenamePart, MarkCurrent,
             EndSweep, RemoveDay, RemoveDayFails, EndPurge, Leave
        <4> QED BY <4>1 DEF SweepIsDone
      <3> QED BY <3>1, <3>2, <3>3, <3>4
    <2>4. PurgeIsComplete'
      <3>1. CASE EndSweep
        BY <3>1 DEF EndSweep, PurgeIsComplete
      <3>2. ASSUME NEW d \in Docs, RemoveDay(d) \/ RemoveDayFails(d)
            PROVE  PurgeIsComplete'
        BY <3>2 DEF RemoveDay, RemoveDayFails, SameDay, PurgeIsComplete, Aged, First
      <3>3. CASE Midnight \/ UNCHANGED vars
        BY <3>3 DEF Midnight, vars, PurgeIsComplete, Aged, First
      <3>4. CASE ~(EndSweep \/ Midnight \/ UNCHANGED vars
                   \/ \E d \in Docs : RemoveDay(d) \/ RemoveDayFails(d))
        <4>1. pc' # "purge"
          BY <3>4 DEF Next, RunStep, FetchStep, EditFunds, Crash, Start,
             OpenManifest, Adopt, Requeue, Decline, EndReconcile, SyncScopes, Discover,
             Detect, StartDownloads, PassOver, Request, AttemptFails, FailCurrent,
             Filter, RecordTarget, OpenPart, WritePart, RenamePart, MarkCurrent,
             EndDownloads, StopDownloads, LeaveFetch, Unlink, UnlinkFails, EndPurge,
             Leave
        <4> QED BY <4>1 DEF PurgeIsComplete
      <3> QED BY <3>1, <3>2, <3>3, <3>4
    <2> QED BY <2>1, <2>2, <2>3, <2>4
  <1> QED BY <1>1, <1>2, TypeCorrect, SnapshotsAreFresh, PTL DEF Spec

(* Nothing stands in the archive that the manifest does not know: the file *)
(* between a rename and mark_available (fetch.py) has its destination on   *)
(* record, and a purge that failed half way leaves no orphan.              *)
THEOREM NoFileIsStray == Spec => []NoStrayFile
  <1>1. Filed => NoStrayFile
    BY DEF Filed
  <1> QED BY <1>1, FilesAreKnown, PTL
-----------------------------------------------------------------------------
(* The calendar moves forward, and only at midnight.                       *)
LEMMA DayGrows ==
  ASSUME TypeOK, [Next]_vars
  PROVE  /\ today' \in Nat /\ today' >= today
         /\ today' = today \/ Midnight
  BY DEF TypeOK, Next, RunStep, FetchStep, Midnight, EditFunds, Crash, Start, OpenManifest,
         Adopt, Requeue, Decline, EndReconcile, SyncScopes, Discover, Detect,
         StartDownloads, PassOver, Request, AttemptFails, FailCurrent, Filter,
         RecordTarget, MarkCurrent, OpenPart, WritePart, RenamePart, EndDownloads,
         StopDownloads, LeaveFetch, Unlink, UnlinkFails, EndSweep, RemoveDay,
         RemoveDayFails, EndPurge, world, vars

(* What a step of a run does to the file of a filing.                      *)
LEMMA RunLeavesFiles ==
  ASSUME TypeOK, [Next]_vars, NEW d \in Docs
  PROVE  \/ file'[d] = file[d]
         \/ RenamePart /\ file'[d] = part
         \/ Unlink(d)
         \/ \E e \in Docs : /\ RemoveDay(e) \/ RemoveDayFails(e)
                           /\ Delivery[e] = Delivery[d]
  <1>0. file \in [Docs -> Content]
    BY DEF TypeOK
  <1>1. CASE UNCHANGED file
    BY <1>1
  <1>2. CASE RenamePart
    BY <1>0, <1>2 DEF RenamePart
  <1>3. ASSUME NEW e \in Docs, Unlink(e)
        PROVE  file'[d] = file[d] \/ Unlink(d)
    BY <1>0, <1>3 DEF Unlink
  <1>4. ASSUME NEW e \in Docs, RemoveDay(e) \/ RemoveDayFails(e)
        PROVE  file'[d] = file[d] \/ Delivery[e] = Delivery[d]
    BY <1>0, <1>4 DEF RemoveDay, RemoveDayFails, SameDay
  <1>5. UNCHANGED file \/ RenamePart
        \/ \E e \in Docs : Unlink(e) \/ RemoveDay(e) \/ RemoveDayFails(e)
    BY DEF Next, RunStep, FetchStep, Midnight, EditFunds, Crash, Start,
       OpenManifest, Adopt, Requeue, Decline, EndReconcile, SyncScopes, Discover,
       Detect, StartDownloads, PassOver, Request, AttemptFails, FailCurrent,
       Filter, RecordTarget, MarkCurrent, OpenPart, WritePart, EndDownloads,
       StopDownloads, LeaveFetch, UnlinkFails, EndSweep, EndPurge, disk, vars
  <1> QED BY <1>1, <1>2, <1>3, <1>4, <1>5

(* A window that ended no later than today has its frontier behind today's.*)
LEMMA AgedStays ==
  ASSUME NEW d \in Docs, NEW last \in Int, NEW later \in Int, last =< later,
         Aged(d, last)
  PROVE  Aged(d, later)
  BY DEF Aged, First

(* Only purge's own statement marks a row purged.                          *)
LEMMA PurgedOnlyByPurge ==
  ASSUME TypeOK, Fresh, [Next]_vars, NEW d \in Docs, row'[d].purged
  PROVE  row[d].purged \/ (EndPurge /\ Aged(d, win))
  <1>0. /\ row \in [Docs -> Row] /\ row[d] \in Row /\ RowAgrees(row[d])
    BY DEF TypeOK, Fresh, RowsAgree
  <1> USE <1>0
  <1>1. CASE UNCHANGED row
    BY <1>1
  <1>2. ASSUME NEW e \in Docs, Adopt(e) \/ Requeue(e) \/ Decline(e) \/ Request(e)
        PROVE  row[d].purged
    <2>1. CASE e # d
      BY <1>2, <2>1 DEF Adopt, Requeue, Decline, Request
    <2>2. CASE e = d
      BY <1>2, <2>2, StatementColumns DEF Adopt, Requeue, Decline, Request, LocalState
    <2> QED BY <2>1, <2>2
  <1>3. ASSUME AttemptFails \/ FailCurrent \/ Filter \/ RecordTarget \/ MarkCurrent
        PROVE  row[d].purged
    BY <1>3, StatementColumns
       DEF AttemptFails, FailCurrent, Filter, RecordTarget, MarkCurrent, LocalState
  <1>4. SyncScopes => row[d].purged
    BY StatementColumns DEF SyncScopes, LocalState
  <1>5. Discover => row[d].purged
    BY UpsertColumns DEF Discover
  <1>6. Detect => row[d].purged
    BY DetectedColumns DEF Detect
  <1>7. EndSweep => row[d].purged
    BY StatementColumns DEF EndSweep
  <1>8. EndPurge => row[d].purged \/ Aged(d, win)
    BY DEF EndPurge
  <1>9. UNCHANGED row \/ Detect \/ SyncScopes \/ Discover \/ EndSweep \/ EndPurge
        \/ AttemptFails \/ FailCurrent \/ Filter \/ RecordTarget \/ MarkCurrent
        \/ \E e \in Docs : Adopt(e) \/ Requeue(e) \/ Decline(e) \/ Request(e)
    BY WhatWritesRows
  <1> QED BY <1>1, <1>2, <1>3, <1>4, <1>5, <1>6, <1>7, <1>8, <1>9

(* purge marks only what has aged past the frontier of its own window, and *)
(* the calendar never runs backwards.                                      *)
THEOREM PurgeMarksTheAged == Spec => []PurgedMeansAged
  <1>1. Init => PurgedMeansAged
    <2> SUFFICES ASSUME Init, NEW d \in Docs PROVE ~row[d].purged
      BY DEF PurgedMeansAged
    <2>1. row[d] = NoRow
      BY DEF Init
    <2> QED BY <2>1 DEF NoRow
  <1>2. TypeOK /\ Fresh /\ PurgedMeansAged /\ [Next]_vars => PurgedMeansAged'
    <2> SUFFICES ASSUME TypeOK, Fresh, PurgedMeansAged, [Next]_vars,
                        NEW d \in Docs, row'[d].purged
                 PROVE  Aged(d, today')
      BY DEF PurgedMeansAged, Aged, First
    <2>0. /\ row \in [Docs -> Row] /\ row[d] \in Row /\ RowAgrees(row[d])
          /\ today \in Nat /\ win \in 0..today /\ Delivery[d] \in Nat
      BY DEF TypeOK, Fresh, RowsAgree
    <2> USE <2>0
    <2>1. today' \in Nat /\ today' >= today
      BY DayGrows
    <2>2. row[d].purged \/ (EndPurge /\ Aged(d, win))
      BY PurgedOnlyByPurge
    <2>3. CASE row[d].purged
      <3>1. Aged(d, today)
        BY <2>3 DEF PurgedMeansAged
      <3> QED BY <2>1, <3>1, ArchiveAssumption DEF Aged, First
    <2>4. CASE Aged(d, win)
      BY <2>1, <2>4, ArchiveAssumption DEF Aged, First
    <2> QED BY <2>2, <2>3, <2>4
  <1> QED BY <1>1, <1>2, TypeCorrect, SnapshotsAreFresh, PTL DEF Spec
-----------------------------------------------------------------------------
(* The two steps that put a filing on the shelf.                           *)
Landing(d) == Adopt(d) \/ (MarkCurrent /\ cur = d)

(* They find the file in place and the row still waiting, and touch no     *)
(* other row.                                                              *)
LEMMA LandingRows ==
  ASSUME TypeOK, Fresh, Filed, NEW d \in Docs, Landing(d)
  PROVE  /\ ~row[d].landed /\ row'[d].landed /\ row'[d].state = "available"
         /\ file' = file /\ file[d] = "whole" /\ today' = today
         /\ \A e \in Docs \ {d} : row'[e] = row[e]
  <1>0. /\ row \in [Docs -> Row] /\ row[d] \in Row /\ RowAgrees(row[d])
        /\ QueueIsPending /\ Publishing /\ todo \subseteq Docs
    BY DEF TypeOK, Fresh, RowsAgree, Filed
  <1>1. row[d].state \in PendingStates
    BY <1>0 DEF Landing, Adopt, MarkCurrent, QueueIsPending, FetchOne,
                IntermediateStates, PendingStates
  <1>2. ~row[d].landed
    BY <1>0, <1>1 DEF RowAgrees, PendingStates
  <1>3. row'[d] = MarkAvailable(row[d]) /\ \A e \in Docs \ {d} : row'[e] = row[e]
    BY <1>0 DEF Landing, Adopt, MarkCurrent
  <1>4. file' = file /\ file[d] = "whole" /\ today' = today
    BY <1>0 DEF Landing, Adopt, MarkCurrent, Publishing, world
  <1> QED BY <1>0, <1>2, <1>3, <1>4, StatementColumns

(* A row becomes available with its file in place, and stops being         *)
(* available only when sweep or purge reports its file gone.               *)
LEMMA AvailableRows ==
  ASSUME TypeOK, Fresh, Filed, [Next]_vars, NEW d \in Docs
  PROVE  /\ row'[d].state = "available" => row[d].state = "available"
                                          \/ Landing(d)
         /\ row[d].state = "available" => \/ row'[d].state = "available"
                                          \/ EndSweep /\ d \in done
                                          \/ EndPurge /\ Aged(d, win) /\ d \notin done
  <1> DEFINE Goal ==
        /\ row'[d].state = "available" => row[d].state = "available"
                                         \/ Landing(d)
        /\ row[d].state = "available" => \/ row'[d].state = "available"
                                         \/ EndSweep /\ d \in done
                                         \/ EndPurge /\ Aged(d, win) /\ d \notin done
  <1>0. /\ row \in [Docs -> Row] /\ row[d] \in Row /\ QueueIsPending /\ Publishing
        /\ done \subseteq Docs /\ todo \subseteq Docs
    BY DEF TypeOK, Fresh, Filed
  <1> USE <1>0
  <1>1. CASE UNCHANGED row
    BY <1>1
  <1>2. ASSUME NEW e \in Docs, Adopt(e) \/ Requeue(e) \/ Decline(e) \/ Request(e)
        PROVE  Goal
    <2>1. CASE e # d
      BY <1>2, <2>1 DEF Adopt, Requeue, Decline, Request
    <2>2. CASE e = d
      <3>1. row[d].state \in PendingStates
        BY <1>2, <2>2 DEF Adopt, Requeue, Decline, Request, QueueIsPending, IsNext,
                         IntermediateStates, PendingStates
      <3>2. CASE Adopt(d)
        BY <3>1, <3>2 DEF Landing, PendingStates
      <3>3. CASE Requeue(d) \/ Decline(d) \/ Request(d)
        BY <3>1, <3>3, StatementColumns
           DEF Requeue, Decline, Request, PendingStates, LocalState
      <3> QED BY <1>2, <2>2, <3>2, <3>3
    <2> QED BY <2>1, <2>2
  <1>3. ASSUME AttemptFails \/ FailCurrent \/ Filter \/ RecordTarget \/ MarkCurrent
        PROVE  Goal
    <2>0. cur \in Docs /\ row[cur].state = "downloading"
      BY <1>3 DEF AttemptFails, FailCurrent, Filter, RecordTarget, MarkCurrent,
                  QueueIsPending, FetchOne
    <2>1. CASE d # cur
      BY <1>3, <2>1 DEF AttemptFails, FailCurrent, Filter, RecordTarget, MarkCurrent
    <2>2. CASE d = cur /\ (AttemptFails \/ RecordTarget)
      BY <2>0, <2>2, StatementColumns DEF AttemptFails, RecordTarget
    <2>3. CASE d = cur /\ MarkCurrent
      BY <2>0, <2>3 DEF Landing
    <2>4. CASE d = cur /\ (FailCurrent \/ Filter)
      BY <2>0, <2>4, StatementColumns DEF FailCurrent, Filter, LocalState
    <2> QED BY <1>3, <2>1, <2>2, <2>3, <2>4
  <1>4. ASSUME SyncScopes PROVE Goal
    <2>1. CASE row'[d] = row[d]
      BY <2>1
    <2>2. CASE IsPending(row[d]) /\ row'[d] = SetState(row[d], "abandoned")
      BY <2>2, StatementColumns DEF IsPending, PendingStates, LocalState
    <2> QED BY <1>4, <2>1, <2>2, StatementColumns DEF SyncScopes
  <1>5. Discover => Goal
    BY UpsertColumns DEF Discover, Fresh, RowsAgree
  <1>6. Detect => Goal
    BY DetectedColumns DEF Detect, PendingStates
  <1>7. EndSweep => Goal
    BY StatementColumns DEF EndSweep
  <1>8. EndPurge => Goal
    BY StatementColumns DEF EndPurge
  <1> QED BY <1>1, <1>2, <1>3, <1>4, <1>5, <1>6, <1>7, <1>8, WhatWritesRows

(* A readable filing stays readable unless sweep deletes it or it has aged *)
(* past the frontier.                                                      *)
LEMMA StaysOnShelf ==
  ASSUME TypeOK, Fresh, Filed, [Next]_vars, NEW d \in Docs, OnShelf(d)
  PROVE  OnShelf(d)' \/ Unlink(d) \/ Aged(d, today)
  <1>0. /\ file \in [Docs -> Content] /\ done \subseteq Docs /\ todo \subseteq Docs
        /\ win \in Nat /\ today \in Nat /\ win =< today /\ Delivery[d] \in Nat
        /\ Publishing /\ SweepIsDone /\ PurgeIsComplete
        /\ RetentionDays \in Nat
    BY DEF TypeOK, Filed
  <1> USE <1>0
  <1>1. Aged(d, win) => Aged(d, today)
    BY DEF Aged, First
  <1>2. row'[d].state = "available" \/ Aged(d, today)
    BY <1>1, AvailableRows DEF OnShelf, SweepIsDone, EndSweep
  <1>3. file'[d] = "whole" \/ Unlink(d) \/ Aged(d, today)
    <2>1. CASE UNCHANGED file
      BY <2>1 DEF OnShelf
    <2>2. CASE RenamePart
      BY <2>2 DEF RenamePart, Publishing, OnShelf
    <2>3. ASSUME NEW e \in Docs, Unlink(e)
          PROVE  file'[d] = "whole" \/ Unlink(d)
      BY <2>3 DEF Unlink, OnShelf
    <2>4. ASSUME NEW e \in Docs, RemoveDay(e) \/ RemoveDayFails(e)
          PROVE  file'[d] = "whole" \/ Aged(d, today)
      <3>1. Aged(e, win)
        BY <2>4 DEF RemoveDay, RemoveDayFails, Oldest, PurgeIsComplete
      <3>2. CASE d \in SameDay(e)
        BY <1>1, <3>1, <3>2 DEF SameDay, Aged
      <3>3. CASE d \notin SameDay(e)
        BY <2>4, <3>3 DEF RemoveDay, RemoveDayFails, OnShelf
      <3> QED BY <3>2, <3>3
    <2>5. UNCHANGED file \/ RenamePart
          \/ \E e \in Docs : Unlink(e) \/ RemoveDay(e) \/ RemoveDayFails(e)
      BY DEF Next, RunStep, FetchStep, Midnight, EditFunds, Crash, Start,
         OpenManifest, Adopt, Requeue, Decline, EndReconcile, SyncScopes, Discover,
         Detect, StartDownloads, PassOver, Request, AttemptFails, FailCurrent,
         Filter, RecordTarget, MarkCurrent, OpenPart, WritePart, EndDownloads,
         StopDownloads, LeaveFetch, UnlinkFails, EndSweep, EndPurge, disk, vars
    <2> QED BY <2>1, <2>2, <2>3, <2>4, <2>5
  <1> QED BY <1>2, <1>3 DEF OnShelf

(* A higher version is delivered no earlier, so it ages no earlier.        *)
LEMMA ReplacementsArriveLater ==
  ASSUME NEW d \in Docs, NEW e \in Docs, Pub[d] = Pub[e], Version[e] > Version[d],
         today \in Nat, ~Aged(d, today)
  PROVE  ~Aged(e, today)
  <1>1. Delivery[d] =< Delivery[e]
    BY RefilingsArriveLater, DocsAssumption
  <1> QED BY <1>1, DocsAssumption, ArchiveAssumption DEF Aged, First

(* Whatever is deleted to make room for a higher version leaves a higher   *)
(* version that can be read.                                               *)
LEMMA UnlinkLeavesACopy ==
  ASSUME TypeOK, Fresh, Filed, MarksPointUp, ReaderHasACopy,
         NEW d \in Docs, Unlink(d), ~Aged(d, today)
  PROVE  \E e \in Docs : Pub[e] = Pub[d] /\ Version[e] > Version[d] /\ OnShelf(e)'
  <1> DEFINE w == row[d].by
  <1>0. /\ file \in [Docs -> Content] /\ today \in Nat
        /\ Version \in [Docs -> Nat]
    BY DocsAssumption DEF TypeOK
  <1>1. w \in Docs /\ row[w].state = "available"
    BY DEF Fresh, SweepIsSafe, Unlink
  <1>2. Pub[w] = Pub[d] /\ Version[w] > Version[d]
    BY <1>1, DocsAssumption DEF MarksPointUp
  <1>3. ~Aged(w, today)
    BY <1>0, <1>1, <1>2, ReplacementsArriveLater
  <1>4. OnShelf(w) \/ Replaced(w)
    BY <1>1, <1>3 DEF ReaderHasACopy
  <1>5. \E e \in Docs : Pub[e] = Pub[d] /\ Version[e] > Version[d] /\ OnShelf(e)
    BY <1>0, <1>1, <1>2, <1>4 DEF Replaced
  <1>6. PICK e \in Docs : Pub[e] = Pub[d] /\ Version[e] > Version[d] /\ OnShelf(e)
    BY <1>5
  <1>7. e # d
    BY <1>0, <1>6
  <1>8. OnShelf(e)'
    BY <1>0, <1>6, <1>7 DEF OnShelf, Unlink
  <1> QED BY <1>6, <1>8

(* Inside the retention window every filing the manifest calls available   *)
(* can be read, or a higher version of the same publication can: there is  *)
(* no moment, and no crash, that leaves the reader without either.         *)
THEOREM ReaderIsServed == Spec => []ReaderHasACopy
  <1>1. Init => ReaderHasACopy
    <2> SUFFICES ASSUME Init, NEW d \in Docs PROVE row[d].state # "available"
      BY DEF ReaderHasACopy
    <2>1. row[d] = NoRow
      BY DEF Init
    <2> QED BY <2>1 DEF NoRow
  <1>2. TypeOK /\ Fresh /\ Filed /\ MarksPointUp /\ ReaderHasACopy /\ [Next]_vars
          /\ TypeOK' => ReaderHasACopy'
    <2> SUFFICES ASSUME TypeOK, Fresh, Filed, MarksPointUp, ReaderHasACopy, [Next]_vars,
                        TypeOK', NEW d \in Docs,
                        row'[d].state = "available", ~Aged(d, today')
                 PROVE  OnShelf(d)' \/ Replaced(d)'
      BY DEF ReaderHasACopy, Aged, First
    <2>0. /\ today \in Nat /\ Version \in [Docs -> Nat]
      BY DocsAssumption DEF TypeOK
    <2>1. ~Aged(d, today)
      BY DayGrows, DocsAssumption, ArchiveAssumption DEF Aged, First, TypeOK
    <2>2. CASE row[d].state # "available"
      BY <2>2, AvailableRows, LandingRows DEF OnShelf
    <2>3. CASE row[d].state = "available"
      <3>1. PICK y \in Docs : /\ OnShelf(y)
                              /\ y = d \/ (Pub[y] = Pub[d] /\ Version[y] > Version[d])
        BY <2>1, <2>3 DEF ReaderHasACopy, Replaced
      <3>2. ~Aged(y, today)
        BY <2>0, <2>1, <3>1, ReplacementsArriveLater
      <3>3. CASE OnShelf(y)'
        BY <3>1, <3>3 DEF Replaced
      <3>4. CASE Unlink(y)
        <4>1. PICK z \in Docs : Pub[z] = Pub[y] /\ Version[z] > Version[y] /\ OnShelf(z)'
          BY <3>2, <3>4, UnlinkLeavesACopy
        <4>2. Pub[z] = Pub[d] /\ Version[z] > Version[d]
          BY <2>0, <3>1, <4>1
        <4> QED BY <4>1, <4>2 DEF Replaced
      <3> QED BY <3>1, <3>2, <3>3, <3>4, StaysOnShelf
    <2> QED BY <2>2, <2>3
  <1> QED BY <1>1, <1>2, TypeCorrect, SnapshotsAreFresh, FilesAreKnown,
             SupersessionPointsUp, PTL DEF Spec
-----------------------------------------------------------------------------
(* No step but a landing makes a filing land.                              *)
LEMMA LandedRows ==
  ASSUME TypeOK, Fresh, [Next]_vars, NEW d \in Docs, row'[d].landed
  PROVE  row[d].landed \/ Landing(d)
  <1>0. /\ row \in [Docs -> Row] /\ row[d] \in Row /\ RowAgrees(row[d])
    BY DEF TypeOK, Fresh, RowsAgree
  <1> USE <1>0
  <1>1. CASE UNCHANGED row
    BY <1>1
  <1>2. ASSUME NEW e \in Docs, Adopt(e) \/ Requeue(e) \/ Decline(e) \/ Request(e)
        PROVE  row[d].landed \/ Landing(d)
    <2>1. CASE e # d
      BY <1>2, <2>1 DEF Adopt, Requeue, Decline, Request
    <2>2. CASE e = d /\ (Requeue(e) \/ Decline(e) \/ Request(e))
      BY <2>2, StatementColumns DEF Requeue, Decline, Request, LocalState
    <2> QED BY <1>2, <2>1, <2>2 DEF Landing
  <1>3. ASSUME AttemptFails \/ FailCurrent \/ Filter \/ RecordTarget \/ MarkCurrent
        PROVE  row[d].landed \/ Landing(d)
    <2>1. CASE d # cur
      BY <1>3, <2>1 DEF AttemptFails, FailCurrent, Filter, RecordTarget, MarkCurrent
    <2>2. CASE d = cur /\ (AttemptFails \/ RecordTarget)
      BY <2>2, StatementColumns DEF AttemptFails, RecordTarget
    <2>3. CASE d = cur /\ (FailCurrent \/ Filter)
      BY <2>3, StatementColumns DEF FailCurrent, Filter, LocalState
    <2> QED BY <1>3, <2>1, <2>2, <2>3 DEF Landing
  <1>4. SyncScopes => row[d].landed
    <2>1. AbandonPending(row[d]).landed = row[d].landed
      BY AbandonedColumns
    <2> QED BY <2>1 DEF SyncScopes
  <1>5. Discover => row[d].landed
    BY UpsertColumns DEF Discover
  <1>6. Detect => row[d].landed
    BY DetectedColumns DEF Detect
  <1>7. EndSweep => row[d].landed
    BY StatementColumns DEF EndSweep
  <1>8. EndPurge => row[d].landed
    BY StatementColumns DEF EndPurge
  <1> QED BY <1>1, <1>2, <1>3, <1>4, <1>5, <1>6, <1>7, <1>8, WhatWritesRows

(* No step but a landing makes a filing readable.                          *)
LEMMA ShelfGrowsByLanding ==
  ASSUME TypeOK, Fresh, Filed, [Next]_vars, NEW d \in Docs, OnShelf(d)'
  PROVE  OnShelf(d) \/ Landing(d)
  <1>0. file \in [Docs -> Content] /\ QueueIsPending
    BY DEF TypeOK, Fresh
  <1> SUFFICES ASSUME ~Landing(d) PROVE OnShelf(d)
    OBVIOUS
  <1>1. row[d].state = "available"
    BY AvailableRows DEF OnShelf
  <1>2. CASE RenamePart
    <2>1. cur # d
      BY <1>0, <1>1, <1>2 DEF RenamePart, QueueIsPending, FetchOne
    <2> QED BY <1>0, <1>1, <1>2, <2>1 DEF RenamePart, OnShelf
  <1>3. CASE ~RenamePart
    <2>1. file'[d] = file[d] \/ file'[d] = "none"
      BY <1>0, <1>3 DEF Next, RunStep, FetchStep, Midnight, EditFunds, Crash, Start,
         OpenManifest, Adopt, Requeue, Decline, EndReconcile, SyncScopes, Discover,
         Detect, StartDownloads, PassOver, Request, AttemptFails, FailCurrent,
         Filter, RecordTarget, MarkCurrent, OpenPart, WritePart, EndDownloads,
         StopDownloads, LeaveFetch, Unlink, UnlinkFails, EndSweep, RemoveDay,
         RemoveDayFails, EndPurge, disk, vars
    <2> QED BY <1>1, <2>1 DEF OnShelf
  <1> QED BY <1>2, <1>3

(* Every run of the archive keeps the promise made to the readers: each    *)
(* step puts one new filing on the shelf, withdraws one whose replacement  *)
(* is there, lets what has aged go, or leaves the shelf alone.             *)
THEOREM ArchiveKeepsItsPromise == Spec => KeepsItsPromise
  <1> DEFINE shelf == {d \in Docs : OnShelf(d)}
             ever  == {d \in Docs : row[d].landed}
  <1>1. Init => ShelfView!Init
    <2> SUFFICES ASSUME Init
                 PROVE  \A d \in Docs : ~OnShelf(d) /\ ~row[d].landed
      BY DEF ShelfView!Init, Init
    <2> SUFFICES ASSUME NEW d \in Docs PROVE ~OnShelf(d) /\ ~row[d].landed
      OBVIOUS
    <2>1. row[d] = NoRow
      BY DEF Init
    <2> QED BY <2>1 DEF NoRow, OnShelf
  <1>2. TypeOK /\ Fresh /\ Filed /\ MarksPointUp /\ ReaderHasACopy /\ [Next]_vars
          => [ShelfView!Next]_<<shelf, ever, today>>
    <2> SUFFICES ASSUME TypeOK, Fresh, Filed, MarksPointUp, ReaderHasACopy, [Next]_vars
                 PROVE  [ShelfView!Next]_<<shelf, ever, today>>
      OBVIOUS
    <2>1. CASE Midnight
      <3>1. UNCHANGED <<row, file>>
        BY <2>1 DEF Midnight, disk
      <3> QED BY <2>1, <3>1 DEF Midnight, OnShelf, ShelfView!Next, ShelfView!NextDay
    <2>2. ASSUME NEW d \in Docs, Landing(d)
          PROVE  ShelfView!Publish
      <3>1. /\ shelf' = shelf \cup {d} /\ ever' = ever \cup {d}
            /\ d \in Docs \ ever /\ today' = today
        BY <2>2, LandingRows DEF OnShelf
      <3> QED BY <3>1 DEF ShelfView!Publish
    <2>3. CASE ~Midnight /\ \A d \in Docs : ~Landing(d)
      <3>1. today' = today /\ ever' = ever /\ shelf' \subseteq shelf
        BY <2>3, DayGrows, LandedRows, ShelfGrowsByLanding, RowsOnlyGrow DEF RowGrows
      <3>2. CASE \A d \in Docs : Unlink(d) => Aged(d, today)
        <4>1. \A d \in shelf \ shelf' : d \in Docs /\ Aged(d, today)
          BY <3>2, StaysOnShelf
        <4>2. shelf \ shelf' \in SUBSET ShelfView!Expired
          BY <4>1 DEF ShelfView!Expired, Aged, First
        <4>3. shelf' = shelf \ (shelf \ shelf')
          BY <3>1
        <4> QED BY <3>1, <4>2, <4>3 DEF ShelfView!Next, ShelfView!Expire
      <3>3. ASSUME NEW d \in Docs, Unlink(d), ~Aged(d, today)
            PROVE  [ShelfView!Next]_<<shelf, ever, today>>
        <4>1. \A e \in Docs \ {d} : OnShelf(e)' = OnShelf(e)
          BY <3>3 DEF Unlink, OnShelf, TypeOK
        <4>2. ~OnShelf(d)'
          BY <3>3 DEF Unlink, OnShelf, TypeOK
        <4>3. shelf' = shelf \ {d}
          BY <4>1, <4>2
        <4>4. \E e \in shelf' : ShelfView!Replaces(e, d)
          BY <3>3, UnlinkLeavesACopy DEF ShelfView!Replaces
        <4>5. CASE d \in shelf
          BY <3>1, <4>3, <4>4, <4>5 DEF ShelfView!Next, ShelfView!Withdraw
        <4>6. CASE d \notin shelf
          BY <3>1, <4>3, <4>6
        <4> QED BY <4>5, <4>6
      <3> QED BY <3>2, <3>3
    <2> QED BY <2>1, <2>2, <2>3 DEF ShelfView!Next
  <1> QED BY <1>1, <1>2, TypeCorrect, SnapshotsAreFresh, FilesAreKnown,
             SupersessionPointsUp, ReaderIsServed, PTL
          DEF Spec, KeepsItsPromise, ShelfView!Spec
-----------------------------------------------------------------------------
(* Everything the runs check of one instance at once, for every instance.  *)
THEOREM InvariantHolds == Spec => []IInv
  <1>1. TypeOK /\ Fresh /\ Filed /\ PurgedMeansAged /\ MarksPointUp
          /\ ReaderHasACopy => IInv
    BY DEF IInv, Fresh, Filed
  <1> QED BY <1>1, TypeCorrect, SnapshotsAreFresh, FilesAreKnown, PurgeMarksTheAged,
             SupersessionPointsUp, ReaderIsServed, PTL
-----------------------------------------------------------------------------
(***************************************************************************)
(* The runs and the daily index: Inbox.                                    *)
(***************************************************************************)
(* Up to where the calendar has been looked at: by the run, while there is *)
(* one, which stays with the window it started with.                       *)
Horizon == IF pc = "off" THEN today ELSE win

InboxTypeOK ==
  /\ DOMAIN index \subseteq Days
  /\ landedOn \in [Docs -> Nat]
  /\ left \subseteq Days

(* What is available in the run's own window can be read: a run that a     *)
(* midnight overtook deletes nothing of its own frontier day.              *)
CopiesInRun ==
  \A d \in Docs :
    row[d].state = "available" /\ ~Aged(d, Horizon) => OnShelf(d) \/ Replaced(d)

SweepInWindow == pc = "sweep" => \A d \in todo : ~Aged(d, win)

PurgedBehind == \A d \in Docs : row[d].purged => Aged(d, Horizon)

DaysArePast ==
  /\ \A day \in DOMAIN index : day =< Horizon
  /\ left # {} => pc = "purge" /\ left \subseteq First(win)..win

(* downloaded_at goes with the landing, and no filing arrives before it is *)
(* delivered.                                                              *)
ArrivedInTime ==
  \A d \in Docs :
    /\ row[d].landed <=> landedOn[d] # 0
    /\ landedOn[d] =< today
    /\ row[d].state # "absent" => Delivery[d] =< today
    /\ row[d].landed => Delivery[d] =< landedOn[d]

EntriesArrived ==
  \A day \in DOMAIN index :
    \A d \in index[day].live \cup index[day].gone : d \in Docs /\ landedOn[d] = day

(* The indexes the inbox is through with link nothing the purge deletes.   *)
Rewritten ==
  pc = "purge" =>
    \A day \in DOMAIN index \ left :
      day >= First(win) => \A d \in index[day].live : ~Aged(d, win)

LinksNow ==
  \A day \in DOMAIN index :
    day >= First(Horizon) => \A d \in index[day].live : OnShelf(d) \/ Replaced(d)

Complete ==
  pc = "purge" =>
    \A d \in Docs :
      /\ OnShelf(d) /\ ~Aged(d, win)
      /\ landedOn[d] \in (First(win)..win) \ left
      /\ Indexed(landedOn[d]) \/ landedOn[d] = forDate
      => Indexed(landedOn[d]) /\ d \in index[landedOn[d]].live

InboxInv ==
  /\ InboxTypeOK
  /\ CopiesInRun
  /\ SweepInWindow
  /\ PurgedBehind
  /\ DaysArePast
  /\ ArrivedInTime
  /\ EntriesArrived
  /\ Rewritten
  /\ LinksNow
  /\ Complete

(* What is proved of the archive, of which every step of the inbox is one. *)
Archived == TypeOK /\ Fresh /\ Filed /\ MarksPointUp
-----------------------------------------------------------------------------
LEMMA InboxStepsAreArchiveSteps == [InboxNext]_inboxVars => [Next]_vars
  BY DEF InboxNext, InboxRunStep, BeforeInbox, OpenInbox, WriteIndex, PurgeDirectory,
         PurgeInbox, Dies, inboxVars, Next, RunStep

(* A run keeps its window, and starts with one that ends today.            *)
LEMMA HorizonGrows ==
  ASSUME TypeOK, [Next]_vars
  PROVE  /\ Horizon \in Nat /\ Horizon =< today
         /\ Horizon' \in Nat /\ Horizon' >= Horizon
         /\ pc = "off" \/ pc' = "off" \/ win' = win
  <1>1. today \in Nat /\ win \in 0..today
    BY DEF TypeOK
  <1>2. today' \in Nat /\ today' >= today
    BY DayGrows
  <1>3. \/ win' = win /\ (pc = "off" <=> pc' = "off")
        \/ pc = "off" /\ win' = today
        \/ pc' = "off"
    BY DEF Next, RunStep, FetchStep, Midnight, EditFunds, Crash, Start, OpenManifest,
       Adopt, Requeue, Decline, EndReconcile, SyncScopes, Discover, Detect,
       StartDownloads, PassOver, Request, AttemptFails, FailCurrent, Filter,
       RecordTarget, MarkCurrent, OpenPart, WritePart, RenamePart, EndDownloads,
       StopDownloads, LeaveFetch, Unlink, UnlinkFails, EndSweep, RemoveDay,
       RemoveDayFails, EndPurge, Leave, run, setup, vars
  <1>4. pc = "off" \/ pc' = "off" \/ win' = win
    BY <1>3
  <1>5. CASE pc = "off"
    BY <1>1, <1>2, <1>3, <1>5 DEF Horizon
  <1>6. CASE pc # "off"
    BY <1>1, <1>2, <1>3, <1>6 DEF Horizon
  <1> QED BY <1>4, <1>5, <1>6

(* What a later version ages past, an earlier one does.                    *)
LEMMA EarlierVersionsAge ==
  ASSUME NEW d \in Docs, NEW e \in Docs, Pub[e] = Pub[d], Version[e] > Version[d],
         NEW last \in Int, Aged(e, last)
  PROVE  Aged(d, last)
  <1>1. Delivery[d] =< Delivery[e]
    BY RefilingsArriveLater
  <1>2. Delivery[d] \in Nat /\ Delivery[e] \in Nat
    OBVIOUS
  <1> QED BY <1>1, <1>2 DEF Aged, First
-----------------------------------------------------------------------------
(* Files and rows wait for the inbox before the purge touches them.        *)
LEMMA PurgeWaits ==
  ASSUME [InboxNext]_inboxVars, pc = "purge", ~UNCHANGED <<row, file>>
  PROVE  left = {}
  BY DEF InboxNext, InboxRunStep, BeforeInbox, OpenInbox, EndSweep, WriteIndex,
         PurgeDirectory, PurgeInbox, Dies, Midnight, EditFunds, Crash, disk, inboxVars,
         vars

(* What can be read stays readable, unless the sweep deletes it or it has  *)
(* aged past the frontier of the run that purges.                          *)
LEMMA ReadableStays ==
  ASSUME Archived, [InboxNext]_inboxVars, NEW d \in Docs, OnShelf(d)
  PROVE  OnShelf(d)' \/ Unlink(d) \/ (pc = "purge" /\ left = {} /\ Aged(d, win))
  <1>0. /\ TypeOK /\ Fresh /\ Filed /\ [Next]_vars
        /\ row[d].state = "available" /\ file[d] = "whole"
    BY InboxStepsAreArchiveSteps DEF Archived, OnShelf
  <1>1. CASE UNCHANGED <<row, file>>
    BY <1>0, <1>1 DEF OnShelf
  <1>2. CASE ~UNCHANGED <<row, file>>
    <2>1. \/ row'[d].state = "available"
          \/ pc = "purge" /\ Aged(d, win)
      <3>1. ~(EndSweep /\ d \in done)
        BY <1>0 DEF EndSweep, Filed, SweepIsDone
      <3>2. EndPurge => pc = "purge"
        BY DEF EndPurge
      <3> QED BY <1>0, <3>1, <3>2, AvailableRows
    <2>2. file'[d] = "whole" \/ Unlink(d) \/ (pc = "purge" /\ Aged(d, win))
      <3>1. RenamePart => part = "whole"
        BY <1>0 DEF RenamePart, Filed, Publishing
      <3>2. ASSUME NEW e \in Docs, RemoveDay(e) \/ RemoveDayFails(e),
                   Delivery[e] = Delivery[d]
            PROVE  pc = "purge" /\ Aged(d, win)
        <4>1. pc = "purge" /\ Aged(e, win)
          BY <1>0, <3>2 DEF RemoveDay, RemoveDayFails, Oldest, Filed, PurgeIsComplete
        <4> QED BY <3>2, <4>1 DEF Aged
      <3> QED BY <1>0, <3>1, <3>2, RunLeavesFiles
    <2>3. pc = "purge" => left = {}
      BY <1>2, PurgeWaits
    <2> QED BY <2>1, <2>2, <2>3 DEF OnShelf
  <1> QED BY <1>1, <1>2

(* The sweep of a run that a midnight overtook leaves copies, too.         *)
LEMMA SweepLeavesOne ==
  ASSUME Archived, CopiesInRun, SweepInWindow, NEW d \in Docs, Unlink(d)
  PROVE  \E e \in Docs : Pub[e] = Pub[d] /\ Version[e] > Version[d] /\ OnShelf(e)'
  <1> DEFINE w == row[d].by
  <1>0. /\ file \in [Docs -> Content] /\ win \in Int /\ \A e \in Docs : Version[e] \in Nat
        /\ pc = "sweep" /\ d \in todo /\ Fresh /\ MarksPointUp
    BY DEF Archived, TypeOK, Unlink
  <1>1. w \in Docs /\ row[w].state = "available"
    BY <1>0 DEF Fresh, SweepIsSafe
  <1>2. Pub[w] = Pub[d] /\ Version[w] > Version[d]
    BY <1>0, <1>1 DEF MarksPointUp
  <1>3. ~Aged(w, win)
    BY <1>0, <1>1, <1>2, EarlierVersionsAge DEF SweepInWindow
  <1>4. OnShelf(w) \/ Replaced(w)
    BY <1>0, <1>1, <1>3 DEF CopiesInRun, Horizon
  <1>5. PICK e \in Docs : Pub[e] = Pub[d] /\ Version[e] > Version[d] /\ OnShelf(e)
    BY <1>0, <1>1, <1>2, <1>4 DEF Replaced
  <1>6. e # d
    BY <1>0, <1>5
  <1>7. OnShelf(e)'
    BY <1>0, <1>5, <1>6 DEF OnShelf, Unlink
  <1> QED BY <1>5, <1>7

(* What can be read, itself or in a later version, stays so, as long as it *)
(* has not aged past the frontier of the run that purges.                  *)
LEMMA ServedStays ==
  ASSUME Archived, CopiesInRun, SweepInWindow, [InboxNext]_inboxVars, NEW d \in Docs,
         OnShelf(d) \/ Replaced(d), pc = "purge" /\ left = {} => ~Aged(d, win)
  PROVE  OnShelf(d)' \/ Replaced(d)'
  <1>0. win \in Int /\ \A e \in Docs : Version[e] \in Nat
    BY DEF Archived, TypeOK
  <1>1. PICK y \in Docs : /\ OnShelf(y)
                          /\ y = d \/ (Pub[y] = Pub[d] /\ Version[y] > Version[d])
    BY DEF Replaced
  <1>2. CASE OnShelf(y)'
    BY <1>1, <1>2 DEF Replaced
  <1>3. CASE Unlink(y)
    <2>1. PICK z \in Docs : Pub[z] = Pub[y] /\ Version[z] > Version[y] /\ OnShelf(z)'
      BY <1>3, SweepLeavesOne
    <2>2. Pub[z] = Pub[d] /\ Version[z] > Version[d]
      BY <1>0, <1>1, <2>1
    <2> QED BY <2>1, <2>2 DEF Replaced
  <1>4. CASE pc = "purge" /\ left = {} /\ Aged(y, win)
    <2>1. Aged(d, win)
      BY <1>0, <1>1, <1>4, EarlierVersionsAge
    <2> QED BY <1>4, <2>1
  <1>5. OnShelf(y)' \/ Unlink(y) \/ (pc = "purge" /\ left = {} /\ Aged(y, win))
    BY <1>1, ReadableStays
  <1> QED BY <1>2, <1>3, <1>4, <1>5

LEMMA CopiesStepKeeps ==
  ASSUME Archived, CopiesInRun, SweepInWindow, [InboxNext]_inboxVars
  PROVE  CopiesInRun'
  <1>0. /\ TypeOK /\ Fresh /\ Filed /\ [Next]_vars
    BY InboxStepsAreArchiveSteps DEF Archived
  <1>1. Horizon \in Nat /\ Horizon' \in Nat /\ Horizon' >= Horizon
    BY <1>0, HorizonGrows
  <1> SUFFICES ASSUME NEW d \in Docs, row'[d].state = "available", ~Aged(d, Horizon')
               PROVE  OnShelf(d)' \/ Replaced(d)'
    BY DEF CopiesInRun, Aged, First
  <1>2. ~Aged(d, Horizon)
    BY <1>1, AgedStays
  <1>3. CASE Landing(d)
    BY <1>0, <1>3, LandingRows DEF OnShelf
  <1>4. CASE row[d].state = "available"
    <2>1. OnShelf(d) \/ Replaced(d)
      BY <1>2, <1>4 DEF CopiesInRun
    <2>2. pc = "purge" => ~Aged(d, win)
      BY <1>2 DEF Horizon
    <2> QED BY <2>1, <2>2, ServedStays
  <1> QED BY <1>0, <1>3, <1>4, AvailableRows
-----------------------------------------------------------------------------
(* An index of the next state is one of this state, or was written now.    *)
LEMMA IndexesWritten ==
  ASSUME InboxTypeOK, [InboxNext]_inboxVars, NEW day \in DOMAIN index'
  PROVE  \/ day \in DOMAIN index /\ index'[day] = index[day]
         \/ /\ WriteIndex /\ day \in left /\ left' = left \ {day}
            /\ index'[day] = EntriesOf(day)
  <1>1. CASE UNCHANGED index
    BY <1>1
  <1>2. CASE WriteIndex
    <2>1. Min(left) \in left
      BY <1>2, FirstDayIsLeft DEF WriteIndex, InboxTypeOK, Days
    <2>2. CASE UNCHANGED index
      BY <2>2
    <2>3. CASE index' = [x \in DOMAIN index \cup {Min(left)} |->
                           IF x = Min(left) THEN EntriesOf(Min(left)) ELSE index[x]]
      BY <1>2, <2>1, <2>3 DEF WriteIndex
    <2> QED BY <1>2, <2>2, <2>3 DEF WriteIndex
  <1>3. CASE PurgeInbox
    BY <1>3 DEF PurgeInbox
  <1> QED BY <1>1, <1>2, <1>3
          DEF InboxNext, InboxRunStep, BeforeInbox, OpenInbox, PurgeDirectory, Dies,
              inbox, inboxVars

(* What the inbox has left to look at only changes where it is at work.    *)
LEMMA DaysLeft ==
  ASSUME DaysArePast, [InboxNext]_inboxVars
  PROVE  \/ left' = left /\ (left # {} => pc' = pc /\ win' = win)
         \/ left' = {}
         \/ left' \subseteq left /\ UNCHANGED vars
         \/ left' = (First(win)..win) \cap Days /\ EndSweep /\ OpenInbox
  <1>1. pc # "purge" => left = {}
    BY DEF DaysArePast
  <1>2. CASE BeforeInbox
    BY <1>1, <1>2 DEF BeforeInbox
  <1>3. CASE OpenInbox
    BY <1>3 DEF OpenInbox
  <1>4. CASE WriteIndex
    BY <1>4 DEF WriteIndex
  <1>5. CASE PurgeDirectory \/ PurgeInbox
    BY <1>5 DEF PurgeDirectory, PurgeInbox, inbox
  <1>6. CASE Midnight /\ UNCHANGED inbox
    BY <1>6 DEF Midnight, inbox, run, setup
  <1>7. CASE EditFunds /\ UNCHANGED inbox
    BY <1>1, <1>7 DEF EditFunds, inbox
  <1>8. CASE Dies \/ UNCHANGED inboxVars
    BY <1>8 DEF Dies, inboxVars, inbox, vars
  <1> QED BY <1>2, <1>3, <1>4, <1>5, <1>6, <1>7, <1>8 DEF InboxNext, InboxRunStep

LEMMA DaysStepKeeps ==
  ASSUME TypeOK, InboxTypeOK, DaysArePast, [InboxNext]_inboxVars
  PROVE  DaysArePast'
  <1>0. [Next]_vars /\ win \in Int /\ today \in Nat
    BY InboxStepsAreArchiveSteps DEF TypeOK
  <1>1. Horizon \in Nat /\ Horizon' \in Nat /\ Horizon' >= Horizon
    BY <1>0, HorizonGrows
  <1>2. ASSUME NEW day \in DOMAIN index' PROVE day =< Horizon'
    <2>1. CASE day \in DOMAIN index
      BY <1>1, <2>1 DEF DaysArePast, InboxTypeOK, Days
    <2>2. CASE WriteIndex /\ day \in left
      <3>1. pc = "purge" /\ day \in First(win)..win
        BY <2>2 DEF DaysArePast
      <3>2. Horizon = win
        BY <3>1 DEF Horizon
      <3>3. day \in Int /\ day =< win
        BY <1>0, <3>1, ArchiveAssumption DEF First
      <3> QED BY <1>0, <1>1, <3>2, <3>3
    <2> QED BY <2>1, <2>2, IndexesWritten
  <1>3. left' # {} => pc' = "purge" /\ left' \subseteq First(win')..win'
    <2>1. CASE left' = left /\ (left # {} => pc' = pc /\ win' = win)
      BY <2>1 DEF DaysArePast, First
    <2>2. CASE left' \subseteq left /\ UNCHANGED vars
      BY <2>2 DEF DaysArePast, First, vars
    <2>3. CASE left' = (First(win)..win) \cap Days /\ EndSweep
      BY <2>3 DEF EndSweep, setup, First
    <2> QED BY <2>1, <2>2, <2>3, DaysLeft
  <1> QED BY <1>2, <1>3 DEF DaysArePast

LEMMA LinksStepKeeps ==
  ASSUME Archived, InboxTypeOK, CopiesInRun, SweepInWindow, DaysArePast, EntriesArrived,
         Rewritten, LinksNow, [InboxNext]_inboxVars
  PROVE  LinksNow'
  <1>0. TypeOK /\ [Next]_vars /\ win \in Int
    BY InboxStepsAreArchiveSteps DEF Archived, TypeOK
  <1>1. Horizon \in Nat /\ Horizon' \in Nat /\ Horizon' >= Horizon
    BY <1>0, HorizonGrows
  <1> SUFFICES ASSUME NEW day \in DOMAIN index', day >= First(Horizon'),
                      NEW d \in index'[day].live
               PROVE  OnShelf(d)' \/ Replaced(d)'
    BY DEF LinksNow, First
  <1>2. CASE day \in DOMAIN index /\ index'[day] = index[day]
    <2>1. d \in Docs
      BY <1>2 DEF EntriesArrived
    <2>2. day \in Int /\ day >= First(Horizon)
      BY <1>1, <1>2 DEF First, InboxTypeOK, Days
    <2>3. OnShelf(d) \/ Replaced(d)
      BY <1>2, <2>2 DEF LinksNow
    <2>4. pc = "purge" /\ left = {} => ~Aged(d, win)
      BY <1>2, <2>2 DEF Rewritten, Horizon
    <2> QED BY <2>1, <2>3, <2>4, ServedStays
  <1>3. CASE WriteIndex /\ day \in left /\ index'[day] = EntriesOf(day)
    <2>1. pc = "purge" /\ UNCHANGED vars
      BY <1>3 DEF DaysArePast, WriteIndex
    <2>2. d \in Docs /\ row[d].state = "available" /\ Delivery[d] \in First(win)..win
      BY <1>3 DEF EntriesOf
    <2>3. ~Aged(d, win)
      BY <1>0, <2>2 DEF Aged, First
    <2>4. OnShelf(d) \/ Replaced(d)
      BY <2>1, <2>2, <2>3 DEF CopiesInRun, Horizon
    <2> QED BY <2>1, <2>4 DEF OnShelf, Replaced, vars
  <1> QED BY <1>2, <1>3, IndexesWritten
-----------------------------------------------------------------------------
(* Only discovery makes rows, of what was delivered by then.               *)
LEMMA RowsAppear ==
  ASSUME Archived, [Next]_vars, NEW d \in Docs,
         row[d].state = "absent", row'[d].state # "absent"
  PROVE  Delivery[d] =< today
  <1>0. /\ row \in [Docs -> Row] /\ row[d] \in Row /\ RowAgrees(row[d])
        /\ QueueIsPending /\ SweepIsSafe /\ today \in Nat /\ dwin \in 0..today
        /\ todo \subseteq Docs /\ done \subseteq Docs
    BY DEF Archived, TypeOK, Fresh, RowsAgree
  <1> USE <1>0
  <1>1. CASE UNCHANGED row
    BY <1>1
  <1>2. ASSUME NEW e \in Docs, Adopt(e) \/ Requeue(e) \/ Decline(e) \/ Request(e)
        PROVE  FALSE
    <2>1. row[e].state \in PendingStates
      BY <1>2 DEF Adopt, Requeue, Decline, Request, QueueIsPending, IsNext,
                  IntermediateStates, PendingStates
    <2>2. e # d
      BY <2>1 DEF PendingStates
    <2> QED BY <1>2, <2>2 DEF Adopt, Requeue, Decline, Request
  <1>3. CASE AttemptFails \/ FailCurrent \/ Filter \/ RecordTarget \/ MarkCurrent
    <2>1. row[cur].state = "downloading"
      BY <1>3 DEF AttemptFails, FailCurrent, Filter, RecordTarget, MarkCurrent,
                  QueueIsPending, FetchOne
    <2>2. cur # d
      BY <2>1
    <2> QED BY <1>3, <2>2 DEF AttemptFails, FailCurrent, Filter, RecordTarget, MarkCurrent
  <1>4. CASE SyncScopes
    BY <1>4 DEF SyncScopes, AbandonPending, IsPending, PendingStates
  <1>5. CASE Discover
    <2>1. Delivery[d] \in First(dwin)..dwin
      BY <1>5 DEF Discover
    <2>2. Delivery[d] \in Nat /\ First(dwin) \in Int
      BY DEF First
    <2> QED BY <2>1, <2>2
  <1>6. CASE Detect
    BY <1>6, DetectedColumns DEF Detect, CorrelatableStates, PendingStates
  <1>7. CASE EndSweep
    BY <1>7 DEF EndSweep, SweepIsSafe
  <1>8. CASE EndPurge
    BY <1>8 DEF EndPurge
  <1> QED BY <1>1, <1>2, <1>3, <1>4, <1>5, <1>6, <1>7, <1>8, WhatWritesRows

(* downloaded_at is written by the step that lands the filing, once.       *)
LEMMA LandingIsStamped ==
  ASSUME Archived, InboxTypeOK, [InboxNext]_inboxVars, NEW d \in Docs
  PROVE  \/ row'[d].landed /\ ~row[d].landed /\ landedOn'[d] = today
         \/ (row'[d].landed <=> row[d].landed) /\ landedOn'[d] = landedOn[d]
  <1>0. /\ row \in [Docs -> Row] /\ row[d] \in Row /\ TypeOK /\ Fresh /\ [Next]_vars
    BY InboxStepsAreArchiveSteps DEF Archived, TypeOK
  <1>1. row[d].landed => row'[d].landed
    BY <1>0, RowsOnlyGrow DEF RowGrows
  <1>2. CASE BeforeInbox
    BY <1>1, <1>2 DEF BeforeInbox, Stamp
  <1>3. CASE OpenInbox
    <2>1. row'[d].landed <=> row[d].landed
      BY <1>0, <1>3, StatementColumns DEF OpenInbox, EndSweep
    <2> QED BY <1>3, <2>1 DEF OpenInbox
  <1>4. CASE PurgeInbox
    <2>1. row'[d].landed <=> row[d].landed
      BY <1>0, <1>4, StatementColumns DEF PurgeInbox, EndPurge
    <2> QED BY <1>4, <2>1 DEF PurgeInbox
  <1>5. CASE UNCHANGED <<row, landedOn>>
    BY <1>5
  <1>6. BeforeInbox \/ OpenInbox \/ PurgeInbox \/ UNCHANGED <<row, landedOn>>
    BY DEF InboxNext, InboxRunStep, WriteIndex, PurgeDirectory, RemoveDay, RemoveDayFails,
           Dies, Crash, Midnight, EditFunds, disk, inbox, inboxVars, vars
  <1> QED BY <1>2, <1>3, <1>4, <1>5, <1>6

LEMMA ArrivalsStepKeep ==
  ASSUME Archived, InboxTypeOK, ArrivedInTime, [InboxNext]_inboxVars, Archived'
  PROVE  ArrivedInTime'
  <1>0. /\ TypeOK /\ [Next]_vars /\ today \in Nat /\ today > 0
        /\ landedOn \in [Docs -> Nat]
    BY InboxStepsAreArchiveSteps DEF Archived, TypeOK, InboxTypeOK
  <1>1. today' \in Nat /\ today' >= today
    BY <1>0, DayGrows
  <1> SUFFICES ASSUME NEW d \in Docs
               PROVE  /\ row'[d].landed <=> landedOn'[d] # 0
                      /\ landedOn'[d] =< today'
                      /\ row'[d].state # "absent" => Delivery[d] =< today'
                      /\ row'[d].landed => Delivery[d] =< landedOn'[d]
    BY DEF ArrivedInTime
  <1>2. /\ row[d].landed <=> landedOn[d] # 0
        /\ landedOn[d] =< today /\ landedOn[d] \in Nat /\ Delivery[d] \in Nat
        /\ row[d].state # "absent" => Delivery[d] =< today
        /\ row[d].landed => Delivery[d] =< landedOn[d]
    BY <1>0 DEF ArrivedInTime
  <1>3. row'[d].state # "absent" => Delivery[d] =< today
    BY <1>0, <1>2, RowsAppear
  <1>4. row'[d].landed => row'[d].state # "absent"
    BY DEF Archived, Fresh, RowsAgree, RowAgrees
  <1>5. CASE row'[d].landed /\ ~row[d].landed /\ landedOn'[d] = today
    BY <1>0, <1>1, <1>2, <1>3, <1>4, <1>5
  <1>6. CASE (row'[d].landed <=> row[d].landed) /\ landedOn'[d] = landedOn[d]
    BY <1>0, <1>1, <1>2, <1>3, <1>6
  <1> QED BY <1>5, <1>6, LandingIsStamped

(* An entry's day of arrival does not change any more.                     *)
LEMMA EntriesStepKeep ==
  ASSUME Archived, InboxTypeOK, ArrivedInTime, EntriesArrived, [InboxNext]_inboxVars
  PROVE  EntriesArrived'
  <1> SUFFICES ASSUME NEW day \in DOMAIN index',
                      NEW d \in index'[day].live \cup index'[day].gone
               PROVE  d \in Docs /\ landedOn'[d] = day
    BY DEF EntriesArrived
  <1>1. CASE day \in DOMAIN index /\ index'[day] = index[day]
    <2>1. d \in Docs /\ landedOn[d] = day /\ day # 0
      BY <1>1 DEF EntriesArrived, InboxTypeOK, Days
    <2>2. row[d].landed
      BY <2>1 DEF ArrivedInTime
    <2> QED BY <2>1, <2>2, LandingIsStamped
  <1>2. CASE WriteIndex /\ index'[day] = EntriesOf(day)
    BY <1>2 DEF WriteIndex, EntriesOf
  <1> QED BY <1>1, <1>2, IndexesWritten

LEMMA InboxTypesKept ==
  ASSUME TypeOK, InboxTypeOK, [InboxNext]_inboxVars
  PROVE  InboxTypeOK'
  <1>0. today \in Nat /\ left \subseteq Days
    BY DEF TypeOK, InboxTypeOK
  <1>1. DOMAIN index' \subseteq Days
    BY <1>0, IndexesWritten DEF InboxTypeOK
  <1>2. landedOn' \in [Docs -> Nat]
    <2>1. CASE BeforeInbox
      BY <1>0, <2>1 DEF BeforeInbox, Stamp, InboxTypeOK
    <2>2. CASE UNCHANGED landedOn
      BY <2>2 DEF InboxTypeOK
    <2> QED BY <2>1, <2>2 DEF InboxNext, InboxRunStep, OpenInbox, WriteIndex,
            PurgeDirectory, PurgeInbox, Dies, inbox, inboxVars
  <1>3. left' \subseteq Days
    BY <1>0 DEF InboxNext, InboxRunStep, BeforeInbox, OpenInbox, WriteIndex,
            PurgeDirectory, PurgeInbox, Dies, inbox, inboxVars
  <1> QED BY <1>1, <1>2, <1>3 DEF InboxTypeOK

LEMMA SweepWindowStepKeeps ==
  ASSUME TypeOK, SweepInWindow, [Next]_vars
  PROVE  SweepInWindow'
  <1>0. win \in Int
    BY DEF TypeOK
  <1>1. CASE EndDownloads \/ StopDownloads
    BY <1>0, <1>1 DEF EndDownloads, StopDownloads, LeaveFetch, Doomed, Correlatable, setup,
                SweepInWindow, Aged, First
  <1>2. ASSUME NEW d \in Docs, Unlink(d) \/ UnlinkFails(d)
        PROVE  SweepInWindow'
    <2>1. pc = "sweep" /\ win' = win /\ todo' \subseteq todo
      BY <1>2 DEF Unlink, UnlinkFails, setup
    <2> QED BY <2>1 DEF SweepInWindow, Aged, First
  <1>3. CASE Midnight \/ UNCHANGED vars
    BY <1>3 DEF Midnight, run, setup, work, vars, SweepInWindow, Aged, First
  <1>4. CASE ~(EndDownloads \/ StopDownloads \/ Midnight \/ UNCHANGED vars
               \/ \E d \in Docs : Unlink(d) \/ UnlinkFails(d))
    <2>1. pc' # "sweep"
      BY <1>4 DEF Next, RunStep, FetchStep, EditFunds, Crash, Start,
         OpenManifest, Adopt, Requeue, Decline, EndReconcile, SyncScopes, Discover,
         Detect, StartDownloads, PassOver, Request, AttemptFails, FailCurrent,
         Filter, RecordTarget, OpenPart, WritePart, RenamePart, MarkCurrent,
         EndSweep, RemoveDay, RemoveDayFails, EndPurge, Leave, run
    <2> QED BY <2>1 DEF SweepInWindow
  <1> QED BY <1>1, <1>2, <1>3, <1>4

LEMMA AgedStepKeeps ==
  ASSUME Archived, PurgedBehind, [Next]_vars
  PROVE  PurgedBehind'
  <1>0. TypeOK /\ Fresh /\ win \in Nat
    BY DEF Archived, TypeOK
  <1>1. Horizon \in Nat /\ Horizon' \in Nat /\ Horizon' >= Horizon
    BY <1>0, HorizonGrows
  <1> SUFFICES ASSUME NEW d \in Docs, row'[d].purged
               PROVE  Aged(d, Horizon')
    BY DEF PurgedBehind, Aged, First
  <1>2. Aged(d, Horizon)
    BY <1>0, PurgedOnlyByPurge DEF PurgedBehind, EndPurge, Horizon
  <1> QED BY <1>1, <1>2, AgedStays
-----------------------------------------------------------------------------
(* How a run gets to its purge, and what it does there.                    *)
LEMMA PurgeSteps ==
  ASSUME Archived, InboxTypeOK, DaysArePast, [InboxNext]_inboxVars, pc' = "purge"
  PROVE  \/ EndSweep /\ OpenInbox
         \/ /\ pc = "purge" /\ UNCHANGED <<row, win, landedOn, forDate>>
            /\ \A d \in Docs : file'[d] = "whole" => file[d] = "whole"
            /\ WriteIndex \/ UNCHANGED <<index, left>>
  <1>0. file \in [Docs -> Content] /\ [Next]_vars
    BY InboxStepsAreArchiveSteps DEF Archived, TypeOK
  <1>1. CASE WriteIndex
    <2>1. pc = "purge" /\ UNCHANGED vars
      BY <1>1 DEF WriteIndex, DaysArePast
    <2> QED BY <1>1, <2>1 DEF WriteIndex, vars
  <1>2. ASSUME NEW e \in Docs, RemoveDay(e) \/ RemoveDayFails(e), UNCHANGED inbox
        PROVE  /\ pc = "purge" /\ UNCHANGED <<row, win, landedOn, forDate, index, left>>
               /\ \A d \in Docs : file'[d] = "whole" => file[d] = "whole"
    BY <1>0, <1>2 DEF RemoveDay, RemoveDayFails, setup, inbox
  <1>3. CASE Midnight /\ UNCHANGED inbox
    BY <1>3 DEF Midnight, disk, run, setup, inbox
  <1>4. CASE UNCHANGED inboxVars
    BY <1>4 DEF inboxVars, vars, inbox
  <1>5. CASE OpenInbox
    BY <1>5 DEF OpenInbox
  <1>6. CASE BeforeInbox
    BY <1>6 DEF BeforeInbox, RunStep, FetchStep, Start, OpenManifest,
       Adopt, Requeue, Decline, EndReconcile, SyncScopes, Discover, Detect,
       StartDownloads, PassOver, Request, AttemptFails, FailCurrent, Filter,
       RecordTarget, MarkCurrent, OpenPart, WritePart, RenamePart, EndDownloads,
       StopDownloads, LeaveFetch, Unlink, UnlinkFails, RemoveDay, RemoveDayFails,
       EndPurge, Leave
  <1>7. ~EditFunds /\ ~Dies /\ ~PurgeInbox
    BY DEF EditFunds, Dies, Crash, Leave, PurgeInbox, EndPurge, run
  <1> QED BY <1>1, <1>2, <1>3, <1>4, <1>5, <1>6, <1>7
          DEF InboxNext, InboxRunStep, PurgeDirectory

LEMMA RewrittenStepKeeps ==
  ASSUME Archived, InboxTypeOK, DaysArePast, Rewritten, [InboxNext]_inboxVars
  PROVE  Rewritten'
  <1>0. win \in Int
    BY DEF Archived, TypeOK
  <1> SUFFICES ASSUME pc' = "purge", NEW day \in DOMAIN index' \ left',
                      day >= First(win'), NEW d \in index'[day].live
               PROVE  ~Aged(d, win')
    BY DEF Rewritten, Aged, First
  <1>1. CASE EndSweep /\ OpenInbox
    <2>1. win' = win /\ index' = index /\ left' = (First(win)..win) \cap Days
      BY <1>1 DEF EndSweep, OpenInbox, setup
    <2>2. Horizon = win
      BY <1>1 DEF EndSweep, Horizon
    <2>3. day \in Days /\ day =< win /\ day >= First(win)
      BY <2>1, <2>2 DEF InboxTypeOK, DaysArePast
    <2>4. day \in First(win)..win
      BY <1>0, <2>3, ArchiveAssumption DEF First, Days
    <2> QED BY <2>1, <2>3, <2>4
  <1>2. CASE pc = "purge" /\ win' = win /\ UNCHANGED <<index, left>>
    BY <1>2 DEF Rewritten
  <1>3. CASE pc = "purge" /\ win' = win /\ WriteIndex
    <2>1. CASE day \in DOMAIN index /\ index'[day] = index[day] /\ day \notin left
      BY <1>3, <2>1 DEF Rewritten
    <2>2. CASE index'[day] = EntriesOf(day)
      <3>1. d \in Docs /\ Delivery[d] \in First(win)..win
        BY <2>2 DEF EntriesOf
      <3> QED BY <1>0, <1>3, <3>1, ArchiveAssumption DEF Aged, First
    <2>3. Min(left) \in left /\ left' = left \ {Min(left)}
      BY <1>3, FirstDayIsLeft DEF WriteIndex, InboxTypeOK, Days
    <2>4. \/ day \in DOMAIN index /\ index'[day] = index[day] /\ day \notin left
          \/ index'[day] = EntriesOf(day)
      <3>1. CASE day # Min(left)
        BY <1>3, <2>3, <3>1 DEF WriteIndex
      <3>2. CASE day = Min(left)
        BY <1>3, <3>2 DEF WriteIndex, Indexed
      <3> QED BY <3>1, <3>2
    <2> QED BY <2>1, <2>2, <2>4
  <1> QED BY <1>1, <1>2, <1>3, PurgeSteps

(* The day the inbox writes gets all that arrived then and can be read.    *)
LEMMA CompleteStepKeeps ==
  ASSUME Archived, InboxTypeOK, DaysArePast, ArrivedInTime, PurgedBehind, Complete,
         [InboxNext]_inboxVars, Archived', ArrivedInTime'
  PROVE  Complete'
  <1>0. /\ win \in Int /\ today' \in 1..MaxDay /\ landedOn \in [Docs -> Nat]
        /\ landedOn' \in [Docs -> Nat]
    BY InboxTypesKept DEF Archived, TypeOK, InboxTypeOK
  <1> SUFFICES ASSUME pc' = "purge", NEW d \in Docs, OnShelf(d)', ~Aged(d, win'),
                      landedOn'[d] \in First(win')..win', landedOn'[d] \notin left',
                      landedOn'[d] \in DOMAIN index' \/ landedOn'[d] = forDate'
               PROVE  /\ landedOn'[d] \in DOMAIN index'
                      /\ d \in index'[landedOn'[d]].live
    BY DEF Complete, Indexed, Aged, First
  <1>1. CASE EndSweep /\ OpenInbox
    <2>1. win' = win /\ left' = (First(win)..win) \cap Days
      BY <1>1 DEF EndSweep, OpenInbox, setup
    <2>2. row'[d].landed
      BY DEF OnShelf, Archived, Fresh, RowsAgree, RowAgrees
    <2>3. landedOn'[d] # 0 /\ landedOn'[d] =< today'
      BY <2>2 DEF ArrivedInTime
    <2>4. landedOn'[d] \in Days
      BY <1>0, <2>3 DEF Days
    <2> QED BY <2>1, <2>4 DEF First
  <1>2. ASSUME pc = "purge", UNCHANGED <<row, win, landedOn, forDate>>,
               \A x \in Docs : file'[x] = "whole" => file[x] = "whole"
        PROVE  /\ OnShelf(d) /\ ~Aged(d, win) /\ landedOn[d] \in First(win)..win
               /\ landedOn'[d] = landedOn[d] /\ forDate' = forDate
    BY <1>2 DEF OnShelf, Aged, First
  <1>3. CASE /\ pc = "purge" /\ UNCHANGED <<row, win, landedOn, forDate>>
             /\ \A x \in Docs : file'[x] = "whole" => file[x] = "whole"
             /\ UNCHANGED <<index, left>>
    BY <1>2, <1>3 DEF Complete, Indexed
  <1>4. CASE /\ pc = "purge" /\ UNCHANGED <<row, win, landedOn, forDate>>
             /\ \A x \in Docs : file'[x] = "whole" => file[x] = "whole"
             /\ WriteIndex
    <2> DEFINE day == Min(left)
    <2>1. day \in left /\ left' = left \ {day}
      BY <1>4, FirstDayIsLeft DEF WriteIndex, InboxTypeOK, Days
    <2>2. /\ OnShelf(d) /\ ~Aged(d, win) /\ landedOn[d] \in First(win)..win
          /\ landedOn'[d] = landedOn[d] /\ forDate' = forDate
      BY <1>2, <1>4
    <2>3. index' = IF day = forDate \/ Indexed(day)
                   THEN [x \in DOMAIN index \cup {day} |->
                           IF x = day THEN EntriesOf(day) ELSE index[x]]
                   ELSE index
      BY <1>4 DEF WriteIndex
    <2>4. CASE landedOn[d] = day
      <3>1. row[d].state = "available" /\ ~row[d].purged
        BY <2>2 DEF OnShelf, Archived, Fresh, RowsAgree, RowAgrees
      <3>2. row[d].landed
        BY <3>1 DEF Archived, Fresh, RowsAgree, RowAgrees
      <3>3. Delivery[d] =< landedOn[d]
        BY <3>2 DEF ArrivedInTime
      <3>4. Delivery[d] \in First(win)..win
        BY <1>0, <2>2, <3>3 DEF Aged, First
      <3>5. d \in EntriesOf(day).live
        BY <2>4, <3>1, <3>4 DEF EntriesOf
      <3>6. day = forDate \/ Indexed(day)
        BY <2>2, <2>3, <2>4 DEF Indexed
      <3> QED BY <2>2, <2>3, <2>4, <3>5, <3>6
    <2>5. CASE landedOn[d] # day
      <3>1. landedOn[d] \notin left
        BY <2>1, <2>2, <2>5
      <3>2. Indexed(landedOn[d]) \/ landedOn[d] = forDate
        BY <2>2, <2>3, <2>5 DEF Indexed
      <3>3. Indexed(landedOn[d]) /\ d \in index[landedOn[d]].live
        BY <1>4, <2>2, <3>1, <3>2 DEF Complete
      <3> HIDE DEF day
      <3> QED BY <2>2, <2>3, <2>5, <3>3 DEF Indexed
    <2> QED BY <2>4, <2>5
  <1> QED BY <1>1, <1>3, <1>4, PurgeSteps
-----------------------------------------------------------------------------
(* The archive's own invariants hold along with the inbox's steps.         *)
LEMMA ArchivedHolds == InboxSpec => []Archived
  <1>1. InboxInit => Init
    BY DEF InboxInit
  <1>2. InboxSpec => Spec
    BY <1>1, InboxStepsAreArchiveSteps, PTL DEF InboxSpec, Spec
  <1> QED BY <1>2, TypeCorrect, SnapshotsAreFresh, FilesAreKnown, SupersessionPointsUp,
             PTL DEF Archived

LEMMA InboxInvStarts == InboxInit => InboxInv
  <1> SUFFICES ASSUME InboxInit PROVE InboxInv
    OBVIOUS
  <1>1. /\ pc = "off" /\ index = <<>> /\ landedOn = [d \in Docs |-> 0] /\ left = {}
        /\ today \in Nat
        /\ \A d \in Docs : row[d] = NoRow
    BY DEF InboxInit, Init
  <1>2. DOMAIN index = {}
    BY <1>1
  <1>3. ASSUME NEW d \in Docs
        PROVE  row[d].state = "absent" /\ ~row[d].landed /\ ~row[d].purged
    <2>1. row[d] = NoRow
      BY <1>1
    <2> QED BY <2>1 DEF NoRow
  <1>4. InboxTypeOK /\ DaysArePast /\ EntriesArrived /\ Rewritten /\ LinksNow
    BY <1>1, <1>2 DEF InboxTypeOK, DaysArePast, EntriesArrived, Rewritten, LinksNow
  <1>5. CopiesInRun
    BY <1>3 DEF CopiesInRun
  <1>6. PurgedBehind
    BY <1>3 DEF PurgedBehind
  <1>7. ArrivedInTime
    <2>1. landedOn = [d \in Docs |-> 0] /\ today \in Nat
      BY <1>1
    <2>2. \A d \in Docs : landedOn[d] = 0
      BY <2>1, Zenon
    <2>3. 0 =< today
      BY <2>1
    <2>4. \A d \in Docs : landedOn[d] =< today
      BY <2>2, <2>3, Zenon
    <2> QED BY <1>3, <2>2, <2>4, Zenon DEF ArrivedInTime
  <1> QED BY <1>1, <1>4, <1>5, <1>6, <1>7 DEF InboxInv, SweepInWindow, Complete

LEMMA InboxInvStepKeeps ==
  ASSUME Archived, InboxInv, [InboxNext]_inboxVars, Archived'
  PROVE  InboxInv'
  <1>1. /\ TypeOK /\ [Next]_vars
        /\ InboxTypeOK /\ CopiesInRun /\ SweepInWindow /\ PurgedBehind /\ DaysArePast
        /\ ArrivedInTime /\ EntriesArrived /\ Rewritten /\ LinksNow /\ Complete
    BY InboxStepsAreArchiveSteps DEF InboxInv, Archived
  <1>2. InboxTypeOK' /\ ArrivedInTime'
    BY <1>1, InboxTypesKept, ArrivalsStepKeep
  <1>3. CopiesInRun' /\ SweepInWindow' /\ PurgedBehind'
    BY <1>1, CopiesStepKeeps, SweepWindowStepKeeps, AgedStepKeeps
  <1>4. DaysArePast' /\ EntriesArrived' /\ Rewritten' /\ LinksNow'
    BY <1>1, DaysStepKeeps, EntriesStepKeep, RewrittenStepKeeps, LinksStepKeeps
  <1>5. Complete'
    BY <1>1, <1>2, CompleteStepKeeps
  <1> QED BY <1>2, <1>3, <1>4, <1>5 DEF InboxInv

(* InboxInv is inductive, given what is proved of the archive.             *)
THEOREM InboxInvHolds == InboxSpec => []InboxInv
  <1>1. InboxInit => InboxInv
    BY InboxInvStarts
  <1>2. Archived /\ Archived' /\ InboxInv /\ [InboxNext]_inboxVars => InboxInv'
    BY InboxInvStepKeeps
  <1> QED BY <1>1, <1>2, ArchivedHolds, PTL DEF InboxSpec

(* Whichever runs have died and whatever the purge has emptied since, a    *)
(* link leads nowhere only if it is to a filing that has aged, in an index *)
(* that is itself behind the frontier.                                     *)
THEOREM LinksAlwaysLead == InboxSpec => []LinksLead
  <1>1. Archived /\ InboxInv => LinksLead
    <2> SUFFICES ASSUME Archived, InboxInv,
                        NEW day \in DOMAIN index, NEW d \in index[day].live
                 PROVE  \/ OnShelf(d) \/ Replaced(d)
                        \/ day < First(today) /\ Aged(d, today)
      BY DEF LinksLead
    <2>1. today \in Nat /\ win \in 0..today /\ day \in Nat \ {0}
      BY DEF Archived, TypeOK, InboxInv, InboxTypeOK, Days
    <2>2. CASE day >= First(today)
      <3>1. day >= First(Horizon)
        BY <2>1, <2>2 DEF Horizon, First
      <3> QED BY <3>1 DEF InboxInv, LinksNow
    <2>3. CASE day < First(today)
      <3>1. d \in Docs /\ landedOn[d] = day
        BY DEF InboxInv, EntriesArrived
      <3>2. Delivery[d] =< day
        BY <2>1, <3>1 DEF InboxInv, ArrivedInTime
      <3>3. Delivery[d] < First(today)
        BY <2>1, <2>3, <3>1, <3>2 DEF First
      <3> QED BY <2>3, <3>3 DEF Aged
    <2> QED BY <2>1, <2>2, <2>3 DEF First
  <1> QED BY <1>1, ArchivedHolds, InboxInvHolds, PTL

(* A run that is through with its inbox has listed every arrival it owes.  *)
THEOREM EveryArrivalIsListed == InboxSpec => []ArrivalsAreListed
  <1>1. Archived /\ InboxInv => ArrivalsAreListed
    <2> SUFFICES ASSUME Archived, InboxInv, pc = "purge", left = {}, NEW d \in Docs,
                        OnShelf(d), ~Aged(d, win), landedOn[d] >= First(win),
                        \/ Indexed(landedOn[d])
                        \/ landedOn[d] = win /\ forDate = win
                 PROVE  Indexed(landedOn[d]) /\ d \in index[landedOn[d]].live
      BY DEF ArrivalsAreListed
    <2>1. win \in Nat /\ landedOn[d] \in Nat /\ Horizon = win
      BY DEF Archived, TypeOK, InboxInv, InboxTypeOK, Horizon
    <2>2. landedOn[d] =< win
      BY <2>1 DEF InboxInv, DaysArePast, Indexed
    <2>3. landedOn[d] \in First(win)..win
      BY <2>1, <2>2 DEF First
    <2>4. Complete
      BY DEF InboxInv
    <2> QED BY <2>3, <2>4 DEF Complete
  <1> QED BY <1>1, ArchivedHolds, InboxInvHolds, PTL

(* What an index has listed it keeps, until the filing leaves the window.  *)
THEOREM NothingEverVanishes == InboxSpec => NothingVanishes
  <1>1. ASSUME Archived, InboxInv, [InboxNext]_inboxVars
        PROVE  [\A day \in DOMAIN index \cap DOMAIN index' :
                  \A d \in index[day].live \cup index[day].gone :
                    \/ d \in index'[day].live \cup index'[day].gone
                    \/ Aged(d, win)]_inboxVars
    <2> SUFFICES ASSUME NEW day \in DOMAIN index, day \in DOMAIN index',
                        NEW d \in index[day].live \cup index[day].gone
                 PROVE  \/ d \in index'[day].live \cup index'[day].gone
                        \/ Aged(d, win)
      BY <1>1
    <2>1. InboxTypeOK /\ DaysArePast /\ PurgedBehind /\ ArrivedInTime /\ win \in Int
      BY <1>1 DEF InboxInv, Archived, TypeOK
    <2>2. CASE index'[day] = index[day]
      BY <2>2
    <2>3. CASE WriteIndex /\ day \in left /\ index'[day] = EntriesOf(day)
      <3>1. pc = "purge" /\ day \in First(win)..win
        BY <2>1, <2>3 DEF DaysArePast
      <3>2. d \in Docs /\ landedOn[d] = day /\ day # 0
        BY <1>1, <2>1 DEF InboxInv, EntriesArrived, InboxTypeOK, Days
      <3>3. row[d].landed /\ Delivery[d] =< day
        BY <2>1, <3>2 DEF ArrivedInTime
      <3>4. RowAgrees(row[d])
        BY <1>1, <3>2 DEF Archived, Fresh, RowsAgree
      <3>5. CASE Aged(d, win)
        BY <3>5
      <3>6. CASE ~Aged(d, win)
        <4>1. ~row[d].purged
          BY <2>1, <3>1, <3>2, <3>6 DEF PurgedBehind, Horizon
        <4>2. Delivery[d] \in First(win)..win
          BY <2>1, <3>1, <3>2, <3>3, <3>6 DEF Aged, First
        <4>3. row[d].state = "available" \/ row[d].state = "superseded"
          BY <3>3, <3>4, <4>1 DEF RowAgrees
        <4> QED BY <2>3, <3>2, <4>1, <4>2, <4>3 DEF EntriesOf
      <3> QED BY <3>5, <3>6
    <2> QED BY <1>1, <2>1, <2>2, <2>3, IndexesWritten
  <1> QED BY <1>1, ArchivedHolds, InboxInvHolds, PTL DEF InboxSpec, NothingVanishes
-----------------------------------------------------------------------------
(***************************************************************************)
(* The runs and the commands beside them: Commands.                        *)
(***************************************************************************)
USE CommandsAssumption

(* What is left of the agreement of the columns once commands write rows   *)
(* that a run has moved on meanwhile.                                      *)
RowHolds(r) ==
  /\ r.state = "absent" => r.by = None /\ ~r.landed /\ ~r.purged
  /\ r.state = "available" => r.landed

RowsHold == \A d \in Docs : RowHolds(row[d])

WinnersAreHigher ==
  \A d \in Docs : row[d].by # None =>
    Pub[row[d].by] = Pub[d] /\ Version[row[d].by] > Version[d]

(* There is a file of the filing, or somebody wanted it deleted; or the    *)
(* same of a higher version of it.                                         *)
Served(d) == file[d] = "whole" \/ d \in discarded

Copied(d) ==
  \/ Served(d)
  \/ \E e \in Docs : Pub[e] = Pub[d] /\ Version[e] > Version[d] /\ Served(e)

(* Nobody may ask for it any more.                                         *)
Excused(d) == Aged(d, today)

(* The reasons for which the sweep, the purges and rm delete files.        *)
SweepHasReason ==
  pc = "sweep" => \A d \in todo : row[d].by \in Docs /\ row[row[d].by].landed

EmptiedAreAged ==
  /\ pc = "purge" => \A d \in todo : Aged(d, win)
  /\ cmd = "empty" => \A d \in seen : Aged(d, cwin)

RemovedAreDiscarded ==
  /\ cmd \in {"off", "ask", "stand down"} => met = {}
  /\ cmd = "remove" => seen \cup met \subseteq discarded

(* What has aged and still has a file is before a purge, or resisted it,   *)
(* or has come since.                                                      *)
NothingIsForgotten ==
  /\ pc = "purge" =>
       \A d \in Docs : Aged(d, win) /\ file[d] # "none" => d \in todo \cup done
  /\ cmd = "empty" =>
       \A d \in Docs : Aged(d, cwin) /\ file[d] # "none" => d \in seen \cup met \cup late

(* What is about to be recorded as landed has its copy.                    *)
LandingIsCovered ==
  /\ pc \in FetchOne => cur \in Docs
  /\ pc = "rename" => part = "whole"
  /\ pc = "mark" => Copied(cur) \/ Excused(cur)
  /\ cmd = "adopt" => \A d \in Docs : Foremost(d) => Copied(d) \/ Excused(d)

LandedIsCovered == \A d \in Docs : row[d].landed => Copied(d) \/ Excused(d)

CommandsInv ==
  /\ CommandsTypeOK
  /\ RowsHold
  /\ WinnersAreHigher
  /\ SweepHasReason
  /\ EmptiedAreAged
  /\ RemovedAreDiscarded
  /\ NothingIsForgotten
  /\ LandingIsCovered
  /\ LandedIsCovered
  /\ PurgedMeansAgedOrDiscarded
-----------------------------------------------------------------------------
(* What a command does to the rows, per row.                               *)
LEMMA CommandWritesRows ==
  ASSUME CommandsTypeOK, CommandStep, NEW d \in Docs
  PROVE  \/ row'[d] = row[d]
         \/ row'[d] = AbandonPending(row[d])
         \/ row'[d] = SetState(row[d], "discovered")
         \/ row'[d] = MarkAvailable(row[d]) /\ cmd = "adopt" /\ Foremost(d)
         \/ /\ row'[d] = MarkPurged(row[d])
            /\ \/ cmd = "remove" /\ d \in met
               \/ EndPurgeCommand /\ Aged(d, cwin) /\ d \notin met
  <1>0. row \in [Docs -> Row]
    BY DEF CommandsTypeOK, TypeOK
  <1>1. CASE UNCHANGED row
    BY <1>1
  <1>2. ASSUME NEW delete \in BOOLEAN, StandDown(delete)
        PROVE  row'[d] = row[d] \/ row'[d] = AbandonPending(row[d])
    BY <1>2 DEF StandDown
  <1>3. EndRm => row'[d] = row[d] \/ (row'[d] = MarkPurged(row[d]) /\ cmd = "remove" /\ d \in met)
    BY DEF EndRm
  <1>4. ASSUME NEW e \in Docs, Settle(e)
        PROVE  \/ row'[d] = row[d]
               \/ row'[d] = SetState(row[d], "discovered")
               \/ row'[d] = MarkAvailable(row[d]) /\ cmd = "adopt" /\ Foremost(d)
    BY <1>0, <1>4 DEF Settle
  <1>5. EndPurgeCommand => \/ row'[d] = row[d]
                           \/ row'[d] = MarkPurged(row[d]) /\ Aged(d, cwin) /\ d \notin met
    BY DEF EndPurgeCommand
  <1>6. \/ UNCHANGED row \/ EndRm \/ EndPurgeCommand
        \/ (\E delete \in BOOLEAN : StandDown(delete)) \/ (\E e \in Docs : Settle(e))
    BY DEF CommandStep, AskRm, SaveRm, RemoveFile, RemoveFileFails, AskReconcile, Judge,
           EndReconcileCommand, AskPurge, EmptyDay, EmptyDayFails, CommandEnds, disk, vars
  <1> QED BY <1>1, <1>2, <1>3, <1>4, <1>5, <1>6

(* What a command leaves alone, and what it deletes.                       *)
LEMMA CommandLeaves ==
  ASSUME CommandsTypeOK, CommandStep
  PROVE  /\ UNCHANGED <<today, run>>
         /\ watch' \subseteq watch
         /\ \A d \in Docs : file'[d] = file[d] \/
              /\ file'[d] = "none"
              /\ \/ cmd = "remove" /\ d \in seen
                 \/ cmd = "empty" /\ \E e \in seen : Delivery[e] = Delivery[d]
         /\ file' \in [Docs -> Content]
  <1>0. file \in [Docs -> Content] /\ seen \subseteq Docs
    BY DEF CommandsTypeOK, TypeOK
  <1> USE <1>0 DEF Content
  <1>1. UNCHANGED <<today, run>> /\ watch' \subseteq watch
    BY DEF CommandStep, AskRm, SaveRm, StandDown, RemoveFile, RemoveFileFails, EndRm,
           AskReconcile, Judge, Settle, EndReconcileCommand, AskPurge, EmptyDay,
           EmptyDayFails, EndPurgeCommand, CommandEnds, world, run, setup, work, vars
  <1>2. \/ UNCHANGED file
        \/ \E e \in Docs : RemoveFile(e) \/ EmptyDay(e) \/ EmptyDayFails(e)
    BY DEF CommandStep, AskRm, SaveRm, StandDown, RemoveFileFails, EndRm,
           AskReconcile, Judge, Settle, EndReconcileCommand, AskPurge,
           EndPurgeCommand, CommandEnds, disk, vars
  <1>3. ASSUME NEW e \in Docs, RemoveFile(e)
        PROVE  /\ file' \in [Docs -> Content]
               /\ \A d \in Docs : file'[d] = file[d] \/
                    (file'[d] = "none" /\ cmd = "remove" /\ d \in seen)
    BY <1>3 DEF RemoveFile, Foremost
  <1>4. ASSUME NEW e \in Docs, EmptyDay(e) \/ EmptyDayFails(e)
        PROVE  /\ file' \in [Docs -> Content]
               /\ \A d \in Docs : file'[d] = file[d] \/
                    /\ file'[d] = "none" /\ cmd = "empty"
                    /\ \E x \in seen : Delivery[x] = Delivery[d]
    BY <1>4 DEF EmptyDay, EmptyDayFails, Foremost, SameDay
  <1> QED BY <1>1, <1>2, <1>3, <1>4

(* A step of the system is a step of the archive, or of a command.         *)
LEMMA ArchiveOrCommand ==
  ASSUME [CommandsNext]_commandsVars
  PROVE  \/ [Next]_vars /\ UNCHANGED <<command, discarded>>
         \/ CommandStep
  BY DEF CommandsNext, RunGoesOn, commandsVars, beside, history, Next

(* What was discarded or came late stays on record, and what a run brings  *)
(* that has aged is put on it.                                             *)
LEMMA HistoryGrows ==
  ASSUME [CommandsNext]_commandsVars
  PROVE  /\ discarded \subseteq discarded' /\ late \subseteq late'
         /\ RenamePart /\ Aged(cur, today) => cur \in late'
  <1>1. CASE RunGoesOn
    BY <1>1 DEF RunGoesOn
  <1>2. CASE CommandStep
    <2>1. discarded \subseteq discarded' /\ late' = late /\ pc' = pc
      BY <1>2 DEF CommandStep, AskRm, SaveRm, StandDown, RemoveFile, RemoveFileFails,
         EndRm, AskReconcile, Judge, Settle, EndReconcileCommand, AskPurge, EmptyDay,
         EmptyDayFails, EndPurgeCommand, CommandEnds, history, run, vars
    <2> QED BY <2>1 DEF RenamePart
  <1>3. CASE (Midnight \/ EditFunds) /\ UNCHANGED beside
    <2>1. pc' = pc /\ UNCHANGED <<discarded, late>>
      BY <1>3 DEF Midnight, EditFunds, run, beside, history
    <2> QED BY <2>1 DEF RenamePart
  <1>4. CASE Crash /\ UNCHANGED <<command, history>>
    <2>1. pc' = "off" /\ UNCHANGED <<discarded, late>>
      BY <1>4 DEF Crash, Leave, history
    <2> QED BY <2>1 DEF RenamePart
  <1>5. CASE UNCHANGED commandsVars
    <2>1. pc' = pc /\ UNCHANGED <<discarded, late>>
      BY <1>5 DEF commandsVars, vars, beside, history
    <2> QED BY <2>1 DEF RenamePart
  <1> QED BY <1>1, <1>2, <1>3, <1>4, <1>5 DEF CommandsNext
-----------------------------------------------------------------------------
LEMMA CommandsTypesKept ==
  CommandsTypeOK /\ LandingIsCovered /\ [CommandsNext]_commandsVars => CommandsTypeOK'
  <1> SUFFICES ASSUME CommandsTypeOK, LandingIsCovered, [CommandsNext]_commandsVars
               PROVE  CommandsTypeOK'
    OBVIOUS
  <1>0. TypeOK /\ row \in [Docs -> Row] /\ today \in Nat
    <2>1. TypeOK
      BY DEF CommandsTypeOK
    <2> QED BY <2>1 DEF TypeOK
  <1>1. TypeOK'
    <2>1. CASE [Next]_vars
      BY <1>0, <2>1, TypesKept
    <2>2. CASE CommandStep
      <3>1. row' \in [Docs -> Row]
        <4>1. ASSUME NEW d \in Docs PROVE row'[d] \in Row
          <5>1. row[d] \in Row
            BY <1>0
          <5> QED BY <2>2, <5>1, CommandWritesRows, StatementsKeepRows DEF LocalState
        <4>2. \/ UNCHANGED row \/ row' = [d \in Docs |-> row'[d]]
          BY <1>0, <2>2 DEF CommandStep, AskRm, SaveRm, StandDown, RemoveFile,
             RemoveFileFails, EndRm, AskReconcile, Judge, Settle, EndReconcileCommand,
             AskPurge, EmptyDay, EmptyDayFails, EndPurgeCommand, CommandEnds, disk, vars
        <4> QED BY <1>0, <4>1, <4>2
      <3> QED BY <1>0, <2>2, <3>1, CommandLeaves DEF TypeOK, run, setup, work
    <2> QED BY <2>1, <2>2, ArchiveOrCommand
  <1>2. cwin' \in 0..today'
    <2>1. cwin \in 0..today
      BY DEF CommandsTypeOK
    <2>2. today' \in Nat /\ today' >= today
      <3>1. CASE [Next]_vars
        BY <1>0, <3>1, DayGrows
      <3>2. CASE CommandStep
        BY <1>0, <3>2, CommandLeaves
      <3> QED BY <3>1, <3>2, ArchiveOrCommand
    <2>3. cwin' = cwin \/ cwin' = 0 \/ cwin' = today
      BY DEF CommandsNext, RunGoesOn, commandsVars, beside, history, command, CommandStep, AskRm,
         SaveRm, StandDown, RemoveFile, RemoveFileFails, EndRm, AskReconcile, Judge,
         Settle, EndReconcileCommand, AskPurge, EmptyDay, EmptyDayFails,
         EndPurgeCommand, CommandEnds, Return
    <2> QED BY <1>0, <2>1, <2>2, <2>3
  <1>3. given' \in 0..MaxCommands
    <2>1. given \in 0..MaxCommands
      BY DEF CommandsTypeOK
    <2>2. given' = given \/ (given < MaxCommands /\ given' = given + 1)
      BY DEF CommandsNext, RunGoesOn, commandsVars, beside, history, command, CommandStep, AskRm,
         SaveRm, StandDown, RemoveFile, RemoveFileFails, EndRm, AskReconcile, Judge,
         Settle, EndReconcileCommand, AskPurge, EmptyDay, EmptyDayFails,
         EndPurgeCommand, CommandEnds, Return, Turn
    <2> QED BY <2>1, <2>2
  <1>4. /\ cmd' \in {"off", "ask", "stand down", "remove", "settle", "adopt", "requeue",
                     "empty"}
        /\ fund' \in Entities \cup {None}
        /\ seen' \subseteq Docs /\ known' \subseteq Docs /\ met' \subseteq Docs
        /\ discarded' \subseteq Docs
    <2>0. /\ cmd \in {"off", "ask", "stand down", "remove", "settle", "adopt", "requeue",
                      "empty"}
          /\ fund \in Entities \cup {None}
          /\ seen \subseteq Docs /\ known \subseteq Docs /\ met \subseteq Docs
          /\ discarded \subseteq Docs
      BY DEF CommandsTypeOK
    <2> USE <2>0 DEF history
    <2>1. CASE UNCHANGED <<command, discarded>>
      BY <2>1 DEF command
    <2>2. CASE (\E e \in Entities : AskRm(e)) \/ SaveRm
      BY <2>2 DEF AskRm, SaveRm, Turn
    <2>6. CASE AskReconcile \/ AskPurge
      BY <2>6 DEF AskReconcile, AskPurge, Turn
    <2>3. CASE \E delete \in BOOLEAN : StandDown(delete)
      <3>1. PICK delete \in BOOLEAN : StandDown(delete)
        BY <2>3
      <3>2. CASE delete /\ seen # {}
        <4>1. /\ cmd' = "remove" /\ discarded' = discarded \cup seen
              /\ UNCHANGED <<fund, seen, known, met>> /\ cmd = "stand down"
          BY <3>1, <3>2 DEF StandDown
        <4> QED BY <4>1
      <3>3. CASE ~(delete /\ seen # {})
        <4>1. Return /\ UNCHANGED discarded
          BY <3>1, <3>3 DEF StandDown
        <4> QED BY <4>1 DEF Return
      <3> QED BY <3>2, <3>3
    <2>4. CASE EndRm \/ EndReconcileCommand \/ EndPurgeCommand \/ CommandEnds \/ Judge
      <3>1. CASE Judge
        BY <3>1 DEF Judge
      <3>2. CASE EndRm \/ EndReconcileCommand \/ EndPurgeCommand \/ CommandEnds
        <4>1. Return /\ discarded' = discarded
          BY <3>2 DEF EndRm, EndReconcileCommand, EndPurgeCommand, CommandEnds
        <4> QED BY <4>1 DEF Return
      <3> QED BY <2>4, <3>1, <3>2
    <2>5. CASE \E d \in Docs : \/ RemoveFile(d) \/ RemoveFileFails(d) \/ Settle(d)
                               \/ EmptyDay(d) \/ EmptyDayFails(d)
      <3>1. PICK d \in Docs : \/ RemoveFile(d) \/ RemoveFileFails(d) \/ Settle(d)
                              \/ EmptyDay(d) \/ EmptyDayFails(d)
        BY <2>5
      <3>2. /\ seen' \subseteq seen
            /\ known' = known /\ fund' = fund /\ discarded' = discarded
            /\ cmd' = cmd \/ cmd' = "settle"
        <4>1. CASE RemoveFile(d) \/ RemoveFileFails(d)
          BY <4>1 DEF RemoveFile, RemoveFileFails
        <4>2. CASE Settle(d)
          BY <4>2 DEF Settle
        <4>3. CASE EmptyDay(d) \/ EmptyDayFails(d)
          BY <4>3 DEF EmptyDay, EmptyDayFails
        <4> QED BY <3>1, <4>1, <4>2, <4>3
      <3>3. met' = met \/ met' = met \cup {d} \/ met' = met \cup SameDay(d)
        BY <3>1 DEF RemoveFile, RemoveFileFails, Settle, EmptyDay, EmptyDayFails
      <3>4. SameDay(d) \subseteq Docs
        BY DEF SameDay
      <3> QED BY <3>2, <3>3, <3>4
    <2> QED BY <2>1, <2>2, <2>3, <2>4, <2>5, <2>6, ArchiveOrCommand DEF CommandStep
  <1>5. gone' \in BOOLEAN /\ (gone' => pc' \in Publishes)
    <2>0. gone \in BOOLEAN /\ (gone => pc \in Publishes)
      BY DEF CommandsTypeOK
    <2>1. CASE RunGoesOn
      BY <2>0, <2>1, Zenon DEF RunGoesOn
    <2>2. CASE UNCHANGED <<gone, pc>>
      BY <2>0, <2>2, Zenon
    <2>3. CASE gone' = FALSE
      BY <2>3
    <2>4. CASE CommandStep
      <3>1. pc' = pc
        BY <2>4, CommandLeaves DEF run
      <3>2. gone' = gone \/ \E days \in SUBSET Docs : gone' = Undercut(days)
        BY <2>4 DEF CommandStep, AskRm, SaveRm, StandDown, RemoveFile, RemoveFileFails,
           EndRm, AskReconcile, Judge, Settle, EndReconcileCommand, AskPurge, EmptyDay,
           EmptyDayFails, EndPurgeCommand, CommandEnds, SameDay
      <3>3. ASSUME NEW days \in SUBSET Docs, gone' = Undercut(days)
            PROVE  gone' \in BOOLEAN /\ (gone' => pc' \in Publishes)
        <4>1. Undercut(days) \in BOOLEAN
          BY Zenon DEF Undercut
        <4>2. Undercut(days) => pc \in Publishes
          BY <2>0 DEF Undercut
        <4> QED BY <3>1, <3>3, <4>1, <4>2, Zenon
      <3>4. CASE gone' = gone
        BY <2>0, <3>1, <3>4, Zenon
      <3> QED BY <3>2, <3>3, <3>4, Zenon
    <2>5. \/ RunGoesOn \/ UNCHANGED <<gone, pc>> \/ gone' = FALSE \/ CommandStep
      BY Zenon DEF CommandsNext, Midnight, EditFunds, run, beside, commandsVars, vars
    <2> QED BY <2>1, <2>2, <2>3, <2>4, <2>5
  <1>6. late' \subseteq Docs
    <2>1. late \subseteq Docs /\ (RenamePart => cur \in Docs)
      BY DEF CommandsTypeOK, LandingIsCovered, RenamePart, FetchOne
    <2>2. late' = late \/ (RenamePart /\ Aged(cur, today) /\ late' = late \cup {cur})
      BY DEF CommandsNext, RunGoesOn, commandsVars, beside, history, CommandStep, AskRm,
         SaveRm, StandDown, RemoveFile, RemoveFileFails, EndRm, AskReconcile, Judge,
         Settle, EndReconcileCommand, AskPurge, EmptyDay, EmptyDayFails,
         EndPurgeCommand, CommandEnds
    <2> QED BY <2>1, <2>2
  <1> QED BY <1>1, <1>2, <1>3, <1>4, <1>5, <1>6 DEF CommandsTypeOK
-----------------------------------------------------------------------------
(* What a step of a run writes into a row, whatever commands have made of  *)
(* the row since the run read it.                                          *)
RunWrites(d) ==
  \/ row'[d] = row[d]
  \/ row'[d] = UpsertDiscovered(row[d])
  \/ \E s \in LocalState \ {"available"} : row'[d] = SetState(row[d], s)
  \/ row'[d] = SetDownloadTarget(row[d])
  \/ row'[d] = RecordFailure(row[d])
  \/ row'[d] = AbandonPending(row[d])
  \/ row'[d] = MarkSupersededRemoved(row[d])
  \/ row'[d] = MarkAvailable(row[d]) /\ Landing(d)
  \/ row'[d] = MarkPurged(row[d]) /\ EndPurge /\ Aged(d, win)
  \/ row'[d] = Detected(row, First(win), win)[d]

LEMMA RunWritesRows ==
  ASSUME TypeOK, [Next]_vars, NEW d \in Docs
  PROVE  RunWrites(d)
  <1>0. row \in [Docs -> Row]
    BY DEF TypeOK
  <1> USE DEF RunWrites, LocalState
  <1>1. CASE UNCHANGED row
    BY <1>1
  <1>2. ASSUME NEW e \in Docs, Adopt(e) \/ Requeue(e) \/ Decline(e) \/ Request(e)
        PROVE  RunWrites(d)
    <2>1. CASE e # d
      BY <1>0, <1>2, <2>1 DEF Adopt, Requeue, Decline, Request
    <2>2. CASE e = d /\ Adopt(e)
      BY <1>0, <2>2 DEF Adopt, Landing
    <2>3. CASE e = d /\ (Requeue(e) \/ Decline(e) \/ Request(e))
      BY <1>0, <2>3 DEF Requeue, Decline, Request
    <2> QED BY <1>2, <2>1, <2>2, <2>3
  <1>3. CASE AttemptFails \/ FailCurrent \/ Filter \/ RecordTarget \/ MarkCurrent
    <2>1. CASE cur # d
      BY <1>0, <1>3, <2>1 DEF AttemptFails, FailCurrent, Filter, RecordTarget, MarkCurrent
    <2>2. CASE cur = d /\ (AttemptFails \/ RecordTarget)
      BY <1>0, <2>2 DEF AttemptFails, RecordTarget
    <2>3. CASE cur = d /\ FailCurrent
      BY <1>0, <2>3 DEF FailCurrent, MarkFailed, SetState
    <2>4. CASE cur = d /\ Filter
      BY <1>0, <2>4 DEF Filter
    <2>5. CASE cur = d /\ MarkCurrent
      BY <1>0, <2>5 DEF MarkCurrent, Landing
    <2> QED BY <1>3, <2>1, <2>2, <2>3, <2>4, <2>5
  <1>4. SyncScopes \/ Discover \/ EndSweep => RunWrites(d)
    BY DEF SyncScopes, Discover, EndSweep
  <1>5. Detect \/ EndPurge => RunWrites(d)
    BY DEF Detect, EndPurge
  <1> QED BY <1>1, <1>2, <1>3, <1>4, <1>5, WhatWritesRows

(* What each statement keeps of a row, in whatever state it meets it.      *)
LEMMA StatementsHold ==
  ASSUME NEW r \in Row, RowHolds(r)
  PROVE  /\ RowHolds(UpsertDiscovered(r))
         /\ \A s \in LocalState \ {"available"} : RowHolds(SetState(r, s))
         /\ RowHolds(SetDownloadTarget(r))
         /\ RowHolds(RecordFailure(r))
         /\ RowHolds(AbandonPending(r))
         /\ RowHolds(MarkSupersededRemoved(r))
         /\ RowHolds(MarkAvailable(r))
         /\ RowHolds(MarkPurged(r))
         /\ UpsertDiscovered(r).landed = r.landed
         /\ UpsertDiscovered(r).purged = r.purged
         /\ UpsertDiscovered(r).by = r.by
  <1> USE DEF RowHolds
  <1>1. /\ RowHolds(UpsertDiscovered(r))
        /\ UpsertDiscovered(r).landed = r.landed
        /\ UpsertDiscovered(r).purged = r.purged
        /\ UpsertDiscovered(r).by = r.by
    BY DEF UpsertDiscovered, NoRow, Row
  <1>2. \A s \in LocalState \ {"available"} : RowHolds(SetState(r, s))
    BY StatementColumns DEF LocalState
  <1>3. /\ RowHolds(SetDownloadTarget(r)) /\ RowHolds(RecordFailure(r))
        /\ RowHolds(MarkSupersededRemoved(r)) /\ RowHolds(MarkAvailable(r))
        /\ RowHolds(MarkPurged(r))
    BY StatementColumns
  <1>4. RowHolds(AbandonPending(r))
    BY <1>2, StatementColumns DEF LocalState
  <1> QED BY <1>1, <1>2, <1>3, <1>4

(* What a step of a run keeps of a row.                                    *)
LEMMA RunKeepsRows ==
  ASSUME TypeOK, RowsHold, [Next]_vars, NEW d \in Docs
  PROVE  /\ RowHolds(row'[d])
         /\ row[d].landed => row'[d].landed
         /\ row'[d].landed => row[d].landed \/ Landing(d)
         /\ row'[d].purged => row[d].purged \/ (EndPurge /\ Aged(d, win))
         /\ \/ row'[d].by = row[d].by
            \/ /\ row'[d].by \in Docs
               /\ Pub[row'[d].by] = Pub[d] /\ Version[row'[d].by] > Version[d]
  <1>0. row \in [Docs -> Row] /\ row[d] \in Row /\ RowHolds(row[d])
    BY DEF TypeOK, RowsHold
  <1> DEFINE Goal == /\ RowHolds(row'[d])
                     /\ row[d].landed => row'[d].landed
                     /\ row'[d].landed => row[d].landed \/ Landing(d)
                     /\ row'[d].purged => row[d].purged \/ (EndPurge /\ Aged(d, win))
                     /\ \/ row'[d].by = row[d].by
                        \/ /\ row'[d].by \in Docs
                           /\ Pub[row'[d].by] = Pub[d]
                           /\ Version[row'[d].by] > Version[d]
  <1>1. CASE row'[d] = row[d]
    BY <1>0, <1>1
  <1>2. CASE row'[d] = UpsertDiscovered(row[d])
    BY <1>0, <1>2, StatementsHold
  <1>3. ASSUME NEW s \in LocalState \ {"available"}, row'[d] = SetState(row[d], s)
        PROVE  Goal
    BY <1>0, <1>3, StatementsHold, StatementColumns
  <1>4. CASE \/ row'[d] = SetDownloadTarget(row[d])
             \/ row'[d] = RecordFailure(row[d])
             \/ row'[d] = MarkSupersededRemoved(row[d])
    BY <1>0, <1>4, StatementsHold, StatementColumns
  <1>5. CASE row'[d] = AbandonPending(row[d])
    <2>1. /\ AbandonPending(row[d]).landed = row[d].landed
          /\ AbandonPending(row[d]).purged = row[d].purged
          /\ AbandonPending(row[d]).by = row[d].by
      BY <1>0, AbandonedColumns
    <2>2. RowHolds(AbandonPending(row[d]))
      BY <1>0, StatementsHold
    <2> QED BY <1>5, <2>1, <2>2
  <1>6. CASE row'[d] = MarkAvailable(row[d]) /\ Landing(d)
    BY <1>0, <1>6, StatementsHold, StatementColumns
  <1>7. CASE row'[d] = MarkPurged(row[d]) /\ EndPurge /\ Aged(d, win)
    BY <1>0, <1>7, StatementsHold, StatementColumns
  <1>8. CASE row'[d] = Detected(row, First(win), win)[d]
    <2>1. CASE row'[d] = row[d]
      BY <1>0, <2>1
    <2>2. CASE row'[d] # row[d]
      <3>1. /\ row[d].state \in CorrelatableStates
            /\ row'[d].landed = row[d].landed /\ row'[d].purged = row[d].purged
            /\ row'[d].state = IF row[d].state \in PendingStates THEN "superseded"
                               ELSE row[d].state
            /\ row'[d].by \in Docs
            /\ \/ row'[d].by = row[d].by
               \/ Pub[row'[d].by] = Pub[d] /\ Version[row'[d].by] > Version[d]
        BY <1>0, <1>8, <2>2, DetectedColumns
      <3>2. RowHolds(row'[d])
        BY <1>0, <3>1 DEF RowHolds, CorrelatableStates, PendingStates
      <3> QED BY <3>1, <3>2
    <2> QED BY <2>1, <2>2
  <1> QED BY <1>1, <1>2, <1>3, <1>4, <1>5, <1>6, <1>7, <1>8, RunWritesRows DEF RunWrites

(* What a command keeps of a row.                                          *)
LEMMA CommandKeepsRows ==
  ASSUME CommandsTypeOK, RowsHold, CommandStep, NEW d \in Docs
  PROVE  /\ RowHolds(row'[d])
         /\ row[d].landed => row'[d].landed
         /\ row'[d].landed => row[d].landed \/ (cmd = "adopt" /\ Foremost(d))
         /\ row'[d].purged => \/ row[d].purged
                              \/ cmd = "remove" /\ d \in met
                              \/ EndPurgeCommand /\ Aged(d, cwin) /\ d \notin met
         /\ row'[d].by = row[d].by
  <1>1. TypeOK
    BY DEF CommandsTypeOK
  <1>2. row[d] \in Row /\ RowHolds(row[d])
    BY <1>1 DEF TypeOK, RowsHold
  <1> QED BY <1>2, CommandWritesRows, StatementsHold, StatementColumns DEF LocalState
-----------------------------------------------------------------------------
(* An excuse lasts, and what excuses a filing excuses its earlier versions:*)
(* they were delivered no later (RefilingsArriveLater).                    *)
LEMMA ExcusesStay ==
  ASSUME CommandsTypeOK, [CommandsNext]_commandsVars, NEW d \in Docs, Excused(d)
  PROVE  Excused(d)'
  <1>1. TypeOK /\ today \in Nat
    <2>1. TypeOK
      BY DEF CommandsTypeOK
    <2> QED BY <2>1 DEF TypeOK
  <1>2. today' \in Nat /\ today' >= today
    BY <1>1, DayGrows, CommandLeaves, ArchiveOrCommand
  <1>3. Aged(d, today')
    BY <1>1, <1>2, AgedStays DEF Excused
  <1> QED BY <1>3 DEF Excused, Aged, First

LEMMA ExcusesPassDown ==
  ASSUME TypeOK, NEW d \in Docs, NEW e \in Docs, Pub[e] = Pub[d],
         Version[e] > Version[d], Excused(e)
  PROVE  Excused(d)
  <1>1. today \in Nat
    BY DEF TypeOK
  <1> QED BY <1>1, ReplacementsArriveLater DEF Excused
-----------------------------------------------------------------------------
(* A whole file stays, unless the sweep deletes it or nobody may ask.      *)
LEMMA WholeStays ==
  ASSUME CommandsTypeOK, EmptiedAreAged, RemovedAreDiscarded, LandingIsCovered,
         [CommandsNext]_commandsVars, NEW d \in Docs, Served(d)
  PROVE  Served(d)' \/ Excused(d) \/ Unlink(d)
  <1>0. CASE d \in discarded
    BY <1>0, HistoryGrows DEF Served
  <1>1. TypeOK
    BY DEF CommandsTypeOK
  <1>2. today \in Int /\ win \in Int /\ win =< today
    <2>1. today \in Nat /\ win \in 0..today
      BY <1>1 DEF TypeOK
    <2> QED BY <2>1
  <1>3. cwin \in Int /\ cwin =< today
    <2>1. cwin \in 0..today
      BY DEF CommandsTypeOK
    <2> QED BY <1>2, <2>1
  <1>4. CASE file[d] = "whole" /\ [Next]_vars
    <2>1. RenamePart => part = "whole"
      BY DEF LandingIsCovered, RenamePart
    <2>2. ASSUME NEW e \in Docs, RemoveDay(e) \/ RemoveDayFails(e),
                 Delivery[e] = Delivery[d]
          PROVE  Excused(d)
      <3>1. Aged(e, win)
        BY <2>2 DEF RemoveDay, RemoveDayFails, Oldest, EmptiedAreAged
      <3>2. Aged(d, win)
        BY <2>2, <3>1 DEF Aged
      <3>3. Aged(d, today)
        BY <1>2, <3>2, AgedStays
      <3> QED BY <3>3 DEF Excused
    <2> QED BY <1>1, <1>4, <2>1, <2>2, RunLeavesFiles DEF Served
  <1>5. CASE file[d] = "whole" /\ CommandStep
    <2>1. CASE cmd = "remove" /\ d \in seen
      BY <2>1, HistoryGrows DEF RemovedAreDiscarded, Served
    <2>2. ASSUME cmd = "empty", NEW e \in seen, Delivery[e] = Delivery[d]
          PROVE  Excused(d)
      <3>1. Aged(e, cwin)
        BY <2>2 DEF EmptiedAreAged
      <3>2. Aged(d, cwin)
        BY <2>2, <3>1 DEF Aged
      <3>3. Aged(d, today)
        BY <1>2, <1>3, <3>2, AgedStays
      <3> QED BY <3>3 DEF Excused
    <2> QED BY <1>5, <2>1, <2>2, CommandLeaves DEF Served
  <1> QED BY <1>0, <1>4, <1>5, ArchiveOrCommand DEF Served

(* What the sweep deletes has a higher version: the one that landed, or    *)
(* whatever took its place.                                                *)
LEMMA UnlinkedIsCovered ==
  ASSUME TypeOK, WinnersAreHigher, SweepHasReason, LandedIsCovered,
         [CommandsNext]_commandsVars, NEW d \in Docs, Unlink(d)
  PROVE  \/ Excused(d)
         \/ \E e \in Docs : Pub[e] = Pub[d] /\ Version[e] > Version[d] /\ Served(e)'
  <1> DEFINE w == row[d].by
  <1>0. Version \in [Docs -> Nat] /\ file \in [Docs -> Content]
    BY DEF TypeOK
  <1>1. w \in Docs /\ row[w].landed
    BY DEF SweepHasReason, Unlink
  <1>2. Pub[w] = Pub[d] /\ Version[w] > Version[d]
    BY <1>1 DEF WinnersAreHigher
  <1>3. Copied(w) \/ Excused(w)
    BY <1>1 DEF LandedIsCovered
  <1>4. CASE Excused(w)
    BY <1>1, <1>2, <1>4, ExcusesPassDown
  <1>5. CASE Copied(w)
    <2>1. PICK e \in Docs : Pub[e] = Pub[d] /\ Version[e] > Version[d] /\ Served(e)
      BY <1>0, <1>1, <1>2, <1>5 DEF Copied
    <2>2. e # d
      BY <1>0, <2>1
    <2>3. file'[e] = file[e]
      BY <1>0, <2>2 DEF Unlink
    <2>4. Served(e)'
      BY <2>1, <2>3, HistoryGrows DEF Served
    <2> QED BY <2>1, <2>4
  <1> QED BY <1>3, <1>4, <1>5

(* Whatever happens, what has a copy or an excuse keeps one.               *)
LEMMA CopiesStay ==
  ASSUME CommandsInv, [CommandsNext]_commandsVars, NEW d \in Docs,
         Copied(d) \/ Excused(d)
  PROVE  Copied(d)' \/ Excused(d)'
  <1>0. /\ CommandsTypeOK /\ WinnersAreHigher /\ SweepHasReason /\ EmptiedAreAged
        /\ RemovedAreDiscarded /\ LandingIsCovered /\ LandedIsCovered
    BY DEF CommandsInv
  <1>1. TypeOK
    BY <1>0 DEF CommandsTypeOK
  <1>2. Version \in [Docs -> Nat]
    OBVIOUS
  <1>3. CASE Excused(d)
    BY <1>0, <1>3, ExcusesStay
  <1>4. CASE Copied(d)
    <2>1. PICK y \in Docs : /\ Served(y)
                            /\ y = d \/ (Pub[y] = Pub[d] /\ Version[y] > Version[d])
      BY <1>4 DEF Copied
    <2>2. CASE Served(y)'
      BY <2>1, <2>2 DEF Copied
    <2>3. CASE Excused(y)
      <3>1. Excused(d)
        BY <1>1, <2>1, <2>3, ExcusesPassDown
      <3> QED BY <1>0, <3>1, ExcusesStay
    <2>4. CASE Unlink(y) /\ ~Excused(y)
      <3>1. PICK z \in Docs : Pub[z] = Pub[y] /\ Version[z] > Version[y] /\ Served(z)'
        BY <1>0, <1>1, <2>4, UnlinkedIsCovered
      <3>2. Pub[z] = Pub[d] /\ Version[z] > Version[d]
        BY <1>2, <2>1, <3>1
      <3> QED BY <3>1, <3>2 DEF Copied
    <2>5. Served(y)' \/ Excused(y) \/ Unlink(y)
      BY <1>0, <2>1, WholeStays
    <2> QED BY <2>2, <2>3, <2>4, <2>5
  <1> QED BY <1>3, <1>4
-----------------------------------------------------------------------------
(* Where the stages and the commands get what they work from.              *)
LEMMA SweepStepKeeps ==
  ASSUME CommandsInv, [CommandsNext]_commandsVars
  PROVE  SweepHasReason'
  <1>0. CommandsTypeOK /\ RowsHold /\ SweepHasReason
    BY DEF CommandsInv
  <1>1. TypeOK
    BY <1>0 DEF CommandsTypeOK
  <1>2. todo \subseteq Docs
    BY <1>1 DEF TypeOK
  <1>3. CASE [Next]_vars
    <2>1. CASE EndDownloads \/ StopDownloads
      <3>1. \A d \in Docs : row[d].state = "available" => row[d].landed
        BY <1>0 DEF RowsHold, RowHolds
      <3> QED BY <2>1, <3>1 DEF EndDownloads, StopDownloads, LeaveFetch, Doomed,
                                Correlatable, disk, SweepHasReason
    <2>2. ASSUME NEW d \in Docs, Unlink(d) \/ UnlinkFails(d)
          PROVE  SweepHasReason'
      <3>1. pc = "sweep" /\ row' = row /\ todo' \subseteq todo
        BY <2>2 DEF Unlink, UnlinkFails, disk
      <3> QED BY <1>0, <3>1 DEF SweepHasReason
    <2>3. CASE Midnight \/ UNCHANGED vars
      <3>1. pc' = pc /\ row' = row /\ todo' = todo
        BY <2>3 DEF Midnight, disk, run, work, vars
      <3> QED BY <1>0, <3>1 DEF SweepHasReason
    <2>4. CASE ~(EndDownloads \/ StopDownloads \/ Midnight \/ UNCHANGED vars
                 \/ \E d \in Docs : Unlink(d) \/ UnlinkFails(d))
      <3>1. pc' # "sweep"
        BY <1>3, <2>4 DEF Next, RunStep, FetchStep, EditFunds, Crash, Start,
           OpenManifest, Adopt, Requeue, Decline, EndReconcile, SyncScopes, Discover,
           Detect, StartDownloads, PassOver, Request, AttemptFails, FailCurrent,
           Filter, RecordTarget, OpenPart, WritePart, RenamePart, MarkCurrent,
           EndSweep, RemoveDay, RemoveDayFails, EndPurge, Leave, run
      <3> QED BY <3>1 DEF SweepHasReason
    <2> QED BY <2>1, <2>2, <2>3, <2>4
  <1>4. CASE CommandStep
    <2>1. pc' = pc /\ todo' = todo
      BY <1>0, <1>4, CommandLeaves DEF run, work
    <2>2. \A d \in Docs : row'[d].by = row[d].by /\ (row[d].landed => row'[d].landed)
      BY <1>0, <1>4, CommandKeepsRows
    <2> QED BY <1>0, <1>2, <2>1, <2>2 DEF SweepHasReason
  <1> QED BY <1>3, <1>4, ArchiveOrCommand

LEMMA PurgeStepKeeps ==
  ASSUME CommandsInv, [CommandsNext]_commandsVars
  PROVE  EmptiedAreAged'
  <1>0. CommandsTypeOK /\ EmptiedAreAged
    BY DEF CommandsInv
  <1>1. pc' = "purge" => \A d \in todo' : Aged(d, win')
    <2>1. CASE [Next]_vars
      <3>1. CASE EndSweep
        BY <3>1 DEF EndSweep, setup
      <3>2. ASSUME NEW d \in Docs, RemoveDay(d) \/ RemoveDayFails(d)
            PROVE  \A e \in todo' : Aged(e, win')
        <4>1. pc = "purge" /\ win' = win /\ todo' \subseteq todo
          BY <3>2 DEF RemoveDay, RemoveDayFails, setup
        <4> QED BY <1>0, <4>1 DEF EmptiedAreAged
      <3>3. CASE Midnight \/ UNCHANGED vars
        <4>1. pc' = pc /\ win' = win /\ todo' = todo
          BY <3>3 DEF Midnight, run, setup, work, vars
        <4> QED BY <1>0, <4>1 DEF EmptiedAreAged
      <3>4. CASE ~(EndSweep \/ Midnight \/ UNCHANGED vars
                   \/ \E d \in Docs : RemoveDay(d) \/ RemoveDayFails(d))
        <4>1. pc' # "purge"
          BY <2>1, <3>4 DEF Next, RunStep, FetchStep, EditFunds, Crash, Start,
             OpenManifest, Adopt, Requeue, Decline, EndReconcile, SyncScopes, Discover,
             Detect, StartDownloads, PassOver, Request, AttemptFails, FailCurrent,
             Filter, RecordTarget, OpenPart, WritePart, RenamePart, MarkCurrent,
             EndDownloads, StopDownloads, LeaveFetch, Unlink, UnlinkFails, EndPurge,
             Leave, run
        <4> QED BY <4>1
      <3> QED BY <3>1, <3>2, <3>3, <3>4
    <2>2. CASE CommandStep
      BY <1>0, <2>2, CommandLeaves DEF run, setup, work, EmptiedAreAged
    <2> QED BY <2>1, <2>2, ArchiveOrCommand
  <1>2. cmd' = "empty" => \A d \in seen' : Aged(d, cwin')
    <2>1. CASE UNCHANGED command
      BY <1>0, <2>1 DEF command, EmptiedAreAged
    <2>2. CASE AskPurge
      BY <2>2 DEF AskPurge
    <2>3. ASSUME NEW d \in Docs, EmptyDay(d) \/ EmptyDayFails(d)
          PROVE  \A e \in seen' : Aged(e, cwin')
      BY <1>0, <2>3 DEF EmptyDay, EmptyDayFails, EmptiedAreAged
    <2>4. CASE CommandStep /\ ~AskPurge
               /\ ~(\E d \in Docs : EmptyDay(d) \/ EmptyDayFails(d))
      BY <2>4 DEF CommandStep, AskRm, SaveRm, StandDown, RemoveFile, RemoveFileFails,
         EndRm, AskReconcile, Judge, Settle, EndReconcileCommand, EndPurgeCommand,
         CommandEnds, Return, Turn
    <2> QED BY <2>1, <2>2, <2>3, <2>4, ArchiveOrCommand
  <1> QED BY <1>1, <1>2 DEF EmptiedAreAged, Aged, First

LEMMA RmStepKeeps ==
  ASSUME CommandsInv, [CommandsNext]_commandsVars
  PROVE  RemovedAreDiscarded'
  <1>0. /\ RemovedAreDiscarded
        /\ cmd \in {"off", "ask", "stand down", "remove", "settle", "adopt", "requeue",
                    "empty"}
    BY DEF CommandsInv, CommandsTypeOK
  <1> USE <1>0 DEF RemovedAreDiscarded, history
  <1>1. CASE UNCHANGED <<command, discarded>>
    BY <1>1 DEF command
  <1>2. ASSUME NEW e \in Entities, AskRm(e) PROVE RemovedAreDiscarded'
    BY <1>2 DEF AskRm, Turn
  <1>3. CASE SaveRm
    BY <1>3 DEF SaveRm
  <1>4. ASSUME NEW delete \in BOOLEAN, StandDown(delete) PROVE RemovedAreDiscarded'
    BY <1>4 DEF StandDown, Return
  <1>5. CASE \E d \in Docs : RemoveFile(d) \/ RemoveFileFails(d) \/ Settle(d)
                           \/ EmptyDay(d) \/ EmptyDayFails(d)
    <2>1. ASSUME NEW d \in Docs, RemoveFile(d) \/ RemoveFileFails(d)
          PROVE  RemovedAreDiscarded'
      BY <2>1 DEF RemoveFile, RemoveFileFails, Foremost
    <2>2. ASSUME NEW d \in Docs, Settle(d) \/ EmptyDay(d) \/ EmptyDayFails(d)
          PROVE  cmd' \notin {"off", "ask", "stand down", "remove"}
      BY <2>2 DEF Settle, EmptyDay, EmptyDayFails
    <2> QED BY <1>5, <2>1, <2>2
  <1>6. CASE EndRm \/ EndReconcileCommand \/ EndPurgeCommand \/ CommandEnds
             \/ AskReconcile \/ AskPurge \/ Judge
    BY <1>6 DEF EndRm, EndReconcileCommand, EndPurgeCommand, CommandEnds, AskReconcile,
                AskPurge, Judge, Return, Turn
  <1> QED BY <1>1, <1>2, <1>3, <1>4, <1>5, <1>6, ArchiveOrCommand DEF CommandStep

(* Only the rename puts a file where there was none.                       *)
LEMMA OnlyRenamesBring ==
  ASSUME CommandsTypeOK, [CommandsNext]_commandsVars, NEW d \in Docs, file'[d] # "none"
  PROVE  file[d] # "none" \/ (RenamePart /\ cur = d)
  <1>1. TypeOK
    BY DEF CommandsTypeOK
  <1>2. file \in [Docs -> Content]
    BY <1>1 DEF TypeOK
  <1>3. CASE CommandStep
    BY <1>3, CommandLeaves
  <1>4. CASE [Next]_vars
    <2>1. CASE RenamePart
      BY <1>2, <2>1 DEF RenamePart
    <2>2. ~Unlink(d)
      BY <1>2 DEF Unlink
    <2>3. ASSUME NEW e \in Docs, RemoveDay(e) \/ RemoveDayFails(e)
          PROVE  file'[d] = file[d]
      BY <2>3 DEF RemoveDay, RemoveDayFails
    <2> QED BY <1>1, <1>4, <2>1, <2>2, <2>3, RunLeavesFiles
  <1> QED BY <1>3, <1>4, ArchiveOrCommand

(* A purge, the run's or the command's, takes every file that aged before  *)
(* it began, except those of the dates it reports.                         *)
LEMMA ForgottenStepKeeps ==
  ASSUME CommandsInv, [CommandsNext]_commandsVars
  PROVE  NothingIsForgotten'
  <1>0. CommandsTypeOK /\ NothingIsForgotten
    BY DEF CommandsInv
  <1>1. TypeOK /\ cwin \in 0..today /\ file \in [Docs -> Content]
    BY <1>0 DEF CommandsTypeOK, TypeOK
  <1>2. today \in Nat
    BY <1>1 DEF TypeOK
  <1>3. ASSUME pc' = "purge", NEW d \in Docs, Aged(d, win'), file'[d] # "none"
        PROVE  d \in todo' \cup done'
    <2>1. ~RenamePart
      BY <1>3 DEF RenamePart
    <2>2. file[d] # "none"
      BY <1>0, <1>3, <2>1, OnlyRenamesBring
    <2>3. CASE pc = "purge" /\ UNCHANGED <<win, todo, done>>
      BY <1>0, <1>3, <2>2, <2>3 DEF NothingIsForgotten
    <2>4. CASE EndSweep
      BY <1>3, <2>2, <2>4 DEF EndSweep, setup
    <2>5. ASSUME NEW e \in Docs, RemoveDay(e) \/ RemoveDayFails(e)
          PROVE  d \in todo' \cup done'
      <3>1. pc = "purge" /\ win' = win
        BY <2>5 DEF RemoveDay, RemoveDayFails, setup
      <3>2. d \in todo \cup done
        BY <1>0, <1>3, <2>2, <3>1 DEF NothingIsForgotten
      <3>3. CASE RemoveDay(e)
        <4>1. d \notin SameDay(e)
          BY <1>3, <3>3 DEF RemoveDay
        <4> QED BY <3>2, <3>3, <4>1 DEF RemoveDay
      <3>4. CASE RemoveDayFails(e)
        BY <3>2, <3>4 DEF RemoveDayFails
      <3> QED BY <2>5, <3>3, <3>4
    <2>6. CASE CommandStep
      <3>1. pc = "purge" /\ UNCHANGED <<win, todo, done>>
        BY <1>0, <1>3, <2>6, CommandLeaves DEF run, setup, work
      <3> QED BY <2>3, <3>1
    <2>7. CASE [Next]_vars /\ ~EndSweep
               /\ \A e \in Docs : ~RemoveDay(e) /\ ~RemoveDayFails(e)
      <3>1. pc = "purge" /\ UNCHANGED <<win, todo, done>>
        BY <1>3, <2>7 DEF Next, RunStep, FetchStep, Midnight, EditFunds, Crash, Start,
           OpenManifest, Adopt, Requeue, Decline, EndReconcile, SyncScopes, Discover,
           Detect, StartDownloads, PassOver, Request, AttemptFails, FailCurrent,
           Filter, RecordTarget, OpenPart, WritePart, RenamePart, MarkCurrent,
           EndDownloads, StopDownloads, LeaveFetch, Unlink, UnlinkFails, EndPurge,
           Leave, run, setup, work, vars
      <3> QED BY <2>3, <3>1
    <2> QED BY <2>4, <2>5, <2>6, <2>7, ArchiveOrCommand
  <1>4. ASSUME cmd' = "empty", NEW d \in Docs, Aged(d, cwin'), file'[d] # "none"
        PROVE  d \in seen' \cup met' \cup late'
    <2>1. CASE AskPurge
      BY <1>3, <1>4, <2>1 DEF AskPurge, vars
    <2>2. CASE /\ cmd = "empty" /\ cwin' = cwin
               /\ d \in seen \cup met => d \in seen' \cup met'
      <3>1. CASE file[d] # "none"
        BY <1>0, <1>4, <2>2, <3>1, HistoryGrows DEF NothingIsForgotten
      <3>2. CASE file[d] = "none"
        <4>1. RenamePart /\ cur = d
          BY <1>0, <1>4, <3>2, OnlyRenamesBring
        <4>2. Aged(d, today)
          BY <1>1, <1>2, <1>4, <2>2, AgedStays
        <4> QED BY <4>1, <4>2, HistoryGrows
      <3> QED BY <3>1, <3>2
    <2>3. CASE UNCHANGED command
      BY <1>4, <2>2, <2>3 DEF command
    <2>4. ASSUME NEW e \in Docs, EmptyDay(e) \/ EmptyDayFails(e)
          PROVE  d \in seen' \cup met' \cup late'
      <3>1. CASE EmptyDay(e)
        <4>1. d \notin SameDay(e)
          BY <1>4, <3>1 DEF EmptyDay
        <4> QED BY <2>2, <3>1, <4>1 DEF EmptyDay
      <3>2. CASE EmptyDayFails(e)
        BY <2>2, <3>2 DEF EmptyDayFails
      <3> QED BY <2>4, <3>1, <3>2
    <2>5. CASE CommandStep /\ ~AskPurge
               /\ ~(\E e \in Docs : EmptyDay(e) \/ EmptyDayFails(e))
      <3>1. cmd' # "empty"
        BY <2>5 DEF CommandStep, AskRm, SaveRm, StandDown, RemoveFile, RemoveFileFails,
           EndRm, AskReconcile, Judge, Settle, EndReconcileCommand, EndPurgeCommand,
           CommandEnds, Return, Turn
      <3> QED BY <1>4, <3>1
    <2> QED BY <2>1, <2>3, <2>4, <2>5, ArchiveOrCommand
  <1> QED BY <1>3, <1>4 DEF NothingIsForgotten, Aged, First

(* The order in which a command visits filings is strict.                  *)
LEMMA OneIsForemost ==
  ASSUME seen \subseteq Docs, NEW d, NEW e, Foremost(d), Foremost(e)
  PROVE  d = e
  <1>1. d \in Docs /\ e \in Docs
    BY DEF Foremost
  <1>2. SUFFICES ASSUME d # e PROVE FALSE
    OBVIOUS
  <1>3. Before(d, e) /\ Before(e, d)
    BY <1>2 DEF Foremost
  <1>4. /\ Delivery[d] \in Nat /\ Id[d] \in Nat /\ Version[d] \in Nat
        /\ Delivery[e] \in Nat /\ Id[e] \in Nat /\ Version[e] \in Nat
    BY <1>1
  <1> QED BY <1>3, <1>4 DEF Before

LEMMA LandingStepKeeps ==
  ASSUME CommandsInv, [CommandsNext]_commandsVars
  PROVE  LandingIsCovered'
  <1>0. CommandsTypeOK /\ LandingIsCovered
    BY DEF CommandsInv
  <1>1. TypeOK /\ seen \subseteq Docs
    BY <1>0 DEF CommandsTypeOK
  <1>2. file \in [Docs -> Content] /\ todo \subseteq Docs
    BY <1>1 DEF TypeOK
  <1>3. \/ UNCHANGED <<pc, cur, part>>
        \/ [Next]_vars /\ ~CommandStep /\ ~UNCHANGED <<pc, cur, part>>
    BY <1>0, CommandLeaves, ArchiveOrCommand DEF run, work
  <1>4. pc' \in FetchOne => cur' \in Docs
    <2>1. CASE UNCHANGED <<pc, cur, part>>
      BY <1>0, <2>1 DEF LandingIsCovered
    <2>2. ASSUME NEW d \in Docs, PassOver(d) \/ Request(d)
          PROVE  pc' \in FetchOne => cur' \in Docs
      BY <2>2 DEF PassOver, Request, FetchOne
    <2>3. CASE AttemptFails \/ RecordTarget \/ OpenPart \/ WritePart \/ RenamePart
      <3>1. pc \in FetchOne /\ cur' = cur
        BY <2>3 DEF AttemptFails, RecordTarget, OpenPart, WritePart, RenamePart, FetchOne,
                    work
      <3> QED BY <1>0, <3>1 DEF LandingIsCovered
    <2>4. CASE /\ [Next]_vars /\ ~UNCHANGED <<pc, cur, part>>
               /\ ~(AttemptFails \/ RecordTarget \/ OpenPart \/ WritePart \/ RenamePart)
               /\ \A d \in Docs : ~PassOver(d) /\ ~Request(d)
      <3>1. pc' \notin FetchOne
        BY <2>4 DEF Next, RunStep, FetchStep, Midnight, EditFunds, Crash, Start,
           OpenManifest, Adopt, Requeue, Decline, EndReconcile, SyncScopes, Discover,
           Detect, StartDownloads, FailCurrent, Filter, MarkCurrent, EndDownloads,
           StopDownloads, LeaveFetch, Unlink, UnlinkFails, EndSweep, RemoveDay,
           RemoveDayFails, EndPurge, Leave, run, work, vars, FetchOne
      <3> QED BY <3>1
    <2> QED BY <1>3, <2>1, <2>2, <2>3, <2>4
  <1>5. pc' = "rename" => part' = "whole"
    <2>1. CASE UNCHANGED <<pc, cur, part>>
      BY <1>0, <2>1 DEF LandingIsCovered
    <2>2. CASE WritePart
      BY <2>2 DEF WritePart
    <2>3. CASE [Next]_vars /\ ~UNCHANGED <<pc, cur, part>> /\ ~WritePart
      <3>1. pc' # "rename"
        BY <2>3 DEF Next, RunStep, FetchStep, Midnight, EditFunds, Crash, Start,
           OpenManifest, Adopt, Requeue, Decline, EndReconcile, SyncScopes, Discover,
           Detect, StartDownloads, PassOver, Request, AttemptFails, FailCurrent, Filter,
           RecordTarget, OpenPart, RenamePart, MarkCurrent, EndDownloads,
           StopDownloads, LeaveFetch, Unlink, UnlinkFails, EndSweep, RemoveDay,
           RemoveDayFails, EndPurge, Leave, run, work, vars
      <3> QED BY <3>1
    <2> QED BY <1>3, <2>1, <2>2, <2>3
  <1>6. pc' = "mark" => (Copied(cur) \/ Excused(cur))'
    <2>1. CASE UNCHANGED <<pc, cur, part>> /\ pc = "mark"
      <3>1. PICK c \in Docs : c = cur /\ (Copied(c) \/ Excused(c))
        BY <1>0, <2>1 DEF LandingIsCovered, FetchOne
      <3>2. Copied(c)' \/ Excused(c)'
        BY <3>1, CopiesStay
      <3>3. cur' = c
        BY <2>1, <3>1
      <3> QED BY <3>2, <3>3 DEF Copied, Served, Excused, Aged, First
    <2>2. CASE RenamePart
      <3>1. cur \in Docs /\ part = "whole" /\ cur' = cur
        BY <1>0, <2>2 DEF RenamePart, LandingIsCovered, FetchOne
      <3>2. file'[cur] = "whole"
        BY <1>2, <2>2, <3>1 DEF RenamePart
      <3> QED BY <3>1, <3>2 DEF Copied, Served
    <2>3. CASE [Next]_vars /\ ~UNCHANGED <<pc, cur, part>> /\ ~RenamePart
      <3>1. pc' # "mark"
        BY <2>3 DEF Next, RunStep, FetchStep, Midnight, EditFunds, Crash, Start,
           OpenManifest, Adopt, Requeue, Decline, EndReconcile, SyncScopes, Discover,
           Detect, StartDownloads, PassOver, Request, AttemptFails, FailCurrent, Filter,
           RecordTarget, OpenPart, WritePart, MarkCurrent, EndDownloads,
           StopDownloads, LeaveFetch, Unlink, UnlinkFails, EndSweep, RemoveDay,
           RemoveDayFails, EndPurge, Leave, run, work, vars
      <3> QED BY <3>1
    <2> QED BY <1>3, <2>1, <2>2, <2>3
  <1>7. cmd' = "adopt" => \A d \in Docs : Foremost(d)' => Copied(d)' \/ Excused(d)'
    <2> SUFFICES ASSUME cmd' = "adopt", NEW d \in Docs, Foremost(d)'
                 PROVE  Copied(d)' \/ Excused(d)'
      OBVIOUS
    <2>1. \/ cmd = "adopt" /\ seen' = seen
          \/ Judge
      BY ArchiveOrCommand DEF command, CommandStep, AskRm, SaveRm, StandDown, RemoveFile,
         RemoveFileFails, EndRm, AskReconcile, Settle, EndReconcileCommand, AskPurge,
         EmptyDay, EmptyDayFails, EndPurgeCommand, CommandEnds, Return, Turn
    <2>2. CASE cmd = "adopt" /\ seen' = seen
      <3>1. Foremost(d)
        BY <2>2 DEF Foremost
      <3> QED BY <1>0, <2>2, <3>1, CopiesStay DEF LandingIsCovered
    <2>3. CASE Judge
      <3>1. PICK e \in Docs : Foremost(e) /\ file[e] = "whole"
        BY <2>3 DEF Judge
      <3>2. file' = file /\ seen' = seen
        BY <2>3 DEF Judge, vars
      <3>3. Foremost(d)
        BY <3>2 DEF Foremost
      <3>4. d = e
        BY <1>1, <3>1, <3>3, OneIsForemost
      <3> QED BY <3>1, <3>2, <3>4 DEF Copied, Served
    <2> QED BY <2>1, <2>2, <2>3
  <1> QED BY <1>4, <1>5, <1>6, <1>7 DEF LandingIsCovered

(* What lands has its copy, and keeps it.                                  *)
LEMMA LandedStepKeeps ==
  ASSUME CommandsInv, [CommandsNext]_commandsVars
  PROVE  LandedIsCovered'
  <1>0. CommandsTypeOK /\ RowsHold /\ LandingIsCovered /\ LandedIsCovered
    BY DEF CommandsInv
  <1>1. TypeOK
    BY <1>0 DEF CommandsTypeOK
  <1> SUFFICES ASSUME NEW d \in Docs, row'[d].landed
               PROVE  Copied(d)' \/ Excused(d)'
    BY DEF LandedIsCovered
  <1>2. CASE row[d].landed
    BY <1>0, <1>2, CopiesStay DEF LandedIsCovered
  <1>3. CASE Landing(d)
    <2>1. Copied(d) \/ Excused(d)
      BY <1>0, <1>3 DEF Landing, Adopt, MarkCurrent, LandingIsCovered, Copied, Served
    <2> QED BY <2>1, CopiesStay
  <1>4. CASE cmd = "adopt" /\ Foremost(d)
    BY <1>0, <1>4, CopiesStay DEF LandingIsCovered
  <1> QED BY <1>0, <1>1, <1>2, <1>3, <1>4, RunKeepsRows, CommandKeepsRows,
             ArchiveOrCommand

(* purged is written for what has aged and is gone, or was to be deleted.  *)
LEMMA PurgedStepKeeps ==
  ASSUME CommandsInv, [CommandsNext]_commandsVars
  PROVE  PurgedMeansAgedOrDiscarded'
  <1>0. /\ CommandsTypeOK /\ RowsHold /\ RemovedAreDiscarded /\ NothingIsForgotten
        /\ PurgedMeansAgedOrDiscarded
    BY DEF CommandsInv
  <1>1. TypeOK /\ cwin \in 0..today
    BY <1>0 DEF CommandsTypeOK
  <1>2. today \in Nat /\ win \in 0..today
    BY <1>1 DEF TypeOK
  <1> SUFFICES ASSUME NEW d \in Docs, row'[d].purged, d \notin discarded'
               PROVE  Excused(d)' /\ (file'[d] # "none" => d \in late')
    BY DEF PurgedMeansAgedOrDiscarded, Excused
  <1>3. d \notin discarded
    BY HistoryGrows
  <1>4. ASSUME Aged(d, today), file[d] # "none" => d \in late
        PROVE  Excused(d)' /\ (file'[d] # "none" => d \in late')
    <2>1. Excused(d)'
      BY <1>0, <1>4, ExcusesStay DEF Excused
    <2>2. CASE file'[d] # "none" /\ file[d] = "none"
      BY <1>0, <1>4, <2>1, <2>2, OnlyRenamesBring, HistoryGrows
    <2> QED BY <1>4, <2>1, <2>2, HistoryGrows
  <1>5. CASE row[d].purged
    BY <1>0, <1>3, <1>4, <1>5 DEF PurgedMeansAgedOrDiscarded
  <1>6. CASE EndPurge /\ Aged(d, win) /\ ~row[d].purged
    <2>1. pc = "purge" /\ todo = {} /\ d \notin done
      BY <1>6 DEF EndPurge
    <2>2. file[d] = "none"
      BY <1>0, <1>6, <2>1 DEF NothingIsForgotten
    <2>3. Aged(d, today)
      BY <1>2, <1>6, AgedStays
    <2> QED BY <1>4, <2>2, <2>3
  <1>7. CASE EndPurgeCommand /\ Aged(d, cwin) /\ d \notin met
    <2>1. cmd = "empty" /\ seen = {}
      BY <1>7 DEF EndPurgeCommand
    <2>2. file[d] # "none" => d \in late
      BY <1>0, <1>7, <2>1 DEF NothingIsForgotten
    <2>3. Aged(d, today)
      BY <1>1, <1>2, <1>7, AgedStays
    <2> QED BY <1>4, <2>2, <2>3
  <1>8. ~(cmd = "remove" /\ d \in met)
    BY <1>0, <1>3 DEF RemovedAreDiscarded
  <1> QED BY <1>0, <1>1, <1>5, <1>6, <1>7, <1>8, RunKeepsRows, CommandKeepsRows,
             ArchiveOrCommand

LEMMA RowStepKeeps ==
  ASSUME CommandsInv, [CommandsNext]_commandsVars
  PROVE  RowsHold' /\ WinnersAreHigher'
  <1>0. CommandsTypeOK /\ RowsHold /\ WinnersAreHigher
    BY DEF CommandsInv
  <1>1. TypeOK
    BY <1>0 DEF CommandsTypeOK
  <1>2. \A d \in Docs :
          /\ RowHolds(row'[d])
          /\ \/ row'[d].by = row[d].by
             \/ /\ row'[d].by \in Docs
                /\ Pub[row'[d].by] = Pub[d] /\ Version[row'[d].by] > Version[d]
    BY <1>0, <1>1, RunKeepsRows, CommandKeepsRows, ArchiveOrCommand
  <1> QED BY <1>0, <1>2 DEF RowsHold, WinnersAreHigher, RowHolds
-----------------------------------------------------------------------------
(* What commands and runs may rely on of each other.                       *)
THEOREM CommandsInvHolds == CommandsSpec => []CommandsInv
  <1>1. CommandsInit => CommandsInv
    <2> SUFFICES ASSUME CommandsInit PROVE CommandsInv
      OBVIOUS
    <2>1. Init
      BY DEF CommandsInit
    <2>2. TypeOK
      BY <2>1 DEF Init, TypeOK, Row, NoRow, LocalState, Content, Stages
    <2>3. CommandsTypeOK
      <3>1. gone \in BOOLEAN /\ (gone => pc \in Publishes)
        BY Zenon DEF CommandsInit
      <3>2. cwin \in 0..today /\ given \in 0..MaxCommands
        BY <2>2 DEF CommandsInit, TypeOK
      <3> QED BY <2>2, <3>1, <3>2, Zenon DEF CommandsInit, CommandsTypeOK
    <2>4. \A d \in Docs : row[d] = NoRow
      BY <2>1 DEF Init
    <2>5. RowsHold /\ WinnersAreHigher /\ LandedIsCovered /\ PurgedMeansAgedOrDiscarded
      BY <2>4 DEF NoRow, RowsHold, RowHolds, WinnersAreHigher, LandedIsCovered,
                  PurgedMeansAgedOrDiscarded
    <2>6. /\ SweepHasReason /\ EmptiedAreAged /\ RemovedAreDiscarded
          /\ NothingIsForgotten /\ LandingIsCovered
      BY <2>1 DEF Init, CommandsInit, SweepHasReason, EmptiedAreAged,
                  RemovedAreDiscarded, NothingIsForgotten, LandingIsCovered, FetchOne
    <2> QED BY <2>3, <2>5, <2>6 DEF CommandsInv
  <1>2. CommandsInv /\ [CommandsNext]_commandsVars => CommandsInv'
    <2> SUFFICES ASSUME CommandsInv, [CommandsNext]_commandsVars PROVE CommandsInv'
      OBVIOUS
    <2>1. CommandsTypeOK'
      BY CommandsTypesKept DEF CommandsInv
    <2> QED BY <2>1, RowStepKeeps, SweepStepKeeps, PurgeStepKeeps, RmStepKeeps,
               ForgottenStepKeeps, LandingStepKeeps, LandedStepKeeps, PurgedStepKeeps
            DEF CommandsInv
  <1> QED BY <1>1, <1>2, PTL DEF CommandsSpec

(* The types of what runs and commands share.                              *)
THEOREM CommandsTypeCorrect == CommandsSpec => []CommandsTypeOK
  <1>1. CommandsInv => CommandsTypeOK
    BY DEF CommandsInv
  <1> QED BY <1>1, CommandsInvHolds, PTL

(* Whatever rm, reconcile and purge do beside a run, without a lock and    *)
(* from snapshots of their own, what landed once leaves its reader a copy  *)
(* of it or of a later version, unless that very file was to be deleted.   *)
THEOREM CopiesSurviveCommands == CommandsSpec => []CommandsLeaveACopy
  <1>1. CommandsInv => CommandsLeaveACopy
    <2> SUFFICES ASSUME CommandsInv, NEW d \in Docs, row[d].landed, ~Excused(d)
                 PROVE  \E e \in Docs : /\ Pub[e] = Pub[d] /\ Version[e] >= Version[d]
                                       /\ Served(e)
      BY DEF CommandsLeaveACopy, Excused, Served
    <2>1. Copied(d)
      BY DEF CommandsInv, LandedIsCovered
    <2>2. \A e \in Docs : Version[e] \in Nat
      OBVIOUS
    <2> QED BY <2>1, <2>2 DEF Copied
  <1> QED BY <1>1, CommandsInvHolds, PTL

(* purged keeps its meaning beside the commands: deleted on request, or    *)
(* aged and gone but for what came after; a date that resisted a purge     *)
(* keeps its rows.                                                         *)
THEOREM PurgedKeepsItsMeaning == CommandsSpec => []PurgedMeansAgedOrDiscarded
  <1>1. CommandsInv => PurgedMeansAgedOrDiscarded
    BY DEF CommandsInv
  <1> QED BY <1>1, CommandsInvHolds, PTL
=============================================================================
