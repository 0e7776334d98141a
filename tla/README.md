# A formal model of fii-docs-watcher

fii-docs-watcher keeps a local archive of the documents that Brazilian
listed funds file with Fundos.NET: a container wakes up on schedule, asks the
source what was filed, downloads it, replaces re-filed versions, and throws away
what is older than a retention window. This directory holds TLA+ models of the
parts of it that are hard to test (what a crash leaves behind, what a source that
changes under a paginated read makes a read miss, what processes that share a
file do to each other), TLC configurations that check them, and TLAPS proofs of
the properties that matter most. Line references are to the sources;
`PROJECT.json` maps every definition to its lines.

## 1. Inventory

### Components, their state and their operations

| component | state | operations |
|---|---|---|
| manifest (`manifest/repo.py`, `db.py`) | one SQLite row per publication (state, destination, `purged_at`, `superseded_by`, attempts), `sync_state` per entity, a listing cursor per fund type | `upsert_discovered`, `pending_downloads`, `set_state`, `set_download_target`, `record_attempt`, `mark_failed`, `mark_available`, `mark_superseded_by`, `mark_superseded_removed`, `mark_purged`, `mark_documents_purged`, `abandon_pending`, `abandon_pending_outside`, watermark and cursor reads and writes |
| run (`run.py`) | its windows, its usable scopes | lock, registry, reconcile, scopes, discovery, alarm, detect, fetch, sweep, save, inbox, purge, audit, in that order |
| discovery (`pipeline/discover.py`, `watchlist.py`) | spellings in use | sweep of every entity, or a gated monitor; watermark, cursor, spelling refresh |
| listing reads (`fnet/listing.py`) | none between calls | `scan` (full coverage, rescans), `scan_newest` (stops at the cursor) |
| supersession (`pipeline/supersede.py`) | none | `correlate` (rules R1 and R2), `detect`, `sweep` |
| fetch (`pipeline/fetch.py`) | the queue it read, one staging file | filter by format, attempt, download, stage, rename, mark |
| reconcile, purge (`pipeline/reconcile.py`, `purge.py`) | none | adopt or requeue interrupted rows; remove date directories behind the frontier |
| run lock and shutdown (`lock.py`) | lock file, payload, a flag | acquire, release, signal handler |
| scheduler (`docker/scheduler.py`) | child, stop flag, last minute fired | match the schedules, spawn, wait, forward signals |
| funds.yaml (`scope/yaml_store.py`) | the file, its backup, the digest each process remembers | load (with template), mutate, save, conflict |
| CVM registry cache (`cvm/registry.py`) | archive, state file | `load`: fresh, refresh, fall back |
| scope resolution (`scope/resolver.py`, `fnet/funds.py`) | none (results go to funds.yaml) | search a name, probe and pick an id, consolidate a scope, confirm a CNPJ |
| CNPJ, names (`scope/cnpj.py`, `text.py`) | none | digits, folding |
| HTTP client (`fnet/client.py`) | throttle | request with retries |
| content validation (`fnet/download.py`, ...) | none | accept, refuse, identify the format |
| inbox (`pipeline/inbox.py`) | an index file per day of arrival | rewrite what exists, add today's, purge with the days |
| audit (`pipeline/audit.py`) | none | report |
| commands (`cli.py`) | none between calls | run, add, rm, ticker, edit, resolve, reconcile, purge, list, status, doctor |

### How they interact

The scheduler spawns a run and waits for it. A run takes the lock, loads the
registry and funds.yaml, and then its stages speak to each other only through
the manifest and the disk: each stage reads a snapshot of rows, works for
minutes, and writes single rows back, each in a transaction of its own. People
edit funds.yaml at any time. The commands take no lock: beside a working run they
write funds.yaml, the registry cache, rows of the manifest, and remove files.
Signals go from the operator to the scheduler and from there to the run.

### What is hard about it, and what makes each part correct

- *Crashes.* A run can die between any two statements. File system steps
  (rename, unlink, rmtree) and transactions are separate, so every order of them
  has a death in the middle. Correct: whoever reads the archive still finds
  every available filing of the window, or a later version of it; no file is
  stray; nothing that landed is fetched again; what is queued settles.
- *Midnight.* Runs outlast days; windows are computed once per run.
  Correct: only what is behind the frontier is purged, by any calendar in use.
- *Re-filing.* Two grouping rules build chains of versions. Correct: a
  replacement is a strictly higher version of the same publication.
- *A listing that moves between pages.* Correct: a read that calls itself
  complete has what was listed all the while, within what section 4 can say of it; the
  cursor and the watermark only pass over what was dealt with.
- *Names.* The monitor matches names. Correct: what it misses, sweeps find.
- *Processes.* Correct: one run at a time; the payload names it once it has
  written it; the scheduler's own runs never collide; a minute fires once; a stop is heard, and
  polite.
- *Files shared with people and commands.* Correct: no edit is lost, the
  backup is what was replaced, no failed refresh displaces a good registry, and
  what is served as fresh is fresh.
- *Commands beside a run.* `rm`, `reconcile` and `purge` work from snapshots of
  their own, and so does the run. Correct: nobody loses a copy they did not ask
  to delete, and whatever the two did to each other, what has aged is gone in the end.
- *Identity.* An id found by a fund's name may be another fund's. Correct: what is
  believed was shown by a document; what two scopes claim waits; nothing foreign is
  filed; and an outage delays resolution but does not prevent it.
- *Indexes.* The day of arrival and the day of the index are read at different
  times. Correct: links in the window lead somewhere, arrivals are listed, entries do not
  vanish.

`PROJECT.json` lists these hazards one by one, at their lines.

## 2. Modules

| module | models |
|---|---|
| `Manifest` | the row of one publication and one operator per statement of `repo.py`; the constants (filings, ids, versions, keys, delivery days) and their assumptions |
| `Supersede` | `correlate`, and what `detect` and `sweep` make of it |
| `Archive` | manifest, files, calendar, watch list and one run, statement by statement where a death makes a difference; its safety properties |
| `ArchiveInv` | the inductive invariant |
| `ArchiveClaims` | liveness of the queue, what counts as an interruption, and one promise of the source that is not kept |
| `Shelf` | abstract specification: what the archive promises readers |
| `Inbox` | the indexes of the days, written and purged by the runs of `Archive` |
| `Commands` | `rm`, `reconcile` and `purge` beside the runs of `Archive` |
| `ArchiveProofs` | theorems about `Archive`, up to *it implements `Shelf`*, about `Inbox` and about `Commands` |
| `Scopes`, `ScopesProofs` | resolution, confirmation, the queue of contested ids; runs, `resolve`, `add`, `rm` and people on one funds.yaml |
| `Listing` | the source: publication, withdrawal, and the pages it may serve |
| `Scan`, `ScanNewest` | the two paginated reads of it, and the cursor |
| `ScanProofs`, `ScanNewestProofs` | theorems about the two reads |
| `Discovery`, `DiscoveryProofs` | sweep, monitor, watermarks, cursor, spellings and alarm over days |
| `Lock` | the flock protocol |
| `Cron` | what a cron expression matches |
| `Scheduler`, `SchedulerProofs` | container loop, children, signals, clock, and the lock between the runs; theorems about both modules |
| `FundsFile`, `FundsFileProofs` | one write of funds.yaml between an editor, a run and commands |
| `Registry`, `RegistryProofs` | the two-file cache and its refresh |
| `MC*` | instances for TLC |

`Archive` extends `Supersede`, which extends `Manifest`; `Inbox` extends `Archive`, and
`Commands` extends `ArchiveClaims`, so both run beside every statement of the
pipeline. `Scan` and `ScanNewest` each extend `Listing`, `Scheduler` extends `Cron`.
Two refinements: `Archive` implements `Shelf` (the shelf is the set of filings with
`row.state = "available"` and a whole file, `ever` the set with `landed` set), and
`Scheduler` implements `Lock` with its runs as the processes. Abstractions that one
module makes of another:

- `Archive` runs one run at a time. `Lock` shows that this is what the lock gives,
  `Scheduler` that the runs of a container keep to it.
- `Archive.Discover` records *any subset* of what the retention window covers of
  the usable entities. The windows of sweep and monitor are no wider, and short
  or gated reads leave things out, so it stands for every outcome of `Discovery`
  and of a shutdown in the middle of it.
- `Archive` has one scope per entity, usable or not, without confirmations;
  `Scopes` has those, and a queue without attempts, deaths between statements or files.
- `Discovery` reads a listing of one moment, whole or in part. What a read of many
  moments can miss is the subject of `Scan` and `ScanNewest`.
- `Scopes` loads, and compares and replaces, funds.yaml in one step each. What happens
  within such a step is the subject of `FundsFile`.
- `Scopes.Remove` is `rm` in one step; its steps are those of `Commands`.

### How state and actions correspond to the code

*Archive.* `pc` is the stage of `run.execute`. `Start` and `OpenManifest` are its
two calls of `retention_window`, each with its own `today()`; `Adopt`, `Requeue`
and `EndReconcile` are `reconcile.run`; `SyncScopes` is `sync_scopes` with
`abandon_pending_outside` and the early return when no scope is usable; `Detect` is
`supersede.detect` followed by the queue query of `fetch.run`; `Decline` is a
format declined by its category text. `Request` to `MarkCurrent` are the
statements of `fetch_one` (set downloading; download; record the destination;
write the staging file; rename; mark available), and `AttemptFails`,
`FailCurrent`, `Filter` its exits; `PassOver` is the attempt budget.
`Unlink`, `UnlinkFails` and `EndSweep` are `supersede.sweep` (files first, one
transaction after all of them), `RemoveDay`, `RemoveDayFails`, `EndPurge` are
`purge.run`. `Crash` may come anywhere and loses all the run's variables.
`landed`, in the row, is the only history variable.

*Inbox.* It splits the last stage of `Archive` in two. `OpenInbox` ends the sweep and reads
today (`forDate`); each `WriteIndex` writes one day of the window in ascending order, a
past one only if it has an index; then `PurgeDirectory` and `PurgeInbox` are the
directories, the rows and the old indexes of `purge.run`. `landedOn` is `downloaded_at`.

*Commands.* `AskRm` reads what is on disk before the prompt, `SaveRm` writes funds.yaml,
`StandDown` is `abandon_pending`, `RemoveFile` and `RemoveFileFails` are `remove_files`,
`EndRm` its removal of emptied directories and `mark_documents_purged`. `AskReconcile`,
`Judge`, `Settle` are `reconcile.run` as a command: read the rows, look at the file, write
the row. `AskPurge`, `EmptyDay`, `EmptyDayFails`, `EndPurgeCommand` are `purge.run` with a
window of its own. `gone` says that the directory a run is about to rename into is no longer
there. `CommandEnds` is Ctrl-C, a prompt refused, or a save refused. `discarded` (the filings
`rm` was told to delete) and `late` (those a run put into place after they had aged) are history
variables.

*Scopes.* For the run: `Load`, `Sync` per scope, `Synced` (save, stand down, early return),
`Discover`, `Fetch`, `Finish` (the last save). For the command: `AskResolve` (with or
without `--all`), `ResolveOne`, `EndResolve`. `Add` and `Remove` are the commands and the
editor. `Pick`, `Clear`, `Entry` and `Resolved` are `_pick`, the two removals of conflicts and
the entry `resolve_scope` returns. `base` is the content whose digest a process remembers.
`proven`, a history variable, holds which CNPJ was disclosed under which id.
An id is listed under one fund type, a name search is one request, and a run without a
registry snapshot is one in which every request fails.

*Scan, ScanNewest.* `start`, `seen`, `total`, `got` and their like are the local variables of
the two functions. Between any two requests the source may publish or withdraw.
`Pages(start, rank)` is every page a sort by `rank` allows at that offset, ties
in any order, and any order at all if `Ordered` is FALSE.
`stood` and `left` are history variables: what was listed from the first request until now,
and what was withdrawn since.

*Discovery.* `queue` is the list of entities still to be queried; `Scanned` and
`ScannedShort` are `discover_entity` with a complete and an incomplete (or
failed) scan. `live` is the spelling held in memory, `desc` the one saved.
`owed`, a history variable, holds the rows the gate read of monitored names.

*Lock.* A file, its inode, open descriptors, the flock and the text in it are
separate; `Open`, `Flock`, `Truncate`, `Write`, `Clear`, `Unlock`, `Close` are
the system calls of `acquire` and `release` in their order, `Die` the kernel
closing the descriptors of a dead process.

*Cron.* A field is a set of parts, a part a span with a step; `Values` is what the parser
expands it to, `DayMatches` the rule for the two day fields, `Restricts` cron's notion of
a starred field.

*Scheduler.* `pc` is the line of `main`'s loop; `Fork` and `Keep` are the two halves of
`Popen` and its assignment. `stage` is how far a run is outside the lock: interpreter
starting, working, asked to stop, leaving; `step` how far it is in it. Signals are delivered
to a set of recipients and handled later; a run not yet past `ShutdownSignal.__enter__`
dies of one, a working one stops at a step, a second one cuts it. `fired`, `stops`,
`breaks` and `cut` are history variables.

*FundsFile.* The file's content is told apart by the edits it carries. `Stage`
is the first digest comparison with the backup, `Check` the second, `Replace`
the rename. `kept` and `raced` are history variables.

*Registry.* `Look` and `Weigh` are the two reads of `_is_fresh`, `LoadCached`
and `ReadStamp` the two of `_load_cached`, `StoreArchive` and `StoreState` the
two writes of a refresh.

## 3. Runs

| run | properties | instance | states |
|---|---|---|---|
| `archive` | `IInv`, `ReaderHasACopy`, `NoStrayFile`, `PurgedMeansAged`, `MarksPointUp`, `NeverRefetched`, `KeepsItsPromise` | a chain of three that R1 and R2 together connect, with formats declined before and after the download; two days of retention, three days, two attempts | 1,565,358 |
| `inbox` | `LinksLead`, `ArrivalsAreListed`, `NothingVanishes` | a filing, its re-filing a day later, an unwanted format known beforehand and one known only after the download; two days of retention, three days | 5,073,520 |
| `commands` | `CommandsTypeOK`, `CommandsLeaveACopy`, `PurgedMeansAgedOrDiscarded` | a filing and its re-filing, one command beside any number of runs, two days | 3,344,606 |
| `commands_settle` | `QueueSettles`, `AgesOut` under fairness | two filings, the second of an unwanted format, two attempts, one command | 413,153 |
| `claim_neither_copy` | `NeverNeitherCopy`: violated | two versions of one filing | |
| `scopes` | `ConfirmedIsEarned`, `CompleteMeansWhole`, `NothingForeignIsFiled`, `ContestedWaits`, `ConfirmationsStay`, `EveryScopeResolves` | an umbrella fund with three classes, one of them registered by itself too; two acts of people or commands | 554,965 |
| `scan` | `CompleteMissesNoMore`, `ScanEnds` | five filings, two of them re-filings, pages of two, any order, three attempts | 16,051 |
| `scan_newest` | `TypeOK`, `CompleteKeepsAll`, `CursorLosesNothing` | eight filings in four minutes, two re-filings, two malformed rows, pages of two | 401,288 |
| `discovery` | `CursorIsAPromise`, `WatermarkIsHonest`, `SweepFindsAll` | two entities, three filings, a spelling the archive has not learnt, three days | 318,211 |
| `scheduler` | `Exclusive`, `PayloadNamesHolder`, `NeverContends`, `OncePerMinute`, `OneStopIsPolite`, `KeepsToTheLock`, `StopEnds` | two schedules that share a minute, two scheduled runs and one by hand, two signals, the clock set back once | 1,091,648 |
| `funds_file` | `NoEditIsLost`, `BackupIsWhatWasReplaced` | a run, a command, an editor, three edits | 730,715 |
| `registry` | `FreshIsRecent`, `LastGoodStays` | a run and a forced refresh, two editions, three ticks, an interval of two | 213,006 |

A type invariant, or a strengthening, that is proved for every value of the constants is
not checked a second time by a run, but for `Archive.IInv`, on which most of
`ArchiveProofs` rests, and the type invariants of `Commands` and `ScanNewest`, whose
variables are the most. Every strengthening was checked by TLC on the instance of its run
before it was proved.

Some properties needed more than their run first showed:

- `CompleteMissesNoMore` allows one miss for each row read that was withdrawn. The bound is what the
  code's count gives (section 5): with two re-filings the run reaches a complete scan that misses one.
  It still tells attempts apart: a row of an attempt that fell short makes up for nothing in the next.
- `CompleteKeepsAll` excepts filings of the newest minute while others of that minute come and
  go during the read (`Moving`). Two filings of one minute, pages of one: the read takes the first; a re-filing of it arrives within the
  same minute and takes its place in the count. Rows of one minute may come in any order, so the
  re-filing may come second, where the offset now stands, and the other filing first, where the read will not look
  again; the total is what it was. The cursor stops at that minute and the next read
  repeats it, which is why `CursorLosesNothing` has no such exception. The instance was
  enlarged until leaving out either exception fails on it.
- `BackupIsWhatWasReplaced` was false of three writers of which two commands brought the *same* edit. An
  edit is now told apart from those that another command has in hand (`FundsFile.Change`), as
  the abstraction always meant it to be.

### Why the bounds are enough

- `archive`: three filings are the smallest chain that needs both rules, so a
  filing can be a loser by one rule and a winner by the other. The first of them is a loser
  without a file (a replacement of one with a file, by R1 and a day later, is in `inbox`). Two days of
  retention and three days let the frontier pass the first two filings while the
  third is still inside, and let a run outlast a midnight and still be followed
  by another. Of two attempts the first leaves a failed row that waits and the second
  exhausts the budget. Runs and crashes are not bounded.
- `inbox`: a past day can be rewritten after its re-filing came, and then fall behind the
  frontier; the third day brings formats, so that an index may be empty. Deaths between the removal of directories and that of
  old indexes leave stale ones (section 5).
- `commands`: one day of retention lets the command's window be one day ahead of the run's,
  and two versions let a command remove the file whose replacement the run is handling. One
  command is enough for a command beside a run, and for a run that starts on what the
  command left half done; two attempts in `commands_settle` let a row be failed and still waiting.
- `scopes`: two scopes that expand to one class claim its id; two classes of one scope find
  the same id, or not, according to which request failed; the name of one class finds two
  ids and is decided by volume; and a name may be found under the second fund type only. Two
  documents of two classes under one id are what tells a confirmation of one
  from that of the other. Two acts of people or commands allow `resolve` and an edit during it.
- `scan`, `scan_newest`: three pages are needed for a boundary on both sides of a
  page; a filing that comes and one that goes between two pages are
  enough to keep the total still. Minutes are shared, because rows of one minute
  may come in any order. Reads are not bounded in number.
- `discovery`: two entities are the smallest set in which one gated query fails
  and the other does not. Three days let a filing leave the monitor's window of two
  while the archive's of three still holds it. No filing of the instance
  re-files another: what a withdrawal does to a read is the subject of the two runs
  above. The gap warning cannot fire within three days; it is a line of the log that
  changes nothing, and no property is about it.
- `scheduler`: the clock is four minutes around a midnight, and can go back into the one that
  has fired; two child ids leave room for the overlap that must not happen; two inodes
  for a lock file that is made anew, which must not happen either. The schedules use
  both day fields, a span with a step, and the last minute of an hour.
- `scan_newest`: four filings share a minute, so that a page boundary falls inside it twice.
- `funds_file`: with three edits, one is replaced, one is staged and one is in
  the editor. `registry`: the interval is shorter than the clock is long, so that
  both a fresh cache and an expired one occur.

Every bound is a constant with `bound:` in its comment, and limits only the
environment: days, signals, edits, commands, requests that may fail.

### Fairness

- `commands_settle`: the scheduler keeps starting runs and a run keeps going
  (`WF(RunGoesOn)`: its steps include `Start`; every request has a timeout and a bounded
  number of retries), commands come to an end, and what interrupts (deaths, shutdown
  requests, edits, unusable scopes) or keeps a directory from being removed is finite. Without
  the last, a run that dies before its downloads for ever settles nothing. `AgesOut` also asks
  that a fund is followed at all: see section 5.
- `scopes`: the same of its runs (`WF(RunStep)`); deaths, failing requests, and what
  people do are finite.
- `scan`: the pages of a scan are answered or fail (`WF`).
- `discovery`: runs go on (`WF`), sweeps are started again and again (`SF`, since a
  monitor may be at work when one is due), and for each entity a sweep comes back
  complete now and then (`SF`): a source that is never complete can hide
  anything for ever.
- `scheduler`: the loop and the runs go on (`WF`), each wait in them
  having a timeout or ending with a child that ends.

## 4. Proofs

TLAPS proves the following for all values of the constants that meet the named
assumptions, for any number of filings, entities, scopes, days, instances, processes.

**Archive** (`ArchiveProofs`, from `DocsAssumption`, `PubAssumption`,
`RefilingsArriveLater` and `ArchiveAssumption`). The properties are not inductive: that
a reader has a copy depends on what the sweep has in hand, that on what the
queue held, and that on what the columns of a row say together. `IInv` says what
each stage may rely on although its snapshot is minutes old. It is proved in layers,
each using the ones before it:

1. `TypeCorrect`: types; its lemmas state once what each manifest statement does to a row.
2. `SnapshotsAreFresh`: the columns of a row agree; the rows of reconcile's and fetch's
   snapshots still are in the states in which they were read. This is where the
   order *detect, then queue* is used.
3. `LandsOnce` (`NeverRefetched`): `landed` leads only to states the queue does not take.
4. `SupersessionPointsUp` (`MarksPointUp`).
5. `NoFileIsStray` (`NoStrayFile`): the destination is on record before the rename;
   what the purge removes or fails to remove stays known to it.
6. `PurgeMarksTheAged` (`PurgedMeansAged`): a run's frontier is never ahead of the calendar's.
7. `ReaderIsServed` (`ReaderHasACopy`): the sweep removes a file only while its
   replacement is available; and as a re-filing is delivered no earlier than what it
   replaces, the replacement does not age out first.
8. `ArchiveKeepsItsPromise` (`KeepsItsPromise`): every step is a step of `Shelf` or a stutter.
9. `InvariantHolds`: `IInv` as a whole, as the run checks it.

`RefilingsArriveLater` is an assumption about the source: a higher version of
an id, and a filing with a higher id and the same key, is not delivered before the one it replaces.
This is of runs one after the other. Commands beside a run break some of it (section 5); what
survives is proved below.

**Inbox** (`ArchiveProofs`, second part; no further assumption). Every step of `InboxSpec` is a step of
`Archive` or leaves it alone, so layers 1, 2, 4 and 5 hold of it (`ArchivedHolds`); but it orders the last
stage more finely, and what is aged is judged by two clocks: a reader's today, and the window the run
started with. `Horizon` is whichever deletes next. `InboxInv` says of every day's index
what links it may hold by the horizon (`LinksNow`), which of the indexes have been rewritten for this run
(`Rewritten`) and that those are complete (`Complete`), that an entry's filing did
arrive on that day (`EntriesArrived`), and that nothing is marked purged or sent to
the sweep ahead of the horizon. None of the three properties is inductive: they hold because of
the day by day order in which the inbox is written before the purge. From it `LinksAlwaysLead`,
`EveryArrivalIsListed`, `NothingEverVanishes`. `LinksLead` speaks of every index that stands; the links it
lets dangle are those of aged filings in an index itself behind the frontier, which the purge leaves
behind when it dies or an unlink fails (section 5).

**Commands** (`ArchiveProofs`, third part; no further assumption). `IInv` does not survive commands: rows are written by two processes from two
snapshots, so `Fresh` fails. `CommandsInv` is what is left. A row says
little (`RowHolds`), but whoever is about to delete files has his reason in hand: the sweep a
replacement that landed (`SweepHasReason`), the purges a day behind a window (`EmptiedAreAged`), `rm` the
request, filing by filing (`RemovedAreDiscarded`). Coverage is then not by `state` but by `landed`: what landed
has a copy, its own or a higher version's (`LandedIsCovered`), and what a run or `reconcile` is about to
mark as landed has one too (`LandingIsCovered`); a version that `rm` was told to delete counts for one
(`Served`). That a purged row has no file needs the other direction: whatever has aged and still has a
file is before the purge, resisted it, or was put into place by a run after it had aged
(`NothingIsForgotten`, with the history variable `late`). From it `CopiesSurviveCommands`,
`PurgedKeepsItsMeaning` and `CommandsTypeCorrect`.

**Scopes** (`ScopesProofs`, for any registry, any answers, any number of edits).
`ScopesInv` asks of every copy of funds.yaml that may still be written, the file, the
run's and the command's, that its entries are sound: entities of the expansion, no two
with one id, confirmed only with a witness in `proven`, complete only when nothing is
missing. That makes it irrelevant who writes last. Confirmations stay
because a process's copy never has fewer than the content it compares the file with when it
saves. From it `ConfirmationsAreEarned`, `CompleteIsWhole`, `NothingForeign`,
`ContestedDocumentsWait`, `ConfirmationsSurvive`.

**Discovery** (`DiscoveryProofs`). `OwedIsMonitored`: what a complete read saw for a monitored
name stays monitored until its entity leaves the watch list or is renamed. `QueueDealsWithIt`: while no
query has failed, what is owed is known or its entity is still queued; this is what is
left to say when the cursor is written. From them `CursorKeepsItsPromise`;
`WatermarkRecordsWhatWasSeen` needs only that a window of any profile that moves a watermark
covers the retention window.

**Scan** (`ScanProofs`; no assumption on order, page length or re-filings). `CompleteScanCounts` counts: the
largest total is at least the number of filings that were listed throughout, and of what is in `got` only
rows that have left can stand for others, hence one miss for each at most. Its corollary
`CompleteScanMissesNothing` adds `NoRefiling`: where nothing is withdrawn, nothing is missed.

**ScanNewest** (`ScanNewestProofs`). The types (`NewestTypeCorrect`) hold of any source; the rest is
proved under `Ordered`, which is what the code has measured of the source (`listing.py:23`) and
checks on every page (291). The invariant counts. For a filing the read still owes, `Room` says
that the rows read so far, and what the listing has grown by since its total was last the read's own,
are no more than those that stand above the filing or were read of its minute. A page that is full leaves
the filing on a later one; a page that ends the read would have to have held it. The count is kept because only what
comes above the filing shifts it back, and what is withdrawn from above it is replaced in the
total by something newer; this fails for ties of the newest minute, hence `Moving`. `CompleteReadKeepsAll`
reads it off at the end. `CursorNeverLoses` carries it over many reads: the cursor stops at the
newest minute a complete read saw, and whatever comes later is no older (`InstantsOfFilings`).

**Lock** (`SchedulerProofs`, over the instance `L`). `OneInode`: the file is created once, every
descriptor is on that inode, its flock belongs to whoever is between `Flock` and `Unlock`, and nobody else
writes the payload from the holder's `Truncate` on. From it `RunsExclude` and `PayloadIsTrue`, for any processes.
Between `Flock` and `Truncate` a refused instance may still read the name of a holder that died or could not
clear it; `lock.py:64-66` says as much ("absent or stale"), and nothing is decided by it.

**Scheduler** (`SchedulerProofs`). `UsesTheLock` shows that each step of the container is a
step of `Lock` or leaves it alone, so that the lock's invariant carries over to the
container's runs: `ContainerRunsExclude` and `ContainerPayloadIsTrue`.
`SchedulerInv` adds that every scheduled run that lives is the one the loop waits for
(`ProfilesNeverContend`), and whom a single request to stop has reached (`OneStopWaits`).
`FiresOnce` is proved for a clock set back at most once by a minute (`MaxBacks =< 1`);
set back further it is false (section 5).

**funds.yaml** (`FundsFileProofs`). `KeptIsKnown`: a writer about to replace the file knows every
edit that was saved before it last looked. From it `EditsAreKept`. The backup is proved for two writers that
resolve at most (`TwoResolvers`: the run, which the lock keeps to one, and a `resolve` beside it) and any number
of commands. The last look compares digests, so all depends on no content coming back
between staging and look. Edits not saved yet are nowhere else (`PendingIsPrivate`), so whoever
saves one makes a content that never was; and under the same edits a resolver that has yet to write has
its fields nowhere in the file, nor has anybody read what it would write (`FieldsOnlyGrow`). From it
`ReplacedIsBackedUp`. With three resolvers it is false: they overwrite
each other's fields, read the file again and write anew what stood there before; a fourth writer that staged
over it then finds it back, and its backup gone (a trace of 60 states; TLC finds none with two, on
14,394,494 states).

**Registry** (`RegistryProofs`). The invariant follows editions and dates back to
downloads (`Sourced`), says that what is being stored is of this tick (`Storing`), and that
what a load found fresh stays recent until it is served (`FreshStays`). From it
`FreshMeansRecent` and `LastGoodIsKept`.

*Only model-checked.* Liveness (`QueueSettles`, `AgesOut`, `ScanEnds`, `SweepFindsAll`,
`EveryScopeResolves`, `StopEnds`) is out of the proof system's reach.
Every invariant, action property and refinement the passing runs check
has a theorem, under the hypotheses named above: `Ordered` for
`ScanNewest`, `TwoResolvers` for the backup, `MaxBacks =< 1` for `OncePerMinute`.

## 5. Where the code and its documents disagree

One disagreement has a run that exhibits it. `claim_neither_copy`:
`supersede.py:46-48` promises that the reader is never left with
neither copy. `detect` takes a *pending* loser out of the queue for good (178-181)
before its replacement was ever fetched; if the replacement then fails until its budget is spent,
there is neither.

Others were met while modelling. The models contain the behaviour; none of them has a run of its own.

A run by itself:

- `ScanResult.complete` (`listing.py:87`) counts distinct rows
  against the largest total. A re-filing listed early, and its old version
  withdrawn later, balance a row lost at a page boundary; the watermark advances over it. No more is lost than rows
  read and withdrawn (`Scan.CompleteMissesNoMore`).
- Indexes follow retention "so that a stale index never links into a directory that no longer exists"
  (`purge.py:133-134`, `inbox.py:12-13`). The directories go first (116): a death before
  `_purge_inbox` (135), or an unlink that fails (160-169), leaves an index that does, until a later purge.
  `Inbox.LinksLead` excepts exactly these links.
- The alarm for a gap in coverage (`rev4` 4.3, line 395) looks
  after discovery has moved the watermarks (`run.py:311`), so the sweep that ends an
  outage hides it. `stale_watermarks` (`repo.py:701`) also leaves out watermarks never set, so with the
  daily sweep disabled the alarm does not fire, contrary to `rev4`, line 391.
- `clock.py:171-174` says one window keeps discovery from downloading what purge
  deletes minutes later. `pending_downloads` has no window: a row left failed until it
  aged out is fetched and purged by the same run.
- `run.py:216-217` says both windows end on one `today`, read once. Each of lines 220
  and 221 reads its own (`Archive.Start`, `OpenManifest`). The inbox reads a third
  (`inbox.py:172`): when midnight falls during the run, what it downloaded before has no
  index, although "today's index is always written" (183).
- A death between `record_attempt` and `mark_failed` (`fetch.py:193`, 201) on the last
  attempt leaves a row without budget that is never marked failed, though
  `fetch.py:313` says "leaving it failed".
- With no usable scope a run returns before it purges. Someone who removes the last fund
  keeps its files for ever, contrary to `USAGE.md:291` (they "age out").
- A fund that fails to resolve keeps its queue (`USAGE.md:322`, `run.py:256-259`), but a CNPJ
  typed anew over an entry has no entities until it resolves, and its queue is stood down
  like that of a removed one. Rediscovery revives what the window still holds.
- A scope that failed in part has entities, and no run looks for the rest; only `resolve --all`
  does. When that fails in part it drops the entity of the class that failed, and
  the next run stands its queue down.
- A short scan that shows a new spelling (`discover.py:152`) unlearns the old one: a row of the
  old spelling in the cursor's minute is no longer gated, the cursor passes it, and only the sweep
  finds it. `Discovery` takes such a row off `owed`.
- `scan_newest` reports a broken contract when a filing and a withdrawal between two
  pages push a row onto the next one, though its comment (`listing.py:205-207`) keeps that for a
  source out of order; and it deduplicates malformed rows silently (281-285), so that a repeated one can hide
  a good row of its minute (`ScanNewest.Shadowed`).

Beside other processes:

- `rm --delete-documents` marks rows of the window `purged`, which "has to keep meaning aged past the
  retention frontier and nothing else" (`repo.py:46-50`). A death between its removal of the files and
  the marking (or an error) leaves available rows without files.
- What `rm` stands down "is never fetched" (`USAGE.md:292`, `cli.py:216-217`): a run that had
  read its queue fetches it. `rm` may remove an emptied directory the run is about to rename into, which
  costs that download an attempt.
- `reconcile`, which takes no lock, can put a row back to discovered that the run has just made available; a
  later run fetches again what it has, though "never downloads it again" (`cli.py:146`).
- A row that `purge` marks while a run fetches it can end `failed` with `purged_at` set.
- A save refused because a person edited funds.yaml "will be reapplied on the next run"
  (`yaml_store.py:280`): what was resolved is, what a document confirmed is not, since that
  document is not fetched again. The next document of the entity confirms it.
- `yaml_store.py` checks before it writes (132/134, 294/302): what a person saves in
  between is overwritten. `FundsFile.NoEditIsLost` excepts exactly these edits (`raced`).
- A signal between the fork and the assignment in `scheduler.py:304` is forwarded to nobody
  (`Scheduler.forked`). A Ctrl-C in the foreground reaches the run twice and cuts it. An `OSError`
  of `Popen` ends the loop (433 catches `WatcherError` only).
- The loop remembers the last minute fired, not all of them (`scheduler.py:425`): a clock set back
  past it by more fires an earlier minute again.
- A death between the two writes of a registry refresh (`registry.py:528`, 529), then a CVM that
  is down: the archive is served under a date on which it was not obtained.
- A registry download with damaged compressed data raises `zlib.error`, which `load` (518)
  does not catch; the run ends instead of falling back (`Registry.RefreshBreaks`).

## 6. What is not modelled, and why

- *Data.* A filing's key and destination are constants, though rediscovery may change
  its category (`repo.py:155`) and an edit of the ticker its file name. Contents are whole or torn, wanted
  or not. In `FundsFile` scopes are never removed.
- *Power loss.* A death loses memory and the open transaction, not committed ones
  (`synchronous=NORMAL` may, `db.py:75`). The rebuild of a manifest of another schema version (`db.py:55`).
- *`forget_entities`*, which `rm` calls to drop a watermark that only describes the fund it removes.
- *Time within a run.* Retries and throttling only delay; the models let a run last over
  any number of midnights. In `Registry` only a download can last over a tick.
- *Indexes beside commands.* `rm` and `purge` remove files that indexes link to; `Inbox` has runs only. The next
  run rewrites the indexes of its window.
- *Several commands at once.* `Commands` has one beside a run; `FundsFile` and `Registry` have
  any number of writers.
- *Fund types* in discovery: one; the others run the same loop after it.
- *Pure algorithms* over strings and bytes: CNPJ digits, name folding, the parsing of cron text, content
  sniffing, and what HTTP retries. Unit tests reach them.
- *Audit, logging, naming, reading of the environment, container image.* They change nothing the others read.

## 7. Plan

Written, in this order: `Manifest`, `Supersede`, `Archive` with `Shelf` and its proofs; `Listing`,
`Scan`, `ScanNewest`; `Discovery`; `Lock`; `Scheduler`; `FundsFile`; `Registry`; then
`Commands`, `Inbox`, `Scopes` and `Cron`, the scheduler over `Lock`, and the proofs of
`Scopes`, `Discovery`, `Scheduler` and `FundsFile`; then the proofs of `Inbox`, `Commands`,
`ScanNewest` and of the backup.

Next, most important first:

1. The queue of `Archive` with several scopes and the confirmations of `Scopes` in one module.
2. An abstract specification for `Discovery` (a watermark and a cursor as promises) and its refinement.
3. `Archive` with a power loss that takes committed transactions, and the rebuild of a manifest.
4. Keys that change on rediscovery.
