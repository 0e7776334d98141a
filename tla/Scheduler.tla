----------------------------- MODULE Scheduler ------------------------------
(***************************************************************************)
(* The container's driver (docker/scheduler.py): a serial loop that wakes  *)
(* at every minute, spawns the run the minute calls for and waits for it;  *)
(* the operator's signals; the runs it spawns and those started by hand,   *)
(* from the interpreter's start over the statements of the lock (module    *)
(* Lock, of which these runs are the processes) to the end.                *)
(***************************************************************************)
EXTENDS Cron

CONSTANTS
  Children, Manual,   \* runs: ids the scheduler may spawn, and those run by hand
  Inodes,             \* bound: the files that may ever stand at the lock's path
  None,
  SweepCron,          \* SWEEP_SCHEDULE
  MonitorCron,        \* MONITOR_SCHEDULE, or Never when the monitor is disabled
  Moment,             \* Moment[m]: the calendar fields of minute m
  RunOnStart,         \* "sweep", "monitor" or "none"
  LastMinute,         \* bound: the last minute
  MaxBacks,           \* bound: how often the wall clock is set back, a minute each time
  MaxSignals          \* bound: how often the operator asks it to stop

Minutes == 0..LastMinute

(* What the parser and startup_refusal let through: no monitor without a   *)
(* sweep, and no container without either.                                 *)
ASSUME SchedulerAssumption ==
  /\ None \notin Children \cup Manual \cup Inodes /\ Children \cap Manual = {}
  /\ "scheduler" \notin Children \cup Manual
  /\ SweepCron # Never
  /\ \A cron \in {SweepCron, MonitorCron} \ {Never} :
       \A f \in CronFields : cron[f] # {} /\ \A part \in cron[f] : WellFormed(f, part)
  /\ Moment \in [Minutes -> [CronFields -> Nat]]
  /\ RunOnStart \in {"sweep", "monitor", "none"}
  /\ LastMinute \in Nat /\ MaxBacks \in Nat /\ MaxSignals \in Nat

VARIABLES
  now,        \* the current minute of the source's zone
  backs,
  pc,         \* "start", "head", "sleep", "look", "spawn", "forked", "wait", "exit"
  profile,    \* the profile of the run being spawned or waited for
  wake,       \* the minute the sleep waits for
  lastFired,  \* -1 before the first firing
  fired,      \* history: how often the loop fired in each minute
  stopping,
  child,      \* Runner._child
  forked,     \* the process Popen started and has not returned yet
  stage,      \* stage[r]: "none", "boot", "work", "stopping" or "leaving"
  path, fd, holder, payload, step,  \* the lock
  pending,    \* who has a signal still to handle
  stops,      \* history: how often docker stop signalled the scheduler
  breaks,     \* history: how often somebody pressed Ctrl-C in its terminal
  cut         \* history: a working run was ended at once, not at a step's end

clock == <<now, backs>>
signals == <<stops, breaks>>
loop == <<pc, profile, wake, lastFired, fired, child, forked>>
lock == <<path, fd, holder, payload, step>>
runs == <<stage, lock>>
vars == <<clock, loop, stopping, runs, pending, signals, cut>>

Runs == Children \cup Manual

L == INSTANCE Lock WITH Procs <- Runs

TypeOK ==
  /\ now \in Minutes /\ backs \in 0..MaxBacks
  /\ pc \in {"start", "head", "sleep", "look", "spawn", "forked", "wait", "exit"}
  /\ profile \in {"sweep", "monitor"}
  /\ wake \in 0..LastMinute + 1 /\ lastFired \in Minutes \cup {-1}
  /\ fired \in [Minutes -> Nat]
  /\ stopping \in BOOLEAN /\ cut \in BOOLEAN
  /\ child \in Children \cup {None} /\ forked \in Children \cup {None}
  /\ stage \in [Runs -> {"none", "boot", "work", "stopping", "leaving"}]
  /\ L!TypeOK
  /\ pending \subseteq {"scheduler"} \cup Runs
  /\ stops \in Nat /\ breaks \in Nat /\ stops + breaks =< MaxSignals

Init ==
  /\ now = 0 /\ backs = 0 /\ pc = "start" /\ profile = "sweep" /\ wake = 0
  /\ lastFired = -1 /\ fired = [m \in Minutes |-> 0]
  /\ stopping = FALSE /\ child = None /\ forked = None
  /\ stage = [r \in Runs |-> "none"] /\ L!Init
  /\ pending = {} /\ stops = 0 /\ breaks = 0 /\ cut = FALSE
-----------------------------------------------------------------------------
(* The wall clock, which may be set back a little.                         *)
Tick ==
  /\ now < LastMinute /\ now' = now + 1
  /\ UNCHANGED <<backs, loop, stopping, runs, pending, signals, cut>>

(* The sleep reads the clock every second, and waits anew.                 *)
SetBack ==
  /\ backs < MaxBacks /\ now > 0
  /\ backs' = backs + 1 /\ now' = now - 1
  /\ wake' = IF pc = "sleep" THEN now ELSE wake
  /\ UNCHANGED <<pc, profile, lastFired, fired, child, forked, stopping, runs, pending,
                 signals, cut>>
-----------------------------------------------------------------------------
Goto(label) == pc' = label

Start ==
  /\ pc = "start"
  /\ IF RunOnStart = "none"
     THEN Goto("head") /\ UNCHANGED profile
     ELSE Goto("spawn") /\ profile' = RunOnStart
  /\ UNCHANGED <<clock, wake, lastFired, fired, child, forked, stopping, runs, pending,
                 signals, cut>>

Head ==
  /\ pc = "head"
  /\ IF stopping THEN Goto("exit") /\ UNCHANGED wake
                 ELSE Goto("sleep") /\ wake' = now + 1
  /\ UNCHANGED <<clock, profile, lastFired, fired, child, forked, stopping, runs, pending,
                 signals, cut>>

Wake ==
  /\ pc = "sleep" /\ (stopping \/ now >= wake)
  /\ Goto(IF stopping THEN "exit" ELSE "look")
  /\ UNCHANGED <<clock, profile, wake, lastFired, fired, child, forked, stopping, runs,
                 pending, signals, cut>>

(* due: the sweep wins the minute both match.                              *)
Calls(cron) == Matches(cron, Moment[now])

Due == IF Calls(SweepCron) THEN "sweep"
       ELSE IF Calls(MonitorCron) THEN "monitor" ELSE "none"

(* Mutant: nothing remembers the minute that fired.                        *)
LookForgetful ==
  /\ pc = "look"
  /\ IF Due = "none"
     THEN Goto("head") /\ UNCHANGED <<profile, lastFired, fired>>
     ELSE /\ Goto("spawn") /\ profile' = Due /\ lastFired' = now
          /\ fired' = [fired EXCEPT ![now] = @ + 1]
  /\ UNCHANGED <<clock, wake, child, forked, stopping, runs, pending, signals, cut>>

Look ==
  /\ pc = "look"
  /\ IF now = lastFired \/ Due = "none"
     THEN Goto("head") /\ UNCHANGED <<profile, lastFired, fired>>
     ELSE /\ Goto("spawn") /\ profile' = Due /\ lastFired' = now
          /\ fired' = [fired EXCEPT ![now] = @ + 1]
  /\ UNCHANGED <<clock, wake, child, forked, stopping, runs, pending, signals, cut>>

(* Popen: the process exists before its handle is kept.                    *)
Fork ==
  /\ pc = "spawn" /\ Goto("forked")
  /\ \E r \in Children :
       /\ stage[r] = "none"
       /\ stage' = [stage EXCEPT ![r] = "boot"]
       /\ forked' = r
  /\ UNCHANGED <<clock, profile, wake, lastFired, fired, child, stopping, lock, pending,
                 signals, cut>>

(* An OSError of Popen is no WatcherError: it ends the loop.               *)
ForkFails ==
  /\ pc = "spawn" /\ Goto("exit")
  /\ UNCHANGED <<clock, profile, wake, lastFired, fired, child, forked, stopping, runs,
                 pending, signals, cut>>

Keep ==
  /\ pc = "forked" /\ Goto("wait")
  /\ child' = forked /\ forked' = None
  /\ UNCHANGED <<clock, profile, wake, lastFired, fired, stopping, runs, pending, signals,
                 cut>>

(* Mutants: the loop does not wait; a run that fails is tried again.       *)
ReapAtOnce ==
  /\ pc = "wait" /\ Goto("head")
  /\ child' = None
  /\ UNCHANGED <<clock, profile, wake, lastFired, fired, forked, stopping, runs, pending,
                 signals, cut>>

ReapRetrying ==
  /\ pc = "wait" /\ stage[child] = "none" /\ pc' \in {"head", "spawn"}
  /\ child' = None
  /\ UNCHANGED <<clock, profile, wake, lastFired, fired, forked, stopping, runs, pending,
                 signals, cut>>

(* However the run ended, the next tick is the retry.                      *)
Reap ==
  /\ pc = "wait" /\ stage[child] = "none" /\ Goto("head")
  /\ child' = None
  /\ UNCHANGED <<clock, profile, wake, lastFired, fired, forked, stopping, runs, pending,
                 signals, cut>>
-----------------------------------------------------------------------------
Becomes(r, s) == stage' = [stage EXCEPT ![r] = s]

(* The process is gone, and what was sent to it with it.                   *)
Ends(r) == Becomes(r, "none") /\ pending' = pending \ {r}

(* What the kernel does about the lock of a process that ends.             *)
Unlocks(r) == IF step[r] = "idle" THEN UNCHANGED lock ELSE L!Die(r)

ByHand(r) ==
  /\ r \in Manual /\ stage[r] = "none" /\ Becomes(r, "boot")
  /\ UNCHANGED <<clock, loop, stopping, lock, pending, signals, cut>>

(* ProcessLock.acquire.  A refused run ends with exit code 3.              *)
Acquire(r) ==
  /\ stage[r] = "boot"
  /\ L!Open(r) \/ L!Flock(r) \/ L!Truncate(r) \/ L!Write(r)
  /\ UNCHANGED <<clock, loop, stopping, stage, pending, signals, cut>>

Refused(r) ==
  /\ stage[r] = "boot" /\ L!Refused(r) /\ Ends(r)
  /\ UNCHANGED <<clock, loop, stopping, signals, cut>>

(* ShutdownSignal takes over from the default disposition ...              *)
Install(r) ==
  /\ stage[r] = "boot" /\ step[r] = "held" /\ Becomes(r, "work")
  /\ UNCHANGED <<clock, loop, stopping, lock, pending, signals, cut>>

(* ... and gives it back when the work is done, the next step boundary is  *)
(* reached or an exception passes, before the lock is released.            *)
Uninstall(r) ==
  /\ stage[r] \in {"work", "stopping"} /\ Becomes(r, "leaving")
  /\ UNCHANGED <<clock, loop, stopping, lock, pending, signals, cut>>

(* Mutant: the lock is dropped while its text still names the run.         *)
ReleaseUncleared(r) ==
  /\ stage[r] = "leaving" /\ step[r] = "held"
  /\ step' = [step EXCEPT ![r] = "unlocked"]
  /\ holder' = [holder EXCEPT ![fd[r]] = None]
  /\ UNCHANGED <<clock, loop, stopping, stage, path, fd, payload, pending, signals, cut>>

Release(r) ==
  /\ stage[r] = "leaving"
  /\ L!Clear(r) \/ L!Unlock(r)
  /\ UNCHANGED <<clock, loop, stopping, stage, pending, signals, cut>>

Exit(r) ==
  /\ stage[r] = "leaving" /\ L!Close(r) /\ Ends(r)
  /\ UNCHANGED <<clock, loop, stopping, signals, cut>>

(* It crashes, or has nothing to do before it asks for the lock.           *)
Perish(r) ==
  /\ stage[r] # "none" /\ Ends(r) /\ Unlocks(r)
  /\ UNCHANGED <<clock, loop, stopping, signals, cut>>
-----------------------------------------------------------------------------
Live == {r \in Children : stage[r] # "none"}

(* docker stop signals the scheduler alone; a Ctrl-C in its terminal       *)
(* everybody.                                                              *)
Signal(whom) ==
  /\ pc # "exit" /\ stops + breaks < MaxSignals
  /\ pending' = pending \cup whom
  /\ UNCHANGED <<clock, loop, stopping, runs, cut>>

Terminate == Signal({"scheduler"}) /\ stops' = stops + 1 /\ UNCHANGED breaks

Interrupt == Signal({"scheduler"} \cup Live) /\ breaks' = breaks + 1 /\ UNCHANGED stops

(* Runner._handle, in whatever line the loop is.                           *)
HandleScheduler ==
  /\ "scheduler" \in pending /\ pc # "exit" /\ stopping' = TRUE
  /\ pending' = (pending \ {"scheduler"}) \cup {r \in Live : r = child}
  /\ UNCHANGED <<clock, loop, runs, signals, cut>>

(* The default disposition ends a run that has not installed its handler,  *)
(* or has given it back.                                                   *)
Killed(r) ==
  /\ r \in pending /\ stage[r] \in {"boot", "leaving"} /\ Ends(r) /\ Unlocks(r)
  /\ UNCHANGED <<clock, loop, stopping, signals, cut>>

(* Mutant: the first signal insists already.                               *)
AskedRudely(r) ==
  /\ r \in pending /\ stage[r] = "work" /\ Ends(r) /\ Unlocks(r) /\ cut' = TRUE
  /\ UNCHANGED <<clock, loop, stopping, signals>>

(* ShutdownSignal._handle: the first signal asks, the second insists.      *)
AskedToStop(r) ==
  /\ r \in pending /\ stage[r] = "work" /\ Becomes(r, "stopping")
  /\ pending' = pending \ {r}
  /\ UNCHANGED <<clock, loop, stopping, lock, signals, cut>>

Insisted(r) ==
  /\ r \in pending /\ stage[r] = "stopping" /\ Ends(r) /\ Unlocks(r) /\ cut' = TRUE
  /\ UNCHANGED <<clock, loop, stopping, signals>>
-----------------------------------------------------------------------------
LoopStep == Start \/ Head \/ Wake \/ Look \/ Fork \/ ForkFails \/ Keep \/ Reap

RunStep(r) ==
  Acquire(r) \/ Refused(r) \/ Install(r) \/ Uninstall(r) \/ Release(r) \/ Exit(r)

Handling(r) == Killed(r) \/ AskedToStop(r) \/ Insisted(r)

Next ==
  \/ Tick \/ SetBack \/ LoopStep \/ Terminate \/ Interrupt \/ HandleScheduler
  \/ \E r \in Runs : ByHand(r) \/ RunStep(r) \/ Perish(r) \/ Handling(r)

Spec == Init /\ [][Next]_vars

(* The loop goes on, and a run comes to its end: every wait in it has a    *)
(* timeout.                                                                *)
FairSpec == Spec /\ WF_vars(LoopStep) /\ \A r \in Runs : WF_vars(RunStep(r))
-----------------------------------------------------------------------------
(* "so the two profiles never contend for the lock": what a run of the     *)
(* scheduler may find in its way is a run started by hand, never another   *)
(* of its own that has not let go of the lock yet.                         *)
NeverContends ==
  \A r, s \in Children :
    step[r] = "opened" /\ r # s => holder[fd[r]] # s

(* The properties of the lock, between all the runs of a container.        *)
Exclusive == L!Exclusive
PayloadNamesHolder == L!PayloadNamesHolder

(* The container uses the lock as its module describes: what is proved of  *)
(* Lock for any processes holds of these runs.                             *)
KeepsToTheLock == L!Spec

(* A minute fires once, even if a run ends in it or the clock is set back  *)
(* into it, by a minute in all.  (Set back beyond the minute that fired    *)
(* last, the clock reaches one that fired before it, which nothing         *)
(* remembers.)                                                             *)
OncePerMinute == \A m \in Minutes : fired[m] =< 1

(* Once asked to stop the scheduler is gone sooner or later, wherever the  *)
(* signal found it.                                                        *)
StopEnds == stopping ~> pc = "exit"

(* "The pipeline stops at its next step boundary, releases the lock and    *)
(* closes the database.  Let it; do not kill it" (Runner._handle): one     *)
(* docker stop never cuts a working run short, whatever line the scheduler *)
(* is in.  (A Ctrl-C is another matter: the run gets it from the terminal  *)
(* and once more from the scheduler.)                                      *)
OneStopIsPolite == stops =< 1 /\ breaks = 0 => ~cut
=============================================================================
