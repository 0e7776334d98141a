-------------------------- MODULE SchedulerProofs ---------------------------
(***************************************************************************)
(* The scheduler uses the lock as Lock describes, and the lock excludes,   *)
(* for any number of runs and across any crashes, and its payload names    *)
(* who is at work from when he has written it: both rest on the lock's     *)
(* file never losing its place, L!IInv.  The loop has one run at a time, fires a      *)
(* minute once and passes one stop on politely, for any schedules, runs by *)
(* hand, signals and length of the clock.                                  *)
(***************************************************************************)
EXTENDS Scheduler, TLAPS

(* Every process that runs is the one the loop waits for or is about to.   *)
OneChild ==
  \A r \in Children : stage[r] # "none" =>
    (pc = "forked" /\ r = forked) \/ (pc = "wait" /\ r = child)

(* Only a process that runs is anywhere in the lock.                       *)
LockersRun == \A r \in Runs : step[r] # "idle" => stage[r] # "none"

(* Time, less what it was set back, has passed the last minute that fired. *)
TimePasses ==
  /\ now >= lastFired - backs
  /\ pc = "sleep" => wake >= lastFired + 1 - backs
  /\ pc = "look" => now >= lastFired + 1 - backs

(* What has fired is not after the last that fired.                        *)
FiredOnce == \A m \in Minutes : fired[m] =< 1 /\ (fired[m] >= 1 => m =< lastFired)

(* A single request to stop is the scheduler's, or a run's that has not    *)
(* been asked before, or has been answered.                                *)
OneRequest ==
  stops =< 1 /\ breaks = 0 =>
    /\ ~cut
    /\ "scheduler" \in pending => stops = 1 /\ pending = {"scheduler"}
    /\ stops = 0 \/ "scheduler" \in pending => \A r \in Runs : stage[r] # "stopping"
    /\ stops = 0 => pending = {}
    /\ \A r \in Runs \cap pending : stage[r] # "stopping"

SchedulerInv == TypeOK /\ L!IInv /\ OneChild /\ LockersRun /\ OneRequest

-----------------------------------------------------------------------------
LEMMA NoneIsNoRun == None \notin Runs /\ None \notin Inodes
BY SchedulerAssumption DEF Runs

LEMMA LockInitially == Init => L!IInv
BY NoneIsNoRun DEF Init, L!Init, L!IInv, L!TypeOK, L!OneInode, L!Steps, L!Holding

(* One step of one run keeps the lock's invariant: it changes at most the  *)
(* flock and the payload of the one inode, and the others' steps not.      *)
LEMMA LockKept == L!IInv /\ [L!Next]_(L!vars) => L!IInv'
<1> SUFFICES ASSUME L!IInv, [L!Next]_(L!vars) PROVE L!IInv'
  OBVIOUS
<1> USE NoneIsNoRun DEF L!IInv, L!TypeOK, L!OneInode, L!Steps, L!Holding, L!Goto
<1>1. CASE UNCHANGED L!vars
  BY <1>1 DEF L!vars
<1>2. CASE L!Next
  <2> PICK p \in Runs :
        \/ L!Open(p) \/ L!Flock(p) \/ L!Refused(p) \/ L!Truncate(p) \/ L!Write(p)
        \/ L!Clear(p) \/ L!Unlock(p) \/ L!Close(p) \/ L!Die(p)
    BY <1>2 DEF L!Next
  <2>1. CASE L!Open(p)
    BY <2>1 DEF L!Open
  <2>2. CASE L!Flock(p)
    BY <2>2 DEF L!Flock
  <2>3. CASE L!Refused(p)
    BY <2>3 DEF L!Refused
  <2>4. CASE L!Truncate(p)
    BY <2>4 DEF L!Truncate
  <2>5. CASE L!Write(p)
    BY <2>5 DEF L!Write
  <2>6. CASE L!Clear(p)
    BY <2>6 DEF L!Clear
  <2>7. CASE L!Unlock(p)
    BY <2>7 DEF L!Unlock
  <2>8. CASE L!Close(p)
    BY <2>8 DEF L!Close
  <2>9. CASE L!Die(p)
    BY <2>9 DEF L!Die
  <2> QED
    BY <2>1, <2>2, <2>3, <2>4, <2>5, <2>6, <2>7, <2>8, <2>9
<1> QED BY <1>1, <1>2

(* Whoever uses the lock, in whatever order, keeps its file in its place.  *)
THEOREM LockInvariant == L!Spec => []L!IInv
<1>1. L!Init => L!IInv
  BY NoneIsNoRun DEF L!Init, L!IInv, L!TypeOK, L!OneInode, L!Steps, L!Holding
<1> QED BY <1>1, LockKept, PTL DEF L!Spec

(* Two users of the lock are never between flock and release at once.      *)
THEOREM RunsExclude == L!Spec => []L!Exclusive
<1>1. L!IInv => L!Exclusive
  BY NoneIsNoRun DEF L!IInv, L!OneInode, L!Exclusive
<1> QED BY <1>1, LockInvariant, PTL

(* From the moment the holder has truncated the file until it releases it, *)
(* whoever was refused reads its name there or none, and its name while it *)
(* is at work.                                                             *)
THEOREM PayloadIsTrue == L!Spec => []L!PayloadNamesHolder
<1>1. L!IInv => L!PayloadNamesHolder
  BY NoneIsNoRun DEF L!IInv, L!OneInode, L!PayloadNamesHolder, L!Holding
<1> QED BY <1>1, LockInvariant, PTL

(* What one run does to the lock, and the others' none.                    *)
LEMMA LockSteps == [Next]_vars => [L!Next]_(L!vars)
<1> SUFFICES ASSUME [Next]_vars PROVE L!Next \/ UNCHANGED lock
  BY DEF lock, L!vars
<1>1. CASE UNCHANGED vars BY <1>1 DEF vars, runs
<1>2. ASSUME NEW r \in Runs, Unlocks(r) PROVE L!Next \/ UNCHANGED lock
  BY <1>2 DEF Unlocks, L!Next
<1>3. ASSUME NEW r \in Runs, RunStep(r) PROVE L!Next \/ UNCHANGED lock
  BY <1>3 DEF RunStep, Acquire, Refused, Install, Uninstall, Release, Exit, L!Next
<1>4. ASSUME NEW r \in Runs, ByHand(r) \/ Perish(r) \/ Handling(r)
      PROVE  L!Next \/ UNCHANGED lock
  BY <1>2, <1>4 DEF ByHand, Perish, Handling, Killed, AskedToStop, Insisted
<1>5. CASE Tick \/ SetBack \/ LoopStep \/ Terminate \/ Interrupt \/ HandleScheduler
  BY <1>5 DEF Tick, SetBack, LoopStep, Start, Head, Wake, Look, Fork, ForkFails, Keep, Reap,
     Terminate, Interrupt, Signal, HandleScheduler, runs
<1> QED BY <1>1, <1>3, <1>4, <1>5 DEF Next

LEMMA LockGoesOn == L!IInv /\ [Next]_vars => L!IInv'
BY LockSteps, LockKept
-----------------------------------------------------------------------------
LEMMA Constants ==
  /\ None \notin Children /\ None \notin Runs /\ "scheduler" \notin Runs
  /\ Children \subseteq Runs /\ Manual \subseteq Runs
  /\ \A r \in Manual : r \notin Children
  /\ RunOnStart \in {"sweep", "monitor", "none"}
  /\ LastMinute \in Nat /\ MaxBacks \in Nat /\ MaxSignals \in Nat
BY SchedulerAssumption DEF Runs

LEMMA SchedulerInitially == Init => SchedulerInv
<1> SUFFICES ASSUME Init PROVE SchedulerInv
  OBVIOUS
<1>1. L!IInv BY LockInitially
<1>2. L!TypeOK BY <1>1 DEF L!IInv
<1>3. TypeOK
  <2>1. /\ now \in Minutes /\ backs \in 0..MaxBacks /\ wake \in 0..LastMinute + 1
        /\ lastFired \in Minutes \cup {-1} /\ fired \in [Minutes -> Nat]
    BY Constants DEF Init, Minutes
  <2>2. /\ stops \in Nat /\ breaks \in Nat /\ stops + breaks =< MaxSignals
    BY Constants DEF Init
  <2>3. /\ stopping \in BOOLEAN /\ cut \in BOOLEAN
        /\ child \in Children \cup {None} /\ forked \in Children \cup {None}
        /\ pc \in {"start", "head", "sleep", "look", "spawn", "forked", "wait", "exit"}
        /\ profile \in {"sweep", "monitor"}
        /\ stage \in [Runs -> {"none", "boot", "work", "stopping", "leaving"}]
        /\ pending \subseteq {"scheduler"} \cup Runs
    BY DEF Init
  <2> QED BY <1>2, <2>1, <2>2, <2>3 DEF TypeOK
<1>4. OneChild /\ OneRequest BY Constants DEF Init, OneChild, OneRequest
<1>5. LockersRun BY DEF Init, LockersRun, L!Init
<1> QED BY <1>1, <1>3, <1>4, <1>5 DEF SchedulerInv

(* The clock and the loop, without the runs.                               *)
LEMMA LoopKeeps ==
  ASSUME SchedulerInv, Tick \/ SetBack \/ Start \/ Head \/ Wake \/ Look \/ ForkFails
  PROVE  SchedulerInv'
<1>1. /\ UNCHANGED <<child, forked, stopping, stage, path, fd, holder, payload, step,
                     pending, stops, breaks, cut>>
      /\ pc \in {"forked", "wait"} \/ pc' \in {"forked", "wait"} => pc' = pc
  BY DEF Tick, SetBack, Start, Head, Wake, Look, ForkFails, Goto, loop, runs, lock, signals,
     SchedulerInv, TypeOK
<1>2. L!IInv' BY <1>1 DEF SchedulerInv, L!IInv, L!TypeOK, L!OneInode
<1>3. OneChild' /\ LockersRun' /\ OneRequest'
  BY <1>1 DEF SchedulerInv, OneChild, LockersRun, OneRequest
<1>4. /\ now' \in Minutes /\ backs' \in 0..MaxBacks
      /\ wake' \in 0..LastMinute + 1 /\ lastFired' \in Minutes \cup {-1}
      /\ fired' \in [Minutes -> Nat]
  <2> USE Constants DEF SchedulerInv, TypeOK, Minutes
  <2>1. CASE Tick BY <2>1 DEF Tick, loop
  <2>2. CASE SetBack BY <2>2 DEF SetBack
  <2>3. CASE Head BY <2>3 DEF Head, clock
  <2>4. CASE Look
    <3>1. CASE UNCHANGED <<lastFired, fired>> BY <2>4, <3>1 DEF Look, clock
    <3>2. CASE lastFired' = now /\ fired' = [fired EXCEPT ![now] = @ + 1]
      BY <2>4, <3>2 DEF Look, clock
    <3> QED BY <2>4, <3>1, <3>2 DEF Look
  <2>5. CASE Start \/ Wake \/ ForkFails BY <2>5 DEF Start, Wake, ForkFails, clock
  <2> QED BY <2>1, <2>2, <2>3, <2>4, <2>5
<1>5. /\ pc' \in {"start", "head", "sleep", "look", "spawn", "forked", "wait", "exit"}
      /\ profile' \in {"sweep", "monitor"}
  BY Constants DEF Tick, SetBack, Start, Head, Wake, Look, ForkFails, Goto, loop, Due,
     SchedulerInv, TypeOK
<1>6. TypeOK' BY <1>1, <1>2, <1>4, <1>5 DEF SchedulerInv, TypeOK, L!IInv
<1> QED BY <1>2, <1>3, <1>6 DEF SchedulerInv

(* A child is forked, remembered and reaped.                               *)
LEMMA ChildKeeps ==
  ASSUME SchedulerInv, Fork \/ Keep \/ Reap
  PROVE  SchedulerInv'
<1>1. UNCHANGED <<now, backs, profile, wake, lastFired, fired, stopping, path, fd, holder,
                  payload, step, pending, stops, breaks, cut>>
  BY DEF Fork, Keep, Reap, clock, runs, lock, signals
<1>2. L!IInv' BY <1>1 DEF SchedulerInv, L!IInv, L!TypeOK, L!OneInode
<1>3. CASE Fork
  <2>1. PICK r \in Children :
          /\ stage[r] = "none" /\ stage' = [stage EXCEPT ![r] = "boot"] /\ forked' = r
          /\ pc = "spawn" /\ pc' = "forked" /\ child' = child
    BY <1>3 DEF Fork, Goto
  <2>2. \A q \in Runs : stage'[q] = IF q = r THEN "boot" ELSE stage[q]
    BY <2>1 DEF SchedulerInv, TypeOK
  <2>3. stage' \in [Runs -> {"none", "boot", "work", "stopping", "leaving"}]
    BY <2>1 DEF SchedulerInv, TypeOK
  <2>4. TypeOK' BY <1>1, <1>2, <2>1, <2>3 DEF SchedulerInv, TypeOK, L!IInv
  <2>5. OneChild' BY <2>1, <2>2, Constants DEF SchedulerInv, OneChild
  <2>6. LockersRun' BY <1>1, <2>2 DEF SchedulerInv, LockersRun
  <2>7. OneRequest' BY <1>1, <2>2 DEF SchedulerInv, OneRequest
  <2> QED BY <1>2, <2>4, <2>5, <2>6, <2>7 DEF SchedulerInv
<1>4. CASE Keep \/ Reap
  <2>1. stage' = stage /\ forked' \in {forked, None} /\ child' \in {forked, None}
        /\ pc' \in {"wait", "head"}
    BY <1>4 DEF Keep, Reap, runs, Goto
  <2>2. TypeOK' BY <1>1, <1>2, <2>1 DEF SchedulerInv, TypeOK, L!IInv
  <2>3. OneChild' BY <1>4, <2>1 DEF SchedulerInv, OneChild, Keep, Reap, Goto
  <2>4. LockersRun' /\ OneRequest'
    BY <1>1, <2>1 DEF SchedulerInv, LockersRun, OneRequest
  <2> QED BY <1>2, <2>2, <2>3, <2>4 DEF SchedulerInv
<1> QED BY <1>3, <1>4

(* A run starts by hand, goes on, ends, or is asked to.                    *)
LEMMA RunKeeps ==
  ASSUME SchedulerInv, NEW r \in Runs, ByHand(r) \/ RunStep(r) \/ Perish(r) \/ Handling(r)
  PROVE  SchedulerInv'
<1>1. UNCHANGED <<now, backs, pc, profile, wake, lastFired, fired, child, forked, stopping,
                  stops, breaks>>
  BY DEF ByHand, RunStep, Perish, Handling, Acquire, Refused, Install, Uninstall, Release,
     Exit, Killed, AskedToStop, Insisted, clock, loop, signals
<1>2. L!IInv' BY LockGoesOn DEF SchedulerInv, Next
<1>3. PICK s \in {"none", "boot", "work", "stopping", "leaving"} :
        /\ stage' = [stage EXCEPT ![r] = s]
        /\ s # "none" => r \in Manual \/ stage[r] # "none"
        /\ s = "stopping" => AskedToStop(r) \/ stage[r] = "stopping"
  BY DEF ByHand, RunStep, Perish, Handling, Acquire, Refused, Install, Uninstall, Release,
     Exit, Killed, AskedToStop, Insisted, Becomes, Ends, SchedulerInv, TypeOK
<1>4. \A q \in Runs : stage'[q] = IF q = r THEN s ELSE stage[q]
  BY <1>3 DEF SchedulerInv, TypeOK
<1>5. stage' \in [Runs -> {"none", "boot", "work", "stopping", "leaving"}]
  BY <1>3 DEF SchedulerInv, TypeOK
<1>6. /\ pending' \in {pending, pending \ {r}}
      /\ AskedToStop(r) => pending' = pending \ {r}
      /\ cut' \in BOOLEAN
      /\ cut' = cut \/ (r \in pending /\ stage[r] = "stopping")
  BY DEF ByHand, RunStep, Perish, Handling, Acquire, Refused, Install, Uninstall, Release,
     Exit, Killed, AskedToStop, Insisted, Ends, SchedulerInv, TypeOK
<1>7. \A q \in Runs \ {r} : step'[q] = step[q]
  BY DEF ByHand, RunStep, Perish, Handling, Acquire, Refused, Install, Uninstall, Release,
     Exit, Killed, AskedToStop, Insisted, Unlocks, lock, L!Open, L!Flock, L!Truncate,
     L!Write, L!Refused, L!Clear, L!Unlock, L!Close, L!Die, L!Goto, SchedulerInv, TypeOK,
     L!TypeOK
<1>8. step'[r] # "idle" => stage'[r] # "none"
  <2>1. CASE ByHand(r) \/ Acquire(r) \/ Install(r) \/ Uninstall(r) \/ Release(r) \/
             AskedToStop(r)
    BY <2>1 DEF ByHand, Acquire, Install, Uninstall, Release, AskedToStop, Becomes,
       SchedulerInv, TypeOK
  <2>2. ASSUME Unlocks(r) PROVE step'[r] = "idle"
    BY <2>2 DEF Unlocks, lock, L!Die, L!Goto, SchedulerInv, TypeOK, L!TypeOK
  <2>3. CASE Refused(r) \/ Exit(r)
    BY <2>3 DEF Refused, Exit, L!Refused, L!Close, L!Goto, SchedulerInv, TypeOK, L!TypeOK
  <2>4. CASE Perish(r) \/ Killed(r) \/ Insisted(r)
    BY <2>2, <2>4 DEF Perish, Killed, Insisted
  <2> QED BY <2>1, <2>3, <2>4 DEF RunStep, Handling
<1>9. TypeOK' BY <1>1, <1>2, <1>5, <1>6 DEF SchedulerInv, TypeOK, L!IInv
<1>10. OneChild' BY <1>1, <1>3, <1>4, Constants DEF SchedulerInv, OneChild
<1>11. LockersRun' BY <1>3, <1>4, <1>7, <1>8 DEF SchedulerInv, LockersRun
<1>12. OneRequest'
  <2> SUFFICES ASSUME stops =< 1, breaks = 0
               PROVE  /\ ~cut'
                      /\ "scheduler" \in pending' => stops = 1 /\ pending' = {"scheduler"}
                      /\ stops = 0 \/ "scheduler" \in pending' =>
                           \A q \in Runs : stage'[q] # "stopping"
                      /\ stops = 0 => pending' = {}
                      /\ \A q \in Runs \cap pending' : stage'[q] # "stopping"
    BY <1>1 DEF OneRequest
  <2>1. /\ ~cut
        /\ "scheduler" \in pending => stops = 1 /\ pending = {"scheduler"}
        /\ stops = 0 \/ "scheduler" \in pending => \A q \in Runs : stage[q] # "stopping"
        /\ stops = 0 => pending = {}
        /\ \A q \in Runs \cap pending : stage[q] # "stopping"
    BY DEF SchedulerInv, OneRequest
  <2>2. AskedToStop(r) => r \in pending BY DEF AskedToStop
  <2>3. ~cut' BY <1>6, <2>1
  <2>4. /\ "scheduler" \in pending' => stops = 1 /\ pending' = {"scheduler"}
        /\ stops = 0 => pending' = {}
    BY <1>6, <2>1, Constants
  <2>5. stops = 0 \/ "scheduler" \in pending' => \A q \in Runs : stage'[q] # "stopping"
    BY <1>3, <1>4, <1>6, <2>1, <2>2, Constants
  <2>6. \A q \in Runs \cap pending' : stage'[q] # "stopping"
    BY <1>3, <1>4, <1>6, <2>1, <2>2
  <2> QED BY <2>3, <2>4, <2>5, <2>6
<1> QED BY <1>2, <1>9, <1>10, <1>11, <1>12 DEF SchedulerInv

(* The operator asks, and the scheduler passes it on.                      *)
LEMMA SignalKeeps ==
  ASSUME SchedulerInv, Terminate \/ Interrupt \/ HandleScheduler
  PROVE  SchedulerInv'
<1>1. UNCHANGED <<now, backs, pc, profile, wake, lastFired, fired, child, forked, stage, path,
                  fd, holder, payload, step, cut>>
  BY DEF Terminate, Interrupt, Signal, HandleScheduler, clock, loop, runs, lock
<1>2. L!IInv' BY <1>1 DEF SchedulerInv, L!IInv, L!TypeOK, L!OneInode
<1>3. OneChild' /\ LockersRun' BY <1>1 DEF SchedulerInv, OneChild, LockersRun
<1>4. Live \subseteq Runs BY Constants DEF Live
<1>5. CASE Terminate \/ Interrupt
  <2>1. PICK whom \in SUBSET ({"scheduler"} \cup Runs) :
          pending' = pending \cup whom /\ (Terminate => whom = {"scheduler"})
    BY <1>4, <1>5 DEF Terminate, Interrupt, Signal
  <2>2. /\ stops' \in Nat /\ breaks' \in Nat /\ stops' + breaks' =< MaxSignals
        /\ stopping' = stopping
    BY <1>5, Constants DEF Terminate, Interrupt, Signal, SchedulerInv, TypeOK
  <2>3. pending' \subseteq {"scheduler"} \cup Runs BY <2>1 DEF SchedulerInv, TypeOK
  <2>4. TypeOK' BY <1>1, <1>2, <2>2, <2>3 DEF SchedulerInv, TypeOK, L!IInv
  <2>5. OneRequest'
    <3> SUFFICES ASSUME stops' =< 1, breaks' = 0 PROVE OneRequest'
      BY DEF OneRequest
    <3>1. Terminate /\ stops = 0 /\ breaks = 0 /\ stops' = 1
      BY <1>5 DEF Terminate, Interrupt, SchedulerInv, TypeOK
    <3>2. ~cut /\ pending = {} /\ \A r \in Runs : stage[r] # "stopping"
      BY <3>1 DEF SchedulerInv, OneRequest
    <3>3. pending' = {"scheduler"} BY <2>1, <3>1, <3>2
    <3> QED BY <1>1, <3>1, <3>2, <3>3 DEF OneRequest
  <2> QED BY <1>2, <1>3, <2>4, <2>5 DEF SchedulerInv
<1>6. CASE HandleScheduler
  <2>1. /\ "scheduler" \in pending /\ stopping' = TRUE /\ UNCHANGED <<stops, breaks>>
        /\ pending' = (pending \ {"scheduler"}) \cup {r \in Live : r = child}
    BY <1>6 DEF HandleScheduler, signals
  <2>2. TypeOK' BY <1>1, <1>2, <1>4, <2>1 DEF SchedulerInv, TypeOK, L!IInv
  <2>3. OneRequest'
    <3> SUFFICES ASSUME stops =< 1, breaks = 0 PROVE OneRequest'
      BY <2>1 DEF OneRequest
    <3>1. /\ ~cut /\ stops = 1 /\ pending = {"scheduler"}
          /\ \A r \in Runs : stage[r] # "stopping"
      BY <2>1 DEF SchedulerInv, OneRequest
    <3>2. "scheduler" \notin pending' BY <1>4, <2>1, Constants
    <3> QED BY <1>1, <2>1, <3>1, <3>2 DEF OneRequest
  <2> QED BY <1>2, <1>3, <2>2, <2>3 DEF SchedulerInv
<1> QED BY <1>5, <1>6

LEMMA SchedulerGoesOn == SchedulerInv /\ [Next]_vars => SchedulerInv'
<1> SUFFICES ASSUME SchedulerInv, [Next]_vars PROVE SchedulerInv'
  OBVIOUS
<1>1. CASE UNCHANGED vars
  BY <1>1 DEF vars, clock, loop, runs, lock, signals, SchedulerInv, TypeOK, L!IInv, L!TypeOK,
     L!OneInode, OneChild, LockersRun, OneRequest
<1>2. CASE Next
  BY <1>2, LoopKeeps, ChildKeeps, RunKeeps, SignalKeeps DEF Next, LoopStep
<1> QED BY <1>1, <1>2
-----------------------------------------------------------------------------
(* The invariant of the container: the lock is sound, at most one run is   *)
(* the scheduler's own and it is waited for, only a process that runs is   *)
(* in the lock, and one request to stop is passed on once.                 *)
THEOREM ContainerIsSound == Spec => []SchedulerInv
BY SchedulerInitially, SchedulerGoesOn, PTL DEF Spec

(* Type correctness.                                                       *)
THEOREM SchedulerTyped == Spec => []TypeOK
BY ContainerIsSound, PTL DEF SchedulerInv

(* Every behaviour of the container is one of the lock between its runs:   *)
(* the refinement, for any number of runs.                                 *)
THEOREM UsesTheLock == Spec => KeepsToTheLock
<1>1. Init => L!Init BY DEF Init
<1> QED BY <1>1, LockSteps, PTL DEF Spec, KeepsToTheLock, L!Spec

(* No two runs of a container, scheduled or by hand, hold the lock at the  *)
(* same time.                                                              *)
THEOREM ContainerRunsExclude == Spec => []Exclusive
<1>1. SchedulerInv => Exclusive
  BY Constants DEF SchedulerInv, Exclusive, L!IInv, L!OneInode, L!Exclusive
<1> QED BY <1>1, ContainerIsSound, PTL

(* In a container, too, the lock file names the run at work once that has  *)
(* written it, and nobody else from the truncation to the release.         *)
THEOREM ContainerPayloadIsTrue == Spec => []PayloadNamesHolder
<1>1. SchedulerInv => PayloadNamesHolder
  BY NoneIsNoRun DEF SchedulerInv, PayloadNamesHolder, L!IInv, L!OneInode,
     L!PayloadNamesHolder, L!Holding
<1> QED BY <1>1, ContainerIsSound, PTL

(* "the two profiles never contend for the lock", for any schedules: what  *)
(* holds the lock runs, and of the scheduler's runs no other does.         *)
THEOREM ProfilesNeverContend == Spec => []NeverContends
<1>1. SchedulerInv => NeverContends
  <2> SUFFICES ASSUME SchedulerInv, NEW r \in Children, NEW s \in Children,
                      step[r] = "opened", r # s, holder[fd[r]] = s
               PROVE  FALSE
    BY DEF NeverContends
  <2>1. r \in Runs /\ s \in Runs /\ s # None BY Constants
  <2>2. step[s] \in L!Holding
    BY <2>1 DEF SchedulerInv, L!IInv, L!OneInode
  <2>3. stage[r] # "none" /\ stage[s] # "none"
    BY <2>1, <2>2 DEF SchedulerInv, LockersRun, L!Holding
  <2> QED BY <2>3 DEF SchedulerInv, OneChild
<1> QED BY <1>1, ContainerIsSound, PTL

(* One docker stop lets the run at work reach its next step boundary.      *)
THEOREM OneStopWaits == Spec => []OneStopIsPolite
<1>1. SchedulerInv => OneStopIsPolite
  BY DEF SchedulerInv, OneRequest, OneStopIsPolite
<1> QED BY <1>1, ContainerIsSound, PTL

(* Time, less what it was set back, never falls behind the last firing, so *)
(* a clock that is set back by a minute at most fires what is later only.  *)
LEMMA TimeKeeps ==
  ASSUME TypeOK, TimePasses, FiredOnce, MaxBacks =< 1, [Next]_vars
  PROVE  TimePasses' /\ FiredOnce'
<1>1. /\ now \in Nat /\ backs \in 0..1 /\ wake \in Nat /\ lastFired \in Minutes \cup {-1}
      /\ Minutes \subseteq Nat /\ fired \in [Minutes -> Nat] /\ now \in Minutes
  BY Constants DEF TypeOK, Minutes
<1>2. CASE /\ UNCHANGED <<now, backs, lastFired, fired, wake>>
           /\ pc' = pc \/ pc' \notin {"sleep", "look"}
  BY <1>2 DEF TimePasses, FiredOnce
<1>3. CASE Tick
  BY <1>1, <1>3 DEF Tick, loop, TimePasses, FiredOnce
<1>4. CASE SetBack
  BY <1>1, <1>4 DEF SetBack, TimePasses, FiredOnce
<1>5. CASE Head
  BY <1>1, <1>5 DEF Head, Goto, clock, TimePasses, FiredOnce
<1>6. CASE Wake
  BY <1>1, <1>6 DEF Wake, Goto, clock, TimePasses, FiredOnce
<1>7. CASE Look
  <2>1. CASE now = lastFired \/ Due = "none"
    BY <1>7, <2>1, <1>2 DEF Look, Goto, clock
  <2>2. CASE ~(now = lastFired \/ Due = "none")
    <3>1. /\ pc = "look" /\ pc' = "spawn" /\ lastFired' = now /\ UNCHANGED <<now, backs, wake>>
          /\ fired' = [fired EXCEPT ![now] = @ + 1]
      BY <1>7, <2>2 DEF Look, Goto, clock
    <3>2. now > lastFired BY <1>1, <2>2, <3>1 DEF TimePasses
    <3>3. fired[now] = 0 BY <1>1, <3>2 DEF FiredOnce
    <3>4. FiredOnce' BY <1>1, <3>1, <3>2, <3>3 DEF FiredOnce
    <3>5. TimePasses' BY <1>1, <3>1 DEF TimePasses
    <3> QED BY <3>4, <3>5
  <2> QED BY <2>1, <2>2
<1>8. CASE Start \/ Fork \/ ForkFails \/ Keep \/ Reap
  BY <1>2, <1>8 DEF Start, Fork, ForkFails, Keep, Reap, Goto, clock
<1>9. CASE Terminate \/ Interrupt \/ HandleScheduler \/ UNCHANGED vars
  BY <1>2, <1>9 DEF Terminate, Interrupt, Signal, HandleScheduler, vars, clock, loop
<1>10. ASSUME NEW r \in Runs, ByHand(r) \/ RunStep(r) \/ Perish(r) \/ Handling(r)
       PROVE  TimePasses' /\ FiredOnce'
  BY <1>2, <1>10 DEF ByHand, RunStep, Perish, Handling, Acquire, Refused, Install, Uninstall,
     Release, Exit, Killed, AskedToStop, Insisted, clock, loop
<1> QED BY <1>3, <1>4, <1>5, <1>6, <1>7, <1>8, <1>9, <1>10 DEF Next, LoopStep

(* A minute fires once while the clock is not set back, or once and by a   *)
(* minute only, for any schedules.                                         *)
THEOREM FiresOnce == ASSUME MaxBacks =< 1 PROVE Spec => []OncePerMinute
<1>1. Init => TimePasses /\ FiredOnce
  BY DEF Init, TimePasses, FiredOnce
<1>2. TypeOK /\ TimePasses /\ FiredOnce /\ [Next]_vars => (TimePasses /\ FiredOnce)'
  BY TimeKeeps
<1>3. FiredOnce => OncePerMinute
  BY DEF FiredOnce, OncePerMinute
<1> QED BY <1>1, <1>2, <1>3, SchedulerTyped, PTL DEF Spec
=============================================================================
