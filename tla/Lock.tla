-------------------------------- MODULE Lock --------------------------------
(***************************************************************************)
(* The run lock (lock.py) between processes of one machine: a file that    *)
(* keeps its place, an flock on an open descriptor, and a payload that     *)
(* names the holder for the benefit of whoever is refused.  flock is the   *)
(* kernel's: on an inode, not a name, and gone with the process.           *)
(***************************************************************************)
EXTENDS Naturals

CONSTANTS
  Procs,
  Inodes,  \* bound: the files that may ever stand at the lock's path
  None

VARIABLES
  path,     \* the inode that has the lock's name, or None
  fd,       \* fd[p]: the inode p has open, or None
  holder,   \* holder[i]: the process that has the flock on i, or None
  payload,  \* payload[i]: the process i's text names, or None for anything else
  step      \* step[p]: how far p is in acquire, the with block and release

vars == <<path, fd, holder, payload, step>>

Steps == {"idle", "opened", "locked", "blank", "held", "cleared", "unlocked"}

(* Between flock and its release.                                          *)
Holding == {"locked", "blank", "held", "cleared"}

TypeOK ==
  /\ path \in Inodes \cup {None}
  /\ fd \in [Procs -> Inodes \cup {None}]
  /\ holder \in [Inodes -> Procs \cup {None}]
  /\ payload \in [Inodes -> Procs \cup {None}]
  /\ step \in [Procs -> Steps]

Init ==
  /\ path = None
  /\ fd = [p \in Procs |-> None]
  /\ holder = [i \in Inodes |-> None]
  /\ payload = [i \in Inodes |-> None]
  /\ step = [p \in Procs |-> "idle"]

Goto(p, s) == step' = [step EXCEPT ![p] = s]
-----------------------------------------------------------------------------
(* open with O_CREAT and without O_EXCL.                                   *)
Open(p) ==
  /\ step[p] = "idle" /\ Goto(p, "opened")
  /\ IF path # None
     THEN path' = path
     ELSE \E i \in Inodes : path' = i /\ \A q \in Procs : fd[q] # i
  /\ fd' = [fd EXCEPT ![p] = path']
  /\ UNCHANGED <<holder, payload>>

Flock(p) ==
  /\ step[p] = "opened" /\ holder[fd[p]] = None
  /\ holder' = [holder EXCEPT ![fd[p]] = p]
  /\ Goto(p, "locked")
  /\ UNCHANGED <<path, fd, payload>>

(* LockHeldError.  Who it names is read from the path afterwards (see      *)
(* PayloadNamesHolder), and never decides anything.                        *)
Refused(p) ==
  /\ step[p] = "opened" /\ holder[fd[p]] # None
  /\ fd' = [fd EXCEPT ![p] = None]
  /\ Goto(p, "idle")
  /\ UNCHANGED <<path, holder, payload>>

Truncate(p) ==
  /\ step[p] = "locked" /\ Goto(p, "blank")
  /\ payload' = [payload EXCEPT ![fd[p]] = None]
  /\ UNCHANGED <<path, fd, holder>>

Write(p) ==
  /\ step[p] = "blank" /\ Goto(p, "held")
  /\ payload' = [payload EXCEPT ![fd[p]] = p]
  /\ UNCHANGED <<path, fd, holder>>
-----------------------------------------------------------------------------
(* release clears the payload first, and goes on if that fails.            *)
Clear(p) ==
  /\ step[p] = "held" /\ Goto(p, "cleared")
  /\ payload' \in {payload, [payload EXCEPT ![fd[p]] = None]}
  /\ UNCHANGED <<path, fd, holder>>

(* Mutants: the payload cleared after the lock is dropped; the file        *)
(* unlinked with it.                                                       *)
CloseClearing(p) ==
  /\ step[p] = "unlocked" /\ Goto(p, "idle")
  /\ payload' = [payload EXCEPT ![fd[p]] = None]
  /\ fd' = [fd EXCEPT ![p] = None]
  /\ UNCHANGED <<path, holder>>

UnlockUnlinking(p) ==
  /\ step[p] = "cleared" /\ Goto(p, "unlocked")
  /\ holder' = [holder EXCEPT ![fd[p]] = None]
  /\ path' = None
  /\ UNCHANGED <<fd, payload>>

Unlock(p) ==
  /\ step[p] = "cleared" /\ Goto(p, "unlocked")
  /\ holder' = [holder EXCEPT ![fd[p]] = None]
  /\ UNCHANGED <<path, fd, payload>>

Close(p) ==
  /\ step[p] = "unlocked" /\ Goto(p, "idle")
  /\ fd' = [fd EXCEPT ![p] = None]
  /\ UNCHANGED <<path, holder, payload>>

(* The process dies, or acquire fails on a full disk and the process ends: *)
(* the kernel closes its descriptors.                                      *)
Die(p) ==
  /\ step[p] # "idle" /\ Goto(p, "idle")
  /\ fd' = [fd EXCEPT ![p] = None]
  /\ holder' = [i \in Inodes |-> IF holder[i] = p THEN None ELSE holder[i]]
  /\ UNCHANGED <<path, payload>>
-----------------------------------------------------------------------------
Next ==
  \E p \in Procs :
    \/ Open(p) \/ Flock(p) \/ Refused(p) \/ Truncate(p) \/ Write(p)
    \/ Clear(p) \/ Unlock(p) \/ Close(p) \/ Die(p)

Spec == Init /\ [][Next]_vars
-----------------------------------------------------------------------------
(* "two instances sharing one SQLite manifest and one archive would        *)
(* interleave downloads and purges": they never do, across crashes and     *)
(* refusals.                                                               *)
Exclusive ==
  \A p, q \in Procs : step[p] \in Holding /\ step[q] \in Holding => p = q

(* Once the holder of the flock has truncated the file with the lock's     *)
(* name, the file names that holder or nobody, and it names the holder     *)
(* while it is at work.  Between flock and the truncation it may still     *)
(* name one that died, or could not clear it ("absent or stale").          *)
PayloadNamesHolder ==
  \A p \in Procs :
    /\ step[p] \in Holding \ {"locked"} =>
         path = fd[p] /\ payload[path] \in {p, None}
    /\ step[p] = "held" => payload[path] = p

(* The inductive invariant: there is one inode, every descriptor is on it, *)
(* its flock belongs to the process between flock and release, and nobody  *)
(* else writes its text.                                                   *)
OneInode ==
  /\ \A p \in Procs : step[p] # "idle" => path \in Inodes /\ fd[p] = path
  /\ \A p \in Procs : step[p] \in Holding => holder[path] = p
  /\ path \in Inodes /\ holder[path] # None => step[holder[path]] \in Holding
  /\ \A i \in Inodes : i # path => holder[i] = None
  /\ \A p \in Procs : step[p] \in {"blank", "cleared"} => payload[path] \in {p, None}
  /\ \A p \in Procs : step[p] = "held" => payload[path] = p

IInv == TypeOK /\ OneInode
=============================================================================
