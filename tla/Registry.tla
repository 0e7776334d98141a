------------------------------ MODULE Registry ------------------------------
(***************************************************************************)
(* The CVM registry on disk (cvm/registry.py): an archive, and beside it a *)
(* note of when it was obtained and what its digest is, published in two   *)
(* writes by whatever refreshes it.  The run reads it under its lock; the  *)
(* commands add, resolve and doctor read and refresh it under none.        *)
(* Editions of the registry that differ have different digests.            *)
(***************************************************************************)
EXTENDS Integers

CONSTANTS
  Procs,
  Forced,     \* the processes that refresh whatever the cache holds
  Refused,    \* content parse_archive raises a ValueError or BadZipFile for
  Broken,     \* content it raises anything else for: zlib.error, EOFError
  None,
  Interval,   \* refresh_interval_hours, in ticks of the clock
  MaxEdition, \* bound: the editions the CVM publishes
  MaxNow      \* bound: the last tick

Editions == 1..MaxEdition
Time == 1..MaxNow
Stamps == [stamp : Time, digest : Editions]

ASSUME RegistryAssumption ==
  /\ Forced \subseteq Procs
  /\ Interval \in Nat \ {0} /\ MaxEdition \in Nat \ {0} /\ MaxNow \in Nat \ {0}
  /\ {Refused, Broken, None} \cap Nat = {} /\ None \notin Stamps
  /\ Refused # Broken /\ Refused # None /\ Broken # None

VARIABLES
  now, published,  \* the clock, and the edition the CVM serves
  archive,         \* what stands at archive_path
  state,           \* what state_path says, None when it says nothing
  step,            \* step[p]: how far p is in load
  seen,            \* seen[p]: the state _is_fresh read
  fresh,           \* fresh[p]: whether it found the cache fresh
  held, at,        \* the edition p has parsed, the date it puts on it
  obtained,        \* history: the editions got from the CVM, each with its tick
  good             \* history: a good archive was stored, and nobody damaged it

world == <<now, published>>
disk  == <<archive, state>>
mind  == <<seen, fresh, held, at>>
past  == <<obtained, good>>
vars  == <<world, disk, step, mind, past>>

TypeOK ==
  /\ now \in Time /\ published \in Editions
  /\ archive \in Editions \cup {Refused, Broken, None}
  /\ state \in Stamps \cup {None}
  /\ step \in [Procs -> {"idle", "weigh", "cached", "stamp", "refresh",
                         "parsed", "archived", "served", "raised"}]
  /\ seen \in [Procs -> Stamps \cup {None}]
  /\ fresh \in [Procs -> BOOLEAN]
  /\ held \in [Procs -> Editions \cup {None}] /\ at \in [Procs -> Time]
  /\ obtained \subseteq Editions \X Time /\ good \in BOOLEAN

Init ==
  /\ now = 1 /\ published = 1
  /\ archive = None /\ state = None
  /\ step = [p \in Procs |-> "idle"] /\ seen = [p \in Procs |-> None]
  /\ fresh = [p \in Procs |-> FALSE]
  /\ held = [p \in Procs |-> None] /\ at = [p \in Procs |-> 1]
  /\ obtained = {} /\ good = FALSE

Goto(p, s) == step' = [step EXCEPT ![p] = s]
-----------------------------------------------------------------------------
(* A tick is hours: only a download lasts into the next one.               *)
Tick ==
  /\ now < MaxNow /\ now' = now + 1
  /\ \A p \in Procs : step[p] \in {"idle", "refresh"}
  /\ UNCHANGED <<published, disk, step, mind, past>>

Publish ==
  /\ published < MaxEdition /\ published' = published + 1
  /\ UNCHANGED <<now, disk, step, mind, past>>

(* A file that no longer holds what was written to it.                     *)
Damage ==
  /\ archive \in Editions /\ archive' \in {Refused, Broken} /\ good' = FALSE
  /\ UNCHANGED <<world, state, step, mind, obtained>>

(* A load that is over, and what it had in memory.                         *)
Forget(p) ==
  /\ Goto(p, "idle") /\ seen' = [seen EXCEPT ![p] = None]
  /\ fresh' = [fresh EXCEPT ![p] = FALSE]
  /\ held' = [held EXCEPT ![p] = None] /\ at' = [at EXCEPT ![p] = 1]

(* Killed, or ended by an exception nothing handles.                       *)
Crash(p) == step[p] # "idle" /\ Forget(p) /\ UNCHANGED <<world, disk, past>>
-----------------------------------------------------------------------------
(* load: _is_fresh reads the state first ...                               *)
Look(p) ==
  /\ step[p] = "idle"
  /\ Goto(p, IF p \in Forced THEN "refresh" ELSE "weigh")
  /\ seen' = [seen EXCEPT ![p] = state]
  /\ fresh' = [fresh EXCEPT ![p] = FALSE]
  /\ UNCHANGED <<world, disk, held, at, past>>

(* Mutant: an archive exactly one interval old is fresh.                   *)
WeighInclusive(p) ==
  /\ step[p] = "weigh"
  /\ fresh' = [fresh EXCEPT ![p] = /\ seen[p] # None
                                   /\ archive = seen[p].digest
                                   /\ now - seen[p].stamp =< Interval]
  /\ Goto(p, IF fresh'[p] THEN "cached" ELSE "refresh")
  /\ UNCHANGED <<world, disk, seen, held, at, past>>

(* ... then the archive, whose digest the state must name.                 *)
Weigh(p) ==
  /\ step[p] = "weigh"
  /\ fresh' = [fresh EXCEPT ![p] = /\ seen[p] # None
                                   /\ archive = seen[p].digest
                                   /\ now - seen[p].stamp < Interval]
  /\ Goto(p, IF fresh'[p] THEN "cached" ELSE "refresh")
  /\ UNCHANGED <<world, disk, seen, held, at, past>>

(* _load_cached reads the archive again.  Without a usable one a load that *)
(* thought it fresh downloads, and one that already tried returns None.    *)
LoadCached(p) ==
  /\ step[p] = "cached" /\ archive # Broken
  /\ IF archive \in Editions
     THEN Goto(p, "stamp") /\ held' = [held EXCEPT ![p] = archive]
     ELSE Goto(p, IF fresh[p] THEN "refresh" ELSE "idle") /\ UNCHANGED held
  /\ fresh' = [fresh EXCEPT ![p] = @ /\ archive \in Editions]
  /\ UNCHANGED <<world, disk, seen, at, past>>

LoadBroken(p) ==
  /\ step[p] = "cached" /\ archive = Broken
  /\ Goto(p, "raised")
  /\ UNCHANGED <<world, disk, mind, past>>

(* The date on it is the state's, else the moment it was parsed.           *)
ReadStamp(p) ==
  /\ step[p] = "stamp" /\ Goto(p, "served")
  /\ at' = [at EXCEPT ![p] = IF state = None THEN now ELSE state.stamp]
  /\ UNCHANGED <<world, disk, seen, fresh, held, past>>

(* The CVM is down, or what it serves is refused.                          *)
RefreshFails(p) ==
  /\ step[p] = "refresh" /\ Goto(p, "cached")
  /\ UNCHANGED <<world, disk, mind, past>>

(* What it serves breaks the parser in a way load does not catch.          *)
RefreshBreaks(p) ==
  /\ step[p] = "refresh" /\ Goto(p, "raised")
  /\ UNCHANGED <<world, disk, mind, past>>

Download(p) ==
  /\ step[p] = "refresh" /\ Goto(p, "parsed")
  /\ held' = [held EXCEPT ![p] = published] /\ at' = [at EXCEPT ![p] = now]
  /\ obtained' = obtained \cup {<<published, now>>}
  /\ UNCHANGED <<world, disk, seen, fresh, good>>

(* Mutant: the download is stored before it is parsed.                     *)
StoreUnparsed(p) ==
  /\ step[p] \in {"refresh", "parsed"} /\ Goto(p, "archived")
  /\ archive' = (IF step[p] = "parsed" THEN held[p] ELSE Refused)
  /\ good' = (good \/ step[p] = "parsed")
  /\ UNCHANGED <<world, state, mind, obtained>>

StoreArchive(p) ==
  /\ step[p] = "parsed" /\ Goto(p, "archived")
  /\ archive' = held[p] /\ good' = TRUE
  /\ UNCHANGED <<world, state, mind, obtained>>

StoreState(p) ==
  /\ step[p] = "archived" /\ Goto(p, "served")
  /\ state' = [stamp |-> at[p], digest |-> held[p]]
  /\ UNCHANGED <<world, archive, mind, past>>

Return(p) == step[p] = "served" /\ Forget(p) /\ UNCHANGED <<world, disk, past>>
-----------------------------------------------------------------------------
LoadStep(p) ==
  \/ Look(p) \/ Weigh(p) \/ LoadCached(p) \/ LoadBroken(p) \/ ReadStamp(p)
  \/ RefreshFails(p) \/ RefreshBreaks(p) \/ Download(p)
  \/ StoreArchive(p) \/ StoreState(p) \/ Return(p)

Next == Tick \/ Publish \/ Damage \/ \E p \in Procs : LoadStep(p) \/ Crash(p)

Spec == Init /\ [][Next]_vars
-----------------------------------------------------------------------------
(* What the CVM served less than an interval ago.                          *)
Recent(e) == \E t \in Time : <<e, t>> \in obtained /\ now - t < Interval

(* Whatever crashed or wrote in between, a snapshot served as fresh is one *)
(* the CVM served less than refresh_interval_hours ago.  (the two writes   *)
(* of load, the two reads of _is_fresh and the two of _load_cached)        *)
FreshIsRecent ==
  \A p \in Procs : step[p] = "served" /\ fresh[p] => Recent(held[p])

(* "An invalid download never displaces a valid snapshot": once there is a *)
(* good archive, there is one, however refreshes fail and overlap.         *)
LastGoodStays == good => archive \in Editions

(* The inductive invariant.  Every edition and every date in use goes back *)
(* to a download; what is being stored was obtained in this tick; and what *)
(* a load took for fresh stays recent until it is served.                  *)
Sourced ==
  /\ archive \in Editions => \E t \in Time : <<archive, t>> \in obtained
  /\ state # None => <<state.digest, state.stamp>> \in obtained
  /\ \A p \in Procs : seen[p] # None => <<seen[p].digest, seen[p].stamp>> \in obtained

Storing ==
  \A p \in Procs :
    /\ step[p] \in {"parsed", "archived"} =>
         held[p] \in Editions /\ at[p] = now /\ <<held[p], now>> \in obtained
    /\ step[p] \in {"refresh", "parsed", "archived"} => ~fresh[p]

FreshStays ==
  \A p \in Procs :
    fresh[p] =>
      /\ step[p] = "cached" /\ archive \in Editions => Recent(archive)
      /\ step[p] \in {"stamp", "served"} => Recent(held[p])

IInv == TypeOK /\ LastGoodStays /\ Sourced /\ Storing /\ FreshStays
=============================================================================
