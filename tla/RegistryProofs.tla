--------------------------- MODULE RegistryProofs ---------------------------
(***************************************************************************)
(* The registry's cache, for any number of processes that refresh it, of   *)
(* editions and of ticks: a good archive is never displaced, and what is   *)
(* served as fresh was obtained less than one interval ago.                *)
(***************************************************************************)
EXTENDS Registry, TLAPS

LEMMA Constant ==
  /\ 1 \in Time /\ 1 \in Editions
  /\ Refused \notin Editions /\ Broken \notin Editions /\ None \notin Editions
BY RegistryAssumption DEF Time, Editions

LEMMA Initially == Init => IInv
<1> SUFFICES ASSUME Init PROVE IInv
  OBVIOUS
<1> USE DEF Init
<1>1. TypeOK
  BY Constant DEF TypeOK
<1>2. LastGoodStays
  BY DEF LastGoodStays
<1>3. Sourced
  BY Constant DEF Sourced
<1>4. Storing
  BY DEF Storing
<1>5. FreshStays
  BY DEF FreshStays
<1> QED
  BY <1>1, <1>2, <1>3, <1>4, <1>5 DEF IInv

(* What is recent stays recent while the tick lasts, as more is obtained.  *)
LEMMA RecentStays ==
  ASSUME NEW e, Recent(e), now' = now, obtained \subseteq obtained'
  PROVE  Recent(e)'
BY DEF Recent

LEMMA Obtained ==
  ASSUME TypeOK, NEW e, <<e, now>> \in obtained
  PROVE  Recent(e)
BY RegistryAssumption DEF TypeOK, Recent, Time

(* A process that forgets leaves the others, and the files, as they are.   *)
LEMMA Forgets ==
  ASSUME IInv, NEW p \in Procs, Forget(p), UNCHANGED <<world, disk, past>>
  PROVE  IInv'
<1> USE DEF IInv, Forget, Goto, world, disk, past
<1>1. TypeOK'
  BY Constant DEF TypeOK
<1>2. LastGoodStays' /\ Sourced'
  BY DEF TypeOK, LastGoodStays, Sourced
<1>3. Storing'
  BY DEF TypeOK, Storing
<1>4. FreshStays'
  BY DEF TypeOK, FreshStays, Recent
<1> QED
  BY <1>1, <1>2, <1>3, <1>4

(* The steps of one load.  Each changes the mind of one process, or one    *)
(* file, and keeps the clock.                                              *)
LEMMA LoadKeeps ==
  ASSUME IInv, NEW p \in Procs, LoadStep(p) \/ Crash(p)
  PROVE  IInv'
<1> USE RegistryAssumption
    DEF IInv, TypeOK, LastGoodStays, Sourced, Storing, FreshStays, Goto,
        world, disk, mind, past
<1>1. CASE Look(p)
  BY <1>1 DEF Look, Recent
<1>2. CASE Weigh(p)
  <2>1. TypeOK' /\ LastGoodStays' /\ Storing'
    BY <1>2 DEF Weigh
  <2>2. Sourced'
    BY <1>2 DEF Weigh
  <2>3. FreshStays'
    <3>1. fresh'[p] => Recent(archive)
      <4> SUFFICES ASSUME fresh'[p] PROVE Recent(archive)
        OBVIOUS
      <4>1. seen[p] # None /\ archive = seen[p].digest /\ now - seen[p].stamp < Interval
        BY <1>2 DEF Weigh
      <4>2. seen[p].stamp \in Time
        BY <4>1 DEF Stamps
      <4> QED
        BY <4>1, <4>2 DEF Recent
    <3>2. /\ UNCHANGED <<now, obtained, archive, held>>
          /\ \A q \in Procs \ {p} : fresh'[q] = fresh[q] /\ step'[q] = step[q]
          /\ step'[p] \in {"cached", "refresh"}
      BY <1>2 DEF Weigh
    <3> QED
      BY <3>1, <3>2 DEF Recent
  <2> QED
    BY <2>1, <2>2, <2>3
<1>3. CASE LoadCached(p)
  <2>1. TypeOK' /\ LastGoodStays' /\ Sourced' /\ Storing'
    BY <1>3 DEF LoadCached
  <2>2. FreshStays'
    <3>1. /\ UNCHANGED <<now, obtained, archive>>
          /\ \A q \in Procs \ {p} :
               fresh'[q] = fresh[q] /\ step'[q] = step[q] /\ held'[q] = held[q]
          /\ fresh'[p] => fresh[p] /\ step[p] = "cached" /\ archive \in Editions
          /\ fresh'[p] => held'[p] = archive
      BY <1>3 DEF LoadCached
    <3> QED
      BY <3>1 DEF Recent
  <2> QED
    BY <2>1, <2>2
<1>4. CASE LoadBroken(p)
  BY <1>4 DEF LoadBroken, Recent
<1>5. CASE ReadStamp(p)
  BY <1>5 DEF ReadStamp, Recent, Stamps
<1>6. CASE RefreshFails(p)
  BY <1>6 DEF RefreshFails, Recent
<1>7. CASE RefreshBreaks(p)
  BY <1>7 DEF RefreshBreaks, Recent
<1>8. CASE Download(p)
  <2> USE <1>8 DEF Download
  <2>1. TypeOK' /\ LastGoodStays'
    BY DEF Editions, Time
  <2>2. Sourced' /\ Storing'
    BY DEF Editions, Time
  <2>3. FreshStays'
    BY RecentStays
  <2> QED
    BY <2>1, <2>2, <2>3
<1>9. CASE StoreArchive(p)
  <2>1. Recent(held[p])'
    BY <1>9, Obtained, RecentStays DEF StoreArchive
  <2> QED
    BY <1>9, <2>1 DEF StoreArchive, Recent
<1>10. CASE StoreState(p)
  BY <1>10 DEF StoreState, Recent, Stamps
<1>11. CASE Return(p)
  BY <1>11, Forgets DEF Return
<1>12. CASE Crash(p)
  BY <1>12, Forgets DEF Crash
<1> QED
  BY <1>1, <1>2, <1>3, <1>4, <1>5, <1>6, <1>7, <1>8, <1>9, <1>10, <1>11, <1>12
  DEF LoadStep

LEMMA Kept == IInv /\ [Next]_vars => IInv'
<1> SUFFICES ASSUME IInv, [Next]_vars PROVE IInv'
  OBVIOUS
<1>1. CASE Tick
  <2> USE <1>1 DEF Tick, disk, mind, past, IInv
  <2>1. TypeOK'
    BY RegistryAssumption DEF TypeOK, Time
  <2>2. LastGoodStays' /\ Sourced'
    BY DEF LastGoodStays, Sourced
  <2>3. Storing' /\ FreshStays'
    BY DEF Storing, FreshStays
  <2> QED
    BY <2>1, <2>2, <2>3
<1>2. CASE Publish
  <2> USE <1>2 DEF Publish, disk, mind, past, IInv
  <2>1. TypeOK'
    BY RegistryAssumption DEF TypeOK, Editions
  <2>2. LastGoodStays' /\ Sourced'
    BY DEF LastGoodStays, Sourced
  <2>3. Storing' /\ FreshStays'
    BY DEF Storing, FreshStays, Recent
  <2> QED
    BY <2>1, <2>2, <2>3
<1>3. CASE Damage
  <2> USE <1>3, Constant DEF Damage, world, mind, IInv
  <2>1. TypeOK'
    BY DEF TypeOK
  <2>2. LastGoodStays' /\ Sourced'
    BY DEF LastGoodStays, Sourced
  <2>3. Storing' /\ FreshStays'
    BY DEF Storing, FreshStays, Recent
  <2> QED
    BY <2>1, <2>2, <2>3
<1>4. ASSUME NEW p \in Procs, LoadStep(p) \/ Crash(p) PROVE IInv'
  BY <1>4, LoadKeeps
<1>5. CASE UNCHANGED vars
  BY <1>5 DEF vars, world, disk, mind, past, IInv, TypeOK, LastGoodStays,
              Sourced, Storing, FreshStays, Recent
<1> QED
  BY <1>1, <1>2, <1>3, <1>4, <1>5 DEF Next

(* Type correctness, and the invariant itself.                             *)
THEOREM CacheInvariant == Spec => []IInv
<1>1. Init => IInv
  BY Initially
<1>2. IInv /\ [Next]_vars => IInv'
  BY Kept
<1> QED
  BY <1>1, <1>2, PTL DEF Spec

(* No refresh, however it fails or overlaps another, costs the cache its   *)
(* last good archive.                                                      *)
THEOREM LastGoodIsKept == Spec => []LastGoodStays
<1>1. IInv => LastGoodStays
  BY DEF IInv
<1> QED
  BY <1>1, CacheInvariant, PTL

(* What a load serves as fresh was obtained less than an interval ago.     *)
THEOREM FreshMeansRecent == Spec => []FreshIsRecent
<1>1. IInv => FreshIsRecent
  BY DEF IInv, FreshStays, FreshIsRecent
<1> QED
  BY <1>1, CacheInvariant, PTL
=============================================================================
