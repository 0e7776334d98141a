-------------------------- MODULE DiscoveryProofs ---------------------------
(***************************************************************************)
(* Watermark and cursor, for any filings, names, windows and days.         *)
(***************************************************************************)
EXTENDS Discovery, TLAPS

(* A row that is owed is of a followed entity, under a name it has on file *)
(* and in memory, and of a day the run's window has reached.               *)
OwedIsMonitored ==
  \A d \in owed :
    /\ Entity[d] \in watch /\ Day[d] =< today
    /\ Spelling[d] \in {LegalName[Entity[d]], desc[Entity[d]]}
    /\ pc # "off" => /\ Day[d] =< win
                     /\ Spelling[d] \in {LegalName[Entity[d]], live[Entity[d]]}

(* While gated queries are going on and none has failed, what is owed is   *)
(* known or its entity is still to be queried.                             *)
QueueDealsWithIt ==
  pc = "query" /\ profile = "monitor" /\ ok =>
    \A d \in owed \cap Listed :
      Day[d] > today - MonitorDays => d \in known \/ Entity[d] \in queue

DiscoveryInv ==
  /\ TypeOK /\ OwedIsMonitored /\ QueueDealsWithIt /\ CursorIsAPromise
  /\ pc = "gate" => live = desc

LEMMA Constants ==
  /\ \A d \in Docs : /\ Entity[d] \in Entities /\ At[d] \in Nat \ {0}
                     /\ Day[d] \in Nat \ {0} /\ Spelling[d] \in Names
  /\ FirstSpelling \in [Entities -> Names]
  /\ RetentionDays \in Nat /\ SweepDays \in Nat /\ MonitorDays \in Nat
  /\ 1 =< MonitorDays /\ MaxDay \in Nat \ {0}
BY DiscoveryAssumption DEF Names

LEMMA DiscoveryInitially == Init => DiscoveryInv
BY Constants DEF Init, DiscoveryInv, TypeOK, OwedIsMonitored, QueueDealsWithIt,
   CursorIsAPromise, Profiles

(* The end of a run, whatever it has written: what it had in memory is     *)
(* forgotten, and what was owed still is.                                  *)
LEMMA LeaveKeeps ==
  ASSUME DiscoveryInv, pc # "off", Leave, desc' \in {desc, live},
         UNCHANGED <<calendar, watch, known, mark, cursor, owed>>
  PROVE  DiscoveryInv'
<1>1. TypeOK' BY Constants DEF DiscoveryInv, TypeOK, Leave, calendar, Profiles
<1>2. OwedIsMonitored' BY DEF DiscoveryInv, OwedIsMonitored, Leave, calendar
<1>3. QueueDealsWithIt' BY DEF QueueDealsWithIt, Leave
<1>4. CursorIsAPromise' BY DEF DiscoveryInv, CursorIsAPromise, Listed, calendar
<1> QED BY <1>1, <1>2, <1>3, <1>4 DEF DiscoveryInv, Leave

LEMMA StartKeeps ==
  ASSUME DiscoveryInv, NEW p \in Profiles, Start(p)
  PROVE  DiscoveryInv'
<1> USE DEF DiscoveryInv, Start, calendar, stored
<1>1. TypeOK' BY Constants DEF TypeOK
<1>2. OwedIsMonitored' BY DEF OwedIsMonitored
<1>3. QueueDealsWithIt' BY DEF QueueDealsWithIt, Profiles
<1>4. CursorIsAPromise' BY DEF CursorIsAPromise, Listed
<1> QED BY <1>1, <1>2, <1>3, <1>4

(* Everything a run may owe, it gates.                                     *)
LEMMA GateKeeps == DiscoveryInv /\ Gate => DiscoveryInv'
<1> SUFFICES ASSUME DiscoveryInv, Gate PROVE DiscoveryInv'
  OBVIOUS
<1> DEFINE rows == {d \in Listed \cap InWindow : At[d] >= cursor}
<1>1. /\ pc = "gate" /\ pc' = "query"
      /\ queue' = {e \in watch : \E d \in Candidates(rows) : Answers(e, d)}
      /\ newest' \in {0} \cup {At[d] : d \in Listed \cap InWindow}
      /\ owed' = owed \cup {d \in rows : Entity[d] \in watch /\ Answers(Entity[d], d)}
      /\ UNCHANGED <<published, today, watch, desc, known, mark, cursor, profile, win, live,
                     ok, warned>>
  BY DEF Gate, calendar, stored
<1>2. /\ rows \subseteq published /\ published \subseteq Docs
      /\ Listed \cap InWindow \subseteq published
  BY DEF Listed, DiscoveryInv, TypeOK
<1>3. TypeOK'
  <2>1. queue' \subseteq watch /\ owed' \subseteq published
    BY <1>1, <1>2 DEF DiscoveryInv, TypeOK
  <2>2. newest' \in {0} \cup {At[d] : d \in published} BY <1>1, <1>2
  <2> QED BY <1>1, <2>1, <2>2 DEF DiscoveryInv, TypeOK
<1>4. OwedIsMonitored'
  <2> SUFFICES ASSUME NEW d \in owed', d \notin owed
               PROVE  /\ Entity[d] \in watch /\ Day[d] =< today /\ Day[d] =< win
                      /\ Spelling[d] \in {LegalName[Entity[d]], desc[Entity[d]]}
                      /\ Spelling[d] \in {LegalName[Entity[d]], live[Entity[d]]}
    BY <1>1 DEF DiscoveryInv, OwedIsMonitored
  <2>1. d \in InWindow /\ Entity[d] \in watch /\ Answers(Entity[d], d) /\ d \in Docs
    BY <1>1, <1>2
  <2>2. Day[d] =< win
    BY <2>1, Constants DEF InWindow, First, DiscoveryInv, TypeOK, Days, Profiles
  <2>3. Day[d] =< today BY <2>1, <2>2, Constants DEF DiscoveryInv, TypeOK
  <2>4. live = desc BY <1>1 DEF DiscoveryInv
  <2> QED BY <2>1, <2>2, <2>3, <2>4 DEF Answers
<1>5. QueueDealsWithIt'
  <2> SUFFICES ASSUME profile = "monitor", NEW d \in owed', d \in Listed,
                      Day[d] > today - MonitorDays, d \notin known
               PROVE  Entity[d] \in queue'
    BY <1>1 DEF QueueDealsWithIt, Listed
  <2>1. d \in Docs /\ Day[d] \in Nat /\ At[d] \in Nat \ {0} /\ cursor \in Nat
        /\ today \in Nat /\ win \in Nat /\ win =< today /\ MonitorDays \in Nat
    BY <1>2, Constants DEF Listed, DiscoveryInv, TypeOK
  <2>2. Entity[d] \in watch /\ Answers(Entity[d], d) /\ Day[d] =< win
    BY <1>1, <1>4 DEF OwedIsMonitored, Answers
  <2>3. d \in InWindow BY <2>1, <2>2 DEF InWindow, First, Days
  <2>4. d \in rows
    <3>1. CASE d \in owed BY <2>1, <2>3, <3>1 DEF DiscoveryInv, CursorIsAPromise
    <3>2. CASE d \notin owed BY <1>1, <3>2
    <3> QED BY <3>1, <3>2
  <2>5. d \in Candidates(rows) BY <2>1, <2>4 DEF Candidates
  <2> QED BY <1>1, <2>2, <2>5
<1>6. CursorIsAPromise'
  <2> SUFFICES ASSUME NEW d \in rows, At[d] < cursor PROVE FALSE
    BY <1>1 DEF DiscoveryInv, CursorIsAPromise, Listed
  <2> QED BY <1>2, Constants DEF DiscoveryInv, TypeOK
<1> QED BY <1>1, <1>3, <1>4, <1>5, <1>6 DEF DiscoveryInv

(* What a query, complete or short, makes of the spellings.                *)
LEMMA RefreshKeeps ==
  ASSUME DiscoveryInv, NEW e \in Entities, NEW rows \in SUBSET published, Refresh(e, rows),
         pc = "query",
         UNCHANGED <<calendar, watch, desc, pc, win>>
  PROVE  /\ owed' \subseteq owed /\ live' \in [Entities -> Names]
         /\ OwedIsMonitored'
<1> USE DEF calendar
<1>1. CASE UNCHANGED <<live, owed>>
  BY <1>1 DEF DiscoveryInv, TypeOK, OwedIsMonitored
<1>2. ASSUME NEW d \in rows,
             live' = [live EXCEPT ![e] = Spelling[d]],
             owed' = {f \in owed : Entity[f] = e => Spelling[f] \in {LegalName[e], Spelling[d]}}
      PROVE  /\ owed' \subseteq owed /\ live' \in [Entities -> Names]
             /\ OwedIsMonitored'
  <2>1. live \in [Entities -> Names] /\ Spelling[d] \in Names
    BY Constants DEF DiscoveryInv, TypeOK
  <2>2. live' \in [Entities -> Names] BY <1>2, <2>1
  <2>3. \A f \in owed' : f \in owed /\ Entity[f] \in Entities
    BY <1>2, Constants DEF DiscoveryInv, TypeOK
  <2>4. \A f \in owed' : Spelling[f] \in {LegalName[Entity[f]], live'[Entity[f]]}
    BY <1>2, <2>1, <2>3 DEF DiscoveryInv, OwedIsMonitored
  <2>5. OwedIsMonitored' BY <2>3, <2>4 DEF DiscoveryInv, OwedIsMonitored
  <2> QED BY <2>2, <2>3, <2>5
<1> QED BY <1>1, <1>2 DEF Refresh

LEMMA ScannedKeeps ==
  ASSUME DiscoveryInv, NEW e \in Entities, Scanned(e)
  PROVE  DiscoveryInv'
<1> DEFINE rows == {d \in Listed \cap InWindow : Entity[d] = e}
<1>1. /\ pc = "query" /\ queue' = queue \ {e} /\ known' = known \cup rows
      /\ mark' = (IF CoversRetention THEN [mark EXCEPT ![e] = win] ELSE mark)
      /\ Refresh(e, rows)
      /\ UNCHANGED <<published, today, watch, desc, cursor, pc, profile, win, ok, newest, warned>>
  BY DEF Scanned, calendar
<1>2. rows \in SUBSET published /\ published \subseteq Docs
  BY DEF Listed, DiscoveryInv, TypeOK
<1>3. owed' \subseteq owed /\ live' \in [Entities -> Names] /\ OwedIsMonitored'
  BY <1>1, <1>2, RefreshKeeps DEF calendar
<1>4. TypeOK'
  <2>1. mark' \in [Entities -> 0..today] BY <1>1 DEF DiscoveryInv, TypeOK
  <2> QED BY <1>1, <1>2, <1>3, <2>1 DEF DiscoveryInv, TypeOK
<1>5. QueueDealsWithIt'
  <2> SUFFICES ASSUME profile = "monitor", ok, NEW d \in owed', d \in Listed,
                      Day[d] > today - MonitorDays, d \notin known'
               PROVE  Entity[d] \in queue'
    BY <1>1 DEF QueueDealsWithIt, Listed
  <2>1. Entity[d] \in queue /\ Day[d] =< win
    BY <1>1, <1>3 DEF DiscoveryInv, QueueDealsWithIt, OwedIsMonitored
  <2>2. d \in Docs /\ Day[d] \in Nat /\ today \in Nat /\ win \in Nat /\ win =< today
        /\ MonitorDays \in Nat
    BY <1>2, Constants DEF Listed, DiscoveryInv, TypeOK
  <2>3. d \in InWindow BY <2>1, <2>2 DEF InWindow, First, Days
  <2>4. Entity[d] # e BY <1>1, <2>3
  <2> QED BY <1>1, <2>1, <2>4
<1>6. CursorIsAPromise'
  BY <1>1, <1>3 DEF DiscoveryInv, CursorIsAPromise, Listed
<1> QED BY <1>1, <1>3, <1>4, <1>5, <1>6 DEF DiscoveryInv

LEMMA ScannedShortKeeps ==
  ASSUME DiscoveryInv, NEW e \in Entities, ScannedShort(e)
  PROVE  DiscoveryInv'
<1>1. PICK rows \in SUBSET {d \in Listed \cap InWindow : Entity[d] = e} :
        known' = known \cup rows /\ Refresh(e, rows)
  BY DEF ScannedShort
<1>2. /\ pc = "query" /\ queue' = queue \ {e} /\ ok' = FALSE
      /\ UNCHANGED <<published, today, watch, desc, mark, cursor, pc, profile, win, newest, warned>>
  BY DEF ScannedShort, calendar
<1>3. rows \in SUBSET published /\ published \subseteq Docs
  BY DEF Listed, DiscoveryInv, TypeOK
<1>4. owed' \subseteq owed /\ live' \in [Entities -> Names] /\ OwedIsMonitored'
  BY <1>1, <1>2, <1>3, RefreshKeeps DEF calendar
<1>5. TypeOK' BY <1>1, <1>2, <1>3, <1>4 DEF DiscoveryInv, TypeOK
<1>6. QueueDealsWithIt' BY <1>2 DEF QueueDealsWithIt
<1>7. CursorIsAPromise'
  BY <1>1, <1>2, <1>4 DEF DiscoveryInv, CursorIsAPromise, Listed
<1> QED BY <1>2, <1>4, <1>5, <1>6, <1>7 DEF DiscoveryInv

(* The cursor moves over what has been dealt with.                         *)
LEMMA EndDiscoveryKeeps == DiscoveryInv /\ EndDiscovery => DiscoveryInv'
<1> SUFFICES ASSUME DiscoveryInv, EndDiscovery PROVE DiscoveryInv'
  OBVIOUS
<1>1. /\ pc = "query" /\ queue = {} /\ pc' = "check"
      /\ cursor' = (IF profile = "monitor" /\ ok THEN Latest ELSE cursor)
      /\ UNCHANGED <<published, today, watch, desc, known, mark, profile, win, queue, live, ok,
                     newest, warned, owed>>
  BY DEF EndDiscovery, calendar, memory
<1>2. Latest \in {cursor, newest} BY DEF Latest
<1>3. TypeOK' BY <1>1, <1>2 DEF DiscoveryInv, TypeOK
<1>4. OwedIsMonitored' BY <1>1 DEF DiscoveryInv, OwedIsMonitored
<1>5. QueueDealsWithIt' BY <1>1 DEF QueueDealsWithIt
<1>6. CursorIsAPromise'
  <2> SUFFICES ASSUME NEW d \in owed \cap Listed, At[d] < cursor',
                      Day[d] > today - MonitorDays
               PROVE  d \in known
    BY <1>1 DEF CursorIsAPromise, Listed
  <2>1. CASE profile = "monitor" /\ ok
    BY <1>1, <2>1 DEF DiscoveryInv, QueueDealsWithIt
  <2>2. CASE ~(profile = "monitor" /\ ok)
    BY <1>1, <2>2 DEF DiscoveryInv, CursorIsAPromise
  <2> QED BY <2>1, <2>2
<1> QED BY <1>1, <1>3, <1>4, <1>5, <1>6 DEF DiscoveryInv

(* The steps that leave cursor, manifest and what is owed alone.           *)
LEMMA OthersKeep ==
  ASSUME DiscoveryInv, GateFails \/ StopDiscovery \/ CheckWatermarks
  PROVE  DiscoveryInv'
<1>1. /\ pc # "off" /\ pc' \in {"check", "save"} /\ queue' \subseteq queue
      /\ warned' \subseteq watch
      /\ UNCHANGED <<published, today, watch, desc, known, mark, cursor, profile, win, live, ok,
                     newest, owed>>
  BY DEF GateFails, StopDiscovery, CheckWatermarks, calendar, stored, memory, DiscoveryInv,
     TypeOK
<1>2. TypeOK' BY <1>1 DEF DiscoveryInv, TypeOK
<1>3. OwedIsMonitored' BY <1>1 DEF DiscoveryInv, OwedIsMonitored
<1>4. QueueDealsWithIt' BY <1>1 DEF QueueDealsWithIt
<1>5. CursorIsAPromise' BY <1>1 DEF DiscoveryInv, CursorIsAPromise, Listed
<1> QED BY <1>1, <1>2, <1>3, <1>4, <1>5 DEF DiscoveryInv

(* What the source, the calendar and people do only takes away from what   *)
(* is listed, in the window and followed of what is owed.                  *)
LEMMA WorldKeeps == DiscoveryInv /\ World => DiscoveryInv'
<1> SUFFICES ASSUME DiscoveryInv, World PROVE DiscoveryInv'
  OBVIOUS
<1>1. ASSUME NEW x \in Docs, Publish(x) PROVE DiscoveryInv'
  <2>1. /\ published' = published \cup {x}
        /\ UNCHANGED <<today, watch, desc, known, mark, cursor, pc, profile, win, queue, live,
                       ok, newest, warned, owed>>
    BY <1>1 DEF Publish, stored, memory
  <2>2. owed \cap Listed' \subseteq Listed
    BY <2>1 DEF Listed, DiscoveryInv, TypeOK
  <2>3. TypeOK' BY <2>1 DEF DiscoveryInv, TypeOK
  <2>4. OwedIsMonitored' BY <2>1 DEF DiscoveryInv, OwedIsMonitored
  <2>5. QueueDealsWithIt' BY <2>1, <2>2 DEF DiscoveryInv, QueueDealsWithIt
  <2>6. CursorIsAPromise' BY <2>1, <2>2 DEF DiscoveryInv, CursorIsAPromise
  <2> QED BY <2>1, <2>3, <2>4, <2>5, <2>6 DEF DiscoveryInv
<1>2. CASE Midnight
  <2>1. /\ today < MaxDay /\ today' = today + 1
        /\ UNCHANGED <<published, watch, desc, known, mark, cursor, pc, profile, win, queue,
                       live, ok, newest, warned, owed>>
    BY <1>2 DEF Midnight, stored, memory
  <2>2. today \in Nat /\ \A d \in owed : Day[d] \in Nat
    BY Constants DEF DiscoveryInv, TypeOK
  <2>3. TypeOK'
    <3>1. mark' \in [Entities -> 0..today'] BY <2>1, <2>2 DEF DiscoveryInv, TypeOK
    <3>2. today' \in 1..MaxDay /\ win' \in 0..today'
      BY <2>1, Constants DEF DiscoveryInv, TypeOK
    <3> QED BY <2>1, <3>1, <3>2 DEF DiscoveryInv, TypeOK
  <2>4. OwedIsMonitored' BY <2>1, <2>2 DEF DiscoveryInv, OwedIsMonitored
  <2>5. \A d \in owed : Day[d] > today' - MonitorDays => Day[d] > today - MonitorDays
    BY <2>1, <2>2, Constants
  <2>6. QueueDealsWithIt'
    BY <2>1, <2>5 DEF DiscoveryInv, QueueDealsWithIt, Listed
  <2>7. CursorIsAPromise'
    BY <2>1, <2>5 DEF DiscoveryInv, CursorIsAPromise, Listed
  <2> QED BY <2>1, <2>3, <2>4, <2>6, <2>7 DEF DiscoveryInv
<1>3. CASE EditFunds
  <2>1. /\ pc = "off" /\ watch' \subseteq Entities
        /\ owed' = {d \in owed : Entity[d] \in watch'}
        /\ UNCHANGED <<published, today, desc, known, mark, cursor, pc, profile, win, queue,
                       live, ok, newest, warned>>
    BY <1>3 DEF EditFunds, calendar, stored, memory
  <2>2. queue = {} /\ warned = {} BY <2>1 DEF DiscoveryInv, TypeOK
  <2>3. TypeOK' BY <2>1, <2>2 DEF DiscoveryInv, TypeOK
  <2>4. OwedIsMonitored' BY <2>1 DEF DiscoveryInv, OwedIsMonitored
  <2>5. QueueDealsWithIt' BY <2>1 DEF QueueDealsWithIt
  <2>6. CursorIsAPromise' BY <2>1 DEF DiscoveryInv, CursorIsAPromise, Listed
  <2> QED BY <2>1, <2>3, <2>4, <2>5, <2>6 DEF DiscoveryInv
<1> QED BY <1>1, <1>2, <1>3 DEF World

LEMMA DiscoveryPreserved == DiscoveryInv /\ [Next]_vars => DiscoveryInv'
<1> SUFFICES ASSUME DiscoveryInv, [Next]_vars PROVE DiscoveryInv'
  OBVIOUS
<1>1. CASE UNCHANGED vars
  BY <1>1 DEF vars, DiscoveryInv, TypeOK, OwedIsMonitored, QueueDealsWithIt,
     CursorIsAPromise, Listed
<1>2. ASSUME NEW p \in Profiles, Start(p) PROVE DiscoveryInv' BY <1>2, StartKeeps
<1>3. CASE Gate BY <1>3, GateKeeps
<1>4. CASE GateFails \/ StopDiscovery \/ CheckWatermarks BY <1>4, OthersKeep
<1>5. ASSUME NEW e \in Entities, Scanned(e) PROVE DiscoveryInv' BY <1>5, ScannedKeeps
<1>6. ASSUME NEW e \in Entities, ScannedShort(e) PROVE DiscoveryInv'
  BY <1>6, ScannedShortKeeps
<1>7. CASE EndDiscovery BY <1>7, EndDiscoveryKeeps
<1>8. CASE Save \/ Crash
  <2>1. pc # "off" /\ Leave /\ desc' \in {desc, live}
        /\ UNCHANGED <<calendar, watch, known, mark, cursor, owed>>
    BY <1>8 DEF Save, Crash, stored
  <2> QED BY <2>1, LeaveKeeps
<1>9. CASE World BY <1>9, WorldKeeps
<1> QED BY <1>1, <1>2, <1>3, <1>4, <1>5, <1>6, <1>7, <1>8, <1>9 DEF Next, RunStep

(* What is owed is known, or still to be queried by a run that knows it.   *)
THEOREM NothingOwedIsForgotten == Spec => []DiscoveryInv
<1> QED BY DiscoveryInitially, DiscoveryPreserved, PTL DEF Spec
-----------------------------------------------------------------------------
(* Every variable holds a value of its kind.                               *)
THEOREM DiscoveryTyped == Spec => []TypeOK
<1>1. DiscoveryInv => TypeOK BY DEF DiscoveryInv
<1> QED BY <1>1, NothingOwedIsForgotten, PTL

(* The cursor has passed nothing the gate read of a monitored name that is *)
(* not in the manifest.                                                    *)
THEOREM CursorKeepsItsPromise == Spec => []CursorIsAPromise
<1>1. DiscoveryInv => CursorIsAPromise BY DEF DiscoveryInv
<1> QED BY <1>1, NothingOwedIsForgotten, PTL

(* The watermark moves only when all of the retention window is known.     *)
THEOREM WatermarkRecordsWhatWasSeen == Spec => WatermarkIsHonest
<1> DEFINE Honest == \A e \in Entities : mark'[e] # mark[e] =>
              \A d \in Listed : /\ Entity[d] = e
                                /\ Day[d] \in First(RetentionDays)..win
                                => d \in known'
<1>1. DiscoveryInv /\ [Next]_vars => [Honest]_vars
  <2> SUFFICES ASSUME DiscoveryInv, Next PROVE Honest
    OBVIOUS
  <2>1. CASE mark' = mark BY <2>1
  <2>2. ASSUME NEW x \in Entities, Scanned(x) PROVE Honest
    <3> SUFFICES ASSUME NEW e \in Entities, mark'[e] # mark[e], NEW d \in Listed,
                        Entity[d] = e, Day[d] \in First(RetentionDays)..win
                 PROVE  d \in known'
      OBVIOUS
    <3>1. e = x /\ CoversRetention BY <2>2 DEF Scanned, DiscoveryInv, TypeOK
    <3>2. d \in Docs BY DEF Listed, DiscoveryInv, TypeOK
    <3>3. First(RetentionDays) \in Int /\ First(Days) \in Int /\ win \in Int
      BY Constants DEF First, Days, DiscoveryInv, TypeOK
    <3>4. d \in InWindow BY <3>1, <3>2, <3>3 DEF InWindow, CoversRetention
    <3> QED BY <2>2, <3>1, <3>4 DEF Scanned
  <2>3. Next => mark' = mark \/ \E x \in Entities : Scanned(x)
    BY DEF Next, RunStep, World, Start, Gate, GateFails, ScannedShort, StopDiscovery,
       EndDiscovery, CheckWatermarks, Save, Crash, Midnight, EditFunds, Publish, stored
  <2> QED BY <2>1, <2>2, <2>3
<1> QED BY <1>1, NothingOwedIsForgotten, PTL DEF Spec, WatermarkIsHonest
=============================================================================
