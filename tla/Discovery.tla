----------------------------- MODULE Discovery ------------------------------
(***************************************************************************)
(* Discovery (pipeline/discover.py) against a moving calendar and a moving *)
(* source: the daily sweep, the monitor with its listing gate and cursor,  *)
(* the watermarks and the only gap alarm.  What one read or one scan may   *)
(* miss while the listing changes under it is the subject of Scan and      *)
(* ScanNewest; here each sees the listing of one moment, or part of it.    *)
(* One fund type: the others run the same loop after it.                   *)
(***************************************************************************)
EXTENDS Integers, FiniteSets

CONSTANTS
  Docs,
  Entities,
  None,
  Entity,         \* Entity[d]: the entity that files d
  At,             \* At[d]: dataEntrega, to the minute
  Day,            \* Day[d]: its date
  Refiles,        \* Refiles[d]: the filing d withdraws from the listing, or None
  Spelling,       \* Spelling[d]: the folded fund description of d's row
  LegalName,      \* LegalName[e]: the folded registered name of e's scope
  FirstSpelling,  \* FirstSpelling[e]: the spelling the resolver stored
  RetentionDays, SweepDays, MonitorDays,
  MaxDay          \* bound: the last day the calendar reaches

(* Spellings a run may come to know.                                       *)
Names == {Spelling[d] : d \in Docs} \cup {FirstSpelling[e] : e \in Entities}

ASSUME DiscoveryAssumption ==
  /\ IsFiniteSet(Docs) /\ None \notin Docs
  /\ Entity \in [Docs -> Entities]
  /\ At \in [Docs -> Nat \ {0}]
  /\ Day \in [Docs -> Nat \ {0}]
  /\ \A d, e \in Docs : At[d] =< At[e] => Day[d] =< Day[e]
  /\ Refiles \in [Docs -> Docs \cup {None}]
  /\ FirstSpelling \in [Entities -> Names]
  /\ RetentionDays \in Nat /\ SweepDays \in Nat /\ MonitorDays \in Nat
  /\ 1 =< MonitorDays /\ MonitorDays =< SweepDays /\ SweepDays =< RetentionDays
  /\ MaxDay \in Nat \ {0}

VARIABLES
  published,  \* what the source ever listed
  today,
  watch,      \* entities of the scopes funds.yaml configures
  desc,       \* desc[e]: fnet_fund_description as stored in funds.yaml
  known,      \* publications the manifest has a row for
  mark,       \* mark[e]: last_window_end, 0 while NULL
  cursor,     \* last_delivery_at of the fund type, 0 while there is none
  pc, profile,
  win,        \* last day of both windows
  queue,      \* entities still to query
  live,       \* the run's copy of desc
  ok,         \* all_gated_succeeded
  newest,     \* newest of the gate's read
  warned,     \* entities the run warned about
  owed        \* history: rows a complete read saw for a name that is still
              \* monitored

calendar == <<published, today>>
stored == <<desc, known, mark, cursor>>
memory == <<win, queue, live, ok, newest, warned>>
vars == <<published, today, watch, desc, known, mark, cursor, pc, profile, win, queue,
          live, ok, newest, warned, owed>>

Profiles == {"sweep", "monitor"}

Listed == published \ {d \in Docs : \E e \in published : Refiles[e] = d}

First(days) == win - (days - 1)

Days == IF profile = "sweep" THEN SweepDays ELSE MonitorDays

InWindow == {d \in Docs : Day[d] \in First(Days)..win}

(* Mutant: any complete scan moves the watermark.                          *)
CoversAnything == TRUE

CoversRetention == First(Days) =< First(RetentionDays)

TypeOK ==
  /\ published \subseteq Docs /\ today \in 1..MaxDay
  /\ watch \subseteq Entities
  /\ desc \in [Entities -> Names] /\ live \in [Entities -> Names]
  /\ known \subseteq published
  /\ mark \in [Entities -> 0..today]
  /\ cursor \in {0} \cup {At[d] : d \in published}
  /\ pc \in {"off", "gate", "query", "check", "save"} /\ profile \in Profiles
  /\ win \in 0..today
  /\ queue \subseteq watch /\ warned \subseteq watch
  /\ pc = "off" => queue = {} /\ warned = {}
  /\ ok \in BOOLEAN
  /\ newest \in {0} \cup {At[d] : d \in published}
  /\ owed \subseteq published

Init ==
  /\ published = {} /\ today = 1 /\ watch = {}
  /\ desc = FirstSpelling /\ known = {}
  /\ mark = [e \in Entities |-> 0] /\ cursor = 0
  /\ pc = "off" /\ profile = "sweep" /\ win = 0 /\ queue = {} /\ live = FirstSpelling
  /\ ok = TRUE /\ newest = 0 /\ warned = {} /\ owed = {}
-----------------------------------------------------------------------------
(* The source lists a filing on its day or, indexed late, after it.        *)
Publish(d) ==
  /\ d \notin published /\ Day[d] =< today
  /\ Refiles[d] \in published \cup {None}
  /\ published' = published \cup {d}
  /\ UNCHANGED <<today, watch, stored, pc, profile, memory, owed>>

Midnight ==
  /\ today < MaxDay /\ today' = today + 1
  /\ UNCHANGED <<published, watch, stored, pc, profile, memory, owed>>

EditFunds ==
  /\ pc = "off"
  /\ watch' \in (SUBSET Entities) \ {watch}
  /\ owed' = {d \in owed : Entity[d] \in watch'}
  /\ UNCHANGED <<calendar, stored, pc, profile, memory>>
-----------------------------------------------------------------------------
Leave ==
  /\ pc' = "off" /\ profile' = "sweep" /\ win' = 0 /\ queue' = {} /\ live' = FirstSpelling
  /\ ok' = TRUE /\ newest' = 0 /\ warned' = {}

Crash == pc # "off" /\ Leave /\ UNCHANGED <<calendar, watch, stored, owed>>

(* Mutant: the sweep skips what a scan has covered today already.          *)
StartUncovered(p) ==
  /\ pc = "off" /\ watch # {}
  /\ profile' = p /\ win' = today /\ live' = desc
  /\ IF p = "sweep" THEN pc' = "query" /\ queue' = {e \in watch : mark[e] < today}
                    ELSE pc' = "gate" /\ queue' = {}
  /\ UNCHANGED <<calendar, watch, stored, ok, newest, warned, owed>>

(* With no usable scope execute returns before discovery.  Here both       *)
(* windows of a run end on one today; Archive reads it twice.              *)
Start(p) ==
  /\ pc = "off" /\ watch # {}
  /\ profile' = p /\ win' = today /\ live' = desc
  /\ IF p = "sweep" THEN pc' = "query" /\ queue' = watch
                    ELSE pc' = "gate" /\ queue' = {}
  /\ UNCHANGED <<calendar, watch, stored, ok, newest, warned, owed>>

(* monitored_names: an entity answers to its scope's registered name and   *)
(* to its stored spelling.                                                 *)
Answers(e, d) == Spelling[d] \in {LegalName[e], live[e]}

(* Above the cursor everything is a candidate; at its minute only what the *)
(* manifest does not know.                                                 *)
Candidates(rows) ==
  {d \in rows : cursor = 0 \/ At[d] > cursor \/ (At[d] = cursor /\ d \notin known)}

(* A complete newest-first read, and the entities it gates.                *)
Gate ==
  /\ pc = "gate"
  /\ LET rows == {d \in Listed \cap InWindow : At[d] >= cursor}
     IN  /\ queue' = {e \in watch : \E d \in Candidates(rows) : Answers(e, d)}
         /\ newest' \in {0} \cup {At[d] : d \in Listed \cap InWindow}
         /\ \A d \in Listed \cap InWindow : At[d] =< newest'
         /\ owed' = owed \cup {d \in rows : Entity[d] \in watch /\ Answers(Entity[d], d)}
  /\ pc' = "query"
  /\ UNCHANGED <<calendar, watch, stored, profile, win, live, ok, warned>>

(* A read that failed or was not complete gates nothing.                   *)
GateFails ==
  /\ pc = "gate" /\ pc' = "check"
  /\ UNCHANGED <<calendar, watch, stored, profile, memory, owed>>

(* Refresh the stored spelling from the newest row the scan returned; the  *)
(* one before it is no longer monitored.                                   *)
Refresh(e, rows) ==
  \/ rows = {} /\ UNCHANGED <<live, owed>>
  \/ \E d \in rows :
       /\ \A f \in rows : At[f] =< At[d]
       /\ live' = [live EXCEPT ![e] = Spelling[d]]
       /\ owed' = {f \in owed : Entity[f] = e => Spelling[f] \in {LegalName[e], Spelling[d]}}

(* discover_entity with a complete scan: the rows and, if the window       *)
(* reaches the frontier, the watermark, in one transaction.                *)
Scanned(e) ==
  /\ pc = "query" /\ e \in queue /\ queue' = queue \ {e}
  /\ LET rows == {d \in Listed \cap InWindow : Entity[d] = e}
     IN  known' = known \cup rows /\ Refresh(e, rows)
  /\ mark' = IF CoversRetention THEN [mark EXCEPT ![e] = win] ELSE mark
  /\ UNCHANGED <<calendar, watch, desc, cursor, pc, profile, win, ok, newest, warned>>

(* A short scan keeps what it got; a failed one gets nothing.              *)
ScannedShort(e) ==
  /\ pc = "query" /\ e \in queue /\ queue' = queue \ {e}
  /\ \E rows \in SUBSET {d \in Listed \cap InWindow : Entity[d] = e} :
       known' = known \cup rows /\ Refresh(e, rows)
  /\ ok' = FALSE
  /\ UNCHANGED <<calendar, watch, desc, mark, cursor, pc, profile, win, newest, warned>>

(* A shutdown request leaves discovery early, with the cursor untouched.   *)
StopDiscovery ==
  /\ pc = "query" /\ queue # {} /\ pc' = "check" /\ queue' = {}
  /\ UNCHANGED <<calendar, watch, stored, profile, win, live, ok, newest, warned, owed>>

Latest == IF newest > cursor THEN newest ELSE cursor

(* Mutant: a short or failed gated query does not hold the cursor back.    *)
EndDiscoveryAnyway ==
  /\ pc = "query" /\ queue = {} /\ pc' = "check"
  /\ cursor' = IF profile = "monitor" THEN Latest ELSE cursor
  /\ UNCHANGED <<calendar, watch, desc, known, mark, profile, memory, owed>>

(* The cursor moves only if everything it gated came back complete.        *)
EndDiscovery ==
  /\ pc = "query" /\ queue = {} /\ pc' = "check"
  /\ cursor' = IF profile = "monitor" /\ ok THEN Latest ELSE cursor
  /\ UNCHANGED <<calendar, watch, desc, known, mark, profile, memory, owed>>

(* check_watermarks, limited to entities of the usable scopes.             *)
CheckWatermarks ==
  /\ pc = "check" /\ pc' = "save"
  /\ warned' = {e \in watch : mark[e] # 0 /\ mark[e] < First(RetentionDays)}
  /\ UNCHANGED <<calendar, watch, stored, profile, win, queue, live, ok, newest, owed>>

(* funds.yaml is saved with the refreshed spellings, unless somebody has   *)
(* edited it meanwhile; without a refresh it is saved only if a CNPJ was   *)
(* confirmed.                                                              *)
Save ==
  /\ pc = "save"
  /\ desc' \in {desc, live}
  /\ Leave
  /\ UNCHANGED <<calendar, watch, known, mark, cursor, owed>>
-----------------------------------------------------------------------------
RunStep ==
  \/ Gate \/ GateFails
  \/ \E e \in Entities : Scanned(e) \/ ScannedShort(e)
  \/ StopDiscovery \/ EndDiscovery \/ CheckWatermarks \/ Save

World == Midnight \/ EditFunds \/ \E d \in Docs : Publish(d)

Next == (\E p \in Profiles : Start(p)) \/ RunStep \/ World \/ Crash

Spec == Init /\ [][Next]_vars

(* The scheduler starts sweeps for ever, runs go on to their end, and the  *)
(* source answers every entity completely now and then.                    *)
FairSpec ==
  /\ Spec
  /\ WF_vars(RunStep)
  /\ SF_vars(Start("sweep"))
  /\ \A e \in Entities : SF_vars(profile = "sweep" /\ Scanned(e))
-----------------------------------------------------------------------------
(* The watermark is a record of what was seen: when it moves, everything   *)
(* listed of that entity in the whole retention window is in the manifest, *)
(* whichever profile ran.                                                  *)
WatermarkIsHonest ==
  [][\A e \in Entities : mark'[e] # mark[e] =>
       \A d \in Listed : /\ Entity[d] = e
                         /\ Day[d] \in First(RetentionDays)..win
                         => d \in known']_vars

(* "its cursor is a promise that everything above it was dealt with"       *)
(* (discover_entity): a row of a monitored name that the gate has read is  *)
(* in the manifest before the cursor moves past it, as long as the         *)
(* monitor's window still reaches it and nobody withdrew it.  (Not if a    *)
(* short scan learns another spelling meanwhile: then the name is no       *)
(* longer monitored, and the row waits for the sweep.)                     *)
CursorIsAPromise ==
  \A d \in owed \cap Listed :
    At[d] < cursor /\ Day[d] > today - MonitorDays => d \in known

(* "The daily sweep queries every entity unconditionally and remains the   *)
(* completeness guarantee": whatever the gate misses, a late row, a        *)
(* renamed fund, is found while the window still holds it.                 *)
SweepFindsAll ==
  \A d \in Docs :
    (d \in Listed /\ Entity[d] \in watch)
      ~> \/ d \in known \/ d \notin Listed \/ Entity[d] \notin watch
         \/ Day[d] < today - (SweepDays - 1)
=============================================================================
