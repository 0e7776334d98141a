------------------------------- MODULE Scopes -------------------------------
(***************************************************************************)
(* From a CNPJ to the Fundos.NET ids a run may fetch from                  *)
(* (scope/resolver.py): the run resolves the scopes that have no entities, *)
(* fetches what their entities list, lets the CNPJ of a served document    *)
(* confirm what was found by name, and writes what it learnt back to       *)
(* funds.yaml, while people edit that file and the resolve command, which  *)
(* takes no lock, rewrites it.  An id is listed under one fund type, so    *)
(* the type adds nothing to an entity's identity.  Contents that differ    *)
(* have different digests.                                                 *)
(***************************************************************************)
EXTENDS Integers, Sequences

CONSTANTS
  Scopes,    \* reference CNPJs people register
  Cnpjs,     \* CNPJs of funds and classes in the registry
  Ids,       \* Fundos.NET ids
  Docs,
  Expand,    \* Expand[s]: the CNPJs the registry expands s to, in its mode
  Hits,      \* Hits[c]: for each candidate fund type, the shortlist that
             \* listarFundos yields for the registered name of c
  Volume,    \* Volume[i]: how many documents a probe of i counts
  IdOf,      \* IdOf[d]: the id that lists d
  Served,    \* Served[d]: the CNPJ disclosed with the bytes of d, or None
  None,
  MayFail,   \* bound: the requests that may fail
  MaxEdits   \* bound: what people do to funds.yaml

ASSUME ScopesAssumption ==
  /\ Expand \in [Scopes -> SUBSET Cnpjs]
  /\ Hits \in [Cnpjs -> Seq(Seq(Ids))]
  /\ Volume \in [Ids -> Nat]
  /\ IdOf \in [Docs -> Ids]
  /\ Served \in [Docs -> Cnpjs \cup {None}]
  /\ None \notin Cnpjs \cup Ids \cup Scopes
  /\ MaxEdits \in Nat

(* What a resolution asks the source for: a name search, a probe of an id. *)
Search(c) == [ask |-> "name", of |-> c]
Probe(i) == [ask |-> "id", of |-> i]

ASSUME MayFailAssumption ==
  MayFail \subseteq {Search(c) : c \in Cnpjs} \cup {Probe(i) : i \in Ids}

VARIABLES
  file,    \* funds.yaml
  edits,   \* how often people touched it
  pc,      \* the run: "idle", "sync", "discover", "fetch"
  mem,     \* its document
  base,    \* the content whose digest it remembers
  todo,    \* scopes sync_scopes has still to visit
  usable,  \* scopes the run works with
  asked,   \* the resolve command is on
  cmem, cbase, ctodo,  \* its document, digest and scopes to visit
  row,     \* row[d]: how far document d is
  under,   \* under[d]: the scope d was filed under
  proven   \* history: <<id, CNPJ>> a served document showed to belong together

run == <<pc, mem, base, todo, usable>>
command == <<asked, cmem, cbase, ctodo>>
filed == <<row, under, proven>>
vars == <<file, edits, run, command, filed>>

Entity == [cnpj : Cnpjs, id : Ids, confirmed : BOOLEAN]
Entries == [entities : SUBSET Entity, expansion : {"unresolved", "partial", "complete"}]
Fresh == [entities |-> {}, expansion |-> "unresolved"]
Blank == [s \in {} |-> Fresh]

IsContents(f) == DOMAIN f \subseteq Scopes /\ \A s \in DOMAIN f : f[s] \in Entries

ScopesTypeOK ==
  /\ IsContents(file) /\ IsContents(mem) /\ IsContents(base)
  /\ IsContents(cmem) /\ IsContents(cbase)
  /\ edits \in 0..MaxEdits
  /\ pc \in {"idle", "sync", "discover", "fetch"}
  /\ todo \cup usable \subseteq DOMAIN mem /\ ctodo \subseteq DOMAIN cmem
  /\ \A s \in usable : mem[s].entities # {}
  /\ asked \in BOOLEAN
  /\ row \in [Docs -> {"new", "queued", "abandoned", "available"}]
  /\ under \in [Docs -> Scopes \cup {None}]
  /\ proven \subseteq Ids \X Cnpjs

(* funds.yaml as somebody wrote it: CNPJs, nothing else.                   *)
Init ==
  /\ file = [s \in Scopes |-> Fresh] /\ edits = 0
  /\ pc = "idle" /\ mem = Blank /\ base = Blank /\ todo = {} /\ usable = {}
  /\ asked = FALSE /\ cmem = Blank /\ cbase = Blank /\ ctodo = {}
  /\ row = [d \in Docs |-> "new"] /\ under = [d \in Docs |-> None]
  /\ proven = {}
-----------------------------------------------------------------------------
(* More than a handful is too generic a name to resolve unattended.        *)
Handful == 5

(* A candidate is confirmed when its probe counts a document; one that     *)
(* could not be probed ranks as one without documents.                     *)
Rank(i, down) == IF Probe(i) \in down THEN 0 ELSE Volume[i]

(* The candidate with most documents, the first of them when several.      *)
Best(list, down) ==
  {i \in Ids : \E k \in DOMAIN list :
     /\ i = list[k]
     /\ \A j \in DOMAIN list \ {k} :
          \/ Rank(list[j], down) < Rank(i, down)
          \/ Rank(list[j], down) = Rank(i, down) /\ k < j}

(* _pick: the first fund type that names the entity decides.               *)
Pick(c, down) ==
  LET named == {t \in DOMAIN Hits[c] : Hits[c][t] # <<>>}
      list == Hits[c][CHOOSE t \in named : \A u \in named : t =< u]
  IN  IF \/ Search(c) \in down \/ named = {} \/ Len(list) > Handful
         \/ Best(list, down) = {}
      THEN None ELSE CHOOSE i \in Best(list, down) : TRUE

(* One id found for two entities belongs to neither.                       *)
Clear(found) == {e \in found : \A f \in found : f.id = e.id => f = e}

(* Mutant: whatever the entity, the id was confirmed once.                 *)
WasConfirmedById(e, previous) == \E p \in previous : p.id = e.id /\ p.confirmed

(* A confirmation holds for one entity under one id.                       *)
WasConfirmed(e, previous) ==
  \E p \in previous : p.id = e.id /\ p.cnpj = e.cnpj /\ p.confirmed

(* What the entities of s are found as, over what can fail.                *)
Findings ==
  [s \in Scopes |-> {[c \in Expand[s] |-> Pick(c, down)] : down \in SUBSET MayFail}]

(* ... and when nothing fails.                                             *)
Answered == [s \in Scopes |-> [c \in Expand[s] |-> Pick(c, {})]]

(* What was found for an entity by name, and nothing is known of yet.      *)
Found(picks) ==
  {[cnpj |-> c, id |-> picks[c], confirmed |-> FALSE] :
     c \in {b \in DOMAIN picks : picks[b] # None}}

Entry(picks, kept, previous, covers) ==
  [entities |-> {[cnpj |-> e.cnpj, id |-> e.id, confirmed |-> WasConfirmed(e, previous)] :
                   e \in kept},
   expansion |-> IF \A c \in DOMAIN picks : \E e \in covers : e.cnpj = c
                 THEN "complete" ELSE "partial"]

(* Mutant: an id dropped for its conflict is no failure.                   *)
ResolvedLightly(picks, previous) ==
  Entry(picks, Clear(Found(picks)), previous, Found(picks))

(* resolve_scope: the entry that comes of what was picked for each entity. *)
(* Without an entity it raises.                                            *)
Resolved(picks, previous) ==
  Entry(picks, Clear(Found(picks)), previous, Clear(Found(picks)))
-----------------------------------------------------------------------------
(* The entities of the scopes S of document m that answer for document d,  *)
(* each with its scope.                                                    *)
Claims(m, S, d) ==
  {c \in S \X UNION {m[s].entities : s \in S} :
     c[2] \in m[c[1]].entities /\ c[2].id = IdOf[d]}

(* Mutant: the first scope that claims an id has it.                       *)
OwnedByFirst(m, S, d) ==
  LET C == Claims(m, S, d) IN IF C = {} THEN {} ELSE {CHOOSE c \in C : TRUE}

(* EntityIndex: an id claimed twice is nobody's.                           *)
Owned(m, S, d) == {c \in Claims(m, S, d) : \A b \in Claims(m, S, d) : b = c}

(* Mutant: a confirmed entity is taken at its word.                        *)
AcceptsConfirmed(m, s, e, d) ==
  \/ Served[d] = None \/ e.confirmed
  \/ \E f \in m[s].entities : f.cnpj = Served[d]

(* _validate_and_confirm_cnpj: the entity's CNPJ, or a sibling's.          *)
Accepts(m, s, e, d) ==
  \/ Served[d] = None
  \/ \E f \in m[s].entities : f.cnpj = Served[d]

Confirm(r, e) ==
  [entities |-> (r.entities \ {e})
                  \cup {[cnpj |-> e.cnpj, id |-> e.id, confirmed |-> TRUE]},
   expansion |-> r.expansion]

(* What keeps its queue: the ids of every configured scope.                *)
Keeps(m, d) == Claims(m, DOMAIN m, d) # {}
-----------------------------------------------------------------------------
(* The next scope, in an order nothing depends on.                         *)
Foremost(S) == CHOOSE s \in S : TRUE

Rest == mem' = Blank /\ base' = Blank /\ todo' = {} /\ usable' = {}

Load ==
  /\ pc = "idle" /\ pc' = "sync"
  /\ mem' = file /\ base' = file /\ todo' = DOMAIN file /\ usable' = {}
  /\ UNCHANGED <<file, edits, command, filed>>

(* Mutant: a scope that was tried counts as resolved, and is saved so.     *)
SyncOnce(s, picks) ==
  /\ pc = "sync" /\ todo # {} /\ s = Foremost(todo) /\ todo' = todo \ {s}
  /\ LET r == IF mem[s].expansion # "unresolved" THEN mem[s] ELSE Resolved(picks, {}) IN
     /\ mem' = [mem EXCEPT ![s] = r]
     /\ usable' = IF r.entities = {} THEN usable ELSE usable \cup {s}
  /\ UNCHANGED <<pc, base, file, edits, command, filed>>

(* sync_scopes, one scope: what has entities is used as it is, what cannot *)
(* be resolved is skipped.  Without a registry snapshot nothing can, as    *)
(* when every request fails.                                               *)
Sync(s, picks) ==
  /\ pc = "sync" /\ todo # {} /\ s = Foremost(todo) /\ todo' = todo \ {s}
  /\ LET r == IF mem[s].entities # {} THEN mem[s] ELSE Resolved(picks, {}) IN
     IF r.entities = {}
     THEN UNCHANGED <<mem, usable>>
     ELSE mem' = [mem EXCEPT ![s] = r] /\ usable' = usable \cup {s}
  /\ UNCHANGED <<pc, base, file, edits, command, filed>>

(* Mutant: nobody looks whether the file is still what was loaded.         *)
SaveAnyway(doc, old) == file' = doc

(* FundsFile.save: a file that changed meanwhile is left alone.            *)
Save(doc, old) == file' = IF file = old THEN doc ELSE file

(* What was resolved is saved; then whatever belongs to no scope of this   *)
(* document is stood down.  Without a usable scope the run ends.           *)
Synced ==
  /\ pc = "sync" /\ todo = {}
  /\ IF mem # base THEN Save(mem, base) ELSE UNCHANGED file
  /\ row' = [d \in Docs |-> IF row[d] = "queued" /\ ~Keeps(mem, d)
                            THEN "abandoned" ELSE row[d]]
  /\ IF usable = {}
     THEN pc' = "idle" /\ Rest
     ELSE /\ pc' = "discover" /\ base' = (IF file = base THEN mem ELSE base)
          /\ UNCHANGED <<mem, todo, usable>>
  /\ UNCHANGED <<edits, command, under, proven>>

(* The ids I of the usable scopes answer; what they list joins the queue.  *)
Discover ==
  /\ pc = "discover" /\ pc' = "fetch"
  /\ \E I \in SUBSET {IdOf[d] : d \in Docs} :
       row' = [d \in Docs |->
                 IF /\ IdOf[d] \in I /\ Claims(mem, usable, d) # {}
                    /\ row[d] \in {"new", "abandoned"}
                 THEN "queued" ELSE row[d]]
  /\ UNCHANGED <<mem, base, todo, usable, file, edits, command, under, proven>>

(* A document that arrives and is accepted; one that does not or is not    *)
(* stays in the queue.                                                     *)
Fetch(d) ==
  /\ pc = "fetch" /\ row[d] = "queued"
  /\ \E s \in usable : \E e \in mem[s].entities :
       /\ <<s, e>> \in Owned(mem, usable, d) /\ Accepts(mem, s, e, d)
       /\ row' = [row EXCEPT ![d] = "available"] /\ under' = [under EXCEPT ![d] = s]
       /\ IF Served[d] = e.cnpj
          THEN /\ proven' = proven \cup {<<e.id, e.cnpj>>}
               /\ mem' = [mem EXCEPT ![s] = Confirm(@, e)]
          ELSE UNCHANGED <<proven, mem>>
  /\ UNCHANGED <<pc, base, todo, usable, file, edits, command>>

(* The end of the run: confirmations belong in the file.                   *)
Finish ==
  /\ pc = "fetch" /\ pc' = "idle"
  /\ Save(mem, base) /\ Rest
  /\ UNCHANGED <<edits, command, filed>>

Die ==
  /\ pc # "idle" /\ pc' = "idle" /\ Rest
  /\ UNCHANGED <<file, edits, command, filed>>
-----------------------------------------------------------------------------
Touch == edits < MaxEdits /\ edits' = edits + 1

AskResolve(all) ==
  /\ Touch /\ ~asked /\ asked' = TRUE
  /\ cmem' = file /\ cbase' = file
  /\ ctodo' = {s \in DOMAIN file : all \/ file[s].entities = {}}
  /\ UNCHANGED <<file, run, filed>>

(* A scope that fails keeps what it had.                                   *)
ResolveOne(s, picks) ==
  /\ asked /\ ctodo # {} /\ s = Foremost(ctodo) /\ ctodo' = ctodo \ {s}
  /\ LET r == Resolved(picks, cmem[s].entities) IN
     IF r.entities = {} THEN UNCHANGED cmem ELSE cmem' = [cmem EXCEPT ![s] = r]
  /\ UNCHANGED <<asked, cbase, file, edits, run, filed>>

EndResolve(saving) ==
  /\ asked /\ asked' = FALSE
  /\ IF saving THEN ctodo = {} /\ Save(cmem, cbase) ELSE UNCHANGED file
  /\ cmem' = Blank /\ cbase' = Blank /\ ctodo' = {}
  /\ UNCHANGED <<edits, run, filed>>

(* A CNPJ is added, or typed anew over an entry: the robot's fields are a  *)
(* cache.                                                                  *)
Add(s) ==
  /\ Touch
  /\ file' = [t \in DOMAIN file \cup {s} |-> IF t = s THEN Fresh ELSE file[t]]
  /\ UNCHANGED <<run, command, filed>>

(* An entry is edited out, or removed by rm, which stands its queue down.  *)
Remove(s, rm) ==
  /\ Touch /\ s \in DOMAIN file
  /\ file' = [t \in DOMAIN file \ {s} |-> file[t]]
  /\ row' = [d \in Docs |-> IF rm /\ row[d] = "queued" /\ Claims(file, {s}, d) # {}
                            THEN "abandoned" ELSE row[d]]
  /\ UNCHANGED <<run, command, under, proven>>

RunStep ==
  \/ Load \/ (\E s \in Scopes : \E picks \in Findings[s] : Sync(s, picks))
  \/ Synced \/ Discover \/ (\E d \in Docs : Fetch(d)) \/ Finish

Beside ==
  \/ \E all \in BOOLEAN : AskResolve(all)
  \/ \E s \in Scopes : \E picks \in Findings[s] : ResolveOne(s, picks)
  \/ \E saving \in BOOLEAN : EndResolve(saving)
  \/ \E s \in Scopes : Add(s) \/ \E rm \in BOOLEAN : Remove(s, rm)

Next == RunStep \/ Die \/ Beside

Spec == Init /\ [][Next]_vars

(* A run that ends with nothing to save leaves as a dying one does.        *)
Death == Die /\ ~Synced /\ ~Finish

Outage ==
  /\ pc = "sync" /\ todo' # todo /\ pc' = "sync"
  /\ \E s \in todo \ todo' : ~Sync(s, Answered[s])

Edited == ~UNCHANGED <<edits, command>>

(* Runs follow each other; what kills one, what fails of the source while  *)
(* scopes are resolved, and what people do come to an end.                 *)
FairSpec ==
  /\ Spec
  /\ WF_vars(RunStep)
  /\ <>[][~Death /\ ~Outage /\ ~Edited]_vars
-----------------------------------------------------------------------------
(* What a name search found is believed, after that, because a document    *)
(* served under that very id disclosed that very CNPJ: whatever runs and   *)
(* resolve commands wrote over each other, and whatever the search found   *)
(* another time, no other confirmation is in funds.yaml.                   *)
ConfirmedIsEarned ==
  \A s \in DOMAIN file : \A e \in file[s].entities :
    e.confirmed => <<e.id, e.cnpj>> \in proven

(* A scope that says complete has an entity for every class the registry   *)
(* expands it to, and no two share an id: what is missing shows.           *)
CompleteMeansWhole ==
  \A s \in DOMAIN file :
    file[s].expansion = "complete" =>
      /\ {e.cnpj : e \in file[s].entities} = Expand[s]
      /\ \A e, f \in file[s].entities : e.id = f.id => e.cnpj = f.cnpj

(* The loop is closed: whatever the ids were taken for, a document that    *)
(* discloses its CNPJ is only ever filed for a scope the registry expands  *)
(* to that CNPJ.                                                           *)
NothingForeignIsFiled ==
  \A d \in Docs :
    under[d] # None /\ Served[d] # None => Served[d] \in Expand[under[d]]

(* What two scopes claim waits: as long as they do, a run neither files it *)
(* for one of them nor stands it down.                                     *)
ContestedWaits ==
  [][\A d \in Docs : \A b, c \in Claims(mem, DOMAIN mem, d) :
       b # c /\ row[d] = "queued" /\ UNCHANGED edits => row'[d] = "queued"]_vars

(* A confirmation written down stays with its entity, whoever rewrites     *)
(* funds.yaml, for as long as the entry names that entity under that id.   *)
ConfirmationsStay ==
  [][\A s \in DOMAIN file \cap DOMAIN file' :
       \A e \in file[s].entities : \A f \in file'[s].entities :
         e.confirmed /\ f.cnpj = e.cnpj /\ f.id = e.id => f.confirmed]_vars

(* A resolution that failed, in whole, and one whose save was refused      *)
(* because somebody had edited the file, are done again: in the end every  *)
(* scope whose name search yields an entity has one in funds.yaml.  ("It   *)
(* will be reapplied on the next run."  Not so what failed in part: the    *)
(* scope has entities, and no run looks for the rest.)                     *)
Resolvable(s) == Resolved(Answered[s], {}).entities # {}

EveryScopeResolves ==
  <>[](\A s \in DOMAIN file : Resolvable(s) => file[s].entities # {})
=============================================================================
