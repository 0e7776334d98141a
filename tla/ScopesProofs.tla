---------------------------- MODULE ScopesProofs ----------------------------
(***************************************************************************)
(* What Scopes keeps true, for any registry, any answers of the source and *)
(* any number of edits.  Everything an entry of funds.yaml says is sound   *)
(* in every copy of the file that may still be written back: the run's,    *)
(* the resolve command's, the file's own.                                  *)
(***************************************************************************)
EXTENDS Scopes, TLAPS

(* What holds of every entry, in whatever copy of the file.                *)
SoundEntry(s, r, known) ==
  /\ \A e \in r.entities : e.cnpj \in Expand[s]
  /\ \A e \in r.entities : e.confirmed => <<e.id, e.cnpj>> \in known
  /\ \A e, f \in r.entities : e.id = f.id => e = f
  /\ r.expansion = "complete" => Expand[s] \subseteq {e.cnpj : e \in r.entities}

Sound(f, known) == \A s \in DOMAIN f : SoundEntry(s, f[s], known)

(* The copy new has lost no confirmation that old has, nor all entities of *)
(* a scope.                                                                *)
KeepsConfirmations(old, new) ==
  \A s \in DOMAIN old \cap DOMAIN new :
    /\ new[s].entities = {} => old[s].entities = {}
    /\ \A e \in old[s].entities : \A f \in new[s].entities :
      e.confirmed /\ f.cnpj = e.cnpj /\ f.id = e.id => f.confirmed

(* A run that fetches works with every scope that has entities.            *)
AllWorkedWith ==
  /\ pc \in {"discover", "fetch"} => todo = {}
  /\ \A s \in DOMAIN mem : mem[s].entities # {} => s \in usable \cup todo

ScopesInv ==
  /\ ScopesTypeOK
  /\ Sound(file, proven) /\ Sound(mem, proven) /\ Sound(cmem, proven)
  /\ KeepsConfirmations(base, mem) /\ KeepsConfirmations(cbase, cmem)
  /\ \A s \in ctodo : s \in DOMAIN cbase /\ cmem[s] = cbase[s]
  /\ AllWorkedWith
  /\ NothingForeignIsFiled

-----------------------------------------------------------------------------
LEMMA FindingsType ==
  ASSUME NEW s \in Scopes, NEW picks \in Findings[s]
  PROVE  picks \in [Expand[s] -> Ids \cup {None}]
<1>1. PICK down \in SUBSET MayFail : picks = [c \in Expand[s] |-> Pick(c, down)]
  BY DEF Findings
<1>2. \A c \in Expand[s] : Pick(c, down) \in Ids \cup {None}
  <2> TAKE c \in Expand[s]
  <2> DEFINE named == {t \in DOMAIN Hits[c] : Hits[c][t] # <<>>}
             list == Hits[c][CHOOSE t \in named : \A u \in named : t =< u]
  <2>1. CASE Best(list, down) = {} BY <2>1 DEF Pick
  <2>2. CASE Best(list, down) # {}
    <3>1. (CHOOSE i \in Best(list, down) : TRUE) \in Best(list, down) BY <2>2
    <3>2. Best(list, down) \subseteq Ids BY DEF Best
    <3> HIDE DEF named, list
    <3>3. (CHOOSE i \in Best(list, down) : TRUE) \in Ids BY <3>1, <3>2
    <3> USE DEF named, list
    <3> QED BY <3>3, Zenon DEF Pick
  <2> QED BY <2>1, <2>2
<1> QED BY <1>1, <1>2

(* What resolve_scope makes of what was found: an entry of its own scope,  *)
(* without two entities of one id, whose confirmations are those of the    *)
(* same entities before, and which says complete only if it is.            *)
LEMMA ResolvedEntry ==
  ASSUME NEW s \in Scopes, NEW picks \in Findings[s],
         NEW previous \in SUBSET Entity, NEW known,
         \A e \in previous : e.confirmed => <<e.id, e.cnpj>> \in known
  PROVE  /\ Resolved(picks, previous) \in Entries
         /\ SoundEntry(s, Resolved(picks, previous), known)
         /\ \A e \in previous : \A f \in Resolved(picks, previous).entities :
              e.confirmed /\ f.cnpj = e.cnpj /\ f.id = e.id => f.confirmed
<1> DEFINE kept == Clear(Found(picks))
           r == Resolved(picks, previous)
<1>1. picks \in [Expand[s] -> Ids \cup {None}] /\ Expand[s] \subseteq Cnpjs
  BY FindingsType, ScopesAssumption
<1>2. \A e \in kept : e \in Entity /\ e.cnpj \in Expand[s]
  <2> SUFFICES ASSUME NEW e \in kept PROVE e \in Entity /\ e.cnpj \in Expand[s]
    OBVIOUS
  <2>1. e \in Found(picks) BY DEF Clear
  <2>2. PICK c \in Expand[s] :
          picks[c] # None /\ e = [cnpj |-> c, id |-> picks[c], confirmed |-> FALSE]
    BY <1>1, <2>1 DEF Found
  <2>3. picks[c] \in Ids /\ c \in Cnpjs BY <1>1, <2>2
  <2> QED BY <2>2, <2>3 DEF Entity
<1>3. \A e, f \in kept : e.id = f.id => e = f
  BY DEF Clear
<1>4. r.entities =
        {[cnpj |-> e.cnpj, id |-> e.id, confirmed |-> WasConfirmed(e, previous)] : e \in kept}
  BY DEF Resolved, Entry
<1>5. r.expansion = IF \A c \in DOMAIN picks : \E e \in kept : e.cnpj = c
                    THEN "complete" ELSE "partial"
  BY DEF Resolved, Entry
<1>6. \A e \in kept : WasConfirmed(e, previous) \in BOOLEAN
  BY DEF WasConfirmed
<1> HIDE DEF kept
<1>7. \A f \in r.entities : \E e \in kept :
        /\ f = [cnpj |-> e.cnpj, id |-> e.id, confirmed |-> WasConfirmed(e, previous)]
        /\ f.cnpj = e.cnpj /\ f.id = e.id /\ f.confirmed = WasConfirmed(e, previous)
        /\ f \in Entity
  BY <1>2, <1>4, <1>6 DEF Entity
<1>8. r \in Entries
  <2>1. r = [entities |-> r.entities, expansion |-> r.expansion]
    BY DEF Resolved, Entry
  <2>2. r.entities \subseteq Entity BY <1>7
  <2>3. r.expansion \in {"unresolved", "partial", "complete"} BY <1>5
  <2> HIDE DEF r
  <2> QED BY <2>1, <2>2, <2>3 DEF Entries
<1>9. \A e \in r.entities : e.cnpj \in Expand[s] BY <1>2, <1>7
<1>10. \A e \in r.entities : e.confirmed => <<e.id, e.cnpj>> \in known
  <2> SUFFICES ASSUME NEW f \in r.entities, f.confirmed PROVE <<f.id, f.cnpj>> \in known
    OBVIOUS
  <2>1. PICK e \in kept :
          f.cnpj = e.cnpj /\ f.id = e.id /\ f.confirmed = WasConfirmed(e, previous)
    BY <1>7
  <2>2. PICK p \in previous : p.id = e.id /\ p.cnpj = e.cnpj /\ p.confirmed
    BY <2>1 DEF WasConfirmed
  <2> QED BY <2>1, <2>2
<1>11. \A e, f \in r.entities : e.id = f.id => e = f
  <2> SUFFICES ASSUME NEW e \in r.entities, NEW f \in r.entities, e.id = f.id PROVE e = f
    OBVIOUS
  <2> HIDE DEF r
  <2> QED BY <1>3, <1>7
<1>12. r.expansion = "complete" => Expand[s] \subseteq {e.cnpj : e \in r.entities}
  <2> SUFFICES ASSUME r.expansion = "complete", NEW c \in Expand[s]
               PROVE  \E f \in r.entities : f.cnpj = c
    OBVIOUS
  <2>1. PICK e \in kept : e.cnpj = c BY <1>1, <1>5
  <2> DEFINE f == [cnpj |-> e.cnpj, id |-> e.id, confirmed |-> WasConfirmed(e, previous)]
  <2>2. f \in r.entities /\ f.cnpj = c BY <1>4, <2>1
  <2> QED BY <2>2
<1>13. \A e \in previous : \A f \in r.entities :
         e.confirmed /\ f.cnpj = e.cnpj /\ f.id = e.id => f.confirmed
  <2> SUFFICES ASSUME NEW p \in previous, NEW f \in r.entities,
                      p.confirmed, f.cnpj = p.cnpj, f.id = p.id
               PROVE  f.confirmed
    OBVIOUS
  <2>1. PICK e \in kept :
          f.cnpj = e.cnpj /\ f.id = e.id /\ f.confirmed = WasConfirmed(e, previous)
    BY <1>7
  <2>2. WasConfirmed(e, previous) BY <2>1 DEF WasConfirmed
  <2> QED BY <2>1, <2>2
<1> QED BY <1>8, <1>9, <1>10, <1>11, <1>12, <1>13 DEF SoundEntry
-----------------------------------------------------------------------------
LEMMA SoundGrows ==
  ASSUME NEW f, NEW known, NEW more, Sound(f, known), known \subseteq more
  PROVE  Sound(f, more)
BY DEF Sound, SoundEntry

(* One entry of a sound copy is replaced by a sound one.                   *)
LEMMA SoundExcept ==
  ASSUME NEW f, NEW known, NEW s \in Scopes, NEW r \in Entries,
         IsContents(f), Sound(f, known), SoundEntry(s, r, known)
  PROVE  /\ IsContents([f EXCEPT ![s] = r])
         /\ Sound([f EXCEPT ![s] = r], known)
         /\ DOMAIN [f EXCEPT ![s] = r] = DOMAIN f
<1> DEFINE g == [f EXCEPT ![s] = r]
<1>1. DOMAIN g = DOMAIN f /\ \A t \in DOMAIN f : g[t] = IF t = s THEN r ELSE f[t]
  OBVIOUS
<1> HIDE DEF g
<1>2. IsContents(g) BY <1>1 DEF IsContents
<1>3. Sound(g, known) BY <1>1 DEF Sound
<1> QED BY <1>1, <1>2, <1>3 DEF g

(* A new entry has nothing to answer for.                                  *)
LEMMA FreshIsSound ==
  ASSUME NEW s, NEW known
  PROVE  Fresh \in Entries /\ SoundEntry(s, Fresh, known)
BY DEF Fresh, Entries, SoundEntry

LEMMA BlankIsSound ==
  ASSUME NEW known, NEW f
  PROVE  /\ IsContents(Blank) /\ Sound(Blank, known) /\ DOMAIN Blank = {}
         /\ KeepsConfirmations(f, Blank)
<1>1. DOMAIN Blank = {} BY DEF Blank
<1> QED BY <1>1 DEF IsContents, Sound, KeepsConfirmations

LEMMA ScopesInitially == Init => ScopesInv
<1> SUFFICES ASSUME Init PROVE ScopesInv
  OBVIOUS
<1> USE DEF Init
<1>1. DOMAIN file = Scopes /\ \A s \in Scopes : file[s] = Fresh
  OBVIOUS
<1>2. IsContents(file) /\ Sound(file, proven)
  BY <1>1, FreshIsSound DEF IsContents, Sound
<1>3. /\ IsContents(mem) /\ IsContents(base) /\ IsContents(cmem) /\ IsContents(cbase)
      /\ Sound(mem, proven) /\ Sound(cmem, proven)
      /\ KeepsConfirmations(base, mem) /\ KeepsConfirmations(cbase, cmem)
  BY BlankIsSound
<1>4. DOMAIN mem = {} BY BlankIsSound
<1>5. ScopesTypeOK
  <2>1. edits \in 0..MaxEdits BY ScopesAssumption
  <2>2. row \in [Docs -> {"new", "queued", "abandoned", "available"}] OBVIOUS
  <2>3. under \in [Docs -> Scopes \cup {None}] OBVIOUS
  <2> QED BY <1>2, <1>3, <2>1, <2>2, <2>3 DEF ScopesTypeOK
<1>6. AllWorkedWith BY <1>4 DEF AllWorkedWith
<1>7. NothingForeignIsFiled BY DEF NothingForeignIsFiled
<1> QED BY <1>2, <1>3, <1>5, <1>6, <1>7 DEF ScopesInv

(* The steps of a run.                                                     *)
LEMMA LoadKeepsScopes == ScopesInv /\ Load => ScopesInv'
<1> SUFFICES ASSUME ScopesInv, Load PROVE ScopesInv'
  OBVIOUS
<1> USE DEF ScopesInv, Load, command, filed
<1>1. KeepsConfirmations(file, file)
  BY DEF Sound, SoundEntry, KeepsConfirmations
<1>2. ScopesTypeOK' BY DEF ScopesTypeOK
<1>3. AllWorkedWith' BY DEF AllWorkedWith
<1> QED BY <1>1, <1>2, <1>3 DEF NothingForeignIsFiled

LEMMA SyncKeepsScopes ==
  ASSUME ScopesInv, NEW s \in Scopes, NEW picks \in Findings[s], Sync(s, picks)
  PROVE  ScopesInv'
<1> DEFINE r == IF mem[s].entities # {} THEN mem[s] ELSE Resolved(picks, {})
<1> USE DEF ScopesInv, Sync, command, filed
<1>0. s \in todo /\ s \in DOMAIN mem /\ mem[s] \in Entries
  <2>1. (CHOOSE t \in todo : TRUE) \in todo BY DEF Sync
  <2> QED BY <2>1 DEF Foremost, ScopesTypeOK, IsContents
<1>1. r \in Entries /\ SoundEntry(s, r, proven)
  <2>1. CASE mem[s].entities # {} BY <1>0, <2>1 DEF Sound
  <2>2. CASE mem[s].entities = {}
    <3>1. {} \in SUBSET Entity /\ \A e \in {} : e.confirmed => <<e.id, e.cnpj>> \in proven
      OBVIOUS
    <3>2. Resolved(picks, {}) \in Entries /\ SoundEntry(s, Resolved(picks, {}), proven)
      BY <3>1, ResolvedEntry
    <3> QED BY <2>2, <3>2
  <2> QED BY <2>1, <2>2
<1>2. \A e \in mem[s].entities : e \in r.entities
  OBVIOUS
<1> HIDE DEF r
<1>3. CASE r.entities = {}
  <2>1. UNCHANGED <<mem, usable, pc, base>> BY <1>3 DEF r
  <2>2. mem[s].entities = {} BY <1>2, <1>3
  <2>3. ScopesTypeOK' BY <2>1 DEF ScopesTypeOK
  <2>4. AllWorkedWith' BY <2>1, <2>2 DEF AllWorkedWith
  <2> QED BY <2>1, <2>3, <2>4 DEF NothingForeignIsFiled
<1>4. CASE r.entities # {}
  <2>1. mem' = [mem EXCEPT ![s] = r] /\ usable' = usable \cup {s} /\ UNCHANGED <<pc, base>>
    BY <1>4 DEF r
  <2>2. IsContents(mem') /\ Sound(mem', proven) /\ DOMAIN mem' = DOMAIN mem
    BY <1>1, <2>1, SoundExcept DEF ScopesTypeOK
  <2>3. \A t \in DOMAIN mem : mem'[t] = IF t = s THEN r ELSE mem[t]
    BY <2>1
  <2>4. ScopesTypeOK' BY <1>0, <1>4, <2>1, <2>2, <2>3 DEF ScopesTypeOK
  <2>5. AllWorkedWith' BY <2>1, <2>2, <2>3 DEF AllWorkedWith
  <2>6. KeepsConfirmations(base, mem')
    <3> SUFFICES ASSUME NEW t \in DOMAIN base \cap DOMAIN mem,
                        NEW e \in base[t].entities, NEW f \in mem'[t].entities,
                        e.confirmed, f.cnpj = e.cnpj, f.id = e.id
                 PROVE  f.confirmed
      BY <1>4, <2>2, <2>3 DEF KeepsConfirmations
    <3>1. CASE mem[t].entities # {} \/ t # s
      BY <2>3, <3>1 DEF KeepsConfirmations, r
    <3>2. CASE mem[t].entities = {} /\ t = s
      BY <2>3, <3>2 DEF KeepsConfirmations, r
    <3> QED BY <3>1, <3>2
  <2> QED BY <2>1, <2>2, <2>4, <2>5, <2>6 DEF NothingForeignIsFiled
<1> QED BY <1>3, <1>4

(* A run or command at rest has nothing to answer for.                     *)
LEMMA RestKeepsScopes ==
  ASSUME ScopesInv, Rest, pc' = "idle", UNCHANGED <<edits, command, under, proven>>,
         row' \in [Docs -> {"new", "queued", "abandoned", "available"}],
         IsContents(file'), Sound(file', proven)
  PROVE  ScopesInv'
<1> USE DEF ScopesInv, Rest, command
<1>1. /\ IsContents(mem') /\ IsContents(base') /\ Sound(mem', proven)
      /\ KeepsConfirmations(base', mem') /\ DOMAIN mem' = {}
  BY BlankIsSound
<1>2. ScopesTypeOK' BY <1>1 DEF ScopesTypeOK
<1>3. AllWorkedWith' BY <1>1 DEF AllWorkedWith
<1> QED BY <1>1, <1>2, <1>3 DEF NothingForeignIsFiled

LEMMA SyncedKeepsScopes == ScopesInv /\ Synced => ScopesInv'
<1> SUFFICES ASSUME ScopesInv, Synced PROVE ScopesInv'
  OBVIOUS
<1>0. ScopesTypeOK /\ Sound(file, proven) /\ Sound(mem, proven) /\ AllWorkedWith
  BY DEF ScopesInv
<1>1. IsContents(file') /\ Sound(file', proven)
  BY <1>0 DEF Synced, Save, ScopesTypeOK
<1>2. row' \in [Docs -> {"new", "queued", "abandoned", "available"}]
  BY <1>0 DEF Synced, ScopesTypeOK
<1>3. CASE usable = {}
  <2>1. pc' = "idle" /\ Rest /\ UNCHANGED <<edits, command, under, proven>>
    BY <1>3 DEF Synced
  <2> QED BY <1>1, <1>2, <2>1, RestKeepsScopes
<1>4. CASE usable # {}
  <2>1. /\ pc' = "discover" /\ base' = (IF file = base THEN mem ELSE base) /\ todo = {}
        /\ UNCHANGED <<mem, todo, usable, edits, command, under, proven>>
    BY <1>4 DEF Synced
  <2>2. KeepsConfirmations(base', mem)
    BY <2>1 DEF ScopesInv, Sound, SoundEntry, KeepsConfirmations
  <2>3. ScopesTypeOK' BY <1>0, <1>1, <1>2, <2>1 DEF ScopesTypeOK, command
  <2>4. AllWorkedWith' BY <1>0, <2>1 DEF AllWorkedWith
  <2> QED
    BY <1>1, <2>1, <2>2, <2>3, <2>4 DEF ScopesInv, NothingForeignIsFiled, command
<1> QED BY <1>3, <1>4

LEMMA DiscoverKeepsScopes == ScopesInv /\ Discover => ScopesInv'
<1> SUFFICES ASSUME ScopesInv, Discover PROVE ScopesInv'
  OBVIOUS
<1> USE DEF ScopesInv, Discover, command
<1>1. row' \in [Docs -> {"new", "queued", "abandoned", "available"}]
  BY DEF ScopesTypeOK
<1>2. ScopesTypeOK' BY <1>1 DEF ScopesTypeOK
<1>3. AllWorkedWith' BY DEF AllWorkedWith
<1> QED BY <1>2, <1>3 DEF NothingForeignIsFiled

(* A document is filed, and what it disclosed may confirm its entity.      *)
LEMMA FetchKeepsScopes ==
  ASSUME ScopesInv, NEW d \in Docs, Fetch(d)
  PROVE  ScopesInv'
<1> USE DEF command
<1>a. PICK s \in usable : \E e \in mem[s].entities :
        /\ Accepts(mem, s, e, d) /\ pc = "fetch"
        /\ row' = [row EXCEPT ![d] = "available"] /\ under' = [under EXCEPT ![d] = s]
        /\ IF Served[d] = e.cnpj
           THEN /\ proven' = proven \cup {<<e.id, e.cnpj>>}
                /\ mem' = [mem EXCEPT ![s] = Confirm(mem[s], e)]
           ELSE UNCHANGED <<proven, mem>>
  BY DEF Fetch
<1>1. PICK e \in mem[s].entities :
        /\ Accepts(mem, s, e, d) /\ pc = "fetch"
        /\ row' = [row EXCEPT ![d] = "available"] /\ under' = [under EXCEPT ![d] = s]
        /\ IF Served[d] = e.cnpj
           THEN /\ proven' = proven \cup {<<e.id, e.cnpj>>}
                /\ mem' = [mem EXCEPT ![s] = Confirm(mem[s], e)]
           ELSE UNCHANGED <<proven, mem>>
  BY <1>a
<1>2. UNCHANGED <<pc, base, todo, usable, file, edits, asked, cmem, cbase, ctodo>>
  BY DEF Fetch
<1>3. /\ ScopesTypeOK /\ AllWorkedWith /\ NothingForeignIsFiled
      /\ Sound(file, proven) /\ Sound(mem, proven) /\ Sound(cmem, proven)
      /\ KeepsConfirmations(base, mem) /\ KeepsConfirmations(cbase, cmem)
      /\ \A t \in ctodo : t \in DOMAIN cbase /\ cmem[t] = cbase[t]
  BY DEF ScopesInv
<1>4. s \in DOMAIN mem /\ s \in Scopes /\ mem[s] \in Entries /\ e \in Entity
  BY <1>1, <1>3 DEF ScopesTypeOK, IsContents, Entries
<1> DEFINE known == proven \cup {<<e.id, e.cnpj>>}
           sure == [cnpj |-> e.cnpj, id |-> e.id, confirmed |-> TRUE]
           r == Confirm(mem[s], e)
<1>5. r = [entities |-> (mem[s].entities \ {e}) \cup {sure}, expansion |-> mem[s].expansion]
  BY DEF Confirm
<1>6. r \in Entries /\ SoundEntry(s, r, known)
  <2>1. sure \in Entity BY <1>4 DEF Entity
  <2> HIDE DEF r
  <2>2. r \in Entries BY <1>4, <1>5, <2>1 DEF Entries
  <2>3. SoundEntry(s, mem[s], proven) BY <1>3, <1>4 DEF Sound
  <2>4. sure.cnpj = e.cnpj /\ sure.id = e.id OBVIOUS
  <2> HIDE DEF sure
  <2>5. /\ \A f \in r.entities : f.cnpj \in Expand[s]
        /\ r.entities = (mem[s].entities \ {e}) \cup {sure}
        /\ r.expansion = mem[s].expansion
    BY <1>1, <1>5, <2>3, <2>4 DEF SoundEntry
  <2>6. \A f \in r.entities : f.confirmed => <<f.id, f.cnpj>> \in known
    BY <2>3, <2>4, <2>5 DEF SoundEntry
  <2>7. \A f, g \in r.entities : f.id = g.id => f = g
    BY <1>1, <2>3, <2>4, <2>5 DEF SoundEntry
  <2>8. r.expansion = "complete" => Expand[s] \subseteq {f.cnpj : f \in r.entities}
    <3> SUFFICES ASSUME r.expansion = "complete", NEW c \in Expand[s]
                 PROVE  \E f \in r.entities : f.cnpj = c
      OBVIOUS
    <3>1. PICK f \in mem[s].entities : f.cnpj = c BY <2>3, <2>5 DEF SoundEntry
    <3> QED BY <2>4, <2>5, <3>1
  <2> QED BY <2>2, <2>5, <2>6, <2>7, <2>8 DEF SoundEntry
<1>7. under' \in [Docs -> Scopes \cup {None}]
      /\ row' \in [Docs -> {"new", "queued", "abandoned", "available"}]
  BY <1>1, <1>3, <1>4 DEF ScopesTypeOK
<1>8. NothingForeignIsFiled'
  <2>1. Served[d] # None => Served[d] \in Expand[s]
    BY <1>1, <1>3, <1>4 DEF Accepts, Sound, SoundEntry
  <2>2. \A x \in Docs : under'[x] = IF x = d THEN s ELSE under[x]
    BY <1>1, <1>3 DEF ScopesTypeOK
  <2> QED BY <1>3, <2>1, <2>2 DEF NothingForeignIsFiled
<1>9. CASE Served[d] # e.cnpj
  <2>1. UNCHANGED <<proven, mem>> BY <1>1, <1>9
  <2>2. ScopesTypeOK' BY <1>2, <1>3, <1>7, <2>1 DEF ScopesTypeOK
  <2>3. AllWorkedWith' BY <1>2, <1>3, <2>1 DEF AllWorkedWith
  <2> QED BY <1>2, <1>3, <1>8, <2>1, <2>2, <2>3 DEF ScopesInv
<1>10. CASE Served[d] = e.cnpj
  <2>1. proven' = known BY <1>1, <1>10
  <2>2. mem' = [mem EXCEPT ![s] = r] BY <1>1, <1>10
  <2> HIDE DEF r
  <2>3. Sound(file, known) /\ Sound(mem, known) /\ Sound(cmem, known)
    BY <1>3, SoundGrows
  <2>4. IsContents(mem') /\ Sound(mem', known) /\ DOMAIN mem' = DOMAIN mem
    BY <1>3, <1>4, <1>6, <2>2, <2>3, SoundExcept DEF ScopesTypeOK
  <2>5. \A t \in DOMAIN mem : mem'[t] = IF t = s THEN r ELSE mem[t]
    BY <2>2
  <2>6. r.entities = (mem[s].entities \ {e}) \cup {sure}
    BY <1>5
  <2>7. ScopesTypeOK'
    <3>1. known \subseteq Ids \X Cnpjs BY <1>3, <1>4 DEF ScopesTypeOK, Entity
    <3>2. \A t \in usable' : mem'[t].entities # {}
      BY <1>2, <1>3, <2>5, <2>6 DEF ScopesTypeOK
    <3> QED BY <1>2, <1>3, <1>7, <2>1, <2>4, <3>1, <3>2 DEF ScopesTypeOK
  <2>8. AllWorkedWith' BY <1>1, <1>2, <1>3, <2>4, <2>5 DEF AllWorkedWith
  <2>9. KeepsConfirmations(base, mem')
    <3>1. sure.confirmed /\ sure.cnpj = e.cnpj /\ sure.id = e.id OBVIOUS
    <3> HIDE DEF sure
    <3> QED BY <1>3, <2>4, <2>5, <2>6, <3>1 DEF KeepsConfirmations
  <2> QED BY <1>2, <1>3, <1>8, <2>1, <2>3, <2>4, <2>7, <2>8, <2>9 DEF ScopesInv
<1> QED BY <1>9, <1>10

LEMMA FinishKeepsScopes == ScopesInv /\ (Finish \/ Die) => ScopesInv'
<1> SUFFICES ASSUME ScopesInv, Finish \/ Die PROVE ScopesInv'
  OBVIOUS
<1>1. ScopesTypeOK /\ Sound(file, proven) /\ Sound(mem, proven)
  BY DEF ScopesInv
<1>2. file' = mem \/ file' = file
  BY DEF Finish, Die, Save
<1>3. IsContents(file') /\ Sound(file', proven)
  BY <1>1, <1>2 DEF ScopesTypeOK
<1>4. Rest /\ pc' = "idle" /\ UNCHANGED <<edits, command, row, under, proven>>
  BY DEF Finish, Die, filed
<1> QED BY <1>1, <1>3, <1>4, RestKeepsScopes DEF ScopesTypeOK

(* What people and their commands do beside the run.                       *)
LEMMA AskResolveKeepsScopes ==
  ASSUME ScopesInv, NEW all \in BOOLEAN, AskResolve(all)
  PROVE  ScopesInv'
<1> USE DEF ScopesInv, AskResolve, Touch, run, filed
<1>1. KeepsConfirmations(file, file)
  BY DEF Sound, SoundEntry, KeepsConfirmations
<1>2. edits' \in 0..MaxEdits BY ScopesAssumption DEF ScopesTypeOK
<1>3. ScopesTypeOK' BY <1>2 DEF ScopesTypeOK
<1>4. AllWorkedWith' BY DEF AllWorkedWith
<1> QED BY <1>1, <1>3, <1>4 DEF NothingForeignIsFiled

LEMMA ResolveOneKeepsScopes ==
  ASSUME ScopesInv, NEW s \in Scopes, NEW picks \in Findings[s], ResolveOne(s, picks)
  PROVE  ScopesInv'
<1> DEFINE r == Resolved(picks, cmem[s].entities)
<1>0. s \in ctodo /\ s \in DOMAIN cmem /\ cmem[s] \in Entries /\ cmem[s] = cbase[s]
  <2>1. s \in ctodo
    <3>1. (CHOOSE t \in ctodo : TRUE) \in ctodo BY DEF ResolveOne
    <3> QED BY <3>1 DEF ResolveOne, Foremost
  <2> QED BY <2>1 DEF ScopesInv, ScopesTypeOK, IsContents
<1>1. /\ r \in Entries /\ SoundEntry(s, r, proven)
      /\ \A e \in cmem[s].entities : \A f \in r.entities :
           e.confirmed /\ f.cnpj = e.cnpj /\ f.id = e.id => f.confirmed
  <2>1. cmem[s].entities \in SUBSET Entity BY <1>0 DEF Entries
  <2>2. \A e \in cmem[s].entities : e.confirmed => <<e.id, e.cnpj>> \in proven
    BY <1>0 DEF ScopesInv, Sound, SoundEntry
  <2> QED BY <2>1, <2>2, ResolvedEntry
<1>2. /\ ctodo' = ctodo \ {s}
      /\ IF r.entities = {} THEN UNCHANGED cmem ELSE cmem' = [cmem EXCEPT ![s] = r]
      /\ UNCHANGED <<asked, cbase, file, edits, run, filed>>
  BY DEF ResolveOne
<1> HIDE DEF r
<1>3. AllWorkedWith' /\ NothingForeignIsFiled'
  BY <1>2 DEF ScopesInv, AllWorkedWith, NothingForeignIsFiled, run, filed
<1>4. CASE r.entities = {}
  <2>1. ScopesTypeOK' BY <1>2, <1>4 DEF ScopesInv, ScopesTypeOK, run, filed
  <2> QED BY <1>2, <1>3, <1>4, <2>1 DEF ScopesInv, run, filed
<1>5. CASE r.entities # {}
  <2>1. cmem' = [cmem EXCEPT ![s] = r] BY <1>2, <1>5
  <2>2. IsContents(cmem') /\ Sound(cmem', proven) /\ DOMAIN cmem' = DOMAIN cmem
    BY <1>1, <2>1, SoundExcept DEF ScopesInv, ScopesTypeOK
  <2>3. \A t \in DOMAIN cmem : cmem'[t] = IF t = s THEN r ELSE cmem[t]
    BY <2>1
  <2>4. ScopesTypeOK' BY <1>2, <2>2 DEF ScopesInv, ScopesTypeOK, run, filed
  <2>5. KeepsConfirmations(cbase, cmem')
    <3> SUFFICES ASSUME NEW t \in DOMAIN cbase \cap DOMAIN cmem
                 PROVE  /\ cmem'[t].entities = {} => cbase[t].entities = {}
                        /\ \A e \in cbase[t].entities : \A f \in cmem'[t].entities :
                             e.confirmed /\ f.cnpj = e.cnpj /\ f.id = e.id => f.confirmed
      BY <2>2 DEF KeepsConfirmations
    <3>1. CASE t # s BY <2>3, <3>1 DEF ScopesInv, KeepsConfirmations
    <3>2. CASE t = s BY <1>0, <1>1, <1>5, <2>3, <3>2
    <3> QED BY <3>1, <3>2
  <2>6. \A t \in ctodo' : t \in DOMAIN cbase /\ cmem'[t] = cbase[t]
    BY <1>2, <2>3 DEF ScopesInv, ScopesTypeOK
  <2> QED BY <1>2, <1>3, <2>2, <2>4, <2>5, <2>6 DEF ScopesInv, run, filed
<1> QED BY <1>4, <1>5

LEMMA EndResolveKeepsScopes ==
  ASSUME ScopesInv, NEW saving \in BOOLEAN, EndResolve(saving)
  PROVE  ScopesInv'
<1>1. /\ file' = file \/ file' = cmem
      /\ asked' = FALSE /\ cmem' = Blank /\ cbase' = Blank /\ ctodo' = {}
      /\ UNCHANGED <<edits, run, filed>>
  BY DEF EndResolve, Save
<1>2. IsContents(file') /\ Sound(file', proven)
  BY <1>1 DEF ScopesInv, ScopesTypeOK
<1>3. /\ IsContents(cmem') /\ IsContents(cbase') /\ Sound(cmem', proven)
      /\ KeepsConfirmations(cbase', cmem')
  BY <1>1, BlankIsSound
<1>4. ScopesTypeOK' BY <1>1, <1>2, <1>3 DEF ScopesInv, ScopesTypeOK, run, filed
<1>5. AllWorkedWith' /\ NothingForeignIsFiled'
  BY <1>1 DEF ScopesInv, AllWorkedWith, NothingForeignIsFiled, run, filed
<1> QED BY <1>1, <1>2, <1>3, <1>4, <1>5 DEF ScopesInv, run, filed

LEMMA AddKeepsScopes ==
  ASSUME ScopesInv, NEW s \in Scopes, Add(s)
  PROVE  ScopesInv'
<1>1. /\ DOMAIN file' = DOMAIN file \cup {s}
      /\ \A t \in DOMAIN file' : file'[t] = IF t = s THEN Fresh ELSE file[t]
      /\ edits' = edits + 1 /\ edits < MaxEdits /\ UNCHANGED <<run, command, filed>>
  BY DEF Add, Touch
<1>2. IsContents(file') /\ Sound(file', proven)
  BY <1>1, FreshIsSound DEF ScopesInv, ScopesTypeOK, IsContents, Sound
<1>3. edits' \in 0..MaxEdits
  BY <1>1, ScopesAssumption DEF ScopesInv, ScopesTypeOK
<1>4. ScopesTypeOK'
  BY <1>1, <1>2, <1>3 DEF ScopesInv, ScopesTypeOK, run, command, filed
<1>5. AllWorkedWith' /\ NothingForeignIsFiled'
  BY <1>1 DEF ScopesInv, AllWorkedWith, NothingForeignIsFiled, run, filed
<1> QED BY <1>1, <1>2, <1>4, <1>5 DEF ScopesInv, run, command, filed

LEMMA RemoveKeepsScopes ==
  ASSUME ScopesInv, NEW s \in Scopes, NEW rm \in BOOLEAN, Remove(s, rm)
  PROVE  ScopesInv'
<1>1. /\ DOMAIN file' = DOMAIN file \ {s}
      /\ \A t \in DOMAIN file' : file'[t] = file[t]
      /\ edits' = edits + 1 /\ edits < MaxEdits
      /\ UNCHANGED <<run, command, under, proven>>
  BY DEF Remove, Touch
<1>2. IsContents(file') /\ Sound(file', proven)
  BY <1>1 DEF ScopesInv, ScopesTypeOK, IsContents, Sound
<1>3. edits' \in 0..MaxEdits
  BY <1>1, ScopesAssumption DEF ScopesInv, ScopesTypeOK
<1>4. row' \in [Docs -> {"new", "queued", "abandoned", "available"}]
  BY DEF ScopesInv, ScopesTypeOK, Remove
<1>5. ScopesTypeOK'
  BY <1>1, <1>2, <1>3, <1>4 DEF ScopesInv, ScopesTypeOK, run, command
<1>6. AllWorkedWith' /\ NothingForeignIsFiled'
  BY <1>1 DEF ScopesInv, AllWorkedWith, NothingForeignIsFiled, run
<1> QED BY <1>1, <1>2, <1>5, <1>6 DEF ScopesInv, run, command

LEMMA ScopesPreserved == ScopesInv /\ [Next]_vars => ScopesInv'
<1> SUFFICES ASSUME ScopesInv, [Next]_vars PROVE ScopesInv'
  OBVIOUS
<1>1. CASE UNCHANGED vars
  BY <1>1 DEF vars, run, command, filed, ScopesInv, ScopesTypeOK, AllWorkedWith,
     NothingForeignIsFiled
<1>2. CASE RunStep \/ Die
  BY <1>2, LoadKeepsScopes, SyncKeepsScopes, SyncedKeepsScopes, DiscoverKeepsScopes,
     FetchKeepsScopes, FinishKeepsScopes DEF RunStep
<1>3. CASE Beside
  BY <1>3, AskResolveKeepsScopes, ResolveOneKeepsScopes, EndResolveKeepsScopes,
     AddKeepsScopes, RemoveKeepsScopes DEF Beside
<1> QED BY <1>1, <1>2, <1>3 DEF Next

(* Every copy of funds.yaml that may still be written back is sound.       *)
THEOREM ScopesAreSound == Spec => []ScopesInv
<1>1. Init => ScopesInv BY ScopesInitially
<1>2. ScopesInv /\ [Next]_vars => ScopesInv' BY ScopesPreserved
<1> QED BY <1>1, <1>2, PTL DEF Spec
-----------------------------------------------------------------------------
(* Every variable holds a value of its kind.                               *)
THEOREM ScopesTyped == Spec => []ScopesTypeOK
<1>1. ScopesInv => ScopesTypeOK BY DEF ScopesInv
<1> QED BY <1>1, ScopesAreSound, PTL

(* No confirmation in funds.yaml but those a served document earned.       *)
THEOREM ConfirmationsAreEarned == Spec => []ConfirmedIsEarned
<1>1. ScopesInv => ConfirmedIsEarned
  BY DEF ScopesInv, Sound, SoundEntry, ConfirmedIsEarned
<1> QED BY <1>1, ScopesAreSound, PTL

(* A scope that says complete is: one entity for each class.               *)
THEOREM CompleteIsWhole == Spec => []CompleteMeansWhole
<1>1. ScopesInv => CompleteMeansWhole
  <2> SUFFICES ASSUME ScopesInv, NEW s \in DOMAIN file, file[s].expansion = "complete"
               PROVE  /\ {e.cnpj : e \in file[s].entities} = Expand[s]
                      /\ \A e, f \in file[s].entities : e.id = f.id => e.cnpj = f.cnpj
    BY DEF CompleteMeansWhole
  <2>1. SoundEntry(s, file[s], proven) BY DEF ScopesInv, Sound
  <2>2. {e.cnpj : e \in file[s].entities} \subseteq Expand[s] BY <2>1 DEF SoundEntry
  <2> QED BY <2>1, <2>2 DEF SoundEntry
<1> QED BY <1>1, ScopesAreSound, PTL

(* Nothing is filed for a scope the registry does not expand to the CNPJ   *)
(* disclosed with it.                                                      *)
THEOREM NothingForeign == Spec => []NothingForeignIsFiled
<1>1. ScopesInv => NothingForeignIsFiled BY DEF ScopesInv
<1> QED BY <1>1, ScopesAreSound, PTL

(* What two scopes claim is neither filed nor stood down.                  *)
THEOREM ContestedDocumentsWait == Spec => ContestedWaits
<1> DEFINE Waits == \A d \in Docs : \A b, c \in Claims(mem, DOMAIN mem, d) :
              b # c /\ row[d] = "queued" /\ UNCHANGED edits => row'[d] = "queued"
<1>1. ScopesInv /\ [Next]_vars => [Waits]_vars
  <2> SUFFICES ASSUME ScopesInv, Next, NEW d \in Docs,
                      NEW b \in Claims(mem, DOMAIN mem, d),
                      NEW c \in Claims(mem, DOMAIN mem, d),
                      b # c, row[d] = "queued", UNCHANGED edits
               PROVE  row'[d] = "queued"
    OBVIOUS
  <2>1. row \in [Docs -> {"new", "queued", "abandoned", "available"}]
        /\ edits \in Int /\ AllWorkedWith
    BY DEF ScopesInv, ScopesTypeOK
  <2>2. CASE row' = row BY <2>2
  <2>3. CASE Synced BY <2>1, <2>3 DEF Synced, Keeps
  <2>4. CASE Discover BY <2>1, <2>4 DEF Discover
  <2>5. ASSUME NEW x \in Docs, Fetch(x) PROVE row'[d] = "queued"
    <3>1. row' = [row EXCEPT ![x] = "available"] /\ pc = "fetch"
      BY <2>5 DEF Fetch
    <3>2. x # d
      <4> SUFFICES ASSUME x = d PROVE FALSE
        OBVIOUS
      <4>1. \A t \in DOMAIN mem : mem[t].entities # {} => t \in usable
        BY <2>1, <3>1 DEF AllWorkedWith
      <4>2. Claims(mem, DOMAIN mem, d) \subseteq Claims(mem, usable, d)
        <5> SUFFICES ASSUME NEW q \in Claims(mem, DOMAIN mem, d)
                     PROVE  q \in Claims(mem, usable, d)
          OBVIOUS
        <5>1. PICK t \in DOMAIN mem, e \in UNION {mem[u].entities : u \in DOMAIN mem} :
                q = <<t, e>> /\ e \in mem[t].entities /\ e.id = IdOf[d]
          BY DEF Claims
        <5>2. t \in usable BY <4>1, <5>1
        <5> QED BY <5>1, <5>2 DEF Claims
      <4>3. PICK q \in Claims(mem, usable, d) :
              \A o \in Claims(mem, usable, d) : o = q
        BY <2>5 DEF Fetch, Owned
      <4> QED BY <4>2, <4>3
    <3> QED BY <2>1, <3>1, <3>2
  <2>6. ASSUME NEW s \in Scopes, NEW rm \in BOOLEAN, Remove(s, rm) PROVE FALSE
    BY <2>1, <2>6 DEF Remove, Touch
  <2>7. Load \/ Finish \/ Die \/ (\E s \in Scopes : \E picks \in Findings[s] : Sync(s, picks))
        => row' = row
    BY DEF Load, Finish, Die, Sync, filed
  <2>8. (\/ \E all \in BOOLEAN : AskResolve(all)
         \/ \E s \in Scopes : \E picks \in Findings[s] : ResolveOne(s, picks)
         \/ \E saving \in BOOLEAN : EndResolve(saving)
         \/ \E s \in Scopes : Add(s)) => row' = row
    BY DEF AskResolve, ResolveOne, EndResolve, Add, filed
  <2> QED BY <2>2, <2>3, <2>4, <2>5, <2>6, <2>7, <2>8 DEF Next, RunStep, Beside
<1> QED BY <1>1, ScopesAreSound, PTL DEF Spec, ContestedWaits

(* A confirmation survives every rewriting of funds.yaml.                  *)
THEOREM ConfirmationsSurvive == Spec => ConfirmationsStay
<1> DEFINE Stay == \A s \in DOMAIN file \cap DOMAIN file' :
              \A e \in file[s].entities : \A f \in file'[s].entities :
                e.confirmed /\ f.cnpj = e.cnpj /\ f.id = e.id => f.confirmed
<1>1. ScopesInv /\ [Next]_vars => [Stay]_vars
  <2> SUFFICES ASSUME ScopesInv, Next PROVE Stay
    OBVIOUS
  <2>1. \A s \in DOMAIN file : \A e, f \in file[s].entities : e.id = f.id => e = f
    BY DEF ScopesInv, Sound, SoundEntry
  <2>2. CASE file' = file BY <2>1, <2>2
  <2>3. CASE file = base /\ file' = mem
    BY <2>3 DEF ScopesInv, KeepsConfirmations
  <2>4. CASE file = cbase /\ file' = cmem
    BY <2>4 DEF ScopesInv, KeepsConfirmations
  <2>5. Synced \/ Finish => file' = file \/ (file = base /\ file' = mem)
    BY DEF Synced, Finish, Save
  <2>6. ASSUME NEW saving \in BOOLEAN, EndResolve(saving)
        PROVE  file' = file \/ (file = cbase /\ file' = cmem)
    BY <2>6 DEF EndResolve, Save
  <2>7. ASSUME NEW s \in Scopes, Add(s) PROVE Stay
    <3>1. \A t \in DOMAIN file : file'[t] = IF t = s THEN Fresh ELSE file[t]
      BY <2>7 DEF Add
    <3> QED BY <2>1, <3>1 DEF Fresh
  <2>8. ASSUME NEW s \in Scopes, NEW rm \in BOOLEAN, Remove(s, rm) PROVE Stay
    <3>1. \A t \in DOMAIN file' : file'[t] = file[t]
      BY <2>8 DEF Remove
    <3> QED BY <2>1, <3>1
  <2>9. (\/ Load \/ (\E s \in Scopes : \E picks \in Findings[s] : Sync(s, picks))
         \/ Discover \/ (\E d \in Docs : Fetch(d)) \/ Die
         \/ (\E all \in BOOLEAN : AskResolve(all))
         \/ \E s \in Scopes : \E picks \in Findings[s] : ResolveOne(s, picks))
        => file' = file
    BY DEF Load, Sync, Discover, Fetch, Die, AskResolve, ResolveOne
  <2> QED
    BY <2>2, <2>3, <2>4, <2>5, <2>6, <2>7, <2>8, <2>9 DEF Next, RunStep, Beside
<1> QED BY <1>1, ScopesAreSound, PTL DEF Spec, ConfirmationsStay
=============================================================================
