-------------------------- MODULE FundsFileProofs ---------------------------
(***************************************************************************)
(* No edit a person saved is lost, for any writers, commands and edits.    *)
(* A writer that has looked and is about to replace the file knows of      *)
(* every edit that is kept, but for those saved since it looked, and those *)
(* are the raced ones; a writer that is about to write the template has    *)
(* seen no file, so that whatever is kept by then is raced.                *)
(***************************************************************************)
EXTENDS FundsFile, TLAPS

KeptIsKnown ==
  /\ file = None => kept = {}
  /\ file.edits \subseteq kept
  /\ \A w \in Writers : step[w] = "absent" => kept \subseteq raced
  /\ \A w \in Writers : step[w] = "checked" => kept \ raced \subseteq source[w].edits

(* What a writer has in hand came from a file, or is its own.              *)
DocsAreReal ==
  \A w \in Writers :
    /\ step[w] \in {"read", "loaded", "staged", "checked"} => file # None
    /\ step[w] \in {"loaded", "staged", "checked"} =>
         doc[w] \in Contents /\ source[w] \in Contents

FundsInv == TypeOK /\ DocsAreReal /\ KeptIsKnown /\ NoEditIsLost

-----------------------------------------------------------------------------
LEMMA NoneIsNoContent == None \notin Contents
BY FundsAssumption DEF None, Contents

LEMMA FundsInitially == Init => FundsInv
BY DEF Init, FundsInv, TypeOK, DocsAreReal, KeptIsKnown, NoEditIsLost, None, Contents

(* A writer that does not touch the file.                                  *)
LEMMA WriterKeeps ==
  ASSUME FundsInv, NEW w \in Writers,
         Load(w) \/ Read(w) \/ Change(w) \/ Stage(w) \/ Check(w) \/ Conflict(w) \/ Leave(w)
  PROVE  FundsInv'
<1> USE DEF FundsInv, TypeOK
<1>1. UNCHANGED <<file, buffer, kept, raced>>
  BY DEF Load, Read, Change, Stage, Check, Conflict, Leave, history
<1>2. /\ \A v \in Writers \ {w} :
           step'[v] = step[v] /\ doc'[v] = doc[v] /\ source'[v] = source[v]
      /\ step' \in [Writers -> {"idle", "absent", "read", "loaded", "staged", "checked"}]
  BY DEF Load, Read, Change, Stage, Check, Conflict, Leave, Goto
<1>3. bak' \in Contents \cup {None}
  BY DEF Load, Read, Change, Stage, Check, Conflict, Leave
<1>4. /\ source' \in [Writers -> Contents \cup {None}]
      /\ doc' \in [Writers -> Contents \cup {None}]
      /\ step'[w] \in {"read", "loaded", "staged", "checked"} => file # None
      /\ step'[w] \in {"loaded", "staged", "checked"} =>
           doc'[w] \in Contents /\ source'[w] \in Contents
  <2>1. CASE Change(w)
    <3>1. doc[w] \in Contents /\ source[w] \in Contents /\ file # None
          /\ source' = source /\ step' = step
      BY <2>1 DEF Change, DocsAreReal
    <3>2. PICK d \in Contents : doc' = [doc EXCEPT ![w] = d]
      BY <2>1, <3>1 DEF Change, Contents
    <3> QED BY <2>1, <3>1, <3>2 DEF Change
  <2>2. CASE Read(w)
    BY <2>2 DEF Read, Goto, DocsAreReal
  <2>3. CASE Load(w) \/ Stage(w) \/ Check(w) \/ Conflict(w) \/ Leave(w)
    BY <2>3 DEF Load, Stage, Check, Conflict, Leave, Goto, DocsAreReal
  <2> QED BY <2>1, <2>2, <2>3
<1>5. /\ step'[w] = "absent" => step[w] = "absent" \/ file = None
      /\ step'[w] = "checked" => Check(w)
  BY DEF Load, Read, Change, Stage, Check, Conflict, Leave, Goto
<1>6. Check(w) => file = source[w] /\ source' = source
  BY DEF Check
<1>7. KeptIsKnown' /\ NoEditIsLost'
  BY <1>1, <1>2, <1>5, <1>6 DEF KeptIsKnown, NoEditIsLost, DocsAreReal
<1>8. TypeOK' /\ DocsAreReal'
  BY <1>1, <1>2, <1>3, <1>4 DEF DocsAreReal
<1> QED BY <1>7, <1>8

(* The template is written over whatever was saved since the look.         *)
LEMMA TemplateKeeps ==
  ASSUME FundsInv, NEW w \in Writers, WriteTemplate(w)
  PROVE  FundsInv'
<1> USE DEF FundsInv, TypeOK, WriteTemplate, Goto, history
<1>1. Template \in Contents /\ Template # None /\ Template.edits = {}
  BY NoneIsNoContent DEF Template, Contents
<1>2. TypeOK' /\ DocsAreReal'
  BY <1>1 DEF DocsAreReal
<1>3. KeptIsKnown' /\ NoEditIsLost'
  BY <1>1 DEF KeptIsKnown, NoEditIsLost
<1> QED BY <1>2, <1>3

(* The file is replaced, by a writer or by the editor.                     *)
LEMMA ReplaceKeeps ==
  ASSUME FundsInv, NEW w \in Writers, Replace(w)
  PROVE  FundsInv'
<1> USE DEF FundsInv, TypeOK
<1>1. /\ doc[w] \in Contents /\ doc[w] # None /\ step[w] = "checked" /\ file # None
      /\ file' = doc[w] /\ doc' = doc /\ UNCHANGED <<bak, buffer>>
      /\ kept' = (kept \ source[w].edits) \cup doc[w].edits
  BY NoneIsNoContent DEF Replace, DocsAreReal, Remember
<1>2. /\ step'[w] = "loaded"
      /\ \A v \in Writers \ {w} : step'[v] = step[v] /\ source'[v] = source[v]
      /\ source'[w] = doc[w]
      /\ source' \in [Writers -> Contents \cup {None}]
      /\ step' \in [Writers -> {"idle", "absent", "read", "loaded", "staged", "checked"}]
  BY <1>1 DEF Replace, Goto
<1>3. doc[w].edits \subseteq Edits
  BY <1>1 DEF Contents
<1>4. kept \ raced \subseteq source[w].edits
  BY <1>1 DEF KeptIsKnown
<1>5. CASE \E v \in Writers \ {w} : step[v] \in {"absent", "checked"}
  <2>1. raced' = raced \cup (doc[w].edits \ file.edits)
    BY <1>5 DEF Replace, Remember
  <2>2. TypeOK' /\ DocsAreReal'
    BY <1>1, <1>2, <1>3, <2>1 DEF DocsAreReal
  <2>3. KeptIsKnown' /\ NoEditIsLost'
    BY <1>1, <1>2, <1>4, <2>1 DEF KeptIsKnown, NoEditIsLost
  <2> QED BY <2>2, <2>3
<1>6. CASE ~\E v \in Writers \ {w} : step[v] \in {"absent", "checked"}
  <2>1. raced' = raced \ doc[w].edits
    BY <1>6 DEF Replace, Remember
  <2>2. TypeOK' /\ DocsAreReal'
    BY <1>1, <1>2, <1>3, <2>1 DEF DocsAreReal
  <2>3. KeptIsKnown' /\ NoEditIsLost'
    BY <1>1, <1>2, <1>4, <1>6, <2>1 DEF KeptIsKnown, NoEditIsLost
  <2> QED BY <2>2, <2>3
<1> QED BY <1>5, <1>6

LEMMA EditorKeeps ==
  ASSUME FundsInv, EditorSaves
  PROVE  FundsInv'
<1> USE DEF FundsInv, TypeOK
<1>1. /\ file' \in Contents /\ buffer' = file' /\ kept' = file'.edits
      /\ UNCHANGED <<bak, step, source, doc>>
  <2>1. PICK e \in Edits \ kept :
          file' = [edits |-> buffer.edits \cup {e}, fields |-> buffer.fields \cap Writers]
    BY DEF EditorSaves
  <2>2. buffer.edits \subseteq Edits
    BY DEF Contents, None
  <2> QED BY <2>1, <2>2 DEF EditorSaves, Remember, Contents
<1>2. file' # None /\ file'.edits \subseteq Edits
  BY <1>1, NoneIsNoContent DEF Contents
<1>3. raced' = raced \cup (file'.edits \ file.edits)
      \/ /\ raced' = raced \ file'.edits
         /\ \A v \in Writers : step[v] \notin {"absent", "checked"}
  BY DEF EditorSaves, Remember
<1>4. TypeOK' /\ DocsAreReal'
  BY <1>1, <1>2, <1>3 DEF DocsAreReal
<1>5. KeptIsKnown' /\ NoEditIsLost'
  BY <1>1, <1>2, <1>3 DEF KeptIsKnown, NoEditIsLost
<1> QED BY <1>4, <1>5

LEMMA FundsGoOn == FundsInv /\ [Next]_vars => FundsInv'
<1> SUFFICES ASSUME FundsInv, [Next]_vars PROVE FundsInv'
  OBVIOUS
<1>1. CASE UNCHANGED vars
  BY <1>1 DEF vars, FundsInv, TypeOK, DocsAreReal, KeptIsKnown, NoEditIsLost
<1>2. CASE EditorOpens
  BY <1>2 DEF EditorOpens, history, FundsInv, TypeOK, DocsAreReal, KeptIsKnown, NoEditIsLost
<1> QED
  BY <1>1, <1>2, WriterKeeps, TemplateKeeps, ReplaceKeeps, EditorKeeps DEF Next

-----------------------------------------------------------------------------
(* The invariant of funds.yaml: whoever is about to write it knows of      *)
(* every edit that is kept and was not saved after the writer looked.      *)
THEOREM WritersKnowWhatIsKept == Spec => []FundsInv
BY FundsInitially, FundsGoOn, PTL DEF Spec

(* Type correctness.                                                       *)
THEOREM FundsTyped == Spec => []TypeOK
BY WritersKnowWhatIsKept, PTL DEF FundsInv

(* "without ever losing a human's edit": for any number of writers and     *)
(* edits, what somebody saved is in the file, unless it was saved between  *)
(* a writer's last look and its write.                                     *)
THEOREM EditsAreKept == Spec => []NoEditIsLost
BY WritersKnowWhatIsKept, PTL DEF FundsInv

-----------------------------------------------------------------------------
(* The backup.  A writer that finds, at its last look, the content it      *)
(* staged over finds the backup of that content too, as long as the file   *)
(* was not changed and changed back in between: every edit a command       *)
(* brings is its own, and of the writers that bring fields there are two   *)
(* at most, a run and a resolve.  With a third a content may come back     *)
(* (processes overwrite each other's fields, read the file again and write *)
(* them anew), the last look does not see it, and by then the backup may   *)
(* be of another content.                                                  *)
Resolvers == Writers \ Commands

TwoResolvers == \A u, v, w \in Resolvers : u = v \/ v = w \/ u = w

Holding(w) == step[w] \in {"loaded", "staged", "checked"}

(* A command's document adds edits to its source, the run's its fields; a  *)
(* writer that saves has something to save.                                *)
DocsGrow ==
  \A w \in Writers : Holding(w) =>
    /\ source[w].edits \subseteq doc[w].edits
    /\ w \in Commands => doc[w].fields = source[w].fields
    /\ w \notin Commands =>
         /\ doc[w].edits = source[w].edits
         /\ doc[w].fields \in {source[w].fields, source[w].fields \cup {w}}
    /\ step[w] # "loaded" => doc[w] # source[w]

(* The edits a writer has not saved yet are nowhere else.                  *)
PendingIsPrivate ==
  \A w \in Writers : Holding(w) =>
    \A e \in doc[w].edits \ source[w].edits :
      /\ e \notin kept /\ e \notin file.edits /\ e \notin buffer.edits
      /\ \A v \in Writers \ {w} : Holding(v) => e \notin doc[v].edits

(* Contents with the same edits: what is read later never falls short of  *)
(* what was read earlier by fields alone; while a resolver has read no     *)
(* fields of its own the file has none, nobody has read what it would      *)
(* write, and no two resolvers have each read only the other's.            *)
SameEdits(c, d) == c.edits = d.edits /\ c.edits # {}

Unwritten(w) == w \in Resolvers /\ Holding(w) /\ w \notin source[w].fields

FieldsOnlyGrow ==
  /\ \A u \in Writers : Holding(u) /\ SameEdits(source[u], file) =>
       /\ source[u].fields \ Resolvers = file.fields \ Resolvers
       /\ file.fields \subseteq source[u].fields => source[u].fields \subseteq file.fields
  /\ \A u, v \in Writers : Holding(u) /\ Holding(v) /\ SameEdits(source[u], source[v]) =>
       source[u].fields \ Resolvers = source[v].fields \ Resolvers
  /\ \A w \in Writers : Unwritten(w) /\ SameEdits(source[w], file) => w \notin file.fields
  /\ \A u, w \in Writers : Unwritten(w) /\ Holding(u) /\ SameEdits(source[w], source[u]) =>
       /\ ~(source[w].fields \cup {w} \subseteq source[u].fields)
       /\ Unwritten(u) => ~(u \in source[w].fields /\ w \in source[u].fields)

(* What the last look will find, and what the write relies on.             *)
BackupIsReady ==
  \A w \in Writers :
    step[w] = "checked" \/ (step[w] = "staged" /\ file = source[w]) =>
      file.edits \ raced \subseteq bak.edits

BackupInv == DocsGrow /\ PendingIsPrivate /\ FieldsOnlyGrow /\ BackupIsReady

-----------------------------------------------------------------------------
LEMMA ContentsTold ==
  ASSUME NEW c \in Contents, NEW d \in Contents, c.edits = d.edits, c.fields = d.fields
  PROVE  c = d
BY DEF Contents

(* What a writer holds is real, and it is told apart from what it was.     *)
LEMMA SavesAreNew ==
  ASSUME FundsInv, DocsGrow, NEW w \in Writers, step[w] \in {"staged", "checked"}
  PROVE  /\ w \in Commands => \E e \in doc[w].edits : e \notin source[w].edits
         /\ w \notin Commands => /\ doc[w].edits = source[w].edits
                               /\ w \notin source[w].fields
                               /\ doc[w].fields = source[w].fields \cup {w}
<1>1. doc[w] \in Contents /\ source[w] \in Contents /\ doc[w] # source[w] /\ Holding(w)
  BY DEF FundsInv, DocsAreReal, DocsGrow, Holding
<1>2. doc[w].edits # source[w].edits \/ doc[w].fields # source[w].fields
  BY <1>1, ContentsTold
<1>3. /\ source[w].edits \subseteq doc[w].edits
      /\ w \in Commands => doc[w].fields = source[w].fields
      /\ w \notin Commands =>
           /\ doc[w].edits = source[w].edits
           /\ doc[w].fields \in {source[w].fields, source[w].fields \cup {w}}
  BY <1>1 DEF DocsGrow
<1> QED BY <1>2, <1>3

LEMMA BackupInitially == Init => BackupInv
BY DEF Init, BackupInv, DocsGrow, PendingIsPrivate, FieldsOnlyGrow, BackupIsReady, Holding, Unwritten

(* A writer that neither reads nor changes nor writes anything.            *)
LEMMA WaitingKeepsBackup ==
  ASSUME FundsInv, BackupInv, NEW w \in Writers,
         Load(w) \/ Check(w) \/ Conflict(w) \/ Leave(w)
  PROVE  BackupInv'
<1> USE DEF BackupInv, Holding
<1>1. UNCHANGED <<file, bak, source, doc, buffer, kept, raced>>
  BY DEF Load, Check, Conflict, Leave, history
<1>2. /\ \A v \in Writers \ {w} : step'[v] = step[v]
      /\ Holding(w)' => Holding(w)
      /\ step'[w] # "staged"
      /\ step'[w] = "checked" => step[w] = "staged" /\ file = source[w]
  BY DEF Load, Check, Conflict, Leave, Goto, FundsInv, TypeOK
<1>3. DocsGrow'
  BY <1>1, <1>2 DEF DocsGrow
<1>4. PendingIsPrivate'
  BY <1>1, <1>2 DEF PendingIsPrivate
<1>5. FieldsOnlyGrow'
  BY <1>1, <1>2 DEF FieldsOnlyGrow, Unwritten
<1>6. BackupIsReady'
  BY <1>1, <1>2 DEF BackupIsReady
<1> QED BY <1>3, <1>4, <1>5, <1>6

(* The template has no edits: what it replaces cannot be taken for it.     *)
LEMMA TemplateKeepsBackup ==
  ASSUME FundsInv, BackupInv, NEW w \in Writers, WriteTemplate(w)
  PROVE  BackupInv'
<1> USE DEF BackupInv, Holding
<1>1. UNCHANGED <<bak, source, doc, buffer, kept, raced>> /\ file'.edits = {}
  BY DEF WriteTemplate, history, Template
<1>2. /\ \A v \in Writers \ {w} : step'[v] = step[v]
      /\ step'[w] = "read"
  BY DEF WriteTemplate, Goto, FundsInv, TypeOK
<1>3. DocsGrow'
  BY <1>1, <1>2 DEF DocsGrow
<1>4. PendingIsPrivate'
  BY <1>1, <1>2 DEF PendingIsPrivate
<1>5. FieldsOnlyGrow'
  BY <1>1, <1>2 DEF FieldsOnlyGrow, SameEdits, Unwritten
<1>6. BackupIsReady'
  BY <1>1 DEF BackupIsReady
<1> QED BY <1>3, <1>4, <1>5, <1>6

LEMMA ReadKeepsBackup ==
  ASSUME FundsInv, BackupInv, NEW w \in Writers, Read(w)
  PROVE  BackupInv'
<1> USE DEF BackupInv, Holding
<1>1. UNCHANGED <<file, bak, buffer, kept, raced>>
  BY DEF Read, history
<1>2. /\ \A v \in Writers \ {w} : step'[v] = step[v] /\ source'[v] = source[v] /\ doc'[v] = doc[v]
      /\ step'[w] = "loaded" /\ source'[w] = file /\ doc'[w] = file
  BY DEF Read, Goto, FundsInv, TypeOK
<1>3. DocsGrow'
  BY <1>1, <1>2 DEF DocsGrow
<1>4. PendingIsPrivate'
  BY <1>1, <1>2 DEF PendingIsPrivate
<1>5. FieldsOnlyGrow'
  <2>1. \A u \in Writers : Holding(u)' => (u # w /\ Holding(u)) \/ (u = w /\ source'[u] = file)
    BY <1>2
  <2>2. \A u \in Writers : Unwritten(u)' =>
          (u # w /\ Unwritten(u)) \/ (u = w /\ source'[u] = file /\ w \notin file.fields)
    BY <1>2 DEF Unwritten
  <2>3. \A u \in Writers \ {w} : source'[u] = source[u]
    BY <1>2
  <2> HIDE DEF Holding
  <2>4. \A u, x \in Writers : Unwritten(x)' /\ Holding(u)' /\ SameEdits(source[x], source[u])' =>
          /\ ~(source'[x].fields \cup {x} \subseteq source'[u].fields)
          /\ Unwritten(u)' => ~(u \in source'[x].fields /\ x \in source'[u].fields)
    <3> SUFFICES ASSUME NEW u \in Writers, NEW x \in Writers,
                        Unwritten(x)', Holding(u)', SameEdits(source[x], source[u])'
                 PROVE  /\ ~(source'[x].fields \cup {x} \subseteq source'[u].fields)
                        /\ Unwritten(u)' => ~(u \in source'[x].fields /\ x \in source'[u].fields)
      OBVIOUS
    <3>1. CASE x # w /\ u # w
      BY <2>1, <2>2, <2>3, <3>1 DEF FieldsOnlyGrow, SameEdits
    <3>2. CASE x # w /\ u = w
      BY <2>1, <2>2, <2>3, <3>2 DEF FieldsOnlyGrow, SameEdits
    <3>3. CASE x = w /\ u # w
      BY <2>1, <2>2, <2>3, <3>3 DEF FieldsOnlyGrow, SameEdits
    <3>4. CASE x = w /\ u = w
      BY <2>2, <3>4
    <3> QED BY <3>1, <3>2, <3>3, <3>4
  <2>5. \A u \in Writers : Holding(u)' /\ SameEdits(source[u], file)' =>
          /\ source'[u].fields \ Resolvers = file'.fields \ Resolvers
          /\ file'.fields \subseteq source'[u].fields => source'[u].fields \subseteq file'.fields
    BY <1>1, <2>1, <2>3 DEF FieldsOnlyGrow, SameEdits
  <2>6. \A u, v \in Writers : Holding(u)' /\ Holding(v)' /\ SameEdits(source[u], source[v])' =>
          source'[u].fields \ Resolvers = source'[v].fields \ Resolvers
    BY <1>1, <2>1, <2>3 DEF FieldsOnlyGrow, SameEdits
  <2>7. \A x \in Writers : Unwritten(x)' /\ SameEdits(source[x], file)' => x \notin file'.fields
    BY <1>1, <2>2, <2>3 DEF FieldsOnlyGrow, SameEdits
  <2> QED BY <2>4, <2>5, <2>6, <2>7 DEF FieldsOnlyGrow, Resolvers
<1>6. BackupIsReady'
  BY <1>1, <1>2 DEF BackupIsReady
<1> QED BY <1>3, <1>4, <1>5, <1>6

LEMMA ChangeKeepsBackup ==
  ASSUME FundsInv, BackupInv, NEW w \in Writers, Change(w)
  PROVE  BackupInv'
<1> USE DEF BackupInv, Holding
<1>1. UNCHANGED <<file, bak, step, source, buffer, kept, raced>> /\ step[w] = "loaded"
  BY DEF Change, history
<1>2. \A v \in Writers \ {w} : doc'[v] = doc[v]
  BY DEF Change, FundsInv, TypeOK
<1>3. /\ w \in Commands => /\ doc'[w].fields = doc[w].fields
                          /\ \E e \in Edits : /\ doc'[w].edits = doc[w].edits \cup {e}
                                            /\ e \notin kept /\ e \notin buffer.edits
                                            /\ \A v \in Writers : e \notin doc[v].edits
      /\ w \notin Commands => doc'[w].edits = doc[w].edits /\ doc'[w].fields = doc[w].fields \cup {w}
  BY DEF Change, FundsInv, TypeOK
<1>4. file.edits \subseteq kept
  BY DEF FundsInv, KeptIsKnown
<1>5. DocsGrow'
  BY <1>1, <1>2, <1>3 DEF DocsGrow
<1>6. PendingIsPrivate'
  <2>1. CASE w \in Commands
    <3>1. PICK e \in Edits : /\ doc'[w].edits = doc[w].edits \cup {e}
                             /\ e \notin kept /\ e \notin buffer.edits
                             /\ \A v \in Writers : e \notin doc[v].edits
      BY <1>3, <2>1
    <3> QED BY <1>1, <1>2, <1>4, <3>1 DEF PendingIsPrivate
  <2>2. CASE w \notin Commands
    BY <1>1, <1>2, <1>3, <2>2 DEF PendingIsPrivate
  <2> QED BY <2>1, <2>2
<1>7. FieldsOnlyGrow' /\ BackupIsReady'
  BY <1>1 DEF FieldsOnlyGrow, BackupIsReady, Unwritten
<1> QED BY <1>5, <1>6, <1>7

LEMMA StageKeepsBackup ==
  ASSUME FundsInv, BackupInv, NEW w \in Writers, Stage(w)
  PROVE  BackupInv'
<1> USE DEF BackupInv, Holding
<1>1. /\ UNCHANGED <<file, source, doc, buffer, kept, raced>> /\ bak' = file
      /\ step[w] = "loaded" /\ doc[w] # source[w]
  BY DEF Stage, history
<1>2. /\ \A v \in Writers \ {w} : step'[v] = step[v]
      /\ step'[w] = "staged"
  BY DEF Stage, Goto, FundsInv, TypeOK
<1>3. DocsGrow'
  BY <1>1, <1>2 DEF DocsGrow
<1>4. PendingIsPrivate'
  BY <1>1, <1>2 DEF PendingIsPrivate
<1>5. FieldsOnlyGrow'
  BY <1>1, <1>2 DEF FieldsOnlyGrow, Unwritten
<1>6. BackupIsReady'
  BY <1>1 DEF BackupIsReady
<1> QED BY <1>3, <1>4, <1>5, <1>6

(* A command saves an edit nobody else has, the run fields nobody else     *)
(* has: what stands there now is not what another writer has staged over.  *)
LEMMA ReplaceKeepsBackup ==
  ASSUME FundsInv, TwoResolvers, BackupInv, NEW w \in Writers, Replace(w)
  PROVE  BackupInv'
<1> USE DEF BackupInv, Holding
<1>1. /\ UNCHANGED <<bak, doc, buffer>> /\ step[w] = "checked" /\ file' = doc[w]
      /\ kept' = (kept \ source[w].edits) \cup doc[w].edits
  BY DEF Replace, Remember
<1>2. /\ \A v \in Writers \ {w} : step'[v] = step[v] /\ source'[v] = source[v]
      /\ step'[w] = "loaded" /\ source'[w] = doc[w]
  BY DEF Replace, Goto, FundsInv, TypeOK
<1>3. /\ w \in Commands => \E e \in doc[w].edits : e \notin source[w].edits
      /\ w \notin Commands => /\ doc[w].edits = source[w].edits
                            /\ w \notin source[w].fields
                            /\ doc[w].fields = source[w].fields \cup {w}
  BY <1>1, SavesAreNew
<1>4. \A v \in Writers \ {w} : Holding(v) /\ SameEdits(source[v], doc[w]) =>
        /\ Unwritten(w) /\ SameEdits(source[v], source[w])
        /\ doc[w].fields = source[w].fields \cup {w}
        /\ ~(doc[w].fields \subseteq source[v].fields)
  <2> SUFFICES ASSUME NEW v \in Writers \ {w}, Holding(v), SameEdits(source[v], doc[w])
               PROVE  /\ Unwritten(w) /\ SameEdits(source[v], source[w])
                      /\ doc[w].fields = source[w].fields \cup {w}
                      /\ ~(doc[w].fields \subseteq source[v].fields)
    OBVIOUS
  <2>1. source[v].edits \subseteq doc[v].edits /\ source[v].edits = doc[w].edits
    BY DEF DocsGrow, SameEdits
  <2>2. \A e \in doc[w].edits : e \in doc[v].edits
    BY <2>1
  <2>3. \A e \in doc[w].edits : e \in source[w].edits
    BY <1>1, <2>2 DEF PendingIsPrivate
  <2>4. w \notin Commands
    BY <1>3, <2>3
  <2>5. Unwritten(w) /\ SameEdits(source[v], source[w])
    BY <1>1, <1>3, <2>4 DEF SameEdits, Unwritten, Resolvers
  <2>6. ~(source[w].fields \cup {w} \subseteq source[v].fields)
    BY <2>5 DEF FieldsOnlyGrow, SameEdits
  <2> QED BY <1>3, <2>4, <2>5, <2>6
<1>5. DocsGrow'
  BY <1>1, <1>2 DEF DocsGrow
<1>6. PendingIsPrivate'
  BY <1>1, <1>2 DEF PendingIsPrivate
<1>7. FieldsOnlyGrow'
  <2>1. /\ \A u \in Writers \ {w} : Holding(u)' => Holding(u)
        /\ \A u \in Writers \ {w} : Unwritten(u)' => Unwritten(u)
        /\ ~Unwritten(w)'
    BY <1>2, <1>3 DEF Unwritten, Resolvers
  <2> HIDE DEF Holding
  <2>2. \A x \in Writers \ {w} : Unwritten(x) /\ SameEdits(source[x], doc[w]) =>
          x \notin doc[w].fields
    <3> SUFFICES ASSUME NEW x \in Writers \ {w}, Unwritten(x), SameEdits(source[x], doc[w]),
                        x \in doc[w].fields
                 PROVE  FALSE
      OBVIOUS
    <3>1. /\ Holding(x) /\ x \in Resolvers /\ x \notin source[x].fields
          /\ Unwritten(w) /\ w \in Resolvers /\ Holding(w)
          /\ SameEdits(source[x], source[w]) /\ x \in source[w].fields
      BY <1>4 DEF Unwritten
    <3>2. /\ source[x].fields \ Resolvers = source[w].fields \ Resolvers
          /\ ~(source[x].fields \cup {x} \subseteq source[w].fields)
          /\ w \notin source[x].fields
      BY <3>1 DEF FieldsOnlyGrow, Unwritten
    <3>3. \A z \in Resolvers : z = x \/ z = w
      BY <3>1 DEF TwoResolvers
    <3>4. \A z \in source[x].fields : z \in source[w].fields
      BY <3>1, <3>2, <3>3
    <3> QED BY <3>1, <3>2, <3>4
  <2>3. \A v \in Writers \ {w} : Holding(v) /\ SameEdits(source[v], doc[w]) =>
          source[v].fields \ Resolvers = doc[w].fields \ Resolvers
    <3> SUFFICES ASSUME NEW v \in Writers \ {w}, Holding(v), SameEdits(source[v], doc[w])
                 PROVE  source[v].fields \ Resolvers = doc[w].fields \ Resolvers
      OBVIOUS
    <3>1. /\ w \in Resolvers /\ doc[w].fields = source[w].fields \cup {w}
          /\ SameEdits(source[v], source[w]) /\ Holding(w)
      BY <1>4 DEF Unwritten
    <3>2. source[v].fields \ Resolvers = source[w].fields \ Resolvers
      BY <3>1 DEF FieldsOnlyGrow, Unwritten
    <3> QED BY <3>1, <3>2
  <2>4. \A u, x \in Writers : Unwritten(x)' /\ Holding(u)' /\ SameEdits(source[x], source[u])' =>
          /\ ~(source'[x].fields \cup {x} \subseteq source'[u].fields)
          /\ Unwritten(u)' => ~(u \in source'[x].fields /\ x \in source'[u].fields)
    <3> SUFFICES ASSUME NEW u \in Writers, NEW x \in Writers,
                        Unwritten(x)', Holding(u)', SameEdits(source[x], source[u])'
                 PROVE  /\ ~(source'[x].fields \cup {x} \subseteq source'[u].fields)
                        /\ Unwritten(u)' => ~(u \in source'[x].fields /\ x \in source'[u].fields)
      OBVIOUS
    <3>1. x # w
      BY <2>1
    <3>2. CASE u = w
      BY <1>2, <2>1, <2>2, <3>1, <3>2 DEF SameEdits
    <3>3. CASE u # w
      BY <1>2, <2>1, <3>1, <3>3 DEF FieldsOnlyGrow, SameEdits
    <3> QED BY <3>2, <3>3
  <2>5. \A u \in Writers : Holding(u)' /\ SameEdits(source[u], file)' =>
          /\ source'[u].fields \ Resolvers = file'.fields \ Resolvers
          /\ file'.fields \subseteq source'[u].fields => source'[u].fields \subseteq file'.fields
    BY <1>1, <1>2, <1>4, <2>1, <2>3 DEF SameEdits
  <2>6. \A u, v \in Writers : Holding(u)' /\ Holding(v)' /\ SameEdits(source[u], source[v])' =>
          source'[u].fields \ Resolvers = source'[v].fields \ Resolvers
    BY <1>2, <2>1, <2>3 DEF FieldsOnlyGrow, SameEdits
  <2>7. \A x \in Writers : Unwritten(x)' /\ SameEdits(source[x], file)' => x \notin file'.fields
    BY <1>1, <1>2, <2>1, <2>2 DEF SameEdits
  <2> QED BY <2>4, <2>5, <2>6, <2>7 DEF FieldsOnlyGrow, Resolvers
<1>8. BackupIsReady'
  <2> SUFFICES ASSUME NEW v \in Writers \ {w},
                      step[v] = "checked" \/ (step[v] = "staged" /\ doc[w] = source[v])
               PROVE  doc[w].edits \ raced' \subseteq bak.edits
    BY <1>1, <1>2 DEF BackupIsReady
  <2>1. CASE step[v] = "checked"
    <3>1. raced' = raced \cup (doc[w].edits \ file.edits)
      BY <2>1 DEF Replace, Remember
    <3> QED BY <2>1, <3>1 DEF BackupIsReady
  <2>2. CASE step[v] = "staged" /\ doc[w] = source[v]
    <3>1. CASE doc[w].edits = {}
      BY <3>1
    <3>2. CASE doc[w].edits # {}
      BY <1>3, <1>4, <2>2, <3>2 DEF SameEdits
    <3> QED BY <3>1, <3>2
  <2> QED BY <2>1, <2>2
<1> QED BY <1>5, <1>6, <1>7, <1>8

LEMMA EditorKeepsBackup ==
  ASSUME FundsInv, BackupInv, EditorSaves
  PROVE  BackupInv'
<1> USE DEF BackupInv, Holding
<1>1. PICK e \in Edits \ kept :
        /\ \A v \in Writers : e \notin doc[v].edits
        /\ file' = [edits |-> buffer.edits \cup {e}, fields |-> buffer.fields \cap Writers]
  BY DEF EditorSaves
<1>2. /\ UNCHANGED <<bak, step, source, doc>> /\ buffer' = file'
      /\ kept' = (kept \ kept) \cup file'.edits
      /\ file'.edits = buffer.edits \cup {e}
  BY <1>1 DEF EditorSaves, Remember
<1>3. \A v \in Writers : Holding(v) => e \notin source[v].edits
  BY <1>1 DEF DocsGrow
<1>4. DocsGrow'
  BY <1>2 DEF DocsGrow
<1>5. PendingIsPrivate'
  BY <1>1, <1>2 DEF PendingIsPrivate
<1>6. FieldsOnlyGrow'
  BY <1>2, <1>3 DEF FieldsOnlyGrow, SameEdits, Unwritten
<1>7. BackupIsReady'
  <2> SUFFICES ASSUME NEW v \in Writers,
                      step[v] = "checked" \/ (step[v] = "staged" /\ file' = source[v])
               PROVE  file'.edits \ raced' \subseteq bak.edits
    BY <1>2 DEF BackupIsReady
  <2>1. step[v] = "checked"
    BY <1>2, <1>3
  <2>2. raced' = raced \cup (file'.edits \ file.edits)
    BY <2>1 DEF EditorSaves, Remember
  <2> QED BY <2>1, <2>2 DEF BackupIsReady
<1> QED BY <1>4, <1>5, <1>6, <1>7

LEMMA BackupGoesOn ==
  ASSUME TwoResolvers
  PROVE  FundsInv /\ BackupInv /\ [Next]_vars => BackupInv'
<1> SUFFICES ASSUME FundsInv, BackupInv, [Next]_vars PROVE BackupInv'
  OBVIOUS
<1>1. CASE UNCHANGED vars
  BY <1>1 DEF vars, BackupInv, DocsGrow, PendingIsPrivate, FieldsOnlyGrow, BackupIsReady, Holding, Unwritten
<1>2. CASE EditorOpens
  <2>1. UNCHANGED <<file, bak, step, source, doc, kept, raced>> /\ buffer' = file
    BY <1>2 DEF EditorOpens, history
  <2>2. PendingIsPrivate'
    BY <2>1 DEF BackupInv, PendingIsPrivate, Holding
  <2> QED BY <2>1, <2>2 DEF BackupInv, DocsGrow, FieldsOnlyGrow, BackupIsReady, Holding, Unwritten
<1> QED
  BY <1>1, <1>2, WaitingKeepsBackup, TemplateKeepsBackup, ReadKeepsBackup, ChangeKeepsBackup,
     StageKeepsBackup, ReplaceKeepsBackup, EditorKeepsBackup DEF Next

(* Only a write takes a writer from its last look to what it has saved.    *)
LEMMA WritesHaveBackup ==
  FundsInv /\ BackupInv /\ [Next]_vars =>
    [\A w \in Writers : step[w] = "checked" /\ step'[w] = "loaded" =>
       file.edits \ raced \subseteq bak'.edits]_vars
<1> SUFFICES ASSUME FundsInv, BackupInv, Next, NEW w \in Writers,
                    step[w] = "checked", step'[w] = "loaded"
             PROVE  file.edits \ raced \subseteq bak'.edits
  BY DEF vars
<1>1. bak' = bak
  <2>1. CASE EditorOpens \/ EditorSaves
    BY <2>1 DEF EditorOpens, EditorSaves
  <2>2. ASSUME NEW v \in Writers, Stage(v)
        PROVE  FALSE
    BY <2>2 DEF Stage, Goto, FundsInv, TypeOK
  <2>3. ASSUME NEW v \in Writers,
               \/ Load(v) \/ WriteTemplate(v) \/ Read(v) \/ Change(v)
               \/ Check(v) \/ Replace(v) \/ Conflict(v) \/ Leave(v)
        PROVE  bak' = bak
    BY <2>3 DEF Load, WriteTemplate, Read, Change, Check, Replace, Conflict, Leave
  <2> QED BY <2>1, <2>2, <2>3 DEF Next
<1> QED BY <1>1 DEF BackupInv, BackupIsReady

(* The invariant of the backup, where two writers at most resolve.         *)
THEOREM BackupInvHolds ==
  ASSUME TwoResolvers
  PROVE  Spec => []BackupInv
<1>1. FundsInv /\ BackupInv /\ [Next]_vars => BackupInv'
  BY BackupGoesOn
<1> QED
  BY <1>1, BackupInitially, WritersKnowWhatIsKept, PTL DEF Spec

(* "Keep the last good version": for any number of commands and edits, and *)
(* two writers that resolve, whatever a rewrite replaces is in the backup, *)
(* but for the edits saved between the last look and the write.            *)
THEOREM ReplacedIsBackedUp ==
  ASSUME TwoResolvers
  PROVE  Spec => BackupIsWhatWasReplaced
<1>1. FundsInv /\ BackupInv /\ [Next]_vars =>
        [\A w \in Writers : step[w] = "checked" /\ step'[w] = "loaded" =>
           file.edits \ raced \subseteq bak'.edits]_vars
  BY WritesHaveBackup
<1>2. Spec => []BackupInv
  BY BackupInvHolds
<1> QED
  BY <1>1, <1>2, WritersKnowWhatIsKept, PTL DEF Spec, BackupIsWhatWasReplaced
=============================================================================
