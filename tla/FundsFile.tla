----------------------------- MODULE FundsFile ------------------------------
(***************************************************************************)
(* funds.yaml between a person with an editor and the processes that       *)
(* rewrite it (scope/yaml_store.py): the run, which saves what it          *)
(* resolved, and the commands add, rm and the like, which take no lock.    *)
(* What is in the file is told apart by the edits it carries: a person's,  *)
(* made in the editor or by command, and a writer's own fields.  Contents  *)
(* that differ have different digests.                                     *)
(***************************************************************************)
EXTENDS Naturals

CONSTANTS
  Writers,
  Commands,  \* the writers that act for a person
  Edits      \* bound: a person's edits

ASSUME FundsAssumption == Commands \subseteq Writers /\ "none" \notin Writers

VARIABLES
  file,    \* what stands at funds.yaml, None before it exists
  bak,     \* funds.yaml.bak
  step,    \* step[w]: "idle", "absent", "read", "loaded", "staged", "checked"
  source,  \* source[w]: the content whose digest w remembers
  doc,     \* doc[w]: the document w would write
  buffer,  \* what the editor shows
  kept,    \* history: edits somebody saved and nobody has since undone
  raced    \* history: of these, the ones saved while a writer stood between
           \* its check and the write it guards

history == <<kept, raced>>
vars == <<file, bak, step, source, doc, buffer, kept, raced>>

Contents == [edits : SUBSET Edits, fields : SUBSET Writers]
None == [edits |-> {}, fields |-> {"none"}]
Template == [edits |-> {}, fields |-> {}]

TypeOK ==
  /\ file \in Contents \cup {None} /\ bak \in Contents \cup {None}
  /\ step \in [Writers -> {"idle", "absent", "read", "loaded", "staged", "checked"}]
  /\ source \in [Writers -> Contents \cup {None}]
  /\ doc \in [Writers -> Contents \cup {None}]
  /\ buffer \in Contents \cup {None}
  /\ kept \subseteq Edits /\ raced \subseteq Edits

Init ==
  /\ file = None /\ bak = None /\ buffer = None /\ kept = {} /\ raced = {}
  /\ step = [w \in Writers |-> "idle"]
  /\ source = [w \in Writers |-> None] /\ doc = [w \in Writers |-> None]

Goto(w, s) == step' = [step EXCEPT ![w] = s]

(* Edits E are saved over old, beside the writers W: what was replaced is  *)
(* undone, what is there now is kept, and what is new is raced if one of W *)
(* is between its check and its write.                                     *)
Remember(W, old, E) ==
  /\ kept' = (kept \ old) \cup E
  /\ raced' = IF \E v \in W : step[v] \in {"absent", "checked"}
              THEN raced \cup (E \ file.edits) ELSE raced \ E
-----------------------------------------------------------------------------
(* load: the template first, if there is no file.                          *)
Load(w) ==
  /\ step[w] = "idle"
  /\ Goto(w, IF file = None THEN "absent" ELSE "read")
  /\ UNCHANGED <<file, bak, source, doc, buffer, history>>

WriteTemplate(w) ==
  /\ step[w] = "absent" /\ Goto(w, "read")
  /\ file' = Template
  /\ UNCHANGED <<bak, source, doc, buffer, history>>

Read(w) ==
  /\ step[w] = "read" /\ Goto(w, "loaded")
  /\ source' = [source EXCEPT ![w] = file] /\ doc' = [doc EXCEPT ![w] = file]
  /\ UNCHANGED <<file, bak, buffer, history>>

(* A command brings an edit of the person's, told apart from every other,  *)
(* those that another command still has in hand among them (so no content  *)
(* comes back); the run fills in its fields.                               *)
Change(w) ==
  /\ step[w] = "loaded"
  /\ IF w \in Commands
     THEN \E e \in Edits \ (kept \cup buffer.edits) :
            /\ \A v \in Writers : e \notin doc[v].edits
            /\ doc' = [doc EXCEPT ![w] = [edits |-> @.edits \cup {e}, fields |-> @.fields]]
     ELSE /\ w \notin doc[w].fields
          /\ doc' = [doc EXCEPT ![w] = [edits |-> @.edits, fields |-> @.fields \cup {w}]]
  /\ UNCHANGED <<file, bak, step, source, buffer, history>>

(* Mutant: a backup that is there already is left alone.                   *)
StageFirstBackup(w) ==
  /\ step[w] = "loaded" /\ doc[w] # source[w]
  /\ file = source[w]
  /\ bak' = (IF bak = None THEN file ELSE bak) /\ Goto(w, "staged")
  /\ UNCHANGED <<file, source, doc, buffer, history>>

(* The first look, the backup, and the temporary beside the file.          *)
Stage(w) ==
  /\ step[w] = "loaded" /\ doc[w] # source[w]
  /\ file = source[w]
  /\ bak' = file /\ Goto(w, "staged")
  /\ UNCHANGED <<file, source, doc, buffer, history>>

(* Mutant: the first look is the only one.                                 *)
CheckNothing(w) ==
  /\ step[w] = "staged"
  /\ Goto(w, "checked")
  /\ UNCHANGED <<file, bak, source, doc, buffer, history>>

(* The last look.                                                          *)
Check(w) ==
  /\ step[w] = "staged"
  /\ file = source[w]
  /\ Goto(w, "checked")
  /\ UNCHANGED <<file, bak, source, doc, buffer, history>>

Replace(w) ==
  /\ step[w] = "checked" /\ Goto(w, "loaded")
  /\ file' = doc[w] /\ source' = [source EXCEPT ![w] = doc[w]]
  /\ Remember(Writers \ {w}, source[w].edits, doc[w].edits)
  /\ UNCHANGED <<bak, doc, buffer>>

(* YamlConflictError: a command gives up; the run goes on with the digest  *)
(* it has, and meets the conflict again at its next save.                  *)
Conflict(w) ==
  /\ step[w] \in {"loaded", "staged"} /\ doc[w] # source[w]
  /\ file # source[w]
  /\ Goto(w, IF w \in Commands THEN "idle" ELSE "loaded")
  /\ UNCHANGED <<file, bak, source, doc, buffer, history>>

(* Done with the file, or dead: a temporary that stays is never read.      *)
Leave(w) ==
  /\ step[w] # "idle" /\ Goto(w, "idle")
  /\ UNCHANGED <<file, bak, source, doc, buffer, history>>
-----------------------------------------------------------------------------
EditorOpens ==
  /\ buffer # file /\ buffer' = file
  /\ UNCHANGED <<file, bak, step, source, doc, history>>

(* The editor writes what it shows and the person's latest edit, over      *)
(* whatever is there: what a person saves over, they mean to.              *)
EditorSaves ==
  /\ \E e \in Edits \ kept :
       /\ \A w \in Writers : e \notin doc[w].edits
       /\ file' = [edits |-> buffer.edits \cup {e}, fields |-> buffer.fields \cap Writers]
  /\ buffer' = file'
  /\ Remember(Writers, kept, file'.edits)
  /\ UNCHANGED <<bak, step, source, doc>>

Next ==
  \/ EditorOpens \/ EditorSaves
  \/ \E w \in Writers :
       \/ Load(w) \/ WriteTemplate(w) \/ Read(w) \/ Change(w) \/ Stage(w)
       \/ Check(w) \/ Replace(w) \/ Conflict(w) \/ Leave(w)

Spec == Init /\ [][Next]_vars
-----------------------------------------------------------------------------
(* "Reading and rewriting funds.yaml without ever losing a human's edit":  *)
(* whatever a person saved, by editor or command, is still in the file,    *)
(* unless it was saved in the instant between a writer's check and the     *)
(* write it guards.  (load tests exists() and writes the template; save    *)
(* compares the digest and replaces.  What is saved there, is overwritten.)*)
NoEditIsLost == file # None => kept \ raced \subseteq file.edits

(* "Keep the last good version": whatever a rewrite replaces, the backup   *)
(* beside it has, the edits saved in that same instant excepted.           *)
BackupIsWhatWasReplaced ==
  [][\A w \in Writers : step[w] = "checked" /\ step'[w] = "loaded" =>
       file.edits \ raced \subseteq bak'.edits]_vars
=============================================================================
