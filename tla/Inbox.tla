------------------------------- MODULE Inbox --------------------------------
(***************************************************************************)
(* The index of what arrived each day (pipeline/inbox.py), written by the  *)
(* runs of Archive between their sweep and their purge, a file per day of  *)
(* arrival.  A run rewrites the indexes of its window that exist, and adds *)
(* the one of the day on which it gets there.                              *)
(***************************************************************************)
EXTENDS Archive, FiniteSetsExt

VARIABLES
  index,     \* index[day]: that day's entries, for the days that have a file
  landedOn,  \* landedOn[d]: the day of downloaded_at, 0 before it is set
  left,      \* the days the inbox has still to look at
  forDate    \* the today() of inbox.run, 0 outside it

inbox == <<index, landedOn, left, forDate>>
inboxVars == <<vars, inbox>>

Days == 1..MaxDay

InboxInit ==
  /\ Init
  /\ index = <<>> /\ landedOn = [d \in Docs |-> 0]
  /\ left = {} /\ forDate = 0

Indexed(day) == day \in DOMAIN index
-----------------------------------------------------------------------------
(* COALESCE(downloaded_at, now): the first arrival counts.                 *)
Stamp ==
  landedOn' = [d \in Docs |-> IF row'[d].landed /\ ~row[d].landed THEN today
                              ELSE landedOn[d]]

(* What the run does before the inbox and after it.                        *)
BeforeInbox ==
  /\ pc # "purge" /\ RunStep /\ ~EndSweep
  /\ Stamp /\ UNCHANGED <<index, left, forDate>>

OpenInbox ==
  /\ EndSweep
  /\ left' = (First(win)..win) \cap Days
  /\ forDate' = today
  /\ UNCHANGED <<index, landedOn>>

(* Mutant: what was replaced is left out of the index.                     *)
EntriesOfLive(day) ==
  LET arrived == {d \in Docs : landedOn[d] = day /\ ~row[d].purged
                               /\ Delivery[d] \in First(win)..win}
  IN  [live |-> {d \in arrived : row[d].state = "available"}, gone |-> {}]

(* _for_day: what arrived that day and is still in the window, split into  *)
(* what can be opened and what was replaced.                               *)
EntriesOf(day) ==
  LET arrived == {d \in Docs : landedOn[d] = day /\ ~row[d].purged
                               /\ Delivery[d] \in First(win)..win}
  IN  [live |-> {d \in arrived : row[d].state = "available"},
       gone |-> {d \in arrived : row[d].state = "superseded"}]

(* Mutants: only the day's own index is written; a day's index is never    *)
(* written again.                                                          *)
WriteTodaysIndex ==
  /\ left # {}
  /\ LET day == Min(left)
     IN  /\ left' = left \ {day}
         /\ index' = IF day = forDate
                     THEN [x \in DOMAIN index \cup {day} |->
                             IF x = day THEN EntriesOf(day) ELSE index[x]]
                     ELSE index
  /\ UNCHANGED <<vars, landedOn, forDate>>

WriteIndexOnce ==
  /\ left # {}
  /\ LET day == Min(left)
     IN  /\ left' = left \ {day}
         /\ index' = IF day = forDate /\ ~Indexed(day)
                     THEN [x \in DOMAIN index \cup {day} |->
                             IF x = day THEN EntriesOf(day) ELSE index[x]]
                     ELSE index
  /\ UNCHANGED <<vars, landedOn, forDate>>

(* One day of inbox.run: "A past day is only rewritten, never invented."   *)
WriteIndex ==
  /\ left # {}
  /\ LET day == Min(left)
     IN  /\ left' = left \ {day}
         /\ index' = IF day = forDate \/ Indexed(day)
                     THEN [x \in DOMAIN index \cup {day} |->
                             IF x = day THEN EntriesOf(day) ELSE index[x]]
                     ELSE index
  /\ UNCHANGED <<vars, landedOn, forDate>>

PurgeDirectory ==
  /\ left = {} /\ \E d \in Docs : RemoveDay(d) \/ RemoveDayFails(d)
  /\ UNCHANGED inbox

(* _purge_inbox, after the rows: the indexes of the days before the        *)
(* frontier, each of which may resist.                                     *)
PurgeInbox ==
  /\ left = {} /\ EndPurge
  /\ \E kept \in SUBSET {day \in DOMAIN index : day < First(win)} :
       index' = [day \in {x \in DOMAIN index : x >= First(win)} \cup kept |-> index[day]]
  /\ forDate' = 0
  /\ UNCHANGED <<landedOn, left>>

Dies == Crash /\ left' = {} /\ forDate' = 0 /\ UNCHANGED <<index, landedOn>>

InboxRunStep == BeforeInbox \/ OpenInbox \/ WriteIndex \/ PurgeDirectory \/ PurgeInbox

InboxNext ==
  \/ InboxRunStep
  \/ (Midnight \/ EditFunds) /\ UNCHANGED inbox
  \/ Dies

InboxSpec == InboxInit /\ [][InboxNext]_inboxVars
-----------------------------------------------------------------------------
(* Between any two steps of any run and after deaths, a link leads to a    *)
(* file, or to one a re-filing has replaced that can be read instead.  It  *)
(* may lead nowhere only where filing and index are both behind the        *)
(* frontier: the purge deletes directories first and old indexes last, and *)
(* what a death in between, or an unlink that fails, leaves of the indexes *)
(* stays until a later purge.                                              *)
LinksLead ==
  \A day \in DOMAIN index : \A d \in index[day].live :
    OnShelf(d) \/ Replaced(d) \/ (day < First(today) /\ Aged(d, today))

(* Once a run has been through its inbox, what can be read and arrived on  *)
(* a day that has an index is in it, even if it arrived after the index    *)
(* was first written; and what arrived today has an index, unless a        *)
(* midnight fell between the run's start and its inbox.                    *)
ArrivalsAreListed ==
  pc = "purge" /\ left = {} =>
    \A d \in Docs :
      /\ OnShelf(d) /\ ~Aged(d, win) /\ landedOn[d] >= First(win)
      /\ Indexed(landedOn[d]) \/ (landedOn[d] = win /\ forDate = win)
      => Indexed(landedOn[d]) /\ d \in index[landedOn[d]].live

(* "an entry which was here yesterday does not vanish unexplained": an     *)
(* entry goes only with its index or when its filing leaves the window.    *)
NothingVanishes ==
  [][\A day \in DOMAIN index \cap DOMAIN index' :
       \A d \in index[day].live \cup index[day].gone :
         \/ d \in index'[day].live \cup index'[day].gone
         \/ Aged(d, win)]_inboxVars
=============================================================================
