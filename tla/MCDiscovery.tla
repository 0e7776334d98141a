---------------------------- MODULE MCDiscovery -----------------------------
(***************************************************************************)
(* Two entities over three days.  Both file in one minute of the first     *)
(* day; the first files again on the second, under a name that the archive *)
(* has not learnt and that is not the registered one.  The monitor looks   *)
(* back two days, so that what is listed late falls out of its window on   *)
(* the third, and the archive three.                                       *)
(***************************************************************************)
EXTENDS Discovery

MCDocs == 1..3
MCEntities == {"a", "b"}
MCEntity == <<"a", "b", "a">>
MCAt == <<1, 1, 2>>
MCDay == <<1, 1, 2>>
MCRefiles == <<0, 0, 0>>
MCSpelling == <<"a name", "b name", "a new name">>
MCLegalName == [e \in MCEntities |-> IF e = "a" THEN "a legal" ELSE "b name"]
MCFirstSpelling == [e \in MCEntities |-> IF e = "a" THEN "a name" ELSE "b name"]
=============================================================================
