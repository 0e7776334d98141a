----------------------------- MODULE MCArchive ------------------------------
(***************************************************************************)
(* Filings of one entity over three days.  1 and 2 are versions of one id, *)
(* 3 re-files 2 under a new id, so that 1, 2 and 3 are a chain only rule   *)
(* R1 and rule R2 together connect.  The category text of 1 hints at no    *)
(* wanted format, so that it is declined unless it is replaced before; 4   *)
(* turns out to be of another format than its text says.                   *)
(***************************************************************************)
EXTENDS ArchiveClaims

MCDocs == 1..4
MCId == <<1, 1, 2, 3>>
MCVersion == <<1, 2, 3, 1>>
MCKey == <<"k1", "k2", "k2", "nokey">>
MCPub == <<"p", "p", "p", "q">>
MCDelivery == <<1, 1, 2, 3>>
MCEntities == {"a"}
MCEntity == <<"a", "a", "a", "a">>
MCPredicted == {2, 3, 4}
MCWanted == {1, 2, 3}
-----------------------------------------------------------------------------
(* A filing and its re-filing, delivered on the same day.                  *)
TwoDocs == 1..2
TwoId == <<1, 1>>
TwoVersion == <<1, 2>>
TwoKey == <<"k", "k">>
TwoPub == <<"p", "p">>
TwoDelivery == <<1, 1>>
TwoEntity == <<"a", "a">>
TwoPredicted == {1, 2}
=============================================================================
