----------------------------- MODULE MCCommands -----------------------------
(***************************************************************************)
(* A filing and its re-filing, delivered on the same day, and one day of   *)
(* retention.                                                              *)
(***************************************************************************)
EXTENDS Commands

MCDocs == 1..2
MCId == <<1, 1>>
MCVersion == <<1, 2>>
MCKey == <<"k", "k">>
MCPub == <<"p", "p">>
MCDelivery == <<1, 1>>
MCEntities == {7}
MCEntity == <<7, 7>>
-----------------------------------------------------------------------------
(* Two filings, of which the second turns out to be of a format nobody     *)
(* asked for.                                                              *)
TwoId == <<1, 2>>
TwoVersion == <<1, 1>>
TwoKey == <<"none", "none">>
TwoPub == <<"p", "q">>
TwoDelivery == <<1, 2>>
TwoWanted == {1}
=============================================================================
