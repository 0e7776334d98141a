------------------------------ MODULE MCInbox -------------------------------
(***************************************************************************)
(* A filing and its re-filing, delivered a day apart; a filing whose       *)
(* content turns out to be of a format nobody asked for; and one that is   *)
(* declined by its hint.                                                   *)
(***************************************************************************)
EXTENDS Inbox

MCDocs == 1..4
MCId == <<1, 1, 2, 3>>
MCVersion == <<1, 2, 1, 1>>
MCKey == <<"k", "k", "none", "none">>
MCPub == <<"p", "p", "q", "r">>
MCDelivery == <<1, 2, 3, 3>>
MCEntities == {"a"}
MCEntity == <<"a", "a", "a", "a">>
MCPredicted == {1, 2, 3}
MCWanted == {1, 2}
=============================================================================
