---------------------------- MODULE MCScanNewest ----------------------------
(***************************************************************************)
(* Eight filings in four minutes, two rows a page; 7 re-files 4, of its    *)
(* own minute, and 8 re-files 6, so that a read can see one filing come    *)
(* and another go between two pages.  Rows of one minute come in any       *)
(* order, anew for every request.                                          *)
(***************************************************************************)
EXTENDS ScanNewest

MCFilings == 1..8
MCAt == <<1, 2, 2, 3, 3, 3, 3, 4>>
MCRefiles == <<0, 0, 0, 0, 0, 0, 4, 6>>

(* One malformed row by itself, one that shares its minute with a good one *)
MCMalformed == {1, 3}
MinusOne == -1
=============================================================================
