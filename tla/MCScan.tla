------------------------------- MODULE MCScan -------------------------------
(***************************************************************************)
(* Five filings, two rows a page, so that a scan takes three pages.        *)
(***************************************************************************)
EXTENDS Scan

MCFilings == 1..5
MCAt == <<1, 1, 2, 3, 3>>

(* The last two re-file an early one each.                                 *)
MCRefiles == <<0, 0, 0, 1, 2>>
=============================================================================
