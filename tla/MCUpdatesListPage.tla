--------------------------- MODULE MCUpdatesListPage ---------------------------
(***************************************************************************)
(* An instance of UpdatesListPage for TLC.                                  *)
(***************************************************************************)
EXTENDS UpdatesListPage

CONSTANTS c1, c2
===============================================================================
