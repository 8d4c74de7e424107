------------------------ MODULE MCUpdateDetailPage ------------------------
(* UpdateDetailPage with two updates; the cfg holds the bounds. *)
EXTENDS UpdateDetailPage

CONSTANTS u1, u2
==============================================================================
