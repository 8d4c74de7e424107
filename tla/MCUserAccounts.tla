---------------------------- MODULE MCUserAccounts ----------------------------
(***************************************************************************)
(* An instance of UserAccounts for TLC.                                     *)
(***************************************************************************)
EXTENDS UserAccounts, TLC

CONSTANTS admin, Admin, p1, p2, q1, q2

\* The initial administrator is configured with a capital; users are created with either
\* spelling.
ToLower == (admin :> admin) @@ (Admin :> admin)
===============================================================================
