----------------------------- MODULE MCSigningKeys -----------------------------
(***************************************************************************)
(* Instances of SigningKeys for TLC.                                        *)
(***************************************************************************)
EXTENDS SigningKeys, TLC

\* Key ids are alike, and so are the request slots.
Alike == Permutations(KeyIds) \cup Permutations(Requests)
================================================================================
