---------------------------- MODULE MCAssetReclaim ----------------------------
(***************************************************************************)
(* Instances of AssetReclaim for TLC.                                       *)
(***************************************************************************)
EXTENDS AssetReclaim, TLC

CONSTANTS a1, a2, m1, m2

\* Two manifests that share an asset: an update of the second may pin, or lose,
\* an asset of the first.
SharedContent == [m \in Manifests |-> IF m = m1 THEN {a1, a2} ELSE {a2}]

Alike == Permutations(Updates) \cup Permutations(Publishers)
===============================================================================
