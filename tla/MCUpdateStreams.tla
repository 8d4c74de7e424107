--------------------------- MODULE MCUpdateStreams ---------------------------
(***************************************************************************)
(* Instances of UpdateStreams for TLC.                                      *)
(***************************************************************************)
EXTENDS UpdateStreams, TLC

CONSTANTS r1, r2, u1, u2, u3, u4, u5, ios, android

\* Row ids of one stream are alike, and so are the request slots; u5 is the one
\* row of a second stream.
AlikeButLast == Permutations(Requests) \cup Permutations(Updates \ {u5})

OneStream == [u \in Updates |-> ios]
LastApart == [u \in Updates |-> IF u = u5 THEN android ELSE ios]
==============================================================================
