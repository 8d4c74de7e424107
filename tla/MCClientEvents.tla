---------------------------- MODULE MCClientEvents ----------------------------
(***************************************************************************)
(* An instance of ClientEvents, and of AppTokens within it, for TLC.        *)
(***************************************************************************)
EXTENDS ClientEvents, TLC

CONSTANTS a1, a2, t1, q1, q2, e1, e2, d1, m1, m2, k1, k2, k3

\* Request slots are alike, and so are the attempts to deliver e1.
AlikeSlots == Permutations(Requests) \cup Permutations({k1, k2})

TokenApps == [t \in Tokens |-> a1]
OldEventLast == [k \in Attempts |-> IF k = k3 THEN e2 ELSE e1]
EventApps == [e \in Events |-> a1]
OneDevice == [e \in Events |-> d1]

\* Both events report m1: e1 comes from a client that has the field manifestUuid, and
\* names the update it still runs as well, e2 from an old one.
AllReportM1 == [e \in Events |-> m1]
NewField == [e \in Events |-> IF e = e1 THEN m1 ELSE NoManifest]
OldField == [e \in Events |-> IF e = e1 THEN m2 ELSE m1]
===============================================================================
