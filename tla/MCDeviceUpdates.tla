--------------------------- MODULE MCDeviceUpdates ---------------------------
(***************************************************************************)
(* Instances of DeviceUpdates for TLC.                                      *)
(***************************************************************************)
EXTENDS DeviceUpdates, TLC

CONSTANTS r1, r2, u1, u2, u3, d1, d2, ios, android, v1

\* The update rows of one stream are alike, and so are the admin request slots; u3 is
\* the one row of a second stream.
AlikeButLast == Permutations(Updates \ {u3}) \cup Permutations(Requests)

OneStream == [u \in Updates |-> ios]
LastApart == [u \in Updates |-> IF u = u3 THEN android ELSE ios]
AllIos == [d \in Devices |-> ios]
IosAndAndroid == [d \in Devices |-> IF d = d1 THEN ios ELSE android]

\* d1 sends what expo-updates sends, d2 is a client that reads application/json only.
Accepts ==
  [d \in Devices |->
     IF d = d1 THEN {"multipart/mixed", "application/expo+json", "application/json"}
               ELSE {"application/json"}]
OneVersion == [s \in Streams |-> v1]
==============================================================================
