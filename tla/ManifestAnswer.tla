---------------------------- MODULE ManifestAnswer ----------------------------
(***************************************************************************)
(* How the manifest endpoint renders its answers: the representation that   *)
(* is chosen from the Accept header, the parts of a multipart body, and     *)
(* where the signature goes.  Pure operators, used by DeviceUpdates.        *)
(*                                                                         *)
(* An Accept header is the set of the media types its text contains; the    *)
(* empty set is an empty header, "other" stands for every type the server   *)
(* does not know.  The body of a part is the update whose manifest it is, or *)
(* the name of a directive.                                                 *)
(***************************************************************************)
Known == {"multipart/mixed", "application/expo+json", "application/json", "*/*"}
MediaTypes == Known \cup {"other"}

\* multipart/mixed wins wherever it stands in the header.
Negotiate(accept) ==
  IF accept = {} \/ "multipart/mixed" \in accept THEN "multipart"
  ELSE IF accept \cap Known # {} THEN "json"
  ELSE "none"

\* The mutant prefers application/expo+json even where the client does not name it.
JsonContentType_Preferred(accept) == "application/expo+json"
JsonContentType(accept) ==
  IF accept = {} \/ accept \cap {"application/expo+json", "*/*"} # {}
  THEN "application/expo+json" ELSE "application/json"

Rendered(status, type, parts) == [status |-> status, type |-> type, parts |-> parts]
Part(body, signed) == [body |-> body, signed |-> signed]

BuildMultipart(bodies, signed) ==
  Rendered(200, "multipart/mixed", {Part(b, signed) : b \in bodies})

\* A single body is its own only part, signed in the header of the answer.
RespondManifest(accept, u, signed) ==
  IF Negotiate(accept) = "multipart"
  THEN BuildMultipart({u}, signed)
  ELSE Rendered(200, JsonContentType(accept), {Part(u, signed)})

NoContent == Rendered(204, "none", {})

RespondNoUpdateAvailable(accept, signed) ==
  IF Negotiate(accept) = "multipart"
  THEN BuildMultipart({"noUpdateAvailable"}, signed)
  ELSE NoContent

\* The stream has no current update: a client that reports none gets an empty body.
RespondNoUpdate(accept, reportsUpdate) ==
  IF ~reportsUpdate /\ Negotiate(accept) = "multipart"
  THEN BuildMultipart({}, FALSE)
  ELSE NoContent

-----------------------------------------------------------------------------
\* The client accepts the type of the answer, or there is no body to read.
Acceptable(accept, answer) ==
  answer.status = 204 \/ accept = {} \/ accept \cap {answer.type, "*/*"} # {}

Serves(answer, u) == \E p \in answer.parts : p.body = u

\* Every part is signed if the client expects signatures, and none is otherwise.
SignedAsExpected(expects, answer) == \A p \in answer.parts : p.signed = expects
===============================================================================
