---------------------------- MODULE DeviceUpdates ----------------------------
(***************************************************************************)
(* Devices asking the manifest endpoint for their stream's current update   *)
(* while admin requests publish and delete (UpdateStreams).                 *)
(*                                                                         *)
(* A manifest request reads the runtime version, creates it when it is new, *)
(* reads the current update and, when the device expects a signature, the   *)
(* signing key; each is one SQL statement and one action.  The request has  *)
(* well-formed headers, an acceptable representation and an active app: it  *)
(* is refused before any of these reads otherwise.  The device is external: *)
(* it has one request at a time, reports the update it runs, and runs what  *)
(* it is served.  The key is the app's newest row (SigningKeys).            *)
(***************************************************************************)
EXTENDS UpdateStreams, ManifestAnswer

CONSTANTS
  Devices,
  StreamOfDevice,  \* the stream a device asks for
  Versions,        \* runtime versions
  VersionOf,       \* the runtime version of a stream
  Expecting,       \* devices that send expo-expect-signature
  AcceptOf,        \* what a device's Accept header names
  MaxKeyChanges,   \* bound: changes of the signing key
  MaxFailures      \* bound: failed statements and lost answers

ASSUME DevicesAssumption ==
  /\ StreamOfDevice \in [Devices -> Streams]
  /\ VersionOf \in [Streams -> Versions]
  /\ Expecting \subseteq Devices
  /\ AcceptOf \in [Devices -> SUBSET MediaTypes]
  /\ \A d \in Devices : Negotiate(AcceptOf[d]) # "none"
  /\ "noUpdateAvailable" \notin Updates
  /\ MaxKeyChanges \in Nat
  /\ MaxFailures \in Nat

VARIABLES
  versions,    \* runtime versions that have a row
  signing,     \* the app's newest key: "enabled", or "unusable" if it is disabled or missing
  at,          \* [Devices -> statement the device's request executes next]
  running,     \* [Devices -> update the device runs], NoUpdate for the embedded one
  offered,     \* [Devices -> update the request serves]
  answer,      \* [Devices -> its answer, as it is rendered]
  observed,    \* devices whose request, until it ends, has its manifest_requests row
  keyChanges,  \* number of changes of the signing key
  failures     \* number of failed statements and lost answers

deviceVars == <<versions, signing, at, running, offered, answer, observed, keyChanges, failures>>
allVars == <<vars, deviceVars>>

Statements == {"findVersion", "insertVersion", "findUpdate", "sign"}

DeviceTypeOK ==
  /\ versions \subseteq Versions
  /\ signing \in {"unusable", "enabled"}
  /\ at \in [Devices -> Statements \cup {"idle", "answered"}]
  /\ running \in [Devices -> Updates \cup {NoUpdate}]
  /\ offered \in [Devices -> Updates \cup {NoUpdate}]
  /\ DOMAIN answer = Devices
  /\ observed \subseteq Devices
  /\ \A d \in Devices :
       /\ offered[d] # NoUpdate => at[d] \in {"sign", "answered"}
       /\ at[d] = "sign" => d \in Expecting /\ offered[d] # NoUpdate
       /\ at[d] = "findUpdate" => VersionOf[StreamOfDevice[d]] \in versions
  /\ \A u \in Updates : status[u] # "none" => VersionOf[StreamOf[u]] \in versions
  /\ keyChanges \in 0..MaxKeyChanges
  /\ failures \in 0..MaxFailures

-----------------------------------------------------------------------------
DeviceInit ==
  /\ Init
  /\ versions = {}
  /\ signing = "unusable"
  /\ at = [d \in Devices |-> "idle"]
  /\ running = [d \in Devices |-> NoUpdate]
  /\ offered = [d \in Devices |-> NoUpdate]
  /\ answer = [d \in Devices |-> NoContent]
  /\ observed = {}
  /\ keyChanges = 0
  /\ failures = 0

Goto(d, location) == at' = [at EXCEPT ![d] = location]

\* The device asks, reporting the update it runs.
Ask(d) ==
  /\ at[d] = "idle"
  /\ Goto(d, "findVersion")
  /\ UNCHANGED <<vars, versions, signing, running, offered, answer, observed, keyChanges, failures>>

\* recordManifestRequest: the request goes on when the insert fails.
RecordManifestRequest(d) ==
  \/ observed' = observed \cup {d} /\ UNCHANGED failures
  \/ failures < MaxFailures /\ failures' = failures + 1 /\ UNCHANGED observed

\* response: the request is recorded and answered with a, which serves update u or none.
Respond(d, u, a) ==
  /\ RecordManifestRequest(d)
  /\ Goto(d, "answered")
  /\ offered' = [offered EXCEPT ![d] = u]
  /\ answer' = [answer EXCEPT ![d] = a]

\* The request ends: the handler returns an error, or the device has its answer.
Refuse(d) ==
  /\ Goto(d, "idle")
  /\ offered' = [offered EXCEPT ![d] = NoUpdate]
  /\ answer' = [answer EXCEPT ![d] = NoContent]
  /\ observed' = observed \ {d}

\* findOrCreateRuntimeVersion looks for the row...
FindOneByAppIdRuntimeVersion(d) == VersionOf[StreamOfDevice[d]] \in versions

FindVersion(d) ==
  /\ at[d] = "findVersion"
  /\ Goto(d, IF FindOneByAppIdRuntimeVersion(d) THEN "findUpdate" ELSE "insertVersion")
  /\ UNCHANGED <<vars, versions, signing, running, offered, answer, observed, keyChanges, failures>>

\* ...and inserts it.  When another request has inserted it in the meantime the
\* unique constraint refuses and the row is looked up again: version rows are never
\* removed.  The mutant gives up, as the finalize request does.
InsertVersion_GiveUp(d) ==
  /\ at[d] = "insertVersion"
  /\ IF VersionOf[StreamOfDevice[d]] \in versions
     THEN Refuse(d) /\ UNCHANGED versions
     ELSE /\ versions' = versions \cup {VersionOf[StreamOfDevice[d]]}
          /\ Goto(d, "findUpdate")
          /\ UNCHANGED <<offered, answer, observed>>
  /\ UNCHANGED <<vars, signing, running, keyChanges, failures>>
InsertVersion(d) ==
  /\ at[d] = "insertVersion"
  /\ versions' = versions \cup {VersionOf[StreamOfDevice[d]]}
  /\ Goto(d, "findUpdate")
  /\ UNCHANGED <<vars, signing, running, offered, answer, observed, keyChanges, failures>>

\* signIfExpected is called for a manifest, and for the directive of a multipart
\* answer that there is no update; a JSON client gets 204 and no body.  The mutant
\* does not ask whether a signature is expected.
Signed_Always(d, u) == u # running[d] \/ Negotiate(AcceptOf[d]) = "multipart"
Signed(d, u) ==
  d \in Expecting /\ (u # running[d] \/ Negotiate(AcceptOf[d]) = "multipart")

\* Is the current update the one the device reports?  The mutant takes a device that
\* reports none for one that has nothing to update.
UpToDate_Silent(d, u) == running[d] \in {u, NoUpdate}
UpToDate(d, u) == u = running[d]

Serve(d, u, signed) ==
  IF UpToDate(d, u)
  THEN Respond(d, NoUpdate, RespondNoUpdateAvailable(AcceptOf[d], signed))
  ELSE Respond(d, u, RespondManifest(AcceptOf[d], u, signed))

\* Manifest: the current update, if any, is served unless the device runs it.
FindUpdate(d) ==
  /\ at[d] = "findUpdate"
  /\ \/ /\ FindLatestPublished(StreamOfDevice[d]) = {}
        /\ Respond(d, NoUpdate, RespondNoUpdate(AcceptOf[d], running[d] # NoUpdate))
     \/ \E u \in FindLatestPublished(StreamOfDevice[d]) :
          IF Signed(d, u)
          THEN /\ Goto(d, "sign")
               /\ offered' = [offered EXCEPT ![d] = u]
               /\ UNCHANGED <<answer, observed, failures>>
          ELSE Serve(d, u, FALSE)
  /\ UNCHANGED <<vars, versions, signing, running, keyChanges>>

\* signIfExpected: no usable key is an error.  In the mutant it is an unsigned answer.
Sign_Degrades(d) ==
  /\ at[d] = "sign"
  /\ Serve(d, offered[d], signing = "enabled")
  /\ UNCHANGED <<vars, versions, signing, running, keyChanges>>
Sign(d) ==
  /\ at[d] = "sign"
  /\ IF signing = "enabled" THEN Serve(d, offered[d], TRUE)
                            ELSE Refuse(d) /\ UNCHANGED failures
  /\ UNCHANGED <<vars, versions, signing, running, keyChanges>>

\* A statement of the request fails.
Fail(d) ==
  /\ at[d] \in Statements
  /\ failures < MaxFailures
  /\ failures' = failures + 1
  /\ Refuse(d)
  /\ UNCHANGED <<vars, versions, signing, running, keyChanges>>

\* The device can read the answer, and trusts it.
Understood(d) ==
  Acceptable(AcceptOf[d], answer[d]) /\ SignedAsExpected(d \in Expecting, answer[d])

\* The device takes the answer: it downloads the update it is served, and runs it.
Install(d) ==
  /\ at[d] = "answered"
  /\ running' = [running EXCEPT ![d] = IF Understood(d) /\ offered[d] \in Updates
                                          /\ Serves(answer[d], offered[d])
                                       THEN offered[d] ELSE running[d]]
  /\ Refuse(d)
  /\ UNCHANGED <<vars, versions, signing, keyChanges, failures>>

\* The answer is lost, or one of the update's downloads fails.
Lose(d) ==
  /\ at[d] = "answered"
  /\ failures < MaxFailures
  /\ failures' = failures + 1
  /\ Refuse(d)
  /\ UNCHANGED <<vars, versions, signing, running, keyChanges>>

DeviceStep(d) ==
  Ask(d) \/ FindVersion(d) \/ InsertVersion(d) \/ FindUpdate(d) \/ Sign(d) \/ Install(d)

\* Finalize creates the runtime version of the update it is going to insert.
CreateVersion(v) ==
  /\ versions' = versions \cup {v}
  /\ UNCHANGED <<vars, signing, at, running, offered, answer, observed, keyChanges, failures>>

\* The app's newest key row is inserted, switched or deleted.
ChangeKey(s) ==
  /\ s # signing
  /\ keyChanges < MaxKeyChanges
  /\ keyChanges' = keyChanges + 1
  /\ signing' = s
  /\ UNCHANGED <<vars, versions, at, running, offered, answer, observed, failures>>

\* A step of UpdateStreams; a row is inserted under its runtime version.
AdminStep ==
  /\ Next
  /\ \A u \in Updates :
       status[u] = "none" /\ status'[u] # "none" => VersionOf[StreamOf[u]] \in versions
  /\ UNCHANGED deviceVars

DeviceNext ==
  \/ \E d \in Devices : DeviceStep(d) \/ Fail(d) \/ Lose(d)
  \/ \E v \in Versions : CreateVersion(v)
  \/ \E s \in {"unusable", "enabled"} : ChangeKey(s)
  \/ AdminStep

DeviceSpec == DeviceInit /\ [][DeviceNext]_allVars

\* A device keeps asking, a request in flight keeps executing, and an answer that
\* is not lost is taken.  Every step of a device changes `at'.
DeviceFairness == \A d \in Devices : WF_at(DeviceStep(d))
FairDeviceSpec == DeviceSpec /\ DeviceFairness

-----------------------------------------------------------------------------
\* A device never goes back to an older update, nor to the one it runs: not when
\* publishes take effect late, when updates are cleaned up or deleted between the
\* read and the answer, or when answers are lost.  Only a delete that read 'pending'
\* and took a published row of its stream makes it step back.
DevicesOnlyAdvance ==
  [][\A d \in Devices :
       (running'[d] # running[d] /\ running[d] # NoUpdate)
       => \/ publishedAt[running'[d]] > publishedAt[running[d]]
          \/ \E u \in raced : StreamOf[u] = StreamOfDevice[d]]_allVars

\* Concurrent first requests for a runtime version are all answered, and every request
\* that is answered is recorded: one ends otherwise only when one of its statements
\* fails, or when it expects a signature and no key is usable.
RefusedForAReason ==
  [][\A d \in Devices :
       /\ at[d] \in Statements
       /\ at'[d] = "idle" \/ (at'[d] = "answered" /\ d \notin observed')
       => \/ failures' # failures
          \/ d \in Expecting /\ signing # "enabled"]_allVars

\* Whatever the key does between the statements of a request, its answer has a type that
\* the device accepts, carries the manifest of the update it serves and nothing else, and
\* is signed as a whole if the device expects signatures, and not at all otherwise.
AnswersFit ==
  \A d \in Devices :
    at[d] = "answered" =>
      /\ Understood(d)
      /\ offered[d] # NoUpdate => answer[d].parts = {Part(offered[d], d \in Expecting)}
      /\ offered[d] = NoUpdate => \A p \in answer[d].parts : p.body \notin Updates

\* Once a stream's current update no longer changes, every device of the stream
\* comes to run it and keeps running it, provided that the key it needs is there to
\* stay.
DevicesConverge ==
  \A d \in Devices, u \in Updates :
    <>[](/\ FindLatestPublished(StreamOfDevice[d]) = {u}
         /\ d \in Expecting => signing = "enabled")
    => <>[](running[d] = u)
==============================================================================
