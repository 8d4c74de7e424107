------------------------- MODULE DeviceUpdates_proofs -------------------------
(***************************************************************************)
(* Proofs about DeviceUpdates, for every set of devices, streams, updates   *)
(* and admin requests.  The devices do not touch the rows: what is proved   *)
(* of UpdateStreams holds under them, and is used here.                     *)
(***************************************************************************)
EXTENDS DeviceUpdates, UpdateStreams_proofs

-----------------------------------------------------------------------------
(***************************************************************************)
(* The rows under the devices.                                              *)
(***************************************************************************)

\* A step of the composition is a step of UpdateStreams or leaves the rows alone.
LEMMA RowsStep == [DeviceNext]_allVars => [Next]_vars
  BY DEF DeviceNext, DeviceStep, AdminStep, Ask, FindVersion, InsertVersion, FindUpdate,
         Sign, Fail, Install, Lose, CreateVersion, ChangeKey, allVars

\* What holds of the rows whatever the devices do.
RowsInv == IInv /\ HasNewest

\* The invariants of UpdateStreams carry over.
LEMMA RowsInvariance == DeviceSpec => []RowsInv
<1>1. DeviceInit => RowsInv
  BY StreamsAssumption
  DEF DeviceInit, RowsInv, HasNewest, Init, IInv, TypeOK, Locations, StampsDiffer,
      ReadsConsistent, Published, DeleteKeepsMinRank, NewestStaysLive, EverPublished
<1>2. RowsInv /\ [DeviceNext]_allVars => RowsInv'
  BY RowsStep, TypeStep, StampsDifferStep, ReadsConsistentStep, DeleteKeepsMinRankStep,
     NewestStaysLiveStep, HasNewestStep DEF RowsInv, IInv
<1>3. QED
  BY <1>1, <1>2, PTL DEF DeviceSpec

\* The composition implements UpdateStreams: devices add no behaviour of the rows, and
\* neither do the runtime versions and keys, so every theorem about the streams, among
\* them that of the updates table, holds of the composition too.
THEOREM StreamsUnderDevices == DeviceSpec => Spec /\ ImplementsUpdateRows
<1>1. DeviceInit => Init
  BY DEF DeviceInit
<1>2. DeviceSpec => Spec
  BY <1>1, RowsStep, PTL DEF DeviceSpec, Spec
<1> QED BY <1>2, Refinement, PTL

-----------------------------------------------------------------------------
(***************************************************************************)
(* Type correctness.                                                        *)
(***************************************************************************)

\* To serve an update is to respond with it or with none.
LEMMA ServeResponds ==
  ASSUME NEW d \in Devices, NEW u \in Updates, NEW signed, Serve(d, u, signed)
  PROVE  \E v \in {u, NoUpdate} : \E a : Respond(d, v, a)
  BY DEF Serve

\* A device finds no update, is to have its answer signed, or is answered unsigned.
LEMMA FindUpdateCases ==
  ASSUME NEW d \in Devices, FindUpdate(d)
  PROVE  \/ Respond(d, NoUpdate, RespondNoUpdate(AcceptOf[d], running[d] # NoUpdate))
         \/ \E u \in FindLatestPublished(StreamOfDevice[d]) :
              /\ u \in Updates
              /\ \/ /\ Signed(d, u) /\ Goto(d, "sign")
                    /\ offered' = [offered EXCEPT ![d] = u]
                    /\ UNCHANGED <<answer, observed, failures>>
                 \/ ~Signed(d, u) /\ Serve(d, u, FALSE)
  BY DEF FindUpdate, FindLatestPublished

\* A device's request and what the device runs change by a step of its own only.
LEMMA OwnSteps ==
  ASSUME DeviceTypeOK, [DeviceNext]_allVars, NEW d \in Devices
  PROVE  \/ DeviceStep(d) \/ Fail(d) \/ Lose(d)
         \/ /\ at'[d] = at[d] /\ running'[d] = running[d]
            /\ offered'[d] = offered[d] /\ answer'[d] = answer[d]
<1> DEFINE Same == /\ at'[d] = at[d] /\ running'[d] = running[d]
                   /\ offered'[d] = offered[d] /\ answer'[d] = answer[d]
<1> USE DEF DeviceTypeOK, Goto, Refuse
<1>1. ASSUME NEW e \in Devices, e # d, DeviceStep(e) \/ Fail(e) \/ Lose(e) PROVE Same
  <2>1. ASSUME NEW u, NEW a, Respond(e, u, a), running' = running PROVE Same
    BY <1>1, <2>1 DEF Respond
  <2>2. CASE Ask(e) \/ FindVersion(e) \/ InsertVersion(e)
    BY <1>1, <2>2 DEF Ask, FindVersion, InsertVersion
  <2>3. CASE FindUpdate(e)
    <3>1. running' = running
      BY <2>3 DEF FindUpdate
    <3>2. ASSUME NEW u, Goto(e, "sign"), offered' = [offered EXCEPT ![e] = u],
                 answer' = answer
          PROVE  Same
      BY <1>1, <3>1, <3>2
    <3>3. ASSUME NEW u \in Updates, Serve(e, u, FALSE) PROVE Same
      BY <2>1, <3>1, <3>3, ServeResponds
    <3>4. QED
      BY <2>1, <2>3, <3>1, <3>2, <3>3, FindUpdateCases
  <2>4. CASE Sign(e)
    <3>1. running' = running /\ offered[e] \in Updates
      BY <2>4 DEF Sign
    <3>2. CASE Serve(e, offered[e], TRUE)
      BY <2>1, <3>1, <3>2, ServeResponds
    <3>3. CASE Refuse(e)
      BY <1>1, <3>1, <3>3
    <3>4. QED
      BY <2>4, <3>2, <3>3 DEF Sign
  <2>5. CASE Install(e) \/ Fail(e) \/ Lose(e)
    BY <1>1, <2>5 DEF Install, Fail, Lose
  <2>6. QED
    BY <1>1, <2>2, <2>3, <2>4, <2>5 DEF DeviceStep
<1>2. ASSUME NEW v \in Versions, CreateVersion(v) PROVE Same
  BY <1>2 DEF CreateVersion
<1>3. ASSUME NEW k \in {"unusable", "enabled"}, ChangeKey(k) PROVE Same
  BY <1>3 DEF ChangeKey
<1>4. CASE AdminStep \/ UNCHANGED allVars
  BY <1>4 DEF AdminStep, deviceVars, allVars
<1>5. QED
  BY <1>1, <1>2, <1>3, <1>4 DEF DeviceNext

\* Every step keeps the types of the devices' part.
LEMMA DeviceTypeStep == DeviceTypeOK /\ [DeviceNext]_allVars => DeviceTypeOK'
<1> SUFFICES ASSUME DeviceTypeOK, [DeviceNext]_allVars PROVE DeviceTypeOK'
  OBVIOUS
<1> USE StreamsAssumption, DevicesAssumption
    DEF DeviceTypeOK, Statements, Goto, Refuse, vars, rows
<1>1. ASSUME NEW d \in Devices, Ask(d) PROVE DeviceTypeOK'
  BY <1>1 DEF Ask
<1>2. ASSUME NEW d \in Devices, FindVersion(d) PROVE DeviceTypeOK'
  BY <1>2 DEF FindVersion, FindOneByAppIdRuntimeVersion
<1>3. ASSUME NEW d \in Devices, InsertVersion(d) PROVE DeviceTypeOK'
  BY <1>3 DEF InsertVersion
<1>4. ASSUME NEW d \in Devices, FindUpdate(d) PROVE DeviceTypeOK'
  <2>0. at[d] = "findUpdate" /\ UNCHANGED <<vars, versions, signing, running, keyChanges>>
    BY <1>4 DEF FindUpdate
  <2>1. ASSUME NEW u \in Updates \cup {NoUpdate}, NEW a, Respond(d, u, a)
        PROVE  DeviceTypeOK'
    BY <2>0, <2>1 DEF Respond, RecordManifestRequest
  <2>2. ASSUME NEW u \in FindLatestPublished(StreamOfDevice[d]), u \in Updates, Signed(d, u),
               Goto(d, "sign"), offered' = [offered EXCEPT ![d] = u],
               UNCHANGED <<answer, observed, failures>>
        PROVE  DeviceTypeOK'
    BY <2>0, <2>2 DEF Signed
  <2>3. ASSUME NEW u \in Updates, Serve(d, u, FALSE) PROVE DeviceTypeOK'
    BY <2>1, <2>3, ServeResponds
  <2>4. QED
    BY <1>4, <2>1, <2>2, <2>3, FindUpdateCases
<1>5. ASSUME NEW d \in Devices, Sign(d) PROVE DeviceTypeOK'
  <2>1. at[d] = "sign" /\ UNCHANGED <<vars, versions, signing, running, keyChanges>>
    BY <1>5 DEF Sign
  <2>2. ASSUME NEW u \in Updates \cup {NoUpdate}, NEW a, Respond(d, u, a)
        PROVE  DeviceTypeOK'
    BY <2>1, <2>2 DEF Respond, RecordManifestRequest
  <2>3. CASE Refuse(d) /\ UNCHANGED failures
    BY <2>1, <2>3
  <2>4. CASE Serve(d, offered[d], TRUE)
    BY <2>1, <2>2, <2>4, ServeResponds
  <2>5. QED
    BY <1>5, <2>3, <2>4 DEF Sign
<1>6. ASSUME NEW d \in Devices, Fail(d) PROVE DeviceTypeOK'
  BY <1>6 DEF Fail
<1>7. ASSUME NEW d \in Devices, Install(d) PROVE DeviceTypeOK'
  BY <1>7 DEF Install
<1>8. ASSUME NEW d \in Devices, Lose(d) PROVE DeviceTypeOK'
  BY <1>8 DEF Lose
<1>9. ASSUME NEW v \in Versions, CreateVersion(v) PROVE DeviceTypeOK'
  BY <1>9 DEF CreateVersion
<1>10. ASSUME NEW s \in {"unusable", "enabled"}, ChangeKey(s) PROVE DeviceTypeOK'
  BY <1>10 DEF ChangeKey
<1>11. ASSUME AdminStep PROVE DeviceTypeOK'
  BY <1>11 DEF AdminStep, deviceVars
<1>12. CASE UNCHANGED allVars
  BY <1>12 DEF allVars, deviceVars
<1>13. QED
  BY <1>1, <1>2, <1>3, <1>4, <1>5, <1>6, <1>7, <1>8, <1>9, <1>10, <1>11, <1>12
  DEF DeviceNext, DeviceStep

\* Whatever the devices and the admin requests interleave, a request that chooses an
\* update has the row of its runtime version, and one that signs was asked to.
THEOREM DeviceTypeCorrect == DeviceSpec => []DeviceTypeOK
<1>1. DeviceInit => DeviceTypeOK
  BY DevicesAssumption
  DEF DeviceInit, Init, DeviceTypeOK, Statements
<1>2. QED
  BY <1>1, DeviceTypeStep, PTL DEF DeviceSpec

-----------------------------------------------------------------------------
(***************************************************************************)
(* Requests are refused, or not recorded, for a reason.                     *)
(***************************************************************************)

\* No race between first requests for a runtime version, and no admin request, makes
\* the endpoint refuse a device or leave its request out of manifest_requests.
THEOREM Refused == DeviceSpec => RefusedForAReason
<1> DEFINE Reason == \A d \in Devices :
                       /\ at[d] \in Statements
                       /\ at'[d] = "idle" \/ (at'[d] = "answered" /\ d \notin observed')
                       => \/ failures' # failures
                          \/ d \in Expecting /\ signing # "enabled"
<1>1. DeviceTypeOK /\ [DeviceNext]_allVars => Reason
  <2> SUFFICES ASSUME DeviceTypeOK, [DeviceNext]_allVars, NEW d \in Devices,
                      at[d] \in Statements, failures' = failures,
                      at'[d] = "idle" \/ (at'[d] = "answered" /\ d \notin observed')
               PROVE  d \in Expecting /\ signing # "enabled"
    OBVIOUS
  <2> USE DEF DeviceTypeOK, Statements, Goto, Refuse
  <2>1. at'[d] # at[d]
    OBVIOUS
  <2>2. \A e \in Devices : ~Fail(e) /\ ~Lose(e)
    BY DEF Fail, Lose
  <2>3. PICK e \in Devices : DeviceStep(e)
    BY <2>1, <2>2 DEF DeviceNext, CreateVersion, ChangeKey, AdminStep, deviceVars, allVars
  <2>4. \A u, a : Respond(e, u, a) => at' = [at EXCEPT ![e] = "answered"] /\ e \in observed'
    BY <2>2 DEF Respond, RecordManifestRequest
  <2>5. \A u, signed : Serve(e, u, signed)
                         => at' = [at EXCEPT ![e] = "answered"] /\ e \in observed'
    BY <2>4 DEF Serve
  <2>6. ~Ask(e) /\ ~FindVersion(e) /\ ~InsertVersion(e) /\ ~Install(e)
    BY DEF Ask, FindVersion, InsertVersion, Install
  <2>7. ~FindUpdate(e)
    BY <2>4, <2>5 DEF FindUpdate
  <2>8. Sign(e)
    BY <2>3, <2>6, <2>7 DEF DeviceStep
  <2>9. signing # "enabled" /\ e = d
    BY <2>1, <2>5, <2>8 DEF Sign
  <2>10. QED
    BY <2>8, <2>9 DEF Sign
<1>2. QED
  BY <1>1, DeviceTypeCorrect, PTL DEF DeviceSpec, RefusedForAReason

-----------------------------------------------------------------------------
(***************************************************************************)
(* Answers fit the request.                                                 *)
(***************************************************************************)

\* What the device of an answered request has been sent.
Fits(d, u, a) ==
  /\ Acceptable(AcceptOf[d], a)
  /\ SignedAsExpected(d \in Expecting, a)
  /\ u # NoUpdate => a.parts = {Part(u, d \in Expecting)}
  /\ u = NoUpdate => \A p \in a.parts : p.body \notin Updates

\* A body that is negotiated has a type the client accepts.
LEMMA NegotiatedIsAcceptable ==
  ASSUME NEW d \in Devices, NEW bodies, NEW signed, NEW u
  PROVE  /\ Acceptable(AcceptOf[d], NoContent)
         /\ Negotiate(AcceptOf[d]) = "multipart"
            => Acceptable(AcceptOf[d], BuildMultipart(bodies, signed))
         /\ Acceptable(AcceptOf[d], RespondManifest(AcceptOf[d], u, signed))
<1> DEFINE accept == AcceptOf[d]
<1>1. Negotiate(accept) # "none"
  BY DevicesAssumption
<1>2. Acceptable(accept, NoContent)
  BY DEF Acceptable, NoContent, Rendered
<1>3. Negotiate(accept) = "multipart" => Acceptable(accept, BuildMultipart(bodies, signed))
  BY DEF Negotiate, Acceptable, BuildMultipart, Rendered
<1>4. Negotiate(accept) = "multipart" => Acceptable(accept, BuildMultipart({u}, signed))
  BY DEF Negotiate, Acceptable, BuildMultipart, Rendered
<1>5. Negotiate(accept) # "multipart"
      => accept = {} \/ accept \cap {JsonContentType(accept), "*/*"} # {}
  BY <1>1 DEF Negotiate, JsonContentType, Known
<1>6. QED
  BY <1>2, <1>3, <1>4, <1>5 DEF Acceptable, RespondManifest, Rendered

\* What is served fits: signed if and only if it was to be signed.
LEMMA ServedFits ==
  ASSUME NEW d \in Devices, NEW u \in Updates, NEW signed \in BOOLEAN, Serve(d, u, signed),
         signed <=> Signed(d, u), NoUpdate \notin Updates
  PROVE  \E v, a : Respond(d, v, a) /\ Fits(d, v, a)
<1>1. CASE UpToDate(d, u)
  <2> DEFINE a == RespondNoUpdateAvailable(AcceptOf[d], signed)
  <2>1. Respond(d, NoUpdate, a)
    BY <1>1 DEF Serve
  <2>2. CASE Negotiate(AcceptOf[d]) = "multipart"
    <3>1. a = BuildMultipart({"noUpdateAvailable"}, signed)
      BY <2>2 DEF RespondNoUpdateAvailable
    <3>2. Acceptable(AcceptOf[d], a)
      BY <2>2, <3>1, NegotiatedIsAcceptable
    <3>3. signed <=> d \in Expecting
      BY <2>2 DEF Signed
    <3>4. a.parts = {Part("noUpdateAvailable", signed)}
      BY <3>1 DEF BuildMultipart, Rendered
    <3>5. QED
      BY <2>1, <3>2, <3>3, <3>4, DevicesAssumption DEF Fits, Part, SignedAsExpected
  <2>3. CASE Negotiate(AcceptOf[d]) # "multipart"
    <3>1. a = NoContent
      BY <2>3 DEF RespondNoUpdateAvailable
    <3>2. Fits(d, NoUpdate, a)
      BY <3>1, NegotiatedIsAcceptable DEF Fits, NoContent, Rendered, SignedAsExpected
    <3>3. QED
      BY <2>1, <3>2
  <2>4. QED
    BY <2>2, <2>3
<1>2. CASE ~UpToDate(d, u)
  <2> DEFINE a == RespondManifest(AcceptOf[d], u, signed)
  <2>1. Respond(d, u, a)
    BY <1>2 DEF Serve
  <2>2. signed <=> d \in Expecting
    BY <1>2 DEF Signed, UpToDate
  <2>3. a.parts = {Part(u, signed)}
    BY DEF RespondManifest, BuildMultipart, Rendered
  <2>4. SignedAsExpected(d \in Expecting, a) /\ Part(u, signed) = Part(u, d \in Expecting)
    BY <2>2, <2>3 DEF SignedAsExpected, Part
  <2>5. Acceptable(AcceptOf[d], a)
    BY NegotiatedIsAcceptable
  <2>6. Fits(d, u, a)
    BY <2>3, <2>4, <2>5 DEF Fits
  <2>7. QED
    BY <2>1, <2>6
<1>3. QED
  BY <1>1, <1>2

\* Every step that answers a request answers it with something that fits.
LEMMA AnswersFitStep ==
  DeviceTypeOK /\ TypeOK /\ AnswersFit /\ [DeviceNext]_allVars => AnswersFit'
<1> SUFFICES ASSUME DeviceTypeOK, TypeOK, AnswersFit, [DeviceNext]_allVars,
                    NEW d \in Devices, at'[d] = "answered"
             PROVE  Fits(d, offered'[d], answer'[d])
  BY DEF AnswersFit, Understood, Fits
<1> USE DEF DeviceTypeOK
<1>1. NoUpdate \notin Updates
  BY StreamsAssumption
<1>2. ASSUME NEW v, NEW a, Respond(d, v, a), Fits(d, v, a)
      PROVE  Fits(d, offered'[d], answer'[d])
  BY <1>2 DEF Respond
<1>3. CASE FindUpdate(d)
  <2>1. ASSUME Respond(d, NoUpdate, RespondNoUpdate(AcceptOf[d], running[d] # NoUpdate))
        PROVE  Fits(d, offered'[d], answer'[d])
    <3> DEFINE a == RespondNoUpdate(AcceptOf[d], running[d] # NoUpdate)
    <3>1. a.parts = {}
      BY DEF RespondNoUpdate, BuildMultipart, NoContent, Rendered
    <3>2. Acceptable(AcceptOf[d], a)
      BY NegotiatedIsAcceptable DEF RespondNoUpdate
    <3>3. Fits(d, NoUpdate, a)
      BY <3>1, <3>2 DEF Fits, SignedAsExpected
    <3>4. QED
      BY <1>2, <2>1, <3>3
  <2>2. ASSUME NEW u \in Updates, ~Signed(d, u), Serve(d, u, FALSE)
        PROVE  Fits(d, offered'[d], answer'[d])
    BY <1>1, <1>2, <2>2, ServedFits
  <2>3. ~Goto(d, "sign")
    BY DEF Goto
  <2>4. QED
    BY <1>3, <2>1, <2>2, <2>3, FindUpdateCases
<1>4. CASE Sign(d)
  <2>1. Serve(d, offered[d], TRUE)
    BY <1>4 DEF Sign, Refuse, Goto
  <2>2. d \in Expecting /\ offered[d] \in Updates
    BY <1>4 DEF Sign
  <2>3. CASE Signed(d, offered[d])
    BY <1>1, <1>2, <2>1, <2>2, <2>3, ServedFits
  <2>4. CASE ~Signed(d, offered[d])
    <3>1. UpToDate(d, offered[d]) /\ Negotiate(AcceptOf[d]) # "multipart"
      BY <2>2, <2>4 DEF Signed, UpToDate
    <3>2. Respond(d, NoUpdate, NoContent)
      BY <2>1, <3>1 DEF Serve, RespondNoUpdateAvailable
    <3>3. Fits(d, NoUpdate, NoContent)
      BY NegotiatedIsAcceptable DEF Fits, NoContent, Rendered, SignedAsExpected
    <3>4. QED
      BY <1>2, <3>2, <3>3
  <2>5. QED
    BY <2>3, <2>4
<1>5. CASE ~FindUpdate(d) /\ ~Sign(d)
  <2>1. ~Ask(d) /\ ~FindVersion(d) /\ ~InsertVersion(d) /\ ~Install(d) /\ ~Fail(d) /\ ~Lose(d)
    BY DEF Ask, FindVersion, InsertVersion, Install, Fail, Lose, Goto, Refuse
  <2>2. at[d] = "answered" /\ offered'[d] = offered[d] /\ answer'[d] = answer[d]
    BY <1>5, <2>1, OwnSteps DEF DeviceStep
  <2>3. QED
    BY <2>2 DEF AnswersFit, Understood, Fits
<1>6. QED
  BY <1>3, <1>4, <1>5

\* Whatever the key, the version rows and the updates do while a request is answered, the
\* answer can be read by the device, is about the update it serves, and is signed if and
\* only if the device expects signatures.
THEOREM AnswersAlwaysFit == DeviceSpec => []AnswersFit
<1>1. DeviceInit => AnswersFit
  BY DEF DeviceInit, AnswersFit
<1>2. RowsInv => TypeOK
  BY DEF RowsInv, IInv
<1>3. QED
  BY <1>1, <1>2, AnswersFitStep, RowsInvariance, DeviceTypeCorrect, PTL DEF DeviceSpec

-----------------------------------------------------------------------------
(***************************************************************************)
(* Devices only advance.                                                    *)
(***************************************************************************)

\* An update a device runs, or is being served, is one its stream has published.
PublishedInStream(d, u) == u \in Updates /\ Published(u) /\ StreamOf[u] = StreamOfDevice[d]

FromItsStream ==
  \A d \in Devices :
    /\ running[d] # NoUpdate => PublishedInStream(d, running[d])
    /\ offered[d] # NoUpdate => PublishedInStream(d, offered[d])

\* A delete that read 'pending' took a published row of d's stream.
Raced(d) == \E u \in raced : StreamOf[u] = StreamOfDevice[d]

\* What is being served to a device is no older than what the device runs, and by the
\* time it is answered it is another update.
OffersAreNewer ==
  \A d \in Devices :
    (offered[d] # NoUpdate /\ running[d] # NoUpdate) =>
      /\ Raced(d) \/ publishedAt[running[d]] <= publishedAt[offered[d]]
      /\ at[d] = "answered" => offered[d] # running[d]

DeviceInv == FromItsStream /\ OffersAreNewer

\* The current update of a stream that no racing delete has hit is the newest the
\* stream has ever published: the newest exists, is live, and is found.
LEMMA CurrentIsNewestEver ==
  ASSUME RowsInv, NEW d \in Devices, NEW c \in FindLatestPublished(StreamOfDevice[d]),
         NEW w \in Updates, PublishedInStream(d, w), ~Raced(d)
  PROVE  publishedAt[w] <= publishedAt[c]
<1> USE DEF RowsInv, IInv, TypeOK
<1>1. PICK n \in Updates :
        /\ StreamOf[n] = StreamOf[w]
        /\ Published(n)
        /\ \A v \in Updates : StreamOf[v] = StreamOf[w] /\ Published(v)
                               => publishedAt[v] <= publishedAt[n]
  BY DEF HasNewest, PublishedInStream
<1>2. n \notin deleted
  BY <1>1 DEF NewestStaysLive, EverPublished, PublishedInStream, Raced
<1>3. c \in Updates /\ Published(c) /\ StreamOf[c] = StreamOf[w]
  BY DEF FindLatestPublished, PublishedInStream
<1>4. n = c
  BY <1>1, <1>2, <1>3 DEF FindLatestPublished, AtLeastAsNew, SameStream
<1>5. QED
  BY <1>1, <1>4 DEF PublishedInStream

\* What a device runs and is served is not touched by the admin requests, nor by a
\* step of another device.
LEMMA UntouchedDevice ==
  ASSUME RowsInv, DeviceInv, [DeviceNext]_allVars, NEW d \in Devices,
         running'[d] = running[d], offered'[d] = offered[d] \/ offered'[d] = NoUpdate,
         at'[d] = "answered" /\ offered'[d] # NoUpdate => at[d] = "answered"
  PROVE  /\ running'[d] # NoUpdate => PublishedInStream(d, running[d])'
         /\ offered'[d] # NoUpdate => PublishedInStream(d, offered[d])'
         /\ (offered'[d] # NoUpdate /\ running'[d] # NoUpdate) =>
              /\ Raced(d)' \/ publishedAt'[running'[d]] <= publishedAt'[offered'[d]]
              /\ at'[d] = "answered" => offered'[d] # running'[d]
<1>1. \A u \in Updates : Published(u) => Published(u)' /\ publishedAt'[u] = publishedAt[u]
  BY RowsStep, PublishedAtStep DEF RowsInv, IInv
<1>2. raced \subseteq raced'
  BY RowsStep
  DEF Next, vars, rows, InsertWithAssets, BeginPublish, CommitPublish, BeginDelete, CheckRank,
      SoftDelete, CleanupUpdates
<1>3. Raced(d) => Raced(d)'
  BY <1>2 DEF Raced
<1>4. \A u \in Updates : PublishedInStream(d, u) => PublishedInStream(d, u)'
  BY <1>1 DEF PublishedInStream
<1>5. QED
  BY <1>1, <1>3, <1>4 DEF DeviceInv, FromItsStream, OffersAreNewer, PublishedInStream

\* Every step keeps DeviceInv: only FindUpdate chooses an update, and an answer is
\* never the update the device runs.
LEMMA DeviceInvStep ==
  RowsInv /\ DeviceTypeOK /\ DeviceInv /\ [DeviceNext]_allVars => DeviceInv'
<1> SUFFICES ASSUME RowsInv, DeviceTypeOK, DeviceInv, [DeviceNext]_allVars
             PROVE  DeviceInv'
  OBVIOUS
<1> SUFFICES ASSUME NEW d \in Devices
             PROVE  /\ running'[d] # NoUpdate => PublishedInStream(d, running[d])'
                    /\ offered'[d] # NoUpdate => PublishedInStream(d, offered[d])'
                    /\ (offered'[d] # NoUpdate /\ running'[d] # NoUpdate) =>
                         /\ Raced(d)' \/ publishedAt'[running'[d]] <= publishedAt'[offered'[d]]
                         /\ at'[d] = "answered" => offered'[d] # running'[d]
  BY DEF DeviceInv, FromItsStream, OffersAreNewer, PublishedInStream, Raced, Published
<1> USE DEF Goto, Refuse, Respond, Serve
<1>1. CASE /\ running'[d] = running[d]
           /\ offered'[d] = offered[d] \/ offered'[d] = NoUpdate
           /\ at'[d] = "answered" /\ offered'[d] # NoUpdate => at[d] = "answered"
  BY <1>1, UntouchedDevice
<1>2. CASE FindUpdate(d)
  <2>1. UNCHANGED vars /\ running' = running
    BY <1>2 DEF FindUpdate
  <2>2. CASE offered'[d] = NoUpdate
    BY <1>1, <2>1, <2>2
  <2>3. CASE offered'[d] # NoUpdate
    <3>1. PICK c \in FindLatestPublished(StreamOfDevice[d]) :
            /\ offered'[d] = c
            /\ at'[d] = "answered" => c # running[d]
      BY <1>2, <2>3 DEF FindUpdate, UpToDate, DeviceTypeOK
    <3>2. PublishedInStream(d, c)
      BY DEF PublishedInStream, FindLatestPublished
    <3>3. running[d] # NoUpdate => Raced(d) \/ publishedAt[running[d]] <= publishedAt[c]
      BY CurrentIsNewestEver DEF DeviceInv, FromItsStream, PublishedInStream
    <3>4. QED
      BY <2>1, <3>1, <3>2, <3>3
      DEF DeviceInv, FromItsStream, PublishedInStream, Raced, Published, vars, rows
  <2>4. QED
    BY <2>2, <2>3
<1>3. CASE Sign(d)
  <2>1. /\ UNCHANGED vars /\ running' = running
        /\ \/ offered'[d] = NoUpdate
           \/ offered'[d] = offered[d] /\ offered[d] # running[d]
    BY <1>3 DEF Sign, UpToDate, DeviceTypeOK
  <2>2. QED
    BY <2>1
    DEF DeviceInv, FromItsStream, OffersAreNewer, PublishedInStream, Raced, Published, vars, rows
<1>4. CASE Install(d)
  <2>1. /\ UNCHANGED vars /\ offered'[d] = NoUpdate
        /\ running'[d] = running[d] \/ (running'[d] = offered[d] /\ offered[d] \in Updates)
    BY <1>4 DEF Install, DeviceTypeOK
  <2>2. QED
    BY <2>1
    DEF DeviceInv, FromItsStream, PublishedInStream, Raced, Published, vars, rows
<1>5. CASE ~FindUpdate(d) /\ ~Sign(d) /\ ~Install(d)
  <2>1. /\ running'[d] = running[d]
        /\ offered'[d] = offered[d] \/ offered'[d] = NoUpdate
        /\ at'[d] = "answered" /\ offered'[d] # NoUpdate => at[d] = "answered"
    <3>1. CASE Ask(d) \/ FindVersion(d) \/ InsertVersion(d) \/ Fail(d) \/ Lose(d)
      BY <3>1 DEF Ask, FindVersion, InsertVersion, Fail, Lose, DeviceTypeOK, Statements
    <3>2. QED
      BY <1>5, <3>1, OwnSteps DEF DeviceStep
  <2>2. QED
    BY <1>1, <2>1
<1>6. QED
  BY <1>2, <1>3, <1>4, <1>5

\* A device runs, and is served, only updates that its own stream has published: no draft
\* and nothing of another stream, however its request overlaps publishes and deletes.
THEOREM RunsItsStream == DeviceSpec => []DeviceInv
<1>1. DeviceInit => DeviceInv
  BY DEF DeviceInit, DeviceInv, FromItsStream, OffersAreNewer
<1> QED BY <1>1, DeviceInvStep, RowsInvariance, DeviceTypeCorrect, PTL DEF DeviceSpec

\* Whatever is published late, deleted or cleaned up while requests are answered, lost
\* or repeated, a device never goes back: only a delete that read the newest update as
\* a draft can make it.
THEOREM DevicesAdvance == DeviceSpec => DevicesOnlyAdvance
<1> DEFINE Advances ==
      \A d \in Devices :
       (running'[d] # running[d] /\ running[d] # NoUpdate)
       => \/ publishedAt[running'[d]] > publishedAt[running[d]]
          \/ \E u \in raced : StreamOf[u] = StreamOfDevice[d]
<1>1. RowsInv /\ DeviceTypeOK /\ DeviceInv /\ [DeviceNext]_allVars => Advances
  <2> SUFFICES ASSUME RowsInv, DeviceTypeOK, DeviceInv, [DeviceNext]_allVars, NEW d \in Devices,
                      running'[d] # running[d], running[d] # NoUpdate, ~Raced(d)
               PROVE  publishedAt[running'[d]] > publishedAt[running[d]]
    BY DEF Raced
  <2>1. Install(d)
    BY OwnSteps DEF DeviceStep, Ask, FindVersion, InsertVersion, FindUpdate, Sign, Fail, Lose
  <2>2. running'[d] = offered[d] /\ offered[d] # NoUpdate /\ at[d] = "answered"
    BY <2>1, StreamsAssumption DEF Install, DeviceTypeOK
  <2>3. publishedAt[running[d]] <= publishedAt[offered[d]] /\ offered[d] # running[d]
    BY <2>2 DEF DeviceInv, OffersAreNewer
  <2>4. publishedAt[running[d]] # publishedAt[offered[d]]
    BY <2>2, <2>3
    DEF DeviceInv, FromItsStream, PublishedInStream, RowsInv, IInv, StampsDiffer
  <2>5. QED
    BY <2>2, <2>3, <2>4
    DEF DeviceInv, FromItsStream, PublishedInStream, RowsInv, IInv, TypeOK
<1>2. QED
  BY <1>1, RunsItsStream, RowsInvariance, DeviceTypeCorrect, PTL
  DEF DeviceSpec, DevicesOnlyAdvance

===============================================================================
