----------------------------- MODULE ClientEvents -----------------------------
(***************************************************************************)
(* Devices report the outcome of their updates to the events endpoint,      *)
(* which keeps one row per (app_id, event_id), while requests of the admin  *)
(* API rename and delete the app (AppTokens).  The dashboard reads the      *)
(* update's statistics from the rows.                                       *)
(*                                                                         *)
(* The device is external.  It sends an event again until it is answered,   *)
(* also while an earlier attempt is still being executed.  The column       *)
(* update_id is left out: nothing reads it.                                 *)
(***************************************************************************)
EXTENDS AppTokens, Naturals, FiniteSets

CONSTANTS
  Events,        \* event ids; each is of one app and well-formed
  EventApp,
  Attempts,      \* attempts to deliver an event that can be under way at once
  EventOf,       \* the event an attempt delivers
  Devices,
  DeviceOf,      \* the device that reports the event
  Succeeded,     \* events of type update_succeeded, the others are update_failed
  Manifests,
  Reported,      \* the manifest whose outcome the event reports
  SentManifest,  \* field manifestUuid of the event, NoManifest if it is empty
  SentUpdate,    \* field updateId: where old clients put the manifest's uuid, and others
                 \* the update that is still running
  NoManifest,
  MaxLost        \* bound: failed statements and lost answers

ASSUME EventsAssumption ==
  /\ EventApp \in [Events -> Apps]
  /\ EventOf \in [Attempts -> Events]
  /\ IsFiniteSet(Devices)
  /\ DeviceOf \in [Events -> Devices]
  /\ Succeeded \subseteq Events
  /\ Reported \in [Events -> Manifests]
  /\ NoManifest \notin Manifests
  /\ SentManifest \in [Events -> Manifests \cup {NoManifest}]
  /\ SentUpdate \in [Events -> Manifests \cup {NoManifest}]
  /\ \A e \in Events : \/ SentManifest[e] = Reported[e]
                       \/ SentManifest[e] = NoManifest /\ SentUpdate[e] = Reported[e]
  /\ MaxLost \in Nat

VARIABLES
  delivery,  \* [Attempts -> where the attempt is]
  rows,      \* client_events: [Events -> number of rows with this event_id]
  answered,  \* events the device knows to have been taken
  lost       \* number of failed statements and lost answers

eventVars == <<delivery, rows, answered, lost>>
trafficVars == <<appVars, eventVars>>

EventTypeOK ==
  /\ AppTypeOK
  /\ delivery \in [Attempts -> {"idle", "insert", "answer"}]
  /\ rows \in [Events -> 0..2]
  /\ answered \subseteq Events
  /\ \A k \in Attempts : delivery[k] = "answer" => rows[EventOf[k]] > 0
  /\ lost \in 0..MaxLost

EventInit ==
  /\ AppInit
  /\ delivery = [k \in Attempts |-> "idle"]
  /\ rows = [e \in Events |-> 0]
  /\ answered = {}
  /\ lost = 0

-----------------------------------------------------------------------------
\* The manifest_uuid of the event's row, which old clients send in updateId.  One mutant
\* takes it from its own field only, the other from updateId first.
ManifestUuid_OwnField(e) == SentManifest[e]
ManifestUuid_UpdateFirst(e) ==
  IF SentUpdate[e] # NoManifest THEN SentUpdate[e] ELSE SentManifest[e]
ManifestUuid(e) == IF SentManifest[e] # NoManifest THEN SentManifest[e] ELSE SentUpdate[e]

\* The endpoint's own findActiveApp.
findActiveApp(e) == ActiveApp(EventApp[e])

\* The event arrives.  A deleted app refuses it, and the device goes on sending.
FindApp(k) ==
  /\ delivery[k] = "idle"
  /\ EventOf[k] \notin answered
  /\ findActiveApp(EventOf[k])
  /\ delivery' = [delivery EXCEPT ![k] = "insert"]
  /\ UNCHANGED <<appVars, rows, answered, lost>>

\* insert into client_events ... on conflict (app_id, event_id) do nothing; the event is
\* acknowledged either way.  One mutant inserts without looking for a conflict, the other
\* takes an attempt for a duplicate while another one is under way.
InsertEvent_Skips(k) ==
  /\ delivery[k] = "insert"
  /\ delivery' = [delivery EXCEPT ![k] = "answer"]
  /\ rows' = IF \E j \in Attempts \ {k} : EventOf[j] = EventOf[k] /\ delivery[j] # "idle"
             THEN rows
             ELSE [rows EXCEPT ![EventOf[k]] = IF @ = 0 THEN 1 ELSE @]
  /\ UNCHANGED <<appVars, answered, lost>>
InsertEvent_Plain(k) ==
  /\ delivery[k] = "insert"
  /\ delivery' = [delivery EXCEPT ![k] = "answer"]
  /\ rows' = [rows EXCEPT ![EventOf[k]] = IF @ < 2 THEN @ + 1 ELSE @]
  /\ UNCHANGED <<appVars, answered, lost>>
InsertEvent(k) ==
  /\ delivery[k] = "insert"
  /\ delivery' = [delivery EXCEPT ![k] = "answer"]
  /\ rows' = [rows EXCEPT ![EventOf[k]] = IF @ = 0 THEN 1 ELSE @]
  /\ UNCHANGED <<appVars, answered, lost>>

\* The answer arrives.
Acknowledge(k) ==
  /\ delivery[k] = "answer"
  /\ delivery' = [delivery EXCEPT ![k] = "idle"]
  /\ answered' = answered \cup {EventOf[k]}
  /\ UNCHANGED <<appVars, rows, lost>>

\* The statement fails, or the answer is lost.
LoseEvent(k) ==
  /\ delivery[k] # "idle"
  /\ lost < MaxLost
  /\ lost' = lost + 1
  /\ delivery' = [delivery EXCEPT ![k] = "idle"]
  /\ UNCHANGED <<appVars, rows, answered>>

DeliveryStep(k) == FindApp(k) \/ InsertEvent(k) \/ Acknowledge(k)

TrafficNext ==
  \/ \E k \in Attempts : DeliveryStep(k) \/ LoseEvent(k)
  \/ AppNext /\ UNCHANGED eventVars

TrafficSpec == EventInit /\ [][TrafficNext]_trafficVars

-----------------------------------------------------------------------------
\* The rows of a manifest; the page that lists them gets the latest hundred.
ListByUpdate(m) == {e \in Events : rows[e] > 0 /\ ManifestUuid(e) = m}

\* StatsByUpdate: distinct devices among the rows that report a success.  The mutant
\* counts rows.
SuccessRows(m) == ListByUpdate(m) \cap Succeeded
SucceededDevices_Rows(m) == Cardinality(SuccessRows(m))
SucceededDevices(m) == Cardinality({DeviceOf[e] : e \in SuccessRows(m)})

\* However often an event is sent, and however many attempts run at once, it has one row
\* at most, and it has one when its device has been told that it was taken.
CountedOnce ==
  \A e \in Events : rows[e] <= 1 /\ (e \in answered => rows[e] = 1)

\* The statistics count devices: at least those that have been told that their success
\* was taken, whichever field named the manifest, at most those that report one, and no
\* device twice.
ReportersAmong(m, events) ==
  {DeviceOf[e] : e \in {f \in events \cap Succeeded : Reported[f] = m}}

StatsCountDevices ==
  \A m \in Manifests :
    /\ Cardinality(ReportersAmong(m, answered)) <= SucceededDevices(m)
    /\ SucceededDevices(m) <= Cardinality(ReportersAmong(m, Events))
===============================================================================
