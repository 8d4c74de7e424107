----------------------- MODULE UpdateDetailPage_proofs -----------------------
(***************************************************************************)
(* Proofs about UpdateDetailPage, for every set of updates and every value  *)
(* of the bounds: any number of switches, polls and late answers.           *)
(***************************************************************************)
EXTENDS UpdateDetailPage, TLAPS

\* The steps, one by one: a callback of the page, the server, the router or the user.
LEMMA NextCases ==
  ASSUME [Next]_vars
  PROVE  \/ \E l \in loads : ServeLoad(l) \/ ShowUpdate(l) \/ LoadFails(l) \/ IgnoreLoad(l)
         \/ Poll
         \/ \E q \in polls : ServePoll(q) \/ PollReturns(q)
         \/ \E kind \in Kinds : Click(kind)
         \/ ServeAct \/ PublishReturns \/ ActFails
         \/ \E page \in Pages : ActReturns(page) \/ SwitchUpdate(page) \/ MoveOn(page)
         \/ Unmount \/ Navigate \/ NavigationFails \/ CancelledPushSettles
         \/ DataChange
         \/ UNCHANGED vars
  BY DEF Next, LoadStep

-----------------------------------------------------------------------------
(***************************************************************************)
(* Type correctness.                                                        *)
(***************************************************************************)

\* Every callback keeps the types of what the page shows...
LEMMA PageTypesStep == TypeOK /\ [Next]_vars => PageTypes'
<1> SUFFICES ASSUME TypeOK, [Next]_vars PROVE PageTypes'
  OBVIOUS
<1> USE PageAssumption DEF TypeOK, PageTypes, router, server
<1>1. ASSUME NEW l \in loads, ShowUpdate(l) PROVE PageTypes'
  <2>1. detail' \in Details
    BY <1>1 DEF ShowUpdate, LoadTypes, Details, Answers, Status
  <2>2. polling' \in BOOLEAN /\ loading' \in BOOLEAN
    BY <1>1 DEF ShowUpdate
  <2>3. QED
    BY <1>1, <2>1, <2>2 DEF ShowUpdate
<1>2. ASSUME NEW l \in loads, LoadFails(l) PROVE PageTypes'
  BY <1>2 DEF LoadFails, isActiveScope, Push, Pages
<1>3. ASSUME NEW q \in polls, PollReturns(q) PROVE PageTypes'
  <2>1. detail' \in Details
    BY <1>3 DEF PollReturns, Fulfilled, PollTypes, Details
  <2>2. QED
    BY <1>3, <2>1 DEF PollReturns
<1>4. ASSUME PublishReturns PROVE PageTypes'
  BY <1>4 DEF PublishReturns, LoadInitial, ScopeBegun
<1>5. ASSUME NEW page \in Pages, ActReturns(page) PROVE PageTypes'
  BY <1>5 DEF ActReturns, Push, Pages
<1>6. ASSUME NEW page \in Pages, SwitchUpdate(page) PROVE PageTypes'
  BY <1>6 DEF SwitchUpdate, Arrive, PollingAfterSwitch, LoadInitial, ScopeBegun
<1>7. ASSUME NEW page \in Pages, MoveOn(page) PROVE PageTypes'
  BY <1>7 DEF MoveOn, Arrive
<1>8. ASSUME Unmount PROVE PageTypes'
  <2>1. abandoned' \in BOOLEAN
    BY <1>8, Zenon DEF Unmount
  <2>2. QED
    BY <1>8, <2>1 DEF Unmount, Arrive, Pages
<1>9. ASSUME Navigate \/ NavigationFails PROVE PageTypes'
  BY <1>9 DEF Navigate, NavigationFails
<1>10. CASE UNCHANGED <<router, loading, failed, polling, detail>>
  BY <1>10
<1>11. QED
  BY NextCases, <1>1, <1>2, <1>3, <1>4, <1>5, <1>6, <1>7, <1>8, <1>9, <1>10
  DEF ServeLoad, IgnoreLoad, Poll, ServePoll, Click, ServeAct, ActFails, DataChange,
      CancelledPushSettles, vars

\* ... of its counters and of the action in progress...
LEMMA CounterTypesStep == TypeOK /\ [Next]_vars => CounterTypes'
<1> SUFFICES ASSUME TypeOK, [Next]_vars PROVE CounterTypes'
  OBVIOUS
<1> USE PageAssumption DEF TypeOK, PageTypes, CounterTypes, router, server
<1>1. ASSUME NEW l \in loads, ServeLoad(l) PROVE CounterTypes'
  BY <1>1 DEF ServeLoad
<1>2. ASSUME NEW l \in loads, ShowUpdate(l) PROVE CounterTypes'
  <2>1. detail'.statsAt <= time
    BY <1>2 DEF ShowUpdate, LoadTypes, Details, Answers, Status
  <2>2. QED
    BY <1>2, <2>1 DEF ShowUpdate, RefreshLiveData, Returned
<1>3. ASSUME NEW l \in loads, LoadFails(l) PROVE CounterTypes'
  BY <1>3 DEF LoadFails, isActiveScope, PushCancelled, Acts, Phases
<1>4. ASSUME NEW l \in loads, IgnoreLoad(l) PROVE CounterTypes'
  BY <1>4 DEF IgnoreLoad, isActiveScope, Returned
<1>5. ASSUME Poll PROVE CounterTypes'
  BY <1>5 DEF Poll, RefreshLiveData
<1>6. ASSUME NEW q \in polls, ServePoll(q) PROVE CounterTypes'
  BY <1>6 DEF ServePoll
<1>7. ASSUME NEW q \in polls, PollReturns(q) PROVE CounterTypes'
  <2>1. detail'.statsAt <= time
    BY <1>7 DEF PollReturns, Fulfilled, PollTypes, Details
  <2>2. QED
    BY <1>7, <2>1 DEF PollReturns
<1>8. ASSUME NEW kind \in Kinds, Click(kind) PROVE CounterTypes'
  BY <1>8 DEF Click, Acts, Phases
<1>9. ASSUME ServeAct PROVE CounterTypes'
  BY <1>9 DEF ServeAct, Acts, Phases
<1>10. ASSUME PublishReturns PROVE CounterTypes'
  BY <1>10 DEF PublishReturns, LoadInitial, ScopeBegun, Acts, Phases
<1>11. ASSUME ActFails PROVE CounterTypes'
  BY <1>11 DEF ActFails
<1>12. ASSUME NEW page \in Pages, ActReturns(page) PROVE CounterTypes'
  BY <1>12 DEF ActReturns, Acts, Phases, Pages
<1>13. ASSUME NEW page \in Pages, SwitchUpdate(page) PROVE CounterTypes'
  BY <1>13 DEF SwitchUpdate, Arrive, PushEnded, PollingAfterSwitch, LoadInitial, ScopeBegun
<1>14. ASSUME NEW page \in Pages, MoveOn(page) PROVE CounterTypes'
  BY <1>14 DEF MoveOn, Arrive, PushEnded
<1>15. ASSUME Unmount PROVE CounterTypes'
  BY <1>15 DEF Unmount, Arrive, PushEnded
<1>16. ASSUME DataChange PROVE CounterTypes'
  BY <1>16 DEF DataChange, Details
<1>17. ASSUME Navigate PROVE CounterTypes'
  BY <1>17 DEF Navigate, PushCancelled, Acts, Phases
<1>18. ASSUME NavigationFails \/ CancelledPushSettles PROVE CounterTypes'
  BY <1>18 DEF NavigationFails, CancelledPushSettles, PushEnded
<1>19. CASE UNCHANGED vars
  BY <1>19 DEF vars
<1>20. QED
  BY NextCases, <1>1, <1>2, <1>3, <1>4, <1>5, <1>6, <1>7, <1>8, <1>9, <1>10, <1>11,
     <1>12, <1>13, <1>14, <1>15, <1>16, <1>17, <1>18, <1>19

\* ... of the loads it awaits...
LEMMA LoadTypesStep == TypeOK /\ [Next]_vars => LoadTypes'
<1> SUFFICES ASSUME TypeOK, [Next]_vars PROVE LoadTypes'
  OBVIOUS
<1> USE PageAssumption DEF TypeOK, PageTypes, CounterTypes, LoadTypes, router, server
<1>1. ASSUME NEW l \in loads, ServeLoad(l) PROVE LoadTypes'
  <2> DEFINE a == [status |-> IF l.page \in published THEN "published" ELSE "pending",
                   time |-> time]
  <2>1. a \in Answers /\ a.time = time /\ l.page \in Updates
    BY <1>1 DEF ServeLoad, Answers, Status
  <2>2. /\ loads' = (loads \ {l}) \cup {[l EXCEPT !.data = a]}
        /\ UNCHANGED <<scopeGeneration, time>>
    BY <1>1 DEF ServeLoad
  <2> HIDE DEF a
  <2>3. QED
    BY <2>1, <2>2
<1>2. ASSUME NEW l \in loads, ShowUpdate(l) PROVE LoadTypes'
  BY <1>2 DEF ShowUpdate, isActiveScope, RefreshLiveData, Returned
<1>3. ASSUME NEW l \in loads, LoadFails(l) PROVE LoadTypes'
  BY <1>3 DEF LoadFails, isActiveScope
<1>4. ASSUME NEW l \in loads, IgnoreLoad(l) PROVE LoadTypes'
  BY <1>4 DEF IgnoreLoad, isActiveScope, Returned
<1>5. ASSUME PublishReturns PROVE LoadTypes'
  <2> DEFINE New == [scope |-> scopeGeneration + 1, page |-> route, forAct |-> TRUE,
                     data |-> None]
  <2>1. New \in [scope : 1..scopeGeneration', page : Pages, forAct : BOOLEAN,
                  data : Answers \cup {None}]
    BY <1>5 DEF PublishReturns, LoadInitial
  <2>2. \A l \in loads : l \in [scope : 1..scopeGeneration', page : Pages, forAct : BOOLEAN,
                                data : Answers \cup {None}]
    BY <1>5 DEF PublishReturns, LoadInitial
  <2>3. loads' = loads \cup {New} /\ New.data = None /\ time' = time
    BY <1>5 DEF PublishReturns, LoadInitial, ScopeBegun
  <2>4. QED
    BY <2>1, <2>2, <2>3
<1>6. ASSUME NEW page \in Pages, SwitchUpdate(page) PROVE LoadTypes'
  <2> DEFINE New == [scope |-> scopeGeneration + 1, page |-> page, forAct |-> FALSE,
                     data |-> None]
  <2>1. New \in [scope : 1..scopeGeneration', page : Pages, forAct : BOOLEAN,
                  data : Answers \cup {None}]
    BY <1>6 DEF SwitchUpdate, LoadInitial
  <2>2. \A l \in loads : l \in [scope : 1..scopeGeneration', page : Pages, forAct : BOOLEAN,
                                data : Answers \cup {None}]
    BY <1>6 DEF SwitchUpdate, LoadInitial
  <2>3. loads' = loads \cup {New} /\ New.data = None /\ time' = time
    BY <1>6 DEF SwitchUpdate, LoadInitial, ScopeBegun
  <2>4. QED
    BY <2>1, <2>2, <2>3
<1>7. ASSUME Unmount PROVE LoadTypes'
  BY <1>7 DEF Unmount, Arrive
<1>8. ASSUME DataChange PROVE LoadTypes'
  BY <1>8 DEF DataChange, Answers
<1>9. CASE UNCHANGED <<loads, scopeGeneration, time>>
  BY <1>9
<1>10. QED
  BY NextCases, <1>1, <1>2, <1>3, <1>4, <1>5, <1>6, <1>7, <1>8, <1>9
  DEF Poll, ServePoll, PollReturns, Click, ServeAct, ActFails, ActReturns, MoveOn,
      Navigate, NavigationFails, CancelledPushSettles, vars

\* ... and of the polls it awaits.
LEMMA PollTypesStep == TypeOK /\ [Next]_vars => PollTypes'
<1> SUFFICES ASSUME TypeOK, [Next]_vars PROVE PollTypes'
  OBVIOUS
<1> USE PageAssumption DEF TypeOK, PageTypes, CounterTypes, PollTypes, router, server
<1>1. ASSUME NEW l \in loads, ShowUpdate(l) PROVE PollTypes'
  <2> DEFINE New == [scope |-> scopeGeneration, id |-> statsRequestId + 1,
                     page |-> route, data |-> None]
  <2>1. statsRequestId' = statsRequestId + 1 =>
          New \in [scope : 1..scopeGeneration, id : 1..statsRequestId', page : Pages,
                   data : Nat \cup {None}]
    BY <1>1 DEF LoadTypes
  <2>2. \A q \in polls :
          q \in [scope : 1..scopeGeneration, id : 1..statsRequestId', page : Pages,
                 data : Nat \cup {None}]
    <3>1. statsRequestId' \in {statsRequestId, statsRequestId + 1}
      BY <1>1 DEF ShowUpdate, RefreshLiveData
    <3>2. QED
      BY <3>1
  <2>3. \/ polls' = polls
        \/ polls' = polls \cup {New} /\ statsRequestId' = statsRequestId + 1
    BY <1>1 DEF ShowUpdate, RefreshLiveData
  <2>4. New.data = None /\ UNCHANGED <<scopeGeneration, time>>
    BY <1>1 DEF ShowUpdate
  <2>5. detail' # None
    <3>1. detail' \in Details
      BY <1>1 DEF ShowUpdate, LoadTypes, Details, Answers, Status
    <3>2. QED
      BY <3>1
  <2>6. QED
    BY <2>1, <2>2, <2>3, <2>4, <2>5
<1>2. ASSUME Poll PROVE PollTypes'
  <2> DEFINE New == [scope |-> scopeGeneration, id |-> statsRequestId + 1,
                     page |-> route, data |-> None]
  <2>1. statsRequestId' = statsRequestId + 1 =>
          New \in [scope : 1..scopeGeneration, id : 1..statsRequestId', page : Pages,
                   data : Nat \cup {None}]
    BY <1>2 DEF Poll
  <2>2. \A q \in polls :
          q \in [scope : 1..scopeGeneration, id : 1..statsRequestId', page : Pages,
                 data : Nat \cup {None}]
    <3>1. statsRequestId' \in {statsRequestId, statsRequestId + 1}
      BY <1>2 DEF Poll, RefreshLiveData
    <3>2. QED
      BY <3>1
  <2>3. \/ polls' = polls
        \/ polls' = polls \cup {New} /\ statsRequestId' = statsRequestId + 1
    BY <1>2 DEF Poll, RefreshLiveData
  <2>4. New.data = None /\ UNCHANGED <<scopeGeneration, time>>
    BY <1>2 DEF Poll
  <2>5. detail' # None
    BY <1>2 DEF Poll
  <2>6. QED
    BY <2>1, <2>2, <2>3, <2>4, <2>5
<1>3. ASSUME NEW q \in polls, ServePoll(q) PROVE PollTypes'
  BY <1>3 DEF ServePoll
<1>4. ASSUME NEW q \in polls, PollReturns(q) PROVE PollTypes'
  <2>1. detail' \in Details
    BY <1>4 DEF PollReturns, Fulfilled, Details
  <2>2. QED
    BY <1>4, <2>1 DEF PollReturns
<1>5. ASSUME PublishReturns PROVE PollTypes'
  BY <1>5 DEF PublishReturns, LoadInitial, ScopeBegun
<1>6. ASSUME NEW page \in Pages, SwitchUpdate(page) PROVE PollTypes'
  BY <1>6 DEF SwitchUpdate, Arrive, PollingAfterSwitch, LoadInitial, ScopeBegun
<1>7. ASSUME Unmount PROVE PollTypes'
  BY <1>7 DEF Unmount, Arrive
<1>8. ASSUME DataChange PROVE PollTypes'
  BY <1>8 DEF DataChange
<1>9. CASE UNCHANGED <<polls, detail, scopeGeneration, statsRequestId, time>>
  BY <1>9
<1>10. QED
  BY NextCases, <1>1, <1>2, <1>3, <1>4, <1>5, <1>6, <1>7, <1>8, <1>9
  DEF ServeLoad, LoadFails, IgnoreLoad, Click, ServeAct, ActFails, ActReturns, MoveOn,
      Navigate, NavigationFails, CancelledPushSettles, vars

\* The types of the page's variables and of the calls it awaits hold whatever returns
\* when: no answer of another page or of the future is ever taken.
THEOREM TypeCorrect == Spec => []TypeOK
<1>1. Init => TypeOK
  <2> SUFFICES ASSUME Init PROVE TypeOK
    OBVIOUS
  <2>1. PageTypes
    BY PageAssumption DEF Init, PageTypes, Pages
  <2>2. LoadTypes
    <3> DEFINE New == [scope |-> 1, page |-> route, forAct |-> FALSE, data |-> None]
    <3>1. New \in [scope : 1..1, page : Pages, forAct : BOOLEAN, data : Answers \cup {None}]
      BY DEF Init, Pages
    <3>2. scopeGeneration = 1 /\ loads = {New} /\ New.data = None
      BY DEF Init
    <3>3. QED
      BY <3>1, <3>2 DEF LoadTypes
  <2>3. PollTypes
    BY DEF Init, PollTypes
  <2>4. CounterTypes
    BY PageAssumption DEF Init, CounterTypes
  <2>5. QED
    BY <2>1, <2>2, <2>3, <2>4 DEF TypeOK
<1>2. TypeOK /\ [Next]_vars => TypeOK'
  BY PageTypesStep, CounterTypesStep, LoadTypesStep, PollTypesStep DEF TypeOK
<1>3. QED
  BY <1>1, <1>2, PTL DEF Spec

-----------------------------------------------------------------------------
(***************************************************************************)
(* The inductive invariant behind the safety properties.                    *)
(***************************************************************************)

\* The loads of the current scope: one at most, started under the page the route is on,
\* behind the skeleton; after the page was left only a publish that was awaited starts one.
CurrentLoads ==
  /\ \A l \in loads : l.scope = scopeGeneration =>
       loading /\ (mounted => l.page = route) /\ (mounted \/ abandoned)
  /\ \A l, k \in loads : l.scope = scopeGeneration /\ k.scope = scopeGeneration => l = k

\* A publish that returns after the page was left was awaited when it was left.
AwaitedPublish ==
  (act # None /\ act.kind = "publish" /\ act.phase \in {"sent", "served"})
  => mounted \/ abandoned

\* What is shown as published is published, and only that is polled.
PublishedShown ==
  /\ \A l \in loads : l.data # None /\ l.data.status = "published" => l.page \in published
  /\ detail # None /\ detail.status = "published" => detail.update \in published
  /\ polling => detail.status = "published"

\* Every callback keeps CurrentLoads: a new load begins a new scope.
LEMMA CurrentLoadsStep ==
  TypeOK /\ CurrentLoads /\ AwaitedPublish /\ [Next]_vars
  => CurrentLoads'
<1> SUFFICES ASSUME TypeOK, CurrentLoads, AwaitedPublish, [Next]_vars
             PROVE  CurrentLoads'
  OBVIOUS
<1> USE PageAssumption DEF TypeOK, PageTypes, CounterTypes, LoadTypes, CurrentLoads,
        AwaitedPublish, router, server
<1>1. ASSUME NEW l \in loads, ServeLoad(l) PROVE CurrentLoads'
  BY <1>1 DEF ServeLoad
<1>2. ASSUME NEW l \in loads, ShowUpdate(l) PROVE CurrentLoads'
  BY <1>2 DEF ShowUpdate, isActiveScope, RefreshLiveData, Returned
<1>3. ASSUME NEW l \in loads, LoadFails(l) PROVE CurrentLoads'
  BY <1>3 DEF LoadFails, isActiveScope
<1>4. ASSUME NEW l \in loads, IgnoreLoad(l) PROVE CurrentLoads'
  BY <1>4 DEF IgnoreLoad, isActiveScope, Returned
<1>5. ASSUME PublishReturns PROVE CurrentLoads'
  <2> DEFINE New == [scope |-> scopeGeneration + 1, page |-> route, forAct |-> TRUE,
                     data |-> None]
  <2>1. \A k \in loads : k.scope # scopeGeneration + 1
    OBVIOUS
  <2>2. /\ loads' = loads \cup {New} /\ New.scope = scopeGeneration + 1 /\ New.page = route
        /\ scopeGeneration' = scopeGeneration + 1 /\ loading' = TRUE /\ route' = route
        /\ mounted' \/ abandoned'
    BY <1>5 DEF PublishReturns, LoadInitial, router, ScopeBegun
  <2> HIDE DEF New
  <2>3. QED
    BY <2>1, <2>2
<1>6. ASSUME NEW page \in Pages, SwitchUpdate(page) PROVE CurrentLoads'
  <2> DEFINE New == [scope |-> scopeGeneration + 1, page |-> page, forAct |-> FALSE,
                     data |-> None]
  <2>1. \A k \in loads : k.scope # scopeGeneration + 1
    OBVIOUS
  <2>2. /\ loads' = loads \cup {New} /\ New.scope = scopeGeneration + 1 /\ New.page = page
        /\ scopeGeneration' = scopeGeneration + 1 /\ loading' = TRUE /\ route' = page
        /\ mounted' \/ abandoned'
    BY <1>6 DEF SwitchUpdate, LoadInitial, Arrive, ScopeBegun
  <2> HIDE DEF New
  <2>3. QED
    BY <2>1, <2>2
<1>7. ASSUME NEW page \in Pages, MoveOn(page) PROVE CurrentLoads'
  BY <1>7 DEF MoveOn, Arrive
<1>8. ASSUME Unmount PROVE CurrentLoads'
  BY <1>8 DEF Unmount, Arrive
<1>9. CASE UNCHANGED <<loads, scopeGeneration, loading, mounted, abandoned, route>>
  BY <1>9
<1>10. QED
  BY NextCases, <1>1, <1>2, <1>3, <1>4, <1>5, <1>6, <1>7, <1>8, <1>9
  DEF Poll, ServePoll, PollReturns, Click, ServeAct, ActFails, ActReturns, DataChange,
      Navigate, NavigationFails, CancelledPushSettles, vars

\* Every callback keeps AwaitedPublish: the buttons of a page that was left are gone.
LEMMA AwaitedPublishStep == TypeOK /\ AwaitedPublish /\ [Next]_vars => AwaitedPublish'
<1> SUFFICES ASSUME TypeOK, AwaitedPublish, [Next]_vars PROVE AwaitedPublish'
  OBVIOUS
<1> USE PageAssumption DEF TypeOK, PageTypes, CounterTypes, AwaitedPublish, router,
        server
<1>1. ASSUME NEW l \in loads, ShowUpdate(l) PROVE AwaitedPublish'
  BY <1>1 DEF ShowUpdate, isActiveScope, RefreshLiveData, Returned
<1>2. ASSUME NEW l \in loads, LoadFails(l) PROVE AwaitedPublish'
  BY <1>2 DEF LoadFails, isActiveScope, PushCancelled, Acts
<1>3. ASSUME NEW l \in loads, IgnoreLoad(l) PROVE AwaitedPublish'
  BY <1>3 DEF IgnoreLoad, isActiveScope, Returned
<1>4. ASSUME NEW kind \in Kinds, Click(kind) PROVE AwaitedPublish'
  BY <1>4 DEF Click
<1>5. ASSUME ServeAct PROVE AwaitedPublish'
  BY <1>5 DEF ServeAct
<1>6. ASSUME PublishReturns PROVE AwaitedPublish'
  BY <1>6 DEF PublishReturns, LoadInitial, ScopeBegun
<1>7. ASSUME ActFails PROVE AwaitedPublish'
  BY <1>7 DEF ActFails
<1>8. ASSUME NEW page \in Pages, ActReturns(page) PROVE AwaitedPublish'
  BY <1>8 DEF ActReturns, Acts
<1>9. ASSUME NEW page \in Pages, SwitchUpdate(page) PROVE AwaitedPublish'
  BY <1>9 DEF SwitchUpdate, Arrive, PushEnded, PollingAfterSwitch, LoadInitial, ScopeBegun
<1>10. ASSUME NEW page \in Pages, MoveOn(page) PROVE AwaitedPublish'
  BY <1>10 DEF MoveOn, Arrive, PushEnded
<1>11. ASSUME Unmount PROVE AwaitedPublish'
  BY <1>11 DEF Unmount, Arrive, PushEnded
<1>12. ASSUME Navigate PROVE AwaitedPublish'
  BY <1>12 DEF Navigate, PushCancelled, Acts
<1>13. ASSUME NavigationFails \/ CancelledPushSettles PROVE AwaitedPublish'
  BY <1>13 DEF NavigationFails, CancelledPushSettles, PushEnded
<1>14. CASE UNCHANGED <<act, mounted, abandoned>>
  BY <1>14
<1>15. QED
  BY NextCases, <1>1, <1>2, <1>3, <1>4, <1>5, <1>6, <1>7, <1>8, <1>9, <1>10, <1>11,
     <1>12, <1>13, <1>14
  DEF ServeLoad, Poll, ServePoll, PollReturns, DataChange, vars

\* Every callback keeps PublishedShown: no update is unpublished.
LEMMA PublishedShownStep == TypeOK /\ PublishedShown /\ [Next]_vars => PublishedShown'
<1> SUFFICES ASSUME TypeOK, PublishedShown, [Next]_vars PROVE PublishedShown'
  OBVIOUS
<1> USE PageAssumption DEF TypeOK, PageTypes, CounterTypes, LoadTypes, PublishedShown,
        router, server
<1>1. ASSUME NEW l \in loads, ServeLoad(l) PROVE PublishedShown'
  BY <1>1 DEF ServeLoad
<1>2. ASSUME NEW l \in loads, ShowUpdate(l) PROVE PublishedShown'
  BY <1>2 DEF ShowUpdate, isActiveScope, RefreshLiveData, Returned
<1>3. ASSUME NEW l \in loads, LoadFails(l) PROVE PublishedShown'
  BY <1>3 DEF LoadFails, isActiveScope
<1>4. ASSUME NEW l \in loads, IgnoreLoad(l) PROVE PublishedShown'
  BY <1>4 DEF IgnoreLoad, isActiveScope, Returned
<1>5. ASSUME NEW q \in polls, PollReturns(q) PROVE PublishedShown'
  <2>1. detail # None /\ detail' \in Details /\ detail'.update = detail.update
        /\ detail'.status = detail.status
    BY <1>5 DEF PollReturns, Fulfilled, PollTypes, Details
  <2>2. QED
    BY <1>5, <2>1 DEF PollReturns
<1>6. ASSUME ServeAct PROVE PublishedShown'
  BY <1>6 DEF ServeAct
<1>7. ASSUME PublishReturns PROVE PublishedShown'
  BY <1>7 DEF PublishReturns, LoadInitial, ScopeBegun
<1>8. ASSUME NEW page \in Pages, SwitchUpdate(page) PROVE PublishedShown'
  BY <1>8 DEF SwitchUpdate, Arrive, PollingAfterSwitch, LoadInitial, ScopeBegun
<1>9. ASSUME Unmount PROVE PublishedShown'
  BY <1>9 DEF Unmount, Arrive
<1>10. CASE UNCHANGED <<loads, detail, polling, published>>
  BY <1>10
<1>11. QED
  BY NextCases, <1>1, <1>2, <1>3, <1>4, <1>5, <1>6, <1>7, <1>8, <1>9, <1>10
  DEF Poll, ServePoll, Click, ActFails, ActReturns, MoveOn, DataChange,
      Navigate, NavigationFails, CancelledPushSettles, vars

\* Every callback keeps ShownIsCurrent.
LEMMA ShownIsCurrentStep ==
  TypeOK /\ CurrentLoads /\ ShownIsCurrent /\ [Next]_vars
  => ShownIsCurrent'
<1> SUFFICES ASSUME TypeOK, CurrentLoads, ShownIsCurrent, [Next]_vars
             PROVE  ShownIsCurrent'
  OBVIOUS
<1> USE PageAssumption DEF TypeOK, PageTypes, CounterTypes, LoadTypes, CurrentLoads,
        ShownIsCurrent, router, server
<1>1. ASSUME NEW l \in loads, ShowUpdate(l) PROVE ShownIsCurrent'
  <2>1. detail' \in Details /\ detail'.update = l.page
    BY <1>1 DEF ShowUpdate, Details, Answers, Status
  <2>2. mounted => l.page = route
    BY <1>1 DEF ShowUpdate, isActiveScope
  <2>3. QED
    BY <1>1, <2>1, <2>2 DEF ShowUpdate
<1>2. ASSUME NEW l \in loads, LoadFails(l) PROVE ShownIsCurrent'
  BY <1>2 DEF LoadFails, isActiveScope, Push, Pages
<1>3. ASSUME NEW q \in polls, PollReturns(q) PROVE ShownIsCurrent'
  <2>1. detail # None /\ detail' \in Details /\ detail'.update = detail.update
        /\ detail'.status = detail.status
    BY <1>3 DEF PollReturns, Fulfilled, PollTypes, Details
  <2>2. QED
    BY <1>3, <2>1 DEF PollReturns
<1>4. ASSUME PublishReturns PROVE ShownIsCurrent'
  BY <1>4 DEF PublishReturns, LoadInitial, ScopeBegun
<1>5. ASSUME NEW page \in Pages, ActReturns(page) PROVE ShownIsCurrent'
  BY <1>5 DEF ActReturns
<1>6. ASSUME NEW page \in Pages, SwitchUpdate(page) PROVE ShownIsCurrent'
  BY <1>6 DEF SwitchUpdate, Arrive, PollingAfterSwitch, LoadInitial, ScopeBegun
<1>7. ASSUME NEW page \in Pages, MoveOn(page) PROVE ShownIsCurrent'
  BY <1>7 DEF MoveOn, Arrive
<1>8. ASSUME Unmount PROVE ShownIsCurrent'
  BY <1>8 DEF Unmount, Arrive
<1>9. CASE UNCHANGED <<route, mounted, loading, failed, detail>>
  BY <1>9
<1>10. QED
  BY NextCases, <1>1, <1>2, <1>3, <1>4, <1>5, <1>6, <1>7, <1>8, <1>9
  DEF ServeLoad, IgnoreLoad, Poll, ServePoll, Click, ServeAct, ActFails, DataChange,
      Navigate, NavigationFails, CancelledPushSettles, vars

\* Every callback keeps PollsWhatIsShown.
LEMMA PollsWhatIsShownStep ==
  TypeOK /\ CurrentLoads /\ PollsWhatIsShown /\ [Next]_vars
  => PollsWhatIsShown'
<1> SUFFICES ASSUME TypeOK, CurrentLoads, PollsWhatIsShown, [Next]_vars
             PROVE  PollsWhatIsShown'
  OBVIOUS
<1> USE PageAssumption DEF TypeOK, PageTypes, CounterTypes, LoadTypes, CurrentLoads,
        PollsWhatIsShown, router, server
<1>1. ASSUME NEW l \in loads, ShowUpdate(l) PROVE PollsWhatIsShown'
  BY <1>1 DEF ShowUpdate, isActiveScope, RefreshLiveData, Returned
<1>2. ASSUME NEW l \in loads, LoadFails(l) PROVE PollsWhatIsShown'
  BY <1>2 DEF LoadFails, isActiveScope, Push, Pages
<1>3. ASSUME NEW q \in polls, PollReturns(q) PROVE PollsWhatIsShown'
  <2>1. detail # None /\ detail' \in Details /\ detail'.update = detail.update
        /\ detail'.status = detail.status
    BY <1>3 DEF PollReturns, Fulfilled, PollTypes, Details
  <2>2. QED
    BY <1>3, <2>1 DEF PollReturns
<1>4. ASSUME PublishReturns PROVE PollsWhatIsShown'
  BY <1>4 DEF PublishReturns, LoadInitial, ScopeBegun
<1>5. ASSUME NEW page \in Pages, ActReturns(page) PROVE PollsWhatIsShown'
  BY <1>5 DEF ActReturns
<1>6. ASSUME NEW page \in Pages, SwitchUpdate(page) PROVE PollsWhatIsShown'
  BY <1>6 DEF SwitchUpdate, Arrive, PollingAfterSwitch, LoadInitial, ScopeBegun
<1>7. ASSUME NEW page \in Pages, MoveOn(page) PROVE PollsWhatIsShown'
  BY <1>7 DEF MoveOn, Arrive
<1>8. ASSUME Unmount PROVE PollsWhatIsShown'
  BY <1>8 DEF Unmount, Arrive
<1>9. CASE UNCHANGED <<route, mounted, abandoned, loading, failed, polling, detail>>
  BY <1>9
<1>10. QED
  BY NextCases, <1>1, <1>2, <1>3, <1>4, <1>5, <1>6, <1>7, <1>8, <1>9
  DEF ServeLoad, IgnoreLoad, Poll, ServePoll, Click, ServeAct, ActFails, DataChange,
      Navigate, NavigationFails, CancelledPushSettles, vars

-----------------------------------------------------------------------------
(***************************************************************************)
(* The polls.                                                               *)
(***************************************************************************)

\* The polls of the current scope are about the update shown, which is published, and
\* one poll at most is the newest.
CurrentPolls ==
  /\ \A q \in polls : mounted /\ q.scope = scopeGeneration =>
       q.page = route /\ detail.update = route /\ route \in published
  /\ \A q, p \in polls : q.id = statsRequestId /\ p.id = statsRequestId => q = p

\* A load that found a draft comes before every poll of its scope.
DraftsAreNotPolled ==
  \A l \in loads :
    (mounted /\ l.scope = scopeGeneration /\ l.data # None /\ l.data.status = "pending")
    => ~polling /\ \A q \in polls : q.scope # scopeGeneration

\* The newest poll of the scope was answered after the numbers shown.
NewestPoll ==
  \A q \in polls :
    (mounted /\ q.scope = scopeGeneration /\ q.id = statsRequestId /\ q.data # None)
    => detail.statsAt <= q.data

\* The numbers shown are those of the update shown.
OwnStats == mounted /\ detail # None => detail.statsOf = detail.update

\* Every callback keeps CurrentPolls.
LEMMA CurrentPollsStep ==
  TypeOK /\ CurrentLoads /\ PublishedShown /\ PollsWhatIsShown /\ CurrentPolls
  /\ [Next]_vars
  => CurrentPolls'
<1> SUFFICES ASSUME TypeOK, CurrentLoads, PublishedShown, PollsWhatIsShown,
                    CurrentPolls, [Next]_vars
             PROVE  CurrentPolls'
  OBVIOUS
<1> USE PageAssumption DEF TypeOK, PageTypes, CounterTypes, LoadTypes, PollTypes,
        CurrentLoads, router, server, PublishedShown, PollsWhatIsShown, CurrentPolls
<1>1. ASSUME NEW l \in loads, ShowUpdate(l) PROVE CurrentPolls'
  BY <1>1 DEF ShowUpdate, isActiveScope, RefreshLiveData, Returned
<1>2. ASSUME Poll PROVE CurrentPolls'
  BY <1>2 DEF Poll, RefreshLiveData
<1>3. ASSUME NEW q \in polls, ServePoll(q) PROVE CurrentPolls'
  BY <1>3 DEF ServePoll
<1>4. ASSUME NEW q \in polls, PollReturns(q) PROVE CurrentPolls'
  BY <1>4 DEF PollReturns, IsNewest, isActiveScope, Fulfilled
<1>5. ASSUME ServeAct PROVE CurrentPolls'
  BY <1>5 DEF ServeAct
<1>6. ASSUME PublishReturns PROVE CurrentPolls'
  BY <1>6 DEF PublishReturns, LoadInitial, ScopeBegun
<1>7. ASSUME NEW page \in Pages, SwitchUpdate(page) PROVE CurrentPolls'
  BY <1>7 DEF SwitchUpdate, Arrive, PollingAfterSwitch, LoadInitial, ScopeBegun
<1>8. ASSUME NEW page \in Pages, MoveOn(page) PROVE CurrentPolls'
  BY <1>8 DEF MoveOn, Arrive
<1>9. ASSUME Unmount PROVE CurrentPolls'
  BY <1>9 DEF Unmount, Arrive
<1>10. CASE UNCHANGED <<polls, mounted, route, scopeGeneration, statsRequestId, detail,
                        published>>
  BY <1>10
<1>11. QED
  BY NextCases, <1>1, <1>2, <1>3, <1>4, <1>5, <1>6, <1>7, <1>8, <1>9, <1>10
  DEF ServeLoad, LoadFails, IgnoreLoad, Click, ActFails, ActReturns, DataChange,
      Navigate, NavigationFails, CancelledPushSettles, vars

\* Every callback keeps DraftsAreNotPolled: what was polled is published by then.
LEMMA DraftsAreNotPolledStep ==
  TypeOK /\ CurrentLoads /\ PublishedShown /\ PollsWhatIsShown /\ CurrentPolls
  /\ DraftsAreNotPolled /\ [Next]_vars
  => DraftsAreNotPolled'
<1> SUFFICES ASSUME TypeOK, CurrentLoads, PublishedShown, PollsWhatIsShown,
                    CurrentPolls, DraftsAreNotPolled, [Next]_vars
             PROVE  DraftsAreNotPolled'
  OBVIOUS
<1> USE PageAssumption DEF TypeOK, PageTypes, CounterTypes, LoadTypes, PollTypes,
        CurrentLoads, router, server, PublishedShown, PollsWhatIsShown, CurrentPolls,
        DraftsAreNotPolled
<1>1. ASSUME NEW l \in loads, ServeLoad(l) PROVE DraftsAreNotPolled'
  BY <1>1 DEF ServeLoad
<1>2. ASSUME NEW l \in loads, ShowUpdate(l) PROVE DraftsAreNotPolled'
  BY <1>2 DEF ShowUpdate, isActiveScope, RefreshLiveData, Returned
<1>3. ASSUME NEW l \in loads, LoadFails(l) PROVE DraftsAreNotPolled'
  BY <1>3 DEF LoadFails, isActiveScope
<1>4. ASSUME NEW l \in loads, IgnoreLoad(l) PROVE DraftsAreNotPolled'
  BY <1>4 DEF IgnoreLoad, isActiveScope, Returned
<1>5. ASSUME Poll PROVE DraftsAreNotPolled'
  BY <1>5 DEF Poll, RefreshLiveData
<1>6. ASSUME NEW q \in polls, ServePoll(q) PROVE DraftsAreNotPolled'
  BY <1>6 DEF ServePoll
<1>7. ASSUME NEW q \in polls, PollReturns(q) PROVE DraftsAreNotPolled'
  BY <1>7 DEF PollReturns, IsNewest, isActiveScope, Fulfilled
<1>8. ASSUME PublishReturns PROVE DraftsAreNotPolled'
  BY <1>8 DEF PublishReturns, LoadInitial, ScopeBegun
<1>9. ASSUME NEW page \in Pages, SwitchUpdate(page) PROVE DraftsAreNotPolled'
  BY <1>9 DEF SwitchUpdate, Arrive, PollingAfterSwitch, LoadInitial, ScopeBegun
<1>10. ASSUME Unmount PROVE DraftsAreNotPolled'
  BY <1>10 DEF Unmount, Arrive
<1>11. CASE UNCHANGED <<mounted, loads, polls, polling, scopeGeneration>>
  BY <1>11
<1>12. QED
  BY NextCases, <1>1, <1>2, <1>3, <1>4, <1>5, <1>6, <1>7, <1>8, <1>9, <1>10, <1>11
  DEF Click, ServeAct, ActFails, ActReturns, MoveOn, DataChange,
      Navigate, NavigationFails, CancelledPushSettles, vars

\* Every callback keeps NewestPoll: an answer that is shown ends the newest poll.
LEMMA NewestPollStep ==
  TypeOK /\ CurrentLoads /\ CurrentPolls /\ DraftsAreNotPolled /\ NewestPoll
  /\ [Next]_vars
  => NewestPoll'
<1> SUFFICES ASSUME TypeOK, CurrentLoads, CurrentPolls, DraftsAreNotPolled, NewestPoll,
                    [Next]_vars
             PROVE  NewestPoll'
  OBVIOUS
<1> USE PageAssumption DEF TypeOK, PageTypes, CounterTypes, LoadTypes, PollTypes,
        CurrentLoads, router, server, CurrentPolls, DraftsAreNotPolled, NewestPoll
<1>1. ASSUME NEW l \in loads, ShowUpdate(l) PROVE NewestPoll'
  <2> USE <1>1 DEF ShowUpdate
  <2>1. CASE l.data.status = "published"
    <3> DEFINE New == [scope |-> scopeGeneration, id |-> statsRequestId + 1, page |-> route,
                       data |-> None]
    <3>1. polls' = polls \cup {New} /\ statsRequestId' = statsRequestId + 1 /\ New.data = None
      BY <2>1 DEF RefreshLiveData
    <3>2. \A q \in polls : q.id # statsRequestId + 1
      OBVIOUS
    <3>3. QED
      BY <3>1, <3>2
  <2>2. CASE l.data.status = "pending"
    <3>1. polls' = polls /\ UNCHANGED <<mounted, scopeGeneration>>
      BY <2>2
    <3>2. mounted => \A q \in polls : q.scope # scopeGeneration
      BY <2>2 DEF isActiveScope
    <3>3. QED
      BY <3>1, <3>2
  <2>3. QED
    BY <2>1, <2>2 DEF Answers, Status
<1>2. ASSUME Poll PROVE NewestPoll'
  BY <1>2 DEF Poll, RefreshLiveData
<1>3. ASSUME NEW q \in polls, ServePoll(q) PROVE NewestPoll'
  BY <1>3 DEF ServePoll
<1>4. ASSUME NEW q \in polls, PollReturns(q) PROVE NewestPoll'
  BY <1>4 DEF PollReturns, IsNewest, isActiveScope, Fulfilled
<1>5. ASSUME PublishReturns PROVE NewestPoll'
  BY <1>5 DEF PublishReturns, LoadInitial, ScopeBegun
<1>6. ASSUME NEW page \in Pages, SwitchUpdate(page) PROVE NewestPoll'
  BY <1>6 DEF SwitchUpdate, Arrive, PollingAfterSwitch, LoadInitial, ScopeBegun
<1>7. ASSUME Unmount PROVE NewestPoll'
  BY <1>7 DEF Unmount, Arrive
<1>8. CASE UNCHANGED <<mounted, polls, scopeGeneration, statsRequestId, detail>>
  BY <1>8
<1>9. QED
  BY NextCases, <1>1, <1>2, <1>3, <1>4, <1>5, <1>6, <1>7, <1>8
  DEF ServeLoad, LoadFails, IgnoreLoad, Click, ServeAct, ActFails, ActReturns, MoveOn,
      DataChange, Navigate, NavigationFails, CancelledPushSettles, vars

\* Every callback keeps OwnStats.
LEMMA OwnStatsStep == TypeOK /\ CurrentPolls /\ OwnStats /\ [Next]_vars => OwnStats'
<1> SUFFICES ASSUME TypeOK, CurrentPolls, OwnStats, [Next]_vars PROVE OwnStats'
  OBVIOUS
<1> USE PageAssumption DEF TypeOK, PageTypes, CounterTypes, LoadTypes, PollTypes,
        CurrentPolls, OwnStats, router, server
<1>1. ASSUME NEW l \in loads, ShowUpdate(l) PROVE OwnStats'
  BY <1>1 DEF ShowUpdate, isActiveScope, RefreshLiveData, Returned
<1>2. ASSUME NEW q \in polls, PollReturns(q) PROVE OwnStats'
  BY <1>2 DEF PollReturns, IsNewest, isActiveScope, Fulfilled
<1>3. ASSUME Unmount PROVE OwnStats'
  BY <1>3 DEF Unmount, Arrive
<1>4. CASE UNCHANGED <<mounted, detail>>
  BY <1>4
<1>5. QED
  BY NextCases, <1>1, <1>2, <1>3, <1>4
  DEF ServeLoad, LoadFails, IgnoreLoad, Poll, ServePoll, Click, ServeAct,
      PublishReturns, ActFails, ActReturns, SwitchUpdate, MoveOn, DataChange,
      Navigate, NavigationFails, CancelledPushSettles, vars

-----------------------------------------------------------------------------
(***************************************************************************)
(* What holds of the page.                                                  *)
(***************************************************************************)

IInv ==
  /\ TypeOK
  /\ CurrentLoads
  /\ AwaitedPublish
  /\ PublishedShown
  /\ ShownIsCurrent
  /\ PollsWhatIsShown
  /\ CurrentPolls
  /\ DraftsAreNotPolled
  /\ NewestPoll
  /\ OwnStats

\* The invariant holds initially and is kept by every callback.
THEOREM Invariance == Spec => []IInv
<1>1. TypeOK /\ Init => IInv
  BY DEF Init, IInv, CurrentLoads, AwaitedPublish, PublishedShown, ShownIsCurrent,
         PollsWhatIsShown, CurrentPolls, DraftsAreNotPolled, NewestPoll, OwnStats
<1>2. TypeOK' /\ IInv /\ [Next]_vars => IInv'
  BY CurrentLoadsStep, AwaitedPublishStep, PublishedShownStep, ShownIsCurrentStep,
     PollsWhatIsShownStep, CurrentPollsStep, DraftsAreNotPolledStep, NewestPollStep,
     OwnStatsStep DEF IInv
<1>3. QED
  BY <1>1, <1>2, TypeCorrect, PTL DEF Spec

\* However often the user switches pages while loads are under way, in whatever order
\* they return, and whichever push is refused or cancelled: the page shows the update of
\* its route, unless its last load has failed.
THEOREM ShownCurrent == Spec => []ShownIsCurrent
<1>1. IInv => ShownIsCurrent
  BY DEF IInv
<1>2. QED
  BY <1>1, Invariance, PTL

\* Unless its last load has failed, a published update's page polls and a draft's does
\* not; whatever has failed, no other update than the one shown is polled; on a page that
\* was left the timer runs only if a publish was being awaited.
THEOREM PollsShown == Spec => []PollsWhatIsShown
<1>1. IInv => PollsWhatIsShown
  BY DEF IInv
<1>2. QED
  BY <1>1, Invariance, PTL

\* The numbers shown belong to the update shown and never go back in time, in whatever
\* order the polls are answered.
THEOREM LiveAdvances == Spec => LiveDataAdvances
<1> DEFINE Advances ==
      mounted /\ mounted' /\ detail # None
      => /\ detail'.statsOf = detail'.update
         /\ (scopeGeneration' = scopeGeneration /\ loading' = loading)
            => detail'.statsAt >= detail.statsAt
<1>1. IInv /\ IInv' /\ [Next]_vars => Advances
  <2> SUFFICES ASSUME IInv, IInv', [Next]_vars, mounted, mounted', detail # None
               PROVE  /\ detail'.statsOf = detail'.update
                      /\ (scopeGeneration' = scopeGeneration /\ loading' = loading)
                         => detail'.statsAt >= detail.statsAt
    OBVIOUS
  <2> USE PageAssumption DEF IInv, TypeOK, PageTypes, CounterTypes
  <2>1. detail.statsAt \in Nat
    BY DEF Details
  <2>2. ASSUME NEW l \in loads, ShowUpdate(l)
        PROVE  detail' # None /\ loading' # loading
    <3>1. detail' \in Details
      BY <2>2 DEF ShowUpdate, LoadTypes, Details, Answers, Status
    <3>2. QED
      BY <2>2, <3>1 DEF ShowUpdate, isActiveScope, CurrentLoads
  <2>3. ASSUME NEW q \in polls, PollReturns(q)
        PROVE  detail' # None /\ detail'.statsAt >= detail.statsAt
    <3>1. detail' \in Details
      BY <2>3 DEF PollReturns, Fulfilled, PollTypes, Details
    <3>2. detail'.statsAt >= detail.statsAt
      BY <2>1, <2>3 DEF PollReturns, IsNewest, isActiveScope, Fulfilled, NewestPoll, Details
    <3>3. QED
      BY <3>1, <3>2
  <2>4. \/ \E l \in loads : ShowUpdate(l)
        \/ \E q \in polls : PollReturns(q)
        \/ detail' = detail
    BY NextCases
    DEF ServeLoad, LoadFails, IgnoreLoad, Poll, ServePoll, Click, ServeAct, PublishReturns,
        ActFails, ActReturns, SwitchUpdate, MoveOn, Unmount, Navigate, NavigationFails,
        CancelledPushSettles, DataChange, vars
  <2>5. detail' # None
    BY <2>2, <2>3, <2>4
  <2>6. detail'.statsOf = detail'.update
    BY <2>5 DEF OwnStats
  <2>7. loading' = loading => detail'.statsAt >= detail.statsAt
    BY <2>1, <2>2, <2>3, <2>4
  <2>8. QED
    BY <2>6, <2>7
<1>2. QED
  BY <1>1, Invariance, PTL DEF Spec, LiveDataAdvances

===============================================================================
