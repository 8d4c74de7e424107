-------------------------- MODULE UpdateDetailPage --------------------------
(***************************************************************************)
(* The dashboard's page of one update: it loads the update its route names,  *)
(* polls the live data of a published one, and publishes, republishes or     *)
(* deletes it, while the user moves between pages and answers arrive late.   *)
(*                                                                         *)
(* JavaScript runs one callback at a time: an action is the code from one    *)
(* await to the next.  The component is reused when the route goes from one  *)
(* update to another and unmounted when it goes elsewhere; what it awaits    *)
(* still returns then.  An abort makes a pending request reject, unless its  *)
(* answer is there already: an aborted request may still be answered.        *)
(* The statistics stand for all live data: the client events are fetched,    *)
(* guarded and shown with them.  The badges and toasts are left out.         *)
(*                                                                         *)
(* The router goes to a page in two steps: before it arrives a guard looks   *)
(* the app up.  A newer navigation cancels it, and a lookup that fails ends  *)
(* it where it began.  Of the user's own navigations only what they do is     *)
(* kept: they cancel a push, and arrive anywhere at any time or not at all.   *)
(***************************************************************************)
EXTENDS Naturals

CONSTANTS
  Updates,    \* the updates of one app
  Elsewhere,  \* any page but an update's
  None,
  MaxScopes,  \* bound: scopes begun
  MaxPolls,   \* bound: live data requests the timer starts
  MaxTime     \* bound: changes of the live data

Status == {"pending", "published"}
Kinds == {"publish", "republish", "delete"}

Pages == Updates \cup {Elsewhere}
Answers == [status : Status, time : Nat]        \* what a load returns
Details == [update : Updates, status : Status, statsOf : Updates, statsAt : Nat]
Phases == {"sent", "served", "reload", "pushed", "cancelled"}
Acts == [kind : Kinds, page : Updates, phase : Phases]

ASSUME PageAssumption ==
  /\ Elsewhere \notin Updates
  /\ None \notin Pages
  /\ None \notin Nat
  /\ None \notin Answers
  /\ None \notin Details
  /\ None \notin Acts
  /\ {MaxScopes, MaxPolls, MaxTime} \subseteq Nat

VARIABLES
  route,           \* the page the router is on
  goal,            \* where the code has sent it and it is on its way to, or None
  mounted,         \* is the component mounted?
  detail,          \* what the page shows, None before the first load
  loading,         \* does the page show its skeleton instead?
  polling,         \* is the poll timer set?
  scopeGeneration,
  statsRequestId,
  loads,           \* getUpdate calls not yet returned
  polls,           \* pairs of live data calls not yet returned
  act,             \* the publish, republish or delete in progress, or None
  published,       \* server: updates that are published
  time,            \* server: number of changes of the live data
  abandoned,       \* history: the page was left while a publish was awaited
  failed           \* history: the page's last load has failed

router == <<route, goal, mounted, abandoned>>
server == <<published, time>>
vars == <<router, detail, loading, failed, polling, scopeGeneration, statsRequestId, loads,
          polls, act, server>>

PageTypes ==
  /\ route \in Pages
  /\ goal \in (Pages \cup {None}) \ {route}
  /\ mounted \in BOOLEAN /\ loading \in BOOLEAN /\ polling \in BOOLEAN
  /\ abandoned \in BOOLEAN /\ failed \in BOOLEAN
  /\ mounted => route \in Updates
  /\ detail \in Details \cup {None}
  /\ polling => detail # None

CounterTypes ==
  /\ scopeGeneration \in Nat /\ scopeGeneration > 0
  /\ statsRequestId \in Nat
  /\ time \in Nat
  /\ detail # None => detail.statsAt <= time
  /\ act \in Acts \cup {None}
  /\ published \subseteq Updates

LoadTypes ==
  \A l \in loads :
    /\ l \in [scope : 1..scopeGeneration, page : Pages, forAct : BOOLEAN,
             data : Answers \cup {None}]
    /\ l.data # None => l.page \in Updates /\ l.data.time <= time

PollTypes ==
  \A q \in polls :
    /\ q \in [scope : 1..scopeGeneration, id : 1..statsRequestId, page : Pages,
             data : Nat \cup {None}]
    /\ detail # None
    /\ q.data # None => q.page \in Updates /\ q.data <= time

TypeOK == PageTypes /\ CounterTypes /\ LoadTypes /\ PollTypes

-----------------------------------------------------------------------------
Init ==
  /\ route \in Updates
  /\ goal = None
  /\ mounted = TRUE
  /\ detail = None
  /\ loading = TRUE
  /\ polling = FALSE
  /\ scopeGeneration = 1
  /\ statsRequestId = 0
  /\ loads = {[scope |-> 1, page |-> route, forAct |-> FALSE, data |-> None]}
  /\ polls = {}
  /\ act = None
  /\ published \in SUBSET Updates
  /\ time = 0
  /\ abandoned = FALSE
  /\ failed = FALSE

\* The mutant forgets to compare.
isActiveScope_Always(scope) == TRUE
isActiveScope(scope) == scope = scopeGeneration

\* Mutant: the call remembers the generation before it is counted up.
ScopeBegun_PostIncrement == scopeGeneration
ScopeBegun == scopeGeneration + 1

\* beginScope and loadInitial up to its await, for the page the route is on.
LoadInitial(page, forAct) ==
  /\ scopeGeneration < MaxScopes
  /\ scopeGeneration' = scopeGeneration + 1
  /\ loads' = loads \cup {[scope |-> ScopeBegun, page |-> page,
                           forAct |-> forAct, data |-> None]}
  /\ loading' = TRUE
  /\ failed' = FALSE

\* refreshLiveData up to its await.
RefreshLiveData ==
  /\ statsRequestId' = statsRequestId + 1
  /\ polls' = polls \cup {[scope |-> scopeGeneration, id |-> statsRequestId + 1,
                           page |-> route, data |-> None]}

\* router.push: a navigation under way is cancelled, and there is none to the page the
\* router is on.
Push(page) == goal' = IF page = route THEN None ELSE page

\* The act that awaits a push which has been cancelled.
PushCancelled ==
  IF act # None /\ act.phase = "pushed" THEN [act EXCEPT !.phase = "cancelled"] ELSE act

\* The publish that awaits this load is over once the load has returned.
Returned(l) ==
  /\ loads' = loads \ {l}
  /\ act' = IF l.forAct THEN None ELSE act

\* The server answers a load; only an update can be found.
ServeLoad(l) ==
  /\ l.data = None
  /\ l.page \in Updates
  /\ loads' = (loads \ {l}) \cup {[l EXCEPT !.data =
                 [status |-> IF l.page \in published THEN "published" ELSE "pending",
                  time |-> time]]}
  /\ UNCHANGED <<router, detail, loading, failed, polling, scopeGeneration, statsRequestId, polls,
                 act, server>>

\* loadInitial after its await: the update is shown, and polled if it is published.
ShowUpdate(l) ==
  /\ l.data # None
  /\ isActiveScope(l.scope)
  /\ detail' = [update |-> l.page, status |-> l.data.status,
                statsOf |-> l.page, statsAt |-> l.data.time]
  /\ loading' = FALSE
  /\ polling' = (l.data.status = "published")
  /\ IF l.data.status = "published" THEN RefreshLiveData
                                    ELSE UNCHANGED <<polls, statsRequestId>>
  /\ Returned(l)
  /\ UNCHANGED <<router, failed, scopeGeneration, server>>

\* loadInitial when its call rejects: the router is sent to the list of updates, and
\* nobody waits for it to get there.
LoadFails(l) ==
  /\ isActiveScope(l.scope)
  /\ Push(Elsewhere)
  /\ loading' = FALSE
  /\ failed' = TRUE
  /\ loads' = loads \ {l}
  /\ act' = IF l.forAct THEN None ELSE PushCancelled
  /\ UNCHANGED <<route, mounted, abandoned, detail, polling, scopeGeneration,
                 statsRequestId, polls, server>>

\* loadInitial after its scope has been left, whatever the call returned.
IgnoreLoad(l) ==
  /\ ~isActiveScope(l.scope)
  /\ Returned(l)
  /\ UNCHANGED <<router, detail, loading, failed, polling, scopeGeneration, statsRequestId, polls,
                 server>>

-----------------------------------------------------------------------------
\* The poll timer fires.
Poll ==
  /\ polling
  /\ detail.status = "published"
  /\ statsRequestId < MaxPolls
  /\ RefreshLiveData
  /\ UNCHANGED <<router, detail, loading, failed, polling, scopeGeneration, loads, act, server>>

ServePoll(q) ==
  /\ q.data = None
  /\ q.page \in Updates
  /\ polls' = (polls \ {q}) \cup {[q EXCEPT !.data = time]}
  /\ UNCHANGED <<router, detail, loading, failed, polling, scopeGeneration, statsRequestId, loads,
                 act, server>>

\* Is the answer to the newest request of the current scope?  One mutant does not
\* compare the scopes, the other not the requests.
IsNewest_AnyScope(q) == q.id = statsRequestId
IsNewest_AnyRequest(q) == isActiveScope(q.scope)
IsNewest(q) == isActiveScope(q.scope) /\ q.id = statsRequestId

\* Mutant: a rejected call is taken for an answer.
Fulfilled_Assumed(q) == TRUE
Fulfilled(q) == q.data # None

\* refreshLiveData after its await: the newest request's answer is shown.
PollReturns(q) ==
  /\ polls' = polls \ {q}
  /\ detail' = IF IsNewest(q) /\ Fulfilled(q)
               THEN [detail EXCEPT !.statsOf = q.page, !.statsAt = q.data]
               ELSE detail
  /\ UNCHANGED <<router, loading, failed, polling, scopeGeneration, statsRequestId, loads,
                 act, server>>

-----------------------------------------------------------------------------
\* The buttons of the update shown.  The request names the update of the route.
Click(kind) ==
  /\ mounted /\ ~loading /\ detail # None
  /\ act = None
  /\ kind = "publish" => detail.status = "pending"
  /\ kind = "republish" => detail.status = "published"
  /\ act' = [kind |-> kind, page |-> route, phase |-> "sent"]
  /\ UNCHANGED <<router, detail, loading, failed, polling, scopeGeneration, statsRequestId, loads,
                 polls, server>>

\* The server executes it.
ServeAct ==
  /\ act # None /\ act.phase = "sent"
  /\ act' = [act EXCEPT !.phase = "served"]
  /\ published' = IF act.kind = "publish" THEN published \cup {act.page} ELSE published
  /\ UNCHANGED <<router, detail, loading, failed, polling, scopeGeneration, statsRequestId, loads,
                 polls, time>>

\* publish goes on by loading the update again, even if the page has been left.
PublishReturns ==
  /\ act # None /\ act.phase = "served" /\ act.kind = "publish"
  /\ act' = [act EXCEPT !.phase = "reload"]
  /\ LoadInitial(route, TRUE)
  /\ UNCHANGED <<router, detail, polling, statsRequestId, polls, server>>

\* republish goes on to the page of the new draft, delete to the list, and both wait
\* until the router is there.
ActReturns(page) ==
  /\ act # None /\ act.phase = "served" /\ act.kind # "publish"
  /\ IF act.kind = "delete" THEN page = Elsewhere ELSE page \in Updates \ {route}
  /\ Push(page)
  /\ act' = IF page = route THEN None ELSE [act EXCEPT !.phase = "pushed"]
  /\ UNCHANGED <<route, mounted, abandoned, detail, loading, failed, polling, scopeGeneration,
                 statsRequestId, loads, polls, server>>

ActFails ==
  /\ act # None /\ act.phase \in {"sent", "served"}
  /\ act' = None
  /\ UNCHANGED <<router, detail, loading, failed, polling, scopeGeneration, statsRequestId, loads,
                 polls, server>>

-----------------------------------------------------------------------------
\* The user chooses another page, and a push under way is cancelled.
Navigate ==
  /\ goal # None
  /\ goal' = None
  /\ act' = PushCancelled
  /\ UNCHANGED <<route, mounted, abandoned, detail, loading, failed, polling, scopeGeneration,
                 statsRequestId, loads, polls, server>>

\* The act that awaits the push under way, when that ends.
PushEnded == IF act # None /\ act.phase = "pushed" THEN None ELSE act

\* The guard rethrows what looking up the app has thrown: the push rejects and the router
\* stays where it is.
NavigationFails ==
  /\ goal # None
  /\ goal' = None
  /\ act' = PushEnded
  /\ UNCHANGED <<route, mounted, abandoned, detail, loading, failed, polling, scopeGeneration,
                 statsRequestId, loads, polls, server>>

\* A cancelled push settles once its guard has returned, whatever the newer one does.
CancelledPushSettles ==
  /\ act # None /\ act.phase = "cancelled"
  /\ act' = None
  /\ UNCHANGED <<router, detail, loading, failed, polling, scopeGeneration, statsRequestId,
                 loads, polls, server>>

\* The router reaches page: where it was sent, where the guard redirects it to (the list
\* of apps or the login), or where the user wants to go if no push is newer.
Arrive(page) ==
  /\ page # route
  /\ goal # None => page \in {goal, Elsewhere}
  /\ route' = page
  /\ goal' = None
  /\ act' = PushEnded

\* Mutant: the watcher leaves the timer running.
PollingAfterSwitch_Kept == polling
PollingAfterSwitch == FALSE

\* The route names another update: the watcher stops the timer and loads it.
SwitchUpdate(page) ==
  /\ mounted /\ page \in Updates
  /\ Arrive(page)
  /\ polling' = PollingAfterSwitch
  /\ LoadInitial(page, FALSE)
  /\ UNCHANGED <<mounted, abandoned, detail, statsRequestId, polls, server>>

\* The page is left: the component stops its timer and cancels its scope.
Unmount ==
  /\ mounted
  /\ Arrive(Elsewhere)
  /\ mounted' = FALSE
  /\ polling' = FALSE
  /\ scopeGeneration' = scopeGeneration + 1
  /\ statsRequestId' = statsRequestId + 1
  /\ abandoned' = (act # None /\ act.kind = "publish" /\ act.phase \in {"sent", "served"})
  /\ UNCHANGED <<detail, loading, failed, loads, polls, server>>

\* The router moves on after that; a new component serves the update's pages.
MoveOn(page) ==
  /\ ~mounted
  /\ Arrive(page)
  /\ UNCHANGED <<mounted, abandoned, detail, loading, failed, polling, scopeGeneration,
                 statsRequestId, loads, polls, server>>

\* Devices report to the server.
DataChange ==
  /\ time < MaxTime
  /\ time' = time + 1
  /\ UNCHANGED <<router, detail, loading, failed, polling, scopeGeneration, statsRequestId, loads,
                 polls, act, published>>

LoadStep(l) == ServeLoad(l) \/ ShowUpdate(l) \/ LoadFails(l) \/ IgnoreLoad(l)

Next ==
  \/ \E l \in loads : LoadStep(l)
  \/ Poll
  \/ \E q \in polls : ServePoll(q) \/ PollReturns(q)
  \/ \E kind \in Kinds : Click(kind)
  \/ ServeAct \/ PublishReturns \/ ActFails
  \/ \E page \in Pages : ActReturns(page) \/ SwitchUpdate(page)
                                          \/ MoveOn(page)
  \/ Unmount \/ Navigate \/ NavigationFails \/ CancelledPushSettles
  \/ DataChange

Spec == Init /\ [][Next]_vars

\* A request is answered, or fails.
Fairness == WF_vars(\E l \in loads : LoadStep(l))
FairSpec == Spec /\ Fairness

-----------------------------------------------------------------------------
\* The page shows the update of its route: no answer from before a switch gets through.
\* Only after its last load has failed does it show an older one or none, until the push
\* to the list arrives or, if that is refused, until it is left; its buttons act on the
\* update of the route all the same.
ShownIsCurrent ==
  mounted /\ ~loading => failed \/ (detail # None /\ detail.update = route)

\* The numbers shown are those of the update shown, and as long as one load of it is
\* shown they never go back in time, in whatever order the answers arrive.
LiveDataAdvances ==
  [][mounted /\ mounted' /\ detail # None
     => /\ detail'.statsOf = detail'.update
        /\ (scopeGeneration' = scopeGeneration /\ loading' = loading)
           => detail'.statsAt >= detail.statsAt]_vars

\* Once loaded, the page of a published update runs the timer and that of a draft does
\* not; whatever failed since, the timer polls no other update than the one shown.  On a
\* page that was left it should have stopped, as the documentation says, and it has but
\* for one case: a publish that was being awaited starts it again.
PollsWhatIsShown ==
  /\ mounted /\ ~loading /\ ~failed => (polling <=> detail.status = "published")
  /\ mounted /\ polling => detail.update = route
  /\ ~mounted /\ polling => abandoned

\* The skeleton always gives way, unless the page is left first.
LoadingEnds == loading ~> (~loading \/ ~mounted)
==============================================================================
