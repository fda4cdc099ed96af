------------------------------ MODULE ConsoleLink ------------------------------
(***************************************************************************)
(* The Argo CD route controller (src/controllers/argocd_controller.go):    *)
(* the ConsoleLink in the OpenShift console's application menu follows the *)
(* host of the route openshift-gitops-server.                              *)
(*                                                                         *)
(* The controller watches the route only.  Its reads of the ConsoleLink    *)
(* come from an informer cache whose events wake nobody up.                *)
(***************************************************************************)
EXTENDS Naturals

CONSTANTS
    Hosts,          \* hosts the route may have
    NoHost,         \* the route, or the link, does not exist
    MaxEdits,       \* changes of the route
    MaxFaults,      \* transient API errors
    MaxRestarts     \* restarts of the operator

ASSUME HostAssumption == NoHost \notin Hosts
ASSUME BoundAssumption ==
    MaxEdits \in Nat /\ MaxFaults \in Nat /\ MaxRestarts \in Nat

VARIABLES
    route,          \* host of the route in the API server
    cachedRoute,    \* host of the route in the informer cache
    routeEvent,     \* the route's informer has an event to come
    link,           \* host in the ConsoleLink's Href
    cachedLink,     \* the same in the informer cache
    linkEvent,      \* the link's informer has an event to come
    queued,         \* a reconcile request is in the work queue
    busy,           \* the worker is between its two reads
    seen,           \* the host it read
    disabled,       \* DISABLE_DEFAULT_ARGOCD_CONSOLELINK of this process
    edits, faults, restarts

routeVars == <<route, cachedRoute, routeEvent>>
linkVars  == <<link, cachedLink, linkEvent>>
bounds    == <<edits, faults, restarts>>
vars == <<routeVars, linkVars, queued, busy, seen, disabled, bounds>>

MaybeHost == Hosts \cup {NoHost}

-----------------------------------------------------------------------------
\* Reconcile reads the route.
ReadRoute ==
    /\ ~busy /\ queued
    /\ queued' = FALSE /\ busy' = TRUE /\ seen' = cachedRoute
    /\ UNCHANGED <<routeVars, linkVars, disabled, bounds>>

\* Mutant of Done: the worker is left with what it read.
DoneAndRemembers == busy' = FALSE /\ UNCHANGED seen

Done == busy' = FALSE /\ seen' = NoHost
Ok   == Done /\ UNCHANGED queued

\* Mutant of Err: the error is logged and not returned.
LogOnly == Done /\ UNCHANGED queued

Err  == Done /\ queued' = TRUE

SetLink(h) == link' = h /\ linkEvent' = TRUE /\ cachedLink' = cachedLink

\* Mutant of DeleteConsoleLinkIfPresent: NotFound from the cache is an error.
DeleteConsoleLink ==
    /\ busy /\ (seen = NoHost \/ disabled)
    /\ \/ cachedLink # NoHost /\ link # NoHost /\ SetLink(NoHost) /\ Ok
       \/ /\ cachedLink = NoHost \/ link = NoHost
          /\ UNCHANGED linkVars /\ Err
    /\ UNCHANGED <<routeVars, disabled, bounds>>

\* deleteConsoleLinkIfPresent: nothing to do when the cache has no link; a
\* Delete that finds no link is an error.
DeleteConsoleLinkIfPresent ==
    /\ busy /\ (seen = NoHost \/ disabled)
    /\ \/ cachedLink = NoHost /\ Ok /\ UNCHANGED linkVars
       \/ cachedLink # NoHost /\ link # NoHost /\ SetLink(NoHost) /\ Ok
       \/ cachedLink # NoHost /\ link = NoHost /\ UNCHANGED linkVars /\ Err
    /\ UNCHANGED <<routeVars, disabled, bounds>>

CreateConsoleLink ==
    /\ busy /\ seen # NoHost /\ ~disabled /\ cachedLink = NoHost
    /\ \/ link = NoHost /\ SetLink(seen) /\ Ok
       \/ link # NoHost /\ UNCHANGED linkVars /\ Err
    /\ UNCHANGED <<routeVars, disabled, bounds>>

\* The Update is refused when the link has changed since it was cached.
UpdateConsoleLink ==
    /\ busy /\ seen # NoHost /\ ~disabled /\ cachedLink # NoHost
    /\ \/ cachedLink = seen /\ UNCHANGED linkVars /\ Ok
       \/ cachedLink # seen /\ ~linkEvent /\ SetLink(seen) /\ Ok
       \/ cachedLink # seen /\ linkEvent /\ UNCHANGED linkVars /\ Err
    /\ UNCHANGED <<routeVars, disabled, bounds>>

Fault ==
    /\ busy /\ faults < MaxFaults
    /\ faults' = faults + 1
    /\ Err
    /\ UNCHANGED <<routeVars, linkVars, disabled, edits, restarts>>

-----------------------------------------------------------------------------
\* filterPredicate: every event of the route passes.
SyncRoute ==
    /\ routeEvent
    /\ cachedRoute' = route /\ routeEvent' = FALSE /\ route' = route
    /\ queued' = TRUE
    /\ UNCHANGED <<linkVars, busy, seen, disabled, bounds>>

SyncLink ==
    /\ linkEvent
    /\ cachedLink' = link /\ linkEvent' = FALSE /\ link' = link
    /\ UNCHANGED <<routeVars, queued, busy, seen, disabled, bounds>>

EditRoute(h) ==
    /\ edits < MaxEdits /\ h # route
    /\ edits' = edits + 1
    /\ route' = h /\ routeEvent' = TRUE /\ cachedRoute' = cachedRoute
    /\ UNCHANGED <<linkVars, queued, busy, seen, disabled, faults, restarts>>

\* After a restart the controller hears of the route only if there is one.
Restart(d) ==
    /\ restarts < MaxRestarts
    /\ restarts' = restarts + 1
    /\ disabled' = d /\ busy' = FALSE /\ seen' = NoHost
    /\ cachedRoute' = route /\ routeEvent' = FALSE /\ route' = route
    /\ cachedLink' = link /\ linkEvent' = FALSE /\ link' = link
    /\ queued' = (route # NoHost)
    /\ UNCHANGED <<edits, faults>>

Init ==
    /\ route = NoHost /\ cachedRoute = NoHost /\ routeEvent = FALSE
    /\ link = NoHost /\ cachedLink = NoHost /\ linkEvent = FALSE
    /\ queued = FALSE /\ busy = FALSE /\ seen = NoHost
    /\ disabled \in BOOLEAN
    /\ edits = 0 /\ faults = 0 /\ restarts = 0

WriteLink == DeleteConsoleLinkIfPresent \/ CreateConsoleLink \/ UpdateConsoleLink

Next == \/ ReadRoute \/ WriteLink \/ SyncRoute \/ SyncLink \/ Fault
        \/ \E h \in MaybeHost : EditRoute(h)
        \/ \E d \in BOOLEAN : Restart(d)

Spec == Init /\ [][Next]_vars

\* The worker and both informers keep going.
FairSpec == /\ Spec /\ WF_vars(ReadRoute) /\ WF_vars(WriteLink)
            /\ WF_vars(SyncRoute) /\ WF_vars(SyncLink)

-----------------------------------------------------------------------------
(* Properties *)

\* Type invariant; the worker remembers nothing between reconciliations.
TypeOK ==
    /\ route \in MaybeHost /\ cachedRoute \in MaybeHost /\ routeEvent \in BOOLEAN
    /\ link \in MaybeHost /\ cachedLink \in MaybeHost /\ linkEvent \in BOOLEAN
    /\ queued \in BOOLEAN /\ busy \in BOOLEAN /\ seen \in MaybeHost
    /\ disabled \in BOOLEAN /\ (~busy => seen = NoHost)
    /\ edits \in 0..MaxEdits /\ faults \in 0..MaxFaults
    /\ restarts \in 0..MaxRestarts

Settled == ~queued /\ ~busy /\ ~routeEvent /\ ~linkEvent

\* With the link disabled, an instance that has a route ends up without one:
\* the delete that a restart with the new setting calls for is not lost.
DisabledHasNoLink == Settled /\ disabled /\ route # NoHost => link = NoHost

\* Under FairSpec the errors of stale reads (AlreadyExists, NotFound, Conflict)
\* are retried only until the informers have caught up.
Quiesces == <>[]Settled

=============================================================================
