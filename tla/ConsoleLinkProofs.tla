--------------------------- MODULE ConsoleLinkProofs ---------------------------
(***************************************************************************)
(* Proofs about ConsoleLink, for every set of hosts and every bound.       *)
(***************************************************************************)
EXTENDS ConsoleLink, TLAPS

USE DEF routeVars, linkVars, bounds

-----------------------------------------------------------------------------
(* Types: the hosts and flags, the worker, and the counters, which the      *)
(* provers treat apart.                                                     *)

FlagTypes ==
    /\ routeEvent \in BOOLEAN /\ linkEvent \in BOOLEAN /\ queued \in BOOLEAN
    /\ busy \in BOOLEAN /\ disabled \in BOOLEAN
HostTypes ==
    /\ route \in MaybeHost /\ cachedRoute \in MaybeHost
    /\ link \in MaybeHost /\ cachedLink \in MaybeHost
    /\ seen \in MaybeHost /\ (~busy => seen = NoHost)
CounterTypes ==
    /\ edits \in 0..MaxEdits /\ faults \in 0..MaxFaults
    /\ restarts \in 0..MaxRestarts

LEMMA TypeParts == TypeOK <=> FlagTypes /\ HostTypes /\ CounterTypes
BY DEF TypeOK, FlagTypes, HostTypes, CounterTypes

LEMMA TypeInit == Init => TypeOK
<1> SUFFICES ASSUME Init PROVE FlagTypes /\ HostTypes /\ CounterTypes
  BY TypeParts
<1>1. FlagTypes
  BY Zenon DEF Init, FlagTypes
<1>2. HostTypes
  BY DEF Init, HostTypes, MaybeHost
<1>3. CounterTypes
  BY BoundAssumption DEF Init, CounterTypes
<1> QED
  BY <1>1, <1>2, <1>3

LEMMA FlagsNext == FlagTypes /\ [Next]_vars => FlagTypes'
<1> SUFFICES ASSUME FlagTypes, [Next]_vars
             PROVE  FlagTypes'
  OBVIOUS
<1> USE DEF FlagTypes
<1>1. CASE ReadRoute
  BY <1>1, Zenon DEF ReadRoute
<1>2. CASE WriteLink
  BY <1>2, Zenon DEF WriteLink, DeleteConsoleLinkIfPresent, CreateConsoleLink,
     UpdateConsoleLink, SetLink, Ok, Err, Done
<1>3. CASE Fault
  BY <1>3, Zenon DEF Fault, Err, Done
<1>4. CASE SyncRoute \/ SyncLink
  BY <1>4, Zenon DEF SyncRoute, SyncLink
<1>5. ASSUME NEW h \in MaybeHost, EditRoute(h)
      PROVE  FlagTypes'
  BY <1>5, Zenon DEF EditRoute
<1>6. ASSUME NEW d \in BOOLEAN, Restart(d)
      PROVE  FlagTypes'
  <2>1. (route # NoHost) \in BOOLEAN
    OBVIOUS
  <2> QED
    BY <1>6, <2>1, Zenon DEF Restart
<1>7. CASE UNCHANGED vars
  BY <1>7, Zenon DEF vars
<1> QED
  BY <1>1, <1>2, <1>3, <1>4, <1>5, <1>6, <1>7 DEF Next

LEMMA HostsNext == FlagTypes /\ HostTypes /\ [Next]_vars => HostTypes'
<1> SUFFICES ASSUME FlagTypes, HostTypes, [Next]_vars
             PROVE  HostTypes'
  OBVIOUS
<1> USE DEF FlagTypes, HostTypes, MaybeHost
<1>1. CASE ReadRoute
  BY <1>1 DEF ReadRoute
<1>2. CASE WriteLink
  BY <1>2 DEF WriteLink, DeleteConsoleLinkIfPresent, CreateConsoleLink,
     UpdateConsoleLink, SetLink, Ok, Err, Done
<1>3. CASE Fault
  BY <1>3 DEF Fault, Err, Done
<1>4. CASE SyncRoute \/ SyncLink
  BY <1>4 DEF SyncRoute, SyncLink
<1>5. ASSUME NEW h \in MaybeHost, EditRoute(h)
      PROVE  HostTypes'
  BY <1>5 DEF EditRoute
<1>6. ASSUME NEW d \in BOOLEAN, Restart(d)
      PROVE  HostTypes'
  BY <1>6 DEF Restart
<1>7. CASE UNCHANGED vars
  BY <1>7 DEF vars
<1> QED
  BY <1>1, <1>2, <1>3, <1>4, <1>5, <1>6, <1>7 DEF Next

LEMMA CountersNext == CounterTypes /\ [Next]_vars => CounterTypes'
<1> SUFFICES ASSUME CounterTypes, [Next]_vars
             PROVE  CounterTypes'
  OBVIOUS
<1> USE BoundAssumption DEF CounterTypes
<1>1. CASE UNCHANGED bounds
  BY <1>1
<1>2. CASE Fault
  BY <1>2 DEF Fault
<1>3. ASSUME NEW h \in MaybeHost, EditRoute(h)
      PROVE  CounterTypes'
  BY <1>3 DEF EditRoute
<1>4. ASSUME NEW d \in BOOLEAN, Restart(d)
      PROVE  CounterTypes'
  BY <1>4 DEF Restart
<1> QED
  BY <1>1, <1>2, <1>3, <1>4 DEF Next, vars, ReadRoute, WriteLink,
     DeleteConsoleLinkIfPresent, CreateConsoleLink, UpdateConsoleLink,
     SyncRoute, SyncLink

\* The state is well typed, and the worker remembers nothing between two
\* reconciliations, whatever fails and whenever the operator restarts.
THEOREM TypeCorrect == Spec => []TypeOK
<1>1. TypeOK /\ [Next]_vars => TypeOK'
  BY TypeParts, FlagsNext, HostsNext, CountersNext
     DEF TypeOK, FlagTypes, HostTypes, CounterTypes
<1> QED
  BY TypeInit, <1>1, PTL DEF Spec

-----------------------------------------------------------------------------
(* A disabled link goes away                                               *)

\* A process that has the link disabled only ever removes it, so a link that
\* is there has been there since the process started, and its cache says so.
CacheShowsLink == disabled /\ link # NoHost => cachedLink = link

\* While such a link is there and the route exists, a reconciliation is under
\* way or will be.
RemovalPending ==
    disabled /\ link # NoHost /\ route # NoHost => queued \/ busy \/ routeEvent

LinkInv == CacheShowsLink /\ RemovalPending

LEMMA LinkInvInit == Init => LinkInv
BY DEF Init, LinkInv, CacheShowsLink, RemovalPending

LEMMA LinkInvNext == TypeOK /\ LinkInv /\ [Next]_vars => LinkInv'
<1> SUFFICES ASSUME FlagTypes, HostTypes, LinkInv, [Next]_vars
             PROVE  LinkInv'
  BY TypeParts
<1> USE DEF FlagTypes, HostTypes, LinkInv, CacheShowsLink, RemovalPending
<1>1. CASE ReadRoute
  BY <1>1 DEF ReadRoute
<1>2. CASE DeleteConsoleLinkIfPresent
  BY <1>2 DEF DeleteConsoleLinkIfPresent, SetLink, Ok, Err, Done
<1>3. CASE CreateConsoleLink
  BY <1>3 DEF CreateConsoleLink, SetLink, Ok, Err, Done
<1>4. CASE UpdateConsoleLink
  BY <1>4 DEF UpdateConsoleLink, SetLink, Ok, Err, Done
<1>5. CASE Fault
  BY <1>5 DEF Fault, Err, Done
<1>6. CASE SyncRoute
  BY <1>6 DEF SyncRoute
<1>7. CASE SyncLink
  BY <1>7 DEF SyncLink
<1>8. ASSUME NEW h \in MaybeHost, EditRoute(h)
      PROVE  LinkInv'
  BY <1>8 DEF EditRoute
<1>9. ASSUME NEW d \in BOOLEAN, Restart(d)
      PROVE  LinkInv'
  BY <1>9 DEF Restart
<1>10. CASE UNCHANGED vars
  BY <1>10 DEF vars
<1> QED
  BY <1>1, <1>2, <1>3, <1>4, <1>5, <1>6, <1>7, <1>8, <1>9, <1>10
     DEF Next, WriteLink

\* With DISABLE_DEFAULT_ARGOCD_CONSOLELINK set, deleteConsoleLinkIfPresent has
\* removed the link of an instance with a route by the time the controller is
\* at rest, whatever the stale reads, API errors and restarts on the way.
THEOREM DisabledLinkIsRemoved == Spec => []DisabledHasNoLink
<1>1. LinkInv => DisabledHasNoLink
  BY DEF LinkInv, RemovalPending, DisabledHasNoLink, Settled
<1> QED
  BY TypeCorrect, LinkInvInit, LinkInvNext, <1>1, PTL DEF Spec
=============================================================================
