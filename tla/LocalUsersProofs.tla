--------------------------- MODULE LocalUsersProofs ---------------------------
(***************************************************************************)
(* Proofs about LocalUsers, for every set of users, every set of           *)
(* specifications and every bound.                                         *)
(***************************************************************************)
EXTENDS LocalUsers, FiniteSetTheorems, TLAPS

USE DEF crVars, secretVars, timerVars, bounds

\* The values the actions write have their types.
LEMMA ConstantTypes ==
    /\ NoSecret \in Secret
    /\ NoTimer \in Timer
    /\ NoCR \in CR
    /\ NoPass \in Pass
    /\ InitStore \in Store
BY LifetimeAssumption DEF NoSecret, Secret, NoTimer, Timer, NoCR, CR, NoPass,
   Pass, PassPC, Objects, UserSpec, InitStore, Store, Argo

LEMMA TypeInit == Init => TypeOK
BY ConstantTypes, SpecAssumption, BoundAssumption
   DEF Init, TypeOK, CR, UserSpec, NoPass

-----------------------------------------------------------------------------
(* What the operators that the actions are made of do to the types *)

SecretTypes == store \in Store /\ cache \in Store /\ watch \in Seq(Event)
CRTypes     == cr \in CR /\ cachedCR \in CR /\ crWatch \in Seq(CR)
TimerTypes  == timer \in [Users -> Timer] /\ zombies \in Nat
WorkTypes   ==
    /\ queued \in BOOLEAN
    /\ ctl \in {"idle", "timers", "finalizer", "users", "pass"}
    /\ pass \in Pass
    /\ pass.pc \in {"issueSecret", "issueArgo", "cleanArgo", "cleanSecret"}
         => pass.user \in Users
RestTypes   ==
    /\ renewals \in Nat /\ now \in Nat /\ nextId \in Nat \ {0}
    /\ edits \in 0..MaxEdits /\ troubles \in 0..MaxTroubles

LEMMA TypeParts ==
    TypeOK <=> SecretTypes /\ CRTypes /\ TimerTypes /\ WorkTypes /\ RestTypes
BY DEF TypeOK, SecretTypes, CRTypes, TimerTypes, WorkTypes, RestTypes

LEMMA WriteTypes ==
    ASSUME SecretTypes, NEW o \in Objects, NEW s \in Store, Write(o, s)
    PROVE  SecretTypes'
BY DEF SecretTypes, Write, Event

LEMMA WriteCRTypes ==
    ASSUME CRTypes, NEW c \in CR, WriteCR(c)
    PROVE  CRTypes'
BY DEF CRTypes, WriteCR

LEMMA StopTimerTypes ==
    ASSUME TimerTypes, NEW u \in Users, StopTimer(u)
    PROVE  TimerTypes'
BY ConstantTypes DEF TimerTypes, StopTimer

LEMMA StartTimerTypes ==
    ASSUME TimerTypes, now \in Nat, NEW u \in Users, NEW d \in Int,
           NEW b \in BOOLEAN, StartOrRestartTimer(u, d, b)
    PROVE  TimerTypes'
BY DEF TimerTypes, StartOrRestartTimer, Timer

LEMMA ReleaseTypes ==
    ASSUME WorkTypes, NEW f \in BOOLEAN, Release(f)
    PROVE  WorkTypes'
<1>1. NoPass.pc = "free"
  BY DEF NoPass
<1>2. ctl' \in {"idle", "timers", "finalizer", "users", "pass"}
  BY DEF WorkTypes, Release
<1> QED
  BY <1>1, <1>2, ConstantTypes DEF WorkTypes, Release

LEMMA GotoTypes ==
    ASSUME WorkTypes, NEW p \in Pass, Goto(p),
           p.pc \in {"issueSecret", "issueArgo", "cleanArgo", "cleanSecret"}
             => p.user \in Users
    PROVE  WorkTypes'
BY DEF WorkTypes, Goto

LEMMA ContinueTypes ==
    ASSUME WorkTypes, NEW b \in {"users", "orphans"}, Continue(b)
    PROVE  WorkTypes'
<1> DEFINE p == [pass EXCEPT !.pc = b, !.user = ArgoCDSecret, !.id = 0,
                             !.hasSecret = FALSE, !.back = "users"]
<1>1. p \in Pass /\ p.pc = b
  BY DEF WorkTypes, Pass, PassPC, Objects
<1> QED
  BY <1>1, GotoTypes DEF Continue

LEMMA TakeLockTypes ==
    ASSUME WorkTypes, CRTypes, NEW w \in {"controller", "renewal"}, TakeLock(w),
           queued' \in BOOLEAN,
           ctl' \in {"idle", "timers", "finalizer", "users", "pass"}
    PROVE  WorkTypes'
<1> DEFINE todo == {u \in Users : cachedCR.users[u].listed
                                  /\ ~Legacy(cachedCR, u)}
           p == [pass EXCEPT !.pc = "users", !.by = w, !.cr = cachedCR,
                             !.todo = todo]
<1>1. todo \in SUBSET Users
  OBVIOUS
<1> HIDE DEF todo
<1>2. p \in Pass /\ p.pc = "users"
  BY <1>1 DEF WorkTypes, CRTypes, Pass, PassPC
<1>3. pass' = pass \/ pass' = p
  BY DEF TakeLock, todo
<1> HIDE DEF p
<1> QED
  BY <1>2, <1>3 DEF WorkTypes

LEMMA SpecTypes ==
    ASSUME WorkTypes, NEW u \in Users
    PROVE  /\ SpecOf(u) \in UserSpec
           /\ Duration[SpecOf(u).life] \in Int
           /\ StoredLife(u) \in Lifetimes
BY LifetimeAssumption DEF WorkTypes, Pass, CR, SpecOf, UserSpec, StoredLife

-----------------------------------------------------------------------------
(* Every step keeps the types *)

LEMMA ControllerTypes == TypeOK /\ ControllerStep => TypeOK'
<1> SUFFICES ASSUME SecretTypes, CRTypes, TimerTypes, WorkTypes, RestTypes,
                    ControllerStep
             PROVE  SecretTypes' /\ CRTypes' /\ TimerTypes' /\ WorkTypes'
                    /\ RestTypes'
  BY DEF TypeOK, SecretTypes, CRTypes, TimerTypes, WorkTypes, RestTypes
<1>1. CASE CtlReconcile
  BY <1>1 DEF CtlReconcile, SecretTypes, CRTypes, TimerTypes, WorkTypes, RestTypes
<1>2. CASE CleanupNamespaceTokenTimers
  <2> DEFINE F == {u \in Users : timer[u].st = "firing"}
  <2>1. Cardinality(F) \in Nat
    BY NameAssumption, FS_Subset, FS_CardinalityType
  <2> HIDE DEF F
  <2>2. timer' = [u \in Users |-> NoTimer] /\ zombies' = zombies + Cardinality(F)
    BY <1>2 DEF CleanupNamespaceTokenTimers, F
  <2>3. TimerTypes'
    BY <2>1, <2>2, ConstantTypes DEF TimerTypes
  <2> QED
    BY <1>2, <2>3
       DEF CleanupNamespaceTokenTimers, SecretTypes, CRTypes, WorkTypes, RestTypes
<1>3. CASE RemoveFinalizer
  <2>1. [cr EXCEPT !.phase = "gone"] \in CR
    BY DEF CRTypes, CR
  <2>2. CRTypes' /\ queued' \in BOOLEAN
    BY <1>3, <2>1, WriteCRTypes DEF RemoveFinalizer, CRTypes, WorkTypes
  <2> QED
    BY <1>3, <2>2 DEF RemoveFinalizer, SecretTypes, TimerTypes, WorkTypes, RestTypes
<1>4. CASE CtlTakesLock
  <2>1. WorkTypes'
    BY <1>4, TakeLockTypes DEF CtlTakesLock, WorkTypes
  <2> QED
    BY <1>4, <2>1 DEF CtlTakesLock, SecretTypes, CRTypes, TimerTypes, RestTypes
<1> QED
  BY <1>1, <1>2, <1>3, <1>4 DEF ControllerStep

LEMMA RuntimeTypes == TypeOK /\ RuntimeStep => TypeOK'
<1> SUFFICES ASSUME SecretTypes, CRTypes, TimerTypes, WorkTypes, RestTypes,
                    RuntimeStep
             PROVE  SecretTypes' /\ CRTypes' /\ TimerTypes' /\ WorkTypes'
                    /\ RestTypes'
  BY DEF TypeOK, SecretTypes, CRTypes, TimerTypes, WorkTypes, RestTypes
<1>1. ASSUME NEW u \in Users, TimerElapses(u)
      PROVE  SecretTypes' /\ CRTypes' /\ TimerTypes' /\ WorkTypes' /\ RestTypes'
  <2>1. TimerTypes'
    BY <1>1 DEF TimerElapses, TimerTypes, Timer
  <2> QED
    BY <1>1, <2>1 DEF TimerElapses, SecretTypes, CRTypes, WorkTypes, RestTypes
<1>2. ASSUME NEW u \in Users, TimerCallback(u)
      PROVE  SecretTypes' /\ CRTypes' /\ TimerTypes' /\ WorkTypes' /\ RestTypes'
  <2>1. TimerTypes'
    BY <1>2 DEF TimerCallback, TimerTypes, Timer
  <2> QED
    BY <1>2, <2>1 DEF TimerCallback, SecretTypes, CRTypes, WorkTypes, RestTypes
<1>3. CASE StoppedCallback
  BY <1>3 DEF StoppedCallback, SecretTypes, CRTypes, TimerTypes, WorkTypes, RestTypes
<1>4. CASE RenewalTakesLock
  <2>1. WorkTypes'
    BY <1>4, TakeLockTypes DEF RenewalTakesLock, WorkTypes
  <2> QED
    BY <1>4, <2>1 DEF RenewalTakesLock, SecretTypes, CRTypes, TimerTypes, RestTypes
<1> QED
  BY <1>1, <1>2, <1>3, <1>4 DEF RuntimeStep

LEMMA ClusterTypes == TypeOK /\ ClusterStep => TypeOK'
<1> SUFFICES ASSUME SecretTypes, CRTypes, TimerTypes, WorkTypes, RestTypes,
                    ClusterStep
             PROVE  SecretTypes' /\ CRTypes' /\ TimerTypes' /\ WorkTypes'
                    /\ RestTypes'
  BY DEF TypeOK, SecretTypes, CRTypes, TimerTypes, WorkTypes, RestTypes
<1>1. CASE DeliverSecret
  <2>1. Head(watch) \in Event /\ Tail(watch) \in Seq(Event)
    BY <1>1 DEF DeliverSecret, SecretTypes
  <2> QED
    BY <1>1, <2>1
       DEF DeliverSecret, SecretTypes, CRTypes, TimerTypes, WorkTypes, RestTypes, Event
<1>2. CASE DeliverCR
  <2>1. Head(crWatch) \in CR /\ Tail(crWatch) \in Seq(CR)
    BY <1>2 DEF DeliverCR, CRTypes
  <2> QED
    BY <1>2, <2>1
       DEF DeliverCR, SecretTypes, CRTypes, TimerTypes, WorkTypes, RestTypes
<1>3. ASSUME NEW u \in Users, CollectUserSecret(u)
      PROVE  SecretTypes' /\ CRTypes' /\ TimerTypes' /\ WorkTypes' /\ RestTypes'
  <2>1. [store EXCEPT !.user[u] = NoSecret] \in Store
    BY ConstantTypes DEF SecretTypes, Store
  <2>2. SecretTypes'
    BY <1>3, <2>1, WriteTypes DEF CollectUserSecret, Objects
  <2> QED
    BY <1>3, <2>2 DEF CollectUserSecret, CRTypes, TimerTypes, WorkTypes, RestTypes
<1>4. CASE CollectArgoCDSecret
  <2>1. [store EXCEPT !.argo = [exists |-> FALSE, token |-> [u \in Users |-> 0]]]
          \in Store
    BY DEF SecretTypes, Store, Argo
  <2>2. SecretTypes'
    BY <1>4, <2>1, WriteTypes DEF CollectArgoCDSecret, Objects
  <2> QED
    BY <1>4, <2>2 DEF CollectArgoCDSecret, CRTypes, TimerTypes, WorkTypes, RestTypes
<1> QED
  BY <1>1, <1>2, <1>3, <1>4 DEF ClusterStep

LEMMA PassTypes == TypeOK /\ PassStep => TypeOK'
<1> SUFFICES ASSUME SecretTypes, CRTypes, TimerTypes, WorkTypes, RestTypes,
                    PassStep
             PROVE  SecretTypes' /\ CRTypes' /\ TimerTypes' /\ WorkTypes'
                    /\ RestTypes'
  BY DEF TypeOK, SecretTypes, CRTypes, TimerTypes, WorkTypes, RestTypes
<1>1. ASSUME NEW u \in Users, ReconcileLocalUser(u)
      PROVE  SecretTypes' /\ CRTypes' /\ TimerTypes' /\ WorkTypes' /\ RestTypes'
  <2> DEFINE s == cache.user[u]
             v == Verdict(u, s)
  <2>1. s \in Secret /\ SpecOf(u) \in UserSpec /\ Duration[SpecOf(u).life] \in Int
    BY SpecTypes DEF SecretTypes, Store
  <2>2. v \in {"fail", "cleanArgo", "issueSecret", "keep"}
    BY DEF Verdict
  <2>3. CASE v = "keep"
    <3>1. KeepToken(u, s)
      BY <1>1, <2>3 DEF ReconcileLocalUser
    <3>2. [store EXCEPT !.user[u] = [s EXCEPT !.renew = SpecOf(u).renew]] \in Store
      BY <2>1 DEF SecretTypes, Store, Secret, UserSpec
    <3>3. SecretTypes'
      BY <3>1, <3>2, WriteTypes DEF KeepToken, Objects, SecretTypes
    <3>4. TimerTypes'
      <4>1. (IF s.expAt # 0 THEN s.expAt - now ELSE Duration[SpecOf(u).life]) \in Int
        BY <2>1 DEF Secret, RestTypes
      <4> HIDE DEF s
      <4> QED
        BY <3>1, <4>1, StopTimerTypes, StartTimerTypes
           DEF KeepToken, TimerTypes, RestTypes
    <3>5. WorkTypes'
      <4>1. [pass EXCEPT !.todo = @ \ {u}] \in Pass
        BY DEF WorkTypes, Pass
      <4>2. [pass EXCEPT !.todo = @ \ {u}].pc = "users"
        BY <1>1 DEF ReconcileLocalUser, WorkTypes, Pass
      <4> QED
        BY <3>1, <4>1, <4>2, GotoTypes, ReleaseTypes DEF KeepToken
    <3> QED
      BY <1>1, <3>3, <3>4, <3>5 DEF ReconcileLocalUser, CRTypes, RestTypes
  <2>4. CASE v # "keep"
    <3>1. TimerTypes'
      BY <1>1, <2>4, StopTimerTypes DEF ReconcileLocalUser, TimerTypes
    <3>2. SecretTypes'
      BY <1>1, <2>4 DEF ReconcileLocalUser, SecretTypes
    <3>3. WorkTypes'
      <4> DEFINE p == [pass EXCEPT !.pc = v, !.user = u, !.todo = @ \ {u},
                                   !.hasSecret = (s.id # 0)]
      <4>1. CASE v = "fail"
        <5>1. Release(TRUE)
          BY <1>1, <4>1 DEF ReconcileLocalUser
        <5> QED
          BY <5>1, ReleaseTypes
      <4>2. CASE v # "fail"
        <5>1. v \in PassPC /\ (s.id # 0) \in BOOLEAN /\ u \in Objects
          BY <2>2, <2>4, <4>2 DEF PassPC, Objects
        <5>2. Goto(p)
          BY <1>1, <2>4, <4>2 DEF ReconcileLocalUser
        <5> HIDE DEF v, s
        <5>3. p \in Pass /\ p.user = u
          BY <5>1 DEF WorkTypes, Pass
        <5> QED
          BY <5>2, <5>3, GotoTypes
      <4> QED
        BY <4>1, <4>2
    <3> QED
      BY <1>1, <3>1, <3>2, <3>3 DEF ReconcileLocalUser, CRTypes, RestTypes
  <2> QED
    BY <2>3, <2>4
<1>2. ASSUME NEW u \in Users, CleanupUnlistedUser(u)
      PROVE  SecretTypes' /\ CRTypes' /\ TimerTypes' /\ WorkTypes' /\ RestTypes'
  <2> DEFINE p == [pass EXCEPT !.pc = "cleanArgo", !.user = u, !.todo = @ \ {u},
                               !.hasSecret = TRUE, !.back = "orphans"]
  <2>1. p \in Pass /\ p.user = u
    BY DEF WorkTypes, Pass, PassPC, Objects
  <2>2. WorkTypes'
    BY <1>2, <2>1, GotoTypes DEF CleanupUnlistedUser
  <2>3. TimerTypes'
    BY <1>2, StopTimerTypes DEF CleanupUnlistedUser
  <2> QED
    BY <1>2, <2>2, <2>3 DEF CleanupUnlistedUser, SecretTypes, CRTypes, RestTypes
<1>3. CASE IssueTokenSecret
  <2> DEFINE u == pass.user
             d == Duration[SpecOf(u).life]
             token == [id |-> nextId, expAt |-> IF d > 0 THEN now + d ELSE 0,
                       life |-> StoredLife(u), renew |-> SpecOf(u).renew]
             p == [pass EXCEPT !.pc = "issueArgo", !.id = nextId]
  <2>1. u \in Users
    BY <1>3 DEF IssueTokenSecret, WorkTypes
  <2>2. d \in Int /\ StoredLife(u) \in Lifetimes /\ SpecOf(u).renew \in BOOLEAN
    BY <2>1, SpecTypes DEF UserSpec
  <2>3. [store EXCEPT !.user[u] = token] \in Store
    <3>1. (IF d > 0 THEN now + d ELSE 0) \in Int /\ nextId \in Nat
      BY <2>2 DEF RestTypes
    <3> HIDE DEF d
    <3>2. token \in Secret
      BY <2>2, <3>1 DEF Secret
    <3> HIDE DEF token, u
    <3> QED
      BY <2>1, <3>2 DEF SecretTypes, Store
  <2>4. p \in Pass /\ p.user \in Users
    BY <2>1 DEF WorkTypes, Pass, PassPC, RestTypes
  <2>5. \/ /\ Write(u, [store EXCEPT !.user[u] = token])
           /\ Goto(p) /\ nextId' = nextId + 1
        \/ Release(TRUE) /\ UNCHANGED <<secretVars, nextId>>
    BY <1>3 DEF IssueTokenSecret
  <2>6. u \in Objects
    BY <2>1 DEF Objects
  <2> HIDE DEF u, token, p
  <2>7. SecretTypes'
    BY <2>3, <2>5, <2>6, WriteTypes DEF SecretTypes
  <2>8. WorkTypes'
    BY <2>4, <2>5, GotoTypes, ReleaseTypes
  <2>9. RestTypes'
    <3>1. UNCHANGED <<renewals, now, bounds>>
      BY <1>3 DEF IssueTokenSecret
    <3>2. nextId' = nextId \/ nextId' = nextId + 1
      BY <2>5
    <3>3. nextId' \in Nat \ {0}
      BY <3>2 DEF RestTypes
    <3> QED
      BY <3>1, <3>3 DEF RestTypes
  <2> QED
    BY <1>3, <2>7, <2>8, <2>9 DEF IssueTokenSecret, CRTypes, TimerTypes
<1>4. CASE IssueTokenArgo
  <2> DEFINE u == pass.user
             d == Duration[SpecOf(u).life]
             st == [store EXCEPT !.argo = [cache.argo EXCEPT !.token[u] = pass.id]]
  <2>1. u \in Users
    BY <1>4 DEF IssueTokenArgo, WorkTypes
  <2>2. d \in Int
    BY <2>1, SpecTypes
  <2>3. st \in Store
    BY <2>1 DEF SecretTypes, Store, Argo, WorkTypes, Pass
  <2>4. \/ /\ Write(ArgoCDSecret, st)
           /\ StartOrRestartTimer(u, d, FALSE) \/ UNCHANGED timerVars
           /\ Continue("users")
        \/ Release(TRUE) /\ UNCHANGED <<secretVars, timerVars>>
    BY <1>4 DEF IssueTokenArgo
  <2> HIDE DEF u, d, st
  <2>5. SecretTypes'
    BY <2>3, <2>4, WriteTypes DEF SecretTypes, Objects
  <2>6. TimerTypes'
    BY <2>1, <2>2, <2>4, StartTimerTypes DEF TimerTypes, RestTypes
  <2>7. WorkTypes'
    BY <2>4, ContinueTypes, ReleaseTypes
  <2> QED
    BY <1>4, <2>5, <2>6, <2>7 DEF IssueTokenArgo, CRTypes, RestTypes
<1>5. CASE ListLocalUserSecrets
  <2> DEFINE t == {u \in Users : cache.user[u].id # 0 /\ ~SpecOf(u).listed}
             p == [pass EXCEPT !.pc = "orphans", !.todo = t]
  <2>1. t \in SUBSET Users
    OBVIOUS
  <2> HIDE DEF t
  <2>2. p \in Pass /\ p.pc = "orphans"
    BY <2>1 DEF WorkTypes, Pass, PassPC
  <2>3. Goto(p)
    BY <1>5 DEF ListLocalUserSecrets, t
  <2>4. WorkTypes'
    BY <2>2, <2>3, GotoTypes
  <2> QED
    BY <1>5, <2>4
       DEF ListLocalUserSecrets, SecretTypes, CRTypes, TimerTypes, RestTypes
<1>6. CASE CleanupToken
  <2> DEFINE u == pass.user
             st == [store EXCEPT !.argo = [cache.argo EXCEPT !.token[u] = 0]]
             p == [pass EXCEPT !.pc = "cleanSecret"]
  <2>1. u \in Users
    BY <1>6 DEF CleanupToken, WorkTypes
  <2>2. st \in Store
    BY <2>1 DEF SecretTypes, Store, Argo
  <2>3. p \in Pass /\ p.user \in Users
    BY <2>1 DEF WorkTypes, Pass, PassPC
  <2>4. Write(ArgoCDSecret, st) \/ UNCHANGED secretVars
    BY <1>6 DEF CleanupToken
  <2>5. Goto(p) \/ Continue(pass.back) \/ Release(TRUE)
    BY <1>6 DEF CleanupToken
  <2> HIDE DEF u, st, p
  <2>6. SecretTypes'
    BY <2>2, <2>4, WriteTypes DEF SecretTypes, Objects
  <2>7. pass.back \in {"users", "orphans"}
    BY DEF WorkTypes, Pass
  <2>8. WorkTypes'
    BY <2>3, <2>5, <2>7, GotoTypes, ContinueTypes, ReleaseTypes
  <2> QED
    BY <1>6, <2>6, <2>8 DEF CleanupToken, CRTypes, TimerTypes, RestTypes
<1>7. CASE CleanupSecret
  <2> DEFINE u == pass.user
             st == [store EXCEPT !.user[u] = NoSecret]
  <2>1. u \in Users /\ pass.back \in {"users", "orphans"}
    BY <1>7 DEF CleanupSecret, WorkTypes, Pass
  <2>2. st \in Store
    BY <2>1, ConstantTypes DEF SecretTypes, Store
  <2>3. Write(u, st) \/ UNCHANGED secretVars
    BY <1>7 DEF CleanupSecret
  <2> HIDE DEF u, st
  <2>4. SecretTypes'
    BY <2>1, <2>2, <2>3, WriteTypes DEF SecretTypes, Objects
  <2>5. WorkTypes'
    BY <1>7, <2>1, ContinueTypes DEF CleanupSecret
  <2> QED
    BY <1>7, <2>4, <2>5 DEF CleanupSecret, CRTypes, TimerTypes, RestTypes
<1>8. CASE EndPass
  <2>1. WorkTypes'
    BY <1>8, ReleaseTypes DEF EndPass
  <2> QED
    BY <1>8, <2>1 DEF EndPass, SecretTypes, CRTypes, TimerTypes, RestTypes
<1> QED
  BY <1>1, <1>2, <1>3, <1>4, <1>5, <1>6, <1>7, <1>8 DEF PassStep

LEMMA EnvironmentTypes == TypeOK /\ EnvironmentStep => TypeOK'
<1> SUFFICES ASSUME SecretTypes, CRTypes, TimerTypes, WorkTypes, RestTypes,
                    EnvironmentStep
             PROVE  SecretTypes' /\ CRTypes' /\ TimerTypes' /\ WorkTypes'
                    /\ RestTypes'
  BY DEF TypeOK, SecretTypes, CRTypes, TimerTypes, WorkTypes, RestTypes
<1>1. CASE OtherEvent
  BY <1>1, BoundAssumption
     DEF OtherEvent, SecretTypes, CRTypes, TimerTypes, WorkTypes, RestTypes
<1>2. CASE PassFault
  <2>1. WorkTypes'
    BY <1>2, ReleaseTypes DEF PassFault
  <2> QED
    BY <1>2, <2>1, BoundAssumption
       DEF PassFault, SecretTypes, CRTypes, TimerTypes, RestTypes
<1>3. CASE CtlFault
  BY <1>3, BoundAssumption
     DEF CtlFault, SecretTypes, CRTypes, TimerTypes, WorkTypes, RestTypes
<1>4. CASE Restart
  <2>1. SecretTypes' /\ CRTypes'
    BY <1>4 DEF Restart, SecretTypes, CRTypes
  <2>2. TimerTypes' /\ RestTypes'
    BY <1>4, ConstantTypes, BoundAssumption DEF Restart, TimerTypes, RestTypes
  <2>3. NoPass.pc = "free"
    BY DEF NoPass
  <2>4. WorkTypes'
    BY <1>4, <2>3, ConstantTypes DEF Restart, WorkTypes
  <2> QED
    BY <2>1, <2>2, <2>4
<1>5. CASE DeleteCR
  <2>1. [cr EXCEPT !.phase = "deleting"] \in CR
    BY DEF CRTypes, CR
  <2>2. CRTypes'
    BY <1>5, <2>1, WriteCRTypes DEF DeleteCR
  <2> QED
    BY <1>5, <2>2, BoundAssumption
       DEF DeleteCR, SecretTypes, TimerTypes, WorkTypes, RestTypes
<1>6. CASE Tick
  BY <1>6 DEF Tick, SecretTypes, CRTypes, TimerTypes, WorkTypes, RestTypes
<1>7. ASSUME NEW o \in Objects, NEW s \in Store, Touch(o, s)
      PROVE  SecretTypes' /\ CRTypes' /\ TimerTypes' /\ WorkTypes' /\ RestTypes'
  <2>1. SecretTypes'
    BY <1>7, WriteTypes DEF Touch
  <2> QED
    BY <1>7, <2>1, BoundAssumption DEF Touch, CRTypes, TimerTypes, WorkTypes, RestTypes
<1>8. CASE ArgoCDWritesSecret
  BY <1>7, <1>8 DEF ArgoCDWritesSecret, Objects, SecretTypes
<1>9. ASSUME NEW u \in Users, RevokeToken(u)
      PROVE  SecretTypes' /\ CRTypes' /\ TimerTypes' /\ WorkTypes' /\ RestTypes'
  <2>1. [store EXCEPT !.argo.token[u] = 0] \in Store
    BY DEF SecretTypes, Store, Argo
  <2> QED
    BY <1>7, <1>9, <2>1 DEF RevokeToken, Objects
<1>10. ASSUME NEW u \in Users, DeleteUserSecret(u)
       PROVE  SecretTypes' /\ CRTypes' /\ TimerTypes' /\ WorkTypes' /\ RestTypes'
  <2>1. [store EXCEPT !.user[u] = NoSecret] \in Store
    BY ConstantTypes DEF SecretTypes, Store
  <2> QED
    BY <1>7, <1>10, <2>1 DEF DeleteUserSecret, Objects
<1>11. ASSUME NEW u \in Users, NEW s \in Specs, EditSpec(u, s)
       PROVE  SecretTypes' /\ CRTypes' /\ TimerTypes' /\ WorkTypes' /\ RestTypes'
  <2>1. [cr EXCEPT !.users[u] = s] \in CR
    BY SpecAssumption DEF CRTypes, CR
  <2>2. CRTypes'
    BY <1>11, <2>1, WriteCRTypes DEF EditSpec
  <2> QED
    BY <1>11, <2>2, BoundAssumption
       DEF EditSpec, SecretTypes, TimerTypes, WorkTypes, RestTypes
<1>12. ASSUME NEW u \in Users, NEW e \in Extras, EditExtraConfig(u, e)
       PROVE  SecretTypes' /\ CRTypes' /\ TimerTypes' /\ WorkTypes' /\ RestTypes'
  <2>1. [cr EXCEPT !.extra[u] = e] \in CR
    BY SpecAssumption DEF CRTypes, CR
  <2>2. CRTypes'
    BY <1>12, <2>1, WriteCRTypes DEF EditExtraConfig
  <2> QED
    BY <1>12, <2>2, BoundAssumption
       DEF EditExtraConfig, SecretTypes, TimerTypes, WorkTypes, RestTypes
<1>13. CASE IssueTokenAnswerLost
  <2> DEFINE st == [store EXCEPT !.argo =
                      [cache.argo EXCEPT !.token[pass.user] = pass.id]]
  <2>1. st \in Store
    BY <1>13 DEF IssueTokenAnswerLost, SecretTypes, Store, Argo, WorkTypes, Pass
  <2>2. Write(ArgoCDSecret, st) /\ Release(TRUE)
    BY <1>13 DEF IssueTokenAnswerLost
  <2> HIDE DEF st
  <2>3. SecretTypes' /\ WorkTypes'
    BY <2>1, <2>2, WriteTypes, ReleaseTypes DEF Objects
  <2>4. TimerTypes'
    <3> DEFINE b == timer[pass.user].st # "none"
    <3>1. b \in BOOLEAN /\ timer' = [timer EXCEPT ![pass.user].stale = b]
          /\ zombies' = zombies
      BY <1>13 DEF IssueTokenAnswerLost
    <3> HIDE DEF b
    <3> QED
      BY <3>1 DEF TimerTypes, Timer
  <2> QED
    BY <1>13, <2>3, <2>4, BoundAssumption DEF IssueTokenAnswerLost, CRTypes, RestTypes
<1> QED
  BY <1>1, <1>2, <1>3, <1>4, <1>5, <1>6, <1>8, <1>9, <1>10, <1>11, <1>12,
     <1>13
     DEF EnvironmentStep

LEMMA TypeNext == TypeOK /\ [Next]_vars => TypeOK'
<1>1. TypeOK /\ UNCHANGED vars => TypeOK'
  BY DEF TypeOK, vars
<1> QED
  BY <1>1, ControllerTypes, RuntimeTypes, ClusterTypes, PassTypes, EnvironmentTypes
     DEF Next

\* Type correctness of every reachable state, for every set of users and every
\* bound on time, edits and failures: in particular issueToken and
\* cleanupLocalUser always hold a user, whoever holds the lock.
THEOREM TypeCorrect == Spec => []TypeOK
BY TypeInit, TypeNext, PTL DEF Spec

-----------------------------------------------------------------------------
(* The informer.  FreshIsCurrent is not inductive: an event that is delivered  *)
(* becomes the cached copy, so the snapshots on their way must be right too.   *)

\* An Update that is accepted replaces what was read: if no event about an
\* object is pending, the cached copy is the stored one.
FreshIsCurrent ==
    /\ \A u \in Users : Fresh(u) => cache.user[u] = store.user[u]
    /\ Fresh(ArgoCDSecret) => cache.argo = store.argo

Content(o, s) == IF o = ArgoCDSecret THEN s.argo ELSE s.user[o]
Snapshot(i)   == IF i = 0 THEN cache ELSE watch[i].store

\* No event after the i-th one is about o.
LastWord(o, i) == \A j \in 1..Len(watch) : i < j => watch[j].obj # o

\* A snapshot with no later event about an object shows what is stored of it.
CaughtUp == \A o \in Objects : \A i \in 0..Len(watch) :
              LastWord(o, i) => Content(o, Snapshot(i)) = Content(o, store)

\* A write of o leaves the other Secrets as they are.
Commit(o, s) == /\ Write(o, s)
                /\ \A p \in Objects \ {o} : Content(p, s) = Content(p, store)

LEMMA CommitKeeps ==
    ASSUME TypeOK, CaughtUp, NEW o \in Objects, NEW s \in Store, Commit(o, s)
    PROVE  CaughtUp'
<1> DEFINE n == Len(watch)
<1>1. watch \in Seq(Event) /\ n \in Nat /\ watch' = Append(watch, [obj |-> o, store |-> s])
  BY DEF TypeOK, Commit, Write
<1>2. /\ Len(watch') = n + 1
      /\ \A i \in 1..n : watch'[i] = watch[i]
      /\ watch'[n + 1] = [obj |-> o, store |-> s]
  BY <1>1
<1>3. store' = s /\ cache' = cache
  BY DEF Commit, Write
<1> SUFFICES ASSUME NEW p \in Objects, NEW i \in 0..(n + 1), LastWord(p, i)'
             PROVE  Content(p, Snapshot(i)') = Content(p, s)
  BY <1>2, <1>3 DEF CaughtUp, Content
<1>4. CASE i = n + 1
  BY <1>1, <1>2, <1>4 DEF Snapshot
<1>5. CASE i # n + 1
  <2>1. i \in 0..n
    BY <1>1, <1>5
  <2>2. p # o
    BY <1>1, <1>2, <2>1 DEF LastWord
  <2>3. LastWord(p, i)
    BY <1>1, <1>2, <2>1 DEF LastWord
  <2>4. Snapshot(i)' = Snapshot(i)
    BY <1>2, <1>3, <2>1 DEF Snapshot
  <2>5. Content(p, Snapshot(i)) = Content(p, store)
    BY <2>1, <2>3 DEF CaughtUp
  <2> QED
    BY <2>2, <2>4, <2>5 DEF Commit
<1> QED
  BY <1>4, <1>5

LEMMA DeliveryKeeps ==
    ASSUME TypeOK, CaughtUp, DeliverSecret
    PROVE  CaughtUp'
<1> DEFINE n == Len(watch)
<1>1. watch \in Seq(Event) /\ watch # <<>> /\ n \in Nat /\ watch' = Tail(watch)
      /\ cache' = watch[1].store /\ store' = store
  BY DEF TypeOK, DeliverSecret
<1>2. n > 0 /\ Len(watch') = n - 1 /\ \A i \in 1..(n - 1) : watch'[i] = watch[i + 1]
  BY <1>1
<1> SUFFICES ASSUME NEW p \in Objects, NEW i \in 0..(n - 1), LastWord(p, i)'
             PROVE  Content(p, Snapshot(i)') = Content(p, store)
  BY <1>1, <1>2 DEF CaughtUp, Content
<1>3. Snapshot(i)' = Snapshot(i + 1)
  BY <1>1, <1>2 DEF Snapshot
<1>4. LastWord(p, i + 1)
  <2> SUFFICES ASSUME NEW j \in 1..n, i + 1 < j
               PROVE  watch[j].obj # p
    BY <1>1 DEF LastWord
  <2>1. j - 1 \in 1..(n - 1) /\ i < j - 1 /\ watch'[j - 1] = watch[j]
    BY <1>1, <1>2
  <2> QED
    BY <1>2, <2>1 DEF LastWord
<1> QED
  BY <1>1, <1>2, <1>3, <1>4 DEF CaughtUp

LEMMA CaughtUpInit == Init => CaughtUp
BY DEF Init, CaughtUp, Content, Snapshot

LEMMA CaughtUpImplies == TypeOK /\ CaughtUp => FreshIsCurrent
<1> SUFFICES ASSUME TypeOK, CaughtUp  PROVE FreshIsCurrent
  OBVIOUS
<1>1. ASSUME NEW o \in Objects, Fresh(o)
      PROVE  Content(o, cache) = Content(o, store)
  <2>1. LastWord(o, 0) /\ 0 \in 0..Len(watch) /\ Snapshot(0) = cache
    BY <1>1 DEF LastWord, Fresh, TypeOK, Snapshot
  <2> QED
    BY <2>1 DEF CaughtUp
<1> QED
  BY <1>1, NameAssumption DEF FreshIsCurrent, Content, Objects

\* A step leaves the Secrets and the informer alone, writes one Secret, delivers
\* an event, or fills the cache anew.
SecretStep == \/ UNCHANGED secretVars
              \/ \E o \in Objects, s \in Store : Commit(o, s)
              \/ DeliverSecret
              \/ store' = store /\ cache' = store /\ watch' = <<>>

LEMMA UserCommit ==
    ASSUME TypeOK, NEW u \in Users, NEW x \in Secret,
           Write(u, [store EXCEPT !.user[u] = x])
    PROVE  SecretStep
<1> DEFINE s == [store EXCEPT !.user[u] = x]
<1>1. s \in Store /\ u \in Objects
  BY DEF TypeOK, Store, Objects
<1>2. \A p \in Objects \ {u} : Content(p, s) = Content(p, store)
  BY NameAssumption DEF TypeOK, Store, Objects, Content
<1>3. Commit(u, s)
  BY <1>2 DEF Commit
<1> HIDE DEF s
<1> QED
  BY <1>1, <1>3 DEF SecretStep

LEMMA ArgoCommit ==
    ASSUME TypeOK, NEW a \in Argo, Write(ArgoCDSecret, [store EXCEPT !.argo = a])
    PROVE  SecretStep
<1> DEFINE s == [store EXCEPT !.argo = a]
<1>1. s \in Store /\ ArgoCDSecret \in Objects
  BY DEF TypeOK, Store, Objects
<1>2. \A p \in Objects \ {ArgoCDSecret} : Content(p, s) = Content(p, store)
  BY DEF TypeOK, Store, Objects, Content
<1>3. Commit(ArgoCDSecret, s)
  BY <1>2 DEF Commit
<1> HIDE DEF s
<1> QED
  BY <1>1, <1>3 DEF SecretStep

LEMMA PassSecrets == TypeOK /\ PassStep => SecretStep
<1> SUFFICES ASSUME TypeOK, PassStep  PROVE SecretStep
  OBVIOUS
<1>0. WorkTypes /\ SecretTypes
  BY DEF TypeOK, WorkTypes, SecretTypes
<1>1. ASSUME NEW u \in Users, ReconcileLocalUser(u)  PROVE SecretStep
  <2> DEFINE x == [cache.user[u] EXCEPT !.renew = SpecOf(u).renew]
  <2>1. x \in Secret
    BY <1>0, SpecTypes DEF SecretTypes, Store, Secret, UserSpec
  <2>2. UNCHANGED secretVars \/ Write(u, [store EXCEPT !.user[u] = x])
    BY <1>1 DEF ReconcileLocalUser, KeepToken
  <2> HIDE DEF x
  <2> QED
    BY <2>1, <2>2, UserCommit DEF SecretStep
<1>2. ASSUME NEW u \in Users, CleanupUnlistedUser(u)  PROVE SecretStep
  BY <1>2 DEF CleanupUnlistedUser, SecretStep
<1>3. CASE IssueTokenSecret
  <2> DEFINE u == pass.user
             d == Duration[SpecOf(u).life]
             x == [id |-> nextId, expAt |-> IF d > 0 THEN now + d ELSE 0,
                   life |-> StoredLife(u), renew |-> SpecOf(u).renew]
  <2>1. u \in Users
    BY <1>0, <1>3 DEF IssueTokenSecret, WorkTypes
  <2>2. d \in Int /\ StoredLife(u) \in Lifetimes /\ SpecOf(u).renew \in BOOLEAN
    BY <1>0, <2>1, SpecTypes DEF UserSpec
  <2>3. (IF d > 0 THEN now + d ELSE 0) \in Int /\ nextId \in Nat
    BY <2>2 DEF TypeOK
  <2>4. UNCHANGED secretVars \/ Write(u, [store EXCEPT !.user[u] = x])
    BY <1>3 DEF IssueTokenSecret
  <2> HIDE DEF d
  <2>5. x \in Secret
    BY <2>2, <2>3 DEF Secret
  <2> HIDE DEF u, x
  <2> QED
    BY <2>1, <2>4, <2>5, UserCommit DEF SecretStep
<1>4. CASE IssueTokenArgo
  <2> DEFINE a == [cache.argo EXCEPT !.token[pass.user] = pass.id]
  <2>1. a \in Argo
    BY <1>0 DEF SecretTypes, Store, Argo, WorkTypes, Pass
  <2>2. UNCHANGED secretVars \/ Write(ArgoCDSecret, [store EXCEPT !.argo = a])
    BY <1>4 DEF IssueTokenArgo
  <2> HIDE DEF a
  <2> QED
    BY <2>1, <2>2, ArgoCommit DEF SecretStep
<1>5. CASE ListLocalUserSecrets
  BY <1>5 DEF ListLocalUserSecrets, SecretStep
<1>6. CASE CleanupToken
  <2> DEFINE a == [cache.argo EXCEPT !.token[pass.user] = 0]
  <2>1. a \in Argo
    BY <1>0 DEF SecretTypes, Store, Argo
  <2>2. UNCHANGED secretVars \/ Write(ArgoCDSecret, [store EXCEPT !.argo = a])
    BY <1>6 DEF CleanupToken
  <2> HIDE DEF a
  <2> QED
    BY <2>1, <2>2, ArgoCommit DEF SecretStep
<1>7. CASE CleanupSecret
  <2>1. pass.user \in Users
    BY <1>0, <1>7 DEF CleanupSecret, WorkTypes
  <2>2. UNCHANGED secretVars
        \/ Write(pass.user, [store EXCEPT !.user[pass.user] = NoSecret])
    BY <1>7 DEF CleanupSecret
  <2> QED
    BY <2>1, <2>2, UserCommit, ConstantTypes DEF SecretStep
<1>8. CASE EndPass
  BY <1>8 DEF EndPass, SecretStep
<1> QED
  BY <1>1, <1>2, <1>3, <1>4, <1>5, <1>6, <1>7, <1>8 DEF PassStep

LEMMA EnvironmentSecrets == TypeOK /\ EnvironmentStep => SecretStep
<1> SUFFICES ASSUME TypeOK, EnvironmentStep  PROVE SecretStep
  OBVIOUS
<1>1. CASE OtherEvent \/ PassFault \/ CtlFault \/ Restart \/ DeleteCR \/ Tick
  BY <1>1 DEF OtherEvent, PassFault, CtlFault, Restart, DeleteCR, Tick, SecretStep
<1>2. CASE ArgoCDWritesSecret
  <2>1. store = [store EXCEPT !.argo = store.argo] /\ store.argo \in Argo
    BY DEF TypeOK, Store
  <2> QED
    BY <1>2, <2>1, ArgoCommit DEF ArgoCDWritesSecret, Touch
<1>3. ASSUME NEW u \in Users, RevokeToken(u)  PROVE SecretStep
  <2> DEFINE a == [store.argo EXCEPT !.token[u] = 0]
  <2>1. a \in Argo /\ [store EXCEPT !.argo.token[u] = 0] = [store EXCEPT !.argo = a]
    BY DEF TypeOK, Store, Argo
  <2> QED
    BY <1>3, <2>1, ArgoCommit DEF RevokeToken, Touch
<1>4. ASSUME NEW u \in Users, DeleteUserSecret(u)  PROVE SecretStep
  BY <1>4, UserCommit, ConstantTypes DEF DeleteUserSecret, Touch
<1>5. ASSUME NEW u \in Users, NEW s \in Specs, EditSpec(u, s)  PROVE SecretStep
  BY <1>5 DEF EditSpec, SecretStep
<1>6. ASSUME NEW u \in Users, NEW e \in Extras, EditExtraConfig(u, e)
      PROVE  SecretStep
  BY <1>6 DEF EditExtraConfig, SecretStep
<1>7. CASE IssueTokenAnswerLost
  <2> DEFINE a == [cache.argo EXCEPT !.token[pass.user] = pass.id]
  <2>1. a \in Argo
    BY DEF TypeOK, Store, Argo, Pass
  <2>2. Write(ArgoCDSecret, [store EXCEPT !.argo = a])
    BY <1>7 DEF IssueTokenAnswerLost
  <2> HIDE DEF a
  <2> QED
    BY <2>1, <2>2, ArgoCommit DEF SecretStep
<1> QED
  BY <1>1, <1>2, <1>3, <1>4, <1>5, <1>6, <1>7 DEF EnvironmentStep

LEMMA EveryStepSecrets == TypeOK /\ [Next]_vars => SecretStep
<1> SUFFICES ASSUME TypeOK, [Next]_vars  PROVE SecretStep
  OBVIOUS
<1>1. CASE ControllerStep
  BY <1>1 DEF ControllerStep, CtlReconcile, CleanupNamespaceTokenTimers,
              RemoveFinalizer, CtlTakesLock, SecretStep
<1>2. CASE RuntimeStep
  BY <1>2 DEF RuntimeStep, TimerElapses, TimerCallback, StoppedCallback,
              RenewalTakesLock, SecretStep
<1>3. CASE ClusterStep
  <2>1. ASSUME NEW u \in Users, CollectUserSecret(u)  PROVE SecretStep
    BY <2>1, UserCommit, ConstantTypes DEF CollectUserSecret
  <2>2. CASE CollectArgoCDSecret
    <3> DEFINE a == [exists |-> FALSE, token |-> [u \in Users |-> 0]]
    <3>1. a \in Argo
      BY DEF Argo
    <3> QED
      BY <2>2, <3>1, ArgoCommit DEF CollectArgoCDSecret
  <2>3. CASE DeliverSecret \/ DeliverCR
    BY <2>3 DEF DeliverCR, SecretStep
  <2> QED
    BY <1>3, <2>1, <2>2, <2>3 DEF ClusterStep
<1>4. CASE UNCHANGED vars
  BY <1>4 DEF vars, SecretStep
<1> QED
  BY <1>1, <1>2, <1>3, <1>4, PassSecrets, EnvironmentSecrets DEF Next

LEMMA CaughtUpNext == TypeOK /\ CaughtUp /\ [Next]_vars => CaughtUp'
<1> SUFFICES ASSUME TypeOK, CaughtUp, SecretStep  PROVE CaughtUp'
  BY EveryStepSecrets
<1>1. CASE UNCHANGED secretVars
  BY <1>1 DEF CaughtUp, LastWord, Content, Snapshot
<1>2. CASE store' = store /\ cache' = store /\ watch' = <<>>
  BY <1>2 DEF CaughtUp, Content, Snapshot
<1> QED
  BY <1>1, <1>2, CommitKeeps, DeliveryKeeps DEF SecretStep

\* The optimistic concurrency the passes rely on: in every reachable state, a
\* Secret about which no event is pending is cached as it is stored, so that an
\* accepted Update never overwrites a change the pass has not read.
THEOREM FreshIsCurrentCorrect == Spec => []FreshIsCurrent
<1>1. Init => TypeOK /\ CaughtUp
  BY TypeInit, CaughtUpInit
<1>2. TypeOK /\ CaughtUp /\ [Next]_vars => (TypeOK /\ CaughtUp)'
  BY TypeNext, CaughtUpNext
<1> QED
  BY <1>1, <1>2, CaughtUpImplies, PTL DEF Spec

-----------------------------------------------------------------------------
(* Tokens.  TokenNeverAhead alone is not inductive: between the two writes of  *)
(* issueToken, the pass holds an identifier it is about to publish.            *)

\* Identifiers come from nextId, and the one a pass is about to publish is not
\* ahead of the user Secret, unless that has been deleted in the meantime.
TokenInv ==
    /\ \A u \in Users : /\ store.user[u].id < nextId
                        /\ store.argo.token[u] < nextId
    /\ pass.pc = "issueArgo"
         => /\ pass.id < nextId
            /\ \/ store.user[pass.user].id = 0
               \/ pass.id <= store.user[pass.user].id
    /\ TokenNeverAhead

LEMMA TokenInit == Init => TokenInv
BY DEF Init, TokenInv, TokenNeverAhead, InitStore, NoSecret, NoPass

\* The steps that write no Secret.
LEMMA QuietToken ==
    ASSUME TypeOK, TokenInv, store' = store, nextId' = nextId,
           pass' = pass \/ pass'.pc # "issueArgo"
    PROVE  TokenInv'
BY DEF TokenInv, TokenNeverAhead

\* The steps that drop the token of a user Secret, or rewrite the Secret with the
\* same token.
LEMMA UserToken ==
    ASSUME TypeOK, TokenInv, nextId' = nextId,
           pass' = pass \/ pass'.pc # "issueArgo",
           NEW u \in Users, NEW x \in Secret, x.id \in {0, store.user[u].id},
           store' = [store EXCEPT !.user[u] = x]
    PROVE  TokenInv'
<1>1. /\ store'.argo = store.argo
      /\ \A v \in Users : store'.user[v].id \in {0, store.user[v].id}
  BY DEF TypeOK, Store
<1>2. \A v \in Users : store.user[v].id \in Nat /\ store.argo.token[v] \in Nat
  BY DEF TypeOK, Store, Secret, Argo
<1>3. nextId \in Nat \ {0} /\ (pass.pc = "issueArgo" => pass.user \in Users)
  BY DEF TypeOK
<1> QED
  BY <1>1, <1>2, <1>3 DEF TokenInv, TokenNeverAhead

\* The steps that drop a token from argocd-secret, or all of them.
LEMMA ArgoToken ==
    ASSUME TypeOK, TokenInv, nextId' = nextId,
           pass' = pass \/ pass'.pc # "issueArgo", store'.user = store.user,
           \A v \in Users : store'.argo.token[v] \in {0, store.argo.token[v]}
    PROVE  TokenInv'
<1>1. \A v \in Users : store.user[v].id \in Nat /\ store.argo.token[v] \in Nat
  BY DEF TypeOK, Store, Secret, Argo
<1>2. nextId \in Nat \ {0}
  BY DEF TypeOK
<1> QED
  BY <1>1, <1>2 DEF TokenInv, TokenNeverAhead

\* A write of a pass replaces argocd-secret by what was read, and so changes the
\* entry of one user only.
LEMMA PassArgoWrite ==
    ASSUME TypeOK, FreshIsCurrent, NEW u \in Users, NEW i \in Nat,
           CanUpdate(ArgoCDSecret, store.argo.exists),
           Write(ArgoCDSecret, [store EXCEPT !.argo =
                                  [cache.argo EXCEPT !.token[u] = i]])
    PROVE  /\ store'.user = store.user /\ store'.argo.token[u] = i
           /\ \A v \in Users \ {u} : store'.argo.token[v] = store.argo.token[v]
BY DEF TypeOK, FreshIsCurrent, CanUpdate, Write, Store, Argo

LEMMA PassTokens ==
    ASSUME TypeOK, FreshIsCurrent, TokenInv, PassStep
    PROVE  TokenInv'
<1>0. WorkTypes /\ SecretTypes /\ NoPass.pc # "issueArgo"
  BY DEF TypeOK, WorkTypes, SecretTypes, NoPass
<1>1. ASSUME NEW u \in Users, ReconcileLocalUser(u)  PROVE TokenInv'
  <2> DEFINE s == cache.user[u]
             v == Verdict(u, s)
             x == [s EXCEPT !.renew = SpecOf(u).renew]
  <2>1. v # "issueArgo" /\ pass.pc = "users" /\ nextId' = nextId
    BY <1>1 DEF Verdict, ReconcileLocalUser
  <2>2. CASE v = "keep"
    <3>1. KeepToken(u, s)
      BY <1>1, <2>2 DEF ReconcileLocalUser
    <3>2. pass'.pc # "issueArgo"
      BY <1>0, <2>1, <3>1 DEF KeepToken, Goto, Release, WorkTypes, Pass
    <3>3. CASE UNCHANGED secretVars
      BY <2>1, <3>2, <3>3, QuietToken
    <3>4. CASE Fresh(u) /\ store' = [store EXCEPT !.user[u] = x]
      <4>1. x \in Secret /\ x.id = store.user[u].id
        BY <1>0, <3>4, SpecTypes
           DEF SecretTypes, Store, Secret, UserSpec, FreshIsCurrent
      <4> HIDE DEF x
      <4> QED
        BY <2>1, <3>2, <3>4, <4>1, UserToken
    <3> QED
      BY <3>1, <3>3, <3>4 DEF KeepToken, CanUpdate, Write
  <2>3. CASE v # "keep"
    <3>1. store' = store
      BY <1>1, <2>3 DEF ReconcileLocalUser
    <3> DEFINE p == [pass EXCEPT !.pc = v, !.user = u, !.todo = @ \ {u},
                                 !.hasSecret = (s.id # 0)]
    <3>2. Release(TRUE) \/ Goto(p)
      BY <1>1, <2>3 DEF ReconcileLocalUser
    <3> HIDE DEF v, s
    <3>3. pass'.pc # "issueArgo"
      BY <1>0, <2>1, <3>2 DEF Release, Goto, WorkTypes, Pass
    <3> QED
      BY <2>1, <3>1, <3>3, QuietToken
  <2> QED
    BY <2>2, <2>3
<1>2. ASSUME NEW u \in Users, CleanupUnlistedUser(u)  PROVE TokenInv'
  <2>1. pass'.pc = "cleanArgo" /\ store' = store /\ nextId' = nextId
    BY <1>0, <1>2 DEF CleanupUnlistedUser, Goto, WorkTypes, Pass
  <2> QED
    BY <2>1, QuietToken
<1>3. CASE IssueTokenSecret
  <2> DEFINE u == pass.user
             d == Duration[SpecOf(u).life]
             x == [id |-> nextId, expAt |-> IF d > 0 THEN now + d ELSE 0,
                   life |-> StoredLife(u), renew |-> SpecOf(u).renew]
  <2>1. u \in Users /\ x.id = nextId
    BY <1>0, <1>3 DEF IssueTokenSecret, WorkTypes
  <2> HIDE DEF x
  <2>2. CASE store' = store
    <3>1. (pass'.pc # "issueArgo" /\ nextId' = nextId) \/ store'.user[u] = x
      BY <1>0, <1>3, <2>1
         DEF IssueTokenSecret, Release, Write, SecretTypes, Store, x
    <3>2. store'.user[u] # x
      BY <2>1, <2>2 DEF TokenInv, TypeOK
    <3> QED
      BY <2>2, <3>1, <3>2, QuietToken
  <2>3. CASE store' # store
    <3>1. /\ store' = [store EXCEPT !.user[u] = x] /\ nextId' = nextId + 1
          /\ pass' = [pass EXCEPT !.pc = "issueArgo", !.id = nextId]
      BY <1>3, <2>3 DEF IssueTokenSecret, Write, Goto, x
    <3>2. /\ store'.argo = store.argo /\ store'.user[u].id = nextId
          /\ \A v \in Users \ {u} : store'.user[v] = store.user[v]
          /\ pass'.user = u /\ pass'.id = nextId
      BY <1>0, <2>1, <3>1 DEF SecretTypes, Store, WorkTypes, Pass
    <3>3. /\ nextId \in Nat
          /\ \A v \in Users : store.user[v].id \in Nat /\ store.argo.token[v] \in Nat
      BY DEF TypeOK, Store, Secret, Argo
    <3> QED
      BY <2>1, <3>1, <3>2, <3>3 DEF TokenInv, TokenNeverAhead
  <2> QED
    BY <2>2, <2>3
<1>4. CASE IssueTokenArgo
  <2> DEFINE u == pass.user
  <2>1. u \in Users /\ pass.pc = "issueArgo" /\ nextId' = nextId
        /\ pass'.pc # "issueArgo"
    BY <1>0, <1>4 DEF IssueTokenArgo, WorkTypes, Continue, Goto, Release, Pass
  <2>2. CASE store' = store
    BY <2>1, <2>2, QuietToken
  <2>3. CASE store' # store
    <3>1. /\ store'.user = store.user /\ store'.argo.token[u] = pass.id
          /\ \A v \in Users \ {u} : store'.argo.token[v] = store.argo.token[v]
      BY <1>0, <1>4, <2>1, <2>3, PassArgoWrite
         DEF IssueTokenArgo, WorkTypes, Pass
    <3>2. pass.id < nextId /\ (store.user[u].id = 0 \/ pass.id <= store.user[u].id)
      BY <2>1 DEF TokenInv
    <3> QED
      BY <2>1, <3>1, <3>2 DEF TokenInv, TokenNeverAhead
  <2> QED
    BY <2>2, <2>3
<1>5. CASE ListLocalUserSecrets
  <2>1. pass'.pc # "issueArgo" /\ store' = store /\ nextId' = nextId
    BY <1>0, <1>5 DEF ListLocalUserSecrets, Goto, WorkTypes, Pass
  <2> QED
    BY <2>1, QuietToken
<1>6. CASE CleanupToken
  <2> DEFINE u == pass.user
  <2>1. u \in Users /\ nextId' = nextId
    BY <1>0, <1>6 DEF CleanupToken, WorkTypes
  <2>2. pass'.pc # "issueArgo"
    BY <1>0, <1>6 DEF CleanupToken, WorkTypes, Continue, Goto, Release, Pass
  <2>3. CASE store' = store
    BY <2>1, <2>2, <2>3, QuietToken
  <2>4. CASE store' # store
    <3>1. /\ store'.user = store.user /\ store'.argo.token[u] = 0
          /\ \A v \in Users \ {u} : store'.argo.token[v] = store.argo.token[v]
      BY <1>6, <2>1, <2>4, PassArgoWrite DEF CleanupToken
    <3> QED
      BY <2>1, <2>2, <3>1, ArgoToken
  <2> QED
    BY <2>3, <2>4
<1>7. CASE CleanupSecret
  <2>1. pass.user \in Users /\ nextId' = nextId /\ pass'.pc # "issueArgo"
    BY <1>0, <1>7 DEF CleanupSecret, WorkTypes, Continue, Goto, Pass
  <2>2. store' = store \/ store' = [store EXCEPT !.user[pass.user] = NoSecret]
    BY <1>7 DEF CleanupSecret, Write
  <2>3. NoSecret \in Secret /\ NoSecret.id = 0
    BY ConstantTypes DEF NoSecret
  <2> QED
    BY <2>1, <2>2, <2>3, QuietToken, UserToken
<1>8. CASE EndPass
  BY <1>0, <1>8, QuietToken DEF EndPass, Release
<1> QED
  BY <1>1, <1>2, <1>3, <1>4, <1>5, <1>6, <1>7, <1>8 DEF PassStep

LEMMA TokenNext ==
    TypeOK /\ FreshIsCurrent /\ TokenInv /\ [Next]_vars => TokenInv'
<1> SUFFICES ASSUME TypeOK, FreshIsCurrent, TokenInv, [Next]_vars
             PROVE  TokenInv'
  OBVIOUS
<1>0. NoPass.pc # "issueArgo" /\ pass \in Pass /\ NoSecret \in Secret
      /\ NoSecret.id = 0
  BY ConstantTypes DEF TypeOK, NoPass, NoSecret
<1>1. CASE ControllerStep
  <2>1. store' = store /\ nextId' = nextId
        /\ (pass' = pass \/ pass'.pc # "issueArgo")
    BY <1>0, <1>1 DEF ControllerStep, CtlReconcile, CleanupNamespaceTokenTimers,
                RemoveFinalizer, CtlTakesLock, TakeLock, Pass
  <2> QED
    BY <2>1, QuietToken
<1>2. CASE RuntimeStep
  <2>1. store' = store /\ nextId' = nextId
        /\ (pass' = pass \/ pass'.pc # "issueArgo")
    BY <1>0, <1>2 DEF RuntimeStep, TimerElapses, TimerCallback, StoppedCallback,
                RenewalTakesLock, TakeLock, Pass
  <2> QED
    BY <2>1, QuietToken
<1>3. CASE ClusterStep
  <2>1. ASSUME NEW u \in Users, CollectUserSecret(u)  PROVE TokenInv'
    BY <1>0, <2>1, UserToken DEF CollectUserSecret, Write
  <2>2. CASE CollectArgoCDSecret
    <3>1. /\ store'.user = store.user /\ nextId' = nextId /\ pass' = pass
          /\ \A v \in Users : store'.argo.token[v] = 0
      BY <2>2 DEF CollectArgoCDSecret, Write, TypeOK, Store
    <3> QED
      BY <3>1, ArgoToken
  <2>3. CASE DeliverSecret \/ DeliverCR
    BY <2>3, QuietToken DEF DeliverSecret, DeliverCR
  <2> QED
    BY <1>3, <2>1, <2>2, <2>3 DEF ClusterStep
<1>4. CASE EnvironmentStep
  <2>1. CASE OtherEvent \/ PassFault \/ CtlFault \/ Restart \/ DeleteCR \/ Tick
    BY <1>0, <2>1, QuietToken
       DEF OtherEvent, PassFault, CtlFault, Restart, DeleteCR, Tick, Release
  <2>2. CASE ArgoCDWritesSecret
    BY <2>2, QuietToken DEF ArgoCDWritesSecret, Touch, Write
  <2>3. ASSUME NEW u \in Users, RevokeToken(u)  PROVE TokenInv'
    <3>1. /\ store'.user = store.user /\ nextId' = nextId /\ pass' = pass
          /\ \A v \in Users : store'.argo.token[v] \in {0, store.argo.token[v]}
      BY <2>3 DEF RevokeToken, Touch, Write, TypeOK, Store, Argo
    <3> QED
      BY <3>1, ArgoToken
  <2>4. ASSUME NEW u \in Users, DeleteUserSecret(u)  PROVE TokenInv'
    BY <1>0, <2>4, UserToken DEF DeleteUserSecret, Touch, Write
  <2>5. ASSUME NEW u \in Users, NEW s \in Specs, EditSpec(u, s)  PROVE TokenInv'
    BY <2>5, QuietToken DEF EditSpec
  <2>6. ASSUME NEW u \in Users, NEW e \in Extras, EditExtraConfig(u, e)
        PROVE  TokenInv'
    BY <2>6, QuietToken DEF EditExtraConfig
  <2>7. CASE IssueTokenAnswerLost
    <3> DEFINE u == pass.user
    <3>1. u \in Users /\ pass.pc = "issueArgo" /\ nextId' = nextId
          /\ pass'.pc # "issueArgo" /\ pass.id \in Nat
      BY <1>0, <2>7 DEF IssueTokenAnswerLost, TypeOK, Release, Pass
    <3>2. /\ store'.user = store.user /\ store'.argo.token[u] = pass.id
          /\ \A v \in Users \ {u} : store'.argo.token[v] = store.argo.token[v]
      BY <2>7, <3>1, PassArgoWrite DEF IssueTokenAnswerLost
    <3>3. pass.id < nextId /\ (store.user[u].id = 0 \/ pass.id <= store.user[u].id)
      BY <3>1 DEF TokenInv
    <3> QED
      BY <3>1, <3>2, <3>3 DEF TokenInv, TokenNeverAhead
  <2> QED
    BY <1>4, <2>1, <2>2, <2>3, <2>4, <2>5, <2>6, <2>7 DEF EnvironmentStep
<1>5. CASE UNCHANGED vars
  BY <1>5, QuietToken DEF vars
<1> QED
  BY <1>1, <1>2, <1>3, <1>4, <1>5, PassTokens DEF Next

\* Argo CD never accepts a token newer than the one its owner can read: not
\* after a crash or an error between the two writes of issueToken, nor when a
\* renewal and the controller take turns, nor with stale reads.
THEOREM TokenNeverAheadCorrect == Spec => []TokenNeverAhead
<1>1. Init => TypeOK /\ CaughtUp /\ TokenInv
  BY TypeInit, CaughtUpInit, TokenInit
<1>2. TypeOK /\ CaughtUp /\ TokenInv /\ [Next]_vars
        => (TypeOK /\ CaughtUp /\ TokenInv)'
  BY TypeNext, CaughtUpNext, CaughtUpImplies, TokenNext
<1>3. TokenInv => TokenNeverAhead
  BY DEF TokenInv
<1> QED
  BY <1>1, <1>2, <1>3, PTL DEF Spec

-----------------------------------------------------------------------------
(* Writing argocd-secret back whole *)

\* The entries of argocd-secret that a step changes are those of one user.
OneEntry == store'.argo.exists =>
              \A u, v \in Users : /\ store'.argo.token[u] # store.argo.token[u]
                                   /\ store'.argo.token[v] # store.argo.token[v]
                                   => u = v

LEMMA OneEntryStep ==
    TypeOK /\ FreshIsCurrent /\ [Next]_vars => OneEntry
<1> SUFFICES ASSUME TypeOK, FreshIsCurrent, [Next]_vars
             PROVE  OneEntry
  OBVIOUS
<1>0. WorkTypes
  BY DEF TypeOK, WorkTypes
<1>1. ASSUME store'.argo = store.argo  PROVE OneEntry
  BY <1>1 DEF OneEntry
<1>2. ASSUME NEW u \in Users,
             \A v \in Users \ {u} : store'.argo.token[v] = store.argo.token[v]
      PROVE  OneEntry
  BY <1>2 DEF OneEntry
<1>3. ASSUME NEW u, NEW x, store' = [store EXCEPT !.user[u] = x]
      PROVE  OneEntry
  BY <1>1, <1>3 DEF TypeOK, Store
<1>4. CASE ControllerStep
  BY <1>1, <1>4 DEF ControllerStep, CtlReconcile, CleanupNamespaceTokenTimers,
              RemoveFinalizer, CtlTakesLock
<1>5. CASE RuntimeStep
  BY <1>1, <1>5 DEF RuntimeStep, TimerElapses, TimerCallback, StoppedCallback,
              RenewalTakesLock
<1>6. CASE ClusterStep
  <2>1. CASE CollectArgoCDSecret
    BY <2>1 DEF CollectArgoCDSecret, Write, TypeOK, Store, OneEntry
  <2>2. ASSUME NEW u \in Users, CollectUserSecret(u)  PROVE OneEntry
    BY <1>3, <2>2 DEF CollectUserSecret, Write
  <2>3. CASE DeliverSecret \/ DeliverCR
    BY <1>1, <2>3 DEF DeliverSecret, DeliverCR
  <2> QED
    BY <1>6, <2>1, <2>2, <2>3 DEF ClusterStep
<1>7. CASE EnvironmentStep
  <2>1. CASE OtherEvent \/ PassFault \/ CtlFault \/ Restart \/ DeleteCR \/ Tick
    BY <1>1, <2>1 DEF OtherEvent, PassFault, CtlFault, Restart, DeleteCR, Tick
  <2>2. CASE ArgoCDWritesSecret
    BY <1>1, <2>2 DEF ArgoCDWritesSecret, Touch, Write
  <2>3. ASSUME NEW u \in Users, RevokeToken(u)  PROVE OneEntry
    BY <1>2, <2>3 DEF RevokeToken, Touch, Write, TypeOK, Store, Argo
  <2>4. ASSUME NEW u \in Users, DeleteUserSecret(u)  PROVE OneEntry
    BY <1>3, <2>4 DEF DeleteUserSecret, Touch, Write
  <2>5. ASSUME NEW u \in Users, NEW s \in Specs, EditSpec(u, s)  PROVE OneEntry
    BY <1>1, <2>5 DEF EditSpec
  <2>6. ASSUME NEW u \in Users, NEW e \in Extras, EditExtraConfig(u, e)
        PROVE  OneEntry
    BY <1>1, <2>6 DEF EditExtraConfig
  <2>7. CASE IssueTokenAnswerLost
    <3>1. pass.user \in Users /\ pass.id \in Nat
      BY <1>0, <2>7 DEF IssueTokenAnswerLost, WorkTypes, Pass
    <3> QED
      BY <1>2, <2>7, <3>1, PassArgoWrite DEF IssueTokenAnswerLost
  <2> QED
    BY <1>7, <2>1, <2>2, <2>3, <2>4, <2>5, <2>6, <2>7 DEF EnvironmentStep
<1>8. CASE PassStep
  <2>1. ASSUME NEW u \in Users, ReconcileLocalUser(u)  PROVE OneEntry
    BY <1>1, <1>3, <2>1 DEF ReconcileLocalUser, KeepToken, Write
  <2>2. CASE IssueTokenSecret
    BY <1>1, <1>3, <2>2 DEF IssueTokenSecret, Write
  <2>3. CASE IssueTokenArgo
    <3>1. pass.user \in Users /\ pass.id \in Nat
      BY <1>0, <2>3 DEF IssueTokenArgo, WorkTypes, Pass
    <3>2. CASE store' # store
      BY <1>2, <2>3, <3>1, <3>2, PassArgoWrite DEF IssueTokenArgo
    <3> QED
      BY <1>1, <3>2
  <2>4. CASE CleanupToken
    <3>1. pass.user \in Users
      BY <1>0, <2>4 DEF CleanupToken, WorkTypes, Pass
    <3>2. CASE store' # store
      BY <1>2, <2>4, <3>1, <3>2, PassArgoWrite DEF CleanupToken
    <3> QED
      BY <1>1, <3>2
  <2>5. CASE CleanupSecret
    BY <1>1, <1>3, <2>5 DEF CleanupSecret, Write
  <2>6. CASE ListLocalUserSecrets \/ EndPass
    BY <1>1, <2>6 DEF ListLocalUserSecrets, EndPass
  <2>7. ASSUME NEW u \in Users, CleanupUnlistedUser(u)  PROVE OneEntry
    BY <1>1, <2>7 DEF CleanupUnlistedUser
  <2> QED
    BY <1>8, <2>1, <2>2, <2>3, <2>4, <2>5, <2>6, <2>7 DEF PassStep
<1>9. CASE UNCHANGED vars
  BY <1>1, <1>9 DEF vars
<1> QED
  BY <1>4, <1>5, <1>6, <1>7, <1>8, <1>9 DEF Next

\* Passes write argocd-secret back whole from a cached copy, and yet no step
\* changes the tokens of two users: no renewal is lost to a stale write.
THEOREM OneUserAtATimeCorrect == Spec => OneUserAtATime
<1>1. TypeOK /\ FreshIsCurrent /\ [Next]_vars => [OneEntry]_vars
  BY OneEntryStep
<1> QED
  BY <1>1, TypeCorrect, FreshIsCurrentCorrect, PTL DEF Spec, OneUserAtATime, OneEntry

=============================================================================
