--------------------------- MODULE LocalUsersSettled ---------------------------
(***************************************************************************)
(* Proofs of what is true of LocalUsers once nothing is left to do: a user *)
(* who may not have a token has none, no timer runs for one whose token    *)
(* must not be renewed, and one runs for every token that must be.         *)
(***************************************************************************)
EXTENDS LocalUsersProofs

USE DEF crVars, secretVars, timerVars, bounds

-----------------------------------------------------------------------------
(* What a pass knows of the resource *)

\* The versions still on their way end with the resource as it is.
LastVersion == IF crWatch = <<>> THEN cachedCR = cr
                                 ELSE crWatch[Len(crWatch)] = cr

\* A deletion is never taken back, so the operator does not see one of a
\* resource that lives, and does not act on it.
VersionsLive ==
    cr.phase = "live" => /\ cachedCR.phase = "live"
                         /\ \A i \in 1..Len(crWatch) : crWatch[i].phase = "live"
NotFinalizing == cr.phase = "live" => ctl \notin {"timers", "finalizer"}

\* The worker makes a pass when it holds the lock.
PassOwner ==
    /\ LockFree => pass = NoPass
    /\ ctl = "pass" <=> ~LockFree /\ pass.by = "controller"

\* No reconciliation of the worker is to come.
NoneToCome == ~queued /\ ctl \in {"idle", "pass"} /\ cr.phase = "live"

\* A pass that none will follow knows the resource as it is cached.
PassKnows == NoneToCome /\ ~LockFree => pass.cr = cachedCR

\* Tokens are issued to active users; the cleanup is of unlisted ones.
PassWork ==
    /\ pass.pc \in {"issueSecret", "issueArgo"} => SpecOf(pass.user).active
    /\ pass.pc = "orphans" \/ pass.back = "orphans"
         => \A u \in pass.todo : ~SpecOf(u).listed

-----------------------------------------------------------------------------
(* What a pass still has to do, and has done *)

\* No pass to come, and no news of the resource.
Heard == NoneToCome /\ crWatch = <<>>

\* The worker's pass has not got to u yet.
Ahead(u) == ctl = "pass" /\ u \in pass.todo

StopDue(u) == /\ Managed(u)
              /\ \/ ~cr.users[u].active \/ ~cr.users[u].renew
                 \/ cr.users[u].life \in StopTexts

TimersInv == Heard => \A u \in Users :
                 StopDue(u) => Ahead(u) \/ timer[u].st = "none"

RevokeDue(u) == /\ Managed(u) /\ ~cr.users[u].active
                /\ Duration[cr.users[u].life] >= 0

\* The worker's pass is cleaning up after u.
Revoking(u) ==
    /\ ctl = "pass" /\ pass.user = u
    /\ \/ pass.pc = "cleanArgo" /\ (pass.hasSecret <=> store.user[u].id # 0)
       \/ pass.pc = "cleanSecret" /\ store.argo.token[u] = 0

Revoked(u) == store.user[u].id = 0 /\ store.argo.token[u] = 0

RevocationInv == Heard /\ watch = <<>> => \A u \in Users :
                     RevokeDue(u) => Ahead(u) \/ Revoking(u) \/ Revoked(u)

RenewDue(u) == /\ Managed(u) /\ cr.users[u].active /\ cr.users[u].renew
               /\ store.user[u].id # 0 /\ store.user[u].expAt # 0

\* The worker's pass is about to replace the token of u.
Issuing(u) == ctl = "pass" /\ pass.user = u /\ pass.pc = "issueSecret"

\* The map has a timer of u, and no pass will stop it.
HasTimer(u) == timer[u].st # "none" /\ cr.users[u].life \notin StopTexts

RenewalsInv == Heard /\ watch = <<>> => \A u \in Users :
                   RenewDue(u) => Ahead(u) \/ Issuing(u) \/ HasTimer(u)

\* Between the two writes of issueToken the clock may advance, and so the timer
\* started after the second does not elapse before the token of the first one
\* expires.  It is not started without renewal, and then no other one is there.
IssueInv ==
    LET u == pass.user
        s == store.user[u]
        d == Duration[SpecOf(u).life]
    IN  /\ pass.pc = "issueArgo" /\ s.id = pass.id
             => s.expAt = 0 \/ (d > 0 /\ s.expAt <= now + d)
        /\ pass.pc \in {"issueSecret", "issueArgo"} /\ ~SpecOf(u).renew
             => timer[u].st = "none"

ElapsedIsDue == \A u \in Users :
                    timer[u].st \in {"firing", "fired"} => now >= timer[u].at

InfiniteNeverExpires ==
    \A u \in Users : store.user[u].life = ZeroHours => store.user[u].expAt = 0

\* Both Secrets agree on a token of u that expires.
Agreed(u) == /\ store.user[u].id # 0 /\ store.user[u].id = store.argo.token[u]
             /\ store.user[u].expAt # 0

NotEarly == \A u \in Users :
                Agreed(u) /\ timer[u].st # "none" /\ ~timer[u].stale
                  => timer[u].at >= store.user[u].expAt

ScheduleInv == IssueInv /\ ElapsedIsDue /\ InfiniteNeverExpires /\ NotEarly

-----------------------------------------------------------------------------
(* The resource and the informer's copies of it *)

\* A step leaves them alone, writes a version that lives only if the one before
\* did, delivers a version, or fills the cache anew.
CRStep == \/ UNCHANGED crVars
          \/ \E c \in CR : WriteCR(c) /\ (c.phase = "live" => cr.phase = "live")
          \/ DeliverCR
          \/ cr' = cr /\ cachedCR' = cr /\ crWatch' = <<>>

LEMMA EveryStepCR == TypeOK /\ [Next]_vars => CRStep
<1> SUFFICES ASSUME TypeOK, [Next]_vars  PROVE CRStep
  OBVIOUS
<1>1. CASE ControllerStep
  <2>1. CASE RemoveFinalizer
    <3>1. [cr EXCEPT !.phase = "gone"] \in CR
          /\ [cr EXCEPT !.phase = "gone"].phase = "gone"
      BY DEF TypeOK, CR
    <3> QED
      BY <2>1, <3>1 DEF RemoveFinalizer, CRStep
  <2> QED
    BY <1>1, <2>1 DEF ControllerStep, CtlReconcile, CleanupNamespaceTokenTimers,
                CtlTakesLock, CRStep
<1>2. CASE PassStep
  BY <1>2 DEF PassStep, ReconcileLocalUser, CleanupUnlistedUser, IssueTokenSecret,
        IssueTokenArgo, ListLocalUserSecrets, CleanupToken, CleanupSecret, EndPass,
        CRStep
<1>3. CASE RuntimeStep
  BY <1>3 DEF RuntimeStep, TimerElapses, TimerCallback, StoppedCallback,
        RenewalTakesLock, CRStep
<1>4. CASE ClusterStep
  BY <1>4 DEF ClusterStep, DeliverSecret, CollectUserSecret, CollectArgoCDSecret,
        CRStep
<1>5. CASE EnvironmentStep
  <2>1. ASSUME NEW u \in Users, NEW s \in Specs, EditSpec(u, s)  PROVE CRStep
    <3>1. [cr EXCEPT !.users[u] = s] \in CR
      BY SpecAssumption DEF TypeOK, CR
    <3> QED
      BY <2>1, <3>1 DEF EditSpec, CRStep
  <2>2. ASSUME NEW u \in Users, NEW e \in Extras, EditExtraConfig(u, e)
        PROVE  CRStep
    <3>1. [cr EXCEPT !.extra[u] = e] \in CR
      BY SpecAssumption DEF TypeOK, CR
    <3> QED
      BY <2>2, <3>1 DEF EditExtraConfig, CRStep
  <2>3. CASE DeleteCR
    <3>1. [cr EXCEPT !.phase = "deleting"] \in CR
      BY DEF TypeOK, CR
    <3> QED
      BY <2>3, <3>1 DEF DeleteCR, CRStep
  <2>4. CASE \/ OtherEvent \/ PassFault \/ CtlFault \/ Tick \/ ArgoCDWritesSecret
             \/ IssueTokenAnswerLost \/ Restart
             \/ \E u \in Users : RevokeToken(u) \/ DeleteUserSecret(u)
    BY <2>4 DEF OtherEvent, PassFault, CtlFault, Tick, ArgoCDWritesSecret, Touch,
          IssueTokenAnswerLost, Restart, RevokeToken, DeleteUserSecret, CRStep
  <2> QED
    BY <1>5, <2>1, <2>2, <2>3, <2>4 DEF EnvironmentStep
<1>6. CASE UNCHANGED vars
  BY <1>6 DEF vars, CRStep
<1> QED
  BY <1>1, <1>2, <1>3, <1>4, <1>5, <1>6 DEF Next

LEMMA VersionsNext ==
    TypeOK /\ LastVersion /\ VersionsLive /\ CRStep
      => LastVersion' /\ VersionsLive'
<1> SUFFICES ASSUME TypeOK, LastVersion, VersionsLive, CRStep
             PROVE  LastVersion' /\ VersionsLive'
  OBVIOUS
<1> DEFINE n == Len(crWatch)
<1>0. crWatch \in Seq(CR) /\ n \in Nat /\ (crWatch = <<>> <=> n = 0)
  BY DEF TypeOK
<1>1. CASE UNCHANGED crVars
  BY <1>1 DEF LastVersion, VersionsLive
<1>2. ASSUME NEW c \in CR, WriteCR(c), c.phase = "live" => cr.phase = "live"
      PROVE  LastVersion' /\ VersionsLive'
  <2>1. /\ cr' = c /\ cachedCR' = cachedCR
        /\ Len(crWatch') = n + 1 /\ crWatch'[n + 1] = c /\ crWatch' # <<>>
        /\ \A i \in 1..n : crWatch'[i] = crWatch[i]
    BY <1>0, <1>2 DEF WriteCR
  <2> QED
    BY <1>0, <1>2, <2>1 DEF LastVersion, VersionsLive
<1>3. CASE DeliverCR
  <2>0. crWatch # <<>> /\ cr' = cr /\ cachedCR' = Head(crWatch)
        /\ crWatch' = Tail(crWatch)
    BY <1>3 DEF DeliverCR
  <2>1. /\ n > 0 /\ cachedCR' = crWatch[1]
        /\ crWatch' \in Seq(CR) /\ Len(crWatch') = n - 1
        /\ \A i \in 1..(n - 1) : crWatch'[i] = crWatch[i + 1]
    BY <1>0, <2>0
  <2>2. LastVersion'
    <3>1. crWatch[n] = cr
      BY <2>0 DEF LastVersion
    <3>2. CASE n = 1
      BY <2>0, <2>1, <3>1, <3>2 DEF LastVersion
    <3>3. CASE n # 1
      <4>1. n - 1 \in 1..(n - 1) /\ crWatch' # <<>>
        BY <1>0, <2>1, <3>3
      <4> QED
        BY <1>0, <2>0, <2>1, <3>1, <4>1 DEF LastVersion
    <3> QED
      BY <3>2, <3>3
  <2>3. VersionsLive'
    BY <1>0, <2>0, <2>1 DEF VersionsLive
  <2> QED
    BY <2>2, <2>3
<1>4. CASE cr' = cr /\ cachedCR' = cr /\ crWatch' = <<>>
  BY <1>4 DEF LastVersion, VersionsLive
<1> QED
  BY <1>1, <1>2, <1>3, <1>4 DEF CRStep

-----------------------------------------------------------------------------
(* What a pass knows *)

PassInv == PassOwner /\ PassKnows /\ PassWork

LEMMA NoPassFields ==
    NoPass.pc = "free" /\ NoPass.back = "users" /\ NoPass.by = "controller"
    /\ NoPass.todo = {}
BY DEF NoPass

\* The lock is released: nothing is known and nothing is done.
LEMMA ReleaseKeepsPass ==
    ASSUME TypeOK, PassInv, ~LockFree, NEW f \in BOOLEAN, Release(f),
           UNCHANGED crVars
    PROVE  PassInv'
<1>1. pass' = NoPass /\ LockFree'
  BY NoPassFields DEF Release, LockFree
<1>2. ctl' # "pass"
  BY DEF TypeOK, Release, PassInv, PassOwner
<1> QED
  BY <1>1, <1>2, NoPassFields DEF PassInv, PassOwner, PassKnows, PassWork

\* The pass goes on.
LEMMA GotoKeepsPass ==
    ASSUME TypeOK, PassInv, ~LockFree, NEW p, Goto(p), UNCHANGED crVars,
           p.pc # "free", p.by = pass.by, p.cr = pass.cr,
           p.pc \in {"issueSecret", "issueArgo"} => SpecOf(p.user).active,
           p.pc = "orphans" \/ p.back = "orphans"
             => \A u \in p.todo : ~SpecOf(u).listed
    PROVE  PassInv'
<1>1. pass' = p /\ ctl' = ctl /\ queued' = queued /\ ~LockFree'
  BY DEF Goto, LockFree
<1>2. PassOwner'
  BY <1>1 DEF PassInv, PassOwner
<1>3. PassKnows'
  BY <1>1 DEF PassInv, PassKnows, NoneToCome
<1>4. PassWork'
  BY <1>1 DEF PassWork, SpecOf
<1> QED
  BY <1>2, <1>3, <1>4 DEF PassInv

LEMMA ContinueKeepsPass ==
    ASSUME TypeOK, PassInv, ~LockFree, NEW b \in {"users", "orphans"},
           Continue(b), UNCHANGED crVars,
           b = "orphans" => \A u \in pass.todo : ~SpecOf(u).listed
    PROVE  PassInv'
<1> DEFINE p == [pass EXCEPT !.pc = b, !.user = ArgoCDSecret, !.id = 0,
                             !.hasSecret = FALSE, !.back = "users"]
<1>1. p.pc = b /\ p.by = pass.by /\ p.cr = pass.cr /\ p.back = "users"
      /\ p.todo = pass.todo
  BY DEF TypeOK, Pass
<1>2. Goto(p)
  BY DEF Continue
<1> HIDE DEF p
<1> QED
  BY <1>1, <1>2, GotoKeepsPass

LEMMA PassStepKnows == TypeOK /\ PassInv /\ PassStep => PassInv'
<1> SUFFICES ASSUME TypeOK, PassInv, PassStep  PROVE PassInv'
  OBVIOUS
<1>0. pass \in Pass
  BY DEF TypeOK
<1>1. ASSUME NEW u \in Users, ReconcileLocalUser(u)  PROVE PassInv'
  <2> DEFINE v == Verdict(u, cache.user[u])
             h == cache.user[u].id # 0
             p == [pass EXCEPT !.todo = @ \ {u}]
             q == [pass EXCEPT !.pc = v, !.user = u, !.todo = @ \ {u},
                               !.hasSecret = h]
  <2>1. pass.pc = "users" /\ ~LockFree /\ UNCHANGED crVars
    BY <1>1 DEF ReconcileLocalUser, LockFree
  <2>2. v \in {"fail", "cleanArgo", "issueSecret", "keep"}
        /\ (v = "issueSecret" => SpecOf(u).active)
    BY DEF Verdict
  <2>3. (v = "keep" /\ Goto(p)) \/ Release(TRUE)
        \/ (v \in {"cleanArgo", "issueSecret"} /\ Goto(q))
    BY <1>1, <2>2 DEF ReconcileLocalUser, KeepToken
  <2> HIDE DEF v, h
  <2>4. p.pc = "users" /\ p.by = pass.by /\ p.cr = pass.cr /\ p.back = pass.back
        /\ p.todo \subseteq pass.todo
    BY <1>0, <2>1 DEF Pass
  <2>5. q.pc = v /\ q.by = pass.by /\ q.cr = pass.cr /\ q.back = pass.back
        /\ q.todo \subseteq pass.todo /\ q.user = u
    BY <1>0 DEF Pass
  <2> HIDE DEF p, q
  <2>6. pass.back = "orphans" => \A w \in pass.todo : ~SpecOf(w).listed
    BY DEF PassInv, PassWork
  <2>7. CASE Goto(p)
    BY <2>1, <2>4, <2>6, <2>7, GotoKeepsPass
  <2>8. CASE v \in {"cleanArgo", "issueSecret"} /\ Goto(q)
    BY <2>1, <2>2, <2>5, <2>6, <2>8, GotoKeepsPass
  <2> QED
    BY <2>1, <2>3, <2>7, <2>8, ReleaseKeepsPass
<1>2. ASSUME NEW u \in Users, CleanupUnlistedUser(u)  PROVE PassInv'
  <2> DEFINE p == [pass EXCEPT !.pc = "cleanArgo", !.user = u, !.todo = @ \ {u},
                               !.hasSecret = TRUE, !.back = "orphans"]
  <2>1. pass.pc = "orphans" /\ ~LockFree /\ UNCHANGED crVars /\ Goto(p)
    BY <1>2 DEF CleanupUnlistedUser, LockFree
  <2>2. p.pc = "cleanArgo" /\ p.by = pass.by /\ p.cr = pass.cr
        /\ p.todo \subseteq pass.todo
    BY <1>0 DEF Pass
  <2> HIDE DEF p
  <2> QED
    BY <2>1, <2>2, GotoKeepsPass DEF PassInv, PassWork
<1>3. CASE IssueTokenSecret
  <2> DEFINE p == [pass EXCEPT !.pc = "issueArgo", !.id = nextId]
  <2>1. pass.pc = "issueSecret" /\ ~LockFree /\ UNCHANGED crVars
        /\ (Goto(p) \/ Release(TRUE))
    BY <1>3 DEF IssueTokenSecret, LockFree
  <2>2. p.pc = "issueArgo" /\ p.by = pass.by /\ p.cr = pass.cr
        /\ p.todo = pass.todo /\ p.user = pass.user /\ p.back = pass.back
    BY <1>0 DEF Pass
  <2> HIDE DEF p
  <2> QED
    BY <2>1, <2>2, GotoKeepsPass, ReleaseKeepsPass DEF PassInv, PassWork
<1>4. CASE IssueTokenArgo
  BY <1>4, ContinueKeepsPass, ReleaseKeepsPass DEF IssueTokenArgo, LockFree
<1>5. CASE ListLocalUserSecrets
  <2> DEFINE t == {u \in Users : cache.user[u].id # 0 /\ ~SpecOf(u).listed}
             p == [pass EXCEPT !.pc = "orphans", !.todo = t]
  <2>1. ~LockFree /\ UNCHANGED crVars /\ Goto(p)
    BY <1>5 DEF ListLocalUserSecrets, LockFree
  <2>2. \A u \in t : ~SpecOf(u).listed
    OBVIOUS
  <2> HIDE DEF t
  <2>3. p.pc = "orphans" /\ p.by = pass.by /\ p.cr = pass.cr /\ p.todo = t
    BY <1>0 DEF Pass
  <2> HIDE DEF p
  <2> QED
    BY <2>1, <2>2, <2>3, GotoKeepsPass
<1>6. CASE CleanupToken
  <2> DEFINE p == [pass EXCEPT !.pc = "cleanSecret"]
  <2>1. pass.pc = "cleanArgo" /\ ~LockFree /\ UNCHANGED crVars
        /\ (Goto(p) \/ Continue(pass.back) \/ Release(TRUE))
    BY <1>6 DEF CleanupToken, LockFree
  <2>2. p.pc = "cleanSecret" /\ p.by = pass.by /\ p.cr = pass.cr
        /\ p.todo = pass.todo /\ p.back = pass.back
        /\ pass.back \in {"users", "orphans"}
    BY <1>0 DEF Pass
  <2>3. pass.back = "orphans" => \A u \in pass.todo : ~SpecOf(u).listed
    BY DEF PassInv, PassWork
  <2> HIDE DEF p
  <2> QED
    BY <2>1, <2>2, <2>3, GotoKeepsPass, ContinueKeepsPass, ReleaseKeepsPass
<1>7. CASE CleanupSecret
  <2>1. pass.back \in {"users", "orphans"}
        /\ (pass.back = "orphans" => \A u \in pass.todo : ~SpecOf(u).listed)
    BY <1>0 DEF Pass, PassInv, PassWork
  <2> QED
    BY <1>7, <2>1, ContinueKeepsPass DEF CleanupSecret, LockFree
<1>8. CASE EndPass
  BY <1>8, ReleaseKeepsPass DEF EndPass, LockFree
<1> QED
  BY <1>1, <1>2, <1>3, <1>4, <1>5, <1>6, <1>7, <1>8 DEF PassStep

\* The pass is left alone, and the cached resource changes only if a
\* reconciliation is to come.
LEMMA QuietKeepsPass ==
    ASSUME PassInv, pass' = pass, ctl' = "pass" <=> ctl = "pass",
           NoneToCome' => NoneToCome /\ cachedCR' = cachedCR
    PROVE  PassInv'
<1>1. PassOwner'
  BY DEF PassInv, PassOwner, LockFree
<1>2. PassKnows'
  BY DEF PassInv, PassKnows, LockFree
<1>3. PassWork'
  BY DEF PassInv, PassWork, SpecOf
<1> QED
  BY <1>1, <1>2, <1>3 DEF PassInv

LEMMA TakeLockKeepsPass ==
    ASSUME TypeOK, PassInv, LockFree, NEW w \in {"controller", "renewal"},
           TakeLock(w), UNCHANGED crVars, ctl # "pass",
           ctl' = "pass" <=> w = "controller" /\ cachedCR.phase # "gone"
    PROVE  PassInv'
<1>0. pass = NoPass /\ pass \in Pass /\ pass.back = "users" /\ pass.pc = "free"
  BY NoPassFields DEF TypeOK, PassInv, PassOwner, LockFree
<1>1. CASE cachedCR.phase = "gone"
  <2>1. pass' = pass
    BY <1>1 DEF TakeLock
  <2> QED
    BY <1>0, <1>1, <2>1 DEF PassInv, PassOwner, PassKnows, PassWork, LockFree, SpecOf
<1>2. CASE cachedCR.phase # "gone"
  <2>1. /\ pass'.pc = "users" /\ pass'.by = w /\ pass'.cr = cachedCR
        /\ pass'.back = "users"
    BY <1>0, <1>2 DEF TakeLock, Pass
  <2> QED
    BY <1>2, <2>1 DEF PassInv, PassOwner, PassKnows, PassWork, LockFree
<1> QED
  BY <1>1, <1>2

KnowledgeInv == LastVersion /\ VersionsLive /\ NotFinalizing /\ PassInv

LEMMA KnowledgeInit == Init => KnowledgeInv
<1> SUFFICES ASSUME Init  PROVE KnowledgeInv
  OBVIOUS
<1>1. cr.phase = "live" /\ cachedCR = cr /\ crWatch = <<>> /\ ctl = "idle"
      /\ pass = NoPass
  BY DEF Init
<1> QED
  BY <1>1, NoPassFields DEF KnowledgeInv, LastVersion, VersionsLive, NotFinalizing,
     PassInv, PassOwner, PassKnows, PassWork, LockFree

LEMMA PassInvNext == TypeOK /\ KnowledgeInv /\ [Next]_vars => PassInv' /\ NotFinalizing'
<1> SUFFICES ASSUME TypeOK, KnowledgeInv, [Next]_vars
             PROVE  PassInv' /\ NotFinalizing'
  OBVIOUS
<1>0. PassInv /\ NotFinalizing /\ VersionsLive
  BY DEF KnowledgeInv
<1>1. ASSUME pass' = pass, ctl' = ctl, cachedCR' = cachedCR, queued' = queued \/ queued',
             cr'.phase = "live" => cr.phase = "live"
      PROVE  PassInv' /\ NotFinalizing'
  <2>1. NoneToCome' => NoneToCome
    BY <1>1 DEF NoneToCome
  <2> QED
    BY <1>0, <1>1, <2>1, QuietKeepsPass DEF NotFinalizing
<1>2. ASSUME ctl' \in {ctl, "idle"}, UNCHANGED crVars  PROVE NotFinalizing'
  BY <1>0, <1>2 DEF NotFinalizing
<1>3. CASE ControllerStep
  <2>1. CASE CtlReconcile
    <3>1. pass' = pass /\ UNCHANGED crVars /\ ctl = "idle" /\ ctl' # "pass"
          /\ (cachedCR.phase = "live" => ctl' = "users")
      BY <2>1 DEF CtlReconcile
    <3>2. ~NoneToCome' /\ NotFinalizing'
      BY <1>0, <3>1 DEF NoneToCome, NotFinalizing, VersionsLive
    <3> QED
      BY <1>0, <3>1, <3>2, QuietKeepsPass
  <2>2. CASE CleanupNamespaceTokenTimers
    <3>1. pass' = pass /\ cr' = cr /\ ctl = "timers" /\ ctl' = "finalizer"
      BY <2>2 DEF CleanupNamespaceTokenTimers
    <3> QED
      BY <1>0, <3>1, QuietKeepsPass DEF NotFinalizing, NoneToCome
  <2>3. CASE RemoveFinalizer
    <3>1. pass' = pass /\ ctl = "finalizer" /\ ctl' = "idle"
      BY <2>3 DEF RemoveFinalizer
    <3>2. cr' = cr \/ cr' = [cr EXCEPT !.phase = "gone"]
      BY <2>3 DEF RemoveFinalizer, WriteCR
    <3>3. cr'.phase # "live"
      BY <1>0, <3>1, <3>2 DEF NotFinalizing, TypeOK, CR
    <3> QED
      BY <1>0, <3>1, <3>3, QuietKeepsPass DEF NotFinalizing, NoneToCome
  <2>4. CASE CtlTakesLock
    <3>1. /\ LockFree /\ TakeLock("controller") /\ UNCHANGED crVars /\ ctl = "users"
          /\ ctl' = "pass" <=> cachedCR.phase # "gone"
          /\ ctl' \notin {"timers", "finalizer"}
      BY <2>4 DEF CtlTakesLock
    <3> QED
      BY <1>0, <3>1, TakeLockKeepsPass DEF NotFinalizing
  <2> QED
    BY <1>3, <2>1, <2>2, <2>3, <2>4 DEF ControllerStep
<1>4. CASE PassStep
  <2>1. ctl' \in {ctl, "idle"} /\ UNCHANGED crVars
    BY <1>4 DEF PassStep, ReconcileLocalUser, KeepToken, CleanupUnlistedUser,
          IssueTokenSecret, IssueTokenArgo, ListLocalUserSecrets, CleanupToken,
          CleanupSecret, EndPass, Release, Goto, Continue
  <2> QED
    BY <1>0, <1>2, <1>4, <2>1, PassStepKnows
<1>5. CASE RuntimeStep
  <2>1. CASE RenewalTakesLock
    <3>1. LockFree /\ TakeLock("renewal") /\ UNCHANGED crVars /\ ctl' = ctl
      BY <2>1 DEF RenewalTakesLock
    <3>2. ctl # "pass"
      BY <1>0, <3>1 DEF PassInv, PassOwner
    <3> QED
      BY <1>0, <1>2, <3>1, <3>2, TakeLockKeepsPass
  <2> QED
    BY <1>1, <1>5, <2>1 DEF RuntimeStep, TimerElapses, TimerCallback, StoppedCallback
<1>6. CASE ClusterStep
  <2>1. CASE DeliverCR
    <3>1. pass' = pass /\ ctl' = ctl /\ cr' = cr /\ ~NoneToCome'
      BY <2>1 DEF DeliverCR, NoneToCome
    <3> QED
      BY <1>0, <3>1, QuietKeepsPass DEF NotFinalizing
  <2> QED
    BY <1>1, <1>6, <2>1
       DEF ClusterStep, DeliverSecret, CollectUserSecret, CollectArgoCDSecret
<1>7. CASE EnvironmentStep
  <2>1. CASE PassFault \/ IssueTokenAnswerLost
    <3>1. ~LockFree /\ Release(TRUE) /\ UNCHANGED crVars
      BY <2>1 DEF PassFault, IssueTokenAnswerLost, LockFree
    <3>2. ctl' \in {ctl, "idle"}
      BY <3>1 DEF Release
    <3> QED
      BY <1>0, <1>2, <3>1, <3>2, ReleaseKeepsPass
  <2>2. CASE CtlFault
    <3>1. pass' = pass /\ UNCHANGED crVars /\ ctl # "pass" /\ ctl' = "idle"
          /\ ~NoneToCome'
      BY <2>2 DEF CtlFault, NoneToCome
    <3> QED
      BY <1>0, <1>2, <3>1, QuietKeepsPass
  <2>3. CASE Restart
    <3>1. pass' = NoPass /\ ctl' = "idle"
      BY <2>3 DEF Restart
    <3> QED
      BY <3>1, NoPassFields
         DEF PassInv, PassOwner, PassKnows, PassWork, LockFree, NotFinalizing
  <2>4. ASSUME NEW u \in Users, NEW s \in Specs, EditSpec(u, s)
        PROVE  PassInv' /\ NotFinalizing'
    BY <1>1, <2>4 DEF EditSpec, WriteCR
  <2>5. ASSUME NEW u \in Users, NEW e \in Extras, EditExtraConfig(u, e)
        PROVE  PassInv' /\ NotFinalizing'
    BY <1>1, <2>5 DEF EditExtraConfig, WriteCR
  <2>6. CASE DeleteCR
    BY <1>1, <2>6 DEF DeleteCR, WriteCR
  <2>7. CASE \/ OtherEvent \/ Tick \/ ArgoCDWritesSecret
             \/ \E u \in Users : RevokeToken(u) \/ DeleteUserSecret(u)
    BY <1>1, <2>7 DEF OtherEvent, Tick, ArgoCDWritesSecret, Touch, RevokeToken,
          DeleteUserSecret
  <2> QED
    BY <1>7, <2>1, <2>2, <2>3, <2>4, <2>5, <2>6, <2>7 DEF EnvironmentStep
<1>8. CASE UNCHANGED vars
  BY <1>1, <1>8 DEF vars
<1> QED
  BY <1>3, <1>4, <1>5, <1>6, <1>7, <1>8 DEF Next

LEMMA KnowledgeNext == TypeOK /\ KnowledgeInv /\ [Next]_vars => KnowledgeInv'
BY EveryStepCR, VersionsNext, PassInvNext DEF KnowledgeInv

-----------------------------------------------------------------------------
(* Steps between states in which nothing is to come *)

\* Where no pass is to come and there is no news, the step was the worker
\* starting its pass, or the same was true before, and no Secret was written
\* unless there is news of one.
LEMMA HeardStep ==
    ASSUME TypeOK, KnowledgeInv, [Next]_vars, Heard'
    PROVE  \/ CtlTakesLock
           \/ /\ Heard /\ cr' = cr
              /\ watch' = <<>> => watch = <<>> /\ store' = store
<1> DEFINE Stays == /\ Heard /\ cr' = cr
                    /\ watch' = <<>> => watch = <<>> /\ store' = store
<1>0. NotFinalizing /\ VersionsLive /\ PassOwner /\ crWatch \in Seq(CR)
      /\ watch \in Seq(Event)
  BY DEF KnowledgeInv, PassInv, TypeOK
<1>1. ~queued' /\ ctl' \in {"idle", "pass"} /\ cr'.phase = "live" /\ crWatch' = <<>>
  BY DEF Heard, NoneToCome
<1>2. ASSUME NEW o, NEW s, Write(o, s)  PROVE watch' # <<>>
  BY <1>0, <1>2 DEF Write
<1>3. ASSUME NEW c, WriteCR(c)  PROVE FALSE
  BY <1>0, <1>1, <1>3 DEF WriteCR
<1>4. ASSUME UNCHANGED crVars, ctl' = ctl \/ ctl = "pass", queued => queued',
             UNCHANGED secretVars \/ watch' # <<>>
      PROVE  Stays
  BY <1>1, <1>4 DEF Heard, NoneToCome
<1>5. ASSUME NEW f \in BOOLEAN, Release(f), ~LockFree
      PROVE  (ctl' = ctl \/ ctl = "pass") /\ (queued => queued')
  BY <1>0, <1>5 DEF Release, PassOwner
<1>6. CASE ControllerStep
  <2>1. CASE CtlReconcile
    <3>1. UNCHANGED crVars /\ (cachedCR.phase = "live" => ctl' = "users")
      BY <2>1 DEF CtlReconcile
    <3> QED
      BY <1>0, <1>1, <3>1 DEF VersionsLive
  <2>2. CASE CleanupNamespaceTokenTimers
    BY <1>1, <2>2 DEF CleanupNamespaceTokenTimers
  <2>3. CASE RemoveFinalizer
    <3>1. ctl = "finalizer" /\ cr' = cr
      BY <1>3, <2>3 DEF RemoveFinalizer
    <3> QED
      BY <1>0, <1>1, <3>1 DEF NotFinalizing
  <2> QED
    BY <1>6, <2>1, <2>2, <2>3 DEF ControllerStep
<1>7. CASE PassStep
  <2>1. UNCHANGED crVars /\ ~LockFree
    BY <1>7 DEF PassStep, ReconcileLocalUser, CleanupUnlistedUser,
          IssueTokenSecret, IssueTokenArgo, ListLocalUserSecrets, CleanupToken,
          CleanupSecret, EndPass, LockFree
  <2>2. (ctl' = ctl /\ queued' = queued) \/ Release(TRUE) \/ Release(FALSE)
    BY <1>7 DEF PassStep, ReconcileLocalUser, KeepToken, CleanupUnlistedUser,
          IssueTokenSecret, IssueTokenArgo, ListLocalUserSecrets, CleanupToken,
          CleanupSecret, EndPass, Goto, Continue
  <2>3. UNCHANGED secretVars \/ \E o, s : Write(o, s)
    BY <1>7 DEF PassStep, ReconcileLocalUser, KeepToken, CleanupUnlistedUser,
          IssueTokenSecret, IssueTokenArgo, ListLocalUserSecrets, CleanupToken,
          CleanupSecret, EndPass
  <2> QED
    BY <1>2, <1>4, <1>5, <2>1, <2>2, <2>3
<1>8. CASE RuntimeStep
  BY <1>4, <1>8 DEF RuntimeStep, TimerElapses, TimerCallback, StoppedCallback,
              RenewalTakesLock
<1>9. CASE ClusterStep
  BY <1>1, <1>2, <1>4, <1>9 DEF ClusterStep, DeliverSecret, DeliverCR,
        CollectUserSecret, CollectArgoCDSecret
<1>10. CASE EnvironmentStep
  <2>1. CASE PassFault
    BY <1>4, <1>5, <2>1 DEF PassFault
  <2>2. CASE IssueTokenAnswerLost
    <3>1. Release(TRUE) /\ ~LockFree /\ UNCHANGED crVars /\ watch' # <<>>
      BY <1>2, <2>2 DEF IssueTokenAnswerLost, LockFree
    <3> QED
      BY <1>4, <1>5, <3>1
  <2>3. CASE Restart
    BY <1>1, <2>3 DEF Restart
  <2>4. CASE \/ DeleteCR \/ \E u \in Users, s \in Specs : EditSpec(u, s)
             \/ \E u \in Users, e \in Extras : EditExtraConfig(u, e)
    BY <1>3, <2>4 DEF DeleteCR, EditSpec, EditExtraConfig
  <2>5. CASE OtherEvent \/ CtlFault \/ Tick
    BY <1>1, <1>4, <2>5 DEF OtherEvent, CtlFault, Tick
  <2>6. CASE ArgoCDWritesSecret \/ \E u \in Users : RevokeToken(u) \/ DeleteUserSecret(u)
    BY <1>2, <1>4, <2>6 DEF ArgoCDWritesSecret, RevokeToken, DeleteUserSecret, Touch
  <2> QED
    BY <1>10, <2>1, <2>2, <2>3, <2>4, <2>5, <2>6 DEF EnvironmentStep
<1>11. CASE UNCHANGED vars
  BY <1>4, <1>11 DEF vars
<1> QED
  BY <1>6, <1>7, <1>8, <1>9, <1>10, <1>11 DEF Next

\* A pass that the worker starts has every managed user ahead of it.
LEMMA StartIsAhead ==
    ASSUME TypeOK, KnowledgeInv, CtlTakesLock, Heard', NEW u \in Users, Managed(u)'
    PROVE  Ahead(u)'
<1>1. cr' = cr /\ cachedCR = cr /\ cr.phase = "live"
  BY DEF CtlTakesLock, Heard, NoneToCome, KnowledgeInv, LastVersion
<1>2. pass \in Pass /\ pass' = [pass EXCEPT !.pc = "users", !.by = "controller",
              !.cr = cachedCR,
              !.todo = {w \in Users : cachedCR.users[w].listed /\ ~Legacy(cachedCR, w)}]
      /\ ctl' = "pass"
  BY <1>1 DEF CtlTakesLock, TakeLock, TypeOK
<1>3. pass'.todo = {w \in Users : cachedCR.users[w].listed /\ ~Legacy(cachedCR, w)}
  BY <1>2 DEF Pass
<1> QED
  BY <1>1, <1>2, <1>3 DEF Ahead, Managed, Legacy

\* The holder of the lock knows the resource.
LEMMA HeardKnows ==
    ASSUME KnowledgeInv, Heard, ~LockFree
    PROVE  pass.cr = cr
BY DEF KnowledgeInv, LastVersion, PassInv, PassKnows, Heard

\* The worker's pass does not end before it has got to u.
LEMMA AheadStep ==
    ASSUME TypeOK, KnowledgeInv, [Next]_vars, Heard, Heard', cr' = cr,
           NEW u \in Users, Managed(u), Ahead(u)
    PROVE  Ahead(u)' \/ ReconcileLocalUser(u)
<1>0. /\ pass \in Pass /\ ctl = "pass" /\ pass.by = "controller" /\ ~LockFree
      /\ u \in pass.todo /\ ~queued'
  BY DEF TypeOK, KnowledgeInv, PassInv, PassOwner, Ahead, Heard, NoneToCome
<1>1. SpecOf(u).listed
  BY <1>0, HeardKnows DEF SpecOf, Managed
<1>2. ~Release(TRUE)
  BY <1>0 DEF Release
<1>3. CASE pass' = pass /\ ctl' = ctl
  BY <1>3 DEF Ahead
<1>4. CASE PassStep
  <2>1. ASSUME NEW w \in Users, ReconcileLocalUser(w), w # u  PROVE Ahead(u)'
    <3>1. ctl' = ctl /\ pass'.todo = pass.todo \ {w}
      BY <1>0, <1>2, <2>1 DEF ReconcileLocalUser, KeepToken, Goto, Pass
    <3> QED
      BY <1>0, <2>1, <3>1 DEF Ahead
  <2>2. ASSUME NEW w \in Users, CleanupUnlistedUser(w)  PROVE Ahead(u)'
    <3>1. ctl' = ctl /\ pass'.todo = pass.todo \ {w} /\ pass.pc = "orphans"
      BY <1>0, <2>2 DEF CleanupUnlistedUser, Goto, Pass
    <3>2. FALSE
      BY <1>0, <1>1, <3>1 DEF KnowledgeInv, PassInv, PassWork
    <3> QED
      BY <3>2
  <2>3. CASE IssueTokenSecret \/ IssueTokenArgo \/ CleanupToken \/ CleanupSecret
    <3>1. ctl' = ctl /\ pass'.todo = pass.todo
      BY <1>0, <1>2, <2>3 DEF IssueTokenSecret, IssueTokenArgo, CleanupToken,
            CleanupSecret, Goto, Continue, Pass
    <3> QED
      BY <1>0, <3>1 DEF Ahead
  <2>4. CASE ListLocalUserSecrets \/ EndPass
    BY <1>0, <2>4 DEF ListLocalUserSecrets, EndPass
  <2> QED
    BY <1>4, <2>1, <2>2, <2>3, <2>4 DEF PassStep
<1>5. CASE ControllerStep
  BY <1>0, <1>5 DEF ControllerStep, CtlReconcile, CleanupNamespaceTokenTimers,
              RemoveFinalizer, CtlTakesLock
<1>6. CASE RuntimeStep
  BY <1>0, <1>3, <1>6 DEF RuntimeStep, TimerElapses, TimerCallback, StoppedCallback,
              RenewalTakesLock
<1>7. CASE ClusterStep
  BY <1>3, <1>7 DEF ClusterStep, DeliverSecret, DeliverCR, CollectUserSecret,
              CollectArgoCDSecret
<1>8. CASE EnvironmentStep
  <2>1. ~Restart
    BY <1>0 DEF Restart, Heard, NoneToCome
  <2> QED
    BY <1>0, <1>2, <1>3, <1>8, <2>1
       DEF EnvironmentStep, OtherEvent, PassFault, CtlFault, DeleteCR, Tick,
           ArgoCDWritesSecret, IssueTokenAnswerLost, RevokeToken, DeleteUserSecret,
           Touch, EditSpec, EditExtraConfig
<1>9. CASE UNCHANGED vars
  BY <1>3, <1>9 DEF vars
<1> QED
  BY <1>4, <1>5, <1>6, <1>7, <1>8, <1>9 DEF Next

-----------------------------------------------------------------------------
(* Timers *)

\* For a user whose token must not be renewed no timer is started.
LEMMA NoTimerStarts ==
    ASSUME TypeOK, KnowledgeInv, [Next]_vars, Heard, Heard',
           NEW u \in Users, StopDue(u), timer[u].st = "none"
    PROVE  timer'[u].st = "none"
<1>0. timer \in [Users -> Timer] /\ NoTimer.st = "none" /\ pass \in Pass
  BY DEF TypeOK, NoTimer
<1>1. ~LockFree => ReasonToStopTimer(u)
  BY HeardKnows DEF ReasonToStopTimer, SpecOf, StopDue
<1>2. ASSUME NEW w \in Users, StopTimer(w)  PROVE timer'[u].st = "none"
  BY <1>0, <1>2 DEF StopTimer
<1>3. ASSUME NEW w \in Users, NEW d, NEW b, StartOrRestartTimer(w, d, b), ~ReasonToStopTimer(w),
             ~LockFree
      PROVE  timer'[u].st = "none"
  BY <1>0, <1>1, <1>3 DEF StartOrRestartTimer
<1>4. CASE UNCHANGED timer
  BY <1>4
<1>5. CASE timer' = [w \in Users |-> NoTimer]
  BY <1>0, <1>5
<1>6. CASE PassStep
  <2>1. ASSUME NEW w \in Users, ReconcileLocalUser(w)  PROVE timer'[u].st = "none"
    <3>1. ~LockFree
      BY <2>1 DEF ReconcileLocalUser, LockFree
    <3> QED
      BY <1>2, <1>3, <1>4, <2>1, <3>1 DEF ReconcileLocalUser, KeepToken
  <2>2. CASE IssueTokenArgo
    <3> DEFINE w == pass.user
               d == Duration[SpecOf(w).life]
    <3>1. w \in Users /\ ~LockFree /\ SpecOf(w).active /\ pass.pc = "issueArgo"
      BY <2>2 DEF IssueTokenArgo, TypeOK, LockFree, KnowledgeInv, PassInv, PassWork
    <3>2. d > 0 /\ SpecOf(w).renew => ~ReasonToStopTimer(w)
      BY <3>1, LifetimeAssumption DEF ReasonToStopTimer
    <3>3. UNCHANGED timer \/ (d > 0 /\ SpecOf(w).renew /\ StartOrRestartTimer(w, d, FALSE))
      BY <2>2 DEF IssueTokenArgo
    <3> HIDE DEF d, w
    <3> QED
      BY <1>3, <1>4, <3>1, <3>2, <3>3
  <2> QED
    BY <1>2, <1>4, <1>6, <2>1, <2>2 DEF PassStep, CleanupUnlistedUser, IssueTokenSecret,
       ListLocalUserSecrets, CleanupToken, CleanupSecret, EndPass
<1>7. CASE RuntimeStep
  <2>1. ASSUME NEW w \in Users, TimerElapses(w) \/ TimerCallback(w)
        PROVE  timer'[u].st = "none"
    BY <1>0, <2>1 DEF TimerElapses, TimerCallback
  <2> QED
    BY <1>4, <1>7, <2>1 DEF RuntimeStep, StoppedCallback, RenewalTakesLock
<1>8. CASE ControllerStep
  BY <1>4, <1>5, <1>8 DEF ControllerStep, CtlReconcile, CleanupNamespaceTokenTimers,
              RemoveFinalizer, CtlTakesLock
<1>9. CASE ClusterStep
  BY <1>4, <1>9 DEF ClusterStep, DeliverSecret, DeliverCR, CollectUserSecret,
              CollectArgoCDSecret
<1>10. CASE EnvironmentStep
  <2>1. CASE IssueTokenAnswerLost
    BY <1>0, <2>1 DEF IssueTokenAnswerLost, TypeOK, Timer
  <2> QED
    BY <1>4, <1>5, <1>10, <2>1
       DEF EnvironmentStep, OtherEvent, PassFault, CtlFault, Restart, DeleteCR, Tick,
           ArgoCDWritesSecret, RevokeToken, DeleteUserSecret, Touch, EditSpec,
           EditExtraConfig
<1>11. CASE UNCHANGED vars
  BY <1>4, <1>11 DEF vars
<1> QED
  BY <1>6, <1>7, <1>8, <1>9, <1>10, <1>11 DEF Next

LEMMA TimersNext ==
    TypeOK /\ KnowledgeInv /\ TimersInv /\ [Next]_vars => TimersInv'
<1> SUFFICES ASSUME TypeOK, KnowledgeInv, TimersInv, [Next]_vars, Heard',
                    NEW u \in Users, StopDue(u)'
             PROVE  Ahead(u)' \/ timer'[u].st = "none"
  BY DEF TimersInv
<1>1. CASE CtlTakesLock
  BY <1>1, StartIsAhead DEF StopDue
<1>2. CASE Heard /\ cr' = cr
  <2>1. StopDue(u) /\ Managed(u)
    BY <1>2 DEF StopDue, Managed, Legacy
  <2>2. CASE timer[u].st = "none"
    BY <1>2, <2>1, <2>2, NoTimerStarts
  <2>3. CASE Ahead(u) /\ ReconcileLocalUser(u)
    <3>1. ~LockFree
      BY <2>3 DEF ReconcileLocalUser, LockFree
    <3>2. ReasonToStopTimer(u)
      BY <1>2, <2>1, <3>1, HeardKnows DEF ReasonToStopTimer, SpecOf, StopDue
    <3>3. StopTimer(u)
      BY <2>3, <3>2 DEF ReconcileLocalUser, KeepToken
    <3> QED
      BY <3>3 DEF StopTimer, TypeOK, NoTimer
  <2> QED
    BY <1>2, <2>1, <2>2, <2>3, AheadStep DEF TimersInv
<1> QED
  BY <1>1, <1>2, HeardStep

LEMMA TimersInit == Init => TimersInv
BY DEF Init, TimersInv, Heard, NoneToCome

\* When everything has settled, no timer runs for a user who is disabled, has no
\* renewal or has an infinite lifetime, whatever was edited while callbacks,
\* goroutines and passes were under way.
THEOREM NoTimerLeft == Spec => []NoTimerWithoutRenewal
<1>1. Init => TypeOK /\ KnowledgeInv /\ TimersInv
  BY TypeInit, KnowledgeInit, TimersInit
<1>2. TypeOK /\ KnowledgeInv /\ TimersInv /\ [Next]_vars
        => (TypeOK /\ KnowledgeInv /\ TimersInv)'
  BY TypeNext, KnowledgeNext, TimersNext
<1>3. TimersInv => NoTimerWithoutRenewal
  BY DEF TimersInv, NoTimerWithoutRenewal, Settled, Heard, NoneToCome, Managed,
     StopDue, Ahead
<1> QED
  BY <1>1, <1>2, <1>3, PTL DEF Spec

-----------------------------------------------------------------------------
(* Revocation *)

\* A cleanup of u under way goes on to its end.
LEMMA RevokingStep ==
    ASSUME TypeOK, KnowledgeInv, FreshIsCurrent, [Next]_vars, Heard, Heard',
           watch = <<>>, watch' = <<>>, store' = store,
           NEW u \in Users, RevokeDue(u), Revoking(u)
    PROVE  Revoking(u)' \/ Revoked(u)'
<1>0. /\ pass \in Pass /\ ctl = "pass" /\ pass.by = "controller" /\ ~LockFree
      /\ ~queued' /\ pass.user = u /\ pass.pc \in {"cleanArgo", "cleanSecret"}
      /\ watch \in Seq(Event)
  BY DEF TypeOK, KnowledgeInv, PassInv, PassOwner, Revoking, Heard, NoneToCome
<1>1. pass.cr.extra[u] = "none"
  BY <1>0, HeardKnows DEF RevokeDue, Managed, Legacy
<1>2. ~Release(TRUE)
  BY <1>0 DEF Release
<1>3. ASSUME NEW o, NEW s, Write(o, s)  PROVE FALSE
  BY <1>0, <1>3 DEF Write
<1>4. cache.user[u] = store.user[u] /\ cache.argo = store.argo
  BY DEF FreshIsCurrent, Fresh
<1>5. CASE pass' = pass /\ ctl' = ctl
  BY <1>5 DEF Revoking
<1>6. CASE PassStep
  <2>1. CASE CleanupToken
    <3>1. pass.pc = "cleanArgo" /\ (pass.hasSecret <=> store.user[u].id # 0)
      BY <2>1 DEF CleanupToken, Revoking
    <3>2. store.argo.token[u] = 0
      BY <1>0, <1>1, <1>2, <1>3, <1>4, <2>1 DEF CleanupToken
    <3>3. \/ pass.hasSecret /\ Goto([pass EXCEPT !.pc = "cleanSecret"])
          \/ ~pass.hasSecret /\ Continue(pass.back)
      BY <1>2, <2>1 DEF CleanupToken
    <3>4. CASE Goto([pass EXCEPT !.pc = "cleanSecret"])
      BY <1>0, <3>2, <3>4 DEF Goto, Revoking, Pass
    <3>5. CASE ~pass.hasSecret
      BY <3>1, <3>2, <3>5 DEF Revoked
    <3> QED
      BY <3>3, <3>4, <3>5
  <2>2. CASE CleanupSecret
    <3>1. store.user[u].id = 0 /\ store.argo.token[u] = 0
      BY <1>0, <1>3, <2>2 DEF CleanupSecret, Revoking
    <3> QED
      BY <3>1 DEF Revoked
  <2> QED
    BY <1>0, <1>6, <2>1, <2>2 DEF PassStep, ReconcileLocalUser, CleanupUnlistedUser,
       IssueTokenSecret, IssueTokenArgo, ListLocalUserSecrets, EndPass
<1>7. CASE ControllerStep
  BY <1>0, <1>7 DEF ControllerStep, CtlReconcile, CleanupNamespaceTokenTimers,
              RemoveFinalizer, CtlTakesLock
<1>8. CASE RuntimeStep
  BY <1>0, <1>5, <1>8 DEF RuntimeStep, TimerElapses, TimerCallback, StoppedCallback,
              RenewalTakesLock
<1>9. CASE ClusterStep
  BY <1>5, <1>9 DEF ClusterStep, DeliverSecret, DeliverCR, CollectUserSecret,
              CollectArgoCDSecret
<1>10. CASE EnvironmentStep
  <2>1. ~Restart
    BY <1>0 DEF Restart, Heard, NoneToCome
  <2> QED
    BY <1>0, <1>2, <1>5, <1>10, <2>1
       DEF EnvironmentStep, OtherEvent, PassFault, CtlFault, DeleteCR, Tick,
           ArgoCDWritesSecret, IssueTokenAnswerLost, RevokeToken, DeleteUserSecret,
           Touch, EditSpec, EditExtraConfig
<1>11. CASE UNCHANGED vars
  BY <1>5, <1>11 DEF vars
<1> QED
  BY <1>6, <1>7, <1>8, <1>9, <1>10, <1>11 DEF Next

LEMMA RevocationNext ==
    TypeOK /\ KnowledgeInv /\ FreshIsCurrent /\ RevocationInv /\ [Next]_vars
      => RevocationInv'
<1> SUFFICES ASSUME TypeOK, KnowledgeInv, FreshIsCurrent, RevocationInv, [Next]_vars,
                    Heard', watch' = <<>>, NEW u \in Users, RevokeDue(u)'
             PROVE  Ahead(u)' \/ Revoking(u)' \/ Revoked(u)'
  BY DEF RevocationInv
<1>1. CASE CtlTakesLock
  BY <1>1, StartIsAhead DEF RevokeDue
<1>2. CASE Heard /\ cr' = cr /\ watch = <<>> /\ store' = store
  <2>1. RevokeDue(u) /\ Managed(u)
    BY <1>2 DEF RevokeDue, Managed, Legacy
  <2>2. CASE Revoked(u)
    BY <1>2, <2>2 DEF Revoked
  <2>3. CASE Revoking(u)
    BY <1>2, <2>1, <2>3, RevokingStep
  <2>4. CASE Ahead(u) /\ ReconcileLocalUser(u)
    <3> DEFINE h == cache.user[u].id # 0
               p == [pass EXCEPT !.pc = "cleanArgo", !.user = u, !.todo = @ \ {u},
                                 !.hasSecret = h]
    <3>1. ~LockFree /\ ctl = "pass" /\ pass \in Pass
      BY <2>4 DEF ReconcileLocalUser, LockFree, Ahead, TypeOK
    <3>2. Verdict(u, cache.user[u]) = "cleanArgo"
      BY <1>2, <2>1, <3>1, HeardKnows, LifetimeAssumption
         DEF Verdict, SpecOf, RevokeDue, TypeOK, CR, UserSpec
    <3>3. Goto(p)
      BY <2>4, <3>2 DEF ReconcileLocalUser
    <3>4. h <=> store.user[u].id # 0
      BY <1>2 DEF FreshIsCurrent, Fresh
    <3> HIDE DEF h
    <3>5. pass'.pc = "cleanArgo" /\ pass'.user = u /\ pass'.hasSecret = h /\ ctl' = "pass"
      BY <3>1, <3>3 DEF Goto, Pass
    <3> QED
      BY <1>2, <3>4, <3>5 DEF Revoking
  <2> QED
    BY <1>2, <2>1, <2>2, <2>3, <2>4, AheadStep DEF RevocationInv
<1> QED
  BY <1>1, <1>2, HeardStep

LEMMA RevocationInit == Init => RevocationInv
BY DEF Init, RevocationInv, Heard, NoneToCome

\* When everything has settled, a disabled user has no token left in either
\* Secret: a cleanup that a stale cache or an error has cut short is repeated.
THEOREM DisabledLosesToken == Spec => []InactiveIsRevoked
<1>1. Init => TypeOK /\ CaughtUp /\ KnowledgeInv /\ RevocationInv
  BY TypeInit, CaughtUpInit, KnowledgeInit, RevocationInit
<1>2. TypeOK /\ CaughtUp /\ KnowledgeInv /\ RevocationInv /\ [Next]_vars
        => (TypeOK /\ CaughtUp /\ KnowledgeInv /\ RevocationInv)'
  BY TypeNext, CaughtUpNext, CaughtUpImplies, KnowledgeNext, RevocationNext
<1>3. RevocationInv => InactiveIsRevoked
  BY DEF RevocationInv, InactiveIsRevoked, Settled, Heard, NoneToCome, Managed,
     RevokeDue, Ahead, Revoking, Revoked
<1> QED
  BY <1>1, <1>2, <1>3, PTL DEF Spec

-----------------------------------------------------------------------------
(* Schedules *)

\* The tokens stay or go, and so do the timers, or they are started anew and
\* not too early.
LEMMA CalmSchedule ==
    ASSUME TypeOK, ElapsedIsDue, InfiniteNeverExpires, NotEarly, now' = now,
           \A u \in Users :
              \/ store'.user[u] = NoSecret
              \/ /\ store'.user[u].id = store.user[u].id
                 /\ store'.user[u].expAt = store.user[u].expAt
                 /\ store'.user[u].life = store.user[u].life,
           \A u \in Users : store'.argo.token[u] \in {0, store.argo.token[u]},
           \A u \in Users :
              \/ timer'[u] = timer[u]
              \/ timer'[u].st = "none"
              \/ /\ timer'[u].st = "armed"
                 /\ \/ timer'[u].stale
                    \/ store'.user[u].expAt = 0
                    \/ timer'[u].at >= store'.user[u].expAt
    PROVE  ElapsedIsDue' /\ InfiniteNeverExpires' /\ NotEarly'
<1>0. NoSecret.id = 0 /\ NoSecret.expAt = 0
  BY DEF NoSecret
<1>1. ElapsedIsDue'
  BY DEF ElapsedIsDue
<1>2. InfiniteNeverExpires'
  BY <1>0 DEF InfiniteNeverExpires
<1>3. ASSUME NEW u \in Users, Agreed(u)'
      PROVE  Agreed(u) /\ store'.user[u].expAt = store.user[u].expAt
  BY <1>0, <1>3 DEF Agreed
<1>4. NotEarly'
  <2> SUFFICES ASSUME NEW u \in Users, Agreed(u)', timer'[u].st # "none",
                      ~timer'[u].stale
               PROVE  timer'[u].at >= store'.user[u].expAt
    BY DEF NotEarly
  <2>1. Agreed(u) /\ store'.user[u].expAt = store.user[u].expAt
    BY <1>3
  <2>2. CASE timer'[u] = timer[u]
    BY <2>1, <2>2 DEF NotEarly
  <2> QED
    BY <2>1, <2>2 DEF Agreed
<1> QED
  BY <1>1, <1>2, <1>4

\* The same when nothing is being issued, or nothing changes about it.
LEMMA QuietSchedule ==
    ASSUME TypeOK, ScheduleInv, now' = now,
           \A u \in Users : store'.user[u] \in {NoSecret, store.user[u]},
           \A u \in Users : store'.argo.token[u] \in {0, store.argo.token[u]},
           \/ pass' = pass /\ timer' = timer
           \/ /\ pass'.pc \notin {"issueSecret", "issueArgo"}
              /\ \A u \in Users : timer'[u].st = "none" \/ timer'[u] = timer[u]
    PROVE  ScheduleInv'
<1>1. ElapsedIsDue' /\ InfiniteNeverExpires' /\ NotEarly'
  BY CalmSchedule DEF ScheduleInv
<1>2. IssueInv'
  <2>1. CASE pass' = pass /\ timer' = timer
    <3>1. pass.pc \in {"issueSecret", "issueArgo"} => pass.user \in Users
      BY DEF TypeOK
    <3>2. NoSecret.expAt = 0
      BY DEF NoSecret
    <3> QED
      BY <2>1, <3>1, <3>2 DEF ScheduleInv, IssueInv, SpecOf
  <2> QED
    BY <2>1 DEF IssueInv
<1> QED
  BY <1>1, <1>2 DEF ScheduleInv

LEMMA ReconcileSchedule ==
    ASSUME TypeOK, FreshIsCurrent, ScheduleInv, NEW u \in Users, ReconcileLocalUser(u)
    PROVE  ScheduleInv'
<1> DEFINE s == cache.user[u]
           v == Verdict(u, s)
<1>0. /\ pass \in Pass /\ NoPass.pc = "free" /\ pass.pc = "users" /\ now' = now
      /\ s \in Secret /\ store \in Store /\ timer \in [Users -> Timer]
      /\ NoTimer.st = "none" /\ now \in Nat
  BY NoPassFields DEF TypeOK, Store, ReconcileLocalUser, NoTimer
<1>1. CASE v = "keep"
  <2>1. KeepToken(u, s)
    BY <1>1 DEF ReconcileLocalUser
  <2>2. pass'.pc \notin {"issueSecret", "issueArgo"}
    BY <1>0, <2>1 DEF KeepToken, Goto, Release, Pass
  <2>3. store' = store \/ (s = store.user[u] /\ store' = [store EXCEPT !.user[u] =
                              [s EXCEPT !.renew = SpecOf(u).renew]])
    BY <2>1 DEF KeepToken, Write, CanUpdate, FreshIsCurrent
  <2>4. /\ store'.argo = store.argo
        /\ \A w \in Users : /\ store'.user[w].id = store.user[w].id
                            /\ store'.user[w].expAt = store.user[w].expAt
                            /\ store'.user[w].life = store.user[w].life
    BY <1>0, <2>3 DEF Store, Secret
  <2> DEFINE b == s.expAt # store.user[u].expAt
             d == IF s.expAt # 0 THEN s.expAt - now ELSE Duration[SpecOf(u).life]
  <2>5. timer' = timer \/ StopTimer(u) \/ StartOrRestartTimer(u, d, b)
    BY <2>1 DEF KeepToken
  <2>6. s.expAt \in Int /\ (s.expAt # 0 => now + d = s.expAt)
    BY <1>0 DEF Secret
  <2>7. ~b => s.expAt = store'.user[u].expAt
    BY <2>4
  <2> HIDE DEF b, d, s
  <2>8. \A w \in Users :
              \/ timer'[w] = timer[w]
              \/ timer'[w].st = "none"
              \/ /\ timer'[w].st = "armed"
                 /\ \/ timer'[w].stale
                    \/ store'.user[w].expAt = 0
                    \/ timer'[w].at >= store'.user[w].expAt
    <3>1. CASE StartOrRestartTimer(u, d, b)
      <4>1. /\ \A w \in Users \ {u} : timer'[w] = timer[w]
            /\ timer'[u].st = "armed" /\ timer'[u].stale = b /\ timer'[u].at = now + d
        BY <1>0, <3>1 DEF StartOrRestartTimer
      <4> QED
        BY <2>6, <2>7, <4>1
    <3>2. CASE timer' = timer \/ StopTimer(u)
      BY <1>0, <3>2 DEF StopTimer
    <3> QED
      BY <2>5, <3>1, <3>2
  <2>9. ElapsedIsDue' /\ InfiniteNeverExpires' /\ NotEarly'
    BY <1>0, <2>4, <2>8, CalmSchedule DEF ScheduleInv
  <2> QED
    BY <2>2, <2>9 DEF ScheduleInv, IssueInv
<1>2. CASE v # "keep"
  <2> DEFINE h == s.id # 0
             p == [pass EXCEPT !.pc = v, !.user = u, !.todo = @ \ {u}, !.hasSecret = h]
  <2>1. /\ store' = store /\ (pass' = NoPass \/ pass' = p)
        /\ IF ReasonToStopTimer(u) THEN StopTimer(u) ELSE timer' = timer
    BY <1>2 DEF ReconcileLocalUser, Release, Goto
  <2>2. v # "issueArgo"
    BY DEF Verdict
  <2> HIDE DEF v, h
  <2>3. p.pc = v /\ p.user = u /\ p.cr = pass.cr
    BY <1>0 DEF Pass
  <2> HIDE DEF p
  <2>4. /\ \A w \in Users : timer'[w].st = "none" \/ timer'[w] = timer[w]
        /\ ~SpecOf(u).renew => timer'[u].st = "none"
    BY <1>0, <2>1 DEF StopTimer, ReasonToStopTimer
  <2>5. IssueInv'
    BY <1>0, <2>1, <2>2, <2>3, <2>4 DEF IssueInv, SpecOf
  <2>6. ElapsedIsDue' /\ InfiniteNeverExpires' /\ NotEarly'
    BY <1>0, <2>1, <2>4, CalmSchedule DEF ScheduleInv
  <2> QED
    BY <2>5, <2>6 DEF ScheduleInv
<1> QED
  BY <1>1, <1>2

LEMMA IssueSecretSchedule ==
    ASSUME TypeOK, TokenInv, ScheduleInv, IssueTokenSecret
    PROVE  ScheduleInv'
<1> DEFINE u == pass.user
           d == Duration[SpecOf(u).life]
           e == IF d > 0 THEN now + d ELSE 0
           token == [id |-> nextId, expAt |-> e,
                     life |-> StoredLife(u), renew |-> SpecOf(u).renew]
           p == [pass EXCEPT !.pc = "issueArgo", !.id = nextId]
<1>0. /\ pass \in Pass /\ pass.pc = "issueSecret" /\ u \in Users /\ store \in Store
      /\ now' = now /\ timer' = timer /\ now \in Nat
  BY DEF TypeOK, IssueTokenSecret
<1>1. CASE Release(TRUE) /\ UNCHANGED secretVars
  BY <1>0, <1>1, NoPassFields, QuietSchedule DEF Release
<1>2. CASE Write(u, [store EXCEPT !.user[u] = token]) /\ Goto(p)
  <2>1. d \in Int /\ (StoredLife(u) = ZeroHours => d = 0)
    BY <1>0, LifetimeAssumption DEF TypeOK, Pass, CR, SpecOf, UserSpec, StoredLife
  <2>2. token.id = nextId /\ token.expAt = e /\ token.life = StoredLife(u)
    OBVIOUS
  <2>3. store'.argo = store.argo /\ store'.user = [store.user EXCEPT ![u] = token]
    BY <1>0, <1>2 DEF Write, Store
  <2> HIDE DEF token
  <2>4. /\ store'.user[u] = token
        /\ \A w \in Users \ {u} : store'.user[w] = store.user[w]
    BY <1>0, <2>3 DEF Store
  <2>5. pass' = p /\ p.pc = "issueArgo" /\ p.user = u /\ p.cr = pass.cr /\ p.id = nextId
    BY <1>0, <1>2 DEF Goto, Pass
  <2> HIDE DEF p
  <2>6. InfiniteNeverExpires'
    BY <2>1, <2>2, <2>4 DEF ScheduleInv, InfiniteNeverExpires
  <2>7. ElapsedIsDue'
    BY <1>0 DEF ScheduleInv, ElapsedIsDue
  <2>8. NotEarly'
    <3>1. store.argo.token[u] # nextId
      BY <1>0 DEF TokenInv, TypeOK, Store, Argo
    <3>2. \A w \in Users : Agreed(w)' => w # u
      BY <2>2, <2>3, <2>4, <3>1 DEF Agreed
    <3> QED
      BY <1>0, <2>3, <2>4, <3>2 DEF ScheduleInv, NotEarly, Agreed
  <2>9. IssueInv'
    <3>1. pass'.user = u /\ pass'.cr = pass.cr
      BY <2>5
    <3>2. ~SpecOf(u).renew => timer'[u].st = "none"
      BY <1>0 DEF ScheduleInv, IssueInv
    <3>3. e = 0 \/ (d > 0 /\ e <= now + d)
      BY <2>1, <1>0
    <3> HIDE DEF e
    <3>4. store'.user[u].expAt = 0 \/ (d > 0 /\ store'.user[u].expAt <= now' + d)
      BY <1>0, <2>2, <2>4, <3>3
    <3> QED
      BY <3>1, <3>2, <3>4 DEF IssueInv, SpecOf
  <2> QED
    BY <2>6, <2>7, <2>8, <2>9 DEF ScheduleInv
<1> QED
  BY <1>1, <1>2 DEF IssueTokenSecret

LEMMA IssueArgoSchedule ==
    ASSUME TypeOK, FreshIsCurrent, ScheduleInv, IssueTokenArgo \/ IssueTokenAnswerLost
    PROVE  ScheduleInv'
<1> DEFINE u == pass.user
           d == Duration[SpecOf(u).life]
           st == [store EXCEPT !.argo = [cache.argo EXCEPT !.token[u] = pass.id]]
<1>0. /\ pass \in Pass /\ pass.pc = "issueArgo" /\ u \in Users /\ store \in Store
      /\ now' = now /\ timer \in [Users -> Timer] /\ now \in Nat
      /\ NoPass.pc = "free"
  BY NoPassFields DEF TypeOK, IssueTokenArgo, IssueTokenAnswerLost
<1>1. CASE Release(TRUE) /\ UNCHANGED <<secretVars, timerVars>>
  BY <1>0, <1>1, NoPassFields, QuietSchedule DEF Release
<1>2. CASE /\ CanUpdate(ArgoCDSecret, store.argo.exists) /\ Write(ArgoCDSecret, st)
           /\ pass'.pc \notin {"issueSecret", "issueArgo"}
           /\ \/ d > 0 /\ SpecOf(u).renew /\ StartOrRestartTimer(u, d, FALSE)
              \/ ~(d > 0 /\ SpecOf(u).renew) /\ timer' = timer
              \/ timer' = [timer EXCEPT ![u].stale = (timer[u].st # "none")]
  <2>1. /\ store'.user = store.user
        /\ \A w \in Users \ {u} : store'.argo.token[w] = store.argo.token[w]
        /\ store'.argo.token[u] = pass.id
    BY <1>0, <1>2, PassArgoWrite DEF Pass
  <2>2. \A w \in Users \ {u} : timer'[w] = timer[w]
    BY <1>0, <1>2 DEF StartOrRestartTimer
  <2>3. timer'[u].st \in {"firing", "fired"}
          => timer'[u].at = timer[u].at /\ timer'[u].st = timer[u].st
    BY <1>0, <1>2 DEF StartOrRestartTimer, Timer
  <2>4. ElapsedIsDue'
    BY <1>0, <2>2, <2>3 DEF ScheduleInv, ElapsedIsDue
  <2>5. InfiniteNeverExpires'
    BY <2>1 DEF ScheduleInv, InfiniteNeverExpires
  <2>6. NotEarly'
    <3> SUFFICES ASSUME NEW w \in Users, Agreed(w)', timer'[w].st # "none",
                        ~timer'[w].stale
                 PROVE  timer'[w].at >= store'.user[w].expAt
      BY DEF NotEarly
    <3>1. CASE w # u
      BY <2>1, <2>2, <3>1 DEF ScheduleInv, NotEarly, Agreed
    <3>2. CASE w = u
      <4>1. d > 0 /\ store.user[u].expAt <= now + d /\ store.user[u].expAt \in Int
        BY <1>0, <2>1, <3>2 DEF ScheduleInv, IssueInv, Agreed, Store, Secret
      <4>2. ~SpecOf(u).renew => timer[u].st = "none"
        BY <1>0 DEF ScheduleInv, IssueInv
      <4>3. StartOrRestartTimer(u, d, FALSE)
        <5>1. CASE timer' = [timer EXCEPT ![u].stale = (timer[u].st # "none")]
          <6> DEFINE b == timer[u].st # "none"
          <6>1. timer' = [timer EXCEPT ![u].stale = b] /\ u \in Users
            BY <1>0, <5>1
          <6>2. b <=> timer[u].st # "none"
            OBVIOUS
          <6> HIDE DEF b, u
          <6>3. timer'[u].stale = b /\ timer'[u].st = timer[u].st
            BY <1>0, <6>1 DEF Timer
          <6> QED
            BY <3>2, <6>2, <6>3
        <5>2. CASE ~(d > 0 /\ SpecOf(u).renew) /\ timer' = timer
          BY <3>2, <4>1, <4>2, <5>2
        <5> QED
          BY <1>2, <5>1, <5>2
      <4>4. timer'[u].at = now + d
        BY <1>0, <4>3 DEF StartOrRestartTimer
      <4> QED
        BY <2>1, <3>2, <4>1, <4>4
    <3> QED
      BY <3>1, <3>2
  <2> QED
    BY <1>2, <2>4, <2>5, <2>6 DEF ScheduleInv, IssueInv
<1>3. CASE IssueTokenArgo
  <2>1. Continue("users") => pass'.pc = "users"
    BY <1>0 DEF Continue, Goto, Pass
  <2> QED
    BY <1>1, <1>2, <1>3, <2>1 DEF IssueTokenArgo
<1>4. CASE IssueTokenAnswerLost
  BY <1>0, <1>2, <1>4 DEF IssueTokenAnswerLost, Release
<1> QED
  BY <1>3, <1>4

LEMMA ScheduleInit == Init => ScheduleInv
BY DEF Init, ScheduleInv, IssueInv, ElapsedIsDue, InfiniteNeverExpires, NotEarly,
   InitStore, NoSecret, NoTimer, NoPass, Agreed

LEMMA ScheduleNext ==
    TypeOK /\ FreshIsCurrent /\ TokenInv /\ ScheduleInv /\ [Next]_vars => ScheduleInv'
<1> SUFFICES ASSUME TypeOK, FreshIsCurrent, TokenInv, ScheduleInv, [Next]_vars
             PROVE  ScheduleInv'
  OBVIOUS
<1>0. /\ pass \in Pass /\ NoPass.pc = "free" /\ store \in Store
      /\ timer \in [Users -> Timer] /\ NoTimer.st = "none"
  BY NoPassFields DEF TypeOK, NoTimer
<1>1. ASSUME store' = store, now' = now,
             \/ pass' = pass /\ timer' = timer
             \/ /\ pass'.pc \notin {"issueSecret", "issueArgo"}
                /\ \A u \in Users : timer'[u].st = "none" \/ timer'[u] = timer[u]
      PROVE  ScheduleInv'
  BY <1>1, QuietSchedule
<1>2. ASSUME NEW u \in Users, store' = [store EXCEPT !.user[u] = NoSecret],
             now' = now, timer' = timer,
             pass' = pass \/ pass'.pc \notin {"issueSecret", "issueArgo"}
      PROVE  ScheduleInv'
  <2>1. /\ store'.argo = store.argo
        /\ \A w \in Users : store'.user[w] \in {NoSecret, store.user[w]}
    BY <1>0, <1>2 DEF Store
  <2> QED
    BY <1>2, <2>1, QuietSchedule
<1>3. CASE ControllerStep
  <2>1. CASE CtlReconcile \/ RemoveFinalizer
    BY <1>1, <2>1 DEF CtlReconcile, RemoveFinalizer
  <2>2. CASE CtlTakesLock
    <3>1. pass' = pass \/ pass'.pc = "users"
      BY <1>0, <2>2 DEF CtlTakesLock, TakeLock, Pass
    <3> QED
      BY <1>1, <2>2, <3>1 DEF CtlTakesLock
  <2>3. CASE CleanupNamespaceTokenTimers
    <3>1. pass.pc = "free" /\ \A u \in Users : timer'[u].st = "none"
      BY <1>0, <2>3 DEF CleanupNamespaceTokenTimers, LockFree
    <3> QED
      BY <1>1, <2>3, <3>1 DEF CleanupNamespaceTokenTimers
  <2> QED
    BY <1>3, <2>1, <2>2, <2>3 DEF ControllerStep
<1>4. CASE PassStep
  <2>1. ASSUME NEW u \in Users, CleanupUnlistedUser(u)  PROVE ScheduleInv'
    <3>1. pass'.pc = "cleanArgo" /\ store' = store /\ now' = now
          /\ \A w \in Users : timer'[w].st = "none" \/ timer'[w] = timer[w]
      BY <1>0, <2>1 DEF CleanupUnlistedUser, Goto, StopTimer, Pass
    <3> QED
      BY <1>1, <3>1
  <2>2. CASE ListLocalUserSecrets \/ EndPass
    <3>1. pass'.pc \in {"orphans", "free"} /\ store' = store /\ now' = now
          /\ timer' = timer
      BY <1>0, <2>2 DEF ListLocalUserSecrets, EndPass, Goto, Release, Pass
    <3> QED
      BY <1>1, <3>1
  <2>3. CASE CleanupToken
    <3>1. pass'.pc \in {"cleanSecret", "users", "orphans", "free"} /\ now' = now
          /\ timer' = timer /\ pass.user \in Users
      BY <1>0, <2>3 DEF CleanupToken, Goto, Continue, Release, Pass, TypeOK
    <3>2. CASE store' # store
      <4>1. store'.user = store.user
            /\ \A w \in Users : store'.argo.token[w] \in {0, store.argo.token[w]}
        BY <2>3, <3>1, <3>2, PassArgoWrite DEF CleanupToken
      <4> QED
        BY <3>1, <4>1, QuietSchedule
    <3> QED
      BY <1>1, <3>1, <3>2
  <2>4. CASE CleanupSecret
    <3>1. pass'.pc \in {"users", "orphans"} /\ now' = now
          /\ timer' = timer /\ pass.user \in Users
      BY <1>0, <2>4 DEF CleanupSecret, Goto, Continue, Pass, TypeOK
    <3>2. store' = store \/ store' = [store EXCEPT !.user[pass.user] = NoSecret]
      BY <2>4 DEF CleanupSecret, Write
    <3> QED
      BY <1>1, <1>2, <3>1, <3>2
  <2> QED
    BY <1>4, <2>1, <2>2, <2>3, <2>4, ReconcileSchedule, IssueSecretSchedule,
       IssueArgoSchedule DEF PassStep
<1>5. CASE RuntimeStep
  <2>1. ASSUME NEW u \in Users, TimerElapses(u) \/ TimerCallback(u)
        PROVE  ScheduleInv'
    <3>1. /\ store' = store /\ now' = now /\ pass' = pass
          /\ \A w \in Users \ {u} : timer'[w] = timer[w]
          /\ timer'[u].st \in {"firing", "fired"} /\ timer'[u].at = timer[u].at
          /\ timer'[u].stale = timer[u].stale /\ timer[u].st # "none"
      BY <1>0, <2>1 DEF TimerElapses, TimerCallback, Timer
    <3>2. now >= timer[u].at
      BY <1>0, <2>1 DEF TimerElapses, TimerCallback, ScheduleInv, ElapsedIsDue
    <3>3. IssueInv'
      BY <3>1 DEF ScheduleInv, IssueInv, SpecOf, TypeOK
    <3>4. ElapsedIsDue' /\ InfiniteNeverExpires'
      BY <3>1, <3>2 DEF ScheduleInv, ElapsedIsDue, InfiniteNeverExpires
    <3>5. NotEarly'
      BY <3>1 DEF ScheduleInv, NotEarly, Agreed
    <3> QED
      BY <3>3, <3>4, <3>5 DEF ScheduleInv
  <2>2. CASE StoppedCallback
    BY <1>1, <2>2 DEF StoppedCallback
  <2>3. CASE RenewalTakesLock
    <3>1. pass' = pass \/ pass'.pc = "users"
      BY <1>0, <2>3 DEF RenewalTakesLock, TakeLock, Pass
    <3> QED
      BY <1>1, <2>3, <3>1 DEF RenewalTakesLock
  <2> QED
    BY <1>5, <2>1, <2>2, <2>3 DEF RuntimeStep
<1>6. CASE ClusterStep
  <2>1. CASE DeliverSecret \/ DeliverCR
    BY <1>1, <2>1 DEF DeliverSecret, DeliverCR
  <2>2. ASSUME NEW u \in Users, CollectUserSecret(u)  PROVE ScheduleInv'
    BY <1>2, <2>2 DEF CollectUserSecret, Write
  <2>3. CASE CollectArgoCDSecret
    <3>1. store'.user = store.user /\ \A w \in Users : store'.argo.token[w] = 0
      BY <1>0, <2>3 DEF CollectArgoCDSecret, Write, Store
    <3> QED
      BY <2>3, <3>1, QuietSchedule DEF CollectArgoCDSecret
  <2> QED
    BY <1>6, <2>1, <2>2, <2>3 DEF ClusterStep
<1>7. CASE EnvironmentStep
  <2>1. CASE \/ OtherEvent \/ CtlFault \/ DeleteCR \/ ArgoCDWritesSecret
             \/ \E u \in Users, s \in Specs : EditSpec(u, s)
             \/ \E u \in Users, e \in Extras : EditExtraConfig(u, e)
    BY <1>1, <2>1 DEF OtherEvent, CtlFault, DeleteCR, ArgoCDWritesSecret, Touch, Write,
          EditSpec, EditExtraConfig
  <2>2. CASE PassFault
    BY <1>0, <1>1, <2>2 DEF PassFault, Release
  <2>3. CASE Restart
    BY <1>0, <1>1, <2>3 DEF Restart
  <2>4. CASE Tick
    <3>1. store' = store /\ now' = now + 1 /\ pass' = pass /\ timer' = timer
          /\ now \in Nat /\ \A u \in Users : timer[u].at \in Int
      BY <1>0, <2>4 DEF Tick, TypeOK, Timer
    <3>2. IssueInv'
      <4>1. pass.pc = "issueArgo" => /\ pass.user \in Users
                                     /\ Duration[SpecOf(pass.user).life] \in Int
                                     /\ store.user[pass.user].expAt \in Int
        BY <1>0, LifetimeAssumption
           DEF TypeOK, Pass, CR, SpecOf, UserSpec, Store, Secret
      <4> QED
        BY <3>1, <4>1 DEF ScheduleInv, IssueInv, SpecOf
    <3>3. ElapsedIsDue' /\ InfiniteNeverExpires' /\ NotEarly'
      BY <3>1 DEF ScheduleInv, ElapsedIsDue, InfiniteNeverExpires, NotEarly, Agreed
    <3> QED
      BY <3>2, <3>3 DEF ScheduleInv
  <2>5. ASSUME NEW u \in Users, RevokeToken(u)  PROVE ScheduleInv'
    <3>1. store'.user = store.user
          /\ \A w \in Users : store'.argo.token[w] \in {0, store.argo.token[w]}
      BY <1>0, <2>5 DEF RevokeToken, Touch, Write, Store, Argo
    <3> QED
      BY <2>5, <3>1, QuietSchedule DEF RevokeToken, Touch
  <2>6. ASSUME NEW u \in Users, DeleteUserSecret(u)  PROVE ScheduleInv'
    BY <1>2, <2>6 DEF DeleteUserSecret, Touch, Write
  <2> QED
    BY <1>7, <2>1, <2>2, <2>3, <2>4, <2>5, <2>6, IssueArgoSchedule DEF EnvironmentStep
<1>8. CASE UNCHANGED vars
  BY <1>1, <1>8 DEF vars
<1> QED
  BY <1>3, <1>4, <1>5, <1>6, <1>7, <1>8 DEF Next

-----------------------------------------------------------------------------
(* Renewal *)

\* A timer that no pass has a reason to stop stays in the map.
LEMMA TimerStays ==
    ASSUME TypeOK, KnowledgeInv, [Next]_vars, Heard, Heard',
           NEW u \in Users, RenewDue(u), HasTimer(u)
    PROVE  timer'[u].st # "none"
<1>0. /\ timer \in [Users -> Timer] /\ pass \in Pass /\ timer[u].st # "none"
      /\ ctl \in {"idle", "pass"} /\ ~queued'
  BY DEF TypeOK, HasTimer, Heard, NoneToCome
<1>1. ~LockFree => ~ReasonToStopTimer(u) /\ SpecOf(u).listed
  BY HeardKnows DEF ReasonToStopTimer, SpecOf, RenewDue, Managed, HasTimer
<1>2. ASSUME NEW w \in Users, StopTimer(w), w # u  PROVE timer'[u].st # "none"
  BY <1>0, <1>2 DEF StopTimer
<1>3. ASSUME NEW w \in Users, NEW d, NEW b, StartOrRestartTimer(w, d, b)
      PROVE  timer'[u].st # "none"
  BY <1>0, <1>3 DEF StartOrRestartTimer
<1>4. CASE UNCHANGED timer
  BY <1>0, <1>4
<1>5. CASE PassStep
  <2>1. ASSUME NEW w \in Users, ReconcileLocalUser(w)  PROVE timer'[u].st # "none"
    <3>1. ~LockFree
      BY <2>1 DEF ReconcileLocalUser, LockFree
    <3> QED
      BY <1>1, <1>2, <1>3, <1>4, <2>1, <3>1 DEF ReconcileLocalUser, KeepToken
  <2>2. ASSUME NEW w \in Users, CleanupUnlistedUser(w)  PROVE timer'[u].st # "none"
    <3>1. ~LockFree /\ pass.pc = "orphans" /\ w \in pass.todo /\ StopTimer(w)
      BY <2>2 DEF CleanupUnlistedUser, LockFree
    <3>2. w # u
      BY <1>1, <3>1 DEF KnowledgeInv, PassInv, PassWork
    <3> QED
      BY <1>2, <3>1, <3>2
  <2>3. CASE IssueTokenArgo
    BY <1>3, <1>4, <2>3 DEF IssueTokenArgo, TypeOK
  <2> QED
    BY <1>4, <1>5, <2>1, <2>2, <2>3 DEF PassStep, IssueTokenSecret,
       ListLocalUserSecrets, CleanupToken, CleanupSecret, EndPass
<1>6. CASE RuntimeStep
  <2>1. ASSUME NEW w \in Users, TimerElapses(w) \/ TimerCallback(w)
        PROVE  timer'[u].st # "none"
    <3>1. \/ timer' = [timer EXCEPT ![w].st = "firing"]
          \/ timer' = [timer EXCEPT ![w].st = "fired"]
      BY <2>1 DEF TimerElapses, TimerCallback
    <3> QED
      BY <1>0, <3>1 DEF Timer
  <2> QED
    BY <1>4, <1>6, <2>1 DEF RuntimeStep, StoppedCallback, RenewalTakesLock
<1>7. CASE ControllerStep
  BY <1>0, <1>4, <1>7 DEF ControllerStep, CtlReconcile, CleanupNamespaceTokenTimers,
              RemoveFinalizer, CtlTakesLock
<1>8. CASE ClusterStep
  BY <1>4, <1>8 DEF ClusterStep, DeliverSecret, DeliverCR, CollectUserSecret,
              CollectArgoCDSecret
<1>9. CASE EnvironmentStep
  <2>1. CASE IssueTokenAnswerLost
    <3> DEFINE w == pass.user
               b == timer[w].st # "none"
    <3>1. timer' = [timer EXCEPT ![w].stale = b]
      BY <2>1 DEF IssueTokenAnswerLost
    <3> HIDE DEF w, b
    <3> QED
      BY <1>0, <3>1 DEF Timer
  <2>2. ~Restart
    BY <1>0 DEF Restart, Heard, NoneToCome
  <2> QED
    BY <1>4, <1>9, <2>1, <2>2
       DEF EnvironmentStep, OtherEvent, PassFault, CtlFault, DeleteCR, Tick,
           ArgoCDWritesSecret, RevokeToken, DeleteUserSecret, Touch, EditSpec,
           EditExtraConfig
<1>10. CASE UNCHANGED vars
  BY <1>4, <1>10 DEF vars
<1> QED
  BY <1>5, <1>6, <1>7, <1>8, <1>9, <1>10 DEF Next

\* A token about to be replaced is replaced, or the request is queued again.
LEMMA IssuingStep ==
    ASSUME TypeOK, KnowledgeInv, [Next]_vars, Heard, Heard', watch' = <<>>,
           NEW u \in Users, Issuing(u)
    PROVE  Issuing(u)'
<1>0. /\ pass \in Pass /\ ctl = "pass" /\ pass.by = "controller" /\ ~LockFree
      /\ ~queued' /\ pass.user = u /\ pass.pc = "issueSecret" /\ watch \in Seq(Event)
  BY DEF TypeOK, KnowledgeInv, PassInv, PassOwner, Issuing, Heard, NoneToCome
<1>1. ~Release(TRUE)
  BY <1>0 DEF Release
<1>2. ASSUME NEW o, NEW s, Write(o, s)  PROVE FALSE
  BY <1>0, <1>2 DEF Write
<1>3. CASE pass' = pass /\ ctl' = ctl
  BY <1>3 DEF Issuing
<1>4. CASE PassStep
  BY <1>0, <1>1, <1>2, <1>4 DEF PassStep, ReconcileLocalUser, CleanupUnlistedUser,
     IssueTokenSecret, IssueTokenArgo, ListLocalUserSecrets, EndPass, CleanupToken,
     CleanupSecret
<1>5. CASE ControllerStep
  BY <1>0, <1>5 DEF ControllerStep, CtlReconcile, CleanupNamespaceTokenTimers,
              RemoveFinalizer, CtlTakesLock
<1>6. CASE RuntimeStep
  BY <1>0, <1>3, <1>6 DEF RuntimeStep, TimerElapses, TimerCallback, StoppedCallback,
              RenewalTakesLock
<1>7. CASE ClusterStep
  BY <1>3, <1>7 DEF ClusterStep, DeliverSecret, DeliverCR, CollectUserSecret,
              CollectArgoCDSecret
<1>8. CASE EnvironmentStep
  <2>1. ~Restart
    BY <1>0 DEF Restart, Heard, NoneToCome
  <2> QED
    BY <1>0, <1>1, <1>3, <1>8, <2>1
       DEF EnvironmentStep, OtherEvent, PassFault, CtlFault, DeleteCR, Tick,
           ArgoCDWritesSecret, IssueTokenAnswerLost, RevokeToken, DeleteUserSecret,
           Touch, EditSpec, EditExtraConfig
<1>9. CASE UNCHANGED vars
  BY <1>3, <1>9 DEF vars
<1> QED
  BY <1>4, <1>5, <1>6, <1>7, <1>8, <1>9 DEF Next

\* The worker gets to u: the token is replaced, or kept and given a timer.
LEMMA ReconcileRenews ==
    ASSUME TypeOK, KnowledgeInv, FreshIsCurrent, InfiniteNeverExpires,
           Heard, Heard', cr' = cr, watch = <<>>,
           NEW u \in Users, RenewDue(u), Ahead(u), ReconcileLocalUser(u)
    PROVE  Issuing(u)' \/ HasTimer(u)'
<1> DEFINE s == cache.user[u]
           v == Verdict(u, s)
<1>0. /\ pass \in Pass /\ ctl = "pass" /\ pass.by = "controller" /\ ~LockFree
      /\ ~queued' /\ timer \in [Users -> Timer]
  BY DEF TypeOK, KnowledgeInv, PassInv, PassOwner, Ahead, Heard, NoneToCome
<1>1. SpecOf(u) = cr.users[u] /\ SpecOf(u).active /\ SpecOf(u).renew
      /\ SpecOf(u).life \in Lifetimes
  BY <1>0, HeardKnows DEF SpecOf, RenewDue, TypeOK, CR, UserSpec
<1>2. ~Release(TRUE)
  BY <1>0 DEF Release
<1>3. s = store.user[u] /\ s.expAt # 0 /\ s.id # 0 /\ s.life # ZeroHours
  BY DEF FreshIsCurrent, Fresh, RenewDue, InfiniteNeverExpires
<1>4. v \in {"fail", "issueSecret", "keep"}
  BY <1>1 DEF Verdict
<1>5. CASE v = "issueSecret"
  <2> DEFINE h == s.id # 0
             p == [pass EXCEPT !.pc = "issueSecret", !.user = u, !.todo = @ \ {u},
                               !.hasSecret = h]
  <2>1. Goto(p)
    BY <1>5 DEF ReconcileLocalUser
  <2> HIDE DEF h
  <2>2. pass'.pc = "issueSecret" /\ pass'.user = u /\ ctl' = "pass"
    BY <1>0, <2>1 DEF Goto, Pass
  <2> QED
    BY <2>2 DEF Issuing
<1>6. CASE v = "keep"
  <2>1. Duration[SpecOf(u).life] # 0
    <3>1. ~OutOfDate(u, s)
      BY <1>1, <1>6 DEF Verdict
    <3>2. StoredLife(u) = s.life
      BY <3>1 DEF OutOfDate
    <3> QED
      BY <1>3, <3>2 DEF StoredLife
  <2>2. SpecOf(u).life \notin StopTexts /\ ~ReasonToStopTimer(u)
    BY <1>1, <2>1, LifetimeAssumption DEF ReasonToStopTimer
  <2>3. KeepToken(u, s)
    BY <1>6 DEF ReconcileLocalUser
  <2>4. \/ timer[u].st # "none" /\ timer' = timer
        \/ \E d, b : StartOrRestartTimer(u, d, b)
    BY <1>1, <1>2, <2>1, <2>2, <2>3 DEF KeepToken
  <2>5. timer'[u].st # "none"
    BY <1>0, <2>4 DEF StartOrRestartTimer
  <2> QED
    BY <1>1, <2>2, <2>5 DEF HasTimer
<1>7. CASE v = "fail"
  BY <1>2, <1>7 DEF ReconcileLocalUser
<1> QED
  BY <1>4, <1>5, <1>6, <1>7

LEMMA RenewalsNext ==
    TypeOK /\ KnowledgeInv /\ FreshIsCurrent /\ ScheduleInv /\ RenewalsInv /\ [Next]_vars
      => RenewalsInv'
<1> SUFFICES ASSUME TypeOK, KnowledgeInv, FreshIsCurrent, ScheduleInv, RenewalsInv,
                    [Next]_vars, Heard', watch' = <<>>, NEW u \in Users, RenewDue(u)'
             PROVE  Ahead(u)' \/ Issuing(u)' \/ HasTimer(u)'
  BY DEF RenewalsInv
<1>1. CASE CtlTakesLock
  BY <1>1, StartIsAhead DEF RenewDue
<1>2. CASE Heard /\ cr' = cr /\ watch = <<>> /\ store' = store
  <2>1. RenewDue(u) /\ Managed(u)
    BY <1>2 DEF RenewDue, Managed, Legacy
  <2>2. CASE HasTimer(u)
    <3>1. timer'[u].st # "none"
      BY <1>2, <2>1, <2>2, TimerStays
    <3> QED
      BY <1>2, <2>2, <3>1 DEF HasTimer
  <2>3. CASE Issuing(u)
    BY <1>2, <2>3, IssuingStep
  <2>4. CASE Ahead(u) /\ ReconcileLocalUser(u)
    BY <1>2, <2>1, <2>4, ReconcileRenews DEF ScheduleInv
  <2> QED
    BY <1>2, <2>1, <2>2, <2>3, <2>4, AheadStep DEF RenewalsInv
<1> QED
  BY <1>1, <1>2, HeardStep

LEMMA RenewalsInit == Init => RenewalsInv
BY DEF Init, RenewalsInv, Heard, NoneToCome

LEMMA RenewalsImply ==
    TypeOK /\ ScheduleInv /\ RenewalsInv => CurrentTokenHasTimer
<1> SUFFICES ASSUME TypeOK, ScheduleInv, RenewalsInv, Settled, NEW u \in Users,
                    Managed(u), cr.users[u].active, cr.users[u].renew, Agreed(u),
                    ~timer[u].stale
             PROVE  \/ timer[u].st = "armed" /\ timer[u].at >= store.user[u].expAt
                    \/ Expired(store.user[u])
  BY DEF CurrentTokenHasTimer, Agreed
<1>1. HasTimer(u)
  BY DEF RenewalsInv, Settled, Heard, NoneToCome, Managed, RenewDue, Agreed, Ahead,
     Issuing
<1>2. timer[u].st \in {"armed", "fired"} /\ timer[u].at \in Int
      /\ store.user[u].expAt \in Int /\ now \in Nat
  BY <1>1 DEF HasTimer, Settled, TypeOK, Timer, Store, Secret
<1>3. timer[u].at >= store.user[u].expAt
  BY <1>1 DEF HasTimer, ScheduleInv, NotEarly
<1>4. timer[u].st = "fired" => now >= timer[u].at
  BY DEF ScheduleInv, ElapsedIsDue
<1> QED
  BY <1>2, <1>3, <1>4 DEF Expired, Agreed

\* When everything has settled, every current token that should be renewed has
\* a running timer that is not early, or has expired: after any number of edits,
\* restarts, errors and renewals, unless the timer was started from an outdated
\* copy or the answer to the renewal was lost.
THEOREM RenewalIsScheduled == Spec => []CurrentTokenHasTimer
<1> DEFINE Inv == /\ TypeOK /\ CaughtUp /\ TokenInv /\ KnowledgeInv /\ ScheduleInv
                  /\ RenewalsInv
<1>1. Init => Inv
  BY TypeInit, CaughtUpInit, TokenInit, KnowledgeInit, ScheduleInit, RenewalsInit
<1>2. Inv /\ [Next]_vars => Inv'
  BY TypeNext, CaughtUpNext, CaughtUpImplies, TokenNext, KnowledgeNext, ScheduleNext,
     RenewalsNext
<1>3. Inv => CurrentTokenHasTimer
  BY RenewalsImply
<1> QED
  BY <1>1, <1>2, <1>3, PTL DEF Spec
=============================================================================
