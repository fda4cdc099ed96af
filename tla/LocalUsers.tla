------------------------------ MODULE LocalUsers ------------------------------
(***************************************************************************)
(* Local user API tokens of one ArgoCD instance                            *)
(* (src/argocd-operator/controllers/argocd/localusers.go).                 *)
(*                                                                         *)
(* For each user listed in .spec.localUsers the operator keeps a token in  *)
(* two Secrets: "(user)-local-user", which hands the token to its owner,   *)
(* and "argocd-secret", whose key accounts.(user).tokens makes Argo CD     *)
(* accept it.  A token with a lifetime is renewed by a timer.  Passes over *)
(* the users are made by the controller's worker and by the goroutines the *)
(* timers start, one at a time under LocalUsersInfo.lock; they read from   *)
(* the informer cache and write to the API server.                         *)
(*                                                                         *)
(* The Secret informer is one ordered stream: `watch' holds the events the *)
(* cache has not applied yet, each with the content of all the Secrets as  *)
(* of that event.  An object's cached resourceVersion is current exactly   *)
(* when no event about it is pending, so no version counters are needed.   *)
(***************************************************************************)
EXTENDS Integers, Sequences, FiniteSets

CONSTANTS
    Users,          \* names of local users
    Lifetimes,      \* texts of .tokenLifetime, after TrimSpace
    Duration,       \* what ParseDuration makes of a text; < 0: rejected
    StopTexts,      \* the texts compared literally when stopping timers
    ZeroHours,      \* the text "0h", stored for every infinite lifetime
    Specs,          \* entries of .spec.localUsers an administrator may write
    InitialSpecs,   \* the entries the resource may be created with
    Extras,         \* what extraConfig may say of accounts.(user)
    ArgoCDSecret,   \* the name of argocd-secret
    MaxTime,        \* the clock stops here
    MaxEdits,       \* edits of the ArgoCD resource, its deletion included
    MaxTroubles,    \* transient API errors, restarts of the operator, writes
                    \* of Secrets by others and unrelated events, together
    LostAnswers     \* whether the answer to an accepted write may be lost

UserSpec == [listed : BOOLEAN, active : BOOLEAN, renew : BOOLEAN,
             life : Lifetimes]

ASSUME LifetimeAssumption ==
    /\ Duration \in [Lifetimes -> Int]
    /\ ZeroHours \in Lifetimes /\ Duration[ZeroHours] = 0
    /\ StopTexts \subseteq Lifetimes
    /\ \A t \in StopTexts : Duration[t] = 0
ASSUME SpecAssumption ==
    /\ Specs \subseteq UserSpec /\ InitialSpecs \subseteq UserSpec
    /\ Extras \subseteq {"none", "login", "apiKey"}
ASSUME NameAssumption == IsFiniteSet(Users) /\ ArgoCDSecret \notin Users
ASSUME BoundAssumption ==
    /\ MaxTime \in Nat /\ MaxEdits \in Nat /\ MaxTroubles \in Nat
    /\ LostAnswers \in BOOLEAN

VARIABLES
    cr,         \* the ArgoCD resource in the API server
    cachedCR,   \* the informer's copy of it
    crWatch,    \* its versions still on their way to the informer
    store,      \* the Secrets in the API server
    cache,      \* the informer's copy of them
    watch,      \* Secret events still on their way to the informer
    queued,     \* a reconcile request is in the work queue
    ctl,        \* what the controller's worker is about to do
    pass,       \* the holder of LocalUsersInfo.lock
    timer,      \* tokenRenewalTimers, and how far each timer has come
    zombies,    \* callbacks of stopped timers still waiting for the lock
    renewals,   \* goroutines started by timers, waiting for the lock
    now,        \* the clock, in whole seconds
    nextId,     \* supplies uuid.NewRandom
    edits, troubles

crVars     == <<cr, cachedCR, crWatch>>
secretVars == <<store, cache, watch>>
timerVars  == <<timer, zombies>>
bounds     == <<edits, troubles>>
vars == <<crVars, secretVars, queued, ctl, pass, timerVars, renewals, now,
          nextId, bounds>>

-----------------------------------------------------------------------------
(* Values *)

CR == [phase : {"live", "deleting", "gone"}, users : [Users -> UserSpec],
       extra : [Users -> {"none", "login", "apiKey"}]]

\* A user Secret; id identifies the token in it, and is 0 when there is none.
Secret   == [id : Nat, expAt : Int, life : Lifetimes, renew : BOOLEAN]
NoSecret == [id |-> 0, expAt |-> 0, life |-> ZeroHours, renew |-> FALSE]

\* argocd-secret; token[u] is 0 when it has no key accounts.u.tokens.
Argo  == [exists : BOOLEAN, token : [Users -> Nat]]
Store == [user : [Users -> Secret], argo : Argo]

Objects == Users \cup {ArgoCDSecret}
Event   == [obj : Objects, store : Store]

\* "none": not in the map.  "armed": running.  "firing": elapsed, its callback
\* waits for the lock.  "fired": its callback has run; it stays in the map.
\* The code knows nothing of `stale': the timer was started from an expiry that
\* is not the one stored, or a lost answer has left it to the next token.
Timer   == [st : {"none", "armed", "firing", "fired"}, at : Int,
            stale : BOOLEAN]
NoTimer == [st |-> "none", at |-> 0, stale |-> FALSE]

\* Where the holder of the lock is; "free" when nobody holds it.
PassPC == {"free", "users", "issueSecret", "issueArgo", "orphans",
           "cleanArgo", "cleanSecret"}
Pass == [pc : PassPC, by : {"controller", "renewal"}, cr : CR,
         todo : SUBSET Users, user : Objects, id : Nat, hasSecret : BOOLEAN,
         back : {"users", "orphans"}]
NoCR   == [phase |-> "gone", extra |-> [u \in Users |-> "none"],
           users |-> [u \in Users |-> [listed |-> FALSE, active |-> FALSE,
                                       renew |-> FALSE, life |-> ZeroHours]]]
NoPass == [pc |-> "free", by |-> "controller", cr |-> NoCR, todo |-> {},
           user |-> ArgoCDSecret, id |-> 0, hasSecret |-> FALSE,
           back |-> "users"]

-----------------------------------------------------------------------------
(* The API server and the informers *)

Fresh(o) == \A i \in 1..Len(watch) : watch[i].obj # o

Write(o, s) == /\ store' = s
               /\ watch' = Append(watch, [obj |-> o, store |-> s])
               /\ cache' = cache

\* Mutant of CanUpdate: writes do not carry a resourceVersion.
LastWriteWins(o, exists) == exists

\* Updates carry the resourceVersion that was read from the cache.
CanUpdate(o, exists) == Fresh(o) /\ exists

WriteCR(c) == /\ cr' = c
              /\ crWatch' = Append(crWatch, c)
              /\ cachedCR' = cachedCR

\* Owns(&corev1.Secret{}): every Secret event requests a reconcile.
DeliverSecret ==
    /\ watch # <<>>
    /\ cache' = Head(watch).store
    /\ watch' = Tail(watch)
    /\ queued' = TRUE
    /\ UNCHANGED <<crVars, store, ctl, pass, timerVars, renewals, now, nextId,
                   bounds>>

DeliverCR ==
    /\ crWatch # <<>>
    /\ cachedCR' = Head(crWatch)
    /\ crWatch' = Tail(crWatch)
    /\ queued' = TRUE
    /\ UNCHANGED <<cr, secretVars, ctl, pass, timerVars, renewals, now, nextId,
                   bounds>>

\* An event of another object the instance owns.
OtherEvent ==
    /\ ~queued /\ troubles < MaxTroubles
    /\ troubles' = troubles + 1
    /\ queued' = TRUE
    /\ UNCHANGED <<crVars, secretVars, ctl, pass, timerVars, renewals, now,
                   nextId, edits>>

-----------------------------------------------------------------------------
(* Timers.  The lock is held wherever these are used. *)

StopTimer(u) ==
    /\ timer' = [timer EXCEPT ![u] = NoTimer]
    /\ zombies' = zombies + IF timer[u].st = "firing" THEN 1 ELSE 0

StartOrRestartTimer(u, d, stale) ==
    /\ timer' = [timer EXCEPT ![u] = [st |-> "armed", at |-> now + d,
                                       stale |-> stale]]
    /\ zombies' = zombies + IF timer[u].st = "firing" THEN 1 ELSE 0

LockFree == pass.pc = "free"

\* time.AfterFunc: the callback starts, and blocks on the lock.
TimerElapses(u) ==
    /\ timer[u].st = "armed" /\ now >= timer[u].at
    /\ timer' = [timer EXCEPT ![u].st = "firing"]
    /\ UNCHANGED <<crVars, secretVars, queued, ctl, pass, zombies, renewals,
                   now, nextId, bounds>>

\* Mutant of TimerCallback: the callback makes the pass itself, and waits for
\* the lock it holds.
CallbackRenews(u) ==
    /\ timer[u].st = "firing" /\ LockFree
    /\ timer' = [timer EXCEPT ![u].st = "fired"]
    /\ pass' = [pass EXCEPT !.pc = "locked"]
    /\ UNCHANGED <<crVars, secretVars, queued, ctl, zombies, renewals, now,
                   nextId, bounds>>

\* The callback has the lock: it starts a goroutine and returns.
TimerCallback(u) ==
    /\ timer[u].st = "firing" /\ LockFree
    /\ timer' = [timer EXCEPT ![u].st = "fired"]
    /\ renewals' = renewals + 1
    /\ UNCHANGED <<crVars, secretVars, queued, ctl, pass, zombies, now, nextId,
                   bounds>>

\* The callback of a timer stopped after it elapsed returns at once.
StoppedCallback ==
    /\ zombies > 0 /\ LockFree
    /\ zombies' = zombies - 1
    /\ UNCHANGED <<crVars, secretVars, queued, ctl, pass, timer, renewals, now,
                   nextId, bounds>>

-----------------------------------------------------------------------------
(* The controller's worker *)

\* internalReconcile up to the local users; an absent resource ends it.
CtlReconcile ==
    /\ ctl = "idle" /\ queued
    /\ queued' = FALSE
    /\ ctl' = CASE cachedCR.phase = "gone"     -> "idle"
                [] cachedCR.phase = "deleting" -> "timers"
                [] OTHER                       -> "users"
    /\ UNCHANGED <<crVars, secretVars, pass, timerVars, renewals, now, nextId,
                   bounds>>

\* cleanupNamespaceTokenTimers, for a resource marked for deletion.
CleanupNamespaceTokenTimers ==
    /\ ctl = "timers" /\ LockFree
    /\ timer' = [u \in Users |-> NoTimer]
    /\ zombies' = zombies + Cardinality({u \in Users : timer[u].st = "firing"})
    /\ ctl' = "finalizer"
    /\ UNCHANGED <<crVars, secretVars, queued, pass, renewals, now, nextId,
                   bounds>>

\* removeDeletionFinalizer updates the resource as it was read: a newer
\* version makes it fail, and the request is queued again.
RemoveFinalizer ==
    /\ ctl = "finalizer"
    /\ ctl' = "idle"
    /\ IF crWatch = <<>> /\ cr.phase = "deleting"
         THEN WriteCR([cr EXCEPT !.phase = "gone"]) /\ UNCHANGED queued
         ELSE queued' = TRUE /\ UNCHANGED crVars
    /\ UNCHANGED <<secretVars, pass, timerVars, renewals, now, nextId, bounds>>

-----------------------------------------------------------------------------
(* A pass over the local users: reconcileLocalUsers *)

Legacy(c, u) == c.extra[u] # "none"
SpecOf(u)    == pass.cr.users[u]
StoredLife(u) == IF Duration[SpecOf(u).life] = 0 THEN ZeroHours
                                                 ELSE SpecOf(u).life
Expired(s) == s.expAt # 0 /\ now >= s.expAt

\* The lock is released; an error makes the controller queue the request again,
\* and is only logged by a renewal goroutine.
Release(failed) ==
    /\ pass' = NoPass
    /\ ctl' = IF pass.by = "controller" THEN "idle" ELSE ctl
    /\ queued' = (queued \/ (failed /\ pass.by = "controller"))

Goto(p) == pass' = p /\ UNCHANGED <<ctl, queued>>

\* On with the loop `pc' over the users left to do.
Continue(pc) == Goto([pass EXCEPT !.pc = pc, !.user = ArgoCDSecret, !.id = 0,
                        !.hasSecret = FALSE, !.back = "users"])

\* The caller `who' takes the lock and reads the resource again.
TakeLock(who) ==
    IF cachedCR.phase = "gone"
    THEN pass' = pass
    ELSE pass' = [pass EXCEPT !.pc = "users", !.by = who, !.cr = cachedCR,
                   !.todo = {u \in Users : /\ cachedCR.users[u].listed
                                           /\ ~Legacy(cachedCR, u)}]

CtlTakesLock ==
    /\ ctl = "users" /\ LockFree
    /\ TakeLock("controller")
    /\ ctl' = IF cachedCR.phase = "gone" THEN "idle" ELSE "pass"
    /\ UNCHANGED <<crVars, secretVars, queued, timerVars, renewals, now, nextId,
                   bounds>>

RenewalTakesLock ==
    /\ renewals > 0 /\ LockFree
    /\ TakeLock("renewal")
    /\ renewals' = renewals - 1
    /\ UNCHANGED <<crVars, secretVars, queued, ctl, timerVars, now, nextId,
                   bounds>>

\* The token in a user Secret must be replaced: its lifetime was changed, it
\* cannot expire but should, or it has expired.
OutOfDate(u, s) ==
    \/ StoredLife(u) # s.life
    \/ s.expAt = 0 /\ Duration[SpecOf(u).life] # 0
    \/ SpecOf(u).renew /\ Expired(s)

\* Mutant of Verdict: argocd-secret is not looked at.
OneSecretVerdict(u, s) ==
    IF Duration[SpecOf(u).life] < 0 THEN "fail"
    ELSE IF ~SpecOf(u).active THEN "cleanArgo"
    ELSE IF s.id = 0 \/ OutOfDate(u, s) THEN "issueSecret"
    ELSE "keep"

\* What reconcileLocalUser decides from the Secrets it reads.  A current token
\* is replaced too when argocd-secret has no entry for it.
Verdict(u, s) ==
    IF Duration[SpecOf(u).life] < 0 THEN "fail"
    ELSE IF ~SpecOf(u).active THEN "cleanArgo"
    ELSE IF s.id = 0 \/ OutOfDate(u, s) THEN "issueSecret"
    ELSE IF ~cache.argo.exists THEN "fail"
    ELSE IF cache.argo.token[u] = 0 THEN "issueSecret"
    ELSE "keep"

\* Mutant of ReasonToStopTimer: turning autoRenewToken off is forgotten.
StopUnlessActive(u) == ~SpecOf(u).active \/ SpecOf(u).life \in StopTexts

ReasonToStopTimer(u) ==
    ~SpecOf(u).active \/ ~SpecOf(u).renew \/ SpecOf(u).life \in StopTexts

\* Mutant of KeepToken: only issueToken starts timers.
KeepTokenOnly(u, s) ==
    LET drift == s.renew # SpecOf(u).renew
        saved == ~drift \/ CanUpdate(u, store.user[u].id # 0)
    IN  /\ IF drift /\ saved
             THEN Write(u, [store EXCEPT !.user[u] =
                                       [s EXCEPT !.renew = SpecOf(u).renew]])
             ELSE UNCHANGED secretVars
        /\ IF ReasonToStopTimer(u) THEN StopTimer(u) ELSE UNCHANGED timerVars
        /\ IF saved THEN Goto([pass EXCEPT !.todo = @ \ {u}])
                    ELSE Release(TRUE)

\* The token is current: autoRenew is brought up to date in the user Secret
\* and, when that succeeds, a renewal is scheduled unless the map has a timer.
KeepToken(u, s) ==
    LET drift == s.renew # SpecOf(u).renew
        saved == ~drift \/ CanUpdate(u, store.user[u].id # 0)
        wants == SpecOf(u).renew /\ Duration[SpecOf(u).life] # 0
    IN  /\ IF drift /\ saved
             THEN Write(u, [store EXCEPT !.user[u] =
                                       [s EXCEPT !.renew = SpecOf(u).renew]])
             ELSE UNCHANGED secretVars
        /\ IF ReasonToStopTimer(u)
             THEN StopTimer(u)
             ELSE IF saved /\ wants /\ timer[u].st = "none"
               THEN StartOrRestartTimer(u, IF s.expAt # 0 THEN s.expAt - now
                                           ELSE Duration[SpecOf(u).life],
                                        s.expAt # store.user[u].expAt)
               ELSE UNCHANGED timerVars
        /\ IF saved THEN Goto([pass EXCEPT !.todo = @ \ {u}])
                    ELSE Release(TRUE)

\* reconcileLocalUser up to the first write.
ReconcileLocalUser(u) ==
    LET s == cache.user[u]
        v == Verdict(u, s)
    IN  /\ pass.pc = "users" /\ u \in pass.todo
        /\ \/ v = "keep" /\ KeepToken(u, s)
           \/ /\ v # "keep"
              /\ IF ReasonToStopTimer(u) THEN StopTimer(u)
                                         ELSE UNCHANGED timerVars
              /\ IF v = "fail"
                   THEN Release(TRUE)
                   ELSE Goto([pass EXCEPT !.pc = v, !.user = u,
                                !.todo = @ \ {u}, !.hasSecret = (s.id # 0)])
              /\ UNCHANGED secretVars
        /\ UNCHANGED <<crVars, renewals, now, nextId, bounds>>

\* Mutant of IssueTokenSecret: an error of the first write is only logged.
IssueTokenRegardless ==
    LET u == pass.user
        d == Duration[SpecOf(u).life]
        saved == IF cache.user[u].id # 0
                   THEN CanUpdate(u, store.user[u].id # 0)
                   ELSE store.user[u].id = 0
        token == [id |-> nextId, expAt |-> IF d > 0 THEN now + d ELSE 0,
                  life |-> StoredLife(u), renew |-> SpecOf(u).renew]
    IN  /\ pass.pc = "issueSecret"
        /\ IF saved THEN Write(u, [store EXCEPT !.user[u] = token])
                    ELSE UNCHANGED secretVars
        /\ nextId' = nextId + 1
        /\ Goto([pass EXCEPT !.pc = "issueArgo", !.id = nextId])
        /\ UNCHANGED <<crVars, timerVars, renewals, now, bounds>>

\* issueToken, first half: the user Secret gets the new token.  It is read
\* again, so it may have appeared or vanished since reconcileLocalUser read it.
IssueTokenSecret ==
    LET u == pass.user
        d == Duration[SpecOf(u).life]
        saved == /\ cache.argo.exists
                 /\ IF cache.user[u].id # 0
                      THEN CanUpdate(u, store.user[u].id # 0)
                      ELSE store.user[u].id = 0
        token == [id |-> nextId, expAt |-> IF d > 0 THEN now + d ELSE 0,
                  life |-> StoredLife(u), renew |-> SpecOf(u).renew]
    IN  /\ pass.pc = "issueSecret"
        /\ IF saved
             THEN /\ Write(u, [store EXCEPT !.user[u] = token])
                  /\ nextId' = nextId + 1
                  /\ Goto([pass EXCEPT !.pc = "issueArgo", !.id = nextId])
             ELSE /\ Release(TRUE)
                  /\ UNCHANGED <<secretVars, nextId>>
        /\ UNCHANGED <<crVars, timerVars, renewals, now, bounds>>

\* issueToken, second half: argocd-secret accepts the token; only then is the
\* renewal rescheduled.
IssueTokenArgo ==
    LET u == pass.user
        d == Duration[SpecOf(u).life]
        saved == cache.argo.exists /\ CanUpdate(ArgoCDSecret, store.argo.exists)
    IN  /\ pass.pc = "issueArgo"
        /\ IF saved
             THEN /\ Write(ArgoCDSecret, [store EXCEPT !.argo =
                                   [cache.argo EXCEPT !.token[u] = pass.id]])
                  /\ IF d > 0 /\ SpecOf(u).renew
                       THEN StartOrRestartTimer(u, d, FALSE)
                       ELSE UNCHANGED timerVars
                  /\ Continue("users")
             ELSE /\ Release(TRUE)
                  /\ UNCHANGED <<secretVars, timerVars>>
        /\ UNCHANGED <<crVars, renewals, now, nextId, bounds>>

\* cleanupLocalUsers lists the user Secrets once the users are done.
ListLocalUserSecrets ==
    /\ pass.pc = "users" /\ pass.todo = {}
    /\ Goto([pass EXCEPT !.pc = "orphans",
               !.todo = {u \in Users : cache.user[u].id # 0
                                       /\ ~SpecOf(u).listed}])
    /\ UNCHANGED <<crVars, secretVars, timerVars, renewals, now, nextId, bounds>>

\* Mutant of CleanupUnlistedUser: the cleanup is not told which user.
CleanupNobody(u) ==
    /\ pass.pc = "orphans" /\ u \in pass.todo
    /\ StopTimer(u)
    /\ Goto([pass EXCEPT !.pc = "cleanArgo", !.todo = @ \ {u},
               !.hasSecret = TRUE, !.back = "orphans"])
    /\ UNCHANGED <<crVars, secretVars, renewals, now, nextId, bounds>>

CleanupUnlistedUser(u) ==
    /\ pass.pc = "orphans" /\ u \in pass.todo
    /\ StopTimer(u)
    /\ Goto([pass EXCEPT !.pc = "cleanArgo", !.user = u, !.todo = @ \ {u},
               !.hasSecret = TRUE, !.back = "orphans"])
    /\ UNCHANGED <<crVars, secretVars, renewals, now, nextId, bounds>>

\* Mutant of CleanupToken: without a user Secret there is nothing to clean up.
CleanupTokenOfSecret ==
    LET u == pass.user
        keep == pass.cr.extra[u] = "apiKey" \/ ~pass.hasSecret
        held == cache.argo.token[u] # 0
        ok == \/ keep
              \/ /\ cache.argo.exists
                 /\ held => CanUpdate(ArgoCDSecret, store.argo.exists)
    IN  /\ pass.pc = "cleanArgo"
        /\ IF ok /\ ~keep /\ held
             THEN Write(ArgoCDSecret, [store EXCEPT !.argo =
                                         [cache.argo EXCEPT !.token[u] = 0]])
             ELSE UNCHANGED secretVars
        /\ \/ ok /\ pass.hasSecret /\ Goto([pass EXCEPT !.pc = "cleanSecret"])
           \/ ok /\ ~pass.hasSecret /\ Continue(pass.back)
           \/ ~ok /\ Release(TRUE)
        /\ UNCHANGED <<crVars, timerVars, renewals, now, nextId, bounds>>

\* cleanupLocalUser, first half: the token leaves argocd-secret, unless
\* extraConfig gives the account an apiKey of its own.
CleanupToken ==
    LET u == pass.user
        keep == pass.cr.extra[u] = "apiKey"
        held == cache.argo.token[u] # 0
        ok == \/ keep
              \/ /\ cache.argo.exists
                 /\ held => CanUpdate(ArgoCDSecret, store.argo.exists)
    IN  /\ pass.pc = "cleanArgo"
        /\ IF ok /\ ~keep /\ held
             THEN Write(ArgoCDSecret, [store EXCEPT !.argo =
                                         [cache.argo EXCEPT !.token[u] = 0]])
             ELSE UNCHANGED secretVars
        /\ \/ ok /\ pass.hasSecret /\ Goto([pass EXCEPT !.pc = "cleanSecret"])
           \/ ok /\ ~pass.hasSecret /\ Continue(pass.back)
           \/ ~ok /\ Release(TRUE)
        /\ UNCHANGED <<crVars, timerVars, renewals, now, nextId, bounds>>

\* cleanupLocalUser, second half: the user Secret is deleted by name, and
\* NotFound is fine.
CleanupSecret ==
    LET u == pass.user
    IN  /\ pass.pc = "cleanSecret"
        /\ IF store.user[u].id # 0
             THEN Write(u, [store EXCEPT !.user[u] = NoSecret])
             ELSE UNCHANGED secretVars
        /\ Continue(pass.back)
        /\ UNCHANGED <<crVars, timerVars, renewals, now, nextId, bounds>>

EndPass ==
    /\ pass.pc = "orphans" /\ pass.todo = {}
    /\ Release(FALSE)
    /\ UNCHANGED <<crVars, secretVars, timerVars, renewals, now, nextId, bounds>>

-----------------------------------------------------------------------------
(* The environment *)

\* An API call of the holder of the lock fails for a reason of its own.
PassFault ==
    /\ ~LockFree /\ troubles < MaxTroubles
    /\ troubles' = troubles + 1
    /\ Release(TRUE)
    /\ UNCHANGED <<crVars, secretVars, timerVars, renewals, now, nextId, edits>>

\* The write of argocd-secret is accepted and its answer lost: issueToken returns
\* an error and schedules nothing, so that the map keeps the timer of the token
\* before.
IssueTokenAnswerLost ==
    /\ LostAnswers
    /\ pass.pc = "issueArgo" /\ troubles < MaxTroubles
    /\ cache.argo.exists /\ CanUpdate(ArgoCDSecret, store.argo.exists)
    /\ troubles' = troubles + 1
    /\ Write(ArgoCDSecret, [store EXCEPT !.argo =
                             [cache.argo EXCEPT !.token[pass.user] = pass.id]])
    /\ timer' = [timer EXCEPT ![pass.user].stale =
                    (timer[pass.user].st # "none")]
    /\ Release(TRUE)
    /\ UNCHANGED <<crVars, zombies, renewals, now, nextId, edits>>

\* A step of the controller outside the local users fails.
CtlFault ==
    /\ ctl \in {"users", "finalizer"} /\ troubles < MaxTroubles
    /\ troubles' = troubles + 1
    /\ ctl' = "idle" /\ queued' = TRUE
    /\ UNCHANGED <<crVars, secretVars, pass, timerVars, renewals, now, nextId, edits>>

\* The operator process dies and comes back: what it kept in memory is gone,
\* and its caches are filled before the controller starts.
Restart ==
    /\ troubles < MaxTroubles
    /\ troubles' = troubles + 1
    /\ cachedCR' = cr /\ crWatch' = <<>> /\ cr' = cr
    /\ cache' = store /\ watch' = <<>> /\ store' = store
    /\ timer' = [u \in Users |-> NoTimer] /\ zombies' = 0 /\ renewals' = 0
    /\ pass' = NoPass /\ ctl' = "idle"
    /\ queued' = (cr.phase # "gone")
    /\ UNCHANGED <<now, nextId, edits>>

EditSpec(u, s) ==
    /\ cr.phase = "live" /\ edits < MaxEdits /\ cr.users[u] # s
    /\ edits' = edits + 1
    /\ WriteCR([cr EXCEPT !.users[u] = s])
    /\ UNCHANGED <<secretVars, queued, ctl, pass, timerVars, renewals, now,
                   nextId, troubles>>

EditExtraConfig(u, e) ==
    /\ cr.phase = "live" /\ edits < MaxEdits /\ cr.extra[u] # e
    /\ edits' = edits + 1
    /\ WriteCR([cr EXCEPT !.extra[u] = e])
    /\ UNCHANGED <<secretVars, queued, ctl, pass, timerVars, renewals, now,
                   nextId, troubles>>

DeleteCR ==
    /\ cr.phase = "live" /\ edits < MaxEdits
    /\ edits' = edits + 1
    /\ WriteCR([cr EXCEPT !.phase = "deleting"])
    /\ UNCHANGED <<secretVars, queued, ctl, pass, timerVars, renewals, now,
                   nextId, troubles>>

\* Somebody else's write: s is what it makes of the Secrets.
Touch(o, s) ==
    /\ troubles < MaxTroubles
    /\ troubles' = troubles + 1
    /\ Write(o, s)
    /\ UNCHANGED <<crVars, queued, ctl, pass, timerVars, renewals, now, nextId, edits>>

\* Argo CD writes a field of argocd-secret the operator does not look at here.
ArgoCDWritesSecret == store.argo.exists /\ Touch(ArgoCDSecret, store)

\* Somebody revokes a token in argocd-secret.
RevokeToken(u) ==
    /\ store.argo.token[u] # 0
    /\ Touch(ArgoCDSecret, [store EXCEPT !.argo.token[u] = 0])

\* Somebody deletes a user Secret.
DeleteUserSecret(u) ==
    /\ store.user[u].id # 0
    /\ Touch(u, [store EXCEPT !.user[u] = NoSecret])

\* The garbage collector removes what the deleted resource owned.
CollectUserSecret(u) ==
    /\ cr.phase = "gone" /\ store.user[u].id # 0
    /\ Write(u, [store EXCEPT !.user[u] = NoSecret])
    /\ UNCHANGED <<crVars, queued, ctl, pass, timerVars, renewals, now, nextId,
                   bounds>>

CollectArgoCDSecret ==
    /\ cr.phase = "gone" /\ store.argo.exists
    /\ Write(ArgoCDSecret, [store EXCEPT !.argo =
                       [exists |-> FALSE, token |-> [u \in Users |-> 0]]])
    /\ UNCHANGED <<crVars, queued, ctl, pass, timerVars, renewals, now, nextId,
                   bounds>>

Tick ==
    /\ now < MaxTime
    /\ now' = now + 1
    /\ UNCHANGED <<crVars, secretVars, queued, ctl, pass, timerVars, renewals,
                   nextId, bounds>>

-----------------------------------------------------------------------------
InitStore == [user |-> [u \in Users |-> NoSecret],
              argo |-> [exists |-> TRUE, token |-> [u \in Users |-> 0]]]

\* The controller has just seen the resource, created with some users in it.
Init ==
    /\ cr \in [phase : {"live"}, users : [Users -> InitialSpecs],
               extra : [Users -> {"none"}]]
    /\ cachedCR = cr /\ crWatch = <<>>
    /\ store = InitStore /\ cache = InitStore /\ watch = <<>>
    /\ queued = TRUE /\ ctl = "idle"
    /\ pass = NoPass
    /\ timer = [u \in Users |-> NoTimer] /\ zombies = 0 /\ renewals = 0
    /\ now = 0 /\ nextId = 1
    /\ edits = 0 /\ troubles = 0

ControllerStep ==
    \/ CtlReconcile \/ CleanupNamespaceTokenTimers \/ RemoveFinalizer
    \/ CtlTakesLock

PassStep ==
    \/ \E u \in Users : ReconcileLocalUser(u) \/ CleanupUnlistedUser(u)
    \/ IssueTokenSecret \/ IssueTokenArgo \/ ListLocalUserSecrets
    \/ CleanupToken \/ CleanupSecret \/ EndPass

RuntimeStep ==
    \/ \E u \in Users : TimerElapses(u) \/ TimerCallback(u)
    \/ StoppedCallback \/ RenewalTakesLock

ClusterStep ==
    \/ DeliverSecret \/ DeliverCR
    \/ \E u \in Users : CollectUserSecret(u)
    \/ CollectArgoCDSecret

EnvironmentStep ==
    \/ OtherEvent \/ PassFault \/ CtlFault \/ Restart \/ DeleteCR \/ Tick
    \/ ArgoCDWritesSecret \/ IssueTokenAnswerLost
    \/ \E u \in Users : RevokeToken(u) \/ DeleteUserSecret(u)
    \/ \E u \in Users, s \in Specs : EditSpec(u, s)
    \/ \E u \in Users, e \in Extras : EditExtraConfig(u, e)

Next == \/ ControllerStep \/ PassStep \/ RuntimeStep \/ ClusterStep
        \/ EnvironmentStep

Spec == Init /\ [][Next]_vars

\* Go runs every runnable goroutine and hands sync.Mutex to every waiter; the
\* work queue, the informers and the garbage collector do not stop; the clock
\* does not either, up to its bound.  Nothing is assumed of administrators,
\* faults or other events.
FairSpec ==
    /\ Spec
    /\ WF_vars(CtlReconcile) /\ WF_vars(RemoveFinalizer)
    /\ SF_vars(CleanupNamespaceTokenTimers) /\ SF_vars(CtlTakesLock)
    /\ SF_vars(RenewalTakesLock) /\ SF_vars(StoppedCallback)
    /\ WF_vars(PassStep) /\ WF_vars(DeliverSecret) /\ WF_vars(DeliverCR)
    /\ WF_vars(CollectArgoCDSecret) /\ WF_vars(Tick)
    /\ \A u \in Users : WF_vars(CollectUserSecret(u))
    /\ \A u \in Users : WF_vars(TimerElapses(u)) /\ SF_vars(TimerCallback(u))

-----------------------------------------------------------------------------
(* Properties *)

\* Type invariant.  A user is being worked on exactly where the code holds one.
TypeOK ==
    /\ cr \in CR /\ cachedCR \in CR /\ crWatch \in Seq(CR)
    /\ store \in Store /\ cache \in Store /\ watch \in Seq(Event)
    /\ queued \in BOOLEAN
    /\ ctl \in {"idle", "timers", "finalizer", "users", "pass"}
    /\ pass \in Pass
    /\ pass.pc \in {"issueSecret", "issueArgo", "cleanArgo", "cleanSecret"}
         => pass.user \in Users
    /\ timer \in [Users -> Timer] /\ zombies \in Nat /\ renewals \in Nat
    /\ now \in Nat /\ nextId \in Nat \ {0}
    /\ edits \in 0..MaxEdits /\ troubles \in 0..MaxTroubles

\* Nothing is left to do: no request, no pass, no callback, no event.
Settled == /\ ~queued /\ ctl = "idle" /\ LockFree
           /\ renewals = 0 /\ zombies = 0
           /\ \A u \in Users : timer[u].st # "firing"
           /\ watch = <<>> /\ crWatch = <<>>

\* u is in .spec.localUsers and the operator is in charge of its token.
Managed(u) == /\ cr.phase = "live" /\ cr.users[u].listed
              /\ ~Legacy(cr, u)

\* issueToken writes the user Secret before argocd-secret, so Argo CD never
\* accepts a token newer than the one its owner can read, whatever fails or
\* crashes between the two writes and however stale the reads are.
TokenNeverAhead ==
    \A u \in Users : store.user[u].id # 0
                      => store.argo.token[u] <= store.user[u].id

\* A pass writes argocd-secret back whole, as it was read from the cache, and
\* yet no write for one user undoes what was written for another (deleting the
\* Secret is the exception).
OneUserAtATime ==
    [][store'.argo.exists =>
         \A u, v \in Users : /\ store'.argo.token[u] # store.argo.token[u]
                              /\ store'.argo.token[v] # store.argo.token[v]
                              => u = v]_vars

\* A user who is disabled or has no apiKey loses both copies of the token: a
\* cleanup that misses one because of a stale cache is always repeated.
InactiveIsRevoked ==
    Settled => \A u \in Users :
        Managed(u) /\ ~cr.users[u].active /\ Duration[cr.users[u].life] >= 0
          => store.user[u].id = 0 /\ store.argo.token[u] = 0

\* A token that both Secrets agree on and that should be renewed has a running
\* timer that does not elapse before the token expires; an early one would
\* find nothing to renew and never be rescheduled.  (An expired token waits
\* for the next reconciliation after a renewal failed.  A timer started from an
\* outdated copy of the token, or for a token whose renewal was not answered,
\* is excepted: the code does not notice either.)
CurrentTokenHasTimer ==
    Settled => \A u \in Users :
        LET s == store.user[u]
        IN  /\ Managed(u) /\ cr.users[u].active /\ cr.users[u].renew
            /\ s.id # 0 /\ s.id = store.argo.token[u] /\ s.expAt # 0
            => \/ timer[u].st = "armed" /\ timer[u].at >= s.expAt
               \/ Expired(s)
               \/ timer[u].stale

\* No timer is left running for a user whose token must not be renewed.
NoTimerWithoutRenewal ==
    Settled => \A u \in Users :
        /\ Managed(u)
        /\ \/ ~cr.users[u].active \/ ~cr.users[u].renew
           \/ cr.users[u].life \in StopTexts
        => timer[u].st = "none"

\* As the comment at localusers.go:548 says, removing the token before the
\* user Secret leaves no token of a removed user in argocd-secret.
NoOrphanToken ==
    Settled => \A u \in Users :
        cr.phase = "live" /\ ~cr.users[u].listed /\ cr.extra[u] = "none"
          => store.argo.token[u] = 0

AllParse == \A u \in Users : Duration[cr.users[u].life] >= 0

\* Under FairSpec, a managed active user gets a token in both Secrets, unless
\* the resource changes; transient errors are retried.
ActiveGetsToken ==
    \A u \in Users :
        (Managed(u) /\ cr.users[u].active /\ AllParse)
          ~> \/ store.user[u].id # 0 /\ store.argo.token[u] # 0
             \/ ~(Managed(u) /\ cr.users[u].active /\ AllParse)

\* Under FairSpec, every goroutine and callback waiting for the lock gets it:
\* a callback only starts a goroutine, and so never waits for itself.
NobodyWaitsForever ==
    /\ renewals > 0 ~> renewals = 0
    /\ \A u \in Users : timer[u].st = "firing" ~> timer[u].st # "firing"
    /\ ctl = "users" ~> ctl # "users"

=============================================================================
