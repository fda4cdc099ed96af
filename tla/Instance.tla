------------------------------ MODULE Instance ------------------------------
(***************************************************************************)
(* Reconciliation of one object of an Argo CD instance by the ArgoCD       *)
(* controller: any object of the catalogue, and any one of its fields.     *)
(*                                                                         *)
(* The objects of an instance are reconciled one after another and do not  *)
(* look at each other, so what happens to one of them is a matter of the   *)
(* resource, of the queue, of those who change the object behind the       *)
(* operator's back, and of the errors that end a pass early.  `focus' is   *)
(* chosen at the start; everything is checked for each choice.             *)
(***************************************************************************)
EXTENDS Integers, FiniteSets, Sequences, TLC

CONSTANTS
    Objects,            \* the objects of the catalogue that are looked at
    Rec(_, _),          \* the reconciler of an object, for a set of switches
    Environment,        \* the switches that are not in the resource
    Departs(_, _),      \* where the code is known not to do what is wanted
    Frozen(_, _),       \* fields known to be set at the creation only
    MaxDisturbances(_), \* of an object: edits, foreign changes, errors, restarts
    Absent, Drift, None

ASSUME DisturbancesAssumption == \A o \in Objects : MaxDisturbances(o) \in Nat
ASSUME PartsAssumption == \A o \in Objects : Rec(o, {}).parts \in Nat \ {0}
ASSUME AbsentAssumption == Absent \notin {0, 1, Drift}

VARIABLES
    focus,      \* the object and the field that are looked at
    cr,         \* the ArgoCD resource: switches, and version of the field
    told,       \* the resource as the informer last delivered it
    versions,   \* of the object, from the one the informer shows to the one stored
    mark,       \* the label of the namespace, likewise
    queued,     \* the controller has been asked for a reconciliation
    pass,       \* the resource as the running reconciliation read it, or None
    unnoticed,  \* something is left to do and nobody will hear of it
    disturbances

vars == <<focus, cr, told, versions, mark, queued, pass, unnoticed, disturbances>>

\* A version is the field's value in each copy of the object, or Absent.  A pass
\* reads through the cache of the manager, which the informer keeps; only what it
\* writes reaches the API server at once.
cluster  == versions[Len(versions)]
shown    == versions[1]
Current  == Len(versions) = 1
Store(c) == versions' = IF c = cluster THEN versions ELSE Append(versions, c)

\* The label that says whether metrics are on; nothing else looks at it.
label      == mark[Len(mark)]
labelShown == mark[1]
Labels     == {"none", "true", "false"}

\* Versions of a field: 0 is the default, 1 what a user may set.
Versions == {0, 1}
Values   == Versions \cup {Drift, Absent}

\* Tables, so that reconcilers are looked up rather than computed.
Constant  == [o \in Objects |-> Rec(o, {})]
Reads(o)  == Constant[o].reads
Parts(o)  == 1..Constant[o].parts
CRs(o)    == [on : SUBSET Reads(o), ver : Versions]
ASSUME NoneAssumption == \A o \in Objects : None \notin CRs(o)
FieldsOf(o) ==
             UNION {LET r == Rec(o, on)
                    IN  r.follows \cup r.repairs \cup r.early \cup r.drops
                            \cup r.replaces \cup r.refused : on \in SUBSET Reads(o)}
             \cup {"none"}
FieldTable == [o \in Objects |-> FieldsOf(o)]
Fields(o)  == FieldTable[o]
\* Fields a reconciler treats alike behave alike: one of each sort is enough.
Alike(o, f, g) ==
    /\ Frozen(o, f) <=> Frozen(o, g)
    /\ \A on \in SUBSET Reads(o) :
          LET r == Rec(o, on)
          IN  /\ \A treatment \in {"follows", "repairs", "sticky", "early", "drops",
                                   "replaces", "trips", "refused"} :
                    f \in r[treatment] <=> g \in r[treatment]
              /\ \A v \in Versions : <<f, v>> \in r.later <=> <<g, v>> \in r.later
Samples == [o \in Objects |-> {CHOOSE g \in Fields(o) : Alike(o, f, g) : f \in Fields(o)}]

Catalogue      == [o \in Objects |-> [on \in SUBSET Reads(o) |-> Rec(o, on)]]
R(req)         == Catalogue[focus.object][req.on]
Found(i)       == cluster[i] # Absent
Shown(i)       == shown[i] # Absent
Gated          == Constant[focus.object].gated
Desired(r, v)  == IF focus.field \in r.follows THEN v ELSE 0
Differs(r, v, x) == /\ x # Desired(r, v)
                    /\ ~(focus.field \in r.sticky /\ v = 0)

-----------------------------------------------------------------------------
(* Kinds whose events reach the controller, if the ArgoCD resource owns them. *)

AlwaysWatched == {"ConfigMap", "Secret", "Service", "Deployment", "Ingress",
                  "StatefulSet", "NetworkPolicy", "Role", "RoleBinding",
                  "NotificationsConfiguration"}
\* By the controller of exports.
ExportWatched == {"Job", "CronJob", "PersistentVolumeClaim"}
\* Found by their annotations instead of an owner.
MappedKinds   == {"ClusterRole", "ClusterRoleBinding"}
Watched(r, on) ==
    /\ r.owned
    /\ \/ r.kind \in AlwaysWatched \cup ExportWatched
       \/ r.kind \in MappedKinds
       \/ r.kind = "Route" /\ "routeAPI" \in on
       \/ r.kind \in {"Prometheus", "ServiceMonitor"} /\ "promAPI" \in on

-----------------------------------------------------------------------------
TypeOK ==
    /\ focus.object \in Objects /\ focus.field \in Fields(focus.object)
    /\ cr \in CRs(focus.object) /\ told \in CRs(focus.object)
    /\ versions \in Seq([Parts(focus.object) -> Values]) /\ versions # <<>>
    /\ mark \in Seq(Labels) /\ mark # <<>>
    /\ queued \in BOOLEAN /\ unnoticed \in BOOLEAN
    /\ pass \in CRs(focus.object) \cup {None}
    /\ disturbances \in 0..MaxDisturbances(focus.object)

\* A resource just created in a cluster of some kind, or one whose objects an
\* older operator has left.
Init ==
    /\ \E o \in Objects : \E f \in Samples[o], x \in {Absent, Drift} :
          /\ focus = [object |-> o, field |-> f]
          /\ cr \in CRs(o)
          /\ versions = <<[i \in Parts(o) |-> x]>>
          /\ mark = <<IF Constant[o].gated /\ x = Drift THEN "true" ELSE "none">>
          /\ unnoticed = (x = Drift /\ ~Rec(o, cr.on).visited)
    /\ told = cr /\ queued = TRUE /\ pass = None
    /\ disturbances = 0

Disturb ==
    /\ disturbances < MaxDisturbances(focus.object)
    /\ disturbances' = disturbances + 1

\* The user edits the resource: any of its switches, or the field.
EditSwitches ==
    /\ Disturb
    /\ \E on \in SUBSET Reads(focus.object) :
          /\ on # cr.on
          /\ on \cap Environment = cr.on \cap Environment
          /\ cr' = [cr EXCEPT !.on = on]
    /\ UNCHANGED <<focus, told, versions, mark, queued, pass, unnoticed>>

EditField ==
    /\ Disturb
    /\ focus.field \in R(cr).follows
    /\ cr' = [cr EXCEPT !.ver = 1 - @]
    /\ UNCHANGED <<focus, told, versions, mark, queued, pass, unnoticed>>

\* The update event of the resource or of a namespace.  When it turns off
\* notifications, or takes the namespace away, the predicate of the watch deletes
\* what it knows of, and only logs an error: what the API server has, or for the
\* notifications what the cache shows.
Purge(r)  == r.purged \cap (told.on \ cr.on) # {}
Purged(r) == IF Purge(r) THEN [i \in DOMAIN cluster |->
                                 IF r.live \/ Shown(i) THEN Absent ELSE cluster[i]]
                         ELSE cluster
PurgeMisses(r) == Purge(r) /\ \E i \in DOMAIN cluster : Purged(r)[i] # Absent
\* The deletion that the last request asked for was not made in time: with the
\* new one no pass visits the object any more.
DeletionLost == ~R(cr).visited /\ ~R(told).wanted /\ \E i \in DOMAIN cluster : Found(i)
\* Mutant: the predicate of the watch keeps the event from the queue.
DeliverUnqueued ==
    /\ told # cr
    /\ told' = cr
    /\ Store(Purged(R(cr)))
    /\ unnoticed' = (unnoticed \/ DeletionLost \/ PurgeMisses(R(cr)))
    /\ UNCHANGED <<focus, cr, mark, queued, pass, disturbances>>
Deliver ==
    /\ told # cr
    /\ told' = cr
    /\ queued' = TRUE
    /\ Store(Purged(R(cr)))
    /\ unnoticed' = (unnoticed \/ DeletionLost \/ PurgeMisses(R(cr)))
    /\ UNCHANGED <<focus, cr, mark, pass, disturbances>>
PurgeFails ==
    /\ Disturb
    /\ told # cr /\ Purge(R(cr))
    /\ told' = cr
    /\ queued' = TRUE
    /\ unnoticed' = TRUE
    /\ UNCHANGED <<focus, cr, versions, mark, pass>>

\* Somebody else deletes the object, or changes the field.
Tamper ==
    /\ Disturb
    /\ \E i \in DOMAIN cluster, x \in {Absent, Drift} :
          /\ Found(i) /\ x # cluster[i]
          /\ x = Drift => focus.field # "none"
          /\ Store([cluster EXCEPT ![i] = x])
    /\ unnoticed' = (unnoticed \/ ~Watched(R(cr), cr.on))
    /\ UNCHANGED <<focus, cr, told, mark, queued, pass>>

\* Somebody else takes the label off the namespace; the controller of metrics hears
\* of neither.
Unlabel ==
    /\ Disturb
    /\ Gated /\ label # "none"
    /\ mark' = Append(mark, "none")
    /\ unnoticed' = TRUE
    /\ UNCHANGED <<focus, cr, told, versions, queued, pass>>

\* The informer shows the next version; whose it is makes no difference.
Observe ==
    /\ ~Current
    /\ versions' = Tail(versions)
    /\ queued' = (queued \/ Watched(R(cr), cr.on))
    /\ UNCHANGED <<focus, cr, told, mark, pass, unnoticed, disturbances>>
ObserveLabel ==
    /\ Len(mark) > 1
    /\ mark' = Tail(mark)
    /\ UNCHANGED <<focus, cr, told, versions, queued, pass, unnoticed, disturbances>>

-----------------------------------------------------------------------------
Begin ==
    /\ pass = None /\ queued
    /\ pass' = told
    /\ queued' = FALSE
    /\ UNCHANGED <<focus, cr, told, versions, mark, unnoticed, disturbances>>

\* Mutant: an object whose field differs is deleted, to be created by the next pass.
FoundValueOrNothing(r, v, x) == IF ~r.keep \/ Differs(r, v, x) THEN Absent ELSE x
\* Mutant: what differs is corrected in memory and the update forgotten.
FoundValueUnwritten(r, v, x) ==
    IF ~r.keep \/ (Differs(r, v, x) /\ focus.field \in r.drops) THEN Absent ELSE x
\* What the reconciler makes of the copy it finds.
FoundValue(r, v, x) ==
    LET f == focus.field
        wrong == Differs(r, v, x)
    IN  IF wrong /\ f \in r.early     THEN Desired(r, v)
        ELSE IF ~r.keep               THEN Absent
        ELSE IF wrong /\ f \in r.drops   THEN Absent
        ELSE IF wrong /\ (f \in r.repairs \/ f \in r.replaces) THEN Desired(r, v)
        ELSE x

NewValue(r, v) == IF <<focus.field, v>> \in r.later THEN Drift ELSE Desired(r, v)

\* The copies are visited in order, and the first one found ends the loop.
FirstShown == IF \E i \in DOMAIN shown : Shown(i)
                THEN CHOOSE i \in DOMAIN shown :
                        Shown(i) /\ \A j \in DOMAIN shown : j < i => ~Shown(j)
                ELSE Len(shown) + 1
\* What the pass would make of the copies it is shown.
Reconciled(r, v, upto) ==
    IF Shown(1) THEN [shown EXCEPT ![1] = FoundValue(r, v, @)]
    ELSE IF r.make THEN [i \in DOMAIN shown |-> IF i < upto THEN NewValue(r, v)
                                                            ELSE shown[i]]
    ELSE shown

\* The API server does not create what exists, delete what is gone, or update what
\* has changed since it was read.
Accepted(r, y, i) ==
    IF ~Shown(i) THEN ~Found(i)
    ELSE IF y[i] = Absent \/ focus.field \in r.replaces \ r.early THEN Found(i)
    ELSE Current
\* Mutant: the loop over the copies makes one too many.
WrittenOneMore(r, y) ==
    [i \in 1..(Len(cluster) + 1) |-> IF i \in DOMAIN y THEN y[i] ELSE y[1]]
\* Of the writes to the copies, those up to the first that is not accepted.
Written(r, y) ==
    [i \in DOMAIN cluster |->
        IF y[i] # shown[i] /\ \A j \in 1..i : y[j] # shown[j] => Accepted(r, y, j)
          THEN y[i] ELSE cluster[i]]
\* Some reconcilers do not mind that what they delete is gone.
Rejected(r, y) == \E i \in DOMAIN cluster :
                     /\ y[i] # shown[i] /\ ~Accepted(r, y, i)
                     /\ ~(r.tolerant /\ y[i] = Absent)

\* The label is written before anything else.  Without it there is nothing to take
\* down; and what is taken down is deleted unseen.
Idle(r) == Gated /\ ~r.wanted /\ labelShown = "none"
Reaches(r) == r.visited /\ ~Idle(r)
MarkFor(r) == IF r.wanted THEN "true" ELSE "false"
Marks(r)   == /\ Gated /\ Reaches(r)
              /\ ~r.wanted \/ labelShown # "true"
Marked(r)  == IF Marks(r) /\ label # MarkFor(r) THEN Append(mark, MarkFor(r)) ELSE mark
Result(r, y) == IF ~Reaches(r) THEN cluster
                ELSE IF r.blind /\ ~r.keep THEN [i \in DOMAIN cluster |-> Absent]
                ELSE Written(r, y)
Failed(r, y) == Reaches(r) /\ ~(r.blind /\ ~r.keep) /\ Rejected(r, y)

\* The API server refuses to change an immutable field, or a label that has changed
\* since it was read, or something that the creation needs is missing.
Refusal(r, v) == /\ r.visited
                 /\ \/ /\ Shown(1) /\ r.keep
                       /\ focus.field \in r.refused /\ Differs(r, v, shown[1])
                    \/ r.unmade /\ r.make /\ ~Shown(1)
                    \/ Marks(r) /\ Len(mark) > 1

\* Mutant: the comparison reports a difference whatever it finds.
TripsAlways(r, v) == r.visited /\ Shown(1) /\ focus.field \in r.trips
\* A deleted object is compared and updated, or created, as it was read.
Trips(r, v) == /\ r.visited /\ Shown(1) /\ focus.field \in r.trips
               /\ r.keep => focus.field \in r.drops
               /\ focus.field = "none" \/ Differs(r, v, shown[1])

\* The pass was under way when an event purged what it now makes.
Overtaken(r) == r.purged \cap (pass.on \ told.on) # {}

\* The cache had caught up.  If not, and the pass met no error, only an event can
\* bring another one.
UpToDate == Current /\ (Gated => Len(mark) = 1)
Misled(r, on) == r.visited /\ ~UpToDate /\ ~Watched(r, on)

Reconcile ==
    /\ pass # None /\ ~Refusal(R(pass), pass.ver) /\ ~R(pass).blocked
    /\ LET r == R(pass)
           y == Reconciled(r, pass.ver, FirstShown)
       IN  /\ Store(Result(r, y))
           /\ mark' = Marked(r)
           /\ queued' = \/ queued \/ Trips(r, pass.ver)
                        \/ Failed(r, y) /\ ~r.swallowed
           /\ unnoticed' = \/ unnoticed /\ ~(Reaches(r) /\ UpToDate)
                           \/ Overtaken(r)
                           \/ IF Failed(r, y) THEN r.swallowed ELSE Misled(r, pass.on)
    /\ pass' = None
    /\ UNCHANGED <<focus, cr, told, disturbances>>

\* An error before the object is reached, on the way through its copies, between
\* the deletion and the creation of one that is replaced, or after it.
HalfReplaced(r, v) == /\ Shown(1) /\ Found(1) /\ r.keep
                      /\ focus.field \in r.replaces /\ Differs(r, v, shown[1])
Fail ==
    /\ Disturb
    /\ pass # None
    /\ LET r == R(pass)
           v == pass.ver
       IN  /\ \/ UNCHANGED <<versions, mark>>
              \/ /\ Reaches(r) /\ ~Refusal(r, v) /\ ~r.blocked
                 /\ \/ Store(cluster)
                    \/ \E upto \in 2..FirstShown : Store(Result(r, Reconciled(r, v, upto)))
                    \/ Shown(1) /\ Store(Result(r, Reconciled(r, v, 1)))
                    \/ HalfReplaced(r, v) /\ Store([cluster EXCEPT ![1] = Absent])
                 /\ mark' = Marked(r)
           /\ queued' = (queued \/ ~r.swallowed)
           /\ unnoticed' = (unnoticed \/ r.swallowed \/ Overtaken(r))
    /\ pass' = None
    /\ UNCHANGED <<focus, cr, told>>

Refused ==
    /\ pass # None /\ (Refusal(R(pass), pass.ver) \/ R(pass).blocked)
    /\ queued' = TRUE
    /\ pass' = None
    /\ UNCHANGED <<focus, cr, told, versions, mark, unnoticed, disturbances>>

\* A new process lists everything; what it never saw it cannot compare.
Restart ==
    /\ Disturb
    /\ pass' = None /\ told' = cr /\ queued' = TRUE
    /\ versions' = <<cluster>> /\ mark' = <<label>>
    /\ unnoticed' = (unnoticed \/ Purge(R(cr)) \/ (told # cr /\ DeletionLost))
    /\ UNCHANGED <<focus, cr>>

Informer == Deliver \/ Observe \/ ObserveLabel
Worker   == Begin \/ Reconcile \/ Refused
Next ==
    \/ EditSwitches \/ EditField \/ PurgeFails \/ Tamper \/ Unlabel
    \/ Informer \/ Worker \/ Fail \/ Restart

Spec == Init /\ [][Next]_vars

\* The informers deliver and the worker of the queue runs (which is WF_vars(Worker),
\* with its ENABLED in plain words).
Fairness == /\ WF_vars(Deliver) /\ WF_vars(Observe) /\ WF_vars(ObserveLabel)
            /\ []<>(pass = None /\ ~queued) \/ []<><<Worker>>_vars
FairSpec == Spec /\ Fairness

-----------------------------------------------------------------------------
\* Nothing is running, pending or to be heard of.
Settled  == pass = None /\ ~queued /\ told = cr /\ Current /\ ~unnoticed
FrozenFields == [o \in Objects |-> {f \in Fields(o) : Frozen(o, f)}]
Departed == \/ Departs(focus.object, cr.on) \/ R(cr).blocked \/ R(cr).unmade
            \/ focus.field \in FrozenFields[focus.object]

\* Once things have settled, the object is there if and only if the resource
\* asks for it: every reconciler's conditions for keeping, deleting and creating
\* agree, and its watch tells it of whatever undoes its work, or of what a pass could
\* not see yet.
SettledPresence ==
    Settled /\ ~Departed => \A i \in DOMAIN cluster : Found(i) <=> R(cr).wanted

\* Once things have settled, a field that comes from the resource has the value
\* the resource gives it, whoever changed it: each updater compares every field
\* its builder fills in.
SettledContent ==
    /\ Settled /\ ~Departed
    /\ focus.field \in R(cr).follows
    => \A i \in DOMAIN cluster : Found(i) => ~Differs(R(cr), cr.ver, cluster[i])

\* The operator's own writes wake it up again, and that comes to an end.
Quiesces == <>[](Departed \/ (pass = None /\ ~queued))

\* Each reconciler keeps the promise of ManagedObject.  `Nearer' says it in
\* terms of what is wanted, not of the conditions in the code.
Requests  == [on : SUBSET UNION {Reads(o) : o \in Objects}, ver : Versions]
States    == [focus : [object : Objects, field : UNION {Fields(o) : o \in Objects}],
              value : UNION {[Parts(o) -> Values] : o \in Objects}]
\* Where the stored copy x may be brought by a pass that is shown the copy seen.
CopyNearer(r, f, v, seen, x) ==
    LET desired == IF f \in r.follows THEN v ELSE 0
        right   == seen = desired \/ (f \in r.sticky /\ v = 0)
        updated == IF seen = x THEN {desired} ELSE {}
    IN  CASE x = Absent -> IF ~r.wanted \/ seen # Absent THEN {}
                           ELSE IF <<f, v>> \in r.later THEN {Drift} ELSE {desired}
          [] ~r.wanted /\ x # Absent -> {Absent} \cup updated
          [] r.wanted /\ x # Absent  -> IF seen = Absent \/ right THEN {}
                                       ELSE IF f \in r.drops THEN {Absent}
                                       ELSE IF f \in r.replaces THEN {Absent, desired}
                                       ELSE updated
Nearer(req, seen, s) ==
    LET o == s.focus.object
        near(y, x) == IF Departs(o, req.on) THEN Values
                      ELSE CopyNearer(Catalogue[o][req.on], s.focus.field, req.ver, y, x)
    IN  {t \in [focus : {s.focus}, value : [Parts(o) -> Values]] :
            \A i \in Parts(o) : \/ t.value[i] = s.value[i]
                               \/ t.value[i] \in near(seen.value[i], s.value[i])}
Promise == INSTANCE ManagedObject
             WITH asked <- cr, heard <- told, working <- pass,
                  history <- [n \in DOMAIN versions |->
                                [focus |-> focus, value |-> versions[n]]]
KeepsPromise == Promise!Spec

-----------------------------------------------------------------------------
(* What the properties ask of the reconcilers: conditions on the catalogue     *)
(* alone, which the theorems assume and TLC evaluates for every object.        *)

\* An object that is wanted is kept, one that is not is never made or replaced, and
\* one that is deleted by an event is not wanted then.
Honest(o, on) ==
    LET r == Rec(o, on)
    IN  Departs(o, on) \/
        /\ r.visited /\ r.wanted => r.keep /\ r.early \cap r.drops = {}
        /\ r.visited /\ (r.make \/ (r.keep /\ r.replaces # {})) => r.wanted
        /\ r.purged \ on # {} => ~r.wanted
HonestCatalogue == \A o \in Objects : \A on \in SUBSET Reads(o) : Honest(o, on)

Settles(o, on) == LET r == Rec(o, on) IN ~Departs(o, on) /\ ~r.blocked /\ ~r.unmade

\* The conditions for keeping and making are the one for wanting; a pass that
\* leaves something to do is followed by another; and every field that comes from
\* the resource is compared.
Thorough(o, f, on) ==
    LET r == Rec(o, on)
    IN  Settles(o, on) /\ ~Frozen(o, f) =>
        /\ Rec(o, {}).parts = 1
        /\ IF r.visited THEN (r.keep <=> r.wanted) /\ (r.make <=> r.wanted) ELSE ~r.wanted
        /\ \/ Watched(r, on)
           \/ /\ f \notin r.early
              /\ r.wanted /\ f \in r.drops => f \in r.trips
              /\ \A v \in Versions : <<f, v>> \notin r.later
        /\ Rec(o, {}).gated => r.visited /\ ~Watched(r, on)
        /\ r.wanted /\ f \in r.follows =>
              f \in r.early \cup r.drops \cup r.repairs \cup r.replaces \cup r.refused

\* Whether an object is watched is a matter of the cluster; and with a request that
\* has no pass look at it, it was never made, or the event deletes it, or the pass
\* for the request before deletes it.
Disposes(o, before, on) ==
    LET r == Rec(o, on)
        b == Rec(o, before)
    IN  before \cap Environment = on \cap Environment =>
        /\ Watched(b, before) <=> Watched(r, on)
        /\ Settles(o, on) /\ ~r.visited =>
              IF b.wanted THEN /\ r.purged \cap (before \ on) # {}
                               /\ b.purged \cap (before \ on) # {}
              ELSE b.visited => ~b.make /\ ~b.keep /\ b.early = {}
ThoroughCatalogue ==
    \A o \in Objects : \A on \in SUBSET Reads(o) :
        /\ \A f \in Fields(o) : Thorough(o, f, on)
        /\ \A before \in SUBSET Reads(o) : Disposes(o, before, on)
=============================================================================
