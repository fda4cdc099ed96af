--------------------------- MODULE GitopsConvergence ---------------------------
(***************************************************************************)
(* Proof that GitopsService has converged whenever it is at rest.          *)
(***************************************************************************)
EXTENDS GitopsServiceProofs

USE DEF bounds, process

-----------------------------------------------------------------------------
(* The inductive invariant *)

\* A cache without news is right; one without news that requests a reconcile
\* is right as far as a reconciliation looks.
CacheInv ==
    \A o \in Objects :
       /\ pending[o] = "none" => cached[o] = api[o]
       /\ o \in Watched /\ pending[o] # "loud"
            => /\ api[o] = Absent <=> cached[o] = Absent
               /\ o \notin Unversioned => cached[o] = api[o]

\* What lives in a namespace does not outlive it.
NamespaceInv ==
    \A o \in Objects : api[o] # Absent => \A n \in NamespaceOf(o) : api[n] # Absent

\* The two objects of the plugin whose changes may go unnoticed have one
\* content only, and the one that is not watched stays.
FixedInv ==
    /\ api["psvc"] \in {Absent, Fixed} /\ cached["psvc"] \in {Absent, Fixed}
    /\ api["cplugin"] \in {Absent, Fixed} /\ cached["cplugin"] \in {Absent, Fixed}
    /\ cached["cplugin"] # Absent => api["cplugin"] # Absent

\* A reconciliation of an older specification is not the last one.
InstInv == cachedSpec <= spec /\ (~queued /\ cachedSpec = spec => inst = spec)

\* The step of the plan that is about an object.
StepOf(o) ==
    CASE o = "ns"      -> 3
      [] o = "argocd"  -> IF disabled THEN 3 ELSE 5
      [] o = "sa"      -> IF disabled THEN 8 ELSE 6
      [] o = "role"    -> 7
      [] o = "binding" -> IF disabled THEN 6 ELSE 8
      [] o = "deploy"  -> IF disabled THEN 4 ELSE 9
      [] o = "svc"     -> IF disabled THEN 5 ELSE 10
      [] o = "psvc"    -> IF disabled THEN 10 ELSE 12
      [] o = "pcm"     -> IF disabled THEN 11 ELSE 13
      [] o = "pdep"    -> IF disabled THEN 12 ELSE 14
      [] o = "cplugin" -> IF disabled THEN 13 ELSE 15
      [] OTHER         -> 0

\* The reconciliation, or the last one if the worker is idle, has done that
\* step and no other reconciliation is due.
Passed(o) == /\ ~queued
             /\ \/ step = 0 /\ (unread => o \notin Plugin)
                \/ step > StepOf(o)

Wanted(o) == \/ ~disabled /\ o \in {"ns", "argocd"} \cup Backend
             \/ PluginSupported /\ o \in Plugin

GoodIfPassed(o) == Wanted(o) /\ Passed(o) /\ pending[o] # "loud" => Good(o)
PassedIsGood    == \A o \in Objects : GoodIfPassed(o)

\* The same for the removal; what is cached of the instance is enough to
\* delete it.
PassedIsGone ==
    disabled =>
       /\ \A o \in Backend : Passed(o) => api[o] = Absent
       /\ Passed("argocd") => api["argocd"] = Absent \/ terminating
       /\ api["argocd"] # Absent => cached["argocd"] # Absent /\ cached["ns"] # Absent

ConvergenceInv == /\ CacheInv /\ NamespaceInv /\ FixedInv /\ InstInv
                  /\ PassedIsGood /\ PassedIsGone

\* Nobody but the operator changes the two objects whose differences from what
\* they should be would not be noticed: the plugin's Service, whose updates the
\* predicate hides, and the ConsolePlugin, which is not watched.
NoticeableOnly == Tamperable \cap {"psvc", "cplugin"} = {}

-----------------------------------------------------------------------------
(* What the steps do to the objects *)

\* A write that respects namespaces: none of them is removed, and nothing is
\* put where there is none.
Writes(o, v) ==
    /\ o \in Objects /\ v \in Content /\ Put(o, v) /\ cached' = cached
    /\ v = Absent => o \notin {"ns", "pns"}
    /\ v # Absent => \A n \in NamespaceOf(o) : api[n] # Absent

Idles == Keep /\ cached' = cached

LEMMA UpdateWrites ==
    ASSUME TypeOK, NamespaceInv, NEW o \in Objects, NEW v \in Content, v # Absent,
           NEW always, CreateOrUpdate(o, v, always), UNCHANGED StepVars
    PROVE  Writes(o, v) \/ Idles
<1>1. CASE Put(o, v) /\ Creatable(o)
  BY <1>1 DEF Writes, Creatable, StepVars
<1>2. CASE Put(o, v) /\ Updatable(o)
  BY <1>2 DEF Writes, Updatable, NamespaceInv, StepVars
<1>3. CASE Keep
  BY <1>3 DEF Idles, StepVars
<1> QED
  BY <1>1, <1>2, <1>3, CreateOrUpdateEffect

LEMMA CreateWrites ==
    ASSUME TypeOK, NamespaceInv, NEW o \in Objects, NEW v \in Content, v # Absent,
           CreateIfAbsent(o, v), UNCHANGED StepVars
    PROVE  (\E w \in Content \ {Absent} : Writes(o, w)) \/ Idles
<1> DEFINE w == IF cached[o] = Absent THEN v ELSE cached[o]
<1>1. w # Absent /\ w \in Content
  BY TypeParts DEF ObjectTypes
<1>2. CreateOrUpdate(o, w, FALSE)
  BY DEF CreateIfAbsent
<1> HIDE DEF w
<1> QED
  BY <1>1, <1>2, UpdateWrites

LEMMA WritesCache ==
    ASSUME ObjectTypes, CacheInv, NEW new \in [Objects -> Content], Store(new),
           cached' = cached
    PROVE  CacheInv'
<1> SUFFICES ASSUME NEW o \in Objects
             PROVE  /\ pending'[o] = "none" => cached'[o] = api'[o]
                    /\ o \in Watched /\ pending'[o] # "loud"
                        => /\ api'[o] = Absent <=> cached'[o] = Absent
                           /\ o \notin Unversioned => cached'[o] = api'[o]
  BY DEF CacheInv
<1>1. api'[o] = new[o] /\ cached'[o] = cached[o]
  BY DEF Store
<1>2. CASE new[o] = api[o]
  <2>1. pending'[o] = pending[o]
    BY <1>2 DEF Store
  <2> QED
    BY <1>1, <1>2, <2>1 DEF CacheInv
<1>3. CASE new[o] # api[o] /\ Notices(o, api[o], new[o])
  <2>1. pending'[o] = "loud"
    BY <1>3 DEF Store
  <2> QED
    BY <2>1
<1>4. CASE new[o] # api[o] /\ ~Notices(o, api[o], new[o])
  <2>1. pending'[o] = IF pending[o] = "loud" THEN "loud" ELSE "quiet"
    BY <1>4 DEF Store
  <2> QED
    BY <1>1, <1>4, <2>1 DEF CacheInv, Notices
<1> QED
  BY <1>2, <1>3, <1>4

\* The three invariants on the objects alone.
LEMMA WritesObjects ==
    ASSUME TypeOK, CacheInv, NamespaceInv, FixedInv, NEW o, NEW v, Writes(o, v),
           o = "psvc" \/ o = "cplugin" => v = Fixed
    PROVE  CacheInv' /\ NamespaceInv' /\ FixedInv'
<1>1. /\ o \in Objects /\ v \in Content /\ ObjectTypes
      /\ "psvc" \in Objects /\ "cplugin" \in Objects
  BY TypeParts DEF Writes, Objects, Plugin
<1>2. api' = [api EXCEPT ![o] = v] /\ cached' = cached
  BY DEF Writes, Put, Store
<1>3. CacheInv'
  <2>1. [api EXCEPT ![o] = v] \in [Objects -> Content]
    BY <1>1 DEF ObjectTypes
  <2> QED
    BY <1>1, <2>1, WritesCache DEF Writes, Put
<1>4. NamespaceInv'
  <2>1. \A x \in Objects : NamespaceOf(x) \subseteq {"ns", "pns"}
    BY DEF NamespaceOf, PluginNS
  <2>2. {"ns", "pns"} \subseteq Objects
    BY DEF Objects
  <2>3. \A n \in {"ns", "pns"} : api[n] # Absent => api'[n] # Absent
    BY <1>1, <1>2, <2>2 DEF Writes, ObjectTypes
  <2> QED
    BY <1>1, <1>2, <2>1, <2>2, <2>3 DEF NamespaceInv, Writes, ObjectTypes
<1>5. FixedInv'
  BY <1>1, <1>2, NewIsThere DEF FixedInv, ObjectTypes
<1> QED
  BY <1>3, <1>4, <1>5

LEMMA IdlesObjects ==
    ASSUME CacheInv, NamespaceInv, FixedInv, Idles
    PROVE  CacheInv' /\ NamespaceInv' /\ FixedInv'
BY DEF Idles, Keep, CacheInv, NamespaceInv, FixedInv

-----------------------------------------------------------------------------
(* Steps that have been passed *)

\* Going on by a step passes only the objects of that step.
LEMMA PassedBefore ==
    ASSUME TypeOK, NEW o \in Objects, NEW name, At(name), Proceed \/ Fail,
           disabled' = disabled, StepOf(o) # step,
           Wanted(o) \/ (disabled /\ o \in Backend \cup {"argocd"}),
           Passed(o)'
    PROVE  Passed(o)
<1>1. ~queued' /\ (step' = 0 \/ step' > StepOf(o)')
  BY DEF Passed
<1>2. Proceed /\ ~queued
  BY <1>1 DEF Proceed, Fail
<1>3. StepOf(o)' = StepOf(o) /\ StepOf(o) \in Nat
  BY DEF StepOf
<1>4. step \in 1..Len(Plan) /\ Len(Plan) \in Nat
  BY PlanLength DEF At, Base
<1>5. StepOf(o) <= Len(Plan)
  BY PlanLength DEF StepOf, Wanted, Base, Backend, Plugin
<1> QED
  BY <1>1, <1>2, <1>3, <1>4, <1>5 DEF Passed, Proceed

\* Nothing of the worker changes, except perhaps that a reconcile is requested.
LEMMA PassedStill ==
    ASSUME NEW o \in Objects, UNCHANGED <<step, unread, disabled>>, ~queued' => ~queued,
           Passed(o)'
    PROVE  Passed(o)
<1>1. StepOf(o)' = StepOf(o)
  BY DEF StepOf
<1> QED
  BY <1>1 DEF Passed

LEMMA DesiredStays ==
    ASSUME UNCHANGED <<inst, tls>>, NEW o \in Objects
    PROVE  Desired(o)' = Desired(o)
BY DEF Desired, NewRestrictedNamespace, NewArgoCD, NewBackendDeployment,
   PluginConfigMap, PluginDeployment, Fixed

LEMMA GoodFrame ==
    ASSUME PassedIsGood, NEW o \in Objects, UNCHANGED <<inst, tls, disabled>>,
           api'[o] = api[o], pending'[o] = pending[o],
           Wanted(o) /\ Passed(o)' => Passed(o)
    PROVE  GoodIfPassed(o)'
<1>1. Wanted(o)' = Wanted(o) /\ Desired(o)' = Desired(o)
  BY DesiredStays DEF Wanted
<1> QED
  BY <1>1 DEF PassedIsGood, GoodIfPassed, Good

\* A step of the plan about `ob'.
LEMMA PassedStep ==
    ASSUME TypeOK, PassedIsGood, NEW name, At(name), Proceed \/ Fail,
           UNCHANGED <<inst, tls, disabled>>, NEW ob \in Objects,
           \A x \in Objects \ {ob} : api'[x] = api[x] /\ pending'[x] = pending[x],
           GoodIfPassed(ob)',
           \A x \in Objects \ {ob} : Wanted(x) => StepOf(x) # step
    PROVE  PassedIsGood'
<1> SUFFICES ASSUME NEW o \in Objects, o # ob
             PROVE  GoodIfPassed(o)'
  BY DEF PassedIsGood
<1>1. Wanted(o) /\ Passed(o)' => Passed(o)
  BY PassedBefore
<1> QED
  BY <1>1, GoodFrame

\* A step about an object that is not wanted, or about none.
LEMMA PassedOtherStep ==
    ASSUME TypeOK, PassedIsGood, NEW name, At(name), Proceed \/ Fail,
           UNCHANGED <<inst, tls, disabled>>,
           \A x \in Objects : Wanted(x) =>
              api'[x] = api[x] /\ pending'[x] = pending[x] /\ StepOf(x) # step
    PROVE  PassedIsGood'
<1> SUFFICES ASSUME NEW o \in Objects
             PROVE  GoodIfPassed(o)'
  BY DEF PassedIsGood
<1>1. Wanted(o)' = Wanted(o)
  BY DEF Wanted
<1>2. CASE Wanted(o)
  BY <1>2, PassedBefore, GoodFrame
<1> QED
  BY <1>1, <1>2 DEF GoodIfPassed

LEMMA PutNews ==
    ASSUME ObjectTypes, NEW o \in Objects, NEW v, Put(o, v)
    PROVE  /\ api'[o] = v
           /\ \A x \in Objects \ {o} : api'[x] = api[x] /\ pending'[x] = pending[x]
           /\ v = api[o] => pending'[o] = pending[o]
           /\ v # api[o] /\ Notices(o, api[o], v) => pending'[o] = "loud"
BY DEF ObjectTypes, Put, Store

LEMMA UpdateNews ==
    ASSUME ObjectTypes, NEW o \in Objects, NEW v, NEW always,
           CreateOrUpdate(o, v, always)
    PROVE  /\ \A x \in Objects \ {o} : api'[x] = api[x] /\ pending'[x] = pending[x]
           /\ \/ queued'
              \/ api'[o] = v
              \/ Keep /\ cached[o] # Absent /\ cached[o] = v
           /\ Proceed \/ Fail
<1>1. CASE Put(o, v)
  BY <1>1, PutNews, CreateOrUpdateEffect
<1>2. CASE ~Put(o, v)
  BY <1>2, CreateOrUpdateEffect DEF Keep, Fail
<1> QED
  BY <1>1, <1>2

\* Having brought an object up to date, a reconciliation leaves it as it should
\* be, or has read an old state of which news will come.
LEMMA UpdateIsGood ==
    ASSUME TypeOK, CacheInv, FixedInv, NEW o \in Objects, NEW always,
           o \in (Watched \ Unversioned) \cup {"psvc", "cplugin"},
           CreateOrUpdate(o, Desired(o), always), UNCHANGED StepVars
    PROVE  GoodIfPassed(o)'
<1>1. Desired(o)' = Desired(o) /\ Desired(o) # Absent
  BY DesiredStays, DesiredIsThere DEF StepVars
<1>2. CASE queued'
  BY <1>2 DEF GoodIfPassed, Passed
<1>3. CASE api'[o] = Desired(o)
  BY <1>1, <1>3 DEF GoodIfPassed, Good
<1>4. CASE Keep /\ cached[o] # Absent /\ cached[o] = Desired(o) /\ pending[o] # "loud"
  <2>1. api[o] = Desired(o)
    <3>1. CASE o \in Watched \ Unversioned
      BY <1>4, <3>1 DEF CacheInv
    <3>2. CASE o = "psvc"
      <4>1. o \in Watched /\ api[o] # Absent
        BY <1>4, <3>2 DEF CacheInv, Watched, Objects, Plugin, Legacy
      <4> QED
        BY <1>4, <3>2, <4>1 DEF FixedInv
    <3>3. CASE o = "cplugin"
      BY <1>4, <3>3 DEF FixedInv
    <3> QED
      BY <3>1, <3>2, <3>3
  <2> QED
    BY <1>1, <1>4, <2>1 DEF GoodIfPassed, Good, Keep
<1>5. CASE Keep /\ pending[o] = "loud"
  BY <1>5 DEF GoodIfPassed, Keep
<1> QED
  BY <1>2, <1>3, <1>4, <1>5, UpdateNews, TypeParts

\* The same for an object that is only created.
LEMMA CreateIsGood ==
    ASSUME TypeOK, CacheInv, NEW o \in Watched \ Repaired,
           CreateIfAbsent(o, Fixed), UNCHANGED StepVars
    PROVE  /\ GoodIfPassed(o)'
           /\ \A x \in Objects \ {o} : api'[x] = api[x] /\ pending'[x] = pending[x]
           /\ Proceed \/ Fail
<1> DEFINE w == IF cached[o] = Absent THEN Fixed ELSE cached[o]
<1>1. w # Absent /\ o \in Objects
  BY NewIsThere DEF Watched
<1>2. CreateOrUpdate(o, w, FALSE)
  BY DEF CreateIfAbsent
<1> HIDE DEF w
<1>3. GoodIfPassed(o)'
  <2>1. CASE queued'
    BY <2>1 DEF GoodIfPassed, Passed
  <2>2. CASE api'[o] = w
    BY <1>1, <2>2 DEF GoodIfPassed, Good
  <2>3. CASE Keep /\ cached[o] # Absent
    BY <1>1, <2>3 DEF GoodIfPassed, Good, Keep, CacheInv
  <2> QED
    BY <1>1, <1>2, <2>1, <2>2, <2>3, UpdateNews, TypeParts
<1> QED
  BY <1>1, <1>2, <1>3, UpdateNews, TypeParts

-----------------------------------------------------------------------------
(* The steps of a reconciliation *)

\* What every step of the plan leaves alone.
LEMMA InstFrame ==
    ASSUME InstInv, UNCHANGED <<spec, cachedSpec, inst>>, ~queued' => ~queued
    PROVE  InstInv'
BY DEF InstInv

LEMMA ProceedQueue == Proceed \/ Fail => (~queued' => ~queued)
BY DEF Proceed, Fail

\* The removal is not concerned by a step about other objects.
LEMMA GoneFrame ==
    ASSUME TypeOK, PassedIsGone, UNCHANGED <<cached, disabled, terminating>>,
           disabled => \A o \in Backend \cup {"argocd"} :
                         api'[o] = api[o] /\ (Passed(o)' => Passed(o))
    PROVE  PassedIsGone'
BY DEF PassedIsGone

\* A step of the plan that belongs to the installation or the plugin.
LEMMA GoneStep ==
    ASSUME TypeOK, PassedIsGone, NEW name, At(name), Proceed \/ Fail,
           UNCHANGED StepVars,
           disabled => \A o \in Backend \cup {"argocd"} :
                         api'[o] = api[o] /\ StepOf(o) # step
    PROVE  PassedIsGone'
<1>1. Backend \cup {"argocd"} \subseteq Objects
  BY DEF Objects
<1>2. disabled => \A o \in Backend \cup {"argocd"} : Passed(o)' => Passed(o)
  BY <1>1, PassedBefore DEF StepVars
<1> QED
  BY <1>2, GoneFrame DEF StepVars

LEMMA StepInv ==
    ASSUME TypeOK, ConvergenceInv, NEW name, At(name), Proceed \/ Fail,
           UNCHANGED StepVars, NEW o \in Objects, NEW v,
           Writes(o, v) \/ Idles, o = "psvc" \/ o = "cplugin" => v = Fixed,
           \A x \in Objects \ {o} : api'[x] = api[x] /\ pending'[x] = pending[x],
           GoodIfPassed(o)',
           \A x \in Objects \ {o} : Wanted(x) => StepOf(x) # step,
           disabled => o \notin Backend \cup {"argocd"}
                       /\ \A x \in Backend \cup {"argocd"} : StepOf(x) # step
    PROVE  ConvergenceInv'
<1>1. CacheInv' /\ NamespaceInv' /\ FixedInv'
  BY WritesObjects, IdlesObjects DEF ConvergenceInv
<1>2. InstInv'
  BY InstFrame, ProceedQueue DEF ConvergenceInv, StepVars
<1>3. PassedIsGood'
  BY PassedStep DEF ConvergenceInv, StepVars
<1>4. PassedIsGone'
  <2>1. Backend \cup {"argocd"} \subseteq Objects
    BY DEF Objects
  <2> QED
    BY <2>1, GoneStep DEF ConvergenceInv
<1> QED
  BY <1>1, <1>2, <1>3, <1>4 DEF ConvergenceInv

LEMMA UpdateInv ==
    ASSUME TypeOK, ConvergenceInv, NEW name, At(name), UNCHANGED StepVars,
           NEW o \in (Watched \ Unversioned) \cup {"psvc", "cplugin"},
           NEW always, CreateOrUpdate(o, Desired(o), always),
           Desired(o) \in Content, o = "psvc" \/ o = "cplugin" => Desired(o) = Fixed,
           \A x \in Objects \ {o} : Wanted(x) => StepOf(x) # step,
           disabled => o \notin Backend \cup {"argocd"}
                       /\ \A x \in Backend \cup {"argocd"} : StepOf(x) # step
    PROVE  ConvergenceInv'
<1>1. o \in Objects
  BY DEF Watched, Objects, Plugin
<1>2. Writes(o, Desired(o)) \/ Idles
  BY <1>1, UpdateWrites, DesiredIsThere DEF ConvergenceInv
<1>3. GoodIfPassed(o)'
  BY <1>1, UpdateIsGood DEF ConvergenceInv
<1>4. /\ \A x \in Objects \ {o} : api'[x] = api[x] /\ pending'[x] = pending[x]
      /\ Proceed \/ Fail
  BY <1>1, UpdateNews, TypeParts
<1> QED
  BY <1>1, <1>2, <1>3, <1>4, StepInv

LEMMA CreateInv ==
    ASSUME TypeOK, ConvergenceInv, NEW name, At(name), UNCHANGED StepVars,
           NEW o \in Watched \ (Repaired \cup {"psvc", "cplugin"}),
           CreateIfAbsent(o, Fixed), ~disabled,
           \A x \in Objects \ {o} : Wanted(x) => StepOf(x) # step
    PROVE  ConvergenceInv'
<1>1. o \in Objects /\ Fixed \in Content /\ Fixed # Absent
  BY NewTypes, NewIsThere, TypeParts DEF Watched
<1>2. (\E w \in Content \ {Absent} : Writes(o, w)) \/ Idles
  BY <1>1, CreateWrites DEF ConvergenceInv
<1>3. /\ GoodIfPassed(o)'
      /\ \A x \in Objects \ {o} : api'[x] = api[x] /\ pending'[x] = pending[x]
      /\ Proceed \/ Fail
  BY CreateIsGood DEF ConvergenceInv
<1> QED
  BY <1>1, <1>2, <1>3, StepInv

\* Each step of the installation is about one object.
LEMMA InstallObjects ==
    ASSUME ~disabled, NEW x \in Objects, Wanted(x), StepOf(x) = step
    PROVE  /\ step = 3 => x = "ns"
           /\ step # 4
           /\ step = 5 => x = "argocd"
           /\ step = 6 => x = "sa"
           /\ step = 7 => x = "role"
           /\ step = 8 => x = "binding"
           /\ step = 9 => x = "deploy"
           /\ step = 10 => x = "svc"
           /\ step # 1 /\ step # 2
BY DEF StepOf, Wanted, Backend, Plugin

\* Each step of the plugin is about one object, and about none of the removal.
LEMMA PluginObjects ==
    /\ \A x \in Objects : Wanted(x) /\ StepOf(x) = step =>
          /\ step # Base + 1
          /\ step = Base + 2 => x = "psvc"
          /\ step = Base + 3 => x = "pcm"
          /\ step = Base + 4 => x = "pdep"
          /\ step = Base + 5 => x = "cplugin"
    /\ disabled /\ step \in {Base + 1, Base + 2, Base + 3, Base + 4, Base + 5}
          => \A x \in Backend \cup {"argocd"} : StepOf(x) # step
<1>1. CASE disabled
  BY <1>1 DEF StepOf, Wanted, Backend, Plugin, Base
<1>2. CASE ~disabled
  BY <1>2 DEF StepOf, Wanted, Backend, Plugin, Base
<1> QED
  BY <1>1, <1>2

LEMMA RemovalObjects ==
    ASSUME disabled, step \in 1..8
    PROVE  \A x \in Objects : Wanted(x) => StepOf(x) # step
BY DEF StepOf, Wanted, Plugin

\* The objects by kind.
LEMMA Kinds ==
    /\ "ns" \in Watched \ Unversioned /\ "argocd" \in Watched \ Unversioned
    /\ "role" \in Watched \ Unversioned /\ "deploy" \in Watched \ Unversioned
    /\ "pcm" \in Watched \ Unversioned /\ "pdep" \in Watched \ Unversioned
    /\ "sa" \in Watched \ (Repaired \cup {"psvc", "cplugin"})
    /\ "binding" \in Watched \ (Repaired \cup {"psvc", "cplugin"})
    /\ "svc" \in Watched \ (Repaired \cup {"psvc", "cplugin"})
BY DEF Watched, Unversioned, Repaired, Objects, Backend, Plugin, Legacy

LEMMA DesiredValues ==
    /\ Desired("ns") = NewRestrictedNamespace /\ Desired("argocd") = NewArgoCD
    /\ Desired("deploy") = NewBackendDeployment /\ Desired("pcm") = PluginConfigMap
    /\ Desired("pdep") = PluginDeployment /\ Desired("role") = Fixed
    /\ Desired("psvc") = Fixed /\ Desired("cplugin") = Fixed
BY DEF Desired

LEMMA InstallInv ==
    ASSUME TypeOK, ConvergenceInv,
           \/ ReconcileNamespace \/ EnsureArgoCDNamespace
           \/ ReconcileDefaultArgoCD \/ BackendStep
    PROVE  ConvergenceInv'
<1> USE Kinds, DesiredValues, NewTypes, TypeParts
<1>1. CASE ReconcileNamespace
  <2>1. ~disabled /\ \A x \in Objects \ {"ns"} : Wanted(x) => StepOf(x) # step
    BY <1>1, InstallSteps, InstallObjects DEF ReconcileNamespace
  <2> QED
    BY <1>1, <2>1, UpdateInv DEF ReconcileNamespace
<1>2. CASE EnsureArgoCDNamespace
  <2>1. ~disabled /\ \A x \in Objects \ {"ns"} : Wanted(x) => StepOf(x) # step
    BY <1>2, InstallSteps, InstallObjects DEF EnsureArgoCDNamespace
  <2> QED
    BY <1>2, <2>1, UpdateInv DEF EnsureArgoCDNamespace
<1>3. CASE ReconcileDefaultArgoCD
  <2>1. ~disabled /\ \A x \in Objects \ {"argocd"} : Wanted(x) => StepOf(x) # step
    BY <1>3, InstallSteps, InstallObjects DEF ReconcileDefaultArgoCD
  <2> QED
    BY <1>3, <2>1, UpdateInv DEF ReconcileDefaultArgoCD
<1>4. CASE ReconcileServiceAccount
  <2>1. ~disabled /\ \A x \in Objects \ {"sa"} : Wanted(x) => StepOf(x) # step
    BY <1>4, InstallSteps, InstallObjects DEF ReconcileServiceAccount
  <2> QED
    BY <1>4, <2>1, CreateInv DEF ReconcileServiceAccount
<1>5. CASE ReconcileClusterRole
  <2>1. ~disabled /\ \A x \in Objects \ {"role"} : Wanted(x) => StepOf(x) # step
    BY <1>5, InstallSteps, InstallObjects DEF ReconcileClusterRole
  <2> QED
    BY <1>5, <2>1, UpdateInv DEF ReconcileClusterRole
<1>6. CASE ReconcileClusterRoleBinding
  <2>1. ~disabled /\ \A x \in Objects \ {"binding"} : Wanted(x) => StepOf(x) # step
    BY <1>6, InstallSteps, InstallObjects DEF ReconcileClusterRoleBinding
  <2> QED
    BY <1>6, <2>1, CreateInv DEF ReconcileClusterRoleBinding
<1>7. CASE ReconcileBackendDeployment
  <2>1. ~disabled /\ \A x \in Objects \ {"deploy"} : Wanted(x) => StepOf(x) # step
    BY <1>7, InstallSteps, InstallObjects DEF ReconcileBackendDeployment
  <2> QED
    BY <1>7, <2>1, UpdateInv DEF ReconcileBackendDeployment
<1>8. CASE ReconcileBackendService
  <2>1. ~disabled /\ \A x \in Objects \ {"svc"} : Wanted(x) => StepOf(x) # step
    BY <1>8, InstallSteps, InstallObjects DEF ReconcileBackendService
  <2> QED
    BY <1>8, <2>1, CreateInv DEF ReconcileBackendService
<1> QED
  BY <1>1, <1>2, <1>3, <1>4, <1>5, <1>6, <1>7, <1>8 DEF BackendStep

LEMMA PluginInv ==
    ASSUME TypeOK, ConvergenceInv, PluginStep
    PROVE  ConvergenceInv'
<1> USE Kinds, DesiredValues, NewTypes, TypeParts
<1> DEFINE Alone(o) ==
      /\ \A x \in Objects \ {o} : Wanted(x) => StepOf(x) # step
      /\ disabled => /\ o \notin Backend \cup {"argocd"}
                     /\ \A x \in Backend \cup {"argocd"} : StepOf(x) # step
<1>0. \A o \in Plugin \cup {"ns", "pns"} : o \notin Backend \cup {"argocd"}
  BY DEF Plugin, Backend
<1>1. CASE EnsurePluginNamespace
  <2>1. step = Base + 1 /\ At("pluginNS") /\ PluginNS \in {"ns", "pns"}
    BY <1>1, PluginSteps DEF EnsurePluginNamespace, PluginNS
  <2>2. Alone(PluginNS)
    BY <1>0, <2>1, PluginObjects
  <2>3. PluginNS \in Objects
    BY <2>1 DEF Objects
  <2>4. CASE Keep
    <3>1. GoodIfPassed(PluginNS)'
      <4>1. Wanted(PluginNS) /\ Passed(PluginNS)' => Passed(PluginNS)
        <5>1. Wanted(PluginNS) => StepOf(PluginNS) # step
          BY <2>1, <2>3, PluginObjects
        <5> QED
          BY <1>1, <2>1, <2>3, <5>1, PassedBefore DEF EnsurePluginNamespace, StepVars
      <4> QED
        BY <1>1, <2>3, <2>4, <4>1, GoodFrame
           DEF EnsurePluginNamespace, StepVars, Keep, ConvergenceInv
    <3>2. Idles
      BY <1>1, <2>4 DEF EnsurePluginNamespace, StepVars, Idles
    <3> QED
      BY <1>1, <2>1, <2>2, <2>3, <2>4, <3>1, <3>2, StepInv
         DEF EnsurePluginNamespace, Keep
  <2>5. CASE Put(PluginNS, Drifted) /\ api[PluginNS] = Absent
    <3>1. Writes(PluginNS, Drifted)
      <4>1. NamespaceOf(PluginNS) = {}
        BY <2>1 DEF NamespaceOf, Legacy
      <4> QED
        BY <1>1, <2>3, <2>5, <4>1, NewIsThere DEF Writes, EnsurePluginNamespace, StepVars
    <3>2. GoodIfPassed(PluginNS)'
      <4>1. CASE PluginNS = "ns"
        <5>1. Notices(PluginNS, api[PluginNS], Drifted)
          BY <2>5, <4>1 DEF Notices
        <5>2. pending'[PluginNS] = "loud"
          BY <2>3, <2>5, <5>1, PutNews, NewIsThere
        <5> QED
          BY <5>2 DEF GoodIfPassed
      <4>2. CASE PluginNS = "pns"
        BY <4>2 DEF GoodIfPassed, Wanted, Backend, Plugin
      <4> QED
        BY <2>1, <4>1, <4>2
    <3>3. \A x \in Objects \ {PluginNS} : api'[x] = api[x] /\ pending'[x] = pending[x]
      BY <2>3, <2>5, PutNews
    <3> QED
      BY <1>1, <2>1, <2>2, <2>3, <3>1, <3>2, <3>3, StepInv DEF EnsurePluginNamespace
  <2> QED
    BY <1>1, <2>4, <2>5 DEF EnsurePluginNamespace
<1>2. CASE ReconcileService
  <2>1. Alone("psvc")
    BY <1>0, <1>2, PluginSteps, PluginObjects DEF ReconcileService, Plugin
  <2> QED
    BY <1>2, <2>1, UpdateInv DEF ReconcileService
<1>3. CASE ReconcileConfigMap
  <2>1. Alone("pcm")
    BY <1>0, <1>3, PluginSteps, PluginObjects DEF ReconcileConfigMap, Plugin
  <2> QED
    BY <1>3, <2>1, UpdateInv DEF ReconcileConfigMap
<1>4. CASE ReconcileDeployment
  <2>1. Alone("pdep")
    BY <1>0, <1>4, PluginSteps, PluginObjects DEF ReconcileDeployment, Plugin
  <2> QED
    BY <1>4, <2>1, UpdateInv DEF ReconcileDeployment
<1>5. CASE ReconcileConsolePlugin
  <2>1. Alone("cplugin")
    BY <1>0, <1>5, PluginSteps, PluginObjects DEF ReconcileConsolePlugin, Plugin
  <2> QED
    BY <1>5, <2>1, UpdateInv DEF ReconcileConsolePlugin
<1> QED
  BY <1>1, <1>2, <1>3, <1>4, <1>5 DEF PluginStep

\* The leftovers of older versions are nobody's business.
LEMMA CleanInv ==
    ASSUME TypeOK, ConvergenceInv, NEW o \in Legacy, At(o),
           Put(o, Absent) \/ Keep, Proceed, UNCHANGED StepVars
    PROVE  ConvergenceInv'
<1>1. o \in Objects /\ o \notin {"ns", "pns", "psvc", "cplugin", "argocd"} \cup Backend
  BY DEF Objects, Legacy, Backend
<1>2. step \in {1, 2}
  BY CleanSteps DEF Legacy
<1>3. /\ \A x \in Objects : Wanted(x) => StepOf(x) # step
      /\ \A x \in Backend \cup {"argocd"} : StepOf(x) # step
  BY <1>2 DEF StepOf, Wanted, Backend, Plugin
<1>4. GoodIfPassed(o)'
  BY <1>1 DEF GoodIfPassed, Wanted, Plugin, Legacy
<1>5. \A x \in Objects \ {o} : api'[x] = api[x] /\ pending'[x] = pending[x]
  BY <1>1, PutNews, TypeParts DEF Keep
<1>6. Writes(o, Absent) \/ Idles
  BY <1>1, NewTypes, TypeParts DEF Writes, Idles, StepVars
<1> QED
  BY <1>1, <1>3, <1>4, <1>5, <1>6, StepInv

LEMMA BeginInv ==
    ASSUME TypeOK, ConvergenceInv, Begin
    PROVE  ConvergenceInv'
<1>1. CacheInv' /\ NamespaceInv' /\ FixedInv'
  BY IdlesObjects DEF ConvergenceInv, Begin, Idles, Keep
<1>2. InstInv'
  BY DEF Begin, ConvergenceInv, InstInv
<1>3. \A o \in Objects : Wanted(o) \/ o \in Backend \cup {"argocd"} => ~Passed(o)'
  BY DEF Begin, Passed, StepOf, Wanted, Backend, Plugin
<1>4. PassedIsGood'
  BY <1>3 DEF PassedIsGood, GoodIfPassed, Wanted, Begin
<1>5. PassedIsGone'
  BY <1>3 DEF PassedIsGone, ConvergenceInv, Begin, Objects
<1> QED
  BY <1>1, <1>2, <1>4, <1>5 DEF ConvergenceInv

LEMMA EnsureNoArgoCDInv ==
    ASSUME TypeOK, ConvergenceInv, EnsureNoArgoCD
    PROVE  ConvergenceInv'
<1>1. disabled /\ step = 3 /\ At("noArgocd") /\ (Proceed \/ Fail)
  BY RemoveSteps DEF EnsureNoArgoCD
<1>2. CacheInv' /\ NamespaceInv' /\ FixedInv'
  BY IdlesObjects DEF ConvergenceInv, EnsureNoArgoCD, Idles, Keep
<1>3. InstInv'
  BY <1>1, InstFrame, ProceedQueue DEF ConvergenceInv, EnsureNoArgoCD
<1>4. PassedIsGood'
  BY <1>1, RemovalObjects, PassedOtherStep DEF ConvergenceInv, EnsureNoArgoCD
<1>5. PassedIsGone'
  <2>1. \A o \in Backend : Passed(o)' => Passed(o)
    <3>1. \A o \in Backend : StepOf(o) # step /\ o \in Objects
      BY <1>1 DEF StepOf, Backend, Objects
    <3> QED
      BY <1>1, <3>1, PassedBefore DEF EnsureNoArgoCD
  <2>2. Passed("argocd")' => api'["argocd"] = Absent \/ terminating'
    BY <1>1 DEF EnsureNoArgoCD, Passed, Fail, ConvergenceInv, PassedIsGone
  <2> QED
    BY <1>1, <2>1, <2>2 DEF ConvergenceInv, PassedIsGone, EnsureNoArgoCD
<1> QED
  BY <1>2, <1>3, <1>4, <1>5 DEF ConvergenceInv

LEMMA RemoveInv ==
    ASSUME TypeOK, ConvergenceInv, NEW ob \in Backend, Remove(ob)
    PROVE  ConvergenceInv'
<1>1. ob \in Objects /\ ob \notin {"ns", "pns", "psvc", "cplugin", "argocd"} \cup Plugin
  BY DEF Objects, Backend, Plugin
<1>2. disabled /\ step \in 4..8 /\ StepOf(ob) = step /\ At(RemoveName[ob])
  BY RemoveSteps DEF Remove, RemoveName, Backend, StepOf
<1>3. /\ Proceed /\ UNCHANGED StepVars /\ Put(ob, Absent) /\ api'[ob] = Absent
      /\ \A x \in Objects \ {ob} : api'[x] = api[x] /\ pending'[x] = pending[x]
  BY <1>1, PutNews, TypeParts DEF Remove
<1>4. CacheInv' /\ NamespaceInv' /\ FixedInv'
  <2>1. Writes(ob, Absent)
    BY <1>1, <1>3, NewTypes, TypeParts DEF Writes, StepVars
  <2> QED
    BY <1>1, <2>1, WritesObjects DEF ConvergenceInv
<1>5. InstInv'
  BY <1>3, InstFrame, ProceedQueue DEF ConvergenceInv, StepVars
<1>6. PassedIsGood'
  <2>1. \A x \in Objects : Wanted(x) => x # ob
    BY <1>1, <1>2 DEF Wanted
  <2> QED
    BY <1>2, <1>3, <2>1, RemovalObjects, PassedOtherStep DEF ConvergenceInv, StepVars
<1>7. PassedIsGone'
  <2>1. \A x \in (Backend \cup {"argocd"}) \ {ob} :
           StepOf(x) # step /\ x \in Objects
    BY <1>2 DEF StepOf, Backend, Objects
  <2>2. \A x \in (Backend \cup {"argocd"}) \ {ob} : Passed(x)' => Passed(x)
    BY <1>2, <1>3, <2>1, PassedBefore DEF StepVars
  <2> QED
    BY <1>1, <1>2, <1>3, <2>1, <2>2 DEF ConvergenceInv, PassedIsGone, StepVars
<1> QED
  BY <1>4, <1>5, <1>6, <1>7 DEF ConvergenceInv

LEMMA ReconcileInv ==
    TypeOK /\ ConvergenceInv /\ ReconcileStep => ConvergenceInv'
<1> SUFFICES ASSUME TypeOK, ConvergenceInv, ReconcileStep PROVE ConvergenceInv'
  OBVIOUS
<1>1. CASE CleanKAMResources
  <2>1. Put("kam", Absent) \/ Keep
    BY <1>1 DEF CleanKAMResources
  <2> QED
    BY <1>1, <2>1, CleanInv DEF CleanKAMResources, Legacy
<1>2. CASE CleanupOldPluginResources
  <2>1. Put("oldPlugin", Absent) \/ Keep
    BY <1>2 DEF CleanupOldPluginResources
  <2> QED
    BY <1>2, <2>1, CleanInv DEF CleanupOldPluginResources, Legacy
<1> QED
  BY <1>1, <1>2, BeginInv, InstallInv, EnsureNoArgoCDInv, PluginInv, RemoveInv
     DEF ReconcileStep

-----------------------------------------------------------------------------
(* The steps of others *)

\* The objects stay as they are and the worker where it is.
LEMMA QuietInv ==
    ASSUME TypeOK, ConvergenceInv,
           UNCHANGED <<api, cached, pending, terminating, inst, tls, disabled, step,
                       unread>>,
           ~queued' => ~queued, InstInv'
    PROVE  ConvergenceInv'
<1>1. CacheInv' /\ NamespaceInv' /\ FixedInv'
  BY IdlesObjects DEF ConvergenceInv, Idles, Keep
<1>2. \A o \in Objects : Passed(o)' => Passed(o)
  BY PassedStill
<1>3. PassedIsGood'
  BY <1>2, GoodFrame DEF ConvergenceInv, PassedIsGood
<1>4. PassedIsGone'
  BY <1>2, GoneFrame DEF ConvergenceInv, Objects
<1> QED
  BY <1>1, <1>3, <1>4 DEF ConvergenceInv

LEMMA SpecInv ==
    ASSUME TypeOK, ConvergenceInv, SyncSpec \/ EditSpec
    PROVE  ConvergenceInv'
<1>1. spec \in Nat /\ cachedSpec \in Nat /\ cachedSpec <= spec
  BY TypeParts DEF SpecTypes, Version, ConvergenceInv, InstInv
<1>2. CASE SyncSpec
  <2>1. InstInv'
    BY <1>1, <1>2 DEF SyncSpec, InstInv
  <2> QED
    BY <1>2, <2>1, QuietInv DEF SyncSpec
<1>3. CASE EditSpec
  <2>1. InstInv'
    BY <1>1, <1>3 DEF EditSpec, InstInv
  <2> QED
    BY <1>3, <2>1, QuietInv DEF EditSpec
<1> QED
  BY <1>2, <1>3

\* A failed call ends the reconciliation, unless it was about leftovers.
LEMMA FaultInv ==
    ASSUME TypeOK, ConvergenceInv, Fault
    PROVE  ConvergenceInv'
<1>1. CacheInv' /\ NamespaceInv' /\ FixedInv'
  BY IdlesObjects DEF ConvergenceInv, Fault, Idles, Keep
<1>2. InstInv'
  BY InstFrame, ProceedQueue DEF ConvergenceInv, Fault, GiveUpPlugin
<1>3. \A o \in Objects : Wanted(o) \/ (disabled /\ o \in Backend \cup {"argocd"})
        => (Passed(o)' => Passed(o))
  <2>3. CASE GiveUpPlugin
    <3>1. step = Base + 1
      BY <2>3, PluginSteps DEF GiveUpPlugin
    <3>2. \A o \in Objects \ Plugin :
             Wanted(o) \/ (disabled /\ o \in Backend \cup {"argocd"})
               => step > StepOf(o)
      BY <3>1 DEF StepOf, Wanted, Backend, Plugin, Base
    <3>3. unread' = TRUE /\ (~queued' => ~queued) /\ step' = 0 /\ disabled' = disabled
      BY <2>3 DEF GiveUpPlugin, Fault
    <3>4. \A o \in Objects : Passed(o)' => ~queued /\ (o \notin Plugin \/ 0 > StepOf(o)')
      BY <3>3 DEF Passed
    <3>5. \A o \in Plugin : ~(0 > StepOf(o)')
      BY DEF StepOf, Plugin
    <3> QED
      BY <3>2, <3>4, <3>5 DEF Passed
  <2>1. CASE (\E n \in Legacy : At(n)) /\ ~GiveUpPlugin
    <3>1. PICK n \in Legacy : At(n)
      BY <2>1
    <3>2. step \in {1, 2}
      BY <3>1, CleanSteps DEF Legacy
    <3>3. \A o \in Objects : Wanted(o) \/ (disabled /\ o \in Backend \cup {"argocd"})
            => StepOf(o) # step
      BY <3>2 DEF StepOf, Wanted, Backend, Plugin
    <3> QED
      BY <2>1, <3>1, <3>3, PassedBefore DEF Fault
  <2>2. CASE ~(\E n \in Legacy : At(n)) /\ ~GiveUpPlugin
    BY <2>2 DEF Fault, Fail, Passed
  <2> QED
    BY <2>1, <2>2, <2>3
<1>4. PassedIsGood'
  BY <1>3, GoodFrame DEF ConvergenceInv, PassedIsGood, Fault
<1>5. PassedIsGone'
  BY <1>3, GoneFrame DEF ConvergenceInv, Fault, Objects
<1> QED
  BY <1>1, <1>2, <1>4, <1>5 DEF ConvergenceInv

LEMMA InstanceGoneInv ==
    ASSUME TypeOK, ConvergenceInv, InstanceGone
    PROVE  ConvergenceInv'
<1>1. /\ "argocd" \in Objects /\ ObjectTypes /\ Put("argocd", Absent)
      /\ UNCHANGED <<spec, cachedSpec, cached, queued, step, inst, unread, tls, disabled>>
  BY TypeParts DEF Objects, InstanceGone
<1>2. /\ api'["argocd"] = Absent
      /\ \A x \in Objects \ {"argocd"} : api'[x] = api[x] /\ pending'[x] = pending[x]
      /\ api["argocd"] = Absent => pending'["argocd"] = pending["argocd"]
      /\ api["argocd"] # Absent => pending'["argocd"] = "loud"
  <2>1. Notices("argocd", api["argocd"], Absent)
    BY Kinds DEF Notices
  <2> QED
    BY <1>1, <2>1, PutNews
<1>3. CacheInv' /\ NamespaceInv' /\ FixedInv'
  <2>1. Writes("argocd", Absent)
    BY <1>1, NewTypes, TypeParts DEF Writes
  <2> QED
    BY <2>1, WritesObjects DEF ConvergenceInv
<1>4. InstInv'
  BY <1>1, InstFrame DEF ConvergenceInv
<1>5. \A o \in Objects : Passed(o)' => Passed(o)
  BY <1>1, PassedStill
<1>6. PassedIsGood'
  <2>1. \A o \in Objects \ {"argocd"} : GoodIfPassed(o)'
    BY <1>1, <1>2, <1>5, GoodFrame DEF ConvergenceInv
  <2>2. GoodIfPassed("argocd")'
    <3>1. CASE api["argocd"] = Absent
      BY <1>1, <1>2, <1>5, <3>1, GoodFrame DEF ConvergenceInv
    <3>2. CASE api["argocd"] # Absent
      BY <1>2, <3>2 DEF GoodIfPassed
    <3> QED
      BY <3>1, <3>2
  <2> QED
    BY <2>1, <2>2 DEF PassedIsGood
<1>7. PassedIsGone'
  <2>1. \A o \in Backend : o \in Objects \ {"argocd"}
    BY DEF Backend, Objects
  <2> QED
    BY <1>1, <1>2, <1>5, <2>1 DEF ConvergenceInv, PassedIsGone
<1> QED
  BY <1>3, <1>4, <1>6, <1>7 DEF ConvergenceInv

LEMMA SyncInv ==
    ASSUME TypeOK, ConvergenceInv, NEW ob \in Objects, Sync(ob)
    PROVE  ConvergenceInv'
<1>1. /\ ObjectTypes /\ cached' = [cached EXCEPT ![ob] = api[ob]]
      /\ pending' = [pending EXCEPT ![ob] = "none"]
      /\ queued' = (queued \/ pending[ob] = "loud")
      /\ UNCHANGED <<spec, cachedSpec, api, terminating, step, inst, unread, tls, disabled>>
  BY TypeParts DEF Sync
<1>2. CacheInv'
  <2> SUFFICES ASSUME NEW o \in Objects
               PROVE  /\ pending'[o] = "none" => cached'[o] = api'[o]
                      /\ o \in Watched /\ pending'[o] # "loud"
                           => /\ api'[o] = Absent <=> cached'[o] = Absent
                              /\ o \notin Unversioned => cached'[o] = api'[o]
    BY DEF CacheInv
  <2>1. CASE o = ob
    <3>1. cached'[o] = api'[o]
      BY <1>1, <2>1 DEF ObjectTypes
    <3> QED
      BY <3>1
  <2>2. CASE o # ob
    <3>1. cached'[o] = cached[o] /\ pending'[o] = pending[o] /\ api'[o] = api[o]
      BY <1>1, <2>2 DEF ObjectTypes
    <3> QED
      BY <3>1 DEF ConvergenceInv, CacheInv
  <2> QED
    BY <2>1, <2>2
<1>3. NamespaceInv' /\ FixedInv'
  <2>1. \A o \in Objects : cached'[o] \in {cached[o], api[o]}
    BY <1>1 DEF ObjectTypes
  <2>2. "psvc" \in Objects /\ "cplugin" \in Objects
    BY DEF Objects, Plugin
  <2> QED
    BY <1>1, <2>1, <2>2 DEF ConvergenceInv, NamespaceInv, FixedInv
<1>4. ~queued' => ~queued
  BY <1>1
<1>5. InstInv'
  BY <1>1, <1>4, InstFrame DEF ConvergenceInv
<1>6. \A o \in Objects : Passed(o)' => Passed(o)
  BY <1>1, <1>4, PassedStill
<1>7. PassedIsGood'
  <2> SUFFICES ASSUME NEW o \in Objects PROVE GoodIfPassed(o)'
    BY DEF PassedIsGood
  <2>1. CASE o # ob
    <3>1. pending'[o] = pending[o] /\ api'[o] = api[o]
      BY <1>1, <2>1 DEF ObjectTypes
    <3> QED
      BY <1>1, <1>6, <3>1, GoodFrame DEF ConvergenceInv
  <2>2. CASE o = ob /\ pending[o] = "loud"
    BY <1>1, <2>2 DEF GoodIfPassed, Passed
  <2>3. CASE o = ob /\ pending[o] # "loud"
    <3>1. Wanted(o)' = Wanted(o) /\ Desired(o)' = Desired(o)
      BY <1>1, DesiredStays DEF Wanted
    <3> QED
      BY <1>1, <1>6, <2>3, <3>1 DEF ConvergenceInv, PassedIsGood, GoodIfPassed, Good
  <2> QED
    BY <2>1, <2>2, <2>3
<1>8. PassedIsGone'
  <2>1. \A o \in Objects : cached'[o] \in {cached[o], api[o]}
    BY <1>1 DEF ObjectTypes
  <2>2. "argocd" \in Objects /\ "ns" \in Objects /\ Backend \subseteq Objects
    BY DEF Objects
  <2>3. api["argocd"] # Absent => api["ns"] # Absent
    BY <2>2 DEF ConvergenceInv, NamespaceInv, NamespaceOf
  <2> QED
    BY <1>1, <1>6, <2>1, <2>2, <2>3 DEF ConvergenceInv, PassedIsGone
<1> QED
  BY <1>2, <1>3, <1>5, <1>7, <1>8 DEF ConvergenceInv

LEMMA TamperInv ==
    ASSUME TypeOK, ConvergenceInv, NoticeableOnly, NEW ob \in Tamperable,
           NEW v \in {Absent, Drifted}, Tamper(ob, v)
    PROVE  ConvergenceInv'
<1> DEFINE Hit(x) == x = ob \/ (v = Absent /\ ob \in NamespaceOf(x))
           new == [x \in Objects |-> IF Hit(x) THEN v ELSE api[x]]
<1>1. /\ ObjectTypes /\ ob \in Objects /\ ob \notin {"psvc", "cplugin"}
      /\ api[ob] # Absent /\ Store(new)
      /\ terminating' = (terminating /\ api'["argocd"] # Absent)
      /\ UNCHANGED <<spec, cachedSpec, cached, queued, step, inst, unread, tls, disabled>>
  BY ConstantAssumption, TypeParts DEF NoticeableOnly, Tamper
<1>2. new \in [Objects -> Content]
  BY <1>1, NewTypes, TypeParts DEF ObjectTypes
<1>3. \A x \in Objects : /\ api'[x] = IF Hit(x) THEN v ELSE api[x]
                         /\ api'[x] = api[x] => pending'[x] = pending[x]
                         /\ api'[x] # api[x] /\ Notices(x, api[x], api'[x])
                              => pending'[x] = "loud"
  BY <1>1 DEF Store
<1>4. \A x \in Objects : api[x] = Absent => api'[x] = Absent
  BY <1>1, <1>3
<1>5. CacheInv'
  BY <1>1, <1>2, WritesCache DEF ConvergenceInv
<1>6. NamespaceInv'
  <2> SUFFICES ASSUME NEW x \in Objects, api'[x] # Absent, NEW n \in NamespaceOf(x)
               PROVE  api'[n] # Absent
    BY DEF NamespaceInv
  <2>1. n \in Objects /\ api[n] # Absent
    BY <1>4 DEF ConvergenceInv, NamespaceInv, NamespaceOf, PluginNS, Objects
  <2>2. NamespaceOf(n) = {}
    BY DEF NamespaceOf, PluginNS, Legacy
  <2>3. CASE v = Absent
    BY <1>3, <2>1, <2>2, <2>3
  <2>4. CASE v # Absent
    BY <1>3, <2>1, <2>4
  <2> QED
    BY <2>3, <2>4
<1>7. FixedInv'
  <2>1. api'["psvc"] \in {api["psvc"], Absent} /\ "psvc" \in Objects
    BY <1>1, <1>3 DEF Objects, Plugin
  <2>2. NamespaceOf("cplugin") = {}
    BY DEF NamespaceOf, Legacy
  <2>3. api'["cplugin"] = api["cplugin"]
    BY <1>1, <1>3, <2>2 DEF Objects, Plugin
  <2> QED
    BY <1>1, <2>1, <2>3 DEF ConvergenceInv, FixedInv
<1>8. InstInv'
  BY <1>1, InstFrame DEF ConvergenceInv
<1>9. \A o \in Objects : Passed(o)' => Passed(o)
  BY <1>1, PassedStill
<1>10. PassedIsGood'
  <2> SUFFICES ASSUME NEW o \in Objects, Wanted(o) PROVE GoodIfPassed(o)'
    BY <1>1 DEF PassedIsGood, GoodIfPassed, Wanted
  <2>1. CASE api'[o] = api[o]
    BY <1>1, <1>3, <1>9, <2>1, GoodFrame DEF ConvergenceInv
  <2>2. CASE api'[o] # api[o] /\ pending'[o] = "loud"
    BY <2>2 DEF GoodIfPassed
  <2>3. CASE api'[o] # api[o] /\ pending'[o] # "loud"
    <3>1. o \in Watched
      <4>1. o # "cplugin"
        BY <1>1, <1>3, <2>3 DEF NamespaceOf, Legacy
      <4> QED
        BY <4>1 DEF Wanted, Watched, Objects, Backend, Plugin, Legacy
    <3>2. o \in Unversioned /\ api'[o] # Absent
      BY <1>3, <2>3, <3>1 DEF Notices
    <3>3. o # "psvc"
      BY <1>1, <1>3, <2>3, <3>2
    <3>4. o = "svc"
      BY <3>2, <3>3 DEF Unversioned
    <3> QED
      BY <3>2, <3>4 DEF GoodIfPassed, Good, Repaired
  <2> QED
    BY <2>1, <2>2, <2>3
<1>11. PassedIsGone'
  <2>1. "argocd" \in Objects /\ Backend \subseteq Objects
    BY DEF Objects
  <2>2. api'["argocd"] # Absent => (terminating' <=> terminating)
    BY <1>1
  <2> QED
    BY <1>1, <1>4, <1>9, <2>1, <2>2 DEF ConvergenceInv, PassedIsGone
<1> QED
  BY <1>5, <1>6, <1>7, <1>8, <1>10, <1>11 DEF ConvergenceInv

LEMMA RestartInv ==
    ASSUME TypeOK, ConvergenceInv, NEW d \in Settings, Restart(d)
    PROVE  ConvergenceInv'
<1>1. /\ queued' /\ api' = api /\ cached' = api /\ spec' = spec /\ cachedSpec' = spec
      /\ pending' = [o \in Objects |-> "none"]
  BY DEF Restart
<1>2. CacheInv' /\ NamespaceInv'
  BY <1>1 DEF CacheInv, ConvergenceInv, NamespaceInv
<1>3. FixedInv'
  BY <1>1 DEF ConvergenceInv, FixedInv
<1>4. InstInv'
  BY <1>1, TypeParts DEF InstInv, SpecTypes, Version
<1>5. PassedIsGood'
  BY <1>1 DEF PassedIsGood, GoodIfPassed, Passed
<1>6. PassedIsGone'
  <2>1. api["argocd"] # Absent => api["ns"] # Absent
    BY DEF ConvergenceInv, NamespaceInv, NamespaceOf, Objects
  <2> QED
    BY <1>1, <2>1 DEF PassedIsGone, Passed
<1> QED
  BY <1>2, <1>3, <1>4, <1>5, <1>6 DEF ConvergenceInv

LEMMA OtherInv ==
    ASSUME TypeOK, ConvergenceInv, NoticeableOnly, OtherStep
    PROVE  ConvergenceInv'
BY SpecInv, FaultInv, InstanceGoneInv, SyncInv, TamperInv, RestartInv DEF OtherStep

-----------------------------------------------------------------------------

LEMMA ConvergenceInit == Init => ConvergenceInv
<1> SUFFICES ASSUME Init PROVE ConvergenceInv
  OBVIOUS
<1>1. cached = api /\ queued /\ pending = [o \in Objects |-> "none"]
  BY DEF Init
<1>2. PICK left \in SUBSET Leftovers :
         api = [o \in Objects |-> IF o \in left \/ (o = "ns" /\ left # {})
                                    THEN <<0, 0>> ELSE Absent]
  BY DEF Init
<1>3. left \subseteq Legacy
  BY ConstantAssumption
<1>4. CacheInv
  BY <1>1 DEF CacheInv
<1>5. NamespaceInv
  <2> SUFFICES ASSUME NEW o \in Objects, api[o] # Absent, NEW n \in NamespaceOf(o)
               PROVE  api[n] # Absent
    BY DEF NamespaceInv
  <2>1. o \in left /\ n = "ns"
    BY <1>2, <1>3 DEF NamespaceOf, Legacy
  <2> QED
    BY <1>2, <2>1, PairsAreThere DEF Objects
<1>6. FixedInv
  BY <1>1, <1>2, <1>3 DEF FixedInv, Objects, Plugin, Legacy
<1>7. InstInv
  BY DEF Init, InstInv
<1>8. PassedIsGood
  BY <1>1 DEF PassedIsGood, GoodIfPassed, Passed
<1>9. PassedIsGone
  BY <1>1, <1>2, <1>3 DEF PassedIsGone, Passed, Objects, Legacy
<1> QED
  BY <1>4, <1>5, <1>6, <1>7, <1>8, <1>9 DEF ConvergenceInv

LEMMA Convergence == TypeOK /\ ConvergenceInv => SettledIsConverged
<1> SUFFICES ASSUME TypeOK, ConvergenceInv, Settled
             PROVE  /\ inst = spec
                    /\ IF disabled
                         THEN \A o \in {"argocd"} \cup Backend : api[o] = Absent
                         ELSE \A o \in {"ns", "argocd"} \cup Backend : Good(o)
                    /\ PluginSupported /\ ~unread
                         => api[PluginNS] # Absent /\ \A o \in Plugin : Good(o)
  BY DEF SettledIsConverged
<1>1. \A o \in Objects : (unread => o \notin Plugin) => Passed(o) /\ pending[o] # "loud"
  BY DEF Settled, Passed
<1>2. \A o \in Objects : Wanted(o) /\ (unread => o \notin Plugin) => Good(o)
  BY <1>1 DEF ConvergenceInv, PassedIsGood, GoodIfPassed
<1>3. inst = spec
  BY DEF ConvergenceInv, InstInv, Settled
<1>4. {"ns", "argocd"} \cup Backend \cup Plugin \subseteq Objects
  BY DEF Objects
<1>5. ASSUME disabled PROVE \A o \in {"argocd"} \cup Backend : api[o] = Absent
  BY <1>1, <1>4, <1>5 DEF ConvergenceInv, PassedIsGone, Settled, Backend, Plugin
<1>6. ASSUME ~disabled PROVE \A o \in {"ns", "argocd"} \cup Backend : Good(o)
  BY <1>2, <1>4, <1>6 DEF Wanted, Backend, Plugin
<1>7. ASSUME PluginSupported, ~unread
      PROVE  api[PluginNS] # Absent /\ \A o \in Plugin : Good(o)
  <2>1. \A o \in Plugin : Good(o)
    BY <1>2, <1>4, <1>7 DEF Wanted
  <2>2. NamespaceOf("psvc") = {PluginNS} /\ "psvc" \in Plugin /\ "psvc" \in Objects
    BY DEF NamespaceOf, Plugin, Objects, Legacy
  <2>3. api["psvc"] # Absent
    BY <2>1, <2>2 DEF Good
  <2>4. api[PluginNS] # Absent
    BY <2>2, <2>3 DEF ConvergenceInv, NamespaceInv
  <2> QED
    BY <2>1, <2>4
<1> QED
  BY <1>3, <1>5, <1>6, <1>7

\* When the GitopsService controller is at rest the cluster is what the
\* GitopsService resource and the operator's environment ask for, with any
\* number of edits, API errors, restarts in either setting, and any deletions
\* and changes by others of objects whose changes can be noticed: none of the
\* stale reads, early returns and events dropped by the predicates loses work.  Only the
\* plugin is excepted, while the version of the cluster could not be read.
THEOREM ConvergesAtRest == NoticeableOnly /\ Spec => []SettledIsConverged
<1> SUFFICES ASSUME NoticeableOnly PROVE Spec => []SettledIsConverged
  OBVIOUS
<1>1. TypeOK /\ ConvergenceInv /\ [Next]_vars => ConvergenceInv'
  <2>1. CASE UNCHANGED vars
    <3>1. TypeOK /\ ConvergenceInv /\ UNCHANGED vars => InstInv'
      BY DEF ConvergenceInv, InstInv, vars
    <3> QED
      BY <2>1, <3>1, QuietInv DEF vars
  <2> QED
    BY <2>1, ReconcileInv, OtherInv, NextParts
<1> QED
  BY TypeCorrect, ConvergenceInit, Convergence, <1>1, PTL DEF Spec
=============================================================================
