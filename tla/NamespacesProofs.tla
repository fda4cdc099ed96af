-------------------------- MODULE NamespacesProofs --------------------------
(***************************************************************************)
(* What is proved of the rights in a namespace, for every set of instances *)
(* and scenarios, and for any number of edits, faults and notices.         *)
(***************************************************************************)
EXTENDS Namespaces, TLAPS, SequenceTheorems

USE NamespacesAssumption

-----------------------------------------------------------------------------
(* Types *)

Notices == [old : Labels, new : Labels]

\* The handler as a record, idle or not.
HandlerOK == handler \in [stage : {"idle", "roles", "bindings", "secret", "enqueue"},
                          old : Labels \cup {None}, new : Labels \cup {None}]
Typed == TypeOK /\ HandlerOK

LEMMA KeyIsInstance == ASSUME NEW i \in Instances PROVE Key(i) \in Instances
BY DEF Key

\* The parts of the type invariant, by who changes them.
UserTypes ==
    /\ cluster \subseteq Instances /\ sameName \in BOOLEAN
    /\ life \in [Instances -> {"up", "deleting", "gone"}]
    /\ lists \in [Instances -> {"no", "glob", "regex"}]
    /\ edits \in 0..MaxEdits /\ faults \in 0..MaxFaults
WatchTypes ==
    /\ label \in Labels /\ cached \in Labels /\ behind \in BOOLEAN
    /\ notices \in Seq(Notices)
    /\ HandlerOK
    /\ handler.stage # "idle" => handler.old \in Labels /\ handler.new \in Labels
RightsTypes ==
    /\ role \in [Instances -> BOOLEAN] /\ binding \in [Instances -> Owners]
    /\ sourceRole \in [Instances -> BOOLEAN] /\ sourceBinding \in [Instances -> Owners]
SeenTypes ==
    /\ cachedRole \in [Instances -> BOOLEAN] /\ cachedBinding \in [Instances -> Owners]
    /\ cachedSourceRole \in [Instances -> BOOLEAN]
    /\ cachedSourceBinding \in [Instances -> Owners]
SecretTypes ==
    listed \subseteq Instances /\ cachedListed \subseteq Instances /\ changed \subseteq Instances
WorkTypes ==
    /\ queue \subseteq Instances
    /\ pass = None \/ pass \in Passes
    /\ held \in BOOLEAN
GapTypes == missed \in BOOLEAN /\ unwritten \in BOOLEAN /\ outdated \subseteq Instances

LEMMA TypedParts ==
    Typed <=> /\ UserTypes /\ WatchTypes /\ RightsTypes /\ SeenTypes /\ SecretTypes
              /\ WorkTypes /\ GapTypes
BY DEF Typed, TypeOK, UserTypes, WatchTypes, RightsTypes, SeenTypes, SecretTypes, WorkTypes,
       GapTypes, HandlerOK, Notices

LEMMA TypedInit == Init => Typed
<1> SUFFICES ASSUME Init PROVE Typed
  OBVIOUS
<1>1. PICK s \in Scenarios :
          /\ cluster = s.cluster /\ sameName = s.sameName
          /\ edits = s.edits /\ faults = s.faults
          /\ lists = [i \in Instances |-> IF i \in s.claims THEN "glob" ELSE "no"]
          /\ label = [manager |-> s.manager, source |-> None, appset |-> None]
  BY DEF Init
<1>a. s \in [cluster : SUBSET Instances, claims : SUBSET Instances, sameName : BOOLEAN,
             manager : Instances \cup {None}, edits : 0..MaxEdits, faults : 0..MaxFaults]
  OBVIOUS
<1>2. UserTypes
  <2>2. /\ cluster \subseteq Instances /\ sameName \in BOOLEAN
        /\ edits \in 0..MaxEdits /\ faults \in 0..MaxFaults
    BY <1>1, <1>a
  <2>3. lists \in [Instances -> {"no", "glob", "regex"}]
    BY <1>1
  <2>4. life \in [Instances -> {"up", "deleting", "gone"}]
    BY DEF Init
  <2> QED
    BY <2>2, <2>3, <2>4 DEF UserTypes
<1>3. WatchTypes
  <2>1. label \in Labels /\ cached \in Labels /\ behind \in BOOLEAN
    BY <1>1, <1>a DEF Init, Labels, Owners
  <2>2. notices \in Seq(Notices)
    BY DEF Init
  <2>3. HandlerOK /\ handler.stage = "idle"
    BY DEF Init, Idle, HandlerOK
  <2> QED
    BY <2>1, <2>2, <2>3 DEF WatchTypes
<1>4. RightsTypes
  BY DEF Init, RightsTypes, Owners
<1>5. SeenTypes
  BY <1>4 DEF Init, RightsTypes, SeenTypes
<1>6. SecretTypes /\ WorkTypes /\ GapTypes
  BY DEF Init, SecretTypes, WorkTypes, GapTypes
<1> QED
  BY <1>2, <1>3, <1>4, <1>5, <1>6, TypedParts

LEMMA UserTypesStep == ASSUME UserTypes, [Next]_vars PROVE UserTypes'
<1>1. CASE \E i \in Owners : SetManager(i) \/ SetAppset(i)
  BY <1>1 DEF SetManager, SetAppset, Edit, installation, UserTypes
<1>2. CASE \E i \in Instances : Delete(i)
  BY <1>2 DEF Delete, Edit, installation, UserTypes
<1>3. CASE \E i \in Instances, how \in {"no", "glob", "regex"} : EditSources(i, how)
  BY <1>3 DEF EditSources, Edit, installation, UserTypes
<1>4. CASE PurgeFails \/ CleanUpFails \/ PassFails \/ Restart
  BY <1>4 DEF PurgeFails, CleanUpFails, PassFails, Restart, Fault, users, installation, UserTypes
<1>5. CASE Finalizer
  BY <1>5 DEF Finalizer, installation, UserTypes
<1>6. ASSUME UNCHANGED <<users, faults>> PROVE UserTypes'
  BY <1>6 DEF users, installation, UserTypes
<1>7. CASE CacheUpdate \/ HandlerStep \/ ShowRoles \/ ShowBindings \/ ShowSecrets
  BY <1>6, <1>7 DEF CacheUpdate, HandlerStep, Take, PurgeRoles, PurgeBindings, PurgeSecret,
                    Enqueue, ShowRoles, ShowBindings, ShowSecrets, users, installation
<1>8. CASE PassStep /\ ~Finalizer
  BY <1>6, <1>8 DEF PassStep, Restore, Snapshot, Allowed, Roles, SourceRole, SetSource, Sweep,
                    Unlabel, Unrole, Unbind, Bindings, SourceBinding, SecretRead, SecretWrite,
                    ClusterResources, ManagerLabel, FinalSweep
<1>9. CASE (\E i \in Instances : Begin(i)) \/ UNCHANGED vars
  BY <1>6, <1>9 DEF Begin, vars, users, installation
<1> QED
  BY <1>1, <1>2, <1>3, <1>4, <1>5, <1>7, <1>8, <1>9 DEF Next

\* What writes the namespace leaves labels.
LEMMA WriteTyped ==
    ASSUME WatchTypes, NEW l \in Labels, WriteLabel(l)
    PROVE  label' \in Labels /\ behind' \in BOOLEAN
BY DEF WatchTypes, WriteLabel

LEMMA MarkTyped ==
    ASSUME WatchTypes, NEW i \in Owners
    PROVE  /\ [label EXCEPT !.source = i] \in Labels /\ [label EXCEPT !.manager = i] \in Labels
           /\ [label EXCEPT !.appset = i] \in Labels
BY DEF WatchTypes, Labels

LEMMA WatchTypesAgain ==
    ASSUME WatchTypes, label' \in Labels, behind' \in BOOLEAN, UNCHANGED watch
    PROVE  WatchTypes'
BY DEF WatchTypes, watch, HandlerOK

LEMMA WatchTypesStep == ASSUME WatchTypes, WorkTypes, [Next]_vars PROVE WatchTypes'
<1> USE DEF Owners
<1>1. ASSUME UNCHANGED <<stored, watch>> PROVE WatchTypes'
  BY <1>1 DEF WatchTypes, stored, watch, HandlerOK
<1>2. CASE \E i \in Owners : SetManager(i) \/ SetAppset(i)
  BY <1>2, MarkTyped, WatchTypesAgain DEF SetManager, SetAppset, watch
<1>3. CASE CacheUpdate
  <2>1. [old |-> cached, new |-> label] \in Notices
    BY DEF WatchTypes, Notices
  <2>2. notices' \in Seq(Notices)
    BY <1>3, <2>1 DEF CacheUpdate, WatchTypes
  <2>3. UNCHANGED <<label, handler>> /\ cached' = label /\ behind' = FALSE
    BY <1>3 DEF CacheUpdate
  <2> QED
    BY <2>2, <2>3 DEF WatchTypes, HandlerOK
<1>4. CASE Take
  <2>1. Head(notices) \in Notices /\ Tail(notices) \in Seq(Notices)
    BY <1>4 DEF Take, WatchTypes
  <2>2. Head(notices).old \in Labels /\ Head(notices).new \in Labels
    BY <2>1 DEF Notices
  <2>3. HandlerOK' /\ handler'.old \in Labels /\ handler'.new \in Labels
    BY <1>4, <2>2 DEF Take, HandlerOK
  <2>4. UNCHANGED <<label, cached, behind>> /\ notices' = Tail(notices)
    BY <1>4 DEF Take, stored
  <2> QED
    BY <2>1, <2>3, <2>4 DEF WatchTypes
<1>5. CASE PurgeRoles \/ PurgeBindings \/ PurgeSecret \/ PurgeFails
  <2>1. UNCHANGED <<label, cached, behind, notices>> /\ handler.stage # "idle"
    BY <1>5 DEF PurgeRoles, PurgeBindings, PurgeSecret, PurgeFails, stored
  <2>2. PICK s \in {"roles", "bindings", "secret", "enqueue"} :
            handler' = [handler EXCEPT !.stage = s]
    BY <1>5 DEF PurgeRoles, PurgeBindings, PurgeSecret, PurgeFails
  <2>3. HandlerOK' /\ handler'.old \in Labels /\ handler'.new \in Labels
    BY <2>1, <2>2 DEF WatchTypes, HandlerOK
  <2> QED
    BY <2>1, <2>3 DEF WatchTypes
<1>6. CASE Enqueue
  <2>1. UNCHANGED <<label, cached, behind, notices>> /\ handler' = Idle
    BY <1>6 DEF Enqueue, stored
  <2>2. HandlerOK' /\ handler'.stage = "idle"
    BY <2>1 DEF HandlerOK, Idle
  <2> QED
    BY <2>1, <2>2 DEF WatchTypes
<1>7. CASE Restart
  <2>1. label' = label /\ cached' = label /\ behind' = FALSE /\ notices' = <<>> /\ handler' = Idle
    BY <1>7 DEF Restart
  <2>2. HandlerOK' /\ handler'.stage = "idle"
    BY <2>1 DEF HandlerOK, Idle
  <2>3. notices' \in Seq(Notices)
    BY <2>1
  <2> QED
    BY <2>1, <2>2, <2>3 DEF WatchTypes
<1>8. CASE Restore \/ SetSource \/ Unlabel \/ ManagerLabel
  <2>1. Me \in Instances
    BY <1>8 DEF Restore, SetSource, Unlabel, ManagerLabel, At, Me, WorkTypes, Passes
  <2>2. UNCHANGED watch
    BY <1>8 DEF Restore, SetSource, Unlabel, ManagerLabel, watch
  <2>3. label' \in Labels /\ behind' \in BOOLEAN
    BY <1>8, <2>1, WriteTyped, MarkTyped
       DEF Restore, SetSource, Unlabel, ManagerLabel, stored, WatchTypes
  <2> QED
    BY <2>2, <2>3, WatchTypesAgain
<1>9. CASE PassStep /\ ~(Restore \/ SetSource \/ Unlabel \/ ManagerLabel)
  BY <1>1, <1>9 DEF PassStep, Snapshot, Allowed, Roles, SourceRole, Sweep, Unrole, Unbind,
                    Bindings, SourceBinding, SecretRead, SecretWrite, ClusterResources,
                    FinalSweep, Finalizer
<1>10. CASE \/ \E i \in Instances : Delete(i) \/ Begin(i)
            \/ \E i \in Instances, how \in {"no", "glob", "regex"} : EditSources(i, how)
            \/ ShowRoles \/ ShowBindings \/ ShowSecrets
            \/ CleanUpFails \/ PassFails \/ UNCHANGED vars
  BY <1>1, <1>10 DEF Delete, Begin, EditSources, ShowRoles, ShowBindings, ShowSecrets,
                     CleanUpFails, PassFails, vars, watch, stored
<1> QED
  BY <1>2, <1>3, <1>4, <1>5, <1>6, <1>7, <1>8, <1>9, <1>10 DEF Next, HandlerStep

LEMMA RightsTypesStep == ASSUME RightsTypes, WorkTypes, [Next]_vars PROVE RightsTypes'
<1>1. ASSUME UNCHANGED rights PROVE RightsTypes'
  BY <1>1 DEF RightsTypes, rights
<1>2. CASE PurgeRoles \/ PurgeBindings
  BY <1>2 DEF PurgeRoles, PurgeBindings, RightsTypes, Owners
<1>3. CASE Roles \/ SourceRole \/ Unrole \/ Unbind \/ Bindings \/ SourceBinding \/ ClusterResources
  <2>1. Me \in Instances
    BY <1>3 DEF Roles, SourceRole, Unrole, Unbind, Bindings, SourceBinding, ClusterResources, At,
                Me, WorkTypes, Passes
  <2>2. Key(Me) \in Instances
    BY <2>1, KeyIsInstance
  <2>3. CASE Roles
    BY <2>2, <2>3 DEF Roles, RightsTypes
  <2>4. CASE SourceRole
    BY <2>2, <2>4 DEF SourceRole, RightsTypes
  <2>5. CASE Unrole \/ Unbind
    BY <2>2, <2>5 DEF Unrole, Unbind, RightsTypes, Owners
  <2>6. CASE Bindings
    BY <2>1, <2>2, <2>6 DEF Bindings, RightsTypes, Owners
  <2>7. CASE SourceBinding
    BY <2>1, <2>2, <2>7 DEF SourceBinding, RightsTypes, Owners
  <2>8. CASE ClusterResources
    BY <2>1, <2>2, <2>8 DEF ClusterResources, RightsTypes, Owners
  <2> QED
    BY <1>3, <2>3, <2>4, <2>5, <2>6, <2>7, <2>8
<1>4. CASE PassStep /\ ~(Roles \/ SourceRole \/ Unrole \/ Unbind \/ Bindings \/ SourceBinding
                           \/ ClusterResources)
  BY <1>1, <1>4 DEF PassStep, Restore, Snapshot, Allowed, SetSource, Sweep, Unlabel, SecretRead,
                    SecretWrite, ManagerLabel, FinalSweep, Finalizer, objects
<1>5. CASE \/ \E i \in Owners : SetManager(i) \/ SetAppset(i)
           \/ \E i \in Instances : Delete(i) \/ Begin(i)
           \/ \E i \in Instances, how \in {"no", "glob", "regex"} : EditSources(i, how)
           \/ CacheUpdate \/ Take \/ PurgeSecret \/ Enqueue
           \/ ShowRoles \/ ShowBindings \/ ShowSecrets
           \/ PurgeFails \/ CleanUpFails \/ PassFails \/ Restart \/ UNCHANGED vars
  BY <1>1, <1>5 DEF SetManager, SetAppset, Delete, Begin, EditSources, CacheUpdate, Take,
                    PurgeSecret, Enqueue, ShowRoles, ShowBindings, ShowSecrets, PurgeFails,
                    CleanUpFails, PassFails, Restart, vars, objects
<1> QED
  BY <1>2, <1>3, <1>4, <1>5 DEF Next, HandlerStep

\* No step of a pass moves a cache of objects, and none but a few the others.
LEMMA PassLeaves ==
    ASSUME PassStep \/ CleanUpFails \/ PassFails
    PROVE  UNCHANGED <<seen, cachedListed, watch>>
BY DEF PassStep, CleanUpFails, PassFails, Restore, Snapshot, Allowed, Roles, SourceRole, SetSource,
       Sweep, Unlabel, Unrole, Unbind, Bindings, SourceBinding, SecretRead, SecretWrite,
       ClusterResources, ManagerLabel, FinalSweep, Finalizer, objects, secrets

LEMMA SeenTypesStep == ASSUME RightsTypes, SeenTypes, [Next]_vars PROVE SeenTypes'
<1>1. ASSUME UNCHANGED seen PROVE SeenTypes'
  BY <1>1 DEF SeenTypes, seen
<1>2. CASE ShowRoles \/ ShowBindings \/ Restart
  BY <1>2 DEF ShowRoles, ShowBindings, Restart, RightsTypes, SeenTypes
<1>3. CASE PassStep \/ CleanUpFails \/ PassFails
  BY <1>1, <1>3, PassLeaves
<1>4. CASE \/ \E i \in Owners : SetManager(i) \/ SetAppset(i)
           \/ \E i \in Instances : Delete(i) \/ Begin(i)
           \/ \E i \in Instances, how \in {"no", "glob", "regex"} : EditSources(i, how)
           \/ CacheUpdate \/ HandlerStep \/ ShowSecrets \/ PurgeFails \/ UNCHANGED vars
  BY <1>1, <1>4 DEF SetManager, SetAppset, Delete, Begin, EditSources, CacheUpdate, HandlerStep,
                    Take, PurgeRoles, PurgeBindings, PurgeSecret, Enqueue, ShowSecrets, PurgeFails,
                    vars, objects
<1> QED
  BY <1>2, <1>3, <1>4 DEF Next

LEMMA SecretTypesStep == ASSUME SecretTypes, WorkTypes, [Next]_vars PROVE SecretTypes'
<1>1. ASSUME UNCHANGED secrets PROVE SecretTypes'
  BY <1>1 DEF SecretTypes, secrets
<1>2. CASE PurgeSecret \/ ShowSecrets \/ Restart
  BY <1>2 DEF PurgeSecret, ShowSecrets, Restart, SecretTypes
<1>3. CASE SecretWrite \/ Finalizer
  BY <1>3 DEF SecretWrite, Finalizer, At, Me, WorkTypes, Passes, SecretTypes
<1>4. CASE PassStep /\ ~(SecretWrite \/ Finalizer)
  BY <1>1, <1>4 DEF PassStep, Restore, Snapshot, Allowed, Roles, SourceRole, SetSource, Sweep,
                    Unlabel, Unrole, Unbind, Bindings, SourceBinding, SecretRead,
                    ClusterResources, ManagerLabel, FinalSweep, objects
<1>5. CASE \/ \E i \in Owners : SetManager(i) \/ SetAppset(i)
           \/ \E i \in Instances : Delete(i) \/ Begin(i)
           \/ \E i \in Instances, how \in {"no", "glob", "regex"} : EditSources(i, how)
           \/ CacheUpdate \/ Take \/ PurgeRoles \/ PurgeBindings \/ Enqueue
           \/ ShowRoles \/ ShowBindings
           \/ PurgeFails \/ CleanUpFails \/ PassFails \/ UNCHANGED vars
  BY <1>1, <1>5 DEF SetManager, SetAppset, Delete, Begin, EditSources, CacheUpdate, Take,
                    PurgeRoles, PurgeBindings, Enqueue, ShowRoles, ShowBindings, PurgeFails,
                    CleanUpFails, PassFails, vars, objects
<1> QED
  BY <1>2, <1>3, <1>4, <1>5 DEF Next, HandlerStep

\* A pass goes on, or ends; it is never mistaken for none.
LEMMA GoesOn ==
    ASSUME WorkTypes, pass # None, NEW s \in Stages, pass' = [pass EXCEPT !.stage = s]
    PROVE  /\ pass \in Passes /\ pass' \in Passes /\ pass' # None /\ Me' = Me
           /\ pass'.stage = s /\ pass'.manages = pass.manages /\ pass'.writes = pass.writes
           /\ pass'.after = pass.after /\ pass'.lists = pass.lists
<1>1. pass \in Passes
  BY DEF WorkTypes
<1>2. pass' \in Passes
  BY <1>1 DEF Passes
<1> QED
  BY <1>1, <1>2, NoneAssumption DEF Passes, Me

LEMMA CleansUp ==
    ASSUME WorkTypes, pass # None, NEW s \in Stages, CleanUp(s)
    PROVE  /\ pass \in Passes /\ pass' \in Passes /\ pass' # None /\ Me' = Me
           /\ pass'.stage = "unlabel" /\ pass'.manages = pass.manages
           /\ pass'.writes = pass.writes /\ pass'.after = s
<1>1. pass \in Passes
  BY DEF WorkTypes
<1>2. pass' \in Passes
  BY <1>1 DEF Passes, CleanUp, Stages
<1> QED
  BY <1>1, <1>2, NoneAssumption DEF Passes, Me, CleanUp

LEMMA TakesNote ==
    ASSUME WorkTypes, pass # None, Snapshot \/ SecretRead
    PROVE  /\ pass \in Passes /\ pass' \in Passes /\ pass' # None /\ Me' = Me
           /\ pass'.after = pass.after /\ pass'.lists = pass.lists
           /\ Snapshot => /\ pass'.stage = "allowed" /\ pass'.writes = pass.writes
                          /\ pass'.manages = (cached.manager = Me)
           /\ SecretRead => /\ pass'.stage = "secretWrite" /\ pass'.manages = pass.manages
                            /\ pass'.writes = (Me \notin cluster /\ cached.manager = Me)
<1>1. pass \in Passes
  BY DEF WorkTypes
<1> DEFINE mine == cached.manager = Me
           outside == Me \notin cluster /\ cached.manager = Me
<1>2. ASSUME Snapshot PROVE pass' = [pass EXCEPT !.manages = mine, !.stage = "allowed"]
  BY <1>2 DEF Snapshot
<1>3. ASSUME SecretRead PROVE pass' = [pass EXCEPT !.writes = outside, !.stage = "secretWrite"]
  BY <1>3 DEF SecretRead
<1>4. mine \in BOOLEAN /\ outside \in BOOLEAN
  OBVIOUS
<1> HIDE DEF mine, outside
<1>5. CASE Snapshot
  <2>1. pass' \in Passes
    BY <1>1, <1>2, <1>4, <1>5 DEF Passes, Stages
  <2>2. /\ Me' = Me /\ pass'.after = pass.after /\ pass'.stage = "allowed"
        /\ pass'.writes = pass.writes /\ pass'.manages = mine /\ pass'.lists = pass.lists
    BY <1>1, <1>2, <1>5 DEF Passes, Me
  <2>3. ~SecretRead
    BY <1>5 DEF Snapshot, SecretRead, At
  <2> QED
    BY <1>1, <2>1, <2>2, <2>3, NoneAssumption DEF mine
<1>6. CASE SecretRead
  <2>1. pass' \in Passes
    BY <1>1, <1>3, <1>4, <1>6 DEF Passes, Stages
  <2>2. /\ Me' = Me /\ pass'.after = pass.after /\ pass'.stage = "secretWrite"
        /\ pass'.manages = pass.manages /\ pass'.writes = outside /\ pass'.lists = pass.lists
    BY <1>1, <1>3, <1>6 DEF Passes, Me
  <2>3. ~Snapshot
    BY <1>6 DEF Snapshot, SecretRead, At
  <2> QED
    BY <1>1, <2>1, <2>2, <2>3, NoneAssumption DEF outside
<1> QED
  BY <1>5, <1>6

LEMMA Begins ==
    ASSUME WorkTypes, NEW i \in Instances, Begin(i), pass' # None
    PROVE  /\ Me' = i /\ pass'.manages = FALSE /\ pass'.writes = FALSE /\ pass'.after = "sweep"
           /\ life[i] = "up" => pass'.stage = "restore"
           /\ life[i] # "up" => pass'.stage = "clusterResources"
           /\ pass = None /\ i \in queue /\ queue' = queue \ {i}
           /\ pass'.lists = (lists[i] # "no")
BY DEF Begin, Me

LEMMA BeginsUp ==
    ASSUME NEW i \in Instances, Begin(i), life[i] = "up"
    PROVE  pass' # None
<1> DEFINE claims == lists[i] # "no"
           fresh  == [instance |-> i, lists |-> claims, manages |-> FALSE, writes |-> FALSE,
                      after |-> "sweep", stage |-> "restore"]
<1>1. pass' = fresh
  BY DEF Begin
<1>2. claims \in BOOLEAN
  OBVIOUS
<1> HIDE DEF claims
<1>3. fresh \in Passes
  BY <1>2 DEF Passes, Stages
<1> QED
  BY <1>1, <1>3, NoneAssumption

\* Where the steps of a pass lead: to its end, or on.
LEMMA Onward ==
    ASSUME PassStep \/ CleanUpFails \/ PassFails
    PROVE  \/ pass' = None
           \/ Snapshot \/ SecretRead
           \/ \E s \in Stages : CleanUp(s) \/ Goto(s)
           \/ Goto(pass.after)
<1>1. CASE Restore \/ Allowed \/ Roles \/ SourceRole \/ SetSource \/ Sweep
  BY <1>1 DEF Restore, Allowed, Roles, SourceRole, SetSource, Sweep, Abort, Stages
<1>2. CASE Unlabel \/ Unrole \/ Unbind \/ Bindings \/ SourceBinding \/ CleanUpFails
  BY <1>2 DEF Unlabel, Unrole, Unbind, Bindings, SourceBinding, CleanUpFails, Abort, Stages
<1>3. CASE SecretWrite \/ Finalizer \/ PassFails
  BY <1>3 DEF SecretWrite, Finalizer, PassFails, Done, Abort
<1>4. CASE ClusterResources \/ ManagerLabel \/ FinalSweep
  BY <1>4 DEF ClusterResources, ManagerLabel, FinalSweep, Stages
<1> QED
  BY <1>1, <1>2, <1>3, <1>4 DEF PassStep

LEMMA WorkTypesStep == ASSUME UserTypes, WatchTypes, SecretTypes, WorkTypes, [Next]_vars
                       PROVE  WorkTypes'
<1> USE DEF Alive
<1>1. ASSUME UNCHANGED <<queue, pass, held>> PROVE WorkTypes'
  BY <1>1 DEF WorkTypes
<1>2. CASE \/ \E i \in Instances : Delete(i)
           \/ \E i \in Instances, how \in {"no", "glob", "regex"} : EditSources(i, how)
           \/ ShowSecrets
  BY <1>2 DEF Delete, EditSources, ShowSecrets, WorkTypes
<1>3. CASE Enqueue
  <2>1. Mapped(handler.new) \subseteq Instances
    BY DEF Mapped
  <2> QED
    BY <1>3, <2>1 DEF Enqueue, WorkTypes
<1>4. CASE Restart
  BY <1>4 DEF Restart, WorkTypes
<1>5. CASE \E i \in Instances : Begin(i)
  BY <1>5 DEF Begin, WorkTypes, Passes, Stages
<1>6. CASE PassStep \/ CleanUpFails \/ PassFails
  <2>1. pass # None /\ pass \in Passes /\ Me \in Instances
    BY <1>6 DEF PassStep, CleanUpFails, PassFails, WorkTypes, Passes, Restore, Snapshot, Allowed,
                Roles, SourceRole, SetSource, Sweep, Unlabel, Unrole, Unbind, Bindings,
                SourceBinding, SecretRead, SecretWrite, ClusterResources, ManagerLabel,
                FinalSweep, Finalizer, At, Me
  <2>2. pass.after \in Stages
    BY <2>1 DEF Passes
  <2>3. pass' = None \/ pass' \in Passes
    BY <1>6, <2>1, <2>2, Onward, GoesOn, CleansUp, TakesNote DEF Goto
  <2>4. queue' \subseteq Instances
    BY <1>6, <2>1 DEF PassStep, Restore, Snapshot, Allowed, Roles, SourceRole, SetSource, Sweep,
                    Unlabel, Unrole, Unbind, Bindings, SourceBinding, SecretRead, SecretWrite,
                    ClusterResources, ManagerLabel, FinalSweep, Finalizer, CleanUpFails,
                    PassFails, Done, Abort, WorkTypes, Namesakes
  <2>5. held' \in BOOLEAN
    BY <1>6 DEF PassStep, Restore, Snapshot, Allowed, Roles, SourceRole, SetSource, Sweep,
                    Unlabel, Unrole, Unbind, Bindings, SourceBinding, SecretRead, SecretWrite,
                    ClusterResources, ManagerLabel, FinalSweep, Finalizer, CleanUpFails,
                    PassFails, WorkTypes
  <2> QED
    BY <2>3, <2>4, <2>5 DEF WorkTypes
<1>7. CASE \/ \E i \in Owners : SetManager(i) \/ SetAppset(i)
           \/ CacheUpdate \/ Take \/ PurgeRoles \/ PurgeBindings \/ PurgeSecret \/ PurgeFails
           \/ ShowRoles \/ ShowBindings \/ UNCHANGED vars
  BY <1>1, <1>7 DEF SetManager, SetAppset, CacheUpdate, Take, PurgeRoles, PurgeBindings,
                    PurgeSecret, PurgeFails, ShowRoles, ShowBindings, vars
<1> QED
  BY <1>2, <1>3, <1>4, <1>5, <1>6, <1>7 DEF Next, HandlerStep

LEMMA GapTypesStep == ASSUME WorkTypes, GapTypes, [Next]_vars PROVE GapTypes'
<1>1. ASSUME UNCHANGED gaps PROVE GapTypes'
  BY <1>1 DEF GapTypes, gaps
<1>2. CASE \/ PurgeFails \/ CleanUpFails \/ Restart
           \/ \E i \in Instances : Begin(i)
  BY <1>2 DEF PurgeFails, CleanUpFails, Restart, Begin, GapTypes
<1>3. CASE Roles \/ SourceRole \/ Bindings \/ SourceBinding \/ SecretWrite
  <2>1. Me \in Instances
    BY <1>3 DEF Roles, SourceRole, Bindings, SourceBinding, SecretWrite, At, Me, WorkTypes, Passes
  <2> QED
    BY <1>3, <2>1 DEF Roles, SourceRole, Bindings, SourceBinding, SecretWrite, GapTypes
<1>4. CASE PassStep /\ ~(Roles \/ SourceRole \/ Bindings \/ SourceBinding \/ SecretWrite)
  BY <1>1, <1>4 DEF PassStep, Restore, Snapshot, Allowed, SetSource, Sweep, Unlabel, Unrole,
                    Unbind, SecretRead, ClusterResources, ManagerLabel, FinalSweep, Finalizer
<1>5. CASE \/ \E i \in Owners : SetManager(i) \/ SetAppset(i)
           \/ \E i \in Instances : Delete(i)
           \/ \E i \in Instances, how \in {"no", "glob", "regex"} : EditSources(i, how)
           \/ CacheUpdate \/ HandlerStep \/ ShowRoles \/ ShowBindings \/ ShowSecrets
           \/ PassFails \/ UNCHANGED vars
  BY <1>1, <1>5 DEF SetManager, SetAppset, Delete, EditSources, CacheUpdate, HandlerStep, Take,
                    PurgeRoles, PurgeBindings, PurgeSecret, Enqueue, ShowRoles, ShowBindings,
                    ShowSecrets, PassFails, vars
<1> QED
  BY <1>2, <1>3, <1>4, <1>5 DEF Next

LEMMA TypedStep == Typed /\ [Next]_vars => Typed'
<1> SUFFICES ASSUME Typed, [Next]_vars PROVE Typed'
  OBVIOUS
<1>1. /\ UserTypes' /\ WatchTypes' /\ RightsTypes' /\ SeenTypes' /\ SecretTypes' /\ WorkTypes'
      /\ GapTypes'
  BY TypedParts, UserTypesStep, WatchTypesStep, RightsTypesStep, SeenTypesStep, SecretTypesStep,
     WorkTypesStep, GapTypesStep
<1> QED
  BY <1>1 DEF Typed, TypeOK, UserTypes, WatchTypes, RightsTypes, SeenTypes, SecretTypes, WorkTypes,
              GapTypes, HandlerOK, Notices

\* Labels, notices, rights, caches, queue and pass stay within their types, for any
\* number of notices that wait for the predicate; in particular the mapper queues
\* instances only, never the name an empty label would stand for.
THEOREM TypeCorrect == Spec => []TypeOK
<1>1. Spec => []Typed
  BY TypedInit, TypedStep, PTL DEF Spec
<1>2. Typed => TypeOK
  BY DEF Typed
<1> QED
  BY <1>1, <1>2, PTL

-----------------------------------------------------------------------------
(* No rights are left to an instance that lost the namespace *)

LEMMA InstallationStays == ASSUME [Next]_vars PROVE UNCHANGED installation
BY DEF Next, vars, SetManager, SetAppset, Delete, EditSources, Begin, CacheUpdate, HandlerStep,
       Take, PurgeRoles, PurgeBindings, PurgeSecret, Enqueue, ShowRoles, ShowBindings,
       ShowSecrets, PassStep, Restore, Snapshot, Allowed, Roles, SourceRole, SetSource, Sweep,
       Unlabel, Unrole, Unbind, Bindings, SourceBinding, SecretRead, SecretWrite,
       ClusterResources, ManagerLabel, FinalSweep, Finalizer, PurgeFails, CleanUpFails,
       PassFails, Restart, users

\* A cache that is not behind is right.
CacheKnows == ~behind => cached = label

LEMMA WriteBehind == ASSUME CacheKnows, NEW l, WriteLabel(l), cached' = cached PROVE CacheKnows'
BY DEF CacheKnows, WriteLabel

LEMMA CacheKnowsStep == ASSUME WatchTypes, CacheKnows, [Next]_vars PROVE CacheKnows'
<1>1. CASE \E i \in Owners : SetManager(i) \/ SetAppset(i)
  BY <1>1 DEF SetManager, SetAppset, CacheKnows
<1>2. CASE CacheUpdate \/ Restart
  BY <1>2 DEF CacheUpdate, Restart, CacheKnows
<1>3. ASSUME UNCHANGED <<stored, cached>> PROVE CacheKnows'
  BY <1>3 DEF CacheKnows, stored
<1>4. CASE Restore \/ SetSource \/ Unlabel \/ ManagerLabel
  <2>1. cached' = cached
    BY <1>4 DEF Restore, SetSource, Unlabel, ManagerLabel, watch
  <2>2. UNCHANGED stored \/ \E l \in {[label EXCEPT !.source = Me], [label EXCEPT !.source = None],
                                      [label EXCEPT !.manager = None]} : WriteLabel(l)
    BY <1>4 DEF Restore, SetSource, Unlabel, ManagerLabel, stored
  <2> QED
    BY <1>3, <2>1, <2>2, WriteBehind
<1>5. CASE PassStep /\ ~(Restore \/ SetSource \/ Unlabel \/ ManagerLabel)
  BY <1>3, <1>5 DEF PassStep, Snapshot, Allowed, Roles, SourceRole, Sweep, Unrole, Unbind,
                    Bindings, SourceBinding, SecretRead, SecretWrite, ClusterResources,
                    FinalSweep, Finalizer, watch
<1>6. CASE HandlerStep \/ PurgeFails \/ CleanUpFails \/ PassFails \/ UNCHANGED vars
  BY <1>3, <1>6 DEF HandlerStep, Take, PurgeRoles, PurgeBindings, PurgeSecret, Enqueue,
                    PurgeFails, CleanUpFails, PassFails, vars, watch, stored
<1>7. CASE \/ \E i \in Instances : Delete(i) \/ Begin(i)
           \/ \E i \in Instances, how \in {"no", "glob", "regex"} : EditSources(i, how)
           \/ ShowRoles \/ ShowBindings \/ ShowSecrets
  BY <1>3, <1>7 DEF Delete, Begin, EditSources, ShowRoles, ShowBindings, ShowSecrets, watch, stored
<1> QED
  BY <1>1, <1>2, <1>4, <1>5, <1>6, <1>7 DEF Next

\* Whoever has rights manages the namespace as the cache has it, or a purge is ahead:
\* the predicate has yet to see the notice of the loss, or is about to delete them.
RolesDue     == \/ Ahead({"roles"}, Owners)
                \/ \A k \in Instances : role[k] =>
                       \E i \in Instances : Key(i) = k /\ cached.manager = i
BindingsDue  == \/ Ahead({"roles", "bindings"}, Owners)
                \/ \A k \in Instances : binding[k] # None =>
                       \E i \in Instances : Key(i) = k /\ cached.manager = i
ListingsDue  == \A i \in listed :
                    cached.manager = i \/ Ahead({"roles", "bindings", "secret"}, {i})
RightsDue    == RolesDue /\ BindingsDue /\ ListingsDue
RightsInv    == CacheKnows /\ (~missed => RightsDue)

LEMMA RightsInit == Init => RightsInv
BY DEF Init, RightsInv, CacheKnows, RightsDue, RolesDue, BindingsDue, ListingsDue

\* What the informer and the predicate do to a purge that is ahead.
LEMMA AheadNotice ==
    ASSUME WatchTypes, NEW stages, NEW whose, CacheUpdate,
           \/ Ahead(stages, whose)
           \/ cached.manager \in whose \ {None} /\ label.manager # cached.manager
    PROVE  Ahead(stages, whose)'
<1> DEFINE n == [old |-> cached, new |-> label]
<1>1. /\ n \in Notices /\ notices \in Seq(Notices)
      /\ notices' = Append(notices, n) /\ UNCHANGED handler
  BY DEF CacheUpdate, WatchTypes, Notices
<1>2. /\ DOMAIN notices' = 1..(Len(notices) + 1) /\ DOMAIN notices = 1..Len(notices)
      /\ notices'[Len(notices) + 1] = n
      /\ \A k \in DOMAIN notices : notices'[k] = notices[k]
      /\ Len(notices) \in Nat
  BY <1>1
<1>3. CASE cached.manager \in whose \ {None} /\ label.manager # cached.manager
  <2>1. Purges(n) /\ n.old.manager \in whose
    BY <1>3 DEF Purges
  <2>2. Len(notices) + 1 \in DOMAIN notices'
    BY <1>2
  <2> QED
    BY <1>2, <2>1, <2>2 DEF Ahead, Purges
<1>4. CASE \E k \in DOMAIN notices : Purges(notices[k]) /\ notices[k].old.manager \in whose
  <2>1. PICK k \in DOMAIN notices : Purges(notices[k]) /\ notices[k].old.manager \in whose
    BY <1>4
  <2>2. k \in DOMAIN notices' /\ notices'[k] = notices[k]
    BY <1>2
  <2> QED
    BY <2>1, <2>2 DEF Ahead, Purges
<1>5. CASE handler.stage \in stages /\ handler.old.manager \in whose
  BY <1>1, <1>5 DEF Ahead
<1> QED
  BY <1>3, <1>4, <1>5 DEF Ahead

LEMMA AheadTake ==
    ASSUME WatchTypes, NEW stages, NEW whose, "roles" \in stages, "idle" \notin stages,
           Ahead(stages, whose), Take
    PROVE  Ahead(stages, whose)'
<1>1. /\ notices \in Seq(Notices) /\ notices # <<>>
      /\ notices' = Tail(notices) /\ handler.stage = "idle"
      /\ handler' = [stage |-> IF Purges(Head(notices)) THEN "roles" ELSE "enqueue",
                     old |-> Head(notices).old, new |-> Head(notices).new]
  BY DEF Take, WatchTypes
<1>2. PICK k \in DOMAIN notices : Purges(notices[k]) /\ notices[k].old.manager \in whose
  BY <1>1 DEF Ahead
<1>3. CASE k = 1
  <2>1. Head(notices) = notices[k]
    BY <1>1, <1>3
  <2> QED
    BY <1>1, <1>2, <2>1 DEF Ahead
<1>4. CASE k # 1
  <2>1. k - 1 \in DOMAIN notices' /\ notices'[k - 1] = notices[k]
    BY <1>1, <1>4
  <2> QED
    BY <1>2, <2>1 DEF Ahead, Purges
<1> QED
  BY <1>3, <1>4

LEMMA AheadStays ==
    ASSUME NEW stages, NEW whose, Ahead(stages, whose), UNCHANGED notices,
           UNCHANGED handler.old, handler.stage \in stages => handler'.stage \in stages
    PROVE  Ahead(stages, whose)'
BY DEF Ahead, Purges

LEMMA KeyStays == ASSUME UNCHANGED installation, NEW i PROVE Key(i)' = Key(i)
BY DEF Key, installation

\* Rights that only shrink, while the cache stands still and the purge is still ahead.
LEMMA RolesShrink ==
    ASSUME RolesDue, UNCHANGED <<installation, cached>>,
           Ahead({"roles"}, Owners) => Ahead({"roles"}, Owners)',
           \A k \in Instances : role'[k] => role[k]
    PROVE  RolesDue'
BY KeyStays DEF RolesDue

LEMMA BindingsShrink ==
    ASSUME BindingsDue, UNCHANGED <<installation, cached>>,
           Ahead({"roles", "bindings"}, Owners) => Ahead({"roles", "bindings"}, Owners)',
           \A k \in Instances : binding'[k] # None => binding[k] # None
    PROVE  BindingsDue'
BY KeyStays DEF BindingsDue

LEMMA ListingsShrink ==
    ASSUME ListingsDue, UNCHANGED cached, listed' \subseteq listed,
           \A i \in listed' : Ahead({"roles", "bindings", "secret"}, {i})
                                => Ahead({"roles", "bindings", "secret"}, {i})'
    PROVE  ListingsDue'
BY DEF ListingsDue

LEMMA WatchKeepsAhead ==
    ASSUME UNCHANGED watch, NEW stages, NEW whose
    PROVE  Ahead(stages, whose)' <=> Ahead(stages, whose)
BY DEF Ahead, Purges, watch

\* Steps that give no rights, while the informer and the predicate stand still.
LEMMA RightsFrame ==
    ASSUME RightsDue, UNCHANGED installation, UNCHANGED watch,
           \A k \in Instances : role'[k] => role[k],
           \A k \in Instances : binding'[k] # None => binding[k] # None,
           listed' \subseteq listed
    PROVE  RightsDue'
<1>1. UNCHANGED cached
  BY DEF watch
<1> QED
  BY <1>1, WatchKeepsAhead, RolesShrink, BindingsShrink, ListingsShrink DEF RightsDue

\* The steps that give rights: to the manager, as the cache has it, or before a purge.
LEMMA RightsGiven ==
    ASSUME Typed, RightsDue, ~missed', Roles \/ Bindings \/ SecretWrite
    PROVE  RightsDue'
<1>1. UNCHANGED installation /\ UNCHANGED watch /\ UNCHANGED cached
  BY DEF Roles, Bindings, SecretWrite, users, watch
<1>2. PICK me \in Instances : me = Me
  BY TypedParts DEF WorkTypes, Roles, Bindings, SecretWrite, At, Me, Passes
<1>3. RightsTypes /\ Key(me) \in Instances
  BY TypedParts, KeyIsInstance
<1>4. RolesDue'
  <2>1. CASE UNCHANGED role
    BY <1>1, <2>1, WatchKeepsAhead, RolesShrink DEF RightsDue
  <2>2. CASE role' = [role EXCEPT ![Key(me)] = TRUE] /\ ~Overtaken({"roles"}, Owners)
    <3>1. CASE Ahead({"roles"}, Owners)
      BY <1>1, <3>1, WatchKeepsAhead DEF RolesDue
    <3>2. CASE ~Ahead({"roles"}, Owners)
      <4>1. cached.manager = me
        BY <1>2, <2>2, <3>2 DEF Overtaken
      <4>2. \A k \in Instances : role'[k] => role[k] \/ k = Key(me)
        BY <1>3, <2>2 DEF RightsTypes
      <4>3. \A k \in Instances : role'[k] =>
                \E i \in Instances : Key(i) = k /\ cached.manager = i
        BY <1>2, <3>2, <4>1, <4>2 DEF RightsDue, RolesDue
      <4> QED
        BY <1>1, <4>3, KeyStays DEF RolesDue
    <3> QED
      BY <3>1, <3>2
  <2> QED
    BY <1>2, <2>1, <2>2 DEF Roles, Bindings, SecretWrite, rights
<1>5. BindingsDue'
  <2>1. CASE UNCHANGED binding
    BY <1>1, <2>1, WatchKeepsAhead, BindingsShrink DEF RightsDue
  <2>2. CASE binding' = [binding EXCEPT ![Key(me)] = me] /\ ~Overtaken({"roles", "bindings"}, Owners)
    <3>1. CASE Ahead({"roles", "bindings"}, Owners)
      BY <1>1, <3>1, WatchKeepsAhead DEF BindingsDue
    <3>2. CASE ~Ahead({"roles", "bindings"}, Owners)
      <4>1. cached.manager = me
        BY <1>2, <2>2, <3>2 DEF Overtaken
      <4>2. \A k \in Instances : binding'[k] # None => binding[k] # None \/ k = Key(me)
        BY <1>3, <2>2 DEF RightsTypes
      <4>3. \A k \in Instances : binding'[k] # None =>
                \E i \in Instances : Key(i) = k /\ cached.manager = i
        BY <1>2, <3>2, <4>1, <4>2 DEF RightsDue, BindingsDue
      <4> QED
        BY <1>1, <4>3, KeyStays DEF BindingsDue
    <3> QED
      BY <3>1, <3>2
  <2> QED
    BY <1>2, <2>1, <2>2 DEF Roles, Bindings, SecretWrite, rights
<1>6. ListingsDue'
  <2>1. CASE UNCHANGED listed
    BY <1>1, <2>1, WatchKeepsAhead, ListingsShrink DEF RightsDue
  <2>2. CASE /\ listed' = listed \cup {me}
             /\ ~Overtaken({"roles", "bindings", "secret"}, {me})
    BY <1>1, <1>2, <2>2, WatchKeepsAhead DEF RightsDue, ListingsDue, Overtaken
  <2> QED
    BY <1>2, <2>1, <2>2 DEF Roles, Bindings, SecretWrite, secrets
<1> QED
  BY <1>4, <1>5, <1>6 DEF RightsDue

\* The informer and the predicate.
LEMMA RightsWatched ==
    ASSUME Typed, RightsDue, ~missed', CacheUpdate \/ HandlerStep \/ PurgeFails \/ Restart
    PROVE  RightsDue'
<1>1. UNCHANGED installation /\ listed \subseteq Instances /\ WatchTypes /\ HandlerOK
  BY TypedParts DEF Typed, SecretTypes, CacheUpdate, HandlerStep, Take, PurgeRoles, PurgeBindings,
                    PurgeSecret, Enqueue, PurgeFails, Restart, users
<1>2. CASE CacheUpdate
  <2>1. UNCHANGED <<role, binding, listed>> /\ cached' = label
    BY <1>2 DEF CacheUpdate, objects, rights, secrets
  <2>2. ASSUME NEW i \in Instances, cached.manager = i, label.manager # i
        PROVE  /\ Ahead({"roles"}, Owners)' /\ Ahead({"roles", "bindings"}, Owners)'
               /\ Ahead({"roles", "bindings", "secret"}, {i})'
    BY <1>1, <1>2, <2>2, AheadNotice DEF Owners
  <2>3. RolesDue'
    BY <1>1, <1>2, <2>1, <2>2, AheadNotice, KeyStays DEF RightsDue, RolesDue
  <2>4. BindingsDue'
    BY <1>1, <1>2, <2>1, <2>2, AheadNotice, KeyStays DEF RightsDue, BindingsDue
  <2>5. ListingsDue'
    BY <1>1, <1>2, <2>1, <2>2, AheadNotice DEF RightsDue, ListingsDue
  <2> QED
    BY <2>3, <2>4, <2>5 DEF RightsDue
<1>3. CASE Take
  <2>1. UNCHANGED <<role, binding, listed, cached>>
    BY <1>3 DEF Take, objects, rights, secrets
  <2> QED
    BY <1>1, <1>3, <2>1, AheadTake, RolesShrink, BindingsShrink, ListingsShrink DEF RightsDue
<1>4. CASE PurgeRoles
  <2>1. /\ UNCHANGED <<cached, notices, binding, listed>> /\ UNCHANGED handler.old
        /\ handler.stage = "roles" /\ handler'.stage = "bindings"
    BY <1>1, <1>4 DEF PurgeRoles, HandlerOK, secrets
  <2>2. RolesDue'
    BY <1>4 DEF PurgeRoles, RolesDue
  <2> QED
    BY <1>1, <2>1, <2>2, AheadStays, BindingsShrink, ListingsShrink DEF RightsDue
<1>5. CASE PurgeBindings
  <2>1. /\ UNCHANGED <<cached, notices, role, listed>> /\ UNCHANGED handler.old
        /\ handler.stage = "bindings" /\ handler'.stage = "secret"
    BY <1>1, <1>5 DEF PurgeBindings, HandlerOK, secrets
  <2>2. BindingsDue'
    BY <1>5 DEF PurgeBindings, BindingsDue
  <2> QED
    BY <1>1, <2>1, <2>2, AheadStays, RolesShrink, ListingsShrink DEF RightsDue
<1>6. CASE PurgeSecret
  <2>1. /\ UNCHANGED <<cached, notices, role, binding>> /\ UNCHANGED handler.old
        /\ handler.stage = "secret" /\ handler'.stage = "enqueue"
        /\ listed' = listed \ {handler.old.manager}
    BY <1>1, <1>6 DEF PurgeSecret, HandlerOK, rights
  <2>2. ListingsDue'
    BY <2>1 DEF RightsDue, ListingsDue, Ahead, Purges
  <2> QED
    BY <1>1, <2>1, <2>2, AheadStays, RolesShrink, BindingsShrink DEF RightsDue
<1>7. CASE Enqueue
  <2>1. /\ UNCHANGED <<cached, notices, role, binding, listed>>
        /\ handler.stage = "enqueue"
    BY <1>7 DEF Enqueue, objects, rights, secrets
  <2>2. \A whose : /\ Ahead({"roles"}, whose) => Ahead({"roles"}, whose)'
                   /\ Ahead({"roles", "bindings"}, whose) => Ahead({"roles", "bindings"}, whose)'
                   /\ Ahead({"roles", "bindings", "secret"}, whose)
                        => Ahead({"roles", "bindings", "secret"}, whose)'
    BY <2>1 DEF Ahead, Purges
  <2> QED
    BY <1>1, <2>1, <2>2, RolesShrink, BindingsShrink, ListingsShrink DEF RightsDue
<1>8. CASE PurgeFails
  BY <1>8 DEF PurgeFails
<1>9. CASE Restart
  <2>1. /\ ~Ahead({"roles", "bindings", "secret"}, Owners)
        /\ ~Purges([old |-> cached, new |-> label])
        /\ cached' = label /\ UNCHANGED <<role, binding, listed>>
    BY <1>9 DEF Restart, rights
  <2>2. \A i \in Instances : cached.manager = i => cached'.manager = i
    BY <2>1 DEF Purges
  <2>3. /\ ~Ahead({"roles"}, Owners) /\ ~Ahead({"roles", "bindings"}, Owners)
        /\ \A i \in Instances : ~Ahead({"roles", "bindings", "secret"}, {i})
    BY <2>1 DEF Ahead, Owners
  <2>4. RolesDue'
    BY <1>1, <2>1, <2>2, <2>3, KeyStays DEF RightsDue, RolesDue
  <2>5. BindingsDue'
    BY <1>1, <2>1, <2>2, <2>3, KeyStays DEF RightsDue, BindingsDue
  <2>6. ListingsDue'
    BY <1>1, <2>1, <2>2, <2>3 DEF RightsDue, ListingsDue
  <2> QED
    BY <2>4, <2>5, <2>6 DEF RightsDue
<1> QED
  BY <1>2, <1>3, <1>4, <1>5, <1>6, <1>7, <1>8, <1>9 DEF HandlerStep

LEMMA RightsInvStep == ASSUME Typed, RightsInv, [Next]_vars PROVE RightsInv'
<1>1. CacheKnows'
  BY TypedParts, CacheKnowsStep DEF RightsInv
<1> SUFFICES ASSUME ~missed' PROVE RightsDue'
  BY <1>1 DEF RightsInv
<1>2. ~missed
  BY DEF Next, vars, gaps, SetManager, SetAppset, Delete, EditSources, Begin, CacheUpdate,
         HandlerStep, Take, PurgeRoles, PurgeBindings, PurgeSecret, Enqueue, ShowRoles,
         ShowBindings, ShowSecrets, PassStep, Restore, Snapshot, Allowed, Roles, SourceRole,
         SetSource, Sweep, Unlabel, Unrole, Unbind, Bindings, SourceBinding, SecretRead,
         SecretWrite, ClusterResources, ManagerLabel, FinalSweep, Finalizer, PurgeFails,
         CleanUpFails, PassFails, Restart
<1>3. RightsDue /\ UNCHANGED installation
  BY <1>2, InstallationStays DEF RightsInv
<1>4. CASE \/ \E i \in Owners : SetManager(i) \/ SetAppset(i)
           \/ \E i \in Instances : Delete(i) \/ Begin(i)
           \/ \E i \in Instances, how \in {"no", "glob", "regex"} : EditSources(i, how)
           \/ ShowRoles \/ ShowBindings \/ ShowSecrets
           \/ CleanUpFails \/ PassFails \/ UNCHANGED vars
  <2>1. UNCHANGED <<watch, role, binding, listed>>
    BY <1>4 DEF SetManager, SetAppset, Delete, Begin, EditSources, ShowRoles, ShowBindings,
                ShowSecrets, CleanUpFails, PassFails, vars, watch, objects, rights, secrets
  <2> QED
    BY <1>3, <2>1, RightsFrame
<1>5. CASE Roles \/ Bindings \/ SecretWrite
  BY <1>3, <1>5, RightsGiven
<1>6. CASE CacheUpdate \/ HandlerStep \/ PurgeFails \/ Restart
  BY <1>3, <1>6, RightsWatched
<1>7. CASE ClusterResources
  <2>1. /\ \A k \in Instances : binding'[k] # None => binding[k] # None
        /\ UNCHANGED <<watch, role, listed>>
    BY <1>7, TypedParts DEF ClusterResources, RightsTypes, secrets
  <2> QED
    BY <1>3, <2>1, RightsFrame
<1>8. CASE PassStep /\ ~(Roles \/ Bindings \/ SecretWrite \/ ClusterResources)
  <2>1. UNCHANGED <<watch, role, binding>> /\ listed' \subseteq listed
    BY <1>8 DEF PassStep, Restore, Snapshot, Allowed, SourceRole, SetSource, Sweep, Unlabel,
                Unrole, Unbind, SourceBinding, SecretRead, ManagerLabel, FinalSweep, Finalizer,
                objects, rights, secrets
  <2> QED
    BY <1>3, <2>1, RightsFrame
<1> QED
  BY <1>4, <1>5, <1>6, <1>7, <1>8 DEF Next

\* An instance that lost the namespace to another one, or to nobody, has no role, no
\* binding and no place in its cluster Secret there once things have settled, with
\* any number of rivals, of them of the same name, of edits of the label and of
\* notices under way, however old the caches are that the passes read: unless a pass
\* granted them after the purge was over, or the purge failed, or died with the
\* process.  The invariant follows the notice of the loss from the cache through the
\* queue of the predicate to the very deletion.
THEOREM LosersHaveNoRights == Spec => []NoRightsLeft
<1>1. Init => Typed /\ RightsInv
  BY TypedInit, RightsInit
<1>2. Typed /\ RightsInv /\ [Next]_vars => (Typed /\ RightsInv)'
  BY TypedStep, RightsInvStep
<1>3. Typed /\ RightsInv => NoRightsLeft
  <2> SUFFICES ASSUME Typed, RightsInv, NEW i \in Instances, Settled, ~missed, label.manager # i
               PROVE  /\ i \notin listed
                      /\ (\A j \in Namesakes(i) : label.manager # j)
                           => ~role[Key(i)] /\ binding[Key(i)] = None
    BY DEF NoRightsLeft
  <2>1. /\ cached = label /\ notices = <<>> /\ handler.stage = "idle"
        /\ RolesDue /\ BindingsDue /\ ListingsDue
    BY DEF Settled, RightsInv, RightsDue, CacheKnows, Idle
  <2>2. ASSUME NEW stages \in SUBSET {"roles", "bindings", "secret"}, NEW whose
        PROVE  ~Ahead(stages, whose)
    BY <2>1 DEF Ahead
  <2>3. i \notin listed
    BY <2>1, <2>2 DEF ListingsDue
  <2>4. ASSUME \A j \in Namesakes(i) : label.manager # j
        PROVE  \A j \in Instances : Key(j) = Key(i) => label.manager # j
    BY <2>4 DEF Namesakes
  <2>5. Key(i) \in Instances
    BY KeyIsInstance
  <2> QED
    BY <2>1, <2>2, <2>3, <2>4, <2>5 DEF RolesDue, BindingsDue
<1> QED
  BY <1>1, <1>2, <1>3, PTL DEF Spec

-----------------------------------------------------------------------------
(* The manager has its rights *)

\* The last thing the predicate has heard, or will hear, is what the cache says.
Quiet     == ~behind /\ notices = <<>> /\ handler.stage = "idle"
NewsKnows == /\ notices # <<>> => notices[Len(notices)].new = cached
             /\ notices = <<>> /\ handler.stage # "idle" => handler.new = cached

\* A pass of an instance that lives is none of its deletion.
Ending    == {"clusterResources", "managerLabel", "finalSweep", "finalizer"}
Resumed   == {"sweep", "roles", "rolesAgain", "finalizer"}
PassKnows == pass # None => /\ pass.after \in Resumed
                            /\ pass.after = "finalizer" \/ pass.stage \in Ending
                                 => life[Me] # "up"
\* A cluster-wide instance lists no namespaces; and a cluster Secret that was not
\* written since is as the cache has it.
ListedKnows == /\ listed \cap cluster = {}
               /\ pass # None /\ pass.writes => Me \notin cluster
SecretsKnow == \A i \in Instances \ changed : i \in listed <=> i \in cachedListed

\* The label names an instance, and no pass of it is to come.
Managing(i) == Quiet /\ life[i] = "up" /\ label.manager = i /\ i \notin queue
HasRights(i) == role[Key(i)] /\ binding[Key(i)] = i
Good(i) == i \in outdated \/ HasRights(i)
\* Then its pass is on the way and no other one thinks it is the manager, or its
\* pass is over and it has what a manager gets.
Served(i) ==
    /\ pass # None /\ pass.manages => Me = i
    /\ pass # None /\ Me = i =>
         /\ pass.stage \notin {"restore", "snapshot"} => pass.manages
         /\ pass.stage = "bindings" => i \in outdated \/ role[Key(i)]
         /\ pass.stage \in {"sourceBinding", "secretRead", "secretWrite"} => Good(i)
         /\ pass.stage = "secretWrite" /\ i \notin cluster => pass.writes
    /\ pass = None \/ Me # i => Good(i) /\ (i \notin cluster => i \in listed \/ i \in changed)

ManagersServed == \A i \in Instances : Managing(i) => Served(i)
ManagerInv ==
    CacheKnows /\ NewsKnows /\ PassKnows /\ ListedKnows /\ SecretsKnow /\ ManagersServed

LEMMA ManagerInit == Init => ManagerInv
BY DEF Init, ManagerInv, CacheKnows, NewsKnows, PassKnows, ListedKnows, SecretsKnow,
       ManagersServed, Idle, Managing

LEMMA NewsKnowsStep == ASSUME WatchTypes, NewsKnows, [Next]_vars PROVE NewsKnows'
<1>1. ASSUME UNCHANGED watch PROVE NewsKnows'
  BY <1>1 DEF NewsKnows, watch
<1>2. CASE CacheUpdate
  <2>1. /\ notices' = Append(notices, [old |-> cached, new |-> label]) /\ cached' = label
        /\ notices \in Seq(Notices) /\ [old |-> cached, new |-> label] \in Notices
    BY <1>2 DEF CacheUpdate, WatchTypes, Notices
  <2>2. notices' # <<>> /\ notices'[Len(notices')] = [old |-> cached, new |-> label]
    BY <2>1
  <2> QED
    BY <2>1, <2>2 DEF NewsKnows
<1>3. CASE Take
  <2>1. /\ notices \in Seq(Notices) /\ notices # <<>> /\ notices' = Tail(notices)
        /\ cached' = cached /\ handler'.new = Head(notices).new
    BY <1>3 DEF Take, WatchTypes
  <2>2. CASE Len(notices) = 1
    <3>1. notices' = <<>> /\ Head(notices) = notices[Len(notices)]
      BY <2>1, <2>2
    <3> QED
      BY <2>1, <3>1 DEF NewsKnows
  <2>3. CASE Len(notices) # 1
    <3>1. /\ notices' \in Seq(Notices) /\ Len(notices') = Len(notices) - 1
          /\ \A k \in 1..Len(notices') : notices'[k] = notices[k + 1]
      BY <2>1, HeadTailProperties
    <3>2. Len(notices) \in Nat /\ Len(notices') \in Nat /\ Len(notices') > 0
      BY <2>1, <2>3, <3>1
    <3>3. notices' # <<>> /\ notices'[Len(notices')] = notices[Len(notices)]
      BY <3>1, <3>2
    <3> QED
      BY <2>1, <3>3 DEF NewsKnows
  <2> QED
    BY <2>2, <2>3
<1>4. CASE PurgeRoles \/ PurgeBindings \/ PurgeSecret \/ PurgeFails
  <2>1. UNCHANGED <<cached, notices>> /\ handler.stage # "idle"
    BY <1>4 DEF PurgeRoles, PurgeBindings, PurgeSecret, PurgeFails, stored
  <2>2. handler'.new = handler.new
    BY <1>4 DEF PurgeRoles, PurgeBindings, PurgeSecret, PurgeFails, WatchTypes, HandlerOK
  <2> QED
    BY <2>1, <2>2 DEF NewsKnows
<1>5. CASE Enqueue
  BY <1>5 DEF Enqueue, NewsKnows, Idle
<1>6. CASE Restart
  BY <1>6 DEF Restart, NewsKnows, Idle
<1>7. CASE \/ \E i \in Owners : SetManager(i) \/ SetAppset(i)
           \/ \E i \in Instances : Delete(i) \/ Begin(i)
           \/ \E i \in Instances, how \in {"no", "glob", "regex"} : EditSources(i, how)
           \/ ShowRoles \/ ShowBindings \/ ShowSecrets \/ UNCHANGED vars
  BY <1>1, <1>7 DEF SetManager, SetAppset, Delete, Begin, EditSources, ShowRoles, ShowBindings,
                    ShowSecrets, vars, watch
<1>8. CASE PassStep \/ CleanUpFails \/ PassFails
  BY <1>1, <1>8, PassLeaves
<1> QED
  BY <1>2, <1>3, <1>4, <1>5, <1>6, <1>7, <1>8 DEF Next, HandlerStep

\* The steps that only move the pass on, or end it with an error, and leave the
\* cluster Secret alone.
Passing ==
    \/ Restore \/ Allowed \/ SourceRole \/ SetSource \/ Sweep \/ Unlabel \/ Unrole \/ Unbind
    \/ Roles \/ Bindings \/ SourceBinding \/ ClusterResources \/ ManagerLabel \/ FinalSweep
    \/ CleanUpFails

\* A pass that got beyond the creation of an object has made sure of it.
Made == /\ pass'.stage = "bindings" => Roles /\ At("rolesAgain")
        /\ pass'.stage = "sourceBinding" => Bindings
        /\ pass'.stage = "secretRead" => SourceBinding

\* Where they lead.
LEMMA PassingGoesOn ==
    ASSUME WorkTypes, PassKnows, Passing
    PROVE  /\ pass # None /\ pass \in Passes
           /\ \/ pass' = None /\ queue' = queue \cup {Me}
              \/ /\ ClusterResources /\ pass' = None /\ Me \in queue'
              \/ /\ pass' # None /\ Me' = Me /\ pass'.manages = pass.manages
                 /\ pass'.writes = pass.writes
                 /\ pass'.stage \in Stages \ {"restore", "secretWrite"}
                 /\ pass.stage \in {"restore", "snapshot"} => pass'.stage = "snapshot"
                 /\ pass'.stage = "snapshot" => pass.stage = "restore"
                 /\ Made
                 /\ pass'.after \in {pass.after} \cup (Resumed \ {"finalizer"})
                      \/ pass.stage \in Ending
                 /\ pass'.after \in Resumed
                 /\ pass'.stage \in Ending => pass.stage \in Ending \/ pass.after = "finalizer"
<1>1. pass # None /\ pass \in Passes
  BY DEF Passing, Restore, Allowed, SourceRole, SetSource, Sweep, Unlabel, Unrole, Unbind, Roles,
         Bindings, SourceBinding, ClusterResources, ManagerLabel, FinalSweep, CleanUpFails, At,
         WorkTypes
<1>2. pass.after \in Resumed /\ pass.after \in Stages
  BY <1>1 DEF PassKnows, Stages, Resumed
<1>3. CASE Restore
  <2>1. CASE Abort
    BY <1>1, <1>3, <2>1 DEF Restore, Abort
  <2>2. CASE Goto("snapshot") /\ UNCHANGED queue
    BY <1>1, <1>2, <1>3, <2>2, GoesOn DEF Restore, Goto, Stages, At, Ending, Made
  <2> QED
    BY <1>3, <2>1, <2>2 DEF Restore
<1>4. CASE SourceRole
  <2>1. At("sourceRole")
    BY <1>4 DEF SourceRole
  <2>2. CASE CleanUp("sweep")
    BY <1>1, <1>2, <2>1, <2>2, CleansUp DEF Stages, At, Ending, Resumed, Made
  <2>3. CASE Goto("label") \/ Goto("sweep")
    BY <1>1, <1>2, <2>1, <2>3, GoesOn DEF Goto, Stages, At, Ending, Made
  <2>4. CASE Abort
    BY <1>1, <2>4 DEF Abort
  <2> QED
    BY <1>4, <2>2, <2>3, <2>4 DEF SourceRole
<1>5. CASE Sweep
  <2>1. At("sweep") /\ UNCHANGED queue
    BY <1>5 DEF Sweep
  <2>2. CASE CleanUp("rolesAgain")
    BY <1>1, <1>2, <2>1, <2>2, CleansUp DEF Stages, At, Ending, Resumed, Made
  <2>3. CASE Goto("rolesAgain")
    BY <1>1, <1>2, <2>1, <2>3, GoesOn DEF Goto, Stages, At, Ending, Made
  <2> QED
    BY <1>5, <2>2, <2>3 DEF Sweep
<1>6. CASE Allowed
  <2>1. At("allowed") /\ UNCHANGED queue
    BY <1>6 DEF Allowed
  <2>2. CASE CleanUp("roles")
    BY <1>1, <1>2, <2>1, <2>2, CleansUp DEF Stages, At, Ending, Resumed, Made
  <2>3. CASE Goto("roles")
    BY <1>1, <1>2, <2>1, <2>3, GoesOn DEF Goto, Stages, At, Ending, Made
  <2> QED
    BY <1>6, <2>2, <2>3 DEF Allowed
<1>7. CASE FinalSweep
  <2>1. At("finalSweep") /\ UNCHANGED queue
    BY <1>7 DEF FinalSweep
  <2>2. CASE CleanUp("finalizer")
    BY <1>1, <1>2, <2>1, <2>2, CleansUp DEF Stages, At, Ending, Resumed, Made
  <2>3. CASE Goto("finalizer")
    BY <1>1, <1>2, <2>1, <2>3, GoesOn DEF Goto, Stages, At, Ending, Made
  <2> QED
    BY <1>7, <2>2, <2>3 DEF FinalSweep
<1>8. CASE SetSource \/ Unlabel \/ Unrole \/ Unbind \/ CleanUpFails
  <2>1. /\ UNCHANGED queue
        /\ pass.stage \in {"label", "unlabel", "unrole", "unbind"}
        /\ \E s \in {"sweep", "unrole", "unbind", pass.after} : Goto(s)
    BY <1>8 DEF SetSource, Unlabel, Unrole, Unbind, CleanUpFails, At
  <2>2. PICK s \in {"sweep", "unrole", "unbind", pass.after} : Goto(s)
    BY <2>1
  <2>3. s \in Stages /\ (s \in Ending => pass.after = "finalizer")
        /\ s \notin {"restore", "snapshot", "secretWrite", "bindings", "sourceBinding", "secretRead"}
    BY <1>2, <2>2 DEF Stages, Ending, Resumed
  <2> QED
    BY <1>1, <1>2, <2>1, <2>2, <2>3, GoesOn DEF Goto, Made
<1>9. CASE Roles
  <2>1. CASE Abort
    BY <1>1, <2>1 DEF Abort
  <2>2. CASE Goto(IF At("roles") THEN "sourceRole" ELSE "bindings")
    <3>1. At("roles") \/ At("rolesAgain")
      BY <1>9 DEF Roles
    <3>2. CASE At("roles")
      BY <1>1, <1>2, <1>9, <2>2, <3>2, GoesOn DEF Goto, Stages, At, Ending, Made
    <3>3. CASE At("rolesAgain") /\ ~At("roles")
      BY <1>1, <1>2, <1>9, <2>2, <3>3, GoesOn DEF Goto, Stages, At, Ending, Made
    <3> QED
      BY <3>1, <3>2, <3>3
  <2> QED
    BY <1>9, <2>1, <2>2 DEF Roles
<1>10. CASE Bindings
  <2>1. CASE Abort
    BY <1>1, <2>1 DEF Abort
  <2>2. CASE Goto("sourceBinding")
    BY <1>1, <1>2, <1>10, <2>2, GoesOn DEF Bindings, Goto, Stages, At, Ending, Made
  <2> QED
    BY <1>10, <2>1, <2>2 DEF Bindings
<1>11. CASE SourceBinding
  <2>1. CASE Abort
    BY <1>1, <2>1 DEF Abort
  <2>2. CASE Goto("secretRead")
    BY <1>1, <1>2, <1>11, <2>2, GoesOn DEF SourceBinding, Goto, Stages, At, Ending, Made
  <2> QED
    BY <1>11, <2>1, <2>2 DEF SourceBinding
<1>12. CASE ClusterResources
  <2>1. CASE Goto("managerLabel")
    BY <1>1, <1>2, <1>12, <2>1, GoesOn DEF ClusterResources, Goto, Stages, At, Ending, Made
  <2>2. CASE pass' = None
    <3>1. Me \in queue'
      BY <1>1, <1>12, <2>2, GoesOn DEF ClusterResources, Goto, Stages
    <3> QED
      BY <1>1, <1>12, <2>2, <3>1
  <2> QED
    BY <1>12, <2>1, <2>2 DEF ClusterResources
<1>13. CASE ManagerLabel
  BY <1>1, <1>2, <1>13, GoesOn DEF ManagerLabel, Goto, Stages, At, Ending, Made
<1> QED
  BY <1>3, <1>4, <1>5, <1>6, <1>7, <1>8, <1>9, <1>10, <1>11, <1>12, <1>13 DEF Passing

LEMMA PassingLeaves ==
    ASSUME Passing PROVE UNCHANGED <<installation, life, lists, secrets>>
BY DEF Passing, Restore, Allowed, SourceRole, SetSource, Sweep, Unlabel, Unrole, Unbind, Roles,
       Bindings, SourceBinding, ClusterResources, ManagerLabel, FinalSweep, CleanUpFails, users,
       objects

LEMMA PassKnowsStep == ASSUME Typed, PassKnows, [Next]_vars PROVE PassKnows'
<1>1. WorkTypes /\ life \in [Instances -> {"up", "deleting", "gone"}]
  BY TypedParts DEF UserTypes
<1>2. ASSUME pass' = pass, \A i \in Instances : life[i] # "up" => life'[i] # "up"
      PROVE  PassKnows'
  BY <1>1, <1>2 DEF PassKnows, Me, WorkTypes, Passes
<1>3. CASE Passing
  BY <1>1, <1>3, PassingLeaves, PassingGoesOn DEF PassKnows, Resumed
<1>4. CASE Snapshot \/ SecretRead
  <2>1. UNCHANGED life /\ pass # None
    BY <1>4 DEF Snapshot, SecretRead, users, At
  <2> QED
    BY <1>1, <1>4, <2>1, TakesNote DEF PassKnows, Ending
<1>5. CASE SecretWrite \/ Finalizer \/ PassFails \/ Restart
  BY <1>5 DEF SecretWrite, Finalizer, PassFails, Restart, Done, Abort, PassKnows
<1>6. CASE \E i \in Instances : Begin(i)
  <2>1. PICK i \in Instances : Begin(i)
    BY <1>6
  <2>2. UNCHANGED life
    BY <2>1 DEF Begin, users
  <2> QED
    BY <1>1, <2>1, <2>2, Begins DEF PassKnows, Ending, Resumed
<1>7. CASE \/ \E i \in Owners : SetManager(i) \/ SetAppset(i)
           \/ \E i \in Instances, how \in {"no", "glob", "regex"} : EditSources(i, how)
           \/ CacheUpdate \/ HandlerStep \/ ShowRoles \/ ShowBindings \/ ShowSecrets
           \/ PurgeFails \/ UNCHANGED vars
  BY <1>2, <1>7 DEF SetManager, SetAppset, EditSources, CacheUpdate, HandlerStep, Take,
                    PurgeRoles, PurgeBindings, PurgeSecret, Enqueue, ShowRoles, ShowBindings,
                    ShowSecrets, PurgeFails, vars
<1>8. CASE \E i \in Instances : Delete(i)
  <2>1. PICK i \in Instances : Delete(i)
    BY <1>8
  <2>2. \A j \in Instances : life[j] # "up" => life'[j] # "up"
    BY <1>1, <2>1 DEF Delete
  <2> QED
    BY <1>2, <2>1, <2>2 DEF Delete
<1> QED
  BY <1>3, <1>4, <1>5, <1>6, <1>7, <1>8 DEF Next, PassStep, Passing

LEMMA ListedKnowsStep == ASSUME Typed, PassKnows, ListedKnows, [Next]_vars PROVE ListedKnows'
<1>1. WorkTypes /\ UNCHANGED cluster
  BY TypedParts, InstallationStays DEF installation
<1>2. ASSUME pass' = pass, listed' \subseteq listed PROVE ListedKnows'
  BY <1>1, <1>2 DEF ListedKnows, Me
<1>3. ASSUME pass' = None, listed' \subseteq listed PROVE ListedKnows'
  BY <1>1, <1>3 DEF ListedKnows
<1>4. CASE Passing
  <2>1. UNCHANGED listed
    BY <1>4, PassingLeaves DEF secrets
  <2> QED
    BY <1>1, <1>4, <2>1, PassingGoesOn DEF ListedKnows
<1>5. CASE Snapshot \/ SecretRead
  <2>1. UNCHANGED listed /\ pass # None
    BY <1>5 DEF Snapshot, SecretRead, At, objects, secrets
  <2> QED
    BY <1>1, <1>5, <2>1, TakesNote DEF ListedKnows
<1>6. CASE SecretWrite
  BY <1>1, <1>6 DEF SecretWrite, Done, Abort, At, ListedKnows
<1>7. CASE Finalizer \/ PassFails \/ Restart
  BY <1>3, <1>7 DEF Finalizer, PassFails, Restart, Done, Abort, objects, secrets
<1>8. CASE \E i \in Instances : Begin(i)
  <2>1. PICK i \in Instances : Begin(i)
    BY <1>8
  <2>2. UNCHANGED listed
    BY <2>1 DEF Begin, objects, secrets
  <2> QED
    BY <1>1, <2>1, <2>2, Begins DEF ListedKnows
<1>9. CASE \/ \E i \in Owners : SetManager(i) \/ SetAppset(i)
           \/ \E i \in Instances : Delete(i)
           \/ \E i \in Instances, how \in {"no", "glob", "regex"} : EditSources(i, how)
           \/ CacheUpdate \/ HandlerStep \/ ShowRoles \/ ShowBindings \/ ShowSecrets
           \/ PurgeFails \/ UNCHANGED vars
  BY <1>2, <1>9 DEF SetManager, SetAppset, Delete, EditSources, CacheUpdate, HandlerStep, Take,
                    PurgeRoles, PurgeBindings, PurgeSecret, Enqueue, ShowRoles, ShowBindings,
                    ShowSecrets, PurgeFails, vars, objects, secrets
<1> QED
  BY <1>4, <1>5, <1>6, <1>7, <1>8, <1>9 DEF Next, PassStep, Passing

LEMMA SecretsKnowStep == ASSUME Typed, SecretsKnow, [Next]_vars PROVE SecretsKnow'
<1>1. ASSUME UNCHANGED secrets PROVE SecretsKnow'
  BY <1>1 DEF SecretsKnow, secrets
<1>2. CASE PurgeSecret \/ ShowSecrets \/ Restart
  BY <1>2 DEF PurgeSecret, ShowSecrets, Restart, SecretsKnow
<1>3. CASE SecretWrite \/ Finalizer
  BY <1>3 DEF SecretWrite, Finalizer, SecretsKnow
<1>4. CASE Passing
  BY <1>1, <1>4, PassingLeaves
<1>5. CASE Snapshot \/ SecretRead \/ PassFails
  BY <1>1, <1>5 DEF Snapshot, SecretRead, PassFails, objects
<1>6. CASE \/ \E i \in Owners : SetManager(i) \/ SetAppset(i)
           \/ \E i \in Instances : Delete(i) \/ Begin(i)
           \/ \E i \in Instances, how \in {"no", "glob", "regex"} : EditSources(i, how)
           \/ CacheUpdate \/ Take \/ PurgeRoles \/ PurgeBindings \/ Enqueue
           \/ ShowRoles \/ ShowBindings \/ PurgeFails \/ UNCHANGED vars
  BY <1>1, <1>6 DEF SetManager, SetAppset, Delete, Begin, EditSources, CacheUpdate, Take,
                    PurgeRoles, PurgeBindings, Enqueue, ShowRoles, ShowBindings, PurgeFails,
                    vars, objects
<1> QED
  BY <1>2, <1>3, <1>4, <1>5, <1>6 DEF Next, PassStep, Passing, HandlerStep

\* Whoever is managing after a step of a pass was managing before.
LEMMA WriteIsQuiet ==
    ASSUME NEW l, WriteLabel(l), ~behind'
    PROVE  ~behind /\ label' = label
BY DEF WriteLabel

LEMMA QuietBefore ==
    ASSUME NEW i \in Instances, PassStep \/ CleanUpFails \/ PassFails, Quiet'
    PROVE  /\ Quiet /\ label' = label /\ queue \subseteq queue'
           /\ life'[i] = "up" => life[i] = "up"
           /\ lists' = lists
<1>1. UNCHANGED <<notices, handler>>
  BY PassLeaves DEF watch
<1>2. queue \subseteq queue' /\ lists' = lists
  BY DEF PassStep, CleanUpFails, PassFails, Restore, Snapshot, Allowed, Roles, SourceRole,
         SetSource, Sweep, Unlabel, Unrole, Unbind, Bindings, SourceBinding, SecretRead,
         SecretWrite, ClusterResources, ManagerLabel, FinalSweep, Finalizer, Abort, Done, users
<1>3. ~behind /\ label' = label
  <2>1. CASE UNCHANGED stored
    BY <2>1 DEF stored, Quiet
  <2>2. CASE Restore \/ SetSource \/ Unlabel \/ ManagerLabel
    <3>1. UNCHANGED stored \/ \E l \in {[label EXCEPT !.source = Me], [label EXCEPT !.source = None],
                                      [label EXCEPT !.manager = None]} : WriteLabel(l)
      BY <2>2 DEF Restore, SetSource, Unlabel, ManagerLabel, stored
    <3> QED
      BY <2>1, <3>1, WriteIsQuiet DEF Quiet
  <2>3. CASE ~(Restore \/ SetSource \/ Unlabel \/ ManagerLabel)
    BY <2>1, <2>3 DEF PassStep, CleanUpFails, PassFails, Snapshot, Allowed, Roles, SourceRole,
         Sweep, Unrole, Unbind, Bindings, SourceBinding, SecretRead, SecretWrite,
         ClusterResources, FinalSweep, Finalizer
  <2> QED
    BY <2>2, <2>3
<1>4. life'[i] = "up" => life[i] = "up"
  <2>1. CASE Finalizer
    <3>1. life' = [life EXCEPT ![Me] = "gone"]
      BY <2>1 DEF Finalizer
    <3> QED
      BY <3>1
  <2>2. CASE Passing
    BY <2>2, PassingLeaves
  <2>3. CASE Snapshot \/ SecretRead \/ SecretWrite \/ PassFails
    BY <2>3 DEF Snapshot, SecretRead, SecretWrite, PassFails, users
  <2> QED
    BY <2>1, <2>2, <2>3 DEF PassStep, Passing
<1> QED
  BY <1>1, <1>2, <1>3, <1>4 DEF Quiet

LEMMA ManagingBefore ==
    ASSUME NEW i \in Instances, PassStep \/ CleanUpFails \/ PassFails, Managing(i)'
    PROVE  Managing(i) /\ label' = label
BY QuietBefore DEF Managing

\* The two steps that look whose the namespace is, while the cache is right.
LEMMA ServedSnapshot ==
    ASSUME Typed, ManagerInv, NEW i \in Instances, Managing(i), Served(i), Snapshot \/ SecretRead
    PROVE  Served(i)'
<1>1. WorkTypes /\ pass # None /\ cached.manager = i /\ pass' # None
  BY TypedParts, TakesNote DEF Snapshot, SecretRead, At, ManagerInv, CacheKnows, Managing, Quiet
<1>2. UNCHANGED <<installation, role, binding, listed, changed, outdated>>
  BY DEF Snapshot, SecretRead, users, objects, rights, secrets, gaps
<1>3. (Good(i)' <=> Good(i)) /\ UNCHANGED <<cluster, listed, changed>>
  BY <1>2, KeyStays DEF Good, HasRights, installation
<1>4. CASE Snapshot
  <2>1. /\ Me' = Me /\ pass'.stage = "allowed" /\ pass'.manages = (i = Me)
    BY <1>1, <1>4, TakesNote
  <2> QED
    BY <1>1, <1>3, <2>1 DEF Served
<1>5. CASE SecretRead
  <2>1. /\ Me' = Me /\ pass'.stage = "secretWrite" /\ pass'.manages = pass.manages
        /\ pass'.writes = (Me \notin cluster /\ i = Me) /\ pass.stage = "secretRead"
    BY <1>1, <1>5, TakesNote DEF SecretRead, At
  <2> QED
    BY <1>1, <1>3, <2>1 DEF Served
<1> QED
  BY <1>4, <1>5

\* What the steps in between do to the rights of the manager: they give them to it
\* alone, and take them only from an instance that they wake up.
LEMMA RightsKept ==
    ASSUME Typed, PassKnows, NEW i \in Instances, Managing(i), Managing(i)', Served(i), Passing
    PROVE  /\ role[Key(i)] => role'[Key(i)]
           /\ i \in outdated => i \in outdated'
           /\ HasRights(i) => HasRights(i)'
<1>1. WorkTypes /\ RightsTypes /\ pass # None /\ UNCHANGED installation
  BY TypedParts, PassingGoesOn, PassingLeaves
<1>2. PICK me \in Instances : me = Me
  BY <1>1, PassingGoesOn DEF Me, Passes
<1>3. Key(i)' = Key(i) /\ Key(i) \in Instances /\ Key(me) \in Instances
  BY <1>1, KeyStays, KeyIsInstance
<1>4. pass.manages => me = i
  BY <1>1, <1>2 DEF Served
<1>5. i \in outdated => i \in outdated'
  BY DEF Passing, Restore, Allowed, SourceRole, SetSource, Sweep, Unlabel, Unrole, Unbind, Roles,
         Bindings, SourceBinding, ClusterResources, ManagerLabel, FinalSweep, CleanUpFails, gaps
<1>6. CASE Roles
  <2>1. UNCHANGED binding
    BY <1>6 DEF Roles
  <2>2. role[Key(i)] => role'[Key(i)]
    BY <1>1, <1>2, <1>3, <1>6 DEF Roles, RightsTypes
  <2> QED
    BY <1>3, <1>5, <2>1, <2>2 DEF HasRights
<1>7. CASE Bindings
  <2>1. UNCHANGED role
    BY <1>7 DEF Bindings
  <2>2. binding[Key(i)] = i => binding'[Key(i)] = i
    BY <1>1, <1>2, <1>3, <1>4, <1>7 DEF Bindings, RightsTypes
  <2> QED
    BY <1>3, <1>5, <2>1, <2>2 DEF HasRights
<1>8. CASE ClusterResources
  <2>1. i \notin Namesakes(me) \cap Alive /\ UNCHANGED role
    BY <1>2, <1>8 DEF ClusterResources, Managing
  <2>2. life[i] = "up" /\ pass.stage = "clusterResources"
    BY <1>8 DEF ClusterResources, At, Managing
  <2>3. me # i
    BY <1>1, <1>2, <2>2 DEF PassKnows, Ending
  <2>4. Key(me) # Key(i)
    BY <2>1, <2>2, <2>3 DEF Namesakes, Alive
  <2>5. binding'[Key(i)] = binding[Key(i)]
    BY <1>1, <1>2, <1>3, <1>8, <2>4 DEF ClusterResources, RightsTypes
  <2> QED
    BY <1>3, <1>5, <2>1, <2>5 DEF HasRights
<1>9. CASE ~(Roles \/ Bindings \/ ClusterResources)
  <2>1. UNCHANGED <<role, binding>>
    BY <1>9 DEF Passing, Restore, Allowed, SourceRole, SetSource, Sweep, Unlabel, Unrole, Unbind,
                SourceBinding, ManagerLabel, FinalSweep, CleanUpFails, objects, rights
  <2> QED
    BY <1>3, <1>5, <2>1 DEF HasRights
<1> QED
  BY <1>6, <1>7, <1>8, <1>9

\* The manager's own pass makes sure of role and binding, or takes the word of an old
\* cache for them.
LEMMA RightsMade ==
    ASSUME Typed, NEW i \in Instances, Managing(i), Served(i), pass # None, Me = i,
           i \notin queue'
    PROVE  /\ Roles /\ At("rolesAgain") => i \in outdated' \/ role'[Key(i)]
           /\ Bindings => Good(i)'
<1>1. RightsTypes /\ WorkTypes
  BY TypedParts
<1>2. CASE Roles /\ At("rolesAgain")
  <2>1. Key(i) \in Instances /\ pass.manages
    BY <1>2, KeyIsInstance DEF Served, At
  <2>2. ~Abort
    BY DEF Abort
  <2>3. ~Bindings
    BY <1>2 DEF Bindings, At
  <2> QED
    BY <1>1, <1>2, <2>1, <2>2, <2>3 DEF Roles, RightsTypes
<1>3. CASE Bindings
  <2>1. /\ Key(i) \in Instances /\ pass.manages /\ pass.stage = "bindings"
        /\ i \in outdated \/ role[Key(i)]
    BY <1>3, KeyIsInstance DEF Served, Bindings, At
  <2>2. ~Abort
    BY DEF Abort
  <2>3. UNCHANGED <<role, installation>> /\ Key(i)' = Key(i)
    BY <1>3, KeyStays DEF Bindings, users, installation
  <2>4. i \in outdated' \/ (i \notin outdated /\ binding'[Key(i)] = i)
    BY <1>1, <1>3, <2>1, <2>2 DEF Bindings, RightsTypes
  <2>5. ~Roles
    BY <1>3 DEF Roles, Bindings, At
  <2> QED
    BY <2>1, <2>3, <2>4, <2>5 DEF Good, HasRights
<1> QED
  BY <1>2, <1>3

LEMMA ServedPassing ==
    ASSUME Typed, ManagerInv, NEW i \in Instances, Managing(i), Managing(i)', Served(i), Passing
    PROVE  Served(i)'
<1>1. WorkTypes /\ PassKnows /\ pass # None /\ UNCHANGED <<installation, listed, changed>>
  BY TypedParts, PassingGoesOn, PassingLeaves DEF ManagerInv, secrets
<1>2. PICK me \in Instances : me = Me
  BY <1>1, PassingGoesOn DEF Me, Passes
<1>3. Key(i)' = Key(i) /\ UNCHANGED cluster
  BY <1>1, KeyStays DEF installation
<1>4. /\ role[Key(i)] => role'[Key(i)]
      /\ i \in outdated => i \in outdated'
      /\ Good(i) => Good(i)'
  BY <1>1, RightsKept DEF Good
<1>5. i \notin queue' /\ i \notin queue
  BY DEF Managing
<1>6. CASE pass' = None
  <2>1. me # i
    BY <1>1, <1>2, <1>5, <1>6, PassingGoesOn
  <2> QED
    BY <1>1, <1>2, <1>3, <1>4, <1>6, <2>1 DEF Served
<1>7. CASE pass' # None /\ me # i
  <2>1. Me' = me /\ pass'.manages = pass.manages
    BY <1>1, <1>2, <1>7, PassingGoesOn
  <2> QED
    BY <1>1, <1>2, <1>3, <1>4, <1>7, <2>1 DEF Served
<1>8. CASE pass' # None /\ me = i
  <2>1. /\ Me' = me /\ pass'.manages = pass.manages
        /\ pass'.stage # "secretWrite"
        /\ pass.stage \in {"restore", "snapshot"} => pass'.stage = "snapshot"
        /\ Made
    BY <1>1, <1>2, <1>8, PassingGoesOn
  <2>2. pass'.stage = "bindings" => i \in outdated' \/ role'[Key(i)]
    BY <1>1, <1>2, <1>5, <1>8, <2>1, RightsMade DEF Made
  <2>3. pass'.stage = "sourceBinding" => Good(i)'
    BY <1>1, <1>2, <1>5, <1>8, <2>1, RightsMade DEF Made
  <2>4. pass'.stage = "secretRead" => Good(i)'
    <3>1. SourceBinding => Good(i)
      BY <1>1, <1>2, <1>8 DEF SourceBinding, At, Served
    <3> QED
      BY <1>4, <2>1, <3>1 DEF Made
  <2> QED
    BY <1>1, <1>2, <1>3, <1>8, <2>1, <2>2, <2>3, <2>4 DEF Served
<1> QED
  BY <1>6, <1>7, <1>8

\* The end of a pass.
LEMMA ServedEnd ==
    ASSUME Typed, ManagerInv, NEW i \in Instances, Managing(i), Managing(i)', Served(i),
           SecretWrite \/ Finalizer \/ PassFails
    PROVE  Served(i)'
<1>1. pass # None /\ pass' = None
  BY DEF SecretWrite, Finalizer, PassFails, Done, Abort, At
<1>2. UNCHANGED <<installation, role, binding, outdated>>
  BY DEF SecretWrite, Finalizer, PassFails, users, objects, rights, gaps
<1>3. (Good(i)' <=> Good(i)) /\ UNCHANGED cluster
  BY <1>2, KeyStays DEF Good, HasRights, installation
<1>4. CASE SecretWrite
  <2>1. pass.stage = "secretWrite" /\ i \notin queue'
    BY <1>4 DEF SecretWrite, At, Managing
  <2>2. CASE Me = i
    <3>1. Good(i) /\ (i \notin cluster => pass.writes) /\ ~Abort
      BY <1>1, <2>1, <2>2 DEF Served, Abort
    <3>2. i \in changed \/ (i \in listed <=> i \in cachedListed)
      BY DEF ManagerInv, SecretsKnow
    <3>3. i \notin cluster => i \in listed' \/ i \in changed'
      BY <1>4, <2>2, <3>1, <3>2 DEF SecretWrite
    <3> QED
      BY <1>1, <1>3, <3>1, <3>3 DEF Served
  <2>3. CASE Me # i
    <3>1. Good(i) /\ (i \notin cluster => i \in listed \/ i \in changed)
      BY <1>1, <2>3 DEF Served
    <3>2. listed \subseteq listed' /\ changed \subseteq changed'
      BY <1>4 DEF SecretWrite
    <3> QED
      BY <1>1, <1>3, <3>1, <3>2 DEF Served
  <2> QED
    BY <2>2, <2>3
<1>5. CASE Finalizer
  <2>1. Me # i /\ listed' = listed \ {Me} /\ changed \subseteq changed'
    BY <1>1, <1>5 DEF Finalizer, At, ManagerInv, PassKnows, Ending, Managing
  <2> QED
    BY <1>1, <1>3, <2>1 DEF Served
<1>6. CASE PassFails
  <2>1. Me # i /\ UNCHANGED <<listed, changed>>
    BY <1>6 DEF PassFails, Abort, Managing, objects, secrets
  <2> QED
    BY <1>1, <1>3, <2>1 DEF Served
<1> QED
  BY <1>4, <1>5, <1>6

\* A pass begins: with the manager's own, or with another one's.
LEMMA ServedBegin ==
    ASSUME Typed, ManagerInv, NEW i \in Instances, NEW j \in Instances, Managing(i)', Begin(j)
    PROVE  Served(i)'
<1>1. /\ WorkTypes /\ life \in [Instances -> {"up", "deleting", "gone"}]
      /\ UNCHANGED <<installation, life, label, behind, notices, handler, role, binding, listed,
                     changed>>
      /\ pass = None /\ queue' = queue \ {j} /\ outdated' = outdated \ {j}
  BY TypedParts DEF Begin, users, stored, watch, objects, rights, secrets, UserTypes
<1>2. (i # j => (Good(i)' <=> Good(i))) /\ UNCHANGED cluster
  BY <1>1, KeyStays DEF Good, HasRights, installation
<1>3. life[i] = "up" /\ (i # j => Managing(i))
  BY <1>1 DEF Managing, Quiet
<1>4. i # j => Good(i) /\ (i \notin cluster => i \in listed \/ i \in changed)
  BY <1>1, <1>3 DEF ManagerInv, ManagersServed, Served
<1>5. CASE pass' = None
  <2>1. i # j
    BY <1>3, <1>5, BeginsUp
  <2> QED
    BY <1>1, <1>2, <1>4, <1>5, <2>1 DEF Served
<1>6. CASE pass' # None
  <2>1. Me' = j /\ pass'.manages = FALSE /\ (life[j] = "up" => pass'.stage = "restore")
    BY <1>1, <1>6, Begins
  <2>2. CASE i = j
    BY <1>2, <1>3, <1>6, <2>1, <2>2 DEF Served
  <2>3. CASE i # j
    BY <1>1, <1>2, <1>4, <1>6, <2>1, <2>3 DEF Served
  <2> QED
    BY <2>2, <2>3
<1> QED
  BY <1>5, <1>6

\* While the informer and the predicate have something to do, nothing is quiet.
LEMMA NotQuiet ==
    ASSUME Typed,
           \/ \E j \in Owners : SetManager(j) \/ SetAppset(j)
           \/ CacheUpdate \/ Take \/ PurgeRoles \/ PurgeBindings \/ PurgeSecret \/ PurgeFails
    PROVE  ~Quiet'
<1>1. CASE \E j \in Owners : SetManager(j) \/ SetAppset(j)
  BY <1>1 DEF SetManager, SetAppset, Quiet
<1>2. CASE CacheUpdate
  <2>1. notices' # <<>>
    BY <1>2, TypedParts DEF CacheUpdate, WatchTypes, Notices
  <2> QED
    BY <2>1 DEF Quiet
<1>3. CASE Take
  BY <1>3 DEF Take, Quiet
<1>4. CASE PurgeRoles \/ PurgeBindings \/ PurgeSecret \/ PurgeFails
  <2>1. handler'.stage # "idle"
    BY <1>4 DEF PurgeRoles, PurgeBindings, PurgeSecret, PurgeFails, Typed, HandlerOK
  <2> QED
    BY <2>1 DEF Quiet
<1> QED
  BY <1>1, <1>2, <1>3, <1>4

\* The last thing they do is to queue whoever the namespace concerns.
LEMMA ThenQueued ==
    ASSUME ManagerInv, NEW i \in Instances, Enqueue \/ Restart, Quiet', life'[i] = "up",
           \/ label'.manager = i
           \/ label'.manager = None /\ label'.appset \in {None, i} /\ lists'[i] = "glob"
    PROVE  i \in queue'
<1>1. CASE Enqueue
  <2>1. /\ UNCHANGED <<life, lists, label, behind, cached, notices>> /\ handler.stage = "enqueue"
        /\ queue' = queue \cup Mapped(handler.new)
    BY <1>1 DEF Enqueue, stored
  <2>2. ~behind /\ notices = <<>> /\ life[i] = "up"
    BY <2>1 DEF Quiet
  <2>3. handler.new = label
    BY <2>1, <2>2 DEF ManagerInv, CacheKnows, NewsKnows
  <2>4. i \in Mapped(handler.new)
    BY <2>1, <2>2, <2>3 DEF Mapped, Alive
  <2> QED
    BY <2>1, <2>4
<1>2. CASE Restart
  BY <1>2 DEF Restart, Alive, users
<1> QED
  BY <1>1, <1>2

LEMMA ManagersServedStep ==
    ASSUME Typed, ManagerInv, [Next]_vars
    PROVE  ManagersServed'
<1> SUFFICES ASSUME NEW i \in Instances, Managing(i)' PROVE Served(i)'
  BY DEF ManagersServed
<1>1. WorkTypes /\ (Managing(i) => Served(i))
  BY TypedParts DEF ManagerInv, ManagersServed
<1>2. CASE PassStep \/ CleanUpFails \/ PassFails
  <2>1. Managing(i) /\ Served(i)
    BY <1>1, <1>2, ManagingBefore
  <2>2. CASE Passing
    BY <2>1, <2>2, ServedPassing
  <2>3. CASE Snapshot \/ SecretRead
    BY <2>1, <2>3, ServedSnapshot
  <2>4. CASE SecretWrite \/ Finalizer \/ PassFails
    BY <2>1, <2>4, ServedEnd
  <2> QED
    BY <1>2, <2>2, <2>3, <2>4 DEF PassStep, Passing
<1>3. CASE \E j \in Instances : Begin(j)
  BY <1>3, ServedBegin
<1>4. CASE \/ \E j \in Instances : Delete(j)
           \/ \E j \in Instances, how \in {"no", "glob", "regex"} : EditSources(j, how)
           \/ ShowRoles \/ ShowBindings \/ ShowSecrets
           \/ UNCHANGED vars
  <2>1. /\ UNCHANGED <<installation, label, behind, notices, handler, role, binding, listed, pass,
                       outdated>>
        /\ queue \subseteq queue'
    BY <1>4 DEF Delete, EditSources, ShowRoles, ShowBindings, ShowSecrets, vars, stored, objects,
                rights, secrets, gaps
  <2>2. life'[i] = "up" => life[i] = "up"
    BY <1>4, TypedParts DEF Delete, EditSources, ShowRoles, ShowBindings, ShowSecrets, vars,
                            UserTypes
  <2>3. Managing(i)
    BY <2>1, <2>2 DEF Managing, Quiet
  <2>4. i \in changed => i \in changed'
    <3>1. CASE ShowSecrets
      BY <3>1 DEF ShowSecrets, Managing, Alive
    <3>2. CASE ~ShowSecrets
      BY <1>4, <3>2 DEF Delete, EditSources, ShowRoles, ShowBindings, vars, objects, secrets
    <3> QED
      BY <3>1, <3>2
  <2>5. (Good(i)' <=> Good(i)) /\ UNCHANGED cluster /\ Me' = Me /\ Key(i)' = Key(i)
    BY <2>1, KeyStays DEF Good, HasRights, installation, Me
  <2> QED
    BY <1>1, <2>1, <2>3, <2>4, <2>5 DEF Served
<1>5. CASE \/ \E j \in Owners : SetManager(j) \/ SetAppset(j)
           \/ CacheUpdate \/ HandlerStep \/ PurgeFails \/ Restart
  BY <1>5, NotQuiet, ThenQueued DEF HandlerStep, Managing
<1> QED
  BY <1>2, <1>3, <1>4, <1>5 DEF Next

LEMMA ManagerInvStep == ASSUME Typed, ManagerInv, [Next]_vars PROVE ManagerInv'
<1>1. CacheKnows' /\ NewsKnows'
  BY TypedParts, CacheKnowsStep, NewsKnowsStep DEF ManagerInv
<1>2. PassKnows' /\ ListedKnows' /\ SecretsKnow'
  BY PassKnowsStep, ListedKnowsStep, SecretsKnowStep DEF ManagerInv
<1> QED
  BY <1>1, <1>2, ManagersServedStep DEF ManagerInv

\* The manager that the label names has its role, its binding and, unless it is
\* cluster-wide, its place in its cluster Secret once things have settled, whatever
\* the predicate deleted meanwhile, whatever failed and however old the caches were;
\* unless its last pass found in them a role or a binding that the predicate had
\* deleted by then.  The invariant says why the purge of the last manager cannot win
\* otherwise: the mapper queues the next one only after the purge that the same notice
\* called for, a pass that began before makes way for the one queued behind it, and a
\* creation that is refused makes the pass begin again.
THEOREM ManagersHaveTheirRights == Spec => []ManagerHasRights
<1>1. Init => Typed /\ ManagerInv
  BY TypedInit, ManagerInit
<1>2. Typed /\ ManagerInv /\ [Next]_vars => (Typed /\ ManagerInv)'
  BY TypedStep, ManagerInvStep
<1>3. Typed /\ ManagerInv => ManagerHasRights
  <2> SUFFICES ASSUME Typed, ManagerInv, NEW i \in Instances,
                      Settled, life[i] = "up", label.manager = i, i \notin outdated
               PROVE  role[Key(i)] /\ binding[Key(i)] = i /\ (i \in listed <=> i \notin cluster)
    BY DEF ManagerHasRights
  <2>1. Managing(i) /\ pass = None /\ changed = {}
    BY DEF Settled, Managing, Quiet, Idle
  <2>2. HasRights(i) /\ (i \notin cluster => i \in listed)
    BY <2>1 DEF ManagerInv, ManagersServed, Served, Good
  <2>3. i \in listed => i \notin cluster
    BY DEF ManagerInv, ListedKnows
  <2> QED
    BY <2>2, <2>3 DEF HasRights
<1> QED
  BY <1>1, <1>2, <1>3, PTL DEF Spec

-----------------------------------------------------------------------------
(* The owner of a source namespace has it *)

\* Nothing keeps the instance from the namespace, and no pass of it is to come.
Taking(i) == /\ Quiet /\ ~unwritten /\ life[i] = "up" /\ lists[i] = "glob"
             /\ label.manager = None /\ label.appset \in {None, i}
             /\ label.source \in {None, i} /\ i \notin queue
Owns(i)   == label.source = i /\ sourceRole[Key(i)] /\ sourceBinding[Key(i)] = i
\* The stages of a pass that has left its mark on the namespace.
Marked    == {"sweep", "rolesAgain", "bindings", "sourceBinding", "secretRead", "secretWrite"}
\* Then its pass is on the way and has done what it is past, or is over and it has
\* what an owner gets; and no pass has got beyond the label that says so.
Safe(i) ==
    /\ pass # None => pass.stage \notin {"unrole", "unbind"}
    /\ pass # None /\ Me = i =>
         /\ pass.lists /\ pass.stage # "unlabel"
         /\ pass.stage \in Marked \cup {"label"} => sourceRole[Key(i)]
         /\ pass.stage \in Marked => label.source = i
         /\ pass.stage \in {"secretRead", "secretWrite"} => sourceBinding[Key(i)] = i
    /\ pass = None \/ Me # i => Owns(i)
Kept(i) == i \in outdated \/ Safe(i)
SourcesKept == \A i \in cluster : Taking(i) => Kept(i)

LEMMA SourcesInit == Init => SourcesKept
BY DEF Init, SourcesKept, Taking, TypeOK

\* Whoever has nothing in the way after a step of a pass had nothing before.
LEMMA TakingBefore ==
    ASSUME Typed, NEW i \in Instances, PassStep \/ CleanUpFails \/ PassFails, Taking(i)'
    PROVE  /\ Taking(i) /\ label' = label /\ ~behind' /\ i \notin queue'
           /\ outdated \subseteq outdated'
<1>1. Quiet /\ label' = label /\ queue \subseteq queue' /\ life[i] = "up" /\ lists' = lists
  BY QuietBefore DEF Taking
<1>2. ~unwritten /\ outdated \subseteq outdated'
  BY DEF PassStep, CleanUpFails, PassFails, Restore, Snapshot, Allowed, Roles, SourceRole,
         SetSource, Sweep, Unlabel, Unrole, Unbind, Bindings, SourceBinding, SecretRead,
         SecretWrite, ClusterResources, ManagerLabel, FinalSweep, Finalizer, gaps, Taking
<1> QED
  BY <1>1, <1>2 DEF Taking, Quiet

\* A write that leaves the label as it is wrote what was there.
LEMMA WriteOfSource ==
    ASSUME label \in Labels, NEW o \in Owners, WriteLabel([label EXCEPT !.source = o]), ~behind'
    PROVE  label.source = o
<1>1. label = [label EXCEPT !.source = o]
  BY DEF WriteLabel
<1> QED
  BY <1>1 DEF Labels

\* Its own pass.
LEMMA KeptOwn ==
    ASSUME Typed, ManagerInv, NEW i \in Instances, i \in cluster, Taking(i), Safe(i),
           pass # None, Me = i, PassStep, label' = label, ~behind', i \notin queue'
    PROVE  Kept(i)'
<1> SUFFICES ASSUME i \notin outdated' PROVE Safe(i)'
  BY DEF Kept
<1>1. /\ WorkTypes /\ RightsTypes /\ pass \in Passes /\ cached = label /\ label \in Labels
      /\ UNCHANGED installation
  <2>1. WorkTypes /\ RightsTypes /\ pass \in Passes /\ label \in Labels
    BY TypedParts DEF WorkTypes, WatchTypes
  <2>2. cached = label
    BY DEF Taking, Quiet, ManagerInv, CacheKnows
  <2>3. UNCHANGED installation
    BY InstallationStays DEF Next
  <2> QED
    BY <2>1, <2>2, <2>3
<1>2. Key(i)' = Key(i) /\ Key(i) \in Instances
  BY <1>1, KeyStays, KeyIsInstance
<1>3. /\ pass.stage \notin Ending /\ pass.stage \notin {"unlabel", "unrole", "unbind"}
      /\ pass.lists /\ ~Abort
  BY DEF ManagerInv, PassKnows, Taking, Safe, Abort
<1>4. ASSUME NEW s \in Stages, Goto(s), s \notin {"unlabel", "unrole", "unbind"},
             s \in Marked \cup {"label"} => sourceRole'[Key(i)],
             s \in Marked => label.source = i,
             s \in {"secretRead", "secretWrite"} => sourceBinding'[Key(i)] = i
      PROVE  Safe(i)'
  <2>1. pass' # None /\ Me' = Me /\ pass'.stage = s /\ pass'.lists = pass.lists
    BY <1>1, <1>4, GoesOn DEF Goto
  <2> QED
    BY <1>2, <1>3, <1>4, <2>1 DEF Safe
<1>5. CASE Restore
  <2>1. Goto("snapshot")
    BY <1>3, <1>5 DEF Restore
  <2> QED
    BY <1>4, <2>1 DEF Stages, Marked
<1>6. CASE Snapshot \/ SecretRead
  <2>1. /\ pass' # None /\ Me' = Me /\ pass'.lists = pass.lists
        /\ Snapshot => pass'.stage = "allowed"
        /\ SecretRead => pass'.stage = "secretWrite" /\ pass.stage = "secretRead"
    BY <1>1, <1>6, TakesNote DEF SecretRead, At
  <2>2. UNCHANGED <<sourceRole, sourceBinding>>
    BY <1>6 DEF Snapshot, SecretRead, objects, rights
  <2> QED
    BY <1>2, <1>3, <1>6, <2>1, <2>2 DEF Safe, Marked
<1>7. CASE Allowed
  <2>1. Goto("roles")
    BY <1>7 DEF Allowed
  <2> QED
    BY <1>4, <2>1 DEF Stages, Marked
<1>8. CASE Roles
  <2>1. UNCHANGED sourceRole
    BY <1>8 DEF Roles
  <2>2. CASE At("roles")
    <3>1. Goto("sourceRole")
      BY <1>3, <1>8, <2>2 DEF Roles
    <3> QED
      BY <1>4, <3>1 DEF Stages, Marked
  <2>3. CASE At("rolesAgain") /\ ~At("roles")
    <3>1. Goto("bindings")
      BY <1>3, <1>8, <2>3 DEF Roles
    <3>2. sourceRole[Key(i)] /\ label.source = i
      BY <2>3 DEF At, Safe, Marked
    <3> QED
      BY <1>4, <2>1, <3>1, <3>2 DEF Stages, Marked
  <2> QED
    BY <1>8, <2>2, <2>3 DEF Roles
<1>9. CASE SourceRole
  <2>1. cached.manager = None /\ cached.source \in {None, Me} /\ Me \in cluster /\ pass.lists
    BY <1>1, <1>3 DEF Taking
  <2>2. /\ Goto("label")
        /\ \/ cachedSourceRole[Key(i)] /\ sourceRole' = sourceRole
                /\ outdated' = IF sourceRole[Key(i)] THEN outdated ELSE outdated \cup {i}
           \/ sourceRole' = [sourceRole EXCEPT ![Key(i)] = TRUE]
    BY <1>3, <1>9, <2>1 DEF SourceRole
  <2>3. sourceRole'[Key(i)]
    BY <1>1, <1>2, <2>2 DEF RightsTypes
  <2> QED
    BY <1>4, <2>2, <2>3 DEF Stages, Marked
<1>10. CASE SetSource
  <2>1. label.source = i
    BY <1>1, <1>10, WriteOfSource DEF SetSource, Owners
  <2>2. Goto("sweep") /\ UNCHANGED sourceRole /\ pass.stage = "label"
    BY <1>10 DEF SetSource, objects, rights, At
  <2> QED
    BY <1>4, <2>1, <2>2 DEF Stages, Safe, Marked
<1>11. CASE Sweep
  <2>1. Goto("rolesAgain") /\ UNCHANGED sourceRole /\ pass.stage = "sweep"
    BY <1>3, <1>11 DEF Sweep, objects, rights, At
  <2> QED
    BY <1>4, <2>1 DEF Stages, Safe, Marked
<1>12. CASE Bindings
  <2>1. Goto("sourceBinding") /\ UNCHANGED sourceRole /\ pass.stage = "bindings"
    BY <1>3, <1>12 DEF Bindings, At
  <2> QED
    BY <1>4, <2>1 DEF Stages, Safe, Marked
<1>13. CASE SourceBinding
  <2>1. Goto("secretRead") /\ UNCHANGED sourceRole /\ pass.stage = "sourceBinding"
    BY <1>3, <1>13 DEF SourceBinding, At
  <2>2. sourceRole[Key(i)] /\ label.source = i
    BY <2>1 DEF Safe, Marked
  <2>3. cached.manager = None /\ cached.source = Me /\ Me \in cluster /\ pass.lists
    BY <1>1, <1>3, <2>2 DEF Taking
  <2>4. \/ sourceBinding' = [sourceBinding EXCEPT ![Key(i)] = i]
        \/ sourceBinding' = sourceBinding /\ sourceBinding[Key(i)] = i
    <3>1. ASSUME cachedSourceBinding[Key(i)] = i
          PROVE  /\ sourceBinding' = sourceBinding
                 /\ outdated' = IF sourceBinding[Key(i)] # i THEN outdated \cup {i} ELSE outdated
      BY <1>3, <1>13, <2>3, <3>1 DEF SourceBinding
    <3>2. ASSUME cachedSourceBinding[Key(i)] # i
          PROVE  sourceBinding' = [sourceBinding EXCEPT ![Key(i)] = i]
      BY <1>3, <1>13, <2>3, <3>2 DEF SourceBinding
    <3> QED
      BY <3>1, <3>2
  <2>5. sourceBinding'[Key(i)] = i
    BY <1>1, <1>2, <2>4 DEF RightsTypes
  <2> QED
    BY <1>4, <2>1, <2>2, <2>5 DEF Stages, Marked
<1>14. CASE SecretWrite
  <2>1. /\ pass' = None /\ UNCHANGED <<sourceRole, sourceBinding>>
        /\ sourceRole[Key(i)] /\ label.source = i /\ sourceBinding[Key(i)] = i
    BY <1>14 DEF SecretWrite, Done, Abort, At, rights, Safe, Marked
  <2> QED
    BY <1>2, <2>1 DEF Safe, Owns
<1> QED
  BY <1>3, <1>5, <1>6, <1>7, <1>8, <1>9, <1>10, <1>11, <1>12, <1>13, <1>14
     DEF PassStep, At, Ending, Unlabel, Unrole, Unbind, ClusterResources, ManagerLabel, FinalSweep,
         Finalizer

\* The passes of others, which would have to take the label first.
LEMMA KeptOther ==
    ASSUME Typed, ManagerInv, NEW i \in Instances, Taking(i), Safe(i),
           pass # None, Me # i, PassStep \/ CleanUpFails, ~unwritten',
           label' = label, ~behind', i \notin queue'
    PROVE  Safe(i)'
<1>1. /\ WorkTypes /\ RightsTypes /\ pass \in Passes /\ cached = label /\ label \in Labels
      /\ UNCHANGED installation /\ PassKnows
  <2>1. WorkTypes /\ RightsTypes /\ pass \in Passes /\ label \in Labels
    BY TypedParts DEF WorkTypes, WatchTypes
  <2>2. cached = label /\ PassKnows
    BY DEF Taking, Quiet, ManagerInv, CacheKnows
  <2>3. UNCHANGED installation
    BY InstallationStays DEF Next
  <2> QED
    BY <2>1, <2>2, <2>3
<1>2. PICK me \in Instances : me = Me /\ me # i
  BY <1>1 DEF Me, Passes
<1>3. Key(i)' = Key(i) /\ Key(i) \in Instances /\ Key(me) \in Instances
  BY <1>1, KeyStays, KeyIsInstance
<1>4. Owns(i) /\ pass.stage \notin {"unrole", "unbind"}
  BY DEF Safe
<1>5. ~Unlabel /\ ~Unrole /\ ~Unbind
  <2>1. ~Unlabel
    BY <1>1, <1>4, WriteOfSource DEF Unlabel, Owns, Owners
  <2> QED
    BY <1>4, <2>1 DEF Unrole, Unbind, At
<1>6. Owns(i)'
  <2>1. CASE SourceRole
    <3>1. sourceRole[Key(i)] => sourceRole'[Key(i)]
      BY <1>1, <1>2, <1>3, <2>1 DEF SourceRole, RightsTypes
    <3> QED
      BY <1>3, <1>4, <2>1, <3>1 DEF SourceRole, Owns
  <2>2. CASE SourceBinding
    <3>1. cached.source # me /\ sourceRole' = sourceRole
      BY <1>1, <1>2, <1>4, <2>2 DEF SourceBinding, Owns
    <3>2. \/ sourceBinding' = sourceBinding
          \/ /\ sourceBinding[Key(me)] = None
             /\ sourceBinding' = [sourceBinding EXCEPT ![Key(me)] = me]
      BY <1>2, <2>2, <3>1 DEF SourceBinding
    <3>3. sourceBinding'[Key(i)] = i
      BY <1>1, <1>3, <1>4, <3>2 DEF Owns, RightsTypes
    <3> QED
      BY <1>3, <1>4, <3>1, <3>3 DEF Owns
  <2>3. CASE ClusterResources
    <3>1. i \notin Namesakes(me) /\ sourceRole' = sourceRole
      BY <1>2, <2>3 DEF ClusterResources, Taking, Alive
    <3>2. Key(me) # Key(i)
      BY <1>2, <3>1 DEF Namesakes
    <3>3. sourceBinding'[Key(i)] = sourceBinding[Key(i)]
      BY <1>1, <1>2, <1>3, <2>3, <3>2 DEF ClusterResources, RightsTypes
    <3> QED
      BY <1>3, <1>4, <3>1, <3>3 DEF Owns
  <2>4. CASE ~(SourceRole \/ SourceBinding \/ ClusterResources)
    <3>1. UNCHANGED <<sourceRole, sourceBinding>>
      BY <1>5, <2>4 DEF PassStep, CleanUpFails, Restore, Snapshot, Allowed, Roles, SetSource, Sweep,
                        Bindings, SecretRead, SecretWrite, ManagerLabel, FinalSweep, Finalizer,
                        objects, rights
    <3> QED
      BY <1>3, <1>4, <3>1 DEF Owns
  <2> QED
    BY <2>1, <2>2, <2>3, <2>4
<1>7. pass' # None => Me' # i /\ pass'.stage \notin {"unrole", "unbind"}
  <2> SUFFICES ASSUME pass' # None PROVE Me' # i /\ pass'.stage \notin {"unrole", "unbind"}
    OBVIOUS
  <2>1. CASE Snapshot \/ SecretRead
    BY <1>1, <1>2, <2>1, TakesNote
  <2>2. CASE ~(Snapshot \/ SecretRead)
    <3>1. \/ \E s \in Stages \ {"unrole", "unbind"} : Goto(s)
          \/ \E s \in Stages : CleanUp(s)
      <4>1. CASE CleanUpFails
        <5>1. Goto("sweep") \/ Goto(pass.after)
          BY <4>1 DEF CleanUpFails
        <5>2. pass.after \in Stages \ {"unrole", "unbind"}
          BY <1>1 DEF PassKnows, Resumed, Stages
        <5> QED
          BY <5>1, <5>2 DEF Stages
      <4>2. CASE Restore \/ Allowed \/ Roles \/ SourceRole \/ SetSource \/ Sweep
        BY <4>2 DEF Restore, Allowed, Roles, SourceRole, SetSource, Sweep, Abort, Stages
      <4>3. CASE Bindings \/ SourceBinding \/ ClusterResources \/ ManagerLabel \/ FinalSweep
        BY <4>3 DEF Bindings, SourceBinding, ClusterResources, ManagerLabel, FinalSweep, Abort,
                    Stages
      <4>4. CASE SecretWrite \/ Finalizer
        BY <4>4 DEF SecretWrite, Finalizer, Done, Abort
      <4> QED
        BY <1>5, <2>2, <4>1, <4>2, <4>3, <4>4 DEF PassStep
    <3> QED
      BY <1>1, <1>2, <3>1, GoesOn, CleansUp DEF Goto
  <2> QED
    BY <2>1, <2>2
<1> QED
  BY <1>6, <1>7 DEF Safe

LEMMA KeptBegin ==
    ASSUME Typed, SourcesKept, NEW i \in Instances, i \in cluster, NEW j \in Instances,
           Taking(i)', Begin(j)
    PROVE  Kept(i)'
<1>1. /\ WorkTypes /\ pass = None /\ queue' = queue \ {j} /\ outdated' = outdated \ {j}
      /\ UNCHANGED <<installation, life, lists, label, behind, notices, handler, sourceRole,
                     sourceBinding, unwritten>>
      /\ life \in [Instances -> {"up", "deleting", "gone"}]
  BY TypedParts DEF Begin, users, stored, watch, objects, rights, UserTypes
<1>2. Owns(i)' <=> Owns(i)
  BY <1>1, KeyStays DEF Owns, installation
<1>3. life[i] = "up" /\ lists[i] = "glob" /\ (i # j => Taking(i))
  BY <1>1 DEF Taking, Quiet
<1>4. i # j => i \in outdated' \/ Owns(i)'
  BY <1>1, <1>2, <1>3 DEF SourcesKept, Kept, Safe
<1>5. CASE pass' = None
  <2>1. i # j
    BY <1>1, <1>3, <1>5, BeginsUp
  <2> QED
    BY <1>4, <1>5, <2>1 DEF Kept, Safe
<1>6. CASE pass' # None
  <2>1. /\ Me' = j /\ pass'.stage \in {"restore", "clusterResources"}
        /\ i = j => pass'.stage = "restore" /\ pass'.lists
    BY <1>1, <1>3, <1>6, Begins
  <2> QED
    BY <1>4, <1>6, <2>1 DEF Kept, Safe, Marked
<1> QED
  BY <1>5, <1>6

LEMMA SourcesKeptStep ==
    ASSUME Typed, ManagerInv, SourcesKept, [Next]_vars
    PROVE  SourcesKept'
<1>1. UNCHANGED cluster /\ cluster \subseteq Instances /\ WorkTypes
  BY TypedParts, InstallationStays DEF installation, UserTypes
<1> SUFFICES ASSUME NEW i \in Instances, i \in cluster, Taking(i)' PROVE Kept(i)'
  BY <1>1 DEF SourcesKept
<1>2. Taking(i) => Kept(i)
  BY DEF SourcesKept
<1>3. CASE PassStep \/ CleanUpFails \/ PassFails
  <2>1. /\ Taking(i) /\ Kept(i) /\ label' = label /\ ~behind' /\ i \notin queue' /\ ~unwritten'
        /\ outdated \subseteq outdated'
    BY <1>2, <1>3, TakingBefore DEF Taking
  <2>2. pass # None
    BY <1>3 DEF PassStep, CleanUpFails, PassFails, Restore, Snapshot, Allowed, Roles, SourceRole,
         SetSource, Sweep, Unlabel, Unrole, Unbind, Bindings, SourceBinding, SecretRead,
         SecretWrite, ClusterResources, ManagerLabel, FinalSweep, Finalizer, At
  <2>3. CASE i \in outdated
    BY <2>1, <2>3 DEF Kept
  <2>4. CASE Safe(i) /\ PassFails
    <3>1. Me # i /\ pass' = None /\ UNCHANGED <<installation, sourceRole, sourceBinding>>
      BY <2>1, <2>4 DEF PassFails, Abort, users, objects, rights
    <3> QED
      BY <2>1, <2>2, <2>4, <3>1, KeyStays DEF Kept, Safe, Owns
  <2>5. CASE Safe(i) /\ PassStep /\ Me = i
    BY <2>1, <2>2, <2>5, KeptOwn
  <2>6. CASE Safe(i) /\ CleanUpFails /\ Me = i
    BY <2>1, <2>2, <2>6 DEF CleanUpFails, Safe, At
  <2>7. CASE Safe(i) /\ (PassStep \/ CleanUpFails) /\ Me # i
    BY <2>1, <2>2, <2>7, KeptOther DEF Kept
  <2> QED
    BY <1>3, <2>1, <2>3, <2>4, <2>5, <2>6, <2>7 DEF Kept
<1>4. CASE \E j \in Instances : Begin(j)
  BY <1>4, KeptBegin
<1>5. CASE \/ \E j \in Instances : Delete(j)
           \/ \E j \in Instances, how \in {"no", "glob", "regex"} : EditSources(j, how)
           \/ ShowRoles \/ ShowBindings \/ ShowSecrets
           \/ UNCHANGED vars
  <2>1. /\ queue \subseteq queue'
        /\ UNCHANGED <<installation, label, behind, notices, handler, sourceRole, sourceBinding,
                       pass, unwritten, outdated>>
    BY <1>5 DEF Delete, EditSources, ShowRoles, ShowBindings, ShowSecrets, vars, stored, objects,
                rights, gaps
  <2>2. life'[i] = "up" => life[i] = "up"
    BY <1>5, TypedParts DEF Delete, EditSources, ShowRoles, ShowBindings, ShowSecrets, vars,
                            UserTypes
  <2>3. lists'[i] = "glob" /\ i \notin queue' => lists[i] = "glob"
    BY <1>5, TypedParts DEF Delete, EditSources, ShowRoles, ShowBindings, ShowSecrets, vars,
                            UserTypes
  <2>4. Taking(i)
    BY <2>1, <2>2, <2>3 DEF Taking, Quiet
  <2>5. (Owns(i)' <=> Owns(i)) /\ Key(i)' = Key(i) /\ Me' = Me
    BY <2>1, KeyStays DEF Owns, Me
  <2> QED
    BY <1>2, <2>1, <2>4, <2>5 DEF Kept, Safe
<1>6. CASE \/ \E j \in Owners : SetManager(j) \/ SetAppset(j)
           \/ CacheUpdate \/ HandlerStep \/ PurgeFails \/ Restart
  BY <1>6, NotQuiet, ThenQueued DEF HandlerStep, Taking
<1> QED
  BY <1>3, <1>4, <1>5, <1>6 DEF Next

\* A cluster-wide instance that claims the namespace by a glob ends up with label,
\* role and binding, if no mark on the namespace was lost, its last pass did not see in
\* an old cache what was deleted already, no instance manages the namespace or has its
\* ApplicationSets there, and no other one's label is stuck to it; with any number of
\* other claimers, of them of the same name or being deleted.  Nothing else is needed
\* because a pass that cleans up writes the label before it takes role and binding
\* away, and the update that this causes queues the owner behind it.
THEOREM OwnersHaveTheirRights == Spec => []SourceHasRights
<1>1. Init => Typed /\ ManagerInv /\ SourcesKept
  BY TypedInit, ManagerInit, SourcesInit
<1>2. Typed /\ ManagerInv /\ SourcesKept /\ [Next]_vars => (Typed /\ ManagerInv /\ SourcesKept)'
  BY TypedStep, ManagerInvStep, SourcesKeptStep
<1>3. Typed /\ SourcesKept => SourceHasRights
  <2> SUFFICES ASSUME Typed, SourcesKept, NEW i \in cluster,
                      Settled, ~unwritten, i \notin outdated, life[i] = "up", lists[i] = "glob",
                      label.manager = None, label.appset \in {None, i}, label.source \in {None, i}
               PROVE  label.source = i /\ sourceRole[Key(i)] /\ sourceBinding[Key(i)] = i
    BY DEF SourceHasRights
  <2>1. Taking(i) /\ pass = None
    BY DEF Settled, Taking, Quiet, Idle
  <2> QED
    BY <2>1 DEF SourcesKept, Kept, Safe, Owns
<1> QED
  BY <1>1, <1>2, <1>3, PTL DEF Spec
=============================================================================
