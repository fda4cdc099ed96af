--------------------------- MODULE InstanceProofs ---------------------------
(***************************************************************************)
(* What is proved of the reconciliation of one object, for every catalogue *)
(* of reconcilers, every cluster and any number of disturbances.           *)
(***************************************************************************)
EXTENDS Instance, TLAPS, SequenceTheorems, WellFoundedInduction

-----------------------------------------------------------------------------
(* The tables *)

LEMMA ReadsOf == ASSUME NEW o \in Objects PROVE Reads(o) = Rec(o, {}).reads
BY DEF Reads, Constant

LEMMA PartsOf ==
    ASSUME NEW o \in Objects
    PROVE  /\ Parts(o) = 1..Rec(o, {}).parts
           /\ Rec(o, {}).parts \in Nat \ {0}
           /\ 1 \in Parts(o)
<1>1. Parts(o) = 1..Rec(o, {}).parts
  BY DEF Parts, Constant
<1>2. Rec(o, {}).parts \in Nat \ {0}
  BY PartsAssumption
<1> QED
  BY <1>1, <1>2

LEMMA CatalogueOf ==
    ASSUME NEW o \in Objects, NEW on \in SUBSET Reads(o)
    PROVE  Catalogue[o][on] = Rec(o, on)
BY DEF Catalogue

\* Fields that are sampled are fields.
LEMMA SamplesAreFields ==
    ASSUME NEW o \in Objects, NEW f \in Samples[o]
    PROVE  f \in Fields(o)
<1>1. PICK g \in Fields(o) : f = CHOOSE h \in Fields(o) : Alike(o, g, h)
  BY DEF Samples
<1>2. Alike(o, g, g)
  BY DEF Alike
<1> QED
  BY <1>1, <1>2

-----------------------------------------------------------------------------
(* Types *)

Clusters(o) == [Parts(o) -> Values]

\* The choice of what to look at, as a record.
FocusOK == focus \in [object : Objects, field : UNION {Fields(o) : o \in Objects}]
Typed   == TypeOK /\ FocusOK

LEMMA TypedInit == Init => Typed
<1> SUFFICES ASSUME Init PROVE Typed
  OBVIOUS
<1>1. PICK o \in Objects : \E f \in Samples[o], x \in {Absent, Drift} :
          /\ focus = [object |-> o, field |-> f]
          /\ cr \in CRs(o)
          /\ versions = <<[i \in Parts(o) |-> x]>>
          /\ mark = <<IF Constant[o].gated /\ x = Drift THEN "true" ELSE "none">>
          /\ unnoticed = (x = Drift /\ ~Rec(o, cr.on).visited)
  BY DEF Init
<1>2. PICK f \in Samples[o], x \in {Absent, Drift} :
          /\ focus = [object |-> o, field |-> f]
          /\ cr \in CRs(o)
          /\ versions = <<[i \in Parts(o) |-> x]>>
          /\ mark = <<IF Constant[o].gated /\ x = Drift THEN "true" ELSE "none">>
          /\ unnoticed = (x = Drift /\ ~Rec(o, cr.on).visited)
  BY <1>1
<1>3. f \in Fields(o)
  BY SamplesAreFields
<1>4. FocusOK /\ focus.object = o /\ focus.field = f
  BY <1>2, <1>3 DEF FocusOK
<1>5. /\ versions \in Seq([Parts(o) -> Values]) /\ versions # <<>>
      /\ mark \in Seq(Labels) /\ mark # <<>>
  <2>1. [i \in Parts(o) |-> x] \in [Parts(o) -> Values]
    BY DEF Values
  <2>2. (IF Constant[o].gated /\ x = Drift THEN "true" ELSE "none") \in Labels
    BY DEF Labels
  <2> HIDE DEF Values, Labels
  <2> QED
    BY <1>2, <2>1, <2>2
<1>6. told \in CRs(o) /\ pass = None
  BY <1>2 DEF Init
<1>7. queued \in BOOLEAN /\ unnoticed \in BOOLEAN
  BY <1>2 DEF Init
<1>8. disturbances \in 0..MaxDisturbances(o)
  BY DisturbancesAssumption DEF Init
<1> QED
  BY <1>2, <1>3, <1>4, <1>5, <1>6, <1>7, <1>8 DEF Typed, TypeOK

LEMMA DisturbTyped ==
    ASSUME Typed, Disturb, focus' = focus
    PROVE  (disturbances \in 0..MaxDisturbances(focus.object))'
BY DisturbancesAssumption DEF Typed, TypeOK, Disturb

LEMMA CRsAreRequests ==
    ASSUME NEW o \in Objects, NEW c \in CRs(o)
    PROVE  /\ c.on \in SUBSET Reads(o) /\ c.ver \in Versions
           /\ c \in Requests
<1>1. c.on \in SUBSET Reads(o) /\ c.ver \in Versions
  BY DEF CRs
<1>2. c.on \in SUBSET UNION {Reads(p) : p \in Objects}
  BY <1>1
<1> QED
  BY <1>1, <1>2 DEF CRs, Requests

-----------------------------------------------------------------------------
(* What a reconciler writes *)

LEMMA WrittenTyped ==
    ASSUME NEW r, NEW v \in Versions
    PROVE  /\ Desired(r, v) \in Versions
           /\ NewValue(r, v) \in Values
           /\ \A x \in Values : FoundValue(r, v, x) \in Values
<1>1. Desired(r, v) \in Versions
  BY DEF Desired, Versions
<1>2. NewValue(r, v) \in Values
  BY <1>1 DEF NewValue, Values
<1>3. ASSUME NEW x \in Values PROVE FoundValue(r, v, x) \in Values
  BY <1>1, <1>3 DEF FoundValue, Values
<1> QED
  BY <1>1, <1>2, <1>3

LEMMA DesiredIsPresent ==
    ASSUME NEW r, NEW v \in Versions
    PROVE  Desired(r, v) # Absent
BY AbsentAssumption, WrittenTyped DEF Versions

-----------------------------------------------------------------------------
(* Versions *)

LEMMA RestTyped ==
    ASSUME Typed
    PROVE  /\ focus.object \in Objects
           /\ cr \in CRs(focus.object) /\ told \in CRs(focus.object)
           /\ versions \in Seq(Clusters(focus.object)) /\ Len(versions) \in Nat \ {0}
           /\ cluster \in Clusters(focus.object) /\ shown \in Clusters(focus.object)
           /\ DOMAIN cluster = Parts(focus.object) /\ DOMAIN shown = Parts(focus.object)
           /\ Current => shown = cluster
           /\ queued \in BOOLEAN /\ unnoticed \in BOOLEAN
           /\ pass \in CRs(focus.object) \cup {None}
           /\ disturbances \in 0..MaxDisturbances(focus.object)
<1> DEFINE C == Clusters(focus.object)
<1>1. versions \in Seq(C) /\ versions # <<>>
  BY DEF Typed, TypeOK, Clusters
<1>2. Len(versions) \in Nat \ {0} /\ cluster \in C /\ shown \in C
  <2> HIDE DEF C
  <2> QED
    BY <1>1 DEF cluster, shown
<1>3. DOMAIN cluster = Parts(focus.object) /\ DOMAIN shown = Parts(focus.object)
  BY <1>2 DEF Clusters
<1>4. Current => shown = cluster
  BY DEF Current, shown, cluster
<1> QED
  BY <1>1, <1>2, <1>3, <1>4 DEF Typed, TypeOK

LEMMA MarkTyped ==
    ASSUME Typed
    PROVE  /\ mark \in Seq(Labels) /\ Len(mark) \in Nat \ {0}
           /\ label \in Labels /\ labelShown \in Labels
           /\ Len(mark) = 1 => label = labelShown
<1> USE DEF Typed, TypeOK, label, labelShown
<1> QED
  OBVIOUS

\* What was written is what is stored, and the informer shows nothing of it yet.
LEMMA Storing ==
    ASSUME Typed, NEW c \in Clusters(focus.object), Store(c)
    PROVE  /\ versions' \in Seq(Clusters(focus.object)) /\ versions' # <<>>
           /\ cluster' = c /\ shown' = shown
           /\ Current' => Current /\ c = cluster
<1> DEFINE C == Clusters(focus.object)
<1>1. versions \in Seq(C) /\ Len(versions) \in Nat \ {0}
  BY RestTyped
<1> HIDE DEF C
<1>2. CASE c = cluster
  <2>1. versions' = versions
    BY <1>2 DEF Store
  <2> QED
    BY <1>1, <1>2, <2>1 DEF cluster, shown, Current, C
<1>3. CASE c # cluster
  <2>1. versions' = Append(versions, c)
    BY <1>3 DEF Store
  <2>2. Len(versions') = Len(versions) + 1 /\ versions' \in Seq(C)
    BY <1>1, <2>1 DEF C
  <2>3. versions'[Len(versions')] = c /\ versions'[1] = versions[1]
    BY <1>1, <2>1, <2>2
  <2> QED
    BY <1>1, <2>2, <2>3 DEF cluster, shown, Current, C
<1> QED
  BY <1>2, <1>3

LEMMA Keeping ==
    ASSUME versions' = versions
    PROVE  cluster' = cluster /\ shown' = shown /\ (Current' <=> Current)
BY DEF cluster, shown, Current

LEMMA Observing ==
    ASSUME Typed, Observe
    PROVE  /\ versions' \in Seq(Clusters(focus.object)) /\ versions' # <<>>
           /\ cluster' = cluster
<1> DEFINE C == Clusters(focus.object)
<1>1. versions \in Seq(C) /\ Len(versions) \in Nat \ {0} /\ Len(versions) # 1
  BY RestTyped DEF Observe, Current
<1> HIDE DEF C
<1>2. versions' = Tail(versions)
  BY DEF Observe
<1>3. versions' \in Seq(C) /\ Len(versions') = Len(versions) - 1
  BY <1>1, <1>2
<1>4. versions'[Len(versions')] = versions[Len(versions)]
  BY <1>1, <1>2, <1>3
<1> QED
  BY <1>1, <1>3, <1>4 DEF cluster, C

\* The same of the label.
LEMMA Marking ==
    ASSUME Typed, NEW l \in Labels, mark' = Append(mark, l)
    PROVE  /\ mark' \in Seq(Labels) /\ mark' # <<>> /\ Len(mark') # 1
           /\ label' = l
<1>1. mark \in Seq(Labels) /\ Len(mark) \in Nat \ {0}
  BY MarkTyped
<1>2. mark' \in Seq(Labels) /\ Len(mark') = Len(mark) + 1
  BY <1>1
<1>3. mark'[Len(mark')] = l
  BY <1>1, <1>2
<1> QED
  BY <1>1, <1>2, <1>3 DEF label

LEMMA ObservingLabel ==
    ASSUME Typed, ObserveLabel
    PROVE  mark' \in Seq(Labels) /\ mark' # <<>> /\ label' = label
<1>1. mark \in Seq(Labels) /\ Len(mark) \in Nat \ {0} /\ Len(mark) > 1 /\ mark' = Tail(mark)
  BY MarkTyped DEF ObserveLabel
<1>2. mark' \in Seq(Labels) /\ Len(mark') = Len(mark) - 1
  BY <1>1
<1>3. mark'[Len(mark')] = mark[Len(mark)]
  BY <1>1, <1>2
<1>4. Len(mark') # 0
  BY <1>1, <1>2
<1>5. mark' # <<>>
  BY <1>4
<1> QED
  BY <1>2, <1>3, <1>5 DEF label

LEMMA MarkedTyped ==
    ASSUME Typed, NEW r, mark' = Marked(r)
    PROVE  /\ mark' \in Seq(Labels) /\ mark' # <<>>
           /\ Marks(r) => label' = MarkFor(r)
           /\ ~Marks(r) => label' = label /\ mark' = mark
<1>1. MarkFor(r) \in Labels
  BY DEF MarkFor, Labels
<1>2. CASE Marks(r) /\ label # MarkFor(r)
  BY <1>1, <1>2, Marking DEF Marked
<1>3. CASE ~(Marks(r) /\ label # MarkFor(r))
  BY <1>3, MarkTyped DEF Marked, label
<1> QED
  BY <1>2, <1>3

-----------------------------------------------------------------------------
(* What a pass writes, by types *)

\* The copies before the first one that is shown are missing, as far as is shown.
LEMMA FirstShownIsFirst ==
    ASSUME Typed
    PROVE  /\ Len(shown) \in Nat
           /\ DOMAIN shown = 1..Len(shown)
           /\ FirstShown \in 1..(Len(shown) + 1)
           /\ \A i \in DOMAIN shown : i < FirstShown => ~Shown(i)
<1> DEFINE n == Rec(focus.object, {}).parts
           found == {i \in DOMAIN shown : Shown(i)}
           First(i) == Shown(i) /\ \A j \in DOMAIN shown : j < i => ~Shown(j)
<1>1. n \in Nat \ {0} /\ shown \in [1..n -> Values]
  BY PartsOf, RestTyped DEF Clusters
<1>2. shown \in Seq(Values) /\ Len(shown) = n /\ DOMAIN shown = 1..n
  BY <1>1
<1>3. CASE \E i \in DOMAIN shown : Shown(i)
  <2>1. found \subseteq Nat /\ found # {}
    BY <1>2, <1>3
  <2>2. PICK i \in found : \A j \in found : ~(<<j, i>> \in OpToRel(<, Nat))
    BY <2>1, NatLessThanWellFounded, WFMin
  <2>3. \A j \in found : ~(j < i)
    BY <2>1, <2>2 DEF OpToRel
  <2>4. i \in DOMAIN shown /\ First(i)
    BY <2>3
  <2>5. FirstShown = CHOOSE k \in DOMAIN shown : First(k)
    BY <1>3 DEF FirstShown
  <2>6. FirstShown \in DOMAIN shown /\ First(FirstShown)
    BY <2>4, <2>5
  <2> QED
    BY <1>2, <2>6
<1>4. CASE ~\E i \in DOMAIN shown : Shown(i)
  <2>1. FirstShown = n + 1
    BY <1>2, <1>4 DEF FirstShown
  <2> QED
    BY <1>1, <1>2, <1>4, <2>1
<1> QED
  BY <1>3, <1>4

LEMMA ReconciledTyped ==
    ASSUME Typed, NEW r, NEW v \in Versions, NEW upto
    PROVE  Reconciled(r, v, upto) \in Clusters(focus.object)
<1>1. shown \in [Parts(focus.object) -> Values] /\ DOMAIN shown = Parts(focus.object)
  BY RestTyped DEF Clusters
<1>2. 1 \in Parts(focus.object)
  BY PartsOf DEF Typed, TypeOK
<1>3. FoundValue(r, v, shown[1]) \in Values
  BY <1>1, <1>2, WrittenTyped
<1>4. [shown EXCEPT ![1] = FoundValue(r, v, @)] \in [Parts(focus.object) -> Values]
  BY <1>1, <1>2, <1>3
<1>5. NewValue(r, v) \in Values
  BY WrittenTyped
<1>6. [i \in DOMAIN shown |-> IF i < upto THEN NewValue(r, v) ELSE shown[i]]
        \in [Parts(focus.object) -> Values]
  BY <1>1, <1>5
<1> QED
  BY <1>1, <1>4, <1>6 DEF Reconciled, Clusters

LEMMA ResultTyped ==
    ASSUME Typed, NEW r, NEW y \in Clusters(focus.object)
    PROVE  Result(r, y) \in Clusters(focus.object)
<1>1. cluster \in Clusters(focus.object) /\ DOMAIN cluster = Parts(focus.object)
  BY RestTyped
<1>2. Written(r, y) \in Clusters(focus.object)
  BY <1>1 DEF Written, Clusters
<1>3. [i \in DOMAIN cluster |-> Absent] \in Clusters(focus.object)
  BY <1>1 DEF Clusters, Values
<1> QED
  BY <1>1, <1>2, <1>3 DEF Result

\* What a step has to leave in order.
LEMMA TypedAgain ==
    ASSUME Typed, focus' = focus,
           cr' \in CRs(focus.object), told' \in CRs(focus.object),
           versions' \in Seq(Clusters(focus.object)) /\ versions' # <<>>,
           mark' \in Seq(Labels) /\ mark' # <<>>,
           queued' \in BOOLEAN, unnoticed' \in BOOLEAN,
           pass' \in CRs(focus.object) \cup {None},
           disturbances' \in 0..MaxDisturbances(focus.object)
    PROVE  Typed'
BY DEF Typed, TypeOK, FocusOK, Clusters

LEMMA VersionsStay ==
    ASSUME Typed, UNCHANGED versions
    PROVE  versions' \in Seq(Clusters(focus.object)) /\ versions' # <<>>
BY DEF Typed, TypeOK, Clusters

LEMMA MarkStays ==
    ASSUME Typed, UNCHANGED mark
    PROVE  mark' \in Seq(Labels) /\ mark' # <<>>
BY DEF Typed, TypeOK

LEMMA PurgedTyped ==
    ASSUME Typed, NEW r
    PROVE  Purged(r) \in Clusters(focus.object)
BY RestTyped DEF Purged, Clusters, Values

LEMMA TamperedTyped ==
    ASSUME Typed, NEW i \in DOMAIN cluster, NEW x \in Values
    PROVE  [cluster EXCEPT ![i] = x] \in Clusters(focus.object)
BY RestTyped DEF Clusters

\* What a pass that fails may have written.
LEMMA FailStores ==
    ASSUME Typed, Fail
    PROVE  LET r == R(pass)
               v == pass.ver
           IN  /\ pass \in CRs(focus.object) /\ v \in Versions
               /\ \/ UNCHANGED <<versions, mark>>
                  \/ /\ Reaches(r) /\ ~Refusal(r, v) /\ ~r.blocked
                     /\ mark' = Marked(r)
                     /\ \E c \in Clusters(focus.object) :
                           /\ Store(c)
                           /\ \/ c = cluster
                              \/ \E upto \in 1..FirstShown : c = Result(r, Reconciled(r, v, upto))
                              \/ HalfReplaced(r, v) /\ c = [cluster EXCEPT ![1] = Absent]
<1> DEFINE r == R(pass)
           v == pass.ver
<1>1. pass \in CRs(focus.object) /\ v \in Versions
  BY RestTyped, CRsAreRequests DEF Fail
<1>2. cluster \in Clusters(focus.object)
  BY RestTyped
<1>3. \A upto : Result(r, Reconciled(r, v, upto)) \in Clusters(focus.object)
  BY <1>1, ReconciledTyped, ResultTyped
<1>4. [cluster EXCEPT ![1] = Absent] \in Clusters(focus.object)
  <2>1. 1 \in DOMAIN cluster /\ Absent \in Values
    BY RestTyped, PartsOf DEF Values
  <2> QED
    BY <2>1, TamperedTyped
<1>5. 1 \in 1..FirstShown /\ \A upto \in 2..FirstShown : upto \in 1..FirstShown
  BY FirstShownIsFirst
<1>6. CASE UNCHANGED <<versions, mark>>
  BY <1>1, <1>6
<1>7. CASE ~UNCHANGED <<versions, mark>>
  <2>1. Reaches(r) /\ ~Refusal(r, v) /\ ~r.blocked /\ mark' = Marked(r)
    BY <1>7 DEF Fail
  <2>2. \/ Store(cluster)
        \/ \E upto \in 2..FirstShown : Store(Result(r, Reconciled(r, v, upto)))
        \/ Store(Result(r, Reconciled(r, v, 1)))
        \/ HalfReplaced(r, v) /\ Store([cluster EXCEPT ![1] = Absent])
    BY <1>7 DEF Fail
  <2>3. \E c \in Clusters(focus.object) :
           /\ Store(c)
           /\ \/ c = cluster
              \/ \E upto \in 1..FirstShown : c = Result(r, Reconciled(r, v, upto))
              \/ HalfReplaced(r, v) /\ c = [cluster EXCEPT ![1] = Absent]
    BY <1>2, <1>3, <1>4, <1>5, <2>2
  <2> QED
    BY <1>1, <2>1, <2>3
<1> QED
  BY <1>6, <1>7

LEMMA ReconcileStores ==
    ASSUME Typed, Reconcile
    PROVE  /\ pass \in CRs(focus.object) /\ pass.ver \in Versions
           /\ \A upto : Reconciled(R(pass), pass.ver, upto) \in Clusters(focus.object)
           /\ Result(R(pass), Reconciled(R(pass), pass.ver, FirstShown))
                  \in Clusters(focus.object)
<1>1. pass \in CRs(focus.object) /\ pass.ver \in Versions
  BY RestTyped, CRsAreRequests DEF Reconcile
<1> QED
  BY <1>1, ReconciledTyped, ResultTyped

LEMMA TypedStep == Typed /\ [Next]_vars => Typed'
<1> SUFFICES ASSUME Typed, [Next]_vars PROVE Typed'
  OBVIOUS
<1> USE RestTyped
<1>1. CASE EditSwitches
  <2>1. cr' \in CRs(focus.object)
    BY <1>1 DEF EditSwitches, CRs
  <2> QED
    BY <1>1, <2>1, DisturbTyped, VersionsStay, MarkStays, TypedAgain DEF EditSwitches
<1>2. CASE EditField
  <2>1. cr' \in CRs(focus.object)
    BY <1>2 DEF EditField, CRs, Versions
  <2> QED
    BY <1>2, <2>1, DisturbTyped, VersionsStay, MarkStays, TypedAgain DEF EditField
<1>3. CASE Deliver
  <2>1. versions' \in Seq(Clusters(focus.object)) /\ versions' # <<>>
    BY <1>3, PurgedTyped, Storing DEF Deliver
  <2>2. unnoticed' \in BOOLEAN
    BY <1>3 DEF Deliver
  <2> QED
    BY <1>3, <2>1, <2>2, MarkStays, TypedAgain DEF Deliver
<1>4. CASE PurgeFails
  BY <1>4, DisturbTyped, VersionsStay, MarkStays, TypedAgain DEF PurgeFails
<1>5. CASE Tamper
  <2>1. PICK i \in DOMAIN cluster, x \in {Absent, Drift} : Store([cluster EXCEPT ![i] = x])
    BY <1>5 DEF Tamper
  <2>2. x \in Values
    BY DEF Values
  <2>3. versions' \in Seq(Clusters(focus.object)) /\ versions' # <<>>
    BY <2>1, <2>2, TamperedTyped, Storing
  <2>4. unnoticed' \in BOOLEAN
    BY <1>5 DEF Tamper
  <2> QED
    BY <1>5, <2>3, <2>4, DisturbTyped, MarkStays, TypedAgain DEF Tamper
<1>6. CASE Unlabel
  <2>1. mark' \in Seq(Labels) /\ mark' # <<>>
    BY <1>6, Marking DEF Unlabel, Labels
  <2> QED
    BY <1>6, <2>1, DisturbTyped, VersionsStay, TypedAgain DEF Unlabel
<1>7. CASE Observe
  <2>1. queued' \in BOOLEAN
    BY <1>7 DEF Observe
  <2> QED
    BY <1>7, <2>1, Observing, MarkStays, TypedAgain DEF Observe
<1>8. CASE ObserveLabel
  BY <1>8, ObservingLabel, VersionsStay, TypedAgain DEF ObserveLabel
<1>9. CASE Begin
  BY <1>9, VersionsStay, MarkStays, TypedAgain DEF Begin
<1>10. CASE Reconcile
  <2>1. versions' \in Seq(Clusters(focus.object)) /\ versions' # <<>>
    BY <1>10, ReconcileStores, Storing DEF Reconcile
  <2>2. mark' \in Seq(Labels) /\ mark' # <<>>
    BY <1>10, MarkedTyped DEF Reconcile
  <2>3. queued' \in BOOLEAN /\ unnoticed' \in BOOLEAN
    BY <1>10 DEF Reconcile
  <2> QED
    BY <1>10, <2>1, <2>2, <2>3, TypedAgain DEF Reconcile
<1>11. CASE Refused
  BY <1>11, VersionsStay, MarkStays, TypedAgain DEF Refused
<1>12. CASE Fail
  <2>1. versions' \in Seq(Clusters(focus.object)) /\ versions' # <<>>
    BY <1>12, FailStores, VersionsStay, Storing
  <2>2. mark' \in Seq(Labels) /\ mark' # <<>>
    BY <1>12, FailStores, MarkStays, MarkedTyped
  <2>3. queued' \in BOOLEAN /\ unnoticed' \in BOOLEAN
    BY <1>12 DEF Fail
  <2> QED
    BY <1>12, <2>1, <2>2, <2>3, DisturbTyped, TypedAgain DEF Fail
<1>13. CASE Restart
  <2>1. unnoticed' \in BOOLEAN
    BY <1>13 DEF Restart
  <2>2. <<cluster>> \in Seq(Clusters(focus.object)) /\ <<cluster>> # <<>>
    OBVIOUS
  <2>3. <<label>> \in Seq(Labels) /\ <<label>> # <<>>
    BY MarkTyped
  <2> QED
    BY <1>13, <2>1, <2>2, <2>3, DisturbTyped, TypedAgain DEF Restart
<1>14. CASE UNCHANGED vars
  BY <1>14, VersionsStay, MarkStays, TypedAgain DEF vars
<1> QED
  BY <1>1, <1>2, <1>3, <1>4, <1>5, <1>6, <1>7, <1>8, <1>9, <1>10, <1>11, <1>12, <1>13,
     <1>14 DEF Next, Informer, Worker

\* The copies of the object, the resource as everybody knows it and the count of
\* disturbances stay within their types: no reconciler makes a copy too many, and
\* what it writes is a version of the field.
THEOREM TypeCorrect == Spec => []TypeOK
<1>1. Spec => []Typed
  BY TypedInit, TypedStep, PTL DEF Spec
<1>2. Typed => TypeOK
  BY DEF Typed
<1> QED
  BY <1>1, <1>2, PTL

-----------------------------------------------------------------------------
(* The promise *)

\* What Honest says of a request that is worked on.
HonestFor(r, on) ==
    /\ r.visited /\ r.wanted => r.keep /\ r.early \cap r.drops = {}
    /\ r.visited /\ (r.make \/ (r.keep /\ r.replaces # {})) => r.wanted
    /\ r.purged \ on # {} => ~r.wanted

LEMMA RequestIsHonest ==
    ASSUME HonestCatalogue, Typed, NEW req \in CRs(focus.object)
    PROVE  Departs(focus.object, req.on) \/ HonestFor(R(req), req.on)
<1>1. focus.object \in Objects /\ req.on \in SUBSET Reads(focus.object)
  BY RestTyped, CRsAreRequests
<1>2. R(req) = Rec(focus.object, req.on)
  BY <1>1, CatalogueOf DEF R
<1> QED
  BY <1>1, <1>2 DEF HonestCatalogue, Honest, HonestFor

\* To a copy the reconciler finds, if its write is accepted: a deletion and a
\* replacement of any that is there, an update of the one it was shown.
LEMMA FoundIsNearer ==
    ASSUME NEW r, NEW on, HonestFor(r, on), r.visited, NEW v \in Versions,
           NEW seen \in Values, seen # Absent, NEW x \in Values, x # Absent,
           FoundValue(r, v, seen) # seen,
           \/ seen = x
           \/ FoundValue(r, v, seen) = Absent
           \/ focus.field \in r.replaces \ r.early
    PROVE  FoundValue(r, v, seen) \in CopyNearer(r, focus.field, v, seen, x)
<1> DEFINE f == focus.field
           y == FoundValue(r, v, seen)
           updated == IF seen = x THEN {Desired(r, v)} ELSE {}
<1>1. y = Absent \/ (y = Desired(r, v) /\ Differs(r, v, seen))
  BY DEF FoundValue
<1>2. CASE ~r.wanted
  <2>1. CopyNearer(r, f, v, seen, x) = {Absent} \cup updated
    BY <1>2 DEF CopyNearer, Desired
  <2>2. f \in r.replaces \ r.early => y = Absent
    BY <1>2 DEF FoundValue, HonestFor
  <2> QED
    BY <1>1, <2>1, <2>2
<1>3. CASE r.wanted
  <2>1. r.keep /\ ~(f \in r.early /\ f \in r.drops)
    BY <1>3 DEF HonestFor
  <2>2. Differs(r, v, seen)
    BY <2>1 DEF FoundValue
  <2>3. CopyNearer(r, f, v, seen, x) = IF f \in r.drops THEN {Absent}
                                       ELSE IF f \in r.replaces THEN {Absent, Desired(r, v)}
                                       ELSE updated
    BY <1>3, <2>2 DEF CopyNearer, Desired, Differs
  <2>4. f \in r.drops => y = Absent
    BY <2>1, <2>2 DEF FoundValue
  <2>5. f \notin r.drops => y = Desired(r, v)
    BY <1>1, <2>1, <2>2 DEF FoundValue
  <2>6. f \notin r.drops /\ f \notin r.replaces => seen = x
    BY <2>5, DesiredIsPresent
  <2> QED
    BY <2>3, <2>4, <2>5, <2>6
<1> QED
  BY <1>2, <1>3

LEMMA NewIsNearer ==
    ASSUME NEW r, NEW on, HonestFor(r, on), r.visited, r.make, NEW v \in Versions
    PROVE  NewValue(r, v) \in CopyNearer(r, focus.field, v, Absent, Absent)
BY DEF HonestFor, CopyNearer, NewValue, Desired

LEMMA ReplacedIsNearer ==
    ASSUME NEW r, NEW v \in Versions, NEW seen \in Values, seen # Absent,
           NEW x \in Values, x # Absent,
           focus.field \in r.replaces, Differs(r, v, seen)
    PROVE  Absent \in CopyNearer(r, focus.field, v, seen, x)
BY DEF CopyNearer, Desired, Differs

LEMMA DeletedIsNearer ==
    ASSUME NEW r, ~r.wanted, NEW v, NEW seen, NEW x
    PROVE  Absent \in {x} \cup CopyNearer(r, focus.field, v, seen, x)
BY DEF CopyNearer

\* Copy by copy.
Moves(req, c) ==
    \A i \in Parts(focus.object) :
        c[i] \in {cluster[i]} \cup CopyNearer(R(req), focus.field, req.ver, shown[i], cluster[i])

LEMMA MovesAreNearer ==
    ASSUME Typed, NEW req \in CRs(focus.object), NEW c \in Clusters(focus.object),
           Departs(focus.object, req.on) \/ Moves(req, c)
    PROVE  [focus |-> focus, value |-> c]
               \in Nearer(req, [focus |-> focus, value |-> shown],
                               [focus |-> focus, value |-> cluster])
<1> DEFINE s == [focus |-> focus, value |-> cluster]
           seen == [focus |-> focus, value |-> shown]
           t == [focus |-> focus, value |-> c]
           o == focus.object
           near(y, x) == IF Departs(o, req.on) THEN Values
                         ELSE CopyNearer(Catalogue[o][req.on], focus.field, req.ver, y, x)
<1>1. t \in [focus : {focus}, value : [Parts(o) -> Values]]
  BY DEF Clusters
<1>2. \A i \in Parts(o) : c[i] = cluster[i] \/ c[i] \in near(shown[i], cluster[i])
  BY DEF Clusters, Moves, R
<1>3. s.focus = focus /\ s.value = cluster /\ seen.value = shown /\ t.value = c
  OBVIOUS
<1> QED
  BY <1>1, <1>2, <1>3 DEF Nearer

LEMMA ReconciledMoves ==
    ASSUME Typed, NEW req \in CRs(focus.object), HonestFor(R(req), req.on),
           R(req).visited, NEW upto \in 1..FirstShown
    PROVE  Moves(req, Written(R(req), Reconciled(R(req), req.ver, upto)))
<1> DEFINE r == R(req)
           v == req.ver
           o == focus.object
           y == Reconciled(r, v, upto)
<1>1. /\ v \in Versions /\ 1 \in Parts(o)
      /\ cluster \in [Parts(o) -> Values] /\ DOMAIN cluster = Parts(o)
      /\ shown \in [Parts(o) -> Values] /\ DOMAIN shown = Parts(o)
      /\ Current => shown = cluster
  BY RestTyped, CRsAreRequests, PartsOf DEF Clusters
<1> SUFFICES ASSUME NEW i \in Parts(o), y[i] # shown[i],
                    \A j \in 1..i : y[j] # shown[j] => Accepted(r, y, j)
             PROVE  y[i] \in CopyNearer(r, focus.field, v, shown[i], cluster[i])
  BY <1>1 DEF Moves, Written
<1>2. Accepted(r, y, i)
  <2>1. i \in 1..i
    BY PartsOf, RestTyped
  <2> QED
    BY <2>1
<1>3. CASE Shown(1)
  <2>1. y = [shown EXCEPT ![1] = FoundValue(r, v, shown[1])]
    BY <1>3 DEF Reconciled
  <2>2. i = 1 /\ y[1] = FoundValue(r, v, shown[1])
    BY <1>1, <2>1
  <2>3. /\ shown[1] \in Values /\ shown[1] # Absent
        /\ cluster[1] \in Values /\ cluster[1] # Absent
    BY <1>1, <1>2, <1>3, <2>2 DEF Accepted, Shown, Found
  <2>4. \/ shown[1] = cluster[1]
        \/ y[1] = Absent
        \/ focus.field \in r.replaces \ r.early
    BY <1>1, <1>2, <1>3, <2>2 DEF Accepted
  <2> QED
    BY <1>1, <2>2, <2>3, <2>4, FoundIsNearer
<1>4. CASE ~Shown(1) /\ r.make
  <2>1. y[i] = IF i < upto THEN NewValue(r, v) ELSE shown[i]
    BY <1>1, <1>4 DEF Reconciled
  <2>2. i \in Int /\ FirstShown \in Int
    BY PartsOf, RestTyped, FirstShownIsFirst
  <2>3. i < upto /\ ~Shown(i)
    BY <1>1, <2>1, <2>2, FirstShownIsFirst
  <2>4. shown[i] = Absent /\ cluster[i] = Absent
    BY <1>2, <2>3 DEF Accepted, Shown, Found
  <2> QED
    BY <1>1, <1>4, <2>1, <2>3, <2>4, NewIsNearer
<1>5. CASE ~Shown(1) /\ ~r.make
  BY <1>5 DEF Reconciled
<1> QED
  BY <1>3, <1>4, <1>5

LEMMA ResultMoves ==
    ASSUME Typed, NEW req \in CRs(focus.object), HonestFor(R(req), req.on),
           NEW upto \in 1..FirstShown
    PROVE  Moves(req, Result(R(req), Reconciled(R(req), req.ver, upto)))
<1> DEFINE r == R(req)
<1>1. CASE ~Reaches(r)
  BY <1>1 DEF Result, Moves
<1>2. CASE Reaches(r) /\ r.blind /\ ~r.keep
  <2>1. ~r.wanted
    BY <1>2 DEF Reaches, HonestFor
  <2>2. Result(r, Reconciled(r, req.ver, upto)) = [i \in Parts(focus.object) |-> Absent]
    BY <1>2, RestTyped DEF Result
  <2> QED
    BY <2>1, <2>2, DeletedIsNearer DEF Moves
<1>3. CASE Reaches(r) /\ ~(r.blind /\ ~r.keep)
  BY <1>3, ReconciledMoves DEF Reaches, Result
<1> QED
  BY <1>1, <1>2, <1>3

\* A pass, whether it ends well or not, brings the object nearer.
LEMMA ReconcileMoves ==
    ASSUME HonestCatalogue, Typed, Reconcile
    PROVE  \E c \in Clusters(focus.object) :
              Store(c) /\ (Departs(focus.object, pass.on) \/ Moves(pass, c))
<1> DEFINE c == Result(R(pass), Reconciled(R(pass), pass.ver, FirstShown))
<1>1. pass \in CRs(focus.object) /\ c \in Clusters(focus.object)
  BY ReconcileStores
<1>2. Store(c)
  BY DEF Reconcile
<1>3. Departs(focus.object, pass.on) \/ Moves(pass, c)
  <2>1. FirstShown \in 1..FirstShown
    BY FirstShownIsFirst
  <2> QED
    BY <1>1, <2>1, RequestIsHonest, ResultMoves
<1> QED
  BY <1>1, <1>2, <1>3

LEMMA FailMoves ==
    ASSUME HonestCatalogue, Typed, Fail
    PROVE  \E c \in Clusters(focus.object) :
              Store(c) /\ (Departs(focus.object, pass.on) \/ Moves(pass, c))
<1> DEFINE r == R(pass)
           v == pass.ver
<1>1. pass \in CRs(focus.object) /\ v \in Versions
  BY FailStores
<1>2. Departs(focus.object, pass.on) \/ HonestFor(r, pass.on)
  BY <1>1, RequestIsHonest
<1>3. cluster \in Clusters(focus.object) /\ Moves(pass, cluster)
  BY RestTyped DEF Moves
<1>4. CASE UNCHANGED versions
  <2>1. Store(cluster)
    BY <1>4 DEF Store
  <2> QED
    BY <1>3, <2>1
<1>5. ASSUME NEW c \in Clusters(focus.object), Store(c),
             \/ c = cluster
             \/ \E upto \in 1..FirstShown : c = Result(r, Reconciled(r, v, upto))
             \/ HalfReplaced(r, v) /\ c = [cluster EXCEPT ![1] = Absent]
      PROVE  Departs(focus.object, pass.on) \/ Moves(pass, c)
  <2>1. CASE \E upto \in 1..FirstShown : c = Result(r, Reconciled(r, v, upto))
    BY <1>1, <1>2, <2>1, ResultMoves
  <2>2. CASE HalfReplaced(r, v) /\ c = [cluster EXCEPT ![1] = Absent]
    <3>1. /\ cluster \in [Parts(focus.object) -> Values] /\ 1 \in Parts(focus.object)
          /\ shown \in [Parts(focus.object) -> Values]
      BY RestTyped, PartsOf DEF Clusters
    <3>2. Absent \in CopyNearer(r, focus.field, v, shown[1], cluster[1])
      BY <1>1, <2>2, <3>1, ReplacedIsNearer DEF HalfReplaced, Found, Shown
    <3> QED
      BY <2>2, <3>1, <3>2 DEF Moves
  <2> QED
    BY <1>3, <1>5, <2>1, <2>2
<1> QED
  BY <1>4, <1>5, FailStores

LEMMA DeliveryMoves ==
    ASSUME HonestCatalogue, Typed, Deliver
    PROVE  \E c \in Clusters(focus.object) :
              Store(c) /\ (Departs(focus.object, cr.on) \/ Moves(cr, c))
<1> DEFINE c == Purged(R(cr))
<1>1. c \in Clusters(focus.object) /\ Store(c)
  BY PurgedTyped DEF Deliver
<1>2. ASSUME ~Departs(focus.object, cr.on) PROVE Moves(cr, c)
  <2>1. HonestFor(R(cr), cr.on)
    BY <1>2, RestTyped, RequestIsHonest
  <2>2. Purge(R(cr)) => ~R(cr).wanted
    BY <2>1 DEF HonestFor, Purge
  <2>3. DOMAIN cluster = Parts(focus.object)
    BY RestTyped
  <2> QED
    BY <2>2, <2>3, DeletedIsNearer DEF Moves, Purged
<1> QED
  BY <1>1, <1>2

-----------------------------------------------------------------------------
(* Instance implements ManagedObject *)

HistoryFor(f, w) == [n \in DOMAIN w |-> [focus |-> f, value |-> w[n]]]
history == HistoryFor(focus, versions)
object  == [focus |-> focus, value |-> cluster]

\* A later version makes the history longer, and the informer makes it shorter.
LEMMA HistoryGrows ==
    ASSUME NEW S, NEW w \in Seq(S), NEW f, NEW c \in S
    PROVE  HistoryFor(f, Append(w, c)) = Append(HistoryFor(f, w), [focus |-> f, value |-> c])
<1> DEFINE T == [focus : {f}, value : S]
           h == HistoryFor(f, w)
           s == [focus |-> f, value |-> c]
<1>1. /\ Len(w) \in Nat /\ DOMAIN w = 1..Len(w) /\ \A n \in 1..Len(w) : w[n] \in S
  BY LenProperties, ElementOfSeq
<1>2. /\ Append(w, c) \in Seq(S) /\ Len(Append(w, c)) = Len(w) + 1
      /\ DOMAIN Append(w, c) = 1..(Len(w) + 1)
      /\ \A n \in 1..Len(w) : Append(w, c)[n] = w[n]
      /\ Append(w, c)[Len(w) + 1] = c
  BY AppendProperties, LenProperties
<1>3. h \in [1..Len(w) -> T] /\ \A n \in 1..Len(w) : h[n] = [focus |-> f, value |-> w[n]]
  BY <1>1 DEF HistoryFor
<1>4. s \in T
  OBVIOUS
<1> HIDE DEF h, s, T
<1>0. h \in Seq(T) /\ Len(h) = Len(w)
  BY <1>1, <1>3
<1>5. /\ Append(h, s) \in Seq(T) /\ Len(Append(h, s)) = Len(w) + 1
      /\ \A n \in 1..Len(w) : Append(h, s)[n] = h[n]
      /\ Append(h, s)[Len(w) + 1] = s
  BY <1>0, <1>4, AppendProperties
<1>6. DOMAIN Append(h, s) = 1..(Len(w) + 1) /\ Append(h, s) \in [1..(Len(w) + 1) -> T]
  BY <1>5, LenProperties
<1>7. \A n \in 1..(Len(w) + 1) : Append(h, s)[n] = [focus |-> f, value |-> Append(w, c)[n]]
  <2> SUFFICES ASSUME NEW n \in 1..(Len(w) + 1)
               PROVE  Append(h, s)[n] = [focus |-> f, value |-> Append(w, c)[n]]
    OBVIOUS
  <2>1. n \in 1..Len(w) \/ n = Len(w) + 1
    BY <1>1
  <2> QED
    BY <1>2, <1>3, <1>5, <2>1 DEF s
<1>8. HistoryFor(f, Append(w, c)) = [n \in 1..(Len(w) + 1) |-> Append(h, s)[n]]
  BY <1>2, <1>7 DEF HistoryFor
<1> QED
  BY <1>6, <1>8 DEF h, s

LEMMA HistoryIsSeen ==
    ASSUME NEW S, NEW w \in Seq(S), Len(w) > 1, NEW f
    PROVE  HistoryFor(f, Tail(w)) = Tail(HistoryFor(f, w))
<1> DEFINE T == [focus : {f}, value : S]
           h == HistoryFor(f, w)
<1>1. /\ Len(w) \in Nat /\ DOMAIN w = 1..Len(w) /\ \A n \in 1..Len(w) : w[n] \in S
  BY LenProperties, ElementOfSeq
<1>2. w # <<>>
  OBVIOUS
<1>3. /\ Tail(w) \in Seq(S) /\ Len(Tail(w)) = Len(w) - 1
      /\ \A n \in 1..(Len(w) - 1) : Tail(w)[n] = w[n + 1]
  BY <1>2, HeadTailProperties
<1>4. DOMAIN Tail(w) = 1..(Len(w) - 1)
  BY <1>3, LenProperties
<1>5. h \in [1..Len(w) -> T] /\ \A n \in 1..Len(w) : h[n] = [focus |-> f, value |-> w[n]]
  BY <1>1 DEF HistoryFor
<1> HIDE DEF h, T
<1>6. h \in Seq(T) /\ Len(h) = Len(w)
  BY <1>1, <1>5
<1>7. h # <<>>
  BY <1>6
<1>8. /\ Tail(h) \in Seq(T) /\ Len(Tail(h)) = Len(w) - 1
      /\ \A n \in 1..(Len(w) - 1) : Tail(h)[n] = h[n + 1]
  BY <1>6, <1>7, HeadTailProperties
<1>9. DOMAIN Tail(h) = 1..(Len(w) - 1) /\ Tail(h) \in [1..(Len(w) - 1) -> T]
  BY <1>8, LenProperties
<1>10. \A n \in 1..(Len(w) - 1) : Tail(h)[n] = [focus |-> f, value |-> Tail(w)[n]]
  <2> SUFFICES ASSUME NEW n \in 1..(Len(w) - 1)
               PROVE  Tail(h)[n] = [focus |-> f, value |-> Tail(w)[n]]
    OBVIOUS
  <2>1. n + 1 \in 1..Len(w)
    BY <1>1
  <2> QED
    BY <1>3, <1>5, <1>8, <2>1
<1>11. HistoryFor(f, Tail(w)) = [n \in 1..(Len(w) - 1) |-> Tail(h)[n]]
  BY <1>4, <1>10 DEF HistoryFor
<1> QED
  BY <1>9, <1>11 DEF h

LEMMA HistoryForgotten ==
    ASSUME NEW c, NEW f
    PROVE  HistoryFor(f, <<c>>) = <<[focus |-> f, value |-> c]>>
BY DEF HistoryFor

\* The history of the object is as long as that of its versions, and begins and
\* ends with what is shown and what is stored.
LEMMA HistoryOf ==
    ASSUME Typed
    PROVE  /\ history \in Seq(States) /\ Len(history) = Len(versions)
           /\ history[Len(history)] = object
           /\ history[1] = [focus |-> focus, value |-> shown]
           /\ object \in States
<1>1. /\ versions \in Seq(Clusters(focus.object)) /\ Len(versions) \in Nat \ {0}
      /\ focus.object \in Objects
  BY RestTyped
<1>2. DOMAIN versions = 1..Len(versions)
  BY <1>1, LenProperties
<1>3. \A n \in 1..Len(versions) : [focus |-> focus, value |-> versions[n]] \in States
  <2> SUFFICES ASSUME NEW n \in 1..Len(versions)
               PROVE  [focus |-> focus, value |-> versions[n]] \in States
    OBVIOUS
  <2>1. versions[n] \in Clusters(focus.object)
    BY <1>1, ElementOfSeq
  <2>2. versions[n] \in UNION {[Parts(o) -> Values] : o \in Objects}
    BY <1>1, <2>1 DEF Clusters
  <2> QED
    BY <2>2 DEF States, Typed, FocusOK
<1>4. history \in [1..Len(versions) -> States]
  BY <1>2, <1>3 DEF history, HistoryFor
<1>5. history \in Seq(States) /\ Len(history) = Len(versions)
  BY <1>1, <1>4
<1>6. \A n \in 1..Len(versions) : history[n] = [focus |-> focus, value |-> versions[n]]
  BY <1>2 DEF history, HistoryFor
<1>7. Len(versions) \in 1..Len(versions) /\ 1 \in 1..Len(versions)
  BY <1>1
<1> QED
  BY <1>3, <1>5, <1>6, <1>7 DEF object, cluster, shown

LEMMA PromiseSees ==
    ASSUME Typed
    PROVE  Promise!object = object /\ Promise!seen = [focus |-> focus, value |-> shown]
BY HistoryOf DEF Promise!object, Promise!seen, history, HistoryFor

LEMMA StoreBecomes ==
    ASSUME Typed, NEW c \in Clusters(focus.object), Store(c), focus' = focus
    PROVE  LET s == [focus |-> focus, value |-> c]
           IN  history' = IF s = Promise!object THEN history ELSE Append(history, s)
<1> DEFINE s == [focus |-> focus, value |-> c]
<1>1. CASE c = cluster
  <2>1. s = Promise!object
    BY <1>1, PromiseSees DEF object
  <2>2. history' = history
    BY <1>1 DEF history, Store
  <2> QED
    BY <2>1, <2>2
<1>2. CASE c # cluster
  <2>1. s # Promise!object
    BY <1>2, PromiseSees DEF object
  <2>2. versions' = Append(versions, c)
    BY <1>2 DEF Store
  <2>3. HistoryFor(focus, Append(versions, c)) = Append(HistoryFor(focus, versions), s)
    BY RestTyped, HistoryGrows
  <2> QED
    BY <2>1, <2>2, <2>3 DEF history
<1> QED
  BY <1>1, <1>2

\* In the words of the promise.
LEMMA PromiseStores ==
    ASSUME Typed, NEW c \in Clusters(focus.object), Store(c), focus' = focus
    PROVE  /\ Promise!Becomes([focus |-> focus, value |-> c])
           /\ Promise!object' = [focus |-> focus, value |-> c]
<1> DEFINE s == [focus |-> focus, value |-> c]
<1>1. history' = IF s = Promise!object THEN history ELSE Append(history, s)
  BY StoreBecomes
<1>2. Promise!Becomes(s)
  BY <1>1 DEF Promise!Becomes, history, HistoryFor
<1>3. history \in Seq(States) /\ history[Len(history)] = Promise!object
  BY HistoryOf, PromiseSees
<1>4. s \in States
  BY RestTyped DEF States, Clusters, Typed, FocusOK
<1> HIDE DEF s
<1>5. history'[Len(history')] = s
  BY <1>1, <1>3, <1>4, AppendProperties
<1>6. Promise!object' = s
  BY <1>5 DEF Promise!object, history, HistoryFor
<1> QED
  BY <1>2, <1>6 DEF s

LEMMA PromiseInit == Init => Promise!Init
<1> SUFFICES ASSUME Init PROVE Promise!Init
  OBVIOUS
<1>1. Typed
  BY TypedInit
<1>2. cr \in Requests /\ told = cr /\ pass = None
  BY <1>1, RestTyped, CRsAreRequests DEF Init
<1>3. PICK c : versions = <<c>>
  BY DEF Init
<1>4. history = <<object>>
  BY <1>3, HistoryForgotten DEF history, object, cluster
<1>5. Promise!object = object /\ object \in States
  BY <1>1, HistoryOf, PromiseSees
<1> QED
  BY <1>2, <1>4, <1>5 DEF Promise!Init, history, HistoryFor

LEMMA FocusStays == ASSUME [Next]_vars PROVE focus' = focus
BY DEF Next, vars, Informer, Worker, EditSwitches, EditField, Deliver, PurgeFails, Tamper,
       Unlabel, Observe, ObserveLabel, Begin, Reconcile, Refused, Fail, Restart

LEMMA PromiseStep ==
    ASSUME HonestCatalogue, Typed, Typed', [Next]_vars
    PROVE  [Promise!Next]_(Promise!vars)
<1> DEFINE seen == [focus |-> focus, value |-> shown]
<1>1. Promise!object = object /\ Promise!seen = seen
  BY PromiseSees
<1>2. focus' = focus /\ cr' \in Requests
  BY FocusStays, RestTyped, CRsAreRequests DEF Typed, TypeOK
<1>3. ASSUME NEW c \in Clusters(focus.object), Store(c)
      PROVE  LET s == [focus |-> focus, value |-> c]
             IN  history' = IF s = Promise!object THEN history ELSE Append(history, s)
  BY <1>2, <1>3, StoreBecomes
<1>0. UNCHANGED versions => history' = history
  BY <1>2 DEF history
<1>4. CASE EditSwitches \/ EditField
  <2>1. UNCHANGED history
    BY <1>4 DEF EditSwitches, EditField, history
  <2> QED
    BY <1>2, <1>4, <2>1
       DEF EditSwitches, EditField, Promise!Next, Promise!Ask, history, HistoryFor
<1>5. CASE Deliver
  <2>1. PICK c \in Clusters(focus.object) :
                Store(c) /\ (Departs(focus.object, cr.on) \/ Moves(cr, c))
    BY <1>5, DeliveryMoves
  <2>2. [focus |-> focus, value |-> c] \in Nearer(cr, seen, object)
    BY <2>1, RestTyped, MovesAreNearer DEF object
  <2> QED
    BY <1>1, <1>2, <1>3, <1>5, <2>1, <2>2
       DEF Deliver, Promise!Next, Promise!Hear, Promise!Becomes, history, HistoryFor
<1>6. CASE PurgeFails
  BY <1>0, <1>6
     DEF PurgeFails, Promise!Next, Promise!Hear, Promise!Becomes, history, HistoryFor
<1>7. CASE Tamper
  <2>1. PICK i \in DOMAIN cluster, x \in {Absent, Drift} : Store([cluster EXCEPT ![i] = x])
    BY <1>7 DEF Tamper
  <2>2. [cluster EXCEPT ![i] = x] \in Clusters(focus.object)
    BY <2>1, TamperedTyped DEF Values
  <2> DEFINE c == [cluster EXCEPT ![i] = x]
             s == [focus |-> focus, value |-> c]
  <2> HIDE DEF c
  <2>3. s \in States
    BY <2>2, RestTyped DEF States, Clusters, Typed, FocusOK, c
  <2>4. Promise!object' = s /\ history' = IF s = Promise!object THEN history ELSE Append(history, s)
    BY <1>2, <1>3, <2>1, <2>2, PromiseStores DEF c
  <2>5. UNCHANGED <<cr, told, pass>>
    BY <1>7 DEF Tamper
  <2> QED
    BY <2>3, <2>4, <2>5
       DEF Promise!Next, Promise!Disturb, Promise!Becomes, history, HistoryFor
<1>8. CASE Observe
  <2>1. Len(versions) # 1 /\ Len(versions) \in Nat \ {0} /\ versions' = Tail(versions)
    BY <1>8, RestTyped DEF Observe, Current
  <2> DEFINE n == Len(versions)
  <2> HIDE DEF n
  <2>5. n > 1
    <3>1. n # 1 /\ n \in Nat \ {0}
      BY <2>1 DEF n
    <3> QED
      BY <3>1
  <2>2. Len(history) > 1
    BY <2>5, HistoryOf DEF n
  <2>3. HistoryFor(focus, Tail(versions)) = Tail(HistoryFor(focus, versions))
    BY <2>5, RestTyped, HistoryIsSeen DEF n
  <2>4. history' = Tail(history)
    BY <1>2, <2>1, <2>3 DEF history
  <2> QED
    BY <1>8, <2>2, <2>4 DEF Observe, Promise!Next, Promise!Look, history, HistoryFor
<1>9. CASE Begin
  <2>1. UNCHANGED history
    BY <1>9 DEF Begin, history
  <2> QED
    BY <1>9, <2>1 DEF Begin, Promise!Next, Promise!Start, history, HistoryFor
<1>10. CASE Reconcile \/ Fail
  <2>1. pass # None /\ pass' = None /\ UNCHANGED <<focus, cr, told>>
    BY <1>10 DEF Reconcile, Fail
  <2>2. pass \in CRs(focus.object)
    BY <2>1, RestTyped
  <2>3. PICK c \in Clusters(focus.object) :
                Store(c) /\ (Departs(focus.object, pass.on) \/ Moves(pass, c))
    BY <1>10, ReconcileMoves, FailMoves
  <2>4. [focus |-> focus, value |-> c] \in Nearer(pass, seen, object)
    BY <2>2, <2>3, MovesAreNearer DEF object
  <2> QED
    BY <1>1, <1>3, <2>1, <2>3, <2>4
       DEF Promise!Next, Promise!Act, Promise!Becomes, history, HistoryFor
<1>11. CASE Refused
  BY <1>0, <1>11
     DEF Refused, Promise!Next, Promise!Act, Promise!Becomes, history, HistoryFor
<1>12. CASE Restart
  <2>1. history' = <<object>>
    BY <1>2, <1>12, HistoryForgotten DEF Restart, history, object
  <2> QED
    BY <1>1, <1>12, <2>1 DEF Restart, Promise!Next, Promise!Crash, history, HistoryFor
<1>13. CASE Unlabel \/ ObserveLabel \/ UNCHANGED vars
  <2>1. UNCHANGED <<cr, told, pass, focus, versions>>
    BY <1>13 DEF Unlabel, ObserveLabel, vars
  <2> QED
    BY <2>1 DEF Promise!vars
<1> QED
  BY <1>4, <1>5, <1>6, <1>7, <1>8, <1>9, <1>10, <1>11, <1>12, <1>13
     DEF Next, Informer, Worker

\* Every reconciler keeps the promise of a level-triggered controller, whatever
\* the others do to its object, however late its cache is and wherever a pass ends:
\* each time it acts, on a copy it sees or on one it does not, it leaves the copy
\* alone or brings it nearer to the resource as the pass has read it, and it
\* overwrites or creates over nothing it has not seen.  All that is asked of the
\* catalogue is that the conditions in the code agree with what is wanted.
THEOREM ImplementsPromise == HonestCatalogue /\ Spec => KeepsPromise
<1> SUFFICES ASSUME HonestCatalogue PROVE Spec => KeepsPromise
  OBVIOUS
<1>1. Spec => []Typed
  BY TypedInit, TypedStep, PTL DEF Spec
<1>2. Typed /\ Typed' /\ [Next]_vars => [Promise!Next]_(Promise!vars)
  BY PromiseStep
<1> QED
  BY <1>1, <1>2, PromiseInit, PTL DEF Spec, KeepsPromise, Promise!Spec

-----------------------------------------------------------------------------
(* What has settled is as the resource asks *)

\* The code is meant to do what this request asks for.
Settling(req) == Settles(focus.object, req.on) /\ ~Frozen(focus.object, focus.field)

AsAsked(req) ==
    /\ Found(1) <=> R(req).wanted
    /\ focus.field \in R(req).follows /\ Found(1) => ~Differs(R(req), req.ver, cluster[1])

\* Whoever knows the resource knows in what cluster it is.
SameCluster ==
    /\ told.on \cap Environment = cr.on \cap Environment
    /\ pass # None => pass.on \cap Environment = cr.on \cap Environment
\* A pass with nothing queued behind it works on what was last delivered.
LastHeard == ~queued /\ pass # None => pass = told
\* The last pass has done its work, if nobody undoes it unnoticed, and as long as
\* no news of the object is on its way to the queue.
DoneIsAsAsked ==
    /\ ~queued /\ pass = None /\ ~unnoticed /\ Settling(told)
    /\ Current \/ ~Watched(R(told), told.on)
    => AsAsked(told)
\* An object that no pass looks at is not there, or is known to be a leftover.
LeftAloneIsGone == ~unnoticed /\ Settling(told) /\ ~R(told).visited => ~Found(1)
\* Without the label there is nothing that the label is needed for.
GateHolds ==
    ~unnoticed /\ Gated /\ label = "none" => /\ Len(mark) = 1
                                             /\ \A i \in DOMAIN cluster : ~Found(i)

SettledInv == SameCluster /\ LastHeard /\ DoneIsAsAsked /\ LeftAloneIsGone /\ GateHolds

\* What Thorough and Disposes say of the requests in play.
LEMMA RequestIsThorough ==
    ASSUME ThoroughCatalogue, Typed, NEW req \in CRs(focus.object), Settling(req)
    PROVE  LET r == R(req)
               f == focus.field
           IN  /\ Parts(focus.object) = {1}
               /\ r.visited => (r.keep <=> r.wanted) /\ (r.make <=> r.wanted)
               /\ ~r.visited => ~r.wanted
               /\ \/ Watched(r, req.on)
                  \/ /\ f \notin r.early
                     /\ r.wanted /\ f \in r.drops => f \in r.trips
                     /\ \A v \in Versions : <<f, v>> \notin r.later
               /\ Gated => r.visited /\ ~Watched(r, req.on)
               /\ r.wanted /\ f \in r.follows =>
                     f \in r.early \cup r.drops \cup r.repairs \cup r.replaces \cup r.refused
<1>1. /\ focus.object \in Objects /\ focus.field \in Fields(focus.object)
      /\ req.on \in SUBSET Reads(focus.object)
  BY RestTyped, CRsAreRequests DEF Typed, TypeOK
<1>2. R(req) = Rec(focus.object, req.on)
  BY <1>1, CatalogueOf DEF R
<1>3. Thorough(focus.object, focus.field, req.on)
  BY <1>1 DEF ThoroughCatalogue
<1>4. Settles(focus.object, req.on) /\ ~Frozen(focus.object, focus.field)
  BY DEF Settling
<1>5. Parts(focus.object) = {1}
  BY <1>1, <1>3, <1>4, PartsOf DEF Thorough
<1> QED
  BY <1>1, <1>2, <1>3, <1>4, <1>5 DEF Thorough, Gated, Constant

LEMMA RequestDisposes ==
    ASSUME ThoroughCatalogue, Typed,
           NEW before \in CRs(focus.object), NEW req \in CRs(focus.object),
           before.on \cap Environment = req.on \cap Environment
    PROVE  LET r == R(req)
               b == R(before)
           IN  /\ Watched(b, before.on) <=> Watched(r, req.on)
               /\ Settling(req) /\ ~r.visited =>
                     /\ b.wanted => /\ r.purged \cap (before.on \ req.on) # {}
                                    /\ b.purged \cap (before.on \ req.on) # {}
                     /\ ~b.wanted /\ b.visited => ~b.make /\ ~b.keep /\ b.early = {}
<1>1. /\ focus.object \in Objects
      /\ req.on \in SUBSET Reads(focus.object) /\ before.on \in SUBSET Reads(focus.object)
  BY RestTyped, CRsAreRequests
<1>2. R(req) = Rec(focus.object, req.on) /\ R(before) = Rec(focus.object, before.on)
  BY <1>1, CatalogueOf DEF R
<1>3. Disposes(focus.object, before.on, req.on)
  BY <1>1 DEF ThoroughCatalogue
<1> QED
  BY <1>2, <1>3 DEF Disposes, Settling

LEMMA SettledInit == Init => SettledInv
<1> SUFFICES ASSUME Init PROVE SettledInv
  OBVIOUS
<1>1. Typed
  BY TypedInit
<1>2. told = cr /\ queued = TRUE /\ pass = None
  BY DEF Init
<1>3. PICK o \in Objects : \E f \in Samples[o], x \in {Absent, Drift} :
          /\ focus = [object |-> o, field |-> f]
          /\ cr \in CRs(o)
          /\ versions = <<[i \in Parts(o) |-> x]>>
          /\ mark = <<IF Constant[o].gated /\ x = Drift THEN "true" ELSE "none">>
          /\ unnoticed = (x = Drift /\ ~Rec(o, cr.on).visited)
  BY DEF Init
<1>4. PICK f \in Samples[o], x \in {Absent, Drift} :
          /\ focus = [object |-> o, field |-> f]
          /\ cr \in CRs(o)
          /\ versions = <<[i \in Parts(o) |-> x]>>
          /\ mark = <<IF Constant[o].gated /\ x = Drift THEN "true" ELSE "none">>
          /\ unnoticed = (x = Drift /\ ~Rec(o, cr.on).visited)
  BY <1>3
<1>5. cluster = [i \in Parts(o) |-> x]
  BY <1>4 DEF cluster
<1>6. LeftAloneIsGone
  <2>1. R(told) = Rec(o, cr.on)
    BY <1>2, <1>4, CRsAreRequests, CatalogueOf DEF R
  <2>2. cluster[1] = x
    BY <1>5, PartsOf
  <2> QED
    BY <1>4, <2>1, <2>2 DEF LeftAloneIsGone, Found
<1>7. GateHolds
  <2>1. Len(mark) = 1 /\ label = IF Constant[o].gated /\ x = Drift THEN "true" ELSE "none"
    BY <1>4 DEF label
  <2>2. Gated = Constant[o].gated
    BY <1>4 DEF Gated
  <2>3. \A i \in DOMAIN cluster : cluster[i] = x
    BY <1>5
  <2> QED
    BY <2>1, <2>2, <2>3 DEF GateHolds, Found
<1> QED
  BY <1>2, <1>6, <1>7 DEF SettledInv, SameCluster, LastHeard, DoneIsAsAsked

LEMMA SameClusterStep ==
    ASSUME Typed, SameCluster, [Next]_vars
    PROVE  SameCluster'
<1>1. CASE EditSwitches
  <2>1. PICK on \in SUBSET Reads(focus.object) :
          on \cap Environment = cr.on \cap Environment /\ cr' = [cr EXCEPT !.on = on]
    BY <1>1 DEF EditSwitches
  <2>2. cr'.on = on
    BY <2>1, RestTyped DEF CRs
  <2> QED
    BY <1>1, <2>1, <2>2 DEF EditSwitches, SameCluster
<1>2. CASE EditField
  <2>1. cr'.on = cr.on
    BY <1>2, RestTyped DEF EditField, CRs
  <2> QED
    BY <1>2, <2>1 DEF EditField, SameCluster
<1>3. CASE Deliver \/ PurgeFails \/ Tamper \/ Begin \/ UNCHANGED vars
  BY <1>3 DEF Deliver, PurgeFails, Tamper, Begin, vars, SameCluster
<1>5. CASE Unlabel \/ Observe \/ ObserveLabel
  BY <1>5 DEF Unlabel, Observe, ObserveLabel, SameCluster
<1>4. CASE Reconcile \/ Refused \/ Fail \/ Restart
  BY <1>4 DEF Reconcile, Refused, Fail, Restart, SameCluster
<1> QED
  BY <1>1, <1>2, <1>3, <1>4, <1>5 DEF Next, Informer, Worker

LEMMA LastHeardStep ==
    ASSUME Typed, LastHeard, [Next]_vars
    PROVE  LastHeard'
BY DEF Next, vars, Informer, Worker, EditSwitches, EditField, Deliver, PurgeFails, Tamper,
       Unlabel, Observe, ObserveLabel, Begin, Reconcile, Refused, Fail, Restart, LastHeard

\* While the object, what was heard of the resource and the queue stay, so does
\* what is known of them.
LEMMA SettledFrame ==
    ASSUME UNCHANGED <<focus, told, unnoticed>>, cluster' = cluster
    PROVE  /\ LeftAloneIsGone => LeftAloneIsGone'
           /\ AsAsked(told)' <=> AsAsked(told)
           /\ Settling(told)' <=> Settling(told)
           /\ R(told)' = R(told)
           /\ Watched(R(told), told.on)' <=> Watched(R(told), told.on)
<1>1. /\ Settling(told)' <=> Settling(told)
      /\ R(told)' = R(told) /\ (Found(1)' <=> Found(1))
      /\ AsAsked(told)' <=> AsAsked(told)
  BY DEF Settling, R, Found, AsAsked, Differs, Desired
<1>2. Watched(R(told), told.on)' <=> Watched(R(told), told.on)
  BY <1>1 DEF Watched
<1> QED
  BY <1>1, <1>2 DEF LeftAloneIsGone

LEMMA SameWatch ==
    ASSUME ThoroughCatalogue, Typed, SameCluster
    PROVE  Watched(R(told), told.on) <=> Watched(R(cr), cr.on)
BY RestTyped, RequestDisposes DEF SameCluster

\* What a pass makes of an object it is shown as it is.
LEMMA WrittenIsReconciled ==
    ASSUME Typed, Current, Parts(focus.object) = {1}, NEW r, NEW y \in Clusters(focus.object)
    PROVE  Written(r, y)[1] = y[1]
<1>1. shown = cluster /\ DOMAIN cluster = {1}
  BY RestTyped
<1>2. y[1] # shown[1] => Accepted(r, y, 1)
  BY <1>1 DEF Accepted, Shown, Found
<1>3. \A j \in 1..1 : j = 1
  OBVIOUS
<1> QED
  BY <1>1, <1>2, <1>3 DEF Written

LEMMA OnlyOne == ASSUME NEW n \in Nat, 1..n = {1} PROVE n = 1
<1>1. 1 <= n
  OBVIOUS
<1>2. n \in {1}
  BY <1>1
<1> QED
  BY <1>2

LEMMA LongerThanOne == ASSUME NEW n \in Nat, n > 1 PROVE n # 1
OBVIOUS

\* The pass that follows the last news.
LEMMA ReconcileSettles ==
    ASSUME ThoroughCatalogue, Typed, SettledInv, Reconcile
    PROVE  DoneIsAsAsked'
<1> DEFINE r == R(told)
           v == told.ver
           f == focus.field
           x == cluster[1]
           c == Result(r, Reconciled(r, v, FirstShown))
           y == c[1]
<1>1. UNCHANGED <<focus, told>>
  BY DEF Reconcile
<1>2. /\ Settling(told)' <=> Settling(told)
      /\ R(told)' = r /\ told'.ver = v /\ focus'.field = f
      /\ Watched(R(told), told.on)' <=> Watched(r, told.on)
  BY <1>1 DEF Settling, R, Watched
<1> SUFFICES ASSUME ~queued', ~unnoticed', Settling(told),
                    Watched(r, told.on) => Current'
             PROVE  AsAsked(told)'
  BY <1>2 DEF DoneIsAsAsked
<1>3. pass = told /\ ~queued
  BY DEF Reconcile, SettledInv, LastHeard
<1>4. v \in Versions /\ told \in CRs(focus.object)
  BY RestTyped, CRsAreRequests
<1>5. /\ Parts(focus.object) = {1}
      /\ r.visited => (r.keep <=> r.wanted) /\ (r.make <=> r.wanted)
      /\ ~r.visited => ~r.wanted
      /\ \/ Watched(r, told.on)
         \/ /\ f \notin r.early
            /\ r.wanted /\ f \in r.drops => f \in r.trips
            /\ <<f, v>> \notin r.later
      /\ Gated => r.visited /\ ~Watched(r, told.on)
      /\ r.wanted /\ f \in r.follows =>
            f \in r.early \cup r.drops \cup r.repairs \cup r.replaces \cup r.refused
  BY <1>4, RequestIsThorough
<1>6. /\ c \in Clusters(focus.object) /\ Store(c)
      /\ Reconciled(r, v, FirstShown) \in Clusters(focus.object)
  BY <1>3, ReconcileStores DEF Reconcile
<1>7. cluster' = c /\ (Current' => Current /\ c = cluster)
  BY <1>6, Storing
<1>8. /\ ~Trips(r, v) /\ ~Refusal(r, v)
      /\ ~Failed(r, Reconciled(r, v, FirstShown)) /\ ~Misled(r, told.on)
      /\ ~unnoticed \/ (Reaches(r) /\ UpToDate)
  BY <1>3 DEF Reconcile
<1>9. /\ DOMAIN cluster = {1} /\ cluster \in [{1} -> Values] /\ x \in Values
      /\ DOMAIN shown = {1} /\ shown \in [{1} -> Values]
      /\ Current => shown = cluster
      /\ Len(mark) = 1 => label = labelShown
  BY <1>5, RestTyped, MarkTyped DEF Clusters
<1>10. Desired(r, v) # Absent /\ ~Differs(r, v, Desired(r, v))
  BY <1>4, DesiredIsPresent DEF Differs
<1>11. Watched(r, told.on) => c = cluster
  BY <1>7
<1>12. r.visited => UpToDate
  BY <1>5, <1>7, <1>8 DEF Misled, UpToDate
<1>13. (y # Absent <=> r.wanted) /\ (f \in r.follows /\ y # Absent => ~Differs(r, v, y))
  <2>1. CASE ~r.visited
    <3>1. c = cluster /\ ~unnoticed
      BY <1>8, <2>1 DEF Result, Reaches
    <3>2. ~Found(1)
      BY <2>1, <3>1 DEF SettledInv, LeftAloneIsGone
    <3> QED
      BY <1>5, <2>1, <3>1, <3>2 DEF Found
  <2>2. CASE r.visited /\ Idle(r)
    <3>1. c = cluster /\ ~unnoticed
      BY <1>8, <2>2 DEF Result, Reaches
    <3>2. Gated /\ label = "none" /\ ~r.wanted
      BY <1>9, <1>12, <2>2 DEF Idle, UpToDate
    <3>3. ~Found(1)
      BY <1>9, <3>1, <3>2 DEF SettledInv, GateHolds
    <3> QED
      BY <3>1, <3>2, <3>3 DEF Found
  <2>3. CASE Reaches(r) /\ r.blind /\ ~r.keep
    <3>1. y = Absent
      BY <1>9, <2>3 DEF Result
    <3> QED
      BY <1>5, <2>3, <3>1 DEF Reaches
  <2> SUFFICES ASSUME Reaches(r), ~(r.blind /\ ~r.keep)
               PROVE  (y # Absent <=> r.wanted) /\ (f \in r.follows /\ y # Absent => ~Differs(r, v, y))
    BY <2>1, <2>2, <2>3 DEF Reaches
  <2>4. r.visited /\ Current /\ shown = cluster
    BY <1>9, <1>12 DEF Reaches, UpToDate
  <2>5. y = Reconciled(r, v, FirstShown)[1]
    BY <1>5, <1>6, <2>4, WrittenIsReconciled DEF Result
  <2>6. y # x => ~Watched(r, told.on)
    BY <1>11
  <2>7. CASE x # Absent
    <3>1. y = FoundValue(r, v, x)
      BY <1>9, <2>4, <2>5, <2>7 DEF Reconciled, Shown
    <3>3. CASE r.wanted
      <4>1. ~(f \in r.refused /\ Differs(r, v, x)) /\ r.keep
        BY <1>5, <1>8, <2>4, <2>7, <3>3 DEF Refusal, Shown
      <4>2. ~(f \in r.trips /\ f \in r.drops /\ Differs(r, v, x))
        BY <1>8, <2>4, <2>7 DEF Trips, Shown
      <4>3. y # Absent
        BY <1>5, <1>10, <2>4, <2>6, <2>7, <3>1, <3>3, <4>1, <4>2 DEF FoundValue
      <4>4. f \in r.follows => ~Differs(r, v, y)
        BY <1>5, <1>10, <3>1, <3>3, <4>1, <4>3 DEF FoundValue
      <4> QED
        BY <3>3, <4>3, <4>4
    <3>4. CASE ~r.wanted
      <4>1. ~r.keep
        BY <1>5, <2>4, <3>4
      <4>2. ~(Differs(r, v, x) /\ f \in r.early)
        <5> SUFFICES ASSUME Differs(r, v, x), f \in r.early PROVE FALSE
          OBVIOUS
        <5>1. y = Desired(r, v) /\ x # Desired(r, v)
          BY <3>1 DEF FoundValue, Differs
        <5> QED
          BY <1>5, <2>6, <5>1
      <4> QED
        BY <3>1, <3>4, <4>1, <4>2 DEF FoundValue
    <3> QED
      BY <3>3, <3>4
  <2>8. CASE x = Absent
    <3>1. CASE r.wanted
      <4>1. FirstShown = 2
        <5>1. ~\E i \in DOMAIN shown : Shown(i)
          BY <1>9, <2>4, <2>8 DEF Shown
        <5>2. Len(shown) \in Nat /\ 1..Len(shown) = {1}
          BY <1>9, FirstShownIsFirst
        <5>3. Len(shown) = 1
          BY <5>2, OnlyOne
        <5> QED
          BY <5>1, <5>3 DEF FirstShown
      <4>2. y = NewValue(r, v)
        BY <1>5, <1>9, <2>4, <2>5, <2>8, <3>1, <4>1 DEF Reconciled, Shown
      <4>3. <<f, v>> \notin r.later
        BY <1>5, <2>6, <2>8, <4>2, AbsentAssumption DEF NewValue
      <4> QED
        BY <1>10, <3>1, <4>2, <4>3 DEF NewValue
    <3>2. CASE ~r.wanted
      <4>1. y = x
        BY <1>5, <2>4, <2>5, <2>8, <3>2 DEF Reconciled, Shown
      <4> QED
        BY <2>8, <3>2, <4>1
    <3> QED
      BY <3>1, <3>2
  <2> QED
    BY <2>7, <2>8
<1> QED
  BY <1>2, <1>7, <1>13 DEF AsAsked, Found, Differs, Desired

LEMMA DoneIsAsAskedStep ==
    ASSUME ThoroughCatalogue, Typed, SettledInv, [Next]_vars
    PROVE  DoneIsAsAsked'
<1>1. CASE EditSwitches \/ EditField \/ ObserveLabel \/ UNCHANGED vars
  <2>1. UNCHANGED <<focus, told, versions, queued, pass, unnoticed>>
    BY <1>1 DEF EditSwitches, EditField, ObserveLabel, vars
  <2> QED
    BY <2>1, Keeping, SettledFrame DEF SettledInv, DoneIsAsAsked
<1>2. CASE Deliver \/ PurgeFails \/ Restart \/ Refused
  BY <1>2 DEF Deliver, PurgeFails, Restart, Refused, DoneIsAsAsked
<1>3. CASE Tamper
  <2>1. PICK i \in DOMAIN cluster, x \in {Absent, Drift} :
                x # cluster[i] /\ Store([cluster EXCEPT ![i] = x])
    BY <1>3 DEF Tamper
  <2>2. [cluster EXCEPT ![i] = x] \in Clusters(focus.object)
    BY TamperedTyped DEF Values
  <2>3. [cluster EXCEPT ![i] = x] # cluster
    BY <2>1
  <2>4. ~Current'
    BY <2>1, <2>2, <2>3, Storing
  <2>5. UNCHANGED <<focus, told>> /\ (~unnoticed' => Watched(R(cr), cr.on))
    BY <1>3 DEF Tamper
  <2>6. Watched(R(told), told.on)' <=> Watched(R(told), told.on)
    BY <2>5 DEF R, Watched
  <2> QED
    BY <2>4, <2>5, <2>6, SameWatch DEF SettledInv, DoneIsAsAsked
<1>4. CASE Begin
  BY <1>4, RestTyped, NoneAssumption DEF Begin, DoneIsAsAsked
<1>5. CASE Reconcile
  BY <1>5, ReconcileSettles
<1>6. CASE Fail \/ Unlabel
  BY <1>6 DEF Fail, Unlabel, DoneIsAsAsked
<1>7. CASE Observe
  <2>1. UNCHANGED <<focus, told, pass, unnoticed>> /\ cluster' = cluster
    BY <1>7, Observing DEF Observe
  <2>2. ~queued' => ~queued /\ ~Watched(R(told), told.on)
    BY <1>7, SameWatch DEF Observe, SettledInv
  <2> QED
    BY <2>1, <2>2, SettledFrame DEF SettledInv, DoneIsAsAsked
<1> QED
  BY <1>1, <1>2, <1>3, <1>4, <1>5, <1>6, <1>7 DEF Next, Informer, Worker

\* The label is written before the object is made or taken down.
LEMMA GateHoldsStep ==
    ASSUME Typed, GateHolds, [Next]_vars
    PROVE  GateHolds'
<1> SUFFICES ASSUME ~unnoticed', Gated', label' = "none"
             PROVE  Len(mark') = 1 /\ \A i \in DOMAIN cluster' : ~Found(i)'
  BY DEF GateHolds
<1>1. Gated
  BY FocusStays DEF Gated
<1>2. ASSUME ~unnoticed, UNCHANGED mark, cluster' = cluster
      PROVE  Len(mark') = 1 /\ \A i \in DOMAIN cluster' : ~Found(i)'
  BY <1>1, <1>2 DEF GateHolds, label, Found
<1>3. CASE EditSwitches \/ EditField \/ Begin \/ Refused \/ UNCHANGED vars
  BY <1>2, <1>3, Keeping DEF EditSwitches, EditField, Begin, Refused, vars
<1>4. CASE Deliver
  <2>1. cluster' = Purged(R(cr)) /\ ~unnoticed /\ UNCHANGED mark
    BY <1>4, PurgedTyped, Storing DEF Deliver
  <2>2. Len(mark) = 1 /\ \A i \in DOMAIN cluster : ~Found(i)
    BY <1>1, <2>1 DEF GateHolds, label
  <2>3. DOMAIN cluster' = DOMAIN cluster /\ \A i \in DOMAIN cluster : cluster'[i] = Absent
    BY <2>1, <2>2 DEF Purged, Found
  <2> QED
    BY <2>1, <2>2, <2>3 DEF Found
<1>5. CASE PurgeFails \/ Unlabel
  BY <1>5 DEF PurgeFails, Unlabel
<1>6. CASE Tamper
  <2>1. ~unnoticed /\ UNCHANGED mark /\ \E i \in DOMAIN cluster : Found(i)
    BY <1>6 DEF Tamper
  <2>2. label = "none"
    BY <2>1 DEF label
  <2> QED
    BY <1>1, <2>1, <2>2 DEF GateHolds
<1>7. CASE Observe
  BY <1>2, <1>7, Observing DEF Observe
<1>8. CASE ObserveLabel
  <2>1. ~unnoticed /\ label = "none" /\ Len(mark) > 1
    BY <1>8, ObservingLabel DEF ObserveLabel
  <2>2. Len(mark) = 1
    BY <1>1, <2>1 DEF GateHolds
  <2>3. Len(mark) # 1
    BY <2>1, MarkTyped, LongerThanOne
  <2> QED
    BY <2>2, <2>3
<1>9. CASE Reconcile \/ Fail
  <2> DEFINE r == R(pass)
  <2>1. mark' = Marked(r) \/ UNCHANGED <<versions, mark>>
    BY <1>9 DEF Reconcile, Fail
  <2>2. label = "none" /\ (mark' = Marked(r) => ~Marks(r) /\ UNCHANGED mark)
    <3>1. MarkFor(r) # "none"
      BY DEF MarkFor
    <3> QED
      BY <2>1, <3>1, MarkedTyped DEF label
  <2>3. ~unnoticed \/ (Reaches(r) /\ Len(mark) = 1)
    BY <1>1, <1>9 DEF Reconcile, Fail, UpToDate
  <2>4. Len(mark) = 1 /\ labelShown = "none"
    BY <1>1, <2>2, <2>3, MarkTyped DEF GateHolds
  <2>5. CASE UNCHANGED <<versions, mark>> /\ ~unnoticed
    BY <1>2, <2>5, Keeping
  <2>6. CASE mark' = Marked(r)
    <3>1. ~Reaches(r) /\ ~unnoticed /\ UNCHANGED mark
      BY <1>1, <2>2, <2>3, <2>4, <2>6 DEF Marks
    <3>2. cluster' = cluster
      <4>1. Result(r, Reconciled(r, pass.ver, FirstShown)) = cluster
        BY <3>1 DEF Result
      <4>2. Reconcile => cluster' = cluster
        BY <4>1, RestTyped, Storing DEF Reconcile
      <4>3. Fail => UNCHANGED versions
        BY <3>1 DEF Fail
      <4> QED
        BY <1>9, <4>2, <4>3, Keeping
    <3> QED
      BY <1>2, <3>1, <3>2
  <2> QED
    BY <1>9, <2>1, <2>5, <2>6 DEF Fail, Reconcile
<1>10. CASE Restart
  <2>1. ~unnoticed /\ mark' = <<label>> /\ versions' = <<cluster>>
    BY <1>10 DEF Restart
  <2>2. label' = label /\ cluster' = cluster /\ Len(mark') = 1
    BY <2>1 DEF label, cluster
  <2> QED
    BY <1>1, <2>1, <2>2 DEF GateHolds, Found
<1> QED
  BY <1>3, <1>4, <1>5, <1>6, <1>7, <1>8, <1>9, <1>10 DEF Next, Informer, Worker

\* The news that nobody looks at the object any more: it has been deleted, or it is
\* known that it was not.
LEMMA NewsLeavesNothing ==
    ASSUME ThoroughCatalogue, Typed, SettledInv, told' = cr, focus' = focus,
           ~unnoticed, told = cr \/ ~DeletionLost, ~Purge(R(cr)), cluster' = cluster
    PROVE  LeftAloneIsGone'
<1>1. R(told)' = R(cr) /\ (Settling(told)' <=> Settling(cr)) /\ (Found(1)' <=> Found(1))
  BY DEF R, Settling, Found
<1> SUFFICES ASSUME Settling(cr), ~R(cr).visited PROVE ~Found(1)
  BY <1>1 DEF LeftAloneIsGone
<1>2. CASE told = cr
  BY <1>2 DEF SettledInv, LeftAloneIsGone
<1>3. CASE ~DeletionLost
  <2>1. ~R(told).wanted
    BY RestTyped, RequestDisposes DEF SettledInv, SameCluster, Purge
  <2>2. 1 \in DOMAIN cluster
    BY RestTyped, PartsOf
  <2> QED
    BY <1>3, <2>1, <2>2 DEF DeletionLost
<1> QED
  BY <1>2, <1>3

\* A pass for an earlier request makes no object that nobody looks at any more, and
\* if it is shown the object it deletes it.
LEMMA GoneStaysGone ==
    ASSUME Typed, NEW r, NEW v \in Versions, NEW upto,
           DOMAIN cluster = {1}, cluster[1] = Absent \/ (Reaches(r) /\ Current),
           r.visited => ~r.make /\ ~r.keep /\ r.early = {}
    PROVE  Result(r, Reconciled(r, v, upto))[1] = Absent
<1> DEFINE y == Reconciled(r, v, upto)
<1>1. CASE ~Reaches(r)
  BY <1>1 DEF Result
<1>2. CASE Reaches(r)
  <2>1. r.visited /\ ~r.make /\ ~r.keep /\ r.early = {}
    BY <1>2 DEF Reaches
  <2>2. DOMAIN shown = {1} /\ (Current => shown = cluster)
    BY RestTyped
  <2>3. y[1] = IF Shown(1) THEN Absent ELSE shown[1]
    BY <2>1, <2>2 DEF Reconciled, FoundValue
  <2>4. y[1] = Absent
    BY <2>3 DEF Shown
  <2>5. Current /\ y[1] # shown[1] => Accepted(r, y, 1)
    BY <2>2, <2>4 DEF Accepted, Shown, Found
  <2>6. \A j \in 1..1 : j = 1
    OBVIOUS
  <2>7. Written(r, y)[1] = Absent
    BY <2>2, <2>4, <2>5, <2>6 DEF Written
  <2> QED
    BY <1>2, <2>7 DEF Result
<1> QED
  BY <1>1, <1>2

LEMMA PassLeavesNothing ==
    ASSUME ThoroughCatalogue, Typed, SettledInv, Reconcile \/ Fail
    PROVE  LeftAloneIsGone'
<1> DEFINE p == R(pass)
           v == pass.ver
<1>1. UNCHANGED <<focus, told>> /\ pass # None
  BY DEF Reconcile, Fail
<1>2. R(told)' = R(told) /\ (Settling(told)' <=> Settling(told))
  BY <1>1 DEF R, Settling
<1> SUFFICES ASSUME ~unnoticed', Settling(told), ~R(told).visited PROVE cluster'[1] = Absent
  BY <1>2 DEF LeftAloneIsGone, Found
<1>3. ~Overtaken(p)
  BY DEF Reconcile, Fail
<1>4. pass \in CRs(focus.object) /\ told \in CRs(focus.object) /\ v \in Versions
  BY <1>1, RestTyped, CRsAreRequests
<1>5. p.visited => ~p.make /\ ~p.keep /\ p.early = {}
  <2>1. pass.on \cap Environment = told.on \cap Environment
    BY <1>1 DEF SettledInv, SameCluster
  <2> QED
    BY <1>3, <1>4, <2>1, RequestDisposes DEF Overtaken
<1>6. DOMAIN cluster = {1}
  BY <1>4, RestTyped, RequestIsThorough
<1>7. ~unnoticed => cluster[1] = Absent
  BY DEF SettledInv, LeftAloneIsGone, Found
<1>8. CASE Reconcile
  <2>1. cluster[1] = Absent \/ (Reaches(p) /\ Current)
    BY <1>7, <1>8 DEF Reconcile, UpToDate
  <2>2. cluster' = Result(p, Reconciled(p, v, FirstShown))
    BY <1>8, ReconcileStores, Storing DEF Reconcile
  <2> QED
    BY <1>4, <1>5, <1>6, <2>1, <2>2, GoneStaysGone
<1>9. CASE Fail
  <2>1. cluster[1] = Absent
    BY <1>7, <1>9 DEF Fail
  <2>2. ~HalfReplaced(p, v)
    BY <2>1 DEF HalfReplaced, Found
  <2>3. \A upto : Result(p, Reconciled(p, v, upto))[1] = Absent
    BY <1>4, <1>5, <1>6, <2>1, GoneStaysGone
  <2>4. CASE UNCHANGED versions
    BY <2>1, <2>4, Keeping
  <2>5. CASE \E c \in Clusters(focus.object) : Store(c) /\ c[1] = Absent
    BY <2>5, Storing
  <2> QED
    BY <1>9, <2>1, <2>2, <2>3, <2>4, <2>5, FailStores
<1> QED
  BY <1>8, <1>9

LEMMA LeftAloneIsGoneStep ==
    ASSUME ThoroughCatalogue, Typed, SettledInv, [Next]_vars
    PROVE  LeftAloneIsGone'
<1>1. CASE EditSwitches \/ EditField \/ Begin \/ Refused \/ ObserveLabel \/ UNCHANGED vars
  BY <1>1, Keeping, SettledFrame
     DEF EditSwitches, EditField, Begin, Refused, ObserveLabel, vars, SettledInv
<1>7. CASE Observe
  BY <1>7, Observing, SettledFrame DEF Observe, SettledInv
<1>8. CASE Unlabel
  BY <1>8 DEF Unlabel, LeftAloneIsGone
<1>2. CASE Deliver
  <2>1. cluster' = Purged(R(cr)) /\ UNCHANGED focus /\ told' = cr
    BY <1>2, PurgedTyped, Storing DEF Deliver
  <2>2. CASE Purge(R(cr)) /\ ~unnoticed'
    <3>1. 1 \in DOMAIN cluster /\ ~PurgeMisses(R(cr))
      BY <1>2, <2>2, RestTyped, PartsOf DEF Deliver
    <3>2. cluster'[1] = Absent
      BY <2>1, <2>2, <3>1 DEF PurgeMisses
    <3> QED
      BY <3>2 DEF LeftAloneIsGone, Found
  <2>3. CASE ~Purge(R(cr)) /\ ~unnoticed'
    <3>1. cluster' = cluster
      BY <2>1, <2>3 DEF Purged
    <3> QED
      BY <1>2, <2>1, <2>3, <3>1, NewsLeavesNothing DEF Deliver
  <2> QED
    BY <2>2, <2>3 DEF LeftAloneIsGone
<1>3. CASE PurgeFails
  BY <1>3 DEF PurgeFails, LeftAloneIsGone
<1>4. CASE Tamper
  <2>1. UNCHANGED <<focus, told>> /\ (unnoticed => unnoticed')
    BY <1>4 DEF Tamper
  <2>2. R(told)' = R(told) /\ (Settling(told)' <=> Settling(told))
    BY <2>1 DEF R, Settling
  <2> SUFFICES ASSUME ~unnoticed, Settling(told), ~R(told).visited PROVE FALSE
    BY <2>1, <2>2 DEF LeftAloneIsGone
  <2>3. DOMAIN cluster = {1}
    BY RestTyped, RequestIsThorough
  <2>4. ~Found(1)
    BY DEF SettledInv, LeftAloneIsGone
  <2> QED
    BY <1>4, <2>3, <2>4 DEF Tamper
<1>5. CASE Reconcile \/ Fail
  BY <1>5, PassLeavesNothing
<1>6. CASE Restart
  <2>1. CASE unnoticed'
    BY <2>1 DEF LeftAloneIsGone
  <2>2. CASE ~unnoticed'
    <3>1. cluster' = cluster
      BY <1>6 DEF Restart, cluster
    <3> QED
      BY <1>6, <2>2, <3>1, NewsLeavesNothing DEF Restart
  <2> QED
    BY <2>1, <2>2
<1> QED
  BY <1>1, <1>2, <1>3, <1>4, <1>5, <1>6, <1>7, <1>8 DEF Next, Informer, Worker

LEMMA SettledInvStep ==
    ASSUME ThoroughCatalogue, Typed, SettledInv, [Next]_vars
    PROVE  SettledInv'
BY SameClusterStep, LastHeardStep, DoneIsAsAskedStep, LeftAloneIsGoneStep, GateHoldsStep
   DEF SettledInv

LEMMA SettledInvHolds == ThoroughCatalogue /\ Spec => [](Typed /\ SettledInv)
<1> SUFFICES ASSUME ThoroughCatalogue PROVE Spec => [](Typed /\ SettledInv)
  OBVIOUS
<1>1. Init => Typed /\ SettledInv
  BY TypedInit, SettledInit
<1>2. Typed /\ SettledInv /\ [Next]_vars => (Typed /\ SettledInv)'
  BY TypedStep, SettledInvStep
<1> QED
  BY <1>1, <1>2, PTL DEF Spec

LEMMA SettledIsAsAsked ==
    ASSUME ThoroughCatalogue, Typed, SettledInv, Settled, ~Departed
    PROVE  AsAsked(cr) /\ DOMAIN cluster = {1}
<1>1. R(cr) = Rec(focus.object, cr.on)
  BY RestTyped, CRsAreRequests, CatalogueOf DEF R
<1>2. Settling(cr)
  BY <1>1, RestTyped DEF Departed, Settling, Settles, FrozenFields, Typed, TypeOK
<1>3. AsAsked(cr)
  BY <1>2 DEF SettledInv, DoneIsAsAsked, Settled
<1> QED
  BY <1>2, <1>3, RestTyped, RequestIsThorough

\* Once things have settled, the object is there if and only if the resource asks
\* for it, whatever edits, foreign changes, failed passes and restarts came before,
\* in whatever order, and however late the cache was that the passes read.  An object
\* that is watched needs no exception for that: the event that the pass did not see
\* brings another one.  One that is not watched, or that is gated by a label, may have
\* been left wrong by its last pass (`Misled'), and is not settled then.  It is enough that each reconciler's conditions agree
\* with what is wanted, and that what a pass leaves undone reaches the queue.
THEOREM PresentAtRest == ThoroughCatalogue /\ Spec => []SettledPresence
<1> SUFFICES ASSUME ThoroughCatalogue PROVE Spec => []SettledPresence
  OBVIOUS
<1>1. Typed /\ SettledInv => SettledPresence
  BY SettledIsAsAsked DEF SettledPresence, AsAsked
<1> QED
  BY <1>1, SettledInvHolds, PTL

\* Once things have settled, a field that comes from the resource has the value the
\* resource gives it: an updater that compares it, replaces the object for it or is
\* refused by the API server until it agrees always ends there, with the exception that
\* PresentAtRest makes for objects that are not watched.
THEOREM CurrentAtRest == ThoroughCatalogue /\ Spec => []SettledContent
<1> SUFFICES ASSUME ThoroughCatalogue PROVE Spec => []SettledContent
  OBVIOUS
<1>1. Typed /\ SettledInv => SettledContent
  BY SettledIsAsAsked DEF SettledContent, AsAsked
<1> QED
  BY <1>1, SettledInvHolds, PTL

=============================================================================
