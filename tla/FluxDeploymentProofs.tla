------------------------ MODULE FluxDeploymentProofs ------------------------
(***************************************************************************)
(* Proofs about the Helm and Kustomize ArtifactDeployment controllers, for *)
(* any scenario: any sequence of specs, any number of reports of Flux,     *)
(* changes, faults and restarts.                                           *)
(***************************************************************************)
EXTENDS FluxDeployment, Watches

-----------------------------------------------------------------------------
(* The inductive invariant                                                 *)

True(status, type) == status.cond[type].value = "True"

\* A status that never says more than Flux has reported.
Sound(status) ==
    /\ True(status, "Stalled") => ~True(status, "Ready") /\ (status.results = "none" \/ torn)
    /\ \A type \in {"Deployed", "ResultCreated", "Ready"} :
          True(status, type) => fetched /\ earned

\* A copy of a Flux object that Flux has reported on.
SourceSeen(object) == kind = "Kustomize" /\ object.ready = "True" => fetched
WorkSeen(object) == /\ object.ready = "True" => earned
                    /\ kind = "Kustomize" /\ object.gen # 0 => fetched

DepPart ==
    /\ dep \in Deployment /\ Sound(dep.status)
    /\ depCache \in Deployment /\ Sound(depCache.status)
    /\ depWatch \in Seq(Deployment) /\ \A d \in Events(depWatch) : Sound(d.status)
    /\ torn \in BOOLEAN

SourcePart ==
    /\ source \in Object /\ SourceSeen(source)
    /\ sourceCache \in Object /\ SourceSeen(sourceCache)
    /\ sourceWatch \in Seq(Object) /\ \A o \in Events(sourceWatch) : SourceSeen(o)

WorkPart ==
    /\ work \in Object /\ WorkSeen(work)
    /\ workCache \in Object /\ WorkSeen(workCache)
    /\ workWatch \in Seq(Object) /\ \A o \in Events(workWatch) : WorkSeen(o)

\* A reconcile works with sound copies, and one that goes on to the Kustomization
\* has seen its source ready.
GoodWorker(w) ==
    /\ w \in Reconcile
    /\ Sound(w.copy.status) /\ Sound(w.wanted)
    /\ w.release.ready = "True" => earned
    /\ kind = "Kustomize" /\ w.pc = "work" => fetched

OtherPart ==
    /\ \E s \in Scenarios : kind = s.kind /\ resources = s.resources
    /\ chart \in Statuses /\ (chart = "True" => fetched)
    /\ services \in ServiceStates /\ registry \in RegistryStates /\ target \in TargetStates
    /\ queued \in BOOLEAN /\ fetched \in BOOLEAN /\ earned \in BOOLEAN
    /\ left \in [Happenings -> Nat]

IInv == DepPart /\ SourcePart /\ WorkPart /\ GoodWorker(worker) /\ OtherPart

-----------------------------------------------------------------------------
(* The operators on a status                                               *)

Gens == 0..Len(resources)

\* meta.SetStatusCondition changes one condition and nothing else.
LEMMA SetCondFacts ==
    ASSUME NEW s \in Status, NEW t \in Types, NEW v \in Statuses, NEW g \in Gens
    PROVE  /\ SetCond(s, t, v, g) \in Status
           /\ SetCond(s, t, v, g).results = s.results
           /\ SetCond(s, t, v, g).cond[t].value = v
           /\ \A u \in Types : u # t => SetCond(s, t, v, g).cond[u] = s.cond[u]
<1> DEFINE c == [value |-> v, observed |-> g]
           cs == [s.cond EXCEPT ![t] = c]
<1>1. c \in Condition /\ c.value = v
  BY DEF Condition, Gens
<1>2. s.cond \in [Types -> Condition] /\ s.results \in Results
  BY DEF Status
<1>3. cs \in [Types -> Condition] /\ cs[t] = c /\ \A u \in Types : u # t => cs[u] = s.cond[u]
  BY <1>1, <1>2
<1>4. SetCond(s, t, v, g) = [s EXCEPT !.cond = cs]
  BY DEF SetCond
<1> HIDE DEF c, cs
<1>5. [s EXCEPT !.cond = cs] \in Status
  BY <1>3 DEF Status
<1>6. [s EXCEPT !.cond = cs].cond = cs /\ [s EXCEPT !.cond = cs].results = s.results
  BY DEF Status
<1> QED BY <1>1, <1>3, <1>4, <1>5, <1>6

\* What Flux has not reported is not copied.
LEMMA CopyCondFacts ==
    ASSUME NEW s \in Status, NEW t \in Types, NEW v \in Statuses, NEW g \in Gens
    PROVE  /\ CopyCond(s, t, v, g) \in Status
           /\ CopyCond(s, t, v, g).results = s.results
           /\ CopyCond(s, t, v, g).cond[t].value \in {v, s.cond[t].value}
           /\ \A u \in Types : u # t => CopyCond(s, t, v, g).cond[u] = s.cond[u]
BY SetCondFacts DEF CopyCond

\* The report on a workload changes Deployed and Healthy only.
LEMMA WorkloadFacts ==
    ASSUME NEW s \in Status, NEW o \in Object, NEW g \in Gens
    PROVE  LET m == mapStatusConditionsFromWorkload(s, o, g) IN
           /\ m \in Status /\ m.results = s.results
           /\ m.cond["Deployed"].value \in {o.ready, s.cond["Deployed"].value}
           /\ \A u \in {"Fetched", "ResultCreated", "Ready", "Stalled"} : m.cond[u] = s.cond[u]
<1> DEFINE d == CopyCond(s, "Deployed", o.ready, g)
           m == CopyCond(d, "Healthy", o.healthy, g)
<1>1. o.ready \in Statuses /\ o.healthy \in Statuses
  BY DEF Object
<1>2. "Deployed" \in Types /\ "Healthy" \in Types
  BY DEF Types
<1>3. /\ d \in Status /\ d.results = s.results
      /\ d.cond["Deployed"].value \in {o.ready, s.cond["Deployed"].value}
      /\ \A u \in Types : u # "Deployed" => d.cond[u] = s.cond[u]
  BY <1>1, <1>2, CopyCondFacts
<1> HIDE DEF d
<1>4. /\ m \in Status /\ m.results = d.results
      /\ \A u \in Types : u # "Healthy" => m.cond[u] = d.cond[u]
  BY <1>1, <1>2, <1>3, CopyCondFacts
<1>5. mapStatusConditionsFromWorkload(s, o, g) = m
  BY DEF mapStatusConditionsFromWorkload, d
<1> HIDE DEF m
<1>6. \A u \in {"Deployed", "Fetched", "ResultCreated", "Ready", "Stalled"} : m.cond[u] = d.cond[u]
  BY <1>4 DEF Types
<1>7. \A u \in {"Fetched", "ResultCreated", "Ready", "Stalled"} : d.cond[u] = s.cond[u]
  BY <1>3 DEF Types
<1> QED BY <1>3, <1>4, <1>5, <1>6, <1>7

\* An exposure failure sets three conditions and rejects the results.
LEMMA FailureFacts ==
    ASSUME NEW s \in Status, NEW g \in Gens
    PROVE  LET f == setExposureValidationFailure(s, g) IN
           /\ f \in Status /\ f.results = "none"
           /\ f.cond["Stalled"].value = "True"
           /\ f.cond["Ready"].value = "False" /\ f.cond["ResultCreated"].value = "False"
           /\ f.cond["Deployed"] = s.cond["Deployed"]
<1> DEFINE a == SetCond(s, "ResultCreated", "False", g)
           b == SetCond(a, "Ready", "False", g)
           c == SetCond(b, "Stalled", "True", g)
           f == [c EXCEPT !.results = "none"]
<1>1. /\ "True" \in Statuses /\ "False" \in Statuses
      /\ "ResultCreated" \in Types /\ "Ready" \in Types /\ "Stalled" \in Types /\ "Deployed" \in Types
  BY DEF Statuses, Types
<1>2. /\ a \in Status /\ a.cond["ResultCreated"].value = "False"
      /\ a.cond["Deployed"] = s.cond["Deployed"]
  BY <1>1, SetCondFacts
<1> HIDE DEF a
<1>3. /\ b \in Status /\ b.cond["ResultCreated"] = a.cond["ResultCreated"]
      /\ b.cond["Ready"].value = "False" /\ b.cond["Deployed"] = a.cond["Deployed"]
  BY <1>1, <1>2, SetCondFacts, SMTT(30)
<1> HIDE DEF b
<1>4. /\ c \in Status /\ c.cond["ResultCreated"] = b.cond["ResultCreated"]
      /\ c.cond["Ready"] = b.cond["Ready"] /\ c.cond["Stalled"].value = "True"
      /\ c.cond["Deployed"] = b.cond["Deployed"]
  BY <1>1, <1>3, SetCondFacts, SMTT(30)
<1> HIDE DEF c
<1>5. f \in Status /\ f.results = "none" /\ f.cond = c.cond
  BY <1>4 DEF Status, Results
<1>6. setExposureValidationFailure(s, g) = f
  BY DEF setExposureValidationFailure, a, b, c
<1> HIDE DEF f
<1> QED BY <1>2, <1>3, <1>4, <1>5, <1>6

\* A status stays sound when Fetched, or the report on a workload that Flux
\* has applied, is copied into it.
LEMMA CopiesSound ==
    ASSUME NEW s \in Status, NEW g \in Gens, Sound(s)
    PROVE  /\ \A v \in Statuses : LET m == CopyCond(s, "Fetched", v, g) IN
                 m \in Status /\ Sound(m)
           /\ \A o \in Object : LET m == mapStatusConditionsFromWorkload(s, o, g) IN
                 (o.ready = "True" => fetched /\ earned)
                 => m \in Status /\ Sound(m)
<1>1. ASSUME NEW v \in Statuses, NEW m, m = CopyCond(s, "Fetched", v, g)
      PROVE  m \in Status /\ Sound(m)
  <2>1. /\ m \in Status /\ m.results = s.results
        /\ \A u \in Types : u # "Fetched" => m.cond[u] = s.cond[u]
    <3>1. "Fetched" \in Types
      BY DEF Types
    <3> QED BY <1>1, <3>1, CopyCondFacts
  <2>2. \A u \in {"Deployed", "ResultCreated", "Ready", "Stalled"} : m.cond[u] = s.cond[u]
    BY <2>1 DEF Types
  <2> QED BY <2>1, <2>2 DEF Sound, True
<1>2. ASSUME NEW o \in Object, NEW m, m = mapStatusConditionsFromWorkload(s, o, g),
             o.ready = "True" => fetched /\ earned
      PROVE  m \in Status /\ Sound(m)
  <2>1. /\ m \in Status /\ m.results = s.results
        /\ m.cond["Deployed"].value \in {o.ready, s.cond["Deployed"].value}
        /\ \A u \in {"Fetched", "ResultCreated", "Ready", "Stalled"} : m.cond[u] = s.cond[u]
    BY <1>2, WorkloadFacts
  <2> QED BY <1>2, <2>1 DEF Sound, True
<1> QED BY <1>1, <1>2

\* mapper.ErrMultipleResources: Ready is taken back, nothing else changes.
LEMMA RefusedSound ==
    ASSUME NEW s \in Status, NEW g \in Gens, Sound(s)
    PROVE  LET m == SetCond(s, "Ready", "False", g) IN
           m \in Status /\ Sound(m)
<1> DEFINE m == SetCond(s, "Ready", "False", g)
<1>1. /\ m \in Status /\ m.results = s.results /\ m.cond["Ready"].value = "False"
      /\ \A u \in Types : u # "Ready" => m.cond[u] = s.cond[u]
  BY SetCondFacts DEF Types, Statuses
<1> HIDE DEF m
<1>2. \A u \in {"Deployed", "ResultCreated", "Stalled"} : m.cond[u] = s.cond[u]
  BY <1>1 DEF Types
<1>3. m \in Status /\ Sound(m)
  BY <1>1, <1>2 DEF Sound, True
<1> QED BY <1>3 DEF m

\* DeploymentResultStatusUpdater keeps a status sound: it leaves a stalled one
\* alone, and leaves no results to one that it stalls.
LEMMA ResultsSound ==
    ASSUME NEW s \in Status, NEW g \in Gens, Sound(s), services \in ServiceStates
    PROVE  LET m == mutateResults(s, g) IN
           m \in Status /\ Sound(m)
<1> DEFINE m == mutateResults(s, g)
           c == SetCond(s, "ResultCreated", "True", g)
           f == setExposureValidationFailure(s, g)
<1>1. CASE IsStatusConditionTrue(s, "Stalled") \/ ~IsStatusConditionTrue(s, "Deployed")
  <2>1. m = s
    BY <1>1 DEF mutateResults
  <2> QED BY <2>1
<1>2. CASE ~IsStatusConditionTrue(s, "Stalled") /\ IsStatusConditionTrue(s, "Deployed")
  <2>0. ~True(s, "Stalled") /\ True(s, "Deployed") /\ fetched /\ earned
    BY <1>2 DEF IsStatusConditionTrue, True, Sound
  <2>1. CASE services = "unexposable"
    <3>1. m = f
      BY <1>2, <2>1 DEF mutateResults
    <3>2. /\ f \in Status /\ f.results = "none"
          /\ f.cond["Ready"].value = "False" /\ f.cond["ResultCreated"].value = "False"
      BY FailureFacts
    <3> HIDE DEF m, f
    <3>3. m \in Status /\ Sound(m)
      BY <2>0, <3>1, <3>2 DEF Sound, True
    <3> QED BY <3>3 DEF m
  <2>2. CASE services = "duplicate"
    <3>1. m = s
      BY <1>2, <2>2 DEF mutateResults
    <3> QED BY <3>1
  <2>3. CASE services \in Results
    <3>1. m = [c EXCEPT !.results = services]
      BY <1>2, <2>3 DEF mutateResults, Results
    <3>2. /\ c \in Status
          /\ \A u \in Types : u # "ResultCreated" => c.cond[u] = s.cond[u]
      BY SetCondFacts DEF Types, Statuses
    <3> HIDE DEF m, c
    <3>3. m \in Status /\ m.cond = c.cond
      BY <2>3, <3>1, <3>2 DEF Status
    <3>4. \A u \in {"Deployed", "Ready", "Stalled"} : m.cond[u] = s.cond[u]
      BY <3>2, <3>3 DEF Types
    <3>5. Sound(m)
      BY <2>0, <3>4 DEF Sound, True
    <3> QED BY <3>3, <3>5 DEF m
  <2> QED BY <2>1, <2>2, <2>3 DEF ServiceStates
<1> QED BY <1>1, <1>2

\* ReadyConditionStatusUpdater sets Ready on a status that is not stalled and
\* whose results were created, and changes nothing else.
LEMMA ReadySound ==
    ASSUME NEW s \in Status, NEW g \in Gens, Sound(s)
    PROVE  LET m == mutateReady(s, g) IN
           m \in Status /\ Sound(m)
<1> DEFINE m == mutateReady(s, g)
           c == SetCond(s, "Ready", "True", g)
<1>1. CASE m = s
  BY <1>1
<1>2. CASE m # s
  <2>1. m = c /\ ~True(s, "Stalled") /\ True(s, "ResultCreated")
    BY <1>2 DEF mutateReady, IsStatusConditionTrue, True
  <2>2. /\ c \in Status /\ c.results = s.results
        /\ \A u \in Types : u # "Ready" => c.cond[u] = s.cond[u]
    BY SetCondFacts DEF Types, Statuses
  <2> HIDE DEF m, c
  <2>3. \A u \in {"Deployed", "ResultCreated", "Stalled"} : m.cond[u] = s.cond[u]
    BY <2>1, <2>2 DEF Types
  <2>4. fetched /\ earned
    BY <2>1 DEF Sound
  <2>5. Sound(m)
    BY <2>1, <2>3, <2>4 DEF Sound, True
  <2> QED BY <2>1, <2>2, <2>5 DEF m
<1> QED BY <1>1, <1>2

\* A merge patch stores either all the wanted conditions or all the stored
\* ones, and the same with the results; unless it tears the status, it stores
\* what was wanted or leaves it alone.
LEMMA MergedFacts ==
    ASSUME NEW s \in Status, NEW c \in Status, NEW w \in Status
    PROVE  LET m == Merged(s, c, w) IN
           /\ m \in Status /\ m.cond \in {w.cond, s.cond}
           /\ \/ m.cond = w.cond /\ m.results = w.results
              \/ m.cond = s.cond /\ m.results = s.results
              \/ Tears(s, c, w)
BY DEF Merged, Status, Tears

-----------------------------------------------------------------------------
(* Types                                                                   *)

\* A scenario has at least one generation, and starts out of what its types
\* allow.
LEMMA ScenarioFacts ==
    ASSUME NEW s \in Scenarios
    PROVE  /\ s.resources \in Seq(Matches) /\ Len(s.resources) \in Nat /\ Len(s.resources) >= 1
           /\ s.services \in ServiceStates /\ s.registry \in RegistryStates
           /\ s.target \in TargetStates /\ s.left \in [Happenings -> Nat]
<1>1. s \in Scenario
  BY ScenarioAssumption
<1>2. s.resources \in Seq(Matches) /\ s.resources # << >>
  BY <1>1 DEF Scenario
<1>3. Len(s.resources) \in Nat \ {0}
  BY <1>2, EmptySeq
<1>4. \A n \in Nat \ {0} : n >= 1
  OBVIOUS
<1> QED BY <1>1, <1>2, <1>3, <1>4 DEF Scenario

\* The initial values have their types whatever the spec is.
LEMMA Defaults ==
    ASSUME TypeOK
    PROVE  /\ Len(resources) \in Nat /\ Len(resources) >= 1
           /\ NoStatus \in Status /\ NoObject \in Object /\ NewDeployment \in Deployment
           /\ Idle \in Reconcile
<1>1. PICK s \in Scenarios : resources = s.resources
  BY DEF TypeOK
<1>2. Len(resources) \in Nat /\ Len(resources) >= 1
  BY <1>1, ScenarioFacts
<1>3. 0 \in 0..Len(resources) /\ 1 \in 1..Len(resources)
  BY <1>2
<1>4. NoCondition \in Condition
  BY <1>3 DEF NoCondition, Condition, Statuses
<1>5. NoStatus \in Status
  BY <1>4 DEF NoStatus, Status, Results
<1>6. NoObject \in Object
  BY <1>3 DEF NoObject, Object, References, Statuses
<1>7. NewDeployment \in Deployment
  BY <1>3, <1>5 DEF NewDeployment, Deployment, Generations
<1>8. Idle \in Reconcile
  BY <1>5, <1>6, <1>7 DEF Idle, Reconcile
<1> QED BY <1>2, <1>5, <1>6, <1>7, <1>8

\* The types depend on the spec, which no step changes.
LEMMA TypesKept ==
    ASSUME UNCHANGED specVars
    PROVE  /\ Deployment' = Deployment /\ Object' = Object /\ Reconcile' = Reconcile
           /\ kind' = kind /\ resources' = resources
BY DEF specVars, Deployment, Object, Reconcile, Status, Condition, Generations

\* A budget is spent one at a time.
LEMMA HappensTyped ==
    ASSUME NEW h \in Happenings, left \in [Happenings -> Nat], Happens(h)
    PROVE  left' \in [Happenings -> Nat]
<1>1. left[h] \in Nat /\ left[h] > 0
  BY DEF Happens
<1>2. left[h] - 1 \in Nat
  BY <1>1
<1> QED BY <1>2 DEF Happens

\* A write that changes nothing sends no event.
LEMMA EmitFacts ==
    ASSUME NEW S, NEW w \in Seq(S), NEW old, NEW new \in S
    PROVE  Emit(w, old, new) \in Seq(S) /\ Events(Emit(w, old, new)) \subseteq Events(w) \cup {new}
BY SendEvent DEF Emit

-----------------------------------------------------------------------------
(* What CreateOrUpdate may lead to                                         *)

Written(object, ref) == [object EXCEPT !.gen = worker.copy.gen, !.ref = ref]

Spent == UNCHANGED left \/ Fault

\* A reference that is used is one of the two kinds, or none.
LEMMA ReferenceTyped ==
    ASSUME TypeOK
    PROVE  /\ getSecretRef(registry) \in References \cup {"error"}
           /\ GetKubeConfigRef(target) \in References \cup {"error"}
BY Zenon DEF TypeOK, getSecretRef, GetKubeConfigRef, RegistryStates, TargetStates, References

\* The object is left alone or written for the generation that is reconciled;
\* then the reconcile goes on with a copy of it, or skips to the status.
LEMMA OCIRepositoryOutcome ==
    ASSUME TypeOK, ReconcileOCIRepository
    PROVE  \E new : /\ new = source \/ \E ref \in References : new = Written(source, ref)
                    /\ WriteSource(new) /\ Spent
                    /\ \/ Skip
                       \/ OCIRepositoryReconciled(sourceCache) \/ OCIRepositoryReconciled(new)
<1>1. getSecretRef(registry) \in References \cup {"error"}
  BY ReferenceTyped
<1> QED BY <1>1, Zenon DEF ReconcileOCIRepository, CreateOrUpdate, Written, Spent

\* The same for the HelmRepository, after which the release comes next.
LEMMA HelmRepositoryOutcome ==
    ASSUME TypeOK, ReconcileHelmRepository
    PROVE  \E new : /\ new = source \/ \E ref \in References : new = Written(source, ref)
                    /\ WriteSource(new) /\ Spent
                    /\ \/ Skip
                       \/ worker' = [worker EXCEPT !.pc = "work"] /\ UNCHANGED queued
<1>1. getSecretRef(registry) \in References \cup {"error"}
  BY ReferenceTyped
<1> QED BY <1>1, Zenon DEF ReconcileHelmRepository, CreateOrUpdate, Written, Spent, HelmRepositoryReconciled

\* What one pass over the Kustomization leaves: unchanged or written, and the
\* reconcile either gives up or judges the cached or the new object.
LEMMA KustomizationOutcome ==
    ASSUME TypeOK, ReconcileKustomization
    PROVE  \E new : /\ new = work \/ \E ref \in References : new = Written(work, ref)
                    /\ WriteWork(new) /\ Spent
                    /\ \/ Skip
                       \/ KustomizationReconciled(workCache) \/ KustomizationReconciled(new)
<1>1. GetKubeConfigRef(target) \in References \cup {"error"}
  BY ReferenceTyped
<1> QED BY <1>1, Zenon DEF ReconcileKustomization, CreateOrUpdate, Written, Spent

\* The same for the HelmRelease.
LEMMA HelmReleaseOutcome ==
    ASSUME TypeOK, ReconcileHelmRelease
    PROVE  \E new : /\ new = work \/ \E ref \in References : new = Written(work, ref)
                    /\ WriteWork(new) /\ Spent
                    /\ \/ Skip
                       \/ HelmReleaseReconciled(workCache) \/ HelmReleaseReconciled(new)
<1>1. GetKubeConfigRef(target) \in References \cup {"error"}
  BY ReferenceTyped
<1> QED BY <1>1, Zenon DEF ReconcileHelmRelease, CreateOrUpdate, Written, Spent

-----------------------------------------------------------------------------
(* Steps preserve the parts of the invariant                               *)

\* The invariant contains the type invariant.
LEMMA IInvTyped == IInv => TypeOK
BY DEF IInv, DepPart, SourcePart, WorkPart, GoodWorker, OtherPart, TypeOK

\* What Flux has once reported stays reported; the histories grow.
Grows == UNCHANGED specVars /\ (fetched => fetched') /\ (earned => earned') /\ (torn => torn')

\* What was sound remains so.
LEMMA SoundKept ==
    ASSUME Grows
    PROVE  /\ \A s : Sound(s) => Sound(s)'
           /\ \A o : SourceSeen(o) => SourceSeen(o)'
           /\ \A o : WorkSeen(o) => WorkSeen(o)'
           /\ \A w : GoodWorker(w) => GoodWorker(w)'
<1>1. \A s : Sound(s) => Sound(s)'
  BY DEF Grows, Sound
<1>2. \A o : (SourceSeen(o) => SourceSeen(o)') /\ (WorkSeen(o) => WorkSeen(o)')
  BY DEF Grows, SourceSeen, WorkSeen, specVars
<1>3. Reconcile' = Reconcile /\ kind' = kind
  BY TypesKept DEF Grows
<1>4. \A w : GoodWorker(w) => GoodWorker(w)'
  BY <1>1, <1>3 DEF GoodWorker, Grows
<1> QED BY <1>1, <1>2, <1>4

\* A part that a step leaves alone.
LEMMA PartsKept ==
    ASSUME IInv, Grows
    PROVE  /\ UNCHANGED depVars => DepPart'
           /\ UNCHANGED sourceVars => SourcePart'
           /\ UNCHANGED workloadVars => WorkPart'
           /\ UNCHANGED worker => GoodWorker(worker)'
<1>1. Deployment' = Deployment /\ Object' = Object
  BY TypesKept DEF Grows
<1>2. UNCHANGED depVars => DepPart'
  BY <1>1, SoundKept DEF IInv, DepPart, depVars
<1>3. UNCHANGED sourceVars => SourcePart'
  BY <1>1, SoundKept DEF IInv, SourcePart, sourceVars
<1>4. UNCHANGED workloadVars => WorkPart'
  BY <1>1, SoundKept DEF IInv, WorkPart, workloadVars
<1>5. UNCHANGED worker => GoodWorker(worker)'
  BY SoundKept DEF IInv
<1> QED BY <1>2, <1>3, <1>4, <1>5

\* Writes of the API server and deliveries of the informers, part by part.
LEMMA DepWritten ==
    ASSUME IInv, Grows, NEW new \in Deployment, Sound(new.status)', WriteDep(new),
           UNCHANGED depCache, torn' \in BOOLEAN
    PROVE  DepPart'
<1>1. Deployment' = Deployment
  BY TypesKept DEF Grows
<1>2. dep' = new /\ depWatch' = Emit(depWatch, dep, new) /\ depWatch \in Seq(Deployment)
  BY DEF WriteDep, IInv, DepPart
<1>3. depWatch' \in Seq(Deployment) /\ Events(depWatch') \subseteq Events(depWatch) \cup {new}
  BY <1>2, EmitFacts
<1>4. \A d \in Events(depWatch') : Sound(d.status)'
  BY <1>3, SoundKept DEF IInv, DepPart
<1>5. Sound(depCache.status)'
  BY SoundKept DEF IInv, DepPart
<1> QED BY <1>1, <1>2, <1>3, <1>4, <1>5 DEF DepPart, IInv

\* A write of the source keeps what is known of its copies in the watch and in
\* the cache.
LEMMA SourceWritten ==
    ASSUME IInv, Grows, NEW new \in Object, SourceSeen(new)', WriteSource(new), UNCHANGED sourceCache
    PROVE  SourcePart'
<1>1. Object' = Object
  BY TypesKept DEF Grows
<1>2. /\ source' = new /\ sourceWatch' = Emit(sourceWatch, source, new)
      /\ sourceWatch \in Seq(Object)
  BY DEF WriteSource, IInv, SourcePart
<1>3. sourceWatch' \in Seq(Object) /\ Events(sourceWatch') \subseteq Events(sourceWatch) \cup {new}
  BY <1>2, EmitFacts
<1>4. \A o \in Events(sourceWatch') : SourceSeen(o)'
  BY <1>3, SoundKept DEF IInv, SourcePart
<1>5. SourceSeen(sourceCache)'
  BY SoundKept DEF IInv, SourcePart
<1> QED BY <1>1, <1>2, <1>3, <1>4, <1>5 DEF SourcePart, IInv

\* The same for a write of the Kustomization or HelmRelease.
LEMMA WorkWritten ==
    ASSUME IInv, Grows, NEW new \in Object, WorkSeen(new)', WriteWork(new), UNCHANGED workCache
    PROVE  WorkPart'
<1>1. Object' = Object
  BY TypesKept DEF Grows
<1>2. work' = new /\ workWatch' = Emit(workWatch, work, new) /\ workWatch \in Seq(Object)
  BY DEF WriteWork, IInv, WorkPart
<1>3. workWatch' \in Seq(Object) /\ Events(workWatch') \subseteq Events(workWatch) \cup {new}
  BY <1>2, EmitFacts
<1>4. \A o \in Events(workWatch') : WorkSeen(o)'
  BY <1>3, SoundKept DEF IInv, WorkPart
<1>5. WorkSeen(workCache)'
  BY SoundKept DEF IInv, WorkPart
<1> QED BY <1>1, <1>2, <1>3, <1>4, <1>5 DEF WorkPart, IInv

\* An idle worker holds nothing that could be wrong.
LEMMA IdleGood == IInv => GoodWorker(Idle)
<1> SUFFICES ASSUME IInv PROVE GoodWorker(Idle)
  OBVIOUS
<1>1. Idle \in Reconcile
  BY IInvTyped, Defaults
<1>2. \A t \in Types : NoStatus.cond[t].value = "absent"
  BY DEF NoStatus, NoCondition
<1>3. Sound(NoStatus)
  BY <1>2 DEF Sound, True, Types
<1>4. /\ Idle.copy.status = NoStatus /\ Idle.wanted = NoStatus /\ Idle.pc = "idle"
      /\ Idle.release.ready = "absent"
  BY DEF Idle, NewDeployment, NoObject
<1> QED BY <1>1, <1>3, <1>4 DEF GoodWorker

\* Neither Star, Flux, nor anyone else outside makes a copy unsound.
LEMMA EnvironmentKeeps == IInv /\ Environment => IInv'
<1> SUFFICES ASSUME IInv, Environment PROVE IInv'
  OBVIOUS
<1>o. OtherPart
  BY DEF IInv
<1>1. CASE EditSpec
  <2>1. Grows /\ UNCHANGED <<specVars, sourceVars, workloadVars, fluxVars, outsideVars, worker, queued, left>>
    BY <1>1 DEF EditSpec, Grows, depVars, fluxVars, workerVars
  <2>2. PICK new : new = [dep EXCEPT !.gen = @ + 1]
    BY Zenon
  <2>3. /\ new \in Deployment /\ new.status = dep.status /\ WriteDep(new)
        /\ UNCHANGED depCache /\ torn' \in BOOLEAN
    BY <1>1, <2>2 DEF EditSpec, IInv, DepPart, Deployment
  <2>5. Sound(new.status)'
    BY <2>1, <2>3, SoundKept DEF IInv, DepPart
  <2>6. DepPart'
    BY <2>1, <2>3, <2>5, DepWritten
  <2>4. OtherPart'
    BY <1>o, <2>1 DEF OtherPart, specVars, fluxVars, outsideVars
  <2> QED BY <2>1, <2>4, <2>6, PartsKept DEF IInv
<1>2. CASE FluxSource
  <2>1. PICK ready \in {"True", "False"} :
          /\ WriteSource([source EXCEPT !.ready = ready])
          /\ fetched' = (fetched \/ ready = "True")
    BY <1>2 DEF FluxSource
  <2>2. PICK new : new = [source EXCEPT !.ready = ready]
    BY Zenon
  <2>3. /\ Happens("reports")
        /\ UNCHANGED <<specVars, depVars, sourceCache, workloadVars, chart, earned, outsideVars,
                       worker, queued>>
    BY <1>2 DEF FluxSource, workerVars
  <2>4. Grows
    BY <2>1, <2>3, Zenon DEF Grows, depVars
  <2>5. new \in Object /\ new.ready = ready
    BY <2>2, Zenon DEF IInv, SourcePart, Object, Statuses
  <2>6. SourceSeen(new)'
    BY <2>1, <2>5, Zenon DEF SourceSeen
  <2>7. SourcePart'
    BY <2>1, <2>2, <2>3, <2>4, <2>5, <2>6, SourceWritten
  <2>8. OtherPart'
    <3>1. left' \in [Happenings -> Nat]
      BY <1>o, <2>3, HappensTyped DEF OtherPart, Happenings
    <3> QED BY <1>o, <2>1, <2>3, <3>1 DEF OtherPart, specVars, outsideVars
  <2> QED BY <2>3, <2>4, <2>7, <2>8, PartsKept DEF IInv
<1>3. CASE FluxChart
  <2>1. /\ Happens("reports") /\ chart' \in {"True", "False"}
        /\ fetched' = (fetched \/ chart' = "True")
        /\ UNCHANGED <<specVars, depVars, sourceVars, workloadVars, earned, outsideVars, worker, queued>>
    BY <1>3 DEF FluxChart, workerVars
  <2>2. Grows
    BY <2>1, Zenon DEF Grows, depVars
  <2>3. left' \in [Happenings -> Nat]
    BY <1>o, <2>1, HappensTyped DEF OtherPart, Happenings
  <2>4. OtherPart'
    BY <1>o, <2>1, <2>3, Zenon DEF OtherPart, specVars, outsideVars, Statuses
  <2> QED BY <2>1, <2>2, <2>4, PartsKept DEF IInv
<1>4. CASE FluxWork
  <2>1. PICK ready \in {"True", "False"}, healthy \in {"True", "False"} :
          /\ WriteWork([work EXCEPT !.ready = ready, !.healthy = healthy])
          /\ earned' = (earned \/ ready = "True")
    BY <1>4, Zenon DEF FluxWork
  <2>2. PICK new : new = [work EXCEPT !.ready = ready, !.healthy = healthy]
    OBVIOUS
  <2>3. /\ Happens("reports")
        /\ UNCHANGED <<specVars, depVars, sourceVars, workCache, chart, fetched, outsideVars,
                       worker, queued>>
    BY <1>4 DEF FluxWork, workerVars
  <2>4. Grows
    BY <2>1, <2>3, Zenon DEF Grows, depVars
  <2>5. new \in Object /\ new.ready = ready /\ new.gen = work.gen
    BY <2>2, Zenon DEF IInv, WorkPart, Object, Statuses
  <2>6. WorkSeen(new)'
    BY <2>1, <2>3, <2>5, Zenon DEF WorkSeen, IInv, WorkPart, specVars
  <2>7. WorkPart'
    BY <2>1, <2>2, <2>3, <2>4, <2>5, <2>6, WorkWritten
  <2>8. OtherPart'
    <3>1. left' \in [Happenings -> Nat]
      BY <1>o, <2>3, HappensTyped DEF OtherPart, Happenings
    <3> QED BY <1>o, <2>1, <2>3, <3>1 DEF OtherPart, specVars, outsideVars
  <2> QED BY <2>3, <2>4, <2>7, <2>8, PartsKept DEF IInv
<1>5. CASE ChangeServices \/ ChangeRegistry \/ ChangeTarget
  <2>1. /\ Happens("services") \/ Happens("settings")
        /\ UNCHANGED <<specVars, depVars, sourceVars, workloadVars, fluxVars, worker>>
    BY <1>5 DEF ChangeServices, ChangeRegistry, ChangeTarget, workerVars
  <2>2. Grows
    BY <2>1 DEF Grows, depVars, fluxVars
  <2>3. /\ services' \in ServiceStates /\ registry' \in RegistryStates /\ target' \in TargetStates
        /\ queued' \in BOOLEAN
    BY <1>5, <1>o, Zenon DEF ChangeServices, ChangeRegistry, ChangeTarget, workerVars, OtherPart
  <2>4. left' \in [Happenings -> Nat]
    BY <1>o, <2>1, HappensTyped DEF OtherPart, Happenings
  <2>5. OtherPart'
    BY <1>o, <2>1, <2>3, <2>4 DEF OtherPart, specVars, fluxVars
  <2> QED BY <2>1, <2>2, <2>5, PartsKept DEF IInv
<1> QED BY <1>1, <1>2, <1>3, <1>4, <1>5 DEF Environment

\* An informer takes over what was on its way.
LEMMA DeliveryKeeps == IInv /\ (DeliverDep \/ DeliverSource \/ DeliverWork) => IInv'
<1> SUFFICES ASSUME IInv, DeliverDep \/ DeliverSource \/ DeliverWork PROVE IInv'
  OBVIOUS
<1>1. Grows /\ UNCHANGED <<specVars, fluxVars, outsideVars, worker, left>>
  BY DEF DeliverDep, DeliverSource, DeliverWork, Grows, depVars, fluxVars
<1>2. OtherPart'
  <2>1. OtherPart /\ queued' \in BOOLEAN
    BY Zenon DEF IInv, DeliverDep, DeliverSource, DeliverWork
  <2> QED BY <1>1, <2>1 DEF OtherPart, specVars, fluxVars, outsideVars
<1>3. Deployment' = Deployment /\ Object' = Object
  BY <1>1, TypesKept
<1>4. CASE DeliverDep
  <2>1. /\ depWatch # << >> /\ depCache' = Head(depWatch) /\ depWatch' = Tail(depWatch)
        /\ UNCHANGED <<dep, torn, sourceVars, workloadVars>>
    BY <1>4 DEF DeliverDep
  <2>2. /\ depCache' \in Deployment /\ depWatch' \in Seq(Deployment)
        /\ Events(depWatch) = {depCache'} \cup Events(depWatch')
    BY <2>1, TakeEvent DEF IInv, DepPart
  <2>3. \A d \in {dep, depCache'} \cup Events(depWatch') : Sound(d.status)'
    BY <1>1, <2>2, SoundKept DEF IInv, DepPart
  <2>4. DepPart'
    BY <1>3, <2>1, <2>2, <2>3 DEF DepPart, IInv
  <2> QED BY <1>1, <1>2, <2>1, <2>4, PartsKept DEF IInv
<1>5. CASE DeliverSource
  <2>1. /\ sourceWatch # << >> /\ sourceCache' = Head(sourceWatch) /\ sourceWatch' = Tail(sourceWatch)
        /\ UNCHANGED <<source, depVars, workloadVars>>
    BY <1>5 DEF DeliverSource
  <2>2. /\ sourceCache' \in Object /\ sourceWatch' \in Seq(Object)
        /\ Events(sourceWatch) = {sourceCache'} \cup Events(sourceWatch')
    BY <2>1, TakeEvent DEF IInv, SourcePart
  <2>3. \A o \in {source, sourceCache'} \cup Events(sourceWatch') : SourceSeen(o)'
    BY <1>1, <2>2, SoundKept DEF IInv, SourcePart
  <2>4. SourcePart'
    BY <1>3, <2>1, <2>2, <2>3 DEF SourcePart, IInv
  <2> QED BY <1>1, <1>2, <2>1, <2>4, PartsKept DEF IInv
<1>6. CASE DeliverWork
  <2>1. /\ workWatch # << >> /\ workCache' = Head(workWatch) /\ workWatch' = Tail(workWatch)
        /\ UNCHANGED <<work, depVars, sourceVars>>
    BY <1>6 DEF DeliverWork
  <2>2. /\ workCache' \in Object /\ workWatch' \in Seq(Object)
        /\ Events(workWatch) = {workCache'} \cup Events(workWatch')
    BY <2>1, TakeEvent DEF IInv, WorkPart
  <2>3. \A o \in {work, workCache'} \cup Events(workWatch') : WorkSeen(o)'
    BY <1>1, <2>2, SoundKept DEF IInv, WorkPart
  <2>4. WorkPart'
    BY <1>3, <2>1, <2>2, <2>3 DEF WorkPart, IInv
  <2> QED BY <1>1, <1>2, <2>1, <2>4, PartsKept DEF IInv
<1> QED BY <1>4, <1>5, <1>6

-----------------------------------------------------------------------------
(* Steps of Reconcile preserve the invariant                               *)

PCs == {"idle", "source", "work", "chart", "results", "patch"}

\* What the steps of Reconcile need to know of the worker.
LEMMA WorkerFacts ==
    ASSUME IInv
    PROVE  /\ worker \in Reconcile /\ worker.copy \in Deployment /\ worker.copy.status \in Status
           /\ worker.copy.gen \in Gens /\ worker.wanted \in Status /\ worker.release \in Object
           /\ Sound(worker.wanted) /\ Sound(worker.copy.status)
<1>1. worker \in Reconcile /\ Sound(worker.wanted) /\ Sound(worker.copy.status)
  BY DEF IInv, GoodWorker
<1>2. worker.copy \in Deployment /\ worker.wanted \in Status /\ worker.release \in Object
  BY <1>1 DEF Reconcile
<1>3. worker.copy.gen \in Generations /\ worker.copy.status \in Status
  BY <1>2 DEF Deployment
<1>4. worker.copy.gen \in Gens
  BY <1>3, IInvTyped, Defaults DEF Generations, Gens
<1> QED BY <1>1, <1>2, <1>3, <1>4

\* A reconcile goes on with another pc, status and release.
LEMMA WorkerGoesOn ==
    ASSUME IInv, NEW pc \in PCs, NEW w \in Status, NEW r \in Object, Sound(w),
           r.ready = "True" => earned,
           kind = "Kustomize" /\ pc = "work" => fetched
    PROVE  GoodWorker([worker EXCEPT !.pc = pc, !.wanted = w, !.release = r])
<1> DEFINE v == [worker EXCEPT !.pc = pc, !.wanted = w, !.release = r]
<1>1. worker \in Reconcile
  BY WorkerFacts
<1>2. v \in Reconcile /\ v.pc = pc /\ v.copy = worker.copy /\ v.wanted = w /\ v.release = r
  BY <1>1, Zenon DEF Reconcile, PCs
<1> HIDE DEF v
<1>3. GoodWorker(v)
  BY <1>2, WorkerFacts DEF GoodWorker
<1> QED BY <1>3 DEF v

\* The forms in which the code does so.
LEMMA WorkerForms ==
    ASSUME IInv
    PROVE  /\ \A pc \in PCs : [worker EXCEPT !.pc = pc]
                = [worker EXCEPT !.pc = pc, !.wanted = worker.wanted, !.release = worker.release]
           /\ \A pc \in PCs, w \in Status : [worker EXCEPT !.pc = pc, !.wanted = w]
                = [worker EXCEPT !.pc = pc, !.wanted = w, !.release = worker.release]
           /\ \A pc \in PCs, r \in Object : [worker EXCEPT !.pc = pc, !.release = r]
                = [worker EXCEPT !.pc = pc, !.wanted = worker.wanted, !.release = r]
<1>1. worker \in Reconcile
  BY WorkerFacts
<1> QED BY <1>1, Zenon DEF Reconcile

\* A step of Reconcile that touches neither what Flux reports nor the
\* surroundings.
Internal == UNCHANGED <<specVars, fluxVars, outsideVars>> /\ (torn => torn') /\ Spent

\* Such a step keeps the surroundings typed and every sound reconcile sound.
LEMMA InternalFacts ==
    ASSUME IInv, Internal, queued' \in BOOLEAN
    PROVE  Grows /\ OtherPart' /\ \A w : GoodWorker(w) => GoodWorker(w)'
<1>1. Grows
  BY DEF Internal, Grows, depVars, fluxVars
<1>2. left' \in [Happenings -> Nat]
  BY HappensTyped DEF IInv, OtherPart, Internal, Spent, Fault, Happenings
<1>3. OtherPart'
  BY <1>2 DEF IInv, OtherPart, Internal, specVars, fluxVars, outsideVars
<1> QED BY <1>1, <1>3, SoundKept

\* After an error the status is determined all the same.
LEMMA SkipGood ==
    ASSUME IInv, Skip
    PROVE  GoodWorker(worker') /\ queued' \in BOOLEAN
<1>1. NoObject \in Object /\ NoObject.ready # "True"
  BY IInvTyped, Defaults DEF NoObject
<1>2. worker' = [worker EXCEPT !.pc = "results", !.wanted = worker.wanted, !.release = NoObject]
  BY <1>1, WorkerForms, Zenon DEF Skip, PCs
<1>3. queued' \in BOOLEAN
  BY DEF Skip, IInv, OtherPart
<1>4. GoodWorker([worker EXCEPT !.pc = "results", !.wanted = worker.wanted, !.release = NoObject])
  BY <1>1, WorkerFacts, WorkerGoesOn, Zenon DEF PCs, IInv, GoodWorker
<1> QED BY <1>2, <1>3, <1>4

\* A write for the generation that is reconciled keeps Flux's report.
LEMMA WrittenFacts ==
    ASSUME IInv, NEW o \in Object, NEW new,
           new = o \/ \E ref \in References : new = Written(o, ref)
    PROVE  new \in Object /\ new.ready = o.ready
<1>1. worker.copy.gen \in 0..Len(resources)
  BY WorkerFacts DEF Gens
<1> QED BY <1>1, Zenon DEF Written, Object

\* Reconcile takes the informer's copy, and its status, sound as they are.
LEMMA StartKeeps == IInv /\ Start => IInv'
<1> SUFFICES ASSUME IInv, Start PROVE IInv'
  OBVIOUS
<1>1. /\ Internal /\ queued' \in BOOLEAN /\ UNCHANGED <<depVars, sourceVars, workloadVars>>
  BY Zenon DEF Start, Internal, Spent, depVars
<1>2. /\ depCache \in Deployment /\ depCache.status \in Status /\ depCache.gen \in Gens
      /\ Sound(depCache.status)
  <2>1. depCache \in Deployment /\ Sound(depCache.status)
    BY DEF IInv, DepPart
  <2>2. depCache.gen \in Generations /\ depCache.status \in Status
    BY <2>1 DEF Deployment
  <2>3. depCache.gen \in Gens
    BY <2>2, IInvTyped, Defaults DEF Generations, Gens
  <2> QED BY <2>1, <2>2, <2>3
<1>3. PICK pc \in {"patch", "source", "results"}, w \in Status :
        /\ worker' = [Idle EXCEPT !.pc = pc, !.copy = depCache, !.wanted = w]
        /\ Sound(w)
  <2> DEFINE refused == SetCond(depCache.status, "Ready", "False", depCache.gen)
  <2>1. refused \in Status /\ Sound(refused)
    BY <1>2, RefusedSound
  <2>2. \/ worker' = [Idle EXCEPT !.pc = "patch", !.copy = depCache, !.wanted = refused]
        \/ worker' = [Idle EXCEPT !.pc = "source", !.copy = depCache, !.wanted = depCache.status]
        \/ worker' = [Idle EXCEPT !.pc = "results", !.copy = depCache, !.wanted = depCache.status]
    BY DEF Start
  <2> HIDE DEF refused
  <2> QED BY <1>2, <2>1, <2>2, Zenon
<1>4. /\ worker' \in Reconcile /\ worker'.pc = pc /\ worker'.copy = depCache /\ worker'.wanted = w
      /\ worker'.release = NoObject
  <2>1. Idle \in Reconcile /\ Idle.release = NoObject
    BY IInvTyped, Defaults DEF Idle
  <2> QED BY <1>2, <1>3, <2>1, Zenon DEF Reconcile
<1>5. GoodWorker(worker')
  <2>1. NoObject.ready # "True" /\ pc # "work"
    BY DEF NoObject
  <2> QED BY <1>2, <1>3, <1>4, <2>1 DEF GoodWorker
<1> QED BY <1>1, <1>5, InternalFacts, PartsKept DEF IInv

\* The source: its report is copied, and a Kustomization goes on only if the
\* source is ready.
LEMMA SourceKeeps == IInv /\ (ReconcileOCIRepository \/ ReconcileHelmRepository) => IInv'
<1> SUFFICES ASSUME IInv, ReconcileOCIRepository \/ ReconcileHelmRepository PROVE IInv'
  OBVIOUS
<1>t. TypeOK
  BY IInvTyped
<1>o. source \in Object /\ SourceSeen(source) /\ sourceCache \in Object /\ SourceSeen(sourceCache)
  BY DEF IInv, SourcePart
<1>1. UNCHANGED <<specVars, depVars, sourceCache, workloadVars, fluxVars, outsideVars>>
  BY DEF ReconcileOCIRepository, ReconcileHelmRepository
<1>2. PICK new : /\ new = source \/ \E ref \in References : new = Written(source, ref)
                 /\ WriteSource(new) /\ Spent
                 /\ \/ Skip
                    \/ \E o \in {sourceCache, new} : kind = "Kustomize" /\ OCIRepositoryReconciled(o)
                    \/ /\ kind = "Helm"
                       /\ worker' = [worker EXCEPT !.pc = "work"] /\ UNCHANGED queued
  <2>1. CASE ReconcileOCIRepository
    <3>1. kind = "Kustomize"
      BY <2>1 DEF ReconcileOCIRepository
    <3> QED BY <1>t, <2>1, <3>1, OCIRepositoryOutcome
  <2>2. CASE ReconcileHelmRepository
    <3>1. kind = "Helm"
      BY <2>2 DEF ReconcileHelmRepository
    <3> QED BY <1>t, <2>2, <3>1, HelmRepositoryOutcome
  <2> QED BY <2>1, <2>2
<1>3. new \in Object /\ new.ready = source.ready /\ SourceSeen(new)
  BY <1>2, <1>o, WrittenFacts DEF SourceSeen
<1>4. GoodWorker(worker') /\ queued' \in BOOLEAN
  <2>1. CASE Skip
    BY <2>1, SkipGood
  <2>2. ASSUME NEW o \in {sourceCache, new}, kind = "Kustomize", OCIRepositoryReconciled(o)
        PROVE  GoodWorker(worker') /\ queued' \in BOOLEAN
    <3>1. o \in Object /\ o.ready \in Statuses /\ (o.ready = "True" => fetched)
      BY <1>o, <1>3, <2>2 DEF SourceSeen, Object
    <3> DEFINE w == CopyCond(worker.wanted, "Fetched", o.ready, worker.copy.gen)
    <3>2. w \in Status /\ Sound(w)
      BY <3>1, WorkerFacts, CopiesSound
    <3>3. PICK pc \in {"work", "results"} :
            /\ pc = "work" => o.ready = "True"
            /\ worker' = [worker EXCEPT !.pc = pc, !.wanted = w]
      BY <2>2, Zenon DEF OCIRepositoryReconciled
    <3> HIDE DEF w
    <3>4. pc \in PCs
      BY <3>3 DEF PCs
    <3>5. worker' = [worker EXCEPT !.pc = pc, !.wanted = w, !.release = worker.release]
      BY <3>2, <3>3, <3>4, WorkerForms, Zenon
    <3>7. GoodWorker([worker EXCEPT !.pc = pc, !.wanted = w, !.release = worker.release])
      BY <3>1, <3>2, <3>3, <3>4, WorkerFacts, WorkerGoesOn, Zenon DEF IInv, GoodWorker
    <3>8. queued' \in BOOLEAN
      BY <2>2 DEF OCIRepositoryReconciled, IInv, OtherPart
    <3> QED BY <3>5, <3>7, <3>8
  <2>3. CASE kind = "Helm" /\ worker' = [worker EXCEPT !.pc = "work"] /\ UNCHANGED queued
    <3>1. worker' = [worker EXCEPT !.pc = "work", !.wanted = worker.wanted, !.release = worker.release]
      BY <2>3, WorkerForms, Zenon DEF PCs
    <3>2. GoodWorker([worker EXCEPT !.pc = "work", !.wanted = worker.wanted, !.release = worker.release])
      BY <2>3, WorkerFacts, WorkerGoesOn, Zenon DEF PCs, IInv, GoodWorker
    <3> QED BY <2>3, <3>1, <3>2, Zenon DEF IInv, OtherPart
  <2> QED BY <1>2, <2>1, <2>2, <2>3
<1>5. Internal
  BY <1>1, <1>2 DEF Internal, depVars
<1>6. Grows /\ OtherPart' /\ GoodWorker(worker)'
  BY <1>4, <1>5, InternalFacts
<1>7. SourceSeen(new)'
  BY <1>3, <1>6, SoundKept
<1>8. SourcePart'
  BY <1>1, <1>2, <1>3, <1>6, <1>7, SourceWritten
<1> QED BY <1>1, <1>6, <1>8, PartsKept DEF IInv

\* The workload: the report on a Kustomization is copied, a HelmRelease is
\* held until its HelmChart is known.
LEMMA WorkKeeps == IInv /\ (ReconcileKustomization \/ ReconcileHelmRelease) => IInv'
<1> SUFFICES ASSUME IInv, ReconcileKustomization \/ ReconcileHelmRelease PROVE IInv'
  OBVIOUS
<1>t. TypeOK
  BY IInvTyped
<1>o. work \in Object /\ WorkSeen(work) /\ workCache \in Object /\ WorkSeen(workCache)
  BY DEF IInv, WorkPart
<1>1. /\ UNCHANGED <<specVars, depVars, sourceVars, workCache, fluxVars, outsideVars>>
      /\ worker.pc = "work"
  BY DEF ReconcileKustomization, ReconcileHelmRelease
<1>f. kind = "Kustomize" => fetched
  BY <1>1 DEF IInv, GoodWorker
<1>2. PICK new : /\ new = work \/ \E ref \in References : new = Written(work, ref)
                 /\ WriteWork(new) /\ Spent
                 /\ \/ Skip
                    \/ \E o \in {workCache, new} : kind = "Kustomize" /\ KustomizationReconciled(o)
                    \/ \E o \in {workCache, new} : kind = "Helm" /\ HelmReleaseReconciled(o)
  <2>1. CASE ReconcileKustomization
    <3>1. kind = "Kustomize"
      BY <2>1 DEF ReconcileKustomization
    <3> QED BY <1>t, <2>1, <3>1, KustomizationOutcome
  <2>2. CASE ReconcileHelmRelease
    <3>1. kind = "Helm"
      BY <2>2 DEF ReconcileHelmRelease
    <3> QED BY <1>t, <2>2, <3>1, HelmReleaseOutcome
  <2> QED BY <2>1, <2>2
<1>3. new \in Object /\ new.ready = work.ready /\ WorkSeen(new)
  BY <1>2, <1>o, <1>f, WrittenFacts DEF WorkSeen
<1>4. GoodWorker(worker') /\ queued' \in BOOLEAN
  <2>1. CASE Skip
    BY <2>1, SkipGood
  <2>2. ASSUME NEW o \in {workCache, new}, kind = "Kustomize", KustomizationReconciled(o)
        PROVE  GoodWorker(worker') /\ queued' \in BOOLEAN
    <3>1. o \in Object /\ (o.ready = "True" => fetched /\ earned)
      BY <1>o, <1>3, <1>f, <2>2 DEF WorkSeen
    <3> DEFINE w == mapStatusConditionsFromWorkload(worker.wanted, o, worker.copy.gen)
    <3>2. w \in Status /\ Sound(w)
      BY <3>1, WorkerFacts, CopiesSound
    <3>3. worker' = [worker EXCEPT !.pc = "results", !.wanted = w]
      BY <2>2 DEF KustomizationReconciled
    <3> HIDE DEF w
    <3>4. worker' = [worker EXCEPT !.pc = "results", !.wanted = w, !.release = worker.release]
      BY <3>2, <3>3, WorkerForms, Zenon DEF PCs
    <3>6. GoodWorker([worker EXCEPT !.pc = "results", !.wanted = w, !.release = worker.release])
      BY <3>2, WorkerFacts, WorkerGoesOn, Zenon DEF PCs, IInv, GoodWorker
    <3>7. queued' \in BOOLEAN
      BY <2>2 DEF KustomizationReconciled, IInv, OtherPart
    <3> QED BY <3>4, <3>6, <3>7
  <2>3. ASSUME NEW o \in {workCache, new}, kind = "Helm", HelmReleaseReconciled(o)
        PROVE  GoodWorker(worker') /\ queued' \in BOOLEAN
    <3>1. o \in Object /\ (o.ready = "True" => earned)
      BY <1>o, <1>3, <2>3 DEF WorkSeen
    <3>2. worker' = [worker EXCEPT !.pc = "chart", !.wanted = worker.wanted, !.release = o]
      BY <2>3, <3>1, WorkerForms, Zenon DEF PCs, HelmReleaseReconciled
    <3>3. GoodWorker([worker EXCEPT !.pc = "chart", !.wanted = worker.wanted, !.release = o])
      BY <3>1, WorkerFacts, WorkerGoesOn, Zenon DEF PCs, IInv, GoodWorker
    <3>4. queued' \in BOOLEAN
      BY <2>3 DEF HelmReleaseReconciled, IInv, OtherPart
    <3> QED BY <3>2, <3>3, <3>4
  <2> QED BY <1>2, <2>1, <2>2, <2>3
<1>5. Internal
  BY <1>1, <1>2 DEF Internal, depVars
<1>6. Grows /\ OtherPart' /\ GoodWorker(worker)'
  BY <1>4, <1>5, InternalFacts
<1>7. WorkSeen(new)'
  BY <1>3, <1>6, SoundKept
<1>8. WorkPart'
  BY <1>1, <1>2, <1>3, <1>6, <1>7, WorkWritten
<1> QED BY <1>1, <1>6, <1>8, PartsKept DEF IInv

\* The HelmChart: only a ready one lets the report on the HelmRelease through.
LEMMA ChartKeeps == IInv /\ GetChart => IInv'
<1> SUFFICES ASSUME IInv, GetChart PROVE IInv'
  OBVIOUS
<1>1. /\ UNCHANGED <<specVars, depVars, sourceVars, workloadVars, fluxVars, outsideVars>>
      /\ Internal
  BY DEF GetChart, Internal, Spent, depVars
<1>2. GoodWorker(worker') /\ queued' \in BOOLEAN
  <2>1. CASE Skip
    BY <2>1, SkipGood
  <2>2. CASE ~Skip
    <3> DEFINE seen == CopyCond(worker.wanted, "Fetched", chart, worker.copy.gen)
               copied == mapStatusConditionsFromWorkload(seen, worker.release, worker.copy.gen)
               w == IF chart = "True" THEN copied ELSE seen
    <3>1. worker' = [worker EXCEPT !.pc = "results", !.release = NoObject, !.wanted = w]
          /\ UNCHANGED queued
      BY <2>2 DEF GetChart
    <3>2. chart \in Statuses /\ (chart = "True" => fetched)
      BY DEF IInv, OtherPart
    <3>3. seen \in Status /\ Sound(seen)
      BY <3>2, WorkerFacts, CopiesSound
    <3> HIDE DEF seen
    <3>4. w \in Status /\ Sound(w)
      <4>1. CASE chart = "True"
        <5>1. worker.release \in Object /\ (worker.release.ready = "True" => fetched /\ earned)
          BY <3>2, <4>1, WorkerFacts DEF IInv, GoodWorker
        <5>2. copied \in Status /\ Sound(copied)
          BY <3>3, <5>1, WorkerFacts, CopiesSound
        <5> HIDE DEF copied
        <5> QED BY <3>3, <4>1, <5>2
      <4>2. CASE chart # "True"
        BY <3>3, <4>2
      <4> QED BY <4>1, <4>2
    <3> HIDE DEF w
    <3>5. NoObject \in Object /\ NoObject.ready # "True"
      BY IInvTyped, Defaults DEF NoObject
    <3>6. worker' = [worker EXCEPT !.pc = "results", !.wanted = w, !.release = NoObject]
      BY <3>1, WorkerFacts, Zenon DEF Reconcile
    <3>8. GoodWorker([worker EXCEPT !.pc = "results", !.wanted = w, !.release = NoObject])
      BY <3>4, <3>5, WorkerGoesOn, Zenon DEF PCs
    <3> QED BY <3>1, <3>6, <3>8 DEF IInv, OtherPart
  <2> QED BY <2>1, <2>2
<1> QED BY <1>1, <1>2, InternalFacts, PartsKept DEF IInv

\* The status updaters.
LEMMA UpdateKeeps == IInv /\ UpdateStatus => IInv'
<1> SUFFICES ASSUME IInv, UpdateStatus PROVE IInv'
  OBVIOUS
<1>1. /\ UNCHANGED <<specVars, depVars, sourceVars, workloadVars, fluxVars, outsideVars, queued>>
      /\ Internal
  BY DEF UpdateStatus, Internal, Spent, depVars
<1> DEFINE gen == worker.copy.gen
<1>2. services \in ServiceStates
  BY DEF IInv, OtherPart
<1>3. PICK m \in {worker.wanted, mutateResults(worker.wanted, gen)} :
        worker' = [worker EXCEPT !.pc = "patch", !.wanted = mutateReady(m, gen)]
  BY DEF UpdateStatus
<1>4. m \in Status /\ Sound(m)
  BY <1>2, <1>3, WorkerFacts, ResultsSound
<1>5. PICK w : w = mutateReady(m, gen)
  OBVIOUS
<1>6. w \in Status /\ Sound(w)
  BY <1>4, <1>5, WorkerFacts, ReadySound
<1>7. worker' = [worker EXCEPT !.pc = "patch", !.wanted = w, !.release = worker.release]
  BY <1>3, <1>5, <1>6, WorkerForms, Zenon DEF PCs
<1>8. GoodWorker([worker EXCEPT !.pc = "patch", !.wanted = w, !.release = worker.release])
  BY <1>6, WorkerFacts, WorkerGoesOn, Zenon DEF PCs, IInv, GoodWorker
<1>9. queued' \in BOOLEAN
  BY <1>1 DEF IInv, OtherPart
<1> QED BY <1>1, <1>7, <1>8, <1>9, InternalFacts, PartsKept DEF IInv

\* The patch stores conditions that are sound, from whatever copy they were
\* computed, and stands for its results unless it is torn.
LEMMA PatchKeeps == IInv /\ PatchStatus => IInv'
<1> SUFFICES ASSUME IInv, PatchStatus PROVE IInv'
  OBVIOUS
<1>1. /\ UNCHANGED <<specVars, depCache, sourceVars, workloadVars, fluxVars, outsideVars>>
      /\ Internal /\ worker' = Idle /\ queued' \in BOOLEAN
  <2>1. torn => torn'
    BY Zenon DEF PatchStatus
  <2> QED BY <2>1 DEF PatchStatus, Internal, Spent
<1>2. Grows /\ OtherPart' /\ GoodWorker(worker)'
  BY <1>1, IdleGood, InternalFacts
<1>3. CASE UNCHANGED <<dep, depWatch, torn>>
  BY <1>1, <1>2, <1>3, PartsKept DEF IInv, depVars
<1>4. CASE /\ WriteDep([dep EXCEPT !.status = Merged(@, worker.copy.status, worker.wanted)])
           /\ torn' = (torn \/ Tears(dep.status, worker.copy.status, worker.wanted))
  <2>1. dep \in Deployment /\ dep.status \in Status /\ Sound(dep.status)
    BY DEF IInv, DepPart, Deployment
  <2>2. PICK m : m = Merged(dep.status, worker.copy.status, worker.wanted)
    OBVIOUS
  <2>3. /\ m \in Status /\ m.cond \in {worker.wanted.cond, dep.status.cond}
        /\ \/ m.cond = worker.wanted.cond /\ m.results = worker.wanted.results
           \/ m.cond = dep.status.cond /\ m.results = dep.status.results
           \/ torn'
    BY <1>4, <2>1, <2>2, WorkerFacts, MergedFacts, Zenon
  <2>4. Sound(m)'
    BY <1>2, <2>1, <2>3, WorkerFacts DEF Sound, True, Grows
  <2>5. PICK new : new = [dep EXCEPT !.status = m]
    BY Zenon
  <2>6. new \in Deployment /\ new.status = m
    BY <2>1, <2>3, <2>5 DEF Deployment
  <2>7. torn' \in BOOLEAN
    BY <1>4
  <2>8. DepPart'
    BY <1>1, <1>2, <1>4, <2>2, <2>4, <2>5, <2>6, <2>7, DepWritten, Zenon
  <2> QED BY <1>1, <1>2, <2>8, PartsKept DEF IInv
<1> QED BY <1>3, <1>4 DEF PatchStatus

\* A new process lists what is stored.
LEMMA RestartKeeps == IInv /\ Restart => IInv'
<1> SUFFICES ASSUME IInv, Restart PROVE IInv'
  OBVIOUS
<1>1. /\ Internal /\ worker' = Idle /\ queued' \in BOOLEAN
      /\ depCache' = dep /\ depWatch' = << >> /\ UNCHANGED <<dep, torn>>
      /\ sourceCache' = source /\ sourceWatch' = << >> /\ source' = source
      /\ workCache' = work /\ workWatch' = << >> /\ work' = work
  BY DEF Restart, Internal, Spent
<1>2. Grows /\ OtherPart' /\ GoodWorker(worker)'
  BY <1>1, IdleGood, InternalFacts
<1>3. Deployment' = Deployment /\ Object' = Object
  BY <1>2, TypesKept DEF Grows
<1>4. /\ depWatch' \in Seq(Deployment) /\ Events(depWatch') = {}
      /\ sourceWatch' \in Seq(Object) /\ Events(sourceWatch') = {}
      /\ workWatch' \in Seq(Object) /\ Events(workWatch') = {}
  BY <1>1, NoEvent
<1>5. Sound(dep.status)' /\ SourceSeen(source)' /\ WorkSeen(work)'
  BY <1>1, <1>2, SoundKept DEF IInv, DepPart, SourcePart, WorkPart
<1>6. DepPart'
  BY <1>1, <1>3, <1>4, <1>5 DEF IInv, DepPart
<1>7. SourcePart'
  BY <1>1, <1>3, <1>4, <1>5 DEF IInv, SourcePart
<1>8. WorkPart'
  BY <1>1, <1>3, <1>4, <1>5 DEF IInv, WorkPart
<1> QED BY <1>2, <1>6, <1>7, <1>8 DEF IInv

-----------------------------------------------------------------------------
(* The theorems                                                            *)

\* An ArtifactDeployment starts without conditions and without Flux objects.
LEMMA InitSound == Init => IInv
<1> SUFFICES ASSUME Init PROVE IInv
  OBVIOUS
<1>1. PICK s \in Scenarios :
        /\ kind = s.kind /\ resources = s.resources
        /\ services = s.services /\ registry = s.registry /\ target = s.target
        /\ left = s.left
  BY DEF Init
<1>2. OtherPart
  BY <1>1, ScenarioFacts, Zenon DEF Init, OtherPart, Statuses
<1>3. Len(resources) \in Nat /\ Len(resources) >= 1
  BY <1>1, ScenarioFacts
<1>4. 0 \in 0..Len(resources) /\ 1 \in 1..Len(resources)
  BY <1>3
<1>5. NoCondition \in Condition
  BY <1>4 DEF NoCondition, Condition, Statuses
<1>6. NoStatus \in Status /\ NoObject \in Object
  BY <1>4, <1>5 DEF NoStatus, Status, Results, NoObject, Object, References, Statuses
<1>7. NewDeployment \in Deployment /\ NewDeployment.status = NoStatus
  BY <1>4, <1>6 DEF NewDeployment, Deployment, Generations
<1>8. Idle \in Reconcile
  BY <1>6, <1>7 DEF Idle, Reconcile
<1>9. Sound(NoStatus)
  <2>1. \A t \in Types : NoStatus.cond[t].value = "absent"
    BY DEF NoStatus, NoCondition
  <2> QED BY <2>1 DEF Sound, True, Types
<1>10. SourceSeen(NoObject) /\ WorkSeen(NoObject)
  BY DEF SourceSeen, WorkSeen, NoObject
<1>11. << >> \in Seq(Deployment) /\ << >> \in Seq(Object) /\ Events(<< >>) = {}
  BY NoEvent
<1>12. DepPart /\ SourcePart /\ WorkPart
  BY <1>6, <1>7, <1>9, <1>10, <1>11, Zenon DEF Init, DepPart, SourcePart, WorkPart
<1>13. GoodWorker(worker)
  <2>1. /\ Idle.copy.status = NoStatus /\ Idle.wanted = NoStatus /\ Idle.pc = "idle"
        /\ Idle.release.ready = "absent"
    BY DEF Idle, NewDeployment, NoObject
  <2> QED BY <1>8, <1>9, <2>1 DEF Init, GoodWorker
<1> QED BY <1>2, <1>12, <1>13 DEF IInv

\* Every step, of whomever, preserves the invariant.
LEMMA NextSound == IInv /\ [Next]_vars => IInv'
<1> SUFFICES ASSUME IInv, [Next]_vars PROVE IInv'
  OBVIOUS
<1>1. CASE UNCHANGED vars
  <2>1. /\ UNCHANGED <<specVars, depVars, sourceVars, workloadVars, fluxVars, outsideVars, worker, queued, left>>
    BY <1>1 DEF vars, workerVars
  <2>2. Grows /\ OtherPart'
    BY <2>1 DEF Grows, depVars, fluxVars, specVars, outsideVars, IInv, OtherPart
  <2> QED BY <2>1, <2>2, PartsKept DEF IInv
<1> QED BY <1>1, EnvironmentKeeps, DeliveryKeeps, StartKeeps, SourceKeeps, WorkKeeps, ChartKeeps,
           UpdateKeeps, PatchKeeps, RestartKeeps DEF Next, Step

\* Nothing that is stored, cached, on its way or worked with says more than
\* Flux has reported.
THEOREM Inductive == Spec => []IInv
BY InitSound, NextSound, PTL DEF Spec

\* Every variable keeps its type.
THEOREM TypeCorrect == Spec => []TypeOK
BY Inductive, IInvTyped, PTL

\* An exposure failure and Ready=True are never stored together.
THEOREM NeverBoth == Spec => []StalledNotReady
<1>1. IInv => StalledNotReady
  BY DEF IInv, DepPart, Sound, True, StalledNotReady, Cond
<1> QED BY <1>1, Inductive, PTL

\* Ready=True is stored only after Flux has fetched and applied the artifact.
THEOREM ReadyIsEarned == Spec => []ReadyEarned
<1>1. IInv => ReadyEarned
  BY DEF IInv, DepPart, Sound, True, ReadyEarned, Cond
<1> QED BY <1>1, Inductive, PTL

\* A Kustomization is not written before its source was ready.
THEOREM SourceFirst == Spec => []WorkAfterFetch
<1>1. IInv => WorkAfterFetch
  BY DEF IInv, WorkPart, WorkSeen, WorkAfterFetch
<1> QED BY <1>1, Inductive, PTL

\* Results stand beside an exposure failure only after a torn patch: every
\* status in sight, and every one that is computed, rejects them.
THEOREM StalledRejects == Spec => []StalledRejectsResults
<1>1. IInv => StalledRejectsResults
  BY DEF IInv, DepPart, Sound, True, StalledRejectsResults, Cond
<1> QED BY <1>1, Inductive, PTL

=============================================================================
