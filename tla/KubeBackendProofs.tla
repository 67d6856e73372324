--------------------------- MODULE KubeBackendProofs ---------------------------
(***************************************************************************)
(* Proofs about KubeBackend, for any names, volumes, requests, definitions *)
(* and bounds: its type invariant, the ownership of a service's ConfigMap  *)
(* and what follows from it, and that it implements ServiceRegistry.       *)
(***************************************************************************)
EXTENDS KubeBackend, ServiceStoreProofs

-----------------------------------------------------------------------------
(* Types. *)

\* A handler takes its next step, or the image that it waits for is there.
Moves(r) == Step(r) \/ ImagePulled(r)

\* A step is one that both backends have, or one of these five.
LEMMA StepIsCommon ==
  ASSUME NEW r \in Reqs, Moves(r)
  PROVE  \/ CommonStep(r)
         \/ CreatePodTemplate(r) \/ ExposeService(r) \/ ReadPodTemplate(r)
         \/ UpdatePodTemplate(r) \/ DeletePodTemplate(r)
  BY DEF Moves, Step, CommonStep, EnsuresVolume, RollsBack, Resolves, AdmitsUpdate

\* Every step of a handler keeps the types, one case per step.
LEMMA StepTypes ==
  ASSUME TypeOK, CallOK, NEW r \in Reqs, Moves(r)
  PROVE  TypeOK' /\ CallOK'
<1> USE DEF TypeOK, Goto, Fails, Fault, budget, objects
<1>1. CASE CreatePodTemplate(r)
  <2> USE <1>1 DEF CreatePodTemplate
  <2>1. N(r) \in Names /\ D(r) \in Defs
    BY DEF CallOK
  <2>2. ObjectsOK'
    BY <2>1, NewObjectTypes DEF ObjectsOK
  <2>3. ControlOK' /\ faults' \in Nat /\ crashes' \in Nat
    BY LabelMembers, AnswerMembers, WriteTypes DEF ControlOK
  <2>4. CallOK'
    BY <2>1 DEF ControlOK, CallOK, N, D, V
  <2> QED BY <2>2, <2>3, <2>4
<1>2. CASE ExposeService(r)
  <2> USE <1>2 DEF ExposeService
  <2>1. N(r) \in Names /\ D(r) \in Defs
    BY DEF CallOK
  <2>2. ObjectsOK'
    BY <2>1 DEF ObjectsOK
  <2>3. ControlOK' /\ faults' \in Nat /\ crashes' \in Nat
    BY LabelMembers, AnswerMembers, WriteTypes DEF ControlOK
  <2>4. CallOK'
    BY <2>1 DEF ControlOK, CallOK, N, D, V
  <2> QED BY <2>2, <2>3, <2>4
<1>3. CASE ReadPodTemplate(r)
  <2> USE <1>3 DEF ReadPodTemplate, Answer
  <2>1. N(r) \in Names
    BY DEF CallOK
  <2>2. ObjectsOK'
    BY <2>1 DEF ObjectsOK
  <2>3. ControlOK' /\ faults' \in Nat /\ crashes' \in Nat
    BY LabelMembers, AnswerMembers, WriteTypes DEF ControlOK
  <2>4. CallOK'
    BY <2>1 DEF ControlOK, CallOK, N, D, V
  <2> QED BY <2>2, <2>3, <2>4
<1>4. CASE UpdatePodTemplate(r)
  <2> USE <1>4 DEF UpdatePodTemplate
  <2>1. N(r) \in Names /\ Applied(r) \in Defs
    BY DEF CallOK, Applied
  <2>2. wl[N(r)] # None => Updated(wl[N(r)], Applied(r)) \in ObjectType
    BY <2>1, UpdatedTypes DEF ObjectsOK
  <2>3. ObjectsOK'
    BY <2>1, <2>2 DEF ObjectsOK
  <2>4. ControlOK' /\ faults' \in Nat /\ crashes' \in Nat
    BY LabelMembers, AnswerMembers, WriteTypes DEF ControlOK
  <2>5. CallOK'
    BY <2>1 DEF ControlOK, CallOK, N, D, V
  <2> QED BY <2>3, <2>4, <2>5
<1>5. CASE DeletePodTemplate(r)
  <2> USE <1>5 DEF DeletePodTemplate
  <2>1. N(r) \in Names /\ D(r) \in Defs
    BY DEF CallOK
  <2>2. ObjectsOK'
    BY <2>1 DEF ObjectsOK
  <2>3. ControlOK' /\ faults' \in Nat /\ crashes' \in Nat
    BY LabelMembers, AnswerMembers, WriteTypes DEF ControlOK
  <2>4. CallOK'
    BY <2>1 DEF ControlOK, CallOK, N, D, V
  <2> QED BY <2>2, <2>3, <2>4
<1>6. CASE CommonStep(r)
  BY <1>6, CommonStepTypes
<1> QED
  BY <1>1, <1>2, <1>3, <1>4, <1>5, <1>6, StepIsCommon

\* Every step keeps the types.
LEMMA NextTypes ==
  ASSUME TypeOK, CallOK, [Next]_vars
  PROVE  TypeOK' /\ CallOK'
<1>1. CASE \E r \in Reqs : Arrive(r) \/ Moves(r)
  BY <1>1, ArrivesTypes, StepTypes DEF Arrive, Arrives
<1>2. CASE Crash
  BY <1>2, LabelMembers DEF Crash, TypeOK, ObjectsOK, ControlOK, CallOK, N, D, V, objects
<1>3. CASE UNCHANGED vars
  BY <1>3 DEF vars, TypeOK, ObjectsOK, ControlOK, CallOK, N, D, V
<1> QED BY <1>1, <1>2, <1>3 DEF Next, Moves, AllServed

\* The variables keep their types, and at each of its labels a request carries
\* what the handler reads there: no step of a handler reads a field it never set.
THEOREM Typing == Spec => [](TypeOK /\ CallOK)
<1>1. Init => TypeOK /\ CallOK
  BY InitTypes
<1>2. TypeOK /\ CallOK /\ [Next]_vars => (TypeOK /\ CallOK)'
  BY NextTypes
<1> QED BY <1>1, <1>2, PTL DEF Spec

-----------------------------------------------------------------------------
(* What a step does to the two objects of a service and to who is between  *)
(* them.  Every step is of one of seven kinds, and each kind is all that    *)
(* the invariant and the refinement need to know of it.                     *)

\* o and p are the same object, or both are missing.
SameObject(o, p) == (o = None <=> p = None) /\ (o # None => o.by = p.by)

Between == {"ensureVol", "createWL", "rollbackCM", "delCM"}

\* Nothing happens to service n, as far as request q is concerned.
SameHold(q, n) == (Creating(q, n)' <=> Creating(q, n)) /\ (Holds(q, n)' <=> Holds(q, n))
SameService(n) == SameObject(cm[n], cm'[n]) /\ SameObject(wl[n], wl'[n])

\* Only request r acts, and on service n only.
OnlyAt(r, n) ==
    /\ \A m \in Names \ {n} : SameService(m) /\ \A q \in Reqs : SameHold(q, m)
    /\ \A q \in Reqs \ {r} : SameHold(q, n)
    /\ faults' >= faults /\ crashes' >= crashes

QuietStep ==
    /\ \A n \in Names : SameService(n) /\ \A q \in Reqs : SameHold(q, n)
    /\ faults' >= faults /\ crashes' >= crashes

ClaimStep(r, n) ==
    /\ OnlyAt(r, n) /\ Creating(r, n)'
    /\ cm[n] = None /\ cm'[n] # None /\ cm'[n].by = r /\ wl'[n] = wl[n]

PublishStep(r, n) ==
    /\ OnlyAt(r, n) /\ Creating(r, n) /\ ~Holds(r, n)'
    /\ cm'[n] = cm[n] /\ wl'[n] # None /\ wl'[n].by = r

ReleaseStep(r, n) ==
    /\ OnlyAt(r, n) /\ Holds(r, n) /\ ~Holds(r, n)'
    /\ cm'[n] = None /\ wl'[n] = wl[n]

LeaveStep(r, n) ==
    /\ OnlyAt(r, n) /\ Holds(r, n) /\ ~Holds(r, n)'
    /\ cm'[n] = cm[n] /\ wl'[n] = wl[n] /\ faults' > 0

RetireStep(r, n) ==
    /\ OnlyAt(r, n) /\ Holds(r, n)' /\ ~Creating(r, n)'
    /\ wl[n] # None /\ wl'[n] = None /\ cm'[n] = cm[n]

CrashStep ==
    /\ cm' = cm /\ wl' = wl /\ crashes' > 0
    /\ \A q \in Reqs, n \in Names : ~Holds(q, n)'

ServiceStep(r, n) ==
    \/ ClaimStep(r, n) \/ PublishStep(r, n) \/ ReleaseStep(r, n)
    \/ LeaveStep(r, n) \/ RetireStep(r, n)

\* Request r moves between labels that are not between the two objects.
Elsewhere(r) ==
    /\ pc[r] \notin Between /\ pc'[r] \notin Between
    /\ \A q \in Reqs \ {r} : pc'[q] = pc[q] /\ call'[q] = call[q]
    /\ faults' >= faults /\ crashes' >= crashes

\* Such a step is quiet when it keeps the identity of the objects.
LEMMA ElsewhereIsQuiet ==
  ASSUME NEW r \in Reqs, Elsewhere(r), \A n \in Names : SameService(n)
  PROVE  QuietStep
  BY DEF Elsewhere, QuietStep, SameHold, Creating, Holds, N, Between

\* The steps that touch neither the ConfigMap nor the PodTemplate are quiet.
LEMMA OtherSteps ==
  ASSUME TypeOK, NEW r \in Reqs,
         \/ CreateServiceSecret(r)
         \/ AdmitImage(r)
         \/ RollbackVolume(r)
         \/ PrefetchImage(r)
         \/ CreateFailed(r)
         \/ CreateMinIO(r)
         \/ DeleteServiceJobs(r)
         \/ DeleteServiceVolume(r)
         \/ DeleteServiceSecret(r)
         \/ DeleteServiceExpose(r)
         \/ DeleteServiceReturns(r)
         \/ CheckSameVolume(r)
         \/ UpdateMinIO(r)
         \/ UpdateServiceSecret(r)
         \/ ReadOldConfigMap(r)
         \/ UpdateServiceExpose(r)
         \/ InvokeRead(r)
         \/ InvokeCreate(r)
         \/ CreateVolume(r)
         \/ CountVolumeAttachments(r)
         \/ DeleteVolume(r)
         \/ ExposeService(r)
         \/ ResolveServiceNamespace(r, "readWL")
         \/ ReadPodTemplate(r)
         \/ ReadServiceConfigMap(r)
         \/ AdmitUpdate(r, "uGet")
         \/ ImagePulled(r)
  PROVE  QuietStep
<1> USE DEF TypeOK, ControlOK, Elsewhere, Between, Goto, Answer, Fails, Fault, budget, objects
<1>1. CASE CreateServiceSecret(r)
  <2>1. Elsewhere(r) /\ cm' = cm /\ wl' = wl
    BY <1>1 DEF CreateServiceSecret
  <2> QED BY <2>1, ElsewhereIsQuiet DEF SameService, SameObject
<1>2. CASE AdmitImage(r)
  <2>1. Elsewhere(r) /\ cm' = cm /\ wl' = wl
    BY <1>2 DEF AdmitImage
  <2> QED BY <2>1, ElsewhereIsQuiet DEF SameService, SameObject
<1>3. CASE RollbackVolume(r)
  <2>1. Elsewhere(r) /\ cm' = cm /\ wl' = wl
    BY <1>3 DEF RollbackVolume, RemoveServiceVolume
  <2> QED BY <2>1, ElsewhereIsQuiet DEF SameService, SameObject
<1>4. CASE PrefetchImage(r)
  <2>1. Elsewhere(r) /\ cm' = cm /\ wl' = wl
    BY <1>4 DEF PrefetchImage
  <2> QED BY <2>1, ElsewhereIsQuiet DEF SameService, SameObject
<1>5. CASE CreateFailed(r)
  <2>1. Elsewhere(r) /\ cm' = cm /\ wl' = wl
    BY <1>5 DEF CreateFailed
  <2> QED BY <2>1, ElsewhereIsQuiet DEF SameService, SameObject
<1>6. CASE CreateMinIO(r)
  <2>1. Elsewhere(r) /\ cm' = cm /\ wl' = wl
    BY <1>6 DEF CreateMinIO
  <2> QED BY <2>1, ElsewhereIsQuiet DEF SameService, SameObject
<1>7. CASE DeleteServiceJobs(r)
  <2>1. Elsewhere(r) /\ cm' = cm /\ wl' = wl
    BY <1>7 DEF DeleteServiceJobs
  <2> QED BY <2>1, ElsewhereIsQuiet DEF SameService, SameObject
<1>8. CASE DeleteServiceVolume(r)
  <2>1. Elsewhere(r) /\ cm' = cm /\ wl' = wl
    BY <1>8 DEF DeleteServiceVolume, RemoveServiceVolume
  <2> QED BY <2>1, ElsewhereIsQuiet DEF SameService, SameObject
<1>9. CASE DeleteServiceSecret(r)
  <2>1. Elsewhere(r) /\ cm' = cm /\ wl' = wl
    BY <1>9 DEF DeleteServiceSecret
  <2> QED BY <2>1, ElsewhereIsQuiet DEF SameService, SameObject
<1>10. CASE DeleteServiceExpose(r)
  <2>1. Elsewhere(r) /\ cm' = cm /\ wl' = wl
    BY <1>10 DEF DeleteServiceExpose
  <2> QED BY <2>1, ElsewhereIsQuiet DEF SameService, SameObject
<1>11. CASE DeleteServiceReturns(r)
  <2>1. Elsewhere(r) /\ cm' = cm /\ wl' = wl
    BY <1>11 DEF DeleteServiceReturns
  <2> QED BY <2>1, ElsewhereIsQuiet DEF SameService, SameObject
<1>12. CASE CheckSameVolume(r)
  <2>1. Elsewhere(r) /\ cm' = cm /\ wl' = wl
    BY <1>12 DEF CheckSameVolume
  <2> QED BY <2>1, ElsewhereIsQuiet DEF SameService, SameObject
<1>13. CASE UpdateMinIO(r)
  <2>1. Elsewhere(r) /\ cm' = cm /\ wl' = wl
    BY <1>13 DEF UpdateMinIO
  <2> QED BY <2>1, ElsewhereIsQuiet DEF SameService, SameObject
<1>14. CASE UpdateServiceSecret(r)
  <2>1. Elsewhere(r) /\ cm' = cm /\ wl' = wl
    BY <1>14 DEF UpdateServiceSecret
  <2> QED BY <2>1, ElsewhereIsQuiet DEF SameService, SameObject
<1>15. CASE ReadOldConfigMap(r)
  <2>1. Elsewhere(r) /\ cm' = cm /\ wl' = wl
    BY <1>15 DEF ReadOldConfigMap, UpdateReturnsError
  <2> QED BY <2>1, ElsewhereIsQuiet DEF SameService, SameObject
<1>16. CASE UpdateServiceExpose(r)
  <2>1. Elsewhere(r) /\ cm' = cm /\ wl' = wl
    BY <1>16 DEF UpdateServiceExpose, UpdateReturnsOk, UpdateReturnsError
  <2> QED BY <2>1, ElsewhereIsQuiet DEF SameService, SameObject
<1>17. CASE InvokeRead(r)
  <2>1. Elsewhere(r) /\ cm' = cm /\ wl' = wl
    BY <1>17 DEF InvokeRead
  <2> QED BY <2>1, ElsewhereIsQuiet DEF SameService, SameObject
<1>18. CASE InvokeCreate(r)
  <2>1. Elsewhere(r) /\ cm' = cm /\ wl' = wl
    BY <1>18 DEF InvokeCreate
  <2> QED BY <2>1, ElsewhereIsQuiet DEF SameService, SameObject
<1>19. CASE CreateVolume(r)
  <2>1. /\ pc[r] = "vCreate" /\ pc' = [pc EXCEPT ![r] = "done"]
        /\ UNCHANGED <<cm, wl, call>> /\ (UNCHANGED budget \/ Fault)
    BY <1>19, Zenon DEF CreateVolume
  <2>2. Elsewhere(r)
    BY <2>1
  <2> QED BY <2>1, <2>2, ElsewhereIsQuiet DEF SameService, SameObject
<1>20. CASE CountVolumeAttachments(r)
  <2>1. Elsewhere(r) /\ cm' = cm /\ wl' = wl
    BY <1>20 DEF CountVolumeAttachments
  <2> QED BY <2>1, ElsewhereIsQuiet DEF SameService, SameObject
<1>21. CASE DeleteVolume(r)
  <2>1. Elsewhere(r) /\ cm' = cm /\ wl' = wl
    BY <1>21 DEF DeleteVolume
  <2> QED BY <2>1, ElsewhereIsQuiet DEF SameService, SameObject
<1>22. CASE ExposeService(r)
  <2>1. Elsewhere(r) /\ cm' = cm /\ wl' = wl
    BY <1>22 DEF ExposeService
  <2> QED BY <2>1, ElsewhereIsQuiet DEF SameService, SameObject
<1>23. CASE ResolveServiceNamespace(r, "readWL")
  <2>1. Elsewhere(r) /\ cm' = cm /\ wl' = wl
    BY <1>23 DEF ResolveServiceNamespace
  <2> QED BY <2>1, ElsewhereIsQuiet DEF SameService, SameObject
<1>24. CASE ReadPodTemplate(r)
  <2>1. Elsewhere(r) /\ cm' = cm /\ wl' = wl
    BY <1>24 DEF ReadPodTemplate
  <2> QED BY <2>1, ElsewhereIsQuiet DEF SameService, SameObject
<1>25. CASE ReadServiceConfigMap(r)
  <2>1. Elsewhere(r) /\ cm' = cm /\ wl' = wl
    BY <1>25 DEF ReadServiceConfigMap
  <2> QED BY <2>1, ElsewhereIsQuiet DEF SameService, SameObject
<1>26. CASE AdmitUpdate(r, "uGet")
  <2>1. Elsewhere(r) /\ cm' = cm /\ wl' = wl
    BY <1>26 DEF AdmitUpdate, UpdateReturnsError
  <2> QED BY <2>1, ElsewhereIsQuiet DEF SameService, SameObject
<1>27. CASE ImagePulled(r)
  <2>1. Elsewhere(r) /\ cm' = cm /\ wl' = wl
    BY <1>27 DEF ImagePulled, UpdateReturnsOk
  <2> QED BY <2>1, ElsewhereIsQuiet DEF SameService, SameObject
<1> QED BY <1>1, <1>2, <1>3, <1>4, <1>5, <1>6, <1>7, <1>8, <1>9, <1>10, <1>11, <1>12, <1>13, <1>14, <1>15,
           <1>16, <1>17, <1>18, <1>19, <1>20, <1>21, <1>22, <1>23, <1>24, <1>25, <1>26, <1>27

\* The updates write both objects but keep their identity: they are quiet too.
LEMMA UpdateSteps ==
  ASSUME TypeOK, CallOK, NEW r \in Reqs,
         UpdateServiceConfigMap(r) \/ RestoreOldConfigMap(r) \/ UpdatePodTemplate(r)
  PROVE  QuietStep
<1> USE DEF TypeOK, ControlOK, Elsewhere, Between, Goto, Answer, Fault, budget
<1>1. N(r) \in Names /\ Applied(r) \in Defs /\ (pc[r] = "uRestore" => snap[r].cm.def \in Defs)
  BY DEF CallOK, Applied, UpdateServiceConfigMap, RestoreOldConfigMap, UpdatePodTemplate, ObjectType
<1>2. \A d \in Defs : /\ cm[N(r)] # None => SameObject(cm[N(r)], Updated(cm[N(r)], d))
                      /\ wl[N(r)] # None => SameObject(wl[N(r)], Updated(wl[N(r)], d))
  BY <1>1, UpdatedTypes, NoneAssumption DEF SameObject, ObjectsOK, ObjectType
<1>3. CASE UpdateServiceConfigMap(r)
  <2>1. Elsewhere(r)
    BY <1>3 DEF UpdateServiceConfigMap, UpdateReturnsError
  <2>2. \A n \in Names : SameService(n)
    BY <1>1, <1>2, <1>3 DEF UpdateServiceConfigMap, SameService, SameObject, ObjectsOK
  <2> QED BY <2>1, <2>2, ElsewhereIsQuiet
<1>4. CASE RestoreOldConfigMap(r)
  <2>1. Elsewhere(r)
    BY <1>4 DEF RestoreOldConfigMap, UpdateReturnsError
  <2>2. \A n \in Names : SameService(n)
    BY <1>1, <1>2, <1>4 DEF RestoreOldConfigMap, Current, SameService, SameObject, ObjectsOK
  <2> QED BY <2>1, <2>2, ElsewhereIsQuiet
<1>5. CASE UpdatePodTemplate(r)
  <2>1. Elsewhere(r)
    BY <1>5 DEF UpdatePodTemplate
  <2>2. \A n \in Names : SameService(n)
    BY <1>1, <1>2, <1>5 DEF UpdatePodTemplate, SameService, SameObject, ObjectsOK
  <2> QED BY <2>1, <2>2, ElsewhereIsQuiet
<1> QED BY <1>3, <1>4, <1>5

\* The steps of CreateService and DeleteService that make or remove one of the two
\* objects, or move between them.
LEMMA ServiceSteps ==
  ASSUME TypeOK, CallOK, NEW r \in Reqs,
         \/ CreateServiceConfigMap(r)
         \/ EnsureServiceVolume(r, "createWL", "rollbackCM")
         \/ RollbackConfigMap(r, "rollbackCM", "rollbackVol")
         \/ CreatePodTemplate(r)
         \/ DeleteServiceConfigMap(r)
         \/ DeletePodTemplate(r)
  PROVE  QuietStep \/ (N(r) \in Names /\ ServiceStep(r, N(r)))
<1> DEFINE n == N(r)
<1> USE DEF TypeOK, ControlOK, Goto, Fails, Fault, budget
<1>1. n \in Names
  BY DEF CallOK, CreateServiceConfigMap, EnsureServiceVolume, RollbackConfigMap,
         CreatePodTemplate, DeleteServiceConfigMap, DeletePodTemplate
<1>2. CASE CreateServiceConfigMap(r)
  <2>1. D(r) \in Defs
    BY <1>2 DEF CreateServiceConfigMap, CallOK
  <2>2. NewObject(r, D(r)) # None /\ NewObject(r, D(r)).by = r
    BY <2>1, NewObjectTypes, NoneAssumption DEF ObjectType
  <2>3. /\ pc[r] = "createCM"
        /\ \A q \in Reqs \ {r} : pc'[q] = pc[q]
        /\ UNCHANGED <<wl, call>>
        /\ faults' >= faults /\ crashes' >= crashes
        /\ \/ cm[n] = None /\ cm' = [cm EXCEPT ![n] = NewObject(r, D(r))] /\ pc'[r] = "ensureVol"
           \/ cm' = cm /\ pc'[r] = "createFailed"
    BY <1>2 DEF CreateServiceConfigMap
  <2>4. CASE pc'[r] = "ensureVol"
    BY <1>1, <2>2, <2>3, <2>4
    DEF ServiceStep, ClaimStep, OnlyAt, SameService, SameObject, SameHold, Creating, Holds, N, ObjectsOK
  <2>5. CASE pc'[r] = "createFailed"
    <3>1. Elsewhere(r)
      BY <2>3, <2>5 DEF Elsewhere, Between
    <3> QED BY <2>3, <2>5, <3>1, ElsewhereIsQuiet DEF SameService, SameObject
  <2> QED BY <2>3, <2>4, <2>5
<1>3. CASE EnsureServiceVolume(r, "createWL", "rollbackCM")
  <2>1. /\ pc[r] = "ensureVol" /\ pc'[r] \in {"createWL", "rollbackCM"}
        /\ \A q \in Reqs \ {r} : pc'[q] = pc[q]
        /\ UNCHANGED <<cm, wl, call>>
        /\ faults' >= faults /\ crashes' >= crashes
    BY <1>3 DEF EnsureServiceVolume
  <2> QED BY <2>1 DEF QuietStep, SameService, SameObject, SameHold, Creating, Holds, N
<1>4. CASE RollbackConfigMap(r, "rollbackCM", "rollbackVol") \/ DeleteServiceConfigMap(r)
  <2>1. /\ pc[r] \in {"rollbackCM", "delCM"} /\ pc'[r] \in {"rollbackVol", "delJobs"}
        /\ \A q \in Reqs \ {r} : pc'[q] = pc[q]
        /\ UNCHANGED <<wl, call>>
        /\ \/ cm' = [cm EXCEPT ![n] = None] /\ UNCHANGED budget
           \/ cm' = cm /\ faults' > 0 /\ faults' >= faults /\ crashes' >= crashes
    BY <1>4 DEF RollbackConfigMap, DeleteServiceConfigMap
  <2> QED BY <1>1, <2>1
       DEF ServiceStep, ReleaseStep, LeaveStep, OnlyAt, SameService, SameObject, SameHold, Creating, Holds, N, ObjectsOK
<1>5. CASE CreatePodTemplate(r)
  <2>1. D(r) \in Defs
    BY <1>5 DEF CreatePodTemplate, CallOK
  <2>2. NewObject(r, D(r)) # None /\ NewObject(r, D(r)).by = r
    BY <2>1, NewObjectTypes, NoneAssumption DEF ObjectType
  <2>3. /\ pc[r] = "createWL"
        /\ \A q \in Reqs \ {r} : pc'[q] = pc[q]
        /\ UNCHANGED <<cm, call>>
        /\ faults' >= faults /\ crashes' >= crashes
        /\ \/ wl' = [wl EXCEPT ![n] = NewObject(r, D(r))] /\ pc'[r] = "exposeNew"
           \/ wl' = wl /\ pc'[r] = "rollbackCM"
    BY <1>5 DEF CreatePodTemplate
  <2>4. CASE pc'[r] = "exposeNew"
    BY <1>1, <2>2, <2>3, <2>4
    DEF ServiceStep, PublishStep, OnlyAt, SameService, SameObject, SameHold, Creating, Holds, N, ObjectsOK
  <2>5. CASE pc'[r] = "rollbackCM"
    BY <2>3, <2>5 DEF QuietStep, SameService, SameObject, SameHold, Creating, Holds, N
  <2> QED BY <2>3, <2>4, <2>5
<1>6. CASE DeletePodTemplate(r)
  <2>1. /\ pc[r] = "delWL"
        /\ \A q \in Reqs \ {r} : pc'[q] = pc[q]
        /\ UNCHANGED <<cm, call>>
        /\ faults' >= faults /\ crashes' >= crashes
        /\ \/ wl[n] # None /\ wl' = [wl EXCEPT ![n] = None] /\ pc'[r] = "delCM"
           \/ wl' = wl /\ pc'[r] = "dEnd"
    BY <1>6 DEF DeletePodTemplate
  <2>2. CASE pc'[r] = "delCM"
    BY <1>1, <2>1, <2>2
    DEF ServiceStep, RetireStep, OnlyAt, SameService, SameObject, SameHold, Creating, Holds, N, ObjectsOK
  <2>3. CASE pc'[r] = "dEnd"
    <3>1. Elsewhere(r)
      BY <2>1, <2>3 DEF Elsewhere, Between
    <3> QED BY <2>1, <2>3, <3>1, ElsewhereIsQuiet DEF SameService, SameObject
  <2> QED BY <2>1, <2>2, <2>3
<1> QED BY <1>2, <1>3, <1>4, <1>5, <1>6

\* Every step of the specification is of one of the kinds.
LEMMA StepKinds ==
  ASSUME TypeOK, CallOK, [Next]_vars
  PROVE  \/ QuietStep \/ CrashStep
         \/ \E r \in Reqs, n \in Names : ServiceStep(r, n)
<1>1. ASSUME NEW r \in Reqs, Arrive(r) PROVE QuietStep
  <2>1. Elsewhere(r) /\ UNCHANGED <<cm, wl>>
    BY <1>1 DEF Arrive, StartCreate, StartUpdate, StartDelete, StartInvoke, StartCreateVolume,
                StartDeleteVolume, Start, Elsewhere, Between, Goto, TypeOK, ControlOK, objects, budget
  <2> QED BY <2>1, ElsewhereIsQuiet DEF SameService, SameObject
<1>2. ASSUME NEW r \in Reqs, Moves(r)
      PROVE  QuietStep \/ \E n \in Names : ServiceStep(r, n)
  <2> QED BY <1>2, OtherSteps, UpdateSteps, ServiceSteps DEF Moves, Step, SharedStep
<1>3. ASSUME Crash PROVE CrashStep
  BY <1>3 DEF Crash, CrashStep, Holds, Creating, TypeOK, ControlOK, objects
<1>4. ASSUME UNCHANGED vars PROVE QuietStep
  BY <1>4 DEF vars, QuietStep, SameService, SameObject, SameHold, Creating, Holds, N, TypeOK
<1> QED BY <1>1, <1>2, <1>3, <1>4 DEF Next, Moves, AllServed

-----------------------------------------------------------------------------
(* The invariant. *)

\* Each kind of step keeps Ownership.
LEMMA KindsKeepOwnership ==
  ASSUME TypeOK, CallOK, Ownership, faults' \in Nat, crashes' \in Nat,
         \/ QuietStep \/ CrashStep
         \/ \E r \in Reqs, n \in Names : ServiceStep(r, n)
  PROVE  Ownership'
<1>1. CASE QuietStep
  BY <1>1 DEF QuietStep, Ownership, SameService, SameObject, SameHold, TypeOK
<1>2. CASE CrashStep
  BY <1>2 DEF CrashStep, Ownership, Holds
<1>3. ASSUME NEW r \in Reqs, NEW n \in Names, ServiceStep(r, n) PROVE Ownership'
  <2> USE DEF TypeOK, OnlyAt, SameService, SameObject, SameHold
  <2>1. CASE ClaimStep(r, n)
    BY <2>1 DEF ClaimStep, Ownership, Holds
  <2>2. CASE PublishStep(r, n)
    BY <2>2 DEF PublishStep, Ownership, Holds
  <2>3. CASE ReleaseStep(r, n)
    BY <2>3 DEF ReleaseStep, Ownership, Holds
  <2>4. CASE LeaveStep(r, n)
    BY <2>4 DEF LeaveStep, Ownership, Holds
  <2>5. CASE RetireStep(r, n)
    BY <2>5 DEF RetireStep, Ownership, Holds
  <2> QED BY <1>3, <2>1, <2>2, <2>3, <2>4, <2>5 DEF ServiceStep
<1> QED BY <1>1, <1>2, <1>3

\* The inductive invariant holds of every reachable state.
THEOREM Invariance == Spec => []IInv
<1>1. Init => IInv
  <2> HAVE Init
  <2>1. Ownership
    BY DEF Init, Ownership, Holds, Creating
  <2> QED BY <2>1, InitTypes DEF IInv
<1>2. IInv /\ [Next]_vars => IInv'
  <2> HAVE IInv /\ [Next]_vars
  <2>1. TypeOK' /\ CallOK'
    BY NextTypes DEF IInv
  <2>2. Ownership'
    BY <2>1, StepKinds, KindsKeepOwnership DEF IInv, TypeOK
  <2> QED BY <2>1, <2>2 DEF IInv
<1> QED BY <1>1, <1>2, PTL DEF Spec

\* A PodTemplate always has the ConfigMap that its own create made, so ReadService
\* never finds a service without its definition, under any interleaving, crash or call
\* that fails before it takes effect.
THEOREM Readable == Spec => []LiveServiceIsReadable
<1>1. IInv => LiveServiceIsReadable
  BY DEF IInv, Ownership, LiveServiceIsReadable
<1> QED BY <1>1, Invariance, PTL

\* At most one request is between the two objects of a name, and the rollback of
\* CreateService deletes no ConfigMap but its own.
THEOREM OwnRollback == Spec => []RollbackIsOwn
<1>1. IInv => RollbackIsOwn
  BY DEF IInv, Ownership, RollbackIsOwn, Holders, Holds
<1> QED BY <1>1, Invariance, PTL

\* Without failures and crashes no half service is left.
THEOREM WholeServices == Spec => []NoHalfService
<1>1. IInv => NoHalfService
  BY DEF IInv, TypeOK, Ownership, NoHalfService, Quiescent, Holds, Creating
<1> QED BY <1>1, Invariance, PTL

-----------------------------------------------------------------------------
(* KubeBackend implements ServiceRegistry. *)

\* What the registry shows of a name in each of its four states.
Shown(n) ==
    /\ cm[n] = None => Registered(n) = Registry!Free
    /\ wl[n] # None => Registered(n) = Registry!Live(wl[n].by)
    /\ \A r \in Reqs : Holds(r, n) => Registered(n) = Registry!Claimed(r)
    /\ cm[n] # None /\ wl[n] = None /\ (\A r \in Reqs : ~Holds(r, n))
          => Registered(n) = Registry!Stranded

\* Under the invariant the registration of a name follows from its two objects and
\* its holder.
LEMMA RegistryStates == Ownership => \A n \in Names : Shown(n)
<1> SUFFICES ASSUME Ownership, NEW n \in Names PROVE Shown(n)
  OBVIOUS
<1>1. \A r \in Reqs : Holds(r, n) => Holders(n) = {r}
  BY DEF Ownership, Holders
<1>2. ASSUME NEW r \in Reqs, Holds(r, n) PROVE Registered(n) = Registry!Claimed(r)
  <2>1. Holders(n) = {r} /\ cm[n] # None /\ wl[n] = None
    BY <1>1, <1>2 DEF Ownership
  <2>2. (CHOOSE q \in {r} : TRUE) = r
    OBVIOUS
  <2> QED BY <2>1, <2>2 DEF Registered, Registry!Claimed
<1>3. (\A r \in Reqs : ~Holds(r, n)) => Holders(n) = {}
  BY DEF Holders
<1> QED BY <1>2, <1>3 DEF Shown, Registered, Registry!Free, Registry!Live, Registry!Stranded, Ownership

\* The same of the next state.
LEMMA RegistryStatesNext == (Ownership => \A n \in Names : Shown(n))'
  BY RegistryStates, PTL

\* A step that leaves the objects and the holders of a name alone leaves its
\* registration alone.
LEMMA SameRegistration ==
  ASSUME NEW n \in Names, Ownership, Ownership', SameService(n), \A q \in Reqs : SameHold(q, n)
  PROVE  Registered(n)' = Registered(n)
<1>1. Holders(n)' = Holders(n)
  BY DEF Holders, SameHold
<1> QED BY <1>1 DEF Registered, SameService, SameObject

\* Each kind of step is a step of the registry, or leaves it unchanged.
LEMMA KindsAreRegistrySteps ==
  ASSUME TypeOK, Ownership, Ownership',
         \/ QuietStep \/ CrashStep
         \/ \E r \in Reqs, n \in Names : ServiceStep(r, n)
  PROVE  [Registry!Next]_([n \in Names |-> Registered(n)])
<1> DEFINE reg == [n \in Names |-> Registered(n)]
<1>1. CASE QuietStep
  <2>1. \A n \in Names : Registered(n)' = Registered(n)
    BY <1>1, SameRegistration DEF QuietStep
  <2> QED BY <2>1
<1>2. CASE CrashStep
  <2> DEFINE S == {n \in Names : \E r \in Reqs : Holds(r, n)}
  <2>1. \A n \in S : \E r \in Reqs : reg[n] = Registry!Claimed(r)
    BY RegistryStates DEF Shown
  <2>2. \A n \in S : Registered(n)' = Registry!Stranded
    <3> SUFFICES ASSUME NEW n \in S PROVE Registered(n)' = Registry!Stranded
      OBVIOUS
    <3>1. cm'[n] # None /\ wl'[n] = None /\ Holders(n)' = {}
      BY <1>2 DEF CrashStep, Ownership, Holders
    <3> QED BY <3>1 DEF Registered, Registry!Stranded
  <2>3. \A n \in Names \ S : Registered(n)' = Registered(n)
    <3> SUFFICES ASSUME NEW n \in Names \ S PROVE Registered(n)' = Registered(n)
      OBVIOUS
    <3>1. cm'[n] = cm[n] /\ wl'[n] = wl[n] /\ Holders(n)' = {} /\ Holders(n) = {}
      BY <1>2 DEF CrashStep, Holders
    <3> QED BY <3>1 DEF Registered
  <2>4. reg' = [n \in Names |-> IF n \in S THEN Registry!Stranded ELSE reg[n]]
    BY <2>2, <2>3
  <2>5. Registry!Strand
    BY <2>1, <2>4 DEF Registry!Strand
  <2> QED BY <2>5 DEF Registry!Next
<1>3. ASSUME NEW r \in Reqs, NEW n \in Names, ServiceStep(r, n) PROVE Registry!Next
  <2>1. \A m \in Names \ {n} : Registered(m)' = Registered(m)
    BY <1>3, SameRegistration
    DEF ServiceStep, ClaimStep, PublishStep, ReleaseStep, LeaveStep, RetireStep, OnlyAt
  <2>2. reg' = [reg EXCEPT ![n] = Registered(n)']
    BY <2>1
  <2>3. Shown(n) /\ Shown(n)'
    BY RegistryStates, RegistryStatesNext
  <2>4. CASE ClaimStep(r, n)
    <3>1. reg[n] = Registry!Free /\ Registered(n)' = Registry!Claimed(r)
      BY <2>3, <2>4 DEF ClaimStep, Shown, Holds, Registry!Free, Registry!Claimed
    <3>2. Registry!Claim(n, r)
      BY <2>2, <3>1 DEF Registry!Claim
    <3> QED BY <3>2 DEF Registry!Next
  <2>5. CASE PublishStep(r, n)
    <3>1. reg[n] = Registry!Claimed(r) /\ Registered(n)' = Registry!Live(r)
      BY <2>3, <2>5 DEF PublishStep, Shown, Holds, Registry!Live, Registry!Claimed
    <3>2. Registry!Publish(n, r)
      BY <2>2, <3>1 DEF Registry!Publish
    <3> QED BY <3>2 DEF Registry!Next
  <2>6. CASE ReleaseStep(r, n)
    <3>1. reg[n] = Registry!Claimed(r) /\ Registered(n)' = Registry!Free
      BY <2>3, <2>6 DEF ReleaseStep, Shown, Registry!Free, Registry!Claimed
    <3>2. Registry!Release(n, r)
      BY <2>2, <3>1 DEF Registry!Release
    <3> QED BY <3>2 DEF Registry!Next
  <2>7. CASE LeaveStep(r, n)
    <3>1. \A q \in Reqs : ~Holds(q, n)'
      BY <2>7 DEF LeaveStep, OnlyAt, SameHold, Ownership
    <3>2. reg[n] = Registry!Claimed(r) /\ Registered(n)' = Registry!Stranded
      BY <2>3, <2>7, <3>1 DEF LeaveStep, Shown, Ownership, Registry!Stranded, Registry!Claimed
    <3>3. reg' = [m \in Names |-> IF m \in {n} THEN Registry!Stranded ELSE reg[m]]
      BY <2>1, <3>2
    <3>4. Registry!Strand
      BY <3>2, <3>3 DEF Registry!Strand
    <3> QED BY <3>4 DEF Registry!Next
  <2>8. CASE RetireStep(r, n)
    <3>1. wl[n].by \in Reqs
      BY <2>8, NoneAssumption DEF RetireStep, TypeOK, ObjectsOK, ObjectType
    <3>2. reg[n] = Registry!Live(wl[n].by) /\ Registered(n)' = Registry!Claimed(r)
      BY <2>3, <2>8 DEF RetireStep, Shown, Registry!Live, Registry!Claimed
    <3>3. Registry!Retire(n, r)
      BY <2>2, <3>1, <3>2 DEF Registry!Retire
    <3> QED BY <3>3 DEF Registry!Next
  <2> QED BY <1>3, <2>4, <2>5, <2>6, <2>7, <2>8 DEF ServiceStep
<1> QED BY <1>1, <1>2, <1>3

\* The API calls of KubeBackend, interleaved, failing and cut short by crashes,
\* implement the registry of service names.
THEOREM Refinement == Spec => ImplementsRegistry
<1> DEFINE reg == [n \in Names |-> Registered(n)]
<1>1. Init => Registry!Init
  BY DEF Init, Registry!Init, Registered, Registry!Free
<1>2. IInv /\ IInv' /\ [Next]_vars => [Registry!Next]_reg
  BY StepKinds, KindsAreRegistrySteps DEF IInv
<1> QED BY <1>1, <1>2, Invariance, PTL DEF Spec, ImplementsRegistry, Registry!Spec

=============================================================================
