-------------------------- MODULE ServiceStoreProofs --------------------------
(***************************************************************************)
(* What holds of the steps that both backends share, for any names,        *)
(* volumes, requests, definitions and bounds: they keep the types, and     *)
(* while requests do not overlap they keep the books of a service in       *)
(* order.  KubeBackendProofs and KnativeBackendProofs build on it.         *)
(***************************************************************************)
EXTENDS ServiceStore, FiniteSetTheorems, TLAPS

-----------------------------------------------------------------------------
(* The shared steps; some of them are at different labels in the backends. *)

EnsuresVolume(r) ==
    \E next \in {"createWL", "exposeNew"}, failed \in {"rollbackCM", "undoCM"} :
        EnsureServiceVolume(r, next, failed)

RollsBack(r) ==
    \/ RollbackConfigMap(r, "rollbackCM", "rollbackVol")
    \/ RollbackConfigMap(r, "undoCM", "createFailed")

Resolves(r) == \E next \in {"readWL", "readCM"} : ResolveServiceNamespace(r, next)

AdmitsUpdate(r) == \E next \in {"uGet", "uGetWL"} : AdmitUpdate(r, next)

CommonStep(r) ==
    \/ SharedStep(r)
    \/ EnsuresVolume(r) \/ RollsBack(r) \/ Resolves(r) \/ ReadServiceConfigMap(r) \/ AdmitsUpdate(r)
    \/ ImagePulled(r)

Arrives(r) ==
    \/ StartCreate(r) \/ StartUpdate(r) \/ StartDelete(r, "readWL") \/ StartDelete(r, "readCM")
    \/ StartInvoke(r) \/ StartCreateVolume(r) \/ StartDeleteVolume(r)

-----------------------------------------------------------------------------
(* Types. *)

\* Each label is a label; the provers use this instead of the enumeration.
LEMMA LabelMembers ==
  /\ "idle" \in Labels /\ "done" \in Labels /\ "secret" \in Labels /\ "admit" \in Labels /\ "createCM" \in Labels
  /\ "ensureVol" \in Labels /\ "createWL" \in Labels /\ "exposeNew" \in Labels /\ "prefetch" \in Labels /\ "rollbackCM" \in Labels
  /\ "rollbackVol" \in Labels /\ "undoCM" \in Labels /\ "createFailed" \in Labels /\ "minio" \in Labels /\ "resolve" \in Labels
  /\ "readWL" \in Labels /\ "readCM" \in Labels /\ "uSame" \in Labels /\ "uMinio" \in Labels /\ "uSecret" \in Labels
  /\ "uAdmit" \in Labels /\ "uGetWL" \in Labels /\ "uGet" \in Labels /\ "uCM" \in Labels /\ "uWL" \in Labels
  /\ "uRestore" \in Labels /\ "uExpose" \in Labels /\ "delWL" \in Labels /\ "delCM" \in Labels /\ "delJobs" \in Labels
  /\ "delVol" \in Labels /\ "delSecret" \in Labels /\ "delExpose" \in Labels /\ "dEnd" \in Labels /\ "invRead" \in Labels
  /\ "invCreate" \in Labels /\ "vCreate" \in Labels /\ "vCount" \in Labels /\ "vDelete" \in Labels
  /\ "pulling" \in Labels /\ "uPull" \in Labels
  BY DEF Labels

\* Likewise for the answers and the errors of the handlers.
LEMMA AnswerMembers ==
  /\ "none" \in Answers /\ "ok" \in Answers /\ "error" \in Answers
  /\ "none" \in Errors /\ "exists" \in Errors /\ "notfound" \in Errors /\ "other" \in Errors
  BY DEF Answers, Errors

\* Writing a status keeps the type of resp (gin sends the first one only).
LEMMA WriteTypes ==
  ASSUME ControlOK, NEW r \in Reqs, NEW a \in Answers, Write(r, a)
  PROVE  resp' \in [Reqs -> Answers]
  BY DEF ControlOK, Write

\* A new ConfigMap or PodTemplate has its type.
LEMMA NewObjectTypes ==
  ASSUME NEW r \in Reqs, NEW d \in Defs
  PROVE  NewObject(r, d) \in ObjectType /\ NewObject(r, d).by = r
  BY DEF NewObject, ObjectType

\* So has the claim of a volume that a user asks for.
LEMMA ApiClaimTypes ==
  ASSUME NEW r \in Reqs
  PROVE  ApiClaim(r) \in ClaimType /\ ApiClaim(r).by = r /\ ApiClaim(r).mode = "api"
  BY Zenon DEF ApiClaim, ClaimType

\* An update of an object keeps its type and its identity.
LEMMA UpdatedTypes ==
  ASSUME NEW o \in ObjectType, NEW d \in Defs
  PROVE  Updated(o, d) \in ObjectType /\ Updated(o, d).by = o.by
  BY DEF Updated, ObjectType

\* The error path of UpdateService keeps the types of what it changes.
LEMMA ErrorTypes ==
  ASSUME ControlOK, NEW r \in Reqs, UpdateReturnsError(r)
  PROVE  /\ pc' \in [Reqs -> Labels]
         /\ undo' \in [Reqs -> BOOLEAN]
         /\ resp' \in [Reqs -> Answers]
<1> USE DEF ControlOK, UpdateReturnsError, Goto, Answer
<1>1. pc' \in [Reqs -> Labels]
  BY LabelMembers
<1>2. undo' \in [Reqs -> BOOLEAN]
  OBVIOUS
<1>3. resp' \in [Reqs -> Answers]
  BY AnswerMembers, WriteTypes
<1> QED BY <1>1, <1>2, <1>3

\* The initial state is well typed.
LEMMA InitTypes == ASSUME Init PROVE TypeOK /\ CallOK
  BY LabelMembers, AnswerMembers
  DEF Init, TypeOK, ObjectsOK, ControlOK, CallOK, N, D, V, CallType, SnapType

\* Every shared step of a handler keeps the types, one case per step.
LEMMA CommonStepTypes ==
  ASSUME TypeOK, CallOK, NEW r \in Reqs, CommonStep(r)
  PROVE  TypeOK' /\ CallOK'
<1> USE DEF TypeOK, Goto, Fails, Fault, budget, objects
<1>1. CASE CreateServiceSecret(r)
  <2> USE <1>1 DEF CreateServiceSecret
  <2>1. N(r) \in Names /\ D(r) \in Defs
    BY DEF CallOK
  <2>2. ObjectsOK'
    BY <2>1 DEF ObjectsOK
  <2>3. ControlOK' /\ faults' \in Nat /\ crashes' \in Nat
    BY LabelMembers, AnswerMembers, WriteTypes DEF ControlOK
  <2>4. CallOK'
    BY <2>1 DEF ControlOK, CallOK, N, D, V
  <2> QED BY <2>2, <2>3, <2>4
<1>2. CASE AdmitImage(r)
  <2> USE <1>2 DEF AdmitImage
  <2>1. N(r) \in Names /\ D(r) \in Defs
    BY DEF CallOK
  <2>2. ObjectsOK'
    BY <2>1 DEF ObjectsOK
  <2>3. ControlOK' /\ faults' \in Nat /\ crashes' \in Nat
    BY LabelMembers, AnswerMembers, WriteTypes DEF ControlOK
  <2>4. CallOK'
    BY <2>1 DEF ControlOK, CallOK, N, D, V
  <2> QED BY <2>2, <2>3, <2>4
<1>3. CASE CreateServiceConfigMap(r)
  <2> USE <1>3 DEF CreateServiceConfigMap
  <2>1. N(r) \in Names /\ D(r) \in Defs
    BY DEF CallOK
  <2>2. ObjectsOK'
    BY <2>1, NewObjectTypes DEF ObjectsOK
  <2>3. ControlOK' /\ faults' \in Nat /\ crashes' \in Nat
    BY LabelMembers, AnswerMembers, WriteTypes DEF ControlOK
  <2>4. CallOK'
    BY <2>1 DEF ControlOK, CallOK, N, D, V
  <2> QED BY <2>2, <2>3, <2>4
<1>4. CASE EnsuresVolume(r)
  <2> USE <1>4 DEF EnsuresVolume, EnsureServiceVolume
  <2>1. N(r) \in Names /\ D(r) \in Defs
    BY DEF CallOK
  <2>2. D(r).vname \in Volumes
    BY <2>1, DefsAssumption DEF DefType
  <2>3. [mode |-> "service", by |-> r, policy |-> LifecyclePolicy(D(r))] \in ClaimType
    BY <2>1, DefsAssumption DEF DefType, LifecyclePolicy, ClaimType
  <2>4. ObjectsOK'
    BY <2>2, <2>3 DEF ObjectsOK
  <2>5. ControlOK' /\ faults' \in Nat /\ crashes' \in Nat
    BY LabelMembers, AnswerMembers, WriteTypes DEF ControlOK
  <2>6. CallOK'
    BY <2>1 DEF ControlOK, CallOK, N, D, V
  <2> QED BY <2>4, <2>5, <2>6
<1>5. CASE RollsBack(r)
  <2> USE <1>5 DEF RollsBack, RollbackConfigMap
  <2>1. N(r) \in Names /\ D(r) \in Defs
    BY DEF CallOK
  <2>2. ObjectsOK'
    BY <2>1 DEF ObjectsOK
  <2>3. ControlOK' /\ faults' \in Nat /\ crashes' \in Nat
    BY LabelMembers, AnswerMembers, WriteTypes DEF ControlOK
  <2>4. CallOK'
    BY <2>1 DEF ControlOK, CallOK, N, D, V
  <2> QED BY <2>2, <2>3, <2>4
<1>6. CASE RollbackVolume(r)
  <2> USE <1>6 DEF RollbackVolume, RemoveServiceVolume
  <2>1. N(r) \in Names /\ D(r) \in Defs
    BY DEF CallOK
  <2>2. ObjectsOK'
    BY <2>1 DEF ObjectsOK
  <2>3. ControlOK' /\ faults' \in Nat /\ crashes' \in Nat
    BY LabelMembers, AnswerMembers, WriteTypes DEF ControlOK
  <2>4. CallOK'
    BY <2>1 DEF ControlOK, CallOK, N, D, V
  <2> QED BY <2>2, <2>3, <2>4
<1>7. CASE PrefetchImage(r)
  <2> USE <1>7 DEF PrefetchImage
  <2>1. N(r) \in Names /\ D(r) \in Defs
    BY DEF CallOK
  <2>2. ObjectsOK'
    BY <2>1 DEF ObjectsOK
  <2>3. ControlOK' /\ faults' \in Nat /\ crashes' \in Nat
    BY LabelMembers, AnswerMembers, WriteTypes DEF ControlOK
  <2>4. CallOK'
    BY <2>1 DEF ControlOK, CallOK, N, D, V
  <2> QED BY <2>2, <2>3, <2>4
<1>8. CASE CreateFailed(r)
  <2> USE <1>8 DEF CreateFailed, Answer
  <2>1. N(r) \in Names /\ D(r) \in Defs
    BY DEF CallOK
  <2>2. ObjectsOK'
    BY <2>1 DEF ObjectsOK
  <2>3. ControlOK' /\ faults' \in Nat /\ crashes' \in Nat
    BY LabelMembers, AnswerMembers, WriteTypes DEF ControlOK
  <2>4. CallOK'
    BY <2>1 DEF ControlOK, CallOK, N, D, V
  <2> QED BY <2>2, <2>3, <2>4
<1>9. CASE CreateMinIO(r)
  <2> USE <1>9 DEF CreateMinIO, Answer
  <2>1. N(r) \in Names /\ D(r) \in Defs
    BY DEF CallOK
  <2>2. ObjectsOK'
    BY <2>1 DEF ObjectsOK
  <2>3. ControlOK' /\ faults' \in Nat /\ crashes' \in Nat
    BY LabelMembers, AnswerMembers, WriteTypes DEF ControlOK
  <2>4. CallOK'
    BY <2>1 DEF ControlOK, CallOK, N, D, V
  <2> QED BY <2>2, <2>3, <2>4
<1>10. CASE DeleteServiceConfigMap(r)
  <2> USE <1>10 DEF DeleteServiceConfigMap
  <2>1. N(r) \in Names /\ D(r) \in Defs
    BY DEF CallOK
  <2>2. ObjectsOK'
    BY <2>1 DEF ObjectsOK
  <2>3. ControlOK' /\ faults' \in Nat /\ crashes' \in Nat
    BY LabelMembers, AnswerMembers, WriteTypes DEF ControlOK
  <2>4. CallOK'
    BY <2>1 DEF ControlOK, CallOK, N, D, V
  <2> QED BY <2>2, <2>3, <2>4
<1>11. CASE DeleteServiceJobs(r)
  <2> USE <1>11 DEF DeleteServiceJobs
  <2>1. N(r) \in Names /\ D(r) \in Defs
    BY DEF CallOK
  <2>2. ObjectsOK'
    BY <2>1 DEF ObjectsOK
  <2>3. ControlOK' /\ faults' \in Nat /\ crashes' \in Nat
    BY LabelMembers, AnswerMembers, WriteTypes DEF ControlOK
  <2>4. CallOK'
    BY <2>1 DEF ControlOK, CallOK, N, D, V
  <2> QED BY <2>2, <2>3, <2>4
<1>12. CASE DeleteServiceVolume(r)
  <2> USE <1>12 DEF DeleteServiceVolume, RemoveServiceVolume
  <2>1. N(r) \in Names /\ D(r) \in Defs
    BY DEF CallOK
  <2>2. ObjectsOK'
    BY <2>1 DEF ObjectsOK
  <2>3. ControlOK' /\ faults' \in Nat /\ crashes' \in Nat
    BY LabelMembers, AnswerMembers, WriteTypes DEF ControlOK
  <2>4. CallOK'
    BY <2>1 DEF ControlOK, CallOK, N, D, V
  <2> QED BY <2>2, <2>3, <2>4
<1>13. CASE DeleteServiceSecret(r)
  <2> USE <1>13 DEF DeleteServiceSecret
  <2>1. N(r) \in Names /\ D(r) \in Defs
    BY DEF CallOK
  <2>2. ObjectsOK'
    BY <2>1 DEF ObjectsOK
  <2>3. ControlOK' /\ faults' \in Nat /\ crashes' \in Nat
    BY LabelMembers, AnswerMembers, WriteTypes DEF ControlOK
  <2>4. CallOK'
    BY <2>1 DEF ControlOK, CallOK, N, D, V
  <2> QED BY <2>2, <2>3, <2>4
<1>14. CASE DeleteServiceExpose(r)
  <2> USE <1>14 DEF DeleteServiceExpose
  <2>1. N(r) \in Names /\ D(r) \in Defs
    BY DEF CallOK
  <2>2. ObjectsOK'
    BY <2>1 DEF ObjectsOK
  <2>3. ControlOK' /\ faults' \in Nat /\ crashes' \in Nat
    BY LabelMembers, AnswerMembers, WriteTypes DEF ControlOK
  <2>4. CallOK'
    BY <2>1 DEF ControlOK, CallOK, N, D, V
  <2> QED BY <2>2, <2>3, <2>4
<1>15. CASE DeleteServiceReturns(r)
  <2> USE <1>15 DEF DeleteServiceReturns, Answer
  <2>1. N(r) \in Names /\ D(r) \in Defs
    BY DEF CallOK
  <2>2. ObjectsOK'
    BY <2>1 DEF ObjectsOK
  <2>3. ControlOK' /\ faults' \in Nat /\ crashes' \in Nat
    BY LabelMembers, AnswerMembers, WriteTypes DEF ControlOK
  <2>4. CallOK'
    BY <2>1 DEF ControlOK, CallOK, N, D, V
  <2> QED BY <2>2, <2>3, <2>4
<1>16. CASE Resolves(r)
  <2> USE <1>16 DEF Resolves, ResolveServiceNamespace, Answer
  <2>1. N(r) \in Names
    BY DEF CallOK
  <2>2. ObjectsOK'
    BY <2>1 DEF ObjectsOK
  <2>3. ControlOK' /\ faults' \in Nat /\ crashes' \in Nat
    BY LabelMembers, AnswerMembers, WriteTypes DEF ControlOK
  <2>4. CallOK'
    BY <2>1 DEF ControlOK, CallOK, N, D, V
  <2> QED BY <2>2, <2>3, <2>4
<1>17. CASE ReadServiceConfigMap(r)
  <2> USE <1>17 DEF ReadServiceConfigMap, Answer
  <2>1. N(r) \in Names
    BY DEF CallOK
  <2>2. cm[N(r)] # None => cm[N(r)].def \in Defs
    BY <2>1 DEF ObjectsOK, ObjectType
  <2>3. call' \in [Reqs -> CallType]
    BY <2>2 DEF ControlOK, CallType
  <2>4. ObjectsOK'
    BY DEF ObjectsOK
  <2>5. ControlOK' /\ faults' \in Nat /\ crashes' \in Nat
    BY <2>2, <2>3, LabelMembers, AnswerMembers, WriteTypes DEF ControlOK
  <2>6. CallOK'
    BY <2>1, <2>2 DEF ControlOK, CallType, CallOK, N, D, V
  <2> QED BY <2>4, <2>5, <2>6
<1>18. CASE CheckSameVolume(r)
  <2> USE <1>18 DEF CheckSameVolume, Answer
  <2>1. N(r) \in Names /\ D(r) \in Defs
    BY DEF CallOK
  <2>2. ObjectsOK'
    BY <2>1 DEF ObjectsOK
  <2>3. ControlOK' /\ faults' \in Nat /\ crashes' \in Nat
    BY LabelMembers, AnswerMembers, WriteTypes DEF ControlOK
  <2>4. CallOK'
    BY <2>1 DEF ControlOK, CallOK, N, D, V
  <2> QED BY <2>2, <2>3, <2>4
<1>19. CASE UpdateMinIO(r)
  <2> USE <1>19 DEF UpdateMinIO, Answer
  <2>1. N(r) \in Names /\ D(r) \in Defs
    BY DEF CallOK
  <2>2. ObjectsOK'
    BY <2>1 DEF ObjectsOK
  <2>3. resp' \in [Reqs -> Answers]
    BY AnswerMembers, WriteTypes DEF ControlOK
  <2>4. pc' \in [Reqs -> Labels] /\ undo' \in [Reqs -> BOOLEAN]
    BY LabelMembers DEF ControlOK
  <2>5. ControlOK' /\ faults' \in Nat /\ crashes' \in Nat
    BY <2>3, <2>4 DEF ControlOK
  <2>6. CallOK'
    BY <2>1 DEF ControlOK, CallOK, N, D, V
  <2> QED BY <2>2, <2>5, <2>6
<1>20. CASE UpdateServiceSecret(r)
  <2> USE <1>20 DEF UpdateServiceSecret
  <2>1. N(r) \in Names /\ D(r) \in Defs
    BY DEF CallOK
  <2>2. ObjectsOK'
    BY <2>1 DEF ObjectsOK
  <2>3. ControlOK' /\ faults' \in Nat /\ crashes' \in Nat
    BY LabelMembers, AnswerMembers, WriteTypes DEF ControlOK
  <2>4. CallOK'
    BY <2>1 DEF ControlOK, CallOK, N, D, V
  <2> QED BY <2>2, <2>3, <2>4
<1>21. CASE AdmitsUpdate(r)
  <2> USE <1>21 DEF AdmitsUpdate, AdmitUpdate
  <2>1. N(r) \in Names /\ D(r) \in Defs
    BY DEF CallOK
  <2>2. ObjectsOK'
    BY <2>1 DEF ObjectsOK
  <2>3. ControlOK' /\ faults' \in Nat /\ crashes' \in Nat
    BY LabelMembers, AnswerMembers, WriteTypes, ErrorTypes DEF ControlOK
  <2>4. CallOK'
    BY <2>1 DEF ControlOK, CallOK, N, D, V, UpdateReturnsError, Answer
  <2> QED BY <2>2, <2>3, <2>4
<1>22. CASE ReadOldConfigMap(r)
  <2> USE <1>22 DEF ReadOldConfigMap
  <2>1. N(r) \in Names /\ D(r) \in Defs
    BY DEF CallOK
  <2>2. cm[N(r)] # None => cm[N(r)] \in ObjectType
    BY <2>1 DEF ObjectsOK
  <2>3. snap' \in [Reqs -> SnapType]
    BY <2>2 DEF ControlOK, SnapType
  <2>4. ObjectsOK'
    BY DEF ObjectsOK
  <2>5. ControlOK' /\ faults' \in Nat /\ crashes' \in Nat
    BY <2>3, LabelMembers, AnswerMembers, WriteTypes, ErrorTypes DEF ControlOK
  <2>6. CallOK'
    BY <2>1, <2>2 DEF ControlOK, SnapType, CallOK, N, D, V, UpdateReturnsError, Answer
  <2> QED BY <2>4, <2>5, <2>6
<1>23. CASE UpdateServiceConfigMap(r)
  <2> USE <1>23 DEF UpdateServiceConfigMap
  <2>1. N(r) \in Names /\ Applied(r) \in Defs
    BY DEF CallOK, Applied
  <2>2. cm[N(r)] # None => Updated(cm[N(r)], Applied(r)) \in ObjectType
    BY <2>1, UpdatedTypes DEF ObjectsOK
  <2>3. ObjectsOK'
    BY <2>1, <2>2 DEF ObjectsOK
  <2>4. ControlOK' /\ faults' \in Nat /\ crashes' \in Nat
    BY LabelMembers, AnswerMembers, WriteTypes, ErrorTypes DEF ControlOK
  <2>5. CallOK'
    BY <2>1 DEF ControlOK, CallOK, N, D, V, UpdateReturnsError, Answer
  <2> QED BY <2>3, <2>4, <2>5
<1>24. CASE RestoreOldConfigMap(r)
  <2> USE <1>24 DEF RestoreOldConfigMap
  <2>1. N(r) \in Names /\ snap[r].cm \in ObjectType
    BY DEF CallOK
  <2>2. cm[N(r)] # None => Updated(cm[N(r)], snap[r].cm.def) \in ObjectType
    BY <2>1, UpdatedTypes DEF ObjectsOK, ObjectType
  <2>3. ObjectsOK'
    BY <2>1, <2>2 DEF ObjectsOK, Current
  <2>4. ControlOK' /\ faults' \in Nat /\ crashes' \in Nat
    BY LabelMembers, AnswerMembers, WriteTypes, ErrorTypes DEF ControlOK
  <2>5. CallOK'
    BY <2>1 DEF ControlOK, CallOK, N, D, V, UpdateReturnsError, Answer
  <2> QED BY <2>3, <2>4, <2>5
<1>25. CASE UpdateServiceExpose(r)
  <2> USE <1>25 DEF UpdateServiceExpose, UpdateReturnsOk, Answer
  <2>1. N(r) \in Names /\ D(r) \in Defs
    BY DEF CallOK
  <2>2. ObjectsOK'
    BY <2>1 DEF ObjectsOK
  <2>3. ControlOK' /\ faults' \in Nat /\ crashes' \in Nat
    BY LabelMembers, AnswerMembers, WriteTypes, ErrorTypes DEF ControlOK
  <2>4. CallOK'
    BY <2>1 DEF ControlOK, CallOK, N, D, V, UpdateReturnsError, Answer
  <2> QED BY <2>2, <2>3, <2>4
<1>26. CASE InvokeRead(r)
  <2> USE <1>26 DEF InvokeRead, Answer
  <2>1. N(r) \in Names
    BY DEF CallOK
  <2>2. ObjectsOK'
    BY <2>1 DEF ObjectsOK
  <2>3. ControlOK' /\ faults' \in Nat /\ crashes' \in Nat
    BY LabelMembers, AnswerMembers, WriteTypes DEF ControlOK
  <2>4. CallOK'
    BY <2>1 DEF ControlOK, CallOK, N, D, V
  <2> QED BY <2>2, <2>3, <2>4
<1>27. CASE InvokeCreate(r)
  <2> USE <1>27 DEF InvokeCreate, Answer
  <2>1. N(r) \in Names
    BY DEF CallOK
  <2>2. ObjectsOK'
    BY <2>1 DEF ObjectsOK
  <2>3. ControlOK' /\ faults' \in Nat /\ crashes' \in Nat
    BY LabelMembers, AnswerMembers, WriteTypes DEF ControlOK
  <2>4. CallOK'
    BY <2>1 DEF ControlOK, CallOK, N, D, V
  <2> QED BY <2>2, <2>3, <2>4
<1>28. CASE CreateVolume(r)
  <2> USE <1>28 DEF CreateVolume, Answer
  <2>1. V(r) \in Volumes
    BY DEF CallOK
  <2>2. ApiClaim(r) \in ClaimType
    BY ApiClaimTypes
  <2>3. ObjectsOK'
    BY <2>1, <2>2 DEF ObjectsOK
  <2>4. ControlOK' /\ faults' \in Nat /\ crashes' \in Nat
    BY LabelMembers, AnswerMembers, WriteTypes DEF ControlOK
  <2>5. CallOK'
    BY <2>1 DEF ControlOK, CallOK, N, D, V
  <2> QED BY <2>3, <2>4, <2>5
<1>29. CASE CountVolumeAttachments(r)
  <2> USE <1>29 DEF CountVolumeAttachments, Answer
  <2>1. V(r) \in Volumes
    BY DEF CallOK
  <2>2. ObjectsOK'
    BY <2>1 DEF ObjectsOK
  <2>3. ControlOK' /\ faults' \in Nat /\ crashes' \in Nat
    BY LabelMembers, AnswerMembers, WriteTypes DEF ControlOK
  <2>4. CallOK'
    BY <2>1 DEF ControlOK, CallOK, N, D, V
  <2> QED BY <2>2, <2>3, <2>4
<1>30. CASE DeleteVolume(r)
  <2> USE <1>30 DEF DeleteVolume, Answer
  <2>1. V(r) \in Volumes
    BY DEF CallOK
  <2>2. ObjectsOK'
    BY <2>1 DEF ObjectsOK
  <2>3. ControlOK' /\ faults' \in Nat /\ crashes' \in Nat
    BY LabelMembers, AnswerMembers, WriteTypes DEF ControlOK
  <2>4. CallOK'
    BY <2>1 DEF ControlOK, CallOK, N, D, V
  <2> QED BY <2>2, <2>3, <2>4
<1>31. CASE ImagePulled(r)
  <2> USE <1>31 DEF ImagePulled, UpdateReturnsOk, Answer
  <2>1. N(r) \in Names /\ D(r) \in Defs
    BY DEF CallOK
  <2>2. ObjectsOK'
    BY <2>1 DEF ObjectsOK
  <2>3. ControlOK' /\ faults' \in Nat /\ crashes' \in Nat
    BY LabelMembers, AnswerMembers, WriteTypes DEF ControlOK
  <2>4. CallOK'
    BY <2>1 DEF ControlOK, CallOK, N, D, V
  <2> QED BY <2>2, <2>3, <2>4
<1> QED
  BY <1>1, <1>2, <1>3, <1>4, <1>5, <1>6, <1>7, <1>8, <1>9, <1>10, <1>11, <1>12, <1>13, <1>14, <1>15,
     <1>16, <1>17, <1>18, <1>19, <1>20, <1>21, <1>22, <1>23, <1>24, <1>25, <1>26, <1>27, <1>28, <1>29, <1>30,
     <1>31
  DEF CommonStep, SharedStep

\* A request that arrives starts with a well-typed call.
LEMMA ArrivesTypes ==
  ASSUME TypeOK, CallOK, NEW r \in Reqs, Arrives(r)
  PROVE  TypeOK' /\ CallOK'
<1> USE DEF TypeOK, Goto, Start, budget, objects
<1>1. CASE StartCreate(r)
  <2>1. PICK n \in Names, d \in Defs : Start(r, "create", n, d, None, "secret")
    BY <1>1 DEF StartCreate
  <2>2. [op |-> "create", name |-> n, def |-> d, vol |-> None] \in CallType
    BY DEF CallType
  <2> QED BY <2>1, <2>2, LabelMembers DEF ObjectsOK, ControlOK, CallOK, N, D, V
<1>2. CASE StartUpdate(r)
  <2>1. PICK n \in Names, d \in Defs : Start(r, "update", n, d, None, "resolve")
    BY <1>2 DEF StartUpdate
  <2>2. [op |-> "update", name |-> n, def |-> d, vol |-> None] \in CallType
    BY DEF CallType
  <2> QED BY <2>1, <2>2, LabelMembers DEF ObjectsOK, ControlOK, CallOK, N, D, V
<1>3. CASE StartDelete(r, "readWL") \/ StartDelete(r, "readCM")
  <2>1. PICK n \in Names, l \in {"resolve", "readWL", "readCM"} : Start(r, "delete", n, None, None, l)
    BY <1>3 DEF StartDelete
  <2>2. [op |-> "delete", name |-> n, def |-> None, vol |-> None] \in CallType
    BY DEF CallType
  <2> QED BY <2>1, <2>2, LabelMembers DEF ObjectsOK, ControlOK, CallOK, N, D, V
<1>4. CASE StartInvoke(r)
  <2>1. PICK n \in Names : Start(r, "invoke", n, None, None, "invRead")
    BY <1>4 DEF StartInvoke
  <2>2. [op |-> "invoke", name |-> n, def |-> None, vol |-> None] \in CallType
    BY DEF CallType
  <2> QED BY <2>1, <2>2, LabelMembers DEF ObjectsOK, ControlOK, CallOK, N, D, V
<1>5. CASE StartCreateVolume(r)
  <2>1. PICK v \in Volumes : Start(r, "mkvol", None, None, v, "vCreate")
    BY <1>5 DEF StartCreateVolume
  <2>2. [op |-> "mkvol", name |-> None, def |-> None, vol |-> v] \in CallType
    BY DEF CallType
  <2> QED BY <2>1, <2>2, LabelMembers DEF ObjectsOK, ControlOK, CallOK, N, D, V
<1>6. CASE StartDeleteVolume(r)
  <2>1. PICK v \in Volumes : Start(r, "rmvol", None, None, v, "vCount")
    BY <1>6 DEF StartDeleteVolume
  <2>2. [op |-> "rmvol", name |-> None, def |-> None, vol |-> v] \in CallType
    BY DEF CallType
  <2> QED BY <2>1, <2>2, LabelMembers DEF ObjectsOK, ControlOK, CallOK, N, D, V
<1> QED BY <1>1, <1>2, <1>3, <1>4, <1>5, <1>6 DEF Arrives

-----------------------------------------------------------------------------
(* Requests that do not overlap. *)

\* At most one request is in progress.
Alone == \A r, q \in InFlight : r = q

\* Nothing has failed so far.
Unspoilt == faults = 0 /\ crashes = 0

\* No image is refused: the list of allowed repositories is empty.
Unrestricted == \A d \in Defs : d.allowed

\* The image of the service that request r creates is not refused.
Admissible(r) == pc[r] = "admit" => D(r).allowed

-----------------------------------------------------------------------------
(* The books of the services: ConfigMaps, claims and jobs. *)

\* A service with definition d made volume v, to be deleted with it.
Makes(d, v) == DropsVolume(d) /\ d.vname = v

\* The ConfigMap of r's service is the one that r made.
Mine(r) == cm[N(r)] # None /\ cm[N(r)].by = r /\ cm[N(r)].def = D(r)

\* The create failed for a reason that makes the handler delete the service.
Serious(r) == err[r] # "exists" /\ ~(err[r] = "notfound" /\ D(r).volume = "mount")

Unmade == {"idle", "secret", "admit", "createCM", "ensureVol", "undoCM"}
Updating == {"uSame", "uMinio", "uSecret", "uAdmit", "uGetWL", "uGet", "uCM", "uWL", "uRestore", "uExpose", "uPull"}

\* What request r knows of its ConfigMap, its jobs and its claim, by label.
CreateStage(r) ==
    /\ pc[r] \in {"ensureVol", "createWL", "exposeNew", "prefetch", "pulling", "minio", "rollbackCM", "undoCM"}
          => Mine(r)
    /\ pc[r] \in {"ensureVol", "createWL", "rollbackCM", "undoCM"} => jobs[N(r)] = {}
    /\ pc[r] = "createFailed" /\ Serious(r) /\ cm[N(r)] # None => Mine(r)
    /\ pc[r] \in Unmade => \A v \in Volumes : pvc[v] # None => pvc[v].by # r

DeleteStage(r) ==
    /\ pc[r] \in {"delWL", "delCM"} /\ cm[N(r)] # None => cm[N(r)].def = D(r)
    /\ pc[r] \in {"rollbackVol", "delJobs", "delVol", "delSecret", "delExpose"} => cm[N(r)] = None

UpdateStage(r) ==
    /\ pc[r] \in Updating => cm[N(r)] # None /\ cm[N(r)].def \in {prior[r], D(r)}
    /\ pc[r] \in Updating \ {"uSame"} => SameVolumeConfig(prior[r], D(r))
    /\ pc[r] \in {"uSame", "uMinio", "uSecret"} => ~undo[r]
    /\ pc[r] \in Updating \ {"uWL", "uRestore", "uExpose", "uPull"} /\ ~undo[r] => cm[N(r)].def = prior[r]
    /\ pc[r] \in {"uWL", "uExpose", "uPull"} => cm[N(r)].def = Applied(r)
    /\ pc[r] \in {"uCM", "uWL", "uRestore"} => snap[r].cm.def \in {prior[r], D(r)}
    /\ pc[r] \in {"idle", "resolve", "readWL", "readCM"} => ~undo[r]

InvokeStage(r) == pc[r] = "invCreate" => cm[N(r)] # None

Stage(r) == CreateStage(r) /\ DeleteStage(r) /\ UpdateStage(r) /\ InvokeStage(r)
Stages == \A r \in Reqs : Stage(r)

\* The claim of volume v belongs to a service, or is about to be deleted.
Backed(v) == \E n \in Names : cm[n] # None /\ cm[n].by = pvc[v].by /\ Makes(cm[n].def, v)
Condemned(v) == \E r \in Reqs : pc[r] \in {"rollbackVol", "delJobs", "delVol"} /\ Makes(D(r), v)
Claims ==
    \A v \in Volumes :
        pvc[v] # None /\ pvc[v].mode = "service" /\ pvc[v].policy = "delete" => Backed(v) \/ Condemned(v)

\* Jobs belong to a service, or are about to be deleted.
Work ==
    \A n \in Names :
        jobs[n] # {} => cm[n] # None \/ \E r \in Reqs : pc[r] = "delJobs" /\ N(r) = n

\* No service is attached to a volume that is about to be deleted.
Unattached == \A r \in Reqs : pc[r] = "vDelete" => Attachments(V(r)) = {}

Books == Unspoilt => Stages /\ Claims /\ Work

-----------------------------------------------------------------------------

\* Only request r, which is in progress, takes the step.
Acts(r) ==
    /\ pc[r] \notin {"idle", "done"}
    /\ \A q \in Reqs \ {r} : pc'[q] = pc[q] /\ call'[q] = call[q] /\ undo'[q] = undo[q]

\* Every claim that is there was there before, or r has made it.
OwnClaims(r) == \A v \in Volumes : pvc'[v] # None => pvc'[v] = pvc[v] \/ pvc'[v].by = r

\* The ConfigMaps, claims and jobs stay as they are, and r was not deleting any.
QuietBooks(r) ==
    /\ UNCHANGED <<cm, pvc, jobs>>
    /\ pc[r] \notin {"rollbackVol", "delJobs", "delVol"}

\* A shared step is a step of one request.
LEMMA CommonActs ==
  ASSUME TypeOK, NEW r \in Reqs, CommonStep(r)
  PROVE  Acts(r) /\ faults' >= faults /\ crashes' = crashes
<1> USE DEF TypeOK, ControlOK, Acts, Goto, Answer, Fails, Fault, budget, objects
<1>1. CASE SharedStep(r)
  <2>1. CASE CreateServiceSecret(r) \/ AdmitImage(r) \/ CreateServiceConfigMap(r) \/ RollbackVolume(r)
             \/ PrefetchImage(r) \/ CreateFailed(r) \/ CreateMinIO(r)
    BY <2>1 DEF CreateServiceSecret, AdmitImage, CreateServiceConfigMap, RollbackVolume,
                RemoveServiceVolume, PrefetchImage, CreateFailed, CreateMinIO
  <2>2. CASE DeleteServiceConfigMap(r) \/ DeleteServiceJobs(r) \/ DeleteServiceVolume(r)
             \/ DeleteServiceSecret(r) \/ DeleteServiceExpose(r) \/ DeleteServiceReturns(r)
    BY <2>2 DEF DeleteServiceConfigMap, DeleteServiceJobs, DeleteServiceVolume, RemoveServiceVolume,
                DeleteServiceSecret, DeleteServiceExpose, DeleteServiceReturns
  <2>3. CASE CheckSameVolume(r) \/ UpdateMinIO(r) \/ UpdateServiceSecret(r) \/ ReadOldConfigMap(r)
    BY <2>3 DEF CheckSameVolume, UpdateMinIO, UpdateServiceSecret, ReadOldConfigMap, UpdateReturnsError
  <2>4. CASE UpdateServiceConfigMap(r) \/ RestoreOldConfigMap(r) \/ UpdateServiceExpose(r)
    BY <2>4 DEF UpdateServiceConfigMap, RestoreOldConfigMap, UpdateServiceExpose,
                UpdateReturnsError, UpdateReturnsOk
  <2>5. CASE InvokeRead(r) \/ InvokeCreate(r) \/ CreateVolume(r) \/ CountVolumeAttachments(r) \/ DeleteVolume(r)
    BY <2>5 DEF InvokeRead, InvokeCreate, CreateVolume, CountVolumeAttachments, DeleteVolume
  <2> QED BY <1>1, <2>1, <2>2, <2>3, <2>4, <2>5 DEF SharedStep
<1>2. CASE EnsuresVolume(r) \/ RollsBack(r) \/ Resolves(r) \/ ReadServiceConfigMap(r) \/ AdmitsUpdate(r)
           \/ ImagePulled(r)
  BY <1>2 DEF EnsuresVolume, EnsureServiceVolume, RollsBack, RollbackConfigMap, Resolves,
              ResolveServiceNamespace, ReadServiceConfigMap, AdmitsUpdate, AdmitUpdate, UpdateReturnsError,
              ImagePulled, UpdateReturnsOk
<1> QED BY <1>1, <1>2 DEF CommonStep

\* While a request that is alone acts, the others are idle or done.
LEMMA OthersRest ==
  ASSUME TypeOK, Alone, NEW r \in Reqs, Acts(r), NEW q \in Reqs \ {r}
  PROVE  pc'[q] = pc[q] /\ pc[q] \in {"idle", "done"} /\ call'[q] = call[q]
  BY DEF Alone, InFlight, Acts

\* A step of one request leaves at most one in progress.
LEMMA ActsAlone ==
  ASSUME TypeOK, Alone, NEW r \in Reqs, Acts(r)
  PROVE  Alone'
  BY OthersRest DEF Alone, InFlight

\* A request arrives only when none is in progress.
LEMMA ArrivesAlone ==
  ASSUME TypeOK, Alone, MaxInFlight = 1, NEW r \in Reqs, Arrives(r)
  PROVE  InFlight = {} /\ Alone'
<1>1. /\ Cardinality(InFlight) < 1 /\ pc[r] = "idle"
      /\ \A q \in Reqs \ {r} : pc'[q] = pc[q]
  BY DEF Arrives, StartCreate, StartUpdate, StartDelete, StartInvoke, StartCreateVolume,
         StartDeleteVolume, Start, Goto, TypeOK, ControlOK
<1>2. InFlight = {}
  <2>1. ASSUME NEW q \in InFlight PROVE FALSE
    <3>1. InFlight = {q}
      BY <2>1 DEF Alone
    <3>2. Cardinality(InFlight) = 1
      BY <3>1, FS_Singleton
    <3> QED BY <1>1, <3>2
  <2> QED BY <2>1
<1>3. Alone'
  BY <1>1, <1>2 DEF Alone, InFlight
<1> QED BY <1>2, <1>3

-----------------------------------------------------------------------------

\* The stages of the requests that rest.
LEMMA RestStages ==
  ASSUME TypeOK, Alone, Stages, NEW r \in Reqs, Acts(r), OwnClaims(r), NEW q \in Reqs \ {r}
  PROVE  Stage(q)'
<1>1. pc'[q] = pc[q] /\ pc[q] \in {"idle", "done"}
  BY OthersRest
<1>2. CreateStage(q)'
  BY <1>1 DEF Stages, Stage, CreateStage, OwnClaims, Unmade
<1>3. undo'[q] = undo[q]
  BY DEF Acts
<1> QED BY <1>1, <1>2, <1>3 DEF Stages, Stage, DeleteStage, UpdateStage, InvokeStage, Updating

\* A step that does not touch the books keeps the claims and the jobs.
LEMMA QuietKeeps ==
  ASSUME TypeOK, Claims, Work, NEW r \in Reqs, Acts(r), QuietBooks(r)
  PROVE  Claims' /\ Work' /\ OwnClaims(r)
<1>1. ASSUME NEW v \in Volumes, Condemned(v) PROVE Condemned(v)'
  BY <1>1 DEF Condemned, Acts, QuietBooks, D
<1>2. ASSUME NEW v \in Volumes, Backed(v) PROVE Backed(v)'
  BY <1>2 DEF Backed, QuietBooks
<1>3. Claims'
  BY <1>1, <1>2 DEF Claims, QuietBooks
<1>4. Work'
  BY DEF Work, Acts, QuietBooks, N
<1> QED BY <1>3, <1>4 DEF OwnClaims, QuietBooks

\* The shared steps that touch neither ConfigMaps nor claims nor jobs.
PassingStep(r) ==
    \/ CreateServiceSecret(r) \/ AdmitImage(r) \/ PrefetchImage(r) \/ CreateFailed(r)
    \/ CreateMinIO(r) \/ DeleteServiceSecret(r) \/ DeleteServiceExpose(r) \/ DeleteServiceReturns(r)
    \/ CheckSameVolume(r) \/ UpdateMinIO(r) \/ UpdateServiceSecret(r) \/ ReadOldConfigMap(r)
    \/ UpdateServiceExpose(r) \/ InvokeRead(r) \/ CountVolumeAttachments(r) \/ Resolves(r)
    \/ ReadServiceConfigMap(r) \/ AdmitsUpdate(r) \/ ImagePulled(r)

\* They bring a request from one stage to another.
LEMMA PassingStages ==
  ASSUME TypeOK, CallOK, NEW r \in Reqs, Admissible(r), Stage(r), PassingStep(r), ~Fault
  PROVE  QuietBooks(r) /\ Stage(r)'
<1> USE DEF TypeOK, ControlOK, Goto, Fails, budget, objects, QuietBooks, Stage, N, D
<1>1. CASE CreateServiceSecret(r)
  <2> USE <1>1 DEF CreateServiceSecret
  <2>1. QuietBooks(r)
    OBVIOUS
  <2>3. CreateStage(r)'
    BY <2>1 DEF CreateStage, Mine, Serious, Unmade
  <2>4. DeleteStage(r)'
    BY <2>1 DEF DeleteStage, CreateStage, Mine, Serious
  <2>5. UpdateStage(r)'
    BY <2>1 DEF UpdateStage, Updating, Applied
  <2>6. InvokeStage(r)'
    BY <2>1 DEF InvokeStage
  <2> QED BY <2>1, <2>3, <2>4, <2>5, <2>6
<1>2. CASE AdmitImage(r)
  <2> USE <1>2 DEF AdmitImage
  <2>1. QuietBooks(r)
    OBVIOUS
  <2>2. D(r) \in Defs /\ D(r).allowed
    BY DEF CallOK, Admissible
  <2>3. CreateStage(r)'
    BY <2>1, <2>2 DEF CreateStage, Mine, Serious, Unmade
  <2>4. DeleteStage(r)'
    BY <2>1, <2>2 DEF DeleteStage, CreateStage, Mine, Serious
  <2>5. UpdateStage(r)'
    BY <2>1, <2>2 DEF UpdateStage, Updating, Applied
  <2>6. InvokeStage(r)'
    BY <2>1, <2>2 DEF InvokeStage
  <2> QED BY <2>1, <2>3, <2>4, <2>5, <2>6
<1>3. CASE PrefetchImage(r)
  <2> USE <1>3 DEF PrefetchImage
  <2>1. QuietBooks(r)
    OBVIOUS
  <2>3. CreateStage(r)'
    BY <2>1 DEF CreateStage, Mine, Serious, Unmade
  <2>4. DeleteStage(r)'
    BY <2>1 DEF DeleteStage, CreateStage, Mine, Serious
  <2>5. UpdateStage(r)'
    BY <2>1 DEF UpdateStage, Updating, Applied
  <2>6. InvokeStage(r)'
    BY <2>1 DEF InvokeStage
  <2> QED BY <2>1, <2>3, <2>4, <2>5, <2>6
<1>4. CASE CreateFailed(r)
  <2> USE <1>4 DEF CreateFailed, Answer
  <2>1. QuietBooks(r)
    OBVIOUS
  <2>3. CreateStage(r)'
    BY <2>1 DEF CreateStage, Mine, Serious, Unmade
  <2>4. DeleteStage(r)'
    BY <2>1 DEF DeleteStage, CreateStage, Mine, Serious
  <2>5. UpdateStage(r)'
    BY <2>1 DEF UpdateStage, Updating, Applied
  <2>6. InvokeStage(r)'
    BY <2>1 DEF InvokeStage
  <2> QED BY <2>1, <2>3, <2>4, <2>5, <2>6
<1>5. CASE CreateMinIO(r)
  <2> USE <1>5 DEF CreateMinIO, Answer
  <2>1. QuietBooks(r)
    OBVIOUS
  <2>3. CreateStage(r)'
    BY <2>1 DEF CreateStage, Mine, Serious, Unmade
  <2>4. DeleteStage(r)'
    BY <2>1 DEF DeleteStage, CreateStage, Mine, Serious
  <2>5. UpdateStage(r)'
    BY <2>1 DEF UpdateStage, Updating, Applied
  <2>6. InvokeStage(r)'
    BY <2>1 DEF InvokeStage
  <2> QED BY <2>1, <2>3, <2>4, <2>5, <2>6
<1>6. CASE DeleteServiceSecret(r)
  <2> USE <1>6 DEF DeleteServiceSecret
  <2>1. QuietBooks(r)
    OBVIOUS
  <2>3. CreateStage(r)'
    BY <2>1 DEF CreateStage, Mine, Serious, Unmade
  <2>4. DeleteStage(r)'
    BY <2>1 DEF DeleteStage, CreateStage, Mine, Serious
  <2>5. UpdateStage(r)'
    BY <2>1 DEF UpdateStage, Updating, Applied
  <2>6. InvokeStage(r)'
    BY <2>1 DEF InvokeStage
  <2> QED BY <2>1, <2>3, <2>4, <2>5, <2>6
<1>7. CASE DeleteServiceExpose(r)
  <2> USE <1>7 DEF DeleteServiceExpose
  <2>1. QuietBooks(r)
    OBVIOUS
  <2>3. CreateStage(r)'
    BY <2>1 DEF CreateStage, Mine, Serious, Unmade
  <2>4. DeleteStage(r)'
    BY <2>1 DEF DeleteStage, CreateStage, Mine, Serious
  <2>5. UpdateStage(r)'
    BY <2>1 DEF UpdateStage, Updating, Applied
  <2>6. InvokeStage(r)'
    BY <2>1 DEF InvokeStage
  <2> QED BY <2>1, <2>3, <2>4, <2>5, <2>6
<1>8. CASE DeleteServiceReturns(r)
  <2> USE <1>8 DEF DeleteServiceReturns, Answer
  <2>1. QuietBooks(r)
    OBVIOUS
  <2>3. CreateStage(r)'
    BY <2>1 DEF CreateStage, Mine, Serious, Unmade
  <2>4. DeleteStage(r)'
    BY <2>1 DEF DeleteStage, CreateStage, Mine, Serious
  <2>5. UpdateStage(r)'
    BY <2>1 DEF UpdateStage, Updating, Applied
  <2>6. InvokeStage(r)'
    BY <2>1 DEF InvokeStage
  <2> QED BY <2>1, <2>3, <2>4, <2>5, <2>6
<1>9. CASE CheckSameVolume(r)
  <2> USE <1>9 DEF CheckSameVolume, Answer
  <2>1. QuietBooks(r)
    OBVIOUS
  <2>3. CreateStage(r)'
    BY <2>1 DEF CreateStage, Mine, Serious, Unmade
  <2>4. DeleteStage(r)'
    BY <2>1 DEF DeleteStage, CreateStage, Mine, Serious
  <2>5. UpdateStage(r)'
    BY <2>1 DEF UpdateStage, Updating, Applied
  <2>6. InvokeStage(r)'
    BY <2>1 DEF InvokeStage
  <2> QED BY <2>1, <2>3, <2>4, <2>5, <2>6
<1>10. CASE UpdateMinIO(r)
  <2> USE <1>10 DEF UpdateMinIO, Answer
  <2>1. QuietBooks(r)
    OBVIOUS
  <2>3. CreateStage(r)'
    BY <2>1 DEF CreateStage, Mine, Serious, Unmade
  <2>4. DeleteStage(r)'
    BY <2>1 DEF DeleteStage, CreateStage, Mine, Serious
  <2>5. UpdateStage(r)'
    BY <2>1 DEF UpdateStage, Updating, Applied
  <2>6. InvokeStage(r)'
    BY <2>1 DEF InvokeStage
  <2> QED BY <2>1, <2>3, <2>4, <2>5, <2>6
<1>11. CASE UpdateServiceSecret(r)
  <2> USE <1>11 DEF UpdateServiceSecret
  <2>1. QuietBooks(r)
    OBVIOUS
  <2>3. CreateStage(r)'
    BY <2>1 DEF CreateStage, Mine, Serious, Unmade
  <2>4. DeleteStage(r)'
    BY <2>1 DEF DeleteStage, CreateStage, Mine, Serious
  <2>5. UpdateStage(r)'
    BY <2>1 DEF UpdateStage, Updating, Applied
  <2>6. InvokeStage(r)'
    BY <2>1 DEF InvokeStage
  <2> QED BY <2>1, <2>3, <2>4, <2>5, <2>6
<1>12. CASE ReadOldConfigMap(r)
  <2> USE <1>12 DEF ReadOldConfigMap, UpdateReturnsError, Answer
  <2>1. QuietBooks(r)
    OBVIOUS
  <2>2. \/ snap'[r].cm = cm[N(r)] /\ UNCHANGED <<undo, prior, call>> /\ pc'[r] = "uCM" /\ cm[N(r)] # None
        \/ cm[N(r)] = None
    BY DEF SnapType
  <2>3. CreateStage(r)'
    BY <2>1, <2>2 DEF CreateStage, Mine, Serious, Unmade
  <2>4. DeleteStage(r)'
    BY <2>1, <2>2 DEF DeleteStage, CreateStage, Mine, Serious
  <2>5. UpdateStage(r)'
    BY <2>1, <2>2 DEF UpdateStage, Updating, Applied
  <2>6. InvokeStage(r)'
    BY <2>1, <2>2 DEF InvokeStage
  <2> QED BY <2>1, <2>3, <2>4, <2>5, <2>6
<1>13. CASE UpdateServiceExpose(r)
  <2> USE <1>13 DEF UpdateServiceExpose, UpdateReturnsError, UpdateReturnsOk, Answer
  <2>1. QuietBooks(r)
    OBVIOUS
  <2>3. CreateStage(r)'
    BY <2>1 DEF CreateStage, Mine, Serious, Unmade
  <2>4. DeleteStage(r)'
    BY <2>1 DEF DeleteStage, CreateStage, Mine, Serious
  <2>5. UpdateStage(r)'
    BY <2>1 DEF UpdateStage, Updating, Applied
  <2>6. InvokeStage(r)'
    BY <2>1 DEF InvokeStage
  <2> QED BY <2>1, <2>3, <2>4, <2>5, <2>6
<1>14. CASE InvokeRead(r)
  <2> USE <1>14 DEF InvokeRead, Answer
  <2>1. QuietBooks(r)
    OBVIOUS
  <2>3. CreateStage(r)'
    BY <2>1 DEF CreateStage, Mine, Serious, Unmade
  <2>4. DeleteStage(r)'
    BY <2>1 DEF DeleteStage, CreateStage, Mine, Serious
  <2>5. UpdateStage(r)'
    BY <2>1 DEF UpdateStage, Updating, Applied
  <2>6. InvokeStage(r)'
    BY <2>1 DEF InvokeStage
  <2> QED BY <2>1, <2>3, <2>4, <2>5, <2>6
<1>15. CASE CountVolumeAttachments(r)
  <2> USE <1>15 DEF CountVolumeAttachments, Answer
  <2>1. QuietBooks(r)
    OBVIOUS
  <2>3. CreateStage(r)'
    BY <2>1 DEF CreateStage, Mine, Serious, Unmade
  <2>4. DeleteStage(r)'
    BY <2>1 DEF DeleteStage, CreateStage, Mine, Serious
  <2>5. UpdateStage(r)'
    BY <2>1 DEF UpdateStage, Updating, Applied
  <2>6. InvokeStage(r)'
    BY <2>1 DEF InvokeStage
  <2> QED BY <2>1, <2>3, <2>4, <2>5, <2>6
<1>16. CASE Resolves(r)
  <2> USE <1>16 DEF Resolves, ResolveServiceNamespace, Answer
  <2>1. QuietBooks(r)
    OBVIOUS
  <2>3. CreateStage(r)'
    BY <2>1 DEF CreateStage, Mine, Serious, Unmade
  <2>4. DeleteStage(r)'
    BY <2>1 DEF DeleteStage, CreateStage, Mine, Serious
  <2>5. UpdateStage(r)'
    BY <2>1 DEF UpdateStage, Updating, Applied
  <2>6. InvokeStage(r)'
    BY <2>1 DEF InvokeStage
  <2> QED BY <2>1, <2>3, <2>4, <2>5, <2>6
<1>17. CASE ReadServiceConfigMap(r)
  <2> USE <1>17 DEF ReadServiceConfigMap, Answer
  <2>1. QuietBooks(r)
    OBVIOUS
  <2>2. /\ pc'[r] = "delWL" => cm[N(r)] # None /\ call'[r].def = cm[N(r)].def /\ call'[r].name = N(r)
        /\ pc'[r] \in {"delWL", "uSame", "done"}
    BY DEF CallType
  <2>3. CreateStage(r)'
    BY <2>1, <2>2 DEF CreateStage, Mine, Serious, Unmade
  <2>4. DeleteStage(r)'
    BY <2>1, <2>2 DEF DeleteStage, CreateStage, Mine, Serious
  <2>5. UpdateStage(r)'
    BY <2>1, <2>2 DEF UpdateStage, Updating, Applied
  <2>6. InvokeStage(r)'
    BY <2>1, <2>2 DEF InvokeStage
  <2> QED BY <2>1, <2>3, <2>4, <2>5, <2>6
<1>18. CASE AdmitsUpdate(r)
  <2> USE <1>18 DEF AdmitsUpdate, AdmitUpdate, UpdateReturnsError, Answer
  <2>1. QuietBooks(r)
    OBVIOUS
  <2>3. CreateStage(r)'
    BY <2>1 DEF CreateStage, Mine, Serious, Unmade
  <2>4. DeleteStage(r)'
    BY <2>1 DEF DeleteStage, CreateStage, Mine, Serious
  <2>5. UpdateStage(r)'
    BY <2>1 DEF UpdateStage, Updating, Applied
  <2>6. InvokeStage(r)'
    BY <2>1 DEF InvokeStage
  <2> QED BY <2>1, <2>3, <2>4, <2>5, <2>6
<1>19. CASE ImagePulled(r)
  <2> USE <1>19 DEF ImagePulled, UpdateReturnsOk, Answer
  <2>1. QuietBooks(r)
    OBVIOUS
  <2>3. CreateStage(r)'
    BY <2>1 DEF CreateStage, Mine, Serious, Unmade
  <2>4. DeleteStage(r)'
    BY <2>1 DEF DeleteStage, CreateStage, Mine, Serious
  <2>5. UpdateStage(r)'
    BY <2>1 DEF UpdateStage, Updating, Applied
  <2>6. InvokeStage(r)'
    BY <2>1 DEF InvokeStage
  <2> QED BY <2>1, <2>3, <2>4, <2>5, <2>6
<1> QED
  BY <1>1, <1>2, <1>3, <1>4, <1>5, <1>6, <1>7, <1>8, <1>9, <1>10, <1>11, <1>12, <1>13, <1>14, <1>15, <1>16, <1>17, <1>18,
     <1>19
  DEF PassingStep

\* Definitions with the same volume block make the same volume.
LEMMA SameMakes ==
  ASSUME NEW d \in Defs, NEW e \in Defs, SameVolumeConfig(d, e), NEW v
  PROVE  Makes(d, v) <=> Makes(e, v)
  BY DEF SameVolumeConfig, Makes, DropsVolume, CreatesManagedVolume, LifecyclePolicy

\* When the others rest, only r's own claim is condemned.
LEMMA CondemnedByR ==
  ASSUME TypeOK, NEW r \in Reqs, \A q \in Reqs \ {r} : pc[q] \in {"idle", "done"}, NEW v \in Volumes
  PROVE  Condemned(v) <=> pc[r] \in {"rollbackVol", "delJobs", "delVol"} /\ Makes(D(r), v)
  BY DEF Condemned

\* The update of a ConfigMap to a definition with the same volume block.
LEMMA RewriteKeeps ==
  ASSUME TypeOK, Claims, Work, NEW r \in Reqs, \A q \in Reqs \ {r} : pc[q] \in {"idle", "done"},
         pc[r] \notin {"rollbackVol", "delJobs", "delVol"},
         NEW n \in Names, cm[n] # None, NEW d \in Defs, cm' = [cm EXCEPT ![n] = Updated(@, d)],
         \A v \in Volumes : Makes(cm[n].def, v) => Makes(d, v),
         UNCHANGED <<pvc, jobs>>
  PROVE  Claims' /\ Work' /\ OwnClaims(r) /\ cm'[n] # None /\ cm'[n].def = d
<1>1. /\ cm'[n] \in ObjectType /\ cm'[n] # None /\ cm'[n].def = d /\ cm'[n].by = cm[n].by
      /\ \A m \in Names \ {n} : cm'[m] = cm[m]
  BY NoneAssumption DEF TypeOK, ObjectsOK, Updated, ObjectType
<1>2. ASSUME NEW v \in Volumes, Backed(v) PROVE Backed(v)'
  <2>1. PICK m \in Names : cm[m] # None /\ cm[m].by = pvc[v].by /\ Makes(cm[m].def, v)
    BY <1>2 DEF Backed
  <2>2. cm'[m] # None /\ cm'[m].by = pvc'[v].by /\ Makes(cm'[m].def, v)
    BY <1>1, <2>1
  <2> QED BY <2>2 DEF Backed
<1>3. Claims'
  BY <1>2, CondemnedByR DEF Claims
<1>4. Work'
  BY <1>1 DEF Work
<1> QED BY <1>1, <1>3, <1>4 DEF OwnClaims

\* The shared steps that write ConfigMaps, claims or jobs.
LEMMA WritingBooks ==
  ASSUME TypeOK, CallOK, Stages, Claims, Work, NEW r \in Reqs, Acts(r), ~Fault,
         \A q \in Reqs \ {r} : pc'[q] = pc[q] /\ pc[q] \in {"idle", "done"} /\ call'[q] = call[q],
         \/ CreateServiceConfigMap(r) \/ RollbackVolume(r) \/ DeleteServiceConfigMap(r)
         \/ DeleteServiceJobs(r) \/ DeleteServiceVolume(r) \/ UpdateServiceConfigMap(r)
         \/ RestoreOldConfigMap(r) \/ InvokeCreate(r) \/ CreateVolume(r) \/ DeleteVolume(r)
         \/ EnsuresVolume(r) \/ RollsBack(r)
  PROVE  OwnClaims(r) /\ Stage(r)' /\ Claims' /\ Work'
<1> USE DEF TypeOK, ObjectsOK, ControlOK, Goto, Fails, budget, N, D
<1>a. Stage(r)
  BY DEF Stages
<1>b. \A v \in Volumes : Condemned(v) <=> pc[r] \in {"rollbackVol", "delJobs", "delVol"} /\ Makes(D(r), v)
  BY CondemnedByR
<1>1. CASE CreateServiceConfigMap(r)
  <2> USE <1>1 DEF CreateServiceConfigMap
  <2>1. N(r) \in Names /\ D(r) \in Defs
    BY DEF CallOK
  <2>2. CASE cm[N(r)] = None
    <3>1. /\ cm'[N(r)] # None /\ cm'[N(r)].by = r /\ cm'[N(r)].def = D(r) /\ pc'[r] = "ensureVol"
          /\ \A m \in Names \ {N(r)} : cm'[m] = cm[m]
          /\ UNCHANGED <<pvc, jobs, call>>
      BY <2>1, <2>2, NewObjectTypes, NoneAssumption DEF NewObject, ObjectType
    <3>2. jobs[N(r)] = {}
      BY <2>1, <2>2 DEF Work
    <3>3. Stage(r)'
      BY <3>1, <3>2, <1>a DEF Stage, CreateStage, Mine, Unmade, DeleteStage, UpdateStage, Updating, InvokeStage
    <3>4. ASSUME NEW v \in Volumes, Backed(v) PROVE Backed(v)'
      BY <3>1, <3>4, <2>2 DEF Backed
    <3>5. Claims'
      BY <3>1, <3>4, <1>b DEF Claims
    <3>6. Work'
      BY <3>1 DEF Work
    <3> QED BY <3>1, <3>3, <3>5, <3>6 DEF OwnClaims
  <2>3. CASE cm[N(r)] # None
    <3>1. UNCHANGED <<cm, pvc, jobs, call>> /\ pc'[r] = "createFailed" /\ err'[r] = "exists"
      BY <2>3
    <3>2. Stage(r)'
      BY <3>1 DEF Stage, CreateStage, Serious, Unmade, DeleteStage, UpdateStage, Updating, InvokeStage
    <3> QED BY <3>1, <3>2, QuietKeeps DEF QuietBooks
  <2> QED BY <2>2, <2>3
<1>2. CASE RollbackVolume(r) \/ DeleteServiceVolume(r)
  <2> USE <1>2 DEF RollbackVolume, DeleteServiceVolume, RemoveServiceVolume
  <2>1. N(r) \in Names /\ D(r) \in Defs
    BY DEF CallOK
  <2>2. /\ UNCHANGED <<cm, jobs, call, err>>
        /\ pc[r] \in {"rollbackVol", "delVol"} /\ pc'[r] \in {"createFailed", "delSecret"}
        /\ DropsVolume(D(r)) => pvc' = [pvc EXCEPT ![D(r).vname] = None]
        /\ ~DropsVolume(D(r)) => pvc' = pvc
    OBVIOUS
  <2>3. OwnClaims(r)
    BY <2>2 DEF OwnClaims
  <2>4. Stage(r)'
    BY <2>2, <1>a DEF Stage, CreateStage, Mine, Unmade, DeleteStage, UpdateStage, Updating, InvokeStage
  <2>5. ASSUME NEW v \in Volumes, pvc'[v] # None PROVE pvc'[v] = pvc[v] /\ ~Condemned(v)
    BY <2>1, <2>2, <2>5, <1>b, DefsAssumption DEF Makes, DefType
  <2>6. ASSUME NEW v \in Volumes, Backed(v), pvc'[v] # None PROVE Backed(v)'
    BY <2>2, <2>5, <2>6 DEF Backed
  <2>7. Claims'
    BY <2>5, <2>6 DEF Claims
  <2>8. Work'
    BY <2>2 DEF Work
  <2> QED BY <2>3, <2>4, <2>7, <2>8
<1>3. CASE DeleteServiceConfigMap(r)
  <2> USE <1>3 DEF DeleteServiceConfigMap
  <2>1. N(r) \in Names /\ D(r) \in Defs
    BY DEF CallOK
  <2>2. /\ UNCHANGED <<pvc, jobs, call, err>> /\ pc[r] = "delCM" /\ pc'[r] = "delJobs"
        /\ cm' = [cm EXCEPT ![N(r)] = None]
    OBVIOUS
  <2>3. Stage(r)'
    BY <2>1, <2>2 DEF Stage, CreateStage, Unmade, DeleteStage, UpdateStage, Updating, InvokeStage
  <2>4. ASSUME NEW v \in Volumes, Backed(v) PROVE Backed(v)' \/ Condemned(v)'
    <3>1. PICK m \in Names : cm[m] # None /\ cm[m].by = pvc[v].by /\ Makes(cm[m].def, v)
      BY <2>4 DEF Backed
    <3>2. CASE m = N(r)
      BY <2>2, <3>1, <3>2, <1>a DEF Condemned, Stage, DeleteStage
    <3>3. CASE m # N(r)
      BY <2>2, <3>1, <3>3 DEF Backed
    <3> QED BY <3>2, <3>3
  <2>5. Claims'
    BY <2>2, <2>4, <1>b DEF Claims
  <2>6. Work'
    BY <2>1, <2>2 DEF Work
  <2> QED BY <2>2, <2>3, <2>5, <2>6 DEF OwnClaims
<1>4. CASE DeleteServiceJobs(r)
  <2> USE <1>4 DEF DeleteServiceJobs
  <2>1. N(r) \in Names /\ D(r) \in Defs
    BY DEF CallOK
  <2>2. /\ UNCHANGED <<cm, pvc, call, err>> /\ pc[r] = "delJobs" /\ pc'[r] = "delVol"
        /\ jobs' = [jobs EXCEPT ![N(r)] = {}]
    OBVIOUS
  <2>3. Stage(r)'
    BY <2>1, <2>2, <1>a DEF Stage, CreateStage, Unmade, DeleteStage, UpdateStage, Updating, InvokeStage
  <2>4. ASSUME NEW v \in Volumes PROVE (Backed(v) => Backed(v)') /\ (Condemned(v) => Condemned(v)')
    BY <2>2, <1>b DEF Backed, Condemned
  <2>5. Claims'
    BY <2>2, <2>4 DEF Claims
  <2>6. Work'
    BY <2>1, <2>2 DEF Work
  <2> QED BY <2>2, <2>3, <2>5, <2>6 DEF OwnClaims
<1>5. CASE UpdateServiceConfigMap(r)
  <2> USE <1>5 DEF UpdateServiceConfigMap
  <2>1. /\ N(r) \in Names /\ D(r) \in Defs /\ prior[r] \in Defs /\ Applied(r) \in {prior[r], D(r)}
        /\ cm[N(r)] # None /\ cm[N(r)].def \in {prior[r], D(r)} /\ SameVolumeConfig(prior[r], D(r))
        /\ snap[r].cm.def \in {prior[r], D(r)}
    BY <1>a DEF CallOK, Applied, Stage, UpdateStage, Updating
  <2>2. /\ cm' = [cm EXCEPT ![N(r)] = Updated(@, Applied(r))]
        /\ UNCHANGED <<pvc, jobs, call, err, prior, snap, undo>> /\ pc[r] = "uCM" /\ pc'[r] = "uWL"
    BY <2>1
  <2>3. \A v \in Volumes : Makes(cm[N(r)].def, v) => Makes(Applied(r), v)
    BY <2>1, SameMakes
  <2>4. Claims' /\ Work' /\ OwnClaims(r) /\ cm'[N(r)] # None /\ cm'[N(r)].def = Applied(r)
    <3>1. Applied(r) \in Defs
      BY <2>1
    <3> QED BY <2>1, <2>2, <2>3, <3>1, RewriteKeeps
  <2>5. Stage(r)'
    BY <2>1, <2>2, <2>4 DEF Stage, CreateStage, Unmade, DeleteStage, UpdateStage, Updating, InvokeStage, Applied
  <2> QED BY <2>4, <2>5
<1>6. CASE RestoreOldConfigMap(r)
  <2> USE <1>6 DEF RestoreOldConfigMap, UpdateReturnsError, Answer
  <2>1. /\ N(r) \in Names /\ D(r) \in Defs /\ prior[r] \in Defs
        /\ cm[N(r)] # None /\ cm[N(r)].def \in {prior[r], D(r)} /\ SameVolumeConfig(prior[r], D(r))
        /\ snap[r].cm.def \in {prior[r], D(r)}
    BY <1>a DEF CallOK, Stage, UpdateStage, Updating
  <2>2. /\ UNCHANGED <<pvc, jobs, call, err, prior, snap>> /\ pc[r] = "uRestore" /\ pc'[r] \in {"uAdmit", "done"}
        /\ pc'[r] = "uAdmit" => undo'[r]
    OBVIOUS
  <2>3. CASE cm' = cm
    <3>1. Claims' /\ Work' /\ OwnClaims(r)
      BY <2>2, <2>3, QuietKeeps DEF QuietBooks
    <3>2. Stage(r)'
      BY <2>1, <2>2, <2>3 DEF Stage, CreateStage, Unmade, DeleteStage, UpdateStage, Updating, InvokeStage
    <3> QED BY <3>1, <3>2
  <2>4. CASE cm' = [cm EXCEPT ![N(r)] = Updated(@, snap[r].cm.def)]
    <3>1. \A v \in Volumes : Makes(cm[N(r)].def, v) => Makes(snap[r].cm.def, v)
      BY <2>1, SameMakes
    <3>2. Claims' /\ Work' /\ OwnClaims(r) /\ cm'[N(r)] # None /\ cm'[N(r)].def = snap[r].cm.def
      BY <2>1, <2>2, <2>4, <3>1, RewriteKeeps
    <3>3. Stage(r)'
      BY <2>1, <2>2, <3>2 DEF Stage, CreateStage, Unmade, DeleteStage, UpdateStage, Updating, InvokeStage
    <3> QED BY <3>2, <3>3
  <2> QED BY <2>3, <2>4
<1>7. CASE InvokeCreate(r)
  <2> USE <1>7 DEF InvokeCreate, Answer
  <2>1. N(r) \in Names /\ cm[N(r)] # None
    BY <1>a DEF CallOK, Stage, InvokeStage
  <2>2. /\ UNCHANGED <<cm, pvc, call>> /\ pc[r] = "invCreate" /\ pc'[r] = "done"
        /\ jobs' = [jobs EXCEPT ![N(r)] = @ \cup {r}]
    OBVIOUS
  <2>3. Stage(r)'
    BY <2>2 DEF Stage, CreateStage, Unmade, DeleteStage, UpdateStage, Updating, InvokeStage
  <2>4. ASSUME NEW v \in Volumes, Backed(v) PROVE Backed(v)'
    BY <2>2, <2>4 DEF Backed
  <2>5. Claims'
    BY <2>2, <2>4, <1>b DEF Claims
  <2>6. Work'
    BY <2>1, <2>2 DEF Work
  <2> QED BY <2>2, <2>3, <2>5, <2>6 DEF OwnClaims
<1>8. CASE CreateVolume(r) \/ DeleteVolume(r)
  <2> USE <1>8 DEF CreateVolume, DeleteVolume, Answer
  <2>1. V(r) \in Volumes
    BY DEF CallOK
  <2>2. /\ UNCHANGED <<cm, jobs, call>> /\ pc[r] \in {"vCreate", "vDelete"} /\ pc'[r] = "done"
        /\ \/ pvc' = pvc
           \/ pvc' = [pvc EXCEPT ![V(r)] = ApiClaim(r)]
           \/ pvc' = [pvc EXCEPT ![V(r)] = None]
    OBVIOUS
  <2>3. \A v \in Volumes : pvc'[v] # None => pvc'[v] = pvc[v] \/ (pvc'[v].by = r /\ pvc'[v].mode = "api")
    BY <2>1, <2>2, ApiClaimTypes
  <2>4. Stage(r)'
    BY <2>2 DEF Stage, CreateStage, Unmade, DeleteStage, UpdateStage, Updating, InvokeStage
  <2>5. ASSUME NEW v \in Volumes, Backed(v), pvc'[v] = pvc[v] PROVE Backed(v)'
    BY <2>2, <2>5 DEF Backed
  <2>6. Claims'
    BY <2>2, <2>3, <2>5, <1>b DEF Claims
  <2>7. Work'
    BY <2>2 DEF Work
  <2> QED BY <2>3, <2>4, <2>6, <2>7 DEF OwnClaims
<1>9. CASE EnsuresVolume(r)
  <2> USE <1>9 DEF EnsuresVolume, EnsureServiceVolume
  <2>1. N(r) \in Names /\ D(r) \in Defs /\ Mine(r) /\ jobs[N(r)] = {}
    BY <1>a DEF CallOK, Stage, CreateStage
  <2>2. UNCHANGED <<cm, jobs, call>> /\ pc[r] = "ensureVol"
    OBVIOUS
  <2>3. CASE pvc' = pvc
    <3>1. pc'[r] \in {"createWL", "exposeNew", "rollbackCM", "undoCM"}
      OBVIOUS
    <3>2. Stage(r)'
      BY <2>1, <2>2, <2>3, <3>1, <1>a
      DEF Stage, CreateStage, Mine, Unmade, DeleteStage, UpdateStage, Updating, InvokeStage
    <3> QED BY <2>2, <2>3, <3>2, QuietKeeps DEF QuietBooks
  <2>4. CASE /\ CreatesManagedVolume(D(r)) /\ pc'[r] \in {"createWL", "exposeNew"}
             /\ pvc' = [pvc EXCEPT ![D(r).vname] =
                          [mode |-> "service", by |-> r, policy |-> LifecyclePolicy(D(r))]]
    <3>1. /\ \A v \in Volumes \ {D(r).vname} : pvc'[v] = pvc[v]
          /\ pvc'[D(r).vname].by = r /\ pvc'[D(r).vname].policy = LifecyclePolicy(D(r))
      BY <2>1, <2>4, DefsAssumption DEF DefType
    <3>2. Stage(r)'
      BY <2>1, <2>2, <2>4 DEF Stage, CreateStage, Mine, Unmade, DeleteStage, UpdateStage, Updating, InvokeStage
    <3>3. ASSUME NEW v \in Volumes, v # D(r).vname, Backed(v) PROVE Backed(v)'
      BY <2>2, <3>1, <3>3 DEF Backed
    <3>4. LifecyclePolicy(D(r)) = "delete" => Backed(D(r).vname)'
      <4>1. LifecyclePolicy(D(r)) = "delete" => Makes(D(r), D(r).vname)
        BY <2>4 DEF Makes, DropsVolume
      <4>2. cm'[N(r)] # None /\ cm'[N(r)].by = r /\ cm'[N(r)].def = D(r)
        BY <2>1, <2>2 DEF Mine
      <4>3. cm'[N(r)].by = pvc'[D(r).vname].by
        BY <3>1, <4>2
      <4>4. Makes(D(r), D(r).vname) =>
              \E n \in Names : cm'[n] # None /\ cm'[n].by = pvc'[D(r).vname].by /\ Makes(cm'[n].def, D(r).vname)
        BY <2>1, <4>2, <4>3, Zenon
      <4>5. D(r)' = D(r)
        BY <2>2 DEF D
      <4>6. Makes(D(r), D(r).vname) => Backed(D(r).vname)'
        BY <4>4, <4>5 DEF Backed, Makes
      <4> QED BY <4>1, <4>6
    <3>5. Claims'
      BY <2>2, <3>1, <3>3, <3>4, <1>b DEF Claims
    <3>6. Work'
      BY <2>2 DEF Work
    <3>7. OwnClaims(r)
      BY <3>1 DEF OwnClaims
    <3> QED BY <3>2, <3>5, <3>6, <3>7
  <2> QED BY <2>3, <2>4
<1>10. CASE RollsBack(r)
  <2> USE <1>10 DEF RollsBack, RollbackConfigMap
  <2>1. N(r) \in Names /\ D(r) \in Defs /\ Mine(r) /\ jobs[N(r)] = {}
    BY <1>a DEF CallOK, Stage, CreateStage
  <2>2. /\ UNCHANGED <<pvc, jobs, call, err>> /\ cm' = [cm EXCEPT ![N(r)] = None]
        /\ \/ pc[r] = "rollbackCM" /\ pc'[r] = "rollbackVol"
           \/ pc[r] = "undoCM" /\ pc'[r] = "createFailed"
    OBVIOUS
  <2>3. Stage(r)'
    BY <2>1, <2>2 DEF Stage, CreateStage, Unmade, DeleteStage, UpdateStage, Updating, InvokeStage
  <2>4. ASSUME NEW v \in Volumes, pvc[v] # None, Backed(v) PROVE Backed(v)' \/ Condemned(v)'
    <3>1. PICK m \in Names : cm[m] # None /\ cm[m].by = pvc[v].by /\ Makes(cm[m].def, v)
      BY <2>4 DEF Backed
    <3>2. CASE m = N(r) /\ pc[r] = "rollbackCM"
      BY <2>1, <2>2, <3>1, <3>2 DEF Condemned, Mine
    <3>3. CASE m = N(r) /\ pc[r] = "undoCM"
      BY <2>1, <2>4, <3>1, <3>3, <1>a DEF Mine, Stage, CreateStage, Unmade
    <3>4. CASE m # N(r)
      BY <2>2, <3>1, <3>4 DEF Backed
    <3> QED BY <2>2, <3>2, <3>3, <3>4
  <2>5. Claims'
    BY <2>2, <2>4, <1>b DEF Claims
  <2>6. Work'
    BY <2>1, <2>2 DEF Work
  <2> QED BY <2>2, <2>3, <2>5, <2>6 DEF OwnClaims
<1> QED BY <1>1, <1>2, <1>3, <1>4, <1>5, <1>6, <1>7, <1>8, <1>9, <1>10

\* No image is refused when all of them are allowed.
LEMMA UnrestrictedIsAdmissible ==
  ASSUME CallOK, Unrestricted, NEW r \in Reqs
  PROVE  Admissible(r)
  BY DEF CallOK, Unrestricted, Admissible

\* A shared step keeps the books.
LEMMA CommonBooks ==
  ASSUME TypeOK, CallOK, Alone, Books, NEW r \in Reqs, Admissible(r), CommonStep(r)
  PROVE  Books'
<1>1. Acts(r) /\ faults' >= faults /\ crashes' = crashes
  BY CommonActs
<1> SUFFICES ASSUME Unspoilt' PROVE (Stages /\ Claims /\ Work)'
  BY DEF Books
<1>2. Unspoilt /\ ~Fault
  BY <1>1 DEF Unspoilt, Fault, TypeOK
<1>3. Stages /\ Claims /\ Work
  BY <1>2 DEF Books
<1>4. \A q \in Reqs \ {r} : pc'[q] = pc[q] /\ pc[q] \in {"idle", "done"} /\ call'[q] = call[q]
  BY <1>1, OthersRest
<1>5. OwnClaims(r) /\ Stage(r)' /\ Claims' /\ Work'
  <2>1. CASE PassingStep(r)
    BY <1>1, <1>2, <1>3, <2>1, PassingStages, QuietKeeps DEF Stages
  <2>2. CASE ~PassingStep(r)
    BY <1>1, <1>2, <1>3, <1>4, <2>2, WritingBooks DEF CommonStep, SharedStep, PassingStep
  <2> QED BY <2>1, <2>2
<1>6. Stages'
  BY <1>1, <1>3, <1>5, RestStages DEF Stages
<1> QED BY <1>5, <1>6

\* At first the books are empty.
LEMMA InitBooks == ASSUME Init PROVE Books /\ Alone /\ Unattached
<1>1. \A r \in Reqs : Stage(r)
  BY DEF Init, Stage, CreateStage, DeleteStage, UpdateStage, InvokeStage, Updating
<1>2. Claims /\ Work
  BY DEF Init, Claims, Work
<1> QED BY <1>1, <1>2 DEF Init, Books, Stages, Alone, InFlight, Unattached

\* A request that arrives has not done anything yet.
LEMMA ArrivesBooks ==
  ASSUME TypeOK, Books, NEW r \in Reqs, Arrives(r)
  PROVE  Books'
<1> SUFFICES ASSUME Unspoilt' PROVE (Stages /\ Claims /\ Work)'
  BY DEF Books
<1>1. /\ UNCHANGED <<cm, pvc, jobs, undo, prior, snap, err, budget>>
      /\ pc[r] = "idle"
      /\ pc'[r] \in {"secret", "resolve", "readWL", "readCM", "invRead", "vCreate", "vCount"}
      /\ \A q \in Reqs \ {r} : pc'[q] = pc[q] /\ call'[q] = call[q]
  BY DEF Arrives, StartCreate, StartUpdate, StartDelete, StartInvoke, StartCreateVolume,
         StartDeleteVolume, Start, Goto, TypeOK, ControlOK, objects
<1>2. Stages /\ Claims /\ Work
  BY <1>1 DEF Books, Unspoilt, budget
<1>3. ASSUME NEW q \in Reqs, q # r PROVE Stage(q)'
  BY <1>1, <1>2, <1>3 DEF Stages, Stage, CreateStage, DeleteStage, UpdateStage, InvokeStage,
                          Mine, Serious, Unmade, Updating, Applied, N, D
<1>4. Stage(r)'
  BY <1>1, <1>2 DEF Stages, Stage, CreateStage, DeleteStage, UpdateStage, InvokeStage, Unmade, Updating
<1>5. Claims'
  <2>1. ASSUME NEW v \in Volumes PROVE (Backed(v) => Backed(v)') /\ (Condemned(v) => Condemned(v)')
    BY <1>1 DEF Backed, Condemned, D
  <2> QED BY <1>1, <1>2, <2>1 DEF Claims
<1>6. Work'
  BY <1>1, <1>2 DEF Work, N
<1> QED BY <1>3, <1>4, <1>5, <1>6 DEF Stages

\* A crash leaves no request in progress, and the books are closed.
LEMMA CrashBooks ==
  ASSUME TypeOK, Crash
  PROVE  Books' /\ Alone' /\ Unattached'
<1>1. Alone' /\ Unattached'
  BY DEF Crash, Alone, InFlight, Unattached, TypeOK, ControlOK
<1>2. ~Unspoilt'
  BY DEF Crash, Unspoilt, TypeOK
<1> QED BY <1>1, <1>2 DEF Books

\* A step that changes nothing.
LEMMA StutterBooks ==
  ASSUME UNCHANGED vars
  PROVE  (Books <=> Books') /\ (Alone <=> Alone') /\ (Unattached <=> Unattached')
<1> USE DEF vars
<1>1. Stages <=> Stages'
  BY DEF Stages, Stage, CreateStage, DeleteStage, UpdateStage, InvokeStage, Mine, Serious, Applied, N, D
<1>2. Claims <=> Claims'
  <2>1. ASSUME NEW v \in Volumes PROVE (Backed(v) <=> Backed(v)') /\ (Condemned(v) <=> Condemned(v)')
    BY DEF Backed, Condemned, D
  <2> QED BY <2>1 DEF Claims
<1>3. Work <=> Work'
  BY DEF Work, N
<1>4. Unattached <=> Unattached'
  BY DEF Unattached, Attachments, V
<1> QED BY <1>1, <1>2, <1>3, <1>4 DEF Books, Unspoilt, Alone, InFlight

\* The attachments of a volume are counted right before it is deleted: a shared step
\* of a request that is alone keeps them counted.
LEMMA CommonUnattached ==
  ASSUME TypeOK, Alone, NEW r \in Reqs, CommonStep(r)
  PROVE  Unattached'
<1> USE DEF TypeOK, ControlOK, Goto, Answer, Fails, Fault, budget, objects
<1>1. \A q \in Reqs \ {r} : pc'[q] # "vDelete"
  BY CommonActs, OthersRest
<1>2. CASE CountVolumeAttachments(r)
  BY <1>1, <1>2 DEF CountVolumeAttachments, Unattached, Attachments, V
<1>3. CASE ~CountVolumeAttachments(r)
  <2>1. CASE CreateServiceSecret(r) \/ AdmitImage(r) \/ CreateServiceConfigMap(r) \/ RollbackVolume(r)
             \/ PrefetchImage(r) \/ CreateFailed(r) \/ CreateMinIO(r)
    BY <1>1, <2>1 DEF CreateServiceSecret, AdmitImage, CreateServiceConfigMap, RollbackVolume,
                PrefetchImage, CreateFailed, CreateMinIO, Unattached
  <2>2. CASE DeleteServiceConfigMap(r) \/ DeleteServiceJobs(r) \/ DeleteServiceVolume(r)
             \/ DeleteServiceSecret(r) \/ DeleteServiceExpose(r) \/ DeleteServiceReturns(r)
    BY <1>1, <2>2 DEF DeleteServiceConfigMap, DeleteServiceJobs, DeleteServiceVolume,
                DeleteServiceSecret, DeleteServiceExpose, DeleteServiceReturns, Unattached
  <2>3. CASE CheckSameVolume(r) \/ UpdateMinIO(r) \/ UpdateServiceSecret(r) \/ ReadOldConfigMap(r)
    BY <1>1, <2>3 DEF CheckSameVolume, UpdateMinIO, UpdateServiceSecret, ReadOldConfigMap,
                UpdateReturnsError, Unattached
  <2>4. CASE UpdateServiceConfigMap(r) \/ RestoreOldConfigMap(r) \/ UpdateServiceExpose(r)
    BY <1>1, <2>4 DEF UpdateServiceConfigMap, RestoreOldConfigMap, UpdateServiceExpose,
                UpdateReturnsError, UpdateReturnsOk, Unattached
  <2>5. CASE InvokeRead(r) \/ InvokeCreate(r) \/ CreateVolume(r) \/ DeleteVolume(r)
    BY <1>1, <2>5 DEF InvokeRead, InvokeCreate, CreateVolume, DeleteVolume, Unattached
  <2>6. CASE EnsuresVolume(r) \/ RollsBack(r) \/ Resolves(r) \/ ReadServiceConfigMap(r) \/ AdmitsUpdate(r)
             \/ ImagePulled(r)
    BY <1>1, <2>6 DEF EnsuresVolume, EnsureServiceVolume, RollsBack, RollbackConfigMap, Resolves,
                ResolveServiceNamespace, ReadServiceConfigMap, AdmitsUpdate, AdmitUpdate,
                UpdateReturnsError, UpdateReturnsOk, ImagePulled, Unattached
  <2> QED BY <1>3, <2>1, <2>2, <2>3, <2>4, <2>5, <2>6 DEF CommonStep, SharedStep
<1> QED BY <1>2, <1>3
-----------------------------------------------------------------------------

\* Each request is at the labels of the handler that it asked for.
Asked(r) ==
    /\ pc[r] \in Updating => call[r].op = "update"
    /\ pc[r] \in {"invRead", "invCreate"} => call[r].op = "invoke"
    /\ pc[r] = "vCreate" => call[r].op = "mkvol"
    /\ pc[r] \in {"vCount", "vDelete"} => call[r].op = "rmvol"
    /\ pc[r] \in {"resolve", "readWL", "readCM"} => call[r].op \in {"update", "delete"}
    /\ pc[r] \in {"delWL", "delCM", "delJobs", "delVol", "delSecret", "delExpose", "dEnd"}
          => call[r].op \in {"create", "delete"}
    /\ pc[r] \in {"secret", "admit", "createCM", "ensureVol", "createWL", "exposeNew", "prefetch", "pulling",
                  "minio", "rollbackCM", "rollbackVol", "undoCM", "createFailed"} => call[r].op = "create"
AllAsked == \A r \in Reqs : Asked(r)

\* A step of one request leaves what the others asked for alone.
LEMMA ActsAsked ==
  ASSUME AllAsked, NEW r \in Reqs, Acts(r), Asked(r)'
  PROVE  AllAsked'
  BY DEF AllAsked, Asked, Acts

\* The handlers of the shared steps go through their own labels.
LEMMA CommonAsked ==
  ASSUME TypeOK, AllAsked, NEW r \in Reqs, CommonStep(r)
  PROVE  AllAsked'
<1> USE DEF TypeOK, ControlOK, CallType, Goto, Answer, Fails, Fault, budget, objects, Updating
<1>1. Acts(r)
  BY CommonActs
<1>2. Asked(r)
  BY DEF AllAsked
<1> SUFFICES Asked(r)'
  BY <1>1, ActsAsked
<1>3. CASE CreateServiceSecret(r) \/ AdmitImage(r) \/ CreateServiceConfigMap(r) \/ RollbackVolume(r)
           \/ PrefetchImage(r) \/ CreateFailed(r) \/ CreateMinIO(r)
  BY <1>2, <1>3 DEF CreateServiceSecret, AdmitImage, CreateServiceConfigMap, RollbackVolume,
              PrefetchImage, CreateFailed, CreateMinIO, Asked
<1>4. CASE DeleteServiceConfigMap(r) \/ DeleteServiceJobs(r) \/ DeleteServiceVolume(r)
           \/ DeleteServiceSecret(r) \/ DeleteServiceExpose(r) \/ DeleteServiceReturns(r)
  BY <1>2, <1>4 DEF DeleteServiceConfigMap, DeleteServiceJobs, DeleteServiceVolume,
              DeleteServiceSecret, DeleteServiceExpose, DeleteServiceReturns, Asked
<1>5. CASE CheckSameVolume(r) \/ UpdateMinIO(r) \/ UpdateServiceSecret(r) \/ ReadOldConfigMap(r)
  BY <1>2, <1>5 DEF CheckSameVolume, UpdateMinIO, UpdateServiceSecret, ReadOldConfigMap, UpdateReturnsError, Asked
<1>6. CASE UpdateServiceConfigMap(r) \/ RestoreOldConfigMap(r) \/ UpdateServiceExpose(r)
  BY <1>2, <1>6 DEF UpdateServiceConfigMap, RestoreOldConfigMap, UpdateServiceExpose,
              UpdateReturnsError, UpdateReturnsOk, Asked
<1>7. CASE InvokeRead(r) \/ InvokeCreate(r) \/ CreateVolume(r) \/ CountVolumeAttachments(r) \/ DeleteVolume(r)
  BY <1>2, <1>7 DEF InvokeRead, InvokeCreate, CreateVolume, CountVolumeAttachments, DeleteVolume, Asked
<1>8. CASE EnsuresVolume(r) \/ RollsBack(r) \/ Resolves(r) \/ AdmitsUpdate(r)
  BY <1>2, <1>8 DEF EnsuresVolume, EnsureServiceVolume, RollsBack, RollbackConfigMap, Resolves,
              ResolveServiceNamespace, AdmitsUpdate, AdmitUpdate, UpdateReturnsError, Asked
<1>9. CASE ReadServiceConfigMap(r) \/ ImagePulled(r)
  BY <1>2, <1>9 DEF ReadServiceConfigMap, ImagePulled, UpdateReturnsOk, Asked
<1> QED BY <1>3, <1>4, <1>5, <1>6, <1>7, <1>8, <1>9 DEF CommonStep, SharedStep

\* So do requests that arrive.
LEMMA ArrivesAsked ==
  ASSUME TypeOK, AllAsked, NEW r \in Reqs, Arrives(r)
  PROVE  AllAsked'
<1>1. /\ pc[r] = "idle" /\ Asked(r)'
      /\ \A q \in Reqs \ {r} : pc'[q] = pc[q] /\ call'[q] = call[q]
  BY DEF Arrives, StartCreate, StartUpdate, StartDelete, StartInvoke, StartCreateVolume,
         StartDeleteVolume, Start, Goto, TypeOK, ControlOK, Asked, Updating
<1> QED BY <1>1 DEF AllAsked, Asked

\* At the start, after a crash and when nothing changes.
LEMMA OtherAsked ==
  /\ Init => AllAsked
  /\ TypeOK /\ Crash => AllAsked'
  /\ UNCHANGED vars => (AllAsked <=> AllAsked')
<1>1. Init => AllAsked
  BY DEF Init, AllAsked, Asked, Updating
<1>2. TypeOK /\ Crash => AllAsked'
  BY DEF Crash, AllAsked, Asked, Updating, TypeOK, ControlOK
<1>3. UNCHANGED vars => (AllAsked <=> AllAsked')
  BY DEF vars, AllAsked, Asked
<1> QED BY <1>1, <1>2, <1>3

=============================================================================
