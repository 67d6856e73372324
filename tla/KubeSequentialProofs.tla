------------------------- MODULE KubeSequentialProofs -------------------------
(***************************************************************************)
(* KubeBackend when requests do not overlap: what KubeSequential checks on *)
(* small instances, for any names, volumes, requests and definitions.      *)
(***************************************************************************)
EXTENDS KubeBackendProofs

-----------------------------------------------------------------------------
(* Requests that do not overlap. *)

\* While request r is updating, what its PodTemplate was made from.
TemplateStage(r) ==
    /\ pc[r] = "readCM" => wl[N(r)] # None
    /\ pc[r] \in Updating => wl[N(r)] # None /\ prior[r].podSpec
    /\ pc[r] \in Updating \ {"uExpose", "uPull"} /\ ~undo[r] => wl[N(r)].def = prior[r]
    /\ pc[r] \in {"uExpose", "uPull"} => wl[N(r)].def = Applied(r)
    /\ pc[r] = "uRestore" => ~undo[r]

\* A PodTemplate could be made, and agrees with the ConfigMap unless an update is on.
Agrees(n) ==
    wl[n] # None =>
        /\ wl[n].def.podSpec
        /\ wl[n].def = cm[n].def \/ \E r \in Reqs : pc[r] \in Updating /\ N(r) = n

Agreement == Unspoilt => (\A n \in Names : Agrees(n)) /\ (\A r \in Reqs : TemplateStage(r))

\* Once CreateService has made both objects of a service they are its own.
Made(r) ==
    pc[r] \in {"exposeNew", "prefetch", "pulling", "minio"} =>
        /\ cm[N(r)] # None /\ cm[N(r)].by = r
        /\ wl[N(r)] # None /\ wl[N(r)].by = r
AllMade == \A r \in Reqs : Made(r)

\* The steps of KubeBackend alone: each belongs to one request and leaves the
\* ConfigMaps, claims and jobs alone.
TemplateStep(r) ==
    \/ CreatePodTemplate(r) \/ ExposeService(r) \/ ReadPodTemplate(r)
    \/ UpdatePodTemplate(r) \/ DeletePodTemplate(r)

\* A call on the PodTemplate moves its own request only, and counts the fault if it fails.
LEMMA TemplateActs ==
  ASSUME TypeOK, NEW r \in Reqs, TemplateStep(r)
  PROVE  /\ Acts(r) /\ QuietBooks(r) /\ faults' >= faults /\ crashes' = crashes
         /\ pc'[r] # "vDelete" /\ UNCHANGED call
<1> USE DEF TypeOK, ControlOK, Acts, Goto, Answer, Fails, Fault, budget, objects, QuietBooks
<1>1. CASE CreatePodTemplate(r)
  BY <1>1 DEF CreatePodTemplate
<1>2. CASE ExposeService(r)
  BY <1>2 DEF ExposeService
<1>3. CASE ReadPodTemplate(r)
  BY <1>3 DEF ReadPodTemplate
<1>4. CASE UpdatePodTemplate(r)
  BY <1>4 DEF UpdatePodTemplate
<1>5. CASE DeletePodTemplate(r)
  BY <1>5 DEF DeletePodTemplate
<1> QED BY <1>1, <1>2, <1>3, <1>4, <1>5 DEF TemplateStep

\* They bring their request from one stage to another: the PodTemplate that
\* CreateService is to make is not there, and a service without an error is exposed.
LEMMA TemplateStages ==
  ASSUME TypeOK, CallOK, Ownership, NEW r \in Reqs, Stage(r), TemplateStep(r), ~Fault
  PROVE  Stage(r)'
<1> USE DEF TypeOK, ControlOK, Goto, Fails, budget, objects, Stage, N, D
<1>1. CASE CreatePodTemplate(r)
  <2> USE <1>1 DEF CreatePodTemplate
  <2>3. CreateStage(r)'
    BY DEF CreateStage, Mine, Serious, Unmade
  <2>4. DeleteStage(r)'
    BY DEF DeleteStage
  <2>5. UpdateStage(r)'
    BY DEF UpdateStage, Updating, Applied
  <2> QED BY <2>3, <2>4, <2>5 DEF InvokeStage
<1>2. CASE ExposeService(r)
  <2> USE <1>2 DEF ExposeService
  <2>3. CreateStage(r)'
    BY DEF CreateStage, Mine, Serious, Unmade
  <2>4. DeleteStage(r)'
    BY DEF DeleteStage
  <2>5. UpdateStage(r)'
    BY DEF UpdateStage, Updating, Applied
  <2> QED BY <2>3, <2>4, <2>5 DEF InvokeStage
<1>3. CASE ReadPodTemplate(r)
  <2> USE <1>3 DEF ReadPodTemplate, Answer
  <2>3. CreateStage(r)'
    BY DEF CreateStage, Mine, Serious, Unmade
  <2>4. DeleteStage(r)'
    BY DEF DeleteStage
  <2>5. UpdateStage(r)'
    BY DEF UpdateStage, Updating, Applied
  <2> QED BY <2>3, <2>4, <2>5 DEF InvokeStage
<1>4. CASE UpdatePodTemplate(r)
  <2> USE <1>4 DEF UpdatePodTemplate
  <2>3. CreateStage(r)'
    BY DEF CreateStage, Mine, Serious, Unmade
  <2>4. DeleteStage(r)'
    BY DEF DeleteStage
  <2>5. UpdateStage(r)'
    BY DEF UpdateStage, Updating, Applied
  <2> QED BY <2>3, <2>4, <2>5 DEF InvokeStage
<1>5. CASE DeletePodTemplate(r)
  <2> USE <1>5 DEF DeletePodTemplate
  <2>3. CreateStage(r)'
    BY DEF CreateStage, Mine, Serious, Unmade
  <2>4. DeleteStage(r)'
    BY DEF DeleteStage
  <2>5. UpdateStage(r)'
    BY DEF UpdateStage, Updating, Applied
  <2> QED BY <2>3, <2>4, <2>5 DEF InvokeStage
<1> QED BY <1>1, <1>2, <1>3, <1>4, <1>5 DEF TemplateStep

\* CreateService's objects stay its own until it returns, whatever fails.
LEMMA StepMade ==
  ASSUME TypeOK, CallOK, Ownership, Alone, AllMade, NEW r \in Reqs, Moves(r)
  PROVE  AllMade'
<1> USE DEF TypeOK, ControlOK, Goto, Answer, Fails, Fault, budget, objects
<1>1. Acts(r)
  BY StepIsCommon, CommonActs, TemplateActs DEF TemplateStep
<1>2. ASSUME NEW q \in Reqs \ {r} PROVE Made(q)'
  BY <1>1, OthersRest DEF Made
<1> SUFFICES Made(r)'
  BY <1>2 DEF AllMade
<1>3. Made(r)
  BY DEF AllMade
<1>4. CASE CreatePodTemplate(r)
  <2> USE <1>4 DEF CreatePodTemplate
  <2>1. N(r) \in Names /\ D(r) \in Defs
    BY DEF CallOK
  <2>2. cm[N(r)] # None /\ cm[N(r)].by = r
    BY <2>1 DEF Ownership, Holds, Creating
  <2>3. NewObject(r, D(r)) # None /\ NewObject(r, D(r)).by = r
    BY <2>1, NewObjectTypes, NoneAssumption
  <2> QED BY <2>1, <2>2, <2>3 DEF Made, N, ObjectsOK
<1>5. CASE ExposeService(r) \/ PrefetchImage(r) \/ ImagePulled(r)
  BY <1>3, <1>5 DEF ExposeService, PrefetchImage, ImagePulled, UpdateReturnsOk, Made, N
<1>6. CASE \/ EnsureServiceVolume(r, "createWL", "rollbackCM")
           \/ RollbackConfigMap(r, "rollbackCM", "rollbackVol")
           \/ ResolveServiceNamespace(r, "readWL") \/ ReadServiceConfigMap(r) \/ AdmitUpdate(r, "uGet")
  BY <1>6 DEF EnsureServiceVolume, RollbackConfigMap, ResolveServiceNamespace, ReadServiceConfigMap,
              AdmitUpdate, UpdateReturnsError, Made
<1>7. CASE ReadPodTemplate(r) \/ UpdatePodTemplate(r) \/ DeletePodTemplate(r)
  BY <1>7 DEF ReadPodTemplate, UpdatePodTemplate, DeletePodTemplate, Made
<1>8. CASE SharedStep(r) /\ ~PrefetchImage(r)
  <2>1. CASE CreateServiceSecret(r) \/ AdmitImage(r) \/ CreateServiceConfigMap(r) \/ RollbackVolume(r)
             \/ CreateFailed(r) \/ CreateMinIO(r)
    BY <2>1 DEF CreateServiceSecret, AdmitImage, CreateServiceConfigMap, RollbackVolume,
                CreateFailed, CreateMinIO, Made
  <2>2. CASE DeleteServiceConfigMap(r) \/ DeleteServiceJobs(r) \/ DeleteServiceVolume(r)
             \/ DeleteServiceSecret(r) \/ DeleteServiceExpose(r) \/ DeleteServiceReturns(r)
    BY <2>2 DEF DeleteServiceConfigMap, DeleteServiceJobs, DeleteServiceVolume,
                DeleteServiceSecret, DeleteServiceExpose, DeleteServiceReturns, Made
  <2>3. CASE CheckSameVolume(r) \/ UpdateMinIO(r) \/ UpdateServiceSecret(r) \/ ReadOldConfigMap(r)
    BY <2>3 DEF CheckSameVolume, UpdateMinIO, UpdateServiceSecret, ReadOldConfigMap, UpdateReturnsError, Made
  <2>4. CASE UpdateServiceConfigMap(r) \/ RestoreOldConfigMap(r) \/ UpdateServiceExpose(r)
    BY <2>4 DEF UpdateServiceConfigMap, RestoreOldConfigMap, UpdateServiceExpose,
                UpdateReturnsError, UpdateReturnsOk, Made
  <2>5. CASE InvokeRead(r) \/ InvokeCreate(r) \/ CreateVolume(r) \/ CountVolumeAttachments(r) \/ DeleteVolume(r)
    BY <2>5 DEF InvokeRead, InvokeCreate, CreateVolume, CountVolumeAttachments, DeleteVolume, Made
  <2> QED BY <1>8, <2>1, <2>2, <2>3, <2>4, <2>5 DEF SharedStep
<1> QED BY <1>4, <1>5, <1>6, <1>7, <1>8 DEF Moves, Step

\* A create is answered "created" at its last label only.
LEMMA CreatedAtTheEnd ==
  ASSUME TypeOK, AllAsked, NEW r \in Reqs, NEW q \in Reqs, Moves(q),
         call[r].op = "create", resp[r] = "none", resp'[r] = "ok"
  PROVE  q = r /\ pc[r] = "minio" /\ UNCHANGED objects
<1> USE DEF TypeOK, ControlOK, Goto, Answer, Write, Fails, Fault, budget, objects
<1>1. Asked(q) 
  BY DEF AllAsked
<1>2. CASE TemplateStep(q)
  BY <1>2 DEF TemplateStep, CreatePodTemplate, ExposeService, ReadPodTemplate, UpdatePodTemplate, DeletePodTemplate
<1>3. CASE CreateMinIO(q)
  BY <1>3 DEF CreateMinIO
<1>4. CASE CreateServiceSecret(q) \/ AdmitImage(q) \/ CreateServiceConfigMap(q) \/ RollbackVolume(q)
           \/ PrefetchImage(q) \/ CreateFailed(q)
  BY <1>4 DEF CreateServiceSecret, AdmitImage, CreateServiceConfigMap, RollbackVolume,
              PrefetchImage, CreateFailed
<1>5. CASE DeleteServiceConfigMap(q) \/ DeleteServiceJobs(q) \/ DeleteServiceVolume(q)
           \/ DeleteServiceSecret(q) \/ DeleteServiceExpose(q) \/ DeleteServiceReturns(q)
  BY <1>5 DEF DeleteServiceConfigMap, DeleteServiceJobs, DeleteServiceVolume,
              DeleteServiceSecret, DeleteServiceExpose, DeleteServiceReturns
<1>6. CASE CheckSameVolume(q) \/ UpdateMinIO(q) \/ UpdateServiceSecret(q) \/ ReadOldConfigMap(q)
  BY <1>6 DEF CheckSameVolume, UpdateMinIO, UpdateServiceSecret, ReadOldConfigMap, UpdateReturnsError
<1>7. CASE UpdateServiceConfigMap(q) \/ RestoreOldConfigMap(q) \/ UpdateServiceExpose(q) \/ ImagePulled(q)
  BY <1>1, <1>7 DEF UpdateServiceConfigMap, RestoreOldConfigMap, UpdateServiceExpose, ImagePulled,
              UpdateReturnsError, UpdateReturnsOk, Asked, Updating
<1>8. CASE InvokeRead(q) \/ InvokeCreate(q) \/ CreateVolume(q) \/ CountVolumeAttachments(q) \/ DeleteVolume(q)
  BY <1>1, <1>8 DEF InvokeRead, InvokeCreate, CreateVolume, CountVolumeAttachments, DeleteVolume, Asked
<1>9. CASE \/ EnsuresVolume(q) \/ RollsBack(q) \/ Resolves(q) \/ ReadServiceConfigMap(q) \/ AdmitsUpdate(q)
  BY <1>9 DEF EnsuresVolume, EnsureServiceVolume, RollsBack, RollbackConfigMap, Resolves,
              ResolveServiceNamespace, ReadServiceConfigMap, AdmitsUpdate, AdmitUpdate, UpdateReturnsError
<1> QED BY <1>2, <1>3, <1>4, <1>5, <1>6, <1>7, <1>8, <1>9, StepIsCommon DEF CommonStep, SharedStep, TemplateStep

\* The ConfigMap and the PodTemplate of service n go together.
Settled(n) == wl[n] # None => wl[n].def.podSpec /\ wl[n].def = cm[n].def

\* A step keeps the agreement of the services that it does not touch.
LEMMA AgreementElsewhere ==
  ASSUME TypeOK, CallOK, Alone, NEW r \in Reqs, Acts(r), \A n \in Names : Agrees(n),
         \A n \in Names : n # N(r) => cm'[n] = cm[n] /\ wl'[n] = wl[n],
         N(r)' = N(r), TemplateStage(r)',
         pc'[r] \notin Updating /\ N(r) \in Names => Settled(N(r))',
         pc'[r] \in Updating /\ N(r) \in Names /\ wl'[N(r)] # None => wl'[N(r)].def.podSpec
  PROVE  Agreement'
<1>1. \A q \in Reqs \ {r} : pc'[q] = pc[q] /\ pc[q] \in {"idle", "done"}
  BY OthersRest
<1>2. \A q \in Reqs : TemplateStage(q)'
  BY <1>1 DEF TemplateStage, Updating
<1>3. ASSUME NEW n \in Names, n # N(r) PROVE Agrees(n)'
  BY <1>1, <1>3 DEF Agrees, Updating
<1>4. ASSUME N(r) \in Names PROVE Agrees(N(r))'
  <2>1. CASE pc'[r] \in Updating
    BY <1>4, <2>1 DEF Agrees
  <2>2. CASE pc'[r] \notin Updating
    BY <1>4, <2>2 DEF Agrees, Settled
  <2> QED BY <2>1, <2>2
<1> QED BY <1>2, <1>3, <1>4 DEF Agreement

\* Outside updates nothing is out of step.
LEMMA SettledOutside ==
  ASSUME Alone, NEW r \in Reqs, pc[r] \notin Updating \cup {"idle", "done"}, NEW n \in Names, Agrees(n)
  PROVE  Settled(n)
  BY DEF Alone, InFlight, Agrees, Settled, Updating

\* The steps outside updates that leave ConfigMaps and PodTemplates alone.
LEMMA AgreementQuiet ==
  ASSUME TypeOK, CallOK, Alone, NEW r \in Reqs, Acts(r), \A n \in Names : Agrees(n),
         UNCHANGED <<cm, wl>>, N(r)' = N(r),
         pc[r] \notin Updating, pc'[r] \notin Updating \cup {"readCM"}
  PROVE  Agreement'
<1>1. TemplateStage(r)'
  BY DEF TemplateStage, Updating
<1>2. ASSUME N(r) \in Names PROVE Settled(N(r))'
  BY <1>2, SettledOutside DEF Acts, Settled
<1> QED BY <1>1, <1>2, AgreementElsewhere

\* Which is what most steps do.
LEMMA AgreementPassing ==
  ASSUME TypeOK, CallOK, Alone, NEW r \in Reqs, Acts(r), \A n \in Names : Agrees(n), ~Fault,
         \/ CreateServiceSecret(r) \/ AdmitImage(r) \/ RollbackVolume(r)
         \/ PrefetchImage(r) \/ CreateFailed(r) \/ CreateMinIO(r)
         \/ ImagePulled(r) /\ pc[r] = "pulling"
         \/ DeleteServiceJobs(r) \/ DeleteServiceVolume(r)
         \/ DeleteServiceSecret(r) \/ DeleteServiceExpose(r) \/ DeleteServiceReturns(r)
         \/ InvokeRead(r) \/ InvokeCreate(r) \/ CreateVolume(r) \/ CountVolumeAttachments(r) \/ DeleteVolume(r)
         \/ EnsureServiceVolume(r, "createWL", "rollbackCM") \/ ExposeService(r)
         \/ ResolveServiceNamespace(r, "readWL")
  PROVE  Agreement'
<1> USE DEF TypeOK, ControlOK, Goto, Answer, Fails, budget, objects, N, Updating
<1> SUFFICES /\ UNCHANGED <<cm, wl, call>>
             /\ pc[r] \notin Updating /\ pc'[r] \notin Updating \cup {"readCM"}
  BY AgreementQuiet
<1>1. CASE CreateServiceSecret(r) \/ AdmitImage(r) \/ RollbackVolume(r)
           \/ PrefetchImage(r) \/ CreateFailed(r) \/ CreateMinIO(r)
  BY <1>1 DEF CreateServiceSecret, AdmitImage, RollbackVolume, PrefetchImage, CreateFailed, CreateMinIO
<1>2. CASE DeleteServiceJobs(r) \/ DeleteServiceVolume(r)
           \/ DeleteServiceSecret(r) \/ DeleteServiceExpose(r) \/ DeleteServiceReturns(r)
  BY <1>2 DEF DeleteServiceJobs, DeleteServiceVolume,
              DeleteServiceSecret, DeleteServiceExpose, DeleteServiceReturns
<1>3. CASE InvokeRead(r) \/ InvokeCreate(r) \/ CreateVolume(r) \/ CountVolumeAttachments(r) \/ DeleteVolume(r)
  BY <1>3 DEF InvokeRead, InvokeCreate, CreateVolume, CountVolumeAttachments, DeleteVolume
<1>4. CASE \/ EnsureServiceVolume(r, "createWL", "rollbackCM") \/ ExposeService(r)
           \/ ResolveServiceNamespace(r, "readWL")
           \/ ImagePulled(r) /\ pc[r] = "pulling"
  BY <1>4 DEF EnsureServiceVolume, ExposeService, ResolveServiceNamespace, ImagePulled
<1> QED BY <1>1, <1>2, <1>3, <1>4

\* The steps that make or delete a ConfigMap or a PodTemplate.
LEMMA AgreementMaking ==
  ASSUME TypeOK, CallOK, Ownership, Ownership', Alone, NEW r \in Reqs, Acts(r), \A n \in Names : Agrees(n),
         ~Fault, Stage(r),
         \/ CreateServiceConfigMap(r) \/ DeleteServiceConfigMap(r)
         \/ RollbackConfigMap(r, "rollbackCM", "rollbackVol")
         \/ CreatePodTemplate(r) \/ DeletePodTemplate(r)
  PROVE  Agreement'
<1> USE DEF TypeOK, ControlOK, ObjectsOK, Goto, Fails, budget, objects, N, Updating
<1>1. pc[r] \notin Updating \cup {"idle", "done"} /\ N(r) \in Names
  BY DEF CallOK, CreateServiceConfigMap, DeleteServiceConfigMap, RollbackConfigMap, CreatePodTemplate,
         DeletePodTemplate
<1>2. Settled(N(r))
  BY <1>1, SettledOutside
<1> SUFFICES /\ \A n \in Names : n # N(r) => cm'[n] = cm[n] /\ wl'[n] = wl[n]
             /\ UNCHANGED call /\ pc'[r] \notin Updating \cup {"readCM"}
             /\ Settled(N(r))'
  <2>1. TemplateStage(r)'
    BY DEF TemplateStage
  <2> QED BY <1>1, <2>1, AgreementElsewhere
<1>3. CASE CreateServiceConfigMap(r)
  <2>1. cm[N(r)] = None => wl[N(r)] = None
    BY <1>1 DEF Ownership
  <2> QED BY <1>1, <1>2, <1>3, <2>1 DEF CreateServiceConfigMap, Settled
<1>4. CASE DeleteServiceConfigMap(r) \/ RollbackConfigMap(r, "rollbackCM", "rollbackVol")
  <2>1. wl[N(r)] = None
    BY <1>1, <1>4 DEF Ownership, Holds, Creating, DeleteServiceConfigMap, RollbackConfigMap
  <2> QED BY <1>1, <1>4, <2>1 DEF DeleteServiceConfigMap, RollbackConfigMap, Settled
<1>5. CASE CreatePodTemplate(r)
  <2>1. cm[N(r)].def = D(r) /\ NewObject(r, D(r)).def = D(r)
    BY <1>5 DEF CreatePodTemplate, Stage, CreateStage, Mine, NewObject
  <2> QED BY <1>1, <1>2, <1>5, <2>1 DEF CreatePodTemplate, Settled
<1>6. CASE DeletePodTemplate(r)
  BY <1>1, <1>2, <1>6 DEF DeletePodTemplate, Settled
<1> QED BY <1>3, <1>4, <1>5, <1>6

\* The steps that read a service before it is updated or deleted.
LEMMA AgreementReading ==
  ASSUME TypeOK, CallOK, Ownership, Alone, NEW r \in Reqs, Acts(r), \A n \in Names : Agrees(n),
         ~Fault, Stage(r), TemplateStage(r), ReadPodTemplate(r) \/ ReadServiceConfigMap(r)
  PROVE  Agreement'
<1> USE DEF TypeOK, ControlOK, Goto, Fails, Answer, budget, objects, N, Updating
<1>1. pc[r] \notin Updating \cup {"idle", "done"} /\ N(r) \in Names /\ UNCHANGED <<cm, wl>> /\ UNCHANGED undo
  BY DEF CallOK, ReadPodTemplate, ReadServiceConfigMap
<1>2. Settled(N(r))
  BY <1>1, SettledOutside
<1>3. N(r)' = N(r)
  BY DEF ReadPodTemplate, ReadServiceConfigMap, CallType
<1>4. TemplateStage(r)'
  <2>1. CASE ReadPodTemplate(r)
    BY <1>1, <2>1 DEF ReadPodTemplate, TemplateStage
  <2>2. CASE ReadServiceConfigMap(r)
    BY <1>1, <1>2, <2>2 DEF ReadServiceConfigMap, TemplateStage, Settled
  <2> QED BY <2>1, <2>2
<1>5. Settled(N(r))'
  BY <1>1, <1>2, <1>3 DEF Settled
<1> QED BY <1>1, <1>3, <1>4, <1>5, AgreementElsewhere DEF Settled

\* What the ConfigMap and the PodTemplate of an update say before a step that calls
\* the handler's error path, and what they say when it returns.
LEMMA UpdateEnds ==
  ASSUME TypeOK, NEW r \in Reqs, UpdateStage(r), TemplateStage(r), pc[r] \in Updating,
         pc[r] \notin {"uWL", "uRestore"}, ~undo[r] \/ pc[r] \in {"uExpose", "uPull"}
  PROVE  wl[N(r)] # None /\ wl[N(r)].def = cm[N(r)].def
  BY DEF UpdateStage, TemplateStage, Updating

\* The steps of an update that leave the objects alone.
LEMMA AgreementUpdating ==
  ASSUME TypeOK, CallOK, Ownership, Alone, Unrestricted, NEW r \in Reqs, Acts(r), \A n \in Names : Agrees(n),
         ~Fault, Stage(r), TemplateStage(r),
         \/ CheckSameVolume(r) \/ UpdateMinIO(r) \/ UpdateServiceSecret(r)
         \/ AdmitUpdate(r, "uGet") \/ ReadOldConfigMap(r) \/ UpdateServiceExpose(r)
         \/ ImagePulled(r) /\ pc[r] = "uPull"
  PROVE  Agreement'
<1> USE DEF TypeOK, ControlOK, Goto, Fails, Answer, budget, objects, Updating
<1>1. pc[r] \in Updating /\ N(r) \in Names /\ prior[r] \in Defs /\ D(r) \in Defs
  BY DEF CallOK, CheckSameVolume, UpdateMinIO, UpdateServiceSecret, AdmitUpdate, ReadOldConfigMap,
         UpdateServiceExpose, ImagePulled
<1>2. UNCHANGED <<cm, wl, call, prior>>
  BY DEF CheckSameVolume, UpdateMinIO, UpdateServiceSecret, AdmitUpdate, ReadOldConfigMap, UpdateServiceExpose,
         ImagePulled
<1>3. wl[N(r)] # None /\ wl[N(r)].def.podSpec
  BY <1>1 DEF TemplateStage, Agrees
<1> SUFFICES TemplateStage(r)' /\ (pc'[r] \notin Updating => wl[N(r)].def = cm[N(r)].def)
  BY <1>1, <1>2, <1>3, AgreementElsewhere DEF Settled, N
<1>4. UpdateStage(r) /\ cm[N(r)] # None
  BY <1>1 DEF Stage, UpdateStage
<1>5. Applied(r).allowed
  BY <1>1 DEF Applied, Unrestricted
<1>6. CASE CheckSameVolume(r)
  BY <1>1, <1>2, <1>4, <1>6 DEF CheckSameVolume, TemplateStage, UpdateStage, Applied, N, D
<1>7. CASE UpdateMinIO(r)
  BY <1>1, <1>2, <1>4, <1>7 DEF UpdateMinIO, TemplateStage, UpdateStage, Applied, N, D
<1>8. CASE UpdateServiceSecret(r)
  BY <1>1, <1>2, <1>4, <1>8 DEF UpdateServiceSecret, TemplateStage, UpdateStage, Applied, N, D
<1>9. CASE AdmitUpdate(r, "uGet")
  BY <1>1, <1>2, <1>4, <1>5, <1>9 DEF AdmitUpdate, TemplateStage, UpdateStage, N, D
<1>10. CASE ReadOldConfigMap(r)
  BY <1>1, <1>2, <1>4, <1>10 DEF ReadOldConfigMap, TemplateStage, UpdateStage, N, D
<1>11. CASE UpdateServiceExpose(r)
  BY <1>1, <1>2, <1>4, <1>11, UpdateEnds
  DEF UpdateServiceExpose, UpdateReturnsError, UpdateReturnsOk, TemplateStage, UpdateStage, Applied, N, D
<1>12. CASE ImagePulled(r) /\ pc[r] = "uPull"
  BY <1>1, <1>2, <1>4, <1>12, UpdateEnds DEF ImagePulled, UpdateReturnsOk, TemplateStage
<1> QED BY <1>6, <1>7, <1>8, <1>9, <1>10, <1>11, <1>12

\* The steps of an update that write the ConfigMap or the PodTemplate.
LEMMA AgreementWriting ==
  ASSUME TypeOK, CallOK, Ownership, Alone, NEW r \in Reqs, Acts(r), \A n \in Names : Agrees(n),
         ~Fault, Stage(r), TemplateStage(r),
         \/ UpdateServiceConfigMap(r) \/ RestoreOldConfigMap(r) \/ UpdatePodTemplate(r)
  PROVE  Agreement'
<1> USE DEF TypeOK, ControlOK, ObjectsOK, Goto, Fails, Answer, budget, objects, Updating
<1>1. pc[r] \in Updating /\ N(r) \in Names
  BY DEF CallOK, UpdateServiceConfigMap, RestoreOldConfigMap, UpdatePodTemplate
<1>2. /\ UNCHANGED <<call, prior>>
      /\ \A n \in Names : n # N(r) => cm'[n] = cm[n] /\ wl'[n] = wl[n]
  BY <1>1 DEF UpdateServiceConfigMap, RestoreOldConfigMap, UpdatePodTemplate
<1>3. wl[N(r)] # None /\ wl[N(r)].def.podSpec
  BY <1>1 DEF TemplateStage, Agrees
<1>4. UpdateStage(r) /\ cm[N(r)] # None
  BY <1>1 DEF Stage, UpdateStage
<1>5. CASE UpdateServiceConfigMap(r) \/ RestoreOldConfigMap(r)
  <2>1. UNCHANGED wl /\ pc'[r] \in Updating
    BY <1>4, <1>5 DEF UpdateServiceConfigMap, RestoreOldConfigMap, UpdateReturnsError, TemplateStage
  <2>2. TemplateStage(r)'
    BY <1>1, <1>2, <1>4, <1>5, <2>1
    DEF UpdateServiceConfigMap, RestoreOldConfigMap, UpdateReturnsError, TemplateStage, N, D
  <2> QED BY <1>1, <1>2, <1>3, <2>1, <2>2, AgreementElsewhere DEF N
<1>6. CASE UpdatePodTemplate(r)
  <2>1. prior[r] \in Defs /\ D(r) \in Defs
    BY <1>6 DEF CallOK, UpdatePodTemplate
  <2>2. Applied(r) \in Defs /\ UNCHANGED undo
    BY <2>1, <1>6 DEF Applied, UpdatePodTemplate
  <2>3. CASE Applied(r).podSpec /\ wl'[N(r)] = Updated(wl[N(r)], Applied(r)) /\ pc'[r] = "uExpose"
    <3>1. Updated(wl[N(r)], Applied(r)).def = Applied(r)
      BY DEF Updated
    <3>2. Updated(wl[N(r)], Applied(r)) \in ObjectType
      BY <1>1, <1>3, <2>2 DEF Updated, ObjectType
    <3>3. wl'[N(r)] # None /\ wl'[N(r)].def = Applied(r) /\ Applied(r)' = Applied(r)
      BY <1>2, <2>2, <2>3, <3>1, <3>2, NoneAssumption DEF Applied, D, ObjectType
    <3>4. TemplateStage(r)'
      BY <1>1, <1>2, <2>3, <3>3 DEF TemplateStage, N
    <3> QED BY <1>1, <1>2, <2>3, <3>3, <3>4, AgreementElsewhere DEF N
  <2>4. CASE UNCHANGED wl /\ pc'[r] = "uRestore" /\ (~Applied(r).podSpec \/ wl[N(r)] = None)
    <3>1. ~undo[r]
      BY <1>1, <1>3, <2>4 DEF Applied, TemplateStage
    <3>2. TemplateStage(r)'
      BY <1>1, <1>2, <1>6, <2>2, <2>4, <3>1 DEF UpdatePodTemplate, TemplateStage, N
    <3> QED BY <1>1, <1>2, <1>3, <2>4, <3>2, AgreementElsewhere DEF N
  <2> QED BY <1>1, <1>6, <2>3, <2>4 DEF UpdatePodTemplate
<1> QED BY <1>5, <1>6

\* A step of the only request in progress keeps services in agreement.
LEMMA StepAgreement ==
  ASSUME TypeOK, CallOK, Ownership, Ownership', Alone, Unrestricted, Books, Agreement,
         NEW r \in Reqs, Moves(r), Unspoilt'
  PROVE  Agreement'
<1>1. Acts(r) /\ faults' >= faults /\ crashes' = crashes
  BY StepIsCommon, CommonActs, TemplateActs DEF TemplateStep
<1>2. Unspoilt /\ ~Fault
  BY <1>1 DEF Unspoilt, Fault, TypeOK
<1>3. (\A n \in Names : Agrees(n)) /\ TemplateStage(r) /\ Stage(r)
  BY <1>2 DEF Agreement, Books, Stages
<1>4. CASE SharedStep(r)
  BY <1>1, <1>2, <1>3, <1>4, AgreementPassing, AgreementMaking, AgreementUpdating, AgreementWriting
  DEF SharedStep
<1>5. CASE ~SharedStep(r)
  <2>1. ImagePulled(r) => pc[r] = "pulling" \/ pc[r] = "uPull"
    BY DEF ImagePulled
  <2> QED BY <1>1, <1>2, <1>3, <1>5, <2>1, AgreementPassing, AgreementMaking, AgreementReading, AgreementUpdating,
     AgreementWriting
  DEF Moves, Step
<1> QED BY <1>4, <1>5

\* What requests that do not overlap keep whatever fails.
InTurn == Alone /\ AllAsked /\ AllMade

\* What holds of them besides as long as nothing fails.
InOrder == Books /\ Agreement

\* Arrivals, steps of handlers and crashes keep InTurn.
LEMMA InTurnNext ==
  ASSUME MaxInFlight = 1, IInv, InTurn, [Next]_vars
  PROVE  InTurn'
<1> USE DEF IInv
<1>1. ASSUME NEW r \in Reqs, Arrive(r) PROVE InTurn'
  <2>1. Arrives(r)
    BY <1>1 DEF Arrive, Arrives
  <2>2. pc[r] = "idle" /\ pc'[r] \in {"secret", "resolve", "readWL", "readCM", "invRead", "vCreate", "vCount"}
        /\ UNCHANGED <<cm, wl>> /\ \A q \in Reqs \ {r} : pc'[q] = pc[q] /\ call'[q] = call[q]
    BY <2>1 DEF Arrives, StartCreate, StartUpdate, StartDelete, StartInvoke, StartCreateVolume,
         StartDeleteVolume, Start, Goto, TypeOK, ControlOK, objects
  <2>3. AllMade'
    BY <2>2 DEF InTurn, AllMade, Made, N
  <2> QED BY <2>1, <2>3, ArrivesAlone, ArrivesAsked DEF InTurn
<1>2. ASSUME NEW r \in Reqs, Moves(r) PROVE InTurn'
  <2>1. Acts(r)
    BY <1>2, StepIsCommon, CommonActs, TemplateActs DEF TemplateStep
  <2>2. Alone' /\ AllMade'
    BY <1>2, <2>1, ActsAlone, StepMade DEF InTurn
  <2>3. CASE CommonStep(r)
    BY <2>2, <2>3, CommonAsked DEF InTurn
  <2>4. CASE TemplateStep(r)
    <3>1. Asked(r)'
      BY <2>4 DEF InTurn, AllAsked, Asked, Updating, TemplateStep, CreatePodTemplate, ExposeService,
                  ReadPodTemplate, UpdatePodTemplate, DeletePodTemplate, Goto, Answer, TypeOK, ControlOK
    <3> QED BY <2>1, <2>2, <3>1, ActsAsked DEF InTurn
  <2> QED BY <1>2, <2>3, <2>4, StepIsCommon DEF TemplateStep
<1>3. CASE Crash
  BY <1>3, CrashBooks, OtherAsked DEF InTurn, AllMade, Made, Crash, TypeOK, ControlOK
<1>4. CASE UNCHANGED vars
  <2>1. AllMade'
    BY <1>4 DEF InTurn, AllMade, Made, N, vars
  <2> QED BY <1>4, <2>1, StutterBooks, OtherAsked DEF InTurn
<1> QED BY <1>1, <1>2, <1>3, <1>4 DEF Next, Moves, AllServed

\* They keep the books and the agreement of ConfigMap and PodTemplate.
LEMMA InOrderNext ==
  ASSUME Unrestricted, IInv, IInv', Alone, InOrder, InTurn', [Next]_vars
  PROVE  InOrder'
<1> USE DEF IInv
<1>1. ASSUME NEW r \in Reqs, Arrive(r) PROVE InOrder'
  <2>1. Arrives(r)
    BY <1>1 DEF Arrive, Arrives
  <2>2. pc[r] = "idle" /\ pc'[r] \in {"secret", "resolve", "readWL", "invRead", "vCreate", "vCount"}
        /\ UNCHANGED <<cm, wl, prior, undo, faults, crashes>>
        /\ \A q \in Reqs \ {r} : pc'[q] = pc[q] /\ call'[q] = call[q]
    BY <1>1 DEF Arrive, StartCreate, StartUpdate, StartDelete, StartInvoke, StartCreateVolume,
         StartDeleteVolume, Start, Goto, TypeOK, ControlOK, objects, budget
  <2>3. Agreement'
    <3>1. ASSUME NEW n \in Names, Agrees(n) PROVE Agrees(n)'
      <4>1. ASSUME NEW q \in Reqs, pc[q] \in Updating /\ N(q) = n PROVE pc'[q] \in Updating /\ N(q)' = n
        BY <2>2, <4>1 DEF N, Updating
      <4> QED BY <2>2, <3>1, <4>1 DEF Agrees
    <3>2. ASSUME NEW q \in Reqs, TemplateStage(q) PROVE TemplateStage(q)'
      BY <2>2, <3>2 DEF TemplateStage, Updating, Applied, N, D
    <3> QED BY <2>2, <3>1, <3>2 DEF InOrder, Agreement, Unspoilt
  <2> QED BY <2>1, <2>3, ArrivesBooks DEF InOrder
<1>2. ASSUME NEW r \in Reqs, Moves(r) PROVE InOrder'
  <2>1. Agreement'
    BY <1>2, StepAgreement DEF InOrder, Agreement
  <2>2. CASE CommonStep(r)
    BY <2>1, <2>2, CommonBooks, UnrestrictedIsAdmissible DEF InOrder
  <2>3. CASE TemplateStep(r)
    <3> SUFFICES ASSUME Unspoilt' PROVE (Stages /\ Claims /\ Work)'
      BY <2>1 DEF InOrder, Books
    <3>1. Acts(r) /\ QuietBooks(r) /\ Unspoilt /\ ~Fault
      BY <2>3, TemplateActs DEF Unspoilt, Fault, TypeOK
    <3>2. Stages /\ Claims /\ Work
      BY <3>1 DEF InOrder, Books
    <3>3. Claims' /\ Work' /\ OwnClaims(r)
      BY <3>1, <3>2, QuietKeeps
    <3>4. Stage(r)'
      BY <2>3, <3>1, <3>2, TemplateStages DEF Stages
    <3>5. \A q \in Reqs \ {r} : Stage(q)'
      BY <3>1, <3>2, <3>3, RestStages
    <3> QED BY <3>3, <3>4, <3>5 DEF Stages
  <2> QED BY <1>2, <2>2, <2>3, StepIsCommon DEF TemplateStep
<1>3. CASE Crash
  BY <1>3, CrashBooks DEF InOrder, Agreement, Crash, Unspoilt, TypeOK
<1>4. CASE UNCHANGED vars
  <2>1. Agreement'
    BY <1>4 DEF InOrder, Agreement, Unspoilt, Agrees, TemplateStage, Applied, N, D, vars
  <2> QED BY <1>4, <2>1, StutterBooks DEF InOrder
<1> QED BY <1>1, <1>2, <1>3, <1>4 DEF Next, Moves, AllServed

\* At the start there is no service and no request.
LEMMA Starts == ASSUME Init PROVE InTurn /\ InOrder
<1>1. AllMade /\ Agreement
  BY DEF Init, AllMade, Made, Agreement, Agrees, TemplateStage, Updating
<1> QED BY <1>1, InitBooks, OtherAsked DEF InTurn, InOrder

\* While requests do not overlap they keep InTurn, whatever call fails and
\* wherever the process stops.
THEOREM TakingTurns ==
  ASSUME MaxInFlight = 1
  PROVE  Spec => []InTurn
<1>1. Init => InTurn
  BY Starts
<1>2. IInv /\ InTurn /\ [Next]_vars => InTurn'
  BY InTurnNext
<1> QED BY <1>1, <1>2, Invariance, PTL DEF Spec

\* If besides no image is refused, they keep the books in order until a call fails.
THEOREM BooksInOrder ==
  ASSUME MaxInFlight = 1, Unrestricted
  PROVE  Spec => []InOrder
<1>1. Init => InOrder
  BY Starts
<1>2. IInv /\ IInv' /\ InTurn /\ InTurn' /\ InOrder /\ [Next]_vars => InOrder'
  BY InOrderNext DEF InTurn
<1> QED BY <1>1, <1>2, Invariance, TakingTurns, PTL DEF Spec

\* MakeCreateHandler answers "created" for a service whose ConfigMap and PodTemplate
\* are there and are its own.
THEOREM CreatedIsThere ==
  ASSUME MaxInFlight = 1
  PROVE  Spec => AcceptedCreateIsThere
<1> DEFINE Accepted(r) == call[r].op = "create" /\ resp[r] = "none" /\ resp'[r] = "ok" =>
                              /\ cm'[N(r)] # None /\ cm'[N(r)].by = r
                              /\ wl'[N(r)] # None /\ wl'[N(r)].by = r
<1>1. IInv /\ InTurn /\ [Next]_vars => [\A r \in Reqs : Accepted(r)]_vars
  <2> SUFFICES ASSUME IInv, InTurn, Next, NEW r \in Reqs,
                      call[r].op = "create", resp[r] = "none", resp'[r] = "ok"
               PROVE  /\ cm'[N(r)] # None /\ cm'[N(r)].by = r
                      /\ wl'[N(r)] # None /\ wl'[N(r)].by = r
    OBVIOUS
  <2>1. PICK q \in Reqs : Moves(q)
    BY DEF Next, Moves, Arrive, StartCreate, StartUpdate, StartDelete, StartInvoke, StartCreateVolume,
           StartDeleteVolume, Start, Crash, AllServed, vars
  <2>2. pc[r] = "minio" /\ UNCHANGED objects
    BY <2>1, CreatedAtTheEnd DEF IInv, InTurn
  <2> QED BY <2>2 DEF InTurn, AllMade, Made, objects
<1> QED BY <1>1, Invariance, TakingTurns, PTL DEF Spec, AcceptedCreateIsThere

\* When nothing is in progress and nothing failed, a name without a ConfigMap has no
\* PodTemplate and no job, and every volume to be deleted with its service has its service.
THEOREM NothingLeft ==
  ASSUME MaxInFlight = 1, Unrestricted
  PROVE  Spec => []NothingLeftBehind
<1>1. IInv /\ InOrder => NothingLeftBehind
  BY DEF IInv, Ownership, InOrder, Books, Unspoilt, Quiescent, Claims, Backed, Condemned, Work,
         NothingLeftBehind
<1> QED BY <1>1, Invariance, BooksInOrder, PTL

\* When nothing is in progress and nothing failed, the definition in the ConfigMap is
\* the one that the PodTemplate was made from.
THEOREM SameDefinition ==
  ASSUME MaxInFlight = 1, Unrestricted
  PROVE  Spec => []DefinitionsAgree
<1>1. IInv /\ InOrder => DefinitionsAgree
  BY DEF IInv, Ownership, InOrder, Agreement, Agrees, Unspoilt, Quiescent, Updating, DefinitionsAgree
<1> QED BY <1>1, Invariance, BooksInOrder, PTL

=============================================================================
