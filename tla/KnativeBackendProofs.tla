------------------------- MODULE KnativeBackendProofs -------------------------
(***************************************************************************)
(* Proofs about KnativeBackend, for any names, volumes, requests and       *)
(* definitions: its types, and, when requests do not overlap and nothing   *)
(* fails, what a service consists of and which claims are deleted.         *)
(***************************************************************************)
EXTENDS KnativeBackend, ServiceStoreProofs

-----------------------------------------------------------------------------
(* Types. *)

\* The steps that KubeBackend does not have.
KnativeStep(r) ==
    \/ CreateKnativeService(r) \/ ExposeService(r) \/ ReadOldKnativeService(r)
    \/ UpdateKnativeService(r) \/ DeleteKnativeService(r)

\* A handler goes on: with a call of its own, or because its image has been pulled.
Moves(r) == Step(r) \/ ImagePulled(r)

\* A step of a handler is one that both backends have or one of the Knative Service's own.
LEMMA StepIsCommon ==
  ASSUME NEW r \in Reqs, Moves(r)
  PROVE  CommonStep(r) \/ KnativeStep(r)
  BY DEF Moves, Step, KnativeStep, CommonStep, EnsuresVolume, EnsureVolume, RollsBack, Resolves, AdmitsUpdate

\* Every step of a handler keeps the types, one case per step.
LEMMA StepTypes ==
  ASSUME TypeOK, CallOK, NEW r \in Reqs, Moves(r)
  PROVE  TypeOK' /\ CallOK'
<1> USE DEF TypeOK, Goto, Fails, Fault, budget, objects
<1>1. CASE CreateKnativeService(r)
  <2> USE <1>1 DEF CreateKnativeService
  <2>1. N(r) \in Names /\ D(r) \in Defs
    BY DEF CallOK
  <2>2. ObjectsOK'
    BY <2>1, NewObjectTypes DEF ObjectsOK
  <2>3. ControlOK' /\ faults' \in Nat /\ crashes' \in Nat
    BY LabelMembers, AnswerMembers, WriteTypes DEF ControlOK
  <2>4. CallOK'
    BY <2>1 DEF ControlOK, CallOK, N, D, V
  <2> QED BY <2>2, <2>3, <2>4
<1>2. CASE ExposeService(r)
  <2> USE <1>2 DEF ExposeService
  <2>1. N(r) \in Names /\ D(r) \in Defs
    BY DEF CallOK
  <2>2. ObjectsOK'
    BY <2>1 DEF ObjectsOK
  <2>3. ControlOK' /\ faults' \in Nat /\ crashes' \in Nat
    BY LabelMembers, AnswerMembers, WriteTypes DEF ControlOK
  <2>4. CallOK'
    BY <2>1 DEF ControlOK, CallOK, N, D, V
  <2> QED BY <2>2, <2>3, <2>4
<1>3. CASE ReadOldKnativeService(r)
  <2> USE <1>3 DEF ReadOldKnativeService
  <2>1. N(r) \in Names /\ prior[r] \in Defs /\ D(r) \in Defs
    BY DEF CallOK
  <2>2. ObjectsOK'
    BY DEF ObjectsOK
  <2>3. snap' \in [Reqs -> SnapType]
    <3>1. wl[N(r)] \in ObjectType \cup {None}
      BY <2>1 DEF ObjectsOK
    <3> QED BY <3>1 DEF ControlOK, SnapType
  <2>4. ControlOK' /\ faults' \in Nat /\ crashes' \in Nat
    BY <2>3, LabelMembers, AnswerMembers, ErrorTypes DEF ControlOK
  <2>5. CallOK'
    BY <2>1 DEF ControlOK, SnapType, CallOK, UpdateReturnsError, Answer, N, D, V
  <2> QED BY <2>2, <2>4, <2>5
<1>4. CASE UpdateKnativeService(r)
  <2> USE <1>4 DEF UpdateKnativeService
  <2>1. N(r) \in Names /\ Applied(r) \in Defs
    BY DEF CallOK, Applied
  <2>2. wl[N(r)] # None => Updated(wl[N(r)], Applied(r)) \in ObjectType
    BY <2>1, UpdatedTypes DEF ObjectsOK
  <2>3. ObjectsOK'
    BY <2>1, <2>2 DEF ObjectsOK, Current
  <2>4. ControlOK' /\ faults' \in Nat /\ crashes' \in Nat
    BY LabelMembers, AnswerMembers, WriteTypes DEF ControlOK
  <2>5. CallOK'
    BY <2>1 DEF ControlOK, CallOK, N, D, V
  <2> QED BY <2>3, <2>4, <2>5
<1>5. CASE DeleteKnativeService(r)
  <2> USE <1>5 DEF DeleteKnativeService
  <2>1. N(r) \in Names /\ D(r) \in Defs
    BY DEF CallOK
  <2>2. ObjectsOK'
    BY <2>1 DEF ObjectsOK
  <2>3. ControlOK' /\ faults' \in Nat /\ crashes' \in Nat
    BY LabelMembers, AnswerMembers, WriteTypes DEF ControlOK
  <2>4. CallOK'
    BY <2>1 DEF ControlOK, CallOK, N, D, V
  <2> QED BY <2>2, <2>3, <2>4
<1>6. CASE CommonStep(r)
  BY <1>6, CommonStepTypes
<1> QED
  BY <1>1, <1>2, <1>3, <1>4, <1>5, <1>6, StepIsCommon DEF KnativeStep

\* Every step keeps the types.
LEMMA NextTypes ==
  ASSUME TypeOK, CallOK, [Next]_vars
  PROVE  TypeOK' /\ CallOK'
<1>1. CASE \E r \in Reqs : Arrive(r) \/ Moves(r)
  BY <1>1, ArrivesTypes, StepTypes DEF Arrive, Arrives
<1>2. CASE Crash
  BY <1>2, LabelMembers DEF Crash, TypeOK, ObjectsOK, ControlOK, CallOK, N, D, V, objects
<1>3. CASE UNCHANGED vars
  BY <1>3 DEF vars, TypeOK, ObjectsOK, ControlOK, CallOK, N, D, V
<1> QED BY <1>1, <1>2, <1>3 DEF Next, Moves, AllServed

\* The variables of KnativeBackend keep their types, and at each of its labels a
\* request carries what the handler reads there.
THEOREM Typing == Spec => [](TypeOK /\ CallOK)
<1>1. Init => TypeOK /\ CallOK
  BY InitTypes
<1>2. TypeOK /\ CallOK /\ [Next]_vars => (TypeOK /\ CallOK)'
  BY NextTypes
<1> QED BY <1>1, <1>2, PTL DEF Spec

-----------------------------------------------------------------------------
(* The books. *)

\* Each of the five belongs to one request and leaves ConfigMaps, claims and jobs alone.
LEMMA KnativeActs ==
  ASSUME TypeOK, NEW r \in Reqs, KnativeStep(r)
  PROVE  /\ Acts(r) /\ QuietBooks(r) /\ faults' >= faults /\ crashes' = crashes
         /\ pc'[r] # "vDelete" /\ UNCHANGED <<call, prior>>
<1> USE DEF TypeOK, ControlOK, Acts, Goto, Answer, Fails, Fault, budget, objects, QuietBooks
<1>1. CASE CreateKnativeService(r)
  BY <1>1 DEF CreateKnativeService
<1>2. CASE ExposeService(r)
  BY <1>2 DEF ExposeService
<1>3. CASE ReadOldKnativeService(r)
  BY <1>3 DEF ReadOldKnativeService, UpdateReturnsError
<1>4. CASE UpdateKnativeService(r)
  BY <1>4 DEF UpdateKnativeService
<1>5. CASE DeleteKnativeService(r)
  BY <1>5 DEF DeleteKnativeService
<1> QED BY <1>1, <1>2, <1>3, <1>4, <1>5 DEF KnativeStep

\* They bring their request from one stage to another.
LEMMA KnativeStages ==
  ASSUME TypeOK, CallOK, NEW r \in Reqs, Stage(r), KnativeStep(r), ~Fault
  PROVE  Stage(r)'
<1> USE DEF TypeOK, ControlOK, Goto, Fails, budget, objects, Stage, N, D
<1>1. CASE CreateKnativeService(r)
  <2> USE <1>1 DEF CreateKnativeService
  <2>1. CreateStage(r)'
    BY DEF CreateStage, Mine, Serious, Unmade
  <2>2. DeleteStage(r)'
    BY DEF DeleteStage
  <2>3. UpdateStage(r)'
    BY DEF UpdateStage, Updating, Applied
  <2> QED BY <2>1, <2>2, <2>3 DEF InvokeStage
<1>2. CASE ExposeService(r)
  <2> USE <1>2 DEF ExposeService
  <2>1. CreateStage(r)'
    BY DEF CreateStage, Mine, Serious, Unmade
  <2>2. DeleteStage(r)'
    BY DEF DeleteStage
  <2>3. UpdateStage(r)'
    BY DEF UpdateStage, Updating, Applied
  <2> QED BY <2>1, <2>2, <2>3 DEF InvokeStage
<1>3. CASE ReadOldKnativeService(r)
  <2> USE <1>3 DEF ReadOldKnativeService, UpdateReturnsError, Answer, SnapType
  <2>1. CreateStage(r)'
    BY DEF CreateStage, Mine, Serious, Unmade
  <2>2. DeleteStage(r)'
    BY DEF DeleteStage
  <2>3. UpdateStage(r)'
    BY DEF UpdateStage, Updating, Applied
  <2> QED BY <2>1, <2>2, <2>3 DEF InvokeStage
<1>4. CASE UpdateKnativeService(r)
  <2> USE <1>4 DEF UpdateKnativeService
  <2>1. CreateStage(r)'
    BY DEF CreateStage, Mine, Serious, Unmade
  <2>2. DeleteStage(r)'
    BY DEF DeleteStage
  <2>3. UpdateStage(r)'
    BY DEF UpdateStage, Updating, Applied
  <2> QED BY <2>1, <2>2, <2>3 DEF InvokeStage
<1>5. CASE DeleteKnativeService(r)
  <2> USE <1>5 DEF DeleteKnativeService
  <2>1. CreateStage(r)'
    BY DEF CreateStage, Mine, Serious, Unmade
  <2>2. DeleteStage(r)'
    BY DEF DeleteStage
  <2>3. UpdateStage(r)'
    BY DEF UpdateStage, Updating, Applied
  <2> QED BY <2>1, <2>2, <2>3 DEF InvokeStage
<1> QED BY <1>1, <1>2, <1>3, <1>4, <1>5 DEF KnativeStep

-----------------------------------------------------------------------------
(* The shapes of a service, when requests do not overlap and nothing fails. *)

\* A name is free, or a service that can run: one with a Knative Service made from
\* its definition, or one with its exposed objects.
Absent(n) == cm[n] = None /\ wl[n] = None /\ ~expose[n]
Present(n) ==
    /\ cm[n] # None
    /\ IF cm[n].def.exposed THEN expose[n] /\ wl[n] = None
       ELSE /\ wl[n] # None /\ wl[n].by = cm[n].by /\ wl[n].def = cm[n].def
            /\ wl[n].def.podSpec /\ ~expose[n]
Whole(n) == Absent(n) \/ Present(n)

\* A service in the making has its ConfigMap only.
Bare(n) == cm[n] # None /\ wl[n] = None /\ ~expose[n]

\* An update that has begun to change a service; the service is not exposed.
Midway(r) ==
    /\ cm[N(r)] # None /\ wl[N(r)] # None /\ wl[N(r)].by = cm[N(r)].by
    /\ ~expose[N(r)] /\ ~prior[r].exposed /\ prior[r].podSpec

Making == {"ensureVol", "createWL", "exposeNew", "undoCM", "rollbackCM"}
Removing == {"delCM", "delJobs", "delVol", "delSecret", "delExpose"}
Changing == {"uAdmit", "uGetWL", "uGet", "uCM", "uWL", "uRestore", "uExpose", "uPull"}

\* What request r knows of the objects of its service, by label.
ShapeStage(r) ==
    /\ pc[r] \in Making => Bare(N(r))
    /\ pc[r] = "createWL" => ~D(r).exposed
    /\ pc[r] = "exposeNew" => D(r).exposed
    /\ pc[r] \in Removing => wl[N(r)] = None /\ (expose[N(r)] => D(r).exposed)
    /\ pc[r] \in {"uAdmit", "uGetWL"} =>
          (Whole(N(r)) /\ cm[N(r)].def = prior[r]) \/ (undo[r] /\ Midway(r))
    /\ pc[r] \in Changing \ {"uAdmit", "uGetWL"} => Midway(r)
    /\ pc[r] \in {"uGet", "uCM", "uWL"} => snap[r].wl = wl[N(r)]
    /\ pc[r] = "uRestore" => ~undo[r]
    /\ pc[r] \in {"uExpose", "uPull"} => wl[N(r)].def = Applied(r) /\ Applied(r).podSpec
    /\ pc[r] = "uPull" => ~Applied(r).exposed

Shapes ==
    /\ \A r \in Reqs : ShapeStage(r)
    /\ \A n \in Names :
          Whole(n) \/ \E r \in Reqs : pc[r] \in Making \cup Removing \cup Changing /\ N(r) = n

\* A step keeps the shape of the services that it does not touch.
LEMMA ShapesElsewhere ==
  ASSUME TypeOK, Alone, Shapes, NEW r \in Reqs, Acts(r),
         \A n \in Names : n # N(r) => cm'[n] = cm[n] /\ wl'[n] = wl[n] /\ expose'[n] = expose[n],
         N(r)' = N(r), ShapeStage(r)',
         N(r) \in Names => Whole(N(r))' \/ pc'[r] \in Making \cup Removing \cup Changing
  PROVE  Shapes'
<1>1. \A q \in Reqs \ {r} : pc'[q] = pc[q] /\ pc[q] \in {"idle", "done"}
  BY OthersRest
<1>2. \A q \in Reqs : ShapeStage(q)'
  BY <1>1 DEF ShapeStage, Making, Removing, Changing
<1>3. ASSUME NEW n \in Names, n # N(r)
      PROVE Whole(n)' \/ (\E q \in Reqs : pc[q] \in Making \cup Removing \cup Changing /\ N(q) = n)'
  <2>1. Whole(n)
    BY <1>1, <1>3 DEF Shapes, Making, Removing, Changing
  <2> QED BY <1>3, <2>1 DEF Whole, Absent, Present
<1> QED BY <1>2, <1>3 DEF Shapes

\* Between the changes every name is free or a service.
LEMMA WholeBetween ==
  ASSUME Alone, Shapes, NEW r \in Reqs, pc[r] \notin Making \cup Removing \cup Changing \cup {"idle", "done"},
         NEW n \in Names
  PROVE  Whole(n)
  BY DEF Alone, InFlight, Shapes, Making, Removing, Changing

\* The steps that leave the objects of a service alone.
LEMMA ShapesQuiet ==
  ASSUME TypeOK, CallOK, Alone, Shapes, NEW r \in Reqs, Acts(r), ~Fault,
         UNCHANGED <<cm, wl, expose>>, N(r)' = N(r),
         pc[r] \notin Making \cup Removing \cup Changing,
         pc'[r] \notin Making \cup Removing \cup Changing
  PROVE  Shapes'
<1>1. ShapeStage(r)'
  BY DEF ShapeStage, Making, Removing, Changing
<1>2. ASSUME N(r) \in Names PROVE Whole(N(r))'
  <2>1. Whole(N(r))
    BY <1>2, WholeBetween DEF Acts
  <2> QED BY <2>1 DEF Whole, Absent, Present
<1> QED BY <1>1, <1>2, ShapesElsewhere

\* Which is what most steps do.
LEMMA ShapesPassing ==
  ASSUME TypeOK, CallOK, Alone, Shapes, NEW r \in Reqs, Acts(r), ~Fault,
         \/ CreateServiceSecret(r) \/ AdmitImage(r) \/ RollbackVolume(r) \/ PrefetchImage(r)
         \/ CreateFailed(r) \/ CreateMinIO(r) \/ DeleteServiceReturns(r) \/ CheckSameVolume(r)
         \/ InvokeRead(r) \/ InvokeCreate(r) \/ CreateVolume(r) \/ CountVolumeAttachments(r)
         \/ DeleteVolume(r) \/ ResolveServiceNamespace(r, "readCM") \/ ReadServiceConfigMap(r)
         \/ ImagePulled(r) /\ pc[r] = "pulling"
  PROVE  Shapes'
<1> USE DEF TypeOK, ControlOK, CallType, Goto, Answer, Fails, budget, objects, N, Making, Removing, Changing
<1> SUFFICES /\ UNCHANGED <<cm, wl, expose>> /\ N(r)' = N(r)
             /\ pc[r] \notin Making \cup Removing \cup Changing
             /\ pc'[r] \notin Making \cup Removing \cup Changing
  BY ShapesQuiet
<1>1. CASE CreateServiceSecret(r) \/ AdmitImage(r) \/ RollbackVolume(r) \/ PrefetchImage(r)
           \/ CreateFailed(r) \/ CreateMinIO(r) \/ DeleteServiceReturns(r) \/ CheckSameVolume(r)
  BY <1>1 DEF CreateServiceSecret, AdmitImage, RollbackVolume, PrefetchImage, CreateFailed, CreateMinIO,
              DeleteServiceReturns, CheckSameVolume
<1>2. CASE InvokeRead(r) \/ InvokeCreate(r) \/ CreateVolume(r) \/ CountVolumeAttachments(r) \/ DeleteVolume(r)
  BY <1>2 DEF InvokeRead, InvokeCreate, CreateVolume, CountVolumeAttachments, DeleteVolume
<1>3. CASE ResolveServiceNamespace(r, "readCM") \/ ReadServiceConfigMap(r)
  BY <1>3 DEF ResolveServiceNamespace, ReadServiceConfigMap
<1>4. CASE ImagePulled(r) /\ pc[r] = "pulling"
  BY <1>4 DEF ImagePulled
<1> QED BY <1>1, <1>2, <1>3, <1>4

\* A create: the ConfigMap, the claim, then the Knative Service or the exposed objects;
\* what fails half-way leaves the name free again.
LEMMA ShapesMaking ==
  ASSUME TypeOK, CallOK, Alone, Shapes, NEW r \in Reqs, Acts(r), ~Fault, Stage(r),
         \/ CreateServiceConfigMap(r) \/ EnsureVolume(r) \/ CreateKnativeService(r) \/ ExposeService(r)
         \/ RollbackConfigMap(r, "undoCM", "createFailed")
         \/ RollbackConfigMap(r, "rollbackCM", "rollbackVol")
  PROVE  Shapes'
<1> USE DEF TypeOK, ControlOK, ObjectsOK, Goto, Fails, budget, objects, N, D, Making, Removing, Changing
<1>1. N(r) \in Names /\ D(r) \in Defs /\ pc[r] \in Making \cup {"createCM"}
  BY DEF CallOK, CreateServiceConfigMap, EnsureVolume, EnsureServiceVolume, CreateKnativeService,
         ExposeService, RollbackConfigMap
<1>2. ShapeStage(r)
  BY DEF Shapes
<1> SUFFICES /\ \A n \in Names : n # N(r) => cm'[n] = cm[n] /\ wl'[n] = wl[n] /\ expose'[n] = expose[n]
             /\ UNCHANGED call /\ ShapeStage(r)'
             /\ Whole(N(r))' \/ pc'[r] \in Making
  BY <1>1, ShapesElsewhere
<1>3. NewObject(r, D(r)) # None /\ NewObject(r, D(r)).by = r /\ NewObject(r, D(r)).def = D(r)
  <2>1. NewObject(r, D(r)).def = D(r)
    BY DEF NewObject
  <2> QED BY <1>1, <2>1, NewObjectTypes, NoneAssumption
<1>4. CASE CreateServiceConfigMap(r)
  <2>1. Whole(N(r))
    BY <1>1, <1>4, WholeBetween DEF CreateServiceConfigMap
  <2> QED BY <1>1, <1>3, <1>4, <2>1 DEF CreateServiceConfigMap, ExposeService, Whole, Absent, Present, Bare, ShapeStage
<1>5. CASE EnsureVolume(r)
  BY <1>1, <1>2, <1>5 DEF EnsureVolume, EnsureServiceVolume, ExposeService, Bare, ShapeStage
<1>6. CASE CreateKnativeService(r)
  <2>1. cm[N(r)].by = r /\ cm[N(r)].def = D(r) /\ cm[N(r)] # None
    BY <1>6 DEF CreateKnativeService, Stage, CreateStage, Mine
  <2> QED BY <1>1, <1>2, <1>3, <1>6, <2>1 DEF CreateKnativeService, ExposeService, Whole, Present, Bare, ShapeStage
<1>7. CASE ExposeService(r)
  <2>1. cm[N(r)].by = r /\ cm[N(r)].def = D(r) /\ cm[N(r)] # None
    BY <1>7 DEF ExposeService, Stage, CreateStage, Mine
  <2>2. ~expose[N(r)] /\ wl[N(r)] = None /\ D(r).exposed
    BY <1>2, <1>7 DEF ExposeService, ShapeStage, Bare
  <2> QED BY <1>1, <1>7, <2>1, <2>2 DEF ExposeService, Whole, Present, ShapeStage
<1>8. CASE RollbackConfigMap(r, "undoCM", "createFailed") \/ RollbackConfigMap(r, "rollbackCM", "rollbackVol")
  <2>1. wl[N(r)] = None /\ ~expose[N(r)]
    BY <1>2, <1>8 DEF RollbackConfigMap, ShapeStage, Bare
  <2> QED BY <1>1, <1>8, <2>1 DEF RollbackConfigMap, Whole, Absent, ShapeStage, ExposeService
<1> QED BY <1>4, <1>5, <1>6, <1>7, <1>8

\* A delete: the Knative Service goes first and the exposed objects last.
LEMMA ShapesRemoving ==
  ASSUME TypeOK, CallOK, Alone, Shapes, NEW r \in Reqs, Acts(r), ~Fault, Stage(r),
         \/ DeleteKnativeService(r) \/ DeleteServiceConfigMap(r) \/ DeleteServiceJobs(r)
         \/ DeleteServiceVolume(r) \/ DeleteServiceSecret(r) \/ DeleteServiceExpose(r)
  PROVE  Shapes'
<1> USE DEF TypeOK, ControlOK, ObjectsOK, Goto, Fails, budget, objects, N, D, Making, Removing, Changing
<1>1. N(r) \in Names /\ D(r) \in Defs
  BY DEF CallOK, DeleteKnativeService, DeleteServiceConfigMap, DeleteServiceJobs, DeleteServiceVolume,
         DeleteServiceSecret, DeleteServiceExpose
<1>2. ShapeStage(r)
  BY DEF Shapes
<1> SUFFICES /\ \A n \in Names : n # N(r) => cm'[n] = cm[n] /\ wl'[n] = wl[n] /\ expose'[n] = expose[n]
             /\ UNCHANGED call /\ ShapeStage(r)'
             /\ Whole(N(r))' \/ pc'[r] \in Removing
  BY <1>1, ShapesElsewhere
<1>3. CASE DeleteKnativeService(r)
  <2>1. Whole(N(r)) /\ (cm[N(r)] # None => cm[N(r)].def = D(r))
    BY <1>1, <1>3, WholeBetween DEF DeleteKnativeService, Stage, DeleteStage
  <2> QED BY <1>1, <1>3, <2>1 DEF DeleteKnativeService, Whole, Absent, Present, ShapeStage
<1>4. CASE DeleteServiceConfigMap(r) \/ DeleteServiceJobs(r) \/ DeleteServiceVolume(r) \/ DeleteServiceSecret(r)
  BY <1>1, <1>2, <1>4 DEF DeleteServiceConfigMap, DeleteServiceJobs, DeleteServiceVolume, DeleteServiceSecret,
                          ShapeStage
<1>5. CASE DeleteServiceExpose(r)
  <2>1. cm[N(r)] = None /\ wl[N(r)] = None /\ (expose[N(r)] => D(r).exposed)
    BY <1>2, <1>5 DEF DeleteServiceExpose, Stage, DeleteStage, ShapeStage
  <2> QED BY <1>1, <1>5, <2>1 DEF DeleteServiceExpose, Whole, Absent, ShapeStage
<1> QED BY <1>3, <1>4, <1>5

\* The steps of an update that leave the objects alone.
LEMMA ShapesReading ==
  ASSUME TypeOK, CallOK, Alone, Unrestricted, Shapes, NEW r \in Reqs, Acts(r), ~Fault, Stage(r),
         \/ UpdateMinIO(r) \/ UpdateServiceSecret(r) \/ AdmitUpdate(r, "uGetWL")
         \/ ReadOldKnativeService(r) \/ ReadOldConfigMap(r) \/ UpdateServiceExpose(r)
         \/ ImagePulled(r) /\ pc[r] = "uPull"
  PROVE  Shapes'
<1> USE DEF TypeOK, ControlOK, ObjectsOK, Goto, Fails, Answer, budget, objects, Making, Removing, Changing
<1>1. /\ pc[r] \in Updating /\ N(r) \in Names /\ prior[r] \in Defs /\ D(r) \in Defs
      /\ UNCHANGED <<cm, wl, expose, call, prior>>
  BY DEF CallOK, Updating, UpdateMinIO, UpdateServiceSecret, AdmitUpdate, ReadOldKnativeService,
         ReadOldConfigMap, UpdateServiceExpose, ImagePulled
<1>2. ShapeStage(r) /\ UpdateStage(r) /\ cm[N(r)] # None
  BY <1>1 DEF Shapes, Stage, UpdateStage
<1>3. Applied(r).allowed
  BY <1>1 DEF Applied, Unrestricted
<1>4. /\ Whole(N(r))' <=> Whole(N(r))
      /\ Midway(r)' <=> Midway(r)
  BY <1>1 DEF Whole, Absent, Present, Midway, N
<1> SUFFICES ShapeStage(r)' /\ (Whole(N(r)) \/ pc'[r] \in Changing)
  BY <1>1, <1>4, ShapesElsewhere DEF N
<1>5. CASE UpdateMinIO(r) \/ UpdateServiceSecret(r)
  <2>1. Whole(N(r)) /\ cm[N(r)].def = prior[r]
    BY <1>1, <1>2, <1>5, WholeBetween DEF UpdateMinIO, UpdateServiceSecret, UpdateStage, Updating
  <2> QED BY <1>1, <1>4, <1>5, <2>1 DEF UpdateMinIO, UpdateServiceSecret, ShapeStage, N
<1>6. CASE AdmitUpdate(r, "uGetWL")
  BY <1>1, <1>2, <1>3, <1>4, <1>6 DEF AdmitUpdate, ShapeStage, N
<1>7. CASE ReadOldKnativeService(r)
  <2>1. CASE wl[N(r)] # None
    <3>1. Midway(r)
      BY <1>2, <1>7, <2>1 DEF ReadOldKnativeService, ShapeStage, Whole, Absent, Present, Midway
    <3> QED BY <1>1, <1>4, <1>7, <2>1, <3>1 DEF ReadOldKnativeService, ShapeStage, SnapType, N
  <2>2. CASE wl[N(r)] = None
    <3>1. Whole(N(r)) /\ cm[N(r)].def = prior[r]
      BY <1>2, <1>7, <2>2 DEF ReadOldKnativeService, ShapeStage, Midway
    <3> QED BY <1>1, <1>4, <1>7, <2>2, <3>1 DEF ReadOldKnativeService, UpdateReturnsError, ShapeStage, N
  <2> QED BY <2>1, <2>2
<1>8. CASE ReadOldConfigMap(r)
  BY <1>1, <1>2, <1>4, <1>8 DEF ReadOldConfigMap, ShapeStage, SnapType, N
<1>9. CASE UpdateServiceExpose(r)
  <2>1. Midway(r) /\ wl[N(r)].def = Applied(r) /\ cm[N(r)].def = Applied(r) /\ Applied(r).podSpec
    BY <1>2, <1>9 DEF UpdateServiceExpose, ShapeStage, UpdateStage
  <2>2. CASE UpdateReturnsError(r) /\ (Applied(r).exposed \/ Applied(r).prefetch)
    <3>1. Applied(r).exposed => ~undo[r]
      BY <2>1 DEF Midway, Applied
    <3>2. ~Applied(r).exposed => Whole(N(r)) /\ (undo[r] => cm[N(r)].def = prior[r])
      BY <2>1 DEF Midway, Whole, Present, Applied
    <3>3. CASE undo[r]
      BY <1>1, <1>9, <2>2, <3>1, <3>2, <3>3 DEF UpdateServiceExpose, UpdateReturnsError, ShapeStage
    <3>4. CASE ~undo[r]
      <4>1. pc'[r] = "uAdmit" /\ undo'[r]
        BY <1>9, <2>2, <3>4 DEF UpdateServiceExpose, UpdateReturnsError
      <4> QED BY <1>1, <1>4, <2>1, <4>1 DEF ShapeStage, N
    <3> QED BY <3>3, <3>4
  <2>3. CASE UpdateReturnsOk(r) /\ ~Applied(r).exposed
    <3>1. Whole(N(r))
      BY <2>1, <2>3 DEF Midway, Whole, Present
    <3> QED BY <1>1, <1>9, <2>3, <3>1 DEF UpdateServiceExpose, UpdateReturnsOk, ShapeStage
  <2>4. Applied(r).exposed => ~expose[N(r)]
    BY <2>1 DEF Midway
  <2>5. CASE Applied(r).prefetch /\ pc'[r] = "uPull" /\ UNCHANGED undo
    <3>1. Applied(r)' = Applied(r)
      BY <1>1, <2>5 DEF Applied, D
    <3> QED BY <1>1, <1>4, <1>9, <2>1, <2>4, <2>5, <3>1 DEF UpdateServiceExpose, UpdateReturnsError, UpdateReturnsOk, ShapeStage, N
  <2> QED BY <1>9, <2>2, <2>3, <2>4, <2>5 DEF UpdateServiceExpose
<1>10. CASE ImagePulled(r) /\ pc[r] = "uPull"
  <2>1. /\ Midway(r) /\ wl[N(r)].def = Applied(r) /\ cm[N(r)].def = Applied(r)
        /\ Applied(r).podSpec /\ ~Applied(r).exposed
    BY <1>2, <1>10 DEF ShapeStage, UpdateStage
  <2>2. Whole(N(r))
    BY <2>1 DEF Midway, Whole, Present
  <2> QED BY <1>1, <1>10, <2>2 DEF ImagePulled, UpdateReturnsOk, ShapeStage
<1> QED BY <1>5, <1>6, <1>7, <1>8, <1>9, <1>10

\* The steps of an update that write the ConfigMap or the Knative Service.
LEMMA ShapesWriting ==
  ASSUME TypeOK, CallOK, Alone, Shapes, NEW r \in Reqs, Acts(r), ~Fault, Stage(r),
         UpdateServiceConfigMap(r) \/ UpdateKnativeService(r) \/ RestoreOldConfigMap(r)
  PROVE  Shapes'
<1> USE DEF TypeOK, ControlOK, ObjectsOK, Goto, Fails, Answer, budget, objects, Making, Removing, Changing
<1>1. /\ pc[r] \in {"uCM", "uWL", "uRestore"} /\ N(r) \in Names /\ Applied(r) \in Defs
      /\ snap[r].cm.def \in Defs
      /\ UNCHANGED <<expose, call, prior, snap>>
      /\ \A n \in Names : n # N(r) => cm'[n] = cm[n] /\ wl'[n] = wl[n]
  BY DEF CallOK, Applied, UpdateServiceConfigMap, UpdateKnativeService, RestoreOldConfigMap, ObjectType
<1>2. ShapeStage(r) /\ Midway(r)
  BY <1>1 DEF Shapes, ShapeStage
<1>3. /\ cm[N(r)] \in ObjectType /\ wl[N(r)] \in ObjectType
      /\ \A d \in Defs : /\ Updated(cm[N(r)], d) # None /\ Updated(cm[N(r)], d).by = cm[N(r)].by
                         /\ Updated(wl[N(r)], d) # None /\ Updated(wl[N(r)], d).by = wl[N(r)].by
                         /\ Updated(wl[N(r)], d).def = d
  <2>1. cm[N(r)] \in ObjectType /\ wl[N(r)] \in ObjectType
    BY <1>1, <1>2 DEF Midway
  <2>2. \A d \in Defs : Updated(wl[N(r)], d).def = d
    BY DEF Updated
  <2> QED BY <2>1, <2>2, UpdatedTypes, NoneAssumption
<1> SUFFICES ShapeStage(r)' /\ pc'[r] \in Changing
  BY <1>1, ShapesElsewhere DEF N
<1>4. CASE UpdateServiceConfigMap(r)
  BY <1>1, <1>2, <1>3, <1>4 DEF UpdateServiceConfigMap, ShapeStage, Midway, N
<1>5. CASE RestoreOldConfigMap(r)
  <2>1. UNCHANGED wl /\ pc'[r] = "uAdmit" /\ undo'[r]
        /\ cm'[N(r)] # None /\ cm'[N(r)].by = cm[N(r)].by
    BY <1>1, <1>2, <1>3, <1>5 DEF RestoreOldConfigMap, UpdateReturnsError, ShapeStage, Midway
  <2> QED BY <1>1, <1>2, <2>1 DEF ShapeStage, Midway, N
<1>6. CASE UpdateKnativeService(r)
  <2>1. Current(wl[N(r)], snap[r].wl)
    BY <1>2, <1>6 DEF UpdateKnativeService, ShapeStage, Midway, Current
  <2>2. UNCHANGED <<cm, undo>> /\ Applied(r)' = Applied(r)
    BY <1>6 DEF UpdateKnativeService, Applied, D
  <2>3. CASE Applied(r).podSpec
    BY <1>1, <1>2, <1>3, <1>6, <2>1, <2>2, <2>3 DEF UpdateKnativeService, ShapeStage, Midway, N
  <2>4. CASE ~Applied(r).podSpec
    <3>1. ~undo[r]
      BY <1>2, <2>4 DEF Applied, Midway
    <3> QED BY <1>1, <1>2, <1>6, <2>1, <2>2, <2>4, <3>1 DEF UpdateKnativeService, ShapeStage, Midway, N
  <2> QED BY <2>3, <2>4
<1> QED BY <1>4, <1>5, <1>6

-----------------------------------------------------------------------------
(* Whose claims are deleted. *)

\* ConfigMaps are made by a create for that name.
Named == \A n \in Names : cm[n] # None => pc[cm[n].by] # "idle" /\ call[cm[n].by].name = n

\* The claim of volume v is one that a service of definition d makes.
Own(v, d) == pvc[v] # None /\ pvc[v].mode = "service" /\ pvc[v].policy = LifecyclePolicy(d)

\* A service that creates its volume has the claim that its own create made.
Mounts(n) ==
    cm[n] # None /\ CreatesManagedVolume(cm[n].def) =>
        Own(cm[n].def.vname, cm[n].def) /\ pvc[cm[n].def.vname].by = cm[n].by

\* A step of request r leaves open what was asked for only where a delete reads it.
SameAsk(r) ==
    /\ call'[r].op = call[r].op
    /\ call[r].op = "create" => call'[r].def = call[r].def

\* What request r knows of the claim that it is going to delete.
ClaimStage(r) ==
    /\ pc[r] = "undoCM" => ~Serious(r)
    /\ pc[r] = "rollbackVol" /\ DropsVolume(D(r)) =>
          pvc[D(r).vname] = None \/ pvc[D(r).vname].by = r
    /\ pc[r] = "createFailed" /\ Serious(r) /\ DropsVolume(D(r)) /\ cm[N(r)] = None => pvc[D(r).vname] = None
    /\ pc[r] \in {"delWL", "delCM"} /\ DropsVolume(D(r)) /\ cm[N(r)] = None => pvc[D(r).vname] = None
    /\ pc[r] \in {"delWL", "delCM"} /\ call[r].op = "create" /\ cm[N(r)] # None => cm[N(r)].by = r
    /\ pc[r] \in {"delJobs", "delVol"} /\ DropsVolume(D(r)) /\ pvc[D(r).vname] # None =>
          /\ Own(D(r).vname, D(r))
          /\ call[pvc[D(r).vname].by].name = N(r)
          /\ call[r].op = "create" => pvc[D(r).vname].by = r

Rightful ==
    /\ \A n \in Names : Mounts(n) \/ \E r \in Reqs : pc[r] \in {"ensureVol", "undoCM"} /\ N(r) = n
    /\ \A r \in Reqs : ClaimStage(r)

\* Two definitions with the same volume block make the same claim.
LEMMA SameClaim ==
  ASSUME NEW d \in Defs, NEW e \in Defs, SameVolumeConfig(d, e)
  PROVE  /\ CreatesManagedVolume(d) <=> CreatesManagedVolume(e)
         /\ CreatesManagedVolume(d) => d.vname = e.vname /\ LifecyclePolicy(d) = LifecyclePolicy(e)
<1>1. CreatesManagedVolume(d) <=> CreatesManagedVolume(e)
  BY DEF SameVolumeConfig, CreatesManagedVolume
<1>2. CreatesManagedVolume(d) => d.vname = e.vname /\ d.policy = e.policy
  BY DEF SameVolumeConfig, CreatesManagedVolume
<1>3. d.policy = e.policy => LifecyclePolicy(d) = LifecyclePolicy(e)
  BY DEF LifecyclePolicy
<1> QED BY <1>1, <1>2, <1>3

\* The claim of a service that is deleted with its volume has the policy "delete".
LEMMA DropsMeansDelete ==
  ASSUME NEW d \in Defs, DropsVolume(d)
  PROVE  LifecyclePolicy(d) = "delete" /\ CreatesManagedVolume(d)
<1>1. d.policy \in {"", "delete", "retain"}
  BY DefsAssumption DEF DefType
<1> QED BY <1>1 DEF DropsVolume, LifecyclePolicy

\* The new claim of a service.
LEMMA ServiceClaimTypes ==
  ASSUME NEW r \in Reqs, NEW d \in Defs
  PROVE  [mode |-> "service", by |-> r, policy |-> LifecyclePolicy(d)] # None
<1>1. [mode |-> "service", by |-> r, policy |-> LifecyclePolicy(d)] \in ClaimType
  BY DefsAssumption DEF DefType, LifecyclePolicy, ClaimType
<1> QED BY <1>1, NoneAssumption

\* Apart from the three steps that delete claims, claims stay.
LEMMA ClaimsStay ==
  ASSUME TypeOK, CallOK, NEW r \in Reqs, Moves(r), ~RollbackVolume(r), ~DeleteServiceVolume(r), ~DeleteVolume(r),
         NEW v \in Volumes, pvc[v] # None
  PROVE  pvc'[v] = pvc[v]
<1> USE DEF TypeOK, ObjectsOK, ControlOK, objects, Fault, budget
<1>1. CASE KnativeStep(r)
  BY <1>1, KnativeActs DEF QuietBooks
<1>2. CASE EnsuresVolume(r)
  <2>1. D(r).vname \in Volumes
    BY <1>2, DefsAssumption DEF EnsuresVolume, EnsureServiceVolume, CallOK, DefType
  <2> QED BY <1>2, <2>1 DEF EnsuresVolume, EnsureServiceVolume
<1>3. CASE CreateVolume(r)
  BY <1>3 DEF CreateVolume, CallOK
<1>4. CASE RollsBack(r) \/ Resolves(r) \/ ReadServiceConfigMap(r) \/ AdmitsUpdate(r)
  BY <1>4 DEF RollsBack, RollbackConfigMap, Resolves, ResolveServiceNamespace, ReadServiceConfigMap, AdmitsUpdate,
              AdmitUpdate
<1>5. CASE CreateServiceSecret(r) \/ AdmitImage(r) \/ CreateServiceConfigMap(r)
           \/ PrefetchImage(r) \/ ImagePulled(r) \/ CreateFailed(r) \/ CreateMinIO(r)
  BY <1>5 DEF CreateServiceSecret, AdmitImage, CreateServiceConfigMap, PrefetchImage, ImagePulled, CreateFailed,
              CreateMinIO
<1>6. CASE DeleteServiceConfigMap(r) \/ DeleteServiceJobs(r)
           \/ DeleteServiceSecret(r) \/ DeleteServiceExpose(r) \/ DeleteServiceReturns(r)
  BY <1>6 DEF DeleteServiceConfigMap, DeleteServiceJobs, DeleteServiceSecret, DeleteServiceExpose,
              DeleteServiceReturns
<1>7. CASE CheckSameVolume(r) \/ UpdateMinIO(r) \/ UpdateServiceSecret(r) \/ ReadOldConfigMap(r)
           \/ UpdateServiceConfigMap(r) \/ RestoreOldConfigMap(r) \/ UpdateServiceExpose(r)
  BY <1>7 DEF CheckSameVolume, UpdateMinIO, UpdateServiceSecret, ReadOldConfigMap, UpdateServiceConfigMap,
              RestoreOldConfigMap, UpdateServiceExpose
<1>8. CASE InvokeRead(r) \/ InvokeCreate(r) \/ CountVolumeAttachments(r)
  BY <1>8 DEF InvokeRead, InvokeCreate, CountVolumeAttachments
<1> QED BY <1>1, <1>2, <1>3, <1>4, <1>5, <1>6, <1>7, <1>8, StepIsCommon DEF CommonStep, SharedStep

\* ConfigMaps change their maker only when they are made anew, by a create for their name;
\* and a create keeps its definition.
LEMMA StepNamed ==
  ASSUME TypeOK, CallOK, Named, NEW r \in Reqs, Moves(r)
  PROVE  /\ Named' /\ pc'[r] # "idle" /\ SameAsk(r)
         /\ \A n \in Names : n # N(r) => cm'[n] = cm[n]
<1> USE DEF TypeOK, ObjectsOK, ControlOK, CallType, objects, Fault, budget, Goto, Fails, Answer, N, SameAsk
<1>1. Acts(r)
  BY StepIsCommon, CommonActs, KnativeActs
<1>2. pc[r] # "idle" /\ pc'[r] # "idle" /\ call'[r].name = call[r].name /\ SameAsk(r)
      /\ \A n \in Names : /\ n # N(r) => cm'[n] = cm[n]
                          /\ cm'[n] # None => \/ cm[n] # None /\ cm'[n].by = cm[n].by
                                              \/ n = N(r) /\ cm'[n].by = r
  <2>1. CASE KnativeStep(r)
    BY <2>1, KnativeActs DEF QuietBooks, Acts, KnativeStep, CreateKnativeService, ExposeService,
       ReadOldKnativeService, UpdateKnativeService, DeleteKnativeService, UpdateReturnsError
  <2>2. CASE EnsuresVolume(r) \/ RollsBack(r) \/ Resolves(r) \/ AdmitsUpdate(r)
    BY <2>2 DEF EnsuresVolume, EnsureServiceVolume, RollsBack, RollbackConfigMap, Resolves,
                ResolveServiceNamespace, AdmitsUpdate, AdmitUpdate, UpdateReturnsError
  <2>3. CASE ReadServiceConfigMap(r)
    BY <2>3 DEF ReadServiceConfigMap
  <2>4. CASE CreateServiceConfigMap(r)
    <3>1. N(r) \in Names /\ NewObject(r, D(r)).by = r
      BY <2>4 DEF CreateServiceConfigMap, CallOK, NewObject
    <3> QED BY <2>4, <3>1 DEF CreateServiceConfigMap
  <2>5. CASE UpdateServiceConfigMap(r)
    <3>1. \A o, d : Updated(o, d).by = o.by
      BY DEF Updated
    <3> QED BY <2>5, <3>1 DEF UpdateServiceConfigMap, UpdateReturnsError
  <2>6. CASE RestoreOldConfigMap(r)
    <3>1. \A o, d : Updated(o, d).by = o.by
      BY DEF Updated
    <3> QED BY <2>6, <3>1 DEF RestoreOldConfigMap, UpdateReturnsError, Current
  <2>7. CASE CreateServiceSecret(r) \/ AdmitImage(r) \/ RollbackVolume(r)
             \/ PrefetchImage(r) \/ ImagePulled(r) \/ CreateFailed(r) \/ CreateMinIO(r)
    BY <2>7 DEF CreateServiceSecret, AdmitImage, RollbackVolume, PrefetchImage, ImagePulled, UpdateReturnsOk,
                CreateFailed, CreateMinIO
  <2>8. CASE DeleteServiceConfigMap(r) \/ DeleteServiceJobs(r) \/ DeleteServiceVolume(r)
             \/ DeleteServiceSecret(r) \/ DeleteServiceExpose(r) \/ DeleteServiceReturns(r)
    BY <2>8 DEF DeleteServiceConfigMap, DeleteServiceJobs, DeleteServiceVolume,
                DeleteServiceSecret, DeleteServiceExpose, DeleteServiceReturns
  <2>9. CASE CheckSameVolume(r) \/ UpdateMinIO(r) \/ UpdateServiceSecret(r) \/ ReadOldConfigMap(r)
             \/ UpdateServiceExpose(r)
    BY <2>9 DEF CheckSameVolume, UpdateMinIO, UpdateServiceSecret, ReadOldConfigMap, UpdateServiceExpose,
                UpdateReturnsError, UpdateReturnsOk
  <2>10. CASE InvokeRead(r) \/ InvokeCreate(r) \/ CreateVolume(r) \/ CountVolumeAttachments(r) \/ DeleteVolume(r)
    BY <2>10 DEF InvokeRead, InvokeCreate, CreateVolume, CountVolumeAttachments, DeleteVolume
  <2> QED BY <2>1, <2>2, <2>3, <2>4, <2>5, <2>6, <2>7, <2>8, <2>9, <2>10, StepIsCommon DEF CommonStep, SharedStep
<1>3. Named'
  <2>1. \A n \in Names : cm[n] # None => cm[n].by \in Reqs
    BY DEF ObjectType
  <2>2. \A q \in Reqs \ {r} : pc'[q] = pc[q] /\ call'[q] = call[q]
    BY <1>1 DEF Acts
  <2> SUFFICES ASSUME NEW n \in Names, cm'[n] # None
               PROVE  pc'[cm'[n].by] # "idle" /\ call'[cm'[n].by].name = n
    BY DEF Named
  <2>3. CASE cm[n] # None /\ cm'[n].by = cm[n].by
    <3>1. pc[cm[n].by] # "idle" /\ call[cm[n].by].name = n /\ cm[n].by \in Reqs
      BY <2>1, <2>3 DEF Named
    <3> QED BY <1>2, <2>2, <2>3, <3>1
  <2>4. CASE n = N(r) /\ cm'[n].by = r
    BY <1>2, <2>4
  <2> QED BY <1>2, <2>3, <2>4
<1> QED BY <1>2, <1>3

\* The services that a request is not about have their claims, and so has its own.
LEMMA MountsBetween ==
  ASSUME TypeOK, Alone, Rightful, NEW r \in Reqs, pc[r] \notin {"idle", "done"}, NEW n \in Names,
         n # N(r) \/ pc[r] \notin {"ensureVol", "undoCM"}
  PROVE  Mounts(n)
  BY DEF Alone, InFlight, Rightful

\* A step keeps the claims of the services that it does not touch.
LEMMA RightfulElsewhere ==
  ASSUME TypeOK, Alone, Rightful, NEW r \in Reqs, Acts(r), N(r)' = N(r),
         \A n \in Names : n # N(r) => cm'[n] = cm[n],
         \A n \in Names : n # N(r) /\ cm[n] # None /\ CreatesManagedVolume(cm[n].def) /\ Mounts(n)
             => pvc'[cm[n].def.vname] = pvc[cm[n].def.vname],
         N(r) \in Names => Mounts(N(r))' \/ pc'[r] \in {"ensureVol", "undoCM"},
         ClaimStage(r)'
  PROVE  Rightful'
<1>1. \A q \in Reqs \ {r} : pc'[q] = pc[q] /\ pc[q] \in {"idle", "done"}
  BY OthersRest
<1>2. \A q \in Reqs : ClaimStage(q)'
  BY <1>1 DEF ClaimStage
<1>3. ASSUME NEW n \in Names, n # N(r) PROVE Mounts(n)'
  <2>1. Mounts(n)
    BY <1>3, MountsBetween DEF Acts
  <2> QED BY <1>3, <2>1 DEF Mounts, Own
<1> QED BY <1>2, <1>3 DEF Rightful

\* The steps that leave ConfigMaps and claims alone.
LEMMA RightfulQuiet ==
  ASSUME TypeOK, Alone, Rightful, NEW r \in Reqs, Acts(r), N(r)' = N(r), UNCHANGED <<cm, pvc>>,
         pc[r] \notin {"ensureVol", "undoCM"}, ClaimStage(r)'
  PROVE  Rightful'
<1>1. ASSUME N(r) \in Names PROVE Mounts(N(r))'
  <2>1. Mounts(N(r))
    BY <1>1, MountsBetween DEF Acts
  <2> QED BY <2>1 DEF Mounts, Own
<1> QED BY <1>1, RightfulElsewhere

\* Most of them go nowhere near the delete of a claim.
LEMMA RightfulPassing ==
  ASSUME TypeOK, CallOK, Alone, Rightful, NEW r \in Reqs, Admissible(r), Acts(r), ~Fault,
         \/ CreateServiceSecret(r) \/ AdmitImage(r) \/ ImagePulled(r)
         \/ DeleteServiceSecret(r) \/ DeleteServiceExpose(r) \/ DeleteServiceReturns(r)
         \/ CheckSameVolume(r) \/ UpdateMinIO(r) \/ UpdateServiceSecret(r) \/ AdmitUpdate(r, "uGetWL")
         \/ ReadOldKnativeService(r) \/ ReadOldConfigMap(r) \/ UpdateKnativeService(r) \/ UpdateServiceExpose(r)
         \/ InvokeRead(r) \/ InvokeCreate(r) \/ CountVolumeAttachments(r)
         \/ ResolveServiceNamespace(r, "readCM") \/ CreateKnativeService(r)
  PROVE  Rightful'
<1> USE DEF TypeOK, ControlOK, Goto, Answer, Fails, budget, objects, N
<1> SUFFICES /\ UNCHANGED <<cm, pvc, call>> /\ pc[r] \notin {"ensureVol", "undoCM"}
             /\ pc'[r] \notin {"undoCM", "rollbackVol", "createFailed", "delWL", "delCM", "delJobs", "delVol"}
  <2>1. ClaimStage(r)'
    BY DEF ClaimStage
  <2> QED BY <2>1, RightfulQuiet
<1>1. CASE AdmitImage(r)
  <2>1. D(r).allowed
    BY <1>1 DEF AdmitImage, Admissible
  <2> QED BY <1>1, <2>1 DEF AdmitImage
<1>2. CASE CreateServiceSecret(r) \/ ImagePulled(r)
           \/ DeleteServiceSecret(r) \/ DeleteServiceExpose(r) \/ DeleteServiceReturns(r)
  BY <1>2 DEF CreateServiceSecret, ImagePulled, UpdateReturnsOk, DeleteServiceSecret, DeleteServiceExpose,
              DeleteServiceReturns
<1>3. CASE CheckSameVolume(r) \/ UpdateMinIO(r) \/ UpdateServiceSecret(r) \/ AdmitUpdate(r, "uGetWL")
  BY <1>3 DEF CheckSameVolume, UpdateMinIO, UpdateServiceSecret, AdmitUpdate, UpdateReturnsError
<1>4. CASE ReadOldKnativeService(r) \/ ReadOldConfigMap(r) \/ UpdateKnativeService(r) \/ UpdateServiceExpose(r)
  BY <1>4 DEF ReadOldKnativeService, ReadOldConfigMap, UpdateKnativeService, UpdateServiceExpose,
              UpdateReturnsError, UpdateReturnsOk
<1>5. CASE InvokeRead(r) \/ InvokeCreate(r) \/ CountVolumeAttachments(r) \/ ResolveServiceNamespace(r, "readCM")
  BY <1>5 DEF InvokeRead, InvokeCreate, CountVolumeAttachments, ResolveServiceNamespace
<1>6. CASE CreateKnativeService(r)
  BY <1>6 DEF CreateKnativeService
<1> QED BY <1>1, <1>2, <1>3, <1>4, <1>5, <1>6

\* Those that bring a request near it: what the request carries is its service's own.
LEMMA RightfulTurning ==
  ASSUME TypeOK, CallOK, Alone, Rightful, NEW r \in Reqs, Acts(r), ~Fault, Stage(r), AllAsked,
         \/ CreateFailed(r) \/ CreateMinIO(r) \/ ReadServiceConfigMap(r)
         \/ DeleteKnativeService(r) \/ DeleteServiceJobs(r)
         \/ ExposeService(r) \/ PrefetchImage(r)
  PROVE  Rightful'
<1> USE DEF TypeOK, ControlOK, ObjectsOK, CallType, Goto, Answer, Fails, budget, objects, N, D
<1>1. /\ UNCHANGED <<cm, pvc>> /\ N(r)' = N(r) /\ pc[r] \notin {"ensureVol", "undoCM"}
      /\ N(r) \in Names
  BY DEF CreateFailed, CreateMinIO, ReadServiceConfigMap, DeleteKnativeService, DeleteServiceJobs,
         ExposeService, PrefetchImage, CallOK
<1>2. ClaimStage(r)
  BY DEF Rightful
<1> SUFFICES ClaimStage(r)'
  BY <1>1, RightfulQuiet
<1>3. CASE CreateFailed(r)
  BY <1>1, <1>2, <1>3 DEF CreateFailed, ClaimStage, Serious, Stage, CreateStage, Mine
<1>4. CASE CreateMinIO(r)
  BY <1>1, <1>2, <1>4 DEF CreateMinIO, ClaimStage, Stage, CreateStage, Mine
<1>5. CASE ReadServiceConfigMap(r)
  BY <1>1, <1>2, <1>5 DEF ReadServiceConfigMap, ClaimStage
<1>6. CASE DeleteKnativeService(r)
  BY <1>1, <1>2, <1>6 DEF DeleteKnativeService, ClaimStage
<1>7. CASE DeleteServiceJobs(r)
  BY <1>1, <1>2, <1>7 DEF DeleteServiceJobs, ClaimStage, Own
<1>8. CASE ExposeService(r) \/ PrefetchImage(r)
  <2>1. cm[N(r)] # None /\ UNCHANGED call /\ pc'[r] \in {"prefetch", "pulling", "minio", "createFailed"}
    BY <1>8 DEF ExposeService, PrefetchImage, Stage, CreateStage, Mine
  <2> QED BY <1>1, <2>1 DEF ClaimStage
<1> QED BY <1>3, <1>4, <1>5, <1>6, <1>7, <1>8

\* The steps that write a ConfigMap: the claim of a service is made after its
\* ConfigMap, and deleted after it.
LEMMA RightfulConfigMaps ==
  ASSUME TypeOK, CallOK, Alone, Named, Rightful, NEW r \in Reqs, Acts(r), ~Fault, Stage(r),
         \/ CreateServiceConfigMap(r) \/ DeleteServiceConfigMap(r)
         \/ RollbackConfigMap(r, "undoCM", "createFailed") \/ RollbackConfigMap(r, "rollbackCM", "rollbackVol")
         \/ UpdateServiceConfigMap(r) \/ RestoreOldConfigMap(r)
  PROVE  Rightful'
<1> USE DEF TypeOK, ControlOK, ObjectsOK, Goto, Answer, Fails, budget, objects, N, D
<1>1. /\ UNCHANGED <<pvc, call>> /\ N(r) \in Names
      /\ \A n \in Names : n # N(r) => cm'[n] = cm[n]
      /\ pc[r] \notin {"idle", "done", "ensureVol"}
  BY DEF CreateServiceConfigMap, DeleteServiceConfigMap, RollbackConfigMap, UpdateServiceConfigMap,
         RestoreOldConfigMap, CallOK
<1>2. ClaimStage(r)
  BY DEF Rightful
<1>3. pc[r] # "undoCM" => Mounts(N(r))
  BY <1>1, MountsBetween
<1> SUFFICES (Mounts(N(r))' \/ pc'[r] = "ensureVol") /\ ClaimStage(r)'
  BY <1>1, RightfulElsewhere
<1>4. CASE CreateServiceConfigMap(r)
  <2>1. CASE cm[N(r)] = None
    BY <1>1, <1>4, <2>1 DEF CreateServiceConfigMap, ClaimStage
  <2>2. CASE cm[N(r)] # None
    <3>1. UNCHANGED cm /\ pc'[r] = "createFailed" /\ err'[r] = "exists" /\ pc[r] = "createCM"
      BY <1>4, <2>2 DEF CreateServiceConfigMap
    <3>2. Mounts(N(r))'
      BY <1>1, <1>3, <3>1 DEF Mounts, Own
    <3> QED BY <3>1, <3>2 DEF ClaimStage, Serious
  <2> QED BY <2>1, <2>2
<1>5. CASE RollbackConfigMap(r, "undoCM", "createFailed")
  BY <1>1, <1>2, <1>5 DEF RollbackConfigMap, ClaimStage, Serious, Mounts
<1>6. CASE RollbackConfigMap(r, "rollbackCM", "rollbackVol")
  <2>1. pc[r] = "rollbackCM" /\ cm[N(r)] # None /\ cm[N(r)].by = r /\ cm[N(r)].def = D(r)
    BY <1>6 DEF RollbackConfigMap, Stage, CreateStage, Mine
  <2>2. DropsVolume(D(r)) => pvc[D(r).vname].by = r
    BY <1>3, <2>1 DEF Mounts, DropsVolume
  <2> QED BY <1>1, <1>6, <2>2 DEF RollbackConfigMap, ClaimStage, Mounts
<1>7. CASE DeleteServiceConfigMap(r)
  <2>1. cm[N(r)] # None /\ DropsVolume(D(r)) =>
           /\ Own(D(r).vname, D(r)) /\ pvc[D(r).vname].by = cm[N(r)].by
           /\ call[cm[N(r)].by].name = N(r)
           /\ call[r].op = "create" => cm[N(r)].by = r
    BY <1>1, <1>2, <1>3, <1>7 DEF DeleteServiceConfigMap, Stage, DeleteStage, ClaimStage, Mounts, Named,
                                  DropsVolume
  <2> QED BY <1>1, <1>2, <1>7, <2>1 DEF DeleteServiceConfigMap, ClaimStage, Mounts, Own
<1>8. CASE UpdateServiceConfigMap(r) \/ RestoreOldConfigMap(r)
  <2>1. /\ pc[r] \in Updating \ {"uSame"} /\ cm[N(r)] # None /\ cm[N(r)].def \in {prior[r], D(r)}
        /\ SameVolumeConfig(prior[r], D(r)) /\ prior[r] \in Defs /\ D(r) \in Defs
        /\ pc[r] = "uRestore" => snap[r].cm.def \in {prior[r], D(r)}
    BY <1>8 DEF UpdateServiceConfigMap, RestoreOldConfigMap, Stage, UpdateStage, Updating, CallOK
  <2>2. \/ cm'[N(r)] = cm[N(r)]
        \/ \E d \in {prior[r], D(r)} : cm'[N(r)] = Updated(cm[N(r)], d)
    BY <1>1, <1>8, <2>1 DEF UpdateServiceConfigMap, RestoreOldConfigMap, Applied
  <2>3. cm'[N(r)].by = cm[N(r)].by /\ cm'[N(r)].def \in {prior[r], D(r)}
    BY <2>1, <2>2 DEF Updated
  <2>4. Mounts(N(r)) 
    BY <1>3, <2>1 DEF Updating
  <2>5. Mounts(N(r))'
    <3>1. /\ CreatesManagedVolume(cm[N(r)].def) <=> CreatesManagedVolume(cm'[N(r)].def)
          /\ CreatesManagedVolume(cm[N(r)].def) =>
               /\ cm[N(r)].def.vname = cm'[N(r)].def.vname
               /\ LifecyclePolicy(cm[N(r)].def) = LifecyclePolicy(cm'[N(r)].def)
      BY <2>1, <2>3, SameClaim
    <3> QED BY <1>1, <2>1, <2>3, <2>4, <3>1 DEF Mounts, Own
  <2> QED BY <1>1, <1>8, <2>5 DEF UpdateServiceConfigMap, RestoreOldConfigMap, UpdateReturnsError, ClaimStage
<1> QED BY <1>4, <1>5, <1>6, <1>7, <1>8

\* A stored definition names a volume.
LEMMA StoredVolume ==
  ASSUME TypeOK, NEW n \in Names, cm[n] # None
  PROVE  cm[n].def.vname \in Volumes
<1>1. cm[n].def \in Defs
  BY DEF TypeOK, ObjectsOK, ObjectType
<1> QED BY <1>1, DefsAssumption DEF DefType

\* The steps that write claims.
LEMMA RightfulClaims ==
  ASSUME TypeOK, CallOK, Alone, Named, Rightful, NEW r \in Reqs, Acts(r), ~Fault, Stage(r), Unattached,
         \/ EnsureVolume(r) \/ RollbackVolume(r) \/ DeleteServiceVolume(r) \/ CreateVolume(r) \/ DeleteVolume(r)
  PROVE  Rightful'
<1> USE DEF TypeOK, ControlOK, ObjectsOK, Goto, Answer, Fails, budget, objects, N, D
<1>1. UNCHANGED <<cm, call>>
  BY DEF EnsureVolume, EnsureServiceVolume, RollbackVolume, DeleteServiceVolume, CreateVolume, DeleteVolume
<1>2. ClaimStage(r)
  BY DEF Rightful
<1>3. EnsureVolume(r) \/ RollbackVolume(r) \/ DeleteServiceVolume(r) =>
         D(r) \in Defs /\ D(r).vname \in Volumes /\ N(r) \in Names
  BY DefsAssumption DEF EnsureVolume, EnsureServiceVolume, RollbackVolume, DeleteServiceVolume, CallOK, DefType
<1>4. CASE EnsureVolume(r)
  <2>1. cm[N(r)] # None /\ cm[N(r)].by = r /\ cm[N(r)].def = D(r) /\ pc[r] = "ensureVol"
    BY <1>4 DEF EnsureVolume, EnsureServiceVolume, Stage, CreateStage, Mine
  <2>2. CASE CreatesManagedVolume(D(r)) /\ pvc[D(r).vname] = None
    <3>1. /\ pc'[r] \in {"createWL", "exposeNew"}
          /\ pvc' = [pvc EXCEPT ![D(r).vname] =
                       [mode |-> "service", by |-> r, policy |-> LifecyclePolicy(D(r))]]
      BY <1>4, <2>2 DEF EnsureVolume, EnsureServiceVolume, CreatesManagedVolume
    <3>2. Mounts(N(r))'
      BY <1>1, <1>3, <1>4, <2>1, <3>1, ServiceClaimTypes DEF Mounts, Own
    <3>3. ASSUME NEW n \in Names, n # N(r), cm[n] # None, CreatesManagedVolume(cm[n].def), Mounts(n)
          PROVE  pvc'[cm[n].def.vname] = pvc[cm[n].def.vname]
      BY <2>2, <3>1, <3>3 DEF Mounts, Own
    <3> QED BY <1>1, <3>1, <3>2, <3>3, RightfulElsewhere DEF ClaimStage
  <2>3. CASE ~(CreatesManagedVolume(D(r)) /\ pvc[D(r).vname] = None)
    <3>1. /\ UNCHANGED pvc /\ pc'[r] \in {"createWL", "exposeNew", "undoCM"}
          /\ CreatesManagedVolume(D(r)) => pc'[r] = "undoCM"
          /\ pc'[r] = "undoCM" => err'[r] = "exists" \/ (err'[r] = "notfound" /\ D(r).volume = "mount")
      BY <1>4, <2>3 DEF EnsureVolume, EnsureServiceVolume, CreatesManagedVolume
    <3>2. Mounts(N(r))' \/ pc'[r] = "undoCM"
      BY <1>1, <2>1, <3>1 DEF Mounts
    <3> QED BY <1>1, <3>1, <3>2, RightfulElsewhere DEF ClaimStage, Serious
  <2> QED BY <2>2, <2>3
<1>5. CASE RollbackVolume(r) \/ DeleteServiceVolume(r)
  <2>1. cm[N(r)] = None
    BY <1>5 DEF RollbackVolume, DeleteServiceVolume, Stage, DeleteStage
  <2>2. /\ DropsVolume(D(r)) => pvc' = [pvc EXCEPT ![D(r).vname] = None]
        /\ ~DropsVolume(D(r)) => pvc' = pvc
    BY <1>5 DEF RollbackVolume, DeleteServiceVolume, RemoveServiceVolume
  <2>3. DropsVolume(D(r)) /\ pvc[D(r).vname] # None =>
           pvc[D(r).vname].by = r \/ call[pvc[D(r).vname].by].name = N(r)
    BY <1>2, <1>5 DEF RollbackVolume, DeleteServiceVolume, ClaimStage
  <2>4. ASSUME NEW n \in Names, n # N(r), cm[n] # None, CreatesManagedVolume(cm[n].def), Mounts(n)
        PROVE  pvc'[cm[n].def.vname] = pvc[cm[n].def.vname]
    <3>1. pvc[cm[n].def.vname] # None /\ call[pvc[cm[n].def.vname].by].name = n
      BY <2>4 DEF Mounts, Own, Named
    <3> QED BY <1>3, <1>5, <2>2, <2>3, <2>4, <3>1, StoredVolume
  <2>5. ClaimStage(r)'
    BY <1>1, <1>3, <1>5, <2>2 DEF RollbackVolume, DeleteServiceVolume, ClaimStage
  <2>6. Mounts(N(r))'
    BY <1>1, <2>1 DEF Mounts
  <2> QED BY <1>1, <2>4, <2>5, <2>6, RightfulElsewhere
<1>6. CASE CreateVolume(r) \/ DeleteVolume(r)
  <2>1. pc[r] \in {"vCreate", "vDelete"} /\ pc'[r] = "done"
    BY <1>6 DEF CreateVolume, DeleteVolume
  <2>2. ASSUME NEW n \in Names, Mounts(n), cm[n] # None, CreatesManagedVolume(cm[n].def)
        PROVE  pvc'[cm[n].def.vname] = pvc[cm[n].def.vname]
    <3>1. CASE CreateVolume(r)
      BY <2>2, <3>1, StoredVolume DEF CreateVolume, Mounts, Own, CallOK
    <3>2. CASE DeleteVolume(r)
      <4>1. n \notin Attachments(V(r))
        BY <3>2 DEF DeleteVolume, Unattached
      <4>2. cm[n].def.vname # V(r)
        BY <2>2, <4>1 DEF Attachments, UsesVolume, CreatesManagedVolume
      <4> QED BY <2>2, <3>2, <4>2, StoredVolume DEF DeleteVolume
    <3> QED BY <1>6, <3>1, <3>2
  <2>3. ASSUME N(r) \in Names PROVE Mounts(N(r))'
    <3>1. Mounts(N(r))
      BY <2>1, <2>3, MountsBetween
    <3> QED BY <1>1, <2>2, <2>3, <3>1 DEF Mounts, Own
  <2>4. ClaimStage(r)'
    BY <2>1 DEF ClaimStage
  <2> QED BY <1>1, <2>2, <2>3, <2>4, RightfulElsewhere
<1> QED BY <1>4, <1>5, <1>6

-----------------------------------------------------------------------------
(* Requests that do not overlap. *)

\* What they keep whatever fails.
Blank == \A r \in Reqs : pc[r] = "idle" => call[r].op = "none"
InTurn == Alone /\ Unattached /\ AllAsked /\ Named /\ Blank

\* What holds of them besides as long as nothing fails: of the services, if no image is
\* refused, and of the claims, until an image is refused.
InOrder == Books /\ (Unspoilt => Shapes)
InHand == Calm => Stages /\ Claims /\ Work /\ Rightful

\* Arrivals, steps of handlers and crashes keep InTurn.
LEMMA InTurnNext ==
  ASSUME MaxInFlight = 1, TypeOK, CallOK, InTurn, [Next]_vars
  PROVE  InTurn'
<1>1. ASSUME NEW r \in Reqs, Arrive(r) PROVE InTurn'
  <2>1. Arrives(r)
    BY <1>1 DEF Arrive, Arrives
  <2>2. pc[r] = "idle" /\ pc'[r] \in {"secret", "resolve", "readWL", "readCM", "invRead", "vCreate", "vCount"}
        /\ UNCHANGED cm /\ \A q \in Reqs \ {r} : pc'[q] = pc[q] /\ call'[q] = call[q]
    BY <2>1 DEF Arrives, StartCreate, StartUpdate, StartDelete, StartInvoke, StartCreateVolume,
         StartDeleteVolume, Start, Goto, TypeOK, ControlOK, objects
  <2>3. Unattached'
    BY <2>2 DEF InTurn, Unattached, Attachments, V
  <2>4. Named'
    <3>1. \A n \in Names : cm[n] # None => cm[n].by \in Reqs
      BY DEF TypeOK, ObjectsOK, ObjectType
    <3> QED BY <2>2, <3>1 DEF InTurn, Named
  <2>5. Blank'
    BY <2>2 DEF InTurn, Blank
  <2> QED BY <2>1, <2>3, <2>4, <2>5, ArrivesAlone, ArrivesAsked DEF InTurn
<1>2. ASSUME NEW r \in Reqs, Moves(r) PROVE InTurn'
  <2>1. Acts(r)
    BY <1>2, StepIsCommon, CommonActs, KnativeActs
  <2>2. Alone' /\ Named' /\ Blank'
    <3>1. Alone' /\ Named' /\ pc'[r] # "idle"
      BY <1>2, <2>1, ActsAlone, StepNamed DEF InTurn
    <3> QED BY <2>1, <3>1 DEF InTurn, Blank, Acts
  <2>3. CASE CommonStep(r)
    BY <2>2, <2>3, CommonUnattached, CommonAsked DEF InTurn
  <2>4. CASE KnativeStep(r)
    <3>1. /\ UNCHANGED <<cm, call>> /\ pc'[r] # "vDelete" /\ pc[r] \notin {"idle", "done"}
          /\ \A q \in Reqs \ {r} : pc'[q] = pc[q]
      BY <2>4, KnativeActs DEF Acts, QuietBooks
    <3>2. Unattached'
      BY <3>1 DEF InTurn, Unattached, Attachments, V
    <3>3. Asked(r)'
      BY <2>4 DEF InTurn, AllAsked, Asked, Updating, KnativeStep, CreateKnativeService, ExposeService,
                  ReadOldKnativeService, UpdateKnativeService, DeleteKnativeService, UpdateReturnsError,
                  Goto, Answer, TypeOK, ControlOK
    <3> QED BY <2>1, <2>2, <3>2, <3>3, ActsAsked DEF InTurn
  <2> QED BY <1>2, <2>3, <2>4, StepIsCommon
<1>3. CASE Crash
  <2>1. Named'
    <3>1. \A n \in Names : cm[n] # None => cm[n].by \in Reqs
      BY DEF TypeOK, ObjectsOK, ObjectType
    <3> QED BY <1>3, <3>1 DEF InTurn, Named, Crash, objects, TypeOK, ControlOK
  <2>2. Blank'
    BY <1>3 DEF InTurn, Blank, Crash
  <2> QED BY <1>3, <2>1, <2>2, CrashBooks, OtherAsked DEF InTurn
<1>4. CASE UNCHANGED vars
  <2>1. Named' /\ Blank'
    BY <1>4 DEF InTurn, Named, Blank, vars
  <2> QED BY <1>4, <2>1, StutterBooks, OtherAsked DEF InTurn
<1> QED BY <1>1, <1>2, <1>3, <1>4 DEF Next, Moves, AllServed

\* A step of the only request in progress keeps the books.
LEMMA StepBooks ==
  ASSUME TypeOK, CallOK, InTurn, Books, NEW r \in Reqs, Admissible(r), Moves(r)
  PROVE  Books'
<1>1. Acts(r) /\ faults' >= faults /\ crashes' = crashes
  BY StepIsCommon, CommonActs, KnativeActs
<1>2. CASE CommonStep(r)
  BY <1>2, CommonBooks DEF InTurn
<1>3. CASE KnativeStep(r)
  <2> SUFFICES ASSUME Unspoilt' PROVE (Stages /\ Claims /\ Work)'
    BY DEF Books
  <2>1. Unspoilt /\ ~Fault
    BY <1>1 DEF Unspoilt, Fault, TypeOK
  <2>2. Stages /\ Stage(r) /\ Claims /\ Work
    BY <2>1 DEF Books, Stages
  <2>3. Claims' /\ Work' /\ OwnClaims(r) /\ Stage(r)'
    BY <1>1, <1>3, <2>1, <2>2, KnativeActs, QuietKeeps, KnativeStages
  <2>4. \A q \in Reqs \ {r} : Stage(q)'
    BY <1>1, <2>2, <2>3, RestStages DEF InTurn
  <2> QED BY <2>3, <2>4 DEF Stages
<1> QED BY <1>2, <1>3, StepIsCommon

\* When nothing fails and no image can be refused, it keeps the services in shape.
LEMMA StepInOrder ==
  ASSUME Unrestricted, TypeOK, CallOK, InTurn, InOrder, NEW r \in Reqs, Moves(r), Unspoilt'
  PROVE  Shapes'
<1>1. Acts(r) /\ faults' >= faults /\ crashes' = crashes
  BY StepIsCommon, CommonActs, KnativeActs
<1>2. Unspoilt /\ ~Fault
  BY <1>1 DEF Unspoilt, Fault, TypeOK
<1>3. Stage(r) /\ Shapes
  BY <1>2 DEF InOrder, Books, Stages
<1>4. ImagePulled(r) => pc[r] = "pulling" \/ pc[r] = "uPull"
  BY DEF ImagePulled
<1> QED
  BY <1>1, <1>2, <1>3, <1>4, ShapesPassing, ShapesMaking, ShapesRemoving, ShapesReading, ShapesWriting
  DEF InTurn, Moves, Step, SharedStep

\* What is calm after a step was calm before it.
LEMMA CalmBefore ==
  ASSUME TypeOK, CallOK, InTurn, NEW r \in Reqs, Moves(r), Calm'
  PROVE  Calm /\ ~Fault /\ Admissible(r)
<1>1. Acts(r) /\ faults' >= faults /\ crashes' = crashes /\ SameAsk(r)
  BY StepIsCommon, CommonActs, KnativeActs, StepNamed DEF InTurn
<1>2. ~Fault /\ faults = 0 /\ crashes = 0
  BY <1>1 DEF Calm, Fault, TypeOK
<1>3. \A q \in Reqs : call[q].op = "create" => D(q).allowed
  BY <1>1 DEF Calm, Acts, SameAsk, D
<1>4. Admissible(r)
  BY <1>3 DEF Admissible, InTurn, AllAsked, Asked
<1> QED BY <1>2, <1>3, <1>4 DEF Calm

\* While all is calm a step keeps the claims with those they belong to.
LEMMA StepInHand ==
  ASSUME TypeOK, CallOK, InTurn, InHand, NEW r \in Reqs, Moves(r), Calm'
  PROVE  Stages' /\ Claims' /\ Work' /\ Rightful'
<1>1. Acts(r)
  BY StepIsCommon, CommonActs, KnativeActs
<1>2. Calm /\ ~Fault /\ Admissible(r) /\ Unspoilt'
  BY CalmBefore DEF Calm, Unspoilt
<1>3. Stages /\ Stage(r) /\ Claims /\ Work /\ Rightful /\ Books
  BY <1>2 DEF InHand, Stages, Books
<1>4. Stages' /\ Claims' /\ Work'
  BY <1>2, <1>3, StepBooks DEF Books
<1>5. Rightful'
  BY <1>1, <1>2, <1>3, RightfulPassing, RightfulTurning, RightfulConfigMaps, RightfulClaims
  DEF InTurn, Moves, Step, SharedStep
<1> QED BY <1>4, <1>5

\* Requests keep the services in order: between the calls of a request its ConfigMap and
\* Knative Service are what its stage says, and a crash or a failed call ends the claim.
LEMMA InOrderNext ==
  ASSUME MaxInFlight = 1, Unrestricted, TypeOK, CallOK, InTurn, InOrder, [Next]_vars
  PROVE  InOrder'
<1>1. ASSUME NEW r \in Reqs, Arrive(r) PROVE InOrder'
  <2>1. Arrives(r)
    BY <1>1 DEF Arrive, Arrives
  <2>2. pc[r] = "idle" /\ pc'[r] \in {"secret", "resolve", "readCM", "invRead", "vCreate", "vCount"}
        /\ UNCHANGED <<cm, wl, pvc, expose, prior, undo, snap, faults, crashes>>
        /\ \A q \in Reqs \ {r} : pc'[q] = pc[q] /\ call'[q] = call[q]
    BY <1>1 DEF Arrive, StartCreate, StartUpdate, StartDelete, StartInvoke, StartCreateVolume,
         StartDeleteVolume, Start, Goto, TypeOK, ControlOK, objects, budget
  <2>5. \A q \in Reqs : pc[q] \in {"idle", "done"}
    BY <2>1, ArrivesAlone DEF InTurn, InFlight
  <2>3. ASSUME Unspoilt' PROVE Shapes'
    <3>1. Shapes
      BY <2>2, <2>3 DEF InOrder, Unspoilt
    <3>2. \A n \in Names : Whole(n)' <=> Whole(n)
      BY <2>2 DEF Whole, Absent, Present
    <3>3. ShapeStage(r)'
      BY <2>2 DEF ShapeStage, Making, Removing, Changing
    <3>4. ASSUME NEW q \in Reqs \ {r} PROVE ShapeStage(q)'
      BY <2>2, <2>5 DEF ShapeStage, Making, Removing, Changing
    <3>5. ASSUME NEW n \in Names, NEW q \in Reqs, pc[q] \in Making \cup Removing \cup Changing, N(q) = n
          PROVE  pc'[q] \in Making \cup Removing \cup Changing /\ N(q)' = n
      BY <2>2, <3>5 DEF Making, Removing, Changing, N
    <3> QED BY <3>1, <3>2, <3>3, <3>4, <3>5 DEF Shapes
  <2> QED BY <2>1, <2>3, ArrivesBooks DEF InOrder
<1>2. ASSUME NEW r \in Reqs, Moves(r) PROVE InOrder'
  <2>1. Books'
    BY <1>2, StepBooks, UnrestrictedIsAdmissible DEF InOrder
  <2>2. Unspoilt' => Shapes'
    BY <1>2, StepInOrder
  <2> QED BY <2>1, <2>2 DEF InOrder
<1>3. CASE Crash
  BY <1>3, CrashBooks DEF InOrder, Crash, Unspoilt, TypeOK
<1>4. CASE UNCHANGED vars
  <2>1. Shapes => Shapes'
    BY <1>4 DEF Shapes, ShapeStage, Bare, Whole, Absent, Present, Midway, Applied, N, D, vars
  <2> QED BY <1>4, <2>1, StutterBooks DEF InOrder, Unspoilt, vars
<1> QED BY <1>1, <1>2, <1>3, <1>4 DEF Next, Moves, AllServed

\* And they keep the claims with those they belong to, until a call fails, the process
\* stops or an image is refused.
LEMMA InHandNext ==
  ASSUME MaxInFlight = 1, TypeOK, CallOK, InTurn, InHand, [Next]_vars
  PROVE  InHand'
<1>1. ASSUME NEW r \in Reqs, Arrive(r), Calm' PROVE Stages' /\ Claims' /\ Work' /\ Rightful'
  <2>1. Arrives(r)
    BY <1>1 DEF Arrive, Arrives
  <2>2. pc[r] = "idle" /\ pc'[r] \in {"secret", "resolve", "readCM", "invRead", "vCreate", "vCount"}
        /\ UNCHANGED <<cm, wl, pvc, expose, prior, undo, snap, faults, crashes>>
        /\ \A q \in Reqs \ {r} : pc'[q] = pc[q] /\ call'[q] = call[q]
    BY <1>1 DEF Arrive, StartCreate, StartUpdate, StartDelete, StartInvoke, StartCreateVolume,
         StartDeleteVolume, Start, Goto, TypeOK, ControlOK, objects, budget
  <2>5. \A q \in Reqs : pc[q] \in {"idle", "done"}
    BY <2>1, ArrivesAlone DEF InTurn, InFlight
  <2>3. Calm /\ Unspoilt'
    BY <1>1, <2>2 DEF Calm, Unspoilt, InTurn, Blank, D
  <2>4. Rightful'
    <3>1. Rightful
      BY <2>3 DEF InHand
    <3>2. \A n \in Names : Mounts(n)' <=> Mounts(n)
      BY <2>2 DEF Mounts, Own
    <3>3. ClaimStage(r)'
      BY <2>2 DEF ClaimStage
    <3>4. ASSUME NEW q \in Reqs \ {r} PROVE ClaimStage(q)'
      BY <2>2, <2>5 DEF ClaimStage
    <3>5. ASSUME NEW n \in Names, NEW q \in Reqs, pc[q] \in {"ensureVol", "undoCM"}, N(q) = n
          PROVE  pc'[q] \in {"ensureVol", "undoCM"} /\ N(q)' = n
      BY <2>2, <3>5 DEF N
    <3> QED BY <3>1, <3>2, <3>3, <3>4, <3>5 DEF Rightful
  <2>6. Books
    BY <2>3 DEF InHand, Books
  <2> QED BY <2>1, <2>3, <2>4, <2>6, ArrivesBooks DEF Books
<1>2. ASSUME NEW r \in Reqs, Moves(r) PROVE InHand'
  BY <1>2, StepInHand DEF InHand
<1>3. CASE Crash
  BY <1>3 DEF Crash, InHand, Calm, TypeOK
<1>4. CASE UNCHANGED vars
  <2>1. Rightful => Rightful'
    BY <1>4 DEF Rightful, ClaimStage, Mounts, Own, Serious, N, D, vars
  <2>2. Calm' => Calm /\ Unspoilt /\ Unspoilt'
    BY <1>4 DEF Calm, D, vars, Unspoilt
  <2>3. Books => Books'
    BY <1>4, StutterBooks
  <2> QED BY <2>1, <2>2, <2>3 DEF InHand, Books
<1> QED BY <1>1, <1>2, <1>3, <1>4 DEF InHand, Next, Moves, AllServed

-----------------------------------------------------------------------------
(* The rollback of a create, whatever fails. *)

Ventured == {"createWL", "rollbackCM", "rollbackVol"}

\* A create that got as far as its Knative Service, or undoes that, has a volume of its
\* own or none.
OwnVentures ==
    \A r \in Reqs :
        pc[r] \in Ventured /\ DropsVolume(D(r)) => pvc[D(r).vname] = None \/ pvc[D(r).vname].by = r

\* The steps that lead there.
LEMMA VenturesFrom ==
  ASSUME TypeOK, CallOK, NEW r \in Reqs, Moves(r), pc'[r] \in Ventured
  PROVE  \/ EnsureVolume(r) \/ CreateKnativeService(r)
         \/ RollbackConfigMap(r, "rollbackCM", "rollbackVol")
<1> USE DEF TypeOK, ControlOK, Goto, Answer, Ventured
<1>1. CASE KnativeStep(r) /\ ~CreateKnativeService(r)
  BY <1>1 DEF KnativeStep, ExposeService, ReadOldKnativeService, UpdateKnativeService, DeleteKnativeService,
              UpdateReturnsError
<1>2. CASE RollbackConfigMap(r, "undoCM", "createFailed") \/ ResolveServiceNamespace(r, "readCM")
           \/ ReadServiceConfigMap(r) \/ AdmitUpdate(r, "uGetWL")
  BY <1>2 DEF RollbackConfigMap, ResolveServiceNamespace, ReadServiceConfigMap, AdmitUpdate, UpdateReturnsError
<1>3. CASE CreateServiceSecret(r) \/ AdmitImage(r) \/ CreateServiceConfigMap(r) \/ RollbackVolume(r)
           \/ PrefetchImage(r) \/ ImagePulled(r) \/ CreateFailed(r) \/ CreateMinIO(r)
  BY <1>3 DEF CreateServiceSecret, AdmitImage, CreateServiceConfigMap, RollbackVolume, PrefetchImage,
              ImagePulled, UpdateReturnsOk, CreateFailed, CreateMinIO
<1>4. CASE DeleteServiceConfigMap(r) \/ DeleteServiceJobs(r) \/ DeleteServiceVolume(r)
           \/ DeleteServiceSecret(r) \/ DeleteServiceExpose(r) \/ DeleteServiceReturns(r)
  BY <1>4 DEF DeleteServiceConfigMap, DeleteServiceJobs, DeleteServiceVolume, DeleteServiceSecret,
              DeleteServiceExpose, DeleteServiceReturns
<1>5. CASE CheckSameVolume(r) \/ UpdateMinIO(r) \/ UpdateServiceSecret(r) \/ ReadOldConfigMap(r)
           \/ UpdateServiceConfigMap(r) \/ RestoreOldConfigMap(r) \/ UpdateServiceExpose(r)
  BY <1>5 DEF CheckSameVolume, UpdateMinIO, UpdateServiceSecret, ReadOldConfigMap, UpdateServiceConfigMap,
              RestoreOldConfigMap, UpdateServiceExpose, UpdateReturnsError, UpdateReturnsOk
<1>6. CASE InvokeRead(r) \/ InvokeCreate(r) \/ CreateVolume(r) \/ CountVolumeAttachments(r) \/ DeleteVolume(r)
  BY <1>6 DEF InvokeRead, InvokeCreate, CreateVolume, CountVolumeAttachments, DeleteVolume
<1> QED BY <1>1, <1>2, <1>3, <1>4, <1>5, <1>6 DEF Moves, Step, SharedStep, KnativeStep

\* Every step keeps it: the request in progress is the only one that can get there.
LEMMA VenturesNext ==
  ASSUME TypeOK, CallOK, InTurn, OwnVentures, [Next]_vars
  PROVE  OwnVentures'
<1> USE DEF TypeOK, ControlOK, ObjectsOK
<1>1. ASSUME NEW r \in Reqs, Arrive(r) PROVE OwnVentures'
  <2>1. /\ pc'[r] \in {"secret", "resolve", "readCM", "invRead", "vCreate", "vCount"} /\ UNCHANGED pvc
        /\ \A q \in Reqs \ {r} : pc'[q] = pc[q] /\ call'[q] = call[q]
    BY <1>1 DEF Arrive, StartCreate, StartUpdate, StartDelete, StartInvoke, StartCreateVolume,
         StartDeleteVolume, Start, Goto, objects
  <2> QED BY <2>1 DEF OwnVentures, Ventured, D
<1>2. ASSUME NEW r \in Reqs, Moves(r) PROVE OwnVentures'
  <2>1. \A q \in Reqs \ {r} : pc'[q] \in {"idle", "done"}
    BY <1>2, StepIsCommon, CommonActs, KnativeActs, OthersRest DEF InTurn
  <2> SUFFICES ASSUME pc'[r] \in Ventured, DropsVolume(D(r))'
               PROVE  (pvc[D(r).vname] = None \/ pvc[D(r).vname].by = r)'
    BY <2>1 DEF OwnVentures, Ventured
  <2>2. D(r) \in Defs /\ D(r).vname \in Volumes /\ UNCHANGED call /\ DropsVolume(D(r))
    BY <1>2, VenturesFrom, DefsAssumption
    DEF EnsureVolume, EnsureServiceVolume, CreateKnativeService, RollbackConfigMap, CallOK, DefType, D
  <2>3. CASE EnsureVolume(r)
    <3>1. CreatesManagedVolume(D(r))
      BY <2>2 DEF DropsVolume
    <3>2. pvc' = [pvc EXCEPT ![D(r).vname] =
                    [mode |-> "service", by |-> r, policy |-> LifecyclePolicy(D(r))]]
      BY <2>3, <3>1 DEF EnsureVolume, EnsureServiceVolume, CreatesManagedVolume, Goto, Ventured
    <3> QED BY <2>2, <3>2 DEF D
  <2>4. CASE CreateKnativeService(r) \/ RollbackConfigMap(r, "rollbackCM", "rollbackVol")
    <3>1. pc[r] \in Ventured /\ UNCHANGED pvc
      BY <2>4 DEF CreateKnativeService, RollbackConfigMap, Ventured
    <3> QED BY <2>2, <3>1 DEF OwnVentures, D
  <2> QED BY <1>2, <2>3, <2>4, VenturesFrom
<1>3. CASE Crash
  BY <1>3 DEF Crash, OwnVentures, Ventured, D, objects
<1>4. CASE UNCHANGED vars
  BY <1>4 DEF OwnVentures, Ventured, D, vars
<1> QED BY <1>1, <1>2, <1>3, <1>4 DEF Next, Moves, AllServed

-----------------------------------------------------------------------------
(* Results. *)

\* At the start there is no service and no request.
LEMMA Starts == ASSUME Init PROVE InTurn /\ InOrder /\ InHand /\ OwnVentures
<1>1. Named /\ Blank /\ Shapes /\ Rightful /\ OwnVentures
  BY DEF Init, Named, Blank, Shapes, ShapeStage, Whole, Absent, Making, Removing, Changing, Rightful, ClaimStage,
         Mounts, OwnVentures, Ventured
<1>2. Unspoilt
  BY DEF Init, Unspoilt
<1> QED BY <1>1, <1>2, InitBooks, OtherAsked DEF InTurn, InOrder, InHand, Books

\* While requests do not overlap they keep InTurn, and, if no image is refused, the
\* services in order until a call fails or the process stops.
THEOREM ServicesInOrder ==
  ASSUME MaxInFlight = 1, Unrestricted
  PROVE  Spec => [](InTurn /\ InOrder)
<1>1. Init => InTurn /\ InOrder
  BY Starts
<1>2. TypeOK /\ CallOK /\ InTurn /\ InOrder /\ [Next]_vars => (InTurn /\ InOrder)'
  BY InTurnNext, InOrderNext
<1> QED BY <1>1, <1>2, Typing, PTL DEF Spec

\* When nothing is in progress and nothing failed, every name is free or a service.
LEMMA AtRest ==
  ASSUME InOrder, Quiescent, Unspoilt, NEW n \in Names
  PROVE  Whole(n) /\ Stages /\ Claims /\ Work /\ \A r \in Reqs : pc[r] \in {"idle", "done"}
  BY DEF InOrder, Books, Quiescent, Shapes, Making, Removing, Changing

\* When nothing is in progress and nothing failed, a ConfigMap comes with the Knative
\* Service that its create made, or with the exposed objects (CreateService, UpdateService
\* and DeleteService of KnativeBackend leave no service that cannot run).
THEOREM WholeServices ==
  ASSUME MaxInFlight = 1, Unrestricted
  PROVE  Spec => []NoHalfService
<1>1. InOrder => NoHalfService
  BY AtRest DEF NoHalfService, Unspoilt, Whole, Absent, Present
<1> QED BY <1>1, ServicesInOrder, PTL

\* Likewise the definition in the ConfigMap is the one that the Knative Service was
\* made from, also after an update that failed and was undone.
THEOREM SameDefinition ==
  ASSUME MaxInFlight = 1, Unrestricted
  PROVE  Spec => []DefinitionsAgree
<1>1. InOrder => DefinitionsAgree
  BY AtRest DEF DefinitionsAgree, Unspoilt, Whole, Absent, Present
<1> QED BY <1>1, ServicesInOrder, PTL

\* Likewise a name without a ConfigMap has no Knative Service and no job, and every claim
\* to be deleted with its service has its service.
THEOREM NothingLeft ==
  ASSUME MaxInFlight = 1, Unrestricted
  PROVE  Spec => []NothingLeftBehind
<1>1. TypeOK /\ InOrder => NothingLeftBehind
  <2> SUFFICES ASSUME InOrder, Quiescent, Unspoilt
               PROVE  /\ \A n \in Names : cm[n] = None => wl[n] = None /\ jobs[n] = {}
                      /\ \A v \in Volumes :
                            pvc[v] # None /\ pvc[v].mode = "service" /\ pvc[v].policy = "delete" =>
                                \E n \in Names : cm[n] # None /\ cm[n].by = pvc[v].by
    BY DEF NothingLeftBehind, Unspoilt
  <2>1. Claims /\ Work
    BY DEF InOrder, Books
  <2>2. \A n \in Names : cm[n] = None => wl[n] = None
    BY AtRest DEF Whole, Absent, Present
  <2> QED BY <2>1, <2>2 DEF Quiescent, Claims, Backed, Condemned, Work
<1> QED BY <1>1, Typing, ServicesInOrder, PTL

\* Whatever calls fail, whenever the process stops and whatever images are refused: a
\* create that is rolled back deletes no claim but its own.  And until a call fails, the
\* process stops or an image is refused, DeleteService deletes no claim but the one that
\* the create made, or, called for a delete, that a service made to be deleted with it.
THEOREM ForeignKept ==
  ASSUME MaxInFlight = 1
  PROVE  Spec => ForeignVolumesKept
<1> DEFINE Kept ==
      \A v \in Volumes, r \in Reqs :
          Drops(r, v) =>
              /\ pc[r] = "rollbackVol" => pvc[v].by = r
              /\ pc[r] = "delVol" /\ Calm =>
                    IF call[r].op = "create"
                    THEN pvc[v].by = r
                    ELSE /\ pvc[v].mode = "service"
                         /\ pvc[v].policy = "delete"
<1>1. Init => InTurn /\ InHand /\ OwnVentures
  BY Starts
<1>2. TypeOK /\ CallOK /\ InTurn /\ InHand /\ OwnVentures /\ [Next]_vars => (InTurn /\ InHand /\ OwnVentures)'
  BY InTurnNext, InHandNext, VenturesNext
<1>3. TypeOK /\ CallOK /\ InTurn /\ InHand /\ OwnVentures /\ [Next]_vars => [Kept]_vars
  <2> SUFFICES ASSUME TypeOK, CallOK, InTurn, InHand, OwnVentures, Next,
                      NEW v \in Volumes, NEW r \in Reqs, Drops(r, v)
               PROVE  /\ pc[r] = "rollbackVol" => pvc[v].by = r
                      /\ pc[r] = "delVol" /\ Calm =>
                            IF call[r].op = "create"
                            THEN pvc[v].by = r
                            ELSE /\ pvc[v].mode = "service"
                                 /\ pvc[v].policy = "delete"
    OBVIOUS
  <2>1. pvc[v] # None /\ pvc'[v] = None /\ pc[r] # pc'[r]
    BY DEF Drops
  <2>2. PICK q \in Reqs : Moves(q)
    BY <2>1 DEF Next, Moves, Arrive, StartCreate, StartUpdate, StartDelete, StartInvoke, StartCreateVolume,
           StartDeleteVolume, Start, Crash, AllServed, vars, objects
  <2>3. q = r
    BY <2>1, <2>2, StepIsCommon, CommonActs, KnativeActs DEF Acts
  <2>4. RollbackVolume(r) \/ DeleteServiceVolume(r) \/ DeleteVolume(r)
    BY <2>1, <2>2, <2>3, ClaimsStay
  <2>5. CASE DeleteVolume(r)
    BY <2>5 DEF DeleteVolume
  <2>6. CASE RollbackVolume(r) \/ DeleteServiceVolume(r)
    <3>1. D(r) \in Defs /\ DropsVolume(D(r)) /\ v = D(r).vname
      BY <2>1, <2>6 DEF RollbackVolume, DeleteServiceVolume, RemoveServiceVolume, CallOK, TypeOK, ObjectsOK
    <3>2. LifecyclePolicy(D(r)) = "delete"
      BY <3>1, DropsMeansDelete
    <3>3. CASE RollbackVolume(r)
      BY <2>1, <3>1, <3>3 DEF RollbackVolume, OwnVentures, Ventured
    <3>4. CASE DeleteServiceVolume(r)
      <4>1. Calm => ClaimStage(r)
        BY DEF InHand, Rightful
      <4> QED BY <2>1, <3>1, <3>2, <3>4, <4>1 DEF DeleteServiceVolume, ClaimStage, Own
    <3> QED BY <2>6, <3>3, <3>4
  <2> QED BY <2>4, <2>5, <2>6
<1> QED BY <1>1, <1>2, <1>3, Typing, PTL DEF Spec, ForeignVolumesKept
=============================================================================
