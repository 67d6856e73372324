----------------------------- MODULE KnativeBackend -----------------------------
(***************************************************************************)
(* KnativeBackend: a service is a ConfigMap and a Knative Service (wl), or *)
(* a ConfigMap and the exposed objects when it is exposed.  It differs     *)
(* from KubeBackend in what it reads first, in what it rolls back, and in  *)
(* that DeleteService does not mind a Knative Service that is not there.   *)
(***************************************************************************)
EXTENDS ServiceStore

(* CreateService *)

\* Mutant: the ConfigMap is left when the volume cannot be had.
EnsureVolume_NoRollback(r) ==
    EnsureServiceVolume(r, IF D(r).exposed THEN "exposeNew" ELSE "createWL", "createFailed")

\* Mutant: the volume that could not be created is deleted too.
EnsureVolume_DropsVolume(r) ==
    EnsureServiceVolume(r, IF D(r).exposed THEN "exposeNew" ELSE "createWL", "rollbackCM")

\* A volume that cannot be had undoes the ConfigMap only ("undoCM"); exposed
\* services get no Knative Service.
EnsureVolume(r) ==
    EnsureServiceVolume(r, IF D(r).exposed THEN "exposeNew" ELSE "createWL", "undoCM")

\* createKNServiceDefinition and Services.Create.
CreateKnativeService(r) ==
    /\ pc[r] = "createWL"
    /\ \/ /\ D(r).podSpec /\ wl[N(r)] = None
          /\ wl' = [wl EXCEPT ![N(r)] = NewObject(r, D(r))]
          /\ Goto(r, "prefetch")
          /\ UNCHANGED <<err, budget>>
       \/ /\ D(r).podSpec /\ wl[N(r)] # None
          /\ Fails(r, "exists") /\ Goto(r, "rollbackCM")
          /\ UNCHANGED <<wl, budget>>
       \/ /\ ~D(r).podSpec
          /\ Fails(r, "other") /\ Goto(r, "rollbackCM")
          /\ UNCHANGED <<wl, budget>>
       \/ /\ Fault
          /\ Fails(r, "other") /\ Goto(r, "rollbackCM")
          /\ UNCHANGED wl
    /\ UNCHANGED <<cm, pvc, secret, jobs, expose, call, prior, snap, undo, resp>>

\* CreateExpose: an error is returned with no rollback.
ExposeService(r) ==
    /\ pc[r] = "exposeNew"
    /\ \/ /\ ~expose[N(r)]
          /\ expose' = [expose EXCEPT ![N(r)] = TRUE]
          /\ Goto(r, "prefetch")
          /\ UNCHANGED <<err, budget>>
       \/ /\ expose[N(r)]
          /\ Fails(r, "other") /\ Goto(r, "createFailed")
          /\ UNCHANGED <<expose, budget>>
       \/ /\ Fault
          /\ \E b \in {expose[N(r)], TRUE} : expose' = [expose EXCEPT ![N(r)] = b]
          /\ Fails(r, "other") /\ Goto(r, "createFailed")
    /\ UNCHANGED <<cm, wl, pvc, secret, jobs, call, prior, snap, undo, resp>>

(* UpdateService *)

ReadOldKnativeService(r) ==
    /\ pc[r] = "uGetWL"
    /\ \/ /\ wl[N(r)] # None
          /\ snap' = [snap EXCEPT ![r].wl = wl[N(r)]]
          /\ Goto(r, "uGet")
          /\ UNCHANGED <<undo, resp, budget>>
       \/ /\ wl[N(r)] = None
          /\ UpdateReturnsError(r)
          /\ UNCHANGED <<snap, budget>>
       \/ /\ Fault
          /\ UpdateReturnsError(r)
          /\ UNCHANGED snap
    /\ UNCHANGED <<objects, call, err, prior>>

\* The Knative Service is updated as it was read, resourceVersion included.
UpdateKnativeService(r) ==
    /\ pc[r] = "uWL"
    /\ \/ /\ Applied(r).podSpec /\ Current(wl[N(r)], snap[r].wl)
          /\ wl' = [wl EXCEPT ![N(r)] = Updated(@, Applied(r))]
          /\ Goto(r, "uExpose")
          /\ UNCHANGED budget
       \/ /\ ~Applied(r).podSpec \/ ~Current(wl[N(r)], snap[r].wl)
          /\ Goto(r, "uRestore")
          /\ UNCHANGED <<wl, budget>>
       \/ /\ Fault
          /\ Goto(r, "uRestore")
          /\ UNCHANGED wl
    /\ UNCHANGED <<cm, pvc, secret, jobs, expose, call, err, prior, snap, undo, resp>>

(* DeleteService *)

\* A Knative Service that does not exist is no error: the rest is deleted too.
DeleteKnativeService(r) ==
    /\ pc[r] = "delWL"
    /\ \/ /\ wl' = [wl EXCEPT ![N(r)] = None]
          /\ Goto(r, "delCM")
          /\ UNCHANGED <<err, budget>>
       \/ /\ Fault
          /\ Fails(r, "other") /\ Goto(r, "dEnd")
          /\ UNCHANGED wl
    /\ UNCHANGED <<cm, pvc, secret, jobs, expose, call, prior, snap, undo, resp>>

-----------------------------------------------------------------------------
Step(r) ==
    \/ SharedStep(r)
    \/ EnsureVolume(r)
    \/ RollbackConfigMap(r, "undoCM", "createFailed")
    \/ RollbackConfigMap(r, "rollbackCM", "rollbackVol")
    \/ CreateKnativeService(r) \/ ExposeService(r)
    \/ ResolveServiceNamespace(r, "readCM") \/ ReadServiceConfigMap(r)
    \/ AdmitUpdate(r, "uGetWL") \/ ReadOldKnativeService(r) \/ UpdateKnativeService(r)
    \/ DeleteKnativeService(r)

Arrive(r) ==
    \/ StartCreate(r) \/ StartUpdate(r) \/ StartDelete(r, "readCM")
    \/ StartInvoke(r) \/ StartCreateVolume(r) \/ StartDeleteVolume(r)

Next == (\E r \in Reqs : Arrive(r) \/ Step(r) \/ ImagePulled(r)) \/ Crash \/ AllServed

Spec == Init /\ [][Next]_vars

-----------------------------------------------------------------------------
(* Properties. *)

\* Without overlapping requests, failed calls and crashes, a name with a ConfigMap
\* is a service that can run: it has its Knative Service, or its exposed objects.
NoHalfService ==
    (Quiescent /\ faults = 0 /\ crashes = 0) =>
        \A n \in Names : cm[n] # None =>
            IF cm[n].def.exposed THEN expose[n] ELSE wl[n] # None /\ wl[n].by = cm[n].by

\* The step is a call of request r that deletes the claim of volume v.
Drops(r, v) == pvc[v] # None /\ pvc'[v] = None /\ pc[r] # pc'[r]

\* No call failed, nothing crashed, and no create was refused its image.
Calm ==
    /\ faults = 0 /\ crashes = 0
    /\ \A r \in Reqs : call[r].op = "create" => D(r).allowed

\* Without overlapping requests, CreateService that rolls back deletes a volume only if
\* this request made it: whatever calls failed before, a create that is refused the
\* volume leaves the one of that name alone (EnsureServiceVolume and its error path).
\* While all is calm, DeleteService too removes only what the create of the service
\* made: of a create that failed later its own, and of a service that is deleted never
\* a volume of the volumes API, nor one that is to be retained.
ForeignVolumesKept ==
    [][\A v \in Volumes, r \in Reqs :
          Drops(r, v) =>
              /\ pc[r] = "rollbackVol" => pvc[v].by = r
              /\ pc[r] = "delVol" /\ Calm =>
                    IF call[r].op = "create"
                    THEN pvc[v].by = r
                    ELSE /\ pvc[v].mode = "service"
                         /\ pvc[v].policy = "delete"]_vars

=============================================================================
