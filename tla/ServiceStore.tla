------------------------------ MODULE ServiceStore ------------------------------
(***************************************************************************)
(* The Kubernetes objects behind an OSCAR service, and the steps that the  *)
(* HTTP handlers and both serverless backends (KubeBackend,                *)
(* KnativeBackend) share.  One namespace is modelled; objects are keyed by *)
(* service name (or volume name).  Every Kubernetes API call is one step,  *)
(* so the calls of concurrent requests interleave, any call may fail, and  *)
(* the OSCAR process may stop between two calls.                           *)
(***************************************************************************)
EXTENDS Naturals, FiniteSets

CONSTANTS
    Names,        \* service names
    Volumes,      \* volume (PVC) names
    Reqs,         \* one-shot HTTP requests
    Defs,         \* service definitions (FDL) that requests may carry
    None,         \* "no such object"
    MaxFaults,    \* bound: API calls that are refused or lost before they took effect
    MaxCrashes,   \* bound: stops of the OSCAR process
    MaxInFlight   \* bound: requests in progress at once

(***************************************************************************)
(* What the control flow tells apart in a service definition: whether the  *)
(* image passes checkAdditionalConfig, whether ToPodSpec succeeds, the     *)
(* volume block (absent, creating a volume, mounting an existing one), the *)
(* volume it names, its lifecycle policy ("" when not given), whether the  *)
(* service is exposed, whether it carries secrets, whether its image is    *)
(* prefetched on every node, and whether every MinIO path of its input and *)
(* output names a folder after the bucket.                                 *)
(***************************************************************************)
DefType == [allowed : BOOLEAN, podSpec : BOOLEAN,
            volume : {"none", "create", "mount"}, vname : Volumes,
            policy : {"", "delete", "retain"},
            exposed : BOOLEAN, secrets : BOOLEAN,
            prefetch : BOOLEAN, folders : BOOLEAN]

ASSUME DefsAssumption == Defs \subseteq DefType

VARIABLES
    cm,       \* ConfigMaps (FDL + script): what ReadService reads
    wl,       \* workload: PodTemplate (KubeBackend), Knative Service (KnativeBackend)
    pvc,      \* PersistentVolumeClaims of managed volumes
    secret,   \* does the service's Secret exist
    jobs,     \* Jobs labelled with the service
    expose,   \* do the objects of the exposed service exist
    pc,       \* next API call of each request
    call,     \* what each request asks for
    err,      \* error that the last backend call returned
    prior,    \* definition that ReadService returned to the handler
    snap,     \* workload and ConfigMap that UpdateService read
    undo,     \* is UpdateService being called to put the old service back
    resp,     \* HTTP status of the answer: 2xx is "ok", the others are "error"
    faults, crashes

objects == <<cm, wl, pvc, secret, jobs, expose>>
control == <<pc, call, err, prior, snap, undo, resp>>
budget == <<faults, crashes>>
vars == <<cm, wl, pvc, secret, jobs, expose,
          pc, call, err, prior, snap, undo, resp, faults, crashes>>

-----------------------------------------------------------------------------
(* Definition helpers. *)

CreatesManagedVolume(d) == d.volume = "create"

UsesVolume(d, v) == d.volume # "none" /\ d.vname = v

LifecyclePolicy(d) == IF d.policy = "" THEN "delete" ELSE d.policy

\* Mutant: the policy is compared before its default is put in.
DropsVolume_NoDefault(d) == CreatesManagedVolume(d) /\ d.policy = "delete"

\* DeleteServiceVolume goes on to delete the claim only for these.
DropsVolume(d) == CreatesManagedVolume(d) /\ LifecyclePolicy(d) # "retain"

SameVolumeConfig(d, e) ==
    \/ d.volume = "none" /\ e.volume = "none"
    \/ /\ d.volume # "none" /\ e.volume # "none"
       /\ d.volume = e.volume /\ d.vname = e.vname /\ d.policy = e.policy

\* Services whose stored FDL uses volume v (ListVolumeAttachments).
Attachments(v) == {n \in Names : cm[n] # None /\ UsesVolume(cm[n].def, v)}

-----------------------------------------------------------------------------
(* Kubernetes objects: who created them, and a version that every change   *)
(* of their content increases.                                             *)

ObjectType == [def : Defs, by : Reqs, rv : Nat]
ClaimType == [mode : {"service", "api"}, by : Reqs,
              policy : {"", "delete", "retain"}]

\* "No such object" is none of the things it stands beside.
ASSUME NoneAssumption == /\ None \notin Reqs
                         /\ None \notin Names
                         /\ None \notin Volumes
                         /\ None \notin DefType
                         /\ None \notin ObjectType
                         /\ None \notin ClaimType

NewObject(r, d) == [def |-> d, by |-> r, rv |-> 0]

\* An update that changes nothing leaves the version alone.
Updated(o, d) == [def |-> d, by |-> o.by, rv |-> IF o.def = d THEN o.rv ELSE o.rv + 1]

\* An update that carries a resourceVersion is accepted only if it is current.
Current(o, seen) == o # None /\ o.by = seen.by /\ o.rv = seen.rv

-----------------------------------------------------------------------------
(* Control. *)

Labels == {"idle", "done",
           "secret", "admit", "createCM", "ensureVol", "createWL", "exposeNew", "prefetch", "pulling",
           "rollbackCM", "rollbackVol", "undoCM", "createFailed", "minio",
           "resolve", "readWL", "readCM",
           "uSame", "uMinio", "uSecret", "uAdmit", "uGetWL", "uGet", "uCM", "uWL", "uRestore", "uExpose", "uPull",
           "delWL", "delCM", "delJobs", "delVol", "delSecret", "delExpose",
           "dEnd", "invRead", "invCreate", "vCreate", "vCount", "vDelete"}

Errors == {"none", "exists", "notfound", "other"}
Answers == {"none", "ok", "error"}
CallType == [op : {"none", "create", "update", "delete", "invoke", "mkvol", "rmvol"},
             name : Names \cup {None}, def : Defs \cup {None}, vol : Volumes \cup {None}]
SnapType == [cm : ObjectType \cup {None}, wl : ObjectType \cup {None}]

\* The service or volume that request r works on.
N(r) == call[r].name
V(r) == call[r].vol
D(r) == call[r].def

InFlight == {r \in Reqs : pc[r] \notin {"idle", "done"}}
Quiescent == \A r \in Reqs : pc[r] \in {"idle", "done"}

Goto(r, l) == pc' = [pc EXCEPT ![r] = l]

\* gin sends the first status that is written; a later one has no effect.
Write(r, a) == resp' = [resp EXCEPT ![r] = IF @ = "none" THEN a ELSE @]
Answer(r, a) == Goto(r, "done") /\ Write(r, a)
Fails(r, e) == err' = [err EXCEPT ![r] = e]
Fault == /\ faults < MaxFaults
         /\ faults' = faults + 1
         /\ UNCHANGED crashes

Init ==
    /\ cm = [n \in Names |-> None]
    /\ wl = [n \in Names |-> None]
    /\ pvc = [v \in Volumes |-> None]
    /\ secret = [n \in Names |-> FALSE]
    /\ jobs = [n \in Names |-> {}]
    /\ expose = [n \in Names |-> FALSE]
    /\ pc = [r \in Reqs |-> "idle"]
    /\ call = [r \in Reqs |-> [op |-> "none", name |-> None, def |-> None, vol |-> None]]
    /\ err = [r \in Reqs |-> "none"]
    /\ prior = [r \in Reqs |-> None]
    /\ snap = [r \in Reqs |-> [cm |-> None, wl |-> None]]
    /\ undo = [r \in Reqs |-> FALSE]
    /\ resp = [r \in Reqs |-> "none"]
    /\ faults = 0
    /\ crashes = 0

\* A request reaches its handler, which starts at label l.
Start(r, o, n, d, v, l) ==
    /\ pc[r] = "idle"
    /\ Cardinality(InFlight) < MaxInFlight
    /\ call' = [call EXCEPT ![r] = [op |-> o, name |-> n, def |-> d, vol |-> v]]
    /\ Goto(r, l)
    /\ UNCHANGED <<objects, err, prior, snap, undo, resp, budget>>

StartCreate(r) == \E n \in Names, d \in Defs : Start(r, "create", n, d, None, "secret")
StartUpdate(r) == \E n \in Names, d \in Defs : Start(r, "update", n, d, None, "resolve")

\* An administrator's delete names no namespace; a user's goes straight to `read`.
StartDelete(r, read) ==
    \E n \in Names, l \in {"resolve", read} : Start(r, "delete", n, None, None, l)

StartInvoke(r) == \E n \in Names : Start(r, "invoke", n, None, None, "invRead")
StartCreateVolume(r) == \E v \in Volumes : Start(r, "mkvol", None, None, v, "vCreate")
StartDeleteVolume(r) == \E v \in Volumes : Start(r, "rmvol", None, None, v, "vCount")

\* The process stops (killed, or by a log.Fatalf of the image puller): every request
\* in progress is lost where it stands.
Crash ==
    /\ crashes < MaxCrashes
    /\ InFlight # {}
    /\ crashes' = crashes + 1
    /\ pc' = [r \in Reqs |-> IF pc[r] = "idle" THEN "idle" ELSE "done"]
    /\ UNCHANGED <<objects, call, err, prior, snap, undo, resp, faults>>

-----------------------------------------------------------------------------
(* MakeCreateHandler, around back.CreateService. *)

\* Secrets are stored first; a Secret of that name makes the handler write a
\* conflict, but it goes on all the same.
CreateServiceSecret(r) ==
    /\ pc[r] = "secret"
    /\ Goto(r, "admit")
    /\ \/ /\ ~D(r).secrets
          /\ UNCHANGED <<secret, resp, budget>>
       \/ /\ D(r).secrets /\ secret[N(r)]
          /\ Write(r, "error")
          /\ UNCHANGED <<secret, budget>>
       \/ /\ D(r).secrets /\ ~secret[N(r)]
          /\ secret' = [secret EXCEPT ![N(r)] = TRUE]
          /\ UNCHANGED <<resp, budget>>
       \/ /\ D(r).secrets /\ Fault
          /\ Write(r, "error")
          /\ \E b \in {secret[N(r)], TRUE} : secret' = [secret EXCEPT ![N(r)] = b]
    /\ UNCHANGED <<cm, wl, pvc, jobs, expose, call, err, prior, snap, undo>>

\* checkAdditionalConfig: an image outside the allowed repositories is refused,
\* unless the configuration cannot be read.
AdmitImage(r) ==
    /\ pc[r] = "admit"
    /\ \/ /\ D(r).allowed
          /\ Goto(r, "createCM")
          /\ UNCHANGED <<err, budget>>
       \/ /\ ~D(r).allowed
          /\ Fails(r, "other") /\ Goto(r, "createFailed")
          /\ UNCHANGED budget
       \/ /\ ~D(r).allowed /\ Fault
          /\ Goto(r, "createCM")
          /\ UNCHANGED err
    /\ UNCHANGED <<objects, call, prior, snap, undo, resp>>

\* Mutant: create-or-update instead of create.
CreateServiceConfigMap_Upsert(r) ==
    /\ pc[r] = "createCM"
    /\ cm' = [cm EXCEPT ![N(r)] = NewObject(r, D(r))]
    /\ Goto(r, "ensureVol")
    /\ UNCHANGED <<wl, pvc, secret, jobs, expose, call, err, prior, snap, undo, resp, budget>>

\* Mutant: "already exists" is taken for success.
CreateServiceConfigMap_ExistsIsOk(r) ==
    /\ pc[r] = "createCM"
    /\ cm' = [cm EXCEPT ![N(r)] = IF @ = None THEN NewObject(r, D(r)) ELSE @]
    /\ Goto(r, "ensureVol")
    /\ UNCHANGED <<wl, pvc, secret, jobs, expose, call, err, prior, snap, undo, resp, budget>>

CreateServiceConfigMap(r) ==
    /\ pc[r] = "createCM"
    /\ \/ /\ cm[N(r)] = None
          /\ cm' = [cm EXCEPT ![N(r)] = NewObject(r, D(r))]
          /\ Goto(r, "ensureVol")
          /\ UNCHANGED <<err, budget>>
       \/ /\ cm[N(r)] # None
          /\ Fails(r, "exists") /\ Goto(r, "createFailed")
          /\ UNCHANGED <<cm, budget>>
       \/ /\ Fault
          /\ Fails(r, "other") /\ Goto(r, "createFailed")
          /\ UNCHANGED cm
    /\ UNCHANGED <<wl, pvc, secret, jobs, expose, call, prior, snap, undo, resp>>

\* EnsureServiceVolume; CreateService goes on at `next`, or at `failed`.
EnsureServiceVolume(r, next, failed) ==
    /\ pc[r] = "ensureVol"
    /\ \/ /\ D(r).volume = "none"
          /\ Goto(r, next)
          /\ UNCHANGED <<pvc, err, budget>>
       \/ /\ CreatesManagedVolume(D(r)) /\ pvc[D(r).vname] = None
          /\ pvc' = [pvc EXCEPT ![D(r).vname] =
                       [mode |-> "service", by |-> r, policy |-> LifecyclePolicy(D(r))]]
          /\ Goto(r, next)
          /\ UNCHANGED <<err, budget>>
       \/ /\ CreatesManagedVolume(D(r)) /\ pvc[D(r).vname] # None
          /\ Fails(r, "exists") /\ Goto(r, failed)
          /\ UNCHANGED <<pvc, budget>>
       \/ /\ D(r).volume = "mount" /\ pvc[D(r).vname] # None
          /\ Goto(r, next)
          /\ UNCHANGED <<pvc, err, budget>>
       \/ /\ D(r).volume = "mount" /\ pvc[D(r).vname] = None
          /\ Fails(r, "notfound") /\ Goto(r, failed)
          /\ UNCHANGED <<pvc, budget>>
       \/ /\ D(r).volume # "none" /\ Fault
          /\ Fails(r, "other") /\ Goto(r, failed)
          /\ UNCHANGED pvc
    /\ UNCHANGED <<cm, wl, secret, jobs, expose, call, prior, snap, undo, resp>>

\* Mutant: the ConfigMap is not rolled back.
RollbackConfigMap_Skipped(r, at, next) ==
    /\ pc[r] = at
    /\ Goto(r, next)
    /\ UNCHANGED <<objects, call, err, prior, snap, undo, resp, budget>>

\* A create that failed half-way, at `at`, deletes its ConfigMap; `next` follows.
RollbackConfigMap(r, at, next) ==
    /\ pc[r] = at
    /\ Goto(r, next)
    /\ \/ /\ cm' = [cm EXCEPT ![N(r)] = None]
          /\ UNCHANGED budget
       \/ /\ Fault
          /\ UNCHANGED cm
    /\ UNCHANGED <<wl, pvc, secret, jobs, expose, call, err, prior, snap, undo, resp>>

\* DeleteServiceVolume: a forced delete by name.
RemoveServiceVolume(r) ==
    \/ /\ DropsVolume(D(r))
       /\ pvc' = [pvc EXCEPT ![D(r).vname] = None]
       /\ UNCHANGED budget
    \/ /\ ~DropsVolume(D(r))
       /\ UNCHANGED <<pvc, budget>>
    \/ /\ DropsVolume(D(r)) /\ Fault
       /\ UNCHANGED pvc

\* Mutant: the rollback's own result is returned, not the error that caused it.
RollbackVolume_ReturnsNil(r) ==
    /\ pc[r] = "rollbackVol"
    /\ Goto(r, "minio")
    /\ RemoveServiceVolume(r)
    /\ UNCHANGED <<cm, wl, secret, jobs, expose, call, err, prior, snap, undo, resp>>

RollbackVolume(r) ==
    /\ pc[r] = "rollbackVol"
    /\ Goto(r, "createFailed")
    /\ RemoveServiceVolume(r)
    /\ UNCHANGED <<cm, wl, secret, jobs, expose, call, err, prior, snap, undo, resp>>

\* Mutant: an error of the image puller is logged, and its pods are waited for.
PrefetchImage_ErrorLogged(r) ==
    /\ pc[r] = "prefetch"
    /\ Goto(r, IF D(r).prefetch THEN "pulling" ELSE "minio")
    /\ UNCHANGED <<objects, call, err, prior, snap, undo, resp, budget>>

\* CreateDaemonset, last call of CreateService.  The DaemonSet is made and its pods are
\* waited for; or it is refused, as it is whenever an earlier one of that name is still
\* there, and the error is returned with no rollback.
PrefetchImage(r) ==
    /\ pc[r] = "prefetch"
    /\ \/ /\ ~D(r).prefetch
          /\ Goto(r, "minio")
          /\ UNCHANGED err
       \/ /\ D(r).prefetch
          /\ Goto(r, "pulling")
          /\ UNCHANGED err
       \/ /\ D(r).prefetch
          /\ Fails(r, "other") /\ Goto(r, "createFailed")
    /\ UNCHANGED <<objects, call, prior, snap, undo, resp, budget>>

\* The handler sorts the error out: a conflict or a missing volume is only
\* reported, anything else makes it call DeleteService for that name.
CreateFailed(r) ==
    /\ pc[r] = "createFailed"
    /\ \/ /\ err[r] = "exists" \/ (err[r] = "notfound" /\ D(r).volume = "mount")
          /\ Answer(r, "error")
       \/ /\ err[r] = "other" \/ (err[r] = "notfound" /\ D(r).volume # "mount")
          /\ Goto(r, "delWL")
          /\ UNCHANGED resp
    /\ UNCHANGED <<objects, call, err, prior, snap, undo, budget>>

\* registerMinIOWebhook and createBuckets: a failure undoes the service (the status
\* of a failed createBuckets is written first).  A bucket policy or tag that fails is
\* reported, and the service stays.  A path without a folder makes createBuckets panic:
\* gin answers 500 and the service stays as well.
CreateMinIO(r) ==
    /\ pc[r] = "minio"
    /\ \/ /\ D(r).folders
          /\ Answer(r, "ok")
          /\ UNCHANGED <<err, budget>>
       \/ /\ D(r).folders /\ Fault
          /\ Answer(r, "error")
          /\ UNCHANGED err
       \/ /\ ~D(r).folders
          /\ Answer(r, "error")
          /\ UNCHANGED <<err, budget>>
       \/ /\ Fails(r, "other") /\ Goto(r, "delWL")
          /\ UNCHANGED resp \/ Write(r, "error")
          /\ UNCHANGED budget
    /\ UNCHANGED <<objects, call, prior, snap, undo>>

-----------------------------------------------------------------------------
(* The tail of DeleteService, the same in both backends.  Errors of these   *)
(* calls are logged and the next call is made, except the last one.         *)

DeleteServiceConfigMap(r) ==
    /\ pc[r] = "delCM"
    /\ Goto(r, "delJobs")
    /\ \/ /\ cm' = [cm EXCEPT ![N(r)] = None]
          /\ UNCHANGED budget
       \/ /\ Fault
          /\ UNCHANGED cm
    /\ UNCHANGED <<wl, pvc, secret, jobs, expose, call, err, prior, snap, undo, resp>>

\* Mutant: the jobs of a deleted service are left.
DeleteServiceJobs_Skipped(r) ==
    /\ pc[r] = "delJobs"
    /\ Goto(r, "delVol")
    /\ UNCHANGED <<objects, call, err, prior, snap, undo, resp, budget>>

DeleteServiceJobs(r) ==
    /\ pc[r] = "delJobs"
    /\ Goto(r, "delVol")
    /\ \/ /\ jobs' = [jobs EXCEPT ![N(r)] = {}]
          /\ UNCHANGED budget
       \/ /\ Fault
          /\ UNCHANGED jobs
    /\ UNCHANGED <<cm, wl, pvc, secret, expose, call, err, prior, snap, undo, resp>>

DeleteServiceVolume(r) ==
    /\ pc[r] = "delVol"
    /\ Goto(r, "delSecret")
    /\ RemoveServiceVolume(r)
    /\ UNCHANGED <<cm, wl, secret, jobs, expose, call, err, prior, snap, undo, resp>>

DeleteServiceSecret(r) ==
    /\ pc[r] = "delSecret"
    /\ Goto(r, "delExpose")
    /\ \/ /\ secret' = [secret EXCEPT ![N(r)] = FALSE]
          /\ UNCHANGED budget
       \/ /\ secret[N(r)] /\ Fault
          /\ UNCHANGED secret
    /\ UNCHANGED <<cm, wl, pvc, jobs, expose, call, err, prior, snap, undo, resp>>

DeleteServiceExpose(r) ==
    /\ pc[r] = "delExpose"
    /\ Goto(r, "dEnd")
    /\ \/ /\ expose' = [expose EXCEPT ![N(r)] = @ /\ ~D(r).exposed]
          /\ UNCHANGED <<err, budget>>
       \/ /\ D(r).exposed /\ Fault
          /\ Fails(r, "other")
          /\ UNCHANGED expose
    /\ UNCHANGED <<cm, wl, pvc, secret, jobs, call, prior, snap, undo, resp>>

\* Back in the handler that called DeleteService; a service whose buckets could not
\* be deleted is gone all the same.
DeleteServiceReturns(r) ==
    /\ pc[r] = "dEnd"
    /\ \/ /\ call[r].op = "create" \/ err[r] # "none"
          /\ Answer(r, "error")
          /\ UNCHANGED budget
       \/ /\ call[r].op = "delete" /\ err[r] = "none"
          /\ Answer(r, "ok")
          /\ UNCHANGED budget
       \/ /\ call[r].op = "delete" /\ err[r] = "none" /\ Fault
          /\ Answer(r, "error")
    /\ UNCHANGED <<objects, call, err, prior, snap, undo>>

-----------------------------------------------------------------------------
(* MakeUpdateHandler and MakeDeleteHandler read the service first. *)

\* resolveServiceNamespace: find the service by the label of its ConfigMap.
ResolveServiceNamespace(r, next) ==
    /\ pc[r] = "resolve"
    /\ \/ /\ cm[N(r)] # None
          /\ Goto(r, next)
          /\ UNCHANGED <<resp, budget>>
       \/ /\ cm[N(r)] = None
          /\ Answer(r, "error")
          /\ UNCHANGED budget
       \/ /\ Fault
          /\ Answer(r, "error")
    /\ UNCHANGED <<objects, call, err, prior, snap, undo>>

\* The ConfigMap part of ReadService.
ReadServiceConfigMap(r) ==
    /\ pc[r] = "readCM"
    /\ \/ /\ cm[N(r)] # None
          /\ \/ /\ call[r].op = "update"
                /\ prior' = [prior EXCEPT ![r] = cm[N(r)].def]
                /\ Goto(r, "uSame")
                /\ UNCHANGED call
             \/ /\ call[r].op = "delete"
                /\ call' = [call EXCEPT ![r].def = cm[N(r)].def]
                /\ Goto(r, "delWL")
                /\ UNCHANGED prior
          /\ UNCHANGED <<resp, budget>>
       \/ /\ cm[N(r)] = None
          /\ Answer(r, "error")
          /\ UNCHANGED <<call, prior, budget>>
       \/ /\ Fault
          /\ Answer(r, "error")
          /\ UNCHANGED <<call, prior>>
    /\ UNCHANGED <<objects, err, snap, undo>>

\* The volume block of a service cannot be changed.
CheckSameVolume(r) ==
    /\ pc[r] = "uSame"
    /\ \/ /\ SameVolumeConfig(prior[r], D(r))
          /\ Goto(r, "uMinio")
          /\ UNCHANGED resp
       \/ /\ ~SameVolumeConfig(prior[r], D(r))
          /\ Answer(r, "error")
    /\ UNCHANGED <<objects, call, err, prior, snap, undo, budget>>

\* Credentials of the users, then the buckets of the new definition.  If the first
\* fail the handler returns; if the buckets fail it calls UpdateService with the old
\* definition; a bucket policy that fails is reported and the update goes on.  A path
\* without a folder panics here too, and nothing is updated.
UpdateMinIO(r) ==
    /\ pc[r] = "uMinio"
    /\ \/ /\ D(r).folders
          /\ Goto(r, "uSecret")
          /\ UNCHANGED <<undo, resp, budget>>
       \/ /\ D(r).folders /\ Fault
          /\ Goto(r, "uSecret") /\ Write(r, "error")
          /\ UNCHANGED undo
       \/ /\ Fault
          /\ Answer(r, "error")
          /\ UNCHANGED undo
       \/ /\ ~D(r).folders
          /\ Answer(r, "error")
          /\ UNCHANGED <<undo, budget>>
       \/ /\ undo' = [undo EXCEPT ![r] = TRUE]
          /\ Write(r, "error")
          /\ Goto(r, "uAdmit")
          /\ UNCHANGED budget
    /\ UNCHANGED <<objects, call, err, prior, snap>>

UpdateServiceSecret(r) ==
    /\ pc[r] = "uSecret"
    /\ Goto(r, "uAdmit")
    /\ \/ /\ secret' = [secret EXCEPT ![N(r)] = @ \/ D(r).secrets]
          /\ UNCHANGED <<resp, budget>>
       \/ /\ D(r).secrets /\ Fault
          /\ Write(r, "error")
          /\ UNCHANGED secret
    /\ UNCHANGED <<cm, wl, pvc, jobs, expose, call, err, prior, snap, undo>>

\* The definition that the running UpdateService call applies.
Applied(r) == IF undo[r] THEN prior[r] ELSE D(r)

\* Mutant: the failed update is not undone.
UpdateReturnsError_NoUndo(r) == Answer(r, "error") /\ UNCHANGED undo

\* Mutant: the undo is itself undone, again and again.
UpdateReturnsError_Retry(r) ==
    /\ undo' = [undo EXCEPT ![r] = TRUE]
    /\ Goto(r, "uAdmit")
    /\ UNCHANGED resp

\* UpdateService returned an error: put the old service back, once.
UpdateReturnsError(r) ==
    \/ /\ ~undo[r]
       /\ undo' = [undo EXCEPT ![r] = TRUE]
       /\ Goto(r, "uAdmit")
       /\ UNCHANGED resp
    \/ /\ undo[r]
       /\ Answer(r, "error")
       /\ UNCHANGED undo

UpdateReturnsOk(r) ==
    /\ Answer(r, IF undo[r] THEN "error" ELSE "ok")
    /\ UNCHANGED undo

\* UpdateService starts; `next` is the first object it reads.
AdmitUpdate(r, next) ==
    /\ pc[r] = "uAdmit"
    /\ \/ /\ Applied(r).allowed
          /\ Goto(r, next)
          /\ UNCHANGED <<undo, resp, budget>>
       \/ /\ ~Applied(r).allowed
          /\ UpdateReturnsError(r)
          /\ UNCHANGED budget
       \/ /\ ~Applied(r).allowed /\ Fault
          /\ Goto(r, next)
          /\ UNCHANGED <<undo, resp>>
    /\ UNCHANGED <<objects, call, err, prior, snap>>

ReadOldConfigMap(r) ==
    /\ pc[r] = "uGet"
    /\ \/ /\ cm[N(r)] # None
          /\ snap' = [snap EXCEPT ![r].cm = cm[N(r)]]
          /\ Goto(r, "uCM")
          /\ UNCHANGED <<undo, resp, budget>>
       \/ /\ cm[N(r)] = None
          /\ UpdateReturnsError(r)
          /\ UNCHANGED <<snap, budget>>
       \/ /\ Fault
          /\ UpdateReturnsError(r)
          /\ UNCHANGED snap
    /\ UNCHANGED <<objects, call, err, prior>>

\* updateServiceConfigMap carries no resourceVersion.
UpdateServiceConfigMap(r) ==
    /\ pc[r] = "uCM"
    /\ \/ /\ cm[N(r)] # None
          /\ cm' = [cm EXCEPT ![N(r)] = Updated(@, Applied(r))]
          /\ Goto(r, "uWL")
          /\ UNCHANGED <<undo, resp, budget>>
       \/ /\ cm[N(r)] = None
          /\ UpdateReturnsError(r)
          /\ UNCHANGED <<cm, budget>>
       \/ /\ Fault
          /\ UpdateReturnsError(r)
          /\ UNCHANGED cm
    /\ UNCHANGED <<wl, pvc, secret, jobs, expose, call, err, prior, snap>>

\* "Restore the old configMap": the object as it was read, resourceVersion and all.
RestoreOldConfigMap(r) ==
    /\ pc[r] = "uRestore"
    /\ UpdateReturnsError(r)
    /\ \/ /\ Current(cm[N(r)], snap[r].cm)
          /\ cm' = [cm EXCEPT ![N(r)] = Updated(@, snap[r].cm.def)]
          /\ UNCHANGED budget
       \/ /\ ~Current(cm[N(r)], snap[r].cm)
          /\ UNCHANGED <<cm, budget>>
       \/ /\ Fault
          /\ UNCHANGED cm
    /\ UNCHANGED <<wl, pvc, secret, jobs, expose, call, err, prior, snap>>

\* UpdateExpose (it needs the Deployment to exist), then CreateDaemonset: its pods are
\* waited for, or the DaemonSet is refused and the update fails.
UpdateServiceExpose(r) ==
    /\ pc[r] = "uExpose"
    /\ \/ /\ Applied(r).exposed => expose[N(r)]
          /\ ~Applied(r).prefetch
          /\ UpdateReturnsOk(r)
          /\ UNCHANGED budget
       \/ /\ Applied(r).exposed => expose[N(r)]
          /\ Applied(r).prefetch
          /\ Goto(r, "uPull")
          /\ UNCHANGED <<undo, resp, budget>>
       \/ /\ (Applied(r).exposed /\ ~expose[N(r)]) \/ Applied(r).prefetch
          /\ UpdateReturnsError(r)
          /\ UNCHANGED budget
       \/ /\ Fault
          /\ UpdateReturnsError(r)
    /\ UNCHANGED <<objects, call, err, prior, snap>>

\* Request r waits for the pods of its image puller (`<-stopper` in watchPods).
Pulling(r) == \/ pc[r] = "pulling" /\ D(r).prefetch
              \/ pc[r] = "uPull" /\ Applied(r).prefetch

\* The pods of the image puller run on every node and CreateDaemonset returns.  Nothing
\* in OSCAR makes it happen: there is no timeout, and an image that cannot be pulled
\* keeps the request waiting for ever.
ImagePulled(r) ==
    /\ \/ /\ pc[r] = "pulling"
          /\ Goto(r, "minio")
          /\ UNCHANGED <<undo, resp>>
       \/ /\ pc[r] = "uPull"
          /\ UpdateReturnsOk(r)
    /\ UNCHANGED <<objects, call, err, prior, snap, budget>>

-----------------------------------------------------------------------------
(* MakeJobHandler, as far as the service's objects go. *)

\* ListServicesByName reads the ConfigMap only.
InvokeRead(r) ==
    /\ pc[r] = "invRead"
    /\ \/ /\ cm[N(r)] # None /\ cm[N(r)].def.podSpec
          /\ Goto(r, "invCreate")
          /\ UNCHANGED <<resp, budget>>
       \/ /\ cm[N(r)] # None /\ ~cm[N(r)].def.podSpec
          /\ Answer(r, "error")
          /\ UNCHANGED budget
       \/ /\ cm[N(r)] = None
          /\ Answer(r, "error")
          /\ UNCHANGED budget
       \/ /\ Fault
          /\ Answer(r, "error")
    /\ UNCHANGED <<objects, call, err, prior, snap, undo>>

InvokeCreate(r) ==
    /\ pc[r] = "invCreate"
    /\ \/ /\ jobs' = [jobs EXCEPT ![N(r)] = @ \cup {r}]
          /\ Answer(r, "ok")
          /\ UNCHANGED budget
       \/ /\ Fault
          /\ Answer(r, "error")
          /\ UNCHANGED jobs
    /\ UNCHANGED <<cm, wl, pvc, secret, expose, call, err, prior, snap, undo>>

-----------------------------------------------------------------------------
(* /system/volumes. *)

\* The claim of a volume that a user asks for has no lifecycle policy.
ApiClaim(r) == [mode |-> "api", by |-> r, policy |-> ""]

\* The new claim is read back for the answer, and that may fail too.
CreateVolume(r) ==
    LET created == [pvc EXCEPT ![V(r)] = ApiClaim(r)] IN
    /\ pc[r] = "vCreate"
    /\ \/ /\ pvc[V(r)] = None
          /\ pvc' = created
          /\ Answer(r, "ok")
          /\ UNCHANGED budget
       \/ /\ pvc[V(r)] # None
          /\ Answer(r, "error")
          /\ UNCHANGED <<pvc, budget>>
       \/ /\ Fault
          /\ Answer(r, "error")
          /\ pvc' = pvc \/ (pvc[V(r)] = None /\ pvc' = created)
    /\ UNCHANGED <<cm, wl, secret, jobs, expose, call, err, prior, snap, undo>>

\* The guard of a delete that is not forced.
CountVolumeAttachments(r) ==
    /\ pc[r] = "vCount"
    /\ \/ /\ Attachments(V(r)) = {}
          /\ Goto(r, "vDelete")
          /\ UNCHANGED <<resp, budget>>
       \/ /\ Attachments(V(r)) # {}
          /\ Answer(r, "error")
          /\ UNCHANGED budget
       \/ /\ Fault
          /\ Answer(r, "error")
    /\ UNCHANGED <<objects, call, err, prior, snap, undo>>

DeleteVolume(r) ==
    /\ pc[r] = "vDelete"
    /\ \/ /\ pvc' = [pvc EXCEPT ![V(r)] = None]
          /\ Answer(r, "ok")
          /\ UNCHANGED budget
       \/ /\ Fault
          /\ Answer(r, "error")
          /\ UNCHANGED pvc
    /\ UNCHANGED <<cm, wl, secret, jobs, expose, call, err, prior, snap, undo>>

-----------------------------------------------------------------------------
\* Steps of a request in progress that do not depend on the backend.
SharedStep(r) ==
    \/ CreateServiceSecret(r) \/ AdmitImage(r) \/ CreateServiceConfigMap(r)
    \/ RollbackVolume(r) \/ PrefetchImage(r) \/ CreateFailed(r) \/ CreateMinIO(r)
    \/ DeleteServiceConfigMap(r) \/ DeleteServiceJobs(r) \/ DeleteServiceVolume(r)
    \/ DeleteServiceSecret(r) \/ DeleteServiceExpose(r) \/ DeleteServiceReturns(r)
    \/ CheckSameVolume(r) \/ UpdateMinIO(r) \/ UpdateServiceSecret(r) \/ ReadOldConfigMap(r)
    \/ UpdateServiceConfigMap(r) \/ RestoreOldConfigMap(r) \/ UpdateServiceExpose(r)
    \/ InvokeRead(r) \/ InvokeCreate(r)
    \/ CreateVolume(r) \/ CountVolumeAttachments(r) \/ DeleteVolume(r)

\* Every request has been answered (or lost): nothing is left to do.
AllServed ==
    /\ \A r \in Reqs : pc[r] = "done"
    /\ UNCHANGED vars

-----------------------------------------------------------------------------
(* Properties of both backends. *)

ObjectsOK ==
    /\ cm \in [Names -> ObjectType \cup {None}]
    /\ wl \in [Names -> ObjectType \cup {None}]
    /\ pvc \in [Volumes -> ClaimType \cup {None}]
    /\ secret \in [Names -> BOOLEAN]
    /\ jobs \in [Names -> SUBSET Reqs]
    /\ expose \in [Names -> BOOLEAN]

ControlOK ==
    /\ pc \in [Reqs -> Labels]
    /\ call \in [Reqs -> CallType]
    /\ err \in [Reqs -> Errors]
    /\ prior \in [Reqs -> Defs \cup {None}]
    /\ snap \in [Reqs -> SnapType]
    /\ undo \in [Reqs -> BOOLEAN]
    /\ resp \in [Reqs -> Answers]

\* Every variable has its type.
TypeOK == ObjectsOK /\ ControlOK /\ faults \in Nat /\ crashes \in Nat

\* What a request carries at each point of its handler.
CallOK ==
    \A r \in Reqs :
        /\ pc[r] \notin {"idle", "done", "vCreate", "vCount", "vDelete"} => N(r) \in Names
        /\ pc[r] \in {"vCreate", "vCount", "vDelete"} => V(r) \in Volumes
        /\ \/ pc[r] \in {"idle", "done", "vCreate", "vCount", "vDelete", "invRead", "invCreate"}
           \/ pc[r] \in {"resolve", "readWL", "readCM"} /\ call[r].op = "delete"
           \/ D(r) \in Defs
        /\ pc[r] \in {"uSame", "uMinio", "uSecret", "uAdmit", "uGetWL", "uGet", "uCM",
                     "uWL", "uRestore", "uExpose", "uPull"} => prior[r] \in Defs
        /\ pc[r] \in {"uCM", "uWL", "uRestore"} => snap[r].cm \in ObjectType

\* With requests that do not overlap and no failed call, what a service leaves when
\* its ConfigMap is gone is nothing that would run or hold storage: no PodTemplate,
\* no job, and no volume with lifecycle policy "delete" that its create made.
NothingLeftBehind ==
    (Quiescent /\ faults = 0 /\ crashes = 0) =>
        /\ \A n \in Names : cm[n] = None => wl[n] = None /\ jobs[n] = {}
        /\ \A v \in Volumes :
              pvc[v] # None /\ pvc[v].mode = "service" /\ pvc[v].policy = "delete" =>
                  \E n \in Names : cm[n] # None /\ cm[n].by = pvc[v].by

\* With requests that do not overlap and no failed call, the definition that is
\* read back is the one the PodTemplate was made from, also after an update that
\* failed and was undone.
DefinitionsAgree ==
    (Quiescent /\ faults = 0 /\ crashes = 0) =>
        \A n \in Names : wl[n] # None => cm[n] # None /\ cm[n].def = wl[n].def

\* With requests that do not overlap, a create is answered "created" only when both
\* objects of its service are there and are its own.
AcceptedCreateIsThere ==
    [][\A r \in Reqs :
          call[r].op = "create" /\ resp[r] = "none" /\ resp'[r] = "ok" =>
              /\ cm'[N(r)] # None /\ cm'[N(r)].by = r
              /\ wl'[N(r)] # None /\ wl'[N(r)].by = r]_vars

\* A volume that was created through /system/volumes is deleted through /system/volumes
\* and not by a service operation ("which are deleted only through explicit volume API
\* requests", specs/006-volumes/spec.md:215).
ApiVolumesKept ==
    [][\A v \in Volumes, r \in Reqs :
          pvc[v] # None /\ pvc[v].mode = "api" /\ pvc'[v] = None /\ pc[r] # pc'[r] =>
              call[r].op = "rmvol"]_vars

\* Every request is answered (or lost in a crash), the undo paths of the handlers
\* included, unless it waits for an image that it asked to be prefetched; once that image
\* is there it is answered too.
EveryRequestAnswered == \A r \in Reqs : pc[r] # "idle" ~> (pc[r] = "done" \/ Pulling(r))

=============================================================================
