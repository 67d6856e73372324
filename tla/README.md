# OSCAR: specifications

TLA+ specifications of [OSCAR](https://grycap.github.io/oscar), the server that
keeps serverless services on a Kubernetes cluster. TLC checks them on small
instances; the theorems of the `*Proofs` modules hold for every value of the
constants and are checked by TLAPS. `PROJECT.json` lists the components, the
runs, the mutants of each property, the source lines of each definition, the
hazards, the findings and the theorems.

    tlc -workers 2 -config KubeRaces.cfg MCKubeBackend     # a run
    tlapm KubeBackendProofs.tla                            # the proofs

## 1. Inventory

OSCAR is one Go process. Every HTTP request is a goroutine of gin; three more
goroutines run for ever (the rescheduler, the resource manager's loop, the
informer of an image prefetch). Almost no state is in memory: services, volumes,
secrets and jobs are Kubernetes objects, buckets and policies are in MinIO.
There is no lock and no transaction. What is correct therefore depends on the
ORDER of API calls that other requests may interleave with, that may fail, and
that a stop of the process may cut short.

| Component | Source (`src/`) | State | Operations | Hard behaviour | Correct means | Modelled by |
|---|---|---|---|---|---|---|
| Service lifecycle handlers | `pkg/handlers/{create,update,delete}.go` | `isAdminUser` | create, update, delete | undo paths, errors that are answered but do not return, a shared variable | every request ends; the answer says what happened | `ServiceStore`, `Buckets`, `Tenancy` |
| Kubernetes backend | `pkg/backends/k8s.go` | ConfigMap + PodTemplate per service | Create/Read/Update/DeleteService | two objects, no transaction; rollbacks by name | no PodTemplate without its ConfigMap; one claimant per name | `KubeBackend`, `ServiceRegistry` |
| Knative backend | `pkg/backends/knative.go` | ConfigMap + Knative Service | the same | the order of deletes and the rollbacks differ | the same, sequentially | `KnativeBackend` |
| Managed volumes | `pkg/backends/resources/volume.go`, `pkg/handlers/volumes.go`, `pkg/utils/volume.go` | PVCs, their lifecycle policy | ensure, delete, attach, `/system/volumes` | check-then-delete; forced deletes by name | only who made a volume deletes it; no volume beyond the quota | `ServiceStore`, `Tenancy` |
| Service secrets | `pkg/utils/secrets.go` | one Secret per service | create, update, delete | an error that does not return | removed with the service | `ServiceStore` |
| Asynchronous invocation | `pkg/handlers/job.go` | Jobs | create a job, or delegate it | the service may go while it is invoked | an accepted event is a job or at a replica | `ServiceStore`, `Delegation` |
| Delegation and rescheduler | `pkg/resourcemanager/{delegate,rescheduler}.go` | `tokenCache`, pending pods | DelegateJob, reschedule loop | requests accepted whose answer is lost; stale tokens; panics | nothing lost, nothing twice, everything goes on | `Delegation` |
| Resource manager | `pkg/resourcemanager/k8s.go` | free CPU and memory per node | UpdateResources, IsSchedulable | stale by up to an interval | a wrong answer costs time, never an event | `Delegation` (as a free choice) |
| Image puller | `pkg/imagepuller/daemonset.go` | package variables, a DaemonSet | CreateDaemonset | it is called within the request and waits for a pod on every node; `log.Fatalf` | the code promises nothing that could be kept | its outcomes, the endless wait included: `ServiceStore` |
| Exposed services | `pkg/backends/resources/expose.go` | Deployment, autoscaler, Service, Ingress or HTTPRoute, middlewares, secrets | Create/Update/DeleteExpose | up to ten objects, no rollback; the route kind may change | what is accepted is served, nothing left after the delete | `Exposure` |
| Kueue queues | `pkg/utils/kueue.go` | flavor, cluster queue, local queues, Workloads | ensure, delete, look for admission | upserts that race; a look that races the admission | queues follow services; pods run only when admitted | `Tenancy`, `Exposure` |
| Quotas | `pkg/handlers/quotas.go`, `pkg/utils/volume_limit.go` | ResourceQuota, LimitRange, ClusterQueue | read, update, validate | check against a usage that was read before; visible and stored values differ | limits are what was asked, and kept | `Tenancy` |
| MinIO | `pkg/utils/minio.go`, `pkg/handlers/buckets/` | buckets, tags, policies, groups, notifications, webhooks | create, update, delete buckets; grants; webhooks | read-modify-write without versions | a bucket is open to those its owner asked for | `MinIO`, `Buckets` |
| Multitenancy, OIDC | `pkg/utils/auth/`, `pkg/utils/namespaces.go` | credentials, user namespaces and their objects, `usersCache` | provision a user, ensure a namespace | idempotence under concurrent and broken-off first requests | namespace complete before use; credentials that work | `Tenancy` |
| YuniKorn | `pkg/utils/yunikorn.go` | queue configuration in one ConfigMap | add, delete a queue | read-modify-write of a shared object | queues follow services | `Tenancy` |
| Deployment status, logs, metrics | `pkg/handlers/{deployment,logs,status}.go`, `pkg/metrics/` | none | read and aggregate | | | not modelled |
| Synchronous invocation | `pkg/handlers/run.go` | none | proxy | pure I/O | | not modelled |
| Configuration, definitions | `pkg/types/` | none | parse | | defaults are applied | the fields the control flow tells apart |
| HTTP server | `main.go` | none | routing (the dashboard is a submodule of its own) | | | not modelled |

The hazards of `PROJECT.json` are the points of this code that a test would
hardly reach; each names the properties below that would catch it going wrong,
or says why none does.

## 2. Modules and their correspondence to the code

**ServiceStore** holds what both backends share. The state is the Kubernetes
objects of one namespace (`cm`, `wl`, `pvc`, `secret`, `jobs`, `expose`) and,
for each request, its next API call (`pc`) and the local variables of its
handler (`call`, `err`, `prior`, `snap`, `undo`, `resp`). A ConfigMap or
workload is a record of its definition, of the request that made it (its UID)
and of its resourceVersion, so that "the same name" and "the same object" are
different things, and an update that carries the version it read can conflict.
Each Kubernetes call is one action, with one disjunct per outcome: success,
the API's own refusals (exists, not found, conflict), and `Fault`, a call that
fails for another reason before it takes effect. Where one action stands for
several calls (`CreateServiceSecret`, `CreateVolume`, `ExposeService`) a fault
may also leave the effect of the first ones. `Crash` stops the process: every
request in progress is lost where it stands and the objects stay. A definition
is reduced to the nine facts that the control flow looks at (`DefType`).
`Write` models gin's rule that the first status written is the one sent: the
create handler does write "conflict" for a Secret that exists and goes on.
A create or update with `image_prefetch` makes a DaemonSet, which may be refused,
and then waits within the request until the image puller has seen a running pod on
every node (`Pulling`; `daemonset.go:163`). `ImagePulled` ends that wait and may
never happen; the `log.Fatalf` of the image puller is a `Crash`. A create or update
whose path in `input` or `output` has no folder after the bucket panics in
`createBuckets` (`folders`; `create.go:437`, `486`): gin answers 500, and after a
create the service stays.

**KubeBackend** and **KnativeBackend** add the calls that differ, and `Next`.
The most visible differences: KubeBackend ends DeleteService at the first error
("not found" included) of the PodTemplate and updates without versions;
Knative treats a missing service as deleted, updates the object it read with
its resourceVersion, has no Knative Service for an exposed service, and keeps a
volume whose name was taken.

**ServiceRegistry** is the abstract specification of a backend's names: a name
is free, claimed by one request, live, or stranded. `KubeBackend!Registered`
maps the two objects and the requests in progress to it.

**Delegation** is the asynchronous invocation of a service with replicas:
`Invoke` and `CreateJob` (`MakeJobHandler`), `DelegateJob` with one action per
HTTP request and shared by the handlers and the rescheduler, the rescheduler's
loop, `tokenCache` with its clearing, the priorities of all modes, `mapToRange`
with its limits, and the order of `sort.Stable`. A request to a replica, or to the API for a job, may fail before or
after it took effect. A panic is recovered by gin in a handler
(answer 500) and ends the process in the rescheduler; both are modelled
(`Panics`, `Restart`). `copies[e]` counts how often a replica accepted `e`.
What is posted is what `eventBuild` makes of the event (`EventBuild`): for an event
that is not a JSON object (`Texts`) an empty body, and one whose `storage_provider` is no string
(`Malformed`) makes it panic (`EventPanics`). A service has the clusters that have
room for it now (`roomy`), a CPU that `strconv.ParseFloat` reads or not (`numeric`),
and is in the namespace whose pods the rescheduler lists or in another (`shared`).
A cluster without room and a CPU that cannot be read are answers and not failures:
they rule a replica out for as long as they last, and cost no bound.
What the resource manager sees is a free choice (`UpdateResources`), as the
nodes are outside the model, and `FALSE` after a start, when no resources are
known yet. External: the replicas' clusters and the life of a pod.

**Exposure** has the single objects of one exposed service. A function of
`expose.go` is a sequence of calls, `CreateExpose`, `UpdateExpose`, `DeleteExpose`
and the route functions under the source's names; a request works off its sequence
`todo[r]`, and each kind of call is one action (`Create`, `Update`, `Get`, `Delete`,
`Upsert`, ...) with its success, its refusals and its failure, and the error
handling of the place it is called from. `Refers` says which objects the content
of an object names. The registry of services, which `KubeBackend` models, is the
variable `reg`; `served` and `clean` are history variables of the properties.
`Restart` loses the requests in progress and may change the route kind. External:
Kueue's admission (`Admit`).

**MinIO** is the server as `minio.go` uses it, one record, and the functions of
`minio.go` as the calls they make. **Buckets** has the handlers of
`/system/buckets` and the parts of the service handlers that make, share and
remove buckets, `isAdminUser` included. A handler is a sequence of *blocks*
(`Block(calls, skip, log)`), so that an error skips what the code's `return`
skips, and is answered or only logged. A policy is the sequence of its resources,
duplicates included; policies, group members and notifications are read in one
step and written back in another. A name may have a folder in it: `BucketOf` is
the bucket before the first slash, which is made and tagged, while `SetPolicies` gets
the name as it was given (`create_bucket.go:99`, `124`). The users a request lists
may have no account (`Strangers`), and MinIO refuses them as members. A service request
arrives (`PostService`, `PutService`), which sets `isAdminUser`, and looks at that
variable in steps of its own (`Identify`, `Isolate`, `MountPrivate`, `Publish`), by which
time another request may have set it. The panic of a path without a folder is
ServiceStore's: the definitions here have folders. External: what a MinIO call does.

**Tenancy** is what OSCAR keeps for one user: Secret and MinIO account, namespace
with role, binding and shared volume, limits, Kueue queues, YuniKorn's
configuration. All requests go through the middleware's calls first. `obj` holds
the objects by kind; "get, and create if it is not there" are two steps. Kubernetes'
own quota check is `FitsQuota`. The three service-like operations (`PublishService`,
`RetireService`, `CreateClaim`) are single steps here, as `ServiceStore` has them
call by call. A body may name a namespace (`Places`; `create.go:208`): the service and its
LocalQueue are then made there, without that namespace having been ensured, and its
volume is not followed further. Within the user's own namespace a service has no
volume, attaches one, or has one made, which its delete removes unless it is to be retained.
A ClusterQueue has processors and memory, a LimitRange a maximum and a minimum, which
Kubernetes refuses the wrong way round. External: the binding of the shared volume.

`ServiceStore`, `Exposure`, `Buckets` and `Tenancy` cut the same handlers along the
kinds of state they change (registry and workload; exposure; MinIO; user and
queues). Each keeps the others' outcome as a choice or a single step, so that every
one can have all interleavings of its own calls.

**MCKubeBackend, MCKnativeBackend, MCDelegation, MCExposure, MCBuckets, MCTenancy**
name the definitions that the runs use. The proofs are in **KubeBackendProofs** (any
interleaving), **KubeSequentialProofs** and **KnativeBackendProofs** (requests that do
not overlap), all three on **ServiceStoreProofs**, and in **DelegationProofs**,
**TenancyProofs**, **ExposureProofs** and **BucketsProofs**.

## 3. Runs

Runs that must pass:

| Run | Question | Properties | States |
|---|---|---|---|
| KubeRaces | three overlapping requests on one name, a failed call, a crash | `IInv`, `LiveServiceIsReadable`, `RollbackIsOwn`, `NoHalfService`, `ImplementsRegistry` | 919k |
| KubeSequential | four requests that do not overlap, two services, one volume | `NothingLeftBehind`, `DefinitionsAgree`, `AcceptedCreateIsThere` | 908k |
| KubeAnswers | every kind of definition, two overlapping requests, two failed calls, a crash | `EveryRequestAnswered` | 547k |
| Knative | three requests on Knative that do not overlap, with a failed call, a crash, refused images, exposed services | `NothingLeftBehind`, `DefinitionsAgree`, `NoHalfService`, `ForeignVolumesKept` | 2571k |
| DelegationCustody | two events, one of them no JSON, the rescheduler, a failure, a changed token, a crash, five definitions | `IInv`, `AcceptedIsHeld`, `OnePlaceOnly`, `DelegationFindsReplica` | 2532k |
| DelegationProgress | the same without crashes, with a malformed event, under fairness | `EveryInvocationAnswered`, `LateIsDelegated` | 90k |
| Exposure | three requests on one exposed service, in four configurations, with failed calls, restarts, an overlap | `TypeOK`, `RunsOnlyIfAdmitted`, `RemovedIsGone`, `AcceptedIsServed`, `UndoRestores` | 1556k |
| Buckets | three requests about two buckets (one also named with a folder) and a service, by two users and an administrator, one member without account, with a failed call or an overlap | `TypeOK`, `OthersUntouched`, `AccessAsAsked`, `DeleteForgets`, `ForeignBucketsKept`, `AcceptedServiceReady`, `DeletedServiceGone` | 1298k |
| Tenancy | three requests of or about one user, in three configurations, with a failed call, a restart or an overlap | `IInv`, `NamespaceReady`, `QuotaCheckAgrees`, `VolumesAreLimited`, `QuotasOutliveRequests`, `QuotaAsAsked`, `QueuesFollowServices` | 1366k |

Liveness is checked with KubeBackend only: what can wait or loop in a handler is in
ServiceStore, which Knative shares, and its own calls each return.

Runs that refute a statement of the repository (each is a finding):

| Run | Property | What the code does |
|---|---|---|
| KubeVolumes | `ApiVolumesKept` | A create whose volume's name is taken deletes the volume of that name when it rolls back, also one made through `/system/volumes`; no call fails and no request overlaps. Knative keeps it (`ForeignVolumesKept`). |
| BucketsService | `ServiceDeleteKeepsOthers` | The delete of an isolated service removes each allowed user's private bucket from the *owner's* policy; `RemoveResource` empties a policy with one resource whichever that is, so the owner loses an unrelated bucket. |
| TenancyKeys | `CredentialsWork` | `UserExists` looks for the Secret only; when OSCAR stops between the Secret and the MinIO account, or two first requests overlap, the Secret's key opens no account, for good. |

Several properties are conditional, because the code gives no more than that:
`NothingLeftBehind`, `DefinitionsAgree`, `AcceptedCreateIsThere`
and `ForeignVolumesKept` are promises to requests that do not overlap (the bound
`MaxInFlight = 1` of those runs). What `ForeignVolumesKept` says of a rollback has no other
condition; what it says of DeleteService holds while no call has failed, nothing has
stopped and no image was refused. `NoHalfService` and `OnePlaceOnly` hold until a
call fails or the process stops. `LiveServiceIsReadable`, `RollbackIsOwn`,
`ImplementsRegistry` and `AcceptedIsHeld` have no such condition, but the last is about
events that are JSON. `EveryRequestAnswered` excepts a request that waits for the image
puller's pods, as nothing says that they ever run. `DelegationFindsReplica` and
`LateIsDelegated` promise something to a definition with a usable replica: one it may send
to, whose cluster, where the mode looks at it, has room, and with a CPU that the code can
read; `LateIsDelegated` besides to services in the rescheduler's own namespace, and not in rounds
in which a malformed event is late, which end the process. In Exposure,
Buckets and Tenancy a promise about the end of a request is to a request that was
alone and met no error (`clean`), but after *any* history of others that overlapped,
failed or were lost; `NamespaceReady`, `VolumesAreLimited`, `QuotasOutliveRequests`
and `QuotaCheckAgrees` have no such condition. `NamespaceReady` is about the user's own
namespace. `tidy` says that the state a request met was in
order, where the code does not claim to repair it.

**Bounds.** Requests are one-shot, so `Reqs` bounds the number of requests; three
in flight are enough for a create, the delete that races it and a third request
that takes the name in between, and four in sequence for two services to be
created over one volume and for one to be updated and deleted (or to be deleted
and created again). On Knative it is three, as there one call may fail too and every kind of
definition is tried. `MaxFaults` and `MaxCrashes` let a failure happen in the
normal path and a second one in the undo path. Two replicas are enough for an
order, a next one and ties; `MaxTokens = 1` stands for the 500 tokens after which
the cache is cleared, so that it is cleared. `Levels` and `FreeCPU` hold the ends
of their ranges and a value beyond `mapToRange`'s (40000 millicores). Requests,
names and events are symmetric where no liveness is checked. In Exposure, Buckets and
Tenancy three requests are a history, the request that is looked at and one that
disturbs it; the disturbances (failures, restarts, overlaps) share one bound
(`MaxTrouble`, `MaxEvents`), so that each occurs in every place but not all at once.
Two users are an owner and another; the shared volume and two more are what the
defaults of Tenancy leave room for, so that the third is refused. No service of the
Tenancy run attaches a volume (size 0): that a claim outlives such a service is the
proofs' to cover, which are for every body.

**Fairness.** Weak fairness of each handler's step: Go runs a goroutine to its end,
and an API call is taken to return: the HTTP clients of the delegation have timeouts, and
the API server answers or drops the connection (OSCAR itself sets no deadline there). Weak
fairness of the rescheduler's loop, which never returns. None of `ImagePulled`: it waits for
pods that an image which cannot be pulled keeps from running for ever. Nothing is assumed of the
clusters: pods need not start, `UpdateResources` may never run, requests need not
arrive. Failed calls and changes of tokens are finitely many by their bounds;
`LateIsDelegated` says what happens when they come to an end. `AllServed` stutters
when every request has been served, so that deadlock can be checked.

**Mutants.** Each property of a passing run has a mutant, defined beside the action
it changes ("Mutant: ..."), that makes TLC find it violated.

## 4. Proofs

For any sets of names, volumes, requests and definitions, and any bounds:

* `KubeBackendProofs!Typing`: the type invariant and `CallOK`, that a handler reads
  at each label only what it set before.
* `Invariance`: `IInv`. `LiveServiceIsReadable` is not inductive: nothing in it says
  why a delete of a ConfigMap cannot hit the service of another request. The
  strengthening `Ownership` says who *holds* a name: a request between the two
  objects of a service, in either direction. A holder has a ConfigMap and no
  PodTemplate under its name, is alone, and if it is creating the ConfigMap is its
  own; a lonely ConfigMap without a holder is the trace of a failure or a crash.
* `Readable`, `OwnRollback`, `WholeServices`: its three consequences.
* `Refinement`: KubeBackend implements `ServiceRegistry`. All actions are first
  classified (`StepKinds`): quiet steps, which leave the identity of the objects and
  the holders alone, the crash, and the few that claim, publish, release, retire or
  strand. Both the invariant and the refinement are then proved once per kind.
* `DelegationProofs!CustodyInvariance`: `IInv` for any number of events and replicas
  and any definition, with a job that may be made or deleted although the call failed.
  `AcceptedIsHeld` alone is not inductive, as the rescheduler
  deletes jobs; `Custody` adds that it deletes only what a replica accepted
  (`DeleteIsSafe`), that its list and its target are jobs of this cluster, that an
  event is no job before its handler ends, and, without failures, that no replica
  has an event that is still to be delegated. Steps of DelegateJob are of five kinds
  (goes on, ends well, ends badly, a handler's panic, the process's restart);
  `Custody` is proved per kind and per part. The other part of `IInv`, `Smooth`, is about
  delegations while no request fails and no token changes: no cached or fetched token is stale, none is
  refused, and whoever goes through the replicas has every usable one still before it, with
  a priority with which it is sent to (`UsableLeft`; `mapToRange` never leaves 0..100, by
  `MapToRangeType`). What makes a replica usable is part of the definition of `Usable` and
  not of the failures: room in its cluster and a CPU that can be read, where the mode asks.
* `NothingLost` (of JSON events), `NothingTwice`, `FindsReplica` (of what may be sent, to
  usable replicas): its consequences.
* `TenancyProofs!Invariance`: `IInv` for any number of requests, any names, sizes and
  quota requests, and any number of failed calls, restarts and overlaps.
  `NamespaceReady` is not inductive, because a step keeps it only if the calls that a
  request has still to make come in the right order. `CallsInOrder` says of each
  remaining call that what it relies on is there already or is an earlier call of the
  same request; `CallsPermitted` says which requests may write over a quota or repair
  a namespace; `Backed` that a claim has its volume and that a queue a request has read
  is still there. The proof first says what a step does to the list of calls: it
  drops the first (`Advance`), puts others before the rest (`Moves`), skips a block
  (`Fails`) or reads the limits again (`ReadsAgain`); each keeps the order. Then
  there is one lemma per action.
* `NamespaceIsReady` (of services in the user's own namespace; nothing is ensured about one
  that a body names), `VolumesLimited`, `QuotasOutlive`: its consequences.

For requests that do not overlap (`MaxInFlight = 1`), and again for any sets and bounds:

* `KubeSequentialProofs!TakingTurns`: whatever call fails and wherever the process stops,
  a request goes through the labels of its own handler only (`AllAsked`), and once
  CreateService has made both objects they are its own (`AllMade`). `CreatedIsThere`
  follows: `AcceptedCreateIsThere` needs one request at a time and nothing else.
* `BooksInOrder`: until a call fails or the process stops, the *books* are in order.
  `NothingLeftBehind` says something about the end of requests only; `Books` says it of
  every moment: which claims and jobs there may be without their ConfigMap, and which
  request, at which label, is about to remove them (`Stages`, `Claims`, `Work`).
  `Agreement` says that ConfigMap and PodTemplate are of one definition, or that an update
  of the name is at a label between the two writes. `NothingLeft` and `SameDefinition`
  follow.
* `KnativeBackendProofs!Typing` has no condition. `ServicesInOrder` is the invariant of
  the Knative backend: besides the books, `Shapes` says for each label what there is of
  the ConfigMap, the Knative Service and the exposed objects of the request's name, and
  that every other service is whole; `Rightful` says whose the claim is that a request is
  going to delete (`Named` ties the claim's maker to the name). `WholeServices`,
  `SameDefinition` and `NothingLeft` follow.
* `KnativeBackendProofs!ForeignKept` assumes `MaxInFlight = 1` and nothing else. A rollback, after
  whatever failures, stops and refusals, deletes only the claim of its own create: by `OwnVentures`
  a create that got as far as its Knative Service, or undoes that, has its own claim or none.
  The part about DeleteService holds while all is `Calm` (`InHand`): what a failed call left
  behind a later delete may take for its own.

`BooksInOrder` and the theorems on Knative's services assume `Unrestricted`: no image is
refused, as without a list `allowed_image_repositories` in the additional configuration
(`src/pkg/types/config.go`), the default. Otherwise a create
that is refused makes the handler delete the service of that name (section 5), and the
books are not in order. What a handler does next is `Moves(r) == Step(r) \/ ImagePulled(r)`. The steps that both backends share are classified once, in
ServiceStoreProofs (`CommonStep`), by what they do to the books.

`ExposureProofs` has no such condition: any number of requests, in any interleaving, with
any number of failed calls, restarts and changes of the route kind.

* `Typing`. It needs more than the types: what a request has still to do is a sequence of
  calls that `expose.go` makes, *in order* (`InOrder`, from the relation `Precedes`: the
  service is stored first, the Deployment is written before the Workload is removed or
  checked, the Workload is made before it is checked, routes are looked for once). A
  plan is otherwise the *set* of its calls; the lemmas `CreatePlan`, `UpdatePlan`,
  `DeletePlan` compute that set for each operation, and `GoneOn` says how a call changes it.
* `RemovedGone`: `Removal` says that of a request that removes the service and is clean,
  each object that is there has still a call to come that removes it.
* `AcceptedServed`, `UndoneRestored`: `Service` says the same of what is to be made: each
  object is there, from this definition, or its call is to come (`Coming`), and the look
  for the routes has still to turn into such calls (`Prepared`).
* `RunsAdmitted`: `Admission` says, while requests do not overlap, that a Workload that is
  to be removed has no pods running or that the Deployment is written before it, and that
  the replicas are set only under a Workload that was seen admitted, with no other call on
  either in between. `Fidelity` says, until a call fails or a request is lost, that the
  Workload is that of the request in progress, or will be removed, and that none is
  without its Deployment when no request is in progress (else the next create would be
  admitted with another's Workload). Every step is first reduced to what it does to
  Deployment and Workload (`Effects`: ten kinds), then proved per kind.

`BucketsProofs!Typing` is for any number of requests, users and buckets, too. What a
request has still to do is data in Buckets, so the types are not inductive: a handler
that planned to write to the input bucket of a service without one would break them
several steps later. `Plans` says that each call of a plan has arguments of the types its
operation needs and fits the phase of its request, and that a policy is cut only just
after the request has read one. The plans are folds over lists (`ForEach`); what a fold
returns is proved by induction on the *set* of the numbers for which it holds
(`SetInduction`, from the library's `WFMin`), which needs no operator as a parameter.
A service request arrives in one step (`BeginKeeps`) and plans in the next
(`ServiceRequestsKeep`), as whom `isAdminUser` then says it is.

`BucketsProofs!ForeignKept` is an action property: a create that gives up, and that no
failed call and no other request disturbed, deletes only buckets it has made. The code
that deletes does not look at who made them; the order of the calls has to do it. The
invariant for that is `Kept`, on top of the types. It says of such a create (`clean`) that
every bucket a planned call removes is one it made (`OwnOnly`), and, until it gives up, that
every bucket its undoing would delete (`Own`) is made already or will be by one of the
blocks at the front of the plan, which are all `Firm` (`InHand`): of the calls they make, only
a `makeBucket` can be refused, and after that refusal nothing is undone (nor after a `publish`
whose name is taken). A call that may be refused for another reason is therefore reached only
with all of `Own` made (`FirmNext`). `CreateOrderly` shows that the plan of `createBuckets`
has this shape for every definition (a bucket that is only mounted, which may be refused,
comes last and is not in `Own`), `GoesOn` that a call that returns keeps it, `GivesUp` that an
error does; the arrival and the look at `isAdminUser` plan no removal (`BeginSpares`,
`IdentifySpares`). `Kept` was checked with TLC on the configuration of the Buckets run before it was
proved.

The assumptions are those of the modules: `Defs` are definitions, `None` is none of
the other values, there is at least one replica, the rescheduler is no event, `Texts` and
`Malformed` are events (`EventsAssumption`); in
Tenancy, the requests, bodies, limits, quota requests and sizes are of their types
(`StartAssumption`, `BodiesAssumption`, `LimitsAssumption`, `AsksAssumption`, `SizesAssumption`) and
`None` and `Bad` are no sizes (`NoneAssumption`); in Exposure, definitions and
configurations are of their types; in MinIO, the bucket of a bucket is itself
(`BucketOfAssumption`). TLC evaluates them in every run.

Only model-checked: liveness (`EveryRequestAnswered`, `EveryInvocationAnswered`,
`LateIsDelegated`), which is out of the prover's reach; the other action properties of
Buckets, which need what each call of a plan has left in policies and groups; of Tenancy,
`QuotaCheckAgrees` (a sum by recursion), `QuotaAsAsked` and `QueuesFollowServices`.

## 5. Limits

* A call that fails in ServiceStore, Exposure, Buckets and Tenancy has had no effect. An
  answer that is lost after the effect would, for `PodTemplates.Create`, leave a
  PodTemplate whose ConfigMap is rolled back. Delegation has both kinds, of requests to
  replicas and of the API calls for jobs.
* The delete of a claim is immediate; Kubernetes keeps a claim that a pod uses.
* ServiceStore and Exposure have one namespace and one owner. The validation of a
  definition before the first call is left out everywhere. Of the payload of an event there
  is what `eventBuild` distinguishes: an object, a malformed one, no JSON.
* In Buckets and Tenancy the calls of a create to Kubernetes, between its arrival and the
  moment the service is there, are one step each; ServiceStore has them all.
* `getClusterStatus` is one step for all replicas: it changes nothing that another
  actor sees.
* Names that the code derives (namespaces, queues, private buckets) are taken to be
  different for different users; truncation and sanitising could make two alike.

Behaviour met while modelling that no run is about.

Services and volumes:

* A create refused for its image makes the handler call DeleteService for that name,
  and so removes an existing service of the same name (`handlers/create.go:258`).
* "Restore the old configMap" sends the object with the resourceVersion it was read
  with and always conflicts (`backends/k8s.go:253`, `276`); the handler's second
  UpdateService, with the old definition, is what puts the service back.
* A service that is updated to be no longer exposed and then deleted leaves its
  exposed objects (`backends/k8s.go:335`).
* A Secret that a refused create left makes a later create answer 409 although it
  goes on and creates the service (`handlers/create.go:217`).
* On Knative two overlapping creates and deletes may make a rollback delete the
  ConfigMap of another request (`backends/knative.go:172`); `RollbackIsOwn` is
  KubeBackend's only.
* Attachments are counted in one call and the claim is deleted in the next; a service
  created in between loses its volume (`resources/volume.go:130`). For requests that do not
  overlap a property about it would only restate the count, so that there is none.
* CreateDaemonset is called within the request and waits at `daemonset.go:163` until every
  node has a running pod: with an image that cannot be pulled, for ever. Every prefetch adds
  the nodes to `workingNodes` (`196`), which nothing resets, so that a later one waits for more
  pods than there are, or for their repeated updates. A failure to watch ends the process with `log.Fatalf` (`151`, `160`, `170`).
* A path in `input` or `output` without a folder makes `createBuckets` panic
  (`create.go:437`, `486`) after the service was stored: the answer is 500, the service is there.
* The update of an exposed service on Knative always fails: it reads a Knative Service
  that exposed services do not have (`backends/knative.go:232`).

Delegation:

* The mode `topsis` always panics (`resourcemanager/delegate.go:424`); after a 401
  the new token is added as a second header, so that the request is refused again
  and only the next round succeeds (`delegate.go:533`).
* A definition that leaves `delegation` out never delegates to an OSCAR replica
  (`delegate.go:801`), where `docs/fdl.md` names `static` as the default.
* A replica whose cluster cannot be reached ends the invocation with a panic
  (`delegate.go:742`); the next replica is not tried.
* `docs/fdl.md:112` allows a CPU of "500m"; `strconv.ParseFloat` (`delegate.go:770`) does not
  read it, and a service with such a CPU is never delegated where the mode looks at clusters.
  `DelegationFindsReplica` and `LateIsDelegated` therefore ask for `numeric`.
* An event that is not a JSON object is posted to the replica as an empty body
  (`delegate.go:965`). One whose `storage_provider` is no string panics: as a late job it ends
  the process in every round of the rescheduler, after every restart.
* The rescheduler lists the pods of `cfg.ServicesNamespace` (`rescheduler.go:47`), and jobs are
  made in the namespace of their service (`job.go:375`): late jobs of users' namespaces are
  never delegated.
* The rescheduler works off a list of pods read once (`rescheduler.go:47`): a job that has run
  meanwhile may be delegated and its event run again. The properties say where an event is, not
  how often it ran.

Exposure:

* An update to `api_port` 0 leaves the exposed objects. An HTTPRoute's create meets
  its own leftovers after a failure, and without a gateway the Ingress is deleted
  before the error is noticed. `exists*` takes an API error for "not there".
* Admission is looked at once, just after the Workload was made (`kueue.go:387`);
  an update that is undone under Kueue may stay at zero replicas. Services of the
  default owner have no queue under Kueue and are never admitted. A Workload that a
  lost delete left behind admits the next create.

Buckets:

* The tag `service` is never `true`, so that the check for it in the update of a bucket
  does nothing (`update_bucket.go:84`). An update that gives no visibility makes the
  bucket public, where a create makes it private.
* RESTRICTED with no allowed users deletes the empty group twice and fails.
* The update of a service tries to set policies for its old buckets with an empty owner
  (`update.go:317`), which is refused, and leaves the old notifications.
* The create of a service that meets an existing second bucket leaves its first behind; a
  transient failure of `CreateBucket` on an existing bucket makes the rollback delete it.
* The delete of a service whose input bucket is gone answers 204 and leaves the output
  bucket (`delete.go:126`). An administrator's delete of a bucket leaves its grants.
* `isAdminUser` is set by an administrator's update and reset by creates only: the next
  user's update skips the check of the owner (`update.go:74`). It is read in several places
  of one request (`create.go:99`, `211`, `232`, `240`), between which another request may
  have set it: a user's service may be made as an administrator's.
* A bucket created with a folder in its name (`b/f`) is made and tagged as `b`, but policies
  are written for `b/f` (`create_bucket.go:99`, `124`): neither its owner nor those it was shared
  with can use the rest of the bucket.
* A listed user without a MinIO account makes the whole change of a group fail.
* Two changes of one policy at once lose one of them.

Users, quotas and queues:

* The middleware answers 500 and goes on when the Secret, the MinIO user or the queues
  fail: the request is still carried out (`oidc.go`).
* The middleware cannot make the limits of a new user, whose namespace is missing; only
  `/system/volumes` makes sure of them, so that the first service's managed volume is
  made with no quota.
* A body may carry `namespace`, which `types/service.go:295` calls internal: the service is
  created there (`create.go:208`), in a namespace that nobody ensured. The user's own delete
  does not find it, and its LocalQueue names a ClusterQueue that does not admit that namespace.
* A quota update writes Kueue's part before the volumes' part can fail, and the
  ResourceQuota before the LimitRange, with no undo; two at once lose one.
* The check of a volume does not look at the LimitRange: Kubernetes refuses such a volume
  and the answer is 500. The shared volume counts against the quota and may be
  refused by it.
* "Already exists" is an error for flavors and queues that two requests make at once.
  Errors of Kueue in a create are only logged, and a failed create leaves its LocalQueue.
* Two changes of YuniKorn's configuration at once lose one.

## 6. Not modelled

* *Synchronous invocation* (`handlers/run.go`) is a reverse proxy, *deployment status,
  logs and metrics* read what others made and format it, the *HTTP server* wires routes:
  no operation of theirs changes state, so that there is no step to interleave.
* *Listing and reading* of services, buckets, volumes and presigned links, for the same
  reason; `VerifyWorkload` of Kueue only looks.
* *The image puller's* state is in variables of the package that concurrent prefetches
  share and that are never reset (`daemonset.go:51`, `184`, `196`). What it could promise
  fails with the second prefetch or the first resync, so that there is no property of its
  own to keep. What a request meets of it is in ServiceStore: a DaemonSet that is refused, a
  wait that may not end, a process that ends. `EveryRequestAnswered` depends on it and
  excepts the wait.
* *Token validation* is a library's. *Parsing of configuration and definitions* has no
  state; the facts the control flow looks at are parameters of the modules.
* *The resource manager's* sums over nodes are a free choice in Delegation: the
  properties there hold whatever it sees.
