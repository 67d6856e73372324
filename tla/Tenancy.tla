-------------------------------- MODULE Tenancy --------------------------------
(***************************************************************************)
(* What OSCAR keeps for one user of a cluster with OIDC: credentials (a    *)
(* Secret and a MinIO user), the namespace with its role, binding and      *)
(* shared volume, the limits on volumes (ResourceQuota, LimitRange), the   *)
(* Kueue queues and the YuniKorn queues of the user's services.  All of it *)
(* is made on the way, by whatever request needs it first: "get, and       *)
(* create if it is not there", one API call a step, with other requests,   *)
(* failed calls and restarts in between.  The services themselves are      *)
(* modelled in ServiceStore, their pods in Exposure.                       *)
(***************************************************************************)
EXTENDS Naturals, Sequences, FiniteSets

CONSTANTS
    Names,        \* names of services and of volumes
    Volumes,      \* those that requests to /system/volumes name
    Sizes,        \* sizes of the volumes asked for
    Bodies,       \* bodies of POST /system/services
    Asks,         \* bodies of PUT /system/quotas/user/{userId}
    Starts,       \* configurations and states of the cluster at the start
    Defaults,     \* VOLUME_* settings: the limits a new user gets
    DefaultCPU,   \* KUEUE_DEFAULT_CPU
    DefaultMemory,\* KUEUE_DEFAULT_MEMORY
    BaseSize,     \* size of the shared volume
    None,         \* "not there", "not given"
    Bad,          \* a text that is no quantity
    MaxReqs,      \* bound: requests, numbered in order of arrival
    MaxFaults,    \* bound: calls that fail before they take effect
    MaxRestarts,  \* bound: restarts of OSCAR
    MaxEvents     \* bound: requests, failed calls, restarts and overlaps together

Reqs == 1..MaxReqs
ConfigType == [kueue : BOOLEAN, volume : BOOLEAN, yunikorn : BOOLEAN]
VolumeLimits == [disk : Nat, vols : Nat, max : Nat, min : Nat]

Quantity == Nat \cup {None, Bad}
QuotaUpdateRequest == [cpu : Quantity, memory : Quantity,
                       disk : Quantity, vols : Quantity, max : Quantity, min : Quantity]

\* A service goes to its user's own namespace, or to the one that the body names (which
\* is there).  It has no volume, or attaches one (size 0), or has one made, which may
\* outlive it (lifecycle_policy "retain").  Volumes of the other namespace are left out.
Places == {"own", "other"}
ServiceBody == [name : Names, place : Places, vol : Names \cup {None}, size : {0} \cup Sizes,
                retain : BOOLEAN]
Consistent(b) == /\ b.place = "other" => b.vol = None
                 /\ b.size > 0 => b.vol # None
                 /\ b.retain => b.size > 0

\* A service of the user: its volume, and whether that goes with it.
Service == [vol : Names \cup {None}, drops : BOOLEAN]

\* Is the shared volume's claim bound; has the user a namespace and a ClusterQueue that
\* were made by hand.
StartType == [cfg : ConfigType, base : {"pending", "bound"}, byHand : BOOLEAN]

ASSUME StartAssumption == Starts # {} /\ Starts \subseteq StartType
ASSUME LimitsAssumption ==
    Defaults \in VolumeLimits /\ DefaultCPU \in Nat /\ DefaultMemory \in Nat /\ BaseSize \in Nat
ASSUME BodiesAssumption == Bodies \subseteq {b \in ServiceBody : Consistent(b)}
ASSUME AsksAssumption == Asks \subseteq QuotaUpdateRequest
ASSUME SizesAssumption == Sizes \subseteq Nat \ {0} /\ Volumes \subseteq Names /\ MaxReqs \in Nat

\* What the ClusterQueue, the ResourceQuota and the LimitRange say.
QueueSpecs == [cpu : Nat, memory : Nat, selector : {"none", "owner"}]
QuotaSpecs == [disk : Nat, vols : Nat]
LimitSpecs == [max : Nat, min : Nat]

ASSUME NoneAssumption ==
    /\ None \notin Nat \cup Names \cup {"there", "plain", "owned", Bad}
    /\ None \notin QueueSpecs \cup QuotaSpecs \cup LimitSpecs \cup VolumeLimits
    /\ None \notin QuotaUpdateRequest \cup Service /\ Bad \notin Nat

VARIABLES
    cfg,      \* configuration of the process
    base,     \* phase of the shared volume's claim in the services namespace
    obj,      \* the user's objects, by kind
    lq,       \* LocalQueue of each service, in each place
    yk,       \* services that have a queue in YuniKorn's configuration
    svc,      \* services of the user, in each place
    claim,    \* size of each managed volume, 0 when there is none
    minio,    \* key of the user in MinIO
    cache,    \* entries of usersCache (two stand for more)
    req,      \* what each request asks for
    todo,     \* calls each request has still to make
    loc,      \* what each request has read
    ans,      \* status of the answer to each request in progress, that of the first write
    clean,    \* nothing failed and no other request was about
    overlaps, faults, restarts

vars == <<cfg, base, obj, lq, yk, svc, claim, minio, cache, req, todo, loc, ans, clean,
          overlaps, faults, restarts>>
store == <<base, obj, lq, yk, svc, claim, minio, cache>>

InFlight == {r \in Reqs : req[r].op \notin {"idle", "done"}}
Arrived == {r \in Reqs : req[r].op # "idle"}
Room(n) == Cardinality(Arrived) + faults + restarts + overlaps + n <= MaxEvents

-----------------------------------------------------------------------------
(* The objects. *)

Kinds == {"secret", "ns", "role", "binding", "pv", "pvc", "mirror", "otherMirror",
          "flavor", "cq", "quota", "limit"}

\* Objects that live in the user's namespace (and so does the LocalQueue of a service there).
Namespaced == {"role", "binding", "pvc", "mirror", "quota", "limit"}

\* Kinds whose creation takes "already exists" for success.  As nothing deletes them, the
\* Get and the Create of the first ones are one step.
OneStep == {"ns", "role", "binding", "pv"}
Tolerated == OneStep \cup {"pvc", "mirror", "otherMirror"}

getResourceDef(vl) == [disk |-> vl.disk, vols |-> vl.vols]
getLimitsDef(vl) == [max |-> vl.max, min |-> vl.min]

\* The ClusterQueue admits workloads of the namespaces with the owner's label.
ClusterQueueSpec == [cpu |-> DefaultCPU, memory |-> DefaultMemory, selector |-> "owner"]

\* getVolumeUsage: managed claims, and the others (the shared volume).
Managed == {n \in Names : claim[n] > 0}
ManagedUsage == [count |-> Cardinality(Managed),
                 storage |-> LET Sum[S \in SUBSET Managed] ==
                                 IF S = {} THEN 0
                                 ELSE LET n == CHOOSE n \in S : TRUE
                                      IN  claim[n] + Sum[S \ {n}]
                             IN  Sum[Managed]]
NonManagedUsage == IF obj.pvc = None THEN [count |-> 0, storage |-> 0]
                   ELSE [count |-> 1, storage |-> BaseSize]

\* Kubernetes refuses a LimitRange whose maximum is below its minimum, and a claim that
\* the ResourceQuota or the LimitRange does not allow.
ValidLimit(l) == l.min <= l.max
FitsQuota(size) ==
    obj.quota # None =>
        /\ ManagedUsage.storage + NonManagedUsage.storage + size <= obj.quota.disk
        /\ ManagedUsage.count + NonManagedUsage.count + 1 <= obj.quota.vols
FitsLimit(size) == obj.limit # None => obj.limit.min <= size /\ size <= obj.limit.max
Fits(size) == FitsQuota(size) /\ FitsLimit(size)

Monus(a, b) == IF a > b THEN a - b ELSE 0
getEffectiveStorageQuota(hard, usage) == Monus(hard.disk, usage.storage)

\* Mutant: the shared volume is not taken off the number of volumes.
getEffectivePVCQuota_Hard(hard, usage) == hard.vols

getEffectivePVCQuota(hard, usage) == Monus(hard.vols, usage.count)

-----------------------------------------------------------------------------
(* The calls of a request.  The block of a call says what an error does:   *)
(* "main" ends the request with an error; "user" (credentials at login)    *)
(* writes an error and goes on with the next call; "loginKueue" writes an  *)
(* error and leaves out the rest of the block; "createKueue" and           *)
(* "yunikorn" only leave out the rest; "log" only goes on; "again" leaves  *)
(* out the rest and tries another way.                                     *)

Call(o, k, b) == [op |-> o, kind |-> k, blk |-> b]
Ensure(k, b) == <<Call("get", k, b)>>

EnsureVolumeLimits == Ensure("quota", "log") \o Ensure("limit", "log")

\* Mutant: the LimitRange is not looked at.
GetVolumeQuotaInfo_NoLimit ==
    EnsureVolumeLimits \o <<Call("read", "quota", "main")>>

GetVolumeQuotaInfo ==
    EnsureVolumeLimits \o <<Call("read", "quota", "main"), Call("read", "limit", "main")>>

ensureClusterQueue(b) == Ensure("cq", b)
ensureLocalQueue(b) == Ensure("lq", b)

\* Mutant: the LocalQueue is left to the user.
EnsureKueueUserQueues_NoLocal ==
    Ensure("flavor", "createKueue") \o ensureClusterQueue("createKueue")

EnsureKueueUserQueues ==
    Ensure("flavor", "createKueue") \o ensureClusterQueue("createKueue")
        \o ensureLocalQueue("createKueue")

CreateKueueUserQueuesIfDontExist == <<Call("look", "cq", "loginKueue")>>

\* Mutant: only a new namespace gets its role, binding and volume.
EnsureUserNamespace_NewOnly ==
    IF obj.ns # None THEN Ensure("ns", "main")
    ELSE Ensure("ns", "main") \o Ensure("role", "main") \o Ensure("binding", "main")
             \o Ensure("pvc", "main")

EnsureUserNamespace ==
    Ensure("ns", "main") \o Ensure("role", "main") \o Ensure("binding", "main")
        \o Ensure("pvc", "main")

\* What a request with a bearer token does before its handler.
oidcMiddleware ==
    <<Call("userExists", "secret", "user")>>
        \o (IF cfg.kueue THEN CreateKueueUserQueuesIfDontExist ELSE <<>>)
        \o EnsureVolumeLimits

fetchQuota ==
    (IF cfg.kueue THEN <<Call("read", "cq", "main")>> ELSE <<>>)
        \o (IF cfg.volume THEN GetVolumeQuotaInfo \o <<Call("list", "pvc", "main")>> ELSE <<>>)

HasVolumeUpdate(a) == a.disk # None \/ a.vols # None \/ a.max # None \/ a.min # None

\* An update that cannot be done in this configuration fails after what comes before it.
updateQuota(a) ==
    (IF a.cpu = None /\ a.memory = None THEN <<>>
     ELSE IF cfg.kueue THEN <<Call("read", "cq", "main"), Call("putCQ", "cq", "main")>>
     ELSE <<Call("fail", "cq", "main")>>)
    \o (IF ~HasVolumeUpdate(a) THEN <<>>
        ELSE IF cfg.volume
             THEN <<Call("tryRead", "quota", "again"), Call("tryRead", "limit", "again"),
                    Call("merge", "pvc", "main")>>
             ELSE <<Call("fail", "quota", "main")>>)

UpdateVolumeLimits ==
    EnsureVolumeLimits \o <<Call("put", "quota", "main"), Call("put", "limit", "main")>>

YunikornUpdate ==
    IF cfg.yunikorn THEN <<Call("readY", "none", "yunikorn"), Call("putY", "none", "yunikorn")>>
    ELSE <<>>

\* In the user's namespace, and again in the service's: in the same one, that finds the
\* first copy.
EnsureSecretInNamespace(place) ==
    Ensure("mirror", "main") \o (IF place = "other" THEN Ensure("otherMirror", "main") ELSE <<>>)

Ops == {"idle", "done", "ownQuota", "share", "mkvol", "rmvol", "create", "delete",
        "setQuota"}

\* The calls of a request, the ones that errors and missing objects add left out.
Calls(q) ==
    CASE q.op = "ownQuota" -> oidcMiddleware \o fetchQuota
      [] q.op = "share" -> <<Call("userExists", "secret", "log")>>
      [] q.op = "mkvol" -> oidcMiddleware \o EnsureUserNamespace \o GetVolumeQuotaInfo
                               \o <<Call("check", "pvc", "main"), Call("claim", "pvc", "main"),
                                    Call("getClaim", "pvc", "main")>>
      [] q.op = "rmvol" -> oidcMiddleware \o EnsureUserNamespace
                               \o <<Call("dropClaim", "pvc", "main")>>
      [] q.op = "create" -> oidcMiddleware \o EnsureUserNamespace
                               \o EnsureSecretInNamespace(q.place)
                               \o (IF cfg.kueue THEN EnsureKueueUserQueues ELSE <<>>)
                               \o <<Call("publish", "none", "main")>> \o YunikornUpdate
      [] q.op = "delete" -> oidcMiddleware \o <<Call("retire", "none", "main")>>
                               \o YunikornUpdate
                               \o (IF cfg.kueue THEN <<Call("dropLQ", "lq", "log")>> ELSE <<>>)
      [] OTHER -> updateQuota(q.ask) \o fetchQuota

-----------------------------------------------------------------------------
Idle == [op |-> "idle", name |-> None, place |-> "own", vol |-> None, size |-> 0,
         retain |-> FALSE, ask |-> None]
Nothing == [quota |-> None, limit |-> None, cq |-> None, merged |-> None, yk |-> {}]

\* A cluster in which OSCAR has not yet seen the user.
Init ==
    /\ \E s \in Starts :
          /\ cfg = s.cfg /\ base = s.base
          /\ obj = [k \in Kinds |->
                       CASE s.byHand /\ k = "ns" -> "plain"
                         [] s.byHand /\ k = "cq" ->
                                [ClusterQueueSpec EXCEPT !.cpu = DefaultCPU + 1, !.selector = "none"]
                         [] OTHER -> None]
    /\ lq = [p \in Places |-> [n \in Names |-> None]]
    /\ svc = [p \in Places |-> [n \in Names |-> None]]
    /\ yk = {}
    /\ claim = [n \in Names |-> 0]
    /\ minio = None /\ cache = 0
    /\ req = [r \in Reqs |-> Idle]
    /\ todo = [r \in Reqs |-> <<>>]
    /\ loc = [r \in Reqs |-> Nothing]
    /\ ans = [r \in Reqs |-> "ok"]
    /\ clean = [r \in Reqs |-> TRUE]
    /\ overlaps = 0 /\ faults = 0 /\ restarts = 0

\* Request r is the next one and may arrive now.
MayArrive(r) ==
    /\ req[r].op = "idle" /\ \A s \in 1..(r - 1) : req[s].op # "idle"
    /\ Room(IF InFlight = {} THEN 1 ELSE 2)

Arrive(r, q) ==
    /\ overlaps' = IF InFlight = {} THEN overlaps ELSE overlaps + 1
    /\ req' = [req EXCEPT ![r] = q]
    /\ todo' = [todo EXCEPT ![r] = Calls(q)]
    /\ clean' = [s \in Reqs |-> IF InFlight = {} THEN clean[s]
                                ELSE IF s \in InFlight \cup {r} THEN FALSE ELSE clean[s]]
    /\ UNCHANGED <<cfg, store, loc, ans, faults, restarts>>

Request(o) == [Idle EXCEPT !.op = o]

GetOwnQuota(r) ==
    (cfg.kueue \/ cfg.volume) /\ Arrive(r, Request("ownQuota"))

\* Another user creates an isolated service that names this user in allowed_users.
ShareWithUser(r) == Arrive(r, Request("share"))
CreateVolume(r) ==
    \E n \in Volumes, s \in Sizes : Arrive(r, [Request("mkvol") EXCEPT !.vol = n, !.size = s])
DeleteVolume(r) == \E n \in Volumes : Arrive(r, [Request("rmvol") EXCEPT !.vol = n])

\* The namespace of the body is taken when there is one.
CreateService(r) ==
    \E b \in Bodies :
        Arrive(r, [op |-> "create", name |-> b.name, place |-> b.place, vol |-> b.vol,
                   size |-> b.size, retain |-> b.retain, ask |-> None])

\* A service is looked for in the user's own namespace only.
DeleteService(r) == \E n \in Names : Arrive(r, [Request("delete") EXCEPT !.name = n])
UpdateUserQuota(r) ==
    /\ cfg.kueue \/ cfg.volume
    /\ \E a \in Asks : Arrive(r, [Request("setQuota") EXCEPT !.ask = a])

-----------------------------------------------------------------------------
(* Steps. *)

Head1(r) == todo[r][1]
At(r, o) == todo[r] # <<>> /\ todo[r][1].op = o
K(r) == todo[r][1].kind
Val(r, k) == IF k = "lq" THEN lq[req[r].place][req[r].name] ELSE obj[k]
Put(r, k, v) ==
    IF k = "lq" THEN lq' = [lq EXCEPT ![req[r].place][req[r].name] = v] /\ UNCHANGED obj
    ELSE obj' = [obj EXCEPT ![k] = v] /\ UNCHANGED lq

\* On to the calls in s, then to what is left.
GoOn(r, s) == todo' = [todo EXCEPT ![r] = s \o Tail(@)] /\ UNCHANGED ans

\* What is left of s after the calls of block b with which it begins.
AfterBlock(s, b) ==
    LET out == {i \in 1..Len(s) : s[i].blk # b}
    IN  SubSeq(s, IF out = {} THEN Len(s) + 1 ELSE CHOOSE i \in out : \A j \in out : i <= j, Len(s))

\* The call returns an error.
Fail(r) ==
    LET b == Head1(r).blk
    IN  /\ todo' = [todo EXCEPT ![r] =
                       CASE b = "main" -> <<>>
                         [] b \in {"user", "log"} -> Tail(@)
                         [] OTHER -> AfterBlock(@, b)]
        /\ IF b \in {"main", "user", "loginKueue"} 
           THEN ans' = [ans EXCEPT ![r] = "error"] ELSE UNCHANGED ans

Quietly == UNCHANGED <<clean, faults>>
Fault(r) == /\ faults < MaxFaults /\ Room(1)
            /\ faults' = faults + 1
            /\ clean' = [clean EXCEPT ![r] = FALSE]
Fixed == UNCHANGED <<cfg, req, overlaps, restarts>>
NoEffect == UNCHANGED <<store, loc>>

\* Any call may fail before it takes effect; these handle the error like the others do.
\* New limits are merged with no call unless they need the usage.
CallFails(r) ==
    /\ todo[r] # <<>>
    /\ ~ At(r, "fail")
    /\ At(r, "merge") => req[r].ask.disk # None \/ req[r].ask.vols # None
    /\ At(r, "get") => K(r) \notin {"quota", "limit"}
    /\ ~ At(r, "userExists") /\ ~ At(r, "look") /\ ~ At(r, "tryRead")
    /\ Fault(r) /\ Fail(r) /\ NoEffect /\ Fixed

Cached == cache' = IF cache < 2 THEN cache + 1 ELSE cache

\* A user in a cache of two or more entries is not looked up; an error is "not there".
UserExists(r) ==
    /\ At(r, "userExists")
    /\ LET make == IF req[r].op = "share"
                   THEN <<Call("addUser", "none", "log"), Call("create", "secret", "log")>>
                   ELSE <<Call("create", "secret", "user"), Call("addUser", "none", "user")>>
       IN  \/ /\ cache = 2 \/ obj.secret # None
              /\ GoOn(r, <<>>) /\ Quietly
              /\ IF cache = 2 THEN UNCHANGED cache ELSE Cached
           \/ cache < 2 /\ obj.secret = None /\ GoOn(r, make) /\ Quietly /\ UNCHANGED cache
           \/ cache < 2 /\ Fault(r) /\ GoOn(r, make) /\ UNCHANGED cache
    /\ UNCHANGED <<base, obj, lq, yk, svc, claim, minio, loc>> /\ Fixed

\* AddUser sets the key of a user that is already there.
CreateMinIOUser(r) ==
    /\ At(r, "addUser")
    /\ minio' = r
    /\ GoOn(r, <<>>) /\ Quietly
    /\ UNCHANGED <<base, obj, lq, yk, svc, claim, cache, loc>> /\ Fixed

\* What follows when an object is there but not as it should be, and when it is not there.
Stale(r, k) == \/ k = "ns" /\ obj.ns = "plain"
               \/ k = "cq" /\ obj.cq.selector # "owner"
ensureSharedRuntimePVC ==
    <<Call("readBase", "pvc", "main"), Call("readBase", "pv", "main")>>
        \o Ensure("pv", "main") \o <<Call("create", "pvc", "main")>>
Missing(k, b) ==
    CASE k = "pvc" -> ensureSharedRuntimePVC
      [] k \in {"mirror", "otherMirror"} ->
             <<Call("read", "secret", "main"), Call("create", k, "main")>>
      [] OTHER -> <<Call("create", k, b)>>

Get(r) ==
    /\ At(r, "get")
    /\ LET k == K(r)
           b == Head1(r).blk
       IN  \/ Val(r, k) # None /\ ~Stale(r, k) /\ GoOn(r, <<>>) /\ Quietly
           \/ Val(r, k) # None /\ Stale(r, k) /\ GoOn(r, <<Call("fix", k, b)>>) /\ Quietly
           \/ Val(r, k) = None /\ k \notin OneStep /\ GoOn(r, Missing(k, b)) /\ Quietly
           \/ k \in {"quota", "limit"} /\ Fault(r) /\ GoOn(r, Missing(k, b))
    /\ loc' = IF K(r) = "cq" THEN [loc EXCEPT ![r].cq = obj.cq] ELSE loc
    /\ UNCHANGED store /\ Fixed

\* CreateKueueUserQueuesIfDontExist: any error of the Get leads to the creation.
LookForQueue(r) ==
    /\ At(r, "look")
    /\ LET make == Ensure("flavor", "loginKueue") \o ensureClusterQueue("loginKueue")
       IN  \/ obj.cq # None /\ GoOn(r, <<>>) /\ Quietly
           \/ obj.cq = None /\ GoOn(r, make) /\ Quietly
           \/ Fault(r) /\ GoOn(r, make)
    /\ NoEffect /\ Fixed

New(r, k) ==
    CASE k = "secret" -> r
      [] k = "ns" -> "owned"
      [] k \in {"mirror", "otherMirror"} -> obj.secret
      [] k = "cq" -> ClusterQueueSpec
      [] k = "quota" -> getResourceDef(Defaults)
      [] k = "limit" -> getLimitsDef(Defaults)
      [] OTHER -> "there"

ToCreate(r) == \/ At(r, "create")
               \/ At(r, "get") /\ K(r) \in OneStep /\ obj[K(r)] = None

\* Kubernetes refuses what goes to a namespace that is not there, a claim that does not
\* fit and a LimitRange that is not valid.
Refused(r, k) ==
    \/ /\ k \in Namespaced \/ (k = "lq" /\ req[r].place = "own")
       /\ obj.ns = None
    \/ k = "pvc" /\ obj.pvc = None /\ ~Fits(BaseSize)
    \/ k = "limit" /\ ~ValidLimit(getLimitsDef(Defaults))

\* Mutant: creating what exists sets it to the defaults.
CreateObject_Upsert(r) ==
    /\ ToCreate(r)
    /\ LET k == K(r)
       IN  IF Refused(r, k)
           THEN Fail(r) /\ UNCHANGED <<obj, lq, cache>>
           ELSE GoOn(r, <<>>) /\ Put(r, k, New(r, k))
                /\ IF k = "secret" THEN Cached ELSE UNCHANGED cache
    /\ Quietly /\ UNCHANGED <<base, yk, svc, claim, minio, loc>> /\ Fixed

\* Create: refused by Kubernetes, also, unless that is tolerated, for an object that is
\* there.
CreateObject(r) ==
    /\ ToCreate(r)
    /\ LET k == K(r)
       IN  IF Refused(r, k) \/ (Val(r, k) # None /\ k \notin Tolerated)
           THEN Fail(r) /\ UNCHANGED <<obj, lq, cache>>
           ELSE /\ GoOn(r, <<>>)
                /\ IF Val(r, k) # None THEN UNCHANGED <<obj, lq, cache>>
                   ELSE /\ Put(r, k, New(r, k))
                        /\ IF k = "secret" THEN Cached ELSE UNCHANGED cache
    /\ Quietly /\ UNCHANGED <<base, yk, svc, claim, minio, loc>> /\ Fixed

\* Update of what was read: refused when it has changed since.
FixObject(r) ==
    /\ At(r, "fix")
    /\ IF K(r) = "ns"
       THEN IF obj.ns = "plain" THEN GoOn(r, <<>>) /\ obj' = [obj EXCEPT !.ns = "owned"]
            ELSE Fail(r) /\ UNCHANGED obj
       ELSE IF obj.cq = loc[r].cq THEN GoOn(r, <<>>) /\ obj' = [obj EXCEPT !.cq = ClusterQueueSpec]
            ELSE Fail(r) /\ UNCHANGED obj
    /\ Quietly /\ UNCHANGED <<base, lq, yk, svc, claim, minio, cache, loc>> /\ Fixed

\* The base claim must be bound; then its volume is there.
ReadBasePVC(r) ==
    /\ At(r, "readBase")
    /\ IF K(r) = "pv" \/ base = "bound" THEN GoOn(r, <<>>) ELSE Fail(r)
    /\ Quietly /\ NoEffect /\ Fixed

\* Get of an object that must be there.
Read(r) ==
    /\ At(r, "read")
    /\ IF obj[K(r)] = None THEN Fail(r) /\ UNCHANGED loc
       ELSE /\ GoOn(r, <<>>)
            /\ loc' = IF K(r) \in {"quota", "limit", "cq"}
                      THEN [loc EXCEPT ![r][K(r)] = obj[K(r)]] ELSE loc
    /\ Quietly /\ UNCHANGED store /\ Fixed

\* updateVolumeQuota cannot read the limits: it makes them, and reads them again.
ReadAgain(r) ==
    /\ todo' = [todo EXCEPT ![r] = EnsureVolumeLimits
                   \o <<Call("read", "quota", "main"), Call("read", "limit", "main")>>
                   \o AfterBlock(@, "again")]
    /\ UNCHANGED <<ans, loc>>

\* GetVolumeLimitInfo in updateVolumeQuota.
ReadLimits(r) ==
    /\ At(r, "tryRead")
    /\ \/ /\ obj[K(r)] # None /\ GoOn(r, <<>>) /\ Quietly
          /\ loc' = [loc EXCEPT ![r][K(r)] = obj[K(r)]]
       \/ obj[K(r)] = None /\ ReadAgain(r) /\ Quietly
       \/ Fault(r) /\ ReadAgain(r)
    /\ UNCHANGED store /\ Fixed

Given(new, old) == IF new = None THEN old ELSE new

\* Mutant: the limits asked for are taken for all claims, the shared volume included.
MergedLimits_Visible(a, q, l) ==
    [disk |-> Given(a.disk, q.disk), vols |-> Given(a.vols, q.vols),
     max |-> Given(a.max, l.max), min |-> Given(a.min, l.min)]

\* What is asked for is for managed volumes: the others come on top.
MergedLimits(a, q, l) ==
    [disk |-> IF a.disk = None THEN q.disk ELSE a.disk + NonManagedUsage.storage,
     vols |-> IF a.vols = None THEN q.vols ELSE a.vols + NonManagedUsage.count,
     max |-> Given(a.max, l.max), min |-> Given(a.min, l.min)]

\* Mutant: the limits on one volume are taken as they come.
Invalid_TotalsOnly(a) == Bad \in {a.disk, a.vols}

Invalid(a) == Bad \in {a.disk, a.vols, a.max, a.min}

\* updateVolumeQuota from the list of claims on: nothing is written if a quantity is bad.
MergeLimits(r) ==
    /\ At(r, "merge")
    /\ LET a == req[r].ask
       IN  IF Invalid(a) THEN Fail(r) /\ UNCHANGED loc
           ELSE /\ loc' = [loc EXCEPT ![r].merged = MergedLimits(a, loc[r].quota, loc[r].limit)]
                /\ GoOn(r, UpdateVolumeLimits)
    /\ Quietly /\ UNCHANGED store /\ Fixed

\* An Update with no resource version; an object that is not there is passed over.  The
\* ResourceQuota is written before the LimitRange is refused.
PutLimits(r) ==
    /\ At(r, "put")
    /\ LET new == IF K(r) = "quota" THEN getResourceDef(loc[r].merged)
                  ELSE getLimitsDef(loc[r].merged)
       IN  IF K(r) = "limit" /\ obj.limit # None /\ ~ValidLimit(new) THEN Fail(r) /\ UNCHANGED obj
           ELSE /\ GoOn(r, <<>>)
                /\ obj' = IF obj[K(r)] = None THEN obj ELSE [obj EXCEPT ![K(r)] = new]
    /\ Quietly /\ UNCHANGED <<base, lq, yk, svc, claim, minio, cache, loc>> /\ Fixed

WithQuotas(spec, a) ==
    [spec EXCEPT !.cpu = Given(a.cpu, spec.cpu), !.memory = Given(a.memory, spec.memory)]

\* updateKueueQuota: the ClusterQueue as it was read, with the new quota.
PutClusterQueue(r) ==
    /\ At(r, "putCQ")
    /\ LET a == req[r].ask
       IN  IF Bad \in {a.cpu, a.memory} \/ obj.cq # loc[r].cq THEN Fail(r) /\ UNCHANGED obj
           ELSE /\ GoOn(r, <<>>)
                /\ obj' = [obj EXCEPT !.cq = WithQuotas(@, a)]
    /\ Quietly /\ UNCHANGED <<base, lq, yk, svc, claim, minio, cache, loc>> /\ Fixed

\* The list of claims with which GetVolumeQuotaInfo ends.
ListClaims(r) == At(r, "list") /\ GoOn(r, <<>>) /\ Quietly /\ NoEffect /\ Fixed

\* ValidateManagedVolumeQuota, from the list of claims on.
ValidateManagedVolumeQuota(r) ==
    /\ At(r, "check")
    /\ LET disk == Monus(getEffectiveStorageQuota(loc[r].quota, NonManagedUsage),
                         ManagedUsage.storage)
           vols == Monus(getEffectivePVCQuota(loc[r].quota, NonManagedUsage), ManagedUsage.count)
       IN  IF req[r].size > disk \/ vols < 1 THEN Fail(r) ELSE GoOn(r, <<>>)
    /\ Quietly /\ NoEffect /\ Fixed

\* CreateManagedVolume.
CreateClaim(r) ==
    /\ At(r, "claim")
    /\ LET n == req[r].vol
       IN  IF claim[n] > 0 \/ ~Fits(req[r].size) THEN Fail(r) /\ UNCHANGED claim
           ELSE GoOn(r, <<>>) /\ claim' = [claim EXCEPT ![n] = req[r].size]
    /\ Quietly /\ UNCHANGED <<base, obj, lq, yk, svc, minio, cache, loc>> /\ Fixed

GetManagedVolume(r) ==
    /\ At(r, "getClaim")
    /\ IF claim[req[r].vol] = 0 THEN Fail(r) ELSE GoOn(r, <<>>)
    /\ Quietly /\ NoEffect /\ Fixed

\* ListVolumeAttachments: the services whose volume it is, whatever their names.
Attached(v) == \E n \in Names : svc.own[n] # None /\ svc.own[n].vol = v

\* DeleteManagedVolume: refused while a service has it.
DropClaim(r) ==
    /\ At(r, "dropClaim")
    /\ LET n == req[r].vol
       IN  IF Attached(n) THEN Fail(r) /\ UNCHANGED claim
           ELSE GoOn(r, <<>>) /\ claim' = [claim EXCEPT ![n] = 0]
    /\ Quietly /\ UNCHANGED <<base, obj, lq, yk, svc, minio, cache, loc>> /\ Fixed

\* The backend's CreateService, in one step: no check of the quota but Kubernetes' own.
\* When its volume cannot be made the service is taken back, and the Kubernetes backend
\* (Knative does not) takes the volume of that name back too, whosever it is.
PublishService(r) ==
    /\ At(r, "publish")
    /\ LET q == req[r]
           makes == q.size > 0
           refused == IF makes THEN claim[q.vol] > 0 \/ ~Fits(q.size)
                      ELSE q.vol # None /\ claim[q.vol] = 0
       IN  \/ /\ svc[q.place][q.name] # None
              /\ Fail(r) /\ UNCHANGED <<svc, claim>>
           \/ /\ svc[q.place][q.name] = None /\ refused
              /\ Fail(r) /\ UNCHANGED svc
              /\ \/ UNCHANGED claim
                 \/ makes /\ ~q.retain /\ claim' = [claim EXCEPT ![q.vol] = 0]
           \/ /\ svc[q.place][q.name] = None /\ ~refused
              /\ GoOn(r, <<>>)
              /\ svc' = [svc EXCEPT ![q.place][q.name] =
                                       [vol |-> q.vol, drops |-> makes /\ ~q.retain]]
              /\ claim' = IF makes THEN [claim EXCEPT ![q.vol] = q.size] ELSE claim
    /\ Quietly /\ UNCHANGED <<base, obj, lq, yk, minio, cache, loc>> /\ Fixed

\* ReadService and the backend's DeleteService: a volume that the service attached, or
\* that is to be retained, stays.
RetireService(r) ==
    /\ At(r, "retire")
    /\ LET n == req[r].name
           old == svc.own[n]
       IN  IF old = None THEN Fail(r) /\ UNCHANGED <<svc, claim>>
           ELSE /\ GoOn(r, <<>>)
                /\ svc' = [svc EXCEPT !.own[n] = None]
                /\ claim' = IF old.drops THEN [claim EXCEPT ![old.vol] = 0] ELSE claim
    /\ Quietly /\ UNCHANGED <<base, obj, lq, yk, minio, cache, loc>> /\ Fixed

readYunikornConfig(r) ==
    /\ At(r, "readY")
    /\ GoOn(r, <<>>)
    /\ loc' = [loc EXCEPT ![r].yk = yk]
    /\ Quietly /\ UNCHANGED store /\ Fixed

\* The queues after AddYunikornQueue and DeleteYunikornQueue.
QueuesOf(q, queues) == IF q.op = "create" THEN queues \cup {q.name} ELSE queues \ {q.name}

\* The configuration is written over what it is now.
updateYunikornConfig(r) ==
    /\ At(r, "putY")
    /\ GoOn(r, <<>>)
    /\ yk' = QueuesOf(req[r], loc[r].yk)
    /\ Quietly /\ UNCHANGED <<base, obj, lq, svc, claim, minio, cache, loc>> /\ Fixed

DeleteKueueLocalQueue(r) ==
    /\ At(r, "dropLQ")
    /\ GoOn(r, <<>>)
    /\ lq' = [lq EXCEPT !.own[req[r].name] = None]
    /\ Quietly /\ UNCHANGED <<base, obj, yk, svc, claim, minio, cache, loc>> /\ Fixed

\* ensureKueueQuotasEnabled, or the volume quotas are not enabled.
NotEnabled(r) == At(r, "fail") /\ Fail(r) /\ Quietly /\ NoEffect /\ Fixed

\* The answer is sent.
Return(r) ==
    /\ r \in InFlight /\ todo[r] = <<>>
    /\ req' = [req EXCEPT ![r] = [Idle EXCEPT !.op = "done"]]
    /\ loc' = [loc EXCEPT ![r] = Nothing]
    /\ ans' = [ans EXCEPT ![r] = "ok"]
    /\ clean' = [clean EXCEPT ![r] = TRUE]
    /\ UNCHANGED <<cfg, store, todo, overlaps, faults, restarts>>

-----------------------------------------------------------------------------
(* The environment. *)

\* The cluster binds the shared volume.
BindBase ==
    /\ base = "pending"
    /\ base' = "bound"
    /\ UNCHANGED <<cfg, obj, lq, yk, svc, claim, minio, cache, req, todo, loc, ans, clean,
                   overlaps, faults, restarts>>

\* OSCAR restarts: requests in progress end where they are, the cache is lost.
Restart ==
    /\ InFlight # {}
    /\ restarts < MaxRestarts /\ Room(1)
    /\ restarts' = restarts + 1
    /\ cache' = 0
    /\ req' = [r \in Reqs |-> IF r \in InFlight THEN [Idle EXCEPT !.op = "done"] ELSE req[r]]
    /\ todo' = [r \in Reqs |-> <<>>]
    /\ loc' = [r \in Reqs |-> Nothing]
    /\ ans' = [r \in Reqs |-> "ok"]
    /\ clean' = [r \in Reqs |-> TRUE]
    /\ UNCHANGED <<cfg, base, obj, lq, yk, svc, claim, minio, overlaps, faults>>

Start(r) ==
    /\ MayArrive(r)
    /\ \/ GetOwnQuota(r) \/ ShareWithUser(r) \/ CreateVolume(r) \/ DeleteVolume(r)
       \/ CreateService(r) \/ DeleteService(r) \/ UpdateUserQuota(r)

Step(r) ==
    /\ todo[r] # <<>>
    /\ \/ CallFails(r) \/ UserExists(r) \/ CreateMinIOUser(r) \/ Get(r) \/ LookForQueue(r)
       \/ CreateObject(r) \/ FixObject(r) \/ ReadBasePVC(r) \/ Read(r) \/ ReadLimits(r)
       \/ MergeLimits(r) \/ PutLimits(r) \/ PutClusterQueue(r) \/ ListClaims(r)
       \/ ValidateManagedVolumeQuota(r) \/ CreateClaim(r) \/ GetManagedVolume(r) \/ DropClaim(r)
       \/ PublishService(r) \/ RetireService(r) \/ readYunikornConfig(r) \/ updateYunikornConfig(r)
       \/ DeleteKueueLocalQueue(r) \/ NotEnabled(r)

\* Nothing in progress.
AllServed == InFlight = {} /\ UNCHANGED vars

Next == (\E r \in Reqs : Start(r) \/ Step(r) \/ Return(r)) \/ BindBase \/ Restart \/ AllServed

Spec == Init /\ [][Next]_vars

-----------------------------------------------------------------------------
(* Properties. *)

CallOps == {"userExists", "addUser", "look", "get", "create", "fix", "readBase", "read", "tryRead",
            "merge", "put", "putCQ", "list", "check", "claim", "getClaim", "dropClaim", "publish",
            "retire", "readY", "putY", "dropLQ", "fail"}
CallType == [op : CallOps, kind : Kinds \cup {"lq", "none"},
             blk : {"main", "user", "loginKueue", "createKueue", "yunikorn", "log", "again"}]
RequestType == [op : Ops, name : Names \cup {None}, place : Places, vol : Names \cup {None},
                size : {0} \cup Sizes, retain : BOOLEAN, ask : QuotaUpdateRequest \cup {None}]
Readings == [quota : QuotaSpecs \cup {None}, limit : LimitSpecs \cup {None},
             cq : QueueSpecs \cup {None}, merged : VolumeLimits \cup {None},
             yk : SUBSET Names]

\* What an object may say; the Secret and its copies name the request that made the key.
Values(k) ==
    {None} \cup CASE k \in {"secret", "mirror", "otherMirror"} -> Reqs
                  [] k = "ns" -> {"plain", "owned"}
                  [] k = "cq" -> QueueSpecs
                  [] k = "quota" -> QuotaSpecs
                  [] k = "limit" -> LimitSpecs
                  [] OTHER -> {"there"}

\* Every variable holds what the code could have put there.
TypeOK ==
    /\ cfg \in ConfigType /\ base \in {"pending", "bound"}
    /\ obj = [k \in Kinds |-> obj[k]] /\ \A k \in Kinds : obj[k] \in Values(k)
    /\ lq \in [Places -> [Names -> {None, "there"}]]
    /\ svc \in [Places -> [Names -> Service \cup {None}]]
    /\ yk \subseteq Names
    /\ claim \in [Names -> {0} \cup Sizes]
    /\ minio \in Reqs \cup {None} /\ cache \in 0..2
    /\ req \in [Reqs -> RequestType]
    /\ todo \in [Reqs -> Seq(CallType)]
    /\ loc \in [Reqs -> Readings]
    /\ ans \in [Reqs -> {"ok", "error"}] /\ clean \in [Reqs -> BOOLEAN]
    /\ overlaps \in Nat /\ faults \in Nat /\ restarts \in Nat

\* The user's own namespace, once it has a service or a volume, has the controller's role
\* and binding, the shared volume and the owner's label, whatever failed when it was made
\* (EnsureUserNamespace).  Nothing is said of the services that the user put into another
\* namespace by naming it in the request.
NamespaceReady ==
    (\E n \in Names : svc.own[n] # None) \/ Managed # {} =>
        obj.ns = "owned" /\ \A k \in {"role", "binding", "pv", "pvc"} : obj[k] # None

\* What a call relies on: objects that are there, or what the request has read.
Relies(c) ==
    CASE c.op = "publish" -> {"ns", "role", "binding", "pvc"}
      [] c.op = "claim" -> {"ns", "role", "binding", "pvc", "quota", "limit"}
      [] c.op = "create" /\ c.kind = "pvc" -> {"pv"}
      [] c.op = "putCQ" -> {"queueRead"}
      [] c.op = "merge" -> {"quotaRead", "limitRead"}
      [] c.op = "put" -> {"merged"}
      [] OTHER -> {}

\* What is known after a call, when an error ends the request or tries another way.
Provides(c) ==
    IF c.blk = "again" THEN {IF c.kind = "quota" THEN "quotaRead" ELSE "limitRead"}
    ELSE IF c.blk # "main" THEN {}
    ELSE CASE c.op = "get" /\ c.kind \in {"ns", "role", "binding", "pvc", "pv"} -> {c.kind}
           [] c.op = "fix" /\ c.kind = "ns" -> {"ns"}
           [] c.op = "create" /\ c.kind = "pvc" -> {"pvc"}
           [] c.op = "read" /\ c.kind = "quota" -> {"quota", "quotaRead"}
           [] c.op = "read" /\ c.kind = "limit" -> {"limit", "limitRead"}
           [] c.op = "read" /\ c.kind = "cq" -> {"queueRead"}
           [] c.op = "merge" -> {"merged"}
           [] OTHER -> {}

\* What request r may rely on now.
Known(r) ==
    (IF obj.ns = "owned" THEN {"ns"} ELSE {})
        \cup {k \in {"role", "binding", "pvc", "pv", "quota", "limit"} : obj[k] # None}
        \cup (IF loc[r].quota # None THEN {"quotaRead"} ELSE {})
        \cup (IF loc[r].limit # None THEN {"limitRead"} ELSE {})
        \cup (IF loc[r].cq # None THEN {"queueRead"} ELSE {})
        \cup (IF loc[r].merged # None THEN {"merged"} ELSE {})

\* When what is in known is known, each call of s comes after what it relies on.
InOrder(s, known) ==
    \A i \in 1..Len(s) : \A f \in Relies(s[i]) :
        f \in known \/ \E j \in 1..(i - 1) : f \in Provides(s[j])

CallsInOrder == \A r \in Reqs : InOrder(todo[r], Known(r))

\* The calls that write over quotas are those of a quota update, about what it asks for;
\* those that add a service or its queue have its name; a repair comes at once, of the
\* ClusterQueue only when the one that was read needs it.
Permitted(q, l, c, i) ==
    /\ c.op \in {"putCQ", "merge", "put"} => q.op = "setQuota" /\ q.ask # None
    /\ c.op = "putCQ" => q.ask.cpu # None \/ q.ask.memory # None
    /\ c.op \in {"publish", "putY"} => q.name # None
    /\ c.op \in {"put", "tryRead"} => c.kind \in {"quota", "limit"}
    /\ c.op = "tryRead" <=> c.blk = "again"
    /\ c.op = "fix" => /\ i = 1 /\ c.kind \in {"ns", "cq"}
                       /\ c.kind = "cq" => l.cq # None /\ l.cq.selector # "owner"
CallsPermitted ==
    \A r \in Reqs : \A i \in 1..Len(todo[r]) : Permitted(req[r], loc[r], todo[r][i], i)

\* A claim needs its volume; a queue that was read is still there.
Backed == /\ obj.pvc # None => obj.pv # None
          /\ \A r \in Reqs : loc[r].cq # None => obj.cq # None

\* The inductive invariant.
IInv == TypeOK /\ CallsInOrder /\ CallsPermitted /\ Backed /\ NamespaceReady

\* The check of the quota lets a volume through exactly when Kubernetes would, as long as
\* the quota has not changed since it was read (ValidateManagedVolumeQuota).
QuotaCheckAgrees ==
    [][\A r \in Reqs :
          At(r, "check") /\ todo'[r] # todo[r] /\ faults' = faults /\ restarts' = restarts
              /\ loc[r].quota = obj.quota
          => (todo'[r] # <<>> <=> FitsQuota(req[r].size))]_vars

\* No volume is made through /system/volumes while the user has no quota or no limits,
\* whatever failed or was lost when they should have been made (GetVolumeQuotaInfo).
VolumesAreLimited ==
    [][\A r \in Reqs : At(r, "claim") /\ claim' # claim => obj.quota # None /\ obj.limit # None]_vars

\* Only a quota update changes limits that are there, or the quota of a ClusterQueue that
\* is the user's: no other request puts the defaults back, in any order of their calls
\* (EnsureVolumeLimits, ensureClusterQueue).
QuotasOutliveRequests ==
    [][(\A r \in Reqs : req[r].op = "setQuota" => todo'[r] = todo[r]) =>
          /\ \A k \in {"quota", "limit"} : obj[k] # None => obj'[k] = obj[k]
          /\ obj.cq # None /\ obj.cq.selector = "owner" => obj'.cq = obj.cq]_vars

Completes(r, o) == req[r].op = o /\ req'[r].op = "done" /\ todo[r] = <<>> /\ restarts' = restarts
                       /\ clean[r] /\ ans[r] = "ok"

\* A quota update that is answered with success, was alone and met no error, has given the
\* user what was asked, and GET shows it: the volumes in use by others come on top
\* (updateQuota, updateVolumeQuota).
QuotaAsAsked ==
    [][\A r \in Reqs :
          Completes(r, "setQuota") =>
              LET a == req[r].ask
              IN  /\ a.cpu # None => obj.cq.cpu = a.cpu
                  /\ a.memory # None => obj.cq.memory = a.memory
                  /\ a.disk # None =>
                         Monus(obj.quota.disk, NonManagedUsage.storage) = a.disk
                  /\ a.vols # None => Monus(obj.quota.vols, NonManagedUsage.count) = a.vols
                  /\ a.max # None => obj.limit.max = a.max
                  /\ a.min # None => obj.limit.min = a.min]_vars

\* A service whose create succeeded, alone and with no error, has its queues: a LocalQueue
\* beside it, a ClusterQueue, which admits the user's own namespace, a YuniKorn queue; one
\* whose delete succeeded has none (EnsureKueueUserQueues, AddYunikornQueue,
\* DeleteYunikornQueue).
QueuesFollowServices ==
    [][\A r \in Reqs :
          LET n == req[r].name
              p == req[r].place
          IN  /\ Completes(r, "create") =>
                     /\ cfg.kueue => /\ lq[p][n] # None /\ obj.flavor # None
                                     /\ obj.cq.selector = "owner"
                                     /\ p = "own" => obj.ns = "owned"
                     /\ cfg.yunikorn => n \in yk
              /\ Completes(r, "delete") => lq.own[n] = None /\ n \notin yk]_vars

\* Once a user's request reaches its handler the user has a MinIO account, with the key that
\* the user's Secret holds (getOIDCMiddleware).
CredentialsWork ==
    [][\A r \in Reqs : Completes(r, "ownQuota") => obj.secret # None /\ minio = obj.secret]_vars
=============================================================================
