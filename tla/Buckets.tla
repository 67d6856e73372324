--------------------------------- MODULE Buckets ---------------------------------
(***************************************************************************)
(* The handlers that keep buckets in MinIO: those of /system/buckets, and  *)
(* the parts of the create, update and delete handlers of services that    *)
(* make, share and remove the buckets of a service.  A handler is a        *)
(* sequence of blocks of MinIO calls; each call is one step, so requests   *)
(* interleave and any call may fail.                                       *)
(***************************************************************************)
EXTENDS MinIO

CONSTANTS
    MaxReqs,      \* bound: HTTP requests, numbered in the order in which they come
    BucketAsks,   \* visibility and allowed users that a bucket request may carry
    ServiceDefs,  \* definitions that a service request may carry
    MaxFaults,    \* bound: calls that fail before they take effect
    MaxEvents     \* bound: requests, failed calls and overlapping arrivals, together

VARIABLES
    svc,          \* the stored services: definition, owner and list of users' buckets
    isAdminUser,  \* the variable of the package: is the caller an administrator
    phase,        \* what each request is doing
    job,          \* what each request is about
    todo,         \* blocks of calls each request has still to make
    got,          \* policy, notifications and members each request read last
    found,        \* policies in which each request has seen its bucket
    ans,          \* answer to each request
    clean,        \* no call of the request failed, no other request was about
    made,         \* buckets each request has created
    tidy,         \* when the request came: were the grants of its bucket in order, or (the
                  \* delete of a service) were the service's buckets there
    faults, overlaps

vars == <<minio, svc, isAdminUser, phase, job, todo, got, found, ans, clean, made, tidy,
          faults, overlaps>>

Reqs == 1..MaxReqs
Clients == Users \cup {CfgName}
MaybeBucket == Plain \cup {None}

\* Input, output and mount bucket, visibility (private, if none is given), allowed users,
\* isolation level USER.
ServiceDefinition == [in : MaybeBucket, out : MaybeBucket, mount : MaybeBucket,
                      vis : Visibilities \ {Unset}, allowed : Seq(Listed), isolated : BOOLEAN]

\* Whoever an isolated service lists is made a MinIO user, if that is not so yet.
ASSUME AsksAssumption == /\ BucketAsks \subseteq [vis : Visibilities, allowed : Seq(Listed)]
                         /\ ServiceDefs \subseteq ServiceDefinition
                         /\ \A d \in ServiceDefs : d.isolated => d.allowed \in Seq(Users)

\* A stored service: its definition, its owner and the users it has a bucket for.
Stored(d, o, us) == [def |-> d, owner |-> o, list |-> us]
StoredService == [def : ServiceDefinition, owner : Users \cup {DefaultOwner, Nobody}, list : Seq(Users)]

Phases == {"idle", "createBucket", "updateBucket", "deleteBucket",
           "asksCreate", "createService", "rollback", "asksUpdate", "updateService",
           "deleteService", "done"}
Asking == {"asksCreate", "asksUpdate"}
Room(n) == Cardinality({r \in Reqs : phase[r] # "idle"}) + faults + overlaps + n <= MaxEvents
InFlight == {r \in Reqs : phase[r] \notin {"idle", "done"}}

-----------------------------------------------------------------------------
(* Blocks: an error skips the rest of the block and the next skip - 1 blocks; if skip  *)
(* is 0 the handler stops.  The error is written in the answer, or only logged.        *)

Block(calls, skip, log) == [calls |-> calls, skip |-> skip, log |-> log]
OrStop(calls) == <<Block(calls, 0, FALSE)>>
OrWrite(calls) == <<Block(calls, 1, FALSE)>>
OrLog(calls) == <<Block(calls, 1, TRUE)>>

\* The body of a function that returns its errors to a handler that goes on.
Within(s, log) ==
    [i \in DOMAIN s |-> IF s[i].skip = 0 THEN Block(s[i].calls, Len(s) - i + 1, log) ELSE s[i]]

\* The blocks f(u) for each user of a list, one after the other.
ForEach(us, f(_)) == FlattenSeq([i \in DOMAIN us |-> f(us[i])])

-----------------------------------------------------------------------------
(* The functions of the handlers. *)

DeleteMinIOBuckets(b, vis, owner) ==
    (IF owner # DefaultOwner THEN UnsetPolicies(b, vis, owner) ELSE <<>>) \o DeleteBucket(b)

registerMinIOWebhook(s) == RegisterWebhook(s) \o RestartServer
removeMinIOWebhook(s) == RemoveWebhook(s) \o RestartServer

\* Mutant: a create, too, takes errors for "it is there".
OrUpdate_Always(calls, upd) == OrLog(calls)

\* A path of the service is created; an update takes errors for "it is there".
OrUpdate(calls, upd) == IF upd THEN OrLog(calls) ELSE OrStop(calls)

createBuckets(s, d, us, upd) ==
    LET isolated(u) == <<Block(CreateS3PathWithWebhook(UserBucket(d.in, u), s), IF upd THEN 2 ELSE 0, TRUE)>>
                       \o OrStop(<<Call("isolate", UserBucket(d.in, u), u, {})>>)
        folder(u) == OrUpdate(CreateS3Path(UserBucket(d.in, u), TRUE), upd)
    IN  (IF d.in = None THEN <<>>
         ELSE OrUpdate(CreateS3PathWithWebhook(d.in, s), upd) \o ForEach(us, isolated))
        \o (IF d.out = None THEN <<>>
            ELSE OrUpdate(CreateS3Path(d.out, d.out = d.in), upd) \o ForEach(us, folder))
        \o (IF d.mount = None THEN <<>>
            ELSE IF d.mount \in {d.in, d.out} THEN OrUpdate(CreateS3Path(d.mount, TRUE), upd)
            ELSE OrStop(<<Call1("mount", d.mount)>>))

\* The buckets of a definition, in the order in which they are created.
BucketsOf(d) ==
    (IF d.in = None THEN <<>> ELSE <<d.in>>)
    \o (IF d.out \in {None, d.in} THEN <<>> ELSE <<d.out>>)
    \o (IF d.mount \in {None, d.in, d.out} THEN <<>> ELSE <<d.mount>>)

\* Mutant: the output bucket is forgotten.
deleteBuckets_NoOutput(s, v) ==
    IF v.def.in = None THEN <<>>
    ELSE OrLog(disableInputNotifications(v.def.in, s))
         \o OrStop(IF v.def.in = v.def.mount THEN SetTags(v.def.in, v.owner)
                   ELSE DeleteMinIOBuckets(v.def.in, v.def.vis, v.owner))

\* A bucket that the service mounts is kept.
deleteBuckets(s, v) ==
    LET d == v.def
        one(b) == OrLog(disableInputNotifications(b, s))
                  \o OrStop(IF b = d.mount THEN SetTags(b, v.owner)
                                           ELSE DeleteMinIOBuckets(b, d.vis, v.owner))
        user(u) == LET b == UserBucket(d.in, u)
                   IN  OrLog(disableInputNotifications(b, s))
                       \o OrLog(DeleteMinIOBuckets(b, "private", v.owner))
    IN  (IF d.in = None THEN <<>> ELSE one(d.in))
        \o (IF d.out \in {None, d.in} THEN <<>> ELSE one(d.out))
        \o ForEach(v.list, user)

-----------------------------------------------------------------------------

NoJob == [client |-> None, b |-> None, s |-> None, def |-> None, old |-> None]
NothingGot == [pol |-> None, notif |-> {}, users |-> {}]

Init ==
    /\ MinIOInit
    /\ svc = [s \in Services |-> None]
    /\ isAdminUser = FALSE
    /\ phase = [r \in Reqs |-> "idle"]
    /\ job = [r \in Reqs |-> NoJob]
    /\ todo = [r \in Reqs |-> <<>>]
    /\ got = [r \in Reqs |-> NothingGot]
    /\ found = [r \in Reqs |-> {}]
    /\ ans = [r \in Reqs |-> "none"]
    /\ clean = [r \in Reqs |-> FALSE]
    /\ made = [r \in Reqs |-> {}]
    /\ tidy = [r \in Reqs |-> FALSE]
    /\ faults = 0 /\ overlaps = 0

\* Bucket b is in one policy, once: its owner's, or the one of all users; and in that of
\* its group, which then has members, only besides its owner's.
Once(p, b) == minio.policy[p] # None /\ Len(SelectSeq(minio.policy[p], LAMBDA x : x = b)) = 1
Tidy(b) ==
    \E p \in Users \cup {AllUsers} :
        /\ Once(p, b) /\ p \in minio.attached
        /\ \A q \in (Users \cup {AllUsers}) \ {p} : ~InPolicy(q, b)
        /\ InPolicy(b, b) => p # AllUsers /\ Once(b, b) /\ b \in minio.attached
        /\ InPolicy(b, b) <=> minio.group[b] # None

\* No policy and no group knows of bucket b.
Unknown(b) == minio.group[b] = None /\ \A p \in Principals : ~InPolicy(p, b)

\* Request r is the next one and may come in now.
MayArrive(r) ==
    /\ phase[r] = "idle" /\ \A q \in 1..(r - 1) : phase[q] # "idle"
    /\ Room(IF InFlight = {} THEN 1 ELSE 2)

\* It comes in, for the job j, and has the given blocks to do.
Arrive(r, p, j, blocks) ==
    /\ overlaps' = IF InFlight = {} THEN overlaps ELSE overlaps + 1
    /\ phase' = [phase EXCEPT ![r] = p]
    /\ job' = [job EXCEPT ![r] = j]
    /\ todo' = [todo EXCEPT ![r] = blocks]
    /\ tidy' = [tidy EXCEPT ![r] =
                   CASE p = "createBucket" -> Unknown(j.b)
                     [] p \in {"updateBucket", "deleteBucket"} -> Tidy(j.b)
                     [] p = "deleteService" ->
                            {j.def.def.in, j.def.def.out} \ {None} \subseteq minio.exists
                     [] OTHER -> FALSE]
    /\ clean' = [q \in Reqs |-> IF q = r THEN InFlight = {} ELSE clean[q] /\ q \notin InFlight]
    /\ UNCHANGED <<minio, got, found, made, faults>>

\* POST /system/buckets.  The bucket is the first part of the name, the policies are for
\* the name.  The package has a variable of its own that tells an administrator: another
\* request may set it before this one looks.
CreateBucket(r, u, b, ask) ==
    LET vis == IF ask.vis = Unset THEN "private" ELSE ask.vis
        folder == IF b \in Plain THEN <<>> ELSE <<Call1("folder", BucketOf[b])>>
    IN  \E uid \in {u} \cup {x \in {CfgName} : InFlight # {}} :
          /\ Arrive(r, "createBucket", [NoJob EXCEPT !.client = uid, !.b = b, !.def = ask],
                    OrStop(createBucket(BucketOf[b]) \o folder) \o OrWrite(SetTags(BucketOf[b], uid))
                    \o (IF uid = CfgName THEN <<>>
                        ELSE OrWrite(SetPolicies(b, vis, uid, ToSet(ask.allowed)))))
          /\ UNCHANGED <<svc, isAdminUser, ans>>

\* PUT /system/buckets; no code sets the tag "service" to true, so a bucket of a
\* service is not told apart.
UpdateBucket(r, u, b, ask) ==
    /\ Arrive(r, "updateBucket", [NoJob EXCEPT !.client = u, !.b = b, !.def = ask],
              OrStop(<<Call1("tags", b)>> \o SeeVisibility(u, b) \o <<Call1("update", b)>>))
    /\ UNCHANGED <<svc, isAdminUser, ans>>

\* Mutant: an administrator keeps the name of the cluster.
OwnerOf_Name(u) == u

\* The owner of what caller u makes or deletes.
OwnerOf(u) == IF u = CfgName THEN DefaultOwner ELSE u

\* DELETE /system/buckets.
DeleteBucketRequest(r, u, b) ==
    LET uid == OwnerOf(u)
    IN  /\ Arrive(r, "deleteBucket", [NoJob EXCEPT !.client = uid, !.b = b],
                  OrStop(<<Call1("list", b)>> \o SeeVisibility(uid, b) \o <<Call1("delete", b)>>))
        /\ UNCHANGED <<svc, isAdminUser, ans>>

\* A request about a service says whether an administrator sends it, in a variable that
\* all requests share: a create sets it, an update sets it for an administrator only.
PostService(r, u) ==
    /\ Arrive(r, "asksCreate", [NoJob EXCEPT !.client = u], <<>>)
    /\ isAdminUser' = (u = CfgName)
    /\ UNCHANGED <<svc, ans>>
PutService(r, u) ==
    /\ Arrive(r, "asksUpdate", [NoJob EXCEPT !.client = u], <<>>)
    /\ isAdminUser' = (isAdminUser \/ u = CfgName)
    /\ UNCHANGED <<svc, ans>>

\* The request of u has read the variable, and has the job j and the given blocks to do.
Begin(r, asks, p, j, blocks) ==
    /\ phase[r] = asks
    /\ phase' = [phase EXCEPT ![r] = p]
    /\ job' = [job EXCEPT ![r] = j]
    /\ todo' = [todo EXCEPT ![r] = blocks]
    /\ UNCHANGED <<minio, svc, isAdminUser, got, found, clean, made, tidy, faults, overlaps>>

\* The create of service s by u; users of an isolated service get a bucket each.  A user
\* who is taken for an administrator owns nothing, the definition may name an owner; an
\* administrator who is taken for a user has no uid and is refused.
CreateService(r, u, s, d, o) ==
    LET admin == isAdminUser
        owner == IF admin /\ u # CfgName THEN o ELSE OwnerOf(u)
        isolated == d.isolated /\ d.in # None /\ d.allowed # <<>> /\ ~admin
        list == IF isolated THEN d.allowed ELSE <<>>
        def == [d EXCEPT !.allowed = IF isolated /\ u \notin ToSet(@) THEN Append(@, u) ELSE @]
        refused == ~admin /\ u = CfgName
        share(b) == (IF owner = DefaultOwner THEN <<>>
                     ELSE OrWrite(SetPolicies(b, IF d.vis = Unset THEN "private" ELSE d.vis, owner,
                                              ToSet(def.allowed))))
                    \o OrWrite(SetTags(b, IF admin THEN Nobody ELSE u))
        plan == OrStop(<<Call1("publish", None)>> \o registerMinIOWebhook(s))
                \o createBuckets(s, def, list, FALSE) \o ForEach(BucketsOf(def), share)
    IN  /\ o \in IF admin /\ u # CfgName THEN Users \cup {DefaultOwner, Nobody} ELSE {Nobody}
        /\ Begin(r, "asksCreate", "createService",
                 [NoJob EXCEPT !.client = IF admin THEN CfgName ELSE u, !.s = s,
                               !.def = Stored(def, owner, list)],
                 IF refused THEN <<>> ELSE plan)
        /\ ans' = IF refused THEN [ans EXCEPT ![r] = "error"] ELSE ans

\* What the update of service s from v to w, made by its owner or by an administrator,
\* does with MinIO.
UpdateBlocks(s, v, w) ==
    LET d == w.def
        drop(u) == LET b == UserBucket(v.def.in, u)
                   IN  IF \E x \in ToSet(w.list) : UserBucket(d.in, x) = b THEN <<>>
                       ELSE OrLog(disableInputNotifications(b, s))
                            \o OrLog(DeleteMinIOBuckets(b, "private", v.owner))
        old == {v.def.in, v.def.out} \ {None}
        new == BucketsOf(d)
        us == ToSet(d.allowed)
        share(b) ==
            IF b \notin old
            THEN OrWrite(SetPolicies(b, d.vis, w.owner, us)) \o OrStop(registerMinIOWebhook(s))
            ELSE IF v.def.vis # d.vis
            THEN OrWrite(UnsetPolicies(b, v.def.vis, v.owner))
                 \o OrWrite(SetPolicies(b, IF d.vis = Unset THEN "private" ELSE d.vis, w.owner, us))
            ELSE IF d.vis = "restricted" THEN OrWrite(UpdateServiceGroup(b, us)) ELSE <<>>
        unused(b) == OrWrite(SetPolicies(b, "private", Nobody, {}))
    IN  ForEach(v.list, drop) \o createBuckets(s, d, w.list, TRUE)
        \o ForEach(new, share) \o ForEach(SetToSeq(old \ ToSet(new)), unused)
        \o OrStop(<<Call1("replace", None)>>)

\* The update of service s by u.  For users the owner is kept; an administrator's
\* definition may name it or not.  An administrator who is taken for a user has no uid:
\* that is an error, which goes on if the service has no owner.
UpdateService(r, u, s, d, o) ==
    LET admin == isAdminUser
        v == svc[s]
        uid == IF u = CfgName THEN Nobody ELSE u
        isolated == d.isolated /\ d.in # None /\ d.allowed # <<>>
        list == IF isolated THEN d.allowed ELSE <<>>
        owner == IF admin THEN o ELSE v.owner
        def == [d EXCEPT !.allowed = IF isolated /\ owner \notin ToSet(@) THEN Append(@, u) ELSE @]
        w == Stored(def, owner, list)
        nameless == admin \/ u = CfgName
        refused == v = None \/ (~admin /\ v.owner # uid) \/ (nameless /\ isolated)
    IN  /\ o \in IF v = None THEN {Nobody} ELSE IF admin THEN {v.owner, Nobody} ELSE {v.owner}
        /\ Begin(r, "asksUpdate", "updateService",
                 IF refused THEN [NoJob EXCEPT !.client = u]
                 ELSE [NoJob EXCEPT !.client = u, !.s = s, !.def = w, !.old = v],
                 IF refused THEN <<>> ELSE UpdateBlocks(s, v, w))
        /\ ans' = IF refused \/ (~admin /\ u = CfgName) THEN [ans EXCEPT ![r] = "error"] ELSE ans

\* DELETE /system/services: the stored service goes first.
DeleteService(r, u, s) ==
    LET v == svc[s]
        removeIsolated(x) == OrWrite(RemoveResource(UserBucket(v.def.in, x), x))
    IN  /\ v # None /\ u \in {v.owner, CfgName}
        /\ Arrive(r, "deleteService", [NoJob EXCEPT !.client = u, !.s = s, !.def = v],
                  (IF v.def.mount = None THEN <<>> ELSE OrLog(CreateAddGroup(v.def.mount, {}, TRUE)))
                  \o OrLog(removeMinIOWebhook(s)) \o Within(deleteBuckets(s, v), FALSE)
                  \o ForEach(v.list, removeIsolated))
        /\ svc' = [svc EXCEPT ![s] = None]
        /\ UNCHANGED <<isAdminUser, ans>>

-----------------------------------------------------------------------------
(* One call of a request. *)

C(r) == Head(Head(todo[r]).calls)
At(r, o) == todo[r] # <<>> /\ C(r).op = o

\* What is left after the call.
Rest(r) ==
    LET k == Head(todo[r])
    IN  IF Len(k.calls) = 1 THEN Tail(todo[r])
        ELSE <<[k EXCEPT !.calls = Tail(@)]>> \o Tail(todo[r])

\* The call returned, and the given blocks come before the rest.
GoOn(r, blocks) ==
    /\ todo' = [todo EXCEPT ![r] = blocks \o Rest(r)]
    /\ UNCHANGED <<svc, isAdminUser, phase, job, ans, tidy, overlaps>>
Read(r, x) == got' = [got EXCEPT ![r] = x] /\ UNCHANGED <<minio, found, made>>
NoRead == UNCHANGED <<got, found, made>>
Fine == UNCHANGED <<clean, faults>>

\* The handler of r gives up.  A create deletes the service again and, unless the
\* webhook failed or a bucket was there before, all its buckets; an update writes the
\* old definition again.
Stop(r, undo) ==
    LET j == job[r]
    IN  /\ \/ /\ phase[r] = "createService"
              /\ svc' = [svc EXCEPT ![j.s] = None]
              /\ phase' = [phase EXCEPT ![r] = "rollback"]
              /\ todo' = [todo EXCEPT ![r] = IF undo THEN Within(deleteBuckets(j.s, j.def), TRUE) ELSE <<>>]
           \/ /\ phase[r] = "updateService"
              /\ svc' = [svc EXCEPT ![j.s] = IF @ = None THEN None ELSE j.old]
              /\ todo' = [todo EXCEPT ![r] = <<>>]
              /\ UNCHANGED phase
           \/ /\ phase[r] \notin {"createService", "updateService"}
              /\ todo' = [todo EXCEPT ![r] = <<>>]
              /\ UNCHANGED <<svc, phase>>
        /\ ans' = [ans EXCEPT ![r] = "error"]

\* The call of r returned an error; it is written in the answer unless it is a silent one.
Error(r, undo, silent) ==
    LET k == Head(todo[r])
    IN  /\ \/ k.skip = 0 /\ Stop(r, undo)
           \/ /\ k.skip > 0
              /\ todo' = [todo EXCEPT ![r] = SubSeq(@, k.skip + 1, Len(@))]
              /\ ans' = IF k.log \/ silent THEN ans ELSE [ans EXCEPT ![r] = "error"]
              /\ UNCHANGED <<svc, phase>>
        /\ UNCHANGED <<minio, isAdminUser, job, tidy, overlaps>> /\ NoRead

\* When a service is deleted, a bucket that is gone already is no error to tell of; the
\* buckets that come after it are left all the same.
NoSuchBucket(r) ==
    /\ phase[r] = "deleteService"
    /\ C(r).op \in {"empty", "removeBucket"} /\ C(r).b \notin minio.exists

Refused(r) == Error(r, TRUE, NoSuchBucket(r)) /\ Fine

\* A call fails before it has an effect, and the code takes that as it takes x.
Fault(r) ==
    /\ faults < MaxFaults /\ Room(1)
    /\ faults' = faults + 1
    /\ clean' = [clean EXCEPT ![r] = FALSE]
CallFails(r) ==
    Fault(r) /\ Error(r, C(r).op \notin {"publish", "webhook", "restart", "serverInfo"}, FALSE)

\* Calls that change MinIO, or are refused.
Do(r, effect) == effect /\ NoRead /\ GoOn(r, <<>>) /\ Fine

\* Mutant: the buckets are deleted as well when one of them was there before.
MakeBucketCall_UndoAll(r) ==
    LET b == C(r).b
    IN  /\ At(r, "makeBucket")
        /\ \/ /\ MakeBucket(b)
              /\ made' = [made EXCEPT ![r] = @ \cup {b}]
              /\ UNCHANGED <<got, found>> /\ GoOn(r, <<>>) /\ Fine
           \/ b \in minio.exists /\ Error(r, TRUE, FALSE) /\ Fine
           \/ CallFails(r)

\* A bucket that is there is the one error after which nothing is undone.
MakeBucketCall(r) ==
    LET b == C(r).b
    IN  /\ At(r, "makeBucket")
        /\ \/ /\ MakeBucket(b)
              /\ made' = [made EXCEPT ![r] = @ \cup {b}]
              /\ UNCHANGED <<got, found>> /\ GoOn(r, <<>>) /\ Fine
           \/ b \in minio.exists /\ Error(r, FALSE, FALSE) /\ Fine
           \/ CallFails(r)

RemoveBucketCall(r) ==
    /\ At(r, "removeBucket")
    /\ \/ Do(r, DropBucket(C(r).b))
       \/ C(r).b \notin minio.exists /\ Refused(r)
       \/ CallFails(r)

\* PutObject of a folder, the listing and deletion of objects, ListBuckets, tags.
TouchCall(r) ==
    /\ \E o \in {"folder", "empty", "list"} : At(r, o)
    /\ \/ Do(r, Touch(C(r).b))
       \/ C(r).b \notin minio.exists /\ Refused(r)
       \/ CallFails(r)

TagCall(r) ==
    /\ At(r, "tag")
    /\ \/ Do(r, Tag(C(r).b, C(r).p))
       \/ C(r).b \notin minio.exists /\ Refused(r)
       \/ CallFails(r)

\* GetTaggedMetadata, in the update of a bucket.
TagsCall(r) ==
    /\ At(r, "tags")
    /\ \/ minio.tags[C(r).b] # None /\ Do(r, Same)
       \/ minio.tags[C(r).b] = None /\ Refused(r)
       \/ CallFails(r)

GetNotifCall(r) ==
    /\ At(r, "getNotif")
    /\ \/ /\ C(r).b \in minio.exists
          /\ Read(r, [NothingGot EXCEPT !.notif = minio.notif[C(r).b]]) /\ GoOn(r, <<>>) /\ Fine
       \/ C(r).b \notin minio.exists /\ Refused(r)
       \/ CallFails(r)

\* A notification that overlaps with one that is there is not added, without an error.
PutNotifCall(r) ==
    LET old == got[r].notif
    IN  /\ At(r, "addNotif") \/ At(r, "removeNotif")
        /\ \/ Do(r, PutNotif(C(r).b, IF C(r).op = "addNotif" THEN old \cup {C(r).p} ELSE old \ {C(r).p}))
           \/ C(r).b \notin minio.exists /\ Refused(r)
           \/ CallFails(r)

\* CreateAddPolicy takes any error of InfoCannedPolicy for "there is no policy".
InfoToAdd(r) ==
    /\ At(r, "infoToAdd")
    /\ GoOn(r, <<>>)
    /\ \/ Read(r, [NothingGot EXCEPT !.pol = minio.policy[C(r).p]]) /\ Fine
       \/ Read(r, NothingGot) /\ Fault(r)

InfoToRemove(r) ==
    /\ At(r, "infoToRemove")
    /\ \/ /\ minio.policy[C(r).p] # None
          /\ Read(r, [NothingGot EXCEPT !.pol = minio.policy[C(r).p]]) /\ GoOn(r, <<>>) /\ Fine
       \/ minio.policy[C(r).p] = None /\ Refused(r)
       \/ CallFails(r)

WritePolicy(r) ==
    LET pol == got[r].pol
        new == IF C(r).op = "addPolicy" THEN WithResource(pol, C(r).b) ELSE WithoutResource(pol, C(r).b)
    IN  /\ At(r, "addPolicy") \/ At(r, "cutPolicy")
        /\ \/ Do(r, AddCannedPolicy(C(r).p, new))
           \/ C(r).p = Nobody /\ Refused(r)
           \/ CallFails(r)

SetPolicyCall(r) ==
    /\ At(r, "setPolicy")
    /\ \/ Do(r, SetPolicy(C(r).p))
       \/ ~PrincipalExists(C(r).p) /\ Refused(r)
       \/ CallFails(r)

RemovePolicyCall(r) ==
    /\ At(r, "removePolicy")
    /\ \/ Do(r, RemoveCannedPolicy(C(r).p))
       \/ (minio.policy[C(r).p] = None \/ C(r).p \in minio.attached) /\ Refused(r)
       \/ CallFails(r)

MembersCall(r) ==
    LET us == minio.group[C(r).p]
    IN  /\ At(r, "members")
        /\ \/ us # None /\ Read(r, [NothingGot EXCEPT !.users = us]) /\ GoOn(r, <<>>) /\ Fine
           \/ us = None /\ Refused(r)
           \/ CallFails(r)

AddMembersCall(r) ==
    /\ At(r, "addMembers")
    /\ \/ Do(r, AddMembers(C(r).p, C(r).users))
       \/ ~(C(r).users \subseteq Users) /\ Refused(r)
       \/ CallFails(r)

\* The members given, those that were read, or those read that are not given.
RemoveMembersCall(r) ==
    LET c == C(r)
        us == CASE c.op = "removeMembers" -> c.users
                [] c.op = "removeFound" -> got[r].users
                [] c.op = "removeOthers" -> got[r].users \ c.users
    IN  /\ \E o \in {"removeMembers", "removeFound", "removeOthers"} : At(r, o)
        /\ IF c.op = "removeOthers" /\ us = {} THEN Do(r, Same)
           ELSE \/ Do(r, RemoveMembers(c.p, us))
                \/ ~CanRemoveMembers(c.p, us) /\ Refused(r)
                \/ CallFails(r)

WebhookCall(r) ==
    /\ At(r, "webhook") \/ At(r, "unwebhook")
    /\ \/ Do(r, IF C(r).op = "webhook" THEN SetWebhook(C(r).p) ELSE DelWebhook(C(r).p))
       \/ CallFails(r)

RestartCall(r) ==
    /\ At(r, "restart") \/ At(r, "serverInfo")
    /\ Do(r, Same) \/ CallFails(r)

\* ResourceInPolicy: an error counts as "not there".
SeeCall(r) ==
    /\ At(r, "see")
    /\ GoOn(r, <<>>)
    /\ \/ InPolicy(C(r).p, C(r).b) /\ found' = [found EXCEPT ![r] = @ \cup {C(r).p}] /\ Fine
       \/ ~InPolicy(C(r).p, C(r).b) /\ UNCHANGED found /\ Fine
       \/ InPolicy(C(r).p, C(r).b) /\ UNCHANGED found /\ Fault(r)
    /\ UNCHANGED <<minio, got, made>>

\* The update goes on if the bucket is public or still in the caller's policy; else
\* nothing is done and the answer is the same.
DecideUpdate(r) ==
    LET j == job[r]
        us == ToSet(j.def.allowed)
        vis == GetCurrentResourceVisibility(j.client, j.b, found[r])
        may == vis # Unset /\ (vis = "public" \/ InPolicy(j.client, j.b))
    IN  /\ At(r, "update")
        /\ Same /\ NoRead /\ Fine
        /\ \/ /\ may /\ vis # j.def.vis
              /\ GoOn(r, OrStop(UnsetPolicies(j.b, vis, j.client)
                                \o SetPolicies(j.b, j.def.vis, j.client, us)))
           \/ /\ may /\ vis = j.def.vis /\ vis = "restricted"
              /\ GoOn(r, OrStop(UpdateServiceGroup(j.b, us)))
           \/ /\ ~may \/ (vis = j.def.vis /\ vis # "restricted")
              /\ GoOn(r, <<>>)

\* Mutant: whoever asks may delete a bucket.
DecideDelete_Anyone(r) ==
    LET j == job[r]
        vis == GetCurrentResourceVisibility(j.client, j.b, found[r])
    IN  /\ At(r, "delete")
        /\ Same /\ NoRead /\ Fine /\ GoOn(r, OrStop(DeleteMinIOBuckets(j.b, vis, j.client)))

DecideDelete(r) ==
    LET j == job[r]
        vis == GetCurrentResourceVisibility(j.client, j.b, found[r])
        may == j.client = DefaultOwner \/ vis = "public" \/ InPolicy(j.client, j.b)
    IN  /\ At(r, "delete")
        /\ \/ may /\ Same /\ NoRead /\ Fine /\ GoOn(r, OrStop(DeleteMinIOBuckets(j.b, vis, j.client)))
           \/ ~may /\ Refused(r)

\* The bucket of an isolated user, shared with the user unless the caller is an
\* administrator.
Isolate(r) ==
    /\ At(r, "isolate")
    /\ Same /\ NoRead /\ Fine
    /\ GoOn(r, IF isAdminUser THEN <<>> ELSE OrStop(CreateAddPolicy(C(r).b, C(r).p)))

\* A mount bucket that is not one of the service's is created, or must be private.
Mount(r) ==
    LET b == C(r).b
    IN  /\ At(r, "mount")
        /\ \/ /\ Same /\ NoRead /\ Fine
              /\ GoOn(r, OrStop(IF b \in minio.exists
                                THEN SeeVisibility(job[r].def.owner, b) \o <<Call1("private", b)>>
                                ELSE CreateS3Path(b, FALSE)))
           \/ CallFails(r)

\* An administrator's bucket has no policy: its tag tells.
MountPrivate(r) ==
    LET b == C(r).b
        vis == GetCurrentResourceVisibility(job[r].def.owner, b, found[r])
        ours == isAdminUser /\ vis = Unset /\ minio.tags[b] \in {CfgName, Nobody, None}
    IN  /\ At(r, "private")
        /\ \/ /\ vis = "private" \/ ours
              /\ Same /\ NoRead /\ Fine
              /\ GoOn(r, OrUpdate(CreateS3Path(b, TRUE), phase[r] = "updateService"))
           \/ vis # "private" /\ ~ours /\ Refused(r)

\* The service is stored; a name that is taken ends the request with a conflict.  One
\* taken for an administrator's and now for a user's may end before: its credentials are
\* looked for without a configuration, which panics if the definition names a namespace.
Publish(r) ==
    LET s == job[r].s
        lost == job[r].client = CfgName /\ ~isAdminUser
    IN  /\ At(r, "publish")
        /\ \/ /\ svc[s] = None
              /\ svc' = [svc EXCEPT ![s] = job[r].def]
              /\ todo' = [todo EXCEPT ![r] = Rest(r)]
              /\ UNCHANGED <<ans, clean, faults>>
           \/ /\ svc[s] # None \/ lost
              /\ todo' = [todo EXCEPT ![r] = <<>>]
              /\ ans' = [ans EXCEPT ![r] = "error"]
              /\ UNCHANGED <<svc, clean, faults>>
        /\ UNCHANGED <<minio, isAdminUser, phase, job, tidy, overlaps>> /\ NoRead

\* The backend's UpdateService with the new definition.
Replace(r) ==
    LET s == job[r].s
    IN  /\ At(r, "replace")
        /\ \/ /\ svc[s] # None
              /\ svc' = [svc EXCEPT ![s] = job[r].def]
              /\ todo' = [todo EXCEPT ![r] = <<>>]
              /\ UNCHANGED <<minio, isAdminUser, phase, job, ans, tidy, overlaps>> /\ NoRead /\ Fine
           \/ svc[s] = None /\ Refused(r)
           \/ CallFails(r)

\* Nothing is left to do: the handler answers, and its variables are forgotten.
Return(r) ==
    /\ r \in InFlight /\ phase[r] \notin Asking /\ todo[r] = <<>>
    /\ phase' = [phase EXCEPT ![r] = "done"]
    /\ ans' = [ans EXCEPT ![r] = IF @ = "none" THEN "ok" ELSE @]
    /\ job' = [job EXCEPT ![r] = NoJob]
    /\ got' = [got EXCEPT ![r] = NothingGot]
    /\ found' = [found EXCEPT ![r] = {}]
    /\ made' = [made EXCEPT ![r] = {}]
    /\ clean' = [clean EXCEPT ![r] = FALSE]
    /\ tidy' = [tidy EXCEPT ![r] = FALSE]
    /\ UNCHANGED <<minio, svc, isAdminUser, todo, faults, overlaps>>

-----------------------------------------------------------------------------

Start(r) ==
    /\ MayArrive(r)
    /\ \E u \in Clients :
        \/ \E b \in Names :
              \/ \E ask \in BucketAsks : CreateBucket(r, u, b, ask) \/ UpdateBucket(r, u, b, ask)
              \/ DeleteBucketRequest(r, u, b)
        \/ PostService(r, u) \/ PutService(r, u)
        \/ \E s \in Services : DeleteService(r, u, s)

\* The definition and the owner in it are the request's; nothing reads them before.
Identify(r) ==
    /\ phase[r] \in Asking
    /\ \E u \in Clients :
        /\ u = job[r].client
        /\ \E s \in Services, d \in ServiceDefs, o \in Users \cup {DefaultOwner, Nobody} :
              CreateService(r, u, s, d, o) \/ UpdateService(r, u, s, d, o)

Step(r) ==
    \/ MakeBucketCall(r) \/ RemoveBucketCall(r) \/ TouchCall(r) \/ TagCall(r) \/ TagsCall(r)
    \/ GetNotifCall(r) \/ PutNotifCall(r) \/ InfoToAdd(r) \/ InfoToRemove(r) \/ WritePolicy(r)
    \/ SetPolicyCall(r) \/ RemovePolicyCall(r) \/ MembersCall(r) \/ AddMembersCall(r)
    \/ RemoveMembersCall(r) \/ WebhookCall(r) \/ RestartCall(r) \/ SeeCall(r)
    \/ DecideUpdate(r) \/ DecideDelete(r) \/ Isolate(r) \/ Mount(r) \/ MountPrivate(r)
    \/ Publish(r) \/ Replace(r) \/ Return(r)

\* No request is in progress; none may come any more.
Quiet == InFlight = {} /\ UNCHANGED vars

Next == (\E r \in Reqs : Start(r) \/ Identify(r) \/ Step(r)) \/ Quiet

Spec == Init /\ [][Next]_vars

-----------------------------------------------------------------------------

\* Every variable has its type.
TypeOK ==
    /\ minio \in MinIOState
    /\ svc \in [Services -> StoredService \cup {None}]
    /\ isAdminUser \in BOOLEAN
    /\ phase \in [Reqs -> Phases]
    /\ DOMAIN job = Reqs /\ DOMAIN todo = Reqs
    /\ got \in [Reqs -> [pol : Policies, notif : SUBSET Services, users : SUBSET Users]]
    /\ found \in [Reqs -> SUBSET Principals]
    /\ ans \in [Reqs -> {"none", "ok", "error"}]
    /\ clean \in [Reqs -> BOOLEAN] /\ tidy \in [Reqs -> BOOLEAN]
    /\ made \in [Reqs -> SUBSET Buckets]
    /\ faults \in Nat /\ overlaps \in Nat

StepOf(r) == todo'[r] # todo[r] \/ phase'[r] # phase[r]

\* Request r is answered "ok" at the end of phase p; no call of it failed and no other
\* request was in progress meanwhile.
Completes(r, p) == phase[r] = p /\ phase'[r] = "done" /\ clean[r] /\ ans'[r] = "ok"

BucketPhases == {"createBucket", "updateBucket", "deleteBucket"}

\* A request about one bucket takes nobody's access to another away, whatever happened
\* before: RemoveResource, which makes a policy with one bucket empty whichever bucket
\* that is, is called only with a bucket of the policy.
OthersUntouched ==
    [][\A r \in Reqs :
        StepOf(r) /\ phase[r] \in BucketPhases /\ clean[r] /\ faults' = faults =>
            \A b \in Buckets \ {job[r].b} : Access(b) \subseteq Access(b)']_vars

\* Who is to have access to a bucket of u with the given visibility and list.
Asked(u, ask) ==
    CASE ask.vis \in {"private", Unset} -> {u} \cap Users
      [] ask.vis = "restricted" -> ({u} \cap Users) \cup ToSet(ask.allowed)
      [] ask.vis = "public" -> Users

\* A bucket that is created, or updated by its owner, is open to those the request asks
\* for; and to nobody else if its grants were in order before.  (Left out: an update that
\* gives no visibility, which makes the bucket public; and a create that names a folder
\* behind the bucket, which gives its grants to the folder and none to the bucket.)
AccessAsAsked ==
    [][\A r \in Reqs :
        LET j == job[r]
            sole == tidy[r] => Access(j.b) = Asked(j.client, j.def)
        IN  /\ Completes(r, "createBucket") /\ j.client # CfgName /\ j.b \in Plain =>
                  Asked(j.client, j.def) \subseteq Access(j.b) /\ sole
            /\ Completes(r, "updateBucket") /\ j.def.vis # Unset /\ j.client \in found[r] =>
                  sole]_vars

\* A bucket that its owner has deleted is gone and so are the grants to it, if they
\* were in order: the next bucket of that name starts from nothing.
DeleteForgets ==
    [][\A r \in Reqs :
        Completes(r, "deleteBucket") =>
            /\ job[r].b \notin minio.exists
            /\ tidy[r] /\ job[r].client # DefaultOwner => Unknown(job[r].b)]_vars

\* A create of a service that is refused and undone deletes no bucket but its own:
\* those that were there before it came, maybe somebody else's, stay.
ForeignBucketsKept ==
    [][\A r \in Reqs :
        StepOf(r) /\ phase[r] \in {"createService", "rollback"} /\ clean[r] =>
            minio.exists \ minio.exists' \subseteq made[r]]_vars

\* A service that is accepted has its buckets, its owner may use them, and its input
\* bucket notifies it through a webhook that is registered.
AcceptedServiceReady ==
    [][\A r \in Reqs :
        LET j == job[r]
            d == j.def.def
        IN  Completes(r, "createService") =>
              /\ j.s \in minio.webhooks
              /\ d.in # None => j.s \in minio.notif[d.in]
              /\ \A b \in ToSet(BucketsOf(d)) :
                    /\ b \in minio.exists
                    /\ j.def.owner \in Users => j.def.owner \in Access(b)]_vars

\* A service that is deleted leaves neither its webhook, nor notifications to it on its
\* input and output buckets, nor those buckets (unless it mounts them), if they were all
\* there: nothing after a bucket that was gone already is deleted, and the answer is "ok".
DeletedServiceGone ==
    [][\A r \in Reqs :
        LET j == job[r]
            d == j.def.def
        IN  Completes(r, "deleteService") =>
              /\ j.s \notin minio.webhooks
              /\ tidy[r] => \A b \in {d.in, d.out} \ {None} :
                    j.s \notin minio.notif[b] /\ (b # d.mount => b \notin minio.exists)]_vars

\* The delete of a service takes nobody's access to a bucket that is not one of its own
\* away: RemoveResource "deletes a resource from a given policy".
ServiceDeleteKeepsOthers ==
    [][\A r \in Reqs :
        LET v == job[r].def
            own == ToSet(BucketsOf(v.def)) \cup {UserBucket(v.def.in, u) : u \in ToSet(v.list)}
        IN  StepOf(r) /\ phase[r] = "deleteService" /\ clean[r] =>
                \A b \in Buckets \ own : Access(b) \subseteq Access(b)']_vars
=============================================================================
