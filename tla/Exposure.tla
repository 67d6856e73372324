-------------------------------- MODULE Exposure --------------------------------
(***************************************************************************)
(* The Kubernetes objects of one exposed service: Deployment, autoscaler,  *)
(* Service, the route (an Ingress or an HTTPRoute with its middlewares and *)
(* secrets) and, with Kueue, the Workload that stands for its pods and the *)
(* LocalQueue.  CreateExpose, UpdateExpose and DeleteExpose are sequences  *)
(* of API calls; each call is one step, so requests interleave and any     *)
(* call may fail.  What a request has still to do is the sequence todo[r]. *)
(* The registry of services (KubeBackend) is one variable here.            *)
(***************************************************************************)
EXTENDS Naturals, Sequences

CONSTANTS
    Reqs,         \* one-shot HTTP requests
    Defs,         \* the "expose" blocks that requests may carry
    Configs,      \* configurations OSCAR may be started with
    None,         \* "no such object"
    MaxFaults,    \* bound: API calls that fail before they take effect
    MaxRestarts,  \* bound: restarts of OSCAR, maybe with another route kind
    MaxTrouble    \* bound: failed calls and restarts, and (as two) overlapping arrivals

\* api_port # 0, node_port # 0, set_auth, min_scale.
ExposeSettings == [exposed : BOOLEAN, nodePort : BOOLEAN, auth : BOOLEAN, min : Nat]

\* EXPOSED_SERVICES_ROUTE_KIND, is HTTPROUTE_GATEWAY_NAME set, is Kueue enabled, and
\* is the service's owner a user (not the default owner).
ConfigType == [route : {"ingress", "httproute"}, gateway : BOOLEAN,
               kueue : BOOLEAN, user : BOOLEAN]

\* The objects; their names are the service's with a suffix for each kind.
Kinds == {"workload", "deploy", "hpa", "svc", "ingress", "httproute",
          "cors", "authMdw", "authSec", "secret", "localQueue"}

ASSUME SettingsAssumption == Defs \subseteq ExposeSettings
ASSUME ConfigAssumption == Configs # {} /\ Configs \subseteq ConfigType
ASSUME NoneAssumption == /\ None \notin [def : Defs, replicas : Nat]
                         /\ None \notin [def : Defs, route : {"ingress", "httproute"}]
                         /\ None \notin Defs

VARIABLES
    cfg,       \* configuration of the running process
    reg,       \* the stored service: its definition, and the route kind it was applied with
    obj,       \* the objects: the definition each was made from, replicas of the Deployment
    admitted,  \* has Kueue admitted the Workload
    todo,      \* API calls each request has still to make
    phase,     \* what each request is doing
    def,       \* definition each request carries (or, in the end, applies)
    prior,     \* definition that an update has read
    seen,      \* did upsertRoute see an Ingress
    ans,       \* answer to each request
    clean,     \* in this phase: no call of the request failed, no other request was about
    served,    \* was the stored exposure served when the update began
    overlaps,  \* requests that arrived while another was in progress
    faults, restarts

store == <<reg, obj, admitted>>
vars == <<cfg, reg, obj, admitted, todo, phase, def, prior, seen, ans, clean, served,
          overlaps, faults, restarts>>

Phases == {"idle", "create", "rollback", "update", "undo", "delete", "done"}
Trouble(n) == faults + restarts + 2 * overlaps + n <= MaxTrouble
InFlight == {r \in Reqs : phase[r] \notin {"idle", "done"}}

-----------------------------------------------------------------------------
(* What the objects say. *)

Gated == cfg.kueue /\ cfg.user

\* Mutant: the number of replicas is not set.
getDeploymentSpec_NoReplicas(d) == [def |-> d, replicas |-> None]

\* A Deployment under Kueue starts with no replicas.
getDeploymentSpec(d) == [def |-> d, replicas |-> IF Gated THEN 0 ELSE d.min]

getServiceSpec(d) == {"deploy"}
getHorizontalAutoScaleSpec(d) == {"deploy"}
getIngressSpec(d) == {"svc"} \cup (IF d.auth THEN {"secret"} ELSE {})
getHTTPRouteSpec(d) == {"svc", "cors"} \cup (IF d.auth THEN {"authMdw"} ELSE {})
getTraefikAuthMiddlewareSpec(d) == {"authSec"}

\* The objects that object k, made from definition d, refers to.
Refers(k, d) ==
    CASE k = "svc" -> getServiceSpec(d)
      [] k = "hpa" -> getHorizontalAutoScaleSpec(d)
      [] k = "ingress" -> getIngressSpec(d)
      [] k = "httproute" -> getHTTPRouteSpec(d)
      [] k = "authMdw" -> getTraefikAuthMiddlewareSpec(d)
      [] OTHER -> {}

NewObj(k, d) == IF k = "deploy" THEN getDeploymentSpec(d) ELSE [def |-> d, replicas |-> 0]

Exists(k) == obj[k] # None

-----------------------------------------------------------------------------
(* The functions of expose.go, as the API calls they make.                 *)
(*   create k    error if it is there       update k    error if it is not *)
(*   get k       error if it is not there   delete k    error if it is not *)
(*   drop k      a missing object is fine   try...      errors are ignored *)
(*   deleteIf k, dropIf k   look first, delete what was seen               *)
(*   upsert k    look first, then update or create                         *)

Call(o, k) == [op |-> o, kind |-> k]
Calls == [op : {"create", "update", "get", "delete", "drop", "deleteIf", "dropIf", "upsert",
                "tryCreate", "tryDelete", "publish", "ingressSeen", "routeSeen",
                "check", "scale", "pods", "fail"},
          kind : Kinds \cup {"none"}]

validateHTTPRouteConfig == IF cfg.gateway THEN <<>> ELSE <<Call("fail", "none")>>

createIngress(d) ==
    <<Call("create", "ingress")>> \o (IF d.auth THEN <<Call("create", "secret")>> ELSE <<>>)

updateIngress(d) ==
    <<Call("update", "ingress"), Call(IF d.auth THEN "upsert" ELSE "deleteIf", "secret")>>

createHTTPRoute(d) ==
    validateHTTPRouteConfig \o <<Call("create", "cors")>>
    \o (IF d.auth THEN <<Call("create", "authSec"), Call("create", "authMdw")>> ELSE <<>>)
    \o <<Call("create", "httproute")>>

updateHTTPRoute(d) ==
    validateHTTPRouteConfig \o <<Call("upsert", "cors")>>
    \o (IF d.auth THEN <<Call("upsert", "authSec"), Call("upsert", "authMdw")>>
                  ELSE <<Call("deleteIf", "authMdw"), Call("deleteIf", "authSec")>>)
    \o <<Call("update", "httproute")>>

createRoute(d) == IF cfg.route = "httproute" THEN createHTTPRoute(d) ELSE createIngress(d)

\* Mutant: the route of the other kind is left alone.
upsertRoute_OtherKindKept(d, ing, route) ==
    IF cfg.route = "httproute"
    THEN <<Call("deleteIf", "secret")>>
         \o (IF route THEN updateHTTPRoute(d) ELSE createHTTPRoute(d))
    ELSE <<Call("deleteIf", "cors")>> \o (IF ing THEN updateIngress(d) ELSE createIngress(d))

\* What upsertRoute does when it has seen an Ingress (ing), an HTTPRoute (route).
upsertRoute(d, ing, route) ==
    IF cfg.route = "httproute"
    THEN (IF ing THEN <<Call("delete", "ingress")>> ELSE <<>>) \o <<Call("deleteIf", "secret")>>
         \o (IF route THEN updateHTTPRoute(d) ELSE createHTTPRoute(d))
    ELSE (IF route THEN <<Call("delete", "httproute")>> ELSE <<>>) \o <<Call("deleteIf", "cors")>>
         \o (IF ing THEN updateIngress(d) ELSE createIngress(d))

\* Mutant: only the objects of the configured route kind are deleted.
deleteRouteResources_OwnKind ==
    IF cfg.route = "httproute"
    THEN <<Call("deleteIf", "httproute"), Call("deleteIf", "cors"), Call("deleteIf", "authMdw"),
           Call("deleteIf", "authSec")>>
    ELSE <<Call("deleteIf", "ingress"), Call("dropIf", "secret")>>

deleteRouteResources ==
    <<Call("deleteIf", "ingress"), Call("deleteIf", "httproute"), Call("deleteIf", "cors"),
      Call("deleteIf", "authMdw"), Call("deleteIf", "authSec"), Call("dropIf", "secret")>>

createDeployment(d) ==
    <<Call("tryCreate", "workload"), Call("create", "deploy"), Call("create", "hpa")>>
    \o (IF cfg.kueue THEN <<Call("check", "none")>> ELSE <<>>)

updateDeployment(d) ==
    <<Call("get", "deploy"), Call("update", "deploy"), Call("get", "hpa"), Call("update", "hpa")>>

deleteDeployment == <<Call("drop", "hpa"), Call("drop", "deploy")>>

CreateExpose(d) ==
    createDeployment(d) \o <<Call("create", "svc")>>
    \o (IF d.nodePort THEN <<>> ELSE createRoute(d))

UpdateWorkload == <<Call("tryDelete", "workload"), Call("tryCreate", "workload")>>

UpdateExpose(d) ==
    updateDeployment(d) \o <<Call("update", "svc")>>
    \o (IF d.nodePort THEN deleteRouteResources
                      ELSE <<Call("ingressSeen", "none"), Call("routeSeen", "none")>>)
    \o UpdateWorkload \o (IF cfg.kueue THEN <<Call("check", "none")>> ELSE <<>>)

DeleteExpose ==
    deleteDeployment \o <<Call("drop", "svc")>> \o deleteRouteResources
    \o <<Call("pods", "none"), Call("tryDelete", "workload")>>

\* What the backends' UpdateService and DeleteService do for a definition that may
\* or may not be exposed.
UpdateOf(d) == IF d.exposed THEN UpdateExpose(d) ELSE <<>>
DeleteOf(d) == IF d.exposed THEN DeleteExpose ELSE <<>>

\* Mutant: only the registry is restored.
UndoUpdate_RegistryOnly(d) == <<>>

\* A failed update is undone by an update to the old definition.
UndoUpdate(d) == UpdateOf(d)

-----------------------------------------------------------------------------
(* The exposure that a definition asks for. *)

Route(r) == IF r = "httproute" THEN "httproute" ELSE "ingress"

\* The objects that a definition needs to be served by the given kind of route.
Needed(d, route) ==
    {"deploy", "hpa", "svc"} \cup (IF d.nodePort THEN {} ELSE {Route(route)})

\* They are there, made from it and with its replicas, and so is all they refer to.
ServedAs(d, route) ==
    /\ \A k \in Needed(d, route) :
          /\ Exists(k) /\ obj[k].def = d
          /\ \A j \in Refers(k, d) : Exists(j) /\ \A i \in Refers(j, d) : Exists(i)
    /\ obj["deploy"].replicas = d.min

\* There is no other way in.
OnlyRoute(d, route) == \A k \in {"ingress", "httproute"} \ Needed(d, route) : ~Exists(k)

Init ==
    /\ cfg \in Configs
    /\ reg = None
    /\ obj = [k \in Kinds |-> None]
    /\ admitted = FALSE
    /\ todo = [r \in Reqs |-> <<>>]
    /\ phase = [r \in Reqs |-> "idle"]
    /\ def = [r \in Reqs |-> None]
    /\ prior = [r \in Reqs |-> None]
    /\ seen = [r \in Reqs |-> FALSE]
    /\ ans = [r \in Reqs |-> "none"]
    /\ clean = [r \in Reqs |-> FALSE]
    /\ served = [r \in Reqs |-> FALSE]
    /\ overlaps = 0
    /\ faults = 0
    /\ restarts = 0

\* Request r begins phase p with the calls s.
Begin(r, p, s) ==
    /\ phase' = [phase EXCEPT ![r] = p]
    /\ todo' = [todo EXCEPT ![r] = s]

Arrive(r) ==
    /\ phase[r] = "idle"
    /\ clean' = [q \in Reqs |-> IF q = r THEN InFlight = {} ELSE clean[q] /\ q \notin InFlight]
    /\ \/ InFlight = {} /\ UNCHANGED overlaps
       \/ InFlight # {} /\ Trouble(2) /\ overlaps' = overlaps + 1
    /\ UNCHANGED <<cfg, obj, admitted, seen, ans, faults, restarts>>

\* EnsureKueueUserQueues for a user, then the service is stored (or its name is taken).
StartCreate(r) ==
    \E d \in Defs :
        /\ Arrive(r)
        /\ def' = [def EXCEPT ![r] = d]
        /\ Begin(r, "create",
                 (IF Gated THEN <<Call("tryCreate", "localQueue")>> ELSE <<>>)
                 \o <<Call("publish", "none")>> \o (IF d.exposed THEN CreateExpose(d) ELSE <<>>))
        /\ UNCHANGED <<reg, prior, served>>

\* The stored definition is read and replaced, then the exposure is updated.
StartUpdate(r) ==
    \E d \in Defs :
        /\ reg # None
        /\ Arrive(r)
        /\ def' = [def EXCEPT ![r] = d]
        /\ prior' = [prior EXCEPT ![r] = reg.def]
        /\ served' = [served EXCEPT ![r] = reg.def.exposed /\ ServedAs(reg.def, reg.route)]
        /\ reg' = [def |-> d, route |-> cfg.route]
        /\ Begin(r, "update", UpdateOf(d))

\* The stored definition is read and deleted, then its exposure; the LocalQueue last.
StartDelete(r) ==
    /\ reg # None
    /\ Arrive(r)
    /\ def' = [def EXCEPT ![r] = reg.def]
    /\ reg' = None
    /\ Begin(r, "delete", DeleteOf(reg.def)
                          \o (IF cfg.kueue THEN <<Call("tryDelete", "localQueue")>> ELSE <<>>))
    /\ UNCHANGED <<prior, served>>

-----------------------------------------------------------------------------
(* One API call of a request. *)

Head1(r) == Head(todo[r])
K(r) == Head1(r).kind

\* Request r is at a call of kind o.
At(r, o) == todo[r] # <<>> /\ Head1(r).op = o

\* The call returned and the calls s come before the rest.
GoOn(r, s) ==
    /\ todo' = [todo EXCEPT ![r] = s \o Tail(@)]
    /\ UNCHANGED <<cfg, reg, phase, def, prior, ans, served, overlaps, restarts>>

\* A call that returns an error while the request is in phase p: a failed create is
\* rolled back by DeleteService, a failed update by UpdateService with the old
\* definition; both begin by writing the registry and stop if the service is gone.
Abort(r) ==
    LET p == phase[r]
        switch == p \in {"create", "update"} /\ reg # None
    IN  /\ \/ /\ ~switch
              /\ Begin(r, "done", <<>>)
              /\ ans' = [ans EXCEPT ![r] = "error"]
              /\ UNCHANGED <<reg, def>>
           \/ /\ switch /\ p = "create"
              /\ reg' = None
              /\ Begin(r, "rollback", DeleteOf(def[r]))
              /\ UNCHANGED <<ans, def>>
           \/ /\ switch /\ p = "update"
              /\ reg' = [def |-> prior[r], route |-> cfg.route]
              /\ def' = [def EXCEPT ![r] = prior[r]]
              /\ Begin(r, "undo", UndoUpdate(prior[r]))
              /\ UNCHANGED ans
        /\ UNCHANGED <<cfg, prior, served, overlaps, restarts>>

\* clean starts afresh when a failed request begins to undo its work.
Fresh(r) == clean' = [clean EXCEPT ![r] = InFlight = {r}]
Kept == UNCHANGED <<clean, faults>>
Fault(r) == /\ faults < MaxFaults /\ Trouble(1)
            /\ faults' = faults + 1
            /\ clean' = [clean EXCEPT ![r] = FALSE]

\* The call fails and its error is returned.
CallFails(r) ==
    /\ faults < MaxFaults /\ Trouble(1)
    /\ faults' = faults + 1
    /\ Abort(r)
    /\ Fresh(r)
    /\ UNCHANGED <<obj, admitted, seen>>

Refused(r) == Abort(r) /\ Fresh(r) /\ UNCHANGED <<obj, admitted, seen, faults>>

Put(k, o) == /\ obj' = [obj EXCEPT ![k] = o]
             /\ admitted' = (admitted /\ k # "workload")
             /\ UNCHANGED seen
Look == UNCHANGED <<obj, admitted, seen>>

Create(r) ==
    /\ At(r, "create")
    /\ \/ ~Exists(K(r)) /\ Put(K(r), NewObj(K(r), def[r])) /\ GoOn(r, <<>>) /\ Kept
       \/ Exists(K(r)) /\ Refused(r)
       \/ CallFails(r)

\* Mutant: the Deployment keeps its replicas when it is updated.
Update_KeepsReplicas(r) ==
    /\ At(r, "update")
    /\ \/ /\ Exists(K(r))
          /\ Put(K(r), [def |-> def[r], replicas |-> obj[K(r)].replicas])
          /\ GoOn(r, <<>>) /\ Kept
       \/ ~Exists(K(r)) /\ Refused(r)
       \/ CallFails(r)

Update(r) ==
    /\ At(r, "update")
    /\ \/ Exists(K(r)) /\ Put(K(r), NewObj(K(r), def[r])) /\ GoOn(r, <<>>) /\ Kept
       \/ ~Exists(K(r)) /\ Refused(r)
       \/ CallFails(r)

Get(r) ==
    /\ At(r, "get")
    /\ \/ Exists(K(r)) /\ Look /\ GoOn(r, <<>>) /\ Kept
       \/ ~Exists(K(r)) /\ Refused(r)
       \/ CallFails(r)

\* Deletes that follow a look: what is gone meanwhile is an error.
Delete(r) ==
    /\ At(r, "delete")
    /\ \/ Exists(K(r)) /\ Put(K(r), None) /\ GoOn(r, <<>>) /\ Kept
       \/ ~Exists(K(r)) /\ Refused(r)
       \/ CallFails(r)

\* Deletes whose "not found" is ignored, and the pods' DeleteCollection.
Drop(r) ==
    /\ At(r, "drop")
    /\ \/ Put(K(r), None) /\ GoOn(r, <<>>) /\ Kept
       \/ CallFails(r)

DeletePods(r) ==
    /\ At(r, "pods")
    /\ \/ Look /\ GoOn(r, <<>>) /\ Kept
       \/ CallFails(r)

\* exists*: an error of the call counts as "not there".
DeleteIf(r) ==
    /\ At(r, "deleteIf") \/ At(r, "dropIf")
    /\ Look
    /\ \/ /\ Exists(K(r)) /\ Kept
          /\ GoOn(r, <<Call(IF At(r, "deleteIf") THEN "delete" ELSE "drop", K(r))>>)
       \/ ~Exists(K(r)) /\ GoOn(r, <<>>) /\ Kept
       \/ Exists(K(r)) /\ Fault(r) /\ GoOn(r, <<>>)

Upsert(r) ==
    /\ At(r, "upsert")
    /\ Look
    /\ \/ Exists(K(r)) /\ GoOn(r, <<Call("update", K(r))>>) /\ Kept
       \/ ~Exists(K(r)) /\ GoOn(r, <<Call("create", K(r))>>) /\ Kept
       \/ Exists(K(r)) /\ Fault(r) /\ GoOn(r, <<Call("create", K(r))>>)

\* upsertRoute looks for both kinds of route before it changes anything.
SeeIngress(r) ==
    /\ At(r, "ingressSeen")
    /\ GoOn(r, <<>>)
    /\ \/ seen' = [seen EXCEPT ![r] = Exists("ingress")] /\ Kept
       \/ seen' = [seen EXCEPT ![r] = FALSE] /\ Exists("ingress") /\ Fault(r)
    /\ UNCHANGED <<obj, admitted>>

SeeRoute(r) ==
    /\ At(r, "routeSeen")
    /\ Look
    /\ \/ GoOn(r, upsertRoute(def[r], seen[r], Exists("httproute"))) /\ Kept
       \/ Exists("httproute") /\ Fault(r) /\ GoOn(r, upsertRoute(def[r], seen[r], FALSE))

\* Calls whose errors are logged and forgotten: Workloads and queues.  There is a
\* Workload API only where Kueue is in use.
TryCreate(r) ==
    /\ At(r, "tryCreate")
    /\ GoOn(r, <<>>)
    /\ \/ cfg.kueue /\ ~Exists(K(r)) /\ Put(K(r), NewObj(K(r), def[r])) /\ Kept
       \/ (~cfg.kueue \/ Exists(K(r))) /\ Look /\ Kept
       \/ cfg.kueue /\ Fault(r) /\ Look

TryDelete(r) ==
    /\ At(r, "tryDelete")
    /\ GoOn(r, <<>>)
    /\ \/ Put(K(r), None) /\ Kept
       \/ cfg.kueue /\ Fault(r) /\ Look

\* The service is stored; a name that is taken ends the request with a conflict.
Publish(r) ==
    /\ At(r, "publish")
    /\ \/ /\ reg = None
          /\ reg' = [def |-> def[r], route |-> cfg.route]
          /\ todo' = [todo EXCEPT ![r] = Tail(@)]
          /\ UNCHANGED <<phase, ans>>
       \/ /\ reg # None
          /\ Begin(r, "done", <<>>)
          /\ ans' = [ans EXCEPT ![r] = "error"]
          /\ UNCHANGED reg
    /\ UNCHANGED <<cfg, obj, admitted, def, prior, seen, clean, served, overlaps, faults, restarts>>

\* Mutant: a Workload that is there counts as admitted.
CheckWorkloadAdmited_Exists(r) ==
    /\ At(r, "check")
    /\ Look
    /\ \/ Exists("workload") /\ GoOn(r, <<Call("scale", "none")>>) /\ Kept
       \/ ~Exists("workload") /\ GoOn(r, <<Call("fail", "none")>>) /\ Kept

\* CheckWorkloadAdmited looks once, right after the Workload was created.  A create
\* that is not admitted deletes the LocalQueue before it returns the error.
CheckWorkloadAdmited(r) ==
    LET queue == IF phase[r] = "create" THEN <<Call("tryDelete", "localQueue")>> ELSE <<>>
        no == queue \o <<Call("fail", "none")>>
    IN  /\ At(r, "check")
        /\ Look
        /\ \/ /\ Exists("workload") /\ admitted
              /\ GoOn(r, <<Call("scale", "none")>>) /\ Kept
           \/ /\ Exists("workload") /\ ~admitted
              /\ GoOn(r, <<Call("tryDelete", "workload")>> \o no) /\ Kept
           \/ ~Exists("workload") /\ GoOn(r, no) /\ Kept
           \/ Exists("workload") /\ Fault(r) /\ GoOn(r, no)

\* The Deployment of an admitted Workload gets its replicas; an error is logged.
ScaleUp(r) ==
    /\ At(r, "scale")
    /\ GoOn(r, <<>>)
    /\ \/ /\ Exists("deploy") /\ Kept
          /\ Put("deploy", [def |-> def[r], replicas |-> def[r].min])
       \/ ~Exists("deploy") /\ Look /\ Kept
       \/ Fault(r) /\ Look

\* A function returns an error without a call: no gateway, or not admitted.
ReturnError(r) == At(r, "fail") /\ Refused(r)

\* Nothing is left to do: the handler answers.
Return(r) ==
    /\ phase[r] \notin {"idle", "done"}
    /\ todo[r] = <<>>
    /\ phase' = [phase EXCEPT ![r] = "done"]
    /\ ans' = [ans EXCEPT ![r] = IF phase[r] \in {"rollback", "undo"} THEN "error" ELSE "ok"]
    /\ UNCHANGED <<cfg, store, todo, def, prior, seen, clean, served, overlaps, faults, restarts>>

-----------------------------------------------------------------------------
(* The environment. *)

\* Kueue admits a Workload of a queue that exists, sooner, later or never.
Admit ==
    /\ Exists("workload") /\ Exists("localQueue") /\ ~admitted
    /\ admitted' = TRUE
    /\ UNCHANGED <<cfg, reg, obj, todo, phase, def, prior, seen, ans, clean, served, overlaps,
                   faults, restarts>>

\* OSCAR is restarted, maybe with another route kind: requests in progress are lost.
Restart ==
    /\ restarts < MaxRestarts /\ Trouble(1)
    /\ restarts' = restarts + 1
    /\ \E c \in Configs : c.kueue = cfg.kueue /\ c.user = cfg.user /\ cfg' = c
    /\ phase' = [r \in Reqs |-> IF r \in InFlight THEN "done" ELSE phase[r]]
    /\ todo' = [r \in Reqs |-> <<>>]
    /\ ans' = [r \in Reqs |-> IF r \in InFlight THEN "lost" ELSE ans[r]]
    /\ UNCHANGED <<store, def, prior, seen, clean, served, overlaps, faults>>

Step(r) ==
    \/ Create(r) \/ Update(r) \/ Get(r) \/ Delete(r) \/ Drop(r) \/ DeletePods(r)
    \/ DeleteIf(r) \/ Upsert(r) \/ SeeIngress(r) \/ SeeRoute(r)
    \/ TryCreate(r) \/ TryDelete(r) \/ Publish(r)
    \/ CheckWorkloadAdmited(r) \/ ScaleUp(r) \/ ReturnError(r) \/ Return(r)

AllServed == (\A r \in Reqs : phase[r] = "done") /\ UNCHANGED vars

Next ==
    \/ \E r \in Reqs : StartCreate(r) \/ StartUpdate(r) \/ StartDelete(r) \/ Step(r)
    \/ Admit \/ Restart \/ AllServed

Spec == Init /\ [][Next]_vars

-----------------------------------------------------------------------------

\* Every variable has its type.
TypeOK ==
    /\ cfg \in Configs
    /\ reg \in [def : Defs, route : {"ingress", "httproute"}] \cup {None}
    /\ obj \in [Kinds -> [def : Defs, replicas : Nat] \cup {None}]
    /\ admitted \in BOOLEAN
    /\ todo \in [Reqs -> Seq(Calls)]
    /\ phase \in [Reqs -> Phases]
    /\ def \in [Reqs -> Defs \cup {None}] /\ prior \in [Reqs -> Defs \cup {None}]
    /\ seen \in [Reqs -> BOOLEAN] /\ clean \in [Reqs -> BOOLEAN] /\ served \in [Reqs -> BOOLEAN]
    /\ ans \in [Reqs -> {"none", "ok", "error", "lost"}]
    /\ faults \in Nat /\ restarts \in Nat /\ overlaps \in Nat

\* Request r comes to its end in phase p, and in that phase no call of it failed and
\* no other request was in progress.
Completes(r, p) == phase[r] = p /\ phase'[r] = "done" /\ todo[r] = <<>> /\ clean[r]

\* DeleteExpose, called by a delete or to undo a failed create, leaves none of the
\* service's objects (the LocalQueue apart, when a create is undone), whatever lost
\* or half-done creates and updates and changes of the route kind came before.
RemovedIsGone ==
    [][\A r \in Reqs :
        /\ Completes(r, "rollback") /\ def[r].exposed => \A k \in Kinds \ {"localQueue"} : ~Exists(k)
        /\ Completes(r, "delete") /\ def[r].exposed => \A k \in Kinds : ~Exists(k)]_vars

\* A create or update that is answered "ok" leaves the exposure that its definition
\* asks for: the objects it needs, the objects those refer to and the replicas,
\* whatever came before it; an update leaves no other route.
AcceptedIsServed ==
    [][\A r \in Reqs :
        (Completes(r, "create") \/ Completes(r, "update")) /\ def[r].exposed =>
            /\ ServedAs(def[r], cfg.route)
            /\ phase[r] = "update" => OnlyRoute(def[r], cfg.route)]_vars

\* An update that fails half-way, and whose undoing makes all its calls, leaves the
\* service exposed as before and by no other route, however far the update had come.
UndoRestores ==
    [][\A r \in Reqs : Completes(r, "undo") /\ served[r] =>
            ServedAs(prior[r], cfg.route) /\ OnlyRoute(prior[r], cfg.route)]_vars

\* Under Kueue a user's pods run only while a Workload for them is admitted, and it
\* asks for what they use (until a call fails or a restart loses a request and leaves
\* an old Workload behind): updates scale to zero first.
RunsOnlyIfAdmitted ==
    Gated /\ overlaps = 0 /\ Exists("deploy") /\ obj["deploy"].replicas > 0 =>
        /\ Exists("workload") /\ admitted
        /\ faults + restarts = 0 => obj["workload"].def = obj["deploy"].def

=============================================================================
