------------------------------- MODULE Delegation -------------------------------
(***************************************************************************)
(* What happens to the events of a service that has replicas in other      *)
(* clusters: the job handler delegates an event when the resource manager  *)
(* says that the cluster is full, and makes a local job when nobody takes  *)
(* it; the rescheduler delegates the jobs that stay pending too long, and  *)
(* deletes them.  Both run DelegateJob, every HTTP request of which is one *)
(* step.  Requests may fail before or after the replica accepted, tokens   *)
(* of replicas change, and the OSCAR process may stop at any point.        *)
(***************************************************************************)
EXTENDS Integers, FiniteSets

CONSTANTS
    Events,        \* invocations (POST /job/<service>), one handler each
    Texts,         \* the events that are not JSON objects
    Malformed,     \* JSON objects whose storage_provider, or then event, is no string
    ReScheduler,   \* the rescheduler's goroutine
    None,
    N,             \* number of replicas, in the order of the definition
    Services,      \* definitions that the service may have
    Levels,        \* bound: priorities that rand.Intn(101) is taken to draw
    FreeCPU,       \* bound: values of cpuFreeTotal that clusters report
    MaxTokens,     \* tokens that tokenCache holds before it is cleared (500)
    MaxFaults,     \* bound: requests that fail, or whose answer is lost
    MaxRotations,  \* bound: changes of the token of a replica's service
    MaxCrashes     \* bound: stops of the OSCAR process

Replicas == 1..N
Actors == Events \cup {ReScheduler}
noDelegateCode == 101

\* The delegation mode; of each replica its type, whether its cluster is among the
\* definition's clusters, whether that cluster always has a node with room for the
\* service, and its priority; whether the service's CPU is a plain number ("0.5", not
\* "500m"), and whether the service is in the namespace that all services share.
ServiceType == [delegation : {"", "static", "random", "load-based", "topsis"},
                kind : [Replicas -> {"oscar", "endpoint"}],
                defined : SUBSET Replicas,
                roomy : SUBSET Replicas,
                priority : [Replicas -> Nat],
                numeric : BOOLEAN,
                shared : BOOLEAN]

ASSUME ReplicasAssumption ==
    /\ N \in Nat \ {0}
    /\ Services \subseteq ServiceType
ASSUME ValuesAssumption == Levels \subseteq 0..100 /\ FreeCPU \subseteq Int
ASSUME ActorsAssumption == ReScheduler \notin Events /\ None \notin Events /\ None \notin Nat
ASSUME EventsAssumption == Texts \subseteq Events /\ Malformed \subseteq Events

VARIABLES
    service,   \* definition of the service
    pc,        \* next step of each actor
    job,       \* local job of each event
    copies,    \* how often a replica accepted each event, and (None) an empty one
    resp,      \* answer to each invocation
    view,      \* does the job fit, by the resources the manager last saw
    token,     \* current token of the service at each replica
    cache,     \* tokenCache
    tok,       \* token that the running DelegateJob got for the replica
    prio,      \* priorities that it computed
    left,      \* replicas that it has not finished with
    todo,      \* jobs that the rescheduler listed
    target,    \* job that it is delegating
    faults, rotations, crashes

cluster == <<job, copies, token>>
delegation == <<cache, tok, prio, left>>
rescheduler == <<todo, target>>
bounds == <<faults, rotations, crashes>>
vars == <<service, pc, job, copies, resp, view, token, cache, tok, prio, left,
          todo, target, faults, rotations, crashes>>

Zero == [i \in Replicas |-> 0]

Init ==
    /\ service \in Services
    /\ pc = [a \in Actors |-> "idle"]
    /\ job = [e \in Events |-> "none"]
    /\ copies = [e \in Events \cup {None} |-> 0]
    /\ resp = [e \in Events |-> "none"]
    /\ view = FALSE
    /\ token = Zero
    /\ cache = [i \in Replicas |-> None]
    /\ tok = [a \in Actors |-> None]
    /\ prio = [a \in Actors |-> Zero]
    /\ left = [a \in Actors |-> {}]
    /\ todo = {}
    /\ target = None
    /\ faults = 0 /\ rotations = 0 /\ crashes = 0

Goto(a, l) == pc' = [pc EXCEPT ![a] = l]
Fault == /\ faults < MaxFaults
         /\ faults' = faults + 1
         /\ UNCHANGED <<rotations, crashes>>
Answer(e, r) == Goto(e, "done") /\ resp' = [resp EXCEPT ![e] = r]

\* The local variables of DelegateJob are gone when it returns.
Forget(a) ==
    /\ tok' = [tok EXCEPT ![a] = None]
    /\ prio' = [prio EXCEPT ![a] = Zero]
    /\ left' = [left EXCEPT ![a] = {}]

\* The event that actor a is delegating.
EventOf(a) == IF a = ReScheduler THEN target ELSE a

\* eventBuild: an event is wrapped, and one that is not a JSON object is lost: the body
\* of the request is empty.
EventBuild(e) == IF e \in Texts THEN None ELSE e
Accept(e) == copies' = [copies EXCEPT ![e] = @ + 1]

-----------------------------------------------------------------------------
(* A panic in a handler is recovered by gin, which answers 500; in the      *)
(* rescheduler's goroutine it ends the process.                            *)

\* The process is started again: only what Kubernetes keeps is left, and no
\* resources are known until the resource manager has looked.
Restart ==
    /\ pc' = [a \in Actors |-> IF a = ReScheduler \/ pc[a] = "idle" THEN "idle" ELSE "done"]
    /\ view' = FALSE
    /\ cache' = [i \in Replicas |-> None]
    /\ tok' = [a \in Actors |-> None]
    /\ prio' = [a \in Actors |-> Zero]
    /\ left' = [a \in Actors |-> {}]
    /\ todo' = {} /\ target' = None
    /\ UNCHANGED resp

Panics(a) ==
    \/ a # ReScheduler /\ Answer(a, "error") /\ Forget(a) /\ UNCHANGED <<view, cache, rescheduler>>
    \/ a = ReScheduler /\ Restart

Crash ==
    /\ crashes < MaxCrashes
    /\ crashes' = crashes + 1
    /\ Restart
    /\ UNCHANGED <<service, cluster, faults, rotations>>

-----------------------------------------------------------------------------
(* DelegateJob: the priorities. *)

\* Mutant: no limits; a negative value becomes a large unsigned one.
MapToRange_NoLimits(value, minInput, maxInput, maxOutput, minOutput) ==
    (maxOutput - ((maxOutput - minOutput) * (value - minInput)) \div (maxInput - minInput)) % 2^16

MapToRange(value, minInput, maxInput, maxOutput, minOutput) ==
    LET mapped == maxOutput - ((maxOutput - minOutput) * (value - minInput)) \div (maxInput - minInput)
    IN  IF mapped > maxOutput THEN maxOutput ELSE IF mapped < minOutput THEN minOutput ELSE mapped

\* The priorities of a cluster that has room.
Offers ==
    CASE service.delegation = "random" -> Levels
      [] service.delegation = "load-based" -> {MapToRange(c, 0, 32000, 100, 0) : c \in FreeCPU}
      [] OTHER -> {noDelegateCode}

\* What getClusterStatus may give replica i, depending on whether its cluster answered.
\* A CPU that strconv.ParseFloat does not read rules every cluster out, and so does a
\* cluster's answer that no node has room.
Priorities(i, answered) ==
    IF service.kind[i] = "endpoint" \/ service.delegation = "static" THEN {service.priority[i]}
    ELSE IF ~answered \/ i \notin service.defined \/ ~service.numeric THEN {noDelegateCode}
    ELSE Offers \cup (IF i \in service.roomy THEN {} ELSE {noDelegateCode})

PriorityValues ==
    Levels \cup {noDelegateCode} \cup {service.priority[i] : i \in Replicas}
           \cup {MapToRange(c, 0, 32000, 100, 0) : c \in FreeCPU}

Asked == {i \in service.defined : service.kind[i] = "oscar"}

\* One GET /system/status per OSCAR replica.  They change nothing that another
\* actor sees, so they are one step; `refused` are the requests that fail.
GetClusterStatus(a) ==
    /\ pc[a] = "status" /\ service.delegation # "topsis" /\ EventOf(a) \notin Malformed
    /\ \E refused \in SUBSET Asked, p \in [Replicas -> PriorityValues] :
          /\ faults + Cardinality(refused) <= MaxFaults
          /\ faults' = faults + Cardinality(refused)
          /\ \A i \in Replicas : p[i] \in Priorities(i, i \notin refused)
          /\ prio' = [prio EXCEPT ![a] = p]
    /\ left' = [left EXCEPT ![a] = Replicas]
    /\ Goto(a, "try")
    /\ UNCHANGED <<service, cluster, resp, view, cache, tok, rescheduler, rotations, crashes>>

\* A cluster that cannot be reached: the status of the answer is read before the
\* error is looked at.
StatusUnreachable(a) ==
    /\ pc[a] = "status" /\ service.delegation # "topsis" /\ Asked # {}
    /\ Fault
    /\ Panics(a)
    /\ UNCHANGED <<service, cluster>>

\* eventBuild, which comes next, takes the event's fields for strings.
EventPanics(a) ==
    /\ pc[a] = "status" /\ service.delegation # "topsis" /\ EventOf(a) \in Malformed
    /\ Panics(a)
    /\ UNCHANGED <<service, cluster, bounds>>

\* tokenCache is cleared when it is too large.
Cleared ==
    IF Cardinality({i \in Replicas : cache[i] # None}) > MaxTokens
    THEN [i \in Replicas |-> None] ELSE cache

\* Mutant: a token is kept only for a replica that has none.
UpdateServiceToken_KeepsOld(i) ==
    /\ cache' = [Cleared EXCEPT ![i] = IF @ = None THEN token[i] ELSE @]
    /\ UNCHANGED bounds

\* updateServiceToken asks the replica's cluster for the service's definition.
UpdateServiceToken(i) == cache' = [Cleared EXCEPT ![i] = token[i]] /\ UNCHANGED bounds

UpdateFails == Fault /\ cache' = Cleared

\* "topsis" ranks all replicas: it gets their tokens, jobs and status ...
StartTopsis(a) ==
    /\ pc[a] = "status" /\ service.delegation = "topsis"
    /\ left' = [left EXCEPT ![a] = Replicas]
    /\ Goto(a, "rank")
    /\ UNCHANGED <<service, cluster, resp, view, cache, tok, prio, rescheduler, bounds>>

TopsisReplica(a) ==
    /\ pc[a] = "rank"
    /\ \E i \in left[a] :
          /\ \A j \in left[a] : i <= j
          /\ left' = [left EXCEPT ![a] = @ \ {i}]
          /\ \/ /\ i \notin service.defined \/ cache[i] # None
                /\ UNCHANGED <<cache, bounds>>
             \/ /\ i \in service.defined /\ cache[i] = None
                /\ UpdateServiceToken(i) \/ UpdateFails
    /\ UNCHANGED <<service, pc, cluster, resp, view, tok, prio, rescheduler>>

\* ... and stores the priorities at the alternatives' numbers, which start at 1:
\* the last one is out of the range of the slice.
TopsisPriorities(a) ==
    /\ pc[a] = "rank" /\ left[a] = {}
    /\ Panics(a)
    /\ UNCHANGED <<service, cluster, bounds>>

-----------------------------------------------------------------------------
(* DelegateJob: the replicas, in the order of sort.Stable by priority. *)

Turn(a, i) ==
    /\ i \in left[a]
    /\ \A j \in left[a] :
          prio[a][i] < prio[a][j] \/ (prio[a][i] = prio[a][j] /\ i <= j)

\* Mutant: the same replica again.
NextReplica_Same(a, i) ==
    /\ Goto(a, "try")
    /\ tok' = [tok EXCEPT ![a] = None]
    /\ UNCHANGED left

\* `continue`: the next replica.
NextReplica(a, i) ==
    /\ Goto(a, "try")
    /\ left' = [left EXCEPT ![a] = @ \ {i}]
    /\ tok' = [tok EXCEPT ![a] = None]

\* Does the loop send anything to replica i.
Eligible(a, i) == service.kind[i] = "oscar" => prio[a][i] < noDelegateCode /\ i \in service.defined

SkipReplica(a) ==
    /\ pc[a] = "try"
    /\ \E i \in left[a] : Turn(a, i) /\ ~Eligible(a, i) /\ NextReplica(a, i)
    /\ UNCHANGED <<service, cluster, resp, view, cache, prio, rescheduler, bounds>>

\* getServiceToken; endpoints get none.
GetServiceToken(a) ==
    /\ pc[a] = "try"
    /\ \E i \in left[a] :
          /\ Turn(a, i) /\ Eligible(a, i)
          /\ \/ /\ service.kind[i] = "endpoint" \/ cache[i] # None
                /\ tok' = [tok EXCEPT ![a] = IF service.kind[i] = "oscar" THEN cache[i] ELSE None]
                /\ Goto(a, "post")
                /\ UNCHANGED <<cache, left, bounds>>
             \/ /\ service.kind[i] = "oscar" /\ cache[i] = None
                /\ UpdateServiceToken(i)
                /\ tok' = [tok EXCEPT ![a] = token[i]]
                /\ Goto(a, "post")
                /\ UNCHANGED left
             \/ /\ service.kind[i] = "oscar" /\ cache[i] = None
                /\ UpdateFails
                /\ NextReplica(a, i)
    /\ UNCHANGED <<service, cluster, resp, view, prio, rescheduler>>

\* Mutant: the handler does not return after the delegation.
Succeeds_NoReturn(a) ==
    /\ Goto(a, IF a = ReScheduler THEN "delete" ELSE "create")
    /\ UNCHANGED resp

Succeeds(a) ==
    \/ a # ReScheduler /\ Answer(a, "ok")
    \/ a = ReScheduler /\ Goto(a, "delete") /\ UNCHANGED resp

Authorized(a, i) == service.kind[i] = "oscar" => tok[a] = token[i]

\* The event is posted: accepted, refused for its token, or not delivered (or
\* refused, or the answer comes too late: then the replica may have it).
PostEvent(a) ==
    /\ pc[a] = "post"
    /\ \E i \in left[a] :
          /\ Turn(a, i)
          /\ \/ /\ Authorized(a, i)
                /\ Accept(EventBuild(EventOf(a))) /\ Succeeds(a) /\ Forget(a)
                /\ UNCHANGED bounds
             \/ /\ ~Authorized(a, i)
                /\ Goto(a, "retry")
                /\ UNCHANGED <<copies, resp, tok, prio, left, bounds>>
             \/ /\ Fault
                /\ NextReplica(a, i)
                /\ UNCHANGED copies \/ (Authorized(a, i) /\ Accept(EventBuild(EventOf(a))))
                /\ UNCHANGED <<resp, prio>>
    /\ UNCHANGED <<service, job, token, view, cache, rescheduler>>

\* Mutant: the new token takes the place of the old one, so that the replica accepts
\* the event, but the answer is still not looked at.
RetryWithToken_Accepted(a) ==
    /\ pc[a] = "retry"
    /\ \E i \in left[a] :
          Turn(a, i) /\ NextReplica(a, i) /\ UpdateServiceToken(i) /\ Accept(EventBuild(EventOf(a)))
    /\ UNCHANGED <<service, job, token, resp, view, prio, rescheduler>>

\* The token is updated and the request sent again.  The new token is added as a
\* second Authorization header, the replica reads the first one and refuses again;
\* whatever it answers, the loop goes on to the next replica.
RetryWithToken(a) ==
    /\ pc[a] = "retry"
    /\ \E i \in left[a] :
          Turn(a, i) /\ NextReplica(a, i) /\ (UpdateServiceToken(i) \/ UpdateFails)
    /\ UNCHANGED <<service, cluster, resp, view, prio, rescheduler>>

\* Mutant: no error is returned at the end of the loop.
NoReplica_ReturnsNil(a) ==
    /\ pc[a] = "try" /\ left[a] = {}
    /\ Succeeds(a)
    /\ Forget(a)
    /\ UNCHANGED <<service, cluster, view, cache, rescheduler, bounds>>

\* No replica took the event: the handler makes a job of it, the rescheduler leaves it.
NoReplica(a) ==
    /\ pc[a] = "try" /\ left[a] = {}
    /\ Goto(a, IF a = ReScheduler THEN "next" ELSE "create")
    /\ Forget(a)
    /\ UNCHANGED <<service, cluster, resp, view, cache, rescheduler, bounds>>

DelegateJob(a) ==
    \/ GetClusterStatus(a) \/ StatusUnreachable(a) \/ EventPanics(a)
    \/ StartTopsis(a) \/ TopsisReplica(a) \/ TopsisPriorities(a)
    \/ SkipReplica(a) \/ GetServiceToken(a) \/ PostEvent(a) \/ RetryWithToken(a)
    \/ NoReplica(a)

-----------------------------------------------------------------------------
(* MakeJobHandler. *)

\* IsSchedulable, by the resources that were last seen.
Invoke(e) ==
    /\ pc[e] = "idle"
    /\ Goto(e, IF view THEN "create" ELSE "status")
    /\ UNCHANGED <<service, cluster, resp, view, delegation, rescheduler, bounds>>

\* A call that fails may have been done all the same.
CreateJob(e) ==
    /\ pc[e] = "create"
    /\ \/ /\ job' = [job EXCEPT ![e] = "pending"]
          /\ Answer(e, "ok")
          /\ UNCHANGED bounds
       \/ /\ Fault
          /\ Answer(e, "error")
          /\ job' = job \/ job' = [job EXCEPT ![e] = "pending"]
    /\ UNCHANGED <<service, copies, token, view, delegation, rescheduler>>

-----------------------------------------------------------------------------
(* StartReScheduler. *)

\* Pods that have been pending longer than their threshold, in the namespace that all
\* services share: the jobs of a service in its owner's namespace are never seen.
\* After an error the loop starts over at once.
GetReSchedulablePods ==
    /\ pc[ReScheduler] = "idle"
    /\ \/ /\ todo' = {e \in Events : service.shared /\ job[e] = "late"}
          /\ Goto(ReScheduler, IF todo' = {} THEN "next" ELSE "read")
          /\ UNCHANGED bounds
       \/ /\ Fault
          /\ UNCHANGED <<pc, todo>>
    /\ UNCHANGED <<service, cluster, resp, view, delegation, target>>

\* The service is read once for all its pods.  An error is logged and leaves a nil
\* pointer, which DelegateJob follows.
GetReScheduleInfos ==
    /\ pc[ReScheduler] = "read"
    /\ \/ /\ Goto(ReScheduler, "next")
          /\ UNCHANGED <<resp, view, delegation, rescheduler, bounds>>
       \/ /\ Fault
          /\ Panics(ReScheduler)
    /\ UNCHANGED <<service, cluster>>

ReScheduleNext ==
    /\ pc[ReScheduler] = "next"
    /\ \/ /\ todo = {}
          /\ target' = None
          /\ Goto(ReScheduler, "idle")
          /\ UNCHANGED todo
       \/ \E e \in todo :
             /\ todo' = todo \ {e}
             /\ target' = e
             /\ Goto(ReScheduler, "status")
    /\ UNCHANGED <<service, cluster, resp, view, delegation, bounds>>

\* The job is deleted whatever became of it since it was listed; an error is logged,
\* and the job may be gone all the same.
DeleteJob ==
    /\ pc[ReScheduler] = "delete"
    /\ Goto(ReScheduler, "next")
    /\ \/ /\ job' = [job EXCEPT ![target] = "deleted"]
          /\ UNCHANGED bounds
       \/ /\ Fault
          /\ job' = job \/ job' = [job EXCEPT ![target] = "deleted"]
    /\ UNCHANGED <<service, copies, resp, token, view, delegation, rescheduler>>

-----------------------------------------------------------------------------
(* The resource manager's loop and the clusters. *)

\* UpdateResources: what is free on the nodes is outside the model.
UpdateResources ==
    /\ view' \in BOOLEAN
    /\ UNCHANGED <<service, pc, cluster, resp, delegation, rescheduler, bounds>>

\* A pod waits, starts, and ends.
JobMoves(e) ==
    /\ \/ job[e] = "pending" /\ job' = [job EXCEPT ![e] = "late"]
       \/ job[e] \in {"pending", "late"} /\ job' = [job EXCEPT ![e] = "running"]
       \/ job[e] = "running" /\ job' = [job EXCEPT ![e] = "finished"]
    /\ UNCHANGED <<service, pc, copies, token, resp, view, delegation, rescheduler, bounds>>

\* The service of replica i is made anew, with another token.
TokenChanges(i) ==
    /\ rotations < MaxRotations
    /\ rotations' = rotations + 1
    /\ token' = [token EXCEPT ![i] = @ + 1]
    /\ UNCHANGED <<service, pc, job, copies, resp, view, delegation, rescheduler,
                   faults, crashes>>

-----------------------------------------------------------------------------
Handler(e) == DelegateJob(e) \/ CreateJob(e)

ReSchedulerStep ==
    \/ GetReSchedulablePods \/ GetReScheduleInfos \/ ReScheduleNext \/ DeleteJob
    \/ DelegateJob(ReScheduler)

Next ==
    \/ \E e \in Events : Invoke(e) \/ Handler(e) \/ JobMoves(e)
    \/ ReSchedulerStep
    \/ UpdateResources
    \/ \E i \in Replicas : TokenChanges(i)
    \/ Crash

Spec == Init /\ [][Next]_vars

\* Handlers run to their end and the rescheduler's loop goes on; nothing is assumed
\* of the clusters.
FairSpec ==
    /\ Spec
    /\ \A e \in Events : WF_vars(Handler(e))
    /\ WF_vars(ReSchedulerStep)

-----------------------------------------------------------------------------
(* Properties. *)

Local == {"pending", "late", "running", "finished"}
HandlerLabels == {"idle", "status", "rank", "try", "post", "retry", "create", "done"}
ReSchedulerLabels == {"idle", "read", "next", "status", "rank", "try", "post", "retry", "delete"}

\* Every variable has its type.
TypeOK ==
    /\ service \in Services
    /\ pc \in [Actors -> HandlerLabels \cup ReSchedulerLabels]
    /\ job \in [Events -> Local \cup {"none", "deleted"}]
    /\ copies \in [Events \cup {None} -> Nat]
    /\ resp \in [Events -> {"none", "ok", "error"}]
    /\ view \in BOOLEAN
    /\ token \in [Replicas -> Nat]
    /\ cache \in [Replicas -> Nat \cup {None}]
    /\ tok \in [Actors -> Nat \cup {None}]
    /\ prio \in [Actors -> [Replicas -> Nat]]
    /\ left \in [Actors -> SUBSET Replicas]
    /\ todo \subseteq Events
    /\ target \in Events \cup {None}
    /\ faults \in Nat /\ rotations \in Nat /\ crashes \in Nat

\* A JSON event whose client was told "created" is never lost, whatever requests fail
\* and wherever the process stops: it is a job of this cluster or a replica accepted it.
\* (An event that is not JSON is: eventBuild posts an empty body in its place.)
AcceptedIsHeld ==
    \A e \in Events \ Texts : resp[e] = "ok" => copies[e] > 0 \/ job[e] \in Local

\* As long as no request has failed and the process has not stopped, an event is in
\* one place only: no two replicas have it, and no replica and this cluster, but
\* for the moment before the rescheduler deletes the job that it delegated.  Tokens
\* may change meanwhile.
OnePlaceOnly ==
    faults = 0 /\ crashes = 0 =>
        \A e \in Events :
            /\ copies[e] <= 1
            /\ copies[e] = 1 /\ job[e] \in Local => pc[ReScheduler] = "delete" /\ target = e

(* Where every event is: the inductive invariant behind the two. *)

Working(a) == pc[a] \in {"status", "rank", "try", "post", "retry"}
LabelsOK == /\ \A e \in Events : pc[e] \in HandlerLabels
            /\ pc[ReScheduler] \in ReSchedulerLabels

\* Until its handler ends an event is no job, and nobody was told.
NotYetHeld == \A e \in Events : pc[e] # "done" => job[e] = "none" /\ resp[e] = "none"
DeletedIsTaken == \A e \in Events \ Texts : job[e] = "deleted" => copies[e] > 0

\* The rescheduler works on jobs of this cluster, one at a time, and is about to
\* delete one only if a replica has it.
ListedIsLocal == \A e \in todo : job[e] \in Local /\ e # target
TargetIsLocal == /\ Working(ReScheduler) => target \in Events /\ job[target] \in Local
                 /\ pc[ReScheduler] \in {"idle", "read"} => target = None
DeleteIsSafe ==
    pc[ReScheduler] = "delete" =>
        target \in Events /\ job[target] \in Local /\ (target \in Texts \/ copies[target] > 0)

\* Without failures no replica has an event that is still to be delegated.
NotYetTaken ==
    faults = 0 /\ crashes = 0 =>
        \A e \in Events : pc[e] # "done" \/ e \in todo => copies[e] = 0

Custody ==
    /\ LabelsOK /\ NotYetHeld /\ DeletedIsTaken
    /\ ListedIsLocal /\ TargetIsLocal /\ DeleteIsSafe /\ NotYetTaken
    /\ AcceptedIsHeld /\ OnePlaceOnly

\* DelegateJob can send events to replica i: an endpoint always, an OSCAR service if its
\* cluster is defined and either the definition gives the priorities and its own is
\* below noDelegateCode, or its cluster has room for a service whose CPU is a plain
\* number.  Without a mode no OSCAR service gets any.
Usable(i) ==
    \/ service.kind[i] = "endpoint"
    \/ /\ i \in service.defined
       /\ \/ /\ service.delegation \in {"random", "load-based"}
             /\ service.numeric /\ i \in service.roomy
          \/ service.delegation = "static" /\ service.priority[i] < noDelegateCode

\* As long as no request fails and no token changes, DelegateJob does not give an event
\* back to the handler if the definition has a replica that can be sent events and,
\* where the mode looks at it, a cluster with room.  That clusters are full, or that
\* the CPU is written as "500m", is no failure of a request: such a service is not
\* promised anything here.
DelegationFindsReplica ==
    [][\A e \in Events :
          pc[e] = "try" /\ pc'[e] = "create" /\ (\E i \in Replicas : Usable(i))
          => faults > 0 \/ rotations > 0]_vars

(* The invariant behind it. *)

\* No token in use is stale, and none is refused.
TokensCurrent ==
    /\ \A i \in Replicas : cache[i] # None => cache[i] = token[i]
    /\ \A a \in Actors : pc[a] # "retry"
    /\ \A a \in Actors : pc[a] = "post" => \A i \in left[a] : Turn(a, i) => Authorized(a, i)

\* Whoever goes through the replicas has the usable ones still before it.
UsableLeft ==
    \A a \in Actors : pc[a] \in {"try", "post"} =>
        \A i \in Replicas : Usable(i) => i \in left[a] /\ Eligible(a, i)

Smooth == faults = 0 /\ rotations = 0 => TokensCurrent /\ UsableLeft

IInv == TypeOK /\ Custody /\ Smooth

\* Every invocation is answered (or lost with the process).
EveryInvocationAnswered == \A e \in Events : pc[e] # "idle" ~> pc[e] = "done"

\* A job of a service in the shared namespace that has been pending too long does not
\* stay so when failures and changes of tokens come to an end, if a replica can be sent
\* events: a token that was refused is replaced for the next round.  The exception are
\* the rounds in which a malformed event is late too: it ends the process each time.
LateIsDelegated ==
    service.shared /\ service.delegation # "topsis" /\ (\E i \in Replicas : Usable(i)) =>
        \A e \in Events :
            job[e] = "late" ~> job[e] # "late" \/ \E m \in Malformed : job[m] = "late"

=============================================================================
