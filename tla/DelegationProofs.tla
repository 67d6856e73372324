---------------------------- MODULE DelegationProofs ----------------------------
(***************************************************************************)
(* Proofs about Delegation: for any number of events and replicas, and any *)
(* number of failed requests, changed tokens and stops of the process, a   *)
(* JSON event whose client was told "created" is held by this cluster or   *)
(* by a replica; without failures it is in one place only, and, while      *)
(* tokens stay the same, a replica that can take it does.                  *)
(***************************************************************************)
EXTENDS Delegation, FiniteSetTheorems, TLAPS

\* mapToRange, as getClusterStatus calls it, gives a priority, whatever CPU a cluster
\* reports.
LEMMA MapToRangeType ==
    ASSUME NEW c \in Int
    PROVE  MapToRange(c, 0, 32000, 100, 0) \in 0..100
BY DEF MapToRange

\* All the priorities that a delegation computes are natural numbers.
LEMMA PriorityTypes ==
    ASSUME service \in Services
    PROVE  PriorityValues \subseteq Nat
<1>1. \A i \in Replicas : service.priority[i] \in Nat
  BY ReplicasAssumption DEF ServiceType
<1>2. \A c \in FreeCPU : MapToRange(c, 0, 32000, 100, 0) \in Nat
  BY MapToRangeType, ValuesAssumption
<1>3. Levels \cup {noDelegateCode} \subseteq Nat
  BY ValuesAssumption DEF noDelegateCode
<1>4. {service.priority[i] : i \in Replicas} \subseteq Nat
  BY <1>1
<1>5. {MapToRange(c, 0, 32000, 100, 0) : c \in FreeCPU} \subseteq Nat
  BY <1>2
<1>. QED
  BY <1>3, <1>4, <1>5 DEF PriorityValues

\* A set of replicas is finite.
LEMMA ReplicaSets ==
    ASSUME NEW S, S \subseteq Replicas
    PROVE  IsFiniteSet(S) /\ Cardinality(S) \in Nat
<1>1. IsFiniteSet(Replicas)
  BY FS_Interval, ReplicasAssumption DEF Replicas
<1>. QED
  BY <1>1, FS_Subset, FS_CardinalityType

\* The initial state satisfies the invariant.
LEMMA InitHolds == Init => IInv
<1>. SUFFICES ASSUME Init PROVE IInv
  OBVIOUS
<1>1. TypeOK
  BY ActorsAssumption DEF Init, TypeOK, Actors, Zero, HandlerLabels, ReSchedulerLabels, Local
<1>2. Custody
  BY ActorsAssumption DEF Init, Custody, LabelsOK, NotYetHeld, DeletedIsTaken, ListedIsLocal, TargetIsLocal, DeleteIsSafe, NotYetTaken, AcceptedIsHeld, OnePlaceOnly, Working, Actors, HandlerLabels, ReSchedulerLabels, Local
<1>3. Smooth
  BY DEF Init, Smooth, TokensCurrent, UsableLeft
<1>. QED
  BY <1>1, <1>2, <1>3 DEF IInv

-----------------------------------------------------------------------------
(* Every step keeps the types. *)

\* A new start and a panic leave the variables well typed.
LEMMA PanicTypes ==
    ASSUME TypeOK, NEW a \in Actors, Panics(a) \/ Restart,
           UNCHANGED <<service, cluster>>, faults' \in Nat, rotations' \in Nat, crashes' \in Nat
    PROVE  TypeOK'
<1>1. CASE Restart
  BY <1>1 DEF TypeOK, Restart, cluster, Actors, Zero, HandlerLabels
<1>2. CASE a # ReScheduler /\ Answer(a, "error") /\ Forget(a) /\ UNCHANGED <<view, cache, rescheduler>>
  BY <1>2 DEF TypeOK, Answer, Goto, Forget, cluster, rescheduler, Actors, Zero, HandlerLabels
<1>. QED
  BY <1>1, <1>2 DEF Panics

\* What a request for a token leaves in the cache.
LEMMA TokenTypes ==
    ASSUME TypeOK, NEW i \in Replicas, UpdateServiceToken(i) \/ UpdateFails
    PROVE  /\ cache' \in [Replicas -> Nat \cup {None}]
           /\ faults' \in Nat /\ rotations' \in Nat /\ crashes' \in Nat
<1>1. Cleared \in [Replicas -> Nat \cup {None}]
  BY DEF TypeOK, Cleared
<1>2. token[i] \in Nat
  BY DEF TypeOK
<1>. QED
  BY <1>1, <1>2 DEF TypeOK, UpdateServiceToken, UpdateFails, Fault, bounds

\* The next replica's turn: what changes is well typed.
LEMMA NextReplicaTypes ==
    ASSUME TypeOK, NEW a \in Actors, NEW i \in Replicas, NextReplica(a, i)
    PROVE  /\ pc' \in [Actors -> HandlerLabels \cup ReSchedulerLabels]
           /\ left' \in [Actors -> SUBSET Replicas]
           /\ tok' \in [Actors -> Nat \cup {None}]
BY DEF TypeOK, NextReplica, Goto, HandlerLabels

\* A step of DelegateJob keeps the types.
LEMMA DelegateTypes ==
    ASSUME TypeOK, NEW a \in Actors, DelegateJob(a), EventOf(a) \in Events \/ pc[a] # "post"
    PROVE  TypeOK'
<1>1. CASE GetClusterStatus(a)
  <2>1. PICK refused \in SUBSET Asked, p \in [Replicas -> PriorityValues] :
           faults' = faults + Cardinality(refused) /\ prio' = [prio EXCEPT ![a] = p]
    BY <1>1 DEF GetClusterStatus
  <2>2. Cardinality(refused) \in Nat
    <3>1. Asked \subseteq Replicas
      BY ReplicasAssumption DEF TypeOK, Asked, ServiceType
    <3>. QED
      BY <3>1, ReplicaSets
  <2>3. p \in [Replicas -> Nat]
    BY PriorityTypes DEF TypeOK
  <2>. QED
    BY <1>1, <2>1, <2>2, <2>3 DEF TypeOK, GetClusterStatus, Goto, cluster, rescheduler, HandlerLabels
<1>2. CASE StatusUnreachable(a)
  <2>1. faults' \in Nat /\ rotations' \in Nat /\ crashes' \in Nat
    BY <1>2 DEF TypeOK, StatusUnreachable, Fault
  <2>2. Panics(a) /\ UNCHANGED <<service, cluster>>
    BY <1>2 DEF StatusUnreachable
  <2>. QED
    BY <2>1, <2>2, PanicTypes
<1>3. CASE StartTopsis(a)
  BY <1>3 DEF TypeOK, StartTopsis, NextReplica, Goto, Forget, Zero, cluster, rescheduler, bounds, HandlerLabels, ReSchedulerLabels
<1>4. CASE TopsisReplica(a)
  <2>1. PICK i \in left[a] :
           /\ left' = [left EXCEPT ![a] = @ \ {i}]
           /\ UNCHANGED <<cache, bounds>> \/ UpdateServiceToken(i) \/ UpdateFails
    BY <1>4 DEF TopsisReplica
  <2>2. i \in Replicas
    BY DEF TypeOK
  <2>3. /\ cache' \in [Replicas -> Nat \cup {None}]
        /\ faults' \in Nat /\ rotations' \in Nat /\ crashes' \in Nat
    BY <2>1, <2>2, TokenTypes DEF TypeOK, bounds
  <2>. QED
    BY <1>4, <2>1, <2>3 DEF TypeOK, TopsisReplica, cluster, rescheduler
<1>5. CASE TopsisPriorities(a)
  BY <1>5, PanicTypes DEF TypeOK, TopsisPriorities, Fault, bounds
<1>6. CASE SkipReplica(a)
  BY <1>6 DEF TypeOK, SkipReplica, NextReplica, Goto, Forget, Zero, cluster, rescheduler, bounds, HandlerLabels, ReSchedulerLabels
<1>7. CASE GetServiceToken(a)
  <2>1. PICK i \in left[a] :
           \/ /\ service.kind[i] = "endpoint" \/ cache[i] # None
              /\ tok' = [tok EXCEPT ![a] = IF service.kind[i] = "oscar" THEN cache[i] ELSE None]
              /\ Goto(a, "post")
              /\ UNCHANGED <<cache, left, bounds>>
           \/ /\ UpdateServiceToken(i)
              /\ tok' = [tok EXCEPT ![a] = token[i]]
              /\ Goto(a, "post")
              /\ UNCHANGED left
           \/ UpdateFails /\ NextReplica(a, i)
    BY <1>7 DEF GetServiceToken
  <2>2. i \in Replicas /\ cache[i] \in Nat \cup {None} /\ token[i] \in Nat
    BY DEF TypeOK
  <2>3. /\ cache' \in [Replicas -> Nat \cup {None}]
        /\ faults' \in Nat /\ rotations' \in Nat /\ crashes' \in Nat
    BY <2>1, <2>2, TokenTypes DEF TypeOK, bounds
  <2>4. /\ pc' \in [Actors -> HandlerLabels \cup ReSchedulerLabels]
        /\ left' \in [Actors -> SUBSET Replicas]
        /\ tok' \in [Actors -> Nat \cup {None}]
    BY <2>1, <2>2, NextReplicaTypes DEF TypeOK, Goto, HandlerLabels
  <2>. QED
    BY <1>7, <2>3, <2>4 DEF TypeOK, GetServiceToken, cluster, rescheduler
<1>8. CASE PostEvent(a)
  <2>1. PICK i \in left[a] :
           \/ Accept(EventBuild(EventOf(a))) /\ Succeeds(a) /\ Forget(a) /\ UNCHANGED bounds
           \/ Goto(a, "retry") /\ UNCHANGED <<copies, resp, tok, prio, left, bounds>>
           \/ /\ Fault /\ NextReplica(a, i)
              /\ UNCHANGED copies \/ Accept(EventBuild(EventOf(a)))
              /\ UNCHANGED <<resp, prio>>
    BY <1>8 DEF PostEvent
  <2>2. i \in Replicas /\ EventBuild(EventOf(a)) \in Events \cup {None}
    BY <1>8 DEF TypeOK, PostEvent, EventBuild
  <2>3. copies' \in [Events \cup {None} -> Nat] /\ resp' \in [Events -> {"none", "ok", "error"}]
    <3>1. Accept(EventBuild(EventOf(a))) => copies' \in [Events \cup {None} -> Nat]
      BY <2>2 DEF TypeOK, Accept
    <3>2. Succeeds(a) => resp' \in [Events -> {"none", "ok", "error"}]
      BY DEF TypeOK, Succeeds, Answer
    <3>. QED
      BY <2>1, <3>1, <3>2 DEF TypeOK
  <2>4. /\ pc' \in [Actors -> HandlerLabels \cup ReSchedulerLabels]
        /\ left' \in [Actors -> SUBSET Replicas]
        /\ tok' \in [Actors -> Nat \cup {None}]
        /\ prio' \in [Actors -> [Replicas -> Nat]]
    <3>1. CASE Accept(EventBuild(EventOf(a))) /\ Succeeds(a) /\ Forget(a) /\ UNCHANGED bounds
      BY <3>1 DEF TypeOK, Succeeds, Answer, Goto, Forget, Zero, HandlerLabels, ReSchedulerLabels
    <3>2. CASE Goto(a, "retry") /\ UNCHANGED <<copies, resp, tok, prio, left, bounds>>
      BY <3>2 DEF TypeOK, Goto, HandlerLabels
    <3>3. CASE NextReplica(a, i) /\ UNCHANGED <<resp, prio>>
      BY <3>3, <2>2, NextReplicaTypes DEF TypeOK
    <3>. QED
      BY <2>1, <3>1, <3>2, <3>3
  <2>5. faults' \in Nat /\ rotations' \in Nat /\ crashes' \in Nat
    BY <2>1 DEF TypeOK, Fault, bounds
  <2>. QED
    BY <1>8, <2>3, <2>4, <2>5 DEF TypeOK, PostEvent, rescheduler
<1>9. CASE RetryWithToken(a)
  <2>1. PICK i \in left[a] : NextReplica(a, i) /\ (UpdateServiceToken(i) \/ UpdateFails)
    BY <1>9 DEF RetryWithToken
  <2>2. i \in Replicas
    BY DEF TypeOK
  <2>. QED
    BY <1>9, <2>1, <2>2, TokenTypes, NextReplicaTypes DEF TypeOK, RetryWithToken, cluster, rescheduler
<1>10. CASE NoReplica(a)
  BY <1>10 DEF TypeOK, NoReplica, NextReplica, Goto, Forget, Zero, cluster, rescheduler, bounds, HandlerLabels, ReSchedulerLabels
<1>11. CASE EventPanics(a)
  BY <1>11, PanicTypes DEF TypeOK, EventPanics, bounds
<1>. QED
  BY <1>1, <1>2, <1>3, <1>4, <1>5, <1>6, <1>7, <1>8, <1>9, <1>10, <1>11 DEF DelegateJob

\* A step keeps the types; what it needs to know of the rescheduler is in Custody.
LEMMA NextTypes ==
    ASSUME TypeOK, Custody, [Next]_vars
    PROVE  TypeOK'
<1>. USE ActorsAssumption DEF Actors
<1>1. CASE \E a \in Actors : DelegateJob(a)
  <2>1. PICK a \in Actors : DelegateJob(a)
    BY <1>1
  <2>2. EventOf(a) \in Events \/ pc[a] # "post"
    BY DEF Custody, TargetIsLocal, EventOf, Working
  <2>. QED
    BY <2>1, <2>2, DelegateTypes
<1>2. ASSUME NEW e \in Events, Invoke(e) PROVE TypeOK'
  BY <1>2 DEF TypeOK, Invoke, Goto, cluster, delegation, rescheduler, bounds, HandlerLabels
<1>3. ASSUME NEW e \in Events, CreateJob(e) PROVE TypeOK'
  <2>1. job' \in [Events -> Local \cup {"none", "deleted"}]
    BY <1>3 DEF TypeOK, CreateJob, Local
  <2>2. faults' \in Nat /\ rotations' \in Nat /\ crashes' \in Nat
    BY <1>3 DEF TypeOK, CreateJob, Fault, bounds
  <2>3. /\ pc' \in [Actors -> HandlerLabels \cup ReSchedulerLabels]
        /\ resp' \in [Events -> {"none", "ok", "error"}]
    BY <1>3 DEF TypeOK, CreateJob, Answer, Goto, HandlerLabels
  <2>. QED
    BY <1>3, <2>1, <2>2, <2>3 DEF TypeOK, CreateJob, delegation, rescheduler
<1>4. ASSUME NEW e \in Events, JobMoves(e) PROVE TypeOK'
  BY <1>4 DEF TypeOK, JobMoves, delegation, rescheduler, bounds, Local
<1>5. CASE GetReSchedulablePods
  BY <1>5 DEF TypeOK, GetReSchedulablePods, Goto, Fault, cluster, delegation, bounds, ReSchedulerLabels
<1>6. CASE GetReScheduleInfos
  BY <1>6, PanicTypes DEF TypeOK, GetReScheduleInfos, Goto, Fault, cluster, delegation, rescheduler, bounds, ReSchedulerLabels
<1>7. CASE ReScheduleNext
  BY <1>7 DEF TypeOK, ReScheduleNext, Goto, cluster, delegation, bounds, ReSchedulerLabels
<1>8. CASE DeleteJob
  BY <1>8 DEF TypeOK, DeleteJob, Goto, Fault, delegation, rescheduler, bounds, ReSchedulerLabels
<1>9. CASE UpdateResources
  BY <1>9 DEF TypeOK, UpdateResources, cluster, delegation, rescheduler, bounds
<1>10. ASSUME NEW i \in Replicas, TokenChanges(i) PROVE TypeOK'
  BY <1>10 DEF TypeOK, TokenChanges, delegation, rescheduler
<1>11. CASE Crash
  BY <1>11, PanicTypes DEF TypeOK, Crash
<1>12. CASE UNCHANGED vars
  BY <1>12 DEF TypeOK, vars
<1>. QED
  BY <1>1, <1>2, <1>3, <1>4, <1>5, <1>6, <1>7, <1>8, <1>9, <1>10, <1>11, <1>12
     DEF Next, Handler, ReSchedulerStep

-----------------------------------------------------------------------------
(* Custody.  What it speaks of is changed by a step of DelegateJob in one   *)
(* of five ways.                                                           *)

WorkLabels == {"status", "rank", "try", "post", "retry"}
Quiet == UNCHANGED <<job, todo, target, crashes>>

\* The delegation goes on: nobody was told, and an acceptance that the caller did
\* not see goes with a failed request.
GoesOn(a) ==
    /\ Quiet /\ UNCHANGED resp
    /\ \E l \in WorkLabels : Goto(a, l)
    /\ \/ UNCHANGED copies /\ faults' \in Nat /\ faults' >= faults
       \/ Accept(EventBuild(EventOf(a))) /\ faults' = faults + 1

EndsWell(a) == Quiet /\ UNCHANGED faults /\ Accept(EventBuild(EventOf(a))) /\ Succeeds(a)

EndsBadly(a) ==
    /\ Quiet /\ UNCHANGED <<faults, copies, resp>>
    /\ Goto(a, IF a = ReScheduler THEN "next" ELSE "create")

HandlerPanics(a) ==
    /\ a # ReScheduler
    /\ Quiet /\ UNCHANGED copies /\ Answer(a, "error")
    /\ faults' \in Nat /\ faults' >= faults

Restarts ==
    /\ Restart
    /\ UNCHANGED <<job, copies>>
    /\ faults' \in Nat /\ faults' >= faults /\ crashes' \in Nat /\ crashes' >= crashes
    /\ pc[ReScheduler] = "delete" => crashes' > crashes

\* Every step of DelegateJob is one of these.
LEMMA DelegateKinds ==
    ASSUME TypeOK, NEW a \in Actors, DelegateJob(a)
    PROVE  /\ pc[a] \in WorkLabels
           /\ GoesOn(a) \/ EndsWell(a) \/ EndsBadly(a) \/ HandlerPanics(a)
              \/ (a = ReScheduler /\ Restarts)
<1>. USE DEF WorkLabels, Quiet
<1>1. CASE GetClusterStatus(a)
  <2>1. PICK refused \in SUBSET Asked : faults' = faults + Cardinality(refused)
    BY <1>1 DEF GetClusterStatus
  <2>2. Cardinality(refused) \in Nat
    <3>1. Asked \subseteq Replicas
      BY ReplicasAssumption DEF TypeOK, Asked, ServiceType
    <3>. QED
      BY <3>1, ReplicaSets
  <2>3. faults' \in Nat /\ faults' >= faults
    BY <2>1, <2>2 DEF TypeOK
  <2>. QED
    BY <1>1, <2>3 DEF GetClusterStatus, GoesOn, cluster, rescheduler
<1>2. CASE StatusUnreachable(a)
  BY <1>2 DEF TypeOK, StatusUnreachable, Fault, Panics, HandlerPanics, Restarts, cluster, rescheduler
<1>3. CASE StartTopsis(a)
  BY <1>3 DEF TypeOK, StartTopsis, GoesOn, cluster, rescheduler, bounds
<1>4. CASE TopsisReplica(a)
  <2>1. UNCHANGED <<crashes>> /\ faults' \in Nat /\ faults' >= faults
    BY <1>4 DEF TypeOK, TopsisReplica, UpdateServiceToken, UpdateFails, Fault, bounds
  <2>2. Goto(a, "rank")
    BY <1>4 DEF TypeOK, TopsisReplica, Goto
  <2>. QED
    BY <1>4, <2>1, <2>2 DEF TopsisReplica, GoesOn, cluster, rescheduler
<1>5. CASE TopsisPriorities(a)
  BY <1>5 DEF TypeOK, TopsisPriorities, Panics, HandlerPanics, Restarts, cluster, rescheduler, bounds
<1>6. CASE SkipReplica(a)
  BY <1>6 DEF TypeOK, SkipReplica, NextReplica, GoesOn, cluster, rescheduler, bounds
<1>7. CASE GetServiceToken(a)
  <2>1. UNCHANGED <<crashes>> /\ faults' \in Nat /\ faults' >= faults
    BY <1>7 DEF TypeOK, GetServiceToken, UpdateServiceToken, UpdateFails, Fault, bounds
  <2>2. Goto(a, "post") \/ Goto(a, "try")
    BY <1>7 DEF GetServiceToken, NextReplica
  <2>. QED
    BY <1>7, <2>1, <2>2 DEF GetServiceToken, GoesOn, cluster, rescheduler
<1>8. CASE PostEvent(a)
  <2>1. PICK i \in left[a] :
           \/ Accept(EventBuild(EventOf(a))) /\ Succeeds(a) /\ Forget(a) /\ UNCHANGED bounds
           \/ Goto(a, "retry") /\ UNCHANGED <<copies, resp, tok, prio, left, bounds>>
           \/ /\ Fault /\ NextReplica(a, i)
              /\ UNCHANGED copies \/ Accept(EventBuild(EventOf(a)))
              /\ UNCHANGED <<resp, prio>>
    BY <1>8 DEF PostEvent
  <2>2. UNCHANGED <<job, todo, target>> /\ pc[a] = "post"
    BY <1>8 DEF PostEvent, rescheduler
  <2>3. CASE Accept(EventBuild(EventOf(a))) /\ Succeeds(a) /\ UNCHANGED bounds
    BY <2>2, <2>3 DEF EndsWell, bounds
  <2>4. CASE Goto(a, "retry") /\ UNCHANGED <<copies, resp, bounds>>
    BY <2>2, <2>4 DEF GoesOn, bounds, TypeOK
  <2>5. CASE Fault /\ NextReplica(a, i) /\ (UNCHANGED copies \/ Accept(EventBuild(EventOf(a)))) /\ UNCHANGED resp
    BY <2>2, <2>5 DEF GoesOn, Fault, NextReplica, TypeOK
  <2>. QED
    BY <2>1, <2>2, <2>3, <2>4, <2>5
<1>9. CASE RetryWithToken(a)
  <2>1. UNCHANGED <<crashes>> /\ faults' \in Nat /\ faults' >= faults
    BY <1>9 DEF TypeOK, RetryWithToken, UpdateServiceToken, UpdateFails, Fault, bounds
  <2>. QED
    BY <1>9, <2>1 DEF RetryWithToken, NextReplica, GoesOn, cluster, rescheduler
<1>10. CASE NoReplica(a)
  BY <1>10 DEF NoReplica, EndsBadly, cluster, rescheduler, bounds
<1>11. CASE EventPanics(a)
  BY <1>11 DEF TypeOK, EventPanics, Panics, HandlerPanics, Restarts, cluster, rescheduler, bounds
<1>. QED
  BY <1>1, <1>2, <1>3, <1>4, <1>5, <1>6, <1>7, <1>8, <1>9, <1>10, <1>11 DEF DelegateJob

\* A step of the handler of e: what Custody sees of it.
HandlerEffect(e) ==
    /\ \A x \in Events : x # e => pc'[x] = pc[x] /\ resp'[x] = resp[x] /\ copies'[x] = copies[x]
    /\ pc'[ReScheduler] = pc[ReScheduler]
    /\ UNCHANGED <<job, todo, target, crashes>>
    /\ faults' >= faults /\ copies'[e] >= copies[e]
    /\ \/ /\ pc'[e] \in WorkLabels \cup {"create"} /\ resp'[e] = resp[e]
          /\ copies'[e] = copies[e] \/ faults' > 0
       \/ pc'[e] = "done" /\ resp'[e] = "error" /\ copies'[e] = copies[e]
       \/ /\ pc'[e] = "done" /\ resp'[e] = "ok"
          /\ copies'[e] = copies[e] + 1 \/ (e \in Texts /\ copies'[e] = copies[e])

(* Every kind of DelegateJob step a handler takes has that effect.            *)
LEMMA HandlerEffects ==
    ASSUME TypeOK, NEW e \in Events,
           GoesOn(e) \/ EndsWell(e) \/ EndsBadly(e) \/ HandlerPanics(e)
    PROVE  HandlerEffect(e)
<1>. USE ActorsAssumption DEF Actors, EventOf, EventBuild, Goto, Accept, Quiet, TypeOK
<1>1. CASE GoesOn(e)
  BY <1>1 DEF GoesOn, HandlerEffect
<1>2. CASE EndsWell(e)
  BY <1>2 DEF EndsWell, Succeeds, Answer, HandlerEffect
<1>3. CASE EndsBadly(e)
  BY <1>3 DEF EndsBadly, HandlerEffect
<1>4. CASE HandlerPanics(e)
  BY <1>4 DEF HandlerPanics, Answer, HandlerEffect
<1>. QED
  BY <1>1, <1>2, <1>3, <1>4

\* A handler's steps keep Custody: its event is nowhere yet.
LEMMA HandlerCustody ==
    ASSUME TypeOK, TypeOK', Custody, NEW e \in Events, pc[e] \in WorkLabels, HandlerEffect(e)
    PROVE  Custody'
<1>. USE DEF HandlerEffect, WorkLabels, Working
<1>1. \A x \in Events : copies[x] > 0 => copies'[x] > 0
  <2>1. \A x \in Events : copies[x] \in Nat /\ copies'[x] \in Nat
    BY DEF TypeOK
  <2>2. \A x \in Events : copies'[x] >= copies[x]
    BY <2>1
  <2>. QED
    BY ONLY <2>1, <2>2
<1>2. copies \in [Events \cup {None} -> Nat] /\ faults \in Nat /\ faults' \in Nat /\ todo \subseteq Events
  BY DEF TypeOK
<1>3. LabelsOK'
  BY <1>2 DEF LabelsOK, Custody, HandlerLabels, ReSchedulerLabels
<1>4. NotYetHeld'
  BY <1>2 DEF NotYetHeld, Custody
<1>5. DeletedIsTaken'
  BY <1>1 DEF DeletedIsTaken, Custody
<1>6. ListedIsLocal'
  BY <1>2 DEF ListedIsLocal, Custody
<1>7. TargetIsLocal'
  BY <1>2 DEF TargetIsLocal, Custody
<1>8. DeleteIsSafe'
  BY <1>1 DEF DeleteIsSafe, Custody
<1>9. NotYetTaken'
  BY <1>2 DEF NotYetTaken, Custody, NotYetHeld, ListedIsLocal, Local
<1>10. AcceptedIsHeld'
  <2>1. resp'[e] = "ok" /\ e \notin Texts => copies'[e] > 0 \/ job'[e] \in Local
    <3>1. resp[e] = "none" /\ copies[e] \in Nat
      BY <1>2 DEF Custody, NotYetHeld
    <3>2. resp'[e] = "ok" /\ e \notin Texts => copies'[e] = copies[e] + 1
      BY <3>1
    <3>. QED
      BY ONLY <3>1, <3>2
  <2>2. \A x \in Events \ Texts : x # e /\ resp'[x] = "ok" => copies'[x] > 0 \/ job'[x] \in Local
    BY DEF Custody, AcceptedIsHeld
  <2>. QED
    BY ONLY <2>1, <2>2 DEF AcceptedIsHeld
<1>11. OnePlaceOnly'
  BY <1>2 DEF OnePlaceOnly, Custody, NotYetHeld, NotYetTaken, Local
<1>. QED
  BY <1>3, <1>4, <1>5, <1>6, <1>7, <1>8, <1>9, <1>10, <1>11 DEF Custody

\* The rescheduler's delegation keeps Custody: the job stays until a replica has it.
LEMMA ReSchedulerCustody ==
    ASSUME TypeOK, TypeOK', Custody, pc[ReScheduler] \in WorkLabels,
           GoesOn(ReScheduler) \/ EndsWell(ReScheduler) \/ EndsBadly(ReScheduler)
    PROVE  Custody'
<1>1. /\ target \in Events /\ job[target] \in Local /\ faults \in Nat
      /\ copies \in [Events \cup {None} -> Nat] /\ todo \subseteq Events
  BY DEF TypeOK, Custody, TargetIsLocal, Working, WorkLabels
<1>2. /\ \A e \in Events : pc'[e] = pc[e]
      /\ UNCHANGED <<job, todo, target, crashes, resp>>
      /\ \A e \in Events : e # target => copies'[e] = copies[e]
      /\ faults' >= faults /\ copies'[target] >= copies[target]
      /\ \/ /\ pc'[ReScheduler] \in WorkLabels \cup {"next"}
            /\ copies'[target] = copies[target] \/ faults' > 0
         \/ /\ pc'[ReScheduler] = "delete"
            /\ copies'[target] = copies[target] + 1 \/ (target \in Texts /\ copies'[target] = copies[target])
  <2>. USE <1>1, ActorsAssumption DEF Actors, EventOf, EventBuild, Goto, Accept, Quiet, TypeOK
  <2>1. CASE GoesOn(ReScheduler)
    BY <2>1 DEF GoesOn
  <2>2. CASE EndsWell(ReScheduler)
    BY <2>2 DEF EndsWell, Succeeds
  <2>3. CASE EndsBadly(ReScheduler)
    BY <2>3 DEF EndsBadly
  <2>. QED
    BY <2>1, <2>2, <2>3
<1>3. \A e \in Events : copies[e] > 0 => copies'[e] > 0
  <2>1. \A e \in Events : copies[e] \in Nat /\ copies'[e] \in Nat
    BY DEF TypeOK
  <2>2. \A e \in Events : copies'[e] >= copies[e]
    BY <1>1, <1>2, <2>1
  <2>. QED
    BY ONLY <2>1, <2>2
<1>4. LabelsOK'
  BY <1>1, <1>2 DEF LabelsOK, WorkLabels, Custody, HandlerLabels, ReSchedulerLabels
<1>5. NotYetHeld'
  BY <1>1, <1>2 DEF NotYetHeld, Custody
<1>6. DeletedIsTaken'
  BY <1>2, <1>3 DEF DeletedIsTaken, Custody
<1>7. ListedIsLocal'
  BY <1>1, <1>2 DEF ListedIsLocal, Custody
<1>8. TargetIsLocal'
  BY <1>1, <1>2 DEF TargetIsLocal, Custody, Working, WorkLabels
<1>9. DeleteIsSafe'
  BY <1>1, <1>2 DEF DeleteIsSafe, Custody, Working, WorkLabels
<1>10. NotYetTaken'
  BY <1>1, <1>2 DEF NotYetTaken, Custody, NotYetHeld, ListedIsLocal, Local
<1>11. AcceptedIsHeld'
  BY <1>1, <1>2 DEF AcceptedIsHeld, Custody
<1>12. OnePlaceOnly'
  BY <1>1, <1>2 DEF OnePlaceOnly, Custody, NotYetHeld, NotYetTaken, Local, WorkLabels
<1>. QED
  BY <1>4, <1>5, <1>6, <1>7, <1>8, <1>9, <1>10, <1>11, <1>12 DEF Custody

\* A new start keeps Custody: what is held is held outside the process.
LEMMA RestartCustody ==
    ASSUME TypeOK, Custody, Restarts
    PROVE  Custody'
<1>1. /\ \A e \in Events : pc'[e] = IF pc[e] = "idle" THEN "idle" ELSE "done"
      /\ pc'[ReScheduler] = "idle" /\ todo' = {} /\ target' = None
      /\ UNCHANGED <<job, copies, resp>>
      /\ faults' >= faults /\ crashes' >= crashes
      /\ pc[ReScheduler] = "delete" => crashes' > crashes
  BY ActorsAssumption DEF Restarts, Restart, Actors
<1>2. faults \in Nat /\ crashes \in Nat
  BY DEF TypeOK
<1>3. LabelsOK'
  BY <1>1, <1>2 DEF LabelsOK, Custody, HandlerLabels, ReSchedulerLabels
<1>4. NotYetHeld'
  BY <1>1, <1>2 DEF NotYetHeld, Custody
<1>5. DeletedIsTaken'
  BY <1>1, <1>2 DEF DeletedIsTaken, Custody
<1>6. ListedIsLocal'
  BY <1>1, <1>2 DEF ListedIsLocal
<1>7. TargetIsLocal'
  BY <1>1, <1>2 DEF TargetIsLocal, Working
<1>8. DeleteIsSafe'
  BY <1>1, <1>2 DEF DeleteIsSafe
<1>9. NotYetTaken'
  BY <1>1, <1>2 DEF NotYetTaken, Custody
<1>10. AcceptedIsHeld'
  BY <1>1, <1>2 DEF AcceptedIsHeld, Custody
<1>11. OnePlaceOnly'
  BY <1>1, <1>2 DEF OnePlaceOnly, Custody
<1>. QED
  BY <1>3, <1>4, <1>5, <1>6, <1>7, <1>8, <1>9, <1>10, <1>11 DEF Custody

\* Every step keeps Custody.
LEMMA NextCustody ==
    ASSUME TypeOK, TypeOK', Custody, [Next]_vars
    PROVE  Custody'
<1>. USE ActorsAssumption DEF Actors, Goto
<1>1. CASE \E a \in Actors : DelegateJob(a)
  <2>1. PICK a \in Actors : DelegateJob(a)
    BY <1>1
  <2>2. CASE a = ReScheduler
    BY <2>1, <2>2, DelegateKinds, ReSchedulerCustody, RestartCustody DEF HandlerPanics
  <2>3. CASE a \in Events
    BY <2>1, <2>3, DelegateKinds, HandlerEffects, HandlerCustody
  <2>. QED
    BY <2>1, <2>2, <2>3
<1>2. ASSUME NEW e \in Events, Invoke(e) PROVE Custody'
  BY <1>2 DEF TypeOK, Custody, Invoke, cluster, rescheduler, bounds, Working, HandlerLabels, ReSchedulerLabels, LabelsOK, NotYetHeld, DeletedIsTaken, ListedIsLocal, TargetIsLocal, DeleteIsSafe, NotYetTaken, AcceptedIsHeld, OnePlaceOnly
<1>3. ASSUME NEW e \in Events, CreateJob(e) PROVE Custody'
  <2>1. /\ \A x \in Events : x # e => pc'[x] = pc[x] /\ resp'[x] = resp[x] /\ job'[x] = job[x]
        /\ pc[e] = "create" /\ pc'[e] = "done" /\ pc'[ReScheduler] = pc[ReScheduler]
        /\ UNCHANGED <<copies, todo, target, crashes>>
        /\ faults' >= faults
        /\ \/ job'[e] = "pending" /\ resp'[e] = "ok"
           \/ job'[e] \in {job[e], "pending"} /\ resp'[e] = "error"
    BY <1>3 DEF TypeOK, CreateJob, Answer, Fault, rescheduler, bounds
  <2>2. /\ job[e] = "none" /\ faults \in Nat /\ todo \subseteq Events
        /\ "none" \notin Local /\ "pending" \in Local
    BY <2>1 DEF Custody, NotYetHeld, TypeOK, Local
  <2>3. LabelsOK'
    BY <2>1, <2>2 DEF LabelsOK, Custody, HandlerLabels, ReSchedulerLabels
  <2>4. NotYetHeld'
    BY <2>1, <2>2 DEF NotYetHeld, Custody
  <2>5. DeletedIsTaken'
    BY <2>1, <2>2 DEF DeletedIsTaken, Custody
  <2>6. ListedIsLocal'
    BY <2>1, <2>2 DEF ListedIsLocal, Custody
  <2>7. TargetIsLocal'
    BY <2>1, <2>2 DEF TargetIsLocal, Custody, Working
  <2>8. DeleteIsSafe'
    BY <2>1, <2>2 DEF DeleteIsSafe, Custody
  <2>9. NotYetTaken'
    BY <2>1, <2>2 DEF NotYetTaken, Custody, ListedIsLocal
  <2>10. AcceptedIsHeld'
    BY <2>1, <2>2 DEF AcceptedIsHeld, Custody
  <2>11. OnePlaceOnly'
    BY <2>1, <2>2 DEF OnePlaceOnly, Custody, NotYetTaken
  <2>. QED
    BY <2>3, <2>4, <2>5, <2>6, <2>7, <2>8, <2>9, <2>10, <2>11 DEF Custody
<1>4. ASSUME NEW e \in Events, JobMoves(e) PROVE Custody'
  <2>1. /\ \A x \in Events : x # e => job'[x] = job[x]
        /\ job[e] \in Local /\ job'[e] \in Local
        /\ UNCHANGED <<pc, copies, resp, todo, target, faults, crashes>>
    BY <1>4 DEF TypeOK, JobMoves, rescheduler, bounds, Local
  <2>2. "none" \notin Local /\ "deleted" \notin Local /\ todo \subseteq Events
    BY DEF Local, TypeOK
  <2>3. LabelsOK'
    BY <2>1, <2>2 DEF LabelsOK, Custody
  <2>4. NotYetHeld'
    BY <2>1, <2>2 DEF NotYetHeld, Custody
  <2>5. DeletedIsTaken'
    BY <2>1, <2>2 DEF DeletedIsTaken, Custody
  <2>6. ListedIsLocal'
    BY <2>1, <2>2 DEF ListedIsLocal, Custody
  <2>7. TargetIsLocal'
    BY <2>1, <2>2 DEF TargetIsLocal, Custody, Working
  <2>8. DeleteIsSafe'
    BY <2>1, <2>2 DEF DeleteIsSafe, Custody
  <2>9. NotYetTaken'
    BY <2>1, <2>2 DEF NotYetTaken, Custody
  <2>10. AcceptedIsHeld'
    BY <2>1, <2>2 DEF AcceptedIsHeld, Custody
  <2>11. OnePlaceOnly'
    BY <2>1, <2>2 DEF OnePlaceOnly, Custody
  <2>. QED
    BY <2>3, <2>4, <2>5, <2>6, <2>7, <2>8, <2>9, <2>10, <2>11 DEF Custody
<1>5. CASE GetReSchedulablePods
  <2>1. /\ \A x \in Events : pc'[x] = pc[x]
        /\ pc[ReScheduler] = "idle" /\ pc'[ReScheduler] \in {"idle", "next", "read"}
        /\ UNCHANGED <<job, copies, resp, target, crashes>>
        /\ faults' >= faults /\ faults \in Nat
        /\ todo' = todo \/ todo' = {e \in Events : service.shared /\ job[e] = "late"}
    BY <1>5 DEF TypeOK, GetReSchedulablePods, Fault, cluster, bounds
  <2>2. target = None /\ None \notin Events /\ \A e \in Events : copies[e] \in Nat
    BY <2>1 DEF TypeOK, Custody, TargetIsLocal
  <2>3. LabelsOK'
    BY <2>1 DEF LabelsOK, Custody, HandlerLabels, ReSchedulerLabels
  <2>4. NotYetHeld'
    BY <2>1 DEF NotYetHeld, Custody
  <2>5. DeletedIsTaken'
    BY <2>1 DEF DeletedIsTaken, Custody
  <2>6. ListedIsLocal'
    BY <2>1, <2>2 DEF ListedIsLocal, Custody, Local
  <2>7. TargetIsLocal'
    BY <2>1, <2>2 DEF TargetIsLocal, Working
  <2>8. DeleteIsSafe'
    BY <2>1 DEF DeleteIsSafe
  <2>9. NotYetTaken'
    BY <2>1, <2>2 DEF NotYetTaken, Custody, OnePlaceOnly, Local
  <2>10. AcceptedIsHeld'
    BY <2>1 DEF AcceptedIsHeld, Custody
  <2>11. OnePlaceOnly'
    BY <2>1 DEF OnePlaceOnly, Custody
  <2>. QED
    BY <2>3, <2>4, <2>5, <2>6, <2>7, <2>8, <2>9, <2>10, <2>11 DEF Custody
<1>6. CASE GetReScheduleInfos
  <2>1. CASE Goto(ReScheduler, "next") /\ UNCHANGED <<resp, view, delegation, rescheduler, bounds>>
    BY <1>6, <2>1 DEF TypeOK, Custody, GetReScheduleInfos, cluster, rescheduler, bounds, Working, HandlerLabels, ReSchedulerLabels, LabelsOK, NotYetHeld, DeletedIsTaken, ListedIsLocal, TargetIsLocal, DeleteIsSafe, NotYetTaken, AcceptedIsHeld, OnePlaceOnly
  <2>2. CASE Fault /\ Panics(ReScheduler)
    BY <1>6, <2>2, RestartCustody DEF TypeOK, GetReScheduleInfos, Panics, Restarts, Fault, cluster
  <2>. QED
    BY <1>6, <2>1, <2>2 DEF GetReScheduleInfos
<1>7. CASE ReScheduleNext
  <2>1. /\ \A x \in Events : pc'[x] = pc[x]
        /\ pc[ReScheduler] = "next"
        /\ UNCHANGED <<job, copies, resp, faults, crashes>>
        /\ \/ pc'[ReScheduler] = "idle" /\ todo = {} /\ todo' = {} /\ target' = None
           \/ /\ pc'[ReScheduler] = "status" /\ target' \in todo
              /\ todo' = todo \ {target'}
    BY <1>7 DEF TypeOK, ReScheduleNext, cluster, bounds
  <2>2. todo \subseteq Events
    BY DEF TypeOK
  <2>3. LabelsOK'
    BY <2>1, <2>2 DEF LabelsOK, Custody, HandlerLabels, ReSchedulerLabels
  <2>4. NotYetHeld'
    BY <2>1, <2>2 DEF NotYetHeld, Custody
  <2>5. DeletedIsTaken'
    BY <2>1, <2>2 DEF DeletedIsTaken, Custody
  <2>6. ListedIsLocal'
    BY <2>1, <2>2 DEF ListedIsLocal, Custody
  <2>7. TargetIsLocal'
    BY <2>1, <2>2 DEF TargetIsLocal, Custody, ListedIsLocal, Working
  <2>8. DeleteIsSafe'
    BY <2>1, <2>2 DEF DeleteIsSafe, Custody
  <2>9. NotYetTaken'
    BY <2>1, <2>2 DEF NotYetTaken, Custody
  <2>10. AcceptedIsHeld'
    BY <2>1, <2>2 DEF AcceptedIsHeld, Custody
  <2>11. OnePlaceOnly'
    BY <2>1, <2>2 DEF OnePlaceOnly, Custody
  <2>. QED
    BY <2>3, <2>4, <2>5, <2>6, <2>7, <2>8, <2>9, <2>10, <2>11 DEF Custody
<1>8. CASE DeleteJob
  <2>1. target \in Events /\ job[target] \in Local /\ (target \in Texts \/ copies[target] > 0)
    BY <1>8 DEF Custody, DeleteIsSafe, DeleteJob
  <2>2. /\ \A x \in Events : pc'[x] = pc[x] /\ (x # target => job'[x] = job[x])
        /\ pc[ReScheduler] = "delete" /\ pc'[ReScheduler] = "next"
        /\ UNCHANGED <<copies, resp, todo, target, crashes>>
        /\ \/ job'[target] = "deleted" /\ faults' = faults
           \/ job'[target] \in {job[target], "deleted"} /\ faults' > 0 /\ faults' >= faults
    BY <1>8, <2>1 DEF TypeOK, DeleteJob, Fault, rescheduler, bounds
  <2>3. /\ "none" \notin Local /\ "deleted" \notin Local /\ todo \subseteq Events
        /\ faults \in Nat /\ copies \in [Events \cup {None} -> Nat]
    BY DEF Local, TypeOK
  <2>4. LabelsOK'
    BY <2>1, <2>2, <2>3 DEF LabelsOK, Custody, HandlerLabels, ReSchedulerLabels
  <2>5. NotYetHeld'
    BY <2>1, <2>2, <2>3 DEF NotYetHeld, Custody
  <2>6. DeletedIsTaken'
    BY <2>1, <2>2, <2>3 DEF DeletedIsTaken, Custody
  <2>7. ListedIsLocal'
    BY <2>1, <2>2, <2>3 DEF ListedIsLocal, Custody
  <2>8. TargetIsLocal'
    BY <2>1, <2>2, <2>3 DEF TargetIsLocal, Custody, Working
  <2>9. DeleteIsSafe'
    BY <2>1, <2>2, <2>3 DEF DeleteIsSafe
  <2>10. NotYetTaken'
    BY <2>1, <2>2, <2>3 DEF NotYetTaken, Custody
  <2>11. AcceptedIsHeld'
    BY <2>1, <2>2, <2>3 DEF AcceptedIsHeld, Custody
  <2>12. OnePlaceOnly'
    BY <2>1, <2>2, <2>3 DEF OnePlaceOnly, Custody
  <2>. QED
    BY <2>4, <2>5, <2>6, <2>7, <2>8, <2>9, <2>10, <2>11, <2>12 DEF Custody
<1>9. CASE UpdateResources
  BY <1>9 DEF Custody, UpdateResources, cluster, rescheduler, bounds, Working, LabelsOK, NotYetHeld, DeletedIsTaken, ListedIsLocal, TargetIsLocal, DeleteIsSafe, NotYetTaken, AcceptedIsHeld, OnePlaceOnly
<1>10. ASSUME NEW i \in Replicas, TokenChanges(i) PROVE Custody'
  BY <1>10 DEF Custody, TokenChanges, rescheduler, Working, LabelsOK, NotYetHeld, DeletedIsTaken, ListedIsLocal, TargetIsLocal, DeleteIsSafe, NotYetTaken, AcceptedIsHeld, OnePlaceOnly
<1>11. CASE Crash
  BY <1>11, RestartCustody DEF TypeOK, Crash, Restarts, cluster
<1>12. CASE UNCHANGED vars
  BY <1>12 DEF Custody, vars, Working, LabelsOK, NotYetHeld, DeletedIsTaken, ListedIsLocal, TargetIsLocal, DeleteIsSafe, NotYetTaken, AcceptedIsHeld, OnePlaceOnly
<1>. QED
  BY <1>1, <1>2, <1>3, <1>4, <1>5, <1>6, <1>7, <1>8, <1>9, <1>10, <1>11, <1>12
     DEF Next, Handler, ReSchedulerStep

-----------------------------------------------------------------------------
(* The replicas are gone through to a usable one. *)

\* One replica at a time has its turn.
LEMMA OneTurn ==
    ASSUME TypeOK, NEW a \in Actors, NEW i \in Replicas, NEW j \in Replicas, Turn(a, i), Turn(a, j)
    PROVE  i = j
<1>1. i \in Int /\ j \in Int
  BY ReplicasAssumption DEF Replicas
<1>2. prio[a][i] \in Nat /\ prio[a][j] \in Nat
  BY DEF TypeOK
<1>. QED
  BY <1>1, <1>2 DEF Turn

\* When every cluster answers, every usable replica gets a priority with which
\* DelegateJob sends to it.
LEMMA UsableHasPriority ==
    ASSUME service \in Services, service.delegation # "topsis",
           NEW i \in Replicas, Usable(i), NEW q \in Priorities(i, TRUE)
    PROVE  service.kind[i] = "oscar" => q < noDelegateCode /\ i \in service.defined
<1>. SUFFICES ASSUME service.kind[i] = "oscar" PROVE q < noDelegateCode /\ i \in service.defined
  OBVIOUS
<1>1. /\ i \in service.defined
      /\ \/ /\ service.delegation \in {"random", "load-based"}
            /\ service.numeric /\ i \in service.roomy
         \/ service.delegation = "static" /\ service.priority[i] < noDelegateCode
  BY DEF Usable
<1>2. CASE service.delegation = "static"
  <2>1. Priorities(i, TRUE) = {service.priority[i]}
    BY <1>2 DEF Priorities
  <2>. QED
    BY <1>1, <1>2, <2>1
<1>3. CASE service.delegation = "random"
  <2>1. Priorities(i, TRUE) = Levels
    BY <1>1, <1>3 DEF Priorities, Offers
  <2>2. q \in 0..100
    BY <2>1, ValuesAssumption
  <2>. QED
    BY <1>1, <2>2 DEF noDelegateCode
<1>4. CASE service.delegation = "load-based"
  <2>. DEFINE Load(c) == MapToRange(c, 0, 32000, 100, 0)
  <2>1. Priorities(i, TRUE) = {Load(c) : c \in FreeCPU}
    BY <1>1, <1>4 DEF Priorities, Offers
  <2>2. \A c \in FreeCPU : Load(c) \in 0..100
    BY MapToRangeType, ValuesAssumption
  <2>. HIDE DEF Load
  <2>3. {Load(c) : c \in FreeCPU} \subseteq 0..100
    BY <2>2
  <2>4. q \in 0..100
    BY <2>1, <2>3
  <2>. QED
    BY <1>1, <2>4 DEF noDelegateCode
<1>. QED
  BY <1>1, <1>2, <1>3, <1>4

\* What actor a knows of its delegation, and what it may find out, as Smooth says.
SmoothAt(a) ==
    /\ pc[a] # "retry"
    /\ pc[a] = "post" => \A i \in left[a] : Turn(a, i) => Authorized(a, i)
    /\ pc[a] \in {"try", "post"} =>
          \A i \in Replicas : Usable(i) => i \in left[a] /\ Eligible(a, i)

TokensKept == \A i \in Replicas : cache[i] # None => cache[i] = token[i]

\* Smooth is what every actor knows and the cache.
LEMMA SmoothParts ==
    (TokensCurrent /\ UsableLeft) <=> (TokensKept /\ \A a \in Actors : SmoothAt(a))
BY DEF TokensCurrent, UsableLeft, TokensKept, SmoothAt

\* The same delegation, with the same tokens at the replicas.
Same(b) == pc'[b] = pc[b] /\ tok'[b] = tok[b] /\ prio'[b] = prio[b] /\ left'[b] = left[b]

\* A step of one actor says nothing new to the others.
LEMMA OthersSmooth ==
    ASSUME NEW b \in Actors, SmoothAt(b), UNCHANGED <<service, token>>, Same(b)
    PROVE  SmoothAt(b)'
BY DEF SmoothAt, Same, Turn, Authorized, Usable, Eligible

\* An actor that goes through no replicas has nothing to keep.
LEMMA AwaySmooth ==
    ASSUME NEW b \in Actors, pc'[b] \notin {"try", "post", "retry"}
    PROVE  SmoothAt(b)'
BY DEF SmoothAt

\* A request for a token puts no stale one into the cache.
LEMMA TokensKeptNext ==
    ASSUME TypeOK, TokensKept, NEW i \in Replicas, UpdateServiceToken(i) \/ UpdateFails, UNCHANGED token
    PROVE  TokensKept'
<1>1. /\ Cleared \in [Replicas -> Nat \cup {None}]
      /\ \A j \in Replicas : Cleared[j] # None => Cleared[j] = token[j]
  BY DEF TypeOK, Cleared, TokensKept
<1>2. CASE UpdateServiceToken(i)
  BY <1>1, <1>2 DEF UpdateServiceToken, TokensKept
<1>3. CASE UpdateFails
  BY <1>1, <1>3 DEF UpdateFails, TokensKept
<1>. QED
  BY <1>2, <1>3

\* A restart leaves nobody going through replicas, and no token.
LEMMA RestartSmooth ==
    ASSUME Restart
    PROVE  TokensKept' /\ \A b \in Actors : SmoothAt(b)'
<1>1. \A b \in Actors : pc'[b] \in {"idle", "done"}
  BY DEF Restart
<1>2. \A b \in Actors : SmoothAt(b)'
  BY <1>1, AwaySmooth
<1>3. TokensKept'
  BY DEF Restart, TokensKept
<1>. QED
  BY <1>2, <1>3

\* A panic leaves its handler, or everybody, going through no replicas.
LEMMA PanicSmooth ==
    ASSUME TypeOK, NEW a \in Actors, Panics(a), TokensKept, \A b \in Actors : SmoothAt(b),
           UNCHANGED <<service, token>>
    PROVE  TokensKept' /\ \A b \in Actors : SmoothAt(b)'
<1>1. CASE Restart
  BY <1>1, RestartSmooth
<1>2. CASE a # ReScheduler /\ Answer(a, "error") /\ Forget(a) /\ UNCHANGED <<view, cache, rescheduler>>
  <2>1. \A b \in Actors \ {a} : Same(b)
    BY <1>2 DEF TypeOK, Same, Answer, Goto, Forget
  <2>2. pc'[a] = "done"
    BY <1>2 DEF TypeOK, Answer, Goto
  <2>3. TokensKept'
    BY <1>2 DEF TokensKept
  <2>. QED
    BY <2>1, <2>2, <2>3, OthersSmooth, AwaySmooth
<1>. QED
  BY <1>1, <1>2 DEF Panics

\* A step of DelegateJob in which no request fails.
LEMMA DelegateSmooth ==
    ASSUME TypeOK, NEW a \in Actors, DelegateJob(a), faults = 0, faults' = 0,
           TokensKept, \A b \in Actors : SmoothAt(b)
    PROVE  TokensKept' /\ \A b \in Actors : SmoothAt(b)'
<1>. USE DEF cluster, rescheduler
<1>1. ~Fault
  BY DEF Fault
<1>2. ASSUME UNCHANGED <<service, token>>, \A b \in Actors \ {a} : Same(b), TokensKept', SmoothAt(a)'
      PROVE  TokensKept' /\ \A b \in Actors : SmoothAt(b)'
  BY <1>2, OthersSmooth
<1>3. CASE GetClusterStatus(a)
  <2>1. PICK refused \in SUBSET Asked, p \in [Replicas -> PriorityValues] :
           /\ faults' = faults + Cardinality(refused)
           /\ \A i \in Replicas : p[i] \in Priorities(i, i \notin refused)
           /\ prio' = [prio EXCEPT ![a] = p]
    BY <1>3 DEF GetClusterStatus
  <2>2. refused = {}
    <3>1. Asked \subseteq Replicas
      BY ReplicasAssumption DEF TypeOK, Asked, ServiceType
    <3>2. IsFiniteSet(refused) /\ Cardinality(refused) \in Nat
      BY <3>1, ReplicaSets
    <3>3. Cardinality(refused) = 0
      BY <2>1, <3>2
    <3>. QED
      BY <3>2, <3>3, FS_EmptySet
  <2>3. \A i \in Replicas : p[i] \in Priorities(i, TRUE)
    BY <2>1, <2>2
  <2>4. \A i \in Replicas : Usable(i) =>
           (service.kind[i] = "oscar" => p[i] < noDelegateCode /\ i \in service.defined)
    BY <1>3, <2>3, UsableHasPriority DEF TypeOK, GetClusterStatus
  <2>5. /\ pc'[a] = "try" /\ left'[a] = Replicas /\ prio'[a] = p
        /\ \A b \in Actors \ {a} : Same(b)
        /\ UNCHANGED <<service, token, cache>>
    BY <1>3, <2>1 DEF TypeOK, GetClusterStatus, Goto, Same
  <2>6. SmoothAt(a)'
    BY <2>4, <2>5 DEF SmoothAt, Usable, Eligible
  <2>7. TokensKept'
    BY <2>5 DEF TokensKept
  <2>. QED
    BY <1>2, <2>5, <2>6, <2>7
<1>4. CASE StatusUnreachable(a)
  BY <1>1, <1>4 DEF StatusUnreachable
<1>5. CASE StartTopsis(a)
  <2>1. /\ pc'[a] = "rank" /\ UNCHANGED <<service, token, cache>>
        /\ \A b \in Actors \ {a} : Same(b)
    BY <1>5 DEF TypeOK, StartTopsis, Goto, Same
  <2>2. TokensKept'
    BY <2>1 DEF TokensKept
  <2>. QED
    BY <1>2, <2>1, <2>2, AwaySmooth
<1>6. CASE TopsisReplica(a)
  <2>1. PICK i \in left[a] :
           /\ left' = [left EXCEPT ![a] = @ \ {i}]
           /\ UNCHANGED cache \/ UpdateServiceToken(i) \/ UpdateFails
    BY <1>6 DEF TopsisReplica
  <2>2. /\ i \in Replicas /\ pc'[a] = "rank" /\ UNCHANGED <<service, token>>
        /\ \A b \in Actors \ {a} : Same(b)
    BY <1>6, <2>1 DEF TypeOK, TopsisReplica, Same
  <2>3. TokensKept'
    <3>1. CASE UNCHANGED cache
      BY <2>2, <3>1 DEF TokensKept
    <3>. QED
      BY <2>1, <2>2, <3>1, TokensKeptNext
  <2>. QED
    BY <1>2, <2>2, <2>3, AwaySmooth
<1>7. CASE TopsisPriorities(a) \/ EventPanics(a)
  BY <1>7, PanicSmooth DEF TopsisPriorities, EventPanics
<1>8. CASE SkipReplica(a)
  <2>1. PICK i \in left[a] : ~Eligible(a, i) /\ NextReplica(a, i)
    BY <1>8 DEF SkipReplica
  <2>2. /\ pc[a] = "try" /\ pc'[a] = "try" /\ left'[a] = left[a] \ {i} /\ prio'[a] = prio[a]
        /\ \A b \in Actors \ {a} : Same(b)
        /\ UNCHANGED <<service, token, cache>>
    BY <1>8, <2>1 DEF TypeOK, SkipReplica, NextReplica, Goto, Same
  <2>3. SmoothAt(a)'
    BY <2>1, <2>2 DEF SmoothAt, Usable, Eligible
  <2>4. TokensKept'
    BY <2>2 DEF TokensKept
  <2>. QED
    BY <1>2, <2>2, <2>3, <2>4
<1>9. CASE GetServiceToken(a)
  <2>1. PICK i \in left[a] :
           /\ Turn(a, i) /\ Eligible(a, i)
           /\ \/ /\ service.kind[i] = "endpoint" \/ cache[i] # None
                 /\ tok' = [tok EXCEPT ![a] = IF service.kind[i] = "oscar" THEN cache[i] ELSE None]
                 /\ Goto(a, "post")
                 /\ UNCHANGED <<cache, left>>
              \/ /\ UpdateServiceToken(i)
                 /\ tok' = [tok EXCEPT ![a] = token[i]]
                 /\ Goto(a, "post")
                 /\ UNCHANGED left
    BY <1>1, <1>9 DEF GetServiceToken, UpdateFails
  <2>2. i \in Replicas
    BY DEF TypeOK
  <2>3. /\ pc[a] = "try" /\ pc'[a] = "post" /\ left'[a] = left[a] /\ prio'[a] = prio[a]
        /\ \A b \in Actors \ {a} : Same(b)
        /\ UNCHANGED <<service, token>>
    BY <1>9, <2>1 DEF TypeOK, GetServiceToken, Goto, Same
  <2>4. TokensKept'
    <3>1. CASE UNCHANGED cache
      BY <2>3, <3>1 DEF TokensKept
    <3>. QED
      BY <2>1, <2>2, <2>3, <3>1, TokensKeptNext
  <2>5. service.kind[i] = "oscar" => tok'[a] = token[i]
    BY <2>1, <2>2 DEF TypeOK, TokensKept
  <2>6. \A j \in left'[a] : Turn(a, j)' => Authorized(a, j)'
    <3>. SUFFICES ASSUME NEW j \in left'[a], Turn(a, j)' PROVE Authorized(a, j)'
      OBVIOUS
    <3>1. j \in Replicas /\ Turn(a, j)
      BY <2>3 DEF TypeOK, Turn
    <3>2. j = i
      BY <2>1, <2>2, <3>1, OneTurn
    <3>. QED
      BY <2>3, <2>5, <3>2 DEF Authorized
  <2>7. SmoothAt(a)'
    BY <2>3, <2>6 DEF SmoothAt, Usable, Eligible
  <2>. QED
    BY <1>2, <2>3, <2>4, <2>7
<1>10. CASE PostEvent(a)
  <2>1. PICK i \in left[a] :
           /\ Turn(a, i)
           /\ \/ Succeeds(a) /\ Forget(a)
              \/ ~Authorized(a, i)
    BY <1>1, <1>10 DEF PostEvent
  <2>2. pc[a] = "post" /\ UNCHANGED <<service, token, cache>>
    BY <1>10 DEF PostEvent
  <2>3. Authorized(a, i)
    BY <2>1, <2>2 DEF SmoothAt
  <2>4. pc'[a] \in {"done", "delete"} /\ \A b \in Actors \ {a} : Same(b)
    BY <2>1, <2>3 DEF TypeOK, Succeeds, Answer, Goto, Forget, Same
  <2>5. TokensKept'
    BY <2>2 DEF TokensKept
  <2>. QED
    BY <1>2, <2>2, <2>4, <2>5, AwaySmooth
<1>11. CASE RetryWithToken(a)
  BY <1>11 DEF RetryWithToken, SmoothAt
<1>12. CASE NoReplica(a)
  <2>1. /\ pc'[a] \in {"next", "create"} /\ UNCHANGED <<service, token, cache>>
        /\ \A b \in Actors \ {a} : Same(b)
    BY <1>12 DEF TypeOK, NoReplica, Goto, Forget, Same
  <2>2. TokensKept'
    BY <2>1 DEF TokensKept
  <2>. QED
    BY <1>2, <2>1, <2>2, AwaySmooth
<1>. QED
  BY <1>3, <1>4, <1>5, <1>6, <1>7, <1>8, <1>9, <1>10, <1>11, <1>12 DEF DelegateJob

\* Failures and changes of tokens are only counted up.
LEMMA CountsUp ==
    ASSUME TypeOK, [Next]_vars
    PROVE  faults' >= faults /\ rotations' >= rotations
<1>. USE ActorsAssumption DEF TypeOK, Actors, Fault, bounds
<1>1. ASSUME NEW a \in Actors, DelegateJob(a) PROVE faults' >= faults /\ rotations' >= rotations
  <2>1. CASE GetClusterStatus(a)
    <3>1. PICK refused \in SUBSET Asked : faults' = faults + Cardinality(refused)
      BY <2>1 DEF GetClusterStatus
    <3>2. Cardinality(refused) \in Nat
      <4>1. Asked \subseteq Replicas
        BY ReplicasAssumption DEF Asked, ServiceType
      <4>. QED
        BY <4>1, ReplicaSets
    <3>. QED
      BY <2>1, <3>1, <3>2 DEF GetClusterStatus
  <2>2. CASE StatusUnreachable(a) \/ EventPanics(a) \/ StartTopsis(a) \/ TopsisPriorities(a)
    BY <2>2 DEF StatusUnreachable, EventPanics, StartTopsis, TopsisPriorities
  <2>3. CASE TopsisReplica(a) \/ GetServiceToken(a) \/ RetryWithToken(a)
    BY <2>3 DEF TopsisReplica, GetServiceToken, RetryWithToken, UpdateServiceToken, UpdateFails
  <2>4. CASE SkipReplica(a) \/ PostEvent(a) \/ NoReplica(a)
    BY <2>4 DEF SkipReplica, PostEvent, NoReplica
  <2>. QED
    BY <1>1, <2>1, <2>2, <2>3, <2>4 DEF DelegateJob
<1>2. ASSUME NEW e \in Events, Invoke(e) \/ CreateJob(e) \/ JobMoves(e)
      PROVE  faults' >= faults /\ rotations' >= rotations
  BY <1>2 DEF Invoke, CreateJob, JobMoves
<1>3. CASE GetReSchedulablePods \/ GetReScheduleInfos \/ ReScheduleNext \/ DeleteJob
  BY <1>3 DEF GetReSchedulablePods, GetReScheduleInfos, ReScheduleNext, DeleteJob
<1>4. CASE UpdateResources \/ Crash \/ \E i \in Replicas : TokenChanges(i)
  BY <1>4 DEF UpdateResources, Crash, TokenChanges
<1>5. CASE UNCHANGED vars
  BY <1>5 DEF vars
<1>. QED
  BY <1>1, <1>2, <1>3, <1>4, <1>5 DEF Next, Handler, ReSchedulerStep

\* Every step keeps Smooth.
LEMMA NextSmooth ==
    ASSUME TypeOK, Smooth, [Next]_vars
    PROVE  Smooth'
<1>. SUFFICES ASSUME faults' = 0, rotations' = 0
              PROVE  TokensKept' /\ \A b \in Actors : SmoothAt(b)'
  BY SmoothParts DEF Smooth, TokensCurrent, UsableLeft, TokensKept, SmoothAt
<1>1. faults = 0 /\ rotations = 0
  BY CountsUp DEF TypeOK
<1>2. TokensKept /\ \A b \in Actors : SmoothAt(b)
  BY <1>1, SmoothParts DEF Smooth
<1>3. ~Fault
  BY <1>1 DEF Fault
<1>. USE ActorsAssumption DEF Actors
<1>4. ASSUME NEW a \in Actors, UNCHANGED <<service, token, cache>>,
             pc'[a] \notin {"try", "post", "retry"} \/ Same(a), \A b \in Actors \ {a} : Same(b)
      PROVE  TokensKept' /\ \A b \in Actors : SmoothAt(b)'
  <2>1. TokensKept'
    BY <1>2, <1>4 DEF TokensKept
  <2>. QED
    BY <1>2, <1>4, <2>1, OthersSmooth, AwaySmooth
<1>5. ASSUME UNCHANGED <<service, token, cache, pc, tok, prio, left>>
      PROVE  TokensKept' /\ \A b \in Actors : SmoothAt(b)'
  BY <1>4, <1>5 DEF Same
<1>6. CASE \E a \in Actors : DelegateJob(a)
  BY <1>1, <1>2, <1>6, DelegateSmooth
<1>. USE DEF TypeOK, Goto, Answer, Same, cluster, delegation
<1>7. ASSUME NEW e \in Events, Invoke(e) PROVE TokensKept' /\ \A b \in Actors : SmoothAt(b)'
  <2>1. /\ pc'[e] \in {"create", "status"} /\ \A b \in Actors \ {e} : Same(b)
        /\ UNCHANGED <<service, token, cache>>
    BY <1>7 DEF Invoke
  <2>. QED
    BY <1>4, <2>1
<1>8. ASSUME NEW e \in Events, CreateJob(e) PROVE TokensKept' /\ \A b \in Actors : SmoothAt(b)'
  <2>1. /\ pc'[e] = "done" /\ \A b \in Actors \ {e} : Same(b)
        /\ UNCHANGED <<service, token, cache>>
    BY <1>8 DEF CreateJob
  <2>. QED
    BY <1>4, <2>1
<1>9. CASE UpdateResources \/ UNCHANGED vars \/ \E e \in Events : JobMoves(e)
  BY <1>5, <1>9 DEF JobMoves, UpdateResources, vars
<1>10. CASE GetReSchedulablePods \/ ReScheduleNext \/ DeleteJob
  <2>1. /\ pc'[ReScheduler] \in {"next", "read", "idle", "status"}
        /\ \A b \in Actors \ {ReScheduler} : Same(b)
        /\ UNCHANGED <<service, token, cache>>
    BY <1>3, <1>10 DEF GetReSchedulablePods, ReScheduleNext, DeleteJob
  <2>. QED
    BY <1>4, <2>1
<1>11. CASE GetReScheduleInfos
  <2>1. /\ pc'[ReScheduler] = "next" /\ \A b \in Actors \ {ReScheduler} : Same(b)
        /\ UNCHANGED <<service, token, cache>>
    BY <1>3, <1>11 DEF GetReScheduleInfos
  <2>. QED
    BY <1>4, <2>1
<1>12. ~(\E i \in Replicas : TokenChanges(i))
  BY <1>1 DEF TokenChanges
<1>13. CASE Crash
  BY <1>13, RestartSmooth DEF Crash
<1>. QED
  BY <1>6, <1>7, <1>8, <1>9, <1>10, <1>11, <1>12, <1>13 DEF Next, Handler, ReSchedulerStep

-----------------------------------------------------------------------------
(* The theorems. *)

\* The inductive invariant of the job handlers and the rescheduler.
THEOREM CustodyInvariance == Spec => []IInv
<1>1. IInv /\ [Next]_vars => IInv'
  BY NextTypes, NextCustody, NextSmooth DEF IInv
<1>. QED
  BY <1>1, InitHolds, PTL DEF Spec

\* No JSON event is lost that a client was told is created.
THEOREM NothingLost == Spec => []AcceptedIsHeld
<1>1. IInv => AcceptedIsHeld
  BY DEF IInv, Custody
<1>. QED
  BY <1>1, CustodyInvariance, PTL

\* Without failures no event is in two places.
THEOREM NothingTwice == Spec => []OnePlaceOnly
<1>1. IInv => OnePlaceOnly
  BY DEF IInv, Custody
<1>. QED
  BY <1>1, CustodyInvariance, PTL

\* An event comes back to its handler only if no replica can be sent it (for want of room
\* or of a readable CPU too), a request failed or a token changed.
THEOREM FindsReplica == Spec => DelegationFindsReplica
<1>1. ASSUME IInv, [Next]_vars
      PROVE  [\A e \in Events :
                 pc[e] = "try" /\ pc'[e] = "create" /\ (\E i \in Replicas : Usable(i))
                 => faults > 0 \/ rotations > 0]_vars
  <2>. SUFFICES ASSUME Next, NEW e \in Events, pc[e] = "try", pc'[e] = "create",
                       NEW i \in Replicas, Usable(i), ~(faults > 0 \/ rotations > 0)
                PROVE  FALSE
    BY <1>1
  <2>1. TypeOK /\ faults = 0 /\ rotations = 0
    BY <1>1 DEF IInv, TypeOK
  <2>2. left[e] # {}
    BY <1>1, <2>1 DEF IInv, Smooth, UsableLeft, Actors
  <2>3. left[e] = {}
    <3>. USE <2>1, ActorsAssumption DEF TypeOK, Goto, Answer, Actors
    <3>1. ASSUME NEW a \in Actors, a # e, DelegateJob(a) PROVE FALSE
      <4>1. GoesOn(a) \/ EndsWell(a) \/ EndsBadly(a) \/ HandlerPanics(a) \/ Restarts
        BY <3>1, DelegateKinds
      <4>2. pc'[e] = pc[e] \/ pc'[e] = "done"
        BY <3>1, <4>1 DEF GoesOn, EndsWell, EndsBadly, HandlerPanics, Restarts, Restart, Succeeds
      <4>. QED
        BY <4>2
    <3>2. ASSUME DelegateJob(e) PROVE left[e] = {}
      <4>1. ~NoReplica(e) => SkipReplica(e) \/ GetServiceToken(e)
        BY <3>2 DEF DelegateJob, GetClusterStatus, StatusUnreachable, EventPanics, StartTopsis, TopsisReplica, TopsisPriorities, PostEvent, RetryWithToken
      <4>2. SkipReplica(e) \/ GetServiceToken(e) => pc'[e] \in {"try", "post"}
        BY DEF SkipReplica, GetServiceToken, NextReplica
      <4>. QED
        BY <4>1, <4>2 DEF NoReplica
    <3>3. ASSUME NEW x \in Events, Invoke(x) \/ CreateJob(x) \/ JobMoves(x) PROVE FALSE
      BY <3>3 DEF Invoke, CreateJob, JobMoves
    <3>4. CASE GetReSchedulablePods \/ GetReScheduleInfos \/ ReScheduleNext \/ DeleteJob
      BY <3>4 DEF GetReSchedulablePods, GetReScheduleInfos, ReScheduleNext, DeleteJob, Panics, Restart
    <3>5. CASE UpdateResources \/ Crash \/ \E k \in Replicas : TokenChanges(k)
      BY <3>5 DEF UpdateResources, Crash, Restart, TokenChanges
    <3>. QED
      BY <3>1, <3>2, <3>3, <3>4, <3>5 DEF Next, Handler, ReSchedulerStep
  <2>. QED
    BY <2>2, <2>3
<1>. QED
  BY <1>1, CustodyInvariance, PTL DEF Spec, DelegationFindsReplica

=============================================================================
