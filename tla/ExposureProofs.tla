----------------------------- MODULE ExposureProofs -----------------------------
(***************************************************************************)
(* What is proved about Exposure, for any requests, definitions,           *)
(* configurations and bounds.  A request's plan is a sequence of calls; all *)
(* but one of the arguments need only know which calls are in it, so the   *)
(* first lemmas say which calls each function of expose.go makes.          *)
(***************************************************************************)
EXTENDS Exposure, SequenceTheorems, TLAPS

-----------------------------------------------------------------------------
(* Sequences and the sets of their elements. *)

\* An empty plan makes no call, and the calls of a short one are those listed.
LEMMA InTuple ==
  /\ Range(<<>>) = {}
  /\ \A a : Range(<<a>>) = {a}
  /\ \A a, b : Range(<<a, b>>) = {a, b}
  /\ \A a, b, c : Range(<<a, b, c>>) = {a, b, c}
  /\ \A a, b, c, d : Range(<<a, b, c, d>>) = {a, b, c, d}
  /\ \A a, b, c, d, e, f : Range(<<a, b, c, d, e, f>>) = {a, b, c, d, e, f}
<1>0. Range(<<>>) = {}
  BY DEF Range
<1>1. \A a : Range(<<a>>) = {a}
  BY DEF Range
<1>2. \A a, b : Range(<<a, b>>) = {a, b}
  BY DEF Range
<1>3. \A a, b, c : Range(<<a, b, c>>) = {a, b, c}
  BY DEF Range
<1>4. \A a, b, c, d : Range(<<a, b, c, d>>) = {a, b, c, d}
  BY DEF Range
<1>5. \A a, b, c, d, e, f : Range(<<a, b, c, d, e, f>>) = {a, b, c, d, e, f}
  BY DEF Range
<1> QED BY <1>0, <1>1, <1>2, <1>3, <1>4, <1>5

\* A plan is its first call and the rest.
LEMMA InRest ==
  ASSUME NEW S, NEW s \in Seq(S), s # <<>>
  PROVE  /\ Head(s) \in S /\ Tail(s) \in Seq(S)
         /\ Range(s) = {Head(s)} \cup Range(Tail(s))
<1>1. /\ Head(s) \in S /\ Tail(s) \in Seq(S) /\ Len(Tail(s)) = Len(s) - 1
      /\ \A i \in 1..Len(Tail(s)) : Tail(s)[i] = s[i + 1]
  BY HeadTailProperties
<1>2. /\ Len(s) \in Nat \ {0} /\ DOMAIN s = 1..Len(s)
      /\ DOMAIN Tail(s) = 1..Len(Tail(s)) /\ Head(s) = s[1]
  BY <1>1, LenProperties, EmptySeq
<1>3. Range(s) \subseteq {Head(s)} \cup Range(Tail(s))
  <2> SUFFICES ASSUME NEW i \in 1..Len(s), i # 1
               PROVE  s[i] \in Range(Tail(s))
    BY <1>2 DEF Range
  <2>1. i - 1 \in 1..Len(Tail(s)) /\ Tail(s)[i - 1] = s[(i - 1) + 1] /\ (i - 1) + 1 = i
    BY <1>1, <1>2
  <2> QED BY <2>1, <1>2 DEF Range
<1>4. {Head(s)} \cup Range(Tail(s)) \subseteq Range(s)
  <2>1. Head(s) \in Range(s)
    BY <1>2 DEF Range
  <2>2. ASSUME NEW i \in 1..Len(Tail(s)) PROVE Tail(s)[i] \in Range(s)
    BY <1>1, <1>2 DEF Range
  <2> QED BY <2>1, <2>2, <1>2 DEF Range
<1> QED BY <1>1, <1>3, <1>4

\* One plan after the other makes the calls of both.
LEMMA InBoth ==
  ASSUME NEW S, NEW s \in Seq(S), NEW t \in Seq(S)
  PROVE  s \o t \in Seq(S) /\ Range(s \o t) = Range(s) \cup Range(t)
<1>1. /\ s \o t \in Seq(S) /\ Len(s \o t) = Len(s) + Len(t)
      /\ \A i \in 1..Len(s) + Len(t) : (s \o t)[i] = IF i <= Len(s) THEN s[i] ELSE t[i - Len(s)]
  BY ConcatProperties
<1>2. /\ Len(s) \in Nat /\ Len(t) \in Nat /\ DOMAIN s = 1..Len(s) /\ DOMAIN t = 1..Len(t)
      /\ DOMAIN (s \o t) = 1..Len(s) + Len(t)
  BY <1>1, LenProperties
<1>3. Range(s \o t) \subseteq Range(s) \cup Range(t)
  <2> SUFFICES ASSUME NEW i \in 1..Len(s) + Len(t)
               PROVE  (s \o t)[i] \in Range(s) \cup Range(t)
    BY <1>2 DEF Range
  <2>1. CASE i <= Len(s)
    BY <2>1, <1>1, <1>2 DEF Range
  <2>2. CASE ~(i <= Len(s))
    <3>1. i - Len(s) \in 1..Len(t)
      BY <2>2, <1>2
    <3> QED BY <3>1, <2>2, <1>1, <1>2 DEF Range
  <2> QED BY <2>1, <2>2
<1>4. ASSUME NEW i \in 1..Len(s) PROVE s[i] \in Range(s \o t)
  BY <1>1, <1>2 DEF Range
<1>5. ASSUME NEW i \in 1..Len(t) PROVE t[i] \in Range(s \o t)
  <2>1. i + Len(s) \in 1..Len(s) + Len(t) /\ ~(i + Len(s) <= Len(s)) /\ (i + Len(s)) - Len(s) = i
    BY <1>2
  <2> QED BY <2>1, <1>1, <1>2 DEF Range
<1> QED BY <1>1, <1>2, <1>3, <1>4, <1>5 DEF Range

-----------------------------------------------------------------------------
(* The calls that the functions of expose.go make. *)

Removes == {"delete", "drop", "deleteIf", "dropIf", "tryDelete"}
Writes == {"create", "update"}
KindOps == Removes \cup Writes \cup {"get", "upsert", "tryCreate"}

\* A call that acts on an object names the object's kind; Workloads and queues are
\* made and deleted in their own way, and the Deployment is not looked for first.
Fits(o, k) ==
    /\ o \in KindOps => k \in Kinds
    /\ o \notin KindOps => k = "none"
    /\ k \in {"workload", "localQueue"} <=> o \in {"tryCreate", "tryDelete"}
    /\ k = "deploy" => o \in {"create", "update", "get", "drop"}
GoodCalls == {c \in Calls : Fits(c.op, c.kind)}
Plans == Seq(GoodCalls)

\* The calls of createRoute and of the two ways in which upsertRoute goes on.
IngressNew(d) == {Call("create", "ingress")} \cup (IF d.auth THEN {Call("create", "secret")} ELSE {})
IngressOld(d) == {Call("update", "ingress"), Call(IF d.auth THEN "upsert" ELSE "deleteIf", "secret")}
GatewayMissing == IF cfg.gateway THEN {} ELSE {Call("fail", "none")}
RouteNew(d) ==
    GatewayMissing \cup {Call("create", "cors"), Call("create", "httproute")}
    \cup (IF d.auth THEN {Call("create", "authSec"), Call("create", "authMdw")} ELSE {})
RouteOld(d) ==
    GatewayMissing \cup {Call("upsert", "cors"), Call("update", "httproute")}
    \cup (IF d.auth THEN {Call("upsert", "authSec"), Call("upsert", "authMdw")}
                    ELSE {Call("deleteIf", "authMdw"), Call("deleteIf", "authSec")})

\* The calls of upsertRoute that clear the route of the other kind.
OtherGone(ing, route) ==
    IF cfg.route = "httproute"
    THEN {Call("deleteIf", "secret")} \cup (IF ing THEN {Call("delete", "ingress")} ELSE {})
    ELSE {Call("deleteIf", "cors")} \cup (IF route THEN {Call("delete", "httproute")} ELSE {})

RoutesGone == {Call("deleteIf", "ingress"), Call("deleteIf", "httproute"), Call("deleteIf", "cors"),
               Call("deleteIf", "authMdw"), Call("deleteIf", "authSec"), Call("dropIf", "secret")}
Checked == IF cfg.kueue THEN {Call("check", "none")} ELSE {}

\* The calls that expose.go makes.
LEMMA GoodOps ==
  /\ \A o \in KindOps \ {"tryCreate", "tryDelete"}, k \in Kinds \ {"workload", "localQueue", "deploy"} :
        Call(o, k) \in GoodCalls
  /\ \A o \in {"create", "update", "get", "drop"} : Call(o, "deploy") \in GoodCalls
  /\ \A o \in {"tryCreate", "tryDelete"}, k \in {"workload", "localQueue"} : Call(o, k) \in GoodCalls
  /\ \A o \in {"publish", "ingressSeen", "routeSeen", "check", "scale", "pods", "fail"} :
        Call(o, "none") \in GoodCalls
<1> USE DEF KindOps, Removes, Writes, Kinds, Fits, GoodCalls, Calls, Call
<1>1. ASSUME NEW o \in KindOps \ {"tryCreate", "tryDelete"},
             NEW k \in Kinds \ {"workload", "localQueue", "deploy"}
      PROVE  Call(o, k) \in GoodCalls
  OBVIOUS
<1>2. ASSUME NEW o \in {"create", "update", "get", "drop"} PROVE Call(o, "deploy") \in GoodCalls
  OBVIOUS
<1>3. ASSUME NEW o \in {"tryCreate", "tryDelete"}, NEW k \in {"workload", "localQueue"}
      PROVE  Call(o, k) \in GoodCalls
  OBVIOUS
<1>4. ASSUME NEW o \in {"publish", "ingressSeen", "routeSeen", "check", "scale", "pods", "fail"}
      PROVE  Call(o, "none") \in GoodCalls
  OBVIOUS
<1> HIDE DEF KindOps, Removes, Writes, Kinds, Fits, GoodCalls, Calls, Call
<1> QED BY <1>1, <1>2, <1>3, <1>4

\* Short sequences of good calls are plans.
LEMMA ShortPlans ==
  /\ <<>> \in Plans
  /\ \A a \in GoodCalls : <<a>> \in Plans
  /\ \A a, b \in GoodCalls : <<a, b>> \in Plans
  /\ \A a, b, c \in GoodCalls : <<a, b, c>> \in Plans
  /\ \A a, b, c, d \in GoodCalls : <<a, b, c, d>> \in Plans
  /\ \A a, b, c, d, e, f \in GoodCalls : <<a, b, c, d, e, f>> \in Plans
BY DEF Plans

\* Plans can be joined.
LEMMA Joined ==
  ASSUME NEW s \in Plans, NEW t \in Plans
  PROVE  s \o t \in Plans /\ Range(s \o t) = Range(s) \cup Range(t)
BY InBoth DEF Plans

\* validateHTTPRouteConfig fails only where no gateway is configured.
LEMMA GatewayPlan ==
  validateHTTPRouteConfig \in Plans /\ Range(validateHTTPRouteConfig) = GatewayMissing
BY GoodOps, ShortPlans, InTuple DEF validateHTTPRouteConfig, GatewayMissing

\* What is made for an Ingress and for an HTTPRoute.
LEMMA RoutePlans ==
  ASSUME NEW d
  PROVE  /\ createIngress(d) \in Plans /\ Range(createIngress(d)) = IngressNew(d)
         /\ updateIngress(d) \in Plans /\ Range(updateIngress(d)) = IngressOld(d)
         /\ createHTTPRoute(d) \in Plans /\ Range(createHTTPRoute(d)) = RouteNew(d)
         /\ updateHTTPRoute(d) \in Plans /\ Range(updateHTTPRoute(d)) = RouteOld(d)
<1> USE DEF KindOps, Removes, Writes, Kinds
<1>1. /\ Call("create", "ingress") \in GoodCalls /\ Call("create", "secret") \in GoodCalls
      /\ Call("update", "ingress") \in GoodCalls /\ Call("upsert", "secret") \in GoodCalls
      /\ Call("deleteIf", "secret") \in GoodCalls
  BY GoodOps
<1>2. /\ Call("create", "cors") \in GoodCalls /\ Call("create", "httproute") \in GoodCalls
      /\ Call("create", "authSec") \in GoodCalls /\ Call("create", "authMdw") \in GoodCalls
  BY GoodOps
<1>3. /\ Call("upsert", "cors") \in GoodCalls /\ Call("update", "httproute") \in GoodCalls
      /\ Call("upsert", "authSec") \in GoodCalls /\ Call("upsert", "authMdw") \in GoodCalls
      /\ Call("deleteIf", "authMdw") \in GoodCalls /\ Call("deleteIf", "authSec") \in GoodCalls
  BY GoodOps
<1> HIDE DEF KindOps, Removes, Writes, Kinds
<1>4. createIngress(d) \in Plans /\ Range(createIngress(d)) = IngressNew(d)
  <2> DEFINE t == IF d.auth THEN <<Call("create", "secret")>> ELSE <<>>
  <2>1. <<Call("create", "ingress")>> \in Plans /\ t \in Plans
    BY <1>1, ShortPlans
  <2>2. /\ Range(<<Call("create", "ingress")>>) = {Call("create", "ingress")}
        /\ Range(t) = IF d.auth THEN {Call("create", "secret")} ELSE {}
    BY InTuple
  <2>3. createIngress(d) = <<Call("create", "ingress")>> \o t
    BY DEF createIngress
  <2> HIDE DEF t
  <2> QED BY <2>1, <2>2, <2>3, Joined DEF IngressNew
<1>5. updateIngress(d) \in Plans /\ Range(updateIngress(d)) = IngressOld(d)
  BY <1>1, ShortPlans, InTuple DEF updateIngress, IngressOld
<1>6. createHTTPRoute(d) \in Plans /\ Range(createHTTPRoute(d)) = RouteNew(d)
  <2> DEFINE a == <<Call("create", "cors")>>
             b == IF d.auth THEN <<Call("create", "authSec"), Call("create", "authMdw")>> ELSE <<>>
             c == <<Call("create", "httproute")>>
  <2>1. a \in Plans /\ b \in Plans /\ c \in Plans
    BY <1>2, ShortPlans
  <2>2. /\ Range(a) = {Call("create", "cors")} /\ Range(c) = {Call("create", "httproute")}
        /\ Range(b) = IF d.auth THEN {Call("create", "authSec"), Call("create", "authMdw")} ELSE {}
    BY InTuple
  <2>3. createHTTPRoute(d) = ((validateHTTPRouteConfig \o a) \o b) \o c
    BY DEF createHTTPRoute
  <2> HIDE DEF a, b, c
  <2>4. /\ validateHTTPRouteConfig \o a \in Plans
        /\ Range(validateHTTPRouteConfig \o a) = GatewayMissing \cup Range(a)
    BY <2>1, GatewayPlan, Joined
  <2>5. /\ (validateHTTPRouteConfig \o a) \o b \in Plans
        /\ Range((validateHTTPRouteConfig \o a) \o b) = GatewayMissing \cup Range(a) \cup Range(b)
    BY <2>1, <2>4, Joined
  <2>6. /\ ((validateHTTPRouteConfig \o a) \o b) \o c \in Plans
        /\ Range(((validateHTTPRouteConfig \o a) \o b) \o c)
             = GatewayMissing \cup Range(a) \cup Range(b) \cup Range(c)
    BY <2>1, <2>5, Joined
  <2> QED BY <2>2, <2>3, <2>6 DEF RouteNew
<1>7. updateHTTPRoute(d) \in Plans /\ Range(updateHTTPRoute(d)) = RouteOld(d)
  <2> DEFINE a == <<Call("upsert", "cors")>>
             b == IF d.auth THEN <<Call("upsert", "authSec"), Call("upsert", "authMdw")>>
                            ELSE <<Call("deleteIf", "authMdw"), Call("deleteIf", "authSec")>>
             c == <<Call("update", "httproute")>>
  <2>1. a \in Plans /\ b \in Plans /\ c \in Plans
    BY <1>3, ShortPlans
  <2>2. /\ Range(a) = {Call("upsert", "cors")} /\ Range(c) = {Call("update", "httproute")}
        /\ Range(b) = IF d.auth THEN {Call("upsert", "authSec"), Call("upsert", "authMdw")}
                                ELSE {Call("deleteIf", "authMdw"), Call("deleteIf", "authSec")}
    BY InTuple
  <2>3. updateHTTPRoute(d) = ((validateHTTPRouteConfig \o a) \o b) \o c
    BY DEF updateHTTPRoute
  <2> HIDE DEF a, b, c
  <2>4. /\ validateHTTPRouteConfig \o a \in Plans
        /\ Range(validateHTTPRouteConfig \o a) = GatewayMissing \cup Range(a)
    BY <2>1, GatewayPlan, Joined
  <2>5. /\ (validateHTTPRouteConfig \o a) \o b \in Plans
        /\ Range((validateHTTPRouteConfig \o a) \o b) = GatewayMissing \cup Range(a) \cup Range(b)
    BY <2>1, <2>4, Joined
  <2>6. /\ ((validateHTTPRouteConfig \o a) \o b) \o c \in Plans
        /\ Range(((validateHTTPRouteConfig \o a) \o b) \o c)
             = GatewayMissing \cup Range(a) \cup Range(b) \cup Range(c)
    BY <2>1, <2>5, Joined
  <2> QED BY <2>2, <2>3, <2>6 DEF RouteOld
<1> QED BY <1>4, <1>5, <1>6, <1>7

-----------------------------------------------------------------------------
(* The order of the calls, where it matters: the Deployment is written before *)
(* the Workload is removed or checked, the Workload is made before it is      *)
(* checked, which is done once; upsertRoute looks once for each route, for an *)
(* Ingress first; and a service is stored before any of that.                 *)

Settles(c) == c.kind = "deploy" /\ c.op \in {"create", "update", "drop"}
Withdraws(c) == c.kind = "workload" /\ c.op = "tryDelete"
Applies(c) == c.kind = "workload" /\ c.op = "tryCreate"
Judges(c) == c.op \in {"check", "scale"}

\* A call that has no place in that order.
Plain(c) == c.kind \notin {"deploy", "workload"}
            /\ c.op \notin {"check", "scale", "ingressSeen", "routeSeen", "publish"}

Precedes(a, b) ==
    \/ Settles(a) /\ (Judges(b) \/ Withdraws(b) \/ (Applies(b) /\ a.op # "create"))
    \/ (Withdraws(a) \/ Applies(a) \/ Judges(a)) /\ Judges(b)
    \/ a.op \in {"ingressSeen", "routeSeen"} /\ b.op = "routeSeen"
    \/ a.op = "publish" /\ ~Plain(b) /\ b.op # "publish"

InOrder(s) == \A i, j \in 1..Len(s) : Precedes(s[i], s[j]) => i <= j

\* Calls that are not related are in order.
LEMMA Unrelated ==
  ASSUME NEW s \in Plans, \A a, b \in Range(s) : ~Precedes(a, b)
  PROVE  InOrder(s)
<1>1. Len(s) \in Nat /\ DOMAIN s = 1..Len(s)
  BY LenProperties DEF Plans
<1>2. \A i \in 1..Len(s) : s[i] \in Range(s)
  BY <1>1 DEF Range
<1> QED BY <1>2 DEF InOrder

\* A plan of no calls is in order.
LEMMA NothingInOrder == InOrder(<<>>)
BY DEF InOrder

\* So is a single one.
LEMMA SingleInOrder == \A a : InOrder(<<a>>)
BY DEF InOrder

\* Plain calls are not related to any other.
LEMMA PlainUnrelated ==
  ASSUME NEW a, NEW b, Plain(a) \/ Plain(b)
  PROVE  ~Precedes(a, b)
BY DEF Plain, Precedes, Settles, Withdraws, Applies, Judges

\* Two plans in order make one, if nothing in the second should precede the first.
LEMMA JoinedInOrder ==
  ASSUME NEW s \in Plans, NEW t \in Plans, InOrder(s), InOrder(t),
         \A a \in Range(t), b \in Range(s) : ~Precedes(a, b)
  PROVE  InOrder(s \o t)
<1>1. /\ s \o t \in Plans /\ Len(s \o t) = Len(s) + Len(t)
      /\ \A i \in 1..Len(s) + Len(t) : (s \o t)[i] = IF i <= Len(s) THEN s[i] ELSE t[i - Len(s)]
  BY ConcatProperties DEF Plans
<1>2. Len(s) \in Nat /\ Len(t) \in Nat /\ DOMAIN s = 1..Len(s) /\ DOMAIN t = 1..Len(t)
  BY LenProperties DEF Plans
<1> SUFFICES ASSUME NEW i \in 1..Len(s) + Len(t), NEW j \in 1..Len(s) + Len(t),
                    Precedes((s \o t)[i], (s \o t)[j])
             PROVE  i <= j
  BY <1>1 DEF InOrder
<1>3. CASE i <= Len(s) /\ j <= Len(s)
  <2>1. i \in 1..Len(s) /\ j \in 1..Len(s) /\ (s \o t)[i] = s[i] /\ (s \o t)[j] = s[j]
    BY <1>1, <1>2, <1>3
  <2> QED BY <2>1 DEF InOrder
<1>4. CASE i <= Len(s) /\ ~(j <= Len(s))
  BY <1>2, <1>4
<1>5. CASE ~(i <= Len(s)) /\ j <= Len(s)
  <2>1. /\ i - Len(s) \in 1..Len(t) /\ j \in 1..Len(s)
        /\ (s \o t)[i] = t[i - Len(s)] /\ (s \o t)[j] = s[j]
    BY <1>1, <1>2, <1>5
  <2>2. t[i - Len(s)] \in Range(t) /\ s[j] \in Range(s)
    BY <2>1, <1>2 DEF Range
  <2> QED BY <2>1, <2>2
<1>6. CASE ~(i <= Len(s)) /\ ~(j <= Len(s))
  <2>1. /\ i - Len(s) \in 1..Len(t) /\ j - Len(s) \in 1..Len(t)
        /\ (s \o t)[i] = t[i - Len(s)] /\ (s \o t)[j] = t[j - Len(s)]
    BY <1>1, <1>2, <1>6
  <2>2. i - Len(s) <= j - Len(s)
    BY <2>1 DEF InOrder
  <2> QED BY <2>1, <2>2, <1>2
<1> QED BY <1>3, <1>4, <1>5, <1>6

\* The rest of a plan in order is in order, and nothing in the plan precedes its head.
LEMMA RestInOrder ==
  ASSUME NEW s \in Plans, s # <<>>, InOrder(s)
  PROVE  InOrder(Tail(s)) /\ \A a \in Range(Tail(s)) : ~Precedes(a, Head(s))
<1>1. /\ Len(Tail(s)) = Len(s) - 1 /\ Len(s) \in Nat \ {0} /\ DOMAIN s = 1..Len(s) /\ Head(s) = s[1]
      /\ \A i \in 1..Len(Tail(s)) : Tail(s)[i] = s[i + 1]
  BY HeadTailProperties, LenProperties, EmptySeq DEF Plans
<1>2. InOrder(Tail(s))
  <2> SUFFICES ASSUME NEW i \in 1..Len(Tail(s)), NEW j \in 1..Len(Tail(s)),
                      Precedes(Tail(s)[i], Tail(s)[j])
               PROVE  i <= j
    BY DEF InOrder
  <2>1. /\ Tail(s)[i] = s[i + 1] /\ Tail(s)[j] = s[j + 1]
        /\ i + 1 \in 1..Len(s) /\ j + 1 \in 1..Len(s)
    BY <1>1
  <2>2. i + 1 <= j + 1
    BY <2>1 DEF InOrder
  <2> QED BY <2>2, <1>1
<1>3. ASSUME NEW i \in 1..Len(Tail(s)), Precedes(Tail(s)[i], Head(s))
      PROVE  FALSE
  <2>1. i + 1 \in 1..Len(s) /\ 1 \in 1..Len(s) /\ Tail(s)[i] = s[i + 1]
    BY <1>1
  <2>2. i + 1 <= 1
    BY <2>1, <1>1, <1>3 DEF InOrder
  <2> QED BY <2>2
<1>4. DOMAIN Tail(s) = 1..Len(Tail(s))
  <2>1. Tail(s) \in Plans
    BY HeadTailProperties DEF Plans
  <2> QED BY <2>1, LenProperties DEF Plans
<1> QED BY <1>2, <1>3, <1>4 DEF Range

-----------------------------------------------------------------------------
(* The plans of whole operations. *)

CreatedRoute(d) == IF cfg.route = "httproute" THEN RouteNew(d) ELSE IngressNew(d)
UpsertedRoute(d, ing, route) ==
    OtherGone(ing, route)
    \cup IF cfg.route = "httproute" THEN (IF route THEN RouteOld(d) ELSE RouteNew(d))
                                    ELSE (IF ing THEN IngressOld(d) ELSE IngressNew(d))
CreateCalls(d) ==
    {Call("tryCreate", "workload"), Call("create", "deploy"), Call("create", "hpa")} \cup Checked
    \cup {Call("create", "svc")} \cup (IF d.nodePort THEN {} ELSE CreatedRoute(d))
UpdateCalls(d) ==
    {Call("get", "deploy"), Call("update", "deploy"), Call("get", "hpa"), Call("update", "hpa"),
     Call("update", "svc")}
    \cup (IF d.nodePort THEN RoutesGone ELSE {Call("ingressSeen", "none"), Call("routeSeen", "none")})
    \cup {Call("tryDelete", "workload"), Call("tryCreate", "workload")} \cup Checked
DeleteCalls ==
    {Call("drop", "hpa"), Call("drop", "deploy"), Call("drop", "svc")} \cup RoutesGone
    \cup {Call("pods", "none"), Call("tryDelete", "workload")}

\* The calls on the routes and what belongs to them.
LEMMA RouteCallsArePlain ==
  ASSUME NEW d, NEW ing, NEW route,
         NEW c \in CreatedRoute(d) \cup UpsertedRoute(d, ing, route) \cup RoutesGone
  PROVE  Plain(c)
<1> USE DEF Call, Plain
<1>1. \A e \in RoutesGone : Plain(e)
  BY DEF RoutesGone
<1>2. \A e \in IngressNew(d) \cup IngressOld(d) : Plain(e)
  BY DEF IngressNew, IngressOld
<1>3. \A e \in RouteNew(d) \cup RouteOld(d) : Plain(e)
  BY DEF RouteNew, RouteOld, GatewayMissing
<1>4. \A e \in OtherGone(ing, route) : Plain(e)
  BY DEF OtherGone
<1> HIDE DEF Call, Plain
<1> QED BY <1>1, <1>2, <1>3, <1>4 DEF CreatedRoute, UpsertedRoute

\* A plan of plain calls only is in order.
LEMMA PlainPlan ==
  ASSUME NEW s \in Plans, \A c \in Range(s) : Plain(c)
  PROVE  InOrder(s)
BY Unrelated, PlainUnrelated

\* createRoute, upsertRoute and deleteRouteResources.
LEMMA RouteOperations ==
  ASSUME NEW d, NEW ing, NEW route
  PROVE  /\ createRoute(d) \in Plans /\ Range(createRoute(d)) = CreatedRoute(d)
         /\ InOrder(createRoute(d))
         /\ upsertRoute(d, ing, route) \in Plans
         /\ Range(upsertRoute(d, ing, route)) = UpsertedRoute(d, ing, route)
         /\ InOrder(upsertRoute(d, ing, route))
         /\ deleteRouteResources \in Plans /\ Range(deleteRouteResources) = RoutesGone
         /\ InOrder(deleteRouteResources)
<1>1. createRoute(d) \in Plans /\ Range(createRoute(d)) = CreatedRoute(d)
  BY RoutePlans DEF createRoute, CreatedRoute
<1>2. /\ Call("delete", "ingress") \in GoodCalls /\ Call("deleteIf", "secret") \in GoodCalls
      /\ Call("delete", "httproute") \in GoodCalls /\ Call("deleteIf", "cors") \in GoodCalls
      /\ Call("deleteIf", "ingress") \in GoodCalls /\ Call("deleteIf", "httproute") \in GoodCalls
      /\ Call("deleteIf", "authMdw") \in GoodCalls /\ Call("deleteIf", "authSec") \in GoodCalls
      /\ Call("dropIf", "secret") \in GoodCalls
  BY GoodOps DEF KindOps, Removes, Writes, Kinds
<1>3. /\ upsertRoute(d, ing, route) \in Plans
      /\ Range(upsertRoute(d, ing, route)) = UpsertedRoute(d, ing, route)
  <2>1. CASE cfg.route = "httproute"
    <3> DEFINE a == IF ing THEN <<Call("delete", "ingress")>> ELSE <<>>
               b == <<Call("deleteIf", "secret")>>
               c == IF route THEN updateHTTPRoute(d) ELSE createHTTPRoute(d)
    <3>1. a \in Plans /\ b \in Plans /\ c \in Plans
      BY <1>2, ShortPlans, RoutePlans
    <3>2. /\ Range(a) = IF ing THEN {Call("delete", "ingress")} ELSE {}
          /\ Range(b) = {Call("deleteIf", "secret")}
          /\ Range(c) = IF route THEN RouteOld(d) ELSE RouteNew(d)
      BY InTuple, RoutePlans
    <3>3. upsertRoute(d, ing, route) = (a \o b) \o c
      BY <2>1 DEF upsertRoute
    <3> HIDE DEF a, b, c
    <3>4. a \o b \in Plans /\ Range(a \o b) = Range(a) \cup Range(b)
      BY <3>1, Joined
    <3>5. (a \o b) \o c \in Plans /\ Range((a \o b) \o c) = Range(a) \cup Range(b) \cup Range(c)
      BY <3>1, <3>4, Joined
    <3> QED BY <2>1, <3>2, <3>3, <3>5 DEF UpsertedRoute, OtherGone
  <2>2. CASE cfg.route # "httproute"
    <3> DEFINE a == IF route THEN <<Call("delete", "httproute")>> ELSE <<>>
               b == <<Call("deleteIf", "cors")>>
               c == IF ing THEN updateIngress(d) ELSE createIngress(d)
    <3>1. a \in Plans /\ b \in Plans /\ c \in Plans
      BY <1>2, ShortPlans, RoutePlans
    <3>2. /\ Range(a) = IF route THEN {Call("delete", "httproute")} ELSE {}
          /\ Range(b) = {Call("deleteIf", "cors")}
          /\ Range(c) = IF ing THEN IngressOld(d) ELSE IngressNew(d)
      BY InTuple, RoutePlans
    <3>3. upsertRoute(d, ing, route) = (a \o b) \o c
      BY <2>2 DEF upsertRoute
    <3> HIDE DEF a, b, c
    <3>4. a \o b \in Plans /\ Range(a \o b) = Range(a) \cup Range(b)
      BY <3>1, Joined
    <3>5. (a \o b) \o c \in Plans /\ Range((a \o b) \o c) = Range(a) \cup Range(b) \cup Range(c)
      BY <3>1, <3>4, Joined
    <3> QED BY <2>2, <3>2, <3>3, <3>5 DEF UpsertedRoute, OtherGone
  <2> QED BY <2>1, <2>2
<1>4. deleteRouteResources \in Plans /\ Range(deleteRouteResources) = RoutesGone
  <2>1. deleteRouteResources \in Plans
    BY <1>2, ShortPlans DEF deleteRouteResources
  <2>2. \A a, b, c, e, f, g : Range(<<a, b, c, e, f, g>>) = {a, b, c, e, f, g}
    BY InTuple
  <2>3. Range(deleteRouteResources) = RoutesGone
    BY <2>2 DEF deleteRouteResources, RoutesGone
  <2> QED BY <2>1, <2>3
<1>5. /\ \A c \in CreatedRoute(d) : Plain(c)
      /\ \A c \in UpsertedRoute(d, ing, route) : Plain(c)
      /\ \A c \in RoutesGone : Plain(c)
  BY RouteCallsArePlain
<1>6. /\ \A c \in Range(createRoute(d)) : Plain(c)
      /\ \A c \in Range(upsertRoute(d, ing, route)) : Plain(c)
      /\ \A c \in Range(deleteRouteResources) : Plain(c)
  BY <1>1, <1>3, <1>4, <1>5
<1>7. InOrder(createRoute(d))
  BY <1>1, <1>6, PlainPlan
<1>8. InOrder(upsertRoute(d, ing, route))
  BY <1>3, <1>6, PlainPlan
<1>9. InOrder(deleteRouteResources)
  BY <1>4, <1>6, PlainPlan
<1> QED BY <1>1, <1>3, <1>4, <1>7, <1>8, <1>9

\* createDeployment, updateDeployment and deleteDeployment; UpdateWorkload and the check.
LEMMA DeploymentOperations ==
  ASSUME NEW d
  PROVE  /\ createDeployment(d) \in Plans /\ InOrder(createDeployment(d))
         /\ Range(createDeployment(d)) =
              {Call("tryCreate", "workload"), Call("create", "deploy"), Call("create", "hpa")} \cup Checked
         /\ updateDeployment(d) \in Plans /\ InOrder(updateDeployment(d))
         /\ Range(updateDeployment(d)) =
              {Call("get", "deploy"), Call("update", "deploy"), Call("get", "hpa"), Call("update", "hpa")}
         /\ deleteDeployment \in Plans /\ InOrder(deleteDeployment)
         /\ Range(deleteDeployment) = {Call("drop", "hpa"), Call("drop", "deploy")}
<1>1. /\ Call("tryCreate", "workload") \in GoodCalls /\ Call("create", "deploy") \in GoodCalls
      /\ Call("create", "hpa") \in GoodCalls /\ Call("check", "none") \in GoodCalls
      /\ Call("get", "deploy") \in GoodCalls /\ Call("update", "deploy") \in GoodCalls
      /\ Call("get", "hpa") \in GoodCalls /\ Call("update", "hpa") \in GoodCalls
      /\ Call("drop", "hpa") \in GoodCalls /\ Call("drop", "deploy") \in GoodCalls
  BY GoodOps DEF KindOps, Removes, Writes, Kinds
<1>2. /\ createDeployment(d) \in Plans /\ InOrder(createDeployment(d))
      /\ Range(createDeployment(d)) =
           {Call("tryCreate", "workload"), Call("create", "deploy"), Call("create", "hpa")} \cup Checked
  <2> DEFINE a == <<Call("tryCreate", "workload"), Call("create", "deploy"), Call("create", "hpa")>>
             b == IF cfg.kueue THEN <<Call("check", "none")>> ELSE <<>>
  <2>1. a \in Plans /\ b \in Plans
    BY <1>1, ShortPlans
  <2>2. /\ Range(a) = {Call("tryCreate", "workload"), Call("create", "deploy"), Call("create", "hpa")}
        /\ Range(b) = Checked
    <3>1. \A x, y, z : Range(<<x, y, z>>) = {x, y, z}
      BY InTuple
    <3>2. Range(b) = Checked
      BY InTuple DEF Checked
    <3> QED BY <3>1, <3>2
  <2>3. createDeployment(d) = a \o b
    BY DEF createDeployment
  <2> HIDE DEF a, b
  <2>4. InOrder(a)
    <3>1. \A x, y \in Range(a) : ~Precedes(x, y)
      BY <2>2 DEF Call, Precedes, Settles, Withdraws, Applies, Judges
    <3> QED BY <2>1, <3>1, Unrelated
  <2>5. InOrder(b) /\ \A x \in Range(b), y \in Range(a) : ~Precedes(x, y)
    <3>1. \A x \in Range(b), y \in Range(a) : ~Precedes(x, y)
      BY <2>2 DEF Checked, Call, Precedes, Settles, Withdraws, Applies, Judges
    <3>2. InOrder(b)
      BY NothingInOrder, SingleInOrder DEF b
    <3> QED BY <3>1, <3>2
  <2>6. a \o b \in Plans /\ Range(a \o b) = Range(a) \cup Range(b)
    BY <2>1, Joined
  <2>7. InOrder(a \o b)
    BY <2>1, <2>4, <2>5, JoinedInOrder
  <2> QED BY <2>2, <2>3, <2>6, <2>7
<1>3. /\ updateDeployment(d) \in Plans /\ InOrder(updateDeployment(d))
      /\ Range(updateDeployment(d)) =
           {Call("get", "deploy"), Call("update", "deploy"), Call("get", "hpa"), Call("update", "hpa")}
  <2>1. updateDeployment(d) \in Plans
    BY <1>1, ShortPlans DEF updateDeployment
  <2>2. Range(updateDeployment(d)) =
           {Call("get", "deploy"), Call("update", "deploy"), Call("get", "hpa"), Call("update", "hpa")}
    BY InTuple DEF updateDeployment
  <2>3. \A x, y \in Range(updateDeployment(d)) : ~Precedes(x, y)
    BY <2>2 DEF Call, Precedes, Settles, Withdraws, Applies, Judges
  <2> QED BY <2>1, <2>2, <2>3, Unrelated
<1>4. /\ deleteDeployment \in Plans /\ InOrder(deleteDeployment)
      /\ Range(deleteDeployment) = {Call("drop", "hpa"), Call("drop", "deploy")}
  <2>1. deleteDeployment \in Plans
    BY <1>1, ShortPlans DEF deleteDeployment
  <2>2. Range(deleteDeployment) = {Call("drop", "hpa"), Call("drop", "deploy")}
    BY InTuple DEF deleteDeployment
  <2>3. \A x, y \in Range(deleteDeployment) : ~Precedes(x, y)
    BY <2>2 DEF Call, Precedes, Settles, Withdraws, Applies, Judges
  <2> QED BY <2>1, <2>2, <2>3, Unrelated
<1> QED BY <1>2, <1>3, <1>4

\* CreateExpose.
LEMMA CreatePlan ==
  ASSUME NEW d
  PROVE  CreateExpose(d) \in Plans /\ Range(CreateExpose(d)) = CreateCalls(d) /\ InOrder(CreateExpose(d))
<1> DEFINE a == <<Call("create", "svc")>>
           b == IF d.nodePort THEN <<>> ELSE createRoute(d)
<1>1. Call("create", "svc") \in GoodCalls
  BY GoodOps DEF KindOps, Removes, Writes, Kinds
<1>2. /\ a \in Plans /\ Range(a) = {Call("create", "svc")}
      /\ b \in Plans /\ Range(b) = IF d.nodePort THEN {} ELSE CreatedRoute(d)
  BY <1>1, ShortPlans, InTuple, RouteOperations
<1>3. Plain(Call("create", "svc")) /\ \A c \in CreatedRoute(d) : Plain(c)
  BY RouteCallsArePlain DEF Plain, Call
<1>4. \A c \in Range(a) \cup Range(b) : Plain(c)
  BY <1>2, <1>3
<1>5. CreateExpose(d) = (createDeployment(d) \o a) \o b
  BY DEF CreateExpose
<1> HIDE DEF a, b
<1>6. /\ createDeployment(d) \o a \in Plans
      /\ Range(createDeployment(d) \o a) = Range(createDeployment(d)) \cup Range(a)
      /\ InOrder(createDeployment(d) \o a)
  BY <1>2, <1>4, DeploymentOperations, PlainPlan, PlainUnrelated, Joined, JoinedInOrder
<1>7. /\ (createDeployment(d) \o a) \o b \in Plans
      /\ Range((createDeployment(d) \o a) \o b) = Range(createDeployment(d)) \cup Range(a) \cup Range(b)
      /\ InOrder((createDeployment(d) \o a) \o b)
  BY <1>2, <1>4, <1>6, PlainPlan, PlainUnrelated, Joined, JoinedInOrder
<1> QED BY <1>2, <1>5, <1>7, DeploymentOperations DEF CreateCalls

\* UpdateExpose.
LEMMA UpdatePlan ==
  ASSUME NEW d
  PROVE  UpdateExpose(d) \in Plans /\ Range(UpdateExpose(d)) = UpdateCalls(d) /\ InOrder(UpdateExpose(d))
<1> DEFINE a == <<Call("update", "svc")>>
           look == <<Call("ingressSeen", "none"), Call("routeSeen", "none")>>
           b == IF d.nodePort THEN deleteRouteResources ELSE look
           c == IF cfg.kueue THEN <<Call("check", "none")>> ELSE <<>>
           Looks == {Call("ingressSeen", "none"), Call("routeSeen", "none")}
           Again == {Call("tryDelete", "workload"), Call("tryCreate", "workload")}
<1>1. /\ Call("update", "svc") \in GoodCalls /\ Call("ingressSeen", "none") \in GoodCalls
      /\ Call("routeSeen", "none") \in GoodCalls /\ Call("check", "none") \in GoodCalls
      /\ Call("tryDelete", "workload") \in GoodCalls /\ Call("tryCreate", "workload") \in GoodCalls
  BY GoodOps DEF KindOps, Removes, Writes, Kinds
<1>2. /\ a \in Plans /\ b \in Plans /\ look \in Plans /\ UpdateWorkload \in Plans /\ c \in Plans
      /\ Range(a) = {Call("update", "svc")} /\ Range(look) = Looks
      /\ Range(b) = (IF d.nodePort THEN RoutesGone ELSE Looks)
      /\ Range(UpdateWorkload) = Again /\ Range(c) = Checked
  BY <1>1, ShortPlans, InTuple, RouteOperations DEF UpdateWorkload, Checked
<1>3. InOrder(look)
  <2>1. /\ Len(look) = 2 /\ look[1] = Call("ingressSeen", "none")
        /\ look[2] = Call("routeSeen", "none")
    OBVIOUS
  <2>2. ~Precedes(look[2], look[1])
    BY <2>1 DEF Call, Precedes, Settles, Withdraws, Applies, Judges
  <2> HIDE DEF look
  <2> QED BY <2>1, <2>2 DEF InOrder
<1>4. UpdateExpose(d) = (((updateDeployment(d) \o a) \o b) \o UpdateWorkload) \o c
  BY DEF UpdateExpose
<1>5. Range(updateDeployment(d)) =
        {Call("get", "deploy"), Call("update", "deploy"), Call("get", "hpa"), Call("update", "hpa")}
  BY DeploymentOperations
<1>6. InOrder(a)
  <2>1. \A x, y \in {Call("update", "svc")} : ~Precedes(x, y)
    BY DEF Call, Precedes, Settles, Withdraws, Applies, Judges
  <2> QED BY <1>2, <2>1, Unrelated
<1>7. InOrder(b)
  BY <1>3, RouteOperations
<1>8. InOrder(UpdateWorkload)
  <2>1. \A x, y \in Again : ~Precedes(x, y)
    BY DEF Call, Precedes, Settles, Withdraws, Applies, Judges
  <2> QED BY <1>2, <2>1, Unrelated
<1>9. InOrder(c)
  BY NothingInOrder, SingleInOrder
<1>10. \A x \in Range(b) \cup Again \cup Checked, y \in Range(updateDeployment(d)) \cup Range(a) : ~Precedes(x, y)
  <2>1. \A x \in Looks \cup Again \cup Checked, y \in Range(updateDeployment(d)) \cup {Call("update", "svc")} :
           ~Precedes(x, y)
    BY <1>5 DEF Checked, Call, Precedes, Settles, Withdraws, Applies, Judges
  <2>2. \A x \in RoutesGone : Plain(x)
    BY RouteCallsArePlain
  <2> QED BY <1>2, <2>1, <2>2, PlainUnrelated
<1>11. \A x \in Again \cup Checked, y \in Range(b) : ~Precedes(x, y)
  <2>1. \A x \in Again \cup Checked, y \in Looks : ~Precedes(x, y)
    BY DEF Checked, Call, Precedes, Settles, Withdraws, Applies, Judges
  <2>2. \A x \in RoutesGone : Plain(x)
    BY RouteCallsArePlain
  <2> QED BY <1>2, <2>1, <2>2, PlainUnrelated
<1>12. \A x \in Checked, y \in Again : ~Precedes(x, y)
  BY DEF Checked, Call, Precedes, Settles, Withdraws, Applies, Judges
<1>13. \A x \in Range(a), y \in Range(updateDeployment(d)) : ~Precedes(x, y)
  BY <1>2, <1>5 DEF Call, Precedes, Settles, Withdraws, Applies, Judges
<1> HIDE DEF a, look, b, c
<1>14. /\ updateDeployment(d) \o a \in Plans
       /\ Range(updateDeployment(d) \o a) = Range(updateDeployment(d)) \cup Range(a)
       /\ InOrder(updateDeployment(d) \o a)
  BY <1>2, <1>6, <1>13, DeploymentOperations, Joined, JoinedInOrder
<1>15. /\ (updateDeployment(d) \o a) \o b \in Plans
       /\ Range((updateDeployment(d) \o a) \o b) = Range(updateDeployment(d)) \cup Range(a) \cup Range(b)
  BY <1>2, <1>14, Joined
<1>16. InOrder((updateDeployment(d) \o a) \o b)
  <2>1. \A x \in Range(b), y \in Range(updateDeployment(d) \o a) : ~Precedes(x, y)
    BY <1>10, <1>14
  <2> QED BY <2>1, <1>2, <1>7, <1>14, JoinedInOrder
<1>17. /\ ((updateDeployment(d) \o a) \o b) \o UpdateWorkload \in Plans
       /\ Range(((updateDeployment(d) \o a) \o b) \o UpdateWorkload)
            = Range(updateDeployment(d)) \cup Range(a) \cup Range(b) \cup Again
  BY <1>2, <1>15, Joined
<1>18. InOrder(((updateDeployment(d) \o a) \o b) \o UpdateWorkload)
  <2>1. \A x \in Range(UpdateWorkload), y \in Range((updateDeployment(d) \o a) \o b) : ~Precedes(x, y)
    BY <1>2, <1>10, <1>11, <1>15
  <2> QED BY <2>1, <1>2, <1>8, <1>15, <1>16, JoinedInOrder
<1>19. /\ (((updateDeployment(d) \o a) \o b) \o UpdateWorkload) \o c \in Plans
       /\ Range((((updateDeployment(d) \o a) \o b) \o UpdateWorkload) \o c)
            = Range(updateDeployment(d)) \cup Range(a) \cup Range(b) \cup Again \cup Range(c)
  BY <1>2, <1>17, Joined
<1>20. InOrder((((updateDeployment(d) \o a) \o b) \o UpdateWorkload) \o c)
  <2>1. \A x \in Range(c), y \in Range(((updateDeployment(d) \o a) \o b) \o UpdateWorkload) : ~Precedes(x, y)
    BY <1>2, <1>10, <1>11, <1>12, <1>17
  <2> QED BY <2>1, <1>2, <1>9, <1>17, <1>18, JoinedInOrder
<1>21. Range(UpdateExpose(d)) = UpdateCalls(d)
  BY <1>2, <1>4, <1>5, <1>19 DEF UpdateCalls
<1> QED BY <1>4, <1>19, <1>20, <1>21

\* DeleteExpose.
LEMMA DeletePlan ==
  /\ DeleteExpose \in Plans /\ Range(DeleteExpose) = DeleteCalls /\ InOrder(DeleteExpose)
<1> DEFINE a == <<Call("drop", "svc")>>
           b == <<Call("pods", "none"), Call("tryDelete", "workload")>>
           c == deleteRouteResources
<1>1. /\ Call("drop", "svc") \in GoodCalls /\ Call("pods", "none") \in GoodCalls
      /\ Call("tryDelete", "workload") \in GoodCalls
  BY GoodOps DEF KindOps, Removes, Writes, Kinds
<1>2. /\ a \in Plans /\ b \in Plans /\ Range(a) = {Call("drop", "svc")}
      /\ Range(b) = {Call("pods", "none"), Call("tryDelete", "workload")}
  BY <1>1, ShortPlans, InTuple
<1>3. c \in Plans /\ Range(c) = RoutesGone /\ InOrder(c) /\ \A x \in RoutesGone : Plain(x)
  BY RouteOperations, RouteCallsArePlain
<1>4. \A x, y \in {Call("drop", "svc")} : ~Precedes(x, y)
  BY DEF Call, Precedes, Settles, Withdraws, Applies, Judges
<1>5. \A x, y \in {Call("pods", "none"), Call("tryDelete", "workload")} : ~Precedes(x, y)
  BY DEF Call, Precedes, Settles, Withdraws, Applies, Judges
<1>6. \A x \in {Call("drop", "svc")}, y \in {Call("drop", "hpa"), Call("drop", "deploy")} : ~Precedes(x, y)
  BY DEF Call, Precedes, Settles, Withdraws, Applies, Judges
<1>7. \A x \in {Call("pods", "none"), Call("tryDelete", "workload")},
         y \in {Call("drop", "hpa"), Call("drop", "deploy"), Call("drop", "svc")} : ~Precedes(x, y)
  BY DEF Call, Precedes, Settles, Withdraws, Applies, Judges
<1>8. DeleteExpose = ((deleteDeployment \o a) \o c) \o b
  BY DEF DeleteExpose
<1>9. /\ deleteDeployment \in Plans /\ InOrder(deleteDeployment)
      /\ Range(deleteDeployment) = {Call("drop", "hpa"), Call("drop", "deploy")}
  BY DeploymentOperations
<1> HIDE DEF a, b, c
<1>10. /\ deleteDeployment \o a \in Plans
       /\ Range(deleteDeployment \o a) = Range(deleteDeployment) \cup Range(a)
  BY <1>2, <1>9, Joined
<1>11. InOrder(deleteDeployment \o a)
  <2>1. InOrder(a)
    BY <1>2, <1>4, Unrelated
  <2> QED BY <2>1, <1>2, <1>6, <1>9, JoinedInOrder
<1>12. /\ (deleteDeployment \o a) \o c \in Plans
       /\ Range((deleteDeployment \o a) \o c) = Range(deleteDeployment) \cup Range(a) \cup Range(c)
  BY <1>3, <1>10, Joined
<1>13. InOrder((deleteDeployment \o a) \o c)
  BY <1>3, <1>10, <1>11, PlainUnrelated, JoinedInOrder
<1>14. /\ ((deleteDeployment \o a) \o c) \o b \in Plans
       /\ Range(((deleteDeployment \o a) \o c) \o b)
            = Range(deleteDeployment) \cup Range(a) \cup Range(c) \cup Range(b)
  BY <1>2, <1>12, Joined
<1>15. InOrder(((deleteDeployment \o a) \o c) \o b)
  <2>1. InOrder(b)
    BY <1>2, <1>5, Unrelated
  <2>2. \A x \in Range(b), y \in Range((deleteDeployment \o a) \o c) : ~Precedes(x, y)
    BY <1>2, <1>3, <1>7, <1>9, <1>12, PlainUnrelated
  <2> QED BY <2>1, <2>2, <1>2, <1>12, <1>13, JoinedInOrder
<1>16. Range(DeleteExpose) = DeleteCalls
  BY <1>2, <1>3, <1>8, <1>9, <1>14 DEF DeleteCalls
<1> QED BY <1>8, <1>14, <1>15, <1>16

\* The calls with which a create, and a delete of a service defined by d, begin.
StartOfCreate(d) ==
    (IF Gated THEN <<Call("tryCreate", "localQueue")>> ELSE <<>>)
    \o <<Call("publish", "none")>> \o (IF d.exposed THEN CreateExpose(d) ELSE <<>>)
StartOfDelete(d) ==
    DeleteOf(d) \o (IF cfg.kueue THEN <<Call("tryDelete", "localQueue")>> ELSE <<>>)

CreateStartCalls(d) ==
    (IF Gated THEN {Call("tryCreate", "localQueue")} ELSE {}) \cup {Call("publish", "none")}
    \cup (IF d.exposed THEN CreateCalls(d) ELSE {})
DeleteStartCalls(d) ==
    (IF d.exposed THEN DeleteCalls ELSE {})
    \cup (IF cfg.kueue THEN {Call("tryDelete", "localQueue")} ELSE {})

\* Updates, their undoing and deletes of services that may or may not be exposed.
LEMMA OperationPlans ==
  ASSUME NEW d
  PROVE  /\ UpdateOf(d) \in Plans /\ InOrder(UpdateOf(d)) /\ UndoUpdate(d) = UpdateOf(d)
         /\ Range(UpdateOf(d)) = IF d.exposed THEN UpdateCalls(d) ELSE {}
         /\ DeleteOf(d) \in Plans /\ InOrder(DeleteOf(d))
         /\ Range(DeleteOf(d)) = IF d.exposed THEN DeleteCalls ELSE {}
<1>1. <<>> \in Plans /\ Range(<<>>) = {} /\ InOrder(<<>>)
  <2>1. <<>> \in Plans /\ Range(<<>>) = {}
    BY ShortPlans, InTuple
  <2> QED BY <2>1, PlainPlan
<1>2. UndoUpdate(d) = UpdateOf(d)
  BY DEF UndoUpdate
<1> QED BY <1>1, <1>2, UpdatePlan, DeletePlan DEF UpdateOf, DeleteOf

\* Creates and deletes from their beginning.
LEMMA StartPlans ==
  ASSUME NEW d
  PROVE  /\ StartOfCreate(d) \in Plans /\ InOrder(StartOfCreate(d))
         /\ Range(StartOfCreate(d)) = CreateStartCalls(d)
         /\ StartOfDelete(d) \in Plans /\ InOrder(StartOfDelete(d))
         /\ Range(StartOfDelete(d)) = DeleteStartCalls(d)
<1> DEFINE a == IF Gated THEN <<Call("tryCreate", "localQueue")>> ELSE <<>>
           b == <<Call("publish", "none")>>
           c == IF d.exposed THEN CreateExpose(d) ELSE <<>>
           q == IF cfg.kueue THEN <<Call("tryDelete", "localQueue")>> ELSE <<>>
<1>1. /\ Call("tryCreate", "localQueue") \in GoodCalls /\ Call("publish", "none") \in GoodCalls
      /\ Call("tryDelete", "localQueue") \in GoodCalls
  BY GoodOps
<1>2. /\ Plain(Call("tryCreate", "localQueue")) /\ Plain(Call("tryDelete", "localQueue"))
      /\ \A x : ~Precedes(x, Call("publish", "none"))
  BY DEF Plain, Call, Precedes, Judges, Withdraws, Applies
<1>3. /\ a \in Plans /\ Range(a) = IF Gated THEN {Call("tryCreate", "localQueue")} ELSE {}
      /\ b \in Plans /\ Range(b) = {Call("publish", "none")}
      /\ q \in Plans /\ Range(q) = IF cfg.kueue THEN {Call("tryDelete", "localQueue")} ELSE {}
  BY <1>1, ShortPlans, InTuple
<1>4. \A x \in Range(a) \cup Range(q) : Plain(x)
  BY <1>2, <1>3
<1>5. InOrder(a) /\ InOrder(b) /\ InOrder(q)
  BY <1>3, <1>4, PlainPlan, SingleInOrder
<1>6. c \in Plans /\ InOrder(c) /\ Range(c) = IF d.exposed THEN CreateCalls(d) ELSE {}
  <2>1. <<>> \in Plans /\ Range(<<>>) = {} /\ InOrder(<<>>)
    <3>1. <<>> \in Plans /\ Range(<<>>) = {}
      BY ShortPlans, InTuple
    <3> QED BY <3>1, PlainPlan
  <2> QED BY <2>1, CreatePlan
<1>7. StartOfCreate(d) = (a \o b) \o c
  BY DEF StartOfCreate
<1>8. StartOfDelete(d) = DeleteOf(d) \o q
  BY DEF StartOfDelete
<1> HIDE DEF a, b, c, q
<1>9. a \o b \in Plans /\ Range(a \o b) = Range(a) \cup Range(b)
  BY <1>3, Joined
<1>10. InOrder(a \o b)
  BY <1>3, <1>4, <1>5, PlainUnrelated, JoinedInOrder
<1>17. \A x, y : y \in Range(a) \cup Range(b) => ~Precedes(x, y)
  BY <1>2, <1>3, <1>4, PlainUnrelated
<1>11. (a \o b) \o c \in Plans /\ Range((a \o b) \o c) = Range(a) \cup Range(b) \cup Range(c)
  BY <1>6, <1>9, Joined
<1>12. InOrder((a \o b) \o c)
  <2>1. \A x \in Range(c), y \in Range(a \o b) : ~Precedes(x, y)
    BY <1>17, <1>9
  <2> QED BY <2>1, <1>6, <1>9, <1>10, JoinedInOrder
<1>13. DeleteOf(d) \o q \in Plans /\ Range(DeleteOf(d) \o q) = Range(DeleteOf(d)) \cup Range(q)
  BY <1>3, OperationPlans, Joined
<1>14. InOrder(DeleteOf(d) \o q)
  BY <1>3, <1>4, <1>5, OperationPlans, PlainUnrelated, JoinedInOrder
<1>15. Range(StartOfCreate(d)) = CreateStartCalls(d)
  BY <1>3, <1>6, <1>7, <1>11 DEF CreateStartCalls
<1>16. Range(StartOfDelete(d)) = DeleteStartCalls(d)
  BY <1>3, <1>8, <1>13, OperationPlans DEF DeleteStartCalls
<1> QED BY <1>7, <1>8, <1>11, <1>12, <1>13, <1>14, <1>15, <1>16

-----------------------------------------------------------------------------
(* Types, and what a plan is at any time. *)

\* What request r has still to do is a plan in order, it is nothing when r is not in
\* progress, and a request in progress has the definitions that it needs.
Planned(r) ==
    /\ todo[r] \in Plans /\ InOrder(todo[r])
    /\ todo[r] # <<>> => r \in InFlight
    /\ r \in InFlight => def[r] \in Defs
    /\ phase[r] \in {"update", "undo"} => prior[r] \in Defs

Typed == TypeOK /\ \A r \in Reqs : Planned(r)

Left(r) == Range(todo[r])
Rest(r) == Range(Tail(todo[r]))

\* A request at a call has it before it and the rest behind that.
LEMMA AtCall ==
  ASSUME Typed, NEW r \in Reqs, todo[r] # <<>>
  PROVE  /\ Head1(r) \in GoodCalls /\ Tail(todo[r]) \in Plans
         /\ Left(r) = {Head1(r)} \cup Rest(r)
         /\ InOrder(Tail(todo[r])) /\ \A a \in Rest(r) : ~Precedes(a, Head1(r))
         /\ r \in InFlight /\ def[r] \in Defs
<1>1. todo[r] \in Plans /\ InOrder(todo[r]) /\ r \in InFlight /\ def[r] \in Defs
  BY DEF Typed, Planned
<1>2. Head(todo[r]) \in GoodCalls /\ Tail(todo[r]) \in Plans
      /\ Range(todo[r]) = {Head(todo[r])} \cup Range(Tail(todo[r]))
  BY <1>1, InRest DEF Plans
<1> QED BY <1>1, <1>2, RestInOrder DEF Left, Rest, Head1

\* After a call the request goes on with the calls s and then the rest.
LEMMA GoneOn ==
  ASSUME Typed, NEW r \in Reqs, todo[r] # <<>>, NEW s \in Plans, InOrder(s), GoOn(r, s),
         \A b \in Range(s) : Plain(b) \/ (Judges(Head1(r)) /\ (Judges(b) \/ Withdraws(b)))
  PROVE  /\ todo'[r] \in Plans /\ InOrder(todo'[r]) /\ Range(todo'[r]) = Range(s) \cup Rest(r)
         /\ \A q \in Reqs \ {r} : todo'[q] = todo[q]
         /\ todo' \in [Reqs -> Seq(Calls)]
<1>1. /\ Tail(todo[r]) \in Plans /\ InOrder(Tail(todo[r])) /\ Left(r) = {Head1(r)} \cup Rest(r)
      /\ \A a \in Rest(r) : ~Precedes(a, Head1(r))
  BY AtCall
<1>2. /\ s \o Tail(todo[r]) \in Plans /\ Range(s \o Tail(todo[r])) = Range(s) \cup Rest(r)
  BY <1>1, Joined DEF Rest
<1>3. ASSUME NEW a \in Range(Tail(todo[r])), NEW b \in Range(s), Precedes(a, b)
      PROVE  FALSE
  <2>1. ~Plain(b)
    BY <1>3, PlainUnrelated
  <2>2. Judges(Head1(r)) /\ (Judges(b) \/ Withdraws(b))
    BY <2>1
  <2>3. Precedes(a, Head1(r))
    BY <2>2, <1>3 DEF Precedes, Judges, Withdraws, Plain
  <2> QED BY <2>3, <1>1 DEF Rest
<1>4. InOrder(s \o Tail(todo[r]))
  BY <1>1, <1>3, JoinedInOrder
<1>5. todo \in [Reqs -> Seq(Calls)] /\ todo' = [todo EXCEPT ![r] = s \o Tail(todo[r])]
  BY DEF Typed, TypeOK, GoOn
<1>6. GoodCalls \subseteq Calls
  BY DEF GoodCalls
<1>7. s \o Tail(todo[r]) \in Seq(Calls)
  BY <1>2, <1>6, SeqMonotonic DEF Plans
<1> QED BY <1>2, <1>4, <1>5, <1>7

\* What CheckWorkloadAdmited makes its caller do when the Workload is not admitted.
NotAdmitted(r) ==
    (IF phase[r] = "create" THEN <<Call("tryDelete", "localQueue")>> ELSE <<>>) \o <<Call("fail", "none")>>
NotAdmittedCalls(r) ==
    (IF phase[r] = "create" THEN {Call("tryDelete", "localQueue")} ELSE {}) \cup {Call("fail", "none")}

\* The plans that calls make as they return.
LEMMA SmallPlans ==
  ASSUME NEW r
  PROVE  /\ NotAdmitted(r) \in Plans /\ InOrder(NotAdmitted(r))
         /\ Range(NotAdmitted(r)) = NotAdmittedCalls(r)
         /\ \A c \in NotAdmittedCalls(r) : Plain(c)
         /\ <<Call("tryDelete", "workload")>> \o NotAdmitted(r) \in Plans
         /\ InOrder(<<Call("tryDelete", "workload")>> \o NotAdmitted(r))
         /\ Range(<<Call("tryDelete", "workload")>> \o NotAdmitted(r))
              = {Call("tryDelete", "workload")} \cup NotAdmittedCalls(r)
         /\ <<Call("scale", "none")>> \in Plans /\ InOrder(<<Call("scale", "none")>>)
         /\ Range(<<Call("scale", "none")>>) = {Call("scale", "none")}
         /\ <<>> \in Plans /\ InOrder(<<>>) /\ Range(<<>>) = {}
<1>1. /\ Call("tryDelete", "localQueue") \in GoodCalls /\ Call("fail", "none") \in GoodCalls
      /\ Call("tryDelete", "workload") \in GoodCalls /\ Call("scale", "none") \in GoodCalls
  BY GoodOps
<1>2. Plain(Call("tryDelete", "localQueue")) /\ Plain(Call("fail", "none"))
  BY DEF Plain, Call
<1>3. <<>> \in Plans /\ Range(<<>>) = {} /\ InOrder(<<>>)
  <2>1. <<>> \in Plans /\ Range(<<>>) = {}
    BY ShortPlans, InTuple
  <2> QED BY <2>1, PlainPlan
<1>4. NotAdmitted(r) \in Plans /\ Range(NotAdmitted(r)) = NotAdmittedCalls(r)
  <2> DEFINE a == IF phase[r] = "create" THEN <<Call("tryDelete", "localQueue")>> ELSE <<>>
             b == <<Call("fail", "none")>>
  <2>1. /\ a \in Plans
        /\ Range(a) = IF phase[r] = "create" THEN {Call("tryDelete", "localQueue")} ELSE {}
    BY <1>1, ShortPlans, InTuple
  <2>2. b \in Plans /\ Range(b) = {Call("fail", "none")}
    BY <1>1, ShortPlans, InTuple
  <2>3. NotAdmitted(r) = a \o b
    BY DEF NotAdmitted
  <2> HIDE DEF a, b
  <2>4. a \o b \in Plans /\ Range(a \o b) = Range(a) \cup Range(b)
    BY <2>1, <2>2, Joined
  <2> QED BY <2>1, <2>2, <2>3, <2>4 DEF NotAdmittedCalls
<1>5. \A c \in NotAdmittedCalls(r) : Plain(c)
  BY <1>2 DEF NotAdmittedCalls
<1>6. InOrder(NotAdmitted(r))
  BY <1>4, <1>5, PlainPlan
<1>7. /\ <<Call("tryDelete", "workload")>> \in Plans
      /\ Range(<<Call("tryDelete", "workload")>>) = {Call("tryDelete", "workload")}
      /\ <<Call("scale", "none")>> \in Plans
      /\ Range(<<Call("scale", "none")>>) = {Call("scale", "none")}
  BY <1>1, ShortPlans, InTuple
<1>9. InOrder(<<Call("tryDelete", "workload")>>) /\ InOrder(<<Call("scale", "none")>>)
  BY SingleInOrder
<1>10. /\ <<Call("tryDelete", "workload")>> \o NotAdmitted(r) \in Plans
       /\ Range(<<Call("tryDelete", "workload")>> \o NotAdmitted(r))
            = {Call("tryDelete", "workload")} \cup NotAdmittedCalls(r)
  BY <1>4, <1>7, Joined
<1>11. InOrder(<<Call("tryDelete", "workload")>> \o NotAdmitted(r))
  BY <1>4, <1>5, <1>6, <1>7, <1>9, PlainUnrelated, JoinedInOrder
<1> QED BY <1>3, <1>4, <1>5, <1>6, <1>7, <1>9, <1>10, <1>11

\* A lone call on an object that is looked for first.
LEMMA NextCall ==
  ASSUME NEW c \in GoodCalls, c.op \in {"deleteIf", "dropIf", "upsert"},
         NEW o \in {"delete", "drop", "update", "create"}
  PROVE  /\ <<Call(o, c.kind)>> \in Plans /\ InOrder(<<Call(o, c.kind)>>)
         /\ Range(<<Call(o, c.kind)>>) = {Call(o, c.kind)} /\ Plain(Call(o, c.kind))
<1>1. c.kind \in Kinds \ {"workload", "localQueue", "deploy"}
  BY DEF GoodCalls, Fits, KindOps, Removes, Writes
<1>2. Call(o, c.kind) \in GoodCalls
  BY <1>1, GoodOps DEF KindOps, Removes, Writes
<1>3. Plain(Call(o, c.kind))
  BY <1>1 DEF Plain, Call
<1>4. <<Call(o, c.kind)>> \in Plans /\ Range(<<Call(o, c.kind)>>) = {Call(o, c.kind)}
  BY <1>2, ShortPlans, InTuple
<1> QED BY <1>3, <1>4, PlainPlan

Object == [def : Defs, replicas : Nat]

\* What a definition makes is an object.
LEMMA NewObjects ==
  ASSUME NEW d \in Defs, NEW k
  PROVE  /\ NewObj(k, d) \in Object /\ NewObj(k, d) # None /\ NewObj(k, d).def = d
         /\ [def |-> d, replicas |-> d.min] \in Object /\ [def |-> d, replicas |-> d.min] # None
         /\ d.min \in Nat
<1>1. d.min \in Nat
  BY SettingsAssumption DEF ExposeSettings
<1> QED BY <1>1, NoneAssumption DEF NewObj, getDeploymentSpec, Object

\* A call that goes on keeps the types.
LEMMA GoneOnTyped ==
  ASSUME Typed, NEW r \in Reqs, todo[r] # <<>>, NEW s \in Plans, InOrder(s), GoOn(r, s),
         \A b \in Range(s) : Plain(b) \/ (Judges(Head1(r)) /\ (Judges(b) \/ Withdraws(b))),
         obj' \in [Kinds -> Object \cup {None}], admitted' \in BOOLEAN,
         seen' \in [Reqs -> BOOLEAN], clean' \in [Reqs -> BOOLEAN], faults' \in Nat
  PROVE  Typed'
<1>1. /\ todo'[r] \in Plans /\ InOrder(todo'[r])
      /\ \A q \in Reqs \ {r} : todo'[q] = todo[q]
      /\ todo' \in [Reqs -> Seq(Calls)]
  BY GoneOn
<1>2. UNCHANGED <<cfg, reg, phase, def, prior, ans, served, overlaps, restarts>>
  BY DEF GoOn
<1>3. TypeOK'
  BY <1>1, <1>2 DEF Typed, TypeOK, Object
<1>4. ASSUME NEW q \in Reqs PROVE Planned(q)'
  <2>1. CASE q = r
    BY <2>1, <1>1, <1>2, AtCall DEF Typed, Planned, InFlight
  <2>2. CASE q # r
    BY <2>2, <1>1, <1>2 DEF Typed, Planned, InFlight
  <2> QED BY <2>1, <2>2
<1> QED BY <1>3, <1>4 DEF Typed

\* A call that returns an error keeps the types.
LEMMA AbortTyped ==
  ASSUME Typed, NEW r \in Reqs, todo[r] # <<>>, Abort(r), UNCHANGED <<obj, admitted, seen>>,
         clean' \in [Reqs -> BOOLEAN], faults' \in Nat
  PROVE  Typed'
<1> USE DEF Typed, TypeOK
<1>1. /\ UpdateOf(prior[r]) \in Plans /\ InOrder(UpdateOf(prior[r]))
      /\ UndoUpdate(prior[r]) = UpdateOf(prior[r])
      /\ DeleteOf(def[r]) \in Plans /\ InOrder(DeleteOf(def[r]))
      /\ <<>> \in Plans /\ InOrder(<<>>)
  BY OperationPlans, SmallPlans
<1>2. Plans \subseteq Seq(Calls)
  BY SeqMonotonic DEF Plans, GoodCalls
<1>3. def[r] \in Defs /\ r \in InFlight
  BY AtCall
<1>4. phase[r] = "update" => prior[r] \in Defs
  BY DEF Planned
<1>5. UNCHANGED <<cfg, prior, served, overlaps, restarts>>
  BY DEF Abort
<1>6. \E s \in Plans, p \in Phases :
        /\ InOrder(s) /\ Begin(r, p, s) /\ (s # <<>> => p \in {"rollback", "undo"})
        /\ ans' \in [Reqs -> {"none", "ok", "error", "lost"}]
        /\ \/ UNCHANGED def /\ p # "update" /\ p # "undo"
           \/ p = "undo" /\ prior[r] \in Defs /\ def' = [def EXCEPT ![r] = prior[r]]
        /\ reg' \in [def : Defs, route : {"ingress", "httproute"}] \cup {None}
  <2>1. \/ /\ Begin(r, "done", <<>>) /\ UNCHANGED <<reg, def>>
           /\ ans' = [ans EXCEPT ![r] = "error"]
        \/ /\ reg' = None /\ Begin(r, "rollback", DeleteOf(def[r])) /\ UNCHANGED <<ans, def>>
        \/ /\ phase[r] = "update" /\ UNCHANGED ans
           /\ reg' = [def |-> prior[r], route |-> cfg.route]
           /\ def' = [def EXCEPT ![r] = prior[r]]
           /\ Begin(r, "undo", UpdateOf(prior[r]))
    BY <1>1 DEF Abort
  <2>2. cfg.route \in {"ingress", "httproute"}
    BY ConfigAssumption DEF ConfigType
  <2>3. {"done", "rollback", "undo"} \subseteq Phases
    BY DEF Phases
  <2>4. CASE Begin(r, "done", <<>>) /\ UNCHANGED <<reg, def>> /\ ans' = [ans EXCEPT ![r] = "error"]
    BY <2>3, <2>4, <1>1
  <2>5. CASE reg' = None /\ Begin(r, "rollback", DeleteOf(def[r])) /\ UNCHANGED <<ans, def>>
    BY <2>3, <2>5, <1>1
  <2>6. CASE /\ phase[r] = "update" /\ UNCHANGED ans
             /\ reg' = [def |-> prior[r], route |-> cfg.route]
             /\ def' = [def EXCEPT ![r] = prior[r]]
             /\ Begin(r, "undo", UpdateOf(prior[r]))
    <3>1. /\ UpdateOf(prior[r]) \in Plans /\ InOrder(UpdateOf(prior[r])) /\ "undo" \in Phases
          /\ prior[r] \in Defs
          /\ reg' \in [def : Defs, route : {"ingress", "httproute"}]
      BY <2>2, <2>3, <2>6, <1>1, <1>4
    <3> QED BY <3>1, <2>6
  <2> QED BY <2>1, <2>4, <2>5, <2>6
<1>7. PICK s \in Plans, p \in Phases :
        /\ InOrder(s) /\ Begin(r, p, s) /\ (s # <<>> => p \in {"rollback", "undo"})
        /\ ans' \in [Reqs -> {"none", "ok", "error", "lost"}]
        /\ \/ UNCHANGED def /\ p # "update" /\ p # "undo"
           \/ p = "undo" /\ prior[r] \in Defs /\ def' = [def EXCEPT ![r] = prior[r]]
        /\ reg' \in [def : Defs, route : {"ingress", "httproute"}] \cup {None}
  BY <1>6
<1>8. TypeOK'
  BY <1>2, <1>5, <1>7 DEF Begin
<1>9. ASSUME NEW q \in Reqs PROVE Planned(q)'
  <2>1. CASE q = r
    BY <2>1, <1>3, <1>5, <1>7 DEF Begin, Planned, InFlight
  <2>2. CASE q # r
    BY <2>2, <1>5, <1>7 DEF Begin, Planned, InFlight
  <2> QED BY <2>1, <2>2
<1> QED BY <1>8, <1>9

\* What a call may write keeps the types of the objects.
LEMMA PutTyped ==
  ASSUME TypeOK, NEW k \in Kinds, NEW o \in Object \cup {None}, Put(k, o)
  PROVE  /\ obj' \in [Kinds -> Object \cup {None}] /\ admitted' \in BOOLEAN
         /\ seen' \in [Reqs -> BOOLEAN]
BY DEF TypeOK, Put, Object

\* A faulty call, or one without a fault, keeps the types of the books.
LEMMA BooksTyped ==
  ASSUME TypeOK, NEW r \in Reqs, Kept \/ Fault(r) \/ (Fresh(r) /\ UNCHANGED faults)
  PROVE  clean' \in [Reqs -> BOOLEAN] /\ faults' \in Nat
<1>1. clean \in [Reqs -> BOOLEAN] /\ faults \in Nat
  BY DEF TypeOK
<1>2. \A b \in BOOLEAN : [clean EXCEPT ![r] = b] \in [Reqs -> BOOLEAN]
  BY <1>1
<1>3. CASE Kept
  BY <1>1, <1>3 DEF Kept
<1>4. CASE Fault(r)
  BY <1>1, <1>2, <1>4 DEF Fault
<1>5. CASE Fresh(r) /\ UNCHANGED faults
  <2>1. \E b \in BOOLEAN : clean' = [clean EXCEPT ![r] = b]
    BY <1>5, Zenon DEF Fresh
  <2> QED BY <2>1, <1>1, <1>2, <1>5
<1> QED BY <1>3, <1>4, <1>5

\* A call that returns an error does.
LEMMA FailsTyped ==
  ASSUME Typed, NEW r \in Reqs, todo[r] # <<>>, CallFails(r) \/ Refused(r)
  PROVE  Typed'
<1>1. /\ Abort(r) /\ UNCHANGED <<obj, admitted, seen>> /\ Fresh(r)
      /\ UNCHANGED faults \/ faults' = faults + 1
  BY DEF CallFails, Refused
<1>2. TypeOK /\ faults \in Nat
  BY DEF Typed, TypeOK
<1>3. clean \in [Reqs -> BOOLEAN] /\ \E b \in BOOLEAN : clean' = [clean EXCEPT ![r] = b]
  BY <1>1, <1>2, Zenon DEF Fresh, TypeOK
<1>4. clean' \in [Reqs -> BOOLEAN] /\ faults' \in Nat
  BY <1>1, <1>2, <1>3
<1> QED BY <1>1, <1>4, AbortTyped

\* A call that writes and goes on does.
LEMMA PutOnTyped ==
  ASSUME Typed, NEW r \in Reqs, todo[r] # <<>>, NEW k \in Kinds, NEW o \in Object \cup {None},
         Put(k, o), GoOn(r, <<>>), Kept
  PROVE  Typed'
<1>1. TypeOK
  BY DEF Typed
<1>2. <<>> \in Plans /\ InOrder(<<>>) /\ Range(<<>>) = {}
  BY SmallPlans
<1> QED BY <1>1, <1>2, PutTyped, BooksTyped, GoneOnTyped

\* A call that writes nothing and goes on does.
LEMMA LookOnTyped ==
  ASSUME Typed, NEW r \in Reqs, todo[r] # <<>>, NEW s \in Plans, InOrder(s), GoOn(r, s),
         \A b \in Range(s) : Plain(b) \/ (Judges(Head1(r)) /\ (Judges(b) \/ Withdraws(b))),
         Look \/ (UNCHANGED <<obj, admitted>> /\ seen' \in [Reqs -> BOOLEAN]),
         Kept \/ Fault(r)
  PROVE  Typed'
<1>1. TypeOK
  BY DEF Typed
<1>2. clean' \in [Reqs -> BOOLEAN] /\ faults' \in Nat
  BY <1>1, BooksTyped
<1>3. /\ obj' \in [Kinds -> Object \cup {None}] /\ admitted' \in BOOLEAN
      /\ seen' \in [Reqs -> BOOLEAN]
  BY <1>1 DEF TypeOK, Look, Object
<1> QED BY <1>2, <1>3, GoneOnTyped

\* Every step of a request does.
LEMMA StepTyped ==
  ASSUME Typed, NEW r \in Reqs, Step(r)
  PROVE  Typed'
<1>1. TypeOK
  BY DEF Typed
<1>2. /\ <<>> \in Plans /\ InOrder(<<>>) /\ Range(<<>>) = {}
      /\ todo[r] # <<>> => /\ def[r] \in Defs /\ Head1(r) \in GoodCalls
                           /\ Head1(r).op \in KindOps => K(r) \in Kinds
  BY SmallPlans, AtCall DEF GoodCalls, Fits, K
<1>3. todo[r] # <<>> => /\ \A k \in Kinds : NewObj(k, def[r]) \in Object \cup {None}
                        /\ [def |-> def[r], replicas |-> def[r].min] \in Object
  BY <1>2, NewObjects
<1>4. CASE Create(r)
  <2>1. todo[r] # <<>> /\ K(r) \in Kinds
    BY <1>2, <1>4 DEF Create, At, KindOps, Writes
  <2> QED BY <2>1, <1>3, <1>4, PutOnTyped, FailsTyped DEF Create
<1>5. CASE Update(r)
  <2>1. todo[r] # <<>> /\ K(r) \in Kinds
    BY <1>2, <1>5 DEF Update, At, KindOps, Writes
  <2> QED BY <2>1, <1>3, <1>5, PutOnTyped, FailsTyped DEF Update
<1>6. CASE Get(r)
  BY <1>2, <1>6, LookOnTyped, FailsTyped DEF Get, At
<1>7. CASE Delete(r)
  <2>1. todo[r] # <<>> /\ K(r) \in Kinds
    BY <1>2, <1>7 DEF Delete, At, KindOps, Removes
  <2> QED BY <2>1, <1>7, PutOnTyped, FailsTyped DEF Delete
<1>8. CASE Drop(r)
  <2>1. todo[r] # <<>> /\ K(r) \in Kinds
    BY <1>2, <1>8 DEF Drop, At, KindOps, Removes
  <2> QED BY <2>1, <1>8, PutOnTyped, FailsTyped DEF Drop
<1>9. CASE DeletePods(r)
  BY <1>2, <1>9, LookOnTyped, FailsTyped DEF DeletePods, At
<1>10. CASE DeleteIf(r)
  <2>1. todo[r] # <<>> /\ Head1(r).op \in {"deleteIf", "dropIf", "upsert"}
    BY <1>10 DEF DeleteIf, At
  <2>2. \A o \in {"delete", "drop", "update", "create"} :
          /\ <<Call(o, K(r))>> \in Plans /\ InOrder(<<Call(o, K(r))>>)
          /\ \A b \in Range(<<Call(o, K(r))>>) : Plain(b)
    BY <1>2, <2>1, NextCall DEF K
  <2>3. \E s \in Plans : InOrder(s) /\ GoOn(r, s) /\ (\A b \in Range(s) : Plain(b)) /\ Look /\ (Kept \/ Fault(r))
    BY <1>2, <1>10, <2>2 DEF DeleteIf
  <2> QED BY <2>1, <2>3, LookOnTyped
<1>11. CASE Upsert(r)
  <2>1. todo[r] # <<>> /\ Head1(r).op \in {"deleteIf", "dropIf", "upsert"}
    BY <1>11 DEF Upsert, At
  <2>2. \A o \in {"delete", "drop", "update", "create"} :
          /\ <<Call(o, K(r))>> \in Plans /\ InOrder(<<Call(o, K(r))>>)
          /\ \A b \in Range(<<Call(o, K(r))>>) : Plain(b)
    BY <1>2, <2>1, NextCall DEF K
  <2>3. \E s \in Plans : InOrder(s) /\ GoOn(r, s) /\ (\A b \in Range(s) : Plain(b)) /\ Look /\ (Kept \/ Fault(r))
    BY <1>11, <2>2 DEF Upsert
  <2> QED BY <2>1, <2>3, LookOnTyped
<1>12. CASE SeeIngress(r)
  <2>1. todo[r] # <<>> /\ GoOn(r, <<>>) /\ UNCHANGED <<obj, admitted>> /\ (Kept \/ Fault(r))
    BY <1>12 DEF SeeIngress, At
  <2>2. seen' \in [Reqs -> BOOLEAN]
    BY <1>1, <1>12 DEF SeeIngress, Exists, TypeOK
  <2> QED BY <1>2, <2>1, <2>2, LookOnTyped
<1>13. CASE SeeRoute(r)
  <2>1. todo[r] # <<>> /\ Look /\ (Kept \/ Fault(r))
    BY <1>13 DEF SeeRoute, At
  <2>2. PICK w : GoOn(r, upsertRoute(def[r], seen[r], w))
    BY <1>13 DEF SeeRoute
  <2>3. /\ upsertRoute(def[r], seen[r], w) \in Plans /\ InOrder(upsertRoute(def[r], seen[r], w))
        /\ \A b \in Range(upsertRoute(def[r], seen[r], w)) : Plain(b)
    BY RouteOperations, RouteCallsArePlain
  <2> QED BY <2>1, <2>2, <2>3, LookOnTyped
<1>14. CASE TryCreate(r)
  <2>1. todo[r] # <<>> /\ K(r) \in Kinds /\ GoOn(r, <<>>)
    BY <1>2, <1>14 DEF TryCreate, At, KindOps
  <2>2. \/ Put(K(r), NewObj(K(r), def[r])) /\ Kept
        \/ Look /\ (Kept \/ Fault(r))
    BY <1>14 DEF TryCreate
  <2> QED BY <1>2, <1>3, <2>1, <2>2, PutOnTyped, LookOnTyped
<1>15. CASE TryDelete(r)
  <2>1. todo[r] # <<>> /\ K(r) \in Kinds /\ GoOn(r, <<>>)
    BY <1>2, <1>15 DEF TryDelete, At, KindOps, Removes
  <2>2. \/ Put(K(r), None) /\ Kept
        \/ Look /\ (Kept \/ Fault(r))
    BY <1>15 DEF TryDelete
  <2> QED BY <1>2, <2>1, <2>2, PutOnTyped, LookOnTyped
<1>16. CASE Publish(r)
  <2>1. todo[r] # <<>> /\ r \in InFlight /\ def[r] \in Defs
    BY <1>16, AtCall DEF Publish, At
  <2>2. cfg.route \in {"ingress", "httproute"} /\ [def |-> def[r], route |-> cfg.route] \in [def : Defs, route : {"ingress", "httproute"}]
    BY <1>1, <2>1, ConfigAssumption DEF ConfigType, TypeOK
  <2>3. /\ Tail(todo[r]) \in Plans /\ InOrder(Tail(todo[r])) /\ GoodCalls \subseteq Calls
    BY <2>1, AtCall DEF GoodCalls
  <2>4. Tail(todo[r]) \in Seq(Calls) /\ <<>> \in Seq(Calls)
    BY <2>3, SeqMonotonic DEF Plans
  <2>5. TypeOK'
    <3>1. \/ /\ reg' = [def |-> def[r], route |-> cfg.route] /\ UNCHANGED <<phase, ans>>
             /\ todo' = [todo EXCEPT ![r] = Tail(todo[r])]
          \/ /\ phase' = [phase EXCEPT ![r] = "done"] /\ UNCHANGED reg
             /\ todo' = [todo EXCEPT ![r] = <<>>] /\ ans' = [ans EXCEPT ![r] = "error"]
      BY <1>16 DEF Publish, Begin
    <3>2. /\ todo' \in [Reqs -> Seq(Calls)] /\ phase' \in [Reqs -> Phases]
          /\ ans' \in [Reqs -> {"none", "ok", "error", "lost"}]
      <4>1. todo' \in [Reqs -> Seq(Calls)]
        BY <1>1, <2>4, <3>1 DEF TypeOK
      <4>2. phase' \in [Reqs -> Phases]
        BY <1>1, <3>1 DEF TypeOK, Phases
      <4>3. ans' \in [Reqs -> {"none", "ok", "error", "lost"}]
        BY <1>1, <3>1 DEF TypeOK
      <4> QED BY <4>1, <4>2, <4>3
    <3>3. reg' \in [def : Defs, route : {"ingress", "httproute"}] \cup {None}
      BY <1>1, <2>2, <3>1 DEF TypeOK
    <3> QED BY <1>1, <1>16, <3>2, <3>3 DEF Publish, TypeOK
  <2>6. ASSUME NEW q \in Reqs PROVE Planned(q)'
    <3>1. Planned(q)
      BY DEF Typed
    <3>2. CASE q # r
      BY <1>1, <1>16, <3>1, <3>2 DEF Publish, Begin, Planned, InFlight, TypeOK
    <3>3. CASE q = r /\ reg = None
      BY <1>1, <1>16, <2>1, <2>3, <3>1, <3>3 DEF Publish, Planned, InFlight, TypeOK
    <3>4. CASE q = r /\ reg # None
      BY <1>1, <1>2, <1>16, <3>1, <3>4 DEF Publish, Begin, Planned, InFlight, TypeOK
    <3> QED BY <3>2, <3>3, <3>4
  <2> QED BY <2>5, <2>6 DEF Typed
<1>17. CASE CheckWorkloadAdmited(r)
  <2>1. todo[r] # <<>> /\ Look /\ Judges(Head1(r)) /\ (Kept \/ Fault(r))
    BY <1>17 DEF CheckWorkloadAdmited, At, Judges
  <2>2. \/ GoOn(r, <<Call("scale", "none")>>)
        \/ GoOn(r, <<Call("tryDelete", "workload")>> \o NotAdmitted(r))
        \/ GoOn(r, NotAdmitted(r))
    BY <1>17 DEF CheckWorkloadAdmited, NotAdmitted
  <2>3. Withdraws(Call("tryDelete", "workload")) /\ Judges(Call("scale", "none"))
    BY DEF Withdraws, Judges, Call
  <2>4. \E s \in Plans : InOrder(s) /\ GoOn(r, s) /\ (\A b \in Range(s) : Plain(b) \/ Judges(b) \/ Withdraws(b))
    BY <2>2, <2>3, SmallPlans
  <2> QED BY <2>1, <2>4, LookOnTyped
<1>18. CASE ScaleUp(r)
  <2>1. todo[r] # <<>> /\ GoOn(r, <<>>) /\ "deploy" \in Kinds
    BY <1>18 DEF ScaleUp, At, Kinds
  <2>2. \/ Put("deploy", [def |-> def[r], replicas |-> def[r].min]) /\ Kept
        \/ Look /\ (Kept \/ Fault(r))
    BY <1>18 DEF ScaleUp
  <2> QED BY <1>2, <1>3, <2>1, <2>2, PutOnTyped, LookOnTyped
<1>19. CASE ReturnError(r)
  BY <1>19, FailsTyped DEF ReturnError, At
<1>20. CASE Return(r)
  <2>1. TypeOK'
    BY <1>1, <1>20 DEF Return, TypeOK, store, Phases
  <2>2. ASSUME NEW q \in Reqs PROVE Planned(q)'
    BY <1>1, <1>20 DEF Return, Typed, Planned, InFlight, TypeOK, store
  <2> QED BY <2>1, <2>2 DEF Typed
<1> QED
  BY <1>4, <1>5, <1>6, <1>7, <1>8, <1>9, <1>10, <1>11, <1>12, <1>13, <1>14, <1>15, <1>16, <1>17,
     <1>18, <1>19, <1>20 DEF Step

\* The requests' arrivals keep the types.
LEMMA ArrivalTyped ==
  ASSUME Typed, NEW r \in Reqs, StartCreate(r) \/ StartUpdate(r) \/ StartDelete(r)
  PROVE  Typed'
<1>1. TypeOK /\ Plans \subseteq Seq(Calls)
  BY SeqMonotonic DEF Typed, Plans, GoodCalls
<1>2. cfg.route \in {"ingress", "httproute"}
  BY <1>1, ConfigAssumption DEF ConfigType, TypeOK
<1>3. reg # None => reg.def \in Defs
  BY <1>1 DEF TypeOK
<1>4. Arrive(r)
  BY DEF StartCreate, StartUpdate, StartDelete
<1>5. clean' \in [Reqs -> BOOLEAN] /\ overlaps' \in Nat
  <2>1. overlaps' \in Nat
    BY <1>1, <1>4 DEF Arrive, TypeOK
  <2>2. \A q \in Reqs : (InFlight = {}) \in BOOLEAN /\ (clean[q] /\ q \notin InFlight) \in BOOLEAN
    OBVIOUS
  <2>3. clean' \in [Reqs -> BOOLEAN]
    BY <1>4, <2>2 DEF Arrive
  <2> QED BY <2>1, <2>3
<1>6. \E d \in Defs, s \in Plans, p \in {"create", "update", "delete"} :
        /\ InOrder(s) /\ def' = [def EXCEPT ![r] = d] /\ Begin(r, p, s)
        /\ UNCHANGED prior \/ (prior' = [prior EXCEPT ![r] = reg.def] /\ reg # None)
        /\ p = "update" => prior' = [prior EXCEPT ![r] = reg.def] /\ reg # None
        /\ reg' = reg \/ reg' = None \/ reg' = [def |-> d, route |-> cfg.route]
        /\ UNCHANGED served \/ \E b \in BOOLEAN : served' = [served EXCEPT ![r] = b]
  <2>1. CASE StartCreate(r)
    BY <2>1, StartPlans DEF StartCreate, StartOfCreate
  <2>2. CASE StartUpdate(r)
    <3>1. PICK d \in Defs :
            /\ def' = [def EXCEPT ![r] = d] /\ Begin(r, "update", UpdateOf(d))
            /\ prior' = [prior EXCEPT ![r] = reg.def] /\ reg # None
            /\ reg' = [def |-> d, route |-> cfg.route]
            /\ served' = [served EXCEPT ![r] = reg.def.exposed /\ ServedAs(reg.def, reg.route)]
      BY <2>2 DEF StartUpdate
    <3>2. \E b \in BOOLEAN : served' = [served EXCEPT ![r] = b]
      BY <3>1, Zenon
    <3>3. UpdateOf(d) \in Plans /\ InOrder(UpdateOf(d))
      BY OperationPlans
    <3> QED BY <3>1, <3>2, <3>3
  <2>3. CASE StartDelete(r)
    <3>1. /\ def' = [def EXCEPT ![r] = reg.def] /\ reg.def \in Defs /\ reg' = None
          /\ Begin(r, "delete", StartOfDelete(reg.def)) /\ UNCHANGED <<prior, served>>
      BY <1>3, <2>3 DEF StartDelete, StartOfDelete
    <3>2. StartOfDelete(reg.def) \in Plans /\ InOrder(StartOfDelete(reg.def))
      BY StartPlans
    <3> QED BY <3>1, <3>2
  <2> QED BY <2>1, <2>2, <2>3
<1>7. PICK d \in Defs, s \in Plans, p \in {"create", "update", "delete"} :
        /\ InOrder(s) /\ def' = [def EXCEPT ![r] = d] /\ Begin(r, p, s)
        /\ UNCHANGED prior \/ (prior' = [prior EXCEPT ![r] = reg.def] /\ reg # None)
        /\ p = "update" => prior' = [prior EXCEPT ![r] = reg.def] /\ reg # None
        /\ reg' = reg \/ reg' = None \/ reg' = [def |-> d, route |-> cfg.route]
        /\ UNCHANGED served \/ \E b \in BOOLEAN : served' = [served EXCEPT ![r] = b]
  BY <1>6
<1>8. UNCHANGED <<cfg, obj, admitted, seen, ans, faults, restarts>>
  BY <1>4 DEF Arrive
<1>9. TypeOK'
  <2>1. reg' \in [def : Defs, route : {"ingress", "httproute"}] \cup {None}
    BY <1>1, <1>2, <1>7 DEF TypeOK
  <2>2. /\ todo' \in [Reqs -> Seq(Calls)] /\ phase' \in [Reqs -> Phases]
    BY <1>1, <1>7 DEF TypeOK, Begin, Phases
  <2>3. def' \in [Reqs -> Defs \cup {None}] /\ prior' \in [Reqs -> Defs \cup {None}]
    BY <1>1, <1>3, <1>7 DEF TypeOK
  <2>4. served' \in [Reqs -> BOOLEAN]
    BY <1>1, <1>7 DEF TypeOK
  <2> QED BY <1>1, <1>5, <1>8, <2>1, <2>2, <2>3, <2>4 DEF TypeOK
<1>10. ASSUME NEW q \in Reqs PROVE Planned(q)'
  <2>1. Planned(q)
    BY DEF Typed
  <2>2. CASE q # r
    BY <1>1, <1>7, <2>1, <2>2 DEF Begin, Planned, InFlight, TypeOK
  <2>3. CASE q = r
    BY <1>1, <1>3, <1>7, <2>3 DEF Begin, Planned, InFlight, TypeOK
  <2> QED BY <2>2, <2>3
<1> QED BY <1>9, <1>10 DEF Typed

\* So does a restart, which leaves nothing to do.
LEMMA RestartTyped ==
  ASSUME Typed, Restart
  PROVE  Typed'
<1>1. TypeOK
  BY DEF Typed
<1>2. <<>> \in Plans /\ InOrder(<<>>) /\ Plans \subseteq Seq(Calls)
  <2>1. <<>> \in Plans /\ Range(<<>>) = {} /\ GoodCalls \subseteq Calls
    BY ShortPlans, InTuple DEF GoodCalls
  <2> QED BY <2>1, PlainPlan, SeqMonotonic DEF Plans
<1>3. PICK c \in Configs : cfg' = c
  BY DEF Restart
<1>4. TypeOK'
  <2>1. /\ todo' \in [Reqs -> Seq(Calls)] /\ phase' \in [Reqs -> Phases]
        /\ ans' \in [Reqs -> {"none", "ok", "error", "lost"}]
    BY <1>1, <1>2 DEF Restart, TypeOK, Phases
  <2> QED BY <1>1, <1>3, <2>1 DEF Restart, TypeOK, store
<1>5. ASSUME NEW q \in Reqs PROVE Planned(q)'
  BY <1>1, <1>2 DEF Restart, store, Typed, Planned, InFlight, TypeOK
<1> QED BY <1>4, <1>5 DEF Typed

\* Every step does.
LEMMA TypedNext ==
  ASSUME Typed, [Next]_vars
  PROVE  Typed'
<1>1. CASE UNCHANGED vars
  BY <1>1 DEF vars, Typed, TypeOK, Planned, InFlight
<1>2. CASE Admit
  <2>1. TypeOK'
    BY <1>2 DEF Admit, Typed, TypeOK
  <2> QED BY <1>2, <2>1 DEF Admit, Typed, Planned, InFlight
<1> QED BY <1>1, <1>2, StepTyped, ArrivalTyped, RestartTyped DEF Next, AllServed

\* At the start nothing is to be done.
LEMMA TypedInit ==
  ASSUME Init
  PROVE  Typed
<1>1. <<>> \in Plans /\ InOrder(<<>>) /\ <<>> \in Seq(Calls)
  BY SmallPlans
<1>2. TypeOK
  BY <1>1 DEF Init, TypeOK, Phases
<1> QED BY <1>1, <1>2 DEF Init, Typed, Planned, InFlight

\* Every variable has its type: the objects are made from definitions that requests
\* carried, with replicas, and a plan is a sequence of calls that expose.go makes.
THEOREM Typing == Spec => []TypeOK
<1>1. Init => Typed
  BY TypedInit
<1>2. Typed /\ [Next]_vars => Typed'
  BY TypedNext
<1>3. Typed => TypeOK
  BY DEF Typed
<1> QED BY <1>1, <1>2, <1>3, PTL DEF Spec

-----------------------------------------------------------------------------
(* What is removed.  A request that is clean is the only one in progress, so what *)
(* it finds stays as it is between its calls.                                   *)

Alone(r) == r \in InFlight /\ clean[r] => InFlight = {r}

\* Request r has still to make a call of the kinds in os on object k.
Will(r, os, k) == \E c \in Left(r) : c.op \in os /\ c.kind = k

\* A request that removes the service makes no other calls, and what it has to remove
\* and is there will be removed.
Doomed(r, k) ==
    \/ def[r].exposed /\ k # "localQueue"
    \/ phase[r] = "delete" /\ k = "localQueue"
Removing(r) ==
    phase[r] \in {"rollback", "delete"} =>
        /\ \A c \in Left(r) : c.op \in Removes \cup {"pods"}
        /\ clean[r] => \A k \in Kinds : Doomed(r, k) /\ Exists(k) => Will(r, Removes, k)

\* Without Kueue there is no LocalQueue.
NoQueue == ~cfg.kueue => ~Exists("localQueue")

Removal == NoQueue /\ \A r \in Reqs : Alone(r) /\ Removing(r)

\* DeleteExpose has a call for each object.
LEMMA DeletesAll ==
  /\ \A c \in DeleteCalls : c.op \in Removes \cup {"pods"}
  /\ \A k \in Kinds \ {"localQueue"} : \E c \in DeleteCalls : c.op \in Removes /\ c.kind = k
<1>1. \A c \in DeleteCalls : c.op \in Removes \cup {"pods"}
  BY DEF DeleteCalls, RoutesGone, Removes, Call
<1>2. ASSUME NEW k \in Kinds \ {"localQueue"}
      PROVE  \E c \in DeleteCalls : c.op \in Removes /\ c.kind = k
  <2>1. \E o \in Removes : Call(o, k) \in DeleteCalls
    BY DEF DeleteCalls, RoutesGone, Removes, Kinds
  <2> QED BY <2>1 DEF Call
<1> QED BY <1>1, <1>2

\* A request that takes a step is in progress.
LEMMA Stepping ==
  ASSUME Typed, NEW r \in Reqs, Step(r)
  PROVE  r \in InFlight /\ (~Return(r) => todo[r] # <<>>)
<1>1. CASE Return(r)
  BY <1>1 DEF Return, InFlight
<1>2. CASE ~Return(r)
  <2>1. todo[r] # <<>>
    BY <1>2 DEF Step, Create, Update, Get, Delete, Drop, DeletePods, DeleteIf, Upsert, SeeIngress,
       SeeRoute, TryCreate, TryDelete, Publish, CheckWorkloadAdmited, ScaleUp, ReturnError, At
  <2> QED BY <2>1, AtCall
<1> QED BY <1>1, <1>2

\* What a step of a request does to its own books and to no other's.
Own(r) ==
    /\ UNCHANGED <<cfg, overlaps, restarts>>
    /\ \A q \in Reqs \ {r} : /\ todo'[q] = todo[q] /\ phase'[q] = phase[q] /\ def'[q] = def[q]
                             /\ prior'[q] = prior[q] /\ seen'[q] = seen[q] /\ clean'[q] = clean[q]
                             /\ served'[q] = served[q]
    /\ phase'[r] # "idle"

\* A failing call keeps to its own request.
LEMMA AbortOwn ==
  ASSUME Typed, NEW r \in Reqs, Abort(r), UNCHANGED seen, Fresh(r)
  PROVE  Own(r)
<1>1. /\ UNCHANGED <<cfg, prior, served, overlaps, restarts>>
      /\ UNCHANGED def \/ def' = [def EXCEPT ![r] = prior[r]]
      /\ \E p \in {"done", "rollback", "undo"}, s \in Plans : Begin(r, p, s)
  <2>1. <<>> \in Plans /\ DeleteOf(def[r]) \in Plans /\ UndoUpdate(prior[r]) \in Plans
    BY OperationPlans, SmallPlans
  <2> QED BY <2>1 DEF Abort
<1>2. \A q \in Reqs \ {r} : clean'[q] = clean[q]
  BY DEF Fresh, Typed, TypeOK
<1> QED BY <1>1, <1>2 DEF Own, Begin, Typed, TypeOK

\* A call that goes on does too.
LEMMA GoOnOwn ==
  ASSUME Typed, NEW r \in Reqs, r \in InFlight, NEW s, GoOn(r, s), Kept \/ Fault(r),
         UNCHANGED seen \/ \E b : seen' = [seen EXCEPT ![r] = b]
  PROVE  Own(r)
<1>1. \A q \in Reqs \ {r} : clean'[q] = clean[q]
  BY DEF Kept, Fault, Typed, TypeOK
<1> QED BY <1>1 DEF Own, GoOn, Typed, TypeOK, InFlight

\* And so does every step.
LEMMA StepOwn ==
  ASSUME Typed, NEW r \in Reqs, Step(r)
  PROVE  Own(r)
<1>1. r \in InFlight
  BY Stepping
<1>2. ASSUME CallFails(r) \/ Refused(r) PROVE Own(r)
  <2>1. Abort(r) /\ UNCHANGED seen /\ Fresh(r)
    BY <1>2 DEF CallFails, Refused
  <2> QED BY <2>1, AbortOwn
<1>3. ASSUME NEW s, GoOn(r, s), Kept \/ Fault(r), UNCHANGED seen PROVE Own(r)
  BY <1>1, <1>3, GoOnOwn
<1> USE DEF Put, Look
<1>4. CASE Create(r) \/ Update(r) \/ Get(r) \/ Delete(r) \/ Drop(r) \/ DeletePods(r)
  BY <1>2, <1>3, <1>4 DEF Create, Update, Get, Delete, Drop, DeletePods
<1>5. CASE DeleteIf(r) \/ Upsert(r) \/ SeeRoute(r)
  BY <1>3, <1>5 DEF DeleteIf, Upsert, SeeRoute
<1>6. CASE SeeIngress(r)
  BY <1>1, <1>6, GoOnOwn DEF SeeIngress
<1>7. CASE TryCreate(r) \/ TryDelete(r) \/ ScaleUp(r)
  BY <1>3, <1>7 DEF TryCreate, TryDelete, ScaleUp
<1>8. CASE CheckWorkloadAdmited(r)
  BY <1>3, <1>8 DEF CheckWorkloadAdmited
<1>9. CASE ReturnError(r)
  BY <1>2, <1>9 DEF ReturnError
<1>10. CASE Publish(r)
  BY <1>1, <1>10 DEF Publish, Begin, Own, Typed, TypeOK, InFlight
<1>11. CASE Return(r)
  BY <1>11 DEF Return, Own, Typed, TypeOK
<1> QED BY <1>4, <1>5, <1>6, <1>7, <1>8, <1>9, <1>10, <1>11 DEF Step

\* A clean request stays alone, and while another request takes a step none is clean.
LEMMA AloneNext ==
  ASSUME Typed, \A q \in Reqs : Alone(q), NEW r \in Reqs, Step(r)
  PROVE  /\ \A q \in Reqs : Alone(q)'
         /\ \A q \in Reqs \ {r} : q \in InFlight' => ~clean'[q]
         /\ \A q \in Reqs \ {r} : q \in InFlight' <=> q \in InFlight
<1>1. Own(r) /\ r \in InFlight
  BY StepOwn, Stepping
<1>2. \A q \in Reqs \ {r} : q \in InFlight' <=> q \in InFlight
  BY <1>1 DEF Own, InFlight
<1>3. \A q \in Reqs \ {r} : q \in InFlight' => ~clean'[q]
  BY <1>1, <1>2 DEF Own, Alone
<1>4. clean'[r] => InFlight = {r}
  <2>1. CASE Fresh(r)
    <3>1. clean'[r] = (InFlight = {r})
      BY <2>1 DEF Fresh, Typed, TypeOK
    <3> QED BY <3>1
  <2>2. CASE Kept \/ Fault(r) \/ UNCHANGED clean
    <3>1. clean'[r] => clean[r]
      BY <2>2 DEF Kept, Fault, Typed, TypeOK
    <3> QED BY <3>1, <1>1 DEF Alone
  <2> QED
    BY <2>1, <2>2 DEF Step, Create, Update, Get, Delete, Drop, DeletePods, DeleteIf, Upsert, SeeIngress,
       SeeRoute, TryCreate, TryDelete, Publish, CheckWorkloadAdmited, ScaleUp, ReturnError, Return,
       CallFails, Refused
<1>5. Alone(r)'
  <2>1. ASSUME r \in InFlight', clean'[r] PROVE InFlight' = {r}
    BY <1>2, <1>4, <2>1 DEF InFlight
  <2> QED BY <2>1 DEF Alone
<1> QED BY <1>2, <1>3, <1>5 DEF Alone

\* An arrival ends the cleanness of whoever is in progress.
LEMMA ArrivalOwn ==
  ASSUME Typed, NEW r \in Reqs, StartCreate(r) \/ StartUpdate(r) \/ StartDelete(r)
  PROVE  /\ \A q \in Reqs \ {r} : /\ todo'[q] = todo[q] /\ phase'[q] = phase[q] /\ def'[q] = def[q]
                                  /\ prior'[q] = prior[q] /\ served'[q] = served[q]
                                  /\ q \in InFlight' <=> q \in InFlight
                                  /\ q \in InFlight' => ~clean'[q]
         /\ r \in InFlight' /\ r \notin InFlight /\ phase'[r] \in {"create", "update", "delete"}
         /\ clean'[r] => InFlight = {}
         /\ UNCHANGED <<cfg, obj, admitted, seen>>
         /\ \A q \in Reqs : Alone(q)'
<1> USE DEF Typed, TypeOK
<1>1. Arrive(r)
  BY DEF StartCreate, StartUpdate, StartDelete
<1>2. /\ \E d : def' = [def EXCEPT ![r] = d]
      /\ \E p \in {"create", "update", "delete"} : \E s : Begin(r, p, s)
      /\ UNCHANGED prior \/ prior' = [prior EXCEPT ![r] = reg.def]
      /\ UNCHANGED served \/ \E b : served' = [served EXCEPT ![r] = b]
  BY DEF StartCreate, StartUpdate, StartDelete
<1>3. \A q \in Reqs \ {r} : /\ todo'[q] = todo[q] /\ phase'[q] = phase[q] /\ def'[q] = def[q]
                            /\ prior'[q] = prior[q] /\ served'[q] = served[q]
  BY <1>2 DEF Begin
<1>4. r \in InFlight' /\ r \notin InFlight /\ phase'[r] \in {"create", "update", "delete"}
  BY <1>1, <1>2 DEF Begin, InFlight, Arrive
<1>5. \A q \in Reqs \ {r} : /\ q \in InFlight' <=> q \in InFlight
                            /\ q \in InFlight' => ~clean'[q]
  <2>1. \A q \in Reqs \ {r} : clean'[q] = (clean[q] /\ q \notin InFlight)
    BY <1>1 DEF Arrive
  <2> QED BY <2>1, <1>3 DEF InFlight
<1>6. clean'[r] => InFlight = {}
  <2>1. clean'[r] = (InFlight = {})
    BY <1>1 DEF Arrive
  <2> QED BY <2>1
<1>7. \A q \in Reqs : Alone(q)'
  <2>1. clean'[r] => InFlight' = {r}
    BY <1>4, <1>5, <1>6 DEF InFlight
  <2> QED BY <2>1, <1>5 DEF Alone
<1> QED BY <1>1, <1>3, <1>4, <1>5, <1>6, <1>7 DEF Arrive

\* A LocalQueue is made under Kueue only.
LEMMA NoQueueNext ==
  ASSUME Typed, NoQueue, NEW r \in Reqs, Step(r)
  PROVE  NoQueue'
<1> SUFFICES ASSUME ~cfg.kueue, ~Exists("localQueue") PROVE ~Exists("localQueue")'
  <2>1. UNCHANGED cfg
    BY StepOwn DEF Own
  <2> QED BY <2>1 DEF NoQueue
<1>1. TypeOK /\ "localQueue" \in Kinds
  BY DEF Typed, Kinds
<1>2. ASSUME NEW k, NEW o, Put(k, o), k # "localQueue" \/ o = None
      PROVE  ~Exists("localQueue")'
  BY <1>1, <1>2 DEF Put, Exists, TypeOK
<1>3. ASSUME UNCHANGED obj PROVE ~Exists("localQueue")'
  BY <1>3 DEF Exists
<1>4. todo[r] # <<>> /\ Head1(r).op \in {"create", "update"} => K(r) # "localQueue"
  BY AtCall DEF GoodCalls, Fits, K
<1>5. ASSUME CallFails(r) \/ Refused(r) PROVE ~Exists("localQueue")'
  BY <1>3, <1>5 DEF CallFails, Refused
<1>6. CASE Create(r) \/ Update(r)
  BY <1>2, <1>4, <1>5, <1>6 DEF Create, Update, At
<1>7. CASE Delete(r) \/ Drop(r) \/ TryDelete(r)
  BY <1>2, <1>3, <1>5, <1>7 DEF Delete, Drop, TryDelete, Look
<1>8. CASE TryCreate(r)
  BY <1>3, <1>8 DEF TryCreate, Look
<1>9. CASE ScaleUp(r)
  BY <1>2, <1>3, <1>9 DEF ScaleUp, Look
<1>10. CASE \/ Get(r) \/ DeletePods(r) \/ DeleteIf(r) \/ Upsert(r) \/ SeeIngress(r) \/ SeeRoute(r)
            \/ Publish(r) \/ CheckWorkloadAdmited(r) \/ ReturnError(r) \/ Return(r)
  BY <1>3, <1>5, <1>10 DEF Get, DeletePods, DeleteIf, Upsert, SeeIngress, SeeRoute, Publish,
     CheckWorkloadAdmited, ReturnError, Return, Look, store
<1> QED BY <1>6, <1>7, <1>8, <1>9, <1>10 DEF Step

\* A call of a removing request that goes on with the calls s, when no object but that
\* of the call is touched and this one is gone, or is left to s.
LEMMA RemovingGoesOn ==
  ASSUME Typed, NEW r \in Reqs, Removing(r), todo[r] # <<>>, phase[r] \in {"rollback", "delete"},
         NEW s \in Plans, InOrder(s), GoOn(r, s), \A b \in Range(s) : Plain(b),
         \A b \in Range(s) : b.op \in Removes,
         clean'[r] => clean[r],
         clean'[r] => \A k \in Kinds \ {K(r)} : Exists(k)' => Exists(k),
         clean'[r] /\ Head1(r).op \in Removes /\ obj'[K(r)] # None => \E b \in Range(s) : b.kind = K(r),
         Head1(r).op \notin Removes => UNCHANGED obj
  PROVE  Removing(r)'
<1>1. Range(todo'[r]) = Range(s) \cup Rest(r) /\ Left(r) = {Head1(r)} \cup Rest(r)
  BY GoneOn, AtCall
<1>2. UNCHANGED <<phase, def>>
  BY DEF GoOn
<1>3. Left(r)' = Range(s) \cup Rest(r)
  BY <1>1 DEF Left
<1>4. \A c \in Left(r)' : c.op \in Removes \cup {"pods"}
  BY <1>1, <1>3 DEF Removing
<1>5. ASSUME clean'[r], NEW k \in Kinds, Doomed(r, k)', Exists(k)'
      PROVE  Will(r, Removes, k)'
  <2>1. CASE k = K(r) /\ Head1(r).op \in Removes
    BY <2>1, <1>3, <1>5 DEF Will, Exists
  <2>2. CASE ~(k = K(r) /\ Head1(r).op \in Removes)
    <3>1. Exists(k)
      BY <2>2, <1>5 DEF Exists
    <3>2. Doomed(r, k)
      BY <1>2, <1>5 DEF Doomed
    <3>3. PICK c \in Left(r) : c.op \in Removes /\ c.kind = k
      BY <3>1, <3>2, <1>5 DEF Removing, Will
    <3>4. c # Head1(r)
      BY <2>2, <3>3 DEF K
    <3> QED BY <3>3, <3>4, <1>1, <1>3 DEF Will
  <2> QED BY <2>1, <2>2
<1> QED BY <1>4, <1>5 DEF Removing

\* A step of a request keeps to what it has to remove.
LEMMA RemovingStep ==
  ASSUME Typed, NEW r \in Reqs, Alone(r), Removing(r), Step(r)
  PROVE  Removing(r)'
<1> SUFFICES ASSUME phase'[r] \in {"rollback", "delete"} PROVE Removing(r)'
  BY DEF Removing
<1> USE DEF Typed, TypeOK
<1>1. todo[r] # <<>>
  BY Stepping DEF Return
<1>2. /\ <<>> \in Plans /\ InOrder(<<>>) /\ Range(<<>>) = {}
  BY SmallPlans
<1>3. ASSUME CallFails(r) \/ Refused(r) PROVE Removing(r)'
  <2>1. Abort(r)
    BY <1>3 DEF CallFails, Refused
  <2>2. Begin(r, "rollback", DeleteOf(def[r])) /\ UNCHANGED def
    BY <2>1 DEF Abort, Begin
  <2>3. Left(r)' = IF def[r].exposed THEN DeleteCalls ELSE {}
    <3>1. Range(DeleteOf(def[r])) = IF def[r].exposed THEN DeleteCalls ELSE {}
      BY OperationPlans
    <3>2. todo'[r] = DeleteOf(def[r])
      BY <2>2 DEF Begin
    <3> QED BY <3>1, <3>2 DEF Left
  <2>4. phase'[r] = "rollback"
    BY <2>2 DEF Begin
  <2> QED BY <2>2, <2>3, <2>4, DeletesAll DEF Removing, Doomed, Will
<1>4. ASSUME phase[r] \in {"rollback", "delete"}
      PROVE  /\ Head1(r).op \in Removes \cup {"pods"}
             /\ Head1(r).op \in Removes => K(r) \in Kinds
  BY <1>1, <1>4, AtCall DEF Removing, GoodCalls, Fits, KindOps, K
<1>5. CASE Delete(r) \/ Drop(r) \/ TryDelete(r)
  <2>1. CASE CallFails(r) \/ Refused(r)
    BY <2>1, <1>3
  <2>2. CASE Put(K(r), None) /\ GoOn(r, <<>>) /\ Kept
    <3>1. phase[r] \in {"rollback", "delete"}
      BY <2>2 DEF GoOn
    <3>2. /\ \A k \in Kinds \ {K(r)} : Exists(k)' => Exists(k)
          /\ Head1(r).op \in Removes => obj'[K(r)] = None
      BY <1>4, <2>2, <3>1 DEF Put, Exists
    <3>3. Head1(r).op \in Removes
      BY <1>5 DEF Delete, Drop, TryDelete, At, Removes
    <3> QED BY <1>1, <1>2, <2>2, <3>1, <3>2, <3>3, RemovingGoesOn DEF Kept
  <2>3. CASE Fault(r) /\ Look /\ GoOn(r, <<>>)
    <3>1. phase[r] \in {"rollback", "delete"} /\ ~clean'[r]
      BY <2>3 DEF GoOn, Fault
    <3>2. UNCHANGED obj
      BY <2>3 DEF Look
    <3> QED BY <1>1, <1>2, <2>3, <3>1, <3>2, RemovingGoesOn
  <2> QED BY <1>5, <2>1, <2>2, <2>3 DEF Delete, Drop, TryDelete
<1>6. CASE DeletePods(r) \/ Get(r)
  <2>1. CASE CallFails(r) \/ Refused(r)
    BY <2>1, <1>3
  <2>2. CASE Look /\ GoOn(r, <<>>) /\ Kept
    <3>1. phase[r] \in {"rollback", "delete"} /\ UNCHANGED obj /\ Head1(r).op \notin Removes
      BY <1>6, <2>2 DEF GoOn, Look, DeletePods, Get, At, Removes
    <3> QED BY <1>1, <1>2, <2>2, <3>1, RemovingGoesOn DEF Kept, Exists
  <2> QED BY <1>6, <2>1, <2>2 DEF DeletePods, Get
<1>7. CASE DeleteIf(r)
  <2>1. /\ phase[r] \in {"rollback", "delete"} /\ UNCHANGED obj
        /\ Head1(r).op \in {"deleteIf", "dropIf", "upsert"} /\ Head1(r) \in GoodCalls
    BY <1>1, <1>7, AtCall DEF DeleteIf, GoOn, Look, At
  <2>2. CASE Kept /\ \E o \in {"delete", "drop"} : GoOn(r, <<Call(o, K(r))>>)
    <3>1. PICK o \in {"delete", "drop"} : GoOn(r, <<Call(o, K(r))>>)
      BY <2>2
    <3>2. /\ <<Call(o, K(r))>> \in Plans /\ InOrder(<<Call(o, K(r))>>)
          /\ Range(<<Call(o, K(r))>>) = {Call(o, K(r))} /\ Plain(Call(o, K(r)))
      BY <2>1, NextCall DEF K
    <3>3. Call(o, K(r)).kind = K(r) /\ Call(o, K(r)).op \in Removes
      BY DEF Call, Removes
    <3>4. clean'[r] => clean[r]
      BY <2>2 DEF Kept
    <3>5. /\ \A b \in Range(<<Call(o, K(r))>>) : Plain(b) /\ b.op \in Removes
          /\ \E b \in Range(<<Call(o, K(r))>>) : b.kind = K(r)
      BY <3>2, <3>3
    <3>6. \A k \in Kinds : Exists(k)' => Exists(k)
      BY <2>1 DEF Exists
    <3> QED BY <1>1, <2>1, <3>1, <3>2, <3>4, <3>5, <3>6, RemovingGoesOn
  <2>3. CASE ~Exists(K(r)) /\ GoOn(r, <<>>) /\ Kept
    <3>1. obj'[K(r)] = None /\ \A k \in Kinds : Exists(k)' => Exists(k)
      BY <2>1, <2>3 DEF Exists
    <3> QED BY <1>1, <1>2, <2>1, <2>3, <3>1, RemovingGoesOn DEF Kept
  <2>4. CASE Fault(r) /\ GoOn(r, <<>>)
    <3>1. ~clean'[r]
      BY <2>4 DEF Fault
    <3> QED BY <1>1, <1>2, <2>1, <2>4, <3>1, RemovingGoesOn
  <2> QED BY <1>7, <2>2, <2>3, <2>4 DEF DeleteIf
<1>8. CASE \/ Create(r) \/ Update(r) \/ Upsert(r) \/ SeeIngress(r) \/ SeeRoute(r) \/ TryCreate(r)
           \/ Publish(r) \/ CheckWorkloadAdmited(r) \/ ScaleUp(r) \/ ReturnError(r)
  <2>1. CASE CallFails(r) \/ Refused(r)
    BY <2>1, <1>3
  <2>2. CASE ~(CallFails(r) \/ Refused(r))
    <3>1. phase[r] \in {"rollback", "delete"}
      BY <1>8, <2>2 DEF Create, Update, Upsert, SeeIngress, SeeRoute, TryCreate, Publish,
         CheckWorkloadAdmited, ScaleUp, ReturnError, GoOn, Begin
    <3>2. \/ At(r, "create") \/ At(r, "update") \/ At(r, "upsert") \/ At(r, "ingressSeen")
          \/ At(r, "routeSeen") \/ At(r, "tryCreate") \/ At(r, "publish") \/ At(r, "check")
          \/ At(r, "scale") \/ At(r, "fail")
      BY <1>8 DEF Create, Update, Upsert, SeeIngress, SeeRoute, TryCreate, Publish,
         CheckWorkloadAdmited, ScaleUp, ReturnError
    <3>3. Head1(r).op \in {"create", "update", "upsert", "ingressSeen", "routeSeen", "tryCreate",
                          "publish", "check", "scale", "fail"}
      BY <3>2, Zenon DEF At
    <3>4. Head1(r).op \notin Removes \cup {"pods"}
      BY <3>3 DEF Removes
    <3> QED BY <1>4, <3>1, <3>4
  <2> QED BY <2>1, <2>2
<1>9. CASE Return(r)
  BY <1>9 DEF Return
<1> QED BY <1>5, <1>6, <1>7, <1>8, <1>9 DEF Step

\* A delete begins with a call for each object.
LEMMA RemovingArrival ==
  ASSUME Typed, NoQueue, NEW r \in Reqs, StartCreate(r) \/ StartUpdate(r) \/ StartDelete(r)
  PROVE  Removing(r)'
<1> SUFFICES ASSUME phase'[r] \in {"rollback", "delete"} PROVE Removing(r)'
  BY DEF Removing
<1>1. TypeOK
  BY DEF Typed
<1>2. StartDelete(r)
  <2>1. ~StartCreate(r) /\ ~StartUpdate(r)
    BY <1>1 DEF StartCreate, StartUpdate, Begin, TypeOK
  <2> QED BY <2>1
<1>3. todo'[r] = StartOfDelete(reg.def) /\ phase'[r] = "delete" /\ def'[r] = reg.def /\ UNCHANGED <<cfg, obj>>
  BY <1>1, <1>2 DEF StartDelete, StartOfDelete, Begin, TypeOK, Arrive
<1>4. Left(r)' = DeleteStartCalls(reg.def)
  BY <1>3, StartPlans DEF Left
<1>5. \A c \in DeleteStartCalls(reg.def) : c.op \in Removes \cup {"pods"}
  BY DeletesAll DEF DeleteStartCalls, Call, Removes
<1>6. ASSUME NEW k \in Kinds, Doomed(r, k)', Exists(k)'
      PROVE  Will(r, Removes, k)'
  <2>1. CASE k = "localQueue"
    <3>1. cfg.kueue
      BY <1>3, <1>6, <2>1 DEF NoQueue, Exists
    <3>2. Call("tryDelete", "localQueue") \in Left(r)'
      BY <1>4, <3>1 DEF DeleteStartCalls
    <3>3. /\ Call("tryDelete", "localQueue").op \in Removes
          /\ Call("tryDelete", "localQueue").kind = "localQueue"
      BY DEF Call, Removes
    <3> QED BY <2>1, <3>2, <3>3 DEF Will
  <2>2. CASE k # "localQueue"
    <3>1. reg.def.exposed
      BY <1>3, <1>6, <2>2 DEF Doomed
    <3>2. DeleteCalls \subseteq Left(r)'
      BY <1>4, <3>1 DEF DeleteStartCalls
    <3> QED BY <2>2, <3>2, DeletesAll DEF Will
  <2> QED BY <2>1, <2>2
<1> QED BY <1>4, <1>5, <1>6 DEF Removing

\* Every step keeps to what is to be removed.
LEMMA RemovalNext ==
  ASSUME Typed, Removal, [Next]_vars
  PROVE  Removal'
<1>1. CASE UNCHANGED vars
  BY <1>1 DEF vars, Removal, NoQueue, Alone, Removing, Doomed, Will, Left, Exists, InFlight
<1>2. CASE Admit
  BY <1>2 DEF Admit, Removal, NoQueue, Alone, Removing, Doomed, Will, Left, Exists, InFlight
<1>3. CASE Restart
  <2>1. NoQueue'
    BY <1>3 DEF Restart, store, Removal, NoQueue, Exists
  <2>2. \A q \in Reqs : q \notin InFlight' /\ phase'[q] \notin {"rollback", "delete"}
    BY <1>3 DEF Restart, InFlight
  <2> QED BY <2>1, <2>2 DEF Removal, Alone, Removing
<1>4. ASSUME NEW r \in Reqs, Step(r) PROVE Removal'
  <2>1. Own(r) /\ NoQueue'
    BY <1>4, StepOwn, NoQueueNext DEF Removal
  <2>2. /\ \A q \in Reqs : Alone(q)'
        /\ \A q \in Reqs \ {r} : q \in InFlight' => ~clean'[q]
    BY <1>4, AloneNext DEF Removal
  <2>3. ASSUME NEW q \in Reqs \ {r} PROVE Removing(q)'
    <3>1. Removing(q) /\ Left(q)' = Left(q)
      BY <2>1 DEF Removal, Own, Left
    <3> QED BY <2>1, <2>2, <3>1 DEF Own, Removing, InFlight
  <2>4. Removing(r)'
    BY <1>4, RemovingStep DEF Removal
  <2> QED BY <2>1, <2>2, <2>3, <2>4 DEF Removal
<1>5. ASSUME NEW r \in Reqs, StartCreate(r) \/ StartUpdate(r) \/ StartDelete(r) PROVE Removal'
  <2>1. NoQueue'
    BY <1>5, ArrivalOwn DEF Removal, NoQueue, Exists
  <2>2. ASSUME NEW q \in Reqs \ {r} PROVE Removing(q)'
    <3>1. /\ todo'[q] = todo[q] /\ phase'[q] = phase[q]
          /\ q \in InFlight' => ~clean'[q]
      BY <1>5, ArrivalOwn
    <3>2. Removing(q) /\ Left(q)' = Left(q)
      BY <3>1 DEF Removal, Left
    <3> QED BY <3>1, <3>2 DEF Removing, InFlight
  <2>3. Removing(r)'
    BY <1>5, RemovingArrival DEF Removal
  <2> QED BY <1>5, <2>1, <2>2, <2>3, ArrivalOwn DEF Removal
<1> QED BY <1>1, <1>2, <1>3, <1>4, <1>5 DEF Next, AllServed

\* DeleteExpose, called by a delete or to undo a failed create, leaves none of the
\* service's objects, whatever lost or half-done requests came before and however
\* many: what is there when it ends would still have a call to come.
THEOREM RemovedGone == Spec => RemovedIsGone
<1>1. Init => Typed /\ Removal
  <2>1. Init => Removal
    BY DEF Init, Removal, NoQueue, Alone, Removing, Exists, InFlight, Kinds
  <2> QED BY <2>1, TypedInit
<1>2. Typed /\ Removal /\ [Next]_vars => (Typed /\ Removal)'
  BY TypedNext, RemovalNext
<1>3. ASSUME Typed, Removal, [Next]_vars
      PROVE  [\A r \in Reqs :
                 /\ Completes(r, "rollback") /\ def[r].exposed => \A k \in Kinds \ {"localQueue"} : ~Exists(k)
                 /\ Completes(r, "delete") /\ def[r].exposed => \A k \in Kinds : ~Exists(k)]_vars
  <2>1. ASSUME NEW r \in Reqs, todo[r] = <<>>, clean[r], phase[r] \in {"rollback", "delete"},
               NEW k \in Kinds, Doomed(r, k)
        PROVE  ~Exists(k)
    <3>1. Left(r) = {}
      <4>1. Range(<<>>) = {}
        BY InTuple
      <4> QED BY <2>1, <4>1 DEF Left
    <3>2. Removing(r)
      BY <1>3 DEF Removal
    <3>3. Exists(k) => Will(r, Removes, k)
      BY <2>1, <3>2 DEF Removing
    <3> QED BY <3>1, <3>3 DEF Will
  <2>2. ASSUME NEW r \in Reqs, Completes(r, "rollback"), def[r].exposed,
               NEW k \in Kinds \ {"localQueue"}
        PROVE  ~Exists(k)
    BY <2>1, <2>2 DEF Completes, Doomed
  <2>3. ASSUME NEW r \in Reqs, Completes(r, "delete"), def[r].exposed, NEW k \in Kinds
        PROVE  ~Exists(k)
    BY <2>1, <2>3 DEF Completes, Doomed
  <2> QED BY <2>2, <2>3
<1> QED BY <1>1, <1>2, <1>3, PTL DEF Spec, RemovedIsGone

-----------------------------------------------------------------------------
(* What is served.  Each object that a create or update has to leave is there, or *)
(* the call that makes it is still to come; for the route, that may be the look    *)
(* for the routes that are there.                                                  *)

Applying == {"create", "update", "undo"}
RouteKinds == {"ingress", "httproute"}

\* The objects that the route of definition d refers to, beside its Service.
Aux(d, route) ==
    IF d.nodePort THEN {}
    ELSE IF Route(route) = "httproute" THEN {"cors"} \cup (IF d.auth THEN {"authMdw", "authSec"} ELSE {})
    ELSE IF d.auth THEN {"secret"} ELSE {}
Wanted(d, route) == Needed(d, route) \cup Aux(d, route)

\* Request r has still to make a call of the kind o.
Ahead(r, o) == \E c \in Left(r) : c.op = o

\* A call of a request that applies d removes nothing that d wants and writes nothing else.
Proper(d, c) ==
    /\ c.op \in Removes => c.kind \notin Wanted(d, cfg.route)
    /\ c.op \in Writes \cup {"upsert"} => c.kind \in Wanted(d, cfg.route)

\* What is in the plan of a request that applies a definition.
Prepared(r) ==
    /\ \A c \in Left(r) : Proper(def[r], c)
    /\ Ahead(r, "ingressSeen") => Ahead(r, "routeSeen")
    /\ Ahead(r, "routeSeen") => /\ phase[r] # "create" /\ ~def[r].nodePort
                                /\ \A c \in Left(r) : c.kind \notin RouteKinds
    /\ cfg.kueue /\ Will(r, Writes, "deploy") => Ahead(r, "check")

\* What is there, or will be: what the definition needs, what its route refers to, the
\* replicas, and no other route.
MadeOf(k, d) == Exists(k) /\ obj[k].def = d
Scaled(d) == Exists("deploy") /\ obj["deploy"].replicas = d.min
Coming(r) ==
    /\ \A k \in Needed(def[r], cfg.route) :
          MadeOf(k, def[r]) \/ Will(r, Writes, k) \/ (k \in RouteKinds /\ Ahead(r, "routeSeen"))
    /\ \A k \in Aux(def[r], cfg.route) :
          Exists(k) \/ Will(r, Writes \cup {"upsert"}, k) \/ Ahead(r, "routeSeen")
    /\ \/ Scaled(def[r]) \/ Will(r, Writes, "deploy")
       \/ Ahead(r, "check") \/ Ahead(r, "scale") \/ Ahead(r, "fail")
    /\ phase[r] # "create" =>
          \A k \in RouteKinds \ Needed(def[r], cfg.route) :
             Exists(k) => Will(r, Removes, k) \/ Ahead(r, "routeSeen")
    /\ Ahead(r, "routeSeen") /\ ~Ahead(r, "ingressSeen") => seen[r] = Exists("ingress")

Serving(r) ==
    phase[r] \in Applying => Prepared(r) /\ (clean[r] /\ def[r].exposed => Coming(r))

\* A request that undoes an update has the definition of before it.
Undoing(r) ==
    /\ phase[r] \in {"update", "undo"} => (served[r] => prior[r].exposed)
    /\ phase[r] = "undo" => def[r] = prior[r]

Service == \A r \in Reqs : Alone(r) /\ Serving(r) /\ Undoing(r)

\* The kinds of objects that are wanted.
LEMMA WantedKinds ==
  ASSUME NEW d, cfg.route \in RouteKinds
  PROVE  /\ {"deploy", "hpa", "svc"} \subseteq Wanted(d, cfg.route)
         /\ {"workload", "localQueue", "none"} \cap Wanted(d, cfg.route) = {}
         /\ Wanted(d, cfg.route) \subseteq Kinds
         /\ {"deploy", "hpa", "svc"} \cap Aux(d, cfg.route) = {}
         /\ Needed(d, cfg.route) = {"deploy", "hpa", "svc"} \cup (IF d.nodePort THEN {} ELSE {cfg.route})
         /\ Aux(d, cfg.route) = IF d.nodePort THEN {}
                                ELSE IF cfg.route = "httproute"
                                     THEN {"cors"} \cup (IF d.auth THEN {"authMdw", "authSec"} ELSE {})
                                     ELSE IF d.auth THEN {"secret"} ELSE {}
<1>1. Route(cfg.route) = cfg.route
  BY DEF Route, RouteKinds
<1> QED BY <1>1 DEF Wanted, Needed, Aux, Kinds, RouteKinds

\* The calls on the routes are proper, make what is wanted and clear the other route.
LEMMA RouteCallsServe ==
  ASSUME NEW d, cfg.route \in RouteKinds, ~d.nodePort
  PROVE  /\ \A c \in CreatedRoute(d) : Proper(d, c)
         /\ \A k \in {cfg.route} \cup Aux(d, cfg.route) :
               \E c \in CreatedRoute(d) : c.op \in Writes /\ c.kind = k
<1>0. /\ {cfg.route} \cup Aux(d, cfg.route) \subseteq Wanted(d, cfg.route)
      /\ Writes \cap Removes = {} /\ "fail" \notin Writes \cup Removes \cup {"upsert"}
  <2>1. {cfg.route} \cup Aux(d, cfg.route) \subseteq Wanted(d, cfg.route)
    BY WantedKinds DEF Wanted
  <2> QED BY <2>1 DEF Writes, Removes
<1> USE WantedKinds DEF RouteKinds
<1>1. CASE cfg.route = "ingress"
  <2>1. CreatedRoute(d) = IngressNew(d)
    BY <1>1 DEF CreatedRoute
  <2>2. Call("create", "ingress") \in IngressNew(d) /\ (d.auth => Call("create", "secret") \in IngressNew(d))
    BY DEF IngressNew
  <2>3. \A c \in IngressNew(d) : c.op \in Writes /\ c.kind \in {cfg.route} \cup Aux(d, cfg.route)
    BY <1>1 DEF IngressNew, Call, Writes
  <2>4. \A c \in CreatedRoute(d) : Proper(d, c)
    BY <1>0, <2>1, <2>3 DEF Proper
  <2>5. Call("create", "ingress").op \in Writes /\ Call("create", "ingress").kind = "ingress"
        /\ Call("create", "secret").op \in Writes /\ Call("create", "secret").kind = "secret"
    BY DEF Call, Writes
  <2>6. Aux(d, cfg.route) = IF d.auth THEN {"secret"} ELSE {}
    BY <1>1
  <2> QED BY <1>1, <2>1, <2>2, <2>4, <2>5, <2>6
<1>2. CASE cfg.route = "httproute"
  <2>1. CreatedRoute(d) = RouteNew(d)
    BY <1>2 DEF CreatedRoute
  <2>2. /\ Call("create", "httproute") \in RouteNew(d) /\ Call("create", "cors") \in RouteNew(d)
        /\ d.auth => Call("create", "authSec") \in RouteNew(d) /\ Call("create", "authMdw") \in RouteNew(d)
    BY DEF RouteNew
  <2>3. \A c \in RouteNew(d) : \/ c.op = "fail"
                               \/ c.op \in Writes /\ c.kind \in {cfg.route} \cup Aux(d, cfg.route)
    BY <1>2 DEF RouteNew, GatewayMissing, Call, Writes
  <2>4. \A c \in CreatedRoute(d) : Proper(d, c)
    BY <1>0, <2>1, <2>3 DEF Proper
  <2>5. \A k : Call("create", k).op \in Writes /\ Call("create", k).kind = k
    BY DEF Call, Writes
  <2>6. Aux(d, cfg.route) = {"cors"} \cup (IF d.auth THEN {"authMdw", "authSec"} ELSE {})
    BY <1>2
  <2> QED BY <1>2, <2>1, <2>2, <2>4, <2>5, <2>6
<1> QED BY <1>1, <1>2

\* upsertRoute does too, when it has seen what is there.
LEMMA UpsertServes ==
  ASSUME NEW d, cfg.route \in RouteKinds, ~d.nodePort, NEW ing, NEW route
  PROVE  /\ \A c \in UpsertedRoute(d, ing, route) : Proper(d, c)
         /\ \E c \in UpsertedRoute(d, ing, route) : c.op \in Writes /\ c.kind = cfg.route
         /\ \A k \in Aux(d, cfg.route) :
               \E c \in UpsertedRoute(d, ing, route) : c.op \in Writes \cup {"upsert"} /\ c.kind = k
         /\ ing /\ cfg.route # "ingress" =>
               \E c \in UpsertedRoute(d, ing, route) : c.op \in Removes /\ c.kind = "ingress"
         /\ route /\ cfg.route # "httproute" =>
               \E c \in UpsertedRoute(d, ing, route) : c.op \in Removes /\ c.kind = "httproute"
         /\ \A c \in UpsertedRoute(d, ing, route) : c.op # "pods"
<1>0. /\ {cfg.route} \cup Aux(d, cfg.route) \subseteq Wanted(d, cfg.route)
      /\ Writes \cap Removes = {} /\ "upsert" \notin Removes
      /\ "fail" \notin Writes \cup Removes \cup {"upsert"}
  <2>1. {cfg.route} \cup Aux(d, cfg.route) \subseteq Wanted(d, cfg.route)
    BY WantedKinds DEF Wanted
  <2> QED BY <2>1 DEF Writes, Removes
<1>1. \A o, k : Call(o, k).op = o /\ Call(o, k).kind = k
  BY DEF Call
<1>2. {"create", "update"} = Writes /\ "delete" \in Removes /\ "deleteIf" \in Removes
  BY DEF Writes, Removes
<1>3. CASE cfg.route = "ingress"
  <2>1. Aux(d, cfg.route) = (IF d.auth THEN {"secret"} ELSE {}) /\ cfg.route # "httproute"
    BY <1>3, WantedKinds
  <2>2. Wanted(d, cfg.route) = {"deploy", "hpa", "svc", "ingress"} \cup (IF d.auth THEN {"secret"} ELSE {})
    BY <1>3, <2>1, WantedKinds DEF Wanted, RouteKinds
  <2>3. UpsertedRoute(d, ing, route) = OtherGone(ing, route) \cup (IF ing THEN IngressOld(d) ELSE IngressNew(d))
    BY <2>1 DEF UpsertedRoute
  <2>4. \A c \in OtherGone(ing, route) : c.op \in Removes /\ c.kind \notin Wanted(d, cfg.route) /\ c.op # "pods"
    BY <1>1, <1>2, <2>1, <2>2 DEF OtherGone
  <2>5. \A c \in IngressOld(d) \cup IngressNew(d) :
           \/ c.op \in Writes \cup {"upsert"} /\ c.kind \in Wanted(d, cfg.route)
           \/ c.op \in Removes /\ c.kind \notin Wanted(d, cfg.route)
    BY <1>1, <1>2, <2>2 DEF IngressOld, IngressNew
  <2>6. \A c \in UpsertedRoute(d, ing, route) : Proper(d, c) /\ c.op # "pods"
    BY <1>0, <2>3, <2>4, <2>5 DEF Proper, Writes, Removes
  <2>7. \E c \in UpsertedRoute(d, ing, route) : c.op \in Writes /\ c.kind = cfg.route
    <3>1. \E o \in Writes : Call(o, "ingress") \in UpsertedRoute(d, ing, route)
      BY <1>2, <2>3 DEF IngressOld, IngressNew
    <3> QED BY <1>1, <1>3, <3>1
  <2>8. d.auth => \E c \in UpsertedRoute(d, ing, route) : c.op \in Writes \cup {"upsert"} /\ c.kind = "secret"
    <3>1. d.auth => \E o \in Writes \cup {"upsert"} : Call(o, "secret") \in UpsertedRoute(d, ing, route)
      BY <1>2, <2>3 DEF IngressOld, IngressNew
    <3> QED BY <1>1, <3>1
  <2>9. route => \E c \in UpsertedRoute(d, ing, route) : c.op \in Removes /\ c.kind = "httproute"
    <3>1. route => Call("delete", "httproute") \in UpsertedRoute(d, ing, route)
      BY <2>1, <2>3 DEF OtherGone
    <3>2. Call("delete", "httproute").op \in Removes /\ Call("delete", "httproute").kind = "httproute"
      BY DEF Call, Removes
    <3> QED BY <3>1, <3>2, Zenon
  <2>10. ASSUME NEW k \in Aux(d, cfg.route)
         PROVE  \E c \in UpsertedRoute(d, ing, route) : c.op \in Writes \cup {"upsert"} /\ c.kind = k
    <3>1. d.auth /\ k = "secret"
      BY <2>1
    <3> QED BY <2>8, <3>1
  <2>11. \A c \in UpsertedRoute(d, ing, route) : Proper(d, c)
    BY <2>6
  <2>12. \A c \in UpsertedRoute(d, ing, route) : c.op # "pods"
    BY <2>6
  <2> QED BY <1>3, <2>7, <2>9, <2>10, <2>11, <2>12, Zenon
<1>4. CASE cfg.route = "httproute"
  <2>1. /\ Aux(d, cfg.route) = {"cors"} \cup (IF d.auth THEN {"authMdw", "authSec"} ELSE {})
        /\ cfg.route # "ingress"
    BY <1>4, WantedKinds
  <2>2. Wanted(d, cfg.route) = {"deploy", "hpa", "svc", "httproute", "cors"}
                               \cup (IF d.auth THEN {"authMdw", "authSec"} ELSE {})
    BY <1>4, <2>1, WantedKinds DEF Wanted, RouteKinds
  <2>3. UpsertedRoute(d, ing, route) = OtherGone(ing, route) \cup (IF route THEN RouteOld(d) ELSE RouteNew(d))
    BY <1>4 DEF UpsertedRoute
  <2>4. \A c \in OtherGone(ing, route) : c.op \in Removes /\ c.kind \notin Wanted(d, cfg.route) /\ c.op # "pods"
    BY <1>1, <1>2, <1>4, <2>2 DEF OtherGone
  <2>5. \A c \in RouteOld(d) \cup RouteNew(d) :
           \/ c.op = "fail"
           \/ c.op \in Writes \cup {"upsert"} /\ c.kind \in Wanted(d, cfg.route)
           \/ c.op \in Removes /\ c.kind \notin Wanted(d, cfg.route)
    BY <1>1, <1>2, <2>2 DEF RouteOld, RouteNew, GatewayMissing
  <2>6. \A c \in UpsertedRoute(d, ing, route) : Proper(d, c) /\ c.op # "pods"
    BY <1>0, <2>3, <2>4, <2>5 DEF Proper, Writes, Removes
  <2>7. \E c \in UpsertedRoute(d, ing, route) : c.op \in Writes /\ c.kind = cfg.route
    <3>1. \E o \in Writes : Call(o, "httproute") \in UpsertedRoute(d, ing, route)
      BY <1>2, <2>3 DEF RouteOld, RouteNew
    <3> QED BY <1>1, <1>4, <3>1
  <2>8. ASSUME NEW k \in Aux(d, cfg.route)
        PROVE  \E c \in UpsertedRoute(d, ing, route) : c.op \in Writes \cup {"upsert"} /\ c.kind = k
    <3>1. \E o \in Writes \cup {"upsert"} : Call(o, k) \in UpsertedRoute(d, ing, route)
      BY <1>2, <2>1, <2>3 DEF RouteOld, RouteNew
    <3> QED BY <1>1, <3>1
  <2>9. ing => \E c \in UpsertedRoute(d, ing, route) : c.op \in Removes /\ c.kind = "ingress"
    <3>1. ing => Call("delete", "ingress") \in UpsertedRoute(d, ing, route)
      BY <1>4, <2>3 DEF OtherGone
    <3>2. Call("delete", "ingress").op \in Removes /\ Call("delete", "ingress").kind = "ingress"
      BY DEF Call, Removes
    <3> QED BY <3>1, <3>2, Zenon
  <2>10. \A c \in UpsertedRoute(d, ing, route) : Proper(d, c)
    BY <2>6
  <2>11. \A c \in UpsertedRoute(d, ing, route) : c.op # "pods"
    BY <2>6
  <2> QED BY <1>4, <2>7, <2>8, <2>9, <2>10, <2>11, Zenon
<1> QED BY <1>3, <1>4 DEF RouteKinds

\* A create that begins will make all that is wanted.
LEMMA ServingCreate ==
  ASSUME NEW r \in Reqs, cfg.route \in RouteKinds, UNCHANGED cfg,
         phase'[r] = "create", todo'[r] = StartOfCreate(def'[r])
  PROVE  Serving(r)'
<1> DEFINE d == def'[r]
<1>1. Left(r)' = CreateStartCalls(d)
  BY StartPlans DEF Left
<1>2. /\ {"deploy", "hpa", "svc"} \subseteq Wanted(d, cfg.route)
      /\ Needed(d, cfg.route) = {"deploy", "hpa", "svc"} \cup (IF d.nodePort THEN {} ELSE {cfg.route})
      /\ d.nodePort => Aux(d, cfg.route) = {}
  BY WantedKinds
<1>3. \A o, k : Call(o, k).op = o /\ Call(o, k).kind = k
  BY DEF Call
<1>4. \A c \in CreateStartCalls(d) :
         \/ c \in CreatedRoute(d) /\ ~d.nodePort
         \/ c.op = "create" /\ c.kind \in {"deploy", "hpa", "svc"}
         \/ c.op \in {"tryCreate", "publish", "check"}
  BY <1>3 DEF CreateStartCalls, CreateCalls, Checked
<1>5. \A c \in CreatedRoute(d) : c.op \in Writes \cup {"fail"} /\ c.kind \notin {"deploy"}
  BY <1>3 DEF CreatedRoute, RouteNew, IngressNew, GatewayMissing, Writes
<1>6. \A c \in CreateStartCalls(d) : Proper(d, c)
  <2>1. ASSUME NEW c, c.op = "create", c.kind \in {"deploy", "hpa", "svc"} PROVE Proper(d, c)
    BY <1>2, <2>1 DEF Proper, Removes
  <2>2. ASSUME NEW c, c.op \in {"tryCreate", "publish", "check"} PROVE Proper(d, c)
    BY <2>2 DEF Proper, Removes, Writes
  <2> QED BY <1>4, <2>1, <2>2, RouteCallsServe
<1>7. \A c \in CreateStartCalls(d) : c.op \notin {"ingressSeen", "routeSeen"}
  BY <1>4, <1>5 DEF Writes
<1>8. ASSUME cfg.kueue, NEW c \in CreateStartCalls(d), c.kind = "deploy"
      PROVE  \E b \in CreateStartCalls(d) : b.op = "check"
  <2>1. d.exposed
    BY <1>3, <1>8 DEF CreateStartCalls
  <2>2. Call("check", "none") \in CreateStartCalls(d)
    BY <1>8, <2>1 DEF CreateStartCalls, CreateCalls, Checked
  <2> QED BY <1>3, <2>2
<1>9. Prepared(r)'
  BY <1>1, <1>6, <1>7, <1>8 DEF Prepared, Proper, Wanted, Needed, Aux, Ahead, Will
<1>10. ASSUME d.exposed PROVE Coming(r)'
  <2>1. CreateCalls(d) \subseteq Left(r)'
    BY <1>1, <1>10 DEF CreateStartCalls
  <2>2. \A k \in {"deploy", "hpa", "svc"} : \E c \in Left(r)' : c.op \in Writes /\ c.kind = k
    <3>1. \A k \in {"deploy", "hpa", "svc"} : Call("create", k) \in Left(r)'
      BY <2>1 DEF CreateCalls
    <3> QED BY <1>3, <3>1 DEF Writes
  <2>3. ~d.nodePort => \A k \in {cfg.route} \cup Aux(d, cfg.route) :
                          \E c \in Left(r)' : c.op \in Writes /\ c.kind = k
    BY <2>1, RouteCallsServe DEF CreateCalls
  <2>4. \A k \in Needed(d, cfg.route) \cup Aux(d, cfg.route) : Will(r, Writes, k)'
    BY <1>2, <2>2, <2>3 DEF Will
  <2>5. ~Ahead(r, "routeSeen")'
    BY <1>1, <1>7 DEF Ahead
  <2>6. \A k \in Aux(d, cfg.route) : Will(r, Writes \cup {"upsert"}, k)'
    BY <2>4 DEF Will
  <2>7. Will(r, Writes, "deploy")'
    BY <1>2, <2>4
  <2> QED BY <2>4, <2>5, <2>6, <2>7 DEF Coming
<1> QED BY <1>9, <1>10 DEF Serving

\* So will an update, or an undo, that begins; it looks for the routes first.
LEMMA ServingUpdate ==
  ASSUME NEW r \in Reqs, cfg.route \in RouteKinds, UNCHANGED cfg,
         phase'[r] \in {"update", "undo"}, todo'[r] = UpdateOf(def'[r])
  PROVE  Serving(r)'
<1> DEFINE d == def'[r]
<1>0. Left(r)' = IF d.exposed THEN UpdateCalls(d) ELSE {}
  BY OperationPlans DEF Left
<1>1. CASE ~d.exposed
  <2>1. Left(r)' = {}
    BY <1>0, <1>1
  <2>2. Prepared(r)'
    BY <2>1 DEF Prepared, Ahead, Will
  <2> QED BY <1>1, <2>2 DEF Serving
<1>2. CASE d.exposed
  <2>1. Left(r)' = UpdateCalls(d)
    BY <1>0, <1>2
  <2>2. /\ {"deploy", "hpa", "svc"} \subseteq Wanted(d, cfg.route)
        /\ "workload" \notin Wanted(d, cfg.route)
        /\ Needed(d, cfg.route) = {"deploy", "hpa", "svc"} \cup (IF d.nodePort THEN {} ELSE {cfg.route})
        /\ d.nodePort => Wanted(d, cfg.route) = {"deploy", "hpa", "svc"}
        /\ d.nodePort => Aux(d, cfg.route) = {}
    <3>1. /\ {"deploy", "hpa", "svc"} \subseteq Wanted(d, cfg.route)
          /\ {"workload", "localQueue", "none"} \cap Wanted(d, cfg.route) = {}
          /\ Needed(d, cfg.route) = {"deploy", "hpa", "svc"} \cup (IF d.nodePort THEN {} ELSE {cfg.route})
      BY WantedKinds
    <3>2. d.nodePort => Aux(d, cfg.route) = {}
      BY DEF Aux
    <3>3. d.nodePort => Wanted(d, cfg.route) = {"deploy", "hpa", "svc"}
      BY <3>1, <3>2 DEF Wanted
    <3> QED BY <3>1, <3>2, <3>3
  <2>3. \A o, k : Call(o, k).op = o /\ Call(o, k).kind = k
    BY DEF Call
  <2>4. \A c \in UpdateCalls(d) :
           \/ c \in RoutesGone /\ d.nodePort
           \/ c.op = "update" /\ c.kind \in {"deploy", "hpa", "svc"}
           \/ c.op \in {"get", "tryCreate", "check"} /\ c.kind \notin RouteKinds
           \/ c.op = "tryDelete" /\ c.kind = "workload"
           \/ c.op \in {"ingressSeen", "routeSeen"} /\ c.kind = "none" /\ ~d.nodePort
    BY <2>3 DEF UpdateCalls, Checked, RouteKinds
  <2>5. \A c \in RoutesGone : c.op \in {"deleteIf", "dropIf"} /\ c.kind \notin {"deploy", "hpa", "svc"}
    BY <2>3 DEF RoutesGone
  <2>6. \A c \in UpdateCalls(d) : Proper(d, c)
    <3>1. ASSUME NEW c \in RoutesGone, d.nodePort PROVE Proper(d, c)
      BY <2>2, <2>5, <3>1 DEF Proper, Writes
    <3>2. ASSUME NEW c, c.op = "update", c.kind \in {"deploy", "hpa", "svc"} PROVE Proper(d, c)
      BY <2>2, <3>2 DEF Proper, Removes
    <3>3. ASSUME NEW c, c.op \in {"get", "tryCreate", "check", "ingressSeen", "routeSeen"} PROVE Proper(d, c)
      BY <3>3 DEF Proper, Removes, Writes
    <3>4. ASSUME NEW c, c.op = "tryDelete", c.kind = "workload" PROVE Proper(d, c)
      BY <2>2, <3>4 DEF Proper, Writes
    <3> QED BY <2>4, <3>1, <3>2, <3>3, <3>4
  <2>7. /\ Ahead(r, "routeSeen")' <=> ~d.nodePort
        /\ Ahead(r, "ingressSeen")' <=> ~d.nodePort
    <3>1. ~d.nodePort => Call("ingressSeen", "none") \in UpdateCalls(d) /\ Call("routeSeen", "none") \in UpdateCalls(d)
      BY DEF UpdateCalls
    <3>2. d.nodePort => \A c \in UpdateCalls(d) : c.op \notin {"ingressSeen", "routeSeen"}
      BY <2>4, <2>5
    <3> QED BY <2>1, <2>3, <3>1, <3>2 DEF Ahead
  <2>8. ~d.nodePort => \A c \in UpdateCalls(d) : c.kind \notin RouteKinds
    BY <2>4 DEF RouteKinds
  <2>9. cfg.kueue => Ahead(r, "check")'
    <3>1. cfg.kueue => Call("check", "none") \in UpdateCalls(d)
      BY DEF UpdateCalls, Checked
    <3> QED BY <2>1, <2>3, <3>1 DEF Ahead
  <2>10. Prepared(r)'
    BY <2>1, <2>6, <2>7, <2>8, <2>9 DEF Prepared, Proper, Wanted, Needed, Aux
  <2>11. Coming(r)'
    <3>1. \A k \in {"deploy", "hpa", "svc"} : Will(r, Writes, k)'
      <4>1. \A k \in {"deploy", "hpa", "svc"} : Call("update", k) \in UpdateCalls(d)
        BY DEF UpdateCalls
      <4> QED BY <2>1, <2>3, <4>1 DEF Will, Writes
    <3>2. d.nodePort => \A k \in RouteKinds : Will(r, Removes, k)'
      <4>1. d.nodePort => \A k \in RouteKinds : Call("deleteIf", k) \in UpdateCalls(d)
        BY DEF UpdateCalls, RoutesGone, RouteKinds
      <4> QED BY <2>1, <2>3, <4>1 DEF Will, Removes
    <3>3. \A k \in Needed(d, cfg.route) : Will(r, Writes, k)' \/ (k \in RouteKinds /\ Ahead(r, "routeSeen")')
      BY <2>2, <2>7, <3>1
    <3>4. \A k \in Aux(d, cfg.route) : Ahead(r, "routeSeen")'
      BY <2>2, <2>7
    <3>5. \A k \in RouteKinds : Will(r, Removes, k)' \/ Ahead(r, "routeSeen")'
      BY <2>7, <3>2
    <3>6. Ahead(r, "routeSeen")' => Ahead(r, "ingressSeen")'
      BY <2>7
    <3>7. Will(r, Writes, "deploy")'
      BY <3>1
    <3> QED BY <3>3, <3>4, <3>5, <3>6, <3>7 DEF Coming
  <2> QED BY <2>10, <2>11 DEF Serving
<1> QED BY <1>1, <1>2

\* What a call does, together with the calls S that it puts before the rest: what is
\* wanted stays or is made from the definition, no route comes that is not wanted, and
\* what was to come is there or is still to come.
Keeps(r, S) ==
    /\ \A k \in Wanted(def[r], cfg.route) : obj'[k] = obj[k] \/ (obj'[k] # None /\ obj'[k].def = def[r])
    /\ \A k \in RouteKinds \ Needed(def[r], cfg.route) : obj'[k] = obj[k] \/ obj'[k] = None
    /\ K(r) \notin RouteKinds => obj'["ingress"] = obj["ingress"]
    /\ Head1(r).op \in Writes => obj'[K(r)] # None /\ obj'[K(r)].def = def[r]
    /\ Head1(r).op = "upsert" => \E b \in S : b.op \in Writes /\ b.kind = K(r)
    /\ Head1(r).op \in Removes /\ K(r) \in RouteKinds =>
          obj'[K(r)] = None \/ \E b \in S : b.op \in Removes /\ b.kind = K(r)
    /\ Head1(r).op = "routeSeen" =>
          /\ \A k \in Needed(def[r], cfg.route) \cap RouteKinds : \E b \in S : b.op \in Writes /\ b.kind = k
          /\ \A k \in Aux(def[r], cfg.route) : \E b \in S : b.op \in Writes \cup {"upsert"} /\ b.kind = k
          /\ \A k \in RouteKinds \ Needed(def[r], cfg.route) :
                obj'[k] # None => \E b \in S : b.op \in Removes /\ b.kind = k
    /\ seen'[r] = IF Head1(r).op = "ingressSeen" THEN obj'["ingress"] # None ELSE seen[r]
    /\ \/ obj'["deploy"] # None /\ obj'["deploy"].replicas = def[r].min
       \/ \E c \in S \cup Rest(r) : c.op \in {"check", "scale", "fail"}
       \/ /\ obj'["deploy"] = obj["deploy"] /\ Head1(r).op \notin {"check", "scale", "fail"}
          /\ ~(Head1(r).op \in Writes /\ K(r) = "deploy")

\* The calls that a call puts before the rest are proper, and of its own kind of route.
Follows(r, S) ==
    \A b \in S : /\ Proper(def[r], b) /\ b.kind # "deploy" /\ b.op \notin {"ingressSeen", "routeSeen"}
                 /\ b.kind \in RouteKinds => b.kind = K(r) \/ Head1(r).op = "routeSeen"

\* The plan stays prepared.
LEMMA PreparedGoesOn ==
  ASSUME Typed, NEW r \in Reqs, todo[r] # <<>>, Prepared(r), NEW S, Follows(r, S),
         Left(r)' = S \cup Rest(r), UNCHANGED cfg, phase'[r] = phase[r], def'[r] = def[r]
  PROVE  Prepared(r)'
<1>1. Left(r) = {Head1(r)} \cup Rest(r) /\ \A a \in Rest(r) : ~Precedes(a, Head1(r))
  BY AtCall
<1>2. Head1(r).op = "routeSeen" => \A a \in Rest(r) : a.op \notin {"ingressSeen", "routeSeen"}
  BY <1>1 DEF Precedes
<1>3. Head1(r).op = "check" => \A a \in Rest(r) : ~(a.op \in Writes /\ a.kind = "deploy")
  BY <1>1 DEF Precedes, Settles, Judges, Writes
<1>4. \A d, c : Proper(d, c)' <=> Proper(d, c)
  BY DEF Proper, Wanted, Needed, Aux
<1>5. \A c \in Left(r)' : Proper(def[r], c)
  BY <1>1 DEF Prepared, Follows
<1>6. \A o \in {"ingressSeen", "routeSeen"} : Ahead(r, o)' <=> \E a \in Rest(r) : a.op = o
  BY DEF Ahead, Follows
<1>7. Ahead(r, "ingressSeen")' => Ahead(r, "routeSeen")'
  BY <1>1, <1>2, <1>6 DEF Prepared, Ahead
<1>8. ASSUME Ahead(r, "routeSeen")'
      PROVE  phase[r] # "create" /\ ~def[r].nodePort /\ \A c \in Left(r)' : c.kind \notin RouteKinds
  <2>1. Ahead(r, "routeSeen") /\ Head1(r).op # "routeSeen"
    BY <1>1, <1>2, <1>6, <1>8 DEF Ahead
  <2>2. \A c \in Left(r) : c.kind \notin RouteKinds
    BY <2>1 DEF Prepared
  <2> QED BY <1>1, <2>1, <2>2 DEF Prepared, Follows, K
<1>9. ASSUME cfg.kueue, Will(r, Writes, "deploy")' PROVE Ahead(r, "check")'
  <2>1. \E a \in Rest(r) : a.op \in Writes /\ a.kind = "deploy"
    BY <1>9 DEF Will, Follows
  <2>2. Head1(r).op # "check" /\ Ahead(r, "check")
    BY <1>1, <1>3, <1>9, <2>1 DEF Prepared, Will
  <2> QED BY <1>1, <2>2 DEF Ahead
<1> QED BY <1>4, <1>5, <1>7, <1>8, <1>9 DEF Prepared

\* What is to come comes, or is still to come.
LEMMA ComingGoesOn ==
  ASSUME Typed, NEW r \in Reqs, todo[r] # <<>>, Prepared(r), Coming(r), NEW S, Follows(r, S), Keeps(r, S),
         Left(r)' = S \cup Rest(r), UNCHANGED cfg, phase'[r] = phase[r], def'[r] = def[r]
  PROVE  Coming(r)'
<1>1. Left(r) = {Head1(r)} \cup Rest(r) /\ \A a \in Rest(r) : ~Precedes(a, Head1(r))
  BY AtCall
<1>2. \A d : Needed(d, cfg.route)' = Needed(d, cfg.route) /\ Aux(d, cfg.route)' = Aux(d, cfg.route)
  BY DEF Needed, Aux
<1>3. ASSUME NEW k \in Needed(def[r], cfg.route)
      PROVE  \/ MadeOf(k, def[r])' \/ Will(r, Writes, k)'
             \/ k \in RouteKinds /\ Ahead(r, "routeSeen")'
  <2>0. k \in Wanted(def[r], cfg.route)
    BY DEF Wanted
  <2>1. CASE MadeOf(k, def[r])
    BY <2>0, <2>1 DEF Keeps, MadeOf, Exists
  <2>2. CASE Will(r, Writes, k)
    <3>1. PICK c \in Left(r) : c.op \in Writes /\ c.kind = k
      BY <2>2 DEF Will
    <3>2. CASE c = Head1(r)
      BY <3>1, <3>2 DEF Keeps, MadeOf, Exists, K
    <3>3. CASE c \in Rest(r)
      BY <3>1, <3>3 DEF Will
    <3> QED BY <1>1, <3>2, <3>3
  <2>3. CASE k \in RouteKinds /\ Ahead(r, "routeSeen")
    <3>1. CASE Head1(r).op = "routeSeen"
      <4>1. \E b \in S : b.op \in Writes /\ b.kind = k
        BY <2>3, <3>1 DEF Keeps
      <4> QED BY <4>1 DEF Will
    <3>2. CASE Head1(r).op # "routeSeen"
      BY <1>1, <2>3, <3>2 DEF Ahead
    <3> QED BY <3>1, <3>2
  <2> QED BY <2>1, <2>2, <2>3 DEF Coming
<1>4. ASSUME NEW k \in Aux(def[r], cfg.route)
      PROVE  Exists(k)' \/ Will(r, Writes \cup {"upsert"}, k)' \/ Ahead(r, "routeSeen")'
  <2>0. k \in Wanted(def[r], cfg.route)
    BY DEF Wanted
  <2>1. CASE Exists(k)
    BY <2>0, <2>1 DEF Keeps, Exists
  <2>2. CASE Will(r, Writes \cup {"upsert"}, k)
    <3>1. PICK c \in Left(r) : c.op \in Writes \cup {"upsert"} /\ c.kind = k
      BY <2>2 DEF Will
    <3>2. CASE c = Head1(r) /\ c.op \in Writes
      BY <3>1, <3>2 DEF Keeps, Exists, K
    <3>3. CASE c = Head1(r) /\ c.op = "upsert"
      BY <3>1, <3>3 DEF Keeps, K, Will
    <3>4. CASE c \in Rest(r)
      BY <3>1, <3>4 DEF Will
    <3> QED BY <1>1, <3>1, <3>2, <3>3, <3>4
  <2>3. CASE Ahead(r, "routeSeen")
    <3>1. CASE Head1(r).op = "routeSeen"
      <4>1. \E b \in S : b.op \in Writes \cup {"upsert"} /\ b.kind = k
        BY <3>1 DEF Keeps
      <4> QED BY <4>1 DEF Will
    <3>2. CASE Head1(r).op # "routeSeen"
      BY <1>1, <2>3, <3>2 DEF Ahead
    <3> QED BY <3>1, <3>2
  <2> QED BY <2>1, <2>2, <2>3 DEF Coming
<1>5. \/ Scaled(def[r])' \/ Will(r, Writes, "deploy")'
      \/ Ahead(r, "check")' \/ Ahead(r, "scale")' \/ Ahead(r, "fail")'
  <2>1. CASE obj'["deploy"] # None /\ obj'["deploy"].replicas = def[r].min
    BY <2>1 DEF Scaled, Exists
  <2>2. CASE \E c \in S \cup Rest(r) : c.op \in {"check", "scale", "fail"}
    BY <2>2 DEF Ahead
  <2>3. CASE /\ obj'["deploy"] = obj["deploy"] /\ Head1(r).op \notin {"check", "scale", "fail"}
             /\ ~(Head1(r).op \in Writes /\ K(r) = "deploy")
    <3>1. Scaled(def[r]) => Scaled(def[r])'
      BY <2>3 DEF Scaled, Exists
    <3>2. Will(r, Writes, "deploy") => Will(r, Writes, "deploy")'
      BY <1>1, <2>3 DEF Will, K
    <3>3. \A o \in {"check", "scale", "fail"} : Ahead(r, o) => Ahead(r, o)'
      BY <1>1, <2>3 DEF Ahead
    <3> QED BY <3>1, <3>2, <3>3 DEF Coming
  <2> QED BY <2>1, <2>2, <2>3 DEF Keeps
<1>6. ASSUME phase[r] # "create", NEW k \in RouteKinds \ Needed(def[r], cfg.route), Exists(k)'
      PROVE  Will(r, Removes, k)' \/ Ahead(r, "routeSeen")'
  <2>1. Exists(k)
    BY <1>6 DEF Keeps, Exists
  <2>2. CASE Will(r, Removes, k)
    <3>1. PICK c \in Left(r) : c.op \in Removes /\ c.kind = k
      BY <2>2 DEF Will
    <3>2. CASE c = Head1(r)
      <4>1. \E b \in S : b.op \in Removes /\ b.kind = k
        BY <1>6, <3>1, <3>2 DEF Keeps, Exists, K
      <4> QED BY <4>1 DEF Will
    <3>3. CASE c \in Rest(r)
      BY <3>1, <3>3 DEF Will
    <3> QED BY <1>1, <3>2, <3>3
  <2>3. CASE Ahead(r, "routeSeen")
    <3>1. CASE Head1(r).op = "routeSeen"
      <4>1. \E b \in S : b.op \in Removes /\ b.kind = k
        BY <1>6, <3>1 DEF Keeps, Exists
      <4> QED BY <4>1 DEF Will
    <3>2. CASE Head1(r).op # "routeSeen"
      BY <1>1, <2>3, <3>2 DEF Ahead
    <3> QED BY <3>1, <3>2
  <2> QED BY <1>6, <2>1, <2>2, <2>3 DEF Coming
<1>7. ASSUME Ahead(r, "routeSeen")', ~Ahead(r, "ingressSeen")'
      PROVE  seen'[r] = Exists("ingress")'
  <2>1. CASE Head1(r).op = "ingressSeen"
    BY <2>1 DEF Keeps, Exists
  <2>2. CASE Head1(r).op # "ingressSeen"
    <3>1. Ahead(r, "routeSeen") /\ ~Ahead(r, "ingressSeen")
      BY <1>1, <1>7, <2>2 DEF Ahead, Follows
    <3>2. K(r) \notin RouteKinds
      BY <1>1, <3>1 DEF Prepared, K
    <3> QED BY <2>2, <3>1, <3>2 DEF Keeps, Coming, Exists
  <2> QED BY <2>1, <2>2
<1> QED BY <1>2, <1>3, <1>4, <1>5, <1>6, <1>7 DEF Coming

\* A call that goes on keeps the service coming.
LEMMA ServingGoesOn ==
  ASSUME Typed, NEW r \in Reqs, todo[r] # <<>>, phase[r] \in Applying, Serving(r),
         NEW S, Follows(r, S), Left(r)' = S \cup Rest(r), UNCHANGED cfg, phase'[r] = phase[r],
         def'[r] = def[r], clean'[r] => clean[r], clean'[r] /\ def[r].exposed => Keeps(r, S)
  PROVE  Serving(r)'
<1>1. Prepared(r)
  BY DEF Serving
<1>2. Prepared(r)'
  BY <1>1, PreparedGoesOn
<1>3. ASSUME clean'[r], def'[r].exposed PROVE Coming(r)'
  <2>1. Coming(r)
    BY <1>3 DEF Serving
  <2>2. Keeps(r, S)
    BY <1>3
  <2> QED BY <1>1, <2>1, <2>2, ComingGoesOn
<1> QED BY <1>2, <1>3 DEF Serving

\* A failed update begins to undo itself, and any other failed request stops applying.
LEMMA ServingFails ==
  ASSUME Typed, NEW r \in Reqs, todo[r] # <<>>, CallFails(r) \/ Refused(r)
  PROVE  Serving(r)'
<1>1. Abort(r)
  BY DEF CallFails, Refused
<1>2. phase \in [Reqs -> Phases] /\ todo \in [Reqs -> Seq(Calls)] /\ def \in [Reqs -> Defs \cup {None}]
      /\ cfg.route \in RouteKinds
  BY ConfigAssumption DEF Typed, TypeOK, ConfigType, RouteKinds
<1>3. \/ phase'[r] \in {"done", "rollback"}
      \/ phase'[r] = "undo" /\ todo'[r] = UndoUpdate(prior[r]) /\ def'[r] = prior[r]
  BY <1>1, <1>2 DEF Abort, Begin
<1>4. CASE phase'[r] \in {"done", "rollback"}
  BY <1>4 DEF Serving, Applying
<1>5. CASE phase'[r] = "undo" /\ todo'[r] = UndoUpdate(prior[r]) /\ def'[r] = prior[r]
  <2>1. todo'[r] = UpdateOf(def'[r]) /\ UNCHANGED cfg
    BY <1>1, <1>5 DEF UndoUpdate, Abort
  <2> QED BY <1>2, <1>5, <2>1, ServingUpdate
<1> QED BY <1>3, <1>4, <1>5

\* A call changes no object but the one that it names, and that one in its way.
Touches(r) ==
    /\ \A k \in Kinds \ {K(r)} : obj'[k] = obj[k]
    /\ K(r) \in Kinds =>
          \/ obj'[K(r)] = obj[K(r)] /\ Head1(r).op \notin Writes \cup Removes
          \/ obj'[K(r)] = None /\ Head1(r).op \in Removes
          \/ K(r) \in {"workload", "localQueue"}
          \/ obj'[K(r)] = NewObj(K(r), def[r]) /\ Head1(r).op \in Writes

\* After a call that writes the object it names, or nothing, and adds no call.
LEMMA ServingPuts ==
  ASSUME Typed, NEW r \in Reqs, todo[r] # <<>>, Serving(r), GoOn(r, <<>>), Kept \/ Fault(r), UNCHANGED seen,
         Head1(r).op \notin {"ingressSeen", "routeSeen", "upsert", "check", "scale", "fail"},
         clean'[r] => Touches(r)
  PROVE  Serving(r)'
<1>1. UNCHANGED <<cfg, phase, def>>
  BY DEF GoOn
<1> SUFFICES ASSUME phase[r] \in Applying PROVE Serving(r)'
  BY <1>1 DEF Serving
<1> DEFINE d == def[r]
<1>2. /\ Head1(r) \in GoodCalls /\ Left(r) = {Head1(r)} \cup Rest(r) /\ def[r] \in Defs
  BY AtCall
<1>3. Prepared(r)
  BY DEF Serving
<1>4. Left(r)' = {} \cup Rest(r)
  <2>1. <<>> \in Plans /\ InOrder(<<>>) /\ Range(<<>>) = {}
    BY SmallPlans
  <2> QED BY <2>1, GoneOn DEF Left
<1>5. Follows(r, {})
  BY DEF Follows
<1>6. clean'[r] => clean[r]
  BY DEF Kept, Fault, Typed, TypeOK
<1>7. cfg.route \in RouteKinds
  BY ConfigAssumption DEF Typed, TypeOK, ConfigType, RouteKinds
<1>8. /\ {"deploy", "hpa", "svc"} \subseteq Wanted(d, cfg.route)
      /\ {"workload", "localQueue", "none"} \cap Wanted(d, cfg.route) = {}
      /\ Wanted(d, cfg.route) \subseteq Kinds
      /\ Wanted(d, cfg.route) \cap RouteKinds \subseteq Needed(d, cfg.route)
  <2>1. Aux(d, cfg.route) \cap RouteKinds = {}
    BY DEF Aux, RouteKinds
  <2> QED BY <1>7, <2>1, WantedKinds DEF Wanted
<1>9. Proper(d, Head1(r))
  BY <1>2, <1>3 DEF Prepared
<1>10. /\ RouteKinds \subseteq Kinds /\ "deploy" \in Kinds /\ "ingress" \in RouteKinds
       /\ RouteKinds \cap {"workload", "localQueue", "deploy"} = {}
  BY DEF RouteKinds, Kinds
<1>11. Head1(r).op \in Writes => K(r) \in Kinds /\ K(r) \in Wanted(d, cfg.route)
  BY <1>2, <1>9 DEF GoodCalls, Fits, KindOps, Proper, K
<1>12. Head1(r).op \in Removes => K(r) \in Kinds /\ K(r) \notin Wanted(d, cfg.route)
  BY <1>2, <1>9 DEF GoodCalls, Fits, KindOps, Proper, K
<1>13. /\ NewObj(K(r), d) # None /\ NewObj(K(r), d).def = d
       /\ ~cfg.kueue => NewObj("deploy", d).replicas = d.min
  <2>1. ~cfg.kueue => NewObj("deploy", d).replicas = d.min
    BY DEF NewObj, getDeploymentSpec, Gated
  <2> QED BY <1>2, <2>1, NewObjects
<1>14. Writes \cap Removes = {}
  BY DEF Writes, Removes
<1>15. ASSUME clean'[r] PROVE Keeps(r, {})
  <2> USE DEF Touches
  <2>1. \A k \in Wanted(d, cfg.route) : obj'[k] = obj[k] \/ (obj'[k] # None /\ obj'[k].def = d)
    BY <1>8, <1>12, <1>13, <1>15
  <2>2. \A k \in RouteKinds \ Needed(d, cfg.route) : obj'[k] = obj[k] \/ obj'[k] = None
    BY <1>8, <1>10, <1>11, <1>15
  <2>3. K(r) \notin RouteKinds => obj'["ingress"] = obj["ingress"]
    BY <1>10, <1>15
  <2>4. Head1(r).op \in Writes => obj'[K(r)] # None /\ obj'[K(r)].def = d
    BY <1>8, <1>11, <1>13, <1>14, <1>15
  <2>5. Head1(r).op \in Removes /\ K(r) \in RouteKinds => obj'[K(r)] = None
    BY <1>10, <1>12, <1>14, <1>15
  <2>6. \/ obj'["deploy"] # None /\ obj'["deploy"].replicas = d.min
        \/ \E c \in {} \cup Rest(r) : c.op \in {"check", "scale", "fail"}
        \/ /\ obj'["deploy"] = obj["deploy"] /\ Head1(r).op \notin {"check", "scale", "fail"}
           /\ ~(Head1(r).op \in Writes /\ K(r) = "deploy")
    <3>1. CASE Head1(r).op \in Writes /\ K(r) = "deploy"
      <4>1. obj'["deploy"] = NewObj("deploy", d)
        BY <1>10, <1>14, <1>15, <3>1
      <4>2. CASE ~cfg.kueue
        <5>1. obj'["deploy"] # None
          BY <1>13, <3>1, <4>1
        <5> QED BY <1>13, <4>1, <4>2, <5>1
      <4>3. CASE cfg.kueue
        <5>1. Will(r, Writes, "deploy")
          BY <1>2, <3>1 DEF Will, K
        <5>2. Ahead(r, "check")
          BY <1>3, <4>3, <5>1 DEF Prepared
        <5> QED BY <1>2, <5>2 DEF Ahead
      <4> QED BY <4>2, <4>3
    <3>2. CASE ~(Head1(r).op \in Writes /\ K(r) = "deploy")
      <4>1. obj'["deploy"] = obj["deploy"]
        BY <1>8, <1>10, <1>12, <1>15, <3>2
      <4> QED BY <3>2, <4>1
    <3> QED BY <3>1, <3>2
  <2> QED BY <2>1, <2>2, <2>3, <2>4, <2>5, <2>6 DEF Keeps
<1> QED BY <1>1, <1>4, <1>5, <1>6, <1>15, ServingGoesOn

\* After a call that looks: what it saw decides which calls come before the rest.
LEMMA ServingLooks ==
  ASSUME Typed, NEW r \in Reqs, todo[r] # <<>>, Serving(r), phase[r] \in Applying,
         NEW s \in Plans, InOrder(s), GoOn(r, s), Kept \/ Fault(r), UNCHANGED obj,
         \A b \in Range(s) : Plain(b) \/ (Judges(Head1(r)) /\ (Judges(b) \/ Withdraws(b))),
         Follows(r, Range(s)), Head1(r).op \notin Writes \cup {"scale", "fail"},
         clean'[r] => seen'[r] = IF Head1(r).op = "ingressSeen" THEN Exists("ingress") ELSE seen[r],
         Head1(r).op = "upsert" => \E b \in Range(s) : b.op \in Writes /\ b.kind = K(r),
         clean'[r] /\ Head1(r).op \in Removes =>
             ~Exists(K(r)) \/ \E b \in Range(s) : b.op \in Removes /\ b.kind = K(r),
         clean'[r] /\ def[r].exposed /\ Head1(r).op = "routeSeen" =>
           /\ \A k \in Needed(def[r], cfg.route) \cap RouteKinds :
                 \E b \in Range(s) : b.op \in Writes /\ b.kind = k
           /\ \A k \in Aux(def[r], cfg.route) :
                 \E b \in Range(s) : b.op \in Writes \cup {"upsert"} /\ b.kind = k
           /\ \A k \in RouteKinds \ Needed(def[r], cfg.route) :
                 Exists(k) => \E b \in Range(s) : b.op \in Removes /\ b.kind = k,
         Head1(r).op = "check" => \E c \in Range(s) : c.op \in {"scale", "fail"}
  PROVE  Serving(r)'
<1>1. UNCHANGED <<cfg, phase, def>>
  BY DEF GoOn
<1>2. Left(r)' = Range(s) \cup Rest(r)
  BY GoneOn DEF Left
<1>3. clean'[r] => clean[r]
  BY DEF Kept, Fault, Typed, TypeOK
<1>4. ASSUME clean'[r], def[r].exposed PROVE Keeps(r, Range(s))
  <2>1. Head1(r).op = "check" => \E c \in Range(s) \cup Rest(r) : c.op \in {"check", "scale", "fail"}
    OBVIOUS
  <2>2. seen'[r] = IF Head1(r).op = "ingressSeen" THEN obj'["ingress"] # None ELSE seen[r]
    BY <1>4 DEF Exists
  <2>3. Head1(r).op \in Removes =>
          obj'[K(r)] = None \/ \E b \in Range(s) : b.op \in Removes /\ b.kind = K(r)
    BY <1>4 DEF Exists
  <2>4. Head1(r).op = "routeSeen" =>
           /\ \A k \in Needed(def[r], cfg.route) \cap RouteKinds :
                 \E b \in Range(s) : b.op \in Writes /\ b.kind = k
           /\ \A k \in Aux(def[r], cfg.route) :
                 \E b \in Range(s) : b.op \in Writes \cup {"upsert"} /\ b.kind = k
           /\ \A k \in RouteKinds \ Needed(def[r], cfg.route) :
                 obj'[k] # None => \E b \in Range(s) : b.op \in Removes /\ b.kind = k
    BY <1>4 DEF Exists
  <2> QED BY <2>1, <2>2, <2>3, <2>4 DEF Keeps
<1> QED BY <1>1, <1>2, <1>3, <1>4, ServingGoesOn

\* deleteIf and dropIf: what is seen is deleted next, and what is not there need not be.
LEMMA ServingDeleteIf ==
  ASSUME Typed, NEW r \in Reqs, Serving(r), phase[r] \in Applying, DeleteIf(r)
  PROVE  Serving(r)'
<1>1. /\ todo[r] # <<>> /\ UNCHANGED <<obj, seen>> /\ Head1(r).op \in {"deleteIf", "dropIf", "upsert"}
      /\ Head1(r).op \in {"deleteIf", "dropIf"}
  BY DEF DeleteIf, Look, At
<1>2. Head1(r) \in GoodCalls /\ Left(r) = {Head1(r)} \cup Rest(r)
  BY <1>1, AtCall
<1>3. K(r) \notin Wanted(def[r], cfg.route)
  BY <1>1, <1>2 DEF Serving, Prepared, Proper, K, Removes
<1>4. Head1(r).op \notin Writes \cup {"scale", "fail", "ingressSeen", "routeSeen", "upsert", "check"}
  BY <1>1 DEF Writes
<1>5. CASE Kept /\ \E o \in {"delete", "drop"} : GoOn(r, <<Call(o, K(r))>>)
  <2>1. PICK o \in {"delete", "drop"} : GoOn(r, <<Call(o, K(r))>>)
    BY <1>5
  <2>2. /\ <<Call(o, K(r))>> \in Plans /\ InOrder(<<Call(o, K(r))>>)
        /\ Range(<<Call(o, K(r))>>) = {Call(o, K(r))} /\ Plain(Call(o, K(r)))
    BY <1>1, <1>2, NextCall DEF K
  <2>3. Call(o, K(r)).op = o /\ Call(o, K(r)).kind = K(r) /\ o \in Removes /\ o \notin Writes \cup {"upsert"}
    BY DEF Call, Removes, Writes
  <2>4. K(r) # "deploy"
    BY <2>2, <2>3 DEF Plain
  <2>5. Follows(r, Range(<<Call(o, K(r))>>))
    BY <1>3, <2>2, <2>3, <2>4 DEF Follows, Proper
  <2> DEFINE s == <<Call(o, K(r))>>
  <2>6. \E b \in Range(s) : b.op \in Removes /\ b.kind = K(r)
    BY <2>2, <2>3
  <2>7. \A b \in Range(s) : Plain(b)
    BY <2>2
  <2> HIDE DEF s
  <2>8. s \in Plans /\ InOrder(s) /\ GoOn(r, s) /\ Follows(r, Range(s))
    BY <2>1, <2>2, <2>5 DEF s
  <2> QED BY <1>1, <1>4, <1>5, <2>6, <2>7, <2>8, ServingLooks
<1>6. CASE GoOn(r, <<>>) /\ (Fault(r) \/ (~Exists(K(r)) /\ Kept))
  <2>1. <<>> \in Plans /\ InOrder(<<>>) /\ Range(<<>>) = {} /\ Follows(r, {})
    BY SmallPlans DEF Follows
  <2>2. clean'[r] => ~Exists(K(r))
    BY <1>6 DEF Fault, Typed, TypeOK
  <2> QED BY <1>1, <1>4, <1>6, <2>1, <2>2, ServingLooks
<1> QED BY <1>5, <1>6 DEF DeleteIf

\* Upserts: what is seen is updated next, and what is not is created.
LEMMA ServingUpsert ==
  ASSUME Typed, NEW r \in Reqs, Serving(r), phase[r] \in Applying, Upsert(r)
  PROVE  Serving(r)'
<1>1. todo[r] # <<>> /\ UNCHANGED <<obj, seen>> /\ Head1(r).op = "upsert" /\ (Kept \/ Fault(r))
  BY DEF Upsert, Look, At
<1>2. Head1(r) \in GoodCalls /\ Left(r) = {Head1(r)} \cup Rest(r)
  BY <1>1, AtCall
<1>3. K(r) \in Wanted(def[r], cfg.route)
  BY <1>1, <1>2 DEF Serving, Prepared, Proper, K
<1>4. Head1(r).op \notin Writes \cup Removes \cup {"scale", "fail", "ingressSeen", "routeSeen", "check"}
  BY <1>1 DEF Writes, Removes
<1>5. PICK o \in {"create", "update"} : GoOn(r, <<Call(o, K(r))>>)
  BY DEF Upsert
<1>6. /\ <<Call(o, K(r))>> \in Plans /\ InOrder(<<Call(o, K(r))>>)
      /\ Range(<<Call(o, K(r))>>) = {Call(o, K(r))} /\ Plain(Call(o, K(r)))
  BY <1>1, <1>2, NextCall DEF K
<1>7. Call(o, K(r)).op = o /\ Call(o, K(r)).kind = K(r) /\ o \in Writes /\ o \notin Removes
  BY DEF Call, Removes, Writes
<1>8. K(r) # "deploy"
  BY <1>6, <1>7 DEF Plain
<1> DEFINE s == <<Call(o, K(r))>>
<1>9. Follows(r, Range(s))
  BY <1>3, <1>6, <1>7, <1>8 DEF Follows, Proper
<1>10. /\ \E b \in Range(s) : b.op \in Writes /\ b.kind = K(r)
       /\ \A b \in Range(s) : Plain(b)
       /\ s \in Plans /\ InOrder(s) /\ GoOn(r, s)
  BY <1>5, <1>6, <1>7
<1> HIDE DEF s
<1> QED BY <1>1, <1>4, <1>9, <1>10, ServingLooks

\* upsertRoute looks for an Ingress.
LEMMA ServingSeeIngress ==
  ASSUME Typed, NEW r \in Reqs, Serving(r), phase[r] \in Applying, SeeIngress(r)
  PROVE  Serving(r)'
<1>1. /\ todo[r] # <<>> /\ UNCHANGED obj /\ Head1(r).op = "ingressSeen" /\ (Kept \/ Fault(r))
      /\ GoOn(r, <<>>)
  BY DEF SeeIngress, At
<1>2. clean'[r] => seen'[r] = Exists("ingress")
  <2>1. Fault(r) => ~clean'[r]
    BY DEF Fault, Typed, TypeOK
  <2>2. seen' = [seen EXCEPT ![r] = Exists("ingress")] => seen'[r] = Exists("ingress")
    BY DEF Typed, TypeOK
  <2> QED BY <2>1, <2>2 DEF SeeIngress
<1>3. Head1(r).op \notin Writes \cup Removes \cup {"scale", "fail", "upsert", "routeSeen", "check"}
  BY <1>1 DEF Writes, Removes
<1>4. <<>> \in Plans /\ InOrder(<<>>) /\ Range(<<>>) = {} /\ Follows(r, {})
  BY SmallPlans DEF Follows
<1> QED BY <1>1, <1>2, <1>3, <1>4, ServingLooks

\* Then it looks for an HTTPRoute; no look is left and both answers are still true.
LEMMA ServingSeeRoute ==
  ASSUME Typed, NEW r \in Reqs, Serving(r), phase[r] \in Applying, SeeRoute(r)
  PROVE  Serving(r)'
<1>1. todo[r] # <<>> /\ UNCHANGED <<obj, seen>> /\ Head1(r).op = "routeSeen" /\ (Kept \/ Fault(r))
  BY DEF SeeRoute, Look, At
<1>2. Left(r) = {Head1(r)} \cup Rest(r) /\ \A a \in Rest(r) : ~Precedes(a, Head1(r))
  BY <1>1, AtCall
<1>3. Ahead(r, "routeSeen") /\ ~Ahead(r, "ingressSeen")
  BY <1>1, <1>2 DEF Ahead, Precedes
<1>4. ~def[r].nodePort /\ (clean[r] /\ def[r].exposed => seen[r] = Exists("ingress"))
  BY <1>3 DEF Serving, Prepared, Coming
<1>5. cfg.route \in RouteKinds
  BY ConfigAssumption DEF Typed, TypeOK, ConfigType, RouteKinds
<1>6. PICK w : /\ GoOn(r, upsertRoute(def[r], seen[r], w))
               /\ clean'[r] => clean[r] /\ w = Exists("httproute")
  <2>1. CASE GoOn(r, upsertRoute(def[r], seen[r], Exists("httproute"))) /\ Kept
    BY <2>1 DEF Kept
  <2>2. CASE Fault(r) /\ GoOn(r, upsertRoute(def[r], seen[r], FALSE))
    <3>1. ~clean'[r]
      BY <2>2 DEF Fault, Typed, TypeOK
    <3> QED BY <2>2, <3>1
  <2> QED BY <2>1, <2>2 DEF SeeRoute
<1> DEFINE s == upsertRoute(def[r], seen[r], w)
           S == UpsertedRoute(def[r], seen[r], w)
<1>7. s \in Plans /\ InOrder(s) /\ Range(s) = S
  BY RouteOperations
<1>8. \A b \in S : Plain(b)
  BY RouteCallsArePlain
<1>9. /\ \A c \in S : Proper(def[r], c)
      /\ \E c \in S : c.op \in Writes /\ c.kind = cfg.route
      /\ \A k \in Aux(def[r], cfg.route) : \E c \in S : c.op \in Writes \cup {"upsert"} /\ c.kind = k
      /\ seen[r] /\ cfg.route # "ingress" => \E c \in S : c.op \in Removes /\ c.kind = "ingress"
      /\ w /\ cfg.route # "httproute" => \E c \in S : c.op \in Removes /\ c.kind = "httproute"
  BY <1>4, <1>5, UpsertServes
<1>10. GoOn(r, s)
  BY <1>6
<1> HIDE DEF s, S
<1>11. Follows(r, Range(s))
  BY <1>1, <1>7, <1>8, <1>9 DEF Follows, Plain
<1>12. Needed(def[r], cfg.route) \cap RouteKinds = {cfg.route}
  <2>1. Needed(def[r], cfg.route) = {"deploy", "hpa", "svc"} \cup {cfg.route}
    BY <1>4, <1>5, WantedKinds
  <2> QED BY <1>5, <2>1 DEF RouteKinds
<1>13. \A k \in Needed(def[r], cfg.route) \cap RouteKinds :
          \E b \in Range(s) : b.op \in Writes /\ b.kind = k
  BY <1>7, <1>9, <1>12
<1>14. ASSUME clean'[r], def[r].exposed, NEW k \in RouteKinds \ Needed(def[r], cfg.route), Exists(k)
       PROVE  \E b \in Range(s) : b.op \in Removes /\ b.kind = k
  <2>1. k # cfg.route /\ k \in {"ingress", "httproute"}
    BY <1>5, <1>12 DEF RouteKinds
  <2>2. k = "ingress" => seen[r]
    BY <1>4, <1>6, <1>14
  <2>3. k = "httproute" => w
    BY <1>6, <1>14
  <2> QED BY <1>7, <1>9, <2>1, <2>2, <2>3
<1>15. \A k \in Aux(def[r], cfg.route) : \E b \in Range(s) : b.op \in Writes \cup {"upsert"} /\ b.kind = k
  BY <1>7, <1>9
<1>16. Head1(r).op \notin Writes \cup Removes \cup {"scale", "fail", "ingressSeen", "upsert", "check"}
  BY <1>1 DEF Writes, Removes
<1>17. \A b \in Range(s) : Plain(b)
  BY <1>7, <1>8
<1> QED BY <1>1, <1>7, <1>10, <1>11, <1>13, <1>14, <1>15, <1>16, <1>17, ServingLooks

\* CheckWorkloadAdmited: the replicas come, or the request fails.
LEMMA ServingCheck ==
  ASSUME Typed, NEW r \in Reqs, Serving(r), phase[r] \in Applying, CheckWorkloadAdmited(r)
  PROVE  Serving(r)'
<1>1. todo[r] # <<>> /\ UNCHANGED <<obj, seen>> /\ Head1(r).op = "check" /\ (Kept \/ Fault(r))
  BY DEF CheckWorkloadAdmited, Look, At
<1>2. /\ \A o, k : Call(o, k).op = o /\ Call(o, k).kind = k
      /\ Judges(Head1(r)) /\ Judges(Call("scale", "none")) /\ Withdraws(Call("tryDelete", "workload"))
  BY <1>1 DEF Call, Judges, Withdraws
<1>3. PICK s : /\ GoOn(r, s) /\ s \in Plans /\ InOrder(s)
               /\ \/ Range(s) = {Call("scale", "none")}
                  \/ Range(s) = {Call("tryDelete", "workload")} \cup NotAdmittedCalls(r)
                  \/ Range(s) = NotAdmittedCalls(r)
  <2>1. \/ GoOn(r, <<Call("scale", "none")>>)
        \/ GoOn(r, <<Call("tryDelete", "workload")>> \o NotAdmitted(r))
        \/ GoOn(r, NotAdmitted(r))
    BY DEF CheckWorkloadAdmited, NotAdmitted
  <2> QED BY <2>1, SmallPlans
<1>4. \A b \in Range(s) : b \in {Call("scale", "none"), Call("fail", "none"), Call("tryDelete", "workload"),
                               Call("tryDelete", "localQueue")}
  BY <1>3 DEF NotAdmittedCalls
<1>5. \E b \in Range(s) : b.op \in {"scale", "fail"}
  BY <1>2, <1>3 DEF NotAdmittedCalls
<1>6. cfg.route \in RouteKinds
  BY ConfigAssumption DEF Typed, TypeOK, ConfigType, RouteKinds
<1>7. {"workload", "localQueue", "none"} \cap Wanted(def[r], cfg.route) = {}
  BY <1>6, WantedKinds
<1>8. \A b \in Range(s) : /\ b.op \in {"scale", "fail", "tryDelete"}
                          /\ b.kind \in {"none", "workload", "localQueue"}
  BY <1>2, <1>4
<1>9. Follows(r, Range(s))
  <2>1. \A b \in Range(s) : Proper(def[r], b)
    BY <1>7, <1>8 DEF Proper, Writes
  <2> QED BY <1>8, <2>1 DEF Follows, RouteKinds
<1>10. \A b \in Range(s) : Plain(b) \/ (Judges(Head1(r)) /\ (Judges(b) \/ Withdraws(b)))
  BY <1>2, <1>3, SmallPlans
<1>11. Head1(r).op \notin Writes \cup Removes \cup {"scale", "fail", "ingressSeen", "routeSeen", "upsert"}
  BY <1>1 DEF Writes, Removes
<1> QED BY <1>1, <1>3, <1>5, <1>9, <1>10, <1>11, ServingLooks

\* The replicas of an admitted Workload: the Deployment is there, because nothing that
\* makes it comes after the check.
LEMMA ServingScale ==
  ASSUME Typed, NEW r \in Reqs, Serving(r), phase[r] \in Applying, ScaleUp(r)
  PROVE  Serving(r)'
<1>1. todo[r] # <<>> /\ Head1(r).op = "scale" /\ GoOn(r, <<>>)
  BY DEF ScaleUp, At
<1>2. /\ Head1(r) \in GoodCalls /\ Left(r) = {Head1(r)} \cup Rest(r) /\ def[r] \in Defs
      /\ \A a \in Rest(r) : ~Precedes(a, Head1(r))
  BY <1>1, AtCall
<1>3. UNCHANGED <<cfg, phase, def>>
  BY <1>1 DEF GoOn
<1>4. Left(r)' = {} \cup Rest(r) /\ Follows(r, {})
  <2>1. <<>> \in Plans /\ InOrder(<<>>) /\ Range(<<>>) = {}
    BY SmallPlans
  <2> QED BY <1>1, <2>1, GoneOn DEF Left, Follows
<1>5. /\ K(r) = "none" /\ K(r) \notin RouteKinds
      /\ Head1(r).op \notin Writes \cup Removes \cup {"upsert", "routeSeen", "ingressSeen"}
  BY <1>1, <1>2 DEF GoodCalls, Fits, KindOps, Writes, Removes, RouteKinds, K
<1>6. UNCHANGED seen /\ (clean'[r] => clean[r])
  BY DEF ScaleUp, Put, Look, Kept, Fault, Typed, TypeOK
<1>7. ASSUME clean'[r], def[r].exposed PROVE Keeps(r, {})
  <2>1. ~Will(r, Writes, "deploy")
    BY <1>1, <1>2 DEF Will, Precedes, Settles, Judges, Writes
  <2>2. "deploy" \in Needed(def[r], cfg.route) /\ "deploy" \notin RouteKinds
    BY DEF Needed, RouteKinds
  <2>3. Exists("deploy")
    <3>1. Coming(r)
      BY <1>6, <1>7 DEF Serving
    <3> QED BY <2>1, <2>2, <3>1 DEF Coming, MadeOf
  <2>4. Fault(r) => ~clean'[r]
    BY DEF Fault, Typed, TypeOK
  <2>5. Put("deploy", [def |-> def[r], replicas |-> def[r].min])
    BY <1>7, <2>3, <2>4 DEF ScaleUp
  <2>6. /\ obj'["deploy"] = [def |-> def[r], replicas |-> def[r].min]
        /\ \A k \in Kinds \ {"deploy"} : obj'[k] = obj[k]
    BY <2>5 DEF Put, Typed, TypeOK, Kinds
  <2>7. obj'["deploy"] # None /\ obj'["deploy"].def = def[r] /\ obj'["deploy"].replicas = def[r].min
    BY <1>2, <2>6, NewObjects
  <2>8. Wanted(def[r], cfg.route) \subseteq Kinds
    <3>1. cfg.route \in RouteKinds
      BY ConfigAssumption DEF Typed, TypeOK, ConfigType, RouteKinds
    <3> QED BY <3>1, WantedKinds
  <2>9. RouteKinds \subseteq Kinds \ {"deploy"} /\ "ingress" \in RouteKinds
    BY DEF RouteKinds, Kinds
  <2> QED BY <1>5, <1>6, <2>6, <2>7, <2>8, <2>9 DEF Keeps
<1> QED BY <1>1, <1>3, <1>4, <1>6, <1>7, ServingGoesOn

\* Every step of a request keeps its service coming.
LEMMA ServingStep ==
  ASSUME Typed, NEW r \in Reqs, Serving(r), Step(r)
  PROVE  Serving(r)'
<1>1. r \in InFlight /\ (~Return(r) => todo[r] # <<>>)
  BY Stepping
<1>2. phase \in [Reqs -> Phases] /\ obj \in [Kinds -> Object \cup {None}]
  BY DEF Typed, TypeOK, Object
<1>3. ASSUME CallFails(r) \/ Refused(r), todo[r] # <<>> PROVE Serving(r)'
  BY <1>3, ServingFails
<1>4. ASSUME NEW o, Put(K(r), o)
      PROVE  /\ \A k \in Kinds \ {K(r)} : obj'[k] = obj[k]
             /\ K(r) \in Kinds => obj'[K(r)] = o
             /\ UNCHANGED seen
  BY <1>2, <1>4 DEF Put
<1>5. ASSUME Look
      PROVE  UNCHANGED seen /\ \A k \in Kinds : obj'[k] = obj[k]
  BY <1>5 DEF Look
<1>6. Fault(r) => ~clean'[r]
  BY DEF Fault, Typed, TypeOK
<1>7. CASE Create(r) \/ Update(r)
  <2>1. /\ todo[r] # <<>> /\ Head1(r).op \in Writes
        /\ Head1(r).op \notin {"ingressSeen", "routeSeen", "upsert", "check", "scale", "fail"}
    BY <1>7 DEF Create, Update, At, Writes
  <2>2. CASE CallFails(r) \/ Refused(r)
    BY <1>3, <2>1, <2>2
  <2>3. CASE Put(K(r), NewObj(K(r), def[r])) /\ GoOn(r, <<>>) /\ Kept
    <3>1. Touches(r) /\ UNCHANGED seen
      BY <1>4, <2>1, <2>3 DEF Touches
    <3> QED BY <2>1, <2>3, <3>1, ServingPuts
  <2> QED BY <1>7, <2>2, <2>3 DEF Create, Update
<1>8. CASE Get(r) \/ DeletePods(r)
  <2>1. todo[r] # <<>> /\ Head1(r).op \in {"get", "pods"}
    BY <1>8 DEF Get, DeletePods, At
  <2>2. Head1(r).op \notin Writes \cup Removes \cup
                          {"ingressSeen", "routeSeen", "upsert", "check", "scale", "fail"}
    BY <2>1 DEF Writes, Removes
  <2>3. CASE CallFails(r) \/ Refused(r)
    BY <1>3, <2>1, <2>3
  <2>4. CASE Look /\ GoOn(r, <<>>) /\ Kept
    <3>1. Touches(r) /\ UNCHANGED seen
      BY <1>5, <2>2, <2>4 DEF Touches
    <3> QED BY <2>1, <2>2, <2>4, <3>1, ServingPuts
  <2> QED BY <1>8, <2>3, <2>4 DEF Get, DeletePods
<1>9. CASE Delete(r) \/ Drop(r)
  <2>1. /\ todo[r] # <<>> /\ Head1(r).op \in Removes
        /\ Head1(r).op \notin {"ingressSeen", "routeSeen", "upsert", "check", "scale", "fail"}
    BY <1>9 DEF Delete, Drop, At, Removes
  <2>2. CASE CallFails(r) \/ Refused(r)
    BY <1>3, <2>1, <2>2
  <2>3. CASE Put(K(r), None) /\ GoOn(r, <<>>) /\ Kept
    <3>1. Touches(r) /\ UNCHANGED seen
      BY <1>4, <2>1, <2>3 DEF Touches
    <3> QED BY <2>1, <2>3, <3>1, ServingPuts
  <2> QED BY <1>9, <2>2, <2>3 DEF Delete, Drop
<1>10. CASE TryCreate(r) \/ TryDelete(r)
  <2>1. /\ todo[r] # <<>> /\ Head1(r).op \in {"tryCreate", "tryDelete"} /\ GoOn(r, <<>>)
    BY <1>10 DEF TryCreate, TryDelete, At
  <2>2. K(r) \in {"workload", "localQueue"}
    BY <2>1, AtCall DEF GoodCalls, Fits, K
  <2>3. Head1(r).op \notin {"ingressSeen", "routeSeen", "upsert", "check", "scale", "fail"}
    BY <2>1
  <2>4. CASE Kept /\ \E o : Put(K(r), o)
    <3>1. Touches(r) /\ UNCHANGED seen
      BY <1>4, <2>2, <2>4 DEF Touches
    <3> QED BY <2>1, <2>3, <2>4, <3>1, ServingPuts
  <2>5. CASE (Kept \/ Fault(r)) /\ Look
    <3>1. Touches(r) /\ UNCHANGED seen
      BY <1>5, <2>2, <2>5 DEF Touches
    <3> QED BY <2>1, <2>3, <2>5, <3>1, ServingPuts
  <2> QED BY <1>10, <2>4, <2>5 DEF TryCreate, TryDelete
<1>11. CASE DeleteIf(r) \/ Upsert(r) \/ SeeIngress(r) \/ SeeRoute(r) \/ CheckWorkloadAdmited(r) \/ ScaleUp(r)
  <2>1. phase' = phase
    BY <1>11 DEF DeleteIf, Upsert, SeeIngress, SeeRoute, CheckWorkloadAdmited, ScaleUp, GoOn
  <2>2. CASE phase[r] \notin Applying
    BY <2>1, <2>2 DEF Serving
  <2>3. CASE phase[r] \in Applying
    BY <1>11, <2>3, ServingDeleteIf, ServingUpsert, ServingSeeIngress, ServingSeeRoute, ServingCheck,
       ServingScale
  <2> QED BY <2>2, <2>3
<1>12. CASE Publish(r)
  <2>1. CASE phase'[r] \notin Applying
    BY <2>1 DEF Serving
  <2>2. CASE phase'[r] \in Applying
    <3>1. /\ todo[r] # <<>> /\ Head1(r).op = "publish" /\ UNCHANGED <<cfg, obj, phase, def, clean, seen>>
          /\ todo' = [todo EXCEPT ![r] = Tail(todo[r])]
      BY <1>2, <1>12, <2>2 DEF Publish, At, Begin, Applying
    <3>2. Left(r)' = {} \cup Rest(r) /\ Follows(r, {})
      BY <3>1 DEF Left, Rest, Follows, Typed, TypeOK
    <3>3. Head1(r).op \notin Writes \cup Removes \cup
                            {"ingressSeen", "routeSeen", "upsert", "check", "scale", "fail"}
      BY <3>1 DEF Writes, Removes
    <3>4. Keeps(r, {})
      BY <3>1, <3>3 DEF Keeps
    <3> QED BY <2>2, <3>1, <3>2, <3>4, ServingGoesOn
  <2> QED BY <2>1, <2>2
<1>13. CASE ReturnError(r)
  BY <1>3, <1>13 DEF ReturnError, At
<1>14. CASE Return(r)
  <2>1. phase'[r] = "done"
    BY <1>2, <1>14 DEF Return
  <2> QED BY <2>1 DEF Serving, Applying
<1> QED BY <1>7, <1>8, <1>9, <1>10, <1>11, <1>12, <1>13, <1>14 DEF Step

\* A request keeps the definition that its update began from.
LEMMA UndoingStep ==
  ASSUME Typed, NEW r \in Reqs, Undoing(r), Step(r)
  PROVE  Undoing(r)'
<1>1. /\ phase \in [Reqs -> Phases] /\ def \in [Reqs -> Defs \cup {None}]
  BY DEF Typed, TypeOK
<1>2. ASSUME CallFails(r) \/ Refused(r) PROVE Undoing(r)'
  <2>1. Abort(r)
    BY <1>2 DEF CallFails, Refused
  <2>2. /\ UNCHANGED <<prior, served>>
        /\ \/ phase'[r] \in {"done", "rollback"}
           \/ phase'[r] = "undo" /\ phase[r] = "update" /\ def'[r] = prior[r]
    BY <1>1, <2>1 DEF Abort, Begin
  <2> QED BY <2>2 DEF Undoing
<1>3. ASSUME UNCHANGED <<phase, def, prior, served>> PROVE Undoing(r)'
  BY <1>3 DEF Undoing
<1>4. ASSUME NEW s, GoOn(r, s) PROVE Undoing(r)'
  BY <1>3, <1>4 DEF GoOn
<1>5. CASE Create(r) \/ Update(r) \/ Get(r) \/ Delete(r) \/ Drop(r) \/ DeletePods(r)
  BY <1>2, <1>4, <1>5 DEF Create, Update, Get, Delete, Drop, DeletePods
<1>6. CASE DeleteIf(r) \/ Upsert(r) \/ SeeIngress(r) \/ SeeRoute(r)
  BY <1>4, <1>6 DEF DeleteIf, Upsert, SeeIngress, SeeRoute
<1>7. CASE TryCreate(r) \/ TryDelete(r) \/ ScaleUp(r)
  BY <1>4, <1>7 DEF TryCreate, TryDelete, ScaleUp
<1>8. CASE CheckWorkloadAdmited(r)
  BY <1>4, <1>8 DEF CheckWorkloadAdmited
<1>9. CASE ReturnError(r)
  BY <1>2, <1>9 DEF ReturnError
<1>10. CASE Publish(r) \/ Return(r)
  <2>1. UNCHANGED <<def, prior, served>> /\ (UNCHANGED phase \/ phase'[r] = "done")
    BY <1>1, <1>10 DEF Publish, Return, Begin
  <2> QED BY <1>3, <2>1 DEF Undoing
<1> QED BY <1>5, <1>6, <1>7, <1>8, <1>9, <1>10 DEF Step

\* An update reads the definition that it may have to restore.
LEMMA UndoingArrival ==
  ASSUME Typed, NEW r \in Reqs, StartCreate(r) \/ StartUpdate(r) \/ StartDelete(r)
  PROVE  Undoing(r)'
<1>1. /\ phase \in [Reqs -> Phases] /\ prior \in [Reqs -> Defs \cup {None}]
      /\ served \in [Reqs -> BOOLEAN]
  BY DEF Typed, TypeOK
<1>2. CASE StartCreate(r) \/ StartDelete(r)
  <2>1. phase'[r] \in {"create", "delete"}
    BY <1>1, <1>2 DEF StartCreate, StartDelete, Begin
  <2> QED BY <2>1 DEF Undoing
<1>3. CASE StartUpdate(r)
  <2>1. phase'[r] = "update" /\ prior'[r] = reg.def
    BY <1>1, <1>3 DEF StartUpdate, Begin
  <2>2. served' = [served EXCEPT ![r] = reg.def.exposed /\ ServedAs(reg.def, reg.route)]
    BY <1>3 DEF StartUpdate
  <2>3. PICK b : /\ b = (reg.def.exposed /\ ServedAs(reg.def, reg.route))
                 /\ served' = [served EXCEPT ![r] = b]
    BY <2>2, Zenon
  <2>4. served'[r] = b
    BY <1>1, <2>3
  <2>5. served'[r] => reg.def.exposed
    BY <2>3, <2>4, Zenon
  <2> QED BY <2>1, <2>5 DEF Undoing
<1> QED BY <1>2, <1>3

\* A create or an update that arrives will make what its definition wants.
LEMMA ServingArrival ==
  ASSUME Typed, NEW r \in Reqs, StartCreate(r) \/ StartUpdate(r) \/ StartDelete(r)
  PROVE  Serving(r)'
<1>1. TypeOK /\ UNCHANGED cfg
  BY ArrivalOwn DEF Typed
<1>2. cfg.route \in RouteKinds
  BY <1>1, ConfigAssumption DEF TypeOK, ConfigType, RouteKinds
<1>3. CASE StartCreate(r)
  <2>1. PICK d \in Defs : def' = [def EXCEPT ![r] = d] /\ Begin(r, "create", StartOfCreate(d))
    BY <1>3 DEF StartCreate, StartOfCreate
  <2>2. phase'[r] = "create" /\ def'[r] = d /\ todo'[r] = StartOfCreate(d)
    BY <1>1, <2>1 DEF Begin, TypeOK
  <2>3. todo'[r] = StartOfCreate(def'[r])
    BY <2>2
  <2> QED BY <1>1, <1>2, <2>2, <2>3, ServingCreate
<1>4. CASE StartUpdate(r)
  <2>1. phase'[r] = "update" /\ todo'[r] = UpdateOf(def'[r])
    BY <1>1, <1>4 DEF StartUpdate, Begin, TypeOK
  <2> QED BY <1>1, <1>2, <2>1, ServingUpdate
<1>5. CASE StartDelete(r)
  <2>1. phase'[r] = "delete"
    BY <1>1, <1>5 DEF StartDelete, Begin, TypeOK
  <2> QED BY <2>1 DEF Serving, Applying
<1> QED BY <1>3, <1>4, <1>5

\* While another request takes a step, a request keeps its plan and is not clean.
LEMMA ServingOther ==
  ASSUME Typed, NEW q \in Reqs, Serving(q), UNCHANGED cfg, todo'[q] = todo[q], phase'[q] = phase[q],
         def'[q] = def[q], q \in InFlight' => ~clean'[q]
  PROVE  Serving(q)'
<1> SUFFICES ASSUME phase'[q] \in Applying PROVE Serving(q)'
  BY DEF Serving
<1>1. Left(q)' = Left(q) /\ ~clean'[q]
  BY DEF Left, InFlight, Applying
<1>2. Prepared(q)
  BY DEF Serving
<1>3. Prepared(q)'
  BY <1>1, <1>2 DEF Prepared, Proper, Wanted, Needed, Aux, Ahead, Will
<1> QED BY <1>1, <1>3 DEF Serving

\* Every step keeps what is served coming.
LEMMA ServiceNext ==
  ASSUME Typed, Service, [Next]_vars
  PROVE  Service'
<1> USE DEF Service
<1>1. ASSUME UNCHANGED <<cfg, obj, todo, phase, def, prior, seen, clean, served>> PROVE Service'
  <2>1. \A q \in Reqs : Alone(q)' /\ Undoing(q)'
    BY <1>1 DEF Alone, Undoing, InFlight
  <2>2. ASSUME NEW q \in Reqs PROVE Serving(q)'
    <3>1. Serving(q) /\ Left(q)' = Left(q)
      BY <1>1 DEF Left
    <3>2. Prepared(q) => Prepared(q)'
      BY <1>1, <3>1 DEF Prepared, Proper, Wanted, Needed, Aux, Ahead, Will
    <3>3. Coming(q) => Coming(q)'
      BY <1>1, <3>1 DEF Coming, MadeOf, Scaled, Exists, Needed, Aux, Ahead, Will
    <3> QED BY <1>1, <3>1, <3>2, <3>3 DEF Serving
  <2> QED BY <2>1, <2>2
<1>2. CASE UNCHANGED vars
  BY <1>1, <1>2 DEF vars
<1>3. CASE Admit
  BY <1>1, <1>3 DEF Admit
<1>4. CASE Restart
  <2>1. \A q \in Reqs : phase'[q] \in {"idle", "done"}
    BY <1>4 DEF Restart, InFlight
  <2> QED BY <2>1 DEF Alone, Serving, Undoing, Applying, InFlight
<1>5. ASSUME NEW r \in Reqs, Step(r) PROVE Service'
  <2>1. Own(r)
    BY <1>5, StepOwn
  <2>2. /\ \A q \in Reqs : Alone(q)'
        /\ \A q \in Reqs \ {r} : q \in InFlight' => ~clean'[q]
    BY <1>5, AloneNext
  <2>3. ASSUME NEW q \in Reqs \ {r} PROVE Serving(q)' /\ Undoing(q)'
    <3>1. Serving(q)'
      BY <2>1, <2>2, ServingOther DEF Own
    <3>2. Undoing(q)'
      BY <2>1 DEF Own, Undoing
    <3> QED BY <3>1, <3>2
  <2>4. Serving(r)' /\ Undoing(r)'
    BY <1>5, ServingStep, UndoingStep
  <2> QED BY <2>2, <2>3, <2>4
<1>6. ASSUME NEW r \in Reqs, StartCreate(r) \/ StartUpdate(r) \/ StartDelete(r) PROVE Service'
  <2>1. /\ \A q \in Reqs \ {r} : /\ todo'[q] = todo[q] /\ phase'[q] = phase[q] /\ def'[q] = def[q]
                                 /\ prior'[q] = prior[q] /\ served'[q] = served[q]
                                 /\ q \in InFlight' => ~clean'[q]
        /\ UNCHANGED cfg /\ \A q \in Reqs : Alone(q)'
    BY <1>6, ArrivalOwn
  <2>2. ASSUME NEW q \in Reqs \ {r} PROVE Serving(q)' /\ Undoing(q)'
    <3>1. Serving(q)'
      BY <2>1, ServingOther
    <3>2. Undoing(q)'
      BY <2>1 DEF Undoing
    <3> QED BY <3>1, <3>2
  <2>3. Serving(r)' /\ Undoing(r)'
    BY <1>6, ServingArrival, UndoingArrival
  <2> QED BY <2>1, <2>2, <2>3
<1> QED BY <1>2, <1>3, <1>4, <1>5, <1>6 DEF Next, AllServed

\* Nothing is served, and nothing has been asked for, at the start.
LEMMA ServiceInit == Init => Service
BY DEF Init, Service, Alone, Serving, Undoing, Applying, InFlight

\* When a request that applies a definition has made all its calls, nothing is still to
\* come: it is all there, and all that it refers to.
LEMMA AllCame ==
  ASSUME Typed, Service, NEW r \in Reqs, phase[r] \in Applying, todo[r] = <<>>, clean[r], def[r].exposed
  PROVE  /\ ServedAs(def[r], cfg.route)
         /\ phase[r] # "create" => OnlyRoute(def[r], cfg.route)
<1> DEFINE d == def[r]
<1>1. Left(r) = {}
  <2>1. Range(<<>>) = {}
    BY InTuple
  <2> QED BY <2>1 DEF Left
<1>2. Coming(r)
  BY DEF Service, Serving
<1>3. /\ \A k \in Needed(d, cfg.route) : MadeOf(k, d)
      /\ \A k \in Aux(d, cfg.route) : Exists(k)
      /\ Scaled(d)
      /\ phase[r] # "create" => \A k \in RouteKinds \ Needed(d, cfg.route) : ~Exists(k)
  BY <1>1, <1>2 DEF Coming, Will, Ahead
<1>4. cfg.route \in RouteKinds
  BY ConfigAssumption DEF Typed, TypeOK, ConfigType, RouteKinds
<1>5. \A k \in Wanted(d, cfg.route) : Exists(k)
  BY <1>3 DEF Wanted, MadeOf
<1>6. ASSUME NEW k \in Needed(d, cfg.route)
      PROVE  \A j \in Refers(k, d) : Exists(j) /\ \A i \in Refers(j, d) : Exists(i)
  <2>1. {"deploy", "hpa", "svc"} \subseteq Wanted(d, cfg.route)
    BY <1>4, WantedKinds
  <2>2. \A i \in Refers("deploy", d) \cup Refers("cors", d) \cup Refers("secret", d) \cup Refers("authSec", d) : FALSE
    BY DEF Refers
  <2>3. Refers("svc", d) = {"deploy"} /\ Refers("hpa", d) = {"deploy"} /\ Refers("authMdw", d) = {"authSec"}
    BY DEF Refers, getServiceSpec, getHorizontalAutoScaleSpec, getTraefikAuthMiddlewareSpec
  <2>4. CASE k \in {"deploy", "hpa", "svc"}
    BY <1>5, <2>1, <2>2, <2>3, <2>4
  <2>5. CASE k = "ingress"
    <3>1. Refers(k, d) = {"svc"} \cup (IF d.auth THEN {"secret"} ELSE {})
      BY <2>5 DEF Refers, getIngressSpec
    <3>2. ~d.nodePort /\ cfg.route = "ingress"
      BY <1>4, <2>5 DEF Needed, Route, RouteKinds
    <3>3. d.auth => "secret" \in Wanted(d, cfg.route)
      BY <3>2 DEF Wanted, Aux, Route
    <3> QED BY <1>5, <2>1, <2>2, <2>3, <3>1, <3>3
  <2>6. CASE k = "httproute"
    <3>1. Refers(k, d) = {"svc", "cors"} \cup (IF d.auth THEN {"authMdw"} ELSE {})
      BY <2>6 DEF Refers, getHTTPRouteSpec
    <3>2. ~d.nodePort /\ cfg.route = "httproute"
      BY <1>4, <2>6 DEF Needed, Route, RouteKinds
    <3>3. /\ "cors" \in Wanted(d, cfg.route)
          /\ d.auth => "authMdw" \in Wanted(d, cfg.route) /\ "authSec" \in Wanted(d, cfg.route)
      BY <3>2 DEF Wanted, Aux, Route
    <3> QED BY <1>5, <2>1, <2>2, <2>3, <3>1, <3>3
  <2> QED BY <2>4, <2>5, <2>6 DEF Needed, Route
<1>7. ServedAs(d, cfg.route)
  BY <1>3, <1>6 DEF ServedAs, MadeOf, Scaled
<1> QED BY <1>3, <1>7 DEF OnlyRoute, RouteKinds

\* A create or an update that is answered "ok" leaves the exposure that its definition asks
\* for (createDeployment, createRoute, upsertRoute), whatever came before it; an update
\* leaves no other route.
THEOREM AcceptedServed == Spec => AcceptedIsServed
<1>1. Init => Typed /\ Service
  BY TypedInit, ServiceInit
<1>2. Typed /\ Service /\ [Next]_vars => (Typed /\ Service)'
  BY TypedNext, ServiceNext
<1>3. ASSUME Typed, Service, [Next]_vars
      PROVE  [\A r \in Reqs :
                (Completes(r, "create") \/ Completes(r, "update")) /\ def[r].exposed =>
                    /\ ServedAs(def[r], cfg.route)
                    /\ phase[r] = "update" => OnlyRoute(def[r], cfg.route)]_vars
  <2>1. ASSUME NEW r \in Reqs, Completes(r, "create") \/ Completes(r, "update"), def[r].exposed
        PROVE  /\ ServedAs(def[r], cfg.route)
               /\ phase[r] = "update" => OnlyRoute(def[r], cfg.route)
    BY <1>3, <2>1, AllCame DEF Completes, Applying
  <2> QED BY <2>1
<1> QED BY <1>1, <1>2, <1>3, PTL DEF Spec, AcceptedIsServed

\* A failed update of a service that was served, undone by UpdateService with the old
\* definition, leaves it served as before and by no other route.
THEOREM UndoneRestored == Spec => UndoRestores
<1>1. Init => Typed /\ Service
  BY TypedInit, ServiceInit
<1>2. Typed /\ Service /\ [Next]_vars => (Typed /\ Service)'
  BY TypedNext, ServiceNext
<1>3. ASSUME Typed, Service, [Next]_vars
      PROVE  [\A r \in Reqs : Completes(r, "undo") /\ served[r] =>
                 ServedAs(prior[r], cfg.route) /\ OnlyRoute(prior[r], cfg.route)]_vars
  <2>1. ASSUME NEW r \in Reqs, Completes(r, "undo"), served[r]
        PROVE  ServedAs(prior[r], cfg.route) /\ OnlyRoute(prior[r], cfg.route)
    <3>1. def[r] = prior[r] /\ prior[r].exposed
      BY <1>3, <2>1 DEF Service, Undoing, Completes
    <3> QED BY <1>3, <2>1, <3>1, AllCame DEF Completes, Applying
  <2> QED BY <2>1
<1> QED BY <1>1, <1>2, <1>3, PTL DEF Spec, UndoRestores

-----------------------------------------------------------------------------
(* What runs.  Under Kueue, while requests come one at a time, pods run only   *)
(* under an admitted Workload: a Workload is removed after the Deployment was  *)
(* written with no replicas, or removed, and the replicas are set right after  *)
(* the Workload was seen to be admitted.                                       *)

Runs == Exists("deploy") /\ obj["deploy"].replicas > 0
Gating == Gated /\ overlaps = 0
Solo == \A p, q \in InFlight : p = q

\* When the replicas are to be set, nothing else is to happen to Deployment or Workload.
Scaling(r) ==
    Ahead(r, "scale") => \A c \in Left(r) : ~Settles(c) /\ ~Withdraws(c) /\ ~Applies(c)

\* The Workload is there when the replicas are set; before it is removed, nothing runs.
Admitting(r) ==
    /\ Ahead(r, "scale") => Exists("workload") /\ admitted
    /\ (\E c \in Left(r) : Withdraws(c)) => ~Runs \/ Will(r, {"update", "drop"}, "deploy")

\* A request that removes the service deletes what it has seen, next.
Deleting(r) ==
    phase[r] \in {"rollback", "delete"} =>
        /\ \A c \in Left(r) : c.op = "delete" => Exists(c.kind)
        /\ todo[r] # <<>> => \A c \in Rest(r) : c.op # "delete"

Admission ==
    /\ \A r \in Reqs : Scaling(r)
    /\ Gating => /\ Solo
                 /\ Runs => Exists("workload") /\ admitted
                 /\ \A r \in Reqs : Admitting(r) /\ Deleting(r)

\* And while no call fails and no request is lost, the Workload is that of the pods: a
\* request in progress finds no other one, or removes it, and leaves none without its
\* Deployment.
Matched == Exists("workload") => Exists("deploy")
Same(r) == Exists("workload") => obj["workload"].def = def[r]
Withdrawing(r) == \E c \in Left(r) : Withdraws(c)

MatchingCreate(r) ==
    /\ \A c \in Left(r) : c.kind = "deploy" => c.op = "create"
    /\ ~def[r].exposed =>
          Matched /\ \A c \in Left(r) : c.kind \notin {"deploy", "workload"} /\ ~Judges(c)
    /\ def[r].exposed => Exists("deploy") \/ Will(r, {"create"}, "deploy")
    /\ Will(r, {"create"}, "deploy") => Matched \/ Same(r)
    /\ IF Ahead(r, "publish") THEN Matched ELSE reg # None

MatchingUpdate(r) ==
    /\ \A c \in Left(r) : c.kind = "deploy" => c.op \in {"get", "update"}
    /\ Matched
    /\ Will(r, {"update"}, "deploy") => Withdrawing(r)
    /\ (\E c \in Left(r) : Applies(c)) => Exists("deploy") \/ Will(r, {"update"}, "deploy")

MatchingDelete(r) ==
    /\ Will(r, {"drop"}, "deploy") => Withdrawing(r)
    /\ Matched \/ Withdrawing(r)

Matching(r) ==
    /\ phase[r] = "create" => MatchingCreate(r)
    /\ phase[r] \in {"update", "undo"} => MatchingUpdate(r)
    /\ phase[r] \in {"rollback", "delete"} => MatchingDelete(r)
    /\ (\E c \in Left(r) : Judges(c)) =>
          Same(r) \/ Withdrawing(r) \/ \E c \in Left(r) : Settles(c)

Fidelity ==
    Gating /\ faults + restarts = 0 =>
        /\ Runs => obj["workload"].def = obj["deploy"].def
        /\ InFlight = {} => Matched
        /\ \A r \in InFlight : Matching(r)

\* The ways in which a step of a request touches Deployment and Workload.  The call was
\* made and the calls S come before the rest.
Adds(r, S) ==
    /\ todo[r] # <<>> /\ Left(r)' = S \cup Rest(r)
    /\ UNCHANGED <<cfg, reg, phase, def, overlaps, restarts>>
    /\ faults' = faults \/ faults' = faults + 1
SameDeploy == obj'["deploy"] = obj["deploy"]
SameWorkload == obj'["workload"] = obj["workload"] /\ admitted' = admitted

Passes(r) ==
    /\ \E S : Adds(r, S) /\ \A b \in S : Plain(b)
    /\ SameDeploy /\ SameWorkload /\ ~Settles(Head1(r)) /\ ~Judges(Head1(r)) /\ Head1(r).op # "publish"
    /\ Withdraws(Head1(r)) => faults' # faults
    /\ Applies(Head1(r)) => faults' # faults \/ Exists("workload") \/ ~cfg.kueue
Sets(r) ==
    /\ Adds(r, {}) /\ SameWorkload /\ Settles(Head1(r)) /\ obj'["deploy"] = NewObj("deploy", def[r])
    /\ \/ Head1(r).op = "create" /\ ~Exists("deploy")
       \/ Head1(r).op = "update" /\ Exists("deploy")
Drops(r) ==
    /\ Adds(r, {}) /\ SameWorkload /\ Settles(Head1(r)) /\ Head1(r).op = "drop" /\ obj'["deploy"] = None
Takes(r) == Adds(r, {}) /\ SameDeploy /\ Withdraws(Head1(r)) /\ obj'["workload"] = None
Asks(r) ==
    /\ Adds(r, {}) /\ SameDeploy /\ Applies(Head1(r)) /\ ~Exists("workload")
    /\ obj'["workload"] = NewObj("workload", def[r])
Judged(r) ==
    /\ Head1(r).op = "check" /\ SameDeploy /\ SameWorkload
    /\ \/ Adds(r, {Call("scale", "none")}) /\ Exists("workload") /\ admitted
       \/ /\ Adds(r, {Call("tryDelete", "workload")} \cup NotAdmittedCalls(r))
          /\ Exists("workload") /\ ~admitted
       \/ Adds(r, NotAdmittedCalls(r))
Scales(r) ==
    /\ Adds(r, {}) /\ SameWorkload /\ Head1(r).op = "scale"
    /\ SameDeploy \/ (Exists("deploy") /\ obj'["deploy"] = [def |-> def[r], replicas |-> def[r].min])
Fails(r) ==
    /\ todo[r] # <<>> /\ Abort(r) /\ SameDeploy /\ SameWorkload
    /\ \/ faults' = faults + 1
       \/ faults' = faults /\ (Head1(r).op = "delete" => ~Exists(K(r)))
                            /\ Head1(r).op \in {"create", "update", "get", "delete", "fail"}

\* A call that goes on with the plan s.
LEMMA AddsOn ==
  ASSUME Typed, NEW r \in Reqs, todo[r] # <<>>, NEW s \in Plans, InOrder(s), GoOn(r, s), Kept \/ Fault(r),
         \A b \in Range(s) : Plain(b) \/ (Judges(Head1(r)) /\ (Judges(b) \/ Withdraws(b)))
  PROVE  Adds(r, Range(s))
<1>1. Left(r)' = Range(s) \cup Rest(r)
  BY GoneOn DEF Left
<1> QED BY <1>1 DEF Adds, GoOn, Kept, Fault

\* A call that writes object k or, for the Deployment and the Workload, nothing.
LEMMA Writing ==
  ASSUME TypeOK, NEW k \in Kinds, NEW o, Put(k, o)
  PROVE  /\ obj'[k] = o
         /\ k # "deploy" => SameDeploy
         /\ k # "workload" => SameWorkload
<1>1. "deploy" \in Kinds /\ "workload" \in Kinds /\ admitted \in BOOLEAN
  BY DEF Kinds, TypeOK
<1>2. obj' = [obj EXCEPT ![k] = o] /\ admitted' = (admitted /\ k # "workload")
  BY DEF Put
<1>3. k # "workload" => admitted' = admitted
  BY <1>1, <1>2
<1> QED BY <1>1, <1>2, <1>3 DEF TypeOK, SameDeploy, SameWorkload

\* Every step of a request is one of these.
LEMMA Effects ==
  ASSUME Typed, NEW r \in Reqs, Step(r)
  PROVE  \/ Passes(r) \/ Sets(r) \/ Drops(r) \/ Takes(r) \/ Asks(r) \/ Judged(r) \/ Scales(r)
         \/ Fails(r) \/ Publish(r) \/ Return(r)
<1>1. TypeOK
  BY DEF Typed
<1>2. Look => SameDeploy /\ SameWorkload
  BY DEF Look, SameDeploy, SameWorkload
<1>3. <<>> \in Plans /\ InOrder(<<>>) /\ Range(<<>>) = {}
  BY SmallPlans
<1>4. ASSUME todo[r] # <<>>, GoOn(r, <<>>), Kept \/ Fault(r) PROVE Adds(r, {})
  BY <1>3, <1>4, AddsOn
<1>5. todo[r] # <<>> => Head1(r) \in GoodCalls
  BY AtCall
<1>6. ASSUME CallFails(r) \/ (Refused(r) /\ (Head1(r).op = "delete" => ~Exists(K(r)))),
             todo[r] # <<>>, Head1(r).op \in {"create", "update", "get", "delete", "drop", "pods", "fail"},
             Refused(r) => Head1(r).op \in {"create", "update", "get", "delete", "fail"}
      PROVE  Fails(r)
  BY <1>6 DEF CallFails, Refused, Fails, SameDeploy, SameWorkload
<1>7. Fault(r) => faults' # faults
  BY <1>1 DEF Fault, TypeOK
<1>8. ASSUME todo[r] # <<>>, Head1(r).op \in {"create", "update"}, GoOn(r, <<>>), Kept,
             Put(K(r), NewObj(K(r), def[r])), Exists(K(r)) <=> Head1(r).op = "update"
      PROVE  Passes(r) \/ Sets(r)
  <2>1. K(r) \in Kinds \ {"workload", "localQueue"}
    BY <1>5, <1>8 DEF GoodCalls, Fits, KindOps, Writes, K
  <2>2. Adds(r, {}) /\ SameWorkload /\ obj'[K(r)] = NewObj(K(r), def[r]) /\ (K(r) # "deploy" => SameDeploy)
    BY <1>1, <1>4, <1>8, <2>1, Writing
  <2>3. CASE K(r) = "deploy"
    BY <1>8, <2>2, <2>3 DEF Sets, Settles, K
  <2>4. CASE K(r) # "deploy"
    BY <1>8, <2>1, <2>2, <2>4 DEF Passes, Settles, Judges, Withdraws, Applies, K
  <2> QED BY <2>3, <2>4
<1>9. CASE Create(r)
  BY <1>6, <1>8, <1>9 DEF Create, At
<1>10. CASE Update(r)
  BY <1>6, <1>8, <1>10 DEF Update, At
<1>11. CASE Get(r) \/ DeletePods(r)
  <2>1. todo[r] # <<>> /\ Head1(r).op \in {"get", "pods"} /\ (DeletePods(r) => Head1(r).op = "pods")
    BY <1>11 DEF Get, DeletePods, At
  <2>2. CASE Look /\ GoOn(r, <<>>) /\ Kept
    <3>1. ~Settles(Head1(r)) /\ ~Judges(Head1(r)) /\ ~Withdraws(Head1(r)) /\ ~Applies(Head1(r))
          /\ Head1(r).op # "publish"
      BY <2>1 DEF Settles, Judges, Withdraws, Applies
    <3> QED BY <1>2, <1>4, <2>1, <2>2, <3>1 DEF Passes
  <2>3. CASE CallFails(r)
    <3>1. Abort(r) /\ SameDeploy /\ SameWorkload /\ faults' = faults + 1
      BY <2>3 DEF CallFails, SameDeploy, SameWorkload
    <3> QED BY <2>1, <3>1 DEF Fails
  <2>4. CASE Get(r) /\ Refused(r)
    <3>1. Head1(r).op = "get" /\ Abort(r) /\ SameDeploy /\ SameWorkload /\ faults' = faults
      BY <2>4 DEF Get, At, Refused, SameDeploy, SameWorkload
    <3> QED BY <2>1, <3>1 DEF Fails
  <2> QED BY <1>11, <2>2, <2>3, <2>4 DEF Get, DeletePods
<1>12. CASE Delete(r) \/ Drop(r)
  <2>1. todo[r] # <<>> /\ Head1(r).op \in {"delete", "drop"}
    BY <1>12 DEF Delete, Drop, At
  <2>2. K(r) \in Kinds \ {"workload", "localQueue"} /\ (K(r) = "deploy" => Head1(r).op = "drop")
    BY <1>5, <2>1 DEF GoodCalls, Fits, KindOps, Removes, K
  <2>3. CASE Put(K(r), None) /\ GoOn(r, <<>>) /\ Kept
    <3>1. Adds(r, {}) /\ SameWorkload /\ obj'[K(r)] = None /\ (K(r) # "deploy" => SameDeploy)
      BY <1>1, <1>4, <2>1, <2>2, <2>3, Writing
    <3>2. CASE K(r) = "deploy"
      BY <2>2, <3>1, <3>2 DEF Drops, Settles, K
    <3>3. CASE K(r) # "deploy"
      BY <2>1, <3>1, <3>3 DEF Passes, Settles, Judges, Withdraws, Applies, K
    <3> QED BY <3>2, <3>3
  <2>4. CASE CallFails(r)
    <3>1. Abort(r) /\ SameDeploy /\ SameWorkload /\ faults' = faults + 1
      BY <2>4 DEF CallFails, SameDeploy, SameWorkload
    <3> QED BY <2>1, <3>1 DEF Fails
  <2>5. CASE Head1(r).op = "delete" /\ ~Exists(K(r)) /\ Refused(r)
    BY <1>6, <2>1, <2>5
  <2> QED BY <1>12, <2>3, <2>4, <2>5 DEF Delete, Drop, At
<1>13. ASSUME todo[r] # <<>>, Look, Kept \/ Fault(r), Head1(r).op \in {"deleteIf", "dropIf", "upsert", "routeSeen"},
              NEW s \in Plans, InOrder(s), GoOn(r, s), \A b \in Range(s) : Plain(b)
       PROVE  Passes(r)
  <2>1. Adds(r, Range(s))
    BY <1>13, AddsOn
  <2>2. ~Settles(Head1(r)) /\ ~Judges(Head1(r)) /\ ~Withdraws(Head1(r)) /\ ~Applies(Head1(r))
        /\ Head1(r).op # "publish"
    BY <1>13 DEF Settles, Judges, Withdraws, Applies
  <2> QED BY <1>2, <1>13, <2>1, <2>2 DEF Passes
<1>14. CASE DeleteIf(r) \/ Upsert(r)
  <2>1. /\ todo[r] # <<>> /\ Look /\ (Kept \/ Fault(r)) /\ Head1(r).op \in {"deleteIf", "dropIf", "upsert"}
    BY <1>14 DEF DeleteIf, Upsert, At
  <2>2. \/ GoOn(r, <<>>)
        \/ \E o \in {"delete", "drop", "update", "create"} : GoOn(r, <<Call(o, K(r))>>)
    BY <1>14 DEF DeleteIf, Upsert
  <2>3. CASE GoOn(r, <<>>)
    BY <1>3, <1>13, <2>1, <2>3
  <2>4. ASSUME NEW o \in {"delete", "drop", "update", "create"}, GoOn(r, <<Call(o, K(r))>>) PROVE Passes(r)
    <3>1. /\ <<Call(o, K(r))>> \in Plans /\ InOrder(<<Call(o, K(r))>>)
          /\ \A b \in Range(<<Call(o, K(r))>>) : Plain(b)
      BY <1>5, <2>1, NextCall DEF K
    <3> QED BY <1>13, <2>1, <2>4, <3>1
  <2> QED BY <2>2, <2>3, <2>4
<1>15. CASE SeeRoute(r)
  <2>1. todo[r] # <<>> /\ Look /\ (Kept \/ Fault(r)) /\ Head1(r).op = "routeSeen"
    BY <1>15 DEF SeeRoute, At
  <2>2. PICK w : GoOn(r, upsertRoute(def[r], seen[r], w))
    BY <1>15 DEF SeeRoute
  <2>3. /\ upsertRoute(def[r], seen[r], w) \in Plans /\ InOrder(upsertRoute(def[r], seen[r], w))
        /\ \A b \in Range(upsertRoute(def[r], seen[r], w)) : Plain(b)
    BY RouteOperations, RouteCallsArePlain
  <2> QED BY <1>13, <2>1, <2>2, <2>3
<1>16. CASE SeeIngress(r)
  <2>1. /\ Adds(r, {}) /\ SameDeploy /\ SameWorkload /\ Head1(r).op = "ingressSeen"
    BY <1>4, <1>16 DEF SeeIngress, At, SameDeploy, SameWorkload
  <2> QED BY <2>1 DEF Passes, Settles, Judges, Withdraws, Applies
<1>17. CASE TryCreate(r)
  <2>1. todo[r] # <<>> /\ Head1(r).op = "tryCreate" /\ GoOn(r, <<>>) /\ (Kept \/ Fault(r))
    BY <1>17 DEF TryCreate, At
  <2>2. K(r) \in {"workload", "localQueue"} /\ K(r) \in Kinds
    BY <1>5, <2>1 DEF GoodCalls, Fits, K, Kinds
  <2>3. Adds(r, {}) /\ ~Settles(Head1(r)) /\ ~Judges(Head1(r)) /\ ~Withdraws(Head1(r))
        /\ Head1(r).op # "publish" /\ (Applies(Head1(r)) <=> K(r) = "workload")
    BY <1>4, <2>1 DEF Settles, Judges, Withdraws, Applies, K
  <2>4. CASE cfg.kueue /\ ~Exists(K(r)) /\ Put(K(r), NewObj(K(r), def[r])) /\ Kept
    <3>1. SameDeploy /\ obj'[K(r)] = NewObj(K(r), def[r]) /\ (K(r) # "workload" => SameWorkload)
      BY <1>1, <2>2, <2>4, Writing
    <3>2. CASE K(r) = "workload"
      BY <2>3, <2>4, <3>1, <3>2 DEF Asks
    <3>3. CASE K(r) # "workload"
      BY <2>3, <3>1, <3>3 DEF Passes
    <3> QED BY <3>2, <3>3
  <2>5. CASE (~cfg.kueue \/ Exists(K(r)) \/ Fault(r)) /\ Look
    <3>1. Applies(Head1(r)) => faults' # faults \/ Exists("workload") \/ ~cfg.kueue
      BY <1>7, <2>3, <2>5
    <3> QED BY <1>2, <2>3, <2>5, <3>1 DEF Passes
  <2> QED BY <1>17, <2>4, <2>5 DEF TryCreate
<1>18. CASE TryDelete(r)
  <2>1. todo[r] # <<>> /\ Head1(r).op = "tryDelete" /\ GoOn(r, <<>>) /\ (Kept \/ Fault(r))
    BY <1>18 DEF TryDelete, At
  <2>2. K(r) \in {"workload", "localQueue"} /\ K(r) \in Kinds
    BY <1>5, <2>1 DEF GoodCalls, Fits, K, Kinds
  <2>3. Adds(r, {}) /\ ~Settles(Head1(r)) /\ ~Judges(Head1(r)) /\ ~Applies(Head1(r))
        /\ Head1(r).op # "publish" /\ (Withdraws(Head1(r)) <=> K(r) = "workload")
    BY <1>4, <2>1 DEF Settles, Judges, Withdraws, Applies, K
  <2>4. CASE Put(K(r), None) /\ Kept
    <3>1. SameDeploy /\ obj'[K(r)] = None /\ (K(r) # "workload" => SameWorkload)
      BY <1>1, <2>2, <2>4, Writing
    <3>2. CASE K(r) = "workload"
      BY <2>3, <3>1, <3>2 DEF Takes
    <3>3. CASE K(r) # "workload"
      BY <2>3, <3>1, <3>3 DEF Passes
    <3> QED BY <3>2, <3>3
  <2>5. CASE Fault(r) /\ Look
    BY <1>2, <1>7, <2>3, <2>5 DEF Passes
  <2> QED BY <1>18, <2>4, <2>5 DEF TryDelete
<1>19. CASE CheckWorkloadAdmited(r)
  <2>1. todo[r] # <<>> /\ Look /\ Judges(Head1(r)) /\ Head1(r).op = "check" /\ (Kept \/ Fault(r))
    BY <1>19 DEF CheckWorkloadAdmited, At, Judges
  <2>2. \/ GoOn(r, <<Call("scale", "none")>>) /\ Exists("workload") /\ admitted
        \/ GoOn(r, <<Call("tryDelete", "workload")>> \o NotAdmitted(r)) /\ Exists("workload") /\ ~admitted
        \/ GoOn(r, NotAdmitted(r))
    BY <1>19 DEF CheckWorkloadAdmited, NotAdmitted
  <2>3. Withdraws(Call("tryDelete", "workload")) /\ Judges(Call("scale", "none"))
    BY DEF Withdraws, Judges, Call
  <2>4. ASSUME NEW s \in Plans, InOrder(s), GoOn(r, s), \A b \in Range(s) : Plain(b) \/ Judges(b) \/ Withdraws(b)
        PROVE  Adds(r, Range(s))
    BY <2>1, <2>4, AddsOn
  <2>5. GoOn(r, <<Call("scale", "none")>>) => Adds(r, {Call("scale", "none")})
    BY <2>3, <2>4, SmallPlans
  <2>6. GoOn(r, <<Call("tryDelete", "workload")>> \o NotAdmitted(r)) =>
           Adds(r, {Call("tryDelete", "workload")} \cup NotAdmittedCalls(r))
    BY <2>3, <2>4, SmallPlans
  <2>7. GoOn(r, NotAdmitted(r)) => Adds(r, NotAdmittedCalls(r))
    BY <2>4, SmallPlans
  <2> QED BY <1>2, <2>1, <2>2, <2>5, <2>6, <2>7 DEF Judged
<1>20. CASE ScaleUp(r)
  <2>1. Adds(r, {}) /\ Head1(r).op = "scale" /\ "deploy" \in Kinds
    BY <1>4, <1>20 DEF ScaleUp, At, Kinds
  <2>2. CASE Exists("deploy") /\ Put("deploy", [def |-> def[r], replicas |-> def[r].min])
    BY <1>1, <2>1, <2>2, Writing DEF Scales
  <2>3. CASE Look
    BY <1>2, <2>1, <2>3 DEF Scales
  <2> QED BY <1>20, <2>2, <2>3 DEF ScaleUp
<1>21. CASE ReturnError(r)
  <2>1. todo[r] # <<>> /\ Head1(r).op = "fail" /\ Refused(r)
    BY <1>21 DEF ReturnError, At
  <2> QED BY <2>1 DEF Refused, Fails, SameDeploy, SameWorkload
<1> QED BY <1>9, <1>10, <1>11, <1>12, <1>14, <1>15, <1>16, <1>17, <1>18, <1>19, <1>20, <1>21 DEF Step

\* After a call that adds at most one call, no call is further on that was not.
LEMMA RestGoesOn ==
  ASSUME Typed, NEW r \in Reqs, todo[r] # <<>>, NEW s, GoOn(r, s),
         s = <<>> \/ \E c \in GoodCalls : s = <<c>>
  PROVE  todo'[r] # <<>> => Rest(r)' \subseteq Rest(r)
<1>1. Tail(todo[r]) \in Plans
  BY AtCall
<1>2. todo'[r] = s \o Tail(todo[r])
  BY DEF GoOn, Typed, TypeOK
<1> DEFINE t == Tail(todo[r])
<1> HIDE DEF t
<1>3. t \in Plans /\ todo'[r] = s \o t /\ Rest(r) = Range(t) /\ Rest(r)' = Range(Tail(s \o t))
  BY <1>1, <1>2 DEF t, Rest
<1>4. CASE s = <<>>
  <2>1. s \o t = t
    BY <1>3, <1>4 DEF Plans
  <2>2. ASSUME t # <<>> PROVE Range(t) = {Head(t)} \cup Range(Tail(t))
    BY <1>3, <2>2, InRest DEF Plans
  <2> QED BY <1>3, <2>1, <2>2
<1>5. CASE \E c \in GoodCalls : s = <<c>>
  <2>1. PICK c \in GoodCalls : s = <<c>>
    BY <1>5
  <2>2. Tail(<<c>> \o t) = t
    BY <1>3 DEF Plans
  <2> QED BY <1>3, <2>1, <2>2
<1> QED BY <1>4, <1>5

\* A request that removes the service keeps to what it has seen.
LEMMA DeletingStep ==
  ASSUME Typed, NEW r \in Reqs, Removing(r), Deleting(r), Step(r)
  PROVE  Deleting(r)'
<1> SUFFICES ASSUME phase'[r] \in {"rollback", "delete"} PROVE Deleting(r)'
  BY DEF Deleting
<1>1. TypeOK /\ todo[r] # <<>>
  BY Stepping DEF Return, Typed, TypeOK
<1>2. ASSUME CallFails(r) \/ Refused(r) PROVE Deleting(r)'
  <2>1. Abort(r)
    BY <1>2 DEF CallFails, Refused
  <2>2. todo'[r] = DeleteOf(def[r])
    BY <1>1, <2>1 DEF Abort, Begin, TypeOK
  <2>3. DeleteOf(def[r]) \in Plans /\ \A c \in Range(DeleteOf(def[r])) : c.op # "delete"
    <3>1. \A c \in DeleteCalls : c.op # "delete"
      BY DEF DeleteCalls, RoutesGone, Call
    <3> QED BY <3>1, OperationPlans
  <2>4. todo'[r] # <<>> => Rest(r)' \subseteq Left(r)'
    BY <2>2, <2>3, InRest DEF Plans, Rest, Left
  <2>5. \A c \in Left(r)' : c.op # "delete"
    BY <2>2, <2>3 DEF Left
  <2> QED BY <2>4, <2>5 DEF Deleting
<1>3. ASSUME phase[r] \in {"rollback", "delete"}
      PROVE  /\ \A c \in Left(r) : c.op \in Removes \cup {"pods"}
             /\ Head1(r).op \in Removes \cup {"pods"} /\ Head1(r) \in GoodCalls
             /\ \A c \in Rest(r) : c.op # "delete"
  BY <1>1, <1>3, AtCall DEF Removing, Deleting
<1>4. ASSUME GoOn(r, <<>>), Kept \/ Fault(r) PROVE Deleting(r)'
  <2>1. phase[r] \in {"rollback", "delete"}
    BY <1>4 DEF GoOn
  <2>2. Left(r)' = Rest(r)
    <3>1. <<>> \in Plans /\ InOrder(<<>>) /\ Range(<<>>) = {}
      BY SmallPlans
    <3>2. Adds(r, Range(<<>>))
      BY <1>1, <1>4, <3>1, AddsOn
    <3> QED BY <3>1, <3>2 DEF Adds
  <2>3. todo'[r] # <<>> => Rest(r)' \subseteq Rest(r)
    BY <1>1, <1>4, RestGoesOn
  <2> QED BY <1>3, <2>1, <2>2, <2>3 DEF Deleting
<1>5. CASE Create(r) \/ Update(r) \/ Get(r) \/ Delete(r) \/ Drop(r) \/ DeletePods(r)
  BY <1>2, <1>4, <1>5 DEF Create, Update, Get, Delete, Drop, DeletePods
<1>6. CASE TryCreate(r) \/ TryDelete(r) \/ ScaleUp(r) \/ SeeIngress(r)
  BY <1>4, <1>6 DEF TryCreate, TryDelete, ScaleUp, SeeIngress
<1>7. CASE ReturnError(r)
  BY <1>2, <1>7 DEF ReturnError
<1>8. CASE DeleteIf(r)
  <2>1. /\ Head1(r).op \in {"deleteIf", "dropIf", "upsert"} /\ UNCHANGED obj /\ (Kept \/ Fault(r))
        /\ phase[r] \in {"rollback", "delete"}
    BY <1>8 DEF DeleteIf, At, Look, GoOn
  <2>2. CASE GoOn(r, <<>>)
    BY <1>4, <2>1, <2>2
  <2>3. ASSUME NEW o \in {"delete", "drop"}, GoOn(r, <<Call(o, K(r))>>), Exists(K(r)) PROVE Deleting(r)'
    <3>1. /\ <<Call(o, K(r))>> \in Plans /\ InOrder(<<Call(o, K(r))>>)
          /\ Range(<<Call(o, K(r))>>) = {Call(o, K(r))} /\ Plain(Call(o, K(r)))
      BY <1>3, <2>1, NextCall DEF K
    <3>2. Call(o, K(r)) \in GoodCalls
      <4>1. <<Call(o, K(r))>>[1] = Call(o, K(r)) /\ 1 \in DOMAIN <<Call(o, K(r))>>
        OBVIOUS
      <4>2. \A s \in Plans : \A i \in DOMAIN s : s[i] \in GoodCalls
        BY ElementOfSeq, LenProperties DEF Plans
      <4> QED BY <3>1, <4>1, <4>2
    <3>3. Adds(r, {Call(o, K(r))})
      <4>1. \A b \in Range(<<Call(o, K(r))>>) : Plain(b)
        BY <3>1
      <4>2. Adds(r, Range(<<Call(o, K(r))>>))
        BY <1>1, <2>1, <2>3, <3>1, <4>1, AddsOn
      <4> QED BY <3>1, <4>2
    <3>4. todo'[r] # <<>> => Rest(r)' \subseteq Rest(r)
      BY <1>1, <2>3, <3>2, RestGoesOn
    <3>5. Call(o, K(r)).kind = K(r) /\ Exists(K(r))
      BY <2>3 DEF Call
    <3>6. \A c \in Left(r)' : c.op = "delete" => Exists(c.kind)'
      BY <1>3, <2>1, <3>3, <3>5 DEF Adds, Exists
    <3> QED BY <1>3, <2>1, <3>4, <3>6 DEF Deleting
  <2> QED BY <1>8, <2>2, <2>3 DEF DeleteIf
<1>9. CASE Upsert(r) \/ SeeRoute(r) \/ CheckWorkloadAdmited(r)
  <2>1. phase[r] \in {"rollback", "delete"} /\ Head1(r).op \in {"upsert", "routeSeen", "check"}
    BY <1>9 DEF Upsert, SeeRoute, CheckWorkloadAdmited, At, GoOn
  <2> QED BY <1>3, <2>1 DEF Removes
<1>10. CASE Publish(r)
  <2>1. phase[r] \in {"rollback", "delete"} /\ Head1(r).op = "publish"
    BY <1>1, <1>10 DEF Publish, At, Begin, TypeOK
  <2> QED BY <1>3, <2>1 DEF Removes
<1>11. CASE Return(r)
  BY <1>1, <1>11 DEF Return
<1> QED BY <1>5, <1>6, <1>7, <1>8, <1>9, <1>10, <1>11 DEF Step

\* What the plans that requests begin with hold of calls on Deployment and Workload.
LEMMA BeginningUpdate ==
  ASSUME NEW d
  PROVE  /\ \A c \in UpdateCalls(d) : c.op # "scale" /\ (c.kind = "deploy" => c.op \in {"get", "update"})
         /\ \E c \in UpdateCalls(d) : c.op = "update" /\ c.kind = "deploy"
         /\ \E c \in UpdateCalls(d) : Withdraws(c)
<1>1. \A o, k : Call(o, k).op = o /\ Call(o, k).kind = k
  BY DEF Call
<1>2. \A c \in UpdateCalls(d) : c.op # "scale" /\ (c.kind = "deploy" => c.op \in {"get", "update"})
  BY <1>1 DEF UpdateCalls, RoutesGone, Checked
<1>3. Call("update", "deploy") \in UpdateCalls(d) /\ Call("tryDelete", "workload") \in UpdateCalls(d)
  BY DEF UpdateCalls
<1> QED BY <1>1, <1>2, <1>3 DEF Withdraws

\* DeleteExpose's, and those of a whole delete.
LEMMA BeginningDelete ==
  ASSUME NEW d
  PROVE  /\ \A c \in DeleteCalls \cup DeleteStartCalls(d) : ~Judges(c) /\ c.op # "delete"
         /\ \E c \in DeleteCalls : c.op = "drop" /\ c.kind = "deploy"
         /\ \E c \in DeleteCalls : Withdraws(c)
         /\ d.exposed => DeleteCalls \subseteq DeleteStartCalls(d)
         /\ ~d.exposed => \A c \in DeleteStartCalls(d) : ~Withdraws(c) /\ c.kind # "deploy"
<1>1. \A o, k : Call(o, k).op = o /\ Call(o, k).kind = k
  BY DEF Call
<1>2. \A c \in DeleteCalls : ~Judges(c) /\ c.op # "delete"
  BY <1>1 DEF DeleteCalls, RoutesGone, Judges
<1>3. \A c \in DeleteStartCalls(d) : ~Judges(c) /\ c.op # "delete"
  BY <1>1, <1>2 DEF DeleteStartCalls, Judges
<1>4. Call("drop", "deploy") \in DeleteCalls /\ Call("tryDelete", "workload") \in DeleteCalls
  BY DEF DeleteCalls
<1>5. d.exposed => DeleteCalls \subseteq DeleteStartCalls(d)
  BY DEF DeleteStartCalls
<1>6. ~d.exposed => \A c \in DeleteStartCalls(d) : ~Withdraws(c) /\ c.kind # "deploy"
  BY <1>1 DEF DeleteStartCalls, Withdraws
<1>7. /\ \E c \in DeleteCalls : c.op = "drop" /\ c.kind = "deploy"
      /\ \E c \in DeleteCalls : Withdraws(c)
  BY <1>1, <1>4 DEF Withdraws
<1>8. \A c \in DeleteCalls \cup DeleteStartCalls(d) : ~Judges(c) /\ c.op # "delete"
  BY <1>2, <1>3
<1> QED BY <1>5, <1>6, <1>7, <1>8

\* And those of a whole create.
LEMMA BeginningCreate ==
  ASSUME NEW d
  PROVE  /\ \A c \in CreateStartCalls(d) : /\ c.op # "scale" /\ ~Withdraws(c)
                                           /\ c.kind = "deploy" => c.op = "create"
         /\ \E c \in CreateStartCalls(d) : c.op = "publish"
         /\ d.exposed => \E c \in CreateStartCalls(d) : c.op = "create" /\ c.kind = "deploy"
         /\ ~d.exposed => \A c \in CreateStartCalls(d) : c.kind \notin {"deploy", "workload"} /\ ~Judges(c)
<1>1. \A o, k : Call(o, k).op = o /\ Call(o, k).kind = k
  BY DEF Call
<1>2. \A c \in CreatedRoute(d) : c.op \in {"create", "fail"} /\ c.kind # "deploy"
  BY <1>1 DEF CreatedRoute, RouteNew, IngressNew, GatewayMissing
<1>3. \A c \in CreateCalls(d) : c.op \in {"create", "fail", "check", "tryCreate"} /\ (c.kind = "deploy" => c.op = "create")
  BY <1>1, <1>2 DEF CreateCalls, Checked
<1>4. \A c \in CreateStartCalls(d) : /\ c.op # "scale" /\ ~Withdraws(c)
                                     /\ c.kind = "deploy" => c.op = "create"
  BY <1>1, <1>3 DEF CreateStartCalls, Withdraws
<1>5. Call("publish", "none") \in CreateStartCalls(d)
  BY DEF CreateStartCalls
<1>6. d.exposed => Call("create", "deploy") \in CreateStartCalls(d)
  BY DEF CreateStartCalls, CreateCalls
<1>7. ~d.exposed => \A c \in CreateStartCalls(d) : c.kind \notin {"deploy", "workload"} /\ ~Judges(c)
  BY <1>1 DEF CreateStartCalls, Judges
<1>8. /\ \E c \in CreateStartCalls(d) : c.op = "publish"
      /\ d.exposed => \E c \in CreateStartCalls(d) : c.op = "create" /\ c.kind = "deploy"
  BY <1>1, <1>5, <1>6
<1> QED BY <1>4, <1>7, <1>8

\* What an error leaves: the request is done, or it has begun to remove or to undo.
LEMMA Aborted ==
  ASSUME Typed, NEW r \in Reqs, Abort(r)
  PROVE  \/ /\ phase'[r] = "done" /\ Left(r)' = {}
            /\ phase[r] \notin {"create", "update"} \/ reg = None
         \/ /\ phase[r] = "create" /\ phase'[r] = "rollback" /\ def'[r] = def[r]
            /\ Left(r)' = IF def[r].exposed THEN DeleteCalls ELSE {}
         \/ /\ phase[r] = "update" /\ phase'[r] = "undo" /\ def'[r] = prior[r]
            /\ Left(r)' = IF prior[r].exposed THEN UpdateCalls(prior[r]) ELSE {}
<1>1. TypeOK
  BY DEF Typed
<1>2. /\ Range(<<>>) = {}
      /\ Range(DeleteOf(def[r])) = IF def[r].exposed THEN DeleteCalls ELSE {}
      /\ Range(UndoUpdate(prior[r])) = IF prior[r].exposed THEN UpdateCalls(prior[r]) ELSE {}
  BY OperationPlans, SmallPlans
<1>3. \/ /\ Begin(r, "done", <<>>)
         /\ phase[r] \notin {"create", "update"} \/ reg = None
      \/ phase[r] = "create" /\ Begin(r, "rollback", DeleteOf(def[r])) /\ def' = def
      \/ /\ phase[r] = "update" /\ Begin(r, "undo", UndoUpdate(prior[r]))
         /\ def' = [def EXCEPT ![r] = prior[r]]
  BY DEF Abort
<1>4. ASSUME NEW p, NEW s, Begin(r, p, s) PROVE phase'[r] = p /\ Left(r)' = Range(s)
  BY <1>1, <1>4 DEF Begin, TypeOK, Left
<1>5. CASE /\ Begin(r, "done", <<>>)
           /\ phase[r] \notin {"create", "update"} \/ reg = None
  BY <1>2, <1>4, <1>5
<1>6. CASE phase[r] = "create" /\ Begin(r, "rollback", DeleteOf(def[r])) /\ def' = def
  BY <1>2, <1>4, <1>6
<1>7. CASE /\ phase[r] = "update" /\ Begin(r, "undo", UndoUpdate(prior[r]))
           /\ def' = [def EXCEPT ![r] = prior[r]]
  <2>1. def'[r] = prior[r]
    BY <1>1, <1>7 DEF TypeOK
  <2> QED BY <1>2, <1>4, <1>7, <2>1
<1> QED BY <1>3, <1>5, <1>6, <1>7

\* Only an admitted Workload's check plans the replicas.
LEMMA ScalingStep ==
  ASSUME Typed, NEW r \in Reqs, Scaling(r), Step(r)
  PROVE  Scaling(r)'
<1>1. \A o, k : Call(o, k).op = o /\ Call(o, k).kind = k
  BY DEF Call
<1>2. ASSUME todo[r] # <<>>
      PROVE  Left(r) = {Head1(r)} \cup Rest(r) /\ \A a \in Rest(r) : ~Precedes(a, Head1(r))
  BY <1>2, AtCall
<1>3. ASSUME NEW S, Adds(r, S), \A b \in S : Plain(b) PROVE Scaling(r)'
  <2>1. \A b \in S : b.op # "scale" /\ ~Settles(b) /\ ~Withdraws(b) /\ ~Applies(b)
    BY <1>3 DEF Plain, Settles, Withdraws, Applies
  <2>2. Left(r) = {Head1(r)} \cup Rest(r) /\ Left(r)' = S \cup Rest(r)
    BY <1>2, <1>3 DEF Adds
  <2> QED BY <2>1, <2>2 DEF Scaling, Ahead
<1>4. CASE Passes(r)
  BY <1>3, <1>4 DEF Passes
<1>5. CASE Sets(r) \/ Drops(r) \/ Takes(r) \/ Asks(r) \/ Scales(r)
  <2>1. Adds(r, {})
    BY <1>5 DEF Sets, Drops, Takes, Asks, Scales
  <2> QED BY <1>3, <2>1
<1>6. CASE Judged(r)
  <2>1. todo[r] # <<>> /\ Head1(r).op = "check"
    BY <1>6 DEF Judged, Adds
  <2>2. \A a \in Rest(r) : ~Settles(a) /\ ~Withdraws(a) /\ ~Applies(a) /\ a.op # "scale"
    BY <1>2, <2>1 DEF Precedes, Judges
  <2>3. CASE Adds(r, {Call("scale", "none")})
    <3>1. ~Settles(Call("scale", "none")) /\ ~Withdraws(Call("scale", "none")) /\ ~Applies(Call("scale", "none"))
      BY <1>1 DEF Settles, Withdraws, Applies
    <3> QED BY <2>2, <2>3, <3>1 DEF Adds, Scaling
  <2>4. CASE \/ Adds(r, {Call("tryDelete", "workload")} \cup NotAdmittedCalls(r))
             \/ Adds(r, NotAdmittedCalls(r))
    <3>1. \A b \in {Call("tryDelete", "workload")} \cup NotAdmittedCalls(r) : b.op # "scale"
      BY <1>1 DEF NotAdmittedCalls
    <3> QED BY <2>2, <2>4, <3>1 DEF Adds, Scaling, Ahead
  <2> QED BY <1>6, <2>3, <2>4 DEF Judged
<1>7. CASE Fails(r)
  <2>1. Abort(r)
    BY <1>7 DEF Fails
  <2>2. \A c \in Left(r)' : c.op # "scale"
    BY <2>1, Aborted, BeginningUpdate, BeginningDelete DEF Judges
  <2> QED BY <2>2 DEF Scaling, Ahead
<1>8. CASE Publish(r) \/ Return(r)
  <2>1. Left(r)' \subseteq Left(r)
    <3>1. todo'[r] = <<>> \/ todo'[r] = todo[r] \/ (todo[r] # <<>> /\ todo'[r] = Tail(todo[r]))
      BY <1>8 DEF Publish, Return, Begin, At, Typed, TypeOK
    <3>2. Range(<<>>) = {}
      BY InTuple
    <3> QED BY <1>2, <3>1, <3>2 DEF Left, Rest
  <2> QED BY <2>1 DEF Scaling, Ahead
<1> QED BY <1>4, <1>5, <1>6, <1>7, <1>8, Effects

\* A call has the operation and the kind that it was planned with.
LEMMA CallFields == \A o, k : Call(o, k).op = o /\ Call(o, k).kind = k
BY DEF Call

\* Publishing a service and answering a request touch no object, and nothing is added to
\* what is to do.
LEMMA BookSteps ==
  ASSUME Typed, NEW r \in Reqs, Publish(r) \/ Return(r)
  PROVE  /\ SameDeploy /\ SameWorkload /\ faults' = faults /\ def' = def
         /\ \/ /\ phase'[r] = "done" /\ Left(r)' = {}
               /\ Left(r) = {} \/ (todo[r] # <<>> /\ Head1(r).op = "publish")
            \/ /\ todo[r] # <<>> /\ Head1(r).op = "publish" /\ Left(r)' = Rest(r)
               /\ phase' = phase /\ reg' # None
<1>1. TypeOK /\ Range(<<>>) = {}
  BY InTuple DEF Typed
<1>2. SameDeploy /\ SameWorkload /\ faults' = faults /\ def' = def
  BY DEF Publish, Return, store, SameDeploy, SameWorkload
<1>3. CASE Return(r)
  <2>1. phase'[r] = "done" /\ todo'[r] = <<>> /\ todo[r] = <<>>
    BY <1>1, <1>3 DEF Return, TypeOK
  <2> QED BY <1>1, <1>2, <2>1 DEF Left
<1>4. CASE Publish(r)
  <2>1. todo[r] # <<>> /\ Head1(r).op = "publish"
    BY <1>4 DEF Publish, At
  <2>2. CASE Begin(r, "done", <<>>)
    <3>1. phase'[r] = "done" /\ todo'[r] = <<>>
      BY <1>1, <2>2 DEF Begin, TypeOK
    <3> QED BY <1>1, <1>2, <2>1, <3>1 DEF Left
  <2>3. CASE /\ reg = None /\ reg' = [def |-> def[r], route |-> cfg.route]
             /\ todo' = [todo EXCEPT ![r] = Tail(@)] /\ UNCHANGED phase
    <3>1. todo'[r] = Tail(todo[r])
      BY <1>1, <2>3 DEF TypeOK
    <3>2. def[r] \in Defs /\ cfg.route \in {"ingress", "httproute"}
      BY <1>1, <2>1, AtCall, ConfigAssumption DEF TypeOK, ConfigType
    <3>3. reg' # None
      BY <2>3, <3>2, NoneAssumption
    <3> QED BY <1>2, <2>1, <2>3, <3>1, <3>3 DEF Left, Rest
  <2> QED BY <1>4, <2>2, <2>3 DEF Publish
<1> QED BY <1>3, <1>4

\* A step of a request keeps what runs admitted, and what the request has to do safe.
LEMMA AdmittingStep ==
  ASSUME Typed, NEW r \in Reqs, Gating, Scaling(r), Admitting(r),
         Runs => Exists("workload") /\ admitted, Step(r)
  PROVE  Admitting(r)' /\ (Runs' => Exists("workload")' /\ admitted')
<1>1. ASSUME todo[r] # <<>>
      PROVE  /\ Left(r) = {Head1(r)} \cup Rest(r) /\ \A a \in Rest(r) : ~Precedes(a, Head1(r))
             /\ def[r] \in Defs
  BY <1>1, AtCall
<1>2. SameDeploy => (Runs' <=> Runs)
  BY DEF SameDeploy, Runs, Exists
<1>3. SameWorkload => (Exists("workload")' <=> Exists("workload")) /\ admitted' = admitted
  BY DEF SameWorkload, Exists
<1>4. ASSUME NEW S, Adds(r, S), \A b \in S : Plain(b)
      PROVE  /\ Ahead(r, "scale")' => \E c \in Rest(r) : c.op = "scale"
             /\ (\E c \in Left(r)' : Withdraws(c)) => \E c \in Rest(r) : Withdraws(c)
             /\ Ahead(r, "scale")' => Ahead(r, "scale")
             /\ (\E c \in Left(r)' : Withdraws(c)) => \E c \in Left(r) : Withdraws(c)
             /\ ~Settles(Head1(r)) /\ Will(r, {"update", "drop"}, "deploy") =>
                   Will(r, {"update", "drop"}, "deploy")'
  <2>1. \A b \in S : b.op # "scale" /\ ~Withdraws(b)
    BY <1>4 DEF Plain, Withdraws
  <2>2. Left(r) = {Head1(r)} \cup Rest(r) /\ Left(r)' = S \cup Rest(r)
    BY <1>1, <1>4 DEF Adds
  <2> QED BY <2>1, <2>2 DEF Ahead, Will, Settles
<1>5. CASE Passes(r)
  <2>1. PICK S : Adds(r, S) /\ \A b \in S : Plain(b)
    BY <1>5 DEF Passes
  <2>2. SameDeploy /\ SameWorkload /\ ~Settles(Head1(r))
    BY <1>5 DEF Passes
  <2> QED BY <1>2, <1>3, <1>4, <2>1, <2>2 DEF Admitting
<1>6. CASE Sets(r) \/ Drops(r) \/ Takes(r) \/ Asks(r)
  <2>1. Adds(r, {}) /\ todo[r] # <<>>
    BY <1>6 DEF Sets, Drops, Takes, Asks, Adds
  <2>2. ~Ahead(r, "scale")'
    <3>1. Settles(Head1(r)) \/ Withdraws(Head1(r)) \/ Applies(Head1(r))
      BY <1>6 DEF Sets, Drops, Takes, Asks
    <3> QED BY <1>1, <1>4, <2>1, <3>1 DEF Scaling
  <2>3. ~Runs'
    <3>1. CASE Sets(r)
      <4>1. obj'["deploy"] = [def |-> def[r], replicas |-> 0]
        BY <1>6, <3>1 DEF Sets, NewObj, getDeploymentSpec, Gating
      <4> QED BY <4>1 DEF Runs
    <3>2. CASE Drops(r)
      BY <3>2 DEF Drops, Runs, Exists
    <3>3. CASE Takes(r)
      <4>1. SameDeploy /\ Withdraws(Head1(r)) /\ ~Settles(Head1(r))
        BY <3>3 DEF Takes, Withdraws, Settles
      <4>2. ~Will(r, {"update", "drop"}, "deploy")
        <5>1. \A a \in Left(r) : ~Settles(a)
          BY <1>1, <2>1, <4>1 DEF Precedes
        <5> QED BY <5>1 DEF Will, Settles
      <4> QED BY <1>1, <1>2, <2>1, <4>1, <4>2 DEF Admitting
    <3>4. CASE Asks(r)
      BY <1>2, <3>4 DEF Asks
    <3> QED BY <1>6, <3>1, <3>2, <3>3, <3>4
  <2> QED BY <2>2, <2>3 DEF Admitting
<1>7. CASE Judged(r)
  <2>1. todo[r] # <<>> /\ Head1(r).op = "check" /\ SameDeploy /\ SameWorkload
    BY <1>7 DEF Judged, Adds
  <2>2. \A a \in Rest(r) : ~Withdraws(a) /\ a.op # "scale"
    BY <1>1, <2>1 DEF Precedes, Judges
  <2>3. \A b \in NotAdmittedCalls(r) : ~Withdraws(b) /\ b.op # "scale"
    BY CallFields DEF NotAdmittedCalls, Withdraws
  <2>4. ~Withdraws(Call("scale", "none")) /\ Call("tryDelete", "workload").op # "scale"
    BY CallFields DEF Withdraws
  <2>5. CASE Adds(r, {Call("scale", "none")}) /\ Exists("workload") /\ admitted
    <3>1. \A c \in Left(r)' : ~Withdraws(c)
      BY <2>2, <2>4, <2>5 DEF Adds
    <3> QED BY <1>3, <2>1, <2>5, <3>1 DEF Admitting
  <2>6. CASE /\ Adds(r, {Call("tryDelete", "workload")} \cup NotAdmittedCalls(r))
             /\ Exists("workload") /\ ~admitted
    <3>1. ~Ahead(r, "scale")'
      BY <2>2, <2>3, <2>4, <2>6 DEF Adds, Ahead
    <3> QED BY <1>2, <2>1, <2>6, <3>1 DEF Admitting
  <2>7. CASE Adds(r, NotAdmittedCalls(r))
    <3>1. ~Ahead(r, "scale")' /\ \A c \in Left(r)' : ~Withdraws(c)
      BY <2>2, <2>3, <2>7 DEF Adds, Ahead
    <3> QED BY <1>2, <1>3, <2>1, <3>1 DEF Admitting
  <2> QED BY <1>7, <2>5, <2>6, <2>7 DEF Judged
<1>8. CASE Scales(r)
  <2>1. Adds(r, {}) /\ SameWorkload /\ todo[r] # <<>> /\ Head1(r).op = "scale"
    BY <1>8 DEF Scales, Adds
  <2>2. Ahead(r, "scale")
    BY <1>1, <2>1 DEF Ahead
  <2>3. Exists("workload") /\ admitted /\ \A c \in Left(r) : ~Withdraws(c)
    BY <2>2 DEF Admitting, Scaling
  <2> QED BY <1>3, <1>4, <2>1, <2>3 DEF Admitting
<1>9. CASE Fails(r)
  <2>1. Abort(r) /\ SameDeploy /\ SameWorkload
    BY <1>9 DEF Fails
  <2>2. ~Ahead(r, "scale")'
    BY <2>1, Aborted, BeginningUpdate, BeginningDelete DEF Judges, Ahead
  <2>3. Left(r)' = {} \/ Left(r)' = DeleteCalls \/ Left(r)' = UpdateCalls(prior[r])
    BY <2>1, Aborted
  <2>4. Left(r)' = {} \/ Will(r, {"update", "drop"}, "deploy")'
    BY <2>3, BeginningUpdate, BeginningDelete DEF Will
  <2> QED BY <1>2, <1>3, <2>1, <2>2, <2>4 DEF Admitting
<1>10. CASE Publish(r) \/ Return(r)
  <2>1. SameDeploy /\ SameWorkload
    BY <1>10, BookSteps
  <2>2. CASE Left(r)' = {}
    BY <1>2, <1>3, <2>1, <2>2 DEF Admitting, Ahead
  <2>3. CASE todo[r] # <<>> /\ Head1(r).op = "publish" /\ Left(r)' = Rest(r)
    <3>1. Left(r) = {Head1(r)} \cup Left(r)'
      BY <1>1, <2>3
    <3>2. /\ Ahead(r, "scale")' => Ahead(r, "scale")
          /\ (\E c \in Left(r)' : Withdraws(c)) => \E c \in Left(r) : Withdraws(c)
          /\ Will(r, {"update", "drop"}, "deploy") => Will(r, {"update", "drop"}, "deploy")'
      BY <2>3, <3>1 DEF Ahead, Will
    <3> QED BY <1>2, <1>3, <2>1, <3>2 DEF Admitting
  <2> QED BY <1>10, <2>2, <2>3, BookSteps
<1> QED BY <1>5, <1>6, <1>7, <1>8, <1>9, <1>10, Effects

\* A request that is not in progress has nothing to do.
LEMMA Quiet ==
  ASSUME Typed, NEW q \in Reqs, q \notin InFlight
  PROVE  Left(q) = {} /\ todo[q] = <<>> /\ phase[q] \in {"idle", "done"}
<1>1. todo[q] = <<>> /\ Range(<<>>) = {}
  BY InTuple DEF Typed, Planned
<1> QED BY <1>1 DEF Left, InFlight, Typed, TypeOK

\* What a request begins with when it arrives; if none overlapped so far, no other is in
\* progress.
LEMMA Beginnings ==
  ASSUME Typed, NEW r \in Reqs, StartCreate(r) \/ StartUpdate(r) \/ StartDelete(r)
  PROVE  /\ UNCHANGED <<cfg, obj, admitted, faults, restarts>>
         /\ overlaps' = 0 => overlaps = 0 /\ InFlight = {}
         /\ \/ phase'[r] = "create" /\ Left(r)' = CreateStartCalls(def'[r])
            \/ phase'[r] = "update" /\ Left(r)' = IF def'[r].exposed THEN UpdateCalls(def'[r]) ELSE {}
            \/ phase'[r] = "delete" /\ Left(r)' = DeleteStartCalls(def'[r])
         /\ todo'[r] # <<>> => Rest(r)' \subseteq Left(r)'
<1>1. TypeOK /\ Arrive(r)
  BY DEF Typed, StartCreate, StartUpdate, StartDelete
<1>2. UNCHANGED <<cfg, obj, admitted, faults, restarts>>
  BY <1>1 DEF Arrive
<1>3. overlaps' = 0 => overlaps = 0 /\ InFlight = {}
  BY <1>1 DEF Arrive, TypeOK
<1>4. CASE StartCreate(r)
  <2>1. PICK d \in Defs : def' = [def EXCEPT ![r] = d] /\ Begin(r, "create", StartOfCreate(d))
    BY <1>4 DEF StartCreate, StartOfCreate
  <2>2. def'[r] = d /\ phase'[r] = "create" /\ todo'[r] = StartOfCreate(d)
    BY <1>1, <2>1 DEF Begin, TypeOK
  <2>3. Left(r)' = CreateStartCalls(d) /\ todo'[r] \in Plans
    BY <2>2, StartPlans DEF Left
  <2> QED BY <1>2, <1>3, <2>2, <2>3, InRest DEF Plans, Left, Rest
<1>5. CASE StartUpdate(r)
  <2>1. PICK d \in Defs : def' = [def EXCEPT ![r] = d] /\ Begin(r, "update", UpdateOf(d))
    BY <1>5 DEF StartUpdate
  <2>2. def'[r] = d /\ phase'[r] = "update" /\ todo'[r] = UpdateOf(d)
    BY <1>1, <2>1 DEF Begin, TypeOK
  <2>3. Left(r)' = (IF d.exposed THEN UpdateCalls(d) ELSE {}) /\ todo'[r] \in Plans
    BY <2>2, OperationPlans DEF Left
  <2> QED BY <1>2, <1>3, <2>2, <2>3, InRest DEF Plans, Left, Rest
<1>6. CASE StartDelete(r)
  <2>1. def'[r] = reg.def /\ phase'[r] = "delete" /\ todo'[r] = StartOfDelete(reg.def)
    BY <1>1, <1>6 DEF StartDelete, StartOfDelete, Begin, TypeOK
  <2>2. Left(r)' = DeleteStartCalls(reg.def) /\ todo'[r] \in Plans
    BY <2>1, StartPlans DEF Left
  <2> QED BY <1>2, <1>3, <2>1, <2>2, InRest DEF Plans, Left, Rest
<1> QED BY <1>4, <1>5, <1>6

\* Arrivals, steps of requests, Kueue and restarts keep what runs admitted.
LEMMA AdmissionNext ==
  ASSUME Typed, Removal, Admission, [Next]_vars
  PROVE  Admission'
<1>1. ASSUME UNCHANGED <<cfg, obj, todo, phase, overlaps>>, admitted' = admitted \/ admitted' = TRUE
      PROVE  Admission'
  <2>1. \A q \in Reqs : Left(q)' = Left(q) /\ Rest(q)' = Rest(q)
    BY <1>1 DEF Left, Rest
  <2>2. /\ \A q \in Reqs : Ahead(q, "scale")' <=> Ahead(q, "scale")
        /\ \A q \in Reqs : Will(q, {"update", "drop"}, "deploy")' <=> Will(q, {"update", "drop"}, "deploy")
        /\ (Runs' <=> Runs) /\ (Gating' <=> Gating) /\ InFlight' = InFlight
        /\ \A k \in Kinds : Exists(k)' <=> Exists(k)
    BY <1>1, <2>1 DEF Ahead, Will, Runs, Gating, Gated, Exists, InFlight
  <2>3. "workload" \in Kinds
    BY DEF Kinds
  <2>4. \A q \in Reqs : Scaling(q)'
    BY <2>1, <2>2 DEF Admission, Scaling
  <2>5. ASSUME Gating PROVE \A q \in Reqs : Admitting(q)' /\ Deleting(q)'
    <3>1. \A q \in Reqs : Admitting(q) /\ Deleting(q)
      BY <2>5 DEF Admission
    <3>2. \A q \in Reqs : Admitting(q)'
      BY <1>1, <2>1, <2>2, <2>3, <3>1 DEF Admitting
    <3>3. \A q \in Reqs : Deleting(q)'
      BY <1>1, <2>1, <3>1 DEF Deleting, Exists
    <3> QED BY <3>2, <3>3
  <2>6. Gating => Solo' /\ (Runs' => Exists("workload")' /\ admitted')
    BY <1>1, <2>2, <2>3 DEF Admission, Solo
  <2> QED BY <2>2, <2>4, <2>5, <2>6 DEF Admission
<1>2. CASE UNCHANGED vars
  BY <1>1, <1>2 DEF vars
<1>3. CASE Admit
  BY <1>1, <1>3 DEF Admit
<1>4. CASE Restart
  <2>1. \A q \in Reqs : Left(q)' = {} /\ phase'[q] \notin {"rollback", "delete"} /\ q \notin InFlight'
    <3>1. Range(<<>>) = {}
      BY InTuple
    <3> QED BY <1>4, <3>1 DEF Restart, Left, InFlight
  <2>2. (Runs' <=> Runs) /\ (Gating' <=> Gating) /\ UNCHANGED <<obj, admitted>>
    BY <1>4 DEF Restart, store, Runs, Gating, Gated, Exists
  <2>3. \A q \in Reqs : Scaling(q)' /\ Admitting(q)' /\ Deleting(q)'
    BY <2>1 DEF Scaling, Admitting, Deleting, Ahead
  <2>4. Solo'
    BY <2>1 DEF Solo, InFlight
  <2> QED BY <2>2, <2>3, <2>4 DEF Admission, Exists
<1>5. ASSUME NEW r \in Reqs, Step(r) PROVE Admission'
  <2>1. Own(r) /\ r \in InFlight
    BY <1>5, StepOwn, Stepping
  <2>2. \A q \in Reqs : Scaling(q)'
    <3>1. \A q \in Reqs \ {r} : Left(q)' = Left(q)
      BY <2>1 DEF Own, Left
    <3>2. \A q \in Reqs \ {r} : Scaling(q)'
      BY <3>1 DEF Admission, Scaling, Ahead
    <3>3. Scaling(r)'
      BY <1>5, ScalingStep DEF Admission
    <3> QED BY <3>2, <3>3
  <2> SUFFICES ASSUME Gating'
               PROVE  /\ Solo' /\ (Runs' => Exists("workload")' /\ admitted')
                      /\ \A q \in Reqs : Admitting(q)' /\ Deleting(q)'
    BY <2>2 DEF Admission
  <2>3. Gating
    BY <2>1 DEF Gating, Gated, Own
  <2>4. \A q \in Reqs \ {r} : q \notin InFlight
    BY <2>1, <2>3 DEF Admission, Solo
  <2>5. Solo'
    BY <1>5, <2>4, AloneNext DEF Removal, Solo, InFlight
  <2>6. ASSUME NEW q \in Reqs \ {r} PROVE Admitting(q)' /\ Deleting(q)'
    <3>1. Left(q)' = {} /\ phase'[q] \in {"idle", "done"}
      BY <2>1, <2>4, Quiet DEF Own, Left
    <3> QED BY <3>1 DEF Admitting, Deleting, Ahead
  <2>7. Admitting(r)' /\ (Runs' => Exists("workload")' /\ admitted')
    BY <1>5, <2>3, AdmittingStep DEF Admission
  <2>8. Deleting(r)'
    BY <1>5, <2>3, DeletingStep DEF Admission, Removal
  <2> QED BY <2>5, <2>6, <2>7, <2>8
<1>6. ASSUME NEW r \in Reqs, StartCreate(r) \/ StartUpdate(r) \/ StartDelete(r) PROVE Admission'
  <2>1. \A q \in Reqs \ {r} : Left(q)' = Left(q) /\ phase'[q] = phase[q] /\ (q \in InFlight' <=> q \in InFlight)
    BY <1>6, ArrivalOwn DEF Left
  <2>2. \/ Left(r)' = {}
        \/ \A c \in Left(r)' : ~Withdraws(c)
        \/ Will(r, {"update", "drop"}, "deploy")'
    <3>1. CASE Left(r)' = CreateStartCalls(def'[r])
      BY <3>1, BeginningCreate
    <3>2. CASE Left(r)' = IF def'[r].exposed THEN UpdateCalls(def'[r]) ELSE {}
      BY <3>2, BeginningUpdate DEF Will
    <3>3. CASE Left(r)' = DeleteStartCalls(def'[r])
      BY <3>3, BeginningDelete DEF Will
    <3> QED BY <1>6, <3>1, <3>2, <3>3, Beginnings
  <2>3. ~Ahead(r, "scale")' /\ (phase'[r] = "delete" => \A c \in Left(r)' : c.op # "delete")
        /\ phase'[r] # "rollback"
    BY <1>6, Beginnings, BeginningCreate, BeginningUpdate, BeginningDelete DEF Ahead, Judges
  <2>4. \A q \in Reqs : Scaling(q)'
    BY <2>1, <2>3 DEF Admission, Scaling, Ahead
  <2> SUFFICES ASSUME Gating'
               PROVE  /\ Solo' /\ (Runs' => Exists("workload")' /\ admitted')
                      /\ \A q \in Reqs : Admitting(q)' /\ Deleting(q)'
    BY <2>4 DEF Admission
  <2>5. Gating /\ InFlight = {} /\ UNCHANGED <<obj, admitted>>
    BY <1>6, Beginnings DEF Gating, Gated
  <2>6. Solo'
    BY <2>1, <2>5 DEF Solo, InFlight
  <2>7. Runs' => Exists("workload")' /\ admitted'
    BY <2>5 DEF Admission, Runs, Exists
  <2>8. ASSUME NEW q \in Reqs \ {r} PROVE Admitting(q)' /\ Deleting(q)'
    <3>1. Left(q)' = {} /\ phase'[q] \in {"idle", "done"}
      BY <2>1, <2>5, Quiet
    <3> QED BY <3>1 DEF Admitting, Deleting, Ahead
  <2>9. Admitting(r)' /\ Deleting(r)'
    <3>1. todo'[r] # <<>> => Rest(r)' \subseteq Left(r)'
      BY <1>6, Beginnings
    <3> QED BY <2>2, <2>3, <3>1 DEF Admitting, Deleting
  <2> QED BY <2>6, <2>7, <2>8, <2>9
<1> QED BY <1>2, <1>3, <1>4, <1>5, <1>6 DEF Next, AllServed

\* What a request that removes the service has not to do.
LEMMA OnlyRemoves ==
  ASSUME NEW r \in Reqs, Removing(r), phase[r] \in {"rollback", "delete"}
  PROVE  /\ \A c \in Left(r) : ~Judges(c) /\ ~Applies(c)
         /\ \A c \in Left(r) : c.op \notin {"create", "update", "get", "publish", "fail"}
BY DEF Removing, Removes, Judges, Applies

\* A call that leaves Deployment and Workload alone, or finds them as it wants them.
LEMMA MatchingPasses ==
  ASSUME Typed, NEW r \in Reqs, Gating, Matching(r), Passes(r), faults' = faults
  PROVE  Matching(r)'
<1>1. PICK S : Adds(r, S) /\ \A b \in S : Plain(b)
  BY DEF Passes
<1>2. /\ Left(r) = {Head1(r)} \cup Rest(r) /\ Left(r)' = S \cup Rest(r)
      /\ UNCHANGED <<reg, phase, def>>
  BY <1>1, AtCall DEF Adds
<1>3. /\ ~Settles(Head1(r)) /\ ~Judges(Head1(r)) /\ Head1(r).op # "publish" /\ ~Withdraws(Head1(r))
      /\ (Exists("workload")' <=> Exists("workload")) /\ (Exists("deploy")' <=> Exists("deploy"))
      /\ (Matched' <=> Matched) /\ (Same(r)' <=> Same(r))
  BY <1>2 DEF Passes, SameDeploy, SameWorkload, Exists, Matched, Same
<1>4. \A b \in S : /\ b.kind \notin {"deploy", "workload"} /\ b.op # "publish" /\ ~Judges(b)
                   /\ ~Settles(b) /\ ~Applies(b) /\ ~Withdraws(b)
  BY <1>1 DEF Plain, Judges, Settles, Applies, Withdraws
<1>5. /\ Withdrawing(r)' <=> Withdrawing(r)
      /\ Will(r, {"create"}, "deploy")' <=> Will(r, {"create"}, "deploy")
      /\ Will(r, {"update"}, "deploy")' <=> Will(r, {"update"}, "deploy")
      /\ Will(r, {"drop"}, "deploy")' <=> Will(r, {"drop"}, "deploy")
      /\ Ahead(r, "publish")' <=> Ahead(r, "publish")
  BY <1>2, <1>3, <1>4 DEF Withdrawing, Will, Ahead, Settles
<1>6. /\ (\E c \in Left(r)' : Judges(c)) => \E c \in Left(r) : Judges(c)
      /\ (\E c \in Left(r) : Settles(c)) => \E c \in Left(r)' : Settles(c)
      /\ (\E c \in Left(r)' : Applies(c)) => \E c \in Left(r) : Applies(c)
  BY <1>2, <1>3, <1>4
<1>7. \A c \in Left(r)' : c \in Left(r) \/ (c.kind \notin {"deploy", "workload"} /\ ~Judges(c))
  BY <1>2, <1>4
<1>8. MatchingCreate(r) => MatchingCreate(r)'
  BY <1>2, <1>3, <1>5, <1>7 DEF MatchingCreate
<1>9. MatchingUpdate(r) => MatchingUpdate(r)'
  BY <1>2, <1>3, <1>5, <1>6, <1>7 DEF MatchingUpdate
<1>10. MatchingDelete(r) => MatchingDelete(r)'
  BY <1>3, <1>5 DEF MatchingDelete
<1> QED BY <1>2, <1>3, <1>5, <1>6, <1>8, <1>9, <1>10 DEF Matching

\* The phases that a request in progress may be in, where its plan is concerned.
LEMMA ThreeWays ==
  ASSUME Typed, NEW r \in Reqs, r \in InFlight
  PROVE  phase[r] = "create" \/ phase[r] \in {"update", "undo"} \/ phase[r] \in {"rollback", "delete"}
BY DEF Typed, TypeOK, Phases, InFlight

\* A Deployment that is made is made next to its own Workload or none; one that is
\* updated, or removed, will lose its Workload next.
LEMMA MatchingSets ==
  ASSUME Typed, NEW r \in Reqs, Matching(r), Removing(r), Sets(r) \/ Drops(r)
  PROVE  Matching(r)'
<1>1. /\ Left(r) = {Head1(r)} \cup Rest(r) /\ Left(r)' = Rest(r) /\ def[r] \in Defs /\ r \in InFlight
      /\ UNCHANGED <<reg, phase, def>> /\ Settles(Head1(r)) /\ Head1(r) \in Left(r)
  BY AtCall DEF Sets, Drops, Adds
<1>2. /\ (Exists("workload")' <=> Exists("workload")) /\ (Same(r)' <=> Same(r))
      /\ ~Withdraws(Head1(r)) /\ Head1(r).kind = "deploy" /\ Head1(r).op # "publish"
  BY <1>1 DEF Sets, Drops, SameWorkload, Exists, Same, Settles, Withdraws
<1>3. (Withdrawing(r)' <=> Withdrawing(r)) /\ (Ahead(r, "publish")' <=> Ahead(r, "publish"))
  BY <1>1, <1>2 DEF Withdrawing, Ahead
<1>4. Sets(r) => Exists("deploy")'
  BY <1>1, NewObjects DEF Sets, Exists
<1>5. CASE phase[r] = "create"
  <2>1. MatchingCreate(r) /\ Head1(r).op = "create"
    BY <1>1, <1>2, <1>5 DEF Matching, MatchingCreate
  <2>2. Sets(r) /\ ~Exists("deploy") /\ Exists("deploy")'
    BY <1>4, <2>1 DEF Sets, Drops
  <2>3. Will(r, {"create"}, "deploy")
    BY <1>1, <1>2, <2>1 DEF Will
  <2>4. Same(r)' /\ Matched'
    BY <1>2, <2>1, <2>2, <2>3 DEF MatchingCreate, Matched, Same
  <2>5. MatchingCreate(r)'
    <3>1. def[r].exposed
      BY <1>1, <1>2, <2>1 DEF MatchingCreate
    <3>2. \A c \in Left(r)' : c.kind = "deploy" => c.op = "create"
      BY <1>1, <2>1 DEF MatchingCreate
    <3>3. ~Ahead(r, "publish")' => reg' # None
      BY <1>1, <1>3, <2>1 DEF MatchingCreate
    <3> QED BY <1>1, <2>2, <2>4, <3>1, <3>2, <3>3 DEF MatchingCreate
  <2> QED BY <1>1, <1>5, <2>4, <2>5 DEF Matching
<1>6. CASE phase[r] \in {"update", "undo"}
  <2>1. MatchingUpdate(r) /\ Head1(r).op = "update"
    BY <1>1, <1>2, <1>6 DEF Matching, MatchingUpdate, Settles
  <2>2. Exists("deploy")'
    BY <1>4, <2>1 DEF Sets, Drops
  <2>3. Will(r, {"update"}, "deploy")
    BY <1>1, <1>2, <2>1 DEF Will
  <2>4. Withdrawing(r)'
    BY <1>3, <2>1, <2>3 DEF MatchingUpdate
  <2>5. MatchingUpdate(r)'
    BY <1>1, <2>1, <2>2, <2>4 DEF MatchingUpdate, Matched
  <2> QED BY <1>1, <1>6, <2>4, <2>5 DEF Matching
<1>7. CASE phase[r] \in {"rollback", "delete"}
  <2>1. MatchingDelete(r) /\ Head1(r).op = "drop"
    BY <1>1, <1>2, <1>7, OnlyRemoves DEF Matching, Settles
  <2>2. Will(r, {"drop"}, "deploy")
    BY <1>1, <1>2, <2>1 DEF Will
  <2>3. Withdrawing(r)'
    BY <1>3, <2>1, <2>2 DEF MatchingDelete
  <2> QED BY <1>1, <1>7, <2>3 DEF Matching, MatchingDelete
<1> QED BY <1>1, <1>5, <1>6, <1>7, ThreeWays

\* A Workload that is removed, or made where there was none, is not another's.
LEMMA MatchingTakes ==
  ASSUME Typed, NEW r \in Reqs, Matching(r), Removing(r), Takes(r) \/ Asks(r)
  PROVE  Matching(r)'
<1>1. /\ Left(r) = {Head1(r)} \cup Rest(r) /\ Left(r)' = Rest(r) /\ def[r] \in Defs /\ r \in InFlight
      /\ UNCHANGED <<reg, phase, def>> /\ Head1(r) \in Left(r)
      /\ Withdraws(Head1(r)) \/ Applies(Head1(r))
      /\ \A a \in Rest(r) : ~Precedes(a, Head1(r))
  BY AtCall DEF Takes, Asks, Adds
<1>2. /\ Exists("deploy")' <=> Exists("deploy")
      /\ Head1(r).kind = "workload" /\ Head1(r).op \in {"tryCreate", "tryDelete"} /\ ~Plain(Head1(r))
  BY <1>1 DEF Takes, Asks, SameDeploy, Exists, Withdraws, Applies, Plain
<1>3. Same(r)'
  <2>1. CASE Takes(r)
    BY <2>1 DEF Takes, Same, Exists
  <2>2. CASE Asks(r)
    <3>1. obj'["workload"].def = def[r]
      BY <1>1, <2>2, NewObjects DEF Asks
    <3> QED BY <1>1, <3>1 DEF Same
  <2> QED BY <2>1, <2>2
<1>4. ~Ahead(r, "publish")' /\ ~Ahead(r, "publish")
  <2>1. \A a \in Rest(r) : a.op # "publish"
    BY <1>1, <1>2 DEF Precedes
  <2> QED BY <1>1, <1>2, <2>1 DEF Ahead
<1>5. /\ Will(r, {"create"}, "deploy")' <=> Will(r, {"create"}, "deploy")
      /\ ~Will(r, {"update"}, "deploy")' /\ ~Will(r, {"drop"}, "deploy")'
      /\ ~Will(r, {"update"}, "deploy")
  <2>1. \A a \in Rest(r) : ~(a.kind = "deploy" /\ a.op \in {"update", "drop"})
    BY <1>1 DEF Precedes, Settles
  <2> QED BY <1>1, <1>2, <2>1 DEF Will
<1>6. Takes(r) => Matched'
  BY DEF Takes, Matched, Exists
<1>7. CASE phase[r] = "create"
  <2>1. MatchingCreate(r) /\ def[r].exposed
    BY <1>1, <1>2, <1>7 DEF Matching, MatchingCreate
  <2>2. MatchingCreate(r)'
    BY <1>1, <1>2, <1>3, <1>4, <1>5, <2>1 DEF MatchingCreate
  <2> QED BY <1>1, <1>3, <1>7, <2>2 DEF Matching
<1>8. CASE phase[r] \in {"update", "undo"}
  <2>1. MatchingUpdate(r)
    BY <1>8 DEF Matching
  <2>2. (\E c \in Left(r)' : Applies(c)) => Exists("deploy")'
    BY <1>1, <1>2, <1>5, <2>1 DEF MatchingUpdate
  <2>3. Matched'
    <3>1. CASE Asks(r)
      <4>1. Applies(Head1(r))
        BY <3>1 DEF Asks
      <4> QED BY <1>1, <1>2, <1>5, <2>1, <4>1 DEF MatchingUpdate, Matched
    <3> QED BY <1>6, <3>1
  <2>4. MatchingUpdate(r)'
    BY <1>1, <1>5, <2>1, <2>2, <2>3 DEF MatchingUpdate
  <2> QED BY <1>1, <1>3, <1>8, <2>4 DEF Matching
<1>9. CASE phase[r] \in {"rollback", "delete"}
  <2>1. Takes(r)
    BY <1>1, <1>9, OnlyRemoves DEF Asks
  <2>2. MatchingDelete(r)'
    BY <1>5, <1>6, <2>1 DEF MatchingDelete
  <2> QED BY <1>1, <1>3, <1>9, <2>2 DEF Matching
<1> QED BY <1>1, <1>7, <1>8, <1>9, ThreeWays

\* The Workload that is checked, and for which the replicas are set, is the request's own.
LEMMA MatchingJudged ==
  ASSUME Typed, NEW r \in Reqs, Matching(r), Removing(r), Scaling(r), Judged(r) \/ Scales(r)
  PROVE  Matching(r)' /\ (Scales(r) => Same(r))
<1>1. PICK S : /\ Adds(r, S)
               /\ \A b \in S : /\ b.kind # "deploy" /\ b.op # "publish" /\ ~Applies(b)
                               /\ Scales(r) => ~Judges(b)
  <2>1. \A b \in {Call("scale", "none"), Call("tryDelete", "workload")} \cup NotAdmittedCalls(r) :
            b.kind # "deploy" /\ b.op # "publish" /\ ~Applies(b)
    BY CallFields DEF NotAdmittedCalls, Applies
  <2>2. CASE Scales(r)
    BY <2>2 DEF Scales
  <2>3. CASE Judged(r)
    <3>1. \E S : /\ S \subseteq {Call("scale", "none"), Call("tryDelete", "workload")} \cup NotAdmittedCalls(r)
                 /\ Adds(r, S)
      BY <2>3 DEF Judged
    <3>2. ~Scales(r)
      BY <2>3 DEF Judged, Scales
    <3> QED BY <2>1, <3>1, <3>2
  <2> QED BY <2>2, <2>3
<1>2. /\ Left(r) = {Head1(r)} \cup Rest(r) /\ Left(r)' = S \cup Rest(r) /\ r \in InFlight /\ def[r] \in Defs
      /\ UNCHANGED <<reg, phase, def>> /\ Judges(Head1(r)) /\ Head1(r) \in Left(r)
      /\ \A a \in Rest(r) : ~Precedes(a, Head1(r))
  BY <1>1, AtCall DEF Adds, Judged, Scales, Judges
<1>3. Head1(r).op \in {"check", "scale"} /\ ~Plain(Head1(r)) /\ ~Settles(Head1(r)) /\ ~Withdraws(Head1(r))
  BY <1>2 DEF Judges, Plain, Settles, Withdraws
<1>4. \A a \in Rest(r) : ~Settles(a) /\ ~Withdraws(a) /\ ~Applies(a) /\ ~Judges(a) /\ a.op # "publish"
  BY <1>2, <1>3 DEF Precedes
<1>5. /\ Exists("deploy")' <=> Exists("deploy")
      /\ Exists("workload")' <=> Exists("workload")
      /\ Matched' <=> Matched
      /\ Same(r)' <=> Same(r)
  <2>1. Exists("workload")' <=> Exists("workload")
    BY DEF Judged, Scales, SameWorkload, Exists
  <2>2. Exists("deploy")' <=> Exists("deploy")
    BY <1>2, NewObjects DEF Judged, Scales, SameDeploy, Exists
  <2>3. obj'["workload"] = obj["workload"]
    BY DEF Judged, Scales, SameWorkload
  <2> QED BY <1>2, <2>1, <2>2, <2>3 DEF Matched, Same
<1>6. Same(r)
  <2>1. ~Withdrawing(r) /\ \A c \in Left(r) : ~Settles(c)
    BY <1>2, <1>3, <1>4 DEF Withdrawing
  <2> QED BY <1>2, <2>1 DEF Matching
<1>7. /\ ~Will(r, {"create"}, "deploy")' /\ ~Will(r, {"create"}, "deploy")
      /\ ~Will(r, {"update"}, "deploy")' /\ ~Will(r, {"drop"}, "deploy")'
      /\ ~Ahead(r, "publish")' /\ ~Ahead(r, "publish")
      /\ \A c \in Left(r)' : ~Applies(c)
  BY <1>1, <1>2, <1>3, <1>4 DEF Will, Ahead, Settles
<1>8. CASE phase[r] = "create"
  <2>1. MatchingCreate(r) /\ def[r].exposed
    BY <1>2, <1>8 DEF Matching, MatchingCreate
  <2>2. MatchingCreate(r)'
    <3>1. \A c \in Left(r)' : c.kind = "deploy" => c.op = "create"
      BY <1>1, <1>2, <2>1 DEF MatchingCreate
    <3> QED BY <1>2, <1>5, <1>7, <2>1, <3>1 DEF MatchingCreate
  <2> QED BY <1>2, <1>5, <1>6, <1>8, <2>2 DEF Matching
<1>9. CASE phase[r] \in {"update", "undo"}
  <2>1. MatchingUpdate(r)
    BY <1>9 DEF Matching
  <2>2. MatchingUpdate(r)'
    <3>1. \A c \in Left(r)' : c.kind = "deploy" => c.op \in {"get", "update"}
      BY <1>1, <1>2, <2>1 DEF MatchingUpdate
    <3> QED BY <1>5, <1>7, <2>1, <3>1 DEF MatchingUpdate
  <2> QED BY <1>2, <1>5, <1>6, <1>9, <2>2 DEF Matching
<1>10. CASE phase[r] \in {"rollback", "delete"}
  BY <1>2, <1>10, OnlyRemoves
<1> QED BY <1>2, <1>6, <1>8, <1>9, <1>10, ThreeWays

\* A request that fails has left no Workload without its Deployment, or removes it now; so
\* with one that is answered.
LEMMA MatchingEnds ==
  ASSUME Typed, NEW r \in Reqs, r \in InFlight, Matching(r), Removing(r), Deleting(r),
         faults' = faults, Fails(r) \/ Publish(r) \/ Return(r)
  PROVE  IF phase'[r] = "done" THEN Matched' ELSE Matching(r)'
<1>1. SameDeploy /\ SameWorkload
  BY BookSteps DEF Fails
<1>2. (Exists("deploy")' <=> Exists("deploy")) /\ (Exists("workload")' <=> Exists("workload"))
      /\ (Matched' <=> Matched)
  BY <1>1 DEF SameDeploy, SameWorkload, Exists, Matched
<1>3. ASSUME todo[r] # <<>>
      PROVE  Left(r) = {Head1(r)} \cup Rest(r) /\ Head1(r) \in Left(r)
  BY <1>3, AtCall
<1>4. CASE Fails(r)
  <2>1. /\ todo[r] # <<>> /\ Abort(r) /\ Head1(r).op \in {"create", "update", "get", "delete", "fail"}
        /\ Head1(r).op = "delete" => ~Exists(K(r))
    <3>1. faults # faults + 1
      BY DEF Typed, TypeOK
    <3> QED BY <1>4, <3>1 DEF Fails
  <2>2. phase[r] \notin {"rollback", "delete"}
    <3>1. ASSUME phase[r] \in {"rollback", "delete"} PROVE FALSE
      <4>1. Head1(r).op = "delete"
        BY <1>3, <2>1, <3>1, OnlyRemoves
      <4>2. Exists(Head1(r).kind)
        BY <1>3, <2>1, <3>1, <4>1 DEF Deleting
      <4> QED BY <2>1, <4>1, <4>2 DEF K
    <3> QED BY <3>1
  <2>3. phase[r] = "create" => MatchingCreate(r)
    BY DEF Matching
  <2>4. phase[r] \in {"update", "undo"} => MatchingUpdate(r)
    BY DEF Matching
  <2>5. CASE phase'[r] = "done" /\ (phase[r] \notin {"create", "update"} \/ reg = None)
    <3>1. phase[r] = "create" => Matched
      BY <2>3, <2>5 DEF MatchingCreate
    <3>2. phase[r] \in {"update", "undo"} => Matched
      BY <2>4 DEF MatchingUpdate
    <3> QED BY <1>2, <2>2, <2>5, <3>1, <3>2, ThreeWays
  <2>6. CASE /\ phase[r] = "create" /\ phase'[r] = "rollback" /\ def'[r] = def[r]
             /\ Left(r)' = IF def[r].exposed THEN DeleteCalls ELSE {}
    <3>1. \A c \in Left(r)' : ~Judges(c)
      BY <2>6, BeginningDelete
    <3>2. CASE def[r].exposed
      <4>1. Withdrawing(r)'
        BY <2>6, <3>2, BeginningDelete DEF Withdrawing
      <4> QED BY <2>6, <3>1, <4>1 DEF Matching, MatchingDelete
    <3>3. CASE ~def[r].exposed
      <4>1. ~Will(r, {"drop"}, "deploy")' /\ Matched'
        BY <1>2, <2>3, <2>6, <3>3 DEF Will, MatchingCreate
      <4> QED BY <2>6, <3>1, <4>1 DEF Matching, MatchingDelete
    <3> QED BY <3>2, <3>3
  <2>7. CASE /\ phase[r] = "update" /\ phase'[r] = "undo" /\ def'[r] = prior[r]
             /\ Left(r)' = IF prior[r].exposed THEN UpdateCalls(prior[r]) ELSE {}
    <3>1. Matched' /\ \A c \in Left(r)' : c.kind = "deploy" => c.op \in {"get", "update"}
      BY <1>2, <2>4, <2>7, BeginningUpdate DEF MatchingUpdate
    <3>2. Left(r)' = {} \/ (Withdrawing(r)' /\ Will(r, {"update"}, "deploy")')
      BY <2>7, BeginningUpdate DEF Withdrawing, Will
    <3>3. Left(r)' = {} => ~Will(r, {"update"}, "deploy")'
      BY DEF Will
    <3>4. MatchingUpdate(r)'
      BY <3>1, <3>2, <3>3 DEF MatchingUpdate
    <3> QED BY <2>7, <3>2, <3>4 DEF Matching
  <2> QED BY <2>1, <2>5, <2>6, <2>7, Aborted
<1>5. CASE Publish(r) \/ Return(r)
  <2>1. CASE phase'[r] = "done" /\ (Left(r) = {} \/ (todo[r] # <<>> /\ Head1(r).op = "publish"))
    <3>1. CASE phase[r] = "create"
      <4>1. MatchingCreate(r)
        BY <3>1 DEF Matching
      <4>2. Left(r) = {} => Matched
        BY <4>1 DEF MatchingCreate, Will, Matched
      <4>3. todo[r] # <<>> /\ Head1(r).op = "publish" => Matched
        BY <1>3, <4>1 DEF MatchingCreate, Ahead
      <4> QED BY <1>2, <2>1, <4>2, <4>3
    <3>2. CASE phase[r] \in {"update", "undo"}
      BY <1>2, <2>1, <3>2 DEF Matching, MatchingUpdate
    <3>3. CASE phase[r] \in {"rollback", "delete"}
      <4>1. Left(r) = {}
        BY <1>3, <2>1, <3>3, OnlyRemoves
      <4> QED BY <1>2, <2>1, <3>3, <4>1 DEF Matching, MatchingDelete, Withdrawing
    <3> QED BY <3>1, <3>2, <3>3, ThreeWays
  <2>2. CASE todo[r] # <<>> /\ Head1(r).op = "publish" /\ Left(r)' = Rest(r) /\ phase' = phase /\ reg' # None
    <3>1. /\ Left(r) = {Head1(r)} \cup Left(r)' /\ Head1(r) \in Left(r)
          /\ ~Settles(Head1(r)) /\ ~Withdraws(Head1(r))
      BY <1>3, <2>2 DEF Settles, Withdraws
    <3>2. /\ Withdrawing(r)' <=> Withdrawing(r)
          /\ Will(r, {"create"}, "deploy")' <=> Will(r, {"create"}, "deploy")
          /\ Will(r, {"update"}, "deploy")' <=> Will(r, {"update"}, "deploy")
          /\ (\E c \in Left(r) : Settles(c)) => \E c \in Left(r)' : Settles(c)
      BY <2>2, <3>1 DEF Withdrawing, Will
    <3>3. def' = def /\ (Same(r)' <=> Same(r))
      BY <1>1, <1>2, <1>5, BookSteps DEF Same, SameWorkload
    <3>4. phase[r] \notin {"rollback", "delete"} /\ phase'[r] # "done"
      BY <2>2, <3>1, OnlyRemoves DEF InFlight
    <3>5. MatchingCreate(r) => MatchingCreate(r)'
      <4>1. Ahead(r, "publish")
        BY <2>2, <3>1 DEF Ahead
      <4> QED BY <1>2, <2>2, <3>1, <3>2, <3>3, <4>1 DEF MatchingCreate
    <3>6. MatchingUpdate(r) => MatchingUpdate(r)'
      BY <1>2, <3>1, <3>2 DEF MatchingUpdate
    <3> QED BY <2>2, <3>1, <3>2, <3>3, <3>4, <3>5, <3>6 DEF Matching
  <2> QED BY <1>5, <2>1, <2>2, BookSteps
<1> QED BY <1>4, <1>5

\* A step of the only request in progress, no call of which fails, keeps to it that the
\* Workload is that of the pods.
LEMMA FidelityStep ==
  ASSUME Typed, Removal, Admission, Fidelity, NEW r \in Reqs, Step(r), Gating', faults' + restarts' = 0
  PROVE  /\ Runs' => obj'["workload"].def = obj'["deploy"].def
         /\ IF phase'[r] = "done" THEN Matched' ELSE Matching(r)'
<1>1. Own(r) /\ r \in InFlight /\ Gating
  <2>1. Own(r) /\ r \in InFlight
    BY StepOwn, Stepping
  <2> QED BY <2>1 DEF Own, Gating, Gated
<1>2. faults' = faults /\ faults + restarts = 0
  <2>1. faults' = faults \/ faults' = faults + 1
    <3>1. CASE Publish(r) \/ Return(r)
      BY <3>1 DEF Publish, Return
    <3>2. CASE Fails(r)
      BY <3>2 DEF Fails
    <3>3. CASE \E S : Adds(r, S)
      BY <3>3 DEF Adds
    <3>4. CASE Passes(r) \/ Sets(r) \/ Drops(r) \/ Takes(r) \/ Asks(r) \/ Judged(r) \/ Scales(r)
      BY <3>3, <3>4 DEF Passes, Sets, Drops, Takes, Asks, Judged, Scales
    <3> QED BY <3>1, <3>2, <3>4, Effects
  <2>2. faults \in Nat /\ restarts \in Nat /\ restarts' = restarts
    BY <1>1 DEF Own, Typed, TypeOK
  <2> QED BY <2>1, <2>2
<1>3. /\ Matching(r) /\ Removing(r) /\ Scaling(r) /\ Admitting(r) /\ Deleting(r)
      /\ Runs => Exists("workload") /\ admitted
      /\ Runs => obj["workload"].def = obj["deploy"].def
  BY <1>1, <1>2 DEF Fidelity, Admission, Removal
<1>4. Runs' => Exists("workload")'
  BY <1>1, <1>3, AdmittingStep
<1>5. ASSUME SameDeploy, SameWorkload PROVE Runs' => obj'["workload"].def = obj'["deploy"].def
  BY <1>3, <1>5 DEF SameDeploy, SameWorkload, Runs, Exists
<1>6. (\E S : Adds(r, S)) => phase'[r] # "done"
  BY <1>1 DEF Adds, InFlight
<1>7. CASE Passes(r)
  <2>1. Matching(r)'
    BY <1>1, <1>2, <1>3, <1>7, MatchingPasses
  <2>2. SameDeploy /\ SameWorkload /\ \E S : Adds(r, S)
    BY <1>7 DEF Passes
  <2> QED BY <1>5, <1>6, <2>1, <2>2
<1>8. CASE Sets(r) \/ Drops(r)
  <2>1. Matching(r)' /\ \E S : Adds(r, S)
    BY <1>3, <1>8, MatchingSets DEF Sets, Drops
  <2>2. CASE Sets(r)
    <3>1. obj'["deploy"] = [def |-> def[r], replicas |-> 0]
      BY <1>1, <2>2 DEF Sets, NewObj, getDeploymentSpec, Gating
    <3> QED BY <1>6, <2>1, <3>1 DEF Runs
  <2>3. CASE Drops(r)
    BY <1>6, <2>1, <2>3 DEF Drops, Runs, Exists
  <2> QED BY <1>8, <2>2, <2>3
<1>9. CASE Takes(r) \/ Asks(r)
  <2>1. Matching(r)' /\ \E S : Adds(r, S)
    BY <1>3, <1>9, MatchingTakes DEF Takes, Asks
  <2>2. ~Runs'
    <3>1. CASE Takes(r)
      BY <1>4, <3>1 DEF Takes, Exists
    <3>2. CASE Asks(r)
      BY <1>3, <3>2 DEF Asks, SameDeploy, Runs, Exists
    <3> QED BY <1>9, <3>1, <3>2
  <2> QED BY <1>6, <2>1, <2>2
<1>10. CASE Judged(r) \/ Scales(r)
  <2>1. Matching(r)' /\ (Scales(r) => Same(r))
    BY <1>3, <1>10, MatchingJudged
  <2>2. SameWorkload /\ \E S : Adds(r, S)
    BY <1>10 DEF Judged, Scales
  <2>3. CASE SameDeploy
    BY <1>5, <1>6, <2>1, <2>2, <2>3
  <2>4. CASE Scales(r) /\ obj'["deploy"] = [def |-> def[r], replicas |-> def[r].min]
    <3>1. Exists("workload")' => obj'["workload"].def = def[r]
      BY <2>1, <2>2, <2>4 DEF Same, SameWorkload, Exists
    <3> QED BY <1>4, <1>6, <2>1, <2>2, <2>4, <3>1
  <2> QED BY <1>10, <2>3, <2>4 DEF Judged, Scales
<1>11. CASE Fails(r) \/ Publish(r) \/ Return(r)
  <2>1. IF phase'[r] = "done" THEN Matched' ELSE Matching(r)'
    BY <1>1, <1>2, <1>3, <1>11, MatchingEnds
  <2>2. SameDeploy /\ SameWorkload
    BY <1>11, BookSteps DEF Fails
  <2> QED BY <1>5, <2>1, <2>2
<1> QED BY <1>7, <1>8, <1>9, <1>10, <1>11, Effects

\* A request that arrives when none is in progress finds a Workload with its Deployment.
LEMMA MatchingArrival ==
  ASSUME Typed, NEW r \in Reqs, StartCreate(r) \/ StartUpdate(r) \/ StartDelete(r), Matched
  PROVE  Matching(r)'
<1>1. Matched'
  BY Beginnings DEF Matched, Exists
<1>2. CASE phase'[r] = "create" /\ Left(r)' = CreateStartCalls(def'[r])
  <2>1. MatchingCreate(r)'
    <3>1. Ahead(r, "publish")' /\ (def'[r].exposed => Will(r, {"create"}, "deploy")')
      BY <1>2, BeginningCreate DEF Ahead, Will
    <3> QED BY <1>1, <1>2, <3>1, BeginningCreate DEF MatchingCreate
  <2>2. (\E c \in Left(r)' : Judges(c)) => \E c \in Left(r)' : Settles(c)
    BY <1>2, BeginningCreate DEF Settles
  <2> QED BY <1>2, <2>1, <2>2 DEF Matching
<1>3. CASE phase'[r] = "update" /\ Left(r)' = IF def'[r].exposed THEN UpdateCalls(def'[r]) ELSE {}
  <2>1. \A c \in Left(r)' : c.kind = "deploy" => c.op \in {"get", "update"}
    BY <1>3, BeginningUpdate
  <2>2. Left(r)' = {} \/ (Withdrawing(r)' /\ Will(r, {"update"}, "deploy")')
    BY <1>3, BeginningUpdate DEF Withdrawing, Will
  <2>3. Left(r)' = {} => ~Will(r, {"update"}, "deploy")'
    BY DEF Will
  <2>4. MatchingUpdate(r)'
    BY <1>1, <2>1, <2>2, <2>3 DEF MatchingUpdate
  <2> QED BY <1>3, <2>2, <2>4 DEF Matching
<1>4. CASE phase'[r] = "delete" /\ Left(r)' = DeleteStartCalls(def'[r])
  <2>1. \A c \in Left(r)' : ~Judges(c)
    BY <1>4, BeginningDelete
  <2>2. Will(r, {"drop"}, "deploy")' => Withdrawing(r)'
    BY <1>4, BeginningDelete DEF Will, Withdrawing
  <2> QED BY <1>1, <1>4, <2>1, <2>2 DEF Matching, MatchingDelete
<1> QED BY <1>2, <1>3, <1>4, Beginnings

\* Every step keeps to it that the Workload is that of the pods.
LEMMA FidelityNext ==
  ASSUME Typed, Removal, Admission, Fidelity, [Next]_vars
  PROVE  Fidelity'
<1> SUFFICES ASSUME Gating', faults' + restarts' = 0
             PROVE  /\ Runs' => obj'["workload"].def = obj'["deploy"].def
                    /\ InFlight' = {} => Matched'
                    /\ \A q \in InFlight' : Matching(q)'
  BY DEF Fidelity
<1>1. ASSUME UNCHANGED <<cfg, reg, obj, todo, phase, def, overlaps, faults, restarts>>
      PROVE  /\ Runs' => obj'["workload"].def = obj'["deploy"].def
             /\ InFlight' = {} => Matched'
             /\ \A q \in InFlight' : Matching(q)'
  <2>1. /\ Runs => obj["workload"].def = obj["deploy"].def
        /\ InFlight = {} => Matched
        /\ \A q \in InFlight : Matching(q)
    BY <1>1 DEF Fidelity, Gating, Gated
  <2>2. InFlight' = InFlight /\ (Matched' <=> Matched) /\ (Runs' <=> Runs)
    BY <1>1 DEF InFlight, Matched, Runs, Exists
  <2>3. ASSUME NEW q \in InFlight PROVE Matching(q)'
    <3>1. Left(q)' = Left(q) /\ (Same(q)' <=> Same(q)) /\ (Exists("deploy")' <=> Exists("deploy"))
      BY <1>1 DEF Left, Same, Exists
    <3>2. Withdrawing(q)' <=> Withdrawing(q)
      BY <3>1 DEF Withdrawing
    <3>3. MatchingCreate(q) => MatchingCreate(q)'
      BY <1>1, <2>2, <3>1 DEF MatchingCreate, Will, Ahead
    <3>4. MatchingUpdate(q) => MatchingUpdate(q)'
      BY <1>1, <2>2, <3>1, <3>2 DEF MatchingUpdate, Will
    <3>5. MatchingDelete(q) => MatchingDelete(q)'
      BY <1>1, <2>2, <3>1, <3>2 DEF MatchingDelete, Will
    <3> QED BY <1>1, <2>1, <2>3, <3>1, <3>2, <3>3, <3>4, <3>5 DEF Matching
  <2> QED BY <1>1, <2>1, <2>2, <2>3
<1>2. CASE UNCHANGED vars
  BY <1>1, <1>2 DEF vars
<1>3. CASE Admit
  BY <1>1, <1>3 DEF Admit
<1>4. CASE Restart
  BY <1>4 DEF Restart, Typed, TypeOK
<1>5. ASSUME NEW r \in Reqs, Step(r)
      PROVE  /\ Runs' => obj'["workload"].def = obj'["deploy"].def
             /\ InFlight' = {} => Matched'
             /\ \A q \in InFlight' : Matching(q)'
  <2>1. /\ Runs' => obj'["workload"].def = obj'["deploy"].def
        /\ IF phase'[r] = "done" THEN Matched' ELSE Matching(r)'
    BY <1>5, FidelityStep
  <2>2. Own(r) /\ r \in InFlight /\ Gating
    <3>1. Own(r) /\ r \in InFlight
      BY <1>5, StepOwn, Stepping
    <3> QED BY <3>1 DEF Own, Gating, Gated
  <2>3. \A q \in InFlight' : q = r
    BY <1>5, <2>2, AloneNext DEF Admission, Solo, Removal, InFlight
  <2>4. r \in InFlight' <=> phase'[r] # "done"
    BY <2>2 DEF Own, InFlight
  <2> QED BY <2>1, <2>3, <2>4
<1>6. ASSUME NEW r \in Reqs, StartCreate(r) \/ StartUpdate(r) \/ StartDelete(r)
      PROVE  /\ Runs' => obj'["workload"].def = obj'["deploy"].def
             /\ InFlight' = {} => Matched'
             /\ \A q \in InFlight' : Matching(q)'
  <2>1. /\ UNCHANGED <<cfg, obj, faults, restarts>> /\ overlaps = 0 /\ InFlight = {}
        /\ Gating /\ faults + restarts = 0
    BY <1>6, Beginnings DEF Gating, Gated
  <2>2. Runs' => obj'["workload"].def = obj'["deploy"].def
    BY <2>1 DEF Fidelity, Runs, Exists
  <2>3. Matched
    BY <2>1 DEF Fidelity
  <2>4. Matching(r)'
    BY <1>6, <2>3, MatchingArrival
  <2>5. r \in InFlight' /\ \A q \in InFlight' : q = r
    BY <1>6, <2>1, ArrivalOwn DEF InFlight
  <2> QED BY <2>2, <2>4, <2>5
<1> QED BY <1>2, <1>3, <1>4, <1>5, <1>6 DEF Next, AllServed

\* Nothing is there, and nothing has been asked for, at the start.
LEMMA AdmissionInit ==
  ASSUME Init
  PROVE  Removal /\ Admission /\ Fidelity
<1>1. /\ InFlight = {} /\ ~Exists("deploy") /\ ~Exists("workload") /\ ~Exists("localQueue")
      /\ \A q \in Reqs : phase[q] = "idle" /\ todo[q] = <<>>
  BY DEF Init, InFlight, Exists, Kinds
<1>2. \A q \in Reqs : Left(q) = {}
  <2>1. Range(<<>>) = {}
    BY InTuple
  <2> QED BY <1>1, <2>1 DEF Left
<1>3. Removal
  BY <1>1 DEF Removal, NoQueue, Alone, Removing
<1>4. Admission
  BY <1>1, <1>2 DEF Admission, Scaling, Admitting, Deleting, Ahead, Runs, Solo
<1>5. Fidelity
  BY <1>1 DEF Fidelity, Runs, Matched
<1> QED BY <1>3, <1>4, <1>5

\* Under Kueue, while requests come one at a time, the pods of a user's service run only
\* while a Workload for them is admitted, however often calls fail and OSCAR is restarted;
\* and until that happens the Workload asks for what the pods use: CreateExpose and
\* UpdateExpose scale up only what CheckWorkloadAdmited has seen admitted, and no Workload
\* is taken away from pods that run.
THEOREM RunsAdmitted == Spec => []RunsOnlyIfAdmitted
<1>1. Init => Typed /\ Removal /\ Admission /\ Fidelity
  BY TypedInit, AdmissionInit
<1>2. Typed /\ Removal /\ Admission /\ Fidelity /\ [Next]_vars =>
         (Typed /\ Removal /\ Admission /\ Fidelity)'
  BY TypedNext, RemovalNext, AdmissionNext, FidelityNext
<1>3. Typed /\ Removal /\ Admission /\ Fidelity => RunsOnlyIfAdmitted
  BY DEF Admission, Fidelity, RunsOnlyIfAdmitted, Gating, Runs
<1> QED BY <1>1, <1>2, <1>3, PTL DEF Spec

=============================================================================
