------------------------------ MODULE BucketsProofs ------------------------------
(***************************************************************************)
(* Type correctness of Buckets.  A request carries its plan with it, a     *)
(* sequence of blocks of calls, and each call is typed by its arguments:   *)
(* the invariant is about plans, and each step has to give a plan that is  *)
(* typed again.  First the sequences (the induction that the folds need is *)
(* stated for sets), then the plans that the handlers make, then the       *)
(* steps.                                                                  *)
(***************************************************************************)
EXTENDS Buckets, SequenceTheorems, FiniteSetTheorems, WellFoundedInduction, TLAPS

\* Induction over the natural numbers, for a set.
LEMMA SetInduction ==
    ASSUME NEW S, 0 \in S, \A n \in Nat : n \in S => n + 1 \in S
    PROVE  Nat \subseteq S
<1>. DEFINE R == OpToRel(<, Nat)
<1>. DEFINE T == Nat \ S
<1>. SUFFICES ASSUME T # {} PROVE FALSE
  OBVIOUS
<1>1. IsWellFoundedOn(R, Nat)
  BY NatLessThanWellFounded
<1>2. T \subseteq Nat
  OBVIOUS
<1>3. PICK x \in T : \A y \in T : ~ (<<y, x>> \in R)
  <2>. HIDE DEF R, T
  <2>. QED
    BY <1>1, <1>2, WFMin
<1>4. x \in Nat /\ x # 0
  OBVIOUS
<1>5. x - 1 \in Nat /\ x - 1 < x /\ (x - 1) + 1 = x
  BY <1>4
<1>6. <<x - 1, x>> \in R
  BY <1>4, <1>5 DEF OpToRel
<1>7. x - 1 \in S
  BY <1>3, <1>5, <1>6
<1>. QED
  BY <1>5, <1>7

\* FlattenSeq is what its recursive definition says.
LEMMA FlattenDef ==
    ASSUME NEW seqs, NEW n \in Nat \ {0}
    PROVE  LET f[i \in 1..n] == IF i = 1 THEN seqs[i] ELSE f[i-1] \o seqs[i]
           IN  f = [i \in 1..n |-> IF i = 1 THEN seqs[i] ELSE f[i-1] \o seqs[i]]
<1>. DEFINE Flat(g, m) == g = [i \in 1..m |-> IF i = 1 THEN seqs[i] ELSE g[i-1] \o seqs[i]]
<1>. DEFINE S == {m \in Nat : \E g : Flat(g, m)}
<1>1. 0 \in S
  <2>1. Flat([i \in 1..0 |-> {}], 0)
    OBVIOUS
  <2>. QED
    BY <2>1
<1>2. ASSUME NEW m \in Nat, m \in S PROVE m + 1 \in S
  <2>1. PICK g : Flat(g, m)
    BY <1>2
  <2>. DEFINE h == [i \in 1..(m + 1) |->
                      IF i = m + 1 THEN (IF i = 1 THEN seqs[i] ELSE g[m] \o seqs[i]) ELSE g[i]]
  <2>2. ASSUME NEW i \in 1..(m + 1)
        PROVE  h[i] = IF i = 1 THEN seqs[i] ELSE h[i-1] \o seqs[i]
    <3>1. CASE i = m + 1
      <4>1. CASE i = 1
        BY <3>1, <4>1
      <4>2. CASE i # 1
        <5>1. i - 1 = m /\ m \in 1..(m + 1) /\ m # m + 1
          BY <3>1, <4>2
        <5>2. h[i - 1] = g[m]
          BY <5>1
        <5>. QED
          BY <3>1, <4>2, <5>2
      <4>. QED
        BY <4>1, <4>2
    <3>2. CASE i # m + 1
      <4>1. i \in 1..m /\ (i # 1 => i - 1 \in 1..m)
        BY <3>2
      <4>2. h[i] = g[i] /\ (i # 1 => h[i - 1] = g[i - 1])
        BY <3>2, <4>1
      <4>3. g[i] = IF i = 1 THEN seqs[i] ELSE g[i-1] \o seqs[i]
        BY <2>1, <4>1
      <4>. QED
        BY <4>2, <4>3
    <3>. QED
      BY <3>1, <3>2
  <2>3. Flat(h, m + 1)
    BY <2>2
  <2>. HIDE DEF Flat, h
  <2>4. \E g1 : Flat(g1, m + 1)
    BY <2>3
  <2>5. m + 1 \in Nat
    OBVIOUS
  <2>. QED
    BY <2>4, <2>5
<1>3. n \in S
  <2>. HIDE DEF S
  <2>. QED
    BY <1>1, <1>2, SetInduction
<1>. QED
  BY <1>3

\* FlattenSeq makes one sequence of sequences over S.
LEMMA FlattenType ==
    ASSUME NEW S, NEW seqs \in Seq(Seq(S))
    PROVE  FlattenSeq(seqs) \in Seq(S)
<1>1. CASE Len(seqs) = 0
  BY <1>1 DEF FlattenSeq
<1>2. CASE Len(seqs) # 0
  <2>. DEFINE n == Len(seqs)
  <2>. DEFINE f[i \in 1..n] == IF i = 1 THEN seqs[i] ELSE f[i-1] \o seqs[i]
  <2>1. n \in Nat \ {0} /\ \A i \in 1..n : seqs[i] \in Seq(S)
    BY <1>2
  <2>2. f = [i \in 1..n |-> IF i = 1 THEN seqs[i] ELSE f[i-1] \o seqs[i]]
    BY <2>1, FlattenDef
  <2>3. FlattenSeq(seqs) = f[n]
    BY <1>2 DEF FlattenSeq
  <2>. HIDE DEF f, n
  <2>. DEFINE T == {m \in Nat : m \in 1..n => f[m] \in Seq(S)}
  <2>4. 0 \in T
    OBVIOUS
  <2>5. ASSUME NEW m \in Nat, m \in T PROVE m + 1 \in T
    <3>. SUFFICES ASSUME m + 1 \in 1..n PROVE f[m + 1] \in Seq(S)
      OBVIOUS
    <3>1. CASE m = 0
      BY <2>1, <2>2, <3>1
    <3>2. CASE m # 0
      <4>1. m \in 1..n /\ (m + 1) - 1 = m /\ m + 1 # 1
        BY <2>1, <3>2
      <4>2. f[m + 1] = f[m] \o seqs[m + 1]
        BY <2>2, <4>1
      <4>3. f[m] \in Seq(S) /\ seqs[m + 1] \in Seq(S)
        BY <2>1, <2>5, <4>1
      <4>. QED
        BY <4>2, <4>3
    <3>. QED
      BY <3>1, <3>2
  <2>6. n \in T
    <3>. HIDE DEF T
    <3>. QED
      BY <2>1, <2>4, <2>5, SetInduction
  <2>. QED
    BY <2>1, <2>3, <2>6
<1>. QED
  BY <1>1, <1>2

\* A function on 1..n is a sequence.
LEMMA FunctionIsSeq ==
    ASSUME NEW S, NEW n \in Nat, NEW f \in [1..n -> S]
    PROVE  f \in Seq(S) /\ Len(f) = n
OBVIOUS

\* A set of natural numbers has a smallest element, and Min is it.
LEMMA MinIsSmallest ==
    ASSUME NEW I, I \subseteq Nat, I # {}
    PROVE  Min(I) \in I /\ \A y \in I : Min(I) <= y
<1>. DEFINE R == OpToRel(<, Nat)
<1>1. PICK x \in I : \A y \in I : ~ (<<y, x>> \in R)
  <2>1. IsWellFoundedOn(R, Nat)
    BY NatLessThanWellFounded
  <2>. HIDE DEF R
  <2>. QED
    BY <2>1, WFMin
<1>2. \A y \in I : x <= y
  <2>. SUFFICES ASSUME NEW y \in I, ~(x <= y) PROVE FALSE
    OBVIOUS
  <2>1. y < x /\ x \in Nat /\ y \in Nat
    OBVIOUS
  <2>2. <<y, x>> \in R
    BY <2>1 DEF OpToRel
  <2>. QED
    BY <1>1, <2>2
<1>. QED
  BY <1>2 DEF Min

\* RemoveFirst leaves a sequence of the same things, or of fewer.
LEMMA RemoveFirstType ==
    ASSUME NEW S, NEW s \in Seq(S), NEW e
    PROVE  RemoveFirst(s, e) \in Seq(S)
<1>. DEFINE I == {i \in 1..Len(s) : s[i] = e}
<1>1. CASE \E i \in 1..Len(s) : s[i] = e
  <2>1. I # {} /\ I \subseteq Nat
    BY <1>1
  <2>2. Min(I) \in 1..Len(s)
    BY <2>1, MinIsSmallest
  <2>3. RemoveFirst(s, e) = SubSeq(s, 1, Min(I) - 1) \o SubSeq(s, Min(I) + 1, Len(s))
    BY <1>1, <2>1 DEF RemoveFirst, RemoveAt, SelectInSeq
  <2>. HIDE DEF I
  <2>4. SubSeq(s, 1, Min(I) - 1) \in Seq(S)
    BY <2>2
  <2>5. SubSeq(s, Min(I) + 1, Len(s)) \in Seq(S)
    BY <2>2
  <2>. QED
    BY <2>3, <2>4, <2>5
<1>2. CASE ~ \E i \in 1..Len(s) : s[i] = e
  BY <1>2 DEF RemoveFirst
<1>. QED
  BY <1>1, <1>2

\* SetToSeq lists a finite set.
LEMMA SetToSeqType ==
    ASSUME NEW S, IsFiniteSet(S)
    PROVE  SetToSeq(S) \in Seq(S)
<1>1. PICK f : f \in Bijection(1..Cardinality(S), S)
  BY FS_CardinalityType DEF ExistsBijection
<1>2. f \in [1..Cardinality(S) -> S] /\ IsInjective(f)
  BY <1>1 DEF Bijection, Injection, IsInjective
<1>3. SetToSeq(S) \in [1..Cardinality(S) -> S]
  BY <1>2 DEF SetToSeq
<1>. QED
  BY <1>3, FS_CardinalityType, FunctionIsSeq

-----------------------------------------------------------------------------
(* Calls and blocks.  The arguments of a call are of the types that its     *)
(* operation needs, and the policy that RemoveResource writes back comes    *)
(* from the call just before.                                               *)

Owners == Users \cup {CfgName, DefaultOwner, Nobody}

\* The calls that look at the request's job are made in its phases only.
JobOps(ph) ==
    CASE ph = "updateBucket" -> {"update"}
      [] ph = "deleteBucket" -> {"delete"}
      [] ph \in {"createService", "updateService"} -> {"mount", "private"}
      [] OTHER -> {}
StoreOps(ph) ==
    CASE ph = "createService" -> {"publish"}
      [] ph = "updateService" -> {"replace"}
      [] OTHER -> {}

CallType(ph) ==
    [op : {"makeBucket", "folder", "getNotif", "empty", "removeBucket", "list", "tags"} \cup JobOps(ph),
     b : Buckets, p : {None}, users : {{}}]
    \cup [op : {"addNotif", "removeNotif"}, b : Buckets, p : Services, users : {{}}]
    \cup [op : {"tag"}, b : Buckets, p : Owners, users : {{}}]
    \cup [op : {"infoToAdd", "addPolicy", "infoToRemove", "cutPolicy", "setPolicy", "see"},
          b : Buckets, p : Principals, users : {{}}]
    \cup [op : {"isolate"}, b : Buckets, p : Users, users : {{}}]
    \cup [op : {"members", "addMembers", "removeMembers", "removeFound", "removeOthers",
                "removePolicy"},
          b : {None}, p : Groups, users : SUBSET Listed]
    \cup [op : {"webhook", "unwebhook"}, b : {None}, p : Services, users : {{}}]
    \cup [op : {"restart", "serverInfo"} \cup StoreOps(ph), b : {None}, p : {None}, users : {{}}]

\* Behind the first call, a policy is cut only just after it was read.
Follows(s) == \A k \in 2..Len(s) : s[k].op = "cutPolicy" => s[k - 1].op = "infoToRemove"

CallSeqs(ph) == {s \in Seq(CallType(ph)) : Follows(s) /\ (s # <<>> => s[1].op # "cutPolicy")}
LooseBlocks(ph) == [calls : {s \in Seq(CallType(ph)) : s # <<>> /\ Follows(s)}, skip : Nat, log : BOOLEAN]
Blocks(ph) == [calls : CallSeqs(ph) \ {<<>>}, skip : Nat, log : BOOLEAN]

\* Calls after calls.
LEMMA CallsConcat ==
    ASSUME NEW ph, NEW s \in CallSeqs(ph), NEW t \in CallSeqs(ph)
    PROVE  s \o t \in CallSeqs(ph) /\ (s # <<>> \/ t # <<>> => s \o t # <<>>)
<1>1. s \in Seq(CallType(ph)) /\ t \in Seq(CallType(ph)) /\ s \o t \in Seq(CallType(ph))
  BY DEF CallSeqs
<1>2. /\ Len(s \o t) = Len(s) + Len(t) /\ Len(s) \in Nat /\ Len(t) \in Nat
      /\ \A i \in 1..Len(s) : (s \o t)[i] = s[i]
      /\ \A i \in (Len(s) + 1)..(Len(s) + Len(t)) : (s \o t)[i] = t[i - Len(s)]
  BY <1>1
<1>3. ASSUME NEW k \in 2..Len(s \o t), (s \o t)[k].op = "cutPolicy"
      PROVE  (s \o t)[k - 1].op = "infoToRemove"
  <2>1. CASE k <= Len(s)
    <3>1. k \in 2..Len(s) /\ k - 1 \in 1..Len(s) /\ k \in 1..Len(s)
      BY <1>2, <2>1
    <3>. QED
      BY <1>2, <1>3, <3>1 DEF CallSeqs, Follows
  <2>2. CASE k = Len(s) + 1
    <3>1. t # <<>> /\ (s \o t)[k] = t[1]
      BY <1>1, <1>2, <2>2
    <3>. QED
      BY <1>3, <3>1 DEF CallSeqs
  <2>3. CASE k > Len(s) + 1
    <3>1. /\ k - Len(s) \in 2..Len(t) /\ (k - Len(s)) - 1 = (k - 1) - Len(s)
          /\ k \in (Len(s) + 1)..(Len(s) + Len(t)) /\ k - 1 \in (Len(s) + 1)..(Len(s) + Len(t))
      BY <1>2, <2>3
    <3>2. (s \o t)[k] = t[k - Len(s)] /\ (s \o t)[k - 1] = t[(k - Len(s)) - 1]
      BY <1>2, <3>1
    <3>. QED
      BY <1>3, <3>1, <3>2 DEF CallSeqs, Follows
  <2>. QED
    BY <1>2, <2>1, <2>2, <2>3
<1>4. ASSUME s \o t # <<>> PROVE (s \o t)[1].op # "cutPolicy"
  <2>1. CASE s = <<>>
    BY <1>1, <1>4, <2>1 DEF CallSeqs
  <2>2. CASE s # <<>>
    BY <1>1, <1>2, <2>2 DEF CallSeqs
  <2>. QED
    BY <2>1, <2>2
<1>5. s # <<>> \/ t # <<>> => s \o t # <<>>
  BY <1>1, <1>2
<1>. QED
  BY <1>1, <1>3, <1>4, <1>5 DEF CallSeqs, Follows

\* One call that does not cut a policy, and none.
LEMMA OneCall ==
    ASSUME NEW ph, NEW c \in CallType(ph), c.op # "cutPolicy"
    PROVE  <<c>> \in CallSeqs(ph) \ {<<>>}
BY DEF CallSeqs, Follows

\* No call at all.
LEMMA NoCall == \A ph : <<>> \in CallSeqs(ph)
BY DEF CallSeqs, Follows

\* The policies' functions: three calls in a row.
LEMMA ThreeCalls ==
    ASSUME NEW ph, NEW c \in CallType(ph), NEW d \in CallType(ph), NEW e \in CallType(ph),
           c.op # "cutPolicy", d.op = "cutPolicy" => c.op = "infoToRemove", e.op # "cutPolicy"
    PROVE  <<c, d, e>> \in CallSeqs(ph) \ {<<>>}
<1>1. <<c, d, e>> \in Seq(CallType(ph)) /\ Len(<<c, d, e>>) = 3
  OBVIOUS
<1>2. Follows(<<c, d, e>>)
  BY DEF Follows
<1>. QED
  BY <1>1, <1>2 DEF CallSeqs

\* Two calls in a row.
LEMMA TwoCalls ==
    ASSUME NEW ph, NEW c \in CallType(ph), NEW d \in CallType(ph), c.op # "cutPolicy", d.op # "cutPolicy"
    PROVE  <<c, d>> \in CallSeqs(ph) \ {<<>>}
<1>1. <<c, d>> \in Seq(CallType(ph)) /\ Len(<<c, d>>) = 2
  OBVIOUS
<1>2. Follows(<<c, d>>)
  BY DEF Follows
<1>. QED
  BY <1>1, <1>2 DEF CallSeqs

\* The calls by which minio.go handles buckets.
LEMMA BucketCalls ==
    ASSUME NEW ph, NEW b \in Buckets, NEW there \in BOOLEAN, NEW s \in Services, NEW o \in Owners
    PROVE  /\ CreateS3Path(b, there) \in CallSeqs(ph) \ {<<>>}
           /\ CreateS3PathWithWebhook(b, s) \in CallSeqs(ph) \ {<<>>}
           /\ disableInputNotifications(b, s) \in CallSeqs(ph) \ {<<>>}
           /\ SetTags(b, o) \in CallSeqs(ph) \ {<<>>}
           /\ DeleteBucket(b) \in CallSeqs(ph) \ {<<>>}
<1>1. /\ Call1("makeBucket", b) \in CallType(ph) /\ Call1("folder", b) \in CallType(ph)
      /\ Call1("getNotif", b) \in CallType(ph)
      /\ Call("addNotif", b, s, {}) \in CallType(ph) /\ Call("removeNotif", b, s, {}) \in CallType(ph)
      /\ Call("tag", b, o, {}) \in CallType(ph)
      /\ Call1("empty", b) \in CallType(ph) /\ Call1("removeBucket", b) \in CallType(ph)
  BY DEF CallType, Call1, Call
<1>2. \A x, y, z, us : Call(x, y, z, us).op = x /\ Call1(x, y).op = x
  BY DEF Call, Call1
<1>3. createBucket(b) \in CallSeqs(ph) /\ <<Call1("folder", b)>> \in CallSeqs(ph) \ {<<>>}
  BY <1>1, <1>2, OneCall DEF createBucket
<1>4. CreateS3Path(b, there) \in CallSeqs(ph) \ {<<>>} /\ CreateS3Path(b, FALSE) \in CallSeqs(ph)
  BY <1>3, CallsConcat, NoCall DEF CreateS3Path
<1>5. <<Call1("getNotif", b), Call("addNotif", b, s, {})>> \in CallSeqs(ph) \ {<<>>}
  BY <1>1, <1>2, TwoCalls
<1>6. <<Call1("getNotif", b), Call("removeNotif", b, s, {})>> \in CallSeqs(ph) \ {<<>>}
  BY <1>1, <1>2, TwoCalls
<1>7. CreateS3PathWithWebhook(b, s) \in CallSeqs(ph) \ {<<>>}
  BY <1>4, <1>5, CallsConcat DEF CreateS3PathWithWebhook, enableInputNotification
<1>8. SetTags(b, o) \in CallSeqs(ph) \ {<<>>}
  BY <1>1, <1>2, OneCall DEF SetTags
<1>9. DeleteBucket(b) \in CallSeqs(ph) \ {<<>>}
  BY <1>1, <1>2, TwoCalls DEF DeleteBucket
<1>. QED
  BY <1>4, <1>6, <1>7, <1>8, <1>9 DEF disableInputNotifications

\* The calls by which it handles policies and groups.
LEMMA PolicyCalls ==
    ASSUME NEW ph, NEW b \in Buckets, NEW p \in Principals, NEW us \in SUBSET Listed, NEW vis
    PROVE  /\ CreateAddPolicy(b, p) \in CallSeqs(ph) \ {<<>>}
           /\ RemoveResource(b, p) \in CallSeqs(ph) \ {<<>>}
           /\ CreateAddGroup(b, us, TRUE) \in CallSeqs(ph) \ {<<>>}
           /\ SetPolicies(b, vis, p, us) \in CallSeqs(ph) \ {<<>>}
           /\ UnsetPolicies(b, vis, p) \in CallSeqs(ph) \ {<<>>}
           /\ UpdateServiceGroup(b, us) \in CallSeqs(ph) \ {<<>>}
           /\ SeeVisibility(p, b) \in CallSeqs(ph) \ {<<>>}
<1>1. b \in Groups /\ b \in Principals /\ AllUsers \in Principals
  BY DEF Groups, Principals
<1>2. \A x, y, z, vs : Call(x, y, z, vs).op = x
  BY DEF Call
<1>3. ASSUME NEW q \in Principals
      PROVE  CreateAddPolicy(b, q) \in CallSeqs(ph) \ {<<>>} /\ RemoveResource(b, q) \in CallSeqs(ph) \ {<<>>}
  <2>1. /\ Call("infoToAdd", b, q, {}) \in CallType(ph) /\ Call("addPolicy", b, q, {}) \in CallType(ph)
        /\ Call("infoToRemove", b, q, {}) \in CallType(ph) /\ Call("cutPolicy", b, q, {}) \in CallType(ph)
        /\ Call("setPolicy", b, q, {}) \in CallType(ph)
    BY DEF CallType, Call
  <2>2. CreateAddPolicy(b, q) \in CallSeqs(ph) \ {<<>>}
    BY <1>2, <2>1, ThreeCalls DEF CreateAddPolicy
  <2>3. RemoveResource(b, q) \in CallSeqs(ph) \ {<<>>}
    BY <1>2, <2>1, ThreeCalls DEF RemoveResource
  <2>. QED
    BY <2>2, <2>3
<1>4. ASSUME NEW vs \in SUBSET Listed, NEW remove \in BOOLEAN
      PROVE  CreateAddGroup(b, vs, remove) \in CallSeqs(ph) \ {<<>>}
  <2>1. Call(IF remove THEN "removeMembers" ELSE "addMembers", None, b, vs) \in CallType(ph)
    BY <1>1 DEF CallType, Call
  <2>. QED
    BY <1>2, <2>1, OneCall DEF CreateAddGroup
<1>5. /\ Call("members", None, b, {}) \in CallType(ph)
      /\ Call("removeFound", None, b, {}) \in CallType(ph)
      /\ Call("removeOthers", None, b, us) \in CallType(ph)
      /\ Call("removePolicy", None, b, {}) \in CallType(ph)
  BY <1>1 DEF CallType, Call
<1>6. RemoveGroupPolicy(b) \in CallSeqs(ph)
  <2>1. <<Call("members", None, b, {}), Call("removeFound", None, b, {})>> \in CallSeqs(ph)
    BY <1>2, <1>5, TwoCalls
  <2>2. CreateAddGroup(b, {}, TRUE) \in CallSeqs(ph)
    BY <1>4
  <2>3. <<Call("removePolicy", None, b, {})>> \in CallSeqs(ph)
    BY <1>2, <1>5, OneCall
  <2>. QED
    BY <2>1, <2>2, <2>3, CallsConcat DEF RemoveGroupPolicy
<1>7. SetPolicies(b, vis, p, us) \in CallSeqs(ph) \ {<<>>}
  <2>1. /\ CreateAddPolicy(b, p) \in CallSeqs(ph) \ {<<>>}
        /\ CreateAddPolicy(b, b) \in CallSeqs(ph)
        /\ CreateAddPolicy(b, AllUsers) \in CallSeqs(ph) \ {<<>>}
    BY <1>1, <1>3
  <2>2. CreateAddGroup(b, us, FALSE) \o CreateAddPolicy(b, b) \in CallSeqs(ph)
    BY <1>4, <2>1, CallsConcat
  <2>. QED
    BY <2>1, <2>2, CallsConcat, NoCall DEF SetPolicies
<1>8. UnsetPolicies(b, vis, p) \in CallSeqs(ph) \ {<<>>}
  <2>1. RemoveResource(b, IF vis = "public" THEN AllUsers ELSE p) \in CallSeqs(ph) \ {<<>>}
    BY <1>1, <1>3
  <2>. QED
    BY <1>6, <2>1, CallsConcat, NoCall DEF UnsetPolicies
<1>9. UpdateServiceGroup(b, us) \in CallSeqs(ph) \ {<<>>}
  <2>1. <<Call("members", None, b, {}), Call("removeOthers", None, b, us)>> \in CallSeqs(ph) \ {<<>>}
    BY <1>2, <1>5, TwoCalls
  <2>2. CreateAddGroup(b, us, FALSE) \in CallSeqs(ph)
    BY <1>4
  <2>. QED
    BY <2>1, <2>2, CallsConcat DEF UpdateServiceGroup
<1>10. SeeVisibility(p, b) \in CallSeqs(ph) \ {<<>>}
  <2>1. /\ Call("see", b, p, {}) \in CallType(ph) /\ Call("see", b, b, {}) \in CallType(ph)
        /\ Call("see", b, AllUsers, {}) \in CallType(ph)
    BY <1>1 DEF CallType, Call
  <2>. QED
    BY <1>2, <2>1, ThreeCalls DEF SeeVisibility
<1>. QED
  BY <1>3, <1>4, <1>7, <1>8, <1>9, <1>10

\* The calls about webhooks.
LEMMA WebhookCalls ==
    ASSUME NEW ph, NEW s \in Services
    PROVE  /\ registerMinIOWebhook(s) \in CallSeqs(ph) \ {<<>>}
           /\ removeMinIOWebhook(s) \in CallSeqs(ph) \ {<<>>}
<1>1. /\ Call("webhook", None, s, {}) \in CallType(ph) /\ Call("unwebhook", None, s, {}) \in CallType(ph)
      /\ Call1("restart", None) \in CallType(ph) /\ Call1("serverInfo", None) \in CallType(ph)
  BY DEF CallType, Call1, Call
<1>2. \A x, y, z, us : Call(x, y, z, us).op = x /\ Call1(x, y).op = x
  BY DEF Call, Call1
<1>3. RestartServer \in CallSeqs(ph) \ {<<>>}
  BY <1>1, <1>2, TwoCalls DEF RestartServer
<1>4. RegisterWebhook(s) \in CallSeqs(ph) /\ RemoveWebhook(s) \in CallSeqs(ph)
  BY <1>1, <1>2, OneCall DEF RegisterWebhook, RemoveWebhook
<1>. QED
  BY <1>3, <1>4, CallsConcat DEF registerMinIOWebhook, removeMinIOWebhook

\* A block of each kind.
LEMMA BlockKinds ==
    ASSUME NEW ph, NEW calls \in CallSeqs(ph) \ {<<>>}, NEW upd \in BOOLEAN
    PROVE  /\ OrStop(calls) \in Seq(Blocks(ph)) /\ OrWrite(calls) \in Seq(Blocks(ph))
           /\ OrLog(calls) \in Seq(Blocks(ph)) /\ OrUpdate(calls, upd) \in Seq(Blocks(ph))
           /\ <<Block(calls, IF upd THEN 2 ELSE 0, TRUE)>> \in Seq(Blocks(ph))
<1>1. \A k \in Nat, log \in BOOLEAN : Block(calls, k, log) \in Blocks(ph)
  BY DEF Block, Blocks
<1>2. \A x \in Blocks(ph) : <<x>> \in Seq(Blocks(ph))
  OBVIOUS
<1>3. OrStop(calls) \in Seq(Blocks(ph)) /\ OrWrite(calls) \in Seq(Blocks(ph)) /\ OrLog(calls) \in Seq(Blocks(ph))
  BY <1>1, <1>2 DEF OrStop, OrWrite, OrLog
<1>. QED
  BY <1>1, <1>2, <1>3 DEF OrUpdate

\* Blocks after blocks.
LEMMA BlocksConcat ==
    ASSUME NEW ph, NEW s \in Seq(Blocks(ph)), NEW t \in Seq(Blocks(ph))
    PROVE  s \o t \in Seq(Blocks(ph))
OBVIOUS

\* Within changes only what an error skips.
LEMMA WithinType ==
    ASSUME NEW ph, NEW s \in Seq(Blocks(ph)), NEW log \in BOOLEAN
    PROVE  Within(s, log) \in Seq(Blocks(ph))
<1>1. Within(s, log) \in [1..Len(s) -> Blocks(ph)]
  <2>1. \A i \in 1..Len(s) : s[i] \in Blocks(ph) /\ Len(s) - i + 1 \in Nat
    OBVIOUS
  <2>2. \A i \in 1..Len(s) : Block(s[i].calls, Len(s) - i + 1, log) \in Blocks(ph)
    BY <2>1 DEF Block, Blocks
  <2>. QED
    BY <2>1, <2>2 DEF Within
<1>. QED
  BY <1>1, FunctionIsSeq

\* A list gives one sequence of sequences of blocks.
LEMMA ListType ==
    ASSUME NEW ph, NEW S, NEW us \in Seq(S), NEW g \in [DOMAIN us -> Seq(Blocks(ph))]
    PROVE  FlattenSeq(g) \in Seq(Blocks(ph))
<1>1. g \in [1..Len(us) -> Seq(Blocks(ph))] /\ Len(us) \in Nat
  OBVIOUS
<1>2. g \in Seq(Seq(Blocks(ph)))
  BY <1>1, FunctionIsSeq
<1>. QED
  BY <1>2, FlattenType

\* The list of users' buckets goes with an input bucket.
GoodService == {v \in StoredService : v.list # <<>> => v.def.in # None}

\* The bucket of a user.
LEMMA UserBucketType ==
    ASSUME NEW b \in Plain, NEW u \in Users
    PROVE  UserBucket(b, u) \in Buckets /\ b \in Buckets
BY DEF Buckets, Plain

\* What a create or an update makes.
LEMMA CreateBlocks ==
    ASSUME NEW ph, NEW s \in Services, NEW d \in ServiceDefinition, NEW us \in Seq(Users),
           us # <<>> => d.in # None, NEW upd \in BOOLEAN, ph \in {"createService", "updateService"}
    PROVE  createBuckets(s, d, us, upd) \in Seq(Blocks(ph))
<1>. DEFINE isolated(u) == <<Block(CreateS3PathWithWebhook(UserBucket(d.in, u), s), IF upd THEN 2 ELSE 0, TRUE)>>
                           \o OrStop(<<Call("isolate", UserBucket(d.in, u), u, {})>>)
            folder(u) == OrUpdate(CreateS3Path(UserBucket(d.in, u), TRUE), upd)
            In == OrUpdate(CreateS3PathWithWebhook(d.in, s), upd) \o ForEach(us, isolated)
            Out == OrUpdate(CreateS3Path(d.out, d.out = d.in), upd) \o ForEach(us, folder)
            Mnt == IF d.mount \in {d.in, d.out} THEN OrUpdate(CreateS3Path(d.mount, TRUE), upd)
                   ELSE OrStop(<<Call1("mount", d.mount)>>)
<1>1. createBuckets(s, d, us, upd) =
         (IF d.in = None THEN <<>> ELSE In) \o (IF d.out = None THEN <<>> ELSE Out)
         \o (IF d.mount = None THEN <<>> ELSE Mnt)
  BY DEF createBuckets
<1>2. /\ d.in \in Names \cup {None} /\ d.out \in Names \cup {None} /\ d.mount \in Names \cup {None}
      /\ Names \subseteq Buckets /\ (d.in # None => d.in \in Plain)
  BY DEF ServiceDefinition, MaybeBucket, Plain, Buckets
<1>3. ASSUME d.in # None, NEW u \in Users
      PROVE  isolated(u) \in Seq(Blocks(ph)) /\ folder(u) \in Seq(Blocks(ph))
  <2>1. UserBucket(d.in, u) \in Buckets
    BY <1>2, <1>3, UserBucketType
  <2>2. Call("isolate", UserBucket(d.in, u), u, {}) \in CallType(ph)
    BY <2>1 DEF Call, CallType
  <2>3. <<Call("isolate", UserBucket(d.in, u), u, {})>> \in CallSeqs(ph) \ {<<>>}
    BY <2>2, OneCall DEF Call
  <2>4. Nobody \in Owners
    BY DEF Owners
  <2>. QED
    BY <2>1, <2>3, <2>4, BucketCalls, BlockKinds, BlocksConcat
<1>4. ForEach(us, isolated) \in Seq(Blocks(ph)) /\ ForEach(us, folder) \in Seq(Blocks(ph))
  <2>1. \A i \in DOMAIN us : us[i] \in Users /\ d.in # None
    OBVIOUS
  <2>2. [i \in DOMAIN us |-> isolated(us[i])] \in [DOMAIN us -> Seq(Blocks(ph))]
    BY <1>3, <2>1
  <2>3. [i \in DOMAIN us |-> folder(us[i])] \in [DOMAIN us -> Seq(Blocks(ph))]
    BY <1>3, <2>1
  <2>4. FlattenSeq([i \in DOMAIN us |-> isolated(us[i])]) \in Seq(Blocks(ph))
    BY ONLY <2>2, us \in Seq(Users), ListType
  <2>5. FlattenSeq([i \in DOMAIN us |-> folder(us[i])]) \in Seq(Blocks(ph))
    BY ONLY <2>3, us \in Seq(Users), ListType
  <2>. QED
    BY <2>4, <2>5 DEF ForEach
<1>5. d.in # None => In \in Seq(Blocks(ph))
  <2>1. Nobody \in Owners
    BY DEF Owners
  <2>. QED
    BY <1>2, <1>4, <2>1, BucketCalls, BlockKinds, BlocksConcat
<1>6. d.out # None => Out \in Seq(Blocks(ph))
  <2>1. Nobody \in Owners /\ (d.out = d.in) \in BOOLEAN
    BY DEF Owners
  <2>. QED
    BY <1>2, <1>4, <2>1, BucketCalls, BlockKinds, BlocksConcat
<1>7. d.mount # None => Mnt \in Seq(Blocks(ph))
  <2>. SUFFICES ASSUME d.mount \in Buckets PROVE Mnt \in Seq(Blocks(ph))
    BY <1>2
  <2>1. Nobody \in Owners
    BY DEF Owners
  <2>2. Call1("mount", d.mount) \in CallType(ph) /\ Call1("mount", d.mount).op # "cutPolicy"
    BY DEF Call1, Call, CallType, JobOps
  <2>3. OrStop(<<Call1("mount", d.mount)>>) \in Seq(Blocks(ph))
    BY <2>2, OneCall, BlockKinds
  <2>4. OrUpdate(CreateS3Path(d.mount, TRUE), upd) \in Seq(Blocks(ph))
    BY <2>1, BucketCalls, BlockKinds
  <2>. QED
    BY <2>3, <2>4
<1>. HIDE DEF In, Out, Mnt
<1>. QED
  BY <1>1, <1>5, <1>6, <1>7

\* The calls that delete a bucket and take back who may use it.
LEMMA DeleteCalls ==
    ASSUME NEW ph, NEW b \in Buckets, NEW vis, NEW o \in Owners
    PROVE  DeleteMinIOBuckets(b, vis, o) \in CallSeqs(ph) \ {<<>>}
<1>1. o \in Principals
  BY DEF Owners, Principals
<1>2. DeleteBucket(b) \in CallSeqs(ph) \ {<<>>}
  <2>1. Call1("empty", b) \in CallType(ph) /\ Call1("removeBucket", b) \in CallType(ph)
    BY DEF CallType, Call1, Call
  <2>. QED
    BY <2>1, TwoCalls DEF DeleteBucket, Call1, Call
<1>3. UnsetPolicies(b, vis, o) \in CallSeqs(ph)
  BY <1>1, PolicyCalls
<1>. QED
  BY <1>2, <1>3, CallsConcat, NoCall DEF DeleteMinIOBuckets

\* The users' buckets of a service that is deleted, and what is taken back from them.
LEMMA UserBlocks ==
    ASSUME NEW ph, NEW s \in Services, NEW b \in Buckets, NEW vis, NEW o \in Owners
    PROVE  /\ OrLog(disableInputNotifications(b, s)) \in Seq(Blocks(ph))
           /\ OrLog(DeleteMinIOBuckets(b, vis, o)) \in Seq(Blocks(ph))
           /\ OrStop(DeleteMinIOBuckets(b, vis, o)) \in Seq(Blocks(ph))
           /\ OrStop(SetTags(b, o)) \in Seq(Blocks(ph))
BY BucketCalls, DeleteCalls, BlockKinds

\* What a delete, or a create that is undone, deletes.
LEMMA DeleteBlocks ==
    ASSUME NEW ph, NEW s \in Services, NEW v \in GoodService
    PROVE  deleteBuckets(s, v) \in Seq(Blocks(ph))
<1>. DEFINE d == v.def
            one(b) == OrLog(disableInputNotifications(b, s))
                      \o OrStop(IF b = d.mount THEN SetTags(b, v.owner)
                                               ELSE DeleteMinIOBuckets(b, d.vis, v.owner))
            user(u) == OrLog(disableInputNotifications(UserBucket(d.in, u), s))
                       \o OrLog(DeleteMinIOBuckets(UserBucket(d.in, u), "private", v.owner))
            All == ForEach(v.list, user)
            In == one(d.in)
            Out == one(d.out)
<1>1. deleteBuckets(s, v) =
         (IF d.in = None THEN <<>> ELSE In) \o (IF d.out \in {None, d.in} THEN <<>> ELSE Out) \o All
  BY DEF deleteBuckets
<1>2. /\ d.in \in Names \cup {None} /\ d.out \in Names \cup {None} /\ Names \subseteq Buckets
      /\ v.owner \in Owners /\ v.list \in Seq(Users) /\ (v.list # <<>> => d.in \in Plain)
  BY DEF GoodService, StoredService, ServiceDefinition, MaybeBucket, Plain, Buckets, Owners
<1>3. ASSUME NEW b \in Buckets PROVE one(b) \in Seq(Blocks(ph))
  <2>1. OrStop(IF b = d.mount THEN SetTags(b, v.owner)
               ELSE DeleteMinIOBuckets(b, d.vis, v.owner)) \in Seq(Blocks(ph))
    BY <1>2, UserBlocks
  <2>. QED
    BY <1>2, <2>1, UserBlocks, BlocksConcat
<1>4. All \in Seq(Blocks(ph))
  <2>1. ASSUME NEW i \in DOMAIN v.list PROVE user(v.list[i]) \in Seq(Blocks(ph))
    <3>1. v.list[i] \in Users /\ d.in \in Plain
      BY <1>2
    <3>2. UserBucket(d.in, v.list[i]) \in Buckets
      BY <3>1, UserBucketType
    <3>. QED
      BY <1>2, <3>2, UserBlocks, BlocksConcat
  <2>2. [i \in DOMAIN v.list |-> user(v.list[i])] \in [DOMAIN v.list -> Seq(Blocks(ph))]
    BY <2>1
  <2>3. FlattenSeq([i \in DOMAIN v.list |-> user(v.list[i])]) \in Seq(Blocks(ph))
    BY ONLY <1>2, <2>2, ListType
  <2>. QED
    BY <2>3 DEF ForEach
<1>5. d.in # None => In \in Seq(Blocks(ph))
  BY <1>2, <1>3
<1>6. d.out # None => Out \in Seq(Blocks(ph))
  BY <1>2, <1>3
<1>. HIDE DEF In, Out, All
<1>. QED
  BY <1>1, <1>4, <1>5, <1>6

\* The buckets of a definition.
LEMMA BucketsOfType ==
    ASSUME NEW d \in ServiceDefinition
    PROVE  BucketsOf(d) \in Seq(Names)
<1>1. d.in \in Names \cup {None} /\ d.out \in Names \cup {None} /\ d.mount \in Names \cup {None}
  BY DEF ServiceDefinition, MaybeBucket, Plain
<1>2. /\ (IF d.in = None THEN <<>> ELSE <<d.in>>) \in Seq(Names)
      /\ (IF d.out \in {None, d.in} THEN <<>> ELSE <<d.out>>) \in Seq(Names)
      /\ (IF d.mount \in {None, d.in, d.out} THEN <<>> ELSE <<d.mount>>) \in Seq(Names)
  BY <1>1
<1>. QED
  BY <1>2 DEF BucketsOf

\* What an update does.
LEMMA UpdateBlocksType ==
    ASSUME NEW ph, NEW s \in Services, NEW v \in GoodService, NEW w \in GoodService,
           ph = "updateService"
    PROVE  UpdateBlocks(s, v, w) \in Seq(Blocks(ph))
<1>. DEFINE d == w.def
            drop(u) == LET b == UserBucket(v.def.in, u)
                       IN  IF \E x \in ToSet(w.list) : UserBucket(d.in, x) = b THEN <<>>
                           ELSE OrLog(disableInputNotifications(b, s))
                                \o OrLog(DeleteMinIOBuckets(b, "private", v.owner))
            old == {v.def.in, v.def.out} \ {None}
            new == BucketsOf(d)
            us == ToSet(d.allowed)
            share(b) ==
                IF b \notin old
                THEN OrWrite(SetPolicies(b, d.vis, w.owner, us)) \o OrStop(registerMinIOWebhook(s))
                ELSE IF v.def.vis # d.vis
                THEN OrWrite(UnsetPolicies(b, v.def.vis, v.owner))
                     \o OrWrite(SetPolicies(b, IF d.vis = Unset THEN "private" ELSE d.vis, w.owner, us))
                ELSE IF d.vis = "restricted" THEN OrWrite(UpdateServiceGroup(b, us)) ELSE <<>>
            unused(b) == OrWrite(SetPolicies(b, "private", Nobody, {}))
            Drops == ForEach(v.list, drop)
            Shares == ForEach(new, share)
            Rest1 == ForEach(SetToSeq(old \ ToSet(new)), unused)
            End == OrStop(<<Call1("replace", None)>>)
<1>1. UpdateBlocks(s, v, w) = Drops \o createBuckets(s, d, w.list, TRUE) \o Shares \o Rest1 \o End
  BY DEF UpdateBlocks
<1>2. /\ v.def.in \in Names \cup {None} /\ v.def.out \in Names \cup {None} /\ Names \subseteq Buckets
      /\ v.owner \in Owners /\ v.list \in Seq(Users) /\ (v.list # <<>> => v.def.in \in Plain)
      /\ w.owner \in Owners /\ d \in ServiceDefinition /\ d.allowed \in Seq(Listed)
      /\ w.list \in Seq(Users) /\ (w.list # <<>> => d.in # None)
  BY DEF GoodService, StoredService, ServiceDefinition, MaybeBucket, Plain, Buckets, Owners
<1>3. us \in SUBSET Listed /\ {} \in SUBSET Listed
  BY <1>2 DEF ToSet
<1>4. Owners \subseteq Principals /\ Nobody \in Principals
  BY DEF Owners, Principals
<1>5. Drops \in Seq(Blocks(ph))
  <2>1. ASSUME NEW i \in DOMAIN v.list PROVE drop(v.list[i]) \in Seq(Blocks(ph))
    <3>1. v.list[i] \in Users /\ v.def.in \in Plain
      BY <1>2
    <3>2. UserBucket(v.def.in, v.list[i]) \in Buckets
      BY <3>1, UserBucketType
    <3>3. OrLog(disableInputNotifications(UserBucket(v.def.in, v.list[i]), s))
            \o OrLog(DeleteMinIOBuckets(UserBucket(v.def.in, v.list[i]), "private", v.owner)) \in Seq(Blocks(ph))
      BY <1>2, <3>2, UserBlocks, BlocksConcat
    <3>. QED
      BY <3>3
  <2>2. [i \in DOMAIN v.list |-> drop(v.list[i])] \in [DOMAIN v.list -> Seq(Blocks(ph))]
    BY <2>1
  <2>3. FlattenSeq([i \in DOMAIN v.list |-> drop(v.list[i])]) \in Seq(Blocks(ph))
    BY ONLY <1>2, <2>2, ListType
  <2>. QED
    BY <2>3 DEF ForEach
<1>6. createBuckets(s, d, w.list, TRUE) \in Seq(Blocks(ph))
  BY <1>2, CreateBlocks
<1>7. new \in Seq(Names)
  BY <1>2, BucketsOfType
<1>8. Shares \in Seq(Blocks(ph))
  <2>1. ASSUME NEW b \in Names PROVE share(b) \in Seq(Blocks(ph))
    <3>1. \A vis : OrWrite(SetPolicies(b, vis, w.owner, us)) \in Seq(Blocks(ph))
      BY <1>2, <1>3, <1>4, PolicyCalls, BlockKinds
    <3>2. OrStop(registerMinIOWebhook(s)) \in Seq(Blocks(ph))
      BY WebhookCalls, BlockKinds
    <3>3. OrWrite(UnsetPolicies(b, v.def.vis, v.owner)) \in Seq(Blocks(ph))
      BY <1>2, <1>3, <1>4, PolicyCalls, BlockKinds
    <3>4. OrWrite(UpdateServiceGroup(b, us)) \in Seq(Blocks(ph))
      BY <1>2, <1>3, <1>4, PolicyCalls, BlockKinds
    <3>5. OrWrite(SetPolicies(b, d.vis, w.owner, us)) \o OrStop(registerMinIOWebhook(s)) \in Seq(Blocks(ph))
      BY <3>1, <3>2, BlocksConcat
    <3>6. OrWrite(UnsetPolicies(b, v.def.vis, v.owner))
            \o OrWrite(SetPolicies(b, IF d.vis = Unset THEN "private" ELSE d.vis, w.owner, us)) \in Seq(Blocks(ph))
      BY <3>1, <3>3, BlocksConcat
    <3>. QED
      BY <3>4, <3>5, <3>6
  <2>2. [i \in DOMAIN new |-> share(new[i])] \in [DOMAIN new -> Seq(Blocks(ph))]
    <3>. HIDE DEF share, new
    <3>. QED
      BY <1>7, <2>1
  <2>3. FlattenSeq([i \in DOMAIN new |-> share(new[i])]) \in Seq(Blocks(ph))
    <3>. HIDE DEF share, new
    <3>. QED
      BY <1>7, <2>2, ListType
  <2>. QED
    BY <2>3 DEF ForEach
<1>9. Rest1 \in Seq(Blocks(ph))
  <2>. DEFINE gone == SetToSeq(old \ ToSet(new))
  <2>1. gone \in Seq(Names)
    <3>1. IsFiniteSet(old \ ToSet(new)) /\ old \ ToSet(new) \subseteq Names
      <4>1. IsFiniteSet({v.def.in}) /\ IsFiniteSet({v.def.out})
        BY FS_Singleton
      <4>2. IsFiniteSet({v.def.in} \cup {v.def.out})
        BY <4>1, FS_Union
      <4>3. old \ ToSet(new) \subseteq {v.def.in} \cup {v.def.out}
        OBVIOUS
      <4>. QED
        BY <1>2, <4>2, <4>3, FS_Subset
    <3>2. gone \in Seq(old \ ToSet(new))
      BY <3>1, SetToSeqType
    <3>. HIDE DEF gone, old, new
    <3>. QED
      BY <3>1, <3>2
  <2>2. ASSUME NEW b \in Names PROVE unused(b) \in Seq(Blocks(ph))
    BY <1>2, <1>3, <1>4, PolicyCalls, BlockKinds
  <2>. HIDE DEF gone, unused
  <2>3. [i \in DOMAIN gone |-> unused(gone[i])] \in [DOMAIN gone -> Seq(Blocks(ph))]
    BY <2>1, <2>2
  <2>4. FlattenSeq([i \in DOMAIN gone |-> unused(gone[i])]) \in Seq(Blocks(ph))
    BY <2>1, <2>3, ListType
  <2>. QED
    BY <2>4 DEF ForEach, gone
<1>10. End \in Seq(Blocks(ph))
  <2>1. Call1("replace", None) \in CallType(ph) /\ Call1("replace", None).op # "cutPolicy"
    BY DEF Call1, Call, CallType, StoreOps
  <2>. QED
    BY <2>1, OneCall, BlockKinds
<1>. DEFINE Made == createBuckets(s, d, w.list, TRUE)
<1>. HIDE DEF Drops, Made, Shares, Rest1, End
<1>11. Drops \o Made \o Shares \in Seq(Blocks(ph))
  BY <1>5, <1>6, <1>8, BlocksConcat DEF Made
<1>. QED
  BY <1>1, <1>9, <1>10, <1>11, BlocksConcat DEF Made

-----------------------------------------------------------------------------
(* The invariant: besides the types, what each request is about and the     *)
(* blocks that it has still to do.                                          *)

AskType == [vis : Visibilities, allowed : Seq(Listed)]
ServicePhases == {"createService", "rollback", "updateService", "deleteService"}

JobOK(r) ==
    /\ phase[r] \in BucketPhases => job[r].b \in Names /\ job[r].client \in Owners
    /\ phase[r] \in {"createBucket", "updateBucket"} => job[r].def \in AskType
    /\ phase[r] \in ServicePhases => job[r].s \in Services /\ job[r].def \in GoodService
    /\ phase[r] = "updateService" => job[r].old \in GoodService

\* Only the first call of all may cut a policy that was read before.
PlanOK(r) ==
    /\ todo[r] \in Seq(LooseBlocks(phase[r]))
    /\ \A k \in 1..Len(todo[r]) :
          todo[r][k].calls[1].op = "cutPolicy" => k = 1 /\ got[r].pol # None

Plans == \A r \in Reqs : PlanOK(r) /\ (todo[r] # <<>> => JobOK(r))
ServicesOK == \A s \in Services : svc[s] # None => svc[s] \in GoodService
IInv == TypeOK /\ Plans /\ ServicesOK

\* A block is a loose one.
LEMMA BlocksAreLoose ==
    ASSUME NEW ph
    PROVE  /\ Blocks(ph) \subseteq LooseBlocks(ph)
           /\ \A k \in Blocks(ph) : k.calls[1].op # "cutPolicy"
           /\ \A k \in LooseBlocks(ph) : k.calls[1].op # "cutPolicy" => k \in Blocks(ph)
BY DEF Blocks, LooseBlocks, CallSeqs

\* A request's plan that nothing has been done of.
LEMMA FreshPlan ==
    ASSUME NEW ph, NEW s \in Seq(Blocks(ph))
    PROVE  /\ s \in Seq(LooseBlocks(ph))
           /\ \A k \in 1..Len(s) : s[k].calls[1].op # "cutPolicy"
BY BlocksAreLoose

\* What is left of a sequence when its beginning is skipped.
LEMMA SkipType ==
    ASSUME NEW S, NEW s \in Seq(S), NEW m \in Nat
    PROVE  LET x == SubSeq(s, m + 1, Len(s))
           IN  x \in Seq(S) /\ \A i \in 1..Len(x) : i + m \in 1..Len(s) /\ x[i] = s[i + m]
<1>. DEFINE n == Len(s)
            x == SubSeq(s, m + 1, n)
<1>1. n \in Nat /\ \A i \in (m + 1)..n : s[i] \in S
  OBVIOUS
<1>2. m + 1 \in Int /\ n \in Int
  BY <1>1
<1>. HIDE DEF n
<1>3. /\ x \in Seq(S) /\ Len(x) = IF m + 1 <= n THEN n - (m + 1) + 1 ELSE 0
      /\ \A i \in 1..(n - (m + 1) + 1) : x[i] = s[m + 1 + i - 1]
  BY <1>1, <1>2, SubSeqProperties
<1>. HIDE DEF x
<1>4. ASSUME NEW i \in 1..Len(x) PROVE i + m \in 1..n /\ x[i] = s[i + m]
  <2>1. m + 1 <= n /\ i \in 1..(n - (m + 1) + 1) /\ i + m \in 1..n /\ m + 1 + i - 1 = i + m
    BY <1>1, <1>3
  <2>. QED
    BY <1>3, <2>1
<1>. QED
  BY <1>3, <1>4 DEF x, n

\* The call of a request and what comes after it.
LEMMA CallAndRest ==
    ASSUME NEW r \in Reqs, PlanOK(r), todo[r] # <<>>
    PROVE  /\ Head(todo[r]) = todo[r][1] /\ Head(todo[r]) \in LooseBlocks(phase[r])
           /\ C(r) = todo[r][1].calls[1] /\ C(r) \in CallType(phase[r])
           /\ C(r).op = "cutPolicy" => got[r].pol # None
           /\ Rest(r) \in Seq(LooseBlocks(phase[r]))
           /\ \A k \in 1..Len(Rest(r)) :
                 Rest(r)[k].calls[1].op = "cutPolicy" => k = 1 /\ C(r).op = "infoToRemove"
<1>. DEFINE t == todo[r]
            ph == phase[r]
            k == t[1]
<1>1. /\ t \in Seq(LooseBlocks(ph)) /\ t # <<>> /\ Len(t) \in Nat \ {0}
      /\ \A i \in 1..Len(t) : t[i] \in LooseBlocks(ph)
      /\ \A i \in 1..Len(t) : t[i].calls[1].op = "cutPolicy" => i = 1 /\ got[r].pol # None
  BY DEF PlanOK
<1>. HIDE DEF t, ph
<1>2. Head(t) = k /\ k \in LooseBlocks(ph)
  BY <1>1
<1>3. Tail(t) \in Seq(LooseBlocks(ph)) /\ \A i \in 1..Len(Tail(t)) : Tail(t)[i].calls[1].op # "cutPolicy"
  <2>1. Tail(t) \in Seq(LooseBlocks(ph)) /\ Len(Tail(t)) = Len(t) - 1
    BY <1>1
  <2>2. \A i \in 1..Len(Tail(t)) : Tail(t)[i] = t[i + 1] /\ i + 1 \in 1..Len(t) /\ i + 1 # 1
    BY <1>1, <2>1
  <2>. QED
    BY <1>1, <2>1, <2>2
<1>. HIDE DEF k
<1>4. /\ k.calls \in Seq(CallType(ph)) /\ k.calls # <<>> /\ Follows(k.calls)
      /\ k.skip \in Nat /\ k.log \in BOOLEAN
      /\ k = [calls |-> k.calls, skip |-> k.skip, log |-> k.log]
  BY <1>2 DEF LooseBlocks
<1>5. Head(k.calls) = k.calls[1] /\ k.calls[1] \in CallType(ph)
  BY <1>4
<1>6. C(r) = k.calls[1]
  BY <1>2, <1>5 DEF C, t
<1>7. CASE Len(k.calls) = 1
  <2>1. Rest(r) = Tail(t)
    BY <1>2, <1>7 DEF Rest, t
  <2>. QED
    BY <1>1, <1>2, <1>3, <1>5, <1>6, <2>1 DEF t, ph, k
<1>8. CASE Len(k.calls) # 1
  <2>. DEFINE k1 == [k EXCEPT !.calls = Tail(@)]
  <2>1. Rest(r) = <<k1>> \o Tail(t)
    BY <1>2, <1>8 DEF Rest, t
  <2>2. /\ k1.calls = Tail(k.calls) /\ k1 = [calls |-> Tail(k.calls), skip |-> k.skip, log |-> k.log]
    BY <1>4
  <2>3. Len(k.calls) \in Nat /\ Len(k.calls) > 1 /\ Len(Tail(k.calls)) = Len(k.calls) - 1
    <3>. DEFINE cs == k.calls
    <3>1. cs \in Seq(CallType(ph)) /\ cs # <<>> /\ Len(cs) # 1
      BY <1>4, <1>8
    <3>. HIDE DEF cs
    <3>2. Len(cs) \in Nat \ {0}
      BY <3>1, EmptySeq
    <3>3. Len(Tail(cs)) = Len(cs) - 1
      BY <3>1, HeadTailProperties
    <3>4. Len(cs) \in Nat /\ Len(cs) > 1 /\ Len(Tail(cs)) = Len(cs) - 1
      BY <3>1, <3>2, <3>3
    <3>. QED
      BY <3>4 DEF cs
  <2>4. Tail(k.calls) \in Seq(CallType(ph)) /\ Tail(k.calls) # <<>>
    BY <1>4, <2>3
  <2>5. \A i \in 1..Len(Tail(k.calls)) : Tail(k.calls)[i] = k.calls[i + 1]
    BY <1>4, <2>3
  <2>6. Follows(Tail(k.calls))
    <3>. SUFFICES ASSUME NEW i \in 2..Len(Tail(k.calls)), Tail(k.calls)[i].op = "cutPolicy"
                  PROVE  Tail(k.calls)[i - 1].op = "infoToRemove"
      BY DEF Follows
    <3>1. /\ i + 1 \in 2..Len(k.calls) /\ (i + 1) - 1 = i
          /\ i \in 1..Len(Tail(k.calls)) /\ i - 1 \in 1..Len(Tail(k.calls)) /\ (i - 1) + 1 = i
      BY <2>3
    <3>2. k.calls[i + 1].op = "cutPolicy" /\ Tail(k.calls)[i - 1] = k.calls[i]
      BY <2>5, <3>1
    <3>. QED
      BY <1>4, <3>1, <3>2 DEF Follows
  <2>7. k1 \in LooseBlocks(ph)
    BY <1>4, <2>2, <2>4, <2>6 DEF LooseBlocks
  <2>8. k1.calls[1].op = "cutPolicy" => C(r).op = "infoToRemove"
    <3>1. k1.calls[1] = k.calls[2] /\ 2 \in 2..Len(k.calls) /\ 2 - 1 = 1
      BY <2>2, <2>3, <2>5
    <3>. QED
      BY <1>4, <1>6, <3>1 DEF Follows
  <2>. HIDE DEF k1
  <2>9. Rest(r) \in Seq(LooseBlocks(ph))
    BY <1>3, <2>1, <2>7
  <2>10. \A i \in 1..Len(Rest(r)) : Rest(r)[i] = IF i = 1 THEN k1 ELSE Tail(t)[i - 1]
    BY <1>3, <2>1, <2>7, <2>9, ConcatProperties
  <2>11. Len(Rest(r)) = Len(Tail(t)) + 1
    BY <1>3, <2>1
  <2>12. \A i \in 1..Len(Rest(r)) :
            Rest(r)[i].calls[1].op = "cutPolicy" => i = 1 /\ C(r).op = "infoToRemove"
    <3>. SUFFICES ASSUME NEW i \in 1..Len(Rest(r)), Rest(r)[i].calls[1].op = "cutPolicy"
                  PROVE  i = 1 /\ C(r).op = "infoToRemove"
      OBVIOUS
    <3>1. CASE i = 1
      BY <2>8, <2>10, <3>1
    <3>2. CASE i # 1
      <4>1. i - 1 \in 1..Len(Tail(t)) /\ Rest(r)[i] = Tail(t)[i - 1]
        BY <1>3, <2>10, <2>11, <3>2
      <4>. QED
        BY <1>3, <4>1
    <3>. QED
      BY <3>1, <3>2
  <2>. QED
    BY <1>1, <1>2, <1>5, <1>6, <2>9, <2>12 DEF t, ph, k
<1>. QED
  BY <1>7, <1>8

\* The state of a request r whose call has returned: everything that the invariant says
\* of another request is as before.
Others(r) ==
    \A q \in Reqs \ {r} : todo'[q] = todo[q] /\ got'[q] = got[q] /\ job'[q] = job[q] /\ phase'[q] = phase[q]

\* If the plan of r is right and those of the others are as before, all are right.
LEMMA OthersKeepPlans ==
    ASSUME Plans, NEW r \in Reqs, Others(r), PlanOK(r)', (todo[r] # <<>>)' => JobOK(r)'
    PROVE  Plans'
<1>. SUFFICES ASSUME NEW q \in Reqs PROVE (PlanOK(q) /\ (todo[q] # <<>> => JobOK(q)))'
  BY DEF Plans
<1>1. CASE q = r
  BY <1>1
<1>2. CASE q # r
  <2>1. PlanOK(q) /\ (todo[q] # <<>> => JobOK(q))
    BY DEF Plans
  <2>. QED
    BY <1>2, <2>1 DEF Others, PlanOK, JobOK
<1>. QED
  BY <1>1, <1>2

\* The types of what calls read and change.
ReadTypes ==
    /\ got \in [Reqs -> [pol : Policies, notif : SUBSET Services, users : SUBSET Users]]
    /\ found \in [Reqs -> SUBSET Principals]
    /\ made \in [Reqs -> SUBSET Buckets]
    /\ clean \in [Reqs -> BOOLEAN] /\ faults \in Nat

\* A call has returned: the plan goes on with the given blocks and the rest.
LEMMA GoOnKeeps ==
    ASSUME IInv, NEW r \in Reqs, todo[r] # <<>>,
           NEW blocks \in Seq(Blocks(phase[r])), GoOn(r, blocks),
           minio' \in MinIOState, ReadTypes', \A q \in Reqs \ {r} : got'[q] = got[q],
           C(r).op = "infoToRemove" => blocks = <<>> /\ got'[r].pol # None
    PROVE  IInv'
<1>1. TypeOK /\ PlanOK(r) /\ JobOK(r) /\ Plans /\ ServicesOK
  BY DEF IInv, Plans
<1>2. /\ DOMAIN todo = Reqs /\ todo' = [todo EXCEPT ![r] = blocks \o Rest(r)]
      /\ UNCHANGED <<svc, isAdminUser, phase, job, ans, tidy, overlaps>>
  BY <1>1 DEF GoOn, TypeOK
<1>3. todo'[r] = blocks \o Rest(r) /\ DOMAIN todo' = Reqs /\ \A q \in Reqs \ {r} : todo'[q] = todo[q]
  BY <1>2
<1>4. TypeOK'
  BY <1>1, <1>2, <1>3 DEF TypeOK, ReadTypes
<1>5. Others(r)
  BY <1>2, <1>3 DEF Others
<1>6. JobOK(r)'
  BY <1>1, <1>2 DEF JobOK
<1>7. PlanOK(r)'
  <2>. DEFINE t == Rest(r)
              ph == phase[r]
  <2>1. /\ t \in Seq(LooseBlocks(ph))
        /\ \A k \in 1..Len(t) : t[k].calls[1].op = "cutPolicy" => k = 1 /\ C(r).op = "infoToRemove"
    BY <1>1, CallAndRest
  <2>2. /\ blocks \in Seq(LooseBlocks(ph))
        /\ \A k \in 1..Len(blocks) : blocks[k].calls[1].op # "cutPolicy"
    BY FreshPlan
  <2>. HIDE DEF t, ph
  <2>3. blocks \o t \in Seq(LooseBlocks(ph))
    BY <2>1, <2>2
  <2>4. ASSUME NEW k \in 1..Len(blocks \o t), (blocks \o t)[k].calls[1].op = "cutPolicy"
        PROVE  k = 1 /\ got'[r].pol # None
    <3>1. CASE k <= Len(blocks)
      <4>1. k \in 1..Len(blocks) /\ (blocks \o t)[k] = blocks[k]
        BY <2>1, <2>2, <3>1
      <4>. QED
        BY <2>2, <2>4, <4>1
    <3>2. CASE k > Len(blocks)
      <4>1. k - Len(blocks) \in 1..Len(t) /\ (blocks \o t)[k] = t[k - Len(blocks)]
        BY <2>1, <2>2, <3>2
      <4>2. k - Len(blocks) = 1 /\ C(r).op = "infoToRemove"
        BY <2>1, <2>4, <4>1
      <4>3. Len(blocks) = 0
        BY <4>2
      <4>. QED
        BY <4>2, <4>3
    <3>. QED
      BY <2>2, <3>1, <3>2
  <2>5. phase'[r] = ph /\ todo'[r] = blocks \o t
    BY <1>2, <1>3 DEF t, ph
  <2>. QED
    BY <2>3, <2>4, <2>5 DEF PlanOK
<1>8. ServicesOK'
  BY <1>1, <1>2 DEF ServicesOK
<1>9. Plans'
  BY <1>1, <1>5, <1>6, <1>7, OthersKeepPlans
<1>. QED
  BY <1>4, <1>8, <1>9 DEF IInv

\* A request that stops or has nothing left to do.
LEMMA NothingLeft ==
    ASSUME NEW r \in Reqs, todo'[r] = <<>>
    PROVE  PlanOK(r)' /\ ((todo[r] # <<>>)' => JobOK(r)')
BY DEF PlanOK

\* A call has returned an error.
LEMMA ErrorKeeps ==
    ASSUME IInv, NEW r \in Reqs, todo[r] # <<>>, NEW undo \in BOOLEAN, NEW silent \in BOOLEAN,
           Error(r, undo, silent), clean' \in [Reqs -> BOOLEAN], faults' \in Nat
    PROVE  IInv'
<1>1. TypeOK /\ PlanOK(r) /\ JobOK(r) /\ Plans /\ ServicesOK
  BY DEF IInv, Plans
<1>2. UNCHANGED <<minio, isAdminUser, job, tidy, overlaps, got, found, made>>
  BY DEF Error, NoRead
<1>3. ReadTypes'
  BY <1>1, <1>2 DEF TypeOK, ReadTypes
<1>. DEFINE k == Head(todo[r])
<1>4. k \in LooseBlocks(phase[r]) /\ k.skip \in Nat
  BY <1>1, CallAndRest DEF LooseBlocks
<1>5. ASSUME NEW x, todo' = [todo EXCEPT ![r] = x], ans' \in [Reqs -> {"none", "ok", "error"}],
             svc' \in [Services -> StoredService \cup {None}], phase' \in [Reqs -> Phases],
             \A q \in Reqs \ {r} : phase'[q] = phase[q],
             PlanOK(r)', (todo[r] # <<>>)' => JobOK(r)', ServicesOK'
      PROVE  IInv'
  <2>1. DOMAIN todo' = Reqs /\ \A q \in Reqs \ {r} : todo'[q] = todo[q]
    BY <1>1, <1>5 DEF TypeOK
  <2>2. TypeOK'
    <3>1. minio' \in MinIOState /\ isAdminUser' \in BOOLEAN /\ DOMAIN job' = Reqs
          /\ tidy' \in [Reqs -> BOOLEAN] /\ overlaps' \in Nat
      BY <1>1, <1>2 DEF TypeOK
    <3>. QED
      BY <1>3, <1>5, <2>1, <3>1 DEF TypeOK, ReadTypes
  <2>3. Others(r)
    BY <1>2, <1>5, <2>1 DEF Others
  <2>4. Plans'
    BY <1>1, <1>5, <2>3, OthersKeepPlans
  <2>. QED
    BY <1>5, <2>2, <2>4 DEF IInv
<1>6. CASE k.skip > 0
  <2>. DEFINE t == todo[r]
              x == SubSeq(t, k.skip + 1, Len(t))
  <2>0. k.skip # 0
    BY <1>4, <1>6
  <2>a. /\ todo' = [todo EXCEPT ![r] = x] /\ UNCHANGED <<svc, phase>>
        /\ ans' = IF k.log \/ silent THEN ans ELSE [ans EXCEPT ![r] = "error"]
    BY <2>0 DEF Error
  <2>b. ans' \in [Reqs -> {"none", "ok", "error"}]
    BY <1>1, <2>a DEF TypeOK
  <2>1. /\ todo' = [todo EXCEPT ![r] = x] /\ UNCHANGED <<svc, phase>>
        /\ ans' \in [Reqs -> {"none", "ok", "error"}]
    BY <2>a, <2>b
  <2>2. todo'[r] = x
    BY <1>1, <2>1 DEF TypeOK
  <2>3. /\ t \in Seq(LooseBlocks(phase[r])) /\ Len(t) \in Nat
        /\ \A i \in 1..Len(t) : t[i].calls[1].op = "cutPolicy" => i = 1
    BY <1>1 DEF PlanOK
  <2>4. PlanOK(r)'
    <3>. HIDE DEF t, k
    <3>1. x \in Seq(LooseBlocks(phase[r])) /\ \A i \in 1..Len(x) : i + k.skip \in 1..Len(t) /\ x[i] = t[i + k.skip]
      BY <1>4, <2>3, SkipType
    <3>. HIDE DEF x
    <3>2. ASSUME NEW i \in 1..Len(x) PROVE x[i].calls[1].op # "cutPolicy"
      <4>0. Len(x) \in Nat /\ i \in Nat /\ i >= 1
        BY <3>1
      <4>1. i + k.skip \in 1..Len(t) /\ x[i] = t[i + k.skip] /\ i + k.skip # 1
        BY <1>4, <1>6, <3>1, <4>0
      <4>. QED
        BY <2>3, <4>1
    <3>. QED
      BY <2>1, <2>2, <3>1, <3>2 DEF PlanOK
  <2>5. JobOK(r)' /\ ServicesOK'
    BY <1>1, <1>2, <2>1 DEF JobOK, ServicesOK
  <2>6. svc' \in [Services -> StoredService \cup {None}] /\ phase' \in [Reqs -> Phases]
    BY <1>1, <2>1 DEF TypeOK
  <2>. HIDE DEF x, k
  <2>. QED
    BY <1>5, <2>1, <2>4, <2>5, <2>6
<1>7. CASE Stop(r, undo)
  <2>. DEFINE j == job[r]
  <2>0. ans' \in [Reqs -> {"none", "ok", "error"}]
    BY <1>1, <1>7 DEF Stop, TypeOK
  <2>1. CASE phase[r] = "createService"
    <3>. DEFINE x == IF undo THEN Within(deleteBuckets(j.s, j.def), TRUE) ELSE <<>>
    <3>1. /\ svc' = [svc EXCEPT ![j.s] = None] /\ phase' = [phase EXCEPT ![r] = "rollback"]
          /\ todo' = [todo EXCEPT ![r] = x]
      BY <1>7, <2>1 DEF Stop
    <3>2. j.s \in Services /\ j.def \in GoodService
      BY <1>1, <2>1 DEF JobOK, ServicePhases
    <3>a. deleteBuckets(j.s, j.def) \in Seq(Blocks("rollback"))
      BY <3>2, DeleteBlocks
    <3>b. Within(deleteBuckets(j.s, j.def), TRUE) \in Seq(Blocks("rollback"))
      BY <3>a, WithinType
    <3>3. x \in Seq(Blocks("rollback"))
      <4>. DEFINE y == Within(deleteBuckets(j.s, j.def), TRUE)
      <4>. HIDE DEF y
      <4>1. y \in Seq(Blocks("rollback"))
        BY <3>b DEF y
      <4>2. x = IF undo THEN y ELSE <<>>
        BY DEF y
      <4>. HIDE DEF x
      <4>. QED
        BY <4>1, <4>2
    <3>. HIDE DEF x
    <3>4. todo'[r] = x /\ phase'[r] = "rollback"
      BY <1>1, <3>1 DEF TypeOK
    <3>5. PlanOK(r)'
      BY <3>3, <3>4, FreshPlan DEF PlanOK
    <3>6. JobOK(r)'
      BY <1>2, <3>2, <3>4 DEF JobOK, ServicePhases, BucketPhases
    <3>7. ServicesOK' /\ svc' \in [Services -> StoredService \cup {None}]
      BY <1>1, <3>1 DEF ServicesOK, TypeOK
    <3>8. phase' \in [Reqs -> Phases] /\ \A q \in Reqs \ {r} : phase'[q] = phase[q]
      BY <1>1, <3>1 DEF TypeOK, Phases
    <3>. QED
      BY <1>5, <2>0, <3>1, <3>5, <3>6, <3>7, <3>8
  <2>2. CASE phase[r] # "createService"
    <3>1. todo' = [todo EXCEPT ![r] = <<>>] /\ UNCHANGED phase
      BY <1>7, <2>2 DEF Stop
    <3>2. todo'[r] = <<>> /\ phase' \in [Reqs -> Phases]
      BY <1>1, <3>1 DEF TypeOK
    <3>3. CASE phase[r] = "updateService"
      <4>1. svc' = [svc EXCEPT ![j.s] = IF @ = None THEN None ELSE j.old]
        BY <1>7, <2>2, <3>3 DEF Stop
      <4>2. j.old \in GoodService /\ j.s \in Services /\ GoodService \subseteq StoredService
        BY <1>1, <3>3 DEF JobOK, ServicePhases, GoodService
      <4>3. ServicesOK' /\ svc' \in [Services -> StoredService \cup {None}]
        BY <1>1, <4>1, <4>2 DEF ServicesOK, TypeOK
      <4>. QED
        BY <1>5, <2>0, <3>1, <3>2, <4>3, NothingLeft
    <3>4. CASE phase[r] # "updateService"
      <4>1. UNCHANGED svc
        BY <1>7, <2>2, <3>4 DEF Stop
      <4>2. ServicesOK' /\ svc' \in [Services -> StoredService \cup {None}]
        BY <1>1, <4>1 DEF ServicesOK, TypeOK
      <4>. QED
        BY <1>5, <2>0, <3>1, <3>2, <4>2, NothingLeft
    <3>. QED
      BY <3>3, <3>4
  <2>. QED
    BY <2>1, <2>2
<1>. QED
  BY <1>4, <1>6, <1>7 DEF Error

-----------------------------------------------------------------------------
(* The steps. *)

\* What the operation of a call says of its arguments, and of the phase.
LEMMA CallArgs ==
    ASSUME NEW ph, NEW c \in CallType(ph)
    PROVE  /\ c.op \in {"makeBucket", "folder", "getNotif", "empty", "removeBucket", "list", "tags",
                        "addNotif", "removeNotif", "tag", "infoToAdd", "addPolicy", "infoToRemove",
                        "cutPolicy", "setPolicy", "see", "isolate", "mount", "private"} => c.b \in Buckets
           /\ c.op \in {"addNotif", "removeNotif", "webhook", "unwebhook"} => c.p \in Services
           /\ c.op = "tag" => c.p \in Owners
           /\ c.op \in {"infoToAdd", "addPolicy", "infoToRemove", "cutPolicy", "setPolicy", "see"} =>
                 c.p \in Principals
           /\ c.op = "isolate" => c.p \in Users
           /\ c.op \in {"members", "addMembers", "removeMembers", "removeFound", "removeOthers",
                        "removePolicy"} => c.p \in Groups /\ c.users \in SUBSET Listed
           /\ c.op = "update" => ph = "updateBucket"
           /\ c.op = "delete" => ph = "deleteBucket"
           /\ c.op \in {"mount", "private"} => ph \in {"createService", "updateService"}
           /\ c.op = "publish" => ph = "createService"
           /\ c.op = "replace" => ph = "updateService"
<1>1. /\ JobOps(ph) \subseteq {"update", "delete", "mount", "private"}
      /\ "update" \in JobOps(ph) => ph = "updateBucket"
      /\ "delete" \in JobOps(ph) => ph = "deleteBucket"
      /\ "mount" \in JobOps(ph) \/ "private" \in JobOps(ph) => ph \in {"createService", "updateService"}
  BY DEF JobOps
<1>2. /\ StoreOps(ph) \subseteq {"publish", "replace"}
      /\ "publish" \in StoreOps(ph) => ph = "createService"
      /\ "replace" \in StoreOps(ph) => ph = "updateService"
  BY DEF StoreOps
<1>. DEFINE J == JobOps(ph)
            K == StoreOps(ph)
<1>. HIDE DEF J, K
<1>3. /\ c.op \in {"makeBucket", "folder", "getNotif", "empty", "removeBucket", "list", "tags",
                   "addNotif", "removeNotif", "tag", "infoToAdd", "addPolicy", "infoToRemove",
                   "cutPolicy", "setPolicy", "see", "isolate", "mount", "private"} => c.b \in Buckets
      /\ c.op \in {"addNotif", "removeNotif", "webhook", "unwebhook"} => c.p \in Services
  BY <1>1, <1>2 DEF CallType
<1>4. /\ c.op = "tag" => c.p \in Owners
      /\ c.op \in {"infoToAdd", "addPolicy", "infoToRemove", "cutPolicy", "setPolicy", "see"} =>
            c.p \in Principals
  BY <1>1, <1>2 DEF CallType
<1>5. /\ c.op = "isolate" => c.p \in Users
      /\ c.op \in {"members", "addMembers", "removeMembers", "removeFound", "removeOthers",
                   "removePolicy"} => c.p \in Groups /\ c.users \in SUBSET Listed
  BY <1>1, <1>2 DEF CallType
<1>6. /\ c.op = "update" => ph = "updateBucket"
      /\ c.op = "delete" => ph = "deleteBucket"
      /\ c.op \in {"mount", "private"} => ph \in {"createService", "updateService"}
      /\ c.op = "publish" => ph = "createService"
      /\ c.op = "replace" => ph = "updateService"
  BY <1>1, <1>2 DEF CallType
<1>. QED
  BY <1>3, <1>4, <1>5, <1>6

\* The call that a request makes has arguments of their types.
LEMMA CallOfRequest ==
    ASSUME IInv, NEW r \in Reqs, todo[r] # <<>>
    PROVE  /\ C(r) \in CallType(phase[r]) /\ TypeOK /\ JobOK(r)
           /\ C(r).op = "cutPolicy" => got[r].pol # None
BY CallAndRest DEF IInv, Plans

\* A call returns, having changed MinIO at most.
LEMMA DoKeeps ==
    ASSUME IInv, NEW r \in Reqs, todo[r] # <<>>, C(r).op # "infoToRemove",
           GoOn(r, <<>>), NoRead, Fine, minio' \in MinIOState
    PROVE  IInv'
<1>1. TypeOK
  BY DEF IInv
<1>2. ReadTypes' /\ \A q \in Reqs \ {r} : got'[q] = got[q]
  BY <1>1 DEF NoRead, Fine, TypeOK, ReadTypes
<1>3. <<>> \in Seq(Blocks(phase[r]))
  OBVIOUS
<1>. QED
  BY <1>2, <1>3, GoOnKeeps

\* A call has been refused, or has failed.
LEMMA RefusalKeeps ==
    ASSUME IInv, NEW r \in Reqs, todo[r] # <<>>,
           Refused(r) \/ CallFails(r) \/ (Error(r, TRUE, FALSE) /\ Fine) \/ (Error(r, FALSE, FALSE) /\ Fine)
    PROVE  IInv'
<1>1. TypeOK
  BY DEF IInv
<1>2. CASE Refused(r)
  <2>1. Error(r, TRUE, NoSuchBucket(r)) /\ NoSuchBucket(r) \in BOOLEAN
    BY <1>2 DEF Refused, NoSuchBucket
  <2>2. clean' \in [Reqs -> BOOLEAN] /\ faults' \in Nat
    BY <1>1, <1>2 DEF Refused, Fine, TypeOK
  <2>. QED
    BY <2>1, <2>2, ErrorKeeps
<1>3. CASE CallFails(r)
  <2>. DEFINE undo == C(r).op \notin {"publish", "webhook", "restart", "serverInfo"}
  <2>1. Error(r, undo, FALSE) /\ Fault(r) /\ undo \in BOOLEAN
    BY <1>3 DEF CallFails
  <2>2. clean' \in [Reqs -> BOOLEAN] /\ faults' \in Nat
    BY <1>1, <2>1 DEF Fault, TypeOK
  <2>. HIDE DEF undo
  <2>. QED
    BY <2>1, <2>2, ErrorKeeps
<1>4. CASE (Error(r, TRUE, FALSE) \/ Error(r, FALSE, FALSE)) /\ Fine
  <2>2. clean' \in [Reqs -> BOOLEAN] /\ faults' \in Nat
    BY <1>1, <1>4 DEF Fine, TypeOK
  <2>. QED
    BY <1>4, <2>2, ErrorKeeps
<1>. QED
  BY <1>2, <1>3, <1>4

\* A call reads.
LEMMA ReadKeeps ==
    ASSUME IInv, NEW r \in Reqs, todo[r] # <<>>,
           NEW x \in [pol : Policies, notif : SUBSET Services, users : SUBSET Users],
           Read(r, x), GoOn(r, <<>>), Fine \/ Fault(r), C(r).op = "infoToRemove" => x.pol # None
    PROVE  IInv'
<1>1. TypeOK
  BY DEF IInv
<1>2. ReadTypes'
  <2>. DEFINE G == [pol : Policies, notif : SUBSET Services, users : SUBSET Users]
  <2>a. got \in [Reqs -> G] /\ x \in G /\ got' = [got EXCEPT ![r] = x]
    BY <1>1 DEF Read, TypeOK
  <2>b. got' \in [Reqs -> G]
    <3>. HIDE DEF G
    <3>. QED
      BY <2>a
  <2>1. found' \in [Reqs -> SUBSET Principals] /\ made' \in [Reqs -> SUBSET Buckets]
    BY <1>1 DEF Read, TypeOK
  <2>2. clean' \in [Reqs -> BOOLEAN] /\ faults' \in Nat
    <3>1. Fine => clean' \in [Reqs -> BOOLEAN] /\ faults' \in Nat
      BY <1>1 DEF Fine, TypeOK
    <3>2. Fault(r) => clean' \in [Reqs -> BOOLEAN] /\ faults' \in Nat
      BY <1>1 DEF Fault, TypeOK
    <3>. QED
      BY <3>1, <3>2
  <2>. QED
    BY <2>b, <2>1, <2>2 DEF ReadTypes
<1>3. got'[r] = x /\ (\A q \in Reqs \ {r} : got'[q] = got[q]) /\ minio' \in MinIOState
  BY <1>1 DEF Read, TypeOK
<1>4. <<>> \in Seq(Blocks(phase[r]))
  OBVIOUS
<1>. QED
  BY <1>2, <1>3, <1>4, GoOnKeeps

\* What the calls do to MinIO keeps its type.
LEMMA BucketEffects ==
    ASSUME minio \in MinIOState, NEW b \in Buckets, NEW o \in Owners, NEW ss \in SUBSET Services,
           MakeBucket(b) \/ DropBucket(b) \/ Touch(b) \/ Tag(b, o) \/ PutNotif(b, ss) \/ Same
    PROVE  minio' \in MinIOState
<1>1. CASE MakeBucket(b)
  BY <1>1 DEF MakeBucket, MinIOState
<1>2. CASE DropBucket(b)
  BY <1>2 DEF DropBucket, MinIOState
<1>3. CASE Touch(b) \/ Same
  BY <1>3 DEF Touch, Same
<1>4. CASE Tag(b, o)
  BY <1>4 DEF Tag, MinIOState, Owners
<1>5. CASE PutNotif(b, ss)
  BY <1>5 DEF PutNotif, MinIOState
<1>. QED
  BY <1>1, <1>2, <1>3, <1>4, <1>5

\* Policies: the new one is one of Policies.
LEMMA PolicyEffects ==
    ASSUME minio \in MinIOState, NEW p \in Principals, NEW pol \in Policies,
           AddCannedPolicy(p, pol) \/ SetPolicy(p) \/ RemoveCannedPolicy(p)
    PROVE  minio' \in MinIOState
<1>1. None \in Policies
  BY DEF Policies
<1>. HIDE DEF Policies
<1>2. CASE AddCannedPolicy(p, pol)
  BY <1>2 DEF AddCannedPolicy, MinIOState
<1>3. CASE SetPolicy(p)
  BY <1>3 DEF SetPolicy, MinIOState
<1>4. CASE RemoveCannedPolicy(p)
  BY <1>1, <1>4 DEF RemoveCannedPolicy, MinIOState
<1>. QED
  BY <1>2, <1>3, <1>4

\* A bucket more in a policy, or one less.
LEMMA PolicyWithAndWithout ==
    ASSUME NEW pol \in Policies, NEW b \in Buckets
    PROVE  /\ WithResource(pol, b) \in Policies
           /\ pol # None => WithoutResource(pol, b) \in Policies
<1>1. WithResource(pol, b) \in Policies
  BY DEF WithResource, Policies
<1>2. ASSUME pol # None PROVE WithoutResource(pol, b) \in Policies
  <2>1. pol \in Seq(Buckets)
    BY <1>2 DEF Policies
  <2>2. RemoveFirst(pol, b) \in Seq(Buckets) /\ <<>> \in Seq(Buckets)
    BY <2>1, RemoveFirstType
  <2>. QED
    BY <2>2 DEF WithoutResource, Policies
<1>. QED
  BY <1>1, <1>2

\* Members and webhooks.
LEMMA GroupEffects ==
    ASSUME minio \in MinIOState, NEW g \in Groups, NEW us \in SUBSET Listed,
           AddMembers(g, us) \/ RemoveMembers(g, us)
    PROVE  minio' \in MinIOState
<1>1. minio.group[g] # None => minio.group[g] \in SUBSET Users
  BY DEF MinIOState
<1>2. CASE AddMembers(g, us)
  <2>1. (IF minio.group[g] = None THEN us ELSE minio.group[g] \cup us) \in SUBSET Users
    BY <1>1, <1>2 DEF AddMembers
  <2>. QED
    BY <1>2, <2>1 DEF AddMembers, MinIOState
<1>3. CASE RemoveMembers(g, us)
  <2>1. minio.group[g] \ us \in SUBSET Users
    BY <1>1, <1>3 DEF RemoveMembers, CanRemoveMembers
  <2>2. CASE minio' = [minio EXCEPT !.group[g] = @ \ us]
    BY <2>1, <2>2 DEF MinIOState
  <2>3. CASE minio' = [minio EXCEPT !.group[g] = None, !.attached = @ \ {g}]
    BY <2>3 DEF MinIOState
  <2>. QED
    BY <1>3, <2>2, <2>3 DEF RemoveMembers
<1>. QED
  BY <1>2, <1>3

\* The webhooks of the server's configuration.
LEMMA WebhookEffects ==
    ASSUME minio \in MinIOState, NEW s \in Services, SetWebhook(s) \/ DelWebhook(s)
    PROVE  minio' \in MinIOState
BY DEF SetWebhook, DelWebhook, MinIOState

\* The calls about buckets.
LEMMA BucketCallsKeep ==
    ASSUME IInv, NEW r \in Reqs,
           \/ MakeBucketCall(r) \/ RemoveBucketCall(r) \/ TouchCall(r) \/ TagCall(r) \/ TagsCall(r)
    PROVE  IInv'
<1>. DEFINE c == C(r)
<1>1. todo[r] # <<>>
  BY DEF MakeBucketCall, RemoveBucketCall, TouchCall, TagCall, TagsCall, At
<1>2. TypeOK /\ c \in CallType(phase[r]) /\ minio \in MinIOState
  BY <1>1, CallOfRequest DEF TypeOK
<1>3. CASE MakeBucketCall(r)
  <2>1. c.op = "makeBucket" /\ c.b \in Buckets
    BY <1>2, <1>3, CallArgs DEF MakeBucketCall, At
  <2>2. CASE MakeBucket(c.b) /\ made' = [made EXCEPT ![r] = @ \cup {c.b}] /\ UNCHANGED <<got, found>>
             /\ GoOn(r, <<>>) /\ Fine
    <3>1. minio' \in MinIOState
      <4>1. CfgName \in Owners /\ {} \in SUBSET Services
        BY DEF Owners
      <4>. QED
        BY <1>2, <2>1, <2>2, <4>1, BucketEffects
    <3>2. ReadTypes'
      <4>1. made' \in [Reqs -> SUBSET Buckets] /\ found' = found /\ got' = got /\ clean' = clean /\ faults' = faults
        BY <1>2, <2>1, <2>2 DEF TypeOK, Fine
      <4>. QED
        BY <1>2, <4>1 DEF TypeOK, ReadTypes
    <3>3. <<>> \in Seq(Blocks(phase[r])) /\ (\A q \in Reqs \ {r} : got'[q] = got[q]) /\ c.op # "infoToRemove"
      BY <2>1, <2>2
    <3>. QED
      BY <1>1, <2>2, <3>1, <3>2, <3>3, GoOnKeeps
  <2>3. CASE Error(r, FALSE, FALSE) /\ Fine
    BY <1>1, <2>3, RefusalKeeps
  <2>4. CASE CallFails(r)
    BY <1>1, <2>4, RefusalKeeps
  <2>. QED
    BY <1>3, <2>2, <2>3, <2>4 DEF MakeBucketCall
<1>4. CASE RemoveBucketCall(r)
  <2>1. c.op = "removeBucket" /\ c.b \in Buckets
    BY <1>2, <1>4, CallArgs DEF RemoveBucketCall, At
  <2>2. CASE Do(r, DropBucket(C(r).b))
    <3>1. minio' \in MinIOState
      <4>1. CfgName \in Owners /\ {} \in SUBSET Services
        BY DEF Owners
      <4>. QED
        BY <1>2, <2>1, <2>2, <4>1, BucketEffects DEF Do
    <3>. QED
      BY <1>1, <2>1, <2>2, <3>1, DoKeeps DEF Do
  <2>. QED
    BY <1>1, <1>4, <2>2, RefusalKeeps DEF RemoveBucketCall
<1>5. CASE TouchCall(r)
  <2>1. c.op # "infoToRemove"
    BY <1>5 DEF TouchCall, At
  <2>2. CASE Do(r, Touch(C(r).b))
    <3>1. minio' \in MinIOState
      BY <1>2, <2>2 DEF Do, Touch, Same
    <3>. QED
      BY <1>1, <2>1, <2>2, <3>1, DoKeeps DEF Do
  <2>. QED
    BY <1>1, <1>5, <2>2, RefusalKeeps DEF TouchCall
<1>6. CASE TagCall(r)
  <2>1. c.op = "tag" /\ c.b \in Buckets /\ c.p \in Owners
    BY <1>2, <1>6, CallArgs DEF TagCall, At
  <2>2. CASE Do(r, Tag(C(r).b, C(r).p))
    <3>1. minio' \in MinIOState
      <4>1. {} \in SUBSET Services
        OBVIOUS
      <4>. QED
        BY <1>2, <2>1, <2>2, <4>1, BucketEffects DEF Do
    <3>. QED
      BY <1>1, <2>1, <2>2, <3>1, DoKeeps DEF Do
  <2>. QED
    BY <1>1, <1>6, <2>2, RefusalKeeps DEF TagCall
<1>7. CASE TagsCall(r)
  <2>1. c.op # "infoToRemove"
    BY <1>7 DEF TagsCall, At
  <2>2. CASE Do(r, Same)
    <3>1. minio' \in MinIOState
      BY <1>2, <2>2 DEF Do, Same
    <3>. QED
      BY <1>1, <2>1, <2>2, <3>1, DoKeeps DEF Do
  <2>. QED
    BY <1>1, <1>7, <2>2, RefusalKeeps DEF TagsCall
<1>. QED
  BY <1>3, <1>4, <1>5, <1>6, <1>7

\* What a request reads has its type.
LEMMA ReadRecords ==
    ASSUME NEW pol \in Policies, NEW ns \in SUBSET Services, NEW us \in SUBSET Users
    PROVE  /\ [NothingGot EXCEPT !.pol = pol] \in [pol : Policies, notif : SUBSET Services, users : SUBSET Users]
           /\ [NothingGot EXCEPT !.pol = pol].pol = pol
           /\ [NothingGot EXCEPT !.notif = ns] \in [pol : Policies, notif : SUBSET Services, users : SUBSET Users]
           /\ [NothingGot EXCEPT !.users = us] \in [pol : Policies, notif : SUBSET Services, users : SUBSET Users]
           /\ NothingGot \in [pol : Policies, notif : SUBSET Services, users : SUBSET Users]
<1>1. None \in Policies
  BY DEF Policies
<1>. HIDE DEF Policies
<1>. QED
  BY <1>1 DEF NothingGot

\* The calls about notifications.
LEMMA NotifCallsKeep ==
    ASSUME IInv, NEW r \in Reqs, GetNotifCall(r) \/ PutNotifCall(r)
    PROVE  IInv'
<1>. DEFINE c == C(r)
<1>1. todo[r] # <<>>
  BY DEF GetNotifCall, PutNotifCall, At
<1>2. TypeOK /\ c \in CallType(phase[r]) /\ minio \in MinIOState
  BY <1>1, CallOfRequest DEF TypeOK
<1>3. CASE GetNotifCall(r)
  <2>1. c.op = "getNotif" /\ c.b \in Buckets
    BY <1>2, <1>3, CallArgs DEF GetNotifCall, At
  <2>2. CASE Read(r, [NothingGot EXCEPT !.notif = minio.notif[C(r).b]]) /\ GoOn(r, <<>>) /\ Fine
    <3>. DEFINE x == [NothingGot EXCEPT !.notif = minio.notif[C(r).b]]
    <3>1. minio.notif[C(r).b] \in SUBSET Services
      BY <1>2, <2>1 DEF MinIOState
    <3>2. x \in [pol : Policies, notif : SUBSET Services, users : SUBSET Users]
      <4>1. None \in Policies /\ {} \in SUBSET Users
        BY DEF Policies
      <4>. QED
        BY <3>1, <4>1, ReadRecords
    <3>3. Read(r, x) /\ c.op # "infoToRemove"
      BY <2>1, <2>2
    <3>. HIDE DEF x
    <3>. QED
      BY <1>1, <2>2, <3>2, <3>3, ReadKeeps
  <2>. QED
    BY <1>1, <1>3, <2>2, RefusalKeeps DEF GetNotifCall
<1>4. CASE PutNotifCall(r)
  <2>1. c.op \in {"addNotif", "removeNotif"} /\ c.b \in Buckets /\ c.p \in Services
    BY <1>2, <1>4, CallArgs DEF PutNotifCall, At
  <2>. DEFINE ss == IF C(r).op = "addNotif" THEN got[r].notif \cup {C(r).p} ELSE got[r].notif \ {C(r).p}
  <2>2. CASE Do(r, PutNotif(C(r).b, ss))
    <3>1. ss \in SUBSET Services
      BY <1>2, <2>1 DEF TypeOK
    <3>. HIDE DEF ss
    <3>2. minio' \in MinIOState
      <4>1. CfgName \in Owners
        BY DEF Owners
      <4>. QED
        BY <1>2, <2>1, <2>2, <3>1, <4>1, BucketEffects DEF Do
    <3>. QED
      BY <1>1, <2>1, <2>2, <3>2, DoKeeps DEF Do
  <2>. QED
    BY <1>1, <1>4, <2>2, RefusalKeeps DEF PutNotifCall
<1>. QED
  BY <1>3, <1>4

\* The calls about policies.
LEMMA PolicyCallsKeep ==
    ASSUME IInv, NEW r \in Reqs,
           InfoToAdd(r) \/ InfoToRemove(r) \/ WritePolicy(r) \/ SetPolicyCall(r) \/ RemovePolicyCall(r)
    PROVE  IInv'
<1>. DEFINE c == C(r)
<1>1. todo[r] # <<>>
  BY DEF InfoToAdd, InfoToRemove, WritePolicy, SetPolicyCall, RemovePolicyCall, At
<1>2. /\ TypeOK /\ c \in CallType(phase[r]) /\ minio \in MinIOState
      /\ c.op = "cutPolicy" => got[r].pol # None
  BY <1>1, CallOfRequest DEF TypeOK
<1>3. got[r].pol \in Policies /\ None \in Policies /\ {} \in SUBSET Services /\ {} \in SUBSET Users
  BY <1>2 DEF TypeOK, Policies
<1>. DEFINE x == [NothingGot EXCEPT !.pol = minio.policy[C(r).p]]
<1>4. c.p \in Principals =>
        /\ minio.policy[c.p] \in Policies /\ x.pol = minio.policy[C(r).p]
        /\ x \in [pol : Policies, notif : SUBSET Services, users : SUBSET Users]
  <2>. SUFFICES ASSUME c.p \in Principals
                PROVE  /\ minio.policy[c.p] \in Policies /\ x.pol = minio.policy[C(r).p]
                       /\ x \in [pol : Policies, notif : SUBSET Services, users : SUBSET Users]
    OBVIOUS
  <2>1. minio.policy[c.p] \in Policies
    BY <1>2 DEF MinIOState
  <2>. QED
    BY <1>3, <2>1, ReadRecords
<1>5. CASE InfoToAdd(r)
  <2>1. c.op = "infoToAdd" /\ c.p \in Principals
    BY <1>2, <1>5, CallArgs DEF InfoToAdd, At
  <2>2. CASE Read(r, x) /\ Fine
    <3>1. Read(r, x) /\ GoOn(r, <<>>) /\ c.op # "infoToRemove"
      BY <1>5, <2>1, <2>2 DEF InfoToAdd
    <3>. HIDE DEF x
    <3>. QED
      BY <1>1, <1>4, <2>1, <2>2, <3>1, ReadKeeps
  <2>3. CASE Read(r, NothingGot) /\ Fault(r)
    <3>1. GoOn(r, <<>>) /\ c.op # "infoToRemove"
      BY <1>5, <2>1 DEF InfoToAdd
    <3>2. NothingGot \in [pol : Policies, notif : SUBSET Services, users : SUBSET Users]
      BY <1>3, ReadRecords
    <3>. QED
      BY <1>1, <2>3, <3>1, <3>2, ReadKeeps
  <2>. QED
    BY <1>5, <2>2, <2>3 DEF InfoToAdd
<1>6. CASE InfoToRemove(r)
  <2>1. c.op = "infoToRemove" /\ c.p \in Principals
    BY <1>2, <1>6, CallArgs DEF InfoToRemove, At
  <2>2. CASE minio.policy[C(r).p] # None /\ Read(r, x) /\ GoOn(r, <<>>) /\ Fine
    <3>1. x.pol # None
      BY <1>4, <2>1, <2>2
    <3>2. Read(r, x) /\ GoOn(r, <<>>) /\ Fine
      BY <2>2
    <3>3. x \in [pol : Policies, notif : SUBSET Services, users : SUBSET Users]
      BY <1>4, <2>1
    <3>. HIDE DEF x
    <3>. QED
      BY <1>1, <3>1, <3>2, <3>3, ReadKeeps
  <2>. QED
    BY <1>1, <1>6, <2>2, RefusalKeeps DEF InfoToRemove
<1>7. CASE WritePolicy(r)
  <2>. DEFINE new == IF C(r).op = "addPolicy" THEN WithResource(got[r].pol, C(r).b)
                     ELSE WithoutResource(got[r].pol, C(r).b)
  <2>1. c.op \in {"addPolicy", "cutPolicy"} /\ c.b \in Buckets /\ c.p \in Principals
    BY <1>2, <1>7, CallArgs DEF WritePolicy, At
  <2>2. new \in Policies
    BY <1>2, <1>3, <2>1, PolicyWithAndWithout
  <2>3. \/ Do(r, AddCannedPolicy(C(r).p, new)) \/ Refused(r) \/ CallFails(r)
    BY <1>7 DEF WritePolicy
  <2>. HIDE DEF new
  <2>4. CASE Do(r, AddCannedPolicy(C(r).p, new))
    <3>1. minio' \in MinIOState
      BY <1>2, <2>1, <2>2, <2>4, PolicyEffects DEF Do
    <3>. QED
      BY <1>1, <2>1, <2>4, <3>1, DoKeeps DEF Do
  <2>. QED
    BY <1>1, <2>3, <2>4, RefusalKeeps
<1>8. CASE SetPolicyCall(r)
  <2>1. c.op = "setPolicy" /\ c.p \in Principals
    BY <1>2, <1>8, CallArgs DEF SetPolicyCall, At
  <2>2. CASE Do(r, SetPolicy(C(r).p))
    <3>1. minio' \in MinIOState
      BY <1>2, <1>3, <2>1, <2>2, PolicyEffects DEF Do
    <3>. QED
      BY <1>1, <2>1, <2>2, <3>1, DoKeeps DEF Do
  <2>. QED
    BY <1>1, <1>8, <2>2, RefusalKeeps DEF SetPolicyCall
<1>9. CASE RemovePolicyCall(r)
  <2>1. c.op = "removePolicy" /\ c.p \in Principals
    BY <1>2, <1>9, CallArgs DEF RemovePolicyCall, At, Principals
  <2>2. CASE Do(r, RemoveCannedPolicy(C(r).p))
    <3>1. minio' \in MinIOState
      BY <1>2, <1>3, <2>1, <2>2, PolicyEffects DEF Do
    <3>. QED
      BY <1>1, <2>1, <2>2, <3>1, DoKeeps DEF Do
  <2>. QED
    BY <1>1, <1>9, <2>2, RefusalKeeps DEF RemovePolicyCall
<1>. QED
  BY <1>5, <1>6, <1>7, <1>8, <1>9

\* The calls about groups, webhooks and what a request sees.
LEMMA GroupCallsKeep ==
    ASSUME IInv, NEW r \in Reqs, MembersCall(r) \/ AddMembersCall(r) \/ RemoveMembersCall(r)
    PROVE  IInv'
<1>. DEFINE c == C(r)
<1>1. todo[r] # <<>>
  BY DEF MembersCall, AddMembersCall, RemoveMembersCall, At
<1>2. TypeOK /\ c \in CallType(phase[r]) /\ minio \in MinIOState
  BY <1>1, CallOfRequest DEF TypeOK
<1>3. c.op \in {"members", "addMembers", "removeMembers", "removeFound", "removeOthers"} /\ c.op # "infoToRemove"
  BY DEF MembersCall, AddMembersCall, RemoveMembersCall, At
<1>4. c.p \in Groups /\ c.users \in SUBSET Listed
  BY <1>2, <1>3, CallArgs
<1>5. CASE MembersCall(r)
  <2>. DEFINE us == minio.group[C(r).p]
              x == [NothingGot EXCEPT !.users = us]
  <2>1. us # None => us \in SUBSET Users
    BY <1>2, <1>4 DEF MinIOState
  <2>2. \/ us # None /\ Read(r, x) /\ GoOn(r, <<>>) /\ Fine
        \/ Refused(r) \/ CallFails(r)
    BY <1>5 DEF MembersCall
  <2>3. CASE us # None /\ Read(r, x) /\ GoOn(r, <<>>) /\ Fine
    <3>1. None \in Policies /\ {} \in SUBSET Services /\ us \in SUBSET Users
      BY <2>1, <2>3 DEF Policies
    <3>2. x \in [pol : Policies, notif : SUBSET Services, users : SUBSET Users]
      BY <3>1, ReadRecords
    <3>. HIDE DEF x
    <3>. QED
      BY <1>1, <1>3, <2>3, <3>2, ReadKeeps
  <2>. QED
    BY <1>1, <2>2, <2>3, RefusalKeeps
<1>6. CASE AddMembersCall(r)
  <2>1. CASE Do(r, AddMembers(C(r).p, C(r).users))
    <3>1. minio' \in MinIOState
      BY <1>2, <1>4, <2>1, GroupEffects DEF Do
    <3>. QED
      BY <1>1, <1>3, <2>1, <3>1, DoKeeps DEF Do
  <2>. QED
    BY <1>1, <1>6, <2>1, RefusalKeeps DEF AddMembersCall
<1>7. CASE RemoveMembersCall(r)
  <2>. DEFINE us == CASE c.op = "removeMembers" -> c.users
                      [] c.op = "removeFound" -> got[r].users
                      [] c.op = "removeOthers" -> got[r].users \ c.users
  <2>1. \/ Do(r, Same) \/ Do(r, RemoveMembers(c.p, us)) \/ Refused(r) \/ CallFails(r)
    BY <1>7 DEF RemoveMembersCall
  <2>2. got[r].users \in SUBSET Users /\ c.op \in {"removeMembers", "removeFound", "removeOthers"}
    BY <1>2, <1>7 DEF TypeOK, RemoveMembersCall, At
  <2>3. us \in SUBSET Listed
    BY <1>4, <2>2 DEF Listed
  <2>. HIDE DEF us
  <2>4. CASE Do(r, Same)
    <3>1. minio' \in MinIOState
      BY <1>2, <2>4 DEF Do, Same
    <3>. QED
      BY <1>1, <1>3, <2>4, <3>1, DoKeeps DEF Do
  <2>5. CASE Do(r, RemoveMembers(c.p, us))
    <3>1. minio' \in MinIOState
      BY <1>2, <1>4, <2>3, <2>5, GroupEffects DEF Do
    <3>. QED
      BY <1>1, <1>3, <2>5, <3>1, DoKeeps DEF Do
  <2>. QED
    BY <1>1, <2>1, <2>4, <2>5, RefusalKeeps
<1>. QED
  BY <1>5, <1>6, <1>7

\* The calls about webhooks, and what a request sees of the policies.
LEMMA OtherCallsKeep ==
    ASSUME IInv, NEW r \in Reqs, WebhookCall(r) \/ RestartCall(r) \/ SeeCall(r)
    PROVE  IInv'
<1>. DEFINE c == C(r)
<1>1. todo[r] # <<>>
  BY DEF WebhookCall, RestartCall, SeeCall, At
<1>2. TypeOK /\ c \in CallType(phase[r]) /\ minio \in MinIOState
  BY <1>1, CallOfRequest DEF TypeOK
<1>3. CASE WebhookCall(r)
  <2>1. c.op \in {"webhook", "unwebhook"} /\ c.p \in Services
    BY <1>2, <1>3, CallArgs DEF WebhookCall, At
  <2>2. CASE Do(r, IF C(r).op = "webhook" THEN SetWebhook(C(r).p) ELSE DelWebhook(C(r).p))
    <3>1. minio' \in MinIOState
      BY <1>2, <2>1, <2>2, WebhookEffects DEF Do
    <3>2. NoRead /\ GoOn(r, <<>>) /\ Fine /\ c.op # "infoToRemove"
      BY <2>1, <2>2 DEF Do
    <3>. QED
      BY <1>1, <3>1, <3>2, DoKeeps
  <2>. QED
    BY <1>1, <1>3, <2>2, RefusalKeeps DEF WebhookCall
<1>4. CASE RestartCall(r)
  <2>1. CASE Do(r, Same)
    <3>1. minio' \in MinIOState /\ NoRead /\ GoOn(r, <<>>) /\ Fine /\ c.op # "infoToRemove"
      BY <1>2, <1>4, <2>1 DEF Do, Same, RestartCall, At
    <3>. QED
      BY <1>1, <3>1, DoKeeps
  <2>. QED
    BY <1>1, <1>4, <2>1, RefusalKeeps DEF RestartCall
<1>5. CASE SeeCall(r)
  <2>1. c.op = "see" /\ c.p \in Principals
    BY <1>2, <1>5, CallArgs DEF SeeCall, At
  <2>2. /\ GoOn(r, <<>>) /\ UNCHANGED <<minio, got, made>>
        /\ found' = [found EXCEPT ![r] = @ \cup {c.p}] \/ found' = found
    BY <1>5 DEF SeeCall
  <2>3. found' \in [Reqs -> SUBSET Principals]
    BY <1>2, <2>1, <2>2 DEF TypeOK
  <2>4. clean' \in [Reqs -> BOOLEAN] /\ faults' \in Nat
    <3>1. Fine => clean' \in [Reqs -> BOOLEAN] /\ faults' \in Nat
      BY <1>2 DEF Fine, TypeOK
    <3>2. Fault(r) => clean' \in [Reqs -> BOOLEAN] /\ faults' \in Nat
      BY <1>2 DEF Fault, TypeOK
    <3>. QED
      BY <1>5, <3>1, <3>2 DEF SeeCall
  <2>5. ReadTypes'
    BY <1>2, <2>2, <2>3, <2>4 DEF TypeOK, ReadTypes
  <2>6. /\ <<>> \in Seq(Blocks(phase[r])) /\ minio' \in MinIOState /\ c.op # "infoToRemove"
        /\ \A q \in Reqs \ {r} : got'[q] = got[q]
    BY <1>2, <2>1, <2>2
  <2>. QED
    BY <1>1, <2>2, <2>5, <2>6, GoOnKeeps
<1>. QED
  BY <1>3, <1>4, <1>5

\* A request decides what it does next.
LEMMA NextBlocksKeep ==
    ASSUME IInv, NEW r \in Reqs, todo[r] # <<>>, C(r).op # "infoToRemove",
           NEW blocks \in Seq(Blocks(phase[r])), Same /\ NoRead /\ Fine /\ GoOn(r, blocks)
    PROVE  IInv'
<1>1. TypeOK
  BY DEF IInv
<1>2. ReadTypes' /\ \A q \in Reqs \ {r} : got'[q] = got[q]
  BY <1>1 DEF NoRead, Fine, TypeOK, ReadTypes
<1>3. minio' \in MinIOState
  BY <1>1 DEF TypeOK, Same
<1>. QED
  BY <1>2, <1>3, GoOnKeeps

\* The decisions in the update and the delete of a bucket.
LEMMA DecisionsKeep ==
    ASSUME IInv, NEW r \in Reqs, DecideUpdate(r) \/ DecideDelete(r)
    PROVE  IInv'
<1>. DEFINE c == C(r)
            j == job[r]
            ph == phase[r]
            vis == GetCurrentResourceVisibility(j.client, j.b, found[r])
            us == ToSet(j.def.allowed)
<1>1. todo[r] # <<>> /\ c.op \in {"update", "delete"} /\ c.op # "infoToRemove"
  BY DEF DecideUpdate, DecideDelete, At
<1>2. c \in CallType(ph) /\ JobOK(r)
  BY <1>1, CallOfRequest
<1>3. ph \in {"updateBucket", "deleteBucket"}
  BY <1>1, <1>2, CallArgs
<1>4. j.b \in Buckets /\ j.client \in Owners /\ j.client \in Principals
  BY <1>2, <1>3 DEF JobOK, BucketPhases, Buckets, Owners, Principals
<1>. HIDE DEF vis
<1>5. CASE DecideUpdate(r)
  <2>1. ph = "updateBucket"
    BY <1>2, <1>5, CallArgs DEF DecideUpdate, At
  <2>2. us \in SUBSET Listed
    BY <1>2, <2>1 DEF JobOK, AskType, ToSet
  <2>. DEFINE a == OrStop(UnsetPolicies(j.b, vis, j.client) \o SetPolicies(j.b, j.def.vis, j.client, us))
              b == OrStop(UpdateServiceGroup(j.b, us))
  <2>3. Same /\ NoRead /\ Fine /\ (GoOn(r, a) \/ GoOn(r, b) \/ GoOn(r, <<>>))
    BY <1>5 DEF DecideUpdate, vis
  <2>. HIDE DEF us, j, ph
  <2>4. UnsetPolicies(j.b, vis, j.client) \in CallSeqs(ph) \ {<<>>}
    BY <1>4, <2>2, PolicyCalls
  <2>5. SetPolicies(j.b, j.def.vis, j.client, us) \in CallSeqs(ph) \ {<<>>}
    BY <1>4, <2>2, PolicyCalls
  <2>6. UpdateServiceGroup(j.b, us) \in CallSeqs(ph) \ {<<>>}
    BY <1>4, <2>2, PolicyCalls
  <2>7. UnsetPolicies(j.b, vis, j.client) \o SetPolicies(j.b, j.def.vis, j.client, us) \in CallSeqs(ph) \ {<<>>}
    BY <2>4, <2>5, CallsConcat
  <2>8. a \in Seq(Blocks(ph)) /\ b \in Seq(Blocks(ph)) /\ <<>> \in Seq(Blocks(ph))
    <3>1. a \in Seq(Blocks(ph))
      BY <2>7, BlockKinds
    <3>2. b \in Seq(Blocks(ph))
      BY <2>6, BlockKinds
    <3>3. <<>> \in Seq(Blocks(ph))
      OBVIOUS
    <3>. QED
      BY <3>1, <3>2, <3>3
  <2>. HIDE DEF a, b
  <2>. QED
    BY <1>1, <2>3, <2>8, NextBlocksKeep DEF ph
<1>6. CASE DecideDelete(r)
  <2>. DEFINE a == OrStop(DeleteMinIOBuckets(j.b, vis, j.client))
  <2>1. (Same /\ NoRead /\ Fine /\ GoOn(r, a)) \/ Refused(r)
    BY <1>6 DEF DecideDelete, vis
  <2>. HIDE DEF j, ph
  <2>2. DeleteMinIOBuckets(j.b, vis, j.client) \in CallSeqs(ph) \ {<<>>}
    BY <1>4, DeleteCalls
  <2>3. a \in Seq(Blocks(ph))
    BY <2>2, BlockKinds
  <2>. HIDE DEF a
  <2>. QED
    BY <1>1, <2>1, <2>3, NextBlocksKeep, RefusalKeeps DEF ph
<1>. QED
  BY <1>5, <1>6

\* The calls of a service's requests that look for more to do.
LEMMA ServiceCallsKeep ==
    ASSUME IInv, NEW r \in Reqs, Isolate(r) \/ Mount(r) \/ MountPrivate(r)
    PROVE  IInv'
<1>. DEFINE c == C(r)
            j == job[r]
            ph == phase[r]
<1>1. todo[r] # <<>> /\ c.op \in {"isolate", "mount", "private"} /\ c.op # "infoToRemove"
  BY DEF Isolate, Mount, MountPrivate, At
<1>2. c \in CallType(ph) /\ JobOK(r)
  BY <1>1, CallOfRequest
<1>3. c.b \in Buckets
  BY <1>1, <1>2, CallArgs
<1>4. <<>> \in Seq(Blocks(ph))
  OBVIOUS
<1>5. CASE Isolate(r)
  <2>. DEFINE a == OrStop(CreateAddPolicy(C(r).b, C(r).p))
  <2>1. Same /\ NoRead /\ Fine /\ (GoOn(r, a) \/ GoOn(r, <<>>))
    BY <1>5 DEF Isolate
  <2>2. c.p \in Principals
    BY <1>2, <1>5, CallArgs DEF Isolate, At, Principals
  <2>3. {} \in SUBSET Listed
    OBVIOUS
  <2>. HIDE DEF c, ph
  <2>4. CreateAddPolicy(c.b, c.p) \in CallSeqs(ph) \ {<<>>}
    BY <1>3, <2>2, <2>3, PolicyCalls
  <2>5. a \in Seq(Blocks(ph))
    BY <2>4, BlockKinds DEF c
  <2>. HIDE DEF a
  <2>. QED
    BY <1>1, <1>4, <2>1, <2>5, NextBlocksKeep DEF c, ph
<1>6. ASSUME c.op \in {"mount", "private"}
      PROVE  /\ ph \in {"createService", "updateService"}
             /\ \A there \in BOOLEAN : CreateS3Path(c.b, there) \in CallSeqs(ph) \ {<<>>}
             /\ j.s \in Services /\ j.def.owner \in Principals
  <2>1. ph \in {"createService", "updateService"}
    BY <1>2, <1>6, CallArgs
  <2>2. j.s \in Services /\ j.def \in GoodService
    BY <1>2, <2>1 DEF JobOK, ServicePhases
  <2>3. j.def.owner \in Users \cup {DefaultOwner, Nobody}
    BY <2>2 DEF GoodService, StoredService
  <2>4. CfgName \in Owners
    BY DEF Owners
  <2>5. \A there \in BOOLEAN : CreateS3Path(c.b, there) \in CallSeqs(ph) \ {<<>>}
    <3>. HIDE DEF c, ph, j
    <3>. QED
      BY <1>3, <2>2, <2>4, BucketCalls
  <2>. QED
    BY <2>1, <2>2, <2>3, <2>5 DEF Principals
<1>7. CASE Mount(r)
  <2>. DEFINE see == SeeVisibility(job[r].def.owner, C(r).b) \o <<Call1("private", C(r).b)>>
              a == OrStop(see)
              b == OrStop(CreateS3Path(C(r).b, FALSE))
  <2>1. (Same /\ NoRead /\ Fine /\ GoOn(r, OrStop(IF C(r).b \in minio.exists THEN see ELSE CreateS3Path(C(r).b, FALSE))))
        \/ CallFails(r)
    BY <1>7 DEF Mount
  <2>2. c.op = "mount"
    BY <1>7 DEF Mount, At
  <2>3. see \in CallSeqs(ph) \ {<<>>}
    <3>1. Call1("private", c.b) \in CallType(ph) /\ Call1("private", c.b).op # "cutPolicy"
      BY <1>3, <1>6, <2>2 DEF Call1, Call, CallType, JobOps
    <3>2. {} \in SUBSET Listed
      OBVIOUS
    <3>3. SeeVisibility(j.def.owner, c.b) \in CallSeqs(ph) \ {<<>>}
      <4>. HIDE DEF c, ph
      <4>. QED
        BY <1>3, <1>6, <2>2, <3>2, PolicyCalls
    <3>4. <<Call1("private", c.b)>> \in CallSeqs(ph) \ {<<>>}
      BY <3>1, OneCall
    <3>. QED
      BY <3>3, <3>4, CallsConcat
  <2>4. CreateS3Path(C(r).b, FALSE) \in CallSeqs(ph) \ {<<>>}
    BY <1>6, <2>2
  <2>. HIDE DEF see, ph
  <2>5. a \in Seq(Blocks(ph))
    BY <2>3, BlockKinds
  <2>6. b \in Seq(Blocks(ph))
    BY <2>4, BlockKinds
  <2>7. (Same /\ NoRead /\ Fine /\ (GoOn(r, a) \/ GoOn(r, b))) \/ CallFails(r)
    <3>1. CASE C(r).b \in minio.exists
      BY <2>1, <3>1
    <3>2. CASE C(r).b \notin minio.exists
      BY <2>1, <3>2
    <3>. QED
      BY <3>1, <3>2
  <2>. HIDE DEF a, b
  <2>. QED
    BY <1>1, <2>5, <2>6, <2>7, NextBlocksKeep, RefusalKeeps DEF ph
<1>8. CASE MountPrivate(r)
  <2>. DEFINE upd == phase[r] = "updateService"
              a == OrUpdate(CreateS3Path(C(r).b, TRUE), upd)
  <2>1. (Same /\ NoRead /\ Fine /\ GoOn(r, a)) \/ Refused(r)
    BY <1>8 DEF MountPrivate
  <2>2. CreateS3Path(C(r).b, TRUE) \in CallSeqs(ph) \ {<<>>} /\ upd \in BOOLEAN
    BY <1>6, <1>8 DEF MountPrivate, At
  <2>. HIDE DEF upd, ph
  <2>3. a \in Seq(Blocks(ph))
    BY <2>2, BlockKinds
  <2>. HIDE DEF a
  <2>. QED
    BY <1>1, <2>1, <2>3, NextBlocksKeep, RefusalKeeps DEF ph
<1>. QED
  BY <1>5, <1>7, <1>8

\* What is to be shown of a step of request r.
LEMMA OneRequestKeeps ==
    ASSUME IInv, NEW r \in Reqs, Others(r), PlanOK(r)', (todo[r] # <<>>)' => JobOK(r)', ServicesOK',
           minio' \in MinIOState, svc' \in [Services -> StoredService \cup {None}],
           isAdminUser' \in BOOLEAN, phase' \in [Reqs -> Phases], DOMAIN job' = Reqs,
           DOMAIN todo' = Reqs, ReadTypes', ans' \in [Reqs -> {"none", "ok", "error"}],
           tidy' \in [Reqs -> BOOLEAN], overlaps' \in Nat
    PROVE  IInv'
<1>1. TypeOK'
  BY DEF TypeOK, ReadTypes
<1>2. Plans'
  BY OthersKeepPlans DEF IInv
<1>. QED
  BY <1>1, <1>2 DEF IInv

\* The calls that store a service.
LEMMA StoreCallsKeep ==
    ASSUME IInv, NEW r \in Reqs, Publish(r) \/ Replace(r)
    PROVE  IInv'
<1>. DEFINE c == C(r)
            j == job[r]
            ph == phase[r]
<1>1. todo[r] # <<>> /\ c.op \in {"publish", "replace"}
  BY DEF Publish, Replace, At
<1>2. TypeOK /\ c \in CallType(ph) /\ JobOK(r) /\ PlanOK(r) /\ Plans /\ ServicesOK
  BY <1>1, CallOfRequest DEF IInv, Plans
<1>3. ph \in {"createService", "updateService"}
  BY <1>1, <1>2, CallArgs
<1>4. j.s \in Services /\ j.def \in GoodService /\ GoodService \subseteq StoredService
  BY <1>2, <1>3 DEF JobOK, ServicePhases, GoodService
<1>5. CASE Refused(r) \/ CallFails(r)
  BY <1>1, <1>5, RefusalKeeps
<1>6. ASSUME NEW x, todo' = [todo EXCEPT ![r] = x], NoRead, Fine,
             svc' = svc \/ svc' = [svc EXCEPT ![j.s] = j.def],
             ans' \in [Reqs -> {"none", "ok", "error"}],
             UNCHANGED <<minio, isAdminUser, phase, job, tidy, overlaps>>,
             x \in Seq(LooseBlocks(ph)), \A k \in 1..Len(x) : x[k].calls[1].op # "cutPolicy"
      PROVE  IInv'
  <2>1. todo'[r] = x /\ DOMAIN todo' = Reqs /\ \A q \in Reqs \ {r} : todo'[q] = todo[q]
    BY <1>2, <1>6 DEF TypeOK
  <2>2. Others(r)
    BY <1>6, <2>1 DEF Others, NoRead
  <2>3. PlanOK(r)'
    BY <1>6, <2>1 DEF PlanOK
  <2>4. JobOK(r)'
    BY <1>2, <1>6 DEF JobOK
  <2>5. svc' \in [Services -> StoredService \cup {None}]
    BY <1>2, <1>4, <1>6 DEF TypeOK
  <2>6. ServicesOK'
    BY <1>2, <1>4, <1>6 DEF ServicesOK, TypeOK
  <2>7. ReadTypes'
    BY <1>2, <1>6 DEF TypeOK, ReadTypes, NoRead, Fine
  <2>8. /\ minio' \in MinIOState /\ isAdminUser' \in BOOLEAN /\ phase' \in [Reqs -> Phases]
        /\ DOMAIN job' = Reqs /\ tidy' \in [Reqs -> BOOLEAN] /\ overlaps' \in Nat
    BY <1>2, <1>6 DEF TypeOK
  <2>. QED
    BY <1>6, <2>1, <2>2, <2>3, <2>4, <2>5, <2>6, <2>7, <2>8, OneRequestKeeps
<1>7. /\ Rest(r) \in Seq(LooseBlocks(ph))
      /\ c.op # "infoToRemove" => \A k \in 1..Len(Rest(r)) : Rest(r)[k].calls[1].op # "cutPolicy"
  BY <1>1, <1>2, CallAndRest
<1>8. <<>> \in Seq(LooseBlocks(ph)) /\ \A k \in 1..Len(<<>>) : (<<>>)[k].calls[1].op # "cutPolicy"
  OBVIOUS
<1>9. CASE Publish(r)
  <2>1. CASE svc' = [svc EXCEPT ![j.s] = j.def] /\ todo' = [todo EXCEPT ![r] = Rest(r)] /\ UNCHANGED <<ans, clean, faults>>
    <3>1. /\ NoRead /\ Fine /\ ans' \in [Reqs -> {"none", "ok", "error"}]
          /\ UNCHANGED <<minio, isAdminUser, phase, job, tidy, overlaps>>
      BY <1>2, <1>9, <2>1 DEF Publish, Fine, TypeOK
    <3>2. \A k \in 1..Len(Rest(r)) : Rest(r)[k].calls[1].op # "cutPolicy"
      BY <1>1, <1>7
    <3>. HIDE DEF j
    <3>. QED
      BY <1>6, <1>7, <2>1, <3>1, <3>2
  <2>2. CASE todo' = [todo EXCEPT ![r] = <<>>] /\ ans' = [ans EXCEPT ![r] = "error"] /\ UNCHANGED <<svc, clean, faults>>
    <3>1. /\ NoRead /\ Fine /\ ans' \in [Reqs -> {"none", "ok", "error"}]
          /\ UNCHANGED <<minio, isAdminUser, phase, job, tidy, overlaps>>
      BY <1>2, <1>9, <2>2 DEF Publish, Fine, TypeOK
    <3>. HIDE DEF j
    <3>. QED
      BY <1>6, <1>8, <2>2, <3>1
  <2>. QED
    BY <1>9, <2>1, <2>2 DEF Publish
<1>10. CASE Replace(r)
  <2>1. CASE /\ svc' = [svc EXCEPT ![j.s] = j.def] /\ todo' = [todo EXCEPT ![r] = <<>>]
             /\ UNCHANGED <<minio, isAdminUser, phase, job, ans, tidy, overlaps>> /\ NoRead /\ Fine
    <3>1. ans' \in [Reqs -> {"none", "ok", "error"}]
      BY <1>2, <2>1 DEF TypeOK
    <3>. HIDE DEF j
    <3>. QED
      BY <1>6, <1>8, <2>1, <3>1
  <2>. QED
    BY <1>5, <1>10, <2>1 DEF Replace
<1>. QED
  BY <1>9, <1>10

\* The handler answers.
LEMMA ReturnKeeps ==
    ASSUME IInv, NEW r \in Reqs, Return(r)
    PROVE  IInv'
<1>1. TypeOK /\ ServicesOK
  BY DEF IInv
<1>2. todo'[r] = <<>> /\ DOMAIN todo' = Reqs /\ \A q \in Reqs \ {r} : todo'[q] = todo[q]
  BY <1>1 DEF Return, TypeOK
<1>3. \A q \in Reqs \ {r} : got'[q] = got[q] /\ job'[q] = job[q] /\ phase'[q] = phase[q]
  BY DEF Return
<1>4. Others(r)
  BY <1>2, <1>3 DEF Others
<1>5. PlanOK(r)' /\ ServicesOK'
  BY <1>1, <1>2 DEF PlanOK, ServicesOK, Return
<1>6. ReadTypes'
  <2>. DEFINE G == [pol : Policies, notif : SUBSET Services, users : SUBSET Users]
  <2>1. NothingGot \in G
    <3>1. None \in Policies /\ {} \in SUBSET Services /\ {} \in SUBSET Users
      BY DEF Policies
    <3>. QED
      BY <3>1, ReadRecords
  <2>2. got \in [Reqs -> G] /\ got' = [got EXCEPT ![r] = NothingGot]
    BY <1>1 DEF TypeOK, Return
  <2>3. got' \in [Reqs -> G]
    <3>. HIDE DEF G
    <3>. QED
      BY <2>1, <2>2
  <2>4. found' \in [Reqs -> SUBSET Principals] /\ made' \in [Reqs -> SUBSET Buckets]
    BY <1>1 DEF TypeOK, Return
  <2>5. clean' \in [Reqs -> BOOLEAN] /\ faults' \in Nat
    BY <1>1 DEF TypeOK, Return
  <2>. QED
    BY <2>3, <2>4, <2>5 DEF ReadTypes
<1>7. /\ minio' \in MinIOState /\ isAdminUser' \in BOOLEAN /\ overlaps' \in Nat
      /\ svc' \in [Services -> StoredService \cup {None}]
  BY <1>1 DEF TypeOK, Return
<1>8. phase' \in [Reqs -> Phases] /\ DOMAIN job' = Reqs /\ tidy' \in [Reqs -> BOOLEAN]
  BY <1>1 DEF TypeOK, Return, Phases
<1>9. ans' \in [Reqs -> {"none", "ok", "error"}]
  BY <1>1 DEF TypeOK, Return
<1>. QED
  BY <1>2, <1>4, <1>5, <1>6, <1>7, <1>8, <1>9, OneRequestKeeps

-----------------------------------------------------------------------------
(* The arrival of a request. *)

\* What a request may be about, if it has anything to do.
JobFits(ph, j) ==
    /\ ph \in BucketPhases => j.b \in Names /\ j.client \in Owners
    /\ ph \in {"createBucket", "updateBucket"} => j.def \in AskType
    /\ ph \in ServicePhases => j.s \in Services /\ j.def \in GoodService
    /\ ph = "updateService" => j.old \in GoodService

\* What is to be shown of a request that comes in.
LEMMA ArriveKeeps ==
    ASSUME IInv, NEW r \in Reqs, NEW ph \in Phases, NEW j, NEW blocks \in Seq(Blocks(ph)),
           Arrive(r, ph, j, blocks), blocks # <<>> => JobFits(ph, j),
           svc' \in [Services -> StoredService \cup {None}], ServicesOK', isAdminUser' \in BOOLEAN,
           ans' \in [Reqs -> {"none", "ok", "error"}]
    PROVE  IInv'
<1>1. TypeOK
  BY DEF IInv
<1>2. /\ todo' = [todo EXCEPT ![r] = blocks] /\ phase' = [phase EXCEPT ![r] = ph]
      /\ job' = [job EXCEPT ![r] = j] /\ UNCHANGED <<minio, got, found, made, faults>>
  BY DEF Arrive
<1>3. /\ todo'[r] = blocks /\ phase'[r] = ph /\ job'[r] = j
      /\ DOMAIN todo' = Reqs /\ DOMAIN job' = Reqs
      /\ \A q \in Reqs \ {r} : todo'[q] = todo[q] /\ phase'[q] = phase[q] /\ job'[q] = job[q]
  BY <1>1, <1>2 DEF TypeOK
<1>4. Others(r)
  BY <1>2, <1>3 DEF Others
<1>5. PlanOK(r)'
  BY <1>3, FreshPlan DEF PlanOK
<1>6. (todo[r] # <<>>)' => JobOK(r)'
  BY <1>3 DEF JobOK, JobFits
<1>7. tidy' \in [Reqs -> BOOLEAN]
  <2>. DEFINE x == CASE ph = "createBucket" -> Unknown(j.b)
                     [] ph \in {"updateBucket", "deleteBucket"} -> Tidy(j.b)
                     [] ph = "deleteService" -> {j.def.def.in, j.def.def.out} \ {None} \subseteq minio.exists
                     [] OTHER -> FALSE
  <2>1. tidy' = [tidy EXCEPT ![r] = x]
    BY DEF Arrive
  <2>2. Unknown(j.b) \in BOOLEAN /\ Tidy(j.b) \in BOOLEAN
    BY DEF Unknown, Tidy
  <2>3. x \in BOOLEAN
    BY <2>2
  <2>. HIDE DEF x
  <2>. QED
    BY <1>1, <2>1, <2>3 DEF TypeOK
<1>8. clean' \in [Reqs -> BOOLEAN] /\ overlaps' \in Nat
  <2>1. overlaps' \in Nat
    BY <1>1 DEF Arrive, TypeOK
  <2>2. clean' = [q \in Reqs |-> IF q = r THEN InFlight = {} ELSE clean[q] /\ q \notin InFlight]
    BY DEF Arrive
  <2>3. clean' \in [Reqs -> BOOLEAN]
    <3>1. \A q \in Reqs : (IF q = r THEN InFlight = {} ELSE clean[q] /\ q \notin InFlight) \in BOOLEAN
      OBVIOUS
    <3>. QED
      BY <2>2, <3>1
  <2>. QED
    BY <2>1, <2>3
<1>9. ReadTypes'
  BY <1>1, <1>2, <1>8 DEF TypeOK, ReadTypes
<1>10. phase' \in [Reqs -> Phases] /\ minio' \in MinIOState
  BY <1>1, <1>2 DEF TypeOK
<1>. QED
  BY <1>3, <1>4, <1>5, <1>6, <1>7, <1>8, <1>9, <1>10, OneRequestKeeps

\* What is to be shown of a request about a service that has read who asks.
LEMMA BeginKeeps ==
    ASSUME IInv, NEW r \in Reqs, NEW asks, NEW ph \in Phases, NEW j, NEW blocks \in Seq(Blocks(ph)),
           Begin(r, asks, ph, j, blocks), blocks # <<>> => JobFits(ph, j),
           ans' = ans \/ ans' = [ans EXCEPT ![r] = "error"]
    PROVE  IInv'
<1>1. TypeOK /\ ServicesOK
  BY DEF IInv
<1>2. /\ todo' = [todo EXCEPT ![r] = blocks] /\ phase' = [phase EXCEPT ![r] = ph]
      /\ job' = [job EXCEPT ![r] = j]
      /\ UNCHANGED <<minio, svc, isAdminUser, got, found, clean, made, tidy, faults, overlaps>>
  BY DEF Begin
<1>3. /\ todo'[r] = blocks /\ phase'[r] = ph /\ job'[r] = j
      /\ DOMAIN todo' = Reqs /\ DOMAIN job' = Reqs
      /\ \A q \in Reqs \ {r} : todo'[q] = todo[q] /\ phase'[q] = phase[q] /\ job'[q] = job[q]
  BY <1>1, <1>2 DEF TypeOK
<1>4. Others(r)
  BY <1>2, <1>3 DEF Others
<1>5. PlanOK(r)'
  BY <1>3, FreshPlan DEF PlanOK
<1>6. (todo[r] # <<>>)' => JobOK(r)'
  BY <1>3 DEF JobOK, JobFits
<1>7. ReadTypes' /\ ServicesOK'
  BY <1>1, <1>2 DEF TypeOK, ReadTypes, ServicesOK
<1>8. phase' \in [Reqs -> Phases] /\ minio' \in MinIOState /\ ans' \in [Reqs -> {"none", "ok", "error"}]
  BY <1>1, <1>2 DEF TypeOK
<1>9. /\ svc' \in [Services -> StoredService \cup {None}] /\ isAdminUser' \in BOOLEAN
      /\ tidy' \in [Reqs -> BOOLEAN] /\ overlaps' \in Nat
  BY <1>1, <1>2 DEF TypeOK
<1>. QED
  BY <1>3, <1>4, <1>5, <1>6, <1>7, <1>8, <1>9, OneRequestKeeps

\* The parts of IInv that an arrival leaves alone.
LEMMA SameServices ==
    ASSUME IInv
    PROVE  /\ svc' = svc => svc' \in [Services -> StoredService \cup {None}] /\ ServicesOK'
           /\ isAdminUser' = isAdminUser => isAdminUser' \in BOOLEAN
           /\ ans' = ans => ans' \in [Reqs -> {"none", "ok", "error"}]
<1>1. TypeOK /\ ServicesOK
  BY DEF IInv
<1>. QED
  BY <1>1 DEF TypeOK, ServicesOK

\* The requests about one bucket.
LEMMA BucketRequestsKeep ==
    ASSUME IInv, NEW r \in Reqs, NEW u \in Clients, NEW b \in Names, NEW ask \in BucketAsks,
           CreateBucket(r, u, b, ask) \/ UpdateBucket(r, u, b, ask)
    PROVE  IInv'
<1>1. ask \in AskType /\ ask.allowed \in Seq(Listed)
  BY AsksAssumption DEF AskType
<1>2. ToSet(ask.allowed) \in SUBSET Listed
  BY <1>1 DEF ToSet
<1>3. b \in Buckets /\ u \in Owners /\ u \in Principals
  BY DEF Buckets, Clients, Owners, Principals
<1>4. ASSUME NEW uid \in Owners
      PROVE  LET j == [NoJob EXCEPT !.client = uid, !.b = b, !.def = ask]
             IN  JobFits("createBucket", j) /\ JobFits("updateBucket", j)
  <2>. DEFINE j == [NoJob EXCEPT !.client = uid, !.b = b, !.def = ask]
  <2>1. j.client = uid /\ j.b = b /\ j.def = ask
    BY DEF NoJob
  <2>. HIDE DEF j
  <2>2. JobFits("createBucket", j) /\ JobFits("updateBucket", j)
    BY <1>1, <1>3, <2>1 DEF JobFits, BucketPhases, ServicePhases
  <2>. QED
    BY <2>2 DEF j
<1>5. BucketOf[b] \in Buckets
  BY BucketOfAssumption DEF Buckets
<1>6. CASE CreateBucket(r, u, b, ask)
  <2>. DEFINE vis == IF ask.vis = Unset THEN "private" ELSE ask.vis
              folder == IF b \in Plain THEN <<>> ELSE <<Call1("folder", BucketOf[b])>>
              B1 == OrStop(createBucket(BucketOf[b]) \o folder)
              Tags(x) == OrWrite(SetTags(BucketOf[b], x))
              Shares(x) == IF x = CfgName THEN <<>> ELSE OrWrite(SetPolicies(b, vis, x, ToSet(ask.allowed)))
              Job(x) == [NoJob EXCEPT !.client = x, !.b = b, !.def = ask]
  <2>1. PICK uid \in {u} \cup {x \in {CfgName} : InFlight # {}} :
           /\ Arrive(r, "createBucket", Job(uid), B1 \o Tags(uid) \o Shares(uid))
           /\ UNCHANGED <<svc, isAdminUser, ans>>
    BY <1>6 DEF CreateBucket
  <2>. DEFINE B2 == Tags(uid)
              B3 == Shares(uid)
              j == Job(uid)
              blocks == B1 \o B2 \o B3
  <2>0. uid \in Owners /\ uid \in Principals
    BY <1>3, <2>1 DEF Owners, Principals
  <2>a. JobFits("createBucket", j)
    BY <1>4, <2>0
  <2>2. B1 \in Seq(Blocks("createBucket"))
    <3>. DEFINE x == BucketOf[b]
    <3>0. x \in Buckets
      BY <1>5
    <3>. HIDE DEF x
    <3>1. /\ Call1("makeBucket", x) \in CallType("createBucket") /\ Call1("makeBucket", x).op # "cutPolicy"
          /\ Call1("folder", x) \in CallType("createBucket") /\ Call1("folder", x).op # "cutPolicy"
      BY <3>0 DEF Call1, Call, CallType
    <3>2. createBucket(x) \in CallSeqs("createBucket") \ {<<>>}
      BY <3>1, OneCall DEF createBucket
    <3>3. <<Call1("folder", x)>> \in CallSeqs("createBucket")
      BY <3>1, OneCall
    <3>4. folder \in CallSeqs("createBucket")
      BY <3>3, NoCall DEF x
    <3>. HIDE DEF folder
    <3>5. createBucket(x) \o folder \in CallSeqs("createBucket") \ {<<>>}
      BY <3>2, <3>4, CallsConcat
    <3>. QED
      BY <3>5, BlockKinds DEF x
  <2>3. B2 \in Seq(Blocks("createBucket"))
    <3>. DEFINE x == BucketOf[b]
    <3>0. x \in Buckets
      BY <1>5
    <3>. HIDE DEF x
    <3>1. Call("tag", x, uid, {}) \in CallType("createBucket") /\ Call("tag", x, uid, {}).op # "cutPolicy"
      BY <2>0, <3>0 DEF Call, CallType
    <3>. QED
      BY <3>1, OneCall, BlockKinds DEF SetTags, x
  <2>4. B3 \in Seq(Blocks("createBucket"))
    <3>. HIDE DEF vis
    <3>1. SetPolicies(b, vis, uid, ToSet(ask.allowed)) \in CallSeqs("createBucket") \ {<<>>}
      BY <1>2, <1>3, <2>0, PolicyCalls
    <3>2. OrWrite(SetPolicies(b, vis, uid, ToSet(ask.allowed))) \in Seq(Blocks("createBucket"))
      BY <3>1, BlockKinds
    <3>. QED
      BY <3>2
  <2>b. Arrive(r, "createBucket", j, blocks) /\ UNCHANGED <<svc, isAdminUser, ans>>
    BY <2>1
  <2>. HIDE DEF B1, B2, B3, j
  <2>5. blocks \in Seq(Blocks("createBucket"))
    BY <2>2, <2>3, <2>4, BlocksConcat
  <2>6. "createBucket" \in Phases
    BY DEF Phases
  <2>. HIDE DEF blocks
  <2>. QED
    BY <2>a, <2>b, <2>5, <2>6, SameServices, ArriveKeeps
<1>7. CASE UpdateBucket(r, u, b, ask)
  <2>. DEFINE j == [NoJob EXCEPT !.client = u, !.b = b, !.def = ask]
              calls == <<Call1("tags", b)>> \o SeeVisibility(u, b) \o <<Call1("update", b)>>
              blocks == OrStop(calls)
  <2>0. JobFits("updateBucket", j)
    BY <1>3, <1>4
  <2>1. Arrive(r, "updateBucket", j, blocks) /\ UNCHANGED <<svc, isAdminUser, ans>>
    BY <1>7 DEF UpdateBucket
  <2>2. /\ Call1("tags", b) \in CallType("updateBucket") /\ Call1("tags", b).op # "cutPolicy"
        /\ Call1("update", b) \in CallType("updateBucket") /\ Call1("update", b).op # "cutPolicy"
    BY <1>3 DEF Call1, Call, CallType, JobOps
  <2>3. SeeVisibility(u, b) \in CallSeqs("updateBucket")
    BY <1>2, <1>3, PolicyCalls
  <2>4. <<Call1("tags", b)>> \o SeeVisibility(u, b) \in CallSeqs("updateBucket")
    BY <2>2, <2>3, OneCall, CallsConcat
  <2>5. calls \in CallSeqs("updateBucket") \ {<<>>}
    BY <2>2, <2>4, OneCall, CallsConcat
  <2>. HIDE DEF calls, j
  <2>6. blocks \in Seq(Blocks("updateBucket"))
    BY <2>5, BlockKinds
  <2>7. "updateBucket" \in Phases
    BY DEF Phases
  <2>. HIDE DEF blocks
  <2>. QED
    BY <2>0, <2>1, <2>6, <2>7, SameServices, ArriveKeeps
<1>. QED
  BY <1>6, <1>7

\* The delete of a bucket.
LEMMA DeleteRequestKeeps ==
    ASSUME IInv, NEW r \in Reqs, NEW u \in Clients, NEW b \in Names, DeleteBucketRequest(r, u, b)
    PROVE  IInv'
<1>. DEFINE uid == OwnerOf(u)
            j == [NoJob EXCEPT !.client = uid, !.b = b]
            calls == <<Call1("list", b)>> \o SeeVisibility(uid, b) \o <<Call1("delete", b)>>
            blocks == OrStop(calls)
<1>1. b \in Buckets /\ uid \in Owners /\ uid \in Principals
  BY DEF Buckets, Clients, Owners, Principals, OwnerOf
<1>. HIDE DEF uid
<1>2. j.client = uid /\ j.b = b
  BY DEF NoJob
<1>3. JobFits("deleteBucket", j)
  BY <1>1, <1>2 DEF JobFits, BucketPhases, ServicePhases
<1>4. Arrive(r, "deleteBucket", j, blocks) /\ UNCHANGED <<svc, isAdminUser, ans>>
  BY DEF DeleteBucketRequest, uid
<1>5. /\ Call1("list", b) \in CallType("deleteBucket") /\ Call1("list", b).op # "cutPolicy"
      /\ Call1("delete", b) \in CallType("deleteBucket") /\ Call1("delete", b).op # "cutPolicy"
  BY <1>1 DEF Call1, Call, CallType, JobOps
<1>6. SeeVisibility(uid, b) \in CallSeqs("deleteBucket")
  <2>1. {} \in SUBSET Listed
    OBVIOUS
  <2>. QED
    BY <1>1, <2>1, PolicyCalls
<1>7. <<Call1("list", b)>> \o SeeVisibility(uid, b) \in CallSeqs("deleteBucket")
  BY <1>5, <1>6, OneCall, CallsConcat
<1>8. calls \in CallSeqs("deleteBucket") \ {<<>>}
  BY <1>5, <1>7, OneCall, CallsConcat
<1>. HIDE DEF calls, j
<1>9. blocks \in Seq(Blocks("deleteBucket"))
  BY <1>8, BlockKinds
<1>10. "deleteBucket" \in Phases
  BY DEF Phases
<1>. HIDE DEF blocks
<1>. QED
  BY <1>3, <1>4, <1>9, <1>10, SameServices, ArriveKeeps

\* A list of users that an isolated service appends its owner to.
LEMMA StoredType ==
    ASSUME NEW d \in ServiceDefs, NEW app \in BOOLEAN, NEW u \in Clients, app => u \in Users,
           NEW owner \in Users \cup {DefaultOwner, Nobody}, NEW iso \in BOOLEAN,
           iso => d.in # None /\ d.isolated
    PROVE  LET def == [d EXCEPT !.allowed = IF app THEN Append(@, u) ELSE @]
           IN  /\ Stored(def, owner, IF iso THEN d.allowed ELSE <<>>) \in GoodService
               /\ def \in ServiceDefinition /\ def.in = d.in
<1>. DEFINE us == IF app THEN Append(d.allowed, u) ELSE d.allowed
            def == [d EXCEPT !.allowed = us]
            list == IF iso THEN d.allowed ELSE <<>>
<1>1. d \in ServiceDefinition /\ d.allowed \in Seq(Listed)
  BY AsksAssumption DEF ServiceDefinition
<1>2. us \in Seq(Listed)
  BY <1>1 DEF Listed
<1>3. list \in Seq(Users) /\ (list # <<>> => d.in # None)
  BY AsksAssumption
<1>. HIDE DEF us, list
<1>4. def \in ServiceDefinition /\ def.in = d.in
  BY <1>1, <1>2 DEF ServiceDefinition
<1>. HIDE DEF def
<1>5. Stored(def, owner, list) \in GoodService
  BY <1>3, <1>4 DEF Stored, StoredService, GoodService
<1>. QED
  BY <1>4, <1>5 DEF us, def, list

\* The arrival of a request that creates or updates a service.
LEMMA ServiceRequestsKeep ==
    ASSUME IInv, NEW r \in Reqs, NEW u \in Clients, PostService(r, u) \/ PutService(r, u)
    PROVE  IInv'
<1>. DEFINE j == [NoJob EXCEPT !.client = u]
<1>1. TypeOK
  BY DEF IInv
<1>2. PICK ph \in {"asksCreate", "asksUpdate"} : Arrive(r, ph, j, <<>>)
  BY DEF PostService, PutService
<1>3. isAdminUser' \in BOOLEAN /\ UNCHANGED <<svc, ans>>
  BY <1>1 DEF PostService, PutService, TypeOK
<1>4. ph \in Phases /\ <<>> \in Seq(Blocks(ph))
  BY DEF Phases
<1>. HIDE DEF j
<1>. QED
  BY <1>2, <1>3, <1>4, SameServices, ArriveKeeps

\* The create of a service.
LEMMA CreateServiceKeeps ==
    ASSUME IInv, NEW r \in Reqs, NEW u \in Clients, NEW s \in Services, NEW d \in ServiceDefs,
           NEW o \in Users \cup {DefaultOwner, Nobody}, CreateService(r, u, s, d, o)
    PROVE  IInv'
<1>. DEFINE ph == "createService"
            admin == isAdminUser
            owner == IF admin /\ u # CfgName THEN o ELSE OwnerOf(u)
            isolated == d.isolated /\ d.in # None /\ d.allowed # <<>> /\ ~admin
            list == IF isolated THEN d.allowed ELSE <<>>
            app == isolated /\ u \notin ToSet(d.allowed)
            def == [d EXCEPT !.allowed = IF app THEN Append(@, u) ELSE @]
            us == ToSet(def.allowed)
            vis == IF d.vis = Unset THEN "private" ELSE d.vis
            tag == IF admin THEN Nobody ELSE u
            share(b) == (IF owner = DefaultOwner THEN <<>> ELSE OrWrite(SetPolicies(b, vis, owner, us)))
                        \o OrWrite(SetTags(b, tag))
            refused == ~admin /\ u = CfgName
            j == [NoJob EXCEPT !.client = IF admin THEN CfgName ELSE u, !.s = s,
                               !.def = Stored(def, owner, list)]
            first == <<Call1("publish", None)>> \o registerMinIOWebhook(s)
            made1 == createBuckets(s, def, list, FALSE)
            new == BucketsOf(def)
            shares == ForEach(new, share)
            plan == OrStop(first) \o made1 \o shares
            blocks == IF refused THEN <<>> ELSE plan
<1>1. /\ Begin(r, "asksCreate", ph, j, blocks)
      /\ ans' = ans \/ ans' = [ans EXCEPT ![r] = "error"]
  BY DEF CreateService
<1>2. /\ owner \in Users \cup {DefaultOwner, Nobody} /\ owner \in Principals
      /\ tag \in Owners /\ isolated \in BOOLEAN /\ app \in BOOLEAN
      /\ (app /\ ~refused => u \in Users) /\ (isolated => d.in # None /\ d.isolated)
  BY DEF OwnerOf, Clients, Principals, Owners
<1>. HIDE DEF isolated, owner, tag, vis
<1>. HIDE DEF app
<1>3. ph \in Phases
  BY DEF Phases
<1>a. CASE refused
  <2>1. blocks = <<>>
    BY <1>a
  <2>2. <<>> \in Seq(Blocks(ph))
    OBVIOUS
  <2>. HIDE DEF blocks, j, ph, refused
  <2>. QED
    BY <1>1, <1>3, <2>1, <2>2, BeginKeeps
<1>b. SUFFICES ASSUME ~refused PROVE IInv'
  BY <1>a
<1>c. blocks = plan
  BY <1>b
<1>. HIDE DEF refused
<1>4. Stored(def, owner, list) \in GoodService /\ def \in ServiceDefinition /\ def.in = d.in
  BY <1>2, <1>b, StoredType
<1>5. list \in Seq(Users) /\ (list # <<>> => def.in # None)
  BY <1>4 DEF GoodService, StoredService, Stored
<1>6. us \in SUBSET Listed
  BY <1>4 DEF ServiceDefinition, ToSet
<1>. HIDE DEF def, list, us
<1>7. JobFits(ph, j)
  BY <1>4 DEF JobFits, BucketPhases, ServicePhases, NoJob
<1>8. OrStop(first) \in Seq(Blocks(ph))
  <2>1. Call1("publish", None) \in CallType(ph) /\ Call1("publish", None).op # "cutPolicy"
    BY DEF Call1, Call, CallType, StoreOps
  <2>2. first \in CallSeqs(ph) \ {<<>>}
    BY <2>1, OneCall, WebhookCalls, CallsConcat
  <2>. HIDE DEF first
  <2>. QED
    BY <2>2, BlockKinds
<1>9. made1 \in Seq(Blocks(ph))
  BY <1>4, <1>5, CreateBlocks
<1>10. new \in Seq(Names)
  BY <1>4, BucketsOfType
<1>11. shares \in Seq(Blocks(ph))
  <2>1. ASSUME NEW b \in Names PROVE share(b) \in Seq(Blocks(ph))
    <3>1. b \in Buckets
      BY DEF Buckets
    <3>2. OrWrite(SetPolicies(b, vis, owner, us)) \in Seq(Blocks(ph))
      <4>1. SetPolicies(b, vis, owner, us) \in CallSeqs(ph) \ {<<>>}
        BY <1>2, <1>6, <3>1, PolicyCalls
      <4>. QED
        BY <4>1, BlockKinds
    <3>3. OrWrite(SetTags(b, tag)) \in Seq(Blocks(ph))
      BY <1>2, <3>1, BucketCalls, BlockKinds
    <3>4. (IF owner = DefaultOwner THEN <<>> ELSE OrWrite(SetPolicies(b, vis, owner, us))) \in Seq(Blocks(ph))
      BY <3>2
    <3>. QED
      BY <3>3, <3>4, BlocksConcat
  <2>. HIDE DEF share, new
  <2>2. [i \in DOMAIN new |-> share(new[i])] \in [DOMAIN new -> Seq(Blocks(ph))]
    BY <1>10, <2>1
  <2>3. FlattenSeq([i \in DOMAIN new |-> share(new[i])]) \in Seq(Blocks(ph))
    BY <1>10, <2>2, ListType
  <2>. QED
    BY <2>3 DEF ForEach
<1>. HIDE DEF first, made1, shares, j
<1>12. plan \in Seq(Blocks(ph))
  BY <1>8, <1>9, <1>11, BlocksConcat
<1>. HIDE DEF plan
<1>13. blocks \in Seq(Blocks(ph))
  BY <1>12, <1>c
<1>. HIDE DEF blocks, ph
<1>. QED
  BY <1>1, <1>3, <1>7, <1>13, BeginKeeps

\* The update of a service.
LEMMA UpdateServiceKeeps ==
    ASSUME IInv, NEW r \in Reqs, NEW u \in Clients, NEW s \in Services, NEW d \in ServiceDefs,
           NEW o \in Users \cup {DefaultOwner, Nobody}, UpdateService(r, u, s, d, o)
    PROVE  IInv'
<1>. DEFINE ph == "updateService"
            admin == isAdminUser
            v == svc[s]
            uid == IF u = CfgName THEN Nobody ELSE u
            isolated == d.isolated /\ d.in # None /\ d.allowed # <<>>
            list == IF isolated THEN d.allowed ELSE <<>>
            owner == IF admin THEN o ELSE v.owner
            app == isolated /\ owner \notin ToSet(d.allowed)
            def == [d EXCEPT !.allowed = IF app THEN Append(@, u) ELSE @]
            w == Stored(def, owner, list)
            nameless == admin \/ u = CfgName
            refused == v = None \/ (~admin /\ v.owner # uid) \/ (nameless /\ isolated)
            j == IF refused THEN [NoJob EXCEPT !.client = u]
                 ELSE [NoJob EXCEPT !.client = u, !.s = s, !.def = w, !.old = v]
            blocks == IF refused THEN <<>> ELSE UpdateBlocks(s, v, w)
<1>1. TypeOK /\ ServicesOK
  BY DEF IInv
<1>2. /\ o \in IF v = None THEN {Nobody} ELSE IF admin THEN {v.owner, Nobody} ELSE {v.owner}
      /\ Begin(r, "asksUpdate", ph, j, blocks)
      /\ ans' = ans \/ ans' = [ans EXCEPT ![r] = "error"]
  BY DEF UpdateService
<1>3. v # None => v \in GoodService /\ v.owner \in Users \cup {DefaultOwner, Nobody}
  BY <1>1 DEF ServicesOK, GoodService, StoredService
<1>4. /\ v # None => owner \in Users \cup {DefaultOwner, Nobody}
      /\ isolated \in BOOLEAN /\ app \in BOOLEAN
      /\ (~refused => (app => u \in Users)) /\ (~refused => v # None)
      /\ (isolated => d.in # None /\ d.isolated)
  BY <1>3 DEF Clients
<1>6. ph \in Phases
  BY DEF Phases
<1>. HIDE DEF owner, isolated, app, v
<1>7. CASE refused
  <2>1. blocks = <<>>
    BY <1>7
  <2>2. <<>> \in Seq(Blocks(ph))
    OBVIOUS
  <2>. HIDE DEF blocks, j, ph, refused
  <2>. QED
    BY <1>2, <1>6, <2>1, <2>2, BeginKeeps
<1>8. CASE ~refused
  <2>1. w \in GoodService
    BY <1>4, <1>8, StoredType
  <2>0. j = [NoJob EXCEPT !.client = u, !.s = s, !.def = w, !.old = v]
    BY <1>8
  <2>. HIDE DEF w, refused, j
  <2>2. UpdateBlocks(s, v, w) \in Seq(Blocks(ph))
    BY <1>3, <1>4, <1>8, <2>1, UpdateBlocksType
  <2>3. blocks \in Seq(Blocks(ph))
    BY <1>8, <2>2
  <2>4. JobFits(ph, j)
    BY <1>3, <1>4, <1>8, <2>0, <2>1 DEF JobFits, BucketPhases, ServicePhases, NoJob
  <2>. HIDE DEF blocks, j, ph
  <2>. QED
    BY <1>2, <1>6, <2>3, <2>4, BeginKeeps
<1>. QED
  BY <1>7, <1>8

\* The delete of a service.
LEMMA DeleteServiceKeeps ==
    ASSUME IInv, NEW r \in Reqs, NEW u \in Clients, NEW s \in Services, DeleteService(r, u, s)
    PROVE  IInv'
<1>. DEFINE ph == "deleteService"
            v == svc[s]
            m == v.def.mount
            removeIsolated(x) == OrWrite(RemoveResource(UserBucket(v.def.in, x), x))
            j == [NoJob EXCEPT !.client = u, !.s = s, !.def = v]
            B1 == IF m = None THEN <<>> ELSE OrLog(CreateAddGroup(m, {}, TRUE))
            B2 == OrLog(removeMinIOWebhook(s))
            B3 == Within(deleteBuckets(s, v), FALSE)
            B4 == ForEach(v.list, removeIsolated)
            blocks == B1 \o B2 \o B3 \o B4
<1>1. TypeOK /\ ServicesOK
  BY DEF IInv
<1>2. /\ v # None /\ Arrive(r, ph, j, blocks) /\ UNCHANGED <<isAdminUser, ans>>
      /\ svc' = [svc EXCEPT ![s] = None]
  BY DEF DeleteService
<1>3. v \in GoodService
  BY <1>1, <1>2 DEF ServicesOK
<1>4. /\ v.list \in Seq(Users) /\ (v.list # <<>> => v.def.in \in Plain) /\ m \in Names \cup {None}
  BY <1>3 DEF GoodService, StoredService, ServiceDefinition, MaybeBucket, Plain
<1>5. svc' \in [Services -> StoredService \cup {None}] /\ ServicesOK'
  BY <1>1, <1>2 DEF TypeOK, ServicesOK
<1>. HIDE DEF v
<1>6. B1 \in Seq(Blocks(ph))
  <2>1. CASE m # None
    <3>1. m \in Buckets /\ {} \in SUBSET Listed
      BY <1>4, <2>1 DEF Buckets
    <3>2. CfgName \in Principals
      BY DEF Principals
    <3>. HIDE DEF m
    <3>3. CreateAddGroup(m, {}, TRUE) \in CallSeqs(ph) \ {<<>>}
      BY <3>1, <3>2, PolicyCalls
    <3>4. OrLog(CreateAddGroup(m, {}, TRUE)) \in Seq(Blocks(ph))
      BY <3>3, BlockKinds
    <3>. QED
      BY <2>1, <3>4
  <2>2. CASE m = None
    BY <2>2
  <2>. QED
    BY <2>1, <2>2
<1>7. B2 \in Seq(Blocks(ph))
  BY WebhookCalls, BlockKinds
<1>8. B3 \in Seq(Blocks(ph))
  BY <1>3, DeleteBlocks, WithinType
<1>9. B4 \in Seq(Blocks(ph))
  <2>1. ASSUME NEW i \in DOMAIN v.list PROVE removeIsolated(v.list[i]) \in Seq(Blocks(ph))
    <3>. DEFINE x == v.list[i]
    <3>1. x \in Users /\ v.def.in \in Plain
      BY <1>4
    <3>. HIDE DEF x
    <3>2. UserBucket(v.def.in, x) \in Buckets /\ x \in Principals /\ {} \in SUBSET Listed
      BY <3>1, UserBucketType DEF Principals
    <3>3. RemoveResource(UserBucket(v.def.in, x), x) \in CallSeqs(ph) \ {<<>>}
      BY <3>2, PolicyCalls
    <3>4. removeIsolated(x) \in Seq(Blocks(ph))
      BY <3>3, BlockKinds
    <3>. QED
      BY <3>4 DEF x
  <2>. HIDE DEF removeIsolated
  <2>2. [i \in DOMAIN v.list |-> removeIsolated(v.list[i])] \in [DOMAIN v.list -> Seq(Blocks(ph))]
    BY <2>1
  <2>3. FlattenSeq([i \in DOMAIN v.list |-> removeIsolated(v.list[i])]) \in Seq(Blocks(ph))
    BY <1>4, <2>2, ListType
  <2>. QED
    BY <2>3 DEF ForEach
<1>10. JobFits(ph, j)
  BY <1>3 DEF JobFits, BucketPhases, ServicePhases, NoJob
<1>11. ph \in Phases
  BY DEF Phases
<1>. HIDE DEF B1, B2, B3, B4, j, ph
<1>12. B1 \o B2 \o B3 \in Seq(Blocks(ph))
  BY <1>6, <1>7, <1>8, BlocksConcat
<1>13. blocks \in Seq(Blocks(ph))
  BY <1>9, <1>12, BlocksConcat
<1>. HIDE DEF blocks
<1>. QED
  BY <1>2, <1>5, <1>10, <1>11, <1>13, SameServices, ArriveKeeps

-----------------------------------------------------------------------------

\* Nothing is there at first.
LEMMA InitHolds == Init => IInv
<1>. SUFFICES ASSUME Init PROVE IInv
  OBVIOUS
<1>1. minio \in MinIOState
  BY DEF Init, MinIOInit, MinIOState, Policies
<1>2. ServicesOK /\ Plans
  BY DEF Init, ServicesOK, Plans, PlanOK
<1>3. got \in [Reqs -> [pol : Policies, notif : SUBSET Services, users : SUBSET Users]]
  <2>1. None \in Policies /\ {} \in SUBSET Services /\ {} \in SUBSET Users
    BY DEF Policies
  <2>2. NothingGot \in [pol : Policies, notif : SUBSET Services, users : SUBSET Users]
    BY <2>1, ReadRecords
  <2>. QED
    BY <2>2 DEF Init
<1>4. TypeOK
  BY <1>1, <1>3 DEF Init, TypeOK, Phases
<1>. QED
  BY <1>2, <1>4 DEF IInv

\* Every step keeps the invariant.
LEMMA StepKeeps == IInv /\ [Next]_vars => IInv'
<1>. SUFFICES ASSUME IInv, [Next]_vars PROVE IInv'
  OBVIOUS
<1>1. ASSUME NEW r \in Reqs, Start(r) PROVE IInv'
  BY <1>1, BucketRequestsKeep, DeleteRequestKeeps, ServiceRequestsKeep, DeleteServiceKeeps DEF Start
<1>a. ASSUME NEW r \in Reqs, Identify(r) PROVE IInv'
  BY <1>a, CreateServiceKeeps, UpdateServiceKeeps DEF Identify
<1>2. ASSUME NEW r \in Reqs, Step(r) PROVE IInv'
  BY <1>2, BucketCallsKeep, NotifCallsKeep, PolicyCallsKeep, GroupCallsKeep, OtherCallsKeep,
     DecisionsKeep, ServiceCallsKeep, StoreCallsKeep, ReturnKeeps DEF Step
<1>3. CASE UNCHANGED vars
  BY <1>3 DEF vars, IInv, TypeOK, Plans, PlanOK, JobOK, ServicesOK
<1>. QED
  BY <1>1, <1>a, <1>2, <1>3 DEF Next, Quiet

\* The inductive invariant: the types; what each request has still to do is made of calls
\* whose arguments are there and fit the phase it is in; and a policy is written back with
\* one bucket less only by a request that has just read it.
THEOREM Invariance == Spec => []IInv
BY InitHolds, StepKeeps, PTL DEF Spec

\* MinIO's state, the stored services and what requests have read keep their types, however
\* the calls of the handlers of buckets.go, create.go, update.go and delete.go interleave and
\* fail (TypeOK).
THEOREM Typing == Spec => []TypeOK
<1>1. IInv => TypeOK
  BY DEF IInv
<1>. QED
  BY <1>1, Invariance, PTL

-----------------------------------------------------------------------------
(* What a create that is undone deletes.  Nothing says of a step of the     *)
(* handler that the buckets it has not made yet are nobody else's; what     *)
(* keeps them is the order of the plan: the create gives up with all its    *)
(* buckets made, or at a bucket that is there already, when it deletes none.*)

\* The calls that the buckets of a service are made with.
Touching == {"folder", "getNotif", "addNotif"}
FirmOps == Touching \cup {"publish", "webhook", "restart", "serverInfo", "makeBucket", "isolate",
                          "infoToAdd", "addPolicy", "setPolicy"}

\* A block in which, when the buckets in E are there and nobody interferes, only a bucket
\* that is there already can be refused.
Firm(k, E) ==
    /\ k.skip = 0
    /\ \A i \in 1..Len(k.calls) :
          /\ k.calls[i].op \in FirmOps
          /\ k.calls[i].op \in {"addPolicy", "setPolicy"} => k.calls[i].p \in Users
          /\ k.calls[i].op \in Touching =>
                k.calls[i].b \in E
                \/ \E j \in 1..(i - 1) :
                      k.calls[j].op = "makeBucket" /\ k.calls[j].b = k.calls[i].b

\* A block that makes bucket b; calls, and a block, that remove only buckets in B.
Makes(k, b) == \E i \in 1..Len(k.calls) : k.calls[i].op = "makeBucket" /\ k.calls[i].b = b
Spares(s, B) == \A i \in 1..Len(s) : s[i].op = "removeBucket" => s[i].b \in B
RemovesOnly(k, B) == Spares(k.calls, B)

\* The buckets that go when the create of v is undone.
Own(v) == ({v.def.in, v.def.out} \ {None}) \cup {UserBucket(v.def.in, u) : u \in ToSet(v.list)}

\* A create that nobody interfered with has made each bucket that it would delete, or makes
\* it in a firm block at the beginning of what it has still to do.
FirmUpTo(s, n, E) == \A i \in 1..n : Firm(s[i], E)
MadeBy(s, n, b) == \E i \in 1..n : Makes(s[i], b)
InHand(r) ==
    \E n \in 0..Len(todo[r]) :
        /\ FirmUpTo(todo[r], n, minio.exists)
        /\ \A b \in Own(job[r].def) : b \in made[r] \/ MadeBy(todo[r], n, b)

\* Once nothing else has happened in between, a create deletes only what it has made.
OwnOnly(r) ==
    /\ clean[r] /\ phase[r] \in {"createService", "rollback"} =>
          \A i \in 1..Len(todo[r]) : RemovesOnly(todo[r][i], made[r])
    /\ clean[r] /\ phase[r] = "createService" /\ todo[r] # <<>> => InHand(r)

\* A request that is not in progress has nothing to do; one that is clean is alone.
Alone(r) ==
    /\ r \notin InFlight => todo[r] = <<>>
    /\ clean[r] => InFlight = {r}

Kept == \A r \in Reqs : Alone(r) /\ OwnOnly(r)

\* A flattened sequence has the elements of its parts.
LEMMA FlattenHas ==
    ASSUME NEW S, NEW seqs \in Seq(Seq(S)), NEW i \in 1..Len(seqs), NEW k \in 1..Len(seqs[i])
    PROVE  \E m \in 1..Len(FlattenSeq(seqs)) : FlattenSeq(seqs)[m] = seqs[i][k]
<1>. DEFINE n == Len(seqs)
            f[j \in 1..n] == IF j = 1 THEN seqs[j] ELSE f[j-1] \o seqs[j]
            Has(s) == \E m \in 1..Len(s) : s[m] = seqs[i][k]
<1>1. n \in Nat \ {0} /\ (\A j \in 1..n : seqs[j] \in Seq(S)) /\ i \in 1..n
  OBVIOUS
<1>2. f = [j \in 1..n |-> IF j = 1 THEN seqs[j] ELSE f[j-1] \o seqs[j]]
  BY <1>1, FlattenDef
<1>3. FlattenSeq(seqs) = f[n]
  BY <1>1 DEF FlattenSeq
<1>4. Has(seqs[i])
  OBVIOUS
<1>. HIDE DEF f, n
<1>5. ASSUME NEW s \in Seq(S), NEW t \in Seq(S)
      PROVE  (Has(s) => Has(s \o t)) /\ (Has(t) => Has(s \o t))
  <2>1. /\ Len(s \o t) = Len(s) + Len(t) /\ Len(s) \in Nat /\ Len(t) \in Nat
        /\ \A m \in 1..Len(s) : (s \o t)[m] = s[m]
        /\ \A m \in 1..Len(t) : (s \o t)[m + Len(s)] = t[m]
    OBVIOUS
  <2>2. ASSUME NEW m \in 1..Len(s), s[m] = seqs[i][k] PROVE Has(s \o t)
    <3>1. m \in 1..Len(s \o t) /\ (s \o t)[m] = seqs[i][k]
      BY <2>1, <2>2
    <3>. QED
      BY <3>1
  <2>3. ASSUME NEW m \in 1..Len(t), t[m] = seqs[i][k] PROVE Has(s \o t)
    <3>1. m + Len(s) \in 1..Len(s \o t) /\ (s \o t)[m + Len(s)] = seqs[i][k]
      BY <2>1, <2>3
    <3>. QED
      BY <3>1
  <2>. QED
    BY <2>2, <2>3
<1>. HIDE DEF Has
<1>. DEFINE T == {m \in Nat : m \in 1..n => f[m] \in Seq(S) /\ (i <= m => Has(f[m]))}
<1>6. 0 \in T
  OBVIOUS
<1>7. ASSUME NEW m \in Nat, m \in T PROVE m + 1 \in T
  <2>. SUFFICES ASSUME m + 1 \in 1..n PROVE f[m + 1] \in Seq(S) /\ (i <= m + 1 => Has(f[m + 1]))
    OBVIOUS
  <2>1. CASE m = 0
    <3>1. f[m + 1] = seqs[m + 1] /\ seqs[m + 1] \in Seq(S)
      BY <1>1, <1>2, <2>1
    <3>2. i <= m + 1 => i = m + 1
      BY <1>1, <2>1
    <3>. QED
      BY <1>4, <3>1, <3>2
  <2>2. CASE m # 0
    <3>1. m \in 1..n /\ (m + 1) - 1 = m /\ m + 1 # 1
      BY <1>1, <2>2
    <3>2. f[m + 1] = f[m] \o seqs[m + 1]
      BY <1>2, <3>1
    <3>3. f[m] \in Seq(S) /\ seqs[m + 1] \in Seq(S) /\ (i <= m => Has(f[m]))
      BY <1>1, <1>7, <3>1
    <3>4. i <= m + 1 => i <= m \/ i = m + 1
      BY <1>1
    <3>5. (Has(f[m]) => Has(f[m] \o seqs[m + 1])) /\ (Has(seqs[m + 1]) => Has(f[m] \o seqs[m + 1]))
      BY <1>5, <3>3
    <3>6. f[m] \o seqs[m + 1] \in Seq(S)
      BY <3>3
    <3>. QED
      BY <1>4, <3>2, <3>3, <3>4, <3>5, <3>6
  <2>. QED
    BY <2>1, <2>2
<1>8. n \in T
  <2>. HIDE DEF T
  <2>. QED
    BY <1>1, <1>6, <1>7, SetInduction
<1>9. Has(f[n])
  BY <1>1, <1>8
<1>. QED
  BY <1>3, <1>9 DEF Has

\* What is left after the first call of a plan, block by block.
LEMMA RestShape ==
    ASSUME NEW r \in Reqs, PlanOK(r), todo[r] # <<>>
    PROVE  LET t == todo[r]
               x == Rest(r)
           IN  /\ Len(t) \in Nat \ {0} /\ Len(x) \in Nat /\ Len(t[1].calls) \in Nat \ {0}
               /\ \/ /\ Len(t[1].calls) = 1 /\ Len(x) = Len(t) - 1
                     /\ \A i \in 1..Len(x) : x[i] = t[i + 1]
                  \/ /\ Len(t[1].calls) > 1 /\ Len(x) = Len(t)
                     /\ x[1].skip = t[1].skip
                     /\ Len(x[1].calls) = Len(t[1].calls) - 1
                     /\ \A i \in 1..Len(x[1].calls) : x[1].calls[i] = t[1].calls[i + 1]
                     /\ \A i \in 2..Len(x) : x[i] = t[i]
<1>. DEFINE t == todo[r]
            k == t[1]
            B == LooseBlocks(phase[r])
<1>1. t \in Seq(B) /\ t # <<>> /\ Head(t) = k /\ k \in B
  BY CallAndRest DEF PlanOK
<1>2. Rest(r) = IF Len(k.calls) = 1 THEN Tail(t) ELSE <<[k EXCEPT !.calls = Tail(@)]>> \o Tail(t)
  BY <1>1 DEF Rest
<1>3. k.calls \in Seq(CallType(phase[r])) /\ k.calls # <<>>
      /\ k = [calls |-> k.calls, skip |-> k.skip, log |-> k.log]
  BY <1>1 DEF LooseBlocks
<1>. DEFINE cs == k.calls
            l == [k EXCEPT !.calls = Tail(@)]
<1>4. l.calls = Tail(cs) /\ l.skip = k.skip
  BY <1>3
<1>. HIDE DEF l, B
<1>5. cs \in Seq(CallType(phase[r])) /\ cs # <<>>
  BY <1>3
<1>. HIDE DEF k, cs
<1>6. /\ Len(t) \in Nat \ {0} /\ Len(Tail(t)) = Len(t) - 1 /\ Tail(t) \in Seq(B)
      /\ \A i \in 1..Len(Tail(t)) : Tail(t)[i] = t[i + 1]
  BY <1>1
<1>7. Len(cs) \in Nat \ {0} /\ Len(Tail(cs)) = Len(cs) - 1
      /\ \A i \in 1..Len(Tail(cs)) : Tail(cs)[i] = cs[i + 1]
  BY <1>5
<1>. HIDE DEF t
<1>8. CASE Len(cs) = 1
  BY <1>2, <1>6, <1>7, <1>8 DEF t, k, cs
<1>9. CASE Len(cs) # 1
  <2>. DEFINE u == Tail(t)
              x == <<l>> \o u
  <2>1. Rest(r) = x
    BY <1>2, <1>9 DEF cs, l, k, t
  <2>2. u \in Seq(B) /\ Len(u) = Len(t) - 1 /\ \A i \in 1..Len(u) : u[i] = t[i + 1]
    BY <1>6
  <2>. HIDE DEF u
  <2>3. Len(x) = Len(u) + 1 /\ x[1] = l /\ \A i \in 2..Len(x) : x[i] = u[i - 1]
    <3>1. u \in Seq(B \cup {l}) /\ <<l>> \in Seq(B \cup {l})
      BY <2>2
    <3>. QED
      BY <3>1
  <2>. HIDE DEF x
  <2>4. ASSUME NEW i \in 2..Len(x) PROVE x[i] = t[i]
    <3>1. i - 1 \in 1..Len(u) /\ (i - 1) + 1 = i
      BY <1>6, <2>2, <2>3
    <3>. QED
      BY <2>2, <2>3, <3>1
  <2>5. Len(x) = Len(t) /\ Len(cs) > 1
    BY <1>6, <1>7, <1>9, <2>2, <2>3
  <2>6. x[1].skip = k.skip /\ Len(x[1].calls) = Len(cs) - 1
        /\ \A i \in 1..Len(x[1].calls) : x[1].calls[i] = cs[i + 1]
    BY <1>4, <1>7, <2>3
  <2>. QED
    BY <1>6, <1>7, <2>1, <2>4, <2>5, <2>6 DEF t, k, cs
<1>. QED
  BY <1>8, <1>9

\* What is left removes what the plan would.
LEMMA RestRemoves ==
    ASSUME NEW r \in Reqs, PlanOK(r), todo[r] # <<>>, NEW B,
           \A i \in 1..Len(todo[r]) : RemovesOnly(todo[r][i], B)
    PROVE  \A i \in 1..Len(Rest(r)) : RemovesOnly(Rest(r)[i], B)
<1>. DEFINE t == todo[r]
            x == Rest(r)
<1>1. /\ Len(t) \in Nat \ {0} /\ Len(x) \in Nat /\ Len(t[1].calls) \in Nat \ {0}
      /\ \/ /\ Len(t[1].calls) = 1 /\ Len(x) = Len(t) - 1
            /\ \A i \in 1..Len(x) : x[i] = t[i + 1]
         \/ /\ Len(t[1].calls) > 1 /\ Len(x) = Len(t)
            /\ x[1].skip = t[1].skip
            /\ Len(x[1].calls) = Len(t[1].calls) - 1
            /\ \A i \in 1..Len(x[1].calls) : x[1].calls[i] = t[1].calls[i + 1]
            /\ \A i \in 2..Len(x) : x[i] = t[i]
  BY RestShape
<1>2. \A i \in 1..Len(t) : RemovesOnly(t[i], B)
  OBVIOUS
<1>. HIDE DEF t, x
<1>. SUFFICES ASSUME NEW i \in 1..Len(x) PROVE RemovesOnly(x[i], B)
  BY DEF x
<1>3. CASE Len(x) = Len(t) - 1 /\ \A m \in 1..Len(x) : x[m] = t[m + 1]
  <2>1. i + 1 \in 1..Len(t) /\ x[i] = t[i + 1]
    BY <1>1, <1>3
  <2>. QED
    BY <1>2, <2>1
<1>4. CASE /\ Len(t[1].calls) > 1 /\ Len(x) = Len(t)
           /\ Len(x[1].calls) = Len(t[1].calls) - 1
           /\ \A m \in 1..Len(x[1].calls) : x[1].calls[m] = t[1].calls[m + 1]
           /\ \A m \in 2..Len(x) : x[m] = t[m]
  <2>1. CASE i = 1
    <3>. SUFFICES ASSUME NEW m \in 1..Len(x[1].calls), x[1].calls[m].op = "removeBucket"
                  PROVE  x[1].calls[m].b \in B
      BY <2>1 DEF RemovesOnly, Spares
    <3>1. m + 1 \in 1..Len(t[1].calls) /\ x[1].calls[m] = t[1].calls[m + 1]
      BY <1>1, <1>4
    <3>2. RemovesOnly(t[1], B)
      BY <1>1, <1>2
    <3>. QED
      BY <3>1, <3>2 DEF RemovesOnly, Spares
  <2>2. CASE i # 1
    <3>1. i \in 2..Len(x) /\ i \in 1..Len(t) /\ x[i] = t[i]
      BY <1>1, <1>4, <2>2
    <3>. QED
      BY <1>2, <3>1
  <2>. QED
    BY <2>1, <2>2
<1>. QED
  BY <1>1, <1>3, <1>4

\* The firm blocks that are left after the first call, and the buckets that they make.
LEMMA RestFirm ==
    ASSUME NEW r \in Reqs, PlanOK(r), todo[r] # <<>>, NEW E, NEW F, E \subseteq F,
           NEW n \in 1..Len(todo[r]), FirmUpTo(todo[r], n, E),
           C(r).op = "makeBucket" => C(r).b \in F
    PROVE  \E m \in 0..Len(Rest(r)) :
              /\ FirmUpTo(Rest(r), m, F)
              /\ \A b : MadeBy(todo[r], n, b) =>
                    (C(r).op = "makeBucket" /\ b = C(r).b) \/ MadeBy(Rest(r), m, b)
<1>. DEFINE t == todo[r]
            x == Rest(r)
            c == C(r)
<1>1. /\ Len(t) \in Nat \ {0} /\ Len(x) \in Nat /\ Len(t[1].calls) \in Nat \ {0}
      /\ \/ /\ Len(t[1].calls) = 1 /\ Len(x) = Len(t) - 1
            /\ \A i \in 1..Len(x) : x[i] = t[i + 1]
         \/ /\ Len(t[1].calls) > 1 /\ Len(x) = Len(t)
            /\ x[1].skip = t[1].skip
            /\ Len(x[1].calls) = Len(t[1].calls) - 1
            /\ \A i \in 1..Len(x[1].calls) : x[1].calls[i] = t[1].calls[i + 1]
            /\ \A i \in 2..Len(x) : x[i] = t[i]
  BY RestShape
<1>2. c = t[1].calls[1]
  BY CallAndRest
<1>3. /\ n \in 1..Len(t) /\ (\A i \in 1..n : Firm(t[i], E)) /\ (c.op = "makeBucket" => c.b \in F)
  BY DEF FirmUpTo
<1>. HIDE DEF t, x, c
<1>. SUFFICES \E m \in 0..Len(x) :
                 /\ \A i \in 1..m : Firm(x[i], F)
                 /\ \A b : (\E i \in 1..n : Makes(t[i], b)) =>
                       (c.op = "makeBucket" /\ b = c.b) \/ \E i \in 1..m : Makes(x[i], b)
  BY DEF t, x, c, FirmUpTo, MadeBy
<1>4. \A k : Firm(k, E) => Firm(k, F)
  BY DEF Firm
<1>5. CASE Len(t[1].calls) = 1 /\ Len(x) = Len(t) - 1 /\ \A i \in 1..Len(x) : x[i] = t[i + 1]
  <2>1. n - 1 \in 0..Len(x)
    BY <1>1, <1>3, <1>5
  <2>2. ASSUME NEW i \in 1..(n - 1) PROVE Firm(x[i], F)
    <3>1. i + 1 \in 1..n /\ i \in 1..Len(x) /\ x[i] = t[i + 1]
      BY <1>3, <1>5, <2>1
    <3>. QED
      BY <1>3, <1>4, <3>1
  <2>3. ASSUME NEW b, NEW i \in 1..n, Makes(t[i], b)
        PROVE  (c.op = "makeBucket" /\ b = c.b) \/ \E m \in 1..(n - 1) : Makes(x[m], b)
    <3>1. CASE i = 1
      BY <1>2, <1>5, <2>3, <3>1 DEF Makes
    <3>2. CASE i # 1
      <4>1. i - 1 \in 1..(n - 1) /\ i - 1 \in 1..Len(x) /\ (i - 1) + 1 = i
        BY <1>3, <2>1, <3>2
      <4>2. x[i - 1] = t[i]
        BY <1>5, <4>1
      <4>. QED
        BY <2>3, <4>1, <4>2
    <3>. QED
      BY <3>1, <3>2
  <2>. QED
    BY <2>1, <2>2, <2>3
<1>6. CASE /\ Len(t[1].calls) > 1 /\ Len(x) = Len(t)
           /\ x[1].skip = t[1].skip
           /\ Len(x[1].calls) = Len(t[1].calls) - 1
           /\ \A i \in 1..Len(x[1].calls) : x[1].calls[i] = t[1].calls[i + 1]
           /\ \A i \in 2..Len(x) : x[i] = t[i]
  <2>1. n \in 0..Len(x) /\ 1 \in 1..n
    BY <1>1, <1>3, <1>6
  <2>2. Firm(x[1], F)
    <3>0. Firm(t[1], E)
      BY <1>3, <2>1
    <3>1. ASSUME NEW i \in 1..Len(x[1].calls)
          PROVE  /\ x[1].calls[i].op \in FirmOps
                 /\ x[1].calls[i].op \in {"addPolicy", "setPolicy"} => x[1].calls[i].p \in Users
                 /\ x[1].calls[i].op \in Touching =>
                       x[1].calls[i].b \in F
                       \/ \E j \in 1..(i - 1) : x[1].calls[j].op = "makeBucket" /\ x[1].calls[j].b = x[1].calls[i].b
      <4>1. i + 1 \in 1..Len(t[1].calls) /\ x[1].calls[i] = t[1].calls[i + 1]
        BY <1>1, <1>6
      <4>2. /\ x[1].calls[i].op \in FirmOps
            /\ x[1].calls[i].op \in {"addPolicy", "setPolicy"} => x[1].calls[i].p \in Users
        BY <3>0, <4>1 DEF Firm
      <4>3. ASSUME x[1].calls[i].op \in Touching, x[1].calls[i].b \notin F
            PROVE  \E j \in 1..(i - 1) : x[1].calls[j].op = "makeBucket" /\ x[1].calls[j].b = x[1].calls[i].b
        <5>1. t[1].calls[i + 1].b \notin E
          BY <4>1, <4>3
        <5>2. PICK j \in 1..((i + 1) - 1) : t[1].calls[j].op = "makeBucket" /\ t[1].calls[j].b = t[1].calls[i + 1].b
          BY <3>0, <4>1, <4>3, <5>1 DEF Firm
        <5>3. j # 1
          BY <1>2, <1>3, <4>1, <4>3, <5>2
        <5>4. j - 1 \in 1..(i - 1) /\ j - 1 \in 1..Len(x[1].calls) /\ (j - 1) + 1 = j
          BY <5>2, <5>3
        <5>5. x[1].calls[j - 1] = t[1].calls[j]
          BY <1>6, <5>4
        <5>. QED
          BY <4>1, <5>2, <5>4, <5>5
      <4>. QED
        BY <4>2, <4>3
    <3>. QED
      BY <1>6, <3>0, <3>1 DEF Firm
  <2>3. ASSUME NEW i \in 1..n PROVE Firm(x[i], F)
    <3>1. CASE i = 1
      BY <2>2, <3>1
    <3>2. CASE i # 1
      <4>1. i \in 2..Len(x) /\ x[i] = t[i]
        BY <1>3, <1>6, <3>2
      <4>. QED
        BY <1>3, <1>4, <4>1
    <3>. QED
      BY <3>1, <3>2
  <2>4. ASSUME NEW b, NEW i \in 1..n, Makes(t[i], b)
        PROVE  (c.op = "makeBucket" /\ b = c.b) \/ \E m \in 1..n : Makes(x[m], b)
    <3>1. CASE i = 1
      <4>1. PICK j \in 1..Len(t[1].calls) : t[1].calls[j].op = "makeBucket" /\ t[1].calls[j].b = b
        BY <2>4, <3>1 DEF Makes
      <4>2. CASE j = 1
        BY <1>2, <4>1, <4>2
      <4>3. CASE j # 1
        <5>1. j - 1 \in 1..Len(x[1].calls) /\ (j - 1) + 1 = j
          BY <1>1, <1>6, <4>1, <4>3
        <5>2. x[1].calls[j - 1] = t[1].calls[j]
          BY <1>6, <5>1
        <5>3. Makes(x[1], b)
          BY <4>1, <5>1, <5>2 DEF Makes
        <5>. QED
          BY <2>1, <5>3
      <4>. QED
        BY <4>2, <4>3
    <3>2. CASE i # 1
      <4>1. i \in 2..Len(x) /\ x[i] = t[i]
        BY <1>3, <1>6, <3>2
      <4>. QED
        BY <2>4, <4>1
    <3>. QED
      BY <3>1, <3>2
  <2>. QED
    BY <2>1, <2>3, <2>4
<1>. QED
  BY <1>1, <1>5, <1>6

\* A call of a create, or of its undoing, has returned.
LEMMA GoesOn ==
    ASSUME NEW r \in Reqs, PlanOK(r), todo[r] # <<>>, OwnOnly(r), clean[r],
           phase[r] \in {"createService", "rollback"},
           NEW ph, NEW blocks \in Seq(Blocks(ph)), ph = phase[r],
           todo'[r] = blocks \o Rest(r), phase'[r] = phase[r], job'[r] = job[r],
           made[r] \subseteq made'[r], \A i \in 1..Len(blocks) : RemovesOnly(blocks[i], made'[r]),
           \/ phase[r] = "rollback" \/ Own(job[r].def) \subseteq made[r]
           \/ /\ \A i \in 1..Len(blocks) : Firm(blocks[i], minio'.exists)
              /\ minio.exists \subseteq minio'.exists
              /\ C(r).op = "makeBucket" => C(r).b \in minio'.exists /\ C(r).b \in made'[r]
    PROVE  OwnOnly(r)'
<1>. DEFINE x == Rest(r)
            B == made'[r]
            own == Own(job[r].def)
<1>1. x \in Seq(LooseBlocks(ph)) /\ blocks \in Seq(LooseBlocks(ph))
  BY CallAndRest, FreshPlan
<1>2. \A i \in 1..Len(x) : RemovesOnly(x[i], B)
  <2>1. \A i \in 1..Len(todo[r]) : RemovesOnly(todo[r][i], B)
    BY DEF OwnOnly, RemovesOnly, Spares
  <2>. HIDE DEF B
  <2>. QED
    BY <2>1, RestRemoves
<1>. HIDE DEF x
<1>3. /\ Len(blocks \o x) = Len(blocks) + Len(x) /\ Len(blocks) \in Nat /\ Len(x) \in Nat
      /\ \A i \in 1..Len(blocks) : (blocks \o x)[i] = blocks[i]
      /\ \A i \in 1..Len(x) : (blocks \o x)[i + Len(blocks)] = x[i]
  BY <1>1
<1>4. \A i \in 1..Len(blocks \o x) : RemovesOnly((blocks \o x)[i], B)
  <2>. SUFFICES ASSUME NEW i \in 1..Len(blocks \o x) PROVE RemovesOnly((blocks \o x)[i], B)
    OBVIOUS
  <2>. HIDE DEF B
  <2>1. CASE i <= Len(blocks)
    <3>1. i \in 1..Len(blocks) /\ (blocks \o x)[i] = blocks[i]
      BY <1>3, <2>1
    <3>. QED
      BY <3>1 DEF B
  <2>2. CASE i > Len(blocks)
    <3>1. i - Len(blocks) \in 1..Len(x) /\ (i - Len(blocks)) + Len(blocks) = i
      BY <1>3, <2>2
    <3>2. (blocks \o x)[i] = x[i - Len(blocks)]
      BY <1>3, <3>1
    <3>. QED
      BY <1>2, <3>1, <3>2
  <2>. QED
    BY <1>3, <2>1, <2>2
<1>5. todo'[r] = blocks \o x /\ own' = own
  BY DEF x
<1>6. ASSUME phase[r] = "createService" PROVE InHand(r)'
  <2>1. CASE own \subseteq made[r]
    <3>1. 0 \in 0..Len(todo'[r]) /\ \A b \in own : b \in made'[r]
      BY <1>3, <1>5, <2>1
    <3>. HIDE DEF own
    <3>2. FirmUpTo(todo'[r], 0, minio'.exists)
      BY DEF FirmUpTo
    <3>. QED
      BY <1>5, <3>1, <3>2 DEF InHand, own
  <2>2. CASE ~(own \subseteq made[r])
    <3>1. PICK n \in 0..Len(todo[r]) :
             /\ FirmUpTo(todo[r], n, minio.exists)
             /\ \A b \in own : b \in made[r] \/ MadeBy(todo[r], n, b)
      BY <1>6 DEF OwnOnly, InHand
    <3>2. n \in 1..Len(todo[r])
      <4>1. n # 0
        BY <2>2, <3>1 DEF MadeBy
      <4>. QED
        BY <4>1
    <3>. DEFINE E == minio.exists
                F == minio'.exists
    <3>3. /\ \A i \in 1..Len(blocks) : Firm(blocks[i], F)
          /\ E \subseteq F
          /\ C(r).op = "makeBucket" => C(r).b \in F /\ C(r).b \in made'[r]
      BY <1>6, <2>2
    <3>. HIDE DEF E, F, own
    <3>4. PICK m \in 0..Len(Rest(r)) :
              /\ FirmUpTo(Rest(r), m, F)
              /\ \A b : MadeBy(todo[r], n, b) =>
                    (C(r).op = "makeBucket" /\ b = C(r).b) \/ MadeBy(Rest(r), m, b)
      <4>1. FirmUpTo(todo[r], n, E)
        BY <3>1 DEF E
      <4>2. (C(r).op = "makeBucket" => C(r).b \in F) /\ E \subseteq F
        BY <3>3
      <4>3. PlanOK(r) /\ todo[r] # <<>>
        OBVIOUS
      <4>. QED
        BY ONLY <3>2, <4>1, <4>2, <4>3, r \in Reqs, RestFirm
    <3>. DEFINE y == blocks \o x
                l == Len(blocks)
    <3>5. m + l \in 0..Len(y) /\ l \in Nat /\ m \in Nat
      BY <1>3, <3>4 DEF x
    <3>6. ASSUME NEW i \in 1..(m + l) PROVE Firm(y[i], F)
      <4>1. CASE i <= l
        <5>1. i \in 1..Len(blocks) /\ y[i] = blocks[i]
          BY <1>3, <3>5, <4>1
        <5>. QED
          BY <3>3, <5>1
      <4>2. CASE i > l
        <5>1. i - l \in 1..m /\ i - l \in 1..Len(x) /\ (i - l) + l = i
          BY <3>4, <3>5, <4>2 DEF x
        <5>2. y[i] = x[i - l]
          BY <1>3, <5>1
        <5>. QED
          BY <3>4, <5>1, <5>2 DEF x, FirmUpTo
      <4>. QED
        BY <3>5, <4>1, <4>2
    <3>7. ASSUME NEW b \in own PROVE b \in made'[r] \/ \E i \in 1..(m + l) : Makes(y[i], b)
      <4>. SUFFICES ASSUME b \notin made'[r] PROVE \E i \in 1..(m + l) : Makes(y[i], b)
        OBVIOUS
      <4>1. PICK i \in 1..m : Makes(x[i], b)
        BY <3>1, <3>3, <3>4 DEF x, MadeBy
      <4>2. i + l \in 1..(m + l) /\ i \in 1..Len(x)
        BY <3>4, <3>5, <4>1 DEF x
      <4>3. y[i + l] = x[i]
        BY <1>3, <4>2
      <4>. QED
        BY <4>1, <4>2, <4>3
    <3>. HIDE DEF y, l
    <3>8. todo'[r] = y
      BY <1>5 DEF y
    <3>. QED
      BY <1>5, <3>5, <3>6, <3>7, <3>8 DEF InHand, F, own, FirmUpTo, MadeBy
  <2>. QED
    BY <2>1, <2>2
<1>. HIDE DEF own, B
<1>7. \A i \in 1..Len(todo'[r]) : RemovesOnly(todo'[r][i], made'[r])
  BY <1>4, <1>5 DEF B
<1>. QED
  BY <1>6, <1>7 DEF OwnOnly

\* Calls, one after the other, remove what they do.
LEMMA SparesConcat ==
    ASSUME NEW S, NEW s \in Seq(S), NEW t \in Seq(S), NEW B, Spares(s, B), Spares(t, B)
    PROVE  Spares(s \o t, B)
<1>1. /\ Len(s \o t) = Len(s) + Len(t) /\ Len(s) \in Nat /\ Len(t) \in Nat
      /\ \A i \in 1..Len(s) : (s \o t)[i] = s[i]
      /\ \A i \in 1..Len(t) : (s \o t)[i + Len(s)] = t[i]
  OBVIOUS
<1>. SUFFICES ASSUME NEW i \in 1..Len(s \o t), (s \o t)[i].op = "removeBucket"
              PROVE  (s \o t)[i].b \in B
  BY DEF Spares
<1>2. CASE i <= Len(s)
  <2>1. i \in 1..Len(s) /\ (s \o t)[i] = s[i]
    BY <1>1, <1>2
  <2>. QED
    BY <2>1 DEF Spares
<1>3. CASE i > Len(s)
  <2>1. i - Len(s) \in 1..Len(t) /\ (i - Len(s)) + Len(s) = i
    BY <1>1, <1>3
  <2>2. (s \o t)[i] = t[i - Len(s)]
    BY <1>1, <2>1
  <2>. QED
    BY <2>1, <2>2 DEF Spares
<1>. QED
  BY <1>1, <1>2, <1>3

\* Only the delete of a bucket removes it.
LEMMA SparesAll ==
    ASSUME NEW b \in Buckets, NEW p \in Principals, NEW o \in Owners, NEW us \in SUBSET Listed, NEW s \in Services,
           NEW vis, NEW there \in BOOLEAN, NEW B
    PROVE  /\ Spares(CreateS3Path(b, there), B) /\ Spares(CreateS3PathWithWebhook(b, s), B)
           /\ Spares(disableInputNotifications(b, s), B) /\ Spares(SetTags(b, o), B)
           /\ Spares(CreateAddPolicy(b, p), B) /\ Spares(SetPolicies(b, vis, p, us), B)
           /\ Spares(SeeVisibility(p, b), B)
           /\ b \in B => Spares(DeleteMinIOBuckets(b, vis, o), B)
<1>. DEFINE ph == "createService"
<1>1. \A x, y, z, vs : Call(x, y, z, vs).op = x /\ Call(x, y, z, vs).b = y
      /\ Call1(x, y).op = x /\ Call1(x, y).b = y
  BY DEF Call, Call1
<1>2. /\ CreateS3Path(b, TRUE) \in CallSeqs(ph) /\ CreateS3Path(b, FALSE) \in CallSeqs(ph)
      /\ b \in Principals /\ AllUsers \in Principals /\ o \in Principals
  BY BucketCalls DEF Principals, Groups, Owners
<1>3. /\ Spares(CreateS3Path(b, TRUE), B) /\ Spares(CreateS3Path(b, FALSE), B)
      /\ Spares(CreateS3PathWithWebhook(b, s), B)
  <2>. DEFINE m == createBucket(b)
              f == <<Call1("folder", b)>>
              e == enableInputNotification(b, s)
              T == CallType(ph)
  <2>1. m \in Seq(T) /\ f \in Seq(T) /\ e \in Seq(T) /\ <<>> \in Seq(T)
    <3>1. /\ Call1("makeBucket", b) \in T /\ Call1("folder", b) \in T
          /\ Call1("getNotif", b) \in T /\ Call("addNotif", b, s, {}) \in T
      BY DEF CallType, Call1, Call
    <3>. HIDE DEF T
    <3>. QED
      BY <3>1 DEF createBucket, enableInputNotification
  <2>2. Spares(m, B) /\ Spares(f, B) /\ Spares(e, B) /\ Spares(<<>>, B)
    BY <1>1 DEF Spares, createBucket, enableInputNotification
  <2>3. /\ CreateS3Path(b, TRUE) = <<>> \o f /\ CreateS3Path(b, FALSE) = m \o f
        /\ CreateS3PathWithWebhook(b, s) = (m \o f) \o e
    <3>1. CreateS3Path(b, TRUE) = <<>> \o f
      BY Zenon DEF CreateS3Path
    <3>2. CreateS3Path(b, FALSE) = m \o f
      BY Zenon DEF CreateS3Path
    <3>. QED
      BY <3>1, <3>2, Zenon DEF CreateS3PathWithWebhook
  <2>. HIDE DEF m, f, e, T
  <2>4. Spares(<<>> \o f, B) /\ Spares(m \o f, B) /\ m \o f \in Seq(T)
    <3>1. Spares(<<>> \o f, B) /\ Spares(m \o f, B)
      BY <2>1, <2>2, SparesConcat
    <3>. QED
      BY <2>1, <3>1
  <2>5. Spares((m \o f) \o e, B)
    BY <2>1, <2>2, <2>4, SparesConcat
  <2>. QED
    BY <2>3, <2>4, <2>5
<1>5. Spares(disableInputNotifications(b, s), B) /\ Spares(SetTags(b, o), B)
  BY <1>1 DEF Spares, disableInputNotifications, SetTags
<1>6. ASSUME NEW q \in Principals
      PROVE  /\ Spares(CreateAddPolicy(b, q), B) /\ CreateAddPolicy(b, q) \in CallSeqs(ph)
             /\ Spares(RemoveResource(b, q), B) /\ RemoveResource(b, q) \in CallSeqs(ph)
  <2>1. Spares(CreateAddPolicy(b, q), B) /\ Spares(RemoveResource(b, q), B)
    BY <1>1 DEF Spares, CreateAddPolicy, RemoveResource
  <2>2. {} \in SUBSET Listed
    OBVIOUS
  <2>. QED
    BY <2>1, <2>2, PolicyCalls
<1>7. Spares(SetPolicies(b, vis, p, us), B)
  <2>. DEFINE g == CreateAddGroup(b, us, FALSE)
              a == CreateAddPolicy(b, b)
  <2>1. Spares(g, B) /\ g \in CallSeqs(ph)
    <3>1. Spares(g, B)
      BY <1>1 DEF Spares, CreateAddGroup
    <3>2. Call("addMembers", None, b, us) \in CallType(ph)
      BY DEF Call, CallType, Groups
    <3>. QED
      BY <1>1, <3>1, <3>2, OneCall DEF CreateAddGroup
  <2>2. Spares(a, B) /\ a \in CallSeqs(ph)
    BY <1>2, <1>6
  <2>. HIDE DEF g, a
  <2>3. Spares(g \o a, B) /\ g \o a \in CallSeqs(ph) /\ Spares(<<>>, B) /\ <<>> \in CallSeqs(ph)
    <3>1. g \in Seq(CallType(ph)) /\ a \in Seq(CallType(ph))
      BY <2>1, <2>2 DEF CallSeqs
    <3>2. Spares(g \o a, B)
      BY <2>1, <2>2, <3>1, SparesConcat
    <3>3. g \o a \in CallSeqs(ph)
      BY <2>1, <2>2, CallsConcat
    <3>4. Spares(<<>>, B)
      BY DEF Spares
    <3>. QED
      BY <3>2, <3>3, <3>4, NoCall
  <2>. DEFINE x == IF vis = "restricted" THEN g \o a ELSE <<>>
  <2>4. Spares(x, B) /\ x \in Seq(CallType(ph))
    BY <2>3 DEF CallSeqs
  <2>5. SetPolicies(b, vis, p, us) = IF vis \in {"restricted", "private"} THEN CreateAddPolicy(b, p) \o x
                                     ELSE CreateAddPolicy(b, AllUsers)
    BY DEF SetPolicies, g, a
  <2>6. Spares(CreateAddPolicy(b, p), B) /\ CreateAddPolicy(b, p) \in Seq(CallType(ph)) /\ Spares(CreateAddPolicy(b, AllUsers), B)
    BY <1>2, <1>6 DEF CallSeqs
  <2>. HIDE DEF x
  <2>7. Spares(CreateAddPolicy(b, p) \o x, B)
    BY <2>4, <2>6, SparesConcat
  <2>. QED
    BY <2>5, <2>6, <2>7
<1>8. Spares(SeeVisibility(p, b), B)
  BY <1>1 DEF Spares, SeeVisibility
<1>9. ASSUME b \in B PROVE Spares(DeleteMinIOBuckets(b, vis, o), B)
  <2>. DEFINE x == UnsetPolicies(b, vis, o)
              y == DeleteBucket(b)
              g == RemoveGroupPolicy(b)
  <2>1. Spares(y, B)
    BY <1>1, <1>9 DEF Spares, DeleteBucket
  <2>2. y \in CallSeqs(ph) /\ x \in CallSeqs(ph)
    BY <1>2, BucketCalls, PolicyCalls
  <2>3. Spares(x, B)
    <3>. DEFINE q == IF vis = "public" THEN AllUsers ELSE o
                z == RemoveResource(b, q)
    <3>1. Spares(z, B) /\ z \in Seq(CallType(ph))
      BY <1>2, <1>6 DEF CallSeqs
    <3>. DEFINE g1 == <<Call("members", None, b, {}), Call("removeFound", None, b, {})>>
                g2 == <<Call("removeMembers", None, b, {})>>
                g3 == <<Call("removePolicy", None, b, {})>>
                T == CallType(ph)
    <3>2. g = (g1 \o g2) \o g3
      BY DEF RemoveGroupPolicy, CreateAddGroup
    <3>3. Spares(g1, B) /\ Spares(g2, B) /\ Spares(g3, B)
      BY <1>1 DEF Spares
    <3>4. g1 \in Seq(T) /\ g2 \in Seq(T) /\ g3 \in Seq(T)
      <4>1. /\ Call("members", None, b, {}) \in T /\ Call("removeFound", None, b, {}) \in T
            /\ Call("removeMembers", None, b, {}) \in T /\ Call("removePolicy", None, b, {}) \in T
        BY DEF Call, CallType, Groups
      <4>. HIDE DEF T
      <4>. QED
        BY <4>1
    <3>a. Spares(g, B) /\ g \in Seq(T)
      <4>. HIDE DEF g1, g2, g3, T, g
      <4>1. Spares(g1 \o g2, B) /\ g1 \o g2 \in Seq(T)
        BY <3>3, <3>4, SparesConcat
      <4>. DEFINE g4 == g1 \o g2
      <4>2. g = g4 \o g3 /\ Spares(g4, B) /\ g4 \in Seq(T)
        BY <3>2, <4>1
      <4>. HIDE DEF g4
      <4>3. Spares(g4 \o g3, B) /\ g4 \o g3 \in Seq(T)
        BY <3>3, <3>4, <4>2, SparesConcat
      <4>. QED
        BY <4>2, <4>3
    <3>5. x = z \o (IF vis = "restricted" THEN g ELSE <<>>)
      BY DEF UnsetPolicies
    <3>. HIDE DEF z, g, x
    <3>6. Spares(<<>>, B) /\ <<>> \in Seq(CallType(ph))
      BY DEF Spares
    <3>7. Spares(z \o g, B) /\ Spares(z \o <<>>, B)
      BY <3>1, <3>a, <3>6, SparesConcat DEF T
    <3>. QED
      BY <3>5, <3>7
  <2>4. DeleteMinIOBuckets(b, vis, o) = (IF o # DefaultOwner THEN x ELSE <<>>) \o y
    BY DEF DeleteMinIOBuckets
  <2>. HIDE DEF x, y
  <2>5. y \in Seq(CallType(ph)) /\ x \in Seq(CallType(ph)) /\ <<>> \in Seq(CallType(ph)) /\ Spares(<<>>, B)
    BY <2>2 DEF CallSeqs, Spares
  <2>6. Spares(x \o y, B) /\ Spares(<<>> \o y, B)
    BY <2>1, <2>3, <2>5, SparesConcat
  <2>. QED
    BY <2>4, <2>6
<1>10. Spares(CreateS3Path(b, there), B)
  BY <1>3
<1>. QED
  BY <1>2, <1>3, <1>5, <1>6, <1>7, <1>8, <1>9, <1>10

\* The blocks that delete the buckets of a service remove no other.
LEMMA DeletesOwn ==
    ASSUME NEW s \in Services, NEW v \in GoodService, NEW log \in BOOLEAN
    PROVE  LET x == Within(deleteBuckets(s, v), log)
           IN  \A i \in 1..Len(x) : RemovesOnly(x[i], Own(v))
<1>. DEFINE ph == "rollback"
            d == v.def
            B == Own(v)
            R == {k \in Blocks(ph) : RemovesOnly(k, B)}
            one(b) == OrLog(disableInputNotifications(b, s))
                      \o OrStop(IF b = d.mount THEN SetTags(b, v.owner)
                                               ELSE DeleteMinIOBuckets(b, d.vis, v.owner))
            user(u) == OrLog(disableInputNotifications(UserBucket(d.in, u), s))
                       \o OrLog(DeleteMinIOBuckets(UserBucket(d.in, u), "private", v.owner))
            All == ForEach(v.list, user)
            In == one(d.in)
            Out == one(d.out)
<1>1. deleteBuckets(s, v) =
         (IF d.in = None THEN <<>> ELSE In) \o (IF d.out \in {None, d.in} THEN <<>> ELSE Out) \o All
  BY DEF deleteBuckets
<1>2. /\ d.in \in Names \cup {None} /\ d.out \in Names \cup {None} /\ Names \subseteq Buckets
      /\ v.owner \in Owners /\ v.list \in Seq(Users) /\ (v.list # <<>> => d.in \in Plain)
  BY DEF GoodService, StoredService, ServiceDefinition, MaybeBucket, Plain, Buckets, Owners
<1>3. ASSUME NEW calls \in CallSeqs(ph) \ {<<>>}, Spares(calls, B)
      PROVE  OrLog(calls) \in Seq(R) /\ OrStop(calls) \in Seq(R)
  <2>1. \A k \in Nat, g \in BOOLEAN : Block(calls, k, g) \in R
    BY <1>3 DEF Block, Blocks, RemovesOnly
  <2>2. Block(calls, 1, TRUE) \in R /\ Block(calls, 0, FALSE) \in R
    BY <2>1
  <2>. HIDE DEF R
  <2>. DEFINE k1 == Block(calls, 1, TRUE)
              k0 == Block(calls, 0, FALSE)
  <2>3. OrLog(calls) = <<k1>> /\ OrStop(calls) = <<k0>> /\ k1 \in R /\ k0 \in R
    BY <2>2 DEF OrLog, OrStop
  <2>. HIDE DEF k0, k1
  <2>. QED
    BY <2>3
<1>4. ASSUME NEW b \in B, b \in Buckets, NEW vis
      PROVE  /\ OrLog(disableInputNotifications(b, s)) \in Seq(R)
             /\ OrLog(DeleteMinIOBuckets(b, vis, v.owner)) \in Seq(R)
             /\ OrStop(DeleteMinIOBuckets(b, vis, v.owner)) \in Seq(R)
             /\ OrStop(SetTags(b, v.owner)) \in Seq(R)
  <2>1. v.owner \in Principals /\ {} \in SUBSET Listed
    BY <1>2 DEF Owners, Principals
  <2>. DEFINE o == v.owner
  <2>2. o \in Owners /\ o \in Principals
    BY <1>2, <2>1
  <2>. HIDE DEF B, R, o, ph
  <2>3. /\ disableInputNotifications(b, s) \in CallSeqs(ph) \ {<<>>}
        /\ DeleteMinIOBuckets(b, vis, o) \in CallSeqs(ph) \ {<<>>}
        /\ SetTags(b, o) \in CallSeqs(ph) \ {<<>>}
    BY <1>4, <2>2, BucketCalls, DeleteCalls
  <2>4. /\ Spares(disableInputNotifications(b, s), B) /\ Spares(SetTags(b, o), B)
        /\ Spares(DeleteMinIOBuckets(b, vis, o), B)
    BY <1>4, <2>1, <2>2, SparesAll
  <2>. QED
    BY <1>3, <2>3, <2>4 DEF o
<1>5. ASSUME NEW b \in B, b \in Buckets PROVE one(b) \in Seq(R)
  <2>. DEFINE x == IF b = d.mount THEN SetTags(b, v.owner) ELSE DeleteMinIOBuckets(b, d.vis, v.owner)
              y == OrLog(disableInputNotifications(b, s))
  <2>1. OrStop(x) \in Seq(R) /\ y \in Seq(R)
    BY <1>4, <1>5
  <2>. HIDE DEF R, x, y
  <2>2. y \o OrStop(x) \in Seq(R)
    BY <2>1
  <2>. QED
    BY <2>2 DEF x, y
<1>6. All \in Seq(R)
  <2>1. ASSUME NEW i \in DOMAIN v.list PROVE user(v.list[i]) \in Seq(R)
    <3>1. v.list[i] \in Users /\ d.in \in Plain /\ v.list[i] \in ToSet(v.list)
      BY <1>2 DEF ToSet
    <3>2. UserBucket(d.in, v.list[i]) \in Buckets /\ UserBucket(d.in, v.list[i]) \in B
      BY <3>1, UserBucketType DEF Own
    <3>. DEFINE b == UserBucket(d.in, v.list[i])
                x == OrLog(disableInputNotifications(b, s))
                y == OrLog(DeleteMinIOBuckets(b, "private", v.owner))
    <3>3. x \in Seq(R) /\ y \in Seq(R)
      BY <1>4, <3>2
    <3>. HIDE DEF R, x, y
    <3>4. x \o y \in Seq(R)
      BY <3>3
    <3>. QED
      BY <3>4 DEF x, y
  <2>. HIDE DEF R
  <2>2. [i \in DOMAIN v.list |-> user(v.list[i])] \in [1..Len(v.list) -> Seq(R)] /\ Len(v.list) \in Nat
    BY <1>2, <2>1
  <2>3. [i \in DOMAIN v.list |-> user(v.list[i])] \in Seq(Seq(R))
    BY <2>2, FunctionIsSeq
  <2>. QED
    BY <2>3, FlattenType DEF ForEach
<1>7. (d.in # None => In \in Seq(R)) /\ (d.out # None => Out \in Seq(R))
  <2>1. d.in # None => d.in \in B /\ d.in \in Buckets
    BY <1>2 DEF Own
  <2>2. d.out # None => d.out \in B /\ d.out \in Buckets
    BY <1>2 DEF Own
  <2>. QED
    BY <1>5, <2>1, <2>2
<1>. DEFINE D == deleteBuckets(s, v)
<1>8. D \in Seq(R)
  <2>. HIDE DEF R, In, Out, All
  <2>. QED
    BY <1>1, <1>6, <1>7
<1>9. ASSUME NEW i \in 1..Len(Within(D, log)) PROVE RemovesOnly(Within(D, log)[i], B)
  <2>1. Len(D) \in Nat /\ DOMAIN D = 1..Len(D) /\ \A m \in 1..Len(D) : D[m] \in Blocks(ph) /\ RemovesOnly(D[m], B)
    BY <1>8
  <2>. HIDE DEF D
  <2>2. D \in Seq(Blocks(ph)) /\ Within(D, log) \in Seq(Blocks(ph))
    <3>1. D \in Seq(Blocks(ph))
      BY <1>8 DEF D
    <3>. HIDE DEF ph
    <3>. QED
      BY <3>1, WithinType
  <2>3. i \in 1..Len(D) /\ Within(D, log)[i] = IF D[i].skip = 0 THEN Block(D[i].calls, Len(D) - i + 1, log) ELSE D[i]
    <3>1. DOMAIN Within(D, log) = 1..Len(D) /\ DOMAIN Within(D, log) = 1..Len(Within(D, log))
      BY <2>1, <2>2 DEF Within
    <3>. QED
      BY <3>1 DEF Within
  <2>. QED
    BY <2>1, <2>3 DEF RemovesOnly, Block
<1>. QED
  BY <1>9 DEF D

\* A call of a create, or of its undoing, is refused.
LEMMA GivesUp ==
    ASSUME IInv, NEW r \in Reqs, todo[r] # <<>>, OwnOnly(r), clean[r],
           phase[r] \in {"createService", "rollback"},
           NEW undo \in BOOLEAN, NEW silent \in BOOLEAN, Error(r, undo, silent),
           \/ phase[r] = "rollback" \/ Own(job[r].def) \subseteq made[r]
           \/ ~undo /\ Head(todo[r]).skip = 0
    PROVE  OwnOnly(r)'
<1>. DEFINE k == Head(todo[r])
            t == todo[r]
            own == Own(job[r].def)
<1>1. TypeOK /\ PlanOK(r) /\ JobOK(r)
  BY DEF IInv, Plans
<1>2. UNCHANGED <<job, made>>
  BY DEF Error, NoRead
<1>3. k \in LooseBlocks(phase[r]) /\ k.skip \in Nat /\ t \in Seq(LooseBlocks(phase[r]))
  BY <1>1, CallAndRest DEF LooseBlocks, PlanOK
<1>4. \A i \in 1..Len(t) : RemovesOnly(t[i], made[r])
  BY DEF OwnOnly
<1>5. own' = own
  BY <1>2
<1>. HIDE DEF own
<1>6. ASSUME k.skip # 0 PROVE OwnOnly(r)'
  <2>. DEFINE x == SubSeq(t, k.skip + 1, Len(t))
  <2>1. todo' = [todo EXCEPT ![r] = x] /\ UNCHANGED phase
    BY <1>6 DEF Error
  <2>2. todo'[r] = x
    BY <1>1, <2>1 DEF TypeOK
  <2>. DEFINE S == LooseBlocks(phase[r])
              m == k.skip
  <2>3. t \in Seq(S) /\ m \in Nat
    BY <1>3
  <2>. HIDE DEF t, S, m
  <2>4. SubSeq(t, m + 1, Len(t)) \in Seq(S)
        /\ \A i \in 1..Len(SubSeq(t, m + 1, Len(t))) :
              i + m \in 1..Len(t) /\ SubSeq(t, m + 1, Len(t))[i] = t[i + m]
    BY <2>3, SkipType
  <2>5. x \in Seq(S) /\ \A i \in 1..Len(x) : i + m \in 1..Len(t) /\ x[i] = t[i + m]
    BY <2>4 DEF m
  <2>. HIDE DEF x
  <2>6. \A i \in 1..Len(x) : RemovesOnly(x[i], made[r])
    BY <1>4, <2>5 DEF t
  <2>7. phase[r] = "createService" => InHand(r)'
    <3>. SUFFICES ASSUME phase[r] = "createService" PROVE InHand(r)'
      OBVIOUS
    <3>1. own \subseteq made[r]
      BY <1>6 DEF own
    <3>2. 0 \in 0..Len(x) /\ FirmUpTo(x, 0, minio'.exists)
      BY <2>5 DEF FirmUpTo
    <3>. QED
      BY <1>2, <1>5, <2>2, <3>1, <3>2 DEF InHand, own
  <2>. QED
    BY <1>2, <2>1, <2>2, <2>6, <2>7 DEF OwnOnly
<1>7. ASSUME k.skip = 0 PROVE OwnOnly(r)'
  <2>1. Stop(r, undo)
    BY <1>3, <1>7 DEF Error
  <2>2. CASE phase[r] = "rollback"
    <3>1. todo'[r] = <<>> /\ phase'[r] = "rollback"
      BY <1>1, <2>1, <2>2 DEF Stop, TypeOK
    <3>. QED
      BY <3>1 DEF OwnOnly
  <2>3. CASE phase[r] = "createService"
    <3>. DEFINE j == job[r]
                x == Within(deleteBuckets(j.s, j.def), TRUE)
    <3>1. todo'[r] = (IF undo THEN x ELSE <<>>) /\ phase'[r] = "rollback"
      BY <1>1, <2>1, <2>3 DEF Stop, TypeOK
    <3>2. j.s \in Services /\ j.def \in GoodService
      BY <1>1, <2>3 DEF JobOK, ServicePhases
    <3>3. \A i \in 1..Len(x) : RemovesOnly(x[i], own)
      BY <3>2, DeletesOwn DEF own
    <3>. HIDE DEF x
    <3>4. CASE ~undo
      BY <3>1, <3>4 DEF OwnOnly
    <3>5. CASE undo
      <4>1. own \subseteq made[r]
        BY <2>3, <3>5 DEF own
      <4>2. \A i \in 1..Len(x) : RemovesOnly(x[i], made[r])
        BY <3>3, <4>1 DEF RemovesOnly, Spares
      <4>. QED
        BY <1>2, <3>1, <3>5, <4>2 DEF OwnOnly
    <3>. QED
      BY <3>4, <3>5
  <2>. QED
    BY <2>2, <2>3
<1>. QED
  BY <1>6, <1>7

\* Concatenation of short sequences.
LEMMA ShortConcat ==
    ASSUME NEW S, NEW a \in S, NEW b \in S, NEW c \in S
    PROVE  /\ <<a>> \o <<b>> = <<a, b>>
           /\ <<a>> \o <<b, c>> = <<a, b, c>> /\ <<>> \o <<a>> = <<a>>
<1>1. \A s, t \in Seq(S) : Len(s) = Len(t) /\ (\A i \in 1..Len(s) : s[i] = t[i]) => s = t
  BY SeqEqual
<1>2. <<a>> \in Seq(S) /\ <<b>> \in Seq(S) /\ <<a, b>> \in Seq(S)
      /\ <<b, c>> \in Seq(S) /\ <<a, b, c>> \in Seq(S) /\ <<>> \in Seq(S)
  OBVIOUS
<1>3. <<a>> \o <<b>> = <<a, b>>
  <2>. DEFINE x == <<a>> \o <<b>>
  <2>1. x \in Seq(S) /\ Len(x) = 2 /\ x[1] = a /\ x[2] = b
    BY <1>2
  <2>. HIDE DEF x
  <2>2. \A i \in 1..Len(x) : x[i] = <<a, b>>[i]
    BY <2>1
  <2>. QED
    BY <1>1, <1>2, <2>1, <2>2 DEF x
<1>4. <<a>> \o <<b, c>> = <<a, b, c>>
  <2>. DEFINE x == <<a>> \o <<b, c>>
  <2>1. x \in Seq(S) /\ Len(x) = 3 /\ x[1] = a /\ x[2] = b /\ x[3] = c
    BY <1>2
  <2>. HIDE DEF x
  <2>2. \A i \in 1..Len(x) : x[i] = <<a, b, c>>[i]
    BY <2>1
  <2>. QED
    BY <1>1, <1>2, <2>1, <2>2 DEF x
<1>5. <<>> \o <<a>> = <<a>>
  <2>. DEFINE x == <<>> \o <<a>>
  <2>1. x \in Seq(S) /\ Len(x) = 1 /\ x[1] = a
    BY <1>2
  <2>. HIDE DEF x
  <2>2. \A i \in 1..Len(x) : x[i] = <<a>>[i]
    BY <2>1
  <2>. QED
    BY <1>1, <1>2, <2>1, <2>2 DEF x
<1>. QED
  BY <1>3, <1>4, <1>5

\* Concatenation of two pairs.
LEMMA PairsConcat ==
    ASSUME NEW S, NEW a \in S, NEW b \in S, NEW c \in S, NEW d \in S
    PROVE  <<a, b>> \o <<c, d>> = <<a, b, c, d>>
<1>1. \A s, t \in Seq(S) : Len(s) = Len(t) /\ (\A i \in 1..Len(s) : s[i] = t[i]) => s = t
  BY SeqEqual
<1>2. <<a, b>> \in Seq(S) /\ <<c, d>> \in Seq(S) /\ <<a, b, c, d>> \in Seq(S)
  OBVIOUS
<1>. DEFINE x == <<a, b>> \o <<c, d>>
<1>3. x \in Seq(S) /\ Len(x) = 4 /\ x[1] = a /\ x[2] = b /\ x[3] = c /\ x[4] = d
  BY <1>2
<1>. HIDE DEF x
<1>4. \A i \in 1..Len(x) : x[i] = <<a, b, c, d>>[i]
  BY <1>3
<1>. QED
  BY <1>1, <1>2, <1>3, <1>4 DEF x

\* The policy of a user's bucket is written for the user.
LEMMA FirmPolicy ==
    ASSUME NEW b \in Buckets, NEW u \in Users, NEW log \in BOOLEAN, NEW E
    PROVE  Firm(Block(CreateAddPolicy(b, u), 0, log), E)
<1>. DEFINE c == Call("infoToAdd", b, u, {})
            d == Call("addPolicy", b, u, {})
            e == Call("setPolicy", b, u, {})
            k == Block(CreateAddPolicy(b, u), 0, log)
<1>1. k.skip = 0 /\ k.calls = <<c, d, e>>
  BY DEF CreateAddPolicy, Block
<1>2. c.op = "infoToAdd" /\ d.op = "addPolicy" /\ d.p = u /\ e.op = "setPolicy" /\ e.p = u
  BY DEF Call
<1>. HIDE DEF k, c, d, e
<1>3. Len(k.calls) = 3 /\ k.calls[1] = c /\ k.calls[2] = d /\ k.calls[3] = e
  BY <1>1
<1>4. Firm(k, E)
  BY <1>1, <1>2, <1>3 DEF Firm, FirmOps, Touching
<1>. QED
  BY <1>4 DEF k

\* The block that publishes the service and registers its webhook.
LEMMA FirmFirst ==
    ASSUME NEW s \in Services, NEW log \in BOOLEAN, NEW E
    PROVE  /\ Firm(Block(<<Call1("publish", None)>> \o registerMinIOWebhook(s), 0, log), E)
           /\ RemovesOnly(Block(<<Call1("publish", None)>> \o registerMinIOWebhook(s), 0, log), {})
<1>. DEFINE p == Call1("publish", None)
            w == Call("webhook", None, s, {})
            c == Call1("restart", None)
            d == Call1("serverInfo", None)
            calls == <<p>> \o registerMinIOWebhook(s)
            k == Block(calls, 0, log)
            U == {p, w, c, d}
<1>1. registerMinIOWebhook(s) = <<w>> \o <<c, d>>
  BY Zenon DEF registerMinIOWebhook, RegisterWebhook, RestartServer
<1>2. p.op = "publish" /\ w.op = "webhook" /\ c.op = "restart" /\ d.op = "serverInfo"
  BY DEF Call, Call1
<1>3. p \in U /\ w \in U /\ c \in U /\ d \in U
  OBVIOUS
<1>4. k.skip = 0 /\ k.calls = calls
  BY DEF Block
<1>5. calls = <<p>> \o (<<w>> \o <<c, d>>)
  BY <1>1
<1>6. \A x \in U : x.op \in FirmOps /\ x.op \notin Touching /\ x.op \notin {"addPolicy", "setPolicy", "removeBucket"}
  BY <1>2 DEF FirmOps, Touching
<1>. HIDE DEF p, w, c, d, calls, k, U
<1>7. k.calls \in Seq(U)
  BY <1>3, <1>4, <1>5
<1>8. \A i \in 1..Len(k.calls) : k.calls[i] \in U
  BY <1>7
<1>9. Firm(k, E) /\ RemovesOnly(k, {})
  BY <1>4, <1>6, <1>8 DEF Firm, RemovesOnly, Spares
<1>. QED
  BY <1>9 DEF k, calls, p

\* The firm blocks of a create.
LEMMA FirmKinds ==
    ASSUME NEW b \in Buckets, NEW s \in Services, NEW log \in BOOLEAN, NEW E
    PROVE  /\ Firm(Block(CreateS3PathWithWebhook(b, s), 0, log), E)
           /\ Makes(Block(CreateS3PathWithWebhook(b, s), 0, log), b)
           /\ Firm(Block(CreateS3Path(b, FALSE), 0, log), E) /\ Makes(Block(CreateS3Path(b, FALSE), 0, log), b)
           /\ \A u \in Users : /\ Firm(Block(<<Call("isolate", b, u, {})>>, 0, log), E)
                              /\ Firm(Block(CreateAddPolicy(b, u), 0, log), E)
           /\ Firm(Block(<<Call1("publish", None)>> \o registerMinIOWebhook(s), 0, log), E)
           /\ RemovesOnly(Block(<<Call1("publish", None)>> \o registerMinIOWebhook(s), 0, log), {})
<1>. DEFINE m == Call1("makeBucket", b)
            f == Call1("folder", b)
            g == Call1("getNotif", b)
            a == Call("addNotif", b, s, {})
<1>1. \A x, y, z, vs : Call(x, y, z, vs).op = x /\ Call(x, y, z, vs).b = y /\ Call(x, y, z, vs).p = z
      /\ Call1(x, y).op = x /\ Call1(x, y).b = y
  BY DEF Call, Call1
<1>2. \A calls : Block(calls, 0, log).skip = 0 /\ Block(calls, 0, log).calls = calls
  BY DEF Block
<1>. DEFINE T == {m, f, g, a}
<1>3. CreateS3Path(b, FALSE) = <<m, f>>
  <2>1. CreateS3Path(b, FALSE) = <<m>> \o <<f>>
    BY Zenon DEF CreateS3Path, createBucket
  <2>2. m \in T /\ f \in T
    OBVIOUS
  <2>. HIDE DEF m, f, T
  <2>. QED
    BY <2>1, <2>2, ShortConcat
<1>4. CreateS3PathWithWebhook(b, s) = <<m, f, g, a>>
  <2>1. CreateS3PathWithWebhook(b, s) = <<m, f>> \o <<g, a>>
    BY <1>3, Zenon DEF CreateS3PathWithWebhook, enableInputNotification
  <2>2. m \in T /\ f \in T /\ g \in T /\ a \in T
    OBVIOUS
  <2>. HIDE DEF m, f, g, a, T
  <2>3. <<m, f>> \o <<g, a>> = <<m, f, g, a>>
    BY ONLY <2>2, PairsConcat
  <2>. QED
    BY <2>1, <2>3
<1>5. Firm(Block(<<m, f, g, a>>, 0, log), E) /\ Makes(Block(<<m, f, g, a>>, 0, log), b)
  <2>. DEFINE k == Block(<<m, f, g, a>>, 0, log)
  <2>1. k.skip = 0 /\ k.calls = <<m, f, g, a>>
    BY <1>2
  <2>2. /\ m.op = "makeBucket" /\ m.b = b /\ f.op = "folder" /\ f.b = b
        /\ g.op = "getNotif" /\ g.b = b /\ a.op = "addNotif" /\ a.b = b
    BY <1>1
  <2>. HIDE DEF k, m, f, g, a
  <2>3. /\ Len(k.calls) = 4 /\ k.calls[1] = m /\ k.calls[2] = f /\ k.calls[3] = g /\ k.calls[4] = a
    BY <2>1
  <2>4. ASSUME NEW i \in 1..Len(k.calls)
        PROVE  /\ k.calls[i].op \in FirmOps /\ k.calls[i].op \notin {"addPolicy", "setPolicy"}
               /\ i = 1 => k.calls[i].op = "makeBucket"
               /\ k.calls[i].b = b
    BY <2>2, <2>3 DEF FirmOps, Touching
  <2>5. ASSUME NEW i \in 1..Len(k.calls), k.calls[i].op \in Touching
        PROVE  \E j \in 1..(i - 1) : k.calls[j].op = "makeBucket" /\ k.calls[j].b = k.calls[i].b
    <3>1. i # 1
      BY <2>4, <2>5 DEF Touching
    <3>2. 1 \in 1..(i - 1) /\ 1 \in 1..Len(k.calls)
      BY <2>3, <3>1
    <3>. QED
      BY <2>4, <3>2
  <2>6. Firm(k, E)
    BY <2>1, <2>4, <2>5 DEF Firm
  <2>7. Makes(k, b)
    BY <2>2, <2>3 DEF Makes
  <2>. QED
    BY <2>6, <2>7 DEF k
<1>6. Firm(Block(<<m, f>>, 0, log), E) /\ Makes(Block(<<m, f>>, 0, log), b)
  <2>. DEFINE k == Block(<<m, f>>, 0, log)
  <2>1. k.skip = 0 /\ k.calls = <<m, f>>
    BY <1>2
  <2>2. m.op = "makeBucket" /\ m.b = b /\ f.op = "folder" /\ f.b = b
    BY <1>1
  <2>. HIDE DEF k, m, f
  <2>3. Len(k.calls) = 2 /\ k.calls[1] = m /\ k.calls[2] = f
    BY <2>1
  <2>4. /\ k.calls[1].op = "makeBucket" /\ k.calls[1].b = k.calls[2].b /\ k.calls[2].op = "folder"
        /\ 1 \in 1..(2 - 1) /\ \A i \in 1..Len(k.calls) : i = 1 \/ i = 2
    BY <2>2, <2>3
  <2>5. ASSUME NEW i \in 1..Len(k.calls), k.calls[i].op \in Touching
        PROVE  \E j \in 1..(i - 1) : k.calls[j].op = "makeBucket" /\ k.calls[j].b = k.calls[i].b
    <3>1. i = 2
      BY <2>4, <2>5 DEF Touching
    <3>. QED
      BY <2>4, <3>1
  <2>a. \A i \in 1..Len(k.calls) : k.calls[i].op \in FirmOps /\ k.calls[i].op \notin {"addPolicy", "setPolicy"}
    BY <2>4 DEF FirmOps, Touching
  <2>6. Firm(k, E)
    BY <2>1, <2>5, <2>a DEF Firm
  <2>7. Makes(k, b)
    BY <2>2, <2>3 DEF Makes
  <2>. QED
    BY <2>6, <2>7 DEF k
<1>7. ASSUME NEW u \in Users PROVE Firm(Block(<<Call("isolate", b, u, {})>>, 0, log), E)
  <2>. DEFINE c == Call("isolate", b, u, {})
              k == Block(<<c>>, 0, log)
  <2>1. k.skip = 0 /\ k.calls = <<c>> /\ c.op = "isolate"
    BY <1>1, <1>2
  <2>. HIDE DEF k, c
  <2>2. Firm(k, E)
    BY <2>1 DEF Firm, FirmOps, Touching
  <2>. QED
    BY <2>2 DEF k, c
<1>8. ASSUME NEW u \in Users PROVE Firm(Block(CreateAddPolicy(b, u), 0, log), E)
  BY FirmPolicy
<1>9. /\ Firm(Block(<<Call1("publish", None)>> \o registerMinIOWebhook(s), 0, log), E)
      /\ RemovesOnly(Block(<<Call1("publish", None)>> \o registerMinIOWebhook(s), 0, log), {})
  BY FirmFirst
<1>. QED
  BY <1>3, <1>4, <1>5, <1>6, <1>7, <1>8, <1>9

\* The buckets made in one part of a plan are made in the whole.
LEMMA MadeInParts ==
    ASSUME NEW S, NEW s \in Seq(S), NEW t \in Seq(S), NEW b,
           MadeBy(s, Len(s), b) \/ MadeBy(t, Len(t), b)
    PROVE  MadeBy(s \o t, Len(s \o t), b)
<1>1. /\ Len(s \o t) = Len(s) + Len(t) /\ Len(s) \in Nat /\ Len(t) \in Nat
      /\ \A i \in 1..Len(s) : (s \o t)[i] = s[i]
      /\ \A i \in 1..Len(t) : (s \o t)[i + Len(s)] = t[i]
  OBVIOUS
<1>2. ASSUME NEW i \in 1..Len(s), Makes(s[i], b) PROVE MadeBy(s \o t, Len(s \o t), b)
  <2>1. i \in 1..Len(s \o t) /\ (s \o t)[i] = s[i]
    BY <1>1
  <2>. QED
    BY <1>2, <2>1 DEF MadeBy
<1>3. ASSUME NEW i \in 1..Len(t), Makes(t[i], b) PROVE MadeBy(s \o t, Len(s \o t), b)
  <2>1. i + Len(s) \in 1..Len(s \o t) /\ (s \o t)[i + Len(s)] = t[i]
    BY <1>1
  <2>. QED
    BY <1>3, <2>1 DEF MadeBy
<1>. QED
  BY <1>2, <1>3 DEF MadeBy

\* Blocks that remove nothing, and those of them that are firm.
Harmless(ph) == {k \in Blocks(ph) : RemovesOnly(k, {})}
FirmBlocks(ph) == {k \in Harmless(ph) : Firm(k, {})}

\* A plan that makes all the buckets of v in the firm blocks at its beginning.
Orderly(ph, s, v) ==
    \E F \in Seq(FirmBlocks(ph)), S \in Seq(Harmless(ph)) :
        /\ s = F \o S
        /\ \A b \in Own(v) : MadeBy(F, Len(F), b)

\* Blocks of calls that remove nothing.
LEMMA HarmlessKinds ==
    ASSUME NEW ph, NEW calls \in CallSeqs(ph) \ {<<>>}, Spares(calls, {})
    PROVE  /\ \A n \in Nat, log \in BOOLEAN : Block(calls, n, log) \in Harmless(ph)
           /\ OrStop(calls) = <<Block(calls, 0, FALSE)>> /\ OrUpdate(calls, FALSE) = <<Block(calls, 0, FALSE)>>
           /\ OrStop(calls) \in Seq(Harmless(ph)) /\ OrWrite(calls) \in Seq(Harmless(ph))
           /\ OrLog(calls) \in Seq(Harmless(ph))
<1>1. \A n \in Nat, log \in BOOLEAN : Block(calls, n, log) \in Harmless(ph)
  BY DEF Block, Blocks, RemovesOnly, Harmless
<1>. DEFINE k0 == Block(calls, 0, FALSE)
            k1 == Block(calls, 1, FALSE)
            k2 == Block(calls, 1, TRUE)
<1>2. k0 \in Harmless(ph) /\ k1 \in Harmless(ph) /\ k2 \in Harmless(ph)
  BY <1>1
<1>3. OrStop(calls) = <<k0>> /\ OrWrite(calls) = <<k1>> /\ OrLog(calls) = <<k2>> /\ OrUpdate(calls, FALSE) = <<k0>>
  BY DEF OrStop, OrWrite, OrLog, OrUpdate
<1>4. OrStop(calls) = <<Block(calls, 0, FALSE)>> /\ OrUpdate(calls, FALSE) = <<Block(calls, 0, FALSE)>>
  BY <1>3
<1>. DEFINE H == Harmless(ph)
            stop == OrStop(calls)
            write == OrWrite(calls)
            logged == OrLog(calls)
<1>5. stop = <<k0>> /\ write = <<k1>> /\ logged = <<k2>> /\ k0 \in H /\ k1 \in H /\ k2 \in H
  BY <1>2, <1>3
<1>. HIDE DEF k0, k1, k2, H, stop, write, logged
<1>6. stop \in Seq(H) /\ write \in Seq(H) /\ logged \in Seq(H)
  BY <1>5
<1>7. OrStop(calls) \in Seq(Harmless(ph)) /\ OrWrite(calls) \in Seq(Harmless(ph)) /\ OrLog(calls) \in Seq(Harmless(ph))
  BY <1>6 DEF stop, write, logged, H
<1>. QED
  BY <1>1, <1>4, <1>7, Zenon

\* The parts of a plan may be put together in another way.
Regroups(a, b, c, d) == (a \o (b \o c)) \o d = (a \o b) \o (c \o d)

\* They may, whatever the parts are.
LEMMA Regroup ==
    ASSUME NEW S, NEW a \in Seq(S), NEW b \in Seq(S), NEW c \in Seq(S), NEW d \in Seq(S)
    PROVE  Regroups(a, b, c, d)
<1>1. (a \o b) \o c = a \o (b \o c)
  BY ConcatAssociative
<1>. DEFINE x == a \o b
<1>2. x \in Seq(S)
  OBVIOUS
<1>. HIDE DEF x
<1>3. (x \o c) \o d = x \o (c \o d)
  BY <1>2, ConcatAssociative
<1>4. a \o (b \o c) = x \o c
  BY <1>1, Zenon DEF x
<1>5. (a \o (b \o c)) \o d = x \o (c \o d)
  BY <1>3, <1>4, Zenon
<1>. QED
  BY <1>5, Zenon DEF x, Regroups

\* A create makes the buckets that it would delete before it can give up for another reason
\* than that one of them is there.
LEMMA CreateOrderly ==
    ASSUME NEW s \in Services, NEW d \in ServiceDefinition, NEW us \in Seq(Users),
           us # <<>> => d.in # None, NEW o
    PROVE  Orderly("createService", createBuckets(s, d, us, FALSE), Stored(d, o, us))
<1>. DEFINE ph == "createService"
            H == Harmless(ph)
            G == FirmBlocks(ph)
            isolated(u) == <<Block(CreateS3PathWithWebhook(UserBucket(d.in, u), s), IF FALSE THEN 2 ELSE 0, TRUE)>>
                           \o OrStop(<<Call("isolate", UserBucket(d.in, u), u, {})>>)
            folder(u) == OrUpdate(CreateS3Path(UserBucket(d.in, u), TRUE), FALSE)
            i1 == OrUpdate(CreateS3PathWithWebhook(d.in, s), FALSE)
            i2 == ForEach(us, isolated)
            o1 == OrUpdate(CreateS3Path(d.out, d.out = d.in), FALSE)
            o2 == ForEach(us, folder)
            M == IF d.mount = None THEN <<>>
                 ELSE IF d.mount \in {d.in, d.out} THEN OrUpdate(CreateS3Path(d.mount, TRUE), FALSE)
                 ELSE OrStop(<<Call1("mount", d.mount)>>)
            A == IF d.in = None THEN <<>> ELSE i1 \o i2
            B == IF d.out = None THEN <<>> ELSE o1 \o o2
            B1 == IF d.out \in {None, d.in} THEN <<>> ELSE o1
            B2 == IF d.out = None THEN <<>> ELSE IF d.out = d.in THEN o1 \o o2 ELSE o2
<1>1. createBuckets(s, d, us, FALSE) = (A \o B) \o M
  BY DEF createBuckets
<1>2. /\ d.in \in Names \cup {None} /\ d.out \in Names \cup {None} /\ d.mount \in Names \cup {None}
      /\ Names \subseteq Buckets /\ (d.in # None => d.in \in Plain)
  BY DEF ServiceDefinition, MaybeBucket, Plain, Buckets
<1>3. G \subseteq H /\ Nobody \in Owners /\ Nobody \in Principals /\ {} \in SUBSET Listed
  BY DEF FirmBlocks, Owners, Principals
<1>4. ASSUME NEW b \in Buckets, NEW there \in BOOLEAN
      PROVE  /\ CreateS3Path(b, there) \in CallSeqs(ph) \ {<<>>} /\ Spares(CreateS3Path(b, there), {})
             /\ CreateS3PathWithWebhook(b, s) \in CallSeqs(ph) \ {<<>>}
             /\ Spares(CreateS3PathWithWebhook(b, s), {})
  <2>. HIDE DEF ph
  <2>1. /\ CreateS3Path(b, there) \in CallSeqs(ph) \ {<<>>}
        /\ CreateS3PathWithWebhook(b, s) \in CallSeqs(ph) \ {<<>>}
    BY <1>3, <1>4, BucketCalls
  <2>2. Spares(CreateS3Path(b, there), {}) /\ Spares(CreateS3PathWithWebhook(b, s), {})
    BY <1>3, <1>4, SparesAll
  <2>. QED
    BY <2>1, <2>2
<1>5. ASSUME NEW b \in Buckets
      PROVE  /\ Block(CreateS3PathWithWebhook(b, s), 0, TRUE) \in G
             /\ Makes(Block(CreateS3PathWithWebhook(b, s), 0, TRUE), b)
             /\ OrUpdate(CreateS3PathWithWebhook(b, s), FALSE) \in Seq(G)
             /\ MadeBy(OrUpdate(CreateS3PathWithWebhook(b, s), FALSE), Len(OrUpdate(CreateS3PathWithWebhook(b, s), FALSE)), b)
             /\ OrUpdate(CreateS3Path(b, FALSE), FALSE) \in Seq(G)
             /\ MadeBy(OrUpdate(CreateS3Path(b, FALSE), FALSE), Len(OrUpdate(CreateS3Path(b, FALSE), FALSE)), b)
             /\ OrUpdate(CreateS3Path(b, TRUE), FALSE) \in Seq(H)
  <2>. DEFINE w == CreateS3PathWithWebhook(b, s)
              p == CreateS3Path(b, FALSE)
              q == CreateS3Path(b, TRUE)
  <2>1. /\ w \in CallSeqs(ph) \ {<<>>} /\ Spares(w, {}) /\ p \in CallSeqs(ph) \ {<<>>} /\ Spares(p, {})
        /\ q \in CallSeqs(ph) \ {<<>>} /\ Spares(q, {})
    BY <1>4, <1>5
  <2>3. /\ Firm(Block(w, 0, TRUE), {}) /\ Makes(Block(w, 0, TRUE), b)
        /\ Firm(Block(w, 0, FALSE), {}) /\ Makes(Block(w, 0, FALSE), b)
        /\ Firm(Block(p, 0, FALSE), {}) /\ Makes(Block(p, 0, FALSE), b)
    BY <1>5, FirmKinds
  <2>. DEFINE k0 == Block(w, 0, FALSE)
              k1 == Block(w, 0, TRUE)
              k2 == Block(p, 0, FALSE)
  <2>. HIDE DEF w, p, q, ph
  <2>4. k0 \in H /\ k1 \in H /\ k2 \in H /\ OrUpdate(w, FALSE) = <<k0>> /\ OrUpdate(p, FALSE) = <<k2>>
    BY <2>1, HarmlessKinds
  <2>5. OrUpdate(q, FALSE) \in Seq(H)
    BY <2>1, HarmlessKinds
  <2>6. k0 \in G /\ k1 \in G /\ k2 \in G
    BY <2>3, <2>4 DEF FirmBlocks
  <2>. DEFINE x == OrUpdate(w, FALSE)
              y == OrUpdate(p, FALSE)
  <2>a. x = <<k0>> /\ y = <<k2>> /\ Makes(k0, b) /\ Makes(k2, b) /\ Makes(k1, b)
    BY <2>3, <2>4
  <2>. HIDE DEF k0, k1, k2, G, H, x, y
  <2>7. x \in Seq(G) /\ y \in Seq(G)
    BY <2>6, <2>a
  <2>8. MadeBy(x, Len(x), b) /\ MadeBy(y, Len(y), b)
    BY <2>a DEF MadeBy
  <2>. QED
    BY <2>5, <2>6, <2>7, <2>8, <2>a, Zenon DEF w, p, q, k1, x, y
<1>6. ASSUME d.in # None, NEW u \in Users
      PROVE  /\ isolated(u) \in Seq(G) /\ MadeBy(isolated(u), Len(isolated(u)), UserBucket(d.in, u))
             /\ folder(u) \in Seq(H)
  <2>. DEFINE b == UserBucket(d.in, u)
              k == Block(CreateS3PathWithWebhook(b, s), 0, TRUE)
              kf == Block(CreateS3PathWithWebhook(b, s), IF FALSE THEN 2 ELSE 0, TRUE)
              c == Call("isolate", b, u, {})
              l == Block(<<c>>, 0, FALSE)
  <2>1. b \in Buckets
    BY <1>2, <1>6, UserBucketType
  <2>2. k \in G /\ Makes(k, b) /\ folder(u) \in Seq(H)
    BY <1>5, <2>1
  <2>3. l \in G /\ OrStop(<<c>>) = <<l>>
    <3>1. c \in CallType(ph) /\ c.op = "isolate"
      BY <2>1 DEF Call, CallType
    <3>2. Firm(l, {})
      BY <2>1, FirmKinds
    <3>. HIDE DEF c, ph
    <3>3. <<c>> \in CallSeqs(ph) \ {<<>>} /\ Spares(<<c>>, {})
      BY <3>1, OneCall DEF Spares
    <3>4. l \in H /\ OrStop(<<c>>) = <<l>>
      BY <3>3, HarmlessKinds
    <3>. QED
      BY <3>2, <3>4 DEF FirmBlocks
  <2>4. isolated(u) = <<k>> \o <<l>>
    <3>1. (IF FALSE THEN 2 ELSE 0) = 0
      OBVIOUS
    <3>2. kf = k
      BY <3>1, Zenon
    <3>3. isolated(u) = <<kf>> \o OrStop(<<c>>)
      BY Zenon
    <3>. QED
      BY <2>3, <3>2, <3>3, Zenon
  <2>. HIDE DEF k, l, G, b, isolated
  <2>5. <<k>> \in Seq(G) /\ <<l>> \in Seq(G) /\ <<k>> \o <<l>> \in Seq(G)
    BY <2>2, <2>3
  <2>6. MadeBy(<<k>>, Len(<<k>>), b)
    BY <2>2 DEF MadeBy
  <2>7. MadeBy(<<k>> \o <<l>>, Len(<<k>> \o <<l>>), b)
    BY <2>5, <2>6, MadeInParts
  <2>. QED
    BY <2>2, <2>4, <2>5, <2>7 DEF b
<1>7. /\ i2 \in Seq(G) /\ o2 \in Seq(H)
      /\ d.in # None => \A u \in ToSet(us) : MadeBy(i2, Len(i2), UserBucket(d.in, u))
  <2>. DEFINE x == [i \in DOMAIN us |-> isolated(us[i])]
              y == [i \in DOMAIN us |-> folder(us[i])]
              n == Len(us)
  <2>1. n \in Nat /\ DOMAIN us = 1..n /\ \A i \in 1..n : us[i] \in Users /\ d.in # None
    OBVIOUS
  <2>2. x \in [1..n -> Seq(G)] /\ y \in [1..n -> Seq(H)]
    <3>. HIDE DEF isolated, folder, G, H, n
    <3>. QED
      BY <1>6, <2>1
  <2>3. \A i \in 1..n : x[i] = isolated(us[i])
    BY <2>1
  <2>. HIDE DEF x, y, n, G, H, isolated, folder
  <2>4. x \in Seq(Seq(G)) /\ y \in Seq(Seq(H)) /\ Len(x) = n
    BY <2>1, <2>2, FunctionIsSeq
  <2>5. i2 = FlattenSeq(x) /\ o2 = FlattenSeq(y)
    BY DEF ForEach, x, y
  <2>. HIDE DEF i2, o2
  <2>6. i2 \in Seq(G) /\ o2 \in Seq(H)
    BY <2>4, <2>5, FlattenType
  <2>7. ASSUME NEW u \in ToSet(us) PROVE MadeBy(i2, Len(i2), UserBucket(d.in, u))
    <3>1. PICK i \in 1..n : us[i] = u
      BY <2>1, <2>7 DEF ToSet
    <3>2. MadeBy(x[i], Len(x[i]), UserBucket(d.in, u))
      BY <1>6, <2>1, <2>3, <3>1
    <3>3. PICK k \in 1..Len(x[i]) : Makes(x[i][k], UserBucket(d.in, u))
      BY <3>2 DEF MadeBy
    <3>4. PICK m \in 1..Len(FlattenSeq(x)) : FlattenSeq(x)[m] = x[i][k]
      BY <2>4, <3>1, <3>3, FlattenHas
    <3>. QED
      BY <2>5, <3>3, <3>4 DEF MadeBy
  <2>. QED
    BY <2>6, <2>7
<1>8. /\ d.in # None => i1 \in Seq(G) /\ MadeBy(i1, Len(i1), d.in)
      /\ d.out # None => o1 \in Seq(H)
      /\ d.out \notin {None, d.in} => o1 \in Seq(G) /\ MadeBy(o1, Len(o1), d.out)
  <2>. HIDE DEF G, H
  <2>1. ASSUME d.out \notin {None, d.in} PROVE o1 \in Seq(G) /\ MadeBy(o1, Len(o1), d.out)
    <3>1. (d.out = d.in) = FALSE /\ d.out \in Buckets
      BY <1>2, <2>1
    <3>2. o1 = OrUpdate(CreateS3Path(d.out, FALSE), FALSE)
      BY <3>1
    <3>. HIDE DEF o1
    <3>. QED
      BY <1>5, <3>1, <3>2
  <2>2. ASSUME d.out # None, d.out = d.in PROVE o1 \in Seq(H)
    <3>1. (d.out = d.in) = TRUE /\ d.out \in Buckets
      BY <1>2, <2>2
    <3>2. o1 = OrUpdate(CreateS3Path(d.out, TRUE), FALSE)
      BY <3>1
    <3>. HIDE DEF o1
    <3>. QED
      BY <1>5, <3>1, <3>2
  <2>3. d.in # None => i1 \in Seq(G) /\ MadeBy(i1, Len(i1), d.in)
    BY <1>2, <1>5
  <2>4. Seq(G) \subseteq Seq(H)
    BY <1>3
  <2>. HIDE DEF i1, o1
  <2>. QED
    BY <2>1, <2>2, <2>3, <2>4
<1>9. M \in Seq(H)
  <2>1. d.mount \in Names => OrStop(<<Call1("mount", d.mount)>>) \in Seq(H)
    <3>. DEFINE c == Call1("mount", d.mount)
    <3>. SUFFICES ASSUME d.mount \in Names PROVE OrStop(<<c>>) \in Seq(H)
      OBVIOUS
    <3>1. c \in CallType(ph) /\ c.op = "mount"
      BY <1>2 DEF Call1, Call, CallType, JobOps
    <3>. HIDE DEF c, ph
    <3>2. <<c>> \in CallSeqs(ph) \ {<<>>} /\ Spares(<<c>>, {})
      BY <3>1, OneCall DEF Spares
    <3>. QED
      BY <3>2, HarmlessKinds
  <2>2. d.mount \in Names => OrUpdate(CreateS3Path(d.mount, TRUE), FALSE) \in Seq(H)
    BY <1>2, <1>5
  <2>. DEFINE x == OrStop(<<Call1("mount", d.mount)>>)
              y == OrUpdate(CreateS3Path(d.mount, TRUE), FALSE)
  <2>3. /\ d.mount \in Names => x \in Seq(H) /\ y \in Seq(H)
        /\ M = IF d.mount = None THEN <<>> ELSE IF d.mount \in {d.in, d.out} THEN y ELSE x
    BY <2>1, <2>2
  <2>. HIDE DEF H, x, y, M
  <2>. QED
    BY <1>2, <2>3
<1>. DEFINE F == A \o B1
            S == B2 \o M
<1>. HIDE DEF i1, i2, o1, o2, M, G, H
<1>a. Seq(G) \subseteq Seq(H)
  BY <1>3
<1>10. /\ A \in Seq(G) /\ B1 \in Seq(G) /\ B2 \in Seq(H) /\ A \in Seq(H) /\ B1 \in Seq(H)
       /\ B = B1 \o B2
  <2>1. A \in Seq(G)
    BY <1>7, <1>8
  <2>2. B1 \in Seq(G)
    BY <1>8
  <2>3. B2 \in Seq(H)
    BY <1>7, <1>8
  <2>4. CASE d.out = None
    BY <2>1, <2>2, <2>3, <2>4, <1>a
  <2>5. CASE d.out # None /\ d.out = d.in
    <3>1. o1 \o o2 \in Seq(H)
      BY <1>7, <1>8, <2>5
    <3>2. <<>> \o (o1 \o o2) = o1 \o o2
      BY <3>1
    <3>. QED
      BY <1>a, <2>1, <2>2, <2>3, <2>5, <3>2
  <2>6. CASE d.out # None /\ d.out # d.in
    BY <2>1, <2>2, <2>3, <2>6, <1>a
  <2>. QED
    BY <2>4, <2>5, <2>6
<1>11. \A b \in Own(Stored(d, o, us)) : MadeBy(F, Len(F), b)
  <2>. SUFFICES ASSUME NEW b \in Own(Stored(d, o, us)) PROVE MadeBy(F, Len(F), b)
    OBVIOUS
  <2>1. \/ b = d.in /\ d.in # None
        \/ b = d.out /\ d.out # None
        \/ \E u \in ToSet(us) : b = UserBucket(d.in, u)
    <3>. DEFINE v == Stored(d, o, us)
    <3>1. v.def = d /\ v.list = us
      BY DEF Stored
    <3>. HIDE DEF v
    <3>. DEFINE X == {v.def.in, v.def.out} \ {None}
                Y == {UserBucket(v.def.in, u) : u \in ToSet(v.list)}
    <3>2. b \in X \/ b \in Y
      BY DEF v, Own
    <3>4. b \in Y => \E u \in ToSet(v.list) : b = UserBucket(v.def.in, u)
      BY Zenon
    <3>5. b \in X => b \in {v.def.in, v.def.out} /\ b # None
      OBVIOUS
    <3>. HIDE DEF X, Y
    <3>6. v.def.in = d.in /\ v.def.out = d.out
      BY <3>1
    <3>3. \/ b \in {v.def.in, v.def.out} /\ b # None
          \/ \E u \in ToSet(v.list) : b = UserBucket(v.def.in, u)
      BY <3>2, <3>4, <3>5
    <3>7. CASE b \in {v.def.in, v.def.out} /\ b # None
      <4>1. b \in {d.in, d.out} /\ b # None
        BY <3>6, <3>7
      <4>2. (b = d.in \/ b = d.out) /\ b # None
        BY <4>1
      <4>3. CASE b = d.in
        BY <4>2, <4>3
      <4>4. CASE b = d.out
        BY <4>2, <4>4
      <4>. QED
        BY <4>2, <4>3, <4>4
    <3>8. ASSUME NEW u \in ToSet(v.list), b = UserBucket(v.def.in, u)
          PROVE  \E x \in ToSet(us) : b = UserBucket(d.in, x)
      <4>1. u \in ToSet(us) /\ b = UserBucket(d.in, u)
        BY <3>1, <3>6, <3>8, Zenon
      <4>. QED
        BY <4>1, Zenon
    <3>. QED
      BY <3>3, <3>7, <3>8
  <2>2. ASSUME d.in # None, MadeBy(i1, Len(i1), b) \/ MadeBy(i2, Len(i2), b) PROVE MadeBy(F, Len(F), b)
    <3>1. i1 \in Seq(G) /\ i2 \in Seq(G) /\ A = i1 \o i2
      BY <1>7, <1>8, <2>2
    <3>2. MadeBy(A, Len(A), b)
      BY <2>2, <3>1, MadeInParts
    <3>. HIDE DEF A, B1
    <3>. QED
      BY <1>10, <3>2, MadeInParts
  <2>3. CASE b = d.in /\ d.in # None
    BY <1>8, <2>2, <2>3
  <2>4. CASE b = d.out /\ d.out \notin {None, d.in}
    <3>1. MadeBy(B1, Len(B1), b)
      BY <1>8, <2>4
    <3>. HIDE DEF A, B1
    <3>. QED
      BY <1>10, <3>1, MadeInParts
  <2>5. ASSUME NEW u \in ToSet(us), b = UserBucket(d.in, u) PROVE MadeBy(F, Len(F), b)
    <3>1. us # <<>>
      BY <2>5 DEF ToSet
    <3>. QED
      BY <1>7, <2>2, <2>5, <3>1
  <2>. QED
    BY <2>1, <2>3, <2>4, <2>5
<1>12. createBuckets(s, d, us, FALSE) = F \o S /\ F \in Seq(G) /\ S \in Seq(H)
  <2>. HIDE DEF A, B, B1, B2
  <2>1. (A \o (B1 \o B2)) \o M = (A \o B1) \o (B2 \o M)
    <3>1. A \in Seq(H) /\ B1 \in Seq(H) /\ B2 \in Seq(H) /\ M \in Seq(H)
      BY <1>9, <1>10
    <3>2. Regroups(A, B1, B2, M)
      BY <3>1, Regroup
    <3>. QED
      BY <3>2, Zenon DEF Regroups
  <2>3. F \in Seq(G) /\ S \in Seq(H)
    BY <1>9, <1>10
  <2>. QED
    BY <1>1, <1>10, <2>1, <2>3
<1>. HIDE DEF F, S
<1>. QED
  BY <1>11, <1>12 DEF Orderly, G, H

\* A call that a firm block cannot be about to make, or can make only when nobody refuses it.
Weak(r) ==
    \/ C(r).op \notin FirmOps
    \/ C(r).op \in Touching /\ C(r).b \notin minio.exists
    \/ C(r).op \in {"addPolicy", "setPolicy"} /\ C(r).p \notin Users

\* Until a create has made all its buckets, its next call is in a firm block.
LEMMA FirmNext ==
    ASSUME IInv, NEW r \in Reqs, todo[r] # <<>>, OwnOnly(r), clean[r], phase[r] = "createService",
           ~(Own(job[r].def) \subseteq made[r])
    PROVE  ~Weak(r) /\ Head(todo[r]).skip = 0 /\ C(r).op \in FirmOps
<1>. DEFINE own == Own(job[r].def)
            k == todo[r][1]
<1>1. PICK n \in 0..Len(todo[r]) :
         /\ FirmUpTo(todo[r], n, minio.exists)
         /\ \A b \in own : b \in made[r] \/ MadeBy(todo[r], n, b)
  BY DEF OwnOnly, InHand
<1>2. ~(own \subseteq made[r])
  OBVIOUS
<1>3. PlanOK(r) /\ Head(todo[r]) = k /\ C(r) = k.calls[1] /\ k \in LooseBlocks(phase[r])
  BY CallAndRest DEF IInv, Plans
<1>. HIDE DEF own
<1>4. n # 0
  BY <1>1, <1>2 DEF MadeBy
<1>5. 1 \in 1..n
  BY <1>1, <1>4
<1>6. Firm(k, minio.exists)
  BY <1>1, <1>5 DEF FirmUpTo
<1>7. 1 \in 1..Len(k.calls)
  <2>. DEFINE cs == k.calls
  <2>1. cs \in Seq(CallType(phase[r])) /\ cs # <<>>
    BY <1>3 DEF LooseBlocks
  <2>. HIDE DEF cs
  <2>2. 1 \in 1..Len(cs)
    BY <2>1
  <2>. QED
    BY <2>2 DEF cs
<1>. DEFINE c == k.calls[1]
<1>8. /\ k.skip = 0 /\ c.op \in FirmOps
      /\ c.op \in {"addPolicy", "setPolicy"} => c.p \in Users
      /\ c.op \in Touching => c.b \in minio.exists
  <2>1. \A j \in 1..(1 - 1) : FALSE
    OBVIOUS
  <2>. HIDE DEF k
  <2>. QED
    BY <1>6, <1>7, <2>1 DEF Firm
<1>. HIDE DEF k
<1>. QED
  BY <1>3, <1>8 DEF Weak

\* A request that is not done takes a step: what is known of the others stays.
LEMMA OneSteps ==
    ASSUME IInv, Kept, NEW r \in Reqs, todo[r] # <<>>,
           \A q \in Reqs \ {r} : todo'[q] = todo[q] /\ phase'[q] = phase[q] /\ clean'[q] = clean[q],
           phase'[r] \notin {"idle", "done"}, clean'[r] => clean[r] /\ OwnOnly(r)'
    PROVE  Kept'
<1>1. r \in InFlight
  BY DEF Kept, Alone
<1>2. InFlight' = InFlight
  BY <1>1 DEF InFlight
<1>3. ASSUME NEW q \in Reqs, q # r PROVE (Alone(q) /\ OwnOnly(q))'
  <2>1. ~clean[q]
    BY <1>1, <1>3 DEF Kept, Alone
  <2>2. ~clean'[q] /\ todo'[q] = todo[q] /\ phase'[q] = phase[q]
    BY <1>3, <2>1
  <2>. QED
    BY <1>2, <1>3, <2>2 DEF Kept, Alone, OwnOnly
<1>4. (Alone(r) /\ OwnOnly(r))'
  <2>1. Alone(r)'
    BY <1>1, <1>2 DEF Kept, Alone
  <2>2. ~clean'[r] => OwnOnly(r)'
    BY DEF OwnOnly
  <2>. QED
    BY <2>1, <2>2
<1>. QED
  BY <1>3, <1>4 DEF Kept

\* A call returns.
LEMMA CallReturns ==
    ASSUME IInv, Kept, NEW r \in Reqs, todo[r] # <<>>, NEW blocks \in Seq(Blocks(phase[r])),
           todo' = [todo EXCEPT ![r] = blocks \o Rest(r)], UNCHANGED <<phase, job>>,
           clean' = clean \/ clean' = [clean EXCEPT ![r] = FALSE], made[r] \subseteq made'[r],
           phase[r] \in {"createService", "rollback"} =>
               \A i \in 1..Len(blocks) : RemovesOnly(blocks[i], {}),
           C(r).op \in FirmOps => minio.exists \subseteq minio'.exists,
           C(r).op \in FirmOps /\ phase[r] = "createService" =>
               \A i \in 1..Len(blocks) : Firm(blocks[i], minio'.exists),
           C(r).op = "makeBucket" => C(r).b \in minio'.exists /\ C(r).b \in made'[r]
    PROVE  Kept'
<1>1. TypeOK /\ PlanOK(r) /\ OwnOnly(r) /\ Alone(r)
  BY DEF IInv, Plans, Kept
<1>2. /\ \A q \in Reqs \ {r} : todo'[q] = todo[q] /\ phase'[q] = phase[q] /\ clean'[q] = clean[q]
      /\ todo'[r] = blocks \o Rest(r) /\ phase'[r] = phase[r] /\ job'[r] = job[r]
      /\ clean'[r] => clean[r]
  BY <1>1 DEF TypeOK
<1>3. phase'[r] \notin {"idle", "done"}
  BY <1>1, <1>2 DEF Alone, InFlight
<1>4. ASSUME clean[r], phase[r] \in {"createService", "rollback"} PROVE OwnOnly(r)'
  <2>1. \A i \in 1..Len(blocks) : RemovesOnly(blocks[i], made'[r])
    BY <1>4 DEF RemovesOnly, Spares
  <2>. DEFINE own == Own(job[r].def)
              later == /\ \A i \in 1..Len(blocks) : Firm(blocks[i], minio'.exists)
                       /\ minio.exists \subseteq minio'.exists
                       /\ C(r).op = "makeBucket" => C(r).b \in minio'.exists /\ C(r).b \in made'[r]
  <2>2. phase[r] = "rollback" \/ own \subseteq made[r] \/ later
    <3>. SUFFICES ASSUME phase[r] = "createService", ~(own \subseteq made[r]) PROVE later
      BY <1>4
    <3>1. C(r).op \in FirmOps
      BY <1>1, <1>4, FirmNext
    <3>. QED
      BY <3>1
  <2>3. PlanOK(r) /\ todo[r] # <<>> /\ OwnOnly(r)
    BY <1>1
  <2>4. todo'[r] = blocks \o Rest(r) /\ phase'[r] = phase[r] /\ job'[r] = job[r]
    BY <1>2
  <2>5. \E ph : ph = phase[r] /\ blocks \in Seq(Blocks(ph))
    OBVIOUS
  <2>6. PICK ph : ph = phase[r] /\ blocks \in Seq(Blocks(ph))
    BY <2>5
  <2>. QED
    BY <1>4, <2>1, <2>2, <2>3, <2>4, <2>6, GoesOn
<1>5. phase[r] \notin {"createService", "rollback"} => OwnOnly(r)'
  BY <1>2 DEF OwnOnly
<1>. QED
  BY <1>2, <1>3, <1>4, <1>5, OneSteps

\* What an error leaves of the phases and plans.
LEMMA ErrorFrame ==
    ASSUME IInv, NEW r \in Reqs, todo[r] # <<>>, NEW undo \in BOOLEAN, NEW silent \in BOOLEAN,
           Error(r, undo, silent)
    PROVE  /\ \A q \in Reqs \ {r} : todo'[q] = todo[q] /\ phase'[q] = phase[q]
           /\ phase'[r] = phase[r] \/ phase'[r] = "rollback"
<1>1. TypeOK /\ PlanOK(r)
  BY DEF IInv, Plans
<1>2. Head(todo[r]).skip \in Nat
  BY <1>1, CallAndRest DEF LooseBlocks
<1>3. CASE Head(todo[r]).skip = 0
  <2>1. Stop(r, undo)
    BY <1>2, <1>3 DEF Error
  <2>. QED
    BY <1>1, <2>1 DEF Stop, TypeOK
<1>4. CASE Head(todo[r]).skip > 0
  <2>1. /\ UNCHANGED phase
        /\ todo' = [todo EXCEPT ![r] = SubSeq(@, Head(todo[r]).skip + 1, Len(@))]
    BY <1>2, <1>4 DEF Error
  <2>. QED
    BY <1>1, <2>1 DEF TypeOK
<1>. QED
  BY <1>2, <1>3, <1>4

\* A call is refused, or fails.
LEMMA CallGivesUp ==
    ASSUME IInv, Kept, NEW r \in Reqs, todo[r] # <<>>,
           \/ Refused(r) /\ Weak(r)
           \/ CallFails(r)
           \/ Error(r, FALSE, FALSE) /\ Fine
    PROVE  Kept'
<1>1. TypeOK /\ PlanOK(r) /\ OwnOnly(r) /\ Alone(r) /\ phase[r] \notin {"idle", "done"}
  BY DEF IInv, Plans, Kept, Alone, InFlight
<1>2. CASE Refused(r) /\ Weak(r)
  <2>1. Error(r, TRUE, NoSuchBucket(r)) /\ NoSuchBucket(r) \in BOOLEAN /\ clean' = clean
    BY <1>2 DEF Refused, NoSuchBucket, Fine
  <2>. DEFINE undo == TRUE
              silent == NoSuchBucket(r)
  <2>2. undo \in BOOLEAN /\ silent \in BOOLEAN /\ Error(r, undo, silent)
    BY <2>1
  <2>. HIDE DEF undo, silent
  <2>3. ASSUME clean[r], phase[r] \in {"createService", "rollback"} PROVE OwnOnly(r)'
    <3>1. phase[r] = "rollback" \/ Own(job[r].def) \subseteq made[r]
      BY <1>1, <1>2, <2>3, FirmNext
    <3>. QED
      BY <1>1, <2>2, <2>3, <3>1, GivesUp
  <2>4. /\ \A q \in Reqs \ {r} : todo'[q] = todo[q] /\ phase'[q] = phase[q]
        /\ phase'[r] = phase[r] \/ phase'[r] = "rollback"
    BY <2>2, ErrorFrame
  <2>5. phase[r] \notin {"createService", "rollback"} => OwnOnly(r)'
    <3>. SUFFICES ASSUME phase[r] \notin {"createService", "rollback"} PROVE phase'[r] = phase[r]
      BY DEF OwnOnly
    <3>. QED
      BY <1>1, <2>2 DEF Error, Stop, TypeOK
  <2>. QED
    BY <1>1, <2>1, <2>3, <2>4, <2>5, OneSteps
<1>3. CASE CallFails(r)
  <2>. DEFINE undo == C(r).op \notin {"publish", "webhook", "restart", "serverInfo"}
              silent == FALSE
  <2>1. Error(r, undo, silent) /\ clean' = [clean EXCEPT ![r] = FALSE] /\ undo \in BOOLEAN /\ silent \in BOOLEAN
    BY <1>3 DEF CallFails, Fault
  <2>. HIDE DEF undo, silent
  <2>2. /\ \A q \in Reqs \ {r} : todo'[q] = todo[q] /\ phase'[q] = phase[q]
        /\ phase'[r] = phase[r] \/ phase'[r] = "rollback"
    BY <2>1, ErrorFrame
  <2>3. (\A q \in Reqs \ {r} : clean'[q] = clean[q]) /\ ~clean'[r]
    BY <1>1, <2>1 DEF TypeOK
  <2>. QED
    BY <1>1, <2>2, <2>3, OneSteps
<1>4. CASE Error(r, FALSE, FALSE) /\ Fine
  <2>. DEFINE undo == FALSE
              silent == FALSE
  <2>1. undo \in BOOLEAN /\ silent \in BOOLEAN /\ Error(r, undo, silent) /\ ~undo /\ clean' = clean
    BY <1>4 DEF Fine
  <2>. HIDE DEF undo, silent
  <2>3. ASSUME clean[r], phase[r] \in {"createService", "rollback"} PROVE OwnOnly(r)'
    <3>1. \/ phase[r] = "rollback" \/ Own(job[r].def) \subseteq made[r]
          \/ ~undo /\ Head(todo[r]).skip = 0
      BY <1>1, <2>1, <2>3, FirmNext
    <3>. QED
      BY <1>1, <2>1, <2>3, <3>1, GivesUp
  <2>4. /\ \A q \in Reqs \ {r} : todo'[q] = todo[q] /\ phase'[q] = phase[q]
        /\ phase'[r] = phase[r] \/ phase'[r] = "rollback"
    BY <2>1, ErrorFrame
  <2>5. phase[r] \notin {"createService", "rollback"} => OwnOnly(r)'
    <3>. SUFFICES ASSUME phase[r] \notin {"createService", "rollback"} PROVE phase'[r] = phase[r]
      BY DEF OwnOnly
    <3>. QED
      BY <1>1, <2>1 DEF Error, Stop, TypeOK
  <2>. QED
    BY <1>1, <2>1, <2>3, <2>4, <2>5, OneSteps
<1>. QED
  BY <1>2, <1>3, <1>4

\* What the calls leave of the buckets that are there.
LEMMA WhatStays ==
    ASSUME TypeOK
    PROVE  /\ \A b : MakeBucket(b) => minio.exists \subseteq minio'.exists /\ b \in minio'.exists
           /\ \A b : DropBucket(b) => minio.exists \ minio'.exists \subseteq {b}
           /\ \A b, x : Touch(b) \/ Tag(b, x) \/ PutNotif(b, x) => minio.exists \subseteq minio'.exists
           /\ \A p, x : AddCannedPolicy(p, x) \/ SetPolicy(p) \/ RemoveCannedPolicy(p)
                           => minio.exists \subseteq minio'.exists
           /\ \A g, us : AddMembers(g, us) \/ RemoveMembers(g, us) => minio.exists \subseteq minio'.exists
           /\ \A s : SetWebhook(s) \/ DelWebhook(s) \/ Same => minio.exists \subseteq minio'.exists
<1>1. minio \in MinIOState
  BY DEF TypeOK
<1>2. \A b : MakeBucket(b) => minio.exists \subseteq minio'.exists /\ b \in minio'.exists
  BY <1>1 DEF MakeBucket, MinIOState
<1>3. \A b : DropBucket(b) => minio.exists \ minio'.exists \subseteq {b}
  BY <1>1 DEF DropBucket, MinIOState
<1>4. \A b, x : Touch(b) \/ Tag(b, x) \/ PutNotif(b, x) => minio.exists \subseteq minio'.exists
  BY <1>1 DEF Touch, Tag, PutNotif, Same, MinIOState
<1>5. \A p, x : AddCannedPolicy(p, x) \/ SetPolicy(p) \/ RemoveCannedPolicy(p)
                   => minio.exists \subseteq minio'.exists
  BY <1>1 DEF AddCannedPolicy, SetPolicy, RemoveCannedPolicy, MinIOState
<1>6. \A g, us : AddMembers(g, us) \/ RemoveMembers(g, us) => minio.exists \subseteq minio'.exists
  BY <1>1 DEF AddMembers, RemoveMembers, MinIOState
<1>7. \A s : SetWebhook(s) \/ DelWebhook(s) \/ Same => minio.exists \subseteq minio'.exists
  BY <1>1 DEF SetWebhook, DelWebhook, Same, MinIOState
<1>. QED
  BY <1>2, <1>3, <1>4, <1>5, <1>6, <1>7

\* A call that takes no bucket away returns and nothing is put before the rest.
LEMMA PlainReturn ==
    ASSUME IInv, Kept, NEW r \in Reqs, todo[r] # <<>>, GoOn(r, <<>>), UNCHANGED made, Fine \/ Fault(r),
           C(r).op # "makeBucket", C(r).op \in FirmOps => minio.exists \subseteq minio'.exists
    PROVE  Kept'
<1>. DEFINE blocks == <<>>
<1>1. blocks \in Seq(Blocks(phase[r])) /\ \A i \in 1..Len(blocks) : FALSE
  OBVIOUS
<1>2. todo' = [todo EXCEPT ![r] = blocks \o Rest(r)] /\ UNCHANGED <<phase, job>>
  BY DEF GoOn
<1>. HIDE DEF blocks
<1>3. clean' = clean \/ clean' = [clean EXCEPT ![r] = FALSE]
  BY DEF Fine, Fault
<1>. QED
  BY <1>1, <1>2, <1>3, CallReturns

\* The calls about buckets.
LEMMA BucketCallsSpare ==
    ASSUME IInv, Kept, NEW r \in Reqs,
           \/ MakeBucketCall(r) \/ RemoveBucketCall(r) \/ TouchCall(r) \/ TagCall(r) \/ TagsCall(r)
           \/ GetNotifCall(r) \/ PutNotifCall(r)
    PROVE  Kept'
<1>1. todo[r] # <<>> /\ TypeOK
  BY DEF MakeBucketCall, RemoveBucketCall, TouchCall, TagCall, TagsCall, GetNotifCall, PutNotifCall, At, IInv
<1>2. CASE MakeBucketCall(r)
  <2>1. C(r).op = "makeBucket"
    BY <1>2 DEF MakeBucketCall, At
  <2>2. CASE /\ MakeBucket(C(r).b) /\ made' = [made EXCEPT ![r] = @ \cup {C(r).b}]
             /\ GoOn(r, <<>>) /\ Fine
    <3>. DEFINE blocks == <<>>
    <3>1. blocks \in Seq(Blocks(phase[r])) /\ \A i \in 1..Len(blocks) : FALSE
      OBVIOUS
    <3>2. todo' = [todo EXCEPT ![r] = blocks \o Rest(r)] /\ UNCHANGED <<phase, job>>
      BY <2>2 DEF GoOn
    <3>. HIDE DEF blocks
    <3>3. clean' = clean /\ made[r] \subseteq made'[r] /\ C(r).b \in made'[r]
      BY <1>1, <2>2 DEF Fine, TypeOK
    <3>4. minio.exists \subseteq minio'.exists /\ C(r).b \in minio'.exists
      BY <1>1, <2>2, WhatStays
    <3>. QED
      BY <1>1, <3>1, <3>2, <3>3, <3>4, CallReturns
  <2>3. CASE (Error(r, FALSE, FALSE) /\ Fine) \/ CallFails(r)
    BY <1>1, <2>3, CallGivesUp
  <2>. QED
    BY <1>2, <2>2, <2>3 DEF MakeBucketCall
<1>4. CASE RemoveBucketCall(r)
  <2>1. C(r).op = "removeBucket" /\ C(r).op \notin FirmOps
    BY <1>4 DEF RemoveBucketCall, At, FirmOps, Touching
  <2>. QED
    BY <1>1, <1>4, <2>1, PlainReturn, CallGivesUp DEF RemoveBucketCall, Do, NoRead, Weak
<1>5. CASE TouchCall(r)
  <2>1. C(r).op \in {"folder", "empty", "list"}
    BY <1>5 DEF TouchCall, At
  <2>2. C(r).b \notin minio.exists => Weak(r)
    BY <2>1 DEF Weak, FirmOps, Touching
  <2>3. Touch(C(r).b) => minio.exists \subseteq minio'.exists
    BY <1>1, WhatStays
  <2>. QED
    BY <1>1, <1>5, <2>1, <2>2, <2>3, PlainReturn, CallGivesUp DEF TouchCall, Do, NoRead
<1>6. CASE TagCall(r)
  <2>1. C(r).op = "tag" /\ C(r).op \notin FirmOps
    BY <1>6 DEF TagCall, At, FirmOps, Touching
  <2>. QED
    BY <1>1, <1>6, <2>1, PlainReturn, CallGivesUp DEF TagCall, Do, NoRead, Weak
<1>7. CASE TagsCall(r)
  <2>1. C(r).op = "tags" /\ C(r).op \notin FirmOps
    BY <1>7 DEF TagsCall, At, FirmOps, Touching
  <2>. QED
    BY <1>1, <1>7, <2>1, PlainReturn, CallGivesUp DEF TagsCall, Do, NoRead, Weak
<1>8. CASE GetNotifCall(r)
  <2>1. C(r).op = "getNotif"
    BY <1>8 DEF GetNotifCall, At
  <2>2. C(r).b \notin minio.exists => Weak(r)
    BY <2>1 DEF Weak, FirmOps, Touching
  <2>. QED
    BY <1>1, <1>8, <2>1, <2>2, PlainReturn, CallGivesUp DEF GetNotifCall, Read
<1>9. CASE PutNotifCall(r)
  <2>1. C(r).op \in {"addNotif", "removeNotif"}
    BY <1>9 DEF PutNotifCall, At
  <2>2. C(r).b \notin minio.exists => Weak(r)
    BY <2>1 DEF Weak, FirmOps, Touching
  <2>3. \A x : PutNotif(C(r).b, x) => minio.exists \subseteq minio'.exists
    BY <1>1, WhatStays
  <2>. QED
    BY <1>1, <1>9, <2>1, <2>2, <2>3, PlainReturn, CallGivesUp DEF PutNotifCall, Do, NoRead
<1>. QED
  BY <1>2, <1>4, <1>5, <1>6, <1>7, <1>8, <1>9

\* The calls about policies, groups, webhooks and the server.
LEMMA OtherCallsSpare ==
    ASSUME IInv, Kept, NEW r \in Reqs,
           \/ InfoToAdd(r) \/ InfoToRemove(r) \/ WritePolicy(r) \/ SetPolicyCall(r) \/ RemovePolicyCall(r)
           \/ MembersCall(r) \/ AddMembersCall(r) \/ RemoveMembersCall(r)
           \/ WebhookCall(r) \/ RestartCall(r) \/ SeeCall(r)
    PROVE  Kept'
<1>1. todo[r] # <<>> /\ TypeOK
  BY DEF InfoToAdd, InfoToRemove, WritePolicy, SetPolicyCall, RemovePolicyCall, MembersCall, AddMembersCall,
         RemoveMembersCall, WebhookCall, RestartCall, SeeCall, At, IInv
<1>2. CASE InfoToAdd(r)
  <2>1. C(r).op = "infoToAdd" /\ GoOn(r, <<>>) /\ UNCHANGED <<minio, made>> /\ (Fine \/ Fault(r))
    BY <1>2 DEF InfoToAdd, At, Read
  <2>. QED
    BY <1>1, <2>1, PlainReturn
<1>3. CASE InfoToRemove(r)
  <2>1. C(r).op = "infoToRemove" /\ C(r).op \notin FirmOps
    BY <1>3 DEF InfoToRemove, At, FirmOps, Touching
  <2>. QED
    BY <1>1, <1>3, <2>1, PlainReturn, CallGivesUp DEF InfoToRemove, Read, Weak
<1>4. CASE WritePolicy(r)
  <2>1. C(r).op \in {"addPolicy", "cutPolicy"}
    BY <1>4 DEF WritePolicy, At
  <2>2. C(r).p = Nobody => Weak(r)
    BY <2>1, DistinctAssumption DEF Weak, FirmOps, Touching
  <2>3. \A x : AddCannedPolicy(C(r).p, x) => minio.exists \subseteq minio'.exists
    BY <1>1, WhatStays
  <2>. QED
    BY <1>1, <1>4, <2>1, <2>2, <2>3, PlainReturn, CallGivesUp DEF WritePolicy, Do, NoRead
<1>5. CASE SetPolicyCall(r)
  <2>1. C(r).op = "setPolicy"
    BY <1>5 DEF SetPolicyCall, At
  <2>2. ~PrincipalExists(C(r).p) => Weak(r)
    BY <2>1 DEF Weak, PrincipalExists
  <2>3. SetPolicy(C(r).p) => minio.exists \subseteq minio'.exists
    BY <1>1, WhatStays
  <2>. QED
    BY <1>1, <1>5, <2>1, <2>2, <2>3, PlainReturn, CallGivesUp DEF SetPolicyCall, Do, NoRead
<1>6. CASE RemovePolicyCall(r)
  <2>1. C(r).op = "removePolicy" /\ C(r).op \notin FirmOps
    BY <1>6 DEF RemovePolicyCall, At, FirmOps, Touching
  <2>. QED
    BY <1>1, <1>6, <2>1, PlainReturn, CallGivesUp DEF RemovePolicyCall, Do, NoRead, Weak
<1>7. CASE MembersCall(r)
  <2>1. C(r).op = "members" /\ C(r).op \notin FirmOps
    BY <1>7 DEF MembersCall, At, FirmOps, Touching
  <2>. QED
    BY <1>1, <1>7, <2>1, PlainReturn, CallGivesUp DEF MembersCall, Read, Weak
<1>8. CASE AddMembersCall(r)
  <2>1. C(r).op = "addMembers" /\ C(r).op \notin FirmOps
    BY <1>8 DEF AddMembersCall, At, FirmOps, Touching
  <2>. QED
    BY <1>1, <1>8, <2>1, PlainReturn, CallGivesUp DEF AddMembersCall, Do, NoRead, Weak
<1>9. CASE RemoveMembersCall(r)
  <2>1. C(r).op \in {"removeMembers", "removeFound", "removeOthers"} /\ C(r).op \notin FirmOps
    BY <1>9 DEF RemoveMembersCall, At, FirmOps, Touching
  <2>2. \/ GoOn(r, <<>>) /\ UNCHANGED made /\ Fine
        \/ Refused(r)
        \/ CallFails(r)
    BY <1>9 DEF RemoveMembersCall, Do, NoRead
  <2>. QED
    BY <1>1, <2>1, <2>2, PlainReturn, CallGivesUp DEF Weak
<1>10. CASE WebhookCall(r)
  <2>1. C(r).op \in {"webhook", "unwebhook"}
    BY <1>10 DEF WebhookCall, At
  <2>2. \/ minio.exists \subseteq minio'.exists /\ GoOn(r, <<>>) /\ UNCHANGED made /\ Fine
        \/ CallFails(r)
    <3>1. \A s : SetWebhook(s) \/ DelWebhook(s) => minio.exists \subseteq minio'.exists
      BY <1>1, WhatStays
    <3>. QED
      BY <1>10, <3>1 DEF WebhookCall, Do, NoRead
  <2>. QED
    BY <1>1, <2>1, <2>2, PlainReturn, CallGivesUp
<1>11. CASE RestartCall(r)
  <2>1. C(r).op \in {"restart", "serverInfo"}
    BY <1>11 DEF RestartCall, At
  <2>. QED
    BY <1>1, <1>11, <2>1, PlainReturn, CallGivesUp DEF RestartCall, Do, NoRead, Same
<1>12. CASE SeeCall(r)
  <2>1. C(r).op = "see" /\ GoOn(r, <<>>) /\ UNCHANGED <<minio, made>> /\ (Fine \/ Fault(r))
    BY <1>12 DEF SeeCall, At
  <2>. QED
    BY <1>1, <2>1, PlainReturn
<1>. QED
  BY <1>2, <1>3, <1>4, <1>5, <1>6, <1>7, <1>8, <1>9, <1>10, <1>11, <1>12

\* A call puts blocks that remove nothing before the rest.
LEMMA HarmlessReturn ==
    ASSUME IInv, Kept, NEW r \in Reqs, todo[r] # <<>>, NEW ph, ph = phase[r], NEW blocks \in Seq(Harmless(ph)),
           Same, NoRead, Fine, GoOn(r, blocks), C(r).op # "makeBucket",
           C(r).op \in FirmOps => \A i \in 1..Len(blocks) : Firm(blocks[i], minio.exists)
    PROVE  Kept'
<1>1. blocks \in Seq(Blocks(phase[r])) /\ \A i \in 1..Len(blocks) : RemovesOnly(blocks[i], {})
  BY DEF Harmless
<1>2. todo' = [todo EXCEPT ![r] = blocks \o Rest(r)] /\ UNCHANGED <<phase, job, clean, made, minio>>
  BY DEF GoOn, Same, NoRead, Fine
<1>. QED
  BY <1>1, <1>2, CallReturns

\* The calls of services' creates and updates that decide what comes next.
LEMMA ServiceCallsSpare ==
    ASSUME IInv, Kept, NEW r \in Reqs, Isolate(r) \/ Mount(r) \/ MountPrivate(r)
    PROVE  Kept'
<1>. DEFINE c == C(r)
            j == job[r]
            ph == phase[r]
<1>1. todo[r] # <<>> /\ c.op \in {"isolate", "mount", "private"} /\ c.op # "makeBucket"
  BY DEF Isolate, Mount, MountPrivate, At
<1>2. c \in CallType(ph) /\ JobOK(r)
  BY <1>1, CallOfRequest
<1>3. c.b \in Buckets
  BY <1>1, <1>2, CallArgs
<1>4. ASSUME c.op \in {"mount", "private"}
      PROVE  /\ \A there \in BOOLEAN : /\ CreateS3Path(c.b, there) \in CallSeqs(ph) \ {<<>>}
                                       /\ Spares(CreateS3Path(c.b, there), {})
             /\ j.def.owner \in Principals /\ c.op \notin FirmOps
  <2>1. ph \in {"createService", "updateService"}
    BY <1>2, <1>4, CallArgs
  <2>2. j.s \in Services /\ j.def \in GoodService
    BY <1>2, <2>1 DEF JobOK, ServicePhases
  <2>3. j.def.owner \in Users \cup {DefaultOwner, Nobody}
    BY <2>2 DEF GoodService, StoredService
  <2>4. CfgName \in Owners /\ CfgName \in Principals /\ {} \in SUBSET Listed
    BY DEF Owners, Principals
  <2>5. ASSUME NEW there \in BOOLEAN
        PROVE CreateS3Path(c.b, there) \in CallSeqs(ph) \ {<<>>} /\ Spares(CreateS3Path(c.b, there), {})
    <3>. HIDE DEF c, ph, j
    <3>. QED
      BY <1>3, <2>2, <2>4, BucketCalls, SparesAll
  <2>. QED
    BY <1>4, <2>3, <2>5 DEF Principals, FirmOps, Touching
<1>5. CASE Isolate(r)
  <2>. DEFINE calls == CreateAddPolicy(C(r).b, C(r).p)
              a == OrStop(calls)
  <2>1. Same /\ NoRead /\ Fine /\ (GoOn(r, a) \/ GoOn(r, <<>>))
    BY <1>5 DEF Isolate
  <2>2. c.p \in Users /\ c.p \in Principals
    BY <1>2, <1>5, CallArgs DEF Isolate, At, Principals
  <2>3. {} \in SUBSET Listed /\ Nobody \in Owners
    BY DEF Owners
  <2>4. Firm(Block(calls, 0, FALSE), minio.exists)
    <3>1. FALSE \in BOOLEAN
      OBVIOUS
    <3>. QED
      BY <1>3, <2>2, <3>1, FirmPolicy
  <2>. HIDE DEF c, ph
  <2>5. CreateAddPolicy(c.b, c.p) \in CallSeqs(ph) \ {<<>>}
    BY <1>3, <2>2, <2>3, PolicyCalls
  <2>6. Spares(CreateAddPolicy(c.b, c.p), {})
    BY DEF CreateAddPolicy, Call, Spares
  <2>7. a \in Seq(Harmless(ph)) /\ a = <<Block(calls, 0, FALSE)>>
    BY <2>5, <2>6, HarmlessKinds DEF c
  <2>8. \A i \in 1..Len(a) : Firm(a[i], minio.exists)
    <3>. DEFINE k == Block(calls, 0, FALSE)
    <3>1. a = <<k>> /\ Firm(k, minio.exists)
      BY <2>4, <2>7
    <3>. HIDE DEF a, k
    <3>. QED
      BY <3>1
  <2>9. <<>> \in Seq(Harmless(ph)) /\ \A i \in 1..Len(<<>>) : Firm(<<>>[i], minio.exists)
    OBVIOUS
  <2>. HIDE DEF a
  <2>10. CASE GoOn(r, a)
    BY <1>1, <2>1, <2>7, <2>8, <2>10, HarmlessReturn DEF ph, c
  <2>11. CASE GoOn(r, <<>>)
    BY <1>1, <2>1, <2>11, PlainReturn DEF c, NoRead, Same
  <2>. QED
    BY <2>1, <2>10, <2>11
<1>6. CASE Mount(r)
  <2>. DEFINE see == SeeVisibility(job[r].def.owner, C(r).b) \o <<Call1("private", C(r).b)>>
              a == OrStop(see)
              b == OrStop(CreateS3Path(C(r).b, FALSE))
  <2>1. (Same /\ NoRead /\ Fine /\ GoOn(r, OrStop(IF C(r).b \in minio.exists THEN see ELSE CreateS3Path(C(r).b, FALSE))))
        \/ CallFails(r)
    BY <1>6 DEF Mount
  <2>2. c.op = "mount"
    BY <1>6 DEF Mount, At
  <2>3. see \in CallSeqs(ph) \ {<<>>} /\ Spares(see, {})
    <3>. DEFINE x == SeeVisibility(j.def.owner, c.b)
                y == <<Call1("private", c.b)>>
    <3>1. Call1("private", c.b) \in CallType(ph) /\ Call1("private", c.b).op = "private"
      <4>1. ph \in {"createService", "updateService"}
        BY <1>2, <2>2, CallArgs
      <4>. QED
        BY <1>3, <4>1 DEF Call1, Call, CallType, JobOps
    <3>2. {} \in SUBSET Listed
      OBVIOUS
    <3>3. x \in CallSeqs(ph) \ {<<>>}
      <4>. HIDE DEF c, ph
      <4>. QED
        BY <1>3, <1>4, <2>2, <3>2, PolicyCalls
    <3>4. y \in CallSeqs(ph) \ {<<>>}
      BY <3>1, OneCall
    <3>5. Spares(x, {})
      BY DEF SeeVisibility, Call, Spares
    <3>6. Spares(y, {})
      BY <3>1 DEF Spares
    <3>. HIDE DEF x, y, ph
    <3>7. x \in Seq(CallType(ph)) /\ y \in Seq(CallType(ph))
      BY <3>3, <3>4 DEF CallSeqs
    <3>8. x \o y \in CallSeqs(ph) \ {<<>>} /\ Spares(x \o y, {})
      BY <3>3, <3>4, <3>5, <3>6, <3>7, CallsConcat, SparesConcat
    <3>. QED
      BY <3>8 DEF x, y
  <2>4. CreateS3Path(C(r).b, FALSE) \in CallSeqs(ph) \ {<<>>} /\ Spares(CreateS3Path(C(r).b, FALSE), {})
    BY <1>4, <2>2
  <2>. HIDE DEF see, ph
  <2>5. a \in Seq(Harmless(ph))
    BY <2>3, HarmlessKinds
  <2>6. b \in Seq(Harmless(ph))
    BY <2>4, HarmlessKinds
  <2>7. (Same /\ NoRead /\ Fine /\ (GoOn(r, a) \/ GoOn(r, b))) \/ CallFails(r)
    <3>1. CASE C(r).b \in minio.exists
      BY <2>1, <3>1
    <3>2. CASE C(r).b \notin minio.exists
      BY <2>1, <3>2
    <3>. QED
      BY <3>1, <3>2
  <2>8. C(r).op \notin FirmOps /\ C(r).op # "makeBucket"
    BY <1>4, <2>2
  <2>. HIDE DEF a, b
  <2>. QED
    BY <1>1, <2>5, <2>6, <2>7, <2>8, HarmlessReturn, CallGivesUp DEF ph
<1>7. CASE MountPrivate(r)
  <2>. DEFINE upd == phase[r] = "updateService"
              calls == CreateS3Path(C(r).b, TRUE)
              a == OrUpdate(calls, upd)
  <2>1. (Same /\ NoRead /\ Fine /\ GoOn(r, a)) \/ Refused(r)
    BY <1>7 DEF MountPrivate
  <2>2. calls \in CallSeqs(ph) \ {<<>>} /\ Spares(calls, {})
    BY <1>4, <1>7 DEF MountPrivate, At
  <2>3. C(r).op \notin FirmOps /\ C(r).op # "makeBucket"
    BY <1>4, <1>7 DEF MountPrivate, At
  <2>. HIDE DEF ph, calls, upd
  <2>4. a \in Seq(Harmless(ph))
    <3>1. OrStop(calls) \in Seq(Harmless(ph)) /\ OrLog(calls) \in Seq(Harmless(ph))
      BY <2>2, HarmlessKinds
    <3>. QED
      BY <3>1 DEF OrUpdate
  <2>5. Weak(r)
    BY <2>3 DEF Weak
  <2>. HIDE DEF a
  <2>. QED
    BY <1>1, <2>1, <2>3, <2>4, <2>5, HarmlessReturn, CallGivesUp DEF ph
<1>. QED
  BY <1>5, <1>6, <1>7

\* A step outside a create, and the end of a plan.
LEMMA ElsewhereSpares ==
    ASSUME IInv, Kept, NEW r \in Reqs, todo[r] # <<>>, NEW x, todo' = [todo EXCEPT ![r] = x],
           UNCHANGED <<phase, clean>>, x = <<>> \/ phase[r] \notin {"createService", "rollback"}
    PROVE  Kept'
<1>1. TypeOK /\ Alone(r)
  BY DEF IInv, Kept
<1>2. /\ \A q \in Reqs \ {r} : todo'[q] = todo[q] /\ phase'[q] = phase[q] /\ clean'[q] = clean[q]
      /\ todo'[r] = x /\ phase'[r] = phase[r] /\ clean'[r] = clean[r]
  BY <1>1 DEF TypeOK
<1>3. phase'[r] \notin {"idle", "done"}
  BY <1>1, <1>2 DEF Alone, InFlight
<1>4. OwnOnly(r)'
  BY <1>2 DEF OwnOnly
<1>. QED
  BY <1>2, <1>3, <1>4, OneSteps

\* The decisions about buckets, and the calls that store a service.
LEMMA StoreCallsSpare ==
    ASSUME IInv, Kept, NEW r \in Reqs, DecideUpdate(r) \/ DecideDelete(r) \/ Publish(r) \/ Replace(r)
    PROVE  Kept'
<1>1. todo[r] # <<>> /\ C(r).op \in {"update", "delete", "publish", "replace"}
  BY DEF DecideUpdate, DecideDelete, Publish, Replace, At
<1>2. C(r) \in CallType(phase[r])
  BY <1>1, CallOfRequest
<1>3. CASE Publish(r)
  <2>1. UNCHANGED <<minio, phase, job, made, clean>> /\ C(r).op = "publish"
    BY <1>3 DEF Publish, NoRead, At
  <2>2. CASE todo' = [todo EXCEPT ![r] = Rest(r)]
    <3>. DEFINE blocks == <<>>
                y == Rest(r)
    <3>1. y \in Seq(LooseBlocks(phase[r]))
      BY <1>1, CallAndRest DEF IInv, Plans
    <3>. HIDE DEF y
    <3>2. blocks \o y = y /\ blocks \in Seq(Blocks(phase[r])) /\ \A i \in 1..Len(blocks) : FALSE
      BY <3>1
    <3>. HIDE DEF blocks
    <3>3. todo' = [todo EXCEPT ![r] = blocks \o Rest(r)]
      BY <2>2, <3>2 DEF y
    <3>. QED
      BY <1>1, <2>1, <3>2, <3>3, CallReturns
  <2>3. CASE todo' = [todo EXCEPT ![r] = <<>>]
    BY <1>1, <2>1, <2>3, ElsewhereSpares
  <2>. QED
    BY <1>3, <2>2, <2>3 DEF Publish
<1>4. CASE Replace(r)
  <2>1. C(r).op \notin FirmOps
    BY <1>4 DEF Replace, At, FirmOps, Touching
  <2>2. CASE todo' = [todo EXCEPT ![r] = <<>>] /\ UNCHANGED phase /\ Fine
    BY <1>1, <2>2, ElsewhereSpares DEF Fine
  <2>. QED
    BY <1>1, <1>4, <2>1, <2>2, CallGivesUp DEF Replace, Weak
<1>5. CASE DecideUpdate(r) \/ DecideDelete(r)
  <2>1. C(r).op \in {"update", "delete"} /\ C(r).op \notin FirmOps
    BY <1>5 DEF DecideUpdate, DecideDelete, At, FirmOps, Touching
  <2>2. phase[r] \notin {"createService", "rollback"}
    BY <1>2, <2>1, CallArgs
  <2>3. ASSUME NEW blocks, GoOn(r, blocks), Fine PROVE Kept'
    BY <1>1, <2>2, <2>3, ElsewhereSpares DEF GoOn, Fine
  <2>4. CASE DecideUpdate(r)
    BY <2>3, <2>4 DEF DecideUpdate
  <2>5. CASE DecideDelete(r)
    BY <1>1, <2>1, <2>3, <2>5, CallGivesUp DEF DecideDelete, Weak
  <2>. QED
    BY <1>5, <2>4, <2>5
<1>. QED
  BY <1>3, <1>4, <1>5

\* A request is answered.
LEMMA ReturnSpares ==
    ASSUME IInv, Kept, NEW r \in Reqs, Return(r)
    PROVE  Kept'
<1>1. TypeOK
  BY DEF IInv
<1>2. /\ r \in InFlight /\ todo[r] = <<>> /\ phase' = [phase EXCEPT ![r] = "done"]
      /\ clean' = [clean EXCEPT ![r] = FALSE] /\ todo' = todo
  BY DEF Return
<1>3. ASSUME NEW q \in Reqs PROVE ~clean'[q]
  <2>1. CASE q = r
    BY <1>1, <1>2, <2>1 DEF TypeOK
  <2>2. CASE q # r
    <3>1. ~clean[q]
      BY <1>2, <2>2 DEF Kept, Alone
    <3>. QED
      BY <1>1, <1>2, <2>2, <3>1 DEF TypeOK
  <2>. QED
    BY <2>1, <2>2
<1>4. ASSUME NEW q \in Reqs, q \notin InFlight' PROVE todo'[q] = <<>>
  <2>1. CASE q = r
    BY <1>2, <2>1
  <2>2. CASE q # r
    <3>1. phase'[q] = phase[q]
      BY <1>1, <1>2, <2>2 DEF TypeOK
    <3>2. q \notin InFlight
      BY <1>4, <3>1 DEF InFlight
    <3>. QED
      BY <1>2, <3>2 DEF Kept, Alone
  <2>. QED
    BY <2>1, <2>2
<1>. QED
  BY <1>3, <1>4 DEF Kept, Alone, OwnOnly

\* A request comes in.
LEMMA ArrivalSpares ==
    ASSUME IInv, Kept, NEW r \in Reqs, phase[r] = "idle",
           NEW ph \in Phases \ {"idle", "done", "rollback", "createService"},
           NEW j, NEW blocks, Arrive(r, ph, j, blocks)
    PROVE  Kept'
<1>1. TypeOK
  BY DEF IInv
<1>2. /\ todo' = [todo EXCEPT ![r] = blocks] /\ phase' = [phase EXCEPT ![r] = ph]
      /\ job' = [job EXCEPT ![r] = j] /\ UNCHANGED <<minio, made>>
      /\ clean' = [q \in Reqs |-> IF q = r THEN InFlight = {} ELSE clean[q] /\ q \notin InFlight]
  BY DEF Arrive
<1>3. /\ todo'[r] = blocks /\ phase'[r] = ph /\ job'[r] = j /\ (clean'[r] => InFlight = {})
      /\ \A q \in Reqs \ {r} : todo'[q] = todo[q] /\ phase'[q] = phase[q] /\ job'[q] = job[q]
      /\ \A q \in Reqs \ {r} : clean'[q] => clean[q] /\ q \notin InFlight
  BY <1>1, <1>2 DEF TypeOK
<1>4. r \notin InFlight /\ InFlight' = InFlight \cup {r}
  BY <1>3 DEF InFlight
<1>5. ASSUME NEW q \in Reqs \ {r} PROVE (Alone(q) /\ OwnOnly(q))'
  <2>1. ~clean'[q]
    BY <1>3 DEF Kept, Alone
  <2>. QED
    BY <1>3, <1>4, <2>1 DEF Kept, Alone, OwnOnly
<1>6. Alone(r)' /\ OwnOnly(r)'
  BY <1>3, <1>4 DEF Alone, OwnOnly
<1>. QED
  BY <1>5, <1>6 DEF Kept

\* A request about a service has read who asks; only a create has to show that it deletes
\* nothing but its own.
LEMMA BeginSpares ==
    ASSUME IInv, Kept, NEW r \in Reqs, NEW asks \in Asking, NEW ph \in {"createService", "updateService"},
           NEW j, NEW blocks, Begin(r, asks, ph, j, blocks),
           ph = "createService" /\ blocks # <<>> =>
               /\ \A i \in 1..Len(blocks) : RemovesOnly(blocks[i], {})
               /\ \E n \in 0..Len(blocks) :
                     /\ FirmUpTo(blocks, n, minio.exists)
                     /\ \A b \in Own(j.def) : MadeBy(blocks, n, b)
    PROVE  Kept'
<1>1. TypeOK
  BY DEF IInv
<1>2. /\ todo' = [todo EXCEPT ![r] = blocks] /\ phase' = [phase EXCEPT ![r] = ph]
      /\ job' = [job EXCEPT ![r] = j] /\ UNCHANGED <<minio, made, clean>> /\ phase[r] \in Asking
  BY DEF Begin
<1>3. /\ todo'[r] = blocks /\ phase'[r] = ph /\ job'[r] = j
      /\ \A q \in Reqs \ {r} : todo'[q] = todo[q] /\ phase'[q] = phase[q] /\ job'[q] = job[q]
  BY <1>1, <1>2 DEF TypeOK
<1>4. r \in InFlight /\ InFlight' = InFlight
  BY <1>2, <1>3 DEF InFlight, Asking
<1>5. ASSUME NEW q \in Reqs \ {r} PROVE (Alone(q) /\ OwnOnly(q))'
  <2>1. ~clean[q]
    BY <1>4 DEF Kept, Alone
  <2>. QED
    BY <1>2, <1>3, <1>4, <2>1 DEF Kept, Alone, OwnOnly
<1>6. Alone(r)'
  BY <1>2, <1>4 DEF Kept, Alone
<1>7. OwnOnly(r)'
  <2>1. CASE ph = "createService" /\ blocks # <<>>
    <3>1. \A i \in 1..Len(blocks) : RemovesOnly(blocks[i], made[r])
      BY <2>1 DEF RemovesOnly, Spares
    <3>2. PICK n \in 0..Len(blocks) :
             FirmUpTo(blocks, n, minio.exists) /\ \A b \in Own(j.def) : MadeBy(blocks, n, b)
      BY <2>1
    <3>3. InHand(r)'
      BY <1>2, <1>3, <3>2 DEF InHand
    <3>. QED
      BY <1>2, <1>3, <3>1, <3>3 DEF OwnOnly
  <2>2. CASE blocks = <<>>
    BY <1>3, <2>2 DEF OwnOnly
  <2>3. CASE ph # "createService"
    BY <1>3, <2>3 DEF OwnOnly
  <2>. QED
    BY <2>1, <2>2, <2>3
<1>. QED
  BY <1>5, <1>6, <1>7 DEF Kept

\* A plan whose first block is firm, and whose next part is orderly.
LEMMA PutTogether ==
    ASSUME NEW H, NEW G, G \subseteq H, NEW k \in G, NEW F \in Seq(G), NEW S \in Seq(H), NEW T \in Seq(H)
    PROVE  LET x == (<<k>> \o (F \o S)) \o T
           IN  /\ x \in Seq(H) /\ Len(F) + 1 \in 0..Len(x)
               /\ \A i \in 1..(Len(F) + 1) : x[i] \in G
               /\ \A b : MadeBy(F, Len(F), b) => MadeBy(x, Len(F) + 1, b)
<1>. DEFINE y == F \o S
            z == <<k>> \o y
            x == z \o T
<1>1. F \in Seq(H) /\ k \in H /\ <<k>> \in Seq(H)
  OBVIOUS
<1>2. /\ y \in Seq(H) /\ Len(y) = Len(F) + Len(S) /\ Len(F) \in Nat /\ Len(S) \in Nat
      /\ \A i \in 1..Len(F) : y[i] = F[i] /\ F[i] \in G
  BY <1>1
<1>. HIDE DEF y
<1>3. z \in Seq(H) /\ Len(z) = Len(y) + 1 /\ z[1] = k /\ \A i \in 2..Len(z) : z[i] = y[i - 1]
  BY <1>1, <1>2
<1>. HIDE DEF z
<1>4. x \in Seq(H) /\ Len(x) = Len(z) + Len(T) /\ Len(T) \in Nat /\ \A i \in 1..Len(z) : x[i] = z[i]
  <2>1. z \in Seq(H)
    BY <1>3
  <2>2. Len(z) \in Nat /\ Len(T) \in Nat /\ x \in Seq(H) /\ Len(x) = Len(z) + Len(T)
    BY <2>1
  <2>3. \A i \in 1..Len(z) : x[i] = z[i]
    BY <2>1
  <2>. QED
    BY <2>2, <2>3
<1>. HIDE DEF x
<1>5. Len(F) + 1 \in 0..Len(x) /\ Len(F) + 1 <= Len(z)
  BY <1>2, <1>3, <1>4
<1>6. x[1] = k
  BY <1>2, <1>3, <1>4
<1>7. ASSUME NEW i \in 1..Len(F) PROVE x[i + 1] = F[i] /\ i + 1 \in 1..(Len(F) + 1)
  <2>1. i + 1 \in 2..Len(z) /\ (i + 1) - 1 = i /\ i + 1 \in 1..Len(z) /\ i + 1 \in 1..(Len(F) + 1)
    BY <1>2, <1>3
  <2>2. x[i + 1] = z[i + 1]
    BY <1>4, <2>1
  <2>3. z[i + 1] = y[(i + 1) - 1]
    BY <1>3, <2>1
  <2>4. y[i] = F[i]
    BY <1>2
  <2>. QED
    BY <2>1, <2>2, <2>3, <2>4
<1>8. ASSUME NEW i \in 1..(Len(F) + 1) PROVE x[i] \in G
  <2>1. CASE i = 1
    BY <1>6, <2>1
  <2>2. CASE i # 1
    <3>1. i - 1 \in 1..Len(F) /\ (i - 1) + 1 = i
      BY <1>2, <2>2
    <3>. QED
      BY <1>2, <1>7, <3>1
  <2>. QED
    BY <2>1, <2>2
<1>9. ASSUME NEW b, MadeBy(F, Len(F), b) PROVE MadeBy(x, Len(F) + 1, b)
  BY <1>7, <1>9 DEF MadeBy
<1>10. /\ x \in Seq(H) /\ Len(F) + 1 \in 0..Len(x)
       /\ \A i \in 1..(Len(F) + 1) : x[i] \in G
       /\ \A b : MadeBy(F, Len(F), b) => MadeBy(x, Len(F) + 1, b)
  BY <1>4, <1>5, <1>8, <1>9
<1>. QED
  BY <1>10, Zenon DEF x, y, z

\* A block that is firm whatever is there.
LEMMA FirmAnywhere ==
    ASSUME NEW k, NEW E, Firm(k, {})
    PROVE  Firm(k, E)
BY DEF Firm

\* A create has read who asks.
LEMMA CreateSpares ==
    ASSUME IInv, Kept, NEW r \in Reqs, NEW u \in Clients, NEW s \in Services, NEW d \in ServiceDefs,
           NEW o \in Users \cup {DefaultOwner, Nobody}, CreateService(r, u, s, d, o)
    PROVE  Kept'
<1>. DEFINE ph == "createService"
            admin == isAdminUser
            owner == IF admin /\ u # CfgName THEN o ELSE OwnerOf(u)
            isolated == d.isolated /\ d.in # None /\ d.allowed # <<>> /\ ~admin
            list == IF isolated THEN d.allowed ELSE <<>>
            app == isolated /\ u \notin ToSet(d.allowed)
            def == [d EXCEPT !.allowed = IF app THEN Append(@, u) ELSE @]
            us == ToSet(def.allowed)
            vis == IF d.vis = Unset THEN "private" ELSE d.vis
            tag == IF admin THEN Nobody ELSE u
            share(b) == (IF owner = DefaultOwner THEN <<>> ELSE OrWrite(SetPolicies(b, vis, owner, us)))
                        \o OrWrite(SetTags(b, tag))
            refused == ~admin /\ u = CfgName
            j == [NoJob EXCEPT !.client = IF admin THEN CfgName ELSE u, !.s = s,
                               !.def = Stored(def, owner, list)]
            first == <<Call1("publish", None)>> \o registerMinIOWebhook(s)
            k == Block(first, 0, FALSE)
            made1 == createBuckets(s, def, list, FALSE)
            new == BucketsOf(def)
            shares == ForEach(new, share)
            blocks == OrStop(first) \o made1 \o shares
            plan == IF refused THEN <<>> ELSE blocks
            H == Harmless(ph)
            G == FirmBlocks(ph)
<1>1. Begin(r, "asksCreate", ph, j, plan)
  BY DEF CreateService
<1>0. ph \in {"createService", "updateService"} /\ "asksCreate" \in Asking
  BY DEF Asking
<1>a. CASE refused
  <2>1. plan = <<>>
    BY <1>a
  <2>. HIDE DEF plan, j, ph
  <2>. QED
    BY <1>0, <1>1, <2>1, BeginSpares
<1>b. SUFFICES ASSUME ~refused PROVE Kept'
  BY <1>a
<1>c. plan = blocks
  BY <1>b
<1>2. /\ owner \in Users \cup {DefaultOwner, Nobody} /\ owner \in Principals
      /\ tag \in Owners /\ isolated \in BOOLEAN /\ app \in BOOLEAN
      /\ (app => u \in Users) /\ (isolated => d.in # None /\ d.isolated)
  BY <1>b DEF OwnerOf, Clients, Principals, Owners
<1>. HIDE DEF isolated, owner, tag, vis, app, refused
<1>3. Stored(def, owner, list) \in GoodService /\ def \in ServiceDefinition /\ def.in = d.in
  BY <1>2, StoredType
<1>4. list \in Seq(Users) /\ (list # <<>> => def.in # None)
  BY <1>3 DEF GoodService, StoredService, Stored
<1>5. us \in SUBSET Listed
  BY <1>3 DEF ServiceDefinition, ToSet
<1>6. j.def = Stored(def, owner, list)
  BY DEF NoJob
<1>. HIDE DEF def, list, us, j
<1>7. OrStop(first) = <<k>> /\ k \in G
  <2>1. Call1("publish", None) \in CallType(ph) /\ Call1("publish", None).op # "cutPolicy"
    BY DEF Call1, Call, CallType, StoreOps
  <2>2. first \in CallSeqs(ph) \ {<<>>}
    BY <2>1, OneCall, WebhookCalls, CallsConcat
  <2>3. Firm(k, {}) /\ RemovesOnly(k, {})
    BY FirmFirst
  <2>4. Spares(first, {})
    BY <2>3 DEF RemovesOnly, Block
  <2>. HIDE DEF first, ph
  <2>5. OrStop(first) = <<k>> /\ k \in H
    BY <2>2, <2>4, HarmlessKinds
  <2>. QED
    BY <2>3, <2>5 DEF FirmBlocks
<1>8. PICK F \in Seq(G), S \in Seq(H) :
         made1 = F \o S /\ \A b \in Own(Stored(def, owner, list)) : MadeBy(F, Len(F), b)
  <2>1. Orderly(ph, made1, Stored(def, owner, list))
    BY <1>3, <1>4, CreateOrderly
  <2>. HIDE DEF made1
  <2>. QED
    BY <2>1 DEF Orderly
<1>9. new \in Seq(Names)
  BY <1>3, BucketsOfType
<1>10. shares \in Seq(H)
  <2>1. ASSUME NEW b \in Names PROVE share(b) \in Seq(H)
    <3>. DEFINE p == SetPolicies(b, vis, owner, us)
                t == SetTags(b, tag)
    <3>1. b \in Buckets
      BY DEF Buckets
    <3>2. p \in CallSeqs(ph) \ {<<>>} /\ t \in CallSeqs(ph) \ {<<>>}
      BY <1>2, <1>5, <3>1, PolicyCalls, BucketCalls
    <3>3. Spares(p, {}) /\ Spares(t, {})
      BY <1>2, <1>5, <3>1, SparesAll
    <3>. HIDE DEF p, t, ph
    <3>4. OrWrite(p) \in Seq(H) /\ OrWrite(t) \in Seq(H)
      BY <3>2, <3>3, HarmlessKinds
    <3>5. (IF owner = DefaultOwner THEN <<>> ELSE OrWrite(p)) \in Seq(H)
      BY <3>4
    <3>. DEFINE x == IF owner = DefaultOwner THEN <<>> ELSE OrWrite(p)
                y == OrWrite(t)
    <3>6. share(b) = x \o y
      BY Zenon DEF p, t
    <3>7. x \in Seq(H) /\ y \in Seq(H)
      BY <3>4, <3>5
    <3>. HIDE DEF x, y, H, share
    <3>8. x \o y \in Seq(H)
      BY <3>7
    <3>. QED
      BY <3>6, <3>8, Zenon
  <2>. DEFINE f == [i \in DOMAIN new |-> share(new[i])]
              n == Len(new)
  <2>. HIDE DEF share, new, H
  <2>2. n \in Nat /\ DOMAIN new = 1..n /\ \A i \in 1..n : new[i] \in Names
    BY <1>9
  <2>. HIDE DEF n
  <2>3. f \in [1..n -> Seq(H)]
    BY <2>1, <2>2
  <2>. HIDE DEF f
  <2>4. FlattenSeq(f) \in Seq(H)
    BY <2>2, <2>3, FunctionIsSeq, FlattenType
  <2>. QED
    BY <2>4 DEF ForEach, f
<1>. HIDE DEF first, k, made1, shares
<1>11. blocks = (<<k>> \o (F \o S)) \o shares
  BY <1>7, <1>8
<1>12. G \subseteq H /\ (\A x \in G : Firm(x, {})) /\ (\A x \in H : RemovesOnly(x, {}))
  BY DEF FirmBlocks, Harmless
<1>. DEFINE n == Len(F) + 1
<1>. HIDE DEF G, H, blocks
<1>13. /\ blocks \in Seq(H) /\ n \in 0..Len(blocks)
       /\ \A i \in 1..n : blocks[i] \in G
       /\ \A b : MadeBy(F, Len(F), b) => MadeBy(blocks, n, b)
  BY <1>7, <1>8, <1>10, <1>11, <1>12, PutTogether
<1>. HIDE DEF n
<1>14. \A i \in 1..Len(blocks) : RemovesOnly(blocks[i], {})
  BY <1>12, <1>13
<1>15. FirmUpTo(blocks, n, minio.exists)
  BY <1>12, <1>13, FirmAnywhere DEF FirmUpTo
<1>16. \A b \in Own(j.def) : MadeBy(blocks, n, b)
  BY <1>6, <1>8, <1>13
<1>17. Begin(r, "asksCreate", ph, j, blocks)
  BY <1>1, <1>c
<1>. HIDE DEF ph
<1>. QED
  BY <1>0, <1>13, <1>14, <1>15, <1>16, <1>17, BeginSpares

\* Any request comes in.
LEMMA StartSpares ==
    ASSUME IInv, Kept, NEW r \in Reqs, Start(r)
    PROVE  Kept'
<1>1. phase[r] = "idle"
  BY DEF Start, MayArrive
<1>. DEFINE Ph == Phases \ {"idle", "done", "rollback", "createService"}
<1>2. ASSUME NEW ph \in Ph, NEW j, NEW blocks, Arrive(r, ph, j, blocks) PROVE Kept'
  BY <1>1, <1>2, ArrivalSpares
<1>3. "createBucket" \in Ph /\ "updateBucket" \in Ph /\ "deleteBucket" \in Ph /\ "asksCreate" \in Ph
      /\ "asksUpdate" \in Ph /\ "deleteService" \in Ph
  BY DEF Phases
<1>. HIDE DEF Ph
<1>4. ASSUME NEW u \in Clients, NEW b \in Names, NEW ask \in BucketAsks,
             CreateBucket(r, u, b, ask) \/ UpdateBucket(r, u, b, ask)
      PROVE  Kept'
  BY <1>2, <1>3, <1>4 DEF CreateBucket, UpdateBucket
<1>5. ASSUME NEW u \in Clients, NEW b \in Names, DeleteBucketRequest(r, u, b) PROVE Kept'
  BY <1>2, <1>3, <1>5 DEF DeleteBucketRequest
<1>6. ASSUME NEW u \in Clients, PostService(r, u) \/ PutService(r, u) PROVE Kept'
  BY <1>2, <1>3, <1>6 DEF PostService, PutService
<1>8. ASSUME NEW u \in Clients, NEW s \in Services, DeleteService(r, u, s) PROVE Kept'
  BY <1>2, <1>3, <1>8 DEF DeleteService
<1>. QED
  BY <1>4, <1>5, <1>6, <1>8 DEF Start

\* Any request has read who asks.
LEMMA IdentifySpares ==
    ASSUME IInv, Kept, NEW r \in Reqs, Identify(r)
    PROVE  Kept'
<1>1. ASSUME NEW u \in Clients, NEW s \in Services, NEW d \in ServiceDefs,
             NEW o \in Users \cup {DefaultOwner, Nobody}, CreateService(r, u, s, d, o)
      PROVE  Kept'
  BY <1>1, CreateSpares
<1>2. ASSUME NEW u \in Clients, NEW s \in Services, NEW d \in ServiceDefs,
             NEW o \in Users \cup {DefaultOwner, Nobody}, UpdateService(r, u, s, d, o)
      PROVE  Kept'
  <2>1. "asksUpdate" \in Asking
    BY DEF Asking
  <2>2. \E j, blocks : Begin(r, "asksUpdate", "updateService", j, blocks)
    BY <1>2 DEF UpdateService
  <2>. QED
    BY <2>1, <2>2, BeginSpares
<1>. QED
  BY <1>1, <1>2 DEF Identify

\* A request that comes in, or reads who asks, leaves MinIO as it is.
LEMMA StartLeaves ==
    ASSUME NEW r \in Reqs, Start(r) \/ Identify(r)
    PROVE  minio' = minio
<1>1. \A ph, j, blocks : Arrive(r, ph, j, blocks) => minio' = minio
  BY DEF Arrive
<1>2. ASSUME NEW u, NEW b, NEW ask, CreateBucket(r, u, b, ask) \/ UpdateBucket(r, u, b, ask)
      PROVE  minio' = minio
  BY <1>1, <1>2 DEF CreateBucket, UpdateBucket
<1>3. ASSUME NEW u, NEW b, DeleteBucketRequest(r, u, b) PROVE minio' = minio
  BY <1>1, <1>3 DEF DeleteBucketRequest
<1>4. ASSUME NEW u, PostService(r, u) \/ PutService(r, u) PROVE minio' = minio
  BY <1>1, <1>4 DEF PostService, PutService
<1>5. ASSUME NEW u, NEW s, NEW d, NEW o, CreateService(r, u, s, d, o) \/ UpdateService(r, u, s, d, o)
      PROVE  minio' = minio
  <2>1. \A asks, ph, j, blocks : Begin(r, asks, ph, j, blocks) => minio' = minio
    BY DEF Begin
  <2>2. CASE CreateService(r, u, s, d, o)
    BY <2>1, <2>2, Zenon DEF CreateService
  <2>3. CASE UpdateService(r, u, s, d, o)
    BY <2>1, <2>3, Zenon DEF UpdateService
  <2>. QED
    BY <1>5, <2>2, <2>3
<1>6. ASSUME NEW u, NEW s, DeleteService(r, u, s) PROVE minio' = minio
  BY <1>1, <1>6, Zenon DEF DeleteService
<1>. QED
  BY <1>2, <1>3, <1>4, <1>5, <1>6 DEF Start, Identify

\* A create that is alone holds on to what it needs (Kept), from the beginning on.
LEMMA KeptHolds == Spec => []Kept
<1>1. Init => Kept
  BY DEF Init, Kept, Alone, OwnOnly, InFlight
<1>2. IInv /\ Kept /\ [Next]_vars => Kept'
  <2>. SUFFICES ASSUME IInv, Kept, [Next]_vars PROVE Kept'
    OBVIOUS
  <2>1. ASSUME NEW r \in Reqs, Step(r) PROVE Kept'
    BY <2>1, BucketCallsSpare, OtherCallsSpare, ServiceCallsSpare, StoreCallsSpare, ReturnSpares DEF Step
  <2>2. CASE UNCHANGED vars
    BY <2>2 DEF vars, Kept, Alone, OwnOnly, InHand, InFlight
  <2>. QED
    BY <2>1, <2>2, StartSpares, IdentifySpares DEF Next, Quiet
<1>. QED
  BY <1>1, <1>2, Invariance, PTL DEF Spec

\* What is gone after a call is the bucket that the call removes.
LEMMA WhatGoes ==
    ASSUME IInv, NEW r \in Reqs, Step(r)
    PROVE  \/ minio.exists \subseteq minio'.exists
           \/ /\ todo[r] # <<>> /\ C(r).op = "removeBucket"
              /\ minio.exists \ minio'.exists \subseteq {C(r).b}
<1>. DEFINE kept == minio.exists \subseteq minio'.exists
<1>1. TypeOK
  BY DEF IInv
<1>2. \A undo, silent : Error(r, undo, silent) => kept
  BY DEF Error
<1>3. Refused(r) \/ CallFails(r) => kept
  BY <1>2 DEF Refused, CallFails
<1>4. Same => kept
  BY DEF Same
<1>5. CASE RemoveBucketCall(r)
  <2>1. todo[r] # <<>> /\ C(r).op = "removeBucket"
    BY <1>5 DEF RemoveBucketCall, At
  <2>2. DropBucket(C(r).b) => minio.exists \ minio'.exists \subseteq {C(r).b}
    BY <1>1, WhatStays
  <2>. QED
    BY <1>3, <1>5, <2>1, <2>2 DEF RemoveBucketCall, Do
<1>6. MakeBucketCall(r) => kept
  BY <1>1, <1>2, <1>3, WhatStays DEF MakeBucketCall
<1>7. TouchCall(r) \/ TagCall(r) \/ TagsCall(r) \/ GetNotifCall(r) \/ PutNotifCall(r) => kept
  BY <1>1, <1>3, <1>4, WhatStays DEF TouchCall, TagCall, TagsCall, GetNotifCall, PutNotifCall, Do, Read
<1>8. InfoToAdd(r) \/ InfoToRemove(r) \/ SeeCall(r) \/ MembersCall(r) \/ RestartCall(r) => kept
  BY <1>3, <1>4 DEF InfoToAdd, InfoToRemove, SeeCall, MembersCall, RestartCall, Do, Read
<1>9. WritePolicy(r) \/ SetPolicyCall(r) \/ RemovePolicyCall(r) => kept
  BY <1>1, <1>3, WhatStays DEF WritePolicy, SetPolicyCall, RemovePolicyCall, Do
<1>10. AddMembersCall(r) \/ RemoveMembersCall(r) => kept
  BY <1>1, <1>3, <1>4, WhatStays DEF AddMembersCall, RemoveMembersCall, Do
<1>11. WebhookCall(r) => kept
  BY <1>1, <1>3, WhatStays DEF WebhookCall, Do
<1>12. DecideUpdate(r) \/ DecideDelete(r) \/ Isolate(r) \/ Mount(r) \/ MountPrivate(r) => kept
  BY <1>3, <1>4 DEF DecideUpdate, DecideDelete, Isolate, Mount, MountPrivate
<1>13. Publish(r) \/ Replace(r) \/ Return(r) => kept
  BY <1>3 DEF Publish, Replace, Return
<1>. QED
  BY <1>5, <1>6, <1>7, <1>8, <1>9, <1>10, <1>11, <1>12, <1>13 DEF Step

\* Who steps has something to do, or to answer.
LEMMA StepActs ==
    ASSUME NEW r \in Reqs, Step(r)
    PROVE  todo[r] # <<>> \/ r \in InFlight
BY DEF Step, MakeBucketCall, RemoveBucketCall, TouchCall, TagCall, TagsCall, GetNotifCall, PutNotifCall,
       InfoToAdd, InfoToRemove, WritePolicy, SetPolicyCall, RemovePolicyCall, MembersCall, AddMembersCall,
       RemoveMembersCall, WebhookCall, RestartCall, SeeCall, DecideUpdate, DecideDelete, Isolate, Mount,
       MountPrivate, Publish, Replace, Return, At

\* The next call is one of those of the first block.
LEMMA FirstRemoves ==
    ASSUME IInv, NEW r \in Reqs, todo[r] # <<>>, C(r).op = "removeBucket",
           NEW B, \A i \in 1..Len(todo[r]) : RemovesOnly(todo[r][i], B)
    PROVE  C(r).b \in B
<1>. DEFINE t == todo[r]
            k == t[1]
            cs == k.calls
<1>1. PlanOK(r) /\ C(r) = cs[1] /\ k \in LooseBlocks(phase[r]) /\ t \in Seq(LooseBlocks(phase[r]))
  BY CallAndRest DEF IInv, Plans, PlanOK
<1>2. cs \in Seq(CallType(phase[r])) /\ cs # <<>>
  BY <1>1 DEF LooseBlocks
<1>3. RemovesOnly(k, B)
  <2>1. 1 \in 1..Len(t)
    BY <1>1
  <2>. QED
    BY <2>1
<1>. HIDE DEF cs
<1>4. 1 \in 1..Len(cs)
  BY <1>2
<1>5. Spares(cs, B)
  BY <1>3 DEF RemovesOnly, cs
<1>. QED
  BY <1>1, <1>4, <1>5 DEF Spares

\* A create of a service that is refused and undone, no call of which failed and during which
\* no other request was in progress, deletes no bucket but those it has made itself
\* (ForeignBucketsKept), for every definition of a service.
THEOREM ForeignKept == Spec => ForeignBucketsKept
<1>. DEFINE Safe == \A r \in Reqs :
                       StepOf(r) /\ phase[r] \in {"createService", "rollback"} /\ clean[r] =>
                           minio.exists \ minio.exists' \subseteq made[r]
<1>1. IInv /\ Kept /\ [Next]_vars => Safe
  <2>. SUFFICES ASSUME IInv, Kept, [Next]_vars, NEW r \in Reqs, StepOf(r),
                       phase[r] \in {"createService", "rollback"}, clean[r]
                PROVE  minio.exists \ minio'.exists \subseteq made[r]
    OBVIOUS
  <2>1. ASSUME NEW q \in Reqs, Step(q) PROVE minio.exists \ minio'.exists \subseteq made[r]
    <3>1. q = r
      <4>1. q \in InFlight
        <5>1. todo[q] # <<>> \/ q \in InFlight
          BY <2>1, StepActs
        <5>. QED
          BY <5>1 DEF Kept, Alone
      <4>. QED
        BY <4>1 DEF Kept, Alone
    <3>2. CASE minio.exists \subseteq minio'.exists
      BY <3>2
    <3>3. CASE /\ todo[r] # <<>> /\ C(r).op = "removeBucket"
               /\ minio.exists \ minio'.exists \subseteq {C(r).b}
      <4>1. \A i \in 1..Len(todo[r]) : RemovesOnly(todo[r][i], made[r])
        BY DEF Kept, OwnOnly
      <4>2. C(r).b \in made[r]
        BY <3>3, <4>1, FirstRemoves
      <4>. QED
        BY <3>3, <4>2
    <3>. QED
      BY <2>1, <3>1, <3>2, <3>3, WhatGoes
  <2>2. ASSUME NEW q \in Reqs, Start(q) \/ Identify(q) PROVE minio' = minio
    BY <2>2, StartLeaves
  <2>3. UNCHANGED vars => minio' = minio
    BY DEF vars
  <2>4. minio' = minio => minio.exists \ minio'.exists \subseteq made[r]
    OBVIOUS
  <2>. QED
    BY <2>1, <2>2, <2>3, <2>4 DEF Next, Quiet
<1>2. IInv /\ Kept /\ [Next]_vars => [Safe]_vars
  BY <1>1
<1>. QED
  BY <1>2, Invariance, KeptHolds, PTL DEF Spec, ForeignBucketsKept, Safe
=============================================================================
