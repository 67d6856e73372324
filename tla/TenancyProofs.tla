----------------------------- MODULE TenancyProofs -----------------------------
(***************************************************************************)
(* Proofs about Tenancy.  The invariant is about the calls that requests   *)
(* have still to make: the namespace is ready when a service is published  *)
(* because the calls that see to it come first in the request, and because *)
(* what an error leaves out of the request never is one of them.  So the   *)
(* proof is about sequences of calls: which are proper to begin with, what *)
(* replacing the front of one does to it, and, action by action, that what *)
(* a finished call was to provide is there or comes next.                  *)
(***************************************************************************)
EXTENDS Tenancy, SequenceTheorems, WellFoundedInduction, TLAPS

\* A set of natural numbers that is not empty has a least element.
LEMMA LeastNumber ==
    ASSUME NEW S, S \subseteq Nat, S # {}
    PROVE  \E x \in S : \A y \in S : x <= y
<1>1. \E x \in S : \A y \in S : ~ (<<y, x>> \in OpToRel(<, Nat))
  BY NatLessThanWellFounded, WFMin, Zenon
<1>2. PICK x \in S : \A y \in S : ~ (<<y, x>> \in OpToRel(<, Nat))
  BY <1>1
<1>3. \A y \in S : ~ (y < x)
  BY <1>2 DEF OpToRel
<1>. QED
  BY <1>3

\* AfterBlock drops calls of the block from the front, the first call included.
LEMMA AfterBlockFacts ==
    ASSUME NEW s \in Seq(CallType), s # <<>>, NEW b, s[1].blk = b
    PROVE  \E m \in 2..(Len(s) + 1) :
              /\ AfterBlock(s, b) = SubSeq(s, m, Len(s))
              /\ \A i \in 1..(m - 1) : s[i].blk = b
<1>. DEFINE out == {i \in 1..Len(s) : s[i].blk # b}
            m == IF out = {} THEN Len(s) + 1 ELSE CHOOSE i \in out : \A j \in out : i <= j
<1>1. Len(s) \in Nat /\ Len(s) >= 1
  BY EmptySeq
<1>2. CASE out = {}
  <2>1. m = Len(s) + 1
    BY <1>2
  <2>2. \A i \in 1..Len(s) : s[i].blk = b
    BY <1>2
  <2>3. AfterBlock(s, b) = SubSeq(s, m, Len(s))
    BY DEF AfterBlock
  <2>. QED
    BY <1>1, <2>1, <2>2, <2>3
<1>3. CASE out # {}
  <2>0. out \subseteq Nat
    BY <1>1
  <2>1. \E i \in out : \A j \in out : i <= j
    <3>. HIDE DEF out
    <3>. QED
      BY <1>3, <2>0, LeastNumber
  <2>2. m \in out /\ \A j \in out : m <= j
    BY <1>3, <2>1
  <2>3. m \in 2..(Len(s) + 1)
    BY <1>1, <2>2
  <2>4. \A i \in 1..(m - 1) : s[i].blk = b
    <3>. SUFFICES ASSUME NEW i \in 1..(m - 1), s[i].blk # b PROVE FALSE
      OBVIOUS
    <3>1. i \in 1..Len(s) /\ ~ (m <= i)
      <4>. HIDE DEF m
      <4>. QED
        BY <1>1, <2>3
    <3>2. i \in out
      BY <3>1
    <3>. QED
      BY <2>2, <3>1, <3>2
  <2>5. AfterBlock(s, b) = SubSeq(s, m, Len(s))
    BY DEF AfterBlock
  <2>. QED
    BY <2>3, <2>4, <2>5
<1>. QED
  BY <1>2, <1>3

\* The calls of p and then those of s from the m-th on.
LEMMA FrontReplaced ==
    ASSUME NEW s \in Seq(CallType), NEW p \in Seq(CallType), NEW m \in 1..(Len(s) + 1)
    PROVE  LET t == p \o SubSeq(s, m, Len(s))
           IN  /\ t \in Seq(CallType)
               /\ Len(t) = Len(p) + (Len(s) - m + 1)
               /\ \A i \in 1..Len(p) : t[i] = p[i]
               /\ \A i \in (Len(p) + 1)..Len(t) :
                     t[i] = s[i - Len(p) + m - 1] /\ i - Len(p) + m - 1 \in m..Len(s)
<1>. DEFINE u == SubSeq(s, m, Len(s))
            t == p \o u
<1>1. Len(s) \in Nat /\ Len(p) \in Nat
  BY LenProperties
<1>2. \A i \in m..Len(s) : s[i] \in CallType
  BY <1>1, ElementOfSeq
<1>3. /\ u \in Seq(CallType)
      /\ Len(u) = Len(s) - m + 1
      /\ \A i \in 1..(Len(s) - m + 1) : u[i] = s[m + i - 1]
  BY <1>1, <1>2, SubSeqProperties
<1>4. /\ t \in Seq(CallType)
      /\ Len(t) = Len(p) + Len(u)
      /\ \A i \in 1..(Len(p) + Len(u)) : t[i] = IF i <= Len(p) THEN p[i] ELSE u[i - Len(p)]
  BY <1>3, ConcatProperties
<1>. HIDE DEF u, t
<1>5. \A i \in 1..Len(p) : t[i] = p[i]
  BY <1>1, <1>3, <1>4
<1>6. \A i \in (Len(p) + 1)..Len(t) :
         t[i] = s[i - Len(p) + m - 1] /\ i - Len(p) + m - 1 \in m..Len(s)
  BY <1>1, <1>3, <1>4
<1>7. Len(t) = Len(p) + (Len(s) - m + 1)
  BY <1>3, <1>4
<1>. QED
  BY <1>4, <1>5, <1>6, <1>7 DEF u, t

\* Calls stay in order when the first ones give way to calls that are in order and
\* provide what the first ones did.
LEMMA OrderKept ==
    ASSUME NEW s \in Seq(CallType), NEW p \in Seq(CallType), NEW m \in 1..(Len(s) + 1),
           NEW old, NEW new, old \subseteq new,
           InOrder(s, old), InOrder(p, new),
           \A i \in 1..(m - 1) : \A f \in Provides(s[i]) :
              f \in new \/ \E j \in 1..Len(p) : f \in Provides(p[j])
    PROVE  InOrder(p \o SubSeq(s, m, Len(s)), new)
<1>. DEFINE t == p \o SubSeq(s, m, Len(s))
<1>1. Len(s) \in Nat /\ Len(p) \in Nat
  BY LenProperties
<1>2. /\ t \in Seq(CallType)
      /\ Len(t) = Len(p) + (Len(s) - m + 1)
      /\ \A i \in 1..Len(p) : t[i] = p[i]
      /\ \A i \in (Len(p) + 1)..Len(t) :
            t[i] = s[i - Len(p) + m - 1] /\ i - Len(p) + m - 1 \in m..Len(s)
  BY FrontReplaced
<1>. HIDE DEF t
<1>. SUFFICES ASSUME NEW i \in 1..Len(t), NEW f \in Relies(t[i]), f \notin new
              PROVE  \E j \in 1..(i - 1) : f \in Provides(t[j])
  BY DEF InOrder, t
<1>3. CASE i <= Len(p)
  <2>1. PICK j \in 1..(i - 1) : f \in Provides(p[j])
    BY <1>1, <1>2, <1>3 DEF InOrder
  <2>2. j \in 1..Len(p)
    BY <1>1, <1>3
  <2>3. t[j] = p[j]
    BY <1>2, <2>2
  <2>. QED
    BY <2>1, <2>3
<1>4. CASE i > Len(p)
  <2>. DEFINE q == i - Len(p) + m - 1
  <2>1. t[i] = s[q] /\ q \in m..Len(s)
    BY <1>1, <1>2, <1>4
  <2>. HIDE DEF q
  <2>a. q \in 1..Len(s) /\ f \in Relies(s[q]) /\ f \notin old
    BY <1>1, <2>1
  <2>2. PICK j \in 1..(q - 1) : f \in Provides(s[j])
    BY <2>a DEF InOrder
  <2>3. CASE j < m
    <3>1. PICK h \in 1..Len(p) : f \in Provides(p[h])
      BY <1>1, <2>1, <2>2, <2>3
    <3>. QED
      BY <1>1, <1>2, <1>4, <3>1
  <2>4. CASE j >= m
    <3>. DEFINE h == j - m + 1 + Len(p)
    <3>. USE DEF q
    <3>1. h \in (Len(p) + 1)..Len(t) /\ h \in 1..(i - 1)
      BY <1>1, <1>2, <1>4, <2>1, <2>2, <2>4
    <3>2. h - Len(p) + m - 1 = j
      BY <1>1, <2>2, <2>4
    <3>3. t[h] = s[j]
      BY <1>2, <3>1, <3>2
    <3>. QED
      BY <2>2, <3>1, <3>3
  <2>. QED
    BY <1>1, <2>2, <2>3, <2>4
<1>. QED
  BY <1>1, <1>2, <1>3, <1>4

-----------------------------------------------------------------------------
(* The calls with which a request begins. *)

\* A call that a request like q may have, no repair.
Allowed(q, c) ==
    /\ c.op \in {"putCQ", "merge", "put"} => q.op = "setQuota" /\ q.ask # None
    /\ c.op = "putCQ" => q.ask.cpu # None \/ q.ask.memory # None
    /\ c.op \in {"publish", "putY"} => q.name # None
    /\ c.op \in {"put", "tryRead"} => c.kind \in {"quota", "limit"}
    /\ c.op = "tryRead" <=> c.blk = "again"
    /\ c.op # "fix"

\* Calls that a request like q may have, in order when what is in known is known.
Proper(s, q, known) ==
    s \in Seq(CallType) /\ InOrder(s, known) /\ \A i \in 1..Len(s) : Allowed(q, s[i])

Yields(s, f) == \E j \in 1..Len(s) : f \in Provides(s[j])

\* Proper sequences one after the other are proper.
LEMMA Joined ==
    ASSUME NEW s, NEW t, NEW q, NEW known, NEW given,
           Proper(s, q, known), Proper(t, q, given),
           \A f \in given : f \in known \/ Yields(s, f)
    PROVE  /\ Proper(s \o t, q, known)
           /\ \A f : Yields(s, f) \/ Yields(t, f) => Yields(s \o t, f)
<1>. DEFINE u == s \o t
<1>0. s \in Seq(CallType) /\ t \in Seq(CallType)
  BY DEF Proper
<1>1. Len(s) \in Nat /\ Len(t) \in Nat
  BY <1>0, LenProperties
<1>2. /\ u \in Seq(CallType)
      /\ Len(u) = Len(s) + Len(t)
      /\ \A i \in 1..(Len(s) + Len(t)) : u[i] = IF i <= Len(s) THEN s[i] ELSE t[i - Len(s)]
  BY <1>0, ConcatProperties
<1>. HIDE DEF u
<1>3. \A i \in 1..Len(s) : i \in 1..Len(u) /\ u[i] = s[i]
  BY <1>1, <1>2
<1>4. \A i \in 1..Len(t) : i + Len(s) \in 1..Len(u) /\ u[i + Len(s)] = t[i]
  BY <1>1, <1>2
<1>5. \A i \in 1..Len(u) :
         \/ i \in 1..Len(s) /\ u[i] = s[i]
         \/ i - Len(s) \in 1..Len(t) /\ u[i] = t[i - Len(s)]
  BY <1>1, <1>2
<1>6. \A f : Yields(s, f) \/ Yields(t, f) => Yields(u, f)
  <2>. SUFFICES ASSUME NEW f, Yields(s, f) \/ Yields(t, f) PROVE Yields(u, f)
    OBVIOUS
  <2>1. CASE Yields(s, f)
    BY <1>3, <2>1 DEF Yields
  <2>2. CASE Yields(t, f)
    <3>1. PICK j \in 1..Len(t) : f \in Provides(t[j])
      BY <2>2 DEF Yields
    <3>2. j + Len(s) \in 1..Len(u) /\ u[j + Len(s)] = t[j]
      BY <1>4
    <3>. QED
      BY <3>1, <3>2 DEF Yields
  <2>. QED
    BY <2>1, <2>2
<1>7. \A i \in 1..Len(u) : Allowed(q, u[i])
  <2>. SUFFICES ASSUME NEW i \in 1..Len(u) PROVE Allowed(q, u[i])
    OBVIOUS
  <2>1. (\A h \in 1..Len(s) : Allowed(q, s[h])) /\ \A h \in 1..Len(t) : Allowed(q, t[h])
    BY DEF Proper
  <2>. QED
    BY <1>5, <2>1
<1>8. InOrder(u, known)
  <2>. SUFFICES ASSUME NEW i \in 1..Len(u), NEW f \in Relies(u[i]), f \notin known
                PROVE  \E j \in 1..(i - 1) : f \in Provides(u[j])
    BY DEF InOrder
  <2>1. CASE i \in 1..Len(s) /\ u[i] = s[i]
    <3>1. PICK j \in 1..(i - 1) : f \in Provides(s[j])
      BY <2>1 DEF Proper, InOrder
    <3>2. j \in 1..Len(s)
      BY <1>1, <2>1
    <3>. QED
      BY <1>3, <3>1, <3>2
  <2>2. CASE i - Len(s) \in 1..Len(t) /\ u[i] = t[i - Len(s)]
    <3>. DEFINE k == i - Len(s)
    <3>1. k \in 1..Len(t) /\ f \in Relies(t[k])
      BY <2>2
    <3>. HIDE DEF k
    <3>2. f \in given \/ \E j \in 1..(k - 1) : f \in Provides(t[j])
      BY <3>1 DEF Proper, InOrder
    <3>3. CASE f \in given
      <4>1. PICK j \in 1..Len(s) : f \in Provides(s[j])
        BY <3>3 DEF Yields
      <4>2. j \in 1..(i - 1) /\ u[j] = s[j]
        BY <1>1, <1>3, <2>2
      <4>. QED
        BY <4>1, <4>2
    <3>4. CASE \E j \in 1..(k - 1) : f \in Provides(t[j])
      <4>1. PICK j \in 1..(k - 1) : f \in Provides(t[j])
        BY <3>4
      <4>2. j \in 1..Len(t) /\ j + Len(s) \in 1..(i - 1)
        BY <1>1, <2>2, <3>1 DEF k
      <4>3. u[j + Len(s)] = t[j]
        BY <1>4, <4>2
      <4>. QED
        BY <4>1, <4>2, <4>3
    <3>. QED
      BY <3>2, <3>3, <3>4
  <2>. QED
    BY <1>5, <2>1, <2>2
<1>. QED
  BY <1>2, <1>6, <1>7, <1>8 DEF u, Proper

\* No call, and one call.
LEMMA One ==
    ASSUME NEW q, NEW known
    PROVE  /\ Proper(<<>>, q, known)
           /\ \A c \in CallType : Allowed(q, c) /\ Relies(c) \subseteq known =>
                 Proper(<<c>>, q, known) /\ \A f \in Provides(c) : Yields(<<c>>, f)
<1>1. Proper(<<>>, q, known)
  <2>1. <<>> \in Seq(CallType) /\ Len(<<>>) = 0
    BY EmptySeq
  <2>. QED
    BY <2>1 DEF Proper, InOrder
<1>2. ASSUME NEW c \in CallType, Allowed(q, c), Relies(c) \subseteq known
      PROVE  Proper(<<c>>, q, known) /\ \A f \in Provides(c) : Yields(<<c>>, f)
  <2>. DEFINE s == <<c>>
  <2>1. s \in Seq(CallType) /\ Len(s) = 1 /\ s[1] = c
    OBVIOUS
  <2>. HIDE DEF s
  <2>2. \A i \in 1..Len(s) : s[i] = c
    BY <2>1
  <2>3. Proper(s, q, known)
    BY <1>2, <2>1, <2>2 DEF Proper, InOrder
  <2>4. \A f \in Provides(c) : Yields(s, f)
    BY <2>1 DEF Yields
  <2>. QED
    BY <2>3, <2>4 DEF s
<1>. QED
  BY <1>1, <1>2

\* Two calls, the second relying on what is known or provided by the first.
LEMMA Two ==
    ASSUME NEW q, NEW known, NEW c \in CallType, NEW d \in CallType,
           Allowed(q, c), Allowed(q, d), Relies(c) \subseteq known,
           \A f \in Relies(d) : f \in known \/ f \in Provides(c)
    PROVE  /\ Proper(<<c, d>>, q, known)
           /\ \A f : f \in Provides(c) \/ f \in Provides(d) => Yields(<<c, d>>, f)
<1>. DEFINE s == <<c, d>>
<1>1. s \in Seq(CallType) /\ Len(s) = 2 /\ s[1] = c /\ s[2] = d
  <2>1. s \in Seq(CallType)
    OBVIOUS
  <2>2. Len(s) = 2
    OBVIOUS
  <2>3. s[1] = c /\ s[2] = d
    OBVIOUS
  <2>. QED
    BY <2>1, <2>2, <2>3
<1>. HIDE DEF s
<1>2. \A i \in 1..Len(s) : s[i] = c \/ (s[i] = d /\ i = 2)
  BY <1>1
<1>3. \A i \in 1..Len(s) : Allowed(q, s[i])
  BY <1>2
<1>4. InOrder(s, known)
  <2>. SUFFICES ASSUME NEW i \in 1..Len(s), NEW f \in Relies(s[i]), f \notin known
                PROVE  \E j \in 1..(i - 1) : f \in Provides(s[j])
    BY DEF InOrder
  <2>1. s[i] = d /\ i = 2 /\ f \in Provides(c)
    BY <1>2
  <2>2. 1 \in 1..(i - 1)
    BY <2>1
  <2>. QED
    BY <1>1, <2>1, <2>2
<1>5. \A f : f \in Provides(c) \/ f \in Provides(d) => Yields(s, f)
  <2>1. 1 \in 1..Len(s) /\ 2 \in 1..Len(s)
    BY <1>1
  <2>. QED
    BY <1>1, <2>1 DEF Yields
<1>. QED
  BY <1>1, <1>3, <1>4, <1>5 DEF Proper, s

\* Three calls, the last relying on what is known or provided by the others.
LEMMA Three ==
    ASSUME NEW q, NEW known, NEW c \in CallType, NEW d \in CallType, NEW e \in CallType,
           Allowed(q, c), Allowed(q, d), Allowed(q, e),
           Relies(c) \subseteq known, Relies(d) \subseteq known,
           \A f \in Relies(e) : f \in known \/ f \in Provides(c) \/ f \in Provides(d)
    PROVE  /\ Proper(<<c, d, e>>, q, known)
           /\ \A f : f \in Provides(c) \/ f \in Provides(d) \/ f \in Provides(e) =>
                        Yields(<<c, d, e>>, f)
<1>. DEFINE s == <<c, d, e>>
<1>1. s \in Seq(CallType) /\ Len(s) = 3 /\ s[1] = c /\ s[2] = d /\ s[3] = e
  <2>1. s \in Seq(CallType)
    OBVIOUS
  <2>2. Len(s) = 3
    OBVIOUS
  <2>3. s[1] = c /\ s[2] = d /\ s[3] = e
    OBVIOUS
  <2>. QED
    BY <2>1, <2>2, <2>3
<1>. HIDE DEF s
<1>2. \A i \in 1..Len(s) : s[i] = c \/ s[i] = d \/ (s[i] = e /\ i = 3)
  BY <1>1
<1>3. \A i \in 1..Len(s) : Allowed(q, s[i])
  BY <1>2
<1>4. InOrder(s, known)
  <2>. SUFFICES ASSUME NEW i \in 1..Len(s), NEW f \in Relies(s[i]), f \notin known
                PROVE  \E j \in 1..(i - 1) : f \in Provides(s[j])
    BY DEF InOrder
  <2>1. s[i] = e /\ i = 3 /\ (f \in Provides(c) \/ f \in Provides(d))
    BY <1>2
  <2>2. 1 \in 1..(i - 1) /\ 2 \in 1..(i - 1)
    BY <2>1
  <2>. QED
    BY <1>1, <2>1, <2>2
<1>5. \A f : f \in Provides(c) \/ f \in Provides(d) \/ f \in Provides(e) => Yields(s, f)
  <2>1. 1 \in 1..Len(s) /\ 2 \in 1..Len(s) /\ 3 \in 1..Len(s)
    BY <1>1
  <2>. QED
    BY <1>1, <2>1 DEF Yields
<1>. QED
  BY <1>1, <1>3, <1>4, <1>5 DEF Proper, s

\* A call that relies on nothing and that any request may make.
LEMMA Common ==
    ASSUME NEW q, NEW known,
           NEW o \in CallOps \ {"publish", "claim", "create", "putCQ", "putY", "merge", "put", "tryRead", "fix"},
           NEW k \in Kinds \cup {"lq", "none"},
           NEW b \in {"main", "user", "loginKueue", "createKueue", "yunikorn", "log"}
    PROVE  /\ Call(o, k, b) \in CallType
           /\ Relies(Call(o, k, b)) = {}
           /\ Allowed(q, Call(o, k, b))
           /\ Proper(<<Call(o, k, b)>>, q, known)
<1>. DEFINE c == Call(o, k, b)
<1>1. c \in CallType /\ c.op = o /\ c.kind = k /\ c.blk = b
  BY DEF Call, CallType
<1>. HIDE DEF c
<1>2. Relies(c) = {}
  BY <1>1 DEF Relies
<1>3. Allowed(q, c)
  BY <1>1 DEF Allowed
<1>4. Proper(<<c>>, q, known)
  BY <1>1, <1>2, <1>3, One
<1>. QED
  BY <1>1, <1>2, <1>3, <1>4 DEF c

\* What the calls of a block provide.
LEMMA ProvidedBy ==
    /\ \A k \in {"ns", "role", "binding", "pvc", "pv"} : Provides(Call("get", k, "main")) = {k}
    /\ Provides(Call("read", "quota", "main")) = {"quota", "quotaRead"}
    /\ Provides(Call("read", "limit", "main")) = {"limit", "limitRead"}
    /\ Provides(Call("read", "cq", "main")) = {"queueRead"}
    /\ Provides(Call("tryRead", "quota", "again")) = {"quotaRead"}
    /\ Provides(Call("tryRead", "limit", "again")) = {"limitRead"}
    /\ Provides(Call("create", "pvc", "main")) = {"pvc"}
    /\ Provides(Call("merge", "pvc", "main")) = {"merged"}
BY DEF Provides, Call

\* The limits are looked for by any request.
LEMMA LimitsProper ==
    ASSUME NEW q, NEW known
    PROVE  Proper(EnsureVolumeLimits, q, known)
<1>1. Proper(Ensure("quota", "log"), q, known)
  BY Common DEF Ensure, CallOps, Kinds
<1>2. Proper(Ensure("limit", "log"), q, known)
  BY Common DEF Ensure, CallOps, Kinds
<1>. QED
  BY <1>1, <1>2, Joined DEF EnsureVolumeLimits

\* The namespace with all that belongs to it is made sure of.
LEMMA NamespaceProper ==
    ASSUME NEW q, NEW known
    PROVE  /\ Proper(EnsureUserNamespace, q, known)
           /\ \A f \in {"ns", "role", "binding", "pvc"} : Yields(EnsureUserNamespace, f)
<1>. DEFINE a == Ensure("ns", "main")
            b == Ensure("role", "main")
            c == Ensure("binding", "main")
            d == Ensure("pvc", "main")
<1>1. ASSUME NEW k \in {"ns", "role", "binding", "pvc"}
      PROVE  Proper(Ensure(k, "main"), q, known) /\ Yields(Ensure(k, "main"), k)
  <2>. DEFINE e == Call("get", k, "main")
  <2>1. e \in CallType /\ Relies(e) = {} /\ Allowed(q, e)
    BY Common DEF CallOps, Kinds
  <2>2. k \in Provides(e)
    BY ProvidedBy
  <2>. HIDE DEF e
  <2>3. Proper(<<e>>, q, known) /\ Yields(<<e>>, k)
    BY <2>1, <2>2, One
  <2>. QED
    BY <2>3 DEF e, Ensure
<1>2. /\ Proper(a, q, known) /\ Yields(a, "ns")
      /\ Proper(b, q, known) /\ Yields(b, "role")
      /\ Proper(c, q, known) /\ Yields(c, "binding")
      /\ Proper(d, q, known) /\ Yields(d, "pvc")
  BY <1>1
<1>3. EnsureUserNamespace = ((a \o b) \o c) \o d
  BY DEF EnsureUserNamespace
<1>. HIDE DEF a, b, c, d
<1>4. Proper(a \o b, q, known) /\ Yields(a \o b, "ns") /\ Yields(a \o b, "role")
  BY <1>2, Joined
<1>5. /\ Proper((a \o b) \o c, q, known)
      /\ \A f \in {"ns", "role", "binding"} : Yields((a \o b) \o c, f)
  BY <1>2, <1>4, Joined
<1>6. /\ Proper(((a \o b) \o c) \o d, q, known)
      /\ \A f \in {"ns", "role", "binding", "pvc"} : Yields(((a \o b) \o c) \o d, f)
  BY <1>2, <1>5, Joined
<1>. QED
  BY <1>3, <1>6

\* The quota and the limits are made sure of and read.
LEMMA QuotaInfoProper ==
    ASSUME NEW q, NEW known
    PROVE  /\ Proper(GetVolumeQuotaInfo, q, known)
           /\ Yields(GetVolumeQuotaInfo, "quota") /\ Yields(GetVolumeQuotaInfo, "limit")
           /\ Yields(GetVolumeQuotaInfo, "quotaRead") /\ Yields(GetVolumeQuotaInfo, "limitRead")
<1>. DEFINE c == Call("read", "quota", "main")
            d == Call("read", "limit", "main")
<1>1. /\ c \in CallType /\ Relies(c) = {} /\ Allowed(q, c)
      /\ d \in CallType /\ Relies(d) = {} /\ Allowed(q, d)
  BY Common DEF CallOps, Kinds
<1>2. Provides(c) = {"quota", "quotaRead"} /\ Provides(d) = {"limit", "limitRead"}
  BY ProvidedBy
<1>3. GetVolumeQuotaInfo = EnsureVolumeLimits \o <<c, d>>
  BY DEF GetVolumeQuotaInfo
<1>. HIDE DEF c, d
<1>4. /\ Proper(<<c, d>>, q, known)
      /\ \A f \in {"quota", "limit", "quotaRead", "limitRead"} : Yields(<<c, d>>, f)
  BY <1>1, <1>2, Two
<1>. QED
  BY <1>3, <1>4, LimitsProper, Joined

\* What a request with a token does first.
LEMMA MiddlewareProper ==
    ASSUME NEW q, NEW known
    PROVE  Proper(oidcMiddleware, q, known)
<1>. DEFINE a == <<Call("userExists", "secret", "user")>>
            b == IF cfg.kueue THEN CreateKueueUserQueuesIfDontExist ELSE <<>>
<1>1. Proper(a, q, known)
  BY Common DEF CallOps, Kinds
<1>2. Proper(<<Call("look", "cq", "loginKueue")>>, q, known)
  BY Common DEF CallOps, Kinds
<1>3. Proper(b, q, known)
  BY <1>2, One DEF CreateKueueUserQueuesIfDontExist
<1>4. oidcMiddleware = (a \o b) \o EnsureVolumeLimits
  BY DEF oidcMiddleware
<1>. HIDE DEF a, b
<1>5. Proper(a \o b, q, known)
  BY <1>1, <1>3, Joined
<1>. QED
  BY <1>4, <1>5, LimitsProper, Joined

\* The quotas are read.
LEMMA FetchProper ==
    ASSUME NEW q, NEW known
    PROVE  Proper(fetchQuota, q, known)
<1>. DEFINE a == IF cfg.kueue THEN <<Call("read", "cq", "main")>> ELSE <<>>
            c == <<Call("list", "pvc", "main")>>
            b == IF cfg.volume THEN GetVolumeQuotaInfo \o c ELSE <<>>
<1>1. Proper(<<Call("read", "cq", "main")>>, q, known) /\ Proper(c, q, known)
  BY Common DEF CallOps, Kinds
<1>2. Proper(a, q, known)
  BY <1>1, One
<1>3. Proper(GetVolumeQuotaInfo \o c, q, known)
  <2>. HIDE DEF c
  <2>. QED
    BY <1>1, QuotaInfoProper, Joined
<1>4. Proper(b, q, known)
  BY <1>3, One
<1>5. fetchQuota = a \o b
  BY DEF fetchQuota
<1>. HIDE DEF a, b
<1>. QED
  BY <1>2, <1>4, <1>5, Joined

\* A quota update asks for what it can do.
LEMMA UpdateProper ==
    ASSUME NEW q, NEW known, q.op = "setQuota", q.ask \in QuotaUpdateRequest
    PROVE  Proper(updateQuota(q.ask), q, known)
<1>0. q.ask # None
  BY NoneAssumption
<1>. DEFINE a1 == Call("read", "cq", "main")
            a2 == Call("putCQ", "cq", "main")
            a == IF q.ask.cpu = None /\ q.ask.memory = None THEN <<>>
                 ELSE IF cfg.kueue THEN <<a1, a2>> ELSE <<Call("fail", "cq", "main")>>
            b1 == Call("tryRead", "quota", "again")
            b2 == Call("tryRead", "limit", "again")
            b3 == Call("merge", "pvc", "main")
            b == IF ~HasVolumeUpdate(q.ask) THEN <<>>
                 ELSE IF cfg.volume THEN <<b1, b2, b3>> ELSE <<Call("fail", "quota", "main")>>
<1>1. /\ Proper(<<Call("fail", "cq", "main")>>, q, known)
      /\ Proper(<<Call("fail", "quota", "main")>>, q, known)
      /\ Proper(<<>>, q, known)
  BY Common, One DEF CallOps, Kinds
<1>2. Proper(a, q, known)
  <2>1. CASE ~ (q.ask.cpu = None /\ q.ask.memory = None)
    <3>1. a1 \in CallType /\ Relies(a1) = {} /\ Allowed(q, a1)
      BY Common DEF CallOps, Kinds
    <3>2. a2 \in CallType /\ Relies(a2) = {"queueRead"} /\ Allowed(q, a2)
      BY <1>0, <2>1 DEF Call, CallType, CallOps, Kinds, Relies, Allowed
    <3>3. "queueRead" \in Provides(a1)
      BY ProvidedBy
    <3>4. Proper(<<a1, a2>>, q, known)
      <4>. HIDE DEF a1, a2
      <4>. QED
        BY <3>1, <3>2, <3>3, Two
    <3>. HIDE DEF a1, a2
    <3>. QED
      BY <1>1, <2>1, <3>4
  <2>2. CASE q.ask.cpu = None /\ q.ask.memory = None
    BY <1>1, <2>2
  <2>. QED
    BY <2>1, <2>2
<1>3. Proper(b, q, known)
  <2>1. /\ b1 \in CallType /\ Relies(b1) = {} /\ Allowed(q, b1)
        /\ b2 \in CallType /\ Relies(b2) = {} /\ Allowed(q, b2)
    BY DEF Call, CallType, CallOps, Kinds, Relies, Allowed
  <2>2. b3 \in CallType /\ Relies(b3) = {"quotaRead", "limitRead"} /\ Allowed(q, b3)
    BY <1>0 DEF Call, CallType, CallOps, Kinds, Relies, Allowed
  <2>3. "quotaRead" \in Provides(b1) /\ "limitRead" \in Provides(b2)
    BY ProvidedBy
  <2>4. Proper(<<b1, b2, b3>>, q, known)
    <3>. HIDE DEF b1, b2, b3
    <3>. QED
      BY <2>1, <2>2, <2>3, Three
  <2>. HIDE DEF b1, b2, b3
  <2>. QED
    BY <1>1, <2>4
<1>4. updateQuota(q.ask) = a \o b
  BY DEF updateQuota
<1>. HIDE DEF a, b
<1>. QED
  BY <1>2, <1>3, <1>4, Joined

\* YuniKorn's configuration is read and written.
LEMMA YunikornProper ==
    ASSUME NEW q, NEW known, q.name # None
    PROVE  Proper(YunikornUpdate, q, known)
<1>. DEFINE c == Call("readY", "none", "yunikorn")
            d == Call("putY", "none", "yunikorn")
<1>1. /\ c \in CallType /\ Relies(c) = {} /\ Allowed(q, c)
      /\ d \in CallType /\ Relies(d) = {} /\ Allowed(q, d)
  <2>1. c \in CallType /\ Relies(c) = {} /\ Allowed(q, c)
    BY Common DEF CallOps, Kinds
  <2>2. d \in CallType /\ d.op = "putY" /\ d.blk = "yunikorn"
    BY DEF Call, CallType, CallOps
  <2>. HIDE DEF d
  <2>3. Relies(d) = {} /\ Allowed(q, d)
    BY <2>2 DEF Relies, Allowed
  <2>. QED
    BY <2>1, <2>2, <2>3
<1>2. Proper(<<c, d>>, q, known)
  <2>. HIDE DEF c, d
  <2>. QED
    BY <1>1, Two
<1>. HIDE DEF c, d
<1>. QED
  BY <1>2, One DEF YunikornUpdate, c, d

\* The queues of a service are made sure of.
LEMMA QueuesProper ==
    ASSUME NEW q, NEW known
    PROVE  Proper(EnsureKueueUserQueues, q, known)
<1>. DEFINE a == Ensure("flavor", "createKueue")
            b == ensureClusterQueue("createKueue")
            c == ensureLocalQueue("createKueue")
<1>1. Proper(a, q, known) /\ Proper(b, q, known) /\ Proper(c, q, known)
  BY Common DEF Ensure, ensureClusterQueue, ensureLocalQueue, CallOps, Kinds
<1>2. EnsureKueueUserQueues = (a \o b) \o c
  BY DEF EnsureKueueUserQueues
<1>. HIDE DEF a, b, c
<1>3. Proper(a \o b, q, known)
  BY <1>1, Joined
<1>. QED
  BY <1>1, <1>2, <1>3, Joined

\* Every request begins with calls that it may make, in order.
LEMMA CallsProper ==
    ASSUME NEW q \in RequestType, NEW known,
           q.op = "setQuota" => q.ask \in QuotaUpdateRequest,
           q.op \in {"create", "delete"} => q.name # None,
           q.op \notin {"idle", "done"}
    PROVE  Proper(Calls(q), q, known)
<1>. USE MiddlewareProper, NamespaceProper
<1>1. CASE q.op = "ownQuota"
  BY <1>1, FetchProper, Joined DEF Calls
<1>2. CASE q.op = "share"
  <2>1. Proper(<<Call("userExists", "secret", "log")>>, q, known)
    BY Common DEF CallOps, Kinds
  <2>. QED
    BY <1>2, <2>1 DEF Calls
<1>3. CASE q.op = "mkvol"
  <2>. DEFINE c == Call("check", "pvc", "main")
              d == Call("claim", "pvc", "main")
              e == Call("getClaim", "pvc", "main")
              s == oidcMiddleware \o EnsureUserNamespace
              t == s \o GetVolumeQuotaInfo
              given == {"ns", "role", "binding", "pvc", "quota", "limit"}
  <2>1. /\ c \in CallType /\ Relies(c) = {} /\ Allowed(q, c)
        /\ e \in CallType /\ Relies(e) = {} /\ Allowed(q, e)
    BY Common DEF CallOps, Kinds
  <2>2. d \in CallType /\ Relies(d) = given /\ Allowed(q, d)
    BY DEF Call, CallType, CallOps, Kinds, Relies, Allowed
  <2>3. Calls(q) = t \o <<c, d, e>>
    BY <1>3 DEF Calls
  <2>. HIDE DEF c, d, e, given
  <2>4. Proper(<<c, d, e>>, q, given)
    BY <2>1, <2>2, Three
  <2>5. Proper(s, q, known) /\ \A f \in {"ns", "role", "binding", "pvc"} : Yields(s, f)
    BY Joined
  <2>. HIDE DEF s
  <2>6. Proper(t, q, known) /\ \A f \in given : Yields(t, f)
    BY <2>5, QuotaInfoProper, Joined DEF given
  <2>. HIDE DEF t
  <2>. QED
    BY <2>3, <2>4, <2>6, Joined
<1>4. CASE q.op = "rmvol"
  <2>. DEFINE a == <<Call("dropClaim", "pvc", "main")>>
              s == oidcMiddleware \o EnsureUserNamespace
  <2>1. Proper(a, q, known)
    BY Common DEF CallOps, Kinds
  <2>2. Calls(q) = s \o a
    BY <1>4 DEF Calls
  <2>. HIDE DEF a
  <2>3. Proper(s, q, known)
    BY Joined
  <2>. HIDE DEF s
  <2>. QED
    BY <2>1, <2>2, <2>3, Joined
<1>5. CASE q.op = "create"
  <2>. DEFINE d == Call("publish", "none", "main")
              k == IF cfg.kueue THEN EnsureKueueUserQueues ELSE <<>>
              s == oidcMiddleware \o EnsureUserNamespace
              m == EnsureSecretInNamespace(q.place)
              t == s \o m
              u == t \o k
              v == u \o <<d>>
              given == {"ns", "role", "binding", "pvc"}
  <2>1. Proper(m, q, known)
    <3>1. Proper(Ensure("mirror", "main"), q, known) /\ Proper(Ensure("otherMirror", "main"), q, known)
      BY Common DEF Ensure, CallOps, Kinds
    <3>. DEFINE o == IF q.place = "other" THEN Ensure("otherMirror", "main") ELSE <<>>
    <3>2. Proper(o, q, known)
      BY <3>1, One
    <3>3. m = Ensure("mirror", "main") \o o
      BY DEF EnsureSecretInNamespace
    <3>. HIDE DEF m, o
    <3>. QED
      BY <3>1, <3>2, <3>3, Joined
  <2>2. Proper(k, q, known)
    BY QueuesProper, One
  <2>3. d \in CallType /\ Relies(d) = given /\ Allowed(q, d)
    BY <1>5 DEF Call, CallType, CallOps, Kinds, Relies, Allowed
  <2>4. Calls(q) = v \o YunikornUpdate
    BY <1>5 DEF Calls
  <2>. HIDE DEF d, k, m
  <2>5. Proper(<<d>>, q, given)
    BY <2>3, One
  <2>6. Proper(s, q, known) /\ \A f \in given : Yields(s, f)
    BY Joined
  <2>. HIDE DEF s, given
  <2>7. Proper(t, q, known) /\ \A f \in given : Yields(t, f)
    BY <2>1, <2>6, Joined
  <2>. HIDE DEF t
  <2>8. Proper(u, q, known) /\ \A f \in given : Yields(u, f)
    BY <2>2, <2>7, Joined
  <2>. HIDE DEF u
  <2>9. Proper(v, q, known)
    BY <2>5, <2>8, Joined
  <2>. HIDE DEF v
  <2>. QED
    BY <1>5, <2>4, <2>9, YunikornProper, Joined
<1>6. CASE q.op = "delete"
  <2>. DEFINE a == <<Call("retire", "none", "main")>>
              c == <<Call("dropLQ", "lq", "log")>>
              b == IF cfg.kueue THEN c ELSE <<>>
              s == oidcMiddleware \o a
              t == s \o YunikornUpdate
  <2>1. Proper(a, q, known) /\ Proper(c, q, known)
    BY Common DEF CallOps, Kinds
  <2>2. Proper(b, q, known)
    BY <2>1, One
  <2>3. Calls(q) = t \o b
    BY <1>6 DEF Calls
  <2>. HIDE DEF a, b
  <2>4. Proper(s, q, known)
    BY <2>1, Joined
  <2>. HIDE DEF s
  <2>5. Proper(t, q, known)
    BY <1>6, <2>4, YunikornProper, Joined
  <2>. HIDE DEF t
  <2>. QED
    BY <2>2, <2>3, <2>5, Joined
<1>7. CASE q.op = "setQuota"
  <2>1. Proper(updateQuota(q.ask), q, known)
    BY <1>7, UpdateProper
  <2>2. Calls(q) = updateQuota(q.ask) \o fetchQuota
    BY <1>7 DEF Calls
  <2>. QED
    BY <2>1, <2>2, FetchProper, Joined
<1>. QED
  BY <1>1, <1>2, <1>3, <1>4, <1>5, <1>6, <1>7 DEF RequestType, Ops

-----------------------------------------------------------------------------
(* What a step does to the calls that are left. *)

Agenda == todo \in [Reqs -> Seq(CallType)] /\ CallsInOrder /\ CallsPermitted

\* A step of request r: no other request is touched, and no request knows less after it.
Frame(r) ==
    /\ req' = req
    /\ \A q \in Reqs \ {r} : loc'[q] = loc[q]
    /\ \A q \in Reqs : Known(q) \subseteq Known(q)'

\* The calls before the m-th give way to those of p.
LEMMA Advance ==
    ASSUME NEW r \in Reqs, IInv, Frame(r),
           NEW p \in Seq(CallType), NEW m \in 2..(Len(todo[r]) + 1),
           todo' = [todo EXCEPT ![r] = p \o SubSeq(todo[r], m, Len(todo[r]))],
           InOrder(p, Known(r)'),
           \A i \in 1..Len(p) : Permitted(req'[r], loc'[r], p[i], i),
           \A i \in 1..(m - 1) : \A f \in Provides(todo[r][i]) :
              f \in Known(r)' \/ \E j \in 1..Len(p) : f \in Provides(p[j])
    PROVE  Agenda'
<1>. DEFINE s == todo[r]
            t == p \o SubSeq(s, m, Len(s))
<1>1. todo \in [Reqs -> Seq(CallType)] /\ CallsInOrder /\ CallsPermitted
  BY DEF IInv, TypeOK
<1>2. s \in Seq(CallType) /\ Len(s) \in Nat /\ Len(p) \in Nat /\ m \in 1..(Len(s) + 1) /\ m \in Nat
  BY <1>1
<1>3. /\ t \in Seq(CallType)
      /\ Len(t) = Len(p) + (Len(s) - m + 1)
      /\ \A i \in 1..Len(p) : t[i] = p[i]
      /\ \A i \in (Len(p) + 1)..Len(t) :
            t[i] = s[i - Len(p) + m - 1] /\ i - Len(p) + m - 1 \in m..Len(s)
  <2>. HIDE DEF s
  <2>. QED
    BY <1>2, FrontReplaced
<1>4. todo'[r] = t /\ \A q \in Reqs \ {r} : todo'[q] = todo[q]
  <2>. HIDE DEF t
  <2>1. todo' = [todo EXCEPT ![r] = t]
    BY DEF t
  <2>. QED
    BY <1>1, <2>1
<1>5. todo' \in [Reqs -> Seq(CallType)]
  <2>. HIDE DEF t
  <2>1. todo' = [todo EXCEPT ![r] = t]
    BY DEF t
  <2>. QED
    BY <1>1, <1>3, <2>1
<1>6. InOrder(s, Known(r)) /\ Known(r) \subseteq Known(r)'
  BY <1>1 DEF CallsInOrder, Frame
<1>7. InOrder(t, Known(r)')
  <2>. HIDE DEF s
  <2>1. \A i \in 1..(m - 1) : \A f \in Provides(s[i]) :
              f \in Known(r)' \/ \E j \in 1..Len(p) : f \in Provides(p[j])
    BY DEF s
  <2>. QED
    BY <1>2, <1>6, <2>1, OrderKept
<1>. HIDE DEF s, t
<1>8. CallsInOrder'
  <2>1. ASSUME NEW q \in Reqs \ {r} PROVE InOrder(todo'[q], Known(q)')
    <3>1. InOrder(todo[q], Known(q)) /\ Known(q) \subseteq Known(q)' /\ todo'[q] = todo[q]
      BY <1>1, <1>4 DEF CallsInOrder, Frame
    <3>. QED
      BY <3>1 DEF InOrder
  <2>. QED
    BY <1>4, <1>7, <2>1 DEF CallsInOrder
<1>9. CallsPermitted'
  <2>1. ASSUME NEW q \in Reqs \ {r}, NEW i \in 1..Len(todo'[q])
        PROVE  Permitted(req'[q], loc'[q], todo'[q][i], i)
    <3>1. i \in 1..Len(todo[q]) /\ todo'[q] = todo[q] /\ loc'[q] = loc[q] /\ req'[q] = req[q]
      BY <1>4, <2>1 DEF Frame
    <3>2. Permitted(req[q], loc[q], todo[q][i], i)
      BY <1>1, <3>1 DEF CallsPermitted
    <3>. QED
      BY <3>1, <3>2 DEF Permitted
  <2>2. ASSUME NEW i \in 1..Len(t) PROVE Permitted(req'[r], loc'[r], t[i], i)
    <3>1. CASE i \in 1..Len(p)
      BY <1>3, <3>1
    <3>2. CASE i \in (Len(p) + 1)..Len(t)
      <4>1. PICK j \in m..Len(s) : t[i] = s[j]
        BY <1>3, <3>2
      <4>2. j \in 1..Len(todo[r]) /\ j # 1 /\ s[j] = todo[r][j]
        BY <1>2 DEF s
      <4>3. Permitted(req[r], loc[r], s[j], j) /\ req' = req
        BY <1>1, <4>2 DEF CallsPermitted, Frame
      <4>4. s[j].op # "fix"
        BY <4>2, <4>3 DEF Permitted
      <4>. QED
        BY <4>1, <4>3, <4>4 DEF Permitted
    <3>. QED
      BY <1>2, <1>3, <2>2, <3>1, <3>2
  <2>. QED
    BY <1>4, <2>1, <2>2 DEF CallsPermitted
<1>. QED
  BY <1>5, <1>8, <1>9 DEF Agenda

\* The rest of a sequence that is not empty.
LEMMA RestOf ==
    ASSUME NEW s \in Seq(CallType), s # <<>>
    PROVE  /\ Len(s) \in Nat /\ Len(s) >= 1 /\ 1 \in 1..Len(s) /\ s[1] \in CallType
           /\ Tail(s) = SubSeq(s, 2, Len(s)) /\ 2 \in 2..(Len(s) + 1)
<1>1. Len(s) \in Nat /\ Len(s) >= 1
  BY EmptySeq
<1>2. Tail(s) = SubSeq(s, 2, Len(s))
  BY <1>1, TailIsSubSeq
<1>. QED
  BY <1>1, <1>2, ElementOfSeq

\* A call is over and those of p come next.
LEMMA Moves ==
    ASSUME NEW r \in Reqs, IInv, Frame(r), todo[r] # <<>>, NEW p, GoOn(r, p),
           Proper(p, req[r], Known(r)'),
           \A f \in Provides(todo[r][1]) : f \in Known(r)' \/ Yields(p, f)
    PROVE  Agenda'
<1>1. todo \in [Reqs -> Seq(CallType)]
  BY DEF IInv, TypeOK
<1>2. todo[r] \in Seq(CallType)
  BY <1>1
<1>3. /\ Tail(todo[r]) = SubSeq(todo[r], 2, Len(todo[r])) /\ Len(todo[r]) \in Nat
      /\ 2 \in 2..(Len(todo[r]) + 1)
  BY <1>2, RestOf
<1>4. todo' = [todo EXCEPT ![r] = p \o SubSeq(todo[r], 2, Len(todo[r]))]
  BY <1>3 DEF GoOn
<1>5. p \in Seq(CallType) /\ InOrder(p, Known(r)') /\ \A i \in 1..Len(p) : Allowed(req[r], p[i])
  BY DEF Proper
<1>6. \A i \in 1..Len(p) : Permitted(req'[r], loc'[r], p[i], i)
  BY <1>5 DEF Allowed, Permitted, Frame
<1>7. \A i \in 1..(2 - 1) : \A f \in Provides(todo[r][i]) :
              f \in Known(r)' \/ \E j \in 1..Len(p) : f \in Provides(p[j])
  BY DEF Yields
<1>. QED
  BY <1>3, <1>4, <1>5, <1>6, <1>7, Advance

\* The same with nothing to come in between.
LEMMA MovesOn ==
    ASSUME NEW r \in Reqs, IInv, Frame(r), todo[r] # <<>>, GoOn(r, <<>>),
           Provides(todo[r][1]) \subseteq Known(r)'
    PROVE  Agenda'
BY Moves, One

\* An object that was read is to be put right.
LEMMA MovesToFix ==
    ASSUME NEW r \in Reqs, IInv, Frame(r), todo[r] # <<>>,
           todo[r][1].op = "get", todo[r][1].kind \in {"ns", "cq"},
           GoOn(r, <<Call("fix", todo[r][1].kind, todo[r][1].blk)>>),
           todo[r][1].kind = "cq" => loc'[r].cq # None /\ loc'[r].cq.selector # "owner"
    PROVE  Agenda'
<1>. DEFINE h == todo[r][1]
            c == Call("fix", h.kind, h.blk)
            p == <<c>>
<1>1. todo \in [Reqs -> Seq(CallType)]
  BY DEF IInv, TypeOK
<1>2. todo[r] \in Seq(CallType)
  BY <1>1
<1>3. /\ Tail(todo[r]) = SubSeq(todo[r], 2, Len(todo[r])) /\ Len(todo[r]) \in Nat
      /\ 2 \in 2..(Len(todo[r]) + 1) /\ h \in CallType /\ 1 \in 1..Len(todo[r])
  BY <1>2, RestOf
<1>4. Permitted(req[r], loc[r], h, 1)
  BY <1>3 DEF IInv, CallsPermitted
<1>5. h.op # "tryRead" /\ h.blk # "again"
  BY <1>4 DEF Permitted
<1>. HIDE DEF h
<1>6. c \in CallType /\ c.op = "fix" /\ c.kind = h.kind /\ c.blk = h.blk
  BY <1>3 DEF Call, CallType, CallOps
<1>7. todo' = [todo EXCEPT ![r] = p \o SubSeq(todo[r], 2, Len(todo[r]))]
  BY <1>3 DEF GoOn, h
<1>8. h.op = "get" /\ h.kind \in {"ns", "cq"}
  BY DEF h
<1>9. h.kind = "cq" => loc'[r].cq # None /\ loc'[r].cq.selector # "owner"
  BY DEF h
<1>. HIDE DEF c
<1>10. p \in Seq(CallType) /\ Len(p) = 1 /\ p[1] = c
  <2>1. p \in Seq(CallType)
    BY <1>6
  <2>2. Len(p) = 1
    OBVIOUS
  <2>3. p[1] = c
    OBVIOUS
  <2>. QED
    BY <2>1, <2>2, <2>3
<1>. HIDE DEF p
<1>11. Relies(c) = {}
  BY <1>6 DEF Relies
<1>12. InOrder(p, Known(r)')
  BY <1>10, <1>11 DEF InOrder
<1>13. Permitted(req'[r], loc'[r], c, 1)
  BY <1>5, <1>6, <1>8, <1>9 DEF Permitted
<1>14. \A i \in 1..Len(p) : Permitted(req'[r], loc'[r], p[i], i)
  BY <1>10, <1>13
<1>15. Provides(h) \subseteq Provides(c)
  BY <1>5, <1>6, <1>8 DEF Provides
<1>16. \A i \in 1..(2 - 1) : \A f \in Provides(todo[r][i]) :
              f \in Known(r)' \/ \E j \in 1..Len(p) : f \in Provides(p[j])
  BY <1>10, <1>15 DEF h
<1>. QED
  BY <1>3, <1>7, <1>10, <1>12, <1>14, <1>16, Advance

\* Calls whose errors do not end the request provide nothing.
LEMMA ProvidesNothing ==
    ASSUME NEW c, c.blk \notin {"main", "again"}
    PROVE  Provides(c) = {}
BY DEF Provides

\* A call returns an error.
LEMMA Fails ==
    ASSUME NEW r \in Reqs, IInv, Frame(r), todo[r] # <<>>, todo[r][1].op # "tryRead", Fail(r)
    PROVE  Agenda'
<1>. DEFINE s == todo[r]
            b == todo[r][1].blk
<1>1. todo \in [Reqs -> Seq(CallType)]
  BY DEF IInv, TypeOK
<1>2. s \in Seq(CallType)
  BY <1>1
<1>3. /\ Tail(s) = SubSeq(s, 2, Len(s)) /\ Len(s) \in Nat
      /\ 2 \in 2..(Len(s) + 1) /\ s[1] \in CallType /\ 1 \in 1..Len(s)
  BY <1>2, RestOf
<1>4. b # "again" /\ b \in {"main", "user", "loginKueue", "createKueue", "yunikorn", "log", "again"}
  <2>1. Permitted(req[r], loc[r], s[1], 1)
    BY <1>3 DEF IInv, CallsPermitted
  <2>. QED
    BY <1>3, <2>1 DEF Permitted, CallType
<1>5. <<>> \in Seq(CallType) /\ Len(<<>>) = 0
  <2>1. <<>> \in Seq(CallType)
    OBVIOUS
  <2>2. Len(<<>>) = 0
    OBVIOUS
  <2>. QED
    BY <2>1, <2>2
<1>6. InOrder(<<>>, Known(r)') /\ \A i \in 1..Len(<<>>) : Permitted(req'[r], loc'[r], <<>>[i], i)
  BY <1>5 DEF InOrder
<1>7. CASE b = "main"
  <2>1. todo' = [todo EXCEPT ![r] = <<>>]
    BY <1>7 DEF Fail, Head1
  <2>2. todo'[r] = <<>> /\ \A q \in Reqs \ {r} : todo'[q] = todo[q]
    BY <1>1, <2>1
  <2>3. todo' \in [Reqs -> Seq(CallType)]
    BY <1>1, <1>5, <2>1
  <2>4. ASSUME NEW q \in Reqs \ {r} PROVE InOrder(todo'[q], Known(q)')
    <3>1. InOrder(todo[q], Known(q)) /\ Known(q) \subseteq Known(q)' /\ todo'[q] = todo[q]
      BY <2>2 DEF CallsInOrder, Frame, IInv
    <3>. QED
      BY <3>1 DEF InOrder
  <2>5. ASSUME NEW q \in Reqs \ {r}, NEW i \in 1..Len(todo'[q])
        PROVE  Permitted(req'[q], loc'[q], todo'[q][i], i)
    <3>1. i \in 1..Len(todo[q]) /\ todo'[q] = todo[q] /\ loc'[q] = loc[q] /\ req'[q] = req[q]
      BY <2>2, <2>5 DEF Frame
    <3>2. Permitted(req[q], loc[q], todo[q][i], i)
      BY <3>1 DEF CallsPermitted, IInv
    <3>. QED
      BY <3>1, <3>2 DEF Permitted
  <2>6. CallsInOrder'
    BY <1>6, <2>2, <2>4 DEF CallsInOrder
  <2>7. CallsPermitted'
    <3>1. 1..Len(todo'[r]) = {}
      BY <1>5, <2>2
    <3>. QED
      BY <2>5, <3>1 DEF CallsPermitted
  <2>. QED
    BY <2>3, <2>6, <2>7 DEF Agenda
<1>8. CASE b \in {"user", "log"}
  <2>1. todo' = [todo EXCEPT ![r] = Tail(@)]
    BY <1>8 DEF Fail, Head1
  <2>2. todo' = [todo EXCEPT ![r] = SubSeq(s, 2, Len(s))]
    BY <1>3, <2>1
  <2>3. SubSeq(s, 2, Len(s)) \in Seq(CallType)
    BY <1>2, <1>3, SubSeqProperties
  <2>4. SubSeq(s, 2, Len(s)) = <<>> \o SubSeq(s, 2, Len(s))
    <3>. HIDE DEF s
    <3>. QED
      BY <2>3, ConcatEmptySeq
  <2>5. todo' = [todo EXCEPT ![r] = <<>> \o SubSeq(todo[r], 2, Len(todo[r]))]
    BY <2>2, <2>4
  <2>6. Provides(todo[r][1]) = {}
    BY <1>8, ProvidesNothing
  <2>7. \A i \in 1..(2 - 1) : \A f \in Provides(todo[r][i]) :
              f \in Known(r)' \/ \E j \in 1..Len(<<>>) : f \in Provides(<<>>[j])
    BY <2>6
  <2>. QED
    BY <1>3, <1>5, <1>6, <2>5, <2>7, Advance
<1>9. CASE b \notin {"main", "user", "log"}
  <2>1. todo' = [todo EXCEPT ![r] = AfterBlock(s, b)]
    BY <1>9 DEF Fail, Head1
  <2>2. PICK m \in 2..(Len(s) + 1) : /\ AfterBlock(s, b) = SubSeq(s, m, Len(s))
                                     /\ \A i \in 1..(m - 1) : s[i].blk = b
    BY <1>2, AfterBlockFacts
  <2>3. SubSeq(s, m, Len(s)) \in Seq(CallType)
    <3>1. \A i \in m..Len(s) : s[i] \in CallType
      BY <1>2, <1>3, <2>2, ElementOfSeq
    <3>. QED
      BY <1>3, <2>2, <3>1, SubSeqProperties
  <2>4. SubSeq(s, m, Len(s)) = <<>> \o SubSeq(s, m, Len(s))
    <3>. HIDE DEF s
    <3>. QED
      BY <2>3, ConcatEmptySeq
  <2>5. todo' = [todo EXCEPT ![r] = <<>> \o SubSeq(todo[r], m, Len(todo[r]))]
    BY <2>1, <2>2, <2>4
  <2>6. \A i \in 1..(m - 1) : Provides(todo[r][i]) = {}
    BY <1>4, <1>9, <2>2, ProvidesNothing
  <2>7. \A i \in 1..(m - 1) : \A f \in Provides(todo[r][i]) :
              f \in Known(r)' \/ \E j \in 1..Len(<<>>) : f \in Provides(<<>>[j])
    BY <2>6
  <2>. QED
    BY <1>5, <1>6, <2>2, <2>5, <2>7, Advance
<1>. QED
  BY <1>4, <1>7, <1>8, <1>9

\* updateVolumeQuota makes the limits and reads them again.
LEMMA ReadsAgain ==
    ASSUME NEW r \in Reqs, IInv, Frame(r), todo[r] # <<>>, todo[r][1].op = "tryRead", ReadAgain(r)
    PROVE  Agenda'
<1>. DEFINE s == todo[r]
            p == GetVolumeQuotaInfo
<1>1. todo \in [Reqs -> Seq(CallType)] /\ CallsPermitted
  BY DEF IInv, TypeOK
<1>2. s \in Seq(CallType)
  BY <1>1
<1>3. Len(s) \in Nat /\ s[1] \in CallType /\ 1 \in 1..Len(s)
  BY <1>2, RestOf
<1>4. s[1].blk = "again"
  BY <1>1, <1>3 DEF CallsPermitted, Permitted
<1>5. PICK m \in 2..(Len(s) + 1) : /\ AfterBlock(s, "again") = SubSeq(s, m, Len(s))
                                   /\ \A i \in 1..(m - 1) : s[i].blk = "again"
  BY <1>2, <1>4, AfterBlockFacts
<1>6. todo' = [todo EXCEPT ![r] = p \o SubSeq(todo[r], m, Len(todo[r]))]
  BY <1>5 DEF ReadAgain, GetVolumeQuotaInfo
<1>. HIDE DEF p
<1>7. Proper(p, req[r], Known(r)') /\ Yields(p, "quotaRead") /\ Yields(p, "limitRead")
  BY QuotaInfoProper DEF p
<1>8. p \in Seq(CallType) /\ InOrder(p, Known(r)') /\ \A i \in 1..Len(p) : Allowed(req[r], p[i])
  BY <1>7 DEF Proper
<1>9. \A i \in 1..Len(p) : Permitted(req'[r], loc'[r], p[i], i)
  BY <1>8 DEF Allowed, Permitted, Frame
<1>10. \A i \in 1..(m - 1) : Provides(todo[r][i]) \subseteq {"quotaRead", "limitRead"}
  BY <1>5 DEF Provides
<1>11. \A i \in 1..(m - 1) : \A f \in Provides(todo[r][i]) :
              f \in Known(r)' \/ \E j \in 1..Len(p) : f \in Provides(p[j])
  BY <1>7, <1>10 DEF Yields
<1>. QED
  BY <1>5, <1>6, <1>8, <1>9, <1>11, Advance

-----------------------------------------------------------------------------
(* The parts of the invariant that a step has to keep. *)

\* The next call of a request: it is a call, and what it relies on is known.
LEMMA NextCall ==
    ASSUME NEW r \in Reqs, IInv, todo[r] # <<>>
    PROVE  /\ todo[r][1] \in CallType
           /\ Relies(todo[r][1]) \subseteq Known(r)
           /\ Permitted(req[r], loc[r], todo[r][1], 1)
<1>1. todo[r] \in Seq(CallType)
  BY DEF IInv, TypeOK
<1>2. 1 \in 1..Len(todo[r]) /\ todo[r][1] \in CallType
  BY <1>1, RestOf
<1>3. InOrder(todo[r], Known(r)) /\ Permitted(req[r], loc[r], todo[r][1], 1)
  BY <1>2 DEF IInv, CallsInOrder, CallsPermitted
<1>4. Relies(todo[r][1]) \subseteq Known(r)
  BY <1>2, <1>3 DEF InOrder
<1>. QED
  BY <1>2, <1>3, <1>4

\* A request knows no less as long as nothing it knows of is taken away.
LEMMA KnownGrows ==
    ASSUME NEW q,
           obj.ns = "owned" => obj'.ns = "owned",
           \A k \in {"role", "binding", "pvc", "pv", "quota", "limit"} : obj[k] # None => obj'[k] # None,
           loc[q].quota # None => loc'[q].quota # None,
           loc[q].limit # None => loc'[q].limit # None,
           loc[q].cq # None => loc'[q].cq # None,
           loc[q].merged # None => loc'[q].merged # None
    PROVE  Known(q) \subseteq Known(q)'
BY DEF Known

\* A step that reads and writes nothing.
LEMMA NothingTouched ==
    ASSUME NEW r \in Reqs, UNCHANGED <<obj, loc, req>>
    PROVE  Frame(r)
<1>1. \A q \in Reqs : Known(q) \subseteq Known(q)'
  BY DEF Known
<1>. QED
  BY <1>1 DEF Frame

\* A step that only writes.
LEMMA ObjectsGrow ==
    ASSUME NEW r \in Reqs, UNCHANGED <<loc, req>>,
           obj.ns = "owned" => obj'.ns = "owned",
           \A k \in {"role", "binding", "pvc", "pv", "quota", "limit"} : obj[k] # None => obj'[k] # None
    PROVE  Frame(r)
<1>1. \A q \in Reqs : Known(q) \subseteq Known(q)'
  BY KnownGrows
<1>. QED
  BY <1>1 DEF Frame

\* A step that only reads.
LEMMA ReadingsGrow ==
    ASSUME NEW r \in Reqs, UNCHANGED <<obj, req>>, loc \in [Reqs -> Readings],
           NEW l, loc' = [loc EXCEPT ![r] = l],
           loc[r].quota # None => l.quota # None,
           loc[r].limit # None => l.limit # None,
           loc[r].cq # None => l.cq # None,
           loc[r].merged # None => l.merged # None
    PROVE  Frame(r)
<1>1. loc'[r] = l /\ \A q \in Reqs \ {r} : loc'[q] = loc[q]
  OBVIOUS
<1>2. Known(r) \subseteq Known(r)'
  BY <1>1, KnownGrows
<1>3. \A q \in Reqs \ {r} : Known(q) \subseteq Known(q)'
  BY <1>1, KnownGrows
<1>. QED
  BY <1>1, <1>2, <1>3 DEF Frame

\* The records that go with a step.
LEMMA Records ==
    ASSUME NEW r \in Reqs, IInv, NEW p
    PROVE  /\ GoOn(r, p) \/ Fail(r) \/ ReadAgain(r) => ans' \in [Reqs -> {"ok", "error"}]
           /\ Quietly \/ Fault(r) => clean' \in [Reqs -> BOOLEAN] /\ faults' \in Nat
<1>1. ans \in [Reqs -> {"ok", "error"}] /\ clean \in [Reqs -> BOOLEAN] /\ faults \in Nat
  BY DEF IInv, TypeOK
<1>2. GoOn(r, p) \/ ReadAgain(r) => ans' \in [Reqs -> {"ok", "error"}]
  BY <1>1 DEF GoOn, ReadAgain
<1>3. Fail(r) => ans' \in [Reqs -> {"ok", "error"}]
  BY <1>1 DEF Fail
<1>4. Quietly => clean' \in [Reqs -> BOOLEAN] /\ faults' \in Nat
  BY <1>1 DEF Quietly
<1>5. Fault(r) => clean' \in [Reqs -> BOOLEAN] /\ faults' \in Nat
  <2>1. Fault(r) => faults' \in Nat
    BY <1>1 DEF Fault
  <2>2. Fault(r) => clean' \in [Reqs -> BOOLEAN]
    BY <1>1 DEF Fault
  <2>. QED
    BY <2>1, <2>2
<1>. QED
  BY <1>2, <1>3, <1>4, <1>5

\* A step with no effect on the cluster and nothing read.
LEMMA WithoutEffect ==
    ASSUME NEW r \in Reqs, IInv, NoEffect, Fixed, Agenda',
           ans' \in [Reqs -> {"ok", "error"}], clean' \in [Reqs -> BOOLEAN], faults' \in Nat
    PROVE  IInv'
<1>. USE DEF NoEffect, Fixed, store
<1>1. TypeOK'
  BY DEF IInv, TypeOK, Agenda
<1>2. Backed'
  BY DEF IInv, Backed
<1>3. NamespaceReady'
  BY DEF IInv, NamespaceReady, Managed
<1>. QED
  BY <1>1, <1>2, <1>3 DEF IInv, Agenda

\* Most calls provide nothing.
LEMMA NothingProvided ==
    ASSUME NEW r \in Reqs, IInv, todo[r] # <<>>,
           todo[r][1].op \notin {"get", "fix", "create", "read", "tryRead", "merge"}
    PROVE  Provides(todo[r][1]) = {}
<1>1. Permitted(req[r], loc[r], todo[r][1], 1)
  BY NextCall
<1>2. todo[r][1].blk # "again"
  BY <1>1 DEF Permitted
<1>. QED
  BY <1>2 DEF Provides

\* A step of a call that provides nothing, and that succeeds or not with no effect.
LEMMA PlainStep ==
    ASSUME NEW r \in Reqs, IInv, NoEffect, Fixed, Quietly, todo[r] # <<>>,
           todo[r][1].op \notin {"get", "fix", "create", "read", "tryRead", "merge"},
           GoOn(r, <<>>) \/ Fail(r)
    PROVE  IInv'
<1>1. Frame(r)
  BY NothingTouched DEF NoEffect, Fixed, store
<1>2. Provides(todo[r][1]) = {}
  BY NothingProvided
<1>3. Agenda'
  BY <1>1, <1>2, MovesOn, Fails
<1>4. ans' \in [Reqs -> {"ok", "error"}] /\ clean' \in [Reqs -> BOOLEAN] /\ faults' \in Nat
  BY Records
<1>. QED
  BY <1>3, <1>4, WithoutEffect

\* A call that fails before it takes effect.
LEMMA CallFailsKeeps ==
    ASSUME NEW r \in Reqs, IInv, CallFails(r)
    PROVE  IInv'
<1>1. NoEffect /\ Fixed /\ Fail(r) /\ Fault(r) /\ todo[r] # <<>> /\ todo[r][1].op # "tryRead"
  BY DEF CallFails, At
<1>2. Frame(r)
  BY <1>1, NothingTouched DEF NoEffect, Fixed, store
<1>3. Agenda'
  BY <1>1, <1>2, Fails
<1>4. ans' \in [Reqs -> {"ok", "error"}] /\ clean' \in [Reqs -> BOOLEAN] /\ faults' \in Nat
  BY <1>1, Records
<1>. QED
  BY <1>1, <1>3, <1>4, WithoutEffect

\* The look for the ClusterQueue at login.
LEMMA LookForQueueKeeps ==
    ASSUME NEW r \in Reqs, IInv, LookForQueue(r)
    PROVE  IInv'
<1>. DEFINE make == Ensure("flavor", "loginKueue") \o ensureClusterQueue("loginKueue")
<1>1. Proper(make, req[r], Known(r)')
  <2>1. /\ Proper(Ensure("flavor", "loginKueue"), req[r], Known(r)')
        /\ Proper(ensureClusterQueue("loginKueue"), req[r], Known(r)')
    BY Common DEF Ensure, ensureClusterQueue, CallOps, Kinds
  <2>. QED
    BY <2>1, Joined
<1>. HIDE DEF make
<1>2. /\ NoEffect /\ Fixed /\ todo[r] # <<>> /\ todo[r][1].op = "look"
      /\ GoOn(r, <<>>) \/ GoOn(r, make)
      /\ Quietly \/ Fault(r)
  BY DEF LookForQueue, At, make
<1>3. Frame(r)
  BY <1>2, NothingTouched DEF NoEffect, Fixed, store
<1>4. Provides(todo[r][1]) = {}
  BY <1>2, NothingProvided
<1>5. Agenda'
  BY <1>1, <1>2, <1>3, <1>4, Moves, MovesOn
<1>6. ans' \in [Reqs -> {"ok", "error"}] /\ clean' \in [Reqs -> BOOLEAN] /\ faults' \in Nat
  BY <1>2, Records
<1>. QED
  BY <1>2, <1>5, <1>6, WithoutEffect

\* Steps that only look.
LEMMA LookingKeeps ==
    ASSUME NEW r \in Reqs, IInv,
           \/ ReadBasePVC(r) \/ ListClaims(r) \/ ValidateManagedVolumeQuota(r)
           \/ GetManagedVolume(r) \/ NotEnabled(r)
    PROVE  IInv'
<1>1. ReadBasePVC(r) => IInv'
  BY PlainStep DEF ReadBasePVC, At
<1>2. ListClaims(r) => IInv'
  BY PlainStep DEF ListClaims, At
<1>3. ValidateManagedVolumeQuota(r) => IInv'
  <2>. SUFFICES ASSUME ValidateManagedVolumeQuota(r) PROVE IInv'
    OBVIOUS
  <2>1. /\ todo[r] # <<>> /\ todo[r][1].op = "check"
        /\ GoOn(r, <<>>) \/ Fail(r)
        /\ NoEffect /\ Fixed /\ Quietly
    BY Zenon DEF ValidateManagedVolumeQuota, At
  <2>. QED
    BY <2>1, PlainStep
<1>4. GetManagedVolume(r) => IInv'
  BY PlainStep DEF GetManagedVolume, At
<1>5. NotEnabled(r) => IInv'
  BY PlainStep DEF NotEnabled, At
<1>. QED
  BY <1>1, <1>2, <1>3, <1>4, <1>5

-----------------------------------------------------------------------------
(* Steps that change the user's services, volumes and queues. *)

LocalQueues == [Places -> [Names -> {None, "there"}]]
Services == [Places -> [Names -> Service \cup {None}]]

\* One value is put among those of a place.
LEMMA PutAt ==
    /\ \A f \in Services, p \in Places, n \in Names \cup {None}, v \in Service \cup {None} :
          [f EXCEPT ![p][n] = v] \in Services
    /\ \A f \in LocalQueues, p \in Places, n \in Names \cup {None}, v \in {None, "there"} :
          [f EXCEPT ![p][n] = v] \in LocalQueues
<1>1. ASSUME NEW V, NEW f \in [Places -> [Names -> V]], NEW p \in Places, NEW n, NEW v \in V
      PROVE  [f EXCEPT ![p][n] = v] \in [Places -> [Names -> V]]
  <2>. DEFINE g == [f[p] EXCEPT ![n] = v]
  <2>1. g \in [Names -> V]
    OBVIOUS
  <2>2. [f EXCEPT ![p][n] = v] = [f EXCEPT ![p] = g]
    OBVIOUS
  <2>. HIDE DEF g
  <2>. QED
    BY <2>1, <2>2
<1>2. ASSUME NEW f \in Services, NEW p \in Places, NEW n, NEW v \in Service \cup {None}
      PROVE  [f EXCEPT ![p][n] = v] \in Services
  <2>. DEFINE V == Service \cup {None}
  <2>1. f \in [Places -> [Names -> V]] /\ v \in V
    BY DEF Services
  <2>. HIDE DEF V
  <2>2. [f EXCEPT ![p][n] = v] \in [Places -> [Names -> V]]
    BY <1>1, <2>1
  <2>. QED
    BY <2>2 DEF V, Services
<1>3. ASSUME NEW f \in LocalQueues, NEW p \in Places, NEW n, NEW v \in {None, "there"}
      PROVE  [f EXCEPT ![p][n] = v] \in LocalQueues
  <2>. DEFINE V == {None, "there"}
  <2>1. f \in [Places -> [Names -> V]] /\ v \in V
    BY DEF LocalQueues
  <2>. HIDE DEF V
  <2>2. [f EXCEPT ![p][n] = v] \in [Places -> [Names -> V]]
    BY <1>1, <2>1
  <2>. QED
    BY <2>2 DEF V, LocalQueues
<1>. QED
  BY <1>2, <1>3

\* The objects and what was read stay as they are.
LEMMA SideStep ==
    ASSUME NEW r \in Reqs, IInv, UNCHANGED <<base, obj, loc>>, Fixed, Quietly, todo[r] # <<>>,
           todo[r][1].op \notin {"get", "fix", "create", "read", "tryRead", "merge"},
           GoOn(r, <<>>) \/ Fail(r),
           lq' \in LocalQueues, yk' \subseteq Names, svc' \in Services,
           claim' \in [Names -> {0} \cup Sizes], minio' \in Reqs \cup {None}, cache' \in 0..2,
           NamespaceReady'
    PROVE  IInv'
<1>1. Frame(r)
  BY NothingTouched DEF Fixed
<1>2. Provides(todo[r][1]) = {}
  BY NothingProvided
<1>3. Agenda'
  BY <1>1, <1>2, MovesOn, Fails
<1>4. ans' \in [Reqs -> {"ok", "error"}] /\ clean' \in [Reqs -> BOOLEAN] /\ faults' \in Nat
  BY Records
<1>5. TypeOK'
  BY <1>3, <1>4 DEF IInv, TypeOK, Agenda, Fixed, LocalQueues, Services
<1>6. Backed'
  BY DEF IInv, Backed
<1>. QED
  BY <1>3, <1>5, <1>6 DEF IInv, Agenda

\* What the invariant says of the variables other than the calls.
LEMMA Types ==
    ASSUME IInv
    PROVE  /\ lq \in LocalQueues /\ yk \subseteq Names /\ svc \in Services
           /\ claim \in [Names -> {0} \cup Sizes] /\ minio \in Reqs \cup {None} /\ cache \in 0..2
           /\ req \in [Reqs -> RequestType] /\ loc \in [Reqs -> Readings]
           /\ \A k \in Kinds : obj[k] \in Values(k)
           /\ obj = [k \in Kinds |-> obj[k]]
           /\ NamespaceReady /\ Backed
BY DEF IInv, TypeOK, LocalQueues, Services

\* A namespace with all that belongs to it is ready, whatever is in it.
LEMMA ReadyWhenKnown ==
    ASSUME NEW r, IInv, {"ns", "role", "binding", "pvc"} \subseteq Known(r), obj' = obj
    PROVE  NamespaceReady'
<1>1. obj.ns = "owned"
  BY DEF Known
<1>2. \A k \in {"role", "binding", "pvc"} : obj[k] # None
  BY DEF Known
<1>3. obj.pv # None
  BY <1>2 DEF IInv, Backed
<1>. QED
  BY <1>1, <1>2, <1>3 DEF NamespaceReady

\* AddUser in MinIO.
LEMMA CreateMinIOUserKeeps ==
    ASSUME NEW r \in Reqs, IInv, CreateMinIOUser(r)
    PROVE  IInv'
<1>1. NamespaceReady'
  BY Types DEF CreateMinIOUser, NamespaceReady, Managed
<1>2. /\ todo[r] # <<>> /\ todo[r][1].op = "addUser" /\ GoOn(r, <<>>)
      /\ UNCHANGED <<base, obj, lq, yk, svc, claim, cache, loc>> /\ minio' = r /\ Fixed /\ Quietly
  BY DEF CreateMinIOUser, At
<1>3. /\ lq' \in LocalQueues /\ yk' \subseteq Names /\ svc' \in Services
      /\ claim' \in [Names -> {0} \cup Sizes] /\ minio' \in Reqs \cup {None} /\ cache' \in 0..2
  BY <1>2, Types
<1>. QED
  BY <1>1, <1>2, <1>3, SideStep

\* The claim of a managed volume: the namespace is ready by then.
LEMMA CreateClaimKeeps ==
    ASSUME NEW r \in Reqs, IInv, CreateClaim(r)
    PROVE  IInv'
<1>. DEFINE n == req[r].vol
<1>1. /\ todo[r] # <<>> /\ todo[r][1].op = "claim"
      /\ GoOn(r, <<>>) \/ Fail(r)
      /\ claim' = claim \/ claim' = [claim EXCEPT ![n] = req[r].size]
      /\ UNCHANGED <<base, obj, lq, yk, svc, minio, cache, loc>> /\ Fixed /\ Quietly
  <2>1. CASE claim[n] > 0 \/ ~Fits(req[r].size)
    BY <2>1 DEF CreateClaim, At
  <2>2. CASE ~(claim[n] > 0 \/ ~Fits(req[r].size))
    BY <2>2 DEF CreateClaim, At
  <2>. QED
    BY <2>1, <2>2
<1>2. req[r].size \in {0} \cup Sizes
  BY Types DEF RequestType
<1>3. claim' \in [Names -> {0} \cup Sizes]
  <2>. HIDE DEF n
  <2>. QED
    BY <1>1, <1>2, Types DEF n
<1>4. {"ns", "role", "binding", "pvc"} \subseteq Known(r)
  BY <1>1, NextCall DEF Relies
<1>5. NamespaceReady'
  BY <1>1, <1>4, ReadyWhenKnown
<1>6. /\ lq' \in LocalQueues /\ yk' \subseteq Names /\ svc' \in Services
      /\ minio' \in Reqs \cup {None} /\ cache' \in 0..2
  BY <1>1, Types
<1>. QED
  BY <1>1, <1>3, <1>5, <1>6, SideStep

\* The end of a managed volume.
LEMMA DropClaimKeeps ==
    ASSUME NEW r \in Reqs, IInv, DropClaim(r)
    PROVE  IInv'
<1>. DEFINE n == req[r].vol
<1>1. /\ todo[r] # <<>> /\ todo[r][1].op = "dropClaim"
      /\ GoOn(r, <<>>) \/ Fail(r)
      /\ claim' = claim \/ claim' = [claim EXCEPT ![n] = 0]
      /\ UNCHANGED <<base, obj, lq, yk, svc, minio, cache, loc>> /\ Fixed /\ Quietly
  BY DEF DropClaim, At
<1>2. claim' \in [Names -> {0} \cup Sizes]
  BY <1>1, Types
<1>3. Managed' \subseteq Managed
  BY <1>1, Types DEF Managed
<1>4. NamespaceReady'
  BY <1>1, <1>3, Types DEF NamespaceReady
<1>5. /\ lq' \in LocalQueues /\ yk' \subseteq Names /\ svc' \in Services
      /\ minio' \in Reqs \cup {None} /\ cache' \in 0..2
  BY <1>1, Types
<1>. QED
  BY <1>1, <1>2, <1>4, <1>5, SideStep

\* A request that has calls to make about a name has one.
LEMMA Named ==
    ASSUME NEW r \in Reqs, IInv, todo[r] # <<>>, todo[r][1].op \in {"publish", "putY"}
    PROVE  req[r].name \in Names
BY NextCall, Types DEF Permitted, RequestType

\* The backend creates the service: the user's namespace is ready by then.
LEMMA PublishServiceKeeps ==
    ASSUME NEW r \in Reqs, IInv, PublishService(r)
    PROVE  IInv'
<1>. DEFINE q == req[r]
            makes == q.size > 0
            new == [vol |-> q.vol, drops |-> makes /\ ~q.retain]
<1>1. /\ todo[r] # <<>> /\ todo[r][1].op = "publish"
      /\ GoOn(r, <<>>) \/ Fail(r)
      /\ svc' = svc \/ svc' = [svc EXCEPT ![q.place][q.name] = new]
      /\ claim' = claim \/ \E s \in {0, q.size} : claim' = [claim EXCEPT ![q.vol] = s]
      /\ UNCHANGED <<base, obj, lq, yk, minio, cache, loc>> /\ Fixed /\ Quietly
  <2>. HIDE DEF new
  <2>. QED
    BY DEF PublishService, At, new
<1>2. q \in RequestType
  BY Types
<1>3. /\ q.size \in {0} \cup Sizes /\ q.place \in Places /\ q.vol \in Names \cup {None}
      /\ q.retain \in BOOLEAN /\ q.name \in Names \cup {None}
  <2>. HIDE DEF q
  <2>. QED
    BY <1>2 DEF RequestType
<1>4. new \in Service
  <2>1. (makes /\ ~q.retain) \in BOOLEAN
    OBVIOUS
  <2>. QED
    BY <1>3, <2>1 DEF Service
<1>. HIDE DEF new, q
<1>5. svc' \in Services
  BY <1>1, <1>3, <1>4, Types, PutAt
<1>6. claim' \in [Names -> {0} \cup Sizes]
  BY <1>1, <1>3, Types
<1>7. {"ns", "role", "binding", "pvc"} \subseteq Known(r)
  BY <1>1, NextCall DEF Relies
<1>8. NamespaceReady'
  BY <1>1, <1>7, ReadyWhenKnown
<1>9. /\ lq' \in LocalQueues /\ yk' \subseteq Names
      /\ minio' \in Reqs \cup {None} /\ cache' \in 0..2
  BY <1>1, Types
<1>. QED
  BY <1>1, <1>5, <1>6, <1>8, <1>9, SideStep

\* The backend deletes the service.
LEMMA RetireServiceKeeps ==
    ASSUME NEW r \in Reqs, IInv, RetireService(r)
    PROVE  IInv'
<1>. DEFINE n == req[r].name
            v == svc.own[n].vol
<1>1. /\ todo[r] # <<>> /\ todo[r][1].op = "retire"
      /\ GoOn(r, <<>>) \/ Fail(r)
      /\ svc' = svc \/ svc' = [svc EXCEPT !.own[n] = None]
      /\ claim' = claim \/ claim' = [claim EXCEPT ![v] = 0]
      /\ UNCHANGED <<base, obj, lq, yk, minio, cache, loc>> /\ Fixed /\ Quietly
  BY DEF RetireService, At
<1>0. n \in Names \cup {None}
  BY Types DEF RequestType
<1>. HIDE DEF n, v
<1>2. claim' \in [Names -> {0} \cup Sizes]
  BY <1>1, Types
<1>3. svc' \in Services
  <2>. DEFINE p == "own"
  <2>1. p \in Places /\ svc \in Services
    BY Types DEF Places
  <2>2. svc' = svc \/ svc' = [svc EXCEPT ![p][n] = None]
    BY <1>1
  <2>. HIDE DEF p
  <2>. QED
    BY <1>0, <2>1, <2>2, PutAt
<1>4. Managed' \subseteq Managed
  BY <1>1, Types DEF Managed
<1>5. \A m \in Names : svc'.own[m] # None => svc.own[m] # None
  BY <1>1, Types DEF Services, Places
<1>6. NamespaceReady'
  BY <1>1, <1>4, <1>5, Types DEF NamespaceReady
<1>7. /\ lq' \in LocalQueues /\ yk' \subseteq Names
      /\ minio' \in Reqs \cup {None} /\ cache' \in 0..2
  BY <1>1, Types
<1>. QED
  BY <1>1, <1>2, <1>3, <1>6, <1>7, SideStep

\* The YuniKorn queues are written, a LocalQueue is deleted.
LEMMA QueueWritesKeep ==
    ASSUME NEW r \in Reqs, IInv, updateYunikornConfig(r) \/ DeleteKueueLocalQueue(r)
    PROVE  IInv'
<1>1. /\ todo[r] # <<>> /\ todo[r][1].op \in {"putY", "dropLQ"} /\ GoOn(r, <<>>)
      /\ UNCHANGED <<base, obj, svc, claim, minio, cache, loc>> /\ Fixed /\ Quietly
  BY DEF updateYunikornConfig, DeleteKueueLocalQueue, At
<1>2. yk' \subseteq Names
  <2>1. CASE updateYunikornConfig(r)
    <3>1. req[r].name \in Names
      BY <2>1, Named DEF updateYunikornConfig, At
    <3>2. loc[r].yk \subseteq Names
      BY Types DEF Readings
    <3>. QED
      BY <2>1, <3>1, <3>2 DEF updateYunikornConfig, QueuesOf
  <2>2. CASE DeleteKueueLocalQueue(r)
    BY <2>2, Types DEF DeleteKueueLocalQueue
  <2>. QED
    BY <2>1, <2>2
<1>3. lq' \in LocalQueues
  <2>1. req[r].name \in Names \cup {None}
    BY Types DEF RequestType
  <2>. QED
    BY <2>1, Types, PutAt DEF updateYunikornConfig, DeleteKueueLocalQueue, Places
<1>4. NamespaceReady'
  BY <1>1, Types DEF NamespaceReady, Managed
<1>5. /\ svc' \in Services /\ claim' \in [Names -> {0} \cup Sizes]
      /\ minio' \in Reqs \cup {None} /\ cache' \in 0..2
  BY <1>1, Types
<1>. QED
  BY <1>1, <1>2, <1>3, <1>4, <1>5, SideStep

-----------------------------------------------------------------------------
(* Steps that read, or look for what is missing. *)

\* A step with no effect on the cluster.
LEMMA ReadStep ==
    ASSUME NEW r \in Reqs, IInv, UNCHANGED store, Fixed, Agenda',
           loc' \in [Reqs -> Readings],
           \A q \in Reqs : loc'[q].cq # None => obj.cq # None,
           ans' \in [Reqs -> {"ok", "error"}], clean' \in [Reqs -> BOOLEAN], faults' \in Nat
    PROVE  IInv'
<1>. USE DEF Fixed, store
<1>1. TypeOK'
  BY DEF IInv, TypeOK, Agenda
<1>2. Backed'
  BY DEF IInv, Backed
<1>3. NamespaceReady'
  BY DEF IInv, NamespaceReady, Managed
<1>. QED
  BY <1>1, <1>2, <1>3 DEF IInv, Agenda

\* The YuniKorn queues are read.
LEMMA readYunikornConfigKeeps ==
    ASSUME NEW r \in Reqs, IInv, readYunikornConfig(r)
    PROVE  IInv'
<1>. DEFINE l == [loc[r] EXCEPT !.yk = yk]
<1>1. /\ todo[r] # <<>> /\ todo[r][1].op = "readY" /\ GoOn(r, <<>>)
      /\ UNCHANGED store /\ Fixed /\ Quietly
      /\ loc' = [loc EXCEPT ![r] = l]
  BY DEF readYunikornConfig, At
<1>2. loc[r] \in Readings /\ yk \subseteq Names
  BY Types
<1>3. /\ l \in Readings /\ l.cq = loc[r].cq /\ l.quota = loc[r].quota /\ l.limit = loc[r].limit
      /\ l.merged = loc[r].merged
  BY <1>2 DEF Readings
<1>. HIDE DEF l
<1>4. Frame(r)
  BY <1>1, <1>3, Types, ReadingsGrow DEF store, Fixed
<1>5. Agenda'
  BY <1>1, <1>4, NothingProvided, MovesOn
<1>6. loc' \in [Reqs -> Readings]
  BY <1>1, <1>3, Types
<1>7. \A q \in Reqs : loc'[q].cq # None => obj.cq # None
  BY <1>1, <1>3, Types DEF Backed
<1>8. ans' \in [Reqs -> {"ok", "error"}] /\ clean' \in [Reqs -> BOOLEAN] /\ faults' \in Nat
  BY <1>1, Records
<1>. QED
  BY <1>1, <1>5, <1>6, <1>7, <1>8, ReadStep

\* What it does to the readings of a request to read the quota, the limits or the queue.
LEMMA Reading ==
    ASSUME NEW r \in Reqs, IInv, NEW k \in {"quota", "limit", "cq"}, obj[k] # None,
           UNCHANGED <<obj, req>>, loc' = [loc EXCEPT ![r][k] = obj[k]]
    PROVE  /\ Frame(r)
           /\ loc' \in [Reqs -> Readings]
           /\ \A q \in Reqs : loc'[q].cq # None => obj.cq # None
           /\ loc'[r][k] # None
<1>. DEFINE l == [loc[r] EXCEPT ![k] = obj[k]]
<1>1. loc' = [loc EXCEPT ![r] = l]
  OBVIOUS
<1>2. loc[r] \in Readings /\ loc \in [Reqs -> Readings] /\ obj[k] \in Values(k)
  BY Types DEF Kinds
<1>3. obj[k] \in CASE k = "quota" -> QuotaSpecs [] k = "limit" -> LimitSpecs [] k = "cq" -> QueueSpecs
  BY <1>2 DEF Values
<1>4. CASE k = "quota"
  <2>1. l \in Readings /\ l.quota = obj.quota /\ l.limit = loc[r].limit /\ l.cq = loc[r].cq
            /\ l.merged = loc[r].merged
    BY <1>2, <1>3, <1>4 DEF Readings
  <2>. HIDE DEF l
  <2>2. Frame(r)
    BY <1>1, <1>2, <1>4, <2>1, ReadingsGrow
  <2>3. loc' \in [Reqs -> Readings] /\ loc'[r] = l
    BY <1>1, <1>2, <2>1
  <2>4. \A q \in Reqs : loc'[q].cq # None => obj.cq # None
    BY <1>1, <1>2, <2>1, Types DEF Backed
  <2>. QED
    BY <1>4, <2>1, <2>2, <2>3, <2>4
<1>5. CASE k = "limit"
  <2>1. l \in Readings /\ l.limit = obj.limit /\ l.quota = loc[r].quota /\ l.cq = loc[r].cq
            /\ l.merged = loc[r].merged
    BY <1>2, <1>3, <1>5 DEF Readings
  <2>. HIDE DEF l
  <2>2. Frame(r)
    BY <1>1, <1>2, <1>5, <2>1, ReadingsGrow
  <2>3. loc' \in [Reqs -> Readings] /\ loc'[r] = l
    BY <1>1, <1>2, <2>1
  <2>4. \A q \in Reqs : loc'[q].cq # None => obj.cq # None
    BY <1>1, <1>2, <2>1, Types DEF Backed
  <2>. QED
    BY <1>5, <2>1, <2>2, <2>3, <2>4
<1>6. CASE k = "cq"
  <2>1. l \in Readings /\ l.cq = obj.cq /\ l.quota = loc[r].quota /\ l.limit = loc[r].limit
            /\ l.merged = loc[r].merged
    BY <1>2, <1>3, <1>6 DEF Readings
  <2>. HIDE DEF l
  <2>2. Frame(r)
    BY <1>1, <1>2, <1>6, <2>1, ReadingsGrow
  <2>3. loc' \in [Reqs -> Readings] /\ loc'[r] = l
    BY <1>1, <1>2, <2>1
  <2>4. \A q \in Reqs : loc'[q].cq # None => obj.cq # None
    BY <1>6
  <2>. QED
    BY <1>6, <2>1, <2>2, <2>3, <2>4
<1>. QED
  BY <1>4, <1>5, <1>6

\* The Get of an object that must be there.
LEMMA ReadKeeps ==
    ASSUME NEW r \in Reqs, IInv, Read(r)
    PROVE  IInv'
<1>. DEFINE k == todo[r][1].kind
<1>1. todo[r] # <<>> /\ todo[r][1].op = "read" /\ UNCHANGED store /\ Fixed /\ Quietly
  BY DEF Read, At
<1>2. GoOn(r, <<>>) \/ Fail(r)
  BY DEF Read
<1>3. ans' \in [Reqs -> {"ok", "error"}] /\ clean' \in [Reqs -> BOOLEAN] /\ faults' \in Nat
  BY <1>1, <1>2, Records
<1>4. todo[r][1] \in CallType /\ Permitted(req[r], loc[r], todo[r][1], 1)
  BY <1>1, NextCall
<1>5. todo[r][1].blk # "again"
  BY <1>1, <1>4 DEF Permitted
<1>6. CASE obj[k] # None /\ k \in {"quota", "limit", "cq"}
  <2>1. loc' = [loc EXCEPT ![r][k] = obj[k]] /\ GoOn(r, <<>>)
    BY <1>6 DEF Read, K
  <2>2. UNCHANGED <<obj, req>>
    BY <1>1 DEF store, Fixed
  <2>. HIDE DEF k
  <2>3. /\ Frame(r) /\ loc' \in [Reqs -> Readings] /\ loc'[r][k] # None
        /\ \A q \in Reqs : loc'[q].cq # None => obj.cq # None
    BY <1>6, <2>1, <2>2, Reading
  <2>4. Provides(todo[r][1]) \subseteq Known(r)'
    <3>1. CASE k = "quota"
      <4>1. Provides(todo[r][1]) \subseteq {"quota", "quotaRead"}
        BY <1>1, <1>5, <3>1 DEF Provides, k
      <4>2. "quota" \in Known(r)' /\ "quotaRead" \in Known(r)'
        BY <1>6, <2>2, <2>3, <3>1 DEF Known
      <4>. QED
        BY <4>1, <4>2
    <3>2. CASE k = "limit"
      <4>1. Provides(todo[r][1]) \subseteq {"limit", "limitRead"}
        BY <1>1, <1>5, <3>2 DEF Provides, k
      <4>2. "limit" \in Known(r)' /\ "limitRead" \in Known(r)'
        BY <1>6, <2>2, <2>3, <3>2 DEF Known
      <4>. QED
        BY <4>1, <4>2
    <3>3. CASE k = "cq"
      <4>1. Provides(todo[r][1]) \subseteq {"queueRead"}
        BY <1>1, <1>5, <3>3 DEF Provides, k
      <4>2. "queueRead" \in Known(r)'
        BY <1>6, <2>2, <2>3, <3>3 DEF Known
      <4>. QED
        BY <4>1, <4>2
    <3>. QED
      BY <1>6, <3>1, <3>2, <3>3
  <2>5. Agenda'
    BY <1>1, <2>1, <2>3, <2>4, MovesOn
  <2>. QED
    BY <1>1, <1>3, <2>3, <2>5, ReadStep
<1>7. CASE ~(obj[k] # None /\ k \in {"quota", "limit", "cq"})
  <2>1. loc' = loc /\ (Fail(r) \/ (GoOn(r, <<>>) /\ k \notin {"quota", "limit", "cq"}))
    BY <1>7 DEF Read, K
  <2>2. NoEffect
    BY <1>1, <2>1 DEF NoEffect
  <2>3. Frame(r)
    BY <1>1, <2>1, NothingTouched DEF store, Fixed
  <2>4. k \notin {"quota", "limit", "cq"} => Provides(todo[r][1]) = {}
    BY <1>1, <1>5 DEF Provides
  <2>5. Agenda'
    BY <1>1, <2>1, <2>3, <2>4, MovesOn, Fails
  <2>. QED
    BY <1>1, <1>3, <2>2, <2>5, WithoutEffect
<1>. QED
  BY <1>6, <1>7

\* The limits are read, or made and read again.
LEMMA ReadLimitsKeeps ==
    ASSUME NEW r \in Reqs, IInv, ReadLimits(r)
    PROVE  IInv'
<1>. DEFINE k == todo[r][1].kind
<1>1. todo[r] # <<>> /\ todo[r][1].op = "tryRead" /\ UNCHANGED store /\ Fixed
  BY DEF ReadLimits, At
<1>2. /\ \/ obj[k] # None /\ GoOn(r, <<>>) /\ loc' = [loc EXCEPT ![r][k] = obj[k]]
         \/ ReadAgain(r) /\ UNCHANGED loc
      /\ Quietly \/ Fault(r)
  BY DEF ReadLimits, ReadAgain, K
<1>3. ans' \in [Reqs -> {"ok", "error"}] /\ clean' \in [Reqs -> BOOLEAN] /\ faults' \in Nat
  BY <1>2, Records
<1>4. k \in {"quota", "limit"} /\ todo[r][1].blk = "again"
  BY <1>1, NextCall DEF Permitted
<1>5. UNCHANGED <<obj, req>>
  BY <1>1 DEF store, Fixed
<1>6. CASE obj[k] # None /\ GoOn(r, <<>>) /\ loc' = [loc EXCEPT ![r][k] = obj[k]]
  <2>. HIDE DEF k
  <2>1. /\ Frame(r) /\ loc' \in [Reqs -> Readings] /\ loc'[r][k] # None
        /\ \A q \in Reqs : loc'[q].cq # None => obj.cq # None
    BY <1>4, <1>5, <1>6, Reading
  <2>2. Provides(todo[r][1]) \subseteq Known(r)'
    <3>1. Provides(todo[r][1]) = {IF k = "quota" THEN "quotaRead" ELSE "limitRead"}
      BY <1>4 DEF Provides, k
    <3>. QED
      BY <1>4, <2>1, <3>1 DEF Known
  <2>3. Agenda'
    BY <1>1, <1>6, <2>1, <2>2, MovesOn
  <2>. QED
    BY <1>1, <1>3, <2>1, <2>3, ReadStep
<1>7. CASE ReadAgain(r) /\ UNCHANGED loc
  <2>1. Frame(r) /\ NoEffect
    BY <1>1, <1>5, <1>7, NothingTouched DEF NoEffect
  <2>2. Agenda'
    BY <1>1, <1>7, <2>1, ReadsAgain
  <2>. QED
    BY <1>1, <1>3, <2>1, <2>2, WithoutEffect
<1>. QED
  BY <1>2, <1>6, <1>7

\* A creation is a proper call, for anything but the shared volume's claim.
LEMMA CreateProper ==
    ASSUME NEW q, NEW known, NEW k \in (Kinds \cup {"lq", "none"}) \ {"pvc"},
           NEW b \in {"main", "user", "loginKueue", "createKueue", "yunikorn", "log"}
    PROVE  /\ Call("create", k, b) \in CallType
           /\ Relies(Call("create", k, b)) = {}
           /\ Allowed(q, Call("create", k, b))
           /\ Proper(<<Call("create", k, b)>>, q, known)
<1>. DEFINE c == Call("create", k, b)
<1>1. c \in CallType /\ c.op = "create" /\ c.kind = k /\ c.blk = b
  BY DEF Call, CallType, CallOps
<1>. HIDE DEF c
<1>2. Relies(c) = {}
  BY <1>1 DEF Relies
<1>3. Allowed(q, c)
  BY <1>1 DEF Allowed
<1>4. Proper(<<c>>, q, known)
  BY <1>1, <1>2, <1>3, One
<1>. QED
  BY <1>1, <1>2, <1>3, <1>4 DEF c

\* What follows when an object is not there.
LEMMA MissingProper ==
    ASSUME NEW q, NEW known, NEW k \in Kinds \cup {"lq", "none"},
           NEW b \in {"main", "user", "loginKueue", "createKueue", "yunikorn", "log"}
    PROVE  /\ Proper(Missing(k, b), q, known)
           /\ k = "pvc" => Yields(Missing(k, b), "pvc")
<1>1. CASE k = "pvc"
  <2>. DEFINE a == Call("readBase", "pvc", "main")
              c == Call("readBase", "pv", "main")
              d == Call("get", "pv", "main")
              e == Call("create", "pvc", "main")
  <2>1. /\ a \in CallType /\ Relies(a) = {} /\ Allowed(q, a)
        /\ c \in CallType /\ Relies(c) = {} /\ Allowed(q, c)
    BY Common DEF CallOps, Kinds
  <2>2. d \in CallType /\ Relies(d) = {} /\ Allowed(q, d)
    BY Common DEF CallOps, Kinds
  <2>3. e \in CallType /\ e.op = "create" /\ e.kind = "pvc" /\ e.blk = "main"
    BY DEF Call, CallType, CallOps, Kinds
  <2>4. Provides(d) = {"pv"} /\ Provides(e) = {"pvc"}
    BY ProvidedBy
  <2>5. Missing(k, b) = (<<a, c>> \o <<d>>) \o <<e>>
    BY <1>1 DEF Missing, ensureSharedRuntimePVC, Ensure
  <2>. HIDE DEF a, c, d, e
  <2>6. Relies(e) = {"pv"} /\ Allowed(q, e)
    BY <2>3 DEF Relies, Allowed
  <2>7. Proper(<<a, c>>, q, known)
    BY <2>1, Two
  <2>8. Proper(<<d>>, q, known) /\ Yields(<<d>>, "pv")
    BY <2>2, <2>4, One
  <2>9. Proper(<<a, c>> \o <<d>>, q, known) /\ Yields(<<a, c>> \o <<d>>, "pv")
    BY <2>7, <2>8, Joined
  <2>10. Proper(<<e>>, q, {"pv"}) /\ Yields(<<e>>, "pvc")
    BY <2>3, <2>4, <2>6, One
  <2>. QED
    BY <2>5, <2>9, <2>10, Joined
<1>2. CASE k \in {"mirror", "otherMirror"}
  <2>. DEFINE c == Call("read", "secret", "main")
              d == Call("create", k, "main")
  <2>1. c \in CallType /\ Relies(c) = {} /\ Allowed(q, c)
    BY Common DEF CallOps, Kinds
  <2>2. d \in CallType /\ Relies(d) = {} /\ Allowed(q, d)
    BY <1>2, CreateProper DEF Kinds
  <2>3. Missing(k, b) = <<c, d>>
    BY <1>2 DEF Missing
  <2>. HIDE DEF c, d
  <2>4. Proper(<<c, d>>, q, known)
    BY <2>1, <2>2, Two
  <2>. QED
    BY <1>2, <2>3, <2>4
<1>3. CASE k \notin {"pvc", "mirror", "otherMirror"}
  <2>1. Missing(k, b) = <<Call("create", k, b)>>
    BY <1>3 DEF Missing
  <2>2. Proper(<<Call("create", k, b)>>, q, known)
    BY <1>3, CreateProper
  <2>. QED
    BY <1>3, <2>1, <2>2
<1>. QED
  BY <1>1, <1>2, <1>3

\* Get, and what follows when the object is missing or stale.
LEMMA GetKeeps ==
    ASSUME NEW r \in Reqs, IInv, Get(r)
    PROVE  IInv'
<1>. DEFINE h == todo[r][1]
            k == todo[r][1].kind
            b == todo[r][1].blk
<1>1. todo[r] # <<>> /\ h.op = "get" /\ UNCHANGED store /\ Fixed
  BY DEF Get, At
<1>2. /\ \/ Val(r, k) # None /\ ~Stale(r, k) /\ GoOn(r, <<>>)
         \/ Val(r, k) # None /\ Stale(r, k) /\ GoOn(r, <<Call("fix", k, b)>>)
         \/ k \notin OneStep /\ GoOn(r, Missing(k, b))
      /\ Quietly \/ Fault(r)
      /\ loc' = IF k = "cq" THEN [loc EXCEPT ![r].cq = obj.cq] ELSE loc
  BY DEF Get, K, Head1, OneStep
<1>3. ans' \in [Reqs -> {"ok", "error"}] /\ clean' \in [Reqs -> BOOLEAN] /\ faults' \in Nat
  BY <1>2, Records
<1>4. /\ k \in Kinds \cup {"lq", "none"}
      /\ b \in {"main", "user", "loginKueue", "createKueue", "yunikorn", "log"}
  BY <1>1, NextCall DEF Permitted, CallType
<1>5. UNCHANGED <<obj, req, lq>>
  BY <1>1 DEF store, Fixed
<1>6. /\ Frame(r) /\ loc' \in [Reqs -> Readings]
      /\ \A q \in Reqs : loc'[q].cq # None => obj.cq # None
      /\ k = "cq" => loc'[r].cq = obj.cq
  <2>1. CASE k = "cq"
    <3>. DEFINE l == [loc[r] EXCEPT !.cq = obj.cq]
    <3>1. loc' = [loc EXCEPT ![r] = l]
      BY <1>2, <2>1
    <3>2. loc[r] \in Readings /\ loc \in [Reqs -> Readings] /\ obj.cq \in Values("cq")
      BY Types DEF Kinds
    <3>3. obj.cq \in QueueSpecs \cup {None}
      BY <3>2 DEF Values
    <3>4. /\ l \in Readings /\ l.cq = obj.cq /\ l.quota = loc[r].quota /\ l.limit = loc[r].limit
          /\ l.merged = loc[r].merged
      BY <3>2, <3>3 DEF Readings
    <3>. HIDE DEF l
    <3>5. loc[r].cq # None => l.cq # None
      BY <3>4, Types DEF Backed
    <3>6. Frame(r)
      BY <1>5, <3>1, <3>2, <3>4, <3>5, ReadingsGrow
    <3>7. loc' \in [Reqs -> Readings] /\ loc'[r] = l
      BY <3>1, <3>2, <3>4
    <3>8. \A q \in Reqs : loc'[q].cq # None => obj.cq # None
      BY <3>1, <3>2, <3>4, Types DEF Backed
    <3>. QED
      BY <3>4, <3>6, <3>7, <3>8
  <2>2. CASE k # "cq"
    <3>1. loc' = loc
      BY <1>2, <2>2
    <3>. QED
      BY <1>5, <2>2, <3>1, NothingTouched, Types DEF Backed
  <2>. QED
    BY <2>1, <2>2
<1>7. Provides(h) \subseteq {"ns", "role", "binding", "pvc", "pv"} \cap {k}
  BY <1>1, <1>4 DEF Provides
<1>8. CASE Val(r, k) # None /\ ~Stale(r, k) /\ GoOn(r, <<>>)
  <2>1. k \in {"ns", "role", "binding", "pvc", "pv"} => k \in Known(r)'
    <3>1. CASE k = "ns"
      <4>1. obj.ns \in Values("ns") /\ obj.ns # None /\ obj.ns # "plain"
        BY <1>8, <3>1, Types DEF Kinds, Val, Stale
      <4>2. obj.ns = "owned"
        BY <4>1 DEF Values
      <4>. QED
        BY <1>5, <3>1, <4>2 DEF Known
    <3>2. CASE k \in {"role", "binding", "pvc", "pv"}
      <4>1. obj[k] # None
        BY <1>8, <3>2 DEF Val
      <4>. QED
        BY <1>5, <3>2, <4>1 DEF Known
    <3>. QED
      BY <3>1, <3>2
  <2>2. Provides(todo[r][1]) \subseteq Known(r)'
    BY <1>7, <2>1
  <2>3. Agenda'
    BY <1>1, <1>6, <1>8, <2>2, MovesOn
  <2>. QED
    BY <1>1, <1>3, <1>6, <2>3, ReadStep
<1>9. CASE Val(r, k) # None /\ Stale(r, k) /\ GoOn(r, <<Call("fix", k, b)>>)
  <2>1. k \in {"ns", "cq"}
    BY <1>9 DEF Stale
  <2>2. k = "cq" => loc'[r].cq # None /\ loc'[r].cq.selector # "owner"
    BY <1>6, <1>9 DEF Stale, Val
  <2>3. Agenda'
    BY <1>1, <1>6, <1>9, <2>1, <2>2, MovesToFix
  <2>. QED
    BY <1>1, <1>3, <1>6, <2>3, ReadStep
<1>10. CASE k \notin OneStep /\ GoOn(r, Missing(k, b))
  <2>. DEFINE p == Missing(k, b)
  <2>. HIDE DEF p, k, b, h
  <2>1. Proper(p, req[r], Known(r)') /\ (k = "pvc" => Yields(p, "pvc"))
    BY <1>4, MissingProper DEF p
  <2>2. \A f \in Provides(todo[r][1]) : f \in Known(r)' \/ Yields(p, f)
    BY <1>7, <1>10, <2>1 DEF OneStep, h
  <2>3. todo[r] # <<>> /\ GoOn(r, p)
    BY <1>1, <1>10 DEF p
  <2>4. Agenda'
    BY <1>6, <2>1, <2>2, <2>3, Moves
  <2>. QED
    BY <1>1, <1>3, <1>6, <2>4, ReadStep
<1>. QED
  BY <1>2, <1>8, <1>9, <1>10

\* The new limits, from what is asked and what was read.
LEMMA MergeLimitsKeeps ==
    ASSUME NEW r \in Reqs, IInv, MergeLimits(r)
    PROVE  IInv'
<1>. DEFINE a == req[r].ask
            v == MergedLimits(a, loc[r].quota, loc[r].limit)
<1>1. todo[r] # <<>> /\ todo[r][1].op = "merge" /\ UNCHANGED store /\ Fixed /\ Quietly
  BY DEF MergeLimits, At
<1>2. \/ Fail(r) /\ UNCHANGED loc
      \/ ~Invalid(a) /\ loc' = [loc EXCEPT ![r].merged = v] /\ GoOn(r, UpdateVolumeLimits)
  BY DEF MergeLimits
<1>3. ans' \in [Reqs -> {"ok", "error"}] /\ clean' \in [Reqs -> BOOLEAN] /\ faults' \in Nat
  BY <1>1, <1>2, Records
<1>4. UNCHANGED <<obj, req>>
  BY <1>1 DEF store, Fixed
<1>5. CASE Fail(r) /\ UNCHANGED loc
  <2>1. Frame(r) /\ NoEffect
    BY <1>1, <1>4, <1>5, NothingTouched DEF NoEffect
  <2>2. Agenda'
    BY <1>1, <1>5, <2>1, Fails
  <2>. QED
    BY <1>1, <1>3, <2>1, <2>2, WithoutEffect
<1>6. CASE ~Invalid(a) /\ loc' = [loc EXCEPT ![r].merged = v] /\ GoOn(r, UpdateVolumeLimits)
  <2>1. req[r].op = "setQuota" /\ a # None /\ todo[r][1].blk # "again"
    BY <1>1, NextCall DEF Permitted
  <2>2. loc[r].quota # None /\ loc[r].limit # None
    <3>1. "quotaRead" \in Known(r) /\ "limitRead" \in Known(r)
      BY <1>1, NextCall DEF Relies
    <3>. QED
      BY <3>1 DEF Known
  <2>3. loc[r] \in Readings /\ loc \in [Reqs -> Readings] /\ req[r] \in RequestType
    BY Types
  <2>4. a \in QuotaUpdateRequest
    BY <2>1, <2>3 DEF RequestType
  <2>5. loc[r].quota \in QuotaSpecs /\ loc[r].limit \in LimitSpecs
    BY <2>2, <2>3 DEF Readings
  <2>6. NonManagedUsage.storage \in Nat /\ NonManagedUsage.count \in Nat
    BY LimitsAssumption DEF NonManagedUsage
  <2>7. v \in VolumeLimits
    <3>. HIDE DEF a
    <3>1. /\ a.disk \in Nat \cup {None} /\ a.vols \in Nat \cup {None}
          /\ a.max \in Nat \cup {None} /\ a.min \in Nat \cup {None}
      BY <1>6, <2>4 DEF QuotaUpdateRequest, Quantity, Invalid
    <3>2. /\ loc[r].quota.disk \in Nat /\ loc[r].quota.vols \in Nat
          /\ loc[r].limit.max \in Nat /\ loc[r].limit.min \in Nat
      BY <2>5 DEF QuotaSpecs, LimitSpecs
    <3>. QED
      BY <2>6, <3>1, <3>2 DEF MergedLimits, Given, VolumeLimits
  <2>8. v # None
    BY <2>7, NoneAssumption
  <2>. DEFINE l == [loc[r] EXCEPT !.merged = v]
  <2>9. loc' = [loc EXCEPT ![r] = l]
    BY <1>6
  <2>. HIDE DEF v, a
  <2>10. /\ l \in Readings /\ l.merged = v /\ l.cq = loc[r].cq /\ l.quota = loc[r].quota
         /\ l.limit = loc[r].limit
    BY <2>3, <2>7 DEF Readings
  <2>. HIDE DEF l
  <2>11. Frame(r)
    BY <1>4, <2>3, <2>8, <2>9, <2>10, ReadingsGrow
  <2>12. loc' \in [Reqs -> Readings] /\ loc'[r] = l
    BY <2>3, <2>9, <2>10
  <2>13. \A q \in Reqs : loc'[q].cq # None => obj.cq # None
    BY <2>3, <2>9, <2>10, Types DEF Backed
  <2>14. "merged" \in Known(r)'
    BY <2>8, <2>10, <2>12 DEF Known
  <2>15. Proper(UpdateVolumeLimits, req[r], Known(r)')
    <3>. DEFINE c == Call("put", "quota", "main")
                d == Call("put", "limit", "main")
    <3>1. c \in CallType /\ c.op = "put" /\ c.kind = "quota" /\ c.blk = "main"
      BY DEF Call, CallType, CallOps, Kinds
    <3>2. d \in CallType /\ d.op = "put" /\ d.kind = "limit" /\ d.blk = "main"
      BY DEF Call, CallType, CallOps, Kinds
    <3>3. UpdateVolumeLimits = EnsureVolumeLimits \o <<c, d>>
      BY DEF UpdateVolumeLimits
    <3>. HIDE DEF c, d
    <3>4. Relies(c) = {"merged"} /\ Relies(d) = {"merged"}
      BY <3>1, <3>2 DEF Relies
    <3>5. Allowed(req[r], c) /\ Allowed(req[r], d)
      BY <2>1, <3>1, <3>2 DEF Allowed, a
    <3>6. Proper(<<c, d>>, req[r], Known(r)')
      BY <2>14, <3>1, <3>2, <3>4, <3>5, Two
    <3>. QED
      BY <3>3, <3>6, LimitsProper, Joined
  <2>16. Provides(todo[r][1]) \subseteq {"merged"}
    BY <1>1, <2>1 DEF Provides
  <2>17. GoOn(r, UpdateVolumeLimits)
    BY <1>6
  <2>18. Agenda'
    BY <1>1, <2>11, <2>14, <2>15, <2>16, <2>17, Moves
  <2>. QED
    BY <1>1, <1>3, <2>12, <2>13, <2>18, ReadStep
<1>. QED
  BY <1>2, <1>5, <1>6

\* The look for the credentials of the user.
LEMMA UserExistsKeeps ==
    ASSUME NEW r \in Reqs, IInv, UserExists(r)
    PROVE  IInv'
<1>. DEFINE a == Call("addUser", "none", "log")
            b == Call("create", "secret", "log")
            c == Call("create", "secret", "user")
            d == Call("addUser", "none", "user")
<1>1. /\ todo[r] # <<>> /\ todo[r][1].op = "userExists" /\ Fixed
      /\ UNCHANGED <<base, obj, lq, yk, svc, claim, minio, loc>>
      /\ Quietly \/ Fault(r)
      /\ GoOn(r, <<>>) \/ GoOn(r, <<a, b>>) \/ GoOn(r, <<c, d>>)
  BY DEF UserExists, At
<1>2. cache' \in 0..2
  BY Types DEF UserExists, Cached
<1>3. /\ Proper(<<a, b>>, req[r], Known(r)') /\ Proper(<<c, d>>, req[r], Known(r)')
  <2>1. /\ a \in CallType /\ Relies(a) = {} /\ Allowed(req[r], a)
        /\ d \in CallType /\ Relies(d) = {} /\ Allowed(req[r], d)
    BY Common DEF CallOps
  <2>2. /\ b \in CallType /\ Relies(b) = {} /\ Allowed(req[r], b)
        /\ c \in CallType /\ Relies(c) = {} /\ Allowed(req[r], c)
    BY CreateProper DEF Kinds
  <2>. HIDE DEF a, b, c, d
  <2>. QED
    BY <2>1, <2>2, Two
<1>. HIDE DEF a, b, c, d
<1>4. Frame(r)
  BY <1>1, NothingTouched DEF Fixed
<1>5. Provides(todo[r][1]) = {}
  BY <1>1, NothingProvided
<1>6. Agenda'
  <2>1. GoOn(r, <<>>) => Agenda'
    BY <1>1, <1>4, <1>5, MovesOn
  <2>2. GoOn(r, <<a, b>>) => Agenda'
    <3>. DEFINE p == <<a, b>>
    <3>. HIDE DEF p
    <3>. QED
      BY <1>1, <1>3, <1>4, <1>5, Moves DEF p
  <2>3. GoOn(r, <<c, d>>) => Agenda'
    <3>. DEFINE p == <<c, d>>
    <3>. HIDE DEF p
    <3>. QED
      BY <1>1, <1>3, <1>4, <1>5, Moves DEF p
  <2>. QED
    BY <1>1, <2>1, <2>2, <2>3
<1>7. ans' \in [Reqs -> {"ok", "error"}] /\ clean' \in [Reqs -> BOOLEAN] /\ faults' \in Nat
  <2>. DEFINE p == <<a, b>>
              t == <<c, d>>
  <2>. HIDE DEF p, t
  <2>1. GoOn(r, <<>>) \/ GoOn(r, p) \/ GoOn(r, t)
    BY <1>1 DEF p, t
  <2>. QED
    BY <1>1, <2>1, Records
<1>8. TypeOK'
  BY <1>1, <1>2, <1>6, <1>7 DEF IInv, TypeOK, Agenda, Fixed
<1>9. Backed' /\ NamespaceReady'
  BY <1>1 DEF IInv, Backed, NamespaceReady, Managed
<1>. QED
  BY <1>6, <1>8, <1>9 DEF IInv, Agenda

-----------------------------------------------------------------------------
(* Steps that write the user's objects. *)

\* A step that writes one object at most.
LEMMA WriteStep ==
    ASSUME NEW r \in Reqs, IInv, Fixed, Agenda', UNCHANGED <<base, yk, svc, claim, minio, loc>>,
           lq' \in LocalQueues, cache' \in 0..2,
           NEW k, NEW v \in Values(k), v # None,
           obj' = obj \/ (k \in Kinds /\ obj' = [obj EXCEPT ![k] = v]),
           obj' # obj /\ k = "ns" => v = "owned",
           obj' # obj /\ k = "pvc" => obj.pv # None,
           ans' \in [Reqs -> {"ok", "error"}], clean' \in [Reqs -> BOOLEAN], faults' \in Nat
    PROVE  IInv'
<1>1. obj = [x \in Kinds |-> obj[x]] /\ \A x \in Kinds : obj[x] \in Values(x)
  BY Types
<1>2. /\ obj' = [x \in Kinds |-> obj'[x]]
      /\ \A x \in Kinds : obj'[x] \in Values(x)
      /\ \A x \in Kinds : obj[x] # None => obj'[x] # None
      /\ \A x \in Kinds : obj'[x] = obj[x] \/ (x = k /\ obj'[x] = v)
  BY <1>1
<1>3. TypeOK'
  <2>1. overlaps' \in Nat /\ restarts' \in Nat /\ cfg' \in ConfigType /\ req' \in [Reqs -> RequestType]
    BY DEF IInv, TypeOK, Fixed
  <2>2. /\ base' \in {"pending", "bound"} /\ yk' \subseteq Names
        /\ lq' \in [Places -> [Names -> {None, "there"}]]
        /\ svc' \in [Places -> [Names -> Service \cup {None}]]
        /\ claim' \in [Names -> {0} \cup Sizes] /\ minio' \in Reqs \cup {None}
        /\ loc' \in [Reqs -> Readings]
    BY DEF IInv, TypeOK, LocalQueues
  <2>3. \A x \in Kinds : (obj[x] \in Values(x))'
    BY <1>2 DEF Values
  <2>. QED
    BY <1>2, <2>1, <2>2, <2>3 DEF TypeOK, Agenda
<1>4. Backed'
  <2>1. {"pv", "pvc", "cq"} \subseteq Kinds
    BY DEF Kinds
  <2>2. obj'.pvc # None => obj'.pv # None
    BY <1>2, <2>1, Types DEF Backed
  <2>3. \A q \in Reqs : loc'[q].cq # None => obj'.cq # None
    BY <1>2, <2>1, Types DEF Backed
  <2>. QED
    BY <2>2, <2>3 DEF Backed
<1>5. NamespaceReady'
  <2>1. {"ns", "role", "binding", "pv", "pvc"} \subseteq Kinds
    BY DEF Kinds
  <2>2. svc' = svc /\ Managed' = Managed
    BY DEF Managed
  <2>3. obj.ns = "owned" => obj'.ns = "owned"
    BY <1>2, <2>1
  <2>. QED
    BY <1>2, <2>1, <2>2, <2>3, Types DEF NamespaceReady
<1>. QED
  BY <1>3, <1>4, <1>5 DEF IInv, Agenda

\* What a new object says.
LEMMA NewValues ==
    ASSUME NEW r \in Reqs, IInv, NEW k \in Kinds
    PROVE  /\ New(r, k) \in Values(k)
           /\ k \notin {"mirror", "otherMirror"} => New(r, k) # None
           /\ k = "ns" => New(r, k) = "owned"
<1>1. CASE k = "secret"
  BY <1>1, NoneAssumption, SizesAssumption DEF New, Values, Reqs
<1>2. CASE k = "ns"
  BY <1>2, NoneAssumption DEF New, Values
<1>3. CASE k \in {"mirror", "otherMirror"}
  <2>1. obj.secret \in Values("secret")
    BY Types DEF Kinds
  <2>. QED
    BY <1>3, <2>1 DEF New, Values
<1>4. CASE k = "cq"
  <2>1. ClusterQueueSpec \in QueueSpecs
    BY LimitsAssumption DEF ClusterQueueSpec, QueueSpecs
  <2>. QED
    BY <1>4, <2>1, NoneAssumption DEF New, Values
<1>5. CASE k = "quota"
  <2>1. getResourceDef(Defaults) \in QuotaSpecs
    BY LimitsAssumption DEF getResourceDef, QuotaSpecs, VolumeLimits
  <2>. QED
    BY <1>5, <2>1, NoneAssumption DEF New, Values
<1>6. CASE k = "limit"
  <2>1. getLimitsDef(Defaults) \in LimitSpecs
    BY LimitsAssumption DEF getLimitsDef, LimitSpecs, VolumeLimits
  <2>. QED
    BY <1>6, <2>1, NoneAssumption DEF New, Values
<1>7. CASE k \in {"role", "binding", "pv", "pvc", "flavor"}
  BY <1>7, NoneAssumption DEF New, Values
<1>. QED
  BY <1>1, <1>2, <1>3, <1>4, <1>5, <1>6, <1>7 DEF Kinds

\* Create: the claim of the shared volume comes after the volume.
LEMMA CreateObjectKeeps ==
    ASSUME NEW r \in Reqs, IInv, CreateObject(r)
    PROVE  IInv'
<1>. DEFINE h == todo[r][1]
            k == todo[r][1].kind
            v == New(r, k)
<1>1. /\ UNCHANGED <<base, yk, svc, claim, minio, loc>> /\ Fixed /\ Quietly
      /\ todo[r] # <<>>
      /\ \/ h.op = "create"
         \/ h.op = "get" /\ k \in OneStep /\ obj[k] = None
  BY DEF CreateObject, ToCreate, At, K
<1>2. \/ Fail(r) /\ UNCHANGED <<obj, lq, cache>>
      \/ GoOn(r, <<>>) /\ Val(r, k) # None /\ UNCHANGED <<obj, lq, cache>>
      \/ /\ GoOn(r, <<>>) /\ Val(r, k) = None /\ Put(r, k, v)
         /\ cache' = cache \/ Cached
  BY DEF CreateObject, K
<1>3. ans' \in [Reqs -> {"ok", "error"}] /\ clean' \in [Reqs -> BOOLEAN] /\ faults' \in Nat
  BY <1>1, <1>2, Records
<1>4. h \in CallType /\ h.blk # "again" /\ Relies(h) \subseteq Known(r)
  BY <1>1, NextCall DEF Permitted
<1>5. k \in Kinds \cup {"lq", "none"}
  BY <1>4 DEF CallType
<1>6. Provides(h) \subseteq {k} \cap {"ns", "role", "binding", "pv", "pvc"}
  BY <1>1, <1>4 DEF Provides, OneStep
<1>7. cache' \in 0..2
  BY <1>2, Types DEF Cached
<1>8. "there" \in Values("role") /\ "there" # None
  BY NoneAssumption DEF Values
<1>9. CASE (Fail(r) \/ (GoOn(r, <<>>) /\ Val(r, k) # None)) /\ UNCHANGED <<obj, lq, cache>>
  <2>1. Frame(r)
    BY <1>1, <1>9, NothingTouched DEF Fixed
  <2>2. Fail(r) => Agenda'
    BY <1>1, <2>1, Fails
  <2>3. ASSUME GoOn(r, <<>>) /\ Val(r, k) # None
        PROVE  Agenda'
    <3>1. h.op = "create"
      BY <1>1, <2>3 DEF Val, OneStep
    <3>2. Provides(h) \subseteq {k} \cap {"pvc"}
      BY <1>4, <3>1 DEF Provides
    <3>3. k = "pvc" => "pvc" \in Known(r)'
      BY <1>9, <2>3 DEF Val, Known
    <3>. QED
      BY <1>1, <2>1, <2>3, <3>2, <3>3, MovesOn
  <2>4. Agenda'
    BY <1>9, <2>2, <2>3
  <2>5. lq' \in LocalQueues /\ obj' = obj
    BY <1>9, Types
  <2>. QED
    BY <1>1, <1>3, <1>7, <1>8, <2>4, <2>5, WriteStep
<1>10. CASE GoOn(r, <<>>) /\ Val(r, k) = None /\ Put(r, k, v)
  <2>1. CASE k \notin Kinds \/ v = None
    <3>1. obj' = obj /\ lq' \in LocalQueues
      <4>1. CASE k = "lq"
        <5>1. v = "there"
          BY <4>1 DEF New
        <5>2. obj' = obj /\ lq' = [lq EXCEPT ![req[r].place][req[r].name] = "there"]
          BY <1>10, <4>1, <5>1 DEF Put
        <5>3. req[r].place \in Places /\ req[r].name \in Names \cup {None}
          BY Types DEF RequestType
        <5>. QED
          BY <5>2, <5>3, Types, PutAt
      <4>2. CASE k # "lq"
        <5>1. obj' = [obj EXCEPT ![k] = v] /\ lq' = lq /\ obj[k] = None
          BY <1>10, <4>2 DEF Put, Val
        <5>2. obj = [x \in Kinds |-> obj[x]]
          BY Types
        <5>. HIDE DEF k, v
        <5>3. obj' = obj
          BY <2>1, <5>1, <5>2
        <5>. QED
          BY <5>1, <5>3, Types
      <4>. QED
        BY <4>1, <4>2
    <3>2. Frame(r)
      BY <1>1, <3>1, NothingTouched DEF Fixed
    <3>3. k \notin {"ns", "role", "binding", "pv", "pvc"}
      BY <2>1, NewValues DEF Kinds
    <3>4. Agenda'
      BY <1>1, <1>6, <1>10, <3>2, <3>3, MovesOn
    <3>. QED
      BY <1>1, <1>3, <1>7, <1>8, <3>1, <3>4, WriteStep
  <2>2. CASE k \in Kinds /\ v # None
    <3>1. obj' = [obj EXCEPT ![k] = v] /\ lq' = lq /\ obj[k] = None
      BY <1>10, <2>2 DEF Put, Val, Kinds
    <3>2. v \in Values(k) /\ (k = "ns" => v = "owned")
      BY <2>2, NewValues
    <3>3. obj = [x \in Kinds |-> obj[x]]
      BY Types
    <3>4. {"ns", "role", "binding", "pvc", "pv", "quota", "limit"} \subseteq Kinds
      BY DEF Kinds
    <3>5. "owned" # None
      BY NoneAssumption
    <3>6. k = "pvc" => obj.pv # None
      <4>1. k = "pvc" => h.op = "create"
        BY <1>1 DEF OneStep
      <4>2. k = "pvc" => "pv" \in Known(r)
        BY <1>4, <4>1 DEF Relies
      <4>. QED
        BY <4>2 DEF Known
    <3>. HIDE DEF v, k
    <3>7. obj'[k] = v /\ \A x \in Kinds \ {k} : obj'[x] = obj[x]
      BY <2>2, <3>1, <3>3
    <3>8. Frame(r)
      BY <1>1, <2>2, <3>1, <3>4, <3>5, <3>7, ObjectsGrow DEF Fixed
    <3>9. k \in {"ns", "role", "binding", "pv", "pvc"} => k \in Known(r)'
      BY <2>2, <3>2, <3>7 DEF Known
    <3>10. Provides(todo[r][1]) \subseteq Known(r)'
      BY <1>6, <3>9 DEF h
    <3>11. Agenda'
      BY <1>1, <1>10, <3>8, <3>10, MovesOn
    <3>12. lq' \in LocalQueues
      BY <3>1, Types
    <3>. QED
      BY <1>1, <1>3, <1>7, <2>2, <3>1, <3>2, <3>6, <3>11, <3>12, WriteStep
  <2>. QED
    BY <2>1, <2>2
<1>. QED
  BY <1>2, <1>9, <1>10

\* The update of a namespace or ClusterQueue that is not as it should be.
LEMMA FixObjectKeeps ==
    ASSUME NEW r \in Reqs, IInv, FixObject(r)
    PROVE  IInv'
<1>. DEFINE k == todo[r][1].kind
            v == IF k = "ns" THEN "owned" ELSE ClusterQueueSpec
<1>1. /\ UNCHANGED <<base, lq, yk, svc, claim, minio, cache, loc>> /\ Fixed /\ Quietly
      /\ todo[r] # <<>> /\ todo[r][1].op = "fix"
  BY DEF FixObject, At
<1>2. k \in {"ns", "cq"} /\ todo[r][1].blk # "again"
  BY <1>1, NextCall DEF Permitted
<1>3. \/ Fail(r) /\ UNCHANGED obj
      \/ GoOn(r, <<>>) /\ obj' = [obj EXCEPT ![k] = v]
  BY <1>2 DEF FixObject, K
<1>4. ans' \in [Reqs -> {"ok", "error"}] /\ clean' \in [Reqs -> BOOLEAN] /\ faults' \in Nat
  BY <1>1, <1>3, Records
<1>5. v \in Values(k) /\ v # None /\ (k = "ns" => v = "owned")
  <2>1. ClusterQueueSpec \in QueueSpecs
    BY LimitsAssumption DEF ClusterQueueSpec, QueueSpecs
  <2>. QED
    BY <1>2, <2>1, NoneAssumption DEF Values
<1>6. lq' \in LocalQueues /\ cache' \in 0..2
  BY <1>1, Types
<1>7. k \in Kinds /\ {"ns", "role", "binding", "pvc", "pv", "quota", "limit"} \subseteq Kinds
  BY <1>2 DEF Kinds
<1>. HIDE DEF k, v
<1>8. CASE Fail(r) /\ UNCHANGED obj
  <2>1. Frame(r)
    BY <1>1, <1>8, NothingTouched DEF Fixed
  <2>2. Agenda'
    BY <1>1, <1>8, <2>1, Fails
  <2>. QED
    BY <1>1, <1>4, <1>5, <1>6, <1>8, <2>2, WriteStep
<1>9. CASE GoOn(r, <<>>) /\ obj' = [obj EXCEPT ![k] = v]
  <2>1. obj = [x \in Kinds |-> obj[x]]
    BY Types
  <2>2. obj'[k] = v /\ \A x \in Kinds \ {k} : obj'[x] = obj[x]
    BY <1>7, <1>9, <2>1
  <2>3. Frame(r)
    BY <1>1, <1>2, <1>5, <1>7, <2>2, ObjectsGrow DEF Fixed
  <2>4. Provides(todo[r][1]) \subseteq {k} \cap {"ns"}
    BY <1>1, <1>2 DEF Provides, k
  <2>5. k = "ns" => "ns" \in Known(r)'
    BY <1>5, <2>2 DEF Known
  <2>6. Agenda'
    BY <1>1, <1>9, <2>3, <2>4, <2>5, MovesOn
  <2>7. k # "pvc"
    BY <1>2
  <2>. QED
    BY <1>1, <1>4, <1>5, <1>6, <1>7, <1>9, <2>6, <2>7, WriteStep
<1>. QED
  BY <1>3, <1>8, <1>9

\* The update of the ResourceQuota or the LimitRange.
LEMMA PutLimitsKeeps ==
    ASSUME NEW r \in Reqs, IInv, PutLimits(r)
    PROVE  IInv'
<1>. DEFINE k == todo[r][1].kind
            v == IF k = "quota" THEN getResourceDef(loc[r].merged) ELSE getLimitsDef(loc[r].merged)
<1>1. /\ UNCHANGED <<base, lq, yk, svc, claim, minio, cache, loc>> /\ Fixed /\ Quietly
      /\ todo[r] # <<>> /\ todo[r][1].op = "put"
      /\ (Fail(r) /\ obj' = obj) \/ GoOn(r, <<>>)
      /\ obj' = obj \/ obj' = [obj EXCEPT ![k] = v]
  BY DEF PutLimits, At, K
<1>2. k \in {"quota", "limit"}
  BY <1>1, NextCall DEF Permitted
<1>13. todo[r][1].blk # "again"
  BY <1>1, NextCall DEF Permitted
<1>3. loc[r].merged \in VolumeLimits
  <2>1. "merged" \in Known(r)
    BY <1>1, NextCall DEF Relies
  <2>2. loc[r].merged # None /\ loc[r] \in Readings
    BY <2>1, Types DEF Known
  <2>. QED
    BY <2>2 DEF Readings
<1>4. v \in Values(k) /\ v # None
  <2>1. /\ getResourceDef(loc[r].merged) \in QuotaSpecs
        /\ getLimitsDef(loc[r].merged) \in LimitSpecs
    BY <1>3 DEF getResourceDef, getLimitsDef, QuotaSpecs, LimitSpecs, VolumeLimits
  <2>. QED
    BY <1>2, <2>1, NoneAssumption DEF Values
<1>5. ans' \in [Reqs -> {"ok", "error"}] /\ clean' \in [Reqs -> BOOLEAN] /\ faults' \in Nat
  BY <1>1, Records
<1>6. lq' \in LocalQueues /\ cache' \in 0..2
  BY <1>1, Types
<1>7. k \in Kinds /\ {"ns", "role", "binding", "pvc", "pv", "quota", "limit"} \subseteq Kinds
  BY <1>2 DEF Kinds
<1>8. k \notin {"ns", "pvc"}
  BY <1>2
<1>. HIDE DEF k, v
<1>9. obj = [x \in Kinds |-> obj[x]]
  BY Types
<1>10. \A x \in Kinds : obj'[x] = obj[x] \/ (x = k /\ obj'[x] = v)
  BY <1>1, <1>7, <1>9
<1>11. Frame(r)
  <2>1. obj'.ns = obj.ns
    BY <1>7, <1>8, <1>10
  <2>. QED
    BY <1>1, <1>4, <1>7, <1>10, <2>1, ObjectsGrow DEF Fixed
<1>12. Agenda'
  <2>1. CASE Fail(r) /\ obj' = obj
    BY <1>1, <1>11, <2>1, <1>13, Fails
  <2>2. CASE GoOn(r, <<>>)
    BY <1>1, <1>11, <2>2, NothingProvided, MovesOn
  <2>. QED
    BY <1>1, <2>1, <2>2
<1>. QED
  BY <1>1, <1>4, <1>5, <1>6, <1>7, <1>8, <1>12, WriteStep

\* The update of the ClusterQueue.
LEMMA PutClusterQueueKeeps ==
    ASSUME NEW r \in Reqs, IInv, PutClusterQueue(r)
    PROVE  IInv'
<1>. DEFINE a == req[r].ask
            c == Given(a.cpu, obj.cq.cpu)
            m == Given(a.memory, obj.cq.memory)
            v == WithQuotas(obj.cq, a)
            fine == Bad \notin {a.cpu, a.memory}
<1>1. /\ UNCHANGED <<base, lq, yk, svc, claim, minio, cache, loc>> /\ Fixed /\ Quietly
      /\ todo[r] # <<>> /\ todo[r][1].op = "putCQ"
  BY DEF PutClusterQueue, At
<1>2. \/ Fail(r) /\ UNCHANGED obj
      \/ /\ GoOn(r, <<>>) /\ fine /\ obj.cq = loc[r].cq
         /\ obj' = [obj EXCEPT !.cq = v]
  BY DEF PutClusterQueue
<1>3. ans' \in [Reqs -> {"ok", "error"}] /\ clean' \in [Reqs -> BOOLEAN] /\ faults' \in Nat
  BY <1>1, <1>2, Records
<1>4. lq' \in LocalQueues /\ cache' \in 0..2
  BY <1>1, Types
<1>5. CASE Fail(r) /\ UNCHANGED obj
  <2>1. Frame(r)
    BY <1>1, <1>5, NothingTouched DEF Fixed
  <2>2. Agenda'
    BY <1>1, <1>5, <2>1, Fails
  <2>3. "there" \in Values("role") /\ "there" # None
    BY NoneAssumption DEF Values
  <2>. QED
    BY <1>1, <1>3, <1>4, <1>5, <2>2, <2>3, WriteStep
<1>6. CASE GoOn(r, <<>>) /\ fine /\ obj.cq = loc[r].cq /\ obj' = [obj EXCEPT !.cq = v]
  <2>1. a # None
    BY <1>1, NextCall DEF Permitted
  <2>2. a \in QuotaUpdateRequest
    BY <2>1, Types DEF RequestType
  <2>3. a.cpu \in Nat \cup {None} /\ a.memory \in Nat \cup {None}
    <3>. HIDE DEF a
    <3>. QED
      BY <1>6, <2>2 DEF QuotaUpdateRequest, Quantity
  <2>4. loc[r].cq # None
    <3>1. "queueRead" \in Known(r)
      BY <1>1, NextCall DEF Relies
    <3>. QED
      BY <3>1 DEF Known
  <2>5. obj.cq \in QueueSpecs
    <3>1. loc[r] \in Readings
      BY Types
    <3>. QED
      BY <1>6, <2>4, <3>1 DEF Readings
  <2>6. v \in QueueSpecs
    <3>. HIDE DEF a
    <3>1. c \in Nat /\ m \in Nat
      BY <2>3, <2>5 DEF QueueSpecs, Given
    <3>2. v = [obj.cq EXCEPT !.cpu = c, !.memory = m]
      BY DEF WithQuotas
    <3>. HIDE DEF c, m, v
    <3>. QED
      BY <2>5, <3>1, <3>2 DEF QueueSpecs
  <2>7. v \in Values("cq") /\ v # None
    <3>. HIDE DEF v
    <3>. QED
      BY <2>6, NoneAssumption DEF Values
  <2>8. "cq" \in Kinds /\ {"ns", "role", "binding", "pvc", "pv", "quota", "limit"} \subseteq Kinds \ {"cq"}
    BY DEF Kinds
  <2>. HIDE DEF v, fine
  <2>9. obj = [x \in Kinds |-> obj[x]]
    BY Types
  <2>10. \A x \in Kinds \ {"cq"} : obj'[x] = obj[x]
    BY <1>6, <2>8, <2>9
  <2>11. Frame(r)
    BY <1>1, <2>8, <2>10, ObjectsGrow DEF Fixed
  <2>12. Agenda'
    BY <1>1, <1>6, <2>11, NothingProvided, MovesOn
  <2>. QED
    BY <1>1, <1>3, <1>4, <1>6, <2>7, <2>8, <2>12, WriteStep
<1>. QED
  BY <1>2, <1>5, <1>6

-----------------------------------------------------------------------------
(* Requests that come and go, and the environment. *)

\* A request with no calls left is in order.
LEMMA NothingLeft ==
    ASSUME NEW s, s = <<>>, NEW known, NEW q, NEW l
    PROVE  /\ s \in Seq(CallType) /\ InOrder(s, known)
           /\ \A i \in 1..Len(s) : Permitted(q, l, s[i], i)
<1>1. s \in Seq(CallType)
  OBVIOUS
<1>2. 1..Len(s) = {}
  <2>1. Len(s) = 0
    OBVIOUS
  <2>. QED
    BY <2>1
<1>. QED
  BY <1>1, <1>2 DEF InOrder

\* The records of a request that has not come or is over.
LEMMA IdleTyped ==
    /\ Idle \in RequestType /\ Nothing \in Readings
    /\ \A o \in Ops : [Idle EXCEPT !.op = o] \in RequestType /\ [Idle EXCEPT !.op = o].op = o
BY DEF Idle, Nothing, RequestType, Readings, Ops, Places

\* The invariant holds at the start.
LEMMA InitOK == Init => IInv
<1>. SUFFICES ASSUME Init PROVE IInv
  OBVIOUS
<1>1. PICK s \in Starts :
          /\ cfg = s.cfg /\ base = s.base
          /\ obj = [k \in Kinds |->
                       CASE s.byHand /\ k = "ns" -> "plain"
                         [] s.byHand /\ k = "cq" ->
                                [ClusterQueueSpec EXCEPT !.cpu = DefaultCPU + 1, !.selector = "none"]
                         [] OTHER -> None]
  BY DEF Init
<1>2. s \in StartType
  BY StartAssumption
<1>3. cfg \in ConfigType /\ base \in {"pending", "bound"}
  BY <1>1, <1>2 DEF StartType
<1>4. obj = [k \in Kinds |-> obj[k]]
  BY <1>1
<1>. DEFINE c == [ClusterQueueSpec EXCEPT !.cpu = DefaultCPU + 1, !.selector = "none"]
<1>5. c \in QueueSpecs
  <2>1. ClusterQueueSpec \in QueueSpecs
    BY LimitsAssumption DEF QueueSpecs, ClusterQueueSpec
  <2>2. DefaultCPU + 1 \in Nat
    BY LimitsAssumption
  <2>. QED
    BY <2>1, <2>2 DEF QueueSpecs
<1>6. ASSUME NEW k \in Kinds PROVE obj[k] \in Values(k)
  <2>1. obj[k] = CASE s.byHand /\ k = "ns" -> "plain" [] s.byHand /\ k = "cq" -> c [] OTHER -> None
    BY <1>1
  <2>. HIDE DEF c
  <2>2. CASE s.byHand /\ k = "ns"
    BY <2>1, <2>2 DEF Values
  <2>3. CASE s.byHand /\ k = "cq"
    <3>1. obj[k] = c
      BY <2>1, <2>3
    <3>. QED
      BY <1>5, <2>3, <3>1 DEF Values, c
  <2>4. CASE ~(s.byHand /\ k = "ns") /\ ~(s.byHand /\ k = "cq")
    <3>1. obj[k] = None
      BY <2>1, <2>4
    <3>. QED
      BY <3>1 DEF Values
  <2>. QED
    BY <2>2, <2>3, <2>4
<1>7. \A r \in Reqs : todo[r] = <<>> /\ loc[r] = Nothing /\ req[r] = Idle
  BY DEF Init
<1>8. todo \in [Reqs -> Seq(CallType)] /\ loc \in [Reqs -> Readings] /\ req \in [Reqs -> RequestType]
  <2>1. <<>> \in Seq(CallType)
    OBVIOUS
  <2>. QED
    BY <2>1, IdleTyped DEF Init
<1>9. TypeOK
  <2>1. /\ lq \in [Places -> [Names -> {None, "there"}]]
        /\ svc \in [Places -> [Names -> Service \cup {None}]]
        /\ claim \in [Names -> {0} \cup Sizes]
    BY DEF Init
  <2>2. ans \in [Reqs -> {"ok", "error"}] /\ clean \in [Reqs -> BOOLEAN]
    BY DEF Init
  <2>3. /\ yk \subseteq Names /\ minio \in Reqs \cup {None} /\ cache \in 0..2
        /\ overlaps \in Nat /\ faults \in Nat /\ restarts \in Nat
    BY DEF Init
  <2>. QED
    BY <1>3, <1>4, <1>6, <1>8, <2>1, <2>2, <2>3 DEF TypeOK
<1>10. CallsInOrder /\ CallsPermitted
  BY <1>7, NothingLeft DEF CallsInOrder, CallsPermitted
<1>11. Backed
  <2>1. obj.pvc = None
    <3>1. "pvc" \in Kinds
      BY DEF Kinds
    <3>. QED
      BY <1>1, <3>1
  <2>2. \A r \in Reqs : loc[r].cq = None
    BY <1>7 DEF Nothing
  <2>. QED
    BY <2>1, <2>2 DEF Backed
<1>12. NamespaceReady
  <2>1. (\A n \in Names : svc.own[n] = None) /\ Managed = {}
    BY DEF Init, Managed, Places
  <2>. QED
    BY <2>1 DEF NamespaceReady
<1>. QED
  BY <1>9, <1>10, <1>11, <1>12 DEF IInv

\* A request arrives with proper calls.
LEMMA ArriveKeeps ==
    ASSUME NEW r \in Reqs, IInv, NEW q \in RequestType, Arrive(r, q),
           q.op = "setQuota" => q.ask \in QuotaUpdateRequest,
           q.op \in {"create", "delete"} => q.name # None,
           q.op \notin {"idle", "done"}
    PROVE  IInv'
<1>. DEFINE s == Calls(q)
<1>1. /\ req' = [req EXCEPT ![r] = q] /\ todo' = [todo EXCEPT ![r] = s]
      /\ UNCHANGED <<cfg, base, obj, lq, yk, svc, claim, minio, cache, loc, ans, faults, restarts>>
  BY DEF Arrive, store
<1>2. Proper(s, q, Known(r))
  BY CallsProper
<1>. HIDE DEF s
<1>3. /\ s \in Seq(CallType) /\ InOrder(s, Known(r))
      /\ \A i \in 1..Len(s) : Permitted(q, loc[r], s[i], i)
  BY <1>2 DEF Proper, Allowed, Permitted
<1>4. \A p \in Reqs : Known(p)' = Known(p)
  BY <1>1 DEF Known
<1>5. /\ todo \in [Reqs -> Seq(CallType)] /\ req \in [Reqs -> RequestType]
      /\ clean \in [Reqs -> BOOLEAN] /\ overlaps \in Nat
  BY DEF IInv, TypeOK
<1>6. /\ todo' \in [Reqs -> Seq(CallType)] /\ req' \in [Reqs -> RequestType]
      /\ todo'[r] = s /\ req'[r] = q
      /\ \A p \in Reqs \ {r} : todo'[p] = todo[p] /\ req'[p] = req[p]
  BY <1>1, <1>3, <1>5
<1>7. clean' \in [Reqs -> BOOLEAN]
  <2>1. \A p \in Reqs : clean[p] \in BOOLEAN
    BY <1>5
  <2>. QED
    BY <2>1 DEF Arrive
<1>8. overlaps' \in Nat
  BY <1>5 DEF Arrive
<1>9. TypeOK'
  BY <1>1, <1>6, <1>7, <1>8 DEF IInv, TypeOK
<1>10. CallsInOrder'
  BY <1>3, <1>4, <1>6 DEF IInv, CallsInOrder
<1>11. CallsPermitted'
  <2>1. \A i \in 1..Len(todo'[r]) : Permitted(req'[r], loc'[r], todo'[r][i], i)
    BY <1>1, <1>3, <1>6
  <2>2. \A p \in Reqs \ {r} : \A i \in 1..Len(todo'[p]) : Permitted(req'[p], loc'[p], todo'[p][i], i)
    BY <1>1, <1>6 DEF IInv, CallsPermitted
  <2>. QED
    BY <2>1, <2>2 DEF CallsPermitted
<1>12. Backed' /\ NamespaceReady'
  BY <1>1 DEF IInv, Backed, NamespaceReady, Managed
<1>. QED
  BY <1>9, <1>10, <1>11, <1>12 DEF IInv

\* The requests of the API.
LEMMA StartKeeps ==
    ASSUME NEW r \in Reqs, IInv, Start(r)
    PROVE  IInv'
<1>. USE ArriveKeeps
<1>1. \A n \in Names : n # None
  BY NoneAssumption
<1>2. {"ownQuota", "share", "mkvol", "rmvol", "delete", "setQuota"} \subseteq Ops
  BY DEF Ops
<1>3. GetOwnQuota(r) => IInv'
  <2>. DEFINE q == [Idle EXCEPT !.op = "ownQuota"]
  <2>1. q \in RequestType /\ q.op = "ownQuota"
    BY <1>2, IdleTyped
  <2>. HIDE DEF q
  <2>. QED
    BY <2>1 DEF GetOwnQuota, Request, q
<1>4. ShareWithUser(r) => IInv'
  <2>. DEFINE q == [Idle EXCEPT !.op = "share"]
  <2>1. q \in RequestType /\ q.op = "share"
    BY <1>2, IdleTyped
  <2>. HIDE DEF q
  <2>. QED
    BY <2>1 DEF ShareWithUser, Request, q
<1>5. CreateVolume(r) => IInv'
  <2>. SUFFICES ASSUME NEW n \in Volumes, NEW s \in Sizes,
                       Arrive(r, [Request("mkvol") EXCEPT !.vol = n, !.size = s])
                PROVE  IInv'
    BY DEF CreateVolume
  <2>. DEFINE q == [Request("mkvol") EXCEPT !.vol = n, !.size = s]
  <2>1. q \in RequestType /\ q.op = "mkvol"
    BY SizesAssumption DEF Request, Idle, RequestType, Ops, Places
  <2>. HIDE DEF q
  <2>. QED
    BY <2>1 DEF q
<1>6. DeleteVolume(r) => IInv'
  <2>. SUFFICES ASSUME NEW n \in Volumes, Arrive(r, [Request("rmvol") EXCEPT !.vol = n])
                PROVE  IInv'
    BY DEF DeleteVolume
  <2>. DEFINE q == [Request("rmvol") EXCEPT !.vol = n]
  <2>1. q \in RequestType /\ q.op = "rmvol"
    BY SizesAssumption DEF Request, Idle, RequestType, Ops, Places
  <2>. HIDE DEF q
  <2>. QED
    BY <2>1 DEF q
<1>7. CreateService(r) => IInv'
  <2>. SUFFICES ASSUME NEW b \in Bodies,
                       Arrive(r, [op |-> "create", name |-> b.name, place |-> b.place,
                                  vol |-> b.vol, size |-> b.size, retain |-> b.retain,
                                  ask |-> None])
                PROVE  IInv'
    BY DEF CreateService
  <2>. DEFINE q == [op |-> "create", name |-> b.name, place |-> b.place, vol |-> b.vol,
                    size |-> b.size, retain |-> b.retain, ask |-> None]
  <2>1. b \in ServiceBody
    BY BodiesAssumption
  <2>2. q \in RequestType /\ q.op = "create" /\ q.name # None
    BY <1>1, <2>1 DEF RequestType, ServiceBody, Ops
  <2>. HIDE DEF q
  <2>. QED
    BY <2>2 DEF q
<1>8. DeleteService(r) => IInv'
  <2>. SUFFICES ASSUME NEW n \in Names, Arrive(r, [Request("delete") EXCEPT !.name = n])
                PROVE  IInv'
    BY DEF DeleteService
  <2>. DEFINE q == [Request("delete") EXCEPT !.name = n]
  <2>1. q \in RequestType /\ q.op = "delete" /\ q.name # None
    BY <1>1 DEF Request, Idle, RequestType, Ops, Places
  <2>. HIDE DEF q
  <2>. QED
    BY <2>1 DEF q
<1>9. UpdateUserQuota(r) => IInv'
  <2>. SUFFICES ASSUME NEW a \in Asks, Arrive(r, [Request("setQuota") EXCEPT !.ask = a])
                PROVE  IInv'
    BY DEF UpdateUserQuota
  <2>. DEFINE q == [Request("setQuota") EXCEPT !.ask = a]
  <2>1. q \in RequestType /\ q.op = "setQuota" /\ q.ask \in QuotaUpdateRequest
    BY AsksAssumption DEF Request, Idle, RequestType, Ops, Places
  <2>. HIDE DEF q
  <2>. QED
    BY <2>1 DEF q
<1>. QED
  BY <1>3, <1>4, <1>5, <1>6, <1>7, <1>8, <1>9 DEF Start

\* A request is answered.
LEMMA ReturnKeeps ==
    ASSUME NEW r \in Reqs, IInv, Return(r)
    PROVE  IInv'
<1>. DEFINE done == [Idle EXCEPT !.op = "done"]
<1>1. /\ req' = [req EXCEPT ![r] = done] /\ loc' = [loc EXCEPT ![r] = Nothing]
      /\ ans' = [ans EXCEPT ![r] = "ok"] /\ clean' = [clean EXCEPT ![r] = TRUE]
      /\ UNCHANGED <<cfg, base, obj, lq, yk, svc, claim, minio, cache, todo, overlaps, faults, restarts>>
      /\ todo[r] = <<>>
  BY DEF Return, store
<1>2. /\ req \in [Reqs -> RequestType] /\ loc \in [Reqs -> Readings]
      /\ ans \in [Reqs -> {"ok", "error"}] /\ clean \in [Reqs -> BOOLEAN]
  BY DEF IInv, TypeOK
<1>3. done \in RequestType /\ Nothing \in Readings /\ Nothing.cq = None
  BY IdleTyped DEF Nothing, Ops
<1>. HIDE DEF done
<1>4. /\ req' \in [Reqs -> RequestType] /\ loc' \in [Reqs -> Readings] /\ loc'[r] = Nothing
      /\ \A p \in Reqs \ {r} : loc'[p] = loc[p] /\ req'[p] = req[p]
  BY <1>1, <1>2, <1>3
<1>5. ans' \in [Reqs -> {"ok", "error"}] /\ clean' \in [Reqs -> BOOLEAN]
  BY <1>1, <1>2
<1>6. TypeOK'
  BY <1>1, <1>4, <1>5 DEF IInv, TypeOK
<1>7. \A p \in Reqs \ {r} : Known(p)' = Known(p)
  BY <1>1, <1>4 DEF Known
<1>8. /\ InOrder(todo'[r], Known(r)')
      /\ \A i \in 1..Len(todo'[r]) : Permitted(req'[r], loc'[r], todo'[r][i], i)
  BY <1>1, NothingLeft
<1>9. CallsInOrder'
  BY <1>1, <1>7, <1>8 DEF IInv, CallsInOrder
<1>10. CallsPermitted'
  <2>1. \A p \in Reqs \ {r} : \A i \in 1..Len(todo'[p]) : Permitted(req'[p], loc'[p], todo'[p][i], i)
    BY <1>1, <1>4 DEF IInv, CallsPermitted
  <2>. QED
    BY <1>8, <2>1 DEF CallsPermitted
<1>11. Backed'
  BY <1>1, <1>3, <1>4 DEF IInv, Backed
<1>12. NamespaceReady'
  BY <1>1 DEF IInv, NamespaceReady, Managed
<1>. QED
  BY <1>6, <1>9, <1>10, <1>11, <1>12 DEF IInv

\* OSCAR restarts.
LEMMA RestartKeeps ==
    ASSUME IInv, Restart
    PROVE  IInv'
<1>. DEFINE done == [Idle EXCEPT !.op = "done"]
<1>1. /\ req' = [r \in Reqs |-> IF r \in InFlight THEN done ELSE req[r]]
      /\ todo' = [r \in Reqs |-> <<>>] /\ loc' = [r \in Reqs |-> Nothing]
      /\ ans' = [r \in Reqs |-> "ok"] /\ clean' = [r \in Reqs |-> TRUE] /\ cache' = 0
      /\ restarts' = restarts + 1
      /\ UNCHANGED <<cfg, base, obj, lq, yk, svc, claim, minio, overlaps, faults>>
  BY DEF Restart
<1>2. done \in RequestType /\ Nothing \in Readings /\ Nothing.cq = None
  BY IdleTyped DEF Nothing, Ops
<1>. HIDE DEF done
<1>3. req \in [Reqs -> RequestType] /\ restarts \in Nat
  BY DEF IInv, TypeOK
<1>4. \A r \in Reqs : todo'[r] = <<>> /\ loc'[r] = Nothing
  BY <1>1
<1>5. <<>> \in Seq(CallType)
  OBVIOUS
<1>6. /\ todo' \in [Reqs -> Seq(CallType)] /\ req' \in [Reqs -> RequestType]
      /\ loc' \in [Reqs -> Readings] /\ restarts' \in Nat
  BY <1>1, <1>2, <1>3, <1>5
<1>7. ans' \in [Reqs -> {"ok", "error"}] /\ clean' \in [Reqs -> BOOLEAN] /\ cache' \in 0..2
  BY <1>1
<1>8. TypeOK'
  BY <1>1, <1>6, <1>7 DEF IInv, TypeOK
<1>9. CallsInOrder' /\ CallsPermitted'
  BY <1>4, NothingLeft DEF CallsInOrder, CallsPermitted
<1>10. Backed'
  BY <1>1, <1>2, <1>4 DEF IInv, Backed
<1>11. NamespaceReady'
  BY <1>1 DEF IInv, NamespaceReady, Managed
<1>. QED
  BY <1>8, <1>9, <1>10, <1>11 DEF IInv

\* Only the phase of the shared volume's claim changes.
LEMMA UnchangedKeeps ==
    ASSUME IInv, UNCHANGED <<obj, lq, yk, svc, claim, minio, cache, req, todo, loc, ans, clean,
                             cfg, overlaps, faults, restarts>>,
           base' \in {"pending", "bound"}
    PROVE  IInv'
<1>1. TypeOK'
  BY DEF IInv, TypeOK
<1>2. \A r \in Reqs : Known(r)' = Known(r)
  BY DEF Known
<1>3. CallsInOrder'
  BY <1>2 DEF IInv, CallsInOrder
<1>4. CallsPermitted'
  BY DEF IInv, CallsPermitted
<1>5. Backed' /\ NamespaceReady'
  BY DEF IInv, Backed, NamespaceReady, Managed
<1>. QED
  BY <1>1, <1>3, <1>4, <1>5 DEF IInv

-----------------------------------------------------------------------------
(* The theorems. *)

\* Every step of a request keeps the invariant.
LEMMA StepKeeps ==
    ASSUME NEW r \in Reqs, IInv, Step(r)
    PROVE  IInv'
<1>1. CallFails(r) \/ LookForQueue(r) \/ UserExists(r) \/ CreateMinIOUser(r) => IInv'
  BY CallFailsKeeps, LookForQueueKeeps, UserExistsKeeps, CreateMinIOUserKeeps
<1>2. \/ ReadBasePVC(r) \/ ListClaims(r) \/ ValidateManagedVolumeQuota(r)
      \/ GetManagedVolume(r) \/ NotEnabled(r)
      => IInv'
  BY LookingKeeps
<1>3. Get(r) \/ Read(r) \/ ReadLimits(r) \/ MergeLimits(r) \/ readYunikornConfig(r) => IInv'
  BY GetKeeps, ReadKeeps, ReadLimitsKeeps, MergeLimitsKeeps, readYunikornConfigKeeps
<1>4. CreateObject(r) \/ FixObject(r) \/ PutLimits(r) \/ PutClusterQueue(r) => IInv'
  BY CreateObjectKeeps, FixObjectKeeps, PutLimitsKeeps, PutClusterQueueKeeps
<1>5. CreateClaim(r) \/ DropClaim(r) \/ PublishService(r) \/ RetireService(r) => IInv'
  BY CreateClaimKeeps, DropClaimKeeps, PublishServiceKeeps, RetireServiceKeeps
<1>6. updateYunikornConfig(r) \/ DeleteKueueLocalQueue(r) => IInv'
  BY QueueWritesKeep
<1>. QED
  BY <1>1, <1>2, <1>3, <1>4, <1>5, <1>6 DEF Step

\* Every step keeps the invariant.
LEMMA NextKeeps == IInv /\ [Next]_vars => IInv'
<1>. SUFFICES ASSUME IInv, [Next]_vars PROVE IInv'
  OBVIOUS
<1>1. base \in {"pending", "bound"}
  BY DEF IInv, TypeOK
<1>2. ASSUME NEW r \in Reqs, Start(r) \/ Step(r) \/ Return(r) PROVE IInv'
  BY <1>2, StartKeeps, StepKeeps, ReturnKeeps
<1>3. CASE BindBase
  BY <1>3, UnchangedKeeps DEF BindBase
<1>4. CASE Restart
  BY <1>4, RestartKeeps
<1>5. CASE UNCHANGED vars
  BY <1>1, <1>5, UnchangedKeeps DEF vars
<1>. QED
  BY <1>2, <1>3, <1>4, <1>5 DEF Next, AllServed

\* The calls that a request still has to make are always in order: each comes after those it
\* relies on, no request but a quota update has one that writes over a quota, and the user's
\* own namespace is ready once there is a service or a volume in it, in any interleaving of
\* any number of requests, failed calls and restarts (EnsureUserNamespace,
\* GetVolumeQuotaInfo, updateQuota).
THEOREM Invariance == Spec => []IInv
<1>1. Init => IInv
  BY InitOK
<1>2. IInv /\ [Next]_vars => IInv'
  BY NextKeeps
<1>. QED
  BY <1>1, <1>2, PTL DEF Spec

\* No service or volume is ever in its user's own namespace while that is without the
\* controller's role and binding, the shared volume or the owner's label
\* (EnsureUserNamespace).  Nothing is said of a service that the body of its request puts
\* into another namespace: only the Secret is made there.
THEOREM NamespaceIsReady == Spec => []NamespaceReady
<1>1. IInv => NamespaceReady
  BY DEF IInv
<1>. QED
  BY <1>1, Invariance, PTL

\* A managed volume is made only when the user has a quota and limits (GetVolumeQuotaInfo).
THEOREM VolumesLimited == Spec => VolumesAreLimited
<1>1. IInv /\ [Next]_vars =>
         [\A r \in Reqs : At(r, "claim") /\ claim' # claim => obj.quota # None /\ obj.limit # None]_vars
  <2>. SUFFICES ASSUME IInv, NEW r \in Reqs, At(r, "claim")
                PROVE  obj.quota # None /\ obj.limit # None
    OBVIOUS
  <2>1. "quota" \in Known(r) /\ "limit" \in Known(r)
    BY NextCall DEF At, Relies
  <2>. QED
    BY <2>1 DEF Known
<1>. QED
  BY <1>1, Invariance, PTL DEF Spec, VolumesAreLimited

\* The objects that OSCAR made sure of stay what they are.
Kept == /\ \A k \in {"quota", "limit"} : obj[k] # None => obj'[k] = obj[k]
        /\ obj.cq # None /\ obj.cq.selector = "owner" => obj'.cq = obj.cq

\* Create never touches an object that is there.
LEMMA CreateObjectKept ==
    ASSUME NEW r \in Reqs, IInv, CreateObject(r)
    PROVE  Kept
<1>. DEFINE k == todo[r][1].kind
<1>1. UNCHANGED obj \/ (Val(r, k) = None /\ Put(r, k, New(r, k)))
  BY DEF CreateObject, K
<1>2. CASE UNCHANGED obj
  BY <1>2 DEF Kept
<1>3. CASE Val(r, k) = None /\ Put(r, k, New(r, k))
  <2>1. CASE k = "lq"
    BY <1>3, <2>1 DEF Put, Kept
  <2>2. CASE k # "lq"
    <3>1. obj[k] = None /\ obj' = [obj EXCEPT ![k] = New(r, k)]
      BY <1>3, <2>2 DEF Put, Val
    <3>2. obj = [x \in Kinds |-> obj[x]] /\ {"quota", "limit", "cq"} \subseteq Kinds
      BY Types DEF Kinds
    <3>. DEFINE v == New(r, k)
    <3>. HIDE DEF v, k
    <3>3. obj' = [obj EXCEPT ![k] = v]
      BY <3>1 DEF v
    <3>4. \A x \in Kinds : x # k => obj'[x] = obj[x]
      BY <3>2, <3>3
    <3>. QED
      BY <3>1, <3>2, <3>4 DEF Kept
  <2>. QED
    BY <2>1, <2>2
<1>. QED
  BY <1>1, <1>2, <1>3

\* A repair leaves a ClusterQueue with the owner's selector alone.
LEMMA FixObjectKept ==
    ASSUME NEW r \in Reqs, IInv, FixObject(r)
    PROVE  Kept
<1>. DEFINE k == todo[r][1].kind
<1>1. todo[r] # <<>> /\ todo[r][1].op = "fix"
  BY DEF FixObject, At
<1>2. k \in {"ns", "cq"} /\ (k = "cq" => loc[r].cq.selector # "owner")
  BY <1>1, NextCall DEF Permitted
<1>3. \/ UNCHANGED obj
      \/ k = "ns" /\ obj' = [obj EXCEPT !["ns"] = "owned"]
      \/ k = "cq" /\ obj["cq"] = loc[r].cq /\ obj' = [obj EXCEPT !["cq"] = ClusterQueueSpec]
  BY <1>2 DEF FixObject, K
<1>4. obj = [x \in Kinds |-> obj[x]] /\ {"quota", "limit", "cq"} \subseteq Kinds
  BY Types DEF Kinds
<1>5. CASE UNCHANGED obj
  BY <1>5 DEF Kept
<1>6. CASE k = "ns" /\ obj' = [obj EXCEPT !["ns"] = "owned"]
  <2>1. \A x \in Kinds : x # "ns" => obj'[x] = obj[x]
    BY <1>4, <1>6
  <2>. QED
    BY <1>4, <2>1 DEF Kept
<1>7. CASE k = "cq" /\ obj["cq"] = loc[r].cq /\ obj' = [obj EXCEPT !["cq"] = ClusterQueueSpec]
  <2>1. \A x \in Kinds : x # "cq" => obj'[x] = obj[x]
    BY <1>4, <1>7
  <2>2. obj.cq.selector # "owner"
    BY <1>2, <1>7
  <2>. QED
    BY <1>4, <2>1, <2>2 DEF Kept
<1>. QED
  BY <1>3, <1>5, <1>6, <1>7

\* A step of a call shortens or replaces what is left.
LEMMA GoesOnChanges ==
    ASSUME NEW r \in Reqs, IInv, todo[r] # <<>>, GoOn(r, <<>>)
    PROVE  todo'[r] # todo[r]
<1>1. todo \in [Reqs -> Seq(CallType)]
  BY DEF IInv, TypeOK
<1>. DEFINE s == todo[r]
<1>2. s \in Seq(CallType) /\ s # <<>>
  BY <1>1
<1>3. todo'[r] = <<>> \o Tail(s)
  BY <1>1 DEF GoOn
<1>. HIDE DEF s
<1>4. Tail(s) \in Seq(CallType) /\ Len(Tail(s)) = Len(s) - 1 /\ Len(s) \in Nat
  BY <1>2, HeadTailProperties
<1>5. <<>> \o Tail(s) = Tail(s)
  BY <1>4, ConcatEmptySeq
<1>6. Tail(s) # s
  <2>. DEFINE t == Tail(s)
  <2>1. Len(t) = Len(s) - 1 /\ Len(s) \in Nat
    BY <1>4
  <2>. HIDE DEF t
  <2>2. t # s
    BY <2>1
  <2>. QED
    BY <2>2 DEF t
<1>. QED
  BY <1>3, <1>5, <1>6 DEF s

\* Only a quota update changes a quota, limits or a queue that the user has
\* (EnsureVolumeLimits, ensureClusterQueue, updateQuota).
THEOREM QuotasOutlive == Spec => QuotasOutliveRequests
<1>. DEFINE others == \A r \in Reqs : req[r].op = "setQuota" => todo'[r] = todo[r]
<1>1. IInv /\ [Next]_vars => [others => Kept]_vars
  <2>. SUFFICES ASSUME IInv, Next, others PROVE Kept
    OBVIOUS
  <2>. HIDE DEF others
  <2>1. UNCHANGED obj => Kept
    BY DEF Kept
  <2>2. ASSUME NEW r \in Reqs, Start(r) PROVE Kept
    <3>1. UNCHANGED obj
      BY <2>2 DEF Start, GetOwnQuota, ShareWithUser, CreateVolume, DeleteVolume, CreateService,
                  DeleteService, UpdateUserQuota, Arrive, store
    <3>. QED
      BY <2>1, <3>1
  <2>3. ASSUME BindBase \/ Restart \/ AllServed \/ (\E r \in Reqs : Return(r)) PROVE Kept
    <3>1. UNCHANGED obj
      BY <2>3 DEF Return, BindBase, Restart, AllServed, store, vars
    <3>. QED
      BY <2>1, <3>1
  <2>4. ASSUME NEW r \in Reqs, Step(r) PROVE Kept
    <3>1. CASE \/ CallFails(r) \/ LookForQueue(r) \/ ReadBasePVC(r) \/ ListClaims(r)
               \/ ValidateManagedVolumeQuota(r) \/ GetManagedVolume(r) \/ NotEnabled(r)
      <4>1. UNCHANGED obj
        BY <3>1 DEF CallFails, LookForQueue, ReadBasePVC, ListClaims,
                    ValidateManagedVolumeQuota, GetManagedVolume, NotEnabled, NoEffect, store
      <4>. QED
        BY <2>1, <4>1
    <3>2. CASE \/ UserExists(r) \/ CreateMinIOUser(r) \/ Get(r) \/ Read(r) \/ ReadLimits(r)
               \/ MergeLimits(r) \/ readYunikornConfig(r)
      <4>1. UNCHANGED obj
        BY <3>2 DEF UserExists, CreateMinIOUser, Get, Read, ReadLimits, MergeLimits,
                    readYunikornConfig, store
      <4>. QED
        BY <2>1, <4>1
    <3>3. CASE \/ CreateClaim(r) \/ DropClaim(r) \/ PublishService(r) \/ RetireService(r)
               \/ updateYunikornConfig(r) \/ DeleteKueueLocalQueue(r)
      <4>1. UNCHANGED obj
        BY <3>3 DEF CreateClaim, DropClaim, PublishService, RetireService, updateYunikornConfig,
                    DeleteKueueLocalQueue
      <4>. QED
        BY <2>1, <4>1
    <3>4. CASE CreateObject(r)
      BY <3>4, CreateObjectKept
    <3>5. CASE FixObject(r)
      BY <3>5, FixObjectKept
    <3>6. CASE PutLimits(r)
      <4>1. /\ todo[r] # <<>> /\ todo[r][1].op = "put"
            /\ GoOn(r, <<>>) \/ UNCHANGED obj
        BY <3>6 DEF PutLimits, At
      <4>2. req[r].op = "setQuota"
        BY <4>1, NextCall DEF Permitted
      <4>. QED
        BY <2>1, <4>1, <4>2, GoesOnChanges DEF others
    <3>7. CASE PutClusterQueue(r)
      <4>1. /\ todo[r] # <<>> /\ todo[r][1].op = "putCQ"
            /\ GoOn(r, <<>>) \/ UNCHANGED obj
        BY <3>7 DEF PutClusterQueue, At
      <4>2. req[r].op = "setQuota"
        BY <4>1, NextCall DEF Permitted
      <4>. QED
        BY <2>1, <4>1, <4>2, GoesOnChanges DEF others
    <3>. QED
      BY <2>4, <3>1, <3>2, <3>3, <3>4, <3>5, <3>6, <3>7 DEF Step
  <2>. QED
    BY <2>2, <2>3, <2>4 DEF Next
<1>2. [others => Kept]_vars <=>
        [(\A r \in Reqs : req[r].op = "setQuota" => todo'[r] = todo[r]) =>
          /\ \A k \in {"quota", "limit"} : obj[k] # None => obj'[k] = obj[k]
          /\ obj.cq # None /\ obj.cq.selector = "owner" => obj'.cq = obj.cq]_vars
  BY DEF Kept
<1>. QED
  BY <1>1, <1>2, Invariance, PTL DEF Spec, QuotasOutliveRequests

=============================================================================
