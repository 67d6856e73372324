---------------------------------- MODULE MinIO ----------------------------------
(***************************************************************************)
(* The MinIO server as OSCAR uses it (minio.go): buckets with their tags   *)
(* and notifications, canned policies, the users and groups that they are  *)
(* attached to, and the webhooks of its configuration.  Each function of   *)
(* minio.go is the sequence of the calls it makes; what a call does is an  *)
(* action on the record minio.  Nothing is versioned: policies, groups and *)
(* notifications are read in one call and written back in another.         *)
(***************************************************************************)
EXTENDS Naturals, SequencesExt

CONSTANTS
    Users,         \* uids; each is a MinIO user and a member of the group of all users
    Strangers,     \* uids that requests may list and that are no MinIO users
    Names,         \* bucket names that requests use
    BucketOf,      \* the bucket that a name stands for: what comes before its first slash
    Services,      \* names of services
    None,          \* "nothing there"
    AllUsers,      \* ALL_USERS_GROUP
    CfgName,       \* cfg.Name: an administrator, where buckets are created and updated
    DefaultOwner,  \* types.DefaultOwner: an administrator, elsewhere
    Nobody         \* the empty owner

ASSUME DistinctAssumption ==
    /\ \A x \in {None, AllUsers, CfgName, DefaultOwner, Nobody} :
          x \notin Users \cup Names \cup Services
    /\ IsInjective(<<None, AllUsers, CfgName, DefaultOwner, Nobody>>)
    /\ Users \cap (Names \cup Strangers) = {}

ASSUME BucketOfAssumption ==
    /\ BucketOf \in [Names -> Names]
    /\ \A n \in Names : BucketOf[BucketOf[n]] = BucketOf[n]

VARIABLE minio

\* Whom a request may list.
Listed == Users \cup Strangers

\* Names of buckets; the others are a bucket's with a folder behind.
Plain == {n \in Names : BucketOf[n] = n}

\* The private bucket of user u that goes with bucket b is named after both.
UserBucket(b, u) == <<b, u>>
Buckets == Names \cup {UserBucket(b, u) : b \in Plain, u \in Users}

\* A policy is named after the user or the group that it is attached to; the group of
\* a bucket has the bucket's name.
Groups == Buckets \cup {AllUsers}
Principals == Users \cup Groups \cup {CfgName, DefaultOwner, Nobody}
Unset == ""   \* no visibility is given, or none is found
Visibilities == {"private", "restricted", "public", Unset}

\* A policy is the sequence of the buckets it allows; the empty one stands for the
\* policy that denies a bucket that does not exist.
Policies == Seq(Buckets) \cup {None}

MinIOState ==
    [exists : SUBSET Buckets,
     tags : [Buckets -> Users \cup {CfgName, DefaultOwner, Nobody, None}],
     notif : [Buckets -> SUBSET Services],
     policy : [Principals -> Policies],
     attached : SUBSET Principals,
     group : [Groups -> (SUBSET Users) \cup {None}],
     webhooks : SUBSET Services]

\* CreateAllUsersGroup at the start of OSCAR; CreateMinIOUser when a user first comes.
MinIOInit ==
    minio = [exists |-> {}, tags |-> [b \in Buckets |-> None],
             notif |-> [b \in Buckets |-> {}],
             policy |-> [p \in Principals |-> None], attached |-> {},
             group |-> [g \in Groups |-> IF g = AllUsers THEN Users ELSE None],
             webhooks |-> {}]

-----------------------------------------------------------------------------
(* Policies and what they allow. *)

InPolicy(p, b) == minio.policy[p] # None /\ b \in ToSet(minio.policy[p])

\* CreateAddPolicy: the policy with one more bucket.
WithResource(pol, b) == IF pol = None \/ pol = <<>> THEN <<b>> ELSE Append(pol, b)

\* RemoveResource: a policy with one bucket, whichever it is, comes to allow nothing;
\* from a longer one the first occurrence is removed.
WithoutResource(pol, b) == IF Len(pol) <= 1 THEN <<>> ELSE RemoveFirst(pol, b)

\* Who may use bucket b: by a policy of their own or through a group.
Allowed(p, b) == p \in minio.attached /\ InPolicy(p, b)
Access(b) ==
    {u \in Users : \/ Allowed(u, b)
                   \/ \E g \in Groups : Allowed(g, b) /\ minio.group[g] # None /\ u \in minio.group[g]}

\* GetCurrentResourceVisibility, from the policies among owner's, the bucket's and the
\* one of all users that were seen to have the bucket.
GetCurrentResourceVisibility(owner, b, found) ==
    CASE b \in found -> "restricted"
      [] b \notin found /\ owner \in found -> "private"
      [] b \notin found /\ owner \notin found /\ AllUsers \in found -> "public"
      [] OTHER -> Unset

-----------------------------------------------------------------------------
(* The functions of minio.go, as the calls they make. *)

Call(o, b, p, us) == [op |-> o, b |-> b, p |-> p, users |-> us]
Call1(o, b) == Call(o, b, None, {})

createBucket(b) == <<Call1("makeBucket", b)>>
CreateS3Path(b, there) == (IF there THEN <<>> ELSE createBucket(b)) \o <<Call1("folder", b)>>
enableInputNotification(b, s) == <<Call1("getNotif", b), Call("addNotif", b, s, {})>>
disableInputNotifications(b, s) == <<Call1("getNotif", b), Call("removeNotif", b, s, {})>>
CreateS3PathWithWebhook(b, s) == CreateS3Path(b, FALSE) \o enableInputNotification(b, s)
SetTags(b, owner) == <<Call("tag", b, owner, {})>>
DeleteBucket(b) == <<Call1("empty", b), Call1("removeBucket", b)>>

CreateAddPolicy(b, p) ==
    <<Call("infoToAdd", b, p, {}), Call("addPolicy", b, p, {}), Call("setPolicy", b, p, {})>>
RemoveResource(b, p) ==
    <<Call("infoToRemove", b, p, {}), Call("cutPolicy", b, p, {}), Call("setPolicy", b, p, {})>>
CreateAddGroup(g, us, remove) ==
    <<Call(IF remove THEN "removeMembers" ELSE "addMembers", None, g, us)>>

SetPolicies(b, vis, owner, us) ==
    IF vis \in {"restricted", "private"}
    THEN CreateAddPolicy(b, owner)
         \o (IF vis = "restricted" THEN CreateAddGroup(b, us, FALSE) \o CreateAddPolicy(b, b) ELSE <<>>)
    ELSE CreateAddPolicy(b, AllUsers)

\* The members found are removed, then the group, then its policy.
RemoveGroupPolicy(b) ==
    <<Call("members", None, b, {}), Call("removeFound", None, b, {})>>
    \o CreateAddGroup(b, {}, TRUE) \o <<Call("removePolicy", None, b, {})>>

\* Mutant: the group of a restricted bucket is left alone.
UnsetPolicies_GroupKept(b, vis, owner) ==
    RemoveResource(b, IF vis = "public" THEN AllUsers ELSE owner)

UnsetPolicies(b, vis, owner) ==
    RemoveResource(b, IF vis = "public" THEN AllUsers ELSE owner)
    \o (IF vis = "restricted" THEN RemoveGroupPolicy(b) ELSE <<>>)

\* Mutant: members are only added.
UpdateServiceGroup_OnlyAdds(b, us) == CreateAddGroup(b, us, FALSE)

\* Members that are not in the list are removed (if there are any), then it is added.
UpdateServiceGroup(b, us) ==
    <<Call("members", None, b, {}), Call("removeOthers", None, b, us)>> \o CreateAddGroup(b, us, FALSE)

RegisterWebhook(s) == <<Call("webhook", None, s, {})>>
RemoveWebhook(s) == <<Call("unwebhook", None, s, {})>>
RestartServer == <<Call1("restart", None), Call1("serverInfo", None)>>

\* The three policies that tell the visibility of a bucket.
SeeVisibility(owner, b) == <<Call("see", b, owner, {}), Call("see", b, b, {}), Call("see", b, AllUsers, {})>>

-----------------------------------------------------------------------------
(* What the calls do: each one either has its effect or is refused. *)

Same == UNCHANGED minio

MakeBucket(b) ==
    /\ b \notin minio.exists
    /\ minio' = [minio EXCEPT !.exists = @ \cup {b}]
DropBucket(b) ==
    /\ b \in minio.exists
    /\ minio' = [minio EXCEPT !.exists = @ \ {b}, !.tags[b] = None, !.notif[b] = {}]
Touch(b) == b \in minio.exists /\ Same
Tag(b, owner) == b \in minio.exists /\ minio' = [minio EXCEPT !.tags[b] = owner]
PutNotif(b, ss) == b \in minio.exists /\ minio' = [minio EXCEPT !.notif[b] = ss]

\* A policy has a name.
AddCannedPolicy(p, pol) == p # Nobody /\ minio' = [minio EXCEPT !.policy[p] = pol]

\* There must be a user or a group to attach it to.
PrincipalExists(p) == p \in Users \/ (p \in Groups /\ minio.group[p] # None)
SetPolicy(p) == PrincipalExists(p) /\ minio' = [minio EXCEPT !.attached = @ \cup {p}]
RemoveCannedPolicy(p) ==
    /\ minio.policy[p] # None /\ p \notin minio.attached
    /\ minio' = [minio EXCEPT !.policy[p] = None]

\* Members must be users; a group that is not there is created.
AddMembers(g, us) ==
    /\ us \subseteq Users
    /\ minio' = [minio EXCEPT !.group[g] = IF @ = None THEN us ELSE @ \cup us]

\* Removing nobody deletes a group that is empty, and is refused by one that is not.
CanRemoveMembers(g, us) == minio.group[g] # None /\ (us # {} \/ minio.group[g] = {})
RemoveMembers(g, us) ==
    /\ CanRemoveMembers(g, us)
    /\ \/ us # {} /\ minio' = [minio EXCEPT !.group[g] = @ \ us]
       \/ /\ us = {}
          /\ minio' = [minio EXCEPT !.group[g] = None, !.attached = @ \ {g}]

SetWebhook(s) == minio' = [minio EXCEPT !.webhooks = @ \cup {s}]
DelWebhook(s) == minio' = [minio EXCEPT !.webhooks = @ \ {s}]
=============================================================================
