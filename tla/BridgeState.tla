---------------------------- MODULE BridgeState ----------------------------
(***************************************************************************)
(* The state the control plane of the bridge works on, and the predicates  *)
(* its two writers (the Reconciler and the Janitor) share:                 *)
(*   - the HarborAccess objects and robot Secrets in the API server,       *)
(*   - the informer cache of every bridge replica,                         *)
(*   - the robots in Harbor,                                               *)
(*   - the reconcile pass and the janitor sweep in progress on the leader. *)
(*                                                                         *)
(* Names are abstract.  RobotName is injective on service accounts, so the *)
(* service account stands for the robot name it maps to; the robot-Secret  *)
(* name is injective on HarborAccess keys, so secret is indexed by key.    *)
(* Generation and observedGeneration are only ever compared: observed says *)
(* whether they are equal.  A password is a number no two robots share.    *)
(***************************************************************************)
EXTENDS Integers, FiniteSets

CONSTANTS
    HarborAccesses,  \* keys (namespace/name) of HarborAccess objects
    ServiceAccounts, \* serviceAccountRefs that map to a valid robot name
    NoName,          \* a serviceAccountRef that maps to no valid robot name
    NoKey,           \* the key of a pass or a sweep that has none
    LegacyName,      \* a robot name in the dash-delimited form of older bridges
    Foreign,         \* owner of a robot whose description is not this cluster's
    Unclaimed,       \* owner of a robot with our cluster tag but no HarborAccess
    Grants,          \* permission lists the bridge accepts in a spec
    Star,            \* a grant the bridge never writes (project "*")
    Replicas,        \* bridge replicas
    Selective,       \* whether a HarborAccess selector is configured
    TakeoverLag,     \* whether a new leader's cache may lag when it takes over
    Sweeping,        \* whether the janitor runs in this instance
    Admin,           \* what administrators do in this instance (AdminActs)
    RetrySteps,      \* attempts of retry.DefaultRetry (5 in client-go)
    MaxRobots,       \* bound: robots ever created in Harbor
    MaxEdits,        \* bound: changes users make to HarborAccess objects
    MaxAdmin,        \* bound: changes administrators make to robots and Secrets
    MaxDue,          \* bound: scheduled rotations that come due
    MaxFaults        \* bound: failed calls, lost answers and crashes

ASSUME BridgeAssumption ==
    /\ Selective \in BOOLEAN /\ TakeoverLag \in BOOLEAN /\ Sweeping \in BOOLEAN
    /\ NoName \notin ServiceAccounts /\ LegacyName \notin ServiceAccounts
    /\ Foreign \notin HarborAccesses /\ Unclaimed \notin HarborAccesses
    /\ Foreign # Unclaimed /\ Star \notin Grants /\ NoKey \notin HarborAccesses
    /\ Grants # {} /\ ServiceAccounts # {}
    /\ RetrySteps \in Nat \ {0} /\ MaxRobots \in Nat

VARIABLES
    ha,      \* HarborAccess objects in the API server
    cache,   \* each replica's informer cache of them
    secret,  \* robot Secrets in the API server, by HarborAccess
    robots,  \* system robots in Harbor
    nextID,  \* next robot ID Harbor assigns
    leader,  \* the replica that runs the Reconciler and the Janitor
    pc,      \* where the reconcile pass stands, "idle" when none runs
    pass,    \* local variables of that pass
    spc,     \* where the janitor sweep stands
    sweep,   \* local variables of that sweep
    spent    \* how much of each environment bound is used up

apiVars  == <<ha, secret>>
harborVars == <<robots, nextID>>
passVars == <<pc, pass>>
sweepVars == <<spc, sweep>>
vars == <<ha, cache, secret, robots, nextID, leader, pc, pass, spc, sweep, spent>>

(***************************************************************************)
(* Objects.  exists = FALSE stands for an absent object; ver is the        *)
(* resourceVersion of the key and keeps growing over deletions.            *)
(***************************************************************************)
HarborAccess ==
    [exists: BOOLEAN, ver: Nat,
     sa: ServiceAccounts \cup {NoName}, ok: BOOLEAN, perms: Grants \cup {Star}, \* spec
     sel: BOOLEAN, fin: BOOLEAN, del: BOOLEAN,              \* metadata
     observed: BOOLEAN, rid: Nat, ready: BOOLEAN]           \* status

RobotNames == ServiceAccounts \cup {LegacyName}

\* stamp: labels name this HarborAccess and cluster ("this"), this
\* HarborAccess but another cluster ("peer"), another HarborAccess ("other"),
\* or are missing ("none").  user = NoName: credentials incomplete.
Secret ==
    [exists: BOOLEAN, ver: Nat, uid: Nat,
     stamp: {"this", "peer", "other", "none"},
     user: RobotNames \cup {NoName}, rid: Nat, pw: Nat, due: BOOLEAN]

\* owner, suspended: the robot's description.  adminOff and oldPw are
\* history: disabled by an administrator; password from before a suspension.
Robot ==
    [id: Nat, name: RobotNames,
     owner: HarborAccesses \cup {Foreign, Unclaimed}, suspended: BOOLEAN,
     disabled: BOOLEAN, perms: Grants \cup {Star}, pw: Nat,
     adminOff: BOOLEAN, oldPw: BOOLEAN]

Absent(v) ==
    [exists |-> FALSE, ver |-> v, sa |-> NoName, ok |-> FALSE, perms |-> Star,
     sel |-> FALSE, fin |-> FALSE, del |-> FALSE,
     observed |-> FALSE, rid |-> 0, ready |-> FALSE]

\* What a lookup or a listing tells about a robot: no password, no history.
Seen(r) == [r EXCEPT !.pw = 0, !.adminOff = FALSE, !.oldPw = FALSE]

NoSecret(v, u) ==
    [exists |-> FALSE, ver |-> v, uid |-> u, stamp |-> "none",
     user |-> NoName, rid |-> 0, pw |-> 0, due |-> FALSE]

NoRobot ==
    [id |-> 0, name |-> LegacyName, owner |-> Foreign, suspended |-> FALSE,
     disabled |-> FALSE, perms |-> Star, pw |-> 0,
     adminOff |-> FALSE, oldPw |-> FALSE]

(***************************************************************************)
(* Predicates of contract.go, config.go and reconciler.go.                 *)
(***************************************************************************)
Selects(a) == ~Selective \/ a.sel

\* Mutant: a serviceAccountRef without a robot name is not refused.
AcceptedAnyName(a) == a.ok

\* reconcileNormal steps 0-3: none of the refusals applies.
Accepted(a) == a.ok /\ a.sa # NoName

robotOwnedBy(r, h) == r.owner = h

Owned(h) == {r \in robots : robotOwnedBy(r, h)}

RobotSuspended(r) == r.suspended

canWriteBack(perms) == perms # Star

\* Mutant: only another owner's stamp is a conflict.
secretConflictStampOnly(s, name) == s.exists /\ s.stamp = "other"

\* The Secret at h's name belongs to someone else.
secretConflict(s, name) ==
    /\ s.exists
    /\ \/ s.stamp = "other"
       \/ s.stamp = "none" /\ (s.user = NoName \/ s.user # name)

secretDeleteConflict(s, name) ==
    secretConflict(s, name) \/ (s.exists /\ s.stamp = "peer")

\* Why the stored password must be replaced, as a truth value.
rotationReason(a, s, r) ==
    \/ ~s.exists
    \/ s.user # r.name
    \/ s.rid # 0 /\ s.rid # r.id
    \/ s.rid = 0 /\ a.rid # 0 /\ a.rid # r.id
    \/ s.due

\* Mutants: a robot of an unselected owner, and one of a missing owner, are
\* left alone.
robotVerdictUnselected(r, a) == ~a.exists \/ a.sa # r.name

robotVerdictNoOwner(r, a) == a.exists /\ (~Selects(a) \/ a.sa # r.name)

\* The janitor's verdict: robot r must go given its owner a.
robotVerdict(r, a) ==
    \/ ~a.exists
    \/ ~Selects(a)
    \/ a.sa # r.name

\* A Secret at a's name stamped for another HarborAccess is not at the name
\* that one uses.
secretVerdict(stamp, a) == stamp = "other" \/ ~a.exists \/ ~Selects(a)

(***************************************************************************)
(* API server and Harbor, as the code uses them (external).                *)
(***************************************************************************)
Bumped(a, h) == [a EXCEPT !.ver = ha[h].ver + 1]

\* Removing the last finalizer of an object being deleted removes it.
WithoutFinalizer(h) ==
    IF ha[h].del THEN Absent(ha[h].ver + 1)
    ELSE Bumped([ha[h] EXCEPT !.fin = FALSE], h)

\* A conditional write on copy a of h goes through.
Current(a, h) == ha[h].exists /\ a.ver = ha[h].ver

RobotIDs == {r.id : r \in robots}

\* Harbor's PUT /robots/{id}: replaces description, disable flag and grants.
PutRobot(id, owner, suspended, disabled, perms) ==
    robots' = {IF r.id = id
               THEN [r EXCEPT !.owner = owner, !.suspended = suspended,
                              !.disabled = disabled, !.perms = perms,
                              !.oldPw = @ \/ suspended]
               ELSE r : r \in robots}

\* The passwords of robot id are id, NewPassword(id) and so on.
NewPassword(pw) == pw + MaxRobots + 1

\* Harbor's PATCH /robots/{id}: a new password, everything else unchanged.
RefreshSec(id) ==
    robots' = {IF r.id = id THEN [r EXCEPT !.pw = NewPassword(@), !.oldPw = FALSE] ELSE r
               : r \in robots}

DeleteRobots(ids) == robots' = {r \in robots : r.id \notin ids}

DeleteSecret(h) ==
    secret' = [secret EXCEPT ![h] = NoSecret(secret[h].ver + 1, secret[h].uid)]

(***************************************************************************)
(* A fault uses up one unit of MaxFaults.                                  *)
(***************************************************************************)
Spend(kind, max) ==
    spent[kind] < max /\ spent' = [spent EXCEPT ![kind] = @ + 1]

Fault == Spend("faults", MaxFaults)
=============================================================================
