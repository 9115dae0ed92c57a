----------------------------- MODULE Reconciler -----------------------------
(***************************************************************************)
(* The Reconciler (bridge/controlplane/reconciler.go): one worker that     *)
(* drives one HarborAccess at a time to its spec.  A pass is a sequence of *)
(* calls to the API server and to Harbor; every call is one action, so     *)
(* users, administrators, the janitor and crashes come between any two.    *)
(* pc names the call the pass makes next.                                  *)
(***************************************************************************)
EXTENDS BridgeState

Pass ==
    [h: HarborAccesses \cup {NoKey}, ha: HarborAccess,
     sec: Secret,         \* the robot Secret as read
     rob: Robot \cup {NoRobot},
     created: BOOLEAN,    \* the robot was created on this pass
     pw: Nat,             \* new password to store, 0 = none
     tries: Nat,          \* attempts to store it
     todo: SUBSET Nat,    \* IDs of robots still to delete
     err: BOOLEAN,        \* suspendErr # nil
     free: BOOLEAN,       \* suspend: releasable
     out: BOOLEAN]        \* report Ready

NoPass ==
    [h |-> NoKey, ha |-> Absent(0), sec |-> NoSecret(0, 0), rob |-> NoRobot,
     created |-> FALSE, pw |-> 0, tries |-> 0, todo |-> {},
     err |-> FALSE, free |-> FALSE, out |-> FALSE]

NormalPCs == {"getSecret", "addFinalizer", "lookup", "create", "relookup",
              "dropSecret", "resumeRotate", "resumeEnable", "converge",
              "rotate", "putSecret", "reread", "listStale", "delStale"}
SuspendPCs == {"suspendLookup", "disable", "revoke"}
ReleasePCs == {"refuseStatus", "releaseList", "releasePatch"}
DeletePCs == {"delList", "delRobots", "delSecret", "delPatch"}
PCs == {"idle", "status", "fail", "refuse"}
           \cup NormalPCs \cup SuspendPCs \cup ReleasePCs \cup DeletePCs

Done == pc' = "idle" /\ pass' = NoPass

Goto(at, p) == pc' = at /\ pass' = p

\* The call at pc returned an error: suspend goes on to report it, the
\* calls listed second return it as they are, every other one reports it
\* first (markTransientError, blockDeletion).
Failed ==
    \/ pc \in SuspendPCs /\ Goto("refuseStatus", [pass EXCEPT !.err = TRUE])
    \/ /\ pc \in {"addFinalizer", "status", "fail", "delPatch"} \cup ReleasePCs
       /\ Done
    \/ /\ pc \in (NormalPCs \ {"addFinalizer"}) \cup (DeletePCs \ {"delPatch"})
       /\ Goto("fail", pass)

\* A write took effect; its answer arrives or is lost.
Answered(at, p) ==
    \/ Goto(at, p) /\ UNCHANGED spent
    \/ Failed /\ Fault

(***************************************************************************)
(* Reconcile reads the HarborAccess from the leader's cache and branches.  *)
(* A pass that finds it gone, not selected, or deleted without one of our  *)
(* finalizers does nothing.                                                *)
(***************************************************************************)
Reconcile(h) ==
    LET a == cache[leader][h] IN
    /\ pc = "idle"
    /\ a.exists /\ Selects(a) /\ (a.del => a.fin)
    /\ Goto(IF a.del THEN "delList" ELSE IF Accepted(a) THEN "getSecret" ELSE "refuse",
            [NoPass EXCEPT !.h = h, !.ha = a])
    /\ UNCHANGED <<apiVars, harborVars, cache, leader, sweepVars, spent>>

(***************************************************************************)
(* reconcileNormal, steps 5-10.                                            *)
(***************************************************************************)
getRobotSecret ==
    LET s == secret[pass.h] IN
    /\ pc = "getSecret"
    /\ Goto(IF secretConflict(s, pass.ha.sa) THEN "status"
            ELSE IF pass.ha.fin THEN "lookup" ELSE "addFinalizer",
            [pass EXCEPT !.sec = s])
    /\ UNCHANGED <<apiVars, harborVars, cache, leader, sweepVars, spent>>

ensureFinalizer ==
    LET h == pass.h
        a == Bumped([pass.ha EXCEPT !.fin = TRUE], h) IN
    /\ pc = "addFinalizer"
    /\ \/ /\ Current(pass.ha, h)
          /\ ha' = [ha EXCEPT ![h] = a]
          /\ Answered("lookup", [pass EXCEPT !.ha = a])
       \/ ~Current(pass.ha, h) /\ Failed /\ UNCHANGED <<ha, spent>>
    /\ UNCHANGED <<secret, harborVars, cache, leader, sweepVars>>

\* Mutant: permissions are not compared.
DriftOwnerOnly(p, r) == r.owner # p.h \/ r.suspended

\* The robot differs from the spec (step 7).
Drift(p, r) == r.perms # p.ha.perms \/ r.owner # p.h \/ r.suspended

AfterConverge(p, r) ==
    IF rotationReason(p.ha, p.sec, r) THEN "rotate" ELSE "putSecret"

\* Mutants: resume keeps the Secret; resume keeps the password.
AfterLookupKeepSecret(p, r) ==
    IF r.disabled /\ RobotSuspended(r) THEN "resumeRotate"
    ELSE IF Drift(p, r) THEN "converge" ELSE AfterConverge(p, r)

AfterLookupEnableFirst(p, r) ==
    IF r.disabled /\ RobotSuspended(r) THEN "resumeEnable"
    ELSE IF Drift(p, r) THEN "converge" ELSE AfterConverge(p, r)

AfterLookup(p, r) ==
    IF r.disabled /\ RobotSuspended(r)
    THEN IF p.sec.exists THEN "dropSecret" ELSE "resumeRotate"
    ELSE IF Drift(p, r) THEN "converge" ELSE AfterConverge(p, r)

\* Mutant: any robot of this cluster is adopted.
lookupRobotAnyOwner ==
    LET found == {r \in robots : r.name = pass.ha.sa} IN
    /\ pc \in {"lookup", "relookup"}
    /\ \/ found = {} /\ pc = "lookup" /\ Goto("create", pass)
       \/ found = {} /\ pc = "relookup" /\ Failed
       \/ \E r \in found :
             IF r.owner # Foreign
             THEN Goto(AfterLookup(pass, r), [pass EXCEPT !.rob = Seen(r)])
             ELSE Goto("status", pass)
    /\ UNCHANGED <<apiVars, harborVars, cache, leader, sweepVars, spent>>

\* ensureRobot: look the robot up; adopt it unless it belongs to another
\* cluster or names another HarborAccess.
lookupRobot ==
    LET found == {r \in robots : r.name = pass.ha.sa} IN
    /\ pc \in {"lookup", "relookup"}
    /\ \/ found = {} /\ pc = "lookup" /\ Goto("create", pass)
       \/ found = {} /\ pc = "relookup" /\ Failed
       \/ \E r \in found :
             IF r.owner \in {pass.h, Unclaimed}
             THEN Goto(AfterLookup(pass, r), [pass EXCEPT !.rob = Seen(r)])
             ELSE Goto("status", pass)
    /\ UNCHANGED <<apiVars, harborVars, cache, leader, sweepVars, spent>>

\* ensureRobot: create it; a 409 leads to a second lookup.
createRobot ==
    LET new == [id |-> nextID, name |-> pass.ha.sa, owner |-> pass.h,
                suspended |-> FALSE, disabled |-> FALSE,
                perms |-> pass.ha.perms, pw |-> nextID,
                adminOff |-> FALSE, oldPw |-> FALSE]
    IN
    /\ pc = "create"
    /\ \/ /\ \E r \in robots : r.name = pass.ha.sa
          /\ Goto("relookup", pass)
          /\ UNCHANGED <<harborVars, spent>>
       \/ /\ \A r \in robots : r.name # pass.ha.sa
          /\ nextID <= MaxRobots
          /\ robots' = robots \cup {new}
          /\ nextID' = nextID + 1
          /\ Answered("putSecret", [pass EXCEPT !.rob = Seen(new), !.created = TRUE, !.pw = nextID])
    /\ UNCHANGED <<apiVars, cache, leader, sweepVars>>

\* Step 6b: the Secret of a suspended robot goes before the robot resumes.
dropSecret ==
    LET h == pass.h
        gone == [pass EXCEPT !.sec.exists = FALSE] IN
    /\ pc = "dropSecret"
    /\ \/ /\ ~secret[h].exists
          /\ Goto("resumeRotate", gone) /\ UNCHANGED <<secret, spent>>
       \/ /\ secret[h].exists /\ secret[h].uid = pass.sec.uid
          /\ DeleteSecret(h) /\ Answered("resumeRotate", gone)
       \/ /\ secret[h].exists /\ secret[h].uid # pass.sec.uid
          /\ Failed /\ UNCHANGED <<secret, spent>>
    /\ UNCHANGED <<ha, harborVars, cache, leader, sweepVars>>

\* RefreshSecret, for a resume (step 6b) and for a rotation (step 8).
RotateRobot(from, to) ==
    /\ pc = from
    /\ \/ \E r \in robots :
             /\ r.id = pass.rob.id
             /\ RefreshSec(r.id)
             /\ Answered(to, [pass EXCEPT !.pw = NewPassword(r.pw)])
       \/ pass.rob.id \notin RobotIDs /\ Failed /\ UNCHANGED <<robots, spent>>
    /\ UNCHANGED <<apiVars, nextID, cache, leader, sweepVars>>

resumeRotate == RotateRobot("resumeRotate", "resumeEnable")

rotate == RotateRobot("rotate", "putSecret")

\* Harbor's Update of the pass's robot; it carries the disable flag dis.
UpdateRobot(suspended, dis, perms, to, p) ==
    /\ \/ /\ pass.rob.id \in RobotIDs
          /\ PutRobot(pass.rob.id, pass.h, suspended, dis, perms)
          /\ Answered(to, p)
       \/ pass.rob.id \notin RobotIDs /\ Failed /\ UNCHANGED <<robots, spent>>
    /\ UNCHANGED <<apiVars, nextID, cache, leader, sweepVars>>

resumeEnable ==
    /\ pc = "resumeEnable"
    /\ UpdateRobot(FALSE, FALSE, pass.ha.perms, "putSecret",
                   [pass EXCEPT !.rob.disabled = FALSE, !.rob.suspended = FALSE])

converge ==
    /\ pc = "converge"
    /\ UpdateRobot(FALSE, pass.rob.disabled, pass.ha.perms,
                   AfterConverge(pass, pass.rob), pass)

\* Step 9 lists Harbor only when something changed.
AfterSecret(p) ==
    IF \/ p.created \/ ~p.ha.observed
       \/ p.ha.rid # 0 /\ p.ha.rid # p.rob.id
    THEN "listStale" ELSE "status"

\* What putRobotSecret makes of the Secret the pass read.
WithCredentials(p) ==
    [p.sec EXCEPT !.stamp = "this", !.rid = p.rob.id,
                  !.user = IF p.pw # 0 THEN p.rob.name ELSE @,
                  !.pw = IF p.pw # 0 THEN p.pw ELSE @,
                  !.due = IF p.pw # 0 THEN FALSE ELSE @]

\* writeRobotSecret, one attempt of putRobotSecret: create the Secret, or
\* update it if it is still the version the pass read.  Only a new password
\* is worth another attempt on the current version.
putRobotSecret ==
    LET h == pass.h
        new == WithCredentials(pass)
        done == [pass EXCEPT !.out = ~pass.rob.disabled]
        unchanged == pass.pw = 0 /\ new = pass.sec
        fits == IF pass.sec.exists
                THEN secret[h].exists /\ secret[h].ver = pass.sec.ver
                ELSE ~secret[h].exists
    IN
    /\ pc = "putSecret"
    /\ \/ unchanged /\ Goto(AfterSecret(pass), done) /\ UNCHANGED <<secret, spent>>
       \/ /\ ~unchanged /\ fits
          /\ secret' = [secret EXCEPT ![h] =
                [new EXCEPT !.exists = TRUE, !.ver = secret[h].ver + 1,
                            !.uid = IF secret[h].exists THEN @ ELSE secret[h].uid + 1]]
          /\ Answered(AfterSecret(pass), done)
       \/ ~unchanged /\ ~fits /\ pass.pw = 0 /\ Failed /\ UNCHANGED <<secret, spent>>
       \/ /\ ~unchanged /\ ~fits /\ pass.pw # 0
          /\ Goto("reread", [pass EXCEPT !.tries = @ + 1])
          /\ UNCHANGED <<secret, spent>>
    /\ UNCHANGED <<ha, harborVars, cache, leader, sweepVars>>

\* The attempt lost a race: read the Secret again and check it is still ours.
rereadSecret ==
    LET s == secret[pass.h] IN
    /\ pc = "reread"
    /\ IF secretConflict(s, pass.rob.name) \/ pass.tries = RetrySteps
       THEN Failed
       ELSE Goto("putSecret", [pass EXCEPT !.sec = s])
    /\ UNCHANGED <<apiVars, harborVars, cache, leader, sweepVars, spent>>

\* List Harbor and delete the robots to go, one call each.
ListRobots(from, keep, each, after) ==
    LET gone == {r.id : r \in Owned(pass.h)} \ keep IN
    /\ pc = from
    /\ Goto(IF gone = {} THEN after ELSE each, [pass EXCEPT !.todo = gone])
    /\ UNCHANGED <<apiVars, harborVars, cache, leader, sweepVars, spent>>

DeleteListed(from, after) ==
    /\ pc = from
    /\ \E id \in pass.todo :
          LET rest == pass.todo \ {id} IN
          /\ DeleteRobots({id})
          /\ Answered(IF rest = {} THEN after ELSE from, [pass EXCEPT !.todo = rest])
    /\ UNCHANGED <<apiVars, nextID, cache, leader, sweepVars>>

listStaleRobots ==
    ListRobots("listStale", {pass.rob.id}, "delStale", "status")

deleteStaleRobots == DeleteListed("delStale", "status")

\* Status().Update: the new status lands if the pass still holds the
\* current version; writing back an equal object changes nothing.
StatusAs(ready) ==
    IF ready THEN [pass.ha EXCEPT !.rid = pass.rob.id, !.observed = TRUE, !.ready = TRUE]
    ELSE [pass.ha EXCEPT !.ready = FALSE]

Written(a) == IF a = pass.ha THEN a ELSE Bumped(a, pass.h)

UpdateStatus(ready) ==
    ha' = IF Current(pass.ha, pass.h)
          THEN [ha EXCEPT ![pass.h] = Written(StatusAs(ready))] ELSE ha

\* markReady, markNotReadyWithRequeue; markTransientError, blockDeletion.
markStatus ==
    /\ pc \in {"status", "fail"}
    /\ UpdateStatus(pc = "status" /\ pass.out)
    /\ Done
    /\ UNCHANGED <<secret, harborVars, cache, leader, sweepVars, spent>>

(***************************************************************************)
(* refuse: suspend what the HarborAccess owns, report, release.            *)
(***************************************************************************)
AfterOwnSecret(p) == IF p.ha.fin THEN "suspendLookup" ELSE "refuseStatus"

\* deleteOwnRobotSecret reads the Secret and deletes what it read (UID
\* precondition), which together act as one step or fail.
DeleteOwnSecret ==
    LET s == secret[pass.h] IN
    IF s.exists /\ ~secretDeleteConflict(s, pass.ha.sa)
    THEN DeleteSecret(pass.h) ELSE UNCHANGED secret

\* suspend, first half: whatever becomes of the Secret, Harbor is next.
refuseSecret ==
    LET at == AfterOwnSecret(pass)
        failed == [pass EXCEPT !.err = TRUE] IN
    /\ pc = "refuse"
    /\ \/ DeleteOwnSecret /\ Goto(at, pass) /\ UNCHANGED spent
       \/ DeleteOwnSecret /\ Goto(at, failed) /\ Fault
       \/ UNCHANGED secret /\ Goto(at, failed) /\ Fault
    /\ UNCHANGED <<ha, harborVars, cache, leader, sweepVars>>

\* suspendRobot: find the robot and decide.
suspendLookup ==
    LET found == {r \in robots : r.name = pass.ha.sa /\ robotOwnedBy(r, pass.h)}
        none == [pass EXCEPT !.free = ~pass.err] IN
    /\ pc = "suspendLookup"
    /\ \/ found = {} /\ Goto("refuseStatus", none)
       \/ \E r \in found :
             Goto(IF r.disabled THEN "refuseStatus"
                  ELSE IF canWriteBack(r.perms) THEN "disable" ELSE "revoke",
                  [pass EXCEPT !.rob = Seen(r)])
    /\ UNCHANGED <<apiVars, harborVars, cache, leader, sweepVars, spent>>

disableRobot ==
    /\ pc = "disable"
    /\ UpdateRobot(TRUE, TRUE, pass.rob.perms, "refuseStatus", pass)

revokeRobot ==
    /\ pc = "revoke"
    /\ DeleteRobots({pass.rob.id})
    /\ Answered("refuseStatus", [pass EXCEPT !.free = ~pass.err])
    /\ UNCHANGED <<apiVars, nextID, cache, leader, sweepVars>>

refuseStatus ==
    /\ pc = "refuseStatus"
    /\ UpdateStatus(FALSE)
    /\ IF Current(pass.ha, pass.h) /\ ~pass.err /\ pass.free
       THEN Goto("releaseList", [pass EXCEPT !.ha = Written(StatusAs(FALSE))])
       ELSE Done
    /\ UNCHANGED <<secret, harborVars, cache, leader, sweepVars, spent>>

\* releaseRefused: the finalizer goes once Harbor holds no robot of h.
releaseList ==
    /\ pc = "releaseList"
    /\ IF Owned(pass.h) = {} THEN Goto("releasePatch", pass) ELSE Done
    /\ UNCHANGED <<apiVars, harborVars, cache, leader, sweepVars, spent>>

\* Mutant: a patch without the optimistic lock.
RemoveFinalizerUnlocked(from) ==
    /\ pc = from
    /\ ha' = IF ha[pass.h].exists
             THEN [ha EXCEPT ![pass.h] = WithoutFinalizer(pass.h)] ELSE ha
    /\ Done
    /\ UNCHANGED <<secret, harborVars, cache, leader, sweepVars, spent>>

RemoveFinalizer(from) ==
    /\ pc = from
    /\ ha' = IF Current(pass.ha, pass.h)
             THEN [ha EXCEPT ![pass.h] = WithoutFinalizer(pass.h)] ELSE ha
    /\ Done
    /\ UNCHANGED <<secret, harborVars, cache, leader, sweepVars, spent>>

releasePatch == RemoveFinalizer("releasePatch")

(***************************************************************************)
(* reconcileDelete: robots, Secret, finalizer, in this order.              *)
(***************************************************************************)
deleteList == ListRobots("delList", {}, "delRobots", "delSecret")

deleteRobots == DeleteListed("delRobots", "delSecret")

deleteSecret ==
    /\ pc = "delSecret"
    /\ DeleteOwnSecret
    /\ Answered("delPatch", pass)
    /\ UNCHANGED <<ha, harborVars, cache, leader, sweepVars>>

deletePatch == RemoveFinalizer("delPatch")

(***************************************************************************)
(* The call the pass makes next fails without an effect.                   *)
(***************************************************************************)
CallFails ==
    /\ Failed /\ Fault
    /\ UNCHANGED <<apiVars, harborVars, cache, leader, sweepVars>>

PassStep ==
    \/ getRobotSecret \/ ensureFinalizer \/ lookupRobot \/ createRobot
    \/ dropSecret \/ resumeRotate \/ resumeEnable \/ converge \/ rotate
    \/ putRobotSecret \/ rereadSecret \/ listStaleRobots \/ deleteStaleRobots
    \/ markStatus
    \/ refuseSecret \/ suspendLookup \/ disableRobot \/ revokeRobot
    \/ refuseStatus \/ releaseList \/ releasePatch
    \/ deleteList \/ deleteRobots \/ deleteSecret \/ deletePatch
=============================================================================
