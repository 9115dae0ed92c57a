-------------------------- MODULE FinalizerProofs ---------------------------
(***************************************************************************)
(* FinalizerInv is inductive where the instance is Undisturbed, hence no   *)
(* robot of a HarborAccess ever exists without the finalizer that revokes  *)
(* it.  Steps fall into four kinds: steps of the pass that leave the       *)
(* objects alone (Moves), writes of an object that keep it covered,        *)
(* changes of robots that keep their owners (OwnersKept), and the few that *)
(* set or remove a finalizer.                                              *)
(***************************************************************************)
EXTENDS RobotLifecycleProofs

\* at is a place a pass may go on to, over the copy it holds.
Onward(at) ==
    /\ at \in NormalPCs => pc \in NormalPCs
    /\ at \in RefusePCs => pc \in RefusePCs
    /\ at \in DeletePCs => pc \in DeletePCs
    /\ at \in ProvisionPCs => pc \in ProvisionPCs \/ (pc = "getSecret" /\ pass.ha.fin)
    /\ at # "getSecret"

Moves ==
    \/ pc' = "idle"
    \/ pc # "idle" /\ pass'.h = pass.h /\ pass'.ha = pass.ha /\ Onward(pc')

\* Where PassRobots says nothing.
Plain(at) == at \notin {"disable", "delRobots", "releasePatch", "delSecret", "delPatch"}

OwnersKept ==
    \A r \in robots' :
        \/ \E s \in robots : s.id = r.id /\ s.owner = r.owner
        \/ r.id >= nextID /\ r.owner \notin HarborAccesses

LEMMA Compare ==
    /\ \A n \in Nat : n <= n /\ n >= n
    /\ \A n \in Nat : n + 1 >= n
  OBVIOUS

LEMMA PCFacts ==
    /\ \A at \in {"refuseStatus", "fail", "idle"} : Plain(at)
    /\ SuspendPCs \subseteq RefusePCs /\ "refuseStatus" \in RefusePCs
    /\ "refuseStatus" \notin NormalPCs \cup DeletePCs \cup ProvisionPCs
    /\ "fail" \notin NormalPCs \cup DeletePCs \cup ProvisionPCs \cup RefusePCs
    /\ "status" \notin NormalPCs \cup DeletePCs \cup ProvisionPCs \cup RefusePCs
    /\ "idle" \notin NormalPCs \cup DeletePCs \cup ProvisionPCs \cup RefusePCs
    /\ NormalPCs \cap (RefusePCs \cup DeletePCs) = {} /\ RefusePCs \cap DeletePCs = {}
    /\ ProvisionPCs \subseteq NormalPCs /\ "getSecret" \notin RefusePCs \cup DeletePCs
  BY Zenon DEF Plain, RefusePCs, SuspendPCs, ReleasePCs, NormalPCs, DeletePCs, ProvisionPCs

LEMMA FailedMoves ==
    ASSUME PassOK, Failed
    PROVE  Moves /\ Plain(pc')
  <1>1. CASE pc \in SuspendPCs /\ Goto("refuseStatus", [pass EXCEPT !.err = TRUE])
    <2>1. Like(pass', pass) /\ pc' = "refuseStatus"
      BY Zenon, <1>1, PassFlags DEF PassOK, Goto
    <2> QED BY Zenon, <1>1, <2>1, PCFacts DEF Moves, Onward, Like, SuspendPCs
  <1>2. CASE Done
    BY Zenon, <1>2, PCFacts DEF Done, Moves
  <1>3. CASE /\ pc \in (NormalPCs \ {"addFinalizer"}) \cup (DeletePCs \ {"delPatch"})
             /\ Goto("fail", pass)
    BY Zenon, <1>3, PCFacts DEF Goto, Moves, Onward
  <1> QED BY Zenon, <1>1, <1>2, <1>3 DEF Failed

LEMMA AnsweredMoves ==
    ASSUME PassOK, pc # "idle", NEW at, NEW p, Like(p, pass), Onward(at), Answered(at, p)
    PROVE  Moves /\ (Plain(pc') \/ (pc' = at /\ pass' = p))
  <1>1. CASE Goto(at, p)
    BY Zenon, <1>1 DEF Goto, Moves, Like
  <1>2. CASE Failed
    BY Zenon, <1>2, FailedMoves
  <1> QED BY Zenon, <1>1, <1>2 DEF Answered

\* A step of the pass that leaves objects and caches alone.
LEMMA MoveKeeps ==
    ASSUME FinalizerInv, TypeInv', Moves, UNCHANGED <<ha, cache, leader, spc>>,
           FinalizerCoversRobot', PassRobots'
    PROVE  FinalizerInv'
  <1>1. CachesAsOf' /\ CacheCovered' /\ (spc \notin {"relist", "release"})'
    BY Zenon DEF FinalizerInv, CachesAsOf, CacheCovered, AsOf, Covered
  <1>2. CASE pc' = "idle"
    BY Zenon, <1>1, <1>2, PCFacts
       DEF FinalizerInv, TypeInv, PassCopy, PassCovered, PassWithdraws
  <1>3. CASE pc # "idle" /\ pass'.h = pass.h /\ pass'.ha = pass.ha /\ Onward(pc')
    <2>1. PassCopy'
      BY Zenon, <1>3 DEF FinalizerInv, PassCopy, Onward, AsOf
    <2>2. PassCovered'
      BY Zenon, <1>3 DEF FinalizerInv, PassCovered, Onward, Covered
    <2>3. PassWithdraws'
      BY Zenon, <1>3 DEF FinalizerInv, PassWithdraws, Onward, Current
    <2> QED BY Zenon, <1>1, <2>1, <2>2, <2>3 DEF FinalizerInv, TypeInv
  <1> QED BY Zenon, <1>2, <1>3 DEF Moves

LEMMA PlainRobots == Plain(pc') => PassRobots'
  BY Zenon DEF Plain, PassRobots

\* A write of object h makes every copy of it old.
LEMMA WriteAges ==
    ASSUME APIOK, CacheOK, NEW h \in HarborAccesses, NEW x \in HarborAccess,
           x.ver = ha[h].ver + 1, ha' = [ha EXCEPT ![h] = x]
    PROVE  /\ \A y \in HarborAccess, k \in HarborAccesses : AsOf(y, k) => AsOf(y, k)'
           /\ \A y \in HarborAccess, k \in HarborAccesses :
                 AsOf(y, k) /\ Current(y, k)' => k # h /\ Current(y, k)
           /\ CachesAsOf /\ UNCHANGED cache => CachesAsOf'
  <1>1. ha[h].ver \in Nat /\ \A y \in HarborAccess : y.ver \in Nat
    BY Zenon DEF APIOK, HarborAccess
  <1>2. ASSUME NEW y \in HarborAccess, NEW k \in HarborAccesses, AsOf(y, k)
        PROVE  AsOf(y, k)' /\ (Current(y, k)' => k # h /\ Current(y, k))
    <2>1. CASE k = h
      <3>1. ha'[k] = x /\ y.ver < x.ver
        BY <1>1, <1>2, <2>1 DEF APIOK, AsOf
      <3> QED BY <1>1, <3>1 DEF AsOf, Current
    <2>2. CASE k # h
      BY Zenon, <1>2, <2>2 DEF APIOK, AsOf, Current
    <2> QED BY Zenon, <2>1, <2>2
  <1>3. ASSUME CachesAsOf, UNCHANGED cache
        PROVE  CachesAsOf'
    <2> SUFFICES ASSUME NEW r \in Replicas, NEW k \in HarborAccesses
                 PROVE  AsOf(cache[r][k], k)'
      BY Zenon DEF CachesAsOf
    <2>1. cache[r][k] \in HarborAccess /\ AsOf(cache[r][k], k)
      BY Zenon, <1>3 DEF CacheOK, CachesAsOf
    <2>2. \A y \in HarborAccess : AsOf(y, k) => AsOf(y, k)'
      BY Zenon, <1>2
    <2> QED BY Zenon, <1>3, <2>1, <2>2 DEF AsOf
  <1> QED BY Zenon, <1>2, <1>3

\* A write by a user, who never takes a finalizer away.
LEMMA UserWriteKeeps ==
    ASSUME FinalizerInv, TypeInv, TypeInv', NEW h \in HarborAccesses,
           NEW x \in HarborAccess,
           x.ver = ha[h].ver + 1, ha' = [ha EXCEPT ![h] = x],
           Covered(h) => x.exists /\ x.fin, UNCHANGED UserVars
    PROVE  FinalizerInv'
  <1>1. APIOK /\ CacheOK /\ PassOK
    BY Zenon, Split
  <1>2. CachesAsOf'
    BY Zenon, <1>1, WriteAges DEF FinalizerInv, UserVars
  <1>3. \A k \in HarborAccesses : Covered(k) => Covered(k)'
    BY Zenon, <1>1 DEF APIOK, Covered
  <1>4. CacheCovered' /\ FinalizerCoversRobot' /\ (spc \notin {"relist", "release"})'
    BY Zenon, <1>3 DEF FinalizerInv, CacheCovered, FinalizerCoversRobot, Covered, UserVars,
                harborVars, sweepVars
  <1>5. PassRobots'
    BY Zenon DEF FinalizerInv, PassRobots, Owned, robotOwnedBy, UserVars, harborVars, passVars
  <1>6. CASE pc = "idle"
    BY Zenon, <1>2, <1>4, <1>5, <1>6, PCFacts
       DEF FinalizerInv, TypeInv, PassCopy, PassCovered, PassWithdraws, UserVars, passVars
  <1>7. CASE pc # "idle"
    <2>1. pass.h \in HarborAccesses /\ pass.ha \in HarborAccess /\ AsOf(pass.ha, pass.h)
      BY Zenon, <1>1, <1>7 DEF FinalizerInv, PassCopy, PassOK, Pass
    <2>2. /\ AsOf(pass.ha, pass.h)'
          /\ Current(pass.ha, pass.h)' => Current(pass.ha, pass.h)
      <3>1. \A y \in HarborAccess, k \in HarborAccesses : AsOf(y, k) =>
               AsOf(y, k)' /\ (Current(y, k)' => Current(y, k))
        BY Zenon, <1>1, WriteAges
      <3> QED BY <2>1, <3>1 DEF AsOf, Current, UserVars, passVars
    <2>3. PassCopy'
      BY Zenon, <1>7, <2>1, <2>2 DEF FinalizerInv, PassCopy, UserVars, passVars
    <2>4. PassCovered'
      BY Zenon, <1>3, <2>1 DEF FinalizerInv, PassCovered, Covered, UserVars, passVars
    <2>5. PassWithdraws'
      BY Zenon, <2>2 DEF FinalizerInv, PassWithdraws, UserVars, passVars
    <2> QED BY Zenon, <1>2, <1>4, <1>5, <2>3, <2>4, <2>5 DEF FinalizerInv, TypeInv
  <1> QED BY Zenon, <1>6, <1>7

LEMMA OwnersKeptCovers ==
    ASSUME FinalizerInv, OwnersKept, UNCHANGED ha
    PROVE  FinalizerCoversRobot'
  BY Zenon DEF FinalizerInv, FinalizerCoversRobot, OwnersKept

\* Robots change behind the back of the pass.
LEMMA RobotStepKeeps ==
    ASSUME FinalizerInv, TypeInv, TypeInv', OwnersKept, nextID' >= nextID,
           UNCHANGED <<ha, cache, leader, passVars>>,
           spc' \notin {"relist", "release"}
    PROVE  FinalizerInv'
  <1>1. FinalizerCoversRobot'
    BY Zenon, OwnersKeptCovers
  <1>2. PassRobots'
    <2>1. ASSUME pc = "disable"
          PROVE  /\ pass.rob.id < nextID'
                 /\ \A r \in robots' : r.id = pass.rob.id => r.owner = pass.h
      <3>1. pass.rob.id \in Nat /\ nextID \in Nat /\ nextID' \in Nat /\ robots' \subseteq Robot
        <4>1. pass.rob.id \in Nat /\ nextID \in Nat
          BY Zenon, Split, Defaults DEF PassOK, Pass, Robot, HarborOK
        <4> QED BY Zenon, <4>1 DEF TypeInv, TypeOK
      <3>2. pass.rob.id < nextID /\ \A r \in robots : r.id = pass.rob.id => r.owner = pass.h
        BY Zenon, <2>1 DEF FinalizerInv, PassRobots
      <3> QED BY <3>1, <3>2 DEF OwnersKept
    <2>2. ASSUME pc = "delRobots" PROVE \A r \in Owned(pass.h)' : r.id \in pass.todo
      <3>1. pass.h \in HarborAccesses
        BY Zenon, <2>2, Split DEF PassOK, PassNamed
      <3> QED BY Zenon, <2>2, <3>1 DEF FinalizerInv, PassRobots, OwnersKept, Owned, robotOwnedBy, passVars
    <2>3. ASSUME pc \in {"releasePatch", "delSecret", "delPatch"} PROVE Owned(pass.h)' = {}
      <3>1. pass.h \in HarborAccesses
        BY Zenon, <2>3, Split DEF PassOK, PassNamed
      <3> QED BY Zenon, <2>3, <3>1 DEF FinalizerInv, PassRobots, OwnersKept, Owned, robotOwnedBy, passVars
    <2> QED BY Zenon, <2>1, <2>2, <2>3 DEF PassRobots, passVars, Owned, robotOwnedBy
  <1>3. CachesAsOf' /\ CacheCovered'
    BY Zenon DEF FinalizerInv, CachesAsOf, CacheCovered, AsOf, Covered
  <1>4. PassCopy' /\ PassCovered' /\ PassWithdraws'
    BY Zenon DEF FinalizerInv, PassCopy, PassCovered, PassWithdraws, passVars, AsOf, Covered, Current
  <1> QED BY Zenon, <1>1, <1>2, <1>3, <1>4 DEF FinalizerInv, TypeInv

(***************************************************************************)
(* What the calls to Harbor do to owners.                                  *)
(***************************************************************************)
LEMMA SameRobotsKept == UNCHANGED robots => OwnersKept
  BY Zenon DEF OwnersKept

LEMMA DeleteKept == \A ids : DeleteRobots(ids) => OwnersKept
  BY Zenon DEF DeleteRobots, OwnersKept

LEMMA RefreshKept ==
    ASSUME HarborOK, NEW id, RefreshSec(id)
    PROVE  OwnersKept
  <1> DEFINE New(r) == IF r.id = id THEN [r EXCEPT !.pw = NewPassword(@), !.oldPw = FALSE] ELSE r
  <1>1. ASSUME NEW r \in robots PROVE New(r).id = r.id /\ New(r).owner = r.owner
    <2>1. r \in Robot
      BY Zenon DEF HarborOK
    <2> QED BY <2>1, Zenon DEF Robot
  <1>2. robots' = {New(r) : r \in robots}
    BY Zenon DEF RefreshSec
  <1> HIDE DEF New
  <1> QED BY Zenon, <1>1, <1>2 DEF OwnersKept

\* An Update gives the robot to h and leaves the others alone.
LEMMA PutOwners ==
    ASSUME HarborOK, NEW id, NEW h, NEW suspended, NEW dis, NEW perms,
           PutRobot(id, h, suspended, dis, perms)
    PROVE  \A r \in robots' : \E s \in robots :
              s.id = r.id /\ (IF s.id = id THEN r.owner = h ELSE r = s)
  <1> DEFINE Put(r) == IF r.id = id
                       THEN [r EXCEPT !.owner = h, !.suspended = suspended,
                                      !.disabled = dis, !.perms = perms,
                                      !.oldPw = @ \/ suspended]
                       ELSE r
  <1>1. ASSUME NEW r \in robots
        PROVE  Put(r).id = r.id /\ (IF r.id = id THEN Put(r).owner = h ELSE Put(r) = r)
    <2>1. r \in Robot
      BY Zenon DEF HarborOK
    <2>2. ASSUME NEW w
          PROVE  LET q == [r EXCEPT !.owner = h, !.suspended = suspended,
                                    !.disabled = dis, !.perms = perms, !.oldPw = w]
                 IN  q.id = r.id /\ q.owner = h
      BY <2>1, Zenon DEF Robot
    <2> QED BY <2>2, Zenon
  <1>2. robots' = {Put(r) : r \in robots}
    BY Zenon DEF PutRobot
  <1> HIDE DEF Put
  <1> QED BY ZenonT(30), <1>1, <1>2

(***************************************************************************)
(* Steps of the pass.                                                      *)
(***************************************************************************)
LEMMA ReconcileKeeps ==
    ASSUME FinalizerInv, TypeInv, TypeInv', ~Selective, NEW h \in HarborAccesses, Reconcile(h)
    PROVE  FinalizerInv'
  <1> DEFINE a == cache[leader][h]
             at == IF a.del THEN "delList" ELSE IF Accepted(a) THEN "getSecret" ELSE "refuse"
  <1>1. pass' = [NoPass EXCEPT !.h = h, !.ha = a] /\ pc' = at
    BY Zenon DEF Reconcile, Goto
  <1>2. pass'.h = h /\ pass'.ha = a
    BY <1>1, NoPassType, Zenon DEF Pass
  <1>3. /\ AsOf(a, h) /\ a.exists
        /\ UNCHANGED <<ha, cache, leader, robots, nextID, spc>>
    BY Zenon, Split DEF FinalizerInv, CachesAsOf, CacheOK, Reconcile, apiVars, harborVars, sweepVars
  <1>4. /\ pc' \in NormalPCs => Accepted(a)
        /\ pc' \in RefusePCs => ~Accepted(a)
        /\ pc' \in DeletePCs => a.del
        /\ pc' \notin ProvisionPCs /\ Plain(pc')
        /\ pc' = "getSecret" => ~a.del /\ Accepted(a)
    BY Zenon, <1>1 DEF NormalPCs, RefusePCs, SuspendPCs, ReleasePCs, DeletePCs, ProvisionPCs, Plain
  <1> HIDE DEF a, at
  <1>5. PassCopy'
    BY Zenon, <1>2, <1>3, <1>4 DEF PassCopy, AsOf
  <1>6. PassCovered'
    BY Zenon, <1>2, <1>3, <1>4 DEF PassCovered, FinalizerInv, CacheCovered, Serving, Covered, a
  <1>7. PassWithdraws'
    BY Zenon, <1>2, <1>3, <1>4 DEF PassWithdraws, Serving, a
  <1>8. PassRobots'
    BY Zenon, <1>4, PlainRobots
  <1> QED BY Zenon, <1>3, <1>5, <1>6, <1>7, <1>8
          DEF FinalizerInv, TypeInv, FinalizerCoversRobot, CachesAsOf, CacheCovered,
              AsOf, Covered

\* Calls after which nothing is known about robots, and that keep owners.
LEMMA PlainMoveKeeps ==
    ASSUME FinalizerInv, TypeInv', Moves, Plain(pc'), OwnersKept,
           UNCHANGED <<ha, cache, leader, sweepVars>>
    PROVE  FinalizerInv'
  BY Zenon, MoveKeeps, PlainRobots, OwnersKeptCovers DEF sweepVars

LEMMA LikeUpdates ==
    ASSUME PassOK
    PROVE  /\ Like(pass, pass)
           /\ \A x \in Secret : Like([pass EXCEPT !.sec = x], pass)
           /\ \A x \in Robot : Like([pass EXCEPT !.rob = Seen(x)], pass)
           /\ \A x \in Nat : Like([pass EXCEPT !.pw = x], pass)
           /\ Like([pass EXCEPT !.tries = @ + 1], pass)
  BY Zenon, PassUpdates, SeenType DEF PassOK

LEMMA GotoMoves ==
    ASSUME pc # "idle", NEW at, NEW p, Like(p, pass), Onward(at), Goto(at, p)
    PROVE  Moves /\ pc' = at
  BY Zenon DEF Goto, Moves, Like

LEMMA getRobotSecretKeeps ==
    ASSUME FinalizerInv, TypeInv, TypeInv', getRobotSecret
    PROVE  FinalizerInv'
  <1> DEFINE at == IF secretConflict(secret[pass.h], pass.ha.sa) THEN "status"
                   ELSE IF pass.ha.fin THEN "lookup" ELSE "addFinalizer"
             p == [pass EXCEPT !.sec = secret[pass.h]]
  <1>1. Like(p, pass)
    BY Zenon, Split, LikeUpdates DEF getRobotSecret, APIOK, PassOK, PassNamed
  <1>2. Onward(at) /\ Plain(at)
    BY Zenon DEF getRobotSecret, Onward, Plain, NormalPCs, RefusePCs, SuspendPCs, ReleasePCs,
           DeletePCs, ProvisionPCs
  <1>3. Goto(at, p) /\ pc # "idle"
    BY Zenon DEF getRobotSecret
  <1> HIDE DEF at, p
  <1>4. Moves /\ Plain(pc')
    BY Zenon, <1>1, <1>2, <1>3, GotoMoves
  <1> QED BY Zenon, <1>4, PlainMoveKeeps, SameRobotsKept DEF getRobotSecret, apiVars, harborVars

LEMMA lookupRobotKeeps ==
    ASSUME FinalizerInv, TypeInv, TypeInv', lookupRobot
    PROVE  FinalizerInv'
  <1>1. pc # "idle" /\ PassOK /\ Like(pass, pass)
    BY Zenon, Split, LikeUpdates DEF lookupRobot
  <1>2. ASSUME NEW at \in {"create", "status", "dropSecret", "resumeRotate", "converge",
                           "rotate", "putSecret"}
        PROVE  Onward(at) /\ Plain(at)
    BY Zenon DEF lookupRobot, Onward, Plain, NormalPCs, RefusePCs, SuspendPCs, ReleasePCs,
           DeletePCs, ProvisionPCs
  <1>3. Moves /\ Plain(pc')
    <2>1. CASE Goto("create", pass) \/ Goto("status", pass)
      <3>1. Onward("create") /\ Plain("create") /\ Onward("status") /\ Plain("status")
        BY Zenon, <1>2
      <3> QED BY Zenon, <1>1, <2>1, <3>1, GotoMoves
    <2>2. CASE Failed
      BY Zenon, <1>1, <2>2, FailedMoves
    <2>3. ASSUME NEW r \in robots,
                 Goto(AfterLookup(pass, r), [pass EXCEPT !.rob = Seen(r)])
          PROVE  Moves /\ Plain(pc')
      <3>1. Like([pass EXCEPT !.rob = Seen(r)], pass)
        BY Zenon, <1>1, Split, LikeUpdates DEF HarborOK
      <3>2. AfterLookup(pass, r) \in {"dropSecret", "resumeRotate", "converge", "rotate", "putSecret"}
        BY Zenon DEF AfterLookup, AfterConverge
      <3> QED BY Zenon, <1>1, <1>2, <2>3, <3>1, <3>2, GotoMoves
    <2> QED BY Zenon, <2>1, <2>2, <2>3 DEF lookupRobot
  <1> QED BY Zenon, <1>3, PlainMoveKeeps, SameRobotsKept DEF lookupRobot, apiVars, harborVars

\* The robot is created under the finalizer set before.
LEMMA createRobotKeeps ==
    ASSUME FinalizerInv, TypeInv, TypeInv', createRobot
    PROVE  FinalizerInv'
  <1> DEFINE new == [id |-> nextID, name |-> pass.ha.sa, owner |-> pass.h,
                     suspended |-> FALSE, disabled |-> FALSE,
                     perms |-> pass.ha.perms, pw |-> nextID,
                     adminOff |-> FALSE, oldPw |-> FALSE]
             p == [pass EXCEPT !.rob = Seen(new), !.created = TRUE, !.pw = nextID]
  <1>1. /\ pc = "create" /\ PassOK /\ Like(pass, pass) /\ Covered(pass.h)
        /\ UNCHANGED <<ha, cache, leader, sweepVars>>
    BY Zenon, Split, LikeUpdates DEF createRobot, FinalizerInv, PassCovered, ProvisionPCs, apiVars
  <1>2. /\ Onward("relookup") /\ Plain("relookup")
        /\ Onward("putSecret") /\ Plain("putSecret")
    BY Zenon, <1>1 DEF Onward, Plain, NormalPCs, RefusePCs, SuspendPCs, ReleasePCs,
           DeletePCs, ProvisionPCs
  <1>3. CASE Goto("relookup", pass) /\ UNCHANGED <<harborVars, spent>>
    <2>1. Moves /\ Plain(pc')
      BY Zenon, <1>1, <1>2, <1>3, GotoMoves
    <2> QED BY Zenon, <1>1, <1>3, <2>1, PlainMoveKeeps, SameRobotsKept DEF harborVars
  <1>4. CASE robots' = robots \cup {new} /\ Answered("putSecret", p)
    <2>1. Like(p, pass)
      <3>1. new \in Robot
        BY Zenon, <1>1, Split DEF PassOK, PassNamed, NormalPCs, Pass, HarborAccess, Accepted,
                           Robot, RobotNames, HarborOK
      <3>2. Seen(new) \in Robot /\ nextID \in Nat
        BY Zenon, <3>1, SeenType, Split DEF HarborOK
      <3> HIDE DEF new
      <3> QED BY <1>1, <3>2, ZenonT(30) DEF Like, Pass, PassOK
    <2>2. Moves /\ Plain(pc')
      <3> HIDE DEF p
      <3> QED BY Zenon, <1>1, <1>2, <1>4, <2>1, AnsweredMoves
    <2>3. FinalizerCoversRobot'
      BY <1>1, <1>4 DEF FinalizerInv, FinalizerCoversRobot, Covered
    <2> QED BY Zenon, <1>1, <2>2, <2>3, MoveKeeps, PlainRobots DEF sweepVars
  <1> QED BY Zenon, <1>3, <1>4 DEF createRobot

LEMMA dropSecretKeeps ==
    ASSUME FinalizerInv, TypeInv, TypeInv', dropSecret
    PROVE  FinalizerInv'
  <1> DEFINE p == [pass EXCEPT !.sec.exists = FALSE]
  <1>1. pc = "dropSecret" /\ PassOK /\ pass \in Pass
    BY Zenon, Split DEF dropSecret, PassOK
  <1>2. Like(p, pass)
    <2>1. pass.sec \in Secret
      BY Zenon, <1>1 DEF Pass
    <2>2. [pass.sec EXCEPT !.exists = FALSE] \in Secret
      BY <2>1, Zenon DEF Secret
    <2> QED BY Zenon, <1>1, <2>2, PassUpdates
  <1>3. Onward("resumeRotate") /\ Plain("resumeRotate")
    BY Zenon, <1>1 DEF Onward, Plain, NormalPCs, RefusePCs, SuspendPCs, ReleasePCs,
           DeletePCs, ProvisionPCs
  <1>4. Goto("resumeRotate", p) \/ Answered("resumeRotate", p) \/ Failed
    BY Zenon DEF dropSecret
  <1> HIDE DEF p
  <1>5. Moves /\ Plain(pc')
    BY Zenon, <1>1, <1>2, <1>3, <1>4, GotoMoves, AnsweredMoves, FailedMoves
  <1> QED BY Zenon, <1>5, PlainMoveKeeps, SameRobotsKept DEF dropSecret, harborVars

LEMMA RotateRobotKeeps ==
    ASSUME FinalizerInv, TypeInv, TypeInv', NEW from, NEW to, RotateRobot(from, to),
           pc # "idle", Onward(to), Plain(to)
    PROVE  FinalizerInv'
  <1>1. CASE Failed /\ UNCHANGED robots
    BY Zenon, <1>1, Split, FailedMoves, PlainMoveKeeps, SameRobotsKept DEF RotateRobot, apiVars
  <1>2. ASSUME NEW r \in robots, RefreshSec(r.id),
               Answered(to, [pass EXCEPT !.pw = NewPassword(r.pw)])
        PROVE  FinalizerInv'
    <2> DEFINE p == [pass EXCEPT !.pw = NewPassword(r.pw)]
    <2>1. Like(p, pass)
      <3>1. NewPassword(r.pw) \in Nat
        BY Split, BridgeAssumption DEF HarborOK, Robot, NewPassword
      <3> QED BY Zenon, <3>1, Split, LikeUpdates
    <2>2. Answered(to, p)
      BY Zenon, <1>2
    <2> HIDE DEF p
    <2>3. Moves /\ Plain(pc')
      BY Zenon, <2>1, <2>2, Split, AnsweredMoves
    <2>4. OwnersKept
      BY Zenon, <1>2, Split, RefreshKept
    <2> QED BY Zenon, <2>3, <2>4, PlainMoveKeeps DEF RotateRobot, apiVars
  <1> QED BY Zenon, <1>1, <1>2 DEF RotateRobot

\* An Update claims a robot for the pass's HarborAccess: under its
\* finalizer, or it was its robot before.
LEMMA UpdateRobotKeeps ==
    ASSUME FinalizerInv, TypeInv, TypeInv', pc # "idle", NEW suspended, NEW dis, NEW perms,
           NEW to, NEW p, UpdateRobot(suspended, dis, perms, to, p),
           Like(p, pass), Onward(to), Plain(to),
           \/ Covered(pass.h)
           \/ \A r \in robots : r.id = pass.rob.id => r.owner = pass.h
    PROVE  FinalizerInv'
  <1>1. CASE Failed /\ UNCHANGED robots
    BY Zenon, <1>1, Split, FailedMoves, PlainMoveKeeps, SameRobotsKept DEF UpdateRobot, apiVars
  <1>2. CASE /\ PutRobot(pass.rob.id, pass.h, suspended, dis, perms)
             /\ Answered(to, p)
    <2>1. Moves /\ Plain(pc')
      BY ZenonT(30), <1>2, Split, AnsweredMoves
    <2>2. \A r \in robots' : \E s \in robots :
             s.id = r.id /\ (IF s.id = pass.rob.id THEN r.owner = pass.h ELSE r = s)
      <3>1. HarborOK /\ PutRobot(pass.rob.id, pass.h, suspended, dis, perms)
        BY Zenon, <1>2, Split
      <3> QED BY <3>1, PutOwners
    <2>3. FinalizerCoversRobot'
      BY <2>2 DEF FinalizerInv, FinalizerCoversRobot, Covered, UpdateRobot, apiVars
    <2> QED BY Zenon, <2>1, <2>3, MoveKeeps, PlainRobots DEF UpdateRobot, apiVars, sweepVars
  <1> QED BY Zenon, <1>1, <1>2 DEF UpdateRobot

LEMMA UpdatesKeep ==
    ASSUME FinalizerInv, TypeInv, TypeInv', resumeEnable \/ converge \/ disableRobot
    PROVE  FinalizerInv'
  <1>1. pass \in Pass /\ PassOK /\ pc # "idle" /\ Like(pass, pass)
    BY Zenon, Split, LikeUpdates DEF PassOK, resumeEnable, converge, disableRobot
  <1>2. CASE resumeEnable
    <2> DEFINE p == [pass EXCEPT !.rob.disabled = FALSE, !.rob.suspended = FALSE]
    <2>1. Like(p, pass) /\ UpdateRobot(FALSE, FALSE, pass.ha.perms, "putSecret", p)
      BY Zenon, <1>1, <1>2, ResumedLike DEF resumeEnable
    <2>2. Covered(pass.h)
      BY Zenon, <1>2 DEF resumeEnable, FinalizerInv, PassCovered, ProvisionPCs
    <2>3. Onward("putSecret") /\ Plain("putSecret")
      BY Zenon, <1>2 DEF resumeEnable, Onward, Plain, NormalPCs, RefusePCs, SuspendPCs, ReleasePCs,
             DeletePCs, ProvisionPCs
    <2> HIDE DEF p
    <2> QED BY Zenon, <1>1, <2>1, <2>2, <2>3, UpdateRobotKeeps
  <1>3. CASE converge
    <2>1. Covered(pass.h)
      BY Zenon, <1>3 DEF converge, FinalizerInv, PassCovered, ProvisionPCs
    <2>2. Onward(AfterConverge(pass, pass.rob)) /\ Plain(AfterConverge(pass, pass.rob))
      BY Zenon, <1>3 DEF converge, AfterConverge, Onward, Plain, NormalPCs, RefusePCs, SuspendPCs,
             ReleasePCs, DeletePCs, ProvisionPCs
    <2> QED BY Zenon, <1>1, <1>3, <2>1, <2>2, UpdateRobotKeeps DEF converge
  <1>4. CASE disableRobot
    <2>1. \A r \in robots : r.id = pass.rob.id => r.owner = pass.h
      BY Zenon, <1>4 DEF disableRobot, FinalizerInv, PassRobots
    <2>2. Onward("refuseStatus") /\ Plain("refuseStatus")
      BY Zenon, <1>4 DEF disableRobot, Onward, Plain, NormalPCs, RefusePCs, SuspendPCs, ReleasePCs,
             DeletePCs, ProvisionPCs
    <2> QED BY ZenonT(30), <1>1, <1>4, <2>1, <2>2, UpdateRobotKeeps DEF disableRobot
  <1> QED BY Zenon, <1>2, <1>3, <1>4

LEMMA RotationsKeep ==
    ASSUME FinalizerInv, TypeInv, TypeInv', resumeRotate \/ rotate
    PROVE  FinalizerInv'
  <1>1. CASE resumeRotate
    <2>1. pc = "resumeRotate"
      BY Zenon, <1>1 DEF resumeRotate, RotateRobot
    <2>2. Onward("resumeEnable") /\ Plain("resumeEnable")
      BY Zenon, <2>1 DEF Onward, Plain, NormalPCs, RefusePCs, SuspendPCs, ReleasePCs, DeletePCs,
             ProvisionPCs
    <2> QED BY Zenon, <1>1, <2>1, <2>2, RotateRobotKeeps DEF resumeRotate
  <1>2. CASE rotate
    <2>1. pc = "rotate"
      BY Zenon, <1>2 DEF rotate, RotateRobot
    <2>2. Onward("putSecret") /\ Plain("putSecret")
      BY Zenon, <2>1 DEF Onward, Plain, NormalPCs, RefusePCs, SuspendPCs, ReleasePCs, DeletePCs,
             ProvisionPCs
    <2> QED BY Zenon, <1>2, <2>1, <2>2, RotateRobotKeeps DEF rotate
  <1> QED BY Zenon, <1>1, <1>2

LEMMA putRobotSecretKeeps ==
    ASSUME FinalizerInv, TypeInv, TypeInv', putRobotSecret
    PROVE  FinalizerInv'
  <1> DEFINE done == [pass EXCEPT !.out = ~pass.rob.disabled]
             again == [pass EXCEPT !.tries = @ + 1]
             at == AfterSecret(pass)
  <1>1. pc = "putSecret" /\ PassOK /\ pass \in Pass
    BY Zenon, Split DEF putRobotSecret, PassOK
  <1>2. Like(done, pass) /\ Like(again, pass)
    <2>1. (~pass.rob.disabled) \in BOOLEAN
      OBVIOUS
    <2> QED BY Zenon, <1>1, <2>1, PassFlags, LikeUpdates
  <1>3. Onward(at) /\ Plain(at) /\ Onward("reread") /\ Plain("reread")
    BY Zenon, <1>1 DEF AfterSecret, Onward, Plain, NormalPCs, RefusePCs, SuspendPCs, ReleasePCs,
           DeletePCs, ProvisionPCs
  <1>4. Goto(at, done) \/ Answered(at, done) \/ Failed \/ Goto("reread", again)
    BY Zenon DEF putRobotSecret
  <1> HIDE DEF done, again, at
  <1>5. Moves /\ Plain(pc')
    BY Zenon, <1>1, <1>2, <1>3, <1>4, GotoMoves, AnsweredMoves, FailedMoves
  <1> QED BY Zenon, <1>5, PlainMoveKeeps, SameRobotsKept DEF putRobotSecret, harborVars

LEMMA rereadSecretKeeps ==
    ASSUME FinalizerInv, TypeInv, TypeInv', rereadSecret
    PROVE  FinalizerInv'
  <1> DEFINE p == [pass EXCEPT !.sec = secret[pass.h]]
  <1>1. pc = "reread" /\ PassOK /\ pass.h \in HarborAccesses
    BY Zenon, Split DEF rereadSecret, PassOK, PassNamed
  <1>2. Like(p, pass)
    BY Zenon, <1>1, Split, LikeUpdates DEF APIOK
  <1>3. Onward("putSecret") /\ Plain("putSecret")
    BY Zenon, <1>1 DEF Onward, Plain, NormalPCs, RefusePCs, SuspendPCs, ReleasePCs, DeletePCs,
           ProvisionPCs
  <1>4. Failed \/ Goto("putSecret", p)
    BY Zenon DEF rereadSecret
  <1> HIDE DEF p
  <1>5. Moves /\ Plain(pc')
    BY Zenon, <1>1, <1>2, <1>3, <1>4, GotoMoves, FailedMoves
  <1> QED BY Zenon, <1>5, PlainMoveKeeps, SameRobotsKept DEF rereadSecret, apiVars, harborVars

\* The deletion of what a pass listed.  keep is empty when the pass deletes
\* for good: then the list holds every robot of the HarborAccess.
LEMMA ListRobotsKeeps ==
    ASSUME FinalizerInv, TypeInv, TypeInv', listStaleRobots \/ deleteList
    PROVE  FinalizerInv'
  <1>1. PassOK /\ pass \in Pass /\ UNCHANGED <<ha, cache, leader, robots, nextID, sweepVars>>
    BY Zenon, Split DEF listStaleRobots, deleteList, ListRobots, PassOK, apiVars, harborVars
  <1>2. ASSUME NEW keep, NEW each, NEW after, NEW from, from # "idle",
               ListRobots(from, keep, each, after), Onward(each), Onward(after)
        PROVE  /\ Moves
               /\ pass'.h = pass.h
               /\ \/ pc' = after /\ {r.id : r \in Owned(pass.h)} \subseteq keep
                  \/ pc' = each /\ pass'.todo = {r.id : r \in Owned(pass.h)} \ keep
    <2> DEFINE gone == {r.id : r \in Owned(pass.h)} \ keep
               p == [pass EXCEPT !.todo = gone]
    <2>1. gone \in SUBSET Nat
      BY Split DEF Owned, HarborOK, Robot
    <2>2. Goto(IF gone = {} THEN after ELSE each, p) /\ pc # "idle"
      BY Zenon, <1>2 DEF ListRobots
    <2>3. gone = {} => {r.id : r \in Owned(pass.h)} \subseteq keep
      OBVIOUS
    <2> HIDE DEF gone
    <2>4. Like(p, pass) /\ p.todo = gone
      <3>1. p.todo = gone
        BY <1>1, Zenon DEF Pass
      <3> QED BY Zenon, <1>1, <2>1, <3>1, PassUpdates
    <2> HIDE DEF p
    <2>5. Moves /\ pass'.h = pass.h /\ pass' = p
      BY Zenon, <1>2, <2>2, <2>4, GotoMoves DEF Goto, Like
    <2> QED BY Zenon, <2>2, <2>3, <2>4, <2>5 DEF Goto, gone
  <1>3. CASE listStaleRobots
    <2>1. Onward("delStale") /\ Onward("status") /\ Plain("delStale") /\ Plain("status")
      BY Zenon, <1>3 DEF listStaleRobots, ListRobots, Onward, Plain, NormalPCs, RefusePCs, SuspendPCs,
             ReleasePCs, DeletePCs, ProvisionPCs
    <2>2. Moves /\ Plain(pc')
      BY Zenon, <1>2, <1>3, <2>1 DEF listStaleRobots
    <2> QED BY Zenon, <1>1, <2>2, PlainMoveKeeps, SameRobotsKept
  <1>4. CASE deleteList
    <2>1. Onward("delRobots") /\ Onward("delSecret")
      BY Zenon, <1>4 DEF deleteList, ListRobots, Onward, NormalPCs, RefusePCs, SuspendPCs,
             ReleasePCs, DeletePCs, ProvisionPCs
    <2>2. /\ Moves /\ pass'.h = pass.h
          /\ \/ pc' = "delSecret" /\ {r.id : r \in Owned(pass.h)} \subseteq {}
             \/ pc' = "delRobots" /\ pass'.todo = {r.id : r \in Owned(pass.h)} \ {}
      BY Zenon, <1>2, <1>4, <2>1 DEF deleteList
    <2>3. PassRobots'
      BY Zenon, <1>1, <2>2 DEF PassRobots, Owned, robotOwnedBy
    <2> QED BY Zenon, <1>1, <2>2, <2>3, MoveKeeps, SameRobotsKept, OwnersKeptCovers DEF sweepVars
  <1> QED BY <1>3, <1>4

LEMMA DeleteListedKeeps ==
    ASSUME FinalizerInv, TypeInv, TypeInv', deleteStaleRobots \/ deleteRobots
    PROVE  FinalizerInv'
  <1>1. PassOK /\ pass \in Pass /\ UNCHANGED <<ha, cache, leader, nextID, sweepVars>>
    BY Zenon, Split DEF deleteStaleRobots, deleteRobots, DeleteListed, PassOK, apiVars
  <1>2. ASSUME NEW from, NEW after, from # "idle", DeleteListed(from, after),
               Onward(from), Onward(after)
        PROVE  /\ Moves /\ OwnersKept
               /\ \/ Plain(pc')
                  \/ /\ pass'.h = pass.h /\ pass'.todo \subseteq pass.todo
                     /\ \A r \in robots' : r \in robots /\ (r.id \in pass.todo => r.id \in pass'.todo)
                     /\ pc' = IF pass'.todo = {} THEN after ELSE from
    <2>1. PICK id \in pass.todo :
             /\ DeleteRobots({id})
             /\ Answered(IF pass.todo \ {id} = {} THEN after ELSE from,
                         [pass EXCEPT !.todo = pass.todo \ {id}])
      BY Zenon, <1>2 DEF DeleteListed
    <2> DEFINE rest == pass.todo \ {id}
               at == IF rest = {} THEN after ELSE from
               p == [pass EXCEPT !.todo = rest]
    <2>2. Like(p, pass) /\ p.todo = rest
      <3>1. rest \in SUBSET Nat
        BY Zenon, <1>1 DEF Pass
      <3> HIDE DEF rest
      <3>2. p.todo = rest
        BY <1>1, Zenon DEF Pass
      <3> QED BY Zenon, <1>1, <3>1, <3>2, PassUpdates
    <2>3. Answered(at, p) /\ Onward(at) /\ pc # "idle"
      BY Zenon, <1>2, <2>1 DEF DeleteListed
    <2>4. Moves /\ (Plain(pc') \/ (pc' = at /\ pass' = p))
      <3> HIDE DEF at, p
      <3> QED BY Zenon, <1>1, <2>2, <2>3, AnsweredMoves
    <2>5. OwnersKept /\ \A r \in robots' : r \in robots /\ (r.id \in pass.todo => r.id \in rest)
      BY Zenon, <2>1, DeleteKept DEF DeleteRobots
    <2> HIDE DEF p
    <2> QED BY Zenon, <2>2, <2>4, <2>5 DEF Like
  <1>3. CASE deleteStaleRobots
    <2>1. Onward("delStale") /\ Onward("status") /\ Plain("delStale") /\ Plain("status")
      BY Zenon, <1>3 DEF deleteStaleRobots, DeleteListed, Onward, Plain, NormalPCs, RefusePCs,
             SuspendPCs, ReleasePCs, DeletePCs, ProvisionPCs
    <2>2. Moves /\ Plain(pc') /\ OwnersKept
      BY Zenon, <1>2, <1>3, <2>1 DEF deleteStaleRobots
    <2> QED BY Zenon, <1>1, <2>2, PlainMoveKeeps
  <1>4. CASE deleteRobots
    <2>1. pc = "delRobots" /\ Onward("delRobots") /\ Onward("delSecret")
      BY Zenon, <1>4 DEF deleteRobots, DeleteListed, Onward, NormalPCs, RefusePCs, SuspendPCs,
             ReleasePCs, DeletePCs, ProvisionPCs
    <2>2. /\ Moves /\ OwnersKept
          /\ \/ Plain(pc')
             \/ /\ pass'.h = pass.h /\ pass'.todo \subseteq pass.todo
                /\ \A r \in robots' : r \in robots /\ (r.id \in pass.todo => r.id \in pass'.todo)
                /\ pc' = IF pass'.todo = {} THEN "delSecret" ELSE "delRobots"
      BY Zenon, <1>2, <1>4, <2>1 DEF deleteRobots
    <2>3. \A r \in Owned(pass.h) : r.id \in pass.todo
      BY Zenon, <2>1 DEF FinalizerInv, PassRobots
    <2>4. PassRobots'
      BY Zenon, <2>2, <2>3, PlainRobots DEF PassRobots, Owned, robotOwnedBy
    <2> QED BY Zenon, <1>1, <2>2, <2>4, MoveKeeps, OwnersKeptCovers DEF sweepVars
  <1> QED BY <1>3, <1>4

LEMMA refuseSecretKeeps ==
    ASSUME FinalizerInv, TypeInv, TypeInv', refuseSecret
    PROVE  FinalizerInv'
  <1> DEFINE at == AfterOwnSecret(pass)
             failed == [pass EXCEPT !.err = TRUE]
  <1>1. pc = "refuse" /\ pass \in Pass
    BY Zenon, Split DEF refuseSecret, PassOK
  <1>2. Onward(at) /\ Plain(at) /\ Like(failed, pass) /\ Like(pass, pass)
    BY Zenon, <1>1, PassFlags, PassUpdates
       DEF AfterOwnSecret, Onward, Plain, NormalPCs, RefusePCs, SuspendPCs, ReleasePCs,
           DeletePCs, ProvisionPCs
  <1>3. Goto(at, pass) \/ Goto(at, failed)
    BY Zenon DEF refuseSecret
  <1> HIDE DEF at, failed
  <1>4. Moves /\ Plain(pc')
    BY Zenon, <1>1, <1>2, <1>3, GotoMoves
  <1> QED BY Zenon, <1>4, PlainMoveKeeps, SameRobotsKept DEF refuseSecret, harborVars

LEMMA suspendLookupKeeps ==
    ASSUME FinalizerInv, TypeInv, TypeInv', suspendLookup
    PROVE  FinalizerInv'
  <1>1. /\ pc = "suspendLookup" /\ pass \in Pass /\ PassOK /\ HarborOK
        /\ UNCHANGED <<ha, cache, leader, robots, nextID, sweepVars>>
    BY Zenon, Split DEF suspendLookup, PassOK, apiVars, harborVars
  <1>2. ASSUME NEW at \in {"refuseStatus", "disable", "revoke"}
        PROVE  Onward(at) /\ (at # "disable" => Plain(at))
    BY Zenon, <1>1 DEF Onward, Plain, NormalPCs, RefusePCs, SuspendPCs, ReleasePCs, DeletePCs,
           ProvisionPCs
  <1>3. CASE Goto("refuseStatus", [pass EXCEPT !.free = ~pass.err])
    <2>1. Like([pass EXCEPT !.free = ~pass.err], pass)
      <3>1. (~pass.err) \in BOOLEAN
        OBVIOUS
      <3> QED BY Zenon, <1>1, <3>1, PassFlags
    <2>2. Moves /\ Plain(pc')
      <3>1. Onward("refuseStatus") /\ Plain("refuseStatus")
        BY Zenon, <1>2
      <3>2. pc # "idle"
        BY Zenon, <1>1
      <3>3. PICK p : Goto("refuseStatus", p) /\ Like(p, pass)
        BY Zenon, <1>3, <2>1
      <3> QED BY Zenon, <3>1, <3>2, <3>3, GotoMoves
    <2> QED BY Zenon, <1>1, <2>2, PlainMoveKeeps, SameRobotsKept
  <1>4. ASSUME NEW r \in robots, r.owner = pass.h,
               NEW at \in {"refuseStatus", "disable", "revoke"},
               Goto(at, [pass EXCEPT !.rob = Seen(r)])
        PROVE  FinalizerInv'
    <2> DEFINE p == [pass EXCEPT !.rob = Seen(r)]
    <2>1. Like(p, pass) /\ p.rob.id = r.id
      <3>1. r \in Robot /\ Seen(r) \in Robot
        BY Zenon, <1>1, SeenType DEF HarborOK
      <3>2. Seen(r).id = r.id
        BY <3>1, Zenon DEF Seen, Robot
      <3>3. p.rob = Seen(r)
        BY <1>1, Zenon DEF Pass
      <3> QED BY Zenon, <1>1, <3>1, <3>2, <3>3, LikeUpdates
    <2>2. Goto(at, p)
      BY Zenon, <1>4
    <2> HIDE DEF p
    <2>3. Moves /\ pc' = at /\ pass' = p /\ pass'.h = pass.h
      BY Zenon, <1>1, <1>2, <2>1, <2>2, GotoMoves DEF Goto, Like
    <2>4. PassRobots'
      <3>1. CASE at = "disable"
        BY Zenon, <1>1, <1>4, <2>1, <2>3, <3>1 DEF PassRobots, HarborOK
      <3>2. CASE at # "disable"
        BY Zenon, <1>2, <2>3, <3>2, PlainRobots
      <3> QED BY Zenon, <3>1, <3>2
    <2> QED BY Zenon, <1>1, <2>3, <2>4, MoveKeeps, SameRobotsKept, OwnersKeptCovers DEF sweepVars
  <1> QED BY Zenon, <1>3, <1>4 DEF suspendLookup, robotOwnedBy

LEMMA revokeRobotKeeps ==
    ASSUME FinalizerInv, TypeInv, TypeInv', revokeRobot
    PROVE  FinalizerInv'
  <1> DEFINE p == [pass EXCEPT !.free = ~pass.err]
  <1>1. pc = "revoke" /\ pass \in Pass /\ PassOK
    BY Zenon, Split DEF revokeRobot, PassOK
  <1>2. Like(p, pass)
    <2>1. (~pass.err) \in BOOLEAN
      OBVIOUS
    <2> QED BY Zenon, <1>1, <2>1, PassFlags
  <1>3. Onward("refuseStatus") /\ Plain("refuseStatus")
    BY Zenon, <1>1 DEF Onward, Plain, NormalPCs, RefusePCs, SuspendPCs, ReleasePCs, DeletePCs,
           ProvisionPCs
  <1>4. Answered("refuseStatus", p)
    BY Zenon DEF revokeRobot
  <1> HIDE DEF p
  <1>5. Moves /\ Plain(pc')
    BY Zenon, <1>1, <1>2, <1>3, <1>4, AnsweredMoves
  <1> QED BY Zenon, <1>5, PlainMoveKeeps, DeleteKept DEF revokeRobot, apiVars

LEMMA releaseListKeeps ==
    ASSUME FinalizerInv, TypeInv, TypeInv', releaseList
    PROVE  FinalizerInv'
  <1>1. /\ pc = "releaseList" /\ PassOK /\ Like(pass, pass)
        /\ UNCHANGED <<ha, cache, leader, robots, sweepVars>>
    BY Zenon, Split, LikeUpdates DEF releaseList, apiVars, harborVars
  <1>2. CASE Done
    <2>1. Moves /\ Plain(pc')
      BY Zenon, <1>2 DEF Done, Moves, Plain
    <2> QED BY Zenon, <1>1, <2>1, PlainMoveKeeps, SameRobotsKept
  <1>3. CASE Owned(pass.h) = {} /\ Goto("releasePatch", pass)
    <2>1. Onward("releasePatch")
      BY Zenon, <1>1 DEF Onward, NormalPCs, RefusePCs, SuspendPCs, ReleasePCs, DeletePCs, ProvisionPCs
    <2>2. Moves /\ pc' = "releasePatch" /\ pass' = pass
      BY Zenon, <1>1, <1>3, <2>1, GotoMoves DEF Goto
    <2>3. PassRobots'
      BY Zenon, <1>1, <1>3, <2>2 DEF PassRobots, Owned, robotOwnedBy
    <2> QED BY Zenon, <1>1, <2>2, <2>3, MoveKeeps, SameRobotsKept, OwnersKeptCovers DEF sweepVars
  <1> QED BY Zenon, <1>2, <1>3 DEF releaseList

LEMMA deleteSecretKeeps ==
    ASSUME FinalizerInv, TypeInv, TypeInv', deleteSecret
    PROVE  FinalizerInv'
  <1>1. /\ pc = "delSecret" /\ PassOK /\ Like(pass, pass)
        /\ UNCHANGED <<ha, cache, leader, robots, sweepVars>>
    BY Zenon, Split, LikeUpdates DEF deleteSecret, harborVars
  <1>2. Onward("delPatch")
    BY Zenon, <1>1 DEF Onward, NormalPCs, RefusePCs, SuspendPCs, ReleasePCs, DeletePCs, ProvisionPCs
  <1>3. Moves /\ (Plain(pc') \/ (pc' = "delPatch" /\ pass' = pass))
    BY Zenon, <1>1, <1>2, AnsweredMoves DEF deleteSecret
  <1>4. PassRobots'
    BY Zenon, <1>1, <1>3, PlainRobots DEF FinalizerInv, PassRobots, Owned, robotOwnedBy
  <1> QED BY Zenon, <1>1, <1>3, <1>4, MoveKeeps, SameRobotsKept, OwnersKeptCovers DEF sweepVars

LEMMA CallFailsKeeps ==
    ASSUME FinalizerInv, TypeInv, TypeInv', CallFails
    PROVE  FinalizerInv'
  BY Zenon, Split, FailedMoves, PlainMoveKeeps, SameRobotsKept DEF CallFails, apiVars, harborVars

(***************************************************************************)
(* Writes of the object by the pass.                                       *)
(***************************************************************************)
\* A write that takes no finalizer from a covered object.
LEMMA WriteKeeps ==
    ASSUME FinalizerInv, TypeInv, NEW h \in HarborAccesses, NEW x \in HarborAccess,
           x = ha[h] \/ x.ver = ha[h].ver + 1, ha' = [ha EXCEPT ![h] = x],
           Covered(h) => x.exists /\ x.fin,
           UNCHANGED <<cache, leader, robots, spc>>
    PROVE  /\ CachesAsOf' /\ CacheCovered' /\ FinalizerCoversRobot'
           /\ (spc \notin {"relist", "release"})' /\ ha'[h] = x
  <1>1. APIOK /\ CacheOK
    BY Zenon, Split
  <1>2. CachesAsOf'
    <2>1. CASE x = ha[h]
      <3>1. ha' = ha
        BY Zenon, <1>1, <2>1 DEF APIOK
      <3> QED BY <3>1 DEF FinalizerInv, CachesAsOf, AsOf
    <2>2. CASE x.ver = ha[h].ver + 1
      BY Zenon, <1>1, <2>2, WriteAges DEF FinalizerInv
    <2> QED BY Zenon, <2>1, <2>2
  <1>3. \A k \in HarborAccesses : Covered(k) => Covered(k)'
    BY Zenon, <1>1 DEF APIOK, Covered
  <1>4. CacheCovered' /\ FinalizerCoversRobot'
    BY Zenon, <1>3 DEF FinalizerInv, CacheCovered, FinalizerCoversRobot, Covered
  <1> QED BY Zenon, <1>1, <1>2, <1>4 DEF FinalizerInv, APIOK

LEMMA IdleKeeps ==
    ASSUME TypeInv', CachesAsOf', CacheCovered', FinalizerCoversRobot',
           (spc \notin {"relist", "release"})', pc' = "idle"
    PROVE  FinalizerInv'
  BY ZenonT(30), PCFacts DEF FinalizerInv, TypeInv, PassCopy, PassCovered, PassWithdraws, PassRobots

LEMMA StatusKeeps ==
    ASSUME pass \in Pass, pass.h \in HarborAccesses, APIOK, NEW ready \in BOOLEAN
    PROVE  LET x == Written(StatusAs(ready)) IN
           /\ x \in HarborAccess
           /\ x = pass.ha \/ x.ver = ha[pass.h].ver + 1
           /\ x.exists = pass.ha.exists /\ x.fin = pass.ha.fin /\ x.del = pass.ha.del
           /\ x.sa = pass.ha.sa /\ x.ok = pass.ha.ok
  <1> DEFINE s == StatusAs(ready)
  <1>1. pass.ha \in HarborAccess /\ s \in HarborAccess
    BY Zenon, StatusAsType DEF Pass
  <1>2. ASSUME NEW i
        PROVE  LET q == [pass.ha EXCEPT !.rid = i, !.observed = TRUE, !.ready = TRUE] IN
               /\ q.exists = pass.ha.exists /\ q.fin = pass.ha.fin /\ q.del = pass.ha.del
               /\ q.sa = pass.ha.sa /\ q.ok = pass.ha.ok
    BY <1>1, Zenon DEF HarborAccess
  <1>3. LET q == [pass.ha EXCEPT !.ready = FALSE] IN
        /\ q.exists = pass.ha.exists /\ q.fin = pass.ha.fin /\ q.del = pass.ha.del
        /\ q.sa = pass.ha.sa /\ q.ok = pass.ha.ok
    BY <1>1, Zenon DEF HarborAccess
  <1>4. /\ s.exists = pass.ha.exists /\ s.fin = pass.ha.fin /\ s.del = pass.ha.del
        /\ s.sa = pass.ha.sa /\ s.ok = pass.ha.ok
    BY <1>2, <1>3, Zenon DEF StatusAs
  <1> HIDE DEF s
  <1>5. LET q == Bumped(s, pass.h) IN
        /\ q \in HarborAccess /\ q.ver = ha[pass.h].ver + 1
        /\ q.exists = s.exists /\ q.fin = s.fin /\ q.del = s.del
        /\ q.sa = s.sa /\ q.ok = s.ok
    <2>1. Bumped(s, pass.h) \in HarborAccess
      BY Zenon, <1>1, BumpedType
    <2> QED BY <1>1, <2>1, Zenon DEF Bumped, HarborAccess
  <1>6. (Written(s) = s /\ s = pass.ha) \/ Written(s) = Bumped(s, pass.h)
    BY Zenon DEF Written
  <1> QED BY Zenon, <1>1, <1>4, <1>5, <1>6 DEF s

LEMMA UpdateStatusKeeps ==
    ASSUME FinalizerInv, TypeInv, pc # "idle", NEW ready \in BOOLEAN, UpdateStatus(ready),
           UNCHANGED <<cache, leader, robots, spc>>
    PROVE  /\ CachesAsOf' /\ CacheCovered' /\ FinalizerCoversRobot'
           /\ (spc \notin {"relist", "release"})'
           /\ Current(pass.ha, pass.h) => ha'[pass.h] = Written(StatusAs(ready))
  <1>1. /\ pass \in Pass /\ pass.h \in HarborAccesses /\ APIOK
        /\ Current(pass.ha, pass.h) => pass.ha = ha[pass.h]
    BY Zenon, Split DEF PassOK, PassNamed, FinalizerInv, PassCopy, AsOf, Current
  <1>2. CASE Current(pass.ha, pass.h)
    <2> DEFINE x == Written(StatusAs(ready))
    <2>1. /\ x \in HarborAccess /\ (x = ha[pass.h] \/ x.ver = ha[pass.h].ver + 1)
          /\ Covered(pass.h) => x.exists /\ x.fin
      BY Zenon, <1>1, <1>2, StatusKeeps DEF Covered
    <2>2. ha' = [ha EXCEPT ![pass.h] = x]
      BY Zenon, <1>2 DEF UpdateStatus
    <2> HIDE DEF x
    <2>3. /\ CachesAsOf' /\ CacheCovered' /\ FinalizerCoversRobot'
          /\ (spc \notin {"relist", "release"})' /\ ha'[pass.h] = x
      BY ZenonT(30), <1>1, <2>1, <2>2, WriteKeeps
    <2> QED BY ZenonT(30), <2>3 DEF x
  <1>3. CASE ~Current(pass.ha, pass.h)
    BY Zenon, <1>3 DEF UpdateStatus, FinalizerInv, CachesAsOf, CacheCovered, FinalizerCoversRobot,
                AsOf, Covered
  <1> QED BY Zenon, <1>2, <1>3

LEMMA markStatusKeeps ==
    ASSUME FinalizerInv, TypeInv, TypeInv', markStatus
    PROVE  FinalizerInv'
  <1>1. (pc = "status" /\ pass.out) \in BOOLEAN
    OBVIOUS
  <1> QED BY Zenon, <1>1, UpdateStatusKeeps, IdleKeeps DEF markStatus, Done, harborVars, sweepVars

LEMMA refuseStatusKeeps ==
    ASSUME FinalizerInv, TypeInv, TypeInv', refuseStatus
    PROVE  FinalizerInv'
  <1> DEFINE x == Written(StatusAs(FALSE))
             p == [pass EXCEPT !.ha = x]
  <1>1. /\ pc = "refuseStatus" /\ pass \in Pass /\ pass.h \in HarborAccesses
        /\ APIOK /\ ~Accepted(pass.ha) /\ UNCHANGED <<cache, leader, robots, spc>>
    BY Zenon, Split DEF refuseStatus, PassOK, PassNamed, FinalizerInv, PassCopy, RefusePCs, ReleasePCs,
                 harborVars, sweepVars
  <1>2. /\ CachesAsOf' /\ CacheCovered' /\ FinalizerCoversRobot'
        /\ (spc \notin {"relist", "release"})'
        /\ Current(pass.ha, pass.h) => ha'[pass.h] = x
    BY Zenon, <1>1, UpdateStatusKeeps DEF refuseStatus
  <1>3. CASE Done
    BY Zenon, <1>2, <1>3, IdleKeeps DEF Done
  <1>4. CASE Current(pass.ha, pass.h) /\ Goto("releaseList", p)
    <2>1. x \in HarborAccess /\ ~Accepted(x)
      BY Zenon, <1>1, StatusKeeps DEF Accepted
    <2> HIDE DEF x
    <2>2. p.h = pass.h /\ p.ha = x
      BY <1>1, Zenon DEF Pass
    <2>3. pc' = "releaseList" /\ pass' = p
      BY Zenon, <1>4 DEF Goto
    <2> HIDE DEF p
    <2>4. /\ pc' \notin NormalPCs \cup DeletePCs \cup ProvisionPCs
          /\ pc' # "getSecret" /\ Plain(pc')
      BY Zenon, <2>3 DEF NormalPCs, DeletePCs, ProvisionPCs, Plain
    <2>5. PassCopy'
      <3>1. ha'[pass.h] = x /\ x.ver \in Nat
        BY Zenon, <1>2, <1>4, <2>1 DEF HarborAccess
      <3> QED BY Zenon, <1>1, <2>1, <2>2, <2>3, <2>4, <3>1, Compare DEF PassCopy, AsOf
    <2>6. PassCovered'
      BY Zenon, <2>4 DEF PassCovered
    <2>7. PassWithdraws'
      <3>1. ~Serving(cache[leader][pass.h])
        BY Zenon, <1>1, <1>4 DEF FinalizerInv, PassWithdraws, RefusePCs, ReleasePCs
      <3> QED BY ZenonT(30), <1>1, <2>2, <2>3, <3>1 DEF PassWithdraws
    <2>8. PassRobots'
      BY Zenon, <2>4, PlainRobots
    <2> QED BY ZenonT(30), <1>2, <2>5, <2>6, <2>7, <2>8 DEF FinalizerInv, TypeInv
  <1> QED BY Zenon, <1>3, <1>4 DEF refuseStatus

LEMMA BumpedKeeps ==
    ASSUME APIOK, NEW h \in HarborAccesses, NEW x \in HarborAccess
    PROVE  LET q == Bumped(x, h) IN
           /\ q \in HarborAccess /\ q.ver = ha[h].ver + 1
           /\ q.exists = x.exists /\ q.fin = x.fin /\ q.del = x.del
           /\ q.sa = x.sa /\ q.ok = x.ok
  <1>1. Bumped(x, h) \in HarborAccess
    BY Zenon, BumpedType
  <1> QED BY <1>1, Zenon DEF Bumped, HarborAccess

\* A pass that goes on to Harbor over the object as it is, finalizer included.
LEMMA LookupKeeps ==
    ASSUME pc' = "lookup", pass'.h \in HarborAccesses, pass'.ha = ha'[pass'.h],
           pass'.ha \in HarborAccess, Accepted(pass'.ha), pass'.ha.exists, pass'.ha.fin
    PROVE  PassCopy' /\ PassCovered' /\ PassWithdraws' /\ PassRobots'
  <1>1. pc' \notin RefusePCs \cup DeletePCs /\ pc' \in ProvisionPCs /\ Plain(pc')
    BY Zenon DEF RefusePCs, SuspendPCs, ReleasePCs, DeletePCs, ProvisionPCs, Plain
  <1>2. pass'.ha.ver \in Nat
    BY Zenon DEF HarborAccess
  <1>3. PassCopy'
    BY <1>1, <1>2 DEF PassCopy, AsOf
  <1>4. PassCovered' /\ PassWithdraws'
    BY Zenon, <1>1 DEF PassCovered, PassWithdraws, Covered
  <1>5. PassRobots'
    BY Zenon, <1>1, PlainRobots
  <1> QED BY Zenon, <1>3, <1>4, <1>5

\* The finalizer is on the object before the pass goes on to Harbor.
LEMMA ensureFinalizerKeeps ==
    ASSUME FinalizerInv, TypeInv, TypeInv', ensureFinalizer
    PROVE  FinalizerInv'
  <1> DEFINE h == pass.h
             x == Bumped([pass.ha EXCEPT !.fin = TRUE], h)
             p == [pass EXCEPT !.ha = x]
  <1>1. /\ pc = "addFinalizer" /\ PassOK /\ pass \in Pass /\ h \in HarborAccesses
        /\ APIOK /\ pass.ha \in HarborAccess /\ Accepted(pass.ha)
        /\ Current(pass.ha, h) => pass.ha = ha[h]
        /\ UNCHANGED <<cache, leader, robots, spc, sweepVars>>
    BY Zenon, Split DEF ensureFinalizer, PassOK, PassNamed, Pass, FinalizerInv, PassCopy, AsOf,
                 Current, NormalPCs, harborVars, sweepVars
  <1>2. Failed => pc' = "idle"
    BY Zenon, <1>1 DEF Failed, Done, SuspendPCs, ReleasePCs, NormalPCs, DeletePCs
  <1>3. CASE Failed /\ UNCHANGED ha
    BY ZenonT(30), <1>1, <1>2, <1>3, IdleKeeps
       DEF FinalizerInv, CachesAsOf, CacheCovered, FinalizerCoversRobot, AsOf, Covered
  <1>4. CASE /\ Current(pass.ha, h)
             /\ ha' = [ha EXCEPT ![h] = x] /\ Answered("lookup", p)
    <2>1. /\ x \in HarborAccess /\ x.ver = ha[h].ver + 1 /\ x.exists /\ x.fin /\ Accepted(x)
      <3> DEFINE y == [pass.ha EXCEPT !.fin = TRUE]
      <3>1. y \in HarborAccess
        BY Zenon, <1>1, FinType
      <3>2. y.exists = pass.ha.exists /\ y.fin /\ y.sa = pass.ha.sa /\ y.ok = pass.ha.ok
        BY <1>1, Zenon DEF HarborAccess
      <3> HIDE DEF y
      <3>3. LET q == Bumped(y, h) IN
            /\ q \in HarborAccess /\ q.ver = ha[h].ver + 1
            /\ q.exists = y.exists /\ q.fin = y.fin /\ q.del = y.del
            /\ q.sa = y.sa /\ q.ok = y.ok
        BY Zenon, <1>1, <3>1, BumpedKeeps
      <3> QED BY Zenon, <1>1, <1>4, <3>2, <3>3 DEF Current, Accepted, y
    <2> HIDE DEF x
    <2>2. /\ CachesAsOf' /\ CacheCovered' /\ FinalizerCoversRobot'
          /\ (spc \notin {"relist", "release"})' /\ ha'[h] = x
      BY Zenon, <1>1, <1>4, <2>1, WriteKeeps
    <2>3. CASE Failed
      BY ZenonT(30), <1>2, <2>2, <2>3, IdleKeeps
    <2>4. CASE Goto("lookup", p)
      <3>1. p.h = h /\ p.ha = x
        BY <1>1, Zenon DEF Pass
      <3>2. pc' = "lookup" /\ pass' = p
        BY Zenon, <2>4 DEF Goto
      <3> HIDE DEF p
      <3>3. pass'.h \in HarborAccesses /\ pass'.ha = ha'[pass'.h] /\ pass'.ha \in HarborAccess
        BY Zenon, <1>1, <2>1, <2>2, <3>1, <3>2
      <3>4. Accepted(pass'.ha) /\ pass'.ha.exists /\ pass'.ha.fin
        BY Zenon, <2>1, <3>1, <3>2
      <3> QED BY ZenonT(30), <2>2, <3>2, <3>3, <3>4, LookupKeeps DEF FinalizerInv, TypeInv
    <2> QED BY Zenon, <1>4, <2>3, <2>4 DEF Answered
  <1> QED BY Zenon, <1>3, <1>4 DEF ensureFinalizer

\* The finalizer goes when Harbor holds no robot of h and no pass to come
\* can still take h for one to provision.
LEMMA RemoveFinalizerKeeps ==
    ASSUME FinalizerInv, TypeInv, TypeInv', releasePatch \/ deletePatch
    PROVE  FinalizerInv'
  <1> DEFINE h == pass.h
             x == WithoutFinalizer(h)
  <1>1. /\ pc \in {"releasePatch", "delPatch"} /\ h \in HarborAccesses /\ APIOK /\ CacheOK
        /\ UNCHANGED <<cache, leader, robots, spc>> /\ pc' = "idle"
    BY Zenon, Split DEF releasePatch, deletePatch, RemoveFinalizer, PassOK, PassNamed, Done,
                 harborVars, sweepVars
  <1>2. Owned(h) = {} /\ (Current(pass.ha, h) => ~Serving(cache[leader][h]))
    BY ZenonT(30), <1>1 DEF FinalizerInv, PassRobots, PassWithdraws, RefusePCs, ReleasePCs, DeletePCs
  <1>3. CASE UNCHANGED ha
    BY ZenonT(30), <1>1, <1>3, IdleKeeps
       DEF FinalizerInv, CachesAsOf, CacheCovered, FinalizerCoversRobot, AsOf, Covered
  <1>4. CASE Current(pass.ha, h) /\ ha' = [ha EXCEPT ![h] = x]
    <2>1. x \in HarborAccess /\ x.ver = ha[h].ver + 1
      <3>1. ha[h] \in HarborAccess /\ [ha[h] EXCEPT !.fin = FALSE] \in HarborAccess
        BY ZenonT(30), <1>1, FinType DEF APIOK
      <3>2. Absent(ha[h].ver + 1).ver = ha[h].ver + 1
        BY Zenon DEF Absent
      <3> QED BY Zenon, <1>1, <3>1, <3>2, BumpedKeeps, WithoutFinalizerType DEF WithoutFinalizer
    <2> HIDE DEF x
    <2>2. CachesAsOf'
      BY ZenonT(30), <1>1, <1>4, <2>1, WriteAges DEF FinalizerInv
    <2>3. \A k \in HarborAccesses \ {h} : ha'[k] = ha[k]
      BY Zenon, <1>1, <1>4 DEF APIOK
    <2>4. CacheCovered' /\ FinalizerCoversRobot'
      BY ZenonT(30), <1>1, <1>2, <1>4, <2>3
         DEF FinalizerInv, CacheCovered, FinalizerCoversRobot, Covered, Owned, robotOwnedBy
    <2> QED BY Zenon, <1>1, <2>2, <2>4, IdleKeeps DEF FinalizerInv
  <1> QED BY Zenon, <1>3, <1>4 DEF releasePatch, deletePatch, RemoveFinalizer

(***************************************************************************)
(* The janitor and the environment.                                        *)
(***************************************************************************)
\* Without a selector a sweep never gets to release an object.
LEMMA SweepEnds ==
    ASSUME ~Selective, NEW s, NEW q,
           Continue(AfterRobot(s), q) \/ Continue(AfterRobots(s), q)
    PROVE  spc' \notin {"relist", "release"}
  BY Zenon DEF Continue, AfterRobot, AfterRobots, AfterSecrets, SweepDone, SweepOn

LEMMA SweepKeeps ==
    ASSUME FinalizerInv, TypeInv, TypeInv', ~Selective, sweepListRobots \/ SweepStep
    PROVE  FinalizerInv'
  <1>1. CASE sweepListRobots
    BY Zenon, <1>1, Split, Compare, RobotStepKeeps, SameRobotsKept
       DEF sweepListRobots, SweepOn, apiVars, harborVars, HarborOK
  <1>2. CASE listOwners
    <2>1. spc' \notin {"relist", "release"}
      BY Zenon, <1>2, SweepEnds DEF listOwners, SweepDone
    <2> QED BY Zenon, <1>2, <2>1, Split, Compare, RobotStepKeeps, SameRobotsKept
            DEF listOwners, apiVars, harborVars, HarborOK
  <1>3. CASE recheckRobot
    <2>1. spc' \notin {"relist", "release"}
      BY Zenon, <1>3, SweepEnds DEF recheckRobot, SweepOn
    <2> QED BY Zenon, <1>3, <2>1, Split, Compare, RobotStepKeeps, SameRobotsKept
            DEF recheckRobot, apiVars, harborVars, HarborOK
  <1>4. CASE deleteRobot
    <2>1. spc' \notin {"relist", "release"}
      BY Zenon, <1>4, SweepEnds DEF deleteRobot
    <2>2. OwnersKept
      BY Zenon, <1>4, DeleteKept, SameRobotsKept DEF deleteRobot
    <2> QED BY Zenon, <1>4, <2>1, <2>2, Split, Compare, RobotStepKeeps DEF deleteRobot, apiVars, HarborOK
  <1>5. CASE recheckSecret
    <2>1. spc' \notin {"relist", "release"}
      BY Zenon, <1>5, SweepEnds DEF recheckSecret, SweepOn
    <2> QED BY Zenon, <1>5, <2>1, Split, Compare, RobotStepKeeps, SameRobotsKept
            DEF recheckSecret, apiVars, harborVars, HarborOK
  <1>6. CASE deleteOrphanSecret
    <2>1. spc' \notin {"relist", "release"}
      BY Zenon, <1>6, SweepEnds DEF deleteOrphanSecret
    <2> QED BY Zenon, <1>6, <2>1, Split, Compare, RobotStepKeeps, SameRobotsKept
            DEF deleteOrphanSecret, harborVars, HarborOK
  <1>7. CASE relistRobots \/ releaseUnselected
    BY Zenon, <1>7 DEF relistRobots, releaseUnselected, FinalizerInv
  <1> QED BY Zenon, <1>1, <1>2, <1>3, <1>4, <1>5, <1>6, <1>7 DEF SweepStep

LEMMA UsersKeep ==
    ASSUME FinalizerInv, TypeInv, TypeInv', ~Selective, NEW h \in HarborAccesses,
           CreateHA(h) \/ EditSpec(h) \/ Relabel(h) \/ DeleteHA(h)
    PROVE  FinalizerInv'
  <1>1. APIOK /\ ha[h] \in HarborAccess /\ ha[h].ver + 1 \in Nat
    BY SMTT(20), Split DEF APIOK, HarborAccess
  <1>2. \E x \in HarborAccess :
           /\ ha' = [ha EXCEPT ![h] = x] /\ x.ver = ha[h].ver + 1
           /\ Covered(h) => x.exists /\ x.fin
    <2>1. CASE CreateHA(h)
      BY Zenon, <1>1, <2>1, FreshType DEF CreateHA, Covered
    <2>2. CASE EditSpec(h)
      <3>1. PICK s \in Specs : ha' = [ha EXCEPT ![h] = Bumped(WithSpec(ha[h], s), h)]
        BY ZenonT(30), <1>1, <2>2 DEF EditSpec, APIOK
      <3>2. /\ WithSpec(ha[h], s) \in HarborAccess
            /\ WithSpec(ha[h], s).exists = ha[h].exists /\ WithSpec(ha[h], s).fin = ha[h].fin
        BY Zenon, <1>1, WithSpecType
      <3>3. LET q == Bumped(WithSpec(ha[h], s), h) IN
            /\ q \in HarborAccess /\ q.ver = ha[h].ver + 1
            /\ q.exists = ha[h].exists /\ q.fin = ha[h].fin
        BY Zenon, <1>1, <3>2, BumpedKeeps
      <3> QED BY Zenon, <3>1, <3>3 DEF Covered
    <2>3. CASE Relabel(h)
      BY ZenonT(30), <2>3 DEF Relabel
    <2>4. CASE DeleteHA(h)
      <3> DEFINE d == [ha[h] EXCEPT !.del = TRUE]
      <3>1. d \in HarborAccess /\ d.exists = ha[h].exists /\ d.fin = ha[h].fin
        BY <1>1, Zenon DEF HarborAccess
      <3>2. \/ ha' = [ha EXCEPT ![h] = Bumped(d, h)]
            \/ ~ha[h].fin /\ ha' = [ha EXCEPT ![h] = Absent(ha[h].ver + 1)]
        BY ZenonT(30), <1>1, <2>4 DEF DeleteHA, APIOK
      <3> HIDE DEF d
      <3>3. Absent(ha[h].ver + 1) \in HarborAccess /\ Absent(ha[h].ver + 1).ver = ha[h].ver + 1
        BY Zenon, <1>1, Defaults DEF Absent
      <3>4. CASE ha' = [ha EXCEPT ![h] = Bumped(d, h)]
        <4>1. LET q == Bumped(d, h) IN
              /\ q \in HarborAccess /\ q.ver = ha[h].ver + 1
              /\ q.exists = d.exists /\ q.fin = d.fin
          BY Zenon, <1>1, <3>1, BumpedKeeps
        <4> QED BY Zenon, <3>1, <3>4, <4>1 DEF Covered
      <3>5. CASE ~ha[h].fin /\ ha' = [ha EXCEPT ![h] = Absent(ha[h].ver + 1)]
        BY Zenon, <3>3, <3>5 DEF Covered
      <3> QED BY Zenon, <3>2, <3>4, <3>5
    <2> QED BY Zenon, <2>1, <2>2, <2>3, <2>4
  <1> QED BY Zenon, <1>2, UserWriteKeeps DEF CreateHA, EditSpec, Relabel, DeleteHA

LEMMA AdminRobotKeeps ==
    ASSUME FinalizerInv, TypeInv, TypeInv', AdminRobot
    PROVE  FinalizerInv'
  <1>1. PICK r \in robots :
           \/ RobotAsOf(r, [r EXCEPT !.disabled = TRUE, !.adminOff = TRUE])
           \/ RobotAsOf(r, [r EXCEPT !.disabled = FALSE, !.adminOff = FALSE])
           \/ DeleteRobots({r.id})
           \/ RobotAsOf(r, [r EXCEPT !.perms = Star])
    BY Zenon DEF AdminRobot
  <1>2. r \in Robot
    BY Zenon, Split DEF HarborOK
  <1>3. ASSUME NEW b
        PROVE  LET q == [r EXCEPT !.disabled = b, !.adminOff = b] IN
               q.id = r.id /\ q.owner = r.owner
    BY <1>2, Zenon DEF Robot
  <1>4. [r EXCEPT !.perms = Star].id = r.id /\ [r EXCEPT !.perms = Star].owner = r.owner
    BY <1>2, Zenon DEF Robot
  <1>5. ASSUME NEW q, q.id = r.id, q.owner = r.owner, RobotAsOf(r, q)
        PROVE  OwnersKept
    BY Zenon, <1>5 DEF RobotAsOf, OwnersKept
  <1>6. OwnersKept
    <2>1. CASE \E b \in BOOLEAN : RobotAsOf(r, [r EXCEPT !.disabled = b, !.adminOff = b])
      BY Zenon, <1>3, <1>5, <2>1
    <2>2. CASE RobotAsOf(r, [r EXCEPT !.perms = Star])
      BY Zenon, <1>4, <1>5, <2>2
    <2>3. CASE DeleteRobots({r.id})
      BY Zenon, <2>3, DeleteKept
    <2> QED BY <1>1, <2>1, <2>2, <2>3, Zenon
  <1> QED BY Zenon, <1>6, Split, Compare, RobotStepKeeps
          DEF AdminRobot, apiVars, sweepVars, HarborOK, FinalizerInv

LEMMA PlantRobotKeeps ==
    ASSUME FinalizerInv, TypeInv, TypeInv', PlantRobot
    PROVE  FinalizerInv'
  <1>1. PICK n \in RobotNames, o \in {Foreign, Unclaimed} :
           robots' = robots \cup {[NoRobot EXCEPT !.id = nextID, !.name = n, !.owner = o, !.pw = nextID]}
    BY Zenon DEF PlantRobot
  <1> DEFINE new == [NoRobot EXCEPT !.id = nextID, !.name = n, !.owner = o, !.pw = nextID]
  <1>2. new.id = nextID /\ new.owner = o
    BY Defaults, Zenon DEF Robot
  <1>3. robots' = robots \cup {new}
    BY Zenon, <1>1
  <1> HIDE DEF new
  <1>4. nextID \in Nat /\ nextID' = nextID + 1 /\ o \notin HarborAccesses
    BY Zenon, Split, BridgeAssumption DEF PlantRobot, HarborOK
  <1>5. OwnersKept
    <2>1. new.id >= nextID /\ new.owner \notin HarborAccesses
      BY Zenon, <1>2, <1>4, Compare
    <2> QED BY Zenon, <1>3, <2>1 DEF OwnersKept
  <1> QED BY ZenonT(30), <1>4, <1>5, Compare, RobotStepKeeps DEF PlantRobot, apiVars, sweepVars, FinalizerInv

LEMMA SecretsKeep ==
    ASSUME FinalizerInv, TypeInv, TypeInv',
           AdminSecret \/ \E h \in HarborAccesses : PromisePasses(h)
    PROVE  FinalizerInv'
  <1>1. UNCHANGED <<ha, robots, nextID, cache, leader, passVars, spc>>
    BY ZenonT(30) DEF AdminSecret, PromisePasses, harborVars, sweepVars
  <1> QED BY Zenon, <1>1, Split, Compare, RobotStepKeeps, SameRobotsKept DEF HarborOK, FinalizerInv

LEMMA SyncCacheKeeps ==
    ASSUME FinalizerInv, TypeInv, TypeInv', NEW r \in Replicas, NEW h \in HarborAccesses,
           SyncCache(r, h)
    PROVE  FinalizerInv'
  <1>1. /\ CacheOK /\ ha[h] \in HarborAccess /\ ha[h].ver \in Nat
        /\ UNCHANGED <<ha, robots, nextID, leader, pc, pass, spc>>
        /\ cache' = [cache EXCEPT ![r][h] = ha[h]]
    BY Zenon, Split DEF APIOK, HarborAccess, SyncCache, apiVars, harborVars, passVars, sweepVars
  <1>2. \A q \in Replicas, k \in HarborAccesses :
           cache'[q][k] = IF q = r /\ k = h THEN ha[h] ELSE cache[q][k]
    BY Zenon, <1>1 DEF CacheOK
  <1>3. CachesAsOf'
    <2> SUFFICES ASSUME NEW q \in Replicas, NEW k \in HarborAccesses
                 PROVE  AsOf(cache[q][k], k)'
      BY Zenon DEF CachesAsOf, AsOf
    <2>1. CASE q = r /\ k = h
      BY Zenon, <1>1, <1>2, <2>1, Compare DEF AsOf
    <2>2. CASE ~(q = r /\ k = h)
      <3>1. cache'[q][k] = cache[q][k] /\ ha'[k] = ha[k]
        BY Zenon, <1>1, <1>2, <2>2
      <3>2. AsOf(cache[q][k], k)
        BY Zenon DEF FinalizerInv, CachesAsOf
      <3> QED BY Zenon, <3>1, <3>2 DEF AsOf
    <2> QED BY Zenon, <2>1, <2>2
  <1>4. CacheCovered'
    BY ZenonT(30), <1>1, <1>2 DEF FinalizerInv, CacheCovered, Serving, Covered, CacheOK
  <1>5. PassWithdraws'
    <2> SUFFICES ASSUME pc \in RefusePCs \cup DeletePCs, Current(pass.ha, pass.h)
                 PROVE  ~Serving(cache'[leader][pass.h])
      BY Zenon, <1>1 DEF PassWithdraws, Current
    <2>1. /\ pass.h \in HarborAccesses /\ pass.ha = ha[pass.h]
          /\ ~Accepted(pass.ha) \/ pass.ha.del
      BY ZenonT(30), PCFacts DEF FinalizerInv, PassCopy, AsOf, Current
    <2>2. ~Serving(cache[leader][pass.h]) /\ ~Serving(ha[pass.h])
      BY ZenonT(30), <2>1 DEF FinalizerInv, PassWithdraws, Serving
    <2> QED BY Zenon, <1>1, <1>2, <2>1, <2>2 DEF CacheOK
  <1>6. PassCopy' /\ PassCovered' /\ PassRobots' /\ FinalizerCoversRobot'
    BY ZenonT(30), <1>1 DEF FinalizerInv, PassCopy, PassCovered, PassRobots, FinalizerCoversRobot,
                AsOf, Covered, Owned, robotOwnedBy
  <1> QED BY ZenonT(30), <1>1, <1>3, <1>4, <1>5, <1>6 DEF FinalizerInv, TypeInv

LEMMA TakeoverKeeps ==
    ASSUME FinalizerInv, TypeInv, TypeInv', ~TakeoverLag, NEW r \in Replicas, Takeover(r)
    PROVE  FinalizerInv'
  <1>1. /\ CacheOK /\ \A h \in HarborAccesses : ha[h].ver \in Nat
        /\ UNCHANGED <<ha, robots>> /\ leader' = r /\ pc' = "idle" /\ spc' = "idle"
        /\ cache' = [cache EXCEPT ![leader] = ha] /\ (r = leader \/ cache[r] = ha)
    BY Zenon, Split DEF APIOK, HarborAccess, Takeover, apiVars, harborVars, Done, SweepDone
  <1>2. cache'[leader'] = ha /\ \A q \in Replicas : cache'[q] = ha \/ cache'[q] = cache[q]
    BY ZenonT(30), <1>1 DEF CacheOK
  <1>3. CachesAsOf'
    <2>1. ASSUME NEW q \in Replicas, NEW k \in HarborAccesses
          PROVE  AsOf(cache[q][k], k)'
      <3>1. CASE cache'[q] = ha
        BY Zenon, <1>1, <3>1, Compare DEF AsOf
      <3>2. CASE cache'[q] = cache[q]
        <4>1. AsOf(cache[q][k], k)
          BY Zenon DEF FinalizerInv, CachesAsOf
        <4> QED BY Zenon, <1>1, <3>2, <4>1 DEF AsOf
      <3> QED BY Zenon, <1>2, <3>1, <3>2
    <2> QED BY Zenon, <2>1 DEF CachesAsOf, AsOf
  <1>4. CacheCovered' /\ FinalizerCoversRobot'
    BY ZenonT(30), <1>1, <1>2 DEF FinalizerInv, CacheCovered, FinalizerCoversRobot, Serving, Covered
  <1> QED BY Zenon, <1>1, <1>3, <1>4, IdleKeeps

LEMMA PassStepKeeps ==
    ASSUME FinalizerInv, TypeInv, TypeInv', PassStep
    PROVE  FinalizerInv'
  BY ZenonT(30), getRobotSecretKeeps, ensureFinalizerKeeps, lookupRobotKeeps, createRobotKeeps,
     dropSecretKeeps, UpdatesKeep, RotationsKeep, putRobotSecretKeeps, rereadSecretKeeps,
     ListRobotsKeeps, DeleteListedKeeps, markStatusKeeps, refuseSecretKeeps,
     suspendLookupKeeps, revokeRobotKeeps, refuseStatusKeeps, releaseListKeeps,
     RemoveFinalizerKeeps, deleteSecretKeeps
     DEF PassStep

LEMMA InitFinalizer == Init => FinalizerInv
  <1> SUFFICES ASSUME Init PROVE FinalizerInv
    OBVIOUS
  <1>1. TypeInv /\ robots = {} /\ pc = "idle" /\ spc = "idle" /\ leader \in Replicas
    BY Zenon, InitType DEF Init
  <1>2. \A h \in HarborAccesses : ~ha[h].fin /\ ha[h].ver = 1
    <2>1. PICK s \in [HarborAccesses -> Specs] :
             ha = [h \in HarborAccesses |->
                     WithSpec([Absent(1) EXCEPT !.exists = TRUE, !.sel = TRUE], s[h])]
      BY Zenon DEF Init
    <2>2. \A h \in HarborAccesses :
             LET x == WithSpec([Absent(1) EXCEPT !.exists = TRUE, !.sel = TRUE], s[h]) IN
             x.ver = 1 /\ ~x.fin
      BY Zenon, FreshType
    <2> QED BY Zenon, <2>1, <2>2
  <1>3. \A r \in Replicas, h \in HarborAccesses : cache[r][h] = ha[h]
    BY ZenonT(30) DEF Init
  <1>4. CachesAsOf /\ CacheCovered
    BY Zenon, <1>1, <1>2, <1>3, Compare DEF CachesAsOf, CacheCovered, AsOf, Serving
  <1> QED BY ZenonT(30), <1>1, <1>4, PCFacts
          DEF FinalizerInv, TypeInv, FinalizerCoversRobot, PassCopy, PassCovered,
              PassWithdraws, PassRobots

LEMMA NextFinalizer ==
    ASSUME FinalizerInv, TypeInv, [Next]_vars, Undisturbed
    PROVE  FinalizerInv'
  <1>1. TypeInv' /\ ~Selective /\ ~TakeoverLag /\ ~ReleaseByHand
    BY Zenon, NextType DEF Undisturbed, ReleaseByHand, ByAdmin
  <1>2. CASE UNCHANGED vars
    <2>1. spc' \notin {"relist", "release"} /\ nextID' >= nextID
      BY Zenon, <1>2, Split, Compare DEF vars, FinalizerInv, HarborOK
    <2> QED BY Zenon, <1>1, <1>2, <2>1, RobotStepKeeps, SameRobotsKept DEF vars, passVars
  <1>3. CASE Bridge
    BY ZenonT(30), <1>1, <1>3, ReconcileKeeps, PassStepKeeps, CallFailsKeeps, SweepKeeps DEF Bridge
  <1>4. CASE Environment
    BY ZenonT(30), <1>1, <1>4, UsersKeep, AdminRobotKeeps, PlantRobotKeeps, SecretsKeep,
       SyncCacheKeeps, TakeoverKeeps DEF Environment
  <1> QED BY Zenon, <1>2, <1>3, <1>4 DEF Next

\* Without a selector, a stale takeover or a finalizer removed by hand, a
\* robot of a HarborAccess never exists without the finalizer that revokes
\* it, for any number of objects, replicas, edits and faults.
THEOREM FinalizerSafety ==
    ASSUME Undisturbed
    PROVE  Spec => []FinalizerCoversRobot
  <1>1. Init => FinalizerInv /\ TypeInv
    BY Zenon, InitFinalizer, InitType
  <1>2. FinalizerInv /\ TypeInv /\ [Next]_vars => FinalizerInv' /\ TypeInv'
    BY Zenon, NextFinalizer, NextType
  <1>3. FinalizerInv => FinalizerCoversRobot
    BY Zenon DEF FinalizerInv
  <1> QED BY <1>1, <1>2, <1>3, PTL DEF Spec
=============================================================================
